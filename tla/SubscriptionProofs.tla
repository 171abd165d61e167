------------------------- MODULE SubscriptionProofs -------------------------
(***************************************************************************)
(* A subscription from end to end, for any number of callers of            *)
(* Unsubscribe, notifications and places in the client's buffer.  That the *)
(* stream of notifications is implemented rests on where a notification is *)
(* while it travels: the server has written the numbers up to Sent, in     *)
(* order and without a gap (WireInv); the client has read those up to Got, *)
(* and its buffer and the one that dispatch holds go on where the user's   *)
(* channel stops (ClientInv).                                              *)
(***************************************************************************)
EXTENDS Subscription, TLAPS

Indices == 1..Len(conn)

\* Where the forwarding goroutine may be.
Phases == {"new", "select", "ended", "request", "write", "sent", "requested", "dial",
           "renewed", "stranded", "report", "end"}

\* The answer to the subscribe call is on the wire.
Accepted == \E i \in Indices : conn[i] = S!IdMsg

\* The server's buffer holds what was published before it was activated.
PendingInv ==
  /\ \A k \in 1..Len(pending) : pending[k] = k
  /\ ~activated => Len(pending) = published
  /\ call # "done" => ~activated
  /\ call \in {"run", "add", "respond"} => flushed = 0

\* The notification written last, while the connection can be written to.
Sent == IF activated THEN published ELSE flushed

\* Notifications are written in order, without a gap, and after the subscription's
\* id.
WireInv ==
  /\ \A i, j \in Indices : i < j /\ conn[i] > 0 => conn[j] <= 0 \/ conn[i] < conn[j]
  /\ \A i \in Indices : conn[i] > 1 => \E j \in Indices : j < i /\ conn[j] = conn[i] - 1
  /\ \A i, j \in Indices : i < j /\ conn[j] = S!IdMsg => conn[i] <= 0
  /\ \A i \in Indices : conn[i] <= published
  /\ S!Writable => /\ \A i \in Indices : conn[i] <= Sent
                   /\ Sent > 0 => \E i \in Indices : conn[i] = Sent

\* How many notifications the client's forwarding goroutine has, or will be given
\* by the deliver in progress.
Got == Len(received) + Len(buffer) + (IF disp = "deliver" THEN 1 ELSE 0)

\* Until the forwarding ends, the user's channel, the buffer and dispatch hold
\* consecutive notifications, and what is unread on the wire comes after them.
ClientInv ==
  /\ fwd = "new" => received = <<>> /\ buffer = <<>> /\ disp = "idle" /\ ~listed
  /\ fwd # "new" => Accepted
  /\ fwd = "select" =>
       /\ \A k \in 1..Len(buffer) : buffer[k] = Len(received) + k
       /\ disp = "deliver" => arrived = Got
       /\ Got <= published
       /\ ~cut => /\ \A i \in Indices : conn[i] > 0 => (i <= pos <=> conn[i] <= Got)
                  /\ Got > 0 => \E i \in Indices : conn[i] = Got

\* Only a subscription that was accepted is unsubscribed from; the answer comes
\* when it has ended.
UnsubInv ==
  /\ asked \/ unsub # "no" => Accepted
  /\ Accepted => call \notin {"run", "add", "respond"} /\ ~failed
  /\ call # "run" /\ ~failed => created
  /\ call \notin {"run", "add"} /\ created => inSubs \/ errChan = "closed"
  /\ unsub = "respond" \/ (\E i \in Indices : conn[i] = S!UnsubMsg) => errChan = "closed"

\* The server's error channel is closed by who removes the subscription.
ServerErrInv ==
  /\ ~serverPanicked
  /\ inSubs => errChan = "open"
  /\ call \in {"run", "add"} => ~inSubs /\ errChan = "open"

\* The forwarding ends when the server was asked, without a connection, or when
\* the server could not be asked.
EndInv ==
  /\ cut => ~up
  /\ fwd # "new" /\ ~listed => cut
  /\ disp = "close" => ~up /\ quitErr \in {"connErr", "clientQuit"}
  /\ reason \in {"connErr", "clientQuit"} \/ quitErr # "none" => ~up
  /\ fwd \in {"renewed", "stranded"} => ~up
  /\ fwd \in {"report", "end"} => errChan = "closed" \/ ~up \/ unsent

\* One caller of Unsubscribe runs the function of errOnce, and closes sub.err
\* after the forwarding goroutine has sent its error.
OnceInv ==
  /\ ~clientPanicked
  /\ \A u \in Users : user[u] \in {"quit", "wait"} => once = "running"
  /\ \A u, v \in Users : user[u] \in {"quit", "wait"} /\ user[v] \in {"quit", "wait"} => u = v
  /\ errClosed => once = "done" /\ fwd = "end"
  /\ once = "done" => fwd = "end"
  /\ \A u \in Users : user[u] = "returned" => once = "done"

IInv ==
  /\ TypeOK /\ PendingInv /\ WireInv /\ ClientInv
  /\ UnsubInv /\ ServerErrInv /\ EndInv /\ OnceInv
-----------------------------------------------------------------------------
\* A step that leaves the variables of a part of the invariant alone keeps it.
LEMMA Kept ==
  ASSUME IInv
  PROVE  /\ UNCHANGED serverVars => S!TypeOK'
         /\ UNCHANGED clientVars => C!TypeOK'
         /\ UNCHANGED <<pending, activated, published, call, flushed>> => PendingInv'
         /\ UNCHANGED <<conn, published, up, broken, activated, flushed>> => WireInv'
         /\ UNCHANGED <<conn, published, fwd, received, buffer, disp, listed, arrived, pos, cut>>
              => ClientInv'
         /\ UNCHANGED <<conn, asked, unsub, call, failed, created, inSubs, errChan>> => UnsubInv'
         /\ UNCHANGED <<serverPanicked, inSubs, errChan, call>> => ServerErrInv'
         /\ UNCHANGED <<cut, up, fwd, listed, disp, quitErr, reason, errChan, unsent>> => EndInv'
         /\ UNCHANGED <<clientPanicked, user, once, errClosed, fwd>> => OnceInv'
<1>1. UNCHANGED serverVars => S!TypeOK'
  BY DEF IInv, TypeOK, S!TypeOK, serverVars
<1>2. UNCHANGED clientVars => C!TypeOK'
  BY DEF IInv, TypeOK, C!TypeOK, clientVars
<1>3. UNCHANGED <<pending, activated, published, call, flushed>> => PendingInv'
  BY DEF IInv, PendingInv
<1>4. UNCHANGED <<conn, published, up, broken, activated, flushed>> => WireInv'
  BY DEF IInv, WireInv, Indices, Sent, S!Writable
<1>5. UNCHANGED <<conn, published, fwd, received, buffer, disp, listed, arrived, pos, cut>>
        => ClientInv'
  BY DEF IInv, ClientInv, Indices, Accepted, Got
<1>6. UNCHANGED <<conn, asked, unsub, call, failed, created, inSubs, errChan>> => UnsubInv'
  BY DEF IInv, UnsubInv, Indices, Accepted
<1>7. UNCHANGED <<serverPanicked, inSubs, errChan, call>> => ServerErrInv'
  BY DEF IInv, ServerErrInv
<1>8. UNCHANGED <<cut, up, fwd, listed, disp, quitErr, reason, errChan, unsent>> => EndInv'
  BY DEF IInv, EndInv
<1>9. UNCHANGED <<clientPanicked, user, once, errClosed, fwd>> => OnceInv'
  BY DEF IInv, OnceInv
<1> QED BY <1>1, <1>2, <1>3, <1>4, <1>5, <1>6, <1>7, <1>8, <1>9

\* One message more, x, is on the wire.
Extended(x) ==
  LET n == Len(conn) + 1 IN
  /\ Len(conn) \in Nat /\ conn'[n] = x /\ x \in Int /\ n \in Indices'
  /\ \A i \in Indices : conn'[i] = conn[i] /\ i \in Indices' /\ i < n /\ i \in Nat /\ conn[i] \in Int
  /\ \A i \in Indices' : i \in Nat /\ i <= n /\ (i \in Indices \/ i = n)
  /\ pos \in 0..Len(conn)

\* That is what appending a message does.
LEMMA Appended ==
  ASSUME IInv, NEW x \in S!UnsubMsg..MaxNotifs, conn' = Append(conn, x)
  PROVE  Extended(x) /\ conn' \in Seq(S!UnsubMsg..MaxNotifs) /\ pos \in 0..Len(conn')
<1> DEFINE M == S!UnsubMsg..MaxNotifs
<1>1. conn \in Seq(M) /\ pos \in 0..Len(conn) /\ x \in M
  BY DEF IInv, TypeOK, S!TypeOK
<1> HIDE DEF M
<1>2. Len(conn) \in Nat /\ \A i \in 1..Len(conn) : conn[i] \in M BY <1>1
<1>3. /\ conn' \in Seq(M) /\ Len(conn') = Len(conn) + 1 /\ conn'[Len(conn) + 1] = x
      /\ \A i \in 1..Len(conn) : conn'[i] = conn[i]
  BY <1>1
<1>4. /\ \A i \in Indices : i \in Indices' /\ i < Len(conn) + 1 /\ i \in Nat
      /\ \A i \in Indices' : i \in Nat /\ i <= Len(conn) + 1 /\ (i \in Indices \/ i = Len(conn) + 1)
      /\ Len(conn) + 1 \in Indices'
      /\ pos \in 0..Len(conn')
  BY <1>1, <1>2, <1>3 DEF Indices
<1>5. x \in Int /\ \A i \in Indices : conn[i] \in Int
  BY <1>1, <1>2, BoundAssumption DEF Indices, M, S!UnsubMsg
<1> QED BY <1>1, <1>2, <1>3, <1>4, <1>5 DEF Indices, Extended, M

\* The next notification is written: order and absence of gaps are kept.
LEMMA NextWritten ==
  ASSUME IInv, S!Writable, Sent \in Nat, Sent + 1 <= published',
         published <= published', published' \in Nat, Sent' = Sent + 1,
         Extended(Sent + 1)
  PROVE  WireInv'
<1> DEFINE n == Len(conn) + 1
           x == Sent + 1
<1>1. /\ Len(conn) \in Nat /\ conn'[n] = x
      /\ \A i \in Indices : conn'[i] = conn[i] /\ i \in Indices' /\ i < n /\ i \in Nat /\ conn[i] \in Int
      /\ \A i \in Indices' : i \in Indices \/ i = n
      /\ \A i \in Indices' : i \in Nat /\ i <= n
      /\ n \in Indices'
  BY DEF Extended
<1>2. /\ \A i \in Indices : conn[i] <= Sent /\ conn[i] <= published
      /\ Sent > 0 => \E i \in Indices : conn[i] = Sent
  BY DEF IInv, WireInv
<1>3. x \in Nat /\ x > Sent /\ x > 0 /\ x - 1 = Sent /\ Sent' = x /\ x <= published' OBVIOUS
<1>4. published \in Nat BY DEF IInv, TypeOK, S!TypeOK
<1> HIDE DEF n, x
<1>5. \A i, j \in Indices' : i < j /\ conn'[i] > 0 => conn'[j] <= 0 \/ conn'[i] < conn'[j]
  <2> SUFFICES ASSUME NEW i \in Indices', NEW j \in Indices', i < j, conn'[i] > 0
               PROVE  conn'[j] <= 0 \/ conn'[i] < conn'[j]
    OBVIOUS
  <2>1. CASE j \in Indices
    <3>1. i \in Indices BY <2>1, <1>1
    <3> QED BY <2>1, <3>1, <1>1 DEF IInv, WireInv
  <2>2. CASE j = n
    <3>1. i \in Indices BY <2>2, <1>1
    <3> QED BY <2>2, <3>1, <1>1, <1>2, <1>3
  <2> QED BY <2>1, <2>2, <1>1
<1>6. \A i \in Indices' : conn'[i] > 1 => \E j \in Indices' : j < i /\ conn'[j] = conn'[i] - 1
  <2> SUFFICES ASSUME NEW i \in Indices', conn'[i] > 1
               PROVE  \E j \in Indices' : j < i /\ conn'[j] = conn'[i] - 1
    OBVIOUS
  <2>1. CASE i \in Indices
    <3>1. PICK j \in Indices : j < i /\ conn[j] = conn[i] - 1
      BY <2>1, <1>1 DEF IInv, WireInv
    <3> QED BY <2>1, <3>1, <1>1
  <2>2. CASE i = n
    <3>1. PICK j \in Indices : conn[j] = Sent BY <2>2, <1>1, <1>2, <1>3
    <3> QED BY <2>2, <3>1, <1>1, <1>3
  <2> QED BY <2>1, <2>2, <1>1
<1>7. \A i, j \in Indices' : i < j /\ conn'[j] = S!IdMsg => conn'[i] <= 0
  <2> SUFFICES ASSUME NEW i \in Indices', NEW j \in Indices', i < j, conn'[j] = S!IdMsg
               PROVE  conn'[i] <= 0
    OBVIOUS
  <2>1. CASE j \in Indices
    <3>1. i \in Indices BY <2>1, <1>1
    <3> QED BY <2>1, <3>1, <1>1 DEF IInv, WireInv
  <2>2. CASE j = n
    <3>1. i \in Indices BY <2>2, <1>1
    <3> QED BY <2>2, <3>1, <1>1, <1>2, <1>3 DEF S!IdMsg
  <2> QED BY <2>1, <2>2, <1>1
<1>8. \A i \in Indices' : conn'[i] <= published' /\ conn'[i] <= Sent'
  BY <1>1, <1>2, <1>3, <1>4
<1>9. \E i \in Indices' : conn'[i] = Sent' BY <1>1, <1>3
<1> QED BY <1>5, <1>6, <1>7, <1>8, <1>9 DEF WireInv

\* An answer is written: nothing changes for the notifications.
LEMMA AnswerWritten ==
  ASSUME IInv, NEW x \in Int, x <= 0, x = S!IdMsg => S!Writable /\ Sent = 0,
         UNCHANGED <<up, broken, published, activated, flushed>>,
         Extended(x)
  PROVE  WireInv'
<1> DEFINE n == Len(conn) + 1
<1>1. /\ Len(conn) \in Nat /\ conn'[n] = x
      /\ \A i \in Indices : conn'[i] = conn[i] /\ i \in Indices' /\ i < n /\ i \in Nat /\ conn[i] \in Int
      /\ \A i \in Indices' : i \in Indices \/ i = n
      /\ \A i \in Indices' : i \in Nat /\ i <= n
      /\ x \in Int
  BY DEF Extended
<1>2. Sent' = Sent /\ Sent \in Nat /\ published \in Nat /\ published' = published /\ S!Writable' = S!Writable
  BY DEF Sent, S!Writable, IInv, TypeOK, S!TypeOK
<1> HIDE DEF n
<1>3. \A i, j \in Indices' : i < j /\ conn'[i] > 0 => conn'[j] <= 0 \/ conn'[i] < conn'[j]
  <2> SUFFICES ASSUME NEW i \in Indices', NEW j \in Indices', i < j, conn'[i] > 0
               PROVE  conn'[j] <= 0 \/ conn'[i] < conn'[j]
    OBVIOUS
  <2>1. CASE j \in Indices
    <3>1. i \in Indices BY <2>1, <1>1
    <3> QED BY <2>1, <3>1, <1>1 DEF IInv, WireInv
  <2>2. CASE j = n
    <3>1. i \in Indices BY <2>2, <1>1
    <3> QED BY <2>2, <3>1, <1>1, <1>2
  <2> QED BY <2>1, <2>2, <1>1
<1>4. \A i \in Indices' : conn'[i] > 1 => \E j \in Indices' : j < i /\ conn'[j] = conn'[i] - 1
  <2> SUFFICES ASSUME NEW i \in Indices', conn'[i] > 1
               PROVE  \E j \in Indices' : j < i /\ conn'[j] = conn'[i] - 1
    OBVIOUS
  <2>1. i \in Indices BY <1>1
  <2>2. PICK j \in Indices : j < i /\ conn[j] = conn[i] - 1
    BY <2>1, <1>1 DEF IInv, WireInv
  <2> QED BY <2>1, <2>2, <1>1
<1>5. \A i, j \in Indices' : i < j /\ conn'[j] = S!IdMsg => conn'[i] <= 0
  <2> SUFFICES ASSUME NEW i \in Indices', NEW j \in Indices', i < j, conn'[j] = S!IdMsg
               PROVE  conn'[i] <= 0
    OBVIOUS
  <2>1. CASE j \in Indices
    <3>1. i \in Indices BY <2>1, <1>1
    <3> QED BY <2>1, <3>1, <1>1 DEF IInv, WireInv
  <2>2. CASE j = n
    <3>1. i \in Indices BY <2>2, <1>1
    <3> QED BY <2>2, <3>1, <1>1, <1>2 DEF IInv, WireInv
  <2> QED BY <2>1, <2>2, <1>1
<1>6. \A i \in Indices' : conn'[i] <= published' /\ (S!Writable' => conn'[i] <= Sent')
  BY <1>1, <1>2 DEF IInv, WireInv
<1>7. S!Writable' /\ Sent' > 0 => \E i \in Indices' : conn'[i] = Sent'
  BY <1>1, <1>2 DEF IInv, WireInv
<1> QED BY <1>3, <1>4, <1>5, <1>6, <1>7 DEF WireInv

\* What the server writes is not yet read by the client.
LEMMA WrittenUnread ==
  ASSUME IInv, S!Writable, NEW x \in Int, x > 0 => x > Sent,
         published <= published', published' \in Nat, Extended(x),
         UNCHANGED <<fwd, received, buffer, disp, listed, arrived, pos, cut>>
  PROVE  ClientInv'
<1> DEFINE n == Len(conn) + 1
<1>1. /\ Len(conn) \in Nat /\ conn'[n] = x /\ pos \in 0..Len(conn)
      /\ \A i \in Indices : conn'[i] = conn[i] /\ i \in Indices' /\ i < n /\ i \in Nat /\ conn[i] \in Int
      /\ \A i \in Indices' : i \in Indices \/ i = n
      /\ \A i \in Indices' : i \in Nat /\ i <= n
      /\ x \in Int
  BY DEF Extended
<1>2. /\ Sent \in Nat /\ published \in Nat
      /\ \A i \in Indices : conn[i] <= Sent
      /\ ~cut
  BY DEF Sent, IInv, TypeOK, S!TypeOK, WireInv, EndInv, S!Writable
<1>3. Got \in Nat /\ Got' = Got
  BY DEF Got, IInv, TypeOK, C!TypeOK
<1>4. n \in Nat /\ ~(n <= pos) BY <1>1
<1> HIDE DEF n
<1>5. Accepted => Accepted' BY <1>1 DEF Accepted
<1>6. ASSUME fwd = "select"
      PROVE  /\ \A i \in Indices' : conn'[i] > 0 => (i <= pos <=> conn'[i] <= Got)
             /\ Got > 0 => \E i \in Indices' : conn'[i] = Got
  <2>1. /\ \A i \in Indices : conn[i] > 0 => (i <= pos <=> conn[i] <= Got)
        /\ Got > 0 => \E i \in Indices : conn[i] = Got
    BY <1>6, <1>2 DEF IInv, ClientInv
  <2>2. Got <= Sent BY <2>1, <1>2, <1>3
  <2>3. \A i \in Indices' : conn'[i] > 0 => (i <= pos <=> conn'[i] <= Got)
    BY <2>1, <2>2, <1>1, <1>2, <1>3, <1>4
  <2> QED BY <2>1, <2>3, <1>1
<1>7. fwd = "select" => /\ \A k \in 1..Len(buffer) : buffer[k] = Len(received) + k
                        /\ disp = "deliver" => arrived = Got
                        /\ Got <= published
  BY DEF IInv, ClientInv
<1>8. fwd = "select" => Got <= published' BY <1>2, <1>3, <1>7
<1>9. /\ fwd = "new" => received = <<>> /\ buffer = <<>> /\ disp = "idle" /\ ~listed
      /\ fwd # "new" => Accepted
  BY DEF IInv, ClientInv
<1> QED BY <1>3, <1>5, <1>6, <1>7, <1>8, <1>9 DEF ClientInv
-----------------------------------------------------------------------------
(* The server *)

\* A message that is written, or not because the connection cannot be written to, keeps the
\* types; what else the step changes must.
LEMMA WritesType ==
  ASSUME IInv, NEW x \in S!UnsubMsg..MaxNotifs, S!Writes(x)
  PROVE  /\ conn' \in Seq(S!UnsubMsg..MaxNotifs) /\ pos \in 0..Len(conn')
         /\ S!Writable => Extended(x)
         /\ ~S!Writable => conn' = conn
<1>1. CASE S!Writable
  <2>1. conn' = Append(conn, x) BY <1>1 DEF S!Writes
  <2> QED BY <1>1, <2>1, Appended
<1>2. CASE ~S!Writable
  <2>1. conn' = conn BY <1>2 DEF S!Writes
  <2> QED BY <1>2, <2>1 DEF IInv, TypeOK, S!TypeOK
<1> QED BY <1>1, <1>2

\* The subscribe call up to its answer.
LEMMA SubscribeCallInv ==
  ASSUME IInv, S!CreateSubscription \/ S!CallReturns \/ S!AddSubscriptions,
         UNCHANGED <<clientVars, wireVars>>
  PROVE  IInv'
<1>0. /\ UNCHANGED <<up, broken, published, pending, flushed, activated, errChan, unsub, closing, conn,
                     serverPanicked>>
      /\ UNCHANGED clientVars /\ UNCHANGED <<caller, pos, asked, cut>>
      /\ UNCHANGED <<arrived, listed, disp, quitErr, fwd, reason, buffer, received, unsent, user,
                     once, errVal, errClosed, clientPanicked>>
  BY DEF S!CreateSubscription, S!CallReturns, S!AddSubscriptions, wireVars, clientVars
<1>1. WireInv' /\ ClientInv' /\ EndInv' /\ OnceInv' /\ C!TypeOK' BY <1>0, Kept
<1>2. Accepted' = Accepted /\ Indices' = Indices BY <1>0 DEF Accepted, Indices
<1>3. CASE S!CreateSubscription
  <2>1. call = "run" /\ created' = TRUE /\ UNCHANGED <<call, failed, inSubs>>
    BY <1>3 DEF S!CreateSubscription
  <2>2. TypeOK' BY <1>0, <1>1, <2>1 DEF IInv, TypeOK, S!TypeOK
  <2>3. PendingInv' /\ ServerErrInv' BY <1>0, <2>1, Kept
  <2>4. UnsubInv' BY <1>0, <1>2, <2>1 DEF IInv, UnsubInv
  <2> QED BY <1>1, <2>2, <2>3, <2>4 DEF IInv
<1>4. CASE S!CallReturns
  <2>1. /\ call = "run" /\ call' = "add" /\ UNCHANGED <<created, inSubs>>
        /\ failed' \in BOOLEAN /\ (~failed' => created)
    BY <1>4 DEF S!CallReturns
  <2>2. TypeOK' BY <1>0, <1>1, <2>1 DEF IInv, TypeOK, S!TypeOK
  <2>3. PendingInv' BY <1>0, <2>1 DEF IInv, PendingInv
  <2>4. ServerErrInv' BY <1>0, <2>1 DEF IInv, ServerErrInv
  <2>5. UnsubInv' BY <1>0, <1>2, <2>1 DEF IInv, UnsubInv
  <2> QED BY <1>1, <2>2, <2>3, <2>4, <2>5 DEF IInv
<1>5. CASE S!AddSubscriptions
  <2>1. call = "add" /\ call' = "respond" /\ UNCHANGED <<created, failed>> /\ inSubs' = created
    BY <1>5 DEF S!AddSubscriptions
  <2>2. TypeOK' BY <1>0, <1>1, <2>1 DEF IInv, TypeOK, S!TypeOK
  <2>3. PendingInv' BY <1>0, <2>1 DEF IInv, PendingInv
  <2>4. ServerErrInv' BY <1>0, <2>1 DEF IInv, ServerErrInv
  <2>5. UnsubInv' BY <1>0, <1>2, <2>1 DEF IInv, UnsubInv
  <2> QED BY <1>1, <2>2, <2>3, <2>4, <2>5 DEF IInv
<1> QED BY <1>3, <1>4, <1>5

\* The answer to the subscribe call: the id comes before any notification.
LEMMA RespondInv ==
  ASSUME IInv, S!Respond, UNCHANGED <<clientVars, wireVars>>
  PROVE  IInv'
<1> DEFINE x == IF failed THEN S!ErrMsg ELSE S!IdMsg
<1>0. /\ UNCHANGED <<up, broken, created, failed, published, pending, flushed, activated, inSubs, errChan,
                     unsub, closing, serverPanicked>>
      /\ call = "respond" /\ call' = "activate" /\ S!Writes(x)
      /\ UNCHANGED clientVars /\ UNCHANGED <<caller, pos, asked, cut>>
      /\ UNCHANGED <<arrived, listed, disp, quitErr, fwd, reason, buffer, received, unsent, user,
                     once, errVal, errClosed, clientPanicked>>
  BY DEF S!Respond, wireVars, clientVars
<1>1. /\ x \in S!UnsubMsg..MaxNotifs /\ x \in Int /\ x <= 0 /\ x # S!UnsubMsg
      /\ x = S!IdMsg => failed = FALSE
  BY BoundAssumption DEF S!ErrMsg, S!IdMsg, S!UnsubMsg, IInv, TypeOK, S!TypeOK
<1>2. /\ conn' \in Seq(S!UnsubMsg..MaxNotifs) /\ pos \in 0..Len(conn')
      /\ S!Writable => Extended(x)
      /\ ~S!Writable => conn' = conn
  BY <1>0, <1>1, WritesType
<1>3. Sent = 0 /\ published \in Nat BY <1>0 DEF Sent, IInv, PendingInv, TypeOK, S!TypeOK
<1> HIDE DEF x
<1>4. EndInv' /\ OnceInv' /\ C!TypeOK' BY <1>0, Kept
<1>5. TypeOK' BY <1>0, <1>2, <1>4 DEF IInv, TypeOK, S!TypeOK
<1>6. PendingInv' BY <1>0 DEF IInv, PendingInv
<1>7. ServerErrInv' BY <1>0 DEF IInv, ServerErrInv
<1>8. WireInv' /\ ClientInv'
  <2>1. CASE S!Writable BY <2>1, <1>0, <1>1, <1>2, <1>3, AnswerWritten, WrittenUnread
  <2>2. CASE ~S!Writable BY <2>2, <1>0, <1>2, Kept
  <2> QED BY <2>1, <2>2
<1>9. /\ Accepted' => Accepted \/ failed = FALSE
      /\ Accepted => Accepted'
      /\ (\E i \in Indices' : conn'[i] = S!UnsubMsg) => \E i \in Indices : conn[i] = S!UnsubMsg
  <2>1. CASE S!Writable BY <2>1, <1>1, <1>2 DEF Extended, Accepted
  <2>2. CASE ~S!Writable BY <2>2, <1>2 DEF Accepted, Indices
  <2> QED BY <2>1, <2>2
<1>10. UnsubInv' BY <1>0, <1>9 DEF IInv, UnsubInv
<1> QED BY <1>4, <1>5, <1>6, <1>7, <1>8, <1>10 DEF IInv

\* activate: the buffered notifications are written, in order.
LEMMA ActivateInv ==
  ASSUME IInv, S!ActivateSends \/ S!ActivateEnds, UNCHANGED <<clientVars, wireVars>>
  PROVE  IInv'
<1>0. /\ UNCHANGED <<up, broken, created, failed, published, pending, inSubs, errChan, unsub, closing,
                     serverPanicked>>
      /\ call \in {"activate", "flush"} /\ call' \in {"flush", "done"}
      /\ UNCHANGED clientVars /\ UNCHANGED <<caller, pos, asked, cut>>
      /\ UNCHANGED <<arrived, listed, disp, quitErr, fwd, reason, buffer, received, unsent, user,
                     once, errVal, errClosed, clientPanicked>>
  BY DEF S!ActivateSends, S!ActivateEnds, wireVars, clientVars
<1>1. EndInv' /\ OnceInv' /\ C!TypeOK' BY <1>0, Kept
<1>2. ServerErrInv' BY <1>0 DEF IInv, ServerErrInv
<1>3. /\ activated = FALSE /\ Len(pending) = published /\ Sent = flushed
      /\ flushed \in Nat /\ published \in 0..MaxNotifs /\ flushed <= Len(pending)
      /\ \A k \in 1..Len(pending) : pending[k] = k
  BY <1>0 DEF Sent, IInv, PendingInv, TypeOK, S!TypeOK
<1>4. CASE S!ActivateSends /\ S!Writable
  <2>1. /\ flushed < Len(pending) /\ flushed' = flushed + 1 /\ call' = "flush"
        /\ UNCHANGED activated /\ S!Writes(pending[flushed + 1])
    BY <1>4 DEF S!ActivateSends
  <2>2. pending[flushed + 1] = flushed + 1 /\ flushed + 1 \in S!UnsubMsg..MaxNotifs
    BY <1>3, <2>1, BoundAssumption DEF S!UnsubMsg
  <2>3. Extended(flushed + 1) /\ conn' \in Seq(S!UnsubMsg..MaxNotifs) /\ pos \in 0..Len(conn')
    BY <1>4, <2>1, <2>2, WritesType
  <2>4. Sent' = Sent + 1 BY <1>3, <2>1 DEF Sent
  <2>5. WireInv' BY <1>0, <1>3, <1>4, <2>1, <2>3, <2>4, NextWritten
  <2>6. ClientInv' BY <1>0, <1>3, <1>4, <2>1, <2>3, WrittenUnread
  <2>7. flushed' \in 0..Len(pending') BY <1>0, <1>3, <2>1
  <2>8. TypeOK' BY <1>0, <1>1, <2>1, <2>3, <2>7 DEF IInv, TypeOK, S!TypeOK
  <2>9. PendingInv' BY <1>0, <1>3, <2>1 DEF PendingInv
  <2>10. /\ Accepted' <=> Accepted
         /\ (\E i \in Indices' : conn'[i] = S!UnsubMsg) => \E i \in Indices : conn[i] = S!UnsubMsg
    BY <1>3, <2>3 DEF Extended, Accepted, S!UnsubMsg, S!IdMsg
  <2>11. UnsubInv' BY <1>0, <2>10, <2>1 DEF IInv, UnsubInv
  <2> QED BY <1>1, <1>2, <2>5, <2>6, <2>8, <2>9, <2>11 DEF IInv
<1>5. CASE S!ActivateSends /\ ~S!Writable
  <2>1. UNCHANGED <<conn, flushed, activated>> /\ call' = "done"
    BY <1>5 DEF S!ActivateSends, S!Writes
  <2>2. WireInv' /\ ClientInv' BY <1>0, <2>1, Kept
  <2>3. TypeOK' BY <1>0, <1>1, <2>1 DEF IInv, TypeOK, S!TypeOK
  <2>4. PendingInv' BY <1>0, <2>1 DEF IInv, PendingInv
  <2>5. UnsubInv' BY <1>0, <2>1 DEF IInv, UnsubInv, Accepted, Indices
  <2> QED BY <1>1, <1>2, <2>2, <2>3, <2>4, <2>5 DEF IInv
<1>6. CASE S!ActivateEnds
  <2>1. flushed = Len(pending) /\ UNCHANGED <<conn, flushed>> /\ activated' = TRUE /\ call' = "done"
    BY <1>6 DEF S!ActivateEnds
  <2>2. Sent' = Sent BY <1>0, <1>3, <2>1 DEF Sent
  <2>3. WireInv' BY <1>0, <2>1, <2>2 DEF IInv, WireInv, Indices, S!Writable
  <2>4. ClientInv' BY <1>0, <2>1, Kept
  <2>5. TypeOK' BY <1>0, <1>1, <2>1 DEF IInv, TypeOK, S!TypeOK
  <2>6. PendingInv' BY <1>0, <2>1 DEF IInv, PendingInv
  <2>7. UnsubInv' BY <1>0, <2>1 DEF IInv, UnsubInv, Accepted, Indices
  <2> QED BY <1>1, <1>2, <2>3, <2>4, <2>5, <2>6, <2>7 DEF IInv
<1> QED BY <1>4, <1>5, <1>6

\* Notify: buffered, or written as the next notification.
LEMMA NotifyInv ==
  ASSUME IInv, S!Notify, UNCHANGED <<clientVars, wireVars>>
  PROVE  IInv'
<1>0. /\ UNCHANGED <<up, broken, call, created, failed, flushed, activated, inSubs, errChan, unsub, closing,
                     serverPanicked>>
      /\ published < MaxNotifs /\ published' = published + 1
      /\ UNCHANGED clientVars /\ UNCHANGED <<caller, pos, asked, cut>>
      /\ UNCHANGED <<arrived, listed, disp, quitErr, fwd, reason, buffer, received, unsent, user,
                     once, errVal, errClosed, clientPanicked>>
  BY DEF S!Notify, wireVars, clientVars
<1>1. EndInv' /\ OnceInv' /\ C!TypeOK' /\ ServerErrInv' BY <1>0, Kept
<1>2. /\ published \in Nat /\ published' \in Nat /\ published' \in 1..MaxNotifs
      /\ published' > published /\ flushed \in 0..Len(pending)
      /\ pending \in Seq(1..MaxNotifs) /\ Len(pending) \in Nat
  BY <1>0, BoundAssumption DEF IInv, TypeOK, S!TypeOK
<1>3. CASE ~activated
  <2>1. pending' = Append(pending, published + 1) /\ UNCHANGED conn
    BY <1>3 DEF S!Notify, S!Buffers
  <2>2. Len(pending) = published /\ \A k \in 1..Len(pending) : pending[k] = k
    BY <1>3 DEF IInv, PendingInv
  <2>3. /\ pending' \in Seq(1..MaxNotifs) /\ Len(pending') = published + 1
        /\ \A k \in 1..Len(pending') : pending'[k] = k
    BY <1>0, <1>2, <2>1, <2>2
  <2>4. PendingInv' BY <1>0, <1>3, <2>3 DEF IInv, PendingInv
  <2>5. Sent' = Sent /\ Indices' = Indices BY <1>0, <1>3, <2>1 DEF Sent, Indices
  <2>6. \A i \in Indices : conn[i] \in Int
    BY BoundAssumption DEF IInv, TypeOK, S!TypeOK, Indices, S!UnsubMsg
  <2>7. WireInv'
    <3>1. \A i \in Indices : conn[i] <= published' BY <1>2, <2>6 DEF IInv, WireInv
    <3> QED BY <1>0, <2>1, <2>5, <3>1 DEF IInv, WireInv, S!Writable
  <2>8. ClientInv'
    <3>1. Got' = Got /\ Got \in Nat /\ Accepted' = Accepted
      BY <1>0, <2>1 DEF Got, Accepted, Indices, IInv, TypeOK, C!TypeOK
    <3>2. fwd = "select" => Got <= published' BY <1>2, <3>1 DEF IInv, ClientInv
    <3> QED BY <1>0, <2>1, <2>5, <3>1, <3>2 DEF IInv, ClientInv
  <2>9. flushed' \in 0..Len(pending') BY <1>0, <1>2, <2>2, <2>3
  <2>10. TypeOK' BY <1>0, <1>1, <1>2, <2>1, <2>3, <2>9 DEF IInv, TypeOK, S!TypeOK
  <2>11. UnsubInv' BY <1>0, <2>1, Kept
  <2> QED BY <1>1, <2>4, <2>7, <2>8, <2>10, <2>11 DEF IInv
<1>4. CASE activated
  <2>1. S!Writes(published + 1) /\ UNCHANGED pending BY <1>4 DEF S!Notify, S!Buffers
  <2>2. published + 1 \in S!UnsubMsg..MaxNotifs BY <1>0, <1>2 DEF S!UnsubMsg
  <2>3. /\ conn' \in Seq(S!UnsubMsg..MaxNotifs) /\ pos \in 0..Len(conn')
        /\ S!Writable => Extended(published + 1)
        /\ ~S!Writable => conn' = conn
    BY <2>1, <2>2, WritesType
  <2>4. Sent = published /\ Sent' = published + 1 BY <1>0, <1>4 DEF Sent
  <2>5. PendingInv' BY <1>0, <1>4, <2>1 DEF IInv, PendingInv
  <2>6. TypeOK' BY <1>0, <1>1, <1>2, <2>1, <2>3 DEF IInv, TypeOK, S!TypeOK
  <2>7. CASE S!Writable
    <3>1. Extended(Sent + 1) BY <2>3, <2>4, <2>7
    <3>2. WireInv' BY <1>0, <1>2, <2>4, <2>7, <3>1, NextWritten
    <3>3. ClientInv' BY <1>0, <1>2, <2>3, <2>4, <2>7, WrittenUnread
    <3>4. /\ Accepted' <=> Accepted
          /\ (\E i \in Indices' : conn'[i] = S!UnsubMsg) => \E i \in Indices : conn[i] = S!UnsubMsg
      BY <1>2, <2>3, <2>7 DEF Extended, Accepted, S!UnsubMsg, S!IdMsg
    <3>5. UnsubInv' BY <1>0, <3>4 DEF IInv, UnsubInv
    <3> QED BY <1>1, <2>5, <2>6, <3>2, <3>3, <3>5 DEF IInv
  <2>8. CASE ~S!Writable
    <3>1. conn' = conn /\ Indices' = Indices BY <2>3, <2>8 DEF Indices
    <3>2. \A i \in Indices : conn[i] \in Int
      BY BoundAssumption DEF IInv, TypeOK, S!TypeOK, Indices, S!UnsubMsg
    <3>3. \A i \in Indices : conn[i] <= published' BY <1>2, <3>2 DEF IInv, WireInv
    <3>4. WireInv' BY <1>0, <2>8, <3>1, <3>3 DEF IInv, WireInv, S!Writable
    <3>5. Got' = Got /\ Got \in Nat /\ Accepted' = Accepted
      BY <1>0, <3>1 DEF Got, Accepted, IInv, TypeOK, C!TypeOK
    <3>6. fwd = "select" => Got <= published' BY <1>2, <3>5 DEF IInv, ClientInv
    <3>7. ClientInv' BY <1>0, <3>1, <3>5, <3>6 DEF IInv, ClientInv
    <3>8. UnsubInv' BY <1>0, <3>1, Kept
    <3> QED BY <1>1, <2>5, <2>6, <3>4, <3>7, <3>8 DEF IInv
  <2> QED BY <2>7, <2>8
<1> QED BY <1>3, <1>4

\* An unsubscribe call ends the subscription, if nobody has; its answer is written
\* after that.
LEMMA AnswerInv ==
  ASSUME IInv, S!Answer, UNCHANGED <<clientVars, wireVars>>
  PROVE  IInv'
<1>0. /\ UNCHANGED <<up, broken, call, created, failed, published, pending, flushed, activated, closing>>
      /\ UNCHANGED clientVars /\ UNCHANGED <<caller, pos, asked, cut>>
      /\ UNCHANGED <<arrived, listed, disp, quitErr, fwd, reason, buffer, received, unsent, user,
                     once, errVal, errClosed, clientPanicked>>
  BY DEF S!Answer, S!Unsubscribe, S!UnsubscribeResponds, wireVars, clientVars
<1>1. PendingInv' /\ OnceInv' /\ C!TypeOK' BY <1>0, Kept
<1>2. CASE S!Unsubscribe
  <2>1. /\ unsub = "run" /\ unsub' = "respond" /\ UNCHANGED conn
        /\ inSubs => errChan' = "closed" /\ serverPanicked' = (serverPanicked \/ errChan = "closed")
                     /\ inSubs' = FALSE
        /\ ~inSubs => UNCHANGED <<errChan, serverPanicked, inSubs>>
    BY <1>2 DEF S!Unsubscribe, S!CloseErr, S!Forget
  <2>2. /\ serverPanicked = FALSE /\ inSubs \in BOOLEAN /\ errChan \in {"open", "closed"}
        /\ inSubs => errChan = "open"
    BY DEF IInv, ServerErrInv, TypeOK, S!TypeOK
  <2>3. /\ serverPanicked' = FALSE /\ inSubs' = FALSE /\ errChan' \in {"open", "closed"}
        /\ errChan = "closed" => errChan' = "closed"
        /\ inSubs \/ errChan = "closed" => errChan' = "closed"
    BY <2>1, <2>2
  <2>4. Accepted' = Accepted /\ Indices' = Indices BY <2>1 DEF Accepted, Indices
  <2>5. errChan' = "closed" BY <2>1, <2>3 DEF IInv, UnsubInv
  <2>6. call \notin {"run", "add"} BY <2>1 DEF IInv, UnsubInv
  <2>7. UnsubInv' BY <1>0, <2>1, <2>4, <2>5 DEF IInv, UnsubInv
  <2>8. ServerErrInv' BY <1>0, <2>3, <2>6 DEF ServerErrInv
  <2>9. EndInv' BY <1>0, <2>3 DEF IInv, EndInv
  <2>10. WireInv' /\ ClientInv' BY <1>0, <2>1, Kept
  <2>11. TypeOK'
    <3>1. S!TypeOK' BY <1>0, <2>1, <2>3, Zenon DEF IInv, TypeOK, S!TypeOK
    <3> QED BY <1>0, <1>1, <2>1, <3>1 DEF IInv, TypeOK
  <2> QED BY <1>1, <2>7, <2>8, <2>9, <2>10, <2>11 DEF IInv
<1>3. CASE S!UnsubscribeResponds
  <2>1. /\ unsub = "respond" /\ unsub' = "no" /\ S!Writes(S!UnsubMsg)
        /\ UNCHANGED <<errChan, serverPanicked, inSubs>>
    BY <1>3 DEF S!UnsubscribeResponds
  <2>2. /\ S!UnsubMsg \in S!UnsubMsg..MaxNotifs /\ S!UnsubMsg \in Int /\ S!UnsubMsg <= 0
        /\ S!UnsubMsg # S!IdMsg /\ published \in Nat
    BY BoundAssumption DEF S!UnsubMsg, S!IdMsg, IInv, TypeOK, S!TypeOK
  <2>3. /\ conn' \in Seq(S!UnsubMsg..MaxNotifs) /\ pos \in 0..Len(conn')
        /\ S!Writable => Extended(S!UnsubMsg)
        /\ ~S!Writable => conn' = conn
    BY <2>1, <2>2, WritesType
  <2>4. TypeOK' BY <1>0, <1>1, <2>1, <2>3 DEF IInv, TypeOK, S!TypeOK
  <2>5. ServerErrInv' /\ EndInv' BY <1>0, <2>1, Kept
  <2>6. WireInv' /\ ClientInv'
    <3>1. CASE S!Writable BY <3>1, <1>0, <2>2, <2>3, AnswerWritten, WrittenUnread
    <3>2. CASE ~S!Writable BY <3>2, <1>0, <2>3, Kept
    <3> QED BY <3>1, <3>2
  <2>7. Accepted' <=> Accepted
    <3>1. CASE S!Writable BY <3>1, <2>2, <2>3 DEF Extended, Accepted
    <3>2. CASE ~S!Writable BY <3>2, <2>3 DEF Accepted, Indices
    <3> QED BY <3>1, <3>2
  <2>8. errChan' = "closed" BY <2>1 DEF IInv, UnsubInv
  <2>9. UnsubInv' BY <1>0, <2>1, <2>7, <2>8 DEF IInv, UnsubInv
  <2> QED BY <1>1, <2>4, <2>5, <2>6, <2>9 DEF IInv
<1> QED BY <1>2, <1>3 DEF S!Answer

\* The connection or its writes break, or the handler is told to close.
LEMMA BreakInv ==
  ASSUME IInv, S!Break \/ S!WriteBreaks \/ S!Close, UNCHANGED <<clientVars, wireVars>>
  PROVE  IInv'
<1>0. /\ UNCHANGED <<call, created, failed, published, pending, flushed, activated, inSubs, errChan,
                     unsub, conn, serverPanicked>>
      /\ up' = up \/ up' = FALSE
      /\ broken' = broken \/ broken' = TRUE
      /\ closing' \in {"no", "wait", "done"}
      /\ UNCHANGED clientVars /\ UNCHANGED <<caller, pos, asked, cut>>
      /\ UNCHANGED <<arrived, listed, disp, quitErr, fwd, reason, buffer, received, unsent, user,
                     once, errVal, errClosed, clientPanicked>>
  BY DEF S!Break, S!WriteBreaks, S!Close, wireVars, clientVars, IInv, TypeOK, S!TypeOK
<1>1. PendingInv' /\ ClientInv' /\ UnsubInv' /\ ServerErrInv' /\ OnceInv' /\ C!TypeOK'
  BY <1>0, Kept
<1>2. up' \in BOOLEAN /\ broken' \in BOOLEAN BY <1>0 DEF IInv, TypeOK, S!TypeOK
<1>3. TypeOK' BY <1>0, <1>1, <1>2 DEF IInv, TypeOK, S!TypeOK
<1>4. WireInv'
  <2>1. Sent' = Sent /\ Indices' = Indices /\ (S!Writable' => S!Writable)
    BY <1>0 DEF Sent, Indices, S!Writable
  <2> QED BY <1>0, <2>1 DEF IInv, WireInv
<1>5. EndInv' BY <1>0 DEF IInv, EndInv
<1> QED BY <1>1, <1>3, <1>4, <1>5 DEF IInv

\* cancelServerSubscriptions ends what is left.
LEMMA CancelInv ==
  ASSUME IInv, S!CancelServerSubscriptions, UNCHANGED <<clientVars, wireVars>>
  PROVE  IInv'
<1>0. /\ UNCHANGED <<broken, call, created, failed, published, pending, flushed, activated, unsub,
                     conn>>
      /\ call = "done" /\ unsub = "no" /\ up' = FALSE /\ inSubs' = FALSE /\ closing' = "done"
      /\ inSubs => errChan' = "closed" /\ serverPanicked' = (serverPanicked \/ errChan = "closed")
      /\ ~inSubs => UNCHANGED <<errChan, serverPanicked>>
      /\ UNCHANGED clientVars /\ UNCHANGED <<caller, pos, asked, cut>>
      /\ UNCHANGED <<arrived, listed, disp, quitErr, fwd, reason, buffer, received, unsent, user,
                     once, errVal, errClosed, clientPanicked>>
  BY DEF S!CancelServerSubscriptions, S!CallsDone, S!CloseErr, wireVars, clientVars
<1>1. PendingInv' /\ ClientInv' /\ OnceInv' /\ C!TypeOK' BY <1>0, Kept
<1>2. /\ serverPanicked = FALSE /\ inSubs \in BOOLEAN /\ errChan \in {"open", "closed"}
      /\ inSubs => errChan = "open"
  BY DEF IInv, ServerErrInv, TypeOK, S!TypeOK
<1>3. /\ serverPanicked' = FALSE /\ errChan' \in {"open", "closed"}
      /\ inSubs \/ errChan = "closed" => errChan' = "closed"
  BY <1>0, <1>2
<1>4. TypeOK' BY <1>0, <1>1, <1>3 DEF IInv, TypeOK, S!TypeOK
<1>5. Sent' = Sent /\ Indices' = Indices /\ Accepted' = Accepted
  BY <1>0 DEF Sent, Indices, Accepted
<1>6. WireInv' BY <1>0, <1>5 DEF IInv, WireInv, S!Writable
<1>7. UnsubInv' BY <1>0, <1>3, <1>5 DEF IInv, UnsubInv
<1>8. ServerErrInv' BY <1>0, <1>3 DEF ServerErrInv
<1>9. EndInv' BY <1>0 DEF IInv, EndInv
<1> QED BY <1>1, <1>4, <1>6, <1>7, <1>8, <1>9 DEF IInv

\* The unsubscribe request arrives.
LEMMA AcceptInv == IInv /\ Accept => IInv'
<1> SUFFICES ASSUME IInv, Accept PROVE IInv' OBVIOUS
<1>0. /\ UNCHANGED <<up, broken, call, created, failed, published, pending, flushed, activated, inSubs,
                     errChan, closing, conn, serverPanicked>>
      /\ asked = TRUE /\ asked' = FALSE /\ unsub' = "run"
      /\ UNCHANGED clientVars /\ UNCHANGED <<caller, pos, cut>>
      /\ UNCHANGED <<arrived, listed, disp, quitErr, fwd, reason, buffer, received, unsent, user,
                     once, errVal, errClosed, clientPanicked>>
  BY DEF Accept, S!AcceptUnsubscribe, clientVars, IInv, TypeOK
<1>1. PendingInv' /\ WireInv' /\ ClientInv' /\ ServerErrInv' /\ EndInv' /\ OnceInv' /\ C!TypeOK'
  BY <1>0, Kept
<1>2. TypeOK'
  <2>1. S!TypeOK' BY <1>0, Zenon DEF IInv, TypeOK, S!TypeOK
  <2> QED BY <1>0, <1>1, <2>1 DEF IInv, TypeOK
<1>3. Accepted' = Accepted /\ Indices' = Indices BY <1>0 DEF Accepted, Indices
<1>4. UnsubInv' BY <1>0, <1>3 DEF IInv, UnsubInv
<1> QED BY <1>1, <1>2, <1>4 DEF IInv
-----------------------------------------------------------------------------
(* The client *)

\* dispatch reads the next message: a notification goes on where the client is.
LEMMA ReadInv == IInv /\ Read => IInv'
<1> SUFFICES ASSUME IInv, Read PROVE IInv' OBVIOUS
<1> DEFINE msg == conn[pos + 1]
<1>0. /\ UNCHANGED serverVars /\ UNCHANGED <<asked, cut>>
      /\ UNCHANGED <<up, broken, call, created, failed, published, pending, flushed, activated, inSubs,
                     errChan, unsub, closing, conn, serverPanicked>>
      /\ cut = FALSE /\ disp = "idle" /\ pos < Len(conn) /\ pos' = pos + 1
      /\ cut' = FALSE
  BY DEF Read, serverVars, IInv, TypeOK
<1>1. /\ Len(conn) \in Nat /\ pos \in Nat /\ pos + 1 \in Indices /\ Indices' = Indices
      /\ \A i \in Indices : i \in Nat /\ conn[i] \in Int
      /\ msg \in Int /\ msg <= MaxNotifs /\ msg <= published
      /\ pos' \in 0..Len(conn') /\ Accepted' = Accepted
  <2>1. conn \in Seq(S!UnsubMsg..MaxNotifs) /\ pos \in 0..Len(conn)
    BY DEF IInv, TypeOK, S!TypeOK
  <2>2. Len(conn) \in Nat /\ pos \in Nat /\ pos + 1 \in Indices /\ Indices' = Indices
        /\ pos' \in 0..Len(conn')
    BY <1>0, <2>1 DEF Indices
  <2>3. \A i \in Indices : i \in Nat /\ conn[i] \in S!UnsubMsg..MaxNotifs
    <3>1. \A i \in Indices : i \in Nat /\ i \in 1..Len(conn) BY <2>2 DEF Indices
    <3>2. \A M : \A q \in Seq(M) : \A i \in 1..Len(q) : q[i] \in M OBVIOUS
    <3> QED BY <2>1, <3>1, <3>2, Zenon
  <2>4. \A i \in Indices : conn[i] \in Int /\ conn[i] <= MaxNotifs
    BY <2>3, BoundAssumption DEF S!UnsubMsg
  <2>5. msg <= published BY <2>2 DEF IInv, WireInv
  <2>6. Accepted' = Accepted BY <1>0 DEF Accepted, Indices
  <2> QED BY <2>2, <2>3, <2>4, <2>5, <2>6
<1>2. PendingInv' /\ WireInv' /\ UnsubInv' /\ ServerErrInv' /\ S!TypeOK' BY <1>0, Kept
<1>3. \A i \in Indices : i <= pos' <=> i <= pos \/ i = pos + 1 BY <1>0, <1>1
<1> HIDE DEF msg
<1>4. CASE UNCHANGED clientVars /\ (msg <= 0 \/ fwd # "select")
  <2>1. /\ UNCHANGED <<arrived, listed, disp, quitErr, fwd, reason, buffer, received, unsent, user,
                       once, errVal, errClosed, clientPanicked>>
        /\ caller' \in {caller, "err"}
    BY <1>4 DEF clientVars, Read
  <2>2. EndInv' /\ OnceInv' /\ C!TypeOK' BY <1>0, <1>4, <2>1, Kept
  <2>3. TypeOK' BY <1>0, <1>1, <1>2, <2>1, <2>2 DEF IInv, TypeOK
  <2>4. Got' = Got BY <2>1 DEF Got
  <2>5. fwd = "select" => \A i \in Indices : conn[i] > 0 => (i <= pos' <=> conn[i] <= Got)
    BY <1>0, <1>1, <1>3, <1>4 DEF IInv, ClientInv, msg
  <2>6. ClientInv' BY <1>0, <1>1, <2>1, <2>4, <2>5 DEF IInv, ClientInv
  <2> QED BY <1>2, <2>2, <2>3, <2>6 DEF IInv
<1>5. CASE msg = S!IdMsg /\ C!Start /\ UNCHANGED caller
  <2>1. /\ fwd = "new" /\ fwd' = "select" /\ listed' = TRUE
        /\ UNCHANGED <<arrived, disp, quitErr, reason, buffer, received, unsent, user, once,
                       errVal, errClosed, clientPanicked>>
    BY <1>5 DEF C!Start, C!userVars, C!errVars
  <2>2. C!TypeOK' BY <2>1 DEF IInv, TypeOK, C!TypeOK
  <2>3. TypeOK' BY <1>0, <1>1, <1>2, <1>5, <2>2 DEF IInv, TypeOK
  <2>4. received = <<>> /\ buffer = <<>> BY <2>1 DEF IInv, ClientInv
  <2>5. Got' = 0 BY <1>0, <2>1, <2>4 DEF Got
  <2>6. Accepted BY <1>1, <1>5 DEF Accepted, msg
  <2>7. \A i \in Indices : conn[i] > 0 => ~(i <= pos')
    <3>1. \A i \in Indices : i < pos + 1 => conn[i] <= 0
      BY <1>1, <1>5 DEF IInv, WireInv, msg
    <3>2. msg = 0 BY <1>5 DEF S!IdMsg
    <3> QED BY <3>1, <3>2, <1>0, <1>1, <1>3 DEF msg
  <2>8. \A k \in 1..Len(buffer') : buffer'[k] = Len(received') + k
    <3>1. Len(buffer') = 0 /\ 1..0 = {} BY <2>1, <2>4
    <3> QED BY <3>1
  <2>9. 0 <= published BY DEF IInv, TypeOK, S!TypeOK
  <2>10. ClientInv' BY <1>0, <1>1, <2>1, <2>5, <2>6, <2>7, <2>8, <2>9 DEF ClientInv
  <2>11. EndInv' BY <1>0, <2>1 DEF IInv, EndInv
  <2>12. OnceInv' BY <2>1 DEF IInv, OnceInv
  <2> QED BY <1>2, <2>3, <2>10, <2>11, <2>12 DEF IInv
<1>6. CASE msg > S!IdMsg /\ listed /\ C!ReadNotif(msg) /\ UNCHANGED caller
  <2>1. /\ arrived' = msg /\ disp' = "deliver"
        /\ UNCHANGED <<listed, quitErr, fwd, reason, buffer, received, unsent, user, once,
                       errVal, errClosed, clientPanicked>>
    BY <1>6 DEF C!ReadNotif, C!fwdVars, C!userVars, C!errVars
  <2>2. msg > 0 /\ msg \in 0..MaxNotifs BY <1>1, <1>6, BoundAssumption DEF S!IdMsg
  <2>3. C!TypeOK' BY <2>1, <2>2 DEF IInv, TypeOK, C!TypeOK
  <2>4. TypeOK' BY <1>0, <1>1, <1>2, <1>6, <2>3 DEF IInv, TypeOK
  <2>5. Got \in Nat /\ Got' = Got + 1
    BY <1>0, <2>1 DEF Got, IInv, TypeOK, C!TypeOK
  <2>6. ASSUME fwd = "select"
        PROVE  /\ msg = Got + 1
               /\ \A i \in Indices : conn[i] > 0 => (i <= pos' <=> conn[i] <= Got + 1)
    <3>1. \A i \in Indices : conn[i] > 0 => (i <= pos <=> conn[i] <= Got)
      BY <1>0, <2>6 DEF IInv, ClientInv
    <3>2. msg > Got BY <3>1, <1>1, <2>2, <2>5 DEF msg
    <3>3. msg = Got + 1
      <4>1. CASE msg = 1 BY <4>1, <3>2, <2>5
      <4>2. CASE msg > 1
        <5>1. PICK j \in Indices : j < pos + 1 /\ conn[j] = msg - 1
          BY <4>2, <1>1 DEF IInv, WireInv, msg
        <5>2. conn[j] <= Got BY <5>1, <4>2, <3>1, <1>1
        <5> QED BY <5>1, <5>2, <3>2, <2>5, <1>1
      <4> QED BY <4>1, <4>2, <2>2
    <3>4. \A i \in Indices : conn[i] > 0 => (i <= pos' <=> conn[i] <= Got + 1)
      <4> SUFFICES ASSUME NEW i \in Indices, conn[i] > 0 PROVE i <= pos' <=> conn[i] <= Got + 1
        OBVIOUS
      <4>1. CASE i <= pos BY <4>1, <3>1, <1>1, <1>3, <2>5
      <4>2. CASE i = pos + 1 BY <4>2, <3>3, <1>1, <1>3, <2>5 DEF msg
      <4>3. CASE i > pos + 1
        <5>1. msg < conn[i] BY <4>3, <1>1, <2>2 DEF IInv, WireInv, msg
        <5> QED BY <5>1, <4>3, <3>3, <1>1, <1>3, <2>5
      <4> QED BY <4>1, <4>2, <4>3, <1>1
    <3> QED BY <3>3, <3>4
  <2>7. fwd # "new" BY <1>6 DEF IInv, ClientInv
  <2>8. fwd = "select" => \E i \in Indices : conn[i] = Got + 1 BY <2>6, <1>1 DEF msg
  <2>9. fwd = "select" => Got + 1 <= published BY <2>6, <1>1
  <2>10. ClientInv'
    BY <1>0, <1>1, <2>1, <2>5, <2>6, <2>7, <2>8, <2>9 DEF IInv, ClientInv
  <2>11. EndInv' BY <1>0, <2>1 DEF IInv, EndInv
  <2>12. OnceInv' BY <2>1 DEF IInv, OnceInv
  <2> QED BY <1>2, <2>4, <2>10, <2>11, <2>12 DEF IInv
<1>7. CASE msg = S!UnsubMsg /\ C!RequestAnswered /\ UNCHANGED caller
  <2>1. /\ fwd \in {"sent", "requested"} /\ fwd' = "report"
        /\ UNCHANGED <<arrived, listed, disp, quitErr, reason, buffer, received, unsent, user, once,
                       errVal, errClosed, clientPanicked>>
    BY <1>7 DEF C!RequestAnswered, C!userVars, C!errVars
  <2>2. C!TypeOK' BY <2>1 DEF IInv, TypeOK, C!TypeOK
  <2>3. TypeOK' BY <1>0, <1>1, <1>2, <1>7, <2>2 DEF IInv, TypeOK
  <2>4. ClientInv' BY <1>1, <2>1 DEF IInv, ClientInv
  <2>5. errChan = "closed" BY <1>1, <1>7 DEF IInv, UnsubInv, msg
  <2>6. EndInv' BY <1>0, <2>1, <2>5 DEF IInv, EndInv
  <2>7. OnceInv' BY <2>1 DEF IInv, OnceInv
  <2> QED BY <1>2, <2>3, <2>4, <2>6, <2>7 DEF IInv
<1>8. listed = FALSE \/ listed = TRUE BY DEF IInv, TypeOK, C!TypeOK
<1>9. msg > S!IdMsg /\ listed = FALSE => fwd # "select"
  BY <1>0 DEF IInv, EndInv
<1> QED BY <1>4, <1>5, <1>6, <1>7, <1>8, <1>9 DEF Read, msg, S!IdMsg, S!ErrMsg, S!UnsubMsg

\* The connection ends: the forwarding goroutine will be told why.
LEMMA ConnEndsInv ==
  ASSUME IInv, NEW err \in {"connErr", "clientQuit"}, ConnEnds(err)
  PROVE  IInv'
<1>0. /\ disp = "idle" /\ cut' = TRUE /\ up' = FALSE /\ caller' \in {caller, "err"}
      /\ UNCHANGED <<broken, call, created, failed, published, pending, flushed, activated, inSubs,
                     errChan, unsub, closing, conn, serverPanicked, pos, asked>>
  BY DEF ConnEnds
<1>1. /\ UNCHANGED <<arrived, reason, buffer, received, unsent, user, once, errVal, errClosed,
                     clientPanicked>>
      /\ \/ /\ listed = TRUE /\ listed' = FALSE /\ disp' = "close" /\ quitErr' = err
            /\ \/ UNCHANGED fwd
               \/ fwd \in {"sent", "requested"} /\ fwd' \in {"report", "stranded"}
         \/ UNCHANGED <<listed, disp, quitErr, fwd>>
  BY DEF ConnEnds, C!ConnEnds, C!userVars, C!errVars, clientVars, IInv, TypeOK, C!TypeOK
<1>2. PendingInv' /\ UnsubInv' /\ ServerErrInv' BY <1>0, Kept
<1>3. S!TypeOK'
  <2>1. up' \in BOOLEAN BY <1>0
  <2>2. S!TypeOK BY DEF IInv, TypeOK
  <2>3. UNCHANGED <<broken, call, created, failed, published, pending, flushed, activated, inSubs,
                    errChan, unsub, closing, conn, serverPanicked>>
    BY <1>0
  <2> QED BY <2>1, <2>2, <2>3 DEF S!TypeOK
<1>4. C!TypeOK'
  <2>1. /\ fwd' \in Phases
        /\ disp' \in {"idle", "deliver", "close"} /\ quitErr' \in {"none", "connErr", "clientQuit"}
        /\ listed' \in BOOLEAN
    BY <1>1 DEF IInv, TypeOK, C!TypeOK, Phases
  <2> QED BY <1>1, <2>1 DEF IInv, TypeOK, C!TypeOK, Phases
<1>5. TypeOK' BY <1>0, <1>3, <1>4 DEF IInv, TypeOK
<1>6. Sent' = Sent /\ Indices' = Indices /\ Accepted' = Accepted
  BY <1>0 DEF Sent, Indices, Accepted
<1>7. WireInv' BY <1>0, <1>6 DEF IInv, WireInv, S!Writable
<1>8. Got' = Got BY <1>0, <1>1 DEF Got
<1>9. /\ fwd' = "new" <=> fwd = "new"
      /\ fwd' = "select" <=> fwd = "select"
      /\ fwd = "new" => UNCHANGED <<disp, listed>>
  BY <1>1 DEF IInv, ClientInv
<1>10. ClientInv' BY <1>0, <1>1, <1>6, <1>8, <1>9 DEF IInv, ClientInv
<1>11. EndInv' BY <1>0, <1>1 DEF IInv, EndInv
<1>12. OnceInv'
  <2>1. fwd = "end" => fwd' = "end" BY <1>1
  <2> QED BY <1>1, <2>1 DEF IInv, OnceInv
<1> QED BY <1>2, <1>5, <1>7, <1>10, <1>11, <1>12 DEF IInv

\* What the caller of Subscribe does touches neither half.
LEMMA CallerInv == IInv /\ (TimedOut \/ SubscribeReturns \/ Expire) => IInv'
<1> SUFFICES ASSUME IInv, TimedOut \/ SubscribeReturns \/ Expire PROVE IInv' OBVIOUS
<1>1. /\ UNCHANGED <<serverVars, clientVars, pos, asked, cut>>
      /\ caller' \in {"sub", "leaving", "gone"}
  BY DEF TimedOut, SubscribeReturns, Expire
<1>2. /\ UNCHANGED serverVars /\ UNCHANGED clientVars /\ UNCHANGED <<pos, asked, cut>>
      /\ UNCHANGED <<up, broken, call, created, failed, published, pending, flushed, activated, inSubs,
                     errChan, unsub, closing, conn, serverPanicked>>
      /\ UNCHANGED <<arrived, listed, disp, quitErr, fwd, reason, buffer, received, unsent, user,
                     once, errVal, errClosed, clientPanicked>>
  BY <1>1 DEF serverVars, clientVars
<1>3. /\ S!TypeOK' /\ C!TypeOK' /\ PendingInv' /\ WireInv' /\ ClientInv' /\ UnsubInv'
      /\ ServerErrInv' /\ EndInv' /\ OnceInv'
  BY <1>2, Kept
<1> QED BY <1>1, <1>2, <1>3 DEF IInv, TypeOK

\* The steps of the client's goroutines leave the server and the wire alone.
LEMMA ServerKept ==
  ASSUME IInv, UNCHANGED <<serverVars, caller, pos, cut>>
  PROVE  /\ S!TypeOK' /\ PendingInv' /\ WireInv' /\ ServerErrInv'
         /\ UNCHANGED asked => UnsubInv'
         /\ C!TypeOK' /\ asked' \in BOOLEAN => TypeOK'
         /\ UNCHANGED <<up, broken, published, conn, pos, cut, errChan>>
         /\ Indices' = Indices /\ Accepted' = Accepted
<1>1. UNCHANGED <<up, broken, call, created, failed, published, pending, flushed, activated, inSubs,
                  errChan, unsub, closing, conn, serverPanicked, caller, pos, cut>>
  BY DEF serverVars
<1>2. S!TypeOK' /\ PendingInv' /\ WireInv' /\ ServerErrInv' /\ (UNCHANGED asked => UnsubInv')
  BY <1>1, Kept
<1>3. C!TypeOK' /\ asked' \in BOOLEAN => TypeOK' BY <1>1, <1>2 DEF IInv, TypeOK
<1> QED BY <1>1, <1>2, <1>3 DEF Accepted, Indices

\* deliver and close end, or forward takes what dispatch has.
LEMMA DispatchInv == IInv /\ Dispatch => IInv'
<1> SUFFICES ASSUME IInv, Dispatch PROVE IInv' OBVIOUS
<1>0. UNCHANGED <<serverVars, caller, pos, cut>> /\ UNCHANGED asked BY DEF Dispatch, wireVars
<1>1. /\ PendingInv' /\ WireInv' /\ ServerErrInv' /\ UnsubInv' /\ (C!TypeOK' => TypeOK')
      /\ UNCHANGED <<up, broken, published, conn, pos, cut, errChan>>
      /\ Indices' = Indices /\ Accepted' = Accepted
  BY <1>0, ServerKept DEF IInv, TypeOK
<1>2. /\ disp' = "idle"
      /\ UNCHANGED <<arrived, listed, quitErr, received, unsent, user, once, errVal, errClosed,
                     clientPanicked>>
  BY DEF Dispatch, C!Dispatch, C!DispGivesUp, C!ForwardIn, C!ForwardQuit, C!fwdVars, C!userVars,
         C!errVars
<1>3. CASE C!DispGivesUp
  <2>1. UNCHANGED <<fwd, reason, buffer>> /\ fwd \notin {"new", "select", "ended"}
    BY <1>3 DEF C!DispGivesUp, C!fwdVars, C!Abandoned, C!ForwardDone
  <2>2. C!TypeOK' BY <1>2, <2>1 DEF IInv, TypeOK, C!TypeOK
  <2>3. ClientInv' BY <1>1, <1>2, <2>1 DEF IInv, ClientInv
  <2>4. EndInv' BY <1>1, <1>2, <2>1 DEF IInv, EndInv
  <2>5. OnceInv' BY <1>2, <2>1 DEF IInv, OnceInv
  <2> QED BY <1>1, <2>2, <2>3, <2>4, <2>5 DEF IInv
<1>4. CASE C!ForwardIn /\ fwd' = "ended"
  <2>1. fwd = "select" /\ reason' \in {"decode", "overflow"} /\ UNCHANGED buffer
    BY <1>4 DEF C!ForwardIn, C!Overflow
  <2>2. C!TypeOK' BY <1>2, <1>4, <2>1 DEF IInv, TypeOK, C!TypeOK, C!Errors
  <2>3. ClientInv' BY <1>1, <1>2, <1>4, <2>1 DEF IInv, ClientInv
  <2>4. EndInv' BY <1>1, <1>2, <1>4, <2>1 DEF IInv, EndInv
  <2>5. OnceInv' BY <1>2, <1>4, <2>1 DEF IInv, OnceInv
  <2> QED BY <1>1, <2>2, <2>3, <2>4, <2>5 DEF IInv
<1>5. CASE C!ForwardIn /\ fwd' # "ended"
  <2>1. /\ disp = "deliver" /\ fwd = "select" /\ UNCHANGED <<fwd, reason>>
        /\ Len(buffer) # MaxBuffer /\ buffer' = Append(buffer, arrived)
    BY <1>5 DEF C!ForwardIn, C!Overflow, C!Full
  <2>2. /\ buffer \in Seq(1..MaxNotifs) /\ Len(buffer) \in Nat /\ Len(buffer) <= MaxBuffer
        /\ arrived \in Nat /\ Len(received) \in Nat /\ arrived <= MaxNotifs
    BY BoundAssumption DEF IInv, TypeOK, C!TypeOK
  <2>3. /\ arrived = Len(received) + Len(buffer) + 1
        /\ \A k \in 1..Len(buffer) : buffer[k] = Len(received) + k
    BY <2>1, <2>2 DEF IInv, ClientInv, Got
  <2>4. arrived \in 1..MaxNotifs BY <2>2, <2>3
  <2>5. /\ buffer' \in Seq(1..MaxNotifs) /\ Len(buffer') = Len(buffer) + 1
        /\ \A k \in 1..Len(buffer) : buffer'[k] = buffer[k]
        /\ buffer'[Len(buffer) + 1] = arrived
    BY <2>1, <2>2, <2>4
  <2>6. Len(buffer') <= MaxBuffer BY <2>1, <2>2, <2>5, BoundAssumption
  <2>7. \A k \in 1..Len(buffer') : buffer'[k] = Len(received') + k
    <3> SUFFICES ASSUME NEW k \in 1..Len(buffer') PROVE buffer'[k] = Len(received) + k
      BY <1>2
    <3>1. CASE k \in 1..Len(buffer) BY <3>1, <2>3, <2>5
    <3>2. CASE k = Len(buffer) + 1 BY <3>2, <2>2, <2>3, <2>5
    <3> QED BY <3>1, <3>2, <2>2, <2>5
  <2>8. Got' = Got BY <1>2, <2>1, <2>2, <2>5 DEF Got
  <2>9. C!TypeOK' BY <1>2, <2>1, <2>5, <2>6 DEF IInv, TypeOK, C!TypeOK
  <2>10. ClientInv' BY <1>1, <1>2, <2>1, <2>7, <2>8 DEF IInv, ClientInv
  <2>11. EndInv' BY <1>1, <1>2, <2>1 DEF IInv, EndInv
  <2>12. OnceInv' BY <1>2, <2>1 DEF IInv, OnceInv
  <2> QED BY <1>1, <2>9, <2>10, <2>11, <2>12 DEF IInv
<1>6. CASE C!ForwardQuit
  <2>1. /\ disp = "close" /\ fwd = "select" /\ fwd' = "ended" /\ reason' = quitErr
        /\ UNCHANGED buffer
    BY <1>6 DEF C!ForwardQuit
  <2>2. quitErr \in {"connErr", "clientQuit"} /\ ~up BY <2>1 DEF IInv, EndInv
  <2>3. C!TypeOK' BY <1>2, <2>1, <2>2 DEF IInv, TypeOK, C!TypeOK, C!Errors
  <2>4. ClientInv' BY <1>1, <1>2, <2>1 DEF IInv, ClientInv
  <2>5. EndInv' BY <1>1, <1>2, <2>1, <2>2 DEF IInv, EndInv
  <2>6. OnceInv' BY <1>2, <2>1 DEF IInv, OnceInv
  <2> QED BY <1>1, <2>3, <2>4, <2>5, <2>6 DEF IInv
<1> QED BY <1>3, <1>4, <1>5, <1>6 DEF Dispatch, C!Dispatch

\* The user receives: the notification that comes next, published before.
LEMMA OutFacts ==
  ASSUME IInv, C!ForwardOut
  PROVE  /\ fwd = "select" /\ buffer # <<>> /\ Len(buffer) \in Nat /\ Len(buffer) >= 1
         /\ Len(received) \in Nat /\ Len(received) + 1 <= published /\ published <= MaxNotifs
         /\ received \in Seq(1..MaxNotifs)
         /\ received' = Append(received, Len(received) + 1)
         /\ buffer' \in Seq(1..MaxNotifs) /\ Len(buffer') = Len(buffer) - 1
         /\ \A k \in 1..Len(buffer') : buffer'[k] = Len(received) + k + 1
         /\ UNCHANGED <<arrived, listed, disp, quitErr, fwd, reason, unsent, user, once, errVal, errClosed,
                        clientPanicked>>
<1>1. /\ fwd = "select" /\ buffer # <<>>
      /\ received' = Append(received, Head(buffer)) /\ buffer' = Tail(buffer)
      /\ UNCHANGED <<arrived, listed, disp, quitErr, fwd, reason, unsent, user, once, errVal, errClosed,
                     clientPanicked>>
  BY DEF C!ForwardOut, C!userVars, C!errVars
<1>2. /\ buffer \in Seq(1..MaxNotifs) /\ received \in Seq(1..MaxNotifs)
      /\ published \in Nat /\ published <= MaxNotifs
  BY BoundAssumption DEF IInv, TypeOK, S!TypeOK, C!TypeOK
<1>3. Len(buffer) \in Nat /\ Len(buffer) >= 1 /\ Len(received) \in Nat BY <1>1, <1>2
<1>4. \A k \in 1..Len(buffer) : buffer[k] = Len(received) + k BY <1>1 DEF IInv, ClientInv
<1>5. Head(buffer) = Len(received) + 1 BY <1>1, <1>2, <1>3, <1>4
<1>6. /\ buffer' \in Seq(1..MaxNotifs) /\ Len(buffer') = Len(buffer) - 1
      /\ \A k \in 1..Len(buffer') : buffer'[k] = buffer[k + 1]
  BY <1>1, <1>2, <1>3
<1>7. \A k \in 1..Len(buffer') : buffer'[k] = Len(received) + k + 1
  BY <1>3, <1>4, <1>6
<1>8. Len(received) + 1 <= published
  <2>1. Got <= published /\ Got >= Len(received) + Len(buffer)
    BY <1>1, <1>3 DEF IInv, ClientInv, Got
  <2>2. Got \in Nat BY <1>3 DEF Got
  <2> QED BY <2>1, <2>2, <1>2, <1>3
<1> QED BY <1>1, <1>2, <1>3, <1>5, <1>6, <1>7, <1>8

\* forward sends on the user's channel.
LEMMA OutInv == IInv /\ ForwardOut => IInv'
<1> SUFFICES ASSUME IInv, ForwardOut PROVE IInv' OBVIOUS
<1>0. UNCHANGED <<serverVars, caller, pos, cut>> /\ UNCHANGED asked /\ C!ForwardOut
  BY DEF ForwardOut, wireVars
<1>1. /\ PendingInv' /\ WireInv' /\ ServerErrInv' /\ UnsubInv' /\ (C!TypeOK' => TypeOK')
      /\ UNCHANGED <<up, broken, published, conn, pos, cut, errChan>>
      /\ Indices' = Indices /\ Accepted' = Accepted
  BY <1>0, ServerKept DEF IInv, TypeOK
<1>2. /\ fwd = "select" /\ Len(buffer) \in Nat /\ Len(buffer) >= 1
      /\ Len(received) \in Nat /\ Len(received) + 1 <= published /\ published <= MaxNotifs
      /\ received \in Seq(1..MaxNotifs) /\ received' = Append(received, Len(received) + 1)
      /\ buffer' \in Seq(1..MaxNotifs) /\ Len(buffer') = Len(buffer) - 1
      /\ \A k \in 1..Len(buffer') : buffer'[k] = Len(received) + k + 1
      /\ UNCHANGED <<arrived, listed, disp, quitErr, fwd, reason, unsent, user, once, errVal, errClosed,
                     clientPanicked>>
  BY <1>0, OutFacts
<1>3. published \in Nat BY DEF IInv, TypeOK, S!TypeOK
<1>4. received' \in Seq(1..MaxNotifs) /\ Len(received') = Len(received) + 1
  BY <1>2, <1>3, BoundAssumption
<1>5. Len(buffer') <= MaxBuffer BY <1>2, BoundAssumption DEF IInv, TypeOK, C!TypeOK
<1>6. C!TypeOK' BY <1>2, <1>4, <1>5 DEF IInv, TypeOK, C!TypeOK
<1>7. Got' = Got BY <1>2, <1>4 DEF Got
<1>8. \A k \in 1..Len(buffer') : buffer'[k] = Len(received') + k BY <1>2, <1>4
<1>9. ClientInv' BY <1>1, <1>2, <1>7, <1>8 DEF IInv, ClientInv
<1>10. EndInv' BY <1>1, <1>2 DEF IInv, EndInv
<1>11. OnceInv' BY <1>2 DEF IInv, OnceInv
<1> QED BY <1>1, <1>6, <1>9, <1>10, <1>11 DEF IInv

\* run, after forward: the server is asked, or the connection is gone, or the
\* request cannot be sent.
LEMMA RunInv == IInv /\ Run => IInv'
<1> SUFFICES ASSUME IInv, Run PROVE IInv' OBVIOUS
<1>0. UNCHANGED <<serverVars, caller, pos, cut>> BY DEF Run, wireVars
<1>1. /\ PendingInv' /\ WireInv' /\ ServerErrInv'
      /\ UNCHANGED asked => UnsubInv'
      /\ C!TypeOK' /\ asked' \in BOOLEAN => TypeOK'
      /\ UNCHANGED <<up, broken, published, conn, pos, cut, errChan>>
      /\ Indices' = Indices /\ Accepted' = Accepted
  BY <1>0, ServerKept
<1>2. UNCHANGED <<arrived, listed, disp, quitErr, reason, buffer, received, user, once>>
  BY DEF Run, C!Run, C!RunEnded, C!Report, C!Send, C!Request, C!WriteOk, C!WriteFails, C!ReqSent,
         C!DialFails, C!RenewedEnds, C!userVars
<1>3. asked \in BOOLEAN BY DEF IInv, TypeOK
<1>4. CASE C!Report /\ UNCHANGED wireVars
  <2>1. /\ fwd = "report" /\ fwd' = "end" /\ UNCHANGED <<errClosed, unsent>> /\ UNCHANGED asked
        /\ \/ UNCHANGED <<errVal, clientPanicked>>
           \/ /\ errVal' = IF reason = "clientQuit" THEN "nil" ELSE reason
              /\ clientPanicked' = (clientPanicked \/ errClosed)
    BY <1>4 DEF C!Report, C!errVars, wireVars
  <2>2. clientPanicked = FALSE /\ errClosed = FALSE
    BY <2>1 DEF IInv, OnceInv, TypeOK, C!TypeOK
  <2>3. clientPanicked' = FALSE /\ errClosed' = FALSE BY <2>1, <2>2
  <2>4. errVal' \in {"none", "nil"} \cup C!Errors
    <3>1. reason # "none" /\ reason # "unsubscribed" => reason \in C!Errors
      BY DEF IInv, TypeOK, C!TypeOK
    <3>2. errVal \in {"none", "nil"} \cup C!Errors BY DEF IInv, TypeOK, C!TypeOK
    <3>3. \/ UNCHANGED errVal
          \/ errVal' = "nil"
          \/ errVal' = reason /\ reason # "unsubscribed"
      BY <1>4 DEF C!Report, C!errVars
    <3> QED BY <3>1, <3>2, <3>3
  <2>5. C!TypeOK' BY <1>2, <2>1, <2>3, <2>4 DEF IInv, TypeOK, C!TypeOK
  <2>6. ClientInv' BY <1>1, <1>2, <2>1 DEF IInv, ClientInv
  <2>7. EndInv' BY <1>1, <1>2, <2>1 DEF IInv, EndInv
  <2>8. OnceInv' BY <1>2, <2>1, <2>3 DEF IInv, OnceInv
  <2> QED BY <1>1, <1>3, <2>1, <2>5, <2>6, <2>7, <2>8 DEF IInv
<1>5. CASE ~C!Report
  <2>1. /\ UNCHANGED <<errVal, errClosed, clientPanicked>> /\ asked' \in {asked, TRUE}
        /\ unsent' \in {unsent, TRUE}
        /\ fwd \in {"ended", "request", "write", "sent", "dial", "renewed"}
        /\ fwd' \in {"request", "write", "sent", "requested", "dial", "report", "stranded"}
    BY <1>5 DEF Run, C!Run, C!RunEnded, C!Send, C!Request, C!WriteOk, C!WriteFails, C!ReqSent,
       C!DialFails, C!RenewedEnds, C!errVars, wireVars
  <2>2. /\ fwd' = "report" => \/ fwd = "ended" /\ reason \in {"connErr", "clientQuit"}
                              \/ fwd = "request" /\ quitErr = "clientQuit"
                              \/ unsent' = TRUE
                              \/ fwd = "renewed"
        /\ fwd' = "stranded" => fwd = "renewed"
    BY <1>5 DEF Run, C!Run, C!RunEnded, C!Send, C!Request, C!Closing, C!WriteOk, C!WriteFails,
       C!ReqSent, C!DialFails, C!RenewedEnds
  <2>3. C!TypeOK'
    <3>1. fwd' \in Phases /\ unsent' \in BOOLEAN BY <2>1 DEF IInv, TypeOK, C!TypeOK, Phases
    <3> QED BY <1>2, <2>1, <3>1 DEF IInv, TypeOK, C!TypeOK, Phases
  <2>4. ClientInv' BY <1>1, <1>2, <2>1 DEF IInv, ClientInv
  <2>5. EndInv' BY <1>1, <1>2, <2>1, <2>2 DEF IInv, EndInv
  <2>6. OnceInv' BY <1>2, <2>1 DEF IInv, OnceInv
  <2>7. Accepted BY <2>1 DEF IInv, ClientInv
  <2>8. UnsubInv' BY <1>0, <1>1, <2>7 DEF IInv, UnsubInv, serverVars
  <2>9. asked' \in BOOLEAN BY <1>3, <2>1
  <2> QED BY <1>1, <2>3, <2>4, <2>5, <2>6, <2>8, <2>9 DEF IInv
<1> QED BY <1>4, <1>5 DEF Run, C!Report, C!Run, C!WriteOk

\* The request is sent on a new connection; the old one is closed.
LEMMA ReconnectInv == IInv /\ Reconnect => IInv'
<1> SUFFICES ASSUME IInv, Reconnect PROVE IInv' OBVIOUS
<1>0. /\ cut' = TRUE /\ up' = FALSE
      /\ UNCHANGED <<broken, call, created, failed, published, pending, flushed, activated, inSubs,
                     errChan, unsub, closing, conn, serverPanicked, caller, pos, asked>>
  BY DEF Reconnect
<1>1. /\ UNCHANGED <<arrived, reason, buffer, received, unsent, user, once, errVal, errClosed,
                     clientPanicked>>
      /\ fwd = "dial" /\ fwd' = "renewed" /\ disp = "idle"
      /\ \/ /\ listed = TRUE /\ listed' = FALSE /\ disp' = "close" /\ quitErr' = "connErr"
         \/ UNCHANGED <<listed, disp, quitErr>>
  BY DEF Reconnect, C!Reconnect, C!userVars, C!errVars, IInv, TypeOK, C!TypeOK
<1>2. PendingInv' /\ UnsubInv' /\ ServerErrInv' BY <1>0, Kept
<1>3. S!TypeOK'
  <2>1. up' \in BOOLEAN BY <1>0
  <2>2. S!TypeOK BY DEF IInv, TypeOK
  <2>3. UNCHANGED <<broken, call, created, failed, published, pending, flushed, activated, inSubs,
                    errChan, unsub, closing, conn, serverPanicked>>
    BY <1>0
  <2> QED BY <2>1, <2>2, <2>3 DEF S!TypeOK
<1>4. C!TypeOK'
  <2>1. /\ disp' \in {"idle", "deliver", "close"} /\ quitErr' \in {"none", "connErr", "clientQuit"}
        /\ listed' \in BOOLEAN
    BY <1>1 DEF IInv, TypeOK, C!TypeOK
  <2> QED BY <1>1, <2>1 DEF IInv, TypeOK, C!TypeOK
<1>5. TypeOK' BY <1>0, <1>3, <1>4 DEF IInv, TypeOK
<1>6. Sent' = Sent /\ Indices' = Indices /\ Accepted' = Accepted
  BY <1>0 DEF Sent, Indices, Accepted
<1>7. WireInv' BY <1>0, <1>6 DEF IInv, WireInv, S!Writable
<1>8. ClientInv' BY <1>1, <1>6 DEF IInv, ClientInv
<1>9. EndInv' BY <1>0, <1>1 DEF IInv, EndInv
<1>10. OnceInv' BY <1>1 DEF IInv, OnceInv
<1> QED BY <1>2, <1>5, <1>7, <1>8, <1>9, <1>10 DEF IInv

\* Unsubscribe: one caller at a time runs the function of errOnce.
LEMMA UnsubscribeInv ==
  ASSUME IInv, NEW u \in Users, CallUnsubscribe(u) \/ Unsubscribe(u)
  PROVE  IInv'
<1>0. UNCHANGED <<serverVars, caller, pos, cut>> /\ UNCHANGED asked
  BY DEF CallUnsubscribe, Unsubscribe, wireVars
<1>1. /\ PendingInv' /\ WireInv' /\ ServerErrInv' /\ UnsubInv' /\ (C!TypeOK' => TypeOK')
      /\ UNCHANGED <<up, broken, published, conn, pos, cut, errChan>>
      /\ Indices' = Indices /\ Accepted' = Accepted
  BY <1>0, ServerKept DEF IInv, TypeOK
<1>2. UNCHANGED <<arrived, listed, disp, quitErr, buffer, received, unsent, errVal>>
  BY DEF CallUnsubscribe, Unsubscribe, C!Call, C!Unsubscribe, C!Do, C!QuitSent, C!CloseErr,
         C!fwdVars, C!errVars
<1>3. CASE C!Call(u)
  <2>1. /\ user[u] = "no" /\ user' = [user EXCEPT ![u] = "do"]
        /\ UNCHANGED <<fwd, reason, once, errClosed, clientPanicked>>
    BY <1>3 DEF C!Call, C!fwdVars, C!errVars
  <2>2. C!TypeOK' BY <1>2, <2>1 DEF IInv, TypeOK, C!TypeOK
  <2>3. ClientInv' BY <1>1, <1>2, <2>1 DEF IInv, ClientInv, Got
  <2>4. EndInv' BY <1>1, <1>2, <2>1 DEF IInv, EndInv
  <2>5. OnceInv' BY <2>1 DEF IInv, OnceInv, TypeOK, C!TypeOK
  <2> QED BY <1>1, <2>2, <2>3, <2>4, <2>5 DEF IInv
<1>4. CASE C!Do(u)
  <2>1. /\ user[u] = "do" /\ UNCHANGED <<fwd, reason, errClosed, clientPanicked>>
        /\ \/ once = "new" /\ once' = "running" /\ user' = [user EXCEPT ![u] = "quit"]
           \/ once = "done" /\ once' = "done" /\ user' = [user EXCEPT ![u] = "returned"]
    BY <1>4 DEF C!Do, C!OnceOver, C!fwdVars, C!errVars
  <2>2. C!TypeOK' BY <1>2, <2>1 DEF IInv, TypeOK, C!TypeOK
  <2>3. ClientInv' BY <1>1, <1>2, <2>1 DEF IInv, ClientInv, Got
  <2>4. EndInv' BY <1>1, <1>2, <2>1 DEF IInv, EndInv
  <2>5. OnceInv' BY <2>1 DEF IInv, OnceInv, TypeOK, C!TypeOK
  <2> QED BY <1>1, <2>2, <2>3, <2>4, <2>5 DEF IInv
<1>5. CASE C!QuitSent(u)
  <2>1. /\ user[u] = "quit" /\ fwd = "select" /\ fwd' = "ended" /\ reason' = "unsubscribed"
        /\ user' = [user EXCEPT ![u] = "wait"] /\ UNCHANGED <<once, errClosed, clientPanicked>>
    BY <1>5 DEF C!QuitSent, C!errVars
  <2>2. C!TypeOK' BY <1>2, <2>1 DEF IInv, TypeOK, C!TypeOK
  <2>3. ClientInv' BY <1>1, <1>2, <2>1 DEF IInv, ClientInv
  <2>4. EndInv' BY <1>1, <1>2, <2>1 DEF IInv, EndInv
  <2>5. OnceInv' BY <2>1 DEF IInv, OnceInv, TypeOK, C!TypeOK
  <2> QED BY <1>1, <2>2, <2>3, <2>4, <2>5 DEF IInv
<1>6. CASE C!CloseErr(u)
  <2>1. /\ user[u] \in {"wait", "quit"} /\ fwd = "end" /\ once' = "done" /\ errClosed' = TRUE
        /\ user' = [user EXCEPT ![u] = "returned"] /\ UNCHANGED <<fwd, reason>>
        /\ clientPanicked' = (clientPanicked \/ errClosed)
    BY <1>6 DEF C!CloseErr, C!UnsubDone, C!fwdVars
  <2>2. clientPanicked = FALSE /\ errClosed = FALSE
    BY <2>1 DEF IInv, OnceInv, TypeOK, C!TypeOK
  <2>3. clientPanicked' = FALSE BY <2>1, <2>2
  <2>4. C!TypeOK' BY <1>2, <2>1, <2>3 DEF IInv, TypeOK, C!TypeOK
  <2>5. ClientInv' BY <1>1, <1>2, <2>1 DEF IInv, ClientInv
  <2>6. EndInv' BY <1>1, <1>2, <2>1 DEF IInv, EndInv
  <2>7. OnceInv' BY <2>1, <2>3 DEF IInv, OnceInv, TypeOK, C!TypeOK
  <2> QED BY <1>1, <2>4, <2>5, <2>6, <2>7 DEF IInv
<1> QED BY <1>3, <1>4, <1>5, <1>6 DEF CallUnsubscribe, Unsubscribe, C!Unsubscribe
-----------------------------------------------------------------------------
\* Nothing has been published, written or read.
LEMMA InitInv == Init => IInv
<1> SUFFICES ASSUME Init PROVE IInv OBVIOUS
<1>1. S!Init /\ C!Init /\ caller = "wait" /\ pos = 0 /\ asked = FALSE /\ cut = FALSE BY DEF Init
<1>2. conn = <<>> /\ pending = <<>> /\ buffer = <<>> /\ received = <<>>
  BY <1>1 DEF S!Init, C!Init
<1>3. Len(conn) = 0 /\ Len(pending) = 0 /\ Len(buffer) = 0 /\ Len(received) = 0 BY <1>2
<1>4. Indices = {} BY <1>3 DEF Indices
<1>5. ~Accepted BY <1>4 DEF Accepted
<1>6. S!TypeOK
  <2>1. conn \in Seq(S!UnsubMsg..MaxNotifs) /\ pending \in Seq(1..MaxNotifs) BY <1>2
  <2>2. 0 \in 0..MaxNotifs /\ 0 \in 0..Len(pending) BY <1>3, BoundAssumption
  <2>3. published \in 0..MaxNotifs /\ flushed \in 0..Len(pending) BY <1>1, <2>2, Zenon DEF S!Init
  <2> QED BY <1>1, <2>1, <2>3, Zenon DEF S!Init, S!TypeOK
<1>7. C!TypeOK
  <2>1. buffer \in Seq(1..MaxNotifs) /\ received \in Seq(1..MaxNotifs) BY <1>2
  <2>2. 0 \in 0..MaxNotifs /\ Len(buffer) <= MaxBuffer BY <1>3, BoundAssumption
  <2>3. arrived \in 0..MaxNotifs BY <1>1, <2>2, Zenon DEF C!Init
  <2>4. user \in [Users -> {"no", "do", "quit", "wait", "returned"}] BY <1>1 DEF C!Init
  <2> QED BY <1>1, <2>1, <2>2, <2>3, <2>4, Zenon DEF C!Init, C!TypeOK
<1>8. TypeOK
  <2>1. 0 \in 0..Len(conn) BY <1>3
  <2> QED BY <1>1, <1>6, <1>7, <2>1, Zenon DEF TypeOK
<1>9. PendingInv BY <1>1, <1>3 DEF S!Init, PendingInv
<1>10. WireInv BY <1>1, <1>4 DEF S!Init, WireInv, Sent
<1>11. ClientInv BY <1>1, <1>2 DEF C!Init, ClientInv
<1>12. UnsubInv BY <1>1, <1>4, <1>5 DEF S!Init, UnsubInv
<1>13. ServerErrInv BY <1>1 DEF S!Init, ServerErrInv
<1>14. EndInv BY <1>1 DEF C!Init, EndInv
<1>15. OnceInv BY <1>1 DEF C!Init, OnceInv
<1> QED BY <1>8, <1>9, <1>10, <1>11, <1>12, <1>13, <1>14, <1>15 DEF IInv

\* Every step, of the server, the connection, the client or its users, keeps the
\* invariant.
LEMMA Inductive == IInv /\ [Next]_vars => IInv'
<1> SUFFICES ASSUME IInv, [Next]_vars PROVE IInv' OBVIOUS
<1>1. CASE Serve BY <1>1, SubscribeCallInv, RespondInv, ActivateInv DEF Serve, S!Serve
<1>2. CASE Answer BY <1>2, AnswerInv DEF Answer
<1>3. CASE Cancel BY <1>3, CancelInv DEF Cancel
<1>4. CASE ServerMay BY <1>4, SubscribeCallInv, NotifyInv, BreakInv DEF ServerMay
<1>5. CASE Accept \/ Drop BY <1>5, AcceptInv, BreakInv DEF Drop
<1>6. CASE Read BY <1>6, ReadInv
<1>7. CASE ConnLost \/ ClientQuit BY <1>7, ConnEndsInv DEF ConnLost, ClientQuit
<1>8. CASE TimedOut \/ SubscribeReturns \/ Expire BY <1>8, CallerInv
<1>9. CASE Dispatch BY <1>9, DispatchInv
<1>10. CASE ForwardOut BY <1>10, OutInv
<1>11. CASE Run \/ Reconnect BY <1>11, RunInv, ReconnectInv
<1>12. CASE \E u \in Users : CallUnsubscribe(u) \/ Unsubscribe(u) BY <1>12, UnsubscribeInv
<1>13. CASE UNCHANGED vars
  <2>1. UNCHANGED serverVars /\ UNCHANGED clientVars /\ UNCHANGED <<caller, pos, asked, cut>>
    BY <1>13 DEF vars, wireVars
  <2>2. TypeOK' BY <2>1, Kept DEF IInv, TypeOK, serverVars
  <2> QED BY <2>1, <2>2, Kept DEF IInv, serverVars, clientVars
<1> QED BY <1>1, <1>2, <1>3, <1>4, <1>5, <1>6, <1>7, <1>8, <1>9, <1>10, <1>11, <1>12, <1>13 DEF Next

\* The invariant holds in every state.
LEMMA Invariance == Spec => []IInv
BY InitInv, Inductive, PTL DEF Spec

\* The variables of both halves and of the wire keep their types; what the client
\* buffers stays within maxClientSubscriptionBuffer.
THEOREM TypeCorrect == Spec => []TypeOK
<1>1. IInv => TypeOK BY DEF IInv
<1> QED BY <1>1, Invariance, PTL

\* No error channel is closed twice or sent on after it was closed
\* (handler.unsubscribe, cancelServerSubscriptions, ClientSubscription.Unsubscribe), for any number of
\* callers of Unsubscribe.
THEOREM NoPanicTheorem == Spec => []NoPanic
<1>1. IInv => NoPanic BY DEF IInv, ServerErrInv, OnceInv, NoPanic
<1> QED BY <1>1, Invariance, PTL

\* When an Unsubscribe has returned, the server has ended the subscription, the
\* connection is gone, or the request could be written on no connection (Client.send,
\* Client.reconnect): the caller that ran errOnce waited for unsubDone, which run
\* closes after requestUnsubscribe has returned.
THEOREM ReachesServer == Spec => []UnsubscribeReachesServer
<1>1. IInv => UnsubscribeReachesServer
  BY DEF IInv, OnceInv, EndInv, UnsubscribeReachesServer, UserReturned
<1> QED BY <1>1, Invariance, PTL
-----------------------------------------------------------------------------
\* Nobody's Unsubscribe returns twice, and no call of it takes a return back.
LEMMA StillReturned ==
  ASSUME IInv, NEW u \in Users, CallUnsubscribe(u) \/ Unsubscribe(u)
  PROVE  /\ UserReturned => UserReturned'
         /\ UNCHANGED <<published, received>>
<1>1. UNCHANGED <<published, received>>
  BY DEF CallUnsubscribe, Unsubscribe, serverVars, C!Call, C!Unsubscribe, C!Do, C!QuitSent,
         C!CloseErr, C!fwdVars
<1>2. \E x \in {"do", "quit", "wait", "returned"} : user' = [user EXCEPT ![u] = x]
  BY DEF CallUnsubscribe, Unsubscribe, C!Call, C!Unsubscribe, C!Do, C!QuitSent, C!CloseErr
<1>3. user[u] # "returned"
  BY DEF CallUnsubscribe, Unsubscribe, C!Call, C!Unsubscribe, C!Do, C!QuitSent, C!CloseErr
<1>4. user \in [Users -> {"no", "do", "quit", "wait", "returned"}] BY DEF IInv, TypeOK, C!TypeOK
<1> QED BY <1>1, <1>2, <1>3, <1>4 DEF UserReturned

\* A step of the implementation is a step of the stream, or leaves it alone: Notify
\* publishes, what forward sends on the user's channel is the notification that
\* comes next, and the first Unsubscribe that returns is the end.
LEMMA StreamStep == IInv /\ [Next]_vars => [Delivery!Next]_(Delivery!vars)
<1> SUFFICES ASSUME IInv, [Next]_vars PROVE [Delivery!Next]_(Delivery!vars) OBVIOUS
<1>0. UNCHANGED <<published, received, user>> => UNCHANGED Delivery!vars
  BY DEF Delivery!vars, UserReturned
<1>1. CASE Serve \/ Answer \/ Cancel
  <2>1. UNCHANGED <<published, received, user>>
    BY <1>1 DEF Serve, Answer, Cancel, clientVars, S!Serve, S!CallReturns, S!AddSubscriptions,
       S!Respond, S!ActivateSends, S!ActivateEnds, S!Answer, S!Unsubscribe, S!UnsubscribeResponds,
       S!CancelServerSubscriptions
  <2> QED BY <2>1, <1>0
<1>2. CASE ServerMay /\ S!Notify
  <2>1. published' = published + 1 /\ UNCHANGED <<received, user>>
    BY <1>2 DEF ServerMay, clientVars, S!Notify
  <2> QED BY <2>1 DEF Delivery!Next, Delivery!Publish, UserReturned
<1>3. CASE (ServerMay /\ (S!CreateSubscription \/ S!Break \/ S!WriteBreaks \/ S!Close)) \/ Drop
  <2>1. UNCHANGED <<published, received, user>>
    BY <1>3 DEF ServerMay, Drop, clientVars, S!CreateSubscription, S!Break, S!WriteBreaks, S!Close
  <2> QED BY <2>1, <1>0
<1>4. CASE Accept \/ Read
  <2>1. UNCHANGED <<published, received, user>>
    BY <1>4 DEF Accept, Read, S!AcceptUnsubscribe, serverVars, clientVars, C!Start, C!ReadNotif,
       C!RequestAnswered, C!fwdVars, C!userVars
  <2> QED BY <2>1, <1>0
<1>5. CASE ConnLost \/ ClientQuit
  <2>1. UNCHANGED <<published, received, user>>
    BY <1>5 DEF ConnLost, ClientQuit, ConnEnds, clientVars, C!ConnEnds, C!userVars
  <2> QED BY <2>1, <1>0
<1>6. CASE TimedOut \/ SubscribeReturns \/ Expire
  <2>1. UNCHANGED <<published, received, user>>
    BY <1>6 DEF TimedOut, SubscribeReturns, Expire, serverVars, clientVars
  <2> QED BY <2>1, <1>0
<1>7. CASE Dispatch \/ Run \/ Reconnect
  <2>1. UNCHANGED <<published, received, user>>
    BY <1>7 DEF Dispatch, Run, Reconnect, serverVars, C!Dispatch, C!DispGivesUp, C!ForwardIn,
       C!ForwardQuit, C!Run, C!RunEnded, C!Report, C!Send, C!Request, C!WriteOk, C!WriteFails,
       C!ReqSent, C!DialFails, C!RenewedEnds, C!Reconnect, C!fwdVars, C!userVars
  <2> QED BY <2>1, <1>0
<1>8. CASE ForwardOut
  <2>1. C!ForwardOut /\ UNCHANGED published BY <1>8 DEF ForwardOut, serverVars
  <2>2. /\ fwd = "select" /\ Len(received) \in Nat /\ Len(received) + 1 <= published
        /\ received' = Append(received, Len(received) + 1) /\ UNCHANGED user
    BY <2>1, OutFacts
  <2>3. published \in Nat BY DEF IInv, TypeOK, S!TypeOK
  <2>4. Len(received) < published BY <2>2, <2>3
  <2>5. ~UserReturned BY <2>2 DEF IInv, OnceInv, UserReturned
  <2>6. UserReturned' = UserReturned BY <2>2 DEF UserReturned
  <2> QED BY <2>1, <2>2, <2>4, <2>5, <2>6, Zenon DEF Delivery!Next, Delivery!Deliver
<1>9. CASE \E u \in Users : CallUnsubscribe(u) \/ Unsubscribe(u)
  <2>1. (UserReturned => UserReturned') /\ UNCHANGED <<published, received>> BY <1>9, StillReturned
  <2>2. CASE UserReturned'
    <3>1. UserReturned' = TRUE BY <2>2 DEF UserReturned
    <3> QED BY <2>1, <3>1 DEF Delivery!Next, Delivery!End
  <2>3. CASE ~UserReturned'
    <3>1. UserReturned' = UserReturned BY <2>1, <2>3 DEF UserReturned
    <3> QED BY <2>1, <3>1 DEF Delivery!vars
  <2> QED BY <2>2, <2>3
<1>10. CASE UNCHANGED vars
  <2>1. UNCHANGED <<published, received, user>> BY <1>10 DEF vars, serverVars, clientVars
  <2> QED BY <2>1, <1>0
<1> QED BY <1>1, <1>2, <1>3, <1>4, <1>5, <1>6, <1>7, <1>8, <1>9, <1>10 DEF Next, ServerMay

\* The server's half, the connection and the client's half implement the stream
\* that a subscription promises (Notifier.Notify, Notifier.activate,
\* ClientSubscription.forward, Unsubscribe): in order, without a gap, and nothing
\* after an Unsubscribe has returned.
THEOREM StreamTheorem == Spec => StreamImplemented
<1>1. Init => Delivery!Init BY DEF Init, S!Init, C!Init, Delivery!Init, UserReturned
<1>2. IInv /\ [Next]_vars => [Delivery!Next]_(Delivery!vars) BY StreamStep
<1>3. Spec => Delivery!Spec BY <1>1, <1>2, Invariance, PTL DEF Spec, Delivery!Spec
<1> QED BY <1>3 DEF StreamImplemented
=============================================================================
