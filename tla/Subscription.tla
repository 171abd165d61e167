---------------------------- MODULE Subscription ----------------------------
(***************************************************************************)
(* A subscription from end to end: the server's half (ServerSub) and the   *)
(* client's (ClientSub), joined by a connection that keeps the order of    *)
(* what is written and that may break at any time, and the goroutine that  *)
(* called Subscribe (rpc/client.go), whose context may expire while the    *)
(* answer is on its way.                                                   *)
(***************************************************************************)
EXTENDS Integers, Sequences

CONSTANTS
  Users,      \* goroutines that call Unsubscribe
  MaxNotifs,  \* bound: the number of calls of Notify
  MaxBuffer,  \* maxClientSubscriptionBuffer
  Doubtful    \* notifications that may not decode into the channel's type

ASSUME BoundAssumption ==
  MaxNotifs \in Nat /\ MaxBuffer \in Nat \ {0} /\ Doubtful \subseteq Nat

VARIABLES
  up, broken, call, created, failed, published, pending, flushed, activated, inSubs, errChan,
  unsub, closing, conn, serverPanicked

VARIABLES
  arrived, listed, disp, quitErr, fwd, reason, buffer, received, unsent, user, once,
  errVal, errClosed, clientPanicked

VARIABLES
  caller,  \* Subscribe: "wait", "sub" or "err" (returned), "leaving" or "gone" (timed out)
  pos,     \* how many messages the client has read
  asked,   \* an unsubscribe request is on its way
  cut      \* the client has given up the connection

serverVars == <<up, broken, call, created, failed, published, pending, flushed, activated, inSubs,
                errChan, unsub, closing, conn, serverPanicked>>
clientVars == <<arrived, listed, disp, quitErr, fwd, reason, buffer, received, unsent, user,
                once, errVal, errClosed, clientPanicked>>
wireVars   == <<caller, pos, asked, cut>>
vars       == <<serverVars, clientVars, wireVars>>

S == INSTANCE ServerSub WITH buffer <- pending, panicked <- serverPanicked
C == INSTANCE ClientSub WITH up <- listed, panicked <- clientPanicked

Init ==
  /\ S!Init /\ C!Init
  /\ caller = "wait" /\ pos = 0 /\ asked = FALSE /\ cut = FALSE
-----------------------------------------------------------------------------
(* The server *)

Serve  == S!Serve /\ UNCHANGED <<clientVars, wireVars>>
Answer == S!Answer /\ UNCHANGED <<clientVars, wireVars>>
Cancel == S!CancelServerSubscriptions /\ UNCHANGED <<clientVars, wireVars>>

ServerMay ==
  /\ S!CreateSubscription \/ S!Notify \/ S!Break \/ S!WriteBreaks \/ S!Close
  /\ UNCHANGED <<clientVars, wireVars>>

\* A connection that cannot be written to is noticed and closed: no ping gets
\* through, and the read deadline passes.
Drop == broken /\ S!Break /\ UNCHANGED <<clientVars, wireVars>>

\* The unsubscribe request arrives.
Accept ==
  /\ asked /\ up /\ asked' = FALSE
  /\ S!AcceptUnsubscribe
  /\ UNCHANGED <<clientVars, caller, pos, cut>>
-----------------------------------------------------------------------------
(* The client's dispatch *)

\* The request is still in respWait; the answer to one that timed out is
\* unsolicited.
Registered == caller \in {"wait", "leaving"} /\ fwd = "new"

\* What is read: the answer to the subscribe call, a notification (of an unknown
\* subscription if the call timed out), the answer to the unsubscribe call.
Read ==
  /\ ~cut /\ disp = "idle" /\ pos < Len(conn)
  /\ pos' = pos + 1
  /\ LET msg == conn[pos + 1] IN
       \/ /\ msg = S!IdMsg
          /\ IF Registered THEN C!Start ELSE UNCHANGED clientVars
          /\ UNCHANGED caller
       \/ /\ msg = S!ErrMsg
          /\ caller' = IF caller = "wait" THEN "err" ELSE caller
          /\ UNCHANGED clientVars
       \/ /\ msg > S!IdMsg
          /\ IF listed THEN C!ReadNotif(msg) ELSE UNCHANGED clientVars
          /\ UNCHANGED caller
       \/ /\ msg = S!UnsubMsg
          /\ C!RequestAnswered
          /\ UNCHANGED caller
  /\ UNCHANGED <<serverVars, asked, cut>>

\* conn.close, when the read loop has failed or the client is closed, which
\* closes the connection: cancelAllRequests
ConnEnds(err) ==
  /\ ~cut /\ disp = "idle" /\ cut' = TRUE
  /\ IF listed THEN C!ConnEnds(err) ELSE UNCHANGED clientVars
  /\ caller' = IF caller = "wait" /\ fwd = "new" THEN "err" ELSE caller
  /\ up' = FALSE
  /\ UNCHANGED <<broken, call, created, failed, published, pending, flushed, activated,
                 inSubs, errChan, unsub, closing, conn, serverPanicked, pos, asked>>

ConnLost   == ~up /\ ConnEnds("connErr")
ClientQuit == ConnEnds("clientQuit")

\* c.reqTimeout: the request is removed.
TimedOut ==
  /\ caller = "leaving" /\ (disp = "idle" \/ cut) /\ caller' = "gone"
  /\ UNCHANGED <<serverVars, clientVars, pos, asked, cut>>
-----------------------------------------------------------------------------
(* Subscribe: op.wait *)

SubscribeReturns ==
  /\ caller = "wait" /\ fwd # "new" /\ caller' = "sub"
  /\ UNCHANGED <<serverVars, clientVars, pos, asked, cut>>

\* The context expires; the answer may have come all the same.
Expire ==
  /\ caller = "wait" /\ caller' = "leaving"
  /\ UNCHANGED <<serverVars, clientVars, pos, asked, cut>>
-----------------------------------------------------------------------------
(* The subscription *)

Dispatch   == C!Dispatch /\ UNCHANGED <<serverVars, wireVars>>
ForwardOut == C!ForwardOut /\ UNCHANGED <<serverVars, wireVars>>

Run ==
  \/ C!Run /\ UNCHANGED <<serverVars, wireVars>>
  \/ C!WriteOk /\ asked' = TRUE /\ UNCHANGED <<serverVars, caller, pos, cut>>

\* The unsubscribe request could not be written and the client has another
\* connection: the one of the subscription is closed.
Reconnect ==
  /\ C!Reconnect
  /\ cut' = TRUE /\ up' = FALSE
  /\ UNCHANGED <<broken, call, created, failed, published, pending, flushed, activated,
                 inSubs, errChan, unsub, closing, conn, serverPanicked, caller, pos, asked>>

\* Only who has got the subscription can end it.
CallUnsubscribe(u) == caller = "sub" /\ C!Call(u) /\ UNCHANGED <<serverVars, wireVars>>
Unsubscribe(u) == C!Unsubscribe(u) /\ UNCHANGED <<serverVars, wireVars>>
-----------------------------------------------------------------------------
Next ==
  \/ Serve \/ Answer \/ Cancel \/ ServerMay \/ Accept \/ Drop
  \/ Read \/ ConnLost \/ ClientQuit \/ TimedOut \/ SubscribeReturns \/ Expire
  \/ Dispatch \/ ForwardOut \/ Run \/ Reconnect
  \/ \E u \in Users : CallUnsubscribe(u) \/ Unsubscribe(u)

Spec == Init /\ [][Next]_vars

Goroutines ==
  \/ Serve \/ Answer \/ Cancel \/ Accept \/ Drop
  \/ Read \/ ConnLost \/ TimedOut \/ SubscribeReturns \/ Dispatch \/ Run \/ Reconnect
  \/ \E u \in Users : Unsubscribe(u)

(***************************************************************************)
(* The goroutines are scheduled, on both sides, and the connection carries *)
(* what is written, or breaks and is noticed; the service returns from the *)
(* subscribe call.  The steps of all of them are bounded by MaxNotifs, so  *)
(* that one condition is as good as one for each.  The user need not       *)
(* receive from its channel, nobody need close or unsubscribe.             *)
(***************************************************************************)
FairSpec == Spec /\ WF_vars(Goroutines)
-----------------------------------------------------------------------------
\* Type invariant of the two halves and of the wire.
TypeOK ==
  /\ S!TypeOK /\ C!TypeOK
  /\ caller \in {"wait", "sub", "err", "leaving", "gone"}
  /\ pos \in 0..Len(conn) /\ asked \in BOOLEAN /\ cut \in BOOLEAN

UserReturned == \E u \in Users : user[u] = "returned"

Delivery == INSTANCE Stream WITH delivered <- received, over <- UserReturned

\* The two halves and the wire implement the stream of notifications that a
\* subscription promises: in the order of the calls of Notify, without a gap,
\* whether they were buffered before the id was sent, on the wire or in the
\* client, and none after an Unsubscribe has returned (the user may close its
\* channel).
StreamImplemented == Delivery!Spec

\* Neither error channel is closed twice or sent on after it was closed: the
\* server's by an unsubscribe call and the end of the connection, the client's by
\* the forwarding goroutine and the callers of Unsubscribe.
NoPanic == ~serverPanicked /\ ~clientPanicked

\* The call of the unsubscribe method was dropped and will never return.
Stranded == fwd = "stranded"

\* When an Unsubscribe has returned, the server has ended the subscription or
\* the connection is gone, unless the request could not be written and no new
\* connection was made, an error that run ignores.
UnsubscribeReachesServer == UserReturned => errChan = "closed" \/ ~up \/ unsent

\* dispatch is never blocked for good by a subscriber that does not receive, that
\* unsubscribes, or that timed out and will never receive: every deliver and
\* every close ends.
DispatchFree == disp # "idle" ~> disp = "idle"

\* Every call of Unsubscribe returns, unless the read loop fails between the
\* write of the request to the server and dispatch's learning of it.
UnsubscribeReturns ==
  (\E u \in Users : user[u] # "no")
    ~> (\A u \in Users : user[u] \in {"no", "returned"}) \/ Stranded

\* A subscription that ends by an error reports it on sub.err, with the same
\* exception for the errors after which the server is asked to unsubscribe.
ErrReported ==
  reason \in C!Errors ~>
    \/ errVal = (IF reason = "clientQuit" THEN "nil" ELSE reason)
    \/ Stranded /\ reason \in {"decode", "overflow"}

\* Closing the server's handler ends every subscription created on the
\* connection, those too that the client has forgotten.
CloseEndsSubscription == closing = "wait" /\ created ~> errChan = "closed"

\* A user that has the subscription and keeps receiving gets everything that was
\* published, unless the subscription ends.
Delivered ==
  WF_vars(ForwardOut) =>
    (caller = "sub" ~> Len(received) = published \/ fwd # "select")
=============================================================================
