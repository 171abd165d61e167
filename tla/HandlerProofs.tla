--------------------------- MODULE HandlerProofs ----------------------------
(***************************************************************************)
(* The handler of a connection, for any messages, batches and limits.      *)
(* Seen on its own, each half of Handler behaves like its module           *)
(* (Composed), so that single messages and the batch are treated           *)
(* separately: for a message the state of the Once connects the goroutine, *)
(* the timer and the connection (OnceInv); for a batch, what the buffer    *)
(* holds answers exactly the calls popped so far, until somebody writes    *)
(* (RespInv).  Only that nothing is written after close (BatchQuiet) needs *)
(* both.                                                                   *)
(***************************************************************************)
EXTENDS Handler, SequenceTheorems, WellFoundedInduction, TLAPS

-----------------------------------------------------------------------------
(* Single messages *)

OnceInv(m) ==
  /\ Pending(m) <=> once[m] = "running"
  /\ ~(wpc[m] = "write" /\ tpc[m] = "write")
  /\ (\E i \in 1..Len(conn) : conn[i][1] = m) => once[m] = "done"
  /\ wpc[m] = "done" /\ kind[m] # "notif" => once[m] = "done"
  /\ wpc[m] = "none" => once[m] = "new" /\ tpc[m] = "off"
  /\ wpc[m] \in {"do", "write"} => kind[m] # "notif"

CloseInv == closed = "yes" => \A m \in Msgs : wpc[m] \in {"none", "done"}

MsgInv == TypeOK /\ OneResponse /\ CloseInv /\ \A m \in Msgs : OnceInv(m)

\* A handler without messages satisfies the inductive invariant.
LEMMA MsgInit == Init => MsgInv
BY HasTimeoutAssumption DEF Init, MsgInv, TypeOK, OneResponse, CloseInv, OnceInv, Pending

\* Appending the first response to m keeps the responses apart.
LEMMA AppendFirst ==
  ASSUME TypeOK, OneResponse, NEW m \in Msgs, NEW what \in {"answer", "timeout"},
         ~\E i \in 1..Len(conn) : conn[i][1] = m,
         conn' = Append(conn, <<m, what>>)
  PROVE  /\ conn' \in Seq(Msgs \X {"answer", "timeout"})
         /\ OneResponse'
         /\ \A n \in Msgs : n # m =>
              ((\E i \in 1..Len(conn') : conn'[i][1] = n) => \E i \in 1..Len(conn) : conn[i][1] = n)
<1>1. /\ conn' \in Seq(Msgs \X {"answer", "timeout"})
      /\ Len(conn') = Len(conn) + 1 /\ Len(conn) \in Nat
      /\ conn'[Len(conn) + 1] = <<m, what>>
      /\ \A i \in 1..Len(conn) : conn'[i] = conn[i]
  BY DEF TypeOK
<1>2. \A i \in 1..Len(conn') : i \in 1..Len(conn) \/ i = Len(conn) + 1 BY <1>1
<1> QED BY <1>1, <1>2 DEF OneResponse

\* Every step of the workers, the timers and close preserves it.
LEMMA MsgStep == MsgInv /\ [Next]_vars => MsgInv'
<1> SUFFICES ASSUME MsgInv, [Next]_vars PROVE MsgInv' OBVIOUS
<1> USE DEF MsgInv
<1>1. ASSUME NEW m \in Msgs, HandleMsg(m) PROVE MsgInv'
  BY <1>1, HasTimeoutAssumption DEF HandleMsg, TypeOK, OneResponse, CloseInv, OnceInv, Pending
<1>2. ASSUME NEW m \in Msgs, Return(m) PROVE MsgInv'
  BY <1>2 DEF Return, TypeOK, OneResponse, CloseInv, OnceInv, Pending
<1>3. ASSUME NEW m \in Msgs, StopTimer(m) PROVE MsgInv'
  BY <1>3 DEF StopTimer, TypeOK, OneResponse, CloseInv, OnceInv, Pending
<1>4. ASSUME NEW m \in Msgs, WorkerDo(m) PROVE MsgInv'
  BY <1>4 DEF WorkerDo, Wins, Loses, TypeOK, OneResponse, CloseInv, OnceInv, Pending
<1>5. ASSUME NEW m \in Msgs, WorkerWrite(m) PROVE MsgInv'
  <2>1. ~\E i \in 1..Len(conn) : conn[i][1] = m BY <1>5 DEF WorkerWrite, OnceInv, Pending
  <2>2. conn' = Append(conn, <<m, "answer">>) BY <1>5 DEF WorkerWrite
  <2>3. TypeOK' BY <1>5, <2>1, <2>2, AppendFirst DEF WorkerWrite, TypeOK
  <2>4. OneResponse' BY <2>1, <2>2, AppendFirst
  <2>5. CloseInv' BY <1>5 DEF WorkerWrite, TypeOK, CloseInv
  <2>6. OnceInv(m)' BY <1>5 DEF WorkerWrite, TypeOK, OnceInv, Pending
  <2>7. ASSUME NEW n \in Msgs, n # m PROVE OnceInv(n)'
    <3>1. (\E i \in 1..Len(conn') : conn'[i][1] = n) => once[n] = "done"
      BY <2>1, <2>2, <2>7, AppendFirst DEF OnceInv
    <3> QED BY <3>1, <2>7, <1>5 DEF WorkerWrite, TypeOK, OnceInv, Pending
  <2> QED BY <2>3, <2>4, <2>5, <2>6, <2>7
<1>6. ASSUME NEW m \in Msgs, Fire(m) PROVE MsgInv'
  BY <1>6 DEF Fire, TypeOK, OneResponse, CloseInv, OnceInv, Pending
<1>7. ASSUME NEW m \in Msgs, TimerDo(m) PROVE MsgInv'
  <2>1. TypeOK' /\ OneResponse' /\ CloseInv'
    BY <1>7 DEF TimerDo, TypeOK, OneResponse, CloseInv
  <2>2. ASSUME NEW n \in Msgs PROVE OnceInv(n)'
    <3>1. CASE Wins(m)
      BY <1>7, <3>1 DEF TimerDo, Wins, Loses, TypeOK, OnceInv, Pending
    <3>2. CASE Loses(m)
      BY <1>7, <3>2 DEF TimerDo, Wins, Loses, TypeOK, OnceInv, Pending
    <3> QED BY <1>7, <3>1, <3>2 DEF TimerDo
  <2> QED BY <2>1, <2>2
<1>8. ASSUME NEW m \in Msgs, TimerWrite(m) PROVE MsgInv'
  <2>1. ~\E i \in 1..Len(conn) : conn[i][1] = m BY <1>8 DEF TimerWrite, OnceInv, Pending
  <2>2. conn' = Append(conn, <<m, "timeout">>) BY <1>8 DEF TimerWrite
  <2>3. TypeOK' BY <1>8, <2>1, <2>2, AppendFirst DEF TimerWrite, TypeOK
  <2>4. OneResponse' BY <2>1, <2>2, AppendFirst
  <2>5. CloseInv' BY <1>8 DEF TimerWrite, TypeOK, CloseInv
  <2>6. OnceInv(m)' BY <1>8 DEF TimerWrite, TypeOK, OnceInv, Pending
  <2>7. ASSUME NEW n \in Msgs, n # m PROVE OnceInv(n)'
    <3>1. (\E i \in 1..Len(conn') : conn'[i][1] = n) => once[n] = "done"
      BY <2>1, <2>2, <2>7, AppendFirst DEF OnceInv
    <3> QED BY <3>1, <2>7, <1>8 DEF TimerWrite, TypeOK, OnceInv, Pending
  <2> QED BY <2>3, <2>4, <2>5, <2>6, <2>7
<1>9. CASE Close BY <1>9 DEF Close, TypeOK, OneResponse, CloseInv, OnceInv, Pending
<1>10. CASE Closed BY <1>10 DEF Closed, TypeOK, OneResponse, CloseInv, OnceInv, Pending
<1>11. CASE UNCHANGED vars BY <1>11 DEF vars, TypeOK, OneResponse, CloseInv, OnceInv, Pending
<1> QED BY <1>1, <1>2, <1>3, <1>4, <1>5, <1>6, <1>7, <1>8, <1>9, <1>10, <1>11
        DEF Next, Worker, Timer

\* The inductive invariant holds in every reachable state.
LEMMA MsgInvariance == Spec => []MsgInv
BY MsgInit, MsgStep, PTL DEF Spec

-----------------------------------------------------------------------------
(* The batch *)

\* How many messages of the batch have been dealt with.
Popped == Len(batch) - Len(calls)

BatchMessage ==
  [resp : Seq(Nat \X {"result", "toolarge", "timeout", "invalid"}),
   by : {"limit", "timer", "worker", "cancelled_worker"}]

BatchType ==
  /\ batch \in Seq({"call", "notif"})
  /\ bwpc \in {"start", "check", "next", "call", "push", "toolarge", "finish", "write", "done"}
  /\ btpc \in {"off", "armed", "fired", "cancelled", "done", "stopped"}
  /\ cancelled \in BOOLEAN /\ gone \in BOOLEAN /\ wrote \in BOOLEAN
  /\ calls \in Seq(Nat) /\ resp \in Seq(Nat \X {"result", "toolarge", "timeout"})
  /\ answer \in Nat \cup {-1} /\ bytes \in Nat
  /\ out \in Seq(BatchMessage)

\* The buffer's calls are the last messages of the batch, in order; one is there
\* while the worker is busy with it, and what it answers tells a call from a
\* notification.
CallsInv ==
  /\ Len(calls) <= Len(batch)
  /\ \A k \in 1..Len(calls) : calls[k] = Popped + k
  /\ bwpc \in {"call", "push"} => calls # <<>>
  /\ bwpc = "push" => (answer # -1 <=> B!isCall(Popped + 1))

\* r answers the calls among the first c messages, in order.
AnswersFirst(r, c) ==
  /\ \A k, l \in 1..Len(r) : k < l => r[k][1] < r[l][1]
  /\ \A k \in 1..Len(r) : r[k][1] \in 1..c /\ B!isCall(r[k][1]) /\ r[k][2] # "invalid"
  /\ \A m \in 1..c : B!isCall(m) => \E k \in 1..Len(r) : r[k][1] = m

\* Until somebody writes, the buffer answers what was popped.  A worker stops
\* before the end only because of its context, or because the limit has answered.
RespInv ==
  /\ ~wrote /\ bwpc # "done" => AnswersFirst(resp, IF bwpc = "start" THEN 0 ELSE Popped)
  /\ bwpc \in {"finish", "write"} => cancelled \/ gone \/ wrote \/ calls = <<>>

\* Nobody has written, or it is done once and for all.
WroteInv ==
  /\ ~wrote /\ bwpc # "done" => out = <<>>
  /\ bwpc = "start" => btpc = "off" /\ ~wrote /\ calls = <<>> /\ resp = <<>>
  /\ bwpc = "done" /\ ~wrote => btpc = "off"

BatchInv == BatchType /\ CallsInv /\ RespInv /\ WroteInv /\ BatchAnswer

\* close has returned only when the batch is over.
ClosedInv == closed = "yes" => bwpc \in {"start", "done"}

\* A set of natural numbers with a member has a least one (the id of a refused
\* batch is that of its first call).
LEMMA LeastExists ==
  ASSUME NEW S \in SUBSET Nat, S # {}
  PROVE  \E i \in S : \A j \in S : i <= j
<1> DEFINE R == {ss \in Nat \X Nat : ss[1] < ss[2]}
<1>1. IsWellFoundedOn(R, Nat) BY NatLessThanWellFounded DEF OpToRel
<1> HIDE DEF R
<1>2. PICK i \in S : \A j \in S : ~(<<j, i>> \in R) BY <1>1, WFMin
<1>3. \A j \in S : ~(j < i) BY <1>2 DEF R
<1> QED BY <1>3

\* pushResponse: the answer to the next call, or none for a notification, goes on
\* with the answers given so far.
LEMMA PushAnswers ==
  ASSUME NEW r \in Seq(Nat \X {"result", "toolarge", "timeout"}), NEW c \in Nat,
         AnswersFirst(r, c)
  PROVE  /\ B!isCall(c + 1) => AnswersFirst(Append(r, <<c + 1, "result">>), c + 1)
         /\ ~B!isCall(c + 1) => AnswersFirst(r, c + 1)
<1>1. ASSUME B!isCall(c + 1) PROVE AnswersFirst(Append(r, <<c + 1, "result">>), c + 1)
  <2> DEFINE s == Append(r, <<c + 1, "result">>)
  <2>1. /\ Len(s) = Len(r) + 1 /\ Len(r) \in Nat
        /\ s[Len(r) + 1] = <<c + 1, "result">>
        /\ \A k \in 1..Len(r) : s[k] = r[k]
    OBVIOUS
  <2>2. \A k \in 1..Len(s) : k \in 1..Len(r) \/ k = Len(r) + 1 BY <2>1
  <2>3. \A m \in 1..c + 1 : m \in 1..c \/ m = c + 1 OBVIOUS
  <2> HIDE DEF s
  <2>4. \A k, l \in 1..Len(s) : k < l => s[k][1] < s[l][1]
    BY <2>1, <2>2 DEF AnswersFirst
  <2>5. \A k \in 1..Len(s) : s[k][1] \in 1..c + 1 /\ B!isCall(s[k][1]) /\ s[k][2] # "invalid"
    BY <1>1, <2>1, <2>2 DEF AnswersFirst
  <2>6. \A m \in 1..c + 1 : B!isCall(m) => \E k \in 1..Len(s) : s[k][1] = m
    <3> SUFFICES ASSUME NEW m \in 1..c + 1, B!isCall(m) PROVE \E k \in 1..Len(s) : s[k][1] = m
      OBVIOUS
    <3>1. CASE m = c + 1 BY <3>1, <2>1
    <3>2. CASE m \in 1..c
      <4>1. PICK k \in 1..Len(r) : r[k][1] = m BY <3>2 DEF AnswersFirst
      <4> QED BY <4>1, <2>1
    <3> QED BY <3>1, <3>2, <2>3
  <2>7. AnswersFirst(s, c + 1) BY <2>4, <2>5, <2>6 DEF AnswersFirst
  <2> QED BY <2>7 DEF s
<1>2. ASSUME ~B!isCall(c + 1) PROVE AnswersFirst(r, c + 1)
  <2>1. \A m \in 1..c + 1 : m \in 1..c \/ m = c + 1 OBVIOUS
  <2> QED BY <1>2, <2>1 DEF AnswersFirst
<1> QED BY <1>1, <1>2

\* respondWithError: what it appends is well formed, and with it every call of
\* the batch is answered.
LEMMA Completed ==
  ASSUME BatchType, CallsInv,
         NEW err \in {"toolarge", "timeout"},
         NEW open \in B!Ascending({i \in 1..Len(calls) : B!isCall(calls[i])}),
         NEW r
  PROVE  r = resp \o [i \in 1..Len(open) |-> <<calls[open[i]], err>>] =>
           /\ r \in Seq(Nat \X {"result", "toolarge", "timeout"})
           /\ AnswersFirst(resp, Popped) => AnswersFirst(r, Len(batch))
<1> DEFINE K == {i \in 1..Len(calls) : B!isCall(calls[i])}
<1>1. Len(calls) \in Nat /\ Len(batch) \in Nat /\ Len(calls) <= Len(batch) /\ Len(resp) \in Nat
  BY DEF BatchType, CallsInv
<1>2. PICK n \in 0..Len(calls) : open \in [1..n -> K]
  BY DEF B!Ascending
<1>3. /\ n \in Nat /\ open \in [1..n -> K]
      /\ \A k \in K : \E i \in 1..n : open[i] = k
      /\ \A i, j \in 1..n : i < j => open[i] < open[j]
  <2>1. n \in Nat /\ DOMAIN open = 1..n BY <1>1, <1>2
  <2>2. K = {open[i] : i \in 1..n} BY <2>1 DEF B!Ascending
  <2>3. \A i, j \in 1..n : i < j => open[i] < open[j] BY <2>1 DEF B!Ascending
  <2> QED BY <1>2, <2>1, <2>2, <2>3
<1>4. \A k \in K : /\ k \in Nat /\ calls[k] = Popped + k /\ B!isCall(Popped + k)
                   /\ Popped + k \in (Popped + 1)..Len(batch) /\ Popped + k \in Nat
  BY <1>1 DEF CallsInv, Popped
<1>5. \A m \in (Popped + 1)..Len(batch) : B!isCall(m) => m - Popped \in K
  <2> SUFFICES ASSUME NEW m \in (Popped + 1)..Len(batch), B!isCall(m) PROVE m - Popped \in K
    OBVIOUS
  <2>1. m - Popped \in 1..Len(calls) /\ Popped + (m - Popped) = m BY <1>1 DEF Popped
  <2>2. calls[m - Popped] = m BY <2>1 DEF CallsInv
  <2> QED BY <2>1, <2>2
<1>6. Popped \in Nat /\ Popped <= Len(batch) BY <1>1 DEF Popped
<1> HIDE DEF K
<1>7. Len(open) = n
  <2>1. open \in Seq(K) BY <1>3
  <2> QED BY <2>1, <1>3
<1>8. \A i \in 1..n : open[i] \in K BY <1>3
<1> DEFINE T == Nat \X {"result", "toolarge", "timeout"}
           t == [i \in 1..n |-> <<calls[open[i]], err>>]
<1>9. t \in Seq(T) /\ Len(t) = n
  <2>1. \A i \in 1..n : <<calls[open[i]], err>> \in T BY <1>4, <1>8
  <2> QED BY <2>1, <1>3
<1>10. \A i \in 1..n : t[i][1] = Popped + open[i] /\ t[i][2] = err BY <1>4, <1>8
<1>11. resp \in Seq(T) BY DEF BatchType
<1> HIDE DEF T
<1>12. \A q : q = resp \o [i \in 1..Len(open) |-> <<calls[open[i]], err>>] => q = resp \o t BY <1>7
<1> HIDE DEF t
<1>13. /\ resp \o t \in Seq(T) /\ Len(resp \o t) = Len(resp) + Len(t)
       /\ \A k \in 1..Len(resp) + Len(t) :
            (resp \o t)[k] = IF k <= Len(resp) THEN resp[k] ELSE t[k - Len(resp)]
  BY <1>9, <1>11, ConcatProperties, Zenon
<1> SUFFICES ASSUME Len(r) = Len(resp) + n,
                    \A k \in 1..Len(resp) + n :
                      r[k] = IF k <= Len(resp) THEN resp[k] ELSE t[k - Len(resp)],
                    AnswersFirst(resp, Popped)
             PROVE  AnswersFirst(r, Len(batch))
  BY <1>9, <1>12, <1>13, Zenon DEF T
<1>14. \A k \in 1..Len(resp) :
         /\ k \in 1..Len(r) /\ r[k] = resp[k]
         /\ r[k][1] \in Nat /\ r[k][1] >= 1 /\ r[k][1] <= Popped
         /\ B!isCall(r[k][1]) /\ r[k][2] # "invalid"
  <2> SUFFICES ASSUME NEW k \in 1..Len(resp)
               PROVE  /\ k \in 1..Len(r) /\ r[k] = resp[k]
                      /\ r[k][1] \in Nat /\ r[k][1] >= 1 /\ r[k][1] <= Popped
                      /\ B!isCall(r[k][1]) /\ r[k][2] # "invalid"
    OBVIOUS
  <2>1. k \in 1..Len(r) /\ r[k] = resp[k] BY <1>1, <1>3
  <2>2. resp[k][1] \in 1..Popped /\ B!isCall(resp[k][1]) /\ resp[k][2] # "invalid"
    BY DEF AnswersFirst
  <2> QED BY <2>1, <2>2, <1>6
<1>15. \A i \in 1..n : /\ Len(resp) + i \in 1..Len(r)
                       /\ r[Len(resp) + i][1] = Popped + open[i] /\ r[Len(resp) + i][2] = err
  <2> SUFFICES ASSUME NEW i \in 1..n
               PROVE  /\ Len(resp) + i \in 1..Len(r)
                      /\ r[Len(resp) + i][1] = Popped + open[i] /\ r[Len(resp) + i][2] = err
    OBVIOUS
  <2>1. /\ Len(resp) + i \in 1..Len(resp) + n /\ ~(Len(resp) + i <= Len(resp))
        /\ (Len(resp) + i) - Len(resp) = i
    BY <1>1, <1>3
  <2>2. r[Len(resp) + i] = t[i] BY <2>1
  <2> QED BY <2>1, <2>2, <1>10
<1>16. \A k \in 1..Len(r) : k \in 1..Len(resp) \/ \E i \in 1..n : k = Len(resp) + i
  <2> SUFFICES ASSUME NEW k \in 1..Len(r), ~(k \in 1..Len(resp))
               PROVE  \E i \in 1..n : k = Len(resp) + i
    OBVIOUS
  <2>1. k - Len(resp) \in 1..n /\ k = Len(resp) + (k - Len(resp)) BY <1>1, <1>3
  <2> QED BY <2>1
<1>17. \A k, l \in 1..Len(r) : k < l => r[k][1] < r[l][1]
  <2> SUFFICES ASSUME NEW k \in 1..Len(r), NEW l \in 1..Len(r), k < l PROVE r[k][1] < r[l][1]
    OBVIOUS
  <2>1. CASE k \in 1..Len(resp) /\ l \in 1..Len(resp)
    <3>1. resp[k][1] < resp[l][1] BY <2>1 DEF AnswersFirst
    <3> QED BY <3>1, <2>1, <1>14
  <2>2. CASE k \in 1..Len(resp) /\ \E j \in 1..n : l = Len(resp) + j
    <3>1. PICK j \in 1..n : l = Len(resp) + j BY <2>2
    <3>2. open[j] \in Nat /\ Popped + open[j] >= Popped + 1 BY <1>4, <1>6, <1>8
    <3>3. r[l][1] = Popped + open[j] BY <3>1, <1>15
    <3>4. r[k][1] \in Nat /\ r[k][1] <= Popped BY <2>2, <1>14
    <3> QED BY <3>2, <3>3, <3>4, <1>6
  <2>3. CASE (\E i \in 1..n : k = Len(resp) + i) /\ l \in 1..Len(resp)
    BY <2>3, <1>1, <1>3
  <2>4. CASE (\E i \in 1..n : k = Len(resp) + i) /\ (\E j \in 1..n : l = Len(resp) + j)
    <3>1. PICK i \in 1..n : k = Len(resp) + i BY <2>4
    <3>2. PICK j \in 1..n : l = Len(resp) + j BY <2>4
    <3>3. i < j BY <3>1, <3>2, <1>1, <1>3
    <3>4. open[i] < open[j] /\ open[i] \in Nat /\ open[j] \in Nat BY <3>3, <1>3, <1>4, <1>8
    <3>5. r[k][1] = Popped + open[i] /\ r[l][1] = Popped + open[j] BY <3>1, <3>2, <1>15
    <3> QED BY <3>4, <3>5, <1>6
  <2> QED BY <2>1, <2>2, <2>3, <2>4, <1>16
<1>18. \A k \in 1..Len(r) : r[k][1] \in 1..Len(batch) /\ B!isCall(r[k][1]) /\ r[k][2] # "invalid"
  <2> SUFFICES ASSUME NEW k \in 1..Len(r)
               PROVE  r[k][1] \in 1..Len(batch) /\ B!isCall(r[k][1]) /\ r[k][2] # "invalid"
    OBVIOUS
  <2>1. CASE k \in 1..Len(resp) BY <2>1, <1>1, <1>6, <1>14
  <2>2. CASE \E i \in 1..n : k = Len(resp) + i
    <3>1. PICK i \in 1..n : k = Len(resp) + i BY <2>2
    <3>2. r[k][1] = Popped + open[i] /\ r[k][2] = err BY <3>1, <1>15
    <3>3. B!isCall(Popped + open[i]) /\ Popped + open[i] \in 1..Len(batch) BY <1>1, <1>4, <1>6, <1>8
    <3> QED BY <3>2, <3>3
  <2> QED BY <2>1, <2>2, <1>16
<1>19. \A m \in 1..Len(batch) : B!isCall(m) => \E k \in 1..Len(r) : r[k][1] = m
  <2> SUFFICES ASSUME NEW m \in 1..Len(batch), B!isCall(m) PROVE \E k \in 1..Len(r) : r[k][1] = m
    OBVIOUS
  <2>1. CASE m \in 1..Popped
    <3>1. PICK k \in 1..Len(resp) : resp[k][1] = m BY <2>1 DEF AnswersFirst
    <3> QED BY <3>1, <1>14
  <2>2. CASE m \in (Popped + 1)..Len(batch)
    <3>1. PICK i \in 1..n : open[i] = m - Popped BY <2>2, <1>3, <1>5
    <3>2. Popped + (m - Popped) = m BY <1>6
    <3> QED BY <3>1, <3>2, <1>15
  <2>3. m \in 1..Popped \/ m \in (Popped + 1)..Len(batch) BY <1>1, <1>6
  <2> QED BY <2>1, <2>2, <2>3
<1> QED BY <1>17, <1>18, <1>19 DEF AnswersFirst


\* A step that leaves the batch and what is written alone keeps the answer.
LEMMA AnswerKept == BatchAnswer /\ UNCHANGED <<batch, out>> => BatchAnswer'
<1> SUFFICES ASSUME BatchAnswer, batch' = batch, out' = out PROVE BatchAnswer' OBVIOUS
<1>1. B!WriteOnce' BY DEF BatchAnswer, B!WriteOnce
<1>2. B!InOrder' BY DEF BatchAnswer, B!InOrder, B!isCall, B!isNotification
<1>3. B!Calls' = B!Calls BY DEF B!Calls, B!Positions, B!isCall, B!isNotification
<1>4. B!CompleteAnswer' BY <1>3 DEF BatchAnswer, B!CompleteAnswer, B!Answered
<1> QED BY <1>1, <1>2, <1>4 DEF BatchAnswer

\* A sequence over S is one over any larger set.
LEMMA SeqLarger ==
  ASSUME NEW S, NEW T, S \subseteq T, NEW s \in Seq(S)
  PROVE  s \in Seq(T)
OBVIOUS

\* The sequences of no and of one element.
LEMMA ShortSeqs ==
  /\ Len(<<>>) = 0
  /\ \A S : \A x \in S : /\ Append(<<>>, x) \in Seq(S) /\ Len(Append(<<>>, x)) = 1
                         /\ Append(<<>>, x)[1] = x
OBVIOUS

\* Answers make a message.
LEMMA MessageType ==
  ASSUME NEW r, NEW by \in {"limit", "timer", "worker", "cancelled_worker"}
  PROVE  r \in Seq(Nat \X {"result", "toolarge", "timeout"}) =>
           [resp |-> r, by |-> by] \in BatchMessage
<1> DEFINE S == Nat \X {"result", "toolarge", "timeout"}
           T == Nat \X {"result", "toolarge", "timeout", "invalid"}
<1>1. S \subseteq T OBVIOUS
<1>2. r \in Seq(S) => r \in Seq(T)
  <2> HIDE DEF S, T
  <2> QED BY <1>1, SeqLarger
<1> QED BY <1>2, Zenon DEF BatchMessage

\* The message that is written first answers the batch (up to c, when the worker
\* was cancelled), and nothing is written a second time.
LEMMA FirstWrite ==
  ASSUME out \in Seq(BatchMessage), wrote \in BOOLEAN, BatchAnswer, UNCHANGED batch,
         NEW r, NEW by, NEW c \in Nat,
         NEW o \in BatchMessage, o.resp = r, o.by = by,
         ~wrote => out = <<>> /\ AnswersFirst(r, c),
         by = "cancelled_worker" \/ wrote \/ c = Len(batch),
         wrote => UNCHANGED <<wrote, out>>,
         ~wrote => wrote' = TRUE /\ out' = IF r # <<>> THEN Append(out, o) ELSE out
  PROVE  wrote' = TRUE /\ out' \in Seq(BatchMessage) /\ BatchAnswer'
<1>1. CASE wrote
  <2>1. UNCHANGED <<wrote, out>> BY <1>1
  <2> QED BY <1>1, <2>1, AnswerKept
<1>2. CASE ~wrote /\ r = <<>>
  <2>1. wrote' = TRUE /\ out' = <<>> BY <1>2
  <2>2. Len(out') = 0 /\ 1..0 = {} BY <2>1, ShortSeqs
  <2>3. B!WriteOnce' /\ B!InOrder' /\ B!CompleteAnswer'
    BY <2>2 DEF B!WriteOnce, B!InOrder, B!CompleteAnswer
  <2> QED BY <2>1, <2>3 DEF BatchAnswer
<1>3. CASE ~wrote /\ r # <<>>
  <2>1. wrote' = TRUE /\ out' = Append(out, o) /\ out = <<>> BY <1>3
  <2>3. Len(out') = 1 /\ out'[1] = o /\ out' \in Seq(BatchMessage) BY <2>1, ShortSeqs, Zenon
  <2>4. \A n \in 1..Len(out') : out'[n] = o BY <2>3
  <2>5. \A k \in 1..Len(r) : r[k][1] \in 1..c /\ B!isCall(r[k][1]) BY <1>3 DEF AnswersFirst
  <2>6. B!InOrder'
    <3>1. \A k, l \in 1..Len(r) : k < l => r[k][1] < r[l][1] BY <1>3 DEF AnswersFirst
    <3>2. \A k \in 1..Len(r) : B!isCall(r[k][1])' BY <2>5 DEF B!isCall, B!isNotification
    <3> QED BY <2>4, <3>1, <3>2 DEF B!InOrder
  <2>7. by # "cancelled_worker" => {r[k][1] : k \in 1..Len(r)} = B!Calls
    <3> SUFFICES ASSUME by # "cancelled_worker" PROVE {r[k][1] : k \in 1..Len(r)} = B!Calls
      OBVIOUS
    <3>1. c = Len(batch) BY <1>3
    <3>2. \A m \in 1..c : B!isCall(m) => \E k \in 1..Len(r) : r[k][1] = m BY <1>3 DEF AnswersFirst
    <3> QED BY <2>5, <3>1, <3>2 DEF B!Calls, B!Positions
  <2>8. B!Calls' = B!Calls BY DEF B!Calls, B!Positions, B!isCall, B!isNotification
  <2>9. B!CompleteAnswer'
    BY <2>4, <2>7, <2>8 DEF B!CompleteAnswer, B!Answered
  <2>10. B!WriteOnce' BY <2>3 DEF B!WriteOnce
  <2> QED BY <2>1, <2>3, <2>6, <2>9, <2>10 DEF BatchAnswer
<1> QED BY <1>1, <1>2, <1>3

\* doWrite sends such a message.
LEMMA WriteAnswers ==
  ASSUME out \in Seq(BatchMessage), wrote \in BOOLEAN, BatchAnswer, UNCHANGED batch,
         NEW r, NEW by \in {"limit", "timer", "worker", "cancelled_worker"}, NEW c \in Nat,
         r \in Seq(Nat \X {"result", "toolarge", "timeout"}),
         ~wrote => out = <<>> /\ AnswersFirst(r, c),
         by = "cancelled_worker" \/ wrote \/ c = Len(batch),
         B!doWrite(r, by)
  PROVE  wrote' = TRUE /\ out' \in Seq(BatchMessage) /\ BatchAnswer'
<1> DEFINE o == [resp |-> r, by |-> by]
<1>1. o \in BatchMessage BY MessageType, Zenon
<1>2. o.resp = r /\ o.by = by OBVIOUS
<1>3. /\ wrote => UNCHANGED <<wrote, out>>
      /\ ~wrote => wrote' = TRUE /\ out' = IF r # <<>> THEN Append(out, o) ELSE out
  BY Zenon DEF B!doWrite
<1> HIDE DEF o
<1> QED BY <1>1, <1>2, <1>3, FirstWrite, Zenon

\* A batch that has just arrived satisfies the invariant.
LEMMA BatchInit == B!Init => BatchInv
<1> SUFFICES ASSUME B!Init PROVE BatchInv OBVIOUS
<1>1. BatchType
  <2>1. batch \in Seq({"call", "notif"}) BY BatchAssumption DEF B!Init
  <2>2. \A S : <<>> \in Seq(S) OBVIOUS
  <2>3. calls \in Seq(Nat) /\ resp \in Seq(Nat \X {"result", "toolarge", "timeout"})
        /\ out \in Seq(BatchMessage)
    BY <2>2, Zenon DEF B!Init
  <2>4. answer \in Nat \cup {-1} /\ bytes \in Nat BY DEF B!Init
  <2> QED BY <2>1, <2>3, <2>4, Zenon DEF B!Init, BatchType
<1>2. CallsInv BY <1>1 DEF B!Init, BatchType, CallsInv
<1>3. RespInv /\ WroteInv BY DEF B!Init, RespInv, WroteInv, AnswersFirst
<1>4. BatchAnswer BY DEF B!Init, BatchAnswer, B!WriteOnce, B!InOrder, B!CompleteAnswer
<1> QED BY <1>1, <1>2, <1>3, <1>4 DEF BatchInv

\* A step of the worker or of the timer that leaves the buffer alone keeps what
\* the buffer says.
LEMMA BufferKept ==
  ASSUME BatchInv, UNCHANGED <<batch, calls, resp, wrote, out>>
  PROVE  /\ batch' \in Seq({"call", "notif"}) /\ wrote' \in BOOLEAN
         /\ calls' \in Seq(Nat) /\ resp' \in Seq(Nat \X {"result", "toolarge", "timeout"})
         /\ out' \in Seq(BatchMessage)
         /\ Popped' = Popped
         /\ Len(calls') <= Len(batch') /\ \A k \in 1..Len(calls') : calls'[k] = Popped' + k
         /\ \A i : B!isCall(i)' <=> B!isCall(i)
         /\ AnswersFirst(resp, Popped)' <=> AnswersFirst(resp, Popped)
         /\ BatchAnswer'
<1>1. /\ batch' \in Seq({"call", "notif"}) /\ wrote' \in BOOLEAN
      /\ calls' \in Seq(Nat) /\ resp' \in Seq(Nat \X {"result", "toolarge", "timeout"})
      /\ out' \in Seq(BatchMessage)
  BY Zenon DEF BatchInv, BatchType
<1>2. Popped' = Popped BY DEF Popped
<1>3. Len(calls') <= Len(batch') /\ \A k \in 1..Len(calls') : calls'[k] = Popped' + k
  BY <1>2 DEF BatchInv, CallsInv
<1>4. \A i : B!isCall(i)' <=> B!isCall(i) BY DEF B!isCall, B!isNotification
<1>5. AnswersFirst(resp, Popped)' <=> AnswersFirst(resp, Popped)
  BY <1>2 DEF AnswersFirst, B!isCall, B!isNotification
<1>6. BatchAnswer' BY AnswerKept DEF BatchInv
<1> QED BY <1>1, <1>2, <1>3, <1>4, <1>5, <1>6, Zenon

\* handleBatch: the limit's response is for the first call, if there is one.
LEMMA StartInv == BatchInv /\ B!Start => BatchInv'
<1> SUFFICES ASSUME BatchInv, B!Start PROVE BatchInv' OBVIOUS
<1>0. /\ bwpc = "start" /\ btpc = "off" /\ calls = <<>> /\ resp = <<>> /\ wrote = FALSE /\ out = <<>>
      /\ UNCHANGED <<batch, cancelled, gone, resp, wrote, answer, bytes>>
      /\ batch \in Seq({"call", "notif"}) /\ Len(batch) \in Nat
  BY DEF BatchInv, BatchType, WroteInv, B!Start
<1>1. CASE batch = <<>> \/ (RequestLimit # 0 /\ Len(batch) > RequestLimit)
  <2>1. bwpc' = "done" /\ UNCHANGED <<btpc, calls>> BY <1>1 DEF B!Start
  <2>2. PICK id \in Nat : /\ out' = Append(out, [resp |-> <<<<id, "invalid">>>>, by |-> "limit"])
                          /\ id # 0 => B!isCall(id)
    <3> DEFINE first == IF B!Calls = {} THEN 0 ELSE CHOOSE i \in B!Calls : \A j \in B!Calls : i <= j
    <3>1. out' = Append(out, [resp |-> <<<<first, "invalid">>>>, by |-> "limit"])
      BY <1>1 DEF B!Start
    <3>2. B!Calls \in SUBSET Nat BY <1>0 DEF B!Calls, B!Positions
    <3>3. first = 0 \/ first \in B!Calls BY <3>2, LeastExists
    <3> HIDE DEF first
    <3>4. first \in Nat /\ (first # 0 => B!isCall(first)) BY <3>2, <3>3 DEF B!Calls
    <3> QED BY <3>1, <3>4
  <2>3. B!isCall(id)' <=> B!isCall(id) BY <1>0 DEF B!isCall, B!isNotification
  <2> DEFINE r == <<<<id, "invalid">>>>
             o == [resp |-> r, by |-> "limit"]
  <2>4. /\ o.resp = r /\ o.by = "limit"
        /\ Len(r) = 1 /\ r[1][1] = id /\ r[1][2] = "invalid"
    OBVIOUS
  <2>5. o \in BatchMessage
    <3>1. <<id, "invalid">> \in Nat \X {"result", "toolarge", "timeout", "invalid"} OBVIOUS
    <3>2. \A S : \A x \in S : <<x>> \in Seq(S) OBVIOUS
    <3>3. r \in Seq(Nat \X {"result", "toolarge", "timeout", "invalid"}) BY <3>1, <3>2, Zenon
    <3> QED BY <3>3, Zenon DEF BatchMessage
  <2> HIDE DEF o, r
  <2>6. Len(out') = 1 /\ out'[1] = o /\ out' \in Seq(BatchMessage)
    BY <2>2, <2>5, <1>0, ShortSeqs, Zenon DEF o, r
  <2>7. \A n \in 1..Len(out') : out'[n] = o BY <2>6
  <2>8. B!InOrder'
    <3>1. \A k, l \in 1..Len(r) : k < l => r[k][1] < r[l][1] BY <2>4
    <3>2. \A k \in 1..Len(r) : k = 1 BY <2>4
    <3>3. r[1][1] = id BY <2>4
    <3>4. \A k \in 1..Len(r) : r[k][1] # 0 => B!isCall(r[k][1])' BY <2>2, <2>3, <3>2, <3>3, Zenon
    <3>5. \A n \in 1..Len(out') : out'[n].resp = r BY <2>4, <2>7
    <3> QED BY <3>1, <3>4, <3>5 DEF B!InOrder
  <2>9. B!CompleteAnswer' BY <2>4, <2>7 DEF B!CompleteAnswer
  <2>10. BatchAnswer' BY <2>6, <2>8, <2>9 DEF BatchAnswer, B!WriteOnce
  <2>11. BatchType' BY <2>1, <2>6, <1>0, Zenon DEF BatchInv, BatchType
  <2>12. CallsInv'
    <3>1. Len(calls') = 0 /\ 1..0 = {} BY <1>0, <2>1, ShortSeqs
    <3> QED BY <3>1, <1>0, <2>1 DEF CallsInv
  <2> QED BY <1>0, <2>1, <2>10, <2>11, <2>12 DEF BatchInv, RespInv, WroteInv
<1>2. CASE ~(batch = <<>> \/ (RequestLimit # 0 /\ Len(batch) > RequestLimit))
  <2>1. /\ calls' = [i \in 1..Len(batch) |-> i] /\ bwpc' = "check" /\ UNCHANGED out
        /\ btpc' \in {"armed", "off"}
    BY <1>2, Zenon DEF B!Start, B!Positions
  <2>2. /\ calls' \in Seq(Nat) /\ Len(calls') = Len(batch')
        /\ \A k \in 1..Len(calls') : calls'[k] = k
    BY <2>1, <1>0
  <2>3. Popped' = 0 BY <2>2, <1>0 DEF Popped
  <2>4. BatchAnswer' BY <1>0, <2>1, AnswerKept DEF BatchInv
  <2>5. BatchType' BY <1>0, <2>1, <2>2, Zenon DEF BatchInv, BatchType
  <2>6. CallsInv' BY <1>0, <2>1, <2>2, <2>3 DEF CallsInv
  <2>7. AnswersFirst(resp, Popped)' BY <1>0, <2>3, ShortSeqs DEF AnswersFirst
  <2>8. RespInv' BY <2>1, <2>7 DEF RespInv
  <2> QED BY <1>0, <2>1, <2>4, <2>5, <2>6, <2>8 DEF BatchInv, WroteInv
<1> QED BY <1>1, <1>2

\* The loop's head, nextCall and the methods leave the buffer alone.
LEMMA LoopInv ==
  BatchInv /\ (B!CheckContext \/ B!NextCall \/ \E size \in Sizes : B!Return(size)) => BatchInv'
<1> SUFFICES ASSUME BatchInv, B!CheckContext \/ B!NextCall \/ \E size \in Sizes : B!Return(size)
             PROVE  BatchInv'
  OBVIOUS
<1>1. UNCHANGED <<batch, btpc, cancelled, gone, calls, resp, wrote, out, bytes>>
  BY Zenon DEF B!CheckContext, B!NextCall, B!Return, B!buffer
<1>2. /\ batch' \in Seq({"call", "notif"}) /\ wrote' \in BOOLEAN
      /\ calls' \in Seq(Nat) /\ resp' \in Seq(Nat \X {"result", "toolarge", "timeout"})
      /\ out' \in Seq(BatchMessage)
      /\ Popped' = Popped
      /\ Len(calls') <= Len(batch') /\ \A k \in 1..Len(calls') : calls'[k] = Popped' + k
      /\ \A i : B!isCall(i)' <=> B!isCall(i)
      /\ AnswersFirst(resp, Popped)' <=> AnswersFirst(resp, Popped)
      /\ BatchAnswer'
  BY <1>1, BufferKept
<1>3. ASSUME B!CheckContext PROVE BatchInv'
  <2>1. /\ bwpc = "check" /\ bwpc' \in {"finish", "next"} /\ UNCHANGED answer
        /\ bwpc' = "finish" => cancelled \/ gone
    BY <1>3 DEF B!CheckContext
  <2>2. BatchType' BY <1>1, <1>2, <2>1, Zenon DEF BatchInv, BatchType
  <2>3. CallsInv' BY <1>2, <2>1 DEF CallsInv
  <2>4. RespInv' BY <1>1, <1>2, <2>1 DEF BatchInv, RespInv
  <2>5. WroteInv' BY <1>1, <2>1 DEF BatchInv, WroteInv
  <2> QED BY <1>2, <2>2, <2>3, <2>4, <2>5 DEF BatchInv
<1>4. ASSUME B!NextCall PROVE BatchInv'
  <2>1. /\ bwpc = "next" /\ bwpc' \in {"finish", "call"} /\ UNCHANGED answer
        /\ bwpc' = "finish" => calls = <<>>
        /\ bwpc' = "call" => calls # <<>>
    BY <1>4 DEF B!NextCall
  <2>2. BatchType' BY <1>1, <1>2, <2>1, Zenon DEF BatchInv, BatchType
  <2>3. CallsInv' BY <1>1, <1>2, <2>1 DEF CallsInv
  <2>4. RespInv' BY <1>1, <1>2, <2>1 DEF BatchInv, RespInv
  <2>5. WroteInv' BY <1>1, <2>1 DEF BatchInv, WroteInv
  <2> QED BY <1>2, <2>2, <2>3, <2>4, <2>5 DEF BatchInv
<1>5. ASSUME NEW size \in Sizes, B!Return(size) PROVE BatchInv'
  <2>0. size \in Nat BY BatchAssumption
  <2>1. /\ bwpc = "call" /\ bwpc' = "push" /\ calls # <<>>
        /\ answer' = IF B!isNotification(Head(calls)) THEN -1 ELSE size
    BY <1>5 DEF B!Return, BatchInv, CallsInv
  <2>2. calls \in Seq(Nat) /\ Len(calls) >= 1 /\ Head(calls) = Popped + 1
    BY <2>1 DEF BatchInv, BatchType, CallsInv
  <2>3. answer' \in Nat \cup {-1} /\ (answer' # -1 <=> B!isCall(Popped + 1))
    BY <2>0, <2>1, <2>2 DEF B!isCall
  <2>4. BatchType' BY <1>1, <1>2, <2>1, <2>3, Zenon DEF BatchInv, BatchType
  <2>5. CallsInv' BY <1>1, <1>2, <2>1, <2>3 DEF CallsInv
  <2>6. RespInv' BY <1>1, <1>2, <2>1 DEF BatchInv, RespInv
  <2>7. WroteInv' BY <1>1, <2>1 DEF BatchInv, WroteInv
  <2> QED BY <1>2, <2>4, <2>5, <2>6, <2>7 DEF BatchInv
<1> QED BY <1>3, <1>4, <1>5

\* pushResponse goes on with the next message, in order.
LEMMA PushInv == BatchInv /\ B!Push => BatchInv'
<1> SUFFICES ASSUME BatchInv, B!Push PROVE BatchInv' OBVIOUS
<1>1. /\ bwpc = "push" /\ bwpc' \in {"toolarge", "check"}
      /\ UNCHANGED <<batch, btpc, cancelled, gone, wrote, out, answer>>
      /\ calls' = Tail(calls)
      /\ answer # -1 => resp' = Append(resp, <<Head(calls), "result">>)
      /\ answer = -1 => resp' = resp
  BY DEF B!Push, B!pushResponse
<1>2. /\ calls \in Seq(Nat) /\ calls # <<>> /\ Len(calls) \in Nat /\ Len(calls) >= 1
      /\ batch \in Seq({"call", "notif"}) /\ Len(batch) \in Nat /\ Len(calls) <= Len(batch)
      /\ Head(calls) = Popped + 1 /\ Popped \in Nat
      /\ answer # -1 <=> B!isCall(Popped + 1)
  BY <1>1 DEF BatchInv, BatchType, CallsInv, Popped
<1>3. /\ calls' \in Seq(Nat) /\ Len(calls') = Len(calls) - 1
      /\ \A k \in 1..Len(calls') : calls'[k] = calls[k + 1]
  BY <1>1, <1>2
<1>4. Popped' = Popped + 1 BY <1>1, <1>2, <1>3 DEF Popped
<1>5. \A i : B!isCall(i)' <=> B!isCall(i) BY <1>1 DEF B!isCall, B!isNotification
<1>6. resp \in Seq(Nat \X {"result", "toolarge", "timeout"}) BY DEF BatchInv, BatchType
<1>7. resp' \in Seq(Nat \X {"result", "toolarge", "timeout"})
  <2>1. <<Head(calls), "result">> \in Nat \X {"result", "toolarge", "timeout"} BY <1>2
  <2>2. \A S : \A s \in Seq(S) : \A x \in S : Append(s, x) \in Seq(S) OBVIOUS
  <2>3. CASE answer # -1 BY <2>1, <2>2, <2>3, <1>1, <1>6, Zenon
  <2>4. CASE answer = -1 BY <2>4, <1>1, <1>6, Zenon
  <2> QED BY <2>3, <2>4, Zenon
<1>8. bytes' \in Nat
  <2>1. answer \in Nat \cup {-1} /\ bytes \in Nat BY DEF BatchInv, BatchType
  <2> QED BY <2>1 DEF B!Push
<1>9. BatchType' BY <1>1, <1>2, <1>3, <1>7, <1>8, Zenon DEF BatchInv, BatchType
<1>10. CallsInv'
  <2>1. \A k \in 1..Len(calls') : calls'[k] = Popped' + k
    BY <1>2, <1>3, <1>4 DEF BatchInv, CallsInv
  <2> QED BY <2>1, <1>1, <1>2, <1>3 DEF CallsInv
<1>11. ~wrote => AnswersFirst(resp, Popped)'
  <2> SUFFICES ASSUME ~wrote PROVE AnswersFirst(resp, Popped)' OBVIOUS
  <2>1. AnswersFirst(resp, Popped) BY <1>1 DEF BatchInv, RespInv
  <2>2. AnswersFirst(resp', Popped + 1)
    <3>1. CASE answer # -1 BY <3>1, <2>1, <1>1, <1>2, <1>6, PushAnswers, Zenon
    <3>2. CASE answer = -1 BY <3>2, <2>1, <1>1, <1>2, <1>6, PushAnswers, Zenon
    <3> QED BY <3>1, <3>2, Zenon
  <2> QED BY <2>2, <1>4, <1>5 DEF AnswersFirst
<1>12. RespInv' BY <1>1, <1>11 DEF RespInv
<1>13. WroteInv' BY <1>1 DEF BatchInv, WroteInv
<1>14. BatchAnswer' BY <1>1, AnswerKept DEF BatchInv
<1> QED BY <1>9, <1>10, <1>12, <1>13, <1>14 DEF BatchInv

\* respondWithError answers for the calls still open, unless somebody has written.
LEMMA RespondInv ==
  ASSUME BatchInv, NEW err \in {"toolarge", "timeout"}, NEW by \in {"limit", "timer"},
         bwpc # "start", ~wrote => bwpc # "done",
         UNCHANGED batch, B!respondWithError(err, by)
  PROVE  /\ UNCHANGED calls /\ wrote' = TRUE
         /\ resp' \in Seq(Nat \X {"result", "toolarge", "timeout"})
         /\ out' \in Seq(BatchMessage) /\ BatchAnswer'
<1>1. BatchType /\ CallsInv /\ BatchAnswer BY DEF BatchInv
<1>2. wrote \in BOOLEAN /\ out \in Seq(BatchMessage) /\ Len(batch) \in Nat
  BY <1>1 DEF BatchType
<1>3. ~wrote => out = <<>> /\ AnswersFirst(resp, Popped) BY DEF BatchInv, RespInv, WroteInv
<1>4. PICK open \in B!Ascending({i \in 1..Len(calls) : B!isCall(calls[i])}) :
        /\ resp' = resp \o [i \in 1..Len(open) |-> <<calls[open[i]], err>>]
        /\ B!doWrite(resp', by)
        /\ UNCHANGED calls
  BY Zenon DEF B!respondWithError
<1>5. /\ resp' \in Seq(Nat \X {"result", "toolarge", "timeout"})
      /\ AnswersFirst(resp, Popped) => AnswersFirst(resp', Len(batch))
  BY <1>1, <1>4, Completed, Zenon
<1>6. by \in {"limit", "timer", "worker", "cancelled_worker"} OBVIOUS
<1>7. wrote' = TRUE /\ out' \in Seq(BatchMessage) /\ BatchAnswer'
  <2>1. ~wrote => out = <<>> /\ AnswersFirst(resp', Len(batch)) BY <1>3, <1>5, Zenon
  <2> QED BY <2>1, <1>1, <1>2, <1>4, <1>5, <1>6, WriteAnswers, Zenon
<1> QED BY <1>4, <1>5, <1>7, Zenon

\* The size limit: respondWithError, then the worker finishes.
LEMMA TooLargeInv == BatchInv /\ B!TooLarge => BatchInv'
<1> SUFFICES ASSUME BatchInv, B!TooLarge PROVE BatchInv' OBVIOUS
<1>1. /\ bwpc = "toolarge" /\ bwpc' = "finish" /\ B!respondWithError("toolarge", "limit")
      /\ UNCHANGED <<batch, btpc, cancelled, gone, answer, bytes>>
  BY DEF B!TooLarge
<1>2. /\ UNCHANGED calls /\ wrote' = TRUE
      /\ resp' \in Seq(Nat \X {"result", "toolarge", "timeout"})
      /\ out' \in Seq(BatchMessage) /\ BatchAnswer'
  BY <1>1, RespondInv
<1>3. BatchType' BY <1>1, <1>2, Zenon DEF BatchInv, BatchType
<1>4. Popped' = Popped BY <1>1, <1>2 DEF Popped
<1>5. CallsInv' BY <1>1, <1>2, <1>4 DEF BatchInv, CallsInv
<1>6. RespInv' /\ WroteInv' BY <1>1, <1>2 DEF RespInv, WroteInv
<1> QED BY <1>2, <1>3, <1>5, <1>6 DEF BatchInv

\* The timer's function: respondWithError, whatever the worker is doing.
LEMMA TimeoutInv == BatchInv /\ B!RespondTimeout => BatchInv'
<1> SUFFICES ASSUME BatchInv, B!RespondTimeout PROVE BatchInv' OBVIOUS
<1>1. /\ btpc = "cancelled" /\ btpc' = "done" /\ B!respondWithError("timeout", "timer")
      /\ UNCHANGED <<batch, bwpc, cancelled, gone, answer, bytes>>
  BY DEF B!RespondTimeout
<1>2. bwpc # "start" /\ (~wrote => bwpc # "done") BY <1>1 DEF BatchInv, WroteInv
<1>3. /\ UNCHANGED calls /\ wrote' = TRUE
      /\ resp' \in Seq(Nat \X {"result", "toolarge", "timeout"})
      /\ out' \in Seq(BatchMessage) /\ BatchAnswer'
  BY <1>1, <1>2, RespondInv
<1>4. BatchType' BY <1>1, <1>3, Zenon DEF BatchInv, BatchType
<1>5. Popped' = Popped /\ \A i : B!isCall(i)' <=> B!isCall(i)
  BY <1>1, <1>3 DEF Popped, B!isCall, B!isNotification
<1>6. CallsInv' BY <1>1, <1>3, <1>5 DEF BatchInv, CallsInv
<1>7. RespInv' /\ WroteInv' BY <1>1, <1>2, <1>3 DEF RespInv, WroteInv
<1> QED BY <1>3, <1>4, <1>6, <1>7 DEF BatchInv

\* The timer's other steps, StopTimer and a client that goes away leave the buffer
\* alone.
LEMMA TimerInv ==
  BatchInv /\ (B!StopTimer \/ B!Fire \/ B!Cancel \/ B!Disconnect) => BatchInv'
<1> SUFFICES ASSUME BatchInv, B!StopTimer \/ B!Fire \/ B!Cancel \/ B!Disconnect PROVE BatchInv'
  OBVIOUS
<1>1. UNCHANGED <<batch, calls, resp, wrote, out, answer, bytes>>
  BY Zenon DEF B!StopTimer, B!Fire, B!Cancel, B!Disconnect, B!buffer
<1>2. /\ batch' \in Seq({"call", "notif"}) /\ wrote' \in BOOLEAN
      /\ calls' \in Seq(Nat) /\ resp' \in Seq(Nat \X {"result", "toolarge", "timeout"})
      /\ out' \in Seq(BatchMessage)
      /\ Popped' = Popped
      /\ Len(calls') <= Len(batch') /\ \A k \in 1..Len(calls') : calls'[k] = Popped' + k
      /\ \A i : B!isCall(i)' <=> B!isCall(i)
      /\ AnswersFirst(resp, Popped)' <=> AnswersFirst(resp, Popped)
      /\ BatchAnswer'
  BY <1>1, BufferKept
<1>3. /\ bwpc' \in {"start", "check", "next", "call", "push", "toolarge", "finish", "write", "done"}
      /\ btpc' \in {"off", "armed", "fired", "cancelled", "done", "stopped"}
      /\ btpc = "off" => btpc' = "off"
      /\ bwpc' = bwpc \/ (bwpc = "finish" /\ bwpc' = "write")
  BY DEF BatchInv, BatchType, B!StopTimer, B!Fire, B!Cancel, B!Disconnect
<1>4. cancelled' \in BOOLEAN /\ gone' \in BOOLEAN /\ (cancelled => cancelled') /\ (gone => gone')
  BY Zenon DEF BatchInv, BatchType, B!StopTimer, B!Fire, B!Cancel, B!Disconnect
<1>5. BatchType' BY <1>1, <1>2, <1>3, <1>4, Zenon DEF BatchInv, BatchType
<1>6. CallsInv' BY <1>1, <1>2, <1>3 DEF BatchInv, CallsInv
<1>7. RespInv'
  <2>1. ~wrote' /\ bwpc' # "done" => AnswersFirst(resp, IF bwpc = "start" THEN 0 ELSE Popped)'
    <3>1. CASE bwpc = "start"
      <4>1. bwpc' = "start" /\ ~wrote BY <3>1, <1>3 DEF BatchInv, WroteInv
      <4> QED BY <4>1, <1>1, <1>2, <3>1 DEF BatchInv, RespInv, AnswersFirst
    <3>2. CASE bwpc # "start" BY <3>2, <1>1, <1>2, <1>3 DEF BatchInv, RespInv
    <3> QED BY <3>1, <3>2
  <2>2. bwpc' \in {"finish", "write"} => cancelled' \/ gone' \/ wrote' \/ calls' = <<>>
    BY <1>1, <1>3, <1>4 DEF BatchInv, RespInv
  <2> QED BY <2>1, <2>2 DEF RespInv
<1>8. WroteInv' BY <1>1, <1>3 DEF BatchInv, WroteInv
<1> QED BY <1>2, <1>5, <1>6, <1>7, <1>8 DEF BatchInv

\* callBuffer.write: complete, unless the context was cancelled before the end.
LEMMA WriteInv == BatchInv /\ B!Write => BatchInv'
<1> SUFFICES ASSUME BatchInv, B!Write PROVE BatchInv' OBVIOUS
<1> DEFINE by == IF cancelled \/ gone THEN "cancelled_worker" ELSE "worker"
<1>1. /\ bwpc = "write" /\ bwpc' = "done" /\ B!doWrite(resp, by)
      /\ UNCHANGED <<batch, btpc, gone, calls, resp, answer, bytes>> /\ cancelled' = TRUE
  BY DEF B!Write
<1>2. by \in {"limit", "timer", "worker", "cancelled_worker"} OBVIOUS
<1>3. /\ wrote \in BOOLEAN /\ out \in Seq(BatchMessage) /\ Len(batch) \in Nat /\ Popped \in Nat
      /\ calls = <<>> => Popped = Len(batch)
  BY ShortSeqs DEF BatchInv, BatchType, CallsInv, Popped
<1>4. resp \in Seq(Nat \X {"result", "toolarge", "timeout"}) /\ BatchAnswer
  BY DEF BatchInv, BatchType
<1>5. ~wrote => out = <<>> /\ AnswersFirst(resp, Popped)
  BY <1>1 DEF BatchInv, RespInv, WroteInv
<1>6. by = "cancelled_worker" \/ wrote \/ Popped = Len(batch)
  BY <1>1, <1>3 DEF BatchInv, RespInv
<1> HIDE DEF by
<1>7. wrote' = TRUE /\ out' \in Seq(BatchMessage) /\ BatchAnswer'
  BY <1>1, <1>2, <1>3, <1>4, <1>5, <1>6, WriteAnswers, Zenon
<1>8. BatchType' BY <1>1, <1>4, <1>7, Zenon DEF BatchInv, BatchType
<1>9. Popped' = Popped BY <1>1 DEF Popped
<1>10. CallsInv' BY <1>1, <1>9 DEF BatchInv, CallsInv
<1>11. RespInv' /\ WroteInv' BY <1>1, <1>7 DEF RespInv, WroteInv
<1> QED BY <1>7, <1>8, <1>10, <1>11 DEF BatchInv

\* Every step of the worker, the timer and the client preserves it.
LEMMA BatchStep == BatchInv /\ [B!Next]_(B!vars) => BatchInv'
<1> SUFFICES ASSUME BatchInv, [B!Next]_(B!vars) PROVE BatchInv' OBVIOUS
<1>1. CASE B!Next
  BY <1>1, StartInv, LoopInv, PushInv, TooLargeInv, TimeoutInv, TimerInv, WriteInv
     DEF B!Next, B!Worker, B!Timer
<1>2. CASE UNCHANGED B!vars
  <2>1. UNCHANGED <<batch, bwpc, btpc, cancelled, gone, calls, resp, wrote, answer, bytes, out>>
    BY <1>2 DEF B!vars
  <2> QED
    BY <2>1 DEF BatchInv, BatchType, CallsInv, RespInv, WroteInv, BatchAnswer, Popped,
       AnswersFirst, B!WriteOnce, B!InOrder, B!CompleteAnswer, B!Answered, B!Calls, B!Positions,
       B!isCall, B!isNotification
<1> QED BY <1>1, <1>2
-----------------------------------------------------------------------------
(* The handler *)

\* A step of the handler is a step of its messages and a step of its batch, one of
\* them stuttering.
LEMMA Halves == HandlerNext => [Next]_vars /\ [B!Next]_(B!vars)
BY DEF HandlerNext, HandleMessage, HandleBatch, HandlerClosed, Message, BatchWorker, BatchTimer,
       Next, vars, bvars, B!Next, B!Worker, B!Timer, B!vars

\* Seen on its own, each half of the handler behaves like its module.
THEOREM Composed == HandlerSpec => Spec /\ B!Spec
<1>1. HandlerInit => Init /\ B!Init BY DEF HandlerInit
<1>2. [HandlerNext]_<<vars, bvars>> => [Next]_vars /\ [B!Next]_(B!vars)
  BY Halves DEF bvars, B!vars
<1> QED BY <1>1, <1>2, PTL DEF HandlerSpec, Spec, B!Spec

\* Messages and batch keep their types.
THEOREM TypeCorrect == HandlerSpec => [](TypeOK /\ BatchType)
<1>1. Spec => []MsgInv BY MsgInvariance
<1>2. B!Spec => []BatchInv BY BatchInit, BatchStep, PTL DEF B!Spec
<1>3. MsgInv /\ BatchInv => TypeOK /\ BatchType BY DEF MsgInv, BatchInv
<1> QED BY <1>1, <1>2, <1>3, Composed, PTL

\* handler.go:287 ff.: the goroutine and the timer of a message together write at
\* most one response, whatever else the connection serves.
THEOREM AtMostOneResponse == HandlerSpec => []OneResponse
<1>1. MsgInv => OneResponse BY DEF MsgInv
<1> QED BY <1>1, MsgInvariance, Composed, PTL

\* Once close has returned, no response to a call is written any more.
THEOREM NoLateResponse == HandlerSpec => []QuietAfterClose
<1>1. MsgInv => QuietAfterClose BY DEF MsgInv, CloseInv, OnceInv, QuietAfterClose, Pending, TypeOK
<1> QED BY <1>1, MsgInvariance, Composed, PTL

\* handler.go:160: one message answers a batch, in the order of the calls, with a
\* response for every call and none for a notification, unless its context was
\* cancelled before the worker was done.
THEOREM BatchAnswered == HandlerSpec => []BatchAnswer
<1>1. B!Spec => []BatchInv BY BatchInit, BatchStep, PTL DEF B!Spec
<1>2. BatchInv => BatchAnswer BY DEF BatchInv
<1> QED BY <1>1, <1>2, Composed, PTL

\* close waits for the goroutine of a batch and lets no other start.
LEMMA ClosedStep == ClosedInv /\ [HandlerNext]_<<vars, bvars>> => ClosedInv'
BY DEF ClosedInv, HandlerNext, HandleMessage, HandleBatch, HandlerClosed, Message, BatchWorker,
       BatchTimer, HandleMsg, Return, Worker, Timer, StopTimer, WorkerDo, WorkerWrite, Fire,
       TimerDo, TimerWrite, Close, Closed, vars, bvars, B!Timer, B!CheckContext, B!NextCall,
       B!Push, B!TooLarge, B!StopTimer, B!Write, B!Fire, B!Cancel, B!RespondTimeout, B!Return,
       B!Disconnect

\* Once close has returned nothing is written for the batch: its worker is done or
\* never started, and a timer that is late finds that it was written.
THEOREM BatchSilent == HandlerSpec => BatchQuiet
<1>1. B!Spec => []BatchInv BY BatchInit, BatchStep, PTL DEF B!Spec
<1>2. HandlerInit => ClosedInv BY DEF HandlerInit, Init, ClosedInv
<1>3. HandlerSpec => []ClosedInv BY <1>2, ClosedStep, PTL DEF HandlerSpec
<1>4. BatchInv /\ ClosedInv /\ [HandlerNext]_<<vars, bvars>>
        => [closed = "yes" => UNCHANGED out]_<<vars, bvars>>
  <2> SUFFICES ASSUME BatchInv, ClosedInv, HandlerNext, closed = "yes" PROVE UNCHANGED out
    OBVIOUS
  <2>1. bwpc \in {"start", "done"} BY DEF ClosedInv
  <2>2. CASE UNCHANGED bvars BY <2>2 DEF bvars
  <2>3. CASE B!RespondTimeout
    <3>1. btpc = "cancelled" BY <2>3 DEF B!RespondTimeout
    <3>2. wrote = TRUE BY <2>1, <3>1 DEF BatchInv, BatchType, WroteInv
    <3> QED BY <2>3, <3>2, Zenon DEF B!RespondTimeout, B!respondWithError, B!doWrite
  <2>4. CASE B!Fire \/ B!Cancel \/ B!Disconnect \/ \E size \in Sizes : B!Return(size)
    BY <2>4, Zenon DEF B!Fire, B!Cancel, B!Disconnect, B!Return, B!buffer
  <2>5. CASE HandleBatch \/ BatchWorker
    BY <2>1, <2>5 DEF HandleBatch, BatchWorker, B!CheckContext, B!NextCall, B!Push, B!TooLarge,
                      B!StopTimer, B!Write
  <2> QED
    BY <2>2, <2>3, <2>4, <2>5 DEF HandlerNext, HandleMessage, HandlerClosed, Message, BatchTimer,
       B!Timer
<1> QED BY <1>1, <1>3, <1>4, Composed, PTL DEF HandlerSpec, BatchQuiet
=============================================================================
