----------------------------- MODULE SingleCall -----------------------------
(***************************************************************************)
(* The messages of one connection that are not in a batch: handleMsg,      *)
(* handleNonBatchCall and close of rpc/handler.go.  For each message the   *)
(* goroutine that runs the method and the timer's function both may        *)
(* respond; a sync.Once lets the first one do it, and makes the other wait *)
(* until that one has written.  close waits for the goroutines (callWG),   *)
(* not for the timers; afterwards the connection's writer must not be      *)
(* used any more (for HTTP, ServeHTTP has returned).                       *)
(***************************************************************************)
EXTENDS Naturals, Sequences

CONSTANTS
  Msgs,        \* the messages that arrive
  HasTimeout   \* whether ContextRequestTimeout yields a timeout

ASSUME HasTimeoutAssumption == HasTimeout \in BOOLEAN

VARIABLES
  kind,        \* "call", "notif" (no id) or "invalid" (an error is answered)
  wpc,         \* message -> its goroutine
  tpc,         \* message -> its timer
  once,        \* message -> responded: "new", "running" or "done"
  conn,        \* what was written: <<message, "answer" or "timeout">>
  closed       \* handler.close: "no", "waiting" (callWG.Wait) or "yes"

vars == <<kind, wpc, tpc, once, conn, closed>>

Init ==
  /\ kind \in [Msgs -> {"call", "notif", "invalid"}]
  /\ wpc = [m \in Msgs |-> "none"]
  /\ tpc = [m \in Msgs |-> "off"]
  /\ once = [m \in Msgs |-> "new"]
  /\ conn = <<>>
  /\ closed = "no"

\* handleMsg: startCallProc adds to callWG and starts the goroutine.
HandleMsg(m) ==
  /\ closed = "no" /\ wpc[m] = "none"
  /\ wpc' = [wpc EXCEPT ![m] = "run"]
  /\ tpc' = [tpc EXCEPT ![m] = IF HasTimeout THEN "armed" ELSE "off"]
  /\ UNCHANGED <<kind, once, conn, closed>>

\* handleCallMsg returns: nil for a notification.
Return(m) ==
  /\ wpc[m] = "run"
  /\ wpc' = [wpc EXCEPT ![m] = "stop"]
  /\ UNCHANGED <<kind, tpc, once, conn, closed>>

StopTimer(m) ==
  /\ wpc[m] = "stop"
  /\ tpc' = [tpc EXCEPT ![m] = IF @ = "armed" THEN "stopped" ELSE @]
  /\ wpc' = [wpc EXCEPT ![m] = IF kind[m] = "notif" THEN "done" ELSE "do"]
  /\ UNCHANGED <<kind, once, conn, closed>>

\* Mutant: a flag instead of the Once: the loser does not wait.
Loses_NoWait(m) == once[m] # "new"

\* responded.Do returns without running its function.
Loses(m) == once[m] = "done"

\* Mutant: both run the function.
Wins_Always(m) == TRUE

Wins(m) == once[m] = "new"

WorkerDo(m) ==
  /\ wpc[m] = "do"
  /\ \/ Wins(m)  /\ wpc' = [wpc EXCEPT ![m] = "write"] /\ once' = [once EXCEPT ![m] = "running"]
     \/ Loses(m) /\ wpc' = [wpc EXCEPT ![m] = "done"]  /\ UNCHANGED once
  /\ UNCHANGED <<kind, tpc, conn, closed>>

\* writeJSON, the end of the Once's function, and callWG.Done.
WorkerWrite(m) ==
  /\ wpc[m] = "write"
  /\ conn' = Append(conn, <<m, "answer">>)
  /\ once' = [once EXCEPT ![m] = "done"]
  /\ wpc' = [wpc EXCEPT ![m] = "done"]
  /\ UNCHANGED <<kind, tpc, closed>>

\* The timer fires: cancel() asks the method to return (it need not).
Fire(m) ==
  /\ tpc[m] = "armed"
  /\ tpc' = [tpc EXCEPT ![m] = "do"]
  /\ UNCHANGED <<kind, wpc, once, conn, closed>>

\* Mutant: the timer only cancels the context.
TimerDo_CancelOnly(m) ==
  /\ tpc[m] = "do"
  /\ tpc' = [tpc EXCEPT ![m] = "done"]
  /\ UNCHANGED <<kind, wpc, once, conn, closed>>

TimerDo(m) ==
  /\ tpc[m] = "do"
  /\ \/ Wins(m)  /\ tpc' = [tpc EXCEPT ![m] = "write"] /\ once' = [once EXCEPT ![m] = "running"]
     \/ Loses(m) /\ tpc' = [tpc EXCEPT ![m] = "done"]  /\ UNCHANGED once
  /\ UNCHANGED <<kind, wpc, conn, closed>>

TimerWrite(m) ==
  /\ tpc[m] = "write"
  /\ conn' = Append(conn, <<m, "timeout">>)
  /\ once' = [once EXCEPT ![m] = "done"]
  /\ tpc' = [tpc EXCEPT ![m] = "done"]
  /\ UNCHANGED <<kind, wpc, closed>>

\* handler.close: no more messages are handled, callWG.Wait ...
Close ==
  /\ closed = "no"
  /\ closed' = "waiting"
  /\ UNCHANGED <<kind, wpc, tpc, once, conn>>

\* ... returns when every goroutine that was started is done.
Closed ==
  /\ closed = "waiting"
  /\ \A m \in Msgs : wpc[m] \in {"none", "done"}
  /\ closed' = "yes"
  /\ UNCHANGED <<kind, wpc, tpc, once, conn>>

Worker(m) == StopTimer(m) \/ WorkerDo(m) \/ WorkerWrite(m)
Timer(m)  == Fire(m) \/ TimerDo(m) \/ TimerWrite(m)

Next ==
  \/ \E m \in Msgs : HandleMsg(m) \/ Return(m) \/ Worker(m) \/ Timer(m)
  \/ Close
  \/ Closed

Spec == Init /\ [][Next]_vars

(***************************************************************************)
(* Goroutines are scheduled and timers fire, but nothing is assumed of the *)
(* methods that are called: Return is not fair.                            *)
(***************************************************************************)
FairSpec == Spec /\ \A m \in Msgs : WF_vars(Worker(m)) /\ WF_vars(Timer(m))
-----------------------------------------------------------------------------
\* Type invariant of the goroutines, the timers and the connection.
TypeOK ==
  /\ kind \in [Msgs -> {"call", "notif", "invalid"}]
  /\ wpc \in [Msgs -> {"none", "run", "stop", "do", "write", "done"}]
  /\ tpc \in [Msgs -> {"off", "armed", "stopped", "do", "write", "done"}]
  /\ once \in [Msgs -> {"new", "running", "done"}]
  /\ conn \in Seq(Msgs \X {"answer", "timeout"})
  /\ closed \in {"no", "waiting", "yes"}

\* The goroutine and the timer together write at most one response to a message.
OneResponse ==
  \A i, j \in 1..Len(conn) : conn[i][1] = conn[j][1] => i = j

\* Is a response to m about to be written?
Pending(m) == wpc[m] = "write" \/ tpc[m] = "write"

\* Once close has returned, no response to a call will be written any more,
\* although close does not wait for the timers.
QuietAfterClose ==
  closed = "yes" => \A m \in Msgs : kind[m] # "notif" => ~Pending(m) /\ once[m] # "running"

\* With a timeout, every call that was accepted is answered, even if its method
\* never returns.
CallAnswered ==
  \A m \in Msgs :
    HasTimeout /\ wpc[m] = "run" /\ kind[m] # "notif"
      ~> \E i \in 1..Len(conn) : conn[i][1] = m
=============================================================================
