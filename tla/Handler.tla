------------------------------ MODULE Handler ------------------------------
(***************************************************************************)
(* The handler of one connection with what may arrive on it: messages on   *)
(* their own (SingleCall) and a batch (BatchCall).  Both kinds run on      *)
(* goroutines that close waits for, and both have a timer that close does  *)
(* not wait for and that writes to the connection.                         *)
(*                                                                         *)
(* Only an HTTP request has a timeout, and serveSingleRequest reads one    *)
(* message or one batch and closes the handler; a WebSocket serves many.   *)
(***************************************************************************)
EXTENDS SingleCall

CONSTANTS
  Batches, Sizes, RequestLimit, MaxSize    \* see BatchCall

ASSUME LimitAssumption == RequestLimit \in Nat /\ MaxSize \in Nat

ASSUME BatchAssumption == Batches \subseteq Seq({"call", "notif"}) /\ Sizes \subseteq Nat

VARIABLES
  batch, bwpc, btpc, cancelled, gone, calls, resp, wrote, answer, bytes, out

B == INSTANCE BatchCall WITH wpc <- bwpc, tpc <- btpc

bvars == <<batch, bwpc, btpc, cancelled, gone, calls, resp, wrote, answer, bytes, out>>

HandlerInit == Init /\ B!Init

\* Nothing has arrived yet, or the connection serves more than one request.
MayArrive == HasTimeout => bwpc = "start" /\ \A m \in Msgs : wpc[m] = "none"

HandleMessage(m) == MayArrive /\ HandleMsg(m) /\ UNCHANGED bvars

HandleBatch == closed = "no" /\ MayArrive /\ B!Start /\ UNCHANGED vars

\* callWG.Wait also waits for the goroutine of the batch.
HandlerClosed == bwpc \in {"start", "done"} /\ Closed /\ UNCHANGED bvars

Message(m) == (Worker(m) \/ Timer(m)) /\ UNCHANGED bvars

BatchWorker ==
  /\ \/ B!CheckContext \/ B!NextCall \/ B!Push \/ B!TooLarge \/ B!StopTimer \/ B!Write
  /\ UNCHANGED vars

BatchTimer == B!Timer /\ UNCHANGED vars

HandlerNext ==
  \/ \E m \in Msgs :
       HandleMessage(m) \/ Message(m) \/ (Return(m) /\ UNCHANGED bvars)
  \/ HandleBatch
  \/ BatchWorker
  \/ BatchTimer
  \/ (\E size \in Sizes : B!Return(size)) /\ UNCHANGED vars
  \/ B!Disconnect /\ UNCHANGED vars
  \/ Close /\ UNCHANGED bvars
  \/ HandlerClosed

HandlerSpec == HandlerInit /\ [][HandlerNext]_<<vars, bvars>>

(***************************************************************************)
(* Goroutines are scheduled and timers fire; no method need return.        *)
(***************************************************************************)
HandlerFairSpec ==
  /\ HandlerSpec
  /\ \A m \in Msgs : WF_<<vars, bvars>>(Worker(m) /\ UNCHANGED bvars)
                     /\ WF_<<vars, bvars>>(Timer(m) /\ UNCHANGED bvars)
  /\ WF_<<vars, bvars>>(BatchWorker)
  /\ WF_<<vars, bvars>>(BatchTimer)
-----------------------------------------------------------------------------
\* handler.go:160: worker and timer together send one message for a batch; its
\* responses are in the order of the calls, for every call of the batch and for
\* no notification, although a timeout may answer a call that returns later.
\* Only a worker that stops because its context was cancelled may leave calls out.
BatchAnswer == B!WriteOnce /\ B!InOrder /\ B!CompleteAnswer

\* Once close has returned nothing is written for the batch, although close does
\* not wait for the timer's function.
BatchQuiet == [][closed = "yes" => UNCHANGED out]_<<vars, bvars>>

\* With a timeout, an accepted call is answered even if its method never
\* returns, and a batch is closed unless the client goes away first.
TimeoutAnswers == CallAnswered /\ B!EventuallyClosed
=============================================================================
