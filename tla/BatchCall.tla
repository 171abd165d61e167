----------------------------- MODULE BatchCall -----------------------------
(***************************************************************************)
(* One batch request inside the RPC server: handleBatch of rpc/handler.go  *)
(* with its batchCallBuffer.  Two goroutines work on the buffer: the worker*)
(* that runs the calls one after the other, and the timer's function that  *)
(* answers for the calls still open when the request times out.            *)
(*                                                                         *)
(* A message is its position in the batch; whether it is a notification    *)
(* (no answer), and how large the result of a call is, is all that matters *)
(* of it.  The buffer's methods hold b.mutex throughout and are one step   *)
(* each; the request context is read and cancelled without the mutex.      *)
(***************************************************************************)
EXTENDS Integers, Sequences, FiniteSets

CONSTANTS
  Batches,        \* the batches that may arrive: sequences of "call" / "notif"
  Sizes,          \* the sizes a result may have
  RequestLimit,   \* batchRequestLimit, 0 for none
  MaxSize,        \* batchResponseMaxSize, 0 for none
  HasTimeout      \* whether ContextRequestTimeout yields a timeout

VARIABLES
  batch,       \* the batch that arrived
  wpc,         \* the worker
  tpc,         \* the timer: "off", "armed", "fired", "cancelled", "done", "stopped"
  cancelled,   \* cp.ctx is cancelled
  gone,        \* the client went away (its context is the parent of cp.ctx)
  calls,       \* callBuffer.calls: positions not yet popped
  resp,        \* callBuffer.resp: <<position, kind>>
  wrote,       \* callBuffer.wrote
  answer,      \* the worker's answer to the call in progress: a size, or -1 for nil
  bytes,       \* responseBytes
  out          \* what was written to the connection

vars == <<batch, wpc, tpc, cancelled, gone, calls, resp, wrote, answer, bytes, out>>

buffer == <<calls, resp, wrote, out>>

Init ==
  /\ batch \in Batches
  /\ wpc = "start" /\ tpc = "off"
  /\ cancelled = FALSE /\ gone = FALSE
  /\ calls = <<>> /\ resp = <<>> /\ wrote = FALSE
  /\ answer = -1 /\ bytes = 0
  /\ out = <<>>

isNotification(i) == batch[i] = "notif"
isCall(i) == ~isNotification(i)

Positions == 1..Len(batch)
Calls == {i \in Positions : isCall(i)}
-----------------------------------------------------------------------------
(* batchCallBuffer *)

pushResponse ==
  /\ resp' = IF answer # -1 THEN Append(resp, <<Head(calls), "result">>) ELSE resp
  /\ calls' = Tail(calls)

\* Mutant: nothing remembers that the responses were sent.
doWrite_Again(r, by) ==
  /\ out' = IF r # <<>> THEN Append(out, [resp |-> r, by |-> by]) ELSE out
  /\ wrote' = TRUE

doWrite(r, by) ==
  IF wrote THEN UNCHANGED <<wrote, out>>
  ELSE /\ wrote' = TRUE
       /\ out' = IF r # <<>> THEN Append(out, [resp |-> r, by |-> by]) ELSE out

\* Mutant: the remaining calls are forgotten.
respondWithError_SoFar(kind, by) == doWrite(resp, by) /\ UNCHANGED <<calls, resp>>

\* The increasing enumeration of a set of indices of calls.
Ascending(K) ==
  {f \in UNION {[1..n -> K] : n \in 0..Len(calls)} :
     /\ {f[i] : i \in DOMAIN f} = K
     /\ \A i, j \in DOMAIN f : i < j => f[i] < f[j]}

\* The calls still open, in the order in which they are in the buffer, are
\* answered with an error.
respondWithError(kind, by) ==
  \E open \in Ascending({i \in 1..Len(calls) : isCall(calls[i])}) :
    /\ resp' = resp \o [i \in 1..Len(open) |-> <<calls[open[i]], kind>>]
    /\ doWrite(resp', by)
    /\ UNCHANGED calls
-----------------------------------------------------------------------------
(* The worker *)

\* handleBatch.  An empty batch and one beyond the limit get a single error
\* response; the id of the latter is that of the first call, if there is one
\* (position 0 stands for a response without id).
Start ==
  /\ wpc = "start"
  /\ IF batch = <<>> \/ (RequestLimit # 0 /\ Len(batch) > RequestLimit)
     THEN /\ out' = Append(out,
               [resp |-> <<<<IF Calls = {} THEN 0
                             ELSE CHOOSE i \in Calls : \A j \in Calls : i <= j,
                             "invalid">>>>,
                by |-> "limit"])
          /\ wpc' = "done"
          /\ UNCHANGED <<tpc, calls>>
     ELSE /\ calls' = [i \in Positions |-> i]
          /\ tpc' = IF HasTimeout THEN "armed" ELSE "off"
          /\ wpc' = "check"
          /\ UNCHANGED out
  /\ UNCHANGED <<batch, cancelled, gone, resp, wrote, answer, bytes>>

\* The head of the loop: cp.ctx.Err() ...
CheckContext ==
  /\ wpc = "check"
  /\ wpc' = IF cancelled \/ gone THEN "finish" ELSE "next"
  /\ UNCHANGED <<batch, tpc, cancelled, gone, buffer, answer, bytes>>

\* ... and nextCall.  The call in progress stays in calls, so that a timeout
\* can answer it.
NextCall ==
  /\ wpc = "next"
  /\ wpc' = IF calls = <<>> THEN "finish" ELSE "call"
  /\ UNCHANGED <<batch, tpc, cancelled, gone, buffer, answer, bytes>>

\* handleCallMsg returns, at any time, possibly after a timeout.
Return(size) ==
  /\ wpc = "call"
  /\ answer' = IF isNotification(Head(calls)) THEN -1 ELSE size
  /\ wpc' = "push"
  /\ UNCHANGED <<batch, tpc, cancelled, gone, buffer, bytes>>

Push ==
  /\ wpc = "push"
  /\ pushResponse
  /\ bytes' = IF answer # -1 /\ MaxSize # 0 THEN bytes + answer ELSE bytes
  /\ wpc' = IF bytes' > MaxSize /\ MaxSize # 0 /\ answer # -1 THEN "toolarge" ELSE "check"
  /\ UNCHANGED <<batch, tpc, cancelled, gone, wrote, out, answer>>

TooLarge ==
  /\ wpc = "toolarge"
  /\ respondWithError("toolarge", "limit")
  /\ wpc' = "finish"
  /\ UNCHANGED <<batch, tpc, cancelled, gone, answer, bytes>>

\* timer.Stop() has no effect on a timer that has fired.
StopTimer ==
  /\ wpc = "finish"
  /\ tpc' = IF tpc = "armed" THEN "stopped" ELSE tpc
  /\ wpc' = "write"
  /\ UNCHANGED <<batch, cancelled, gone, buffer, answer, bytes>>

\* callBuffer.write, then the deferred cancel.
Write ==
  /\ wpc = "write"
  /\ doWrite(resp, IF cancelled \/ gone THEN "cancelled_worker" ELSE "worker")
  /\ wpc' = "done"
  /\ cancelled' = TRUE
  /\ UNCHANGED <<batch, tpc, gone, calls, resp, answer, bytes>>
-----------------------------------------------------------------------------
(* The timer's function: cancel(), then respondWithError *)

Fire ==
  /\ tpc = "armed"
  /\ tpc' = "fired"
  /\ UNCHANGED <<batch, wpc, cancelled, gone, buffer, answer, bytes>>

Cancel ==
  /\ tpc = "fired"
  /\ cancelled' = TRUE
  /\ tpc' = "cancelled"
  /\ UNCHANGED <<batch, wpc, gone, buffer, answer, bytes>>

RespondTimeout ==
  /\ tpc = "cancelled"
  /\ respondWithError("timeout", "timer")
  /\ tpc' = "done"
  /\ UNCHANGED <<batch, wpc, cancelled, gone, answer, bytes>>

\* The connection's context is cancelled: the client went away.
Disconnect ==
  /\ ~gone
  /\ gone' = TRUE
  /\ UNCHANGED <<batch, wpc, tpc, cancelled, buffer, answer, bytes>>
-----------------------------------------------------------------------------
Worker ==
  \/ Start \/ CheckContext \/ NextCall \/ Push \/ TooLarge \/ StopTimer \/ Write

Timer == Fire \/ Cancel \/ RespondTimeout

Next == Worker \/ Timer \/ Disconnect \/ \E size \in Sizes : Return(size)

Spec == Init /\ [][Next]_vars

(***************************************************************************)
(* The goroutines are scheduled and the timer fires, but nothing is        *)
(* assumed of the methods that are called: Return is not fair.             *)
(***************************************************************************)
FairSpec == Spec /\ WF_vars(Worker) /\ WF_vars(Timer)
-----------------------------------------------------------------------------
\* handler.go:160 "can only write once": worker and timer together send one
\* message for a batch.
WriteOnce == Len(out) <= 1

Answered(o) == {o.resp[i][1] : i \in 1..Len(o.resp)}

\* The responses come in the order of the calls, none twice, none for a
\* notification, although a timeout may answer a call that is still running and
\* returns later.
InOrder ==
  \A n \in 1..Len(out) :
    LET r == out[n].resp IN
    /\ \A i, j \in 1..Len(r) : i < j => r[i][1] < r[j][1]
    /\ \A i \in 1..Len(r) : r[i][1] # 0 => isCall(r[i][1])

\* Unless the worker writes after cp.ctx was cancelled, every call is answered;
\* the size limit and the timer answer for all calls still open.
CompleteAnswer ==
  \A n \in 1..Len(out) :
    LET o == out[n] IN
    o.by # "cancelled_worker" /\ o.resp[1][2] # "invalid" => Answered(o) = Calls

\* With a timeout configured, a batch is closed even if a method never returns
\* (and the client does not go away, in which case the timer may be stopped).
EventuallyClosed == HasTimeout /\ wpc = "check" ~> wrote \/ wpc = "done" \/ gone

\* handler.go:140, 205: after a timeout the remaining unanswered calls get an
\* error response.  (Violated: the worker sees the cancelled context and writes
\* what it has, possibly nothing, before the timer's function gets to
\* respondWithError.)
TimeoutAnswersAll ==
  ~gone /\ wrote /\ Calls # {} => \E n \in 1..Len(out) : Answered(out[n]) = Calls
=============================================================================
