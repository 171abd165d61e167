----------------------------- MODULE ServerSub ------------------------------
(***************************************************************************)
(* A subscription on the side of the server (Notifier, Subscription of     *)
(* rpc/subscription.go and the serverSubs of rpc/handler.go): the goroutine*)
(* that serves the subscribe call, the goroutine of the service that       *)
(* publishes notifications, unsubscribe calls, and handler.close.          *)
(*                                                                         *)
(* Notifications are numbered in the order of the calls of Notify.  Nothing*)
(* is written to a connection that is down, or whose writes fail.  A       *)
(* subscribe call has no timeout: ContextRequestTimeout yields one for HTTP*)
(* only, where allowSubscribe is FALSE.                                    *)
(***************************************************************************)
EXTENDS Integers, Sequences

CONSTANT
  MaxNotifs   \* bound: the number of calls of Notify

VARIABLES
  up,         \* the connection is open
  broken,     \* writes on it fail, and the connection is not closed for it
  call,       \* the goroutine of the subscribe call
  created,    \* n.sub # nil
  failed,     \* the service returned an error
  published,  \* the number of calls of Notify
  buffer,     \* n.buffer
  flushed,    \* how many of them activate has sent
  activated,  \* n.activated
  inSubs,     \* the subscription is in h.serverSubs
  errChan,    \* Subscription.err: "open" or "closed"
  unsub,      \* the goroutine of an unsubscribe call: "no", "run" or "respond"
  closing,    \* handler.close: "no", "wait" (callWG) or "done"
  conn,       \* what was written: IdMsg, ErrMsg, UnsubMsg or a notification's number
  panicked    \* the error channel was closed twice

vars == <<up, broken, call, created, failed, published, buffer, flushed, activated, inSubs,
          errChan, unsub, closing, conn, panicked>>

Init ==
  /\ up = TRUE /\ broken = FALSE /\ call = "run" /\ created = FALSE /\ failed = FALSE
  /\ published = 0 /\ buffer = <<>> /\ flushed = 0 /\ activated = FALSE
  /\ inSubs = FALSE /\ errChan = "open" /\ unsub = "no" /\ closing = "no" /\ conn = <<>>
  /\ panicked = FALSE

IdMsg    == 0
ErrMsg   == -1
UnsubMsg == -2

Writable == up /\ ~broken

\* writeJSON
Writes(what) == conn' = IF Writable THEN Append(conn, what) ELSE conn
-----------------------------------------------------------------------------
(* The goroutine of the subscribe call: handleSubscribe, then the end of   *)
(* handleNonBatchCall.                                                     *)

\* The service calls CreateSubscription (and starts its publisher).
CreateSubscription ==
  /\ call = "run" /\ ~created
  /\ created' = TRUE
  /\ UNCHANGED <<up, broken, call, failed, published, buffer, flushed, activated, inSubs, errChan,
                 unsub, closing, conn, panicked>>

\* The service returns, possibly an error after it has created the subscription.
CallReturns ==
  /\ call = "run"
  /\ call' = "add"
  /\ \/ created /\ failed' = FALSE
     \/ failed' = TRUE
  /\ UNCHANGED <<up, broken, created, published, buffer, flushed, activated, inSubs, errChan,
                 unsub, closing, conn, panicked>>

\* addSubscriptions, takeSubscription
AddSubscriptions ==
  /\ call = "add"
  /\ call' = "respond"
  /\ inSubs' = created
  /\ UNCHANGED <<up, broken, created, failed, published, buffer, flushed, activated, errChan,
                 unsub, closing, conn, panicked>>

Respond ==
  /\ call = "respond"
  /\ call' = "activate"
  /\ Writes(IF failed THEN ErrMsg ELSE IdMsg)
  /\ UNCHANGED <<up, broken, created, failed, published, buffer, flushed, activated, inSubs, errChan,
                 unsub, closing, panicked>>

\* activate takes n.mu and sends the buffer; a failed send ends it at once.
ActivateSends ==
  /\ call \in {"activate", "flush"} /\ flushed < Len(buffer)
  /\ Writes(buffer[flushed + 1])
  /\ flushed' = IF Writable THEN flushed + 1 ELSE flushed
  /\ call' = IF Writable THEN "flush" ELSE "done"
  /\ UNCHANGED <<up, broken, created, failed, published, buffer, activated, inSubs, errChan,
                 unsub, closing, panicked>>

\* Mutant: the last one of the buffer is not sent.
ActivateEnds_OneShort ==
  /\ call \in {"activate", "flush"} /\ flushed + 1 >= Len(buffer)
  /\ activated' = TRUE /\ call' = "done"
  /\ UNCHANGED <<up, broken, created, failed, published, buffer, flushed, inSubs, errChan,
                 unsub, closing, conn, panicked>>

ActivateEnds ==
  /\ call \in {"activate", "flush"} /\ flushed = Len(buffer)
  /\ activated' = TRUE /\ call' = "done"
  /\ UNCHANGED <<up, broken, created, failed, published, buffer, flushed, inSubs, errChan,
                 unsub, closing, conn, panicked>>
-----------------------------------------------------------------------------
(* The publisher *)

\* n.mu is held by activate.
Locked == call = "flush"

\* Mutant: a notification is sent whether or not the subscription is active.
Buffers_Never == FALSE

Buffers == ~activated

Notify ==
  /\ created /\ published < MaxNotifs /\ ~Locked
  /\ published' = published + 1
  /\ IF Buffers
     THEN buffer' = Append(buffer, published + 1) /\ UNCHANGED conn
     ELSE Writes(published + 1) /\ UNCHANGED buffer
  /\ UNCHANGED <<up, broken, call, created, failed, flushed, activated, inSubs, errChan,
                 unsub, closing, panicked>>
-----------------------------------------------------------------------------
(* unsubscribe calls, and the end of the connection *)

CloseErr ==
  /\ errChan' = "closed"
  /\ panicked' = (panicked \/ errChan = "closed")

\* Mutant: the subscription stays in serverSubs.
Forget_Not == UNCHANGED inSubs

Forget == inSubs' = FALSE

\* An unsubscribe call is accepted while the handler is open.
AcceptUnsubscribe ==
  /\ closing = "no" /\ unsub = "no" /\ unsub' = "run"
  /\ UNCHANGED <<up, broken, call, created, failed, published, buffer, flushed, activated, inSubs,
                 errChan, closing, conn, panicked>>

\* Without an entry in serverSubs the answer is ErrSubscriptionNotFound.
Unsubscribe ==
  /\ unsub = "run" /\ unsub' = "respond"
  /\ IF inSubs THEN CloseErr /\ Forget ELSE UNCHANGED <<errChan, panicked, inSubs>>
  /\ UNCHANGED <<up, broken, call, created, failed, published, buffer, flushed, activated, closing, conn>>

UnsubscribeResponds ==
  /\ unsub = "respond" /\ unsub' = "no"
  /\ Writes(UnsubMsg)
  /\ UNCHANGED <<up, broken, call, created, failed, published, buffer, flushed, activated, inSubs,
                 errChan, closing, panicked>>

Break ==
  /\ up /\ up' = FALSE
  /\ UNCHANGED <<broken, call, created, failed, published, buffer, flushed, activated, inSubs, errChan,
                 unsub, closing, conn, panicked>>

\* A write fails, and so do all that follow: the codec keeps the error.
WriteBreaks ==
  /\ Writable /\ broken' = TRUE
  /\ UNCHANGED <<up, call, created, failed, published, buffer, flushed, activated, inSubs, errChan,
                 unsub, closing, conn, panicked>>

\* handler.close: no more calls are accepted ...
Close ==
  /\ closing = "no" /\ closing' = "wait"
  /\ UNCHANGED <<up, broken, call, created, failed, published, buffer, flushed, activated, inSubs, errChan,
                 unsub, conn, panicked>>

\* Mutant: the calls are not waited for.
CallsDone_Any == TRUE

\* callWG.Wait returns.
CallsDone == call = "done" /\ unsub = "no"

\* ... and when the accepted ones are done, cancelServerSubscriptions; then
\* codec.close.
CancelServerSubscriptions ==
  /\ closing = "wait" /\ CallsDone
  /\ closing' = "done"
  /\ IF inSubs THEN CloseErr ELSE UNCHANGED <<errChan, panicked>>
  /\ inSubs' = FALSE
  /\ up' = FALSE
  /\ UNCHANGED <<broken, call, created, failed, published, buffer, flushed, activated, unsub, conn>>
-----------------------------------------------------------------------------
Serve  == CallReturns \/ AddSubscriptions \/ Respond \/ ActivateSends \/ ActivateEnds
Answer == Unsubscribe \/ UnsubscribeResponds

\* Type invariant of the subscription.
TypeOK ==
  /\ up \in BOOLEAN /\ broken \in BOOLEAN /\ created \in BOOLEAN /\ failed \in BOOLEAN
  /\ call \in {"run", "add", "respond", "activate", "flush", "done"}
  /\ published \in 0..MaxNotifs /\ buffer \in Seq(1..MaxNotifs)
  /\ flushed \in 0..Len(buffer) /\ activated \in BOOLEAN
  /\ inSubs \in BOOLEAN /\ errChan \in {"open", "closed"}
  /\ unsub \in {"no", "run", "respond"} /\ closing \in {"no", "wait", "done"}
  /\ conn \in Seq(UnsubMsg..MaxNotifs) /\ panicked \in BOOLEAN
=============================================================================
