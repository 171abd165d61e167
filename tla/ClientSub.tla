----------------------------- MODULE ClientSub ------------------------------
(***************************************************************************)
(* A client's subscription (ClientSubscription, rpc/subscription.go), which*)
(* the server's answer starts: the forwarding goroutine (run,              *)
(* forward), the dispatch goroutine that hands it notifications (deliver)  *)
(* and the end of the connection (close), and the goroutines that call     *)
(* Unsubscribe.  The channels in and quit are unbuffered: a step of both   *)
(* sides.  Notifications are numbered in the order the server sent them.   *)
(***************************************************************************)
EXTENDS Naturals, Sequences

CONSTANTS
  Users,      \* goroutines that call Unsubscribe
  MaxNotifs,  \* bound: the number of notifications that arrive
  MaxBuffer,  \* maxClientSubscriptionBuffer
  Doubtful    \* notifications that may not decode into the channel's type

VARIABLES
  arrived,    \* the notification read last
  up,         \* the connection is open and the subscription in clientSubs
  disp,       \* dispatch: "idle", or blocked in "deliver" or "close"
  quitErr,    \* the error that close sends
  fwd,        \* the forwarding goroutine
  reason,     \* why forward returned: "unsubscribed" or an error
  buffer,     \* forward's buffer
  received,   \* what was sent on the user's channel
  unsent,     \* the unsubscribe request could not be sent, an error that run ignores
  user,       \* user -> where its Unsubscribe is
  once,       \* errOnce: "new", "running" or "done"
  errVal,     \* what was sent on sub.err, or "none"
  errClosed,  \* sub.err is closed
  panicked    \* a send on, or a close of, a closed channel

fwdVars  == <<fwd, reason, buffer, received, unsent>>
userVars == <<user, once>>
errVars  == <<errVal, errClosed, panicked>>
vars == <<arrived, up, disp, quitErr, fwdVars, userVars, errVars>>

Errors == {"decode", "overflow", "connErr", "clientQuit"}

Init ==
  /\ arrived = 0 /\ up = FALSE /\ disp = "idle" /\ quitErr = "none"
  /\ fwd = "new" /\ reason = "none" /\ buffer = <<>> /\ received = <<>>
  /\ unsent = FALSE
  /\ user = [u \in Users |-> "no"] /\ once = "new"
  /\ errVal = "none" /\ errClosed = FALSE /\ panicked = FALSE

\* The channels forwardDone and unsubDone are closed.
ForwardDone == fwd \notin {"new", "select", "ended"}
UnsubDone   == fwd = "end"
-----------------------------------------------------------------------------
(* dispatch *)

\* The server has accepted the subscription: go op.sub.run()
Start ==
  /\ disp = "idle" /\ fwd = "new"
  /\ fwd' = "select" /\ up' = TRUE
  /\ UNCHANGED <<arrived, disp, quitErr, reason, buffer, received, unsent, userVars, errVars>>

\* handleSubscriptionResult: deliver is entered.
ReadNotif(x) ==
  /\ disp = "idle" /\ up
  /\ arrived' = x
  /\ disp' = "deliver"
  /\ UNCHANGED <<up, quitErr, fwdVars, userVars, errVars>>

\* handler.cancelAllRequests, when the read loop has failed or the client quits:
\* an unsubscribe request under way fails.  But after a failed read lastOp, the
\* request that dispatch does not know to be sent, is dropped and its caller not
\* woken.  Then close(err) is entered.
ConnEnds(err) ==
  /\ disp = "idle" /\ up
  /\ up' = FALSE /\ disp' = "close" /\ quitErr' = err
  /\ fwd' = CASE fwd = "requested" \/ (fwd = "sent" /\ err = "clientQuit") -> "report"
              [] fwd = "sent" /\ err # "clientQuit" -> "stranded"
              [] OTHER -> fwd
  /\ UNCHANGED <<arrived, reason, buffer, received, unsent, userVars, errVars>>

\* Mutant: deliver and close do not watch forwardDone.
Abandoned_Never == FALSE

\* deliver and close give up when the forwarding has ended.
Abandoned == ForwardDone

DispGivesUp ==
  /\ disp \in {"deliver", "close"} /\ Abandoned
  /\ disp' = "idle"
  /\ UNCHANGED <<arrived, up, quitErr, fwdVars, userVars, errVars>>
-----------------------------------------------------------------------------
(* forward *)

Full == Len(buffer) = MaxBuffer

Overflow == fwd' = "ended" /\ reason' = "overflow" /\ UNCHANGED buffer

\* case 1: <-sub.in
ForwardIn ==
  /\ disp = "deliver" /\ fwd = "select"
  /\ disp' = "idle"
  /\ \/ /\ arrived \in Doubtful
        /\ fwd' = "ended" /\ reason' = "decode" /\ UNCHANGED buffer
     \/ Full /\ Overflow
     \/ /\ ~Full
        /\ buffer' = Append(buffer, arrived) /\ UNCHANGED <<fwd, reason>>
  /\ UNCHANGED <<arrived, up, quitErr, received, unsent, userVars, errVars>>

\* case 0: <-sub.quit, sent by close
ForwardQuit ==
  /\ disp = "close" /\ fwd = "select"
  /\ disp' = "idle"
  /\ fwd' = "ended" /\ reason' = quitErr
  /\ UNCHANGED <<arrived, up, quitErr, buffer, received, unsent, userVars, errVars>>

\* case 2: sub.channel<-, when the user receives
ForwardOut ==
  /\ fwd = "select" /\ buffer # <<>>
  /\ received' = Append(received, Head(buffer))
  /\ buffer' = Tail(buffer)
  /\ UNCHANGED <<arrived, up, disp, quitErr, fwd, reason, unsent, userVars, errVars>>
-----------------------------------------------------------------------------
(* run, after forward *)

\* Mutant: the server is asked first, and forwardDone closed after that.
RunEnded_RequestFirst ==
  /\ fwd = "ended" /\ disp = "idle"
  /\ fwd' = IF reason \in {"connErr", "clientQuit"} THEN "report" ELSE "request"
  /\ UNCHANGED <<arrived, up, disp, quitErr, reason, buffer, received, unsent, userVars, errVars>>

\* close(forwardDone); the server is told unless the connection ended.
RunEnded ==
  /\ fwd = "ended"
  /\ fwd' = IF reason \in {"connErr", "clientQuit"} THEN "report" ELSE "request"
  /\ UNCHANGED <<arrived, up, disp, quitErr, reason, buffer, received, unsent, userVars, errVars>>

\* The channel c.closing is closed.
Closing == quitErr = "clientQuit"

\* requestUnsubscribe: dispatch accepts the request, unless the client quits.
Request ==
  /\ fwd = "request"
  /\ \/ disp = "idle" /\ ~Closing /\ fwd' = "write"
     \/ Closing /\ fwd' = "report"
  /\ UNCHANGED <<arrived, up, disp, quitErr, reason, buffer, received, unsent, userVars, errVars>>

\* It is written on the connection, unless that has ended ...
WriteOk ==
  /\ fwd = "write" /\ up /\ fwd' = "sent"
  /\ UNCHANGED <<arrived, up, disp, quitErr, reason, buffer, received, unsent, userVars, errVars>>

\* ... and dispatch is told.
ReqSent ==
  /\ fwd = "sent" /\ disp = "idle" /\ fwd' = "requested"
  /\ UNCHANGED <<arrived, up, disp, quitErr, reason, buffer, received, unsent, userVars, errVars>>

\* A write may fail on a connection that is up.
WriteFails ==
  /\ fwd = "write" /\ fwd' = "dial"
  /\ UNCHANGED <<arrived, up, disp, quitErr, reason, buffer, received, unsent, userVars, errVars>>

\* Without a new connection, send returns an error.
DialFails ==
  /\ fwd = "dial" /\ fwd' = "report" /\ unsent' = TRUE
  /\ UNCHANGED <<arrived, up, disp, quitErr, reason, buffer, received, userVars, errVars>>

\* dispatch gets the new connection and closes the old one.
Reconnect ==
  /\ fwd = "dial" /\ disp = "idle" /\ ~Closing
  /\ fwd' = "renewed"
  /\ IF up THEN up' = FALSE /\ disp' = "close" /\ quitErr' = "connErr"
           ELSE UNCHANGED <<up, disp, quitErr>>
  /\ UNCHANGED <<arrived, reason, buffer, received, unsent, userVars, errVars>>

\* There the request fails or is answered, or is dropped as in ConnEnds.
RenewedEnds ==
  /\ fwd = "renewed" /\ fwd' \in {"report", "stranded"}
  /\ UNCHANGED <<arrived, up, disp, quitErr, reason, buffer, received, unsent, userVars, errVars>>

\* dispatch hands over the server's answer, perhaps before it takes reqSent.
RequestAnswered ==
  /\ fwd \in {"sent", "requested"} /\ disp = "idle"
  /\ fwd' = "report"
  /\ UNCHANGED <<arrived, up, disp, quitErr, reason, buffer, received, unsent, userVars, errVars>>

\* Mutant: the error is sent after unsubDone is closed, and may be lost.
Report_Late ==
  /\ fwd = "report" /\ fwd' = "end"
  /\ UNCHANGED <<arrived, up, disp, quitErr, reason, buffer, received, unsent, userVars, errVars>>

\* The error is sent on sub.err (the end of the client as nil), and unsubDone
\* is closed.
Report ==
  /\ fwd = "report" /\ fwd' = "end"
  /\ IF reason = "unsubscribed"
     THEN UNCHANGED errVars
     ELSE /\ errVal' = IF reason = "clientQuit" THEN "nil" ELSE reason
          /\ panicked' = (panicked \/ errClosed)
          /\ UNCHANGED errClosed
  /\ UNCHANGED <<arrived, up, disp, quitErr, reason, buffer, received, unsent, userVars>>
-----------------------------------------------------------------------------
(* Unsubscribe *)

Call(u) ==
  /\ user[u] = "no"
  /\ user' = [user EXCEPT ![u] = "do"]
  /\ UNCHANGED <<arrived, up, disp, quitErr, fwdVars, once, errVars>>

\* errOnce.Do returns without running its function: another caller has run it.
OnceOver == once = "done"

Do(u) ==
  /\ user[u] = "do"
  /\ \/ once = "new" /\ once' = "running" /\ user' = [user EXCEPT ![u] = "quit"]
     \/ OnceOver /\ user' = [user EXCEPT ![u] = "returned"] /\ UNCHANGED once
  /\ UNCHANGED <<arrived, up, disp, quitErr, fwdVars, errVars>>

\* sub.quit <- errUnsubscribed, which forward receives
QuitSent(u) ==
  /\ user[u] = "quit" /\ fwd = "select"
  /\ fwd' = "ended" /\ reason' = "unsubscribed"
  /\ user' = [user EXCEPT ![u] = "wait"]
  /\ UNCHANGED <<arrived, up, disp, quitErr, buffer, received, unsent, once, errVars>>

\* Mutant: forwardDone is waited for instead of unsubDone.
CloseErr_ForwardDone(u) ==
  /\ user[u] \in {"wait", "quit"} /\ ForwardDone
  /\ user' = [user EXCEPT ![u] = "returned"]
  /\ once' = "done"
  /\ errClosed' = TRUE /\ panicked' = (panicked \/ errClosed)
  /\ UNCHANGED <<arrived, up, disp, quitErr, fwdVars, errVal>>

\* <-sub.unsubDone, after the send on quit or instead of it; close(sub.err)
CloseErr(u) ==
  /\ user[u] \in {"wait", "quit"} /\ UnsubDone
  /\ user' = [user EXCEPT ![u] = "returned"]
  /\ once' = "done"
  /\ errClosed' = TRUE /\ panicked' = (panicked \/ errClosed)
  /\ UNCHANGED <<arrived, up, disp, quitErr, fwdVars, errVal>>
-----------------------------------------------------------------------------
Dispatch  == DispGivesUp \/ ForwardIn \/ ForwardQuit
Send      == Request \/ WriteFails \/ ReqSent \/ DialFails \/ RenewedEnds
Run       == RunEnded \/ Send \/ Report
Unsubscribe(u) == Do(u) \/ QuitSent(u) \/ CloseErr(u)

\* Type invariant of the subscription.
TypeOK ==
  /\ arrived \in 0..MaxNotifs /\ up \in BOOLEAN
  /\ disp \in {"idle", "deliver", "close"}
  /\ quitErr \in {"none", "connErr", "clientQuit"}
  /\ fwd \in {"new", "select", "ended", "request", "write", "sent", "requested", "dial",
             "renewed", "stranded", "report", "end"}
  /\ reason \in {"none", "unsubscribed"} \cup Errors
  /\ buffer \in Seq(1..MaxNotifs) /\ Len(buffer) <= MaxBuffer
  /\ received \in Seq(1..MaxNotifs) /\ unsent \in BOOLEAN
  /\ user \in [Users -> {"no", "do", "quit", "wait", "returned"}]
  /\ once \in {"new", "running", "done"}
  /\ errVal \in {"none", "nil"} \cup Errors
  /\ errClosed \in BOOLEAN /\ panicked \in BOOLEAN
=============================================================================
