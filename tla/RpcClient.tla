----------------------------- MODULE RpcClient ------------------------------
(***************************************************************************)
(* The client of rpc/client.go over a connection that is not HTTP: the     *)
(* goroutines of the callers (send, write, reconnect, wait), the dispatch  *)
(* loop with the response table of its handler, the goroutine that reads   *)
(* the connection, and Close.  The channels reqInit, reqTimeout,           *)
(* reconnected, readOp, readErr and close are unbuffered: a step of both   *)
(* sides.  reqSent has room for one value.                                 *)
(*                                                                         *)
(* A request has one id, which stands for the request itself.  The calls   *)
(* in Reverse are made by a method that the client's own handler runs for  *)
(* an incoming call (ClientFromContext); handler.close waits for these     *)
(* methods (callWG), and cancels their context only after that.            *)
(***************************************************************************)
EXTENDS Naturals, FiniteSets

CONSTANTS
  Calls,         \* the calls that are made
  Reverse,       \* those made by a method that serves the other side
  Deadline,      \* those whose context can expire
  CanReconnect,  \* reconnectFunc # nil
  MaxConns,      \* bound: the number of connections ever opened
  None

ASSUME CallsAssumption == Reverse \subseteq Calls /\ Deadline \subseteq Calls
ASSUME ConnsAssumption == MaxConns \in Nat \ {0} /\ CanReconnect \in BOOLEAN

VARIABLES
  caller,    \* call -> where its goroutine is
  outcome,   \* call -> what it returned
  retry,     \* call -> write's argument retry
  resp,      \* call -> op.resp: "open", "value" (a response was sent) or "closed"
  sendErr,   \* call -> the error that write returned
  free,      \* dispatch: reqInitLock # nil
  lastOp,    \* dispatch: the request that is being sent
  respWait,  \* handler: the requests that wait for a response
  serving,   \* handler: the methods counted in callWG
  reading,   \* dispatch: whether the read loop of conn runs
  conn,      \* dispatch: its connection
  next,      \* dispatch: the connection that was received on reconnected
  disp,      \* dispatch: where it is
  writeConn, \* Client.writeConn, 0 for nil
  reqSent,   \* the content of reqSent: "empty", "ok" or "err"
  dialed,    \* the number of connections opened
  alive,     \* the connections that are open
  wire,      \* <<call, connection>>: requests the server got, to be answered
  reader,    \* the read goroutine: [st, msg]
  closer,    \* Client.Close: "no", "send", "wait" or "returned"
  panicked   \* a panic of the dispatch goroutine

dispVars == <<free, lastOp, respWait, serving, reading, conn, next, disp>>
callVars == <<caller, outcome, retry, sendErr>>
netVars  == <<dialed, alive, wire>>
vars == <<callVars, resp, dispVars, writeConn, reqSent, netVars, reader, closer, panicked>>

Conns == 1..MaxConns
Messages == {<<"response", c>> : c \in Calls} \cup {<<"call", c>> : c \in Reverse}

ASSUME NoneAssumption == None \notin Calls \cup Messages

ReaderState == [st : {"reading", "op", "err", "done"}, msg : Messages \cup {None}]
Reading == [st |-> "reading", msg |-> None]

Init ==
  /\ caller = [c \in Calls |-> IF c \in Reverse THEN "off" ELSE "idle"]
  /\ outcome = [c \in Calls |-> "none"]
  /\ retry = [c \in Calls |-> FALSE]
  /\ resp = [c \in Calls |-> "open"]
  /\ sendErr = [c \in Calls |-> FALSE]
  /\ free = TRUE /\ lastOp = None /\ respWait = {} /\ serving = {}
  /\ reading = TRUE /\ conn = 1 /\ next = 0 /\ disp = "loop"
  /\ writeConn = 1 /\ reqSent = "empty"
  /\ dialed = 1 /\ alive = {1} /\ wire = {}
  /\ reader = Reading
  /\ closer = "no" /\ panicked = FALSE

\* The channel closing is closed (first step of dispatch's deferred function),
\* and the channel didClose (its last step).
Closing  == disp \in {"quitWait", "quitDrain", "done"}
DidClose == disp = "done"

\* A call returns.
Returns(c, what) ==
  /\ caller' = [caller EXCEPT ![c] = "returned"]
  /\ outcome' = [outcome EXCEPT ![c] = what]

Goes(c, where) == caller' = [caller EXCEPT ![c] = where] /\ UNCHANGED outcome
-----------------------------------------------------------------------------
(***************************************************************************)
(* handler.cancelAllRequests: every waiting request but the one in flight  *)
(* is removed and its channel closed.                                      *)
(***************************************************************************)
CloseResp(ops) ==
  /\ resp' = [c \in Calls |-> IF c \in ops /\ resp[c] # "value" THEN "closed" ELSE resp[c]]
  /\ panicked' = (panicked \/ \E c \in ops : resp[c] = "closed")

\* Mutant: the request in flight is not spared.
cancelAllRequests_All(inflight) == CloseResp(respWait) /\ respWait' = {}

cancelAllRequests(inflight) == CloseResp(respWait \ {inflight}) /\ respWait' = {}
-----------------------------------------------------------------------------
(* The callers: CallContext, send, write, reconnect and requestOp.wait.    *)

Begin(c) ==
  /\ caller[c] = "idle"
  /\ Goes(c, "init")
  /\ UNCHANGED <<retry, sendErr, resp, dispVars, writeConn, reqSent, netVars, reader, closer, panicked>>

\* c.reqInit <- op, which dispatch receives: it registers the request and takes
\* the write lock.
SendInit(c) ==
  /\ caller[c] = "init" /\ disp = "loop" /\ free
  /\ Goes(c, "write")
  /\ free' = FALSE /\ lastOp' = c /\ respWait' = respWait \cup {c}
  /\ UNCHANGED <<retry, sendErr, resp, serving, reading, conn, next, disp, writeConn,
                 reqSent, netVars, reader, closer, panicked>>

\* ... or ctx.Done, or closing.
SendAborted(c) ==
  /\ caller[c] = "init"
  /\ \/ c \in Deadline /\ Returns(c, "ctxErr")
     \/ Closing /\ Returns(c, "quitErr")
  /\ UNCHANGED <<retry, sendErr, resp, dispVars, writeConn, reqSent, netVars, reader, closer, panicked>>

\* writeConn.writeJSON succeeds: the other side will answer.
WriteOk(c) ==
  /\ caller[c] = "write" /\ writeConn \in alive
  /\ wire' = wire \cup {<<c, writeConn>>}
  /\ Goes(c, "sent") /\ sendErr' = [sendErr EXCEPT ![c] = FALSE]
  /\ UNCHANGED <<retry, resp, dispVars, writeConn, reqSent, dialed, alive, reader, closer, panicked>>

\* It fails, on a connection that may or may not be open, and the other side
\* does not get the message: once more, on a new connection, unless this was
\* the second attempt.
WriteFails(c) ==
  /\ caller[c] = "write" /\ writeConn # 0
  /\ writeConn' = 0
  /\ Goes(c, IF retry[c] THEN "sent" ELSE "dial")
  /\ retry' = [retry EXCEPT ![c] = TRUE]
  /\ sendErr' = [sendErr EXCEPT ![c] = retry[c]]
  /\ UNCHANGED <<resp, dispVars, reqSent, netVars, reader, closer, panicked>>

\* The previous write failed: reconnect first.
WriteNoConn(c) ==
  /\ caller[c] = "write" /\ writeConn = 0
  /\ Goes(c, "dial")
  /\ UNCHANGED <<retry, sendErr, resp, dispVars, writeConn, reqSent, netVars, reader, closer, panicked>>

\* reconnect: reconnectFunc is nil, or fails (always, at the bound) ...
DialFails(c) ==
  /\ caller[c] = "dial"
  /\ Goes(c, "sent") /\ sendErr' = [sendErr EXCEPT ![c] = TRUE]
  /\ UNCHANGED <<retry, resp, dispVars, writeConn, reqSent, netVars, reader, closer, panicked>>

\* ... or yields a connection, which is offered to dispatch ...
DialOk(c) ==
  /\ caller[c] = "dial" /\ CanReconnect /\ dialed < MaxConns
  /\ dialed' = dialed + 1 /\ alive' = alive \cup {dialed + 1}
  /\ Goes(c, "offer")
  /\ UNCHANGED <<retry, sendErr, resp, dispVars, writeConn, reqSent, wire, reader, closer, panicked>>

\* ... which may have quit.
OfferQuit(c) ==
  /\ caller[c] = "offer" /\ DidClose
  /\ alive' = alive \ {dialed}
  /\ Goes(c, "sent") /\ sendErr' = [sendErr EXCEPT ![c] = TRUE]
  /\ UNCHANGED <<retry, resp, dispVars, writeConn, reqSent, dialed, wire, reader, closer, panicked>>

\* c.reqSent <- err, then send returns.
Sent(c) ==
  /\ caller[c] = "sent" /\ reqSent = "empty"
  /\ reqSent' = IF sendErr[c] THEN "err" ELSE "ok"
  /\ IF sendErr[c] THEN Returns(c, "sendErr") ELSE Goes(c, "wait")
  /\ UNCHANGED <<retry, sendErr, resp, dispVars, writeConn, netVars, reader, closer, panicked>>

\* requestOp.wait: the channel yields the response, or is closed ...
WaitDone(c) ==
  /\ caller[c] = "wait" /\ resp[c] # "open"
  /\ Returns(c, IF resp[c] = "value" THEN "response" ELSE "connErr")
  /\ UNCHANGED <<retry, sendErr, resp, dispVars, writeConn, reqSent, netVars, reader, closer, panicked>>

\* ... or the context expires ...
WaitExpires(c) ==
  /\ caller[c] = "wait" /\ c \in Deadline
  /\ Goes(c, "timeout")
  /\ UNCHANGED <<retry, sendErr, resp, dispVars, writeConn, reqSent, netVars, reader, closer, panicked>>

\* Mutant: closing is not watched.
Timeout_NoClosing(c) ==
  /\ caller[c] = "timeout" /\ disp = "loop"
  /\ respWait' = respWait \ {c}
  /\ Returns(c, "ctxErr")
  /\ UNCHANGED <<retry, sendErr, resp, free, lastOp, serving, reading, conn, next, disp, writeConn,
                 reqSent, netVars, reader, closer, panicked>>

\* ... and c.reqTimeout <- op lets dispatch forget the request.
Timeout(c) ==
  /\ caller[c] = "timeout"
  /\ \/ disp = "loop" /\ respWait' = respWait \ {c}
     \/ Closing /\ UNCHANGED respWait
  /\ Returns(c, "ctxErr")
  /\ UNCHANGED <<retry, sendErr, resp, free, lastOp, serving, reading, conn, next, disp, writeConn,
                 reqSent, netVars, reader, closer, panicked>>

\* The method that made a reverse call returns: callWG.Done.
ServeEnd(c) ==
  /\ c \in serving /\ caller[c] = "returned"
  /\ serving' = serving \ {c}
  /\ UNCHANGED <<callVars, resp, free, lastOp, respWait, reading, conn, next, disp, writeConn,
                 reqSent, netVars, reader, closer, panicked>>
-----------------------------------------------------------------------------
(* The dispatch loop.                                                      *)

\* Client.Close: c.close is received.  dispatch returns, and its deferred
\* function closes closing and, if it was reading, the connection.
Quit ==
  /\ disp = "loop" /\ closer = "send"
  /\ closer' = "wait"
  /\ IF reading
     THEN cancelAllRequests(None) /\ disp' = "quitWait"
     ELSE disp' = "done" /\ UNCHANGED <<respWait, resp, panicked>>
  /\ UNCHANGED <<callVars, free, lastOp, serving, reading, conn, next, writeConn, reqSent, netVars, reader>>

\* A message: handleMsg resolves the request it answers, or starts the method
\* it calls.
ReadOp ==
  /\ disp = "loop" /\ reader.st = "op"
  /\ LET c == reader.msg[2] IN
     \/ /\ reader.msg[1] = "response" /\ c \in respWait
        /\ respWait' = respWait \ {c}
        /\ resp' = [resp EXCEPT ![c] = "value"]
        /\ panicked' = (panicked \/ resp[c] = "closed")
        /\ UNCHANGED <<callVars, serving>>
     \/ /\ reader.msg[1] = "response" /\ c \notin respWait   \* unsolicited
        /\ UNCHANGED <<callVars, serving, respWait, resp, panicked>>
     \/ /\ reader.msg[1] = "call"
        /\ serving' = serving \cup {c}
        /\ Goes(c, "idle")
        /\ UNCHANGED <<retry, sendErr, respWait, resp, panicked>>
  /\ reader' = Reading
  /\ UNCHANGED <<free, lastOp, reading, conn, next, disp, writeConn, reqSent, netVars, closer>>

\* The read loop ended: conn.close(err, lastOp), up to callWG.Wait ...
ReadErr ==
  /\ disp = "loop" /\ reader.st = "err"
  /\ reader' = [reader EXCEPT !.st = "done"]
  /\ cancelAllRequests(lastOp)
  /\ disp' = "errWait"
  /\ UNCHANGED <<callVars, free, lastOp, serving, reading, conn, next, writeConn, reqSent, netVars, closer>>

\* Mutant: the request in flight is not registered again.
Registers_Not(c) == respWait' = {} /\ UNCHANGED panicked

\* The new handler's table is empty, up to addRequestOp(lastOp), which
\* dereferences lastOp.
Registers(c) ==
  /\ respWait' = {c} \ {None}
  /\ panicked' = (panicked \/ c = None)

\* A new connection: go c.read(newcodec), newClientConn(newcodec).
Install(newconn) ==
  /\ reading' = TRUE /\ conn' = newconn /\ next' = 0 /\ disp' = "loop"
  /\ reader' = Reading
  /\ Registers(lastOp)

\* A reconnect: the caller goes on writing on the new connection, dispatch
\* first closes the old one if it still reads from it.
Reconnected(c) ==
  /\ disp = "loop" /\ caller[c] = "offer"
  /\ Goes(c, "write") /\ writeConn' = dialed
  /\ IF reading
     THEN /\ cancelAllRequests(lastOp) /\ disp' = "recWait" /\ next' = dialed
          /\ UNCHANGED <<reading, conn, reader>>
     ELSE Install(dialed) /\ UNCHANGED resp
  /\ UNCHANGED <<retry, sendErr, free, lastOp, serving, reqSent, netVars, closer>>

\* Mutant: the connection is not closed.
CloseWaited_NoCodec ==
  /\ disp \in {"errWait", "recWait", "quitWait"} /\ serving = {}
  /\ reading' = (reading /\ disp # "errWait")
  /\ disp' = CASE disp = "errWait"  -> "loop"
               [] disp = "recWait"  -> "recDrain"
               [] disp = "quitWait" -> "quitDrain"
  /\ UNCHANGED <<callVars, resp, free, lastOp, respWait, serving, conn, next, writeConn,
                 reqSent, netVars, reader, closer, panicked>>

\* handler.close goes on after callWG.Wait, then codec.close.
CloseWaited ==
  /\ disp \in {"errWait", "recWait", "quitWait"} /\ serving = {}
  /\ alive' = alive \ {conn}
  /\ wire' = {w \in wire : w[2] # conn}
  /\ reading' = (reading /\ disp # "errWait")
  /\ disp' = CASE disp = "errWait"  -> "loop"
               [] disp = "recWait"  -> "recDrain"
               [] disp = "quitWait" -> "quitDrain"
  /\ UNCHANGED <<callVars, resp, free, lastOp, respWait, serving, conn, next, writeConn,
                 reqSent, dialed, reader, closer, panicked>>

\* drainRead: messages are dropped until the read loop ends.
DrainOp ==
  /\ disp \in {"recDrain", "quitDrain"} /\ reader.st = "op"
  /\ reader' = Reading
  /\ UNCHANGED <<callVars, resp, dispVars, writeConn, reqSent, netVars, closer, panicked>>

DrainErr ==
  /\ reader.st = "err"
  /\ \/ disp = "recDrain" /\ Install(next)
     \/ /\ disp = "quitDrain" /\ disp' = "done"
        /\ reader' = [reader EXCEPT !.st = "done"]
        /\ UNCHANGED <<respWait, reading, conn, next, panicked>>
  /\ UNCHANGED <<callVars, resp, free, lastOp, serving, writeConn, reqSent, netVars, closer>>

\* Mutant: a request that could not be sent stays registered.
ReqSent_Keeps ==
  /\ disp = "loop" /\ reqSent # "empty"
  /\ reqSent' = "empty" /\ free' = TRUE /\ lastOp' = None
  /\ UNCHANGED <<callVars, resp, respWait, serving, reading, conn, next, disp, writeConn, netVars, reader, closer, panicked>>

\* The end of a send: the write lock is released.
ReqSent ==
  /\ disp = "loop" /\ reqSent # "empty"
  /\ respWait' = IF reqSent = "err" THEN respWait \ {lastOp} ELSE respWait
  /\ reqSent' = "empty" /\ free' = TRUE /\ lastOp' = None
  /\ UNCHANGED <<callVars, resp, serving, reading, conn, next, disp, writeConn, netVars, reader, closer, panicked>>
-----------------------------------------------------------------------------
(* The read goroutine, the network and Client.Close.                       *)

ReadMsg ==
  /\ reader.st = "reading"
  /\ conn \in alive
  /\ \/ \E c \in Calls : /\ <<c, conn>> \in wire
                          /\ wire' = wire \ {<<c, conn>>}
                          /\ reader' = [st |-> "op", msg |-> <<"response", c>>]
     \/ \E c \in Reverse : /\ caller[c] = "off"
                            /\ reader' = [st |-> "op", msg |-> <<"call", c>>]
                            /\ UNCHANGED wire
  /\ UNCHANGED <<callVars, resp, dispVars, writeConn, reqSent, dialed, alive, closer, panicked>>

\* The connection is closed or broken.
ReadFails ==
  /\ reader.st = "reading" /\ conn \notin alive
  /\ reader' = [reader EXCEPT !.st = "err"]
  /\ UNCHANGED <<callVars, resp, dispVars, writeConn, reqSent, netVars, closer, panicked>>

\* What was read is not JSON (the error answer is not modelled).
ReadSyntaxError ==
  /\ reader.st = "reading" /\ conn \in alive
  /\ reader' = [reader EXCEPT !.st = "err"]
  /\ UNCHANGED <<callVars, resp, dispVars, writeConn, reqSent, netVars, closer, panicked>>

\* A connection breaks.
Break ==
  /\ \E n \in alive : alive' = alive \ {n} /\ wire' = {w \in wire : w[2] # n}
  /\ UNCHANGED <<callVars, resp, dispVars, writeConn, reqSent, dialed, reader, closer, panicked>>

CloseBegin ==
  /\ closer = "no" /\ closer' = "send"
  /\ UNCHANGED <<callVars, resp, dispVars, writeConn, reqSent, netVars, reader, panicked>>

CloseEnd ==
  /\ closer = "wait" /\ DidClose
  /\ closer' = "returned"
  /\ UNCHANGED <<callVars, resp, dispVars, writeConn, reqSent, netVars, reader, panicked>>

Caller(c) ==
  \/ SendInit(c) \/ SendAborted(c) \/ WriteOk(c) \/ WriteFails(c) \/ WriteNoConn(c)
  \/ DialFails(c) \/ DialOk(c) \/ OfferQuit(c) \/ Sent(c)
  \/ WaitDone(c) \/ WaitExpires(c) \/ Timeout(c) \/ ServeEnd(c)

Dispatch == ReadOp \/ ReadErr \/ CloseWaited \/ DrainOp \/ DrainErr \/ ReqSent

Next ==
  \/ \E c \in Calls : Begin(c) \/ Caller(c) \/ Reconnected(c)
  \/ Dispatch \/ Quit \/ ReadMsg \/ ReadFails \/ ReadSyntaxError \/ Break \/ CloseBegin \/ CloseEnd

Spec == Init /\ [][Next]_vars

(***************************************************************************)
(* Goroutines are scheduled, a broken connection is noticed, a dial ends   *)
(* (it has a timeout) and a context with a deadline expires.  Nothing is   *)
(* assumed of the server, which need not answer, nor of when calls begin,  *)
(* but a method that serves the other side gets to its call.               *)
(***************************************************************************)
FairSpec ==
  /\ Spec
  /\ \A c \in Calls : WF_vars(Caller(c)) /\ WF_vars(Reconnected(c))
  /\ \A c \in Reverse : WF_vars(Begin(c))
  /\ WF_vars(Dispatch) /\ WF_vars(Quit) /\ WF_vars(ReadFails) /\ WF_vars(CloseEnd)
-----------------------------------------------------------------------------
\* Type invariant of the callers, of dispatch and of the connection.
TypeOK ==
  /\ caller \in [Calls -> {"off", "idle", "init", "write", "dial", "offer", "sent",
                           "wait", "timeout", "returned"}]
  /\ outcome \in [Calls -> {"none", "response", "connErr", "ctxErr", "quitErr", "sendErr"}]
  /\ retry \in [Calls -> BOOLEAN] /\ sendErr \in [Calls -> BOOLEAN]
  /\ resp \in [Calls -> {"open", "value", "closed"}]
  /\ free \in BOOLEAN /\ lastOp \in Calls \cup {None}
  /\ respWait \subseteq Calls /\ serving \subseteq Reverse
  /\ reading \in BOOLEAN /\ conn \in Conns /\ next \in Conns \cup {0}
  /\ disp \in {"loop", "errWait", "recWait", "recDrain", "quitWait", "quitDrain", "done"}
  /\ writeConn \in Conns \cup {0} /\ reqSent \in {"empty", "ok", "err"}
  /\ dialed \in Conns /\ alive \subseteq 1..dialed /\ wire \subseteq Calls \X Conns
  /\ reader \in ReaderState
  /\ reader.st = "op" => reader.msg # None
  /\ closer \in {"no", "send", "wait", "returned"} /\ panicked \in BOOLEAN

\* The calls between reqInit and reqSent: they use writeConn.
Sending == {c \in Calls : caller[c] \in {"write", "dial", "offer", "sent"}}

\* The write lock: only the call that dispatch remembers as lastOp uses writeConn,
\* and reqSent has room when it is done, so that no caller blocks there.
WriteLock ==
  \A c \in Sending : ~free /\ lastOp = c /\ reqSent = "empty"

\* No channel is closed twice, none is written after it was closed, and lastOp is
\* not nil when a new connection needs it.
NoPanic == ~panicked

\* The response table does not leak: a call that has returned is registered only
\* until dispatch handles its reqSent, or after dispatch has quit.
NoLeak ==
  \A c \in respWait : caller[c] = "returned" =>
    DidClose \/ (lastOp = c /\ reqSent = "err")

\* Will a message on the current connection answer call c?
Answering(c) == <<c, conn>> \in wire \/ (reader.st = "op" /\ reader.msg = <<"response", c>>)

\* As long as a call waits and its answer can still arrive, dispatch will
\* recognise the answer: the request survives a reconnect by its own write.
AnswerAwaited ==
  \A c \in Calls :
    disp = "loop" /\ reading /\ caller[c] \in {"sent", "wait"} /\ Answering(c)
      => c \in respWait

\* handler.close waits for a method that has not returned.
WaitsForMethod ==
  /\ disp \in {"errWait", "recWait", "quitWait"}
  /\ \E c \in serving : caller[c] # "returned"

\* A call with a deadline returns, whatever the server, the network and the
\* other callers do, unless dispatch waits for good for a method that made a
\* reverse call.
DeadlineReturns ==
  \/ <>[]WaitsForMethod
  \/ \A c \in Deadline : caller[c] = "init" ~> caller[c] = "returned"

\* Client.Close returns, with the same exception.
CloseReturns ==
  \/ <>[]WaitsForMethod
  \/ closer = "send" ~> closer = "returned"

\* client.go:358: "dispatch has accepted the request and will close the channel
\* when it quits."  (Violated: a read error between the write of a request and
\* its reqSent removes the request from the table and leaves its channel open.)
QuitUnblocks ==
  DidClose => \A c \in Calls : caller[c] = "wait" => resp[c] # "open"
=============================================================================
