----------------------------- MODULE HttpStack ------------------------------
(***************************************************************************)
(* The life cycle of the JSON-RPC endpoint: httpServer (server/rpcstack.go)*)
(* with the rpc.Server behind each of its two handlers (rpc/server.go), and*)
(* the requests and WebSocket connections that are under way meanwhile.    *)
(*                                                                         *)
(* The operations of httpServer hold h.mu throughout, so that one runs at a*)
(* time; ServeHTTP takes no lock.  It loads a handler, later reads the     *)
(* configuration, and later still the rpc.Server looks whether it runs: an *)
(* operation may come in between.  A configuration stands for the path     *)
(* prefix (and the modules) it was enabled with.  No handler is ever       *)
(* registered in h.mux.  An rpc.Server is <<kind, number>>.                *)
(***************************************************************************)
EXTENDS Naturals

CONSTANTS
  Requests,    \* HTTP requests that do not ask for an upgrade
  Sockets,     \* requests for a WebSocket
  MaxServers,  \* bound: how often each kind of handler is enabled
  MaxStarts    \* bound: how often the server is started

ASSUME RequestsAssumption == Requests \cap Sockets = {}
ASSUME MaxAssumption == MaxServers \in Nat /\ MaxStarts \in Nat

Kinds   == {"http", "ws"}
Clients == Requests \cup Sockets

VARIABLES
  endpoint,   \* h.endpoint # ""
  listening,  \* h.listener # nil
  accepting,  \* the http.Server accepts connections
  starts,     \* the number of http.Servers started
  handler,    \* h.httpHandler, h.wsHandler: number of the rpc.Server, 0 for nil
  config,     \* h.httpConfig, h.wsConfig: number of the rpc.Server it came with
  running,    \* the rpc.Servers whose flag run is set
  op,         \* the operation that holds h.mu
  pc,         \* where it is
  held,       \* the handler it has loaded
  req         \* client -> its request

opVars == <<op, pc, held>>
vars == <<endpoint, listening, accepting, starts, handler, config, running, opVars, req>>

(***************************************************************************)
(* A request: where it is, the http.Server it came to, the kind and number *)
(* of the handler it has loaded, the configuration it was checked against, *)
(* and for a WebSocket whether its codec is tracked and closed.            *)
(***************************************************************************)
RequestStates ==
  [st : {"none", "ws?", "http?", "path", "passed", "request", "serving", "upgraded", "socket", "done"},
   start : Nat, kind : Kinds, srv : Nat, conf : Nat, tracked : BOOLEAN, closed : BOOLEAN]

NoRequest == [st |-> "none", start |-> 0, kind |-> "http", srv |-> 0, conf |-> 0,
              tracked |-> FALSE, closed |-> FALSE]

Init ==
  /\ endpoint = FALSE /\ listening = FALSE /\ accepting = FALSE /\ starts = 0
  /\ handler = [k \in Kinds |-> 0] /\ config = [k \in Kinds |-> 0] /\ running = {}
  /\ op = "none" /\ pc = "idle" /\ held = 0
  /\ req = [c \in Clients |-> NoRequest]
-----------------------------------------------------------------------------
(* The operations *)

\* setListenAddr; on a server that runs it changes nothing.
SetListenAddr ==
  /\ pc = "idle" /\ ~listening
  /\ endpoint' = TRUE
  /\ UNCHANGED <<listening, accepting, starts, handler, config, running, opVars, req>>

\* A new rpc.Server runs.
NewServer(k) == running' = running \cup {<<k, config[k] + 1>>}

InstallPc(k) == IF k = "http" THEN "install http" ELSE "install ws"

\* enableRPC, enableWS: an error if enabled already, or if RegisterApis fails.
\* The configuration is stored first ...
Enable(k) ==
  /\ pc = "idle" /\ handler[k] = 0 /\ config[k] < MaxServers
  /\ config' = [config EXCEPT ![k] = @ + 1]
  /\ NewServer(k)
  /\ op' = "enable" /\ pc' = InstallPc(k)
  /\ UNCHANGED <<endpoint, listening, accepting, starts, handler, held, req>>

\* The end of an operation: h.mu is released.
Done == op' = "none" /\ pc' = "idle"

\* ... and then the handler, from where on requests are routed to it.
Install(k) ==
  /\ pc = InstallPc(k)
  /\ handler' = [handler EXCEPT ![k] = config[k]]
  /\ Done
  /\ UNCHANGED <<endpoint, listening, accepting, starts, config, running, held, req>>

\* start: net.Listen succeeds ...
Start ==
  /\ pc = "idle" /\ endpoint /\ ~listening /\ starts < MaxStarts
  /\ listening' = TRUE /\ accepting' = TRUE /\ starts' = starts + 1
  /\ UNCHANGED <<endpoint, handler, config, running, opVars, req>>

\* ... or fails: disableRPC and disableWS.
StartFails ==
  /\ pc = "idle" /\ endpoint /\ ~listening
  /\ op' = "start" /\ pc' = "detach http"
  /\ UNCHANGED <<endpoint, listening, accepting, starts, handler, config, running, held, req>>

\* stop of a server that runs: doStop.
Stop ==
  /\ pc = "idle" /\ listening
  /\ op' = "stop" /\ pc' = "detach http"
  /\ UNCHANGED <<endpoint, listening, accepting, starts, handler, config, running, held, req>>

\* stopWS: disableWS, and doStop if nothing else is served.
StopWS ==
  /\ pc = "idle" /\ handler["ws"] # 0
  /\ op' = "stopWS" /\ pc' = "detach ws"
  /\ UNCHANGED <<endpoint, listening, accepting, starts, handler, config, running, held, req>>

AfterDisable(k) ==
  IF k = "http" THEN pc' = "detach ws" /\ UNCHANGED op
  ELSE IF op = "stop" \/ (op = "stopWS" /\ handler["http"] = 0 /\ listening)
  THEN pc' = "shutdown" /\ UNCHANGED op
  ELSE Done

DetachPc(k) == IF k = "http" THEN "detach http" ELSE "detach ws"
StopPc(k)   == IF k = "http" THEN "stop http" ELSE "stop ws"

\* Mutant: the rpc.Server is stopped while the handler is still installed.
Detach_Late(k) ==
  /\ pc = DetachPc(k)
  /\ held' = handler[k] /\ pc' = StopPc(k)
  /\ running' = running \ {<<k, handler[k]>>}
  /\ UNCHANGED <<endpoint, listening, accepting, starts, handler, config, op, req>>

\* The handler is loaded and replaced by nil ...
Detach(k) ==
  /\ pc = DetachPc(k)
  /\ held' = handler[k] /\ handler' = [handler EXCEPT ![k] = 0]
  /\ pc' = StopPc(k)
  /\ UNCHANGED <<endpoint, listening, accepting, starts, config, running, op, req>>

\* ... and its rpc.Server, if there is one, stopped: run is cleared and every
\* tracked codec closed, under s.mutex.
StopServer(k) ==
  /\ pc = StopPc(k)
  /\ running' = running \ {<<k, held>>}
  /\ req' = [c \in Clients |->
       IF req[c].tracked /\ req[c].kind = k /\ req[c].srv = held
       THEN [req[c] EXCEPT !.closed = TRUE] ELSE req[c]]
  /\ held' = 0
  /\ AfterDisable(k)
  /\ UNCHANGED <<endpoint, listening, accepting, starts, handler, config>>

\* Shutdown closes the listener ...
Shutdown ==
  /\ pc = "shutdown"
  /\ accepting' = FALSE /\ pc' = "drain"
  /\ UNCHANGED <<endpoint, listening, starts, handler, config, running, op, held, req>>

\* The connections the http.Server waits for: not those of other starts, and
\* not the ones that were upgraded.
Active(c) == req[c].start = starts /\ req[c].st \notin {"none", "upgraded", "socket", "done"}

\* Mutant: no time limit.
Drain_Forever ==
  /\ pc = "drain" /\ \A c \in Clients : ~Active(c)
  /\ pc' = "clear"
  /\ UNCHANGED <<endpoint, listening, accepting, starts, handler, config, running, op, held, req>>

\* ... and waits for the active connections, for shutdownTimeout at most; Close
\* then drops the connections (the goroutines that serve them go on).
Drain ==
  /\ pc = "drain"
  /\ pc' = "clear"
  /\ UNCHANGED <<endpoint, listening, accepting, starts, handler, config, running, op, held, req>>

Clear ==
  /\ pc = "clear"
  /\ endpoint' = FALSE /\ listening' = FALSE
  /\ Done
  /\ UNCHANGED <<accepting, starts, handler, config, running, held, req>>
-----------------------------------------------------------------------------
(* The requests *)

Accept(c) ==
  /\ accepting /\ req[c].st = "none"
  /\ req' = [req EXCEPT ![c].st = "ws?", ![c].start = starts]
  /\ UNCHANGED <<endpoint, listening, accepting, starts, handler, config, running, opVars>>

\* ServeHTTP loads wsHandler ...
LoadWs(c) ==
  /\ req[c].st = "ws?"
  /\ req' = [req EXCEPT ![c] =
       IF handler["ws"] # 0 /\ c \in Sockets
       THEN [@ EXCEPT !.st = "path", !.kind = "ws", !.srv = handler["ws"]]
       ELSE [@ EXCEPT !.st = "http?"]]
  /\ UNCHANGED <<endpoint, listening, accepting, starts, handler, config, running, opVars>>

\* ... then httpHandler; without one the answer is 404.
LoadHttp(c) ==
  /\ req[c].st = "http?"
  /\ req' = [req EXCEPT ![c] =
       IF handler["http"] # 0
       THEN [@ EXCEPT !.st = "path", !.kind = "http", !.srv = handler["http"]]
       ELSE [@ EXCEPT !.st = "done"]]
  /\ UNCHANGED <<endpoint, listening, accepting, starts, handler, config, running, opVars>>

\* checkPath against the prefix that is configured now.
CheckPath(c, ok) ==
  /\ req[c].st = "path"
  /\ req' = [req EXCEPT ![c].conf = config[req[c].kind],
                        ![c].st = IF ok THEN "passed" ELSE "done"]
  /\ UNCHANGED <<endpoint, listening, accepting, starts, handler, config, running, opVars>>

\* The HTTP handler: ok says whether method, content type and length suit a
\* call (and before that the virtual host).  An upgrade request is not a call.
ServeHTTP(c, ok) ==
  /\ req[c].st = "passed" /\ req[c].kind = "http"
  /\ req' = [req EXCEPT ![c].st = IF ok /\ c \notin Sockets THEN "request" ELSE "done"]
  /\ UNCHANGED <<endpoint, listening, accepting, starts, handler, config, running, opVars>>

\* The WebSocket handler: ok says whether the origin is allowed and the
\* handshake succeeds.
Upgrade(c, ok) ==
  /\ req[c].st = "passed" /\ req[c].kind = "ws"
  /\ req' = [req EXCEPT ![c].st = IF ok THEN "upgraded" ELSE "done"]
  /\ UNCHANGED <<endpoint, listening, accepting, starts, handler, config, running, opVars>>

\* Mutant: the flag is not looked at.
Runs_Always(c) == TRUE

Runs(c) == <<req[c].kind, req[c].srv>> \in running

\* serveSingleRequest: nothing is served once the rpc.Server is stopped.
ServeSingleRequest(c) ==
  /\ req[c].st = "request"
  /\ req' = [req EXCEPT ![c].st = IF Runs(c) THEN "serving" ELSE "done"]
  /\ UNCHANGED <<endpoint, listening, accepting, starts, handler, config, running, opVars>>

\* The method returns and the response is written.
Respond(c) ==
  /\ req[c].st = "serving"
  /\ req' = [req EXCEPT ![c].st = "done"]
  /\ UNCHANGED <<endpoint, listening, accepting, starts, handler, config, running, opVars>>

\* Mutant: the flag is checked, but not under the mutex that Stop holds.
TrackCodec_Unlocked(c) ==
  /\ req[c].st = "upgraded"
  /\ req' = [req EXCEPT ![c].st = "socket", ![c].tracked = TRUE]
  /\ UNCHANGED <<endpoint, listening, accepting, starts, handler, config, running, opVars>>

\* ServeCodec: trackCodec, under s.mutex; otherwise the codec is closed at once.
TrackCodec(c) ==
  /\ req[c].st = "upgraded"
  /\ req' = [req EXCEPT ![c] =
       IF Runs(c) THEN [@ EXCEPT !.st = "socket", !.tracked = TRUE]
       ELSE [@ EXCEPT !.st = "done", !.closed = TRUE]]
  /\ UNCHANGED <<endpoint, listening, accepting, starts, handler, config, running, opVars>>

\* The codec is closed from the other side.
PeerCloses(c) ==
  /\ req[c].st = "socket" /\ ~req[c].closed
  /\ req' = [req EXCEPT ![c].closed = TRUE]
  /\ UNCHANGED <<endpoint, listening, accepting, starts, handler, config, running, opVars>>

\* ServeCodec sees the closed codec, closes the client and untracks the codec.
Untrack(c) ==
  /\ req[c].st = "socket" /\ req[c].closed
  /\ req' = [req EXCEPT ![c].st = "done", ![c].tracked = FALSE]
  /\ UNCHANGED <<endpoint, listening, accepting, starts, handler, config, running, opVars>>
-----------------------------------------------------------------------------
Operate ==
  \/ SetListenAddr \/ Start \/ StartFails \/ Stop \/ StopWS
  \/ \E k \in Kinds : Enable(k)

Operation ==
  \/ \E k \in Kinds : Install(k) \/ Detach(k) \/ StopServer(k)
  \/ Shutdown \/ Drain \/ Clear

Serve(c) ==
  \/ Accept(c) \/ LoadWs(c) \/ LoadHttp(c) \/ ServeSingleRequest(c)
  \/ \E ok \in BOOLEAN : CheckPath(c, ok) \/ ServeHTTP(c, ok) \/ Upgrade(c, ok)
  \/ Respond(c) \/ TrackCodec(c) \/ PeerCloses(c) \/ Untrack(c)

Next == Operate \/ Operation \/ \E c \in Clients : Serve(c)

Spec == Init /\ [][Next]_vars

\* The goroutine of an operation is scheduled and the shutdown timer fires;
\* nothing is assumed of the requests.
FairSpec == Spec /\ WF_vars(Operation)
-----------------------------------------------------------------------------
\* Type invariant of the endpoint and its requests.
TypeOK ==
  /\ endpoint \in BOOLEAN /\ listening \in BOOLEAN /\ accepting \in BOOLEAN /\ starts \in Nat
  /\ handler \in [Kinds -> Nat] /\ config \in [Kinds -> Nat] /\ running \subseteq Kinds \X Nat
  /\ op \in {"none", "enable", "start", "stop", "stopWS"}
  /\ pc \in {"idle", "install http", "install ws", "detach http", "stop http", "detach ws", "stop ws",
            "shutdown", "drain", "clear"}
  /\ held \in Nat
  /\ req \in [Clients -> RequestStates]

\* The handler that requests are routed to belongs to an rpc.Server that runs,
\* at every moment: no operation leaves a stopped server installed, where it
\* would accept requests and not answer them, and enableRPC would refuse.
InstalledRuns == \A k \in Kinds : handler[k] # 0 => <<k, handler[k]>> \in running

\* What is served was checked against the configuration of the rpc.Server that
\* serves it, although handler and configuration are read at different times
\* and without a lock.
ServedUnderOwnConfig ==
  \A c \in Clients : req[c].st \in {"serving", "socket"} => req[c].conf = req[c].srv

\* No connection survives the end of its server: when an rpc.Server has been
\* stopped, every connection it serves is closed, whichever of Stop and
\* ServeCodec came first.
NoOrphan ==
  \A c \in Clients :
    req[c].st = "socket" /\ <<req[c].kind, req[c].srv>> \notin running => req[c].closed

\* Every operation returns and releases h.mu, even if a method never returns.
OperationReturns == pc # "idle" ~> pc = "idle"
=============================================================================
