-------------------------- MODULE HttpStackProofs ---------------------------
(***************************************************************************)
(* Proofs about the life cycle of the endpoint, for any number of requests *)
(* and of starts.  The inductive invariant ties the three places together  *)
(* that a request reads at different times: a running rpc.Server is the    *)
(* one its configuration came with, and it is installed or about to be     *)
(* stopped by the operation under way.  The second part is about the codec *)
(* of one WebSocket (WsCodec): a deadline that pingLoop has set is lifted  *)
(* before it passes.                                                       *)
(***************************************************************************)
EXTENDS HttpStack, WsCodec, TLAPS

\* A running rpc.Server is the last one enabled, and it is either installed,
\* about to be, or held by the operation that is about to stop it.
RunInv ==
  \A k \in Kinds : \A n \in Nat : <<k, n>> \in running =>
    /\ n # 0 /\ n = config[k]
    /\ handler[k] = n \/ (pc = StopPc(k) /\ held = n) \/ pc = InstallPc(k)

\* The operation that is about to stop a server has taken its handler out, and
\* the one that is about to install a handler has made its server.
DetachInv ==
  \A k \in Kinds :
    /\ pc \in {StopPc(k), InstallPc(k)} => handler[k] = 0
    /\ pc = InstallPc(k) => <<k, config[k]>> \in running

\* A request that was let in by its path was checked against the configuration
\* of its server, unless that server has been stopped since.
ReqInv(c) ==
  /\ req[c].srv <= config[req[c].kind]
  /\ req[c].st \in {"passed", "request", "upgraded"} /\ Runs(c) => req[c].conf = req[c].srv
  /\ req[c].st \in {"serving", "socket"} => req[c].conf = req[c].srv
  /\ req[c].st = "socket" => req[c].tracked
  /\ req[c].st = "socket" /\ ~Runs(c) => req[c].closed

IInv ==
  /\ TypeOK /\ RunInv /\ DetachInv /\ InstalledRuns
  /\ \A c \in Clients : ReqInv(c)

\* The invariant holds initially.
LEMMA InitInv == Init => IInv
<1> SUFFICES ASSUME Init PROVE IInv
  OBVIOUS
<1> USE DEF Init, NoRequest, Kinds
<1>1. TypeOK BY DEF TypeOK, RequestStates
<1>2. RunInv /\ DetachInv /\ InstalledRuns BY DEF RunInv, DetachInv, InstalledRuns, StopPc, InstallPc
<1>3. \A c \in Clients : ReqInv(c) BY DEF ReqInv
<1> QED BY <1>1, <1>2, <1>3 DEF IInv

\* A step that leaves the requests, the running servers and the configuration
\* alone keeps what is known of every request.
LEMMA ReqFrame ==
  ASSUME \A c \in Clients : ReqInv(c), UNCHANGED <<req, running, config>>
  PROVE  \A c \in Clients : ReqInv(c)'
BY DEF ReqInv, Runs

\* A step of one request leaves the endpoint alone.
LEMMA EndpointFrame ==
  ASSUME RunInv, DetachInv, InstalledRuns, UNCHANGED <<handler, config, running, opVars>>
  PROVE  (RunInv /\ DetachInv /\ InstalledRuns)'
BY DEF RunInv, DetachInv, InstalledRuns, opVars, StopPc, InstallPc, Kinds

\* A step of one request d keeps ReqInv of the others.
LEMMA OtherFrame ==
  ASSUME NEW d \in Clients, \A c \in Clients : ReqInv(c), ReqInv(d)',
         UNCHANGED <<config, running>>, \A c \in Clients : c # d => req'[c] = req[c]
  PROVE  \A c \in Clients : ReqInv(c)'
BY DEF ReqInv, Runs

\* The two handlers are installed and stopped at different places.
LEMMA StopPcDiffers ==
  \A j \in Kinds, k \in Kinds :
    /\ StopPc(j) = StopPc(k) => j = k
    /\ InstallPc(j) = InstallPc(k) => j = k
    /\ StopPc(j) # InstallPc(k) /\ DetachPc(j) \notin {StopPc(k), InstallPc(k)}
    /\ StopPc(j) # "idle" /\ InstallPc(j) # "idle"
BY DEF StopPc, InstallPc, DetachPc, Kinds

\* Every operation keeps the invariant.
LEMMA OperateInv == IInv /\ Operate => IInv'
<1> SUFFICES ASSUME IInv, Operate PROVE IInv'
  OBVIOUS
<1> USE DEF IInv
<1>1. CASE SetListenAddr \/ Start
  <2> USE <1>1 DEF SetListenAddr, Start
  <2>1. TypeOK'
    <3>1. CASE SetListenAddr BY <3>1 DEF TypeOK, opVars
    <3>2. CASE Start BY <3>2 DEF TypeOK, opVars
    <3> QED BY <3>1, <3>2
  <2>2. (RunInv /\ DetachInv /\ InstalledRuns)' BY EndpointFrame
  <2>3. \A c \in Clients : ReqInv(c)' BY ReqFrame
  <2> QED BY <2>1, <2>2, <2>3
<1>2. CASE StartFails \/ Stop \/ StopWS
  <2> USE <1>2 DEF StartFails, Stop, StopWS
  <2>1. TypeOK' BY DEF TypeOK
  <2>2. (RunInv /\ DetachInv /\ InstalledRuns)'
    BY DEF RunInv, DetachInv, InstalledRuns, StopPc, InstallPc, Kinds
  <2>3. \A c \in Clients : ReqInv(c)' BY ReqFrame
  <2> QED BY <2>1, <2>2, <2>3
<1>3. ASSUME NEW k \in Kinds, Enable(k) PROVE IInv'
  <2> USE <1>3 DEF Enable, NewServer
  <2>0. config[k] \in Nat BY DEF TypeOK
  <2>1. TypeOK'
    <3>1. config' \in [Kinds -> Nat] BY DEF TypeOK
    <3>2. running' \subseteq Kinds \X Nat BY <2>0 DEF TypeOK
    <3>3. pc' \in {"install http", "install ws"} BY DEF InstallPc
    <3> QED BY <3>1, <3>2, <3>3 DEF TypeOK
  <2>2. \A n \in Nat : <<k, n>> \notin running
    BY DEF RunInv, StopPc, InstallPc
  <2>3. RunInv'
    <3> SUFFICES ASSUME NEW j \in Kinds, NEW n \in Nat, <<j, n>> \in running'
                 PROVE  /\ n # 0 /\ n = config'[j]
                        /\ handler[j] = n \/ pc' = InstallPc(j)
      BY DEF RunInv, StopPc, InstallPc
    <3>1. CASE j = k
      <4>1. n = config[k] + 1 BY <3>1, <2>2
      <4> QED BY <3>1, <4>1, <2>0 DEF TypeOK
    <3>2. CASE j # k
      <4>1. <<j, n>> \in running BY <3>2
      <4>2. config'[j] = config[j] BY <3>2 DEF TypeOK
      <4>3. pc # StopPc(j) /\ pc # InstallPc(j) BY StopPcDiffers
      <4> QED BY <4>1, <4>2, <4>3 DEF RunInv
    <3> QED BY <3>1, <3>2
  <2>4. DetachInv'
    <3>1. config'[k] = config[k] + 1 BY DEF TypeOK
    <3>2. <<k, config'[k]>> \in running' BY <3>1
    <3>3. \A j \in Kinds : pc' # StopPc(j) /\ (pc' = InstallPc(j) => j = k) BY StopPcDiffers
    <3> QED BY <3>2, <3>3 DEF DetachInv, StopPc, InstallPc
  <2>5. InstalledRuns' BY DEF InstalledRuns
  <2>6. ASSUME NEW c \in Clients PROVE ReqInv(c)'
    <3>1. req' = req /\ ReqInv(c) /\ req[c].kind \in Kinds /\ req[c].srv \in Nat
      BY DEF TypeOK, RequestStates
    <3>2. config[req[c].kind] <= config'[req[c].kind] BY <3>1, <2>0 DEF TypeOK
    <3>3. <<req[c].kind, req[c].srv>> \in running' <=> <<req[c].kind, req[c].srv>> \in running
      <4>1. CASE req[c].kind = k
        <5>1. req[c].srv # config[k] + 1 BY <4>1, <3>1, <2>0 DEF ReqInv
        <5> QED BY <5>1
      <4>2. CASE req[c].kind # k BY <4>2
      <4> QED BY <4>1, <4>2
    <3>4. req[c].srv <= config'[req[c].kind] BY <3>1, <3>2, <2>0 DEF ReqInv, TypeOK
    <3> QED BY <3>1, <3>3, <3>4 DEF ReqInv, Runs
  <2> QED BY <2>1, <2>3, <2>4, <2>5, <2>6
<1> QED BY <1>1, <1>2, <1>3 DEF Operate

\* Every step of an operation under way keeps the invariant.
LEMMA OperationInv == IInv /\ Operation => IInv'
<1> SUFFICES ASSUME IInv, Operation PROVE IInv'
  OBVIOUS
<1> USE DEF IInv
<1>1. ASSUME NEW k \in Kinds, Detach(k) PROVE IInv'
  <2> USE <1>1 DEF Detach
  <2>1. TypeOK' BY DEF TypeOK, StopPc, Kinds
  <2>2. \A j \in Kinds : j # k => handler'[j] = handler[j] BY DEF TypeOK
  <2>3. handler'[k] = 0 BY DEF TypeOK
  <2>4. \A j \in Kinds : pc # StopPc(j) /\ pc # InstallPc(j) BY StopPcDiffers
  <2>5. \A j \in Kinds : pc' # InstallPc(j) /\ (pc' = StopPc(j) => j = k) BY StopPcDiffers
  <2>6. RunInv' BY <2>2, <2>3, <2>4 DEF RunInv, StopPc, InstallPc
  <2>7. DetachInv' BY <2>3, <2>5 DEF DetachInv, StopPc, InstallPc
  <2>8. InstalledRuns'
    <3> SUFFICES ASSUME NEW j \in Kinds, handler'[j] # 0 PROVE <<j, handler'[j]>> \in running
      BY DEF InstalledRuns
    <3>1. handler'[j] = handler[j] BY <2>2, <2>3
    <3> QED BY <3>1 DEF InstalledRuns
  <2>9. \A c \in Clients : ReqInv(c)' BY ReqFrame
  <2> QED BY <2>1, <2>6, <2>7, <2>8, <2>9
<1>2. ASSUME NEW k \in Kinds, StopServer(k) PROVE IInv'
  <2> USE <1>2 DEF StopServer
  <2>a. /\ op' \in {"none", "enable", "start", "stop", "stopWS"}
        /\ pc' \in {"idle", "detach ws", "shutdown"}
    BY DEF AfterDisable, Done, TypeOK
  <2>b. \A j \in Kinds : pc' # StopPc(j) /\ pc' # InstallPc(j) BY <2>a DEF StopPc, InstallPc, Kinds
  <2>c. \A j \in Kinds : pc # InstallPc(j) /\ (pc = StopPc(j) => j = k) BY StopPcDiffers
  <2>d. handler[k] = 0 BY DEF DetachInv
  <2>1. TypeOK'
    <3>1. req' \in [Clients -> RequestStates]
      BY DEF TypeOK, RequestStates
    <3> QED BY <2>a, <3>1 DEF TypeOK
  <2>2. RunInv'
    <3> SUFFICES ASSUME NEW j \in Kinds, NEW n \in Nat, <<j, n>> \in running'
                 PROVE  n # 0 /\ n = config[j] /\ handler[j] = n
      BY DEF RunInv, StopPc, InstallPc
    <3>1. <<j, n>> \in running /\ (j # k \/ n # held) OBVIOUS
    <3> QED BY <3>1, <2>c DEF RunInv
  <2>3. DetachInv' BY <2>b DEF DetachInv, StopPc, InstallPc
  <2>4. InstalledRuns' BY <2>d DEF InstalledRuns
  <2>5. ASSUME NEW c \in Clients PROVE ReqInv(c)'
    <3>1. /\ req'[c].st = req[c].st /\ req'[c].kind = req[c].kind /\ req'[c].srv = req[c].srv
          /\ req'[c].conf = req[c].conf /\ req'[c].tracked = req[c].tracked
          /\ req[c].closed => req'[c].closed
          /\ req[c].tracked /\ req[c].kind = k /\ req[c].srv = held => req'[c].closed
      BY DEF TypeOK, RequestStates
    <3>2. <<req[c].kind, req[c].srv>> \in running' => <<req[c].kind, req[c].srv>> \in running
      OBVIOUS
    <3>3. <<req[c].kind, req[c].srv>> \in running /\ <<req[c].kind, req[c].srv>> \notin running'
            => req[c].kind = k /\ req[c].srv = held
      OBVIOUS
    <3>4. ReqInv(c) /\ config' = config OBVIOUS
    <3>5. Runs(c)' <=> <<req[c].kind, req[c].srv>> \in running' BY <3>1 DEF Runs
    <3> QED BY <3>1, <3>2, <3>3, <3>4, <3>5 DEF ReqInv, Runs
  <2> QED BY <2>1, <2>2, <2>3, <2>4, <2>5
<1>3. CASE Shutdown \/ Drain \/ Clear
  <2> USE <1>3 DEF Shutdown, Drain, Clear, Done
  <2>1. TypeOK' BY DEF TypeOK
  <2>2. (RunInv /\ DetachInv /\ InstalledRuns)'
    BY DEF RunInv, DetachInv, InstalledRuns, StopPc, InstallPc, Kinds
  <2>3. \A c \in Clients : ReqInv(c)' BY ReqFrame
  <2> QED BY <2>1, <2>2, <2>3
<1>4. ASSUME NEW k \in Kinds, Install(k) PROVE IInv'
  <2> USE <1>4 DEF Install, Done
  <2>1. TypeOK' BY DEF TypeOK
  <2>2. \A j \in Kinds : pc' # StopPc(j) /\ pc' # InstallPc(j) BY StopPcDiffers
  <2>3. \A j \in Kinds : pc # StopPc(j) /\ (pc = InstallPc(j) => j = k) BY StopPcDiffers
  <2>4. handler'[k] = config[k] /\ \A j \in Kinds : j # k => handler'[j] = handler[j]
    BY DEF TypeOK
  <2>5. RunInv' BY <2>3, <2>4 DEF RunInv, StopPc, InstallPc
  <2>6. DetachInv' BY <2>2 DEF DetachInv, StopPc, InstallPc
  <2>7. <<k, config[k]>> \in running BY DEF DetachInv
  <2>8. InstalledRuns' BY <2>4, <2>7 DEF InstalledRuns
  <2>9. \A c \in Clients : ReqInv(c)' BY ReqFrame
  <2> QED BY <2>1, <2>5, <2>6, <2>8, <2>9
<1> QED BY <1>1, <1>2, <1>3, <1>4 DEF Operation

\* Every step of a request keeps the invariant.
LEMMA ServeInv == ASSUME NEW d \in Clients PROVE IInv /\ Serve(d) => IInv'
<1> SUFFICES ASSUME IInv, Serve(d) PROVE IInv'
  OBVIOUS
<1> USE DEF IInv
<1>0. /\ UNCHANGED <<endpoint, listening, accepting, starts, handler, config, running, opVars>>
      /\ \A c \in Clients : c # d => req'[c] = req[c]
  BY DEF Serve, Accept, LoadWs, LoadHttp, ServeSingleRequest, CheckPath, ServeHTTP, Upgrade, Respond,
         TrackCodec, PeerCloses, Untrack, TypeOK, RequestStates
<1>1. TypeOK'
  <2>1. req' \in [Clients -> RequestStates]
    <3>0. /\ starts \in Nat /\ handler["ws"] \in Nat /\ handler["http"] \in Nat
          /\ config[req[d].kind] \in Nat /\ req \in [Clients -> RequestStates]
      BY DEF TypeOK, RequestStates, Kinds
    <3> HIDE DEF IInv
    <3>a. req[d] \in RequestStates /\ DOMAIN req = Clients BY <3>0
    <3>b. req'[d] \in RequestStates
      <4> USE <3>0, <3>a DEF RequestStates
      <4>1. CASE Accept(d) BY <4>1 DEF Accept
      <4>2. CASE LoadWs(d)
        <5>1. CASE handler["ws"] # 0 /\ d \in Sockets BY <4>2, <5>1 DEF LoadWs, Kinds
        <5>2. CASE ~(handler["ws"] # 0 /\ d \in Sockets) BY <4>2, <5>2 DEF LoadWs
        <5> QED BY <5>1, <5>2
      <4>3. CASE LoadHttp(d)
        <5>1. CASE handler["http"] # 0 BY <4>3, <5>1 DEF LoadHttp, Kinds
        <5>2. CASE handler["http"] = 0 BY <4>3, <5>2 DEF LoadHttp
        <5> QED BY <5>1, <5>2
      <4>4. CASE ServeSingleRequest(d) BY <4>4 DEF ServeSingleRequest
      <4>5. ASSUME NEW ok \in BOOLEAN, CheckPath(d, ok) PROVE req'[d] \in RequestStates
        BY <4>5 DEF CheckPath
      <4>a. ASSUME NEW ok \in BOOLEAN, ServeHTTP(d, ok) PROVE req'[d] \in RequestStates
        BY <4>a DEF ServeHTTP
      <4>b. ASSUME NEW ok \in BOOLEAN, Upgrade(d, ok) PROVE req'[d] \in RequestStates
        BY <4>b DEF Upgrade
      <4>6. CASE Respond(d) BY <4>6 DEF Respond
      <4>7. CASE TrackCodec(d) BY <4>7 DEF TrackCodec
      <4>8. CASE PeerCloses(d) BY <4>8 DEF PeerCloses
      <4>9. CASE Untrack(d) BY <4>9 DEF Untrack
      <4> QED BY <4>1, <4>2, <4>3, <4>4, <4>5, <4>6, <4>7, <4>8, <4>9, <4>a, <4>b DEF Serve
    <3>c. req' = [c \in Clients |-> req'[c]]
      BY <3>0 DEF Serve, Accept, LoadWs, LoadHttp, ServeSingleRequest, CheckPath, ServeHTTP, Upgrade, Respond,
                  TrackCodec, PeerCloses, Untrack
    <3> QED BY <1>0, <3>0, <3>b, <3>c
  <2> QED BY <1>0, <2>1 DEF TypeOK, opVars
<1>2. (RunInv /\ DetachInv /\ InstalledRuns)' BY <1>0, EndpointFrame
<1>3. ReqInv(d)'
  <2> USE <1>0 DEF ReqInv, Runs
  <2>0. /\ ReqInv(d) /\ req \in [Clients -> RequestStates]
        /\ config' = config /\ running' = running
    BY DEF TypeOK
  <2> USE DEF RequestStates
  <2>1. CASE Accept(d) BY <2>0, <2>1 DEF Accept
  <2>2. CASE LoadWs(d)
    <3>1. handler["ws"] \in Nat /\ config["ws"] \in Nat
      BY DEF TypeOK, Kinds
    <3>2. handler["ws"] # 0 => handler["ws"] = config["ws"]
      BY <3>1 DEF InstalledRuns, RunInv, Kinds
    <3> QED BY <3>2, <2>0, <2>2, <3>1 DEF LoadWs
  <2>3. CASE LoadHttp(d)
    <3>1. handler["http"] \in Nat /\ config["http"] \in Nat
      BY DEF TypeOK, Kinds
    <3>2. handler["http"] # 0 => handler["http"] = config["http"]
      BY <3>1 DEF InstalledRuns, RunInv, Kinds
    <3> QED BY <3>2, <2>0, <2>3, <3>1 DEF LoadHttp
  <2>4. CASE ServeSingleRequest(d) BY <2>0, <2>4 DEF ServeSingleRequest
  <2>5. ASSUME NEW ok \in BOOLEAN, CheckPath(d, ok) PROVE ReqInv(d)'
    <3>1. <<req[d].kind, req[d].srv>> \in running => req[d].srv = config[req[d].kind]
      BY <2>0 DEF RunInv
    <3> QED BY <2>0, <2>5, <3>1 DEF CheckPath
  <2>a. ASSUME NEW ok \in BOOLEAN, ServeHTTP(d, ok) PROVE ReqInv(d)'
    BY <2>0, <2>a DEF ServeHTTP
  <2>b. ASSUME NEW ok \in BOOLEAN, Upgrade(d, ok) PROVE ReqInv(d)'
    BY <2>0, <2>b DEF Upgrade
  <2>6. CASE Respond(d) BY <2>0, <2>6 DEF Respond
  <2>7. CASE TrackCodec(d) BY <2>0, <2>7 DEF TrackCodec
  <2>8. CASE PeerCloses(d) BY <2>0, <2>8 DEF PeerCloses
  <2>9. CASE Untrack(d) BY <2>0, <2>9 DEF Untrack
  <2> QED BY <2>1, <2>2, <2>3, <2>4, <2>5, <2>6, <2>7, <2>8, <2>9, <2>a, <2>b DEF Serve
<1>4. \A c \in Clients : ReqInv(c)' BY <1>0, <1>3, OtherFrame
<1> QED BY <1>1, <1>2, <1>4

\* The invariant is inductive.
LEMMA NextInv == IInv /\ [Next]_vars => IInv'
<1>1. IInv /\ Next => IInv' BY OperateInv, OperationInv, ServeInv DEF Next
<1>2. IInv /\ UNCHANGED vars => IInv'
  <2> SUFFICES ASSUME IInv, UNCHANGED vars PROVE IInv'
    OBVIOUS
  <2> USE DEF IInv, vars
  <2>1. TypeOK' BY DEF TypeOK, opVars
  <2>2. (RunInv /\ DetachInv /\ InstalledRuns)' BY EndpointFrame
  <2>3. \A c \in Clients : ReqInv(c)' BY ReqFrame
  <2> QED BY <2>1, <2>2, <2>3
<1> QED BY <1>1, <1>2

\* The invariant holds in every reachable state.
THEOREM Invariance == Spec => []IInv
BY InitInv, NextInv, PTL DEF Spec

\* Type correctness of the endpoint and its requests.
THEOREM TypeCorrect == Spec => []TypeOK
<1>1. IInv => TypeOK BY DEF IInv
<1> QED BY <1>1, Invariance, PTL

\* The installed handlers belong to rpc.Servers that run (enableRPC, enableWS,
\* disableRPC, disableWS and doStop together).
THEOREM HandlersRun == Spec => []InstalledRuns
<1>1. IInv => InstalledRuns BY DEF IInv
<1> QED BY <1>1, Invariance, PTL

\* ServeHTTP, which reads handler and configuration without the lock, serves
\* nothing under the configuration of another rpc.Server.
THEOREM OwnConfig == Spec => []ServedUnderOwnConfig
<1>1. IInv => ServedUnderOwnConfig BY DEF IInv, ReqInv, ServedUnderOwnConfig
<1> QED BY <1>1, Invariance, PTL

\* rpc.Server.Stop and ServeCodec, in either order, leave no connection open on
\* a server that was stopped.
THEOREM OrphanFree == Spec => []NoOrphan
<1>1. IInv => NoOrphan BY DEF IInv, ReqInv, Runs, NoOrphan
<1> QED BY <1>1, Invariance, PTL
-----------------------------------------------------------------------------
(* A WebSocket that the endpoint serves: its codec, in time *)

\* The timer's channel is drained only between its firing and the next ping; no
\* answer of a dead peer is waited for.
TimerInv ==
  /\ timer = Drained <=> loop \in {"lock", "pinging", "ping"}
  /\ loop # "drain"
  /\ loop = "end" => closed
  /\ ~alive => age = None

\* The peer can be heard.
Heard == alive /\ ~broken /\ ~closed

\* A pong will be read before the deadline: the peer answers in time, or has
\* answered and the reader comes to it in time.
PongDue ==
  \/ age # None /\ deadline > ReplyTicks - age + BusyTicks
  \/ pongs > 0 /\ deadline > IF reader = "busy" THEN BusyTicks - busy ELSE 0

\* The deadline that a ping sets is lifted in time, or the reader does not read
\* meanwhile: it waits in the pong handler for the loop, which itself waits for
\* encMu.
DeadlineInv == Heard =>
  /\ reader # "end"
  /\ loop = "ping" => age = 0 \/ pongs > 0 \/ reader = "pong"
  /\ deadline = None \/ loop \in {"ping", "clear"} \/ reader = "pong" \/ PongDue
  /\ deadline = 0 => loop \in {"lock", "pinging", "ping"} /\ reader = "pong"

WsInv == CodecTypeOK /\ TimerInv /\ DeadlineInv /\ AnsweringPeerKept

\* The values that timers, deadlines and counters are set to.
LEMMA WsRanges ==
  /\ PingInterval \in Drained..PingInterval /\ Drained \in Drained..PingInterval
  /\ PongTimeout \in None..PongTimeout /\ None \in None..PongTimeout
  /\ None \in None..ReplyTicks /\ 0 \in None..ReplyTicks
  /\ 0 \in 0..BusyTicks /\ 0 \in 0..MaxBuffered /\ 0 \in Nat
  /\ PingInterval # Drained
BY TimeAssumption DEF None, Drained

\* The invariant holds initially.
LEMMA WsInitInv == CodecInit => WsInv
<1> SUFFICES ASSUME CodecInit PROVE WsInv OBVIOUS
<1>1. CodecTypeOK BY WsRanges DEF CodecInit, CodecTypeOK
<1>2. TimerInv BY WsRanges DEF CodecInit, TimerInv, Drained
<1>3. DeadlineInv /\ AnsweringPeerKept
  BY DEF CodecInit, DeadlineInv, Heard, None, AnsweringPeerKept
<1> QED BY <1>1, <1>2, <1>3 DEF WsInv

\* So far the peer was heard in time: ReadFails finds no deadline that has passed.
LEMMA WsKept ==
  ASSUME CodecTypeOK, DeadlineInv, AnsweringPeerKept, CodecNext
  PROVE  AnsweringPeerKept'
<1>1. CASE ReadFails
  <2>1. reader = "read" /\ (closed \/ deadline = 0) /\ timedOut' = ~closed /\ UNCHANGED <<alive, broken>>
    BY <1>1 DEF ReadFails, peerVars
  <2> QED BY <2>1 DEF AnsweringPeerKept, DeadlineInv, Heard, CodecTypeOK
<1>2. CASE ~ReadFails
  <2>1. UNCHANGED timedOut /\ (~alive => ~alive') /\ (broken => broken')
    BY <1>2 DEF CodecNext, PingLoop, Write, Read, LoopReset, LoopPing, LoopPinged, LoopPingFails, LoopDeadline,
       LoopPong, LoopClear, LoopFires, LoopClosed, WriteBegins, WriteEnds, WriteFails,
       Notify, ReadPong, PongAfterClose, MessageTaken, ReadMessage, CloseBegins,
       CloseDone, PeerAnswers, PeerDies, Tick, peerVars
  <2> QED BY <2>1 DEF AnsweringPeerKept
<1> QED BY <1>1, <1>2

\* Every step keeps the types: time stops at the bounds because something is then
\* due at once.
LEMMA WsType ==
  ASSUME CodecTypeOK, TimerInv, CodecNext
  PROVE  CodecTypeOK'
<1> USE TimeAssumption DEF CodecTypeOK, None, Drained, peerVars, TimerInv
<1>1. CASE LoopReset BY <1>1, WsRanges DEF LoopReset
<1>2. CASE LoopPing BY <1>2 DEF LoopPing
<1>3. CASE LoopDeadline BY <1>3 DEF LoopDeadline
<1>4. CASE LoopPong BY <1>4 DEF LoopPong
<1>5. CASE LoopClear BY <1>5 DEF LoopClear
<1>6. CASE LoopFires BY <1>6 DEF LoopFires
<1>7. CASE LoopClosed BY <1>7 DEF LoopClosed
<1>8. CASE WriteBegins BY <1>8 DEF WriteBegins
<1>9. CASE WriteEnds BY <1>9 DEF WriteEnds, Takes
<1>10. CASE WriteFails BY <1>10 DEF WriteFails, WriteExpired
<1>11. CASE Notify BY <1>11 DEF Notify
<1>12. CASE ReadPong BY <1>12 DEF ReadPong
<1>13. CASE PongAfterClose BY <1>13 DEF PongAfterClose, HandlerLeaves
<1>14. CASE MessageTaken BY <1>14 DEF MessageTaken
<1>15. CASE ReadFails BY <1>15 DEF ReadFails
<1>16. CASE ReadMessage BY <1>16 DEF ReadMessage
<1>17. CASE CloseBegins BY <1>17 DEF CloseBegins
<1>18. CASE CloseDone BY <1>18 DEF CloseDone
<1>19. CASE PeerAnswers BY <1>19 DEF PeerAnswers
<1>20. CASE PeerDies
  <2>1. age' \in None..ReplyTicks /\ alive' \in BOOLEAN BY <1>20, WsRanges DEF PeerDies
  <2>2. UNCHANGED <<loop, timer, reset, encMu, writer, writing, deadline, reader, busy, closed, closer,
                    pongs, timedOut, broken, buffered>>
    BY <1>20 DEF PeerDies
  <2> QED BY <2>1, <2>2
<1>22. CASE LoopPinged BY <1>22 DEF LoopPinged, Takes
<1>23. CASE LoopPingFails BY <1>23 DEF LoopPingFails
<1>21. CASE Tick
  <2>1. timer' \in Drained..PingInterval /\ deadline' \in None..PongTimeout
    BY <1>21 DEF Tick, Down
  <2>2. writing' \in Nat BY <1>21 DEF Tick
  <2>3. busy' \in 0..BusyTicks BY <1>21 DEF Tick, Urgent
  <2>4. age' \in None..ReplyTicks BY <1>21 DEF Tick, Urgent
  <2>5. UNCHANGED <<loop, reset, encMu, writer, reader, closed, closer, alive, pongs,
                    broken, buffered, timedOut>>
    BY <1>21 DEF Tick
  <2> QED BY <2>1, <2>2, <2>3, <2>4, <2>5
<1> QED BY <1>1, <1>2, <1>3, <1>4, <1>5, <1>6, <1>7, <1>8, <1>9, <1>10, <1>11, <1>12, <1>13, <1>14, <1>15, <1>16, <1>17, <1>18, <1>19, <1>20, <1>21, <1>22, <1>23 DEF CodecNext, PingLoop, Write, Read

\* pingLoop never finds its timer drained when a write resets it.
LEMMA WsTimer ==
  ASSUME CodecTypeOK, TimerInv, CodecNext
  PROVE  TimerInv'
<1> USE TimeAssumption DEF CodecTypeOK, None, Drained, peerVars, TimerInv
<1>1. CASE LoopReset BY <1>1 DEF LoopReset
<1>2. CASE LoopPing BY <1>2 DEF LoopPing
<1>3. CASE LoopDeadline BY <1>3 DEF LoopDeadline
<1>4. CASE LoopPong BY <1>4 DEF LoopPong
<1>5. CASE LoopClear BY <1>5 DEF LoopClear
<1>6. CASE LoopFires BY <1>6 DEF LoopFires
<1>7. CASE LoopClosed BY <1>7 DEF LoopClosed
<1>8. CASE WriteBegins BY <1>8 DEF WriteBegins
<1>9. CASE WriteEnds BY <1>9 DEF WriteEnds, Takes
<1>10. CASE WriteFails BY <1>10 DEF WriteFails, WriteExpired
<1>11. CASE Notify BY <1>11 DEF Notify
<1>12. CASE ReadPong BY <1>12 DEF ReadPong
<1>13. CASE PongAfterClose BY <1>13 DEF PongAfterClose, HandlerLeaves
<1>14. CASE MessageTaken BY <1>14 DEF MessageTaken
<1>15. CASE ReadFails BY <1>15 DEF ReadFails
<1>16. CASE ReadMessage BY <1>16 DEF ReadMessage
<1>17. CASE CloseBegins BY <1>17 DEF CloseBegins
<1>18. CASE CloseDone BY <1>18 DEF CloseDone
<1>19. CASE PeerAnswers BY <1>19 DEF PeerAnswers
<1>20. CASE PeerDies BY <1>20 DEF PeerDies
<1>22. CASE LoopPinged BY <1>22 DEF LoopPinged, Takes
<1>23. CASE LoopPingFails BY <1>23 DEF LoopPingFails
<1>21. CASE Tick BY <1>21 DEF Tick, Down, Urgent, WriteExpired, PingExpired
<1> QED BY <1>1, <1>2, <1>3, <1>4, <1>5, <1>6, <1>7, <1>8, <1>9, <1>10, <1>11, <1>12, <1>13, <1>14, <1>15, <1>16, <1>17, <1>18, <1>19, <1>20, <1>21, <1>22, <1>23 DEF CodecNext, PingLoop, Write, Read

\* Every step keeps the deadline ahead of the pong that lifts it.
LEMMA WsDeadline ==
  ASSUME CodecTypeOK, TimerInv, DeadlineInv, CodecNext
  PROVE  DeadlineInv'
<1> USE TimeAssumption DEF CodecTypeOK, None, Drained, peerVars, TimerInv, DeadlineInv, Heard, PongDue
<1>1. CASE LoopReset BY <1>1 DEF LoopReset
<1>2. CASE LoopPing BY <1>2 DEF LoopPing
<1>3. CASE LoopDeadline BY <1>3 DEF LoopDeadline
<1>4. CASE LoopPong BY <1>4 DEF LoopPong
<1>5. CASE LoopClear BY <1>5 DEF LoopClear
<1>6. CASE LoopFires BY <1>6 DEF LoopFires
<1>7. CASE LoopClosed BY <1>7 DEF LoopClosed
<1>8. CASE WriteBegins BY <1>8 DEF WriteBegins
<1>9. CASE WriteEnds BY <1>9 DEF WriteEnds, Takes
<1>10. CASE WriteFails BY <1>10 DEF WriteFails, WriteExpired
<1>11. CASE Notify BY <1>11 DEF Notify
<1>12. CASE ReadPong BY <1>12 DEF ReadPong
<1>13. CASE PongAfterClose BY <1>13 DEF PongAfterClose, HandlerLeaves
<1>14. CASE MessageTaken BY <1>14 DEF MessageTaken
<1>15. CASE ReadFails BY <1>15 DEF ReadFails
<1>16. CASE ReadMessage BY <1>16 DEF ReadMessage
<1>17. CASE CloseBegins BY <1>17 DEF CloseBegins
<1>18. CASE CloseDone BY <1>18 DEF CloseDone
<1>19. CASE PeerAnswers BY <1>19 DEF PeerAnswers
<1>20. CASE PeerDies BY <1>20 DEF PeerDies
<1>22. CASE LoopPinged BY <1>22 DEF LoopPinged, Takes
<1>23. CASE LoopPingFails BY <1>23 DEF LoopPingFails
<1>21. CASE Tick BY <1>21 DEF Tick, Down, Urgent, WriteExpired, PingExpired
<1> QED BY <1>1, <1>2, <1>3, <1>4, <1>5, <1>6, <1>7, <1>8, <1>9, <1>10, <1>11, <1>12, <1>13, <1>14, <1>15, <1>16, <1>17, <1>18, <1>19, <1>20, <1>21, <1>22, <1>23 DEF CodecNext, PingLoop, Write, Read

\* The invariant of the codec holds in every reachable state.
LEMMA WsInvariance == CodecSpec => []WsInv
<1>1. CodecInit => WsInv BY WsInitInv
<1>2. WsInv /\ [CodecNext]_codecVars => WsInv'
  <2>1. CASE CodecNext BY <2>1, WsType, WsTimer, WsDeadline, WsKept DEF WsInv
  <2>2. CASE UNCHANGED codecVars
    BY <2>2 DEF codecVars, peerVars, WsInv, CodecTypeOK, TimerInv, DeadlineInv, Heard, PongDue,
       AnsweringPeerKept
  <2> QED BY <2>1, <2>2
<1> QED BY <1>1, <1>2, PTL DEF CodecSpec

\* Type correctness of a WebSocket's codec (websocketCodec, jsonCodec).
THEOREM WsTypeCorrect == CodecSpec => []CodecTypeOK
<1>1. WsInv => CodecTypeOK BY DEF WsInv
<1> QED BY <1>1, WsInvariance, PTL

\* A peer that answers in time is not dropped by the read deadline of pingLoop,
\* for all intervals and timeouts in which the answer fits, however the pong meets
\* a busy reader, a write that holds encMu, or the next ping.
THEOREM PeerKept == CodecSpec => []AnsweringPeerKept
<1>1. WsInv => AnsweringPeerKept BY DEF WsInv
<1> QED BY <1>1, WsInvariance, PTL
=============================================================================
