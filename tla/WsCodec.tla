------------------------------ MODULE WsCodec -------------------------------
(***************************************************************************)
(* A WebSocket connection: websocketCodec (rpc/websocket.go) with the parts*)
(* of jsonCodec (rpc/json.go) it builds on.  Four goroutines meet here: the*)
(* reader (in whose calls of the connection the pong handler runs), a      *)
(* writer, pingLoop, and the one that closes the codec.  Time passes in    *)
(* ticks, and only when no goroutine has anything to do at once; the peer  *)
(* answers a ping within ReplyTicks, until it dies.                        *)
(***************************************************************************)
EXTENDS Integers

CONSTANTS
  PingInterval,  \* wsPingInterval
  PongTimeout,   \* wsPongTimeout
  WriteTimeout,  \* of a write: its context's deadline, or defaultWriteTimeout
  PingWriteTimeout,  \* wsPingWriteTimeout
  ReplyTicks,    \* a ping's way to the peer and the pong's way back
  BusyTicks,     \* how long the reader may take to hand over what has arrived
  MaxBuffered    \* bound: the writes to a dead peer that still succeed

\* The peer's answer, and the reader's time to come to it, fit into the timeout;
\* one ping at a time is unanswered.
ASSUME TimeAssumption ==
  /\ PingInterval \in Nat \ {0} /\ PongTimeout \in Nat \ {0} /\ WriteTimeout \in Nat
  /\ PingWriteTimeout \in Nat /\ ReplyTicks \in Nat /\ BusyTicks \in Nat /\ MaxBuffered \in Nat
  /\ ReplyTicks < PingInterval
  /\ ReplyTicks + BusyTicks < PongTimeout

None    == -1   \* no deadline, no ping under way
Drained == -1   \* a timer that has fired and whose channel is empty

VARIABLES
  loop,      \* pingLoop
  timer,     \* pingTimer: ticks left, 0 when its value is in the channel, or Drained
  reset,     \* the buffer of pingReset holds a value
  encMu,     \* who holds encMu
  writer,    \* writeJSON: "no", "write" or "notify"
  writing,   \* how long the write under way, a message or a ping, has taken
  deadline,  \* the read deadline: ticks left, or None
  reader,    \* "read", "busy", "pong" (blocked in the pong handler) or "end"
  busy,      \* how long the reader has been busy
  closed,    \* closeCh is closed, and so is the connection
  closer,    \* close: "no", "wait" (wg.Wait) or "done"
  alive,     \* the peer answers
  age,       \* how long ago the ping was sent that the peer has not answered
  pongs,     \* pongs that have arrived and have not been read
  broken,    \* a write has failed: the connection fails all later ones
  buffered,  \* how many writes have succeeded since the peer died
  timedOut   \* a read has failed at its deadline

peerVars == <<alive, age, broken, buffered>>
codecVars == <<loop, timer, reset, encMu, writer, writing, deadline, reader, busy, closed,
          closer, pongs, timedOut, peerVars>>

CodecInit ==
  /\ loop = "select" /\ timer = PingInterval /\ reset = FALSE
  /\ encMu = "free" /\ writer = "no" /\ writing = 0
  /\ deadline = None /\ reader = "read" /\ busy = 0
  /\ closed = FALSE /\ closer = "no"
  /\ alive = TRUE /\ age = None /\ pongs = 0 /\ broken = FALSE /\ buffered = 0
  /\ timedOut = FALSE
-----------------------------------------------------------------------------
(* pingLoop: the cases of its select *)

LoopClosed ==
  /\ loop = "select" /\ closed
  /\ loop' = "end"
  /\ UNCHANGED <<timer, reset, encMu, writer, writing, deadline, reader, busy, closed, closer,
                 pongs, timedOut, peerVars>>

\* <-wc.pingReset: a timer that has fired is drained, which blocks for good if
\* its value was received before; then it starts anew.
LoopReset ==
  /\ loop = "select" /\ reset
  /\ reset' = FALSE
  /\ IF timer = Drained
     THEN loop' = "drain" /\ UNCHANGED timer
     ELSE timer' = PingInterval /\ UNCHANGED loop
  /\ UNCHANGED <<encMu, writer, writing, deadline, reader, busy, closed, closer,
                 pongs, timedOut, peerVars>>

\* <-pingTimer.C
LoopFires ==
  /\ loop = "select" /\ timer = 0
  /\ loop' = "lock" /\ timer' = Drained
  /\ UNCHANGED <<reset, encMu, writer, writing, deadline, reader, busy, closed, closer,
                 pongs, timedOut, peerVars>>

\* encMu.Lock, and the ping is being written.
LoopPing ==
  /\ loop = "lock" /\ encMu = "free"
  /\ loop' = "pinging" /\ encMu' = "loop" /\ writing' = 0
  /\ UNCHANGED <<timer, reset, writer, deadline, reader, busy, closed, closer, pongs, timedOut, peerVars>>

\* The connection takes what is written: a dead peer's for a while only.
Takes == ~closed /\ ~broken /\ (alive \/ buffered < MaxBuffered)

\* The write has succeeded ...
LoopPinged ==
  /\ loop = "pinging" /\ Takes
  /\ loop' = "ping" /\ writing' = 0
  /\ IF alive THEN age' = 0 /\ UNCHANGED buffered ELSE buffered' = buffered + 1 /\ UNCHANGED age
  /\ UNCHANGED <<timer, reset, encMu, writer, deadline, reader, busy, closed, closer, pongs, timedOut,
                 alive, broken>>

PingExpired == closed \/ broken \/ writing = PingWriteTimeout

\* ... or failed, which pingLoop does not look at.
LoopPingFails ==
  /\ loop = "pinging" /\ PingExpired
  /\ loop' = "ping" /\ writing' = 0 /\ broken' = TRUE
  /\ UNCHANGED <<timer, reset, encMu, writer, deadline, reader, busy, closed, closer, pongs, timedOut,
                 alive, age, buffered>>

\* Mutant: the timer is not started again.
LoopDeadline_OnePing ==
  /\ loop = "ping"
  /\ loop' = "select" /\ encMu' = "free"
  /\ deadline' = PongTimeout
  /\ UNCHANGED <<timer, reset, writer, writing, reader, busy, closed, closer, pongs, timedOut, peerVars>>

\* SetReadDeadline, whether or not the ping could be written; Reset
LoopDeadline ==
  /\ loop = "ping"
  /\ loop' = "select" /\ encMu' = "free"
  /\ deadline' = PongTimeout /\ timer' = PingInterval
  /\ UNCHANGED <<reset, writer, writing, reader, busy, closed, closer, pongs, timedOut, peerVars>>

\* <-wc.pongReceived: the handler returns and the reader reads on ...
LoopPong ==
  /\ loop = "select" /\ reader = "pong"
  /\ loop' = "clear" /\ reader' = "read"
  /\ UNCHANGED <<timer, reset, encMu, writer, writing, deadline, busy, closed, closer,
                 pongs, timedOut, peerVars>>

\* ... while the deadline is being lifted.
LoopClear ==
  /\ loop = "clear"
  /\ loop' = "select" /\ deadline' = None
  /\ UNCHANGED <<timer, reset, encMu, writer, writing, reader, busy, closed, closer,
                 pongs, timedOut, peerVars>>
-----------------------------------------------------------------------------
(* writeJSON *)

WriteBegins ==
  /\ writer = "no" /\ encMu = "free"
  /\ writer' = "write" /\ encMu' = "writer" /\ writing' = 0
  /\ UNCHANGED <<loop, timer, reset, deadline, reader, busy, closed, closer, pongs, timedOut, peerVars>>

WriteEnds ==
  /\ writer = "write" /\ Takes
  /\ buffered' = IF alive THEN buffered ELSE buffered + 1
  /\ writer' = "notify" /\ encMu' = "free" /\ writing' = 0
  /\ UNCHANGED <<loop, timer, reset, deadline, reader, busy, closed, closer, pongs, timedOut,
                 alive, age, broken>>

WriteExpired == closed \/ broken \/ writing = WriteTimeout

\* At its deadline, or because the connection is closed or broken.
WriteFails ==
  /\ writer = "write" /\ WriteExpired
  /\ writer' = "no" /\ encMu' = "free" /\ writing' = 0 /\ broken' = TRUE
  /\ UNCHANGED <<loop, timer, reset, deadline, reader, busy, closed, closer, pongs, timedOut,
                 alive, age, buffered>>

\* wc.pingReset <- struct{}{}, unless the buffer is full
Notify ==
  /\ writer = "notify"
  /\ writer' = "no" /\ reset' = TRUE
  /\ UNCHANGED <<loop, timer, encMu, writing, deadline, reader, busy, closed, closer, pongs, timedOut,
                 peerVars>>
-----------------------------------------------------------------------------
(* The reader: readBatch in a loop, until an error *)

\* Mutant: the handler lifts the deadline itself.
ReadPong_Direct ==
  /\ reader = "read" /\ pongs > 0 /\ ~closed /\ deadline # 0
  /\ pongs' = pongs - 1 /\ deadline' = None
  /\ UNCHANGED <<loop, timer, reset, encMu, writer, writing, reader, busy, closed, closer, timedOut, peerVars>>

\* The pong handler is called.
ReadPong ==
  /\ reader = "read" /\ pongs > 0 /\ ~closed /\ deadline # 0
  /\ pongs' = pongs - 1 /\ reader' = "pong"
  /\ UNCHANGED <<loop, timer, reset, encMu, writer, writing, deadline, busy, closed, closer, timedOut, peerVars>>

\* Mutant: the handler waits for pingLoop only.
HandlerLeaves_Never == FALSE

\* <-wc.closed()
HandlerLeaves == closed

PongAfterClose ==
  /\ reader = "pong" /\ HandlerLeaves
  /\ reader' = "read"
  /\ UNCHANGED <<loop, timer, reset, encMu, writer, writing, deadline, busy, closed, closer,
                 pongs, timedOut, peerVars>>

\* Messages that have arrived, ahead of any pong, are handed to dispatch ...
ReadMessage ==
  /\ reader = "read" /\ pongs = 0 /\ alive /\ ~closed /\ deadline # 0
  /\ reader' = "busy" /\ busy' = 0
  /\ UNCHANGED <<loop, timer, reset, encMu, writer, writing, deadline, closed, closer, pongs, timedOut, peerVars>>

\* ... and the last of them is taken.
MessageTaken ==
  /\ reader = "busy"
  /\ reader' = "read" /\ busy' = 0
  /\ UNCHANGED <<loop, timer, reset, encMu, writer, writing, deadline, closed, closer, pongs, timedOut, peerVars>>

ReadFails ==
  /\ reader = "read" /\ (closed \/ deadline = 0)
  /\ reader' = "end"
  /\ timedOut' = ~closed
  /\ UNCHANGED <<loop, timer, reset, encMu, writer, writing, deadline, busy, closed, closer, pongs, peerVars>>
-----------------------------------------------------------------------------
(* close *)

\* jsonCodec.close, then wg.Wait
CloseBegins ==
  /\ closer = "no"
  /\ closer' = "wait" /\ closed' = TRUE
  /\ UNCHANGED <<loop, timer, reset, encMu, writer, writing, deadline, reader, busy, pongs, timedOut, peerVars>>

CloseDone ==
  /\ closer = "wait" /\ loop = "end"
  /\ closer' = "done"
  /\ UNCHANGED <<loop, timer, reset, encMu, writer, writing, deadline, reader, busy, closed,
                 pongs, timedOut, peerVars>>
-----------------------------------------------------------------------------
(* External: the peer, and time *)

PeerAnswers ==
  /\ alive /\ age # None
  /\ age' = None /\ pongs' = pongs + 1
  /\ UNCHANGED <<loop, timer, reset, encMu, writer, writing, deadline, reader, busy, closed, closer,
                 timedOut, alive, broken, buffered>>

PeerDies ==
  /\ alive /\ alive' = FALSE /\ age' = None
  /\ UNCHANGED <<loop, timer, reset, encMu, writer, writing, deadline, reader, busy, closed, closer,
                 pongs, timedOut, broken, buffered>>

\* Some goroutine can go on at once, or an answer is due.
Urgent ==
  \/ loop = "select" /\ (closed \/ reset \/ timer = 0 \/ reader = "pong")
  \/ loop = "lock" /\ encMu = "free"
  \/ loop \in {"ping", "clear"}
  \/ loop = "pinging" /\ PingExpired
  \/ writer = "notify"
  \/ writer = "write" /\ WriteExpired
  \/ reader = "read" /\ (closed \/ deadline = 0 \/ pongs > 0)
  \/ reader = "pong" /\ closed
  \/ reader = "busy" /\ busy = BusyTicks
  \/ closer = "wait" /\ loop = "end"
  \/ alive /\ age = ReplyTicks

Down(t) == IF t > 0 THEN t - 1 ELSE t

Tick ==
  /\ ~Urgent
  /\ timer' = Down(timer) /\ deadline' = Down(deadline)
  /\ writing' = IF writer = "write" \/ loop = "pinging" THEN writing + 1 ELSE writing
  /\ busy' = IF reader = "busy" THEN busy + 1 ELSE busy
  /\ age' = IF age = None THEN None ELSE age + 1
  /\ UNCHANGED <<loop, reset, encMu, writer, reader, closed, closer, alive, pongs,
                 broken, buffered, timedOut>>
-----------------------------------------------------------------------------
PingLoop ==
  \/ LoopReset \/ LoopPing \/ LoopPinged \/ LoopPingFails \/ LoopDeadline
  \/ LoopPong \/ LoopClear
Write    == WriteEnds \/ WriteFails \/ Notify
Read     == ReadPong \/ PongAfterClose \/ MessageTaken \/ ReadFails

CodecNext ==
  \/ PingLoop \/ LoopFires \/ LoopClosed \/ WriteBegins \/ Write
  \/ Read \/ ReadMessage \/ CloseBegins \/ CloseDone
  \/ PeerAnswers \/ PeerDies \/ Tick

CodecSpec == CodecInit /\ [][CodecNext]_codecVars

\* The goroutines are scheduled, time passes, and a select takes each of its
\* cases that are ready again and again.  Nobody need write or close.
CodecFairSpec ==
  /\ CodecSpec
  /\ WF_codecVars(PingLoop) /\ SF_codecVars(LoopFires) /\ SF_codecVars(LoopClosed) /\ SF_codecVars(LoopPing)
  /\ WF_codecVars(Write) /\ SF_codecVars(ReadFails) /\ WF_codecVars(Read)
  /\ WF_codecVars(CloseDone) /\ WF_codecVars(PeerAnswers) /\ SF_codecVars(Tick)
-----------------------------------------------------------------------------
\* Type invariant of the connection.
CodecTypeOK ==
  /\ loop \in {"select", "drain", "lock", "pinging", "ping", "clear", "end"}
  /\ timer \in Drained..PingInterval /\ reset \in BOOLEAN
  /\ encMu \in {"free", "loop", "writer"} /\ writer \in {"no", "write", "notify"}
  /\ writing \in Nat /\ deadline \in None..PongTimeout
  /\ reader \in {"read", "busy", "pong", "end"} /\ busy \in 0..BusyTicks
  /\ closed \in BOOLEAN /\ closer \in {"no", "wait", "done"}
  /\ alive \in BOOLEAN /\ age \in None..ReplyTicks /\ pongs \in Nat
  /\ broken \in BOOLEAN /\ buffered \in 0..MaxBuffered /\ timedOut \in BOOLEAN

\* A peer that answers every ping in time is not dropped, however the answer
\* meets the setting of the deadline, a blocked write or the next ping, unless a
\* write to it has failed.
AnsweringPeerKept == timedOut => ~alive \/ broken

\* A peer that has died is noticed, although writes to it go on succeeding for a
\* while and put off the ping.
DeadPeerDropped == ~alive ~> reader = "end"

\* close returns, and the reader, wherever it is, ends.
CloseEnds == closer = "wait" ~> closer = "done" /\ reader = "end"
=============================================================================
