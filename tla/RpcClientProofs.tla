-------------------------- MODULE RpcClientProofs ---------------------------
(***************************************************************************)
(* The client's safety for any number of calls and connections.  The       *)
(* argument connects four pieces of state: who holds the write lock        *)
(* (LockInv), which channels are still open (RespInv), what dispatch may   *)
(* assume when it finishes a reconnect (RecInv), and which connections can *)
(* carry an answer (WireInv, ConnInv).                                     *)
(***************************************************************************)
EXTENDS RpcClient, TLAPS

\* dispatch received a new connection and still closes the old one.
Rec == disp \in {"recWait", "recDrain"}

LockInv ==
  /\ free <=> lastOp = None
  /\ free => reqSent = "empty"
  /\ \A c \in Calls : caller[c] \in {"write", "dial", "offer", "sent"} =>
       lastOp = c /\ reqSent = "empty"
  /\ reqSent = "err" => caller[lastOp] = "returned"

RespInv(c) ==
  /\ c \in respWait => resp[c] = "open"
  /\ c \in respWait \/ resp[c] # "open" => caller[c] \notin {"off", "idle", "init"}
  /\ caller[c] \in {"write", "dial", "offer"} => resp[c] = "open" \/ Closing
  /\ disp = "loop" /\ reading /\ caller[c] \in {"write", "dial", "offer"} => c \in respWait

RecInv ==
  /\ Rec => /\ lastOp \in Calls
            /\ resp[lastOp] = "open"
            /\ caller[lastOp] \notin {"off", "idle", "init"}
            /\ caller[lastOp] = "returned" => reqSent = "err"
  /\ disp \in {"quitWait", "quitDrain"} => respWait = {}

WireInv(c) ==
  /\ \A n \in Conns : <<c, n>> \in wire =>
       /\ caller[c] \in {"sent", "wait", "timeout", "returned"}
       /\ n <= conn \/ (Rec /\ n = next /\ c = lastOp)
  /\ reader.st = "op" /\ reader.msg = <<"response", c>> =>
       caller[c] \in {"sent", "wait", "timeout", "returned"} /\ <<c, conn>> \notin wire
  /\ reader.st = "op" /\ reader.msg = <<"call", c>> => caller[c] = "off"

ConnInv ==
  /\ conn <= dialed
  /\ Rec => next \in Conns /\ conn < next /\ next <= dialed
  /\ writeConn <= conn \/ (Rec /\ writeConn = next)
  /\ \A c \in Calls : caller[c] = "offer" =>
       conn < dialed /\ (Rec => next < dialed)

IInv ==
  /\ TypeOK /\ LockInv /\ RecInv /\ ConnInv
  /\ NoPanic /\ NoLeak /\ AnswerAwaited
  /\ \A c \in Calls : RespInv(c) /\ WireInv(c)

\* The state of a read loop that has just been started.
LEMMA ReadingFacts == Reading \in ReaderState /\ Reading.st = "reading"
BY DEF Reading, ReaderState

\* The shapes of the messages a connection carries.
LEMMA MessageFacts ==
  /\ \A c \in Calls : <<"response", c>> \in Messages
  /\ \A c \in Reverse : <<"call", c>> \in Messages
  /\ \A m \in Messages :
       \/ m[1] = "response" /\ m[2] \in Calls /\ m = <<"response", m[2]>>
       \/ m[1] = "call" /\ m[2] \in Reverse /\ m = <<"call", m[2]>>
BY DEF Messages

\* What a message that was read says, and how reader changes its state.
LEMMA ReaderFacts ==
  ASSUME TypeOK
  PROVE  /\ reader.st = "op" => reader.msg \in Messages
         /\ \A st \in {"reading", "op", "err", "done"} :
              /\ [reader EXCEPT !.st = st] \in ReaderState
              /\ [reader EXCEPT !.st = st].st = st
         /\ \A m \in Messages :
              /\ [st |-> "op", msg |-> m] \in ReaderState
              /\ [st |-> "op", msg |-> m].msg = m
              /\ m # None
BY NoneAssumption DEF TypeOK, ReaderState

\* A freshly dialled client satisfies the inductive invariant.
LEMMA InitIInv == Init => IInv
<1> SUFFICES ASSUME Init PROVE IInv OBVIOUS
<1> USE CallsAssumption, NoneAssumption, ConnsAssumption, ReadingFacts DEF Init
<1>1. TypeOK
  <2>1. 1 \in Conns /\ {1} \subseteq 1..1 BY DEF Conns
  <2>2. caller \in [Calls -> {"off", "idle"}] OBVIOUS
  <2>3. reader \in ReaderState /\ reader.st # "op" OBVIOUS
  <2> QED BY <2>1, <2>2, <2>3 DEF TypeOK
<1>2. LockInv /\ RecInv /\ ConnInv BY DEF LockInv, RecInv, ConnInv, Rec
<1>3. NoPanic /\ NoLeak /\ AnswerAwaited
  BY DEF NoPanic, NoLeak, AnswerAwaited, DidClose
<1>4. ASSUME NEW c \in Calls PROVE RespInv(c) /\ WireInv(c)
  BY DEF RespInv, WireInv, Rec, Conns
<1> QED BY <1>1, <1>2, <1>3, <1>4 DEF IInv

\* Every step of the callers, dispatch, the reader and the network preserves it.
LEMMA Inductive == IInv /\ [Next]_vars => IInv'
<1> SUFFICES ASSUME IInv, [Next]_vars PROVE IInv' OBVIOUS
<1> USE CallsAssumption, NoneAssumption, ConnsAssumption
        DEF IInv, Rec, Closing, DidClose, Conns, dispVars, callVars, netVars
<1>1. ASSUME NEW k \in Calls, Begin(k) PROVE IInv'
  <2> USE <1>1 DEF Begin, Goes
  <2>1. TypeOK' BY DEF TypeOK
  <2>2. LockInv' BY DEF TypeOK, LockInv, RespInv, WireInv
  <2>3. RecInv' BY DEF TypeOK, LockInv, RecInv, RespInv, WireInv
  <2>4. ConnInv' BY DEF TypeOK, ConnInv, LockInv, WireInv
  <2>5. NoPanic' BY DEF TypeOK, NoPanic, LockInv, RecInv, RespInv
  <2>6. NoLeak' BY DEF TypeOK, NoLeak, LockInv, RecInv, RespInv, WireInv
  <2>7. ASSUME NEW c \in Calls PROVE RespInv(c)'
    BY DEF TypeOK, LockInv, RecInv, RespInv, WireInv
  <2>8. ASSUME NEW c \in Calls PROVE WireInv(c)'
    BY DEF TypeOK, LockInv, RecInv, ConnInv, WireInv
  <2>9. AnswerAwaited' BY DEF TypeOK, AnswerAwaited, Answering, LockInv, RecInv, ConnInv, RespInv, WireInv
  <2> QED BY <2>1, <2>2, <2>3, <2>4, <2>5, <2>6, <2>7, <2>8, <2>9
<1>2. ASSUME NEW k \in Calls, SendInit(k) PROVE IInv'
  <2> USE <1>2 DEF SendInit, Goes
  <2>1. TypeOK' BY DEF TypeOK
  <2>2. LockInv' BY DEF TypeOK, LockInv, RespInv, WireInv
  <2>3. RecInv' BY DEF TypeOK, LockInv, RecInv, RespInv, WireInv
  <2>4. ConnInv' BY DEF TypeOK, ConnInv, LockInv, WireInv
  <2>5. NoPanic' BY DEF TypeOK, NoPanic, LockInv, RecInv, RespInv
  <2>6. NoLeak' BY DEF TypeOK, NoLeak, LockInv, RecInv, RespInv, WireInv
  <2>7. ASSUME NEW c \in Calls PROVE RespInv(c)'
    BY DEF TypeOK, LockInv, RecInv, RespInv, WireInv
  <2>8. ASSUME NEW c \in Calls PROVE WireInv(c)'
    BY DEF TypeOK, LockInv, RecInv, ConnInv, WireInv
  <2>9. AnswerAwaited' BY DEF TypeOK, AnswerAwaited, Answering, LockInv, RecInv, ConnInv, RespInv, WireInv
  <2> QED BY <2>1, <2>2, <2>3, <2>4, <2>5, <2>6, <2>7, <2>8, <2>9
<1>3. ASSUME NEW k \in Calls, SendAborted(k) PROVE IInv'
  <2> USE <1>3 DEF SendAborted, Returns
  <2>1. TypeOK' BY DEF TypeOK
  <2>2. LockInv' BY DEF TypeOK, LockInv, RespInv, WireInv
  <2>3. RecInv' BY DEF TypeOK, LockInv, RecInv, RespInv, WireInv
  <2>4. ConnInv' BY DEF TypeOK, ConnInv, LockInv, WireInv
  <2>5. NoPanic' BY DEF TypeOK, NoPanic, LockInv, RecInv, RespInv
  <2>6. NoLeak' BY DEF TypeOK, NoLeak, LockInv, RecInv, RespInv, WireInv
  <2>7. ASSUME NEW c \in Calls PROVE RespInv(c)'
    BY DEF TypeOK, LockInv, RecInv, RespInv, WireInv
  <2>8. ASSUME NEW c \in Calls PROVE WireInv(c)'
    BY DEF TypeOK, LockInv, RecInv, ConnInv, WireInv
  <2>9. AnswerAwaited' BY DEF TypeOK, AnswerAwaited, Answering, LockInv, RecInv, ConnInv, RespInv, WireInv
  <2> QED BY <2>1, <2>2, <2>3, <2>4, <2>5, <2>6, <2>7, <2>8, <2>9
<1>4. ASSUME NEW k \in Calls, WriteOk(k) PROVE IInv'
  <2> USE <1>4 DEF WriteOk, Goes
  <2>1. TypeOK' BY DEF TypeOK, LockInv, RecInv, ConnInv, WireInv
  <2>2. LockInv' BY DEF TypeOK, LockInv, RespInv, WireInv
  <2>3. RecInv' BY DEF TypeOK, LockInv, RecInv, RespInv, WireInv
  <2>4. ConnInv' BY DEF TypeOK, ConnInv, LockInv, WireInv
  <2>5. NoPanic' BY DEF TypeOK, NoPanic, LockInv, RecInv, RespInv
  <2>6. NoLeak' BY DEF TypeOK, NoLeak, LockInv, RecInv, RespInv, WireInv
  <2>7. ASSUME NEW c \in Calls PROVE RespInv(c)'
    BY DEF TypeOK, LockInv, RecInv, RespInv, WireInv
  <2>8. ASSUME NEW c \in Calls PROVE WireInv(c)'
    BY DEF TypeOK, LockInv, RecInv, ConnInv, WireInv
  <2>9. AnswerAwaited' BY DEF TypeOK, AnswerAwaited, Answering, LockInv, RecInv, ConnInv, RespInv, WireInv
  <2> QED BY <2>1, <2>2, <2>3, <2>4, <2>5, <2>6, <2>7, <2>8, <2>9
<1>5. ASSUME NEW k \in Calls, WriteFails(k) PROVE IInv'
  <2> USE <1>5 DEF WriteFails, Goes
  <2>1. TypeOK' BY DEF TypeOK, LockInv, RecInv, ConnInv, WireInv
  <2>2. LockInv' BY DEF TypeOK, LockInv, RespInv, WireInv
  <2>3. RecInv' BY DEF TypeOK, LockInv, RecInv, RespInv, WireInv
  <2>4. ConnInv' BY DEF TypeOK, ConnInv, LockInv, WireInv
  <2>5. NoPanic' BY DEF TypeOK, NoPanic, LockInv, RecInv, RespInv
  <2>6. NoLeak' BY DEF TypeOK, NoLeak, LockInv, RecInv, RespInv, WireInv
  <2>7. ASSUME NEW c \in Calls PROVE RespInv(c)'
    BY DEF TypeOK, LockInv, RecInv, RespInv, WireInv
  <2>8. ASSUME NEW c \in Calls PROVE WireInv(c)'
    BY DEF TypeOK, LockInv, RecInv, ConnInv, WireInv
  <2>9. AnswerAwaited' BY DEF TypeOK, AnswerAwaited, Answering, LockInv, RecInv, ConnInv, RespInv, WireInv
  <2> QED BY <2>1, <2>2, <2>3, <2>4, <2>5, <2>6, <2>7, <2>8, <2>9
<1>6. ASSUME NEW k \in Calls, WriteNoConn(k) PROVE IInv'
  <2> USE <1>6 DEF WriteNoConn, Goes
  <2>1. TypeOK' BY DEF TypeOK
  <2>2. LockInv' BY DEF TypeOK, LockInv, RespInv, WireInv
  <2>3. RecInv' BY DEF TypeOK, LockInv, RecInv, RespInv, WireInv
  <2>4. ConnInv' BY DEF TypeOK, ConnInv, LockInv, WireInv
  <2>5. NoPanic' BY DEF TypeOK, NoPanic, LockInv, RecInv, RespInv
  <2>6. NoLeak' BY DEF TypeOK, NoLeak, LockInv, RecInv, RespInv, WireInv
  <2>7. ASSUME NEW c \in Calls PROVE RespInv(c)'
    BY DEF TypeOK, LockInv, RecInv, RespInv, WireInv
  <2>8. ASSUME NEW c \in Calls PROVE WireInv(c)'
    BY DEF TypeOK, LockInv, RecInv, ConnInv, WireInv
  <2>9. AnswerAwaited' BY DEF TypeOK, AnswerAwaited, Answering, LockInv, RecInv, ConnInv, RespInv, WireInv
  <2> QED BY <2>1, <2>2, <2>3, <2>4, <2>5, <2>6, <2>7, <2>8, <2>9
<1>7. ASSUME NEW k \in Calls, DialFails(k) PROVE IInv'
  <2> USE <1>7 DEF DialFails, Goes
  <2>1. TypeOK' BY DEF TypeOK
  <2>2. LockInv' BY DEF TypeOK, LockInv, RespInv, WireInv
  <2>3. RecInv' BY DEF TypeOK, LockInv, RecInv, RespInv, WireInv
  <2>4. ConnInv' BY DEF TypeOK, ConnInv, LockInv, WireInv
  <2>5. NoPanic' BY DEF TypeOK, NoPanic, LockInv, RecInv, RespInv
  <2>6. NoLeak' BY DEF TypeOK, NoLeak, LockInv, RecInv, RespInv, WireInv
  <2>7. ASSUME NEW c \in Calls PROVE RespInv(c)'
    BY DEF TypeOK, LockInv, RecInv, RespInv, WireInv
  <2>8. ASSUME NEW c \in Calls PROVE WireInv(c)'
    BY DEF TypeOK, LockInv, RecInv, ConnInv, WireInv
  <2>9. AnswerAwaited' BY DEF TypeOK, AnswerAwaited, Answering, LockInv, RecInv, ConnInv, RespInv, WireInv
  <2> QED BY <2>1, <2>2, <2>3, <2>4, <2>5, <2>6, <2>7, <2>8, <2>9
<1>8. ASSUME NEW k \in Calls, DialOk(k) PROVE IInv'
  <2> USE <1>8 DEF DialOk, Goes
  <2>1. TypeOK' BY DEF TypeOK
  <2>2. LockInv' BY DEF TypeOK, LockInv, RespInv, WireInv
  <2>3. RecInv' BY DEF TypeOK, LockInv, RecInv, RespInv, WireInv
  <2>4. ConnInv' BY DEF TypeOK, ConnInv, LockInv, WireInv
  <2>5. NoPanic' BY DEF TypeOK, NoPanic, LockInv, RecInv, RespInv
  <2>6. NoLeak' BY DEF TypeOK, NoLeak, LockInv, RecInv, RespInv, WireInv
  <2>7. ASSUME NEW c \in Calls PROVE RespInv(c)'
    BY DEF TypeOK, LockInv, RecInv, RespInv, WireInv
  <2>8. ASSUME NEW c \in Calls PROVE WireInv(c)'
    BY DEF TypeOK, LockInv, RecInv, ConnInv, WireInv
  <2>9. AnswerAwaited' BY DEF TypeOK, AnswerAwaited, Answering, LockInv, RecInv, ConnInv, RespInv, WireInv
  <2> QED BY <2>1, <2>2, <2>3, <2>4, <2>5, <2>6, <2>7, <2>8, <2>9
<1>9. ASSUME NEW k \in Calls, OfferQuit(k) PROVE IInv'
  <2> USE <1>9 DEF OfferQuit, Goes
  <2>1. TypeOK' BY DEF TypeOK
  <2>2. LockInv' BY DEF TypeOK, LockInv, RespInv, WireInv
  <2>3. RecInv' BY DEF TypeOK, LockInv, RecInv, RespInv, WireInv
  <2>4. ConnInv' BY DEF TypeOK, ConnInv, LockInv, WireInv
  <2>5. NoPanic' BY DEF TypeOK, NoPanic, LockInv, RecInv, RespInv
  <2>6. NoLeak' BY DEF TypeOK, NoLeak, LockInv, RecInv, RespInv, WireInv
  <2>7. ASSUME NEW c \in Calls PROVE RespInv(c)'
    BY DEF TypeOK, LockInv, RecInv, RespInv, WireInv
  <2>8. ASSUME NEW c \in Calls PROVE WireInv(c)'
    BY DEF TypeOK, LockInv, RecInv, ConnInv, WireInv
  <2>9. AnswerAwaited' BY DEF TypeOK, AnswerAwaited, Answering, LockInv, RecInv, ConnInv, RespInv, WireInv
  <2> QED BY <2>1, <2>2, <2>3, <2>4, <2>5, <2>6, <2>7, <2>8, <2>9
<1>10. ASSUME NEW k \in Calls, Sent(k) PROVE IInv'
  <2>1. CASE sendErr[k]
    <3> USE <1>10, <2>1 DEF Sent, Returns
    <3>1. TypeOK' BY DEF TypeOK, LockInv, RecInv, ConnInv, WireInv
    <3>2. LockInv' BY DEF TypeOK, LockInv, RespInv, WireInv
    <3>3. RecInv' BY DEF TypeOK, LockInv, RecInv, RespInv, WireInv
    <3>4. ConnInv' BY DEF TypeOK, ConnInv, LockInv, WireInv
    <3>5. NoPanic' BY DEF TypeOK, NoPanic, LockInv, RecInv, RespInv
    <3>6. NoLeak' BY DEF TypeOK, NoLeak, LockInv, RecInv, RespInv, WireInv
    <3>7. ASSUME NEW c \in Calls PROVE RespInv(c)'
      <4>1. caller'[c] \in {caller[c], "returned"}
            /\ UNCHANGED <<resp, respWait, reading, disp>>
        BY DEF TypeOK
      <4> QED BY <4>1 DEF RespInv
    <3>8. ASSUME NEW c \in Calls PROVE WireInv(c)'
      BY DEF TypeOK, LockInv, RecInv, ConnInv, WireInv
    <3>9. AnswerAwaited' BY DEF TypeOK, AnswerAwaited, Answering, LockInv, RecInv, ConnInv, RespInv, WireInv
    <3> QED BY <3>1, <3>2, <3>3, <3>4, <3>5, <3>6, <3>7, <3>8, <3>9
  <2>2. CASE ~sendErr[k]
    <3> USE <1>10, <2>2 DEF Sent, Goes
    <3>1. TypeOK' BY DEF TypeOK, LockInv, RecInv, ConnInv, WireInv
    <3>2. LockInv' BY DEF TypeOK, LockInv, RespInv, WireInv
    <3>3. RecInv' BY DEF TypeOK, LockInv, RecInv, RespInv, WireInv
    <3>4. ConnInv' BY DEF TypeOK, ConnInv, LockInv, WireInv
    <3>5. NoPanic' BY DEF TypeOK, NoPanic, LockInv, RecInv, RespInv
    <3>6. NoLeak' BY DEF TypeOK, NoLeak, LockInv, RecInv, RespInv, WireInv
    <3>7. ASSUME NEW c \in Calls PROVE RespInv(c)'
      BY DEF TypeOK, LockInv, RecInv, RespInv, WireInv
    <3>8. ASSUME NEW c \in Calls PROVE WireInv(c)'
      BY DEF TypeOK, LockInv, RecInv, ConnInv, WireInv
    <3>9. AnswerAwaited' BY DEF TypeOK, AnswerAwaited, Answering, LockInv, RecInv, ConnInv, RespInv, WireInv
    <3> QED BY <3>1, <3>2, <3>3, <3>4, <3>5, <3>6, <3>7, <3>8, <3>9
  <2> QED BY <2>1, <2>2
<1>11. ASSUME NEW k \in Calls, WaitDone(k) PROVE IInv'
  <2> USE <1>11 DEF WaitDone, Returns
  <2>1. TypeOK' BY DEF TypeOK
  <2>2. LockInv' BY DEF TypeOK, LockInv, RespInv, WireInv
  <2>3. RecInv' BY DEF TypeOK, LockInv, RecInv, RespInv, WireInv
  <2>4. ConnInv' BY DEF TypeOK, ConnInv, LockInv, WireInv
  <2>5. NoPanic' BY DEF TypeOK, NoPanic, LockInv, RecInv, RespInv
  <2>6. NoLeak' BY DEF TypeOK, NoLeak, LockInv, RecInv, RespInv, WireInv
  <2>7. ASSUME NEW c \in Calls PROVE RespInv(c)'
    BY DEF TypeOK, LockInv, RecInv, RespInv, WireInv
  <2>8. ASSUME NEW c \in Calls PROVE WireInv(c)'
    BY DEF TypeOK, LockInv, RecInv, ConnInv, WireInv
  <2>9. AnswerAwaited' BY DEF TypeOK, AnswerAwaited, Answering, LockInv, RecInv, ConnInv, RespInv, WireInv
  <2> QED BY <2>1, <2>2, <2>3, <2>4, <2>5, <2>6, <2>7, <2>8, <2>9
<1>12. ASSUME NEW k \in Calls, WaitExpires(k) PROVE IInv'
  <2> USE <1>12 DEF WaitExpires, Goes
  <2>1. TypeOK' BY DEF TypeOK
  <2>2. LockInv' BY DEF TypeOK, LockInv, RespInv, WireInv
  <2>3. RecInv' BY DEF TypeOK, LockInv, RecInv, RespInv, WireInv
  <2>4. ConnInv' BY DEF TypeOK, ConnInv, LockInv, WireInv
  <2>5. NoPanic' BY DEF TypeOK, NoPanic, LockInv, RecInv, RespInv
  <2>6. NoLeak' BY DEF TypeOK, NoLeak, LockInv, RecInv, RespInv, WireInv
  <2>7. ASSUME NEW c \in Calls PROVE RespInv(c)'
    BY DEF TypeOK, LockInv, RecInv, RespInv, WireInv
  <2>8. ASSUME NEW c \in Calls PROVE WireInv(c)'
    BY DEF TypeOK, LockInv, RecInv, ConnInv, WireInv
  <2>9. AnswerAwaited' BY DEF TypeOK, AnswerAwaited, Answering, LockInv, RecInv, ConnInv, RespInv, WireInv
  <2> QED BY <2>1, <2>2, <2>3, <2>4, <2>5, <2>6, <2>7, <2>8, <2>9
<1>13. ASSUME NEW k \in Calls, Timeout(k) PROVE IInv'
  <2> USE <1>13 DEF Timeout, Returns
  <2>1. TypeOK' BY DEF TypeOK
  <2>2. LockInv' BY DEF TypeOK, LockInv, RespInv, WireInv
  <2>3. RecInv' BY DEF TypeOK, LockInv, RecInv, RespInv, WireInv
  <2>4. ConnInv' BY DEF TypeOK, ConnInv, LockInv, WireInv
  <2>5. NoPanic' BY DEF TypeOK, NoPanic, LockInv, RecInv, RespInv
  <2>6. NoLeak' BY DEF TypeOK, NoLeak, LockInv, RecInv, RespInv, WireInv
  <2>7. ASSUME NEW c \in Calls PROVE RespInv(c)'
    BY DEF TypeOK, LockInv, RecInv, RespInv, WireInv
  <2>8. ASSUME NEW c \in Calls PROVE WireInv(c)'
    BY DEF TypeOK, LockInv, RecInv, ConnInv, WireInv
  <2>9. AnswerAwaited' BY DEF TypeOK, AnswerAwaited, Answering, LockInv, RecInv, ConnInv, RespInv, WireInv
  <2> QED BY <2>1, <2>2, <2>3, <2>4, <2>5, <2>6, <2>7, <2>8, <2>9
<1>14. ASSUME NEW k \in Calls, ServeEnd(k) PROVE IInv'
  <2> USE <1>14 DEF ServeEnd
  <2>1. TypeOK' BY DEF TypeOK
  <2>2. LockInv' BY DEF TypeOK, LockInv, RespInv, WireInv
  <2>3. RecInv' BY DEF TypeOK, LockInv, RecInv, RespInv, WireInv
  <2>4. ConnInv' BY DEF TypeOK, ConnInv, LockInv, WireInv
  <2>5. NoPanic' BY DEF TypeOK, NoPanic, LockInv, RecInv, RespInv
  <2>6. NoLeak' BY DEF TypeOK, NoLeak, LockInv, RecInv, RespInv, WireInv
  <2>7. ASSUME NEW c \in Calls PROVE RespInv(c)'
    BY DEF TypeOK, LockInv, RecInv, RespInv, WireInv
  <2>8. ASSUME NEW c \in Calls PROVE WireInv(c)'
    BY DEF TypeOK, LockInv, RecInv, ConnInv, WireInv
  <2>9. AnswerAwaited' BY DEF TypeOK, AnswerAwaited, Answering, LockInv, RecInv, ConnInv, RespInv, WireInv
  <2> QED BY <2>1, <2>2, <2>3, <2>4, <2>5, <2>6, <2>7, <2>8, <2>9
<1>15. ASSUME NEW k \in Calls, Reconnected(k) PROVE IInv'
  <2> USE <1>15, ReadingFacts DEF Reconnected, Goes
  <2>1. CASE reading
    <3> USE <2>1 DEF cancelAllRequests, CloseResp
    <3>1. TypeOK' BY DEF TypeOK, LockInv, RecInv, ConnInv, WireInv
    <3>2. LockInv' BY DEF TypeOK, LockInv, RespInv, WireInv
    <3>3. RecInv' BY DEF TypeOK, LockInv, RecInv, RespInv, WireInv
    <3>4. ConnInv' BY DEF TypeOK, ConnInv, LockInv, WireInv
    <3>5. NoPanic' BY DEF TypeOK, NoPanic, LockInv, RecInv, RespInv
    <3>6. NoLeak' BY DEF TypeOK, NoLeak, LockInv, RecInv, RespInv, WireInv
    <3>7. ASSUME NEW c \in Calls PROVE RespInv(c)'
      BY DEF TypeOK, LockInv, RecInv, RespInv, WireInv
    <3>8. ASSUME NEW c \in Calls PROVE WireInv(c)'
      BY DEF TypeOK, LockInv, RecInv, ConnInv, WireInv
    <3>9. AnswerAwaited' BY DEF TypeOK, AnswerAwaited, Answering, LockInv, RecInv, ConnInv, RespInv, WireInv
    <3> QED BY <3>1, <3>2, <3>3, <3>4, <3>5, <3>6, <3>7, <3>8, <3>9
  <2>2. CASE ~reading
    <3> USE <2>2 DEF Install, Registers
    <3>0. /\ disp' = "loop" /\ conn' = dialed /\ ~Rec /\ conn < dialed
          /\ conn \in Nat /\ dialed \in Nat /\ wire' = wire /\ reader'.st = "reading"
      BY DEF TypeOK, ConnInv
    <3>a. \A c \in Calls, n \in Conns : <<c, n>> \in wire =>
             n <= conn /\ caller[c] \in {"sent", "wait", "timeout", "returned"}
      BY <3>0 DEF WireInv
    <3>1. TypeOK' BY DEF TypeOK, LockInv, RecInv, ConnInv, WireInv
    <3>2. LockInv' BY DEF TypeOK, LockInv, RespInv, WireInv
    <3>3. RecInv' BY DEF TypeOK, LockInv, RecInv, RespInv, WireInv
    <3>4. ConnInv' BY DEF TypeOK, ConnInv, LockInv, WireInv
    <3>5. NoPanic' BY DEF TypeOK, NoPanic, LockInv, RecInv, RespInv
    <3>6. NoLeak' BY DEF TypeOK, NoLeak, LockInv, RecInv, RespInv, WireInv
    <3>7. ASSUME NEW c \in Calls PROVE RespInv(c)'
      BY DEF TypeOK, LockInv, RecInv, RespInv, WireInv
    <3>8. ASSUME NEW c \in Calls PROVE WireInv(c)'
      <4>1. \A n \in Conns : <<c, n>> \in wire => n <= conn'
        BY <3>0, <3>a
      <4>2. \A n \in Conns : <<c, n>> \in wire =>
               caller'[c] \in {"sent", "wait", "timeout", "returned"}
        BY <3>a DEF TypeOK
      <4> QED BY <3>0, <4>1, <4>2 DEF WireInv
    <3>9. AnswerAwaited' BY <3>0, <3>a DEF TypeOK, AnswerAwaited, Answering, LockInv, RecInv, ConnInv, RespInv, WireInv
    <3> QED BY <3>1, <3>2, <3>3, <3>4, <3>5, <3>6, <3>7, <3>8, <3>9
  <2> QED BY <2>1, <2>2
<1>16. CASE Quit
  <2> USE <1>16 DEF Quit, cancelAllRequests, CloseResp
  <2>1. TypeOK' BY DEF TypeOK
  <2>2. LockInv' BY DEF TypeOK, LockInv, RespInv, WireInv
  <2>3. RecInv' BY DEF TypeOK, LockInv, RecInv, RespInv, WireInv
  <2>4. ConnInv' BY DEF TypeOK, ConnInv, LockInv, WireInv
  <2>5. NoPanic' BY DEF TypeOK, NoPanic, LockInv, RecInv, RespInv
  <2>6. NoLeak' BY DEF TypeOK, NoLeak, LockInv, RecInv, RespInv, WireInv
  <2>7. ASSUME NEW c \in Calls PROVE RespInv(c)'
    BY DEF TypeOK, LockInv, RecInv, RespInv, WireInv
  <2>8. ASSUME NEW c \in Calls PROVE WireInv(c)'
    BY DEF TypeOK, LockInv, RecInv, ConnInv, WireInv
  <2>9. AnswerAwaited' BY DEF TypeOK, AnswerAwaited, Answering, LockInv, RecInv, ConnInv, RespInv, WireInv
  <2> QED BY <2>1, <2>2, <2>3, <2>4, <2>5, <2>6, <2>7, <2>8, <2>9
<1>17. CASE ReadOp
  <2> DEFINE d == reader.msg[2]
  <2>0. reader.msg \in Messages BY <1>17, ReaderFacts DEF ReadOp
  <2> HIDE DEF d
  <2> USE ReadingFacts
  <2>1. CASE reader.msg = <<"response", d>> /\ d \in Calls
    <3>0. /\ reader.msg[1] = "response" /\ reader.msg[2] = d
          /\ reader.st = "op" /\ disp = "loop" /\ reader' = Reading
          /\ UNCHANGED <<callVars, serving, free, lastOp, reading, conn, next, disp, writeConn,
                         reqSent, netVars, closer>>
          /\ \/ /\ d \in respWait /\ respWait' = respWait \ {d}
                /\ resp' = [resp EXCEPT ![d] = "value"]
                /\ panicked' = (panicked \/ resp[d] = "closed")
             \/ d \notin respWait /\ UNCHANGED <<respWait, resp, panicked>>
      BY <1>17, <2>1 DEF ReadOp, d
    <3>1. TypeOK' BY <2>1, <3>0 DEF TypeOK, LockInv, RecInv, ConnInv, WireInv
    <3>2. LockInv' BY <2>1, <3>0 DEF TypeOK, LockInv, RespInv, WireInv
    <3>3. RecInv' BY <2>1, <3>0 DEF TypeOK, LockInv, RecInv, RespInv, WireInv
    <3>4. ConnInv' BY <2>1, <3>0 DEF TypeOK, ConnInv, LockInv, WireInv
    <3>5. NoPanic' BY <2>1, <3>0 DEF TypeOK, NoPanic, LockInv, RecInv, RespInv
    <3>6. NoLeak' BY <2>1, <3>0 DEF TypeOK, NoLeak, LockInv, RecInv, RespInv, WireInv
    <3>7. ASSUME NEW c \in Calls PROVE RespInv(c)'
      BY <2>1, <3>0 DEF TypeOK, LockInv, RecInv, RespInv, WireInv
    <3>8. ASSUME NEW c \in Calls PROVE WireInv(c)'
      BY <2>1, <3>0 DEF TypeOK, LockInv, RecInv, ConnInv, WireInv
    <3>9. AnswerAwaited' BY <2>1, <3>0 DEF TypeOK, AnswerAwaited, Answering, LockInv, RecInv, ConnInv, RespInv, WireInv
    <3> QED BY <3>1, <3>2, <3>3, <3>4, <3>5, <3>6, <3>7, <3>8, <3>9
  <2>2. CASE reader.msg = <<"call", d>> /\ d \in Reverse
    <3>0. /\ reader.msg[1] = "call" /\ reader.msg[2] = d
          /\ reader.st = "op" /\ disp = "loop" /\ reader' = Reading
          /\ UNCHANGED <<outcome, retry, sendErr, respWait, resp, panicked, free, lastOp, reading,
                         conn, next, disp, writeConn, reqSent, netVars, closer>>
          /\ serving' = serving \cup {d}
          /\ caller' = [caller EXCEPT ![d] = "idle"]
          /\ caller[d] = "off" /\ d \in Calls
      <4>1. d \in Calls /\ reader.st = "op" BY <1>17, <2>2 DEF ReadOp
      <4>2. caller[d] = "off" BY <2>2, <4>1 DEF WireInv
      <4>3. reader.msg[1] = "call" /\ reader.msg[2] = d BY <2>2
      <4> QED BY <1>17, <4>1, <4>2, <4>3 DEF ReadOp, Goes
    <3>1. TypeOK' BY <2>2, <3>0 DEF TypeOK, LockInv, RecInv, ConnInv, WireInv
    <3>2. LockInv' BY <2>2, <3>0 DEF TypeOK, LockInv, RespInv, WireInv
    <3>3. RecInv' BY <2>2, <3>0 DEF TypeOK, LockInv, RecInv, RespInv, WireInv
    <3>4. ConnInv' BY <2>2, <3>0 DEF TypeOK, ConnInv, LockInv, WireInv
    <3>5. NoPanic' BY <2>2, <3>0 DEF TypeOK, NoPanic, LockInv, RecInv, RespInv
    <3>6. NoLeak' BY <2>2, <3>0 DEF TypeOK, NoLeak, LockInv, RecInv, RespInv, WireInv
    <3>7. ASSUME NEW c \in Calls PROVE RespInv(c)'
      BY <2>2, <3>0 DEF TypeOK, LockInv, RecInv, RespInv, WireInv
    <3>8. ASSUME NEW c \in Calls PROVE WireInv(c)'
      BY <2>2, <3>0 DEF TypeOK, LockInv, RecInv, ConnInv, WireInv
    <3>9. AnswerAwaited' BY <2>2, <3>0 DEF TypeOK, AnswerAwaited, Answering, LockInv, RecInv, ConnInv, RespInv, WireInv
    <3> QED BY <3>1, <3>2, <3>3, <3>4, <3>5, <3>6, <3>7, <3>8, <3>9
  <2> QED BY <2>0, <2>1, <2>2, MessageFacts DEF d
<1>18. CASE ReadErr
  <2> USE <1>18, ReadingFacts, ReaderFacts DEF ReadErr, cancelAllRequests, CloseResp
  <2>1. TypeOK' BY DEF TypeOK
  <2>2. LockInv' BY DEF TypeOK, LockInv, RespInv, WireInv
  <2>3. RecInv' BY DEF TypeOK, LockInv, RecInv, RespInv, WireInv
  <2>4. ConnInv' BY DEF TypeOK, ConnInv, LockInv, WireInv
  <2>5. NoPanic' BY DEF TypeOK, NoPanic, LockInv, RecInv, RespInv
  <2>6. NoLeak' BY DEF TypeOK, NoLeak, LockInv, RecInv, RespInv, WireInv
  <2>7. ASSUME NEW c \in Calls PROVE RespInv(c)'
    BY DEF TypeOK, LockInv, RecInv, RespInv, WireInv
  <2>8. ASSUME NEW c \in Calls PROVE WireInv(c)'
    BY DEF TypeOK, LockInv, RecInv, ConnInv, WireInv
  <2>9. AnswerAwaited' BY DEF TypeOK, AnswerAwaited, Answering, LockInv, RecInv, ConnInv, RespInv, WireInv
  <2> QED BY <2>1, <2>2, <2>3, <2>4, <2>5, <2>6, <2>7, <2>8, <2>9
<1>19. CASE CloseWaited
  <2> USE <1>19 DEF CloseWaited
  <2>1. TypeOK' BY DEF TypeOK
  <2>2. LockInv' BY DEF TypeOK, LockInv, RespInv, WireInv
  <2>3. RecInv' BY DEF TypeOK, LockInv, RecInv, RespInv, WireInv
  <2>4. ConnInv' BY DEF TypeOK, ConnInv, LockInv, WireInv
  <2>5. NoPanic' BY DEF TypeOK, NoPanic, LockInv, RecInv, RespInv
  <2>6. NoLeak' BY DEF TypeOK, NoLeak, LockInv, RecInv, RespInv, WireInv
  <2>7. ASSUME NEW c \in Calls PROVE RespInv(c)'
    BY DEF TypeOK, LockInv, RecInv, RespInv, WireInv
  <2>8. ASSUME NEW c \in Calls PROVE WireInv(c)'
    <3>1. \A n \in Conns : <<c, n>> \in wire' => <<c, n>> \in wire OBVIOUS
    <3>2. UNCHANGED <<caller, conn, next, lastOp, reader>> /\ (Rec' <=> Rec)
      BY DEF TypeOK
    <3> QED BY <3>1, <3>2 DEF WireInv
  <2>9. AnswerAwaited' BY DEF TypeOK, AnswerAwaited, Answering, LockInv, RecInv, ConnInv, RespInv, WireInv
  <2> QED BY <2>1, <2>2, <2>3, <2>4, <2>5, <2>6, <2>7, <2>8, <2>9
<1>20. CASE DrainOp
  <2> USE <1>20, ReadingFacts, ReaderFacts DEF DrainOp
  <2>1. TypeOK' BY DEF TypeOK
  <2>2. LockInv' BY DEF TypeOK, LockInv, RespInv, WireInv
  <2>3. RecInv' BY DEF TypeOK, LockInv, RecInv, RespInv, WireInv
  <2>4. ConnInv' BY DEF TypeOK, ConnInv, LockInv, WireInv
  <2>5. NoPanic' BY DEF TypeOK, NoPanic, LockInv, RecInv, RespInv
  <2>6. NoLeak' BY DEF TypeOK, NoLeak, LockInv, RecInv, RespInv, WireInv
  <2>7. ASSUME NEW c \in Calls PROVE RespInv(c)'
    BY DEF TypeOK, LockInv, RecInv, RespInv, WireInv
  <2>8. ASSUME NEW c \in Calls PROVE WireInv(c)'
    BY DEF TypeOK, LockInv, RecInv, ConnInv, WireInv
  <2>9. AnswerAwaited' BY DEF TypeOK, AnswerAwaited, Answering, LockInv, RecInv, ConnInv, RespInv, WireInv
  <2> QED BY <2>1, <2>2, <2>3, <2>4, <2>5, <2>6, <2>7, <2>8, <2>9
<1>21. CASE DrainErr
  <2> USE <1>21, ReadingFacts, ReaderFacts DEF DrainErr, Install, Registers
  <2>1. TypeOK' BY DEF TypeOK, LockInv, RecInv, ConnInv, WireInv
  <2>2. LockInv' BY DEF TypeOK, LockInv, RespInv, WireInv
  <2>3. RecInv' BY DEF TypeOK, LockInv, RecInv, RespInv, WireInv
  <2>4. ConnInv' BY DEF TypeOK, ConnInv, LockInv, WireInv
  <2>5. NoPanic' BY DEF TypeOK, NoPanic, LockInv, RecInv, RespInv
  <2>6. NoLeak' BY DEF TypeOK, NoLeak, LockInv, RecInv, RespInv, WireInv
  <2>7. ASSUME NEW c \in Calls PROVE RespInv(c)'
    BY DEF TypeOK, LockInv, RecInv, RespInv, WireInv
  <2>8. ASSUME NEW c \in Calls PROVE WireInv(c)'
    <3>1. CASE disp = "recDrain"
      <4>1. /\ UNCHANGED <<caller, wire>> /\ reader'.st = "reading" /\ conn' = next
            /\ conn < next /\ conn \in Nat /\ next \in Nat
        BY <3>1 DEF TypeOK, ConnInv
      <4> QED BY <4>1 DEF WireInv
    <3>2. CASE disp = "quitDrain"
      <4>1. UNCHANGED <<caller, wire, conn>> /\ reader'.st = "done" /\ ~Rec
        BY <3>2
      <4> QED BY <4>1 DEF WireInv
    <3> QED BY <3>1, <3>2
  <2>9. AnswerAwaited' BY DEF TypeOK, AnswerAwaited, Answering, LockInv, RecInv, ConnInv, RespInv, WireInv
  <2> QED BY <2>1, <2>2, <2>3, <2>4, <2>5, <2>6, <2>7, <2>8, <2>9
<1>22. CASE ReqSent
  <2> USE <1>22 DEF ReqSent
  <2>1. TypeOK' BY DEF TypeOK
  <2>2. LockInv' BY DEF TypeOK, LockInv, RespInv, WireInv
  <2>3. RecInv' BY DEF TypeOK, LockInv, RecInv, RespInv, WireInv
  <2>4. ConnInv' BY DEF TypeOK, ConnInv, LockInv, WireInv
  <2>5. NoPanic' BY DEF TypeOK, NoPanic, LockInv, RecInv, RespInv
  <2>6. NoLeak' BY DEF TypeOK, NoLeak, LockInv, RecInv, RespInv, WireInv
  <2>7. ASSUME NEW c \in Calls PROVE RespInv(c)'
    BY DEF TypeOK, LockInv, RecInv, RespInv, WireInv
  <2>8. ASSUME NEW c \in Calls PROVE WireInv(c)'
    BY DEF TypeOK, LockInv, RecInv, ConnInv, WireInv
  <2>9. AnswerAwaited' BY DEF TypeOK, AnswerAwaited, Answering, LockInv, RecInv, ConnInv, RespInv, WireInv
  <2> QED BY <2>1, <2>2, <2>3, <2>4, <2>5, <2>6, <2>7, <2>8, <2>9
<1>23. CASE ReadMsg
  <2>1. ASSUME NEW d \in Calls, <<d, conn>> \in wire, wire' = wire \ {<<d, conn>>},
               reader' = [st |-> "op", msg |-> <<"response", d>>]
        PROVE  IInv'
    <3>0. /\ reader.st = "reading" /\ conn \in alive
          /\ reader' \in ReaderState /\ reader'.st = "op" /\ reader'.msg = <<"response", d>>
          /\ reader'.msg # None
          /\ UNCHANGED <<callVars, resp, dispVars, writeConn, reqSent, dialed, alive, closer, panicked>>
      BY <1>23, <2>1, MessageFacts, ReaderFacts DEF ReadMsg
    <3>1. TypeOK' BY <2>1, <3>0 DEF TypeOK, LockInv, RecInv, ConnInv, WireInv
    <3>2. LockInv' BY <2>1, <3>0 DEF TypeOK, LockInv, RespInv, WireInv
    <3>3. RecInv' BY <2>1, <3>0 DEF TypeOK, LockInv, RecInv, RespInv, WireInv
    <3>4. ConnInv' BY <2>1, <3>0 DEF TypeOK, ConnInv, LockInv, WireInv
    <3>5. NoPanic' BY <2>1, <3>0 DEF TypeOK, NoPanic, LockInv, RecInv, RespInv
    <3>6. NoLeak' BY <2>1, <3>0 DEF TypeOK, NoLeak, LockInv, RecInv, RespInv, WireInv
    <3>7. ASSUME NEW c \in Calls PROVE RespInv(c)'
      BY <2>1, <3>0 DEF TypeOK, LockInv, RecInv, RespInv, WireInv
    <3>8. ASSUME NEW c \in Calls PROVE WireInv(c)'
      BY <2>1, <3>0 DEF TypeOK, LockInv, RecInv, ConnInv, WireInv
    <3>9. AnswerAwaited' BY <2>1, <3>0 DEF TypeOK, AnswerAwaited, Answering, LockInv, RecInv, ConnInv, RespInv, WireInv
    <3> QED BY <3>1, <3>2, <3>3, <3>4, <3>5, <3>6, <3>7, <3>8, <3>9
  <2>2. ASSUME NEW d \in Reverse, caller[d] = "off", UNCHANGED wire,
               reader' = [st |-> "op", msg |-> <<"call", d>>]
        PROVE  IInv'
    <3>0. /\ reader.st = "reading" /\ conn \in alive
          /\ reader' \in ReaderState /\ reader'.st = "op" /\ reader'.msg = <<"call", d>>
          /\ reader'.msg # None
          /\ UNCHANGED <<callVars, resp, dispVars, writeConn, reqSent, dialed, alive, closer, panicked>>
      BY <1>23, <2>2, MessageFacts, ReaderFacts DEF ReadMsg
    <3>1. TypeOK' BY <2>2, <3>0 DEF TypeOK, LockInv, RecInv, ConnInv, WireInv
    <3>2. LockInv' BY <2>2, <3>0 DEF TypeOK, LockInv, RespInv, WireInv
    <3>3. RecInv' BY <2>2, <3>0 DEF TypeOK, LockInv, RecInv, RespInv, WireInv
    <3>4. ConnInv' BY <2>2, <3>0 DEF TypeOK, ConnInv, LockInv, WireInv
    <3>5. NoPanic' BY <2>2, <3>0 DEF TypeOK, NoPanic, LockInv, RecInv, RespInv
    <3>6. NoLeak' BY <2>2, <3>0 DEF TypeOK, NoLeak, LockInv, RecInv, RespInv, WireInv
    <3>7. ASSUME NEW c \in Calls PROVE RespInv(c)'
      BY <2>2, <3>0 DEF TypeOK, LockInv, RecInv, RespInv, WireInv
    <3>8. ASSUME NEW c \in Calls PROVE WireInv(c)'
      BY <2>2, <3>0 DEF TypeOK, LockInv, RecInv, ConnInv, WireInv
    <3>9. AnswerAwaited' BY <2>2, <3>0 DEF TypeOK, AnswerAwaited, Answering, LockInv, RecInv, ConnInv, RespInv, WireInv
    <3> QED BY <3>1, <3>2, <3>3, <3>4, <3>5, <3>6, <3>7, <3>8, <3>9
  <2> QED BY <1>23, <2>1, <2>2 DEF ReadMsg
<1>24. CASE ReadFails
  <2> USE <1>24, ReadingFacts, ReaderFacts DEF ReadFails
  <2>1. TypeOK' BY DEF TypeOK
  <2>2. LockInv' BY DEF TypeOK, LockInv, RespInv, WireInv
  <2>3. RecInv' BY DEF TypeOK, LockInv, RecInv, RespInv, WireInv
  <2>4. ConnInv' BY DEF TypeOK, ConnInv, LockInv, WireInv
  <2>5. NoPanic' BY DEF TypeOK, NoPanic, LockInv, RecInv, RespInv
  <2>6. NoLeak' BY DEF TypeOK, NoLeak, LockInv, RecInv, RespInv, WireInv
  <2>7. ASSUME NEW c \in Calls PROVE RespInv(c)'
    BY DEF TypeOK, LockInv, RecInv, RespInv, WireInv
  <2>8. ASSUME NEW c \in Calls PROVE WireInv(c)'
    BY DEF TypeOK, LockInv, RecInv, ConnInv, WireInv
  <2>9. AnswerAwaited' BY DEF TypeOK, AnswerAwaited, Answering, LockInv, RecInv, ConnInv, RespInv, WireInv
  <2> QED BY <2>1, <2>2, <2>3, <2>4, <2>5, <2>6, <2>7, <2>8, <2>9
<1>25. CASE ReadSyntaxError
  <2> USE <1>25, ReadingFacts, ReaderFacts DEF ReadSyntaxError
  <2>1. TypeOK' BY DEF TypeOK
  <2>2. LockInv' BY DEF TypeOK, LockInv, RespInv, WireInv
  <2>3. RecInv' BY DEF TypeOK, LockInv, RecInv, RespInv, WireInv
  <2>4. ConnInv' BY DEF TypeOK, ConnInv, LockInv, WireInv
  <2>5. NoPanic' BY DEF TypeOK, NoPanic, LockInv, RecInv, RespInv
  <2>6. NoLeak' BY DEF TypeOK, NoLeak, LockInv, RecInv, RespInv, WireInv
  <2>7. ASSUME NEW c \in Calls PROVE RespInv(c)'
    BY DEF TypeOK, LockInv, RecInv, RespInv, WireInv
  <2>8. ASSUME NEW c \in Calls PROVE WireInv(c)'
    BY DEF TypeOK, LockInv, RecInv, ConnInv, WireInv
  <2>9. AnswerAwaited' BY DEF TypeOK, AnswerAwaited, Answering, LockInv, RecInv, ConnInv, RespInv, WireInv
  <2> QED BY <2>1, <2>2, <2>3, <2>4, <2>5, <2>6, <2>7, <2>8, <2>9
<1>26. CASE Break
  <2> USE <1>26 DEF Break
  <2>1. TypeOK' BY DEF TypeOK
  <2>2. LockInv' BY DEF TypeOK, LockInv, RespInv, WireInv
  <2>3. RecInv' BY DEF TypeOK, LockInv, RecInv, RespInv, WireInv
  <2>4. ConnInv' BY DEF TypeOK, ConnInv, LockInv, WireInv
  <2>5. NoPanic' BY DEF TypeOK, NoPanic, LockInv, RecInv, RespInv
  <2>6. NoLeak' BY DEF TypeOK, NoLeak, LockInv, RecInv, RespInv, WireInv
  <2>7. ASSUME NEW c \in Calls PROVE RespInv(c)'
    BY DEF TypeOK, LockInv, RecInv, RespInv, WireInv
  <2>8. ASSUME NEW c \in Calls PROVE WireInv(c)'
    BY DEF TypeOK, LockInv, RecInv, ConnInv, WireInv
  <2>9. AnswerAwaited' BY DEF TypeOK, AnswerAwaited, Answering, LockInv, RecInv, ConnInv, RespInv, WireInv
  <2> QED BY <2>1, <2>2, <2>3, <2>4, <2>5, <2>6, <2>7, <2>8, <2>9
<1>27. CASE CloseBegin
  <2> USE <1>27 DEF CloseBegin
  <2>1. TypeOK' BY DEF TypeOK
  <2>2. LockInv' BY DEF TypeOK, LockInv, RespInv, WireInv
  <2>3. RecInv' BY DEF TypeOK, LockInv, RecInv, RespInv, WireInv
  <2>4. ConnInv' BY DEF TypeOK, ConnInv, LockInv, WireInv
  <2>5. NoPanic' BY DEF TypeOK, NoPanic, LockInv, RecInv, RespInv
  <2>6. NoLeak' BY DEF TypeOK, NoLeak, LockInv, RecInv, RespInv, WireInv
  <2>7. ASSUME NEW c \in Calls PROVE RespInv(c)'
    BY DEF TypeOK, LockInv, RecInv, RespInv, WireInv
  <2>8. ASSUME NEW c \in Calls PROVE WireInv(c)'
    BY DEF TypeOK, LockInv, RecInv, ConnInv, WireInv
  <2>9. AnswerAwaited' BY DEF TypeOK, AnswerAwaited, Answering, LockInv, RecInv, ConnInv, RespInv, WireInv
  <2> QED BY <2>1, <2>2, <2>3, <2>4, <2>5, <2>6, <2>7, <2>8, <2>9
<1>28. CASE CloseEnd
  <2> USE <1>28 DEF CloseEnd
  <2>1. TypeOK' BY DEF TypeOK
  <2>2. LockInv' BY DEF TypeOK, LockInv, RespInv, WireInv
  <2>3. RecInv' BY DEF TypeOK, LockInv, RecInv, RespInv, WireInv
  <2>4. ConnInv' BY DEF TypeOK, ConnInv, LockInv, WireInv
  <2>5. NoPanic' BY DEF TypeOK, NoPanic, LockInv, RecInv, RespInv
  <2>6. NoLeak' BY DEF TypeOK, NoLeak, LockInv, RecInv, RespInv, WireInv
  <2>7. ASSUME NEW c \in Calls PROVE RespInv(c)'
    BY DEF TypeOK, LockInv, RecInv, RespInv, WireInv
  <2>8. ASSUME NEW c \in Calls PROVE WireInv(c)'
    BY DEF TypeOK, LockInv, RecInv, ConnInv, WireInv
  <2>9. AnswerAwaited' BY DEF TypeOK, AnswerAwaited, Answering, LockInv, RecInv, ConnInv, RespInv, WireInv
  <2> QED BY <2>1, <2>2, <2>3, <2>4, <2>5, <2>6, <2>7, <2>8, <2>9
<1>29. CASE UNCHANGED vars
  BY <1>29 DEF vars, TypeOK, LockInv, RecInv, ConnInv, NoPanic, NoLeak, AnswerAwaited, Answering, RespInv, WireInv
<1> QED BY <1>1, <1>2, <1>3, <1>4, <1>5, <1>6, <1>7, <1>8, <1>9, <1>10, <1>11, <1>12, <1>13, <1>14, <1>15, <1>16, <1>17, <1>18, <1>19, <1>20, <1>21, <1>22, <1>23, <1>24, <1>25, <1>26, <1>27, <1>28, <1>29 DEF Next, Caller, Dispatch

\* The inductive invariant holds in every reachable state.
LEMMA Invariance == Spec => []IInv
BY InitIInv, Inductive, PTL DEF Spec

\* The callers, dispatch and the connections keep their types.
THEOREM TypeCorrect == Spec => []TypeOK
<1>1. IInv => TypeOK BY DEF IInv
<1> QED BY <1>1, Invariance, PTL

\* reqInit and reqSent are a lock on writeConn: one call at a time writes or
\* reconnects, and releasing the lock never blocks.
THEOREM OneWriter == Spec => []WriteLock
<1>1. IInv => WriteLock
  BY NoneAssumption DEF IInv, TypeOK, LockInv, WriteLock, Sending
<1> QED BY <1>1, Invariance, PTL

\* dispatch never closes a response channel twice, never sends on a closed one,
\* and never registers a nil request.
THEOREM PanicFree == Spec => []NoPanic
<1>1. IInv => NoPanic BY DEF IInv
<1> QED BY <1>1, Invariance, PTL

\* A call that has returned leaves no entry in the response table.
THEOREM TableDoesNotLeak == Spec => []NoLeak
<1>1. IInv => NoLeak BY DEF IInv
<1> QED BY <1>1, Invariance, PTL

\* dispatch recognises every answer that can still arrive for a waiting call,
\* across any number of reconnects.
THEOREM AnswersRecognised == Spec => []AnswerAwaited
<1>1. IInv => AnswerAwaited BY DEF IInv
<1> QED BY <1>1, Invariance, PTL
=============================================================================
