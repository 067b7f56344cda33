------------------------- MODULE CaptureReplayProofs -------------------------
(***************************************************************************)
(* For every number of threads, every set of objects and any number of     *)
(* calls: type correctness, and the order that local barriers carry from   *)
(* the captured run to its replay.                                         *)
(***************************************************************************)
EXTENDS CaptureReplay, TLAPS

(***************************************************************************)
(* Type correctness needs to know who owns a stream, what a stream has     *)
(* open, and where a replay thread stands in its stream.                   *)
(***************************************************************************)
StreamOwner ==
  \A t \in Threads :
    /\ pc[t] \in {"join", "local", "pushed"} => frameMutex = t
    /\ pc[t] = "join" => t = nstreams
    /\ pc[t] \notin {"idle", "join"} => t < nstreams

CallShape ==
  \A t \in Threads :
    /\ InCall(t) => call[t].kind \in Kinds /\ call[t].obj \in Objects
    /\ pc[t] \in {"pre", "update"} => call[t].upd \in Objects
    /\ pc[t] = "update"
         => /\ open[t] \in Packet
            /\ open[t].type = "update" /\ open[t].kind = "use"
            /\ open[t].obj = call[t].upd
            /\ open[t].seen = call[t].seen
    /\ pc[t] \in {"execute", "push", "end", "leave"}
         => /\ open[t] \in Packet
            /\ open[t].type = "call"
            /\ open[t].kind = call[t].kind
            /\ open[t].seen = call[t].seen
    /\ pc[t] = "leave" => call[t].kind = "sync"

ReplayPosition ==
  \A t \in Threads :
    /\ completed[t] <= Len(trace[t])
    /\ packetOpen[t] => completed[t] < Len(trace[t])
    /\ rpc[t] \in {"handle", "execute"} => packetOpen[t]
    /\ rpc[t] = "barrier" => packetOpen[t] /\ OpenPacket(t).type = "barrier"
    /\ packetOpen[t] /\ rpc[t] \in {"step", "handle", "execute"} => OpenPacket(t).type # "barrier"
    /\ rpc[t] = "waiting" => /\ completed[t] > 0
                             /\ ~packetOpen[t]
                             /\ waitIndex[t] <= LastBarrier(t).size

CaptureFirst == phase = "capture" => ReplayInit

TypeInv ==
  /\ TypeOK /\ StreamOwner /\ CallShape /\ CaptureFirst
  /\ phase = "replay" => ReplayPosition

(***************************************************************************)
(* What the packet constructors build, and what ending a packet does.      *)
(***************************************************************************)
LEMMA PacketTypes ==
  ASSUME NEW s \in [Threads -> Nat]
  PROVE  /\ \A n \in 0 .. NumThreads, at \in [Threads -> Nat] : BarrierPacket(n, at, s) \in Packet
         /\ \A o \in Objects, r \in Place : UpdatePacket(o, r, s) \in Packet
         /\ \A k \in AllKinds, o \in Objects, r \in Place : CallPacket(k, o, r, s) \in Packet
BY NumThreadsAssumption DEF BarrierPacket, UpdatePacket, CallPacket, Packet, Place, NoPlace, NoPositions,
     Threads, AllKinds

LEMMA NoPacketIsNone == NoPacket \notin Packet
BY DEF NoPacket, Packet

LEMMA EndedType ==
  ASSUME CaptureTypeOK, NEW t \in Threads
  PROVE  Ended(t) \in Seq(Packet)
BY NoPacketIsNone DEF CaptureTypeOK, Ended

LEMMA PacketAt ==
  ASSUME CaptureTypeOK, NEW t \in Threads, NEW k \in 1 .. Len(trace[t])
  PROVE  /\ trace[t][k] \in Packet
         /\ trace[t][k].size \in 0 .. NumThreads
         /\ trace[t][k].at \in [Threads -> Nat]
         /\ trace[t][k].seen \in [Threads -> Nat]
<1>1. trace[t][k] \in Packet
  BY DEF CaptureTypeOK
<1> QED
  BY <1>1 DEF Packet

LEMMA InitTypeInv == Init => TypeInv
<1> SUFFICES ASSUME Init PROVE TypeInv
  OBVIOUS
<1> USE DEF Init, CaptureInit, ReplayInit
<1>1. CaptureTypeOK
  BY NumThreadsAssumption, MaxCallsAssumption
     DEF CaptureTypeOK, PcValues, NoCall, Place, NoPlace, Threads, Free, Packet
<1>2. stop \in BOOLEAN /\ packetOpen \in [Threads -> BOOLEAN]
  OBVIOUS
<1>3. ReplayTypeOK
  BY <1>2, NumThreadsAssumption DEF ReplayTypeOK, Threads
<1>4. StreamOwner /\ CallShape /\ CaptureFirst
  BY DEF StreamOwner, CallShape, CaptureFirst, InCall
<1> QED
  BY <1>1, <1>3, <1>4 DEF TypeInv, TypeOK

(***************************************************************************)
(* The capture's half of the type invariant, one lemma per action.         *)
(***************************************************************************)
CaptureInv == CaptureTypeOK /\ StreamOwner /\ CallShape

LEMMA CallTypes ==
  ASSUME CaptureInv, NEW t \in Threads, Call(t)
  PROVE  CaptureInv'
<1> USE DEF CaptureInv
<1>1. \A i \in Threads : Returned(i) \in Nat
  BY SMTT(30) DEF CaptureTypeOK, Returned, CurrentPacket
<1>2. PICK k \in Kinds, o \in Objects, u \in Objects \cup {NoObject} :
        /\ call' = [call EXCEPT ![t] = [kind |-> k, obj |-> o, upd |-> u,
                                        seen |-> [i \in Threads |-> Returned(i)]]]
        /\ \/ /\ t < nstreams
              /\ pc' = [pc EXCEPT ![t] = AfterBind(call'[t])]
              /\ UNCHANGED frameMutex
           \/ /\ t = nstreams
              /\ frameMutex = Free
              /\ frameMutex' = t
              /\ pc' = [pc EXCEPT ![t] = "join"]
  BY DEF Call
<1>3. /\ pc[t] = "idle" /\ calls < MaxCalls /\ calls' = calls + 1
      /\ UNCHANGED <<trace, nstreams, open, found, pending, lastModified, state>>
  BY DEF Call
<1>4. /\ call'[t].kind = k /\ call'[t].obj = o /\ call'[t].upd = u
      /\ \A i \in Threads \ {t} : call'[i] = call[i]
  BY <1>2 DEF CaptureTypeOK
<1>5. AfterBind(call'[t]) \in {"header", "command"} \/ (AfterBind(call'[t]) = "pre" /\ u \in Objects)
  BY <1>2, <1>4 DEF AfterBind, AfterPre
<1>6. CaptureTypeOK'
  <2>1. calls' \in 0 .. MaxCalls
    BY <1>3, MaxCallsAssumption DEF CaptureTypeOK
  <2>2. pc' \in [Threads -> PcValues] /\ frameMutex' \in Threads \cup {Free}
    BY <1>2, <1>5, ZenonT(60) DEF CaptureTypeOK, PcValues
  <2>3. call' \in [Threads -> [kind : AllKinds \cup {"none"}, obj : Objects \cup {NoObject},
                               upd : Objects \cup {NoObject}, seen : [Threads -> Nat]]]
    BY <1>1, <1>2, KindsAssumption DEF CaptureTypeOK
  <2> QED
    BY <1>3, <2>1, <2>2, <2>3 DEF CaptureTypeOK
<1>7. StreamOwner'
  <2>1. /\ pc \in [Threads -> PcValues] /\ nstreams' = nstreams
        /\ \A i \in Threads : frameMutex = i => frameMutex # Free
    BY <1>3, NumThreadsAssumption DEF CaptureTypeOK, Threads, Free
  <2>2. \A i \in Threads \ {t} : pc'[i] = pc[i]
    BY <1>2, <2>1
  <2>3. CASE t < nstreams /\ pc' = [pc EXCEPT ![t] = AfterBind(call'[t])] /\ UNCHANGED frameMutex
    BY <1>5, <2>1, <2>2, <2>3 DEF StreamOwner
  <2>4. CASE t = nstreams /\ frameMutex = Free /\ frameMutex' = t /\ pc' = [pc EXCEPT ![t] = "join"]
    BY <2>1, <2>2, <2>4 DEF StreamOwner
  <2> QED
    BY <1>2, <2>3, <2>4
<1>8. CallShape'
  BY <1>2, <1>3, <1>4, <1>5 DEF CallShape, CaptureTypeOK, InCall
<1> QED
  BY <1>6, <1>7, <1>8

LEMMA CollectPositionTypes ==
  ASSUME CaptureInv, NEW t \in Threads, CollectPosition(t)
  PROVE  CaptureInv'
<1> USE DEF CaptureInv
<1>1. Len(found[t]) \in Threads
  <2>1. Len(found[t]) \in Nat /\ nstreams \in 0 .. NumThreads /\ Len(found[t]) < nstreams
    BY DEF CollectPosition, CaptureTypeOK
  <2> QED
    BY <2>1, NumThreadsAssumption DEF Threads
<1>2. CurrentPacket(Len(found[t])) \in Nat
  BY <1>1 DEF CurrentPacket, CaptureTypeOK
<1>3. CaptureTypeOK'
  BY <1>2 DEF CollectPosition, CaptureTypeOK
<1>4. StreamOwner' /\ CallShape'
  BY DEF CollectPosition, StreamOwner, CallShape, InCall
<1> QED
  BY <1>3, <1>4

LEMMA BarrierTypes ==
  ASSUME CaptureTypeOK, NEW t \in Threads, write_thread_barrier(t)
  PROVE  /\ trace' \in [Threads -> Seq(Packet)]
         /\ open' \in [Threads -> Packet \cup {NoPacket}]
         /\ found' \in [Threads -> Seq(Nat)]
         /\ frameMutex' = Free
<1> DEFINE at == [i \in Threads |-> IF i < nstreams THEN found[t][i + 1] ELSE 0]
<1>1. /\ found[t] \in Seq(Nat) /\ nstreams \in 0 .. NumThreads /\ Len(found[t]) = nstreams
      /\ call[t].seen \in [Threads -> Nat]
  BY DEF CaptureTypeOK, write_thread_barrier
<1>2. \A i \in Threads : i < nstreams => i + 1 \in 1 .. Len(found[t])
  BY <1>1, NumThreadsAssumption DEF Threads
<1>3. at \in [Threads -> Nat]
  BY <1>1, <1>2
<1>4. BarrierPacket(nstreams, at, call[t].seen) \in Packet
  BY <1>1, <1>3, PacketTypes
<1>5. trace' = [trace EXCEPT ![t] = Append(Ended(t), BarrierPacket(nstreams, at, call[t].seen))]
  BY DEF write_thread_barrier
<1>6. trace' \in [Threads -> Seq(Packet)]
  <2> HIDE DEF at
  <2> QED
    BY <1>4, <1>5, EndedType DEF CaptureTypeOK
<1> QED
  BY <1>6 DEF write_thread_barrier, CaptureTypeOK

LEMMA make_writerTypes ==
  ASSUME CaptureInv, NEW t \in Threads, make_writer(t)
  PROVE  CaptureInv'
<1> USE DEF CaptureInv
<1>1. /\ pc[t] = "join" /\ nstreams' = nstreams + 1 /\ pc' = [pc EXCEPT ![t] = AfterBind(call[t])]
      /\ UNCHANGED <<call, lastModified, state, calls, pending>>
      /\ frameMutex' = Free /\ open' = [open EXCEPT ![t] = NoPacket]
  BY DEF make_writer, write_thread_barrier
<1>2. t = nstreams /\ frameMutex = t /\ nstreams \in Int /\ pc \in [Threads -> PcValues]
  BY <1>1 DEF StreamOwner, CaptureTypeOK
<1>3. \/ AfterBind(call[t]) \in {"header", "command"}
      \/ AfterBind(call[t]) = "pre" /\ call[t].upd \in Objects
  BY DEF AfterBind, AfterPre, CaptureTypeOK
<1>4. nstreams' \in 0 .. NumThreads
  BY <1>1, <1>2, NumThreadsAssumption DEF Threads
<1>5. pc' \in [Threads -> PcValues] /\ \A i \in Threads \ {t} : pc'[i] = pc[i]
  BY <1>1, <1>2, <1>3 DEF PcValues
<1>6. CaptureTypeOK'
  BY <1>1, <1>4, <1>5, BarrierTypes DEF CaptureTypeOK, make_writer
<1>7. StreamOwner'
  <2>1. \A i \in Threads \ {t} : pc[i] \notin {"join", "local", "pushed"}
    BY <1>2 DEF StreamOwner
  <2>2. \A i \in Threads : i \in Int
    BY NumThreadsAssumption DEF Threads
  <2> QED
    BY <1>1, <1>2, <1>3, <1>5, <2>1, <2>2 DEF StreamOwner
<1>8. CallShape'
  <2>1. /\ InCall(t) /\ call[t].kind \in Kinds /\ call[t].obj \in Objects /\ call' = call
        /\ pc'[t] \in {"header", "command", "pre"} /\ (pc'[t] = "pre" => call[t].upd \in Objects)
    BY <1>1, <1>2, <1>3 DEF CallShape, InCall
  <2>2. ASSUME NEW i \in Threads \ {t} PROVE pc'[i] = pc[i] /\ call'[i] = call[i] /\ open'[i] = open[i]
    BY <1>1, <1>5 DEF CaptureTypeOK
  <2> QED
    BY <2>1, <2>2 DEF CallShape, InCall
<1> QED
  BY <1>6, <1>7, <1>8

LEMMA BarrierStepTypes ==
  ASSUME CaptureInv, NEW t \in Threads, LocalBarrier(t) \/ PendingBarrier(t)
  PROVE  CaptureInv'
<1> USE DEF CaptureInv
<1>1. /\ pc[t] \in {"local", "pushed"} /\ nstreams' = nstreams
      /\ pc' = [pc EXCEPT ![t] = "command"] \/ pc' = [pc EXCEPT ![t] = "begin"]
      /\ UNCHANGED <<call, lastModified, state, calls>>
      /\ write_thread_barrier(t)
      /\ frameMutex' = Free /\ open' = [open EXCEPT ![t] = NoPacket]
  BY DEF LocalBarrier, PendingBarrier, write_thread_barrier
<1>2. pending' \in [Threads -> BOOLEAN]
  BY DEF LocalBarrier, PendingBarrier, CaptureTypeOK
<1>3. t < nstreams /\ frameMutex = t /\ pc \in [Threads -> PcValues]
  BY <1>1 DEF StreamOwner, CaptureTypeOK
<1>4. pc' \in [Threads -> PcValues] /\ \A i \in Threads \ {t} : pc'[i] = pc[i]
  BY <1>1, <1>3 DEF PcValues
<1>5. CaptureTypeOK'
  BY <1>1, <1>2, <1>4, BarrierTypes DEF CaptureTypeOK
<1>6. StreamOwner'
  <2>1. \A i \in Threads \ {t} : pc[i] \notin {"join", "local", "pushed"}
    BY <1>3 DEF StreamOwner
  <2> QED
    BY <1>1, <1>3, <1>4, <2>1 DEF StreamOwner
<1>7. CallShape'
  BY <1>1, <1>3, <1>4 DEF CallShape, CaptureTypeOK, InCall
<1> QED
  BY <1>5, <1>6, <1>7

\* A step of t that keeps the streams' owners: t stays out of frame_mutex's regions or enters one.
LEMMA KeepsStreamOwner ==
  ASSUME CaptureInv, NEW t \in Threads, NEW next \in PcValues,
         pc[t] \notin {"idle", "join", "local", "pushed"}, pc' = [pc EXCEPT ![t] = next],
         nstreams' = nstreams, next # "join",
         \/ frameMutex' = frameMutex /\ next \notin {"local", "pushed"}
         \/ frameMutex = Free /\ frameMutex' = t
  PROVE  /\ pc' \in [Threads -> PcValues]
         /\ pc'[t] = next
         /\ \A i \in Threads \ {t} : pc'[i] = pc[i]
         /\ frameMutex' \in Threads \cup {Free}
         /\ StreamOwner'
<1> USE DEF CaptureInv
<1>1. pc \in [Threads -> PcValues] /\ frameMutex \in Threads \cup {Free}
  BY DEF CaptureTypeOK
<1>2. pc' \in [Threads -> PcValues] /\ pc'[t] = next /\ \A i \in Threads \ {t} : pc'[i] = pc[i]
  BY <1>1
<1>3. t < nstreams
  BY DEF StreamOwner
<1>4. \A i \in Threads : i # Free
  BY NumThreadsAssumption DEF Threads, Free
<1> QED
  BY <1>1, <1>2, <1>3, <1>4 DEF StreamOwner

LEMMA UpdateTypes ==
  ASSUME CaptureInv, NEW t \in Threads, BeginUpdate(t) \/ EndUpdate(t)
  PROVE  CaptureInv'
<1> USE DEF CaptureInv
<1>1. /\ trace' = [trace EXCEPT ![t] = Ended(t)]
      /\ UNCHANGED <<nstreams, call, found, pending, frameMutex, lastModified, state, calls>>
  BY DEF BeginUpdate, EndUpdate
<1>2. trace' \in [Threads -> Seq(Packet)]
  BY <1>1, EndedType DEF CaptureTypeOK
<1>3. CASE BeginUpdate(t)
  <2> DEFINE p == UpdatePacket(call[t].upd, lastModified[call[t].upd], call[t].seen)
  <2>1. pc[t] = "pre" /\ call[t].upd \in Objects /\ call[t].seen \in [Threads -> Nat]
    BY <1>3 DEF BeginUpdate, CallShape, CaptureTypeOK
  <2>2. /\ p \in Packet /\ p.type = "update" /\ p.kind = "use"
        /\ p.obj = call[t].upd /\ p.seen = call[t].seen
    BY <2>1, PacketTypes DEF CaptureTypeOK, UpdatePacket
  <2>3. open' = [open EXCEPT ![t] = p] /\ pc' = [pc EXCEPT ![t] = "update"]
    BY <1>3 DEF BeginUpdate
  <2>4. /\ pc' \in [Threads -> PcValues] /\ pc'[t] = "update"
        /\ \A i \in Threads \ {t} : pc'[i] = pc[i]
        /\ StreamOwner'
    BY <1>1, <2>1, <2>3, KeepsStreamOwner DEF PcValues
  <2> HIDE DEF p
  <2>5. CaptureTypeOK'
    BY <1>1, <1>2, <2>2, <2>3, <2>4 DEF CaptureTypeOK
  <2>6. CallShape'
    BY <1>1, <2>1, <2>2, <2>3, <2>4 DEF CallShape, CaptureTypeOK, InCall
  <2> QED
    BY <2>4, <2>5, <2>6
<1>4. CASE EndUpdate(t)
  <2>1. /\ pc[t] = "update" /\ open' = [open EXCEPT ![t] = NoPacket]
        /\ pc' = [pc EXCEPT ![t] = AfterPre(call[t].kind)]
    BY <1>4 DEF EndUpdate
  <2>2. AfterPre(call[t].kind) \in {"header", "command"}
    BY DEF AfterPre
  <2>3. /\ pc' \in [Threads -> PcValues] /\ pc'[t] \in {"header", "command"}
        /\ \A i \in Threads \ {t} : pc'[i] = pc[i]
        /\ StreamOwner'
    BY <1>1, <2>1, <2>2, KeepsStreamOwner DEF PcValues
  <2>4. CaptureTypeOK'
    BY <1>1, <1>2, <2>1, <2>3 DEF CaptureTypeOK
  <2>5. CallShape'
    BY <1>1, <2>1, <2>3 DEF CallShape, CaptureTypeOK, InCall
  <2> QED
    BY <2>3, <2>4, <2>5
<1> QED
  BY <1>3, <1>4

LEMMA HeaderTypes ==
  ASSUME CaptureInv, NEW t \in Threads, write_header(t) \/ write_api_command(t)
  PROVE  CaptureInv'
<1> USE DEF CaptureInv
<1>1. /\ pc[t] \in {"header", "command"}
      /\ UNCHANGED <<trace, nstreams, call, open, found, pending, lastModified, state, calls>>
  BY DEF write_header, write_api_command
<1>2. PICK next \in {"local", "pushed", "begin"} :
        /\ pc' = [pc EXCEPT ![t] = next]
        /\ \/ frameMutex' = frameMutex /\ next = "begin"
           \/ frameMutex = Free /\ frameMutex' = t
  BY DEF write_header, write_api_command
<1>3. /\ pc' \in [Threads -> PcValues] /\ pc'[t] = next
      /\ \A i \in Threads \ {t} : pc'[i] = pc[i]
      /\ frameMutex' \in Threads \cup {Free}
      /\ StreamOwner'
  BY <1>1, <1>2, KeepsStreamOwner DEF PcValues
<1>4. CaptureTypeOK'
  BY <1>1, <1>3 DEF CaptureTypeOK
<1>5. CallShape'
  BY <1>1, <1>3 DEF CallShape, InCall
<1> QED
  BY <1>3, <1>4, <1>5

LEMMA BeginCallTypes ==
  ASSUME CaptureInv, NEW t \in Threads, BeginCall(t)
  PROVE  CaptureInv'
<1> USE DEF CaptureInv
<1> DEFINE c == call[t]
           r == IF c.kind = "create" THEN NoPlace ELSE lastModified[c.obj]
           p == CallPacket(c.kind, c.obj, r, c.seen)
           here == [thread |-> t, packet |-> Len(trace'[t])]
<1>1. /\ pc[t] = "begin" /\ trace' = [trace EXCEPT ![t] = Ended(t)]
      /\ open' = [open EXCEPT ![t] = p]
      /\ lastModified' = lastModified \/ lastModified' = [lastModified EXCEPT ![c.obj] = here]
      /\ pc' = [pc EXCEPT ![t] = "execute"]
      /\ UNCHANGED <<nstreams, call, found, pending, frameMutex, state, calls>>
  BY DEF BeginCall
<1>2. trace' \in [Threads -> Seq(Packet)]
  BY <1>1, EndedType DEF CaptureTypeOK
<1>3. c.kind \in AllKinds /\ c.obj \in Objects /\ c.seen \in [Threads -> Nat]
  BY <1>1, KindsAssumption DEF CallShape, CaptureTypeOK, InCall
<1>4. NoPlace \in Place /\ here \in Place
  BY <1>2 DEF Place, NoPlace
<1>5. r \in Place
  BY <1>3, <1>4 DEF CaptureTypeOK
<1>6. p \in Packet /\ p.type = "call" /\ p.kind = c.kind /\ p.seen = c.seen
  BY <1>3, <1>5, PacketTypes DEF CallPacket
<1>7. lastModified' \in [Objects -> Place]
  <2> HIDE DEF here
  <2> QED
    BY <1>1, <1>3, <1>4 DEF CaptureTypeOK
<1>8. /\ pc' \in [Threads -> PcValues] /\ pc'[t] = "execute"
      /\ \A i \in Threads \ {t} : pc'[i] = pc[i]
      /\ StreamOwner'
  BY <1>1, KeepsStreamOwner DEF PcValues
<1> HIDE DEF p
<1>9. CaptureTypeOK'
  BY <1>1, <1>2, <1>6, <1>7, <1>8 DEF CaptureTypeOK
<1>10. CallShape'
  BY <1>1, <1>3, <1>6, <1>8 DEF CallShape, CaptureTypeOK, InCall
<1> QED
  BY <1>8, <1>9, <1>10

LEMMA ExecuteTypes ==
  ASSUME CaptureInv, NEW t \in Threads, Execute(t)
  PROVE  CaptureInv'
<1> USE DEF CaptureInv
<1> DEFINE c == call[t]
<1>1. /\ pc[t] = "execute" /\ pc' = [pc EXCEPT ![t] = AfterExecute(c.kind)]
      /\ UNCHANGED <<trace, nstreams, call, found, pending, frameMutex, calls>>
  BY DEF Execute
<1>2. /\ open[t] \in Packet /\ open[t].type = "call" /\ open[t].kind = c.kind
      /\ open[t].seen = c.seen /\ c.obj \in Objects
  BY <1>1 DEF CallShape, InCall
<1>3. Here(t) \in Place
  BY DEF Here, CurrentPacket, Place, CaptureTypeOK
<1>4. AfterExecute(c.kind) \in {"push", "end"} \/ (AfterExecute(c.kind) = "leave" /\ c.kind = "sync")
  BY DEF AfterExecute
<1>5. /\ pc' \in [Threads -> PcValues] /\ pc'[t] = AfterExecute(c.kind)
      /\ \A i \in Threads \ {t} : pc'[i] = pc[i]
      /\ StreamOwner'
  BY <1>1, <1>4, KeepsStreamOwner DEF PcValues
<1>6. /\ state' \in [Objects -> {"uninitialized", "created", "destroyed"}]
      /\ lastModified' \in [Objects -> Place]
  BY <1>2, <1>3 DEF Execute, CaptureTypeOK
<1>7. /\ open' \in [Threads -> Packet \cup {NoPacket}]
      /\ open'[t] \in Packet /\ open'[t].type = "call" /\ open'[t].kind = c.kind
      /\ open'[t].seen = c.seen
      /\ \A i \in Threads \ {t} : open'[i] = open[i]
  <2>1. CASE open' = open
    BY <1>2, <2>1 DEF CaptureTypeOK
  <2>2. CASE open' = [open EXCEPT ![t].req = Here(t)]
    <3>1. open' = [open EXCEPT ![t] = [open[t] EXCEPT !.req = Here(t)]]
      BY <2>2
    <3>2. /\ [open[t] EXCEPT !.req = Here(t)] \in Packet
          /\ [open[t] EXCEPT !.req = Here(t)].type = "call"
          /\ [open[t] EXCEPT !.req = Here(t)].kind = c.kind
          /\ [open[t] EXCEPT !.req = Here(t)].seen = c.seen
      BY <1>2, <1>3 DEF Packet
    <3> QED
      BY <3>1, <3>2 DEF CaptureTypeOK
  <2>3. CASE open' = [open EXCEPT ![t].obj = NoObject]
    <3>1. open' = [open EXCEPT ![t] = [open[t] EXCEPT !.obj = NoObject]]
      BY <2>3
    <3>2. /\ [open[t] EXCEPT !.obj = NoObject] \in Packet
          /\ [open[t] EXCEPT !.obj = NoObject].type = "call"
          /\ [open[t] EXCEPT !.obj = NoObject].kind = c.kind
          /\ [open[t] EXCEPT !.obj = NoObject].seen = c.seen
      BY <1>2 DEF Packet
    <3> QED
      BY <3>1, <3>2 DEF CaptureTypeOK
  <2> QED
    BY <2>1, <2>2, <2>3 DEF Execute
<1>8. CaptureTypeOK'
  BY <1>1, <1>5, <1>6, <1>7 DEF CaptureTypeOK
<1>9. CallShape'
  BY <1>1, <1>2, <1>4, <1>5, <1>7 DEF CallShape, InCall
<1> QED
  BY <1>5, <1>8, <1>9

LEMMA ReturnTypes ==
  ASSUME CaptureInv, NEW t \in Threads, push_thread_barriers(t) \/ end_packet(t) \/ LeaveOpen(t)
  PROVE  CaptureInv'
<1> USE DEF CaptureInv
<1>1. /\ pc[t] \in {"push", "end", "leave"}
      /\ UNCHANGED <<nstreams, found, frameMutex, lastModified, state, calls>>
  BY DEF push_thread_barriers, end_packet, LeaveOpen
<1>2. PICK next \in {"end", "idle"} : pc' = [pc EXCEPT ![t] = next] /\ (next = "end" => push_thread_barriers(t))
  BY DEF push_thread_barriers, end_packet, LeaveOpen
<1>3. /\ pc' \in [Threads -> PcValues] /\ pc'[t] = next
      /\ \A i \in Threads \ {t} : pc'[i] = pc[i]
      /\ StreamOwner'
  BY <1>1, <1>2, KeepsStreamOwner DEF PcValues
<1>4. trace' \in [Threads -> Seq(Packet)]
  <2>1. trace' = trace \/ trace' = [trace EXCEPT ![t] = Ended(t)]
    BY DEF push_thread_barriers, end_packet, LeaveOpen
  <2> QED
    BY <2>1, EndedType DEF CaptureTypeOK
<1>5. pending' \in [Threads -> BOOLEAN]
  BY DEF push_thread_barriers, end_packet, LeaveOpen, CaptureTypeOK
<1>6. /\ call' \in [Threads -> [kind : AllKinds \cup {"none"}, obj : Objects \cup {NoObject},
                                upd : Objects \cup {NoObject}, seen : [Threads -> Nat]]]
      /\ \A i \in Threads \ {t} : call'[i] = call[i]
  <2>1. NoCall \in [kind : AllKinds \cup {"none"}, obj : Objects \cup {NoObject},
                    upd : Objects \cup {NoObject}, seen : [Threads -> Nat]]
    BY DEF NoCall
  <2>2. call' = call \/ call' = [call EXCEPT ![t] = NoCall]
    BY DEF push_thread_barriers, end_packet, LeaveOpen
  <2> QED
    BY <2>1, <2>2, ZenonT(60) DEF CaptureTypeOK
<1>7. /\ open' \in [Threads -> Packet \cup {NoPacket}]
      /\ \A i \in Threads \ {t} : open'[i] = open[i]
  BY DEF push_thread_barriers, end_packet, LeaveOpen, CaptureTypeOK
<1>8. CaptureTypeOK'
  BY <1>1, <1>3, <1>4, <1>5, <1>6, <1>7 DEF CaptureTypeOK
<1>9. CallShape'
  <2>1. CASE next = "idle"
    BY <1>3, <1>6, <1>7, <2>1 DEF CallShape, InCall
  <2>2. CASE next = "end"
    BY <1>2, <1>3, <2>2 DEF CallShape, InCall, push_thread_barriers
  <2> QED
    BY <2>1, <2>2
<1> QED
  BY <1>3, <1>8, <1>9

LEMMA CaptureKeepsTypes ==
  ASSUME CaptureInv, CaptureNext
  PROVE  CaptureInv'
<1> PICK t \in Threads : CaptureStep(t)
  BY DEF CaptureNext
<1> QED
  BY CallTypes, CollectPositionTypes, make_writerTypes, BarrierStepTypes, UpdateTypes, HeaderTypes,
     BeginCallTypes, ExecuteTypes, ReturnTypes DEF CaptureStep

LEMMA FinishKeepsTypes ==
  ASSUME CaptureInv, FinishCapture
  PROVE  CaptureInv'
<1>1. trace' \in [Threads -> Seq(Packet)]
  BY EndedType DEF FinishCapture, CaptureInv
<1>2. CaptureTypeOK'
  BY <1>1 DEF FinishCapture, CaptureInv, CaptureTypeOK
<1>3. StreamOwner' /\ CallShape'
  BY DEF FinishCapture, CaptureInv, StreamOwner, CallShape, CaptureIdle, InCall
<1> QED
  BY <1>2, <1>3 DEF CaptureInv

(***************************************************************************)
(* The replay's half: every thread stays inside its stream.                *)
(***************************************************************************)
ReplayInv == ReplayTypeOK /\ ReplayPosition

LEMMA stepTypes ==
  ASSUME CaptureTypeOK, ReplayInv, NEW t \in Threads, step(t), trace' = trace
  PROVE  ReplayInv'
<1> USE DEF ReplayInv
<1>1. /\ rpc[t] = "step" /\ UNCHANGED <<waitIndex, robj, stop>>
      /\ completed' = IF packetOpen[t] THEN [completed EXCEPT ![t] = @ + 1] ELSE completed
  BY DEF step, complete_packet
<1>2. /\ completed \in [Threads -> Nat] /\ Len(trace[t]) \in Nat
      /\ completed[t] <= Len(trace[t]) /\ (packetOpen[t] => completed[t] < Len(trace[t]))
  BY DEF ReplayTypeOK, CaptureTypeOK, ReplayPosition
<1>3. /\ completed' \in [Threads -> Nat]
      /\ completed'[t] <= Len(trace[t])
      /\ \A i \in Threads \ {t} : completed'[i] = completed[i]
  BY <1>1, <1>2
<1>4. PICK b \in BOOLEAN, next \in {"terminated", "barrier", "handle"} :
        /\ packetOpen' = [packetOpen EXCEPT ![t] = b]
        /\ rpc' = [rpc EXCEPT ![t] = next]
        /\ b <=> next # "terminated"
        /\ b => completed'[t] # Len(trace[t])
        /\ b => next = IF trace[t][completed'[t] + 1].type = "barrier" THEN "barrier" ELSE "handle"
  BY DEF step
<1>5. /\ packetOpen' \in [Threads -> BOOLEAN] /\ packetOpen'[t] = b
      /\ \A i \in Threads \ {t} : packetOpen'[i] = packetOpen[i]
  BY <1>4 DEF ReplayTypeOK
<1>6. /\ rpc' \in [Threads -> {"step", "barrier", "waiting", "handle", "execute", "terminated"}]
      /\ rpc'[t] = next
      /\ \A i \in Threads \ {t} : rpc'[i] = rpc[i]
  BY <1>4 DEF ReplayTypeOK
<1>7. ReplayTypeOK'
  <2>1. stop' \in BOOLEAN
    BY <1>1 DEF ReplayTypeOK
  <2> QED
    BY <1>1, <1>3, <1>5, <1>6, <2>1 DEF ReplayTypeOK
<1>8. ReplayPosition'
  BY <1>1, <1>2, <1>3, <1>4, <1>5, <1>6 DEF ReplayPosition, OpenPacket, LastBarrier
<1> QED
  BY <1>7, <1>8

LEMMA EnterBarrierTypes ==
  ASSUME CaptureTypeOK, ReplayInv, NEW t \in Threads, EnterBarrier(t), trace' = trace
  PROVE  ReplayInv'
<1> USE DEF ReplayInv
<1>1. /\ rpc[t] = "barrier" /\ UNCHANGED <<robj, stop>>
      /\ completed' = [completed EXCEPT ![t] = @ + 1]
      /\ packetOpen' = [packetOpen EXCEPT ![t] = FALSE]
      /\ waitIndex' = [waitIndex EXCEPT ![t] = 0]
      /\ rpc' = [rpc EXCEPT ![t] = "waiting"]
  BY DEF EnterBarrier, complete_packet, ReplayPosition
<1>2. /\ completed \in [Threads -> Nat] /\ Len(trace[t]) \in Nat
      /\ completed[t] < Len(trace[t])
  BY <1>1 DEF ReplayTypeOK, CaptureTypeOK, ReplayPosition
<1>3. /\ completed' \in [Threads -> Nat]
      /\ completed'[t] = completed[t] + 1
      /\ \A i \in Threads \ {t} : completed'[i] = completed[i]
  BY <1>1, <1>2
<1>4. /\ packetOpen' \in [Threads -> BOOLEAN] /\ packetOpen'[t] = FALSE
      /\ \A i \in Threads \ {t} : packetOpen'[i] = packetOpen[i]
  BY <1>1 DEF ReplayTypeOK
<1>5. /\ rpc' \in [Threads -> {"step", "barrier", "waiting", "handle", "execute", "terminated"}]
      /\ rpc'[t] = "waiting"
      /\ \A i \in Threads \ {t} : rpc'[i] = rpc[i]
  BY <1>1 DEF ReplayTypeOK
<1>6. /\ waitIndex' \in [Threads -> 0 .. NumThreads] /\ waitIndex'[t] = 0
      /\ \A i \in Threads \ {t} : waitIndex'[i] = waitIndex[i]
  BY <1>1, NumThreadsAssumption DEF ReplayTypeOK
<1>7. ReplayTypeOK'
  <2>1. stop' \in BOOLEAN
    BY <1>1 DEF ReplayTypeOK
  <2> QED
    BY <1>1, <1>3, <1>4, <1>5, <1>6, <2>1 DEF ReplayTypeOK
<1>8. trace[t][completed[t] + 1].size \in Nat
  <2>1. completed[t] + 1 \in 1 .. Len(trace[t])
    BY <1>2
  <2> QED
    BY <2>1, PacketAt, NumThreadsAssumption
<1>9. ReplayPosition'
  <2>1. \A i \in Threads \ {t} : OpenPacket(i)' = OpenPacket(i) /\ LastBarrier(i)' = LastBarrier(i)
    BY <1>3 DEF OpenPacket, LastBarrier
  <2>2. LastBarrier(t)'.size \in Nat
    BY <1>3, <1>8 DEF LastBarrier
  <2>3. waitIndex'[t] <= LastBarrier(t)'.size /\ completed'[t] > 0 /\ completed'[t] <= Len(trace[t])
    BY <1>2, <1>3, <1>6, <2>2
  <2>4. \A i \in Threads \ {t} : completed'[i] = completed[i] /\ packetOpen'[i] = packetOpen[i]
                                /\ rpc'[i] = rpc[i] /\ waitIndex'[i] = waitIndex[i]
    BY <1>3, <1>4, <1>5, <1>6
  <2> QED
    BY <1>4, <1>5, <2>1, <2>3, <2>4 DEF ReplayPosition
<1> QED
  BY <1>7, <1>9

LEMMA PassBarrierTypes ==
  ASSUME CaptureTypeOK, ReplayInv, NEW t \in Threads, PassBarrier(t), trace' = trace
  PROVE  ReplayInv'
<1> USE DEF ReplayInv
<1>1. /\ rpc[t] = "waiting" /\ UNCHANGED <<completed, packetOpen, robj, stop>>
      /\ \/ /\ waitIndex[t] < LastBarrier(t).size
            /\ waitIndex' = [waitIndex EXCEPT ![t] = waitIndex[t] + 1]
            /\ rpc' = rpc
         \/ rpc' = [rpc EXCEPT ![t] = "step"] /\ waitIndex' = waitIndex
  BY DEF PassBarrier
<1>2. /\ completed[t] \in 1 .. Len(trace[t]) /\ ~packetOpen[t]
      /\ waitIndex[t] \in 0 .. NumThreads
  BY <1>1 DEF ReplayTypeOK, CaptureTypeOK, ReplayPosition
<1>3. LastBarrier(t).size \in 0 .. NumThreads
  BY <1>2, PacketAt DEF LastBarrier
<1>4. /\ waitIndex' \in [Threads -> 0 .. NumThreads]
      /\ \A i \in Threads \ {t} : waitIndex'[i] = waitIndex[i]
      /\ rpc'[t] = "waiting" => waitIndex'[t] <= LastBarrier(t).size
  BY <1>1, <1>2, <1>3, NumThreadsAssumption, SMTT(30) DEF ReplayTypeOK
<1>5. /\ rpc' \in [Threads -> {"step", "barrier", "waiting", "handle", "execute", "terminated"}]
      /\ rpc'[t] \in {"waiting", "step"}
      /\ \A i \in Threads \ {t} : rpc'[i] = rpc[i]
  BY <1>1 DEF ReplayTypeOK
<1>6. ReplayTypeOK'
  <2>1. stop' \in BOOLEAN
    BY <1>1 DEF ReplayTypeOK
  <2> QED
    BY <1>1, <1>4, <1>5, <2>1 DEF ReplayTypeOK
<1>7. ReplayPosition'
  BY <1>1, <1>2, <1>4, <1>5 DEF ReplayPosition, OpenPacket, LastBarrier
<1> QED
  BY <1>6, <1>7

LEMMA PacketStepTypes ==
  ASSUME CaptureTypeOK, ReplayInv, NEW t \in Threads, trace' = trace,
         read_handle(t) \/ StopWhileWaiting(t) \/ Replay(t) \/ ReplayFails(t)
  PROVE  ReplayInv'
<1> USE DEF ReplayInv
<1>1. UNCHANGED <<completed, packetOpen, waitIndex>>
  BY DEF read_handle, StopWhileWaiting, Replay, ReplayFails
<1>2. PICK next \in {"execute", "terminated", "step"} :
        /\ rpc' = [rpc EXCEPT ![t] = next]
        /\ next = "execute" => rpc[t] = "handle"
        /\ next = "step" => rpc[t] = "execute"
  BY DEF read_handle, StopWhileWaiting, Replay, ReplayFails
<1>3. /\ rpc' \in [Threads -> {"step", "barrier", "waiting", "handle", "execute", "terminated"}]
      /\ rpc'[t] = next
      /\ \A i \in Threads \ {t} : rpc'[i] = rpc[i]
  BY <1>2 DEF ReplayTypeOK
<1>4. robj' \in [Objects -> {"uninitialized", "created", "destroyed"}]
  <2>1. CASE Replay(t)
    <3>1. packetOpen[t] /\ completed[t] \in Nat /\ completed[t] < Len(trace[t])
      BY <2>1 DEF Replay, ReplayPosition, ReplayTypeOK
    <3>2. OpenPacket(t) \in Packet
      BY <3>1 DEF OpenPacket, CaptureTypeOK
    <3>3. OpenPacket(t).obj \in Objects \cup {NoObject}
      BY <3>2 DEF Packet
    <3> QED
      BY <2>1, <3>3 DEF Replay, ReplayTypeOK
  <2>2. CASE robj' = robj
    BY <2>2 DEF ReplayTypeOK
  <2> QED
    BY <2>1, <2>2 DEF read_handle, StopWhileWaiting, ReplayFails
<1>5. stop' \in BOOLEAN
  BY DEF read_handle, StopWhileWaiting, Replay, ReplayFails, ReplayTypeOK
<1>6. ReplayTypeOK'
  BY <1>1, <1>3, <1>4, <1>5 DEF ReplayTypeOK
<1>7. ReplayPosition'
  BY <1>1, <1>2, <1>3 DEF ReplayPosition, OpenPacket, LastBarrier
<1> QED
  BY <1>6, <1>7

LEMMA StopTypes ==
  ASSUME ReplayInv, request_stop, trace' = trace
  PROVE  ReplayInv'
<1>1. stop' \in BOOLEAN
  BY DEF request_stop
<1> QED
  BY <1>1 DEF request_stop, ReplayInv, ReplayTypeOK, ReplayPosition, OpenPacket, LastBarrier

LEMMA NextTypeInv == TypeInv /\ [Next]_vars => TypeInv'
<1> SUFFICES ASSUME TypeInv, [Next]_vars PROVE TypeInv'
  OBVIOUS
<1> USE DEF TypeInv, TypeOK
<1>1. CASE Capture
  <2>1. CaptureInv'
    BY <1>1, CaptureKeepsTypes DEF Capture, CaptureInv
  <2>2. ReplayTypeOK' /\ CaptureFirst'
    BY <1>1 DEF Capture, replayVars, ReplayTypeOK, CaptureFirst, ReplayInit
  <2> QED
    BY <1>1, <2>1, <2>2 DEF Capture, CaptureInv
<1>2. CASE Finish
  <2>1. CaptureInv'
    BY <1>2, FinishKeepsTypes DEF Finish, CaptureInv
  <2>2. ReplayTypeOK' /\ CaptureFirst'
    BY <1>2 DEF Finish, replayVars, ReplayTypeOK, CaptureFirst
  <2>3. ReplayInit'
    BY <1>2 DEF Finish, replayVars, CaptureFirst, ReplayInit
  <2>4. ReplayPosition'
    <3>1. \A t \in Threads : completed'[t] = 0 /\ rpc'[t] = "step" /\ ~packetOpen'[t]
      BY <2>3 DEF ReplayInit
    <3>2. \A t \in Threads : Len(trace'[t]) \in Nat
      BY <2>1 DEF CaptureInv, CaptureTypeOK
    <3> QED
      BY <3>1, <3>2 DEF ReplayPosition
  <2> QED
    BY <1>2, <2>1, <2>2, <2>4 DEF Finish, CaptureInv
<1>3. CASE phase = "replay" /\ UNCHANGED <<captureVars, phase>> /\ ReplayInv'
  BY <1>3 DEF captureVars, CaptureTypeOK, StreamOwner, CallShape, InCall, CaptureFirst, ReplayInv
<1>4. ASSUME NEW t \in Threads, ReplayBy(t) \/ Fail(t) PROVE TypeInv'
  <2>1. phase = "replay" /\ UNCHANGED <<captureVars, phase>> /\ trace' = trace
    BY <1>4 DEF ReplayBy, Fail, captureVars
  <2>2. ReplayInv
    BY <2>1 DEF ReplayInv
  <2>3. ReplayInv'
    BY <1>4, <2>1, <2>2, stepTypes, EnterBarrierTypes, PassBarrierTypes, PacketStepTypes
       DEF ReplayBy, Fail, ReplayThread
  <2> QED
    BY <1>3, <2>1, <2>3
<1>5. CASE Stop
  <2>1. phase = "replay" /\ UNCHANGED <<captureVars, phase>> /\ trace' = trace /\ request_stop
    BY <1>5 DEF Stop, captureVars
  <2>2. ReplayInv'
    BY <2>1, StopTypes DEF ReplayInv
  <2> QED
    BY <1>3, <2>1, <2>2
<1>6. CASE UNCHANGED vars
  <2>1. UNCHANGED captureVars /\ UNCHANGED replayVars /\ phase' = phase
    BY <1>6 DEF vars
  <2>2. CaptureTypeOK' /\ StreamOwner' /\ CallShape'
    BY <2>1 DEF captureVars, CaptureTypeOK, StreamOwner, CallShape, InCall
  <2>3. ReplayTypeOK' /\ CaptureFirst'
    BY <2>1 DEF replayVars, ReplayTypeOK, CaptureFirst, ReplayInit
  <2>4. phase = "replay" => ReplayPosition'
    BY <2>1 DEF captureVars, replayVars, ReplayPosition, OpenPacket, LastBarrier
  <2> QED
    BY <2>1, <2>2, <2>3, <2>4
<1> QED
  BY <1>1, <1>2, <1>4, <1>5, <1>6 DEF Next, Done

(***************************************************************************)
(* The variables keep their types, for any number of threads, objects and  *)
(* calls.  What has to be shown is that a replay thread never leaves its   *)
(* stream and that read_barrier never waits for a stream that no thread    *)
(* made.                                                                   *)
(***************************************************************************)
THEOREM TypeCorrect == Spec => []TypeOK
<1>1. TypeInv => TypeOK
  BY DEF TypeInv
<1> QED
  BY InitTypeInv, NextTypeInv, <1>1, PTL DEF Spec
=============================================================================
