---------------------------- MODULE BarrierProofs -----------------------------
(***************************************************************************)
(* The order that barriers carry from the captured run to its replay, for  *)
(* any number of threads, objects and calls: first the barriers that a     *)
(* thread writes for itself, then the ones that it asks the others for.    *)
(***************************************************************************)
EXTENDS CaptureReplayProofs

(***************************************************************************)
(* The order that local barriers carry from the captured run to its        *)
(* replay, for any number of threads, objects and calls.                   *)
(*                                                                         *)
(* The argument.  Before a destroy, reset, present or submit writes its    *)
(* packet it writes a barrier whose position of every other stream is at   *)
(* least what had returned when the call was made: positions only grow,    *)
(* and they are collected after the call was made.  A replay thread that   *)
(* is past a barrier has seen every other thread reach those positions.    *)
(* A wrapper that leaves its packet open breaks the first half, so the     *)
(* theorem assumes that the application does not call vkSyncBuffer.        *)
(***************************************************************************)

\* A barrier among the first n packets of t waits for all that seen counts on the other threads.
Covers(p, t, seen) == p.type = "barrier" /\ \A i \in Threads \ {t} : seen[i] <= p.at[i]

Covered(stream, t, n, seen) == \E j \in 1 .. n : Covers(stream[j], t, seen)

NeedsCover(p) == p.type = "call" /\ HasLocalBarrier(p.kind)

\* The packets that have been written.
CallsCovered ==
  \A t \in Threads : \A j \in 1 .. Len(trace[t]) :
    NeedsCover(trace[t][j]) => /\ trace[t][j].seen[t] < j
                               /\ Covered(trace[t], t, j - 1, trace[t][j].seen)

BarrierSizes ==
  \A t \in Threads : \A j \in 1 .. Len(trace[t]) :
    trace[t][j].type = "barrier" =>
      \A i \in Threads : i >= trace[t][j].size => trace[t][j].at[i] = 0

NoStreamNoPackets == \A t \in Threads : t >= nstreams => trace[t] = <<>>

\* The threads that are writing.
NothingOpen(t) == pc[t] \notin {"update", "execute", "push", "end"} => open[t] = NoPacket

SeenBehind(t) == InCall(t) => \A i \in Threads : call[t].seen[i] <= Len(trace[i])

FoundBehind(t) ==
  /\ pc[t] \notin {"join", "local", "pushed"} => found[t] = <<>>
  /\ pc[t] = "local" => \A i \in Threads : i < Len(found[t]) => call[t].seen[i] <= found[t][i + 1]

CallCovered(t) ==
  pc[t] \in {"command", "pushed", "begin", "execute", "push", "end"} /\ HasLocalBarrier(call[t].kind)
    => Covered(trace[t], t, Len(trace[t]), call[t].seen)

WriterAt(t) == NothingOpen(t) /\ SeenBehind(t) /\ FoundBehind(t) /\ CallCovered(t)

PacketsInv == CallsCovered /\ BarrierSizes
WriterInv  == NoStreamNoPackets /\ \A t \in Threads : WriterAt(t)

\* The barriers a replay thread is past, and the one it stands at.
Passed(t, j) == \A i \in Threads \ {t} : trace[t][j].at[i] <= completed[i]

BarriersPassed ==
  \A t \in Threads : \A j \in 1 .. completed[t] :
    /\ trace[t][j].type = "barrier"
    /\ j < completed[t] \/ rpc[t] \notin {"waiting", "terminated"}
    => Passed(t, j)

PassingBarrier ==
  \A t \in Threads :
    rpc[t] = "waiting" => /\ LastBarrier(t).type = "barrier"
                          /\ \A i \in Threads \ {t} :
                               i < waitIndex[t] => LastBarrier(t).at[i] <= completed[i]

ReaderInv == BarriersPassed /\ PassingBarrier

OrderInv ==
  /\ TypeInv /\ PacketsInv
  /\ phase = "capture" => WriterInv
  /\ phase = "replay" => ReaderInv

(***************************************************************************)
(* What appending a packet does to a stream, to the barriers that cover a  *)
(* call and to the packets already written.                                *)
(***************************************************************************)
Appends(t, p) == trace' = [trace EXCEPT ![t] = Append(trace[t], p)]

LEMMA AppendedStream ==
  ASSUME CaptureTypeOK, NEW t \in Threads, NEW p \in Packet, Appends(t, p)
  PROVE  /\ Len(trace'[t]) = Len(trace[t]) + 1 /\ trace'[t][Len(trace[t]) + 1] = p
         /\ \A j \in 1 .. Len(trace[t]) : trace'[t][j] = trace[t][j]
         /\ \A i \in Threads \ {t} : trace'[i] = trace[i]
         /\ \A i \in Threads : Len(trace[i]) \in Nat /\ Len(trace[i]) <= Len(trace'[i])
BY DEF CaptureTypeOK, Appends

LEMMA CoveredGrows ==
  ASSUME CaptureTypeOK, NEW t \in Threads, NEW p \in Packet, Appends(t, p),
         NEW i \in Threads, NEW n \in 0 .. Len(trace[i]), NEW m \in Nat, n <= m, NEW s,
         Covered(trace[i], i, n, s)
  PROVE  Covered(trace'[i], i, m, s)
<1>1. PICK j \in 1 .. n : Covers(trace[i][j], i, s)
  BY DEF Covered
<1>2. trace'[i][j] = trace[i][j]
  BY AppendedStream
<1>3. j \in 1 .. m
  OBVIOUS
<1> QED
  BY <1>1, <1>2, <1>3 DEF Covered

LEMMA AppendKeepsPackets ==
  ASSUME CaptureTypeOK, PacketsInv, NEW t \in Threads, NEW p \in Packet, Appends(t, p),
         p.type = "barrier" => \A i \in Threads : i >= p.size => p.at[i] = 0,
         NeedsCover(p) => /\ p.seen[t] <= Len(trace[t])
                          /\ Covered(trace[t], t, Len(trace[t]), p.seen)
  PROVE  PacketsInv'
<1> USE DEF PacketsInv
<1> DEFINE n == Len(trace[t])
<1>0. /\ n \in Nat /\ Len(trace'[t]) = n + 1 /\ trace'[t][n + 1] = p
      /\ \A j \in 1 .. n : trace'[t][j] = trace[t][j]
      /\ \A i \in Threads \ {t} : trace'[i] = trace[i]
  BY AppendedStream
<1>1. p.seen \in [Threads -> Nat]
  BY DEF Packet
<1> HIDE DEF n
<1>2. BarrierSizes'
  <2> SUFFICES ASSUME NEW i \in Threads, NEW j \in 1 .. Len(trace'[i]), trace'[i][j].type = "barrier"
               PROVE  \A k \in Threads : k >= trace'[i][j].size => trace'[i][j].at[k] = 0
    BY DEF BarrierSizes
  <2>1. CASE i = t /\ j = n + 1
    BY <1>0, <2>1
  <2>2. CASE i # t \/ j # n + 1
    <3>1. j \in 1 .. Len(trace[i]) /\ trace'[i][j] = trace[i][j]
      BY <1>0, <2>2 DEF n
    <3> QED
      BY <3>1 DEF BarrierSizes
  <2> QED
    BY <2>1, <2>2
<1>3. CallsCovered'
  <2> SUFFICES ASSUME NEW i \in Threads, NEW j \in 1 .. Len(trace'[i]), NeedsCover(trace'[i][j])
               PROVE  /\ trace'[i][j].seen[i] < j
                      /\ Covered(trace'[i], i, j - 1, trace'[i][j].seen)
    BY DEF CallsCovered, NeedsCover
  <2>1. CASE i = t /\ j = n + 1
    <3>1. p.seen[t] < j
      BY <1>0, <1>1, <2>1 DEF n
    <3>2. Covered(trace'[t], t, n, p.seen)
      <4>1. Covered(trace[t], t, n, p.seen)
        BY <1>0, <2>1 DEF n
      <4>2. n \in 0 .. Len(trace[t]) /\ n \in Nat /\ n <= n
        BY <1>0 DEF n
      <4> QED
        BY <4>1, <4>2, CoveredGrows
    <3> QED
      BY <1>0, <2>1, <3>1, <3>2
  <2>2. CASE i # t \/ j # n + 1
    <3>1. j \in 1 .. Len(trace[i]) /\ trace'[i][j] = trace[i][j] /\ Len(trace[i]) \in Nat
      BY <1>0, <2>2, AppendedStream DEF n
    <3>2. trace[i][j].seen[i] < j /\ Covered(trace[i], i, j - 1, trace[i][j].seen)
      BY <3>1 DEF CallsCovered
    <3>3. j - 1 \in 0 .. Len(trace[i]) /\ j - 1 \in Nat /\ j - 1 <= j - 1
      BY <3>1
    <3> QED
      BY <3>1, <3>2, <3>3, CoveredGrows
  <2> QED
    BY <2>1, <2>2
<1> QED
  BY <1>2, <1>3

(***************************************************************************)
(* A step of t, which may append one packet to its own stream, leaves the  *)
(* other threads where they are.                                           *)
(***************************************************************************)
StepOf(t) ==
  /\ \A i \in Threads \ {t} : /\ pc'[i] = pc[i] /\ call'[i] = call[i]
                              /\ open'[i] = open[i] /\ found'[i] = found[i]
  /\ trace' = trace \/ \E p \in Packet : Appends(t, p)
  /\ \/ nstreams' = nstreams /\ (trace' = trace \/ t < nstreams)
     \/ nstreams' = nstreams + 1 /\ t = nstreams

LEMMA BasicTypes ==
  ASSUME CaptureTypeOK
  PROVE  /\ nstreams \in Nat
         /\ \A i \in Threads : i \in Nat
         /\ \A i \in Threads : Len(trace[i]) \in Nat
         /\ \A i, k \in Threads : call[i].seen[k] \in Nat
<1>1. nstreams \in Nat /\ \A i \in Threads : i \in Nat
  BY NumThreadsAssumption DEF CaptureTypeOK, Threads
<1>2. \A i \in Threads : Len(trace[i]) \in Nat
  BY DEF CaptureTypeOK
<1>3. \A i \in Threads : call[i].seen \in [Threads -> Nat]
  BY DEF CaptureTypeOK
<1> QED
  BY <1>1, <1>2, <1>3

LEMMA OtherWriters ==
  ASSUME CaptureTypeOK, WriterInv, NEW t \in Threads, StepOf(t), WriterAt(t)'
  PROVE  WriterInv'
<1> USE DEF WriterInv
<1>0. /\ nstreams \in Nat
      /\ \A i \in Threads : i \in Nat /\ Len(trace[i]) \in Nat
      /\ \A i, k \in Threads : call[i].seen[k] \in Nat
  BY BasicTypes
<1>1. /\ \A i \in Threads : Len(trace'[i]) \in Nat /\ Len(trace[i]) <= Len(trace'[i])
      /\ \A i \in Threads \ {t} : trace'[i] = trace[i]
  <2>1. CASE trace' = trace
    BY <1>0, <2>1
  <2>2. CASE \E p \in Packet : Appends(t, p)
    BY <1>0, <2>2, AppendedStream
  <2> QED
    BY <2>1, <2>2 DEF StepOf
<1>2. NoStreamNoPackets'
  BY <1>0, <1>1 DEF NoStreamNoPackets, StepOf
<1>3. ASSUME NEW i \in Threads \ {t} PROVE WriterAt(i)'
  <2>1. /\ pc'[i] = pc[i] /\ call'[i] = call[i] /\ open'[i] = open[i] /\ found'[i] = found[i]
        /\ trace'[i] = trace[i] /\ WriterAt(i)
    BY <1>1, <1>3 DEF StepOf
  <2>2. SeenBehind(i)'
    <3>1. InCall(i)' = InCall(i) /\ SeenBehind(i)
      BY <2>1 DEF WriterAt, InCall
    <3>2. \A k \in Threads : call[i].seen[k] <= Len(trace[k]) => call[i].seen[k] <= Len(trace'[k])
      BY <1>0, <1>1
    <3> QED
      BY <2>1, <3>1, <3>2 DEF SeenBehind
  <2>3. NothingOpen(i)' /\ FoundBehind(i)' /\ CallCovered(i)'
    BY <2>1 DEF WriterAt, NothingOpen, FoundBehind, CallCovered
  <2> QED
    BY <2>2, <2>3 DEF WriterAt
<1> QED
  BY <1>2, <1>3

LEMMA SameTraceSamePackets == PacketsInv /\ trace' = trace => PacketsInv'
BY DEF PacketsInv, CallsCovered, BarrierSizes, NeedsCover, Covered, Covers

\* Ended(t) where the thread has nothing open, and where it has.
LEMMA EndedOf ==
  ASSUME CaptureTypeOK, NEW t \in Threads
  PROVE  /\ open[t] = NoPacket => Ended(t) = trace[t] /\ [trace EXCEPT ![t] = Ended(t)] = trace
         /\ open[t] \in Packet => Ended(t) = Append(trace[t], open[t])
BY NoPacketIsNone DEF Ended, CaptureTypeOK

LEMMA CallOrder ==
  ASSUME CaptureInv, PacketsInv, WriterInv, NEW t \in Threads, Call(t)
  PROVE  PacketsInv' /\ WriterInv'
<1>1. /\ pc[t] = "idle" /\ UNCHANGED <<trace, nstreams, open, found>>
      /\ \E k, o, u : call' = [call EXCEPT ![t] = [kind |-> k, obj |-> o, upd |-> u,
                                                   seen |-> [i \in Threads |-> Returned(i)]]]
  BY DEF Call
<1>2. /\ \A i \in Threads \ {t} : pc'[i] = pc[i]
      /\ \/ pc'[t] \in {"join", "pre", "header"}
         \/ pc'[t] = "command" /\ ~HasLocalBarrier(call'[t].kind)
  <2>1. pc' = [pc EXCEPT ![t] = "join"] \/ pc' = [pc EXCEPT ![t] = AfterBind(call'[t])]
    BY DEF Call
  <2>2. \/ AfterBind(call'[t]) \in {"pre", "header"}
        \/ AfterBind(call'[t]) = "command" /\ ~HasLocalBarrier(call'[t].kind)
    BY DEF AfterBind, AfterPre
  <2> QED
    BY <2>1, <2>2 DEF CaptureInv, CaptureTypeOK
<1>3. /\ \A i \in Threads \ {t} : call'[i] = call[i]
      /\ call'[t].seen = [i \in Threads |-> Returned(i)]
  BY <1>1 DEF CaptureInv, CaptureTypeOK
<1>4. \A i \in Threads : Returned(i) = Len(trace[i])
  <2>1. \A i \in Threads : Len(trace[i]) \in Nat
    BY BasicTypes DEF CaptureInv
  <2>2. \A i \in Threads : pc[i] = "idle" => open[i] = NoPacket
    BY DEF WriterInv, WriterAt, NothingOpen
  <2>3. \A i \in Threads : (IF ~InCall(i) /\ open[i] # NoPacket THEN 1 ELSE 0) = 0
    BY <2>2 DEF InCall
  <2>4. \A i \in Threads : Returned(i) = Len(trace[i]) + 0
    BY <2>3 DEF Returned, CurrentPacket
  <2> QED
    BY <2>1, <2>4
<1>5. SeenBehind(t)'
  BY <1>1, <1>3, <1>4, BasicTypes DEF SeenBehind, CaptureInv
<1>6. NothingOpen(t)' /\ FoundBehind(t)' /\ CallCovered(t)'
  BY <1>1, <1>2, <1>3 DEF NothingOpen, FoundBehind, CallCovered, WriterInv, WriterAt
<1>7. StepOf(t)
  BY <1>1, <1>2, <1>3 DEF StepOf
<1> QED
  BY <1>1, <1>5, <1>6, <1>7, OtherWriters, SameTraceSamePackets DEF WriterAt, CaptureInv

LEMMA CollectPositionOrder ==
  ASSUME CaptureInv, PacketsInv, WriterInv, NEW t \in Threads, CollectPosition(t)
  PROVE  PacketsInv' /\ WriterInv'
<1> DEFINE n == Len(found[t])
<1>1. /\ pc[t] \in {"join", "local", "pushed"} /\ UNCHANGED <<trace, nstreams, pc, call, open>>
      /\ found' = [found EXCEPT ![t] = Append(@, Len(trace[n]))]
      /\ n < nstreams
  BY DEF CollectPosition, CurrentPacket
<1>2. /\ found[t] \in Seq(Nat) /\ n \in Nat
      /\ n \in Threads /\ Len(trace[n]) \in Nat
  <2>1. found[t] \in Seq(Nat) /\ n \in Nat /\ nstreams \in 0 .. NumThreads
    BY DEF CaptureInv, CaptureTypeOK
  <2>2. n \in Threads
    BY <1>1, <2>1, NumThreadsAssumption DEF Threads
  <2> QED
    BY <2>1, <2>2, BasicTypes DEF CaptureInv
<1>3. /\ found'[t] = Append(found[t], Len(trace[n]))
      /\ \A i \in Threads \ {t} : found'[i] = found[i]
  BY <1>1 DEF CaptureInv, CaptureTypeOK
<1>4. /\ Len(found'[t]) = n + 1 /\ found'[t][n + 1] = Len(trace[n])
      /\ \A i \in 1 .. n : found'[t][i] = found[t][i]
  BY <1>2, <1>3
<1>5. FoundBehind(t)'
  <2> SUFFICES ASSUME pc[t] = "local", NEW i \in Threads, i < n + 1
               PROVE  call[t].seen[i] <= found'[t][i + 1]
    BY <1>1, <1>4 DEF FoundBehind
  <2>1. i \in Nat
    BY NumThreadsAssumption DEF Threads
  <2>2. CASE i = n
    BY <1>4, <2>2 DEF WriterInv, WriterAt, SeenBehind, InCall
  <2>3. CASE i < n
    <3>1. i + 1 \in 1 .. n
      BY <1>2, <2>1, <2>3
    <3>2. call[t].seen[i] <= found[t][i + 1]
      BY <2>3 DEF WriterInv, WriterAt, FoundBehind
    <3> QED
      BY <1>4, <3>1, <3>2
  <2> QED
    BY <1>2, <2>1, <2>2, <2>3
<1>6. NothingOpen(t)' /\ SeenBehind(t)' /\ CallCovered(t)'
  BY <1>1 DEF NothingOpen, SeenBehind, CallCovered, InCall, WriterInv, WriterAt
<1>7. StepOf(t)
  BY <1>1, <1>3 DEF StepOf
<1> QED
  BY <1>1, <1>5, <1>6, <1>7, OtherWriters, SameTraceSamePackets DEF WriterAt, CaptureInv

LEMMA BarrierOrder ==
  ASSUME CaptureInv, PacketsInv, WriterInv, NEW t \in Threads, pc[t] \in {"join", "local", "pushed"},
         write_thread_barrier(t)
  PROVE  /\ PacketsInv'
         /\ \E p \in Packet : /\ Appends(t, p) /\ p.type = "barrier"
                              /\ p.at = [i \in Threads |-> IF i < nstreams THEN found[t][i + 1] ELSE 0]
         /\ found' = [found EXCEPT ![t] = <<>>]
<1> DEFINE at == [i \in Threads |-> IF i < nstreams THEN found[t][i + 1] ELSE 0]
           p == BarrierPacket(nstreams, at, call[t].seen)
<1>1. open[t] = NoPacket
  BY DEF WriterInv, WriterAt, NothingOpen
<1>2. trace' = [trace EXCEPT ![t] = Append(Ended(t), p)] /\ found' = [found EXCEPT ![t] = <<>>]
  BY DEF write_thread_barrier
<1>3. p.type = "barrier" /\ p.size = nstreams /\ p.at = at
  BY DEF BarrierPacket
<1>4. p \in Packet
  <2>1. /\ found[t] \in Seq(Nat) /\ nstreams \in 0 .. NumThreads /\ Len(found[t]) = nstreams
        /\ call[t].seen \in [Threads -> Nat]
    BY DEF CaptureInv, CaptureTypeOK, write_thread_barrier
  <2>2. \A i \in Threads : i < nstreams => i + 1 \in 1 .. Len(found[t])
    BY <2>1, NumThreadsAssumption DEF Threads
  <2>3. at \in [Threads -> Nat]
    BY <2>1, <2>2
  <2> QED
    BY <2>1, <2>3, PacketTypes
<1> HIDE DEF p
<1>5. Appends(t, p)
  BY <1>1, <1>2, EndedOf DEF Appends, CaptureInv
<1>6. \A i \in Threads : i >= p.size => p.at[i] = 0
  BY <1>3, BasicTypes DEF CaptureInv
<1>7. PacketsInv'
  BY <1>3, <1>4, <1>5, <1>6, AppendKeepsPackets DEF CaptureInv, NeedsCover
<1> QED
  BY <1>2, <1>3, <1>4, <1>5, <1>7

\* The step of t after its barrier.
LEMMA AfterBarrier ==
  ASSUME CaptureInv, PacketsInv, WriterInv, NEW t \in Threads,
         make_writer(t) \/ LocalBarrier(t) \/ PendingBarrier(t)
  PROVE  PacketsInv' /\ WriterInv'
<1>1. /\ pc[t] \in {"join", "local", "pushed"} /\ write_thread_barrier(t)
      /\ call' = call /\ open' = [open EXCEPT ![t] = NoPacket]
      /\ \E next : pc' = [pc EXCEPT ![t] = next]
  BY DEF make_writer, LocalBarrier, PendingBarrier, write_thread_barrier
<1>2. /\ pc'[t] \in {"pre", "header", "command", "begin"}
      /\ pc'[t] \in {"command", "begin"} /\ HasLocalBarrier(call[t].kind) => pc[t] \in {"local", "pushed"}
      /\ pc[t] = "pushed" => pc'[t] = "begin"
      /\ \A i \in Threads \ {t} : pc'[i] = pc[i]
  BY <1>1 DEF make_writer, LocalBarrier, PendingBarrier, AfterBind, AfterPre, CaptureInv, CaptureTypeOK
<1>3. PICK p \in Packet : /\ Appends(t, p) /\ p.type = "barrier"
                          /\ p.at = [i \in Threads |-> IF i < nstreams THEN found[t][i + 1] ELSE 0]
  BY <1>1, BarrierOrder
<1>4. PacketsInv' /\ found' = [found EXCEPT ![t] = <<>>]
  BY <1>1, BarrierOrder
<1>5. /\ Len(trace'[t]) = Len(trace[t]) + 1 /\ trace'[t][Len(trace[t]) + 1] = p
      /\ \A i \in Threads : Len(trace[i]) \in Nat /\ Len(trace[i]) <= Len(trace'[i])
  BY <1>3, AppendedStream DEF CaptureInv
<1>6. StepOf(t)
  <2>1. \/ nstreams' = nstreams /\ t < nstreams
        \/ nstreams' = nstreams + 1 /\ t = nstreams
    BY DEF make_writer, LocalBarrier, PendingBarrier, StreamOwner, CaptureInv
  <2> QED
    BY <1>1, <1>2, <1>3, <1>4, <2>1 DEF StepOf, CaptureInv, CaptureTypeOK
<1>7. NothingOpen(t)' /\ FoundBehind(t)'
  BY <1>1, <1>2, <1>4 DEF NothingOpen, FoundBehind, CaptureInv, CaptureTypeOK
<1>8. \A i \in Threads : call[t].seen[i] <= Len(trace[i])
  BY <1>1 DEF WriterInv, WriterAt, SeenBehind, InCall
<1>9. SeenBehind(t)'
  <2>1. \A i \in Threads : call[t].seen[i] <= Len(trace'[i])
    BY <1>5, <1>8, BasicTypes DEF CaptureInv
  <2> QED
    BY <1>1, <2>1 DEF SeenBehind
<1>10. CallCovered(t)'
  <2> SUFFICES ASSUME pc'[t] \in {"command", "begin"}, HasLocalBarrier(call[t].kind)
               PROVE  Covered(trace'[t], t, Len(trace'[t]), call[t].seen)
    BY <1>1, <1>2 DEF CallCovered
  <2>1. CASE pc[t] = "pushed"
    <3>1. Covered(trace[t], t, Len(trace[t]), call[t].seen)
      BY <2>1 DEF WriterInv, WriterAt, CallCovered
    <3>2. /\ Len(trace[t]) \in 0 .. Len(trace[t]) /\ Len(trace'[t]) \in Nat
          /\ Len(trace[t]) <= Len(trace'[t])
      BY <1>5
    <3> QED
      BY <1>3, <3>1, <3>2, CoveredGrows DEF CaptureInv
  <2>2. CASE pc[t] = "local"
    <3>1. Len(found[t]) = nstreams
      BY <1>1 DEF write_thread_barrier
    <3>2. ASSUME NEW i \in Threads PROVE call[t].seen[i] <= p.at[i]
      <4>1. CASE i < nstreams
        BY <1>3, <2>2, <3>1, <4>1 DEF WriterInv, WriterAt, FoundBehind
      <4>2. CASE ~(i < nstreams)
        <5>1. Len(trace[i]) = 0
          BY <4>2, BasicTypes DEF WriterInv, NoStreamNoPackets, CaptureInv
        <5> QED
          BY <1>3, <1>8, <4>2, <5>1
      <4> QED
        BY <4>1, <4>2
    <3>3. Covers(trace'[t][Len(trace[t]) + 1], t, call[t].seen)
      BY <1>3, <1>5, <3>2 DEF Covers
    <3> QED
      BY <1>5, <3>3 DEF Covered
  <2> QED
    BY <1>2, <2>1, <2>2
<1> QED
  BY <1>4, <1>6, <1>7, <1>9, <1>10, OtherWriters DEF WriterAt, CaptureInv

\* The steps of a wrapper that leave every stream as it is.
Covering == {"command", "pushed", "begin", "execute", "push", "end"}

LEMMA QuietOrder ==
  ASSUME CaptureInv, PacketsInv, WriterInv, NEW t \in Threads, NEW next \in PcValues,
         UNCHANGED <<trace, nstreams, call, found>>, pc' = [pc EXCEPT ![t] = next],
         \A i \in Threads \ {t} : open'[i] = open[i],
         pc[t] \notin {"idle", "join", "local", "pushed"},
         next \in Covering => pc[t] \in Covering,
         NothingOpen(t)'
  PROVE  PacketsInv' /\ WriterInv'
<1>1. pc'[t] = next /\ \A i \in Threads \ {t} : pc'[i] = pc[i]
  BY DEF CaptureInv, CaptureTypeOK
<1>2. WriterAt(t) /\ found[t] = <<>> /\ Len(found[t]) = 0 /\ \A i \in Threads : ~(i < 0)
  BY BasicTypes DEF WriterInv, WriterAt, FoundBehind, CaptureInv
<1>3. SeenBehind(t)' /\ FoundBehind(t)'
  BY <1>2 DEF WriterAt, SeenBehind, FoundBehind, InCall
<1>4. CallCovered(t)'
  BY <1>1, <1>2 DEF WriterAt, CallCovered, Covering
<1>5. StepOf(t)
  BY <1>1 DEF StepOf
<1> QED
  BY <1>3, <1>4, <1>5, OtherWriters, SameTraceSamePackets DEF WriterAt, CaptureInv

LEMMA HeaderOrder ==
  ASSUME CaptureInv, PacketsInv, WriterInv, NEW t \in Threads,
         write_header(t) \/ write_api_command(t) \/ push_thread_barriers(t)
  PROVE  PacketsInv' /\ WriterInv'
<1>1. /\ UNCHANGED <<trace, nstreams, call, open, found>>
      /\ pc[t] \in {"header", "command", "push"}
  BY DEF write_header, write_api_command, push_thread_barriers
<1>2. PICK next \in {"local", "pushed", "begin", "end"} :
        /\ pc' = [pc EXCEPT ![t] = next]
        /\ next \in Covering => pc[t] \in {"command", "push"}
        /\ next = "end" <=> pc[t] = "push"
  BY DEF write_header, write_api_command, push_thread_barriers, Covering
<1>3. NothingOpen(t)'
  BY <1>1, <1>2 DEF NothingOpen, WriterInv, WriterAt, CaptureInv, CaptureTypeOK
<1> QED
  BY <1>1, <1>2, <1>3, QuietOrder DEF PcValues, Covering

LEMMA BeginOrder ==
  ASSUME CaptureInv, PacketsInv, WriterInv, NEW t \in Threads, BeginUpdate(t) \/ BeginCall(t)
  PROVE  PacketsInv' /\ WriterInv'
<1>1. /\ UNCHANGED <<nstreams, call, found>>
      /\ pc[t] \in {"pre", "begin"} /\ trace' = [trace EXCEPT ![t] = Ended(t)]
      /\ \E x : open' = [open EXCEPT ![t] = x]
  BY DEF BeginUpdate, BeginCall
<1>2. open[t] = NoPacket
  BY <1>1 DEF WriterInv, WriterAt, NothingOpen
<1>3. trace' = trace
  BY <1>1, <1>2, EndedOf DEF CaptureInv
<1>4. \A i \in Threads \ {t} : open'[i] = open[i]
  BY <1>1 DEF CaptureInv, CaptureTypeOK
<1>5. PICK next \in {"update", "execute"} :
        pc' = [pc EXCEPT ![t] = next] /\ (next \in Covering => pc[t] = "begin")
  BY DEF BeginUpdate, BeginCall, Covering
<1>6. NothingOpen(t)'
  BY <1>5 DEF NothingOpen, CaptureInv, CaptureTypeOK
<1> QED
  BY <1>1, <1>3, <1>4, <1>5, <1>6, QuietOrder DEF PcValues, Covering

LEMMA ExecuteOrder ==
  ASSUME "sync" \notin Kinds, CaptureInv, PacketsInv, WriterInv, NEW t \in Threads, Execute(t)
  PROVE  PacketsInv' /\ WriterInv'
<1>1. /\ UNCHANGED <<trace, nstreams, call, found>> /\ pc[t] = "execute"
      /\ pc' = [pc EXCEPT ![t] = AfterExecute(call[t].kind)]
  BY DEF Execute
<1>2. AfterExecute(call[t].kind) \in {"push", "end"}
  BY <1>1 DEF AfterExecute, CaptureInv, CallShape, InCall
<1>3. \A i \in Threads \ {t} : open'[i] = open[i]
  BY DEF Execute, CaptureInv, CaptureTypeOK
<1>4. NothingOpen(t)'
  BY <1>1, <1>2 DEF NothingOpen, CaptureInv, CaptureTypeOK
<1> QED
  BY <1>1, <1>2, <1>3, <1>4, QuietOrder DEF PcValues, Covering

LEMMA EndOrder ==
  ASSUME CaptureInv, PacketsInv, WriterInv, NEW t \in Threads, EndUpdate(t) \/ end_packet(t)
  PROVE  PacketsInv' /\ WriterInv'
<1> DEFINE p == open[t]
<1>1. /\ UNCHANGED <<nstreams, found>> /\ pc[t] \in {"update", "end"}
      /\ trace' = [trace EXCEPT ![t] = Ended(t)] /\ open' = [open EXCEPT ![t] = NoPacket]
  BY DEF EndUpdate, end_packet
<1>2. /\ p \in Packet
      /\ pc[t] = "update" => p.type = "update"
      /\ pc[t] = "end" => p.type = "call" /\ p.kind = call[t].kind /\ p.seen = call[t].seen
  BY <1>1 DEF CaptureInv, CallShape
<1>3. Appends(t, p)
  BY <1>1, <1>2, EndedOf DEF Appends, CaptureInv
<1>4. WriterAt(t) /\ \A i \in Threads : call[t].seen[i] <= Len(trace[i])
  BY <1>1 DEF WriterInv, WriterAt, SeenBehind, InCall
<1>5. NeedsCover(p) => p.seen[t] <= Len(trace[t]) /\ Covered(trace[t], t, Len(trace[t]), p.seen)
  BY <1>1, <1>2, <1>4 DEF NeedsCover, WriterAt, CallCovered
<1>6. p.type # "barrier"
  BY <1>1, <1>2
<1> HIDE DEF p
<1>7. PacketsInv'
  BY <1>2, <1>3, <1>5, <1>6, AppendKeepsPackets DEF CaptureInv
<1>8. /\ \A i \in Threads \ {t} : pc'[i] = pc[i] /\ call'[i] = call[i] /\ open'[i] = open[i]
      /\ open'[t] = NoPacket
      /\ \/ pc'[t] = "idle"
         \/ pc'[t] = "header" /\ call' = call
         \/ pc'[t] = "command" /\ ~HasLocalBarrier(call[t].kind) /\ call' = call
  BY <1>1 DEF EndUpdate, end_packet, AfterPre, CaptureInv, CaptureTypeOK
<1>9. StepOf(t)
  <2>1. t < nstreams
    BY <1>1 DEF CaptureInv, StreamOwner
  <2> QED
    BY <1>1, <1>2, <1>3, <1>8, <2>1 DEF StepOf
<1>10. SeenBehind(t)'
  <2>1. \A i \in Threads : call[t].seen[i] <= Len(trace'[i])
    <3>1. \A i \in Threads : Len(trace[i]) \in Nat /\ Len(trace[i]) <= Len(trace'[i])
      BY <1>2, <1>3, AppendedStream DEF CaptureInv
    <3>2. \A i \in Threads : Len(trace'[i]) \in Nat
      BY <1>2, <1>3, AppendedStream DEF CaptureInv
    <3> QED
      BY <1>4, <3>1, <3>2, BasicTypes DEF CaptureInv
  <2> QED
    BY <1>8, <2>1 DEF SeenBehind, InCall
<1>11. NothingOpen(t)' /\ FoundBehind(t)' /\ CallCovered(t)'
  BY <1>1, <1>4, <1>8 DEF NothingOpen, FoundBehind, CallCovered, WriterAt
<1> QED
  BY <1>7, <1>9, <1>10, <1>11, OtherWriters DEF WriterAt, CaptureInv

LEMMA CaptureKeepsOrder ==
  ASSUME "sync" \notin Kinds, CaptureInv, PacketsInv, WriterInv, CaptureNext
  PROVE  PacketsInv' /\ WriterInv'
<1> PICK t \in Threads : CaptureStep(t)
  BY DEF CaptureNext
<1>1. ~LeaveOpen(t)
  BY DEF LeaveOpen, CaptureInv, CallShape, InCall
<1> QED
  BY <1>1, CallOrder, CollectPositionOrder, AfterBarrier, HeaderOrder, BeginOrder, ExecuteOrder, EndOrder
     DEF CaptureStep

(***************************************************************************)
(* The replay.  Positions only grow, so a barrier once passed stays        *)
(* passed; a thread leaves a barrier only when all its positions are met.  *)
(***************************************************************************)
LEMMA PassedStays ==
  ASSUME CaptureTypeOK, ReplayTypeOK, trace' = trace, completed' \in [Threads -> Nat],
         \A i \in Threads : completed[i] <= completed'[i],
         NEW t \in Threads, NEW j \in 1 .. Len(trace[t]), Passed(t, j)
  PROVE  Passed(t, j)'
<1>1. trace[t][j].at \in [Threads -> Nat]
  BY PacketAt
<1>2. \A i \in Threads : completed[i] \in Nat /\ completed'[i] \in Nat /\ trace[t][j].at[i] \in Nat
  BY <1>1 DEF ReplayTypeOK
<1> QED
  BY <1>2 DEF Passed

\* A step of t leaves what the other threads have passed.
LEMMA OtherReaders ==
  ASSUME CaptureTypeOK, ReplayInv, ReaderInv, NEW t \in Threads, trace' = trace,
         completed' \in [Threads -> Nat], completed[t] <= completed'[t],
         \A i \in Threads \ {t} : /\ completed'[i] = completed[i]
                                  /\ rpc'[i] = rpc[i] /\ waitIndex'[i] = waitIndex[i],
         NEW u \in Threads \ {t}
  PROVE  /\ \A j \in 1 .. completed'[u] :
              /\ trace[u][j].type = "barrier"
              /\ j < completed'[u] \/ rpc'[u] \notin {"waiting", "terminated"}
              => Passed(u, j)'
         /\ rpc'[u] = "waiting" => /\ LastBarrier(u)'.type = "barrier"
                                   /\ \A i \in Threads \ {u} :
                                        i < waitIndex'[u] => LastBarrier(u)'.at[i] <= completed'[i]
<1>0. completed \in [Threads -> Nat] /\ \A i \in Threads : completed[i] \in Nat /\ completed'[i] \in Nat
  BY DEF ReplayInv, ReplayTypeOK
<1>1. \A i \in Threads : completed[i] <= completed'[i]
  BY <1>0
<1>2. \A j \in 1 .. completed[u] : j \in 1 .. Len(trace[u])
  BY <1>0, BasicTypes DEF ReplayInv, ReplayPosition
<1>3. ASSUME NEW j \in 1 .. completed'[u], trace[u][j].type = "barrier",
             j < completed'[u] \/ rpc'[u] \notin {"waiting", "terminated"}
      PROVE  Passed(u, j)'
  <2>1. Passed(u, j) /\ j \in 1 .. Len(trace[u])
    BY <1>2, <1>3 DEF ReaderInv, BarriersPassed
  <2> QED
    BY <1>1, <2>1, PassedStays DEF ReplayInv
<1>4. ASSUME rpc'[u] = "waiting"
      PROVE  /\ LastBarrier(u)'.type = "barrier"
             /\ \A i \in Threads \ {u} : i < waitIndex'[u] => LastBarrier(u)'.at[i] <= completed'[i]
  <2>1. /\ rpc[u] = "waiting" /\ LastBarrier(u)' = LastBarrier(u)
        /\ completed[u] \in 1 .. Len(trace[u])
    BY <1>0, <1>2, <1>4 DEF LastBarrier, ReplayInv, ReplayPosition
  <2>2. \A i \in Threads : LastBarrier(u).at[i] \in Nat
    BY <2>1, PacketAt DEF LastBarrier
  <2> QED
    BY <1>0, <1>1, <2>1, <2>2 DEF ReaderInv, PassingBarrier
<1> QED
  BY <1>3, <1>4

LEMMA stepOrder ==
  ASSUME CaptureTypeOK, ReplayInv, ReplayInv', ReaderInv, NEW t \in Threads, step(t), trace' = trace
  PROVE  ReaderInv'
<1>0. completed \in [Threads -> Nat] /\ completed' \in [Threads -> Nat]
  BY DEF ReplayInv, ReplayTypeOK
<1>1. /\ rpc[t] = "step" /\ waitIndex' = waitIndex
      /\ completed' = IF packetOpen[t] THEN [completed EXCEPT ![t] = @ + 1] ELSE completed
      /\ rpc'[t] \in {"terminated", "barrier", "handle"}
      /\ \A i \in Threads \ {t} : rpc'[i] = rpc[i]
  BY DEF step, complete_packet, ReplayInv, ReplayTypeOK
<1>2. /\ completed[t] <= completed'[t] /\ \A i \in Threads \ {t} : completed'[i] = completed[i]
      /\ ~packetOpen[t] => completed'[t] = completed[t]
      /\ packetOpen[t] => completed'[t] = completed[t] + 1
  BY <1>0, <1>1
<1>3. \A i \in Threads : completed[i] <= completed'[i]
  BY <1>0, <1>2
<1>4. ASSUME NEW j \in 1 .. completed'[t], trace[t][j].type = "barrier" PROVE Passed(t, j)'
  <2>1. packetOpen[t] => trace[t][completed[t] + 1].type # "barrier"
    BY <1>1 DEF ReplayInv, ReplayPosition, OpenPacket
  <2>2. j \in 1 .. completed[t]
    BY <1>0, <1>2, <1>4, <2>1
  <2>3. Passed(t, j)
    BY <1>1, <1>4, <2>2 DEF ReaderInv, BarriersPassed
  <2>4. j \in 1 .. Len(trace[t])
    BY <1>0, <2>2, BasicTypes DEF ReplayInv, ReplayPosition
  <2> QED
    BY <1>0, <1>3, <2>3, <2>4, PassedStays DEF ReplayInv
<1>5. BarriersPassed'
  BY <1>0, <1>1, <1>2, <1>4, OtherReaders DEF BarriersPassed
<1>6. PassingBarrier'
  BY <1>0, <1>1, <1>2, OtherReaders DEF PassingBarrier
<1> QED
  BY <1>5, <1>6 DEF ReaderInv

LEMMA EnterBarrierOrder ==
  ASSUME CaptureTypeOK, ReplayInv, ReplayInv', ReaderInv, NEW t \in Threads, EnterBarrier(t), trace' = trace
  PROVE  ReaderInv'
<1>0. completed \in [Threads -> Nat] /\ completed' \in [Threads -> Nat]
  BY DEF ReplayInv, ReplayTypeOK
<1>1. /\ rpc[t] = "barrier" /\ packetOpen[t] /\ trace[t][completed[t] + 1].type = "barrier"
      /\ completed' = [completed EXCEPT ![t] = @ + 1]
  BY DEF EnterBarrier, complete_packet, ReplayInv, ReplayPosition, OpenPacket
<1>2. /\ rpc'[t] = "waiting" /\ waitIndex'[t] = 0
      /\ \A i \in Threads \ {t} : rpc'[i] = rpc[i] /\ waitIndex'[i] = waitIndex[i]
  BY DEF EnterBarrier, ReplayInv, ReplayTypeOK
<1>3. completed'[t] = completed[t] + 1 /\ \A i \in Threads \ {t} : completed'[i] = completed[i]
  BY <1>0, <1>1
<1>4. \A i \in Threads : completed[i] <= completed'[i]
  BY <1>0, <1>3
<1>5. ASSUME NEW j \in 1 .. completed'[t], trace[t][j].type = "barrier", j < completed'[t]
      PROVE  Passed(t, j)'
  <2>1. j \in 1 .. completed[t]
    BY <1>0, <1>3, <1>5
  <2>2. Passed(t, j)
    BY <1>1, <1>5, <2>1 DEF ReaderInv, BarriersPassed
  <2>3. j \in 1 .. Len(trace[t])
    BY <1>0, <2>1, BasicTypes DEF ReplayInv, ReplayPosition
  <2> QED
    BY <1>0, <1>4, <2>2, <2>3, PassedStays DEF ReplayInv
<1>6. BarriersPassed'
  BY <1>0, <1>2, <1>3, <1>4, <1>5, OtherReaders DEF BarriersPassed
<1>7. PassingBarrier'
  <2>1. LastBarrier(t)'.type = "barrier"
    BY <1>1, <1>3 DEF LastBarrier
  <2>2. \A i \in Threads : ~(i < 0)
    BY BasicTypes
  <2> QED
    BY <1>0, <1>2, <1>3, <1>4, <2>1, <2>2, OtherReaders DEF PassingBarrier
<1> QED
  BY <1>6, <1>7 DEF ReaderInv

LEMMA PassBarrierOrder ==
  ASSUME CaptureTypeOK, BarrierSizes, ReplayInv, ReplayInv', ReaderInv, NEW t \in Threads,
         PassBarrier(t), trace' = trace
  PROVE  ReaderInv'
<1> DEFINE b == LastBarrier(t)
<1>0. /\ completed \in [Threads -> Nat] /\ completed' = completed
      /\ \A i \in Threads : completed[i] <= completed'[i]
  BY DEF PassBarrier, ReplayInv, ReplayTypeOK
<1>1. rpc[t] = "waiting" /\ completed[t] \in 1 .. Len(trace[t]) /\ b.type = "barrier"
  BY <1>0, BasicTypes DEF PassBarrier, ReplayInv, ReplayPosition, ReaderInv, PassingBarrier
<1>2. /\ b.at \in [Threads -> Nat] /\ b.size \in Nat
      /\ \A i \in Threads : i >= b.size => b.at[i] = 0
  BY <1>1, PacketAt, NumThreadsAssumption DEF LastBarrier, BarrierSizes
<1>3. \A i \in Threads \ {t} : i < waitIndex[t] => b.at[i] <= completed[i]
  BY <1>1 DEF ReaderInv, PassingBarrier
<1>4. /\ \A i \in Threads \ {t} : rpc'[i] = rpc[i] /\ waitIndex'[i] = waitIndex[i]
      /\ \/ rpc'[t] = "waiting" /\ waitIndex'[t] = waitIndex[t] + 1 /\ ~MustWaitFor(t, waitIndex[t])
         \/ rpc'[t] = "step" /\ waitIndex[t] = b.size
  BY DEF PassBarrier, ReplayInv, ReplayTypeOK
<1>5. waitIndex[t] \in Nat /\ \A i \in Threads : i \in Nat
  BY BasicTypes, NumThreadsAssumption DEF ReplayInv, ReplayTypeOK
<1>6. rpc'[t] = "step" => Passed(t, completed[t])
  BY <1>0, <1>2, <1>3, <1>4, <1>5 DEF Passed, LastBarrier
<1>7. ASSUME NEW j \in 1 .. completed[t], trace[t][j].type = "barrier",
             j < completed[t] \/ rpc'[t] = "step"
      PROVE  Passed(t, j)'
  <2>1. Passed(t, j)
    BY <1>0, <1>6, <1>7 DEF ReaderInv, BarriersPassed
  <2>2. j \in 1 .. Len(trace[t])
    BY <1>0, <1>1, BasicTypes
  <2> QED
    BY <1>0, <2>1, <2>2, PassedStays DEF ReplayInv
<1>8. BarriersPassed'
  BY <1>0, <1>4, <1>7, OtherReaders DEF BarriersPassed
<1>9. PassingBarrier'
  <2>1. LastBarrier(t)' = b
    BY <1>0 DEF LastBarrier
  <2>2. ASSUME NEW i \in Threads \ {t}, rpc'[t] = "waiting", i < waitIndex'[t]
        PROVE  b.at[i] <= completed[i]
    <3>1. i < waitIndex[t] \/ i = waitIndex[t]
      BY <1>4, <1>5, <2>2
    <3>2. CASE i = waitIndex[t]
      BY <1>0, <1>2, <1>4, <2>2, <3>2 DEF MustWaitFor
    <3> QED
      BY <1>3, <3>1, <3>2
  <2> HIDE DEF b
  <2> QED
    BY <1>0, <1>1, <1>4, <2>1, <2>2, OtherReaders DEF PassingBarrier
<1> QED
  BY <1>8, <1>9 DEF ReaderInv

LEMMA PacketStepOrder ==
  ASSUME CaptureTypeOK, ReplayInv, ReaderInv, NEW t \in Threads, trace' = trace,
         read_handle(t) \/ StopWhileWaiting(t) \/ Replay(t) \/ ReplayFails(t)
  PROVE  ReaderInv'
<1>1. completed' = completed /\ waitIndex' = waitIndex
  BY DEF read_handle, StopWhileWaiting, Replay, ReplayFails
<1>2. /\ \A i \in Threads \ {t} : rpc'[i] = rpc[i]
      /\ \/ rpc'[t] = "terminated"
         \/ rpc[t] \in {"handle", "execute"} /\ rpc'[t] \in {"execute", "step"}
  BY DEF read_handle, StopWhileWaiting, Replay, ReplayFails, ReplayInv, ReplayTypeOK
<1>3. BarriersPassed'
  BY <1>1, <1>2 DEF ReaderInv, BarriersPassed, Passed
<1>4. PassingBarrier'
  BY <1>1, <1>2 DEF ReaderInv, PassingBarrier, LastBarrier
<1> QED
  BY <1>3, <1>4 DEF ReaderInv
-----------------------------------------------------------------------------
LEMMA InitOrderInv == Init => OrderInv
<1> SUFFICES ASSUME Init PROVE OrderInv
  OBVIOUS
<1>1. TypeInv /\ phase = "capture"
  BY InitTypeInv DEF Init
<1>2. \A t \in Threads : /\ trace[t] = <<>> /\ pc[t] = "idle" /\ open[t] = NoPacket
                         /\ found[t] = <<>>
  BY DEF Init, CaptureInit
<1>3. \A t \in Threads : Len(trace[t]) = 0
  BY <1>2
<1>4. PacketsInv
  BY <1>3 DEF PacketsInv, CallsCovered, BarrierSizes
<1>5. WriterInv
  BY <1>2 DEF WriterInv, WriterAt, NoStreamNoPackets, NothingOpen, SeenBehind, FoundBehind, CallCovered, InCall
<1> QED
  BY <1>1, <1>4, <1>5 DEF OrderInv

LEMMA NextOrderInv ==
  ASSUME "sync" \notin Kinds
  PROVE  OrderInv /\ [Next]_vars => OrderInv'
<1> SUFFICES ASSUME OrderInv, [Next]_vars PROVE OrderInv'
  OBVIOUS
<1>1. TypeInv /\ TypeInv' /\ CaptureInv /\ CaptureTypeOK
  BY NextTypeInv DEF OrderInv, TypeInv, TypeOK, CaptureInv
<1> USE DEF OrderInv
<1>2. CASE Capture
  BY <1>1, <1>2, CaptureKeepsOrder DEF Capture
<1>3. CASE Finish
  <2>1. \A t \in Threads : pc[t] = "idle" /\ open[t] = NoPacket
    BY <1>3 DEF Finish, FinishCapture, CaptureIdle, InCall, WriterInv, WriterAt, NothingOpen
  <2>2. trace' = trace
    <3>1. trace' = [t \in Threads |-> trace[t]]
      BY <1>1, <1>3, <2>1, EndedOf DEF Finish, FinishCapture
    <3> QED
      BY <1>1, <3>1 DEF CaptureTypeOK
  <2>3. \A t \in Threads : completed'[t] = 0 /\ rpc'[t] = "step"
    BY <1>1, <1>3 DEF Finish, TypeInv, CaptureFirst, ReplayInit, replayVars
  <2>4. ReaderInv'
    BY <2>3 DEF ReaderInv, BarriersPassed, PassingBarrier
  <2> QED
    BY <1>1, <1>3, <2>2, <2>4, SameTraceSamePackets DEF Finish
<1>4. ASSUME NEW t \in Threads, ReplayBy(t) \/ Fail(t) PROVE OrderInv'
  <2>1. phase = "replay" /\ phase' = "replay" /\ trace' = trace
    BY <1>4 DEF ReplayBy, Fail, captureVars
  <2>2. ReplayInv /\ ReplayInv' /\ ReaderInv /\ BarrierSizes
    BY <1>1, <2>1 DEF ReplayInv, TypeInv, TypeOK, PacketsInv
  <2>3. ReaderInv'
    BY <1>1, <1>4, <2>1, <2>2, stepOrder, EnterBarrierOrder, PassBarrierOrder, PacketStepOrder
       DEF ReplayBy, Fail, ReplayThread
  <2> QED
    BY <1>1, <2>1, <2>3, SameTraceSamePackets
<1>5. CASE Stop
  <2>1. phase = "replay" /\ phase' = "replay" /\ trace' = trace /\ UNCHANGED <<completed, rpc, waitIndex>>
    BY <1>5 DEF Stop, captureVars, request_stop
  <2>2. ReaderInv'
    BY <2>1 DEF ReaderInv, BarriersPassed, Passed, PassingBarrier, LastBarrier
  <2> QED
    BY <1>1, <2>1, <2>2, SameTraceSamePackets
<1>6. CASE UNCHANGED vars
  <2>1. /\ UNCHANGED <<trace, nstreams, pc, call, open, found>>
        /\ UNCHANGED <<completed, rpc, waitIndex>> /\ phase' = phase
    BY <1>6 DEF vars, captureVars, replayVars
  <2>2. PacketsInv'
    BY <2>1, SameTraceSamePackets
  <2>3. phase = "replay" => ReaderInv'
    BY <2>1 DEF ReaderInv, BarriersPassed, Passed, PassingBarrier, LastBarrier
  <2>4. phase = "capture" => WriterInv'
    BY <2>1 DEF WriterInv, WriterAt, NoStreamNoPackets, NothingOpen, SeenBehind, FoundBehind, CallCovered, InCall
  <2> QED
    BY <1>1, <2>1, <2>2, <2>3, <2>4
<1> QED
  BY <1>2, <1>3, <1>4, <1>5, <1>6 DEF Next, Done

LEMMA OrderInvImplies == OrderInv => LocalBarrierOrder
<1> SUFFICES ASSUME OrderInv, NEW t \in Executing,
                    OpenPacket(t).type = "call", HasLocalBarrier(OpenPacket(t).kind),
                    NEW i \in Threads, NEW k \in Earlier(OpenPacket(t), i)
             PROVE  Complete(i, k)
  BY DEF LocalBarrierOrder
<1> DEFINE j == completed[t] + 1
           p == trace[t][j]
<1>1. /\ phase = "replay" /\ rpc[t] = "execute" /\ t \in Threads /\ OpenPacket(t) = p
      /\ CaptureTypeOK /\ ReplayInv /\ ReaderInv /\ CallsCovered
  BY DEF Executing, OpenPacket, OrderInv, TypeInv, TypeOK, ReplayInv, PacketsInv
<1>2. completed[t] \in Nat /\ completed[i] \in Nat /\ j \in 1 .. Len(trace[t])
  BY <1>1, BasicTypes DEF ReplayInv, ReplayTypeOK, ReplayPosition
<1>3. p.seen[t] < j /\ Covered(trace[t], t, j - 1, p.seen) /\ p.seen \in [Threads -> Nat]
  BY <1>1, <1>2, PacketAt DEF CallsCovered, NeedsCover
<1>4. k \in Nat /\ k < p.seen[i]
  BY <1>1, <1>3 DEF Earlier
<1>5. CASE i = t
  BY <1>2, <1>3, <1>4, <1>5 DEF Complete
<1>6. CASE i # t
  <2>1. PICK n \in 1 .. completed[t] : Covers(trace[t][n], t, p.seen)
    BY <1>2, <1>3 DEF Covered
  <2>2. n \in 1 .. Len(trace[t])
    BY <1>2
  <2>3. Passed(t, n)
    BY <1>1, <2>1 DEF Covers, ReaderInv, BarriersPassed
  <2>4. p.seen[i] <= trace[t][n].at[i] /\ trace[t][n].at[i] <= completed[i] /\ trace[t][n].at[i] \in Nat
    BY <1>1, <1>6, <2>1, <2>2, <2>3, PacketAt DEF Covers, Passed
  <2> QED
    BY <1>2, <1>3, <1>4, <2>4, SMTT(30) DEF Complete
<1> QED
  BY <1>5, <1>6

(***************************************************************************)
(* While the application does not call vkSyncBuffer, the replay of any     *)
(* capture makes the driver's call of a destroy, reset, present or submit  *)
(* only after every packet whose call had returned, on any thread, when    *)
(* the application made that call.                                         *)
(***************************************************************************)
THEOREM LocalBarriersHold ==
  ASSUME "sync" \notin Kinds
  PROVE  Spec => []LocalBarrierOrder
<1>1. Init => OrderInv
  BY InitOrderInv
<1>2. OrderInv /\ [Next]_vars => OrderInv'
  BY NextOrderInv
<1>3. OrderInv => LocalBarrierOrder
  BY OrderInvImplies
<1> QED
  BY <1>1, <1>2, <1>3, PTL DEF Spec

-----------------------------------------------------------------------------
(***************************************************************************)
(* The order that push barriers carry from the captured run to its replay, *)
(* for any number of threads, objects and calls.                           *)
(*                                                                         *)
(* The argument.  A command that pushes its barriers does so under         *)
(* frame_mutex, while its packet is the open one of its stream.  From then *)
(* on every other thread that has a stream either still has the request    *)
(* pending or has, in its stream, a barrier that waits at least for the    *)
(* beginning of that packet: whoever clears its request collects the       *)
(* positions with frame_mutex held, so no request can come in between.     *)
(* Before a thread writes the packet of a call it looks at its request, so *)
(* the barrier stands before the packet.                                   *)
(***************************************************************************)

\* A barrier that waits for thread i to reach its packet number k.
Reaches(p, i, k) == p.type = "barrier" /\ i < p.size /\ k <= p.at[i]

\* There is one among the first n packets of a stream.
Reached(stream, n, i, k) == \E j \in 1 .. n : Reaches(stream[j], i, k)

\* The packets of i that have pushed their barriers: in the stream, or about to end.
Pushes(i) ==
  {k \in 0 .. Len(trace[i]) :
     \/ k < Len(trace[i]) /\ HasPushBarrier(trace[i][k + 1].kind)
     \/ k = Len(trace[i]) /\ pc[i] = "end" /\ HasPushBarrier(call[i].kind)}

\* A request that was pushed to a stream is pending or has been answered.
PushesAnswered ==
  \A t \in Threads : \A i \in Threads \ {t} : \A k \in Pushes(i) :
    pending[t] \/ nstreams <= t \/ Reached(trace[t], Len(trace[t]), i, k)

\* Nobody pushes while the positions of a barrier are being collected.
PushesFound(t) ==
  pc[t] \in {"join", "local", "pushed"} =>
    \A i \in Threads : i < Len(found[t]) => \A k \in Pushes(i) : k <= found[t][i + 1]

\* A thread that writes the packet of its call has answered the requests of calls that
\* had returned when it made its own.
Writing == {"begin", "execute", "push", "end"}

CallAnswered(t) ==
  pc[t] \in Writing =>
    \A i \in Threads \ {t} : \A k \in Pushes(i) :
      k < call[t].seen[i] => Reached(trace[t], Len(trace[t]), i, k)

\* The packets that have been written.
PacketAnswered(t, j) ==
  /\ trace[t][j].seen[t] < j
  /\ \A i \in Threads : trace[t][j].seen[i] <= Len(trace[i])
  /\ \A i \in Threads \ {t} : \A k \in 0 .. trace[t][j].seen[i] - 1 :
       HasPushBarrier(trace[i][k + 1].kind) => Reached(trace[t], j - 1, i, k)

CallsAnswered ==
  \A t \in Threads : \A j \in 1 .. Len(trace[t]) : trace[t][j].type = "call" => PacketAnswered(t, j)

PushWriterInv == PushesAnswered /\ \A t \in Threads : PushesFound(t) /\ CallAnswered(t)

PushInv == OrderInv /\ CallsAnswered /\ (phase = "capture" => PushWriterInv)

(***************************************************************************)
(* What one step of the capture does to the streams.                       *)
(***************************************************************************)
BarrierOf(t) ==
  BarrierPacket(nstreams, [i \in Threads |-> IF i < nstreams THEN found[t][i + 1] ELSE 0], call[t].seen)

WritesBarrier(t) == make_writer(t) \/ LocalBarrier(t) \/ PendingBarrier(t)

EndsPacket(t) == EndUpdate(t) \/ end_packet(t)

LEMMA OthersStay ==
  ASSUME CaptureInv, NEW t \in Threads, CaptureStep(t), NEW i \in Threads \ {t}
  PROVE  pc'[i] = pc[i] /\ call'[i] = call[i] /\ open'[i] = open[i] /\ found'[i] = found[i]
<1> USE DEF CaptureInv, CaptureTypeOK
<1>1. CASE Call(t)
  BY <1>1 DEF Call
<1>2. CASE CollectPosition(t)
  BY <1>2 DEF CollectPosition
<1>3. CASE WritesBarrier(t)
  BY <1>3 DEF WritesBarrier, make_writer, LocalBarrier, PendingBarrier, write_thread_barrier
<1>4. CASE BeginUpdate(t) \/ EndUpdate(t) \/ write_header(t) \/ write_api_command(t) \/ BeginCall(t)
  BY <1>4 DEF BeginUpdate, EndUpdate, write_header, write_api_command, BeginCall
<1>5. CASE Execute(t)
  BY <1>5 DEF Execute
<1>6. CASE push_thread_barriers(t) \/ end_packet(t) \/ LeaveOpen(t)
  BY <1>6 DEF push_thread_barriers, end_packet, LeaveOpen
<1> QED
  BY <1>1, <1>2, <1>3, <1>4, <1>5, <1>6 DEF CaptureStep, WritesBarrier

LEMMA StreamStep ==
  ASSUME "sync" \notin Kinds, CaptureInv, WriterInv, NEW t \in Threads, CaptureStep(t)
  PROVE  /\ ~LeaveOpen(t)
         /\ ~WritesBarrier(t) /\ ~EndsPacket(t) => trace' = trace
         /\ WritesBarrier(t) => /\ BarrierOf(t) \in Packet /\ Appends(t, BarrierOf(t))
                                /\ open' = open /\ open[t] = NoPacket /\ call' = call
                                /\ pc[t] \in {"join", "local", "pushed"}
                                /\ Len(found[t]) = nstreams
         /\ EndsPacket(t) => /\ open[t] \in Packet /\ Appends(t, open[t])
                             /\ open' = [open EXCEPT ![t] = NoPacket]
                             /\ pc[t] \in {"update", "end"}
<1>1. ~LeaveOpen(t)
  BY DEF LeaveOpen, CaptureInv, CallShape, InCall
<1>2. ASSUME ~WritesBarrier(t), ~EndsPacket(t) PROVE trace' = trace
  <2>1. CASE BeginUpdate(t) \/ BeginCall(t)
    <3>1. pc[t] \in {"pre", "begin"} /\ trace' = [trace EXCEPT ![t] = Ended(t)]
      BY <2>1 DEF BeginUpdate, BeginCall
    <3>2. open[t] = NoPacket
      BY <3>1 DEF WriterInv, WriterAt, NothingOpen
    <3> QED
      BY <3>1, <3>2, EndedOf DEF CaptureInv
  <2>2. CASE Call(t) \/ CollectPosition(t) \/ write_header(t) \/ write_api_command(t)
    BY <2>2 DEF Call, CollectPosition, write_header, write_api_command
  <2>3. CASE Execute(t) \/ push_thread_barriers(t)
    BY <2>3 DEF Execute, push_thread_barriers
  <2> QED
    BY <1>1, <1>2, <2>1, <2>2, <2>3 DEF CaptureStep, WritesBarrier, EndsPacket
<1>3. ASSUME WritesBarrier(t)
      PROVE  /\ BarrierOf(t) \in Packet /\ Appends(t, BarrierOf(t))
             /\ open' = open /\ open[t] = NoPacket /\ call' = call
             /\ pc[t] \in {"join", "local", "pushed"}
             /\ Len(found[t]) = nstreams
  <2> DEFINE at == [i \in Threads |-> IF i < nstreams THEN found[t][i + 1] ELSE 0]
  <2>1. /\ pc[t] \in {"join", "local", "pushed"} /\ Len(found[t]) = nstreams
        /\ trace' = [trace EXCEPT ![t] = Append(Ended(t), BarrierOf(t))]
        /\ open' = [open EXCEPT ![t] = NoPacket] /\ call' = call
    BY <1>3 DEF WritesBarrier, make_writer, LocalBarrier, PendingBarrier, write_thread_barrier, BarrierOf
  <2>2. open[t] = NoPacket
    BY <2>1 DEF WriterInv, WriterAt, NothingOpen
  <2>3. /\ found[t] \in Seq(Nat) /\ nstreams \in 0 .. NumThreads /\ call[t].seen \in [Threads -> Nat]
    BY DEF CaptureInv, CaptureTypeOK
  <2>4. \A i \in Threads : i < nstreams => i + 1 \in 1 .. Len(found[t])
    BY <2>1, <2>3, NumThreadsAssumption DEF Threads
  <2>5. at \in [Threads -> Nat]
    BY <2>3, <2>4
  <2>6. BarrierOf(t) \in Packet
    BY <2>3, <2>5, PacketTypes DEF BarrierOf
  <2>7. Appends(t, BarrierOf(t))
    BY <2>1, <2>2, EndedOf DEF Appends, CaptureInv
  <2>8. open' = open
    BY <2>1, <2>2 DEF CaptureInv, CaptureTypeOK
  <2> QED
    BY <2>1, <2>2, <2>6, <2>7, <2>8
<1>4. ASSUME EndsPacket(t)
      PROVE  /\ open[t] \in Packet /\ Appends(t, open[t])
             /\ open' = [open EXCEPT ![t] = NoPacket]
             /\ pc[t] \in {"update", "end"}
  <2>1. /\ pc[t] \in {"update", "end"} /\ open' = [open EXCEPT ![t] = NoPacket]
        /\ trace' = [trace EXCEPT ![t] = Ended(t)]
    BY <1>4 DEF EndsPacket, EndUpdate, end_packet
  <2>2. open[t] \in Packet
    BY <2>1 DEF CaptureInv, CallShape
  <2> QED
    BY <2>1, <2>2, EndedOf DEF Appends, CaptureInv
<1> QED
  BY <1>1, <1>2, <1>3, <1>4

\* Streams only grow, and only the stream of the thread that takes the step.
LEMMA StreamsGrow ==
  ASSUME "sync" \notin Kinds, CaptureInv, WriterInv, NEW t \in Threads, CaptureStep(t), NEW i \in Threads
  PROVE  /\ Len(trace[i]) \in Nat /\ Len(trace'[i]) \in Nat /\ Len(trace[i]) <= Len(trace'[i])
         /\ \A j \in 1 .. Len(trace[i]) : trace'[i][j] = trace[i][j]
         /\ i # t => trace'[i] = trace[i]
<1>1. Len(trace[i]) \in Nat /\ CaptureTypeOK
  BY BasicTypes DEF CaptureInv
<1>2. trace' = trace \/ \E p \in Packet : Appends(t, p)
  BY StreamStep
<1>3. CASE trace' = trace
  BY <1>1, <1>3
<1>4. CASE \E p \in Packet : Appends(t, p)
  <2>1. PICK p \in Packet : Appends(t, p)
    BY <1>4
  <2>2. /\ Len(trace'[t]) = Len(trace[t]) + 1 
        /\ \A j \in 1 .. Len(trace[t]) : trace'[t][j] = trace[t][j]
        /\ \A k \in Threads \ {t} : trace'[k] = trace[k]
    BY <1>1, <2>1, AppendedStream
  <2> QED
    BY <1>1, <2>2
<1> QED
  BY <1>2, <1>3, <1>4

LEMMA ReachedGrows ==
  ASSUME "sync" \notin Kinds, CaptureInv, WriterInv, NEW t \in Threads, CaptureStep(t),
         NEW u \in Threads, NEW n \in 0 .. Len(trace[u]), NEW m \in Nat, n <= m,
         NEW i, NEW k, Reached(trace[u], n, i, k)
  PROVE  Reached(trace'[u], m, i, k)
<1>1. PICK j \in 1 .. n : Reaches(trace[u][j], i, k)
  BY DEF Reached
<1>2. j \in 1 .. m /\ trace'[u][j] = trace[u][j]
  BY StreamsGrow
<1> QED
  BY <1>1, <1>2 DEF Reached

(***************************************************************************)
(* Barriers are pushed by push_thread_barriers and by nothing else.        *)
(***************************************************************************)
LEMMA PushesBehind ==
  ASSUME CaptureInv, WriterInv, NEW i \in Threads, NEW k \in Pushes(i)
  PROVE  k \in Nat /\ k <= Len(trace[i]) /\ i < nstreams /\ Len(trace[i]) \in Nat
<1>1. Len(trace[i]) \in Nat /\ nstreams \in Nat /\ i \in Nat
  BY BasicTypes DEF CaptureInv
<1>2. k \in 0 .. Len(trace[i]) /\ (k < Len(trace[i]) \/ pc[i] = "end")
  BY DEF Pushes
<1>3. CASE pc[i] = "end"
  BY <1>1, <1>2, <1>3 DEF CaptureInv, StreamOwner
<1>4. CASE k < Len(trace[i])
  BY <1>1, <1>2, <1>4 DEF WriterInv, NoStreamNoPackets
<1> QED
  BY <1>1, <1>2, <1>3, <1>4

\* The ways to pc "end".
LEMMA ReachesEnd ==
  ASSUME "sync" \notin Kinds, CaptureInv, NEW t \in Threads, CaptureStep(t), pc'[t] = "end",
         ~push_thread_barriers(t), ~CollectPosition(t)
  PROVE  Execute(t) /\ call' = call /\ ~HasPushBarrier(call[t].kind)
<1> USE DEF CaptureInv, CaptureTypeOK
<1>1. ~Call(t)
  BY DEF Call, AfterBind, AfterPre
<1>2. ~WritesBarrier(t)
  BY DEF WritesBarrier, make_writer, LocalBarrier, PendingBarrier, AfterBind, AfterPre
<1>3. ~(BeginUpdate(t) \/ EndUpdate(t) \/ write_header(t) \/ write_api_command(t) \/ BeginCall(t))
  BY DEF BeginUpdate, EndUpdate, write_header, write_api_command, BeginCall, AfterPre
<1>4. ~(end_packet(t) \/ LeaveOpen(t))
  BY DEF end_packet, LeaveOpen
<1>5. Execute(t)
  BY <1>1, <1>2, <1>3, <1>4 DEF CaptureStep, WritesBarrier
<1> QED
  BY <1>5 DEF Execute, AfterExecute

LEMMA NoNewPushes ==
  ASSUME "sync" \notin Kinds, CaptureInv, WriterInv, NEW t \in Threads, CaptureStep(t),
         NEW i \in Threads, NEW k \in Pushes(i)'
  PROVE  k \in Pushes(i) \/ (push_thread_barriers(t) /\ i = t /\ k = Len(trace[t]))
<1>0. /\ Len(trace[i]) \in Nat /\ Len(trace'[i]) \in Nat
      /\ \A j \in 1 .. Len(trace[i]) : trace'[i][j] = trace[i][j]
      /\ i # t => trace'[i] = trace[i]
  BY StreamsGrow
<1>1. /\ k \in 0 .. Len(trace'[i])
      /\ \/ k < Len(trace'[i]) /\ HasPushBarrier(trace'[i][k + 1].kind)
         \/ k = Len(trace'[i]) /\ pc'[i] = "end" /\ HasPushBarrier(call'[i].kind)
  BY DEF Pushes
<1>2. CASE k < Len(trace[i])
  <2>1. k \in 0 .. Len(trace[i]) /\ k < Len(trace'[i]) /\ trace'[i][k + 1] = trace[i][k + 1]
    BY <1>0, <1>1, <1>2, StreamsGrow
  <2>2. HasPushBarrier(trace[i][k + 1].kind)
    BY <1>0, <1>1, <2>1
  <2> QED
    BY <1>2, <2>1, <2>2 DEF Pushes
<1>3. CASE i # t
  BY <1>0, <1>1, <1>3, OthersStay DEF Pushes
<1>4. CASE i = t /\ ~(k < Len(trace[t])) /\ trace' = trace
  <2>1. k = Len(trace[t]) /\ pc'[t] = "end" /\ HasPushBarrier(call'[t].kind)
    BY <1>0, <1>1, <1>4
  <2>2. CASE CollectPosition(t)
    BY <1>0, <1>4, <2>1, <2>2 DEF CollectPosition, Pushes
  <2>3. CASE ~CollectPosition(t)
    BY <1>4, <2>1, <2>3, ReachesEnd
  <2> QED
    BY <2>2, <2>3
<1>5. CASE i = t /\ ~(k < Len(trace[t])) /\ WritesBarrier(t)
  <2> DEFINE p == BarrierOf(t)
  <2>1. p \in Packet /\ Appends(t, p) /\ call' = call
    BY <1>5, StreamStep
  <2>2. p.kind = "none"
    BY DEF BarrierOf, BarrierPacket
  <2> HIDE DEF p
  <2>3. Len(trace'[t]) = Len(trace[t]) + 1 /\ trace'[t][Len(trace[t]) + 1] = p
    BY <2>1, AppendedStream DEF CaptureInv
  <2>4. pc'[t] # "end"
    BY <1>5 DEF WritesBarrier, make_writer, LocalBarrier, PendingBarrier, AfterBind, AfterPre,
                CaptureInv, CaptureTypeOK
  <2>5. ~HasPushBarrier(p.kind)
    BY <2>2 DEF HasPushBarrier
  <2> QED
    BY <1>0, <1>1, <1>5, <2>3, <2>4, <2>5
<1>6. CASE i = t /\ ~(k < Len(trace[t])) /\ EndsPacket(t)
  <2>1. /\ open[t] \in Packet /\ Appends(t, open[t]) /\ pc[t] \in {"update", "end"}
    BY <1>6, StreamStep
  <2>2. Len(trace'[t]) = Len(trace[t]) + 1 /\ trace'[t][Len(trace[t]) + 1] = open[t]
    BY <2>1, AppendedStream DEF CaptureInv
  <2>3. pc'[t] # "end"
    BY <1>6 DEF EndsPacket, EndUpdate, end_packet, AfterPre, CaptureInv, CaptureTypeOK
  <2>4. k = Len(trace[t]) /\ HasPushBarrier(open[t].kind)
    BY <1>0, <1>1, <1>6, <2>2, <2>3
  <2>5. pc[t] = "end" /\ HasPushBarrier(call[t].kind)
    BY <2>1, <2>4 DEF CaptureInv, CallShape, HasPushBarrier
  <2> QED
    BY <1>0, <1>6, <2>4, <2>5 DEF Pushes
<1> QED
  BY <1>2, <1>3, <1>4, <1>5, <1>6, StreamStep

(***************************************************************************)
(* A barrier answers all requests: it has collected, with frame_mutex held *)
(* by its own thread, a position of every stream that has pushed.          *)
(***************************************************************************)
LEMMA BarrierAnswers ==
  ASSUME "sync" \notin Kinds, CaptureInv, WriterInv, PushWriterInv, NEW t \in Threads,
         CaptureStep(t), WritesBarrier(t), NEW i \in Threads, NEW k \in Pushes(i)
  PROVE  Reached(trace'[t], Len(trace'[t]), i, k)
<1> DEFINE p == BarrierOf(t)
           at == [u \in Threads |-> IF u < nstreams THEN found[t][u + 1] ELSE 0]
<1>1. /\ p \in Packet /\ Appends(t, p)
      /\ pc[t] \in {"join", "local", "pushed"} /\ Len(found[t]) = nstreams
  BY StreamStep
<1>2. p.type = "barrier" /\ p.size = nstreams /\ p.at = at
  BY DEF BarrierOf, BarrierPacket
<1>3. i < nstreams
  BY PushesBehind
<1>4. at[i] = found[t][i + 1] /\ k <= found[t][i + 1]
  BY <1>1, <1>3 DEF PushWriterInv, PushesFound
<1>5. Reaches(p, i, k)
  BY <1>2, <1>3, <1>4 DEF Reaches
<1> HIDE DEF p
<1>6. /\ Len(trace[t]) \in Nat /\ Len(trace'[t]) = Len(trace[t]) + 1
      /\ trace'[t][Len(trace[t]) + 1] = p
  BY <1>1, AppendedStream DEF CaptureInv
<1> QED
  BY <1>5, <1>6 DEF Reached

LEMMA KeepsPushesAnswered ==
  ASSUME "sync" \notin Kinds, CaptureInv, WriterInv, PushWriterInv, NEW t \in Threads, CaptureStep(t)
  PROVE  PushesAnswered'
<1> SUFFICES ASSUME NEW u \in Threads, NEW i \in Threads \ {u}, NEW k \in Pushes(i)'
             PROVE  pending'[u] \/ nstreams' <= u \/ Reached(trace'[u], Len(trace'[u]), i, k)
  BY DEF PushesAnswered
<1>0. /\ nstreams \in Nat /\ u \in Nat
      /\ Len(trace[u]) \in 0 .. Len(trace[u]) /\ Len(trace'[u]) \in Nat /\ Len(trace[u]) <= Len(trace'[u])
  BY BasicTypes, StreamsGrow DEF CaptureInv
<1>1. CASE push_thread_barriers(t)
  <2>1. UNCHANGED <<trace, nstreams>> /\ pending' = [j \in Threads |-> pending[j] \/ (j < nstreams /\ j # t)]
    BY <1>1 DEF push_thread_barriers
  <2>2. CASE u # t
    <3>1. u < nstreams => pending'[u]
      BY <2>1, <2>2
    <3>2. ~(u < nstreams) => nstreams' <= u
      BY <1>0, <2>1
    <3> QED
      BY <3>1, <3>2
  <2>3. CASE u = t
    <3>1. k \in Pushes(i) /\ (pending[u] => pending'[u])
      BY <2>1, <2>3, NoNewPushes
    <3> QED
      BY <2>1, <3>1 DEF PushWriterInv, PushesAnswered
  <2> QED
    BY <2>2, <2>3
<1>2. CASE ~push_thread_barriers(t)
  <2>1. k \in Pushes(i)
    BY <1>2, NoNewPushes
  <2>2. CASE u = t /\ WritesBarrier(t)
    BY <2>1, <2>2, BarrierAnswers
  <2>3. CASE ~(u = t /\ WritesBarrier(t))
    <3>1. pending[u] => pending'[u]
      <4>1. pending' = pending \/ (PendingBarrier(t) /\ pending' = [pending EXCEPT ![t] = FALSE])
        BY <1>2, StreamStep DEF CaptureStep, Call, CollectPosition, make_writer, LocalBarrier, PendingBarrier,
           BeginUpdate, EndUpdate, write_header, write_api_command, BeginCall, Execute, end_packet
      <4> QED
        BY <2>3, <4>1 DEF WritesBarrier, CaptureInv, CaptureTypeOK
    <3>2. nstreams <= u => nstreams' <= u
      <4>1. nstreams' = nstreams \/ (make_writer(t) /\ t = nstreams /\ nstreams' = nstreams + 1)
        BY <1>2, StreamStep DEF CaptureStep, Call, CollectPosition, make_writer, LocalBarrier, PendingBarrier,
           BeginUpdate, EndUpdate, write_header, write_api_command, BeginCall, Execute, end_packet,
           CaptureInv, StreamOwner
      <4> QED
        BY <1>0, <2>3, <4>1 DEF WritesBarrier
    <3> QED
      BY <1>0, <2>1, <3>1, <3>2, ReachedGrows DEF PushWriterInv, PushesAnswered
  <2> QED
    BY <2>2, <2>3
<1> QED
  BY <1>1, <1>2

LEMMA KeepsPushesFound ==
  ASSUME "sync" \notin Kinds, CaptureInv, CaptureInv', WriterInv, WriterInv', PushWriterInv,
         NEW t \in Threads, CaptureStep(t), NEW u \in Threads
  PROVE  PushesFound(u)'
<1> SUFFICES ASSUME pc'[u] \in {"join", "local", "pushed"}, NEW i \in Threads, i < Len(found'[u]),
                    NEW k \in Pushes(i)'
             PROVE  k <= found'[u][i + 1]
  BY DEF PushesFound
<1>1. CASE push_thread_barriers(t)
  <2>1. u # t /\ frameMutex = Free
    BY <1>1 DEF push_thread_barriers, CaptureInv, CaptureTypeOK
  <2>2. pc[u] = pc'[u]
    BY <2>1, OthersStay
  <2>3. frameMutex = u
    BY <2>2 DEF CaptureInv, StreamOwner
  <2> QED
    BY <2>1, <2>3, BasicTypes DEF Free, CaptureInv
<1>2. CASE ~push_thread_barriers(t)
  <2>1. k \in Pushes(i)
    BY <1>2, NoNewPushes
  <2>2. CASE u # t
    BY <2>1, <2>2, OthersStay DEF PushWriterInv, PushesFound
  <2>3. CASE u = t /\ CollectPosition(t)
    <3> DEFINE n == Len(found[t])
    <3>1. /\ pc[t] \in {"join", "local", "pushed"} /\ n < nstreams
          /\ found' = [found EXCEPT ![t] = Append(@, Len(trace[n]))]
      BY <2>3 DEF CollectPosition, CurrentPacket
    <3>2. found[t] \in Seq(Nat) /\ n \in Nat /\ i \in Nat /\ nstreams \in 0 .. NumThreads
      <4>1. found[t] \in Seq(Nat) /\ nstreams \in 0 .. NumThreads
        BY DEF CaptureInv, CaptureTypeOK
      <4> QED
        BY <4>1, BasicTypes DEF CaptureInv
    <3>3. n \in Threads
      BY <3>1, <3>2, NumThreadsAssumption DEF Threads
    <3>4. Len(trace[n]) \in Nat
      BY <3>3, BasicTypes DEF CaptureInv
    <3>5. found'[t] = Append(found[t], Len(trace[n]))
      BY <3>1 DEF CaptureInv, CaptureTypeOK
    <3>6. /\ Len(found'[t]) = n + 1 /\ found'[t][n + 1] = Len(trace[n])
          /\ \A j \in 1 .. n : found'[t][j] = found[t][j]
      BY <3>2, <3>4, <3>5
    <3>7. CASE i = n
      <4>1. k <= Len(trace[i])
        BY <2>1, PushesBehind
      <4> QED
        BY <2>3, <3>6, <3>7, <4>1
    <3>8. CASE i # n
      <4>1. i < n /\ i + 1 \in 1 .. n
        BY <2>3, <3>2, <3>6, <3>8
      <4> QED
        BY <2>1, <2>3, <3>1, <3>6, <4>1 DEF PushWriterInv, PushesFound
    <3> QED
      BY <3>7, <3>8
  <2>4. CASE u = t /\ ~CollectPosition(t)
    <3>1. CASE WritesBarrier(t)
      <4>1. pc'[t] \notin {"join", "local", "pushed"}
        BY <3>1 DEF WritesBarrier, make_writer, LocalBarrier, PendingBarrier, AfterBind, AfterPre,
                    CaptureInv, CaptureTypeOK
      <4> QED
        BY <2>4, <4>1
    <3>2. CASE ~WritesBarrier(t)
      <4>1. pc[t] \notin {"join", "local", "pushed"} /\ found' = found
        BY <2>4, <3>2, <1>2, StreamStep DEF CaptureStep, WritesBarrier, Call, BeginUpdate, EndUpdate, write_header,
           write_api_command, BeginCall, Execute, end_packet
      <4>2. found'[t] = <<>>
        BY <4>1 DEF WriterInv, WriterAt, FoundBehind
      <4>3. Len(found'[t]) = 0
        BY <4>2
      <4>4. i \in Nat
        BY BasicTypes DEF CaptureInv
      <4> QED
        BY <2>4, <4>3, <4>4
    <3> QED
      BY <3>1, <3>2
  <2> QED
    BY <2>2, <2>3, <2>4
<1> QED
  BY <1>1, <1>2

LEMMA KeepsCallAnswered ==
  ASSUME "sync" \notin Kinds, CaptureInv, CaptureInv', WriterInv, PushWriterInv,
         NEW t \in Threads, CaptureStep(t), NEW u \in Threads
  PROVE  CallAnswered(u)'
<1> SUFFICES ASSUME pc'[u] \in Writing, NEW i \in Threads \ {u}, NEW k \in Pushes(i)',
                    k < call'[u].seen[i]
             PROVE  Reached(trace'[u], Len(trace'[u]), i, k)
  BY DEF CallAnswered
<1>0. /\ Len(trace[u]) \in 0 .. Len(trace[u]) /\ Len(trace'[u]) \in Nat /\ Len(trace[u]) <= Len(trace'[u])
      /\ Len(trace[i]) \in Nat /\ \A v \in Threads : call[v].seen[i] \in Nat
  BY BasicTypes, StreamsGrow DEF CaptureInv
<1>1. CASE pc[u] \in Writing /\ call'[u] = call[u]
  <2>1. call[u].seen[i] <= Len(trace[i])
    BY <1>1 DEF WriterInv, WriterAt, SeenBehind, InCall, Writing
  <2>2. k # Len(trace[i])
    BY <1>0, <1>1, <2>1
  <2>3. k \in Pushes(i)
    BY <2>2, NoNewPushes
  <2>4. Reached(trace[u], Len(trace[u]), i, k)
    BY <1>1, <2>3 DEF PushWriterInv, CallAnswered
  <2> QED
    BY <1>0, <2>4, ReachedGrows
<1>2. CASE u = t /\ PendingBarrier(t)
  <2>1. ~push_thread_barriers(t)
    BY <1>2 DEF PendingBarrier, push_thread_barriers
  <2>2. k \in Pushes(i)
    BY <2>1, NoNewPushes
  <2> QED
    BY <1>2, <2>2, BarrierAnswers DEF WritesBarrier
<1>3. CASE u = t /\ write_api_command(t)
  <2>1. ~pending[t] /\ UNCHANGED <<trace, nstreams>> /\ pc[t] = "command"
    BY <1>3 DEF write_api_command, Writing, CaptureInv, CaptureTypeOK
  <2>2. k \in Pushes(i) /\ t < nstreams /\ nstreams \in Nat /\ t \in Nat
    BY <2>1, NoNewPushes, BasicTypes DEF CaptureInv, StreamOwner, push_thread_barriers
  <2>3. Reached(trace[t], Len(trace[t]), i, k)
    <3>1. ~(nstreams <= t)
      BY <2>2
    <3>2. pending[t] \/ nstreams <= t \/ Reached(trace[t], Len(trace[t]), i, k)
      BY <1>3, <2>2 DEF PushWriterInv, PushesAnswered
    <3> QED
      BY <2>1, <3>1, <3>2
  <2> QED
    BY <1>3, <2>1, <2>3
<1>4. CASE u # t
  BY <1>1, <1>4, OthersStay
<1>5. CASE u = t /\ ~PendingBarrier(t) /\ ~write_api_command(t)
  <2>1. ~Call(t) /\ ~end_packet(t) /\ ~BeginUpdate(t) /\ ~EndUpdate(t) /\ ~write_header(t)
    BY <1>5, ZenonT(60) DEF Call, AfterBind, AfterPre, end_packet, BeginUpdate, EndUpdate, write_header, Writing,
                CaptureInv, CaptureTypeOK
  <2>2. ~make_writer(t) /\ ~LocalBarrier(t)
    BY <1>5 DEF make_writer, LocalBarrier, AfterBind, AfterPre, Writing, CaptureInv, CaptureTypeOK
  <2>3. ~CollectPosition(t)
    BY <1>5 DEF CollectPosition, Writing
  <2>4. call' = call /\ pc[t] \in Writing
    BY <1>5, <2>1, <2>2, <2>3, StreamStep DEF CaptureStep, BeginCall, Execute, push_thread_barriers, Writing
  <2> QED
    BY <1>1, <1>5, <2>4
<1> QED
  BY <1>2, <1>3, <1>4, <1>5

LEMMA KeepsCallsAnswered ==
  ASSUME "sync" \notin Kinds, CaptureInv, WriterInv, PushWriterInv, CallsAnswered,
         NEW t \in Threads, CaptureStep(t)
  PROVE  CallsAnswered'
<1> SUFFICES ASSUME NEW u \in Threads, NEW j \in 1 .. Len(trace'[u]), trace'[u][j].type = "call"
             PROVE  PacketAnswered(u, j)'
  BY DEF CallsAnswered
<1>0. \A i \in Threads : /\ Len(trace[i]) \in Nat /\ Len(trace'[i]) \in Nat /\ Len(trace[i]) <= Len(trace'[i])
                         /\ \A m \in 1 .. Len(trace[i]) : trace'[i][m] = trace[i][m]
                         /\ i # t => trace'[i] = trace[i]
  BY StreamsGrow
<1>1. CASE j \in 1 .. Len(trace[u])
  <2> DEFINE p == trace[u][j]
  <2>1. trace'[u][j] = p /\ p.type = "call" /\ PacketAnswered(u, j) /\ p.seen \in [Threads -> Nat]
    BY <1>0, <1>1, PacketAt DEF CallsAnswered, CaptureInv
  <2>2. /\ p.seen[u] < j /\ \A i \in Threads : p.seen[i] \in Nat /\ p.seen[i] <= Len(trace[i])
    BY <2>1 DEF PacketAnswered
  <2>3. \A i \in Threads : p.seen[i] <= Len(trace'[i])
    BY <1>0, <2>2
  <2>4. ASSUME NEW i \in Threads \ {u}, NEW k \in 0 .. p.seen[i] - 1, HasPushBarrier(trace'[i][k + 1].kind)
        PROVE  Reached(trace'[u], j - 1, i, k)
    <3>1. k + 1 \in 1 .. Len(trace[i])
      BY <1>0, <2>2
    <3>2. trace'[i][k + 1] = trace[i][k + 1]
      BY <1>0, <3>1
    <3>3. Reached(trace[u], j - 1, i, k)
      BY <2>1, <2>4, <3>2 DEF PacketAnswered
    <3>4. j - 1 \in 0 .. Len(trace[u]) /\ j - 1 \in Nat /\ j - 1 <= j - 1
      BY <1>0, <1>1
    <3> QED
      BY <3>3, <3>4, ReachedGrows
  <2> QED
    BY <2>1, <2>2, <2>3, <2>4 DEF PacketAnswered
<1>2. CASE ~(j \in 1 .. Len(trace[u]))
  <2>1. u = t /\ trace' # trace
    BY <1>0, <1>2
  <2>2. ~WritesBarrier(t)
    <3> SUFFICES ASSUME WritesBarrier(t) PROVE FALSE
      OBVIOUS
    <3> DEFINE p == BarrierOf(t)
    <3>1. p \in Packet /\ Appends(t, p)
      BY StreamStep
    <3>2. p.type = "barrier"
      BY DEF BarrierOf, BarrierPacket
    <3> HIDE DEF p
    <3>3. Len(trace'[t]) = Len(trace[t]) + 1 /\ trace'[t][Len(trace[t]) + 1] = p
      BY <3>1, AppendedStream DEF CaptureInv
    <3> QED
      BY <1>0, <1>2, <2>1, <3>2, <3>3
  <2>3. /\ open[t] \in Packet /\ Appends(t, open[t]) /\ pc[t] \in {"update", "end"}
    BY <2>1, <2>2, StreamStep
  <2>4. Len(trace'[t]) = Len(trace[t]) + 1 /\ trace'[t][Len(trace[t]) + 1] = open[t]
    BY <2>3, AppendedStream DEF CaptureInv
  <2>5. j = Len(trace[t]) + 1 /\ trace'[t][j] = open[t]
    BY <1>0, <1>2, <2>1, <2>4
  <2>6. pc[t] = "end" /\ open[t].seen = call[t].seen
    BY <2>1, <2>3, <2>5 DEF CaptureInv, CallShape
  <2> DEFINE s == call[t].seen
  <2>7. \A i \in Threads : s[i] \in Nat /\ s[i] <= Len(trace[i])
    BY <2>6, BasicTypes DEF CaptureInv, WriterInv, WriterAt, SeenBehind, InCall
  <2>8. /\ s[t] < j /\ \A i \in Threads : s[i] <= Len(trace'[i])
    BY <1>0, <2>5, <2>7, SMTT(30)
  <2>9. ASSUME NEW i \in Threads \ {t}, NEW k \in 0 .. s[i] - 1, HasPushBarrier(trace'[i][k + 1].kind)
        PROVE  Reached(trace'[t], j - 1, i, k)
    <3>1. k \in 0 .. Len(trace[i]) /\ k < Len(trace[i]) /\ k < s[i] /\ trace'[i] = trace[i]
      BY <1>0, <2>7
    <3>2. k \in Pushes(i)
      BY <2>9, <3>1 DEF Pushes
    <3>3. Reached(trace[t], Len(trace[t]), i, k)
      BY <2>6, <3>1, <3>2 DEF PushWriterInv, CallAnswered, Writing
    <3>4. Len(trace[t]) \in 0 .. Len(trace[t]) /\ j - 1 \in Nat /\ Len(trace[t]) <= j - 1
      BY <1>0, <2>5
    <3> QED
      BY <3>3, <3>4, ReachedGrows
  <2> HIDE DEF s
  <2>10. trace'[t][j].seen = s
    BY <2>5, <2>6 DEF s
  <2> QED
    BY <2>1, <2>8, <2>9, <2>10 DEF PacketAnswered
<1> QED
  BY <1>1, <1>2
-----------------------------------------------------------------------------
LEMMA InitPushInv == Init => PushInv
<1> SUFFICES ASSUME Init PROVE PushInv
  OBVIOUS
<1>1. OrderInv /\ \A t \in Threads : Len(trace[t]) = 0 /\ pc[t] = "idle"
  BY InitOrderInv DEF Init, CaptureInit
<1>2. CallsAnswered
  BY <1>1 DEF CallsAnswered
<1>3. \A i \in Threads : Pushes(i) = {}
  BY <1>1 DEF Pushes
<1>4. PushWriterInv
  BY <1>1, <1>3 DEF PushWriterInv, PushesAnswered, PushesFound, CallAnswered, Writing
<1> QED
  BY <1>1, <1>2, <1>4 DEF PushInv

LEMMA SameStreamsSameCalls == CallsAnswered /\ trace' = trace => CallsAnswered'
BY DEF CallsAnswered, PacketAnswered, Reached, Reaches

LEMMA NextPushInv ==
  ASSUME "sync" \notin Kinds
  PROVE  PushInv /\ [Next]_vars => PushInv'
<1> SUFFICES ASSUME PushInv, [Next]_vars PROVE PushInv'
  OBVIOUS
<1>1. OrderInv /\ OrderInv' /\ CaptureInv /\ CaptureInv' /\ CallsAnswered
  BY NextOrderInv DEF PushInv, OrderInv, TypeInv, TypeOK, CaptureInv
<1>2. CASE Capture
  <2>1. PICK t \in Threads : CaptureStep(t)
    BY <1>2 DEF Capture, CaptureNext
  <2>2. WriterInv /\ WriterInv' /\ PushWriterInv /\ phase' = "capture"
    BY <1>1, <1>2 DEF Capture, PushInv, OrderInv
  <2> QED
    BY <1>1, <2>1, <2>2, KeepsPushesAnswered, KeepsPushesFound, KeepsCallAnswered, KeepsCallsAnswered
       DEF PushInv, PushWriterInv
<1>3. CASE Finish
  <2>1. \A t \in Threads : pc[t] = "idle" /\ open[t] = NoPacket
    BY <1>1, <1>3 DEF Finish, FinishCapture, CaptureIdle, InCall, OrderInv, WriterInv, WriterAt, NothingOpen
  <2>2. trace' = trace
    <3>1. trace' = [t \in Threads |-> trace[t]]
      BY <1>1, <1>3, <2>1, EndedOf DEF Finish, FinishCapture, CaptureInv
    <3> QED
      BY <1>1, <3>1 DEF CaptureInv, CaptureTypeOK
  <2> QED
    BY <1>1, <1>3, <2>2, SameStreamsSameCalls DEF Finish, PushInv
<1>4. CASE \E t \in Threads : ReplayBy(t) \/ Fail(t)
  BY <1>1, <1>4, SameStreamsSameCalls DEF ReplayBy, Fail, captureVars, PushInv
<1>5. CASE Stop
  BY <1>1, <1>5, SameStreamsSameCalls DEF Stop, captureVars, PushInv
<1>6. CASE UNCHANGED vars
  <2>1. UNCHANGED <<trace, nstreams, pc, call, found, pending, phase>>
    BY <1>6 DEF vars, captureVars
  <2>2. PushWriterInv => PushWriterInv'
    BY <2>1 DEF PushWriterInv, PushesAnswered, PushesFound, CallAnswered, Pushes
  <2> QED
    BY <1>1, <2>1, <2>2, SameStreamsSameCalls DEF PushInv
<1> QED
  BY <1>2, <1>3, <1>4, <1>5, <1>6 DEF Next, Done

LEMMA PushInvImplies == PushInv => PushBarrierOrder
<1> SUFFICES ASSUME PushInv, NEW t \in Executing, OpenPacket(t).type = "call",
                    NEW i \in Threads, NEW k \in Earlier(OpenPacket(t), i),
                    HasPushBarrier(Written(i, k).kind)
             PROVE  Complete(i, k) \/ WrittenDuring(t, completed[t], i, k)
  BY DEF PushBarrierOrder
<1> DEFINE j == completed[t] + 1
           p == trace[t][j]
<1>1. /\ phase = "replay" /\ rpc[t] = "execute" /\ t \in Threads /\ OpenPacket(t) = p
      /\ CaptureTypeOK /\ ReplayInv /\ ReaderInv /\ CallsAnswered
  BY DEF Executing, OpenPacket, PushInv, OrderInv, TypeInv, TypeOK, ReplayInv
<1>2. completed[t] \in Nat /\ completed[i] \in Nat /\ j \in 1 .. Len(trace[t])
  BY <1>1, BasicTypes DEF ReplayInv, ReplayTypeOK, ReplayPosition
<1>3. PacketAnswered(t, j) /\ p.seen \in [Threads -> Nat]
  BY <1>1, <1>2, PacketAt DEF CallsAnswered
<1>4. k \in 0 .. p.seen[i] - 1 /\ k \in Nat /\ k < p.seen[i]
  BY <1>1, <1>3 DEF Earlier
<1>5. CASE i = t
  <2>1. p.seen[t] < j /\ p.seen[t] \in Nat
    BY <1>1, <1>3 DEF PacketAnswered
  <2> QED
    BY <1>2, <1>4, <1>5, <2>1 DEF Complete
<1>6. CASE i # t
  <2>1. Reached(trace[t], j - 1, i, k)
    BY <1>3, <1>4, <1>6 DEF PacketAnswered, Written
  <2>2. PICK n \in 1 .. completed[t] : Reaches(trace[t][n], i, k)
    BY <1>2, <2>1 DEF Reached
  <2>3. n \in 1 .. Len(trace[t])
    BY <1>2
  <2>4. Passed(t, n)
    BY <1>1, <2>2 DEF Reaches, ReaderInv, BarriersPassed
  <2>5. k <= trace[t][n].at[i] /\ trace[t][n].at[i] <= completed[i] /\ trace[t][n].at[i] \in Nat
    BY <1>1, <1>6, <2>2, <2>3, <2>4, PacketAt DEF Reaches, Passed
  <2>6. CASE trace[t][n].at[i] = k
    BY <2>2, <2>6 DEF Reaches, WrittenDuring
  <2>7. CASE trace[t][n].at[i] # k
    BY <1>2, <1>4, <2>5, <2>7 DEF Complete
  <2> QED
    BY <2>6, <2>7
<1> QED
  BY <1>5, <1>6

(***************************************************************************)
(* While the application does not call vkSyncBuffer, the replay of any     *)
(* capture starts a command only after every earlier wait, reset or        *)
(* present of the other threads is complete, unless the calling thread had *)
(* written a barrier in the middle of that command (push_thread_barriers,  *)
(* write_api_command).                                                     *)
(***************************************************************************)
THEOREM PushBarriersHold ==
  ASSUME "sync" \notin Kinds
  PROVE  Spec => []PushBarrierOrder
<1>1. Init => PushInv
  BY InitPushInv
<1>2. PushInv /\ [Next]_vars => PushInv'
  BY NextPushInv
<1>3. PushInv => PushBarrierOrder
  BY PushInvImplies
<1> QED
  BY <1>1, <1>2, <1>3, PTL DEF Spec

===============================================================================
