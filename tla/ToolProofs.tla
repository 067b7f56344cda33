------------------------------ MODULE ToolProofs ------------------------------
(***************************************************************************)
(* The programs that write a trace from another one: the second pass of    *)
(* lava-tool, the import of a GFXReconstruct capture, and the simulation   *)
(* in lava-tool's first pass that finds the addresses to mark.             *)
(***************************************************************************)
EXTENDS OutputRewrite, GfxrImport, SimulatedMarkings, SequenceTheorems, FiniteSetTheorems, WellFoundedInduction, TLAPS

(***************************************************************************)
(* The second pass of lava-tool, for any number of streams and packets:    *)
(* numbers are translated in time and the new trace has the dependencies   *)
(* of the old one.                                                         *)
(*                                                                         *)
(* The argument.  The mapping of a stream is complete up to the packet     *)
(* that is being written, one entry further when a barrier is about to be  *)
(* published.  What capture did with one object is a chain, each command   *)
(* naming the one before it.  A thread writes a command when the one it    *)
(* names is published, so the commands that have been written are a prefix *)
(* of the chain, and the writer's own record of the last touch is the      *)
(* image of the last of them.                                              *)
(***************************************************************************)

Place == [thread : Streams, packet : Nat]
InputKinds == {"update", "command", "bind", "submit", "get", "barrier"}
InputPackets == [kind : InputKinds, object : Things \cup {"none"}, payload : Payloads \cup {0},
                 need : Place \cup {Nobody}, after : {<<>>} \cup [Streams -> Nat]]
OutputPackets == [from : Int, kind : InputKinds, need : [thread : Int, packet : Int],
                  after : {<<>>} \cup [Streams -> Int]]

OutTypes ==
  /\ input \in [Streams -> Seq(InputPackets)]
  /\ captured \in [Things -> Place \cup {Nobody}]
  /\ rewriting \in BOOLEAN
  /\ done \in [Streams -> Nat]
  /\ at \in [Streams -> {"step", "barrier", "enter", "waiting", "handle", "write", "terminated"}]
  /\ isOpen \in [Streams -> BOOLEAN]
  /\ output \in [Streams -> Seq(OutputPackets)]
  /\ lastTouch \in [Things -> Place \cup {Nobody}]
  /\ mapping \in [Streams -> Seq(Nat)]

\* A packet of the trace that is read, number k of its stream counted from 1.
InputPacket(p, t, k) ==
  /\ p.kind # "barrier" => p.object \in Things
  /\ p.need.thread = t => p.need.packet < k - 1
  /\ p.kind = "barrier" => p.after \in [Streams -> Nat] /\ p.after[t] = k - 1

InputOK == \A t \in Streams : \A k \in 1 .. Len(input[t]) : InputPacket(input[t][k], t, k)

NotStarted ==
  ~rewriting => \A t \in Streams : /\ done[t] = 0 /\ at[t] = "step" /\ ~isOpen[t]
                                   /\ output[t] = <<>> /\ mapping[t] = <<0>>

Ready(t, n) == n.thread \in Streams \ {t} => n.packet < done[n.thread]

\* The packet a thread is at, in each place of its loop.
Stage(t) ==
  /\ at[t] \in {"barrier", "enter", "handle", "write"} => isOpen[t]
  /\ at[t] \in {"waiting", "terminated"} => ~isOpen[t]
  /\ done[t] <= Len(input[t])
  /\ isOpen[t] => done[t] < Len(input[t])
  /\ at[t] \in {"barrier", "enter"} => Packet(t).kind = "barrier"
  /\ at[t] = "waiting" => done[t] > 0 /\ Barrier(t).kind = "barrier"
  /\ at[t] \in {"handle", "write"} => Packet(t).kind # "barrier"
  /\ at[t] = "write" => Ready(t, Packet(t).need)

\* How far the mapping of a stream is, and where its last entry points.
Recording(t) ==
  /\ Len(mapping[t]) = done[t] + (IF at[t] = "enter" \/ (at[t] = "step" /\ isOpen[t]) THEN 2 ELSE 1)
  /\ mapping[t][Len(mapping[t])] = Len(output[t]) + (IF at[t] \in {"enter", "waiting"} THEN 1 ELSE 0)

\* The packets of the new trace.
DependencyKept(p, t) ==
  p.from >= 0 /\ p.kind # "barrier" =>
    LET old == input[t][p.from + 1].need
    IN /\ p.from < Len(input[t])
       /\ p.need.thread = old.thread
       /\ old.thread \in Streams \ {t} => /\ CanTranslate(old.thread, old.packet + 1)
                                          /\ p.need.packet + 1 = translate(old.thread, old.packet + 1)

BarrierKept(p, t) ==
  p.kind = "barrier" =>
    LET old == input[t][p.from + 1].after
    IN /\ p.from >= 0 /\ p.from < Len(input[t])
       /\ \A i \in Streams : CanTranslate(i, old[i]) /\ p.after[i] = translate(i, old[i])

OutputOK == \A t \in Streams : \A k \in 1 .. Len(output[t]) :
              DependencyKept(output[t][k], t) /\ BarrierKept(output[t][k], t)

\* The commands on one object, in the order of the capture.
TouchesThing(p, o) == p.kind \notin {"update", "barrier"} /\ p.object = o

IsChain(s, o) ==
  /\ \A i \in 1 .. Len(s) :
       /\ s[i].packet + 1 \in 1 .. Len(input[s[i].thread])
       /\ TouchesThing(input[s[i].thread][s[i].packet + 1], o)
       /\ input[s[i].thread][s[i].packet + 1].need = IF i = 1 THEN Nobody ELSE s[i - 1]
  /\ \A i, j \in 1 .. Len(s) : s[i] = s[j] => i = j
  /\ \A t \in Streams : \A k \in 1 .. Len(input[t]) :
       TouchesThing(input[t][k], o) => \E i \in 1 .. Len(s) : s[i] = [thread |-> t, packet |-> k - 1]
  /\ captured[o] = IF s = <<>> THEN Nobody ELSE s[Len(s)]

\* Their first m have been written, and the writer knows the last of these.
Image(r, l) == l.thread = r.thread /\ l.packet + 1 = translate(r.thread, r.packet + 1)

WrittenTo(s, o, m) ==
  /\ \A i \in 1 .. Len(s) : i <= m <=> CanTranslate(s[i].thread, s[i].packet + 1)
  /\ m = 0 => lastTouch[o] = Nobody
  /\ m > 0 => lastTouch[o] \in Place /\ Image(s[m], lastTouch[o])

Chained(o) == \E s \in Seq(Place) : IsChain(s, o) /\ \E m \in 0 .. Len(s) : WrittenTo(s, o, m)

OutInv == /\ OutTypes /\ InputOK /\ NotStarted /\ ~aborted
          /\ \A t \in Streams : Stage(t) /\ Recording(t)
          /\ OutputOK
          /\ \A o \in Things : Chained(o)

-----------------------------------------------------------------------------
LEMMA OutInvImplies == OutInv => RewriteKeepsOrder
<1> SUFFICES ASSUME OutInv PROVE RewriteKeepsOrder
  OBVIOUS
<1>1. MappingReady
  <2> SUFFICES ASSUME NEW t \in Streams, NEW n \in 0 .. done[t] PROVE CanTranslate(t, n)
    BY DEF MappingReady, OutInv
  <2>1. Len(mapping[t]) >= done[t] + 1 /\ mapping[t] \in Seq(Nat) /\ done[t] \in Nat
    BY DEF OutInv, OutTypes, Recording
  <2> QED
    BY <2>1 DEF CanTranslate
<1>2. \A t \in Streams : output[t] \in Seq(OutputPackets)
  BY DEF OutInv, OutTypes
<1>3. DependenciesKept
  <2>1. \A t \in Streams : DOMAIN output[t] = 1 .. Len(output[t])
    BY <1>2
  <2>2. \A t \in Streams : \A k \in DOMAIN output[t] : DependencyKept(output[t][k], t)
    BY <2>1, Zenon DEF OutInv, OutputOK
  <2> QED
    BY <2>2, Zenon DEF DependencyKept, DependenciesKept
<1>4. BarriersKept
  BY <1>2 DEF OutInv, OutputOK, BarrierKept, BarriersKept
<1> QED
  BY <1>1, <1>3, <1>4 DEF RewriteKeepsOrder

-----------------------------------------------------------------------------
(***************************************************************************)
(* The mapping only grows, so what has been translated stays.              *)
(***************************************************************************)
Longer == \A i \in Streams : /\ Len(mapping[i]) <= Len(mapping'[i])
                             /\ \A n \in 1 .. Len(mapping[i]) : mapping'[i][n] = mapping[i][n]

LEMMA TranslationStays ==
  ASSUME OutTypes, OutTypes', Longer, NEW i \in Streams, NEW n, CanTranslate(i, n)
  PROVE  CanTranslate(i, n)' /\ translate(i, n)' = translate(i, n)
<1>1. /\ mapping[i] \in Seq(Nat) /\ mapping'[i] \in Seq(Nat)
      /\ Len(mapping[i]) <= Len(mapping'[i])
      /\ \A k \in 1 .. Len(mapping[i]) : mapping'[i][k] = mapping[i][k]
  BY DEF OutTypes, Longer
<1>2. n + 1 \in 1 .. Len(mapping[i])
  BY <1>1 DEF CanTranslate
<1> QED
  BY <1>1, <1>2 DEF CanTranslate, translate

LEMMA RecordGrows ==
  ASSUME OutTypes, NEW t \in Streams, NEW n \in Nat, NEW v \in Nat, mapping' = record(t, n, v)
  PROVE  /\ mapping' \in [Streams -> Seq(Nat)] /\ Longer
         /\ \A i \in Streams \ {t} : mapping'[i] = mapping[i]
         /\ Len(mapping[t]) # n => mapping'[t] = mapping[t]
         /\ Len(mapping[t]) = n => Len(mapping'[t]) = n + 1 /\ mapping'[t][n + 1] = v
<1>1. mapping[t] \in Seq(Nat) /\ mapping \in [Streams -> Seq(Nat)]
  BY DEF OutTypes
<1>2. CASE Len(mapping[t]) = n
  <2>1. mapping' = [mapping EXCEPT ![t] = Append(mapping[t], v)]
    BY <1>2 DEF record
  <2>2. /\ Append(mapping[t], v) \in Seq(Nat) /\ Len(Append(mapping[t], v)) = Len(mapping[t]) + 1
        /\ Append(mapping[t], v)[Len(mapping[t]) + 1] = v
        /\ \A k \in 1 .. Len(mapping[t]) : Append(mapping[t], v)[k] = mapping[t][k]
    BY <1>1
  <2>3. mapping'[t] = Append(mapping[t], v) /\ \A i \in Streams \ {t} : mapping'[i] = mapping[i]
    BY <1>1, <2>1
  <2>4. mapping' \in [Streams -> Seq(Nat)]
    BY <1>1, <2>1, <2>2
  <2>5. \A i \in Streams : Len(mapping[i]) \in Nat
    BY <1>1
  <2>6. Longer
    <3> SUFFICES ASSUME NEW i \in Streams
                 PROVE  /\ Len(mapping[i]) <= Len(mapping'[i])
                        /\ \A k \in 1 .. Len(mapping[i]) : mapping'[i][k] = mapping[i][k]
      BY DEF Longer
    <3>1. CASE i = t
      <4>1. Len(mapping'[t]) = Len(mapping[t]) + 1 /\ \A k \in 1 .. Len(mapping[t]) : mapping'[t][k] = mapping[t][k]
        BY <2>2, <2>3
      <4> QED
        BY <2>5, <3>1, <4>1
    <3>2. CASE i # t
      BY <2>3, <2>5, <3>2
    <3> QED
      BY <3>1, <3>2
  <2> QED
    BY <1>2, <2>2, <2>3, <2>4, <2>6
<1>3. CASE Len(mapping[t]) # n
  <2>1. mapping' = mapping
    BY <1>1, <1>3 DEF record
  <2>2. \A i \in Streams : Len(mapping[i]) \in Nat
    BY <1>1
  <2> QED
    BY <1>1, <1>3, <2>1, <2>2 DEF Longer
<1> QED
  BY <1>2, <1>3

LEMMA OldPacketsKept ==
  ASSUME OutTypes, OutTypes', InputOK, Longer, input' = input, NEW t \in Streams, NEW p,
         p.from \in Int, DependencyKept(p, t), BarrierKept(p, t)
  PROVE  DependencyKept(p, t)' /\ BarrierKept(p, t)'
<1>1. \A i \in Streams : \A n : CanTranslate(i, n) => CanTranslate(i, n)' /\ translate(i, n)' = translate(i, n)
  BY TranslationStays
<1>2. DependencyKept(p, t)'
  <2> SUFFICES ASSUME p.from >= 0, p.kind # "barrier"
               PROVE  /\ p.from < Len(input[t])
                      /\ p.need.thread = input[t][p.from + 1].need.thread
                      /\ input[t][p.from + 1].need.thread \in Streams \ {t} =>
                            /\ CanTranslate(input[t][p.from + 1].need.thread, input[t][p.from + 1].need.packet + 1)'
                            /\ p.need.packet + 1 = translate(input[t][p.from + 1].need.thread, input[t][p.from + 1].need.packet + 1)'
    BY DEF DependencyKept
  <2> QED
    BY <1>1 DEF DependencyKept
<1>3. BarrierKept(p, t)'
  <2> SUFFICES ASSUME p.kind = "barrier"
               PROVE  /\ p.from >= 0 /\ p.from < Len(input[t])
                      /\ \A i \in Streams :
                           /\ CanTranslate(i, input[t][p.from + 1].after[i])'
                           /\ p.after[i] = translate(i, input[t][p.from + 1].after[i])'
    BY DEF BarrierKept
  <2> QED
    BY <1>1 DEF BarrierKept
<1> QED
  BY <1>2, <1>3

(***************************************************************************)
(* A step of one thread leaves the others where they are.                  *)
(***************************************************************************)
StepOf(t) ==
  /\ input' = input /\ captured' = captured /\ rewriting' = rewriting
  /\ \A i \in Streams \ {t} : /\ at'[i] = at[i] /\ isOpen'[i] = isOpen[i] /\ done'[i] = done[i]
                              /\ output'[i] = output[i] /\ mapping'[i] = mapping[i]
  /\ done[t] <= done'[t]

LEMMA PlaceFields ==
  ASSUME NEW n \in Place \cup {Nobody}
  PROVE  n.thread \in Int /\ n.packet \in Nat /\ n \in [thread : Int, packet : Int]
<1>1. CASE n \in Place
  <2>1. \A x \in Streams : x \in Int
    BY StreamsAssumption
  <2>2. n.thread \in Streams /\ n.packet \in Nat /\ n = [thread |-> n.thread, packet |-> n.packet]
    BY <1>1 DEF Place
  <2>3. n.thread \in Int /\ n.packet \in Int
    BY <2>1, <2>2
  <2>4. [thread |-> n.thread, packet |-> n.packet] \in [thread : Int, packet : Int]
    BY <2>3
  <2> QED
    BY <2>2, <2>3, <2>4
<1>2. CASE n = Nobody
  BY <1>2 DEF Nobody
<1> QED
  BY <1>1, <1>2

LEMMA OutputPacketType ==
  ASSUME NEW f \in Int, NEW k \in InputKinds, NEW n \in [thread : Int, packet : Int],
         NEW a \in {<<>>} \cup [Streams -> Int], NEW p, p = [from |-> f, kind |-> k, need |-> n, after |-> a]
  PROVE  p \in OutputPackets /\ p.from = f /\ p.kind = k /\ p.need = n /\ p.after = a
  BY DEF OutputPackets

LEMMA InputPacketType ==
  ASSUME OutTypes, NEW t \in Streams, done[t] < Len(input[t])
  PROVE  /\ Packet(t) \in InputPackets /\ Packet(t).need \in Place \cup {Nobody}
         /\ Packet(t).need.thread \in Int /\ Packet(t).need.packet \in Nat
         /\ done[t] + 1 \in 1 .. Len(input[t])
<1>1. input[t] \in Seq(InputPackets) /\ done[t] \in Nat
  BY DEF OutTypes
<1>2. done[t] + 1 \in 1 .. Len(input[t])
  BY <1>1
<1>3. Packet(t) \in InputPackets
  BY <1>1, <1>2 DEF Packet
<1>4. Packet(t).need \in Place \cup {Nobody}
  BY <1>3 DEF InputPackets
<1> QED
  BY <1>2, <1>3, <1>4, PlaceFields

LEMMA OthersKept ==
  ASSUME OutTypes, OutTypes', NEW t \in Streams, StepOf(t), NEW i \in Streams \ {t}, Stage(i), Recording(i)
  PROVE  Stage(i)' /\ Recording(i)'
<1>1. Recording(i)'
  BY DEF StepOf, Recording
<1>2. \A n \in Place \cup {Nobody} : Ready(i, n) => Ready(i, n)'
  <2> SUFFICES ASSUME NEW n \in Place \cup {Nobody}, n.thread \in Streams \ {i}, n.packet < done[n.thread]
               PROVE  n.packet < done'[n.thread]
    BY DEF Ready
  <2>0. n.packet \in Int /\ done[n.thread] \in Nat /\ done[t] \in Nat /\ done'[t] \in Nat /\ done[t] <= done'[t]
    BY SMTT(30) DEF Place, Nobody, StepOf, OutTypes
  <2>1. CASE n.thread = t
    BY <2>0, <2>1
  <2>2. CASE n.thread # t
    BY <2>2 DEF StepOf
  <2> QED
    BY <2>1, <2>2
<1>3. Packet(i)' = Packet(i) /\ Barrier(i)' = Barrier(i)
  BY DEF StepOf, Packet, Barrier
<1>4. at[i] = "write" /\ isOpen[i] /\ Ready(i, Packet(i).need) => Ready(i, Packet(i).need)'
  <2> SUFFICES ASSUME at[i] = "write", isOpen[i], Ready(i, Packet(i).need) PROVE Ready(i, Packet(i).need)'
    OBVIOUS
  <2>1. Packet(i).need \in Place \cup {Nobody}
    BY InputPacketType DEF Stage
  <2> QED
    BY <1>2, <1>3, <2>1
<1> QED
  BY <1>1, <1>3, <1>4 DEF Stage, StepOf

\* A command on o is recorded only by the step that touches it.
LEMMA ChainKept ==
  ASSUME OutTypes, OutTypes', Longer, input' = input, captured' = captured,
         NEW o \in Things, lastTouch'[o] = lastTouch[o], Chained(o),
         \A u \in Streams : \A n \in Nat :
           n + 1 \in 1 .. Len(input[u]) /\ CanTranslate(u, n + 1)' /\ TouchesThing(input[u][n + 1], o)
             => CanTranslate(u, n + 1)
  PROVE  Chained(o)'
<1>1. PICK s \in Seq(Place) : IsChain(s, o) /\ \E m \in 0 .. Len(s) : WrittenTo(s, o, m)
  BY DEF Chained
<1>2. PICK m \in 0 .. Len(s) : WrittenTo(s, o, m)
  BY <1>1
<1>3. IsChain(s, o)'
  BY <1>1 DEF IsChain
<1>4. \A i \in 1 .. Len(s) : s[i].thread \in Streams /\ s[i].packet \in Nat /\ s[i] \in Place
  <2>1. \A i \in 1 .. Len(s) : s[i] \in Place
    OBVIOUS
  <2> QED
    BY <2>1 DEF Place
<1>5. ASSUME NEW i \in 1 .. Len(s)
      PROVE  i <= m <=> CanTranslate(s[i].thread, s[i].packet + 1)'
  <2>1. i <= m <=> CanTranslate(s[i].thread, s[i].packet + 1)
    BY <1>2 DEF WrittenTo
  <2>2. s[i].packet + 1 \in 1 .. Len(input[s[i].thread]) /\ TouchesThing(input[s[i].thread][s[i].packet + 1], o)
    BY <1>1 DEF IsChain
  <2>3. CanTranslate(s[i].thread, s[i].packet + 1) => CanTranslate(s[i].thread, s[i].packet + 1)'
    BY <1>4, TranslationStays
  <2> QED
    BY <1>4, <2>1, <2>2, <2>3
<1>6. m > 0 => lastTouch[o] \in Place /\ Image(s[m], lastTouch[o])'
  <2> SUFFICES ASSUME m > 0
               PROVE  /\ lastTouch[o] \in Place /\ lastTouch[o].thread = s[m].thread
                      /\ lastTouch[o].packet + 1 = translate(s[m].thread, s[m].packet + 1)'
    BY DEF Image
  <2>1. m \in 1 .. Len(s) /\ CanTranslate(s[m].thread, s[m].packet + 1)
    BY <1>2 DEF WrittenTo
  <2>2. translate(s[m].thread, s[m].packet + 1)' = translate(s[m].thread, s[m].packet + 1)
    BY <1>4, <2>1, TranslationStays
  <2> QED
    BY <1>2, <2>2 DEF WrittenTo, Image
<1>7. WrittenTo(s, o, m)'
  BY <1>2, <1>5, <1>6 DEF WrittenTo, Image
<1> QED
  BY <1>3, <1>7 DEF Chained

NewPacketsKept(t) ==
  \A k \in 1 .. Len(output'[t]) :
    \/ k \in 1 .. Len(output[t]) /\ output'[t][k] = output[t][k]
    \/ DependencyKept(output'[t][k], t) /\ BarrierKept(output'[t][k], t)

LEMMA StepKeeps ==
  ASSUME OutInv, OutTypes', ~aborted', rewriting, NEW t \in Streams, StepOf(t), Longer,
         Stage(t)', Recording(t)', NewPacketsKept(t), \A o \in Things : Chained(o)'
  PROVE  OutInv'
<1>1. OutTypes /\ InputOK /\ OutputOK /\ input' = input /\ rewriting'
  BY DEF OutInv, StepOf
<1>2. InputOK' /\ NotStarted'
  BY <1>1 DEF InputOK, NotStarted
<1>3. \A i \in Streams : Stage(i)' /\ Recording(i)'
  BY <1>1, OthersKept DEF OutInv
<1>4. OutputOK'
  <2> SUFFICES ASSUME NEW i \in Streams, NEW k \in 1 .. Len(output'[i])
               PROVE  DependencyKept(output[i][k], i)' /\ BarrierKept(output[i][k], i)'
    BY DEF OutputOK
  <2>1. output'[i][k].from \in Int
    <3>1. output'[i][k] \in OutputPackets
      BY DEF OutTypes
    <3> QED
      BY <3>1 DEF OutputPackets
  <2>2. DependencyKept(output'[i][k], i) /\ BarrierKept(output'[i][k], i)
    <3>1. CASE i = t /\ ~(k \in 1 .. Len(output[t]) /\ output'[t][k] = output[t][k])
      BY <3>1 DEF NewPacketsKept
    <3>2. CASE i # t \/ (k \in 1 .. Len(output[t]) /\ output'[t][k] = output[t][k])
      <4>1. k \in 1 .. Len(output[i]) /\ output'[i][k] = output[i][k]
        BY <3>2 DEF StepOf
      <4> QED
        BY <1>1, <4>1 DEF OutputOK
    <3> QED
      BY <3>1, <3>2
  <2>3. \A p : p.from \in Int /\ DependencyKept(p, i) /\ BarrierKept(p, i)
                => DependencyKept(p, i)' /\ BarrierKept(p, i)'
    BY <1>1, OldPacketsKept
  <2>4. PICK p : p = output'[i][k]
    OBVIOUS
  <2>5. DependencyKept(p, i)' /\ BarrierKept(p, i)'
    BY <2>1, <2>2, <2>3, <2>4
  <2> QED
    BY <2>4, <2>5 DEF DependencyKept, BarrierKept
<1> QED
  BY <1>1, <1>2, <1>3, <1>4 DEF OutInv

\* A step that writes nothing.
LEMMA QuietStepKeeps ==
  ASSUME OutInv, OutTypes', rewriting, NEW t \in Streams, StepOf(t), Stage(t)', Recording(t)',
         UNCHANGED <<output, lastTouch, mapping, aborted>>
  PROVE  OutInv'
<1>1. Longer
  <2>1. \A i \in Streams : Len(mapping[i]) \in Nat
    BY DEF OutInv, OutTypes
  <2> QED
    BY <2>1 DEF Longer
<1>2. NewPacketsKept(t)
  BY DEF NewPacketsKept
<1>3. ASSUME NEW o \in Things PROVE Chained(o)'
  <2>1. \A u \in Streams : \A n \in Nat : CanTranslate(u, n + 1)' => CanTranslate(u, n + 1)
    BY DEF CanTranslate
  <2>2. Chained(o) /\ OutTypes /\ input' = input /\ captured' = captured
    BY DEF OutInv, StepOf
  <2> QED
    BY <1>1, <2>1, <2>2, ChainKept
<1> QED
  BY <1>1, <1>2, <1>3, StepKeeps DEF OutInv

LEMMA KeepsOutStep ==
  ASSUME OutInv, NEW t \in Streams, OutStep(t)
  PROVE  OutInv'
<1>1. /\ OutTypes /\ Stage(t) /\ Recording(t) /\ rewriting /\ at[t] = "step"
      /\ UNCHANGED <<input, captured, rewriting, output, lastTouch, mapping, aborted>>
  BY DEF OutInv, OutStep, inputvars
<1>2. done' = IF isOpen[t] THEN [done EXCEPT ![t] = @ + 1] ELSE done
  BY DEF OutStep, Publish
<1>3. /\ done' \in [Streams -> Nat] /\ done'[t] = done[t] + (IF isOpen[t] THEN 1 ELSE 0)
      /\ \A i \in Streams \ {t} : done'[i] = done[i]
      /\ done[t] \in Nat /\ Len(input[t]) \in Nat /\ done'[t] <= Len(input[t])
  <2>1. done \in [Streams -> Nat] /\ Len(input[t]) \in Nat /\ done[t] <= Len(input[t])
        /\ (isOpen[t] => done[t] < Len(input[t]))
    BY <1>1 DEF OutTypes, Stage
  <2>2. CASE isOpen[t]
    BY <1>2, <2>1, <2>2
  <2>3. CASE ~isOpen[t]
    BY <1>2, <2>1, <2>3
  <2> QED
    BY <2>2, <2>3
<1>4. CASE done'[t] = Len(input[t])
  <2>1. isOpen' = [isOpen EXCEPT ![t] = FALSE] /\ at' = [at EXCEPT ![t] = "terminated"]
    BY <1>4 DEF OutStep
  <2>2. OutTypes' /\ StepOf(t)
    BY <1>1, <1>3, <2>1 DEF OutTypes, StepOf
  <2>3. Stage(t)' /\ Recording(t)'
    BY <1>1, <1>3, <1>4, <2>1 DEF Stage, Recording, OutTypes
  <2> QED
    BY <1>1, <2>2, <2>3, QuietStepKeeps
<1>5. CASE done'[t] # Len(input[t])
  <2>1. /\ isOpen' = [isOpen EXCEPT ![t] = TRUE]
        /\ at' = [at EXCEPT ![t] = IF input[t][done'[t] + 1].kind = "barrier" THEN "barrier" ELSE "handle"]
    BY <1>5 DEF OutStep
  <2>2. OutTypes' /\ StepOf(t)
    BY <1>1, <1>3, <2>1 DEF OutTypes, StepOf
  <2>3. Packet(t)' = input[t][done'[t] + 1] /\ isOpen'[t]
        /\ at'[t] = IF Packet(t)'.kind = "barrier" THEN "barrier" ELSE "handle"
    BY <1>1, <2>1 DEF Packet, OutTypes
  <2>4. Stage(t)'
    BY <1>1, <1>3, <1>5, <2>3 DEF Stage
  <2>5. Recording(t)'
    BY <1>1, <1>3, <2>3 DEF Recording
  <2> QED
    BY <1>1, <2>2, <2>4, <2>5, QuietStepKeeps
<1> QED
  BY <1>4, <1>5

LEMMA KeepsOutEnterBarrier ==
  ASSUME OutInv, NEW t \in Streams, OutEnterBarrier(t)
  PROVE  OutInv'
<1>1. /\ OutTypes /\ Stage(t) /\ Recording(t) /\ at[t] = "enter" /\ isOpen[t] /\ rewriting
      /\ UNCHANGED <<input, captured, rewriting, output, lastTouch, mapping, aborted>>
  BY DEF OutInv, OutEnterBarrier, inputvars, NotStarted, Stage
<1>2. /\ done' = [done EXCEPT ![t] = @ + 1] /\ isOpen' = [isOpen EXCEPT ![t] = FALSE]
      /\ at' = [at EXCEPT ![t] = "waiting"]
  BY <1>1 DEF OutEnterBarrier, Publish
<1>3. OutTypes' /\ StepOf(t)
  BY <1>1, <1>2 DEF OutTypes, StepOf
<1>4. done'[t] = done[t] + 1 /\ ~isOpen'[t] /\ at'[t] = "waiting" /\ done[t] \in Nat /\ Len(input[t]) \in Nat
  BY <1>1, <1>2 DEF OutTypes
<1>5. Barrier(t)' = Packet(t)
  BY <1>1, <1>4 DEF Barrier, Packet
<1>6. Stage(t)'
  BY <1>1, <1>4, <1>5 DEF Stage
<1>7. Recording(t)'
  BY <1>1, <1>4 DEF Recording
<1> QED
  BY <1>1, <1>3, <1>6, <1>7, QuietStepKeeps

LEMMA KeepsReadHandle ==
  ASSUME OutInv, NEW t \in Streams, ReadHandle(t)
  PROVE  OutInv'
<1>1. /\ OutTypes /\ Stage(t) /\ Recording(t) /\ at[t] = "handle" /\ isOpen[t] /\ rewriting
      /\ UNCHANGED <<input, captured, rewriting, done, isOpen, output, lastTouch, mapping, aborted>>
      /\ at' = [at EXCEPT ![t] = "write"] /\ Ready(t, Packet(t).need)
  BY DEF OutInv, ReadHandle, inputvars, NotStarted, Stage, Ready
<1>2. OutTypes' /\ StepOf(t) /\ at'[t] = "write"
  BY <1>1 DEF OutTypes, StepOf
<1>3. Stage(t)' /\ Recording(t)'
  BY <1>1, <1>2 DEF Stage, Recording, Packet, Barrier, Ready
<1> QED
  BY <1>1, <1>2, <1>3, QuietStepKeeps

-----------------------------------------------------------------------------
(***************************************************************************)
(* Barriers.                                                               *)
(***************************************************************************)
LEMMA KeepsRecordBarrier ==
  ASSUME OutInv, NEW t \in Streams, RecordBarrier(t)
  PROVE  OutInv'
<1>1. /\ OutTypes /\ Stage(t) /\ Recording(t) /\ at[t] = "barrier" /\ isOpen[t] /\ rewriting /\ ~aborted
      /\ UNCHANGED <<input, captured, rewriting, done, isOpen, output, lastTouch, aborted>>
      /\ at' = [at EXCEPT ![t] = "enter"] /\ mapping' = record(t, done[t] + 1, Len(output[t]) + 1)
      /\ done[t] < Len(input[t]) /\ Packet(t).kind = "barrier"
  BY DEF OutInv, RecordBarrier, inputvars, NotStarted, Stage
<1>2. done[t] \in Nat /\ Len(output[t]) \in Nat /\ Len(mapping[t]) = done[t] + 1 /\ mapping[t] \in Seq(Nat)
  BY <1>1 DEF OutTypes, Recording
<1>3. /\ mapping' \in [Streams -> Seq(Nat)] /\ Longer
      /\ \A i \in Streams \ {t} : mapping'[i] = mapping[i]
      /\ Len(mapping'[t]) = done[t] + 2 /\ mapping'[t][done[t] + 2] = Len(output[t]) + 1
  BY <1>1, <1>2, RecordGrows, SMTT(30)
<1>4. OutTypes' /\ StepOf(t) /\ at'[t] = "enter"
  BY <1>1, <1>2, <1>3 DEF OutTypes, StepOf
<1>5. Stage(t)'
  BY <1>1, <1>4 DEF Stage, Packet
<1>6. Recording(t)'
  BY <1>1, <1>2, <1>3, <1>4 DEF Recording
<1>7. NewPacketsKept(t)
  BY <1>1 DEF NewPacketsKept
<1>8. ASSUME NEW o \in Things PROVE Chained(o)'
  <2>1. ASSUME NEW u \in Streams, NEW n \in Nat, n + 1 \in 1 .. Len(input[u]), CanTranslate(u, n + 1)',
               TouchesThing(input[u][n + 1], o)
        PROVE  CanTranslate(u, n + 1)
    <3>1. CASE u # t
      BY <1>3, <2>1, <3>1 DEF CanTranslate
    <3>2. CASE u = t
      <4>1. n # done[t]
        BY <1>1, <2>1, <3>2 DEF TouchesThing, Packet
      <4>2. n + 2 \in 1 .. (done[t] + 2)
        BY <1>3, <1>4, <2>1, <3>2 DEF CanTranslate, OutTypes
      <4> QED
        BY <1>2, <3>2, <4>1, <4>2 DEF CanTranslate
    <3> QED
      BY <3>1, <3>2
  <2>2. Chained(o)
    BY DEF OutInv
  <2> QED
    BY <1>1, <1>3, <1>4, <2>1, <2>2, ChainKept
<1> QED
  BY <1>1, <1>3, <1>4, <1>5, <1>6, <1>7, <1>8, StepKeeps

LEMMA KeepsWriteBarrier ==
  ASSUME OutInv, NEW t \in Streams, WriteBarrier(t)
  PROVE  OutInv'
<1> DEFINE new == [from |-> done[t] - 1, kind |-> "barrier", need |-> Nobody, after |-> OutputIndices(t)]
<1>1. /\ OutTypes /\ Stage(t) /\ Recording(t) /\ at[t] = "waiting" /\ ~isOpen[t] /\ rewriting /\ InputOK
      /\ UNCHANGED <<input, captured, rewriting, done, isOpen, lastTouch>>
      /\ at' = [at EXCEPT ![t] = "step"] /\ mapping' = record(t, done[t], Len(output[t]) + 1)
      /\ output' = [output EXCEPT ![t] = Append(@, new)]
      /\ done[t] <= Len(input[t]) /\ done[t] > 0 /\ Barrier(t).kind = "barrier"
  BY DEF OutInv, WriteBarrier, inputvars, NotStarted, Stage
<1>2. /\ done[t] \in Nat /\ Len(output[t]) \in Nat /\ Len(mapping[t]) = done[t] + 1 /\ mapping[t] \in Seq(Nat)
      /\ mapping[t][done[t] + 1] = Len(output[t]) + 1 /\ input[t] \in Seq(InputPackets)
  BY <1>1 DEF OutTypes, Recording
<1>3. mapping' = mapping
  BY <1>1, <1>2 DEF record, OutTypes
<1>4. \A i \in Streams : CanTranslate(i, Barrier(t).after[i]) /\ translate(i, Barrier(t).after[i]) \in Int
  <2>1. Barrier(t).after \in [Streams -> Nat] /\ Barrier(t).after[t] = done[t] - 1
    BY <1>1, <1>2, SMTT(30) DEF InputOK, InputPacket, Barrier
  <2>2. ASSUME NEW i \in Streams PROVE Barrier(t).after[i] \in Nat /\ Barrier(t).after[i] <= done[i]
    <3>1. CASE i = t
      BY <1>2, <2>1, <3>1
    <3>2. CASE i # t
      BY <2>1, <3>2 DEF WriteBarrier
    <3> QED
      BY <3>1, <3>2
  <2>3. ASSUME NEW i \in Streams
        PROVE  CanTranslate(i, Barrier(t).after[i]) /\ translate(i, Barrier(t).after[i]) \in Int
    <3>1. mapping[i] \in Seq(Nat) /\ Len(mapping[i]) >= done[i] + 1 /\ done[i] \in Nat
      BY <1>1, SMTT(30) DEF OutInv, OutTypes, Recording
    <3>2. Barrier(t).after[i] + 1 \in 1 .. Len(mapping[i])
      BY <2>2, <3>1
    <3>3. mapping[i][Barrier(t).after[i] + 1] \in Nat
      BY <3>1, <3>2
    <3> QED
      BY <3>1, <3>2, <3>3 DEF CanTranslate, translate
  <2> QED
    BY <2>3
<1>5. ~aborted'
  <2>1. CanRecord(t, done[t], Len(output[t]) + 1)
    BY <1>2 DEF CanRecord
  <2> QED
    BY <1>4, <2>1 DEF WriteBarrier
<1>6. /\ new \in OutputPackets /\ new.from = done[t] - 1 /\ new.kind = "barrier"
      /\ \A i \in Streams : new.after[i] = translate(i, Barrier(t).after[i])
  <2>1. OutputIndices(t) \in {<<>>} \cup [Streams -> Int]
    BY <1>4 DEF OutputIndices
  <2>2. Nobody \in [thread : Int, packet : Int] /\ done[t] - 1 \in Int /\ "barrier" \in InputKinds
    BY <1>2, PlaceFields DEF InputKinds
  <2>3. new \in OutputPackets /\ new.from = done[t] - 1 /\ new.kind = "barrier" /\ new.after = OutputIndices(t)
    BY <2>1, <2>2, OutputPacketType
  <2> QED
    BY <2>3 DEF OutputIndices
<1> HIDE DEF new
<1>7. /\ output' \in [Streams -> Seq(OutputPackets)] /\ output[t] \in Seq(OutputPackets)
      /\ \A i \in Streams \ {t} : output'[i] = output[i]
      /\ output'[t] = Append(output[t], new)
  BY <1>1, <1>6 DEF OutTypes
<1>8. /\ Len(output'[t]) = Len(output[t]) + 1 /\ output'[t][Len(output[t]) + 1] = new
      /\ \A k \in 1 .. Len(output[t]) : output'[t][k] = output[t][k]
  BY <1>7
<1>9. OutTypes' /\ StepOf(t) /\ at'[t] = "step" /\ ~isOpen'[t]
  BY <1>1, <1>3, <1>7 DEF OutTypes, StepOf
<1>10. Stage(t)' /\ Recording(t)'
  <2>1. done'[t] = done[t] /\ input' = input
    BY <1>1
  <2>2. Stage(t)'
    BY <1>1, <1>9, <2>1 DEF Stage
  <2>3. Recording(t)'
    BY <1>2, <1>3, <1>8, <1>9, <2>1 DEF Recording
  <2> QED
    BY <2>2, <2>3
<1>11. Longer
  <2>1. \A i \in Streams : Len(mapping[i]) \in Nat
    BY <1>1 DEF OutTypes
  <2> QED
    BY <1>3, <2>1 DEF Longer
<1>12. DependencyKept(new, t) /\ BarrierKept(new, t)
  <2>1. new.from + 1 = done[t]
    BY <1>2, <1>6
  <2>2. input[t][new.from + 1] = Barrier(t) /\ new.from >= 0 /\ new.from < Len(input[t])
    BY <1>1, <1>2, <1>6, <2>1 DEF Barrier
  <2>3. DependencyKept(new, t)
    BY <1>6 DEF DependencyKept
  <2> QED
    BY <1>4, <1>6, <2>2, <2>3 DEF BarrierKept
<1>13. NewPacketsKept(t)
  BY <1>2, <1>8, <1>12 DEF NewPacketsKept
<1>14. ASSUME NEW o \in Things PROVE Chained(o)'
  <2>1. \A u \in Streams : \A n \in Nat : CanTranslate(u, n + 1)' => CanTranslate(u, n + 1)
    BY <1>3 DEF CanTranslate
  <2>2. Chained(o)
    BY DEF OutInv
  <2> QED
    BY <1>1, <1>9, <1>11, <2>1, <2>2, ChainKept
<1> QED
  BY <1>1, <1>5, <1>9, <1>10, <1>11, <1>13, <1>14, StepKeeps

-----------------------------------------------------------------------------
(***************************************************************************)
(* Packets other than barriers.                                            *)
(***************************************************************************)

\* A thread that is writing has recorded the place of all packets before its own.
LEMMA AtWrite ==
  ASSUME OutInv, NEW t \in Streams, at[t] = "write"
  PROVE  /\ rewriting /\ isOpen[t] /\ done[t] \in Nat /\ done[t] < Len(input[t])
         /\ Packet(t) \in InputPackets /\ Packet(t).kind # "barrier" /\ Packet(t).object \in Things
         /\ Packet(t).need \in Place \cup {Nobody} /\ Ready(t, Packet(t).need)
         /\ Packet(t).need.thread = t => Packet(t).need.packet < done[t]
         /\ mapping[t] \in Seq(Nat) /\ Len(mapping[t]) = done[t] + 1
         /\ output[t] \in Seq(OutputPackets)
<1>1. OutTypes /\ InputOK /\ Stage(t) /\ Recording(t) /\ rewriting
  BY DEF OutInv, NotStarted
<1>2. isOpen[t] /\ done[t] < Len(input[t]) /\ Packet(t).kind # "barrier" /\ Ready(t, Packet(t).need)
  BY <1>1 DEF Stage
<1>3. done[t] \in Nat /\ mapping[t] \in Seq(Nat) /\ output[t] \in Seq(OutputPackets) /\ Len(input[t]) \in Nat
  BY <1>1 DEF OutTypes
<1>4. Packet(t) \in InputPackets /\ Packet(t).need \in Place \cup {Nobody}
  BY <1>1, <1>2, InputPacketType
<1>5. InputPacket(Packet(t), t, done[t] + 1)
  BY <1>1, <1>2, <1>3, SMTT(30) DEF InputOK, Packet
<1>6. (done[t] + 1) - 1 = done[t]
  BY <1>3
<1>7. Packet(t).object \in Things /\ (Packet(t).need.thread = t => Packet(t).need.packet < done[t])
  BY <1>2, <1>5, <1>6 DEF InputPacket
<1>8. Len(mapping[t]) = done[t] + 1
  BY <1>1 DEF Recording
<1> QED
  BY <1>1, <1>2, <1>3, <1>4, <1>7, <1>8

LEMMA DoneFacts ==
  ASSUME OutInv, NEW t \in Streams, at[t] = "write", NEW added \in Seq(OutputPackets),
         Done(t, added, TRUE)
  PROVE  /\ ~aborted' /\ Longer /\ StepOf(t)
         /\ mapping' \in [Streams -> Seq(Nat)] /\ output' \in [Streams -> Seq(OutputPackets)]
         /\ Len(mapping'[t]) = done[t] + 2
         /\ mapping'[t][done[t] + 2] = Len(output[t]) + Len(added)
         /\ Len(output'[t]) = Len(output[t]) + Len(added)
         /\ \A k \in 1 .. Len(output[t]) : output'[t][k] = output[t][k]
         /\ \A k \in 1 .. Len(added) : output'[t][Len(output[t]) + k] = added[k]
         /\ at' = [at EXCEPT ![t] = "step"] /\ at'[t] = "step"
         /\ UNCHANGED <<input, captured, rewriting, done, isOpen>>
<1>1. OutTypes /\ done[t] \in Nat /\ Len(mapping[t]) = done[t] + 1 /\ output[t] \in Seq(OutputPackets)
  BY AtWrite DEF OutInv
<1>2. /\ output' = [output EXCEPT ![t] = @ \o added]
      /\ mapping' = record(t, done[t] + 1, Len(output'[t]))
      /\ aborted' = ~CanRecord(t, done[t] + 1, Len(output'[t]))
      /\ at' = [at EXCEPT ![t] = "step"]
      /\ UNCHANGED <<input, captured, rewriting, done, isOpen>>
  BY DEF Done, inputvars
<1>3. /\ output[t] \o added \in Seq(OutputPackets)
      /\ Len(output[t] \o added) = Len(output[t]) + Len(added)
      /\ \A k \in 1 .. Len(output[t]) : (output[t] \o added)[k] = output[t][k]
      /\ \A k \in 1 .. Len(added) : (output[t] \o added)[Len(output[t]) + k] = added[k]
  BY <1>1
<1>4. /\ output'[t] = output[t] \o added /\ output' \in [Streams -> Seq(OutputPackets)]
      /\ \A i \in Streams \ {t} : output'[i] = output[i]
  BY <1>1, <1>2, <1>3 DEF OutTypes
<1>5. Len(output'[t]) \in Nat /\ Len(output'[t]) = Len(output[t]) + Len(added)
  BY <1>1, <1>3, <1>4
<1>6. /\ mapping' \in [Streams -> Seq(Nat)] /\ Longer
      /\ \A i \in Streams \ {t} : mapping'[i] = mapping[i]
      /\ Len(mapping'[t]) = done[t] + 2 /\ mapping'[t][done[t] + 2] = Len(output'[t])
  <2>1. done[t] + 1 \in Nat /\ (done[t] + 1) + 1 = done[t] + 2
    BY <1>1
  <2> QED
    BY <1>1, <1>2, <1>5, <2>1, RecordGrows, SMTT(30)
<1>7. ~aborted'
  BY <1>1, <1>2 DEF CanRecord
<1>8. StepOf(t) /\ at'[t] = "step"
  BY <1>1, <1>2, <1>4, <1>6 DEF StepOf, OutTypes
<1> QED
  BY <1>2, <1>3, <1>4, <1>5, <1>6, <1>7, <1>8

\* What is left to show when packets are written: they and the chains are right.
LEMMA DoneKeeps ==
  ASSUME OutInv, NEW t \in Streams, at[t] = "write", NEW added \in Seq(OutputPackets),
         Done(t, added, TRUE), lastTouch' \in [Things -> Place \cup {Nobody}],
         \A k \in 1 .. Len(added) : DependencyKept(added[k], t) /\ BarrierKept(added[k], t),
         \A o \in Things : Chained(o)'
  PROVE  OutInv'
<1>1. /\ OutTypes /\ rewriting /\ isOpen[t] /\ done[t] \in Nat /\ done[t] < Len(input[t])
      /\ Len(output[t]) \in Nat /\ Len(added) \in Nat /\ Stage(t)
  BY AtWrite DEF OutInv
<1>2. /\ ~aborted' /\ Longer /\ StepOf(t)
      /\ mapping' \in [Streams -> Seq(Nat)] /\ output' \in [Streams -> Seq(OutputPackets)]
      /\ Len(mapping'[t]) = done[t] + 2
      /\ mapping'[t][done[t] + 2] = Len(output[t]) + Len(added)
      /\ Len(output'[t]) = Len(output[t]) + Len(added)
      /\ \A k \in 1 .. Len(output[t]) : output'[t][k] = output[t][k]
      /\ \A k \in 1 .. Len(added) : output'[t][Len(output[t]) + k] = added[k]
      /\ at' = [at EXCEPT ![t] = "step"] /\ at'[t] = "step"
      /\ UNCHANGED <<input, captured, rewriting, done, isOpen>>
  BY DoneFacts
<1>3. OutTypes'
  BY <1>1, <1>2 DEF OutTypes
<1>4. Stage(t)'
  <2>1. done' = done /\ input' = input /\ Len(input[t]) \in Nat
    BY <1>1, <1>2 DEF OutTypes
  <2> QED
    BY <1>1, <1>2, <2>1 DEF Stage
<1>5. Recording(t)'
  <2>1. done'[t] = done[t] /\ isOpen'[t] /\ Len(output'[t]) + 0 = Len(output'[t])
    BY <1>1, <1>2
  <2> QED
    BY <1>2, <2>1 DEF Recording
<1>6. NewPacketsKept(t)
  <2> SUFFICES ASSUME NEW k \in 1 .. Len(output'[t]), k \notin 1 .. Len(output[t])
               PROVE  DependencyKept(output'[t][k], t) /\ BarrierKept(output'[t][k], t)
    BY <1>2 DEF NewPacketsKept
  <2>1. PICK j \in 1 .. Len(added) : k = Len(output[t]) + j
    <3>1. k - Len(output[t]) \in 1 .. Len(added) /\ k = Len(output[t]) + (k - Len(output[t]))
      BY <1>1, <1>2
    <3> QED
      BY <3>1
  <2>2. output'[t][k] = added[j]
    BY <1>2, <2>1
  <2> QED
    BY <2>2
<1> QED
  BY <1>1, <1>2, <1>3, <1>4, <1>5, <1>6, StepKeeps

\* Only the packet that is written is new in the mapping.
LEMMA DoneRecords ==
  ASSUME OutInv, NEW t \in Streams, at[t] = "write", NEW added \in Seq(OutputPackets),
         Done(t, added, TRUE), NEW u \in Streams, NEW n \in Nat
  PROVE  CanTranslate(u, n + 1)' <=> CanTranslate(u, n + 1) \/ (u = t /\ n = done[t])
<1>1. /\ done[t] \in Nat /\ mapping[t] \in Seq(Nat) /\ Len(mapping[t]) = done[t] + 1
      /\ mapping'[t] \in Seq(Nat) /\ Len(mapping'[t]) = done[t] + 2
      /\ \A i \in Streams \ {t} : mapping'[i] = mapping[i]
  BY AtWrite, DoneFacts DEF StepOf
<1>2. CASE u = t
  <2>1. DOMAIN mapping[t] = 1 .. (done[t] + 1) /\ DOMAIN mapping'[t] = 1 .. (done[t] + 2)
    BY <1>1
  <2>2. (n + 1) + 1 \in 1 .. (done[t] + 2) <=> ((n + 1) + 1 \in 1 .. (done[t] + 1) \/ n = done[t])
    BY <1>1, SMTT(30)
  <2> QED
    BY <1>2, <2>1, <2>2 DEF CanTranslate
<1>3. CASE u # t
  BY <1>1, <1>3 DEF CanTranslate
<1> QED
  BY <1>2, <1>3

\* The chain of an object that the packet does not touch.
LEMMA DoneChainKept ==
  ASSUME OutInv, NEW t \in Streams, at[t] = "write", NEW added \in Seq(OutputPackets),
         Done(t, added, TRUE), lastTouch' \in [Things -> Place \cup {Nobody}],
         NEW o \in Things, lastTouch'[o] = lastTouch[o], ~TouchesThing(Packet(t), o)
  PROVE  Chained(o)'
<1>1. Chained(o) /\ OutTypes
  BY DEF OutInv
<1>2. /\ Longer /\ input' = input /\ captured' = captured
      /\ mapping' \in [Streams -> Seq(Nat)] /\ output' \in [Streams -> Seq(OutputPackets)]
      /\ at' = [at EXCEPT ![t] = "step"]
      /\ UNCHANGED <<input, captured, rewriting, done, isOpen>>
  BY DoneFacts
<1>3. OutTypes'
  BY <1>1, <1>2 DEF OutTypes
<1>4. ASSUME NEW u \in Streams, NEW n \in Nat, CanTranslate(u, n + 1)', TouchesThing(input[u][n + 1], o)
      PROVE  CanTranslate(u, n + 1)
  <2>1. ~(u = t /\ n = done[t])
    BY <1>4 DEF Packet
  <2> QED
    BY <1>4, <2>1, DoneRecords
<1> QED
  BY <1>1, <1>2, <1>3, <1>4, ChainKept


\* What another thread has published is in the mapping.
LEMMA PublishedIsRecorded ==
  ASSUME OutInv, NEW i \in Streams, NEW n \in Nat, n < done[i]
  PROVE  CanTranslate(i, n + 1) /\ translate(i, n + 1) \in Nat
<1>1. mapping[i] \in Seq(Nat) /\ Len(mapping[i]) >= done[i] + 1 /\ done[i] \in Nat
  BY DEF OutInv, OutTypes, Recording
<1>2. (n + 1) + 1 \in 1 .. Len(mapping[i])
  BY <1>1
<1>3. mapping[i][(n + 1) + 1] \in Nat
  BY <1>1, <1>2
<1> QED
  BY <1>1, <1>2, <1>3 DEF CanTranslate, translate

LEMMA KeepsUpdate ==
  ASSUME OutInv, NEW t \in Streams, write_output_update_packet(t)
  PROVE  OutInv'
<1> DEFINE n == Packet(t).need
           new == [from |-> done[t], kind |-> "update", need |-> write_output_handle(t, n), after |-> <<>>]
<1>1. /\ at[t] = "write" /\ Packet(t).kind = "update" /\ lastTouch' = lastTouch
      /\ Done(t, <<new>>, n.thread \in Streams \ {t} => CanTranslate(n.thread, n.packet + 1))
  BY DEF write_output_update_packet
<1>2. /\ n \in Place \cup {Nobody} /\ Ready(t, n) /\ done[t] \in Nat /\ done[t] < Len(input[t]) /\ OutTypes
      /\ n.thread \in Int /\ n.packet \in Nat /\ n \in [thread : Int, packet : Int]
  BY <1>1, AtWrite, PlaceFields DEF OutInv
<1>3. n.thread \in Streams \ {t} => /\ CanTranslate(n.thread, n.packet + 1)
                                    /\ translate(n.thread, n.packet + 1) \in Nat
  BY <1>2, PublishedIsRecorded DEF Ready
<1>4. n.thread \in Streams \cup {-1}
  BY <1>2 DEF Place, Nobody
<1>5. /\ write_output_handle(t, n) \in [thread : Int, packet : Int]
      /\ write_output_handle(t, n).thread = n.thread
      /\ n.thread \in Streams \ {t} => write_output_handle(t, n).packet + 1 = translate(n.thread, n.packet + 1)
  <2>1. CASE n.thread \in {-1, t}
    <3>1. write_output_handle(t, n) = n
      BY <2>1 DEF write_output_handle
    <3>2. n.thread \notin Streams \ {t}
      BY <2>1, StreamsAssumption
    <3> QED
      BY <1>2, <3>1, <3>2
  <2>2. CASE n.thread \notin {-1, t}
    <3>1. n.thread \in Streams \ {t}
      BY <1>4, <2>2
    <3>2. PICK v \in Nat : v = translate(n.thread, n.packet + 1)
      BY <1>3, <3>1
    <3>3. write_output_handle(t, n) = [n EXCEPT !.packet = v - 1]
      BY <2>2, <3>2 DEF write_output_handle
    <3>4. PICK r : r = n
      OBVIOUS
    <3>5. r \in [thread : Int, packet : Int]
      BY <1>2, <3>4
    <3>6. [r EXCEPT !.packet = v - 1] \in [thread : Int, packet : Int] /\ [r EXCEPT !.packet = v - 1].thread = r.thread
          /\ [r EXCEPT !.packet = v - 1].packet = v - 1 /\ (v - 1) + 1 = v
      BY <3>5
    <3> QED
      BY <3>2, <3>3, <3>4, <3>6
  <2> QED
    BY <2>1, <2>2
<1>6. /\ new \in OutputPackets /\ new.from = done[t] /\ new.kind = "update"
      /\ new.need = write_output_handle(t, n)
  <2>1. done[t] \in Int /\ "update" \in InputKinds /\ <<>> \in {<<>>} \cup [Streams -> Int]
    BY <1>2 DEF InputKinds
  <2> QED
    BY <1>5, <2>1, OutputPacketType
<1> HIDE DEF new
<1>7. DependencyKept(new, t) /\ BarrierKept(new, t)
  <2>1. input[t][new.from + 1].need = n
    BY <1>6 DEF Packet
  <2>2. DependencyKept(new, t)
    BY <1>2, <1>3, <1>5, <1>6, <2>1 DEF DependencyKept
  <2> QED
    BY <1>6, <2>2 DEF BarrierKept
<1>8. Done(t, <<new>>, TRUE)
  BY <1>1, <1>3 DEF Done
<1>9. <<new>> \in Seq(OutputPackets) /\ \A k \in 1 .. Len(<<new>>) : <<new>>[k] = new
  BY <1>6
<1>10. lastTouch' \in [Things -> Place \cup {Nobody}]
  BY <1>1, <1>2 DEF OutTypes
<1>11. ASSUME NEW o \in Things PROVE Chained(o)'
  <2>1. ~TouchesThing(Packet(t), o) /\ lastTouch'[o] = lastTouch[o]
    BY <1>1 DEF TouchesThing
  <2> QED
    BY <1>1, <1>8, <1>9, <1>10, <2>1, DoneChainKept
<1> QED
  BY <1>1, <1>7, <1>8, <1>9, <1>10, <1>11, DoneKeeps

(***************************************************************************)
(* Commands: it is their turn in the chain of their object.                *)
(***************************************************************************)
LEMMA TurnInChain ==
  ASSUME OutInv, NEW t \in Streams, at[t] = "write", Packet(t).kind # "update",
         NEW o \in Things, o = Packet(t).object, NEW s \in Seq(Place), IsChain(s, o),
         NEW m \in 0 .. Len(s), WrittenTo(s, o, m)
  PROVE  /\ m + 1 \in 1 .. Len(s) /\ s[m + 1] = [thread |-> t, packet |-> done[t]]
         /\ Packet(t).need = IF m = 0 THEN Nobody ELSE s[m]
<1>1. /\ done[t] \in Nat /\ done[t] < Len(input[t]) /\ Packet(t).kind # "barrier" /\ Ready(t, Packet(t).need)
      /\ Packet(t).need.thread = t => Packet(t).need.packet < done[t]
      /\ mapping[t] \in Seq(Nat) /\ Len(mapping[t]) = done[t] + 1
      /\ Len(input[t]) \in Nat
  BY AtWrite DEF OutInv, OutTypes
<1>2. TouchesThing(input[t][done[t] + 1], o) /\ done[t] + 1 \in 1 .. Len(input[t]) /\ (done[t] + 1) - 1 = done[t]
  <2>1. TouchesThing(Packet(t), o)
    BY <1>1, Zenon DEF TouchesThing
  <2>2. done[t] + 1 \in 1 .. Len(input[t]) /\ (done[t] + 1) - 1 = done[t]
    BY <1>1
  <2> QED
    BY <2>1, <2>2 DEF Packet
<1>3. PICK i \in 1 .. Len(s) : s[i] = [thread |-> t, packet |-> done[t]]
  BY <1>2 DEF IsChain
<1>4. s[i].thread = t /\ s[i].packet = done[t]
  BY <1>3
<1>5. Packet(t).need = IF i = 1 THEN Nobody ELSE s[i - 1]
  <2>1. input[s[i].thread][s[i].packet + 1].need = IF i = 1 THEN Nobody ELSE s[i - 1]
    BY DEF IsChain
  <2> QED
    BY <1>4, <2>1 DEF Packet
<1>6. ~CanTranslate(t, done[t] + 1)
  BY <1>1 DEF CanTranslate
<1>7. ~(i <= m)
  BY <1>4, <1>6 DEF WrittenTo
<1>8. i = m + 1
  <2> SUFFICES ASSUME i # m + 1 PROVE FALSE
    OBVIOUS
  <2>1. i - 1 \in 1 .. Len(s) /\ ~(i - 1 <= m) /\ i # 1
    BY <1>7
  <2>2. s[i - 1] \in Place /\ Packet(t).need = s[i - 1]
    BY <1>5, <2>1
  <2>3. PICK r \in Place : r = s[i - 1]
    BY <2>2
  <2>4. r.thread \in Streams /\ r.packet \in Nat
    BY DEF Place
  <2>5. r.packet < done[r.thread]
    BY <1>1, <2>2, <2>3, <2>4 DEF Ready
  <2>6. CanTranslate(r.thread, r.packet + 1)
    BY <2>4, <2>5, PublishedIsRecorded
  <2> QED
    BY <2>1, <2>3, <2>6 DEF WrittenTo
<1>9. m \in Nat /\ (m = 0 <=> i = 1) /\ i - 1 = m
  BY <1>8
<1> QED
  BY <1>3, <1>5, <1>8, <1>9

LEMMA ApiPacketKept ==
  ASSUME OutInv, NEW t \in Streams, at[t] = "write", Packet(t).kind # "update"
  PROVE  /\ ApiPacket(t) \in OutputPackets
         /\ DependencyKept(ApiPacket(t), t) /\ BarrierKept(ApiPacket(t), t)
<1> DEFINE o == Packet(t).object
<1>1. /\ o \in Things /\ done[t] \in Nat /\ done[t] < Len(input[t]) /\ Packet(t) \in InputPackets
      /\ Packet(t).kind # "barrier" /\ lastTouch[o] \in Place \cup {Nobody} /\ Chained(o)
      /\ Packet(t).need \in Place \cup {Nobody}
  BY AtWrite DEF OutInv, OutTypes
<1>2. lastTouch[o] \in [thread : Int, packet : Int]
  BY <1>1, PlaceFields
<1>3. done[t] \in Int /\ Packet(t).kind \in InputKinds /\ <<>> \in {<<>>} \cup [Streams -> Int]
  BY <1>1 DEF InputPackets
<1>4. /\ ApiPacket(t) \in OutputPackets /\ ApiPacket(t).from = done[t]
      /\ ApiPacket(t).kind = Packet(t).kind /\ ApiPacket(t).need = lastTouch[o]
  BY <1>2, <1>3, OutputPacketType DEF ApiPacket
<1>5. PICK s \in Seq(Place) : IsChain(s, o) /\ \E m \in 0 .. Len(s) : WrittenTo(s, o, m)
  BY <1>1 DEF Chained
<1>6. PICK m \in 0 .. Len(s) : WrittenTo(s, o, m)
  BY <1>5
<1>7. m + 1 \in 1 .. Len(s) /\ Packet(t).need = IF m = 0 THEN Nobody ELSE s[m]
  BY <1>1, <1>5, <1>6, TurnInChain, ZenonT(60)
<1>8. /\ lastTouch[o].thread = Packet(t).need.thread
      /\ Packet(t).need.thread \in Streams \ {t} =>
           /\ CanTranslate(Packet(t).need.thread, Packet(t).need.packet + 1)
           /\ lastTouch[o].packet + 1 = translate(Packet(t).need.thread, Packet(t).need.packet + 1)
  <2>1. CASE m = 0
    <3>1. lastTouch[o] = Nobody /\ Packet(t).need = Nobody
      BY <1>6, <1>7, <2>1 DEF WrittenTo
    <3>2. Nobody.thread \notin Streams
      BY StreamsAssumption DEF Nobody
    <3> QED
      BY <3>1, <3>2
  <2>2. CASE m # 0
    <3>1. m \in 1 .. Len(s) /\ m <= m /\ m > 0
      BY <2>2
    <3>2. CanTranslate(s[m].thread, s[m].packet + 1) /\ Image(s[m], lastTouch[o])
      BY <1>6, <3>1 DEF WrittenTo
    <3> QED
      BY <1>7, <2>2, <3>2 DEF Image
  <2> QED
    BY <2>1, <2>2
<1>9. input[t][ApiPacket(t).from + 1].need = Packet(t).need
  BY <1>4 DEF Packet
<1>10. DependencyKept(ApiPacket(t), t)
  BY <1>1, <1>4, <1>8, <1>9 DEF DependencyKept
<1> QED
  BY <1>1, <1>4, <1>10 DEF BarrierKept


\* Writing the command moves the object's chain on by one.
LEMMA ChainGrows ==
  ASSUME OutInv, NEW t \in Streams, at[t] = "write", Packet(t).kind # "update",
         NEW added \in Seq(OutputPackets), Done(t, added, TRUE), Len(added) > 0,
         NEW o \in Things, o = Packet(t).object,
         lastTouch' = Touched(t, Len(output[t]) + Len(added) - 1)
  PROVE  Chained(o)'
<1>1. /\ OutTypes /\ Chained(o) /\ done[t] \in Nat /\ mapping[t] \in Seq(Nat)
      /\ Len(output[t]) \in Nat /\ Len(added) \in Nat
  BY AtWrite DEF OutInv
<1>2. /\ Longer /\ mapping' \in [Streams -> Seq(Nat)] /\ output' \in [Streams -> Seq(OutputPackets)]
      /\ Len(mapping'[t]) = done[t] + 2
      /\ mapping'[t][done[t] + 2] = Len(output[t]) + Len(added)
      /\ at' = [at EXCEPT ![t] = "step"]
      /\ UNCHANGED <<input, captured, rewriting, done, isOpen>>
  BY DoneFacts
<1>3. PICK place \in Nat : place = Len(output[t]) + Len(added) - 1 /\ place + 1 = Len(output[t]) + Len(added)
  <2>1. \A a, b \in Nat : b > 0 => a + b - 1 \in Nat /\ (a + b - 1) + 1 = a + b
    OBVIOUS
  <2> QED
    BY <1>1, <2>1
<1>4. PICK touch \in Place : touch = [thread |-> t, packet |-> place]
  BY <1>3 DEF Place
<1>5. lastTouch' = [lastTouch EXCEPT ![o] = touch] /\ touch.thread = t /\ touch.packet = place
  <2>1. lastTouch' = Touched(t, place)
    BY <1>3
  <2>2. lastTouch' = [lastTouch EXCEPT ![o] = touch]
    BY <1>4, <2>1, Zenon DEF Touched
  <2> QED
    BY <1>4, <2>2
<1>6. lastTouch'[o] = touch /\ lastTouch' \in [Things -> Place \cup {Nobody}]
  BY <1>1, <1>4, <1>5 DEF OutTypes
<1>7. OutTypes'
  BY <1>1, <1>2, <1>6 DEF OutTypes
<1>8. PICK s \in Seq(Place) : IsChain(s, o) /\ \E m \in 0 .. Len(s) : WrittenTo(s, o, m)
  BY <1>1 DEF Chained
<1>9. PICK m \in 0 .. Len(s) : WrittenTo(s, o, m)
  BY <1>8
<1>10. m + 1 \in 1 .. Len(s) /\ s[m + 1] = [thread |-> t, packet |-> done[t]]
  BY <1>8, <1>9, TurnInChain
<1>11. s[m + 1].thread = t /\ s[m + 1].packet = done[t]
  BY <1>10
<1>12. IsChain(s, o)'
  BY <1>2, <1>8 DEF IsChain
<1>13. ASSUME NEW i \in 1 .. Len(s)
       PROVE  i <= m + 1 <=> CanTranslate(s[i].thread, s[i].packet + 1)'
  <2>1. s[i] \in Place
    OBVIOUS
  <2>2. s[i].thread \in Streams /\ s[i].packet \in Nat /\ s[i] = [thread |-> s[i].thread, packet |-> s[i].packet]
    BY <2>1 DEF Place
  <2>3. i <= m <=> CanTranslate(s[i].thread, s[i].packet + 1)
    BY <1>9 DEF WrittenTo
  <2>4. CanTranslate(s[i].thread, s[i].packet + 1)'
          <=> (CanTranslate(s[i].thread, s[i].packet + 1) \/ (s[i].thread = t /\ s[i].packet = done[t]))
    BY <2>2, DoneRecords
  <2>5. (s[i].thread = t /\ s[i].packet = done[t]) <=> i = m + 1
    <3>1. ASSUME s[i].thread = t, s[i].packet = done[t] PROVE i = m + 1
      <4>1. s[i] = s[m + 1]
        BY <1>10, <2>2, <3>1
      <4> QED
        BY <1>8, <1>10, <4>1 DEF IsChain
    <3> QED
      BY <1>11, <3>1
  <2> QED
    BY <2>3, <2>4, <2>5
<1>14. Image(s[m + 1], touch)'
  <2>1. translate(s[m + 1].thread, s[m + 1].packet + 1)' = Len(output[t]) + Len(added)
    <3>1. mapping'[t] \in Seq(Nat) /\ (done[t] + 1) + 1 = done[t] + 2 /\ done[t] + 2 \in 1 .. Len(mapping'[t])
      BY <1>1, <1>2, SMTT(30)
    <3> QED
      BY <1>2, <1>11, <3>1 DEF translate, CanTranslate
  <2> QED
    BY <1>3, <1>5, <1>11, <2>1 DEF Image
<1>15. WrittenTo(s, o, m + 1)'
  <2>1. m + 1 # 0
    OBVIOUS
  <2>2. \A i \in 1 .. Len(s) : i <= m + 1 <=> CanTranslate(s[i].thread, s[i].packet + 1)'
    BY <1>13
  <2>3. lastTouch'[o] \in Place /\ Image(s[m + 1], lastTouch[o])'
    BY <1>4, <1>6, <1>14 DEF Image
  <2> QED
    BY <2>1, <2>2, <2>3 DEF WrittenTo
<1>16. m + 1 \in 0 .. Len(s)
  BY <1>10
<1> QED
  BY <1>12, <1>15, <1>16 DEF Chained

\* A command with the packets inserted before it.
LEMMA KeepsCommand ==
  ASSUME OutInv, NEW t \in Streams, at[t] = "write", Packet(t).kind # "update",
         NEW inserted \in Seq(OutputPackets),
         \A k \in 1 .. Len(inserted) : inserted[k].from < 0 /\ inserted[k].kind # "barrier",
         NEW added, added = inserted \o <<ApiPacket(t)>>, Done(t, added, TRUE),
         lastTouch' = Touched(t, Len(output[t]) + Len(inserted))
  PROVE  OutInv'
<1>1. /\ ApiPacket(t) \in OutputPackets
      /\ DependencyKept(ApiPacket(t), t) /\ BarrierKept(ApiPacket(t), t)
  BY ApiPacketKept
<1>2. <<ApiPacket(t)>> \in Seq(OutputPackets) /\ Len(<<ApiPacket(t)>>) = 1 /\ <<ApiPacket(t)>>[1] = ApiPacket(t)
  BY <1>1
<1>3. /\ added \in Seq(OutputPackets) /\ Len(added) = Len(inserted) + 1
      /\ \A k \in 1 .. Len(inserted) : added[k] = inserted[k]
      /\ added[Len(inserted) + 1] = ApiPacket(t)
  BY <1>2
<1>4. Len(inserted) \in Nat /\ Len(output[t]) \in Nat /\ OutTypes /\ Packet(t).object \in Things
  BY AtWrite DEF OutInv
<1>5. \A k \in 1 .. Len(added) : DependencyKept(added[k], t) /\ BarrierKept(added[k], t)
  <2> SUFFICES ASSUME NEW k \in 1 .. Len(added)
               PROVE  DependencyKept(added[k], t) /\ BarrierKept(added[k], t)
    OBVIOUS
  <2>1. CASE k = Len(inserted) + 1
    BY <1>1, <1>3, <2>1
  <2>2. CASE k # Len(inserted) + 1
    <3>1. k \in 1 .. Len(inserted) /\ added[k] = inserted[k]
      BY <1>3, <1>4, <2>2
    <3>2. added[k].from \in Int
      <4>1. added[k] \in OutputPackets
        BY <1>3
      <4> QED
        BY <4>1 DEF OutputPackets
    <3>3. ~(added[k].from >= 0) /\ added[k].kind # "barrier"
      BY <3>1, <3>2
    <3> QED
      BY <3>3 DEF DependencyKept, BarrierKept
  <2> QED
    BY <2>1, <2>2
<1>6. Len(output[t]) + Len(inserted) = Len(output[t]) + Len(added) - 1 /\ Len(added) > 0
  <2>1. \A a, b, c \in Nat : c = b + 1 => a + b = a + c - 1 /\ c > 0
    OBVIOUS
  <2>2. Len(added) \in Nat
    BY <1>3
  <2> QED
    BY <1>3, <1>4, <2>1, <2>2
<1>7. lastTouch' = Touched(t, Len(output[t]) + Len(added) - 1)
  BY <1>6
<1>8. /\ lastTouch' \in [Things -> Place \cup {Nobody}]
      /\ \A o \in Things : o # Packet(t).object => lastTouch'[o] = lastTouch[o]
  <2>1. PICK place \in Nat : place = Len(output[t]) + Len(inserted)
    BY <1>4
  <2>2. [thread |-> t, packet |-> place] \in Place
    BY DEF Place
  <2> QED
    BY <1>4, <2>1, <2>2 DEF Touched, OutTypes
<1>9. ASSUME NEW o \in Things PROVE Chained(o)'
  <2>1. CASE o = Packet(t).object
    BY <1>3, <1>6, <1>7, <2>1, ChainGrows
  <2>2. CASE o # Packet(t).object
    <3>1. ~TouchesThing(Packet(t), o)
      BY <2>2 DEF TouchesThing
    <3> QED
      BY <1>3, <1>8, <2>2, <3>1, DoneChainKept
  <2> QED
    BY <2>1, <2>2
<1> QED
  BY <1>3, <1>5, <1>8, <1>9, DoneKeeps

LEMMA KeepsPlainCommand ==
  ASSUME OutInv, NEW t \in Streams, at[t] = "write", Packet(t).kind # "update",
         Done(t, <<ApiPacket(t)>>, TRUE), lastTouch' = Touched(t, Len(output[t]))
  PROVE  OutInv'
<1>1. <<>> \in Seq(OutputPackets) /\ Len(<<>>) = 0 /\ Len(output[t]) \in Nat
  BY AtWrite
<1>2. <<ApiPacket(t)>> = <<>> \o <<ApiPacket(t)>>
  OBVIOUS
<1>3. Len(output[t]) + Len(<<>>) = Len(output[t])
  BY <1>1
<1>4. \A k \in 1 .. Len(<<>>) : <<>>[k].from < 0 /\ <<>>[k].kind # "barrier"
  BY <1>1
<1>5. lastTouch' = Touched(t, Len(output[t]) + Len(<<>>))
  BY <1>3
<1> QED
  BY <1>1, <1>2, <1>4, <1>5, KeepsCommand

LEMMA KeepsSubmit ==
  ASSUME OutInv, NEW t \in Streams, output_vkQueueSubmit(t)
  PROVE  OutInv'
<1> DEFINE inserted == write_descriptor_buffer_update_packet(t)
           update == [from |-> -1, kind |-> "update", need |-> lastTouch["buffer"], after |-> <<>>]
<1>1. /\ at[t] = "write" /\ Packet(t).kind = "submit" /\ Done(t, inserted \o <<ApiPacket(t)>>, TRUE)
      /\ lastTouch' = Touched(t, Len(output[t]) + Len(inserted))
  BY DEF output_vkQueueSubmit, Api
<1>2. update \in OutputPackets /\ update.from = -1 /\ update.kind = "update"
  <2>1. lastTouch["buffer"] \in [thread : Int, packet : Int]
    BY PlaceFields DEF OutInv, OutTypes, Things
  <2>2. -1 \in Int /\ "update" \in InputKinds /\ <<>> \in {<<>>} \cup [Streams -> Int]
    BY DEF InputKinds
  <2> QED
    BY <2>1, <2>2, OutputPacketType
<1>3. inserted = <<>> \/ inserted = <<update>>
  BY DEF write_descriptor_buffer_update_packet
<1> HIDE DEF inserted, update
<1>4. /\ inserted \in Seq(OutputPackets)
      /\ \A k \in 1 .. Len(inserted) : inserted[k].from < 0 /\ inserted[k].kind # "barrier"
  <2>1. CASE inserted = <<>>
    BY <2>1
  <2>2. CASE inserted = <<update>>
    <3>1. <<update>> \in Seq(OutputPackets) /\ \A k \in 1 .. Len(<<update>>) : <<update>>[k] = update
      BY <1>2
    <3>2. update.from < 0 /\ update.kind # "barrier"
      BY <1>2
    <3> QED
      BY <2>2, <3>1, <3>2
  <2> QED
    BY <1>3, <2>1, <2>2
<1> QED
  BY <1>1, <1>4, KeepsCommand


-----------------------------------------------------------------------------
(***************************************************************************)
(* The trace that is read is complete before it is rewritten.              *)
(***************************************************************************)
LEMMA ChainsStay ==
  ASSUME UNCHANGED <<input, captured, lastTouch>>, NEW o, Chained(o),
         \A i, n : (CanTranslate(i, n)' <=> CanTranslate(i, n)) /\ translate(i, n)' = translate(i, n)
  PROVE  Chained(o)'
<1>1. PICK s \in Seq(Place) : IsChain(s, o) /\ \E m \in 0 .. Len(s) : WrittenTo(s, o, m)
  BY DEF Chained
<1>2. PICK m \in 0 .. Len(s) : WrittenTo(s, o, m)
  BY <1>1
<1>3. IsChain(s, o)'
  BY <1>1 DEF IsChain
<1>4. WrittenTo(s, o, m)'
  BY <1>2 DEF WrittenTo, Image
<1> QED
  BY <1>3, <1>4 DEF Chained

LEMMA KeepsStart ==
  ASSUME OutInv, StartRewriting
  PROVE  OutInv'
<1>1. /\ rewriting' = TRUE
      /\ UNCHANGED <<input, captured, done, at, isOpen, output, lastTouch, mapping, aborted>>
  BY DEF StartRewriting
<1>2. OutTypes' /\ InputOK' /\ NotStarted' /\ ~aborted'
  BY <1>1 DEF OutInv, OutTypes, InputOK, NotStarted
<1>3. \A t \in Streams : Stage(t)' /\ Recording(t)'
  BY <1>1 DEF OutInv, Stage, Recording, Packet, Barrier, Ready
<1>4. \A i, n : (CanTranslate(i, n)' <=> CanTranslate(i, n)) /\ translate(i, n)' = translate(i, n)
  BY <1>1 DEF CanTranslate, translate
<1>5. OutputOK'
  BY <1>1, <1>4, ZenonT(60) DEF OutInv, OutputOK, DependencyKept, BarrierKept
<1>6. \A o \in Things : Chained(o)'
  BY <1>1, <1>4, ChainsStay DEF OutInv
<1> QED
  BY <1>2, <1>3, <1>5, <1>6 DEF OutInv

\* Before that nothing is written, and no packet of the trace is in the mapping.
LEMMA NothingWritten ==
  ASSUME OutInv, ~rewriting
  PROVE  \A i \in Streams : /\ output[i] = <<>> /\ mapping[i] = <<0>> /\ done[i] = 0 /\ at[i] = "step" /\ ~isOpen[i]
                            /\ \A n \in Nat : ~CanTranslate(i, n + 1)
<1>1. Len(<<0>>) = 1
  OBVIOUS
<1> QED
  BY <1>1 DEF OutInv, NotStarted, CanTranslate

\* Capture keeps the invariant if it appends right packets and keeps the chains.
LEMMA CaptureKeeps ==
  ASSUME OutInv, ~rewriting, NEW t \in Streams, NEW p \in InputPackets,
         InputPacket(p, t, Len(input[t]) + 1), input' = [input EXCEPT ![t] = Append(@, p)],
         captured' \in [Things -> Place \cup {Nobody}], \A o \in Things : Chained(o)',
         UNCHANGED <<rewriting, done, at, isOpen, output, lastTouch, mapping, aborted>>
  PROVE  OutInv'
<1>1. /\ OutTypes /\ InputOK /\ \A i \in Streams : Recording(i) /\ output[i] = <<>> /\ done[i] = 0 /\ at[i] = "step" /\ ~isOpen[i]
  BY NothingWritten DEF OutInv
<1>2. /\ input[t] \in Seq(InputPackets) /\ input'[t] = Append(input[t], p)
      /\ \A i \in Streams \ {t} : input'[i] = input[i]
      /\ input' \in [Streams -> Seq(InputPackets)]
  BY <1>1 DEF OutTypes
<1>3. OutTypes'
  BY <1>1, <1>2 DEF OutTypes
<1>4. InputOK'
  <2> SUFFICES ASSUME NEW i \in Streams, NEW k \in 1 .. Len(input'[i]) PROVE InputPacket(input'[i][k], i, k)
    BY DEF InputOK, InputPacket
  <2>1. CASE i # t
    BY <1>1, <1>2, <2>1 DEF InputOK
  <2>2. CASE i = t /\ k # Len(input[t]) + 1
    <3>1. k \in 1 .. Len(input[t]) /\ input'[t][k] = input[t][k]
      BY <1>2, <2>2
    <3> QED
      BY <1>1, <2>2, <3>1 DEF InputOK
  <2>3. CASE i = t /\ k = Len(input[t]) + 1
    <3>1. input'[t][k] = p
      BY <1>2, <2>3
    <3> QED
      BY <2>3, <3>1
  <2> QED
    BY <2>1, <2>2, <2>3
<1>5. NotStarted' /\ ~aborted'
  BY DEF OutInv, NotStarted
<1>6. ASSUME NEW i \in Streams PROVE Stage(i)' /\ Recording(i)'
  <2>1. Recording(i)'
    BY <1>1 DEF Recording
  <2>2. Len(input'[i]) \in Nat /\ done'[i] = 0 /\ at'[i] = "step" /\ ~isOpen'[i]
    BY <1>1, <1>3 DEF OutTypes
  <2>3. Stage(i)'
    BY <2>2 DEF Stage
  <2> QED
    BY <2>1, <2>3
<1>7. OutputOK'
  BY <1>1 DEF OutputOK
<1> QED
  BY <1>3, <1>4, <1>5, <1>6, <1>7 DEF OutInv


LEMMA InputGrows ==
  ASSUME OutTypes, NEW t \in Streams, NEW p \in InputPackets, input' = [input EXCEPT ![t] = Append(@, p)]
  PROVE  /\ Len(input[t]) \in Nat /\ Len(input[t]) + 1 \in 1 .. Len(input'[t])
         /\ input'[t][Len(input[t]) + 1] = p
         /\ \A u \in Streams : \A k \in 1 .. Len(input[u]) : k \in 1 .. Len(input'[u]) /\ input'[u][k] = input[u][k]
         /\ \A u \in Streams : \A k \in 1 .. Len(input'[u]) :
              k \in 1 .. Len(input[u]) \/ (u = t /\ k = Len(input[t]) + 1)
<1>1. /\ input[t] \in Seq(InputPackets) /\ input'[t] = Append(input[t], p)
      /\ \A i \in Streams \ {t} : input'[i] = input[i]
  BY DEF OutTypes
<1>2. /\ Len(input[t]) \in Nat /\ Len(input'[t]) = Len(input[t]) + 1 /\ input'[t][Len(input[t]) + 1] = p
      /\ \A k \in 1 .. Len(input[t]) : input'[t][k] = input[t][k]
  BY <1>1
<1>3. ASSUME NEW u \in Streams, NEW k \in 1 .. Len(input[u])
      PROVE  k \in 1 .. Len(input'[u]) /\ input'[u][k] = input[u][k]
  <2>1. CASE u = t
    BY <1>2, <2>1
  <2>2. CASE u # t
    BY <1>1, <2>2
  <2> QED
    BY <2>1, <2>2
<1>4. ASSUME NEW u \in Streams, NEW k \in 1 .. Len(input'[u])
      PROVE  k \in 1 .. Len(input[u]) \/ (u = t /\ k = Len(input[t]) + 1)
  <2>1. CASE u = t
    BY <1>2, <2>1
  <2>2. CASE u # t
    BY <1>1, <2>2
  <2> QED
    BY <2>1, <2>2
<1> QED
  BY <1>2, <1>3, <1>4

\* Before the rewriting no command of a chain is written.
LEMMA NoneWritten ==
  ASSUME OutInv, ~rewriting, NEW o \in Things,
         UNCHANGED <<lastTouch, mapping>>, NEW s \in Seq(Place), IsChain(s, o)'
  PROVE  Chained(o)'
<1>1. PICK r \in Seq(Place) : \E m \in 0 .. Len(r) : WrittenTo(r, o, m)
  BY DEF OutInv, Chained
<1> PICK m \in 0 .. Len(r) : WrittenTo(r, o, m)
  BY <1>1
<1>2. \A c \in Place : ~CanTranslate(c.thread, c.packet + 1)
  BY NothingWritten DEF Place
<1>3. m = 0
  <2> SUFFICES ASSUME m # 0 PROVE FALSE
    OBVIOUS
  <2>1. m \in 1 .. Len(r) /\ m <= m
    OBVIOUS
  <2>2. r[m] \in Place /\ CanTranslate(r[m].thread, r[m].packet + 1)
    BY <1>1, <2>1 DEF WrittenTo
  <2> QED
    BY <1>2, <2>2
<1>4. lastTouch[o] = Nobody
  BY <1>1, <1>3 DEF WrittenTo
<1>5. \A i \in 1 .. Len(s) : s[i] \in Place /\ ~(i <= 0)
  OBVIOUS
<1>6. \A i \in 1 .. Len(s) : ~CanTranslate(s[i].thread, s[i].packet + 1)'
  BY <1>2, <1>5 DEF CanTranslate
<1>7. WrittenTo(s, o, 0)'
  BY <1>4, <1>5, <1>6 DEF WrittenTo
<1>8. 0 \in 0 .. Len(s)
  OBVIOUS
<1> QED
  BY <1>7, <1>8 DEF Chained

LEMMA CaptureLeavesChain ==
  ASSUME OutInv, ~rewriting, NEW t \in Streams, NEW p \in InputPackets,
         input' = [input EXCEPT ![t] = Append(@, p)], NEW o \in Things, ~TouchesThing(p, o),
         captured'[o] = captured[o], UNCHANGED <<lastTouch, mapping>>
  PROVE  Chained(o)'
<1>1. OutTypes /\ Chained(o)
  BY DEF OutInv
<1>2. PICK s \in Seq(Place) : IsChain(s, o)
  BY <1>1 DEF Chained
<1>3. \A i \in 1 .. Len(s) : s[i] \in Place /\ s[i].thread \in Streams
  <2>1. \A i \in 1 .. Len(s) : s[i] \in Place
    OBVIOUS
  <2> QED
    BY <2>1 DEF Place
<1>4. ASSUME NEW i \in 1 .. Len(s)
      PROVE  /\ s[i].packet + 1 \in 1 .. Len(input'[s[i].thread])
             /\ TouchesThing(input'[s[i].thread][s[i].packet + 1], o)
             /\ input'[s[i].thread][s[i].packet + 1].need = IF i = 1 THEN Nobody ELSE s[i - 1]
  <2>1. /\ s[i].packet + 1 \in 1 .. Len(input[s[i].thread])
        /\ TouchesThing(input[s[i].thread][s[i].packet + 1], o)
        /\ input[s[i].thread][s[i].packet + 1].need = IF i = 1 THEN Nobody ELSE s[i - 1]
    BY <1>2 DEF IsChain
  <2>2. /\ s[i].packet + 1 \in 1 .. Len(input'[s[i].thread])
        /\ input'[s[i].thread][s[i].packet + 1] = input[s[i].thread][s[i].packet + 1]
    BY <1>1, <1>3, <2>1, InputGrows
  <2> QED
    BY <2>1, <2>2
<1>5. ASSUME NEW u \in Streams, NEW k \in 1 .. Len(input'[u]), TouchesThing(input'[u][k], o)
      PROVE  \E i \in 1 .. Len(s) : s[i] = [thread |-> u, packet |-> k - 1]
  <2>1. ~(u = t /\ k = Len(input[t]) + 1)
    BY <1>1, <1>5, InputGrows
  <2>2. k \in 1 .. Len(input[u])
    BY <1>1, <2>1, InputGrows
  <2>3. TouchesThing(input[u][k], o)
    BY <1>1, <1>5, <2>2, InputGrows
  <2> QED
    BY <1>2, <2>2, <2>3 DEF IsChain
<1>6. IsChain(s, o)'
  BY <1>2, <1>4, <1>5 DEF IsChain
<1> QED
  BY <1>6, NoneWritten

LEMMA CaptureExtendsChain ==
  ASSUME OutInv, ~rewriting, NEW t \in Streams, NEW p \in InputPackets,
         input' = [input EXCEPT ![t] = Append(@, p)], NEW o \in Things, TouchesThing(p, o),
         p.need = captured[o], captured'[o] = [thread |-> t, packet |-> Len(input[t])],
         UNCHANGED <<lastTouch, mapping>>
  PROVE  Chained(o)'
<1>1. OutTypes /\ Chained(o)
  BY DEF OutInv
<1>2. PICK s \in Seq(Place) : IsChain(s, o)
  BY <1>1 DEF Chained
<1>3. PICK len \in Nat : len = Len(input[t])
  BY <1>1, InputGrows
<1>4. PICK c \in Place : c = [thread |-> t, packet |-> len]
  BY DEF Place
<1>5. c.thread = t /\ c.packet = len /\ captured'[o] = c
  BY <1>3, <1>4
<1>6. PICK r \in Seq(Place) : r = Append(s, c)
  BY AppendProperties
<1>7. /\ Len(r) = Len(s) + 1 /\ r[Len(s) + 1] = c /\ Len(s) \in Nat
      /\ \A i \in 1 .. Len(s) : r[i] = s[i]
  BY <1>6, AppendProperties
<1>8. \A i \in 1 .. Len(s) : s[i] \in Place /\ s[i].thread \in Streams
  <2>1. \A i \in 1 .. Len(s) : s[i] \in Place
    OBVIOUS
  <2> QED
    BY <2>1 DEF Place
<1>9. \A i \in 1 .. Len(s) :
        /\ s[i].packet + 1 \in 1 .. Len(input[s[i].thread])
        /\ TouchesThing(input[s[i].thread][s[i].packet + 1], o)
        /\ input[s[i].thread][s[i].packet + 1].need = IF i = 1 THEN Nobody ELSE s[i - 1]
  BY <1>2 DEF IsChain
<1>10. ASSUME NEW i \in 1 .. Len(r)
       PROVE  /\ r[i].packet + 1 \in 1 .. Len(input'[r[i].thread])
              /\ TouchesThing(input'[r[i].thread][r[i].packet + 1], o)
              /\ input'[r[i].thread][r[i].packet + 1].need = IF i = 1 THEN Nobody ELSE r[i - 1]
  <2>1. CASE i \in 1 .. Len(s)
    <3>1. /\ s[i].packet + 1 \in 1 .. Len(input'[s[i].thread])
          /\ input'[s[i].thread][s[i].packet + 1] = input[s[i].thread][s[i].packet + 1]
      BY <1>1, <1>8, <1>9, <2>1, InputGrows
    <3>2. r[i] = s[i] /\ (i # 1 => r[i - 1] = s[i - 1])
      BY <1>7, <2>1
    <3> QED
      BY <1>9, <2>1, <3>1, <3>2
  <2>2. CASE i = Len(s) + 1
    <3>1. r[i] = c
      BY <1>7, <2>2
    <3>2. len + 1 \in 1 .. Len(input'[t]) /\ input'[t][len + 1] = p
      BY <1>1, <1>3, InputGrows, ZenonT(60)
    <3>3. captured[o] = IF s = <<>> THEN Nobody ELSE s[Len(s)]
      BY <1>2 DEF IsChain
    <3>4. captured[o] = IF i = 1 THEN Nobody ELSE r[i - 1]
      <4>1. CASE s = <<>>
        BY <2>2, <3>3, <4>1
      <4>2. CASE s # <<>>
        <5>1. Len(s) # 0 /\ i - 1 = Len(s) /\ i # 1 /\ Len(s) \in 1 .. Len(s)
          BY <2>2, <4>2
        <5> QED
          BY <1>7, <3>3, <4>2, <5>1
      <4> QED
        BY <4>1, <4>2
    <3> QED
      BY <1>5, <3>1, <3>2, <3>4
  <2> QED
    BY <1>7, <2>1, <2>2
<1>11. ASSUME NEW i \in 1 .. Len(s) PROVE s[i] # c
  <2>1. s[i] = c => s[i].packet + 1 = len + 1 /\ s[i].thread = t
    BY <1>5
  <2>2. s[i].packet + 1 \in 1 .. Len(input[s[i].thread])
    BY <1>9
  <2> QED
    BY <1>3, <2>1, <2>2
<1>12. ASSUME NEW i \in 1 .. Len(r), NEW j \in 1 .. Len(r), r[i] = r[j] PROVE i = j
  <2>1. CASE i \in 1 .. Len(s) /\ j \in 1 .. Len(s)
    <3>1. s[i] = s[j]
      BY <1>7, <1>12, <2>1
    <3> QED
      BY <1>2, <2>1, <3>1 DEF IsChain
  <2>2. CASE i = Len(s) + 1 /\ j \in 1 .. Len(s)
    BY <1>7, <1>11, <1>12, <2>2
  <2>3. CASE j = Len(s) + 1 /\ i \in 1 .. Len(s)
    BY <1>7, <1>11, <1>12, <2>3
  <2>4. CASE i = Len(s) + 1 /\ j = Len(s) + 1
    BY <2>4
  <2> QED
    BY <1>7, <2>1, <2>2, <2>3, <2>4
<1>13. ASSUME NEW u \in Streams, NEW k \in 1 .. Len(input'[u]), TouchesThing(input'[u][k], o)
       PROVE  \E i \in 1 .. Len(r) : r[i] = [thread |-> u, packet |-> k - 1]
  <2>1. CASE k \in 1 .. Len(input[u])
    <3>1. TouchesThing(input[u][k], o)
      BY <1>1, <1>13, <2>1, InputGrows
    <3>2. PICK i \in 1 .. Len(s) : s[i] = [thread |-> u, packet |-> k - 1]
      BY <1>2, <2>1, <3>1 DEF IsChain
    <3>3. i \in 1 .. Len(r) /\ r[i] = s[i]
      BY <1>7
    <3> QED
      BY <3>2, <3>3
  <2>2. CASE u = t /\ k = Len(input[t]) + 1
    <3>1. k - 1 = len
      BY <1>3, <2>2
    <3>2. r[Len(s) + 1] = [thread |-> u, packet |-> k - 1] /\ Len(s) + 1 \in 1 .. Len(r)
      BY <1>4, <1>7, <2>2, <3>1
    <3> QED
      BY <3>2
  <2> QED
    BY <1>1, <2>1, <2>2, InputGrows
<1>14. captured'[o] = IF r = <<>> THEN Nobody ELSE r[Len(r)]
  <2>1. r # <<>> /\ r[Len(r)] = c
    BY <1>7
  <2> QED
    BY <1>5, <2>1
<1>15. IsChain(r, o)'
  BY <1>10, <1>12, <1>13, <1>14 DEF IsChain
<1> QED
  BY <1>15, NoneWritten


LEMMA KeepsCapturePacket ==
  ASSUME OutInv, NEW t \in Streams, NEW kind \in InputKinds \ {"barrier"}, NEW o \in Things,
         NEW d \in Payloads \cup {0}, CapturePacket(t, kind, o, d)
  PROVE  OutInv'
<1>1. /\ ~rewriting
      /\ input' = [input EXCEPT ![t] = Append(@, [kind |-> kind, object |-> o, payload |-> d,
                                                  need |-> captured[o], after |-> <<>>])]
      /\ captured' = IF kind = "update" THEN captured
                     ELSE [captured EXCEPT ![o] = [thread |-> t, packet |-> Len(input[t])]]
      /\ UNCHANGED <<rewriting, done, at, isOpen, output, lastTouch, mapping, aborted>>
  BY DEF CapturePacket
<1>2. OutTypes /\ captured[o] \in Place \cup {Nobody} /\ Len(input[t]) \in Nat /\ Chained(o)
  BY DEF OutInv, OutTypes
<1>3. PICK n \in Place \cup {Nobody} : n = captured[o]
  BY <1>2
<1>4. PICK p : p = [kind |-> kind, object |-> o, payload |-> d, need |-> n, after |-> <<>>]
  OBVIOUS
<1>5. p \in InputPackets /\ p.kind = kind /\ p.object = o /\ p.need = n
  BY <1>4 DEF InputPackets
<1>6. input' = [input EXCEPT ![t] = Append(@, p)]
  BY <1>1, <1>3, <1>4
<1>7. InputPacket(p, t, Len(input[t]) + 1)
  <2>1. n.thread = t => n.packet < Len(input[t])
    <3> SUFFICES ASSUME n.thread = t PROVE n.packet < Len(input[t])
      OBVIOUS
    <3>1. PICK s \in Seq(Place) : IsChain(s, o)
      BY <1>2 DEF Chained
    <3>2. n # Nobody
      BY StreamsAssumption DEF Nobody
    <3>3. s # <<>> /\ n = s[Len(s)]
      BY <1>3, <3>1, <3>2 DEF IsChain
    <3>4. Len(s) \in 1 .. Len(s)
      BY <3>3
    <3>5. s[Len(s)].packet + 1 \in 1 .. Len(input[s[Len(s)].thread])
      BY <3>1, <3>4 DEF IsChain
    <3>6. n.packet \in Nat /\ n.packet + 1 \in 1 .. Len(input[t])
      BY <3>3, <3>5, PlaceFields
    <3> QED
      BY <1>2, <3>6
  <2>2. (Len(input[t]) + 1) - 1 = Len(input[t])
    BY <1>2
  <2> QED
    BY <1>5, <2>1, <2>2 DEF InputPacket
<1>8. /\ captured' \in [Things -> Place \cup {Nobody}]
      /\ \A x \in Things : x # o => captured'[x] = captured[x]
      /\ kind # "update" => captured'[o] = [thread |-> t, packet |-> Len(input[t])]
      /\ kind = "update" => captured'[o] = captured[o]
  <2>1. PICK len \in Nat : len = Len(input[t])
    BY <1>2
  <2>2. [thread |-> t, packet |-> len] \in Place
    BY DEF Place
  <2> QED
    BY <1>1, <1>2, <2>1, <2>2 DEF OutTypes
<1>9. ASSUME NEW x \in Things PROVE Chained(x)'
  <2>1. CASE x = o /\ kind # "update"
    <3>1. TouchesThing(p, o) /\ p.need = captured[o]
      BY <1>3, <1>5, <2>1 DEF TouchesThing
    <3> QED
      BY <1>1, <1>5, <1>6, <1>8, <2>1, <3>1, CaptureExtendsChain
  <2>2. CASE x # o \/ kind = "update"
    <3>1. ~TouchesThing(p, x) /\ captured'[x] = captured[x]
      BY <1>5, <1>8, <2>2 DEF TouchesThing
    <3> QED
      BY <1>1, <1>5, <1>6, <3>1, CaptureLeavesChain
  <2> QED
    BY <2>1, <2>2
<1> QED
  BY <1>1, <1>5, <1>6, <1>7, <1>8, <1>9, CaptureKeeps, ZenonT(60)

LEMMA KeepsCaptureBarrier ==
  ASSUME OutInv, NEW t \in Streams, CaptureBarrier(t)
  PROVE  OutInv'
<1>1. /\ ~rewriting
      /\ input' = [input EXCEPT ![t] = Append(@, [kind |-> "barrier", object |-> "none", payload |-> 0,
                                                  need |-> Nobody, after |-> [i \in Streams |-> Len(input[i])]])]
      /\ UNCHANGED <<captured, rewriting, done, at, isOpen, output, lastTouch, mapping, aborted>>
  BY DEF CaptureBarrier
<1>2. OutTypes /\ captured' \in [Things -> Place \cup {Nobody}] /\ \A i \in Streams : Len(input[i]) \in Nat
  BY <1>1 DEF OutInv, OutTypes
<1>3. PICK a \in [Streams -> Nat] : a = [i \in Streams |-> Len(input[i])]
  BY <1>2
<1>4. PICK p : p = [kind |-> "barrier", object |-> "none", payload |-> 0, need |-> Nobody, after |-> a]
  OBVIOUS
<1>5. p \in InputPackets /\ p.kind = "barrier" /\ p.need = Nobody /\ p.after = a
  BY <1>4 DEF InputPackets, InputKinds
<1>6. input' = [input EXCEPT ![t] = Append(@, p)]
  BY <1>1, <1>3, <1>4
<1>7. InputPacket(p, t, Len(input[t]) + 1)
  <2>1. (Len(input[t]) + 1) - 1 = Len(input[t]) /\ a[t] = Len(input[t])
    BY <1>2, <1>3
  <2>2. Nobody.thread # t
    BY StreamsAssumption DEF Nobody
  <2> QED
    BY <1>5, <2>1, <2>2 DEF InputPacket
<1>8. ASSUME NEW o \in Things PROVE Chained(o)'
  <2>1. ~TouchesThing(p, o) /\ captured'[o] = captured[o]
    BY <1>1, <1>5 DEF TouchesThing
  <2> QED
    BY <1>1, <1>5, <1>6, <2>1, CaptureLeavesChain
<1> QED
  BY <1>1, <1>2, <1>5, <1>6, <1>7, <1>8, CaptureKeeps

-----------------------------------------------------------------------------
LEMMA OutInitHolds == OutInit => OutInv
<1> SUFFICES ASSUME OutInit PROVE OutInv
  OBVIOUS
<1>1. <<>> \in Seq(InputPackets) /\ <<>> \in Seq(OutputPackets) /\ <<0>> \in Seq(Nat) /\ Len(<<0>>) = 1 /\ Len(<<>>) = 0
      /\ <<0>>[1] = 0 /\ <<>> \in Seq(Place)
  OBVIOUS
<1>2. OutTypes
  BY <1>1 DEF OutInit, OutTypes
<1>3. InputOK /\ NotStarted /\ ~aborted /\ OutputOK
  BY <1>1 DEF OutInit, InputOK, NotStarted, OutputOK
<1>4. ASSUME NEW t \in Streams PROVE Stage(t) /\ Recording(t)
  BY <1>1 DEF OutInit, Stage, Recording
<1>5. ASSUME NEW o \in Things PROVE Chained(o)
  <2>1. IsChain(<<>>, o)
    BY <1>1 DEF IsChain, OutInit
  <2>2. WrittenTo(<<>>, o, 0) /\ 0 \in 0 .. Len(<<>>)
    BY <1>1 DEF WrittenTo, OutInit
  <2> QED
    BY <1>1, <2>1, <2>2 DEF Chained
<1> QED
  BY <1>2, <1>3, <1>4, <1>5 DEF OutInv

LEMMA OutNextKeeps == OutInv /\ [OutNext]_outvars => OutInv'
<1> SUFFICES ASSUME OutInv, [OutNext]_outvars PROVE OutInv'
  OBVIOUS
<1>1. CASE UNCHANGED outvars
  <2>1. UNCHANGED <<input, captured, rewriting, done, at, isOpen, output, lastTouch, mapping, aborted>>
    BY <1>1 DEF outvars
  <2>2. \A i, n : (CanTranslate(i, n)' <=> CanTranslate(i, n)) /\ translate(i, n)' = translate(i, n)
    BY <2>1 DEF CanTranslate, translate
  <2>3. OutTypes' /\ InputOK' /\ NotStarted' /\ ~aborted'
    BY <2>1 DEF OutInv, OutTypes, InputOK, NotStarted
  <2>4. \A t \in Streams : Stage(t)' /\ Recording(t)'
    BY <2>1 DEF OutInv, Stage, Recording, Packet, Barrier, Ready
  <2>5. OutputOK'
    BY <2>1, <2>2, ZenonT(60) DEF OutInv, OutputOK, DependencyKept, BarrierKept
  <2>6. \A o \in Things : Chained(o)'
    BY <2>1, <2>2, ChainsStay DEF OutInv
  <2> QED
    BY <2>3, <2>4, <2>5, <2>6 DEF OutInv
<1>2. ASSUME NEW t \in Streams, NEW o \in Things, CapturePacket(t, "update", o, 0) PROVE OutInv'
  BY <1>2, KeepsCapturePacket DEF InputKinds
<1>3. ASSUME NEW t \in Streams, CapturePacket(t, "command", "buffer", 0) PROVE OutInv'
  BY <1>3, KeepsCapturePacket DEF InputKinds, Things
<1>4. ASSUME NEW t \in Streams, NEW kind \in {"bind", "submit"}, CapturePacket(t, kind, "other", 0) PROVE OutInv'
  BY <1>4, KeepsCapturePacket DEF InputKinds, Things
<1>5. ASSUME NEW t \in Streams, NEW d \in Payloads, CapturePacket(t, "get", "other", d) PROVE OutInv'
  BY <1>5, KeepsCapturePacket DEF InputKinds, Things
<1>6. ASSUME NEW t \in Streams, CaptureBarrier(t) PROVE OutInv'
  BY <1>6, KeepsCaptureBarrier
<1>7. CASE StartRewriting
  BY <1>7, KeepsStart
<1>8. ASSUME NEW t \in Streams, OutStep(t) PROVE OutInv'
  BY <1>8, KeepsOutStep
<1>9. ASSUME NEW t \in Streams, RecordBarrier(t) PROVE OutInv'
  BY <1>9, KeepsRecordBarrier
<1>10. ASSUME NEW t \in Streams, OutEnterBarrier(t) PROVE OutInv'
  BY <1>10, KeepsOutEnterBarrier
<1>11. ASSUME NEW t \in Streams, WriteBarrier(t) PROVE OutInv'
  BY <1>11, KeepsWriteBarrier
<1>12. ASSUME NEW t \in Streams, ReadHandle(t) PROVE OutInv'
  BY <1>12, KeepsReadHandle
<1>13. ASSUME NEW t \in Streams, write_output_update_packet(t) PROVE OutInv'
  BY <1>13, KeepsUpdate
<1>14. ASSUME NEW t \in Streams, OutputCommand(t) PROVE OutInv'
  BY <1>14, KeepsPlainCommand DEF OutputCommand, Api
<1>15. ASSUME NEW t \in Streams, output_vkGetDescriptorEXT(t) PROVE OutInv'
  BY <1>15, KeepsPlainCommand DEF output_vkGetDescriptorEXT, Api
<1>16. ASSUME NEW t \in Streams, output_note_descriptor_buffer_offsets(t) PROVE OutInv'
  BY <1>16, KeepsPlainCommand DEF output_note_descriptor_buffer_offsets, Api
<1>17. ASSUME NEW t \in Streams, output_vkQueueSubmit(t) PROVE OutInv'
  BY <1>17, KeepsSubmit
<1> QED
  BY <1>1, <1>2, <1>3, <1>4, <1>5, <1>6, <1>7, <1>8, <1>9, <1>10, <1>11, <1>12, <1>13, <1>14, <1>15,
     <1>16, <1>17 DEF OutNext

\* Whatever the interleaving of the threads of lava-tool's second pass, every packet
\* number is translated when it is needed (output_packet_mapping) and the new trace
\* orders its packets as the old one does: dependencies, barriers and waits.
THEOREM RewrittenInOrder == OutSpec => []RewriteKeepsOrder
<1>1. OutSpec => []OutInv
  BY OutInitHolds, OutNextKeeps, PTL DEF OutSpec
<1> QED
  BY <1>1, OutInvImplies, PTL

-----------------------------------------------------------------------------

(***************************************************************************)
(* The streams of an import.  A writer w is sound when streams that have   *)
(* no thread yet are empty.  Threads are parked when each replays after    *)
(* all of stream 0, and stream 0 waits for b when it replays after that.   *)
(***************************************************************************)
Counts == [ImportStreams -> Nat]
Writers == [streams : 1 .. (MaxThreads + 1), packets : Counts, after : [ImportStreams -> Counts]]

Empty(w, b) == \A s \in ImportStreams : s >= w.streams => b[s] = 0
Parks(w) == \A s \in ImportThreads(w) : w.after[s][0] = w.packets[0]
WaitsFor(w, b) == \A s \in ImportThreads(w) : w.after[0][s] >= b[s]

ParkInv ==
  /\ out \in Writers /\ Empty(out, out.packets)
  /\ active \in BOOLEAN /\ building \in BOOLEAN /\ (building => active)
  /\ before \in Counts /\ Empty(out, before)
  /\ ~active => Parks(out)
  /\ active => WaitsFor(out, before)

LEMMA ImportStreamFacts ==
  /\ 0 \in ImportStreams
  /\ \A w \in Writers : \A s \in ImportThreads(w) : s \in ImportStreams /\ s # 0 /\ s < w.streams
  BY ImportAssumption DEF ImportStreams, ImportThreads, Writers

LEMMA PacketsKeep ==
  ASSUME NEW w \in Writers, Empty(w, w.packets), NEW s \in ImportStreams, s < w.streams, NEW n \in Nat
  PROVE  LET v == Packets(w, s, n)
         IN /\ v \in Writers /\ Empty(v, v.packets) /\ v.streams = w.streams
            /\ \A b \in Counts : WaitsFor(w, b) => WaitsFor(v, b)
            /\ s # 0 /\ Parks(w) => Parks(v)
<1> DEFINE v == Packets(w, s, n)
<1>1. w.packets \in Counts /\ w.streams \in 1 .. (MaxThreads + 1) /\ w.after \in [ImportStreams -> Counts]
  BY DEF Writers
<1>2. PICK q : q = [w.packets EXCEPT ![s] = @ + n]
  OBVIOUS
<1>3. q \in Counts /\ \A u \in ImportStreams : u # s => q[u] = w.packets[u]
  BY <1>1, <1>2 DEF Counts
<1>4. v = [w EXCEPT !.packets = q]
  BY <1>2 DEF Packets
<1>5. v \in Writers /\ v.streams = w.streams /\ v.packets = q /\ v.after = w.after
  BY <1>3, <1>4 DEF Writers
<1> HIDE DEF v
<1>6. Empty(v, v.packets)
  BY <1>1, <1>3, <1>5 DEF Empty, ImportStreams
<1>7. ImportThreads(v) = ImportThreads(w)
  BY <1>5 DEF ImportThreads
<1>8. \A b \in Counts : WaitsFor(w, b) => WaitsFor(v, b)
  BY <1>5, <1>7 DEF WaitsFor
<1>9. s # 0 /\ Parks(w) => Parks(v)
  BY <1>3, <1>5, <1>7, ImportStreamFacts DEF Parks
<1> QED
  BY <1>5, <1>6, <1>8, <1>9 DEF v

LEMMA BarrierKeeps ==
  ASSUME NEW w \in Writers, Empty(w, w.packets), NEW s \in ImportStreams, s < w.streams, NEW e \in Counts
  PROVE  LET v == ImportBarrier(w, s, e)
         IN /\ v \in Writers /\ Empty(v, v.packets) /\ v.streams = w.streams
            /\ v.after[s] = e /\ \A u \in ImportStreams : u # s => v.after[u] = w.after[u]
            /\ \A u \in ImportStreams : u # s => v.packets[u] = w.packets[u]
<1> DEFINE r == Packets(w, s, 1)
           v == ImportBarrier(w, s, e)
<1>1. r \in Writers /\ Empty(r, r.packets) /\ r.streams = w.streams
  BY PacketsKeep
<1>2. r.after = w.after /\ \A u \in ImportStreams : u # s => r.packets[u] = w.packets[u]
  BY DEF Packets, Writers, Counts
<1> HIDE DEF r
<1>3. r.after \in [ImportStreams -> Counts]
  BY <1>1 DEF Writers
<1>4. PICK a : a = [r.after EXCEPT ![s] = e]
  OBVIOUS
<1>5. a \in [ImportStreams -> Counts] /\ a[s] = e /\ \A u \in ImportStreams : u # s => a[u] = r.after[u]
  BY <1>3, <1>4
<1>6. v = [r EXCEPT !.after = a]
  BY <1>4 DEF ImportBarrier, r
<1>7. v \in Writers /\ v.streams = r.streams /\ v.packets = r.packets /\ v.after = a
  BY <1>1, <1>5, <1>6 DEF Writers
<1> HIDE DEF v
<1>8. Empty(v, v.packets)
  BY <1>1, <1>7 DEF Empty
<1> QED
  BY <1>1, <1>2, <1>5, <1>7, <1>8 DEF v

\* A new thread starts after everything written so far.
LEMMA SelectKeeps ==
  ASSUME NEW w \in Writers, Empty(w, w.packets), NEW t \in ImportStreams, t # 0, t <= w.streams
  PROVE  LET v == import_select_thread(w, t)
         IN /\ v \in Writers /\ Empty(v, v.packets) /\ t < v.streams /\ v.packets[0] = w.packets[0]
            /\ \A b \in Counts : Empty(w, b) => Empty(v, b) /\ (WaitsFor(w, b) => WaitsFor(v, b))
            /\ Parks(w) => Parks(v)
<1>0. /\ w.packets \in Counts /\ w.streams \in 1 .. (MaxThreads + 1) /\ w.after \in [ImportStreams -> Counts]
      /\ MaxThreads \in Nat /\ t \in 1 .. MaxThreads
  BY ImportAssumption DEF Writers, ImportStreams
<1>1. CASE t < w.streams
  BY <1>1 DEF import_select_thread
<1>2. CASE ~(t < w.streams)
  <2> DEFINE r == [w EXCEPT !.streams = @ + 1]
             v == ImportBarrier(r, t, w.packets)
  <2>1. t = w.streams
    BY <1>0, <1>2
  <2>2. r \in Writers /\ r.streams = w.streams + 1 /\ r.packets = w.packets /\ r.after = w.after
    BY <1>0, <2>1 DEF Writers
  <2> HIDE DEF r
  <2>3. \A b \in Counts : Empty(w, b) => Empty(r, b)
    BY <1>0, <2>2 DEF Empty, ImportStreams
  <2>4. Empty(r, r.packets) /\ t < r.streams
    BY <1>0, <2>1, <2>2, <2>3
  <2>5. /\ v \in Writers /\ Empty(v, v.packets) /\ v.streams = r.streams /\ v.after[t] = w.packets
        /\ \A u \in ImportStreams : u # t => v.after[u] = w.after[u]
        /\ \A u \in ImportStreams : u # t => v.packets[u] = w.packets[u]
    BY <1>0, <2>2, <2>4, BarrierKeeps
  <2> HIDE DEF v
  <2>6. v.packets[0] = w.packets[0] /\ 0 \in ImportStreams
    BY <2>5, ImportStreamFacts
  <2>7. \A s \in ImportThreads(v) : s \in ImportThreads(w) \/ s = t
    BY <1>0, <2>1, <2>2, <2>5 DEF ImportThreads
  <2>8. \A s \in ImportThreads(w) : s \in ImportStreams /\ s # t
    BY <1>0, <2>1, ImportStreamFacts
  <2>9. Parks(w) => Parks(v)
    BY <2>5, <2>6, <2>7, <2>8 DEF Parks
  <2>10. ASSUME NEW b \in Counts, Empty(w, b) PROVE Empty(v, b) /\ (WaitsFor(w, b) => WaitsFor(v, b))
    <3>1. Empty(v, b)
      BY <2>3, <2>5, <2>10 DEF Empty
    <3>2. b[t] = 0 /\ v.after[0] = w.after[0] /\ w.after[0][t] \in Nat
      BY <1>0, <2>1, <2>5, <2>6, <2>10 DEF Empty, Counts
    <3>3. w.after[0][t] >= b[t]
      BY <3>2
    <3> QED
      BY <2>7, <3>1, <3>2, <3>3 DEF WaitsFor
  <2>11. import_select_thread(w, t) = v
    BY <1>2 DEF import_select_thread, v, r
  <2> QED
    BY <2>2, <2>4, <2>5, <2>6, <2>9, <2>10, <2>11
<1> QED
  BY <1>1, <1>2

\* Stream 0 starts a region after all that the threads have written.
LEMMA BeginKeeps ==
  ASSUME NEW w \in Writers, Empty(w, w.packets)
  PROVE  LET v == ImportBarrier(w, 0, w.packets)
         IN v \in Writers /\ Empty(v, v.packets) /\ v.streams = w.streams /\ WaitsFor(v, w.packets)
<1> DEFINE v == ImportBarrier(w, 0, w.packets)
<1>1. w.packets \in Counts /\ w.streams \in 1 .. (MaxThreads + 1) /\ 0 \in ImportStreams /\ 0 < w.streams
  <2>1. w.packets \in Counts /\ w.streams \in 1 .. (MaxThreads + 1)
    BY DEF Writers
  <2> QED
    BY <2>1, ImportStreamFacts, ImportAssumption
<1>2. v \in Writers /\ Empty(v, v.packets) /\ v.streams = w.streams /\ v.after[0] = w.packets
  <2>1. PICK z \in ImportStreams : z = 0
    BY <1>1
  <2>2. PICK e \in Counts : e = w.packets
    BY <1>1
  <2>3. PICK x : x = ImportBarrier(w, z, e)
    OBVIOUS
  <2>4. z < w.streams
    BY <1>1, <2>1
  <2>5. x \in Writers /\ Empty(x, x.packets) /\ x.streams = w.streams /\ x.after[z] = e
    BY <2>3, <2>4, BarrierKeeps
  <2>6. v = x
    BY <2>1, <2>2, <2>3
  <2> QED
    BY <2>1, <2>2, <2>5, <2>6, Zenon
<1> HIDE DEF v
<1>3. \A s \in ImportThreads(v) : w.packets[s] \in Nat
  BY <1>1, <1>2, ImportStreamFacts DEF Counts
<1>4. WaitsFor(v, w.packets)
  BY <1>2, <1>3 DEF WaitsFor
<1> QED
  BY <1>2, <1>4 DEF v

\* After it every thread goes on after all of stream 0.
LEMMA EndKeeps ==
  ASSUME NEW w \in Writers, Empty(w, w.packets)
  PROVE  LET v == import_threadless_metacommand_end(w)
         IN v \in Writers /\ Empty(v, v.packets) /\ v.streams = w.streams /\ Parks(v)
<1> DEFINE q == [s \in ImportStreams |-> IF s \in ImportThreads(w) THEN w.packets[s] + 1 ELSE w.packets[s]]
           a == [s \in ImportStreams |-> IF s \in ImportThreads(w) THEN w.packets ELSE w.after[s]]
           v == import_threadless_metacommand_end(w)
<1>1. w.packets \in Counts /\ w.streams \in 1 .. (MaxThreads + 1) /\ w.after \in [ImportStreams -> Counts]
  BY DEF Writers
<1>2. q \in Counts /\ a \in [ImportStreams -> Counts]
  BY <1>1 DEF Counts
<1>3. v = [w EXCEPT !.packets = q, !.after = a]
  BY DEF import_threadless_metacommand_end
<1>4. /\ q[0] = w.packets[0]
      /\ \A s \in ImportThreads(w) : a[s] = w.packets
      /\ \A s \in ImportStreams : s \notin ImportThreads(w) => q[s] = w.packets[s]
  BY ImportStreamFacts
<1> HIDE DEF q, a
<1>5. v \in Writers /\ v.streams = w.streams /\ v.packets = q /\ v.after = a
  BY <1>2, <1>3 DEF Writers
<1> HIDE DEF v
<1>6. ImportThreads(v) = ImportThreads(w)
  BY <1>5 DEF ImportThreads
<1>7. Empty(v, v.packets)
  BY <1>1, <1>4, <1>5, ImportStreamFacts DEF Empty, ImportStreams
<1>8. Parks(v)
  BY <1>4, <1>5, <1>6 DEF Parks
<1> QED
  BY <1>5, <1>7, <1>8 DEF v

(***************************************************************************)
(* The actions.                                                            *)
(***************************************************************************)
LEMMA ThreadStep ==
  ASSUME ParkInv, NEW t \in GfxrThreads, NEW n \in Nat,
         out' = Packets(import_select_thread(out, t), t, n), UNCHANGED <<active, building, before>>
  PROVE  ParkInv'
<1> DEFINE v == import_select_thread(out, t)
           w == Packets(v, t, n)
<1>1. out \in Writers /\ Empty(out, out.packets) /\ before \in Counts /\ Empty(out, before) /\ out.streams \in Nat
  BY DEF ParkInv, Writers
<1>2. t \in ImportStreams /\ t # 0 /\ t <= out.streams
  BY <1>1, ImportAssumption DEF GfxrThreads, ImportStreams
<1>3. /\ v \in Writers /\ Empty(v, v.packets) /\ t < v.streams /\ Empty(v, before)
      /\ WaitsFor(out, before) => WaitsFor(v, before)
      /\ Parks(out) => Parks(v)
  BY <1>1, <1>2, SelectKeeps
<1> HIDE DEF v
<1>4. /\ w \in Writers /\ Empty(w, w.packets) /\ w.streams = v.streams
      /\ WaitsFor(v, before) => WaitsFor(w, before)
      /\ Parks(v) => Parks(w)
  BY <1>1, <1>2, <1>3, PacketsKeep
<1> HIDE DEF w
<1>5. Empty(w, before)
  BY <1>3, <1>4 DEF Empty
<1>6. out' = w /\ active' = active /\ building' = building /\ before' = before
  BY DEF v, w
<1>7. Empty(out, out.packets)' /\ Empty(out, before)' /\ (Parks(out)' <=> Parks(w)) /\ (WaitsFor(out, before)' <=> WaitsFor(w, before))
  BY <1>4, <1>5, <1>6 DEF Empty, Parks, WaitsFor, ImportThreads
<1> QED
  BY <1>1, <1>3, <1>4, <1>5, <1>6, <1>7 DEF ParkInv

LEMMA SelectStep ==
  ASSUME ParkInv, NEW t \in GfxrThreads,
         out' = import_select_thread(out, t), UNCHANGED <<active, building, before>>
  PROVE  ParkInv'
<1> DEFINE v == import_select_thread(out, t)
<1>1. out \in Writers /\ Empty(out, out.packets) /\ before \in Counts /\ Empty(out, before) /\ out.streams \in Nat
  BY DEF ParkInv, Writers
<1>2. t \in ImportStreams /\ t # 0 /\ t <= out.streams
  BY <1>1, ImportAssumption DEF GfxrThreads, ImportStreams
<1>3. /\ v \in Writers /\ Empty(v, v.packets) /\ t < v.streams /\ Empty(v, before)
      /\ WaitsFor(out, before) => WaitsFor(v, before)
      /\ Parks(out) => Parks(v)
  BY <1>1, <1>2, SelectKeeps
<1> HIDE DEF v
<1>4. out' = v /\ active' = active /\ building' = building /\ before' = before
  BY DEF v
<1>5. Empty(out, out.packets)' /\ Empty(out, before)' /\ (Parks(out)' <=> Parks(v)) /\ (WaitsFor(out, before)' <=> WaitsFor(v, before))
  BY <1>3, <1>4 DEF Empty, Parks, WaitsFor, ImportThreads
<1> QED
  BY <1>1, <1>3, <1>4, <1>5 DEF ParkInv

\* A region is entered or stays entered.
LEMMA RegionBegins ==
  ASSUME ParkInv, Region
  PROVE  LET v == import_threadless_metacommand_begin(out)
         IN v \in Writers /\ Empty(v, v.packets) /\ v.streams = out.streams /\ WaitsFor(v, before')
<1>1. out \in Writers /\ Empty(out, out.packets)
  BY DEF ParkInv
<1>2. CASE active
  BY <1>1, <1>2 DEF import_threadless_metacommand_begin, Region, ParkInv
<1>3. CASE ~active
  BY <1>1, <1>3, BeginKeeps DEF import_threadless_metacommand_begin, Region
<1> QED
  BY <1>2, <1>3

LEMMA RegionStep ==
  ASSUME ParkInv, Region, building' \in BOOLEAN, NEW w \in Writers, Empty(w, w.packets),
         w.streams = out.streams, WaitsFor(w, before'), out' = w
  PROVE  ParkInv'
<1>1. out \in Writers /\ Empty(out, out.packets) /\ before \in Counts /\ Empty(out, before) /\ out.packets \in Counts
  BY DEF ParkInv, Writers
<1>2. before' \in Counts /\ Empty(out, before') /\ active'
  BY <1>1 DEF Region
<1>3. Empty(w, before')
  BY <1>2 DEF Empty
<1>4. Empty(out, out.packets)' /\ Empty(out, before)' /\ WaitsFor(out, before)'
  BY <1>3 DEF Empty, WaitsFor, ImportThreads
<1> QED
  BY <1>2, <1>4 DEF ParkInv, Region

\* In it stream 0 writes n packets.
LEMMA RegionPackets ==
  ASSUME ParkInv, Region, NEW w \in Writers, Empty(w, w.packets), w.streams = out.streams,
         WaitsFor(w, before'), NEW n \in Nat
  PROVE  LET v == Packets(w, 0, n)
         IN v \in Writers /\ Empty(v, v.packets) /\ v.streams = out.streams /\ WaitsFor(v, before')
<1>1. before' \in Counts
  BY DEF ParkInv, Region, Writers
<1>2. 0 \in ImportStreams /\ 0 < w.streams
  <2>1. w.streams \in 1 .. (MaxThreads + 1)
    BY DEF Writers
  <2> QED
    BY <2>1, ImportStreamFacts, ImportAssumption
<1> QED
  BY <1>1, <1>2, PacketsKeep

\* The end of a region, which frees the command buffer if there is one.
LEMMA EndStep ==
  ASSUME ParkInv, NEW v \in Writers, Empty(v, v.packets), Empty(v, before), ~active => Parks(v),
         out' = Parked(Finished(v)), active' = FALSE, building' = FALSE, before' = before
  PROVE  ParkInv'
<1>1. before \in Counts /\ (building => active) /\ v.streams \in 1 .. (MaxThreads + 1) /\ MaxThreads \in Nat
  BY ImportAssumption DEF ParkInv, Writers
<1>2. PICK w : w = Finished(v)
  OBVIOUS
<1>3. w \in Writers /\ Empty(w, w.packets) /\ w.streams = v.streams /\ (~building => w = v)
  <2>1. CASE building
    <3>1. w = Packets(v, 0, 2) /\ 0 \in ImportStreams /\ 0 < v.streams
      BY <1>1, <1>2, <2>1, ImportStreamFacts DEF Finished, import_threadless_metacommand_begin
    <3> QED
      BY <2>1, <3>1, PacketsKeep
  <2>2. CASE ~building
    BY <1>2, <2>2 DEF Finished
  <2> QED
    BY <2>1, <2>2
<1>4. PICK x : x = Parked(w)
  OBVIOUS
<1>5. x \in Writers /\ Empty(x, x.packets) /\ x.streams = w.streams /\ Parks(x)
  <2>1. CASE active \/ building
    BY <1>3, <1>4, <2>1, EndKeeps DEF Parked
  <2>2. CASE ~(active \/ building)
    BY <1>3, <1>4, <2>2 DEF Parked
  <2> QED
    BY <2>1, <2>2
<1>6. out' = x
  BY <1>2, <1>4
<1>7. Empty(x, before)
  BY <1>3, <1>5 DEF Empty
<1>8. Empty(out, out.packets)' /\ Empty(out, before)' /\ Parks(out)'
  BY <1>5, <1>6, <1>7 DEF Empty, Parks, ImportThreads
<1> QED
  BY <1>1, <1>5, <1>6, <1>8 DEF ParkInv

LEMMA ParkInitHolds == GxInit => ParkInv
<1> SUFFICES ASSUME GxInit PROVE ParkInv
  OBVIOUS
<1>1. PICK q : q = [s \in ImportStreams |-> IF s = 0 THEN 1 ELSE 0]
  OBVIOUS
<1>2. PICK a : a = [s \in ImportStreams |-> [u \in ImportStreams |-> 0]]
  OBVIOUS
<1>3. q \in Counts /\ a \in [ImportStreams -> Counts]
  BY <1>1, <1>2 DEF Counts
<1>4. out = [streams |-> 1, packets |-> q, after |-> a]
  BY <1>1, <1>2 DEF GxInit
<1>5. out \in Writers /\ out.streams = 1 /\ out.packets = q
  BY <1>3, <1>4, ImportAssumption DEF Writers
<1>6. Empty(out, out.packets) /\ Empty(out, before) /\ before \in Counts
  BY <1>1, <1>5 DEF Empty, GxInit, ImportStreams, Counts
<1>7. Parks(out)
  BY <1>5 DEF Parks, ImportThreads
<1> QED
  BY <1>5, <1>6, <1>7 DEF ParkInv, GxInit

LEMMA ParkNextKeeps == ParkInv /\ [GxNext]_gxvars => ParkInv'
<1> SUFFICES ASSUME ParkInv, [GxNext]_gxvars PROVE ParkInv'
  OBVIOUS
<1>0. out \in Writers /\ Empty(out, out.packets) /\ Empty(out, before) /\ (~active => Parks(out))
  BY DEF ParkInv
<1>1. CASE UNCHANGED <<out, active, building, before>>
  BY <1>1 DEF ParkInv, Empty, Parks, WaitsFor, ImportThreads
<1>2. CASE UNCHANGED gxvars
  BY <1>1, <1>2 DEF gxvars
<1>3. ASSUME NEW m \in DOMAIN Memories, NEW f \in FixupOffsets, import_device_address_fixups(m, {f}) PROVE ParkInv'
  BY <1>1, <1>3 DEF import_device_address_fixups
<1>4. ASSUME NEW t \in GfxrThreads, NEW m \in DOMAIN Memories, NEW s \in Spans, import_memory_update(t, m, s)
      PROVE  ParkInv'
  <2>1. UNCHANGED <<active, building, before>>
    BY <1>4 DEF import_memory_update
  <2>2. CASE ~Memories[m]
    BY <1>4, <2>1, <2>2, SelectStep DEF import_memory_update
  <2>3. CASE Memories[m]
    <3>1. PICK hit \in SUBSET Objects : out' = Packets(import_select_thread(out, t), t, Cardinality(hit))
      BY <1>4, <2>3 DEF import_memory_update
    <3>2. Cardinality(hit) \in Nat
      BY ImportAssumption, FS_Subset, FS_CardinalityType DEF Objects
    <3> QED
      BY <2>1, <3>1, <3>2, ThreadStep
  <2> QED
    BY <2>2, <2>3
<1>5. ASSUME NEW t \in GfxrThreads, NEW S \in SUBSET Objects, NEW places \in [S -> Places], NEW success \in BOOLEAN,
             import_bind(t, places, success)
      PROVE  ParkInv'
  <2>1. UNCHANGED <<active, building, before>>
    BY <1>5 DEF import_bind
  <2>2. CASE success
    <3>1. PICK updates \in SUBSET (S \X (1 .. MaxBlocks)) :
             out' = Packets(import_select_thread(out, t), t, 1 + Cardinality(updates))
      BY <1>5, <2>2 DEF import_bind
    <3>2. IsFiniteSet(S \X (1 .. MaxBlocks))
      <4>1. IsFiniteSet(S) /\ IsFiniteSet(1 .. MaxBlocks)
        BY ImportAssumption, FS_Subset, FS_Interval DEF Objects
      <4> QED
        BY <4>1, FS_Product
    <3>3. IsFiniteSet(updates)
      BY <3>2, FS_Subset
    <3>4. 1 + Cardinality(updates) \in Nat
      BY <3>3, FS_CardinalityType
    <3> QED
      BY <2>1, <3>1, <3>4, ThreadStep
  <2>3. CASE ~success
    BY <1>5, <2>1, <2>3, ThreadStep DEF import_bind
  <2> QED
    BY <2>2, <2>3
<1>6. ASSUME NEW t \in GfxrThreads, NEW o \in Objects, trace_destroy(t, o) PROVE ParkInv'
  BY <1>6, ThreadStep DEF trace_destroy
<1>7. ASSUME NEW t \in GfxrThreads, NEW o \in Objects, NEW size \in InitSizes, import_buffer_initialization(t, o, size)
      PROVE  ParkInv'
  BY <1>7, ThreadStep DEF import_buffer_initialization
<1>8. ASSUME NEW t \in GfxrThreads, NEW o \in Objects, import_image_initialization(t, o) PROVE ParkInv'
  BY <1>8, ThreadStep DEF import_image_initialization
<1>9. ASSUME NEW t \in GfxrThreads, import_resource_initialization_begin(t) PROVE ParkInv'
  BY <1>9, SelectStep DEF import_resource_initialization_begin
<1>10. ASSUME NEW t \in GfxrThreads, import_resource_initialization_end(t) PROVE ParkInv'
  <2>1. PICK v : v = import_select_thread(out, t)
    OBVIOUS
  <2>2. out.streams \in Nat /\ before \in Counts
    BY DEF ParkInv, Writers
  <2>3. t \in ImportStreams /\ t # 0 /\ t <= out.streams
    BY <2>2, ImportAssumption DEF GfxrThreads, ImportStreams
  <2>4. v \in Writers /\ Empty(v, v.packets) /\ Empty(v, before) /\ (~active => Parks(v))
    BY <1>0, <2>1, <2>2, <2>3, SelectKeeps
  <2> QED
    BY <1>10, <2>1, <2>4, EndStep DEF import_resource_initialization_end
<1>11. ASSUME NEW o \in Objects, NEW first \in Bytes, NEW number \in InstanceCounts,
              import_acceleration_structures_build(o, first, number)
       PROVE  ParkInv'
  <2>1. PICK v : v = import_threadless_metacommand_begin(out)
    OBVIOUS
  <2>2. PICK k \in Nat : k = IF number > 0 THEN 1 ELSE 0
    OBVIOUS
  <2>3. PICK j \in Nat : j = (IF building THEN 0 ELSE IF QueueKnown THEN 3 ELSE 4) + 1 + 5
    OBVIOUS
  <2>4. PICK w : w = Packets(v, 0, k)
    OBVIOUS
  <2>5. out' = Packets(w, 0, j) /\ Region /\ building' = TRUE
    BY <1>11, <2>1, <2>2, <2>3, <2>4 DEF import_acceleration_structures_build, Submitted
  <2>6. v \in Writers /\ Empty(v, v.packets) /\ v.streams = out.streams /\ WaitsFor(v, before')
    BY <2>1, <2>5, RegionBegins
  <2>7. w \in Writers /\ Empty(w, w.packets) /\ w.streams = out.streams /\ WaitsFor(w, before')
    BY <2>4, <2>5, <2>6, RegionPackets
  <2>8. PICK x : x = Packets(w, 0, j)
    OBVIOUS
  <2>9. x \in Writers /\ Empty(x, x.packets) /\ x.streams = out.streams /\ WaitsFor(x, before')
    BY <2>5, <2>7, <2>8, RegionPackets
  <2> QED
    BY <2>5, <2>8, <2>9, RegionStep
<1>12. ASSUME NEW number \in InstanceCounts, import_acceleration_structures_copy(number) PROVE ParkInv'
  <2>1. PICK v : v = import_threadless_metacommand_begin(out)
    OBVIOUS
  <2>2. PICK j \in Nat : j = (IF building THEN 0 ELSE IF QueueKnown THEN 3 ELSE 4) + number + 5
    BY ImportAssumption
  <2>3. out' = Packets(v, 0, j) /\ Region /\ building' = TRUE
    BY <1>12, <2>1, <2>2 DEF import_acceleration_structures_copy, Submitted
  <2>4. v \in Writers /\ Empty(v, v.packets) /\ v.streams = out.streams /\ WaitsFor(v, before')
    BY <2>1, <2>3, RegionBegins
  <2>5. PICK x : x = Packets(v, 0, j)
    OBVIOUS
  <2>6. x \in Writers /\ Empty(x, x.packets) /\ x.streams = out.streams /\ WaitsFor(x, before')
    BY <2>3, <2>4, <2>5, RegionPackets
  <2> QED
    BY <2>3, <2>5, <2>6, RegionStep
<1>13. CASE import_acceleration_structure_write_properties
  <2>1. PICK v : v = import_threadless_metacommand_begin(out)
    OBVIOUS
  <2>2. out' = v /\ Region /\ building' \in BOOLEAN
    BY <1>13, <2>1 DEF import_acceleration_structure_write_properties, ParkInv
  <2>3. v \in Writers /\ Empty(v, v.packets) /\ v.streams = out.streams /\ WaitsFor(v, before')
    BY <2>1, <2>2, RegionBegins
  <2> QED
    BY <2>2, <2>3, RegionStep
<1>14. CASE FinishImport
  BY <1>0, <1>14, EndStep DEF FinishImport
<1>15. ASSUME NEW t \in GfxrThreads, ImportCall(t) PROVE ParkInv'
  BY <1>15, ThreadStep DEF ImportCall
<1> QED
  BY <1>2, <1>3, <1>4, <1>5, <1>6, <1>7, <1>8, <1>9, <1>10, <1>11, <1>12, <1>13, <1>14, <1>15 DEF GxNext

\* The import orders the commands that belong to no thread against all threads:
\* import_threadless_metacommand_begin makes stream 0 wait for every other stream, and
\* import_threadless_metacommand_end makes every stream wait for stream 0.
THEOREM ImportedInOrder == GxSpec => []ThreadsParked
<1>1. GxSpec => []ParkInv
  BY ParkInitHolds, ParkNextKeeps, PTL DEF GxSpec
<1>2. ParkInv => ThreadsParked
  BY DEF ParkInv, ThreadsParked, Parks, WaitsFor
<1> QED
  BY <1>1, <1>2, PTL


-----------------------------------------------------------------------------
(***************************************************************************)
(* Contents.  A byte of an object is right when it holds the write that    *)
(* was delivered to it; an update that was delivered has also made the     *)
(* allocator clear the object, so that no later one does.                  *)
(***************************************************************************)
Writes == [block : Nat, word : Int, by : {"none", "update", "initialization"}]
KeptUpdates == [span : Spans, block : Nat]
ObjectBytes(o) == 0 .. (Resources[o].size - 1)
Contents(o, r) == /\ r = [bytes |-> r.bytes, first |-> r.first]
                  /\ r.bytes = [i \in ObjectBytes(o) |-> r.bytes[i]]
                  /\ r.first \in Nat

ImportTypes ==
  /\ blocks \in Nat
  /\ fixups \in [DOMAIN Memories -> SUBSET Nat]
  /\ usage \in [Objects -> SUBSET Places]
  /\ since \in [Objects -> Nat]
  /\ hostWrites \in [DOMAIN Memories -> [Bytes -> Writes]]
  /\ retained \in [DOMAIN Memories -> Seq(KeptUpdates)]
  /\ \A o \in Objects : Contents(o, replayed[o])
  /\ replayed = [o \in Objects |-> replayed[o]]

OneFixup == \A m \in DOMAIN Memories : \A f, g \in fixups[m] : f = g

\* Objects are bound inside a memory, each at one place and no two at the same byte.
OnePlace == \A o \in Objects : \A p, q \in usage[o] : p = q
InMemory == \A o \in Objects : \A p \in usage[o] : p.offset + Resources[o].size <= MemorySize
ApartAt(a, s, b, t) == a + s <= b \/ b + t <= a \/ s = 0 \/ t = 0
Apart == \A o, q \in Objects : \A p \in usage[o], r \in usage[q] :
           o # q /\ p.memory = r.memory => ApartAt(p.offset, Resources[o].size, r.offset, Resources[q].size)

\* Writes and kept updates are of the past; kept ones are in order, and what they
\* wrote has been overwritten by later blocks only.
OldWrites ==
  \A m \in DOMAIN Memories : \A j \in Bytes :
    hostWrites[m][j].block <= blocks /\ (hostWrites[m][j].block = 0 <=> hostWrites[m][j].by = "none")
OldKept ==
  \A m \in DOMAIN Memories : \A k \in 1 .. Len(retained[m]) : retained[m][k].block \in 1 .. blocks
KeptInOrder ==
  \A m \in DOMAIN Memories : \A k, l \in 1 .. Len(retained[m]) : k < l => retained[m][k].block < retained[m][l].block
KeptBelow ==
  \A m \in DOMAIN Memories : \A k \in 1 .. Len(retained[m]) : \A j \in Bytes :
    Inside(j, retained[m][k].span) => retained[m][k].block <= hostWrites[m][j].block
KeptSeen ==
  \A m, u \in DOMAIN Memories : \A k \in 1 .. Len(retained[u]) : \A j \in Bytes :
    hostWrites[m][j].block = retained[u][k].block => m = u /\ Inside(j, retained[u][k].span)

Whole(c, offset, o) == c.word >= offset /\ c.word + AddressSize <= offset + Resources[o].size
ByteRight(o, c, offset, i) ==
  /\ c.by = "update" /\ Delivered(o, c) => replayed[o].first > 0
  /\ c.block > 0 /\ Delivered(o, c) /\ (c.by = "initialization" => replayed[o].first <= c.block)
       => replayed[o].bytes[i].block = c.block
  /\ c.block > since[o] /\ c.by = "update"
       => (replayed[o].bytes[i].fixed <=> (Resources[o].buffer /\ c.word # NoWord /\ Whole(c, offset, o)))

BytesRight ==
  \A o \in Objects : \A p \in usage[o] : \A i \in ObjectBytes(o) :
    ByteRight(o, hostWrites[p.memory][p.offset + i], p.offset, i)

ImportInv == /\ ImportTypes /\ OneFixup /\ OnePlace /\ InMemory /\ Apart
             /\ OldWrites /\ OldKept /\ KeptInOrder /\ KeptBelow /\ KeptSeen
             /\ BytesRight


\* The one place of a bound object.
LEMMA PlaceOf ==
  ASSUME ImportInv, NEW o \in Objects, NEW p \in usage[o]
  PROVE  /\ Offset(o) = p.offset /\ p.offset \in Nat /\ p.memory \in DOMAIN Memories
         /\ \A m : Bound(o, m) <=> m = p.memory
         /\ \A i \in ObjectBytes(o) : p.offset + i \in Bytes
         /\ Resources[o].size \in Nat /\ p.offset + Resources[o].size <= MemorySize /\ MemorySize \in Nat
<1>1. p \in Places /\ \A q \in usage[o] : q = p
  BY DEF ImportInv, ImportTypes, OnePlace
<1>2. p.offset \in Nat /\ p.memory \in DOMAIN Memories
  BY <1>1, ImportAssumption
<1>3. (CHOOSE q \in usage[o] : TRUE) \in usage[o]
  OBVIOUS
<1>4. Offset(o) = p.offset
  BY <1>1, <1>3 DEF Offset
<1>5. \A m : Bound(o, m) <=> m = p.memory
  BY <1>1 DEF Bound
<1>6. Resources[o].size \in Nat /\ p.offset + Resources[o].size <= MemorySize /\ MemorySize \in Nat
  BY ImportAssumption DEF ImportInv, InMemory, Objects
<1>7. \A i \in ObjectBytes(o) : p.offset + i \in Bytes
  BY <1>2, <1>6 DEF ObjectBytes, Bytes
<1> QED
  BY <1>2, <1>4, <1>5, <1>6, <1>7

LEMMA ImportInvImplies == ImportInv => ImportedMemory
<1> SUFFICES ASSUME ImportInv PROVE ImportedMemory
  OBVIOUS
<1> SUFFICES ASSUME NEW o \in Objects, NEW m \in DOMAIN Memories, Bound(o, m), NEW i \in DOMAIN replayed[o].bytes
             PROVE  LET c == hostWrites[m][Offset(o) + i]
                        whole == c.word >= Offset(o) /\ c.word + AddressSize <= Offset(o) + Resources[o].size
                    IN /\ (/\ c.block > 0 /\ Delivered(o, c)
                           /\ c.by = "initialization" => replayed[o].first <= c.block)
                             => replayed[o].bytes[i].block = c.block
                       /\ (c.block > since[o] /\ c.by = "update")
                             => (replayed[o].bytes[i].fixed <=> (Resources[o].buffer /\ c.word # NoWord /\ whole))
  BY DEF ImportedMemory, ImportedContents, ImportedAddresses
<1>1. PICK p \in usage[o] : p.memory = m
  BY DEF Bound
<1>2. Offset(o) = p.offset
  BY PlaceOf
<1>3. Contents(o, replayed[o])
  BY DEF ImportInv, ImportTypes
<1>4. i \in ObjectBytes(o)
  BY <1>3 DEF Contents
<1>5. ByteRight(o, hostWrites[m][p.offset + i], p.offset, i)
  BY <1>1, <1>4 DEF ImportInv, BytesRight
<1> QED
  BY <1>2, <1>5 DEF ByteRight, Whole

SpanRecords == [first : Nat, n : Nat]

LEMMA OverlapFacts ==
  ASSUME NEW u \in SpanRecords, NEW s \in SpanRecords
  PROVE  LET v == Overlap(u, s)
         IN /\ v \in SpanRecords
            /\ \A j \in Int : Inside(j, v) <=> Inside(j, u) /\ Inside(j, s)
            /\ \A j \in Int : Inside(j, u) /\ Inside(j, s) => v.n > 0
            /\ v.n > 0 => /\ v.first >= u.first /\ v.first >= s.first
                          /\ v.first = u.first \/ v.first = s.first
                          /\ v.first + v.n <= u.first + u.n /\ v.first + v.n <= s.first + s.n
                          /\ v.first + v.n = u.first + u.n \/ v.first + v.n = s.first + s.n
<1>1. u.first \in Nat /\ u.n \in Nat /\ s.first \in Nat /\ s.n \in Nat
  BY DEF SpanRecords
<1> DEFINE first == IF u.first > s.first THEN u.first ELSE s.first
           last == IF u.first + u.n < s.first + s.n THEN u.first + u.n ELSE s.first + s.n
           n == IF first < last THEN last - first ELSE 0
<1>2. /\ first \in Nat /\ last \in Nat /\ n \in Nat
      /\ first >= u.first /\ first >= s.first /\ (first = u.first \/ first = s.first)
      /\ last <= u.first + u.n /\ last <= s.first + s.n /\ (last = u.first + u.n \/ last = s.first + s.n)
  BY <1>1
<1>3. Overlap(u, s) = [first |-> first, n |-> n]
  BY DEF Overlap
<1>4. n > 0 => first + n = last
  BY <1>2
<1>5. \A j \in Int : (j >= first /\ j < first + n) <=> (/\ j >= u.first /\ j < u.first + u.n
                                                        /\ j >= s.first /\ j < s.first + s.n)
  BY <1>1
<1>6. \A j \in Int : (/\ j >= u.first /\ j < u.first + u.n /\ j >= s.first /\ j < s.first + s.n) => n > 0
  BY <1>1
<1> HIDE DEF first, last, n
<1>7. PICK v : v = Overlap(u, s)
  OBVIOUS
<1>8. v.first = first /\ v.n = n /\ v \in SpanRecords
  BY <1>2, <1>3, <1>7 DEF SpanRecords
<1> QED
  BY <1>2, <1>4, <1>5, <1>6, <1>7, <1>8 DEF Inside

\* The span of an object holds exactly its bytes.
LEMMA ObjectSpanFacts ==
  ASSUME NEW o \in Objects, NEW a \in Nat
  PROVE  /\ ObjectSpan(o, a) \in SpanRecords /\ ObjectSpan(o, a).first = a /\ ObjectSpan(o, a).n = Resources[o].size
         /\ \A i \in ObjectBytes(o) : a + i \in Int /\ Inside(a + i, ObjectSpan(o, a))
<1>1. Resources[o].size \in Nat
  BY ImportAssumption DEF Objects
<1>2. ObjectSpan(o, a) \in SpanRecords /\ ObjectSpan(o, a).first = a /\ ObjectSpan(o, a).n = Resources[o].size
  BY <1>1 DEF ObjectSpan, SpanRecords
<1> QED
  BY <1>1, <1>2 DEF Inside, ObjectBytes

(***************************************************************************)
(* Bytes that a block leaves alone.                                        *)
(***************************************************************************)
Grown == /\ blocks' \in Nat /\ blocks < blocks'
         /\ \A m \in DOMAIN Memories : \A k \in DOMAIN retained'[m] :
              retained'[m][k].block <= blocks => \E l \in DOMAIN retained[m] : retained[m][l].block = retained'[m][k].block

LEMMA DeliveredBefore ==
  ASSUME Grown, NEW o \in Objects, since'[o] = since[o], NEW c, c.block <= blocks, Delivered(o, c)'
  PROVE  Delivered(o, c)
  BY DEF Grown, Delivered

LEMMA ByteStays ==
  ASSUME Grown, NEW o \in Objects, NEW c \in Writes, NEW a, NEW i, ByteRight(o, c, a, i), c.block <= blocks,
         since'[o] = since[o], replayed'[o].bytes[i] = replayed[o].bytes[i], replayed'[o].first = replayed[o].first
  PROVE  ByteRight(o, c, a, i)'
<1>1. Delivered(o, c)' => Delivered(o, c)
  BY DeliveredBefore
<1> QED
  BY <1>1 DEF ByteRight, Whole

\* The first update clears an object, which held nothing that was delivered but
\* initializations.
LEMMA ByteCleared ==
  ASSUME Grown, ImportTypes, NEW o \in Objects, NEW c \in Writes, NEW a, NEW i, ByteRight(o, c, a, i), c.block <= blocks,
         c.block = 0 <=> c.by = "none",
         since'[o] = since[o], replayed[o].first = 0, replayed'[o].first \in Nat, replayed'[o].first > blocks
  PROVE  ByteRight(o, c, a, i)'
<1>1. Delivered(o, c)' => Delivered(o, c)
  BY DeliveredBefore
<1>2. c.block \in Nat /\ c.by \in {"none", "update", "initialization"} /\ blocks \in Nat /\ since[o] \in Nat
  BY DEF Writes, ImportTypes
<1>3. ~(c.by = "update" /\ Delivered(o, c))
  BY DEF ByteRight
<1>4. c.block > since[o] => Delivered(o, c)
  BY DEF Delivered
<1>5. replayed'[o].first > 0 /\ ~(replayed'[o].first <= c.block)
  BY <1>2
<1> QED
  BY <1>1, <1>2, <1>3, <1>4, <1>5 DEF ByteRight

\* What a block that keeps no update has to do.
LEMMA BlockKeeps ==
  ASSUME ImportInv, Grown, ImportTypes', OneFixup', OnePlace', InMemory', Apart', BytesRight',
         retained' = retained,
         \A m \in DOMAIN Memories : \A j \in Bytes :
           \/ hostWrites'[m][j] = hostWrites[m][j]
           \/ hostWrites'[m][j].block = blocks' /\ hostWrites'[m][j].by # "none"
  PROVE  ImportInv'
<1>1. blocks \in Nat /\ blocks' \in Nat /\ blocks < blocks'
  BY DEF Grown, ImportInv, ImportTypes
<1>2. /\ \A m \in DOMAIN Memories : \A j \in Bytes : hostWrites[m][j].block \in Nat /\ hostWrites'[m][j].block \in Nat
      /\ \A m \in DOMAIN Memories : \A k \in 1 .. Len(retained[m]) : retained[m][k].block \in Nat
  <2>1. \A m \in DOMAIN Memories : \A j \in Bytes : hostWrites[m][j] \in Writes /\ hostWrites'[m][j] \in Writes
    BY DEF ImportInv, ImportTypes
  <2>2. \A m \in DOMAIN Memories : \A k \in 1 .. Len(retained[m]) : retained[m][k] \in KeptUpdates
    BY DEF ImportInv, ImportTypes
  <2> QED
    BY <2>1, <2>2 DEF Writes, KeptUpdates
<1>3. OldWrites'
  BY <1>1, <1>2 DEF ImportInv, OldWrites
<1>4. OldKept' /\ KeptInOrder'
  BY <1>1, <1>2 DEF ImportInv, OldKept, KeptInOrder
<1>5. KeptBelow'
  <2> SUFFICES ASSUME NEW m \in DOMAIN Memories, NEW k \in 1 .. Len(retained[m]), NEW j \in Bytes, Inside(j, retained[m][k].span)
               PROVE  retained[m][k].block <= hostWrites'[m][j].block
    BY DEF KeptBelow, Inside
  <2>1. retained[m][k].block <= hostWrites[m][j].block /\ retained[m][k].block <= blocks
    BY DEF ImportInv, KeptBelow, OldKept
  <2> QED
    BY <1>1, <1>2, <2>1
<1>6. KeptSeen'
  <2> SUFFICES ASSUME NEW m \in DOMAIN Memories, NEW u \in DOMAIN Memories, NEW k \in 1 .. Len(retained[u]), NEW j \in Bytes,
                      hostWrites'[m][j].block = retained[u][k].block
               PROVE  m = u /\ Inside(j, retained[u][k].span)
    BY DEF KeptSeen, Inside
  <2>1. retained[u][k].block <= blocks
    BY DEF ImportInv, OldKept
  <2>2. hostWrites'[m][j] = hostWrites[m][j]
    BY <1>1, <1>2, <2>1
  <2> QED
    BY <2>2 DEF ImportInv, KeptSeen
<1> QED
  BY <1>3, <1>4, <1>5, <1>6 DEF ImportInv


LEMMA ByteFacts ==
  ASSUME ImportInv, NEW o \in Objects, NEW p \in usage[o], NEW i \in ObjectBytes(o)
  PROVE  LET c == hostWrites[p.memory][p.offset + i]
         IN /\ c \in Writes /\ c.block \in Nat /\ c.block <= blocks /\ (c.block = 0 <=> c.by = "none")
            /\ ByteRight(o, c, p.offset, i)
<1>1. p.memory \in DOMAIN Memories /\ p.offset + i \in Bytes
  BY PlaceOf
<1>2. hostWrites[p.memory][p.offset + i] \in Writes
  BY <1>1 DEF ImportInv, ImportTypes
<1> QED
  BY <1>1, <1>2 DEF ImportInv, OldWrites, BytesRight, Writes

LEMMA GrownIfNothingKept ==
  ASSUME ImportInv, retained' = retained, blocks' \in Nat, blocks < blocks'
  PROVE  Grown
  BY DEF Grown

LEMMA QuietKeeps ==
  ASSUME ImportInv, blocks' \in Nat, blocks < blocks', UNCHANGED <<usage, retained, replayed, hostWrites, since>>,
         fixups' \in [DOMAIN Memories -> SUBSET Nat], OneFixup'
  PROVE  ImportInv'
<1>1. Grown
  BY GrownIfNothingKept
<1>2. ImportTypes' /\ OnePlace' /\ InMemory' /\ Apart'
  BY DEF ImportInv, ImportTypes, OnePlace, InMemory, Apart
<1>3. BytesRight'
  <2> SUFFICES ASSUME NEW o \in Objects, NEW p \in usage[o], NEW i \in ObjectBytes(o)
               PROVE  ByteRight(o, hostWrites[p.memory][p.offset + i], p.offset, i)'
    BY DEF BytesRight
  <2>1. PICK c : c = hostWrites[p.memory][p.offset + i]
    OBVIOUS
  <2>2. c \in Writes /\ c.block <= blocks /\ ByteRight(o, c, p.offset, i)
    BY <2>1, ByteFacts
  <2>3. ByteRight(o, c, p.offset, i)'
    BY <1>1, <2>2, ByteStays
  <2> QED
    BY <2>1, <2>3
<1> QED
  BY <1>1, <1>2, <1>3, BlockKeeps

LEMMA KeepsDestroy ==
  ASSUME ImportInv, NEW t, NEW o \in Objects, trace_destroy(t, o)
  PROVE  ImportInv'
<1>1. /\ blocks' = blocks + 1 /\ blocks \in Nat /\ usage' = [usage EXCEPT ![o] = {}]
      /\ UNCHANGED <<fixups, retained, replayed, hostWrites, since>>
  BY DEF trace_destroy, Block, ImportInv, ImportTypes
<1>2. Grown
  BY <1>1, GrownIfNothingKept
<1>3. usage' \in [Objects -> SUBSET Places] /\ \A q \in Objects : usage'[q] \subseteq usage[q]
  BY <1>1 DEF ImportInv, ImportTypes
<1>4. ImportTypes' /\ OneFixup'
  BY <1>1, <1>3 DEF ImportInv, ImportTypes, OneFixup
<1>5. OnePlace' /\ InMemory' /\ Apart'
  BY <1>3 DEF ImportInv, OnePlace, InMemory, Apart
<1>6. BytesRight'
  <2> SUFFICES ASSUME NEW q \in Objects, NEW p \in usage'[q], NEW i \in ObjectBytes(q)
               PROVE  ByteRight(q, hostWrites[p.memory][p.offset + i], p.offset, i)'
    BY DEF BytesRight
  <2>0. p \in usage[q]
    BY <1>3
  <2>1. PICK c : c = hostWrites[p.memory][p.offset + i]
    OBVIOUS
  <2>2. c \in Writes /\ c.block <= blocks /\ ByteRight(q, c, p.offset, i)
    BY <2>0, <2>1, ByteFacts
  <2>3. ByteRight(q, c, p.offset, i)'
    BY <1>1, <1>2, <2>2, ByteStays
  <2> QED
    BY <1>1, <2>1, <2>3
<1> QED
  BY <1>1, <1>2, <1>4, <1>5, <1>6, BlockKeeps

\* Where a block writes part of one object, no other object has its bytes.
LEMMA OtherBytes ==
  ASSUME ImportInv, NEW o \in Objects, NEW p \in usage[o], NEW q \in Objects, q # o, NEW r \in usage[q],
         r.memory = p.memory, NEW i \in ObjectBytes(q), NEW part \in SpanRecords,
         part.first >= p.offset, part.first + part.n <= p.offset + Resources[o].size
  PROVE  ~Inside(r.offset + i, part)
<1>1. p.offset \in Nat /\ r.offset \in Nat /\ Resources[o].size \in Nat /\ Resources[q].size \in Nat
  BY PlaceOf
<1>2. part.first \in Nat /\ part.n \in Nat /\ i \in Nat /\ i < Resources[q].size
  BY <1>1 DEF SpanRecords, ObjectBytes
<1>3. ApartAt(p.offset, Resources[o].size, r.offset, Resources[q].size)
  BY DEF ImportInv, Apart
<1> QED
  BY <1>1, <1>2, <1>3 DEF ApartAt, Inside

LEMMA RecordTypes ==
  /\ \A a, b \in Nat : [first |-> a, n |-> b] \in SpanRecords
  /\ \A a \in Nat, b \in Int, c \in {"none", "update", "initialization"} :
       /\ [block |-> a, word |-> b, by |-> c] \in Writes
       /\ [block |-> a, by |-> c, word |-> b] = [block |-> a, word |-> b, by |-> c]
  /\ NoWord \in Int /\ NoWord < 0
<1>1. \A a, b \in Nat : [first |-> a, n |-> b] \in SpanRecords
  BY DEF SpanRecords
<1>2. \A a \in Nat, b \in Int, c \in {"none", "update", "initialization"} :
        [block |-> a, word |-> b, by |-> c] \in Writes
  BY DEF Writes
<1>3. \A a, b, c : [block |-> a, by |-> c, word |-> b] = [block |-> a, word |-> b, by |-> c]
  OBVIOUS
<1>4. NoWord \in Int /\ NoWord < 0
  BY DEF NoWord
<1> QED
  BY <1>1, <1>2, <1>3, <1>4

\* An initialization sets the first bytes of an object and of the memory under it.
LEMMA InitializationKeeps ==
  ASSUME ImportInv, blocks' = blocks + 1, NEW o \in Objects, usage[o] # {}, NEW size \in Nat, size <= Resources[o].size,
         replayed' = [replayed EXCEPT ![o] = initialize_buffer_packet(@, blocks + 1, size)],
         hostWrites' = CapturedInitialization(o, blocks + 1, size),
         UNCHANGED <<fixups, usage, retained, since>>
  PROVE  ImportInv'
<1>1. blocks \in Nat /\ blocks' \in Nat /\ blocks < blocks' /\ blocks' > 0
  BY DEF ImportInv, ImportTypes
<1>2. Grown
  BY <1>1, GrownIfNothingKept
<1>3. PICK p : p \in usage[o]
  OBVIOUS
<1>4. /\ Offset(o) = p.offset /\ p.offset \in Nat /\ p.memory \in DOMAIN Memories
      /\ \A m : Bound(o, m) <=> m = p.memory
      /\ Resources[o].size \in Nat
  BY <1>3, PlaceOf
<1>5. PICK part \in SpanRecords : part = [first |-> p.offset, n |-> size] /\ part.first = p.offset /\ part.n = size
  BY <1>4, RecordTypes
<1>6. PICK w \in Writes : w = [block |-> blocks', word |-> NoWord, by |-> "initialization"]
  BY <1>1, RecordTypes
<1>7. w.block = blocks' /\ w.by = "initialization"
  BY <1>6
<1>8. \A m \in DOMAIN Memories : \A j \in Bytes :
        hostWrites'[m][j] = IF m = p.memory /\ Inside(j, part) THEN w ELSE hostWrites[m][j]
  BY <1>4, <1>5, <1>6 DEF CapturedInitialization
<1>9. hostWrites' \in [DOMAIN Memories -> [Bytes -> Writes]]
  <2>1. hostWrites' = [m \in DOMAIN Memories |-> [j \in Bytes |->
                         IF m = p.memory /\ Inside(j, part) THEN w ELSE hostWrites[m][j]]]
    BY <1>4, <1>5, <1>6 DEF CapturedInitialization
  <2>2. hostWrites \in [DOMAIN Memories -> [Bytes -> Writes]]
    BY DEF ImportInv, ImportTypes
  <2>3. \A m \in DOMAIN Memories, j \in Bytes :
          (IF m = p.memory /\ Inside(j, part) THEN w ELSE hostWrites[m][j]) \in Writes
    BY <2>2
  <2> QED
    BY <2>1, <2>3
<1>10. Contents(o, replayed[o])
  BY DEF ImportInv, ImportTypes
<1>11. PICK b : b = [i \in ObjectBytes(o) |-> IF i < size THEN Cell(blocks + 1, FALSE) ELSE replayed[o].bytes[i]]
  OBVIOUS
<1>12. Cell(blocks + 1, FALSE).block = blocks'
  BY DEF Cell
<1>13. DOMAIN replayed[o].bytes = ObjectBytes(o)
  BY <1>10 DEF Contents
<1>14. initialize_buffer_packet(replayed[o], blocks + 1, size) = [replayed[o] EXCEPT !.bytes = b]
  BY <1>11, <1>13 DEF initialize_buffer_packet
<1>15. PICK new : new = [replayed[o] EXCEPT !.bytes = b]
  OBVIOUS
<1>16. new = [bytes |-> b, first |-> replayed[o].first] /\ new.bytes = b /\ new.first = replayed[o].first
  BY <1>10, <1>15 DEF Contents
<1>161. Contents(o, new)
  BY <1>10, <1>11, <1>16 DEF Contents
<1>17. /\ replayed' = [replayed EXCEPT ![o] = new]
       /\ \A q \in Objects : replayed'[q] = IF q = o THEN new ELSE replayed[q]
  BY <1>14, <1>15 DEF ImportInv, ImportTypes
<1>18. \A q \in Objects : Contents(q, replayed'[q])
  BY <1>161, <1>17 DEF ImportInv, ImportTypes
<1>19. replayed' = [q \in Objects |-> replayed'[q]]
  BY <1>17 DEF ImportInv, ImportTypes
<1>20. ImportTypes'
  BY <1>1, <1>9, <1>18, <1>19 DEF ImportInv, ImportTypes
<1>21. OneFixup' /\ OnePlace' /\ InMemory' /\ Apart'
  BY DEF ImportInv, OneFixup, OnePlace, InMemory, Apart
<1>22. BytesRight'
  <2> SUFFICES ASSUME NEW q \in Objects, NEW r \in usage[q], NEW i \in ObjectBytes(q)
               PROVE  ByteRight(q, hostWrites[r.memory][r.offset + i], r.offset, i)'
    BY DEF BytesRight
  <2>1. r.memory \in DOMAIN Memories /\ r.offset + i \in Bytes /\ r.offset \in Nat /\ Resources[q].size \in Nat
    BY PlaceOf
  <2>2. PICK c : c = hostWrites[r.memory][r.offset + i]
    OBVIOUS
  <2>3. c \in Writes /\ c.block <= blocks /\ ByteRight(q, c, r.offset, i)
    BY <2>2, ByteFacts
  <2>4. CASE q = o /\ i < size
    <3>1. r = p
      BY <1>3, <2>4 DEF ImportInv, OnePlace
    <3>2. Inside(r.offset + i, part)
      BY <1>4, <1>5, <2>4, <3>1 DEF Inside, ObjectBytes
    <3>3. hostWrites'[r.memory][r.offset + i] = w
      BY <1>8, <2>1, <3>1, <3>2
    <3>4. replayed'[q].bytes[i].block = w.block
      <4>1. b[i] = Cell(blocks + 1, FALSE)
        BY <1>11, <2>4
      <4>2. replayed'[q].bytes = b
        BY <1>16, <1>17, <2>4
      <4> QED
        BY <1>7, <1>12, <4>1, <4>2
    <3>5. ByteRight(q, w, r.offset, i)'
      BY <1>7, <3>4 DEF ByteRight
    <3> QED
      BY <3>3, <3>5
  <2>5. CASE ~(q = o /\ i < size)
    <3>1. ~(r.memory = p.memory /\ Inside(r.offset + i, part))
      <4>1. CASE q = o
        <5>1. r = p
          BY <1>3, <4>1 DEF ImportInv, OnePlace
        <5> QED
          BY <1>4, <1>5, <2>5, <4>1, <5>1 DEF Inside, ObjectBytes
      <4>2. CASE q # o
        BY <1>3, <1>4, <1>5, <4>2, OtherBytes
      <4> QED
        BY <4>1, <4>2
    <3>2. hostWrites'[r.memory][r.offset + i] = c
      BY <1>8, <2>1, <2>2, <3>1
    <3>3. replayed'[q].bytes[i] = replayed[q].bytes[i] /\ replayed'[q].first = replayed[q].first
      <4>1. CASE q = o
        <5>1. b[i] = replayed[o].bytes[i]
          BY <1>11, <2>5, <4>1
        <5> QED
          BY <1>16, <1>17, <4>1, <5>1
      <4>2. CASE q # o
        BY <1>17, <4>2
      <4> QED
        BY <4>1, <4>2
    <3>4. ByteRight(q, c, r.offset, i)'
      BY <1>2, <2>3, <3>3, ByteStays
    <3> QED
      BY <3>2, <3>4
  <2> QED
    BY <2>4, <2>5
<1>23. \A m \in DOMAIN Memories : \A j \in Bytes :
           \/ hostWrites'[m][j] = hostWrites[m][j]
           \/ hostWrites'[m][j].block = blocks' /\ hostWrites'[m][j].by # "none"
  BY <1>7, <1>8
<1> QED
  BY <1>2, <1>20, <1>21, <1>22, <1>23, BlockKeeps

LEMMA KeepsBufferInitialization ==
  ASSUME ImportInv, NEW t, NEW o \in Objects, NEW size \in InitSizes, import_buffer_initialization(t, o, size)
  PROVE  ImportInv'
<1>1. size \in Nat /\ usage[o] # {} /\ size <= Resources[o].size /\ blocks' = blocks + 1
  BY ImportAssumption DEF import_buffer_initialization, Block
<1>2. /\ replayed' = [replayed EXCEPT ![o] = initialize_buffer_packet(@, blocks + 1, size)]
      /\ hostWrites' = CapturedInitialization(o, blocks + 1, size)
      /\ UNCHANGED <<fixups, usage, retained, since>>
  BY DEF import_buffer_initialization
<1> QED
  BY <1>1, <1>2, InitializationKeeps

LEMMA KeepsImageInitialization ==
  ASSUME ImportInv, NEW t, NEW o \in Objects, import_image_initialization(t, o)
  PROVE  ImportInv'
<1>1. usage[o] # {} /\ blocks' = blocks + 1 /\ Resources[o].size \in Nat /\ Resources[o].size <= Resources[o].size
  BY ImportAssumption DEF import_image_initialization, Block, Objects
<1>2. /\ replayed' = [replayed EXCEPT ![o] = initialize_image_packet(@, blocks + 1)]
      /\ hostWrites' = CapturedInitialization(o, blocks + 1, Resources[o].size)
      /\ UNCHANGED <<fixups, usage, retained, since>>
  BY DEF import_image_initialization
<1>3. DOMAIN replayed[o].bytes = ObjectBytes(o)
  BY DEF ImportInv, ImportTypes, Contents
<1>4. \A i \in ObjectBytes(o) : i < Resources[o].size
  BY <1>1 DEF ObjectBytes
<1>5. [i \in ObjectBytes(o) |-> Cell(blocks + 1, FALSE)]
        = [i \in ObjectBytes(o) |-> IF i < Resources[o].size THEN Cell(blocks + 1, FALSE) ELSE replayed[o].bytes[i]]
  BY <1>4
<1>6. initialize_image_packet(replayed[o], blocks + 1) = initialize_buffer_packet(replayed[o], blocks + 1, Resources[o].size)
  BY <1>3, <1>5 DEF initialize_image_packet, initialize_buffer_packet
<1> QED
  BY <1>1, <1>2, <1>6, InitializationKeeps

(***************************************************************************)
(* Updates.                                                                *)
(***************************************************************************)
LEMMA PatchedFacts ==
  ASSUME NEW o \in Objects, NEW object, Contents(o, object), NEW a, NEW part, NEW n \in Nat, n > 0, NEW words,
         NEW new, new = Patched(object, a, part, n, words)
  PROVE  /\ Contents(o, new) /\ new.first > 0
         /\ new.first = IF object.first = 0 THEN n ELSE object.first
         /\ \A i \in ObjectBytes(o) :
              /\ Inside(a + i, part) => new.bytes[i].block = n /\ (new.bytes[i].fixed <=> InWord(a + i, words))
              /\ ~Inside(a + i, part) /\ object.first # 0 => new.bytes[i] = object.bytes[i]
<1>1. DOMAIN object.bytes = ObjectBytes(o) /\ object.first \in Nat
  BY DEF Contents
<1>2. PICK b : b = [i \in ObjectBytes(o) |->
                      IF Inside(a + i, part) THEN Cell(n, InWord(a + i, words))
                      ELSE IF object.first = 0 THEN Cell(0, FALSE) ELSE object.bytes[i]]
  OBVIOUS
<1>3. PICK f : f = IF object.first = 0 THEN n ELSE object.first
  OBVIOUS
<1>5. new = [bytes |-> b, first |-> f]
  BY <1>1, <1>2, <1>3 DEF Patched
<1>6. new.bytes = b /\ new.first = f /\ f \in Nat /\ f > 0
  BY <1>1, <1>3, <1>5
<1>7. Contents(o, new)
  BY <1>2, <1>5, <1>6 DEF Contents
<1>8. ASSUME NEW i \in ObjectBytes(o)
      PROVE  /\ Inside(a + i, part) => b[i].block = n /\ (b[i].fixed <=> InWord(a + i, words))
             /\ ~Inside(a + i, part) /\ object.first # 0 => b[i] = object.bytes[i]
  <2>1. Inside(a + i, part) => b[i] = Cell(n, InWord(a + i, words))
    BY <1>2
  <2>2. Cell(n, InWord(a + i, words)).block = n /\ Cell(n, InWord(a + i, words)).fixed = InWord(a + i, words)
    BY DEF Cell
  <2>3. ~Inside(a + i, part) /\ object.first # 0 => b[i] = object.bytes[i]
    BY <1>2
  <2> QED
    BY <2>1, <2>2, <2>3
<1> QED
  BY <1>3, <1>6, <1>7, <1>8

\* The address that byte j of an update belongs to, if any.
UpdateWord(j, words) == IF InWord(j, words) THEN CHOOSE f \in words : j \in f .. (f + AddressSize - 1) ELSE NoWord

LEMMA UpdateWordFacts ==
  ASSUME NEW j, NEW words \in SUBSET Nat
  PROVE  /\ UpdateWord(j, words) \in Int
         /\ UpdateWord(j, words) # NoWord <=> InWord(j, words)
         /\ InWord(j, words) => /\ UpdateWord(j, words) \in words
                                /\ j \in UpdateWord(j, words) .. (UpdateWord(j, words) + AddressSize - 1)
<1>1. CASE InWord(j, words)
  <2>1. \E f \in words : j \in f .. (f + AddressSize - 1)
    BY <1>1 DEF InWord
  <2>2. PICK g : g = CHOOSE f \in words : j \in f .. (f + AddressSize - 1)
    OBVIOUS
  <2>3. g \in words /\ j \in g .. (g + AddressSize - 1)
    BY <2>1, <2>2
  <2>4. UpdateWord(j, words) = g
    BY <1>1, <2>2 DEF UpdateWord
  <2>5. g \in Nat /\ g # NoWord
    BY <2>3, RecordTypes
  <2> QED
    BY <1>1, <2>3, <2>4, <2>5
<1>2. CASE ~InWord(j, words)
  BY <1>2, RecordTypes DEF UpdateWord
<1> QED
  BY <1>1, <1>2

\* What an update writes to a memory.
Overwritten(m, span, words, n) ==
  [u \in DOMAIN Memories |-> [j \in Bytes |->
     IF u = m /\ Inside(j, span) THEN [block |-> n, word |-> UpdateWord(j, words), by |-> "update"] ELSE hostWrites[u][j]]]

IsOverwritten(h, m, span, words, n) ==
  /\ h \in [DOMAIN Memories -> [Bytes -> Writes]]
  /\ \A u \in DOMAIN Memories, j \in Bytes :
        IF u = m /\ Inside(j, span)
        THEN h[u][j].block = n /\ h[u][j].word = UpdateWord(j, words) /\ h[u][j].by = "update"
        ELSE h[u][j] = hostWrites[u][j]

LEMMA OverwrittenFacts ==
  ASSUME ImportTypes, NEW m, NEW span, NEW words \in SUBSET Nat, NEW n \in Nat,
         NEW h, h = Overwritten(m, span, words, n)
  PROVE  IsOverwritten(h, m, span, words, n)
<1>1. PICK W : W = [j \in Bytes |-> [block |-> n, word |-> UpdateWord(j, words), by |-> "update"]]
  OBVIOUS
<1>2. \A j \in Bytes : W[j] \in Writes /\ W[j].block = n /\ W[j].word = UpdateWord(j, words) /\ W[j].by = "update"
  <2> SUFFICES ASSUME NEW j \in Bytes
               PROVE  W[j] \in Writes /\ W[j].block = n /\ W[j].word = UpdateWord(j, words) /\ W[j].by = "update"
    OBVIOUS
  <2>1. UpdateWord(j, words) \in Int
    BY UpdateWordFacts
  <2>2. W[j] = [block |-> n, word |-> UpdateWord(j, words), by |-> "update"]
    BY <1>1
  <2>3. W[j] \in Writes
    BY <2>1, <2>2, RecordTypes
  <2> QED
    BY <2>2, <2>3
<1>4. h = [u \in DOMAIN Memories |-> [j \in Bytes |-> IF u = m /\ Inside(j, span) THEN W[j] ELSE hostWrites[u][j]]]
  BY <1>1 DEF Overwritten
<1>5. hostWrites \in [DOMAIN Memories -> [Bytes -> Writes]]
  BY DEF ImportTypes
<1>6. \A u \in DOMAIN Memories, j \in Bytes : (IF u = m /\ Inside(j, span) THEN W[j] ELSE hostWrites[u][j]) \in Writes
  BY <1>2, <1>5
<1>7. h \in [DOMAIN Memories -> [Bytes -> Writes]]
  BY <1>4, <1>6
<1>8. \A u \in DOMAIN Memories, j \in Bytes : h[u][j] = IF u = m /\ Inside(j, span) THEN W[j] ELSE hostWrites[u][j]
  BY <1>4
<1> QED
  BY <1>2, <1>7, <1>8 DEF IsOverwritten

\* An update reaches the objects that have its bytes, and marks in them the addresses
\* that lie in them as a whole.
Reached(m, span, words, q, r) ==
  \/ /\ replayed'[q] = replayed[q]
     /\ r.memory = m => \A i \in ObjectBytes(q) : ~Inside(r.offset + i, span)
  \/ /\ r.memory = m
     /\ \E part, w :
          /\ replayed'[q] = Patched(replayed[q], r.offset, part, blocks', w)
          /\ \A i \in ObjectBytes(q) :
               /\ Inside(r.offset + i, part) <=> Inside(r.offset + i, span)
               /\ Inside(r.offset + i, part)
                    => (InWord(r.offset + i, w)
                          <=> /\ Resources[q].buffer /\ UpdateWord(r.offset + i, words) # NoWord
                              /\ UpdateWord(r.offset + i, words) >= r.offset
                              /\ UpdateWord(r.offset + i, words) + AddressSize <= r.offset + Resources[q].size)

LEMMA UpdatedBytes ==
  ASSUME ImportInv, Grown, blocks' = blocks + 1, NEW m \in DOMAIN Memories, NEW span, NEW words \in SUBSET Nat,
         hostWrites' = Overwritten(m, span, words, blocks'),
         UNCHANGED <<usage, since>>,
         \A q \in Objects : \A r \in usage[q] : Reached(m, span, words, q, r)
  PROVE  BytesRight'
<1> SUFFICES ASSUME NEW q \in Objects, NEW r \in usage[q], NEW i \in ObjectBytes(q)
             PROVE  ByteRight(q, hostWrites[r.memory][r.offset + i], r.offset, i)'
  BY DEF BytesRight
<1>1. blocks \in Nat /\ blocks' \in Nat /\ blocks < blocks' /\ blocks' > 0 /\ ImportTypes /\ Contents(q, replayed[q])
  BY DEF ImportInv, ImportTypes
<1>2. r.memory \in DOMAIN Memories /\ r.offset + i \in Bytes /\ r.offset \in Nat /\ Resources[q].size \in Nat
  BY PlaceOf
<1>3. PICK c : c = hostWrites[r.memory][r.offset + i]
  OBVIOUS
<1>4. c \in Writes /\ c.block <= blocks /\ ByteRight(q, c, r.offset, i) /\ (c.block = 0 <=> c.by = "none")
  BY <1>3, ByteFacts
<1>5. PICK d : d = hostWrites'[r.memory][r.offset + i]
  OBVIOUS
<1>6. IF r.memory = m /\ Inside(r.offset + i, span)
      THEN d.block = blocks' /\ d.word = UpdateWord(r.offset + i, words) /\ d.by = "update"
      ELSE d = c
  <2>1. IsOverwritten(hostWrites', m, span, words, blocks')
    BY <1>1, OverwrittenFacts
  <2> QED
    BY <1>2, <1>3, <1>5, <2>1 DEF IsOverwritten
<1>7. CASE /\ replayed'[q] = replayed[q]
           /\ r.memory = m => \A k \in ObjectBytes(q) : ~Inside(r.offset + k, span)
  <2>1. d = c
    BY <1>6, <1>7
  <2>2. ByteRight(q, c, r.offset, i)'
    BY <1>4, <1>7, ByteStays
  <2> QED
    BY <1>5, <2>1, <2>2
<1>8. ASSUME r.memory = m, NEW part, NEW w,
             replayed'[q] = Patched(replayed[q], r.offset, part, blocks', w),
             Inside(r.offset + i, part) <=> Inside(r.offset + i, span),
             Inside(r.offset + i, part)
                    => (InWord(r.offset + i, w)
                          <=> /\ Resources[q].buffer /\ UpdateWord(r.offset + i, words) # NoWord
                              /\ UpdateWord(r.offset + i, words) >= r.offset
                              /\ UpdateWord(r.offset + i, words) + AddressSize <= r.offset + Resources[q].size)
      PROVE  ByteRight(q, d, r.offset, i)'
  <2>1. /\ Contents(q, replayed'[q]) /\ replayed'[q].first > 0
        /\ replayed'[q].first = IF replayed[q].first = 0 THEN blocks' ELSE replayed[q].first
        /\ Inside(r.offset + i, part)
             => replayed'[q].bytes[i].block = blocks' /\ (replayed'[q].bytes[i].fixed <=> InWord(r.offset + i, w))
        /\ ~Inside(r.offset + i, part) /\ replayed[q].first # 0 => replayed'[q].bytes[i] = replayed[q].bytes[i]
    <3>1. PICK new : new = replayed'[q] /\ new = Patched(replayed[q], r.offset, part, blocks', w)
      BY <1>8
    <3>2. /\ Contents(q, new) /\ new.first > 0
          /\ new.first = IF replayed[q].first = 0 THEN blocks' ELSE replayed[q].first
          /\ \A j \in ObjectBytes(q) :
               /\ Inside(r.offset + j, part)
                    => new.bytes[j].block = blocks' /\ (new.bytes[j].fixed <=> InWord(r.offset + j, w))
               /\ ~Inside(r.offset + j, part) /\ replayed[q].first # 0 => new.bytes[j] = replayed[q].bytes[j]
      BY <1>1, <3>1, PatchedFacts
    <3> QED
      BY <3>1, <3>2
  <2>2. CASE Inside(r.offset + i, part)
    <3>1. d.block = blocks' /\ d.word = UpdateWord(r.offset + i, words) /\ d.by = "update"
      BY <1>6, <1>8, <2>2
    <3>2. Whole(d, r.offset, q)
            <=> (d.word >= r.offset /\ d.word + AddressSize <= r.offset + Resources[q].size)
      BY DEF Whole
    <3>3. replayed'[q].bytes[i].fixed <=> Resources[q].buffer /\ d.word # NoWord /\ Whole(d, r.offset, q)
      BY <1>8, <2>1, <2>2, <3>1, <3>2
    <3> QED
      BY <2>1, <2>2, <3>1, <3>3 DEF ByteRight, Whole
  <2>3. CASE ~Inside(r.offset + i, part) /\ replayed[q].first # 0
    <3>1. ByteRight(q, c, r.offset, i)'
      BY <1>4, <2>1, <2>3, ByteStays
    <3> QED
      BY <1>6, <1>8, <2>3, <3>1
  <2>4. CASE ~Inside(r.offset + i, part) /\ replayed[q].first = 0
    <3>1. ByteRight(q, c, r.offset, i)'
      BY <1>1, <1>4, <2>1, <2>4, ByteCleared
    <3> QED
      BY <1>6, <1>8, <2>4, <3>1
  <2> QED
    BY <2>2, <2>3, <2>4
<1>9. Reached(m, span, words, q, r)
  OBVIOUS
<1>10. CASE /\ r.memory = m
     /\ \E part, w :
          /\ replayed'[q] = Patched(replayed[q], r.offset, part, blocks', w)
          /\ \A k \in ObjectBytes(q) :
               /\ Inside(r.offset + k, part) <=> Inside(r.offset + k, span)
               /\ Inside(r.offset + k, part)
                    => (InWord(r.offset + k, w)
                          <=> /\ Resources[q].buffer /\ UpdateWord(r.offset + k, words) # NoWord
                              /\ UpdateWord(r.offset + k, words) >= r.offset
                              /\ UpdateWord(r.offset + k, words) + AddressSize <= r.offset + Resources[q].size)
  BY <1>5, <1>8, <1>10
<1> QED
  BY <1>7, <1>9, <1>10 DEF Reached

\* An update that found nothing bound is kept.
LEMMA KeptLater ==
  ASSUME ImportInv, blocks' = blocks + 1, NEW m \in DOMAIN Memories, NEW span \in Spans,
         hostWrites' \in [DOMAIN Memories -> [Bytes -> Writes]],
         \A u \in DOMAIN Memories, j \in Bytes :
           IF u = m /\ Inside(j, span)
           THEN hostWrites'[u][j].block = blocks' /\ hostWrites'[u][j].by = "update"
           ELSE hostWrites'[u][j] = hostWrites[u][j],
         retained' = [retained EXCEPT ![m] = Append(@, [span |-> span, block |-> blocks'])]
  PROVE  /\ retained' \in [DOMAIN Memories -> Seq(KeptUpdates)]
         /\ Grown /\ OldWrites' /\ OldKept' /\ KeptInOrder' /\ KeptBelow' /\ KeptSeen'
<1>1. blocks \in Nat /\ blocks' \in Nat /\ blocks < blocks' /\ blocks' > 0 /\ ImportTypes
  BY DEF ImportInv, ImportTypes
<1>2. PICK new : new = [span |-> span, block |-> blocks']
  OBVIOUS
<1>3. new \in KeptUpdates /\ new.span = span /\ new.block = blocks'
  BY <1>1, <1>2 DEF KeptUpdates
<1>4. retained \in [DOMAIN Memories -> Seq(KeptUpdates)]
  BY DEF ImportInv, ImportTypes
<1>5. PICK N : N = [u \in DOMAIN Memories |-> Len(retained[u])]
  OBVIOUS
<1>6. \A u \in DOMAIN Memories : N[u] = Len(retained[u]) /\ N[u] \in Nat /\ DOMAIN retained[u] = 1 .. N[u]
  BY <1>4, <1>5
<1>7. /\ retained' \in [DOMAIN Memories -> Seq(KeptUpdates)]
      /\ \A u \in DOMAIN Memories : u # m => retained'[u] = retained[u]
      /\ retained'[m] = Append(retained[m], new)
  BY <1>2, <1>3, <1>4
<1>8. /\ Len(retained'[m]) = N[m] + 1 /\ retained'[m][N[m] + 1] = new
      /\ \A k \in 1 .. N[m] : retained'[m][k] = retained[m][k]
  BY <1>3, <1>4, <1>6, <1>7
<1>9. \A u \in DOMAIN Memories : \A k \in 1 .. Len(retained'[u]) :
        \/ k \in 1 .. N[u] /\ retained'[u][k] = retained[u][k]
        \/ u = m /\ k = N[m] + 1 /\ retained'[u][k] = new
  BY <1>6, <1>7, <1>8
<1>10. \A u \in DOMAIN Memories : \A k \in 1 .. N[u] : retained[u][k].block \in Nat /\ retained[u][k].block \in 1 .. blocks
  <2>1. \A u \in DOMAIN Memories : \A k \in 1 .. N[u] : retained[u][k] \in KeptUpdates
    BY <1>4, <1>6
  <2> QED
    BY <1>6, <2>1 DEF KeptUpdates, ImportInv, OldKept
<1>11. \A u \in DOMAIN Memories : DOMAIN retained'[u] = 1 .. Len(retained'[u])
  BY <1>7
<1>12. Grown
  BY <1>1, <1>3, <1>6, <1>9, <1>11 DEF Grown
<1>13. hostWrites' \in [DOMAIN Memories -> [Bytes -> Writes]] /\ hostWrites \in [DOMAIN Memories -> [Bytes -> Writes]]
  BY <1>1 DEF ImportTypes
<1>14. ASSUME NEW u \in DOMAIN Memories, NEW j \in Bytes
       PROVE  IF u = m /\ Inside(j, span)
              THEN hostWrites'[u][j].block = blocks' /\ hostWrites'[u][j].by = "update"
              ELSE hostWrites'[u][j] = hostWrites[u][j]
  OBVIOUS
<1>15. \A u \in DOMAIN Memories, j \in Bytes : hostWrites[u][j].block \in Nat /\ hostWrites'[u][j].block \in Nat /\ hostWrites[u][j].block <= blocks
  BY <1>13 DEF Writes, ImportInv, OldWrites
<1>16. OldWrites'
  BY <1>1, <1>14, <1>15 DEF ImportInv, OldWrites
<1>17. OldKept'
  BY <1>1, <1>3, <1>9, <1>10 DEF OldKept
<1>18. KeptInOrder'
  <2> SUFFICES ASSUME NEW u \in DOMAIN Memories, NEW k \in 1 .. Len(retained'[u]), NEW l \in 1 .. Len(retained'[u]), k < l
               PROVE  retained'[u][k].block < retained'[u][l].block
    BY DEF KeptInOrder
  <2>1. k \in 1 .. N[u] /\ retained'[u][k] = retained[u][k]
    BY <1>6, <1>7, <1>8, <1>9
  <2>2. CASE l \in 1 .. N[u] /\ retained'[u][l] = retained[u][l]
    BY <1>6, <2>1, <2>2 DEF ImportInv, KeptInOrder
  <2>3. CASE retained'[u][l] = new
    BY <1>1, <1>3, <1>10, <2>1, <2>3
  <2> QED
    BY <1>9, <2>2, <2>3
<1>19. KeptBelow'
  <2> SUFFICES ASSUME NEW u \in DOMAIN Memories, NEW k \in 1 .. Len(retained'[u]), NEW j \in Bytes, Inside(j, retained'[u][k].span)
               PROVE  retained'[u][k].block <= hostWrites'[u][j].block
    BY DEF KeptBelow, Inside
  <2>1. CASE k \in 1 .. N[u] /\ retained'[u][k] = retained[u][k]
    <3>1. retained[u][k].block <= hostWrites[u][j].block
      BY <1>6, <2>1 DEF ImportInv, KeptBelow
    <3> QED
      BY <1>1, <1>10, <1>14, <1>15, <2>1, <3>1
  <2>2. CASE u = m /\ retained'[u][k] = new
    BY <1>1, <1>3, <1>14, <2>2
  <2> QED
    BY <1>9, <2>1, <2>2
<1>20. KeptSeen'
  <2> SUFFICES ASSUME NEW v \in DOMAIN Memories, NEW u \in DOMAIN Memories, NEW k \in 1 .. Len(retained'[u]), NEW j \in Bytes,
                      hostWrites'[v][j].block = retained'[u][k].block
               PROVE  v = u /\ Inside(j, retained'[u][k].span)
    BY DEF KeptSeen, Inside
  <2>1. CASE k \in 1 .. N[u] /\ retained'[u][k] = retained[u][k]
    <3>1. hostWrites'[v][j] = hostWrites[v][j]
      BY <1>1, <1>10, <1>14, <2>1
    <3> QED
      BY <1>6, <2>1, <3>1 DEF ImportInv, KeptSeen
  <2>2. CASE u = m /\ retained'[u][k] = new
    <3>1. hostWrites'[v][j].block = blocks'
      BY <1>3, <2>2
    <3>2. ~(hostWrites'[v][j] = hostWrites[v][j])
      BY <1>1, <1>15, <3>1
    <3> QED
      BY <1>3, <1>14, <2>2, <3>2
  <2> QED
    BY <1>9, <2>1, <2>2
<1> QED
  BY <1>7, <1>12, <1>16, <1>17, <1>18, <1>19, <1>20

\* Every address of this update that lies in the part an object gets, and no other,
\* is marked there.
LEMMA PartWords ==
  ASSUME NEW span \in SpanRecords, NEW o \in Objects, NEW a \in Nat, NEW fix \in SUBSET Nat, \A f, g \in fix : f = g,
         NEW part, part = Overlap(span, ObjectSpan(o, a)), NEW j \in Int, Inside(j, part)
  PROVE  InWord(j, WholeWords(fix, part))
           <=> /\ UpdateWord(j, WholeWords(fix, span)) # NoWord
               /\ UpdateWord(j, WholeWords(fix, span)) >= a
               /\ UpdateWord(j, WholeWords(fix, span)) + AddressSize <= a + Resources[o].size
<1>1. PICK words \in SUBSET Nat : words = WholeWords(fix, span) /\ words \subseteq fix
  BY DEF WholeWords
<1>2. PICK w : w = UpdateWord(j, words)
  OBVIOUS
<1>3. /\ w \in Int
      /\ w # NoWord <=> InWord(j, words)
      /\ InWord(j, words) => w \in words /\ j \in w .. (w + AddressSize - 1)
  BY <1>2, UpdateWordFacts
<1>4. PICK obj \in SpanRecords : obj = ObjectSpan(o, a) /\ obj.first = a /\ obj.n = Resources[o].size
  BY ObjectSpanFacts
<1>5. part \in SpanRecords /\ Inside(j, obj) /\ Inside(j, span) /\ part.n > 0
  BY <1>4, OverlapFacts
<1>6. /\ part.first >= span.first /\ part.first >= a
      /\ part.first = span.first \/ part.first = a
      /\ part.first + part.n <= span.first + span.n /\ part.first + part.n <= a + Resources[o].size
      /\ part.first + part.n = span.first + span.n \/ part.first + part.n = a + Resources[o].size
  BY <1>4, <1>5, OverlapFacts
<1>7. /\ span.first \in Nat /\ span.n \in Nat /\ part.first \in Nat /\ part.n \in Nat /\ Resources[o].size \in Nat
      /\ AddressSize \in Nat
  BY <1>4, <1>5, ImportAssumption DEF SpanRecords
<1>8. \A f \in fix : f \in WholeWords(fix, part) <=> f \in words /\ f >= a /\ f + AddressSize <= a + Resources[o].size
  <2> SUFFICES ASSUME NEW f \in fix
               PROVE  f \in WholeWords(fix, part) <=> f \in words /\ f >= a /\ f + AddressSize <= a + Resources[o].size
    OBVIOUS
  <2>1. f \in Nat
    OBVIOUS
  <2>2. f \in WholeWords(fix, part) <=> f >= part.first /\ f + AddressSize <= part.first + part.n
    BY DEF WholeWords
  <2>3. f \in words <=> f >= span.first /\ f + AddressSize <= span.first + span.n
    BY <1>1 DEF WholeWords
  <2>4. PICK e \in Int, x \in Int, y \in Int, z \in Int :
           e = part.first + part.n /\ x = span.first + span.n /\ y = a + Resources[o].size /\ z = f + AddressSize
    BY <1>7, <2>1
  <2>5. e <= x /\ e <= y /\ (e = x \/ e = y)
    BY <1>6, <2>4
  <2>6. f >= part.first <=> f >= span.first /\ f >= a
    BY <1>6, <1>7, <2>1
  <2>7. z <= e <=> z <= x /\ z <= y
    BY <2>4, <2>5
  <2> QED
    BY <2>2, <2>3, <2>4, <2>6, <2>7
<1>9. CASE InWord(j, WholeWords(fix, part))
  <2>1. PICK f \in WholeWords(fix, part) : j \in f .. (f + AddressSize - 1)
    BY <1>9 DEF InWord
  <2>2. f \in fix /\ f \in words /\ f >= a /\ f + AddressSize <= a + Resources[o].size
    BY <1>8, <2>1 DEF WholeWords
  <2>3. InWord(j, words)
    BY <2>1, <2>2 DEF InWord
  <2>4. w = f
    BY <1>1, <1>3, <2>2, <2>3
  <2> QED
    BY <1>1, <1>2, <1>3, <1>9, <2>2, <2>3, <2>4
<1>10. CASE w # NoWord /\ w >= a /\ w + AddressSize <= a + Resources[o].size
  <2>1. w \in words /\ j \in w .. (w + AddressSize - 1)
    BY <1>3, <1>10
  <2>2. w \in WholeWords(fix, part)
    BY <1>1, <1>8, <1>10, <2>1
  <2>3. InWord(j, WholeWords(fix, part))
    BY <2>1, <2>2 DEF InWord
  <2> QED
    BY <1>1, <1>2, <1>10, <2>3
<1> QED
  BY <1>1, <1>2, <1>9, <1>10

LEMMA KeepsMemoryUpdate ==
  ASSUME ImportInv, NEW t, NEW m \in DOMAIN Memories, NEW span \in Spans, import_memory_update(t, m, span)
  PROVE  ImportInv'
<1>1. /\ blocks' = blocks + 1 /\ blocks \in Nat /\ blocks' \in Nat /\ blocks < blocks' /\ blocks' > 0
      /\ fixups' = [fixups EXCEPT ![m] = {}] /\ UNCHANGED <<usage, since>>
  BY DEF import_memory_update, Block, ImportInv, ImportTypes
<1>2. fixups' \in [DOMAIN Memories -> SUBSET Nat] /\ OneFixup' /\ fixups[m] \in SUBSET Nat /\ \A f, g \in fixups[m] : f = g
  BY <1>1 DEF ImportInv, ImportTypes, OneFixup
<1>3. CASE ~Memories[m]
  <2>1. UNCHANGED <<retained, replayed, hostWrites>>
    BY <1>3 DEF import_memory_update
  <2> QED
    BY <1>1, <1>2, <2>1, QuietKeeps
<1>4. CASE Memories[m]
  <2> DEFINE Part(o) == Overlap(span, ObjectSpan(o, Offset(o)))
             hit == {o \in Objects : Bound(o, m) /\ Part(o).n > 0}
             words == WholeWords(fixups[m], span)
             Marks(o) == IF Resources[o].buffer THEN WholeWords(fixups[m], Part(o)) ELSE {}
  <2>1. replayed' = [o \in Objects |->
                       IF o \notin hit THEN replayed[o] ELSE Patched(replayed[o], Offset(o), Part(o), blocks', Marks(o))]
    BY <1>1, <1>4 DEF import_memory_update
  <2>2. retained' = IF hit # {} THEN retained
                    ELSE [retained EXCEPT ![m] = Append(@, [span |-> span, block |-> blocks'])]
    BY <1>1, <1>4 DEF import_memory_update
  <2>3. hostWrites' = [hostWrites EXCEPT ![m] = [j \in Bytes |->
                         IF Inside(j, span)
                         THEN [block |-> blocks', by |-> "update", word |-> UpdateWord(j, words)]
                         ELSE @[j]]]
    BY <1>1, <1>4 DEF import_memory_update, UpdateWord
  <2>4. words \in SUBSET Nat /\ span \in SpanRecords
    BY <1>2, ImportAssumption DEF WholeWords, SpanRecords
  <2> HIDE DEF words
  <2>5. hostWrites' = Overwritten(m, span, words, blocks')
    <3>1. \A j \in Bytes : [block |-> blocks', by |-> "update", word |-> UpdateWord(j, words)]
                             = [block |-> blocks', word |-> UpdateWord(j, words), by |-> "update"]
      OBVIOUS
    <3>2. hostWrites = [u \in DOMAIN Memories |-> hostWrites[u]] /\ \A u \in DOMAIN Memories : hostWrites[u] = [j \in Bytes |-> hostWrites[u][j]]
      BY DEF ImportInv, ImportTypes
    <3>3. PICK W : W = [j \in Bytes |-> [block |-> blocks', word |-> UpdateWord(j, words), by |-> "update"]]
      OBVIOUS
    <3>4. hostWrites' = [hostWrites EXCEPT ![m] = [j \in Bytes |-> IF Inside(j, span) THEN W[j] ELSE hostWrites[m][j]]]
      BY <2>3, <3>1, <3>3
    <3>5. Overwritten(m, span, words, blocks')
             = [u \in DOMAIN Memories |-> [j \in Bytes |-> IF u = m /\ Inside(j, span) THEN W[j] ELSE hostWrites[u][j]]]
      BY <3>3 DEF Overwritten
    <3> QED
      BY <3>2, <3>4, <3>5
  <2>6. /\ hostWrites' \in [DOMAIN Memories -> [Bytes -> Writes]]
        /\ \A u \in DOMAIN Memories, j \in Bytes :
              IF u = m /\ Inside(j, span)
              THEN hostWrites'[u][j].block = blocks' /\ hostWrites'[u][j].word = UpdateWord(j, words) /\ hostWrites'[u][j].by = "update"
              ELSE hostWrites'[u][j] = hostWrites[u][j]
    <3>1. IsOverwritten(hostWrites', m, span, words, blocks')
      BY <1>1, <2>4, <2>5, OverwrittenFacts DEF ImportInv
    <3> QED
      BY <3>1 DEF IsOverwritten
  <2>7. ASSUME NEW q \in Objects, NEW r \in usage[q] PROVE Reached(m, span, words, q, r)
    <3>1. /\ Offset(q) = r.offset /\ r.offset \in Nat /\ \A u : Bound(q, u) <=> u = r.memory
      BY PlaceOf
    <3>2. PICK part : part = Part(q)
      OBVIOUS
    <3>3. PICK obj \in SpanRecords : obj = ObjectSpan(q, r.offset) /\ part = Overlap(span, obj)
      BY <3>1, <3>2, ObjectSpanFacts
    <3>4. \A i \in ObjectBytes(q) : r.offset + i \in Int /\ Inside(r.offset + i, obj)
      BY <3>1, <3>3, ObjectSpanFacts
    <3>5. \A i \in ObjectBytes(q) : Inside(r.offset + i, part) <=> Inside(r.offset + i, span)
      BY <2>4, <3>3, <3>4, OverlapFacts
    <3>6. CASE q \notin hit
      <4>1. replayed'[q] = replayed[q]
        BY <2>1, <3>6
      <4>2. ASSUME r.memory = m, NEW i \in ObjectBytes(q) PROVE ~Inside(r.offset + i, span)
        <5>1. ~(part.n > 0)
          BY <3>1, <3>2, <3>6, <4>2
        <5> QED
          BY <2>4, <3>3, <3>4, <5>1, OverlapFacts
      <4> QED
        BY <4>1, <4>2 DEF Reached
    <3>7. CASE q \in hit
      <4>1. r.memory = m
        BY <3>1, <3>7
      <4>2. PICK w : w = Marks(q)
        OBVIOUS
      <4>3. replayed'[q] = Patched(replayed[q], r.offset, part, blocks', w)
        BY <2>1, <3>1, <3>2, <3>7, <4>2
      <4>4. ASSUME NEW i \in ObjectBytes(q), Inside(r.offset + i, part)
            PROVE  InWord(r.offset + i, w)
                          <=> /\ Resources[q].buffer /\ UpdateWord(r.offset + i, words) # NoWord
                              /\ UpdateWord(r.offset + i, words) >= r.offset
                              /\ UpdateWord(r.offset + i, words) + AddressSize <= r.offset + Resources[q].size
        <5>1. CASE Resources[q].buffer
          <6>1. w = WholeWords(fixups[m], part)
            BY <3>2, <4>2, <5>1
          <6> QED
            BY <1>2, <2>4, <3>1, <3>3, <3>4, <4>4, <5>1, <6>1, PartWords DEF words
        <5>2. CASE ~Resources[q].buffer
          BY <4>2, <5>2 DEF InWord
        <5> QED
          BY <5>1, <5>2
      <4> QED
        BY <3>5, <4>1, <4>3, <4>4 DEF Reached
    <3> QED
      BY <3>6, <3>7
  <2>8. /\ \A q \in Objects : Contents(q, replayed'[q])
        /\ replayed' = [q \in Objects |-> replayed'[q]]
    <3>1. replayed' = [q \in Objects |-> replayed'[q]]
      BY <2>1
    <3>2. ASSUME NEW q \in Objects PROVE Contents(q, replayed'[q])
      <4>1. Contents(q, replayed[q])
        BY DEF ImportInv, ImportTypes
      <4>2. CASE q \notin hit
        BY <2>1, <4>1, <4>2
      <4>3. CASE q \in hit
        <5>1. replayed'[q] = Patched(replayed[q], Offset(q), Part(q), blocks', Marks(q))
          BY <2>1, <4>3
        <5> HIDE DEF Part, Marks, hit
        <5> QED
          BY <1>1, <4>1, <5>1, PatchedFacts
      <4> QED
        BY <4>2, <4>3
    <3> QED
      BY <3>1, <3>2
  <2>9. OnePlace' /\ InMemory' /\ Apart'
    BY <1>1 DEF ImportInv, OnePlace, InMemory, Apart
  <2>10. CASE hit # {}
    <3>1. retained' = retained
      BY <2>2, <2>10
    <3>2. Grown
      BY <1>1, <3>1, GrownIfNothingKept
    <3>3. ImportTypes'
      BY <1>1, <1>2, <2>6, <2>8, <3>1 DEF ImportInv, ImportTypes
    <3>4. BytesRight'
      BY <1>1, <2>4, <2>5, <2>7, <3>2, UpdatedBytes
    <3> QED
      BY <1>2, <2>6, <2>9, <3>1, <3>2, <3>3, <3>4, BlockKeeps
  <2>11. CASE hit = {}
    <3>1. retained' = [retained EXCEPT ![m] = Append(@, [span |-> span, block |-> blocks'])]
      BY <2>2, <2>11
    <3>2. /\ retained' \in [DOMAIN Memories -> Seq(KeptUpdates)]
          /\ Grown /\ OldWrites' /\ OldKept' /\ KeptInOrder' /\ KeptBelow' /\ KeptSeen'
      BY <1>1, <2>6, <3>1, KeptLater
    <3>3. ImportTypes'
      BY <1>1, <1>2, <2>6, <2>8, <3>2 DEF ImportInv, ImportTypes
    <3>4. BytesRight'
      BY <1>1, <2>4, <2>5, <2>7, <3>2, UpdatedBytes
    <3> QED
      BY <1>2, <2>9, <3>2, <3>3, <3>4 DEF ImportInv
  <2> QED
    BY <2>10, <2>11
<1> QED
  BY <1>3, <1>4

\* The instances of a build fill the part they are written to, every reference whole.
LEMMA InstanceFacts ==
  ASSUME NEW o \in Objects, NEW first \in Nat, NEW number \in Nat, Offset(o) \in Nat
  PROVE  /\ InstancePart(o, first, number) \in SpanRecords
         /\ InstancePart(o, first, number).first = Offset(o) + first
         /\ InstancePart(o, first, number).n = number * InstanceSize
         /\ number * InstanceSize \in Nat
         /\ number = 0 => number * InstanceSize = 0
         /\ InstanceReferences(o, first, number) \in SUBSET Nat
         /\ \A f \in InstanceReferences(o, first, number) :
              f >= Offset(o) + first /\ f + AddressSize <= Offset(o) + first + number * InstanceSize
<1>1. InstanceSize \in Nat /\ ReferenceOffset \in Nat /\ AddressSize \in Nat /\ ReferenceOffset + AddressSize <= InstanceSize
  BY ImportAssumption
<1>2. number * InstanceSize \in Nat /\ (number = 0 => number * InstanceSize = 0)
  BY <1>1
<1>3. Offset(o) + first \in Nat
  OBVIOUS
<1>4. PICK part \in SpanRecords : part = InstancePart(o, first, number)
  BY <1>2, <1>3, RecordTypes DEF InstancePart
<1>5. part.first = Offset(o) + first /\ part.n = number * InstanceSize
  BY <1>4 DEF InstancePart
<1>6. ASSUME NEW f \in InstanceReferences(o, first, number)
      PROVE  f \in Nat /\ f >= Offset(o) + first /\ f + AddressSize <= Offset(o) + first + number * InstanceSize
  <2>1. PICK k \in 0 .. (number - 1) : f = Offset(o) + first + k * InstanceSize + ReferenceOffset
    BY DEF InstanceReferences
  <2>2. PICK d \in Nat : number = k + 1 + d
    <3>1. number - (k + 1) \in Nat /\ number = k + 1 + (number - (k + 1))
      BY <2>1
    <3> QED
      BY <3>1
  <2>3. k \in Nat /\ k * InstanceSize \in Nat /\ d * InstanceSize \in Nat
    BY <1>1
  <2>4. number * InstanceSize = k * InstanceSize + InstanceSize + d * InstanceSize
    <3>1. (k + 1 + d) * InstanceSize = k * InstanceSize + InstanceSize + d * InstanceSize
      BY <1>1, <2>3
    <3> QED
      BY <2>2, <3>1
  <2>5. PICK x \in Nat, y \in Nat, z \in Nat :
          x = k * InstanceSize /\ y = d * InstanceSize /\ z = number * InstanceSize
    BY <1>2, <2>3
  <2>6. z = x + InstanceSize + y /\ f = Offset(o) + first + x + ReferenceOffset
    BY <2>1, <2>4, <2>5
  <2>7. f \in Nat /\ f >= Offset(o) + first /\ f + AddressSize <= Offset(o) + first + z
    BY <1>1, <1>3, <2>6
  <2> QED
    BY <2>5, <2>7
<1> QED
  BY <1>2, <1>4, <1>5, <1>6

LEMMA KeepsBuild ==
  ASSUME ImportInv, NEW o \in Objects, NEW first \in Bytes, NEW number \in InstanceCounts,
         import_acceleration_structures_build(o, first, number)
  PROVE  ImportInv'
<1> DEFINE part == InstancePart(o, first, number)
           words == InstanceReferences(o, first, number)
<1>1. /\ blocks' = blocks + 1 /\ blocks \in Nat /\ blocks' \in Nat /\ blocks < blocks' /\ blocks' > 0
      /\ UNCHANGED <<fixups, usage, retained, since>>
      /\ Resources[o].buffer /\ first + part.n <= Resources[o].size
  BY DEF import_acceleration_structures_build, Block, ImportInv, ImportTypes
<1>2. PICK m \in DOMAIN Memories : Bound(o, m)
  BY DEF import_acceleration_structures_build
<1>3. PICK p \in usage[o] : p.memory = m
  BY <1>2 DEF Bound
<1>4. /\ Offset(o) = p.offset /\ p.offset \in Nat /\ \A u : Bound(o, u) <=> u = m
      /\ Resources[o].size \in Nat
  BY <1>3, PlaceOf
<1>5. first \in Nat /\ number \in Nat
  BY ImportAssumption DEF Bytes
<1>6. /\ part \in SpanRecords /\ part.first = p.offset + first /\ part.n = number * InstanceSize
      /\ number * InstanceSize \in Nat /\ (number = 0 => number * InstanceSize = 0)
      /\ words \in SUBSET Nat
      /\ \A f \in words : f >= p.offset + first /\ f + AddressSize <= p.offset + first + number * InstanceSize
  BY <1>4, <1>5, InstanceFacts
<1>7. replayed' = IF number > 0 THEN [replayed EXCEPT ![o] = Patched(@, p.offset, part, blocks', words)] ELSE replayed
  BY <1>1, <1>4 DEF import_acceleration_structures_build
<1>8. hostWrites' = [u \in DOMAIN Memories |->
                          IF ~Bound(o, u) THEN hostWrites[u]
                          ELSE [j \in Bytes |->
                                  IF Inside(j, part)
                                  THEN [block |-> blocks', by |-> "update", word |-> UpdateWord(j, words)]
                                  ELSE hostWrites[u][j]]]
  BY <1>1 DEF import_acceleration_structures_build, UpdateWord
<1> HIDE DEF words, part
<1>9. hostWrites' = Overwritten(m, part, words, blocks')
  <2>1. \A j \in Bytes : [block |-> blocks', by |-> "update", word |-> UpdateWord(j, words)]
                           = [block |-> blocks', word |-> UpdateWord(j, words), by |-> "update"]
    OBVIOUS
  <2>2. \A u \in DOMAIN Memories : hostWrites[u] = [j \in Bytes |-> hostWrites[u][j]]
    BY DEF ImportInv, ImportTypes
  <2>3. PICK W : W = [j \in Bytes |-> [block |-> blocks', word |-> UpdateWord(j, words), by |-> "update"]]
    OBVIOUS
  <2>4. hostWrites' = [u \in DOMAIN Memories |->
                          IF u # m THEN hostWrites[u]
                          ELSE [j \in Bytes |-> IF Inside(j, part) THEN W[j] ELSE hostWrites[u][j]]]
    BY <1>4, <1>8, <2>1, <2>3
  <2>5. Overwritten(m, part, words, blocks')
           = [u \in DOMAIN Memories |-> [j \in Bytes |-> IF u = m /\ Inside(j, part) THEN W[j] ELSE hostWrites[u][j]]]
    BY <2>3 DEF Overwritten
  <2>6. \A u \in DOMAIN Memories :
           (IF u # m THEN hostWrites[u] ELSE [j \in Bytes |-> IF Inside(j, part) THEN W[j] ELSE hostWrites[u][j]])
             = [j \in Bytes |-> IF u = m /\ Inside(j, part) THEN W[j] ELSE hostWrites[u][j]]
    BY <2>2
  <2> QED
    BY <2>4, <2>5, <2>6
<1>10. /\ hostWrites' \in [DOMAIN Memories -> [Bytes -> Writes]]
       /\ \A u \in DOMAIN Memories, j \in Bytes :
             IF u = m /\ Inside(j, part)
             THEN hostWrites'[u][j].block = blocks' /\ hostWrites'[u][j].word = UpdateWord(j, words) /\ hostWrites'[u][j].by = "update"
             ELSE hostWrites'[u][j] = hostWrites[u][j]
  <2>1. IsOverwritten(hostWrites', m, part, words, blocks')
    BY <1>1, <1>6, <1>9, OverwrittenFacts DEF ImportInv
  <2> QED
    BY <2>1 DEF IsOverwritten
<1>11. ASSUME NEW q \in Objects, NEW r \in usage[q] PROVE Reached(m, part, words, q, r)
  <2>1. CASE q # o
    <3>1. replayed'[q] = replayed[q]
      BY <1>7, <2>1 DEF ImportInv, ImportTypes
    <3>2. part.first >= p.offset /\ part.first + part.n <= p.offset + Resources[o].size
      BY <1>1, <1>4, <1>5, <1>6
    <3>3. r.memory = m => \A i \in ObjectBytes(q) : ~Inside(r.offset + i, part)
      BY <1>3, <1>6, <2>1, <3>2, OtherBytes
    <3> QED
      BY <3>1, <3>3 DEF Reached
  <2>2. CASE q = o /\ number = 0
    <3>1. replayed'[q] = replayed[q]
      BY <1>7, <2>2
    <3>2. part.first \in Nat /\ part.n = 0
      BY <1>4, <1>5, <1>6, <2>2
    <3>3. r = p
      BY <1>3, <2>2 DEF ImportInv, OnePlace
    <3>4. \A i \in ObjectBytes(q) : ~Inside(r.offset + i, part)
      BY <1>4, <3>2, <3>3 DEF Inside, ObjectBytes
    <3> QED
      BY <3>1, <3>4 DEF Reached
  <2>3. CASE q = o /\ number > 0
    <3>1. r = p /\ r.memory = m
      BY <1>3, <2>3 DEF ImportInv, OnePlace
    <3>2. replayed'[q] = Patched(replayed[q], r.offset, part, blocks', words)
      BY <1>7, <2>3, <3>1 DEF ImportInv, ImportTypes
    <3>3. ASSUME NEW i \in ObjectBytes(q)
          PROVE  InWord(r.offset + i, words)
                          <=> /\ Resources[q].buffer /\ UpdateWord(r.offset + i, words) # NoWord
                              /\ UpdateWord(r.offset + i, words) >= r.offset
                              /\ UpdateWord(r.offset + i, words) + AddressSize <= r.offset + Resources[q].size
      <4>1. PICK w : w = UpdateWord(r.offset + i, words)
        OBVIOUS
      <4>2. /\ w \in Int /\ (w # NoWord <=> InWord(r.offset + i, words))
            /\ InWord(r.offset + i, words) => w \in words
        BY <1>6, <4>1, UpdateWordFacts
      <4>3. w \in words => w >= p.offset /\ w + AddressSize <= p.offset + Resources[o].size
        <5>1. PICK z \in Nat : z = number * InstanceSize
          BY <1>6
        <5>2. w \in words => w >= p.offset + first /\ w + AddressSize <= p.offset + first + z
          BY <1>6, <5>1
        <5>3. first + z <= Resources[o].size
          BY <1>1, <1>6, <5>1
        <5> QED
          BY <1>4, <1>5, <4>2, <5>2, <5>3, ImportAssumption
      <4> QED
        BY <1>1, <2>3, <3>1, <4>1, <4>2, <4>3
    <3> QED
      BY <3>1, <3>2, <3>3 DEF Reached
  <2> QED
    BY <1>5, <2>1, <2>2, <2>3
<1>12. Grown
  BY <1>1, GrownIfNothingKept
<1>13. BytesRight'
  BY <1>1, <1>6, <1>9, <1>11, <1>12, UpdatedBytes
<1>14. /\ \A q \in Objects : Contents(q, replayed'[q])
       /\ replayed' = [q \in Objects |-> replayed'[q]]
  <2>1. Contents(o, replayed[o])
    BY DEF ImportInv, ImportTypes
  <2>2. PICK new : new = Patched(replayed[o], p.offset, part, blocks', words)
    OBVIOUS
  <2>3. Contents(o, new)
    BY <1>1, <2>1, <2>2, PatchedFacts
  <2>4. replayed' = IF number > 0 THEN [replayed EXCEPT ![o] = new] ELSE replayed
    BY <1>7, <2>2
  <2> QED
    BY <2>3, <2>4 DEF ImportInv, ImportTypes
<1>15. ImportTypes' /\ OneFixup' /\ OnePlace' /\ InMemory' /\ Apart'
  BY <1>1, <1>10, <1>14 DEF ImportInv, ImportTypes, OneFixup, OnePlace, InMemory, Apart
<1> QED
  BY <1>1, <1>10, <1>12, <1>13, <1>15, BlockKeeps

(***************************************************************************)
(* Bindings.                                                               *)
(***************************************************************************)
LEMMA OverlapApart ==
  ASSUME NEW o \in Objects, NEW q \in Objects, NEW a \in Nat, NEW b \in Nat,
         Overlap(ObjectSpan(q, b), ObjectSpan(o, a)).n = 0
  PROVE  ApartAt(a, Resources[o].size, b, Resources[q].size) /\ ApartAt(b, Resources[q].size, a, Resources[o].size)
<1>1. PICK s \in Nat, t \in Nat : s = Resources[o].size /\ t = Resources[q].size
  BY ImportAssumption DEF Objects
<1>2. PICK u, v : u = ObjectSpan(q, b) /\ v = ObjectSpan(o, a)
  OBVIOUS
<1>3. u.first = b /\ u.n = t /\ v.first = a /\ v.n = s
  BY <1>1, <1>2 DEF ObjectSpan
<1>4. PICK first \in Nat, last \in Nat :
         /\ first = IF b > a THEN b ELSE a
         /\ last = IF b + t < a + s THEN b + t ELSE a + s
  OBVIOUS
<1>5. Overlap(u, v) = [first |-> first, n |-> IF first < last THEN last - first ELSE 0]
  BY <1>3, <1>4 DEF Overlap
<1>6. (IF first < last THEN last - first ELSE 0) = 0
  BY <1>2, <1>5
<1>7. ~(first < last)
  BY <1>4, <1>6
<1>8. a + s <= b \/ b + t <= a \/ s = 0 \/ t = 0
  BY <1>4, <1>7
<1> QED
  BY <1>1, <1>8 DEF ApartAt

\* A byte gets the latest of the updates that waited for it.
LEMMA RetainedFacts ==
  ASSUME NEW o \in Objects, NEW object, Contents(o, object), NEW kept \in Seq(KeptUpdates), NEW a \in Nat,
         NEW n \in Nat, n > 0, NEW new, new = ReplayRetained(object, kept, ObjectSpan(o, a), n)
  PROVE  /\ Contents(o, new)
         /\ \A i \in ObjectBytes(o) : \A k \in 1 .. Len(kept) :
              (/\ Inside(a + i, kept[k].span)
               /\ \A l \in 1 .. Len(kept) : Inside(a + i, kept[l].span) => l <= k)
              => new.first > 0 /\ new.bytes[i].block = kept[k].block
<1>1. DOMAIN object.bytes = ObjectBytes(o) /\ DOMAIN kept = 1 .. Len(kept) /\ Len(kept) \in Nat
  BY DEF Contents
<1>2. PICK obj \in SpanRecords : obj = ObjectSpan(o, a) /\ obj.first = a
  BY ObjectSpanFacts
<1>3. \A i \in ObjectBytes(o) : a + i \in Int /\ Inside(a + i, obj)
  BY <1>2, ObjectSpanFacts
<1> DEFINE hits == {k \in DOMAIN kept : Overlap(kept[k].span, obj).n > 0}
           Last(j) == CHOOSE k \in hits : Inside(j, kept[k].span) /\ \A l \in hits : Inside(j, kept[l].span) => l <= k
<1>4. hits \subseteq 1 .. Len(kept)
  BY <1>1
<1>5. ASSUME NEW i \in ObjectBytes(o), NEW k \in 1 .. Len(kept), Inside(a + i, kept[k].span) PROVE k \in hits
  <2>1. kept[k] \in KeptUpdates
    BY <1>5
  <2>2. kept[k].span \in SpanRecords
    BY <2>1, ImportAssumption DEF KeptUpdates, SpanRecords
  <2>3. Overlap(kept[k].span, obj).n > 0
    BY <1>3, <1>5, <2>2, OverlapFacts
  <2> QED
    BY <1>1, <2>3
<1>6. new = IF hits = {} THEN object
            ELSE [bytes |-> [i \in ObjectBytes(o) |->
                               IF \E k \in hits : Inside(a + i, kept[k].span)
                               THEN Cell(kept[Last(a + i)].block, FALSE) ELSE Cell(0, FALSE)],
                  first |-> n]
  BY <1>1, <1>2 DEF ReplayRetained
<1> HIDE DEF hits
<1>7. CASE hits = {}
  BY <1>5, <1>6, <1>7
<1>8. CASE hits # {}
  <2>1. PICK b : b = [i \in ObjectBytes(o) |->
                               IF \E k \in hits : Inside(a + i, kept[k].span)
                               THEN Cell(kept[Last(a + i)].block, FALSE) ELSE Cell(0, FALSE)]
    OBVIOUS
  <2>2. new = [bytes |-> b, first |-> n]
    BY <1>6, <1>8, <2>1
  <2>3. new.bytes = b /\ new.first = n
    BY <2>2
  <2>4. Contents(o, new)
    BY <2>1, <2>2, <2>3 DEF Contents
  <2>5. ASSUME NEW i \in ObjectBytes(o), NEW k \in 1 .. Len(kept), Inside(a + i, kept[k].span),
               \A l \in 1 .. Len(kept) : Inside(a + i, kept[l].span) => l <= k
        PROVE  b[i].block = kept[k].block
    <3>1. k \in hits /\ \A l \in hits : Inside(a + i, kept[l].span) => l <= k
      BY <1>4, <1>5, <2>5
    <3>2. PICK x : x = Last(a + i)
      OBVIOUS
    <3>3. x \in hits /\ Inside(a + i, kept[x].span) /\ \A l \in hits : Inside(a + i, kept[l].span) => l <= x
      BY <2>5, <3>1, <3>2
    <3>4. x = k
      BY <1>1, <1>4, <2>5, <3>1, <3>3
    <3>5. b[i] = Cell(kept[x].block, FALSE)
      BY <2>1, <2>5, <3>1, <3>2
    <3> QED
      BY <3>4, <3>5 DEF Cell
  <2> QED
    BY <2>3, <2>4, <2>5
<1> QED
  BY <1>7, <1>8

LEMMA KeepsBind ==
  ASSUME ImportInv, NEW t, NEW S \in SUBSET Objects, NEW places \in [S -> Places], NEW success \in BOOLEAN,
         import_bind(t, places, success)
  PROVE  ImportInv'
<1>1. /\ blocks' = blocks + 1 /\ blocks \in Nat /\ blocks' \in Nat /\ blocks < blocks' /\ blocks' > 0
      /\ UNCHANGED <<fixups, retained, hostWrites>>
  <2>1. blocks' = blocks + 1 /\ UNCHANGED <<fixups, retained, hostWrites>>
    BY DEF import_bind, Block
  <2>2. blocks \in Nat
    BY DEF ImportInv, ImportTypes
  <2> QED
    BY <2>1, <2>2
<1>2. fixups' \in [DOMAIN Memories -> SUBSET Nat] /\ OneFixup'
  BY <1>1 DEF ImportInv, ImportTypes, OneFixup
<1>3. CASE ~success
  <2>1. UNCHANGED <<usage, since, replayed>>
    BY <1>3 DEF import_bind
  <2> QED
    BY <1>1, <1>2, <2>1, QuietKeeps
<1>4. CASE success
  <2>1. /\ usage' = [o \in Objects |-> IF o \in S THEN {places[o]} ELSE usage[o]]
        /\ since' = [o \in Objects |-> IF o \in S THEN blocks' ELSE since[o]]
        /\ replayed' = [o \in Objects |->
                          IF o \notin S THEN replayed[o]
                          ELSE ReplayRetained(replayed[o], retained[places[o].memory],
                                              ObjectSpan(o, places[o].offset), blocks')]
    BY <1>1, <1>4 DEF import_bind
  <2>2. \A o \in S : /\ Fits(o, places[o])
                     /\ \A q \in S \ {o} :
                          places[q].memory = places[o].memory
                            => Overlap(ObjectSpan(q, places[q].offset), ObjectSpan(o, places[o].offset)).n = 0
    BY DEF import_bind
  <2>3. \A o \in S : places[o] \in Places /\ places[o].offset \in Nat /\ places[o].memory \in DOMAIN Memories /\ o \in Objects
    BY ImportAssumption
  <2>4. usage' \in [Objects -> SUBSET Places] /\ since' \in [Objects -> Nat]
    BY <1>1, <2>1, <2>3 DEF ImportInv, ImportTypes
  <2>5. ASSUME NEW o \in S PROVE retained[places[o].memory] \in Seq(KeptUpdates) /\ Contents(o, replayed[o]) /\ o \in Objects
    BY <2>3 DEF ImportInv, ImportTypes
  <2>6. \A o \in Objects : Contents(o, replayed'[o])
    <3> SUFFICES ASSUME NEW o \in Objects PROVE Contents(o, replayed'[o])
      OBVIOUS
    <3>1. CASE o \notin S
      BY <2>1, <3>1 DEF ImportInv, ImportTypes
    <3>2. CASE o \in S
      <4>1. replayed'[o] = ReplayRetained(replayed[o], retained[places[o].memory], ObjectSpan(o, places[o].offset), blocks')
        BY <2>1, <3>2
      <4> QED
        BY <1>1, <2>3, <2>5, <3>2, <4>1, RetainedFacts
    <3> QED
      BY <3>1, <3>2
  <2>7. replayed' = [o \in Objects |-> replayed'[o]]
    BY <2>1
  <2>8. ImportTypes'
    BY <1>1, <1>2, <2>4, <2>6, <2>7 DEF ImportInv, ImportTypes
  <2>9. \A o \in Objects : \A p \in usage'[o] : (o \in S /\ p = places[o]) \/ (o \notin S /\ p \in usage[o])
    BY <2>1
  <2>10. OnePlace'
    BY <2>9 DEF ImportInv, OnePlace
  <2>11. InMemory'
    BY <2>2, <2>9 DEF ImportInv, InMemory, Fits
  <2>12. ASSUME NEW o \in S, NEW q \in Objects, q \notin S, NEW r \in usage[q], r.memory = places[o].memory
         PROVE  /\ ApartAt(places[o].offset, Resources[o].size, r.offset, Resources[q].size)
                /\ ApartAt(r.offset, Resources[q].size, places[o].offset, Resources[o].size)
    <3>1. Offset(q) = r.offset /\ r.offset \in Nat /\ Bound(q, places[o].memory)
      BY <2>12, PlaceOf
    <3>2. Overlap(ObjectSpan(q, r.offset), ObjectSpan(o, places[o].offset)).n = 0
      BY <2>2, <3>1 DEF Fits
    <3> QED
      BY <2>3, <3>1, <3>2, OverlapApart
  <2>13. ASSUME NEW o \in S, NEW q \in S, q # o, places[q].memory = places[o].memory
         PROVE  ApartAt(places[o].offset, Resources[o].size, places[q].offset, Resources[q].size)
    <3>1. Overlap(ObjectSpan(q, places[q].offset), ObjectSpan(o, places[o].offset)).n = 0
      BY <2>2, <2>13
    <3> QED
      BY <2>3, <3>1, OverlapApart
  <2>14. Apart'
    <3> SUFFICES ASSUME NEW o \in Objects, NEW q \in Objects, NEW p \in usage'[o], NEW r \in usage'[q], o # q, p.memory = r.memory
                 PROVE  ApartAt(p.offset, Resources[o].size, r.offset, Resources[q].size)
      BY DEF Apart, ApartAt
    <3>1. CASE o \in S /\ q \in S
      BY <2>9, <2>13, <3>1
    <3>2. CASE o \in S /\ q \notin S
      BY <2>9, <2>12, <3>2
    <3>3. CASE o \notin S /\ q \in S
      BY <2>9, <2>12, <3>3
    <3>4. CASE o \notin S /\ q \notin S
      BY <2>9, <3>4 DEF ImportInv, Apart
    <3> QED
      BY <3>1, <3>2, <3>3, <3>4
  <2>15. Grown
    BY <1>1, GrownIfNothingKept
  <2>16. ASSUME NEW o \in Objects, o \notin S, NEW p \in usage[o], NEW i \in ObjectBytes(o)
         PROVE  ByteRight(o, hostWrites[p.memory][p.offset + i], p.offset, i)'
    <3>1. PICK c : c = hostWrites[p.memory][p.offset + i]
      OBVIOUS
    <3>2. c \in Writes /\ c.block <= blocks /\ ByteRight(o, c, p.offset, i)
      BY <3>1, ByteFacts
    <3>3. replayed'[o] = replayed[o] /\ since'[o] = since[o]
      BY <2>1, <2>16
    <3>4. ByteRight(o, c, p.offset, i)'
      BY <2>15, <3>2, <3>3, ByteStays
    <3> QED
      BY <1>1, <3>1, <3>4
  <2>17. ASSUME NEW o \in S, NEW i \in ObjectBytes(o)
         PROVE  ByteRight(o, hostWrites[places[o].memory][places[o].offset + i], places[o].offset, i)'
    <3>1. PICK m, a : m = places[o].memory /\ a = places[o].offset
      OBVIOUS
    <3>2. m \in DOMAIN Memories /\ a \in Nat /\ o \in Objects /\ a + Resources[o].size <= MemorySize /\ Resources[o].size \in Nat /\ MemorySize \in Nat
      BY <2>2, <2>3, <3>1, ImportAssumption DEF Fits, Objects
    <3>3. a + i \in Bytes
      BY <3>2 DEF ObjectBytes, Bytes
    <3>4. PICK c : c = hostWrites[m][a + i]
      OBVIOUS
    <3>5. c \in Writes /\ c.block \in Nat /\ c.block <= blocks
      <4>1. c \in Writes
        BY <3>2, <3>3, <3>4 DEF ImportInv, ImportTypes
      <4> QED
        BY <3>2, <3>3, <3>4, <4>1 DEF ImportInv, OldWrites, Writes
    <3>6. since'[o] = blocks' /\ ~(c.block > since'[o])
      BY <1>1, <2>1, <3>2, <3>5
    <3>7. PICK kept \in Seq(KeptUpdates) : kept = retained[m]
      BY <2>5, <3>1
    <3>8. ASSUME Delivered(o, c)' PROVE replayed'[o].first > 0 /\ replayed'[o].bytes[i].block = c.block
      <4>0. PICK u \in DOMAIN Memories : \E k \in DOMAIN retained[u] : retained[u][k].block = c.block
        BY <1>1, <3>6, <3>8 DEF Delivered
      <4>1. PICK k \in DOMAIN retained[u] : retained[u][k].block = c.block
        BY <4>0
      <4>2. k \in 1 .. Len(retained[u])
        BY <4>1 DEF ImportInv, ImportTypes
      <4>3. u = m /\ Inside(a + i, retained[u][k].span)
        BY <3>2, <3>3, <3>4, <4>1, <4>2 DEF ImportInv, KeptSeen
      <4>4. k \in 1 .. Len(kept) /\ kept[k].block = c.block /\ Inside(a + i, kept[k].span)
        BY <3>7, <4>1, <4>2, <4>3
      <4>5. ASSUME NEW l \in 1 .. Len(kept), Inside(a + i, kept[l].span) PROVE l <= k
        <5>1. kept[l].block <= c.block
          BY <3>2, <3>3, <3>4, <3>7, <4>5 DEF ImportInv, KeptBelow
        <5>2. k < l => kept[k].block < kept[l].block
          BY <3>2, <3>7, <4>4 DEF ImportInv, KeptInOrder
        <5>3. kept[l] \in KeptUpdates
          OBVIOUS
        <5>4. kept[l].block \in Nat
          BY <5>3 DEF KeptUpdates
        <5> QED
          BY <3>5, <4>4, <5>1, <5>2, <5>4
      <4>6. replayed'[o] = ReplayRetained(replayed[o], kept, ObjectSpan(o, a), blocks')
        BY <2>1, <3>1, <3>2, <3>7
      <4>7. replayed'[o].first > 0 /\ replayed'[o].bytes[i].block = kept[k].block
        <5>0. PICK n \in Nat : n = blocks' /\ n > 0
          BY <1>1
        <5>1. PICK new : new = replayed'[o] /\ new = ReplayRetained(replayed[o], kept, ObjectSpan(o, a), n)
          BY <4>6, <5>0
        <5>2. Contents(o, replayed[o]) /\ a \in Nat /\ o \in Objects
          BY <2>5, <3>2
        <5>3. \A j \in ObjectBytes(o) : \A l \in 1 .. Len(kept) :
                (/\ Inside(a + j, kept[l].span)
                 /\ \A x \in 1 .. Len(kept) : Inside(a + j, kept[x].span) => x <= l)
                => new.first > 0 /\ new.bytes[j].block = kept[l].block
          BY <5>0, <5>1, <5>2, RetainedFacts
        <5> QED
          BY <4>4, <4>5, <5>1, <5>3
      <4> QED
        BY <4>4, <4>7
    <3>9. ByteRight(o, c, a, i)'
      BY <3>6, <3>8 DEF ByteRight
    <3> QED
      BY <1>1, <3>1, <3>4, <3>9
  <2>18. BytesRight'
    <3> SUFFICES ASSUME NEW o \in Objects, NEW p \in usage'[o], NEW i \in ObjectBytes(o)
                 PROVE  ByteRight(o, hostWrites[p.memory][p.offset + i], p.offset, i)'
      BY DEF BytesRight
    <3>1. CASE o \in S
      <4>1. p = places[o]
        BY <2>9, <3>1
      <4> QED
        BY <2>17, <3>1, <4>1
    <3>2. CASE o \notin S
      <4>1. p \in usage[o]
        BY <2>9, <3>2
      <4> QED
        BY <2>16, <3>2, <4>1
    <3> QED
      BY <3>1, <3>2
  <2> QED
    BY <1>1, <1>2, <2>8, <2>10, <2>11, <2>14, <2>15, <2>18, BlockKeeps
<1> QED
  BY <1>3, <1>4

LEMMA ImportInitHolds == GxInit => ImportInv
<1> SUFFICES ASSUME GxInit PROVE ImportInv
  OBVIOUS
<1>1. blocks = 0 /\ fixups = [m \in DOMAIN Memories |-> {}] /\ usage = [o \in Objects |-> {}]
      /\ retained = [m \in DOMAIN Memories |-> <<>>] /\ since = [o \in Objects |-> 0]
  BY DEF GxInit
<1>2. Unwritten \in Writes /\ Unwritten.block = 0 /\ Unwritten.by = "none"
  BY RecordTypes DEF Unwritten
<1>3. \A m \in DOMAIN Memories, j \in Bytes : hostWrites[m][j] = Unwritten
  BY DEF GxInit
<1>4. hostWrites \in [DOMAIN Memories -> [Bytes -> Writes]]
  BY <1>2 DEF GxInit
<1>5. ASSUME NEW o \in Objects PROVE Contents(o, replayed[o])
  <2>1. PICK b : b = [i \in ObjectBytes(o) |-> Cell(0, FALSE)]
    OBVIOUS
  <2>2. replayed[o] = [bytes |-> b, first |-> 0]
    BY <2>1 DEF GxInit, ObjectBytes
  <2>3. replayed[o].bytes = b /\ replayed[o].first = 0
    BY <2>2
  <2> QED
    BY <2>1, <2>2, <2>3 DEF Contents
<1>6. replayed = [o \in Objects |-> replayed[o]]
  BY DEF GxInit
<1>7. ImportTypes
  BY <1>1, <1>4, <1>5, <1>6 DEF ImportTypes
<1>8. OneFixup /\ OnePlace /\ InMemory /\ Apart /\ BytesRight
  BY <1>1 DEF OneFixup, OnePlace, InMemory, Apart, BytesRight
<1>9. OldWrites
  BY <1>1, <1>2, <1>3 DEF OldWrites
<1>10. \A m \in DOMAIN Memories : Len(retained[m]) = 0
  BY <1>1
<1>11. OldKept /\ KeptInOrder /\ KeptBelow /\ KeptSeen
  BY <1>10 DEF OldKept, KeptInOrder, KeptBelow, KeptSeen
<1> QED
  BY <1>7, <1>8, <1>9, <1>11 DEF ImportInv

LEMMA ImportNextKeeps == ImportInv /\ [GxNext]_gxvars => ImportInv'
<1> SUFFICES ASSUME ImportInv, [GxNext]_gxvars PROVE ImportInv'
  OBVIOUS
<1>1. blocks \in Nat /\ fixups \in [DOMAIN Memories -> SUBSET Nat] /\ OneFixup
  BY DEF ImportInv, ImportTypes
<1>2. CASE UNCHANGED gxvars
  <2>1. UNCHANGED <<blocks, fixups, usage, retained, replayed, hostWrites, since>>
    BY <1>2 DEF gxvars
  <2>2. ImportTypes' /\ OneFixup' /\ OnePlace' /\ InMemory' /\ Apart'
    BY <2>1 DEF ImportInv, ImportTypes, OneFixup, OnePlace, InMemory, Apart
  <2>3. OldWrites' /\ OldKept' /\ KeptInOrder' /\ KeptBelow' /\ KeptSeen'
    BY <2>1 DEF ImportInv, OldWrites, OldKept, KeptInOrder, KeptBelow, KeptSeen, Inside
  <2>4. BytesRight'
    BY <2>1 DEF ImportInv, BytesRight, ByteRight, Delivered, Whole
  <2> QED
    BY <2>2, <2>3, <2>4 DEF ImportInv
<1>3. ASSUME NEW m \in DOMAIN Memories, NEW f \in FixupOffsets, import_device_address_fixups(m, {f}) PROVE ImportInv'
  <2>1. /\ blocks' = blocks + 1 /\ fixups' = [fixups EXCEPT ![m] = {f}]
        /\ UNCHANGED <<usage, retained, replayed, hostWrites, since>>
    BY <1>3 DEF import_device_address_fixups, Block
  <2>2. fixups' \in [DOMAIN Memories -> SUBSET Nat] /\ OneFixup'
    BY <1>1, <2>1, ImportAssumption DEF OneFixup
  <2> QED
    BY <1>1, <2>1, <2>2, QuietKeeps
<1>4. CASE blocks' \in Nat /\ blocks < blocks' /\ UNCHANGED contents
  <2>1. UNCHANGED <<fixups, usage, retained, replayed, hostWrites, since>>
    BY <1>4 DEF contents
  <2>2. OneFixup'
    BY <1>1, <2>1 DEF OneFixup
  <2> QED
    BY <1>1, <1>4, <2>1, <2>2, QuietKeeps
<1>5. ASSUME NEW t \in GfxrThreads, NEW m \in DOMAIN Memories, NEW s \in Spans, import_memory_update(t, m, s)
      PROVE  ImportInv'
  BY <1>5, KeepsMemoryUpdate
<1>6. ASSUME NEW t \in GfxrThreads, NEW S \in SUBSET Objects, NEW places \in [S -> Places], NEW success \in BOOLEAN,
             import_bind(t, places, success)
      PROVE  ImportInv'
  BY <1>6, KeepsBind
<1>7. ASSUME NEW t \in GfxrThreads, NEW o \in Objects, trace_destroy(t, o) PROVE ImportInv'
  BY <1>7, KeepsDestroy
<1>8. ASSUME NEW t \in GfxrThreads, NEW o \in Objects, NEW size \in InitSizes, import_buffer_initialization(t, o, size)
      PROVE  ImportInv'
  BY <1>8, KeepsBufferInitialization
<1>9. ASSUME NEW t \in GfxrThreads, NEW o \in Objects, import_image_initialization(t, o) PROVE ImportInv'
  BY <1>9, KeepsImageInitialization
<1>10. ASSUME NEW t \in GfxrThreads, import_resource_initialization_begin(t) PROVE ImportInv'
  BY <1>1, <1>4, <1>10 DEF import_resource_initialization_begin, Block
<1>11. ASSUME NEW t \in GfxrThreads, import_resource_initialization_end(t) PROVE ImportInv'
  BY <1>1, <1>4, <1>11 DEF import_resource_initialization_end, Block
<1>12. ASSUME NEW o \in Objects, NEW first \in Bytes, NEW number \in InstanceCounts,
              import_acceleration_structures_build(o, first, number)
       PROVE  ImportInv'
  BY <1>12, KeepsBuild
<1>13. ASSUME NEW number \in InstanceCounts, import_acceleration_structures_copy(number) PROVE ImportInv'
  BY <1>1, <1>4, <1>13 DEF import_acceleration_structures_copy, Block
<1>14. CASE import_acceleration_structure_write_properties
  BY <1>1, <1>4, <1>14 DEF import_acceleration_structure_write_properties, Block
<1>15. CASE FinishImport
  BY <1>1, <1>4, <1>15, ImportAssumption DEF FinishImport
<1>16. ASSUME NEW t \in GfxrThreads, ImportCall(t) PROVE ImportInv'
  BY <1>1, <1>4, <1>16 DEF ImportCall, Block
<1> QED
  BY <1>2, <1>3, <1>5, <1>6, <1>7, <1>8, <1>9, <1>10, <1>11, <1>12, <1>13, <1>14, <1>15, <1>16 DEF GxNext

\* Whatever the order of updates, bindings and builds in the capture, replay of the
\* imported trace leaves in every object the bytes and the addresses that the capture
\* had there (import_memory_update, import_bind, import_acceleration_structures_build).
THEOREM ImportedExactly == GxSpec => []ImportedMemory
<1>1. GxSpec => []ImportInv
  BY ImportInitHolds, ImportNextKeeps, PTL DEF GxSpec
<1> QED
  BY <1>1, ImportInvImplies, PTL

(***************************************************************************)
(* The first pass of lava-tool.  Induction, by the least counterexample.   *)
(***************************************************************************)
LEMMA LeastOf ==
  ASSUME NEW T \in SUBSET Nat, T # {}
  PROVE  \E x \in T : \A y \in T : x <= y
<1>1. PICK R : R = OpToRel(<, Nat)
  OBVIOUS
<1>2. IsWellFoundedOn(R, Nat)
  BY <1>1, NatLessThanWellFounded
<1>3. \A x, y \in Nat : x < y => <<x, y>> \in R
  BY <1>1 DEF OpToRel
<1>4. PICK x \in T : \A y \in T : ~(<<y, x>> \in R)
  BY <1>2, WFMin
<1>5. \A y \in T : ~(y < x)
  BY <1>3, <1>4
<1>6. x \in Nat /\ \A y \in T : y \in Nat
  OBVIOUS
<1>7. \A y \in T : x <= y
  BY <1>5, <1>6
<1> QED
  BY <1>7

\* Induction up to a bound: a least counterexample has a predecessor.
LEMMA Throughout ==
  ASSUME NEW b \in Nat, NEW S, 0 \in S, \A n \in 0 .. (b - 1) : n \in S => n + 1 \in S
  PROVE  \A n \in 0 .. b : n \in S
<1> SUFFICES ASSUME NEW m \in 0 .. b, m \notin S PROVE FALSE
  OBVIOUS
<1>1. PICK T : T = {n \in 0 .. b : n \notin S}
  OBVIOUS
<1>2. T \in SUBSET Nat /\ m \in T
  BY <1>1
<1>3. PICK x \in T : \A y \in T : x <= y
  BY <1>2, LeastOf
<1>4. x \in 0 .. b /\ x \notin S /\ x # 0
  BY <1>1, <1>3
<1>5. x - 1 \in 0 .. (b - 1) /\ x - 1 \in 0 .. b /\ x - 1 + 1 = x /\ x - 1 < x
  BY <1>4
<1>6. x - 1 \in T
  BY <1>1, <1>4, <1>5
<1> QED
  BY <1>3, <1>5, <1>6

(***************************************************************************)
(* lava-tool's first pass.  A reference names a packet that has been read; *)
(* a marking that is queued stays queued until the packet it names is      *)
(* written again, with it.                                                 *)
(***************************************************************************)
Refs(n) == {None} \cup [packet : 1 .. n, offset : Cells]
SimPackets == [kind : {"update", "stage"} \cup {c.op : c \in Commands}, into : Spaces \cup {"none"}, first : Nat, n : Nat, marks : SUBSET Cells]
Targets == Spaces \cup {"any"}
Entries(n) == [packet : 1 .. n, target : Targets, marks : SUBSET Cells]
Recorded(n) == [command : Commands, packet : 1 .. n]
Markings(n) == [packet : 1 .. n, offset : Cells, target : Targets, explicit : BOOLEAN, truth : Refs(n)]

SimTypes ==
  /\ phase \in {"simulate", "inject", "done", "died"}
  /\ packets \in Seq(SimPackets) /\ Len(packets) <= MaxPackets
  /\ memory \in [Spaces -> [Cells -> Refs(Len(packets))]]
  /\ source \in [Spaces -> [Cells -> Refs(Len(packets))]]
  /\ touched \subseteq Buffers
  /\ commands \in Seq(Recorded(Len(packets))) /\ running \in Seq(Recorded(Len(packets)))
  /\ queue \in Seq(Entries(Len(packets)))
  /\ found \subseteq Markings(Len(packets))
  /\ next \in 1 .. (Len(packets) + 1) /\ injected \in Seq(SUBSET Cells) /\ Len(injected) = next - 1

Queued(f, q) == \E i \in 1 .. Len(q) : q[i].packet = f.packet /\ f.offset \in q[i].marks
Marked(f) == f.packet < next /\ f.offset \in injected[f.packet]
FoundKept == \A f \in found : Marked(f) \/ Queued(f, queue)

\* Nobody has written to a buffer the suballocator has not handed out.
BlankUntouched == \A b \in Buffers \ touched : \A c \in Cells : memory[b][c] = None

SimInv ==
  /\ SimTypes /\ HostBytesTraced /\ BlankUntouched /\ MarkingsNameOrigin /\ FoundKept
  /\ phase = "done" => queue = <<>>

LEMMA SimInvSound == SimInv => MarkingsSound
<1> SUFFICES ASSUME SimInv PROVE MarkingsSound
  OBVIOUS
<1>1. Len(packets) \in Nat /\ MaxPackets \in Nat /\ Len(packets) <= MaxPackets
  BY SimulationAssumption DEF SimInv, SimTypes
<1>2. Refs(Len(packets)) \subseteq References
  BY <1>1 DEF Refs, References
<1>3. memory \in [Spaces -> [Cells -> References]] /\ source \in [Spaces -> [Cells -> References]]
  <2>1. [Cells -> Refs(Len(packets))] \subseteq [Cells -> References]
    BY <1>2
  <2>2. memory \in [Spaces -> [Cells -> Refs(Len(packets))]] /\ source \in [Spaces -> [Cells -> Refs(Len(packets))]]
    BY DEF SimInv, SimTypes
  <2> QED
    BY <2>1, <2>2
<1>4. \A i \in DOMAIN queue : queue[i].packet \in DOMAIN packets /\ queue[i].marks \subseteq Cells
  <2>1. queue \in Seq(Entries(Len(packets))) /\ DOMAIN packets = 1 .. Len(packets)
    BY DEF SimInv, SimTypes
  <2>2. \A i \in DOMAIN queue : queue[i] \in Entries(Len(packets))
    BY <2>1
  <2> QED
    BY <2>1, <2>2 DEF Entries
<1>5. next \in 1 .. (MaxPackets + 1)
  BY <1>1 DEF SimInv, SimTypes
<1>6. SimTypeOK
  BY <1>3, <1>4, <1>5 DEF SimTypeOK, SimInv, SimTypes
<1> QED
  BY <1>6 DEF SimInv, MarkingsSound

LEMMA SimInvInjected == SimInv => FoundAreInjected
<1> SUFFICES ASSUME SimInv, phase = "done", NEW f \in found, f.explicit
             PROVE  f.truth.offset \in injected[f.truth.packet]
  BY DEF FoundAreInjected
<1>1. Len(queue) = 0
  BY DEF SimInv
<1>2. Marked(f)
  BY <1>1 DEF SimInv, FoundKept, Queued
<1>3. f.packet = f.truth.packet /\ f.offset = f.truth.offset
  BY DEF SimInv, MarkingsNameOrigin
<1> QED
  BY <1>2, <1>3 DEF Marked

-----------------------------------------------------------------------------
LEMMA CellFacts ==
  /\ Size \in Nat /\ Cells \subseteq Nat /\ \A c \in Nat : c \in Cells <=> c < Size
  /\ "push" \in Spaces /\ "spec" \in Spaces /\ Buffers \subseteq Spaces
  BY SimulationAssumption DEF Cells, Spaces

LEMMA RefsGrow ==
  ASSUME NEW n \in Nat, NEW m \in Nat, n <= m
  PROVE  /\ Refs(n) \subseteq Refs(m) /\ Entries(n) \subseteq Entries(m) /\ Recorded(n) \subseteq Recorded(m)
         /\ Markings(n) \subseteq Markings(m)
<1>1. 1 .. n \subseteq 1 .. m
  OBVIOUS
<1>2. Refs(n) \subseteq Refs(m)
  BY <1>1 DEF Refs
<1> QED
  BY <1>1, <1>2 DEF Entries, Recorded, Markings

\* What the operations on a space make of it.
LEMMA RegisterFacts ==
  ASSUME NEW n \in Nat, NEW f \in [Cells -> Refs(n)], NEW p \in 1 .. n, NEW first, NEW k
  PROVE  register_source(f, first, k, p) \in [Cells -> Refs(n)]
<1>1. \A c \in Cells : Ref(p, c) \in Refs(n)
  BY DEF Ref, Refs
<1> QED
  BY <1>1 DEF register_source

LEMMA CopyFacts ==
  ASSUME NEW n \in Nat, NEW f \in [Cells -> Refs(n)], NEW g \in [Cells -> Refs(n)],
         NEW to \in Nat, NEW from \in Nat, NEW k \in Nat, from + k <= Size
  PROVE  /\ memcpy(f, g, to, from, k) \in [Cells -> Refs(n)]
         /\ copy_sources(f, g, to, from, k) \in [Cells -> Refs(n)]
<1>1. \A c \in Cells : c \in to .. to + k - 1 => from + (c - to) \in Cells
  BY CellFacts
<1>2. \A c \in Cells : c \in to .. to + k - 1 => g[from + (c - to)] \in Refs(n)
  BY <1>1
<1> QED
  BY <1>2 DEF memcpy, copy_sources

\* Bytes and their sources travel together.
Follows(f, g) == \A c \in Cells : f[c] # None => g[c] = f[c]

LEMMA RegisterFollows ==
  ASSUME NEW f, NEW g, Follows(f, g), NEW p, NEW first, NEW k
  PROVE  Follows(register_source(f, first, k, p), register_source(g, first, k, p))
  BY DEF Follows, register_source

LEMMA CopyFollows ==
  ASSUME NEW f, NEW g, Follows(f, g), NEW a, NEW b, Follows(a, b),
         NEW to \in Nat, NEW from \in Nat, NEW k \in Nat, from + k <= Size
  PROVE  Follows(memcpy(f, a, to, from, k), copy_sources(g, b, to, from, k))
<1> SUFFICES ASSUME NEW c \in Cells, memcpy(f, a, to, from, k)[c] # None
             PROVE  copy_sources(g, b, to, from, k)[c] = memcpy(f, a, to, from, k)[c]
  BY DEF Follows
<1>1. CASE c \in to .. to + k - 1
  <2>1. from + (c - to) \in Cells
    BY <1>1, CellFacts
  <2>2. a[from + (c - to)] # None /\ memcpy(f, a, to, from, k)[c] = a[from + (c - to)]
    BY <1>1 DEF memcpy
  <2>3. b[from + (c - to)] = a[from + (c - to)]
    BY <2>1, <2>2 DEF Follows
  <2> QED
    BY <1>1, <2>2, <2>3 DEF copy_sources
<1>2. CASE c \notin to .. to + k - 1
  <2>1. memcpy(f, a, to, from, k)[c] = f[c] /\ copy_sources(g, b, to, from, k)[c] = g[c]
    BY <1>2 DEF memcpy, copy_sources
  <2> QED
    BY <2>1 DEF Follows
<1> QED
  BY <1>1, <1>2

-----------------------------------------------------------------------------
(* The rewrite queue. *)

LEMMA MergeOne ==
  ASSUME NEW n \in Nat, NEW q \in Seq(Entries(n)), NEW m, m.packet \in 1 .. n, m.target \in Targets, m.offset \in Cells,
         NEW r, r = merge_rewrite_markings(q, m)
  PROVE  /\ r \in Seq(Entries(n)) /\ Queued(m, r)
         /\ \A f : Queued(f, q) => Queued(f, r)
<1>1. PICK same : same = {i \in DOMAIN q : q[i].packet = m.packet /\ q[i].target = m.target}
  OBVIOUS
<1>2. Len(q) \in Nat /\ DOMAIN q = 1 .. Len(q) /\ \A i \in 1 .. Len(q) : q[i] \in Entries(n)
  OBVIOUS
<1>3. CASE same = {}
  <2>1. PICK e : e = [packet |-> m.packet, target |-> m.target, marks |-> {m.offset}]
    OBVIOUS
  <2>2. e \in Entries(n) /\ e.packet = m.packet /\ m.offset \in e.marks
    BY <2>1 DEF Entries
  <2>3. r = Append(q, e)
    BY <1>1, <1>3, <2>1 DEF merge_rewrite_markings
  <2>4. r \in Seq(Entries(n)) /\ Len(r) = Len(q) + 1 /\ r[Len(q) + 1] = e /\ \A i \in 1 .. Len(q) : r[i] = q[i]
    BY <2>2, <2>3
  <2>5. Len(q) + 1 \in 1 .. Len(r) /\ \A i \in 1 .. Len(q) : i \in 1 .. Len(r)
    BY <1>2, <2>4
  <2>6. Queued(m, r)
    BY <2>2, <2>4, <2>5 DEF Queued
  <2>7. \A f : Queued(f, q) => Queued(f, r)
    BY <2>4, <2>5 DEF Queued
  <2> QED
    BY <2>4, <2>6, <2>7
<1>4. CASE same # {}
  <2> DEFINE New(i) == IF i \in same THEN [q[i] EXCEPT !.marks = q[i].marks \cup {m.offset}] ELSE q[i]
  <2>1. r = [i \in 1 .. Len(q) |-> New(i)]
    BY <1>1, <1>2, <1>4 DEF merge_rewrite_markings, merge_marked_offsets
  <2>2. ASSUME NEW i \in 1 .. Len(q)
        PROVE  /\ New(i) \in Entries(n) /\ New(i).packet = q[i].packet /\ q[i].marks \subseteq New(i).marks
               /\ i \in same => m.offset \in New(i).marks
    <3>1. q[i] \in Entries(n)
      BY <1>2
    <3>2. [q[i] EXCEPT !.marks = q[i].marks \cup {m.offset}] \in Entries(n)
      BY <3>1 DEF Entries
    <3> QED
      BY <3>1, <3>2 DEF Entries
  <2> HIDE DEF New
  <2>3. r \in Seq(Entries(n)) /\ Len(r) = Len(q) /\ \A i \in 1 .. Len(q) : r[i] = New(i)
    <3>1. \A i \in 1 .. Len(q) : New(i) \in Entries(n)
      BY <2>2
    <3> QED
      BY <1>2, <2>1, <3>1
  <2>4. PICK i \in 1 .. Len(q) : i \in same
    BY <1>1, <1>2, <1>4
  <2>5. Queued(m, r)
    BY <1>1, <2>2, <2>3, <2>4 DEF Queued
  <2>6. \A f : Queued(f, q) => Queued(f, r)
    BY <2>2, <2>3 DEF Queued
  <2> QED
    BY <2>3, <2>5, <2>6
<1> QED
  BY <1>3, <1>4

MergedStep(g, m) == IF m.packet = 0 THEN g ELSE merge_rewrite_markings(g, m)
IsMerged(f, q, ms, k) == f = [i \in 0 .. k |-> IF i = 0 THEN q ELSE MergedStep(f[i - 1], ms[i])]

LEMMA MergedExists ==
  ASSUME NEW q, NEW ms, NEW K \in Nat
  PROVE  \E f : IsMerged(f, q, ms, K)
<1> DEFINE P(k) == \E f : IsMerged(f, q, ms, k)
           Good == {k \in 0 .. K : P(k)}
<1>1. 0 \in Good
  <2>1. PICK f : f = [i \in 0 .. 0 |-> q]
    OBVIOUS
  <2>2. IsMerged(f, q, ms, 0)
    BY <2>1 DEF IsMerged
  <2> QED
    BY <2>2
<1>2. ASSUME NEW k \in 0 .. (K - 1), k \in Good PROVE k + 1 \in Good
  <2>1. PICK f : f = [i \in 0 .. k |-> IF i = 0 THEN q ELSE MergedStep(f[i - 1], ms[i])]
    BY <1>2 DEF IsMerged
  <2>2. PICK g : g = [i \in 0 .. (k + 1) |-> IF i = k + 1 THEN MergedStep(f[k], ms[k + 1]) ELSE f[i]]
    OBVIOUS
  <2>3. g = [i \in 0 .. (k + 1) |-> IF i = 0 THEN q ELSE MergedStep(g[i - 1], ms[i])]
    <3> DEFINE Rhs == [i \in 0 .. (k + 1) |-> IF i = 0 THEN q ELSE MergedStep(g[i - 1], ms[i])]
    <3>1. ASSUME NEW i \in 0 .. (k + 1) PROVE g[i] = Rhs[i]
      <4>1. CASE i = k + 1
        <5>1. i - 1 = k /\ g[k] = f[k] /\ i # 0
          BY <2>2, <4>1
        <5>2. g[i] = MergedStep(f[k], ms[k + 1])
          BY <2>2, <4>1
        <5> QED
          BY <5>1, <5>2, <4>1
      <4>2. CASE i # k + 1 /\ i # 0
        <5>1. i \in 0 .. k /\ i - 1 \in 0 .. k /\ i - 1 \in 0 .. (k + 1) /\ i - 1 # k + 1
          BY <4>2
        <5>2. g[i] = f[i] /\ g[i - 1] = f[i - 1]
          BY <2>2, <4>2, <5>1
        <5>3. f[i] = MergedStep(f[i - 1], ms[i])
          BY <2>1, <4>2, <5>1
        <5> QED
          BY <4>2, <5>2, <5>3
      <4>3. CASE i = 0
        <5>1. g[0] = f[0] /\ f[0] = q
          BY <2>1, <2>2, <4>3
        <5> QED
          BY <4>3, <5>1
      <4> QED
        BY <4>1, <4>2, <4>3
    <3> HIDE DEF Rhs
    <3>2. DOMAIN g = 0 .. (k + 1) /\ g = [i \in DOMAIN g |-> g[i]]
      BY <2>2
    <3>3. DOMAIN Rhs = 0 .. (k + 1) /\ Rhs = [i \in DOMAIN Rhs |-> Rhs[i]]
      BY DEF Rhs
    <3>4. g = Rhs
      BY <3>1, <3>2, <3>3
    <3> QED
      BY <3>4 DEF Rhs
  <2>4. IsMerged(g, q, ms, k + 1)
    BY <2>3 DEF IsMerged
  <2> QED
    BY <2>4
<1>3. \A k \in 0 .. K : k \in Good
  <2> HIDE DEF Good
  <2> QED
    BY <1>1, <1>2, Throughout
<1> QED
  BY <1>3

\* All markings whose packet is known are queued, and nothing is lost.
LEMMA MergeAll ==
  ASSUME NEW n \in Nat, NEW q \in Seq(Entries(n)), NEW ms, Len(ms) \in Nat,
         \A i \in 1 .. Len(ms) : ms[i].packet = 0 \/ ms[i] \in Markings(n)
  PROVE  /\ merge_discovered_markings(q, ms) \in Seq(Entries(n))
         /\ \A f : Queued(f, q) => Queued(f, merge_discovered_markings(q, ms))
         /\ \A i \in 1 .. Len(ms) : ms[i].packet # 0 => Queued(ms[i], merge_discovered_markings(q, ms))
<1> DEFINE f == CHOOSE g : g = [i \in 0 .. Len(ms) |-> IF i = 0 THEN q ELSE IF ms[i].packet = 0 THEN g[i - 1] ELSE merge_rewrite_markings(g[i - 1], ms[i])]
<1>1. PICK K \in Nat : K = Len(ms)
  OBVIOUS
<1>2. \E g : g = [i \in 0 .. Len(ms) |-> IF i = 0 THEN q ELSE IF ms[i].packet = 0 THEN g[i - 1] ELSE merge_rewrite_markings(g[i - 1], ms[i])]
  <2>1. PICK g : IsMerged(g, q, ms, Len(ms))
    BY MergedExists
  <2>2. g = [i \in 0 .. Len(ms) |-> IF i = 0 THEN q ELSE IF ms[i].packet = 0 THEN g[i - 1] ELSE merge_rewrite_markings(g[i - 1], ms[i])]
    BY <2>1 DEF IsMerged, MergedStep
  <2> QED
    BY <2>2
<1>3. f = [i \in 0 .. Len(ms) |-> IF i = 0 THEN q ELSE IF ms[i].packet = 0 THEN f[i - 1] ELSE merge_rewrite_markings(f[i - 1], ms[i])]
  BY <1>2
<1>4. merge_discovered_markings(q, ms) = f[Len(ms)]
  BY DEF merge_discovered_markings
<1> HIDE DEF f
<1>5. f[0] = q /\ \A i \in 1 .. K : f[i] = IF ms[i].packet = 0 THEN f[i - 1] ELSE merge_rewrite_markings(f[i - 1], ms[i])
  BY <1>1, <1>3
<1> DEFINE Good == {k \in 0 .. K : /\ f[k] \in Seq(Entries(n))
                                   /\ \A g : Queued(g, q) => Queued(g, f[k])
                                   /\ \A i \in 1 .. k : ms[i].packet # 0 => Queued(ms[i], f[k])}
<1>6. 0 \in Good
  BY <1>1, <1>5
<1>7. ASSUME NEW k \in 0 .. (K - 1), k \in Good PROVE k + 1 \in Good
  <2>0. k \in Nat /\ k + 1 \in 1 .. K /\ k + 1 - 1 = k /\ k + 1 \in 0 .. K
    BY <1>1
  <2>1. f[k + 1] = IF ms[k + 1].packet = 0 THEN f[k] ELSE merge_rewrite_markings(f[k], ms[k + 1])
    BY <1>5, <2>0
  <2>2. f[k] \in Seq(Entries(n)) /\ (\A g : Queued(g, q) => Queued(g, f[k]))
        /\ \A i \in 1 .. k : ms[i].packet # 0 => Queued(ms[i], f[k])
    BY <1>7
  <2>3. \A i \in 1 .. (k + 1) : i \in 1 .. k \/ i = k + 1
    BY <2>0
  <2>4. CASE ms[k + 1].packet = 0
    BY <2>0, <2>1, <2>2, <2>3, <2>4
  <2>5. CASE ms[k + 1].packet # 0
    <3>1. ms[k + 1] \in Markings(n)
      BY <1>1, <2>0, <2>5
    <3>2. ms[k + 1].packet \in 1 .. n /\ ms[k + 1].target \in Targets /\ ms[k + 1].offset \in Cells
      BY <3>1 DEF Markings
    <3>3. f[k + 1] \in Seq(Entries(n)) /\ Queued(ms[k + 1], f[k + 1]) /\ \A g : Queued(g, f[k]) => Queued(g, f[k + 1])
      BY <2>1, <2>2, <2>5, <3>2, MergeOne
    <3> QED
      BY <2>0, <2>2, <2>3, <3>3
  <2> QED
    BY <2>4, <2>5
<1>8. \A k \in 0 .. K : k \in Good
  <2> HIDE DEF Good
  <2> QED
    BY <1>6, <1>7, Throughout
<1>80. K \in 0 .. K
  OBVIOUS
<1>9. K \in Good
  BY <1>8, <1>80
<1> QED
  BY <1>1, <1>4, <1>9

-----------------------------------------------------------------------------
(* What execution discovers. *)

TrueMarking(m) ==
  m.packet = 0 \/ /\ m \in Markings(Len(packets)) /\ m.packet = m.truth.packet
                  /\ m.explicit => m.offset = m.truth.offset

LEMMA MarkingFacts ==
  ASSUME SimTypes, HostBytesTraced, NEW s \in Spaces, NEW c \in Nat, IsAddress(s, c)
  PROVE  TrueMarking(PhysicalAddressMarking(s, c)) /\ TrueMarking(BufferMarking(s, c))
<1>1. PICK n \in Nat : n = Len(packets)
  BY DEF SimTypes
<1>2. c \in Cells /\ c + 1 \in Cells
  BY CellFacts DEF IsAddress
<1>3. memory[s][c] # None /\ source[s][c] = memory[s][c] /\ memory[s][c] \in Refs(n)
  BY <1>1, <1>2 DEF IsAddress, HostBytesTraced, SimTypes
<1>4. memory[s][c].packet \in 1 .. n /\ memory[s][c].offset \in Cells
  BY <1>3 DEF Refs
<1>5. PICK r : r = try_get_reference(source[s], c)
  OBVIOUS
<1>6. r = None \/ r = memory[s][c]
  BY <1>3, <1>5 DEF try_get_reference
<1>7. CASE r = None
  <2>1. r.packet = 0
    BY <1>7 DEF None
  <2> QED
    BY <1>5, <2>1 DEF TrueMarking, PhysicalAddressMarking, BufferMarking
<1>8. CASE r = memory[s][c]
  <2>1. PICK t : t = IF s = "spec" THEN "spec" ELSE "any"
    OBVIOUS
  <2>2. t \in Targets /\ s \in Targets
    BY <2>1, CellFacts DEF Targets
  <2>3. PhysicalAddressMarking(s, c) = [packet |-> r.packet, offset |-> r.offset, target |-> t, explicit |-> TRUE, truth |-> r]
    BY <1>5, <1>8, <2>1 DEF PhysicalAddressMarking
  <2>4. BufferMarking(s, c) = [packet |-> r.packet, offset |-> c, target |-> s, explicit |-> FALSE, truth |-> r]
    BY <1>5, <1>8 DEF BufferMarking
  <2>5. [packet |-> r.packet, offset |-> r.offset, target |-> t, explicit |-> TRUE, truth |-> r] \in Markings(n)
    BY <1>3, <1>4, <1>8, <2>2 DEF Markings
  <2>6. [packet |-> r.packet, offset |-> c, target |-> s, explicit |-> FALSE, truth |-> r] \in Markings(n)
    BY <1>2, <1>3, <1>4, <1>8, <2>2 DEF Markings
  <2> QED
    BY <1>1, <2>3, <2>4, <2>5, <2>6 DEF TrueMarking
<1> QED
  BY <1>6, <1>7, <1>8

CompositeStep(g, s, c, d) ==
  IF d % 2 = c % 2 /\ IsAddress(s, d) THEN Append(g, PhysicalAddressMarking(s, d)) ELSE g
IsComposite(f, s, c, k) == f = [d \in 0 .. k |-> IF d = 0 THEN <<>> ELSE CompositeStep(f[d - 1], s, c, d - 1)]

LEMMA CompositeExists ==
  ASSUME NEW s, NEW c, NEW K \in Nat
  PROVE  \E f : IsComposite(f, s, c, K)
<1> DEFINE P(k) == \E f : IsComposite(f, s, c, k)
           Good == {k \in 0 .. K : P(k)}
<1>1. 0 \in Good
  <2>1. PICK f : f = [i \in 0 .. 0 |-> <<>>]
    OBVIOUS
  <2>2. IsComposite(f, s, c, 0)
    BY <2>1 DEF IsComposite
  <2> QED
    BY <2>2
<1>2. ASSUME NEW k \in 0 .. (K - 1), k \in Good PROVE k + 1 \in Good
  <2>1. PICK f : f = [i \in 0 .. k |-> IF i = 0 THEN <<>> ELSE CompositeStep(f[i - 1], s, c, i - 1)]
    BY <1>2 DEF IsComposite
  <2>2. PICK g : g = [i \in 0 .. (k + 1) |-> IF i = k + 1 THEN CompositeStep(f[k], s, c, k) ELSE f[i]]
    OBVIOUS
  <2>3. g = [i \in 0 .. (k + 1) |-> IF i = 0 THEN <<>> ELSE CompositeStep(g[i - 1], s, c, i - 1)]
    <3> DEFINE Rhs == [i \in 0 .. (k + 1) |-> IF i = 0 THEN <<>> ELSE CompositeStep(g[i - 1], s, c, i - 1)]
    <3>1. ASSUME NEW i \in 0 .. (k + 1) PROVE g[i] = Rhs[i]
      <4>1. CASE i = k + 1
        <5>1. i - 1 = k /\ g[k] = f[k] /\ i # 0
          BY <2>2, <4>1
        <5>2. g[i] = CompositeStep(f[k], s, c, k)
          BY <2>2, <4>1
        <5> QED
          BY <5>1, <5>2, <4>1
      <4>2. CASE i # k + 1 /\ i # 0
        <5>1. i \in 0 .. k /\ i - 1 \in 0 .. k /\ i - 1 \in 0 .. (k + 1) /\ i - 1 # k + 1
          BY <4>2
        <5>2. g[i] = f[i] /\ g[i - 1] = f[i - 1]
          BY <2>2, <4>2, <5>1
        <5>3. f[i] = CompositeStep(f[i - 1], s, c, i - 1)
          BY <2>1, <4>2, <5>1
        <5> QED
          BY <4>2, <5>2, <5>3
      <4>3. CASE i = 0
        <5>1. g[0] = f[0] /\ f[0] = <<>>
          BY <2>1, <2>2, <4>3
        <5> QED
          BY <4>3, <5>1
      <4> QED
        BY <4>1, <4>2, <4>3
    <3> HIDE DEF Rhs
    <3>2. DOMAIN g = 0 .. (k + 1) /\ g = [i \in DOMAIN g |-> g[i]]
      BY <2>2
    <3>3. DOMAIN Rhs = 0 .. (k + 1) /\ Rhs = [i \in DOMAIN Rhs |-> Rhs[i]]
      BY DEF Rhs
    <3>4. g = Rhs
      BY <3>1, <3>2, <3>3
    <3> QED
      BY <3>4 DEF Rhs
  <2>4. IsComposite(g, s, c, k + 1)
    BY <2>3 DEF IsComposite
  <2> QED
    BY <2>4
<1>3. \A k \in 0 .. K : k \in Good
  <2> HIDE DEF Good
  <2> QED
    BY <1>1, <1>2, Throughout
<1> QED
  BY <1>3

TrueMarkings(ms) == Len(ms) \in Nat /\ DOMAIN ms = 1 .. Len(ms) /\ \A i \in 1 .. Len(ms) : TrueMarking(ms[i])

LEMMA CompositeFacts ==
  ASSUME SimTypes, HostBytesTraced, NEW s \in Spaces, NEW c
  PROVE  TrueMarkings(collect_composite_device_address_marking(s, c))
<1> DEFINE f == CHOOSE g : g = [d \in 0 .. Size |-> IF d = 0 THEN <<>> ELSE IF (d - 1) % 2 = c % 2 /\ IsAddress(s, d - 1) THEN Append(g[d - 1], PhysicalAddressMarking(s, d - 1)) ELSE g[d - 1]]
<1>2. \E g : g = [d \in 0 .. Size |-> IF d = 0 THEN <<>> ELSE IF (d - 1) % 2 = c % 2 /\ IsAddress(s, d - 1) THEN Append(g[d - 1], PhysicalAddressMarking(s, d - 1)) ELSE g[d - 1]]
  <2>1. PICK g : IsComposite(g, s, c, Size)
    BY CellFacts, CompositeExists
  <2>2. g = [d \in 0 .. Size |-> IF d = 0 THEN <<>> ELSE IF (d - 1) % 2 = c % 2 /\ IsAddress(s, d - 1) THEN Append(g[d - 1], PhysicalAddressMarking(s, d - 1)) ELSE g[d - 1]]
    BY <2>1 DEF IsComposite, CompositeStep
  <2> QED
    BY <2>2
<1>3. f = [d \in 0 .. Size |-> IF d = 0 THEN <<>> ELSE IF (d - 1) % 2 = c % 2 /\ IsAddress(s, d - 1) THEN Append(f[d - 1], PhysicalAddressMarking(s, d - 1)) ELSE f[d - 1]]
  BY <1>2
<1>4. collect_composite_device_address_marking(s, c) = f[Size]
  BY DEF collect_composite_device_address_marking
<1> HIDE DEF f
<1>5. f[0] = <<>>
  <2>1. 0 \in 0 .. Size
    BY CellFacts
  <2> QED
    BY <1>3, <2>1, Zenon
<1>50. ASSUME NEW d \in 1 .. Size
       PROVE  f[d] = f[d - 1] \/ (IsAddress(s, d - 1) /\ f[d] = Append(f[d - 1], PhysicalAddressMarking(s, d - 1)))
  <2>1. d \in 0 .. Size /\ d # 0
    BY CellFacts
  <2>2. f[d] = IF d = 0 THEN <<>> ELSE IF (d - 1) % 2 = c % 2 /\ IsAddress(s, d - 1) THEN Append(f[d - 1], PhysicalAddressMarking(s, d - 1)) ELSE f[d - 1]
    BY <1>3, <2>1, Zenon
  <2> QED
    BY <2>1, <2>2, Zenon
<1>6. PICK W : W = {m \in {PhysicalAddressMarking(s, d) : d \in Cells} : TrueMarking(m)}
  OBVIOUS
<1> DEFINE Good == {k \in 0 .. Size : f[k] \in Seq(W)}
<1>7. 0 \in Good
  <2>1. <<>> \in Seq(W) /\ 0 \in 0 .. Size
    BY CellFacts
  <2> QED
    BY <1>5, <2>1, Zenon
<1>8. ASSUME NEW k \in 0 .. (Size - 1), k \in Good PROVE k + 1 \in Good
  <2>1. k + 1 \in 1 .. Size /\ k + 1 - 1 = k /\ k + 1 \in 0 .. Size /\ k \in Nat /\ k \in Cells
    BY CellFacts
  <2>2. f[k + 1] = f[k] \/ (IsAddress(s, k) /\ f[k + 1] = Append(f[k], PhysicalAddressMarking(s, k)))
    BY <1>50, <2>1
  <2>3. f[k] \in Seq(W)
    BY <1>8
  <2>4. ASSUME IsAddress(s, k) PROVE PhysicalAddressMarking(s, k) \in W
    BY <1>6, <2>1, <2>4, MarkingFacts
  <2> QED
    BY <2>1, <2>2, <2>3, <2>4
<1>9. \A k \in 0 .. Size : k \in Good
  <2> HIDE DEF Good
  <2> QED
    BY <1>7, <1>8, CellFacts, Throughout
<1>10. Size \in 0 .. Size
  BY CellFacts
<1>11. f[Size] \in Seq(W)
  BY <1>9, <1>10
<1>12. Len(f[Size]) \in Nat /\ DOMAIN f[Size] = 1 .. Len(f[Size]) /\ \A i \in 1 .. Len(f[Size]) : f[Size][i] \in W
  BY <1>11
<1> QED
  BY <1>4, <1>6, <1>12 DEF TrueMarkings

LEMMA OneMarking ==
  ASSUME NEW m, TrueMarking(m)
  PROVE  TrueMarkings(<<m>>) /\ TrueMarkings(<<>>)
<1>1. Len(<<m>>) = 1 /\ DOMAIN <<m>> = 1 .. 1 /\ <<m>>[1] = m /\ \A i \in 1 .. 1 : i = 1
  OBVIOUS
<1> QED
  BY <1>1 DEF TrueMarkings

LEMMA DiscoverKeeps ==
  ASSUME SimInv, NEW ms, TrueMarkings(ms), Discover(ms), UNCHANGED <<packets, next, injected>>
  PROVE  /\ queue' \in Seq(Entries(Len(packets))) /\ found' \subseteq Markings(Len(packets))
         /\ MarkingsNameOrigin' /\ FoundKept'
<1>1. PICK n \in Nat : n = Len(packets)
  BY DEF SimInv, SimTypes
<1>2. queue \in Seq(Entries(n)) /\ found \subseteq Markings(n)
  BY <1>1 DEF SimInv, SimTypes
<1>3. Len(ms) \in Nat /\ DOMAIN ms = 1 .. Len(ms) /\ \A i \in 1 .. Len(ms) : ms[i].packet = 0 \/ ms[i] \in Markings(n)
  BY <1>1 DEF TrueMarkings, TrueMarking
<1>4. PICK r : r = merge_discovered_markings(queue, ms)
  OBVIOUS
<1>5. /\ r \in Seq(Entries(n)) /\ \A f : Queued(f, queue) => Queued(f, r)
      /\ \A i \in 1 .. Len(ms) : ms[i].packet # 0 => Queued(ms[i], r)
  BY <1>2, <1>3, <1>4, MergeAll
<1>6. queue' = r /\ found' = found \cup {m \in {ms[i] : i \in 1 .. Len(ms)} : m.packet # 0}
  BY <1>3, <1>4 DEF Discover
<1>7. ASSUME NEW f \in found'
      PROVE  f \in Markings(n) /\ f.packet = f.truth.packet /\ (f.explicit => f.offset = f.truth.offset)
             /\ (Marked(f) \/ Queued(f, r))
  <2>1. CASE f \in found
    BY <1>2, <1>5, <2>1 DEF SimInv, MarkingsNameOrigin, FoundKept
  <2>2. CASE f \notin found
    <3>1. PICK i \in 1 .. Len(ms) : f = ms[i] /\ f.packet # 0
      BY <1>6, <2>2
    <3>2. TrueMarking(f)
      BY <3>1 DEF TrueMarkings
    <3> QED
      BY <1>1, <1>5, <3>1, <3>2 DEF TrueMarking
  <2> QED
    BY <2>1, <2>2
<1>8. \A f : Marked(f)' <=> Marked(f)
  BY DEF Marked
<1>9. FoundKept'
  <2> SUFFICES ASSUME NEW f \in found' PROVE Marked(f)' \/ Queued(f, queue')
    BY DEF FoundKept, Marked, Queued
  <2> QED
    BY <1>6, <1>7, <1>8
<1>10. MarkingsNameOrigin'
  BY <1>7 DEF MarkingsNameOrigin
<1> QED
  BY <1>1, <1>5, <1>6, <1>7, <1>9, <1>10

-----------------------------------------------------------------------------
(* Steps. *)

LEMMA SpaceFollows ==
  ASSUME HostBytesTraced, NEW s \in Spaces
  PROVE  Follows(memory[s], source[s])
  BY DEF HostBytesTraced, Follows

LEMMA SpaceChanges ==
  ASSUME SimInv, NEW n \in Nat, Len(packets) <= n, NEW d \in Spaces,
         NEW a \in [Cells -> Refs(n)], NEW b \in [Cells -> Refs(n)], Follows(a, b),
         memory' = [memory EXCEPT ![d] = a], source' = [source EXCEPT ![d] = b]
  PROVE  /\ memory' \in [Spaces -> [Cells -> Refs(n)]] /\ source' \in [Spaces -> [Cells -> Refs(n)]]
         /\ HostBytesTraced'
<1>1. PICK N \in Nat : N = Len(packets)
  BY DEF SimInv, SimTypes
<1>2. memory \in [Spaces -> [Cells -> Refs(N)]] /\ source \in [Spaces -> [Cells -> Refs(N)]]
  BY <1>1 DEF SimInv, SimTypes
<1>3. [Cells -> Refs(N)] \subseteq [Cells -> Refs(n)]
  BY <1>1, RefsGrow
<1>4. memory' \in [Spaces -> [Cells -> Refs(n)]] /\ source' \in [Spaces -> [Cells -> Refs(n)]]
  BY <1>2, <1>3
<1>5. ASSUME NEW s \in Spaces, NEW c \in Cells, memory'[s][c] # None PROVE source'[s][c] = memory'[s][c]
  <2>1. CASE s = d
    BY <1>2, <1>5, <2>1 DEF Follows
  <2>2. CASE s # d
    BY <1>2, <1>5, <2>2 DEF SimInv, HostBytesTraced
  <2> QED
    BY <2>1, <2>2
<1>6. HostBytesTraced'
  BY <1>5 DEF HostBytesTraced
<1> QED
  BY <1>4, <1>6

LEMMA ReadKeeps ==
  ASSUME SimInv, NEW x \in SimPackets, Reading, packets' = Append(packets, x),
         memory' \in [Spaces -> [Cells -> Refs(Len(packets) + 1)]],
         source' \in [Spaces -> [Cells -> Refs(Len(packets) + 1)]],
         HostBytesTraced', BlankUntouched', touched' \subseteq Buffers, commands' \in Seq(Recorded(Len(packets) + 1)),
         UNCHANGED <<phase, running, queue, found, next, injected>>
  PROVE  SimInv'
<1>1. PICK N \in Nat : N = Len(packets)
  BY DEF SimInv, SimTypes
<1>2. packets' \in Seq(SimPackets) /\ Len(packets') = N + 1 /\ N + 1 <= MaxPackets /\ N + 1 \in Nat
  BY <1>1, SimulationAssumption DEF SimInv, SimTypes, Reading
<1>3. /\ running \in Seq(Recorded(N)) /\ queue \in Seq(Entries(N)) /\ found \subseteq Markings(N)
      /\ next \in 1 .. (N + 1)
  BY <1>1 DEF SimInv, SimTypes
<1>4. Recorded(N) \subseteq Recorded(N + 1) /\ Entries(N) \subseteq Entries(N + 1) /\ Markings(N) \subseteq Markings(N + 1)
  <2>1. N <= N + 1
    OBVIOUS
  <2> QED
    BY <1>2, <2>1, RefsGrow
<1>5. running \in Seq(Recorded(N + 1)) /\ queue \in Seq(Entries(N + 1)) /\ found \subseteq Markings(N + 1)
      /\ next \in 1 .. (N + 1 + 1)
  <2>1. running \in Seq(Recorded(N + 1))
    BY <1>3, <1>4
  <2>2. queue \in Seq(Entries(N + 1))
    BY <1>3, <1>4
  <2> QED
    BY <1>3, <1>4, <2>1, <2>2
<1>6. SimTypes'
  BY <1>1, <1>2, <1>5 DEF SimInv, SimTypes
<1>7. MarkingsNameOrigin' /\ FoundKept' /\ (phase' = "done" => queue' = <<>>)
  BY DEF SimInv, MarkingsNameOrigin, FoundKept, Marked, Queued
<1> QED
  BY <1>6, <1>7 DEF SimInv

LEMMA RunKeeps ==
  ASSUME SimInv, phase = "simulate", running # <<>>, Executed,
         memory' \in [Spaces -> [Cells -> Refs(Len(packets))]],
         source' \in [Spaces -> [Cells -> Refs(Len(packets))]],
         HostBytesTraced', BlankUntouched', touched' \subseteq Buffers,
         queue' \in Seq(Entries(Len(packets))), found' \subseteq Markings(Len(packets)),
         MarkingsNameOrigin', FoundKept'
  PROVE  SimInv'
<1>1. running' \in Seq(Recorded(Len(packets)))
  BY DEF Executed, SimInv, SimTypes
<1>2. UNCHANGED <<phase, packets, commands, next, injected>>
  BY DEF Executed
<1>3. SimTypes'
  BY <1>1, <1>2 DEF SimInv, SimTypes
<1> QED
  BY <1>2, <1>3 DEF SimInv

\* A step that only moves bytes.
LEMMA MoveKeeps ==
  ASSUME SimInv, phase = "simulate", running # <<>>, Executed, UNCHANGED <<queue, found>>,
         NEW d \in Spaces, NEW a \in [Cells -> Refs(Len(packets))], NEW b \in [Cells -> Refs(Len(packets))],
         Follows(a, b), memory' = [memory EXCEPT ![d] = a], source' = [source EXCEPT ![d] = b],
         touched' \subseteq Buffers, touched \subseteq touched', d \in Buffers => d \in touched'
  PROVE  SimInv'
<1>0. BlankUntouched'
  <2> SUFFICES ASSUME NEW s \in Buffers, s \notin touched', NEW c \in Cells PROVE memory'[s][c] = None
    BY DEF BlankUntouched
  <2>1. s # d /\ s \notin touched /\ s \in Spaces
    BY CellFacts
  <2>2. memory'[s] = memory[s]
    BY <2>1 DEF SimInv, SimTypes
  <2> QED
    BY <2>1, <2>2 DEF SimInv, BlankUntouched
<1>1. PICK N \in Nat : N = Len(packets)
  BY DEF SimInv, SimTypes
<1>2. /\ memory' \in [Spaces -> [Cells -> Refs(N)]] /\ source' \in [Spaces -> [Cells -> Refs(N)]]
      /\ HostBytesTraced'
  <2>1. Len(packets) <= N
    BY <1>1
  <2> QED
    BY <1>1, <2>1, SpaceChanges
<1>3. UNCHANGED <<packets, next, injected>>
  BY DEF Executed
<1>4. MarkingsNameOrigin' /\ FoundKept'
  BY <1>3 DEF SimInv, MarkingsNameOrigin, FoundKept, Marked, Queued
<1>5. queue' \in Seq(Entries(N)) /\ found' \subseteq Markings(N)
  BY <1>1 DEF SimInv, SimTypes
<1> QED
  BY <1>0, <1>1, <1>2, <1>4, <1>5, RunKeeps

LEMMA HeadFacts ==
  ASSUME SimInv, running # <<>>
  PROVE  Head(running).command \in Commands /\ Head(running).packet \in 1 .. Len(packets)
<1>1. running \in Seq(Recorded(Len(packets)))
  BY DEF SimInv, SimTypes
<1>2. Head(running) \in Recorded(Len(packets))
  BY <1>1
<1> QED
  BY <1>2 DEF Recorded

LEMMA SpaceTypes ==
  ASSUME SimInv, NEW s \in Spaces
  PROVE  /\ Len(packets) \in Nat /\ memory[s] \in [Cells -> Refs(Len(packets))] /\ source[s] \in [Cells -> Refs(Len(packets))]
         /\ Follows(memory[s], source[s])
  BY SpaceFollows DEF SimInv, SimTypes

LEMMA KeepsCopy == ASSUME SimInv, VKCMDCOPYBUFFER PROVE SimInv'
<1>1. PICK c \in Commands : c = Head(running).command /\ c.op = "copy"
  BY HeadFacts DEF VKCMDCOPYBUFFER, Running
<1>2. c.src \in Buffers /\ c.dst \in Buffers /\ c.from \in Nat /\ c.to \in Nat /\ c.n \in Nat /\ c.from + c.n <= Size
  BY <1>1, SimulationAssumption
<1>3. c.src \in Spaces /\ c.dst \in Spaces
  BY <1>2, CellFacts
<1>4. PICK a : a = memcpy(memory[c.dst], memory[c.src], c.to, c.from, c.n)
  OBVIOUS
<1>5. PICK b : b = copy_sources(source[c.dst], source[c.src], c.to, c.from, c.n)
  OBVIOUS
<1>6. a \in [Cells -> Refs(Len(packets))] /\ b \in [Cells -> Refs(Len(packets))]
  BY <1>2, <1>3, <1>4, <1>5, SpaceTypes, CopyFacts
<1>7. Follows(a, b)
  BY <1>2, <1>3, <1>4, <1>5, SpaceTypes, CopyFollows
<1>8. memory' = [memory EXCEPT ![c.dst] = a] /\ source' = [source EXCEPT ![c.dst] = b]
  BY <1>1, <1>4, <1>5 DEF VKCMDCOPYBUFFER
<1>9. touched' \subseteq Buffers /\ touched \subseteq touched' /\ c.dst \in touched'
  BY <1>1, <1>2 DEF VKCMDCOPYBUFFER, SimInv, SimTypes
<1> QED
  BY <1>3, <1>6, <1>7, <1>8, <1>9, MoveKeeps DEF VKCMDCOPYBUFFER, Running

LEMMA KeepsRegister ==
  ASSUME SimInv, phase = "simulate", running # <<>>, Executed, UNCHANGED <<queue, found>>,
         NEW d \in Spaces, NEW first, NEW k, NEW p \in 1 .. Len(packets),
         memory' = [memory EXCEPT ![d] = register_source(memory[d], first, k, p)],
         source' = [source EXCEPT ![d] = register_source(source[d], first, k, p)],
         touched' \subseteq Buffers, touched \subseteq touched', d \in Buffers => d \in touched'
  PROVE  SimInv'
<1>1. /\ register_source(memory[d], first, k, p) \in [Cells -> Refs(Len(packets))]
      /\ register_source(source[d], first, k, p) \in [Cells -> Refs(Len(packets))]
  BY SpaceTypes, RegisterFacts
<1>2. Follows(register_source(memory[d], first, k, p), register_source(source[d], first, k, p))
  BY SpaceTypes, RegisterFollows
<1> QED
  BY <1>1, <1>2, MoveKeeps

LEMMA KeepsUpdateBuffer == ASSUME SimInv, VKCMDUPDATEBUFFER PROVE SimInv'
<1>1. PICK c \in Commands : c = Head(running).command /\ c.op = "update_buffer"
  BY HeadFacts DEF VKCMDUPDATEBUFFER, Running
<1>2. c.dst \in Buffers /\ c.dst \in Spaces
  BY <1>1, SimulationAssumption, CellFacts
<1>3. PICK p \in 1 .. Len(packets) : p = Head(running).packet
  BY HeadFacts DEF VKCMDUPDATEBUFFER, Running
<1>4. touched' \subseteq Buffers /\ touched \subseteq touched' /\ c.dst \in touched'
  BY <1>1, <1>2 DEF VKCMDUPDATEBUFFER, SimInv, SimTypes
<1>5. /\ memory' = [memory EXCEPT ![c.dst] = register_source(memory[c.dst], c.to, c.n, p)]
      /\ source' = [source EXCEPT ![c.dst] = register_source(source[c.dst], c.to, c.n, p)]
  BY <1>1, <1>3 DEF VKCMDUPDATEBUFFER
<1>6. phase = "simulate" /\ running # <<>> /\ Executed /\ UNCHANGED <<queue, found>>
  BY DEF VKCMDUPDATEBUFFER, Running
<1> QED
  BY <1>2, <1>3, <1>4, <1>5, <1>6, KeepsRegister

LEMMA KeepsPush == ASSUME SimInv, VKCMDPUSHCONSTANTS PROVE SimInv'
<1>1. PICK c \in Commands : c = Head(running).command
  BY HeadFacts DEF VKCMDPUSHCONSTANTS, Running
<1>3. PICK p \in 1 .. Len(packets) : p = Head(running).packet
  BY HeadFacts DEF VKCMDPUSHCONSTANTS, Running
<1>4. touched' \subseteq Buffers /\ touched \subseteq touched' /\ "push" \notin Buffers
  BY SimulationAssumption DEF VKCMDPUSHCONSTANTS, SimInv, SimTypes
<1>5. /\ memory' = [memory EXCEPT !["push"] = register_source(memory["push"], c.to, c.n, p)]
      /\ source' = [source EXCEPT !["push"] = register_source(source["push"], c.to, c.n, p)]
  BY <1>1, <1>3 DEF VKCMDPUSHCONSTANTS
<1>6. phase = "simulate" /\ running # <<>> /\ Executed /\ UNCHANGED <<queue, found>>
  BY DEF VKCMDPUSHCONSTANTS, Running
<1> QED
  BY <1>3, <1>4, <1>5, <1>6, CellFacts, KeepsRegister

LEMMA KeepsSpirvMove == ASSUME SimInv, run_spirv_move PROVE SimInv'
<1>1. PICK c \in Commands : c = Head(running).command /\ c.op = "move"
  BY HeadFacts DEF run_spirv_move, Running
<1>2. c.src \in Spaces /\ c.dst \in Buffers /\ c.from \in Nat /\ c.to \in Nat /\ c.n \in Nat /\ c.from + c.n <= Size
  BY <1>1, SimulationAssumption
<1>3. c.dst \in Spaces
  BY <1>2, CellFacts
<1>4. PICK a : a = memcpy(memory[c.dst], memory[c.src], c.to, c.from, c.n)
  OBVIOUS
<1>5. PICK b : b = copy_sources(source[c.dst], source[c.src], c.to, c.from, c.n)
  OBVIOUS
<1>6. a \in [Cells -> Refs(Len(packets))] /\ b \in [Cells -> Refs(Len(packets))]
  BY <1>2, <1>3, <1>4, <1>5, SpaceTypes, CopyFacts
<1>7. Follows(a, b)
  BY <1>2, <1>3, <1>4, <1>5, SpaceTypes, CopyFollows
<1>8. memory' = [memory EXCEPT ![c.dst] = a] /\ source' = [source EXCEPT ![c.dst] = b]
  BY <1>1, <1>4, <1>5 DEF run_spirv_move, merge_simulator_source_copies
<1>9. touched' \subseteq Buffers /\ touched \subseteq touched' /\ c.dst \in touched'
  BY <1>2 DEF run_spirv_move, SimulatorRanges, SimInv, SimTypes
<1> QED
  BY <1>2, <1>3, <1>6, <1>7, <1>8, <1>9, MoveKeeps DEF run_spirv_move, Running

LEMMA KeepsSpirvStore == ASSUME SimInv, run_spirv_store PROVE SimInv'
<1>1. PICK c \in Commands : c = Head(running).command /\ c.op \in {"store", "store_address", "store_pointer"}
  BY HeadFacts DEF run_spirv_store, Running
<1>2. c.dst \in Buffers /\ c.dst \in Spaces /\ c.to \in Nat /\ c.n \in Nat
  BY <1>1, SimulationAssumption, CellFacts
<1>3. PICK p \in 1 .. Len(packets) : p = Head(running).packet
  BY HeadFacts DEF run_spirv_store, Running
<1>4. touched' \subseteq Buffers /\ touched \subseteq touched' /\ c.dst \in touched'
  BY <1>2 DEF run_spirv_store, SimulatorRanges, SimInv, SimTypes
<1>5. PICK f : f = memory[c.dst] /\ f \in [Cells -> Refs(Len(packets))]
  BY <1>2, SpaceTypes
<1>6. PICK g : g = source[c.dst] /\ g \in [Cells -> Refs(Len(packets))]
  BY <1>2, SpaceTypes
<1>7. Follows(f, g)
  BY <1>2, <1>5, <1>6, SpaceTypes
<1>8. PICK computed : computed = [d \in Cells |-> IF d \in c.to .. c.to + c.n - 1 THEN None ELSE f[d]]
  OBVIOUS
<1>9. PICK a : a = IF c.op = "store_address" THEN register_source(f, c.to, c.n, p) ELSE computed
  OBVIOUS
<1>10. PICK b : b = merge_simulator_memory_metadata(merge_simulator_output_candidates(g, c, p), c, p)
  OBVIOUS
<1>11. memory' = [memory EXCEPT ![c.dst] = a] /\ source' = [source EXCEPT ![c.dst] = b]
  <2>1. source' = [source EXCEPT ![c.dst] = b]
    BY <1>1, <1>3, <1>6, <1>10 DEF run_spirv_store
  <2>2. memory' = [memory EXCEPT ![c.dst] = a]
    BY <1>1, <1>3, <1>5, <1>8, <1>9 DEF run_spirv_store
  <2> QED
    BY <2>1, <2>2
<1>12. computed \in [Cells -> Refs(Len(packets))]
  BY <1>5, <1>8 DEF Refs
<1>13. PICK h : h = register_source(g, c.to, c.n, p)
  OBVIOUS
<1>14. h \in [Cells -> Refs(Len(packets))] /\ register_source(f, c.to, c.n, p) \in [Cells -> Refs(Len(packets))]
  BY <1>2, <1>3, <1>5, <1>6, <1>13, SpaceTypes, RegisterFacts
<1>15. register_source(h, c.to, c.n, p) = h
  BY <1>13 DEF register_source
<1>16. b \in {g, h} /\ (c.op = "store_address" => b = h)
  BY <1>10, <1>13, <1>15 DEF merge_simulator_memory_metadata, merge_simulator_output_candidates
<1>17. Follows(a, b)
  <2>1. CASE c.op = "store_address"
    BY <1>7, <1>9, <1>13, <1>16, <2>1, RegisterFollows
  <2>2. CASE c.op # "store_address"
    <3>1. Follows(computed, g) /\ Follows(computed, h)
      BY <1>7, <1>8, <1>13 DEF Follows, register_source
    <3> QED
      BY <1>9, <1>16, <2>2, <3>1
  <2> QED
    BY <2>1, <2>2
<1>18. a \in [Cells -> Refs(Len(packets))] /\ b \in [Cells -> Refs(Len(packets))]
  BY <1>6, <1>9, <1>12, <1>14, <1>16
<1> QED
  BY <1>2, <1>4, <1>11, <1>17, <1>18, MoveKeeps DEF run_spirv_store, Running

\* A step that only looks at bytes.
LEMMA LookKeeps ==
  ASSUME SimInv, phase = "simulate", running # <<>>, Executed, UNCHANGED <<memory, source>>, touched' \subseteq Buffers,
         touched \subseteq touched', NEW ms, TrueMarkings(ms), Discover(ms)
  PROVE  SimInv'
<1>1. UNCHANGED <<packets, next, injected>>
  BY DEF Executed
<1>2. /\ queue' \in Seq(Entries(Len(packets))) /\ found' \subseteq Markings(Len(packets))
      /\ MarkingsNameOrigin' /\ FoundKept'
  BY <1>1, DiscoverKeeps
<1>3. HostBytesTraced' /\ BlankUntouched'
  BY DEF SimInv, HostBytesTraced, BlankUntouched
<1>4. memory' \in [Spaces -> [Cells -> Refs(Len(packets))]] /\ source' \in [Spaces -> [Cells -> Refs(Len(packets))]]
  BY DEF SimInv, SimTypes
<1> QED
  BY <1>2, <1>3, <1>4, RunKeeps

LEMMA NoMarking == TrueMarkings(<<>>)
<1>1. Len(<<>>) = 0 /\ DOMAIN <<>> = 1 .. 0
  OBVIOUS
<1> QED
  BY <1>1 DEF TrueMarkings

LEMMA KeepsSpirvLoad == ASSUME SimInv, run_spirv_load PROVE SimInv'
<1>1. PICK c \in Commands : c = Head(running).command /\ c.op \in {"load", "halves", "composite"}
  BY HeadFacts DEF run_spirv_load, Running
<1>2. c.src \in Spaces /\ c.from \in Nat
  BY <1>1, SimulationAssumption
<1>3. touched' \subseteq Buffers /\ UNCHANGED <<memory, source>> /\ phase = "simulate" /\ running # <<>>
      /\ touched \subseteq touched'
  BY DEF run_spirv_load, SimulatorRanges, Running, SimInv, SimTypes
<1>4. PICK ms : ms = collect_simulator_physical_address_markings(c)
  OBVIOUS
<1>5. TrueMarkings(ms)
  <2>0. SimTypes /\ HostBytesTraced
    BY DEF SimInv
  <2>1. CASE ~IsAddress(c.src, c.from)
    <3>1. ms = <<>>
      BY <1>1, <1>4, <2>1 DEF collect_simulator_physical_address_markings
    <3> QED
      BY <3>1, NoMarking
  <2>2. CASE IsAddress(c.src, c.from) /\ c.op = "load"
    <3>1. ms = <<PhysicalAddressMarking(c.src, c.from)>>
      BY <1>4, <2>2 DEF collect_simulator_physical_address_markings
    <3> QED
      BY <1>2, <2>0, <2>2, <3>1, MarkingFacts, OneMarking
  <2>3. CASE IsAddress(c.src, c.from) /\ c.op = "halves"
    <3>1. ms = collect_contiguous_device_address_marking(c.src, c.from, c.to)
      BY <1>4, <2>3 DEF collect_simulator_physical_address_markings
    <3>2. ms = <<PhysicalAddressMarking(c.src, c.from)>> \/ ms = <<>>
      BY <3>1 DEF collect_contiguous_device_address_marking
    <3> QED
      BY <1>2, <2>0, <2>3, <3>2, MarkingFacts, OneMarking, NoMarking
  <2>4. CASE IsAddress(c.src, c.from) /\ c.op = "composite"
    <3>1. ms = collect_composite_device_address_marking(c.src, c.from)
      BY <1>4, <2>4 DEF collect_simulator_physical_address_markings
    <3> QED
      BY <1>2, <2>0, <3>1, CompositeFacts
  <2> QED
    BY <1>1, <2>1, <2>2, <2>3, <2>4
<1>6. CASE Discover(ms) /\ Executed
  BY <1>3, <1>5, <1>6, LookKeeps
<1>7. CASE phase' = "died" /\ UNCHANGED <<packets, commands, running, queue, found, next, injected>>
  <2>1. SimTypes'
    BY <1>3, <1>7 DEF SimInv, SimTypes
  <2>2. HostBytesTraced' /\ BlankUntouched' /\ MarkingsNameOrigin' /\ FoundKept'
    BY <1>3, <1>7 DEF SimInv, HostBytesTraced, BlankUntouched, MarkingsNameOrigin, FoundKept, Marked, Queued
  <2> QED
    BY <1>7, <2>1, <2>2 DEF SimInv
<1> QED
  BY <1>1, <1>4, <1>6, <1>7 DEF run_spirv_load

LEMMA KeepsTrace == ASSUME SimInv, VKCMDTRACERAYSKHR PROVE SimInv'
<1>1. PICK c \in Commands : c = Head(running).command /\ c.op = "trace"
  BY HeadFacts DEF VKCMDTRACERAYSKHR, Running
<1>2. c.src \in Buffers /\ c.src \in Spaces /\ c.from \in Nat
  BY <1>1, SimulationAssumption, CellFacts
<1>3. touched' \subseteq Buffers /\ UNCHANGED <<memory, source>> /\ phase = "simulate" /\ running # <<>> /\ Executed
      /\ touched \subseteq touched'
  BY <1>1, <1>2 DEF VKCMDTRACERAYSKHR, Running, SimInv, SimTypes
<1>4. CASE IsAddress(c.src, c.from)
  <2>1. Discover(<<BufferMarking(c.src, c.from)>>)
    BY <1>1, <1>4 DEF VKCMDTRACERAYSKHR, collect_stages_from_sbt_region
  <2>2. TrueMarkings(<<BufferMarking(c.src, c.from)>>)
    BY <1>2, <1>4, MarkingFacts, OneMarking DEF SimInv
  <2> QED
    BY <1>3, <2>1, <2>2, LookKeeps
<1>5. CASE ~IsAddress(c.src, c.from)
  <2>1. UNCHANGED <<queue, found>>
    BY <1>1, <1>5 DEF VKCMDTRACERAYSKHR
  <2>2. UNCHANGED <<packets, next, injected>>
    BY <1>3 DEF Executed
  <2>3. HostBytesTraced' /\ BlankUntouched' /\ MarkingsNameOrigin' /\ FoundKept'
    BY <1>3, <2>1, <2>2 DEF SimInv, HostBytesTraced, BlankUntouched, MarkingsNameOrigin, FoundKept, Marked, Queued
  <2>4. /\ memory' \in [Spaces -> [Cells -> Refs(Len(packets))]] /\ source' \in [Spaces -> [Cells -> Refs(Len(packets))]]
        /\ queue' \in Seq(Entries(Len(packets))) /\ found' \subseteq Markings(Len(packets))
    BY <1>3, <2>1 DEF SimInv, SimTypes
  <2> QED
    BY <1>3, <2>3, <2>4, RunKeeps
<1> QED
  BY <1>4, <1>5

LEMMA KeepsBuildStructures == ASSUME SimInv, VKCMDBUILDACCELERATIONSTRUCTURESKHR PROVE SimInv'
<1>1. PICK c \in Commands : c = Head(running).command /\ c.op = "build"
  BY HeadFacts DEF VKCMDBUILDACCELERATIONSTRUCTURESKHR, Running
<1>2. c.src \in Buffers /\ c.src \in Spaces /\ c.from \in Nat
  BY <1>1, SimulationAssumption, CellFacts
<1>3. touched' \subseteq Buffers /\ UNCHANGED <<memory, source>> /\ phase = "simulate" /\ running # <<>> /\ Executed
      /\ touched \subseteq touched'
  BY <1>1, <1>2 DEF VKCMDBUILDACCELERATIONSTRUCTURESKHR, Running, SimInv, SimTypes
<1>4. PICK ms : ms = collect_acceleration_structure_instance_markings(c.src, c.from)
  OBVIOUS
<1>5. TrueMarkings(ms)
  <2>1. CASE IsAddress(c.src, c.from)
    BY <1>2, <1>4, <2>1, MarkingFacts, OneMarking DEF SimInv, collect_acceleration_structure_instance_markings
  <2>2. CASE ~IsAddress(c.src, c.from)
    BY <1>4, <2>2, NoMarking DEF collect_acceleration_structure_instance_markings
  <2> QED
    BY <2>1, <2>2
<1>6. Discover(ms)
  BY <1>1, <1>4 DEF VKCMDBUILDACCELERATIONSTRUCTURESKHR
<1> QED
  BY <1>3, <1>5, <1>6, LookKeeps

LEMMA KeepsBufferUpdate == ASSUME SimInv, NEW u \in Updates, buffer_update(u) PROVE SimInv'
<1>1. u.into \in Buffers /\ u.first \in Nat /\ u.n \in Nat /\ u.marks \in SUBSET Cells /\ u.into \in Spaces /\ u.first + u.n <= Size
  BY SimulationAssumption, CellFacts
<1>2. PICK N \in Nat : N = Len(packets) + 1
  BY DEF SimInv, SimTypes
<1>3. Len(packets) \in Nat /\ Len(packets) <= N /\ N \in 1 .. N
  BY <1>2 DEF SimInv, SimTypes
<1>4. PICK whole : whole = register_source(Blank, 0, Size, N)
  OBVIOUS
<1>5. PICK base : base = IF u.into \in touched THEN source[u.into] ELSE whole
  OBVIOUS
<1>6. PICK a : a = memcpy(memory[u.into], whole, u.first, u.first, u.n)
  OBVIOUS
<1>7. PICK b : b = register_source(base, u.first, u.n, N)
  OBVIOUS
<1>8. memory' = [memory EXCEPT ![u.into] = a] /\ source' = [source EXCEPT ![u.into] = b]
  BY <1>2, <1>4, <1>5, <1>6, <1>7 DEF buffer_update, read_patch_tracking
<1>9. Blank \in [Cells -> Refs(N)]
  BY DEF Blank, Refs
<1>10. whole \in [Cells -> Refs(N)]
  BY <1>3, <1>4, <1>9, RegisterFacts
<1>11. \A s \in Spaces : memory[s] \in [Cells -> Refs(N)] /\ source[s] \in [Cells -> Refs(N)]
  BY <1>3, RefsGrow, SpaceTypes
<1>12. base \in [Cells -> Refs(N)]
  BY <1>1, <1>5, <1>10, <1>11
<1>13. a \in [Cells -> Refs(N)] /\ b \in [Cells -> Refs(N)]
  BY <1>1, <1>3, <1>6, <1>7, <1>10, <1>11, <1>12, CopyFacts, RegisterFacts
<1>14. \A c \in Cells : whole[c] = Ref(N, c)
  BY <1>4, CellFacts DEF register_source, Cells
<1>15. Follows(a, b)
  <2> SUFFICES ASSUME NEW c \in Cells, a[c] # None PROVE b[c] = a[c]
    BY DEF Follows
  <2>1. CASE c \in u.first .. u.first + u.n - 1
    <3>1. u.first + (c - u.first) = c
      BY <1>1, CellFacts
    <3>2. a[c] = whole[c]
      BY <1>6, <2>1, <3>1 DEF memcpy
    <3>3. b[c] = Ref(N, c)
      BY <1>7, <2>1 DEF register_source
    <3> QED
      BY <1>14, <3>2, <3>3
  <2>2. CASE c \notin u.first .. u.first + u.n - 1
    <3>1. a[c] = memory[u.into][c] /\ b[c] = base[c]
      BY <1>6, <1>7, <2>2 DEF memcpy, register_source
    <3>2. u.into \in touched
      <4> SUFFICES ASSUME u.into \notin touched PROVE FALSE
        OBVIOUS
      <4>1. memory[u.into][c] = None
        BY <1>1 DEF SimInv, BlankUntouched
      <4> QED
        BY <3>1, <4>1
    <3>3. source[u.into][c] = memory[u.into][c]
      BY <1>1, <3>1 DEF SimInv, HostBytesTraced
    <3> QED
      BY <1>5, <3>1, <3>2, <3>3
  <2> QED
    BY <2>1, <2>2
<1>16. touched' = touched \cup {u.into} /\ packets' = Append(packets, [kind |-> "update", into |-> u.into, first |-> u.first, n |-> u.n, marks |-> u.marks])
       /\ UNCHANGED <<phase, commands, running, queue, found, next, injected>> /\ Reading
  BY DEF buffer_update
<1>17. /\ memory' \in [Spaces -> [Cells -> Refs(N)]] /\ source' \in [Spaces -> [Cells -> Refs(N)]]
       /\ HostBytesTraced'
  BY <1>1, <1>3, <1>8, <1>13, <1>15, SpaceChanges
<1>18. BlankUntouched'
  <2> SUFFICES ASSUME NEW s \in Buffers, s \notin touched', NEW c \in Cells PROVE memory'[s][c] = None
    BY DEF BlankUntouched
  <2>1. s # u.into /\ s \notin touched /\ s \in Spaces
    BY <1>16, CellFacts
  <2>2. memory'[s] = memory[s]
    BY <1>8, <2>1 DEF SimInv, SimTypes
  <2> QED
    BY <2>1, <2>2 DEF SimInv, BlankUntouched
<1>19. commands' \in Seq(Recorded(N))
  <2>1. Recorded(Len(packets)) \subseteq Recorded(N)
    BY <1>3, RefsGrow
  <2>2. commands \in Seq(Recorded(Len(packets)))
    BY DEF SimInv, SimTypes
  <2> QED
    BY <1>16, <2>1, <2>2
<1>20. [kind |-> "update", into |-> u.into, first |-> u.first, n |-> u.n, marks |-> u.marks] \in SimPackets
  BY <1>1 DEF SimPackets
<1>21. touched' \subseteq Buffers
  BY <1>1, <1>16 DEF SimInv, SimTypes
<1> QED
  BY <1>2, <1>16, <1>17, <1>18, <1>19, <1>20, <1>21, ReadKeeps

LEMMA KeepsStage == ASSUME SimInv, postprocess_vkCreateComputePipelines PROVE SimInv'
<1>1. PICK N \in Nat : N = Len(packets) + 1
  BY DEF SimInv, SimTypes
<1>2. Len(packets) \in Nat /\ Len(packets) <= N /\ N \in 1 .. N
  BY <1>1 DEF SimInv, SimTypes
<1>3. PICK a : a = register_source(memory["spec"], 0, Size, N)
  OBVIOUS
<1>4. PICK b : b = register_source(source["spec"], 0, Size, N)
  OBVIOUS
<1>5. memory["spec"] \in [Cells -> Refs(N)] /\ source["spec"] \in [Cells -> Refs(N)] /\ Follows(memory["spec"], source["spec"])
  BY <1>2, RefsGrow, CellFacts, SpaceTypes
<1>6. a \in [Cells -> Refs(N)] /\ b \in [Cells -> Refs(N)] /\ Follows(a, b)
  BY <1>2, <1>3, <1>4, <1>5, RegisterFacts, RegisterFollows
<1>7. memory' = [memory EXCEPT !["spec"] = a] /\ source' = [source EXCEPT !["spec"] = b]
  BY <1>1, <1>3, <1>4 DEF postprocess_vkCreateComputePipelines
<1>8. packets' = Append(packets, [kind |-> "stage", into |-> "spec", first |-> 0, n |-> Size, marks |-> {}])
      /\ UNCHANGED <<phase, touched, commands, running, queue, found, next, injected>> /\ Reading
  BY DEF postprocess_vkCreateComputePipelines
<1>9. /\ memory' \in [Spaces -> [Cells -> Refs(N)]] /\ source' \in [Spaces -> [Cells -> Refs(N)]]
      /\ HostBytesTraced'
  BY <1>2, <1>6, <1>7, CellFacts, SpaceChanges
<1>10. BlankUntouched'
  <2> SUFFICES ASSUME NEW s \in Buffers, s \notin touched', NEW c \in Cells PROVE memory'[s][c] = None
    BY DEF BlankUntouched
  <2>1. s # "spec" /\ s \notin touched /\ s \in Spaces
    BY <1>8, CellFacts, SimulationAssumption
  <2>2. memory'[s] = memory[s]
    BY <1>7, <2>1 DEF SimInv, SimTypes
  <2> QED
    BY <2>1, <2>2 DEF SimInv, BlankUntouched
<1>11. commands' \in Seq(Recorded(N))
  <2>1. Recorded(Len(packets)) \subseteq Recorded(N)
    BY <1>2, RefsGrow
  <2>2. commands \in Seq(Recorded(Len(packets)))
    BY DEF SimInv, SimTypes
  <2> QED
    BY <1>8, <2>1, <2>2
<1>12. [kind |-> "stage", into |-> "spec", first |-> 0, n |-> Size, marks |-> {}] \in SimPackets
  BY CellFacts DEF SimPackets
<1>13. touched' \subseteq Buffers
  BY <1>8 DEF SimInv, SimTypes
<1> QED
  BY <1>1, <1>8, <1>9, <1>10, <1>11, <1>12, <1>13, ReadKeeps

LEMMA KeepsRecord == ASSUME SimInv, NEW c \in Commands, Record(c) PROVE SimInv'
<1>1. PICK N \in Nat : N = Len(packets) + 1
  BY DEF SimInv, SimTypes
<1>2. Len(packets) \in Nat /\ Len(packets) <= N /\ N \in 1 .. N
  BY <1>1 DEF SimInv, SimTypes
<1>3. PICK x : x = [kind |-> c.op, into |-> c.dst, first |-> c.to, n |-> c.n, marks |-> {}]
  OBVIOUS
<1>4. PICK y : y = [command |-> c, packet |-> N]
  OBVIOUS
<1>5. packets' = Append(packets, x) /\ commands' = Append(commands, y) /\ Reading
      /\ UNCHANGED <<phase, memory, source, touched, running, queue, found, next, injected>>
  BY <1>1, <1>3, <1>4 DEF Record
<1>6. x \in SimPackets
  BY <1>3, SimulationAssumption DEF SimPackets
<1>7. commands' \in Seq(Recorded(N))
  <2>1. Recorded(Len(packets)) \subseteq Recorded(N)
    BY <1>2, RefsGrow
  <2>2. commands \in Seq(Recorded(Len(packets)))
    BY DEF SimInv, SimTypes
  <2>3. y \in Recorded(N)
    BY <1>2, <1>4 DEF Recorded
  <2> QED
    BY <1>5, <2>1, <2>2, <2>3
<1>8. memory' \in [Spaces -> [Cells -> Refs(N)]] /\ source' \in [Spaces -> [Cells -> Refs(N)]]
  <2>1. [Cells -> Refs(Len(packets))] \subseteq [Cells -> Refs(N)]
    BY <1>2, RefsGrow
  <2>2. memory \in [Spaces -> [Cells -> Refs(Len(packets))]] /\ source \in [Spaces -> [Cells -> Refs(Len(packets))]]
    BY DEF SimInv, SimTypes
  <2> QED
    BY <1>5, <2>1, <2>2
<1>9. HostBytesTraced' /\ BlankUntouched' /\ touched' \subseteq Buffers
  BY <1>5 DEF SimInv, SimTypes, HostBytesTraced, BlankUntouched
<1> QED
  BY <1>1, <1>5, <1>6, <1>7, <1>8, <1>9, ReadKeeps

LEMMA KeepsQueueSubmit == ASSUME SimInv, postprocess_vkQueueSubmit PROVE SimInv'
<1>1. Len(packets) \in Nat /\ Len(packets) <= Len(packets)
  BY DEF SimInv, SimTypes
<1>2. Blank \in [Cells -> Refs(Len(packets))] /\ Follows(Blank, Blank)
  BY DEF Blank, Refs, Follows
<1>3. /\ memory' \in [Spaces -> [Cells -> Refs(Len(packets))]] /\ source' \in [Spaces -> [Cells -> Refs(Len(packets))]]
      /\ HostBytesTraced'
  <2>1. memory' = [memory EXCEPT !["push"] = Blank] /\ source' = [source EXCEPT !["push"] = Blank]
    BY DEF postprocess_vkQueueSubmit
  <2> QED
    BY <1>1, <1>2, <2>1, CellFacts, SpaceChanges
<1>4. running' = commands /\ commands' = <<>> /\ UNCHANGED <<phase, packets, touched, queue, found, next, injected>>
  BY DEF postprocess_vkQueueSubmit
<1>5. SimTypes'
  BY <1>3, <1>4 DEF SimInv, SimTypes
<1>6. BlankUntouched'
  <2> SUFFICES ASSUME NEW s \in Buffers, s \notin touched', NEW c \in Cells PROVE memory'[s][c] = None
    BY DEF BlankUntouched
  <2>1. s # "push" /\ s \notin touched /\ s \in Spaces
    BY <1>4, CellFacts, SimulationAssumption
  <2>2. memory'[s] = memory[s]
    BY <2>1 DEF SimInv, SimTypes, postprocess_vkQueueSubmit
  <2> QED
    BY <2>1, <2>2 DEF SimInv, BlankUntouched
<1>7. MarkingsNameOrigin' /\ FoundKept' /\ (phase' = "done" => queue' = <<>>)
  BY <1>4 DEF SimInv, MarkingsNameOrigin, FoundKept, Marked, Queued
<1> QED
  BY <1>3, <1>5, <1>6, <1>7 DEF SimInv

-----------------------------------------------------------------------------
(* The second pass. *)

LEMMA WriteKeeps ==
  ASSUME SimInv, phase = "inject", NEW marks \in SUBSET Cells, Written(marks), next \in DOMAIN packets,
         queue' \in Seq(Entries(Len(packets))),
         \A f \in found : Queued(f, queue) => Queued(f, queue') \/ (f.packet = next /\ f.offset \in marks)
  PROVE  SimInv'
<1>1. next' = next + 1 /\ injected' = Append(injected, marks)
      /\ UNCHANGED <<phase, packets, memory, source, touched, commands, running, found>>
  BY DEF Written
<1>2. PICK N \in Nat : N = Len(packets)
  BY DEF SimInv, SimTypes
<1>3. next \in 1 .. N /\ injected \in Seq(SUBSET Cells) /\ Len(injected) = next - 1 /\ next \in Nat
  BY <1>2 DEF SimInv, SimTypes
<1>4. injected' \in Seq(SUBSET Cells) /\ Len(injected') = next' - 1 /\ next' \in 1 .. (N + 1)
  BY <1>1, <1>3
<1>5. injected'[next] = marks /\ \A p \in 1 .. (next - 1) : injected'[p] = injected[p]
  BY <1>1, <1>3
<1>6. SimTypes'
  BY <1>1, <1>2, <1>4 DEF SimInv, SimTypes
<1>7. ASSUME NEW f \in found PROVE (f.packet < next' /\ f.offset \in injected'[f.packet]) \/ Queued(f, queue')
  <2>1. f.packet \in 1 .. N
    BY <1>2 DEF SimInv, SimTypes, Markings
  <2>2. CASE Marked(f)
    BY <1>1, <1>3, <1>5, <2>1, <2>2 DEF Marked
  <2>3. CASE Queued(f, queue)
    BY <1>1, <1>3, <1>5, <2>1, <2>3
  <2> QED
    BY <2>2, <2>3 DEF SimInv, FoundKept
<1>8. FoundKept'
  BY <1>1, <1>7 DEF FoundKept, Marked, Queued
<1>9. HostBytesTraced' /\ BlankUntouched' /\ MarkingsNameOrigin' /\ phase' # "done"
  BY <1>1 DEF SimInv, HostBytesTraced, BlankUntouched, MarkingsNameOrigin
<1> QED
  BY <1>6, <1>8, <1>9 DEF SimInv

LEMMA RemoveEntry ==
  ASSUME NEW n \in Nat, NEW q \in Seq(Entries(n)), NEW i \in 1 .. Len(q),
         NEW r, r = [j \in 1 .. Len(q) - 1 |-> IF j < i THEN q[j] ELSE q[j + 1]]
  PROVE  /\ r \in Seq(Entries(n))
         /\ \A f : Queued(f, q) => Queued(f, r) \/ (q[i].packet = f.packet /\ f.offset \in q[i].marks)
<1>1. PICK L \in Nat : L = Len(q) - 1 /\ Len(q) = L + 1
  <2>1. PICK N \in Nat : N = Len(q)
    OBVIOUS
  <2>2. i \in 1 .. N
    BY <2>1
  <2>3. N - 1 \in Nat /\ N = (N - 1) + 1
    BY <2>2
  <2> QED
    BY <2>1, <2>3
<1>2. \A j \in 1 .. L : (IF j < i THEN q[j] ELSE q[j + 1]) \in Entries(n)
  BY <1>1
<1>3. r \in Seq(Entries(n)) /\ Len(r) = L
  BY <1>1, <1>2
<1>4. ASSUME NEW f, NEW k \in 1 .. Len(q), q[k].packet = f.packet, f.offset \in q[k].marks, k # i
      PROVE  Queued(f, r)
  <2>1. CASE k < i
    <3>1. k \in 1 .. L /\ r[k] = q[k]
      BY <1>1, <2>1
    <3> QED
      BY <1>3, <1>4, <3>1 DEF Queued
  <2>2. CASE k > i
    <3>1. k - 1 \in 1 .. L /\ ~(k - 1 < i) /\ k - 1 + 1 = k
      BY <1>1, <2>2
    <3>2. r[k - 1] = q[k]
      BY <1>1, <3>1
    <3> QED
      BY <1>3, <1>4, <3>1, <3>2 DEF Queued
  <2> QED
    BY <1>4, <2>1, <2>2
<1> QED
  BY <1>3, <1>4 DEF Queued

LEMMA KeepsInject == ASSUME SimInv, NEW kinds, Writing(kinds), NEW targets, Inject(targets) PROVE SimInv'
<1>1. phase = "inject" /\ next \in DOMAIN packets
  BY DEF Writing
<1>2. packets[next].marks \in SUBSET Cells
  <2>1. packets \in Seq(SimPackets)
    BY DEF SimInv, SimTypes
  <2>2. packets[next] \in SimPackets
    BY <1>1, <2>1
  <2> QED
    BY <2>2 DEF SimPackets
<1>3. queue \in Seq(Entries(Len(packets))) /\ DOMAIN queue = 1 .. Len(queue) /\ Len(packets) \in Nat
  BY DEF SimInv, SimTypes
<1>4. CASE queue' = queue /\ Written(packets[next].marks)
  BY <1>1, <1>2, <1>3, <1>4, WriteKeeps
<1>5. ASSUME NEW i \in DOMAIN queue, queue[i].packet = next,
             queue' = [j \in 1 .. Len(queue) - 1 |-> IF j < i THEN queue[j] ELSE queue[j + 1]],
             Written(IF compare_marked_offsets(packets[next].marks, queue[i].marks) = "none"
                     THEN packets[next].marks ELSE queue[i].marks)
      PROVE  SimInv'
  <2>1. queue[i] \in Entries(Len(packets))
    BY <1>3, <1>5
  <2>2. queue[i].marks \in SUBSET Cells
    BY <2>1 DEF Entries
  <2>3. (IF compare_marked_offsets(packets[next].marks, queue[i].marks) = "none" THEN packets[next].marks ELSE queue[i].marks)
          = queue[i].marks
    BY DEF compare_marked_offsets
  <2>4. Written(queue[i].marks)
    BY <1>5, <2>3
  <2>5. /\ queue' \in Seq(Entries(Len(packets)))
        /\ \A f : Queued(f, queue) => Queued(f, queue') \/ (queue[i].packet = f.packet /\ f.offset \in queue[i].marks)
    <3>1. i \in 1 .. Len(queue)
      BY <1>3, <1>5
    <3> HIDE DEF Entries, Queued
    <3> QED
      BY <1>3, <1>5, <3>1, RemoveEntry, ZenonT(60)
  <2> QED
    BY <1>1, <1>5, <2>2, <2>4, <2>5, WriteKeeps
<1> QED
  BY <1>4, <1>5 DEF Inject

LEMMA SimInitHolds == SimInit => SimInv
<1> SUFFICES ASSUME SimInit PROVE SimInv
  OBVIOUS
<1>1. Len(packets) = 0 /\ 0 <= MaxPackets
  BY SimulationAssumption DEF SimInit
<1>2. Blank \in [Cells -> Refs(0)] /\ \A c \in Cells : Blank[c] = None
  BY DEF Blank, Refs
<1>3. memory \in [Spaces -> [Cells -> Refs(0)]] /\ source \in [Spaces -> [Cells -> Refs(0)]]
  BY <1>2 DEF SimInit
<1>4. SimTypes
  BY <1>1, <1>3 DEF SimInit, SimTypes
<1>5. HostBytesTraced /\ BlankUntouched
  BY <1>2, CellFacts DEF SimInit, HostBytesTraced, BlankUntouched
<1> QED
  BY <1>4, <1>5 DEF SimInit, SimInv, MarkingsNameOrigin, FoundKept

LEMMA SimNextKeeps == SimInv /\ [SimNext]_simvars => SimInv'
<1> SUFFICES ASSUME SimInv, [SimNext]_simvars PROVE SimInv'
  OBVIOUS
<1>1. CASE UNCHANGED simvars
  BY <1>1 DEF simvars, SimInv, SimTypes, HostBytesTraced, BlankUntouched, MarkingsNameOrigin, FoundKept, Marked, Queued
<1>2. CASE \E u \in Updates : buffer_update(u)
  BY <1>2, KeepsBufferUpdate
<1>3. CASE postprocess_vkCreateComputePipelines
  BY <1>3, KeepsStage
<1>4. CASE postprocess
  BY <1>4, KeepsRecord DEF postprocess, postprocess_copy_buffer, postprocess_push_constants, postprocess_compute_command,
                           postprocess_vkCmdTraceRaysKHR, postprocess_vkCmdBuildAccelerationStructuresKHR
<1>5. CASE postprocess_vkQueueSubmit
  BY <1>5, KeepsQueueSubmit
<1>6. CASE execute_commands
  BY <1>6, KeepsCopy, KeepsUpdateBuffer, KeepsPush, KeepsSpirvLoad, KeepsSpirvMove, KeepsSpirvStore, KeepsTrace,
     KeepsBuildStructures DEF execute_commands
<1>7. CASE StartInjecting \/ Finish
  <2>1. /\ UNCHANGED <<packets, memory, source, touched, commands, running, queue, found, next, injected>>
        /\ phase' \in {"inject", "done", "died"} /\ (phase' = "done" => queue = <<>>)
    BY <1>7 DEF StartInjecting, Finish
  <2>2. SimTypes'
    BY <2>1 DEF SimInv, SimTypes
  <2>3. HostBytesTraced' /\ BlankUntouched' /\ MarkingsNameOrigin' /\ FoundKept'
    BY <2>1 DEF SimInv, HostBytesTraced, BlankUntouched, MarkingsNameOrigin, FoundKept, Marked, Queued
  <2> QED
    BY <2>1, <2>2, <2>3 DEF SimInv
<1>8. CASE WriteOutput
  <2>1. CASE maybe_write_rewritten_update_packet \/ maybe_patch_push_constants_info \/ output_vkCreateComputePipelines
    BY <2>1, KeepsInject DEF maybe_write_rewritten_update_packet, maybe_patch_push_constants_info, output_vkCreateComputePipelines
  <2>2. CASE WriteOther
    <3>1. phase = "inject" /\ next \in DOMAIN packets /\ queue' = queue /\ Written(packets[next].marks)
      BY <2>2 DEF WriteOther, Writing
    <3>2. packets \in Seq(SimPackets) /\ queue \in Seq(Entries(Len(packets)))
      BY DEF SimInv, SimTypes
    <3>3. packets[next] \in SimPackets
      BY <3>1, <3>2
    <3>4. packets[next].marks \in SUBSET Cells
      BY <3>3 DEF SimPackets
    <3> QED
      BY <3>1, <3>2, <3>4, WriteKeeps
  <2> QED
    BY <1>8, <2>1, <2>2 DEF WriteOutput
<1> QED
  BY <1>1, <1>2, <1>3, <1>4, <1>5, <1>6, <1>7, <1>8 DEF SimNext

\* However bytes travel between updates, copies, push constants and shaders,
\* host_write_regions attributes every byte the host wrote to the packet and offset it
\* came with, and a marking names that packet (and, for an address a shader used, that
\* offset): copy_sources, register_source, try_get_reference.
THEOREM MarkingsAreSound == SimSpec => []MarkingsSound
<1>1. SimSpec => []SimInv
  BY SimInitHolds, SimNextKeeps, PTL DEF SimSpec
<1> QED
  BY <1>1, SimInvSound, PTL

\* If the second pass ends without an error, every address that a shader used is marked
\* in the packet that carried it (merge_rewrite_markings and the writers of packets).
THEOREM MarkingsAreInjected == SimSpec => []FoundAreInjected
<1>1. SimSpec => []SimInv
  BY SimInitHolds, SimNextKeeps, PTL DEF SimSpec
<1> QED
  BY <1>1, SimInvInjected, PTL
===============================================================================
