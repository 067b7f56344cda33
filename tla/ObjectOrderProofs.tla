-------------------------- MODULE ObjectOrderProofs --------------------------
(***************************************************************************)
(* The order of the commands on one object, for any number of threads,     *)
(* objects and calls: a command starts when those that touched its object  *)
(* before are complete, and the replayed object is alive.                  *)
(*                                                                         *)
(* The argument.  External synchronization leaves a thread that creates or *)
(* touches an object alone with it, so the packets that made or touched an *)
(* object form a chain: each was written by a call that had seen all the   *)
(* ones before it return.  last_modified names the last of the chain, and  *)
(* a packet that names the object carries it.  read_handle waits for that  *)
(* one packet; it was itself only executed after those before it.  A       *)
(* destroy comes after every packet that names the object, and its local   *)
(* barrier waits for all of them.                                          *)
(***************************************************************************)
EXTENDS BarrierProofs

\* The packets of a stream by number, the open one included.
Numbers(i) == {k \in 0 .. Len(trace[i]) : k < Len(trace[i]) \/ open[i] # NoPacket}
At(i, k) == IF k < Len(trace[i]) THEN trace[i][k + 1] ELSE open[i]

Makes(kind) == Touches(kind) \/ kind = "create"

\* The open packet of a call that is before its driver call; of a create it has made nothing yet.
Running(i, k) == k = Len(trace[i]) /\ pc[i] = "execute"
Unmade(i, k) == Running(i, k) /\ call[i].kind = "create"

\* The packets that name an object, and those that made or touched it.
Names(i, o) == {k \in Numbers(i) : At(i, k).obj = o}
Marks(i, o) == {k \in Names(i, o) : Makes(At(i, k).kind) /\ ~Unmade(i, k)}

Uses(t, o) == InCall(t) /\ o \in {call[t].obj, call[t].upd}

\* The packet of the call that t is in.
Own(t, i, k) == i = t /\ k = Len(trace[t]) /\ pc[t] \in {"execute", "push", "end"}

-----------------------------------------------------------------------------
\* External synchronization: a thread that makes or touches an object is alone with it.
Exclusive ==
  \A t, u \in Threads : t # u /\ InCall(t) /\ Makes(call[t].kind) => ~Uses(u, call[t].obj)

\* What the open packet of a call names, and which calls write an update first.
OpenNames(t) ==
  /\ pc[t] = "execute" => open[t].obj = call[t].obj
  /\ pc[t] \in {"push", "end"} => \/ open[t].obj = call[t].obj
                                  \/ open[t].obj = NoObject /\ call[t].kind = "create"
  /\ InCall(t) => call[t].upd # call[t].obj /\ (call[t].upd \in Objects => call[t].kind = "submit")

\* An object that was never made is named by unmade creates only.
Unborn(o) ==
  state[o] = "uninitialized" => \A i \in Threads : \A k \in Names(i, o) : Unmade(i, k)

\* last_modified of an object that was made is the last packet that made or touched it.
LastMark(o) ==
  state[o] # "uninitialized" =>
    LET r == lastModified[o]
    IN /\ r.thread \in Threads /\ r.packet \in Marks(r.thread, o)
       /\ \A i \in Threads : \A k \in Marks(i, o) :
            (i = r.thread /\ k = r.packet) \/ k < At(r.thread, r.packet).seen[i]

\* An object is made by one packet.
MadeOnce(o) ==
  /\ \A i, j \in Threads : \A k \in Marks(i, o), l \in Marks(j, o) :
       At(i, k).kind = "create" /\ At(j, l).kind = "create" => i = j /\ k = l
  /\ state[o] # "uninitialized" => \E i \in Threads : \E k \in Marks(i, o) : At(i, k).kind = "create"

\* It is destroyed once a packet that destroys it has been executed.
Unmakes(o) ==
  \A i \in Threads : \A k \in Names(i, o) :
    At(i, k).kind = "destroy" => state[o] = "destroyed" \/ Running(i, k)

\* A call that had returned, of those counted in seen, made the object.
Born(streams, o, seen) ==
  \E c \in Threads : \E m \in 0 .. seen[c] - 1 :
    streams[c][m + 1].obj = o /\ streams[c][m + 1].kind = "create"

\* What a thread in a call knows of the objects it uses.
CallOf(t, o) ==
  Uses(t, o) =>
    /\ \A i \in Threads : \A k \in Marks(i, o) : k < call[t].seen[i] \/ Own(t, i, k)
    /\ o = call[t].obj /\ Makes(call[t].kind) =>
         \A i \in Threads : \A k \in Names(i, o) : k < call[t].seen[i] \/ Own(t, i, k)
    /\ call[t].kind = "create" => pc[t] = "end" \/ state[o] = "uninitialized"
    /\ call[t].kind # "create" =>
         /\ state[o] # "uninitialized" /\ Born(trace, o, call[t].seen)
         /\ state[o] = "destroyed" => pc[t] = "end"

\* What a packet that names an object carries: of the packets its call had seen return, a create
\* has none that touched the object, and any other has its create and the last that touched it.
Carries(streams, p) ==
  /\ \A j \in Threads : p.seen[j] <= Len(streams[j])
  /\ p.kind = "create" =>
       \A j \in Threads : \A l \in 0 .. p.seen[j] - 1 :
         streams[j][l + 1].obj = p.obj => ~Makes(streams[j][l + 1].kind)
  /\ p.kind # "create" =>
       /\ Born(streams, p.obj, p.seen)
       /\ p.req.thread \in Threads /\ p.req.packet < p.seen[p.req.thread]
       /\ streams[p.req.thread][p.req.packet + 1].obj = p.obj
       /\ \A j \in Threads : \A l \in 0 .. p.seen[j] - 1 :
            streams[j][l + 1].obj = p.obj /\ Makes(streams[j][l + 1].kind) =>
              \/ j = p.req.thread /\ l = p.req.packet
              \/ l < streams[p.req.thread][p.req.packet + 1].seen[j]

\* A destroy comes after every other packet that names its object.
NamedBefore(i, k) ==
  At(i, k).kind = "destroy" =>
    \A j \in Threads : \A l \in Names(j, At(i, k).obj) : l < At(i, k).seen[j] \/ (j = i /\ l = k)

PacketOf(i, k) == At(i, k).seen[i] <= k /\ Carries(trace, At(i, k)) /\ NamedBefore(i, k)

ObjectCalls ==
  /\ Exclusive
  /\ \A t \in Threads : OpenNames(t) /\ \A o \in Objects : CallOf(t, o)
ObjectMarks == \A o \in Objects : Unborn(o) /\ LastMark(o) /\ MadeOnce(o) /\ Unmakes(o)
ObjectPackets == \A i \in Threads : \A o \in Objects : \A k \in Names(i, o) : PacketOf(i, k)

\* Barriers name nothing, and updates destroy nothing.
NamingTypes ==
  \A i \in Threads : \A j \in 1 .. Len(trace[i]) :
    /\ trace[i][j].type = "barrier" => trace[i][j].obj = NoObject
    /\ trace[i][j].kind = "destroy" => trace[i][j].type = "call"

ObjectInv == ObjectCalls /\ ObjectMarks /\ ObjectPackets /\ NamingTypes

-----------------------------------------------------------------------------
\* Packets a replay thread has passed read_handle of, and those it has executed.
Started(t, j) ==
  \/ j <= completed[t]
  \/ j = completed[t] + 1 /\ packetOpen[t] /\ rpc[t] \in {"execute", "step"}
Executed(t, j) ==
  \/ j <= completed[t]
  \/ j = completed[t] + 1 /\ packetOpen[t] /\ rpc[t] = "step"

Ordered ==
  \A t \in Threads : \A j \in 1 .. Len(trace[t]) :
    Started(t, j) /\ trace[t][j].obj # NoObject =>
      \A i \in Threads : \A l \in 0 .. trace[t][j].seen[i] - 1 :
        trace[i][l + 1].obj = trace[t][j].obj /\ Makes(trace[i][l + 1].kind) => completed[i] > l

DidTo(kind, o) ==
  \E t \in Threads : \E j \in 1 .. Len(trace[t]) :
    Executed(t, j) /\ trace[t][j].obj = o /\ trace[t][j].kind = kind

Alive ==
  \A o \in Objects :
    robj[o] = IF ~DidTo("create", o) THEN "uninitialized"
              ELSE IF DidTo("destroy", o) THEN "destroyed" ELSE "created"

LifeInv == OrderInv /\ ObjectInv /\ (phase = "replay" => Ordered /\ Alive)

(***************************************************************************)
(* Packets by number, and what stays true of them while streams grow.      *)
(***************************************************************************)
LEMMA NumberedPacket ==
  ASSUME CaptureTypeOK, NEW i \in Threads, NEW k \in Numbers(i)
  PROVE  /\ k \in Nat /\ Len(trace[i]) \in Nat /\ k <= Len(trace[i])
         /\ At(i, k) \in Packet /\ At(i, k).seen \in [Threads -> Nat]
         /\ k # Len(trace[i]) => k + 1 \in 1 .. Len(trace[i]) /\ At(i, k) = trace[i][k + 1]
         /\ k = Len(trace[i]) => At(i, k) = open[i] /\ open[i] \in Packet
<1>1. k \in Nat /\ Len(trace[i]) \in Nat /\ k <= Len(trace[i])
  BY BasicTypes DEF Numbers
<1>2. k # Len(trace[i]) => k + 1 \in 1 .. Len(trace[i]) /\ At(i, k) = trace[i][k + 1]
  BY <1>1 DEF At
<1>3. k = Len(trace[i]) => At(i, k) = open[i] /\ open[i] \in Packet
  BY <1>1 DEF At, Numbers, CaptureTypeOK
<1>4. At(i, k) \in Packet
  BY <1>1, <1>2, <1>3, PacketAt
<1>5. At(i, k).seen \in [Threads -> Nat]
  BY <1>4 DEF Packet
<1> QED
  BY <1>1, <1>2, <1>3, <1>4, <1>5

LEMMA WrittenPacket ==
  ASSUME CaptureTypeOK, NEW i \in Threads, NEW k \in Nat, k < Len(trace[i])
  PROVE  /\ k \in Numbers(i) /\ At(i, k) = trace[i][k + 1]
         /\ ~Running(i, k) /\ ~Unmade(i, k)
         /\ \A o : trace[i][k + 1].obj = o => k \in Names(i, o)
         /\ \A o : trace[i][k + 1].obj = o /\ Makes(trace[i][k + 1].kind) => k \in Marks(i, o)
<1>1. k \in Numbers(i) /\ At(i, k) = trace[i][k + 1] /\ ~Running(i, k) /\ ~Unmade(i, k)
  BY BasicTypes DEF Numbers, At, Running, Unmade
<1> QED
  BY <1>1 DEF Names, Marks

Grown ==
  \A i \in Threads : /\ Len(trace[i]) \in Nat /\ Len(trace'[i]) \in Nat /\ Len(trace[i]) <= Len(trace'[i])
                     /\ \A j \in 1 .. Len(trace[i]) : trace'[i][j] = trace[i][j]

LEMMA BornGrows ==
  ASSUME Grown, NEW s \in [Threads -> Nat], \A j \in Threads : s[j] <= Len(trace[j]), NEW o,
         Born(trace, o, s)
  PROVE  Born(trace', o, s)
<1>0. PICK c \in Threads :
        \E m \in 0 .. s[c] - 1 : trace[c][m + 1].obj = o /\ trace[c][m + 1].kind = "create"
  BY DEF Born
<1>1. PICK m \in 0 .. s[c] - 1 : trace[c][m + 1].obj = o /\ trace[c][m + 1].kind = "create"
  BY <1>0
<1>2. s[c] \in Nat /\ m + 1 \in 1 .. Len(trace[c])
  BY DEF Grown
<1> QED
  BY <1>1, <1>2 DEF Born, Grown

LEMMA CarriesGrows ==
  ASSUME Grown, NEW p \in Packet, Carries(trace, p)
  PROVE  Carries(trace', p)
<1> DEFINE s == p.seen
           r == p.req
<1>1. s \in [Threads -> Nat] /\ r \in Place
  BY DEF Packet
<1>2. /\ \A j \in Threads : s[j] \in Nat /\ s[j] <= Len(trace[j]) /\ s[j] <= Len(trace'[j])
      /\ r.packet \in Nat
  BY <1>1 DEF Carries, Grown, Place
<1>3. \A j \in Threads : \A l \in 0 .. s[j] - 1 : trace'[j][l + 1] = trace[j][l + 1]
  <2> SUFFICES ASSUME NEW j \in Threads, NEW l \in 0 .. s[j] - 1 PROVE trace'[j][l + 1] = trace[j][l + 1]
    OBVIOUS
  <2>1. l + 1 \in 1 .. Len(trace[j])
    BY <1>2 DEF Grown
  <2> QED
    BY <2>1 DEF Grown
<1>4. CASE p.kind = "create"
  BY <1>2, <1>3, <1>4 DEF Carries
<1>5. CASE p.kind # "create"
  <2>1. Born(trace', p.obj, s)
    BY <1>1, <1>2, <1>5, BornGrows DEF Carries
  <2>2. r.thread \in Threads /\ r.packet < s[r.thread]
    BY <1>5 DEF Carries
  <2>3. r.packet \in 0 .. s[r.thread] - 1
    BY <1>2, <2>2
  <2>4. trace'[r.thread][r.packet + 1] = trace[r.thread][r.packet + 1]
    BY <1>3, <2>2, <2>3
  <2> QED
    BY <1>2, <1>3, <1>5, <2>1, <2>2, <2>4 DEF Carries
<1> QED
  BY <1>4, <1>5

\* What is seen of the streams that a step does not change.
LEMMA SameStream ==
  ASSUME NEW i \in Threads, trace'[i] = trace[i], open'[i] = open[i]
  PROVE  /\ Numbers(i)' = Numbers(i)
         /\ \A k : At(i, k)' = At(i, k)
         /\ \A o : Names(i, o)' = Names(i, o)
BY DEF Numbers, At, Names

(***************************************************************************)
(* Most steps of the capture change nothing of what objects are named,     *)
(* made and touched by: ending a packet leaves its number as it is, and a  *)
(* barrier names nothing.                                                  *)
(***************************************************************************)
SameObjects ==
  /\ UNCHANGED <<state, lastModified>>
  /\ \A i \in Threads : \A k : /\ Running(i, k)' <=> Running(i, k)
                               /\ Unmade(i, k)' <=> Unmade(i, k)
  /\ \A i \in Threads : \A o \in Objects : /\ Names(i, o)' = Names(i, o) /\ Marks(i, o)' = Marks(i, o)
                                           /\ \A k \in Names(i, o) : At(i, k)' = At(i, k)

Naming(t) == BeginUpdate(t) \/ BeginCall(t) \/ Execute(t)

LEMMA QuietSteps ==
  ASSUME "sync" \notin Kinds, CaptureInv, CaptureInv', WriterInv, NEW t \in Threads, CaptureStep(t), ~Naming(t)
  PROVE  SameObjects
<1>1. UNCHANGED <<state, lastModified>>
  BY StreamStep DEF CaptureStep, Naming, Call, CollectPosition, make_writer, LocalBarrier, PendingBarrier,
     write_thread_barrier, EndUpdate, write_header, write_api_command, push_thread_barriers, end_packet
<1>2. pc[t] # "execute" /\ pc'[t] # "execute"
  <2> USE DEF CaptureInv, CaptureTypeOK
  <2>1. CASE Call(t) \/ WritesBarrier(t)
    BY <2>1 DEF Call, WritesBarrier, make_writer, LocalBarrier, PendingBarrier, AfterBind, AfterPre
  <2>2. CASE CollectPosition(t) \/ EndUpdate(t) \/ write_header(t) \/ write_api_command(t)
    BY <2>2 DEF CollectPosition, EndUpdate, write_header, write_api_command, AfterPre
  <2>3. CASE push_thread_barriers(t) \/ end_packet(t)
    BY <2>3 DEF push_thread_barriers, end_packet
  <2> QED
    BY <2>1, <2>2, <2>3, StreamStep DEF CaptureStep, Naming, WritesBarrier
<1>3. \A i \in Threads \ {t} : /\ trace'[i] = trace[i] /\ open'[i] = open[i]
                               /\ pc'[i] = pc[i] /\ call'[i] = call[i]
  BY OthersStay, StreamsGrow
<1>4. \A i \in Threads : \A k : /\ Running(i, k)' <=> Running(i, k)
                                /\ Unmade(i, k)' <=> Unmade(i, k)
  BY <1>2, <1>3 DEF Running, Unmade
<1>5. SUFFICES ASSUME NEW i \in Threads, NEW o \in Objects
               PROVE  Names(i, o)' = Names(i, o) /\ \A k \in Names(i, o) : At(i, k)' = At(i, k)
  BY <1>1, <1>4 DEF SameObjects, Marks
<1>6. CASE trace'[i] = trace[i] /\ open'[i] = open[i]
  BY <1>6, SameStream
<1>7. CASE i = t /\ WritesBarrier(t)
  <2> DEFINE b == BarrierOf(t)
  <2>0. PICK n \in Nat : n = Len(trace[t])
    BY BasicTypes DEF CaptureInv
  <2>1. b \in Packet /\ Appends(t, b) /\ open'[t] = NoPacket /\ open[t] = NoPacket
    BY <1>7, StreamStep DEF CaptureInv, CaptureTypeOK
  <2>2. b.obj # o
    BY NoObjectAssumption DEF BarrierOf, BarrierPacket
  <2> HIDE DEF b
  <2>3. /\ n \in Nat /\ Len(trace'[t]) = n + 1 /\ trace'[t][n + 1] = b
        /\ \A j \in 1 .. n : trace'[t][j] = trace[t][j]
    BY <2>0, <2>1, AppendedStream DEF CaptureInv
  <2>4. \A k : k \in Numbers(t) <=> k \in 0 .. n - 1
    BY <2>0, <2>1, <2>3 DEF Numbers
  <2>5. \A k : k \in Numbers(t)' <=> k \in 0 .. n
    BY <2>0, <2>1, <2>3 DEF Numbers
  <2>6. At(t, n)' = b /\ \A k \in 0 .. n - 1 : At(t, k)' = At(t, k)
    BY <2>0, <2>3 DEF At
  <2>7. \A k : k \in Names(t, o)' <=> k \in Names(t, o)
    BY <2>2, <2>3, <2>4, <2>5, <2>6 DEF Names
  <2>8. Names(t, o)' = Names(t, o)
    BY <2>7
  <2> QED
    BY <1>7, <2>4, <2>6, <2>8 DEF Names
<1>8. CASE i = t /\ EndsPacket(t)
  <2>0. PICK n \in Nat : n = Len(trace[t])
    BY BasicTypes DEF CaptureInv
  <2>1. open[t] \in Packet /\ Appends(t, open[t]) /\ open'[t] = NoPacket /\ open[t] # NoPacket
    BY <1>8, StreamStep, NoPacketIsNone DEF CaptureInv, CaptureTypeOK
  <2>3. /\ n \in Nat /\ Len(trace'[t]) = n + 1 /\ trace'[t][n + 1] = open[t]
        /\ \A j \in 1 .. n : trace'[t][j] = trace[t][j]
    BY <2>0, <2>1, AppendedStream DEF CaptureInv
  <2>4. \A k : k \in Numbers(t) <=> k \in 0 .. n
    BY <2>0, <2>1, <2>3 DEF Numbers
  <2>5. \A k : k \in Numbers(t)' <=> k \in 0 .. n
    BY <2>0, <2>1, <2>3 DEF Numbers
  <2>6. \A k \in 0 .. n : At(t, k)' = At(t, k)
    BY <2>0, <2>3 DEF At
  <2>7. \A k : k \in Names(t, o)' <=> k \in Names(t, o)
    BY <2>4, <2>5, <2>6 DEF Names
  <2>8. Names(t, o)' = Names(t, o)
    BY <2>7
  <2> QED
    BY <1>8, <2>4, <2>6, <2>8 DEF Names
<1>9. CASE i = t /\ ~WritesBarrier(t) /\ ~EndsPacket(t)
  <2>1. trace' = trace /\ open' = open
    BY <1>9, StreamStep DEF CaptureStep, Naming, WritesBarrier, EndsPacket, Call, CollectPosition,
       write_header, write_api_command, push_thread_barriers
  <2> QED
    BY <1>6, <2>1
<1> QED
  BY <1>3, <1>6, <1>7, <1>8, <1>9

LEMMA SameMarksOf ==
  ASSUME NEW o \in Objects, LastMark(o), MadeOnce(o), state'[o] = state[o], lastModified'[o] = lastModified[o],
         \A i \in Threads : Marks(i, o)' = Marks(i, o) /\ \A k \in Marks(i, o) : At(i, k)' = At(i, k)
  PROVE  LastMark(o)' /\ MadeOnce(o)'
<1>1. LastMark(o)'
  BY DEF LastMark
<1>2. MadeOnce(o)'
  BY DEF MadeOnce
<1> QED
  BY <1>1, <1>2

LEMMA SameMarks ==
  ASSUME ObjectMarks, SameObjects
  PROVE  ObjectMarks'
<1> SUFFICES ASSUME NEW o \in Objects PROVE Unborn(o)' /\ LastMark(o)' /\ MadeOnce(o)' /\ Unmakes(o)'
  BY DEF ObjectMarks
<1>1. /\ Unborn(o) /\ LastMark(o) /\ MadeOnce(o) /\ Unmakes(o)
      /\ state'[o] = state[o] /\ lastModified'[o] = lastModified[o]
  BY DEF ObjectMarks, SameObjects
<1>2. \A i \in Threads : Names(i, o)' = Names(i, o) /\ Marks(i, o)' = Marks(i, o)
  BY DEF SameObjects
<1>3. \A i \in Threads : /\ \A k \in Names(i, o) : At(i, k)' = At(i, k)
                         /\ \A k \in Marks(i, o) : At(i, k)' = At(i, k)
  BY DEF SameObjects, Marks
<1>4. \A i \in Threads : \A k : (Running(i, k)' <=> Running(i, k)) /\ (Unmade(i, k)' <=> Unmade(i, k))
  BY DEF SameObjects
<1>5. Unborn(o)'
  BY <1>1, <1>2, <1>4 DEF Unborn
<1>6. Unmakes(o)'
  BY <1>1, <1>2, <1>3, <1>4 DEF Unmakes
<1> QED
  BY <1>1, <1>2, <1>3, <1>5, <1>6, SameMarksOf

LEMMA SamePackets ==
  ASSUME CaptureTypeOK, ObjectPackets, SameObjects, Grown
  PROVE  ObjectPackets'
<1> SUFFICES ASSUME NEW i \in Threads, NEW o \in Objects, NEW k \in Names(i, o)' PROVE PacketOf(i, k)'
  BY DEF ObjectPackets
<1>1. k \in Names(i, o) /\ At(i, k)' = At(i, k) /\ PacketOf(i, k) /\ At(i, k).obj = o
  BY DEF SameObjects, ObjectPackets, Names
<1>2. At(i, k) \in Packet
  BY <1>1, NumberedPacket DEF Names
<1>3. Carries(trace', At(i, k))
  BY <1>1, <1>2, CarriesGrows DEF PacketOf
<1>4. NamedBefore(i, k)'
  BY <1>1 DEF NamedBefore, PacketOf, SameObjects
<1> QED
  BY <1>1, <1>3, <1>4 DEF PacketOf

LEMMA KeepsNamingTypes ==
  ASSUME "sync" \notin Kinds, CaptureInv, WriterInv, NamingTypes, NEW t \in Threads, CaptureStep(t)
  PROVE  NamingTypes'
<1>1. CASE trace' = trace
  BY <1>1 DEF NamingTypes
<1>2. ASSUME NEW p \in Packet, Appends(t, p), p.type = "barrier" => p.obj = NoObject,
             p.kind = "destroy" => p.type = "call"
      PROVE  NamingTypes'
  <2> SUFFICES ASSUME NEW i \in Threads, NEW j \in 1 .. Len(trace'[i])
               PROVE  /\ trace'[i][j].type = "barrier" => trace'[i][j].obj = NoObject
                      /\ trace'[i][j].kind = "destroy" => trace'[i][j].type = "call"
    BY DEF NamingTypes
  <2>1. /\ Len(trace[t]) \in Nat /\ Len(trace'[t]) = Len(trace[t]) + 1 /\ trace'[t][Len(trace[t]) + 1] = p
        /\ \A m \in 1 .. Len(trace[t]) : trace'[t][m] = trace[t][m]
        /\ \A u \in Threads \ {t} : trace'[u] = trace[u]
    BY <1>2, AppendedStream DEF CaptureInv
  <2>2. \/ j \in 1 .. Len(trace[i]) /\ trace'[i][j] = trace[i][j]
        \/ trace'[i][j] = p
    BY <2>1
  <2> QED
    BY <1>2, <2>2 DEF NamingTypes
<1>3. CASE WritesBarrier(t)
  <2> DEFINE b == BarrierOf(t)
  <2>1. b \in Packet /\ Appends(t, b)
    BY <1>3, StreamStep
  <2>2. b.obj = NoObject /\ b.kind = "none"
    BY DEF BarrierOf, BarrierPacket
  <2> HIDE DEF b
  <2> QED
    BY <1>2, <2>1, <2>2
<1>4. CASE EndsPacket(t)
  <2>1. open[t] \in Packet /\ Appends(t, open[t]) /\ pc[t] \in {"update", "end"}
    BY <1>4, StreamStep
  <2>2. /\ open[t].type \in {"update", "call"}
        /\ open[t].kind = "destroy" => open[t].type = "call"
    BY <2>1 DEF CaptureInv, CallShape
  <2> QED
    BY <1>2, <2>1, <2>2
<1> QED
  BY <1>1, <1>3, <1>4, StreamStep

\* The calls in flight, over a step that makes no call and names nothing.
LEMMA QuietCalls ==
  ASSUME "sync" \notin Kinds, CaptureInv, WriterInv, NEW t \in Threads, CaptureStep(t),
         ~Naming(t), ~Call(t), NEW v \in Threads, InCall(v)'
  PROVE  /\ InCall(v) /\ call'[v] = call[v]
         /\ \/ pc'[v] \notin {"execute", "push", "end"} /\ pc[v] \notin {"execute", "push", "end"}
            \/ /\ pc'[v] = pc[v] \/ (pc[v] = "push" /\ pc'[v] = "end")
               /\ trace'[v] = trace[v] /\ open'[v] = open[v]
<1>1. CASE v # t
  <2>1. pc'[v] = pc[v] /\ call'[v] = call[v] /\ open'[v] = open[v] /\ trace'[v] = trace[v]
    BY <1>1, OthersStay, StreamsGrow
  <2> QED
    BY <2>1 DEF InCall
<1>2. CASE v = t /\ push_thread_barriers(t)
  BY <1>2 DEF push_thread_barriers, InCall, CaptureInv, CaptureTypeOK
<1>3. CASE v = t /\ ~push_thread_barriers(t)
  <2> USE DEF CaptureInv, CaptureTypeOK, InCall
  <2>1. CASE WritesBarrier(t)
    BY <1>3, <2>1 DEF WritesBarrier, make_writer, LocalBarrier, PendingBarrier, AfterBind, AfterPre,
                      write_thread_barrier
  <2>2. CASE CollectPosition(t) \/ EndUpdate(t) \/ write_header(t) \/ write_api_command(t)
    BY <1>3, <2>2 DEF CollectPosition, EndUpdate, write_header, write_api_command, AfterPre
  <2>3. ~end_packet(t)
    BY <1>3 DEF end_packet
  <2> QED
    BY <1>3, <2>1, <2>2, <2>3, StreamStep DEF CaptureStep, Naming, WritesBarrier
<1> QED
  BY <1>1, <1>2, <1>3

LEMMA QuietKeepsCalls ==
  ASSUME "sync" \notin Kinds, CaptureInv, WriterInv, ObjectCalls, NEW t \in Threads, CaptureStep(t),
         ~Naming(t), ~Call(t), SameObjects, Grown
  PROVE  ObjectCalls'
<1>1. Exclusive'
  <2> SUFFICES ASSUME NEW a \in Threads, NEW b \in Threads, a # b, InCall(a)', Makes(call'[a].kind),
                      Uses(b, call[a].obj)'
               PROVE  FALSE
    BY DEF Exclusive, Uses
  <2>1. InCall(a) /\ call'[a] = call[a]
    BY QuietCalls
  <2>2. InCall(b) /\ call'[b] = call[b]
    BY QuietCalls DEF Uses
  <2>3. Uses(b, call[a].obj)
    BY <2>1, <2>2 DEF Uses
  <2> QED
    BY <2>1, <2>3 DEF ObjectCalls, Exclusive
<1>2. ASSUME NEW v \in Threads PROVE OpenNames(v)'
  <2>1. CASE ~InCall(v)'
    BY <2>1 DEF OpenNames, InCall
  <2>2. CASE InCall(v)'
    <3>1. OpenNames(v)
      BY DEF ObjectCalls
    <3> QED
      BY <2>2, <3>1, QuietCalls DEF OpenNames
  <2> QED
    BY <2>1, <2>2
<1>3. ASSUME NEW v \in Threads, NEW o \in Objects PROVE CallOf(v, o)'
  <2> SUFFICES ASSUME Uses(v, o)' PROVE CallOf(v, o)'
    BY DEF CallOf
  <2>1. InCall(v)' /\ InCall(v) /\ call'[v] = call[v] /\ Uses(v, o)
    BY QuietCalls DEF Uses
  <2>2. /\ state'[o] = state[o]
        /\ \A i \in Threads : Names(i, o)' = Names(i, o) /\ Marks(i, o)' = Marks(i, o)
    BY DEF SameObjects
  <2>3. \A i, k : Own(v, i, k) => Own(v, i, k)'
    BY <2>1, QuietCalls DEF Own
  <2>4. pc[v] = "end" => pc'[v] = "end"
    BY <2>1, QuietCalls
  <2>5. CallOf(v, o)
    BY DEF ObjectCalls
  <2>6. call[v].kind # "create" => Born(trace', o, call[v].seen)
    <3>1. call[v].seen \in [Threads -> Nat] /\ \A j \in Threads : call[v].seen[j] <= Len(trace[j])
      BY <2>1 DEF CaptureInv, CaptureTypeOK, WriterInv, WriterAt, SeenBehind
    <3> QED
      BY <2>1, <2>5, <3>1, BornGrows DEF CallOf
  <2> QED
    BY <2>1, <2>2, <2>3, <2>4, <2>5, <2>6 DEF CallOf
<1> QED
  BY <1>1, <1>2, <1>3 DEF ObjectCalls

\* The open packet that names an object belongs to a call that uses it.
LEMMA OpenUses ==
  ASSUME CaptureInv, WriterInv, ObjectCalls, NEW i \in Threads, NEW o \in Objects,
         NEW k \in Names(i, o), k = Len(trace[i])
  PROVE  /\ InCall(i) /\ Uses(i, o)
         /\ Makes(At(i, k).kind) => /\ call[i].obj = o /\ call[i].kind = At(i, k).kind
                                    /\ pc[i] \in {"execute", "push", "end"}
<1>1. open[i] \in Packet /\ At(i, k) = open[i] /\ open[i].obj = o
  BY NumberedPacket DEF Names, CaptureInv
<1>2. pc[i] \in {"update", "execute", "push", "end"}
  BY <1>1, NoPacketIsNone DEF WriterInv, WriterAt, NothingOpen
<1>3. CASE pc[i] = "update"
  BY <1>1, <1>3 DEF CaptureInv, CallShape, Uses, InCall, Makes, Touches
<1>4. CASE pc[i] # "update"
  <2>1. open[i].kind = call[i].kind
    BY <1>2, <1>4 DEF CaptureInv, CallShape
  <2>2. call[i].obj = o
    BY <1>1, <1>2, <1>4, NoObjectAssumption DEF ObjectCalls, OpenNames
  <2> QED
    BY <1>1, <1>2, <1>4, <2>1, <2>2 DEF Uses, InCall
<1> QED
  BY <1>3, <1>4

(***************************************************************************)
(* The application makes a call: it is alone with what it makes, and what  *)
(* made or touched its objects before has returned.                        *)
(***************************************************************************)
LEMMA CallKeepsCalls ==
  ASSUME "sync" \notin Kinds, CaptureInv, WriterInv, ObjectCalls, ObjectMarks,
         NEW t \in Threads, Call(t), SameObjects
  PROVE  ObjectCalls'
<1>0. CaptureTypeOK /\ CaptureStep(t)
  BY DEF CaptureInv, CaptureStep
<1>1. PICK k \in Kinds, o \in Objects, u \in Objects \cup {NoObject} :
        /\ MayCall(t, k, o, u)
        /\ call' = [call EXCEPT ![t] = [kind |-> k, obj |-> o, upd |-> u,
                                        seen |-> [i \in Threads |-> Returned(i)]]]
  BY DEF Call
<1>2. /\ pc[t] = "idle" /\ trace' = trace /\ open' = open
      /\ pc'[t] \in {"join", "pre", "header", "command"}
  BY <1>0 DEF Call, AfterBind, AfterPre, CaptureTypeOK
<1>3. \A i \in Threads \ {t} : pc'[i] = pc[i] /\ call'[i] = call[i]
  BY <1>0, OthersStay
<1>4. \A i \in Threads : Returned(i) = Len(trace[i])
  <2>1. \A i \in Threads : Len(trace[i]) \in Nat
    BY <1>0, BasicTypes
  <2>2. \A i \in Threads : (IF ~InCall(i) /\ open[i] # NoPacket THEN 1 ELSE 0) = 0
    BY DEF WriterInv, WriterAt, NothingOpen, InCall
  <2>3. \A i \in Threads : Returned(i) = Len(trace[i]) + 0
    BY <2>2 DEF Returned, CurrentPacket
  <2> QED
    BY <2>1, <2>3
<1>5. /\ call'[t].kind = k /\ call'[t].obj = o /\ call'[t].upd = u
      /\ \A i \in Threads : call'[t].seen[i] = Len(trace[i])
  BY <1>0, <1>1, <1>4 DEF CaptureTypeOK
<1>6. u \in Objects => k = "submit" /\ u # o /\ state[u] = "created" /\ Touchers(t, u) = {}
  BY <1>1, NoObjectAssumption DEF MayCall
<1>7. /\ k = "create" => state[o] = "uninitialized" /\ Users(t, o) = {}
      /\ k # "create" => state[o] = "created" /\ Touchers(t, o) = {}
      /\ Makes(k) => Users(t, o) = {}
  <2>1. Users(t, o) = {} => Touchers(t, o) = {}
    BY DEF Users, Touchers
  <2> QED
    BY <1>1, <2>1 DEF MayCall, Makes
<1>8. Touchers(t, o) = {}
  BY <1>7 DEF Users, Touchers
<1>9. \A ob \in Objects : Uses(t, ob)' => ob = o \/ (ob = u /\ u \in Objects)
  BY <1>5 DEF Uses
<1>10. Exclusive'
  <2> SUFFICES ASSUME NEW a \in Threads, NEW b \in Threads, a # b, InCall(a)', Makes(call'[a].kind),
                      Uses(b, call[a].obj)'
               PROVE  FALSE
    BY DEF Exclusive, Uses
  <2>1. CASE a = t
    <3>1. InCall(b) /\ o \in {call[b].obj, call[b].upd} /\ b \in Threads \ {t}
      BY <1>3, <1>5, <2>1 DEF Uses, InCall
    <3> QED
      BY <1>5, <1>7, <2>1, <3>1 DEF Users
  <2>2. CASE b = t
    <3>1. InCall(a) /\ call'[a] = call[a] /\ call[a].obj \in Objects /\ a \in Threads \ {t}
      BY <1>3, <2>2 DEF InCall, CaptureInv, CallShape
    <3>2. call[a].obj = o \/ (call[a].obj = u /\ u \in Objects)
      BY <1>9, <2>2, <3>1
    <3>3. a \in Touchers(t, call[a].obj)
      BY <3>1 DEF Touchers, Makes
    <3> QED
      BY <1>6, <1>8, <3>2, <3>3
  <2>3. CASE a # t /\ b # t
    <3>1. InCall(a) /\ call'[a] = call[a] /\ InCall(b) /\ call'[b] = call[b]
      BY <1>3, <2>3 DEF InCall, Uses
    <3> QED
      BY <3>1 DEF ObjectCalls, Exclusive, Uses
  <2> QED
    BY <2>1, <2>2, <2>3
<1>11. ASSUME NEW v \in Threads PROVE OpenNames(v)'
  <2>1. CASE v = t
    BY <1>2, <1>5, <1>6, <2>1, NoObjectAssumption DEF OpenNames
  <2>2. CASE v # t
    BY <1>2, <1>3, <2>2 DEF ObjectCalls, OpenNames, InCall
  <2> QED
    BY <2>1, <2>2
<1>12. ASSUME NEW ob \in Objects PROVE CallOf(t, ob)'
  <2> SUFFICES ASSUME Uses(t, ob)' PROVE CallOf(t, ob)'
    BY DEF CallOf
  <2>1. Touchers(t, ob) = {} /\ (k = "create" => state[ob] = "uninitialized")
                             /\ (k # "create" => state[ob] = "created")
    BY <1>6, <1>7, <1>8, <1>9
  <2>2. ASSUME NEW i \in Threads, NEW m \in Names(i, ob), m = Len(trace[i]) PROVE i \in Users(t, ob)
    <3>1. InCall(i) /\ Uses(i, ob) /\ i # t
      BY <1>2, <2>2, OpenUses DEF InCall
    <3> QED
      BY <3>1 DEF Users, Uses
  <2>3. ASSUME NEW i \in Threads, NEW m \in Marks(i, ob) PROVE m \in Nat /\ m < Len(trace[i])
    <3>1. m \in Names(i, ob) /\ m \in Numbers(i) /\ Makes(At(i, m).kind)
      BY DEF Marks, Names
    <3>2. m # Len(trace[i])
      <4> SUFFICES ASSUME m = Len(trace[i]) PROVE FALSE
        OBVIOUS
      <4>1. InCall(i) /\ call[i].obj = ob /\ Makes(call[i].kind) /\ i # t
        BY <1>2, <3>1, OpenUses DEF InCall
      <4> QED
        BY <2>1, <4>1 DEF Touchers, Makes
    <3> QED
      BY <1>0, <3>1, <3>2, NumberedPacket
  <2>4. Makes(k) /\ ob = o => \A i \in Threads : \A m \in Names(i, ob) : m < Len(trace[i])
    <3> SUFFICES ASSUME Makes(k), ob = o, NEW i \in Threads, NEW m \in Names(i, ob) PROVE m < Len(trace[i])
      OBVIOUS
    <3>1. m # Len(trace[i])
      BY <1>7, <2>2
    <3> QED
      BY <1>0, <3>1, NumberedPacket DEF Names
  <2>5. k # "create" => Born(trace, ob, call'[t].seen)
    <3> SUFFICES ASSUME k # "create" PROVE Born(trace, ob, call'[t].seen)
      OBVIOUS
    <3>1. PICK i \in Threads : \E m \in Marks(i, ob) : At(i, m).kind = "create"
      BY <2>1 DEF ObjectMarks, MadeOnce
    <3>2. PICK m \in Marks(i, ob) : At(i, m).kind = "create"
      BY <3>1
    <3>3. m \in Nat /\ m < Len(trace[i]) /\ Len(trace[i]) \in Nat /\ At(i, m).obj = ob
      BY <1>0, <2>3, BasicTypes DEF Marks, Names
    <3>4. At(i, m) = trace[i][m + 1]
      BY <1>0, <3>3, WrittenPacket
    <3>5. m \in 0 .. call'[t].seen[i] - 1
      BY <1>5, <3>3
    <3> QED
      BY <3>2, <3>3, <3>4, <3>5 DEF Born
  <2>6. state'[ob] = state[ob] /\ \A i \in Threads : Names(i, ob)' = Names(i, ob) /\ Marks(i, ob)' = Marks(i, ob)
    BY DEF SameObjects
  <2> QED
    BY <1>2, <1>5, <2>1, <2>3, <2>4, <2>5, <2>6 DEF CallOf
<1>13. ASSUME NEW v \in Threads \ {t}, NEW ob \in Objects PROVE CallOf(v, ob)'
  <2>1. state'[ob] = state[ob] /\ \A i \in Threads : Names(i, ob)' = Names(i, ob) /\ Marks(i, ob)' = Marks(i, ob)
    BY DEF SameObjects
  <2>2. /\ pc'[v] = pc[v] /\ call'[v] = call[v] /\ (Uses(v, ob)' <=> Uses(v, ob))
        /\ \A i, m : Own(v, i, m)' <=> Own(v, i, m)
    BY <1>2, <1>3 DEF Uses, InCall, Own
  <2>3. CallOf(v, ob)
    BY DEF ObjectCalls
  <2> QED
    BY <1>2, <2>1, <2>2, <2>3 DEF CallOf
<1> QED
  BY <1>10, <1>11, <1>12, <1>13 DEF ObjectCalls

(***************************************************************************)
(* A thread begins a packet that names an object of its call.              *)
(***************************************************************************)
Adds(t, p) ==
  /\ open[t] = NoPacket /\ open' = [open EXCEPT ![t] = p]
  /\ UNCHANGED <<trace, call, state>>
  /\ pc[t] \in {"pre", "begin"}
  /\ \A v \in Threads \ {t} : pc'[v] = pc[v]
  /\ p.obj \in Objects /\ Uses(t, p.obj) /\ p.seen = call[t].seen
  /\ p.kind # "create" => p.req = lastModified[p.obj]
  /\ \/ p.obj = call[t].obj /\ p.kind = call[t].kind /\ pc'[t] = "execute"
     \/ p.obj # call[t].obj /\ p.kind = "use" /\ pc'[t] = "update" /\ call[t].kind = "submit"
  /\ lastModified' = IF Touches(p.kind)
                     THEN [lastModified EXCEPT ![p.obj] = [thread |-> t, packet |-> Len(trace[t])]]
                     ELSE lastModified

LEMMA AddedName ==
  ASSUME CaptureInv, NEW t \in Threads, NEW p \in Packet, Adds(t, p), NEW n \in Nat, n = Len(trace[t])
  PROVE  /\ n \notin Numbers(t) /\ At(t, n)' = p
         /\ \A i \in Threads : \A k \in Numbers(i) : At(i, k)' = At(i, k)
         /\ \A i \in Threads : \A k : i # t \/ k # n => /\ Running(i, k)' <=> Running(i, k)
                                                        /\ Unmade(i, k)' <=> Unmade(i, k)
         /\ Running(t, n)' <=> p.obj = call[t].obj
         /\ Unmade(t, n)' <=> p.kind = "create"
         /\ \A i \in Threads : \A o, k :
              /\ k \in Names(i, o)' <=> k \in Names(i, o) \/ (i = t /\ k = n /\ o = p.obj)
              /\ k \in Marks(i, o)' <=>
                   k \in Marks(i, o) \/ (i = t /\ k = n /\ o = p.obj /\ Touches(p.kind))
<1>1. /\ trace' = trace /\ open[t] = NoPacket /\ open'[t] = p /\ call' = call /\ p # NoPacket
      /\ \A i \in Threads \ {t} : open'[i] = open[i] /\ pc'[i] = pc[i]
  BY NoPacketIsNone DEF Adds, CaptureInv, CaptureTypeOK
<1>2. n \notin Numbers(t) /\ At(t, n)' = p /\ \A k : k \in Numbers(t)' <=> k \in Numbers(t) \/ k = n
  BY <1>1 DEF Numbers, At
<1>3. \A i \in Threads \ {t} : Numbers(i)' = Numbers(i)
  BY <1>1, SameStream
<1>4. \A i \in Threads : \A k \in Numbers(i) : At(i, k)' = At(i, k)
  <2>1. \A i \in Threads \ {t} : \A k : At(i, k)' = At(i, k)
    BY <1>1, SameStream
  <2>2. \A k \in Numbers(t) : At(t, k)' = At(t, k)
    BY <1>1 DEF Numbers, At
  <2> QED
    BY <2>1, <2>2
<1>5. \A i \in Threads : \A k : i # t \/ k # n => /\ Running(i, k)' <=> Running(i, k)
                                                  /\ Unmade(i, k)' <=> Unmade(i, k)
  BY <1>1 DEF Running, Unmade
<1>6. (Running(t, n)' <=> p.obj = call[t].obj) /\ (Unmade(t, n)' <=> p.kind = "create")
  BY <1>1 DEF Running, Unmade, Adds
<1>7. \A i \in Threads : \A o, k : k \in Names(i, o)' <=> k \in Names(i, o) \/ (i = t /\ k = n /\ o = p.obj)
  BY <1>2, <1>3, <1>4 DEF Names
<1>8. \A i \in Threads : \A o : \A k \in Names(i, o) : (i # t \/ k # n) /\ At(i, k)' = At(i, k)
  BY <1>2, <1>4 DEF Names
<1>9. \A i \in Threads : \A o, k :
        k \in Marks(i, o)' <=> k \in Marks(i, o) \/ (i = t /\ k = n /\ o = p.obj /\ Touches(p.kind))
  <2> SUFFICES ASSUME NEW i \in Threads, NEW o, NEW k
               PROVE  k \in Marks(i, o)' <=>
                        k \in Marks(i, o) \/ (i = t /\ k = n /\ o = p.obj /\ Touches(p.kind))
    OBVIOUS
  <2>1. CASE k \in Names(i, o)
    BY <1>5, <1>7, <1>8, <2>1 DEF Marks
  <2>2. CASE k \notin Names(i, o) /\ i = t /\ k = n /\ o = p.obj
    <3>1. k \in Names(i, o)' /\ At(i, k)' = p
      BY <1>2, <1>7, <2>2
    <3>2. Makes(p.kind) /\ p.kind # "create" <=> Touches(p.kind)
      BY DEF Makes, Touches
    <3> QED
      BY <1>6, <2>2, <3>1, <3>2 DEF Marks
  <2>3. CASE k \notin Names(i, o) /\ ~(i = t /\ k = n /\ o = p.obj)
    BY <1>7, <2>3 DEF Marks
  <2> QED
    BY <2>1, <2>2, <2>3
<1> QED
  BY <1>2, <1>4, <1>5, <1>6, <1>7, <1>9

\* Nothing that names the object of a call before its driver call destroys it.
LEMMA NotDestroyed ==
  ASSUME CaptureInv, WriterInv, ObjectCalls, ObjectMarks, NEW t \in Threads, NEW o \in Objects, Uses(t, o),
         pc[t] \in {"pre", "begin"}, NEW i \in Threads, NEW k \in Names(i, o)
  PROVE  At(i, k).kind # "destroy"
<1> SUFFICES ASSUME At(i, k).kind = "destroy" PROVE FALSE
  OBVIOUS
<1>1. state[o] # "destroyed"
  BY DEF ObjectCalls, CallOf
<1>2. k = Len(trace[i]) /\ pc[i] = "execute"
  BY <1>1 DEF ObjectMarks, Unmakes, Running
<1>3. InCall(i) /\ call[i].obj = o /\ call[i].kind = "destroy" /\ i # t
  BY <1>2, OpenUses DEF Makes, Touches
<1> QED
  BY <1>3 DEF ObjectCalls, Exclusive, Makes, Touches

LEMMA AddKeepsMarks ==
  ASSUME CaptureInv, WriterInv, ObjectCalls, ObjectMarks, NEW t \in Threads, NEW p \in Packet, Adds(t, p)
  PROVE  ObjectMarks'
<1>0. PICK n \in Nat : n = Len(trace[t])
  BY BasicTypes DEF CaptureInv
<1>1. /\ n \notin Numbers(t) /\ At(t, n)' = p
      /\ \A i \in Threads : \A k \in Numbers(i) : At(i, k)' = At(i, k)
      /\ Running(t, n)' <=> p.obj = call[t].obj
      /\ Unmade(t, n)' <=> p.kind = "create"
  BY <1>0, AddedName
<1>2. \A i \in Threads : \A k : i # t \/ k # n => /\ Running(i, k)' <=> Running(i, k)
                                                  /\ Unmade(i, k)' <=> Unmade(i, k)
  BY <1>0, AddedName
<1>3. \A i \in Threads : \A o, k :
        /\ k \in Names(i, o)' <=> k \in Names(i, o) \/ (i = t /\ k = n /\ o = p.obj)
        /\ k \in Marks(i, o)' <=> k \in Marks(i, o) \/ (i = t /\ k = n /\ o = p.obj /\ Touches(p.kind))
  BY <1>0, AddedName
<1>4. /\ state' = state /\ p.obj \in Objects
      /\ \A o \in Objects : o # p.obj => lastModified'[o] = lastModified[o]
      /\ ~Touches(p.kind) => lastModified' = lastModified
      /\ Touches(p.kind) => lastModified'[p.obj] = [thread |-> t, packet |-> n]
  BY <1>0 DEF Adds, CaptureInv, CaptureTypeOK
<1>5. \A i \in Threads : \A o : /\ \A k \in Names(i, o) : At(i, k)' = At(i, k) /\ (i # t \/ k # n)
                                /\ \A k \in Marks(i, o) : At(i, k)' = At(i, k) /\ (i # t \/ k # n)
  BY <1>1 DEF Names, Marks
<1>6. \A o \in Objects : o # p.obj \/ ~Touches(p.kind) => \A i \in Threads : Marks(i, o)' = Marks(i, o)
  <2> SUFFICES ASSUME NEW o \in Objects, o # p.obj \/ ~Touches(p.kind), NEW i \in Threads
               PROVE  Marks(i, o)' = Marks(i, o)
    OBVIOUS
  <2>1. \A k : k \in Marks(i, o)' <=> k \in Marks(i, o)
    BY <1>3
  <2> QED
    BY <2>1
<1>7. ASSUME NEW o \in Objects, o # p.obj
      PROVE  Unborn(o)' /\ LastMark(o)' /\ MadeOnce(o)' /\ Unmakes(o)'
  <2>1. Unborn(o) /\ LastMark(o) /\ MadeOnce(o) /\ Unmakes(o)
    BY DEF ObjectMarks
  <2>2. LastMark(o)' /\ MadeOnce(o)'
    BY <1>4, <1>5, <1>6, <1>7, <2>1, SameMarksOf
  <2>3. Unborn(o)'
    BY <1>2, <1>3, <1>4, <1>5, <1>7, <2>1 DEF Unborn
  <2>4. Unmakes(o)'
    BY <1>2, <1>3, <1>4, <1>5, <1>7, <2>1 DEF Unmakes
  <2> QED
    BY <2>2, <2>3, <2>4
<1>8. ASSUME NEW o \in Objects, o = p.obj
      PROVE  Unborn(o)' /\ LastMark(o)' /\ MadeOnce(o)' /\ Unmakes(o)'
  <2>1. Unborn(o) /\ LastMark(o) /\ MadeOnce(o) /\ Unmakes(o) /\ Uses(t, o) /\ CallOf(t, o)
    BY <1>8 DEF ObjectMarks, ObjectCalls, Adds
  <2>2. pc[t] \in {"pre", "begin"}
    BY DEF Adds
  <2>3. Unborn(o)'
    <3> SUFFICES ASSUME state[o] = "uninitialized" PROVE \A i \in Threads : \A k \in Names(i, o)' : Unmade(i, k)'
      BY <1>4 DEF Unborn
    <3>1. call[t].kind = "create"
      BY <2>1 DEF CallOf
    <3>2. p.kind = "create"
      BY <3>1 DEF Adds
    <3> QED
      BY <1>1, <1>2, <1>3, <1>5, <2>1, <3>2 DEF Unborn
  <2>4. Unmakes(o)'
    <3>1. \A i \in Threads : \A k \in Names(i, o) : At(i, k).kind # "destroy"
      BY <2>1, <2>2, NotDestroyed
    <3>2. p.kind = "destroy" => Running(t, n)'
      BY <1>1 DEF Adds
    <3> QED
      BY <1>1, <1>3, <1>5, <3>1, <3>2 DEF Unmakes
  <2>5. CASE ~Touches(p.kind)
    BY <1>4, <1>5, <1>6, <2>1, <2>3, <2>4, <2>5, SameMarksOf
  <2>6. CASE Touches(p.kind)
    <3>1. p.kind # "create" /\ call[t].kind # "create"
      BY <2>6 DEF Touches, Adds
    <3>2. state[o] # "uninitialized"
      BY <2>1, <3>1 DEF CallOf
    <3>3. \A i \in Threads : \A k \in Marks(i, o) : k < call[t].seen[i]
      BY <2>1, <2>2 DEF CallOf, Own
    <3>4. p.seen = call[t].seen
      BY DEF Adds
    <3>5. n \in Marks(t, o)' /\ lastModified'[o].thread = t /\ lastModified'[o].packet = n
      BY <1>3, <1>4, <1>8, <2>6
    <3>6. LastMark(o)'
      BY <1>1, <1>3, <1>5, <3>3, <3>4, <3>5 DEF LastMark
    <3>7. MadeOnce(o)'
      <4>1. \A i \in Threads : \A k \in Marks(i, o)' :
              At(i, k)'.kind = "create" => k \in Marks(i, o) /\ At(i, k).kind = "create"
        BY <1>1, <1>3, <1>5, <3>1
      <4>2. PICK i \in Threads : \E k \in Marks(i, o) : At(i, k).kind = "create"
        BY <2>1, <3>2 DEF MadeOnce
      <4>3. \E k \in Marks(i, o)' : At(i, k)'.kind = "create"
        BY <1>3, <1>5, <4>2
      <4> QED
        BY <2>1, <4>1, <4>3 DEF MadeOnce
    <3> QED
      BY <2>3, <2>4, <3>6, <3>7
  <2> QED
    BY <2>5, <2>6
<1> QED
  BY <1>7, <1>8 DEF ObjectMarks

LEMMA AddedCarries ==
  ASSUME CaptureInv, WriterInv, ObjectCalls, ObjectMarks, NEW t \in Threads, NEW p \in Packet, Adds(t, p)
  PROVE  Carries(trace, p)
<1> DEFINE o == p.obj
           s == p.seen
           r == p.req
<1>1. o \in Objects /\ Uses(t, o) /\ InCall(t) /\ s = call[t].seen /\ pc[t] \in {"pre", "begin"}
  BY DEF Adds, Uses
<1>2. /\ CallOf(t, o) /\ Unborn(o) /\ LastMark(o)
      /\ p.kind = "create" <=> call[t].kind = "create"
  BY <1>1 DEF ObjectCalls, ObjectMarks, Adds
<1>3. \A j \in Threads : s[j] \in Nat /\ Len(trace[j]) \in Nat /\ s[j] <= Len(trace[j])
  BY <1>1, BasicTypes DEF CaptureInv, WriterInv, WriterAt, SeenBehind
<1>4. ASSUME NEW j \in Threads, NEW l \in 0 .. s[j] - 1 PROVE l \in Nat /\ l < Len(trace[j])
  BY <1>3
<1>5. CASE p.kind = "create"
  <2>1. state[o] = "uninitialized"
    BY <1>1, <1>2, <1>5 DEF CallOf
  <2>2. ASSUME NEW j \in Threads, NEW l \in 0 .. s[j] - 1, trace[j][l + 1].obj = o PROVE FALSE
    <3>1. l \in Names(j, o) /\ ~Unmade(j, l)
      BY <1>4, <2>2, WrittenPacket DEF CaptureInv
    <3> QED
      BY <1>2, <2>1, <3>1 DEF Unborn
  <2> QED
    BY <1>3, <1>5, <2>2 DEF Carries
<1>6. CASE p.kind # "create"
  <2>1. state[o] # "uninitialized" /\ Born(trace, o, s) /\ r = lastModified[o]
    BY <1>1, <1>2, <1>6 DEF CallOf, Adds
  <2>2. /\ r.thread \in Threads /\ r.packet \in Marks(r.thread, o)
        /\ \A i \in Threads : \A k \in Marks(i, o) :
             (i = r.thread /\ k = r.packet) \/ k < At(r.thread, r.packet).seen[i]
    BY <1>2, <2>1 DEF LastMark
  <2>3. r.packet < s[r.thread]
    BY <1>1, <1>2, <2>2 DEF CallOf, Own
  <2>4. r.packet \in Nat /\ r.packet < Len(trace[r.thread]) /\ At(r.thread, r.packet).obj = o
    <3>1. r.packet \in Numbers(r.thread) /\ At(r.thread, r.packet).obj = o
      BY <2>2 DEF Marks, Names
    <3>2. r.packet \in Nat
      BY <2>2, <3>1, NumberedPacket DEF CaptureInv
    <3> QED
      BY <1>3, <2>2, <2>3, <3>1, <3>2
  <2>5. At(r.thread, r.packet) = trace[r.thread][r.packet + 1]
    BY <2>2, <2>4, WrittenPacket DEF CaptureInv
  <2>6. ASSUME NEW j \in Threads, NEW l \in 0 .. s[j] - 1, trace[j][l + 1].obj = o, Makes(trace[j][l + 1].kind)
        PROVE  (j = r.thread /\ l = r.packet) \/ l < trace[r.thread][r.packet + 1].seen[j]
    <3>1. l \in Marks(j, o)
      BY <1>4, <2>6, WrittenPacket DEF CaptureInv
    <3> QED
      BY <2>2, <2>5, <3>1
  <2> QED
    BY <1>3, <1>6, <2>1, <2>2, <2>3, <2>4, <2>5, <2>6 DEF Carries
<1> QED
  BY <1>5, <1>6

LEMMA AddKeepsPackets ==
  ASSUME CaptureInv, WriterInv, ObjectCalls, ObjectMarks, ObjectPackets, NEW t \in Threads,
         NEW p \in Packet, Adds(t, p)
  PROVE  ObjectPackets'
<1>0. PICK n \in Nat : n = Len(trace[t])
  BY BasicTypes DEF CaptureInv
<1>1. /\ n \notin Numbers(t) /\ At(t, n)' = p
      /\ \A i \in Threads : \A k \in Numbers(i) : At(i, k)' = At(i, k)
  BY <1>0, AddedName
<1>2. \A i \in Threads : \A o, k : k \in Names(i, o)' <=> k \in Names(i, o) \/ (i = t /\ k = n /\ o = p.obj)
  BY <1>0, AddedName
<1>3. /\ trace' = trace /\ p.obj \in Objects /\ Uses(t, p.obj) /\ InCall(t) /\ p.seen = call[t].seen
      /\ pc[t] \in {"pre", "begin"} /\ CallOf(t, p.obj)
  BY DEF Adds, ObjectCalls, Uses
<1>4. ASSUME NEW i \in Threads, NEW o \in Objects, NEW k \in Names(i, o) PROVE PacketOf(i, k)'
  <2>1. At(i, k)' = At(i, k) /\ At(i, k).obj = o /\ PacketOf(i, k)
    BY <1>1 DEF Names, ObjectPackets
  <2>2. NamedBefore(i, k)'
    <3>1. CASE o # p.obj
      BY <1>2, <2>1, <3>1 DEF NamedBefore, PacketOf
    <3>2. CASE o = p.obj
      <4>1. At(i, k).kind # "destroy"
        BY <1>3, <3>2, NotDestroyed
      <4> QED
        BY <2>1, <4>1 DEF NamedBefore
    <3> QED
      BY <3>1, <3>2
  <2> QED
    BY <1>3, <2>1, <2>2 DEF PacketOf
<1>5. PacketOf(t, n)'
  <2>1. p.seen[t] <= n
    BY <1>0, <1>3 DEF WriterInv, WriterAt, SeenBehind
  <2>2. Carries(trace', p)
    BY <1>3, AddedCarries
  <2>3. NamedBefore(t, n)'
    <3> SUFFICES ASSUME p.kind = "destroy", NEW j \in Threads, NEW l \in Names(j, p.obj)'
                 PROVE  l < p.seen[j] \/ (j = t /\ l = n)
      BY <1>1 DEF NamedBefore
    <3>1. p.obj = call[t].obj /\ Makes(call[t].kind)
      BY DEF Adds, Makes, Touches
    <3> QED
      BY <1>2, <1>3, <3>1 DEF CallOf, Own
  <2> QED
    BY <1>1, <2>1, <2>2, <2>3 DEF PacketOf
<1> QED
  BY <1>2, <1>4, <1>5 DEF ObjectPackets

LEMMA AddKeepsCalls ==
  ASSUME CaptureInv, CaptureInv', WriterInv, ObjectCalls, ObjectMarks, NEW t \in Threads,
         NEW p \in Packet, Adds(t, p)
  PROVE  ObjectCalls'
<1>0. PICK n \in Nat : n = Len(trace[t])
  BY BasicTypes DEF CaptureInv
<1>1. \A i \in Threads : \A o, k :
        /\ k \in Names(i, o)' <=> k \in Names(i, o) \/ (i = t /\ k = n /\ o = p.obj)
        /\ k \in Marks(i, o)' <=> k \in Marks(i, o) \/ (i = t /\ k = n /\ o = p.obj /\ Touches(p.kind))
  BY <1>0, AddedName
<1>2. /\ trace' = trace /\ call' = call /\ state' = state /\ open'[t] = p
      /\ pc[t] \in {"pre", "begin"} /\ pc'[t] \in {"update", "execute"}
      /\ \A v \in Threads \ {t} : pc'[v] = pc[v] /\ open'[v] = open[v]
  BY DEF Adds, CaptureInv, CaptureTypeOK
<1>3. \A v \in Threads : (InCall(v)' <=> InCall(v)) /\ \A o : (Uses(v, o)' <=> Uses(v, o))
  BY <1>2 DEF InCall, Uses
<1>4. Exclusive'
  BY <1>2, <1>3 DEF ObjectCalls, Exclusive
<1>5. ASSUME NEW v \in Threads PROVE OpenNames(v)'
  <2>1. CASE v = t
    BY <1>2, <2>1 DEF ObjectCalls, OpenNames, Adds, InCall
  <2>2. CASE v # t
    BY <1>2, <2>2 DEF ObjectCalls, OpenNames, InCall
  <2> QED
    BY <2>1, <2>2
<1>6. ASSUME NEW v \in Threads, NEW o \in Objects PROVE CallOf(v, o)'
  <2> SUFFICES ASSUME Uses(v, o) PROVE CallOf(v, o)'
    BY <1>3 DEF CallOf
  <2>1. CallOf(v, o) /\ InCall(v) /\ Exclusive /\ Uses(t, p.obj) /\ InCall(t)
    BY DEF ObjectCalls, Uses, Adds
  <2>2. \A i, k : Own(v, i, k) => Own(v, i, k)'
    BY <1>2 DEF Own
  <2>3. p.obj = call[t].obj => Own(t, t, n)'
    BY <1>0, <1>2 DEF Own, Adds
  <2>4. ASSUME NEW i \in Threads, NEW k \in Marks(i, o)' PROVE k < call[v].seen[i] \/ Own(v, i, k)'
    <3>1. CASE k \in Marks(i, o)
      BY <2>1, <2>2, <3>1 DEF CallOf
    <3>2. CASE i = t /\ k = n /\ o = p.obj /\ Touches(p.kind)
      <4>1. p.obj = call[t].obj /\ Makes(call[t].kind)
        BY <3>2 DEF Adds, Makes, Touches
      <4>2. v = t
        BY <2>1, <3>2, <4>1 DEF Exclusive
      <4> QED
        BY <2>3, <3>2, <4>1, <4>2
    <3> QED
      BY <1>1, <2>4, <3>1, <3>2
  <2>5. ASSUME o = call[v].obj, Makes(call[v].kind), NEW i \in Threads, NEW k \in Names(i, o)'
        PROVE  k < call[v].seen[i] \/ Own(v, i, k)'
    <3>1. CASE k \in Names(i, o)
      BY <2>1, <2>2, <2>5, <3>1 DEF CallOf
    <3>2. CASE i = t /\ k = n /\ o = p.obj
      <4>1. v = t
        BY <2>1, <2>5, <3>2 DEF Exclusive
      <4> QED
        BY <2>3, <2>5, <3>2, <4>1
    <3> QED
      BY <1>1, <2>5, <3>1, <3>2
  <2>6. pc[v] = "end" => pc'[v] = "end"
    BY <1>2
  <2> QED
    BY <1>2, <2>1, <2>4, <2>5, <2>6 DEF CallOf
<1> QED
  BY <1>4, <1>5, <1>6 DEF ObjectCalls

LEMMA BeginsNaming ==
  ASSUME CaptureInv, WriterInv, ObjectCalls, NEW t \in Threads, BeginUpdate(t) \/ BeginCall(t)
  PROVE  \E p \in Packet : Adds(t, p)
<1> USE DEF CaptureInv
<1>1. /\ pc[t] \in {"pre", "begin"} /\ trace' = [trace EXCEPT ![t] = Ended(t)] /\ call' = call /\ state' = state
  BY DEF BeginUpdate, BeginCall
<1>2. open[t] = NoPacket /\ InCall(t)
  BY <1>1 DEF WriterInv, WriterAt, NothingOpen, InCall
<1>3. trace' = trace
  BY <1>1, <1>2, EndedOf
<1>4. CASE BeginUpdate(t)
  <2> DEFINE p == UpdatePacket(call[t].upd, lastModified[call[t].upd], call[t].seen)
  <2>1. pc[t] = "pre" /\ call[t].upd \in Objects /\ call[t].seen \in [Threads -> Nat]
    BY <1>4 DEF BeginUpdate, CallShape, CaptureTypeOK
  <2>2. call[t].upd # call[t].obj /\ call[t].kind = "submit"
    BY <1>2, <2>1 DEF ObjectCalls, OpenNames
  <2>3. /\ p \in Packet /\ p.kind = "use" /\ p.obj = call[t].upd /\ p.seen = call[t].seen
        /\ p.req = lastModified[call[t].upd]
    BY <2>1, PacketTypes DEF CaptureTypeOK, UpdatePacket
  <2>4. /\ open' = [open EXCEPT ![t] = p] /\ pc'[t] = "update" /\ lastModified' = lastModified
        /\ \A v \in Threads \ {t} : pc'[v] = pc[v]
    BY <1>4 DEF BeginUpdate, CaptureTypeOK
  <2> HIDE DEF p
  <2>5. Uses(t, p.obj)
    BY <1>2, <2>3 DEF Uses
  <2> QED
    BY <1>1, <1>2, <1>3, <2>1, <2>2, <2>3, <2>4, <2>5 DEF Adds, Touches
<1>5. CASE BeginCall(t)
  <2> DEFINE c == call[t]
             r == IF c.kind = "create" THEN NoPlace ELSE lastModified[c.obj]
             p == CallPacket(c.kind, c.obj, r, c.seen)
  <2>1. c.kind \in AllKinds /\ c.obj \in Objects /\ c.seen \in [Threads -> Nat]
    BY <1>2, KindsAssumption DEF CallShape, CaptureTypeOK, InCall
  <2>2. r \in Place /\ (c.kind # "create" => r = lastModified[c.obj])
    BY <2>1 DEF CaptureTypeOK, Place, NoPlace
  <2>3. /\ open' = [open EXCEPT ![t] = p] /\ pc'[t] = "execute"
        /\ lastModified' = IF Touches(c.kind)
                           THEN [lastModified EXCEPT ![c.obj] = [thread |-> t, packet |-> Len(trace[t])]]
                           ELSE lastModified
        /\ \A v \in Threads \ {t} : pc'[v] = pc[v]
    BY <1>3, <1>5 DEF BeginCall, CaptureTypeOK
  <2> HIDE DEF r
  <2>4. p \in Packet /\ p.kind = c.kind /\ p.obj = c.obj /\ p.seen = c.seen /\ p.req = r
    BY <2>1, <2>2, PacketTypes DEF CallPacket
  <2> HIDE DEF p
  <2>5. Uses(t, p.obj)
    BY <1>2, <2>4 DEF Uses
  <2> QED
    BY <1>1, <1>2, <1>3, <2>1, <2>2, <2>3, <2>4, <2>5 DEF Adds
<1> QED
  BY <1>4, <1>5

(***************************************************************************)
(* The driver's call: a create has made its object, or names nothing.      *)
(***************************************************************************)
LEMMA ExecutedCall ==
  ASSUME "sync" \notin Kinds, CaptureInv, NEW t \in Threads, Execute(t)
  PROVE  /\ trace' = trace /\ call' = call /\ pc[t] = "execute" /\ InCall(t) /\ InCall(t)'
         /\ call[t].kind \in Kinds /\ call[t].obj \in Objects
         /\ open[t] \in Packet /\ open[t].kind = call[t].kind /\ open[t].seen = call[t].seen
         /\ pc'[t] \in {"push", "end"} /\ (call[t].kind \in {"create", "destroy"} => pc'[t] = "end")
         /\ \A v \in Threads \ {t} : pc'[v] = pc[v] /\ open'[v] = open[v]
         /\ \A v \in Threads : (InCall(v)' <=> InCall(v)) /\ \A o : (Uses(v, o)' <=> Uses(v, o))
<1>1. trace' = trace /\ call' = call /\ pc[t] = "execute" /\ InCall(t)
  BY DEF Execute, InCall
<1>2. /\ call[t].kind \in Kinds /\ call[t].obj \in Objects
      /\ open[t] \in Packet /\ open[t].kind = call[t].kind /\ open[t].seen = call[t].seen
  BY <1>1 DEF CaptureInv, CallShape
<1>3. /\ pc'[t] \in {"push", "end"} /\ (call[t].kind \in {"create", "destroy"} => pc'[t] = "end")
  BY <1>2 DEF Execute, AfterExecute, HasPushBarrier, CaptureInv, CaptureTypeOK
<1>4. CaptureStep(t)
  BY DEF CaptureStep
<1>5. \A v \in Threads \ {t} : pc'[v] = pc[v] /\ open'[v] = open[v]
  BY <1>4, OthersStay
<1>6. \A v \in Threads : (InCall(v)' <=> InCall(v)) /\ \A o : (Uses(v, o)' <=> Uses(v, o))
  BY <1>1, <1>3, <1>5 DEF InCall, Uses
<1> QED
  BY <1>1, <1>2, <1>3, <1>5, <1>6

LEMMA ExecutedOpen ==
  ASSUME "sync" \notin Kinds, CaptureInv, ObjectCalls, NEW t \in Threads, Execute(t)
  PROVE  /\ open[t].obj = call[t].obj
         /\ \/ /\ call[t].kind = "create"
               /\ open'[t] \in Packet /\ open'[t].kind = "create" /\ open'[t].seen = call[t].seen
               /\ open'[t].obj = call[t].obj
               /\ state' = [state EXCEPT ![call[t].obj] = "created"]
               /\ lastModified' = [lastModified EXCEPT ![call[t].obj] = Here(t)]
            \/ /\ call[t].kind = "create"
               /\ open'[t] \in Packet /\ open'[t].kind = "create" /\ open'[t].seen = call[t].seen
               /\ open'[t].obj = NoObject
               /\ UNCHANGED <<state, lastModified>>
            \/ /\ call[t].kind # "create"
               /\ UNCHANGED <<open, lastModified>>
               /\ state' = IF call[t].kind = "destroy" THEN [state EXCEPT ![call[t].obj] = "destroyed"] ELSE state
<1>1. /\ pc[t] = "execute" /\ open[t] \in Packet /\ open[t].kind = call[t].kind /\ open[t].seen = call[t].seen
  BY ExecutedCall
<1>2. open[t].obj = call[t].obj
  BY <1>1 DEF ObjectCalls, OpenNames
<1>3. Here(t) \in Place
  BY DEF Here, CurrentPacket, Place, CaptureTypeOK, CaptureInv
<1>4. CASE call[t].kind # "create"
  BY <1>2, <1>4 DEF Execute
<1>5. CASE call[t].kind = "create"
  <2>1. CASE /\ state' = [state EXCEPT ![call[t].obj] = "created"]
             /\ lastModified' = [lastModified EXCEPT ![call[t].obj] = Here(t)]
             /\ open' = [open EXCEPT ![t].req = Here(t)]
    <3>1. open' = [open EXCEPT ![t] = [open[t] EXCEPT !.req = Here(t)]]
      BY <2>1
    <3>2. /\ [open[t] EXCEPT !.req = Here(t)] \in Packet
          /\ [open[t] EXCEPT !.req = Here(t)].obj = call[t].obj
          /\ [open[t] EXCEPT !.req = Here(t)].kind = "create"
          /\ [open[t] EXCEPT !.req = Here(t)].seen = call[t].seen
      BY <1>1, <1>2, <1>3, <1>5 DEF Packet
    <3>3. /\ open'[t] \in Packet /\ open'[t].kind = "create" /\ open'[t].seen = call[t].seen
          /\ open'[t].obj = call[t].obj
      BY <3>1, <3>2 DEF CaptureInv, CaptureTypeOK
    <3> QED
      BY <1>2, <1>5, <2>1, <3>3
  <2>2. CASE open' = [open EXCEPT ![t].obj = NoObject] /\ UNCHANGED <<state, lastModified>>
    <3>1. open' = [open EXCEPT ![t] = [open[t] EXCEPT !.obj = NoObject]]
      BY <2>2
    <3>2. /\ [open[t] EXCEPT !.obj = NoObject] \in Packet
          /\ [open[t] EXCEPT !.obj = NoObject].obj = NoObject
          /\ [open[t] EXCEPT !.obj = NoObject].kind = "create"
          /\ [open[t] EXCEPT !.obj = NoObject].seen = call[t].seen
      BY <1>1, <1>5 DEF Packet
    <3>3. /\ open'[t] \in Packet /\ open'[t].kind = "create" /\ open'[t].seen = call[t].seen
          /\ open'[t].obj = NoObject
      BY <3>1, <3>2 DEF CaptureInv, CaptureTypeOK
    <3> QED
      BY <1>2, <1>5, <2>2, <3>3
  <2> QED
    BY <1>5, <2>1, <2>2 DEF Execute
<1> QED
  BY <1>4, <1>5

\* What the packets and marks are after it.
LEMMA ExecutedNames ==
  ASSUME "sync" \notin Kinds, CaptureInv, ObjectCalls, NEW t \in Threads, Execute(t), NEW n \in Nat, n = Len(trace[t])
  PROVE  /\ \A i \in Threads : \A o \in Objects : \A k \in Names(i, o)' :
              /\ k \in Names(i, o) /\ At(i, k)'.kind = At(i, k).kind /\ At(i, k)'.seen = At(i, k).seen
              /\ At(i, k)'.obj = o /\ At(i, k).obj = o
              /\ At(i, k).kind # "create" => At(i, k)' = At(i, k)
         /\ \A i \in Threads : \A o \in Objects : \A k \in Names(i, o) :
              k \in Names(i, o)' \/ (i = t /\ k = n /\ call[t].kind = "create" /\ state' = state)
         /\ n \in Names(t, call[t].obj) /\ At(t, n).kind = call[t].kind
         /\ \A k : ~Running(t, k)'
         /\ \A i \in Threads \ {t} : \A k : /\ Running(i, k)' <=> Running(i, k)
                                            /\ Unmade(i, k)' <=> Unmade(i, k)
<1>1. /\ trace' = trace /\ call' = call /\ pc[t] = "execute" /\ pc'[t] \in {"push", "end"}
      /\ \A v \in Threads \ {t} : pc'[v] = pc[v] /\ open'[v] = open[v]
      /\ open[t] \in Packet /\ open[t].kind = call[t].kind /\ open[t].seen = call[t].seen
      /\ call[t].obj \in Objects
  BY ExecutedCall
<1>2. \A i \in Threads \ {t} : /\ Numbers(i)' = Numbers(i)
                               /\ \A k : At(i, k)' = At(i, k)
                               /\ \A o : Names(i, o)' = Names(i, o)
  BY <1>1, SameStream
<1>3. /\ open[t].obj = call[t].obj
      /\ \/ call[t].kind # "create" /\ open' = open
         \/ /\ call[t].kind = "create" /\ open'[t] \in Packet /\ open'[t].kind = "create"
            /\ open'[t].seen = call[t].seen
            /\ open'[t].obj = call[t].obj \/ (open'[t].obj = NoObject /\ state' = state)
  BY ExecutedOpen
<1>4. /\ Numbers(t)' = Numbers(t) /\ n \in Numbers(t) /\ At(t, n) = open[t] /\ At(t, n)' = open'[t]
      /\ \A k \in Numbers(t) : k # n => At(t, k)' = At(t, k)
  BY <1>1, <1>3, NoPacketIsNone DEF Numbers, At
<1>5. \A o \in Objects : o # NoObject
  BY NoObjectAssumption
<1>6. \A o \in Objects : \A k \in Names(t, o)' :
              /\ k \in Names(t, o) /\ At(t, k)'.kind = At(t, k).kind /\ At(t, k)'.seen = At(t, k).seen
              /\ At(t, k)'.obj = o /\ At(t, k).obj = o
              /\ At(t, k).kind # "create" => At(t, k)' = At(t, k)
  BY <1>1, <1>3, <1>4, <1>5 DEF Names
<1>7. \A o \in Objects : \A k \in Names(t, o) :
        k \in Names(t, o)' \/ (k = n /\ call[t].kind = "create" /\ state' = state)
  BY <1>3, <1>4 DEF Names
<1>8. n \in Names(t, call[t].obj) /\ At(t, n).kind = call[t].kind
  BY <1>1, <1>3, <1>4 DEF Names
<1>9. /\ \A k : ~Running(t, k)'
      /\ \A i \in Threads \ {t} : \A k : /\ Running(i, k)' <=> Running(i, k)
                                         /\ Unmade(i, k)' <=> Unmade(i, k)
  BY <1>1 DEF Running, Unmade
<1>10. \A i \in Threads \ {t} : \A o : \A k \in Names(i, o)' : At(i, k).obj = o
  BY <1>2 DEF Names
<1> QED
  BY <1>2, <1>6, <1>7, <1>8, <1>9, <1>10

LEMMA ExecutedMarks ==
  ASSUME "sync" \notin Kinds, CaptureInv, ObjectCalls, NEW t \in Threads, Execute(t), NEW n \in Nat, n = Len(trace[t])
  PROVE  \A i \in Threads : \A o \in Objects : \A k :
           k \in Marks(i, o)' <=>
             \/ k \in Marks(i, o)
             \/ i = t /\ k = n /\ o = call[t].obj /\ call[t].kind = "create" /\ n \in Names(t, o)'
<1> SUFFICES ASSUME NEW i \in Threads, NEW o \in Objects, NEW k
             PROVE  k \in Marks(i, o)' <=>
                      \/ k \in Marks(i, o)
                      \/ i = t /\ k = n /\ o = call[t].obj /\ call[t].kind = "create" /\ n \in Names(t, o)'
  OBVIOUS
<1>1. /\ k \in Names(i, o)' => /\ k \in Names(i, o) /\ At(i, k)'.kind = At(i, k).kind /\ At(i, k).obj = o
      /\ k \in Names(i, o) => k \in Names(i, o)' \/ (i = t /\ k = n /\ call[t].kind = "create")
      /\ n \in Names(t, call[t].obj) /\ At(t, n).kind = call[t].kind
      /\ \A m : ~Running(t, m)'
      /\ i # t => /\ Running(i, k)' <=> Running(i, k)
                  /\ Unmade(i, k)' <=> Unmade(i, k)
  BY ExecutedNames
<1>2. /\ Running(t, n) /\ \A m : m # n => ~Running(t, m)
  BY ExecutedCall DEF Running
<1>3. \A m : ~Unmade(t, m)' /\ (m # n => ~Unmade(t, m))
  BY <1>1, <1>2 DEF Unmade
<1>4. Unmade(t, n) <=> call[t].kind = "create"
  BY <1>2 DEF Unmade
<1>5. CASE i # t
  BY <1>1, <1>5 DEF Marks
<1>6. CASE i = t /\ k # n
  BY <1>1, <1>3, <1>6 DEF Marks
<1>7. CASE i = t /\ k = n
  <2>1. n \in Names(t, o)' => At(t, n)'.kind = call[t].kind /\ o = call[t].obj
    BY <1>1, <1>7 DEF Names
  <2>2. CASE call[t].kind = "create"
    BY <1>1, <1>3, <1>4, <1>7, <2>1, <2>2 DEF Marks, Makes
  <2>3. CASE call[t].kind # "create"
    BY <1>1, <1>3, <1>4, <1>7, <2>3 DEF Marks
  <2> QED
    BY <2>2, <2>3
<1> QED
  BY <1>5, <1>6, <1>7

LEMMA ExecuteKeepsPackets ==
  ASSUME "sync" \notin Kinds, CaptureInv, ObjectCalls, ObjectPackets, NEW t \in Threads, Execute(t)
  PROVE  ObjectPackets'
<1>0. PICK n \in Nat : n = Len(trace[t])
  BY BasicTypes DEF CaptureInv
<1> SUFFICES ASSUME NEW i \in Threads, NEW o \in Objects, NEW k \in Names(i, o)' PROVE PacketOf(i, k)'
  BY DEF ObjectPackets
<1>1. /\ k \in Names(i, o) /\ At(i, k)'.kind = At(i, k).kind /\ At(i, k)'.seen = At(i, k).seen
      /\ At(i, k)'.obj = o /\ At(i, k).obj = o
      /\ At(i, k).kind # "create" => At(i, k)' = At(i, k)
  BY <1>0, ExecutedNames
<1>2. PacketOf(i, k) /\ trace' = trace
  BY <1>1, ExecutedCall DEF ObjectPackets
<1>3. Carries(trace', At(i, k)')
  <2>1. CASE At(i, k).kind # "create"
    BY <1>1, <1>2, <2>1 DEF PacketOf
  <2>2. CASE At(i, k).kind = "create"
    BY <1>1, <1>2, <2>2 DEF PacketOf, Carries
  <2> QED
    BY <2>1, <2>2
<1>4. NamedBefore(i, k)'
  <2>1. \A j \in Threads : \A l \in Names(j, o)' : l \in Names(j, o)
    BY <1>0, ExecutedNames
  <2> QED
    BY <1>1, <1>2, <2>1 DEF NamedBefore, PacketOf
<1> QED
  BY <1>1, <1>2, <1>3, <1>4 DEF PacketOf

LEMMA ExecuteKeepsMarks ==
  ASSUME "sync" \notin Kinds, CaptureInv, ObjectCalls, ObjectMarks, NEW t \in Threads, Execute(t)
  PROVE  ObjectMarks'
<1>0. PICK n \in Nat : n = Len(trace[t])
  BY BasicTypes DEF CaptureInv
<1> DEFINE c == call[t]
<1>1. \A i \in Threads : \A o \in Objects : \A k \in Names(i, o)' :
        /\ k \in Names(i, o) /\ At(i, k)'.kind = At(i, k).kind /\ At(i, k)'.seen = At(i, k).seen
        /\ At(i, k).kind # "create" => At(i, k)' = At(i, k)
  BY <1>0, ExecutedNames
<1>2. /\ n \in Names(t, c.obj) /\ At(t, n).kind = c.kind
      /\ \A k : ~Running(t, k)'
      /\ \A i \in Threads \ {t} : \A k : /\ Running(i, k)' <=> Running(i, k)
                                         /\ Unmade(i, k)' <=> Unmade(i, k)
  BY <1>0, ExecutedNames
<1>3. \A i \in Threads : \A o \in Objects : \A k :
        k \in Marks(i, o)' <=>
          \/ k \in Marks(i, o)
          \/ i = t /\ k = n /\ o = c.obj /\ c.kind = "create" /\ n \in Names(t, o)'
  BY <1>0, ExecutedMarks
<1>4. \A i \in Threads : \A o \in Objects : \A k \in Marks(i, o) :
        At(i, k)'.kind = At(i, k).kind /\ At(i, k)'.seen = At(i, k).seen
  BY <1>1, <1>3 DEF Marks
<1>5. c.obj \in Objects /\ InCall(t) /\ Uses(t, c.obj) /\ pc[t] = "execute" /\ call' = call
  BY ExecutedCall DEF Uses
<1>6. \A k : Running(t, k) <=> k = n
  BY <1>0, <1>5 DEF Running
<1>7. CallOf(t, c.obj) /\ \A o \in Objects : Unborn(o) /\ LastMark(o) /\ MadeOnce(o) /\ Unmakes(o)
  BY <1>5 DEF ObjectCalls, ObjectMarks
<1>8. ASSUME NEW o \in Objects, ~(o = c.obj /\ c.kind = "create" /\ n \in Names(t, o)'),
             lastModified'[o] = lastModified[o], state'[o] = "uninitialized" <=> state[o] = "uninitialized"
      PROVE  LastMark(o)' /\ MadeOnce(o)'
  <2>1. \A i \in Threads : \A k : k \in Marks(i, o)' <=> k \in Marks(i, o)
    BY <1>3, <1>8
  <2>2. \A i \in Threads : Marks(i, o)' = Marks(i, o)
    BY <2>1
  <2>3. LastMark(o)'
    BY <1>4, <1>7, <1>8, <2>2 DEF LastMark
  <2>4. MadeOnce(o)'
    BY <1>4, <1>7, <1>8, <2>2 DEF MadeOnce
  <2> QED
    BY <2>3, <2>4
<1>9. ASSUME NEW o \in Objects, o # c.obj
      PROVE  Unborn(o)' /\ LastMark(o)' /\ MadeOnce(o)' /\ Unmakes(o)'
  <2>1. state'[o] = state[o] /\ lastModified'[o] = lastModified[o]
    BY <1>9, ExecutedOpen DEF CaptureInv, CaptureTypeOK
  <2>2. LastMark(o)' /\ MadeOnce(o)'
    BY <1>8, <1>9, <2>1
  <2>3. n \notin Names(t, o)
    BY <1>2, <1>9 DEF Names
  <2>4. \A i \in Threads : \A k \in Names(i, o)' : /\ Running(i, k)' <=> Running(i, k)
                                                   /\ Unmade(i, k)' <=> Unmade(i, k)
    BY <1>1, <1>2, <1>6, <2>3 DEF Unmade
  <2>5. Unborn(o)'
    BY <1>1, <1>7, <2>1, <2>4 DEF Unborn
  <2>6. Unmakes(o)'
    BY <1>1, <1>7, <2>1, <2>4 DEF Unmakes
  <2> QED
    BY <2>2, <2>5, <2>6
<1>10. ASSUME NEW o \in Objects, o = c.obj
       PROVE  Unborn(o)' /\ LastMark(o)' /\ MadeOnce(o)' /\ Unmakes(o)'
  <2>1. CASE c.kind # "create"
    <3>1. lastModified'[o] = lastModified[o] /\ (c.kind # "destroy" => state'[o] = state[o])
          /\ (c.kind = "destroy" => state'[o] = "destroyed")
      BY <1>10, <2>1, ExecutedOpen DEF CaptureInv, CaptureTypeOK
    <3>2. state[o] # "uninitialized" /\ state'[o] # "uninitialized"
      BY <1>5, <1>7, <1>10, <2>1, <3>1 DEF CallOf
    <3>3. Unborn(o)'
      BY <3>2 DEF Unborn
    <3>4. LastMark(o)' /\ MadeOnce(o)'
      BY <1>8, <2>1, <3>1, <3>2
    <3>5. Unmakes(o)'
      <4> SUFFICES ASSUME NEW i \in Threads, NEW k \in Names(i, o)', At(i, k)'.kind = "destroy",
                          c.kind # "destroy"
                   PROVE  state'[o] = "destroyed" \/ Running(i, k)'
        BY <3>1 DEF Unmakes
      <4>1. k \in Names(i, o) /\ At(i, k).kind = "destroy"
        BY <1>1
      <4>2. i # t \/ ~Running(i, k)
        BY <1>2, <1>6, <4>1
      <4>3. state[o] = "destroyed" \/ Running(i, k)
        BY <1>7, <4>1 DEF Unmakes
      <4> QED
        BY <1>2, <3>1, <4>2, <4>3
    <3> QED
      BY <3>3, <3>4, <3>5
  <2>2. CASE c.kind = "create"
    <3>1. state[o] = "uninitialized"
      BY <1>5, <1>7, <1>10, <2>2 DEF CallOf
    <3>2. \A i \in Threads : \A k \in Names(i, o) : Unmade(i, k) /\ k \notin Marks(i, o)
      BY <1>7, <3>1 DEF Unborn, Marks
    <3>3. \A i \in Threads : \A k : k \notin Marks(i, o)
      BY <3>2 DEF Marks
    <3>4. ASSUME NEW i \in Threads, NEW k \in Names(i, o)' PROVE At(i, k)'.kind # "destroy"
      <4>1. k \in Names(i, o) /\ Unmade(i, k) /\ At(i, k)'.kind = At(i, k).kind
        BY <1>1, <3>2
      <4>2. At(i, k) = open[i]
        BY <4>1 DEF Unmade, Running, At, CaptureInv, CaptureTypeOK
      <4>3. open[i].kind = "create"
        BY <4>1 DEF Unmade, Running, CaptureInv, CallShape
      <4> QED
        BY <4>1, <4>2, <4>3
    <3>5. Unmakes(o)'
      BY <3>4 DEF Unmakes
    <3>6. CASE open'[t].obj = c.obj /\ state'[o] = "created" /\ lastModified'[o] = Here(t)
      <4>1. n \in Names(t, o)' /\ At(t, n)' = open'[t]
        <5>1. open'[t] # NoPacket /\ trace' = trace
          BY <2>2, ExecutedOpen, ExecutedCall, NoPacketIsNone
        <5>2. n \in Numbers(t)' /\ At(t, n)' = open'[t]
          BY <1>0, <5>1 DEF Numbers, At
        <5> QED
          BY <1>10, <3>6, <5>2 DEF Names
      <4>2. \A i \in Threads : \A k : k \in Marks(i, o)' <=> i = t /\ k = n
        BY <1>3, <1>10, <2>2, <3>3, <4>1
      <4>3. lastModified'[o].thread = t /\ lastModified'[o].packet = n
        BY <1>0, <3>6 DEF Here, CurrentPacket
      <4>4. LastMark(o)'
        BY <4>2, <4>3 DEF LastMark
      <4>5. At(t, n)'.kind = "create"
        BY <1>1, <1>2, <1>10, <2>2, <4>1
      <4>6. MadeOnce(o)'
        BY <4>2, <4>5 DEF MadeOnce
      <4>7. Unborn(o)'
        BY <3>6 DEF Unborn
      <4> QED
        BY <3>5, <4>4, <4>6, <4>7
    <3>7. CASE open'[t].obj = NoObject /\ UNCHANGED <<state, lastModified>>
      <4>1. n \notin Names(t, o)'
        <5>1. trace' = trace
          BY ExecutedCall
        <5>2. At(t, n)' = open'[t]
          BY <1>0, <5>1 DEF At
        <5> QED
          BY <3>7, <5>2, NoObjectAssumption DEF Names
      <4>2. LastMark(o)' /\ MadeOnce(o)'
        BY <1>8, <3>7, <4>1
      <4>3. \A k \in Names(t, o) : k = n
        BY <1>6, <3>2 DEF Unmade
      <4>4. Unborn(o)'
        BY <1>1, <1>2, <3>2, <4>1, <4>3 DEF Unborn
      <4> QED
        BY <3>5, <4>2, <4>4
    <3> QED
      BY <1>10, <2>2, <3>6, <3>7, ExecutedOpen DEF CaptureInv, CaptureTypeOK
  <2> QED
    BY <2>1, <2>2
<1> QED
  BY <1>9, <1>10 DEF ObjectMarks

LEMMA ExecuteKeepsCalls ==
  ASSUME "sync" \notin Kinds, CaptureInv, ObjectCalls, NEW t \in Threads, Execute(t)
  PROVE  ObjectCalls'
<1>0. PICK n \in Nat : n = Len(trace[t])
  BY BasicTypes DEF CaptureInv
<1> DEFINE c == call[t]
<1>1. /\ trace' = trace /\ call' = call /\ pc[t] = "execute" /\ InCall(t)
      /\ c.obj \in Objects
      /\ pc'[t] \in {"push", "end"} /\ (c.kind \in {"create", "destroy"} => pc'[t] = "end")
      /\ \A v \in Threads \ {t} : pc'[v] = pc[v] /\ open'[v] = open[v]
      /\ \A v \in Threads : (InCall(v)' <=> InCall(v)) /\ \A o : (Uses(v, o)' <=> Uses(v, o))
  BY ExecutedCall
<1>2. Exclusive'
  BY <1>1 DEF ObjectCalls, Exclusive
<1>3. ASSUME NEW v \in Threads PROVE OpenNames(v)'
  <2>1. CASE v = t
    <3>1. open'[t].obj = c.obj \/ (open'[t].obj = NoObject /\ c.kind = "create")
      BY ExecutedOpen
    <3> QED
      BY <1>1, <2>1, <3>1 DEF ObjectCalls, OpenNames
  <2>2. CASE v # t
    BY <1>1, <2>2 DEF ObjectCalls, OpenNames, InCall
  <2> QED
    BY <2>1, <2>2
<1>4. ASSUME NEW v \in Threads, NEW o \in Objects PROVE CallOf(v, o)'
  <2> SUFFICES ASSUME Uses(v, o) PROVE CallOf(v, o)'
    BY <1>1 DEF CallOf
  <2>1. CallOf(v, o) /\ Exclusive
    BY DEF ObjectCalls
  <2>2. \A i \in Threads : \A k : Own(v, i, k)' <=> Own(v, i, k)
    BY <1>1 DEF Own
  <2>3. \A i \in Threads : \A k \in Names(i, o)' : k \in Names(i, o)
    BY <1>0, ExecutedNames
  <2>4. \A i \in Threads : \A k \in Marks(i, o)' :
          k \in Marks(i, o) \/ (i = t /\ k = n /\ o = c.obj /\ c.kind = "create")
    BY <1>0, ExecutedMarks
  <2>5. v # t => ~(o = c.obj /\ c.kind \in {"create", "destroy"})
    BY <1>1, <2>1 DEF Exclusive, Makes, Touches
  <2>6. Own(t, t, n)'
    BY <1>0, <1>1 DEF Own
  <2>7. \A i \in Threads : \A k \in Marks(i, o)' : k < call[v].seen[i] \/ Own(v, i, k)'
    BY <2>1, <2>2, <2>4, <2>5, <2>6 DEF CallOf
  <2>8. ~(o = c.obj /\ c.kind \in {"create", "destroy"}) => state'[o] = state[o]
    BY ExecutedOpen DEF CaptureInv, CaptureTypeOK
  <2>9. c.kind = "destroy" => state'[o] = "destroyed" \/ state'[o] = state[o]
    BY ExecutedOpen DEF CaptureInv, CaptureTypeOK
  <2>10. CASE v # t
    BY <1>1, <2>1, <2>2, <2>3, <2>5, <2>7, <2>8, <2>10 DEF CallOf
  <2>11. CASE v = t
    <3>1. c.kind # "create" => state'[o] # "uninitialized"
      BY <2>1, <2>8, <2>9, <2>11 DEF CallOf
    <3>2. c.kind # "create" /\ state'[o] = "destroyed" => pc'[t] = "end"
      <4>1. c.kind # "create" => state[o] # "destroyed"
        BY <1>1, <2>1, <2>11 DEF CallOf
      <4> QED
        BY <1>1, <2>8, <4>1
    <3>3. o = c.obj /\ Makes(c.kind) =>
            \A i \in Threads : \A k \in Names(i, o)' : k < c.seen[i] \/ Own(v, i, k)'
      BY <2>1, <2>2, <2>3, <2>11 DEF CallOf
    <3>4. c.kind # "create" => Born(trace', o, c.seen)
      BY <1>1, <2>1, <2>11 DEF CallOf
    <3> QED
      BY <1>1, <2>7, <2>11, <3>1, <3>2, <3>3, <3>4 DEF CallOf
  <2> QED
    BY <2>10, <2>11
<1> QED
  BY <1>2, <1>3, <1>4 DEF ObjectCalls

LEMMA CaptureKeepsObjects ==
  ASSUME "sync" \notin Kinds, CaptureInv, CaptureInv', WriterInv, ObjectInv, NEW t \in Threads, CaptureStep(t)
  PROVE  ObjectInv'
<1> USE DEF ObjectInv
<1>1. NamingTypes'
  BY KeepsNamingTypes
<1>2. Grown /\ CaptureTypeOK
  BY StreamsGrow DEF Grown, CaptureInv
<1>3. CASE ~Naming(t)
  <2>1. SameObjects
    BY <1>3, QuietSteps
  <2>2. ObjectCalls'
    BY <1>2, <1>3, <2>1, QuietKeepsCalls, CallKeepsCalls
  <2> QED
    BY <1>1, <1>2, <2>1, <2>2, SameMarks, SamePackets
<1>4. CASE BeginUpdate(t) \/ BeginCall(t)
  BY <1>1, <1>4, BeginsNaming, AddKeepsMarks, AddKeepsPackets, AddKeepsCalls
<1>5. CASE Execute(t)
  BY <1>1, <1>5, ExecuteKeepsMarks, ExecuteKeepsPackets, ExecuteKeepsCalls
<1> QED
  BY <1>3, <1>4, <1>5 DEF Naming

LEMMA SameCapture ==
  ASSUME ObjectInv, UNCHANGED <<trace, open, pc, call, state, lastModified>>
  PROVE  ObjectInv'
<1>1. /\ \A i, k : /\ At(i, k)' = At(i, k)
                   /\ Running(i, k)' <=> Running(i, k)
                   /\ Unmade(i, k)' <=> Unmade(i, k)
      /\ \A i : Numbers(i)' = Numbers(i)
  BY DEF At, Running, Unmade, Numbers
<1>2. \A i, o : Names(i, o)' = Names(i, o)
  BY <1>1 DEF Names
<1>3. \A i, o : Marks(i, o)' = Marks(i, o)
  BY <1>1, <1>2 DEF Marks
<1>4. \A t, o : (Uses(t, o)' <=> Uses(t, o)) /\ \A i, k : Own(t, i, k)' <=> Own(t, i, k)
  BY DEF Uses, Own, InCall
<1>5. SameObjects
  BY <1>1, <1>2, <1>3 DEF SameObjects
<1>6. ObjectMarks'
  BY <1>5, SameMarks DEF ObjectInv
<1>7. ObjectPackets'
  BY <1>1, <1>2 DEF ObjectInv, ObjectPackets, PacketOf, NamedBefore
<1>8. Exclusive' /\ \A t \in Threads : OpenNames(t)'
  BY <1>4 DEF ObjectInv, ObjectCalls, Exclusive, OpenNames, InCall
<1>9. \A t \in Threads : \A o \in Objects : CallOf(t, o)'
  BY <1>2, <1>3, <1>4 DEF ObjectInv, ObjectCalls, CallOf
<1>10. NamingTypes'
  BY DEF ObjectInv, NamingTypes
<1> QED
  BY <1>6, <1>7, <1>8, <1>9, <1>10 DEF ObjectInv, ObjectCalls

LEMMA InitObjectInv == Init => ObjectInv
<1> SUFFICES ASSUME Init PROVE ObjectInv
  OBVIOUS
<1>1. /\ \A t \in Threads : Len(trace[t]) = 0 /\ pc[t] = "idle" /\ open[t] = NoPacket
      /\ \A o \in Objects : state[o] = "uninitialized"
  BY DEF Init, CaptureInit
<1>2. \A i \in Threads : Numbers(i) = {}
  BY <1>1 DEF Numbers
<1>3. \A i \in Threads : \A o : Names(i, o) = {} /\ Marks(i, o) = {}
  BY <1>2 DEF Names, Marks
<1>4. ObjectCalls
  BY <1>1 DEF ObjectCalls, Exclusive, OpenNames, CallOf, Uses, InCall
<1>5. ObjectMarks
  BY <1>1, <1>3 DEF ObjectMarks, Unborn, LastMark, MadeOnce, Unmakes
<1>6. ObjectPackets /\ NamingTypes
  BY <1>1, <1>3 DEF ObjectPackets, NamingTypes
<1> QED
  BY <1>4, <1>5, <1>6 DEF ObjectInv

(***************************************************************************)
(* The replay.  A packet behind a local barrier has all it has seen        *)
(* complete once it is started; read_handle gives the rest.                *)
(***************************************************************************)
ReplayReady == CaptureTypeOK /\ ReplayInv /\ ReaderInv /\ CallsCovered /\ ObjectInv

LEMMA StartedBehindBarrier ==
  ASSUME ReplayReady, NEW t \in Threads, NEW j \in 1 .. Len(trace[t]), Started(t, j), NeedsCover(trace[t][j]),
         NEW i \in Threads, NEW l \in 0 .. trace[t][j].seen[i] - 1
  PROVE  completed[i] > l
<1> DEFINE p == trace[t][j]
<1>1. completed[t] \in Nat /\ completed[i] \in Nat /\ p.seen \in [Threads -> Nat]
  BY PacketAt DEF ReplayReady, ReplayInv, ReplayTypeOK
<1>2. /\ j - 1 <= completed[t]
      /\ j <= completed[t] \/ rpc[t] \notin {"waiting", "terminated"}
  BY <1>1 DEF Started
<1>3. p.seen[t] < j /\ Covered(trace[t], t, j - 1, p.seen)
  BY DEF ReplayReady, CallsCovered
<1>4. l \in Nat /\ l < p.seen[i] /\ p.seen[i] \in Nat
  BY <1>1
<1>5. CASE i = t
  BY <1>1, <1>2, <1>3, <1>4, <1>5
<1>6. CASE i # t
  <2>1. PICK n \in 1 .. j - 1 : Covers(trace[t][n], t, p.seen)
    BY <1>3 DEF Covered
  <2>2. n \in 1 .. Len(trace[t]) /\ n \in 1 .. completed[t]
        /\ (n < completed[t] \/ rpc[t] \notin {"waiting", "terminated"})
    BY <1>1, <1>2, BasicTypes, SMTT(30) DEF ReplayReady
  <2>3. Passed(t, n)
    BY <2>1, <2>2 DEF Covers, ReplayReady, ReaderInv, BarriersPassed
  <2>4. p.seen[i] <= trace[t][n].at[i] /\ trace[t][n].at[i] <= completed[i] /\ trace[t][n].at[i] \in Nat
    BY <1>6, <2>1, <2>2, <2>3, PacketAt DEF Covers, Passed, ReplayReady
  <2> QED
    BY <1>1, <1>4, <2>4, SMTT(30)
<1> QED
  BY <1>5, <1>6

\* A packet of a stream that names an object.
LEMMA StreamPacket ==
  ASSUME ReplayReady, NEW t \in Threads, NEW j \in 1 .. Len(trace[t]), trace[t][j].obj # NoObject
  PROVE  /\ trace[t][j].obj \in Objects /\ j - 1 \in Names(t, trace[t][j].obj)
         /\ At(t, j - 1) = trace[t][j] /\ PacketOf(t, j - 1)
         /\ Makes(trace[t][j].kind) => j - 1 \in Marks(t, trace[t][j].obj)
<1>1. trace[t][j].obj \in Objects
  <2>1. trace[t][j] \in Packet
    BY PacketAt DEF ReplayReady
  <2> QED
    BY <2>1 DEF Packet
<1>2. Len(trace[t]) \in Nat /\ CaptureTypeOK
  BY BasicTypes DEF ReplayReady
<1>3. j - 1 \in Nat /\ j - 1 < Len(trace[t]) /\ (j - 1) + 1 = j
  BY <1>2
<1>4. /\ j - 1 \in Names(t, trace[t][j].obj) /\ At(t, j - 1) = trace[t][j]
      /\ Makes(trace[t][j].kind) => j - 1 \in Marks(t, trace[t][j].obj)
  BY <1>2, <1>3, WrittenPacket
<1> QED
  BY <1>1, <1>4 DEF ReplayReady, ObjectInv, ObjectPackets

\* Once a destroy is started, all other packets that name its object are complete.
LEMMA DestroyIsLast ==
  ASSUME ReplayReady, NEW t \in Threads, NEW j \in 1 .. Len(trace[t]), Started(t, j),
         trace[t][j].kind = "destroy", trace[t][j].obj # NoObject,
         NEW i \in Threads, NEW k \in 1 .. Len(trace[i]), trace[i][k].obj = trace[t][j].obj
  PROVE  (i = t /\ k = j) \/ completed[i] >= k
<1> DEFINE p == trace[t][j]
<1>1. /\ At(t, j - 1) = p /\ PacketOf(t, j - 1) /\ k - 1 \in Names(i, p.obj)
      /\ p.obj \in Objects
  BY StreamPacket
<1>2. k - 1 < p.seen[i] \/ (i = t /\ k - 1 = j - 1)
  BY <1>1 DEF PacketOf, NamedBefore
<1>3. NeedsCover(p)
  BY DEF ReplayReady, ObjectInv, NamingTypes, NeedsCover, HasLocalBarrier
<1>4. p.seen \in [Threads -> Nat] /\ completed[i] \in Nat /\ Len(trace[i]) \in Nat /\ Len(trace[t]) \in Nat
  BY PacketAt, BasicTypes DEF ReplayReady, ReplayInv, ReplayTypeOK
<1>5. CASE k - 1 < p.seen[i]
  <2>1. k - 1 \in 0 .. p.seen[i] - 1
    BY <1>4, <1>5
  <2>2. completed[i] > k - 1
    BY <1>3, <2>1, StartedBehindBarrier
  <2> QED
    BY <1>4, <2>2
<1>6. CASE i = t /\ k - 1 = j - 1
  BY <1>4, <1>6
<1> QED
  BY <1>2, <1>5, <1>6

\* What one step of a replay thread starts and executes.
LEMMA ReplayProgress ==
  ASSUME ReplayReady, NEW t \in Threads, ReplayThread(t) \/ ReplayFails(t), trace' = trace,
         NEW u \in Threads
  PROVE  /\ completed[u] \in Nat /\ completed'[u] \in Nat /\ completed[u] <= completed'[u]
         /\ \A j \in 1 .. Len(trace[u]) :
              /\ Executed(u, j) => Executed(u, j)'
              /\ Started(u, j)' => \/ Started(u, j) \/ trace[u][j].obj = NoObject
                                   \/ u = t /\ read_handle(t) /\ j = completed[t] + 1
              /\ Executed(u, j)' => \/ Executed(u, j) \/ trace[u][j].obj = NoObject
                                    \/ u = t /\ Replay(t) /\ j = completed[t] + 1
<1>0. /\ completed \in [Threads -> Nat] /\ packetOpen \in [Threads -> BOOLEAN]
      /\ rpc \in [Threads -> {"step", "barrier", "waiting", "handle", "execute", "terminated"}]
  BY DEF ReplayReady, ReplayInv, ReplayTypeOK
<1>1. CASE step(t)
  <2>1. /\ completed' = IF packetOpen[t] THEN [completed EXCEPT ![t] = @ + 1] ELSE completed
        /\ rpc[t] = "step" /\ rpc'[t] \in {"terminated", "barrier", "handle"}
        /\ \A i \in Threads \ {t} : rpc'[i] = rpc[i] /\ packetOpen'[i] = packetOpen[i]
    BY <1>0, <1>1 DEF step, complete_packet
  <2>2. /\ completed'[t] = IF packetOpen[t] THEN completed[t] + 1 ELSE completed[t]
        /\ \A i \in Threads \ {t} : completed'[i] = completed[i]
    BY <1>0, <2>1
  <2> QED
    BY <1>0, <2>1, <2>2 DEF Started, Executed
<1>2. CASE EnterBarrier(t)
  <2>1. /\ rpc[t] = "barrier" /\ packetOpen[t] /\ trace[t][completed[t] + 1].type = "barrier"
        /\ completed[t] < Len(trace[t])
    BY <1>2 DEF EnterBarrier, ReplayReady, ReplayInv, ReplayPosition, OpenPacket
  <2>2. completed[t] + 1 \in 1 .. Len(trace[t])
    BY <1>0, <2>1, BasicTypes DEF ReplayReady
  <2>3. trace[t][completed[t] + 1].obj = NoObject
    BY <2>1, <2>2 DEF ReplayReady, ObjectInv, NamingTypes
  <2>4. /\ completed' = [completed EXCEPT ![t] = @ + 1] /\ rpc'[t] = "waiting"
        /\ \A i \in Threads \ {t} : rpc'[i] = rpc[i] /\ packetOpen'[i] = packetOpen[i]
    BY <1>0, <1>2, <2>1 DEF EnterBarrier, complete_packet
  <2>5. completed'[t] = completed[t] + 1 /\ \A i \in Threads \ {t} : completed'[i] = completed[i]
    BY <1>0, <2>4
  <2> QED
    BY <1>0, <2>1, <2>3, <2>4, <2>5 DEF Started, Executed
<1>3. CASE PassBarrier(t)
  <2>1. /\ rpc[t] = "waiting" /\ ~packetOpen[t] /\ completed' = completed /\ packetOpen' = packetOpen
        /\ \A i \in Threads \ {t} : rpc'[i] = rpc[i]
    BY <1>0, <1>3 DEF PassBarrier, ReplayReady, ReplayInv, ReplayPosition
  <2> QED
    BY <1>0, <2>1 DEF Started, Executed
<1>4. CASE read_handle(t) \/ StopWhileWaiting(t) \/ Replay(t) \/ ReplayFails(t)
  <2>1. /\ completed' = completed /\ packetOpen' = packetOpen
        /\ \A i \in Threads \ {t} : rpc'[i] = rpc[i]
    BY <1>0, <1>4 DEF read_handle, StopWhileWaiting, Replay, ReplayFails
  <2>2. CASE read_handle(t)
    <3>1. rpc[t] = "handle" /\ rpc'[t] = "execute"
      BY <1>0, <2>2 DEF read_handle
    <3> QED
      BY <1>0, <2>1, <2>2, <3>1 DEF Started, Executed
  <2>3. CASE Replay(t)
    <3>1. rpc[t] = "execute" /\ rpc'[t] = "step"
      BY <1>0, <2>3 DEF Replay
    <3> QED
      BY <1>0, <2>1, <2>3, <3>1 DEF Started, Executed
  <2>4. CASE StopWhileWaiting(t) \/ ReplayFails(t)
    <3>1. rpc[t] \in {"handle", "waiting", "execute"} /\ rpc'[t] = "terminated"
      BY <1>0, <2>4 DEF StopWhileWaiting, ReplayFails
    <3> QED
      BY <1>0, <2>1, <3>1 DEF Started, Executed
  <2> QED
    BY <1>4, <2>2, <2>3, <2>4
<1> QED
  BY <1>1, <1>2, <1>3, <1>4 DEF ReplayThread

LEMMA HandleOrdered ==
  ASSUME ReplayReady, Ordered, NEW t \in Threads, read_handle(t), NEW j \in 1 .. Len(trace[t]),
         j = completed[t] + 1, trace[t][j].obj # NoObject,
         NEW i \in Threads, NEW l \in 0 .. trace[t][j].seen[i] - 1,
         trace[i][l + 1].obj = trace[t][j].obj, Makes(trace[i][l + 1].kind)
  PROVE  completed[i] > l
<1>1. PICK p \in Packet : p = trace[t][j]
  BY PacketAt DEF ReplayReady
<1>2. completed \in [Threads -> Nat] /\ p.seen \in [Threads -> Nat] /\ p.req \in Place
  BY DEF ReplayReady, ReplayInv, ReplayTypeOK, Packet
<1>3. completed[t] \in Nat /\ completed[i] \in Nat /\ j - 1 = completed[t] /\ p.seen[t] \in Nat /\ p.seen[i] \in Nat
  BY <1>2
<1>4. At(t, j - 1) = p /\ PacketOf(t, j - 1)
  BY <1>1, StreamPacket
<1>5. Carries(trace, p) /\ p.seen[t] <= completed[t]
  BY <1>3, <1>4 DEF PacketOf
<1>6. p.kind # "create"
  BY <1>1, <1>5 DEF Carries
<1>7. PICK a \in Threads : a = p.req.thread
  BY <1>5, <1>6 DEF Carries
<1>8. PICK b \in Int : b = p.req.packet
  BY <1>2 DEF Place
<1>9. /\ b < p.seen[a] /\ p.seen[a] <= Len(trace[a]) /\ trace[a][b + 1].obj = p.obj
      /\ (i = a /\ l = b) \/ l < trace[a][b + 1].seen[i]
  BY <1>1, <1>5, <1>6, <1>7, <1>8 DEF Carries
<1>10. b \in Nat /\ p.seen[a] \in Nat /\ completed[a] \in Nat /\ Len(trace[a]) \in Nat
  BY <1>2, <1>7, <1>8, BasicTypes DEF Place, ReplayReady
<1>11. b < completed[a]
  <2>1. a = t \/ ~(b >= completed[a])
    <3>1. a # -1
      BY DEF Threads
    <3> QED
      BY <1>1, <1>7, <1>8, <3>1 DEF read_handle, MustWaitForHandle, OpenPacket
  <2>2. CASE a = t
    BY <1>3, <1>5, <1>9, <1>10, <2>2
  <2>3. CASE a # t
    BY <1>10, <2>1, <2>3
  <2> QED
    BY <2>2, <2>3
<1>12. CASE i = a /\ l = b
  BY <1>11, <1>12
<1>13. CASE l < trace[a][b + 1].seen[i]
  <2>1. b + 1 \in 1 .. Len(trace[a]) /\ Started(a, b + 1)
    BY <1>9, <1>10, <1>11 DEF Started
  <2>2. trace[a][b + 1].seen[i] \in Nat /\ l \in Nat
    BY <1>1, <1>3, <2>1, PacketAt, SMTT(30) DEF ReplayReady
  <2>3. l \in 0 .. trace[a][b + 1].seen[i] - 1
    BY <1>13, <2>2
  <2>4. trace[a][b + 1].obj # NoObject /\ trace[i][l + 1].obj = trace[a][b + 1].obj
    BY <1>1, <1>9
  <2> QED
    BY <2>1, <2>3, <2>4 DEF Ordered
<1> QED
  BY <1>9, <1>12, <1>13

LEMMA ReplayKeepsOrdered ==
  ASSUME ReplayReady, Ordered, NEW t \in Threads, ReplayThread(t) \/ ReplayFails(t), trace' = trace
  PROVE  Ordered'
<1> SUFFICES ASSUME NEW u \in Threads, NEW j \in 1 .. Len(trace[u]), Started(u, j)', trace[u][j].obj # NoObject,
                    NEW i \in Threads, NEW l \in 0 .. trace[u][j].seen[i] - 1,
                    trace[i][l + 1].obj = trace[u][j].obj, Makes(trace[i][l + 1].kind)
             PROVE  completed'[i] > l
  BY DEF Ordered
<1>1. completed[i] \in Nat /\ completed'[i] \in Nat /\ completed[i] <= completed'[i]
  BY ReplayProgress
<1>2. l \in Nat
  BY PacketAt DEF ReplayReady
<1>3. completed[i] > l
  <2>1. Started(u, j) \/ (u = t /\ read_handle(t) /\ j = completed[t] + 1)
    BY ReplayProgress
  <2>2. CASE Started(u, j)
    BY <2>2 DEF Ordered
  <2>3. CASE u = t /\ read_handle(t) /\ j = completed[t] + 1
    BY <2>3, HandleOrdered
  <2> QED
    BY <2>1, <2>2, <2>3
<1> QED
  BY <1>1, <1>2, <1>3

LEMMA ReplayKeepsAlive ==
  ASSUME ReplayReady, Alive, NEW t \in Threads, ReplayThread(t) \/ ReplayFails(t), trace' = trace
  PROVE  Alive'
<1> SUFFICES ASSUME NEW o \in Objects
             PROVE  robj'[o] = IF ~DidTo("create", o)' THEN "uninitialized"
                               ELSE IF DidTo("destroy", o)' THEN "destroyed" ELSE "created"
  BY DEF Alive
<1>a. completed[t] \in Nat
  BY DEF ReplayReady, ReplayInv, ReplayTypeOK
<1>b. PICK j \in Nat : j = completed[t] + 1
  BY <1>a
<1>c. PICK p : p = trace[t][j]
  OBVIOUS
<1>0. o # NoObject
  BY NoObjectAssumption
<1>1. \A kind : DidTo(kind, o) => DidTo(kind, o)'
  BY ReplayProgress DEF DidTo
<1>2. \A kind : DidTo(kind, o)' => DidTo(kind, o) \/ (Replay(t) /\ p.obj = o /\ p.kind = kind)
  BY <1>0, <1>b, <1>c, ReplayProgress DEF DidTo
<1>3. CASE ~(Replay(t) /\ p.obj = o /\ p.kind \in {"create", "destroy"})
  <2>1. robj'[o] = robj[o]
    <3>1. CASE Replay(t)
      BY <1>3, <1>b, <1>c, <3>1 DEF Replay, OpenPacket, ReplayReady, ReplayInv, ReplayTypeOK
    <3>2. CASE ~Replay(t)
      BY <3>2 DEF ReplayThread, step, EnterBarrier, PassBarrier, read_handle, StopWhileWaiting, ReplayFails
    <3> QED
      BY <3>1, <3>2
  <2>2. (DidTo("create", o)' <=> DidTo("create", o)) /\ (DidTo("destroy", o)' <=> DidTo("destroy", o))
    BY <1>1, <1>2, <1>3
  <2> QED
    BY <2>1, <2>2 DEF Alive
<1>4. CASE Replay(t) /\ p.obj = o /\ p.kind \in {"create", "destroy"}
  <2>1. /\ rpc[t] = "execute" /\ packetOpen[t] /\ completed[t] \in Nat /\ completed[t] < Len(trace[t])
    BY <1>4 DEF Replay, ReplayReady, ReplayInv, ReplayPosition, ReplayTypeOK
  <2>2. j \in 1 .. Len(trace[t]) /\ Started(t, j)
    BY <1>b, <2>1, BasicTypes DEF Started, ReplayReady
  <2>3. DidTo(p.kind, o)'
    <3>1. rpc'[t] = "step" /\ UNCHANGED <<completed, packetOpen>>
      BY <1>4 DEF Replay, ReplayReady, ReplayInv, ReplayTypeOK
    <3>2. Executed(t, j)'
      BY <1>b, <2>1, <3>1 DEF Executed
    <3> QED
      BY <1>4, <1>c, <2>2, <3>2 DEF DidTo
  <2>4. CASE p.kind = "create"
    <3>1. robj'[o] = "created"
      BY <1>0, <1>b, <1>c, <1>4, <2>4 DEF Replay, OpenPacket, ReplayReady, ReplayInv, ReplayTypeOK
    <3>2. ~DidTo("destroy", o)
      <4> SUFFICES ASSUME NEW u \in Threads, NEW m \in 1 .. Len(trace[u]), Executed(u, m), trace[u][m].obj = o,
                          trace[u][m].kind = "destroy"
                   PROVE  FALSE
        BY DEF DidTo
      <4>1. Started(u, m)
        BY DEF Started, Executed
      <4>2. (t = u /\ j = m) \/ completed[t] >= j
        BY <1>0, <1>c, <1>4, <2>2, <4>1, DestroyIsLast
      <4> QED
        BY <1>b, <1>c, <2>1, <2>4, <4>2
    <3> QED
      BY <1>2, <2>3, <2>4, <3>1, <3>2
  <2>5. CASE p.kind = "destroy"
    <3>1. robj'[o] = "destroyed"
      BY <1>0, <1>b, <1>c, <1>4, <2>5 DEF Replay, OpenPacket, ReplayReady, ReplayInv, ReplayTypeOK
    <3>2. DidTo("create", o)
      <4>1. At(t, j - 1) = p /\ PacketOf(t, j - 1)
        BY <1>0, <1>c, <1>4, <2>2, StreamPacket
      <4>2. Carries(trace, p)
        BY <4>1 DEF PacketOf
      <4>3. PICK c \in Threads : \E m \in 0 .. p.seen[c] - 1 :
              trace[c][m + 1].obj = o /\ trace[c][m + 1].kind = "create"
        BY <1>4, <2>5, <4>2 DEF Carries, Born
      <4>4. PICK m \in 0 .. p.seen[c] - 1 : trace[c][m + 1].obj = o /\ trace[c][m + 1].kind = "create"
        BY <4>3
      <4>5. NeedsCover(p)
        BY <1>c, <2>2, <2>5 DEF ReplayReady, ObjectInv, NamingTypes, NeedsCover, HasLocalBarrier
      <4>6. completed[c] > m
        BY <1>c, <2>2, <4>5, StartedBehindBarrier
      <4>7. p.seen[c] \in Nat /\ p.seen[c] <= Len(trace[c]) /\ completed[c] \in Nat /\ Len(trace[c]) \in Nat
        <5>1. p.seen \in [Threads -> Nat] /\ CaptureTypeOK
          BY <1>c, <2>2, PacketAt DEF ReplayReady
        <5> QED
          BY <4>2, <5>1, BasicTypes DEF Carries, ReplayReady, ReplayInv, ReplayTypeOK
      <4>8. m + 1 \in 1 .. Len(trace[c]) /\ Executed(c, m + 1)
        BY <4>6, <4>7 DEF Executed
      <4> QED
        BY <4>4, <4>8 DEF DidTo
    <3> QED
      BY <1>1, <2>3, <2>5, <3>1, <3>2
  <2> QED
    BY <1>4, <2>4, <2>5
<1> QED
  BY <1>3, <1>4
-----------------------------------------------------------------------------
\* At the first step of the replay nothing is started.
LEMMA FreshReplay ==
  ASSUME CaptureTypeOK, ReplayInit
  PROVE  Ordered /\ Alive
<1>1. \A t \in Threads : \A j \in 1 .. Len(trace[t]) : ~Started(t, j) /\ ~Executed(t, j)
  BY BasicTypes DEF ReplayInit, Started, Executed
<1>2. Ordered
  BY <1>1 DEF Ordered
<1>3. \A o \in Objects : \A kind : ~DidTo(kind, o)
  BY <1>1 DEF DidTo
<1> QED
  BY <1>2, <1>3 DEF Alive, ReplayInit

LEMMA InitLifeInv == Init => LifeInv
<1> SUFFICES ASSUME Init PROVE LifeInv
  OBVIOUS
<1>1. OrderInv /\ phase = "capture" /\ ObjectInv
  BY InitOrderInv, InitObjectInv DEF Init
<1> QED
  BY <1>1 DEF LifeInv

LEMMA NextLifeInv ==
  ASSUME "sync" \notin Kinds
  PROVE  LifeInv /\ [Next]_vars => LifeInv'
<1> SUFFICES ASSUME LifeInv, [Next]_vars PROVE LifeInv'
  OBVIOUS
<1>1. OrderInv /\ OrderInv' /\ ObjectInv /\ CaptureInv /\ CaptureInv' /\ CaptureTypeOK /\ CaptureTypeOK'
  BY NextOrderInv DEF LifeInv, OrderInv, TypeInv, TypeOK, CaptureInv
<1>2. CASE Capture
  <2>1. PICK t \in Threads : CaptureStep(t)
    BY <1>2 DEF Capture, CaptureNext
  <2>2. WriterInv /\ WriterInv' /\ phase' = "capture"
    BY <1>1, <1>2 DEF Capture, OrderInv
  <2> QED
    BY <1>1, <2>1, <2>2, CaptureKeepsObjects DEF LifeInv
<1>3. CASE Finish
  <2>1. \A t \in Threads : pc[t] = "idle" /\ open[t] = NoPacket
    BY <1>1, <1>3 DEF Finish, FinishCapture, CaptureIdle, InCall, OrderInv, WriterInv, WriterAt, NothingOpen
  <2>2. trace' = trace /\ UNCHANGED <<open, pc, call, state, lastModified>>
    <3>1. trace' = [t \in Threads |-> trace[t]]
      BY <1>1, <1>3, <2>1, EndedOf DEF Finish, FinishCapture, CaptureInv
    <3> QED
      BY <1>1, <1>3, <2>1, <3>1 DEF CaptureInv, CaptureTypeOK, Finish, FinishCapture
  <2>3. ObjectInv'
    BY <1>1, <2>2, SameCapture
  <2>4. Ordered' /\ Alive'
    <3>1. ReplayInit
      BY <1>1, <1>3 DEF Finish, OrderInv, TypeInv, CaptureFirst
    <3>2. Ordered /\ Alive
      BY <1>1, <3>1, FreshReplay
    <3> QED
      BY <1>3, <2>2, <3>2 DEF Finish, replayVars, Ordered, Alive, Started, DidTo, Executed
  <2> QED
    BY <1>1, <2>3, <2>4 DEF LifeInv
<1>4. ASSUME NEW t \in Threads, ReplayBy(t) \/ Fail(t)
      PROVE  LifeInv'
  <2>1. /\ ReplayThread(t) \/ ReplayFails(t)
        /\ UNCHANGED <<trace, open, pc, call, state, lastModified>> /\ phase = "replay"
    BY <1>4 DEF ReplayBy, Fail, captureVars
  <2>2. ReplayReady /\ Ordered /\ Alive
    BY <1>1, <2>1 DEF ReplayReady, LifeInv, OrderInv, TypeInv, TypeOK, PacketsInv, ReplayInv
  <2>3. trace' = trace /\ ObjectInv'
    BY <1>1, <2>1, SameCapture
  <2>4. Ordered'
    BY <2>1, <2>2, <2>3, ReplayKeepsOrdered
  <2>5. Alive'
    BY <2>1, <2>2, <2>3, ReplayKeepsAlive
  <2> QED
    BY <1>1, <2>3, <2>4, <2>5 DEF LifeInv
<1>5. CASE Stop \/ UNCHANGED vars
  <2>1. UNCHANGED <<trace, open, pc, call, state, lastModified, completed, rpc, packetOpen, robj, phase>>
    BY <1>5 DEF Stop, request_stop, vars, captureVars, replayVars
  <2>2. ObjectInv'
    BY <1>1, <2>1, SameCapture
  <2>3. (Ordered => Ordered') /\ (Alive => Alive')
    BY <2>1 DEF Ordered, Alive, Started, DidTo, Executed
  <2> QED
    BY <1>1, <2>1, <2>2, <2>3 DEF LifeInv
<1> QED
  BY <1>2, <1>3, <1>4, <1>5 DEF Next, Done

\* The packet a replay thread is about to execute.
LEMMA ExecutingPacket ==
  ASSUME LifeInv, NEW t \in Executing
  PROVE  /\ ReplayReady /\ Ordered /\ Alive /\ t \in Threads /\ rpc[t] = "execute"
         /\ completed[t] \in Nat /\ completed[t] + 1 \in 1 .. Len(trace[t])
         /\ Started(t, completed[t] + 1) /\ ~Executed(t, completed[t] + 1)
<1>1. phase = "replay" /\ rpc[t] = "execute" /\ t \in Threads
  BY DEF Executing
<1>2. ReplayReady /\ Ordered /\ Alive
  BY <1>1 DEF ReplayReady, LifeInv, OrderInv, TypeInv, TypeOK, PacketsInv, ReplayInv
<1>3. completed[t] \in Nat /\ completed[t] < Len(trace[t]) /\ packetOpen[t] /\ Len(trace[t]) \in Nat
  BY <1>1, <1>2, BasicTypes DEF ReplayReady, ReplayInv, ReplayTypeOK, ReplayPosition
<1> QED
  BY <1>1, <1>2, <1>3 DEF Started, Executed

LEMMA LifeInvTouches == LifeInv => TouchOrder
<1> SUFFICES ASSUME LifeInv, NEW t \in Executing, OpenPacket(t).obj # NoObject,
                    NEW i \in Threads, NEW k \in Earlier(OpenPacket(t), i),
                    Written(i, k).obj = OpenPacket(t).obj, Makes(Written(i, k).kind)
             PROVE  Complete(i, k)
  BY DEF TouchOrder, Makes
<1>1. PICK j \in Nat : j = completed[t] + 1
  BY ExecutingPacket
<1>2. Ordered /\ t \in Threads /\ j \in 1 .. Len(trace[t]) /\ Started(t, j) /\ trace[t][j].obj # NoObject
  BY <1>1, ExecutingPacket DEF OpenPacket
<1>3. k \in 0 .. trace[t][j].seen[i] - 1 /\ trace[i][k + 1].obj = trace[t][j].obj /\ Makes(trace[i][k + 1].kind)
  BY <1>1 DEF Earlier, Written, OpenPacket
<1> QED
  BY <1>2, <1>3 DEF Ordered, Complete

LEMMA LifeInvAlive == LifeInv => UsedWhileAlive
<1> SUFFICES ASSUME LifeInv, NEW t \in Executing, OpenPacket(t).obj # NoObject
             PROVE  robj[OpenPacket(t).obj] = IF OpenPacket(t).kind = "create" THEN "uninitialized" ELSE "created"
  BY DEF UsedWhileAlive
<1>1. PICK j \in Nat : j = completed[t] + 1
  BY ExecutingPacket
<1>2. PICK p : p = trace[t][j]
  OBVIOUS
<1>3. /\ ReplayReady /\ Ordered /\ Alive /\ t \in Threads /\ j \in 1 .. Len(trace[t])
      /\ Started(t, j) /\ ~Executed(t, j) /\ OpenPacket(t) = p /\ p.obj # NoObject
  BY <1>1, <1>2, ExecutingPacket DEF OpenPacket
<1>4. /\ p.obj \in Objects /\ At(t, j - 1) = p /\ PacketOf(t, j - 1)
      /\ Makes(p.kind) => j - 1 \in Marks(t, p.obj)
  BY <1>2, <1>3, StreamPacket
<1>5. \A u \in Threads : completed[u] \in Nat /\ Len(trace[u]) \in Nat
  BY <1>3, BasicTypes DEF ReplayReady, ReplayInv, ReplayTypeOK
<1>6. CASE p.kind = "create"
  <2> SUFFICES ASSUME NEW u \in Threads, NEW m \in 1 .. Len(trace[u]), Executed(u, m),
                      trace[u][m].obj = p.obj, trace[u][m].kind = "create"
               PROVE  FALSE
    BY <1>3, <1>4, <1>6 DEF Alive, DidTo
  <2>1. Makes(p.kind) /\ Makes(trace[u][m].kind)
    BY <1>6 DEF Makes
  <2>2. At(u, m - 1) = trace[u][m] /\ m - 1 \in Marks(u, p.obj)
    BY <1>3, <2>1, StreamPacket
  <2>3. u = t /\ m - 1 = j - 1
    <3>1. MadeOnce(p.obj)
      BY <1>3, <1>4 DEF ReplayReady, ObjectInv, ObjectMarks
    <3>2. j - 1 \in Marks(t, p.obj) /\ At(t, j - 1).kind = "create" /\ At(u, m - 1).kind = "create"
      BY <1>4, <1>6, <2>1, <2>2
    <3> QED
      BY <1>3, <2>2, <3>1, <3>2 DEF MadeOnce
  <2>4. u = t /\ m = j
    BY <1>5, <2>3
  <2> QED
    BY <1>3, <2>4
<1>7. CASE p.kind # "create"
  <2>1. DidTo("create", p.obj)
    <3>1. Carries(trace, p)
      BY <1>4 DEF PacketOf
    <3>2. PICK c \in Threads : \E m \in 0 .. p.seen[c] - 1 :
            trace[c][m + 1].obj = p.obj /\ trace[c][m + 1].kind = "create"
      BY <1>7, <3>1 DEF Carries, Born
    <3>3. PICK m \in 0 .. p.seen[c] - 1 : trace[c][m + 1].obj = p.obj /\ trace[c][m + 1].kind = "create"
      BY <3>2
    <3>4. completed[c] > m
      BY <1>2, <1>3, <3>3 DEF Ordered, Makes
    <3>5. p.seen[c] \in Nat /\ p.seen[c] <= Len(trace[c])
      <4>1. p.seen \in [Threads -> Nat]
        BY <1>2, <1>3, PacketAt DEF ReplayReady
      <4> QED
        BY <3>1, <4>1 DEF Carries
    <3>6. m + 1 \in 1 .. Len(trace[c]) /\ Executed(c, m + 1)
      BY <1>5, <3>4, <3>5 DEF Executed
    <3> QED
      BY <3>3, <3>6 DEF DidTo
  <2>2. ~DidTo("destroy", p.obj)
    <3> SUFFICES ASSUME NEW u \in Threads, NEW m \in 1 .. Len(trace[u]), Executed(u, m),
                        trace[u][m].obj = p.obj, trace[u][m].kind = "destroy"
                 PROVE  FALSE
      BY DEF DidTo
    <3>1. Started(u, m)
      BY DEF Started, Executed
    <3>2. (t = u /\ j = m) \/ completed[t] >= j
      BY <1>2, <1>3, <3>1, DestroyIsLast
    <3> QED
      BY <1>1, <1>3, <1>5, <3>2
  <2> QED
    BY <1>3, <1>4, <1>7, <2>1, <2>2 DEF Alive
<1> QED
  BY <1>6, <1>7

(***************************************************************************)
(* While the application does not call vkSyncBuffer, the replay of any     *)
(* capture starts a command on an object only when every command that      *)
(* created or touched the object and had returned before it was called is  *)
(* complete (write_handle, last_modified, read_handle).                    *)
(***************************************************************************)
THEOREM TouchesInOrder ==
  ASSUME "sync" \notin Kinds
  PROVE  Spec => []TouchOrder
<1>1. Init => LifeInv
  BY InitLifeInv
<1>2. LifeInv /\ [Next]_vars => LifeInv'
  BY NextLifeInv
<1>3. LifeInv => TouchOrder
  BY LifeInvTouches
<1> QED
  BY <1>1, <1>2, <1>3, PTL DEF Spec

(***************************************************************************)
(* While the application does not call vkSyncBuffer, the replay of any     *)
(* capture creates an object once, hands it to the driver only after that, *)
(* and never after it was destroyed.                                       *)
(***************************************************************************)
THEOREM ObjectsUsedAlive ==
  ASSUME "sync" \notin Kinds
  PROVE  Spec => []UsedWhileAlive
<1>1. Init => LifeInv
  BY InitLifeInv
<1>2. LifeInv /\ [Next]_vars => LifeInv'
  BY NextLifeInv
<1>3. LifeInv => UsedWhileAlive
  BY LifeInvAlive
<1> QED
  BY <1>1, <1>2, <1>3, PTL DEF Spec
=============================================================================
