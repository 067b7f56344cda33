-------------------------- MODULE SuballocatorProofs --------------------------
(***************************************************************************)
(* Proofs about Suballocator: wherever threads create, free and update     *)
(* objects, objects are apart in memory that suits them, the books of the  *)
(* heaps describe them, and an update finds zeros under it.                *)
(***************************************************************************)
EXTENDS Suballocator, FiniteSetTheorems, SequenceTheorems, WellFoundedInduction, TLAPS

(***************************************************************************)
(* Induction, by the least counterexample.                                 *)
(***************************************************************************)
LEMMA LeastNatural ==
  ASSUME NEW T \in SUBSET Nat, T # {}
  PROVE  \E x \in T : \A y \in T : x <= y
<1>1. PICK R : R = OpToRel(<, Nat)
  OBVIOUS
<1>2. IsWellFoundedOn(R, Nat)
  BY <1>1, NatLessThanWellFounded
<1>3. \A x, y \in Nat : x < y => <<x, y>> \in R
  BY <1>1 DEF OpToRel
<1>4. PICK x \in T : \A y \in T : ~(<<y, x>> \in R)
  BY <1>2, WFMin
<1>5. \A y \in T : ~(y < x)
  BY <1>3, <1>4
<1>6. x \in Nat /\ \A y \in T : y \in Nat
  OBVIOUS
<1>7. \A y \in T : x <= y
  BY <1>5, <1>6
<1> QED
  BY <1>7

LEMMA UpTo ==
  ASSUME NEW N \in Nat, NEW S, 0 \in S, \A n \in 0 .. (N - 1) : n \in S => n + 1 \in S
  PROVE  \A n \in 0 .. N : n \in S
<1> SUFFICES ASSUME NEW m \in 0 .. N, m \notin S PROVE FALSE
  OBVIOUS
<1>1. PICK T : T = {n \in 0 .. N : n \notin S}
  OBVIOUS
<1>10. T \in SUBSET Nat
  BY <1>1
<1>2. m \in T
  BY <1>1
<1>3. PICK x \in T : \A y \in T : x <= y
  BY <1>2, <1>10, LeastNatural
<1>4. x \in 0 .. N /\ x \notin S /\ x # 0
  BY <1>1, <1>3
<1>5. x - 1 \in 0 .. (N - 1) /\ x - 1 \in 0 .. N /\ x - 1 + 1 = x /\ x - 1 < x
  BY <1>4
<1>6. x - 1 \notin S
  BY <1>4, <1>5
<1>7. x - 1 \in T
  BY <1>1, <1>5, <1>6
<1> QED
  BY <1>3, <1>5, <1>7

\* A finite set has an element of the largest value, and one of the smallest.
LEMMA Largest ==
  ASSUME NEW M, IsFiniteSet(M), M # {}, NEW v \in [M -> Int]
  PROVE  \E x \in M : \A y \in M : v[x] >= v[y]
<1> DEFINE P(n) == \A S \in SUBSET M : Cardinality(S) = n /\ S # {} => \E x \in S : \A y \in S : v[x] >= v[y]
           N == Cardinality(M)
           Good == {n \in 0 .. N : P(n)}
<1>1. N \in Nat
  BY FS_CardinalityType
<1>2. \A S \in SUBSET M : IsFiniteSet(S) /\ Cardinality(S) \in Nat
  BY FS_Subset, FS_CardinalityType
<1>3. 0 \in Good
  <2>1. P(0)
    BY <1>2, FS_EmptySet
  <2> QED
    BY <1>1, <2>1
<1>4. ASSUME NEW n \in 0 .. (N - 1), n \in Good PROVE n + 1 \in Good
  <2>1. P(n) /\ n + 1 \in 0 .. N /\ n \in Nat
    BY <1>1, <1>4
  <2>2. ASSUME NEW S \in SUBSET M, Cardinality(S) = n + 1, S # {} PROVE \E x \in S : \A y \in S : v[x] >= v[y]
    <3>1. PICK a : a \in S
      BY <2>2
    <3>2. S \ {a} \in SUBSET M /\ Cardinality(S \ {a}) = n
      BY <1>2, <2>1, <2>2, <3>1, FS_RemoveElement
    <3>3. CASE S \ {a} = {}
      <4>1. \A y \in S : y = a
        BY <3>3
      <4>2. v[a] \in Int /\ v[a] >= v[a]
        BY <3>1
      <4> QED
        BY <3>1, <4>1, <4>2
    <3>4. CASE S \ {a} # {}
      <4>1. PICK b \in S \ {a} : \A y \in S \ {a} : v[b] >= v[y]
        BY <2>1, <3>2, <3>4
      <4>2. v[a] \in Int /\ v[b] \in Int /\ \A y \in S : v[y] \in Int /\ (y = a \/ y \in S \ {a})
        BY <3>1, <4>1
      <4>3. CASE v[a] >= v[b]
        BY <3>1, <4>1, <4>2, <4>3
      <4>4. CASE ~(v[a] >= v[b])
        BY <3>1, <4>1, <4>2, <4>4
      <4> QED
        BY <4>3, <4>4
    <3> QED
      BY <3>3, <3>4
  <2> QED
    BY <2>1, <2>2
<1> HIDE DEF Good, P, N
<1>5. N \in Good
  BY <1>1, <1>3, <1>4, UpTo
<1> QED
  BY <1>5 DEF Good, P, N

LEMMA Smallest ==
  ASSUME NEW M, IsFiniteSet(M), M # {}, NEW v \in [M -> Int]
  PROVE  \E x \in M : \A y \in M : v[x] <= v[y]
<1>1. PICK w : w = [x \in M |-> 0 - v[x]]
  OBVIOUS
<1>2. w \in [M -> Int]
  BY <1>1
<1>3. PICK x \in M : \A y \in M : w[x] >= w[y]
  BY <1>2, Largest
<1>4. \A y \in M : w[y] = 0 - v[y] /\ v[y] \in Int
  BY <1>1
<1>5. \A y \in M : v[x] <= v[y]
  BY <1>3, <1>4
<1> QED
  BY <1>5

(***************************************************************************)
(* The inductive invariant.                                                *)
(***************************************************************************)
SubRecords == [obj : Objects, offset : Nat, size : Nat \ {0}]
Fills == UNION {[0 .. (n - 1) -> Int] : n \in Nat}
HeapRecords == [mem : BOOLEAN, total : Nat, free : Nat, type : Nat, flags : SUBSET Flags,
                tiling : {"linear", "optimal"}, addr : BOOLEAN, kind : {"shared", "dedicated", "alias"},
                subs : Seq(SubRecords), deletes : SUBSET Nat, bytes : Fills]
Refs == (Threads \X Nat) \cup {NoHome}
LookupRecords == [home : Refs, offset : Nat, size : Nat, initialized : BOOLEAN, alias : BOOLEAN]

Typed ==
  /\ state \in {"none", "planned", "live", "aborted", "destroyed"}
  /\ plan \in Plans /\ run \in BOOLEAN /\ mixed \in BOOLEAN
  /\ dedicated \subseteq Objects /\ inspected \subseteq Objects
  /\ leader \in [Objects -> Objects \cup {0}]
  /\ heaps \in [Threads -> Seq(HeapRecords)]
  /\ lookup \in [Objects -> LookupRecords]
  /\ home \in [Objects -> Refs]
  /\ stage \in [Objects -> {"new", "bound", "freed"}]
  /\ pc \in [Threads -> [obj : Objects \cup {0}, at : Nat]]

\* An alias group is led by the object with the lowest captured offset.
Led == \A o \in Objects : leader[o] # 0 => /\ plan[leader[o]].offset <= plan[o].offset
                                           /\ plan[o].kind # "session"

\* Nothing exists before the device does; what create has found out stays true.
Fresh == /\ \A t \in Threads : heaps[t] = <<>> /\ pc[t] = Idle
         /\ \A o \in Objects : lookup[o].home = NoHome /\ home[o] = NoHome /\ stage[o] = "new"
Lifecycle ==
  /\ state \in {"none", "planned"} => Fresh
  /\ state = "live" => CanPrepare /\ dedicated = Dedicated
  /\ state # "destroyed" => \A o \in Objects : stage[o] = "bound" <=> lookup[o].home # NoHome

\* A thread that looks for room does so for an object that no one else has placed.
Walks(t) ==
  LET o == pc[t].obj
  IN o # 0 => /\ pc[t].at > 0 /\ stage[o] = "new" /\ leader[o] = 0 /\ MemoryType(o) # {}
              /\ ~WantsDedicated(o)
Walking == /\ \A t \in Threads : Walks(t) /\ (pc[t].obj = 0 => pc[t] = Idle)
           /\ \A t, u \in Threads : pc[t].obj = pc[u].obj /\ pc[t].obj # 0 => t = u

\* The books of one heap.
Sorted(subs) == \A k, l \in 1 .. Len(subs) : k < l => End(subs[k]) <= subs[l].offset
HeapSound(h) == /\ Sorted(h.subs)
                /\ \A k \in 1 .. Len(h.subs) : End(h.subs[k]) <= h.total
                /\ h.free + Used(h.subs) = h.total
                /\ DOMAIN h.bytes = 0 .. (h.total - 1)
HeapsOK == \A t \in Threads : \A i \in 1 .. Len(heaps[t]) : HeapSound(heaps[t][i])

\* A suballocation that is not about to go is where its object is looked up.
EnteredIn(lk, h, r) == h.kind # "alias" => \A k \in 1 .. Len(h.subs) :
                         LET s == h.subs[k]
                         IN \/ s.offset \in h.deletes
                            \/ lk[s.obj].home = r /\ lk[s.obj].offset = s.offset /\ lk[s.obj].size = s.size
Entered == \A t \in Threads : \A i \in 1 .. Len(heaps[t]) : EnteredIn(lookup, heaps[t][i], <<t, i>>)

\* A memory type fits the flags, at least the ones that are not optional.
Fits(rn, type, flags) == rn => flags \ {"HOST_CACHED", "LAZILY_ALLOCATED"} \subseteq MemoryTypes[type]
Visible(rn, type) == ~rn \/ "HOST_VISIBLE" \in MemoryTypes[type]

\* The memory of an alias group holds the group and nothing else.
GroupHeap(l, size, reqs, members, rn, h) ==
  /\ h.kind = "alias" /\ h.mem /\ h.deletes = {} /\ h.total = size /\ h.subs = <<Sub(l, 0, size)>>
  /\ h.type \in reqs.types /\ Fits(rn, h.type, PruneFlags(reqs.flags)) /\ h.addr = reqs.addr
  /\ Visible(rn, h.type) => \A b \in 0 .. (size - 1) : h.bytes[b] \in {Zero} \cup members
GroupPossible(l) == /\ \A o \in Members(l) : RelativeOffset(o) % Needs(o).align = 0
                    /\ GroupReqs(l).types # {} /\ ~GroupReqs(l).requires
InHeaps(hs, r) == \E t \in Threads : \E i \in 1 .. Len(hs[t]) : r = <<t, i>>
HeapIn(hs, r) == hs[r[1]][r[2]]
GroupsHome ==
  \A l \in Objects : home[l] # NoHome =>
    /\ InHeaps(heaps, home[l]) /\ GroupPossible(l) /\ Members(l) # {}
    /\ GroupHeap(l, GroupSize(l), GroupReqs(l), Members(l), run, HeapIn(heaps, home[l]))

\* An object that has a place has it in a heap that suits it, and what it has been
\* updated with is there.
Stands(o, p, need, rn, mx, seen, lk, h) ==
  /\ h.kind # "alias" /\ h.mem /\ lk.offset \notin h.deletes
  /\ \E k \in 1 .. Len(h.subs) : h.subs[k] = Sub(o, lk.offset, lk.size)
  /\ lk.offset % need.align = 0
  /\ h.type \in need.types /\ Fits(rn, h.type, PruneFlags(p.flags))
  /\ p.addr => h.addr
  /\ p.want = "requires" /\ rn => h.kind = "dedicated"
  /\ mx \/ h.tiling = p.tiling
  /\ lk.initialized /\ ~seen => \A b \in lk.offset .. (lk.offset + lk.size - 1) : h.bytes[b] = o
StandsAlone(o) == /\ leader[o] = 0
                  /\ Stands(o, plan[o], Needs(o), run, mixed, o \in inspected, lookup[o], HeapIn(heaps, lookup[o].home))
Aliases(o) == /\ leader[o] # 0 /\ home[leader[o]] = lookup[o].home
              /\ lookup[o].offset = RelativeOffset(o) /\ lookup[o].initialized
Located(o) == /\ InHeaps(heaps, lookup[o].home) /\ lookup[o].size = Needs(o).size
              /\ IF lookup[o].alias THEN Aliases(o) ELSE StandsAlone(o)
Placed == \A o \in Objects : lookup[o].home # NoHome => Located(o)

HeapInv == Typed /\ Led /\ Lifecycle /\ Walking /\ HeapsOK /\ Entered /\ GroupsHome /\ Placed

(***************************************************************************)
(* Lists of suballocations.                                                *)
(***************************************************************************)
IsUsed(f, subs) == f = [n \in 0 .. Len(subs) |-> IF n = 0 THEN 0 ELSE f[n-1] + subs[n].size]

LEMMA UsedExists ==
  ASSUME NEW subs, Len(subs) \in Nat
  PROVE  \E f : IsUsed(f, subs)
<1> DEFINE N == Len(subs)
           P(m) == \E f : f = [n \in 0 .. m |-> IF n = 0 THEN 0 ELSE f[n-1] + subs[n].size]
           Good == {m \in 0 .. N : P(m)}
<1>1. 0 \in Good
  <2>1. PICK f : f = [n \in 0 .. 0 |-> 0]
    OBVIOUS
  <2>2. f = [n \in 0 .. 0 |-> IF n = 0 THEN 0 ELSE f[n-1] + subs[n].size]
    BY <2>1
  <2> QED
    BY <2>2
<1>2. ASSUME NEW m \in 0 .. (N - 1), m \in Good PROVE m + 1 \in Good
  <2>1. PICK f : f = [n \in 0 .. m |-> IF n = 0 THEN 0 ELSE f[n-1] + subs[n].size]
    BY <1>2
  <2>2. PICK g : g = [n \in 0 .. (m + 1) |-> IF n = m + 1 THEN f[m] + subs[m + 1].size ELSE f[n]]
    OBVIOUS
  <2>3. \A n \in 0 .. m : g[n] = f[n] /\ f[n] = IF n = 0 THEN 0 ELSE f[n-1] + subs[n].size
    BY <2>1, <2>2
  <2>4. ASSUME NEW n \in 0 .. (m + 1) PROVE g[n] = IF n = 0 THEN 0 ELSE g[n-1] + subs[n].size
    <3>1. CASE n = m + 1
      <4>1. n # 0 /\ n - 1 = m /\ m \in 0 .. m
        BY <3>1
      <4>2. g[n] = f[m] + subs[n].size
        BY <2>2, <3>1
      <4> QED
        BY <2>3, <4>1, <4>2
    <3>2. CASE n # m + 1
      <4>1. n \in 0 .. m /\ (n # 0 => n - 1 \in 0 .. m)
        BY <3>2
      <4> QED
        BY <2>3, <4>1
    <3> QED
      BY <3>1, <3>2
  <2>5. g = [n \in 0 .. (m + 1) |-> IF n = 0 THEN 0 ELSE g[n-1] + subs[n].size]
    BY <2>2, <2>4
  <2> QED
    BY <1>2, <2>5
<1> HIDE DEF Good, P
<1>3. \A m \in 0 .. N : m \in Good
  BY <1>1, <1>2, UpTo
<1>4. N \in Good
  BY <1>3
<1> QED
  BY <1>4 DEF Good, P, IsUsed

\* The running sums over a list.
Sums(f, subs) == f[0] = 0 /\ \A n \in 1 .. Len(subs) : f[n] = f[n-1] + subs[n].size

LEMMA UsedFunction ==
  ASSUME NEW subs, Len(subs) \in Nat
  PROVE  \E f : Sums(f, subs) /\ Used(subs) = f[Len(subs)]
<1>1. PICK f : f = CHOOSE g : IsUsed(g, subs)
  OBVIOUS
<1>2. IsUsed(f, subs)
  BY <1>1, UsedExists
<1>3. Used(subs) = f[Len(subs)]
  BY <1>1 DEF Used, IsUsed
<1>4. f[0] = 0 /\ \A n \in 1 .. Len(subs) : f[n] = f[n-1] + subs[n].size
  <2>1. \A n \in 0 .. Len(subs) : f[n] = IF n = 0 THEN 0 ELSE f[n-1] + subs[n].size
    BY <1>2 DEF IsUsed
  <2> QED
    BY <2>1
<1> QED
  BY <1>3, <1>4 DEF Sums

LEMMA UsedNat ==
  ASSUME NEW subs \in Seq(SubRecords), NEW f, Sums(f, subs)
  PROVE  \A n \in 0 .. Len(subs) : f[n] \in Nat
<1> DEFINE N == Len(subs)
           Good == {n \in 0 .. N : f[n] \in Nat}
<1>1. N \in Nat /\ \A n \in 1 .. N : subs[n].size \in Nat
  <2>1. \A n \in 1 .. N : subs[n] \in SubRecords
    OBVIOUS
  <2> QED
    BY <2>1 DEF SubRecords
<1>2. 0 \in Good
  BY <1>1 DEF Sums
<1>3. ASSUME NEW n \in 0 .. (N - 1), n \in Good PROVE n + 1 \in Good
  <2>1. n + 1 \in 1 .. N /\ n + 1 - 1 = n /\ f[n] \in Nat /\ n + 1 \in 0 .. N
    BY <1>1, <1>3
  <2>2. f[n + 1] = f[n] + subs[n + 1].size
    BY <2>1 DEF Sums
  <2> QED
    BY <1>1, <2>1, <2>2
<1> HIDE DEF Good
<1>4. \A n \in 0 .. N : n \in Good
  BY <1>1, <1>2, <1>3, UpTo
<1> QED
  BY <1>4 DEF Good

\* Two lists that agree up to n use the same up to n.
Agree(K, f, g, s, t) ==
  f[0] = g[0] /\ \A n \in 1 .. K : f[n] = f[n-1] + s[n].size /\ g[n] = g[n-1] + t[n].size /\ s[n] = t[n]

LEMMA UsedPrefix ==
  ASSUME NEW K \in Nat, NEW f, NEW g, NEW s, NEW t, Agree(K, f, g, s, t)
  PROVE  \A n \in 0 .. K : f[n] = g[n]
<1> DEFINE Good == {n \in 0 .. K : f[n] = g[n]}
<1>1. 0 \in Good
  BY DEF Agree
<1>2. ASSUME NEW n \in 0 .. (K - 1), n \in Good PROVE n + 1 \in Good
  <2>1. n + 1 \in 1 .. K /\ n + 1 - 1 = n /\ f[n] = g[n] /\ n + 1 \in 0 .. K
    BY <1>2
  <2> QED
    BY <2>1 DEF Agree
<1> HIDE DEF Good
<1>3. \A n \in 0 .. K : n \in Good
  BY <1>1, <1>2, UpTo
<1> QED
  BY <1>3 DEF Good

LEMMA UsedEmpty == Used(<<>>) = 0
<1>1. PICK e : e = <<>> /\ Len(e) = 0
  OBVIOUS
<1>2. PICK f : Sums(f, e) /\ Used(e) = f[Len(e)]
  BY <1>1, UsedFunction
<1> QED
  BY <1>1, <1>2 DEF Sums

LEMMA UsedType ==
  ASSUME NEW subs \in Seq(SubRecords)
  PROVE  Used(subs) \in Nat
<1>1. Len(subs) \in Nat /\ Len(subs) \in 0 .. Len(subs)
  OBVIOUS
<1>2. PICK f : Sums(f, subs) /\ Used(subs) = f[Len(subs)]
  BY <1>1, UsedFunction
<1> QED
  BY <1>1, <1>2, UsedNat

LEMMA UsedAppend ==
  ASSUME NEW subs \in Seq(SubRecords), NEW s \in SubRecords
  PROVE  Used(Append(subs, s)) = Used(subs) + s.size
<1>1. PICK t : t = Append(subs, s)
  OBVIOUS
<1>2. PICK N \in Nat : N = Len(subs)
  OBVIOUS
<1>3. Len(t) = N + 1 /\ t[N + 1] = s /\ \A n \in 1 .. N : t[n] = subs[n]
  BY <1>1, <1>2
<1>4. PICK f : Sums(f, subs) /\ Used(subs) = f[N]
  BY <1>2, UsedFunction
<1>5. PICK g : Sums(g, t) /\ Used(t) = g[N + 1]
  <2>1. Len(t) \in Nat
    BY <1>3
  <2> QED
    BY <1>3, <2>1, UsedFunction
<1>6. Agree(N, f, g, subs, t)
  BY <1>2, <1>3, <1>4, <1>5 DEF Sums, Agree
<1>7. f[N] = g[N]
  BY <1>6, UsedPrefix
<1>8. g[N + 1] = g[N] + s.size
  <2>1. N + 1 \in 1 .. Len(t) /\ N + 1 - 1 = N
    BY <1>3
  <2> QED
    BY <1>3, <1>5, <2>1 DEF Sums
<1> QED
  BY <1>1, <1>4, <1>5, <1>7, <1>8

\* An insertion puts one suballocation after the k-th.
Inserted(subs, k, s) == SubSeq(subs, 1, k) \o <<s>> \o SubSeq(subs, k + 1, Len(subs))

IsInserted(t, subs, k, s) ==
  /\ t \in Seq(SubRecords) /\ Len(t) = Len(subs) + 1 /\ t[k + 1] = s
  /\ \A n \in 1 .. k : t[n] = subs[n]
  /\ \A n \in (k + 1) .. Len(subs) : t[n + 1] = subs[n]

LEMMA AppendedFacts ==
  ASSUME NEW S, NEW c \in Seq(S), NEW b \in Seq(S), NEW m \in Nat, NEW l \in Nat, Len(c) = m, Len(b) = l,
         NEW t, t = c \o b
  PROVE  /\ t \in Seq(S) /\ Len(t) = m + l
         /\ \A n \in 1 .. m : t[n] = c[n]
         /\ \A n \in 1 .. l : t[m + n] = b[n]
<1>1. /\ t \in Seq(S) /\ Len(t) = m + l
      /\ \A n \in 1 .. (m + l) : t[n] = IF n <= m THEN c[n] ELSE b[n - m]
  BY ConcatProperties, Zenon
<1>2. ASSUME NEW n \in 1 .. m PROVE t[n] = c[n]
  <2>1. n \in 1 .. (m + l) /\ n <= m
    OBVIOUS
  <2> QED
    BY <1>1, <2>1
<1>3. ASSUME NEW n \in 1 .. l PROVE t[m + n] = b[n]
  <2>1. m + n \in 1 .. (m + l) /\ ~(m + n <= m) /\ (m + n) - m = n
    OBVIOUS
  <2> QED
    BY <1>1, <2>1
<1> QED
  BY <1>1, <1>2, <1>3

IsJoined(t, c, b) ==
  /\ t \in Seq(SubRecords) /\ Len(t) = Len(c) + Len(b)
  /\ \A n \in 1 .. Len(c) : t[n] = c[n]
  /\ \A n \in 1 .. Len(b) : t[Len(c) + n] = b[n]

LEMMA AppendedRecords ==
  ASSUME NEW c \in Seq(SubRecords), NEW b \in Seq(SubRecords), NEW t, t = c \o b
  PROVE  IsJoined(t, c, b)
<1>1. PICK S : S = SubRecords
  OBVIOUS
<1>2. c \in Seq(S) /\ b \in Seq(S)
  BY <1>1
<1>3. PICK m \in Nat : m = Len(c)
  BY <1>2
<1>4. PICK l \in Nat : l = Len(b)
  BY <1>2
<1>5. /\ t \in Seq(S) /\ Len(t) = m + l
      /\ \A n \in 1 .. m : t[n] = c[n]
      /\ \A n \in 1 .. l : t[m + n] = b[n]
  BY <1>2, <1>3, <1>4, AppendedFacts
<1> QED
  BY <1>1, <1>3, <1>4, <1>5 DEF IsJoined

LEMMA InsertedFacts ==
  ASSUME NEW subs \in Seq(SubRecords), NEW k \in 0 .. Len(subs), NEW s \in SubRecords
  PROVE  IsInserted(Inserted(subs, k, s), subs, k, s)
<1>0. PICK t : t = Inserted(subs, k, s)
  OBVIOUS
<1>1. PICK N \in Nat : N = Len(subs)
  OBVIOUS
<1>2. PICK a : a = SubSeq(subs, 1, k)
  OBVIOUS
<1>3. PICK b : b = SubSeq(subs, k + 1, N)
  OBVIOUS
<1>4. a \in Seq(SubRecords) /\ Len(a) = k /\ \A n \in 1 .. k : a[n] = subs[n]
  BY <1>1, <1>2
<1>5. b \in Seq(SubRecords) /\ Len(b) = N - k /\ \A n \in 1 .. (N - k) : b[n] = subs[k + n]
  BY <1>1, <1>3
<1>6. PICK c : c = a \o <<s>>
  OBVIOUS
<1>7. c \in Seq(SubRecords) /\ Len(c) = k + 1 /\ c[k + 1] = s /\ \A n \in 1 .. k : c[n] = a[n]
  <2>1. k \in Nat /\ <<s>> \in Seq(SubRecords) /\ Len(<<s>>) = 1 /\ <<s>>[1] = s /\ 1 \in 1 .. 1
    OBVIOUS
  <2>2. /\ c \in Seq(SubRecords) /\ Len(c) = k + 1
        /\ \A n \in 1 .. k : c[n] = a[n]
        /\ \A n \in 1 .. 1 : c[k + n] = <<s>>[n]
    <3>1. IsJoined(c, a, <<s>>)
      BY <1>4, <1>6, <2>1, AppendedRecords
    <3> QED
      BY <1>4, <2>1, <3>1, Zenon DEF IsJoined
  <2> QED
    BY <2>1, <2>2
<1>8. t = c \o b
  BY <1>0, <1>1, <1>2, <1>3, <1>6 DEF Inserted
<1>9. /\ t \in Seq(SubRecords) /\ Len(t) = N + 1
      /\ \A n \in 1 .. (k + 1) : t[n] = c[n]
      /\ \A n \in 1 .. (N - k) : t[k + 1 + n] = b[n]
  <2>1. N - k \in Nat /\ k + 1 \in Nat /\ k + 1 + (N - k) = N + 1
    BY <1>1
  <2>2. PICK m \in Nat : m = k + 1
    BY <2>1
  <2>3. PICK l \in Nat : l = N - k
    BY <2>1
  <2>4. c \in Seq(SubRecords) /\ b \in Seq(SubRecords) /\ Len(c) = m /\ Len(b) = l /\ m + l = N + 1
    BY <1>5, <1>7, <2>1, <2>2, <2>3
  <2>5. /\ t \in Seq(SubRecords) /\ Len(t) = m + l
        /\ \A n \in 1 .. m : t[n] = c[n]
        /\ \A n \in 1 .. l : t[m + n] = b[n]
    <3>1. IsJoined(t, c, b)
      BY <1>8, <2>4, AppendedRecords
    <3> QED
      BY <2>4, <3>1, Zenon DEF IsJoined
  <2> QED
    BY <2>2, <2>3, <2>4, <2>5, Zenon
<1>10. ASSUME NEW n \in (k + 1) .. N PROVE t[n + 1] = subs[n]
  <2>1. PICK d \in 1 .. (N - k) : d = n - k
    BY <1>1, <1>10
  <2>2. k + 1 + d = n + 1 /\ k + d = n
    BY <1>1, <1>10, <2>1
  <2>3. t[k + 1 + d] = b[d] /\ b[d] = subs[k + d]
    BY <1>5, <1>9
  <2> QED
    BY <2>2, <2>3
<1>11. k + 1 \in 1 .. (k + 1) /\ \A n \in 1 .. k : n \in 1 .. (k + 1)
  BY <1>1
<1>12. IsInserted(t, subs, k, s)
  BY <1>1, <1>4, <1>7, <1>9, <1>10, <1>11 DEF IsInserted
<1> QED
  BY <1>0, <1>12

LEMMA UsedInserted ==
  ASSUME NEW subs \in Seq(SubRecords), NEW k \in 0 .. Len(subs), NEW s \in SubRecords
  PROVE  Used(Inserted(subs, k, s)) = Used(subs) + s.size
<1>1. PICK t : t = Inserted(subs, k, s)
  OBVIOUS
<1>2. PICK N \in Nat : N = Len(subs)
  OBVIOUS
<1>3. /\ k \in 0 .. N /\ Len(t) = N + 1 /\ t[k + 1] = s
      /\ \A n \in 1 .. k : t[n] = subs[n]
      /\ \A n \in (k + 1) .. N : t[n + 1] = subs[n]
  <2>1. IsInserted(t, subs, k, s)
    BY <1>1, InsertedFacts
  <2> QED
    BY <1>2, <2>1 DEF IsInserted
<1>4. PICK f : Sums(f, subs) /\ Used(subs) = f[N]
  BY <1>2, UsedFunction
<1>5. PICK g : Sums(g, t) /\ Used(t) = g[N + 1]
  <2>1. Len(t) \in Nat
    BY <1>3
  <2> QED
    BY <1>3, <2>1, UsedFunction
<1>6. Agree(k, f, g, subs, t)
  BY <1>2, <1>3, <1>4, <1>5 DEF Sums, Agree
<1>7. f[k] = g[k]
  BY <1>3, <1>6, UsedPrefix
<1>8. s.size \in Nat /\ \A n \in 0 .. N : f[n] \in Nat
  <2>1. \A n \in 0 .. Len(subs) : f[n] \in Nat
    BY <1>4, UsedNat
  <2> QED
    BY <1>2, <2>1 DEF SubRecords
<1>9. \A n \in 1 .. N : subs[n].size \in Nat
  <2>1. \A n \in 1 .. N : subs[n] \in SubRecords
    BY <1>2
  <2> QED
    BY <2>1 DEF SubRecords
<1>20. PICK K \in Nat : K = N - k
  BY <1>3
<1> DEFINE Good == {m \in 0 .. K : g[k + m + 1] = f[k + m] + s.size}
<1>10. 0 \in Good
  <2>1. k + 1 \in 1 .. (N + 1) /\ k + 1 - 1 = k /\ k + 0 + 1 = k + 1 /\ k + 0 = k
    BY <1>3
  <2>2. g[k + 1] = g[k] + s.size
    BY <1>3, <1>5, <2>1 DEF Sums
  <2> QED
    BY <1>3, <1>7, <2>1, <2>2
<1>11. ASSUME NEW m \in 0 .. (K - 1), m \in Good PROVE m + 1 \in Good
  <2>1. PICK n \in (k + 1) .. N : n = k + m + 1
    BY <1>3, <1>11, <1>20
  <2>2. n \in 1 .. N /\ n + 1 \in 1 .. (N + 1) /\ n + 1 - 1 = n /\ n - 1 = k + m /\ n - 1 \in 0 .. N
    BY <1>3, <2>1
  <2>3. g[n + 1] = g[n] + subs[n].size
    BY <1>3, <1>5, <2>1, <2>2 DEF Sums
  <2>4. g[n] = f[n - 1] + s.size
    BY <1>11, <2>1, <2>2
  <2>5. f[n] = f[n - 1] + subs[n].size
    BY <1>2, <1>4, <2>2 DEF Sums
  <2>6. g[n + 1] = f[n] + s.size
    BY <1>8, <1>9, <2>2, <2>3, <2>4, <2>5
  <2>7. k + (m + 1) = n /\ k + (m + 1) + 1 = n + 1 /\ m + 1 \in 0 .. K
    BY <1>3, <1>11, <1>20, <2>1
  <2> QED
    BY <2>6, <2>7
<1> HIDE DEF Good
<1>12. \A m \in 0 .. K : m \in Good
  BY <1>10, <1>11, UpTo
<1>13. K \in Good /\ k + K = N
  BY <1>3, <1>12, <1>20
<1>14. g[N + 1] = f[N] + s.size
  BY <1>13 DEF Good
<1> QED
  BY <1>1, <1>4, <1>5, <1>14

\* What the walk over a heap leaves.
IsWalk(f, h) ==
  f = [n \in 0 .. Len(h.subs) |->
         IF n = 0 THEN [subs |-> <<>>, free |-> h.free]
         ELSE IF h.subs[n].offset \in h.deletes
              THEN [f[n-1] EXCEPT !.free = @ + h.subs[n].size]
              ELSE [f[n-1] EXCEPT !.subs = Append(@, h.subs[n])]]

LEMMA WalkExists ==
  ASSUME NEW h, Len(h.subs) \in Nat
  PROVE  \E f : IsWalk(f, h)
<1> DEFINE N == Len(h.subs)
           Step(x, n) == IF h.subs[n].offset \in h.deletes
                         THEN [x EXCEPT !.free = @ + h.subs[n].size]
                         ELSE [x EXCEPT !.subs = Append(@, h.subs[n])]
           start == [subs |-> <<>>, free |-> h.free]
           P(m) == \E f : f = [n \in 0 .. m |-> IF n = 0 THEN start ELSE Step(f[n-1], n)]
           Good == {m \in 0 .. N : P(m)}
<1> HIDE DEF start, Step
<1>1. 0 \in Good
  <2>1. PICK f : f = [n \in 0 .. 0 |-> start]
    OBVIOUS
  <2>2. f = [n \in 0 .. 0 |-> IF n = 0 THEN start ELSE Step(f[n-1], n)]
    BY <2>1
  <2> QED
    BY <2>2
<1>2. ASSUME NEW m \in 0 .. (N - 1), m \in Good PROVE m + 1 \in Good
  <2>1. PICK f : f = [n \in 0 .. m |-> IF n = 0 THEN start ELSE Step(f[n-1], n)]
    BY <1>2
  <2>2. PICK g : g = [n \in 0 .. (m + 1) |-> IF n = m + 1 THEN Step(f[m], m + 1) ELSE f[n]]
    OBVIOUS
  <2>3. \A n \in 0 .. m : g[n] = f[n] /\ f[n] = IF n = 0 THEN start ELSE Step(f[n-1], n)
    BY <2>1, <2>2
  <2>4. ASSUME NEW n \in 0 .. (m + 1) PROVE g[n] = IF n = 0 THEN start ELSE Step(g[n-1], n)
    <3>1. CASE n = m + 1
      <4>1. n # 0 /\ n - 1 = m /\ m \in 0 .. m
        BY <3>1
      <4>2. g[n] = Step(f[m], n)
        BY <2>2, <3>1
      <4> QED
        BY <2>3, <4>1, <4>2
    <3>2. CASE n # m + 1
      <4>1. n \in 0 .. m /\ (n # 0 => n - 1 \in 0 .. m)
        BY <3>2
      <4> QED
        BY <2>3, <4>1
    <3> QED
      BY <3>1, <3>2
  <2>5. g = [n \in 0 .. (m + 1) |-> IF n = 0 THEN start ELSE Step(g[n-1], n)]
    BY <2>2, <2>4
  <2> QED
    BY <1>2, <2>5
<1> HIDE DEF Good, P
<1>3. \A m \in 0 .. N : m \in Good
  BY <1>1, <1>2, UpTo
<1>4. N \in Good
  BY <1>3
<1> QED
  BY <1>4 DEF Good, P, IsWalk, start, Step

LEMMA Moved ==
  ASSUME NEW a \in Nat, NEW b \in Nat, NEW c \in Nat, NEW d \in Nat, NEW e \in Nat, a + b = c + d
  PROVE  (a + e) + b = c + (d + e) /\ a + (b + e) = c + (d + e)
OBVIOUS

\* The list that stays: in order, apart, with everything that no delete is queued for.
LEMMA WalkedFacts ==
  ASSUME NEW h, h.subs \in Seq(SubRecords), h.free \in Nat, Sorted(h.subs)
  PROVE  LET w == Walked(h)
         IN /\ w = [subs |-> w.subs, free |-> w.free] /\ w.subs \in Seq(SubRecords) /\ w.free \in Nat
            /\ Sorted(w.subs)
            /\ w.free + Used(w.subs) = h.free + Used(h.subs)
            /\ \A j \in 1 .. Len(w.subs) : \E k \in 1 .. Len(h.subs) : w.subs[j] = h.subs[k] /\ h.subs[k].offset \notin h.deletes
            /\ \A k \in 1 .. Len(h.subs) : h.subs[k].offset \notin h.deletes => \E j \in 1 .. Len(w.subs) : w.subs[j] = h.subs[k]
<1> DEFINE N == Len(h.subs)
<1>1. N \in Nat /\ \A n \in 1 .. N : h.subs[n] \in SubRecords
  OBVIOUS
<1>2. \A n \in 1 .. N : h.subs[n].size \in Nat /\ h.subs[n].size > 0 /\ h.subs[n].offset \in Nat
  BY <1>1 DEF SubRecords
<1>3. PICK f : f = CHOOSE g : IsWalk(g, h)
  OBVIOUS
<1>4. IsWalk(f, h)
  BY <1>1, <1>3, WalkExists
<1>5. Walked(h) = f[N]
  BY <1>3 DEF Walked, IsWalk
<1>6. PICK u : Sums(u, h.subs) /\ Used(h.subs) = u[N]
  BY <1>1, UsedFunction
<1>7. \A n \in 0 .. N : u[n] \in Nat
  BY <1>6, UsedNat
<1>8. f[0] = [subs |-> <<>>, free |-> h.free]
  BY <1>1, <1>4 DEF IsWalk
<1>9. \A n \in 1 .. N : f[n] = IF h.subs[n].offset \in h.deletes
                                THEN [f[n-1] EXCEPT !.free = @ + h.subs[n].size]
                                ELSE [f[n-1] EXCEPT !.subs = Append(@, h.subs[n])]
  <2> TAKE n \in 1 .. N
  <2>1. n \in 0 .. N /\ n # 0
    BY <1>1
  <2> QED
    BY <1>4, <2>1 DEF IsWalk
<1> DEFINE P(n, w) ==
             /\ w = [subs |-> w.subs, free |-> w.free] /\ w.subs \in Seq(SubRecords) /\ w.free \in Nat
             /\ Sorted(w.subs)
             /\ \A j \in 1 .. Len(w.subs) : \A k \in 1 .. N : n < k => End(w.subs[j]) <= h.subs[k].offset
             /\ w.free + Used(w.subs) = h.free + u[n]
             /\ \A j \in 1 .. Len(w.subs) : \E k \in 1 .. N : w.subs[j] = h.subs[k] /\ h.subs[k].offset \notin h.deletes
             /\ \A k \in 1 .. n : h.subs[k].offset \notin h.deletes => \E j \in 1 .. Len(w.subs) : w.subs[j] = h.subs[k]
           Good == {n \in 0 .. N : P(n, f[n])}
<1>10. 0 \in Good
  <2>1. PICK w : w = f[0]
    OBVIOUS
  <2>2. w.subs = <<>> /\ w.free = h.free /\ Len(w.subs) = 0 /\ w = [subs |-> w.subs, free |-> w.free]
    BY <1>8, <2>1
  <2>3. Used(w.subs) = 0
    BY <2>2, UsedEmpty
  <2>4. w.subs \in Seq(SubRecords) /\ Sorted(w.subs)
    BY <2>2 DEF Sorted
  <2>5. P(0, w)
    BY <1>6, <2>2, <2>3, <2>4 DEF Sums
  <2> QED
    BY <1>1, <2>1, <2>5
<1>11. ASSUME NEW m \in 0 .. (N - 1), m \in Good PROVE m + 1 \in Good
  <2>1. PICK v : v = f[m]
    OBVIOUS
  <2>2. P(m, v)
    BY <1>11, <2>1
  <2>3. PICK n \in 1 .. N : n = m + 1
    BY <1>1, <1>11
  <2>4. n - 1 = m /\ n \in 0 .. N /\ m \in 0 .. N /\ m < n /\ (\A k \in 1 .. n : k \in 1 .. m \/ k = n) /\ m \in Nat
    BY <1>1, <1>11, <2>3
  <2>5. PICK s \in SubRecords : s = h.subs[n]
    BY <1>1
  <2>6. s.size \in Nat /\ s.size > 0 /\ s.offset \in Nat /\ u[n] = u[m] + s.size /\ u[m] \in Nat
    BY <1>2, <1>6, <1>7, <2>4, <2>5 DEF Sums
  <2>7. PICK w : w = f[n]
    OBVIOUS
  <2>8. w = IF s.offset \in h.deletes THEN [v EXCEPT !.free = @ + s.size] ELSE [v EXCEPT !.subs = Append(@, s)]
    BY <1>9, <2>1, <2>4, <2>5, <2>7
  <2>9. Used(v.subs) \in Nat /\ Len(v.subs) \in Nat
    BY <2>2, UsedType
  <2>12. v.free \in Nat /\ v.free + Used(v.subs) = h.free + u[m]
    BY <2>2
  <2>13. \A j \in 1 .. Len(v.subs) : \A k \in 1 .. N : m < k => End(v.subs[j]) <= h.subs[k].offset
    BY <2>2
  <2>14. \A k \in 1 .. N : n < k => m < k
    BY <2>4
  <2>15. PICK a \in Nat : a = v.free
    BY <2>12
  <2>16. PICK b \in Nat : b = Used(v.subs)
    BY <2>9
  <2>17. PICK c \in Nat : c = h.free
    OBVIOUS
  <2>18. PICK d \in Nat : d = u[m]
    BY <2>6
  <2>19. PICK e \in Nat : e = s.size /\ u[n] = d + e
    BY <2>6, <2>18
  <2>20. a + b = c + d
    BY <2>12, <2>15, <2>16, <2>17, <2>18
  <2>21. (a + e) + b = c + (d + e) /\ a + (b + e) = c + (d + e)
    BY <2>20, Moved
  <2>22. (v.free + s.size) + Used(v.subs) = h.free + u[n] /\ v.free + (Used(v.subs) + s.size) = h.free + u[n]
    BY <2>15, <2>16, <2>17, <2>19, <2>21
  <2> HIDE DEF P
  <2>10. CASE s.offset \in h.deletes
    <3>1. w = [v EXCEPT !.free = @ + s.size]
      BY <2>8, <2>10
    <3>2. w = [subs |-> v.subs, free |-> v.free + s.size]
      BY <2>2, <3>1 DEF P
    <3>3. w.subs = v.subs /\ w.free = v.free + s.size /\ w.free \in Nat /\ w = [subs |-> w.subs, free |-> w.free]
      BY <2>2, <2>6, <3>2, SMTT(30) DEF P
    <3>4. w.free + Used(w.subs) = h.free + u[n]
      <4>1. w.subs = v.subs /\ w.free = v.free + s.size
        BY <3>3
      <4>2. (v.free + s.size) + Used(v.subs) = h.free + u[n]
        BY <2>22
      <4> QED
        BY <4>1, <4>2
    <3>5. \A j \in 1 .. Len(w.subs) : \A k \in 1 .. N : n < k => End(w.subs[j]) <= h.subs[k].offset
      BY <2>13, <2>14, <3>3
    <3>6. \A k \in 1 .. n : h.subs[k].offset \notin h.deletes => \E j \in 1 .. Len(w.subs) : w.subs[j] = h.subs[k]
      <4>1. w.subs = v.subs
        BY <3>3
      <4>2. \A k \in 1 .. m : h.subs[k].offset \notin h.deletes => \E j \in 1 .. Len(v.subs) : v.subs[j] = h.subs[k]
        BY <2>2 DEF P
      <4> QED
        BY <2>4, <2>5, <2>10, <4>1, <4>2
    <3>7. P(n, w)
      BY <2>2, <3>3, <3>4, <3>5, <3>6 DEF P
    <3> QED
      BY <2>3, <2>4, <2>7, <3>7
  <2>11. CASE s.offset \notin h.deletes
    <3>1. w = [v EXCEPT !.subs = Append(@, s)]
      BY <2>8, <2>11
    <3>2. w = [subs |-> Append(v.subs, s), free |-> v.free]
      BY <2>2, <3>1 DEF P
    <3>3. w.subs = Append(v.subs, s) /\ w.free = v.free /\ w = [subs |-> w.subs, free |-> w.free]
      BY <3>2
    <3>4. PICK L \in Nat : L = Len(v.subs)
      BY <2>9
    <3>5. /\ w.subs \in Seq(SubRecords) /\ Len(w.subs) = L + 1 /\ w.subs[L + 1] = s
          /\ \A j \in 1 .. L : w.subs[j] = v.subs[j]
      BY <2>2, <3>3, <3>4 DEF P
    <3>6. \A j \in 1 .. (L + 1) : (j \in 1 .. L /\ w.subs[j] = v.subs[j]) \/ (j = L + 1 /\ w.subs[j] = s)
      BY <3>5
    <3>7. w.free + Used(w.subs) = h.free + u[n]
      <4>1. Used(w.subs) = Used(v.subs) + s.size
        BY <2>2, <3>3, UsedAppend DEF P
      <4> QED
        <5>1. w.free = v.free
          BY <3>3
        <5>2. v.free + (Used(v.subs) + s.size) = h.free + u[n]
          BY <2>22
        <5> QED
          BY <4>1, <5>1, <5>2
    <3>8. \A k \in 1 .. N : n < k => End(s) <= h.subs[k].offset
      BY <2>5 DEF Sorted
    <3>9. \A j \in 1 .. Len(w.subs) : \A k \in 1 .. N : n < k => End(w.subs[j]) <= h.subs[k].offset
      BY <2>13, <2>14, <3>4, <3>5, <3>6, <3>8
    <3>10. \A j \in 1 .. L : End(v.subs[j]) <= s.offset
      BY <2>2, <2>4, <2>5, <3>4 DEF P
    <3>11. Sorted(w.subs)
      <4> SUFFICES ASSUME NEW j \in 1 .. (L + 1), NEW l \in 1 .. (L + 1), j < l PROVE End(w.subs[j]) <= w.subs[l].offset
        BY <3>5 DEF Sorted
      <4>1. j \in 1 .. L /\ w.subs[j] = v.subs[j]
        BY <3>5
      <4>2. CASE l \in 1 .. L /\ w.subs[l] = v.subs[l]
        BY <2>2, <3>4, <4>1, <4>2 DEF Sorted, P
      <4>3. CASE w.subs[l] = s
        BY <3>10, <4>1, <4>3
      <4> QED
        BY <3>6, <4>2, <4>3
    <3>12. \A j \in 1 .. Len(w.subs) : \E k \in 1 .. N : w.subs[j] = h.subs[k] /\ h.subs[k].offset \notin h.deletes
      BY <2>2, <2>5, <2>11, <3>4, <3>5, <3>6 DEF P
    <3>13. \A k \in 1 .. n : h.subs[k].offset \notin h.deletes => \E j \in 1 .. Len(w.subs) : w.subs[j] = h.subs[k]
      <4> SUFFICES ASSUME NEW k \in 1 .. n, h.subs[k].offset \notin h.deletes PROVE \E j \in 1 .. (L + 1) : w.subs[j] = h.subs[k]
        BY <3>5
      <4>1. CASE k \in 1 .. m
        <5>1. PICK j \in 1 .. L : v.subs[j] = h.subs[k]
          BY <2>2, <3>4, <4>1 DEF P
        <5> QED
          BY <3>5, <5>1
      <4>2. CASE k = n
        <5>1. L + 1 \in 1 .. (L + 1)
          OBVIOUS
        <5> QED
          BY <2>5, <3>5, <4>2, <5>1
      <4> QED
        BY <2>4, <4>1, <4>2
    <3>14. P(n, w)
      BY <2>2, <3>3, <3>5, <3>7, <3>9, <3>11, <3>12, <3>13 DEF P
    <3> QED
      BY <2>3, <2>4, <2>7, <3>14
  <2> QED
    BY <2>10, <2>11
<1> HIDE DEF Good, P
<1>12. \A n \in 0 .. N : n \in Good
  BY <1>1, <1>10, <1>11, UpTo
<1>13. P(N, f[N])
  BY <1>1, <1>12 DEF Good
<1> QED
  BY <1>5, <1>6, <1>13 DEF P

(***************************************************************************)
(* What depends on the device only.                                        *)
(***************************************************************************)
LEMMA DeviceKept ==
  ASSUME plan' = plan, run' = run, mixed' = mixed, leader' = leader, dedicated' = dedicated
  PROVE  /\ \A o : Needs(o)' = Needs(o) /\ RelativeOffset(o)' = RelativeOffset(o)
         /\ \A o : MemoryType(o)' = MemoryType(o) /\ WantsDedicated(o)' = WantsDedicated(o)
         /\ \A l : Members(l)' = Members(l) /\ GroupReqs(l)' = GroupReqs(l) /\ GroupSize(l)' = GroupSize(l)
         /\ Aliased' = Aliased /\ CanPrepare' = CanPrepare /\ Dedicated' = Dedicated
         /\ \A type : HostVisible(type)' = HostVisible(type)
<1>1. \A o : Needs(o)' = Needs(o) /\ RelativeOffset(o)' = RelativeOffset(o)
  BY DEF Needs, RelativeOffset
<1>2. \A o : MemoryType(o)' = MemoryType(o)
  BY <1>1 DEF MemoryType, Needs, TypeChoice, Suitable, PruneFlags
<1>3. \A o : WantsDedicated(o)' = WantsDedicated(o)
  BY DEF WantsDedicated
<1>4. \A l : Members(l)' = Members(l)
  BY DEF Members
<1>5. \A l : GroupReqs(l)' = GroupReqs(l)
  BY DEF GroupReqs, Merged, Needs, Members
<1>6. \A l : GroupSize(l)' = GroupSize(l)
  BY DEF GroupSize, Needs, Members, RelativeOffset
<1>7. Aliased' = Aliased
  BY DEF Aliased
<1>8. CanPrepare' = CanPrepare
  BY DEF CanPrepare, Groups, Aliased, GroupReqs, Merged, Needs, Members, RelativeOffset
<1>9. Dedicated' = Dedicated
  BY DEF Dedicated, Groups, Aliased
<1>10. \A type : HostVisible(type)' = HostVisible(type)
  BY DEF HostVisible
<1> QED
  BY <1>1, <1>2, <1>3, <1>4, <1>5, <1>6, <1>7, <1>8, <1>9, <1>10

LEMMA PlanFacts ==
  ASSUME Typed, NEW o \in Objects
  PROVE  /\ plan[o] \in Plan /\ Needs(o).size \in Nat \ {0} /\ Needs(o).align \in Nat \ {0}
         /\ Needs(o).types \in SUBSET Nat /\ plan[o].flags \subseteq Flags /\ plan[o].offset \in Nat
         /\ plan[o].tiling \in {"linear", "optimal"} /\ plan[o].addr \in BOOLEAN
         /\ o \in Nat /\ o # 0
<1>1. plan \in [Objects -> Plan]
  BY SuballocatorAssumption DEF Typed
<1>2. plan[o] \in Plan
  BY <1>1
<1>3. DOMAIN MemoryTypes \subseteq Nat
  BY SuballocatorAssumption
<1>4. /\ plan[o].size \in Nat \ {0} /\ plan[o].align \in Nat \ {0} /\ plan[o].types \subseteq DOMAIN MemoryTypes
      /\ plan[o].flags \subseteq Flags /\ plan[o].offset \in Nat
      /\ plan[o].tiling \in {"linear", "optimal"} /\ plan[o].addr \in BOOLEAN
  BY <1>2 DEF Plan
<1>5. o \in Nat /\ o # 0
  BY SuballocatorAssumption
<1> QED
  BY <1>2, <1>3, <1>4, <1>5 DEF Needs

LEMMA MinFacts ==
  ASSUME NEW S \in SUBSET Nat, S # {}
  PROVE  Min(S) \in S /\ \A y \in S : Min(S) <= y
<1>1. \E x \in S : \A y \in S : x <= y
  BY LeastNatural
<1> QED
  BY <1>1 DEF Min

LEMMA TypeChoiceFacts ==
  ASSUME NEW types \in SUBSET Nat, NEW flags, NEW type \in TypeChoice(types, flags)
  PROVE  type \in types /\ Fits(run, type, flags) /\ type \in Nat /\ Min(TypeChoice(types, flags)) = type
<1>1. PICK a : a = Suitable(types, flags)
  OBVIOUS
<1>2. PICK b : b = Suitable(types, flags \ {"HOST_CACHED", "LAZILY_ALLOCATED"})
  OBVIOUS
<1>3. a \in SUBSET Nat /\ b \in SUBSET Nat
  BY <1>1, <1>2 DEF Suitable
<1>4. TypeChoice(types, flags) = IF a # {} THEN {Min(a)} ELSE IF b # {} THEN {Min(b)} ELSE {}
  BY <1>1, <1>2 DEF TypeChoice
<1>5. (type \in a \/ type \in b) /\ TypeChoice(types, flags) = {type}
  <2>1. CASE a # {}
    <3>1. Min(a) \in a
      BY <1>3, <2>1, MinFacts
    <3> QED
      BY <1>4, <2>1, <3>1
  <2>2. CASE a = {} /\ b # {}
    <3>1. Min(b) \in b
      BY <1>3, <2>2, MinFacts
    <3> QED
      BY <1>4, <2>2, <3>1
  <2> QED
    BY <1>4, <2>1, <2>2
<1>6. type \in types /\ Fits(run, type, flags)
  BY <1>1, <1>2, <1>5 DEF Suitable, Fits
<1>7. type \in Nat
  BY <1>6
<1>8. {type} \in SUBSET Nat
  BY <1>7
<1>9. Min({type}) \in {type}
  BY <1>8, MinFacts
<1> QED
  BY <1>5, <1>6, <1>7, <1>9

LEMMA RoundUpFacts ==
  ASSUME NEW x \in Nat, NEW a \in Nat \ {0}
  PROVE  RoundUp(x, a) \in Nat /\ RoundUp(x, a) >= x /\ RoundUp(x, a) % a = 0
<1>1. PICK q \in Int : q = (x + a - 1) \div a
  OBVIOUS
<1>2. PICK r \in Int : r = (x + a - 1) % a
  OBVIOUS
<1>3. x + a - 1 = a * q + r /\ 0 <= r /\ r < a
  BY <1>1, <1>2
<1>4. q * a >= x /\ q >= 0
  BY <1>3
<1>5. (q * a) % a = 0
  BY <1>4
<1>6. q * a \in Nat
  BY <1>4
<1> QED
  BY <1>1, <1>4, <1>5, <1>6 DEF RoundUp

(***************************************************************************)
(* Heaps.                                                                  *)
(***************************************************************************)
\* What the owner's deletes leave of a heap.
SameKind(h, d) == d.kind = h.kind /\ d.type = h.type /\ d.flags = h.flags /\ d.tiling = h.tiling /\ d.addr = h.addr
DrainKeeps(h, d) ==
  /\ SameKind(h, d) /\ d.deletes = {} /\ (h.deletes = {} => d = h) /\ (d.mem => h.mem)
  /\ \A j \in 1 .. Len(d.subs) : \E k \in 1 .. Len(h.subs) : d.subs[j] = h.subs[k] /\ h.subs[k].offset \notin h.deletes
  /\ \A k \in 1 .. Len(h.subs) : h.subs[k].offset \notin h.deletes =>
        /\ \E j \in 1 .. Len(d.subs) : d.subs[j] = h.subs[k]
        /\ d.mem = h.mem /\ d.bytes = h.bytes /\ d.total = h.total

LEMMA EmptyList == <<>> \in Seq(SubRecords) /\ Len(<<>>) = 0
OBVIOUS

LEMMA OneList ==
  ASSUME NEW s \in SubRecords
  PROVE  <<s>> \in Seq(SubRecords) /\ Len(<<s>>) = 1 /\ <<s>>[1] = s /\ <<s>> = Append(<<>>, s)
OBVIOUS

LEMMA HeapTypes ==
  ASSUME NEW h \in HeapRecords
  PROVE  /\ h.mem \in BOOLEAN /\ h.total \in Nat /\ h.free \in Nat /\ h.type \in Nat /\ h.flags \in SUBSET Flags
         /\ h.tiling \in {"linear", "optimal"} /\ h.addr \in BOOLEAN /\ h.kind \in {"shared", "dedicated", "alias"}
         /\ h.subs \in Seq(SubRecords) /\ h.deletes \in SUBSET Nat /\ h.bytes \in Fills
         /\ Len(h.subs) \in Nat /\ \A k \in 1 .. Len(h.subs) : h.subs[k] \in SubRecords
         /\ \A k \in 1 .. Len(h.subs) : h.subs[k].obj \in Objects /\ h.subs[k].offset \in Nat /\ h.subs[k].size \in Nat \ {0}
<1>1. /\ h.mem \in BOOLEAN /\ h.total \in Nat /\ h.free \in Nat /\ h.type \in Nat /\ h.flags \in SUBSET Flags
      /\ h.tiling \in {"linear", "optimal"} /\ h.addr \in BOOLEAN /\ h.kind \in {"shared", "dedicated", "alias"}
      /\ h.subs \in Seq(SubRecords) /\ h.deletes \in SUBSET Nat /\ h.bytes \in Fills
  BY DEF HeapRecords
<1>2. Len(h.subs) \in Nat /\ \A k \in 1 .. Len(h.subs) : h.subs[k] \in SubRecords
  BY <1>1
<1>3. \A k \in 1 .. Len(h.subs) : h.subs[k].obj \in Objects /\ h.subs[k].offset \in Nat /\ h.subs[k].size \in Nat \ {0}
  BY <1>2 DEF SubRecords
<1> QED
  BY <1>1, <1>2, <1>3

LEMMA DrainedFacts ==
  ASSUME NEW h \in HeapRecords, HeapSound(h), NEW d, d = Drained(h)
  PROVE  d \in HeapRecords /\ HeapSound(d) /\ DrainKeeps(h, d)
<1>1. PICK w : w = Walked(h)
  OBVIOUS
<1>2. h.subs \in Seq(SubRecords) /\ h.free \in Nat /\ h.total \in Nat /\ Sorted(h.subs) /\ Len(h.subs) \in Nat
  BY HeapTypes DEF HeapSound
<1>3. /\ w.subs \in Seq(SubRecords) /\ w.free \in Nat /\ Sorted(w.subs)
      /\ w.free + Used(w.subs) = h.free + Used(h.subs)
      /\ \A j \in 1 .. Len(w.subs) : \E k \in 1 .. Len(h.subs) : w.subs[j] = h.subs[k] /\ h.subs[k].offset \notin h.deletes
      /\ \A k \in 1 .. Len(h.subs) : h.subs[k].offset \notin h.deletes => \E j \in 1 .. Len(w.subs) : w.subs[j] = h.subs[k]
  BY <1>1, <1>2, WalkedFacts
<1>4. CASE h.deletes = {}
  <2>1. d = h
    BY <1>4 DEF Drained
  <2>2. DrainKeeps(h, h)
    BY <1>4 DEF DrainKeeps, SameKind
  <2> QED
    BY <2>1, <2>2
<1>5. CASE h.deletes # {} /\ h.kind = "dedicated" /\ w.subs = <<>> /\ h.mem
  <2>1. d = [h EXCEPT !.subs = <<>>, !.deletes = {}, !.mem = FALSE, !.free = 0, !.total = 0, !.bytes = <<>>]
    BY <1>1, <1>5 DEF Drained
  <2>2. <<>> \in Fills /\ DOMAIN <<>> = 0 .. (0 - 1)
    <3>1. PICK e : e = [b \in 0 .. (0 - 1) |-> 0]
      OBVIOUS
    <3>2. e = <<>>
      BY <3>1
    <3>3. e \in [0 .. (0 - 1) -> Int]
      BY <3>1
    <3> QED
      BY <3>1, <3>2, <3>3 DEF Fills
  <2>3. d \in HeapRecords
    <3>1. PICK x \in Seq(SubRecords) : x = <<>>
      BY EmptyList
    <3>2. PICK y \in Fills : y = <<>>
      BY <2>2
    <3>3. d = [h EXCEPT !.subs = x, !.deletes = {}, !.mem = FALSE, !.free = 0, !.total = 0, !.bytes = y]
      BY <2>1, <3>1, <3>2
    <3>4. PICK g : g = [h EXCEPT !.subs = x, !.deletes = {}, !.mem = FALSE]
      OBVIOUS
    <3>5. g \in HeapRecords
      BY <3>4 DEF HeapRecords
    <3>6. PICK e : e = [g EXCEPT !.free = 0, !.total = 0]
      OBVIOUS
    <3>7. e \in HeapRecords
      BY <3>5, <3>6 DEF HeapRecords
    <3>8. d = [e EXCEPT !.bytes = y]
      BY <3>3, <3>4, <3>6 DEF HeapRecords
    <3> QED
      BY <3>7, <3>8 DEF HeapRecords
  <2>4. d.subs = <<>> /\ d.free = 0 /\ d.total = 0 /\ d.bytes = <<>> /\ d.deletes = {} /\ d.mem = FALSE /\ SameKind(h, d)
    BY <2>1 DEF HeapRecords, SameKind
  <2>5. HeapSound(d)
    <3>1. Used(d.subs) = 0 /\ Len(d.subs) = 0
      BY <2>4, UsedEmpty
    <3> QED
      BY <2>2, <2>4, <3>1 DEF HeapSound, Sorted
  <2>6. \A k \in 1 .. Len(h.subs) : h.subs[k].offset \in h.deletes
    BY <1>3, <1>5
  <2>7. DrainKeeps(h, d)
    <3>1. Len(d.subs) = 0
      BY <2>4
    <3> QED
      BY <1>5, <2>4, <2>6, <3>1 DEF DrainKeeps
  <2> QED
    BY <2>3, <2>5, <2>7
<1>6. CASE h.deletes # {} /\ ~(h.kind = "dedicated" /\ w.subs = <<>> /\ h.mem)
  <2>1. d = [h EXCEPT !.subs = w.subs, !.deletes = {}, !.free = w.free]
    BY <1>1, <1>6 DEF Drained
  <2>2. d \in HeapRecords
    BY <1>3, <2>1 DEF HeapRecords
  <2>3. /\ d.subs = w.subs /\ d.free = w.free /\ d.total = h.total /\ d.bytes = h.bytes /\ d.deletes = {} /\ d.mem = h.mem
        /\ SameKind(h, d)
    BY <2>1 DEF HeapRecords, SameKind
  <2>4. HeapSound(d)
    <3>1. \A k \in 1 .. Len(d.subs) : End(d.subs[k]) <= d.total
      BY <1>3, <2>3 DEF HeapSound
    <3>2. d.free + Used(d.subs) = d.total
      BY <1>3, <2>3 DEF HeapSound
    <3>3. DOMAIN d.bytes = 0 .. (d.total - 1)
      BY <2>3 DEF HeapSound
    <3>4. Sorted(d.subs)
      BY <1>3, <2>3
    <3> QED
      BY <3>1, <3>2, <3>3, <3>4 DEF HeapSound
  <2>5. DrainKeeps(h, d)
    <3>1. \A j \in 1 .. Len(d.subs) : \E k \in 1 .. Len(h.subs) : d.subs[j] = h.subs[k] /\ h.subs[k].offset \notin h.deletes
      BY <1>3, <2>3
    <3>2. \A k \in 1 .. Len(h.subs) : h.subs[k].offset \notin h.deletes => \E j \in 1 .. Len(d.subs) : d.subs[j] = h.subs[k]
      BY <1>3, <2>3
    <3> QED
      BY <1>6, <2>3, <3>1, <3>2 DEF DrainKeeps
  <2> QED
    BY <2>2, <2>4, <2>5
<1> QED
  BY <1>4, <1>5, <1>6

LEMMA InsertSound ==
  ASSUME NEW d \in HeapRecords, HeapSound(d), NEW k \in 0 .. Len(d.subs), NEW s \in SubRecords, s.size <= d.free,
         \A n \in 1 .. k : End(d.subs[n]) <= s.offset, \A n \in (k + 1) .. Len(d.subs) : End(s) <= d.subs[n].offset,
         End(s) <= d.total, NEW g, g = Insert(d, k, s)
  PROVE  /\ g \in HeapRecords /\ HeapSound(g) /\ SameKind(d, g) /\ IsInserted(g.subs, d.subs, k, s)
         /\ g.mem = d.mem /\ g.total = d.total /\ g.bytes = d.bytes /\ g.deletes = d.deletes
<1>1. PICK t : t = Inserted(d.subs, k, s)
  OBVIOUS
<1>2. d.subs \in Seq(SubRecords) /\ d.free \in Nat /\ d.total \in Nat
  BY HeapTypes
<1>3. IsInserted(t, d.subs, k, s)
  BY <1>1, <1>2, InsertedFacts
<1>4. g = [d EXCEPT !.subs = t, !.free = d.free - s.size]
  BY <1>1 DEF Insert, Inserted
<1>5. s.size \in Nat /\ s.offset \in Nat /\ d.free - s.size \in Nat
  BY <1>2 DEF SubRecords
<1>6. t \in Seq(SubRecords)
  BY <1>3 DEF IsInserted
<1>7. g \in HeapRecords
  BY <1>4, <1>5, <1>6 DEF HeapRecords
<1>8. /\ g.subs = t /\ g.free = d.free - s.size /\ g.mem = d.mem /\ g.total = d.total /\ g.bytes = d.bytes
      /\ g.deletes = d.deletes /\ SameKind(d, g)
  BY <1>4 DEF HeapRecords, SameKind
<1>9. PICK N \in Nat : N = Len(d.subs)
  BY <1>2
<1>10. /\ k \in 0 .. N /\ Len(t) = N + 1 /\ t[k + 1] = s
       /\ \A n \in 1 .. k : t[n] = d.subs[n]
       /\ \A n \in (k + 1) .. N : t[n + 1] = d.subs[n]
  BY <1>3, <1>9 DEF IsInserted
<1>11. ASSUME NEW n \in 1 .. (N + 1)
       PROVE  \/ n = k + 1 /\ t[n] = s
              \/ n \in 1 .. k /\ n \in 1 .. N /\ t[n] = d.subs[n]
              \/ n - 1 \in (k + 1) .. N /\ n - 1 \in 1 .. N /\ t[n] = d.subs[n - 1]
  <2>1. n = k + 1 \/ n \in 1 .. k \/ (n - 1 \in (k + 1) .. N /\ n - 1 + 1 = n)
    BY <1>10, <1>11
  <2>2. ASSUME n - 1 \in (k + 1) .. N, n - 1 + 1 = n PROVE t[n] = d.subs[n - 1]
    BY <1>10, <2>2
  <2> QED
    BY <1>10, <2>1, <2>2
<1>12. Used(t) = Used(d.subs) + s.size
  BY <1>1, <1>2, UsedInserted
<1>13. \A n \in 1 .. N : d.subs[n].offset \in Nat /\ d.subs[n].size \in Nat
  BY <1>9, HeapTypes
<1>14. Sorted(t)
  <2> SUFFICES ASSUME NEW n \in 1 .. (N + 1), NEW l \in 1 .. (N + 1), n < l PROVE End(t[n]) <= t[l].offset
    BY <1>10 DEF Sorted
  <2>0. \A x, y \in 1 .. N : x < y => End(d.subs[x]) <= d.subs[y].offset
    BY <1>9 DEF HeapSound, Sorted
  <2>1. CASE n = k + 1 /\ t[n] = s
    <3>1. l - 1 \in (k + 1) .. N /\ t[l] = d.subs[l - 1]
      BY <1>10, <1>11, <2>1
    <3> QED
      BY <1>9, <2>1, <3>1
  <2>2. CASE n \in 1 .. k /\ t[n] = d.subs[n]
    <3>1. CASE t[l] = s
      BY <2>2, <3>1
    <3>2. CASE l \in 1 .. N /\ t[l] = d.subs[l]
      BY <1>10, <2>0, <2>2, <3>2
    <3>3. CASE l - 1 \in (k + 1) .. N /\ t[l] = d.subs[l - 1]
      <4>1. n < l - 1 /\ n \in 1 .. N /\ l - 1 \in 1 .. N
        BY <1>10, <2>2, <3>3
      <4> QED
        BY <2>0, <2>2, <3>3, <4>1
    <3> QED
      BY <1>11, <3>1, <3>2, <3>3
  <2>3. CASE n - 1 \in (k + 1) .. N /\ t[n] = d.subs[n - 1]
    <3>1. l - 1 \in (k + 1) .. N /\ t[l] = d.subs[l - 1]
      BY <1>10, <1>11, <2>3
    <3>2. n - 1 < l - 1 /\ n - 1 \in 1 .. N /\ l - 1 \in 1 .. N
      BY <1>10, <2>3, <3>1
    <3> QED
      BY <2>0, <2>3, <3>1, <3>2
  <2> QED
    BY <1>11, <2>1, <2>2, <2>3
<1>15. \A n \in 1 .. (N + 1) : End(t[n]) <= d.total
  BY <1>9, <1>11 DEF HeapSound
<1>16. (d.free - s.size) + (Used(d.subs) + s.size) = d.total
  <2>1. Used(d.subs) \in Nat /\ d.free + Used(d.subs) = d.total
    BY <1>2, UsedType DEF HeapSound
  <2>2. PICK a \in Nat, b \in Nat, c \in Nat, e \in Nat : a = d.free /\ b = Used(d.subs) /\ c = d.total /\ e = s.size
    BY <1>2, <1>5, <2>1
  <2>3. a + b = c => (a - e) + (b + e) = c
    OBVIOUS
  <2> QED
    BY <2>1, <2>2, <2>3
<1>17. HeapSound(g)
  <2>1. DOMAIN g.bytes = 0 .. (g.total - 1)
    BY <1>8 DEF HeapSound
  <2>2. g.free + Used(g.subs) = g.total
    BY <1>8, <1>12, <1>16
  <2> QED
    BY <1>8, <1>10, <1>14, <1>15, <2>1, <2>2 DEF HeapSound
<1> QED
  BY <1>3, <1>7, <1>8, <1>17

LEMMA SpotSound ==
  ASSUME Typed, NEW o \in Objects, NEW d \in HeapRecords, HeapSound(d), Needs(o).size <= d.free,
         NEW k, k = Spot(d, o), k # -1, NEW off, off = IF k = 0 THEN 0 ELSE GapStart(d, k, Needs(o).align),
         NEW s, s = Sub(o, off, Needs(o).size)
  PROVE  /\ k \in 0 .. Len(d.subs) /\ s \in SubRecords /\ off \in Nat /\ off % Needs(o).align = 0
         /\ \A n \in 1 .. k : End(d.subs[n]) <= s.offset
         /\ \A n \in (k + 1) .. Len(d.subs) : End(s) <= d.subs[n].offset
         /\ End(s) <= d.total
<1>1. PICK size \in Nat \ {0} : size = Needs(o).size
  BY PlanFacts
<1>2. PICK align \in Nat \ {0} : align = Needs(o).align
  BY PlanFacts
<1>3. PICK N \in Nat : N = Len(d.subs)
  BY HeapTypes
<1>4. /\ d.subs \in Seq(SubRecords) /\ d.total \in Nat /\ d.free \in Nat
      /\ \A n \in 1 .. N : d.subs[n].offset \in Nat /\ d.subs[n].size \in Nat
  BY <1>3, HeapTypes
<1>5. \A x, y \in 1 .. N : x < y => End(d.subs[x]) <= d.subs[y].offset
  BY <1>3 DEF HeapSound, Sorted
<1>6. \A n \in 1 .. N : End(d.subs[n]) <= d.total /\ End(d.subs[n]) \in Nat /\ d.subs[n].offset <= End(d.subs[n])
  <2>1. \A n \in 1 .. N : End(d.subs[n]) <= d.total
    BY <1>3 DEF HeapSound
  <2> QED
    BY <1>4, <2>1, SMTT(30) DEF End
<1>7. ASSUME off \in Nat PROVE s \in SubRecords /\ s.offset = off /\ s.size = size /\ End(s) = off + size
  BY <1>1, <1>7 DEF Sub, SubRecords, End
<1>8. CASE d.subs = <<>>
  <2>1. k = 0 /\ off = 0 /\ N = 0
    BY <1>3, <1>8 DEF Spot
  <2>2. End(s) <= d.total
    <3>1. d.free = d.total
      <4>1. Used(d.subs) = 0 /\ d.free + Used(d.subs) = d.total
        BY <1>8, UsedEmpty DEF HeapSound
      <4> QED
        BY <1>4, <4>1
    <3> QED
      BY <1>1, <1>7, <2>1, <3>1
  <2>3. 0 % align = 0
    BY <1>2
  <2> QED
    BY <1>2, <1>3, <1>7, <2>1, <2>2, <2>3
<1>9. CASE d.subs # <<>> /\ d.subs[1].offset >= size
  <2>1. k = 0 /\ off = 0
    BY <1>1, <1>9 DEF Spot
  <2>2. N # 0 /\ 1 \in 1 .. N
    BY <1>3, <1>4, <1>9
  <2>3. \A n \in 1 .. N : size <= d.subs[n].offset
    <3> TAKE n \in 1 .. N
    <3>1. CASE n = 1
      BY <1>9, <3>1
    <3>2. CASE 1 < n
      <4>1. End(d.subs[1]) <= d.subs[n].offset /\ d.subs[1].offset <= End(d.subs[1]) /\ End(d.subs[1]) \in Nat
        BY <1>5, <1>6, <2>2, <3>2
      <4> QED
        BY <1>4, <1>9, <2>2, <4>1
    <3> QED
      BY <3>1, <3>2
  <2>4. size <= d.total
    <3>1. End(d.subs[1]) <= d.total /\ d.subs[1].offset <= End(d.subs[1]) /\ End(d.subs[1]) \in Nat /\ d.subs[1].offset \in Nat
      BY <1>4, <1>6, <2>2
    <3> QED
      BY <1>4, <1>9, <3>1
  <2>5. 0 % align = 0
    BY <1>2
  <2> QED
    BY <1>2, <1>3, <1>7, <2>1, <2>3, <2>4, <2>5
<1>10. CASE d.subs # <<>> /\ ~(d.subs[1].offset >= size)
  <2>1. k = IF Holes(d, o) # {} THEN Min(Holes(d, o)) ELSE -1
    BY <1>1, <1>10 DEF Spot
  <2>2. Holes(d, o) \in SUBSET Nat
    BY <1>4 DEF Holes
  <2>3. k \in Holes(d, o)
    BY <2>1, <2>2, MinFacts
  <2>4. k \in 1 .. N /\ GapStart(d, k, align) + size <= GapEnd(d, k)
    BY <1>1, <1>2, <1>3, <1>4, <2>3 DEF Holes
  <2>5. off = RoundUp(End(d.subs[k]), align)
    BY <1>2, <2>4 DEF GapStart
  <2>6. End(d.subs[k]) \in Nat
    BY <1>6, <2>4
  <2>7. off \in Nat /\ off >= End(d.subs[k]) /\ off % align = 0
    BY <2>5, <2>6, RoundUpFacts
  <2>8. off + size <= GapEnd(d, k)
    BY <2>4, <2>5 DEF GapStart
  <2>9. \A n \in 1 .. k : End(d.subs[n]) <= off
    <3> TAKE n \in 1 .. k
    <3>1. CASE n = k
      BY <2>7, <3>1
    <3>2. CASE n < k
      <4>1. n \in 1 .. N /\ End(d.subs[n]) <= d.subs[k].offset /\ d.subs[k].offset <= End(d.subs[k])
        BY <1>5, <1>6, <2>4, <3>2
      <4>2. End(d.subs[n]) \in Nat /\ d.subs[k].offset \in Nat
        BY <1>4, <1>6, <2>4, <4>1
      <4> QED
        BY <2>6, <2>7, <4>1, <4>2
    <3> QED
      BY <2>4, <3>1, <3>2
  <2>10. CASE k = N
    <3>1. off + size <= d.total
      BY <1>3, <2>8, <2>10 DEF GapEnd
    <3>2. \A n \in (k + 1) .. N : FALSE
      BY <2>10
    <3> QED
      BY <1>2, <1>3, <1>7, <2>4, <2>7, <2>9, <3>1, <3>2
  <2>11. CASE k # N
    <3>1. k + 1 \in 1 .. N /\ off + size <= d.subs[k + 1].offset
      BY <1>3, <2>4, <2>8, <2>11 DEF GapEnd
    <3>2. \A n \in (k + 1) .. N : off + size <= d.subs[n].offset
      <4> TAKE n \in (k + 1) .. N
      <4>1. CASE n = k + 1
        BY <3>1, <4>1
      <4>2. CASE k + 1 < n
        <5>1. n \in 1 .. N /\ End(d.subs[k + 1]) <= d.subs[n].offset /\ d.subs[k + 1].offset <= End(d.subs[k + 1])
          BY <1>5, <1>6, <2>4, <3>1, <4>2
        <5>2. End(d.subs[k + 1]) \in Nat /\ d.subs[k + 1].offset \in Nat /\ d.subs[n].offset \in Nat
          BY <1>4, <1>6, <3>1, <5>1
        <5> QED
          BY <2>7, <3>1, <5>1, <5>2
      <4> QED
        BY <2>4, <4>1, <4>2
    <3>3. off + size <= d.total
      <4>1. End(d.subs[k + 1]) <= d.total /\ d.subs[k + 1].offset <= End(d.subs[k + 1])
        BY <1>6, <3>1
      <4>2. End(d.subs[k + 1]) \in Nat /\ d.subs[k + 1].offset \in Nat
        BY <1>4, <1>6, <3>1
      <4> QED
        BY <1>4, <2>7, <3>1, <4>1, <4>2, SMTT(30)
    <3> QED
      BY <1>2, <1>3, <1>7, <2>4, <2>7, <2>9, <3>2, <3>3
  <2> QED
    BY <2>10, <2>11
<1> QED
  BY <1>8, <1>9, <1>10

(***************************************************************************)
(* What a step does to the lists of heaps.                                 *)
(***************************************************************************)
HeapLists == [Threads -> Seq(HeapRecords)]

LEMMA HeapsTyped ==
  ASSUME NEW hs \in HeapLists, NEW t \in Threads
  PROVE  hs[t] \in Seq(HeapRecords) /\ Len(hs[t]) \in Nat /\ \A i \in 1 .. Len(hs[t]) : hs[t][i] \in HeapRecords
<1>1. hs[t] \in Seq(HeapRecords)
  BY DEF HeapLists
<1> QED
  BY <1>1

LEMMA InHeapsFacts ==
  ASSUME NEW hs \in HeapLists, NEW r, InHeaps(hs, r)
  PROVE  /\ r[1] \in Threads /\ r[2] \in 1 .. Len(hs[r[1]]) /\ r = <<r[1], r[2]>> /\ r # NoHome
         /\ HeapIn(hs, r) = hs[r[1]][r[2]] /\ HeapIn(hs, r) \in HeapRecords /\ r \in Refs
<1>0. PICK t \in Threads : \E i \in 1 .. Len(hs[t]) : r = <<t, i>>
  BY DEF InHeaps
<1>1. PICK i \in 1 .. Len(hs[t]) : r = <<t, i>>
  BY <1>0
<1>2. r[1] = t /\ r[2] = i /\ r # NoHome
  BY <1>1 DEF NoHome
<1>3. Len(hs[t]) \in Nat /\ hs[t][i] \in HeapRecords
  BY HeapsTyped
<1>4. r \in Refs
  BY <1>1, <1>3 DEF Refs
<1> QED
  BY <1>1, <1>2, <1>3, <1>4 DEF HeapIn

LEMMA RefsIn ==
  ASSUME NEW hs \in HeapLists, NEW t \in Threads, NEW i \in 1 .. Len(hs[t])
  PROVE  InHeaps(hs, <<t, i>>) /\ HeapIn(hs, <<t, i>>) = hs[t][i]
BY DEF InHeaps, HeapIn

\* A heap is added at the end of a thread's list.
Grown(hs, gs, t, g) ==
  LET n == Len(hs[t]) + 1
  IN /\ n \in 1 .. Len(gs[t]) /\ gs[t][n] = g /\ ~InHeaps(hs, <<t, n>>)
     /\ \A u \in Threads : \A i \in 1 .. Len(gs[u]) :
           \/ i \in 1 .. Len(hs[u]) /\ gs[u][i] = hs[u][i]
           \/ u = t /\ i = n
     /\ \A r : InHeaps(hs, r) => InHeaps(gs, r) /\ HeapIn(gs, r) = HeapIn(hs, r)

LEMMA GrownFacts ==
  ASSUME NEW hs \in HeapLists, NEW t \in Threads, NEW g \in HeapRecords, NEW gs, gs = [hs EXCEPT ![t] = Append(@, g)]
  PROVE  gs \in HeapLists /\ Grown(hs, gs, t, g)
<1>1. PICK n \in Nat : n = Len(hs[t]) + 1
  BY HeapsTyped
<1>2. hs[t] \in Seq(HeapRecords)
  BY HeapsTyped
<1>3. PICK a : a = Append(hs[t], g)
  OBVIOUS
<1>4. a \in Seq(HeapRecords) /\ Len(a) = n /\ a[n] = g /\ \A i \in 1 .. Len(hs[t]) : a[i] = hs[t][i]
  BY <1>1, <1>2, <1>3
<1>5. gs = [u \in Threads |-> IF u = t THEN a ELSE hs[u]]
  BY <1>3 DEF HeapLists
<1>6. gs \in HeapLists
  BY <1>4, <1>5 DEF HeapLists
<1>7. n \in 1 .. Len(gs[t]) /\ gs[t][n] = g
  BY <1>1, <1>2, <1>4, <1>5
<1>8. ~InHeaps(hs, <<t, n>>)
  BY <1>1, <1>2 DEF InHeaps
<1>9. \A u \in Threads : \A i \in 1 .. Len(gs[u]) :
           \/ i \in 1 .. Len(hs[u]) /\ gs[u][i] = hs[u][i]
           \/ u = t /\ i = n
  <2> TAKE u \in Threads
  <2> TAKE i \in 1 .. Len(gs[u])
  <2>1. CASE u = t
    <3>1. i \in 1 .. n
      BY <1>4, <1>5, <2>1
    <3>2. i = n \/ i \in 1 .. Len(hs[t])
      BY <1>1, <1>2, <3>1
    <3> QED
      BY <1>4, <1>5, <2>1, <3>2
  <2>2. CASE u # t
    BY <1>5, <2>2
  <2> QED
    BY <2>1, <2>2
<1>10. ASSUME NEW r, InHeaps(hs, r) PROVE InHeaps(gs, r) /\ HeapIn(gs, r) = HeapIn(hs, r)
  <2>0. PICK u \in Threads : \E i \in 1 .. Len(hs[u]) : r = <<u, i>>
    BY <1>10 DEF InHeaps
  <2>1. PICK i \in 1 .. Len(hs[u]) : r = <<u, i>>
    BY <2>0
  <2>2. i \in 1 .. Len(gs[u]) /\ gs[u][i] = hs[u][i]
    <3>1. CASE u = t
      <4>1. i \in 1 .. n
        BY <1>1, <1>2, <3>1
      <4> QED
        BY <1>4, <1>5, <3>1, <4>1
    <3>2. CASE u # t
      BY <1>5, <3>2
    <3> QED
      BY <3>1, <3>2
  <2> QED
    BY <2>1, <2>2 DEF InHeaps, HeapIn
<1> QED
  BY <1>1, <1>6, <1>7, <1>8, <1>9, <1>10 DEF Grown

\* One heap is replaced.
Replaced(hs, gs, t, i, g) ==
  /\ i \in 1 .. Len(gs[t]) /\ gs[t][i] = g
  /\ \A u \in Threads : \A j \in 1 .. Len(gs[u]) :
        j \in 1 .. Len(hs[u]) /\ (<<u, j>> = <<t, i>> \/ gs[u][j] = hs[u][j])
  /\ \A r : InHeaps(hs, r) => InHeaps(gs, r) /\ (HeapIn(gs, r) = IF r = <<t, i>> THEN g ELSE HeapIn(hs, r))

LEMMA ReplacedFacts ==
  ASSUME NEW hs \in HeapLists, NEW t \in Threads, NEW i \in 1 .. Len(hs[t]), NEW g \in HeapRecords,
         NEW gs, gs = [hs EXCEPT ![t][i] = g]
  PROVE  gs \in HeapLists /\ Replaced(hs, gs, t, i, g)
<1>1. PICK a : a = [hs[t] EXCEPT ![i] = g]
  OBVIOUS
<1>2. hs[t] \in Seq(HeapRecords) /\ Len(hs[t]) \in Nat
  BY HeapsTyped
<1>3. a \in Seq(HeapRecords) /\ Len(a) = Len(hs[t]) /\ a[i] = g /\ \A j \in 1 .. Len(hs[t]) : j # i => a[j] = hs[t][j]
  BY <1>1, <1>2
<1>4. gs = [u \in Threads |-> IF u = t THEN a ELSE hs[u]]
  BY <1>1 DEF HeapLists
<1>5. gs \in HeapLists
  BY <1>3, <1>4 DEF HeapLists
<1>6. \A u \in Threads : Len(gs[u]) = Len(hs[u]) /\ \A j \in 1 .. Len(hs[u]) : IF u = t /\ j = i THEN gs[u][j] = g ELSE gs[u][j] = hs[u][j]
  BY <1>3, <1>4
<1>7. ASSUME NEW r, InHeaps(hs, r) PROVE InHeaps(gs, r) /\ (HeapIn(gs, r) = IF r = <<t, i>> THEN g ELSE HeapIn(hs, r))
  <2>0. PICK u \in Threads : \E j \in 1 .. Len(hs[u]) : r = <<u, j>>
    BY <1>7 DEF InHeaps
  <2>1. PICK j \in 1 .. Len(hs[u]) : r = <<u, j>>
    BY <2>0
  <2>2. j \in 1 .. Len(gs[u])
    BY <1>6
  <2>3. HeapIn(gs, r) = gs[u][j] /\ HeapIn(hs, r) = hs[u][j] /\ (r = <<t, i>> <=> u = t /\ j = i)
    BY <2>1 DEF HeapIn
  <2> QED
    BY <1>6, <2>1, <2>2, <2>3 DEF InHeaps
<1>8. \A u \in Threads : \A j \in 1 .. Len(gs[u]) :
        j \in 1 .. Len(hs[u]) /\ (<<u, j>> = <<t, i>> \/ gs[u][j] = hs[u][j])
  BY <1>6
<1>9. i \in 1 .. Len(gs[t]) /\ gs[t][i] = g
  BY <1>6
<1> QED
  BY <1>5, <1>7, <1>8, <1>9 DEF Replaced

\* What an object's place keeps when its heap changes elsewhere.
LEMMA StandsKept ==
  ASSUME NEW o, NEW p, NEW need, NEW rn, NEW mx, NEW seen, NEW lk, NEW h, Stands(o, p, need, rn, mx, seen, lk, h),
         NEW sees, seen => sees, NEW g, SameKind(h, g), g.mem, lk.offset \notin g.deletes,
         \E j \in 1 .. Len(g.subs) : g.subs[j] = Sub(o, lk.offset, lk.size),
         \A b \in lk.offset .. (lk.offset + lk.size - 1) : g.bytes[b] = h.bytes[b]
  PROVE  Stands(o, p, need, rn, mx, sees, lk, g)
BY DEF Stands, SameKind

LEMMA EnteredKept ==
  ASSUME NEW lk, NEW ll, NEW h \in HeapRecords, NEW r, EnteredIn(lk, h, r),
         \A q \in Objects : lk[q].home = r => ll[q].home = r /\ ll[q].offset = lk[q].offset /\ ll[q].size = lk[q].size
  PROVE  EnteredIn(ll, h, r)
<1>1. \A k \in 1 .. Len(h.subs) : h.subs[k].obj \in Objects
  BY HeapTypes
<1> QED
  BY <1>1 DEF EnteredIn

LEMMA LocatedKept ==
  ASSUME plan' = plan, run' = run, mixed' = mixed, leader' = leader, dedicated' = dedicated,
         NEW q \in Objects, lookup'[q] = lookup[q], Located(q), q \in inspected => q \in inspected',
         leader[q] # 0 => home'[leader[q]] = home[leader[q]],
         InHeaps(heaps', lookup[q].home), HeapIn(heaps', lookup[q].home) = HeapIn(heaps, lookup[q].home)
  PROVE  Located(q)'
<1>1. Needs(q)' = Needs(q) /\ RelativeOffset(q)' = RelativeOffset(q)
  BY DeviceKept
<1>2. CASE lookup[q].alias
  BY <1>1, <1>2 DEF Located, Aliases
<1>3. CASE ~lookup[q].alias
  <2>1. StandsAlone(q)
    BY <1>3 DEF Located
  <2>2. PICK h : h = HeapIn(heaps, lookup[q].home)
    OBVIOUS
  <2>3. Stands(q, plan[q], Needs(q), run, mixed, q \in inspected, lookup[q], h) /\ leader[q] = 0
    BY <2>1, <2>2 DEF StandsAlone
  <2>4. Stands(q, plan[q], Needs(q), run, mixed, q \in inspected', lookup[q], h)
    BY <2>3 DEF Stands
  <2>5. StandsAlone(q)'
    BY <1>1, <2>2, <2>3, <2>4 DEF StandsAlone
  <2> QED
    BY <1>1, <1>3, <2>5 DEF Located
<1> QED
  BY <1>2, <1>3

LEMMA GroupsKept ==
  ASSUME plan' = plan, run' = run, mixed' = mixed, leader' = leader, dedicated' = dedicated, GroupsHome,
         NEW l \in Objects, home'[l] = home[l], home[l] # NoHome,
         \A r : InHeaps(heaps, r) =>
           /\ InHeaps(heaps', r)
           /\ HeapIn(heaps, r).kind = "alias" /\ HeapIn(heaps, r).deletes = {} => HeapIn(heaps', r) = HeapIn(heaps, r)
  PROVE  /\ InHeaps(heaps, home[l])' /\ GroupPossible(l)' /\ (Members(l) # {})'
         /\ GroupHeap(l, GroupSize(l), GroupReqs(l), Members(l), run, HeapIn(heaps, home[l]))'
<1>1. /\ InHeaps(heaps, home[l]) /\ GroupPossible(l) /\ Members(l) # {}
      /\ GroupHeap(l, GroupSize(l), GroupReqs(l), Members(l), run, HeapIn(heaps, home[l]))
  BY DEF GroupsHome
<1>2. Members(l)' = Members(l) /\ GroupReqs(l)' = GroupReqs(l) /\ GroupSize(l)' = GroupSize(l)
  BY DeviceKept
<1>3. HeapIn(heaps, home[l]).kind = "alias" /\ HeapIn(heaps, home[l]).deletes = {}
  BY <1>1 DEF GroupHeap
<1>4. HeapIn(heaps', home[l]) = HeapIn(heaps, home[l]) /\ InHeaps(heaps', home[l])
  BY <1>1, <1>3
<1>5. GroupPossible(l)'
  <2>1. \A o : Needs(o)' = Needs(o) /\ RelativeOffset(o)' = RelativeOffset(o)
    BY DeviceKept
  <2> QED
    BY <1>1, <1>2, <2>1 DEF GroupPossible
<1> QED
  BY <1>1, <1>2, <1>4, <1>5

LEMMA LedKept ==
  ASSUME Led, plan' = plan, leader' = leader
  PROVE  Led'
BY DEF Led

\* A heap just allocated.
IsNew(g, o, size, type, tiling, addr, kind, fill) ==
  /\ g \in HeapRecords /\ HeapSound(g) /\ g.mem /\ g.deletes = {} /\ g.subs = <<Sub(o, 0, size)>>
  /\ g.type = type /\ g.tiling = tiling /\ g.addr = addr /\ g.kind = kind
  /\ (kind # "shared" => g.total = size) /\ \A b \in 0 .. (g.total - 1) : g.bytes[b] = fill

NewArgs(o, size, type, flags, tiling, addr, kind, fill) ==
  /\ o \in Objects /\ size \in Nat \ {0} /\ type \in Nat /\ flags \in SUBSET Flags
  /\ tiling \in {"linear", "optimal"} /\ addr \in BOOLEAN /\ kind \in {"shared", "dedicated", "alias"} /\ fill \in Int

LEMMA NewHeapFacts ==
  ASSUME NEW o, NEW size, NEW type, NEW flags, NEW tiling, NEW addr, NEW kind, NEW fill,
         NewArgs(o, size, type, flags, tiling, addr, kind, fill)
  PROVE  IsNew(NewHeap(o, size, type, flags, tiling, addr, kind, fill), o, size, type, tiling, addr, kind, fill)
<1> USE DEF NewArgs
<1>0. PICK g : g = NewHeap(o, size, type, flags, tiling, addr, kind, fill)
  OBVIOUS
<1>1. PICK total \in Nat : total >= size /\ total = IF kind = "shared" THEN Max({MinHeap, size}) ELSE size
  <2>1. MinHeap \in Nat
    BY SuballocatorAssumption
  <2>2. \E x \in {MinHeap, size} : \A y \in {MinHeap, size} : x >= y
    BY <2>1
  <2>3. Max({MinHeap, size}) \in {MinHeap, size} /\ \A y \in {MinHeap, size} : Max({MinHeap, size}) >= y
    BY <2>2 DEF Max
  <2> QED
    BY <2>1, <2>3
<1>2. PICK s \in SubRecords : s = Sub(o, 0, size)
  BY DEF Sub, SubRecords
<1>3. PICK subs \in Seq(SubRecords) : subs = <<s>> /\ Len(subs) = 1 /\ subs[1] = s
  BY OneList
<1>4. PICK bytes : bytes = [b \in 0 .. (total - 1) |-> fill]
  OBVIOUS
<1>5. bytes \in [0 .. (total - 1) -> Int] /\ \A b \in 0 .. (total - 1) : bytes[b] = fill
  BY <1>4
<1>6. bytes \in Fills
  BY <1>5 DEF Fills
<1>7. g = [mem |-> TRUE, total |-> total, free |-> total - size, type |-> type, flags |-> flags,
           tiling |-> tiling, addr |-> addr, kind |-> kind, subs |-> subs, deletes |-> {}, bytes |-> bytes]
  BY <1>0, <1>1, <1>2, <1>3, <1>4 DEF NewHeap
<1>8. total - size \in Nat
  BY <1>1
<1>9. g \in HeapRecords
  BY <1>6, <1>7, <1>8 DEF HeapRecords
<1>10. s.offset = 0 /\ s.size = size /\ End(s) = size
  BY <1>2 DEF Sub, End
<1>11. Used(subs) = size
  <2>1. subs = Append(<<>>, s)
    BY <1>3, OneList
  <2>2. Used(Append(<<>>, s)) = Used(<<>>) + s.size
    BY EmptyList, UsedAppend
  <2> QED
    BY <1>10, <2>1, <2>2, UsedEmpty
<1>12. Len(subs) = 1 /\ subs[1] = s
  BY <1>3
<1>15. g.subs = subs /\ g.total = total /\ g.free = total - size /\ g.bytes = bytes
  BY <1>7
<1>13. Sorted(subs)
  BY <1>12 DEF Sorted
<1>14. HeapSound(g)
  <2>1. g.subs = subs /\ g.total = total /\ g.free = total - size /\ g.bytes = bytes
    BY <1>15
  <2>2. \A k \in 1 .. Len(g.subs) : End(g.subs[k]) <= g.total
    <3>1. \A k \in 1 .. 1 : subs[k] = s
      BY <1>12
    <3>2. size <= total
      BY <1>1
    <3> QED
      BY <1>10, <1>12, <2>1, <3>1, <3>2
  <2>3. g.free + Used(g.subs) = g.total
    BY <1>1, <1>11, <2>1
  <2>4. DOMAIN g.bytes = 0 .. (g.total - 1)
    BY <1>4, <2>1
  <2> QED
    BY <1>13, <2>1, <2>2, <2>3, <2>4 DEF HeapSound
<1>16. g.mem /\ g.deletes = {} /\ g.type = type /\ g.tiling = tiling /\ g.addr = addr /\ g.kind = kind
  BY <1>7
<1>17. g.subs = <<Sub(o, 0, size)>>
  BY <1>2, <1>3, <1>15
<1>18. \A b \in 0 .. (g.total - 1) : g.bytes[b] = fill
  BY <1>5, <1>15
<1>19. kind # "shared" => g.total = size
  BY <1>1, <1>15
<1> QED
  BY <1>0, <1>9, <1>14, <1>16, <1>17, <1>18, <1>19 DEF IsNew

LEMMA LifecycleKept ==
  ASSUME Lifecycle, state = "live", state' = "live",
         plan' = plan, run' = run, mixed' = mixed, leader' = leader, dedicated' = dedicated,
         \A o \in Objects : stage'[o] = "bound" <=> lookup'[o].home # NoHome
  PROVE  Lifecycle'
<1>1. CanPrepare' = CanPrepare /\ Dedicated' = Dedicated
  BY DeviceKept
<1> QED
  BY <1>1 DEF Lifecycle

LEMMA WalkingKept ==
  ASSUME Walking, plan' = plan, run' = run, mixed' = mixed, leader' = leader, dedicated' = dedicated,
         \A t \in Threads : \/ pc'[t] = Idle
                            \/ /\ pc'[t].obj = pc[t].obj /\ pc[t].obj # 0 /\ pc'[t].at > 0
                               /\ stage'[pc[t].obj] = "new"
  PROVE  Walking'
<1>1. \A o : MemoryType(o)' = MemoryType(o) /\ WantsDedicated(o)' = WantsDedicated(o)
  BY DeviceKept
<1>2. Idle.obj = 0
  BY DEF Idle
<1>3. ASSUME NEW t \in Threads PROVE Walks(t)' /\ (pc'[t].obj = 0 => pc'[t] = Idle)
  <2>1. CASE pc'[t] = Idle
    BY <1>2, <2>1 DEF Walks
  <2>2. CASE /\ pc'[t].obj = pc[t].obj /\ pc[t].obj # 0 /\ pc'[t].at > 0
             /\ stage'[pc[t].obj] = "new"
    <3>1. Walks(t)
      BY DEF Walking
    <3> QED
      BY <1>1, <2>2, <3>1 DEF Walks
  <2> QED
    BY <2>1, <2>2
<1>4. \A t, u \in Threads : pc'[t].obj = pc'[u].obj /\ pc'[t].obj # 0 => t = u
  BY <1>2 DEF Walking
<1> QED
  BY <1>3, <1>4 DEF Walking

LEMMA BoundFacts ==
  ASSUME NEW ref \in Refs, NEW off \in Nat, NEW size \in Nat, NEW alias \in BOOLEAN, NEW b, b = Bound(ref, off, size, alias)
  PROVE  /\ b \in LookupRecords /\ b.home = ref /\ b.offset = off /\ b.size = size
         /\ b.initialized = alias /\ b.alias = alias
BY DEF Bound, LookupRecords

LEMMA LookupTypes ==
  ASSUME Typed, NEW o \in Objects
  PROVE  /\ lookup[o] \in LookupRecords /\ lookup[o].home \in Refs /\ lookup[o].offset \in Nat /\ lookup[o].size \in Nat
         /\ lookup[o].initialized \in BOOLEAN /\ lookup[o].alias \in BOOLEAN
<1>1. lookup[o] \in LookupRecords
  BY DEF Typed
<1> QED
  BY <1>1 DEF LookupRecords

LEMMA OwnNewHeap ==
  ASSUME Typed, NEW o \in Objects, NEW type \in MemoryType(o), NEW kind \in {"shared", "dedicated"}, NEW g,
         g = NewHeap(o, Needs(o).size, type, PruneFlags(plan[o].flags), plan[o].tiling, plan[o].addr, kind, Junk)
  PROVE  /\ IsNew(g, o, Needs(o).size, type, plan[o].tiling, plan[o].addr, kind, Junk)
         /\ type \in Needs(o).types /\ Fits(run, type, PruneFlags(plan[o].flags)) /\ type \in Nat
<1>1. /\ Needs(o).types \in SUBSET Nat /\ plan[o].tiling \in {"linear", "optimal"} /\ plan[o].addr \in BOOLEAN
      /\ Needs(o).size \in Nat \ {0} /\ plan[o].flags \subseteq Flags
  BY PlanFacts
<1>2. type \in Needs(o).types /\ Fits(run, type, PruneFlags(plan[o].flags)) /\ type \in Nat
  BY <1>1, TypeChoiceFacts DEF MemoryType
<1>3. PruneFlags(plan[o].flags) \in SUBSET Flags
  BY <1>1 DEF PruneFlags
<1>4. kind \in {"shared", "dedicated", "alias"} /\ Junk \in Int
  BY DEF Junk
<1>5. IsNew(g, o, Needs(o).size, type, plan[o].tiling, plan[o].addr, kind, Junk)
  <2>1. NewArgs(o, Needs(o).size, type, PruneFlags(plan[o].flags), plan[o].tiling, plan[o].addr, kind, Junk)
    BY <1>1, <1>2, <1>3, <1>4 DEF NewArgs
  <2> QED
    BY <2>1, NewHeapFacts
<1> QED
  BY <1>2, <1>5

\* The object gets a heap of its own.
LEMMA OwnHeapStep ==
  ASSUME HeapInv, state = "live", state' = "live", NEW t \in Threads, NEW o \in Objects, NEW kind \in {"shared", "dedicated"},
         stage[o] = "new", leader[o] = 0, plan[o].want = "requires" /\ run => kind = "dedicated",
         OwnHeap(t, o, kind), UNCHANGED <<device, home, inspected>>,
         pc' \in [Threads -> [obj : Objects \cup {0}, at : Nat]],
         \A u \in Threads : pc'[u] = Idle \/ (pc'[u] = pc[u] /\ pc[u].obj # o)
  PROVE  HeapInv'
<1>1. plan' = plan /\ run' = run /\ mixed' = mixed /\ leader' = leader /\ dedicated' = dedicated /\ home' = home /\ inspected' = inspected
  BY DEF device
<1>2. Typed /\ Led /\ Lifecycle /\ Walking /\ HeapsOK /\ Entered /\ GroupsHome /\ Placed
  BY DEF HeapInv
<1>3. heaps \in HeapLists
  BY <1>2 DEF Typed, HeapLists
<1>4. PICK size \in Nat \ {0} : size = Needs(o).size
  BY <1>2, PlanFacts
<1>5. PICK n \in Nat : n = Len(heaps[t]) + 1
  BY <1>3, HeapsTyped
<1>6. PICK type \in MemoryType(o) :
        /\ heaps' = [heaps EXCEPT ![t] =
              Append(@, NewHeap(o, size, type, PruneFlags(plan[o].flags), plan[o].tiling, plan[o].addr, kind, Junk))]
        /\ lookup' = [lookup EXCEPT ![o] = Bound(<<t, Len(heaps[t]) + 1>>, 0, size, FALSE)]
        /\ stage' = [stage EXCEPT ![o] = "bound"]
  BY <1>4 DEF OwnHeap
<1>7. Needs(o).align \in Nat \ {0}
  BY <1>2, PlanFacts
<1>10. PICK g : g = NewHeap(o, size, type, PruneFlags(plan[o].flags), plan[o].tiling, plan[o].addr, kind, Junk)
  OBVIOUS
<1>8. type \in Needs(o).types /\ Fits(run, type, PruneFlags(plan[o].flags)) /\ type \in Nat
  BY <1>2, <1>4, <1>10, OwnNewHeap
<1>11. /\ g \in HeapRecords /\ HeapSound(g) /\ g.mem /\ g.deletes = {} /\ g.subs = <<Sub(o, 0, size)>>
       /\ g.type = type /\ g.tiling = plan[o].tiling /\ g.addr = plan[o].addr /\ g.kind = kind
  <2>1. IsNew(g, o, size, type, plan[o].tiling, plan[o].addr, kind, Junk)
    BY <1>2, <1>4, <1>10, OwnNewHeap
  <2> QED
    BY <2>1 DEF IsNew
<1>12. heaps' \in HeapLists /\ Grown(heaps, heaps', t, g)
  BY <1>3, <1>6, <1>10, <1>11, GrownFacts
<1>13. PICK r : r = <<t, n>>
  OBVIOUS
<1>14. r \in Refs /\ r # NoHome
  BY <1>13 DEF Refs, NoHome
<1>15. PICK b : b = Bound(r, 0, size, FALSE)
  OBVIOUS
<1>16. b \in LookupRecords /\ b.home = r /\ b.offset = 0 /\ b.size = size /\ b.initialized = FALSE /\ b.alias = FALSE
  BY <1>14, <1>15 DEF Bound, LookupRecords
<1>17. /\ lookup' \in [Objects -> LookupRecords] /\ lookup'[o] = b /\ \A q \in Objects : q # o => lookup'[q] = lookup[q]
  BY <1>2, <1>5, <1>6, <1>13, <1>15, <1>16 DEF Typed
<1>18. /\ stage' \in [Objects -> {"new", "bound", "freed"}] /\ stage'[o] = "bound" /\ \A q \in Objects : q # o => stage'[q] = stage[q]
  BY <1>2, <1>6 DEF Typed
<1>19. lookup[o].home = NoHome
  BY <1>2 DEF Lifecycle
<1>20. Typed'
  <2>1. heaps' \in [Threads -> Seq(HeapRecords)]
    BY <1>12 DEF HeapLists
  <2> QED
    BY <1>1, <1>2, <1>17, <1>18, <2>1 DEF Typed
<1>21. Led'
  BY <1>1, <1>2, LedKept
<1>22. Lifecycle'
  <2>1. \A q \in Objects : stage'[q] = "bound" <=> lookup'[q].home # NoHome
    BY <1>2, <1>14, <1>16, <1>17, <1>18 DEF Lifecycle
  <2> QED
    BY <1>1, <1>2, <2>1, LifecycleKept
<1>23. Walking'
  <2>1. ASSUME NEW u \in Threads, pc'[u] # Idle
        PROVE  pc'[u].obj = pc[u].obj /\ pc[u].obj # 0 /\ pc'[u].at > 0 /\ stage'[pc[u].obj] = "new"
    <3>1. pc'[u] = pc[u] /\ pc[u].obj # o /\ pc[u].obj # 0 /\ pc[u].obj \in Objects
      BY <1>2, <2>1 DEF Walking, Typed
    <3>2. Walks(u)
      BY <1>2 DEF Walking
    <3> QED
      BY <1>18, <3>1, <3>2 DEF Walks
  <2> QED
    BY <1>1, <1>2, <2>1, WalkingKept
<1>24. HeapsOK'
  <2> SUFFICES ASSUME NEW u \in Threads, NEW i \in 1 .. Len(heaps'[u]) PROVE HeapSound(heaps'[u][i])
    BY DEF HeapsOK
  <2>1. CASE i \in 1 .. Len(heaps[u]) /\ heaps'[u][i] = heaps[u][i]
    BY <1>2, <2>1 DEF HeapsOK
  <2>2. CASE u = t /\ i = n
    BY <1>5, <1>11, <1>12, <2>2 DEF Grown
  <2> QED
    BY <1>5, <1>12, <2>1, <2>2 DEF Grown
<1>25. Entered'
  <2> SUFFICES ASSUME NEW u \in Threads, NEW i \in 1 .. Len(heaps'[u]) PROVE EnteredIn(lookup', heaps'[u][i], <<u, i>>)
    BY DEF Entered
  <2>1. CASE i \in 1 .. Len(heaps[u]) /\ heaps'[u][i] = heaps[u][i]
    <3>1. EnteredIn(lookup, heaps[u][i], <<u, i>>) /\ heaps[u][i] \in HeapRecords
      BY <1>2, <1>3, <2>1, HeapsTyped DEF Entered
    <3>2. \A q \in Objects : lookup[q].home = <<u, i>> => q # o
      <4>1. <<u, i>> # NoHome
        BY DEF NoHome
      <4> QED
        BY <1>19, <4>1
    <3> QED
      BY <1>17, <2>1, <3>1, <3>2, EnteredKept, SMTT(30)
  <2>2. CASE u = t /\ i = n
    <3>1. heaps'[u][i] = g
      BY <1>5, <1>12, <2>2 DEF Grown
    <3>2. EnteredIn(lookup', g, r)
      BY <1>11, <1>16, <1>17 DEF EnteredIn, Sub
    <3> QED
      BY <1>13, <2>2, <3>1, <3>2
  <2> QED
    BY <1>5, <1>12, <2>1, <2>2 DEF Grown
<1>26. \A x : InHeaps(heaps, x) => InHeaps(heaps', x) /\ HeapIn(heaps', x) = HeapIn(heaps, x)
  BY <1>12 DEF Grown
<1>27. GroupsHome'
  BY <1>1, <1>2, <1>26, GroupsKept DEF GroupsHome
<1>28. Placed'
  <2> SUFFICES ASSUME NEW q \in Objects, lookup'[q].home # NoHome PROVE Located(q)'
    BY DEF Placed
  <2>1. CASE q # o
    <3>1. lookup'[q] = lookup[q] /\ Located(q)
      BY <1>2, <1>17, <2>1 DEF Placed
    <3>2. InHeaps(heaps, lookup[q].home)
      BY <3>1 DEF Located
    <3> QED
      BY <1>1, <1>26, <3>1, <3>2, LocatedKept
  <2>2. CASE q = o
    <3>1. InHeaps(heaps', r) /\ HeapIn(heaps', r) = g
      BY <1>5, <1>12, <1>13 DEF Grown, InHeaps, HeapIn
    <3>2. Stands(o, plan[o], Needs(o), run, mixed, o \in inspected, b, g)
      <4>1. 0 % Needs(o).align = 0
        BY <1>7
      <4>2. \E k \in 1 .. Len(g.subs) : g.subs[k] = Sub(o, b.offset, b.size)
        BY <1>11, <1>16
      <4> QED
        BY <1>8, <1>11, <1>16, <4>1, <4>2 DEF Stands
    <3>3. Needs(o)' = Needs(o)
      BY <1>1, DeviceKept
    <3>4. StandsAlone(o)'
      BY <1>1, <1>16, <1>17, <3>1, <3>2, <3>3 DEF StandsAlone
    <3> QED
      BY <1>4, <1>16, <1>17, <2>2, <3>1, <3>3, <3>4 DEF Located
  <2> QED
    BY <2>1, <2>2
<1> QED
  BY <1>20, <1>21, <1>22, <1>23, <1>24, <1>25, <1>27, <1>28 DEF HeapInv

LEMMA AddDedicatedStep ==
  ASSUME HeapInv, NEW t \in Threads, NEW o \in Objects, AddDedicated(t, o)
  PROVE  HeapInv'
<1>1. /\ state = "live" /\ state' = "live" /\ stage[o] = "new" /\ WantsDedicated(o) /\ o \notin Aliased
      /\ OwnHeap(t, o, "dedicated") /\ UNCHANGED <<device, home, inspected>> /\ pc' = pc
  BY DEF AddDedicated
<1>2. leader[o] = 0
  BY <1>1 DEF Aliased
<1>3. Typed /\ Walking
  BY DEF HeapInv
<1>4. pc' \in [Threads -> [obj : Objects \cup {0}, at : Nat]]
  BY <1>1, <1>3 DEF Typed
<1>5. ASSUME NEW u \in Threads PROVE pc'[u] = Idle \/ (pc'[u] = pc[u] /\ pc[u].obj # o)
  <2>1. Walks(u) /\ (pc[u].obj = 0 => pc[u] = Idle)
    BY <1>3 DEF Walking
  <2> QED
    BY <1>1, <2>1 DEF Walks
<1>6. "dedicated" \in {"shared", "dedicated"}
  OBVIOUS
<1> QED
  BY <1>1, <1>2, <1>4, <1>5, <1>6, OwnHeapStep

\* A thread that walks over its heaps.
LEMMA WalkerFacts ==
  ASSUME HeapInv, state = "live", NEW t \in Threads, pc[t] # Idle, NEW o, o = pc[t].obj
  PROVE  /\ o \in Objects /\ stage[o] = "new" /\ leader[o] = 0 /\ MemoryType(o) # {} /\ lookup[o].home = NoHome
         /\ ~(plan[o].want = "requires" /\ run) /\ pc[t].at \in Nat \ {0}
         /\ \A u \in Threads : u # t => pc[u].obj # o
<1>1. Typed /\ Walking /\ Lifecycle
  BY DEF HeapInv
<1>2. Walks(t) /\ (pc[t].obj = 0 => pc[t] = Idle)
  BY <1>1 DEF Walking
<1>3. o # 0 /\ o \in Objects /\ pc[t].at \in Nat
  BY <1>1, <1>2 DEF Typed
<1>4. /\ pc[t].at > 0 /\ stage[o] = "new" /\ leader[o] = 0 /\ MemoryType(o) # {} /\ ~WantsDedicated(o)
  BY <1>2, <1>3 DEF Walks
<1>5. \A u \in Threads : u # t => pc[u].obj # o
  BY <1>1, <1>3 DEF Walking
<1>6. lookup[o].home = NoHome
  BY <1>1, <1>3, <1>4 DEF Lifecycle
<1>7. ~(plan[o].want = "requires" /\ run)
  <2> SUFFICES ASSUME plan[o].want = "requires", run PROVE WantsDedicated(o)
    BY <1>4
  <2>1. CASE plan[o].kind = "session"
    BY <2>1 DEF WantsDedicated
  <2>2. CASE plan[o].kind # "session"
    <3>1. o \notin Aliased
      BY <1>4 DEF Aliased
    <3>2. dedicated = Dedicated
      BY <1>1 DEF Lifecycle
    <3>3. o \in Dedicated
      BY <1>3, <2>2, <3>1 DEF Dedicated
    <3> QED
      BY <2>2, <3>2, <3>3 DEF WantsDedicated
  <2> QED
    BY <2>1, <2>2
<1> QED
  BY <1>3, <1>4, <1>5, <1>6, <1>7

LEMMA NewSharedHeapStep ==
  ASSUME HeapInv, NEW t \in Threads, NewSharedHeap(t)
  PROVE  HeapInv'
<1>1. PICK o : o = pc[t].obj
  OBVIOUS
<1>2. /\ state = "live" /\ state' = "live" /\ pc[t] # Idle /\ OwnHeap(t, o, "shared")
      /\ UNCHANGED <<device, home, inspected>> /\ pc' = [pc EXCEPT ![t] = Idle]
  BY <1>1 DEF NewSharedHeap
<1>3. /\ o \in Objects /\ stage[o] = "new" /\ leader[o] = 0 /\ ~(plan[o].want = "requires" /\ run)
      /\ \A u \in Threads : u # t => pc[u].obj # o
  BY <1>1, <1>2, WalkerFacts
<1>4. pc \in [Threads -> [obj : Objects \cup {0}, at : Nat]]
  BY DEF HeapInv, Typed
<1>5. Idle \in [obj : Objects \cup {0}, at : Nat]
  BY DEF Idle
<1>6. pc' \in [Threads -> [obj : Objects \cup {0}, at : Nat]]
  BY <1>2, <1>4, <1>5
<1>7. \A u \in Threads : pc'[u] = Idle \/ (pc'[u] = pc[u] /\ pc[u].obj # o)
  BY <1>2, <1>3, <1>4
<1>8. "shared" \in {"shared", "dedicated"}
  OBVIOUS
<1> QED
  BY <1>2, <1>3, <1>6, <1>7, <1>8, OwnHeapStep

(***************************************************************************)
(* Alias groups.                                                           *)
(***************************************************************************)
LEMMA MaxFacts ==
  ASSUME NEW M, IsFiniteSet(M), M # {}, NEW v \in [M -> Int], NEW S, S = {v[x] : x \in M}
  PROVE  Max(S) \in S /\ \A y \in S : Max(S) >= y
<1>1. PICK x \in M : \A y \in M : v[x] >= v[y]
  BY Largest
<1>2. \E a \in S : \A b \in S : a >= b
  BY <1>1
<1> QED
  BY <1>2 DEF Max

LEMMA GroupFacts ==
  ASSUME Typed, Led, NEW l, l # 0, NEW o \in Members(l)
  PROVE  /\ o \in Objects /\ leader[o] = l /\ l \in Objects /\ RelativeOffset(o) \in Nat
         /\ GroupReqs(l).types \in SUBSET Nat /\ GroupReqs(l).types \subseteq Needs(o).types
         /\ plan[o].flags \subseteq GroupReqs(l).flags /\ GroupReqs(l).flags \in SUBSET Flags
         /\ (plan[o].addr => GroupReqs(l).addr) /\ GroupReqs(l).addr \in BOOLEAN
         /\ (run /\ plan[o].want = "requires" => GroupReqs(l).requires)
         /\ GroupSize(l) \in Nat \ {0} /\ RelativeOffset(o) + Needs(o).size <= GroupSize(l)
<1>1. \A q \in Members(l) : q \in Objects /\ leader[q] = l
  BY DEF Members
<1>2. l \in Objects
  BY <1>1 DEF Typed
<1>3. ASSUME NEW q \in Members(l) PROVE RelativeOffset(q) \in Nat /\ Needs(q).size \in Nat \ {0} /\ Needs(q).types \in SUBSET Nat /\ plan[q].flags \subseteq Flags
  <2>1. plan[l].offset <= plan[q].offset
    BY <1>1, <1>3 DEF Led
  <2>2. plan[l].offset \in Nat /\ plan[q].offset \in Nat
    BY <1>1, <1>2, <1>3, PlanFacts
  <2>3. RelativeOffset(q) \in Nat
    BY <1>1, <1>3, <2>1, <2>2 DEF RelativeOffset
  <2>4. Needs(q).size \in Nat \ {0} /\ Needs(q).types \in SUBSET Nat /\ plan[q].flags \subseteq Flags
    BY <1>1, <1>3, PlanFacts
  <2> QED
    BY <2>3, <2>4
<1>4. PICK M : M = Members(l)
  OBVIOUS
<1>5. IsFiniteSet(M) /\ M # {} /\ o \in M
  <2>1. M \subseteq Objects
    BY <1>1, <1>4
  <2> QED
    BY <1>4, <2>1, SuballocatorAssumption, FS_Subset
<1>6. PICK v : v = [q \in M |-> RelativeOffset(q) + Needs(q).size]
  OBVIOUS
<1>7. ASSUME NEW q \in M PROVE v[q] = RelativeOffset(q) + Needs(q).size /\ v[q] \in Nat \ {0}
  <2>1. PICK a \in Nat : a = RelativeOffset(q)
    BY <1>3, <1>4
  <2>2. PICK b \in Nat \ {0} : b = Needs(q).size
    BY <1>3, <1>4
  <2>3. v[q] = a + b
    BY <1>6, <2>1, <2>2
  <2> QED
    BY <1>6, <2>3
<1>8. v \in [M -> Int]
  BY <1>6, <1>7
<1>9. PICK S : S = {v[x] : x \in M}
  OBVIOUS
<1>10. GroupSize(l) = Max(S)
  <2>1. S = {RelativeOffset(q) + Needs(q).size : q \in Members(l)}
    BY <1>4, <1>7, <1>9
  <2> QED
    BY <2>1 DEF GroupSize
<1>11. Max(S) \in S /\ \A y \in S : Max(S) >= y
  BY <1>5, <1>8, <1>9, MaxFacts
<1>12. \A y \in S : y \in Nat \ {0}
  BY <1>7, <1>9
<1>13. v[o] \in S /\ v[o] = RelativeOffset(o) + Needs(o).size
  BY <1>5, <1>7, <1>9
<1>14. GroupSize(l) \in Nat \ {0} /\ RelativeOffset(o) + Needs(o).size <= GroupSize(l)
  <2>1. PICK m \in Nat \ {0} : m = Max(S)
    BY <1>11, <1>12
  <2>2. v[o] \in Nat /\ m >= v[o]
    BY <1>11, <1>12, <1>13, <2>1
  <2> QED
    BY <1>10, <1>13, <2>1, <2>2
<1>15. /\ GroupReqs(l).types = {i \in UNION {Needs(q).types : q \in Members(l)} : \A q \in Members(l) : i \in Needs(q).types}
       /\ GroupReqs(l).flags = UNION {plan[q].flags : q \in Members(l)}
       /\ GroupReqs(l).addr = (\E q \in Members(l) : plan[q].addr)
       /\ GroupReqs(l).requires = (run /\ \E q \in Members(l) : plan[q].want = "requires")
  BY DEF GroupReqs, Merged
<1>16. /\ GroupReqs(l).types \in SUBSET Nat /\ GroupReqs(l).types \subseteq Needs(o).types
       /\ plan[o].flags \subseteq GroupReqs(l).flags /\ GroupReqs(l).flags \in SUBSET Flags
  BY <1>3, <1>15
<1>17. /\ (plan[o].addr => GroupReqs(l).addr) /\ GroupReqs(l).addr \in BOOLEAN
       /\ (run /\ plan[o].want = "requires" => GroupReqs(l).requires)
  BY <1>15
<1> QED
  BY <1>1, <1>2, <1>3, <1>14, <1>16, <1>17

LEMMA GroupNewHeap ==
  ASSUME Typed, Led, NEW l \in Objects, Members(l) # {}, NEW type \in TypeChoice(GroupReqs(l).types, PruneFlags(GroupReqs(l).flags)),
         NEW g, g = NewHeap(l, GroupSize(l), type, PruneFlags(GroupReqs(l).flags), plan[l].tiling, GroupReqs(l).addr, "alias",
                            IF HostVisible(type) THEN Zero ELSE Junk)
  PROVE  /\ g \in HeapRecords /\ HeapSound(g)
         /\ GroupHeap(l, GroupSize(l), GroupReqs(l), Members(l), run, g)
<1>1. PICK o \in Members(l) : TRUE
  OBVIOUS
<1>2. l # 0
  BY SuballocatorAssumption
<1>3. /\ GroupReqs(l).types \in SUBSET Nat /\ GroupReqs(l).flags \in SUBSET Flags /\ GroupReqs(l).addr \in BOOLEAN
      /\ GroupSize(l) \in Nat \ {0}
  BY <1>2, GroupFacts
<1>4. type \in GroupReqs(l).types /\ Fits(run, type, PruneFlags(GroupReqs(l).flags)) /\ type \in Nat
  BY <1>3, TypeChoiceFacts
<1>5. PICK fill \in Int : fill = IF HostVisible(type) THEN Zero ELSE Junk
  BY DEF Zero, Junk
<1>6. PruneFlags(GroupReqs(l).flags) \in SUBSET Flags /\ plan[l].tiling \in {"linear", "optimal"}
  BY <1>3, PlanFacts DEF PruneFlags
<1>7. NewArgs(l, GroupSize(l), type, PruneFlags(GroupReqs(l).flags), plan[l].tiling, GroupReqs(l).addr, "alias", fill)
  BY <1>3, <1>4, <1>6 DEF NewArgs
<1>8. IsNew(g, l, GroupSize(l), type, plan[l].tiling, GroupReqs(l).addr, "alias", fill)
  BY <1>5, <1>7, NewHeapFacts
<1>9. /\ g \in HeapRecords /\ HeapSound(g) /\ g.mem /\ g.deletes = {} /\ g.subs = <<Sub(l, 0, GroupSize(l))>>
      /\ g.type = type /\ g.addr = GroupReqs(l).addr /\ g.kind = "alias" /\ g.total = GroupSize(l)
      /\ \A b \in 0 .. (GroupSize(l) - 1) : g.bytes[b] = fill
  BY <1>8 DEF IsNew
<1>10. Visible(run, type) => fill = Zero
  BY <1>5 DEF Visible, HostVisible
<1> QED
  BY <1>4, <1>9, <1>10 DEF GroupHeap

LEMMA AddAliasedStep ==
  ASSUME HeapInv, NEW t \in Threads, NEW o \in Objects, AddAliased(t, o)
  PROVE  HeapInv'
<1>1. PICK l : l = leader[o]
  OBVIOUS
<1>2. PICK fresh \in BOOLEAN : fresh = (home[l] = NoHome)
  OBVIOUS
<1>3. PICK ref : ref = IF fresh THEN <<t, Len(heaps[t]) + 1>> ELSE home[l]
  OBVIOUS
<1>4. /\ state = "live" /\ state' = "live" /\ stage[o] = "new" /\ o \in Aliased
      /\ lookup' = [lookup EXCEPT ![o] = Bound(ref, RelativeOffset(o), Needs(o).size, TRUE)]
      /\ stage' = [stage EXCEPT ![o] = "bound"] /\ pc' = pc
      /\ UNCHANGED <<device, inspected>>
  BY <1>1, <1>2, <1>3 DEF AddAliased
<1>5. plan' = plan /\ run' = run /\ mixed' = mixed /\ leader' = leader /\ dedicated' = dedicated /\ inspected' = inspected
  BY <1>4 DEF device
<1>6. Typed /\ Led /\ Lifecycle /\ Walking /\ HeapsOK /\ Entered /\ GroupsHome /\ Placed
  BY DEF HeapInv
<1>7. heaps \in HeapLists
  BY <1>6 DEF Typed, HeapLists
<1>8. l # 0 /\ o \in Members(l) /\ l \in Groups
  BY <1>1, <1>4 DEF Aliased, Members, Groups
<1>9. l \in Objects /\ RelativeOffset(o) \in Nat /\ Needs(o).size \in Nat
  <2>1. Needs(o).size \in Nat
    BY <1>6, PlanFacts
  <2> QED
    BY <1>6, <1>8, <2>1, GroupFacts
<1>10. GroupPossible(l)
  BY <1>4, <1>6, <1>8 DEF Lifecycle, CanPrepare, GroupPossible
<1>11. /\ heaps' \in HeapLists /\ HeapsOK' /\ home' \in [Objects -> Refs]
       /\ \A x : InHeaps(heaps, x) => InHeaps(heaps', x) /\ HeapIn(heaps', x) = HeapIn(heaps, x)
       /\ \A u \in Threads : \A i \in 1 .. Len(heaps'[u]) :
            \/ i \in 1 .. Len(heaps[u]) /\ heaps'[u][i] = heaps[u][i]
            \/ heaps'[u][i].kind = "alias"
       /\ InHeaps(heaps', ref) /\ home'[l] = ref
       /\ \A k \in Objects : k # l => home'[k] = home[k]
       /\ (home[l] # NoHome => home'[l] = home[l])
       /\ GroupHeap(l, GroupSize(l), GroupReqs(l), Members(l), run, HeapIn(heaps', ref))
  <2>1. CASE ~fresh
    <3>1. heaps' = heaps /\ home' = home /\ ref = home[l] /\ home[l] # NoHome
      BY <1>1, <1>2, <1>3, <2>1 DEF AddAliased
    <3>2. InHeaps(heaps, ref) /\ GroupHeap(l, GroupSize(l), GroupReqs(l), Members(l), run, HeapIn(heaps, ref))
      BY <1>6, <1>9, <3>1 DEF GroupsHome
    <3>3. HeapsOK'
      BY <1>6, <3>1 DEF HeapsOK
    <3> QED
      BY <1>6, <1>7, <3>1, <3>2, <3>3 DEF Typed
  <2>2. CASE fresh
    <3>1. PICK type \in TypeChoice(GroupReqs(l).types, PruneFlags(GroupReqs(l).flags)) :
            heaps' = [heaps EXCEPT ![t] =
                      Append(@, NewHeap(l, GroupSize(l), type, PruneFlags(GroupReqs(l).flags), plan[l].tiling, GroupReqs(l).addr, "alias",
                                        IF HostVisible(type) THEN Zero ELSE Junk))]
      BY <1>1, <1>2, <2>2 DEF AddAliased
    <3>2. home' = [home EXCEPT ![l] = ref] /\ ref = <<t, Len(heaps[t]) + 1>> /\ home[l] = NoHome
      BY <1>1, <1>2, <1>3, <2>2 DEF AddAliased
    <3>3. PICK g : g = NewHeap(l, GroupSize(l), type, PruneFlags(GroupReqs(l).flags), plan[l].tiling, GroupReqs(l).addr, "alias",
                                IF HostVisible(type) THEN Zero ELSE Junk)
      OBVIOUS
    <3>4. g \in HeapRecords /\ HeapSound(g) /\ GroupHeap(l, GroupSize(l), GroupReqs(l), Members(l), run, g)
      BY <1>6, <1>8, <1>9, <3>3, GroupNewHeap
    <3>5. heaps' \in HeapLists /\ Grown(heaps, heaps', t, g)
      BY <1>7, <3>1, <3>3, <3>4, GrownFacts
    <3>6. Len(heaps[t]) \in Nat
      BY <1>7, HeapsTyped
    <3>7. ref \in Refs
      BY <3>2, <3>6 DEF Refs
    <3>8. InHeaps(heaps', ref) /\ HeapIn(heaps', ref) = g
      BY <3>2, <3>5 DEF Grown, InHeaps, HeapIn
    <3>9. g.kind = "alias"
      BY <3>4 DEF GroupHeap
    <3>10. HeapsOK'
      BY <1>6, <3>4, <3>5 DEF HeapsOK, Grown
    <3>11. home' \in [Objects -> Refs] /\ home'[l] = ref /\ \A k \in Objects : k # l => home'[k] = home[k]
      BY <1>6, <1>9, <3>2, <3>7 DEF Typed
    <3>12. \A x : InHeaps(heaps, x) => InHeaps(heaps', x) /\ HeapIn(heaps', x) = HeapIn(heaps, x)
      BY <3>5 DEF Grown
    <3>13. \A u \in Threads : \A i \in 1 .. Len(heaps'[u]) :
            \/ i \in 1 .. Len(heaps[u]) /\ heaps'[u][i] = heaps[u][i]
            \/ heaps'[u][i].kind = "alias"
      BY <3>5, <3>9 DEF Grown
    <3> QED
      BY <3>2, <3>4, <3>5, <3>8, <3>10, <3>11, <3>12, <3>13
  <2> QED
    BY <2>1, <2>2
<1>12. ref \in Refs /\ ref # NoHome
  BY <1>11, InHeapsFacts
<1>13. PICK b : b = Bound(ref, RelativeOffset(o), Needs(o).size, TRUE)
  OBVIOUS
<1>14. b \in LookupRecords /\ b.home = ref /\ b.offset = RelativeOffset(o) /\ b.size = Needs(o).size /\ b.initialized = TRUE /\ b.alias = TRUE
  BY <1>9, <1>12, <1>13 DEF Bound, LookupRecords
<1>15. /\ lookup' \in [Objects -> LookupRecords] /\ lookup'[o] = b /\ \A q \in Objects : q # o => lookup'[q] = lookup[q]
  BY <1>4, <1>6, <1>13, <1>14 DEF Typed
<1>16. /\ stage' \in [Objects -> {"new", "bound", "freed"}] /\ stage'[o] = "bound" /\ \A q \in Objects : q # o => stage'[q] = stage[q]
  BY <1>4, <1>6 DEF Typed
<1>17. lookup[o].home = NoHome
  BY <1>4, <1>6 DEF Lifecycle
<1>20. Typed'
  <2>1. heaps' \in [Threads -> Seq(HeapRecords)]
    BY <1>11 DEF HeapLists
  <2> QED
    BY <1>4, <1>5, <1>6, <1>11, <1>15, <1>16, <2>1 DEF Typed
<1>21. Led'
  BY <1>5, <1>6, LedKept
<1>22. Lifecycle'
  <2>1. \A q \in Objects : stage'[q] = "bound" <=> lookup'[q].home # NoHome
    BY <1>4, <1>6, <1>12, <1>14, <1>15, <1>16 DEF Lifecycle
  <2> QED
    BY <1>4, <1>5, <1>6, <2>1, LifecycleKept
<1>23. Walking'
  <2>1. ASSUME NEW u \in Threads, pc'[u] # Idle
        PROVE  pc'[u].obj = pc[u].obj /\ pc[u].obj # 0 /\ pc'[u].at > 0 /\ stage'[pc[u].obj] = "new"
    <3>1. pc'[u] = pc[u] /\ pc[u].obj # 0 /\ pc[u].obj \in Objects
      BY <1>4, <1>6, <2>1 DEF Walking, Typed
    <3>2. Walks(u)
      BY <1>6 DEF Walking
    <3>3. pc[u].obj # o
      BY <1>1, <1>8, <3>1, <3>2 DEF Walks
    <3> QED
      BY <1>16, <3>1, <3>2, <3>3 DEF Walks
  <2> QED
    BY <1>5, <1>6, <2>1, WalkingKept
<1>25. Entered'
  <2> SUFFICES ASSUME NEW u \in Threads, NEW i \in 1 .. Len(heaps'[u]) PROVE EnteredIn(lookup', heaps'[u][i], <<u, i>>)
    BY DEF Entered
  <2>1. CASE i \in 1 .. Len(heaps[u]) /\ heaps'[u][i] = heaps[u][i]
    <3>1. EnteredIn(lookup, heaps[u][i], <<u, i>>) /\ heaps[u][i] \in HeapRecords
      BY <1>6, <1>7, <2>1, HeapsTyped DEF Entered
    <3>2. \A q \in Objects : lookup[q].home = <<u, i>> => q # o
      <4>1. <<u, i>> # NoHome
        BY DEF NoHome
      <4> QED
        BY <1>17, <4>1
    <3> QED
      BY <1>15, <2>1, <3>1, <3>2, EnteredKept
  <2>2. CASE heaps'[u][i].kind = "alias"
    BY <2>2 DEF EnteredIn
  <2> QED
    BY <1>11, <2>1, <2>2
<1>27. GroupsHome'
  <2> SUFFICES ASSUME NEW k \in Objects, home'[k] # NoHome
               PROVE  /\ InHeaps(heaps, home[k])' /\ GroupPossible(k)' /\ (Members(k) # {})'
                      /\ GroupHeap(k, GroupSize(k), GroupReqs(k), Members(k), run, HeapIn(heaps, home[k]))'
    BY DEF GroupsHome
  <2>1. CASE k # l
    <3>1. home'[k] = home[k] /\ home[k] # NoHome
      BY <1>11, <2>1
    <3> QED
      BY <1>5, <1>6, <1>11, <3>1, GroupsKept
  <2>2. CASE k = l
    <3>1. Members(l)' = Members(l) /\ GroupReqs(l)' = GroupReqs(l) /\ GroupSize(l)' = GroupSize(l)
      BY <1>5, DeviceKept
    <3>2. \A q : Needs(q)' = Needs(q) /\ RelativeOffset(q)' = RelativeOffset(q)
      BY <1>5, DeviceKept
    <3>3. GroupPossible(l)'
      BY <1>10, <3>1, <3>2 DEF GroupPossible
    <3> QED
      BY <1>5, <1>8, <1>11, <2>2, <3>1, <3>3
  <2> QED
    BY <2>1, <2>2
<1>28. Placed'
  <2> SUFFICES ASSUME NEW q \in Objects, lookup'[q].home # NoHome PROVE Located(q)'
    BY DEF Placed
  <2>1. CASE q # o
    <3>1. lookup'[q] = lookup[q] /\ Located(q) /\ lookup[q].home # NoHome
      BY <1>6, <1>15, <2>1 DEF Placed
    <3>2. InHeaps(heaps, lookup[q].home)
      BY <3>1 DEF Located
    <3>3. leader[q] # 0 => home'[leader[q]] = home[leader[q]]
      <4> SUFFICES ASSUME leader[q] # 0 PROVE home'[leader[q]] = home[leader[q]]
        OBVIOUS
      <4>1. home[leader[q]] = lookup[q].home
        BY <3>1 DEF Located, Aliases, StandsAlone
      <4>2. leader[q] \in Objects
        BY <1>6 DEF Typed
      <4> QED
        BY <1>11, <3>1, <4>1, <4>2
    <3> QED
      BY <1>5, <1>11, <3>1, <3>2, <3>3, LocatedKept
  <2>2. CASE q = o
    <3>1. Needs(o)' = Needs(o) /\ RelativeOffset(o)' = RelativeOffset(o)
      BY <1>5, DeviceKept
    <3>2. Aliases(o)'
      BY <1>1, <1>5, <1>8, <1>11, <1>14, <1>15, <3>1 DEF Aliases
    <3> QED
      BY <1>11, <1>14, <1>15, <2>2, <3>1, <3>2 DEF Located
  <2> QED
    BY <2>1, <2>2
<1> QED
  BY <1>11, <1>20, <1>21, <1>22, <1>23, <1>25, <1>27, <1>28 DEF HeapInv

(***************************************************************************)
(* Steps that leave the heaps alone.                                       *)
(***************************************************************************)
LEMMA PlacesKept ==
  ASSUME HeapInv, UNCHANGED <<device, heaps, lookup, home, inspected>>
  PROVE  Led' /\ HeapsOK' /\ Entered' /\ GroupsHome' /\ Placed'
<1>1. /\ plan' = plan /\ run' = run /\ mixed' = mixed /\ leader' = leader /\ dedicated' = dedicated
      /\ heaps' = heaps /\ lookup' = lookup /\ home' = home /\ inspected' = inspected
  BY DEF device
<1>2. Typed /\ Led /\ HeapsOK /\ Entered /\ GroupsHome /\ Placed
  BY DEF HeapInv
<1>3. Led'
  BY <1>1, <1>2, LedKept
<1>4. HeapsOK' /\ Entered'
  BY <1>1, <1>2 DEF HeapsOK, Entered
<1>5. GroupsHome'
  BY <1>1, <1>2, GroupsKept DEF GroupsHome
<1>6. Placed'
  <2> SUFFICES ASSUME NEW q \in Objects, lookup'[q].home # NoHome PROVE Located(q)'
    BY DEF Placed
  <2>1. Located(q)
    BY <1>1, <1>2 DEF Placed
  <2>2. InHeaps(heaps, lookup[q].home)
    BY <2>1 DEF Located
  <2> QED
    BY <1>1, <2>1, <2>2, LocatedKept
<1> QED
  BY <1>3, <1>4, <1>5, <1>6

LEMMA AddSharedStep ==
  ASSUME HeapInv, NEW t \in Threads, NEW o \in Objects, AddShared(t, o)
  PROVE  HeapInv'
<1>1. /\ state = "live" /\ state' = "live" /\ pc[t] = Idle /\ stage[o] = "new" /\ ~WantsDedicated(o) /\ o \notin Aliased
      /\ \A u \in Threads : pc[u].obj # o
      /\ MemoryType(o) # {} /\ pc' = [pc EXCEPT ![t] = [obj |-> o, at |-> 1]]
      /\ UNCHANGED <<device, heaps, lookup, home, stage, inspected>>
  BY DEF AddShared
<1>2. plan' = plan /\ run' = run /\ mixed' = mixed /\ leader' = leader /\ dedicated' = dedicated
  BY <1>1 DEF device
<1>3. Typed /\ Lifecycle /\ Walking
  BY DEF HeapInv
<1>4. Led' /\ HeapsOK' /\ Entered' /\ GroupsHome' /\ Placed'
  BY <1>1, PlacesKept
<1>5. [obj |-> o, at |-> 1] \in [obj : Objects \cup {0}, at : Nat]
  OBVIOUS
<1>6. /\ pc' \in [Threads -> [obj : Objects \cup {0}, at : Nat]]
      /\ pc'[t] = [obj |-> o, at |-> 1] /\ \A u \in Threads : u # t => pc'[u] = pc[u]
  BY <1>1, <1>3, <1>5 DEF Typed
<1>7. Typed'
  BY <1>1, <1>2, <1>3, <1>6 DEF Typed
<1>8. Lifecycle'
  <2>1. \A q \in Objects : stage'[q] = "bound" <=> lookup'[q].home # NoHome
    BY <1>1, <1>3 DEF Lifecycle
  <2> QED
    BY <1>1, <1>2, <1>3, <2>1, LifecycleKept
<1>9. Walking'
  <2>1. \A q : MemoryType(q)' = MemoryType(q) /\ WantsDedicated(q)' = WantsDedicated(q)
    BY <1>2, DeviceKept
  <2>2. o # 0 /\ leader[o] = 0 /\ pc'[t].obj = o /\ pc'[t].at = 1
    BY <1>1, <1>6, SuballocatorAssumption DEF Aliased
  <2>3. ASSUME NEW u \in Threads PROVE Walks(u)' /\ (pc'[u].obj = 0 => pc'[u] = Idle)
    <3>1. CASE u = t
      BY <1>1, <1>2, <2>1, <2>2, <3>1 DEF Walks
    <3>2. CASE u # t
      <4>1. Walks(u) /\ (pc[u].obj = 0 => pc[u] = Idle) /\ pc'[u] = pc[u]
        BY <1>3, <1>6, <3>2 DEF Walking
      <4> QED
        BY <1>1, <1>2, <2>1, <4>1 DEF Walks
    <3> QED
      BY <3>1, <3>2
  <2>4. \A u, v \in Threads : pc'[u].obj = pc'[v].obj /\ pc'[u].obj # 0 => u = v
    BY <1>1, <1>3, <1>6, <2>2 DEF Walking
  <2> QED
    BY <2>3, <2>4 DEF Walking
<1> QED
  BY <1>4, <1>7, <1>8, <1>9 DEF HeapInv

LEMMA AbortStep ==
  ASSUME HeapInv, state = "live", Abort
  PROVE  HeapInv'
<1>1. state' = "aborted" /\ UNCHANGED <<device, heaps, lookup, home, stage, pc, inspected>>
  BY DEF Abort
<1>2. plan' = plan /\ run' = run /\ mixed' = mixed /\ leader' = leader /\ dedicated' = dedicated
  BY <1>1 DEF device
<1>3. Typed /\ Lifecycle /\ Walking
  BY DEF HeapInv
<1>4. Led' /\ HeapsOK' /\ Entered' /\ GroupsHome' /\ Placed'
  BY <1>1, PlacesKept
<1>5. Typed'
  BY <1>1, <1>2, <1>3 DEF Typed
<1>6. Lifecycle'
  BY <1>1, <1>3 DEF Lifecycle
<1>7. Walking'
  <2>1. \A q : MemoryType(q)' = MemoryType(q) /\ WantsDedicated(q)' = WantsDedicated(q)
    BY <1>2, DeviceKept
  <2> QED
    BY <1>1, <1>2, <1>3, <2>1 DEF Walking, Walks
<1> QED
  BY <1>4, <1>5, <1>6, <1>7 DEF HeapInv

LEMMA VirtualSwapStep ==
  ASSUME HeapInv, NEW n, VirtualSwapImages(n)
  PROVE  HeapInv'
<1>1. state = "live" /\ state' = "live" /\ UNCHANGED <<device, heaps, lookup, home, stage, pc, inspected>>
  BY DEF VirtualSwapImages
<1>2. plan' = plan /\ run' = run /\ mixed' = mixed /\ leader' = leader /\ dedicated' = dedicated
  BY <1>1 DEF device
<1>3. Typed /\ Lifecycle /\ Walking
  BY DEF HeapInv
<1>4. Led' /\ HeapsOK' /\ Entered' /\ GroupsHome' /\ Placed'
  BY <1>1, PlacesKept
<1>5. Typed'
  BY <1>1, <1>2, <1>3 DEF Typed
<1>6. Lifecycle'
  <2>1. \A q \in Objects : stage'[q] = "bound" <=> lookup'[q].home # NoHome
    BY <1>1, <1>3 DEF Lifecycle
  <2> QED
    BY <1>1, <1>2, <1>3, <2>1, LifecycleKept
<1>7. Walking'
  <2>1. \A q : MemoryType(q)' = MemoryType(q) /\ WantsDedicated(q)' = WantsDedicated(q)
    BY <1>2, DeviceKept
  <2> QED
    BY <1>1, <1>2, <1>3, <2>1 DEF Walking, Walks
<1> QED
  BY <1>4, <1>5, <1>6, <1>7 DEF HeapInv

LEMMA StutterStep ==
  ASSUME HeapInv, UNCHANGED vars
  PROVE  HeapInv'
<1>1. state' = state /\ UNCHANGED <<device, heaps, lookup, home, stage, pc, inspected>>
  BY DEF vars, device
<1>2. plan' = plan /\ run' = run /\ mixed' = mixed /\ leader' = leader /\ dedicated' = dedicated
  BY <1>1 DEF device
<1>3. Typed /\ Lifecycle /\ Walking
  BY DEF HeapInv
<1>4. Led' /\ HeapsOK' /\ Entered' /\ GroupsHome' /\ Placed'
  BY <1>1, PlacesKept
<1>5. Typed'
  BY <1>1, <1>2, <1>3 DEF Typed
<1>6. Lifecycle'
  <2>1. CanPrepare' = CanPrepare /\ Dedicated' = Dedicated
    BY <1>2, DeviceKept
  <2>2. Fresh' <=> Fresh
    BY <1>1 DEF Fresh
  <2> QED
    BY <1>1, <1>2, <1>3, <2>1, <2>2 DEF Lifecycle
<1>7. Walking'
  <2>1. \A q : MemoryType(q)' = MemoryType(q) /\ WantsDedicated(q)' = WantsDedicated(q)
    BY <1>2, DeviceKept
  <2> QED
    BY <1>1, <1>2, <1>3, <2>1 DEF Walking, Walks
<1> QED
  BY <1>4, <1>5, <1>6, <1>7 DEF HeapInv

(***************************************************************************)
(* The walk over the heaps.                                                *)
(***************************************************************************)
LEMMA StandsDrained ==
  ASSUME NEW o, NEW p, NEW need, NEW rn, NEW mx, NEW seen, NEW lk, NEW h, NEW d, DrainKeeps(h, d),
         Stands(o, p, need, rn, mx, seen, lk, h)
  PROVE  Stands(o, p, need, rn, mx, seen, lk, d)
<1>1. PICK k \in 1 .. Len(h.subs) : h.subs[k] = Sub(o, lk.offset, lk.size)
  BY DEF Stands
<1>2. h.subs[k].offset \notin h.deletes /\ h.mem
  BY <1>1 DEF Stands, Sub
<1>3. /\ \E j \in 1 .. Len(d.subs) : d.subs[j] = h.subs[k]
      /\ d.mem = h.mem /\ d.bytes = h.bytes
  BY <1>2 DEF DrainKeeps
<1>4. SameKind(h, d) /\ d.deletes = {}
  BY DEF DrainKeeps
<1> QED
  BY <1>1, <1>2, <1>3, <1>4 DEF Stands, SameKind

LEMMA StandsInserted ==
  ASSUME NEW o, NEW p, NEW need, NEW rn, NEW mx, NEW seen, NEW lk, NEW h, NEW g, NEW k, NEW s,
         Stands(o, p, need, rn, mx, seen, lk, h), Len(h.subs) \in Nat, k \in 0 .. Len(h.subs),
         SameKind(h, g), g.mem = h.mem, g.bytes = h.bytes, g.deletes = h.deletes, IsInserted(g.subs, h.subs, k, s)
  PROVE  Stands(o, p, need, rn, mx, seen, lk, g)
<1>1. PICK j \in 1 .. Len(h.subs) : h.subs[j] = Sub(o, lk.offset, lk.size)
  BY DEF Stands
<1>2. \E i \in 1 .. Len(g.subs) : g.subs[i] = h.subs[j]
  <2>1. CASE j \in 1 .. k
    BY <2>1 DEF IsInserted
  <2>2. CASE j \in (k + 1) .. Len(h.subs)
    <3>1. j + 1 \in 1 .. Len(g.subs) /\ g.subs[j + 1] = h.subs[j]
      BY <2>2 DEF IsInserted
    <3> QED
      BY <3>1
  <2> QED
    BY <2>1, <2>2
<1>3. g.mem /\ lk.offset \notin g.deletes
  BY DEF Stands
<1> QED
  BY <1>1, <1>2, <1>3, StandsKept

LEMMA EnteredDrained ==
  ASSUME NEW lk, NEW h, NEW d, NEW r, DrainKeeps(h, d), EnteredIn(lk, h, r)
  PROVE  d.kind # "alias" => \A j \in 1 .. Len(d.subs) :
           LET s == d.subs[j] IN lk[s.obj].home = r /\ lk[s.obj].offset = s.offset /\ lk[s.obj].size = s.size
<1> SUFFICES ASSUME d.kind # "alias", NEW j \in 1 .. Len(d.subs)
             PROVE  LET s == d.subs[j] IN lk[s.obj].home = r /\ lk[s.obj].offset = s.offset /\ lk[s.obj].size = s.size
  OBVIOUS
<1>1. PICK k \in 1 .. Len(h.subs) : d.subs[j] = h.subs[k] /\ h.subs[k].offset \notin h.deletes
  BY DEF DrainKeeps
<1>2. h.kind # "alias"
  BY DEF DrainKeeps, SameKind
<1> QED
  BY <1>1, <1>2 DEF EnteredIn

LEMMA VisitHeapStep ==
  ASSUME HeapInv, NEW t \in Threads, VisitHeap(t)
  PROVE  HeapInv'
<1>1. PICK o : o = pc[t].obj
  OBVIOUS
<1>2. PICK i : i = pc[t].at
  OBVIOUS
<1>3. PICK h : h = heaps[t][i]
  OBVIOUS
<1>4. PICK d : d = Drained(h)
  OBVIOUS
<1>5. PICK spot : spot = Spot(d, o)
  OBVIOUS
<1>6. PICK off : off = IF spot = 0 THEN 0 ELSE GapStart(d, spot, Needs(o).align)
  OBVIOUS
<1>7. PICK s : s = Sub(o, off, Needs(o).size)
  OBVIOUS
<1>8. PICK placed \in BOOLEAN : placed = (Eligible(d, o, Min(MemoryType(o)), PruneFlags(plan[o].flags)) /\ spot # -1)
  OBVIOUS
<1>9. PICK g : g = IF placed THEN Insert(d, spot, s) ELSE d
  OBVIOUS
<1>10. /\ state = "live" /\ state' = "live" /\ pc[t] # Idle /\ i <= Len(heaps[t])
       /\ UNCHANGED <<device, home, inspected>> /\ heaps' = [heaps EXCEPT ![t][i] = g]
       /\ IF placed THEN /\ lookup' = [lookup EXCEPT ![o] = Bound(<<t, i>>, off, Needs(o).size, FALSE)]
                         /\ stage' = [stage EXCEPT ![o] = "bound"]
                         /\ pc' = [pc EXCEPT ![t] = Idle]
          ELSE lookup' = lookup /\ stage' = stage /\ pc' = [pc EXCEPT ![t].at = i + 1]
  BY <1>1, <1>2, <1>3, <1>4, <1>5, <1>6, <1>7, <1>8, <1>9 DEF VisitHeap
<1>11. plan' = plan /\ run' = run /\ mixed' = mixed /\ leader' = leader /\ dedicated' = dedicated /\ home' = home /\ inspected' = inspected
  BY <1>10 DEF device
<1>12. Typed /\ Led /\ Lifecycle /\ Walking /\ HeapsOK /\ Entered /\ GroupsHome /\ Placed
  BY DEF HeapInv
<1>13. heaps \in HeapLists
  BY <1>12 DEF Typed, HeapLists
<1>14. /\ o \in Objects /\ stage[o] = "new" /\ leader[o] = 0 /\ MemoryType(o) # {} /\ lookup[o].home = NoHome
       /\ ~(plan[o].want = "requires" /\ run) /\ i \in Nat \ {0}
       /\ \A u \in Threads : u # t => pc[u].obj # o
  BY <1>1, <1>2, <1>10, WalkerFacts
<1>15. i \in 1 .. Len(heaps[t]) /\ Len(heaps[t]) \in Nat /\ h \in HeapRecords /\ HeapSound(h)
  <2>1. Len(heaps[t]) \in Nat
    BY <1>13, HeapsTyped
  <2>2. i \in 1 .. Len(heaps[t])
    BY <1>10, <1>14, <2>1
  <2> QED
    BY <1>3, <1>12, <1>13, <2>1, <2>2, HeapsTyped DEF HeapsOK
<1>16. d \in HeapRecords /\ HeapSound(d) /\ DrainKeeps(h, d)
  BY <1>4, <1>15, DrainedFacts
<1>17. PICK r : r = <<t, i>>
  OBVIOUS
<1>18. r \in Refs /\ r # NoHome /\ InHeaps(heaps, r) /\ HeapIn(heaps, r) = h
  BY <1>3, <1>13, <1>15, <1>17, RefsIn, InHeapsFacts
<1>19. Needs(o).size \in Nat \ {0} /\ Needs(o).align \in Nat \ {0} /\ Needs(o).types \in SUBSET Nat
  BY <1>12, <1>14, PlanFacts
<1>20. ASSUME placed
       PROVE  /\ d.mem /\ d.kind = "shared" /\ (plan[o].addr => d.addr) /\ d.free >= Needs(o).size /\ d.type = Min(MemoryType(o))
              /\ (d.tiling = plan[o].tiling \/ mixed) /\ spot # -1
  BY <1>8, <1>20 DEF Eligible
<1>21. ASSUME placed
       PROVE  /\ spot \in 0 .. Len(d.subs) /\ s \in SubRecords /\ off \in Nat /\ off % Needs(o).align = 0
              /\ g \in HeapRecords /\ HeapSound(g) /\ SameKind(d, g) /\ IsInserted(g.subs, d.subs, spot, s)
              /\ g.mem = d.mem /\ g.total = d.total /\ g.bytes = d.bytes /\ g.deletes = d.deletes
  <2>1. d.free \in Nat
    BY <1>16, HeapTypes
  <2>2. Needs(o).size <= d.free /\ spot # -1
    BY <1>19, <1>20, <1>21, <2>1
  <2>3. /\ spot \in 0 .. Len(d.subs) /\ s \in SubRecords /\ off \in Nat /\ off % Needs(o).align = 0
        /\ \A n \in 1 .. spot : End(d.subs[n]) <= s.offset
        /\ \A n \in (spot + 1) .. Len(d.subs) : End(s) <= d.subs[n].offset
        /\ End(s) <= d.total
    BY <1>5, <1>6, <1>7, <1>12, <1>14, <1>16, <2>2, SpotSound
  <2>4. s.size <= d.free
    BY <1>7, <2>2 DEF Sub
  <2>5. g = Insert(d, spot, s)
    BY <1>9, <1>21
  <2>6. /\ g \in HeapRecords /\ HeapSound(g) /\ SameKind(d, g) /\ IsInserted(g.subs, d.subs, spot, s)
        /\ g.mem = d.mem /\ g.total = d.total /\ g.bytes = d.bytes /\ g.deletes = d.deletes
    BY <1>16, <2>3, <2>4, <2>5, InsertSound
  <2> QED
    BY <2>3, <2>6
<1>22. g \in HeapRecords /\ HeapSound(g)
  BY <1>9, <1>16, <1>21
<1>23. heaps' \in HeapLists /\ Replaced(heaps, heaps', t, i, g)
  BY <1>10, <1>13, <1>15, <1>22, ReplacedFacts
<1>24. \A x : InHeaps(heaps, x) => InHeaps(heaps', x) /\ (HeapIn(heaps', x) = IF x = r THEN g ELSE HeapIn(heaps, x))
  BY <1>17, <1>23 DEF Replaced
<1>25. PICK b : b = Bound(r, off, Needs(o).size, FALSE)
  OBVIOUS
<1>26. ASSUME placed
       PROVE  b \in LookupRecords /\ b.home = r /\ b.offset = off /\ b.size = Needs(o).size /\ b.initialized = FALSE /\ b.alias = FALSE
  BY <1>18, <1>19, <1>21, <1>25, <1>26 DEF Bound, LookupRecords
<1>27. /\ lookup' \in [Objects -> LookupRecords] /\ lookup'[o] = (IF placed THEN b ELSE lookup[o])
       /\ \A q \in Objects : q # o => lookup'[q] = lookup[q]
  BY <1>10, <1>12, <1>14, <1>17, <1>25, <1>26 DEF Typed
<1>28. /\ stage' \in [Objects -> {"new", "bound", "freed"}] /\ stage'[o] = (IF placed THEN "bound" ELSE "new")
       /\ \A q \in Objects : q # o => stage'[q] = stage[q]
  BY <1>10, <1>12, <1>14 DEF Typed
<1>29. /\ pc' \in [Threads -> [obj : Objects \cup {0}, at : Nat]]
       /\ \A u \in Threads : u # t => pc'[u] = pc[u]
       /\ IF placed THEN pc'[t] = Idle ELSE pc'[t].obj = o /\ pc'[t].at = i + 1
  <2>1. pc \in [Threads -> [obj : Objects \cup {0}, at : Nat]] /\ Idle \in [obj : Objects \cup {0}, at : Nat]
    BY <1>12 DEF Typed, Idle
  <2>2. CASE placed
    BY <1>10, <2>1, <2>2
  <2>3. CASE ~placed
    <3>1. pc' = [pc EXCEPT ![t] = [pc[t] EXCEPT !.at = i + 1]]
      BY <1>10, <2>3
    <3>2. pc[t] \in [obj : Objects \cup {0}, at : Nat] /\ i + 1 \in Nat
      BY <1>14, <2>1
    <3>3. PICK w : w = [pc[t] EXCEPT !.at = i + 1]
      OBVIOUS
    <3>4. w \in [obj : Objects \cup {0}, at : Nat] /\ w.obj = o /\ w.at = i + 1
      BY <1>1, <3>2, <3>3
    <3> QED
      BY <2>1, <2>3, <3>1, <3>3, <3>4
  <2> QED
    BY <2>2, <2>3
<1>30. Typed'
  <2>1. heaps' \in [Threads -> Seq(HeapRecords)]
    BY <1>23 DEF HeapLists
  <2> QED
    BY <1>10, <1>11, <1>12, <1>27, <1>28, <1>29, <2>1 DEF Typed
<1>31. Led'
  BY <1>11, <1>12, LedKept
<1>32. Lifecycle'
  <2>1. \A q \in Objects : stage'[q] = "bound" <=> lookup'[q].home # NoHome
    BY <1>10, <1>12, <1>14, <1>18, <1>26, <1>27, <1>28, ZenonT(60) DEF Lifecycle
  <2> QED
    BY <1>10, <1>11, <1>12, <2>1, LifecycleKept
<1>33. Walking'
  <2>1. ASSUME NEW u \in Threads, pc'[u] # Idle
        PROVE  pc'[u].obj = pc[u].obj /\ pc[u].obj # 0 /\ pc'[u].at > 0 /\ stage'[pc[u].obj] = "new"
    <3>1. CASE u = t
      BY <1>1, <1>14, <1>28, <1>29, <2>1, <3>1, SuballocatorAssumption
    <3>2. CASE u # t
      <4>1. pc'[u] = pc[u] /\ pc[u].obj # o /\ pc[u].obj # 0 /\ pc[u].obj \in Objects
        BY <1>12, <1>14, <1>29, <2>1, <3>2 DEF Walking, Typed
      <4>2. Walks(u)
        BY <1>12 DEF Walking
      <4> QED
        BY <1>28, <4>1, <4>2 DEF Walks
    <3> QED
      BY <3>1, <3>2
  <2> QED
    BY <1>11, <1>12, <2>1, WalkingKept
<1>34. HeapsOK'
  BY <1>12, <1>17, <1>22, <1>23 DEF HeapsOK, Replaced
<1>35. Entered'
  <2> SUFFICES ASSUME NEW u \in Threads, NEW j \in 1 .. Len(heaps'[u]) PROVE EnteredIn(lookup', heaps'[u][j], <<u, j>>)
    BY DEF Entered
  <2>1. j \in 1 .. Len(heaps[u]) /\ (<<u, j>> = r \/ heaps'[u][j] = heaps[u][j])
    BY <1>17, <1>23 DEF Replaced
  <2>2. \A q \in Objects : lookup[q].home = <<u, j>> => q # o
    <3>1. <<u, j>> # NoHome
      BY DEF NoHome
    <3> QED
      BY <1>14, <3>1
  <2>3. CASE heaps'[u][j] = heaps[u][j]
    <3>1. EnteredIn(lookup, heaps[u][j], <<u, j>>) /\ heaps[u][j] \in HeapRecords
      BY <1>12, <1>13, <2>1, HeapsTyped DEF Entered
    <3> QED
      BY <1>27, <2>2, <2>3, <3>1, EnteredKept
  <2>4. CASE <<u, j>> = r
    <3>1. u = t /\ j = i
      BY <1>17, <2>4
    <3>2. heaps'[u][j] = g
      BY <1>23, <3>1 DEF Replaced
    <3>3. EnteredIn(lookup, h, r)
      BY <1>3, <1>12, <1>15, <1>17 DEF Entered
    <3>4. d.kind # "alias" => \A n \in 1 .. Len(d.subs) :
            LET x == d.subs[n] IN lookup[x.obj].home = r /\ lookup[x.obj].offset = x.offset /\ lookup[x.obj].size = x.size
      BY <1>16, <3>3, EnteredDrained
    <3>5. Len(d.subs) \in Nat /\ \A n \in 1 .. Len(d.subs) : d.subs[n].obj \in Objects
      BY <1>16, HeapTypes
    <3>6. d.kind # "alias" => \A n \in 1 .. Len(d.subs) :
            LET x == d.subs[n] IN lookup'[x.obj].home = r /\ lookup'[x.obj].offset = x.offset /\ lookup'[x.obj].size = x.size
      BY <1>27, <2>2, <2>4, <3>4, <3>5
    <3>7. CASE ~placed
      BY <1>9, <2>4, <3>2, <3>6, <3>7 DEF EnteredIn
    <3>8. CASE placed
      <4>1. /\ Len(g.subs) = Len(d.subs) + 1 /\ g.subs[spot + 1] = s /\ spot \in 0 .. Len(d.subs)
            /\ \A n \in 1 .. spot : g.subs[n] = d.subs[n]
            /\ \A n \in (spot + 1) .. Len(d.subs) : g.subs[n + 1] = d.subs[n]
        BY <1>21, <3>8 DEF IsInserted
      <4>2. lookup'[s.obj].home = r /\ lookup'[s.obj].offset = s.offset /\ lookup'[s.obj].size = s.size
        BY <1>7, <1>26, <1>27, <3>8 DEF Sub
      <4>3. d.kind # "alias"
        BY <1>20, <3>8
      <4>4. ASSUME NEW n \in 1 .. Len(g.subs)
            PROVE  LET x == g.subs[n] IN lookup'[x.obj].home = r /\ lookup'[x.obj].offset = x.offset /\ lookup'[x.obj].size = x.size
        <5>1. CASE n = spot + 1
          BY <4>1, <4>2, <5>1
        <5>2. CASE n \in 1 .. spot
          <6>1. n \in 1 .. Len(d.subs) /\ g.subs[n] = d.subs[n]
            BY <3>5, <4>1, <5>2
          <6> QED
            BY <3>6, <4>3, <6>1
        <5>3. CASE n - 1 \in (spot + 1) .. Len(d.subs)
          <6>1. n - 1 + 1 = n /\ n - 1 \in 1 .. Len(d.subs)
            BY <3>5, <4>1, <5>3
          <6>2. g.subs[n] = d.subs[n - 1]
            BY <4>1, <5>3, <6>1
          <6> QED
            BY <3>6, <4>3, <6>1, <6>2
        <5> QED
          BY <3>5, <4>1, <5>1, <5>2, <5>3
      <4> QED
        BY <2>4, <3>2, <4>4 DEF EnteredIn
    <3> QED
      BY <3>7, <3>8
  <2> QED
    BY <2>1, <2>3, <2>4
<1>36. GroupsHome'
  <2>1. \A x : InHeaps(heaps, x) =>
           /\ InHeaps(heaps', x)
           /\ HeapIn(heaps, x).kind = "alias" /\ HeapIn(heaps, x).deletes = {} => HeapIn(heaps', x) = HeapIn(heaps, x)
    <3>1. h.kind = "alias" /\ h.deletes = {} => g = h
      BY <1>9, <1>16, <1>20 DEF DrainKeeps, SameKind
    <3> QED
      BY <1>18, <1>24, <3>1
  <2> QED
    BY <1>11, <1>12, <2>1, GroupsKept DEF GroupsHome
<1>37. Placed'
  <2> SUFFICES ASSUME NEW q \in Objects, lookup'[q].home # NoHome PROVE Located(q)'
    BY DEF Placed
  <2>0. Needs(q)' = Needs(q) /\ RelativeOffset(q)' = RelativeOffset(q)
    BY <1>11, DeviceKept
  <2>1. CASE q # o
    <3>1. lookup'[q] = lookup[q] /\ Located(q)
      BY <1>12, <1>27, <2>1 DEF Placed
    <3>2. InHeaps(heaps, lookup[q].home)
      BY <3>1 DEF Located
    <3>3. CASE lookup[q].home # r
      BY <1>11, <1>24, <3>1, <3>2, <3>3, LocatedKept
    <3>4. CASE lookup[q].home = r /\ lookup[q].alias
      BY <1>11, <1>24, <2>0, <3>1, <3>2, <3>4 DEF Located, Aliases
    <3>5. CASE lookup[q].home = r /\ ~lookup[q].alias
      <4>1. leader[q] = 0 /\ Stands(q, plan[q], Needs(q), run, mixed, q \in inspected, lookup[q], h)
        BY <1>18, <3>1, <3>5 DEF Located, StandsAlone
      <4>2. Stands(q, plan[q], Needs(q), run, mixed, q \in inspected, lookup[q], d)
        BY <1>16, <4>1, StandsDrained
      <4>3. Stands(q, plan[q], Needs(q), run, mixed, q \in inspected, lookup[q], g)
        <5>1. Len(d.subs) \in Nat
          BY <1>16, HeapTypes
        <5>2. CASE placed
          BY <1>21, <4>2, <5>1, <5>2, StandsInserted
        <5>3. CASE ~placed
          BY <1>9, <4>2, <5>3
        <5> QED
          BY <5>2, <5>3
      <4>4. StandsAlone(q)'
        BY <1>11, <1>18, <1>24, <2>0, <3>1, <3>5, <4>1, <4>3 DEF StandsAlone
      <4> QED
        BY <1>18, <1>24, <2>0, <3>1, <3>5, <4>4 DEF Located
    <3> QED
      BY <3>3, <3>4, <3>5
  <2>2. CASE q = o
    <3>1. placed /\ lookup'[o] = b
      BY <1>14, <1>27, <2>2
    <3>2. PICK type \in MemoryType(o) : TRUE
      BY <1>14
    <3>3. type \in Needs(o).types /\ Fits(run, type, PruneFlags(plan[o].flags)) /\ Min(MemoryType(o)) = type
      BY <1>19, <3>2, TypeChoiceFacts DEF MemoryType
    <3>4. /\ g.kind = "shared" /\ g.mem /\ g.type = type /\ (plan[o].addr => g.addr) /\ (mixed \/ g.tiling = plan[o].tiling)
          /\ g.deletes = {}
      BY <1>16, <1>20, <1>21, <3>1, <3>3 DEF SameKind, DrainKeeps
    <3>5. \E k \in 1 .. Len(g.subs) : g.subs[k] = Sub(o, b.offset, b.size)
      <4>1. spot + 1 \in 1 .. Len(g.subs) /\ g.subs[spot + 1] = s
        <5>1. Len(d.subs) \in Nat
          BY <1>16, HeapTypes
        <5> QED
          BY <1>21, <3>1, <5>1 DEF IsInserted
      <4> QED
        BY <1>7, <1>26, <3>1, <4>1
    <3>6. Stands(o, plan[o], Needs(o), run, mixed, o \in inspected, b, g)
      BY <1>14, <1>21, <1>26, <3>1, <3>3, <3>4, <3>5 DEF Stands
    <3>7. StandsAlone(o)'
      BY <1>11, <1>14, <1>18, <1>24, <1>26, <2>0, <2>2, <3>1, <3>6 DEF StandsAlone
    <3> QED
      BY <1>18, <1>24, <1>26, <2>0, <2>2, <3>1, <3>7 DEF Located
  <2> QED
    BY <2>1, <2>2
<1> QED
  BY <1>30, <1>31, <1>32, <1>33, <1>34, <1>35, <1>36, <1>37 DEF HeapInv

(***************************************************************************)
(* Freeing.                                                                *)
(***************************************************************************)
Gone(lk, S, r) == {lk[o].offset : o \in {p \in S : lk[p].home = r /\ ~lk[p].alias}}
Queued(h, g, D) == /\ SameKind(h, g) /\ g.subs = h.subs /\ g.mem = h.mem /\ g.total = h.total /\ g.free = h.free
                   /\ g.bytes = h.bytes /\ g.deletes = h.deletes \cup D /\ (D = {} => g = h)
IsReleased(hs, gs, lk, S) ==
  gs = [t \in Threads |-> [i \in DOMAIN hs[t] |->
          [hs[t][i] EXCEPT !.deletes = @ \cup
              {lk[o].offset : o \in {p \in S : lk[p].home = <<t, i>> /\ ~lk[p].alias}}]]]

LEMMA ReleaseFacts ==
  ASSUME NEW hs \in HeapLists, NEW lk, NEW S, \A o \in S : lk[o].offset \in Nat, NEW gs, IsReleased(hs, gs, lk, S)
  PROVE  /\ gs \in HeapLists
         /\ \A t \in Threads : Len(gs[t]) = Len(hs[t]) /\ \A i \in 1 .. Len(hs[t]) : Queued(hs[t][i], gs[t][i], Gone(lk, S, <<t, i>>))
         /\ \A r : InHeaps(hs, r) => InHeaps(gs, r) /\ Queued(HeapIn(hs, r), HeapIn(gs, r), Gone(lk, S, r))
<1>1. ASSUME NEW t \in Threads
      PROVE  gs[t] \in Seq(HeapRecords) /\ Len(gs[t]) = Len(hs[t]) /\ \A i \in 1 .. Len(hs[t]) : Queued(hs[t][i], gs[t][i], Gone(lk, S, <<t, i>>))
  <2>1. PICK n \in Nat : n = Len(hs[t]) /\ DOMAIN hs[t] = 1 .. n
    BY HeapsTyped
  <2>2. ASSUME NEW i \in 1 .. n
        PROVE  /\ gs[t][i] = [hs[t][i] EXCEPT !.deletes = hs[t][i].deletes \cup Gone(lk, S, <<t, i>>)]
               /\ gs[t][i] \in HeapRecords /\ Queued(hs[t][i], gs[t][i], Gone(lk, S, <<t, i>>))
    <3>1. PICK h \in HeapRecords : h = hs[t][i]
      BY <2>1, <2>2, HeapsTyped
    <3>2. PICK D \in SUBSET Nat : D = Gone(lk, S, <<t, i>>)
      BY DEF Gone
    <3>3. gs[t][i] = [h EXCEPT !.deletes = h.deletes \cup D]
      BY <2>1, <2>2, <3>1, <3>2 DEF Gone, IsReleased
    <3>4. h.deletes \cup D \in SUBSET Nat
      BY HeapTypes
    <3>5. [h EXCEPT !.deletes = h.deletes \cup D] \in HeapRecords
      BY <3>4 DEF HeapRecords
    <3>6. Queued(h, [h EXCEPT !.deletes = h.deletes \cup D], D)
      <4>1. D = {} => [h EXCEPT !.deletes = h.deletes \cup D] = h
        <5>1. D = {} => h.deletes \cup D = h.deletes
          OBVIOUS
        <5> QED
          BY <5>1 DEF HeapRecords
      <4> QED
        BY <4>1 DEF Queued, SameKind, HeapRecords
    <3> QED
      BY <3>1, <3>2, <3>3, <3>5, <3>6
  <2>3. gs[t] \in [1 .. n -> HeapRecords]
    <3>1. gs[t] = [i \in 1 .. n |-> gs[t][i]]
      BY <2>1 DEF IsReleased
    <3> QED
      BY <2>2, <3>1
  <2>4. gs[t] \in Seq(HeapRecords)
    BY <2>3, SeqDef
  <2>5. Len(gs[t]) = n
    BY <2>3, <2>4
  <2> QED
    BY <2>1, <2>2, <2>4, <2>5
<1>2. gs \in HeapLists
  <2>1. gs = [t \in Threads |-> gs[t]]
    BY DEF IsReleased
  <2> QED
    BY <1>1, <2>1 DEF HeapLists
<1>3. ASSUME NEW r, InHeaps(hs, r) PROVE InHeaps(gs, r) /\ Queued(HeapIn(hs, r), HeapIn(gs, r), Gone(lk, S, r))
  <2>1. r[1] \in Threads /\ r[2] \in 1 .. Len(hs[r[1]]) /\ r = <<r[1], r[2]>>
    BY <1>3, InHeapsFacts
  <2>2. Len(gs[r[1]]) = Len(hs[r[1]]) /\ Queued(hs[r[1]][r[2]], gs[r[1]][r[2]], Gone(lk, S, r))
    BY <1>1, <2>1
  <2> QED
    BY <2>1, <2>2 DEF InHeaps, HeapIn
<1> QED
  BY <1>1, <1>2, <1>3

\* Suballocations of one list at the same offset are the same.
LEMMA SameOffset ==
  ASSUME NEW h \in HeapRecords, HeapSound(h), NEW j \in 1 .. Len(h.subs), NEW k \in 1 .. Len(h.subs),
         h.subs[j].offset = h.subs[k].offset
  PROVE  j = k
<1>1. Len(h.subs) \in Nat /\ \A n \in 1 .. Len(h.subs) : h.subs[n].offset \in Nat /\ h.subs[n].size \in Nat \ {0}
  BY HeapTypes
<1>2. \A x, y \in 1 .. Len(h.subs) : x < y => h.subs[x].offset + h.subs[x].size <= h.subs[y].offset
  BY DEF HeapSound, Sorted, End
<1>3. ~(j < k)
  BY <1>1, <1>2
<1>4. ~(k < j)
  BY <1>1, <1>2
<1> QED
  BY <1>1, <1>3, <1>4

LEMMA AliasHome ==
  ASSUME HeapInv, NEW o \in Objects, lookup[o].home # NoHome
  PROVE  /\ Located(o) /\ InHeaps(heaps, lookup[o].home)
         /\ lookup[o].alias <=> HeapIn(heaps, lookup[o].home).kind = "alias"
<1>1. Located(o) /\ InHeaps(heaps, lookup[o].home) /\ Typed /\ GroupsHome
  BY DEF HeapInv, Placed, Located
<1>2. CASE lookup[o].alias
  <2>1. leader[o] \in Objects /\ home[leader[o]] = lookup[o].home
    BY <1>1, <1>2 DEF Located, Aliases, Typed
  <2>2. HeapIn(heaps, home[leader[o]]).kind = "alias"
    BY <1>1, <2>1 DEF GroupsHome, GroupHeap
  <2> QED
    BY <1>1, <1>2, <2>1, <2>2
<1>3. CASE ~lookup[o].alias
  BY <1>1, <1>3 DEF Located, StandsAlone, Stands
<1> QED
  BY <1>1, <1>2, <1>3

\* Objects are freed: their offsets are queued, what stays keeps its place.
LEMMA ReleaseStep ==
  ASSUME HeapInv, state = "live", state' = "live", NEW S \in SUBSET Objects, Release(S),
         UNCHANGED <<device, home, pc, inspected>>, \A u \in Threads : pc[u].obj \notin S
  PROVE  HeapInv'
<1>1. /\ plan' = plan /\ run' = run /\ mixed' = mixed /\ leader' = leader /\ dedicated' = dedicated
      /\ home' = home /\ pc' = pc /\ inspected' = inspected
  BY DEF device
<1>2. Typed /\ Led /\ Lifecycle /\ Walking /\ HeapsOK /\ Entered /\ GroupsHome /\ Placed
  BY DEF HeapInv
<1>3. heaps \in HeapLists
  BY <1>2 DEF Typed, HeapLists
<1>4. \A o \in S : lookup[o].offset \in Nat
  BY <1>2, LookupTypes
<1>5. /\ heaps' \in HeapLists
      /\ \A t \in Threads : Len(heaps'[t]) = Len(heaps[t]) /\ \A i \in 1 .. Len(heaps[t]) : Queued(heaps[t][i], heaps'[t][i], Gone(lookup, S, <<t, i>>))
      /\ \A r : InHeaps(heaps, r) => InHeaps(heaps', r) /\ Queued(HeapIn(heaps, r), HeapIn(heaps', r), Gone(lookup, S, r))
  <2>1. IsReleased(heaps, heaps', lookup, S)
    BY DEF Release, IsReleased
  <2> QED
    BY <1>3, <1>4, <2>1, ReleaseFacts
<1>6. /\ \A o \in Objects \ S : lookup'[o] = lookup[o] /\ stage'[o] = stage[o]
      /\ \A o \in S : lookup'[o].home = NoHome /\ lookup'[o] \in LookupRecords /\ stage'[o] = "freed"
  <2>1. \A o \in Objects \ S : lookup'[o] = lookup[o] /\ stage'[o] = stage[o]
    BY DEF Release
  <2>2. ASSUME NEW o \in S PROVE lookup'[o].home = NoHome /\ lookup'[o] \in LookupRecords /\ stage'[o] = "freed"
    <3>1. lookup[o] \in LookupRecords /\ lookup'[o] = [lookup[o] EXCEPT !.home = NoHome] /\ stage'[o] = "freed"
      BY <1>2, LookupTypes DEF Release
    <3>2. NoHome \in Refs
      BY DEF Refs
    <3> QED
      BY <3>1, <3>2 DEF LookupRecords
  <2> QED
    BY <2>1, <2>2
<1>7. lookup' \in [Objects -> LookupRecords] /\ stage' \in [Objects -> {"new", "bound", "freed"}]
  <2>1. \A o \in Objects : lookup'[o] \in LookupRecords /\ stage'[o] \in {"new", "bound", "freed"}
    BY <1>2, <1>6 DEF Typed
  <2>2. lookup' = [o \in Objects |-> lookup'[o]] /\ stage' = [o \in Objects |-> stage'[o]]
    BY DEF Release
  <2> QED
    BY <2>1, <2>2
<1>8. Typed'
  BY <1>1, <1>2, <1>5, <1>7 DEF Typed, HeapLists
<1>9. Led'
  BY <1>1, <1>2, LedKept
<1>10. Lifecycle'
  <2>1. \A q \in Objects : stage'[q] = "bound" <=> lookup'[q].home # NoHome
    BY <1>2, <1>6 DEF Lifecycle
  <2> QED
    BY <1>1, <1>2, <2>1, LifecycleKept
<1>11. Walking'
  <2>1. ASSUME NEW u \in Threads
        PROVE  \/ pc'[u] = Idle
               \/ /\ pc'[u].obj = pc[u].obj /\ pc[u].obj # 0 /\ pc'[u].at > 0
                  /\ stage'[pc[u].obj] = "new"
    <3>1. Walks(u) /\ (pc[u].obj = 0 => pc[u] = Idle) /\ pc[u].obj \in Objects \cup {0}
      BY <1>2 DEF Walking, Typed
    <3>2. CASE pc[u].obj = 0
      BY <1>1, <3>1, <3>2
    <3>3. CASE pc[u].obj # 0
      <4>1. pc[u].obj \in Objects \ S
        BY <3>1, <3>3
      <4> QED
        BY <1>1, <1>6, <3>1, <3>3, <4>1 DEF Walks
    <3> QED
      BY <3>2, <3>3
  <2> QED
    BY <1>1, <1>2, <2>1, WalkingKept
<1>12. HeapsOK'
  <2> SUFFICES ASSUME NEW t \in Threads, NEW i \in 1 .. Len(heaps'[t]) PROVE HeapSound(heaps'[t][i])
    BY DEF HeapsOK
  <2>1. HeapSound(heaps[t][i]) /\ Queued(heaps[t][i], heaps'[t][i], Gone(lookup, S, <<t, i>>))
    BY <1>2, <1>5 DEF HeapsOK
  <2> QED
    BY <2>1 DEF HeapSound, Queued
<1>13. Entered'
  <2> SUFFICES ASSUME NEW t \in Threads, NEW i \in 1 .. Len(heaps'[t]) PROVE EnteredIn(lookup', heaps'[t][i], <<t, i>>)
    BY DEF Entered
  <2>0. i \in 1 .. Len(heaps[t])
    BY <1>5
  <2>1. PICK h \in HeapRecords : h = heaps[t][i]
    BY <1>3, <2>0, HeapsTyped
  <2>2. PICK g : g = heaps'[t][i]
    OBVIOUS
  <2>3. EnteredIn(lookup, h, <<t, i>>) /\ Queued(h, g, Gone(lookup, S, <<t, i>>))
    BY <1>2, <1>5, <2>0, <2>1, <2>2 DEF Entered
  <2>4. InHeaps(heaps, <<t, i>>) /\ HeapIn(heaps, <<t, i>>) = h /\ <<t, i>> # NoHome
    BY <1>3, <2>0, <2>1, RefsIn DEF NoHome
  <2>5. ASSUME g.kind # "alias", NEW k \in 1 .. Len(g.subs)
        PROVE  LET s == g.subs[k]
               IN \/ s.offset \in g.deletes
                  \/ lookup'[s.obj].home = <<t, i>> /\ lookup'[s.obj].offset = s.offset /\ lookup'[s.obj].size = s.size
    <3>1. PICK s \in SubRecords : s = h.subs[k] /\ s = g.subs[k] /\ s.obj \in Objects /\ h.kind # "alias" /\ k \in 1 .. Len(h.subs)
      BY <2>3, <2>5, HeapTypes DEF Queued, SameKind
    <3>2. s.offset \in h.deletes \/ (lookup[s.obj].home = <<t, i>> /\ lookup[s.obj].offset = s.offset /\ lookup[s.obj].size = s.size)
      BY <2>3, <3>1 DEF EnteredIn
    <3>3. CASE s.offset \in h.deletes
      BY <2>3, <3>1, <3>3 DEF Queued
    <3>4. CASE lookup[s.obj].home = <<t, i>> /\ lookup[s.obj].offset = s.offset /\ lookup[s.obj].size = s.size /\ s.obj \notin S
      BY <1>6, <3>1, <3>4
    <3>5. CASE lookup[s.obj].home = <<t, i>> /\ lookup[s.obj].offset = s.offset /\ s.obj \in S
      <4>1. ~lookup[s.obj].alias
        BY <2>4, <3>1, <3>5, AliasHome
      <4>2. s.offset \in Gone(lookup, S, <<t, i>>)
        BY <3>5, <4>1 DEF Gone
      <4> QED
        BY <2>3, <3>1, <4>2 DEF Queued
    <3> QED
      BY <3>2, <3>3, <3>4, <3>5
  <2> QED
    BY <2>2, <2>5 DEF EnteredIn
<1>14. GroupsHome'
  <2>1. \A x : InHeaps(heaps, x) =>
           /\ InHeaps(heaps', x)
           /\ HeapIn(heaps, x).kind = "alias" /\ HeapIn(heaps, x).deletes = {} => HeapIn(heaps', x) = HeapIn(heaps, x)
    <3> SUFFICES ASSUME NEW x, InHeaps(heaps, x), HeapIn(heaps, x).kind = "alias" PROVE HeapIn(heaps', x) = HeapIn(heaps, x)
      BY <1>5
    <3>1. x # NoHome
      BY <1>3, InHeapsFacts
    <3>2. \A o \in S : lookup[o].home = x => lookup[o].alias
      BY <3>1, AliasHome
    <3>3. Gone(lookup, S, x) = {}
      BY <3>2 DEF Gone
    <3> QED
      BY <1>5, <3>3 DEF Queued
  <2> QED
    BY <1>1, <1>2, <2>1, GroupsKept DEF GroupsHome
<1>15. Placed'
  <2> SUFFICES ASSUME NEW q \in Objects, lookup'[q].home # NoHome PROVE Located(q)'
    BY DEF Placed
  <2>1. q \notin S /\ lookup'[q] = lookup[q]
    BY <1>6
  <2>2. Located(q) /\ Needs(q)' = Needs(q) /\ RelativeOffset(q)' = RelativeOffset(q)
    BY <1>1, <1>2, <2>1, DeviceKept DEF Placed
  <2>3. InHeaps(heaps, lookup[q].home)
    BY <2>2 DEF Located
  <2>4. CASE lookup[q].alias
    BY <1>1, <1>5, <2>1, <2>2, <2>3, <2>4 DEF Located, Aliases
  <2>5. CASE ~lookup[q].alias
    <3>1. PICK h \in HeapRecords : h = HeapIn(heaps, lookup[q].home)
      BY <1>3, <2>3, InHeapsFacts
    <3>2. PICK g : g = HeapIn(heaps', lookup[q].home)
      OBVIOUS
    <3>3. leader[q] = 0 /\ Stands(q, plan[q], Needs(q), run, mixed, q \in inspected, lookup[q], h)
      BY <2>2, <2>5, <3>1 DEF Located, StandsAlone
    <3>4. Queued(h, g, Gone(lookup, S, lookup[q].home))
      BY <1>5, <2>3, <3>1, <3>2
    <3>5. PICK k \in 1 .. Len(h.subs) : h.subs[k] = Sub(q, lookup[q].offset, lookup[q].size)
      BY <3>3 DEF Stands
    <3>6. h.subs[k].obj = q /\ h.subs[k].offset = lookup[q].offset
      BY <3>5 DEF Sub
    <3>7. lookup[q].offset \notin Gone(lookup, S, lookup[q].home)
      <4> SUFFICES ASSUME NEW p \in S, lookup[p].home = lookup[q].home, ~lookup[p].alias, lookup[p].offset = lookup[q].offset PROVE FALSE
        BY DEF Gone
      <4>1. Located(p) /\ p \in Objects
        BY <1>2, <2>1 DEF Placed
      <4>2. Stands(p, plan[p], Needs(p), run, mixed, p \in inspected, lookup[p], h)
        BY <3>1, <4>1 DEF Located, StandsAlone
      <4>3. PICK j \in 1 .. Len(h.subs) : h.subs[j] = Sub(p, lookup[p].offset, lookup[p].size)
        BY <4>2 DEF Stands
      <4>4. h.subs[j].obj = p /\ h.subs[j].offset = lookup[p].offset
        BY <4>3 DEF Sub
      <4>5. HeapSound(h)
        <5>1. /\ lookup[q].home[1] \in Threads /\ lookup[q].home[2] \in 1 .. Len(heaps[lookup[q].home[1]])
              /\ h = heaps[lookup[q].home[1]][lookup[q].home[2]]
          BY <1>3, <2>3, <3>1, InHeapsFacts
        <5> QED
          BY <1>2, <5>1 DEF HeapsOK
      <4>6. j = k
        BY <3>6, <4>4, <4>5, SameOffset
      <4> QED
        BY <2>1, <3>6, <4>4, <4>6
    <3>8. Stands(q, plan[q], Needs(q), run, mixed, q \in inspected, lookup[q], g)
      BY <3>3, <3>4, <3>7 DEF Stands, Queued, SameKind
    <3>9. StandsAlone(q)'
      BY <1>1, <2>1, <2>2, <3>2, <3>3, <3>8 DEF StandsAlone
    <3> QED
      BY <1>5, <2>1, <2>2, <2>3, <2>5, <3>9 DEF Located
  <2> QED
    BY <2>4, <2>5
<1> QED
  BY <1>8, <1>9, <1>10, <1>11, <1>12, <1>13, <1>14, <1>15 DEF HeapInv

LEMMA FreeStep ==
  ASSUME HeapInv, NEW o \in Objects, Free(o)
  PROVE  HeapInv'
<1>1. /\ state = "live" /\ state' = "live" /\ Release({o}) /\ UNCHANGED <<device, home, pc, inspected>>
      /\ \A t \in Threads : pc[t].obj \notin {o}
  BY DEF Free
<1>2. {o} \in SUBSET Objects
  OBVIOUS
<1> QED
  BY <1>1, <1>2, ReleaseStep

LEMMA FreeSessionStep ==
  ASSUME HeapInv, NEW n, FreeSession(n)
  PROVE  HeapInv'
<1>1. PICK S \in SUBSET Objects :
      /\ state = "live" /\ state' = "live" /\ Release(S) /\ UNCHANGED <<device, home, pc, inspected>>
      /\ \A t \in Threads : pc[t].obj \notin S
  BY DEF FreeSession
<1> QED
  BY <1>1, ReleaseStep

(***************************************************************************)
(* Looking up and updating.                                                *)
(***************************************************************************)
SameSpot(a, b) == b.home = a.home /\ b.offset = a.offset /\ b.size = a.size /\ b.alias = a.alias

LEMMA FoundFacts ==
  ASSUME Typed, NEW S, Found(S)
  PROVE  /\ lookup' \in [Objects -> LookupRecords]
         /\ \A o \in Objects : SameSpot(lookup[o], lookup'[o]) /\ (lookup'[o].initialized <=> o \in S \/ lookup[o].initialized)
         /\ \A o \in Objects \ S : lookup'[o] = lookup[o]
<1>1. ASSUME NEW o \in Objects
      PROVE  /\ lookup'[o] \in LookupRecords /\ SameSpot(lookup[o], lookup'[o])
             /\ (lookup'[o].initialized <=> o \in S \/ lookup[o].initialized) /\ (o \notin S => lookup'[o] = lookup[o])
  <2>1. PICK a \in LookupRecords : a = lookup[o]
    BY LookupTypes
  <2>2. lookup'[o] = IF o \in S THEN [a EXCEPT !.initialized = TRUE] ELSE a
    BY <2>1 DEF Found
  <2>3. PICK c : c = [a EXCEPT !.initialized = TRUE]
    OBVIOUS
  <2>4. c \in LookupRecords /\ SameSpot(a, c) /\ c.initialized
    BY <2>3 DEF LookupRecords, SameSpot
  <2>5. SameSpot(a, a)
    BY DEF SameSpot
  <2> QED
    BY <2>1, <2>2, <2>3, <2>4, <2>5
<1>2. lookup' = [o \in Objects |-> lookup'[o]]
  BY DEF Found
<1> QED
  BY <1>1, <1>2

LEMMA EnteredSame ==
  ASSUME NEW lk, NEW ll, NEW h \in HeapRecords, NEW g, NEW r, EnteredIn(lk, h, r),
         g.kind = h.kind, g.subs = h.subs, g.deletes = h.deletes,
         \A q \in Objects : SameSpot(lk[q], ll[q])
  PROVE  EnteredIn(ll, g, r)
<1>1. \A k \in 1 .. Len(h.subs) : h.subs[k].obj \in Objects
  BY HeapTypes
<1> QED
  BY <1>1 DEF EnteredIn, SameSpot

LEMMA FoundStep ==
  ASSUME HeapInv, state = "live", state' = "live", UNCHANGED <<device, heaps, home, stage, pc>>,
         NEW S, Found(S), inspected \subseteq inspected', inspected' \subseteq Objects,
         \A o \in Objects \cap S : lookup[o].initialized \/ o \in inspected'
  PROVE  HeapInv'
<1>1. /\ plan' = plan /\ run' = run /\ mixed' = mixed /\ leader' = leader /\ dedicated' = dedicated
      /\ heaps' = heaps /\ home' = home /\ stage' = stage /\ pc' = pc
  BY DEF device
<1>2. Typed /\ Led /\ Lifecycle /\ Walking /\ HeapsOK /\ Entered /\ GroupsHome /\ Placed
  BY DEF HeapInv
<1>3. heaps \in HeapLists
  BY <1>2 DEF Typed, HeapLists
<1>4. /\ lookup' \in [Objects -> LookupRecords]
      /\ \A o \in Objects : SameSpot(lookup[o], lookup'[o]) /\ (lookup'[o].initialized <=> o \in S \/ lookup[o].initialized)
  BY <1>2, FoundFacts
<1>5. Typed'
  BY <1>1, <1>2, <1>4 DEF Typed
<1>6. Led' /\ HeapsOK'
  BY <1>1, <1>2, LedKept DEF HeapsOK
<1>7. Lifecycle'
  <2>1. \A q \in Objects : stage'[q] = "bound" <=> lookup'[q].home # NoHome
    BY <1>1, <1>2, <1>4 DEF Lifecycle, SameSpot
  <2> QED
    BY <1>1, <1>2, <2>1, LifecycleKept
<1>8. Walking'
  <2>1. \A q : MemoryType(q)' = MemoryType(q) /\ WantsDedicated(q)' = WantsDedicated(q)
    BY <1>1, DeviceKept
  <2> QED
    BY <1>1, <1>2, <2>1 DEF Walking, Walks
<1>9. Entered'
  <2> SUFFICES ASSUME NEW t \in Threads, NEW i \in 1 .. Len(heaps[t]) PROVE EnteredIn(lookup', heaps[t][i], <<t, i>>)
    BY <1>1 DEF Entered
  <2>1. heaps[t][i] \in HeapRecords /\ EnteredIn(lookup, heaps[t][i], <<t, i>>)
    BY <1>2, <1>3, HeapsTyped DEF Entered
  <2> QED
    BY <1>4, <2>1, EnteredSame
<1>10. GroupsHome'
  BY <1>1, <1>2, GroupsKept DEF GroupsHome
<1>11. Placed'
  <2> SUFFICES ASSUME NEW q \in Objects, lookup'[q].home # NoHome PROVE Located(q)'
    BY DEF Placed
  <2>1. SameSpot(lookup[q], lookup'[q]) /\ (lookup'[q].initialized <=> q \in S \/ lookup[q].initialized)
    BY <1>4
  <2>2. Located(q) /\ Needs(q)' = Needs(q) /\ RelativeOffset(q)' = RelativeOffset(q)
    BY <1>1, <1>2, <2>1, DeviceKept DEF Placed, SameSpot
  <2>3. CASE lookup[q].alias
    BY <1>1, <2>1, <2>2, <2>3 DEF Located, Aliases, SameSpot
  <2>4. CASE ~lookup[q].alias
    <3>1. PICK h : h = HeapIn(heaps, lookup[q].home)
      OBVIOUS
    <3>2. leader[q] = 0 /\ Stands(q, plan[q], Needs(q), run, mixed, q \in inspected, lookup[q], h)
      BY <2>2, <2>4, <3>1 DEF Located, StandsAlone
    <3>3. lookup'[q].initialized /\ q \notin inspected' => lookup[q].initialized /\ q \notin inspected
      BY <2>1
    <3>4. Stands(q, plan[q], Needs(q), run, mixed, q \in inspected', lookup'[q], h)
      BY <2>1, <3>2, <3>3 DEF Stands, SameSpot
    <3>5. StandsAlone(q)'
      BY <1>1, <2>1, <2>2, <3>1, <3>2, <3>4 DEF StandsAlone, SameSpot
    <3> QED
      BY <1>1, <2>1, <2>2, <2>4, <3>5 DEF Located, SameSpot
  <2> QED
    BY <2>3, <2>4
<1> QED
  BY <1>5, <1>6, <1>7, <1>8, <1>9, <1>10, <1>11 DEF HeapInv

LEMMA InspectStep ==
  ASSUME HeapInv, NEW o \in Objects, Inspect(o)
  PROVE  HeapInv'
<1>1. /\ state = "live" /\ state' = "live" /\ Found({o}) /\ inspected' = inspected \cup {o}
      /\ UNCHANGED <<device, heaps, home, stage, pc>>
  BY DEF Inspect
<1>2. inspected \subseteq Objects
  BY DEF HeapInv, Typed
<1>3. inspected \subseteq inspected' /\ inspected' \subseteq Objects /\ \A q \in Objects \cap {o} : q \in inspected'
  BY <1>1, <1>2
<1> QED
  BY <1>1, <1>3, FoundStep

LEMMA KeptObjects ==
  ASSUME Typed
  PROVE  Kept \subseteq Objects
<1>1. heaps \in HeapLists
  BY DEF Typed, HeapLists
<1> SUFFICES ASSUME NEW x \in Kept PROVE x \in Objects
  OBVIOUS
<1>2. PICK t \in Threads : \E i \in DOMAIN heaps[t] : \E k \in DOMAIN heaps[t][i].subs : x = heaps[t][i].subs[k].obj
  BY DEF Kept
<1>3. PICK i \in DOMAIN heaps[t] : \E k \in DOMAIN heaps[t][i].subs : x = heaps[t][i].subs[k].obj
  BY <1>2
<1>4. i \in 1 .. Len(heaps[t])
  <2>1. heaps[t] \in Seq(HeapRecords)
    BY <1>1, HeapsTyped
  <2> QED
    BY <2>1
<1>5. PICK h \in HeapRecords : h = heaps[t][i]
  BY <1>1, <1>4, HeapsTyped
<1>6. PICK k \in DOMAIN h.subs : x = h.subs[k].obj
  BY <1>3, <1>5
<1>7. k \in 1 .. Len(h.subs)
  <2>1. h.subs \in Seq(SubRecords)
    BY HeapTypes
  <2> QED
    BY <2>1
<1> QED
  BY <1>6, <1>7, HeapTypes

LEMMA SelfTestStep ==
  ASSUME HeapInv, SelfTest
  PROVE  HeapInv'
<1>1. PICK S : S = Kept
  OBVIOUS
<1>2. /\ state = "live" /\ state' = "live" /\ Found(S) /\ inspected' = inspected \cup {o \in S : ~lookup[o].initialized}
      /\ UNCHANGED <<device, heaps, home, stage, pc>>
  BY <1>1 DEF SelfTest
<1>3. inspected \subseteq Objects /\ S \subseteq Objects
  BY <1>1, KeptObjects DEF HeapInv, Typed
<1>4. /\ inspected \subseteq inspected' /\ inspected' \subseteq Objects
      /\ \A q \in Objects \cap S : lookup[q].initialized \/ q \in inspected'
  BY <1>2, <1>3
<1> QED
  BY <1>2, <1>4, FoundStep

\* Two objects in one list are apart.
LEMMA Apart ==
  ASSUME NEW h \in HeapRecords, HeapSound(h), NEW j \in 1 .. Len(h.subs), NEW k \in 1 .. Len(h.subs), j # k
  PROVE  \A b : ~(/\ b \in h.subs[j].offset .. (h.subs[j].offset + h.subs[j].size - 1)
                  /\ b \in h.subs[k].offset .. (h.subs[k].offset + h.subs[k].size - 1))
<1>1. Len(h.subs) \in Nat /\ \A n \in 1 .. Len(h.subs) : h.subs[n].offset \in Nat /\ h.subs[n].size \in Nat \ {0}
  BY HeapTypes
<1>2. \A x, y \in 1 .. Len(h.subs) : x < y => h.subs[x].offset + h.subs[x].size <= h.subs[y].offset
  BY DEF HeapSound, Sorted, End
<1>3. PICK a \in Nat, m \in Nat, c \in Nat, n \in Nat :
        a = h.subs[j].offset /\ m = h.subs[j].size /\ c = h.subs[k].offset /\ n = h.subs[k].size
  BY <1>1
<1>4. a + m <= c \/ c + n <= a
  BY <1>1, <1>2, <1>3
<1>5. \A b : ~(b \in a .. (a + m - 1) /\ b \in c .. (c + n - 1))
  BY <1>4
<1> QED
  BY <1>3, <1>5

\* The object is in its heap, inside the memory there is.
LEMMA StandsInside ==
  ASSUME NEW o, NEW p, NEW need, NEW rn, NEW mx, NEW seen, NEW lk, NEW h \in HeapRecords, HeapSound(h),
         Stands(o, p, need, rn, mx, seen, lk, h)
  PROVE  \E k \in 1 .. Len(h.subs) :
            /\ h.subs[k] = Sub(o, lk.offset, lk.size) /\ h.subs[k].obj = o
            /\ h.subs[k].offset = lk.offset /\ h.subs[k].size = lk.size
            /\ lk.offset \in Nat /\ lk.size \in Nat /\ lk.offset + lk.size <= h.total
            /\ lk.offset .. (lk.offset + lk.size - 1) \subseteq DOMAIN h.bytes
<1>1. PICK k \in 1 .. Len(h.subs) : h.subs[k] = Sub(o, lk.offset, lk.size)
  BY DEF Stands
<1>2. h.subs[k].obj = o /\ h.subs[k].offset = lk.offset /\ h.subs[k].size = lk.size
  BY <1>1 DEF Sub
<1>3. h.subs[k].offset \in Nat /\ h.subs[k].size \in Nat /\ h.total \in Nat
  BY HeapTypes
<1>4. h.subs[k].offset + h.subs[k].size <= h.total /\ DOMAIN h.bytes = 0 .. (h.total - 1)
  BY DEF HeapSound, End
<1>5. lk.offset .. (lk.offset + lk.size - 1) \subseteq DOMAIN h.bytes
  BY <1>2, <1>3, <1>4
<1> QED
  BY <1>1, <1>2, <1>3, <1>4, <1>5

\* A heap after an update of an object that is at these bytes.
Painted(h, g, o, E) ==
  /\ SameKind(h, g) /\ g.subs = h.subs /\ g.mem = h.mem /\ g.total = h.total /\ g.free = h.free
  /\ g.deletes = h.deletes /\ DOMAIN g.bytes = DOMAIN h.bytes
  /\ \A b \in DOMAIN h.bytes : g.bytes[b] = IF b \in E THEN o ELSE h.bytes[b]

LEMMA PaintedFacts ==
  ASSUME NEW h \in HeapRecords, NEW o \in Int, NEW E, NEW g,
         g = [h EXCEPT !.bytes = [b \in DOMAIN h.bytes |-> IF b \in E THEN o ELSE h.bytes[b]]]
  PROVE  g \in HeapRecords /\ Painted(h, g, o, E)
<1>1. PICK c : c = [b \in DOMAIN h.bytes |-> IF b \in E THEN o ELSE h.bytes[b]]
  OBVIOUS
<1>2. h.bytes \in Fills
  BY HeapTypes
<1>3. PICK n \in Nat : h.bytes \in [0 .. (n - 1) -> Int]
  BY <1>2 DEF Fills
<1>4. c \in [0 .. (n - 1) -> Int]
  BY <1>1, <1>3
<1>5. c \in Fills
  BY <1>4 DEF Fills
<1>6. g \in HeapRecords
  BY <1>1, <1>5 DEF HeapRecords
<1>7. g.bytes = c /\ SameKind(h, g) /\ g.subs = h.subs
  BY <1>1 DEF HeapRecords, SameKind
<1>8. g.mem = h.mem /\ g.total = h.total /\ g.free = h.free /\ g.deletes = h.deletes
  BY DEF HeapRecords
<1> QED
  BY <1>1, <1>6, <1>7, <1>8 DEF Painted

LEMMA UpdateStep ==
  ASSUME HeapInv, NEW o \in Objects, Update(o)
  PROVE  HeapInv'
<1>1. /\ state = "live" /\ state' = "live" /\ stage[o] = "bound" /\ Found({o})
      /\ UNCHANGED <<device, home, stage, pc, inspected>>
  BY DEF Update
<1>2. /\ plan' = plan /\ run' = run /\ mixed' = mixed /\ leader' = leader /\ dedicated' = dedicated
      /\ home' = home /\ stage' = stage /\ pc' = pc /\ inspected' = inspected
  BY <1>1 DEF device
<1>3. Typed /\ Led /\ Lifecycle /\ Walking /\ HeapsOK /\ Entered /\ GroupsHome /\ Placed
  BY DEF HeapInv
<1>4. heaps \in HeapLists
  BY <1>3 DEF Typed, HeapLists
<1>5. /\ lookup' \in [Objects -> LookupRecords]
      /\ \A q \in Objects : SameSpot(lookup[q], lookup'[q]) /\ (lookup'[q].initialized <=> q \in {o} \/ lookup[q].initialized)
      /\ \A q \in Objects \ {o} : lookup'[q] = lookup[q]
  BY <1>1, <1>3, FoundFacts
<1>6. PICK r : r = lookup[o].home
  OBVIOUS
<1>7. r # NoHome /\ Located(o) /\ InHeaps(heaps, r) /\ (lookup[o].alias <=> HeapIn(heaps, r).kind = "alias")
  BY <1>1, <1>3, <1>6, AliasHome DEF Lifecycle
<1>8. PICK t \in Threads, i \in Nat : i \in 1 .. Len(heaps[t]) /\ r = <<t, i>> /\ r[1] = t /\ r[2] = i
  <2>1. r[1] \in Threads /\ r[2] \in 1 .. Len(heaps[r[1]]) /\ r = <<r[1], r[2]>>
    BY <1>4, <1>7, InHeapsFacts
  <2> QED
    BY <2>1
<1>9. PICK h \in HeapRecords : h = heaps[t][i] /\ h = HeapIn(heaps, r) /\ HeapSound(h) /\ EnteredIn(lookup, h, r)
  <2>1. heaps[t][i] \in HeapRecords /\ heaps[t][i] = HeapIn(heaps, r)
    BY <1>4, <1>8, HeapsTyped DEF HeapIn
  <2>2. HeapSound(heaps[t][i]) /\ EnteredIn(lookup, heaps[t][i], r)
    BY <1>3, <1>8 DEF HeapsOK, Entered
  <2> QED
    BY <2>1, <2>2
<1>10. PICK E : E = Extent(o) /\ E = lookup[o].offset .. (lookup[o].offset + lookup[o].size - 1)
  BY DEF Extent
<1>11. PICK g : g = [h EXCEPT !.bytes = [b \in DOMAIN h.bytes |-> IF b \in E THEN o ELSE h.bytes[b]]]
  OBVIOUS
<1>12. g \in HeapRecords /\ Painted(h, g, o, E)
  <2>1. o \in Int
    BY SuballocatorAssumption
  <2> QED
    BY <1>11, <2>1, PaintedFacts
<1>13. heaps' = [heaps EXCEPT ![t][i] = g]
  <2>1. HeapOf(o) = h
    BY <1>6, <1>8, <1>9 DEF HeapOf, HeapAt
  <2>2. PICK c : c = Cleared(o)
    OBVIOUS
  <2>3. DOMAIN c = DOMAIN h.bytes /\ \A b \in DOMAIN h.bytes : b \notin E => c[b] = h.bytes[b]
    BY <1>10, <2>1, <2>2 DEF Cleared
  <2>4. PICK d : d = [b \in DOMAIN c |-> IF b \in E THEN o ELSE c[b]]
    OBVIOUS
  <2>5. d = [b \in DOMAIN h.bytes |-> IF b \in E THEN o ELSE h.bytes[b]]
    BY <2>3, <2>4
  <2>6. heaps' = [heaps EXCEPT ![t][i].bytes = d]
    BY <1>6, <1>8, <1>10, <2>2, <2>4 DEF Update
  <2> QED
    BY <1>9, <1>11, <2>5, <2>6
<1>14. heaps' \in HeapLists /\ Replaced(heaps, heaps', t, i, g)
  BY <1>4, <1>8, <1>12, <1>13, ReplacedFacts
<1>15. /\ \A u \in Threads : \A j \in 1 .. Len(heaps'[u]) :
            j \in 1 .. Len(heaps[u]) /\ (heaps'[u][j] = heaps[u][j] \/ (<<u, j>> = r /\ heaps'[u][j] = g))
       /\ \A x : InHeaps(heaps, x) => InHeaps(heaps', x) /\ (HeapIn(heaps', x) = IF x = r THEN g ELSE HeapIn(heaps, x))
  BY <1>8, <1>14 DEF Replaced
<1>20. Typed'
  BY <1>1, <1>2, <1>3, <1>5, <1>14 DEF Typed, HeapLists
<1>21. Led'
  BY <1>2, <1>3, LedKept
<1>22. Lifecycle'
  <2>1. \A q \in Objects : stage'[q] = "bound" <=> lookup'[q].home # NoHome
    BY <1>1, <1>2, <1>3, <1>5 DEF Lifecycle, SameSpot
  <2> QED
    BY <1>1, <1>2, <1>3, <2>1, LifecycleKept
<1>23. Walking'
  <2>1. \A q : MemoryType(q)' = MemoryType(q) /\ WantsDedicated(q)' = WantsDedicated(q)
    BY <1>2, DeviceKept
  <2> QED
    BY <1>2, <1>3, <2>1 DEF Walking, Walks
<1>24. HeapsOK'
  <2>1. HeapSound(g)
    BY <1>9, <1>12 DEF HeapSound, Painted
  <2> QED
    BY <1>3, <1>15, <2>1 DEF HeapsOK
<1>25. Entered'
  <2> SUFFICES ASSUME NEW u \in Threads, NEW j \in 1 .. Len(heaps'[u]) PROVE EnteredIn(lookup', heaps'[u][j], <<u, j>>)
    BY DEF Entered
  <2>1. j \in 1 .. Len(heaps[u]) /\ heaps[u][j] \in HeapRecords /\ EnteredIn(lookup, heaps[u][j], <<u, j>>)
    BY <1>3, <1>4, <1>15, HeapsTyped DEF Entered
  <2>2. CASE heaps'[u][j] = heaps[u][j]
    BY <1>5, <2>1, <2>2, EnteredSame
  <2>3. CASE <<u, j>> = r /\ heaps'[u][j] = g
    <3>1. g.kind = h.kind /\ g.subs = h.subs /\ g.deletes = h.deletes
      BY <1>12 DEF Painted, SameKind
    <3> QED
      BY <1>5, <1>9, <2>3, <3>1, EnteredSame
  <2> QED
    BY <1>15, <2>2, <2>3
<1>26. GroupsHome'
  <2> SUFFICES ASSUME NEW l \in Objects, home'[l] # NoHome
               PROVE  /\ InHeaps(heaps, home[l])' /\ GroupPossible(l)' /\ (Members(l) # {})'
                      /\ GroupHeap(l, GroupSize(l), GroupReqs(l), Members(l), run, HeapIn(heaps, home[l]))'
    BY DEF GroupsHome
  <2>1. /\ InHeaps(heaps, home[l]) /\ GroupPossible(l) /\ Members(l) # {}
        /\ GroupHeap(l, GroupSize(l), GroupReqs(l), Members(l), run, HeapIn(heaps, home[l]))
    BY <1>2, <1>3 DEF GroupsHome
  <2>2. Members(l)' = Members(l) /\ GroupReqs(l)' = GroupReqs(l) /\ GroupSize(l)' = GroupSize(l)
    BY <1>2, DeviceKept
  <2>3. \A q : Needs(q)' = Needs(q) /\ RelativeOffset(q)' = RelativeOffset(q)
    BY <1>2, DeviceKept
  <2>4. GroupPossible(l)'
    BY <2>1, <2>2, <2>3 DEF GroupPossible
  <2>5. InHeaps(heaps', home[l])
    BY <1>15, <2>1
  <2>6. CASE home[l] # r
    BY <1>2, <1>15, <2>1, <2>2, <2>4, <2>5, <2>6
  <2>7. CASE home[l] = r
    <3>1. PICK gs, gr, gm : gs = GroupSize(l) /\ gr = GroupReqs(l) /\ gm = Members(l)
      OBVIOUS
    <3>2. GroupHeap(l, gs, gr, gm, run, h) /\ lookup[o].alias
      BY <1>7, <1>9, <2>1, <2>7, <3>1 DEF GroupHeap
    <3>3. leader[o] \in Objects /\ home[leader[o]] = r
      BY <1>3, <1>6, <1>7, <3>2 DEF Located, Aliases, Typed
    <3>4. h.subs = <<Sub(leader[o], 0, GroupSize(leader[o]))>>
      BY <1>3, <1>7, <1>9, <3>3 DEF GroupsHome, GroupHeap
    <3>5. h.subs = <<Sub(l, 0, gs)>>
      BY <3>2 DEF GroupHeap
    <3>6. leader[o] = l
      BY <3>4, <3>5 DEF Sub
    <3>7. o \in gm
      BY <3>1, <3>6 DEF Members
    <3>8. DOMAIN h.bytes = 0 .. (gs - 1)
      BY <1>9, <3>2 DEF HeapSound, GroupHeap
    <3>9. GroupHeap(l, gs, gr, gm, run, g)
      <4>1. Visible(run, h.type) => \A b \in 0 .. (gs - 1) : g.bytes[b] \in {Zero} \cup gm
        <5>1. Visible(run, h.type) => \A b \in 0 .. (gs - 1) : h.bytes[b] \in {Zero} \cup gm
          BY <3>2 DEF GroupHeap
        <5>2. \A b \in 0 .. (gs - 1) : g.bytes[b] = IF b \in E THEN o ELSE h.bytes[b]
          BY <1>12, <3>8 DEF Painted
        <5> QED
          BY <3>7, <5>1, <5>2
      <4> QED
        BY <1>12, <3>2, <4>1 DEF GroupHeap, Painted, SameKind
    <3>10. HeapIn(heaps', home[l]) = g
      BY <1>15, <2>1, <2>7
    <3> QED
      BY <1>2, <2>1, <2>2, <2>4, <2>5, <3>1, <3>9, <3>10
  <2> QED
    BY <2>6, <2>7
<1>27. Placed'
  <2> SUFFICES ASSUME NEW q \in Objects, lookup'[q].home # NoHome PROVE Located(q)'
    BY DEF Placed
  <2>0. Needs(q)' = Needs(q) /\ RelativeOffset(q)' = RelativeOffset(q)
    BY <1>2, DeviceKept
  <2>1. SameSpot(lookup[q], lookup'[q]) /\ (lookup'[q].initialized <=> q = o \/ lookup[q].initialized)
    BY <1>5
  <2>2. Located(q) /\ InHeaps(heaps, lookup[q].home)
    BY <1>3, <2>1 DEF Placed, SameSpot, Located
  <2>3. InHeaps(heaps', lookup'[q].home)
    BY <1>15, <2>1, <2>2 DEF SameSpot
  <2>4. CASE lookup[q].alias
    BY <1>2, <2>0, <2>1, <2>2, <2>3, <2>4 DEF Located, Aliases, SameSpot
  <2>5. CASE ~lookup[q].alias /\ lookup[q].home # r
    <3>1. q # o /\ lookup'[q] = lookup[q]
      BY <1>5, <1>6, <2>5
    <3> QED
      BY <1>2, <1>15, <2>2, <2>5, <3>1, LocatedKept
  <2>6. CASE ~lookup[q].alias /\ lookup[q].home = r
    <3>1. leader[q] = 0 /\ Stands(q, plan[q], Needs(q), run, mixed, q \in inspected, lookup[q], h)
      BY <1>9, <2>2, <2>6 DEF Located, StandsAlone
    <3>2. PICK k \in 1 .. Len(h.subs) :
            /\ h.subs[k] = Sub(q, lookup[q].offset, lookup[q].size) /\ h.subs[k].obj = q
            /\ h.subs[k].offset = lookup[q].offset /\ h.subs[k].size = lookup[q].size
            /\ lookup[q].offset .. (lookup[q].offset + lookup[q].size - 1) \subseteq DOMAIN h.bytes
      BY <1>9, <3>1, StandsInside, SMTT(30)
    <3>3. Stands(q, plan[q], Needs(q), run, mixed, q \in inspected, lookup'[q], g)
      <4>1. lookup'[q].initialized /\ q \notin inspected =>
              \A b \in lookup[q].offset .. (lookup[q].offset + lookup[q].size - 1) : g.bytes[b] = q
        <5>1. CASE q = o
          BY <1>10, <1>12, <3>2, <5>1 DEF Painted
        <5>2. CASE q # o
          <6>1. Stands(o, plan[o], Needs(o), run, mixed, o \in inspected, lookup[o], h)
            <7>1. ~lookup[o].alias
              BY <1>7, <1>9, <3>1 DEF Stands
            <7> QED
              BY <1>6, <1>7, <1>9, <7>1 DEF Located, StandsAlone
          <6>2. PICK j \in 1 .. Len(h.subs) :
                  /\ h.subs[j].obj = o /\ h.subs[j].offset = lookup[o].offset /\ h.subs[j].size = lookup[o].size
            BY <1>9, <6>1, StandsInside
          <6>3. j # k
            BY <3>2, <5>2, <6>2
          <6>4. \A b : ~(/\ b \in h.subs[j].offset .. (h.subs[j].offset + h.subs[j].size - 1)
                         /\ b \in h.subs[k].offset .. (h.subs[k].offset + h.subs[k].size - 1))
            BY <1>9, <6>3, Apart
          <6>5. \A b \in lookup[q].offset .. (lookup[q].offset + lookup[q].size - 1) : b \notin E /\ b \in DOMAIN h.bytes
            BY <1>10, <3>2, <6>2, <6>4
          <6>6. \A b \in lookup[q].offset .. (lookup[q].offset + lookup[q].size - 1) : g.bytes[b] = h.bytes[b]
            BY <1>12, <6>5 DEF Painted
          <6> QED
            BY <2>1, <3>1, <5>2, <6>6 DEF Stands
        <5> QED
          BY <5>1, <5>2
      <4> QED
        BY <1>12, <2>1, <3>1, <4>1 DEF Stands, Painted, SameKind, SameSpot
    <3>4. HeapIn(heaps', lookup'[q].home) = g
      BY <1>15, <2>1, <2>2, <2>6 DEF SameSpot
    <3>5. StandsAlone(q)'
      BY <1>2, <2>0, <3>1, <3>3, <3>4 DEF StandsAlone
    <3> QED
      BY <2>0, <2>1, <2>2, <2>3, <2>6, <3>5 DEF Located, SameSpot
  <2> QED
    BY <2>4, <2>5, <2>6
<1> QED
  BY <1>20, <1>21, <1>22, <1>23, <1>24, <1>25, <1>26, <1>27 DEF HeapInv

(***************************************************************************)
(* Alias groups: every captured range has a first one in its cluster.      *)
(***************************************************************************)
LEMMA RankFacts ==
  ASSUME Typed
  PROVE  /\ \A o \in Objects : plan[o].offset \in Nat /\ plan[o].rank \in Nat
         /\ \A o, q \in Objects : plan[o].rank = plan[q].rank => o = q
<1>1. plan \in Plans /\ plan \in [Objects -> Plan]
  BY SuballocatorAssumption DEF Typed
<1>2. \A o \in Objects : plan[o] \in Plan
  BY <1>1
<1>3. \A o \in Objects : plan[o].offset \in Nat /\ plan[o].rank \in Nat
  BY <1>2 DEF Plan
<1> QED
  BY <1>1, <1>3, SuballocatorAssumption

Lower(p, q) == plan[p].offset < plan[q].offset \/ (plan[p].offset = plan[q].offset /\ plan[p].rank < plan[q].rank)

LEMMA LexLast ==
  ASSUME Typed, NEW M \in SUBSET Objects, M # {}
  PROVE  \E l \in M : \A m \in M : m = l \/ Lower(m, l)
<1>1. IsFiniteSet(M)
  BY FS_Subset, SuballocatorAssumption
<1>2. PICK v : v = [m \in M |-> plan[m].offset]
  OBVIOUS
<1>3. v \in [M -> Int] /\ \A m \in M : v[m] = plan[m].offset
  BY <1>2, RankFacts
<1>4. PICK x \in M : \A y \in M : v[x] >= v[y]
  BY <1>1, <1>3, Largest
<1>5. PICK T : T = {m \in M : plan[m].offset = plan[x].offset}
  OBVIOUS
<1>6. T \in SUBSET M /\ T # {} /\ IsFiniteSet(T)
  BY <1>1, <1>5, FS_Subset
<1>7. PICK w : w = [m \in T |-> plan[m].rank]
  OBVIOUS
<1>8. w \in [T -> Int] /\ \A m \in T : w[m] = plan[m].rank
  BY <1>6, <1>7, RankFacts
<1>9. PICK l \in T : \A y \in T : w[l] >= w[y]
  BY <1>6, <1>8, Largest
<1>10. l \in M /\ plan[l].offset = plan[x].offset
  BY <1>5
<1>11. ASSUME NEW m \in M PROVE m = l \/ Lower(m, l)
  <2>1. /\ plan[m].offset \in Nat /\ plan[m].rank \in Nat /\ plan[l].offset \in Nat /\ plan[l].rank \in Nat
        /\ (plan[m].rank = plan[l].rank => m = l)
    BY <1>10, RankFacts
  <2>2. plan[l].offset >= plan[m].offset
    BY <1>3, <1>4, <1>10
  <2>3. CASE plan[m].offset = plan[l].offset
    <3>1. m \in T
      BY <1>5, <1>10, <2>3
    <3>2. plan[l].rank >= plan[m].rank
      BY <1>8, <1>9, <3>1
    <3> QED
      BY <2>1, <2>3, <3>2 DEF Lower
  <2>4. CASE plan[m].offset # plan[l].offset
    BY <2>1, <2>2, <2>4 DEF Lower
  <2> QED
    BY <2>3, <2>4
<1> QED
  BY <1>10, <1>11

LEMMA LexFirst ==
  ASSUME Typed, NEW M \in SUBSET Objects, M # {}
  PROVE  \E l \in M : \A m \in M : m = l \/ Lower(l, m)
<1>1. IsFiniteSet(M)
  BY FS_Subset, SuballocatorAssumption
<1>2. PICK v : v = [m \in M |-> plan[m].offset]
  OBVIOUS
<1>3. v \in [M -> Int] /\ \A m \in M : v[m] = plan[m].offset
  BY <1>2, RankFacts
<1>4. PICK x \in M : \A y \in M : v[x] <= v[y]
  BY <1>1, <1>3, Smallest
<1>5. PICK T : T = {m \in M : plan[m].offset = plan[x].offset}
  OBVIOUS
<1>6. T \in SUBSET M /\ T # {} /\ IsFiniteSet(T)
  BY <1>1, <1>5, FS_Subset
<1>7. PICK w : w = [m \in T |-> plan[m].rank]
  OBVIOUS
<1>8. w \in [T -> Int] /\ \A m \in T : w[m] = plan[m].rank
  BY <1>6, <1>7, RankFacts
<1>9. PICK l \in T : \A y \in T : w[l] <= w[y]
  BY <1>6, <1>8, Smallest
<1>10. l \in M /\ plan[l].offset = plan[x].offset
  BY <1>5
<1>11. ASSUME NEW m \in M PROVE m = l \/ Lower(l, m)
  <2>1. /\ plan[m].offset \in Nat /\ plan[m].rank \in Nat /\ plan[l].offset \in Nat /\ plan[l].rank \in Nat
        /\ (plan[m].rank = plan[l].rank => m = l)
    BY <1>10, RankFacts
  <2>2. plan[l].offset <= plan[m].offset
    BY <1>3, <1>4, <1>10
  <2>3. CASE plan[m].offset = plan[l].offset
    <3>1. m \in T
      BY <1>5, <1>10, <2>3
    <3>2. plan[l].rank <= plan[m].rank
      BY <1>8, <1>9, <3>1
    <3> QED
      BY <2>1, <2>3, <3>2 DEF Lower
  <2>4. CASE plan[m].offset # plan[l].offset
    BY <2>1, <2>2, <2>4 DEF Lower
  <2> QED
    BY <2>3, <2>4
<1> QED
  BY <1>10, <1>11

LEMMA FirstFacts ==
  ASSUME Typed, NEW o \in Backed
  PROVE  First(o) \in Backed /\ plan[First(o)].offset <= plan[o].offset
<1> DEFINE Chain(l) == Starts(l) /\ (l = o \/ Before(l, o))
<1>1. Backed \subseteq Objects
  BY DEF Backed
<1>2. \A p, q : Before(p, q) <=> plan[p].backing = plan[q].backing /\ Lower(p, q)
  BY DEF Before, Lower
<1>3. PICK C : C = {l \in Backed : Chain(l)}
  OBVIOUS
<1>4. C \in SUBSET Objects /\ \A l \in C : plan[l].backing = plan[o].backing
  BY <1>1, <1>2, <1>3
<1>5. C # {}
  <2>1. PICK P : P = {m \in Backed : plan[m].backing = plan[o].backing}
    OBVIOUS
  <2>2. P \in SUBSET Objects /\ o \in P
    BY <1>1, <2>1
  <2>3. PICK f \in P : \A m \in P : m = f \/ Lower(f, m)
    BY <2>2, LexFirst
  <2>4. f \in Backed /\ plan[f].backing = plan[o].backing
    BY <2>1
  <2>5. ASSUME NEW p \in Backed, Before(p, f) PROVE FALSE
    <3>1. p \in P /\ Lower(p, f)
      BY <1>2, <2>1, <2>4, <2>5
    <3>2. p = f \/ Lower(f, p)
      BY <2>3, <3>1
    <3>3. plan[p].offset \in Nat /\ plan[p].rank \in Nat /\ plan[f].offset \in Nat /\ plan[f].rank \in Nat
      BY <1>1, <2>4, RankFacts
    <3> QED
      BY <3>1, <3>2, <3>3 DEF Lower
  <2>6. Starts(f)
    BY <2>5 DEF Starts
  <2>7. f = o \/ Before(f, o)
    BY <1>2, <2>2, <2>3, <2>4
  <2>8. f \in C
    BY <1>3, <2>4, <2>6, <2>7
  <2> QED
    BY <2>8
<1>6. PICK l \in C : \A m \in C : m = l \/ Lower(m, l)
  BY <1>4, <1>5, LexLast
<1>7. l \in Backed /\ Chain(l) /\ \A m \in Backed : Chain(m) => m = l \/ Before(m, l)
  <2>1. l \in Backed /\ Chain(l)
    BY <1>3
  <2>2. ASSUME NEW m \in Backed, Chain(m) PROVE m = l \/ Before(m, l)
    <3>1. m \in C
      BY <1>3, <2>2
    <3> QED
      BY <1>2, <1>4, <1>6, <3>1
  <2> QED
    BY <2>1, <2>2
<1>8. First(o) \in Backed /\ Chain(First(o))
  <2> HIDE DEF Chain
  <2>1. PICK f : f = CHOOSE x \in Backed : Chain(x) /\ \A m \in Backed : Chain(m) => m = x \/ Before(m, x)
    OBVIOUS
  <2>2. f \in Backed /\ Chain(f)
    BY <1>7, <2>1
  <2>3. First(o) = f
    BY <2>1 DEF First, Chain
  <2> QED
    BY <2>2, <2>3
<1>9. First(o) = o \/ Before(First(o), o)
  BY <1>8
<1>10. First(o) \in Objects /\ o \in Objects
  BY <1>1, <1>8
<1>11. plan[First(o)].offset \in Nat /\ plan[o].offset \in Nat
  BY <1>10, RankFacts
<1> QED
  BY <1>8, <1>9, <1>11 DEF Before

(***************************************************************************)
(* Creating and destroying the device.                                     *)
(***************************************************************************)
LEMMA InitHolds ==
  ASSUME Init
  PROVE  HeapInv
<1>1. /\ heaps = [t \in Threads |-> <<>>] /\ lookup = [o \in Objects |-> NoLookup] /\ home = [o \in Objects |-> NoHome]
      /\ leader = [o \in Objects |-> 0] /\ stage = [o \in Objects |-> "new"] /\ pc = [t \in Threads |-> Idle]
      /\ dedicated = {} /\ inspected = {} /\ state = "none" /\ plan \in Plans /\ run \in Runs /\ mixed \in Mixed
  BY DEF Init
<1>2. NoLookup \in LookupRecords /\ NoLookup.home = NoHome
  BY DEF NoLookup, LookupRecords, Refs, NoHome
<1>3. Idle \in [obj : Objects \cup {0}, at : Nat] /\ Idle.obj = 0
  BY DEF Idle
<1>4. NoHome \in Refs /\ <<>> \in Seq(HeapRecords) /\ Len(<<>>) = 0
  BY DEF Refs
<1>5. Typed
  <2>1. run \in BOOLEAN /\ mixed \in BOOLEAN
    BY <1>1, SuballocatorAssumption
  <2>2. heaps \in [Threads -> Seq(HeapRecords)] /\ lookup \in [Objects -> LookupRecords] /\ home \in [Objects -> Refs]
    BY <1>1, <1>2, <1>4
  <2>3. /\ leader \in [Objects -> Objects \cup {0}] /\ stage \in [Objects -> {"new", "bound", "freed"}]
        /\ pc \in [Threads -> [obj : Objects \cup {0}, at : Nat]]
    BY <1>1, <1>3
  <2> QED
    BY <1>1, <2>1, <2>2, <2>3 DEF Typed
<1>6. /\ \A o \in Objects : lookup[o].home = NoHome /\ home[o] = NoHome /\ leader[o] = 0 /\ stage[o] = "new"
      /\ \A t \in Threads : heaps[t] = <<>> /\ Len(heaps[t]) = 0 /\ pc[t] = Idle
  BY <1>1, <1>2, <1>4
<1>7. Led /\ Lifecycle /\ GroupsHome /\ Placed
  BY <1>1, <1>6 DEF Led, Lifecycle, Fresh, GroupsHome, Placed
<1>8. Walking
  BY <1>3, <1>6 DEF Walking, Walks
<1>9. HeapsOK /\ Entered
  BY <1>6 DEF HeapsOK, Entered
<1> QED
  BY <1>5, <1>7, <1>8, <1>9 DEF HeapInv

LEMMA DestroyStep ==
  ASSUME HeapInv, Destroy
  PROVE  HeapInv'
<1>1. /\ heaps' = [t \in Threads |-> <<>>] /\ lookup' = [o \in Objects |-> NoLookup] /\ home' = [o \in Objects |-> NoHome]
      /\ leader' = [o \in Objects |-> 0] /\ state' = "destroyed" /\ \A t \in Threads : pc[t] = Idle
      /\ UNCHANGED <<plan, run, mixed, dedicated, stage, pc, inspected>>
  BY DEF Destroy
<1>2. NoLookup \in LookupRecords /\ NoLookup.home = NoHome
  BY DEF NoLookup, LookupRecords, Refs, NoHome
<1>3. Idle.obj = 0
  BY DEF Idle
<1>4. NoHome \in Refs /\ <<>> \in Seq(HeapRecords) /\ Len(<<>>) = 0
  BY DEF Refs
<1>5. Typed'
  <2>1. heaps' \in [Threads -> Seq(HeapRecords)] /\ lookup' \in [Objects -> LookupRecords] /\ home' \in [Objects -> Refs]
    BY <1>1, <1>2, <1>4
  <2>2. leader' \in [Objects -> Objects \cup {0}]
    BY <1>1
  <2> QED
    BY <1>1, <2>1, <2>2 DEF HeapInv, Typed
<1>6. /\ \A o \in Objects : lookup'[o].home = NoHome /\ home'[o] = NoHome /\ leader'[o] = 0
      /\ \A t \in Threads : heaps'[t] = <<>> /\ Len(heaps'[t]) = 0 /\ pc'[t] = Idle
  BY <1>1, <1>2, <1>4
<1>7. Led' /\ Lifecycle' /\ GroupsHome' /\ Placed'
  BY <1>1, <1>6 DEF Led, Lifecycle, Fresh, GroupsHome, Placed
<1>8. Walking'
  BY <1>3, <1>6 DEF Walking, Walks
<1>9. HeapsOK' /\ Entered'
  BY <1>6 DEF HeapsOK, Entered
<1> QED
  BY <1>5, <1>7, <1>8, <1>9 DEF HeapInv

LEMMA PrepareStep ==
  ASSUME HeapInv, PrepareAliasGroups
  PROVE  HeapInv'
<1>1. /\ state = "none" /\ state' = "planned" /\ leader' = AliasLeaders
      /\ UNCHANGED <<plan, run, mixed, dedicated, heaps, lookup, home, stage, pc, inspected>>
  BY DEF PrepareAliasGroups
<1>2. Typed /\ Fresh
  BY <1>1 DEF HeapInv, Lifecycle
<1>3. Fresh'
  BY <1>1, <1>2 DEF Fresh
<1>4. \A o \in Objects : leader'[o] # 0 => /\ leader'[o] \in Objects /\ plan[leader'[o]].offset <= plan[o].offset
                                           /\ plan[o].kind # "session"
  <2> SUFFICES ASSUME NEW o \in Objects, leader'[o] # 0
               PROVE  leader'[o] \in Objects /\ plan[leader'[o]].offset <= plan[o].offset /\ plan[o].kind # "session"
    OBVIOUS
  <2>1. o \in Backed /\ leader'[o] = First(o)
    BY <1>1 DEF AliasLeaders
  <2>2. First(o) \in Backed /\ plan[First(o)].offset <= plan[o].offset
    BY <1>2, <2>1, FirstFacts
  <2> QED
    BY <2>1, <2>2 DEF Backed
<1>5. Typed'
  <2>1. leader' \in [Objects -> Objects \cup {0}]
    <3>1. leader' = [o \in Objects |-> leader'[o]]
      BY <1>1 DEF AliasLeaders
    <3> QED
      BY <1>4, <3>1
  <2> QED
    BY <1>1, <1>2, <2>1 DEF Typed
<1>6. Led'
  BY <1>1, <1>4 DEF Led
<1>7. Lifecycle' /\ GroupsHome' /\ Placed'
  BY <1>1, <1>3 DEF Lifecycle, Fresh, GroupsHome, Placed
<1>8. Walking'
  <2>1. Idle.obj = 0
    BY DEF Idle
  <2> QED
    BY <1>3, <2>1 DEF Walking, Walks, Fresh
<1>9. HeapsOK' /\ Entered'
  <2>1. \A t \in Threads : heaps'[t] = <<>> /\ Len(heaps'[t]) = 0
    BY <1>3 DEF Fresh
  <2> QED
    BY <2>1 DEF HeapsOK, Entered
<1> QED
  BY <1>5, <1>6, <1>7, <1>8, <1>9 DEF HeapInv

LEMMA CreateStep ==
  ASSUME HeapInv, Create
  PROVE  HeapInv'
<1>1. /\ state = "planned"
      /\ \/ state' = "live" /\ CanPrepare /\ dedicated' = Dedicated
         \/ state' = "aborted" /\ dedicated' = dedicated
      /\ UNCHANGED <<plan, run, mixed, heaps, lookup, leader, home, stage, pc, inspected>>
  BY DEF Create
<1>2. Typed /\ Fresh /\ Led
  BY <1>1 DEF HeapInv, Lifecycle
<1>3. Fresh'
  BY <1>1, <1>2 DEF Fresh
<1>4. CanPrepare' = CanPrepare /\ Dedicated' = Dedicated
  <2>1. CanPrepare' = CanPrepare
    BY <1>1 DEF CanPrepare, Groups, Aliased, GroupReqs, Merged, Needs, Members, RelativeOffset
  <2>2. Dedicated' = Dedicated
    BY <1>1 DEF Dedicated, Groups, Aliased
  <2> QED
    BY <2>1, <2>2
<1>5. Typed'
  <2>1. Dedicated \subseteq Objects
    BY DEF Dedicated
  <2> QED
    BY <1>1, <1>2, <2>1 DEF Typed
<1>6. Led'
  BY <1>1, <1>2, LedKept
<1>7. Lifecycle'
  BY <1>1, <1>3, <1>4 DEF Lifecycle, Fresh
<1>8. Walking'
  <2>1. Idle.obj = 0
    BY DEF Idle
  <2> QED
    BY <1>3, <2>1 DEF Walking, Walks, Fresh
<1>9. HeapsOK' /\ Entered' /\ GroupsHome' /\ Placed'
  <2>1. \A t \in Threads : heaps'[t] = <<>> /\ Len(heaps'[t]) = 0
    BY <1>3 DEF Fresh
  <2> QED
    BY <1>3, <2>1 DEF HeapsOK, Entered, GroupsHome, Placed, Fresh
<1> QED
  BY <1>5, <1>6, <1>7, <1>8, <1>9 DEF HeapInv

LEMMA NextStep ==
  ASSUME HeapInv, [Next]_vars
  PROVE  HeapInv'
<1>1. CASE PrepareAliasGroups
  BY <1>1, PrepareStep
<1>2. CASE Create
  BY <1>2, CreateStep
<1>3. CASE Destroy
  BY <1>3, DestroyStep
<1>4. CASE SelfTest
  BY <1>4, SelfTestStep
<1>5. CASE Stopped
  BY <1>5, StutterStep DEF Stopped
<1>6. ASSUME NEW t \in Threads, VisitHeap(t) PROVE HeapInv'
  BY <1>6, VisitHeapStep
<1>7. ASSUME NEW t \in Threads, NewSharedHeap(t) PROVE HeapInv'
  BY <1>7, NewSharedHeapStep
<1>8. ASSUME NEW t \in Threads, AllocateFails(t) PROVE HeapInv'
  <2>1. state = "live" /\ Abort
    BY <1>8 DEF AllocateFails
  <2> QED
    BY <2>1, AbortStep
<1>9. ASSUME NEW t \in Threads, NEW o \in Objects, AddDedicated(t, o) PROVE HeapInv'
  BY <1>9, AddDedicatedStep
<1>10. ASSUME NEW t \in Threads, NEW o \in Objects, AddAliased(t, o) PROVE HeapInv'
  BY <1>10, AddAliasedStep
<1>11. ASSUME NEW t \in Threads, NEW o \in Objects, AddShared(t, o) PROVE HeapInv'
  BY <1>11, AddSharedStep
<1>12. ASSUME NEW t \in Threads, NEW o \in Objects, NoMemoryType(t, o) PROVE HeapInv'
  <2>1. state = "live" /\ Abort
    BY <1>12 DEF NoMemoryType
  <2> QED
    BY <2>1, AbortStep
<1>13. ASSUME NEW o \in Objects, Free(o) PROVE HeapInv'
  BY <1>13, FreeStep
<1>14. ASSUME NEW o \in Objects, Inspect(o) PROVE HeapInv'
  BY <1>14, InspectStep
<1>15. ASSUME NEW o \in Objects, Update(o) PROVE HeapInv'
  BY <1>15, UpdateStep
<1>16. ASSUME NEW o \in Objects, FreeSession(plan[o].session) PROVE HeapInv'
  BY <1>16, FreeSessionStep
<1>17. ASSUME NEW n \in 1 .. MaxSwap, VirtualSwapImages(n) PROVE HeapInv'
  BY <1>17, VirtualSwapStep
<1>18. CASE UNCHANGED vars
  BY <1>18, StutterStep
<1> QED
  BY <1>1, <1>2, <1>3, <1>4, <1>5, <1>6, <1>7, <1>8, <1>9, <1>10, <1>11, <1>12, <1>13, <1>14, <1>15, <1>16, <1>17, <1>18
  DEF Next

LEMMA HeapInvHolds == Spec => []HeapInv
<1>1. Init => HeapInv
  BY InitHolds
<1>2. HeapInv /\ [Next]_vars => HeapInv'
  BY NextStep
<1> QED
  BY <1>1, <1>2, PTL DEF Spec

(***************************************************************************)
(* What the invariant says.                                                *)
(***************************************************************************)
LEMMA RefFacts ==
  ASSUME HeapInv
  PROVE  /\ \A r : r \in HeapRefs <=> InHeaps(heaps, r)
         /\ \A r \in HeapRefs : /\ HeapAt(r) = HeapIn(heaps, r) /\ HeapAt(r) \in HeapRecords /\ HeapSound(HeapAt(r))
                                /\ EnteredIn(lookup, HeapAt(r), r)
<1>1. heaps \in HeapLists /\ HeapsOK /\ Entered
  BY DEF HeapInv, Typed, HeapLists
<1>2. \A t \in Threads : DOMAIN heaps[t] = 1 .. Len(heaps[t])
  <2>1. \A t \in Threads : heaps[t] \in Seq(HeapRecords)
    BY <1>1, HeapsTyped
  <2> QED
    BY <2>1
<1>3. \A r : r \in HeapRefs <=> InHeaps(heaps, r)
  BY <1>2 DEF HeapRefs, InHeaps
<1>4. ASSUME NEW r \in HeapRefs
      PROVE  /\ HeapAt(r) = HeapIn(heaps, r) /\ HeapAt(r) \in HeapRecords /\ HeapSound(HeapAt(r))
             /\ EnteredIn(lookup, HeapAt(r), r)
  <2>1. /\ r[1] \in Threads /\ r[2] \in 1 .. Len(heaps[r[1]]) /\ r = <<r[1], r[2]>>
        /\ HeapIn(heaps, r) = heaps[r[1]][r[2]] /\ HeapIn(heaps, r) \in HeapRecords
    BY <1>1, <1>3, InHeapsFacts
  <2>2. HeapSound(heaps[r[1]][r[2]]) /\ EnteredIn(lookup, heaps[r[1]][r[2]], r)
    BY <1>1, <2>1 DEF HeapsOK, Entered
  <2> QED
    BY <2>1, <2>2 DEF HeapAt
<1> QED
  BY <1>3, <1>4

\* An object that is alive either stands in its heap or is one of its alias group.
InGroup(o, l, h) ==
  /\ l \in Objects /\ leader[o] = l /\ o \in Members(l) /\ home[l] = lookup[o].home /\ GroupPossible(l)
  /\ GroupHeap(l, GroupSize(l), GroupReqs(l), Members(l), run, h)
  /\ lookup[o].offset = RelativeOffset(o) /\ lookup[o].initialized

LEMMA LiveFacts ==
  ASSUME HeapInv, NEW o \in Live
  PROVE  /\ o \in Objects /\ lookup[o].home \in HeapRefs /\ HeapOf(o) = HeapIn(heaps, lookup[o].home)
         /\ HeapOf(o) = HeapAt(lookup[o].home) /\ lookup[o].size = Needs(o).size
         /\ HeapOf(o) \in HeapRecords /\ HeapSound(HeapOf(o))
         /\ IF lookup[o].alias THEN InGroup(o, leader[o], HeapOf(o))
            ELSE leader[o] = 0 /\ Stands(o, plan[o], Needs(o), run, mixed, o \in inspected, lookup[o], HeapOf(o))
         /\ (lookup[o].alias <=> HeapOf(o).kind = "alias")
<1>1. o \in Objects /\ lookup[o].home # NoHome /\ Typed /\ GroupsHome
  BY DEF Live, HeapInv
<1>2. Located(o) /\ InHeaps(heaps, lookup[o].home) /\ (lookup[o].alias <=> HeapIn(heaps, lookup[o].home).kind = "alias")
  BY <1>1, AliasHome
<1>3. /\ lookup[o].home \in HeapRefs /\ HeapAt(lookup[o].home) = HeapIn(heaps, lookup[o].home)
      /\ HeapAt(lookup[o].home) \in HeapRecords /\ HeapSound(HeapAt(lookup[o].home))
  BY <1>2, RefFacts
<1>4. HeapOf(o) = HeapAt(lookup[o].home)
  BY DEF HeapOf
<1>5. CASE lookup[o].alias
  <2>1. /\ leader[o] \in Objects /\ home[leader[o]] = lookup[o].home /\ lookup[o].offset = RelativeOffset(o)
        /\ lookup[o].initialized
    BY <1>1, <1>2, <1>5 DEF Located, Aliases, Typed
  <2>2. GroupPossible(leader[o]) /\ GroupHeap(leader[o], GroupSize(leader[o]), GroupReqs(leader[o]), Members(leader[o]), run, HeapIn(heaps, lookup[o].home))
    BY <1>1, <2>1 DEF GroupsHome
  <2>3. o \in Members(leader[o])
    BY <1>1 DEF Members
  <2>4. InGroup(o, leader[o], HeapOf(o))
    BY <1>3, <1>4, <2>1, <2>2, <2>3 DEF InGroup
  <2> QED
    BY <1>1, <1>2, <1>3, <1>4, <1>5, <2>4 DEF Located
<1>6. CASE ~lookup[o].alias
  <2>1. leader[o] = 0 /\ Stands(o, plan[o], Needs(o), run, mixed, o \in inspected, lookup[o], HeapOf(o))
    BY <1>2, <1>3, <1>4, <1>6 DEF Located, StandsAlone
  <2> QED
    BY <1>1, <1>2, <1>3, <1>4, <1>6, <2>1 DEF Located
<1> QED
  BY <1>5, <1>6

LEMMA InvTypeOK ==
  ASSUME HeapInv
  PROVE  TypeOK
<1>1. Typed /\ GroupsHome
  BY DEF HeapInv
<1>2. ASSUME NEW o \in Objects PROVE lookup[o].home \in HeapRefs \cup {NoHome} /\ home[o] \in HeapRefs \cup {NoHome}
  <2>1. lookup[o].home # NoHome => InHeaps(heaps, lookup[o].home)
    BY AliasHome
  <2>2. home[o] # NoHome => InHeaps(heaps, home[o])
    BY <1>1 DEF GroupsHome
  <2> QED
    BY <2>1, <2>2, RefFacts
<1>3. ASSUME NEW r \in HeapRefs PROVE HeapAt(r).free \in 0 .. HeapAt(r).total
  <2>1. PICK h \in HeapRecords : h = HeapAt(r) /\ HeapSound(h)
    BY RefFacts
  <2>2. h.free \in Nat /\ h.total \in Nat /\ h.subs \in Seq(SubRecords)
    BY HeapTypes
  <2>3. Used(h.subs) \in Nat
    BY <2>2, UsedType
  <2>4. h.free + Used(h.subs) = h.total
    BY <2>1 DEF HeapSound
  <2> QED
    BY <2>1, <2>2, <2>3, <2>4
<1> QED
  BY <1>1, <1>2, <1>3 DEF TypeOK, Typed

LEMMA InvNoOverlap ==
  ASSUME HeapInv
  PROVE  NoOverlap
<1> SUFFICES ASSUME NEW o \in Live, NEW q \in Live, o # q, lookup[o].home = lookup[q].home, Extent(o) \cap Extent(q) # {}
             PROVE  o \in Aliased /\ q \in Aliased /\ leader[o] = leader[q]
  BY DEF NoOverlap
<1>1. PICK h : h = HeapOf(o) /\ h = HeapOf(q)
  BY DEF HeapOf
<1>2. /\ o \in Objects /\ q \in Objects /\ h \in HeapRecords /\ HeapSound(h)
      /\ (lookup[o].alias <=> h.kind = "alias") /\ (lookup[q].alias <=> h.kind = "alias")
  BY <1>1, LiveFacts
<1>3. CASE h.kind = "alias"
  <2>1. InGroup(o, leader[o], h) /\ InGroup(q, leader[q], h)
    BY <1>1, <1>2, <1>3, LiveFacts
  <2>2. /\ h.subs = <<Sub(leader[o], 0, GroupSize(leader[o]))>> /\ h.subs = <<Sub(leader[q], 0, GroupSize(leader[q]))>>
        /\ leader[o] \in Objects /\ leader[q] \in Objects
    BY <2>1 DEF InGroup, GroupHeap
  <2>3. leader[o] = leader[q]
    BY <2>2 DEF Sub
  <2>4. leader[o] # 0 /\ leader[q] # 0
    BY <2>2, SuballocatorAssumption
  <2> QED
    BY <1>2, <2>3, <2>4 DEF Aliased
<1>4. CASE h.kind # "alias"
  <2>1. /\ Stands(o, plan[o], Needs(o), run, mixed, o \in inspected, lookup[o], h)
        /\ Stands(q, plan[q], Needs(q), run, mixed, q \in inspected, lookup[q], h)
    BY <1>1, <1>2, <1>4, LiveFacts
  <2>2. PICK j \in 1 .. Len(h.subs) : h.subs[j].obj = o /\ h.subs[j].offset = lookup[o].offset /\ h.subs[j].size = lookup[o].size
    BY <1>2, <2>1, StandsInside
  <2>3. PICK k \in 1 .. Len(h.subs) : h.subs[k].obj = q /\ h.subs[k].offset = lookup[q].offset /\ h.subs[k].size = lookup[q].size
    BY <1>2, <2>1, StandsInside
  <2>4. j # k
    BY <2>2, <2>3
  <2>5. \A b : ~(/\ b \in h.subs[j].offset .. (h.subs[j].offset + h.subs[j].size - 1)
                 /\ b \in h.subs[k].offset .. (h.subs[k].offset + h.subs[k].size - 1))
    BY <1>2, <2>4, Apart
  <2> QED
    BY <2>2, <2>3, <2>5 DEF Extent
<1> QED
  BY <1>3, <1>4

LEMMA InvBooksBalance ==
  ASSUME HeapInv
  PROVE  BooksBalance
<1>0. Typed /\ Led
  BY DEF HeapInv
<1>1. ASSUME NEW r \in HeapRefs, NEW h, h = HeapAt(r)
      PROVE  /\ h.free + Used(h.subs) = h.total
             /\ \A k \in DOMAIN h.subs : End(h.subs[k]) <= GapEnd(h, k)
             /\ h.kind # "alias" => \A k \in DOMAIN h.subs :
                  \/ h.subs[k].offset \in h.deletes
                  \/ LET l == lookup[h.subs[k].obj]
                     IN l.home = r /\ l.offset = h.subs[k].offset /\ l.size = h.subs[k].size
  <2>1. h \in HeapRecords /\ HeapSound(h) /\ EnteredIn(lookup, h, r)
    BY <1>1, RefFacts
  <2>2. h.subs \in Seq(SubRecords) /\ Len(h.subs) \in Nat
    BY <2>1, HeapTypes
  <2>3. DOMAIN h.subs = 1 .. Len(h.subs)
    BY <2>2
  <2>4. ASSUME NEW k \in 1 .. Len(h.subs) PROVE End(h.subs[k]) <= GapEnd(h, k)
    <3>1. CASE k = Len(h.subs)
      BY <2>1, <3>1 DEF GapEnd, HeapSound
    <3>2. CASE k # Len(h.subs)
      <4>1. k + 1 \in 1 .. Len(h.subs) /\ k < k + 1
        BY <2>2, <3>2
      <4> QED
        BY <2>1, <3>2, <4>1 DEF GapEnd, HeapSound, Sorted
    <3> QED
      BY <3>1, <3>2
  <2> QED
    BY <2>1, <2>3, <2>4 DEF HeapSound, EnteredIn
<1>2. ASSUME NEW o \in Live, NEW h, h = HeapOf(o)
      PROVE  /\ h.mem
             /\ lookup[o].offset + lookup[o].size <= h.total
             /\ ~lookup[o].alias => \E k \in DOMAIN h.subs : h.subs[k] = Sub(o, lookup[o].offset, lookup[o].size)
  <2>1. h \in HeapRecords /\ HeapSound(h) /\ o \in Objects /\ lookup[o].size = Needs(o).size
    BY <1>2, LiveFacts
  <2>2. CASE lookup[o].alias
    <3>1. PICK l : l = leader[o] /\ InGroup(o, l, h)
      BY <1>2, <2>2, LiveFacts
    <3>2. l # 0 /\ o \in Members(l) /\ h.mem /\ h.total = GroupSize(l) /\ lookup[o].offset = RelativeOffset(o)
      BY <3>1, SuballocatorAssumption DEF InGroup, GroupHeap
    <3>3. RelativeOffset(o) + Needs(o).size <= GroupSize(l)
      BY <1>0, <3>2, GroupFacts
    <3> QED
      BY <2>1, <2>2, <3>2, <3>3
  <2>3. CASE ~lookup[o].alias
    <3>1. Stands(o, plan[o], Needs(o), run, mixed, o \in inspected, lookup[o], h)
      BY <1>2, <2>3, LiveFacts
    <3>2. PICK k \in 1 .. Len(h.subs) : h.subs[k] = Sub(o, lookup[o].offset, lookup[o].size) /\ lookup[o].offset + lookup[o].size <= h.total
      BY <2>1, <3>1, StandsInside
    <3>3. h.mem
      BY <3>1 DEF Stands
    <3>4. k \in DOMAIN h.subs
      <4>1. h.subs \in Seq(SubRecords)
        BY <2>1, HeapTypes
      <4> QED
        BY <4>1
    <3> QED
      BY <3>2, <3>3, <3>4
  <2> QED
    BY <2>2, <2>3
<1> QED
  BY <1>1, <1>2 DEF BooksBalance

LEMMA VisibleFits ==
  ASSUME NEW flags, NEW type, "HOST_VISIBLE" \in flags, Fits(run, type, PruneFlags(flags))
  PROVE  Visible(run, type) /\ HostVisible(type)
<1>1. "HOST_VISIBLE" \in PruneFlags(flags) \ {"HOST_CACHED", "LAZILY_ALLOCATED"}
  BY DEF PruneFlags
<1> QED
  BY <1>1 DEF Fits, Visible, HostVisible

LEMMA InvPlacedAsRequired ==
  ASSUME HeapInv
  PROVE  PlacedAsRequired
<1>0. Typed /\ Led /\ mixed \in BOOLEAN
  BY DEF HeapInv, Typed
<1> SUFFICES ASSUME NEW o \in Live, NEW h, h = HeapOf(o)
             PROVE  /\ lookup[o].offset % Needs(o).align = 0
                    /\ h.type \in Needs(o).types
                    /\ "HOST_VISIBLE" \in plan[o].flags => HostVisible(h.type)
                    /\ plan[o].addr => h.addr
                    /\ plan[o].want = "requires" /\ run => h.kind = "dedicated"
                    /\ ~mixed /\ o \notin Aliased =>
                         \A q \in Live : lookup[q].home = lookup[o].home => plan[q].tiling = plan[o].tiling
  BY DEF PlacedAsRequired
<1>1. o \in Objects /\ (lookup[o].alias <=> h.kind = "alias")
  BY LiveFacts
<1>2. CASE lookup[o].alias
  <2>1. PICK l : l = leader[o] /\ InGroup(o, l, h)
    BY <1>2, LiveFacts
  <2>2. l # 0 /\ o \in Members(l) /\ o \in Aliased
    BY <1>1, <2>1, SuballocatorAssumption DEF InGroup, Aliased
  <2>3. /\ GroupReqs(l).types \subseteq Needs(o).types /\ plan[o].flags \subseteq GroupReqs(l).flags
        /\ (plan[o].addr => GroupReqs(l).addr) /\ (run /\ plan[o].want = "requires" => GroupReqs(l).requires)
    BY <1>0, <2>2, GroupFacts
  <2>4. lookup[o].offset % Needs(o).align = 0 /\ ~GroupReqs(l).requires
    BY <2>1, <2>2 DEF InGroup, GroupPossible
  <2>5. h.type \in GroupReqs(l).types /\ Fits(run, h.type, PruneFlags(GroupReqs(l).flags)) /\ h.addr = GroupReqs(l).addr
    BY <2>1 DEF InGroup, GroupHeap
  <2>6. "HOST_VISIBLE" \in plan[o].flags => HostVisible(h.type)
    BY <2>3, <2>5, VisibleFits
  <2> QED
    BY <2>2, <2>3, <2>4, <2>5, <2>6
<1>3. CASE ~lookup[o].alias
  <2>1. Stands(o, plan[o], Needs(o), run, mixed, o \in inspected, lookup[o], h)
    BY <1>3, LiveFacts
  <2>2. "HOST_VISIBLE" \in plan[o].flags => HostVisible(h.type)
    BY <2>1, VisibleFits DEF Stands
  <2>3. ASSUME ~mixed, NEW q \in Live, lookup[q].home = lookup[o].home PROVE plan[q].tiling = plan[o].tiling
    <3>1. h = HeapOf(q)
      BY <2>3 DEF HeapOf
    <3>2. ~lookup[q].alias
      BY <1>1, <1>3, <3>1, LiveFacts
    <3>3. Stands(q, plan[q], Needs(q), run, mixed, q \in inspected, lookup[q], h)
      BY <3>1, <3>2, LiveFacts
    <3> QED
      BY <2>1, <2>3, <3>3 DEF Stands
  <2> QED
    BY <2>1, <2>2, <2>3 DEF Stands
<1> QED
  BY <1>2, <1>3

LEMMA InvAliasDistance ==
  ASSUME HeapInv
  PROVE  AliasDistanceKept
<1> SUFFICES ASSUME NEW o \in Live, NEW q \in Live, o \in Aliased, q \in Aliased, leader[o] = leader[q]
             PROVE  /\ lookup[o].home = lookup[q].home
                    /\ lookup[o].offset - lookup[q].offset = plan[o].offset - plan[q].offset
  BY DEF AliasDistanceKept
<1>1. leader[o] # 0 /\ leader[q] # 0
  BY DEF Aliased
<1>2. InGroup(o, leader[o], HeapOf(o)) /\ InGroup(q, leader[q], HeapOf(q)) /\ o \in Objects /\ q \in Objects
  BY <1>1, LiveFacts
<1>3. /\ lookup[o].home = lookup[q].home /\ lookup[o].offset = RelativeOffset(o) /\ lookup[q].offset = RelativeOffset(q)
      /\ leader[o] \in Objects
  BY <1>2 DEF InGroup
<1>4. PICK a \in Nat, b \in Nat, c \in Nat : a = plan[o].offset /\ b = plan[q].offset /\ c = plan[leader[o]].offset
  BY <1>2, <1>3, RankFacts DEF HeapInv
<1>5. RelativeOffset(o) = a - c /\ RelativeOffset(q) = b - c
  BY <1>4 DEF RelativeOffset
<1> QED
  BY <1>3, <1>4, <1>5

LEMMA InvPatchBaseClean ==
  ASSUME HeapInv
  PROVE  PatchBaseClean
<1>0. Typed /\ Led
  BY DEF HeapInv
<1> SUFFICES ASSUME NEW o \in Live, o \notin inspected, "HOST_VISIBLE" \in plan[o].flags, NEW b \in Extent(o)
             PROVE  Cleared(o)[b] \in {Zero} \cup IF o \in Aliased THEN Members(leader[o]) ELSE {o}
  BY DEF PatchBaseClean, CleanFor
<1>1. PICK h \in HeapRecords : h = HeapOf(o) /\ HeapSound(h) /\ o \in Objects /\ lookup[o].size = Needs(o).size
  BY LiveFacts
<1>2. b \in lookup[o].offset .. (lookup[o].offset + lookup[o].size - 1)
  BY DEF Extent
<1>3. b \in DOMAIN h.bytes => Cleared(o)[b] = IF ~lookup[o].initialized THEN Zero ELSE h.bytes[b]
  BY <1>1 DEF Cleared
<1>4. CASE lookup[o].alias
  <2>1. PICK l : l = leader[o] /\ InGroup(o, l, h)
    BY <1>1, <1>4, LiveFacts
  <2>2. l # 0 /\ o \in Members(l) /\ o \in Aliased
    BY <1>1, <2>1, SuballocatorAssumption DEF InGroup, Aliased
  <2>3. /\ RelativeOffset(o) \in Nat /\ GroupSize(l) \in Nat /\ RelativeOffset(o) + Needs(o).size <= GroupSize(l)
        /\ plan[o].flags \subseteq GroupReqs(l).flags
    BY <1>0, <2>2, GroupFacts
  <2>4. /\ lookup[o].offset = RelativeOffset(o) /\ lookup[o].initialized /\ h.total = GroupSize(l)
        /\ Fits(run, h.type, PruneFlags(GroupReqs(l).flags))
        /\ (Visible(run, h.type) => \A c \in 0 .. (GroupSize(l) - 1) : h.bytes[c] \in {Zero} \cup Members(l))
    BY <2>1 DEF InGroup, GroupHeap
  <2>5. Visible(run, h.type)
    BY <2>3, <2>4, VisibleFits
  <2>6. Needs(o).size \in Nat
    BY <1>0, <1>1, PlanFacts
  <2>7. b \in 0 .. (GroupSize(l) - 1)
    BY <1>1, <1>2, <2>3, <2>4, <2>6
  <2>8. b \in DOMAIN h.bytes
    BY <1>1, <2>4, <2>7 DEF HeapSound
  <2> QED
    BY <1>3, <2>1, <2>2, <2>4, <2>5, <2>7, <2>8
<1>5. CASE ~lookup[o].alias
  <2>1. Stands(o, plan[o], Needs(o), run, mixed, o \in inspected, lookup[o], h) /\ leader[o] = 0
    BY <1>1, <1>5, LiveFacts
  <2>2. lookup[o].offset .. (lookup[o].offset + lookup[o].size - 1) \subseteq DOMAIN h.bytes
    BY <1>1, <2>1, StandsInside
  <2>3. o \notin Aliased /\ b \in DOMAIN h.bytes
    BY <1>2, <2>1, <2>2 DEF Aliased
  <2>4. lookup[o].initialized => h.bytes[b] = o
    BY <1>2, <2>1 DEF Stands
  <2> QED
    BY <1>3, <2>3, <2>4
<1> QED
  BY <1>4, <1>5

(***************************************************************************)
(* The theorems.                                                           *)
(***************************************************************************)
\* Whatever threads allocate, walk and free in each other's heaps, two objects share bytes
\* only if they were captured that way, and the books of every heap (free space, order,
\* lookups) are what self_test asserts (suballocate, free_image, self_test).
THEOREM HeapsStaySound == Spec => []HeapsSound
<1>1. HeapInv => HeapsSound
  BY InvTypeOK, InvNoOverlap, InvBooksBalance DEF HeapsSound
<1> QED
  BY <1>1, HeapInvHolds, PTL

\* Every object is where the device accepts it: alignment, memory type, visibility,
\* addressability, dedication and tiling (suballocate, prepare_alias_groups).
THEOREM PlacesSuit == Spec => []PlacedAsRequired
<1>1. HeapInv => PlacedAsRequired
  BY InvPlacedAsRequired
<1> QED
  BY <1>1, HeapInvHolds, PTL

\* Aliased objects keep their captured distance (prepare_alias_groups, add_trackedobject).
THEOREM DistancesKept == Spec => []AliasDistanceKept
<1>1. HeapInv => AliasDistanceKept
  BY InvAliasDistance
<1> QED
  BY <1>1, HeapInvHolds, PTL

\* What an update is applied to is zeros or what earlier updates of the object, or of its
\* alias group, left (mem_map, find_image_memory).
THEOREM PatchesOverClean == Spec => []PatchBaseClean
<1>1. HeapInv => PatchBaseClean
  BY InvPatchBaseClean
<1> QED
  BY <1>1, HeapInvHolds, PTL

(***************************************************************************)
(* Device memory.                                                          *)
(***************************************************************************)
MemSet(hs) == {r \in Threads \X Nat : InHeaps(hs, r) /\ HeapIn(hs, r).mem}
Accounted == /\ virtualswap \in Nat /\ IsFiniteSet(MemSet(heaps))
             /\ devmem = virtualswap + Cardinality(MemSet(heaps))
AccountedInv == HeapInv /\ Accounted

LEMMA MemRefs ==
  ASSUME NEW hs \in HeapLists, NEW r, InHeaps(hs, r)
  PROVE  r \in Threads \X Nat
<1>1. r[1] \in Threads /\ r[2] \in 1 .. Len(hs[r[1]]) /\ r = <<r[1], r[2]>>
  BY InHeapsFacts
<1>2. Len(hs[r[1]]) \in Nat
  BY <1>1, HeapsTyped
<1>3. r[2] \in Nat
  BY <1>1, <1>2
<1>4. <<r[1], r[2]>> \in Threads \X Nat
  BY <1>1, <1>3
<1> QED
  BY <1>1, <1>4

LEMMA MemCount ==
  ASSUME HeapInv
  PROVE  {r \in HeapRefs : HeapAt(r).mem} = MemSet(heaps)
<1>1. heaps \in HeapLists
  BY DEF HeapInv, Typed, HeapLists
<1>2. \A r : r \in HeapRefs <=> InHeaps(heaps, r)
  BY RefFacts
<1>3. \A r \in HeapRefs : HeapAt(r) = HeapIn(heaps, r)
  BY RefFacts
<1>4. \A r : InHeaps(heaps, r) => r \in Threads \X Nat
  BY <1>1, MemRefs
<1> QED
  BY <1>2, <1>3, <1>4 DEF MemSet

LEMMA MemGrown ==
  ASSUME NEW hs \in HeapLists, NEW gs \in HeapLists, NEW t \in Threads, NEW g, Grown(hs, gs, t, g), g.mem,
         IsFiniteSet(MemSet(hs))
  PROVE  IsFiniteSet(MemSet(gs)) /\ Cardinality(MemSet(gs)) = Cardinality(MemSet(hs)) + 1
<1>1. PICK n \in Nat : n = Len(hs[t]) + 1
  BY HeapsTyped
<1>2. PICK x : x = <<t, n>>
  OBVIOUS
<1>3. n \in 1 .. Len(gs[t]) /\ gs[t][n] = g /\ ~InHeaps(hs, x)
  BY <1>1, <1>2 DEF Grown
<1>4. InHeaps(gs, x) /\ HeapIn(gs, x) = g
  BY <1>2, <1>3, RefsIn
<1>5. ASSUME NEW r, InHeaps(gs, r) PROVE r = x \/ InHeaps(hs, r)
  <2>1. PICK u \in Threads : \E i \in 1 .. Len(gs[u]) : r = <<u, i>>
    BY <1>5 DEF InHeaps
  <2>2. PICK i \in 1 .. Len(gs[u]) : r = <<u, i>>
    BY <2>1
  <2>3. i \in 1 .. Len(hs[u]) \/ (u = t /\ i = n)
    BY <1>1 DEF Grown
  <2> QED
    BY <1>2, <2>2, <2>3 DEF InHeaps
<1>6. \A r : InHeaps(hs, r) => InHeaps(gs, r) /\ HeapIn(gs, r) = HeapIn(hs, r)
  BY DEF Grown
<1>7. x \in Threads \X Nat /\ x \notin MemSet(hs)
  BY <1>2, <1>3 DEF MemSet
<1>8. MemSet(gs) = MemSet(hs) \cup {x}
  BY <1>4, <1>5, <1>6, <1>7 DEF MemSet
<1> QED
  BY <1>7, <1>8, FS_AddElement

LEMMA MemReplaced ==
  ASSUME NEW hs \in HeapLists, NEW gs \in HeapLists, NEW t \in Threads, NEW i \in 1 .. Len(hs[t]), NEW g,
         gs = [hs EXCEPT ![t][i] = g], IsFiniteSet(MemSet(hs)), g.mem => hs[t][i].mem
  PROVE  /\ IsFiniteSet(MemSet(gs)) /\ Cardinality(MemSet(hs)) \in Nat
         /\ Cardinality(MemSet(gs)) = IF hs[t][i].mem /\ ~g.mem THEN Cardinality(MemSet(hs)) - 1 ELSE Cardinality(MemSet(hs))
<1>0. Cardinality(MemSet(hs)) \in Nat
  BY FS_CardinalityType
<1>1. hs[t] \in Seq(HeapRecords) /\ gs[t] \in Seq(HeapRecords) /\ Len(hs[t]) \in Nat
  BY HeapsTyped
<1>2. gs[t] = [hs[t] EXCEPT ![i] = g]
  BY DEF HeapLists
<1>3. i \in DOMAIN hs[t] /\ DOMAIN gs[t] = DOMAIN hs[t]
  BY <1>1, <1>2
<1>4. gs[t][i] = g /\ i \in 1 .. Len(gs[t])
  BY <1>1, <1>2, <1>3
<1>5. g \in HeapRecords
  BY <1>4, HeapsTyped
<1>6. Replaced(hs, gs, t, i, g)
  BY <1>5, ReplacedFacts
<1>7. PICK x : x = <<t, i>>
  OBVIOUS
<1>8. InHeaps(hs, x) /\ HeapIn(hs, x) = hs[t][i] /\ x \in Threads \X Nat
  BY <1>7, RefsIn, MemRefs
<1>9. \A r : InHeaps(hs, r) => InHeaps(gs, r) /\ (HeapIn(gs, r) = IF r = x THEN g ELSE HeapIn(hs, r))
  BY <1>6, <1>7 DEF Replaced
<1>10. \A r : InHeaps(gs, r) => InHeaps(hs, r)
  <2> SUFFICES ASSUME NEW r, InHeaps(gs, r) PROVE InHeaps(hs, r)
    OBVIOUS
  <2>1. PICK u \in Threads : \E j \in 1 .. Len(gs[u]) : r = <<u, j>>
    BY DEF InHeaps
  <2>2. PICK j \in 1 .. Len(gs[u]) : r = <<u, j>>
    BY <2>1
  <2>3. j \in 1 .. Len(hs[u])
    BY <1>6 DEF Replaced
  <2> QED
    BY <2>2, <2>3 DEF InHeaps
<1>11. CASE hs[t][i].mem /\ ~g.mem
  <2>1. MemSet(gs) = MemSet(hs) \ {x} /\ x \in MemSet(hs)
    BY <1>8, <1>9, <1>10, <1>11 DEF MemSet
  <2> QED
    BY <1>0, <1>11, <2>1, FS_RemoveElement, ZenonT(60)
<1>12. CASE ~(hs[t][i].mem /\ ~g.mem)
  <2>1. g.mem <=> hs[t][i].mem
    BY <1>12
  <2>2. MemSet(gs) = MemSet(hs)
    BY <1>8, <1>9, <1>10, <2>1 DEF MemSet
  <2> QED
    BY <1>0, <1>12, <2>2
<1> QED
  BY <1>11, <1>12

LEMMA OwnHeapMem ==
  ASSUME AccountedInv, NEW t \in Threads, NEW o \in Objects, NEW kind \in {"shared", "dedicated"}, OwnHeap(t, o, kind),
         virtualswap' = virtualswap
  PROVE  Accounted'
<1>1. heaps \in HeapLists /\ Typed /\ Accounted
  BY DEF AccountedInv, HeapInv, Typed, HeapLists
<1>2. PICK type \in MemoryType(o) :
        heaps' = [heaps EXCEPT ![t] =
                Append(@, NewHeap(o, Needs(o).size, type, PruneFlags(plan[o].flags), plan[o].tiling, plan[o].addr, kind, Junk))]
  BY DEF OwnHeap
<1>3. devmem' = devmem + 1
  BY DEF OwnHeap
<1>4. PICK g : g = NewHeap(o, Needs(o).size, type, PruneFlags(plan[o].flags), plan[o].tiling, plan[o].addr, kind, Junk)
  OBVIOUS
<1>5. g \in HeapRecords /\ g.mem
  BY <1>1, <1>4, OwnNewHeap DEF IsNew
<1>6. heaps' \in HeapLists /\ Grown(heaps, heaps', t, g)
  BY <1>1, <1>2, <1>4, <1>5, GrownFacts
<1>7. IsFiniteSet(MemSet(heaps')) /\ Cardinality(MemSet(heaps')) = Cardinality(MemSet(heaps)) + 1
  BY <1>1, <1>5, <1>6, MemGrown DEF Accounted
<1>8. Cardinality(MemSet(heaps)) \in Nat
  BY <1>1, FS_CardinalityType DEF Accounted
<1> QED
  BY <1>1, <1>3, <1>7, <1>8 DEF Accounted

LEMMA AddAliasedMem ==
  ASSUME AccountedInv, NEW t \in Threads, NEW o \in Objects, AddAliased(t, o)
  PROVE  Accounted'
<1>1. heaps \in HeapLists /\ Typed /\ Accounted /\ Led
  BY DEF AccountedInv, HeapInv, Typed, HeapLists
<1>2. PICK l : l = leader[o]
  OBVIOUS
<1>3. virtualswap' = virtualswap
  BY DEF AddAliased
<1>4. CASE home[l] # NoHome
  <2>1. heaps' = heaps /\ devmem' = devmem
    BY <1>2, <1>4 DEF AddAliased
  <2> QED
    BY <1>1, <1>3, <2>1 DEF Accounted
<1>5. CASE home[l] = NoHome
  <2>1. PICK type \in TypeChoice(GroupReqs(l).types, PruneFlags(GroupReqs(l).flags)) :
            heaps' = [heaps EXCEPT ![t] =
                      Append(@, NewHeap(l, GroupSize(l), type, PruneFlags(GroupReqs(l).flags), plan[l].tiling, GroupReqs(l).addr, "alias",
                                        IF HostVisible(type) THEN Zero ELSE Junk))]
    BY <1>2, <1>5 DEF AddAliased
  <2>2. devmem' = devmem + 1 /\ o \in Aliased
    BY <1>2, <1>5 DEF AddAliased
  <2>3. l # 0 /\ o \in Members(l) /\ l \in Objects
    BY <1>1, <1>2, <2>2 DEF Aliased, Members, Typed
  <2>4. PICK g : g = NewHeap(l, GroupSize(l), type, PruneFlags(GroupReqs(l).flags), plan[l].tiling, GroupReqs(l).addr, "alias",
                                IF HostVisible(type) THEN Zero ELSE Junk)
    OBVIOUS
  <2>5. g \in HeapRecords /\ GroupHeap(l, GroupSize(l), GroupReqs(l), Members(l), run, g)
    BY <1>1, <2>3, <2>4, GroupNewHeap
  <2>6. g.mem
    BY <2>5 DEF GroupHeap
  <2>7. heaps' \in HeapLists /\ Grown(heaps, heaps', t, g)
    BY <1>1, <2>1, <2>4, <2>5, GrownFacts
  <2>8. IsFiniteSet(MemSet(heaps')) /\ Cardinality(MemSet(heaps')) = Cardinality(MemSet(heaps)) + 1
    BY <1>1, <2>6, <2>7, MemGrown DEF Accounted
  <2>9. Cardinality(MemSet(heaps)) \in Nat
    BY <1>1, FS_CardinalityType DEF Accounted
  <2> QED
    BY <1>1, <1>3, <2>2, <2>8, <2>9 DEF Accounted
<1> QED
  BY <1>4, <1>5

LEMMA VisitHeapMem ==
  ASSUME AccountedInv, HeapInv', NEW t \in Threads, VisitHeap(t)
  PROVE  Accounted'
<1>1. heaps \in HeapLists /\ heaps' \in HeapLists /\ Accounted /\ HeapInv /\ HeapsOK
  BY DEF AccountedInv, HeapInv, Typed, HeapLists
<1>2. PICK o, i : o = pc[t].obj /\ i = pc[t].at
  OBVIOUS
<1>3. PICK h : h = heaps[t][i]
  OBVIOUS
<1>4. PICK d : d = Drained(h)
  OBVIOUS
<1>5. /\ i <= Len(heaps[t]) /\ virtualswap' = virtualswap /\ state = "live" /\ pc[t] # Idle
      /\ devmem' = IF h.mem /\ ~d.mem THEN devmem - 1 ELSE devmem
  BY <1>2, <1>3, <1>4 DEF VisitHeap
<1>6. PICK k : k = Spot(d, o)
  OBVIOUS
<1>60. PICK s : s = Sub(o, IF k = 0 THEN 0 ELSE GapStart(d, k, Needs(o).align), Needs(o).size)
  OBVIOUS
<1>7. heaps' = [heaps EXCEPT ![t][i] = Insert(d, k, s)] \/ heaps' = [heaps EXCEPT ![t][i] = d]
  BY <1>2, <1>3, <1>4, <1>6, <1>60 DEF VisitHeap
<1>8. i \in 1 .. Len(heaps[t]) /\ h \in HeapRecords /\ HeapSound(h)
  <2>1. Len(heaps[t]) \in Nat /\ i \in Nat \ {0}
    BY <1>1, <1>2, <1>5, HeapsTyped, WalkerFacts
  <2>2. i \in 1 .. Len(heaps[t])
    BY <1>5, <2>1
  <2> QED
    BY <1>1, <1>3, <2>2, HeapsTyped DEF HeapsOK
<1>9. d \in HeapRecords /\ DrainKeeps(h, d)
  BY <1>4, <1>8, DrainedFacts
<1>10. PICK g : heaps' = [heaps EXCEPT ![t][i] = g] /\ g.mem = d.mem
  <2>1. Insert(d, k, s).mem = d.mem
    BY <1>9 DEF Insert, HeapRecords
  <2> QED
    BY <1>7, <2>1
<1>11. (g.mem => h.mem) /\ d.mem \in BOOLEAN /\ h.mem \in BOOLEAN
  BY <1>8, <1>9, <1>10, HeapTypes DEF DrainKeeps
<1>12. /\ IsFiniteSet(MemSet(heaps')) /\ Cardinality(MemSet(heaps)) \in Nat
       /\ Cardinality(MemSet(heaps')) = IF h.mem /\ ~g.mem THEN Cardinality(MemSet(heaps)) - 1 ELSE Cardinality(MemSet(heaps))
  BY <1>1, <1>3, <1>8, <1>10, <1>11, MemReplaced, ZenonT(60) DEF Accounted
<1> QED
  BY <1>1, <1>5, <1>10, <1>12 DEF Accounted

LEMMA ReleaseMem ==
  ASSUME AccountedInv, NEW S \in SUBSET Objects, Release(S), virtualswap' = virtualswap, devmem' = devmem
  PROVE  Accounted'
<1>1. heaps \in HeapLists /\ Typed /\ Accounted
  BY DEF AccountedInv, HeapInv, Typed, HeapLists
<1>2. \A o \in S : lookup[o].offset \in Nat
  BY <1>1, LookupTypes
<1>3. /\ heaps' \in HeapLists
      /\ \A t \in Threads : Len(heaps'[t]) = Len(heaps[t])
      /\ \A r : InHeaps(heaps, r) => Queued(HeapIn(heaps, r), HeapIn(heaps', r), Gone(lookup, S, r))
  <2>1. IsReleased(heaps, heaps', lookup, S)
    BY DEF Release, IsReleased
  <2> QED
    BY <1>1, <1>2, <2>1, ReleaseFacts, ZenonT(60)
<1>4. \A r : InHeaps(heaps', r) <=> InHeaps(heaps, r)
  BY <1>3 DEF InHeaps
<1>5. MemSet(heaps') = MemSet(heaps)
  BY <1>3, <1>4 DEF MemSet, Queued
<1> QED
  BY <1>1, <1>5 DEF Accounted

LEMMA UpdateMem ==
  ASSUME AccountedInv, HeapInv', NEW o \in Objects, Update(o)
  PROVE  Accounted'
<1>1. heaps \in HeapLists /\ heaps' \in HeapLists /\ Accounted /\ HeapInv /\ Lifecycle
  BY DEF AccountedInv, HeapInv, Typed, HeapLists
<1>2. PICK r, d : r = lookup[o].home /\ heaps' = [heaps EXCEPT ![r[1]][r[2]].bytes = d]
  BY DEF Update
<1>3. state = "live" /\ stage[o] = "bound" /\ virtualswap' = virtualswap /\ devmem' = devmem
  BY DEF Update
<1>4. InHeaps(heaps, r)
  BY <1>1, <1>2, <1>3, AliasHome DEF Lifecycle
<1>5. PICK t \in Threads, i \in Nat : i \in 1 .. Len(heaps[t]) /\ r[1] = t /\ r[2] = i
  <2>1. r[1] \in Threads /\ r[2] \in 1 .. Len(heaps[r[1]]) /\ r = <<r[1], r[2]>>
    BY <1>1, <1>4, InHeapsFacts
  <2> QED
    BY <2>1
<1>6. PICK h \in HeapRecords : h = heaps[t][i]
  BY <1>1, <1>5, HeapsTyped
<1>7. PICK g : g = [h EXCEPT !.bytes = d]
  OBVIOUS
<1>8. g.mem = h.mem /\ h.mem \in BOOLEAN
  BY <1>7 DEF HeapRecords
<1>9. heaps' = [heaps EXCEPT ![t][i] = g]
  BY <1>2, <1>5, <1>6, <1>7
<1>10. /\ IsFiniteSet(MemSet(heaps')) /\ Cardinality(MemSet(heaps)) \in Nat
       /\ Cardinality(MemSet(heaps')) = IF h.mem /\ ~g.mem THEN Cardinality(MemSet(heaps)) - 1 ELSE Cardinality(MemSet(heaps))
  <2>1. IsFiniteSet(MemSet(heaps)) /\ (g.mem => heaps[t][i].mem) /\ heaps[t][i].mem = h.mem
    BY <1>1, <1>6, <1>8 DEF Accounted
  <2>2. i \in 1 .. Len(heaps[t]) /\ heaps \in HeapLists /\ heaps' \in HeapLists
    BY <1>1, <1>5
  <2>3. /\ IsFiniteSet(MemSet(heaps')) /\ Cardinality(MemSet(heaps)) \in Nat
        /\ Cardinality(MemSet(heaps')) = IF heaps[t][i].mem /\ ~g.mem THEN Cardinality(MemSet(heaps)) - 1 ELSE Cardinality(MemSet(heaps))
    BY <1>9, <2>1, <2>2, MemReplaced
  <2> QED
    BY <2>1, <2>3
<1> QED
  BY <1>1, <1>3, <1>8, <1>10 DEF Accounted

LEMMA DestroyMem ==
  ASSUME AccountedInv, Destroy
  PROVE  Accounted'
<1>1. Accounted /\ {r \in HeapRefs : HeapAt(r).mem} = MemSet(heaps)
  BY MemCount DEF AccountedInv
<1>2. /\ virtualswap' = 0 /\ heaps' = [t \in Threads |-> <<>>]
      /\ devmem' = devmem - virtualswap - Cardinality({r \in HeapRefs : HeapAt(r).mem})
  BY DEF Destroy
<1>3. Cardinality(MemSet(heaps)) \in Nat
  BY <1>1, FS_CardinalityType DEF Accounted
<1>4. devmem' = 0
  <2>1. PICK c \in Nat, v \in Nat : c = Cardinality(MemSet(heaps)) /\ v = virtualswap
    BY <1>1, <1>3 DEF Accounted
  <2>2. devmem = v + c /\ devmem' = devmem - v - c
    BY <1>1, <1>2, <2>1 DEF Accounted
  <2> QED
    BY <2>2
<1>5. \A t \in Threads : heaps'[t] = <<>> /\ Len(heaps'[t]) = 0
  BY <1>2
<1>6. MemSet(heaps') = {}
  BY <1>5 DEF MemSet, InHeaps
<1>7. IsFiniteSet(MemSet(heaps')) /\ Cardinality(MemSet(heaps')) = 0
  BY <1>6, FS_EmptySet
<1> QED
  BY <1>2, <1>4, <1>7 DEF Accounted

LEMMA AccountedStep ==
  ASSUME AccountedInv, [Next]_vars
  PROVE  AccountedInv'
<1>0. HeapInv /\ Accounted /\ HeapInv'
  BY NextStep DEF AccountedInv
<1> SUFFICES Accounted'
  BY <1>0 DEF AccountedInv
<1>1. CASE UNCHANGED <<heaps, virtualswap, devmem>>
  BY <1>0, <1>1 DEF Accounted
<1>2. CASE PrepareAliasGroups \/ Create \/ SelfTest \/ Stopped
  BY <1>1, <1>2 DEF PrepareAliasGroups, Create, SelfTest, Stopped, vars
<1>3. CASE Destroy
  BY <1>3, DestroyMem
<1>4. ASSUME NEW t \in Threads, VisitHeap(t) PROVE Accounted'
  BY <1>0, <1>4, VisitHeapMem
<1>5. ASSUME NEW t \in Threads, NewSharedHeap(t) PROVE Accounted'
  <2>1. PICK o : o = pc[t].obj
    OBVIOUS
  <2>2. state = "live" /\ pc[t] # Idle /\ OwnHeap(t, o, "shared") /\ virtualswap' = virtualswap
    BY <1>5, <2>1 DEF NewSharedHeap
  <2>3. o \in Objects
    BY <1>0, <2>1, <2>2, WalkerFacts
  <2> QED
    BY <2>2, <2>3, OwnHeapMem
<1>6. ASSUME NEW t \in Threads, AllocateFails(t) PROVE Accounted'
  BY <1>1, <1>6 DEF AllocateFails, Abort
<1>7. ASSUME NEW t \in Threads, NEW o \in Objects, AddDedicated(t, o) PROVE Accounted'
  <2>1. OwnHeap(t, o, "dedicated") /\ virtualswap' = virtualswap
    BY <1>7 DEF AddDedicated
  <2> QED
    BY <2>1, OwnHeapMem
<1>8. ASSUME NEW t \in Threads, NEW o \in Objects, AddAliased(t, o) PROVE Accounted'
  BY <1>8, AddAliasedMem
<1>9. ASSUME NEW t \in Threads, NEW o \in Objects, AddShared(t, o) \/ NoMemoryType(t, o) PROVE Accounted'
  BY <1>1, <1>9 DEF AddShared, NoMemoryType, Abort
<1>10. ASSUME NEW o \in Objects, Free(o) PROVE Accounted'
  <2>1. Release({o}) /\ virtualswap' = virtualswap /\ devmem' = devmem /\ {o} \in SUBSET Objects
    BY <1>10 DEF Free
  <2> QED
    BY <2>1, ReleaseMem
<1>11. ASSUME NEW o \in Objects, Inspect(o) PROVE Accounted'
  BY <1>1, <1>11 DEF Inspect
<1>12. ASSUME NEW o \in Objects, Update(o) PROVE Accounted'
  BY <1>0, <1>12, UpdateMem
<1>13. ASSUME NEW o \in Objects, FreeSession(plan[o].session) PROVE Accounted'
  <2>1. PICK S \in SUBSET Objects : Release(S) /\ virtualswap' = virtualswap /\ devmem' = devmem
    BY <1>13 DEF FreeSession
  <2> QED
    BY <2>1, ReleaseMem
<1>14. ASSUME NEW n \in 1 .. MaxSwap, VirtualSwapImages(n) PROVE Accounted'
  <2>1. virtualswap' = virtualswap + n /\ devmem' = devmem + n /\ heaps' = heaps
    BY <1>14 DEF VirtualSwapImages
  <2>2. n \in Nat /\ Cardinality(MemSet(heaps)) \in Nat
    BY <1>0, SuballocatorAssumption, FS_CardinalityType DEF Accounted
  <2> QED
    BY <1>0, <2>1, <2>2 DEF Accounted
<1>15. CASE UNCHANGED vars
  BY <1>1, <1>15 DEF vars
<1> QED
  BY <1>2, <1>3, <1>4, <1>5, <1>6, <1>7, <1>8, <1>9, <1>10, <1>11, <1>12, <1>13, <1>14, <1>15 DEF Next

\* Every device allocation is held by a heap or a virtual swapchain, none is lost or freed
\* twice, whatever is freed by which thread, and none is left after destroy (allocate,
\* suballocate, virtualswap_images, destroy).
THEOREM AllocationsAccounted == Spec => []MemoryAccounted
<1>1. Init => AccountedInv
  <2> SUFFICES ASSUME Init PROVE Accounted
    BY InitHolds DEF AccountedInv
  <2>1. virtualswap = 0 /\ devmem = 0 /\ heaps = [t \in Threads |-> <<>>]
    BY DEF Init
  <2>2. \A t \in Threads : heaps[t] = <<>> /\ Len(heaps[t]) = 0
    BY <2>1
  <2>3. MemSet(heaps) = {}
    BY <2>2 DEF MemSet, InHeaps
  <2> QED
    BY <2>1, <2>3, FS_EmptySet DEF Accounted
<1>2. AccountedInv /\ [Next]_vars => AccountedInv'
  BY AccountedStep
<1>3. AccountedInv => MemoryAccounted
  BY MemCount DEF AccountedInv, Accounted, MemoryAccounted
<1> QED
  BY <1>1, <1>2, <1>3, PTL DEF Spec

=============================================================================
