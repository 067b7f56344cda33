---------------------------- MODULE Suballocator ----------------------------
(***************************************************************************)
(* The replay suballocator (suballocator.cpp): each replay thread owns a    *)
(* list of device memory heaps and places objects in them; any thread may  *)
(* free an object, which only queues its offset for the thread that owns    *)
(* the heap.  Objects that shared memory at capture (alias groups) share    *)
(* one heap again.  The bytes of every heap are kept, because an update of  *)
(* an object is a difference against memory that starts as zeros.           *)
(***************************************************************************)
EXTENDS Integers, Sequences, FiniteSets, FiniteSetsExt

CONSTANTS
    Threads,        \* replay threads
    Objects,        \* tracked images, buffers, tensors and session bindings
    Plans,          \* what the device may ask for each object (see Plan)
    MemoryTypes,    \* memory type index -> property flags of the device
    MinHeap,        \* min_heap_size
    MaxAllocations, \* maxMemoryAllocationCount - 64
    Mixed,          \* possible values of allow_mixed_tiling
    Runs,           \* possible values of run: replay or post-processing
    MaxSwap,        \* bound: virtual swapchain images allocated
    MaxFailures     \* bound: failing device calls explored

Flags == {"DEVICE_LOCAL", "HOST_VISIBLE", "HOST_COHERENT", "HOST_CACHED", "LAZILY_ALLOCATED"}
NoMemory == -1  \* UINT32_MAX

\* What a byte holds: zero, anything, or (its number) what an update of an object put there.
Zero == 0
Junk == -1

\* What is known of an object when the device is created: what it needs at replay
\* (reqs, memory_flags, tiling) and where capture had put it (backing_index, offset, req.size).
Plan == [kind : {"image", "buffer", "tensor", "session"}, session : Nat, rank : Nat,
         size : Nat \ {0}, align : Nat \ {0}, types : SUBSET DOMAIN MemoryTypes,
         flags : SUBSET Flags, tiling : {"linear", "optimal"}, addr : BOOLEAN,
         want : {"no", "prefers", "requires"},
         backing : Nat \cup {NoMemory}, offset : Nat, capsize : Nat]

ASSUME SuballocatorAssumption ==
    /\ IsFiniteSet(Threads)
    /\ Objects \subseteq Nat \ {0} /\ IsFiniteSet(Objects)
    /\ Mixed \subseteq BOOLEAN /\ Runs \subseteq BOOLEAN
    /\ MinHeap \in Nat \ {0} /\ MaxAllocations \in Nat /\ MaxSwap \in Nat
    /\ MemoryTypes \in Seq(SUBSET Flags)
    /\ Plans \subseteq [Objects -> Plan]
    /\ \A p \in Plans : \A o, q \in Objects : p[o].rank = p[q].rank => o = q

VARIABLES
    state,      \* "none", "planned", "live", "aborted" (SUBALLOC_ABORT), "destroyed"
    plan,       \* the requirements of this trace on this device
    run,        \* suballocator_private.run
    mixed,      \* allow_mixed_tiling
    dedicated,  \* objects with dedicated_allocation set
    heaps,      \* heaps_by_thread
    lookup,     \* image_lookup, buffer_lookup, tensor_lookup and the sessions' lookups
    leader,     \* *_alias_lookup: the first object of its alias group, or 0
    home,       \* alias group (named by its first object) -> its heap
    stage,      \* where the trace is with an object: new, bound, freed
    pc,         \* a thread inside suballocate: the object and the heap it looks at
    virtualswap,\* virtualswapmemory.size()
    devmem,     \* device allocations alive (the driver's count)
    inspected,  \* objects looked up by something that does not initialise them
    failures

vars == <<state, plan, run, mixed, dedicated, heaps, lookup, leader, home, stage, pc,
          virtualswap, devmem, inspected, failures>>

device == <<plan, run, mixed, leader, dedicated>>

NoHome == <<>>
NoLookup == [home |-> NoHome, offset |-> 0, size |-> 0, initialized |-> FALSE, alias |-> FALSE]
Idle == [obj |-> 0, at |-> 0]
HeapAt(ref) == heaps[ref[1]][ref[2]]
End(s) == s.offset + s.size
HeapRefs == UNION {{<<t, i>> : i \in DOMAIN heaps[t]} : t \in Threads}

-----------------------------------------------------------------------------
(* Requirements: memory.cpp, prune_memory_flags, get_device_memory_type.     *)

\* What an object needs: as the device answers, or as faked for post-processing.
Needs(o) == IF run THEN [size |-> plan[o].size, align |-> plan[o].align, types |-> plan[o].types]
            ELSE [size |-> plan[o].size, align |-> 1, types |-> {1}]

\* The requirements on memory that several objects share: of a type that each of them
\* accepts, with what any of them asks for.
Merged(S) == [types |-> {i \in UNION {Needs(o).types : o \in S} : \A o \in S : i \in Needs(o).types},
              flags |-> UNION {plan[o].flags : o \in S},
              addr |-> \E o \in S : plan[o].addr,
              requires |-> run /\ \E o \in S : plan[o].want = "requires"]

PruneFlags(flags) == IF flags \cap {"HOST_COHERENT", "HOST_CACHED"} # {}
                     THEN flags \ {"DEVICE_LOCAL"} ELSE flags

\* The memory types that would do; without a device there is one that has everything.
Suitable(types, flags) == {i \in types : ~run \/ flags \subseteq MemoryTypes[i]}
TypeChoice(types, flags) ==
    LET first == Suitable(types, flags)
        simpler == Suitable(types, flags \ {"HOST_CACHED", "LAZILY_ALLOCATED"})
    IN IF first # {} THEN {Min(first)} ELSE IF simpler # {} THEN {Min(simpler)} ELSE {}

HostVisible(type) == ~run \/ "HOST_VISIBLE" \in MemoryTypes[type]

-----------------------------------------------------------------------------
(* Alias groups: objects whose captured ranges chain together.               *)

Backed == {o \in Objects : plan[o].kind # "session" /\ plan[o].backing # NoMemory /\ plan[o].capsize > 0}
CaptureEnd(o) == plan[o].offset + plan[o].capsize

\* capture_offset_less within one captured memory object.
Before(p, o) == /\ plan[p].backing = plan[o].backing
                /\ \/ plan[p].offset < plan[o].offset
                   \/ plan[p].offset = plan[o].offset /\ plan[p].rank < plan[o].rank

\* An object starts a new cluster when every earlier range has ended before it.
Starts(o) == \A p \in Backed : Before(p, o) => CaptureEnd(p) <= plan[o].offset
First(o) == CHOOSE l \in Backed :
                /\ Starts(l) /\ (l = o \/ Before(l, o))
                /\ \A m \in Backed : Starts(m) /\ (m = o \/ Before(m, o)) => m = l \/ Before(m, l)

\* The groups of prepare_alias_groups: clusters of more than one object.
AliasLeaders ==
    [o \in Objects |-> IF o \in Backed /\ \E q \in Backed \ {o} : First(q) = First(o) THEN First(o) ELSE 0]

Members(l) == {o \in Objects : leader[o] = l}
Aliased == {o \in Objects : leader[o] # 0}
Groups == {leader[o] : o \in Aliased}

\* A slip: members packed at the start of the group's memory.
RelativeOffsetPacked(o) == 0

RelativeOffset(o) == plan[o].offset - plan[leader[o]].offset
GroupSize(l) == Max({RelativeOffset(o) + Needs(o).size : o \in Members(l)})
GroupReqs(l) == Merged(Members(l))

\* prepare_alias_groups gives up when a group cannot be laid out as it was captured.
CanPrepare ==
    \A l \in Groups :
        /\ \A o \in Members(l) : RelativeOffset(o) % Needs(o).align = 0
        /\ GroupReqs(l).types # {}
        /\ ~GroupReqs(l).requires

\* Dedicated allocations: all required ones, then preferred ones while the budget
\* that alias groups and required ones leave lasts; without a device, everything.
Dedicated ==
    LET single == {o \in Objects \ Aliased : plan[o].kind # "session"}
        required == {o \in single : plan[o].want = "requires"}
        wishes == {o \in single : plan[o].want = "prefers" \/ (plan[o].want = "no" /\ plan[o].addr)}
        budget == MaxAllocations - Cardinality(Groups) - Cardinality(required)
        ahead(o) == {p \in wishes : plan[p].rank < plan[o].rank}
    IN IF run THEN required \cup {o \in wishes : Cardinality(ahead(o)) < budget} ELSE single

\* create, first half: the requirements of every object are known, objects are grouped.
PrepareAliasGroups ==
    /\ state = "none"
    /\ state' = "planned"
    /\ leader' = AliasLeaders
    /\ UNCHANGED <<plan, run, mixed, dedicated, heaps, lookup, home, stage, pc, virtualswap, devmem, inspected, failures>>

\* The rest of create: the groups must be possible, then dedicated allocations are dealt out.
Create ==
    /\ state = "planned"
    /\ IF CanPrepare THEN /\ state' = "live"
                          /\ dedicated' = Dedicated
                     ELSE state' = "aborted" /\ UNCHANGED dedicated
    /\ UNCHANGED <<plan, run, mixed, heaps, lookup, leader, home, stage, pc, virtualswap, devmem, inspected, failures>>

-----------------------------------------------------------------------------
(* Placing an object.                                                        *)

Sub(o, off, size) == [obj |-> o, offset |-> off, size |-> size]

\* A slip: memory believed to be initialised as soon as it is bound.
BoundInitialized(ref, off, size, alias) ==
    [home |-> ref, offset |-> off, size |-> size, initialized |-> TRUE, alias |-> alias]

\* bind: the lookup of an object; group memory was cleared when it was allocated.
Bound(ref, off, size, alias) ==
    [home |-> ref, offset |-> off, size |-> size, initialized |-> alias, alias |-> alias]

\* allocate: a heap of its own for a dedicated object or an alias group, of at least
\* min_heap_size otherwise.  Fresh memory holds anything.
NewHeap(o, size, type, flags, tiling, addr, kind, fill) ==
    LET total == IF kind = "shared" THEN Max({MinHeap, size}) ELSE size
    IN [mem |-> TRUE, total |-> total, free |-> total - size, type |-> type, flags |-> flags,
        tiling |-> tiling, addr |-> addr, kind |-> kind, subs |-> <<Sub(o, 0, size)>>,
        deletes |-> {}, bytes |-> [b \in 0..total-1 |-> fill]]

\* The walk over a heap's suballocations: those with a delete queued for them go, and
\* their bytes are free again.
Walked(h) ==
    LET walk[n \in 0..Len(h.subs)] ==
            IF n = 0 THEN [subs |-> <<>>, free |-> h.free]
            ELSE IF h.subs[n].offset \in h.deletes
            THEN [walk[n-1] EXCEPT !.free = @ + h.subs[n].size]
            ELSE [walk[n-1] EXCEPT !.subs = Append(@, h.subs[n])]
    IN walk[Len(h.subs)]

\* A heap after its owner has applied the deletes queued for it.
Drained(h) ==
    LET left == Walked(h)
    IN IF h.deletes = {} THEN h
       ELSE IF h.kind = "dedicated" /\ left.subs = <<>> /\ h.mem
       THEN [h EXCEPT !.subs = <<>>, !.deletes = {}, !.mem = FALSE, !.free = 0, !.total = 0, !.bytes = <<>>]
       ELSE [h EXCEPT !.subs = left.subs, !.deletes = {}, !.free = left.free]

\* A slip: the tiling of the heap is not looked at.
EligibleAnyTiling(h, o, type, flags) ==
    /\ h.mem /\ h.kind = "shared"
    /\ flags \subseteq h.flags /\ (plan[o].addr => h.addr)
    /\ h.free >= Needs(o).size /\ h.type = type

\* May the object go into this heap at all?
Eligible(h, o, type, flags) ==
    /\ h.mem /\ h.kind = "shared"
    /\ flags \subseteq h.flags
    /\ plan[o].addr => h.addr
    /\ h.free >= Needs(o).size
    /\ h.type = type
    /\ h.tiling = plan[o].tiling \/ mixed

RoundUp(x, a) == ((x + a - 1) \div a) * a

\* The gap after the k-th suballocation, from its first aligned offset (std::align).
GapStart(h, k, align) == RoundUp(End(h.subs[k]), align)
GapEnd(h, k) == IF k = Len(h.subs) THEN h.total ELSE h.subs[k+1].offset
\* A slip: the padding that alignment needs is forgotten.
HolesUnpadded(h, o) == {k \in DOMAIN h.subs : End(h.subs[k]) + Needs(o).size <= GapEnd(h, k)}
Holes(h, o) == {k \in DOMAIN h.subs : GapStart(h, k, Needs(o).align) + Needs(o).size <= GapEnd(h, k)}

\* A slip: any hole at the front is taken.
SpotFront(h, o) == IF h.subs = <<>> THEN 0 ELSE IF h.subs[1].offset > 0 THEN 0
                   ELSE IF Holes(h, o) # {} THEN Min(Holes(h, o)) ELSE -1

\* Where the object goes: 0 stands for the front of the heap, k for after the k-th, -1 for nowhere.
Spot(h, o) == IF h.subs = <<>> THEN 0
              ELSE IF h.subs[1].offset >= Needs(o).size THEN 0
              ELSE IF Holes(h, o) # {} THEN Min(Holes(h, o)) ELSE -1

\* A slip: the space is not taken off the books.
InsertUncounted(h, k, s) ==
    [h EXCEPT !.subs = SubSeq(h.subs, 1, k) \o <<s>> \o SubSeq(h.subs, k + 1, Len(h.subs))]

Insert(h, k, s) == [h EXCEPT !.subs = SubSeq(h.subs, 1, k) \o <<s>> \o SubSeq(h.subs, k + 1, Len(h.subs)),
                             !.free = h.free - s.size]

MemoryType(o) == TypeChoice(Needs(o).types, PruneFlags(plan[o].flags))
WantsDedicated(o) == IF plan[o].kind = "session" THEN plan[o].want = "requires" ELSE o \in dedicated

\* The device refuses an allocation or a mapping, or no memory type will do.
Abort == /\ state' = "aborted"
         /\ UNCHANGED <<device, heaps, lookup, home, stage, pc, virtualswap, devmem, inspected>>

AllocateFails(t) ==
    /\ state = "live" /\ failures < MaxFailures /\ run
    /\ pc[t] # Idle /\ pc[t].at > Len(heaps[t])
    /\ failures' = failures + 1
    /\ Abort

\* The object gets a heap of its own (allocate): thread t's newest heap.
OwnHeap(t, o, kind) ==
    LET size == Needs(o).size
    IN \E type \in MemoryType(o) :
        /\ heaps' = [heaps EXCEPT ![t] =
                Append(@, NewHeap(o, size, type, PruneFlags(plan[o].flags), plan[o].tiling, plan[o].addr, kind, Junk))]
        /\ lookup' = [lookup EXCEPT ![o] = Bound(<<t, Len(heaps[t]) + 1>>, 0, size, FALSE)]
        /\ stage' = [stage EXCEPT ![o] = "bound"]
        /\ devmem' = devmem + 1

\* add_trackedobject or add_datagraphpipelinesession of an object with a dedicated allocation.
AddDedicated(t, o) ==
    /\ state = "live" /\ pc[t] = Idle /\ stage[o] = "new" /\ WantsDedicated(o) /\ o \notin Aliased
    /\ OwnHeap(t, o, "dedicated")
    /\ UNCHANGED <<state, device, home, pc, virtualswap, inspected, failures>>

\* add_trackedobject of a member of an alias group, under the group's mutex.  The first
\* one allocates the group's memory on its own thread and clears it if it is mapped.
AddAliased(t, o) ==
    LET l == leader[o]
        reqs == GroupReqs(l)
        flags == PruneFlags(reqs.flags)
        fresh == home[l] = NoHome
        ref == IF fresh THEN <<t, Len(heaps[t]) + 1>> ELSE home[l]
    IN /\ state = "live" /\ pc[t] = Idle /\ stage[o] = "new" /\ o \in Aliased
       /\ \/ /\ ~fresh
             /\ UNCHANGED <<heaps, home, devmem>>
          \/ /\ fresh
             /\ \E type \in TypeChoice(reqs.types, flags) :
                  heaps' = [heaps EXCEPT ![t] =
                      Append(@, NewHeap(l, GroupSize(l), type, flags, plan[l].tiling, reqs.addr, "alias",
                                        IF HostVisible(type) THEN Zero ELSE Junk))]
             /\ home' = [home EXCEPT ![l] = ref]
             /\ devmem' = devmem + 1
       /\ lookup' = [lookup EXCEPT ![o] = Bound(ref, RelativeOffset(o), Needs(o).size, TRUE)]
       /\ stage' = [stage EXCEPT ![o] = "bound"]
       /\ UNCHANGED <<state, device, pc, virtualswap, inspected, failures>>

\* No memory type has what the object needs, not even without the optional flags.
NoMemoryType(t, o) ==
    /\ state = "live" /\ pc[t] = Idle /\ stage[o] = "new"
    /\ \/ o \in Aliased /\ home[leader[o]] = NoHome
          /\ TypeChoice(GroupReqs(leader[o]).types, PruneFlags(GroupReqs(leader[o]).flags)) = {}
       \/ o \notin Aliased /\ MemoryType(o) = {}
    /\ Abort /\ UNCHANGED failures

\* suballocate begins: the thread will look at its heaps one after the other.
AddShared(t, o) ==
    /\ state = "live" /\ pc[t] = Idle /\ stage[o] = "new" /\ ~WantsDedicated(o) /\ o \notin Aliased
    /\ \A u \in Threads : pc[u].obj # o
    /\ MemoryType(o) # {}
    /\ pc' = [pc EXCEPT ![t] = [obj |-> o, at |-> 1]]
    /\ UNCHANGED <<state, device, heaps, lookup, home, stage, virtualswap, devmem, inspected, failures>>

\* One heap of the walk: apply its deletes, then place the object there if it fits.
VisitHeap(t) ==
    LET o == pc[t].obj
        i == pc[t].at
        h == Drained(heaps[t][i])
        spot == Spot(h, o)
        off == IF spot = 0 THEN 0 ELSE GapStart(h, spot, Needs(o).align)
        placed == Eligible(h, o, Min(MemoryType(o)), PruneFlags(plan[o].flags)) /\ spot # -1
        size == Needs(o).size
    IN /\ state = "live" /\ pc[t] # Idle /\ i <= Len(heaps[t])
       /\ devmem' = IF heaps[t][i].mem /\ ~h.mem THEN devmem - 1 ELSE devmem
       /\ \/ /\ placed
             /\ heaps' = [heaps EXCEPT ![t][i] = Insert(h, spot, Sub(o, off, size))]
             /\ lookup' = [lookup EXCEPT ![o] = Bound(<<t, i>>, off, size, FALSE)]
             /\ stage' = [stage EXCEPT ![o] = "bound"]
             /\ pc' = [pc EXCEPT ![t] = Idle]
          \/ /\ ~placed
             /\ heaps' = [heaps EXCEPT ![t][i] = h]
             /\ pc' = [pc EXCEPT ![t].at = i + 1]
             /\ UNCHANGED <<lookup, stage>>
       /\ UNCHANGED <<state, device, home, virtualswap, inspected, failures>>

\* No heap had room: a new one.
NewSharedHeap(t) ==
    /\ state = "live" /\ pc[t] # Idle /\ pc[t].at > Len(heaps[t])
    /\ OwnHeap(t, pc[t].obj, "shared")
    /\ pc' = [pc EXCEPT ![t] = Idle]
    /\ UNCHANGED <<state, device, home, virtualswap, inspected, failures>>

-----------------------------------------------------------------------------
(* Freeing: any thread queues the offset, the owning thread applies it later. *)

Release(S) ==
    /\ heaps' = [t \in Threads |-> [i \in DOMAIN heaps[t] |->
          [heaps[t][i] EXCEPT !.deletes = @ \cup
              {lookup[o].offset : o \in {p \in S : lookup[p].home = <<t, i>> /\ ~lookup[p].alias}}]]]
    /\ lookup' = [o \in Objects |-> IF o \in S THEN [lookup[o] EXCEPT !.home = NoHome] ELSE lookup[o]]
    /\ stage' = [o \in Objects |-> IF o \in S THEN "freed" ELSE stage[o]]

\* free_image, free_buffer, free_tensor: also of an object that was never bound.
Free(o) ==
    /\ state = "live" /\ plan[o].kind # "session"
    /\ stage[o] # "freed" /\ \A t \in Threads : pc[t].obj # o
    /\ Release({o})
    /\ UNCHANGED <<state, device, home, pc, virtualswap, devmem, inspected, failures>>

\* free_datagraphpipelinesession: everything bound to the session.
FreeSession(n) ==
    LET bindings == {o \in Objects : plan[o].kind = "session" /\ plan[o].session = n}
    IN /\ state = "live" /\ bindings # {} /\ \E o \in bindings : stage[o] # "freed"
       /\ \A t \in Threads : pc[t].obj \notin bindings
       /\ Release(bindings)
       /\ UNCHANGED <<state, device, home, pc, virtualswap, devmem, inspected, failures>>

-----------------------------------------------------------------------------
(* Looking up: find_image_memory, find_buffer_memory, find_tensor_memory and  *)
(* find_datagraphpipelinesession_memory report once that memory is untouched. *)

Extent(o) == lookup[o].offset .. lookup[o].offset + lookup[o].size - 1
HeapOf(o) == HeapAt(lookup[o].home)
Found(S) == lookup' = [o \in Objects |-> IF o \in S THEN [lookup[o] EXCEPT !.initialized = TRUE] ELSE lookup[o]]

\* What the memory of an object holds when an update is applied to it: the map step
\* clears it if this is the first time anyone asked.
Cleared(o) == [b \in DOMAIN HeapOf(o).bytes |->
                  IF b \in Extent(o) /\ ~lookup[o].initialized THEN Zero ELSE HeapOf(o).bytes[b]]

\* image_update, buffer_update, tensor_update: mem_map and the patch.
Update(o) ==
    LET ref == lookup[o].home
    IN /\ state = "live" /\ stage[o] = "bound" /\ "HOST_VISIBLE" \in plan[o].flags
       /\ Found({o})
       /\ heaps' = [heaps EXCEPT ![ref[1]][ref[2]].bytes =
                       [b \in DOMAIN Cleared(o) |-> IF b \in Extent(o) THEN o ELSE Cleared(o)[b]]]
       /\ UNCHANGED <<state, device, home, stage, pc, virtualswap, devmem, inspected, failures>>

\* Other code that asks where an object is (address translation, execution of commands).
Inspect(o) ==
    /\ state = "live" /\ stage[o] = "bound" /\ ~lookup[o].initialized
    /\ plan[o].kind = "buffer" \/ (plan[o].kind = "image" /\ ~run)
    /\ Found({o})
    /\ inspected' = inspected \cup {o}
    /\ UNCHANGED <<state, device, heaps, home, stage, pc, virtualswap, devmem, failures>>

\* Every object in a heap that is not waiting to be deleted.
Kept == {s.obj : s \in UNION {UNION {{h.subs[k] : k \in {k \in DOMAIN h.subs : h.subs[k].offset \notin h.deletes}}
                  : h \in {heaps[t][i] : i \in {i \in DOMAIN heaps[t] : heaps[t][i].kind # "alias"}}} : t \in Threads}}

\* self_test, asked for over the command-line service while every thread is paused.
SelfTest ==
    /\ state = "live" /\ \A t \in Threads : pc[t] = Idle
    /\ \E o \in Kept : ~lookup[o].initialized
    /\ Found(Kept)
    /\ inspected' = inspected \cup {o \in Kept : ~lookup[o].initialized}
    /\ UNCHANGED <<state, device, heaps, home, stage, pc, virtualswap, devmem, failures>>

\* virtualswap_images: memory of its own for each virtual swapchain image.
VirtualSwapImages(n) ==
    /\ state = "live" /\ run /\ virtualswap + n <= MaxSwap
    /\ virtualswap' = virtualswap + n
    /\ devmem' = devmem + n
    /\ UNCHANGED <<state, device, heaps, lookup, home, stage, pc, inspected, failures>>

\* A slip: the memory of virtual swapchain images is forgotten.
DestroyKeepsSwap ==
    /\ state = "live" /\ \A t \in Threads : pc[t] = Idle
    /\ state' = "destroyed"
    /\ devmem' = devmem - Cardinality({r \in HeapRefs : HeapAt(r).mem})
    /\ heaps' = [t \in Threads |-> <<>>] /\ lookup' = [o \in Objects |-> NoLookup]
    /\ home' = [o \in Objects |-> NoHome] /\ leader' = [o \in Objects |-> 0]
    /\ virtualswap' = 0
    /\ UNCHANGED <<plan, run, mixed, dedicated, stage, pc, inspected, failures>>

\* destroy
Destroy ==
    /\ state = "live" /\ \A t \in Threads : pc[t] = Idle
    /\ state' = "destroyed"
    /\ devmem' = devmem - virtualswap - Cardinality({r \in HeapRefs : HeapAt(r).mem})
    /\ heaps' = [t \in Threads |-> <<>>]
    /\ lookup' = [o \in Objects |-> NoLookup]
    /\ home' = [o \in Objects |-> NoHome]
    /\ leader' = [o \in Objects |-> 0]
    /\ virtualswap' = 0
    /\ UNCHANGED <<plan, run, mixed, dedicated, stage, pc, inspected, failures>>

-----------------------------------------------------------------------------
Init ==
    /\ state = "none"
    /\ plan \in Plans /\ run \in Runs /\ mixed \in Mixed
    /\ run \/ mixed
    /\ dedicated = {} /\ inspected = {}
    /\ heaps = [t \in Threads |-> <<>>]
    /\ lookup = [o \in Objects |-> NoLookup]
    /\ home = [o \in Objects |-> NoHome]
    /\ leader = [o \in Objects |-> 0]
    /\ stage = [o \in Objects |-> "new"]
    /\ pc = [t \in Threads |-> Idle]
    /\ virtualswap = 0 /\ devmem = 0 /\ failures = 0

Stopped == state \in {"aborted", "destroyed"} /\ UNCHANGED vars

Next ==
    \/ PrepareAliasGroups \/ Create \/ Destroy \/ SelfTest \/ Stopped
    \/ \E t \in Threads :
        \/ VisitHeap(t) \/ NewSharedHeap(t) \/ AllocateFails(t)
        \/ \E o \in Objects : \/ AddDedicated(t, o) \/ AddAliased(t, o)
                              \/ AddShared(t, o) \/ NoMemoryType(t, o)
    \/ \E o \in Objects : \/ Free(o) \/ Inspect(o) \/ Update(o)
    \/ \E o \in Objects : FreeSession(plan[o].session)
    \/ \E n \in 1..MaxSwap : VirtualSwapImages(n)

Spec == Init /\ [][Next]_vars

-----------------------------------------------------------------------------
Live == {o \in Objects : lookup[o].home # NoHome}

TypeOK ==
    /\ state \in {"none", "planned", "live", "aborted", "destroyed"}
    /\ leader \in [Objects -> Objects \cup {0}]
    /\ dedicated \subseteq Objects /\ inspected \subseteq Objects
    /\ stage \in [Objects -> {"new", "bound", "freed"}]
    /\ \A o \in Objects : lookup[o].home \in HeapRefs \cup {NoHome} /\ home[o] \in HeapRefs \cup {NoHome}
    /\ \A t \in Threads : pc[t] \in [obj : Objects \cup {0}, at : Nat]
    /\ \A r \in HeapRefs : HeapAt(r).free \in 0..HeapAt(r).total

\* Two objects alive at the same time never share a byte of memory, unless they were
\* captured in one chain of overlapping ranges: what one replay thread frees, another one
\* may reuse only after the owner has applied the delete (suballocate, free_image).
NoOverlap ==
    \A o, q \in Live : o # q /\ lookup[o].home = lookup[q].home /\ Extent(o) \cap Extent(q) # {}
        => o \in Aliased /\ q \in Aliased /\ leader[o] = leader[q]

\* The bytes that self_test adds up over a list of suballocations.
Used(subs) ==
    LET used[n \in 0..Len(subs)] == IF n = 0 THEN 0 ELSE used[n-1] + subs[n].size
    IN used[Len(subs)]

\* What self_test asserts of every heap and every lookup, at every step rather than when
\* the command asks: the books add up, suballocations are in order and inside the heap, an
\* object that is in use is found in its heap at the place the lookup says.
BooksBalance ==
    /\ \A r \in HeapRefs :
        LET h == HeapAt(r) IN
        /\ h.free + Used(h.subs) = h.total
        /\ \A k \in DOMAIN h.subs : End(h.subs[k]) <= GapEnd(h, k)
        /\ h.kind # "alias" => \A k \in DOMAIN h.subs :
             h.subs[k].offset \in h.deletes
             \/ LET l == lookup[h.subs[k].obj]
                IN l.home = r /\ l.offset = h.subs[k].offset /\ l.size = h.subs[k].size
    /\ \A o \in Live : LET h == HeapOf(o) IN
        /\ h.mem
        /\ lookup[o].offset + lookup[o].size <= h.total
        /\ ~lookup[o].alias => \E k \in DOMAIN h.subs : h.subs[k] = Sub(o, lookup[o].offset, lookup[o].size)

\* The heaps are sound while threads create and destroy objects in each other's
\* heaps: objects are apart and the books describe them (suballocate, free_image,
\* self_test).
HeapsSound == TypeOK /\ NoOverlap /\ BooksBalance

\* Wherever an object ends up, the place is one the device accepts for it: aligned, of an
\* allowed memory type with the flags that updates rely on, addressable if it must be, and
\* never next to an object of the other tiling when the device cannot mix them.
PlacedAsRequired ==
    \A o \in Live : LET h == HeapOf(o) IN
        /\ lookup[o].offset % Needs(o).align = 0
        /\ h.type \in Needs(o).types
        /\ "HOST_VISIBLE" \in plan[o].flags => HostVisible(h.type)
        /\ plan[o].addr => h.addr
        /\ plan[o].want = "requires" /\ run => h.kind = "dedicated"
        /\ ~mixed /\ o \notin Aliased =>
             \A q \in Live : lookup[q].home = lookup[o].home => plan[q].tiling = plan[o].tiling

\* Aliased objects keep the distance they had at capture, whichever threads bind them.
AliasDistanceKept ==
    \A o, q \in Live : o \in Aliased /\ q \in Aliased /\ leader[o] = leader[q] =>
        /\ lookup[o].home = lookup[q].home
        /\ lookup[o].offset - lookup[q].offset = plan[o].offset - plan[q].offset

\* Every device allocation is either held by a heap or a virtual swapchain, and none is
\* left, or freed twice, once the device is gone.
MemoryAccounted ==
    devmem = virtualswap + Cardinality({r \in HeapRefs : HeapAt(r).mem})

\* The memory an update is applied to holds zeros or what earlier updates of the object (or
\* of its alias group) left there: the patch is a difference against zeros (mem_map).
CleanFor(o) ==
    LET mine == IF o \in Aliased THEN Members(leader[o]) ELSE {o}
    IN \A b \in Extent(o) : Cleared(o)[b] \in {Zero} \cup mine
PatchBaseClean ==
    \A o \in Live \ inspected : "HOST_VISIBLE" \in plan[o].flags => CleanFor(o)

=============================================================================
