--------------------------- MODULE MCSuballocator ---------------------------
(* Instances of Suballocator: four objects on two threads, five plans.        *)
EXTENDS Suballocator, TLC

ThreadSymmetry == Permutations(Threads)

Host == {"HOST_VISIBLE", "HOST_COHERENT"}

Obj(kind, rank, size, align, types, flags, tiling, want) ==
    [kind |-> kind, session |-> 0, rank |-> rank, size |-> size, align |-> align, types |-> types,
     flags |-> flags, tiling |-> tiling, addr |-> FALSE, want |-> want,
     backing |-> NoMemory, offset |-> 0, capsize |-> 0]
InMemory(o, mem, off, capsize) == [o EXCEPT !.backing = mem, !.offset = off, !.capsize = capsize]
WithAddress(o) == [o EXCEPT !.addr = TRUE]
OfSession(o, n) == [o EXCEPT !.session = n]

\* Buffers and images of several sizes and alignments, no aliasing.
PlainPlan == <<Obj("buffer", 4, 1, 1, {1, 2}, Host, "linear", "no"),
               Obj("buffer", 5, 3, 2, {1, 2}, Host, "linear", "no"),
               Obj("image", 1, 2, 4, {2}, {}, "optimal", "no"),
               Obj("tensor", 6, 2, 2, {2}, {}, "linear", "no")>>

\* Dedicated allocations, required and preferred, addressable buffers and a session.
DedicatedPlan == <<Obj("image", 1, 3, 4, {1}, {"DEVICE_LOCAL"}, "optimal", "requires"),
                   WithAddress(Obj("buffer", 4, 2, 2, {2}, Host, "linear", "no")),
                   WithAddress(Obj("buffer", 5, 2, 2, {2}, {}, "linear", "prefers")),
                   OfSession(Obj("session", 7, 2, 1, {2}, {"HOST_CACHED"}, "linear", "prefers"), 1)>>

\* A chain of captured ranges: 1 overlaps 2, 2 overlaps 3, 4 starts where 3 ends.
AliasPlan == <<InMemory(Obj("buffer", 4, 3, 1, {1, 2}, Host, "linear", "no"), 1, 0, 3),
               InMemory(Obj("image", 1, 3, 2, {2}, Host, "optimal", "prefers"), 1, 2, 2),
               InMemory(Obj("buffer", 5, 2, 1, {2}, {"HOST_VISIBLE"}, "linear", "no"), 1, 3, 1),
               InMemory(Obj("buffer", 6, 2, 1, {2}, Host, "linear", "no"), 1, 4, 2)>>

\* Cannot be replayed: a required dedicated allocation inside a group, no memory type.
BrokenPlan == <<InMemory(Obj("buffer", 4, 2, 1, {1}, {"DEVICE_LOCAL"}, "linear", "no"), 1, 0, 2),
                InMemory(Obj("image", 1, 2, 1, {1}, {"DEVICE_LOCAL"}, "optimal", "requires"), 1, 1, 2),
                Obj("buffer", 5, 2, 1, {1}, {"LAZILY_ALLOCATED"}, "linear", "no"),
                OfSession(Obj("session", 7, 1, 1, {2}, Host, "linear", "no"), 1)>>
NoTypePlan == <<InMemory(Obj("buffer", 4, 2, 1, {1}, Host, "linear", "no"), 1, 0, 2),
                InMemory(Obj("buffer", 5, 2, 1, {1}, {}, "linear", "no"), 1, 1, 2),
                OfSession(Obj("session", 7, 1, 1, {2}, Host, "linear", "requires"), 1),
                OfSession(Obj("session", 8, 2, 1, {1}, {"LAZILY_ALLOCATED"}, "linear", "no"), 1)>>

MCPlans == {PlainPlan, DedicatedPlan, AliasPlan, BrokenPlan, NoTypePlan}
MCMemoryTypes == <<{"DEVICE_LOCAL"}, {"HOST_VISIBLE", "HOST_COHERENT"}>>
=============================================================================
