------------------------------- MODULE GfxrImport -------------------------------
(* lava-gfxr-import (gfxreconstruct_import.cpp) turns the blocks of a             *)
(* gfxreconstruct capture into packets. That capture knows what the host wrote to *)
(* memory, a trace knows what it wrote to objects: updates are cut up among the   *)
(* objects bound there, or kept until one is. Each capturing thread gets a stream *)
(* of its own; stream 0 is for commands that belong to no thread. What replay     *)
(* makes of the packets is applied as they are written: packets about one object  *)
(* replay in that order, which is CaptureReplay's subject. Bytes hold the number  *)
(* of the block that wrote them; an address takes AddressSize bytes.              *)
EXTENDS Integers, Sequences, FiniteSets

CONSTANTS
    MaxThreads,     \* bound: threads of the capture, named in the order of their first block
    QueueKnown,     \* the capture has asked for the queue the builds go to
    Resources,      \* [object -> [size, buffer: whether it is a buffer]]
    Memories,       \* [memory -> whether it is host visible]
    MemorySize,
    AddressSize,
    Places,         \* memory and offset of the bindings
    Spans,          \* first byte and number of bytes of the updates
    FixupOffsets,   \* places of addresses in memory
    InstanceSize, ReferenceOffset,  \* of an acceleration structure instance
    InitSizes, InstanceCounts,      \* bytes of an initialization, instances of a build
    MaxBlocks       \* bound: blocks in the capture

ASSUME ImportAssumption ==
    /\ MaxThreads \in Nat /\ MaxBlocks \in Nat /\ InstanceCounts \subseteq Nat /\ InitSizes \subseteq Nat
    /\ IsFiniteSet(DOMAIN Resources)
    /\ \A o \in DOMAIN Resources : Resources[o].size \in Nat /\ Resources[o].buffer \in BOOLEAN
    /\ MemorySize \in Nat /\ AddressSize \in Nat /\ FixupOffsets \subseteq Nat
    /\ Places \subseteq [memory : DOMAIN Memories, offset : Nat]
    /\ Spans \subseteq [first : Nat, n : Nat]
    /\ InstanceSize \in Nat /\ ReferenceOffset \in Nat /\ ReferenceOffset + AddressSize <= InstanceSize

VARIABLES
    out,        \* lava_writer: number of streams, their packets, what each has waited for
    active,     \* threadless_metacommands_active
    building,   \* a command buffer for acceleration structures exists
    fixups,     \* device_address_fixups
    usage,      \* where each object is bound, as a set of at most one place
    dead,       \* destroyed objects
    retained,   \* import_updates of each memory
    replayed,   \* what replay has in each object, and when its allocator first cleared it
    blocks,     \* blocks imported
    hostWrites,   \* history: last write to each byte of memory
    since,      \* history: block that bound the object
    before      \* history: packets when the last region of threadless commands began

gxvars == <<out, active, building, fixups, usage, dead, retained, replayed, blocks, hostWrites, since, before>>
\* What blocks that touch no memory leave alone.
contents == <<fixups, usage, dead, retained, replayed, hostWrites, since>>

Objects == DOMAIN Resources
Bytes == 0..(MemorySize - 1)
ImportStreams == 0..MaxThreads
NoWord == -1
Unwritten == [block |-> 0, word |-> NoWord, by |-> "none"]
Cell(n, fixed) == [block |-> n, fixed |-> fixed]

GxInit ==
    /\ out = [streams |-> 1,
              packets |-> [s \in ImportStreams |-> IF s = 0 THEN 1 ELSE 0],    \* stream 0 starts with a barrier
              after |-> [s \in ImportStreams |-> [u \in ImportStreams |-> 0]]]
    /\ active = FALSE
    /\ building = FALSE
    /\ fixups = [m \in DOMAIN Memories |-> {}]
    /\ usage = [o \in Objects |-> {}]
    /\ dead = {}
    /\ retained = [m \in DOMAIN Memories |-> <<>>]
    /\ replayed = [o \in Objects |-> [bytes |-> [i \in 0..(Resources[o].size - 1) |-> Cell(0, FALSE)],
                                      first |-> 0]]
    /\ blocks = 0
    /\ hostWrites = [m \in DOMAIN Memories |-> [j \in Bytes |-> Unwritten]]
    /\ since = [o \in Objects |-> 0]
    /\ before = [s \in ImportStreams |-> 0]

--------------------------------------------------------------------------------
(* ImportStreams *)

\* n packets on stream s of the writer w.
Packets(w, s, n) == [w EXCEPT !.packets[s] = @ + n]

\* import_thread_endpoints and write_thread_barrier: what stream s writes next replays
\* after everything written so far.
ImportBarrier(w, s, endpoints) ==
    [Packets(w, s, 1) EXCEPT !.after[s] = endpoints]

\* ImportStreams of threads met so far, and the one a new thread would get.
ImportThreads(w) == 1..(w.streams - 1)
GfxrThreads == 1..(IF out.streams <= MaxThreads THEN out.streams ELSE MaxThreads)

import_select_thread(w, t) ==
    IF t < w.streams THEN w ELSE ImportBarrier([w EXCEPT !.streams = @ + 1], t, w.packets)

Region == active' = TRUE /\ before' = IF active THEN before ELSE out.packets
import_threadless_metacommand_begin(w) == IF active THEN w ELSE ImportBarrier(w, 0, w.packets)

\* Mutant: only threads that have written something since are stopped.
import_threadless_metacommand_endSome(w) ==
    [w EXCEPT !.packets = [s \in ImportStreams |-> IF s \in ImportThreads(w) THEN @[s] + 1 ELSE @[s]],
              !.after = [s \in ImportStreams |-> IF s \in ImportThreads(w) /\ s > 1 THEN w.packets ELSE @[s]]]
import_threadless_metacommand_end(w) ==
    [w EXCEPT !.packets = [s \in ImportStreams |-> IF s \in ImportThreads(w) THEN @[s] + 1 ELSE @[s]],
              !.after = [s \in ImportStreams |-> IF s \in ImportThreads(w) THEN w.packets ELSE @[s]]]

--------------------------------------------------------------------------------
(* Updates *)

Bound(o, m) == \E p \in usage[o] : p.memory = m
Offset(o) == (CHOOSE p \in usage[o] : TRUE).offset
Inside(j, span) == j >= span.first /\ j < span.first + span.n
ObjectSpan(o, offset) == [first |-> offset, n |-> Resources[o].size]

\* The part of an update that lies in an object: bytes of the memory, empty if n is 0.
Overlap(update, span) ==
    LET first == IF update.first > span.first THEN update.first ELSE span.first
        last == IF update.first + update.n < span.first + span.n
                THEN update.first + update.n ELSE span.first + span.n
    IN [first |-> first, n |-> IF first < last THEN last - first ELSE 0]

\* Addresses that lie in the span as a whole.
\* Mutant: an address that starts in it will do.
WholeWordsFrom(words, span) == {f \in words : Inside(f, span)}
WholeWords(words, span) == {f \in words : f >= span.first /\ f + AddressSize <= span.first + span.n}
InWord(j, words) == \E f \in words : j \in f..(f + AddressSize - 1)

\* buffer_update, image_update and tensor_update on replay: the allocator clears an
\* object before the first update it sees, then the bytes go in and marked words become
\* addresses of this run.
Patched(object, offset, part, n, words) ==
    [bytes |-> [i \in DOMAIN object.bytes |->
                    IF Inside(offset + i, part) THEN Cell(n, InWord(offset + i, words))
                    ELSE IF object.first = 0 THEN Cell(0, FALSE) ELSE object.bytes[i]],
     first |-> IF object.first = 0 THEN n ELSE object.first]

\* Mutant: the updates kept for a memory are written newest first.
ReplayRetainedReversed(object, kept, span, n) ==
    LET hits == {k \in DOMAIN kept : Overlap(kept[k].span, span).n > 0}
        First(j) == CHOOSE k \in hits : Inside(j, kept[k].span) /\ \A l \in hits : Inside(j, kept[l].span) => l >= k
    IN IF hits = {} THEN object
       ELSE [bytes |-> [i \in DOMAIN object.bytes |->
                            IF \E k \in hits : Inside(span.first + i, kept[k].span)
                            THEN Cell(kept[First(span.first + i)].block, FALSE)
                            ELSE Cell(0, FALSE)],
             first |-> n]
\* finish_import_binding: the updates that waited, oldest first and without their fixups.
ReplayRetained(object, kept, span, n) ==
    LET hits == {k \in DOMAIN kept : Overlap(kept[k].span, span).n > 0}
        Last(j) == CHOOSE k \in hits : Inside(j, kept[k].span) /\ \A l \in hits : Inside(j, kept[l].span) => l <= k
    IN IF hits = {} THEN object
       ELSE [bytes |-> [i \in DOMAIN object.bytes |->
                            IF \E k \in hits : Inside(span.first + i, kept[k].span)
                            THEN Cell(kept[Last(span.first + i)].block, FALSE)
                            ELSE Cell(0, FALSE)],
             first |-> n]

Block == blocks < MaxBlocks /\ blocks' = blocks + 1

import_device_address_fixups(m, words) ==
    /\ Block
    /\ fixups' = [fixups EXCEPT ![m] = words]
    /\ UNCHANGED <<out, active, before, building, usage, dead, retained, replayed, hostWrites, since>>

import_memory_update(t, m, span) ==
    LET n == blocks + 1
        words == WholeWords(fixups[m], span)
        Part(o) == Overlap(span, ObjectSpan(o, Offset(o)))
        hit == {o \in Objects : Bound(o, m) /\ Part(o).n > 0}
        w == import_select_thread(out, t)
    IN /\ Block
       /\ fixups' = [fixups EXCEPT ![m] = {}]
       /\ IF ~Memories[m]
          THEN out' = w /\ UNCHANGED <<retained, replayed, hostWrites>>
          ELSE /\ out' = Packets(w, t, Cardinality(hit))
               /\ replayed' = [o \in Objects |->
                                  IF o \notin hit THEN replayed[o]
                                  ELSE Patched(replayed[o], Offset(o), Part(o), n,
                                               IF Resources[o].buffer THEN WholeWords(fixups[m], Part(o)) ELSE {})]
               /\ retained' = IF hit # {} THEN retained
                              ELSE [retained EXCEPT ![m] = Append(@, [span |-> span, block |-> n])]
               /\ hostWrites' = [hostWrites EXCEPT ![m] = [j \in Bytes |->
                                  IF Inside(j, span)
                                  THEN [block |-> n, by |-> "update",
                                        word |-> IF InWord(j, words)
                                                 THEN CHOOSE f \in words : j \in f..(f + AddressSize - 1)
                                                 ELSE NoWord]
                                  ELSE @[j]]]
       /\ UNCHANGED <<active, before, building, usage, dead, since>>

--------------------------------------------------------------------------------
(* Objects *)

\* prepare_import_binding dies of a second binding and of one that does not fit. Objects
\* that share memory are left out: a bound object is where no other one is.
Fits(o, p) ==
    /\ usage[o] = {} /\ o \notin dead
    /\ p.offset + Resources[o].size <= MemorySize
    /\ \A q \in Objects : Bound(q, p.memory)
          => Overlap(ObjectSpan(q, Offset(q)), ObjectSpan(o, p.offset)).n = 0

\* import_vkBind*Memory and the versions with several bindings: all are looked at, the
\* call is written, then each is entered and given the updates that waited for it.
import_bind(t, places, success) ==
    LET n == blocks + 1
        w == import_select_thread(out, t)
        Waiting(o) == {k \in DOMAIN retained[places[o].memory] :
                          Overlap(retained[places[o].memory][k].span, ObjectSpan(o, places[o].offset)).n > 0}
        updates == {u \in (DOMAIN places) \X (1..MaxBlocks) : u[2] \in Waiting(u[1])}
    IN /\ Block
       /\ \A o \in DOMAIN places :
             /\ Fits(o, places[o])
             /\ \A q \in DOMAIN places \ {o} :
                   places[q].memory = places[o].memory
                      => Overlap(ObjectSpan(q, places[q].offset), ObjectSpan(o, places[o].offset)).n = 0
       /\ IF success
          THEN /\ out' = Packets(w, t, 1 + Cardinality(updates))
               /\ usage' = [o \in Objects |-> IF o \in DOMAIN places THEN {places[o]} ELSE usage[o]]
               /\ since' = [o \in Objects |-> IF o \in DOMAIN places THEN n ELSE since[o]]
               /\ replayed' = [o \in Objects |->
                                  IF o \notin DOMAIN places THEN replayed[o]
                                  ELSE ReplayRetained(replayed[o], retained[places[o].memory],
                                                      ObjectSpan(o, places[o].offset), n)]
          ELSE /\ out' = Packets(w, t, 1)
               /\ UNCHANGED <<usage, since, replayed>>
       /\ UNCHANGED <<active, before, building, fixups, dead, retained, hostWrites>>

\* vkDestroyBuffer, vkDestroyImage and vkDestroyTensorARM: the object leaves its memory.
trace_destroy(t, o) ==
    LET w == import_select_thread(out, t)
    IN /\ Block
       /\ usage[o] # {}
       /\ usage' = [usage EXCEPT ![o] = {}]
       /\ dead' = dead \cup {o}
       /\ out' = Packets(w, t, 1)
       /\ UNCHANGED <<active, before, building, fixups, retained, replayed, hostWrites, since>>

\* BUFFER_INITIALIZATION and IMAGE_INITIALIZATION packets on replay: a copy on the GPU,
\* past the allocator, of the first bytes of a buffer or of all levels of an image.
initialize_buffer_packet(object, n, size) ==
    [object EXCEPT !.bytes = [i \in DOMAIN @ |-> IF i < size THEN Cell(n, FALSE) ELSE @[i]]]
initialize_image_packet(object, n) == [object EXCEPT !.bytes = [i \in DOMAIN @ |-> Cell(n, FALSE)]]

\* History: size bytes of memory under the object are set by an initialization.
CapturedInitialization(o, n, size) ==
    [m \in DOMAIN Memories |-> [j \in Bytes |->
        IF Bound(o, m) /\ Inside(j, [first |-> Offset(o), n |-> size])
        THEN [block |-> n, word |-> NoWord, by |-> "initialization"]
        ELSE hostWrites[m][j]]]

import_buffer_initialization(t, o, size) ==
    LET w == import_select_thread(out, t)
    IN /\ Block
       /\ usage[o] # {} /\ Resources[o].buffer
       /\ size <= Resources[o].size
       /\ out' = Packets(w, t, 1)
       /\ replayed' = [replayed EXCEPT ![o] = initialize_buffer_packet(@, blocks + 1, size)]
       /\ hostWrites' = CapturedInitialization(o, blocks + 1, size)
       /\ UNCHANGED <<active, before, building, fixups, usage, dead, retained, since>>

import_image_initialization(t, o) ==
    LET w == import_select_thread(out, t)
    IN /\ Block
       /\ usage[o] # {} /\ ~Resources[o].buffer
       /\ out' = Packets(w, t, 1)
       /\ replayed' = [replayed EXCEPT ![o] = initialize_image_packet(@, blocks + 1)]
       /\ hostWrites' = CapturedInitialization(o, blocks + 1, Resources[o].size)
       /\ UNCHANGED <<active, before, building, fixups, usage, dead, retained, since>>

import_resource_initialization_begin(t) ==
    /\ Block
    /\ out' = import_select_thread(out, t)
    /\ UNCHANGED <<active, before, building, contents>>

\* finish_acceleration_structure_commands frees the command buffer and its pool.
Finished(w) == IF building THEN Packets(import_threadless_metacommand_begin(w), 0, 2) ELSE w
Parked(w) == IF active \/ building THEN import_threadless_metacommand_end(w) ELSE w

import_resource_initialization_end(t) ==
    /\ Block
    /\ out' = Parked(Finished(import_select_thread(out, t)))
    /\ active' = FALSE
    /\ building' = FALSE
    /\ UNCHANGED <<before, contents>>

\* main, when the capture ends.
FinishImport ==
    /\ blocks < MaxBlocks
    /\ blocks' = MaxBlocks
    /\ out' = Parked(Finished(out))
    /\ active' = FALSE
    /\ building' = FALSE
    /\ UNCHANGED <<before, contents>>

--------------------------------------------------------------------------------
(* Acceleration structures *)

\* import_acceleration_structure_command_buffer, made on first use (the queue may be
\* known from the capture), then begin, the commands, end, submit and wait.
Submitted(w, number) ==
    Packets(w, 0, (IF building THEN 0 ELSE IF QueueKnown THEN 3 ELSE 4) + number + 5)

\* import_acceleration_structure_instances writes the instances to the buffer they were
\* read from, every reference in them marked.
InstancePart(o, first, number) == [first |-> Offset(o) + first, n |-> number * InstanceSize]
InstanceReferences(o, first, number) ==
    {Offset(o) + first + k * InstanceSize + ReferenceOffset : k \in 0..(number - 1)}

import_acceleration_structures_build(o, first, number) ==
    LET n == blocks + 1
        part == InstancePart(o, first, number)
        words == InstanceReferences(o, first, number)
        some == number > 0
    IN /\ Block
       /\ \E m \in DOMAIN Memories : Memories[m] /\ Bound(o, m)
       /\ Resources[o].buffer
       /\ first + part.n <= Resources[o].size
       /\ out' = Submitted(Packets(import_threadless_metacommand_begin(out), 0, IF some THEN 1 ELSE 0),
                           1)
       /\ Region
       /\ building' = TRUE
       /\ replayed' = IF some THEN [replayed EXCEPT ![o] = Patched(@, Offset(o), part, n, words)]
                      ELSE replayed
       /\ hostWrites' = [m \in DOMAIN Memories |->
                          IF ~Bound(o, m) THEN hostWrites[m]
                          ELSE [j \in Bytes |->
                                  IF Inside(j, part)
                                  THEN [block |-> n, by |-> "update",
                                        word |-> IF InWord(j, words)
                                                 THEN CHOOSE f \in words : j \in f..(f + AddressSize - 1)
                                                 ELSE NoWord]
                                  ELSE hostWrites[m][j]]]
       /\ UNCHANGED <<fixups, usage, dead, retained, since>>

import_acceleration_structures_copy(number) ==
    /\ Block
    /\ out' = Submitted(import_threadless_metacommand_begin(out), number)
    /\ Region
    /\ building' = TRUE
    /\ UNCHANGED contents

import_acceleration_structure_write_properties ==
    /\ Block
    /\ out' = import_threadless_metacommand_begin(out)
    /\ Region
    /\ UNCHANGED <<building, contents>>

\* Any other call: set_captured_return_value selects the stream, the call is written.
ImportCall(t) ==
    LET w == import_select_thread(out, t)
    IN /\ Block
       /\ out' = Packets(w, t, 1)
       /\ UNCHANGED <<active, before, building, contents>>

--------------------------------------------------------------------------------
GxNext ==
    \/ \E m \in DOMAIN Memories, f \in FixupOffsets : import_device_address_fixups(m, {f})
    \/ \E t \in GfxrThreads, m \in DOMAIN Memories, s \in Spans : import_memory_update(t, m, s)
    \/ \E t \in GfxrThreads, S \in SUBSET Objects :
          /\ S # {}
          /\ \E places \in [S -> Places], success \in BOOLEAN : import_bind(t, places, success)
    \/ \E t \in GfxrThreads, o \in Objects : trace_destroy(t, o)
    \/ \E t \in GfxrThreads, o \in Objects, size \in InitSizes : import_buffer_initialization(t, o, size)
    \/ \E t \in GfxrThreads, o \in Objects : import_image_initialization(t, o)
    \/ \E t \in GfxrThreads : import_resource_initialization_begin(t)
    \/ \E t \in GfxrThreads : import_resource_initialization_end(t)
    \/ \E o \in Objects, first \in Bytes, number \in InstanceCounts :
          import_acceleration_structures_build(o, first, number)
    \/ \E number \in InstanceCounts \ {0} : import_acceleration_structures_copy(number)
    \/ import_acceleration_structure_write_properties
    \/ FinishImport
    \/ \E t \in GfxrThreads : ImportCall(t)

GxSpec == GxInit /\ [][GxNext]_gxvars

--------------------------------------------------------------------------------
(* Properties *)

\* A byte of an object, and the byte of memory it lies on.
Delivered(o, c) ==
    \/ c.block > since[o]
    \/ \E m \in DOMAIN Memories : \E k \in DOMAIN retained[m] : retained[m][k].block = c.block

\* What the host wrote last is what replay has in the object bound there, when the object
\* was bound before the write, or the write found nothing bound and had to wait
\* (import_memory_update, finish_import_binding). The exception is an initialization
\* packet: the first update after it clears what it had brought.
ImportedContents ==
    \A o \in Objects, m \in DOMAIN Memories : Bound(o, m) =>
        \A i \in DOMAIN replayed[o].bytes :
            LET c == hostWrites[m][Offset(o) + i]
            IN (/\ c.block > 0
                /\ Delivered(o, c)
                /\ c.by = "initialization" => replayed[o].first <= c.block)
               => replayed[o].bytes[i].block = c.block

\* Replay puts its own addresses into a buffer exactly where the capture says that an
\* address was written, whatever part of the update the buffer got
\* (markings of import_memory_update and import_acceleration_structure_instances).
ImportedAddresses ==
    \A o \in Objects, m \in DOMAIN Memories : Bound(o, m) =>
        \A i \in DOMAIN replayed[o].bytes :
            LET c == hostWrites[m][Offset(o) + i]
                whole == c.word >= Offset(o) /\ c.word + AddressSize <= Offset(o) + Resources[o].size
            IN (c.block > since[o] /\ c.by = "update")
               => (replayed[o].bytes[i].fixed <=> (Resources[o].buffer /\ c.word # NoWord /\ whole))

\* An imported trace leaves in every object the bytes and the addresses that the
\* capture had there.
ImportedMemory == ImportedContents /\ ImportedAddresses

\* Outside a region of commands without a thread, whatever a thread does next replays
\* after all those commands; inside one, the commands replay after all that the threads
\* had written before it (import_threadless_metacommand_begin and _end).
ThreadsParked ==
    /\ ~active => \A s \in ImportThreads(out) : out.after[s][0] = out.packets[0]
    /\ active => \A s \in ImportThreads(out) : out.after[0][s] >= before[s]
================================================================================
