---------------------------- MODULE HostMemory ----------------------------
(***************************************************************************)
(* How host writes to mapped memory reach the replay.                      *)
(*                                                                         *)
(* The tracer never sees the stores an application makes through a mapped  *)
(* pointer.  It keeps, for each VkDeviceMemory, the bytes that have been   *)
(* exposed to the host and a clone of what the replay already knows, and   *)
(* for each command buffer the ranges of objects it touches.  When work is *)
(* submitted, the exposed part of every touched range is compared with the *)
(* clone and the differences go into the trace as update packets, one per  *)
(* object and range.  With VK_ARM_explicit_host_updates the comparison is  *)
(* made when the application flushes, and not at submits.                  *)
(*                                                                         *)
(* One memory object is modelled: the tracer treats each on its own.  The  *)
(* replay applies a packet as soon as it is written, which is the order    *)
(* the ordering modules establish.                                         *)
(***************************************************************************)
EXTENDS RangeTracking, Folds

CONSTANTS
    allocationSize,  \* bytes of the memory object
    Word,            \* bytes compared at a time, 8 in the code
    Val,             \* values of a byte, 0 among them
    Garbage,         \* [bytes -> Val]: what a new allocation happens to hold
    Written,         \* the bytes the host writes to
    InitiallyBound,  \* objects bound before anything is mapped
    Object,          \* buffers, images and tensors bound to the memory
    Offset,          \* [Object -> where it is bound]
    Size,            \* [Object -> its size in bytes]
    Addressed,       \* objects whose device address the application asked for
    Cmdbuf,          \* command buffers
    Window,          \* <<offset, size>> pairs passed to map and flush
    Touch,           \* <<object, offset, size>>: the ranges commands name
    DescriptorMark,  \* offsets in memory the application marks as descriptors
    AddressMark,     \* offsets it marks as device addresses
    MaxMaps, MaxWrites, MaxTouches, MaxSubmits, MaxFlushes  \* bounds

WHOLE_SIZE == -1

Byte == 0 .. allocationSize - 1

ASSUME HostMemoryAssumption ==
    /\ allocationSize \in Nat \ {0} /\ Word \in Nat \ {0}
    /\ 0 \in Val /\ Val \subseteq Nat
    /\ Garbage \in [Byte -> Val] /\ Written \subseteq Byte
    /\ \A o \in Object : Offset[o] >= 0 /\ Size[o] > 0
                         /\ Offset[o] + Size[o] <= allocationSize
    /\ \A o, p \in Object : o # p =>
          Offset[o] + Size[o] <= Offset[p] \/ Offset[p] + Size[p] <= Offset[o]

VARIABLES
    coherent,   \* the memory type has HOST_COHERENT
    explicit,   \* the device was created with explicit_host_updates
    mem,        \* the memory's contents
    ptr,        \* whether it is mapped
    offset,     \* trackedmemory::offset of the current mapping
    size,       \* trackedmemory::size of the current mapping
    clone,      \* trackedmemory::clone, or NoClone
    exposed,    \* trackedmemory::exposed
    usage,      \* trackedmemory::usage: the bound objects, oldest first
    state,      \* [Object -> "unbound", "bound" or "destroyed"]
    touched,    \* [Cmdbuf -> [Object -> exposure]]
    uses_device_address_shader,  \* [Cmdbuf -> BOOLEAN]
    replay,     \* [Object -> [its bytes -> what the replay has there]]
    visible,    \* history: bytes whose host writes the device is entitled to see
    scannable,  \* history: bytes exposed by the rule of doc/MemoryManagement.md
    count       \* how often each bounded operation has happened

mapvars == <<ptr, offset, size>>
cmdvars == <<touched, uses_device_address_shader>>
tracevars == <<clone, exposed, replay, scannable>>
vars == <<coherent, explicit, mem, mapvars, usage, state, cmdvars, tracevars,
          visible, count>>

NoClone == <<>>
HasClone == clone # NoClone
ZeroBytes(n) == [b \in 0 .. n - 1 |-> 0]

\* calloc of the clone at the first map, sync or checksum.
EnsureClone == IF HasClone THEN clone ELSE ZeroBytes(allocationSize)

\* What a marked address becomes when the replay translates it: the same
\* captured value, known to be translated.
Translated(v) == [captured |-> v, translated |-> TRUE]
Raw(v) == [captured |-> v, translated |-> FALSE]

-----------------------------------------------------------------------------
(* file_writer::find_patch_start: how many bytes from the start of the     *)
(* scan are the same, in whole words.  The scan in blocks of 256 bytes     *)
(* only makes this faster.                                                 *)
WordAt(f, at, n) == [b \in 0 .. n - 1 |-> f[at + b]]

WordStarts(n) == {k \in 0 .. n - 1 : k % Word = 0}

WordLen(k, n) == Min({Word, n - k})

\* The words of a scan of n bytes from "at" in which the two copies differ.
ChangedWords(orig, chng, at, n) ==
    {k \in WordStarts(n) :
        WordAt(orig, at + k, WordLen(k, n)) # WordAt(chng, at + k, WordLen(k, n))}

\* The bytes after the last whole word are not looked at.
find_patch_startNoTail(orig, chng, at, n) ==
    Min({k \in ChangedWords(orig, chng, at, n) : k + Word <= n} \cup {n})

find_patch_start(orig, chng, at, n) ==
    Min(ChangedWords(orig, chng, at, n) \cup {n})

\* Maximal runs of changed words, as ranges relative to the scan.
Runs(words, n) ==
    LET first(k) == k \in words /\ k - Word \notin words
        last(k) == Max({j \in words : \A i \in words \cup WordStarts(n) :
                            (k <= i /\ i <= j) => i \in words})
    IN  {Rng(k, last(k) + WordLen(last(k), n) - 1) : k \in {w \in words : first(w)}}

\* The (0, 0) that ends the patch, which no piece with data looks like.
Terminator == [skip |-> 0, data |-> <<>>]

(* file_writer::write_patch: each run of changed words with its distance   *)
(* from the end of the run before it, then the terminator.                 *)
write_patch(orig, chng, at, n) ==
    LET runs == SetToSortSeq(Runs(ChangedWords(orig, chng, at, n), n),
                             LAMBDA a, b : a.first < b.first)
        end(i) == IF i = 0 THEN -at ELSE runs[i].last + 1
        piece(i) ==
            [skip |-> runs[i].first - end(i - 1),
             data |-> [j \in 1 .. runs[i].last - runs[i].first + 1 |->
                          chng[at + runs[i].first + j - 1]]]
    IN  Append([i \in DOMAIN runs |-> piece(i)], Terminator)

\* The clone after write_patch: the changed words are copied into it.
Patched(orig, chng, at, n) ==
    LET words == ChangedWords(orig, chng, at, n)
        new == {b \in at .. at + n - 1 : b - at - ((b - at) % Word) \in words}
    IN  [b \in DOMAIN orig |-> IF b \in new THEN chng[b] ELSE orig[b]]

(* file_reader::read_patch: walk the pieces, copying each one's data in.   *)
read_patch(buf, patch) ==
    FoldLeft(LAMBDA acc, p :
        LET from == acc.position + p.skip
        IN  [position |-> from + Len(p.data),
             buf |-> [b \in DOMAIN acc.buf |->
                         IF from <= b /\ b < from + Len(p.data)
                         THEN Raw(p.data[b - from + 1]) ELSE acc.buf[b]]],
        [position |-> 0, buf |-> buf], patch).buf

\* translate_marked_offsets: every marked address in the object is rewritten.
Translate(buf, marks) ==
    [b \in DOMAIN buf |->
        IF \E m \in marks : m.kind = "address" /\ b \in m.at .. m.at + Word - 1
        THEN Translated(buf[b].captured) ELSE buf[b]]
-----------------------------------------------------------------------------
Slice(f, o) == [b \in 0 .. Size[o] - 1 |-> f[Offset[o] + b]]

Bound == {o \in Object : state[o] = "bound"}

BytesOfObject(o) == Offset[o] .. Offset[o] + Size[o] - 1

\* Put an object's bytes back into a copy of the memory.
Overlay(f, o, bytes) ==
    [b \in DOMAIN f |-> IF b \in BytesOfObject(o) THEN bytes[b - Offset[o]] ELSE f[b]]

\* The update packet as written, and as the replay applies it.
Emit(acc, o, at, n, marks) ==
    LET orig == Slice(acc.clone, o)
        patch == write_patch(orig, Slice(mem, o), at, n)
    IN  [clone |-> Overlay(acc.clone, o, Patched(orig, Slice(mem, o), at, n)),
         exposed |-> acc.exposed,
         replay |-> [acc.replay EXCEPT ![o] = Translate(read_patch(@, patch), marks)],
         sent |-> Append(acc.sent, [object |-> o, patch |-> patch, marks |-> marks])]

\* The patch goes out but the clone is left as it was.
write_out_objectStale(acc, o, at, n, marks) ==
    IF find_patch_start(Slice(acc.clone, o), Slice(mem, o), at, n) = n
    THEN acc ELSE [Emit(acc, o, at, n, marks) EXCEPT !.clone = acc.clone]

(* write_out_object: nothing is written when nothing in the range changed. *)
write_out_object(acc, o, at, n, marks) ==
    IF find_patch_start(Slice(acc.clone, o), Slice(mem, o), at, n) = n
    THEN acc ELSE Emit(acc, o, at, n, marks)

Trace == [clone |-> EnsureClone, exposed |-> exposed, replay |-> replay,
          sent |-> <<>>]

\* Take over the result of a handler that writes packets.
Commit(acc) ==
    /\ clone' = acc.clone /\ exposed' = acc.exposed
    /\ replay' = acc.replay

Counted(op, max) ==
    /\ count[op] < max
    /\ count' = [count EXCEPT ![op] = @ + 1]

-----------------------------------------------------------------------------
\* Mapping beyond the end is not cut short.
MappedSizeUnclamped(w) == IF w[2] = WHOLE_SIZE THEN allocationSize - w[1] ELSE w[2]

MappedSize(w) ==
    IF w[2] = WHOLE_SIZE \/ w[1] + w[2] > allocationSize
    THEN allocationSize - w[1] ELSE w[2]

(* trace_post_vkMapMemory: the window, clamped to the allocation, the      *)
(* clone at the first mapping, and for coherent memory the exposure.       *)
MapMemory(w) ==
    LET n == MappedSize(w)
    IN  /\ ~ptr
        /\ Counted("map", MaxMaps)
        /\ ptr' = TRUE /\ offset' = w[1] /\ size' = n
        /\ clone' = EnsureClone
        /\ exposed' = IF coherent THEN add_os(exposed, w[1], n) ELSE exposed
        /\ scannable' = IF coherent THEN scannable \cup (w[1] .. w[1] + n - 1)
                        ELSE scannable
        /\ UNCHANGED <<coherent, explicit, mem, usage, state, cmdvars, replay, visible>>

(* trace_post_vkUnmapMemory_common: the exposure stays.                    *)
UnmapMemory ==
    /\ ptr
    /\ ptr' = FALSE /\ offset' = 0 /\ size' = 0
    /\ UNCHANGED <<coherent, explicit, mem, usage, state, cmdvars, clone, exposed,
                   replay, scannable, visible, count>>

\* The application stores a byte through the mapped pointer.
HostWrite(b, v) ==
    /\ ptr /\ b \in offset .. offset + size - 1
    /\ mem[b] # v
    /\ Counted("write", MaxWrites)
    /\ mem' = [mem EXCEPT ![b] = v]
    /\ visible' = IF coherent /\ ~explicit THEN visible \cup {b} ELSE visible \ {b}
    /\ UNCHANGED <<coherent, explicit, mapvars, usage, state, cmdvars, clone, exposed,
                   replay, scannable>>

(* capture_clamp_mapped_flush_range: the bytes a flush really covers.      *)
ClampedFlush(w) ==
    IF ~ptr \/ size = 0 THEN {}
    ELSE LET limit == offset + size
             end == IF w[2] = WHOLE_SIZE THEN limit ELSE w[1] + w[2]
         IN  Max({w[1], offset}) .. Min({end, limit}) - 1

\* collect_patch_spans: from a changed byte on in steps of a word, then byte by
\* byte; the bytes of a scan of n bytes from "at" that count as changed.
changed_spans(orig, chng, at, n) ==
    LET pos[k \in 0 .. n] ==    \* is byte k - 1 of the scan the inside of a span?
            IF k = 0 THEN [in |-> FALSE, skip |-> 0]
            ELSE LET p == pos[k - 1]
                     diff == orig[at + k - 1] # chng[at + k - 1]
                     word == /\ k - 1 + Word <= n
                             /\ WordAt(orig, at + k - 1, Word) # WordAt(chng, at + k - 1, Word)
                 IN  IF p.skip > 0 THEN [in |-> TRUE, skip |-> p.skip - 1]
                     ELSE IF p.in /\ word THEN [in |-> TRUE, skip |-> Word - 1]
                     ELSE IF diff THEN [in |-> TRUE, skip |-> IF word THEN Word - 1 ELSE 0]
                     ELSE [in |-> FALSE, skip |-> 0]
    IN  {at + k - 1 : k \in {j \in 1 .. n : pos[j].in}}

\* Markings kept only where the first byte of the marked value changed.
AdjustedMarksFirstByte(o, flushed, changed) ==
    LET inside(m) == m \in flushed \cap BytesOfObject(o)
    IN  {[kind |-> "address", at |-> m - Offset[o]] :
            m \in {a \in AddressMark : inside(a) /\ a - Offset[o] \in changed}}

\* The markings passed along with a flush, relative to an object.  A descriptor
\* is always kept; an address only when the update changes it.
AdjustedMarks(o, flushed, changed) ==
    LET inside(m) == m \in flushed \cap BytesOfObject(o)
        addr(m) == (m - Offset[o]) .. (m - Offset[o] + Word - 1)
    IN  {[kind |-> "descriptor", at |-> m - Offset[o]] :
            m \in {d \in DescriptorMark : inside(d)}}
        \cup
        {[kind |-> "address", at |-> m - Offset[o]] :
            m \in {a \in AddressMark : inside(a) /\ addr(a) \cap changed # {}}}

(* One object's share of a flush.                                          *)
FlushObject(acc, o, flushed) ==
    LET part == flushed \cap BytesOfObject(o)
        at == Min(part) - Offset[o]
        n == Cardinality(part)
        changed == changed_spans(Slice(acc.clone, o), Slice(mem, o), at, n)
        marks == AdjustedMarks(o, flushed, changed)
    IN  IF part = {} THEN acc
        ELSE IF changed = {} /\ ~\E m \in marks : m.kind = "descriptor" THEN acc
        ELSE write_out_object(acc, o, at, n, marks)

\* The packets of a flush and what they leave behind.
Flush(flushed) ==
    LET acc == [Trace EXCEPT !.exposed = add_os(exposed, Min(flushed), Cardinality(flushed))]
    IN  IF explicit
        THEN FoldLeft(LAMBDA a, o : FlushObject(a, o, flushed), acc, usage) ELSE acc

(* trace_post_vkFlushMappedMemoryRanges: the range becomes exposed, and is *)
(* written out at once when the application reports its updates itself.    *)
FlushMappedMemoryRanges(w) ==
    LET flushed == ClampedFlush(w)
        delivered == IF explicit THEN UNION {BytesOfObject(o) : o \in Bound} ELSE Byte
    IN  /\ Counted("flush", MaxFlushes)
        /\ IF flushed = {}
           THEN UNCHANGED <<clone, exposed, replay, scannable, visible>>
           ELSE /\ Commit(Flush(flushed))
                /\ scannable' = scannable \cup flushed
                /\ visible' = visible \cup (flushed \cap delivered)
        /\ UNCHANGED <<coherent, explicit, mem, mapvars, usage, state, cmdvars>>
-----------------------------------------------------------------------------
(* trace_post_vkBind*Memory and trackedmemory::bind.  The replay gives the *)
(* object zeroed memory of its own (see Suballocator).                     *)
BindObjectMemory(o) ==
    /\ state[o] = "unbound"
    /\ state' = [state EXCEPT ![o] = "bound"]
    /\ usage' = Append(usage, o)
    /\ replay' = [replay EXCEPT ![o] = [b \in 0 .. Size[o] - 1 |-> Raw(0)]]
    /\ UNCHANGED <<coherent, explicit, mem, mapvars, cmdvars, clone, exposed, scannable,
                   visible, count>>

(* vkDestroyBuffer and the like, with trackedmemory::unbind: the first     *)
(* entry found at the object's offset is the one that goes.  Command       *)
(* buffers that name the object have been reset before.                    *)
DestroyObject(o) ==
    LET i == Min({k \in DOMAIN usage : Offset[usage[k]] = Offset[o]})
    IN  /\ state[o] = "bound"
        /\ \A c \in Cmdbuf : touched[c][o] = NoExposure
        /\ state' = [state EXCEPT ![o] = "destroyed"]
        /\ usage' = SubSeq(usage, 1, i - 1) \o SubSeq(usage, i + 1, Len(usage))
        /\ UNCHANGED <<coherent, explicit, mem, mapvars, cmdvars, clone, exposed, replay,
                       scannable, visible, count>>

(* A command names a range of an object: trackedcmdbuffer_trace::touch.    *)
CmdTouch(c, t) ==
    LET o == t[1]
        n == IF t[3] = WHOLE_SIZE THEN Size[o] - t[2] ELSE t[3]
    IN  /\ state[o] = "bound"
        /\ Counted("touch", MaxTouches)
        /\ touched' = [touched EXCEPT ![c][o] = add_os(@, t[2], n)]
        /\ UNCHANGED <<coherent, explicit, mem, mapvars, usage, state, clone, exposed, replay,
                       scannable, visible, uses_device_address_shader>>

\* A descriptor buffer or a shader with buffer references is bound.
CmdUseDeviceAddresses(c) ==
    /\ ~uses_device_address_shader[c]
    /\ Counted("touch", MaxTouches)
    /\ uses_device_address_shader' = [uses_device_address_shader EXCEPT ![c] = TRUE]
    /\ UNCHANGED <<coherent, explicit, mem, mapvars, usage, state, touched, clone, exposed,
                   replay, scannable, visible>>

\* trackedcmdbuffer_trace::touch_merge.
touch_merge(mine, other) ==
    [o \in Object |->
        IF mine[o].r = <<>> THEN other[o]
        ELSE FoldLeft(LAMBDA e, g : add(e, g.first, g.last), mine[o], list(other[o]))]

(* vkCmdExecuteCommands: the primary takes over the secondary's touches.   *)
CmdExecuteCommands(c, d) ==
    /\ c # d
    /\ Counted("touch", MaxTouches)
    /\ touched' = [touched EXCEPT ![c] = touch_merge(@, touched[d])]
    /\ uses_device_address_shader' =
          [uses_device_address_shader EXCEPT ![c] = @ \/ uses_device_address_shader[d]]
    /\ UNCHANGED <<coherent, explicit, mem, mapvars, usage, state, clone, exposed, replay,
                   scannable, visible>>

(* vkBeginCommandBuffer, vkResetCommandBuffer, vkResetCommandPool.         *)
ResetCommandBuffer(c) ==
    /\ touched' = [touched EXCEPT ![c] = [o \in Object |-> NoExposure]]
    /\ uses_device_address_shader' = [uses_device_address_shader EXCEPT ![c] = FALSE]
    /\ UNCHANGED <<coherent, explicit, mem, mapvars, usage, state, clone, exposed, replay,
                   scannable, visible, count>>

-----------------------------------------------------------------------------
(* queue_update: with device addresses in use, every buffer whose address  *)
(* was taken is touched too.                                               *)
touch_all_address_taken_buffers(c) ==
    [o \in Object |->
        IF uses_device_address_shader[c] /\ o \in Addressed \cap Bound
        THEN add_os(touched[c][o], 0, Size[o]) ELSE touched[c][o]]

\* The exposed parts of the touched ranges, and the span that covers them all.
ExposedPart(t, o) == overlap(exposed, t[o], Offset[o])

Spanned(ts) ==
    UNION {{ExposedPart(t, o).first, ExposedPart(t, o).last} :
              <<t, o>> \in {p \in ts \X Object : Valid(ExposedPart(p[1], p[2]))}}

(* memory_update, one touched range of one object: the exposed span in it  *)
(* is fetched, and thereby forgotten unless the memory is mapped.          *)
UpdateRange(acc, o, g) ==
    LET got == fetch(acc.exposed, g.first + Offset[o], g.last + Offset[o], ptr)
        rest == [acc EXCEPT !.exposed = got.left]
    IN  IF ~Valid(got.span) THEN rest
        ELSE write_out_object(rest, o, got.span.first - Offset[o],
                              got.span.last - got.span.first + 1, {})

UpdateObject(acc, t, o) ==
    FoldLeft(LAMBDA a, g : UpdateRange(a, o, g), acc, list(t[o]))

\* The containers are unordered; what is fetched once stays fetched, so the
\* order in which command buffers and objects come makes no difference.
memory_update(ts) ==
    FoldSet(LAMBDA t, acc :
        FoldSet(LAMBDA o, a : UpdateObject(a, t, o), acc, Object), Trace, ts)

\* The touches of the submitted command buffers as queue_update leaves them.
Submitted(cs) == {touch_all_address_taken_buffers(c) : c \in cs}

\* Bytes of the memory that a set of touches names.
TouchedBytes(ts) ==
    UNION {{Offset[o] + b : b \in BytesOf(t[o])} : <<t, o>> \in ts \X Object}

(* trace_pre_vkQueueSubmit and trace_pre_vkQueueSubmit2.                   *)
QueueSubmit(cs) ==
    LET ts == {t \in Submitted(cs) : Spanned({t}) # {}}
    IN  /\ Counted("submit", MaxSubmits)
        /\ IF explicit \/ ts = {}
           THEN UNCHANGED <<clone, exposed, replay, scannable>>
           ELSE /\ Commit(memory_update(ts))
                /\ scannable' = IF ptr THEN scannable ELSE scannable \ TouchedBytes(ts)
        /\ touched' = IF explicit THEN touched
                      ELSE [c \in Cmdbuf |-> IF c \in cs THEN touch_all_address_taken_buffers(c)
                                             ELSE touched[c]]
        /\ UNCHANGED <<coherent, explicit, mem, mapvars, usage, state, visible,
                       uses_device_address_shader>>

(* trace_vkSyncBufferTRACETOOLTEST: the whole object is compared and the   *)
(* packet is written even when nothing changed.  Aborts on mapped memory.  *)
(* This call of a test extension knows no markings, so it is not used on   *)
(* an object that holds marked addresses.                                  *)
SyncBuffer(o) ==
    LET got == fetch(exposed, Offset[o], Offset[o] + Size[o] - 1, FALSE)
    IN  /\ ~ptr /\ state[o] = "bound"
        /\ explicit => AddressMark \cap BytesOfObject(o) = {}
        /\ Counted("submit", MaxSubmits)
        /\ Commit(Emit([Trace EXCEPT !.exposed = got.left], o, 0, Size[o], {}))
        /\ scannable' = scannable \ BytesOfObject(o)
        /\ UNCHANGED <<coherent, explicit, mem, mapvars, usage, state, cmdvars, visible>>

(* trace_pre_vkFreeMemory, and the vkAllocateMemory after which the        *)
(* application goes on with a new memory object of unknown contents.       *)
FreeMemory ==
    /\ Bound = {} /\ HasClone
    /\ ptr' = FALSE /\ offset' = 0 /\ size' = 0
    /\ clone' = NoClone /\ exposed' = NoExposure
    /\ mem' = Garbage
    /\ visible' = {} /\ scannable' = {}
    /\ UNCHANGED <<coherent, explicit, usage, state, cmdvars, replay, count>>

-----------------------------------------------------------------------------
Init ==
    /\ coherent \in BOOLEAN /\ explicit \in BOOLEAN
    /\ mem = Garbage
    /\ ptr = FALSE /\ offset = 0 /\ size = 0
    /\ clone = NoClone
    /\ exposed = NoExposure
    /\ usage = SetToSeq(InitiallyBound)
    /\ state = [o \in Object |-> IF o \in InitiallyBound THEN "bound" ELSE "unbound"]
    /\ touched = [c \in Cmdbuf |-> [o \in Object |-> NoExposure]]
    /\ uses_device_address_shader = [c \in Cmdbuf |-> FALSE]
    /\ replay = [o \in Object |-> [b \in 0 .. Size[o] - 1 |-> Raw(0)]]
    /\ visible = {} /\ scannable = {}
    /\ count = [op \in {"map", "write", "touch", "submit", "flush"} |-> 0]

Next ==
    \/ \E w \in Window : MapMemory(w) \/ FlushMappedMemoryRanges(w)
    \/ UnmapMemory
    \/ \E b \in Written, v \in Val : HostWrite(b, v)
    \/ \E o \in Object : BindObjectMemory(o) \/ DestroyObject(o) \/ SyncBuffer(o)
    \/ \E c \in Cmdbuf : \/ \E t \in Touch : CmdTouch(c, t)
                         \/ CmdUseDeviceAddresses(c)
                         \/ \E d \in Cmdbuf : CmdExecuteCommands(c, d)
                         \/ ResetCommandBuffer(c)
    \/ \E cs \in SUBSET Cmdbuf \ {{}} : QueueSubmit(cs)
    \/ FreeMemory

Spec == Init /\ [][Next]_vars

-----------------------------------------------------------------------------
(* Properties.                                                             *)

\* Types of the state.
TypeOK ==
    /\ coherent \in BOOLEAN /\ explicit \in BOOLEAN /\ ptr \in BOOLEAN
    /\ mem \in [Byte -> Val]
    /\ offset + size <= allocationSize
    /\ HasClone => clone \in [Byte -> Val]
    /\ state \in [Object -> {"unbound", "bound", "destroyed"}]
    /\ visible \subseteq Byte /\ scannable \subseteq Byte

\* The clone is what the replay has: for every bound object, each byte of the
\* clone is the captured value of the replayed byte.  A clone ahead of the
\* replay would hide a difference from every later comparison (memory_update).
CloneIsReplay ==
    HasClone => \A o \in Bound : \A b \in 0 .. Size[o] - 1 :
                    replay[o][b].captured = clone[Offset[o] + b]

\* A submit carries the host's writes: every byte that a submitted command
\* buffer can read and whose host write the device may see has, after the
\* packets of the submit, the captured value in the replayed object.
SubmitCarriesHostWrites ==
    [][\A cs \in SUBSET Cmdbuf \ {{}} : QueueSubmit(cs) =>
          \A c \in cs, o \in Bound :
             \A b \in BytesOf(touch_all_address_taken_buffers(c)[o]) :
                Offset[o] + b \in visible =>
                    replay'[o][b].captured = mem[Offset[o] + b]]_vars

\* The exposed ranges are exactly the bytes the rule of MemoryManagement.md
\* gives (mapped memory is exposed until scanned while not mapped), kept as
\* sorted, disjoint and merged ranges, as are the touched ones.
ExposureExact ==
    /\ BytesOf(exposed) = scannable
    /\ Canonical(exposed)
    /\ \A c \in Cmdbuf, o \in Object : Canonical(touched[c][o])

\* What capture believes of the replay is true after every call: the clone, and the
\* ranges that have to be looked at again (memory_update, vkMapMemory,
\* vkUnmapMemory).
CloneSound == TypeOK /\ ExposureExact /\ CloneIsReplay

\* With explicit updates a marked device address is never left untranslated
\* in the replay: every byte of it that was captured has been rewritten,
\* although an update may carry only some of the bytes around it.
MarkedAddressesTranslated ==
    explicit => \A o \in Bound, m \in AddressMark :
        m \in BytesOfObject(o) =>
            \A b \in (m - Offset[o]) .. (m - Offset[o] + Word - 1) :
                replay[o][b].captured # 0 => replay[o][b].translated

=============================================================================
