--------------------------- MODULE CommandTouch ---------------------------
(***************************************************************************)
(* Which memory a command buffer touches.                                  *)
(*                                                                         *)
(* The scan at a submit (HostMemory) looks only at the ranges noted here,  *)
(* so a byte the device reads and no range names never reaches the replay. *)
(* Ranges are noted when a command names a buffer, when a descriptor set   *)
(* is bound (the set collects the ranges of its descriptors as they are    *)
(* written), and through device addresses, which are looked up among the   *)
(* buffers alive at that moment.                                           *)
(***************************************************************************)
EXTENDS RangeTracking, Folds

CONSTANTS
    Buffer,      \* the buffers, images and tensors: all are bytes here
    BufSize,     \* [Buffer -> size]
    BufAddress,  \* [Buffer -> device address, 0 if never asked for]
    IsSbt,       \* buffers created for shader binding tables
    Set,         \* descriptor sets
    Binding,     \* bindings of a set
    DynBinding,  \* those of a dynamic buffer type, offset given when bound
    Cmd,         \* command buffers
    Slices,      \* <<buffer, offset, size>> triples for descriptors
    Templates,   \* update templates: the bindings of their entries, in order
    Regions,     \* <<address, size>> pairs used by ray tracing commands
    Partial,     \* whether a set may be written in more than one call, or
                 \* bound while some of its bindings have never been written
    MaxCalls     \* bound on the calls made

WHOLE_SIZE == -1

VARIABLES
    content,     \* [Set -> [Binding -> what the descriptor names]]
    settouched,  \* trackeddescriptorset_trace::touched
    dynamic,     \* trackeddescriptorset_trace::dynamic_buffers
    cmdtouched,  \* trackedcmdbuffer_trace::touched
    reads,       \* history: [Cmd -> the <<buffer, byte>> its commands may read]
    calls

vars == <<content, settouched, dynamic, cmdtouched, reads, calls>>

Nothing == [buffer |-> "none", offset |-> 0, size |-> 0]
NoTouch == [b \in Buffer |-> NoExposure]

Descriptors == {[buffer |-> g[1], offset |-> g[2], size |-> g[3]] : g \in Slices}

Resolved(d, plus) ==
    IF d.size = WHOLE_SIZE THEN BufSize[d.buffer] - d.offset - plus ELSE d.size

\* The bytes a descriptor gives a shader, "plus" being the dynamic offset.
Reach(d, plus) ==
    {<<d.buffer, b>> : b \in d.offset + plus .. d.offset + plus + Resolved(d, plus) - 1}

touch(t, b, offset, size) ==
    [t EXCEPT ![b] = add_os(@, offset, IF size = WHOLE_SIZE THEN BufSize[b] - offset ELSE size)]

TouchDescriptor(t, d) == touch(t, d.buffer, d.offset, d.size)

\* The touches of another set replace those already noted.
touch_mergeReplaces(mine, other) ==
    [b \in Buffer |-> IF other[b] = NoExposure THEN mine[b] ELSE other[b]]

touch_merge(mine, other) ==
    [b \in Buffer |->
        FoldLeft(LAMBDA e, g : add(e, g.first, g.last), mine[b], list(other[b]))]

Call == calls < MaxCalls /\ calls' = calls + 1

-----------------------------------------------------------------------------
(* handle_VkWriteDescriptorSets on one set, called by vkUpdateDescriptor-  *)
(* Sets and, entry by entry, for an update template: the set's touches are *)
(* cleared once and then collected again from the writes of this call.     *)
\* A dynamic descriptor is left for the time the set is bound.
NotedWrite(t, k, d) == IF k \in DynBinding THEN t ELSE TouchDescriptor(t, d)

UpdateDescriptorSets(s, writes) ==
    /\ Call
    /\ Partial \/ \A k \in Binding : content[s][k] = Nothing
    /\ content' = [content EXCEPT ![s] = writes @@ @]
    /\ settouched' = [settouched EXCEPT ![s] =
          FoldSet(LAMBDA k, t : NotedWrite(t, k, writes[k]), NoTouch, DOMAIN writes)]
    /\ dynamic' = [dynamic EXCEPT ![s] =
          [k \in DynBinding |-> IF k \in DOMAIN writes THEN writes[k] ELSE @[k]]]
    /\ UNCHANGED <<cmdtouched, reads>>

(* handle_descriptor_update_template: one write for every entry of the     *)
(* template, and only the first of them clears.                            *)
UpdateDescriptorSetWithTemplate(s, entries, data) ==
    LET step(t, e) == NotedWrite(IF e = entries[1] THEN NoTouch ELSE t, e, data[e])
    IN  /\ Call
        /\ Partial \/ \A k \in Binding : content[s][k] = Nothing
        /\ content' = [content EXCEPT ![s] = data @@ @]
        /\ settouched' = [settouched EXCEPT ![s] = FoldLeft(step, @, entries)]
        /\ dynamic' = [dynamic EXCEPT ![s] =
              [k \in DynBinding |-> IF k \in DOMAIN data THEN data[k] ELSE @[k]]]
        /\ UNCHANGED <<cmdtouched, reads>>

(* handle_VkCopyDescriptorSets, of one binding of equal kind.              *)
CopyDescriptorSet(src, dst, k) ==
    /\ Call
    /\ src # dst
    /\ content[src][k] # Nothing
    /\ content' = [content EXCEPT ![dst][k] = content[src][k]]
    /\ settouched' = [settouched EXCEPT ![dst] = touch_merge(@, settouched[src])]
    /\ dynamic' = IF k \in DynBinding
                  THEN [dynamic EXCEPT ![dst][k] = dynamic[src][k]] ELSE dynamic
    /\ UNCHANGED <<cmdtouched, reads>>

Used(s) == {k \in Binding : content[s][k] # Nothing}
UsedDynamic(s) == {k \in DynBinding : dynamic[s][k] # Nothing}

\* The place of a binding among others, in the order of the bindings.
Place(k, ks) == Cardinality({j \in ks : j <= k})

\* The code counts the bindings that have been written; the device counts
\* those of the layout.
DynamicOffset(s, k, offsets) == offsets[Place(k, UsedDynamic(s))]
LayoutOffset(k, offsets) == offsets[Place(k, DynBinding)]

(* trace_post_vkCmdBindDescriptorSets: the offsets are applied here.       *)
CmdBindDescriptorSets(c, s, offsets) ==
    LET plus(k) == IF k \in DynBinding THEN LayoutOffset(k, offsets) ELSE 0
        Touched(t, k) ==
            LET d == dynamic[s][k]
                at == DynamicOffset(s, k, offsets)
            IN  touch(t, d.buffer, d.offset + at, Resolved(d, at))
    IN  /\ Call
        /\ Partial \/ Used(s) = Binding
        /\ \A k \in UsedDynamic(s) :
              dynamic[s][k].offset + plus(k) + Resolved(dynamic[s][k], plus(k))
                  <= BufSize[dynamic[s][k].buffer]
        /\ cmdtouched' = [cmdtouched EXCEPT ![c] =
              FoldSet(LAMBDA k, t : Touched(t, k), touch_merge(@, settouched[s]), UsedDynamic(s))]
        /\ reads' = [reads EXCEPT ![c] = @ \cup UNION {Reach(content[s][k], plus(k)) : k \in Used(s)}]
        /\ UNCHANGED <<content, settouched, dynamic>>

(* handle_VkWriteDescriptorSets with push: straight into the command       *)
(* buffer.  Commands that name a buffer themselves (copies, vertex and     *)
(* indirect buffers) do the same.                                          *)
CmdPushDescriptor(c, d) ==
    /\ Call
    /\ cmdtouched' = [cmdtouched EXCEPT ![c] = TouchDescriptor(@, d)]
    /\ reads' = [reads EXCEPT ![c] = @ \cup Reach(d, 0)]
    /\ UNCHANGED <<content, settouched, dynamic>>

(* touch_index_buffer: "width" bytes an index, "count" indices from        *)
(* "first", or to the end of the buffer for an indirect draw.              *)
CmdDrawIndexed(c, b, base, width, first, cnt) ==
    LET at == base + first * width
        n == IF cnt = WHOLE_SIZE THEN BufSize[b] - at ELSE cnt * width
    IN  /\ Call
        /\ at + n <= BufSize[b] /\ at < BufSize[b]
        /\ cmdtouched' = [cmdtouched EXCEPT ![c] = touch(@, b, at, n)]
        /\ reads' = [reads EXCEPT ![c] = @ \cup
              {<<b, base + (first + i) * width + j>> :
                  <<i, j>> \in (0 .. (n \div width) - 1) \X (0 .. width - 1)}]
        /\ UNCHANGED <<content, settouched, dynamic>>

-----------------------------------------------------------------------------
(* find_buffer_by_device_address: of the buffers that hold the whole       *)
(* region, one for shader binding tables first, then the smallest.         *)
Holding(address, n) ==
    {b \in Buffer : BufAddress[b] # 0 /\ BufAddress[b] <= address
                    /\ address - BufAddress[b] + n <= BufSize[b]}

find_buffer_by_device_address(address, n) ==
    LET fit == Holding(address, n)
        sbt == IF fit \cap IsSbt # {} THEN fit \cap IsSbt ELSE fit
    IN  CHOOSE b \in sbt : \A d \in sbt : BufSize[b] <= BufSize[d]

\* The region is touched in full, past the end of the buffer found for it.
RegionLengthUncut(region, b, at) == IF region[2] = 0 THEN WHOLE_SIZE ELSE region[2]

RegionLength(region, b, at) ==
    IF region[2] = 0 THEN WHOLE_SIZE ELSE Min({region[2], BufSize[b] - at})

(* trace_touch_buffer_by_address: a region that no buffer holds whole is   *)
(* cut to the buffer its start is in, and one of no size reaches to the    *)
(* end of that buffer.  A start in no buffer aborts the capture.           *)
HomeOf(region) ==
    LET n == IF region[2] = 0 THEN 1 ELSE region[2]
        b == find_buffer_by_device_address(region[1], IF Holding(region[1], n) # {} THEN n ELSE 1)
    IN  [buffer |-> b, at |-> region[1] - BufAddress[b]]

trace_touch_buffer_by_address(t, region) ==
    LET p == HomeOf(region)
    IN  touch(t, p.buffer, p.at, RegionLength(region, p.buffer, p.at))

BytesAt(region) ==
    LET p == HomeOf(region)
        end == IF region[2] = 0 THEN BufSize[p.buffer] ELSE p.at + region[2]
    IN  {<<p.buffer, i>> : i \in p.at .. Min({end, BufSize[p.buffer]}) - 1}

(* trace_touch_sbt_region: no size, no touch; a region that no buffer      *)
(* holds whole aborts the capture.                                         *)
trace_touch_sbt_region(t, region) ==
    LET b == find_buffer_by_device_address(region[1], region[2])
    IN  IF region[2] = 0 THEN t ELSE touch(t, b, region[1] - BufAddress[b], region[2])

UseOf(c, t, bytes) ==
    /\ cmdtouched' = [cmdtouched EXCEPT ![c] = t]
    /\ reads' = [reads EXCEPT ![c] = @ \cup bytes]
    /\ UNCHANGED <<content, settouched, dynamic>>

(* Builds with host-known ranges: vertices from the start of their data,   *)
(* indices, boxes and instances from the range's offset on.                *)
CmdBuildAccelerationStructures(c, vertex, shift, other) ==
    LET moved == <<other[1] + shift, other[2]>>
        uses == <<vertex, moved>>
    IN  /\ Call
        /\ \A i \in 1 .. 2 : Holding(uses[i][1], 1) # {}
        /\ UseOf(c, FoldLeft(trace_touch_buffer_by_address, cmdtouched[c], uses),
                 BytesAt(vertex) \cup BytesAt(moved))

(* Indirect builds: the ranges are read by the device, so the data they    *)
(* apply to is touched to the end of its buffer, if there is any.          *)
CmdBuildAccelerationStructuresIndirect(c, ranges, vertex, primitives, other) ==
    LET uses == <<ranges, vertex>> \o (IF primitives > 0 THEN <<<<other[1], 0>>>> ELSE <<>>)
        end == Min({other[1] + primitives, BufAddress[HomeOf(<<other[1], 0>>).buffer]
                                            + BufSize[HomeOf(<<other[1], 0>>).buffer]})
    IN  /\ Call
        /\ \A i \in DOMAIN uses : Holding(uses[i][1], 1) # {}
        /\ UseOf(c, FoldLeft(trace_touch_buffer_by_address, cmdtouched[c], uses),
                 BytesAt(ranges) \cup BytesAt(vertex)
                 \cup UNION {BytesAt(<<a, 1>>) : a \in other[1] .. end - 1})

(* vkCmdTraceRaysKHR, and the indirect form, whose command comes from an   *)
(* address of its own.                                                     *)
CmdTraceRays(c, table, indirect) ==
    LET t == trace_touch_sbt_region(cmdtouched[c], table)
    IN  /\ Call
        /\ table[2] > 0 => Holding(table[1], table[2]) # {}
        /\ \A g \in indirect : Holding(g[1], 1) # {}
        /\ UseOf(c, FoldSet(LAMBDA g, u : trace_touch_buffer_by_address(u, g), t, indirect),
                 UNION {BytesAt(g) : g \in indirect \cup IF table[2] > 0 THEN {table} ELSE {}})

(* vkCmdBindDescriptorBuffersEXT: what the descriptors in it name is left  *)
(* to touch_all_address_taken_buffers; the buffer itself is touched from   *)
(* the address on, and an address of no buffer is only logged.             *)
CmdBindDescriptorBuffers(c, address) ==
    LET b == find_buffer_by_device_address(address, 1)
    IN  /\ Call
        /\ Holding(address, 1) # {}
        /\ UseOf(c, touch(cmdtouched[c], b, address - BufAddress[b], WHOLE_SIZE),
                 BytesAt(<<address, 0>>))

\* vkCmdExecuteCommands.
CmdExecuteCommands(c, d) ==
    /\ Call
    /\ c # d
    /\ cmdtouched' = [cmdtouched EXCEPT ![c] = touch_merge(@, cmdtouched[d])]
    /\ reads' = [reads EXCEPT ![c] = @ \cup reads[d]]
    /\ UNCHANGED <<content, settouched, dynamic>>

\* vkBeginCommandBuffer and the resets.
BeginCommandBuffer(c) ==
    /\ Call
    /\ cmdtouched' = [cmdtouched EXCEPT ![c] = NoTouch]
    /\ reads' = [reads EXCEPT ![c] = {}]
    /\ UNCHANGED <<content, settouched, dynamic>>

-----------------------------------------------------------------------------
Init ==
    /\ content = [s \in Set |-> [k \in Binding |-> Nothing]]
    /\ settouched = [s \in Set |-> NoTouch]
    /\ dynamic = [s \in Set |-> [k \in DynBinding |-> Nothing]]
    /\ cmdtouched = [c \in Cmd |-> NoTouch]
    /\ reads = [c \in Cmd |-> {}]
    /\ calls = 0

Next ==
    \/ \E s \in Set, ks \in SUBSET Binding \ {{}} :
          \E writes \in [ks -> Descriptors] : UpdateDescriptorSets(s, writes)
    \/ \E s \in Set, entries \in Templates :
          \E data \in [ToSet(entries) -> Descriptors] :
              UpdateDescriptorSetWithTemplate(s, entries, data)
    \/ \E s, d \in Set, k \in Binding : CopyDescriptorSet(s, d, k)
    \/ \E c \in Cmd :
          \/ \E s \in Set, offsets \in [1 .. Cardinality(DynBinding) -> {0, 1}] :
                CmdBindDescriptorSets(c, s, offsets)
          \/ \E d \in Descriptors : CmdPushDescriptor(c, d)
          \/ \E b \in Buffer, width \in {1, 2}, first \in {0, 1}, n \in {1, WHOLE_SIZE} :
                CmdDrawIndexed(c, b, 0, width, first, n)
          \/ \E g \in Regions, shift \in {0, 1} : CmdBuildAccelerationStructures(c, g, shift, g)
          \/ \E g, m \in Regions, n \in {0, 2} :
                CmdBuildAccelerationStructuresIndirect(c, g, g, n, m)
          \/ \E g \in Regions, more \in {{}, Regions} : CmdTraceRays(c, g, more)
          \/ \E g \in Regions : CmdBindDescriptorBuffers(c, g[1])
          \/ \E d \in Cmd : CmdExecuteCommands(c, d)
          \/ BeginCommandBuffer(c)

Spec == Init /\ [][Next]_vars

-----------------------------------------------------------------------------
TypeOK ==
    /\ content \in [Set -> [Binding -> Descriptors \cup {Nothing}]]
    /\ dynamic \in [Set -> [DynBinding -> Descriptors \cup {Nothing}]]
    /\ \A s \in Set, b \in Buffer : Canonical(settouched[s][b])
    /\ \A c \in Cmd, b \in Buffer :
          Canonical(cmdtouched[c][b]) /\ BytesOf(cmdtouched[c][b]) \subseteq 0 .. BufSize[b] - 1
    /\ calls \in 0 .. MaxCalls

\* Every byte that the commands of a command buffer may read is in a range it
\* has noted, whichever way the commands name it (descriptor sets, copies of
\* sets, push descriptors, index buffers, device addresses, secondaries).
ReadsAreTouched ==
    \A c \in Cmd : \A r \in reads[c] : r[2] \in BytesOf(cmdtouched[c][r[1]])

\* The ranges that a command buffer notes are well formed, inside their buffers,
\* and cover what it reads (touch, trace_touch_buffer_by_address).
TouchedCoversReads == TypeOK /\ ReadsAreTouched
=============================================================================
