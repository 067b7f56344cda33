----------------------------- MODULE AddressRewrite -----------------------------
(* Device addresses, descriptors and shader group handles that the application  *)
(* stored in its own memory are those of the capturing device. Replay replaces   *)
(* them: in traces with VK_ARM_trace_helpers when the marked bytes are updated,  *)
(* in raw traces, for shader binding tables and instances, before a submission.  *)
(* Asserts turn marked bytes back before they compare them (hardcode_read.cpp,   *)
(* address_remapper in containers.h). Queries of the replaying driver succeed.   *)
EXTENDS Integers, Sequences, FiniteSets

CONSTANTS
    Bases,              \* addresses of the capturing device
    Sizes,              \* sizes of buffers and acceleration structures
    MaxObjects,         \* bound: buffers and acceleration structures created
    MaxRewrites,        \* bound: descriptors asked for
    Slots,              \* marked places in the memory of the first buffer
    Pipelines, KeptPipelines,   \* ray tracing pipelines (1, 2, ...); those with capture replay handles
    Groups,             \* shader groups of each
    HandleShift,        \* replay handles are the captured ones plus this
    EarlyCreate,        \* a buffer may be created while another is at part of its future address
    ReuseStructures,    \* the replaying driver reuses addresses of acceleration structures
    DescriptorsNameAddress  \* descriptor bytes say the address only

VARIABLES
    object,     \* VkBuffer_index and VkAccelerationStructureKHR_index
    remapping,  \* objects in device_address_remapping and the one for structures
    sizes,      \* pending_as_build_sizes
    handles,    \* raytracing_group_handles, the replay ones, and ..._capture_replay
    rewrites,   \* pending_descriptor_rewrites
    slot,       \* each place: what it is meant to hold, what it held, what it holds
    command,    \* a command buffer: bound pipeline, SBT uses, instance uses
    ran,        \* places the last submission reads
    trace,      \* trace_uses_trace_helpers; host-visible memory; same descriptor sizes; what it uses
    outcome     \* "runs", "assert", "abort", "stopped"

rwobjects == <<object, remapping, sizes>>
rwvars == <<object, remapping, sizes, handles, rewrites, slot, command, ran, trace, outcome>>

Empty == [kind |-> "plain", of |-> 0, at |-> 0, by |-> 0]
NoPipeline == 0
Home == 1   \* the buffer that has the slots
Slotted == 8
Buffer(base, size) == [kind |-> "buffer", cap |-> base, size |-> size, addr |-> 0, state |-> "created",
                       need |-> size, made |-> size, room |-> size]

RwInit ==
    /\ object = <<[Buffer(90, Slotted) EXCEPT !.addr = 990, !.state = "bound"]>>
    /\ remapping = {Home}
    /\ sizes = <<>>
    /\ handles = [p \in Pipelines |-> [cap |-> [g \in Groups |-> 0], rep |-> [g \in Groups |-> 0], kept |-> FALSE]]
    /\ rewrites = <<>>
    /\ slot = [s \in Slots |-> [meant |-> Empty, stored |-> 0, now |-> 0]]
    /\ command = [bound |-> NoPipeline, sbt |-> {}, instances |-> {}]
    /\ ran = {}
    /\ trace \in [helpers : BOOLEAN, visible : BOOLEAN, portable : BOOLEAN, uses : {"buffers", "structures", "handles"}]
    /\ trace.helpers => trace.visible
    /\ ~trace.helpers => trace.portable /\ trace.uses # "buffers"
    /\ outcome = "runs"

--------------------------------------------------------------------------------
(* address_remapper *)

Live(o) == object[o].state # "destroyed"
Alike(kind) == {o \in DOMAIN object : object[o].kind = kind}

\* Mutant: a larger object is taken although its address is not known yet.
PreferredBySize(o, p) ==
    LET x == object[o] y == object[p] IN
    \/ x.size > y.size
    \/ x.size = y.size /\ o > p

\* choose_best: known address, not destroyed, bound, larger, added later.
Preferred(o, p) ==
    LET x == object[o] y == object[p] IN
    IF (x.addr # 0) # (y.addr # 0) THEN x.addr # 0
    ELSE IF Live(o) # Live(p) THEN Live(o)
    ELSE IF (x.state = "bound") # (y.state = "bound") THEN x.state = "bound"
    ELSE x.size > y.size \/ (x.size = y.size /\ o > p)

Candidates(kind, stored) ==
    {o \in remapping \cap Alike(kind) :
        /\ Live(o) \/ kind = "structure"
        /\ object[o].cap <= stored /\ stored < object[o].cap + object[o].size}

\* The highest base with a candidate decides, whether or not its address is known.
find_candidate(kind, stored) ==
    LET all == Candidates(kind, stored)
        nearest == {o \in all : \A p \in all : object[p].cap <= object[o].cap}
    IN IF all = {} THEN 0 ELSE CHOOSE o \in nearest : \A p \in nearest \ {o} : Preferred(o, p)

\* Mutant: the offset into the object is lost.
translate_addressBase(kind, stored) ==
    LET o == find_candidate(kind, stored) IN IF o = 0 THEN 0 ELSE object[o].addr

translate_address(kind, stored) ==
    LET o == find_candidate(kind, stored)
    IN IF o = 0 THEN 0 ELSE IF object[o].addr = 0 THEN 0 ELSE object[o].addr + (stored - object[o].cap)

--------------------------------------------------------------------------------
(* Buffers and acceleration structures *)

AddressesOverlap(a, b) == a.cap < b.cap + b.size /\ b.cap < a.cap + a.size
Runs == outcome = "runs"

replay_callback_vkCreateBuffer(base, size) ==
    /\ Runs /\ trace.uses = "buffers" /\ Len(object) < MaxObjects
    /\ EarlyCreate \/ \A o \in Alike("buffer") : Live(o) /\ AddressesOverlap(object[o], Buffer(base, size)) => base = object[o].cap
    /\ object' = Append(object, Buffer(base, size))
    /\ remapping' = remapping \cup {Len(object) + 1}
    /\ UNCHANGED <<sizes, handles, rewrites, slot, command, ran, trace, outcome>>

\* The capturing driver gave out an address once nothing else was bound there.
replay_callback_vkBindBufferMemory2(o) ==
    /\ Runs /\ object[o].kind = "buffer" /\ object[o].state = "created"
    /\ \A p \in Alike("buffer") : object[p].state = "bound" => ~AddressesOverlap(object[o], object[p])
    /\ object' = [object EXCEPT ![o].state = "bound"]
    /\ UNCHANGED <<remapping, sizes, handles, rewrites, slot, command, ran, trace, outcome>>

\* Addresses of the replaying driver: fresh ones, or those of destroyed objects.
ReplayAddresses(o) ==
    {500 + 10 * o} \cup
    {object[p].addr : p \in {q \in Alike(object[o].kind) :
        /\ ~Live(q) /\ object[q].addr # 0
        /\ object[o].kind = "buffer" \/ ReuseStructures
        /\ \A r \in Alike(object[o].kind) : Live(r) => object[r].addr # object[q].addr}}

GetDeviceAddress(o, address) ==
    /\ Runs /\ Live(o) /\ object[o].addr = 0
    /\ object[o].kind = "buffer" => object[o].state = "bound"
    /\ object' = [object EXCEPT ![o].addr = address]
    /\ UNCHANGED <<remapping, sizes, handles, rewrites, slot, command, ran, trace, outcome>>

replay_pre_vkDestroyBuffer(o) ==
    /\ Runs /\ object[o].kind = "buffer" /\ Live(o) /\ o # Home
    /\ remapping' = remapping \ {o}
    /\ object' = [object EXCEPT ![o].state = "destroyed"]
    /\ UNCHANGED <<sizes, handles, rewrites, slot, command, ran, trace, outcome>>

\* The replaying device may need more than the capturing one did.
replay_callback_vkGetAccelerationStructureBuildSizesKHR(need) ==
    /\ Runs /\ trace.uses = "structures" /\ Len(object) < MaxObjects /\ sizes = <<>>
    /\ sizes' = Append(sizes, need)
    /\ UNCHANGED <<object, remapping, handles, rewrites, slot, command, ran, trace, outcome>>

\* Mutant: the structure grows and stays in a buffer that is too small for it.
CreatedStructureInPlace(base, size, room) ==
    LET required == IF sizes # <<>> /\ Head(sizes) > size THEN Head(sizes) ELSE size
    IN [kind |-> "structure", cap |-> base, addr |-> 0, state |-> "created",
        size |-> size, need |-> IF sizes = <<>> THEN size ELSE Head(sizes), made |-> required, room |-> room]

\* replay_pre_vkCreateAccelerationStructureKHR and the callback after the call: the oldest
\* queried sizes are this one's; storage that is too small is replaced.
CreatedStructure(base, size, room) ==
    LET required == IF sizes # <<>> /\ Head(sizes) > size THEN Head(sizes) ELSE size
    IN [kind |-> "structure", cap |-> base, addr |-> 0, state |-> "created",
        size |-> IF room < required THEN required ELSE size,
        need |-> IF sizes = <<>> THEN size ELSE Head(sizes), made |-> required,
        room |-> IF room < required THEN required ELSE room]

replay_callback_vkCreateAccelerationStructureKHR(base, size, room) ==
    /\ Runs /\ trace.uses = "structures" /\ Len(object) < MaxObjects /\ size <= room
    /\ \A o \in Alike("structure") : Live(o) => object[o].cap # base
    /\ object' = Append(object, CreatedStructure(base, size, room))
    /\ remapping' = remapping \cup {Len(object) + 1}
    /\ sizes' = IF sizes = <<>> THEN sizes ELSE Tail(sizes)
    /\ UNCHANGED <<handles, rewrites, slot, command, ran, trace, outcome>>

\* Destroyed structures stay in their remapping, with their address.
replay_pre_vkDestroyAccelerationStructureKHR(o) ==
    /\ Runs /\ object[o].kind = "structure" /\ Live(o)
    /\ object' = [object EXCEPT ![o].state = "destroyed"]
    /\ UNCHANGED <<remapping, sizes, handles, rewrites, slot, command, ran, trace, outcome>>

find_buffer_by_replay_address(address) ==
    LET at == {o \in Alike("buffer") :
                  /\ object[o].state = "bound" /\ object[o].addr # 0
                  /\ object[o].addr <= address /\ address < object[o].addr + object[o].size}
    IN IF at = {} THEN 0
       ELSE CHOOSE o \in at : \A p \in at : object[o].size > object[p].size \/ (object[o].size = object[p].size /\ o <= p)

--------------------------------------------------------------------------------
(* Shader group handles and descriptors *)

\* External: what the two drivers return.
GroupHandle(p, g) == 100 + 10 * p + g
ReplayGroupHandle(p, g) == GroupHandle(p, g) + (IF p \in KeptPipelines THEN 0 ELSE HandleShift)
CaptureDescriptor(o) == IF DescriptorsNameAddress THEN object[o].cap ELSE 2000 + o
ReplayDescriptor(o) == IF DescriptorsNameAddress THEN object[o].addr ELSE 3000 + o

store_raytracing_handles(p, gs) == [g \in Groups |-> IF g \in gs THEN GroupHandle(p, g) ELSE handles[p].cap[g]]
store_raytracing_handles_replay(p, gs) == [g \in Groups |-> IF g \in gs THEN ReplayGroupHandle(p, g) ELSE handles[p].rep[g]]

replay_track_vkGetRayTracingShaderGroupHandlesKHR(p, gs) ==
    /\ Runs /\ trace.uses = "handles"
    /\ handles' = [handles EXCEPT ![p].cap = store_raytracing_handles(p, gs),
                                  ![p].rep = store_raytracing_handles_replay(p, gs)]
    /\ UNCHANGED <<rwobjects, rewrites, slot, command, ran, trace, outcome>>

replay_track_vkGetRayTracingCaptureReplayShaderGroupHandlesKHR(p, gs) ==
    /\ Runs /\ trace.uses = "handles" /\ p \in KeptPipelines
    /\ handles' = [handles EXCEPT ![p].cap = store_raytracing_handles(p, gs), ![p].kept = TRUE]
    /\ UNCHANGED <<rwobjects, rewrites, slot, command, ran, trace, outcome>>

queue_descriptor_rewrite(o) ==
    Append(rewrites, [type |-> object[o].kind, cap |-> CaptureDescriptor(o), bytes |-> ReplayDescriptor(o)])

\* A replaying device with larger descriptors cannot replay the trace (exit status 77).
skip_descriptor_buffer_portability == ~trace.portable

replay_callback_vkGetDescriptorEXT(o) ==
    /\ Runs /\ Live(o) /\ object[o].addr # 0 /\ Len(rewrites) < MaxRewrites
    /\ IF skip_descriptor_buffer_portability
       THEN outcome' = "stopped" /\ UNCHANGED rewrites
       ELSE rewrites' = queue_descriptor_rewrite(o) /\ UNCHANGED outcome
    /\ UNCHANGED <<rwobjects, handles, slot, command, ran, trace>>

\* find_marked_shader_group_handle_match: every pipeline with that captured handle.
CapturedMatches(h) == {pg \in Pipelines \X Groups : handles[pg[1]].cap[pg[2]] = h}
ReplayMatches(h) == {pg \in Pipelines \X Groups :
    h = IF handles[pg[1]].kept THEN handles[pg[1]].cap[pg[2]] ELSE handles[pg[1]].rep[pg[2]]}

\* 0 stands for an ABORT.
rewrite_marked_shader_group_handle(h) ==
    LET found == CapturedMatches(h)
        pg == CHOOSE x \in found : TRUE
    IN IF Cardinality(found) # 1 THEN 0
       ELSE IF handles[pg[1]].kept THEN h ELSE handles[pg[1]].rep[pg[2]]

First(found) == CHOOSE i \in found : \A j \in found : i <= j

RewrittenDescriptor(type, stored) ==
    LET found == {i \in DOMAIN rewrites : rewrites[i].type = type /\ rewrites[i].cap = stored}
    IN IF found = {} THEN stored ELSE rewrites[First(found)].bytes

--------------------------------------------------------------------------------
(* Marked memory *)

\* What the application means by a value, and the value on each device.
Meanings ==
    {[kind |-> object[x[1]].kind, of |-> x[1], at |-> x[2], by |-> 0] :
        x \in {<<o, d>> \in (DOMAIN object) \X (0..Slotted) : Live(o) /\ object[o].addr # 0 /\ d \in {0, object[o].size - 1}}}
    \cup {[kind |-> "descriptor", of |-> o, at |-> 0, by |-> 0] :
        o \in {q \in DOMAIN object : Live(q) /\ object[q].addr # 0 /\
               \E i \in DOMAIN rewrites : rewrites[i].cap = CaptureDescriptor(q)}}
    \cup {[kind |-> "handle", of |-> 0, at |-> g, by |-> p] : p \in Pipelines, g \in Groups}

Usable(m) ==
    CASE m.kind = "buffer" -> TRUE
      [] m.kind = "structure" -> m.at = 0
      [] m.kind = "descriptor" -> trace.helpers
      [] OTHER -> handles[m.by].cap[m.at] # 0

CapturedValue(m) ==
    CASE m.kind \in {"buffer", "structure"} -> object[m.of].cap + m.at
      [] m.kind = "descriptor" -> CaptureDescriptor(m.of)
      [] OTHER -> GroupHandle(m.by, m.at)
ReplayValue(m) ==
    CASE m.kind \in {"buffer", "structure"} -> object[m.of].addr + m.at
      [] m.kind = "descriptor" -> ReplayDescriptor(m.of)
      [] OTHER -> ReplayGroupHandle(m.by, m.at)

\* One entry of the markings.
translate_marked_offset(m, stored) ==
    CASE m.kind \in {"buffer", "structure"} -> translate_address(m.kind, stored)
      [] m.kind = "descriptor" -> RewrittenDescriptor(object[m.of].kind, stored)
      [] OTHER -> rewrite_marked_shader_group_handle(stored)

\* vkUpdateBuffer/MemoryTRACETOOLTEST: the captured bytes, then translate_marked_offsets.
translate_marked_offsets(s, m) ==
    LET stored == CapturedValue(m)
        now == IF trace.helpers THEN translate_marked_offset(m, stored) ELSE stored
    IN /\ Runs /\ m \in Meanings /\ Usable(m)
       /\ slot' = [slot EXCEPT ![s] = [meant |-> m, stored |-> stored, now |-> now]]
       /\ outcome' = IF now # 0 THEN outcome ELSE IF m.kind \in {"buffer", "structure"} THEN "assert" ELSE "abort"
       /\ ran' = ran \ {s}
       /\ UNCHANGED <<rwobjects, handles, rewrites, command, trace>>

--------------------------------------------------------------------------------
(* Raw traces: before a submission *)

DropRewrites ==
    /\ Runs /\ ~trace.helpers
    /\ command' = [bound |-> NoPipeline, sbt |-> {}, instances |-> {}]
    /\ ran' = {}
    /\ UNCHANGED <<rwobjects, handles, rewrites, slot, trace, outcome>>

replay_track_vkCmdBindPipeline(p) ==
    /\ Runs /\ ~trace.helpers /\ trace.uses = "handles"
    /\ command' = [command EXCEPT !.bound = p]
    /\ UNCHANGED <<rwobjects, handles, rewrites, slot, ran, trace, outcome>>

replay_fixup_vkCmdTraceRaysKHR(s) ==
    /\ Runs /\ ~trace.helpers /\ command.bound # NoPipeline
    /\ command' = [command EXCEPT !.sbt = @ \cup {<<command.bound, s>>}]
    /\ UNCHANGED <<rwobjects, handles, rewrites, slot, ran, trace, outcome>>

UseInstances(s) ==
    /\ Runs /\ ~trace.helpers /\ trace.uses = "structures"
    /\ command' = [command EXCEPT !.instances = @ \cup {s}]
    /\ UNCHANGED <<rwobjects, handles, rewrites, slot, ran, trace, outcome>>

is_known_replay_as_address(a) == a # 0 /\ \E o \in Alike("structure") : object[o].addr = a

\* The place is found through the address in the command.
Mappable(s) == find_buffer_by_replay_address(object[Home].addr + s) = Home

FixedInstance(v) ==
    LET translated == translate_address("structure", v) IN IF translated # 0 THEN translated ELSE v

\* Mutant: every record gets the handle of the first group.
FixedRecordFirst(p, v) == handles[p].rep[CHOOSE g \in Groups : \A h \in Groups : g <= h]

FixedRecord(p, v) ==
    LET found == {g \in Groups : handles[p].cap[g] = v}
    IN IF found = {} THEN v ELSE handles[p].rep[First(found)]

Skipped(p) == handles[p].kept \/ \A g \in Groups : handles[p].cap[g] = 0

\* Instances, then shader binding tables; only the former insist on mappable memory.
RewritesForSubmit ==
    LET instances == command.instances
        records == {use \in command.sbt : ~Skipped(use[1])}
        unknown == \E s \in instances :
            LET v == slot[s].now IN v # 0 /\ translate_address("structure", v) = 0 /\ ~is_known_replay_as_address(v)
        lost == \E s \in instances \cup {use[2] : use \in records} : ~Mappable(s)
    IN /\ Runs /\ ~trace.helpers
       /\ \A s \in instances : slot[s].meant.kind = "structure" /\ Live(slot[s].meant.of)
       /\ \A use \in command.sbt : slot[use[2]].meant.by = use[1]
       /\ instances # {} \/ command.sbt # {}
       /\ outcome' = IF instances # {} /\ ~trace.visible THEN "stopped"
                     ELSE IF unknown \/ lost THEN "abort" ELSE outcome
       /\ IF trace.visible
          THEN slot' = [s \in Slots |->
                   IF s \in instances THEN [slot[s] EXCEPT !.now = FixedInstance(@)]
                   ELSE IF \E use \in records : use[2] = s THEN [slot[s] EXCEPT !.now = FixedRecord(slot[s].meant.by, @)]
                   ELSE slot[s]]
          ELSE UNCHANGED slot
       /\ ran' = instances \cup {use[2] : use \in command.sbt}
       /\ UNCHANGED <<rwobjects, handles, rewrites, command, trace>>

--------------------------------------------------------------------------------
(* Asserts *)

\* 0 when there is no answer or more than one; in the latter case replay aborts.
reverse_translate_buffer_replay_address(a) ==
    LET o == find_buffer_by_replay_address(a) IN IF o = 0 THEN 0 ELSE object[o].cap + (a - object[o].addr)

\* The first in creation order, destroyed or not.
reverse_translate_acceleration_structure_replay_address(a) ==
    LET found == {o \in Alike("structure") : object[o].addr = a}
    IN IF found = {} THEN 0 ELSE object[First(found)].cap

reverse_translate_descriptor_replay_bytes(type, v) ==
    LET found == {rewrites[i].cap : i \in {j \in DOMAIN rewrites : rewrites[j].type = type /\ rewrites[j].bytes = v}}
    IN IF found = {} THEN v ELSE IF Cardinality(found) > 1 THEN 0 ELSE CHOOSE c \in found : TRUE

reverse_translate_shader_group_handle(v) ==
    LET found == ReplayMatches(v)
        pg == CHOOSE x \in found : TRUE
    IN IF Cardinality(found) # 1 THEN 0 ELSE handles[pg[1]].cap[pg[2]]

Reversed(m, v) ==
    CASE m.kind = "buffer" -> reverse_translate_buffer_replay_address(v)
      [] m.kind = "structure" -> reverse_translate_acceleration_structure_replay_address(v)
      [] m.kind = "descriptor" -> reverse_translate_descriptor_replay_bytes(object[m.of].kind, v)
      [] OTHER -> reverse_translate_shader_group_handle(v)

\* The checksum of the reversed bytes against the one of the trace.
retrace_vkAssertBufferARM(checked) ==
    /\ Runs /\ trace.helpers /\ checked # {}
    /\ \A s \in checked : slot[s].meant # Empty /\ (slot[s].meant.of # 0 => Live(slot[s].meant.of))
    /\ outcome' = IF \A s \in checked : Reversed(slot[s].meant, slot[s].now) = slot[s].stored THEN outcome ELSE "abort"
    /\ UNCHANGED <<rwobjects, handles, rewrites, slot, command, ran, trace>>

RwNext ==
    \/ \E b \in Bases, n \in Sizes : replay_callback_vkCreateBuffer(b, n)
    \/ \E o \in DOMAIN object :
        \/ replay_callback_vkBindBufferMemory2(o)
        \/ \E a \in ReplayAddresses(o) : GetDeviceAddress(o, a)
        \/ replay_pre_vkDestroyBuffer(o)
        \/ replay_pre_vkDestroyAccelerationStructureKHR(o)
        \/ replay_callback_vkGetDescriptorEXT(o)
    \/ \E n \in Sizes : replay_callback_vkGetAccelerationStructureBuildSizesKHR(n)
    \/ \E b \in Bases, n, r \in Sizes : replay_callback_vkCreateAccelerationStructureKHR(b, n, r)
    \/ \E p \in Pipelines, gs \in SUBSET Groups \ {{}} :
        \/ replay_track_vkGetRayTracingShaderGroupHandlesKHR(p, gs)
        \/ replay_track_vkGetRayTracingCaptureReplayShaderGroupHandlesKHR(p, gs)
    \/ \E s \in Slots, m \in Meanings : translate_marked_offsets(s, m)
    \/ DropRewrites
    \/ \E p \in Pipelines : replay_track_vkCmdBindPipeline(p)
    \/ \E s \in Slots : replay_fixup_vkCmdTraceRaysKHR(s) \/ UseInstances(s)
    \/ RewritesForSubmit
    \/ \E checked \in SUBSET Slots : retrace_vkAssertBufferARM(checked)

--------------------------------------------------------------------------------
(* Properties *)

Held(s) == slot[s].meant.of # 0 => Live(slot[s].meant.of)

(* Marked bytes of a live object hold its address, descriptor or handle on the    *)
(* replaying device, whatever was created or destroyed around it                  *)
(* (translate_marked_offsets).                                                    *)
MarkedValuesReplayed ==
    trace.helpers /\ Runs =>
        \A s \in Slots : slot[s].meant # Empty /\ Held(s) => slot[s].now = ReplayValue(slot[s].meant)

(* What a submission of a raw trace reads was rewritten exactly once, however     *)
(* often its command buffer is submitted                                          *)
(* (replay_fixup_commandbuffer_raytracing_sbt and _instances).                    *)
SubmittedValuesReplayed ==
    Runs /\ trace.visible => \A s \in ran : Held(s) => slot[s].now = ReplayValue(slot[s].meant)

(* Addresses, descriptors and handles in memory are replay's own when the  *)
(* device reads them, in a trace with markings and in a raw one.           *)
ValuesReplayed == MarkedValuesReplayed /\ SubmittedValuesReplayed

(* A valid trace neither trips the assertion on an unknown address nor aborts,    *)
(* and its checksums agree (retrace_vkAssertBufferARM, translate_marked_offsets). *)
NoFalseAlarm == outcome \notin {"assert", "abort"}

(* A structure that needs more memory on the replaying device gets it.            *)
StructuresFit ==
    \A o \in Alike("structure") : object[o].need <= object[o].made /\ object[o].made <= object[o].room

(* A valid trace is replayed to its end, on a device that needs more       *)
(* memory for a structure too.                                             *)
NoAbort == NoFalseAlarm /\ StructuresFit
====
