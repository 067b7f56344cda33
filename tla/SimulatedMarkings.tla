--------------------------- MODULE SimulatedMarkings ---------------------------
(* lava-tool with simulation: a first pass over the trace executes recorded     *)
(* commands on the host (execute_commands.cpp) and finds out, for every address *)
(* that a shader or a fixed-function reader dereferences, which packet of the   *)
(* trace carried it and where; a second pass writes the trace again with those  *)
(* places marked (tool.cpp), so that replay can translate them.                 *)
(*                                                                              *)
(* Memory is modelled per 4-byte cell, an address takes two. A cell does not    *)
(* hold a value but its origin: the packet that wrote it and the offset that a  *)
(* marking of this packet needs to name it (None: zero or computed).  `source'  *)
(* is what host_write_regions has recorded for the same cell.                   *)
EXTENDS Naturals, Sequences, FiniteSets

CONSTANTS
    Buffers,      \* names of the buffers
    Size,         \* cells of every buffer, of the push constants and of the stage data
    Updates,      \* update packets of the trace: [into, first, n, marks]
    Commands,     \* commands it may record: [op, src, from, dst, to, n]
    MaxPackets,   \* bound: packets of the trace
    MaxCommands   \* bound: commands of one command buffer

VARIABLES
    phase,     \* "simulate", "inject", "done" or "died"
    packets,   \* the trace read so far
    memory,    \* origin of every cell, per space
    source,    \* host_write_regions of every space
    touched,   \* objects the suballocator has handed out (needs_init is over)
    commands,  \* recorded in the command buffer: the packet of each
    running,   \* submitted, left to execute
    queue,     \* global_output_rewrite_queue
    found,     \* ghost: every address seen, with its true origin
    next,      \* packet the second pass is at
    injected   \* markings of the packets written by the second pass

simvars == <<phase, packets, memory, source, touched, commands, running, queue, found, next, injected>>

Cells == 0 .. Size - 1
Spaces == Buffers \cup {"push", "spec"}
None == [packet |-> 0, offset |-> 0]
Ref(p, c) == [packet |-> p, offset |-> c]
Blank == [c \in Cells |-> None]

\* Updates and commands stay inside the spaces they name.
ASSUME SimulationAssumption ==
    /\ Size \in Nat /\ MaxPackets \in Nat /\ {"push", "spec"} \cap Buffers = {}
    /\ Updates \subseteq [into : Buffers, first : Nat, n : Nat, marks : SUBSET Cells]
    /\ \A u \in Updates : u.first + u.n <= Size
    /\ Commands \subseteq [op : STRING, src : Spaces \cup {"none"}, from : Nat,
                           dst : Spaces \cup {"none"}, to : Nat, n : Nat]
    /\ \A c \in Commands :
          /\ c.op \in {"copy", "move"} => c.from + c.n <= Size
          /\ c.op \in {"copy", "trace", "build"} => c.src \in Buffers
          /\ c.op \in {"move", "load", "halves", "composite"} => c.src \in Spaces
          /\ c.op \in {"copy", "update_buffer", "move", "store", "store_address", "store_pointer"} => c.dst \in Buffers
          /\ c.op # "halves" => c.to + c.n <= Size

\* Cells c and c + 1 of the space hold the two halves of an address, maybe one
\* that a later packet has changed in part.
IsAddress(s, c) ==
    /\ c + 1 \in Cells
    /\ memory[s][c] # None /\ memory[s][c].offset % 2 = 0
    /\ memory[s][c + 1] # None /\ memory[s][c + 1].offset % 2 = 1

--------------------------------------------------------------------------------
(* host_write_regions *)

\* Mutant: the object offset counts the start of the region twice.
register_sourceTwice(f, first, n, p) ==
    [c \in Cells |-> IF c \in first .. first + n - 1 THEN Ref(p, first + c) ELSE f[c]]

register_source(f, first, n, p) ==
    [c \in Cells |-> IF c \in first .. first + n - 1 THEN Ref(p, c) ELSE f[c]]

\* Mutant: a copied reference is numbered by where it lands.
copy_sourcesRenumbered(f, g, to, from, n) ==
    [c \in Cells |-> IF c \in to .. to + n - 1 /\ g[from + (c - to)] # None
                     THEN Ref(g[from + (c - to)].packet, c) ELSE f[c]]

\* Cells that have no source leave what the destination had.
copy_sources(f, g, to, from, n) ==
    [c \in Cells |-> IF c \in to .. to + n - 1 /\ g[from + (c - to)] # None
                     THEN g[from + (c - to)] ELSE f[c]]

\* The reference of an address: both cells from one packet, and consecutive.
try_get_reference(f, c) ==
    IF c + 1 \in Cells /\ f[c] # None /\ f[c + 1] = Ref(f[c].packet, f[c].offset + 1)
    THEN f[c] ELSE None

memcpy(f, g, to, from, n) ==
    [c \in Cells |-> IF c \in to .. to + n - 1 THEN g[from + (c - to)] ELSE f[c]]

--------------------------------------------------------------------------------
(* The rewrite queue *)

merge_marked_offsets(a, b) == a \cup b

\* Entries of the same packet and target are one entry.
merge_rewrite_markings(q, m) ==
    LET same == {i \in DOMAIN q : q[i].packet = m.packet /\ q[i].target = m.target}
    IN IF same = {} THEN Append(q, [packet |-> m.packet, target |-> m.target, marks |-> {m.offset}])
       ELSE [i \in DOMAIN q |-> IF i \in same THEN [q[i] EXCEPT !.marks = merge_marked_offsets(@, {m.offset})] ELSE q[i]]

\* A marking whose bytes no packet covers is skipped.
merge_discovered_markings(q, ms) ==
    LET merged[i \in 0 .. Len(ms)] ==
            IF i = 0 THEN q
            ELSE IF ms[i].packet = 0 THEN merged[i - 1]
            ELSE merge_rewrite_markings(merged[i - 1], ms[i])
    IN merged[Len(ms)]

\* Mutant: the marking names the place the shader read.
PhysicalAddressMarkingLocal(s, c) ==
    [packet |-> try_get_reference(source[s], c).packet, offset |-> c,
     target |-> IF s = "spec" THEN "spec" ELSE "any", explicit |-> TRUE,
     truth |-> memory[s][c]]

\* Marking of an address that a shader used: in the packet it came from.
PhysicalAddressMarking(s, c) ==
    [packet |-> try_get_reference(source[s], c).packet, offset |-> try_get_reference(source[s], c).offset,
     target |-> IF s = "spec" THEN "spec" ELSE "any", explicit |-> TRUE,
     truth |-> memory[s][c]]

\* Marking of what a fixed-function reader found in place: the packet is looked
\* up, the offset and the object are those of the buffer it read.
BufferMarking(s, c) ==
    [packet |-> try_get_reference(source[s], c).packet, offset |-> c,
     target |-> s, explicit |-> FALSE, truth |-> memory[s][c]]

\* Shader group handles of a binding table, and the instances of an
\* acceleration structure that are not null.
collect_stages_from_sbt_region(s, c) == <<BufferMarking(s, c)>>
collect_acceleration_structure_instance_markings(s, c) ==
    IF IsAddress(s, c) THEN <<BufferMarking(s, c)>> ELSE <<>>

\* Two halves of an address count as one when they are side by side.
collect_contiguous_device_address_marking(s, low, high) ==
    IF high = low + 1 THEN <<PhysicalAddressMarking(s, low)>> ELSE <<>>

\* A composite is searched at every position with the alignment of the address
\* that was loaded from it.
collect_composite_device_address_marking(s, c) ==
    LET below[d \in 0 .. Size] ==
            IF d = 0 THEN <<>>
            ELSE IF (d - 1) % 2 = c % 2 /\ IsAddress(s, d - 1)
            THEN Append(below[d - 1], PhysicalAddressMarking(s, d - 1)) ELSE below[d - 1]
    IN below[Size]

--------------------------------------------------------------------------------
(* First pass: the trace *)

SimInit ==
    /\ phase = "simulate"
    /\ packets = <<>>
    /\ memory = [s \in Spaces |-> Blank]
    /\ source = [s \in Spaces |-> Blank]
    /\ touched = {}
    /\ commands = <<>>
    /\ running = <<>>
    /\ queue = <<>>
    /\ found = {}
    /\ next = 1
    /\ injected = <<>>

Reading == phase = "simulate" /\ running = <<>> /\ Len(packets) < MaxPackets

\* Host bytes of an update packet are attributed to it.
read_patch_tracking(f, u, p) == register_source(f, u.first, u.n, p)

\* The first packet of a buffer initializes all of it.
buffer_update(u) ==
    LET p == Len(packets) + 1
        whole == register_source(Blank, 0, Size, p)
        base == IF u.into \in touched THEN source[u.into] ELSE whole
    IN /\ Reading
       /\ packets' = Append(packets, [kind |-> "update", into |-> u.into, first |-> u.first,
                                      n |-> u.n, marks |-> u.marks])
       /\ memory' = [memory EXCEPT ![u.into] = memcpy(@, whole, u.first, u.first, u.n)]
       /\ source' = [source EXCEPT ![u.into] = read_patch_tracking(base, u, p)]
       /\ touched' = touched \cup {u.into}
       /\ UNCHANGED <<phase, commands, running, queue, found, next, injected>>

\* A compute pipeline with specialization data, the only stage of the model.
postprocess_vkCreateComputePipelines ==
    LET p == Len(packets) + 1
    IN /\ Reading
       /\ \A i \in DOMAIN packets : packets[i].kind # "stage"
       /\ packets' = Append(packets, [kind |-> "stage", into |-> "spec", first |-> 0,
                                      n |-> Size, marks |-> {}])
       /\ memory' = [memory EXCEPT !["spec"] = register_source(@, 0, Size, p)]
       /\ source' = [source EXCEPT !["spec"] = register_source(@, 0, Size, p)]
       /\ UNCHANGED <<phase, touched, commands, running, queue, found, next, injected>>

\* The command is kept with the packet it came in.
Record(c) ==
    /\ Reading
    /\ Len(commands) < MaxCommands
    /\ packets' = Append(packets, [kind |-> c.op, into |-> c.dst, first |-> c.to,
                                   n |-> c.n, marks |-> {}])
    /\ commands' = Append(commands, [command |-> c, packet |-> Len(packets) + 1])
    /\ UNCHANGED <<phase, memory, source, touched, running, queue, found, next, injected>>

postprocess_copy_buffer(c) == c.op \in {"copy", "update_buffer"} /\ Record(c)
postprocess_push_constants(c) == c.op = "push" /\ Record(c)
postprocess_compute_command(c) ==
    c.op \in {"load", "halves", "composite", "move", "store", "store_address", "store_pointer"} /\ Record(c)
postprocess_vkCmdTraceRaysKHR(c) == c.op = "trace" /\ Record(c)
postprocess_vkCmdBuildAccelerationStructuresKHR(c) == c.op = "build" /\ Record(c)

\* Submitting executes the commands with no push constants set, and once.
postprocess_vkQueueSubmit ==
    /\ phase = "simulate" /\ running = <<>> /\ commands # <<>>
    /\ running' = commands
    /\ commands' = <<>>
    /\ memory' = [memory EXCEPT !["push"] = Blank]
    /\ source' = [source EXCEPT !["push"] = Blank]
    /\ UNCHANGED <<phase, packets, touched, queue, found, next, injected>>

--------------------------------------------------------------------------------
(* First pass: execute_commands *)

Running(ops) == phase = "simulate" /\ running # <<>> /\ Head(running).command.op \in ops
Executed == running' = Tail(running) /\ UNCHANGED <<phase, packets, commands, next, injected>>

VKCMDCOPYBUFFER ==
    LET c == Head(running).command
    IN /\ Running({"copy"})
       /\ memory' = [memory EXCEPT ![c.dst] = memcpy(@, memory[c.src], c.to, c.from, c.n)]
       /\ source' = [source EXCEPT ![c.dst] = copy_sources(@, source[c.src], c.to, c.from, c.n)]
       /\ touched' = touched \cup {c.src, c.dst}
       /\ Executed /\ UNCHANGED <<queue, found>>

\* These two carry their bytes themselves.
VKCMDUPDATEBUFFER ==
    LET c == Head(running).command
        p == Head(running).packet
    IN /\ Running({"update_buffer"})
       /\ memory' = [memory EXCEPT ![c.dst] = register_source(@, c.to, c.n, p)]
       /\ source' = [source EXCEPT ![c.dst] = register_source(@, c.to, c.n, p)]
       /\ touched' = touched \cup {c.dst}
       /\ Executed /\ UNCHANGED <<queue, found>>

VKCMDPUSHCONSTANTS ==
    LET c == Head(running).command
        p == Head(running).packet
    IN /\ Running({"push"})
       /\ memory' = [memory EXCEPT !["push"] = register_source(@, c.to, c.n, p)]
       /\ source' = [source EXCEPT !["push"] = register_source(@, c.to, c.n, p)]
       /\ Executed /\ UNCHANGED <<touched, queue, found>>

\* Every buffer with an address is handed to the simulator.
SimulatorRanges == Buffers

Discover(ms) ==
    /\ queue' = merge_discovered_markings(queue, ms)
    /\ found' = found \cup {m \in {ms[i] : i \in DOMAIN ms} : m.packet # 0}

\* Markings of the address that a shader dereferences: loaded as one value, as
\* two halves, or as a member of a composite.
collect_simulator_physical_address_markings(c) ==
    IF ~IsAddress(c.src, c.from) THEN <<>>
    ELSE CASE c.op = "load" -> <<PhysicalAddressMarking(c.src, c.from)>>
           [] c.op = "halves" -> collect_contiguous_device_address_marking(c.src, c.from, c.to)
           [] c.op = "composite" -> collect_composite_device_address_marking(c.src, c.from)

\* An address without provenance ends the tool.
run_spirv_load ==
    LET ms == collect_simulator_physical_address_markings(Head(running).command)
    IN /\ Running({"load", "halves", "composite"})
       /\ touched' = SimulatorRanges
       /\ UNCHANGED <<memory, source>>
       /\ \/ /\ \A i \in DOMAIN ms : ms[i].packet # 0
             /\ Discover(ms) /\ Executed
          \/ /\ \E i \in DOMAIN ms : ms[i].packet = 0
             /\ phase' = "died"
             /\ UNCHANGED <<packets, commands, running, queue, found, next, injected>>

\* A shader copies cells.
merge_simulator_source_copies(f, c) == copy_sources(f, source[c.src], c.to, c.from, c.n)

run_spirv_move ==
    LET c == Head(running).command
    IN /\ Running({"move"})
       /\ memory' = [memory EXCEPT ![c.dst] = memcpy(@, memory[c.src], c.to, c.from, c.n)]
       /\ source' = [source EXCEPT ![c.dst] = merge_simulator_source_copies(@, c)]
       /\ touched' = SimulatorRanges
       /\ Executed /\ UNCHANGED <<queue, found>>

\* An address that a shader computes and stores is taken for the dispatch's own
\* when it is a verified candidate, and else unless there is a source already.
\* Any other value it stores leaves the provenance alone.
merge_simulator_output_candidates(f, c, p) ==
    IF c.op = "store_address" THEN register_source(f, c.to, c.n, p) ELSE f
merge_simulator_memory_metadata(f, c, p) ==
    IF c.op # "store" /\ try_get_reference(f, c.to) = None
    THEN register_source(f, c.to, c.n, p) ELSE f

run_spirv_store ==
    LET c == Head(running).command
        p == Head(running).packet
        computed == [d \in Cells |-> IF d \in c.to .. c.to + c.n - 1 THEN None ELSE memory[c.dst][d]]
    IN /\ Running({"store", "store_address", "store_pointer"})
       /\ memory' = [memory EXCEPT ![c.dst] =
                        IF c.op = "store_address" THEN register_source(@, c.to, c.n, p) ELSE computed]
       /\ source' = [source EXCEPT ![c.dst] =
                        merge_simulator_memory_metadata(merge_simulator_output_candidates(@, c, p), c, p)]
       /\ touched' = SimulatorRanges
       /\ Executed /\ UNCHANGED <<queue, found>>

\* Binding tables (the shaders they name are dispatches of their own here).
VKCMDTRACERAYSKHR ==
    LET c == Head(running).command
    IN /\ Running({"trace"})
       /\ IF IsAddress(c.src, c.from) THEN Discover(collect_stages_from_sbt_region(c.src, c.from))
          ELSE UNCHANGED <<queue, found>>
       /\ touched' = touched \cup {c.src}
       /\ Executed /\ UNCHANGED <<memory, source>>

VKCMDBUILDACCELERATIONSTRUCTURESKHR ==
    LET c == Head(running).command
    IN /\ Running({"build"})
       /\ Discover(collect_acceleration_structure_instance_markings(c.src, c.from))
       /\ touched' = touched \cup {c.src}
       /\ Executed /\ UNCHANGED <<memory, source>>

--------------------------------------------------------------------------------
(* Second pass: the trace is written again *)

StartInjecting ==
    /\ phase = "simulate" /\ running = <<>> /\ packets # <<>>
    /\ phase' = "inject"
    /\ UNCHANGED <<packets, memory, source, touched, commands, running, queue, found, next, injected>>

compare_marked_offsets(existing, desired) == IF existing = desired THEN "none" ELSE "different"

Written(marks) ==
    /\ next' = next + 1
    /\ injected' = Append(injected, marks)
    /\ UNCHANGED <<phase, packets, memory, source, touched, commands, running, found>>

\* The first entry of the packet under way that fits replaces what was captured;
\* without one the packet is written as it was.
Inject(targets) ==
    LET entries == {i \in DOMAIN queue : queue[i].packet = next /\ queue[i].target \in targets}
    IN \/ /\ entries = {}
          /\ queue' = queue
          /\ Written(packets[next].marks)
       \/ \E i \in entries :
             /\ \A j \in entries : i <= j
             /\ queue' = [j \in 1 .. Len(queue) - 1 |-> IF j < i THEN queue[j] ELSE queue[j + 1]]
             /\ Written(IF compare_marked_offsets(packets[next].marks, queue[i].marks) = "none"
                        THEN packets[next].marks ELSE queue[i].marks)

Writing(kinds) == phase = "inject" /\ next \in DOMAIN packets /\ packets[next].kind \in kinds

maybe_write_rewritten_update_packet == Writing({"update"}) /\ Inject({"any", packets[next].into})
maybe_patch_push_constants_info == Writing({"push"}) /\ Inject({"any"})

\* Markings beyond the specialization data end the tool.
marked_offsets_fit_specialization_data(marks, n) == \A m \in marks : m + 2 <= n

output_vkCreateComputePipelines ==
    /\ Writing({"stage"})
    /\ Inject({"spec"})
    /\ marked_offsets_fit_specialization_data(injected'[next], packets[next].n)

\* No other packet takes markings.
WriteOther ==
    /\ Writing({c.op : c \in Commands} \ {"push"})
    /\ queue' = queue
    /\ Written(packets[next].marks)

\* Mutant: entries nobody took are ignored.
FinishSilently ==
    /\ phase = "inject" /\ next \notin DOMAIN packets
    /\ phase' = "done"
    /\ UNCHANGED <<packets, memory, source, touched, commands, running, queue, found, next, injected>>

\* An entry that no packet took ends the tool with an error.
Finish ==
    /\ phase = "inject" /\ next \notin DOMAIN packets
    /\ phase' = IF queue = <<>> THEN "done" ELSE "died"
    /\ UNCHANGED <<packets, memory, source, touched, commands, running, queue, found, next, injected>>

postprocess ==
    \E c \in Commands :
        \/ postprocess_copy_buffer(c) \/ postprocess_push_constants(c)
        \/ postprocess_compute_command(c) \/ postprocess_vkCmdTraceRaysKHR(c)
        \/ postprocess_vkCmdBuildAccelerationStructuresKHR(c)

execute_commands ==
    \/ VKCMDCOPYBUFFER \/ VKCMDUPDATEBUFFER \/ VKCMDPUSHCONSTANTS
    \/ run_spirv_load \/ run_spirv_move \/ run_spirv_store
    \/ VKCMDTRACERAYSKHR \/ VKCMDBUILDACCELERATIONSTRUCTURESKHR

WriteOutput ==
    \/ maybe_write_rewritten_update_packet \/ maybe_patch_push_constants_info
    \/ output_vkCreateComputePipelines \/ WriteOther

SimNext ==
    \/ \E u \in Updates : buffer_update(u)
    \/ postprocess_vkCreateComputePipelines
    \/ postprocess
    \/ postprocess_vkQueueSubmit
    \/ execute_commands
    \/ StartInjecting \/ WriteOutput \/ Finish

SimSpec == SimInit /\ [][SimNext]_simvars

--------------------------------------------------------------------------------
(* Properties *)

References == {None} \cup [packet : 1 .. MaxPackets, offset : Cells]

\* Every reference names a packet of the trace and a cell of it.
SimTypeOK ==
    /\ phase \in {"simulate", "inject", "done", "died"}
    /\ memory \in [Spaces -> [Cells -> References]]
    /\ source \in [Spaces -> [Cells -> References]]
    /\ touched \subseteq Buffers
    /\ next \in 1 .. MaxPackets + 1 /\ Len(injected) = next - 1
    /\ \A i \in DOMAIN queue : queue[i].packet \in DOMAIN packets /\ queue[i].marks \subseteq Cells

\* However bytes travel (copies, shader moves, updates over parts of earlier
\* ones), a cell whose bytes came from a packet is attributed to exactly that
\* packet and offset: host_write_regions never loses or shifts a host byte.
HostBytesTraced ==
    \A s \in Spaces : \A c \in Cells : memory[s][c] # None => source[s][c] = memory[s][c]

\* The marking of an address a shader used names the packet that carried it and
\* its offset there, whatever copies were in between; the marking of a handle
\* read in place names at least the packet.
MarkingsNameOrigin ==
    \A f \in found :
        /\ f.packet = f.truth.packet
        /\ f.explicit => f.offset = f.truth.offset

\* What the first pass of lava-tool says of where bytes and addresses come from is
\* true (host_write_regions, execute_commands).
MarkingsSound == SimTypeOK /\ HostBytesTraced /\ MarkingsNameOrigin

\* When lava-tool ends without an error, the packet of every address that a
\* shader used is marked at that address in the new trace.
FoundAreInjected ==
    phase = "done" =>
        \A f \in found : f.explicit => f.truth.offset \in injected[f.truth.packet]

================================================================================
