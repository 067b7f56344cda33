----------------------------- MODULE OutputRewrite -----------------------------
(* The second pass of lava-tool: one thread per stream reads the trace in the   *)
(* order its handles and barriers demand and writes it again with packets       *)
(* inserted. Every packet number in the new trace has to be translated while    *)
(* the other streams are still being written (tool.cpp, output_packet_mapping). *)
EXTENDS Integers, Sequences, FiniteSets

CONSTANTS
    Streams,    \* stream numbers, 0 ..
    Payloads,   \* descriptors, told apart by their bytes
    MaxInput    \* bound: packets of the trace read

ASSUME StreamsAssumption == Streams \subseteq Nat

VARIABLES
    input,      \* the trace read: packets per stream
    captured,   \* last packet of the trace read to touch each object
    rewriting,  \* the trace is complete and being written again
    done,       \* packets each reader has published as completed
    at,         \* where each thread is in replay_thread
    isOpen,     \* a packet is read and not yet published
    output,     \* the trace written
    lastTouch,  \* writer's record of the last packet to touch each object
    mapping,    \* output_packet_mapping::packets
    payloads,   \* pending_descriptor_payloads of each thread
    used,       \* used_descriptor_payloads
    queued,     \* pending_descriptor_buffer_updates
    emitted,    \* emitted_descriptor_buffer_updates
    aborted

inputvars == <<input, captured, rewriting>>
descriptorvars == <<payloads, used, queued, emitted>>
outvars == <<input, captured, rewriting, done, at, isOpen, output, lastTouch, mapping,
             payloads, used, queued, emitted, aborted>>

\* Objects whose handles packets carry: a descriptor buffer and any other.
Things == {"buffer", "other"}
Nobody == [thread |-> -1, packet |-> 0]
Total == LET len[s \in {-1} \cup Streams] == IF s = -1 THEN 0 ELSE Len(input[s]) + len[s - 1]
         IN len[Cardinality(Streams) - 1]

OutInit ==
    /\ input = [t \in Streams |-> <<>>]
    /\ captured = [o \in Things |-> Nobody]
    /\ rewriting = FALSE
    /\ done = [t \in Streams |-> 0]
    /\ at = [t \in Streams |-> "step"]
    /\ isOpen = [t \in Streams |-> FALSE]
    /\ output = [t \in Streams |-> <<>>]
    /\ lastTouch = [o \in Things |-> Nobody]
    /\ mapping = [t \in Streams |-> <<0>>]
    /\ payloads = [t \in Streams |-> <<>>]
    /\ used = [t \in Streams |-> {}]
    /\ queued = [t \in Streams |-> {}]
    /\ emitted = [t \in Streams |-> {}]
    /\ aborted = FALSE

--------------------------------------------------------------------------------
(* The trace to read, as capture writes it (see CaptureSync). *)

CapturePacket(t, kind, o, d) ==
    /\ ~rewriting /\ Total < MaxInput
    /\ input' = [input EXCEPT ![t] = Append(@, [kind |-> kind, object |-> o, payload |-> d,
                                                need |-> captured[o], after |-> <<>>])]
    /\ captured' = IF kind = "update" THEN captured
                   ELSE [captured EXCEPT ![o] = [thread |-> t, packet |-> Len(input[t])]]
    /\ UNCHANGED <<rewriting, done, at, isOpen, output, lastTouch, mapping, descriptorvars, aborted>>

CaptureBarrier(t) ==
    /\ ~rewriting /\ Total < MaxInput
    /\ input' = [input EXCEPT ![t] = Append(@, [kind |-> "barrier", object |-> "none", payload |-> 0,
                                                need |-> Nobody, after |-> [i \in Streams |-> Len(input[i])]])]
    /\ UNCHANGED <<captured, rewriting, done, at, isOpen, output, lastTouch, mapping, descriptorvars, aborted>>

StartRewriting ==
    /\ ~rewriting
    /\ rewriting' = TRUE
    /\ UNCHANGED <<input, captured, done, at, isOpen, output, lastTouch, mapping, descriptorvars, aborted>>

--------------------------------------------------------------------------------
(* output_packet_mapping: entry n is where the first n packets end. *)

\* A value recorded twice has to be the same.
CanRecord(t, n, value) ==
    \/ Len(mapping[t]) = n
    \/ Len(mapping[t]) > n /\ mapping[t][n + 1] = value
record(t, n, value) ==
    [mapping EXCEPT ![t] = IF Len(@) = n THEN Append(@, value) ELSE @]

CanTranslate(t, n) == n + 1 \in DOMAIN mapping[t]
translate(t, n) == IF CanTranslate(t, n) THEN mapping[t][n + 1] ELSE -1

Publish(t) == IF isOpen[t] THEN [done EXCEPT ![t] = @ + 1] ELSE done
Packet(t) == input[t][done[t] + 1]
Barrier(t) == input[t][done[t]]

OutStep(t) ==
    /\ rewriting /\ ~aborted /\ at[t] = "step"
    /\ done' = Publish(t)
    /\ IF done'[t] = Len(input[t])
       THEN /\ isOpen' = [isOpen EXCEPT ![t] = FALSE]
            /\ at' = [at EXCEPT ![t] = "terminated"]
       ELSE /\ isOpen' = [isOpen EXCEPT ![t] = TRUE]
            /\ at' = [at EXCEPT ![t] = IF input[t][done'[t] + 1].kind = "barrier" THEN "barrier" ELSE "handle"]
    /\ UNCHANGED <<inputvars, output, lastTouch, mapping, descriptorvars, aborted>>

\* Mutant: the place of a barrier is recorded only once it is written.
RecordBarrierLate(t) ==
    /\ at[t] = "barrier"
    /\ at' = [at EXCEPT ![t] = "enter"]
    /\ UNCHANGED <<inputvars, done, isOpen, output, lastTouch, mapping, descriptorvars, aborted>>

\* The place of a barrier is recorded ahead: read_barrier publishes it before it
\* waits, and others may go on by then.
RecordBarrier(t) ==
    /\ at[t] = "barrier"
    /\ mapping' = record(t, done[t] + 1, Len(output[t]) + 1)
    /\ at' = [at EXCEPT ![t] = "enter"]
    /\ UNCHANGED <<inputvars, done, isOpen, output, lastTouch, descriptorvars, aborted>>

OutEnterBarrier(t) ==
    /\ at[t] = "enter"
    /\ done' = Publish(t)
    /\ isOpen' = [isOpen EXCEPT ![t] = FALSE]
    /\ at' = [at EXCEPT ![t] = "waiting"]
    /\ UNCHANGED <<inputvars, output, lastTouch, mapping, descriptorvars, aborted>>

\* Mutant: a barrier keeps the numbers it had.
OutputIndicesAsRead(t) == Barrier(t).after

OutputIndices(t) == [i \in Streams |-> translate(i, Barrier(t).after[i])]

\* Waited for, translated and written; a number without a translation is fatal.
WriteBarrier(t) ==
    LET written == [from |-> done[t] - 1, kind |-> "barrier", need |-> Nobody, after |-> OutputIndices(t)]
    IN /\ ~aborted /\ at[t] = "waiting"
       /\ \A i \in Streams \ {t} : Barrier(t).after[i] <= done[i]
       /\ output' = [output EXCEPT ![t] = Append(@, written)]
       /\ mapping' = record(t, done[t], Len(output[t]) + 1)
       /\ aborted' = ~(/\ \A i \in Streams : CanTranslate(i, Barrier(t).after[i])
                      /\ CanRecord(t, done[t], Len(output[t]) + 1))
       /\ at' = [at EXCEPT ![t] = "step"]
       /\ UNCHANGED <<inputvars, done, isOpen, lastTouch, descriptorvars>>

\* read_handle waits for the packet that last touched the object.
ReadHandle(t) ==
    /\ ~aborted /\ at[t] = "handle"
    /\ LET n == Packet(t).need IN n.thread \in Streams \ {t} => n.packet < done[n.thread]
    /\ at' = [at EXCEPT ![t] = "write"]
    /\ UNCHANGED <<inputvars, done, isOpen, output, lastTouch, mapping, descriptorvars, aborted>>

\* Mutant: the packet is taken for the place it starts at.
write_output_handleStart(t, n) ==
    IF n.thread \in {-1, t} THEN n ELSE [n EXCEPT !.packet = translate(n.thread, n.packet)]

\* Packet n of another stream is the last before the place where n + 1 packets end.
write_output_handle(t, n) ==
    IF n.thread \in {-1, t} THEN n ELSE [n EXCEPT !.packet = translate(n.thread, n.packet + 1) - 1]

Done(t, packets, ready) ==
    /\ output' = [output EXCEPT ![t] = @ \o packets]
    /\ mapping' = record(t, done[t] + 1, Len(output'[t]))
    /\ aborted' = ~(ready /\ CanRecord(t, done[t] + 1, Len(output'[t])))
    /\ at' = [at EXCEPT ![t] = "step"]
    /\ UNCHANGED <<inputvars, done, isOpen>>

write_output_update_packet(t) ==
    LET n == Packet(t).need
    IN /\ ~aborted /\ at[t] = "write" /\ Packet(t).kind = "update"
       /\ Done(t, <<[from |-> done[t], kind |-> "update", need |-> write_output_handle(t, n), after |-> <<>>]>>,
               n.thread \in Streams \ {t} => CanTranslate(n.thread, n.packet + 1))
       /\ UNCHANGED <<lastTouch, descriptorvars>>

--------------------------------------------------------------------------------
(* Commands are written by the capture wrappers, from the writer's own record.  *)
(* What the application did with descriptors in memory becomes update packets,   *)
(* put before a submit. All of it is per thread.                                 *)

Api(t, kind) == ~aborted /\ at[t] = "write" /\ Packet(t).kind = kind
ApiPacket(t) == [from |-> done[t], kind |-> Packet(t).kind, need |-> lastTouch[Packet(t).object], after |-> <<>>]
Touched(t, place) == [lastTouch EXCEPT ![Packet(t).object] = [thread |-> t, packet |-> place]]

OutputCommand(t) ==
    /\ Api(t, "command")
    /\ Done(t, <<ApiPacket(t)>>, TRUE)
    /\ lastTouch' = Touched(t, Len(output[t]))
    /\ UNCHANGED descriptorvars

output_vkGetDescriptorEXT(t) ==
    /\ Api(t, "get")
    /\ Done(t, <<ApiPacket(t)>>, TRUE)
    /\ lastTouch' = Touched(t, Len(output[t]))
    /\ payloads' = [payloads EXCEPT ![t] = Append(@, Packet(t).payload)]
    /\ UNCHANGED <<used, queued, emitted>>

\* The payload for a slot: the only one pending, or the oldest, which is then taken.
PayloadRange(t) == {payloads[t][i] : i \in DOMAIN payloads[t]}
find_unique_pending_descriptor_payload(t) == Cardinality(PayloadRange(t)) = 1
pop_pending_descriptor_payload(t) ==
    IF find_unique_pending_descriptor_payload(t) THEN payloads[t] ELSE Tail(payloads[t])

\* An update that was queued or emitted before by this thread is not repeated.
queue_synthetic_descriptor_buffer_update(t) ==
    IF payloads[t] = <<>> THEN UNCHANGED descriptorvars
    ELSE LET d == Head(payloads[t])
         IN /\ payloads' = [payloads EXCEPT ![t] = pop_pending_descriptor_payload(t)]
            /\ IF d \in emitted[t] THEN UNCHANGED <<used, queued, emitted>>
               ELSE /\ used' = [used EXCEPT ![t] = @ \cup {d}]
                    /\ queued' = [queued EXCEPT ![t] = @ \cup {d}]
                    /\ emitted' = [emitted EXCEPT ![t] = @ \cup {d}]

output_note_descriptor_buffer_offsets(t) ==
    /\ Api(t, "bind")
    /\ Done(t, <<ApiPacket(t)>>, TRUE)
    /\ lastTouch' = Touched(t, Len(output[t]))
    /\ queue_synthetic_descriptor_buffer_update(t)

write_descriptor_buffer_update_packet(t) ==
    IF queued[t] = {} THEN <<>>
    ELSE <<[from |-> -1, kind |-> "update", need |-> lastTouch["buffer"], after |-> <<>>]>>

output_vkQueueSubmit(t) ==
    LET inserted == write_descriptor_buffer_update_packet(t)
    IN /\ Api(t, "submit")
       /\ Done(t, inserted \o <<ApiPacket(t)>>, TRUE)
       /\ lastTouch' = Touched(t, Len(output[t]) + Len(inserted))
       /\ queued' = [queued EXCEPT ![t] = {}]
       /\ used' = [used EXCEPT ![t] = {}]
       /\ payloads' = [payloads EXCEPT ![t] = SelectSeq(@, LAMBDA d : d \notin used[t])]
       /\ UNCHANGED emitted

OutNext ==
    \/ \E t \in Streams :
          \/ \E o \in Things : CapturePacket(t, "update", o, 0)
          \/ CapturePacket(t, "command", "buffer", 0)
          \/ \E kind \in {"bind", "submit"} : CapturePacket(t, kind, "other", 0)
          \/ \E d \in Payloads : CapturePacket(t, "get", "other", d)
          \/ CaptureBarrier(t)
    \/ StartRewriting
    \/ \E t \in Streams :
          \/ OutStep(t) \/ RecordBarrier(t) \/ OutEnterBarrier(t) \/ WriteBarrier(t)
          \/ ReadHandle(t) \/ write_output_update_packet(t)
          \/ OutputCommand(t) \/ output_vkGetDescriptorEXT(t)
          \/ output_note_descriptor_buffer_offsets(t) \/ output_vkQueueSubmit(t)

OutSpec == OutInit /\ [][OutNext]_outvars

--------------------------------------------------------------------------------
(* Properties *)

\* Whatever the threads' interleaving, a packet number is in the mapping by the
\* time another thread translates it, and recording a place twice agrees with the
\* first time: the second pass never ends in ABORT.
MappingReady ==
    /\ ~aborted
    /\ \A t \in Streams : rewriting => \A n \in 0 .. done[t] : CanTranslate(t, n)

\* The new trace waits for the image of the packet that the old one waited for,
\* to its last inserted packet and no further, for updates (translated) and for
\* commands (from the writer's own record) alike.
DependenciesKept ==
    \A t \in Streams : \A k \in DOMAIN output[t] :
        LET p == output[t][k]
            old == input[t][p.from + 1].need
        IN p.from >= 0 /\ p.kind # "barrier" =>
             /\ p.need.thread = old.thread
             /\ old.thread \in Streams \ {t} => p.need.packet + 1 = translate(old.thread, old.packet + 1)

\* A barrier of the new trace waits for the images of the packets that the old
\* one waited for.
BarriersKept ==
    \A t \in Streams : \A k \in DOMAIN output[t] :
        output[t][k].kind = "barrier" =>
            \A i \in Streams : output[t][k].after[i] = translate(i, input[t][output[t][k].from + 1].after[i])

\* The rewritten trace orders its packets as the old one did, and is always
\* finished (lava-tool's second pass).
RewriteKeepsOrder == MappingReady /\ DependenciesKept /\ BarriersKept
================================================================================
