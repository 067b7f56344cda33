----------------------------- MODULE PacketIndex -----------------------------
(* Finding a packet of a stream without reading all that is before it. While a  *)
(* stream is written (lava_file_writer in write.cpp), the first packet begun in *)
(* a new chunk leaves a checkpoint, and a frame that ends leaves a boundary,    *)
(* noted by whichever thread ended it. lava-print-fast goes from a checkpoint   *)
(* to the packets it was asked for (print_fast.cpp and                          *)
(* random_access_file_reader.cpp).                                              *)
(*                                                                              *)
(* A unit of a stream holds its own position. The type of a packet takes one    *)
(* unit and its size two; packet numbers and positions start at 0.              *)
EXTENDS Integers, Sequences, FiniteSets, SequencesExt

CONSTANTS
    ChunkUnits,     \* uncompressed_chunk_size
    ValueSizes,     \* sizes of the values that calls write
    MaxUnits,       \* bound: length of the stream
    MaxEnded,       \* bound: frames that end while it is written
    Queries         \* what the user asks for: [select (<<>>: all packets), range of
                    \* frames (last -1: all), limit (-1: none), old: no checkpoints]

VARIABLES
    indexing,   \* "write", "read", "stopped" or "abort"
    born,       \* frames that had ended when the stream was made
    pending,    \* sizes of the values that the call has yet to write
    stream,     \* the lava_file_writer
    reader      \* the lava-print-fast process

ixvars == <<indexing, born, pending, stream, reader>>

Header == 3
NewStream ==
    [bytes |-> 0, uidx |-> 0, room |-> ChunkUnits, chunks |-> <<>>, open |-> FALSE, packets |-> <<>>,
     checkpoints |-> <<>>, checkpoint_chunk_offset |-> 0, boundaries |-> <<>>]
NoReader ==
    [at |-> "closed", all |-> TRUE, asked |-> <<>>, selectors |-> <<>>, range |-> [first |-> 0, last |-> -1], limit |-> -1,
     checkpoints |-> <<>>, position |-> 0, current |-> 0, stop |-> FALSE, printed |-> <<>>]

IxInit ==
    /\ indexing = "write" /\ born \in {0, 1}
    /\ pending = <<>> /\ stream = NewStream /\ reader = NoReader

--------------------------------------------------------------------------------
(* Writing *)

\* The open packet is the last of packets and not yet counted by current.packet.
PacketStart(s) == s.packets[Len(s.packets)].start
IxEndPacket(s) ==
    IF ~s.open THEN s
    ELSE [s EXCEPT !.open = FALSE, !.packets[Len(s.packets)].size = s.bytes - PacketStart(s)]

current_chunk_uncompressed_offset(s) == s.bytes - s.uidx

\* Mutant: the checkpoint is for the chunk and not for the packet.
NotedChunk(s) ==
    LET offset == current_chunk_uncompressed_offset(s)
    IN IF s.checkpoints = <<>> \/ offset > s.checkpoint_chunk_offset
       THEN [s EXCEPT !.checkpoints = Append(@, [packet |-> Len(s.packets), position |-> offset]),
                      !.checkpoint_chunk_offset = offset]
       ELSE s
Noted(s) ==
    LET offset == current_chunk_uncompressed_offset(s)
    IN IF s.checkpoints = <<>> \/ offset > s.checkpoint_chunk_offset
       THEN [s EXCEPT !.checkpoints = Append(@, [packet |-> Len(s.packets), position |-> s.bytes]),
                      !.checkpoint_chunk_offset = offset]
       ELSE s

\* begun and entered are history: frames that had ended when the packet was
\* begun and when its first unit was written.
IxBeginPacket ==
    /\ indexing = "write" /\ pending = <<>> /\ stream.bytes + Header <= MaxUnits
    /\ LET s == Noted(IxEndPacket(stream))
           packet == [start |-> s.bytes, size |-> 0, begun |-> Len(s.boundaries), entered |-> 0]
       IN stream' = [s EXCEPT !.open = TRUE, !.packets = Append(@, packet)]
    /\ pending' = <<1, 2>>
    /\ UNCHANGED <<indexing, born, reader>>

IxWriteCall(n) ==
    /\ indexing = "write" /\ pending = <<>> /\ stream.open /\ stream.bytes + n <= MaxUnits
    /\ pending' = <<n>>
    /\ UNCHANGED <<indexing, born, stream, reader>>

\* check_space and make_space: what does not fit goes to a new chunk.
Spaced(s, n) ==
    IF n <= s.room - s.uidx THEN s
    ELSE [s EXCEPT !.chunks = Append(@, s.uidx), !.uidx = 0,
                   !.room = IF n > ChunkUnits THEN n ELSE ChunkUnits]

IxWriteValue ==
    /\ pending # <<>>
    /\ LET s == Spaced(stream, Head(pending))
       IN stream' = [s EXCEPT !.bytes = @ + Head(pending), !.uidx = @ + Head(pending),
                              !.packets[Len(s.packets)].entered =
                                  IF s.bytes = PacketStart(s) THEN Len(s.boundaries) ELSE @]
    /\ pending' = Tail(pending)
    /\ UNCHANGED <<indexing, born, reader>>

IxEndCall ==
    /\ indexing = "write" /\ pending = <<>> /\ stream.open
    /\ stream' = IxEndPacket(stream)
    /\ UNCHANGED <<indexing, born, pending, reader>>

\* Whichever thread ends the frame adds to the lists of all streams, between any
\* two steps of this one.
new_frame ==
    /\ indexing = "write" /\ Len(stream.boundaries) < MaxEnded
    /\ stream' = [stream EXCEPT !.boundaries =
                     Append(@, [position |-> stream.bytes, frame |-> born + Len(@) + 1])]
    /\ UNCHANGED <<indexing, born, pending, reader>>

--------------------------------------------------------------------------------
(* The random access reader *)

\* initialize: the chunks in the order of the file, with their places in the stream.
ChunkOffset(s) ==
    LET offset[k \in 1 .. Len(s.chunks) + 1] == IF k = 1 THEN 0 ELSE offset[k - 1] + s.chunks[k - 1]
    IN offset

\* The search that find_chunk, seek_to_packet and packet_frame have in common: how
\* many of the keys, which are in order, are at most x.
AtMost(keys, x) ==
    LET search[first, last \in 0 .. Len(keys)] ==
            IF first >= last THEN first
            ELSE LET middle == first + (last - first) \div 2
                 IN IF keys[middle + 1] <= x THEN search[middle + 1, last] ELSE search[first, middle]
    IN search[0, Len(keys)]

find_chunk(position) ==
    AtMost([k \in 1 .. Len(stream.chunks) |-> ChunkOffset(stream)[k]], position)

\* Units [first, first + n), each out of the chunk it is in. The chunk last used is
\* kept (load_chunk), which saves time only.
read_bytes(first, n) ==
    [i \in 1 .. n |-> LET k == find_chunk(first + i - 1)
                          offset == first + i - 1 - ChunkOffset(stream)[k]
                      IN IF offset < stream.chunks[k] THEN ChunkOffset(stream)[k] + offset ELSE -1]

\* load_packet_checkpoints ends the program unless they are in order and in the file.
CheckpointsValid(c) ==
    /\ c # <<>> => c[1].packet = 0 /\ c[1].position = 0
    /\ \A k \in DOMAIN c : c[k].position < stream.bytes
    /\ \A k \in 1 .. Len(c) - 1 : c[k].packet < c[k + 1].packet /\ c[k].position < c[k + 1].position

\* normalize_selectors
Normalized(selection) == SetToSortSeq(ToSet(selection), LAMBDA a, b : a < b)

\* The destructor of the stream writes the last chunk and the lists (an old trace
\* has no checkpoints); lava-print-fast opens them.
FinishStream(query) ==
    /\ indexing = "write" /\ pending = <<>> /\ stream.packets # <<>>
    /\ LET s == IxEndPacket(stream) IN stream' = [s EXCEPT !.chunks = Append(@, s.uidx)]
    /\ indexing' = "read"
    /\ reader' = [NoReader EXCEPT !.at = "open", !.all = query.select = <<>>,
                                  !.asked = Normalized(query.select), !.selectors = Normalized(query.select),
                                  !.range = query.range, !.limit = query.limit, !.stop = query.limit = 0,
                                  !.checkpoints = IF query.old THEN <<>> ELSE stream.checkpoints]
    /\ UNCHANGED <<born, pending>>

load_packet_checkpoints ==
    /\ indexing = "read" /\ reader.at = "open"
    /\ indexing' = IF CheckpointsValid(reader.checkpoints) /\ 0 \notin ToSet(stream.chunks) THEN "read" ELSE "abort"
    /\ reader' = [reader EXCEPT !.at = IF reader.all THEN "load" ELSE "seek"]
    /\ UNCHANGED <<born, pending, stream>>

--------------------------------------------------------------------------------
(* lava-print-fast *)

\* Mutant: a packet at a boundary is put into the frame before it.
packet_frameBefore(position) ==
    LET n == AtMost([k \in DOMAIN stream.boundaries |-> stream.boundaries[k].position], position - 1)
    IN IF n = 0 THEN 0 ELSE stream.boundaries[n].frame
packet_frame(position) ==
    LET n == AtMost([k \in DOMAIN stream.boundaries |-> stream.boundaries[k].position], position)
    IN IF n = 0 THEN 0 ELSE stream.boundaries[n].frame

seek_to_packet ==
    /\ indexing = "read" /\ reader.at = "seek" /\ reader.selectors # <<>> /\ ~reader.stop
    /\ LET c == reader.checkpoints
           n == AtMost([k \in DOMAIN c |-> c[k].packet], Head(reader.selectors))
       IN reader' = IF c = <<>> THEN [reader EXCEPT !.at = "load", !.position = 0, !.current = 0]
                    ELSE [reader EXCEPT !.at = "load", !.position = c[n].position, !.current = c[n].packet]
    /\ UNCHANGED <<indexing, born, pending, stream>>

Target == IF reader.all THEN reader.current ELSE Head(reader.selectors)
Remaining == stream.bytes - reader.position

\* The two units behind the type are a size if they are where a packet has its size.
SizeIn(units) ==
    LET of == {k \in DOMAIN stream.packets : units = <<stream.packets[k].start + 1, stream.packets[k].start + 2>>}
    IN IF of = {} THEN 0 ELSE stream.packets[CHOOSE k \in of : TRUE].size

is_frame_selected_ix(f) == reader.range.last = -1 \/ (reader.range.first <= f /\ f <= reader.range.last)

\* print_packet, print_params_publish: the packet goes out if its frame is selected,
\* and the program stops after the last one wanted.
Printed(r, units) ==
    LET f == packet_frame(r.position)
        out == Append(r.printed, [number |-> r.current, units |-> units, frame |-> f])
    IN IF ~is_frame_selected_ix(f) THEN r
       ELSE [r EXCEPT !.printed = out,
                      !.stop = (r.limit # -1 /\ Len(out) >= r.limit)
                               \/ (~r.all /\ Cardinality({e.number : e \in ToSet(out)}) >= Len(r.asked))]

\* One turn of the loop of load_packet.
load_packet ==
    /\ indexing = "read" /\ reader.at = "load" /\ ~(reader.all /\ reader.stop)
    /\ reader.current <= Target /\ Remaining > 0
    /\ LET size == IF Remaining < Header THEN 0 ELSE SizeIn(read_bytes(reader.position + 1, 2))
           after == [reader EXCEPT !.position = @ + size, !.current = @ + 1]
           shown == Printed(reader, read_bytes(reader.position, size))
       IN /\ indexing' = IF size < Header \/ size > Remaining THEN "abort" ELSE "read"
          /\ reader' = IF reader.current # Target THEN after
                       ELSE IF reader.all
                       THEN [shown EXCEPT !.position = @ + size, !.current = @ + 1]
                       ELSE [shown EXCEPT !.position = @ + size, !.at = "seek", !.selectors = Tail(@)]
    /\ UNCHANGED <<born, pending, stream>>

\* load_packet returns false.
NoSuchPacket ==
    /\ indexing = "read" /\ reader.at = "load" /\ ~reader.all /\ Remaining = 0
    /\ reader' = [reader EXCEPT !.at = "seek", !.selectors = Tail(@)]
    /\ UNCHANGED <<indexing, born, pending, stream>>

StopPrinting ==
    /\ indexing = "read"
    /\ \/ reader.at = "seek" /\ (reader.selectors = <<>> \/ reader.stop)
       \/ reader.at = "load" /\ reader.all /\ (Remaining = 0 \/ reader.stop)
    /\ indexing' = "stopped"
    /\ UNCHANGED <<born, pending, stream, reader>>

IxNext ==
    \/ IxBeginPacket \/ IxWriteValue \/ IxEndCall \/ new_frame
    \/ \E n \in ValueSizes : IxWriteCall(n)
    \/ \E query \in Queries : FinishStream(query)
    \/ load_packet_checkpoints \/ seek_to_packet \/ load_packet \/ NoSuchPacket \/ StopPrinting

--------------------------------------------------------------------------------
(* Properties *)

\* The frame lava-print finds for a packet with a walk over the boundaries
\* (lava_file_reader::step).
WalkedFrame(p) ==
    LET passed == {k \in DOMAIN stream.boundaries :
                     \A j \in 1 .. k : stream.boundaries[j].position <= stream.packets[p + 1].start}
    IN IF passed = {} THEN 0 ELSE stream.boundaries[Cardinality(passed)].frame

\* What is printed of a packet is the packet, whatever chunks it is in, with the frame
\* that lava-print gives it: one of those that were current between its begin and its
\* first unit, if any had ended since the stream was made.
PrintedRight ==
    \A e \in ToSet(reader.printed) :
        LET p == stream.packets[e.number + 1] IN
        /\ e.units = [i \in 1 .. p.size |-> p.start + i - 1]
        /\ e.frame = WalkedFrame(e.number)
        /\ (born = 0 \/ p.begun > 0) => born + p.begun <= e.frame /\ e.frame <= born + p.entered

\* lava-print-fast never gives up on a trace, and prints exactly the packets asked for
\* that exist and are in the range of frames, in their order, up to the limit.
PrintedAll ==
    /\ indexing # "abort"
    /\ indexing = "stopped" =>
         LET exist == 0 .. Len(stream.packets) - 1
             asked == IF reader.all THEN exist ELSE ToSet(reader.asked) \cap exist
             wanted == Normalized(SetToSeq({p \in asked : is_frame_selected_ix(WalkedFrame(p))}))
             n == IF reader.limit = -1 \/ reader.limit > Len(wanted) THEN Len(wanted) ELSE reader.limit
         IN [i \in DOMAIN reader.printed |-> reader.printed[i].number] = SubSeq(wanted, 1, n)

\* A packet is found by its number in a stream of any chunks, with and without
\* checkpoints (begin_packet, new_frame, seek_to_packet, load_packet).
PacketsFound == PrintedRight /\ PrintedAll
==============================================================================
