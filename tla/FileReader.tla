------------------------------ MODULE FileReader ------------------------------
(***************************************************************************)
(* file_reader and the packet loop of lava_file_reader: a decompressor     *)
(* thread appends chunks to the uncompressed buffer, a replay thread steps *)
(* through the packets in it.  Positions count units of data; a packet is  *)
(* a header of one unit and a body.                                        *)
(***************************************************************************)
EXTENDS Integers, Sequences

CONSTANTS Layouts,     \* the streams that are read: see Layout
          Preloads,    \* sizes of the readahead (0: one chunk ahead)
          MaxRead,     \* bound: units read at once
          Isolated,    \* packets that were not selected are stepped over unread
          PageSize,
          Word         \* positions are unsigned numbers below Word

(***************************************************************************)
(* A stream: the positions up to which its chunks reach, those where its   *)
(* packets end and the one at which the selected frame range ends.         *)
(***************************************************************************)
Total(l) == l.upto[Len(l.upto)]

IsLayout(l) == /\ l.upto \in Seq(Nat \ {0}) /\ l.upto # <<>>
               /\ \A i, j \in DOMAIN l.upto : i < j => l.upto[i] < l.upto[j]
               /\ Total(l) \in l.ends /\ l.ends \subseteq 1 .. Total(l)
               /\ l.wanted \in 1 .. Total(l)

ASSUME LayoutsAssumption == \A l \in Layouts : IsLayout(l) /\ 2 * Total(l) < Word
ASSUME PreloadsAssumption == Preloads \subseteq Nat
ASSUME WordAssumption == Word \in Nat
ASSUME MaxReadAssumption == MaxRead \in Nat \ {0}
ASSUME PageSizeAssumption == PageSize \in Nat \ {0}
ASSUME IsolatedAssumption == Isolated \in BOOLEAN

VARIABLES
  layout, preload, allow_stalls,     \* chosen when the reader is made
  decompressed,                      \* chunks decompressed so far
  write_position, read_position, needed_write_position,
  checkpoint_position, freed_position,
  last_chunk,                        \* last_chunk_uncompressed_size
  preload_activated, done_decompressing,
  dpc,                               \* the decompressor thread
  rpc,                               \* the replay thread
  seen,                              \* the write_position it loaded last
  want, next,                        \* the read it waits in, and what comes after it
  packet_start, packet_end, packet_open,
  stop                               \* stop_requested

options  == <<layout, preload, allow_stalls>>
position == <<write_position, read_position, needed_write_position>>
release  == <<checkpoint_position, freed_position>>
worker   == <<decompressed, last_chunk, dpc>>
packet   == <<packet_start, packet_end, packet_open>>
vars == <<options, position, release, worker, packet, preload_activated, done_decompressing,
          rpc, seen, want, next, stop>>

NoCheckpoint == -1       \* UINT64_MAX
Size == Total(layout)
Chunks == Len(layout.upto)
ChunkSize(k) == layout.upto[k] - (IF k = 1 THEN 0 ELSE layout.upto[k - 1])

Init ==
  /\ layout \in Layouts /\ preload \in Preloads /\ allow_stalls \in BOOLEAN
  /\ decompressed = 0
  /\ write_position = 0 /\ read_position = 0 /\ needed_write_position = 0
  /\ checkpoint_position = 0 /\ freed_position = 0
  /\ last_chunk = 0
  /\ preload_activated \in BOOLEAN
  /\ done_decompressing = FALSE
  /\ dpc = "loop"
  /\ rpc \in {"start", "step"}          \* measured from the start, or in a frame range
  /\ seen = 0 /\ want = 0 /\ next = "step"
  /\ packet_start = 0 /\ packet_end = 0 /\ packet_open = FALSE
  /\ stop = FALSE
-----------------------------------------------------------------------------
(***************************************************************************)
(* The decompressor.                                                       *)
(***************************************************************************)
PreloadSize == IF preload_activated /\ preload > 0 THEN preload ELSE last_chunk

\* Too far ahead, and the replay thread is not blocked; mutations: blocked or not, and
\* no limit before the readahead is activated.
TooFarAheadBlind == PreloadSize > 0 /\ write_position > read_position + PreloadSize
TooFarAheadPreload == /\ preload_activated /\ preload > 0
                      /\ write_position > read_position + preload
                      /\ write_position >= needed_write_position
TooFarAhead == /\ PreloadSize > 0
               /\ write_position > read_position + PreloadSize
               /\ write_position >= needed_write_position

\* The loop ends; mutation: only at the end of the stream.
MustExitAtEnd == decompressed = Chunks
MustExit == done_decompressing

\* decompress_chunk up to the publication of the data.
PublishChunk ==
  /\ dpc = "loop" /\ ~MustExit /\ ~TooFarAhead
  /\ decompressed' = decompressed + 1
  /\ write_position' = write_position + ChunkSize(decompressed')
  /\ dpc' = "published"
  /\ UNCHANGED <<options, read_position, needed_write_position, release, last_chunk, packet,
                 preload_activated, done_decompressing, rpc, seen, want, next, stop>>

\* The rest of decompress_chunk: only now is the end of the stream made known.
FinishChunk ==
  /\ dpc = "published"
  /\ last_chunk' = ChunkSize(decompressed)
  /\ done_decompressing' = (\/ done_decompressing
                            \/ decompressed = Chunks
                            \/ write_position >= layout.wanted)
  /\ dpc' = "loop"
  /\ UNCHANGED <<options, position, release, decompressed, packet, preload_activated,
                 rpc, seen, want, next, stop>>

DecompressorExits ==
  /\ dpc = "loop" /\ MustExit
  /\ dpc' = "exited"
  /\ UNCHANGED <<options, position, release, decompressed, last_chunk, packet,
                 preload_activated, done_decompressing, rpc, seen, want, next, stop>>

decompressor == PublishChunk \/ FinishChunk \/ DecompressorExits
-----------------------------------------------------------------------------
(***************************************************************************)
(* Reading.  Data is available when it has been published; the difference  *)
(* of the positions is an unsigned number.  Mutation: one unit too many.   *)
(***************************************************************************)
AvailableAndOne(w) == (w - read_position + 1) % Word
Available(w) == (w - read_position) % Word

readUnchanged == <<options, write_position, release, worker, packet, preload_activated,
                   done_decompressing, stop>>

check_space(n, then) ==
  /\ seen' = write_position
  /\ IF n <= Available(write_position)
     THEN /\ read_position' = read_position + n
          /\ rpc' = then
          /\ UNCHANGED <<needed_write_position, want, next>>
     ELSE /\ needed_write_position' = read_position + n
          /\ rpc' = "blocked" /\ want' = n /\ next' = then
          /\ UNCHANGED read_position
  /\ UNCHANGED readUnchanged

\* write_position.wait returns because the value has changed.
Wake ==
  /\ rpc = "blocked"
  /\ write_position # seen
  /\ seen' = write_position
  /\ IF ~allow_stalls /\ preload_activated /\ preload > 0
     THEN rpc' = "aborted" /\ UNCHANGED <<read_position, needed_write_position>>
     ELSE IF want <= Available(write_position)
     THEN /\ needed_write_position' = 0
          /\ read_position' = read_position + want
          /\ rpc' = next
     ELSE UNCHANGED <<read_position, needed_write_position, rpc>>
  /\ UNCHANGED <<want, next, readUnchanged>>

(***************************************************************************)
(* start_measurement waits until the readahead is filled.                  *)
(***************************************************************************)
\* Below read_position + preload, the end of the range and the end of the stream.
BelowTarget(w) == w < read_position + preload /\ w < layout.wanted /\ w < Size

start_measurement ==
  /\ rpc = "start"
  /\ preload_activated' = TRUE
  /\ seen' = write_position
  /\ rpc' = IF preload > 0 /\ BelowTarget(write_position) THEN "filling" ELSE "step"
  /\ UNCHANGED <<options, position, release, worker, packet, done_decompressing, want, next, stop>>

LoadFilled ==
  /\ rpc = "filling"
  /\ write_position # seen
  /\ seen' = write_position
  /\ rpc' = "loaded"
  /\ UNCHANGED <<position, want, next, release, options, worker, packet, preload_activated,
                 done_decompressing, stop>>

Filled ==
  /\ rpc = "loaded"
  /\ rpc' = IF BelowTarget(seen) THEN "filling" ELSE "step"
  /\ UNCHANGED <<position, seen, want, next, release, options, worker, packet, preload_activated,
                 done_decompressing, stop>>
-----------------------------------------------------------------------------
(***************************************************************************)
(* The packet loop: complete_packet, the two ways to end, release of the   *)
(* pages before the last checkpoint, and the header of the next packet.    *)
(***************************************************************************)
AfterPacket == IF packet_open THEN packet_end ELSE read_position

done == done_decompressing /\ write_position = AfterPacket

\* Whole pages in n units; mutation: the page the checkpoint is in goes too.
PagesRoundedUp(n) == ((n + PageSize - 1) \div PageSize) * PageSize
Pages(n) == (n \div PageSize) * PageSize

release_checkpoint ==
  /\ checkpoint_position' = NoCheckpoint
  /\ LET size == Pages(checkpoint_position - freed_position)
     IN freed_position' = IF checkpoint_position # NoCheckpoint /\ size > PageSize
                          THEN Pages(freed_position) + size ELSE freed_position

step ==
  /\ rpc = "step"
  /\ read_position' = AfterPacket
  /\ packet_open' = FALSE
  /\ IF stop \/ done
     THEN rpc' = "ended" /\ UNCHANGED <<release, packet_start>>
     ELSE rpc' = "header" /\ release_checkpoint /\ packet_start' = AfterPacket
  /\ UNCHANGED <<options, write_position, needed_write_position, worker, packet_end,
                 preload_activated, done_decompressing, seen, want, next, stop>>

ReadHeader == rpc = "header" /\ check_space(1, "opened")

\* The size in the header tells where the packet ends; mutation: measured from behind it.
EndAfterHeader(size) == read_position + size
PacketEnd(size) == packet_start + size

\* The packet that starts at packet_start ends where the next packet starts.
NextEnds == {e \in layout.ends : e > packet_start /\ \A x \in layout.ends : x > packet_start => e <= x}

\* The rest of the header; read_apicall sets a checkpoint.
OpenPacket ==
  /\ rpc = "opened"
  /\ packet_open' = TRUE
  /\ \E e \in NextEnds : packet_end' = PacketEnd(e - packet_start)
  /\ \E apicall \in BOOLEAN :
       checkpoint_position' = IF apicall THEN read_position ELSE checkpoint_position
  /\ rpc' = "body"
  /\ UNCHANGED <<options, position, freed_position, worker, packet_start, preload_activated,
                 done_decompressing, seen, want, next, stop>>

ReadBody ==
  /\ rpc = "body"
  /\ \E n \in 1 .. MaxRead : read_position + n <= packet_end /\ check_space(n, "body")

\* A handler has read its packet, unless the packet is one that is only stepped over.
PacketDone ==
  /\ rpc = "body"
  /\ read_position = packet_end \/ Isolated
  /\ \/ rpc' = "step"
     \/ rpc' = "start"                  \* new_frame, where the frame range starts
  /\ UNCHANGED <<options, position, release, worker, packet, preload_activated,
                 done_decompressing, seen, want, next, stop>>

request_stop ==
  /\ ~stop
  /\ rpc \notin {"ended", "aborted", "destroyed"}
  /\ stop' = TRUE
  /\ UNCHANGED <<options, position, release, worker, packet, preload_activated,
                 done_decompressing, rpc, seen, want, next>>

\* The destructor tells the decompressor to stop; it then joins it.
Destroy ==
  /\ rpc = "ended"
  /\ done_decompressing' = TRUE
  /\ rpc' = "destroyed"
  /\ UNCHANGED <<options, position, release, worker, packet, preload_activated, seen, want,
                 next, stop>>

replayer == \/ Wake \/ start_measurement \/ LoadFilled \/ Filled
            \/ step \/ ReadHeader \/ OpenPacket \/ ReadBody \/ PacketDone \/ Destroy

\* A thread that waits looks again.
Wait == /\ \/ rpc \in {"blocked", "filling"} /\ write_position = seen
           \/ rpc = "aborted"
           \/ rpc = "destroyed"
           \/ dpc = "loop" /\ TooFarAhead
        /\ UNCHANGED vars

Next == decompressor \/ replayer \/ request_stop \/ Wait

Spec == Init /\ [][Next]_vars /\ WF_vars(decompressor) /\ WF_vars(replayer)
-----------------------------------------------------------------------------
TypeOK ==
  /\ decompressed \in 0 .. Chunks
  /\ {write_position, packet_start, packet_end, seen} \subseteq 0 .. Size
  /\ needed_write_position \in 0 .. Size + MaxRead
  /\ read_position \in 0 .. Size
  /\ freed_position \in Nat /\ checkpoint_position \in -1 .. Size
  /\ dpc \in {"loop", "published", "exited"}
  /\ rpc \in {"start", "filling", "loaded", "step", "header", "opened", "body", "blocked",
              "ended", "aborted", "destroyed"}
  /\ want \in 0 .. MaxRead /\ next \in {"step", "opened", "body"}

(***************************************************************************)
(* The replay thread never stands beyond what has been decompressed, so    *)
(* check_space never lets it read memory that has not been written.        *)
(***************************************************************************)
ReadsPublishedData == read_position <= write_position

(***************************************************************************)
(* The positions of the two threads are in the file and in their order     *)
(* (check_space, decompress_chunk).                                        *)
(***************************************************************************)
PositionsSound == TypeOK /\ ReadsPublishedData

(***************************************************************************)
(* release_checkpoint gives back no page that the packet being read is in, *)
(* nor one that will be read later.                                        *)
(***************************************************************************)
ReleasedBehindPacket == freed_position <= packet_start

(***************************************************************************)
(* The decompressor stays within the readahead: it is at most one chunk    *)
(* beyond the readahead, or beyond what the blocked replay thread needs.   *)
(***************************************************************************)
ReadAheadBounded ==
  \A n \in 1 .. Size : (\A k \in 1 .. Chunks : ChunkSize(k) <= n) =>
    \/ write_position <= read_position + preload + n
    \/ write_position <= read_position + n + n
    \/ write_position <= needed_write_position + n

(***************************************************************************)
(* The window of memory in use is neither too small nor too large: nothing *)
(* is given back that is still read, and the decompressor does not run     *)
(* away (release_checkpoint, decompressor).                                *)
(***************************************************************************)
WindowSound == ReleasedBehindPacket /\ ReadAheadBounded

(***************************************************************************)
(* A replay thread that waits for data of a stream that is to be read to   *)
(* its end gets it: the readahead limit never starves it.                  *)
(***************************************************************************)
Starved == rpc = "blocked" /\ layout.wanted = Size /\ read_position + want <= Size
BlockedReaderGetsData == Starved ~> ~Starved

(***************************************************************************)
(* Once the reader is destroyed its decompressor can be joined, wherever   *)
(* in its loop the destructor meets it.                                    *)
(***************************************************************************)
DecompressorJoins == (rpc = "destroyed") ~> (dpc = "exited")
=============================================================================
