------------------------------ MODULE FileWriter ------------------------------
(***************************************************************************)
(* file_writer: the traced thread fills chunks, a compressor thread and a  *)
(* serializer thread take them to the file.  Chunks are numbered in the    *)
(* order in which they are filled; what is inside a chunk is its size and  *)
(* the pointers into it that write_value_later has handed out.  The lists  *)
(* of chunks are sequences: push_front appends and pop_back takes the head.*)
(***************************************************************************)
EXTENDS Integers, SequencesExt

CONSTANTS ChunkSize,               \* uncompressed_chunk_size
          Sizes,                   \* sizes of the values that are written
          MaxWrites,               \* bound: packets begun and values written
          Compress,                \* values of multithreaded_compress
          Writeout                 \* values of multithreaded_write

ASSUME ChunkSizeAssumption == ChunkSize \in Nat \ {0}
ASSUME SizesAssumption == Sizes \subseteq Nat \ {0}
ASSUME MaxWritesAssumption == MaxWrites \in Nat
ASSUME ThreadingAssumption == Compress \subseteq BOOLEAN /\ Writeout \subseteq BOOLEAN

VARIABLES
  multithreaded_compress, multithreaded_write,     \* set in the constructor
  wpc,              \* where the traced thread stands
  job,              \* the values its current call has still to write
  writes,           \* packets begun and values written so far (bounded by MaxWrites)
  capacity,         \* chunk.size()
  uidx,             \* the used part of the current chunk
  chunks,           \* the sizes of the chunks filled so far
  packet_open,
  pointers,         \* the chunks that outstanding pointers point into
  holding,
  held, uncompressed, compressed,     \* the three lists of chunks
  direct,           \* the chunk the traced thread has compressed by itself
  cpc, chand,       \* the compressor thread and the chunk it has taken
  spc, shand,       \* the serializer thread and the chunk it has taken
  done_feeding, done_compressing,
  sizes,            \* the chunks listed in uncompressed_sizes
  file,             \* the chunks written to the file
  observer          \* another thread's self_test of this stream

appVars    == <<job, writes, packet_open, pointers>>
chunkVars  == <<capacity, uidx, chunks>>
threadVars == <<cpc, chand, spc, shand>>
doneVars   == <<done_feeding, done_compressing>>
outVars    == <<sizes, file>>

options    == <<multithreaded_compress, multithreaded_write>>

vars == <<options, wpc, appVars, chunkVars, holding, held, uncompressed, compressed, direct,
          threadVars, doneVars, outVars, observer>>

None == 0

\* The number of the chunk that is being filled.
Current == Len(chunks) + 1

Init ==
  /\ multithreaded_compress \in Compress /\ multithreaded_write \in Writeout
  /\ wpc = "run"
  /\ job = <<>>
  /\ writes = 0
  /\ capacity = ChunkSize
  /\ uidx = 0
  /\ chunks = <<>>
  /\ packet_open = FALSE
  /\ pointers = {}
  /\ holding = FALSE
  /\ held = <<>> /\ uncompressed = <<>> /\ compressed = <<>>
  /\ direct = None
  /\ cpc = "take" /\ chand = None
  /\ spc = "take" /\ shand = None
  /\ done_feeding = FALSE /\ done_compressing = FALSE
  /\ sizes = <<>> /\ file = <<>>
  /\ observer = "away"

\* self_test holds chunk_mutex from one of its reads to the next.
MutexFree == observer # "reading"
-----------------------------------------------------------------------------
(***************************************************************************)
(* The traced thread.  A call writes its values one by one; a value that   *)
(* does not fit sends the current chunk away first.                        *)
(***************************************************************************)
Ready == wpc = "run" /\ job = <<>>

begin_packet ==
  /\ Ready /\ ~packet_open
  /\ writes < MaxWrites
  /\ job' = <<[size |-> 1, later |-> FALSE], [size |-> 1, later |-> TRUE]>>
  /\ packet_open' = TRUE
  /\ writes' = writes + 1
  /\ UNCHANGED <<options, wpc, chunkVars, pointers, holding, held, uncompressed, compressed,
                 direct, threadVars, doneVars, outVars, observer>>

WriteCall ==
  /\ Ready /\ packet_open
  /\ writes < MaxWrites
  /\ \E n \in Sizes, b \in BOOLEAN : job' = <<[size |-> n, later |-> b]>>
  /\ writes' = writes + 1
  /\ UNCHANGED <<options, wpc, chunkVars, packet_open, pointers, holding, held, uncompressed,
                 compressed, direct, threadVars, doneVars, outVars, observer>>

\* check_space; mutation: it is never asked.
NeverNeedsSpace == FALSE
NeedsSpace == job # <<>> /\ Head(job).size > capacity - uidx

\* A chunk may leave the traced thread; mutation: although pointers into it are outstanding.
MayLeaveAnyway == TRUE
MayLeave == ~holding

make_space ==
  /\ wpc = "run" /\ NeedsSpace
  /\ chunks' = Append(chunks, uidx)
  /\ CASE ~MayLeave ->
            /\ held' = Append(held, Current)
            /\ UNCHANGED <<wpc, uncompressed, direct, sizes>>
       [] MayLeave /\ multithreaded_compress ->
            /\ MutexFree
            /\ uncompressed' = Append(uncompressed, Current)
            /\ UNCHANGED <<wpc, held, direct, sizes>>
       [] OTHER ->
            /\ sizes' = Append(sizes, Current)      \* compress_chunk
            /\ direct' = Current
            /\ wpc' = "handover"
            /\ UNCHANGED <<held, uncompressed>>
  /\ capacity' = Max({ChunkSize, Head(job).size})
  /\ uidx' = 0
  /\ UNCHANGED <<options, appVars, holding, compressed, threadVars, doneVars, file, observer>>

\* What becomes of a compressed chunk: it goes to the serializer or straight to the file.
Deliver(c) ==
  IF multithreaded_write
  THEN MutexFree /\ compressed' = Append(compressed, c) /\ UNCHANGED file
  ELSE file' = Append(file, c) /\ UNCHANGED compressed

HandOver ==
  /\ wpc = "handover"
  /\ Deliver(direct)
  /\ direct' = None
  /\ wpc' = "run"
  /\ UNCHANGED <<options, appVars, chunkVars, holding, held, uncompressed, threadVars, doneVars,
                 sizes, observer>>

\* write_value, and write_value_later, which freezes the chunks it points into.
write_value ==
  LET v == Head(job)
  IN /\ wpc = "run" /\ job # <<>> /\ ~NeedsSpace
     /\ uidx' = uidx + v.size
     /\ job' = Tail(job)
     /\ holding' = (holding \/ v.later)
     /\ pointers' = IF v.later THEN pointers \cup {Current} ELSE pointers
     /\ UNCHANGED <<options, wpc, writes, capacity, chunks, packet_open, held, uncompressed,
                    compressed, direct, threadVars, doneVars, outVars, observer>>

\* What thaw makes of the list; mutation: the held chunks are spliced in at the wrong end.
ThawedInFront == held \o uncompressed
Thawed == uncompressed \o held

\* end_packet stores the sizes through the pointers, then thaws.
end_packet ==
  /\ Ready /\ packet_open /\ MutexFree
  /\ packet_open' = FALSE
  /\ pointers' = {}
  /\ uncompressed' = Thawed
  /\ held' = <<>>
  /\ holding' = FALSE
  /\ UNCHANGED <<options, wpc, job, writes, chunkVars, compressed, direct, threadVars, doneVars,
                 outVars, observer>>

(***************************************************************************)
(* finalize: the last chunk is sent while chunk_mutex is held, then the    *)
(* threads are told, one after the other, that no more work will come.     *)
(***************************************************************************)
SendLast ==
  /\ Ready /\ ~packet_open /\ MutexFree
  /\ chunks' = Append(chunks, uidx)
  /\ capacity' = ChunkSize            \* a new chunk, but uidx keeps its value
  /\ IF multithreaded_compress
     THEN /\ uncompressed' = Append(uncompressed, Current)
          /\ UNCHANGED <<compressed, outVars>>
     ELSE /\ sizes' = Append(sizes, Current)
          /\ Deliver(Current)
          /\ UNCHANGED uncompressed
  /\ wpc' = "feed"
  /\ UNCHANGED <<options, appVars, uidx, holding, held, direct, threadVars, doneVars, observer>>

DoneFeeding ==
  /\ wpc = "feed"
  /\ done_feeding' = TRUE
  /\ wpc' = "join_compressor"
  /\ UNCHANGED <<options, appVars, chunkVars, holding, held, uncompressed, compressed, direct,
                 threadVars, done_compressing, outVars, observer>>

\* join() returns; mutation: the compressor is not waited for.
CompressorNotJoined == TRUE
CompressorJoined == cpc = "exited"

JoinCompressor ==
  /\ wpc = "join_compressor"
  /\ CompressorJoined
  /\ done_compressing' = TRUE
  /\ wpc' = "join_serializer"
  /\ UNCHANGED <<options, appVars, chunkVars, holding, held, uncompressed, compressed, direct,
                 threadVars, done_feeding, outVars, observer>>

JoinSerializer ==
  /\ wpc = "join_serializer"
  /\ spc = "exited"
  /\ wpc' = "closed"
  /\ UNCHANGED <<options, appVars, chunkVars, holding, held, uncompressed, compressed, direct,
                 threadVars, doneVars, outVars, observer>>

Finalize == SendLast \/ DoneFeeding \/ JoinCompressor \/ JoinSerializer

TracedThread == make_space \/ HandOver \/ write_value \/ end_packet \/ Finalize
-----------------------------------------------------------------------------
writerVars == <<options, wpc, job, writes, capacity, uidx, chunks, packet_open, pointers, holding, held,
                direct, doneVars, observer>>

(***************************************************************************)
(* The compressor: an empty chunk is dropped; the sizes are recorded when  *)
(* a chunk has been compressed, before it is handed on.                    *)
(***************************************************************************)
TakeUncompressed ==
  /\ cpc = "take" /\ MutexFree
  /\ uncompressed # <<>>
  /\ uncompressed' = Tail(uncompressed)
  /\ IF chunks[Head(uncompressed)] > 0
     THEN chand' = Head(uncompressed) /\ cpc' = "compress"
     ELSE UNCHANGED <<chand, cpc>>
  /\ UNCHANGED <<writerVars, compressed, spc, shand, outVars>>

\* No more work will come; mutation: the other thread's flag is looked at.
NoMoreWorkButLater == done_compressing
NoMoreWork == done_feeding

CompressorExits ==
  /\ cpc = "take" /\ MutexFree
  /\ uncompressed = <<>> /\ NoMoreWork
  /\ cpc' = "exited"
  /\ UNCHANGED <<writerVars, uncompressed, compressed, chand, spc, shand, outVars>>

compress_chunk ==
  /\ cpc = "compress"
  /\ sizes' = Append(sizes, chand)
  /\ cpc' = "deliver"
  /\ UNCHANGED <<writerVars, uncompressed, compressed, chand, spc, shand, file>>

DeliverCompressed ==
  /\ cpc = "deliver"
  /\ Deliver(chand)
  /\ chand' = None
  /\ cpc' = "take"
  /\ UNCHANGED <<writerVars, uncompressed, spc, shand, sizes>>

compressor == TakeUncompressed \/ CompressorExits \/ compress_chunk \/ DeliverCompressed

\* The chunk pop_back takes; mutation: the newest one.
Newest == Len(compressed)
Oldest == 1

TakeCompressed ==
  /\ spc = "take" /\ MutexFree
  /\ compressed # <<>>
  /\ compressed' = RemoveAt(compressed, Oldest)
  /\ shand' = compressed[Oldest]
  /\ spc' = "write"
  /\ UNCHANGED <<writerVars, uncompressed, cpc, chand, outVars>>

SerializerExits ==
  /\ spc = "take" /\ MutexFree
  /\ compressed = <<>> /\ done_compressing
  /\ spc' = "exited"
  /\ UNCHANGED <<writerVars, uncompressed, compressed, cpc, chand, shand, outVars>>

write_chunk ==
  /\ spc = "write"
  /\ file' = Append(file, shand)
  /\ shand' = None
  /\ spc' = "take"
  /\ UNCHANGED <<writerVars, uncompressed, compressed, cpc, chand, sizes>>

serializer == TakeCompressed \/ SerializerExits \/ write_chunk

\* A thread that finds no work sleeps and looks again.
Poll == /\ \/ cpc = "take" /\ uncompressed = <<>>
           \/ spc = "take" /\ compressed = <<>>
        /\ UNCHANGED vars

(***************************************************************************)
(* lava_writer::new_frame of another thread tests this stream: it reads    *)
(* holding, then held_chunks, with chunk_mutex held; the traced thread     *)
(* changes both without it.                                                *)
(***************************************************************************)
ReadHolding ==
  /\ observer = "away"
  /\ wpc \in {"run", "handover"}
  /\ ~holding
  /\ observer' = "reading"
  /\ UNCHANGED <<options, wpc, appVars, chunkVars, holding, held, uncompressed, compressed,
                 direct, threadVars, doneVars, outVars>>

ReadHeld ==
  /\ observer = "reading"
  /\ observer' = IF held = <<>> THEN "away" ELSE "failed"
  /\ UNCHANGED <<options, wpc, appVars, chunkVars, holding, held, uncompressed, compressed,
                 direct, threadVars, doneVars, outVars>>

self_test == ReadHolding \/ ReadHeld

Closed == wpc = "closed" /\ UNCHANGED vars

Next == \/ begin_packet \/ WriteCall \/ TracedThread
        \/ compressor \/ serializer \/ Poll
        \/ self_test
        \/ Closed

(***************************************************************************)
(* The two worker threads poll for ever, and a finalize that was called    *)
(* goes on; the application need never call anything.                      *)
(***************************************************************************)
Fairness == /\ WF_vars(compressor)
            /\ WF_vars(serializer)
            /\ WF_vars(ReadHeld)
            /\ WF_vars(DoneFeeding \/ JoinCompressor \/ JoinSerializer)

Spec == Init /\ [][Next]_vars /\ Fairness
-----------------------------------------------------------------------------
ChunkNumbers == 1 .. Len(chunks)

TypeOK ==
  /\ multithreaded_compress \in BOOLEAN /\ multithreaded_write \in BOOLEAN
  /\ wpc \in {"run", "handover", "feed", "join_compressor", "join_serializer", "closed"}
  /\ job \in Seq([size : Sizes \cup {1}, later : BOOLEAN])
  /\ writes \in 0 .. MaxWrites
  /\ capacity \in Nat /\ uidx \in Nat
  /\ wpc \in {"run", "handover"} => uidx <= capacity
  /\ chunks \in Seq(Nat)
  /\ packet_open \in BOOLEAN /\ holding \in BOOLEAN
  /\ pointers \subseteq 1 .. Current
  /\ held \in Seq(ChunkNumbers) /\ uncompressed \in Seq(ChunkNumbers)
  /\ compressed \in Seq(ChunkNumbers)
  /\ {direct, chand, shand} \subseteq ChunkNumbers \cup {None}
  /\ cpc \in {"take", "compress", "deliver", "exited"}
  /\ spc \in {"take", "write", "exited"}
  /\ done_feeding \in BOOLEAN /\ done_compressing \in BOOLEAN
  /\ sizes \in Seq(ChunkNumbers) /\ file \in Seq(ChunkNumbers)
  /\ observer \in {"away", "reading", "failed"}

(***************************************************************************)
(* A pointer that write_value_later handed out points into memory that is  *)
(* still the traced thread's: the chunk it is filling, or one it holds.    *)
(* end_packet and end_object_update_packet write through such pointers.    *)
(***************************************************************************)
PointersLive ==
  \A c \in pointers : c = Current \/ \E i \in DOMAIN held : held[i] = c

(***************************************************************************)
(* uncompressed_sizes, from which a reader finds chunk i, lists the chunks *)
(* in the order in which they are in the file, and lists them all once the *)
(* file is closed, when a thread of its own compresses (see IsChunkStream).  *)
(***************************************************************************)
SizesMatchFile ==
  multithreaded_compress =>
    /\ Len(file) <= Len(sizes)
    /\ \A i \in DOMAIN file : sizes[i] = file[i]
    /\ wpc = "closed" => Len(file) = Len(sizes)

(***************************************************************************)
(* finalize's own assertions: nothing is left in any list when the file is *)
(* closed.                                                                 *)
(***************************************************************************)
NothingLeft ==
  wpc = "closed" => /\ held = <<>> /\ uncompressed = <<>> /\ compressed = <<>>
                    /\ chand = None /\ shand = None /\ direct = None

(***************************************************************************)
(* At every step the chunks are where the threads believe them to be:      *)
(* fields have their types, pointers of write_value_later stay inside      *)
(* memory of the traced thread, the list of sizes describes the file, and  *)
(* nothing is left over (write_value_later, make_space, thaw, serializer,  *)
(* finalize).                                                              *)
(***************************************************************************)
ChunksSound == TypeOK /\ PointersLive /\ SizesMatchFile /\ NothingLeft

(***************************************************************************)
(* The file is the abstract stream of chunks: the chunks that hold data    *)
(* arrive in the order they were filled, and none is missing at the end.   *)
(* This is so when a thread of its own compresses. When the traced thread  *)
(* compresses, held chunks go past the ones it writes itself (README,      *)
(* section 5); such a file stands for no stream, an empty one here.        *)
(***************************************************************************)
NonEmpty == {c \in ChunkNumbers : chunks[c] > 0}

Stream == INSTANCE ChunkStream WITH sent   <- IF multithreaded_compress THEN NonEmpty ELSE {},
                                    stored <- IF multithreaded_compress THEN file ELSE <<>>,
                                    closed <- (multithreaded_compress /\ wpc = "closed")

IsChunkStream == Stream!Spec

\* Once finalize has sent the last chunk it returns: both threads can be joined.
FinalizeReturns == (wpc = "feed") ~> (wpc = "closed")
=============================================================================
