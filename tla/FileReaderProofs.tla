-------------------------- MODULE FileReaderProofs --------------------------
(***************************************************************************)
(* For every stream, readahead and page size: the replay thread reads only *)
(* what was decompressed, and the memory in use is the window between the  *)
(* packet that is read and the end of the readahead.  A packet that is     *)
(* stepped over unread is left out (Isolated).                             *)
(***************************************************************************)
EXTENDS FileReader, TLAPS

-----------------------------------------------------------------------------
(***************************************************************************)
(* The inductive invariant.                                                *)
(***************************************************************************)
Options == layout \in Layouts /\ preload \in Nat

\* What is published is whole chunks, and the end of the stream is made known before
\* the next turn of the loop.
ChunksPublished ==
  /\ write_position = IF decompressed = 0 THEN 0 ELSE layout.upto[decompressed]
  /\ dpc = "published" => decompressed > 0
  /\ dpc = "loop" /\ ~done_decompressing => decompressed < Chunks

\* The readahead of one chunk is the size of a chunk.
LastChunk ==
  /\ last_chunk = 0 \/ \E k \in 1 .. Chunks : last_chunk = ChunkSize(k)
  /\ dpc = "loop" /\ last_chunk = 0 => decompressed = 0

\* Where a replay thread stands in its packet.
InPacket ==
  /\ packet_start <= read_position
  /\ rpc = "header" => ~packet_open /\ read_position = packet_start
  /\ rpc = "opened" => read_position = packet_start + 1
  /\ rpc = "body" => packet_open /\ read_position <= packet_end
  /\ rpc \in {"start", "filling", "loaded", "step"} /\ packet_open => read_position = packet_end

\* A blocked thread has said what it needs, which stays inside the packet.
Needs ==
  /\ rpc = "blocked" =>
       /\ needed_write_position = read_position + want
       /\ \/ next = "opened" /\ read_position = packet_start /\ want = 1
          \/ next = "body" /\ packet_open /\ read_position + want <= packet_end
  /\ rpc \notin {"blocked", "aborted"} => needed_write_position = 0

CheckpointBehind == checkpoint_position <= read_position

ReaderInv == /\ Options /\ TypeOK /\ ChunksPublished /\ LastChunk
             /\ InPacket /\ Needs /\ CheckpointBehind
             /\ ReadsPublishedData /\ ReleasedBehindPacket /\ ReadAheadBounded

-----------------------------------------------------------------------------
(***************************************************************************)
(* Arithmetic of the operators.                                            *)
(***************************************************************************)

\* A difference that is not negative does not wrap in check_space.
LEMMA AvailableIsDifference ==
  ASSUME Options, TypeOK, ReadsPublishedData
  PROVE  Available(write_position) = write_position - read_position
<1>1. /\ write_position \in 0 .. Size /\ read_position \in 0 .. Size
      /\ Size \in Nat /\ 2 * Size < Word /\ Word \in Nat
  <2>1. layout \in Layouts /\ IsLayout(layout) /\ 2 * Total(layout) < Word
    BY LayoutsAssumption DEF Options
  <2>2. Len(layout.upto) \in 1 .. Len(layout.upto)
    BY <2>1 DEF IsLayout
  <2>3. Total(layout) \in Nat
    BY <2>1, <2>2 DEF IsLayout, Total
  <2> QED BY <2>1, <2>3, WordAssumption DEF TypeOK, Size
<1>2. write_position - read_position \in 0 .. Word - 1
  BY <1>1 DEF ReadsPublishedData
<1>3. \A x \in 0 .. Word - 1 : x % Word = x
  BY <1>1
<1> QED BY <1>2, <1>3 DEF Available

\* Pages of release_checkpoint rounds down.
LEMMA PagesBelow ==
  ASSUME NEW n \in Int
  PROVE  Pages(n) \in Int /\ Pages(n) <= n
<1>1. PageSize \in Nat /\ PageSize > 0
  BY PageSizeAssumption
<1>2. n \div PageSize \in Int /\ (n \div PageSize) * PageSize <= n
  BY <1>1
<1> QED BY <1>1, <1>2 DEF Pages

\* Whole pages add up: what release_checkpoint gives back ends before the checkpoint.
LEMMA PagesOfNat ==
  ASSUME NEW n \in Nat
  PROVE  Pages(n) \in Nat
<1>1. PageSize \in Nat /\ PageSize > 0
  BY PageSizeAssumption
<1>2. n \div PageSize \in Nat
  BY <1>1
<1> QED BY <1>1, <1>2 DEF Pages

-----------------------------------------------------------------------------
(***************************************************************************)
(* The chunks of a stream.                                                 *)
(***************************************************************************)
LEMMA StreamShape ==
  ASSUME Options
  PROVE  /\ Chunks \in Nat \ {0} /\ Size \in Nat \ {0}
         /\ \A k \in 1 .. Chunks : layout.upto[k] \in 1 .. Size
         /\ \A e \in layout.ends : e \in 1 .. Size
<1>1. IsLayout(layout)
  BY LayoutsAssumption DEF Options
<1>2. Chunks \in Nat \ {0} /\ DOMAIN layout.upto = 1 .. Chunks
  BY <1>1 DEF IsLayout, Chunks
<1>3. \A k \in 1 .. Chunks : layout.upto[k] \in Nat \ {0}
  BY <1>1, <1>2 DEF IsLayout
<1>4. Size = layout.upto[Chunks]
  BY DEF Size, Total, Chunks
<1>5. \A k \in 1 .. Chunks : layout.upto[k] <= Size
  <2> SUFFICES ASSUME NEW k \in 1 .. Chunks PROVE layout.upto[k] <= layout.upto[Chunks]
    BY <1>4
  <2>1. CASE k = Chunks
    BY <2>1, <1>2, <1>3
  <2>2. CASE k < Chunks
    <3>1. layout.upto[k] < layout.upto[Chunks]
      BY <2>2, <1>1, <1>2, SMTT(30) DEF IsLayout
    <3> QED BY <3>1, <1>2, <1>3
  <2> QED BY <2>1, <2>2, <1>2
<1>6. layout.ends \subseteq 1 .. Size
  BY <1>1 DEF IsLayout, Size
<1> QED BY <1>2, <1>3, <1>4, <1>5, <1>6

LEMMA ChunkSizes ==
  ASSUME Options, NEW k \in 1 .. Chunks
  PROVE  /\ ChunkSize(k) \in Nat \ {0}
         /\ k = 1 => ChunkSize(k) = layout.upto[k]
         /\ k > 1 => layout.upto[k - 1] \in 1 .. Size /\ ChunkSize(k) = layout.upto[k] - layout.upto[k - 1]
<1>1. IsLayout(layout) /\ DOMAIN layout.upto = 1 .. Chunks
  BY LayoutsAssumption DEF Options, IsLayout, Chunks
<1>2. layout.upto[k] \in 1 .. Size /\ Size \in Nat /\ Chunks \in Nat
  BY StreamShape
<1>3. CASE k = 1
  BY <1>2, <1>3 DEF ChunkSize
<1>4. CASE k > 1
  <2>1. k - 1 \in 1 .. Chunks /\ k - 1 < k
    BY <1>2, <1>4
  <2>2. layout.upto[k - 1] \in 1 .. Size
    BY <2>1, StreamShape
  <2>3. layout.upto[k - 1] < layout.upto[k]
    BY <1>1, <2>1 DEF IsLayout
  <2> QED BY <1>2, <1>4, <2>2, <2>3 DEF ChunkSize
<1> QED BY <1>2, <1>3, <1>4

-----------------------------------------------------------------------------
(***************************************************************************)
(* What a step that leaves the stream alone keeps.                         *)
(***************************************************************************)
LEMMA SameStream ==
  ASSUME layout' = layout
  PROVE  Size' = Size /\ Chunks' = Chunks /\ (\A k : ChunkSize(k)' = ChunkSize(k))
BY DEF Size, Total, Chunks, ChunkSize

LEMMA PositionTypes ==
  ASSUME Options, TypeOK
  PROVE  /\ Size \in Nat /\ MaxRead \in Nat
         /\ write_position \in 0 .. Size /\ read_position \in 0 .. Size
         /\ packet_start \in 0 .. Size /\ packet_end \in 0 .. Size /\ seen \in 0 .. Size
         /\ needed_write_position \in 0 .. Size + MaxRead
         /\ want \in 0 .. MaxRead /\ preload \in Nat
<1>1. Size \in Nat /\ MaxRead \in Nat
  BY StreamShape, MaxReadAssumption
<1> QED BY <1>1 DEF Options, TypeOK

\* The arithmetic of the lemma below.
LEMMA BoundForward ==
  ASSUME NEW w \in Nat, NEW p \in Nat, NEW n \in Nat, NEW r \in Nat, NEW r1 \in Nat, r <= r1,
         NEW m \in Nat, NEW m1 \in Nat, m <= m1 \/ m <= r1,
         w <= r + p + n \/ w <= r + n + n \/ w <= m + n
  PROVE  w <= r1 + p + n \/ w <= r1 + n + n \/ w <= m1 + n
OBVIOUS

\* The decompressor rests and the replay thread moves forward: the bound on the readahead
\* stays, also when a read that was waited for is done.
LEMMA ForwardKeepsBound ==
  ASSUME Options, TypeOK, ReadAheadBounded,
         UNCHANGED <<options, write_position>>,
         read_position' \in Nat, needed_write_position' \in Nat,
         read_position <= read_position',
         needed_write_position <= needed_write_position' \/ needed_write_position <= read_position'
  PROVE  ReadAheadBounded'
<1>1. layout' = layout /\ preload' = preload /\ write_position' = write_position
  BY DEF options
<1> SUFFICES ASSUME NEW n \in 1 .. Size, \A k \in 1 .. Chunks : ChunkSize(k) <= n
             PROVE  \/ write_position <= read_position' + preload + n
                    \/ write_position <= read_position' + n + n
                    \/ write_position <= needed_write_position' + n
  BY <1>1, SameStream DEF ReadAheadBounded
<1>2. \/ write_position <= read_position + preload + n
      \/ write_position <= read_position + n + n
      \/ write_position <= needed_write_position + n
  BY DEF ReadAheadBounded
<1>3. n \in Nat /\ write_position \in Nat /\ read_position \in Nat /\ preload \in Nat
        /\ needed_write_position \in Nat
  BY PositionTypes
<1> QED BY <1>2, <1>3, BoundForward

\* The worker's part of the invariant is about its own variables.
LEMMA WorkerRests ==
  ASSUME ChunksPublished, LastChunk, UNCHANGED <<options, worker, write_position, done_decompressing>>
  PROVE  ChunksPublished' /\ LastChunk'
<1>1. /\ layout' = layout /\ decompressed' = decompressed /\ last_chunk' = last_chunk /\ dpc' = dpc
      /\ write_position' = write_position /\ done_decompressing' = done_decompressing
  BY DEF options, worker
<1>2. Chunks' = Chunks /\ (\A k : ChunkSize(k)' = ChunkSize(k))
  BY <1>1, SameStream
<1>3. ChunksPublished'
  BY <1>1, <1>2 DEF ChunksPublished
<1>4. LastChunk'
  BY <1>1, <1>2 DEF LastChunk
<1> QED BY <1>3, <1>4

-----------------------------------------------------------------------------
(***************************************************************************)
(* The decompressor.                                                       *)
(***************************************************************************)
LEMMA PublishKeeps ==
  ASSUME ReaderInv, PublishChunk
  PROVE  ReaderInv'
<1>0. /\ Options /\ TypeOK /\ ChunksPublished /\ LastChunk /\ InPacket /\ Needs
      /\ CheckpointBehind /\ ReadsPublishedData /\ ReleasedBehindPacket /\ ReadAheadBounded
  BY DEF ReaderInv
<1>1. /\ layout' = layout /\ preload' = preload
      /\ UNCHANGED <<read_position, needed_write_position, checkpoint_position, freed_position,
                     last_chunk, packet_start, packet_end, packet_open, done_decompressing,
                     rpc, seen, want, next>>
      /\ dpc = "loop" /\ ~done_decompressing /\ ~TooFarAhead /\ dpc' = "published"
      /\ decompressed' = decompressed + 1
      /\ write_position' = write_position + ChunkSize(decompressed')
  BY DEF PublishChunk, MustExit, options, release, packet
<1>2. Size' = Size /\ Chunks' = Chunks /\ (\A k : ChunkSize(k)' = ChunkSize(k))
  BY <1>1, SameStream
<1>3. Chunks \in Nat \ {0} /\ decompressed \in 0 .. Chunks /\ decompressed < Chunks
  BY <1>0, <1>1, StreamShape DEF TypeOK, ChunksPublished
<1> DEFINE d == decompressed + 1
<1>4. d \in 1 .. Chunks /\ d = decompressed' /\ d # 0
  BY <1>1, <1>3
<1>5. write_position' = layout.upto[d] /\ ChunkSize(d) \in Nat \ {0}
  <2>1. CASE decompressed = 0
    <3>1. d = 1 /\ write_position = 0
      BY <2>1, <1>0 DEF ChunksPublished
    <3>2. ChunkSize(d) = layout.upto[d] /\ ChunkSize(d) \in Nat \ {0}
      BY <3>1, <1>0, <1>4, ChunkSizes
    <3> QED BY <3>1, <3>2, <1>1
  <2>2. CASE decompressed # 0
    <3>1. d > 1 /\ d - 1 = decompressed /\ write_position = layout.upto[decompressed]
      BY <2>2, <1>0, <1>3 DEF ChunksPublished
    <3>2. /\ layout.upto[d - 1] \in 1 .. Size /\ ChunkSize(d) = layout.upto[d] - layout.upto[d - 1]
          /\ ChunkSize(d) \in Nat \ {0}
      BY <3>1, <1>0, <1>4, ChunkSizes
    <3>3. layout.upto[d] \in 1 .. Size /\ Size \in Nat
      BY <1>0, <1>4, StreamShape
    <3>4. write_position' = write_position + ChunkSize(d) /\ write_position = layout.upto[d - 1]
      BY <3>1, <1>1, <1>4
    <3> QED BY <3>2, <3>3, <3>4
  <2> QED BY <2>1, <2>2
<1>6. write_position' \in 1 .. Size /\ Size \in Nat
  BY <1>0, <1>4, <1>5, StreamShape
<1>7. write_position \in Nat /\ write_position' \in Nat /\ write_position <= write_position'
        /\ write_position' = write_position + ChunkSize(d)
  BY <1>0, <1>1, <1>4, <1>5, <1>6, PositionTypes
<1> HIDE DEF d
<1>8. TypeOK'
  BY <1>0, <1>1, <1>2, <1>4, <1>6 DEF TypeOK
<1>9. ChunksPublished'
  BY <1>1, <1>4, <1>5, <1>3 DEF ChunksPublished
<1>10. LastChunk'
  BY <1>0, <1>1, <1>2 DEF LastChunk
<1>11. InPacket' /\ Needs' /\ CheckpointBehind' /\ ReleasedBehindPacket'
  BY <1>0, <1>1 DEF InPacket, Needs, CheckpointBehind, ReleasedBehindPacket
<1>12. ReadsPublishedData'
  BY <1>0, <1>1, <1>7, PositionTypes DEF ReadsPublishedData
<1>13. ReadAheadBounded'
  <2> SUFFICES ASSUME NEW n \in 1 .. Size, \A k \in 1 .. Chunks : ChunkSize(k) <= n
               PROVE  \/ write_position' <= read_position + preload + n
                      \/ write_position' <= read_position + n + n
                      \/ write_position' <= needed_write_position + n
    BY <1>1, <1>2 DEF ReadAheadBounded
  <2>1. /\ n \in Nat /\ write_position \in Nat /\ read_position \in Nat /\ preload \in Nat
        /\ needed_write_position \in Nat /\ ChunkSize(d) \in Nat /\ ChunkSize(d) <= n
    BY <1>0, <1>4, <1>5, <1>6, PositionTypes
  <2>2. last_chunk \in Nat /\ last_chunk <= n
    <3>1. CASE last_chunk = 0
      BY <3>1, <2>1
    <3>2. ASSUME NEW k \in 1 .. Chunks, last_chunk = ChunkSize(k)
          PROVE  last_chunk \in Nat /\ last_chunk <= n
      BY <3>2, <1>0, ChunkSizes
    <3> QED BY <3>1, <3>2, <1>0 DEF LastChunk
  <2>3. PreloadSize = preload \/ PreloadSize = last_chunk
    BY DEF PreloadSize
  <2>4. CASE PreloadSize = 0
    <3>1. last_chunk = 0
      BY <2>4, <2>1 DEF PreloadSize
    <3>2. write_position = 0
      BY <3>1, <1>0, <1>1 DEF LastChunk, ChunksPublished
    <3> QED BY <3>2, <2>1, <1>7
  <2>5. CASE PreloadSize > 0
    <3>1. ~(write_position > read_position + PreloadSize) \/ ~(write_position >= needed_write_position)
      BY <2>5, <1>1 DEF TooFarAhead
    <3> QED BY <3>1, <2>1, <2>2, <2>3, <1>7
  <2> QED BY <2>1, <2>2, <2>3, <2>4, <2>5
<1>14. Options'
  BY <1>0, <1>1 DEF Options
<1> QED BY <1>8, <1>9, <1>10, <1>11, <1>12, <1>13, <1>14 DEF ReaderInv

LEMMA FinishKeeps ==
  ASSUME ReaderInv, FinishChunk
  PROVE  ReaderInv'
<1>0. /\ Options /\ TypeOK /\ ChunksPublished /\ LastChunk /\ InPacket /\ Needs
      /\ CheckpointBehind /\ ReadsPublishedData /\ ReleasedBehindPacket /\ ReadAheadBounded
  BY DEF ReaderInv
<1>1. /\ UNCHANGED options /\ layout' = layout /\ preload' = preload
      /\ UNCHANGED <<write_position, read_position, needed_write_position, checkpoint_position,
                     freed_position, decompressed, packet_start, packet_end, packet_open,
                     rpc, seen, want, next>>
      /\ dpc = "published" /\ dpc' = "loop"
      /\ last_chunk' = ChunkSize(decompressed)
      /\ decompressed = Chunks => done_decompressing'
  BY DEF FinishChunk, options, position, release, packet
<1>2. Size' = Size /\ Chunks' = Chunks /\ (\A k : ChunkSize(k)' = ChunkSize(k))
  BY <1>1, SameStream
<1>3. Chunks \in Nat \ {0} /\ decompressed \in 1 .. Chunks
  BY <1>0, <1>1, StreamShape DEF TypeOK, ChunksPublished
<1>4. ChunkSize(decompressed) \in Nat \ {0}
  BY <1>0, <1>3, ChunkSizes
<1>5. TypeOK'
  BY <1>0, <1>1, <1>2 DEF TypeOK
<1>6. ChunksPublished'
  BY <1>0, <1>1, <1>2, <1>3 DEF ChunksPublished
<1>7. LastChunk'
  BY <1>1, <1>2, <1>3, <1>4 DEF LastChunk
<1>8. InPacket' /\ Needs' /\ CheckpointBehind' /\ ReleasedBehindPacket' /\ ReadsPublishedData' /\ Options'
  BY <1>0, <1>1 DEF InPacket, Needs, CheckpointBehind, ReleasedBehindPacket, ReadsPublishedData, Options
<1>9. ReadAheadBounded'
  BY <1>0, <1>1, <1>2 DEF ReadAheadBounded
<1> QED BY <1>5, <1>6, <1>7, <1>8, <1>9 DEF ReaderInv

LEMMA ExitKeeps ==
  ASSUME ReaderInv, DecompressorExits
  PROVE  ReaderInv'
<1>0. /\ Options /\ TypeOK /\ ChunksPublished /\ LastChunk /\ InPacket /\ Needs
      /\ CheckpointBehind /\ ReadsPublishedData /\ ReleasedBehindPacket /\ ReadAheadBounded
  BY DEF ReaderInv
<1>1. /\ layout' = layout /\ preload' = preload
      /\ UNCHANGED <<write_position, read_position, needed_write_position, checkpoint_position,
                     freed_position, decompressed, last_chunk, packet_start, packet_end, packet_open,
                     rpc, seen, want, next>>
      /\ dpc' = "exited"
  BY DEF DecompressorExits, options, position, release, packet
<1>2. Size' = Size /\ Chunks' = Chunks /\ (\A k : ChunkSize(k)' = ChunkSize(k))
  BY <1>1, SameStream
<1>3. TypeOK' /\ Options'
  BY <1>0, <1>1, <1>2 DEF TypeOK, Options
<1>4. ChunksPublished' /\ LastChunk'
  BY <1>0, <1>1, <1>2 DEF ChunksPublished, LastChunk
<1>5. InPacket' /\ Needs' /\ CheckpointBehind' /\ ReleasedBehindPacket' /\ ReadsPublishedData'
  BY <1>0, <1>1 DEF InPacket, Needs, CheckpointBehind, ReleasedBehindPacket, ReadsPublishedData
<1>6. ReadAheadBounded'
  BY <1>0, <1>1, <1>2 DEF ReadAheadBounded
<1> QED BY <1>3, <1>4, <1>5, <1>6 DEF ReaderInv

-----------------------------------------------------------------------------
(***************************************************************************)
(* Steps of the replay thread that leave the positions alone.              *)
(***************************************************************************)
LEMMA PositionsRest ==
  ASSUME ReaderInv,
         UNCHANGED <<options, position, release, worker, done_decompressing, packet, want, next>>,
         seen' = seen \/ seen' = write_position,
         \/ rpc' = rpc
         \/ rpc \in {"start", "filling", "loaded"} /\ rpc' \in {"filling", "loaded", "step"}
         \/ rpc = "body" /\ read_position = packet_end /\ rpc' \in {"step", "start"}
  PROVE  ReaderInv'
<1>0. /\ Options /\ TypeOK /\ ChunksPublished /\ LastChunk /\ InPacket /\ Needs
      /\ CheckpointBehind /\ ReadsPublishedData /\ ReleasedBehindPacket /\ ReadAheadBounded
  BY DEF ReaderInv
<1>1. /\ layout' = layout /\ preload' = preload
      /\ UNCHANGED <<write_position, read_position, needed_write_position, checkpoint_position,
                     freed_position, decompressed, last_chunk, dpc, packet_start, packet_end,
                     packet_open, want, next>>
  BY DEF options, position, release, worker, packet
<1>2. Size' = Size /\ Chunks' = Chunks /\ (\A k : ChunkSize(k)' = ChunkSize(k))
  BY <1>1, SameStream
<1>3. TypeOK' /\ Options'
  BY <1>0, <1>1, <1>2 DEF TypeOK, Options
<1>4. ChunksPublished' /\ LastChunk'
  BY <1>0, WorkerRests DEF position
<1>5. InPacket'
  BY <1>0, <1>1 DEF InPacket
<1>6. Needs'
  BY <1>0, <1>1 DEF Needs
<1>7. CheckpointBehind' /\ ReleasedBehindPacket' /\ ReadsPublishedData'
  BY <1>0, <1>1 DEF CheckpointBehind, ReleasedBehindPacket, ReadsPublishedData
<1>8. ReadAheadBounded'
  BY <1>0, <1>1, <1>2 DEF ReadAheadBounded
<1> QED BY <1>3, <1>4, <1>5, <1>6, <1>7, <1>8 DEF ReaderInv

LEMMA FillingKeeps ==
  ASSUME ReaderInv, start_measurement \/ LoadFilled \/ Filled
  PROVE  ReaderInv'
<1>1. CASE start_measurement
  BY <1>1, PositionsRest DEF start_measurement
<1>2. CASE LoadFilled
  BY <1>2, PositionsRest DEF LoadFilled
<1>3. CASE Filled
  BY <1>3, PositionsRest DEF Filled
<1> QED BY <1>1, <1>2, <1>3

LEMMA PacketDoneKeeps ==
  ASSUME ~Isolated, ReaderInv, PacketDone
  PROVE  ReaderInv'
BY PositionsRest DEF PacketDone

LEMMA StopKeeps ==
  ASSUME ReaderInv, request_stop
  PROVE  ReaderInv'
BY PositionsRest DEF request_stop

\* The destructor only ends the decompressor's loop.
LEMMA DestroyKeeps ==
  ASSUME ReaderInv, Destroy
  PROVE  ReaderInv'
<1>0. /\ Options /\ TypeOK /\ ChunksPublished /\ LastChunk /\ InPacket /\ Needs
      /\ CheckpointBehind /\ ReadsPublishedData /\ ReleasedBehindPacket /\ ReadAheadBounded
  BY DEF ReaderInv
<1>1. /\ layout' = layout /\ preload' = preload
      /\ UNCHANGED <<write_position, read_position, needed_write_position, checkpoint_position,
                     freed_position, decompressed, last_chunk, dpc, packet_start, packet_end,
                     packet_open, seen, want, next>>
      /\ rpc = "ended" /\ rpc' = "destroyed" /\ done_decompressing'
  BY DEF Destroy, options, position, release, worker, packet
<1>2. Size' = Size /\ Chunks' = Chunks /\ (\A k : ChunkSize(k)' = ChunkSize(k))
  BY <1>1, SameStream
<1>3. TypeOK' /\ Options'
  BY <1>0, <1>1, <1>2 DEF TypeOK, Options
<1>4. ChunksPublished' /\ LastChunk'
  BY <1>0, <1>1, <1>2 DEF ChunksPublished, LastChunk
<1>5. InPacket' /\ Needs'
  BY <1>0, <1>1 DEF InPacket, Needs
<1>6. CheckpointBehind' /\ ReleasedBehindPacket' /\ ReadsPublishedData'
  BY <1>0, <1>1 DEF CheckpointBehind, ReleasedBehindPacket, ReadsPublishedData
<1>7. ReadAheadBounded'
  BY <1>0, <1>1, <1>2 DEF ReadAheadBounded
<1> QED BY <1>3, <1>4, <1>5, <1>6, <1>7 DEF ReaderInv

-----------------------------------------------------------------------------
(***************************************************************************)
(* Reads.  A read that succeeds stays behind write_position because the    *)
(* difference did not wrap; one that does not leaves the position and says *)
(* what it needs.                                                          *)
(***************************************************************************)
ReadFits(n, then) == \/ then = "opened" /\ read_position = packet_start /\ n = 1
                     \/ then = "body" /\ packet_open /\ read_position + n <= packet_end

LEMMA ReadSucceeds ==
  ASSUME ReaderInv, NEW n \in 0 .. MaxRead, NEW then, ReadFits(n, then),
         n <= Available(write_position),
         needed_write_position = 0 \/ needed_write_position = read_position + n,
         needed_write_position' = 0, read_position' = read_position + n, rpc' = then,
         seen' = write_position, want' \in 0 .. MaxRead, next' \in {"step", "opened", "body"},
         UNCHANGED readUnchanged
  PROVE  ReaderInv'
<1>0. /\ Options /\ TypeOK /\ ChunksPublished /\ LastChunk /\ InPacket /\ Needs
      /\ CheckpointBehind /\ ReadsPublishedData /\ ReleasedBehindPacket /\ ReadAheadBounded
  BY DEF ReaderInv
<1>1. /\ layout' = layout /\ preload' = preload
      /\ UNCHANGED <<write_position, checkpoint_position, freed_position, decompressed, last_chunk,
                     dpc, packet_start, packet_end, packet_open, done_decompressing>>
  BY DEF readUnchanged, options, release, worker, packet
<1>2. Size' = Size /\ Chunks' = Chunks /\ (\A k : ChunkSize(k)' = ChunkSize(k))
  BY <1>1, SameStream
<1>3. /\ Size \in Nat /\ MaxRead \in Nat /\ n \in Nat
      /\ write_position \in 0 .. Size /\ read_position \in 0 .. Size
      /\ packet_start \in 0 .. Size /\ packet_end \in 0 .. Size
      /\ needed_write_position \in Nat
  BY <1>0, PositionTypes
<1>4. read_position' \in 0 .. Size /\ read_position' <= write_position /\ read_position <= read_position'
  <2>1. n <= write_position - read_position
    BY <1>0, AvailableIsDifference
  <2> QED BY <2>1, <1>3
<1>5. then \in {"opened", "body"}
  BY DEF ReadFits
<1>6. TypeOK'
  <2>1. {write_position', packet_start', packet_end', seen'} \subseteq 0 .. Size'
    BY <1>1, <1>2, <1>3
  <2>2. decompressed' \in 0 .. Chunks' /\ dpc' \in {"loop", "published", "exited"}
          /\ freed_position' \in Nat /\ checkpoint_position' \in -1 .. Size'
    BY <1>0, <1>1, <1>2 DEF TypeOK
  <2>3. needed_write_position' \in 0 .. Size' + MaxRead
    BY <1>2, <1>3
  <2> QED BY <2>1, <2>2, <2>3, <1>2, <1>4, <1>5 DEF TypeOK
<1>7. ChunksPublished' /\ LastChunk'
  <2>1. UNCHANGED <<options, worker, write_position, done_decompressing>>
    BY DEF readUnchanged
  <2> QED BY <2>1, <1>0, WorkerRests
<1>8. InPacket'
  <2>1. packet_start' <= read_position'
    BY <1>0, <1>1, <1>3, <1>4 DEF InPacket
  <2>2. CASE then = "opened" /\ read_position = packet_start /\ n = 1
    BY <2>1, <2>2, <1>1 DEF InPacket
  <2>3. CASE then = "body" /\ packet_open /\ read_position + n <= packet_end
    BY <2>1, <2>3, <1>1 DEF InPacket
  <2> QED BY <2>2, <2>3 DEF ReadFits
<1>9. Needs'
  BY <1>5 DEF Needs
<1>10. CheckpointBehind' /\ ReleasedBehindPacket' /\ ReadsPublishedData' /\ Options'
  <2>1. checkpoint_position \in Int
    BY <1>0, <1>3 DEF TypeOK
  <2> QED BY <2>1, <1>0, <1>1, <1>3, <1>4
          DEF CheckpointBehind, ReleasedBehindPacket, ReadsPublishedData, Options
<1>11. ReadAheadBounded'
  <2>1. UNCHANGED <<options, write_position>>
    BY DEF readUnchanged
  <2>2. /\ read_position' \in Nat /\ needed_write_position' \in Nat
        /\ needed_write_position <= needed_write_position' \/ needed_write_position <= read_position'
    BY <1>3, <1>4
  <2> QED BY <2>1, <2>2, <1>0, <1>4, ForwardKeepsBound
<1> QED BY <1>6, <1>7, <1>8, <1>9, <1>10, <1>11 DEF ReaderInv

LEMMA ReadBlocks ==
  ASSUME ReaderInv, NEW n \in 0 .. MaxRead, NEW then, ReadFits(n, then),
         needed_write_position = 0,
         needed_write_position' = read_position + n, read_position' = read_position,
         rpc' = "blocked", want' = n, next' = then, seen' = write_position,
         UNCHANGED readUnchanged
  PROVE  ReaderInv'
<1>0. /\ Options /\ TypeOK /\ ChunksPublished /\ LastChunk /\ InPacket /\ Needs
      /\ CheckpointBehind /\ ReadsPublishedData /\ ReleasedBehindPacket /\ ReadAheadBounded
  BY DEF ReaderInv
<1>1. /\ layout' = layout /\ preload' = preload
      /\ UNCHANGED <<write_position, checkpoint_position, freed_position, decompressed, last_chunk,
                     dpc, packet_start, packet_end, packet_open, done_decompressing>>
  BY DEF readUnchanged, options, release, worker, packet
<1>2. Size' = Size /\ Chunks' = Chunks /\ (\A k : ChunkSize(k)' = ChunkSize(k))
  BY <1>1, SameStream
<1>3. /\ Size \in Nat /\ MaxRead \in Nat /\ n \in Nat
      /\ write_position \in 0 .. Size /\ read_position \in 0 .. Size
      /\ packet_start \in 0 .. Size /\ packet_end \in 0 .. Size
  BY <1>0, PositionTypes
<1>4. then \in {"opened", "body"}
  BY DEF ReadFits
<1>5. TypeOK'
  <2>1. {write_position', packet_start', packet_end', seen'} \subseteq 0 .. Size'
    BY <1>1, <1>2, <1>3
  <2>2. decompressed' \in 0 .. Chunks' /\ dpc' \in {"loop", "published", "exited"}
          /\ freed_position' \in Nat /\ checkpoint_position' \in -1 .. Size'
    BY <1>0, <1>1, <1>2 DEF TypeOK
  <2>3. needed_write_position' \in 0 .. Size' + MaxRead
    BY <1>2, <1>3
  <2> QED BY <2>1, <2>2, <2>3, <1>2, <1>3, <1>4 DEF TypeOK
<1>6. ChunksPublished' /\ LastChunk'
  <2>1. UNCHANGED <<options, worker, write_position, done_decompressing>>
    BY DEF readUnchanged
  <2> QED BY <2>1, <1>0, WorkerRests
<1>7. InPacket'
  BY <1>0, <1>1 DEF InPacket
<1>8. Needs'
  BY <1>1 DEF Needs, ReadFits
<1>9. CheckpointBehind' /\ ReleasedBehindPacket' /\ ReadsPublishedData' /\ Options'
  BY <1>0, <1>1 DEF CheckpointBehind, ReleasedBehindPacket, ReadsPublishedData, Options
<1>10. ReadAheadBounded'
  <2>1. UNCHANGED <<options, write_position>>
    BY DEF readUnchanged
  <2>2. /\ read_position' \in Nat /\ needed_write_position' \in Nat
        /\ needed_write_position <= needed_write_position' /\ read_position <= read_position'
    BY <1>3
  <2> QED BY <2>1, <2>2, <1>0, ForwardKeepsBound
<1> QED BY <1>5, <1>6, <1>7, <1>8, <1>9, <1>10 DEF ReaderInv

LEMMA CheckSpaceKeeps ==
  ASSUME ReaderInv, NEW n \in 1 .. MaxRead, NEW then, ReadFits(n, then),
         rpc \notin {"blocked", "aborted"}, check_space(n, then)
  PROVE  ReaderInv'
<1>1. needed_write_position = 0 /\ want \in 0 .. MaxRead /\ next \in {"step", "opened", "body"}
  BY DEF ReaderInv, Needs, TypeOK
<1>2. n \in 0 .. MaxRead
  BY MaxReadAssumption
<1>3. CASE n <= Available(write_position)
  BY <1>1, <1>2, <1>3, ReadSucceeds DEF check_space
<1>4. CASE ~(n <= Available(write_position))
  BY <1>1, <1>2, <1>4, ReadBlocks DEF check_space
<1> QED BY <1>3, <1>4

LEMMA HeaderKeeps ==
  ASSUME ReaderInv, ReadHeader
  PROVE  ReaderInv'
<1>1. ReadFits(1, "opened")
  BY DEF ReaderInv, InPacket, ReadHeader, ReadFits
<1>2. 1 \in 1 .. MaxRead
  BY MaxReadAssumption
<1> QED BY <1>1, <1>2, CheckSpaceKeeps DEF ReadHeader

LEMMA BodyKeeps ==
  ASSUME ReaderInv, ReadBody
  PROVE  ReaderInv'
<1>1. PICK n \in 1 .. MaxRead : read_position + n <= packet_end /\ check_space(n, "body")
  BY DEF ReadBody
<1>2. ReadFits(n, "body") /\ rpc = "body"
  BY <1>1 DEF ReaderInv, InPacket, ReadBody, ReadFits
<1> QED BY <1>1, <1>2, CheckSpaceKeeps

\* The step where the wait in check_space returns.
LEMMA WakeKeeps ==
  ASSUME ReaderInv, Wake
  PROVE  ReaderInv'
<1>1. /\ rpc = "blocked" /\ needed_write_position = read_position + want
      /\ ReadFits(want, next) /\ want \in 0 .. MaxRead /\ next \in {"step", "opened", "body"}
  BY DEF ReaderInv, Needs, TypeOK, ReadFits, Wake
<1>2. seen' = write_position /\ want' = want /\ next' = next /\ UNCHANGED readUnchanged
  BY DEF Wake
<1>3. CASE rpc' = "aborted" /\ UNCHANGED <<read_position, needed_write_position>>
  <2>0. /\ Options /\ TypeOK /\ ChunksPublished /\ LastChunk /\ InPacket /\ Needs
        /\ CheckpointBehind /\ ReadsPublishedData /\ ReleasedBehindPacket /\ ReadAheadBounded
    BY DEF ReaderInv
  <2>1. /\ layout' = layout /\ preload' = preload
        /\ UNCHANGED <<write_position, checkpoint_position, freed_position, decompressed, last_chunk,
                       dpc, packet_start, packet_end, packet_open, done_decompressing>>
    BY <1>2 DEF readUnchanged, options, release, worker, packet
  <2>2. Size' = Size /\ Chunks' = Chunks /\ (\A k : ChunkSize(k)' = ChunkSize(k))
    BY <2>1, SameStream
  <2>3. TypeOK' /\ Options'
    BY <2>0, <2>1, <2>2, <1>2, <1>3 DEF TypeOK, Options
  <2>4. ChunksPublished' /\ LastChunk'
    <3>1. UNCHANGED <<options, worker, write_position, done_decompressing>>
      BY <1>2 DEF readUnchanged
    <3> QED BY <3>1, <2>0, WorkerRests
  <2>5. InPacket' /\ Needs'
    BY <2>0, <2>1, <1>3 DEF InPacket, Needs
  <2>6. CheckpointBehind' /\ ReleasedBehindPacket' /\ ReadsPublishedData'
    BY <2>0, <2>1, <1>3 DEF CheckpointBehind, ReleasedBehindPacket, ReadsPublishedData
  <2>7. ReadAheadBounded'
    BY <2>0, <2>1, <2>2, <1>3 DEF ReadAheadBounded
  <2> QED BY <2>3, <2>4, <2>5, <2>6, <2>7 DEF ReaderInv
<1>4. CASE /\ want <= Available(write_position) /\ needed_write_position' = 0
           /\ read_position' = read_position + want /\ rpc' = next
  BY <1>1, <1>2, <1>4, ReadSucceeds
<1>5. CASE UNCHANGED <<read_position, needed_write_position, rpc>>
  BY <1>2, <1>5, PositionsRest DEF readUnchanged, position
<1> QED BY <1>3, <1>4, <1>5 DEF Wake

-----------------------------------------------------------------------------
(***************************************************************************)
(* The packet loop.                                                        *)
(***************************************************************************)

\* complete_packet moves nothing when the packet was read to its end.
LEMMA NothingSkipped ==
  ASSUME InPacket, rpc = "step"
  PROVE  AfterPacket = read_position
BY DEF InPacket, AfterPacket

\* What release_checkpoint gives back ends at the checkpoint or where it ended before.
LEMMA ReleasedToCheckpoint ==
  ASSUME Options, TypeOK, CheckpointBehind, ReleasedBehindPacket, InPacket, release_checkpoint
  PROVE  /\ checkpoint_position' = -1
         /\ freed_position' \in Nat /\ freed_position' <= read_position
<1>1. /\ freed_position \in Nat /\ checkpoint_position \in Int
      /\ read_position \in Nat /\ packet_start \in Nat /\ PageSize \in Nat
  BY PositionTypes, PageSizeAssumption DEF TypeOK
<1>2. freed_position <= read_position /\ checkpoint_position <= read_position
  BY <1>1 DEF ReleasedBehindPacket, InPacket, CheckpointBehind
<1> DEFINE size == Pages(checkpoint_position - freed_position)
<1>3. checkpoint_position - freed_position \in Int
  BY <1>1
<1>4. size \in Int /\ size <= checkpoint_position - freed_position
  BY <1>3, PagesBelow
<1>5. Pages(freed_position) \in Nat /\ Pages(freed_position) <= freed_position
  BY <1>1, PagesOfNat, PagesBelow
<1>6. /\ checkpoint_position' = -1
      /\ \/ freed_position' = freed_position
         \/ size > PageSize /\ freed_position' = Pages(freed_position) + size
  BY DEF release_checkpoint, NoCheckpoint
<1> HIDE DEF size
<1> QED BY <1>1, <1>2, <1>4, <1>5, <1>6

LEMMA StepKeeps ==
  ASSUME ReaderInv, step
  PROVE  ReaderInv'
<1>0. /\ Options /\ TypeOK /\ ChunksPublished /\ LastChunk /\ InPacket /\ Needs
      /\ CheckpointBehind /\ ReadsPublishedData /\ ReleasedBehindPacket /\ ReadAheadBounded
  BY DEF ReaderInv
<1>1. /\ layout' = layout /\ preload' = preload
      /\ UNCHANGED <<write_position, needed_write_position, decompressed, last_chunk, dpc,
                     packet_end, done_decompressing, seen, want, next>>
      /\ read_position' = read_position /\ rpc = "step" /\ packet_open' = FALSE
  BY <1>0, NothingSkipped DEF step, options, worker
<1>2. Size' = Size /\ Chunks' = Chunks /\ (\A k : ChunkSize(k)' = ChunkSize(k))
  BY <1>1, SameStream
<1>3. /\ Size \in Nat /\ read_position \in 0 .. Size
      /\ packet_start \in 0 .. Size /\ packet_end \in 0 .. Size
  BY <1>0, PositionTypes
<1>4. /\ rpc' \in {"ended", "header"}
      /\ \/ UNCHANGED <<checkpoint_position, freed_position, packet_start>> /\ rpc' = "ended"
         \/ /\ checkpoint_position' = -1 /\ packet_start' = read_position
            /\ freed_position' \in Nat /\ freed_position' <= read_position
  <2>1. CASE stop \/ done
    BY <2>1 DEF step, release
  <2>2. CASE ~(stop \/ done)
    <3>1. rpc' = "header" /\ release_checkpoint /\ packet_start' = read_position
      BY <2>2, <1>0, NothingSkipped DEF step
    <3> QED BY <3>1, <1>0, ReleasedToCheckpoint
  <2> QED BY <2>1, <2>2
<1>5. TypeOK' /\ Options'
  <2>1. /\ packet_start' \in 0 .. Size' /\ freed_position' \in Nat
        /\ checkpoint_position' \in -1 .. Size'
    BY <1>0, <1>2, <1>3, <1>4 DEF TypeOK
  <2>2. {write_position', packet_start', packet_end', seen'} \subseteq 0 .. Size'
    BY <2>1, <1>0, <1>1, <1>2 DEF TypeOK
  <2> QED BY <2>1, <2>2, <1>0, <1>1, <1>2, <1>4 DEF TypeOK, Options
<1>6. ChunksPublished' /\ LastChunk'
  <2>1. UNCHANGED <<options, worker, write_position, done_decompressing>>
    BY DEF step
  <2> QED BY <2>1, <1>0, WorkerRests
<1>7. InPacket'
  <2>1. packet_start' <= read_position'
    BY <1>0, <1>1, <1>3, <1>4 DEF InPacket
  <2> QED BY <2>1, <1>1, <1>4 DEF InPacket
<1>8. Needs'
  BY <1>0, <1>1, <1>4 DEF Needs
<1>9. CheckpointBehind' /\ ReleasedBehindPacket' /\ ReadsPublishedData'
  BY <1>0, <1>1, <1>3, <1>4 DEF CheckpointBehind, ReleasedBehindPacket, ReadsPublishedData
<1>10. ReadAheadBounded'
  BY <1>0, <1>1, <1>2 DEF ReadAheadBounded
<1> QED BY <1>5, <1>6, <1>7, <1>8, <1>9, <1>10 DEF ReaderInv

LEMMA OpenKeeps ==
  ASSUME ReaderInv, OpenPacket
  PROVE  ReaderInv'
<1>0. /\ Options /\ TypeOK /\ ChunksPublished /\ LastChunk /\ InPacket /\ Needs
      /\ CheckpointBehind /\ ReadsPublishedData /\ ReleasedBehindPacket /\ ReadAheadBounded
  BY DEF ReaderInv
<1>1. /\ layout' = layout /\ preload' = preload
      /\ UNCHANGED <<write_position, read_position, needed_write_position, freed_position,
                     decompressed, last_chunk, dpc, packet_start, done_decompressing, seen, want, next>>
      /\ rpc = "opened" /\ rpc' = "body" /\ packet_open' = TRUE
      /\ checkpoint_position' \in {read_position, checkpoint_position}
  BY DEF OpenPacket, options, position, worker
<1>2. Size' = Size /\ Chunks' = Chunks /\ (\A k : ChunkSize(k)' = ChunkSize(k))
  BY <1>1, SameStream
<1>3. Size \in Nat /\ read_position \in 0 .. Size /\ packet_start \in 0 .. Size
  BY <1>0, PositionTypes
<1>4. packet_end' \in 1 .. Size /\ packet_end' > packet_start
  <2>1. PICK e \in layout.ends : e > packet_start /\ packet_end' = PacketEnd(e - packet_start)
    BY DEF OpenPacket, NextEnds
  <2>2. e \in 1 .. Size
    BY <1>0, StreamShape
  <2>3. packet_end' = e
    BY <2>1, <2>2, <1>3 DEF PacketEnd
  <2> QED BY <2>1, <2>2, <2>3
<1>5. read_position = packet_start + 1 /\ read_position <= packet_end'
  BY <1>0, <1>1, <1>3, <1>4 DEF InPacket
<1>6. TypeOK' /\ Options'
  <2>1. packet_end' \in 0 .. Size' /\ checkpoint_position' \in -1 .. Size'
    BY <1>0, <1>1, <1>2, <1>3, <1>4 DEF TypeOK
  <2> QED BY <2>1, <1>0, <1>1, <1>2 DEF TypeOK, Options
<1>7. ChunksPublished' /\ LastChunk'
  <2>1. UNCHANGED <<options, worker, write_position, done_decompressing>>
    BY DEF OpenPacket, position
  <2> QED BY <2>1, <1>0, WorkerRests
<1>8. InPacket'
  BY <1>0, <1>1, <1>5 DEF InPacket
<1>9. Needs'
  BY <1>0, <1>1 DEF Needs
<1>10. CheckpointBehind' /\ ReleasedBehindPacket' /\ ReadsPublishedData'
  BY <1>0, <1>1, <1>3 DEF CheckpointBehind, ReleasedBehindPacket, ReadsPublishedData
<1>11. ReadAheadBounded'
  BY <1>0, <1>1, <1>2 DEF ReadAheadBounded
<1> QED BY <1>6, <1>7, <1>8, <1>9, <1>10, <1>11 DEF ReaderInv

-----------------------------------------------------------------------------
LEMMA InitReader ==
  ASSUME Init
  PROVE  ReaderInv
<1>1. Options
  BY PreloadsAssumption DEF Init, Options
<1>2. Size \in Nat \ {0} /\ Chunks \in Nat \ {0} /\ MaxRead \in Nat
  BY <1>1, StreamShape, MaxReadAssumption
<1>3. TypeOK
  BY <1>2 DEF Init, TypeOK
<1>4. ChunksPublished /\ LastChunk
  BY <1>2 DEF Init, ChunksPublished, LastChunk
<1>5. InPacket /\ Needs /\ CheckpointBehind /\ ReadsPublishedData /\ ReleasedBehindPacket
  BY DEF Init, InPacket, Needs, CheckpointBehind, ReadsPublishedData, ReleasedBehindPacket
<1>6. ReadAheadBounded
  <2>1. preload \in Nat /\ write_position = 0 /\ read_position = 0
    BY <1>1 DEF Init, Options
  <2> SUFFICES ASSUME NEW n \in 1 .. Size PROVE write_position <= read_position + preload + n
    BY DEF ReadAheadBounded
  <2> QED BY <2>1, <1>2
<1> QED BY <1>1, <1>3, <1>4, <1>5, <1>6 DEF ReaderInv

LEMMA NextReader ==
  ASSUME ~Isolated, ReaderInv, [Next]_vars
  PROVE  ReaderInv'
<1>1. CASE decompressor
  BY <1>1, PublishKeeps, FinishKeeps, ExitKeeps DEF decompressor
<1>2. CASE replayer
  BY <1>2, WakeKeeps, FillingKeeps, StepKeeps, HeaderKeeps, OpenKeeps, BodyKeeps, PacketDoneKeeps,
     DestroyKeeps DEF replayer
<1>3. CASE request_stop
  BY <1>3, StopKeeps
<1>4. CASE UNCHANGED vars
  BY <1>4, PositionsRest DEF vars
<1>5. CASE Wait
  BY <1>4, <1>5 DEF Wait
<1> QED BY <1>1, <1>2, <1>3, <1>4, <1>5 DEF Next

\* Whatever the sizes of chunks, packets and readahead and however the two threads
\* interleave, check_space lets the replay thread read only what decompress_chunk has
\* published, and the positions stay in the file.  Assumed: no packet is stepped over
\* unread (an isolated print does that in complete_packet).
THEOREM PositionsAreSound ==
  ASSUME ~Isolated
  PROVE  Spec => []PositionsSound
<1>1. Init => ReaderInv
  BY InitReader
<1>2. ReaderInv /\ [Next]_vars => ReaderInv'
  BY NextReader
<1>3. ReaderInv => PositionsSound
  BY DEF ReaderInv, PositionsSound
<1> QED BY <1>1, <1>2, <1>3, PTL DEF Spec

\* For every page size and readahead, release_checkpoint gives back no page at or behind
\* the packet that is read, and the decompressor is never more than a chunk beyond the
\* readahead or beyond what a blocked replay thread needs.
THEOREM WindowIsSound ==
  ASSUME ~Isolated
  PROVE  Spec => []WindowSound
<1>1. Init => ReaderInv
  BY InitReader
<1>2. ReaderInv /\ [Next]_vars => ReaderInv'
  BY NextReader
<1>3. ReaderInv => WindowSound
  BY DEF ReaderInv, WindowSound
<1> QED BY <1>1, <1>2, <1>3, PTL DEF Spec
=============================================================================
