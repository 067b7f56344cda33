--------------------------- MODULE FileWriterProofs ---------------------------
(***************************************************************************)
(* The stream writer, for any chunk size, any values and any number of     *)
(* them: chunks are where the threads believe them to be, and the file is  *)
(* a ChunkStream.                                                          *)
(*                                                                         *)
(* The argument.  Chunk numbers grow along the pipeline, from the chunk    *)
(* that is in the file to the one that is being filled: in the list of     *)
(* sizes, in the compressor's hand, in uncompressed_chunks, in             *)
(* held_chunks.  The list of sizes is the file, the serializer's chunk,    *)
(* compressed_chunks and the chunk the compressor delivers, one after the  *)
(* other.  A thread exits when its list is empty and nobody can add to it. *)
(***************************************************************************)
EXTENDS FileWriter, SequenceTheorems, TLAPS

In(c, s) == \E i \in 1 .. Len(s) : s[i] = c
Increasing(s) == \A i, j \in 1 .. Len(s) : i < j => s[i] < s[j]
Before(s, r) == \A i \in 1 .. Len(s), j \in 1 .. Len(r) : s[i] < r[j]
Above(c, s) == \A i \in 1 .. Len(s) : s[i] < c
Below(c, s) == \A i \in 1 .. Len(s) : c < s[i]

Closing == {"feed", "join_compressor", "join_serializer", "closed"}

\* What the traced thread has under its hands at each place of its code.
TracedStages ==
  /\ job # <<>> => packet_open
  /\ holding => packet_open
  /\ held # <<>> => holding
  /\ pointers # {} => holding
  /\ direct # None <=> wpc = "handover"
  /\ wpc = "handover" => ~multithreaded_compress
  /\ wpc \in Closing => ~packet_open

\* When the threads are told to stop, and what they have when they do.
WorkerStages ==
  /\ done_feeding <=> wpc \in Closing \ {"feed"}
  /\ done_compressing <=> wpc \in {"join_serializer", "closed"}
  /\ chand # None <=> cpc \in {"compress", "deliver"}
  /\ shand # None <=> spc = "write"
  /\ cpc = "exited" => done_feeding /\ uncompressed = <<>>
  /\ done_compressing => cpc = "exited"
  /\ spc = "exited" => done_compressing /\ compressed = <<>>
  /\ wpc = "closed" => spc = "exited"

Writing    == IF spc = "write" THEN 1 ELSE 0
Delivering == IF cpc = "deliver" THEN 1 ELSE 0

\* uncompressed_sizes is the file and the chunks on the way to it.
SizesInOrder ==
  /\ Len(sizes) = Len(file) + Writing + Len(compressed) + Delivering
  /\ \A i \in 1 .. Len(file) : sizes[i] = file[i]
  /\ spc = "write" => sizes[Len(file) + 1] = shand
  /\ \A i \in 1 .. Len(compressed) : sizes[Len(file) + Writing + i] = compressed[i]
  /\ cpc = "deliver" => sizes[Len(sizes)] = chand
  /\ ~multithreaded_write => compressed = <<>> /\ spc # "write"

\* Chunk numbers grow from the file to the traced thread.
ChunksInOrder ==
  /\ Increasing(sizes) /\ Increasing(uncompressed) /\ Increasing(held)
  /\ Before(sizes, uncompressed) /\ Before(sizes, held) /\ Before(uncompressed, held)
  /\ cpc = "compress" => Above(chand, sizes) /\ Below(chand, uncompressed) /\ Below(chand, held)

\* No chunk that holds data is lost, and no empty one is stored.
ChunksKept ==
  /\ \A c \in NonEmpty : \/ In(c, sizes) \/ (cpc = "compress" /\ c = chand)
                         \/ In(c, uncompressed) \/ In(c, held)
  /\ \A i \in 1 .. Len(sizes) : sizes[i] \in NonEmpty
  /\ cpc = "compress" => chand \in NonEmpty

WriterInv ==
  /\ TypeOK /\ PointersLive /\ TracedStages /\ WorkerStages
  /\ multithreaded_compress => SizesInOrder /\ ChunksInOrder /\ ChunksKept

(***************************************************************************)
(* What appending, taking the head and splicing do to growing sequences.   *)
(***************************************************************************)
LEMMA AppendOrder ==
  ASSUME NEW s \in Seq(Int), NEW c \in Int
  PROVE  /\ Append(s, c) # <<>>
         /\ Increasing(s) /\ Above(c, s) => Increasing(Append(s, c))
         /\ \A r \in Seq(Int) : Before(s, r) /\ Below(c, r) => Before(Append(s, c), r)
         /\ \A r \in Seq(Int) : Before(r, s) /\ Above(c, r) => Before(r, Append(s, c))
         /\ \A d \in Int : Below(d, s) /\ d < c => Below(d, Append(s, c))
         /\ \A d : In(d, Append(s, c)) <=> In(d, s) \/ d = c
<1> DEFINE t == Append(s, c)
<1>1. /\ t \in Seq(Int) /\ Len(t) = Len(s) + 1 /\ Len(s) \in Nat /\ t # <<>>
      /\ \A i \in 1 .. Len(s) : t[i] = s[i] /\ s[i] \in Int
      /\ t[Len(s) + 1] = c
  BY AppendProperties, ElementOfSeq
<1> HIDE DEF t
<1>2. \A i \in 1 .. Len(t) : i \in 1 .. Len(s) \/ i = Len(s) + 1
  BY <1>1
<1>3. Increasing(s) /\ Above(c, s) => Increasing(t)
  <2> SUFFICES ASSUME Increasing(s), Above(c, s), NEW i \in 1 .. Len(t), NEW j \in 1 .. Len(t), i < j
               PROVE  t[i] < t[j]
    BY DEF Increasing
  <2>1. i \in 1 .. Len(s) /\ t[i] = s[i]
    BY <1>1
  <2>2. CASE j \in 1 .. Len(s)
    BY <1>1, <2>1, <2>2 DEF Increasing
  <2>3. CASE j = Len(s) + 1
    BY <1>1, <2>1, <2>3 DEF Above
  <2> QED
    BY <1>2, <2>2, <2>3
<1>4. \A r \in Seq(Int) : Before(s, r) /\ Below(c, r) => Before(t, r)
  BY <1>1, <1>2 DEF Before, Below
<1>5. \A r \in Seq(Int) : Before(r, s) /\ Above(c, r) => Before(r, t)
  BY <1>1, <1>2 DEF Before, Above
<1>6. \A d \in Int : Below(d, s) /\ d < c => Below(d, t)
  BY <1>1, <1>2 DEF Below
<1>7. \A d : In(d, t) <=> In(d, s) \/ d = c
  BY <1>1, <1>2, SMTT(30) DEF In
<1> QED
  BY <1>1, <1>3, <1>4, <1>5, <1>6, <1>7 DEF t

LEMMA TailOrder ==
  ASSUME NEW s \in Seq(Int), s # <<>>
  PROVE  /\ Increasing(s) => Increasing(Tail(s)) /\ Below(Head(s), Tail(s))
         /\ \A r \in Seq(Int) : Before(s, r) => Before(Tail(s), r) /\ Below(Head(s), r)
         /\ \A r \in Seq(Int) : Before(r, s) => Before(r, Tail(s)) /\ Above(Head(s), r)
         /\ \A d : In(d, s) <=> In(d, Tail(s)) \/ d = Head(s)
<1> DEFINE t == Tail(s)
           c == Head(s)
<1>1. /\ t \in Seq(Int) /\ Len(t) = Len(s) - 1 /\ Len(s) \in Nat \ {0} /\ c \in Int /\ c = s[1]
      /\ \A i \in 1 .. Len(t) : t[i] = s[i + 1]
      /\ \A i \in 1 .. Len(s) : s[i] \in Int
  BY HeadTailProperties, ElementOfSeq, EmptySeq
<1> HIDE DEF t, c
<1>2. \A i \in 1 .. Len(t) : i + 1 \in 1 .. Len(s) /\ 1 < i + 1
  BY <1>1
<1>3. 1 \in 1 .. Len(s) /\ \A i \in 1 .. Len(s) : i # 1 => i - 1 \in 1 .. Len(t) /\ t[i - 1] = s[i]
  BY <1>1
<1>4. Increasing(s) => Increasing(t) /\ Below(c, t)
  BY <1>1, <1>2, <1>3 DEF Increasing, Below
<1>5. \A r \in Seq(Int) : Before(s, r) => Before(t, r) /\ Below(c, r)
  BY <1>1, <1>2, <1>3 DEF Before, Below
<1>6. \A r \in Seq(Int) : Before(r, s) => Before(r, t) /\ Above(c, r)
  BY <1>1, <1>2, <1>3 DEF Before, Above
<1>7. \A d : In(d, s) <=> In(d, t) \/ d = c
  BY <1>1, <1>2, <1>3 DEF In
<1> QED
  BY <1>4, <1>5, <1>6, <1>7 DEF t, c

LEMMA SpliceOrder ==
  ASSUME NEW s \in Seq(Int), NEW r \in Seq(Int)
  PROVE  /\ Increasing(s) /\ Increasing(r) /\ Before(s, r) => Increasing(s \o r)
         /\ \A q \in Seq(Int) : Before(q, s) /\ Before(q, r) => Before(q, s \o r)
         /\ \A d \in Int : Below(d, s) /\ Below(d, r) => Below(d, s \o r)
         /\ \A d : In(d, s \o r) <=> In(d, s) \/ In(d, r)
<1> DEFINE t == s \o r
<1>1. /\ t \in Seq(Int) /\ Len(t) = Len(s) + Len(r) /\ Len(s) \in Nat /\ Len(r) \in Nat
      /\ \A i \in 1 .. Len(t) : t[i] = IF i <= Len(s) THEN s[i] ELSE r[i - Len(s)]
      /\ \A i \in 1 .. Len(s) : s[i] \in Int
      /\ \A i \in 1 .. Len(r) : r[i] \in Int
  BY ConcatProperties, ElementOfSeq, LenProperties
<1> HIDE DEF t
<1>2. \A i \in 1 .. Len(t) : \/ i \in 1 .. Len(s) /\ t[i] = s[i]
                             \/ i - Len(s) \in 1 .. Len(r) /\ t[i] = r[i - Len(s)]
  BY <1>1
<1>3. /\ \A i \in 1 .. Len(s) : i \in 1 .. Len(t) /\ t[i] = s[i]
      /\ \A i \in 1 .. Len(r) : Len(s) + i \in 1 .. Len(t) /\ t[Len(s) + i] = r[i]
  <2>1. \A i \in 1 .. Len(s) : i \in 1 .. Len(t) /\ t[i] = s[i]
    BY <1>1
  <2>2. ASSUME NEW i \in 1 .. Len(r) PROVE Len(s) + i \in 1 .. Len(t) /\ t[Len(s) + i] = r[i]
    <3>1. Len(s) + i \in 1 .. Len(t) /\ ~(Len(s) + i <= Len(s)) /\ (Len(s) + i) - Len(s) = i
      BY <1>1
    <3> QED
      BY <1>1, <3>1
  <2> QED
    BY <2>1, <2>2
<1>4. Increasing(s) /\ Increasing(r) /\ Before(s, r) => Increasing(t)
  <2> SUFFICES ASSUME Increasing(s), Increasing(r), Before(s, r),
                      NEW i \in 1 .. Len(t), NEW j \in 1 .. Len(t), i < j
               PROVE  t[i] < t[j]
    BY DEF Increasing
  <2>1. CASE j \in 1 .. Len(s)
    <3>1. i \in 1 .. Len(s) /\ t[i] = s[i] /\ t[j] = s[j]
      BY <1>1, <2>1
    <3> QED
      BY <3>1, <2>1 DEF Increasing
  <2>2. CASE j \notin 1 .. Len(s) /\ i \in 1 .. Len(s)
    <3>1. t[i] = s[i] /\ j - Len(s) \in 1 .. Len(r) /\ t[j] = r[j - Len(s)]
      BY <1>1, <1>2, <2>2
    <3> QED
      BY <3>1, <2>2 DEF Before
  <2>3. CASE i \notin 1 .. Len(s)
    <3>1. /\ i - Len(s) \in 1 .. Len(r) /\ t[i] = r[i - Len(s)] /\ j \notin 1 .. Len(s)
      BY <1>1, <1>2, <2>3
    <3>2. j - Len(s) \in 1 .. Len(r) /\ t[j] = r[j - Len(s)] /\ i - Len(s) < j - Len(s)
      BY <1>1, <1>2, <3>1
    <3> QED
      BY <3>1, <3>2 DEF Increasing
  <2> QED
    BY <2>1, <2>2, <2>3
<1>5. \A q \in Seq(Int) : Before(q, s) /\ Before(q, r) => Before(q, t)
  BY <1>1, <1>2 DEF Before
<1>6. \A d \in Int : Below(d, s) /\ Below(d, r) => Below(d, t)
  BY <1>1, <1>2 DEF Below
<1>7. \A d : In(d, t) <=> In(d, s) \/ In(d, r)
  BY <1>1, <1>2, <1>3 DEF In
<1> QED
  BY <1>4, <1>5, <1>6, <1>7 DEF t

\* pop_back takes the oldest chunk of a list.
LEMMA OldestTaken ==
  ASSUME NEW S, NEW s \in Seq(S), s # <<>>
  PROVE  /\ RemoveAt(s, Oldest) \in Seq(S) /\ s[Oldest] \in S
         /\ Len(s) \in Nat \ {0} /\ Len(RemoveAt(s, Oldest)) = Len(s) - 1
         /\ \A i \in 1 .. Len(s) - 1 : RemoveAt(s, Oldest)[i] = s[i + 1]
<1>1. Len(s) \in Nat \ {0} /\ \A i \in 1 .. Len(s) : s[i] \in S
  BY EmptySeq, ElementOfSeq
<1>2. SubSeq(s, 1, 0) = <<>>
  BY SubSeqEmpty
<1>3. /\ SubSeq(s, 2, Len(s)) \in Seq(S) /\ Len(SubSeq(s, 2, Len(s))) = Len(s) - 1
      /\ \A i \in 1 .. Len(s) - 1 : SubSeq(s, 2, Len(s))[i] = s[i + 1]
  <2>1. \A i \in 2 .. Len(s) : s[i] \in S
    BY <1>1
  <2>2. 2 \in Int /\ Len(s) \in Int
    BY <1>1
  <2>3. /\ SubSeq(s, 2, Len(s)) \in Seq(S)
        /\ Len(SubSeq(s, 2, Len(s))) = IF 2 <= Len(s) THEN Len(s) - 2 + 1 ELSE 0
        /\ \A i \in 1 .. Len(s) - 2 + 1 : SubSeq(s, 2, Len(s))[i] = s[2 + i - 1]
    BY <2>1, <2>2, SubSeqProperties
  <2>4. PICK t : t = SubSeq(s, 2, Len(s))
    OBVIOUS
  <2>5. Len(t) = Len(s) - 1 /\ t \in Seq(S)
    <3>1. t \in Seq(S) /\ Len(t) = IF 2 <= Len(s) THEN Len(s) - 2 + 1 ELSE 0
      BY <2>3, <2>4, Zenon
    <3>2. PICK n \in Nat \ {0} : n = Len(s)
      BY <1>1
    <3>3. (IF 2 <= n THEN n - 2 + 1 ELSE 0) = n - 1
      BY <3>2
    <3> QED
      BY <3>1, <3>2, <3>3, Zenon
  <2>6. ASSUME NEW i \in 1 .. Len(s) - 1 PROVE t[i] = s[i + 1]
    <3>1. i \in 1 .. Len(s) - 2 + 1 /\ 2 + i - 1 = i + 1
      BY <1>1
    <3>2. t[i] = s[2 + i - 1]
      BY <2>3, <2>4, <3>1
    <3> QED
      BY <3>1, <3>2
  <2> QED
    BY <2>4, <2>5, <2>6
<1>4. RemoveAt(s, Oldest) = SubSeq(s, 2, Len(s))
  <2>1. RemoveAt(s, Oldest) = <<>> \o SubSeq(s, 2, Len(s))
    BY <1>2 DEF RemoveAt, Oldest
  <2> QED
    BY <1>3, <2>1, ConcatEmptySeq
<1>5. s[Oldest] \in S
  BY <1>1 DEF Oldest
<1> QED
  BY <1>1, <1>3, <1>4, <1>5

LEMMA LargerOf ==
  ASSUME NEW a \in Nat, NEW b \in Nat
  PROVE  Max({a, b}) \in Nat
<1>1. \E x \in {a, b} : \A y \in {a, b} : x >= y
  BY SMT
<1>2. Max({a, b}) \in {a, b}
  BY <1>1 DEF Max
<1> QED
  BY <1>2

(***************************************************************************)
(* Types.                                                                  *)
(***************************************************************************)
LEMMA SeqTypes ==
  ASSUME TypeOK
  PROVE  /\ Len(chunks) \in Nat /\ Current \in Nat /\ Current = Len(chunks) + 1
         /\ ChunkNumbers = 1 .. Len(chunks) /\ ChunkNumbers \subseteq Int /\ None \notin ChunkNumbers
         /\ \A s \in Seq(ChunkNumbers) :
              /\ s \in Seq(Int) /\ Len(s) \in Nat
              /\ \A i \in 1 .. Len(s) : s[i] \in ChunkNumbers
              /\ Above(Current, s)
<1>1. Len(chunks) \in Nat /\ Current = Len(chunks) + 1
  BY LenProperties DEF TypeOK, Current
<1>2. /\ ChunkNumbers = 1 .. Len(chunks) /\ ChunkNumbers \subseteq Int /\ None \notin ChunkNumbers
      /\ \A c \in ChunkNumbers : c < Current
  BY <1>1 DEF ChunkNumbers, None
<1>3. ASSUME NEW s \in Seq(ChunkNumbers)
      PROVE  /\ s \in Seq(Int) /\ Len(s) \in Nat
             /\ \A i \in 1 .. Len(s) : s[i] \in ChunkNumbers
  BY <1>2, <1>3, SeqMonotonic, ElementOfSeq, LenProperties
<1>4. \A s \in Seq(ChunkNumbers) : Above(Current, s)
  BY <1>2, <1>3 DEF Above
<1> QED
  BY <1>1, <1>2, <1>3, <1>4

LEMMA NewChunk ==
  ASSUME TypeOK, chunks' = Append(chunks, uidx)
  PROVE  /\ chunks' \in Seq(Nat) /\ Len(chunks') = Current /\ Current' = Current + 1
         /\ Current \in ChunkNumbers' /\ Current \notin ChunkNumbers
         /\ \A c \in ChunkNumbers : c \in ChunkNumbers' /\ chunks'[c] = chunks[c]
         /\ \A c \in ChunkNumbers' : c \in ChunkNumbers \/ c = Current
         /\ \A s \in Seq(ChunkNumbers) :
              s \in Seq(ChunkNumbers') /\ Append(s, Current) \in Seq(ChunkNumbers')
<1>1. chunks \in Seq(Nat) /\ uidx \in Nat /\ Len(chunks) \in Nat
  BY SeqTypes DEF TypeOK
<1>2. /\ chunks' \in Seq(Nat) /\ Len(chunks') = Len(chunks) + 1
      /\ \A c \in 1 .. Len(chunks) : chunks'[c] = chunks[c]
  BY <1>1, AppendProperties
<1>3. /\ Len(chunks') = Current /\ Current' = Current + 1
      /\ ChunkNumbers = 1 .. Len(chunks) /\ ChunkNumbers' = 1 .. Len(chunks) + 1
  BY <1>1, <1>2 DEF Current, ChunkNumbers
<1>4. /\ Current \in ChunkNumbers' /\ Current \notin ChunkNumbers /\ ChunkNumbers \subseteq ChunkNumbers'
      /\ \A c \in ChunkNumbers' : c \in ChunkNumbers \/ c = Current
  BY <1>1, <1>3 DEF Current
<1>5. ASSUME NEW s \in Seq(ChunkNumbers)
      PROVE  s \in Seq(ChunkNumbers') /\ Append(s, Current) \in Seq(ChunkNumbers')
  BY <1>4, <1>5, SeqMonotonic, AppendProperties
<1> QED
  BY <1>2, <1>3, <1>4, <1>5

\* make_space, by what becomes of the chunk.
LEMMA MakeSpaceCases ==
  ASSUME make_space
  PROVE  /\ chunks' = Append(chunks, uidx) /\ wpc = "run" /\ uidx' = 0
         /\ \/ holding /\ held' = Append(held, Current) /\ UNCHANGED <<wpc, uncompressed, direct, sizes>>
            \/ /\ ~holding /\ multithreaded_compress /\ uncompressed' = Append(uncompressed, Current)
               /\ UNCHANGED <<wpc, held, direct, sizes>>
            \/ /\ ~holding /\ ~multithreaded_compress /\ wpc' = "handover" /\ direct' = Current
               /\ sizes' = Append(sizes, Current) /\ UNCHANGED <<held, uncompressed>>
         /\ UNCHANGED <<options, appVars, holding, compressed, threadVars, doneVars, file, observer>>
BY DEF make_space, MayLeave

\* What is typed apart from the lists of chunks.
FlagTypes ==
  /\ multithreaded_compress \in BOOLEAN /\ multithreaded_write \in BOOLEAN
  /\ packet_open \in BOOLEAN /\ holding \in BOOLEAN
  /\ done_feeding \in BOOLEAN /\ done_compressing \in BOOLEAN

PlainTypes ==
  /\ wpc \in {"run", "handover", "feed", "join_compressor", "join_serializer", "closed"}
  /\ writes \in 0 .. MaxWrites
  /\ capacity \in Nat /\ uidx \in Nat
  /\ cpc \in {"take", "compress", "deliver", "exited"}
  /\ spc \in {"take", "write", "exited"}
  /\ observer \in {"away", "reading", "failed"}

Fits == wpc \in {"run", "handover"} => uidx <= capacity

JobTypes == job \in Seq([size : Sizes \cup {1}, later : BOOLEAN])

ListTypes ==
  /\ chunks \in Seq(Nat) /\ pointers \subseteq 1 .. Current
  /\ held \in Seq(ChunkNumbers) /\ uncompressed \in Seq(ChunkNumbers)
  /\ compressed \in Seq(ChunkNumbers)
  /\ direct \in ChunkNumbers \cup {None} /\ chand \in ChunkNumbers \cup {None} /\ shand \in ChunkNumbers \cup {None}
  /\ sizes \in Seq(ChunkNumbers) /\ file \in Seq(ChunkNumbers)

LEMMA TypeParts == TypeOK <=> FlagTypes /\ PlainTypes /\ Fits /\ JobTypes /\ ListTypes
BY DEF TypeOK, FlagTypes, Fits, PlainTypes, JobTypes, ListTypes

\* The first value of a job has a size.
LEMMA JobHead ==
  ASSUME TypeOK, job # <<>>
  PROVE  Head(job).size \in Nat /\ Head(job).later \in BOOLEAN /\ Tail(job) \in Seq([size : Sizes \cup {1}, later : BOOLEAN])
<1>1. Head(job) \in [size : Sizes \cup {1}, later : BOOLEAN] /\ Tail(job) \in Seq([size : Sizes \cup {1}, later : BOOLEAN])
  BY HeadTailProperties DEF TypeOK
<1>2. Head(job).size \in Sizes \cup {1} /\ Head(job).later \in BOOLEAN
  BY <1>1
<1>3. PICK n \in Sizes \cup {1} : n = Head(job).size
  BY <1>2
<1>4. n \in Nat
  BY SizesAssumption
<1> QED
  BY <1>1, <1>2, <1>3, <1>4, Zenon

LEMMA KeepsPlainTypes == TypeOK /\ [Next]_vars => PlainTypes'
<1> SUFFICES ASSUME TypeOK, PlainTypes, [Next]_vars PROVE PlainTypes'
  BY TypeParts
<1> USE DEF PlainTypes
<1>1. CASE begin_packet \/ WriteCall
  <2>1. writes' = writes + 1 /\ writes < MaxWrites /\ UNCHANGED <<wpc, capacity, uidx, cpc, spc, observer>>
    BY <1>1 DEF begin_packet, WriteCall, chunkVars, threadVars
  <2> QED
    BY <2>1, MaxWritesAssumption
<1>2. CASE make_space
  <2>1. Head(job).size \in Nat
    BY <1>2, JobHead DEF make_space, NeedsSpace
  <2>2. capacity' \in Nat
    BY <1>2, <2>1, LargerOf, ChunkSizeAssumption DEF make_space
  <2>3. wpc' \in {"run", "handover"} /\ uidx' = 0
    BY <1>2, MakeSpaceCases
  <2>4. UNCHANGED <<writes, cpc, spc, observer>>
    BY <1>2 DEF make_space, appVars, threadVars
  <2> QED
    BY <2>2, <2>3, <2>4
<1>3. CASE HandOver
  BY <1>3 DEF HandOver, appVars, chunkVars, threadVars
<1>4. CASE write_value
  <2>1. Head(job).size \in Nat
    BY <1>4, JobHead DEF write_value
  <2> QED
    BY <1>4, <2>1 DEF write_value, threadVars
<1>5. CASE end_packet
  BY <1>5 DEF end_packet, chunkVars, threadVars
<1>6. CASE SendLast
  BY <1>6, ChunkSizeAssumption DEF SendLast, appVars, threadVars
<1>7. CASE DoneFeeding \/ JoinCompressor \/ JoinSerializer
  BY <1>7 DEF DoneFeeding, JoinCompressor, JoinSerializer, appVars, chunkVars, threadVars
<1>8. CASE compressor
  <2>1. cpc' \in {"take", "compress", "deliver", "exited"} /\ spc' = spc /\ UNCHANGED writerVars
    BY <1>8 DEF compressor, TakeUncompressed, CompressorExits, compress_chunk, DeliverCompressed
  <2> QED
    BY <2>1 DEF writerVars
<1>9. CASE serializer
  <2>1. spc' \in {"take", "write", "exited"} /\ cpc' = cpc /\ UNCHANGED writerVars
    BY <1>9 DEF serializer, TakeCompressed, SerializerExits, write_chunk
  <2> QED
    BY <2>1 DEF writerVars
<1>10. CASE self_test
  BY <1>10 DEF self_test, ReadHolding, ReadHeld, appVars, chunkVars, threadVars
<1>11. CASE UNCHANGED vars
  BY <1>11 DEF vars, appVars, chunkVars, threadVars
<1> QED
  BY <1>1, <1>2, <1>3, <1>4, <1>5, <1>6, <1>7, <1>8, <1>9, <1>10, <1>11
     DEF Next, TracedThread, Finalize, Poll, Closed

\* A value is written where there is room for it.
LEMMA KeepsFits == TypeOK /\ [Next]_vars => Fits'
<1> SUFFICES ASSUME TypeOK, PlainTypes, Fits, [Next]_vars PROVE Fits'
  BY TypeParts
<1>1. CASE make_space
  <2>1. PlainTypes' /\ uidx' = 0
    BY <1>1, KeepsPlainTypes, MakeSpaceCases
  <2>2. uidx' <= capacity'
    BY <2>1 DEF PlainTypes
  <2> QED
    BY <2>2 DEF Fits
<1>2. CASE write_value
  <2>1. PICK n \in Nat : n = Head(job).size
    BY <1>2, JobHead DEF write_value
  <2>2. ~(n > capacity - uidx) /\ uidx' = uidx + n /\ capacity' = capacity
    BY <1>2, <2>1 DEF write_value, NeedsSpace
  <2>3. uidx \in Nat /\ capacity \in Nat
    BY DEF PlainTypes
  <2>4. uidx' <= capacity'
    BY <2>2, <2>3
  <2> QED
    BY <2>4 DEF Fits
<1>3. CASE HandOver
  BY <1>3 DEF HandOver, chunkVars, Fits
<1>4. CASE SendLast \/ DoneFeeding \/ JoinCompressor \/ JoinSerializer
  BY <1>4 DEF SendLast, DoneFeeding, JoinCompressor, JoinSerializer, Fits
<1>5. CASE UNCHANGED <<wpc, uidx, capacity>>
  BY <1>5 DEF Fits
<1> QED
  BY <1>1, <1>2, <1>3, <1>4, <1>5
     DEF Next, begin_packet, WriteCall, TracedThread, end_packet, Finalize,
         compressor, TakeUncompressed, CompressorExits, compress_chunk, DeliverCompressed,
         serializer, TakeCompressed, SerializerExits, write_chunk, Poll, self_test, ReadHolding, ReadHeld, Closed,
         vars, chunkVars, writerVars

LEMMA KeepsFlagTypes == TypeOK /\ [Next]_vars => FlagTypes'
<1> SUFFICES ASSUME TypeOK, FlagTypes, [Next]_vars PROVE FlagTypes'
  BY TypeParts
<1>0. multithreaded_compress' = multithreaded_compress /\ multithreaded_write' = multithreaded_write
  BY DEF Next, begin_packet, WriteCall, TracedThread, make_space, HandOver, write_value, end_packet,
         Finalize, SendLast, DoneFeeding, JoinCompressor, JoinSerializer, compressor, TakeUncompressed,
         CompressorExits, compress_chunk, DeliverCompressed, serializer, TakeCompressed, SerializerExits,
         write_chunk, Poll, self_test, ReadHolding, ReadHeld, Closed, vars, writerVars, options
<1>1. packet_open' \in BOOLEAN
  BY DEF FlagTypes, Next, begin_packet, WriteCall, TracedThread, make_space, HandOver, write_value, end_packet,
         Finalize, SendLast, DoneFeeding, JoinCompressor, JoinSerializer, compressor, TakeUncompressed,
         CompressorExits, compress_chunk, DeliverCompressed, serializer, TakeCompressed, SerializerExits,
         write_chunk, Poll, self_test, ReadHolding, ReadHeld, Closed, vars, writerVars, appVars
<1>2. holding' \in BOOLEAN
  <2>1. CASE write_value
    BY <2>1, JobHead DEF write_value
  <2>2. CASE ~write_value
    BY <2>2 DEF FlagTypes, Next, begin_packet, WriteCall, TracedThread, make_space, HandOver, end_packet,
           Finalize, SendLast, DoneFeeding, JoinCompressor, JoinSerializer, compressor, TakeUncompressed,
           CompressorExits, compress_chunk, DeliverCompressed, serializer, TakeCompressed, SerializerExits,
           write_chunk, Poll, self_test, ReadHolding, ReadHeld, Closed, vars, writerVars
  <2> QED
    BY <2>1, <2>2
<1>3. done_feeding' \in BOOLEAN /\ done_compressing' \in BOOLEAN
  BY DEF FlagTypes, Next, begin_packet, WriteCall, TracedThread, make_space, HandOver, write_value, end_packet,
         Finalize, SendLast, DoneFeeding, JoinCompressor, JoinSerializer, compressor, TakeUncompressed,
         CompressorExits, compress_chunk, DeliverCompressed, serializer, TakeCompressed, SerializerExits,
         write_chunk, Poll, self_test, ReadHolding, ReadHeld, Closed, vars, writerVars, doneVars
<1> QED
  BY <1>0, <1>1, <1>2, <1>3 DEF FlagTypes

LEMMA KeepsJobTypes == TypeOK /\ [Next]_vars => JobTypes'
<1> SUFFICES ASSUME TypeOK, JobTypes, [Next]_vars PROVE JobTypes'
  BY TypeParts
<1>1. CASE begin_packet
  <2> DEFINE V == [size : Sizes \cup {1}, later : BOOLEAN]
  <2>1. [size |-> 1, later |-> FALSE] \in V /\ [size |-> 1, later |-> TRUE] \in V
    OBVIOUS
  <2> HIDE DEF V
  <2>2. <<[size |-> 1, later |-> FALSE], [size |-> 1, later |-> TRUE]>> \in Seq(V)
    BY <2>1
  <2> QED
    BY <1>1, <2>2 DEF begin_packet, JobTypes, V
<1>2. CASE WriteCall
  <2>1. PICK n \in Sizes, b \in BOOLEAN : job' = <<[size |-> n, later |-> b]>>
    BY <1>2 DEF WriteCall
  <2>2. [size |-> n, later |-> b] \in [size : Sizes \cup {1}, later : BOOLEAN]
    OBVIOUS
  <2> QED
    BY <2>1, <2>2 DEF JobTypes
<1>3. CASE write_value
  BY <1>3, JobHead DEF write_value, JobTypes
<1>4. CASE job' = job
  BY <1>4 DEF JobTypes
<1> QED
  BY <1>1, <1>2, <1>3, <1>4
     DEF Next, TracedThread, make_space, HandOver, end_packet, Finalize, SendLast, DoneFeeding, JoinCompressor,
         JoinSerializer, compressor, TakeUncompressed, CompressorExits, compress_chunk, DeliverCompressed,
         serializer, TakeCompressed, SerializerExits, write_chunk, Poll, self_test, ReadHolding, ReadHeld, Closed,
         vars, appVars, writerVars

\* The lists of chunks while no chunk is finished.
LEMMA SameChunks ==
  ASSUME chunks' = chunks
  PROVE  ChunkNumbers' = ChunkNumbers /\ Current' = Current /\ NonEmpty' = NonEmpty
BY DEF ChunkNumbers, Current, NonEmpty

\* Chunks in hand are chunk numbers where the code takes them to be.
Handled ==
  /\ wpc = "handover" => direct \in ChunkNumbers
  /\ cpc \in {"compress", "deliver"} => chand \in ChunkNumbers
  /\ spc = "write" => shand \in ChunkNumbers

LEMMA HandledChunks == TypeOK /\ TracedStages /\ WorkerStages => Handled
BY TypeParts DEF ListTypes, TracedStages, WorkerStages, Handled

LEMMA DeliverTypes ==
  ASSUME ListTypes, NEW c \in ChunkNumbers', Deliver(c), ChunkNumbers \subseteq ChunkNumbers'
  PROVE  compressed' \in Seq(ChunkNumbers') /\ file' \in Seq(ChunkNumbers')
<1>1. compressed \in Seq(ChunkNumbers') /\ file \in Seq(ChunkNumbers')
  BY SeqMonotonic DEF ListTypes
<1>2. Append(compressed, c) \in Seq(ChunkNumbers') /\ Append(file, c) \in Seq(ChunkNumbers')
  BY <1>1, AppendProperties
<1> QED
  BY <1>1, <1>2 DEF Deliver

LEMMA KeepsListTypes == TypeOK /\ Handled /\ [Next]_vars => ListTypes'
<1> SUFFICES ASSUME TypeOK, ListTypes, Handled, [Next]_vars PROVE ListTypes'
  BY TypeParts
<1> DEFINE N == ChunkNumbers
<1>0. Len(chunks) \in Nat /\ Current \in Nat /\ None \notin N /\ ChunkNumbers = 1 .. Len(chunks) /\ Current = Len(chunks) + 1
  BY SeqTypes
<1>1. CASE make_space
  <2>1. /\ chunks' \in Seq(Nat) /\ Len(chunks') = Current /\ Current' = Current + 1
        /\ Current \in ChunkNumbers' /\ \A c \in N : c \in ChunkNumbers'
        /\ \A s \in Seq(N) : s \in Seq(ChunkNumbers') /\ Append(s, Current) \in Seq(ChunkNumbers')
    BY <1>1, NewChunk, MakeSpaceCases
  <2>2. /\ UNCHANGED <<pointers, compressed, chand, shand, file>>
        /\ held' \in Seq(ChunkNumbers') /\ uncompressed' \in Seq(ChunkNumbers')
        /\ sizes' \in Seq(ChunkNumbers') /\ direct' \in ChunkNumbers' \cup {None}
    BY <1>1, <2>1, MakeSpaceCases DEF appVars, threadVars, ListTypes
  <2>3. pointers' \subseteq 1 .. Current'
    BY <1>0, <2>1, <2>2 DEF ListTypes
  <2> QED
    BY <2>1, <2>2, <2>3 DEF ListTypes
<1>2. CASE SendLast
  <2>1. /\ chunks' \in Seq(Nat) /\ Len(chunks') = Current /\ Current' = Current + 1
        /\ Current \in ChunkNumbers' /\ \A c \in N : c \in ChunkNumbers'
        /\ \A s \in Seq(N) : s \in Seq(ChunkNumbers') /\ Append(s, Current) \in Seq(ChunkNumbers')
    BY <1>2, NewChunk DEF SendLast
  <2>2. UNCHANGED <<pointers, held, direct, chand, shand>>
    BY <1>2 DEF SendLast, appVars, threadVars
  <2>3. /\ compressed' \in Seq(ChunkNumbers') /\ uncompressed' \in Seq(ChunkNumbers')
        /\ sizes' \in Seq(ChunkNumbers') /\ file' \in Seq(ChunkNumbers')
    <3>1. CASE multithreaded_compress
      BY <1>2, <2>1, <3>1 DEF SendLast, ListTypes, outVars
    <3>2. CASE ~multithreaded_compress
      BY <1>2, <2>1, <3>2, DeliverTypes DEF SendLast, ListTypes
    <3> QED
      BY <3>1, <3>2
  <2>4. pointers' \subseteq 1 .. Current'
    BY <1>0, <2>1, <2>2 DEF ListTypes
  <2> QED
    BY <2>1, <2>2, <2>3, <2>4 DEF ListTypes
<1>3. CASE chunks' = chunks
  <2>0. ChunkNumbers' = ChunkNumbers /\ Current' = Current /\ chunks' \in Seq(Nat)
    BY <1>3, SameChunks DEF ListTypes
  <2>1. CASE HandOver
    <3>1. compressed' \in Seq(N) /\ file' \in Seq(N)
      BY <2>0, <2>1, DeliverTypes DEF HandOver, Handled
    <3> QED
      BY <2>0, <2>1, <3>1 DEF HandOver, appVars, threadVars, ListTypes
  <2>2. CASE write_value
    <3>1. pointers' \subseteq 1 .. Current
      <4>1. Current \in 1 .. Current
        BY <1>0
      <4> QED
        BY <2>2, <4>1 DEF write_value, ListTypes
    <3> QED
      BY <2>0, <2>2, <3>1 DEF write_value, threadVars, outVars, ListTypes
  <2>3. CASE end_packet
    <3>1. Thawed \in Seq(N) /\ <<>> \in Seq(N)
      BY ConcatProperties, EmptySeq DEF Thawed, ListTypes
    <3> QED
      BY <2>0, <2>3, <3>1 DEF end_packet, threadVars, outVars, ListTypes
  <2>4. CASE TakeUncompressed
    <3>1. Tail(uncompressed) \in Seq(N) /\ Head(uncompressed) \in N
      BY <2>4, HeadTailProperties DEF TakeUncompressed, ListTypes
    <3>2. chand' \in N \cup {None} /\ uncompressed' \in Seq(N)
      BY <2>4, <3>1 DEF TakeUncompressed, ListTypes
    <3> QED
      BY <2>0, <2>4, <3>2 DEF TakeUncompressed, writerVars, outVars, ListTypes
  <2>5. CASE compress_chunk
    <3>1. sizes' \in Seq(N)
      BY <2>5, AppendProperties DEF compress_chunk, Handled, ListTypes
    <3> QED
      BY <2>0, <2>5, <3>1 DEF compress_chunk, writerVars, ListTypes
  <2>6. CASE DeliverCompressed
    <3>1. compressed' \in Seq(N) /\ file' \in Seq(N)
      BY <2>0, <2>6, DeliverTypes DEF DeliverCompressed, Handled
    <3> QED
      BY <2>0, <2>6, <3>1 DEF DeliverCompressed, writerVars, ListTypes
  <2>7. CASE TakeCompressed
    <3>1. RemoveAt(compressed, Oldest) \in Seq(N) /\ compressed[Oldest] \in N
      BY <2>7, OldestTaken DEF TakeCompressed, ListTypes
    <3> QED
      BY <2>0, <2>7, <3>1 DEF TakeCompressed, writerVars, outVars, ListTypes
  <2>8. CASE write_chunk
    <3>1. file' \in Seq(N)
      BY <2>8, AppendProperties DEF write_chunk, Handled, ListTypes
    <3> QED
      BY <2>0, <2>8, <3>1 DEF write_chunk, writerVars, ListTypes
  <2>9. CASE UNCHANGED <<pointers, held, uncompressed, compressed, direct, chand, shand, sizes, file>>
    BY <2>0, <2>9 DEF ListTypes
  <2>10. CASE begin_packet \/ WriteCall \/ DoneFeeding \/ JoinCompressor \/ JoinSerializer \/ CompressorExits
              \/ SerializerExits \/ self_test \/ UNCHANGED vars
    BY <2>9, <2>10 DEF begin_packet, WriteCall, DoneFeeding, JoinCompressor, JoinSerializer, CompressorExits,
         SerializerExits, self_test, ReadHolding, ReadHeld, vars, appVars, threadVars, outVars, writerVars
  <2> QED
    BY <1>1, <1>2, <2>1, <2>2, <2>3, <2>4, <2>5, <2>6, <2>7, <2>8, <2>10
       DEF Next, TracedThread, Finalize, compressor, serializer, Poll, Closed
<1> QED
  BY <1>1, <1>2, <1>3
     DEF Next, begin_packet, WriteCall, TracedThread, HandOver, write_value, end_packet,
         Finalize, DoneFeeding, JoinCompressor, JoinSerializer, compressor, TakeUncompressed,
         CompressorExits, compress_chunk, DeliverCompressed, serializer, TakeCompressed, SerializerExits,
         write_chunk, Poll, self_test, ReadHolding, ReadHeld, Closed, vars, writerVars, chunkVars

LEMMA KeepsTypes ==
  ASSUME TypeOK, TracedStages, WorkerStages, [Next]_vars
  PROVE  TypeOK'
<1>1. (FlagTypes /\ PlainTypes /\ Fits /\ JobTypes /\ ListTypes)'
  BY HandledChunks, KeepsFlagTypes, KeepsPlainTypes, KeepsFits, KeepsJobTypes, KeepsListTypes
<1> QED
  BY <1>1 DEF TypeOK, FlagTypes, PlainTypes, Fits, JobTypes, ListTypes

(***************************************************************************)
(* Where the threads stand, and what they have at that place.              *)
(***************************************************************************)
LEMMA KeepsTracedStages ==
  ASSUME TypeOK, TracedStages, [Next]_vars
  PROVE  TracedStages'
<1>0. None \notin ChunkNumbers /\ Current \in Nat /\ Current # None
  BY SeqTypes DEF None, Current
<1>1. CASE begin_packet
  BY <1>1 DEF begin_packet, Ready, options, TracedStages, Closing
<1>2. CASE WriteCall
  BY <1>2 DEF WriteCall, Ready, options, TracedStages, Closing
<1>3. CASE make_space
  <2>1. packet_open /\ wpc = "run" /\ UNCHANGED <<job, packet_open, holding, pointers, multithreaded_compress>>
    BY <1>3 DEF make_space, NeedsSpace, TracedStages, appVars, options
  <2>2. \/ holding /\ UNCHANGED <<wpc, direct>>
        \/ UNCHANGED <<wpc, held, direct>>
        \/ ~multithreaded_compress /\ wpc' = "handover" /\ direct' = Current /\ UNCHANGED held
    BY <1>3, MakeSpaceCases
  <2> QED
    BY <1>0, <2>1, <2>2 DEF TracedStages, Closing
<1>4. CASE HandOver
  BY <1>4 DEF HandOver, appVars, options, TracedStages, Closing
<1>5. CASE write_value
  <2>1. /\ packet_open /\ wpc = "run" /\ UNCHANGED <<packet_open, wpc, held, direct, multithreaded_compress>>
        /\ holding' = (holding \/ Head(job).later)
        /\ pointers' = IF Head(job).later THEN pointers \cup {Current} ELSE pointers
    BY <1>5 DEF write_value, TracedStages, options
  <2>2. Head(job).later \in BOOLEAN
    BY <1>5, JobHead DEF write_value
  <2> QED
    BY <2>1, <2>2 DEF TracedStages, Closing
<1>6. CASE end_packet
  BY <1>6 DEF end_packet, Ready, options, TracedStages, Closing
<1>7. CASE SendLast
  BY <1>7 DEF SendLast, Ready, appVars, options, TracedStages, Closing
<1>8. CASE DoneFeeding \/ JoinCompressor \/ JoinSerializer
  BY <1>8 DEF DoneFeeding, JoinCompressor, JoinSerializer, appVars, options, TracedStages, Closing
<1>9. CASE UNCHANGED <<job, packet_open, holding, held, pointers, direct, wpc, multithreaded_compress>>
  BY <1>9 DEF TracedStages
<1>10. CASE compressor \/ serializer \/ self_test \/ UNCHANGED vars
  BY <1>9, <1>10 DEF compressor, TakeUncompressed, CompressorExits, compress_chunk, DeliverCompressed, serializer,
       TakeCompressed, SerializerExits, write_chunk, self_test, ReadHolding, ReadHeld, vars, writerVars, appVars, options
<1> QED
  BY <1>1, <1>2, <1>3, <1>4, <1>5, <1>6, <1>7, <1>8, <1>10
     DEF Next, TracedThread, Finalize, Poll, Closed

LEMMA KeepsWorkerStages ==
  ASSUME TypeOK, TracedStages, WorkerStages, [Next]_vars
  PROVE  WorkerStages'
<1>0. None \notin ChunkNumbers
  BY SeqTypes
<1>1. CASE make_space
  <2>1. wpc = "run" /\ wpc' \in {"run", "handover"} /\ UNCHANGED <<cpc, chand, spc, shand, done_feeding, done_compressing, compressed>>
    BY <1>1, MakeSpaceCases DEF threadVars, doneVars
  <2>2. cpc # "exited"
    BY <2>1 DEF WorkerStages, Closing
  <2> QED
    BY <2>1, <2>2 DEF WorkerStages, Closing
<1>2. CASE HandOver
  <2>1. wpc = "handover" /\ wpc' = "run" /\ UNCHANGED <<uncompressed, cpc, chand, spc, shand, done_feeding, done_compressing>>
    BY <1>2 DEF HandOver, threadVars, doneVars
  <2>2. spc # "exited"
    BY <2>1 DEF WorkerStages
  <2> QED
    BY <2>1, <2>2 DEF WorkerStages, Closing
<1>3. CASE end_packet
  <2>1. wpc = "run" /\ UNCHANGED <<wpc, compressed, cpc, chand, spc, shand, done_feeding, done_compressing>>
    BY <1>3 DEF end_packet, Ready, threadVars, doneVars
  <2>2. cpc # "exited"
    BY <2>1 DEF WorkerStages, Closing
  <2> QED
    BY <2>1, <2>2 DEF WorkerStages, Closing
<1>4. CASE SendLast
  <2>1. wpc = "run" /\ wpc' = "feed" /\ UNCHANGED <<cpc, chand, spc, shand, done_feeding, done_compressing>>
    BY <1>4 DEF SendLast, Ready, threadVars, doneVars
  <2>2. cpc # "exited" /\ spc # "exited"
    BY <2>1 DEF WorkerStages, Closing
  <2> QED
    BY <2>1, <2>2 DEF WorkerStages, Closing
<1>5. CASE DoneFeeding
  BY <1>5 DEF DoneFeeding, threadVars, doneVars, WorkerStages, Closing
<1>6. CASE JoinCompressor
  BY <1>6 DEF JoinCompressor, CompressorJoined, threadVars, doneVars, WorkerStages, Closing
<1>7. CASE JoinSerializer
  BY <1>7 DEF JoinSerializer, threadVars, doneVars, WorkerStages, Closing
<1>8. CASE TakeUncompressed
  <2>1. Head(uncompressed) \in ChunkNumbers /\ Head(uncompressed) # None
    BY <1>0, <1>8, HeadTailProperties DEF TakeUncompressed, TypeOK
  <2>2. /\ cpc = "take" /\ UNCHANGED <<wpc, done_feeding, done_compressing, compressed, spc, shand>>
        /\ \/ cpc' = "compress" /\ chand' = Head(uncompressed)
           \/ UNCHANGED <<cpc, chand>>
    BY <1>8 DEF TakeUncompressed, writerVars, doneVars
  <2> QED
    BY <2>1, <2>2 DEF WorkerStages
<1>9. CASE CompressorExits
  BY <1>9 DEF CompressorExits, NoMoreWork, writerVars, doneVars, WorkerStages
<1>10. CASE compress_chunk
  BY <1>10 DEF compress_chunk, writerVars, doneVars, WorkerStages
<1>11. CASE DeliverCompressed
  <2>1. /\ cpc = "deliver" /\ cpc' = "take" /\ chand' = None
        /\ UNCHANGED <<wpc, done_feeding, done_compressing, uncompressed, spc, shand>>
    BY <1>11 DEF DeliverCompressed, writerVars, doneVars
  <2>2. spc # "exited"
    BY <2>1 DEF WorkerStages
  <2> QED
    BY <2>1, <2>2 DEF WorkerStages
<1>12. CASE TakeCompressed
  <2>1. compressed[Oldest] \in ChunkNumbers
    BY <1>12, OldestTaken DEF TakeCompressed, TypeOK
  <2>2. /\ spc = "take" /\ spc' = "write" /\ shand' = compressed[Oldest]
        /\ UNCHANGED <<wpc, done_feeding, done_compressing, uncompressed, cpc, chand>>
    BY <1>12 DEF TakeCompressed, writerVars, doneVars
  <2> QED
    BY <1>0, <2>1, <2>2 DEF WorkerStages
<1>13. CASE SerializerExits
  BY <1>13 DEF SerializerExits, writerVars, doneVars, WorkerStages
<1>14. CASE write_chunk
  BY <1>14 DEF write_chunk, writerVars, doneVars, WorkerStages
<1>15. CASE UNCHANGED <<wpc, uncompressed, compressed, cpc, chand, spc, shand, done_feeding, done_compressing>>
  BY <1>15 DEF WorkerStages
<1>16. CASE begin_packet \/ WriteCall \/ write_value \/ self_test \/ UNCHANGED vars
  BY <1>15, <1>16 DEF begin_packet, WriteCall, write_value, self_test, ReadHolding, ReadHeld, vars, threadVars, doneVars
<1> QED
  BY <1>1, <1>2, <1>3, <1>4, <1>5, <1>6, <1>7, <1>8, <1>9, <1>10, <1>11, <1>12, <1>13, <1>14, <1>16
     DEF Next, TracedThread, Finalize, compressor, serializer, Poll, Closed

LEMMA KeepsPointersLive ==
  ASSUME TypeOK, TracedStages, PointersLive, [Next]_vars
  PROVE  PointersLive'
<1>0. held \in Seq(ChunkNumbers) /\ DOMAIN held = 1 .. Len(held) /\ Len(held) \in Nat
  BY LenProperties DEF TypeOK
<1>1. CASE make_space
  <2>1. pointers' = pointers /\ (pointers # {} => holding)
    BY <1>1, MakeSpaceCases DEF appVars, TracedStages
  <2>2. CASE holding
    <3>1. held' = Append(held, Current)
      BY <1>1, <2>2, MakeSpaceCases
    <3>2. held \in Seq(Nat) /\ Current \in Nat
      BY <1>0, SeqTypes, SeqMonotonic DEF ChunkNumbers
    <3>3. /\ held' \in Seq(Nat) /\ Len(held') = Len(held) + 1 /\ held'[Len(held) + 1] = Current
          /\ \A i \in 1 .. Len(held) : held'[i] = held[i]
      BY <3>1, <3>2, AppendProperties
    <3>4. DOMAIN held' = 1 .. Len(held) + 1
      BY <3>3, LenProperties
    <3>5. /\ \A i \in DOMAIN held : i \in DOMAIN held' /\ held'[i] = held[i]
          /\ Len(held) + 1 \in DOMAIN held' /\ held'[Len(held) + 1] = Current
      BY <1>0, <3>3, <3>4
    <3> QED
      BY <2>1, <3>5 DEF PointersLive
  <2>3. CASE ~holding
    BY <2>1, <2>3 DEF PointersLive
  <2> QED
    BY <2>2, <2>3
<1>2. CASE SendLast
  BY <1>2 DEF SendLast, Ready, appVars, TracedStages, PointersLive
<1>3. CASE end_packet
  BY <1>3 DEF end_packet, PointersLive
<1>4. CASE write_value
  BY <1>4, SameChunks DEF write_value, PointersLive
<1>5. CASE UNCHANGED <<chunks, held, pointers>>
  BY <1>5, SameChunks DEF PointersLive
<1> QED
  BY <1>1, <1>2, <1>3, <1>4, <1>5
     DEF Next, begin_packet, WriteCall, TracedThread, HandOver,
         Finalize, DoneFeeding, JoinCompressor, JoinSerializer, compressor, TakeUncompressed,
         CompressorExits, compress_chunk, DeliverCompressed, serializer, TakeCompressed, SerializerExits,
         write_chunk, Poll, self_test, ReadHolding, ReadHeld, Closed, vars, writerVars, chunkVars, appVars

(***************************************************************************)
(* The list of sizes is the file and what is on its way to the file.       *)
(***************************************************************************)
LEMMA ListLengths ==
  ASSUME TypeOK
  PROVE  /\ Len(file) \in Nat /\ Len(compressed) \in Nat /\ Len(sizes) \in Nat
         /\ Writing \in {0, 1} /\ Delivering \in {0, 1}
         /\ spc = "write" => Writing = 1
         /\ spc # "write" => Writing = 0
         /\ cpc = "deliver" => Delivering = 1
         /\ cpc # "deliver" => Delivering = 0
         /\ compressed = <<>> => Len(compressed) = 0
<1>1. Len(file) \in Nat /\ Len(compressed) \in Nat /\ Len(sizes) \in Nat
  BY SeqTypes DEF TypeOK
<1>2. compressed = <<>> => Len(compressed) = 0
  BY EmptySeq
<1> QED
  BY <1>1, <1>2 DEF Writing, Delivering

LEMMA DeliverKeepsSizes ==
  ASSUME TypeOK, Handled, multithreaded_compress, SizesInOrder, DeliverCompressed
  PROVE  SizesInOrder'
<1>1. /\ cpc = "deliver" /\ cpc' = "take" /\ Deliver(chand) /\ chand \in ChunkNumbers
      /\ UNCHANGED <<sizes, spc, shand, multithreaded_write>>
  BY DEF DeliverCompressed, Handled, writerVars, options
<1>2. PICK f \in Nat : f = Len(file)
  BY ListLengths
<1>3. PICK n \in Nat : n = Len(compressed)
  BY ListLengths
<1>4. PICK w \in {0, 1} : w = Writing
  BY ListLengths
<1>5. /\ Writing' = w /\ Delivering' = 0 /\ Len(sizes) = f + w + n + 1 /\ sizes[f + w + n + 1] = chand
      /\ (spc = "write" => w = 1) /\ (spc # "write" => w = 0)
  <2>1. Delivering = 1 /\ Writing' = Writing /\ Delivering' = 0
    BY <1>1 DEF Delivering, Writing
  <2>2. Len(sizes) = f + w + n + 1 /\ sizes[Len(sizes)] = chand
    BY <1>1, <1>2, <1>3, <1>4, <2>1 DEF SizesInOrder
  <2> QED
    BY <1>4, <2>1, <2>2 DEF Writing
<1>6. CASE multithreaded_write
  <2>1. compressed' = Append(compressed, chand) /\ file' = file
    BY <1>1, <1>6 DEF Deliver
  <2>2. /\ Len(compressed') = n + 1 /\ compressed'[n + 1] = chand
        /\ \A i \in 1 .. n : compressed'[i] = compressed[i]
    BY <1>1, <1>3, <2>1, AppendProperties DEF TypeOK
  <2>3. \A i \in 1 .. n + 1 : sizes[f + w + i] = compressed'[i]
    <3> SUFFICES ASSUME NEW i \in 1 .. n + 1 PROVE sizes[f + w + i] = compressed'[i]
      OBVIOUS
    <3>1. CASE i \in 1 .. n
      BY <1>2, <1>3, <1>4, <2>2, <3>1 DEF SizesInOrder
    <3>2. CASE i = n + 1
      <4>1. f + w + i = f + w + n + 1
        BY <3>2
      <4> QED
        BY <1>5, <2>2, <3>2, <4>1
    <3> QED
      BY <3>1, <3>2
  <2>4. Len(sizes) = f + w + (n + 1) + 0
    BY <1>5
  <2> QED
    BY <1>1, <1>2, <1>5, <1>6, <2>1, <2>2, <2>3, <2>4 DEF SizesInOrder
<1>7. CASE ~multithreaded_write
  <2>1. file' = Append(file, chand) /\ compressed' = compressed
    BY <1>1, <1>7 DEF Deliver
  <2>2. compressed = <<>> /\ spc # "write" /\ n = 0 /\ w = 0
    BY <1>3, <1>5, <1>7, ListLengths DEF SizesInOrder
  <2>3. /\ Len(file') = f + 1 /\ file'[f + 1] = chand
        /\ \A i \in 1 .. f : file'[i] = file[i]
    BY <1>1, <1>2, <2>1, AppendProperties DEF TypeOK
  <2>4. \A i \in 1 .. f + 1 : sizes[i] = file'[i]
    <3> SUFFICES ASSUME NEW i \in 1 .. f + 1 PROVE sizes[i] = file'[i]
      OBVIOUS
    <3>1. CASE i \in 1 .. f
      BY <1>2, <2>3, <3>1 DEF SizesInOrder
    <3>2. CASE i = f + 1
      <4>1. f + w + n + 1 = i
        BY <2>2, <3>2
      <4> QED
        BY <1>5, <2>3, <3>2, <4>1
    <3> QED
      BY <3>1, <3>2
  <2>5. Len(sizes) = (f + 1) + w + n + 0 /\ n = Len(compressed') /\ \A i \in 1 .. n : FALSE
    BY <1>3, <1>5, <2>1, <2>2
  <2>6. Len(sizes)' = Len(file)' + Writing' + Len(compressed)' + Delivering'
    BY <1>1, <1>5, <2>3, <2>5
  <2> QED
    BY <1>1, <2>1, <2>2, <2>3, <2>4, <2>5, <2>6 DEF SizesInOrder
<1> QED
  BY <1>6, <1>7

LEMMA TakeKeepsSizes ==
  ASSUME TypeOK, multithreaded_compress, SizesInOrder, TakeCompressed
  PROVE  SizesInOrder'
<1>1. /\ spc = "take" /\ spc' = "write" /\ compressed # <<>> /\ compressed' = RemoveAt(compressed, Oldest)
      /\ shand' = compressed[1] /\ UNCHANGED <<sizes, file, cpc, chand, multithreaded_write>>
  BY DEF TakeCompressed, Oldest, outVars, writerVars, options
<1>2. PICK f \in Nat : f = Len(file)
  BY ListLengths
<1>3. PICK n \in Nat : n + 1 = Len(compressed)
  <2>1. Len(compressed) \in Nat \ {0}
    BY <1>1, OldestTaken DEF TypeOK
  <2>2. Len(compressed) - 1 \in Nat /\ (Len(compressed) - 1) + 1 = Len(compressed)
    BY <2>1
  <2> QED
    BY <2>2
<1>4. Len(compressed') = n /\ \A i \in 1 .. n : compressed'[i] = compressed[i + 1]
  <2>1. /\ Len(RemoveAt(compressed, Oldest)) = Len(compressed) - 1
        /\ \A i \in 1 .. Len(compressed) - 1 : RemoveAt(compressed, Oldest)[i] = compressed[i + 1]
    BY <1>1, OldestTaken DEF TypeOK
  <2>2. Len(compressed) - 1 = n
    BY <1>3
  <2> QED
    BY <1>1, <2>1, <2>2
<1>5. PICK d \in {0, 1} : d = Delivering
  BY ListLengths
<1>6. Writing = 0 /\ Writing' = 1 /\ Delivering' = d
  BY <1>1, <1>5 DEF Writing, Delivering
<1>7. Len(sizes) = f + 1 + n + d
  <2>1. Len(sizes) = f + 0 + (n + 1) + d
    BY <1>2, <1>3, <1>5, <1>6 DEF SizesInOrder
  <2> QED
    BY <2>1
<1>8. \A i \in 1 .. n + 1 : sizes[f + i] = compressed[i]
  <2> SUFFICES ASSUME NEW i \in 1 .. n + 1 PROVE sizes[f + i] = compressed[i]
    OBVIOUS
  <2>1. sizes[f + 0 + i] = compressed[i]
    BY <1>2, <1>3, <1>6 DEF SizesInOrder
  <2>2. f + 0 + i = f + i
    OBVIOUS
  <2> QED
    BY <2>1, <2>2
<1>9. sizes[f + 1] = shand'
  BY <1>1, <1>8
<1>10. \A i \in 1 .. n : sizes[f + 1 + i] = compressed'[i]
  <2> SUFFICES ASSUME NEW i \in 1 .. n PROVE sizes[f + 1 + i] = compressed'[i]
    OBVIOUS
  <2>1. i + 1 \in 1 .. n + 1 /\ f + (i + 1) = f + 1 + i
    OBVIOUS
  <2> QED
    BY <1>4, <1>8, <2>1
<1> QED
  BY <1>1, <1>2, <1>4, <1>6, <1>7, <1>9, <1>10 DEF SizesInOrder

LEMMA WriteKeepsSizes ==
  ASSUME TypeOK, Handled, multithreaded_compress, SizesInOrder, write_chunk
  PROVE  SizesInOrder'
<1>1. /\ spc = "write" /\ spc' = "take" /\ file' = Append(file, shand) /\ shand \in ChunkNumbers
      /\ UNCHANGED <<sizes, compressed, cpc, chand, multithreaded_write>>
  BY DEF write_chunk, Handled, writerVars, options
<1>2. PICK f \in Nat : f = Len(file)
  BY ListLengths
<1>3. PICK n \in Nat : n = Len(compressed)
  BY ListLengths
<1>4. PICK d \in {0, 1} : d = Delivering
  BY ListLengths
<1>5. Writing = 1 /\ Writing' = 0 /\ Delivering' = d
  BY <1>1, <1>4 DEF Writing, Delivering
<1>6. /\ Len(file') = f + 1 /\ file'[f + 1] = shand
      /\ \A i \in 1 .. f : file'[i] = file[i]
  BY <1>1, <1>2, AppendProperties DEF TypeOK
<1>7. Len(sizes) = (f + 1) + 0 + n + d
  <2>1. Len(sizes) = f + 1 + n + d
    BY <1>2, <1>3, <1>4, <1>5 DEF SizesInOrder
  <2> QED
    BY <2>1
<1>8. \A i \in 1 .. f + 1 : sizes[i] = file'[i]
  <2>1. \A i \in 1 .. f + 1 : i \in 1 .. f \/ i = f + 1
    OBVIOUS
  <2>2. sizes[f + 1] = shand /\ \A i \in 1 .. f : sizes[i] = file[i]
    BY <1>1, <1>2 DEF SizesInOrder
  <2> QED
    BY <1>6, <2>1, <2>2
<1>9. \A i \in 1 .. n : sizes[(f + 1) + 0 + i] = compressed[i]
  <2> SUFFICES ASSUME NEW i \in 1 .. n PROVE sizes[(f + 1) + 0 + i] = compressed[i]
    OBVIOUS
  <2>1. sizes[f + 1 + i] = compressed[i]
    BY <1>2, <1>3, <1>5 DEF SizesInOrder
  <2>2. (f + 1) + 0 + i = f + 1 + i
    OBVIOUS
  <2> QED
    BY <2>1, <2>2
<1> QED
  BY <1>1, <1>3, <1>5, <1>6, <1>7, <1>8, <1>9 DEF SizesInOrder

LEMMA CompressKeepsSizes ==
  ASSUME TypeOK, Handled, multithreaded_compress, SizesInOrder, compress_chunk
  PROVE  SizesInOrder'
<1>1. /\ cpc = "compress" /\ cpc' = "deliver" /\ sizes' = Append(sizes, chand) /\ chand \in ChunkNumbers
      /\ UNCHANGED <<file, compressed, spc, shand, chand, multithreaded_write>>
  BY DEF compress_chunk, Handled, writerVars, options
<1>2. PICK f \in Nat : f = Len(file)
  BY ListLengths
<1>3. PICK n \in Nat : n = Len(compressed)
  BY ListLengths
<1>4. PICK w \in {0, 1} : w = Writing
  BY ListLengths
<1>5. Writing' = w /\ Delivering = 0 /\ Delivering' = 1
  BY <1>1, <1>4 DEF Writing, Delivering
<1>6. Len(sizes) = f + w + n
  <2>1. Len(sizes) = f + w + n + 0
    BY <1>2, <1>3, <1>4, <1>5 DEF SizesInOrder
  <2> QED
    BY <2>1
<1>7. /\ Len(sizes') = f + w + n + 1 /\ sizes'[Len(sizes')] = chand
      /\ \A i \in 1 .. f + w + n : sizes'[i] = sizes[i]
  <2>1. /\ Len(sizes') = Len(sizes) + 1 /\ sizes'[Len(sizes) + 1] = chand
        /\ \A i \in 1 .. Len(sizes) : sizes'[i] = sizes[i]
    BY <1>1, AppendProperties DEF TypeOK
  <2> QED
    BY <1>6, <2>1
<1>8. \A i \in 1 .. f : sizes'[i] = file[i]
  <2>1. \A i \in 1 .. f : i \in 1 .. f + w + n
    OBVIOUS
  <2> QED
    BY <1>2, <1>7, <2>1 DEF SizesInOrder
<1>9. spc = "write" => sizes'[f + 1] = shand
  <2>1. spc = "write" => f + 1 \in 1 .. f + w + n
    BY <1>4, ListLengths
  <2> QED
    BY <1>2, <1>7, <2>1 DEF SizesInOrder
<1>10. \A i \in 1 .. n : sizes'[f + w + i] = compressed[i]
  <2>1. \A i \in 1 .. n : f + w + i \in 1 .. f + w + n
    OBVIOUS
  <2> QED
    BY <1>2, <1>3, <1>4, <1>7, <2>1 DEF SizesInOrder
<1> QED
  BY <1>1, <1>2, <1>3, <1>5, <1>7, <1>8, <1>9, <1>10 DEF SizesInOrder

LEMMA KeepsSizesInOrder ==
  ASSUME TypeOK, TracedStages, WorkerStages, multithreaded_compress, SizesInOrder, [Next]_vars
  PROVE  SizesInOrder'
<1>1. Handled
  BY HandledChunks
<1>2. CASE UNCHANGED <<sizes, file, compressed, spc, shand, multithreaded_write>> /\ cpc' = cpc /\ chand' = chand
  BY <1>2 DEF SizesInOrder, Writing, Delivering
<1>3. CASE TakeUncompressed \/ CompressorExits
  <2>1. /\ cpc # "deliver" /\ cpc' # "deliver" /\ UNCHANGED <<sizes, file, compressed, spc, shand, multithreaded_write>>
    BY <1>3 DEF TakeUncompressed, CompressorExits, outVars, writerVars, options
  <2> QED
    BY <2>1 DEF SizesInOrder, Writing, Delivering
<1>4. CASE SerializerExits
  <2>1. /\ spc # "write" /\ spc' # "write" /\ UNCHANGED <<sizes, file, compressed, cpc, chand, multithreaded_write>>
    BY <1>4 DEF SerializerExits, outVars, writerVars, options
  <2> QED
    BY <2>1 DEF SizesInOrder, Writing, Delivering
<1>5. CASE make_space
  BY <1>2, <1>5, MakeSpaceCases DEF threadVars, options
<1>6. CASE SendLast
  BY <1>2, <1>6 DEF SendLast, threadVars, options, outVars
<1>7. ~HandOver
  BY DEF HandOver, TracedStages
<1>8. CASE begin_packet \/ WriteCall \/ write_value \/ end_packet \/ DoneFeeding \/ JoinCompressor \/ JoinSerializer
           \/ self_test \/ UNCHANGED vars
  BY <1>2, <1>8 DEF begin_packet, WriteCall, write_value, end_packet, DoneFeeding, JoinCompressor, JoinSerializer,
       self_test, ReadHolding, ReadHeld, vars, threadVars, options, outVars
<1> QED
  BY <1>1, <1>3, <1>4, <1>5, <1>6, <1>7, <1>8, DeliverKeepsSizes, TakeKeepsSizes, WriteKeepsSizes, CompressKeepsSizes
     DEF Next, TracedThread, Finalize, compressor, serializer, Poll, Closed

(***************************************************************************)
(* Chunk numbers grow along the pipeline, and no chunk falls out of it.    *)
(***************************************************************************)
LEMMA NewNonEmpty ==
  ASSUME TypeOK, chunks' = Append(chunks, uidx)
  PROVE  /\ \A c \in NonEmpty : c \in NonEmpty'
         /\ \A c \in NonEmpty' : c \in NonEmpty \/ c = Current
BY NewChunk DEF NonEmpty

LEMMA KeepsChunksInOrder ==
  ASSUME TypeOK, TracedStages, WorkerStages, multithreaded_compress, ChunksInOrder, [Next]_vars
  PROVE  ChunksInOrder'
<1>0. /\ sizes \in Seq(Int) /\ uncompressed \in Seq(Int) /\ held \in Seq(Int)
      /\ Above(Current, sizes) /\ Above(Current, uncompressed) /\ Above(Current, held)
      /\ Current \in Int /\ \A c \in ChunkNumbers : c \in Int /\ c < Current
  BY SeqTypes DEF TypeOK
<1>1. Handled
  BY HandledChunks
<1>2. CASE UNCHANGED <<sizes, uncompressed, held, cpc, chand>>
  BY <1>2 DEF ChunksInOrder
<1>3. CASE make_space /\ holding
  <2>1. held' = Append(held, Current) /\ UNCHANGED <<sizes, uncompressed, cpc, chand>>
    BY <1>3, MakeSpaceCases DEF threadVars
  <2>2. Increasing(held') /\ Before(sizes, held') /\ Before(uncompressed, held')
    BY <1>0, <2>1, AppendOrder DEF ChunksInOrder
  <2>3. cpc = "compress" => Below(chand, held')
    BY <1>0, <1>1, <2>1, AppendOrder DEF ChunksInOrder, Handled
  <2> QED
    BY <2>1, <2>2, <2>3 DEF ChunksInOrder
<1>4. CASE (make_space /\ ~holding) \/ SendLast
  <2>1. uncompressed' = Append(uncompressed, Current) /\ UNCHANGED <<sizes, held, cpc, chand>> /\ held = <<>>
    <3>1. CASE make_space /\ ~holding
      BY <3>1, MakeSpaceCases DEF threadVars, TracedStages
    <3>2. CASE SendLast
      BY <3>2 DEF SendLast, Ready, threadVars, outVars, TracedStages
    <3> QED
      BY <1>4, <3>1, <3>2
  <2>2. Increasing(uncompressed') /\ Before(sizes, uncompressed')
    BY <1>0, <2>1, AppendOrder DEF ChunksInOrder
  <2>3. Before(uncompressed', held')
    BY <2>1, EmptySeq DEF Before
  <2>4. cpc = "compress" => Below(chand, uncompressed')
    BY <1>0, <1>1, <2>1, AppendOrder DEF ChunksInOrder, Handled
  <2> QED
    BY <2>1, <2>2, <2>3, <2>4 DEF ChunksInOrder
<1>5. CASE end_packet
  <2>1. uncompressed' = uncompressed \o held /\ held' = <<>> /\ UNCHANGED <<sizes, cpc, chand>>
    BY <1>5 DEF end_packet, Thawed, threadVars, outVars
  <2>2. Increasing(uncompressed') /\ Before(sizes, uncompressed')
    BY <1>0, <2>1, SpliceOrder DEF ChunksInOrder
  <2>3. \A q : Before(q, held')
    BY <2>1, EmptySeq DEF Before
  <2>4. Increasing(held') /\ \A d : Below(d, held')
    BY <2>1, EmptySeq DEF Increasing, Below
  <2>5. cpc = "compress" => Below(chand, uncompressed')
    BY <1>0, <1>1, <2>1, SpliceOrder DEF ChunksInOrder, Handled
  <2> QED
    BY <2>1, <2>2, <2>3, <2>4, <2>5 DEF ChunksInOrder
<1>6. CASE TakeUncompressed
  <2>1. /\ uncompressed # <<>> /\ uncompressed' = Tail(uncompressed) /\ UNCHANGED <<sizes, held>> /\ cpc = "take"
        /\ cpc' = "compress" => chand' = Head(uncompressed)
    BY <1>6 DEF TakeUncompressed, writerVars, outVars
  <2>2. /\ Increasing(uncompressed') /\ Before(sizes, uncompressed') /\ Before(uncompressed', held)
        /\ Below(Head(uncompressed), uncompressed') /\ Above(Head(uncompressed), sizes) /\ Below(Head(uncompressed), held)
    BY <1>0, <2>1, TailOrder DEF ChunksInOrder
  <2> QED
    BY <2>1, <2>2 DEF ChunksInOrder
<1>7. CASE compress_chunk
  <2>1. cpc = "compress" /\ cpc' = "deliver" /\ sizes' = Append(sizes, chand) /\ UNCHANGED <<uncompressed, held>>
    BY <1>7 DEF compress_chunk, writerVars
  <2>2. chand \in Int
    BY <1>0, <1>1, <2>1 DEF Handled
  <2>3. Increasing(sizes') /\ Before(sizes', uncompressed) /\ Before(sizes', held)
    BY <1>0, <2>1, <2>2, AppendOrder DEF ChunksInOrder
  <2> QED
    BY <2>1, <2>3 DEF ChunksInOrder
<1>8. CASE UNCHANGED <<sizes, uncompressed, held>> /\ cpc' # "compress"
  BY <1>8 DEF ChunksInOrder
<1>9. ~HandOver
  BY DEF HandOver, TracedStages
<1>10. CASE DeliverCompressed \/ CompressorExits
  BY <1>8, <1>10 DEF DeliverCompressed, CompressorExits, writerVars, outVars
<1>11. CASE begin_packet \/ WriteCall \/ write_value \/ DoneFeeding \/ JoinCompressor \/ JoinSerializer
           \/ serializer \/ self_test \/ UNCHANGED vars
  BY <1>2, <1>11 DEF begin_packet, WriteCall, write_value, DoneFeeding, JoinCompressor, JoinSerializer,
       serializer, TakeCompressed, SerializerExits, write_chunk, self_test, ReadHolding, ReadHeld, vars,
       threadVars, outVars, writerVars
<1> QED
  BY <1>3, <1>4, <1>5, <1>6, <1>7, <1>9, <1>10, <1>11
     DEF Next, TracedThread, Finalize, compressor, Poll, Closed

LEMMA KeepsChunksKept ==
  ASSUME TypeOK, TracedStages, WorkerStages, multithreaded_compress, ChunksKept, [Next]_vars
  PROVE  ChunksKept'
<1>0. /\ sizes \in Seq(Int) /\ uncompressed \in Seq(Int) /\ held \in Seq(Int)
      /\ Current \in Int /\ ChunkNumbers \subseteq Int /\ NonEmpty \subseteq ChunkNumbers
  BY SeqTypes DEF TypeOK, NonEmpty
<1>1. Handled
  BY HandledChunks
<1>2. CASE UNCHANGED <<chunks, sizes, uncompressed, held, cpc, chand>>
  BY <1>2, SameChunks DEF ChunksKept, In
<1>3. CASE make_space \/ SendLast
  <2>1. chunks' = Append(chunks, uidx) /\ UNCHANGED <<sizes, cpc, chand>>
    <3>1. CASE make_space
      BY <3>1, MakeSpaceCases DEF threadVars
    <3>2. CASE SendLast
      BY <3>2 DEF SendLast, threadVars, outVars
    <3> QED
      BY <1>3, <3>1, <3>2
  <2>2. \/ held' = Append(held, Current) /\ UNCHANGED uncompressed
        \/ uncompressed' = Append(uncompressed, Current) /\ UNCHANGED held
    <3>1. CASE make_space
      BY <3>1, MakeSpaceCases
    <3>2. CASE SendLast
      BY <3>2 DEF SendLast
    <3> QED
      BY <1>3, <3>1, <3>2
  <2>3. \A c : /\ In(c, held) \/ In(c, uncompressed) => In(c, held') \/ In(c, uncompressed')
               /\ c = Current => In(c, held') \/ In(c, uncompressed')
    <3>1. CASE held' = Append(held, Current) /\ UNCHANGED uncompressed
      <4>1. \A c : In(c, held') <=> In(c, held) \/ c = Current
        BY <1>0, <3>1, AppendOrder
      <4> QED
        BY <3>1, <4>1
    <3>2. CASE uncompressed' = Append(uncompressed, Current) /\ UNCHANGED held
      <4>1. \A c : In(c, uncompressed') <=> In(c, uncompressed) \/ c = Current
        BY <1>0, <3>2, AppendOrder
      <4> QED
        BY <3>2, <4>1
    <3> QED
      BY <2>2, <3>1, <3>2
  <2>4. /\ \A c \in NonEmpty : c \in NonEmpty'
        /\ \A c \in NonEmpty' : c \in NonEmpty \/ c = Current
    BY <2>1, NewNonEmpty
  <2>5. \A c : In(c, sizes)' <=> In(c, sizes)
    BY <2>1 DEF In
  <2>6. \A c \in NonEmpty' : \/ In(c, sizes') \/ (cpc' = "compress" /\ c = chand')
                             \/ In(c, uncompressed') \/ In(c, held')
    BY <2>1, <2>3, <2>4 DEF ChunksKept
  <2>7. (\A i \in 1 .. Len(sizes') : sizes'[i] \in NonEmpty') /\ (cpc' = "compress" => chand' \in NonEmpty')
    BY <2>1, <2>4 DEF ChunksKept
  <2> QED
    BY <2>6, <2>7 DEF ChunksKept, In
<1>4. CASE end_packet
  <2>1. uncompressed' = uncompressed \o held /\ held' = <<>> /\ UNCHANGED <<chunks, sizes, cpc, chand>>
    BY <1>4 DEF end_packet, Thawed, threadVars, outVars, chunkVars
  <2>2. \A c : In(c, uncompressed') <=> In(c, uncompressed) \/ In(c, held)
    BY <1>0, <2>1, SpliceOrder
  <2>3. NonEmpty' = NonEmpty
    BY <2>1, SameChunks
  <2>4. \A c \in NonEmpty' : \/ In(c, sizes') \/ (cpc' = "compress" /\ c = chand')
                             \/ In(c, uncompressed') \/ In(c, held')
    BY <2>1, <2>2, <2>3 DEF ChunksKept
  <2>5. (\A i \in 1 .. Len(sizes') : sizes'[i] \in NonEmpty') /\ (cpc' = "compress" => chand' \in NonEmpty')
    BY <2>1, <2>3 DEF ChunksKept
  <2> QED
    BY <2>4, <2>5 DEF ChunksKept, In
<1>5. CASE TakeUncompressed
  <2>1. /\ uncompressed # <<>> /\ uncompressed' = Tail(uncompressed) /\ UNCHANGED <<chunks, sizes, held>> /\ cpc = "take"
        /\ \/ chunks[Head(uncompressed)] > 0 /\ cpc' = "compress" /\ chand' = Head(uncompressed)
           \/ ~(chunks[Head(uncompressed)] > 0) /\ cpc' = cpc
    BY <1>5 DEF TakeUncompressed, writerVars, outVars
  <2>2. \A c : In(c, uncompressed) <=> In(c, uncompressed') \/ c = Head(uncompressed)
    BY <1>0, <2>1, TailOrder
  <2>3. NonEmpty' = NonEmpty /\ Head(uncompressed) \in ChunkNumbers
    BY <2>1, SameChunks, HeadTailProperties DEF TypeOK
  <2>4. \/ Head(uncompressed) \in NonEmpty /\ cpc' = "compress" /\ chand' = Head(uncompressed)
        \/ Head(uncompressed) \notin NonEmpty /\ cpc' = cpc
    BY <2>1, <2>3 DEF NonEmpty
  <2>5. \A c \in NonEmpty' : \/ In(c, sizes') \/ (cpc' = "compress" /\ c = chand')
                             \/ In(c, uncompressed') \/ In(c, held')
    BY <2>1, <2>2, <2>3, <2>4 DEF ChunksKept
  <2>6. (\A i \in 1 .. Len(sizes') : sizes'[i] \in NonEmpty') /\ (cpc' = "compress" => chand' \in NonEmpty')
    BY <2>1, <2>3, <2>4 DEF ChunksKept
  <2> QED
    BY <2>5, <2>6 DEF ChunksKept, In
<1>6. CASE compress_chunk
  <2>1. cpc = "compress" /\ cpc' = "deliver" /\ sizes' = Append(sizes, chand) /\ UNCHANGED <<chunks, uncompressed, held>>
    BY <1>6 DEF compress_chunk, writerVars
  <2>2. chand \in Int /\ chand \in NonEmpty /\ NonEmpty' = NonEmpty
    BY <1>0, <2>1, SameChunks DEF ChunksKept
  <2>3. \A c : In(c, sizes') <=> In(c, sizes) \/ c = chand
    BY <1>0, <2>1, <2>2, AppendOrder
  <2>4. \A c \in NonEmpty' : In(c, sizes') \/ In(c, uncompressed') \/ In(c, held')
    BY <2>1, <2>2, <2>3 DEF ChunksKept
  <2>5. \A i \in 1 .. Len(sizes') : sizes'[i] \in NonEmpty'
    <3>1. \A i \in 1 .. Len(sizes) : sizes[i] \in NonEmpty
      BY DEF ChunksKept
    <3>2. \A i \in 1 .. Len(sizes') : In(sizes'[i], sizes')
      BY DEF In
    <3> QED
      BY <2>2, <2>3, <3>1, <3>2 DEF In
  <2> QED
    BY <2>1, <2>4, <2>5 DEF ChunksKept, In
<1>7. CASE DeliverCompressed \/ CompressorExits
  <2>1. UNCHANGED <<chunks, sizes, uncompressed, held>> /\ cpc # "compress" /\ cpc' # "compress"
    BY <1>7 DEF DeliverCompressed, CompressorExits, writerVars, outVars
  <2> QED
    BY <2>1, SameChunks DEF ChunksKept, In
<1>8. ~HandOver
  BY DEF HandOver, TracedStages
<1>9. CASE begin_packet \/ WriteCall \/ write_value \/ DoneFeeding \/ JoinCompressor \/ JoinSerializer
           \/ serializer \/ self_test \/ UNCHANGED vars
  BY <1>2, <1>9 DEF begin_packet, WriteCall, write_value, DoneFeeding, JoinCompressor, JoinSerializer,
       serializer, TakeCompressed, SerializerExits, write_chunk, self_test, ReadHolding, ReadHeld, vars,
       threadVars, outVars, writerVars, chunkVars
<1> QED
  BY <1>3, <1>4, <1>5, <1>6, <1>7, <1>8, <1>9
     DEF Next, TracedThread, Finalize, compressor, Poll, Closed
-----------------------------------------------------------------------------
LEMMA InitWriterInv == Init => WriterInv
<1> SUFFICES ASSUME Init PROVE WriterInv
  OBVIOUS
<1>1. \A S : <<>> \in Seq(S) /\ Len(<<>>) = 0
  BY EmptySeq
<1>2. FlagTypes
  BY ThreadingAssumption DEF Init, FlagTypes
<1>3. PlainTypes
  BY ChunkSizeAssumption, MaxWritesAssumption DEF Init, PlainTypes
<1>4. Fits /\ JobTypes
  BY <1>1, ChunkSizeAssumption DEF Init, Fits, JobTypes
<1>5. ListTypes
  BY <1>1 DEF Init, ListTypes
<1>6. TypeOK
  BY <1>2, <1>3, <1>4, <1>5, TypeParts
<1>7. PointersLive /\ TracedStages /\ WorkerStages
  BY DEF Init, PointersLive, TracedStages, WorkerStages, Closing
<1>8. SizesInOrder
  BY <1>1 DEF Init, SizesInOrder, Writing, Delivering
<1>9. Len(sizes) = 0 /\ Len(uncompressed) = 0 /\ Len(held) = 0 /\ Len(chunks) = 0 /\ cpc = "take"
  BY <1>1 DEF Init
<1>10. ChunksInOrder
  BY <1>9 DEF ChunksInOrder, Increasing, Before
<1>11. NonEmpty = {}
  BY <1>9 DEF NonEmpty, ChunkNumbers
<1>12. ChunksKept
  BY <1>9, <1>11 DEF ChunksKept
<1> QED
  BY <1>6, <1>7, <1>8, <1>10, <1>12 DEF WriterInv

LEMMA SameOptions == [Next]_vars => multithreaded_compress' = multithreaded_compress
BY DEF Next, begin_packet, WriteCall, TracedThread, make_space, HandOver, write_value, end_packet,
       Finalize, SendLast, DoneFeeding, JoinCompressor, JoinSerializer, compressor, TakeUncompressed,
       CompressorExits, compress_chunk, DeliverCompressed, serializer, TakeCompressed, SerializerExits,
       write_chunk, Poll, self_test, ReadHolding, ReadHeld, Closed, vars, writerVars, options

LEMMA NextWriterInv == WriterInv /\ [Next]_vars => WriterInv'
<1> SUFFICES ASSUME WriterInv, [Next]_vars PROVE WriterInv'
  OBVIOUS
<1>1. TypeOK' /\ TracedStages' /\ WorkerStages' /\ PointersLive'
  BY KeepsTypes, KeepsTracedStages, KeepsWorkerStages, KeepsPointersLive DEF WriterInv
<1>2. multithreaded_compress => (SizesInOrder /\ ChunksInOrder /\ ChunksKept)'
  BY KeepsSizesInOrder, KeepsChunksInOrder, KeepsChunksKept DEF WriterInv
<1> QED
  BY <1>1, <1>2, SameOptions DEF WriterInv

LEMMA WriterInvImplies == WriterInv => ChunksSound
<1> SUFFICES ASSUME WriterInv PROVE ChunksSound
  OBVIOUS
<1>1. TypeOK /\ PointersLive
  BY DEF WriterInv
<1>2. NothingLeft
  BY DEF WriterInv, TracedStages, WorkerStages, Closing, NothingLeft
<1>3. SizesMatchFile
  <2> SUFFICES ASSUME multithreaded_compress
               PROVE  /\ Len(file) <= Len(sizes) /\ \A i \in DOMAIN file : sizes[i] = file[i]
                      /\ wpc = "closed" => Len(file) = Len(sizes)
    BY DEF SizesMatchFile
  <2>1. /\ Len(file) \in Nat /\ Len(compressed) \in Nat /\ Writing \in {0, 1} /\ Delivering \in {0, 1}
        /\ Len(sizes) = Len(file) + Writing + Len(compressed) + Delivering
    BY <1>1, ListLengths DEF WriterInv, SizesInOrder
  <2>2. Len(file) <= Len(sizes)
    BY <2>1
  <2>3. \A i \in DOMAIN file : sizes[i] = file[i]
    BY <1>1, LenProperties DEF TypeOK, WriterInv, SizesInOrder
  <2>4. wpc = "closed" => Writing = 0 /\ Len(compressed) = 0 /\ Delivering = 0
    BY <1>1, ListLengths DEF WriterInv, WorkerStages
  <2> QED
    BY <2>1, <2>2, <2>3, <2>4
<1> QED
  BY <1>1, <1>2, <1>3 DEF ChunksSound

(***************************************************************************)
(* For any chunk size and any sequence of values, whichever threads        *)
(* compress and write: pointers handed out by write_value_later stay in    *)
(* memory of the traced thread, uncompressed_sizes describes the file, and *)
(* nothing is left in a list when finalize closes the file.                *)
(***************************************************************************)
THEOREM ChunksAreSound == Spec => []ChunksSound
<1>1. Init => WriterInv
  BY InitWriterInv
<1>2. WriterInv /\ [Next]_vars => WriterInv'
  BY NextWriterInv
<1>3. WriterInv => ChunksSound
  BY WriterInvImplies
<1> QED
  BY <1>1, <1>2, <1>3, PTL DEF Spec

(***************************************************************************)
(* The refinement.  A chunk that is stored is the next one of the list of  *)
(* sizes, so every chunk before it is in the file.                         *)
(***************************************************************************)
LEMMA NextOfSizes ==
  ASSUME WriterInv, multithreaded_compress, NEW c, Len(file) + 1 \in 1 .. Len(sizes), sizes[Len(file) + 1] = c
  PROVE  /\ c \in NonEmpty /\ ~In(c, file)
         /\ \A d \in NonEmpty : d < c => In(d, file)
<1>1. /\ TypeOK /\ SizesInOrder /\ ChunksInOrder /\ ChunksKept
      /\ Len(file) \in Nat /\ Len(sizes) \in Nat
      /\ \A i \in 1 .. Len(sizes) : sizes[i] \in Int
  BY SeqTypes, ElementOfSeq DEF WriterInv, TypeOK
<1>2. PICK f \in Nat : f = Len(file)
  BY <1>1
<1>3. c \in NonEmpty /\ c \in Int /\ NonEmpty \subseteq Int
  BY <1>1, SeqTypes DEF ChunksKept, NonEmpty
<1>4. /\ \A i \in 1 .. f : i \in 1 .. Len(sizes) /\ sizes[i] = file[i] /\ sizes[i] < c
      /\ \A i \in 1 .. Len(sizes) : i \notin 1 .. f => i = f + 1 \/ c < sizes[i]
  BY <1>1, <1>2 DEF SizesInOrder, ChunksInOrder, Increasing
<1>5. ~In(c, file)
  BY <1>1, <1>2, <1>3, <1>4 DEF In
<1>6. ASSUME NEW d \in NonEmpty, d < c PROVE In(d, file)
  <2>1. CASE In(d, sizes)
    <3>1. PICK i \in 1 .. Len(sizes) : sizes[i] = d
      BY <2>1 DEF In
    <3>2. i \in 1 .. f
      BY <1>2, <1>3, <1>4, <1>6, <3>1
    <3> QED
      BY <1>2, <1>4, <3>1, <3>2 DEF In
  <2>2. CASE cpc = "compress" /\ d = chand
    BY <1>1, <1>3, <1>6, <2>2 DEF ChunksInOrder, Above
  <2>3. CASE In(d, uncompressed)
    BY <1>1, <1>3, <1>6, <2>3 DEF ChunksInOrder, Before, In
  <2>4. CASE In(d, held)
    BY <1>1, <1>3, <1>6, <2>4 DEF ChunksInOrder, Before, In
  <2> QED
    BY <1>1, <2>1, <2>2, <2>3, <2>4 DEF ChunksKept
<1> QED
  BY <1>3, <1>5, <1>6

LEMMA StoresNext ==
  ASSUME WriterInv, multithreaded_compress, multithreaded_compress', NEW c,
         Len(file) + 1 \in 1 .. Len(sizes), sizes[Len(file) + 1] = c,
         file' = Append(file, c), chunks' = chunks, wpc # "closed", wpc' = wpc
  PROVE  Stream!Store
<1>1. /\ c \in NonEmpty /\ ~In(c, file) /\ NonEmpty' = NonEmpty
      /\ \A d \in NonEmpty : d < c => In(d, file)
  BY NextOfSizes, SameChunks
<1> QED
  BY <1>1 DEF Stream!Store, Stream!Stored, In

LEMMA StoreStep ==
  ASSUME WriterInv, multithreaded_compress, multithreaded_compress', write_chunk \/ DeliverCompressed
  PROVE  Stream!Store \/ UNCHANGED Stream!streamVars
<1>1. /\ TypeOK /\ SizesInOrder /\ Handled /\ Len(file) \in Nat /\ Len(compressed) \in Nat /\ Len(sizes) \in Nat
      /\ Writing \in {0, 1} /\ Delivering \in {0, 1} /\ wpc # "closed" /\ UNCHANGED <<chunks, wpc>>
      /\ Len(sizes) = Len(file) + Writing + Len(compressed) + Delivering
  BY HandledChunks, ListLengths DEF WriterInv, SizesInOrder, WorkerStages, write_chunk, DeliverCompressed, writerVars
<1>2. CASE write_chunk
  <2>1. Writing = 1 /\ sizes[Len(file) + 1] = shand /\ file' = Append(file, shand)
    BY <1>1, <1>2 DEF write_chunk, Writing, SizesInOrder
  <2>2. Len(file) + 1 \in 1 .. Len(sizes)
    BY <1>1, <2>1
  <2> QED
    BY <1>1, <2>1, <2>2, StoresNext
<1>3. CASE DeliverCompressed /\ ~multithreaded_write
  <2>1. Delivering = 1 /\ Writing = 0 /\ Len(compressed) = 0 /\ sizes[Len(sizes)] = chand /\ file' = Append(file, chand)
    BY <1>1, <1>3, ListLengths DEF DeliverCompressed, Deliver, SizesInOrder
  <2>2. Len(file) + 1 \in 1 .. Len(sizes) /\ Len(file) + 1 = Len(sizes)
    BY <1>1, <2>1
  <2> QED
    BY <1>1, <2>1, <2>2, StoresNext
<1>4. CASE DeliverCompressed /\ multithreaded_write
  <2>1. file' = file /\ NonEmpty' = NonEmpty
    BY <1>1, <1>4, SameChunks DEF DeliverCompressed, Deliver
  <2> QED
    BY <1>1, <2>1 DEF Stream!streamVars
<1> QED
  BY <1>2, <1>3, <1>4

LEMMA FillStep ==
  ASSUME WriterInv, multithreaded_compress, multithreaded_compress', make_space \/ SendLast
  PROVE  Stream!Fill \/ UNCHANGED Stream!streamVars
<1>1. /\ TypeOK /\ chunks' = Append(chunks, uidx) /\ file' = file /\ wpc # "closed" /\ wpc' # "closed"
  <2>1. CASE make_space
    BY <2>1, MakeSpaceCases DEF WriterInv
  <2>2. CASE SendLast
    BY <2>2 DEF WriterInv, SendLast, Ready, outVars
  <2> QED
    BY <2>1, <2>2
<1>2. /\ \A c \in NonEmpty : c \in NonEmpty' /\ c < Current
      /\ \A c \in NonEmpty' : c \in NonEmpty \/ c = Current
  <2>1. \A c \in NonEmpty : c < Current
    BY <1>1, SeqTypes DEF NonEmpty
  <2> QED
    BY <1>1, <2>1, NewNonEmpty
<1>3. CASE Current \in NonEmpty'
  <2>1. \A c : c \in NonEmpty' <=> c \in NonEmpty \cup {Current}
    BY <1>2, <1>3
  <2>2. NonEmpty' = NonEmpty \cup {Current}
    BY <2>1
  <2> QED
    BY <1>1, <1>2, <2>2, <1>3 DEF Stream!Fill
<1>4. CASE Current \notin NonEmpty'
  <2>1. \A c : c \in NonEmpty' <=> c \in NonEmpty
    BY <1>2, <1>4
  <2>2. NonEmpty' = NonEmpty
    BY <2>1
  <2> QED
    BY <1>1, <2>2 DEF Stream!streamVars
<1> QED
  BY <1>3, <1>4

LEMMA CloseStep ==
  ASSUME WriterInv, multithreaded_compress, multithreaded_compress', JoinSerializer
  PROVE  Stream!Close
<1>1. /\ TypeOK /\ SizesInOrder /\ ChunksKept /\ wpc = "join_serializer" /\ wpc' = "closed" /\ spc = "exited"
      /\ UNCHANGED <<chunks, file>>
  BY DEF WriterInv, JoinSerializer, chunkVars, outVars
<1>2. /\ cpc = "exited" /\ uncompressed = <<>> /\ held = <<>> /\ compressed = <<>>
  BY <1>1 DEF WriterInv, WorkerStages, TracedStages, Closing
<1>3. /\ Len(sizes) = Len(file) /\ Len(file) \in Nat /\ Len(uncompressed) = 0 /\ Len(held) = 0
  <2>1. /\ Len(file) \in Nat /\ Writing = 0 /\ Delivering = 0 /\ Len(compressed) = 0
        /\ Len(sizes) = Len(file) + Writing + Len(compressed) + Delivering
    BY <1>1, <1>2, ListLengths DEF SizesInOrder
  <2>2. Len(sizes) = Len(file)
    BY <2>1
  <2> QED
    BY <1>2, <2>1, <2>2, EmptySeq
<1>4. \A c \in NonEmpty : In(c, file)
  BY <1>1, <1>2, <1>3 DEF ChunksKept, SizesInOrder, In
<1>5. NonEmpty' = NonEmpty
  BY <1>1, SameChunks
<1> QED
  BY <1>1, <1>4, <1>5 DEF Stream!Close, Stream!Stored, In

LEMMA StreamStep == WriterInv /\ [Next]_vars => [Stream!Next]_(Stream!streamVars)
<1> SUFFICES ASSUME WriterInv, [Next]_vars PROVE Stream!Next \/ UNCHANGED Stream!streamVars
  OBVIOUS
<1>0. multithreaded_compress' = multithreaded_compress /\ multithreaded_compress \in BOOLEAN
  BY SameOptions DEF WriterInv, TypeOK
<1>1. CASE ~multithreaded_compress
  BY <1>0, <1>1 DEF Stream!streamVars
<1>2. CASE multithreaded_compress
  <2>1. CASE make_space \/ SendLast
    BY <1>0, <1>2, <2>1, FillStep DEF Stream!Next
  <2>2. CASE write_chunk \/ DeliverCompressed
    BY <1>0, <1>2, <2>2, StoreStep DEF Stream!Next
  <2>3. CASE JoinSerializer
    BY <1>0, <1>2, <2>3, CloseStep DEF Stream!Next
  <2>4. CASE UNCHANGED <<chunks, file>> /\ (wpc' = "closed" <=> wpc = "closed")
    <3>1. NonEmpty' = NonEmpty
      BY <2>4, SameChunks
    <3> QED
      BY <1>0, <1>2, <2>4, <3>1 DEF Stream!streamVars
  <2>5. ~HandOver
    BY <1>2 DEF HandOver, WriterInv, TracedStages
  <2>6. CASE begin_packet \/ WriteCall \/ write_value \/ end_packet \/ DoneFeeding \/ JoinCompressor
             \/ TakeUncompressed \/ CompressorExits \/ compress_chunk \/ TakeCompressed \/ SerializerExits
             \/ self_test \/ UNCHANGED vars
    BY <2>4, <2>6 DEF begin_packet, WriteCall, write_value, end_packet, DoneFeeding, JoinCompressor,
         TakeUncompressed, CompressorExits, compress_chunk, TakeCompressed, SerializerExits,
         self_test, ReadHolding, ReadHeld, vars, writerVars, chunkVars, outVars
  <2> QED
    BY <2>1, <2>2, <2>3, <2>5, <2>6 DEF Next, TracedThread, Finalize, compressor, serializer, Poll, Closed
<1> QED
  BY <1>0, <1>1, <1>2

LEMMA StreamInit == Init => Stream!Init
<1> SUFFICES ASSUME Init PROVE Stream!Init
  OBVIOUS
<1>1. NonEmpty = {} /\ file = <<>> /\ wpc = "run"
  BY EmptySeq DEF Init, NonEmpty, ChunkNumbers
<1> QED
  BY <1>1 DEF Stream!Init

(***************************************************************************)
(* For any chunk size and any sequence of values, the two worker threads   *)
(* produce the stream that ChunkStream promises, when a thread of its own  *)
(* compresses: chunks that hold data reach the file in the order in which  *)
(* they were filled, and all of them before finalize closes it.            *)
(***************************************************************************)
THEOREM FileIsChunkStream == Spec => IsChunkStream
<1>1. Init => WriterInv /\ Stream!Init
  BY InitWriterInv, StreamInit
<1>2. WriterInv /\ [Next]_vars => WriterInv'
  BY NextWriterInv
<1>3. WriterInv /\ [Next]_vars => [Stream!Next]_(Stream!streamVars)
  BY StreamStep
<1> QED
  BY <1>1, <1>2, <1>3, PTL DEF Spec, IsChunkStream, Stream!Spec
=============================================================================
