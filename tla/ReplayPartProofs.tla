--------------------------- MODULE ReplayPartProofs ---------------------------
(***************************************************************************)
(* Three parts of the replayer that run beside the streams: the copy of    *)
(* the log that lava-cli keeps, the command buffers and fences that are    *)
(* submitted to the device of the replay, and the service that holds and   *)
(* watches the replay threads.                                             *)
(***************************************************************************)
EXTENDS LogCache, CommandBufferReplay, ServiceControl, SwapchainReplay,
        FiniteSetTheorems, SequenceTheorems, WellFoundedInduction, TLAPS

(***************************************************************************)
(* The copy of the replay log that lava-cli keeps is a prefix of the log   *)
(* of one session, for any length of a log and of a chunk, any number of   *)
(* restarts of the service and of commands that lava-cli is given.         *)
(***************************************************************************)

CliStates == {"idle", "request", "answered", "received", "reset", "emptied", "append", "write"}

CliRecords == [at : CliStates, expected : 0 .. MaxSession, session : 0 .. MaxSession,
               start : Nat, end : Nat, snapshot : Nat]

LogTypes ==
  /\ session \in 1 .. MaxSession /\ log \in Nat
  /\ cursor \in Nat /\ snapshot_end \in Nat /\ commit \in Int
  /\ cached_session \in 0 .. MaxSession
  /\ cache \in Seq(Nat \X Nat)
  /\ cli \in CliRecords

\* The cache holds the first bytes of the session its .session file names.
CacheOfSession ==
  /\ \A i \in DOMAIN cache : cache[i] = <<cached_session, i>>
  /\ cached_session = 0 => cache = <<>>

\* Past its first chunk an update works on a cache of the session it began with.
Expects ==
  cli.expected # 0 /\ cli.at \in {"request", "answered", "received", "append", "write"}
    => cached_session = cli.expected

\* Whoever writes to the files knows the session; a chunk is only written behind
\* the end of the cache, and a cache is only relabelled when it is empty.
Writes ==
  /\ cli.at \in {"answered", "received", "reset", "emptied", "append", "write"} => cli.session # 0
  /\ cli.at \in {"reset", "emptied"} => cli.expected \in {0, cli.session}
  /\ cli.at \in {"append", "write"} => cli.expected = cli.session
  /\ cli.at = "emptied" => cache = <<>>
  /\ cli.at = "write" => Len(cache) = cli.start

LogInv == LogTypes /\ CursorInLog /\ CacheOfSession /\ Expects /\ Writes

-----------------------------------------------------------------------------
LEMMA IdleRecord ==
  LogIdle \in CliRecords /\ LogIdle.at = "idle" /\ LogIdle.expected = 0 /\ LogIdle.session = 0
BY LogAssumption DEF LogIdle, CliRecords, CliStates

LEMMA CliUpdates ==
  ASSUME NEW c \in CliRecords, NEW a \in CliStates, NEW n \in Nat, NEW s \in 1 .. MaxSession
  PROVE  /\ [c EXCEPT !.at = a] \in CliRecords
         /\ [c EXCEPT !.start = n] \in CliRecords
         /\ [c EXCEPT !.at = a, !.session = s] \in CliRecords
<1>1. s \in 0 .. MaxSession
  BY LogAssumption
<1> QED
  BY <1>1 DEF CliRecords

LEMMA LogInitInv == LogInit => LogInv
BY LogAssumption
DEF LogInit, LogInv, LogTypes, CursorInLog, CacheOfSession, Expects, Writes, LogIdle, CliStates, CliRecords

LEMMA LogNextInv == LogInv /\ [LogNext]_logvars => LogInv'
<1> SUFFICES ASSUME LogInv, [LogNext]_logvars PROVE LogInv'
  OBVIOUS
<1> USE LogAssumption, IdleRecord DEF LogInv
<1>1. CASE ReplayLogs
  BY <1>1 DEF ReplayLogs, files, CursorInLog, CacheOfSession, Expects, Writes, LogTypes, CliRecords, CliStates
<1>2. CASE ServiceRestarts
  BY <1>2 DEF ServiceRestarts, files, CursorInLog, CacheOfSession, Expects, Writes, LogTypes, CliRecords, CliStates
<1>3. CASE service_log_update_response
  <2>1. /\ snapshot_end' \in Nat /\ cursor <= snapshot_end' /\ snapshot_end' <= log
        /\ commit' \in cursor .. snapshot_end' /\ commit' \in Nat
        /\ UNCHANGED <<session, log, cursor, cache, cached_session>>
    BY <1>3 DEF service_log_update_response, files, CursorInLog, LogTypes
  <2>2. cli \in CliRecords /\ cli.at = "request" /\ session \in 1 .. MaxSession /\ cursor \in Nat
    BY <1>3 DEF service_log_update_response, LogTypes
  <2>3. cli' \in CliRecords /\ cli'.at = "answered" /\ cli'.session = session /\ cli'.expected = cli.expected
    <3>1. cli' = [at |-> "answered", expected |-> cli.expected, session |-> session,
                  start |-> cursor, end |-> commit', snapshot |-> snapshot_end']
      BY <1>3 DEF service_log_update_response
    <3> QED
      BY <3>1, <2>1, <2>2 DEF CliRecords, CliStates
  <2>4. LogTypes' /\ CursorInLog' /\ CacheOfSession'
    BY <2>1, <2>3 DEF LogTypes, CursorInLog, CacheOfSession
  <2>5. Expects' /\ Writes'
    BY <2>1, <2>2, <2>3 DEF Expects, Writes, LogTypes
  <2> QED
    BY <2>4, <2>5
<1>4. CASE UpdateRefused
  BY <1>4 DEF UpdateRefused, server, files, CursorInLog, CacheOfSession, Expects, Writes, LogTypes, CliRecords, CliStates
<1>5. CASE service_client
  <2>0. cli' \in CliRecords
    BY <1>5 DEF service_client, LogTypes, CliRecords, CliStates
  <2>1. LogTypes'
    BY <1>5, <2>0 DEF service_client, files, LogTypes, CursorInLog
  <2>2. CursorInLog'
    BY <1>5, SMTT(30) DEF service_client, files, CursorInLog, LogTypes, CliRecords, CliStates
  <2>3. CacheOfSession'
    BY <1>5 DEF service_client, files, CacheOfSession, Writes, LogTypes
  <2>4. Expects'
    BY <1>5 DEF service_client, files, Expects, Writes, LogTypes, CliRecords, CliStates
  <2>5. Writes'
    BY <1>5 DEF service_client, files, Expects, Writes, LogTypes, CliRecords, CliStates
  <2> QED
    BY <2>1, <2>2, <2>3, <2>4, <2>5
<1>6. CASE LogUpdate
  <2>1. LogTypes'
    BY <1>6 DEF LogUpdate, server, files, LogTypes, CliRecords, CliStates
  <2>2. CursorInLog'
    BY <1>6 DEF LogUpdate, server, files, CursorInLog
  <2>3. CacheOfSession'
    BY <1>6 DEF LogUpdate, server, files, CacheOfSession, Writes, LogTypes
  <2>4. Expects'
    BY <1>6 DEF LogUpdate, server, files, Expects, Writes, LogTypes, CliRecords, CliStates
  <2>5. Writes'
    BY <1>6 DEF LogUpdate, server, files, Expects, Writes, LogTypes, CliRecords, CliStates
  <2> QED
    BY <2>1, <2>2, <2>3, <2>4, <2>5
<1>7. CASE validate_log_session
  <2>0. cli' \in CliRecords
    BY <1>7, CliUpdates DEF validate_log_session, LogTypes, CliStates
  <2>1. LogTypes'
    BY <1>7, <2>0 DEF validate_log_session, server, files, LogTypes
  <2>2. CursorInLog'
    BY <1>7 DEF validate_log_session, server, files, CursorInLog
  <2>3. CacheOfSession'
    BY <1>7 DEF validate_log_session, server, files, CacheOfSession, Writes, LogTypes
  <2>4. Expects'
    BY <1>7 DEF validate_log_session, server, files, Expects, Writes, LogTypes, CliRecords, CliStates
  <2>5. Writes'
    BY <1>7 DEF validate_log_session, server, files, Expects, Writes, LogTypes, CliRecords, CliStates
  <2> QED
    BY <2>1, <2>2, <2>3, <2>4, <2>5
<1>8. CASE update_log_cache
  <2>1. LogTypes'
    BY <1>8 DEF update_log_cache, server, files, LogTypes, CliRecords, CliStates
  <2>2. CursorInLog'
    BY <1>8 DEF update_log_cache, server, files, CursorInLog
  <2>3. CacheOfSession'
    BY <1>8 DEF update_log_cache, server, files, CacheOfSession, Writes, LogTypes
  <2>4. Expects'
    BY <1>8 DEF update_log_cache, server, files, Expects, Writes, LogTypes, CliRecords, CliStates
  <2>5. Writes'
    BY <1>8 DEF update_log_cache, server, files, Expects, Writes, LogTypes, CliRecords, CliStates
  <2> QED
    BY <2>1, <2>2, <2>3, <2>4, <2>5
<1>9. CASE synchronize_log_session
  <2>0. cli' \in CliRecords
    BY <1>9 DEF synchronize_log_session, LogTypes, CliRecords, CliStates
  <2>1. LogTypes'
    <3>1. /\ cache' \in {cache, <<>>} /\ cached_session' \in {cached_session, cli.session}
          /\ UNCHANGED server
      BY <1>9 DEF synchronize_log_session
    <3>2. cli.session \in 0 .. MaxSession
      BY DEF LogTypes, CliRecords
    <3>3. cache' \in Seq(Nat \X Nat)
      <4>1. cache \in Seq(Nat \X Nat) /\ <<>> \in Seq(Nat \X Nat)
        BY DEF LogTypes
      <4> QED
        BY <3>1, <4>1
    <3>4. cached_session' \in 0 .. MaxSession
      BY <3>1, <3>2 DEF LogTypes
    <3> QED
      BY <2>0, <3>1, <3>3, <3>4 DEF server, LogTypes
  <2>2. CursorInLog'
    BY <1>9 DEF synchronize_log_session, server, CursorInLog
  <2>3. CacheOfSession'
    BY <1>9 DEF synchronize_log_session, server, CacheOfSession, Writes, LogTypes
  <2>4. Expects'
    BY <1>9 DEF synchronize_log_session, server, Expects, Writes, LogTypes, CliRecords, CliStates
  <2>5. Writes'
    BY <1>9 DEF synchronize_log_session, server, Expects, Writes, LogTypes, CliRecords, CliStates
  <2> QED
    BY <2>1, <2>2, <2>3, <2>4, <2>5
<1>10. CASE append_log_chunk
  <2>0. cli' \in CliRecords
    BY <1>10 DEF append_log_chunk, LogTypes, CliRecords, CliStates
  <2>1. LogTypes'
    BY <1>10, <2>0 DEF append_log_chunk, server, LogTypes
  <2>2. CursorInLog'
    BY <1>10 DEF append_log_chunk, server, CursorInLog
  <2>3. CacheOfSession'
    BY <1>10 DEF append_log_chunk, server, CacheOfSession, Writes, LogTypes
  <2>4. Expects'
    BY <1>10 DEF append_log_chunk, server, Expects, Writes, LogTypes, CliRecords, CliStates
  <2>5. Writes'
    BY <1>10 DEF append_log_chunk, server, Expects, Writes, LogTypes, CliRecords, CliStates
  <2> QED
    BY <2>1, <2>2, <2>3, <2>4, <2>5
<1>11. CASE WriteChunk
  <2>1. CASE cli.start < cli.end
    <3>1. cached_session = cli.session /\ Len(cache) = cli.start
      BY <1>11 DEF WriteChunk, Expects, Writes, LogTypes, CliRecords, CliStates
    <3>2. /\ cache' = Append(cache, <<cli.session, cli.start + 1>>)
          /\ UNCHANGED <<server, cached_session>>
          /\ cli' = [cli EXCEPT !.start = cli.start + 1]
      BY <1>11, <2>1 DEF WriteChunk, LogTypes, CliRecords, CliStates
    <3>3. LogTypes'
      <4>1. cli' \in CliRecords
        <5>1. cli \in CliRecords /\ cli.start + 1 \in Nat
          BY DEF LogTypes, CliRecords
        <5> QED
          BY <3>2, <5>1 DEF CliRecords
      <4>2. <<cli.session, cli.start + 1>> \in Nat \X Nat
        BY DEF LogTypes, CliRecords
      <4>3. cache' \in Seq(Nat \X Nat)
        BY <3>2, <4>2 DEF LogTypes
      <4> QED
        BY <3>2, <4>1, <4>3 DEF server, LogTypes
    <3>4. CursorInLog' /\ Expects'
      BY <3>2 DEF server, CursorInLog, Expects
    <3>5. CacheOfSession'
      <4>1. cache \in Seq(Nat \X Nat) /\ cli.start \in Nat
        BY DEF LogTypes, CliRecords
      <4>2. /\ DOMAIN cache' = 1 .. Len(cache) + 1 /\ DOMAIN cache = 1 .. Len(cache)
            /\ cache'[Len(cache) + 1] = <<cli.session, cli.start + 1>>
            /\ \A i \in 1 .. Len(cache) : cache'[i] = cache[i]
        BY <3>2, <4>1
      <4>3. cached_session # 0
        BY <1>11, <3>1 DEF WriteChunk, Writes
      <4> QED
        BY <3>1, <3>2, <4>1, <4>2, <4>3 DEF CacheOfSession
    <3>6. Writes'
      BY <1>11, <3>1, <3>2, SMTT(30) DEF WriteChunk, Writes, LogTypes, CliRecords, CliStates
    <3> QED
      BY <3>3, <3>4, <3>5, <3>6
  <2>2. CASE ~(cli.start < cli.end)
    BY <1>11, <2>2 DEF WriteChunk, server, CursorInLog, CacheOfSession, Expects, Writes, LogTypes, CliRecords, CliStates
  <2> QED
    BY <2>1, <2>2
<1>12. CASE ClientKilled
  BY <1>12 DEF ClientKilled, server, files, CursorInLog, CacheOfSession, Expects, Writes, LogTypes, CliRecords, CliStates
<1>13. CASE UNCHANGED logvars
  BY <1>13 DEF logvars, CursorInLog, CacheOfSession, Expects, Writes, LogTypes, CliRecords, CliStates
<1> QED
  BY <1>1, <1>2, <1>3, <1>4, <1>5, <1>6, <1>7, <1>8, <1>9, <1>10, <1>11, <1>12, <1>13 DEF LogNext

LEMMA LogInvImplies == LogInv => LogKept
<1> SUFFICES ASSUME LogInv PROVE CacheIsPrefix
  BY DEF LogInv, LogKept
<1>1. CASE cache = <<>>
  BY <1>1, LogAssumption DEF CacheIsPrefix
<1>2. CASE cache # <<>>
  <2>1. cached_session \in 1 .. MaxSession
    BY <1>2 DEF LogInv, LogTypes, CacheOfSession
  <2>2. cache = [i \in 1 .. Len(cache) |-> <<cached_session, i>>]
    BY DEF LogInv, LogTypes, CacheOfSession
  <2>3. cache[1] = <<cached_session, 1>>
    BY <1>2 DEF LogInv, LogTypes, CacheOfSession
  <2> QED
    BY <2>1, <2>2, <2>3 DEF CacheIsPrefix
<1> QED
  BY <1>1, <1>2

(***************************************************************************)
(* Whatever is lost, killed or restarted between service_client and        *)
(* append_log_chunk, the cursor of the service stays inside its log and    *)
(* the cache of lava-cli is a prefix of the log of the session it names.   *)
(***************************************************************************)
THEOREM LogIsKept == LogSpec => []LogKept
<1>1. LogInit => LogInv
  BY LogInitInv
<1>2. LogInv /\ [LogNext]_logvars => LogInv'
  BY LogNextInv
<1>3. LogInv => LogKept
  BY LogInvImplies
<1> QED
  BY <1>1, <1>2, <1>3, PTL DEF LogSpec

-----------------------------------------------------------------------------
(***************************************************************************)
(* For every number of command buffers, fences, queues and submissions,    *)
(* and whatever the speed of the two devices: replay never touches a       *)
(* command buffer or a fence that its own device still uses.               *)
(***************************************************************************)

-----------------------------------------------------------------------------
(***************************************************************************)
(* The inductive invariant.                                                *)
(***************************************************************************)
FenceStates == {"unsignaled", "pending", "signaled", "destroyed"}
MaybeFence == SubmitFences \cup {NoFence}
Submission == [cb : CommandBuffers, fence : MaybeFence, number : Int]
Recording == [state : {"initial", "recording", "executable", "freed"}, shared : BOOLEAN, number : Int]

TrackType(t) ==
  /\ t.pending \subseteq CommandBuffers
  /\ t.queue \in [CommandBuffers -> SubmitQueues \cup {NoQueue}]
  /\ t.fence \in [CommandBuffers -> MaybeFence]
  /\ t.of \in [SubmitFences -> SUBSET CommandBuffers]

CbTypes ==
  /\ recorded \in [CommandBuffers -> Recording]
  /\ onCapture \in [SubmitQueues -> Seq(Submission)]
  /\ onReplay \in [SubmitQueues -> Seq(Submission)]
  /\ captureFence \in [SubmitFences -> FenceStates]
  /\ replayFence \in [SubmitFences -> FenceStates]
  /\ observed \subseteq SubmitFences
  /\ TrackType(Tracking)

\* On either device: a fence that is pending belongs to one submission that runs.
OneUser(queues) ==
  \A p, q \in SubmitQueues : \A i \in DOMAIN queues[p], j \in DOMAIN queues[q] :
    queues[p][i].fence = queues[q][j].fence /\ queues[p][i].fence # NoFence => p = q /\ i = j
UsedPending(queues, fences) ==
  \A q \in SubmitQueues : \A i \in DOMAIN queues[q] :
    queues[q][i].fence # NoFence => fences[queues[q][i].fence] = "pending"
PendingUsed(queues, fences) ==
  \A f \in SubmitFences : fences[f] = "pending" =>
    \E q \in SubmitQueues : \E i \in DOMAIN queues[q] : queues[q][i].fence = f
FenceUse(queues, fences) ==
  OneUser(queues) /\ UsedPending(queues, fences) /\ PendingUsed(queues, fences)

\* The fences of the two devices differ only in how far their submissions are.
FencesAgree ==
  /\ \A f \in SubmitFences :
       \/ captureFence[f] = replayFence[f]
       \/ {captureFence[f], replayFence[f]} \subseteq {"pending", "signaled"}
  /\ \A f \in observed : replayFence[f] \in {"signaled", "destroyed"}

\* What runs is what was recorded; a command buffer runs on one queue, and more than
\* once at a time only with SIMULTANEOUS_USE.
RunsRecorded ==
  \A q \in SubmitQueues : \A i \in DOMAIN onReplay[q] :
    /\ recorded[onReplay[q][i].cb].state = "executable"
    /\ recorded[onReplay[q][i].cb].number = onReplay[q][i].number
    /\ recorded[onReplay[q][i].cb].shared => q \in SharedQueues
    /\ \A p \in SubmitQueues : \A j \in DOMAIN onReplay[p] :
         onReplay[p][j].cb = onReplay[q][i].cb /\ ~(p = q /\ j = i) => recorded[onReplay[q][i].cb].shared

\* The last submission of a command buffer that runs still runs, and is the tracked one.
LastTracked ==
  \A q \in SubmitQueues : \A i \in DOMAIN onReplay[q] :
    LET c == onReplay[q][i].cb IN
    /\ c \in pending /\ submitQueue[c] = q
    /\ \E j \in DOMAIN onReplay[q] : j >= i /\ onReplay[q][j].cb = c /\ onReplay[q][j].fence = submitFence[c]

ListsAgree(t) ==
  \A c \in CommandBuffers, f \in SubmitFences :
    replayFence[f] # "destroyed" => (c \in t.of[f] <=> t.fence[c] = f)

CbInv == /\ CbTypes /\ FenceUse(onCapture, captureFence) /\ FenceUse(onReplay, replayFence)
         /\ FencesAgree /\ RunsRecorded /\ LastTracked /\ ListsAgree(Tracking)

-----------------------------------------------------------------------------
(***************************************************************************)
(* The bookkeeping.  Each operation keeps the lists of the fences and the  *)
(* records of the command buffers in agreement, and leaves the command     *)
(* buffers alone that it is not about.                                     *)
(***************************************************************************)
Same(t, u, c) == (c \in u.pending <=> c \in t.pending) /\ u.queue[c] = t.queue[c] /\ u.fence[c] = t.fence[c]

Sound(t) == TrackType(t) /\ ListsAgree(t)

LEMMA ClearCommandBuffers ==
  ASSUME NEW t, Sound(t), NEW cs \in SUBSET CommandBuffers,
         NEW u, u = replay_clear_pending_commandbuffer(t, cs)
  PROVE  Sound(u) /\ \A c \in CommandBuffers \ cs : Same(t, u, c)
<1>1. /\ u.pending = t.pending \ cs
      /\ u.queue = [c \in CommandBuffers |-> IF c \in cs THEN NoQueue ELSE t.queue[c]]
      /\ u.fence = [c \in CommandBuffers |-> IF c \in cs THEN NoFence ELSE t.fence[c]]
      /\ u.of = [f \in SubmitFences |-> IF FenceExists(f) THEN t.of[f] \ {c \in cs : t.fence[c] = f} ELSE t.of[f]]
  BY DEF replay_clear_pending_commandbuffer, Forget
<1>2. TrackType(u)
  BY <1>1 DEF Sound, TrackType, MaybeFence
<1>3. ListsAgree(u)
  <2> SUFFICES ASSUME NEW c \in CommandBuffers, NEW f \in SubmitFences, replayFence[f] # "destroyed"
               PROVE  c \in u.of[f] <=> u.fence[c] = f
    BY DEF ListsAgree
  <2>1. FenceExists(f) /\ f # NoFence
    BY CbAssumption DEF FenceExists
  <2>2. u.of[f] = t.of[f] \ {d \in cs : t.fence[d] = f}
    BY <1>1, <2>1
  <2>3. c \in t.of[f] <=> t.fence[c] = f
    BY DEF Sound, ListsAgree
  <2>4. u.fence[c] = IF c \in cs THEN NoFence ELSE t.fence[c]
    BY <1>1
  <2> QED BY <2>1, <2>2, <2>3, <2>4
<1>4. ASSUME NEW c \in CommandBuffers \ cs PROVE Same(t, u, c)
  BY <1>1 DEF Same
<1> QED BY <1>2, <1>3, <1>4 DEF Sound

LEMMA ClearFences ==
  ASSUME NEW t, Sound(t), NEW fs, NEW u, u = replay_clear_pending_fence(t, fs)
  PROVE  Sound(u) /\ \A c \in CommandBuffers : t.fence[c] \notin fs => Same(t, u, c)
<1> DEFINE known == {f \in fs : FenceExists(f)}
           gone == {c \in CommandBuffers : t.fence[c] \in known /\ c \in t.of[t.fence[c]]}
<1>1. /\ u.pending = t.pending \ gone
      /\ u.queue = [c \in CommandBuffers |-> IF c \in gone THEN NoQueue ELSE t.queue[c]]
      /\ u.fence = [c \in CommandBuffers |-> IF c \in gone THEN NoFence ELSE t.fence[c]]
      /\ u.of = [f \in SubmitFences |-> IF f \in known THEN {} ELSE t.of[f]]
  BY DEF replay_clear_pending_fence, Forget
<1>2. TrackType(u)
  <2> HIDE DEF gone, known
  <2> QED BY <1>1 DEF Sound, TrackType, MaybeFence
<1>3. ListsAgree(u)
  <2> SUFFICES ASSUME NEW c \in CommandBuffers, NEW f \in SubmitFences, replayFence[f] # "destroyed"
               PROVE  c \in u.of[f] <=> u.fence[c] = f
    BY DEF ListsAgree
  <2>1. FenceExists(f) /\ f # NoFence
    BY CbAssumption DEF FenceExists
  <2>2. c \in t.of[f] <=> t.fence[c] = f
    BY DEF Sound, ListsAgree
  <2>3. f \in known <=> f \in fs
    BY <2>1
  <2>4. u.of[f] = IF f \in fs THEN {} ELSE t.of[f]
    <3> HIDE DEF gone, known
    <3> QED BY <1>1, <2>3
  <2>5. u.fence[c] = IF c \in gone THEN NoFence ELSE t.fence[c]
    <3> HIDE DEF gone, known
    <3> QED BY <1>1
  <2>6. t.fence[c] = f => (c \in gone <=> f \in fs)
    BY <2>2, <2>3
  <2> HIDE DEF gone, known
  <2> QED BY <2>1, <2>2, <2>4, <2>5, <2>6
<1>4. ASSUME NEW c \in CommandBuffers, t.fence[c] \notin fs PROVE Same(t, u, c)
  <2>1. c \notin gone
    BY <1>4
  <2> HIDE DEF gone, known
  <2> QED BY <2>1, <1>1 DEF Same
<1> QED BY <1>2, <1>3, <1>4 DEF Sound

LEMMA WaitForSome ==
  ASSUME NEW t, Sound(t), NEW cs \in SUBSET CommandBuffers, NEW allow \in BOOLEAN,
         NEW running \in SUBSET CommandBuffers,
         \A d \in cs : d \in t.pending /\ ~(allow /\ recorded[d].shared) =>
           d \notin running /\ (FenceExists(t.fence[d]) => \A c \in running : t.fence[c] # t.fence[d]),
         NEW u, u = replay_wait_for_pending_commandbuffer(t, cs, allow)
  PROVE  Sound(u) /\ \A c \in running : Same(t, u, c)
<1> DEFINE waits == {c \in cs : c \in t.pending /\ ~(allow /\ recorded[c].shared)}
           onQueue == {c \in waits : ~FenceExists(t.fence[c])}
           fs == {t.fence[c] : c \in waits \ onQueue}
           waited == replay_clear_pending_fence(t, fs)
<1>1. u = replay_clear_pending_commandbuffer(waited, onQueue)
  BY DEF replay_wait_for_pending_commandbuffer
<1>2. \A c \in running : c \notin onQueue /\ t.fence[c] \notin fs
  OBVIOUS
<1>3. onQueue \in SUBSET CommandBuffers
  OBVIOUS
<1> HIDE DEF fs, onQueue
<1>4. Sound(waited) /\ \A c \in CommandBuffers : t.fence[c] \notin fs => Same(t, waited, c)
  BY ClearFences
<1> HIDE DEF waited
<1>5. Sound(u) /\ \A c \in CommandBuffers \ onQueue : Same(waited, u, c)
  BY <1>1, <1>3, <1>4, ClearCommandBuffers
<1> QED BY <1>2, <1>4, <1>5 DEF Same

Marked(t, u, c, q, f) ==
  /\ c \in u.pending /\ u.queue[c] = q /\ u.fence[c] = f
  /\ \A d \in CommandBuffers : d # c => Same(t, u, d)

LEMMA MarkPending ==
  ASSUME NEW t, Sound(t), NEW c \in CommandBuffers, NEW q \in SubmitQueues, NEW f \in MaybeFence,
         NEW u, u = replay_mark_pending_commandbuffer(t, c, q, f)
  PROVE  Sound(u) /\ Marked(t, u, c, q, f)
<1> DEFINE v == replay_clear_pending_commandbuffer(t, {c})
<1>1. Sound(v) /\ \A d \in CommandBuffers \ {c} : Same(t, v, d)
  BY ClearCommandBuffers
<1>2. v.fence[c] = NoFence
  BY DEF replay_clear_pending_commandbuffer, Forget
<1>3. /\ u.pending = v.pending \cup {c}
      /\ u.queue = [v.queue EXCEPT ![c] = q]
      /\ u.fence = [v.fence EXCEPT ![c] = f]
      /\ u.of = [x \in SubmitFences |-> IF x = f THEN v.of[x] \cup {c} ELSE v.of[x]]
  BY DEF replay_mark_pending_commandbuffer
<1> HIDE DEF v
<1>4. TrackType(u)
  BY <1>1, <1>3 DEF Sound, TrackType
<1>5. u.queue[c] = q /\ u.fence[c] = f /\ c \in u.pending
  BY <1>1, <1>3 DEF Sound, TrackType
<1>6. ASSUME NEW d \in CommandBuffers, d # c PROVE Same(t, u, d)
  <2>1. u.queue[d] = v.queue[d] /\ u.fence[d] = v.fence[d]
    BY <1>1, <1>3, <1>6 DEF Sound, TrackType
  <2> QED BY <2>1, <1>1, <1>3, <1>6 DEF Same
<1>7. ListsAgree(u)
  <2> SUFFICES ASSUME NEW d \in CommandBuffers, NEW x \in SubmitFences, replayFence[x] # "destroyed"
               PROVE  d \in u.of[x] <=> u.fence[d] = x
    BY DEF ListsAgree
  <2>1. d \in v.of[x] <=> v.fence[d] = x
    BY <1>1 DEF Sound, ListsAgree
  <2>2. u.of[x] = IF x = f THEN v.of[x] \cup {c} ELSE v.of[x]
    BY <1>3
  <2>3. CASE d = c
    <3>1. d \notin v.of[x]
      BY <2>1, <2>3, <1>2, CbAssumption
    <3> QED BY <3>1, <2>2, <2>3, <1>5
  <2>4. CASE d # c
    <3>1. u.fence[d] = v.fence[d]
      BY <2>4, <1>1, <1>3 DEF Sound, TrackType
    <3> QED BY <3>1, <2>1, <2>2, <2>4
  <2> QED BY <2>3, <2>4
<1> QED BY <1>4, <1>5, <1>6, <1>7 DEF Sound, Marked

-----------------------------------------------------------------------------
(***************************************************************************)
(* What replay has waited for does not run.                                *)
(***************************************************************************)
RunningNow == {c \in CommandBuffers : Running(onReplay, c)}

LEMMA SubmissionType ==
  ASSUME CbInv, NEW q \in SubmitQueues, NEW i \in DOMAIN onReplay[q]
  PROVE  /\ onReplay[q][i] \in Submission
         /\ onReplay[q][i].cb \in CommandBuffers /\ onReplay[q][i].fence \in MaybeFence
<1>1. onReplay[q] \in Seq(Submission)
  BY DEF CbInv, CbTypes
<1>2. onReplay[q][i] \in Submission
  BY <1>1
<1> QED BY <1>2 DEF Submission

\* The fence that a running command buffer is tracked by has not been signaled.
LEMMA RunningFence ==
  ASSUME CbInv, NEW c \in RunningNow
  PROVE  /\ c \in pending /\ submitQueue[c] \in SubmitQueues /\ onReplay[submitQueue[c]] # <<>>
         /\ submitFence[c] # NoFence =>
              submitFence[c] \in SubmitFences /\ replayFence[submitFence[c]] = "pending"
<1>1. PICK q \in SubmitQueues : \E i \in DOMAIN onReplay[q] : onReplay[q][i].cb = c
  BY DEF RunningNow, Running
<1>2. PICK i \in DOMAIN onReplay[q] : onReplay[q][i].cb = c
  BY <1>1
<1>3. /\ c \in pending /\ submitQueue[c] = q
      /\ \E j \in DOMAIN onReplay[q] : onReplay[q][j].fence = submitFence[c]
  BY <1>2 DEF CbInv, LastTracked
<1>4. PICK j \in DOMAIN onReplay[q] : onReplay[q][j].fence = submitFence[c]
  BY <1>3
<1>5. onReplay[q] # <<>>
  BY <1>4
<1>6. submitFence[c] # NoFence => replayFence[submitFence[c]] = "pending"
  BY <1>4 DEF CbInv, FenceUse, OneUser, UsedPending, PendingUsed
<1>7. submitFence[c] \in MaybeFence
  BY <1>4, SubmissionType
<1> QED BY <1>3, <1>5, <1>6, <1>7 DEF MaybeFence

LEMMA WaitedIsOver ==
  ASSUME CbInv, NEW c \in CommandBuffers, WaitedFor(c)
  PROVE  /\ c \notin RunningNow
         /\ c \in pending /\ FenceExists(submitFence[c]) =>
              \A d \in RunningNow : submitFence[d] # submitFence[c]
<1>1. ASSUME c \in RunningNow PROVE FALSE
  <2>1. CASE submitFence[c] = NoFence
    BY <1>1, <2>1, RunningFence, CbAssumption DEF WaitedFor, FenceExists
  <2>2. CASE submitFence[c] # NoFence
    BY <1>1, <2>2, RunningFence DEF WaitedFor, FenceExists
  <2> QED BY <2>1, <2>2
<1>2. ASSUME c \in pending, FenceExists(submitFence[c]), NEW d \in RunningNow, submitFence[d] = submitFence[c]
      PROVE  FALSE
  BY <1>2, RunningFence DEF WaitedFor, FenceExists
<1> QED BY <1>1, <1>2

\* A fence that is signaled, and what is tracked by it.
LEMMA SignaledIsOver ==
  ASSUME CbInv, NEW fs \in SUBSET SubmitFences, \A f \in fs : replayFence[f] = "signaled"
  PROVE  \A c \in RunningNow : submitFence[c] \notin fs
BY RunningFence, CbAssumption

-----------------------------------------------------------------------------
(***************************************************************************)
(* A step of replay that starts or ends nothing on the device and forgets  *)
(* or records only command buffers that do not run.                        *)
(***************************************************************************)
\* A destroyed fence stays destroyed.
NothingRevived == \A f \in SubmitFences : replayFence'[f] # "destroyed" => replayFence[f] # "destroyed"

LEMMA TrackingKept ==
  ASSUME CbInv, NEW u, Sound(u), \A c \in RunningNow : Same(Tracking, u, c),
         Track(u), onReplay' = onReplay, NothingRevived
  PROVE  LastTracked' /\ TrackType(Tracking)' /\ ListsAgree(Tracking)'
<1>1. pending' = u.pending /\ submitQueue' = u.queue /\ submitFence' = u.fence /\ fencePending' = u.of
  BY DEF Track
<1>2. TrackType(Tracking)' /\ ListsAgree(Tracking)'
  BY <1>1 DEF Sound, TrackType, ListsAgree, Tracking, NothingRevived
<1>3. ASSUME NEW q \in SubmitQueues, NEW i \in DOMAIN onReplay[q], NEW c, c = onReplay[q][i].cb
      PROVE  /\ c \in pending' /\ submitQueue'[c] = q
             /\ \E j \in DOMAIN onReplay[q] :
                  j >= i /\ onReplay[q][j].cb = c /\ onReplay[q][j].fence = submitFence'[c]
  <2>1. c \in CommandBuffers /\ c \in RunningNow
    BY <1>3, SubmissionType DEF RunningNow, Running
  <2>2. (c \in pending' <=> c \in pending) /\ submitQueue'[c] = submitQueue[c] /\ submitFence'[c] = submitFence[c]
    BY <2>1, <1>1 DEF Same, Tracking
  <2>3. /\ c \in pending /\ submitQueue[c] = q
        /\ \E j \in DOMAIN onReplay[q] :
             j >= i /\ onReplay[q][j].cb = c /\ onReplay[q][j].fence = submitFence[c]
    BY <1>3 DEF CbInv, LastTracked
  <2> QED BY <2>2, <2>3
<1>4. LastTracked'
  BY <1>3 DEF LastTracked
<1> QED BY <1>2, <1>4

LEMMA RecordedKept ==
  ASSUME CbInv, onReplay' = onReplay, recorded' \in [CommandBuffers -> Recording],
         \A c \in RunningNow : recorded'[c] = recorded[c]
  PROVE  RunsRecorded'
<1>1. ASSUME NEW q \in SubmitQueues, NEW i \in DOMAIN onReplay[q]
      PROVE  recorded'[onReplay[q][i].cb] = recorded[onReplay[q][i].cb]
  BY SubmissionType DEF RunningNow, Running
<1> QED BY <1>1 DEF CbInv, RunsRecorded

LEMMA ObservedRest ==
  ASSUME CbInv, UNCHANGED <<onCapture, onReplay, captureFence, replayFence>>,
         observed' \subseteq SubmitFences,
         \A f \in observed' : f \in observed \/ replayFence[f] = "signaled",
         recorded' \in [CommandBuffers -> Recording],
         \A c \in RunningNow : recorded'[c] = recorded[c],
         NEW u, Sound(u), \A c \in RunningNow : Same(Tracking, u, c), Track(u)
  PROVE  CbInv'
<1>1. LastTracked' /\ TrackType(Tracking)' /\ ListsAgree(Tracking)'
  BY TrackingKept DEF NothingRevived
<1>2. RunsRecorded'
  BY RecordedKept
<1>3. CbTypes'
  BY <1>1 DEF CbInv, CbTypes
<1>4. FenceUse(onCapture, captureFence)' /\ FenceUse(onReplay, replayFence)'
  BY DEF CbInv, FenceUse, OneUser, UsedPending, PendingUsed
<1>5. FencesAgree'
  BY DEF CbInv, FencesAgree
<1> QED BY <1>1, <1>2, <1>3, <1>4, <1>5 DEF CbInv

LEMMA DevicesRest ==
  ASSUME CbInv, UNCHANGED <<onCapture, onReplay, captureFence, replayFence, observed>>,
         recorded' \in [CommandBuffers -> Recording],
         \A c \in RunningNow : recorded'[c] = recorded[c],
         NEW u, Sound(u), \A c \in RunningNow : Same(Tracking, u, c), Track(u)
  PROVE  CbInv'
<1>1. observed' \subseteq SubmitFences /\ \A f \in observed' : f \in observed
  BY DEF CbInv, CbTypes
<1> QED BY <1>1, ObservedRest

LEMMA TrackingSound ==
  ASSUME CbInv PROVE Sound(Tracking) /\ recorded \in [CommandBuffers -> Recording]
BY DEF CbInv, CbTypes, Sound

-----------------------------------------------------------------------------
(***************************************************************************)
(* Recording.                                                              *)
(***************************************************************************)
LEMMA WaitKeeps ==
  ASSUME CbInv, NEW cs \in SUBSET CommandBuffers, \A c \in cs : WaitedFor(c),
         Track(replay_wait_for_pending_commandbuffer(Tracking, cs, FALSE)),
         UNCHANGED <<onCapture, onReplay, captureFence, replayFence, observed>>,
         recorded' \in [CommandBuffers -> Recording],
         \A c \in CommandBuffers \ cs : recorded'[c] = recorded[c]
  PROVE  CbInv'
<1> DEFINE u == replay_wait_for_pending_commandbuffer(Tracking, cs, FALSE)
<1>1. RunningNow \in SUBSET CommandBuffers
  BY DEF RunningNow
<1>2. \A c \in RunningNow : c \notin cs
  BY WaitedIsOver DEF RunningNow
<1>3. ASSUME NEW d \in cs, d \in Tracking.pending
      PROVE  d \notin RunningNow /\ (FenceExists(Tracking.fence[d]) =>
               \A c \in RunningNow : Tracking.fence[c] # Tracking.fence[d])
  BY <1>3, WaitedIsOver DEF Tracking
<1>4. Sound(u) /\ \A c \in RunningNow : Same(Tracking, u, c)
  BY <1>1, <1>3, TrackingSound, WaitForSome
<1>5. Track(u)
  OBVIOUS
<1> HIDE DEF u
<1> QED BY <1>1, <1>2, <1>4, <1>5, DevicesRest

LEMMA RerecordKeeps ==
  ASSUME CbInv, NEW c \in CommandBuffers, NEW state \in {"initial", "recording", "freed"},
         NEW shared \in BOOLEAN, replay_cleanup_commandbuffer_for_rerecord(c, state, shared)
  PROVE  CbInv'
<1>1. recorded \in [CommandBuffers -> Recording]
  BY TrackingSound
<1>2. recorded[c].number \in Int
  BY <1>1 DEF Recording
<1>3. [state |-> state, shared |-> shared, number |-> (recorded[c].number + 1) % 2] \in Recording
  BY <1>2 DEF Recording
<1>4. /\ recorded' \in [CommandBuffers -> Recording]
      /\ \A d \in CommandBuffers \ {c} : recorded'[d] = recorded[d]
  BY <1>1, <1>3 DEF replay_cleanup_commandbuffer_for_rerecord
<1>5. /\ WaitedFor(c) /\ Track(replay_wait_for_pending_commandbuffer(Tracking, {c}, FALSE))
      /\ UNCHANGED <<onCapture, onReplay, captureFence, replayFence, observed>>
  BY DEF replay_cleanup_commandbuffer_for_rerecord, devicevars
<1>6. {c} \in SUBSET CommandBuffers /\ \A d \in {c} : WaitedFor(d)
  BY <1>5
<1> QED BY <1>4, <1>5, <1>6, WaitKeeps

LEMMA RecordingKeeps ==
  ASSUME CbInv, NEW c \in CommandBuffers, NEW shared \in BOOLEAN,
         \/ replay_pre_vkBeginCommandBuffer(c, shared)
         \/ replay_pre_vkResetCommandBuffer(c)
         \/ replay_pre_vkFreeCommandBuffers(c)
  PROVE  CbInv'
<1>1. recorded[c].shared \in BOOLEAN
  BY TrackingSound DEF Recording
<1> QED BY <1>1, RerecordKeeps DEF replay_pre_vkBeginCommandBuffer, replay_pre_vkResetCommandBuffer,
                                   replay_pre_vkFreeCommandBuffers

LEMMA ResetPoolKeeps ==
  ASSUME CbInv, replay_pre_vkResetCommandPool
  PROVE  CbInv'
<1> DEFINE live == {c \in CommandBuffers : recorded[c].state # "freed"}
<1>1. /\ \A c \in live : WaitedFor(c)
      /\ Track(replay_wait_for_pending_commandbuffer(Tracking, live, FALSE))
      /\ UNCHANGED <<onCapture, onReplay, captureFence, replayFence, observed>>
      /\ recorded' = [c \in CommandBuffers |->
           IF c \in live
           THEN [state |-> "initial", shared |-> recorded[c].shared, number |-> (recorded[c].number + 1) % 2]
           ELSE recorded[c]]
  BY DEF replay_pre_vkResetCommandPool, devicevars
<1>2. live \in SUBSET CommandBuffers
  OBVIOUS
<1> HIDE DEF live
<1>3. recorded \in [CommandBuffers -> Recording]
  BY TrackingSound
<1>4. ASSUME NEW c \in CommandBuffers
      PROVE  [state |-> "initial", shared |-> recorded[c].shared, number |-> (recorded[c].number + 1) % 2] \in Recording
  <2>1. recorded[c].shared \in BOOLEAN /\ recorded[c].number \in Int
    BY <1>3 DEF Recording
  <2> QED BY <2>1 DEF Recording
<1>5. /\ recorded' \in [CommandBuffers -> Recording]
      /\ \A c \in CommandBuffers \ live : recorded'[c] = recorded[c]
  BY <1>1, <1>3, <1>4
<1> QED BY <1>1, <1>2, <1>5, WaitKeeps

\* Nothing is tracked or waited for.
LEMMA EndKeeps ==
  ASSUME CbInv, NEW c \in CommandBuffers, vkEndCommandBuffer(c)
  PROVE  CbInv'
<1>1. recorded \in [CommandBuffers -> Recording] /\ Sound(Tracking)
  BY TrackingSound
<1>2. recorded[c].shared \in BOOLEAN /\ recorded[c].number \in Int
  BY <1>1 DEF Recording
<1>3. [state |-> "executable", shared |-> recorded[c].shared, number |-> recorded[c].number] \in Recording
  BY <1>2 DEF Recording
<1>4. c \notin RunningNow
  BY DEF vkEndCommandBuffer, RunningNow, Running, CbInv, RunsRecorded
<1>5. recorded' \in [CommandBuffers -> Recording] /\ \A d \in RunningNow : recorded'[d] = recorded[d]
  BY <1>1, <1>3, <1>4 DEF vkEndCommandBuffer, RunningNow
<1>6. Track(Tracking) /\ \A d \in RunningNow : Same(Tracking, Tracking, d)
  BY DEF vkEndCommandBuffer, trackvars, Track, Tracking, Same
<1>7. UNCHANGED <<onCapture, onReplay, captureFence, replayFence, observed>>
  BY DEF vkEndCommandBuffer, devicevars
<1> HIDE DEF RunningNow
<1> QED BY <1>1, <1>5, <1>6, <1>7, DevicesRest

\* A step that changes no variable of the invariant.
LEMMA RestKeeps ==
  ASSUME CbInv, UNCHANGED <<recorded, onCapture, onReplay, captureFence, replayFence, observed, trackvars>>
  PROVE  CbInv'
<1>1. Sound(Tracking) /\ recorded' \in [CommandBuffers -> Recording]
  BY TrackingSound
<1>2. Track(Tracking) /\ \A d \in RunningNow : Same(Tracking, Tracking, d)
  BY DEF trackvars, Track, Tracking, Same
<1> QED BY <1>1, <1>2, DevicesRest

-----------------------------------------------------------------------------
(***************************************************************************)
(* Queues of either device: a submission at the end, or the first one      *)
(* removed.                                                                *)
(***************************************************************************)
LEMMA Appended ==
  ASSUME NEW queues \in [SubmitQueues -> Seq(Submission)], NEW q \in SubmitQueues, NEW s \in Submission,
         NEW after, after = [queues EXCEPT ![q] = Append(queues[q], s)]
  PROVE  /\ after \in [SubmitQueues -> Seq(Submission)]
         /\ \A p \in SubmitQueues : \A i \in DOMAIN queues[p] :
              i \in DOMAIN after[p] /\ after[p][i] = queues[p][i] /\ i \in Nat
         /\ \A p \in SubmitQueues : \A i \in DOMAIN after[p] :
              i \in DOMAIN queues[p] \/ (p = q /\ i = Len(queues[q]) + 1 /\ after[p][i] = s)
         /\ Len(queues[q]) \in Nat /\ Len(queues[q]) + 1 \in DOMAIN after[q]
         /\ after[q][Len(queues[q]) + 1] = s
         /\ \A i \in DOMAIN queues[q] : i < Len(queues[q]) + 1
<1>1. \A p \in SubmitQueues : queues[p] \in Seq(Submission)
  OBVIOUS
<1>2. after[q] = Append(queues[q], s) /\ \A p \in SubmitQueues : p # q => after[p] = queues[p]
  OBVIOUS
<1>3. Append(queues[q], s) \in Seq(Submission) /\ queues[q] \in Seq(Submission) /\ Len(queues[q]) \in Nat
  BY <1>1
<1>4. after \in [SubmitQueues -> Seq(Submission)]
  BY <1>3
<1>5. /\ DOMAIN queues[q] = 1 .. Len(queues[q])
      /\ DOMAIN after[q] = 1 .. Len(queues[q]) + 1
      /\ \A i \in 1 .. Len(queues[q]) : after[q][i] = queues[q][i]
      /\ after[q][Len(queues[q]) + 1] = s
  BY <1>2, <1>3
<1>6. \A p \in SubmitQueues : \A i \in DOMAIN queues[p] : i \in Nat
  BY <1>1
<1>7. ASSUME NEW p \in SubmitQueues, NEW i \in DOMAIN queues[p]
      PROVE  i \in DOMAIN after[p] /\ after[p][i] = queues[p][i]
  <2>1. CASE p = q
    BY <2>1, <1>3, <1>5
  <2>2. CASE p # q
    BY <2>2, <1>2
  <2> QED BY <2>1, <2>2
<1>8. ASSUME NEW p \in SubmitQueues, NEW i \in DOMAIN after[p]
      PROVE  i \in DOMAIN queues[p] \/ (p = q /\ i = Len(queues[q]) + 1 /\ after[p][i] = s)
  <2>1. CASE p = q
    BY <2>1, <1>3, <1>5
  <2>2. CASE p # q
    BY <2>2, <1>2
  <2> QED BY <2>1, <2>2
<1>9. Len(queues[q]) + 1 \in DOMAIN after[q] /\ \A i \in DOMAIN queues[q] : i < Len(queues[q]) + 1
  BY <1>3, <1>5
<1> QED BY <1>3, <1>4, <1>5, <1>6, <1>7, <1>8, <1>9

LEMMA UseSubmitted ==
  ASSUME NEW queues \in [SubmitQueues -> Seq(Submission)], NEW fences \in [SubmitFences -> FenceStates],
         FenceUse(queues, fences), NEW q \in SubmitQueues, NEW s \in Submission,
         s.fence # NoFence => fences[s.fence] # "pending",
         NEW after, after = [queues EXCEPT ![q] = Append(queues[q], s)],
         NEW fenced, fenced = [x \in SubmitFences |-> IF x = s.fence THEN "pending" ELSE fences[x]]
  PROVE  FenceUse(after, fenced)
<1> DEFINE n == Len(queues[q]) + 1
<1>1. /\ \A p \in SubmitQueues : \A i \in DOMAIN queues[p] : i \in DOMAIN after[p] /\ after[p][i] = queues[p][i]
      /\ \A p \in SubmitQueues : \A i \in DOMAIN after[p] :
           i \in DOMAIN queues[p] \/ (p = q /\ i = n /\ after[p][i] = s)
      /\ n \in DOMAIN after[q] /\ after[q][n] = s
  BY Appended
<1>2. s.fence \in MaybeFence /\ \A p \in SubmitQueues : \A i \in DOMAIN queues[p] : queues[p][i].fence \in MaybeFence
  <2>1. ASSUME NEW p \in SubmitQueues, NEW i \in DOMAIN queues[p] PROVE queues[p][i] \in Submission
    <3>1. queues[p] \in Seq(Submission)
      OBVIOUS
    <3> QED BY <3>1
  <2> QED BY <2>1 DEF Submission
<1> HIDE DEF n
<1>3. \A p \in SubmitQueues : \A i \in DOMAIN queues[p] : s.fence # NoFence => queues[p][i].fence # s.fence
  BY DEF FenceUse, OneUser, UsedPending, PendingUsed
<1>4. ASSUME NEW p1 \in SubmitQueues, NEW p2 \in SubmitQueues,
             NEW i \in DOMAIN after[p1], NEW j \in DOMAIN after[p2],
             after[p1][i].fence = after[p2][j].fence, after[p1][i].fence # NoFence
      PROVE  p1 = p2 /\ i = j
  <2>1. CASE i \in DOMAIN queues[p1] /\ j \in DOMAIN queues[p2]
    BY <1>1, <1>4, <2>1 DEF FenceUse, OneUser, UsedPending, PendingUsed
  <2>2. CASE i \in DOMAIN queues[p1] /\ j \notin DOMAIN queues[p2]
    BY <1>1, <1>3, <1>4, <2>2
  <2>3. CASE i \notin DOMAIN queues[p1] /\ j \in DOMAIN queues[p2]
    BY <1>1, <1>3, <1>4, <2>3
  <2>4. CASE i \notin DOMAIN queues[p1] /\ j \notin DOMAIN queues[p2]
    BY <1>1, <2>4
  <2> QED BY <2>1, <2>2, <2>3, <2>4
<1>5. ASSUME NEW p \in SubmitQueues, NEW i \in DOMAIN after[p], after[p][i].fence # NoFence
      PROVE  fenced[after[p][i].fence] = "pending"
  <2>1. CASE i \in DOMAIN queues[p]
    <3>1. after[p][i].fence = queues[p][i].fence /\ queues[p][i].fence \in SubmitFences
      BY <1>1, <1>2, <1>5, <2>1 DEF MaybeFence
    <3>2. fences[queues[p][i].fence] = "pending"
      BY <3>1, <1>5, <2>1 DEF FenceUse, OneUser, UsedPending, PendingUsed
    <3> QED BY <3>1, <3>2
  <2>2. CASE i \notin DOMAIN queues[p]
    <3>1. after[p][i].fence = s.fence /\ s.fence \in SubmitFences
      BY <1>1, <1>2, <1>5, <2>2 DEF MaybeFence
    <3> QED BY <3>1
  <2> QED BY <2>1, <2>2
<1>6. ASSUME NEW f \in SubmitFences, fenced[f] = "pending"
      PROVE  \E p \in SubmitQueues : \E i \in DOMAIN after[p] : after[p][i].fence = f
  <2>1. CASE f = s.fence
    BY <2>1, <1>1
  <2>2. CASE f # s.fence
    <3>1. fences[f] = "pending"
      BY <2>2, <1>6
    <3>2. PICK p \in SubmitQueues : \E i \in DOMAIN queues[p] : queues[p][i].fence = f
      BY <3>1 DEF FenceUse, OneUser, UsedPending, PendingUsed
    <3>3. PICK i \in DOMAIN queues[p] : queues[p][i].fence = f
      BY <3>2
    <3>4. i \in DOMAIN after[p] /\ after[p][i].fence = f
      BY <3>3, <1>1
    <3> QED BY <3>4, Zenon
  <2> QED BY <2>1, <2>2
<1>8. OneUser(after)
  BY <1>4 DEF OneUser
<1>9. UsedPending(after, fenced)
  BY <1>5 DEF UsedPending
<1>10. PendingUsed(after, fenced)
  BY <1>6 DEF PendingUsed
<1> QED BY <1>8, <1>9, <1>10 DEF FenceUse

\* Where a submission was before the first one of queue q was removed.
Before(q, p, i) == IF p = q THEN i + 1 ELSE i

Shifted(queues, q, after) ==
  /\ \A p \in SubmitQueues : \A i \in DOMAIN after[p] :
       /\ i \in Nat \ {0} /\ Before(q, p, i) \in DOMAIN queues[p]
       /\ after[p][i] = queues[p][Before(q, p, i)] /\ ~(p = q /\ Before(q, p, i) = 1)
  /\ \A p \in SubmitQueues : \A i \in DOMAIN queues[p] :
       ~(p = q /\ i = 1) => \E j \in DOMAIN after[p] : Before(q, p, j) = i

LEMMA Removed ==
  ASSUME NEW queues \in [SubmitQueues -> Seq(Submission)], NEW q \in SubmitQueues, queues[q] # <<>>,
         NEW after, after = [queues EXCEPT ![q] = Tail(queues[q])]
  PROVE  /\ after \in [SubmitQueues -> Seq(Submission)]
         /\ 1 \in DOMAIN queues[q] /\ Head(queues[q]) = queues[q][1] /\ Head(queues[q]) \in Submission
         /\ Shifted(queues, q, after)
<1>1. queues[q] \in Seq(Submission)
  OBVIOUS
<1>2. PICK n \in Nat : n = Len(queues[q])
  BY <1>1
<1>3. n >= 1 /\ DOMAIN queues[q] = 1 .. n
  BY <1>1, <1>2
<1>4. /\ Tail(queues[q]) \in Seq(Submission) /\ Len(Tail(queues[q])) = n - 1
      /\ Head(queues[q]) = queues[q][1]
  BY <1>1, <1>2
<1>5. \A i \in 1 .. n - 1 : Tail(queues[q])[i] = queues[q][i + 1]
  BY <1>1, <1>2
<1>6. after[q] = Tail(queues[q]) /\ \A p \in SubmitQueues : p # q => after[p] = queues[p]
  OBVIOUS
<1>7. after \in [SubmitQueues -> Seq(Submission)]
  BY <1>4
<1>8. DOMAIN after[q] = 1 .. n - 1 /\ \A i \in 1 .. n - 1 : after[q][i] = queues[q][i + 1]
  BY <1>4, <1>5, <1>6, <1>2
<1>9. 1 \in DOMAIN queues[q] /\ Head(queues[q]) \in Submission
  BY <1>1, <1>3, <1>4
<1>10. ASSUME NEW p \in SubmitQueues, NEW i \in DOMAIN after[p]
       PROVE  /\ i \in Nat \ {0} /\ Before(q, p, i) \in DOMAIN queues[p]
              /\ after[p][i] = queues[p][Before(q, p, i)] /\ ~(p = q /\ Before(q, p, i) = 1)
  <2>1. CASE p = q
    BY <2>1, <1>3, <1>8 DEF Before
  <2>2. CASE p # q
    <3>1. queues[p] \in Seq(Submission) /\ after[p] = queues[p]
      BY <2>2, <1>6
    <3> QED BY <2>2, <3>1 DEF Before
  <2> QED BY <2>1, <2>2
<1>11. ASSUME NEW p \in SubmitQueues, NEW i \in DOMAIN queues[p]
       PROVE  ~(p = q /\ i = 1) => \E j \in DOMAIN after[p] : Before(q, p, j) = i
  <2>1. CASE p = q
    <3>1. i \in 1 .. n
      BY <2>1, <1>3
    <3>2. CASE i # 1
      <4>1. i - 1 \in DOMAIN after[p] /\ Before(q, p, i - 1) = i
        BY <2>1, <3>1, <3>2, <1>2, <1>8 DEF Before
      <4> QED BY <4>1, <3>1
    <3> QED BY <2>1, <3>1, <3>2
  <2>2. CASE p # q
    <3>1. queues[p] \in Seq(Submission) /\ after[p] = queues[p]
      BY <2>2, <1>6
    <3> QED BY <2>2, <3>1 DEF Before
  <2> QED BY <2>1, <2>2
<1>12. Shifted(queues, q, after)
  BY <1>10, <1>11 DEF Shifted
<1> QED BY <1>4, <1>7, <1>9, <1>12

LEMMA UseFinished ==
  ASSUME NEW queues \in [SubmitQueues -> Seq(Submission)], NEW fences \in [SubmitFences -> FenceStates],
         FenceUse(queues, fences), NEW q \in SubmitQueues, queues[q] # <<>>,
         NEW after, after = [queues EXCEPT ![q] = Tail(queues[q])],
         NEW fenced, fenced = Signal(fences, Head(queues[q]).fence)
  PROVE  FenceUse(after, fenced)
<1>1. PICK s \in Submission : s = Head(queues[q])
  BY Removed
<1>12. Shifted(queues, q, after)
  BY Removed
<1>2. ASSUME NEW p \in SubmitQueues, NEW i \in DOMAIN after[p]
      PROVE  /\ i \in Nat \ {0} /\ Before(q, p, i) \in DOMAIN queues[p]
             /\ after[p][i] = queues[p][Before(q, p, i)] /\ ~(p = q /\ Before(q, p, i) = 1)
  BY <1>12 DEF Shifted
<1>11. ASSUME NEW p \in SubmitQueues, NEW i \in DOMAIN queues[p], ~(p = q /\ i = 1)
       PROVE  \E j \in DOMAIN after[p] : Before(q, p, j) = i
  BY <1>11, <1>12 DEF Shifted
<1>7. 1 \in DOMAIN queues[q] /\ s = queues[q][1]
  BY <1>1, Removed
<1>3. fenced = [x \in SubmitFences |-> IF x = s.fence THEN "signaled" ELSE fences[x]]
  BY <1>1 DEF Signal
<1>4. ASSUME NEW p1 \in SubmitQueues, NEW p2 \in SubmitQueues,
             NEW i \in DOMAIN after[p1], NEW j \in DOMAIN after[p2],
             after[p1][i].fence = after[p2][j].fence, after[p1][i].fence # NoFence
      PROVE  p1 = p2 /\ i = j
  <2>1. p1 = p2 /\ Before(q, p1, i) = Before(q, p2, j)
    BY <1>2, <1>4 DEF FenceUse, OneUser, UsedPending, PendingUsed
  <2>2. i \in Nat /\ j \in Nat
    BY <1>2
  <2> QED BY <2>1, <2>2 DEF Before
<1>5. ASSUME NEW p \in SubmitQueues, NEW i \in DOMAIN after[p], after[p][i].fence # NoFence
      PROVE  fenced[after[p][i].fence] = "pending"
  <2> DEFINE k == Before(q, p, i)
  <2>1. k \in DOMAIN queues[p] /\ after[p][i] = queues[p][k] /\ ~(p = q /\ k = 1)
    BY <1>2
  <2> HIDE DEF k
  <2>2. queues[p][k].fence # s.fence
    BY <2>1, <1>7, <1>5 DEF FenceUse, OneUser, UsedPending, PendingUsed
  <2>3. fences[queues[p][k].fence] = "pending"
    BY <2>1, <1>5 DEF FenceUse, OneUser, UsedPending, PendingUsed
  <2>4. queues[p][k].fence \in SubmitFences
    <3>1. queues[p] \in Seq(Submission)
      OBVIOUS
    <3>2. queues[p][k] \in Submission
      BY <3>1, <2>1
    <3> QED BY <3>2, <2>1, <1>5 DEF Submission, MaybeFence
  <2> QED BY <2>1, <2>2, <2>3, <2>4, <1>3
<1>6. ASSUME NEW f \in SubmitFences, fenced[f] = "pending"
      PROVE  \E p \in SubmitQueues : \E i \in DOMAIN after[p] : after[p][i].fence = f
  <2>1. f # s.fence /\ fences[f] = "pending"
    BY <1>3, <1>6
  <2>2. PICK p \in SubmitQueues : \E i \in DOMAIN queues[p] : queues[p][i].fence = f
    BY <2>1 DEF FenceUse, OneUser, UsedPending, PendingUsed
  <2>3. PICK i \in DOMAIN queues[p] : queues[p][i].fence = f
    BY <2>2
  <2>4. PICK j \in DOMAIN after[p] : Before(q, p, j) = i
    BY <2>1, <2>3, <1>11, <1>7
  <2>5. after[p][j].fence = f
    BY <2>3, <2>4, <1>2
  <2> QED BY <2>5
<1>8. OneUser(after)
  BY <1>4 DEF OneUser
<1>9. UsedPending(after, fenced)
  BY <1>5 DEF UsedPending
<1>10. PendingUsed(after, fenced)
  BY <1>6 DEF PendingUsed
<1> QED BY <1>8, <1>9, <1>10 DEF FenceUse

-----------------------------------------------------------------------------
(***************************************************************************)
(* Submissions, and submissions that end.                                  *)
(***************************************************************************)

\* A queue that a SIMULTANEOUS_USE command buffer is submitted to is the only one.
OneSharedQueue == \A p, q \in SharedQueues : p = q

LEMMA SubmitTracked ==
  ASSUME CbInv, NEW c \in CommandBuffers, NEW q \in SubmitQueues, NEW f \in MaybeFence,
         ~recorded[c].shared => WaitedFor(c), NEW u,
         u = replay_mark_pending_commandbuffer(
               replay_wait_for_pending_commandbuffer(Tracking, {c}, TRUE), c, q, f)
  PROVE  /\ Sound(u) /\ c \in u.pending /\ u.queue[c] = q /\ u.fence[c] = f
         /\ \A d \in RunningNow : d # c => Same(Tracking, u, d)
<1> DEFINE w == replay_wait_for_pending_commandbuffer(Tracking, {c}, TRUE)
<1>1. RunningNow \in SUBSET CommandBuffers /\ {c} \in SUBSET CommandBuffers
  BY DEF RunningNow
<1>2. ASSUME NEW d \in {c}, d \in Tracking.pending /\ ~(TRUE /\ recorded[d].shared)
      PROVE  d \notin RunningNow /\ (FenceExists(Tracking.fence[d]) =>
               \A x \in RunningNow : Tracking.fence[x] # Tracking.fence[d])
  BY <1>2, WaitedIsOver DEF Tracking
<1>3. Sound(w) /\ \A d \in RunningNow : Same(Tracking, w, d)
  BY <1>1, <1>2, TrackingSound, WaitForSome
<1>4. u = replay_mark_pending_commandbuffer(w, c, q, f)
  OBVIOUS
<1> HIDE DEF w
<1>7. Sound(u) /\ Marked(w, u, c, q, f)
  BY <1>3, <1>4, MarkPending
<1>5. /\ c \in u.pending /\ u.queue[c] = q /\ u.fence[c] = f
      /\ \A d \in CommandBuffers : d # c => Same(w, u, d)
  BY <1>7 DEF Marked
<1>6. ASSUME NEW d \in RunningNow, d # c PROVE Same(Tracking, u, d)
  BY <1>1, <1>3, <1>5, <1>6 DEF Same
<1> QED BY <1>5, <1>6, <1>7

LEMMA SubmitKeeps ==
  ASSUME OneSharedQueue, CbInv, NEW c \in CommandBuffers, NEW q \in SubmitQueues, NEW f \in MaybeFence,
         replay_pre_vkQueueSubmit(c, q, f)
  PROVE  CbInv'
<1>0. /\ CbTypes /\ FenceUse(onCapture, captureFence) /\ FenceUse(onReplay, replayFence)
      /\ FencesAgree /\ RunsRecorded /\ LastTracked
  BY DEF CbInv
<1> DEFINE s == [cb |-> c, fence |-> f, number |-> recorded[c].number]
           u == replay_mark_pending_commandbuffer(
                  replay_wait_for_pending_commandbuffer(Tracking, {c}, TRUE), c, q, f)
           n == Len(onReplay[q]) + 1
<1>1. /\ recorded[c].state = "executable"
      /\ recorded[c].shared => q \in SharedQueues
      /\ f # NoFence => captureFence[f] = "unsignaled"
      /\ ~recorded[c].shared => WaitedFor(c)
      /\ Track(u)
      /\ onCapture' = [onCapture EXCEPT ![q] = Append(onCapture[q], s)]
      /\ onReplay' = [onReplay EXCEPT ![q] = Append(onReplay[q], s)]
      /\ captureFence' = [x \in SubmitFences |-> IF x = f THEN "pending" ELSE captureFence[x]]
      /\ replayFence' = [x \in SubmitFences |-> IF x = f THEN "pending" ELSE replayFence[x]]
      /\ observed' = observed \ {f}
      /\ recorded' = recorded
  BY DEF replay_pre_vkQueueSubmit
<1>2. /\ recorded \in [CommandBuffers -> Recording]
      /\ onCapture \in [SubmitQueues -> Seq(Submission)] /\ onReplay \in [SubmitQueues -> Seq(Submission)]
      /\ captureFence \in [SubmitFences -> FenceStates] /\ replayFence \in [SubmitFences -> FenceStates]
      /\ observed \subseteq SubmitFences
  BY <1>0 DEF CbTypes
<1>3. s \in Submission /\ s.cb = c /\ s.fence = f /\ s.number = recorded[c].number
  BY <1>2 DEF Submission, Recording
<1>4. f # NoFence => f \in SubmitFences /\ captureFence[f] = "unsignaled" /\ replayFence[f] = "unsignaled"
  BY <1>0, <1>1, <1>2 DEF FencesAgree, MaybeFence, FenceStates
<1>5. /\ Sound(u) /\ c \in u.pending /\ u.queue[c] = q /\ u.fence[c] = f
      /\ \A d \in RunningNow : d # c => Same(Tracking, u, d)
  BY <1>1, SubmitTracked
<1> HIDE DEF s, u
<1>6. FenceUse(onCapture, captureFence)'
  <2>1. captureFence' = [x \in SubmitFences |-> IF x = s.fence THEN "pending" ELSE captureFence[x]]
    BY <1>1, <1>3
  <2>2. s.fence # NoFence => captureFence[s.fence] # "pending"
    BY <1>3, <1>4
  <2>4. onCapture' = [onCapture EXCEPT ![q] = Append(onCapture[q], s)] /\ s \in Submission
    BY <1>1, <1>3
  <2>5. onCapture \in [SubmitQueues -> Seq(Submission)] /\ captureFence \in [SubmitFences -> FenceStates]
    BY <1>2
  <2>6. FenceUse(onCapture, captureFence)
    BY <1>0
  <2>3. FenceUse(onCapture', captureFence')
    BY <2>1, <2>2, <2>4, <2>5, <2>6, UseSubmitted
  <2> QED BY <2>3 DEF FenceUse, OneUser, UsedPending, PendingUsed
<1>7. FenceUse(onReplay, replayFence)'
  <2>1. replayFence' = [x \in SubmitFences |-> IF x = s.fence THEN "pending" ELSE replayFence[x]]
    BY <1>1, <1>3
  <2>2. s.fence # NoFence => replayFence[s.fence] # "pending"
    BY <1>3, <1>4
  <2>4. onReplay' = [onReplay EXCEPT ![q] = Append(onReplay[q], s)] /\ s \in Submission
    BY <1>1, <1>3
  <2>5. onReplay \in [SubmitQueues -> Seq(Submission)] /\ replayFence \in [SubmitFences -> FenceStates]
    BY <1>2
  <2>6. FenceUse(onReplay, replayFence)
    BY <1>0
  <2>3. FenceUse(onReplay', replayFence')
    BY <2>1, <2>2, <2>4, <2>5, <2>6, UseSubmitted
  <2> QED BY <2>3 DEF FenceUse, OneUser, UsedPending, PendingUsed
<1>8. /\ pending' = u.pending /\ submitQueue' = u.queue /\ submitFence' = u.fence /\ fencePending' = u.of
  BY <1>1 DEF Track
<1>9. TrackType(Tracking)' /\ ListsAgree(Tracking)'
  <2>1. \A x \in SubmitFences : replayFence'[x] # "destroyed" => replayFence[x] # "destroyed"
    <3> SUFFICES ASSUME NEW x \in SubmitFences, replayFence[x] = "destroyed"
                 PROVE  replayFence'[x] = "destroyed"
      OBVIOUS
    <3>1. x # f
      BY <1>4, CbAssumption
    <3>2. replayFence' = [y \in SubmitFences |-> IF y = f THEN "pending" ELSE replayFence[y]]
      BY <1>1
    <3> QED BY <3>1, <3>2
  <2>2. TrackType(Tracking)'
    BY <1>5, <1>8 DEF Sound, TrackType, Tracking
  <2>3. ListsAgree(Tracking)'
    BY <2>1, <1>5, <1>8 DEF Sound, ListsAgree, Tracking
  <2> QED BY <2>2, <2>3
<1>10. CbTypes'
  <2>1. onCapture' \in [SubmitQueues -> Seq(Submission)]
    BY <1>1, <1>2, <1>3, Appended
  <2>2. onReplay' \in [SubmitQueues -> Seq(Submission)]
    BY <1>1, <1>2, <1>3, Appended
  <2>3. captureFence' \in [SubmitFences -> FenceStates] /\ replayFence' \in [SubmitFences -> FenceStates]
    BY <1>1, <1>2 DEF FenceStates
  <2> QED BY <2>1, <2>2, <2>3, <1>1, <1>2, <1>9 DEF CbTypes
<1>11. FencesAgree'
  <2>1. ASSUME NEW x \in SubmitFences
        PROVE  \/ captureFence'[x] = replayFence'[x]
               \/ {captureFence'[x], replayFence'[x]} \subseteq {"pending", "signaled"}
    <3>1. CASE x = f
      BY <3>1, <1>1
    <3>2. CASE x # f
      BY <3>2, <1>0, <1>1 DEF FencesAgree
    <3> QED BY <3>1, <3>2
  <2>2. ASSUME NEW x \in observed' PROVE replayFence'[x] \in {"signaled", "destroyed"}
    BY <1>0, <1>1, <1>2 DEF FencesAgree
  <2> QED BY <2>1, <2>2 DEF FencesAgree
<1>12. /\ \A p \in SubmitQueues : \A i \in DOMAIN onReplay[p] :
            i \in DOMAIN onReplay'[p] /\ onReplay'[p][i] = onReplay[p][i] /\ i \in Nat
       /\ \A p \in SubmitQueues : \A i \in DOMAIN onReplay'[p] :
            i \in DOMAIN onReplay[p] \/ (p = q /\ i = n /\ onReplay'[p][i] = s)
       /\ n \in Nat /\ n \in DOMAIN onReplay'[q] /\ onReplay'[q][n] = s
       /\ \A i \in DOMAIN onReplay[q] : i < n
  BY <1>1, <1>2, <1>3, Appended
<1> HIDE DEF n
<1>13. ASSUME NEW p \in SubmitQueues, NEW i \in DOMAIN onReplay[p], onReplay[p][i].cb = c
       PROVE  recorded[c].shared /\ p = q
  <2>1. c \in RunningNow
    BY <1>13 DEF RunningNow, Running
  <2>2. recorded[c].shared
    BY <2>1, <1>1, WaitedIsOver
  <2>3. p \in SharedQueues
    BY <2>2, <1>0, <1>13 DEF RunsRecorded
  <2> QED BY <2>2, <2>3, <1>1 DEF OneSharedQueue
<1>14. RunsRecorded'
  <2>1. ASSUME NEW p \in SubmitQueues, NEW i \in DOMAIN onReplay'[p]
        PROVE  /\ recorded[onReplay'[p][i].cb].state = "executable"
               /\ recorded[onReplay'[p][i].cb].number = onReplay'[p][i].number
               /\ recorded[onReplay'[p][i].cb].shared => p \in SharedQueues
    <3>1. CASE i \in DOMAIN onReplay[p]
      BY <3>1, <1>0, <1>12 DEF RunsRecorded
    <3>2. CASE i \notin DOMAIN onReplay[p]
      BY <3>2, <1>1, <1>3, <1>12
    <3> QED BY <3>1, <3>2
  <2>2. ASSUME NEW p1 \in SubmitQueues, NEW i \in DOMAIN onReplay'[p1],
               NEW p2 \in SubmitQueues, NEW j \in DOMAIN onReplay'[p2],
               onReplay'[p2][j].cb = onReplay'[p1][i].cb, ~(p2 = p1 /\ j = i)
        PROVE  recorded[onReplay'[p1][i].cb].shared
    <3>1. CASE i \in DOMAIN onReplay[p1] /\ j \in DOMAIN onReplay[p2]
      BY <2>2, <3>1, <1>0, <1>12 DEF RunsRecorded
    <3>2. CASE i \in DOMAIN onReplay[p1] /\ j \notin DOMAIN onReplay[p2]
      BY <2>2, <3>2, <1>3, <1>12, <1>13
    <3>3. CASE i \notin DOMAIN onReplay[p1] /\ j \in DOMAIN onReplay[p2]
      BY <2>2, <3>3, <1>3, <1>12, <1>13
    <3>4. CASE i \notin DOMAIN onReplay[p1] /\ j \notin DOMAIN onReplay[p2]
      BY <2>2, <3>4, <1>12
    <3> QED BY <3>1, <3>2, <3>3, <3>4
  <2> QED BY <2>1, <2>2, <1>1 DEF RunsRecorded
<1>15. LastTracked'
  <2>1. ASSUME NEW p \in SubmitQueues, NEW i \in DOMAIN onReplay'[p], NEW d, d = onReplay'[p][i].cb
        PROVE  /\ d \in pending' /\ submitQueue'[d] = p
               /\ \E j \in DOMAIN onReplay'[p] :
                    j >= i /\ onReplay'[p][j].cb = d /\ onReplay'[p][j].fence = submitFence'[d]
    <3>1. CASE d = c
      <4>1. p = q /\ i \in Nat /\ n >= i
        <5>1. CASE i \in DOMAIN onReplay[p]
          <6>1. onReplay[p][i].cb = c /\ i \in Nat
            BY <5>1, <2>1, <3>1, <1>12
          <6>2. p = q
            BY <5>1, <6>1, <1>13
          <6>3. i < n /\ n \in Nat
            BY <5>1, <6>2, <1>12
          <6> QED BY <6>1, <6>2, <6>3
        <5>2. CASE i \notin DOMAIN onReplay[p]
          BY <5>2, <1>12
        <5> QED BY <5>1, <5>2
      <4> QED BY <4>1, <3>1, <1>3, <1>5, <1>8, <1>12
    <3>2. CASE d # c
      <4>1. i \in DOMAIN onReplay[p] /\ onReplay[p][i].cb = d
        BY <2>1, <3>2, <1>3, <1>12
      <4>2. d \in RunningNow
        BY <4>1, SubmissionType DEF RunningNow, Running
      <4>3. (d \in pending' <=> d \in pending) /\ submitQueue'[d] = submitQueue[d] /\ submitFence'[d] = submitFence[d]
        BY <4>2, <3>2, <1>5, <1>8 DEF Same, Tracking
      <4>4. /\ d \in pending /\ submitQueue[d] = p
            /\ \E j \in DOMAIN onReplay[p] :
                 j >= i /\ onReplay[p][j].cb = d /\ onReplay[p][j].fence = submitFence[d]
        BY <4>1, <1>0 DEF LastTracked
      <4> QED BY <4>3, <4>4, <1>12
    <3> QED BY <3>1, <3>2
  <2> QED BY <2>1 DEF LastTracked
<1> QED BY <1>6, <1>7, <1>9, <1>10, <1>11, <1>14, <1>15 DEF CbInv

\* The fence of the first submission of a queue, on either device.
LEMMA HeadPending ==
  ASSUME NEW queues \in [SubmitQueues -> Seq(Submission)], NEW fences, FenceUse(queues, fences),
         NEW q \in SubmitQueues, queues[q] # <<>>, NEW f, f = Head(queues[q]).fence, f # NoFence
  PROVE  f \in SubmitFences /\ fences[f] = "pending"
<1>1. 1 \in DOMAIN queues[q] /\ Head(queues[q]) = queues[q][1] /\ Head(queues[q]) \in Submission
  <2>1. queues[q] \in Seq(Submission)
    OBVIOUS
  <2> QED BY <2>1
<1>2. f \in SubmitFences
  BY <1>1 DEF Submission, MaybeFence
<1> QED BY <1>1, <1>2 DEF FenceUse, UsedPending

LEMMA CaptureFinishKeeps ==
  ASSUME CbInv, NEW q \in SubmitQueues, CaptureFinishes(q)
  PROVE  CbInv'
<1>1. /\ onCapture[q] # <<>>
      /\ onCapture' = [onCapture EXCEPT ![q] = Tail(onCapture[q])]
      /\ captureFence' = Signal(captureFence, Head(onCapture[q]).fence)
      /\ UNCHANGED <<recorded, onReplay, replayFence, observed, pending, submitQueue, submitFence, fencePending>>
  BY DEF CaptureFinishes, trackvars
<1>2. /\ onCapture \in [SubmitQueues -> Seq(Submission)] /\ captureFence \in [SubmitFences -> FenceStates]
      /\ FenceUse(onCapture, captureFence)
  BY DEF CbInv, CbTypes
<1>3. FenceUse(onCapture, captureFence)'
  <2>1. FenceUse(onCapture', captureFence')
    BY <1>1, <1>2, UseFinished
  <2> QED BY <2>1 DEF FenceUse, OneUser, UsedPending, PendingUsed
<1>4. CbTypes'
  <2>1. onCapture' \in [SubmitQueues -> Seq(Submission)]
    BY <1>1, <1>2, Removed
  <2>2. captureFence' \in [SubmitFences -> FenceStates]
    BY <1>1, <1>2 DEF Signal, FenceStates
  <2>3. Tracking' = Tracking
    BY <1>1 DEF Tracking
  <2> QED BY <2>1, <2>2, <2>3, <1>1 DEF CbInv, CbTypes, TrackType
<1>5. FencesAgree'
  <2>1. PICK f : f = Head(onCapture[q]).fence
    OBVIOUS
  <2>2. captureFence' = [x \in SubmitFences |-> IF x = f THEN "signaled" ELSE captureFence[x]]
    BY <1>1, <2>1 DEF Signal
  <2>3. f # NoFence => captureFence[f] = "pending"
    BY <1>1, <1>2, <2>1, HeadPending
  <2>4. ASSUME NEW x \in SubmitFences
        PROVE  \/ captureFence'[x] = replayFence[x]
               \/ {captureFence'[x], replayFence[x]} \subseteq {"pending", "signaled"}
    <3>1. CASE x = f
      <4>1. captureFence[x] = "pending" /\ captureFence'[x] = "signaled"
        BY <3>1, <2>2, <2>3, CbAssumption
      <4>2. replayFence[x] \in {"pending", "signaled"}
        BY <4>1 DEF CbInv, FencesAgree
      <4> QED BY <4>1, <4>2
    <3>2. CASE x # f
      BY <3>2, <2>2 DEF CbInv, FencesAgree
    <3> QED BY <3>1, <3>2
  <2> QED BY <2>4, <1>1 DEF CbInv, FencesAgree
<1>6. FenceUse(onReplay, replayFence)' /\ RunsRecorded' /\ LastTracked' /\ ListsAgree(Tracking)'
  BY <1>1 DEF CbInv, FenceUse, OneUser, UsedPending, PendingUsed, RunsRecorded, LastTracked, ListsAgree, Tracking
<1> QED BY <1>3, <1>4, <1>5, <1>6 DEF CbInv

LEMMA ReplayFinishKeeps ==
  ASSUME CbInv, NEW q \in SubmitQueues, ReplayFinishes(q)
  PROVE  CbInv'
<1>1. /\ onReplay[q] # <<>>
      /\ onReplay' = [onReplay EXCEPT ![q] = Tail(onReplay[q])]
      /\ replayFence' = Signal(replayFence, Head(onReplay[q]).fence)
      /\ UNCHANGED <<recorded, onCapture, captureFence, observed, pending, submitQueue, submitFence, fencePending>>
  BY DEF ReplayFinishes, trackvars
<1>2. /\ onReplay \in [SubmitQueues -> Seq(Submission)] /\ replayFence \in [SubmitFences -> FenceStates]
      /\ FenceUse(onReplay, replayFence)
  BY DEF CbInv, CbTypes
<1>3. FenceUse(onReplay, replayFence)'
  <2>1. FenceUse(onReplay', replayFence')
    BY <1>1, <1>2, UseFinished
  <2> QED BY <2>1 DEF FenceUse, OneUser, UsedPending, PendingUsed
<1>4. CbTypes'
  <2>1. onReplay' \in [SubmitQueues -> Seq(Submission)]
    BY <1>1, <1>2, Removed
  <2>2. replayFence' \in [SubmitFences -> FenceStates]
    BY <1>1, <1>2 DEF Signal, FenceStates
  <2>3. Tracking' = Tracking
    BY <1>1 DEF Tracking
  <2> QED BY <2>1, <2>2, <2>3, <1>1 DEF CbInv, CbTypes, TrackType
<1>5. PICK f : f = Head(onReplay[q]).fence
  OBVIOUS
<1>6. replayFence' = [x \in SubmitFences |-> IF x = f THEN "signaled" ELSE replayFence[x]]
  BY <1>1, <1>5 DEF Signal
<1>7. f # NoFence => replayFence[f] = "pending"
  BY <1>1, <1>2, <1>5, HeadPending
<1>8. FencesAgree'
  <2>1. ASSUME NEW x \in SubmitFences
        PROVE  \/ captureFence[x] = replayFence'[x]
               \/ {captureFence[x], replayFence'[x]} \subseteq {"pending", "signaled"}
    <3>1. CASE x = f
      <4>1. replayFence[x] = "pending" /\ replayFence'[x] = "signaled"
        BY <3>1, <1>6, <1>7, CbAssumption
      <4>2. captureFence[x] \in {"pending", "signaled"}
        BY <4>1 DEF CbInv, FencesAgree
      <4> QED BY <4>1, <4>2
    <3>2. CASE x # f
      BY <3>2, <1>6 DEF CbInv, FencesAgree
    <3> QED BY <3>1, <3>2
  <2>2. ASSUME NEW x \in observed PROVE replayFence'[x] \in {"signaled", "destroyed"}
    BY <1>6 DEF CbInv, CbTypes, FencesAgree
  <2> QED BY <2>1, <2>2, <1>1 DEF FencesAgree
<1>9. ListsAgree(Tracking)'
  <2>1. ASSUME NEW x \in SubmitFences, replayFence'[x] # "destroyed" PROVE replayFence[x] # "destroyed"
    BY <2>1, <1>6, <1>7, CbAssumption
  <2> QED BY <2>1, <1>1 DEF CbInv, ListsAgree, Tracking
<1>10. Shifted(onReplay, q, onReplay')
  BY <1>1, <1>2, Removed
<1>11. ASSUME NEW p \in SubmitQueues, NEW i \in DOMAIN onReplay'[p]
       PROVE  /\ i \in Nat \ {0} /\ Before(q, p, i) \in DOMAIN onReplay[p]
              /\ onReplay'[p][i] = onReplay[p][Before(q, p, i)] /\ ~(p = q /\ Before(q, p, i) = 1)
  BY <1>10 DEF Shifted
<1>12. RunsRecorded'
  <2>1. ASSUME NEW p \in SubmitQueues, NEW i \in DOMAIN onReplay'[p]
        PROVE  /\ recorded[onReplay'[p][i].cb].state = "executable"
               /\ recorded[onReplay'[p][i].cb].number = onReplay'[p][i].number
               /\ recorded[onReplay'[p][i].cb].shared => p \in SharedQueues
    BY <1>11 DEF CbInv, RunsRecorded
  <2>2. ASSUME NEW p1 \in SubmitQueues, NEW i \in DOMAIN onReplay'[p1],
               NEW p2 \in SubmitQueues, NEW j \in DOMAIN onReplay'[p2],
               onReplay'[p2][j].cb = onReplay'[p1][i].cb, ~(p2 = p1 /\ j = i)
        PROVE  recorded[onReplay'[p1][i].cb].shared
    <3>1. PICK k \in DOMAIN onReplay[p1] : k = Before(q, p1, i)
      BY <1>11
    <3>2. PICK m \in DOMAIN onReplay[p2] : m = Before(q, p2, j)
      BY <1>11
    <3>3. onReplay'[p1][i] = onReplay[p1][k] /\ onReplay'[p2][j] = onReplay[p2][m]
      BY <3>1, <3>2, <1>11
    <3>4. i \in Nat /\ j \in Nat
      BY <1>11
    <3>5. ~(p2 = p1 /\ m = k)
      BY <2>2, <3>1, <3>2, <3>4 DEF Before
    <3> QED BY <2>2, <3>3, <3>5 DEF CbInv, RunsRecorded
  <2> QED BY <2>1, <2>2, <1>1, ZenonT(60) DEF RunsRecorded
<1>13. LastTracked'
  <2>1. ASSUME NEW p \in SubmitQueues, NEW i \in DOMAIN onReplay'[p], NEW d, d = onReplay'[p][i].cb
        PROVE  /\ d \in pending /\ submitQueue[d] = p
               /\ \E j \in DOMAIN onReplay'[p] :
                    j >= i /\ onReplay'[p][j].cb = d /\ onReplay'[p][j].fence = submitFence[d]
    <3>1. PICK k \in DOMAIN onReplay[p] : k = Before(q, p, i)
      BY <1>11
    <3>2. onReplay[p][k].cb = d /\ ~(p = q /\ k = 1)
      BY <2>1, <3>1, <1>11
    <3>3. /\ d \in pending /\ submitQueue[d] = p
          /\ \E j \in DOMAIN onReplay[p] :
               j >= k /\ onReplay[p][j].cb = d /\ onReplay[p][j].fence = submitFence[d]
      BY <3>2 DEF CbInv, LastTracked
    <3>4. PICK j \in DOMAIN onReplay[p] :
            j >= k /\ onReplay[p][j].cb = d /\ onReplay[p][j].fence = submitFence[d]
      BY <3>3
    <3>5. i \in Nat \ {0}
      BY <1>11
    <3>6. j \in Nat
      <4>1. onReplay[p] \in Seq(Submission)
        BY <1>2
      <4> QED BY <4>1
    <3>7. ~(p = q /\ j = 1)
      BY <3>1, <3>4, <3>5, <3>6 DEF Before
    <3>8. PICK m \in DOMAIN onReplay'[p] : Before(q, p, m) = j
      BY <3>7, <1>10 DEF Shifted
    <3>9. m \in Nat /\ onReplay'[p][m] = onReplay[p][j]
      BY <3>8, <1>11
    <3>10. m >= i
      BY <3>1, <3>4, <3>5, <3>6, <3>8, <3>9 DEF Before
    <3> QED BY <3>3, <3>4, <3>9, <3>10
  <2> QED BY <2>1, <1>1 DEF LastTracked
<1>14. FenceUse(onCapture, captureFence)'
  BY <1>1 DEF CbInv, FenceUse, OneUser, UsedPending, PendingUsed
<1> QED BY <1>3, <1>4, <1>8, <1>9, <1>12, <1>13, <1>14 DEF CbInv

-----------------------------------------------------------------------------
(***************************************************************************)
(* Waits.                                                                  *)
(***************************************************************************)
LEMMA FencesWaited ==
  ASSUME CbInv, NEW fs \in SUBSET SubmitFences, \A f \in fs : replayFence[f] = "signaled",
         Track(replay_clear_pending_fence(Tracking, fs)),
         UNCHANGED <<recorded, onCapture, onReplay, captureFence, replayFence>>,
         NEW seen \in SUBSET SubmitFences, \A f \in seen : replayFence[f] = "signaled",
         observed' = observed \cup seen
  PROVE  CbInv'
<1> DEFINE u == replay_clear_pending_fence(Tracking, fs)
<1>1. Sound(u) /\ \A c \in CommandBuffers : Tracking.fence[c] \notin fs => Same(Tracking, u, c)
  BY TrackingSound, ClearFences
<1>2. Track(u)
  OBVIOUS
<1> HIDE DEF u
<1>3. \A c \in RunningNow : c \in CommandBuffers /\ Tracking.fence[c] \notin fs
  BY SignaledIsOver DEF RunningNow, Tracking
<1>4. \A c \in RunningNow : Same(Tracking, u, c)
  BY <1>1, <1>3
<1>5. observed' \subseteq SubmitFences /\ \A f \in observed' : f \in observed \/ replayFence[f] = "signaled"
  BY DEF CbInv, CbTypes
<1>6. recorded' \in [CommandBuffers -> Recording] /\ \A c \in RunningNow : recorded'[c] = recorded[c]
  BY TrackingSound
<1>7. UNCHANGED <<onCapture, onReplay, captureFence, replayFence>>
  OBVIOUS
<1> QED BY <1>1, <1>2, <1>4, <1>5, <1>6, <1>7, ObservedRest

LEMMA WaitForFencesKeeps ==
  ASSUME CbInv, NEW fs \in SUBSET SubmitFences, NEW waitAll \in BOOLEAN, NEW success \in BOOLEAN,
         replay_callback_vkWaitForFences(fs, waitAll, success)
  PROVE  CbInv'
<1> DEFINE over == Signaled(replayFence, fs)
           cleared == IF waitAll THEN (IF over = fs THEN fs ELSE {}) ELSE over
           seen == IF success /\ (waitAll \/ \E f \in fs : fs = {f}) THEN fs ELSE {}
<1>1. over \in SUBSET fs /\ \A f \in over : replayFence[f] = "signaled"
  BY DEF Signaled
<1>2. Track(replay_clear_pending_fence(Tracking, cleared))
  <2>1. CASE waitAll
    BY <2>1 DEF replay_callback_vkWaitForFences
  <2>2. CASE ~waitAll
    BY <2>2 DEF replay_callback_vkWaitForFences
  <2> QED BY <2>1, <2>2
<1>3. UNCHANGED <<recorded, onCapture, onReplay, captureFence, replayFence>> /\ observed' = observed \cup seen
  BY DEF replay_callback_vkWaitForFences
<1>4. success => IF waitAll THEN over = fs ELSE over # {}
  BY DEF replay_callback_vkWaitForFences
<1> HIDE DEF over
<1>5. cleared \in SUBSET SubmitFences /\ \A f \in cleared : replayFence[f] = "signaled"
  BY <1>1
<1>6. seen \in SUBSET SubmitFences /\ \A f \in seen : replayFence[f] = "signaled"
  <2>1. CASE success /\ waitAll
    BY <2>1, <1>1, <1>4
  <2>2. CASE success /\ ~waitAll /\ \E f \in fs : fs = {f}
    <3>1. PICK f \in fs : fs = {f}
      BY <2>2
    <3>2. over = fs
      BY <3>1, <2>2, <1>1, <1>4
    <3> QED BY <3>2, <1>1
  <2>3. CASE ~(success /\ (waitAll \/ \E f \in fs : fs = {f}))
    BY <2>3
  <2> QED BY <2>1, <2>2, <2>3
<1> HIDE DEF cleared, seen
<1> QED BY <1>2, <1>3, <1>5, <1>6, FencesWaited

LEMMA GetStatusKeeps ==
  ASSUME CbInv, NEW f \in SubmitFences, NEW success \in BOOLEAN,
         replay_callback_vkGetFenceStatus(f, success)
  PROVE  CbInv'
<1> DEFINE over == Signaled(replayFence, {f})
           seen == IF success THEN {f} ELSE {}
<1>1. over \in SUBSET SubmitFences /\ \A x \in over : replayFence[x] = "signaled"
  BY DEF Signaled
<1>2. /\ Track(replay_clear_pending_fence(Tracking, over))
      /\ UNCHANGED <<recorded, onCapture, onReplay, captureFence, replayFence>>
      /\ observed' = observed \cup seen
  BY DEF replay_callback_vkGetFenceStatus
<1>3. seen \in SUBSET SubmitFences /\ \A x \in seen : replayFence[x] = "signaled"
  BY DEF replay_callback_vkGetFenceStatus
<1> HIDE DEF over, seen
<1> QED BY <1>1, <1>2, <1>3, FencesWaited

\* A queue that is idle has no command buffer that runs and is tracked by it.
LEMMA QueueWaited ==
  ASSUME CbInv, NEW cs \in SUBSET CommandBuffers, \A c \in cs : c \notin RunningNow,
         Track(replay_clear_pending_commandbuffer(Tracking, cs)),
         UNCHANGED <<recorded, onCapture, onReplay, captureFence, replayFence>>,
         observed' \subseteq SubmitFences,
         \A f \in observed' : f \in observed \/ replayFence[f] = "signaled"
  PROVE  CbInv'
<1> DEFINE u == replay_clear_pending_commandbuffer(Tracking, cs)
<1>1. Sound(u) /\ \A c \in CommandBuffers \ cs : Same(Tracking, u, c)
  BY TrackingSound, ClearCommandBuffers
<1>2. Track(u)
  OBVIOUS
<1> HIDE DEF u
<1>3. \A c \in RunningNow : c \in CommandBuffers \ cs
  BY DEF RunningNow
<1>4. \A c \in RunningNow : Same(Tracking, u, c)
  BY <1>1, <1>3
<1>5. recorded' \in [CommandBuffers -> Recording] /\ \A c \in RunningNow : recorded'[c] = recorded[c]
  BY TrackingSound
<1>6. UNCHANGED <<onCapture, onReplay, captureFence, replayFence>>
  OBVIOUS
<1> QED BY <1>1, <1>2, <1>4, <1>5, <1>6, ObservedRest

LEMMA QueueIdleKeeps ==
  ASSUME CbInv, NEW q \in SubmitQueues, replay_callback_vkQueueWaitIdle(q)
  PROVE  CbInv'
<1> DEFINE cs == {c \in pending : submitQueue[c] = q}
<1>1. /\ Track(replay_clear_pending_commandbuffer(Tracking, cs)) /\ onReplay[q] = <<>>
      /\ UNCHANGED <<recorded, onCapture, onReplay, captureFence, replayFence>>
      /\ observed' = observed
  BY DEF replay_callback_vkQueueWaitIdle, devicevars
<1>2. cs \in SUBSET CommandBuffers
  BY TrackingSound DEF Sound, TrackType, Tracking
<1>3. \A c \in cs : c \notin RunningNow
  BY <1>1, RunningFence
<1>4. observed' \subseteq SubmitFences /\ \A f \in observed' : f \in observed
  BY <1>1 DEF CbInv, CbTypes
<1> HIDE DEF cs
<1> QED BY <1>1, <1>2, <1>3, <1>4, QueueWaited

LEMMA DeviceIdleKeeps ==
  ASSUME CbInv, replay_callback_vkDeviceWaitIdle
  PROVE  CbInv'
<1>1. /\ Track(replay_clear_pending_commandbuffer(Tracking, pending))
      /\ \A q \in SubmitQueues : onReplay[q] = <<>>
      /\ UNCHANGED <<recorded, onCapture, onReplay, captureFence, replayFence>>
      /\ observed' = observed \cup Signaled(captureFence, SubmitFences)
  BY DEF replay_callback_vkDeviceWaitIdle
<1>2. pending \in SUBSET CommandBuffers
  BY TrackingSound DEF Sound, TrackType, Tracking
<1>3. \A c \in pending : c \notin RunningNow
  BY <1>1, RunningFence
<1>4. ASSUME NEW f \in SubmitFences, captureFence[f] = "signaled" PROVE replayFence[f] = "signaled"
  <2>1. replayFence[f] \in {"pending", "signaled"}
    BY <1>4 DEF CbInv, FencesAgree
  <2>2. \A q \in SubmitQueues : DOMAIN onReplay[q] = {}
    BY <1>1
  <2>3. replayFence[f] # "pending"
    BY <2>2 DEF CbInv, FenceUse, PendingUsed
  <2> QED BY <2>1, <2>3
<1>5. observed' \subseteq SubmitFences /\ \A f \in observed' : f \in observed \/ replayFence[f] = "signaled"
  BY <1>1, <1>4 DEF CbInv, CbTypes, Signaled
<1> QED BY <1>1, <1>2, <1>3, <1>5, QueueWaited

-----------------------------------------------------------------------------
(***************************************************************************)
(* Fences that are reset or destroyed: the application saw them signaled,  *)
(* and replay has waited where the application did.                        *)
(***************************************************************************)
LEMMA SettledIsOver ==
  ASSUME CbInv, NEW f \in SubmitFences, Settled(f)
  PROVE  captureFence[f] = "signaled" /\ replayFence[f] = "signaled" /\ f # NoFence
BY CbAssumption DEF CbInv, FencesAgree, Settled

LEMMA UseUnchanged ==
  ASSUME NEW queues \in [SubmitQueues -> Seq(Submission)], NEW fences \in [SubmitFences -> FenceStates],
         FenceUse(queues, fences), NEW f \in SubmitFences, fences[f] # "pending",
         NEW v \in {"unsignaled", "destroyed"}, NEW fenced, fenced = [fences EXCEPT ![f] = v]
  PROVE  FenceUse(queues, fenced) /\ fenced \in [SubmitFences -> FenceStates]
<1>1. \A x \in SubmitFences : x # f => fenced[x] = fences[x]
  OBVIOUS
<1>2. fenced[f] = v
  OBVIOUS
<1>3. UsedPending(queues, fenced)
  <2> SUFFICES ASSUME NEW q \in SubmitQueues, NEW i \in DOMAIN queues[q], queues[q][i].fence # NoFence
               PROVE  fenced[queues[q][i].fence] = "pending"
    BY DEF UsedPending
  <2>1. fences[queues[q][i].fence] = "pending"
    BY DEF FenceUse, UsedPending
  <2>2. queues[q] \in Seq(Submission)
    OBVIOUS
  <2>3. queues[q][i] \in Submission
    BY <2>2
  <2>4. queues[q][i].fence \in SubmitFences
    BY <2>3 DEF Submission, MaybeFence
  <2> QED BY <2>1, <2>4, <1>1
<1>4. PendingUsed(queues, fenced)
  <2> SUFFICES ASSUME NEW x \in SubmitFences, fenced[x] = "pending"
               PROVE  \E q \in SubmitQueues : \E i \in DOMAIN queues[q] : queues[q][i].fence = x
    BY DEF PendingUsed
  <2>1. fences[x] = "pending"
    BY <1>1, <1>2
  <2> QED BY <2>1 DEF FenceUse, PendingUsed
<1>5. fenced \in [SubmitFences -> FenceStates]
  BY DEF FenceStates
<1> QED BY <1>3, <1>4, <1>5 DEF FenceUse

LEMMA FenceSettledKeeps ==
  ASSUME CbInv, NEW f \in SubmitFences, Settled(f), NEW v \in {"unsignaled", "destroyed"},
         captureFence' = [captureFence EXCEPT ![f] = v], replayFence' = [replayFence EXCEPT ![f] = v],
         observed' = observed \ {f} \/ (observed' = observed /\ v = "destroyed"),
         UNCHANGED <<recorded, onCapture, onReplay>>,
         NEW u, Sound(u), \A c \in RunningNow : Same(Tracking, u, c), Track(u)
  PROVE  CbInv'
<1>1. /\ captureFence[f] = "signaled" /\ replayFence[f] = "signaled"
      /\ onCapture \in [SubmitQueues -> Seq(Submission)] /\ onReplay \in [SubmitQueues -> Seq(Submission)]
      /\ captureFence \in [SubmitFences -> FenceStates] /\ replayFence \in [SubmitFences -> FenceStates]
      /\ observed \subseteq SubmitFences
  BY SettledIsOver DEF CbInv, CbTypes
<1>2. /\ captureFence'[f] = v /\ replayFence'[f] = v
      /\ \A x \in SubmitFences : x # f => captureFence'[x] = captureFence[x] /\ replayFence'[x] = replayFence[x]
  BY <1>1
<1>3. FenceUse(onCapture, captureFence)' /\ captureFence' \in [SubmitFences -> FenceStates]
  <2>1. FenceUse(onCapture, captureFence') /\ captureFence' \in [SubmitFences -> FenceStates]
    <3>1. FenceUse(onCapture, captureFence) /\ captureFence[f] # "pending"
      BY <1>1 DEF CbInv
    <3> QED BY <3>1, <1>1, UseUnchanged
  <2> QED BY <2>1 DEF FenceUse, OneUser, UsedPending, PendingUsed
<1>4. FenceUse(onReplay, replayFence)' /\ replayFence' \in [SubmitFences -> FenceStates]
  <2>1. FenceUse(onReplay, replayFence') /\ replayFence' \in [SubmitFences -> FenceStates]
    <3>1. FenceUse(onReplay, replayFence) /\ replayFence[f] # "pending"
      BY <1>1 DEF CbInv
    <3> QED BY <3>1, <1>1, UseUnchanged
  <2> QED BY <2>1 DEF FenceUse, OneUser, UsedPending, PendingUsed
<1>5. NothingRevived
  BY <1>1, <1>2 DEF NothingRevived
<1>6. LastTracked' /\ TrackType(Tracking)' /\ ListsAgree(Tracking)'
  BY <1>5, TrackingKept
<1>7. RunsRecorded'
  BY DEF CbInv, RunsRecorded
<1>8. CbTypes'
  BY <1>1, <1>3, <1>4, <1>6 DEF CbInv, CbTypes
<1>9. FencesAgree'
  <2>1. ASSUME NEW x \in SubmitFences
        PROVE  \/ captureFence'[x] = replayFence'[x]
               \/ {captureFence'[x], replayFence'[x]} \subseteq {"pending", "signaled"}
    <3>1. CASE x = f
      BY <3>1, <1>2
    <3>2. CASE x # f
      BY <3>2, <1>2 DEF CbInv, FencesAgree
    <3> QED BY <3>1, <3>2
  <2>2. ASSUME NEW x \in observed' PROVE replayFence'[x] \in {"signaled", "destroyed"}
    <3>1. x \in observed /\ (x = f => v = "destroyed")
      OBVIOUS
    <3>2. x \in SubmitFences /\ replayFence[x] \in {"signaled", "destroyed"}
      BY <3>1, <1>1 DEF CbInv, FencesAgree
    <3>3. CASE x = f
      BY <3>1, <3>3, <1>2
    <3>4. CASE x # f
      BY <3>2, <3>4, <1>2
    <3> QED BY <3>3, <3>4
  <2> QED BY <2>1, <2>2 DEF FencesAgree
<1> QED BY <1>3, <1>4, <1>6, <1>7, <1>8, <1>9 DEF CbInv

LEMMA ResetFencesKeeps ==
  ASSUME CbInv, NEW f \in SubmitFences, replay_callback_vkResetFences(f)
  PROVE  CbInv'
<1> DEFINE u == replay_clear_pending_fence(Tracking, {f})
<1>1. /\ Settled(f) /\ Track(u)
      /\ captureFence' = [captureFence EXCEPT ![f] = "unsignaled"]
      /\ replayFence' = [replayFence EXCEPT ![f] = "unsignaled"]
      /\ observed' = observed \ {f} /\ UNCHANGED <<recorded, onCapture, onReplay>>
  BY DEF replay_callback_vkResetFences
<1>2. Sound(u) /\ \A c \in CommandBuffers : Tracking.fence[c] \notin {f} => Same(Tracking, u, c)
  BY TrackingSound, ClearFences
<1> HIDE DEF u
<1>3. \A c \in RunningNow : c \in CommandBuffers /\ Tracking.fence[c] \notin {f}
  <2>1. {f} \in SUBSET SubmitFences /\ \A x \in {f} : replayFence[x] = "signaled"
    BY <1>1, SettledIsOver
  <2>2. \A c \in RunningNow : submitFence[c] \notin {f}
    BY <2>1, SignaledIsOver
  <2> QED BY <2>2 DEF RunningNow, Tracking
<1>4. \A c \in RunningNow : Same(Tracking, u, c)
  BY <1>2, <1>3
<1> QED BY <1>1, <1>2, <1>4, FenceSettledKeeps

LEMMA DestroyFenceKeeps ==
  ASSUME CbInv, NEW f \in SubmitFences, vkDestroyFence(f)
  PROVE  CbInv'
<1>1. /\ Settled(f)
      /\ captureFence' = [captureFence EXCEPT ![f] = "destroyed"]
      /\ replayFence' = [replayFence EXCEPT ![f] = "destroyed"]
      /\ observed' = observed /\ UNCHANGED <<recorded, onCapture, onReplay>>
  BY DEF vkDestroyFence
<1>2. Track(Tracking) /\ \A d \in RunningNow : Same(Tracking, Tracking, d)
  BY DEF vkDestroyFence, trackvars, Track, Tracking, Same
<1> QED BY <1>1, <1>2, TrackingSound, FenceSettledKeeps

-----------------------------------------------------------------------------
LEMMA InitCb ==
  ASSUME CbInit
  PROVE  CbInv
<1>1. \A q \in SubmitQueues : onReplay[q] = <<>> /\ onCapture[q] = <<>> /\ DOMAIN onReplay[q] = {} /\ DOMAIN onCapture[q] = {}
  BY DEF CbInit
<1>2. /\ recorded \in [CommandBuffers -> Recording]
      /\ captureFence \in [SubmitFences -> FenceStates] /\ replayFence \in [SubmitFences -> FenceStates]
      /\ observed = {}
  BY DEF CbInit, Blank0, Recording, FenceStates
<1>3. onCapture \in [SubmitQueues -> Seq(Submission)] /\ onReplay \in [SubmitQueues -> Seq(Submission)]
  BY DEF CbInit
<1>4. TrackType(Tracking) /\ ListsAgree(Tracking)
  BY CbAssumption DEF CbInit, TrackType, ListsAgree, Tracking, MaybeFence
<1>5. CbTypes
  BY <1>2, <1>3, <1>4 DEF CbTypes
<1>6. captureFence = replayFence /\ \A f \in SubmitFences : replayFence[f] = "unsignaled"
  BY DEF CbInit
<1>7. FenceUse(onCapture, captureFence) /\ FenceUse(onReplay, replayFence)
  BY <1>1, <1>6 DEF FenceUse, OneUser, UsedPending, PendingUsed
<1>8. FencesAgree
  BY <1>2, <1>6 DEF FencesAgree
<1>9. RunsRecorded /\ LastTracked
  BY <1>1 DEF RunsRecorded, LastTracked
<1> QED BY <1>4, <1>5, <1>7, <1>8, <1>9 DEF CbInv

LEMMA NextCb ==
  ASSUME OneSharedQueue, CbInv, [CbNext]_cbvars
  PROVE  CbInv'
<1>1. ASSUME NEW c \in CommandBuffers, NEW shared \in BOOLEAN,
             \/ replay_pre_vkBeginCommandBuffer(c, shared)
             \/ replay_pre_vkResetCommandBuffer(c)
             \/ replay_pre_vkFreeCommandBuffers(c)
      PROVE  CbInv'
  BY <1>1, RecordingKeeps
<1>2. ASSUME NEW c \in CommandBuffers, vkEndCommandBuffer(c) PROVE CbInv'
  BY <1>2, EndKeeps
<1>3. ASSUME NEW c \in CommandBuffers, NEW b \in Builds, replay_pre_vkCmdBuildAccelerationStructuresKHR(c, b)
      PROVE  CbInv'
  BY <1>3, RestKeeps DEF replay_pre_vkCmdBuildAccelerationStructuresKHR, devicevars
<1>4. ASSUME NEW c \in CommandBuffers, NEW q \in SubmitQueues, NEW f \in SubmitFences \cup {NoFence},
             replay_pre_vkQueueSubmit(c, q, f)
      PROVE  CbInv'
  BY <1>4, SubmitKeeps DEF MaybeFence
<1>5. ASSUME NEW q \in SubmitQueues,
             CaptureFinishes(q) \/ ReplayFinishes(q) \/ replay_callback_vkQueueWaitIdle(q)
      PROVE  CbInv'
  BY <1>5, CaptureFinishKeeps, ReplayFinishKeeps, QueueIdleKeeps
<1>6. ASSUME NEW fs \in SUBSET SubmitFences, NEW waitAll \in BOOLEAN, NEW success \in BOOLEAN,
             replay_callback_vkWaitForFences(fs, waitAll, success)
      PROVE  CbInv'
  BY <1>6, WaitForFencesKeeps
<1>7. ASSUME NEW f \in SubmitFences, NEW success \in BOOLEAN, replay_callback_vkGetFenceStatus(f, success)
      PROVE  CbInv'
  BY <1>7, GetStatusKeeps
<1>8. ASSUME NEW f \in SubmitFences, replay_callback_vkResetFences(f) \/ vkDestroyFence(f) PROVE CbInv'
  BY <1>8, ResetFencesKeeps, DestroyFenceKeeps
<1>9. CASE replay_pre_vkResetCommandPool
  BY <1>9, ResetPoolKeeps
<1>10. CASE replay_callback_vkDeviceWaitIdle
  BY <1>10, DeviceIdleKeeps
<1>11. CASE UNCHANGED cbvars
  BY <1>11, RestKeeps DEF cbvars, trackvars
<1>12. TRUE \in BOOLEAN
  OBVIOUS
<1> QED BY <1>1, <1>2, <1>3, <1>4, <1>5, <1>6, <1>7, <1>8, <1>9, <1>10, <1>11, <1>12 DEF CbNext

LEMMA InvariantIsSafe ==
  ASSUME CbInv
  PROVE  ReplayedSafely
<1>1. RunsAsSubmitted
  <2> SUFFICES ASSUME NEW q \in SubmitQueues, NEW i \in DOMAIN onReplay[q]
               PROVE  /\ recorded[onReplay[q][i].cb].state = "executable"
                      /\ recorded[onReplay[q][i].cb].number = onReplay[q][i].number
                      /\ \A p \in SubmitQueues : \A j \in DOMAIN onReplay[p] :
                           onReplay[p][j].cb = onReplay[q][i].cb /\ <<p, j>> # <<q, i>> =>
                             recorded[onReplay[q][i].cb].shared
    BY DEF RunsAsSubmitted
  <2> QED BY DEF CbInv, RunsRecorded
<1>2. PendingTracked
  <2>1. ASSUME NEW q \in SubmitQueues, NEW i \in DOMAIN onReplay[q],
               ~\E p \in SubmitQueues : \E j \in DOMAIN onReplay[p] :
                  onReplay[p][j].cb = onReplay[q][i].cb /\ (p # q \/ j > i)
        PROVE  /\ onReplay[q][i].cb \in pending /\ submitQueue[onReplay[q][i].cb] = q
               /\ submitFence[onReplay[q][i].cb] = onReplay[q][i].fence
    <3> DEFINE c == onReplay[q][i].cb
    <3>1. /\ c \in pending /\ submitQueue[c] = q
          /\ \E j \in DOMAIN onReplay[q] : j >= i /\ onReplay[q][j].cb = c /\ onReplay[q][j].fence = submitFence[c]
      BY DEF CbInv, LastTracked
    <3>2. PICK j \in DOMAIN onReplay[q] :
            j >= i /\ onReplay[q][j].cb = c /\ onReplay[q][j].fence = submitFence[c]
      BY <3>1
    <3>3. i \in Nat /\ j \in Nat
      <4>1. onReplay[q] \in Seq(Submission)
        BY DEF CbInv, CbTypes
      <4> QED BY <4>1
    <3>4. ~(j > i)
      BY <2>1, <3>2
    <3>5. j = i
      BY <3>2, <3>3, <3>4
    <3> QED BY <3>1, <3>2, <3>5
  <2>2. \A c \in CommandBuffers : \A f \in SubmitFences :
          replayFence[f] # "destroyed" => (c \in fencePending[f] <=> submitFence[c] = f)
    BY DEF CbInv, ListsAgree, Tracking
  <2> QED BY <2>1, <2>2 DEF PendingTracked
<1>3. FencesFree
  <2> SUFFICES ASSUME NEW f \in SubmitFences
               PROVE  /\ \A p, q \in SubmitQueues : \A i \in DOMAIN onReplay[p], j \in DOMAIN onReplay[q] :
                           onReplay[p][i].fence = f /\ onReplay[q][j].fence = f => p = q /\ i = j
                      /\ (\E q \in SubmitQueues : \E i \in DOMAIN onReplay[q] : onReplay[q][i].fence = f)
                           <=> replayFence[f] = "pending"
    BY DEF FencesFree
  <2>1. f # NoFence
    BY CbAssumption
  <2>2. ASSUME NEW p \in SubmitQueues, NEW q \in SubmitQueues,
               NEW i \in DOMAIN onReplay[p], NEW j \in DOMAIN onReplay[q],
               onReplay[p][i].fence = f, onReplay[q][j].fence = f
        PROVE  p = q /\ i = j
    BY <2>1, <2>2 DEF CbInv, FenceUse, OneUser
  <2>3. ASSUME NEW q \in SubmitQueues, NEW i \in DOMAIN onReplay[q], onReplay[q][i].fence = f
        PROVE  replayFence[f] = "pending"
    BY <2>1, <2>3 DEF CbInv, FenceUse, UsedPending
  <2>4. replayFence[f] = "pending" =>
          \E q \in SubmitQueues : \E i \in DOMAIN onReplay[q] : onReplay[q][i].fence = f
    BY DEF CbInv, FenceUse, PendingUsed
  <2> QED BY <2>2, <2>3, <2>4
<1> QED BY <1>1, <1>2, <1>3 DEF ReplayedSafely

\* Whatever the speeds of the two devices: replay_wait_for_pending_commandbuffer and the
\* callbacks of the waits leave no command buffer begun, reset, freed or submitted again
\* while the replaying device runs it, track the last submission of each one, and hand
\* out no fence that is in use.  Assumed: SIMULTANEOUS_USE command buffers go to one
\* queue, because replay_submit_queue remembers the last one only.
THEOREM CommandBuffersReplayedSafely ==
  ASSUME \A p, q \in SharedQueues : p = q
  PROVE  CbSpec => []ReplayedSafely
<1>1. CbInit => CbInv
  BY InitCb
<1>2. CbInv /\ [CbNext]_cbvars => CbInv'
  BY NextCb DEF OneSharedQueue
<1>3. CbInv => ReplayedSafely
  BY InvariantIsSafe
<1> QED BY <1>1, <1>2, <1>3, PTL DEF CbSpec

-----------------------------------------------------------------------------
(***************************************************************************)
(* The replay service, for any number of threads, any traces and any       *)
(* number of commands.                                                     *)
(*                                                                         *)
(* The argument.  A step of a replay thread changes its own reader and     *)
(* cli_running only, moves it at most one packet on, and only where        *)
(* check_cli lets it (Advance); a step of a command changes what a reader  *)
(* was told and not where it is (SameReader).  Hence a command that moves  *)
(* a thread finds it short of its target (Stepping).  The deadlock report  *)
(* reads one thread after the other: threads that wait for each other as   *)
(* it has seen them so far, or for a thread it has yet to see, have not    *)
(* moved since (TiedUnmoved), since what they wait for only grows; and     *)
(* the edges it follows go round after as many steps as there are threads. *)
(***************************************************************************)

Places == {"unborn", "step", "exec", "check", "held", "pause", "serve", "end", "ended", "gone"}
Reading == {"exec", "check", "held", "pause", "serve"}
ThreadStates == {"not_started", "running", "wait_fence", "wait_handle", "wait_barrier", "cli_paused", "terminated"}
Waits == {"wait_handle", "wait_barrier"}
Names == {"none"} \cup STRING
Readers == [at : Places, inner : BOOLEAN, cli_packet : Nat, completed : Nat, api_call_count : Nat,
            cli_state : ThreadStates, cli_call : Nat, cli_paused_call : Nat,
            cli_step : {"packets", "calls", "function"}, cli_function : Names, terminated : BOOLEAN]
CommandNames == {"step", "goto", "thread", "continue", "self-test", "parameters", "instrument"}
CommandPlaces == {"resume", "paused", "quiet", "done", "clear", "ask", "asking", "asked", "answer"}
ServiceCommands == [op : CommandNames \cup {"none"}, at : CommandPlaces \cup {"idle"}, t : Threads, scan : Nat, from : Nat]
TracePackets == [type : {"call", "barrier", "other"}, id : STRING, on : Threads, count : Nat, gpu : BOOLEAN]

\* How far a reader is in the stream x of its thread t.
Barrier(p) == IF p.type = "barrier" THEN 1 ELSE 0
ReaderOK(x, r) ==
  /\ r.cli_packet <= Len(x)
  /\ r.at \in Reading => r.cli_packet < Len(x) /\ r.completed = r.cli_packet + Barrier(x[r.cli_packet + 1])
  /\ r.at = "step" => r.completed = IF r.cli_packet = 0 THEN 0 ELSE r.cli_packet - 1 + Barrier(x[r.cli_packet])
  /\ r.completed <= Len(x)
  /\ r.at = "unborn" => r.cli_packet = 0 /\ r.completed = 0
  /\ r.api_call_count <= r.cli_packet + 1
  /\ r.at \in {"unborn", "step", "exec"} \/ (r.inner /\ r.at \in Reading) => r.api_call_count <= r.cli_packet
  /\ r.at \in {"held", "pause", "serve"} => r.cli_state = "cli_paused"

ServiceTypes ==
  /\ Trace \in Traces /\ rd \in [Threads -> Readers]
  /\ cli_running \in BOOLEAN /\ cli_thread \in Threads /\ cli_isolate_thread \in BOOLEAN
  /\ cmd \in ServiceCommands /\ (cmd.at = "idle" <=> cmd.op = "none")
  /\ main = "waiting" => \A t \in Threads : rd[t].at = "unborn"

ReadersOK == \A t \in Threads : ReaderOK(Trace[t], rd[t])

\* A command that moves its thread holds it at cli_thread; a thread that was held
\* when the command came has not reached what it was let have.
Stepping ==
  cmd.op \in {"step", "goto"} =>
    /\ cmd.t = cli_thread
    /\ rd[cmd.t].at = "held" => rd[cmd.t].cli_packet + 1 <= cmd.from
    /\ rd[cmd.t].cli_step = "packets" => rd[cmd.t].cli_packet < rd[cmd.t].cli_call \/ rd[cmd.t].cli_packet <= cmd.from

SteppingInv == ServiceTypes /\ ReadersOK /\ Stepping

-----------------------------------------------------------------------------
\* A thread waits where it says, and for another one.
Waiting(t) == rd[t].at = "exec" /\ rd[t].cli_state \in Waits
WaitsInPlace ==
  \A t \in Threads : rd[t].cli_state \in Waits /\ ~stop_requested => rd[t].at = "exec" /\ Packet(t).on # t

\* A thread is still where it was when the report looked at it.
Unmoved(t, x) ==
  /\ Waiting(t) /\ rd[t].completed = x.completed /\ Packet(t).on = x.on /\ Packet(t).count = x.count

\* Waits as the report has seen them so far, and as they are for the threads it has yet to look at.
Tied(S, seen, n) ==
  \A t \in S : /\ seen[t].state \in Waits
               /\ IF seen[t].on \in 0 .. (n - 1)
                  THEN seen[t].on \in S /\ seen[t].count > seen[seen[t].on].completed
                  ELSE seen[t].count > rd[seen[t].on].completed

TiedUnmoved ==
  diag.at < Cardinality(Threads) /\ ~stop_requested =>
    \A S \in SUBSET (0 .. (diag.at - 1)) :
       Tied(S, diag.seen, diag.at) => \A t \in S : Unmoved(t, diag.seen[t])

\* Threads that block each other, as the report has seen them so far.
Knot(S) == S # {} /\ \A t \in S : Waiting(t) /\ Blocked(t) /\ Packet(t).on \in S
DeadlockSeen ==
  diag.at \in 0 .. (Cardinality(Threads) - 1) /\ diag.deadlocked /\ ~stop_requested =>
    \E S \in SUBSET Threads :
      Knot(S) /\ \A t \in S : t < diag.at => diag.seen[t] = Snapshot(t)

SnapshotRecords == [state : ThreadStates, completed : Nat, on : Threads, count : Nat]
Reporting ==
  /\ diag.at \in -1 .. Cardinality(Threads) /\ diag.cycle \in SUBSET Threads
  /\ diag = [at |-> diag.at, seen |-> diag.seen, cycle |-> diag.cycle, deadlocked |-> diag.deadlocked]
  /\ diag.at \in 0 .. (Cardinality(Threads) - 1) => diag.seen \in [0 .. (diag.at - 1) -> SnapshotRecords]
  /\ diag.at < Cardinality(Threads) => diag.cycle = {}
  /\ diag.at = -1 => diag.seen = <<>>

\* The threads of the report block each other.
Found == diag.cycle # {} /\ ~stop_requested => Knot(diag.cycle)

DiagnosisInv ==
  /\ SteppingInv /\ WaitsInPlace
  /\ Reporting /\ TiedUnmoved /\ DeadlockSeen /\ Found /\ DeadlockReported

-----------------------------------------------------------------------------
LEMMA TracePacket ==
  ASSUME ServiceTypes, NEW t \in Threads
  PROVE  /\ Trace[t] \in Seq(TracePackets) /\ Len(Trace[t]) \in Nat
         /\ \A k \in 1 .. Len(Trace[t]) : Trace[t][k] \in TracePackets
<1>1. Trace \in [Threads -> Seq(TracePackets)]
  BY TracesAssumption DEF ServiceTypes, TracePackets
<1>2. Trace[t] \in Seq(TracePackets)
  BY <1>1
<1> QED
  BY <1>2

Fields == {"at", "inner", "cli_packet", "completed", "api_call_count", "cli_state", "cli_call", "cli_paused_call",
           "cli_step", "cli_function", "terminated"}

\* The reader x is r with new in place of some fields.
Replaced(r, new, x) ==
  /\ x = [f \in Fields |-> x[f]]
  /\ \A f \in Fields : x[f] = IF f \in DOMAIN new THEN new[f] ELSE r[f]

LEMMA ReaderSet ==
  ASSUME rd \in [Threads -> Readers], NEW t \in Threads, NEW new, SetReader(t, new)
  PROVE  /\ \A u \in Threads : u # t => rd'[u] = rd[u]
         /\ Replaced(rd[t], new, rd'[t])
         /\ rd'[t] \in Readers => rd' \in [Threads -> Readers]
<1>1. DOMAIN rd[t] = Fields
  BY DEF Readers, Fields
<1> QED
  BY <1>1 DEF SetReader, Replaced

LEMMA ReaderTyped ==
  ASSUME NEW f, f = [x \in Fields |-> f[x]],
         f.at \in Places, f.inner \in BOOLEAN, f.cli_packet \in Nat, f.completed \in Nat, f.api_call_count \in Nat,
         f.cli_state \in ThreadStates, f.cli_call \in Nat, f.cli_paused_call \in Nat,
         f.cli_step \in {"packets", "calls", "function"}, f.cli_function \in Names, f.terminated \in BOOLEAN
  PROVE  f \in Readers
  BY DEF Readers, Fields

\* What a step of a replay thread t does to its reader: r becomes x.
Moves(t, r, x) ==
  /\ r.at # "unborn" /\ x.at # "unborn" /\ x.cli_step = r.cli_step /\ x.cli_call = r.cli_call
  /\ x.at = "held" => cli_thread # t
  /\ \/ x.cli_packet = r.cli_packet
     \/ /\ x.cli_packet = r.cli_packet + 1
        /\ \/ cli_thread # t \/ r.at = "held"
           \/ r.cli_step = "packets" => x.cli_packet < r.cli_call
  /\ x.completed >= r.completed
  /\ x.cli_state \in Waits /\ ~stop_requested => x.at = "exec" /\ x.cli_packet = r.cli_packet /\ r.at = "exec" /\ Blocked(t)

Advance(t) ==
  /\ UNCHANGED service /\ cli_running' \in BOOLEAN
  /\ \A u \in Threads : u # t => rd'[u] = rd[u]
  /\ rd' \in [Threads -> Readers] /\ ReaderOK(Trace[t], rd'[t])
  /\ Moves(t, rd[t], rd'[t])
  /\ ~stop_requested => ~(Waiting(t) /\ Blocked(t))

LEMMA StepAdvances ==
  ASSUME ServiceTypes, ReadersOK, WaitsInPlace, NEW t \in Threads, Step(t)
  PROVE  Advance(t)
<1>1. rd[t] \in Readers /\ ReaderOK(Trace[t], rd[t]) /\ rd \in [Threads -> Readers] /\ cli_running \in BOOLEAN
  BY DEF ServiceTypes, ReadersOK
<1>2. PICK s \in Seq(TracePackets) : s = Trace[t] /\ Len(s) \in Nat /\ \A k \in 1 .. Len(s) : s[k] \in TracePackets
  BY TracePacket
<1>3. PICK r \in Readers : r = rd[t]
  BY <1>1
<1>4. PICK k \in Nat : k = r.cli_packet
  BY <1>3 DEF Readers
<1>5. PICK done \in Nat : done = r.completed + (IF k > 0 /\ s[k].type # "barrier" THEN 1 ELSE 0)
  BY <1>3 DEF Readers
<1>6. r.at = "step" /\ UNCHANGED <<service, cli_running, request>> /\ cli_running' \in BOOLEAN /\ k <= Len(s)
  BY <1>1, <1>2, <1>3, <1>4 DEF Step, ReaderOK
<1>61. r.api_call_count \in Nat /\ r.api_call_count <= k /\ r.completed \in Nat
  BY <1>1, <1>2, <1>3, <1>4, <1>6 DEF ReaderOK, Readers
<1>7. done = k
  <2>1. k > 0 => k \in 1 .. Len(s)
    BY <1>2, <1>4, <1>6
  <2>2. r.completed = IF k = 0 THEN 0 ELSE k - 1 + Barrier(s[k])
    BY <1>1, <1>2, <1>3, <1>4, <1>6 DEF ReaderOK
  <2> QED
    BY <1>2, <1>5, <2>1, <2>2 DEF Barrier
<1>8. r.cli_state \notin Waits \/ stop_requested
  BY <1>3, <1>6 DEF WaitsInPlace
<1>9. CASE k = Len(s) \/ stop_requested
  <2>1. PICK new : new = [at |-> "end", completed |-> done, terminated |-> TRUE]
    OBVIOUS
  <2>2. SetReader(t, new)
    BY <1>2, <1>3, <1>4, <1>5, <1>9, <2>1 DEF Step
  <2>3. PICK x : x = rd'[t] /\ Replaced(r, new, x)
    BY <1>1, <1>3, <2>2, ReaderSet
  <2>4. /\ x = [f \in Fields |-> x[f]] /\ x.at = "end" /\ x.completed = done /\ x.terminated = TRUE
        /\ x.inner = r.inner /\ x.cli_packet = k /\ x.api_call_count = r.api_call_count /\ x.cli_state = r.cli_state
        /\ x.cli_call = r.cli_call /\ x.cli_paused_call = r.cli_paused_call /\ x.cli_step = r.cli_step
        /\ x.cli_function = r.cli_function
    BY <1>4, <2>1, <2>3 DEF Fields, Replaced
  <2>5. x \in Readers
    BY <1>3, <1>4, <2>4, ReaderTyped DEF Readers, Places
  <2>6. ReaderOK(s, x)
    BY <1>2, <1>6, <1>61, <1>7, <2>4 DEF ReaderOK, Reading
  <2>7. Moves(t, r, x)
    BY <1>4, <1>5, <1>6, <1>61, <1>8, <2>4 DEF Moves
  <2>8. rd' \in [Threads -> Readers] /\ \A u \in Threads : u # t => rd'[u] = rd[u]
    BY <1>1, <2>2, <2>3, <2>5, ReaderSet
  <2> QED
    BY <1>2, <1>3, <1>6, <2>3, <2>6, <2>7, <2>8 DEF Advance, Waiting
<1>10. CASE ~(k = Len(s) \/ stop_requested)
  <2>0. PICK c \in Nat : c = done + (IF Packet(t).type = "barrier" THEN 1 ELSE 0)
    OBVIOUS
  <2>1. PICK new : new = [at |-> "exec", completed |-> c]
    OBVIOUS
  <2>2. SetReader(t, new)
    BY <1>2, <1>3, <1>4, <1>5, <1>10, <2>0, <2>1 DEF Step
  <2>3. PICK x : x = rd'[t] /\ Replaced(r, new, x)
    BY <1>1, <1>3, <2>2, ReaderSet
  <2>4. /\ x = [f \in Fields |-> x[f]] /\ x.at = "exec" /\ x.completed = c /\ x.terminated = r.terminated
        /\ x.inner = r.inner /\ x.cli_packet = k /\ x.api_call_count = r.api_call_count /\ x.cli_state = r.cli_state
        /\ x.cli_call = r.cli_call /\ x.cli_paused_call = r.cli_paused_call /\ x.cli_step = r.cli_step
        /\ x.cli_function = r.cli_function
    BY <1>4, <2>1, <2>3 DEF Fields, Replaced
  <2>5. x \in Readers
    BY <1>3, <1>4, <2>4, ReaderTyped DEF Readers, Places
  <2>6. c = k + Barrier(s[k + 1]) /\ k < Len(s) /\ Barrier(s[k + 1]) \in 0 .. 1
    BY <1>2, <1>3, <1>4, <1>6, <1>7, <1>10, <2>0 DEF Packet, Barrier
  <2>7. ReaderOK(s, x)
    BY <1>2, <1>6, <1>61, <2>4, <2>6 DEF ReaderOK, Reading
  <2>8. Moves(t, r, x)
    BY <1>4, <1>5, <1>6, <1>61, <1>8, <2>0, <2>4 DEF Moves
  <2>9. rd' \in [Threads -> Readers] /\ \A u \in Threads : u # t => rd'[u] = rd[u]
    BY <1>1, <2>2, <2>3, <2>5, ReaderSet
  <2> QED
    BY <1>2, <1>3, <1>6, <2>3, <2>7, <2>8, <2>9 DEF Advance, Waiting
<1> QED
  BY <1>9, <1>10

LEMMA PublishWaitAdvances ==
  ASSUME ServiceTypes, ReadersOK, WaitsInPlace, NEW t \in Threads, PublishWait(t)
  PROVE  Advance(t)
<1>1. rd[t] \in Readers /\ ReaderOK(Trace[t], rd[t]) /\ rd \in [Threads -> Readers] /\ cli_running \in BOOLEAN
  BY DEF ServiceTypes, ReadersOK
<1>2. PICK s \in Seq(TracePackets) : s = Trace[t] /\ Len(s) \in Nat /\ \A k \in 1 .. Len(s) : s[k] \in TracePackets
  BY TracePacket
<1>3. PICK r \in Readers : r = rd[t]
  BY <1>1
<1>4. ReaderOK(s, r) /\ r.cli_packet \in Nat /\ r.completed \in Nat /\ r.api_call_count \in Nat
  BY <1>1, <1>2, <1>3 DEF Readers
<1>5. r.at = "exec" /\ r.cli_state = "running" /\ UNCHANGED <<service, cli_running, request>> /\ cli_running' \in BOOLEAN
  BY <1>1, <1>3 DEF PublishWait
<1>6. PICK w : w = IF ~ Blocked(t) THEN "wait_fence" ELSE IF Packet(t).type = "barrier" THEN "wait_barrier" ELSE "wait_handle"
  OBVIOUS
<1>7. w \in {"wait_fence", "wait_barrier", "wait_handle"} /\ (w \in Waits => Blocked(t))
  <2>1. CASE ~ Blocked(t)
    BY <1>6, <2>1 DEF Waits
  <2>2. CASE Blocked(t) /\ Packet(t).type = "barrier"
    BY <1>6, <2>2 DEF Waits
  <2>3. CASE Blocked(t) /\ Packet(t).type # "barrier"
    BY <1>6, <2>3 DEF Waits
  <2> QED
    BY <2>1, <2>2, <2>3
<1>8. Advance(t)
  <2>1. PICK new : new = [cli_state |-> w]
    OBVIOUS
  <2>2. SetReader(t, new)
    BY <1>6, <2>1 DEF PublishWait
  <2>3. PICK x : x = rd'[t] /\ Replaced(r, new, x)
    BY <1>1, <1>3, <2>2, ReaderSet
  <2>4. /\ x = [f \in Fields |-> x[f]] /\ x.at = r.at /\ x.inner = r.inner /\ x.cli_packet = r.cli_packet
        /\ x.completed = r.completed /\ x.api_call_count = r.api_call_count /\ x.cli_state = w /\ x.cli_call = r.cli_call
        /\ x.cli_paused_call = r.cli_paused_call /\ x.cli_step = r.cli_step /\ x.cli_function = r.cli_function /\ x.terminated = r.terminated
    BY <2>1, <2>3 DEF Fields, Replaced
  <2>5. x \in Readers
    BY <1>3, <1>7, <2>4, ReaderTyped DEF Readers, Places, ThreadStates
  <2>6. ReaderOK(s, x)
    BY <1>2, <1>4, <1>5, <2>4 DEF ReaderOK, Reading
  <2>7. Moves(t, r, x)
    BY <1>4, <1>5, <1>7, <2>4 DEF Moves
  <2>8. rd' \in [Threads -> Readers] /\ \A u \in Threads : u # t => rd'[u] = rd[u]
    BY <1>1, <2>2, <2>3, <2>5, ReaderSet
  <2> QED
    BY <1>2, <1>3, <1>5, <2>3, <2>6, <2>7, <2>8 DEF Advance, Waiting, Waits
<1> QED
  BY <1>8

LEMMA ExecuteAdvances ==
  ASSUME ServiceTypes, ReadersOK, WaitsInPlace, NEW t \in Threads, Execute(t)
  PROVE  Advance(t)
<1>1. rd[t] \in Readers /\ ReaderOK(Trace[t], rd[t]) /\ rd \in [Threads -> Readers] /\ cli_running \in BOOLEAN
  BY DEF ServiceTypes, ReadersOK
<1>2. PICK s \in Seq(TracePackets) : s = Trace[t] /\ Len(s) \in Nat /\ \A k \in 1 .. Len(s) : s[k] \in TracePackets
  BY TracePacket
<1>3. PICK r \in Readers : r = rd[t]
  BY <1>1
<1>4. ReaderOK(s, r) /\ r.cli_packet \in Nat /\ r.completed \in Nat /\ r.api_call_count \in Nat
  BY <1>1, <1>2, <1>3 DEF Readers
<1>5. r.at = "exec" /\ UNCHANGED <<service, cli_running, request>> /\ cli_running' \in BOOLEAN
  BY <1>1, <1>3 DEF Execute
<1>6. \/ stop_requested /\ SetReader(t, [at |-> "end"])
      \/ /\ ~ Blocked(t)
         /\ SetReader(t, [at |-> "check", inner |-> Packet(t).type = "call", cli_state |-> "running"])
  BY DEF Execute
<1>7. CASE stop_requested /\ SetReader(t, [at |-> "end"])
  <2>1. PICK new : new = [at |-> "end"]
    OBVIOUS
  <2>2. SetReader(t, new)
    BY <1>7, <2>1
  <2>3. PICK x : x = rd'[t] /\ Replaced(r, new, x)
    BY <1>1, <1>3, <2>2, ReaderSet
  <2>4. /\ x = [f \in Fields |-> x[f]] /\ x.at = "end" /\ x.inner = r.inner /\ x.cli_packet = r.cli_packet
        /\ x.completed = r.completed /\ x.api_call_count = r.api_call_count /\ x.cli_state = r.cli_state /\ x.cli_call = r.cli_call
        /\ x.cli_paused_call = r.cli_paused_call /\ x.cli_step = r.cli_step /\ x.cli_function = r.cli_function /\ x.terminated = r.terminated
    BY <2>1, <2>3 DEF Fields, Replaced
  <2>5. x \in Readers
    BY <1>3, <2>4, ReaderTyped DEF Readers, Places, ThreadStates
  <2>6. ReaderOK(s, x)
    BY <1>2, <1>4, <1>5, <2>4 DEF ReaderOK, Reading
  <2>7. Moves(t, r, x)
    BY <1>4, <1>5, <1>7, <2>4 DEF Moves
  <2>8. rd' \in [Threads -> Readers] /\ \A u \in Threads : u # t => rd'[u] = rd[u]
    BY <1>1, <2>2, <2>3, <2>5, ReaderSet
  <2> QED
    BY <1>2, <1>3, <1>5, <1>7, <2>3, <2>6, <2>7, <2>8 DEF Advance, Waiting
<1>8. CASE /\ ~ Blocked(t)
           /\ SetReader(t, [at |-> "check", inner |-> Packet(t).type = "call", cli_state |-> "running"])
  <2>0. PICK b \in BOOLEAN : b = (Packet(t).type = "call")
    OBVIOUS
  <2>1. PICK new : new = [at |-> "check", inner |-> b, cli_state |-> "running"]
    OBVIOUS
  <2>2. SetReader(t, new)
    BY <1>8, <2>0, <2>1
  <2>3. PICK x : x = rd'[t] /\ Replaced(r, new, x)
    BY <1>1, <1>3, <2>2, ReaderSet
  <2>4. /\ x = [f \in Fields |-> x[f]] /\ x.at = "check" /\ x.inner = b /\ x.cli_packet = r.cli_packet
        /\ x.completed = r.completed /\ x.api_call_count = r.api_call_count /\ x.cli_state = "running" /\ x.cli_call = r.cli_call
        /\ x.cli_paused_call = r.cli_paused_call /\ x.cli_step = r.cli_step /\ x.cli_function = r.cli_function /\ x.terminated = r.terminated
    BY <2>1, <2>3 DEF Fields, Replaced
  <2>5. x \in Readers
    BY <1>3, <2>4, ReaderTyped DEF Readers, Places, ThreadStates
  <2>6. ReaderOK(s, x)
    BY <1>2, <1>4, <1>5, <2>4 DEF ReaderOK, Reading
  <2>7. Moves(t, r, x)
    BY <1>4, <1>5, <2>4 DEF Moves, Waits
  <2>8. rd' \in [Threads -> Readers] /\ \A u \in Threads : u # t => rd'[u] = rd[u]
    BY <1>1, <2>2, <2>3, <2>5, ReaderSet
  <2> QED
    BY <1>2, <1>3, <1>5, <1>8, <2>3, <2>6, <2>7, <2>8 DEF Advance, Waiting
<1> QED
  BY <1>6, <1>7, <1>8

LEMMA EndAdvances ==
  ASSUME ServiceTypes, ReadersOK, WaitsInPlace, NEW t \in Threads, rd[t].at \in {"check", "held"}, stop_requested, SetReader(t, [at |-> "end"]), UNCHANGED <<service, cli_running, request>>
  PROVE  Advance(t)
<1>1. rd[t] \in Readers /\ ReaderOK(Trace[t], rd[t]) /\ rd \in [Threads -> Readers] /\ cli_running \in BOOLEAN
  BY DEF ServiceTypes, ReadersOK
<1>2. PICK s \in Seq(TracePackets) : s = Trace[t] /\ Len(s) \in Nat /\ \A k \in 1 .. Len(s) : s[k] \in TracePackets
  BY TracePacket
<1>3. PICK r \in Readers : r = rd[t]
  BY <1>1
<1>4. ReaderOK(s, r) /\ r.cli_packet \in Nat /\ r.completed \in Nat /\ r.api_call_count \in Nat
  BY <1>1, <1>2, <1>3 DEF Readers
<1>5. r.at \in {"check", "held"} /\ UNCHANGED <<service, cli_running, request>> /\ cli_running' \in BOOLEAN
  BY <1>1, <1>3
<1>6. Advance(t)
  <2>1. PICK new : new = [at |-> "end"]
    OBVIOUS
  <2>2. SetReader(t, new)
    BY <2>1
  <2>3. PICK x : x = rd'[t] /\ Replaced(r, new, x)
    BY <1>1, <1>3, <2>2, ReaderSet
  <2>4. /\ x = [f \in Fields |-> x[f]] /\ x.at = "end" /\ x.inner = r.inner /\ x.cli_packet = r.cli_packet
        /\ x.completed = r.completed /\ x.api_call_count = r.api_call_count /\ x.cli_state = r.cli_state /\ x.cli_call = r.cli_call
        /\ x.cli_paused_call = r.cli_paused_call /\ x.cli_step = r.cli_step /\ x.cli_function = r.cli_function /\ x.terminated = r.terminated
    BY <2>1, <2>3 DEF Fields, Replaced
  <2>5. x \in Readers
    BY <1>3, <2>4, ReaderTyped DEF Readers, Places, ThreadStates
  <2>6. ReaderOK(s, x)
    BY <1>2, <1>4, <1>5, <2>4 DEF ReaderOK, Reading
  <2>7. Moves(t, r, x)
    BY <1>4, <1>5, <2>4 DEF Moves
  <2>8. rd' \in [Threads -> Readers] /\ \A u \in Threads : u # t => rd'[u] = rd[u]
    BY <1>1, <2>2, <2>3, <2>5, ReaderSet
  <2> QED
    BY <1>2, <1>3, <1>5, <2>3, <2>6, <2>7, <2>8 DEF Advance, Waiting
<1> QED
  BY <1>6

LEMMA HoldAdvances ==
  ASSUME ServiceTypes, ReadersOK, WaitsInPlace, NEW t \in Threads, rd[t].at = "check", cli_thread # t,
         SetReader(t, [at |-> "held", cli_state |-> "cli_paused"]), UNCHANGED <<service, cli_running, request>>
  PROVE  Advance(t)
<1>1. rd[t] \in Readers /\ ReaderOK(Trace[t], rd[t]) /\ rd \in [Threads -> Readers] /\ cli_running \in BOOLEAN
  BY DEF ServiceTypes, ReadersOK
<1>2. PICK s \in Seq(TracePackets) : s = Trace[t] /\ Len(s) \in Nat /\ \A k \in 1 .. Len(s) : s[k] \in TracePackets
  BY TracePacket
<1>3. PICK r \in Readers : r = rd[t]
  BY <1>1
<1>4. ReaderOK(s, r) /\ r.cli_packet \in Nat /\ r.completed \in Nat /\ r.api_call_count \in Nat
  BY <1>1, <1>2, <1>3 DEF Readers
<1>5. r.at = "check" /\ UNCHANGED <<service, cli_running, request>> /\ cli_running' \in BOOLEAN
  BY <1>1, <1>3
<1>6. Advance(t)
  <2>1. PICK new : new = [at |-> "held", cli_state |-> "cli_paused"]
    OBVIOUS
  <2>2. SetReader(t, new)
    BY <2>1
  <2>3. PICK x : x = rd'[t] /\ Replaced(r, new, x)
    BY <1>1, <1>3, <2>2, ReaderSet
  <2>4. /\ x = [f \in Fields |-> x[f]] /\ x.at = "held" /\ x.inner = r.inner /\ x.cli_packet = r.cli_packet
        /\ x.completed = r.completed /\ x.api_call_count = r.api_call_count /\ x.cli_state = "cli_paused" /\ x.cli_call = r.cli_call
        /\ x.cli_paused_call = r.cli_paused_call /\ x.cli_step = r.cli_step /\ x.cli_function = r.cli_function /\ x.terminated = r.terminated
    BY <2>1, <2>3 DEF Fields, Replaced
  <2>5. x \in Readers
    BY <1>3, <2>4, ReaderTyped DEF Readers, Places, ThreadStates
  <2>6. ReaderOK(s, x)
    BY <1>2, <1>4, <1>5, <2>4 DEF ReaderOK, Reading
  <2>7. Moves(t, r, x)
    BY <1>4, <1>5, <2>4 DEF Moves, Waits
  <2>8. rd' \in [Threads -> Readers] /\ \A u \in Threads : u # t => rd'[u] = rd[u]
    BY <1>1, <2>2, <2>3, <2>5, ReaderSet
  <2> QED
    BY <1>2, <1>3, <1>5, <2>3, <2>6, <2>7, <2>8 DEF Advance, Waiting
<1> QED
  BY <1>6

LEMMA PauseAdvances ==
  ASSUME ServiceTypes, ReadersOK, WaitsInPlace, NEW t \in Threads, rd[t].at = "check", cli_thread = t,
         SetReader(t, [at |-> "pause", cli_paused_call |-> completed_call(t), cli_state |-> "cli_paused"]),
         UNCHANGED <<service, cli_running, request>>
  PROVE  Advance(t)
<1>1. rd[t] \in Readers /\ ReaderOK(Trace[t], rd[t]) /\ rd \in [Threads -> Readers] /\ cli_running \in BOOLEAN
  BY DEF ServiceTypes, ReadersOK
<1>2. PICK s \in Seq(TracePackets) : s = Trace[t] /\ Len(s) \in Nat /\ \A k \in 1 .. Len(s) : s[k] \in TracePackets
  BY TracePacket
<1>3. PICK r \in Readers : r = rd[t]
  BY <1>1
<1>4. ReaderOK(s, r) /\ r.cli_packet \in Nat /\ r.completed \in Nat /\ r.api_call_count \in Nat
  BY <1>1, <1>2, <1>3 DEF Readers
<1>5. r.at = "check" /\ UNCHANGED <<service, cli_running, request>> /\ cli_running' \in BOOLEAN
  BY <1>1, <1>3
<1>6. PICK c \in Nat : c = completed_call(t)
  <2>1. completed_call(t) \in Nat
    BY <1>3, <1>4 DEF completed_call
  <2> QED
    BY <2>1
<1>7. Advance(t)
  <2>1. PICK new : new = [at |-> "pause", cli_paused_call |-> c, cli_state |-> "cli_paused"]
    OBVIOUS
  <2>2. SetReader(t, new)
    BY <1>6, <2>1
  <2>3. PICK x : x = rd'[t] /\ Replaced(r, new, x)
    BY <1>1, <1>3, <2>2, ReaderSet
  <2>4. /\ x = [f \in Fields |-> x[f]] /\ x.at = "pause" /\ x.inner = r.inner /\ x.cli_packet = r.cli_packet
        /\ x.completed = r.completed /\ x.api_call_count = r.api_call_count /\ x.cli_state = "cli_paused" /\ x.cli_call = r.cli_call
        /\ x.cli_paused_call = c /\ x.cli_step = r.cli_step /\ x.cli_function = r.cli_function /\ x.terminated = r.terminated
    BY <2>1, <2>3 DEF Fields, Replaced
  <2>5. x \in Readers
    BY <1>3, <2>4, ReaderTyped DEF Readers, Places, ThreadStates
  <2>6. ReaderOK(s, x)
    BY <1>2, <1>4, <1>5, <2>4 DEF ReaderOK, Reading
  <2>7. Moves(t, r, x)
    BY <1>4, <1>5, <2>4 DEF Moves, Waits
  <2>8. rd' \in [Threads -> Readers] /\ \A u \in Threads : u # t => rd'[u] = rd[u]
    BY <1>1, <2>2, <2>3, <2>5, ReaderSet
  <2> QED
    BY <1>2, <1>3, <1>5, <2>3, <2>6, <2>7, <2>8 DEF Advance, Waiting
<1> QED
  BY <1>7

LEMMA PausedAdvances ==
  ASSUME ServiceTypes, ReadersOK, WaitsInPlace, NEW t \in Threads, check_cli_pause(t)
  PROVE  Advance(t)
<1>1. rd[t] \in Readers /\ ReaderOK(Trace[t], rd[t]) /\ rd \in [Threads -> Readers] /\ cli_running \in BOOLEAN
  BY DEF ServiceTypes, ReadersOK
<1>2. PICK s \in Seq(TracePackets) : s = Trace[t] /\ Len(s) \in Nat /\ \A k \in 1 .. Len(s) : s[k] \in TracePackets
  BY TracePacket
<1>3. PICK r \in Readers : r = rd[t]
  BY <1>1
<1>4. ReaderOK(s, r) /\ r.cli_packet \in Nat /\ r.completed \in Nat /\ r.api_call_count \in Nat
  BY <1>1, <1>2, <1>3 DEF Readers
<1>5. r.at = "pause" /\ UNCHANGED service /\ cli_running' \in BOOLEAN
  BY <1>1, <1>3 DEF check_cli_pause
<1>6. r.cli_state \notin Waits
  BY <1>4, <1>5 DEF ReaderOK, Waits
<1>7. Advance(t)
  <2>1. PICK new : new = [at |-> "serve"]
    OBVIOUS
  <2>2. SetReader(t, new)
    BY <2>1 DEF check_cli_pause
  <2>3. PICK x : x = rd'[t] /\ Replaced(r, new, x)
    BY <1>1, <1>3, <2>2, ReaderSet
  <2>4. /\ x = [f \in Fields |-> x[f]] /\ x.at = "serve" /\ x.inner = r.inner /\ x.cli_packet = r.cli_packet
        /\ x.completed = r.completed /\ x.api_call_count = r.api_call_count /\ x.cli_state = r.cli_state /\ x.cli_call = r.cli_call
        /\ x.cli_paused_call = r.cli_paused_call /\ x.cli_step = r.cli_step /\ x.cli_function = r.cli_function /\ x.terminated = r.terminated
    BY <2>1, <2>3 DEF Fields, Replaced
  <2>5. x \in Readers
    BY <1>3, <2>4, ReaderTyped DEF Readers, Places, ThreadStates
  <2>6. ReaderOK(s, x)
    BY <1>2, <1>4, <1>5, <2>4 DEF ReaderOK, Reading
  <2>7. Moves(t, r, x)
    BY <1>4, <1>5, <1>6, <2>4 DEF Moves
  <2>8. rd' \in [Threads -> Readers] /\ \A u \in Threads : u # t => rd'[u] = rd[u]
    BY <1>1, <2>2, <2>3, <2>5, ReaderSet
  <2> QED
    BY <1>2, <1>3, <1>5, <2>3, <2>6, <2>7, <2>8 DEF Advance, Waiting
<1> QED
  BY <1>7

LEMMA ServedAdvances ==
  ASSUME ServiceTypes, ReadersOK, WaitsInPlace, NEW t \in Threads, cli_params_packet(t)
  PROVE  Advance(t)
<1>1. rd[t] \in Readers /\ ReaderOK(Trace[t], rd[t]) /\ rd \in [Threads -> Readers] /\ cli_running \in BOOLEAN
  BY DEF ServiceTypes, ReadersOK
<1>2. PICK s \in Seq(TracePackets) : s = Trace[t] /\ Len(s) \in Nat /\ \A k \in 1 .. Len(s) : s[k] \in TracePackets
  BY TracePacket
<1>3. PICK r \in Readers : r = rd[t]
  BY <1>1
<1>4. ReaderOK(s, r) /\ r.cli_packet \in Nat /\ r.completed \in Nat /\ r.api_call_count \in Nat
  BY <1>1, <1>2, <1>3 DEF Readers
<1>5. r.at = "serve" /\ UNCHANGED service /\ cli_running' \in BOOLEAN
  BY <1>1, <1>3 DEF cli_params_packet
<1>6. r.cli_state \notin Waits
  BY <1>4, <1>5 DEF ReaderOK, Waits
<1>7. Advance(t)
  <2>1. PICK new : new = [at |-> "check"]
    OBVIOUS
  <2>2. SetReader(t, new)
    BY <2>1 DEF cli_params_packet
  <2>3. PICK x : x = rd'[t] /\ Replaced(r, new, x)
    BY <1>1, <1>3, <2>2, ReaderSet
  <2>4. /\ x = [f \in Fields |-> x[f]] /\ x.at = "check" /\ x.inner = r.inner /\ x.cli_packet = r.cli_packet
        /\ x.completed = r.completed /\ x.api_call_count = r.api_call_count /\ x.cli_state = r.cli_state /\ x.cli_call = r.cli_call
        /\ x.cli_paused_call = r.cli_paused_call /\ x.cli_step = r.cli_step /\ x.cli_function = r.cli_function /\ x.terminated = r.terminated
    BY <2>1, <2>3 DEF Fields, Replaced
  <2>5. x \in Readers
    BY <1>3, <2>4, ReaderTyped DEF Readers, Places, ThreadStates
  <2>6. ReaderOK(s, x)
    BY <1>2, <1>4, <1>5, <2>4 DEF ReaderOK, Reading
  <2>7. Moves(t, r, x)
    BY <1>4, <1>5, <1>6, <2>4 DEF Moves
  <2>8. rd' \in [Threads -> Readers] /\ \A u \in Threads : u # t => rd'[u] = rd[u]
    BY <1>1, <2>2, <2>3, <2>5, ReaderSet
  <2> QED
    BY <1>2, <1>3, <1>5, <2>3, <2>6, <2>7, <2>8 DEF Advance, Waiting
<1> QED
  BY <1>7

LEMMA TerminateAdvances ==
  ASSUME ServiceTypes, ReadersOK, WaitsInPlace, NEW t \in Threads, ThreadTerminates(t)
  PROVE  Advance(t)
<1>1. rd[t] \in Readers /\ ReaderOK(Trace[t], rd[t]) /\ rd \in [Threads -> Readers] /\ cli_running \in BOOLEAN
  BY DEF ServiceTypes, ReadersOK
<1>2. PICK s \in Seq(TracePackets) : s = Trace[t] /\ Len(s) \in Nat /\ \A k \in 1 .. Len(s) : s[k] \in TracePackets
  BY TracePacket
<1>3. PICK r \in Readers : r = rd[t]
  BY <1>1
<1>4. ReaderOK(s, r) /\ r.cli_packet \in Nat /\ r.completed \in Nat /\ r.api_call_count \in Nat
  BY <1>1, <1>2, <1>3 DEF Readers
<1>5. r.at = "end" /\ UNCHANGED <<service, cli_running, request>> /\ cli_running' \in BOOLEAN
  BY <1>1, <1>3 DEF ThreadTerminates
<1>6. r.cli_state \notin Waits \/ stop_requested
  BY <1>3, <1>5 DEF WaitsInPlace
<1>7. Advance(t)
  <2>1. PICK new : new = [at |-> "ended", terminated |-> TRUE]
    OBVIOUS
  <2>2. SetReader(t, new)
    BY <2>1 DEF ThreadTerminates
  <2>3. PICK x : x = rd'[t] /\ Replaced(r, new, x)
    BY <1>1, <1>3, <2>2, ReaderSet
  <2>4. /\ x = [f \in Fields |-> x[f]] /\ x.at = "ended" /\ x.inner = r.inner /\ x.cli_packet = r.cli_packet
        /\ x.completed = r.completed /\ x.api_call_count = r.api_call_count /\ x.cli_state = r.cli_state /\ x.cli_call = r.cli_call
        /\ x.cli_paused_call = r.cli_paused_call /\ x.cli_step = r.cli_step /\ x.cli_function = r.cli_function /\ x.terminated = TRUE
    BY <2>1, <2>3 DEF Fields, Replaced
  <2>5. x \in Readers
    BY <1>3, <2>4, ReaderTyped DEF Readers, Places, ThreadStates
  <2>6. ReaderOK(s, x)
    BY <1>2, <1>4, <1>5, <2>4 DEF ReaderOK, Reading
  <2>7. Moves(t, r, x)
    BY <1>4, <1>5, <1>6, <2>4 DEF Moves
  <2>8. rd' \in [Threads -> Readers] /\ \A u \in Threads : u # t => rd'[u] = rd[u]
    BY <1>1, <2>2, <2>3, <2>5, ReaderSet
  <2> QED
    BY <1>2, <1>3, <1>5, <2>3, <2>6, <2>7, <2>8 DEF Advance, Waiting
<1> QED
  BY <1>7

LEMMA ReleaseAdvances ==
  ASSUME ServiceTypes, ReadersOK, WaitsInPlace, NEW t \in Threads, ThreadReleases(t)
  PROVE  Advance(t)
<1>1. rd[t] \in Readers /\ ReaderOK(Trace[t], rd[t]) /\ rd \in [Threads -> Readers] /\ cli_running \in BOOLEAN
  BY DEF ServiceTypes, ReadersOK
<1>2. PICK s \in Seq(TracePackets) : s = Trace[t] /\ Len(s) \in Nat /\ \A k \in 1 .. Len(s) : s[k] \in TracePackets
  BY TracePacket
<1>3. PICK r \in Readers : r = rd[t]
  BY <1>1
<1>4. ReaderOK(s, r) /\ r.cli_packet \in Nat /\ r.completed \in Nat /\ r.api_call_count \in Nat
  BY <1>1, <1>2, <1>3 DEF Readers
<1>5. r.at = "ended" /\ UNCHANGED service /\ cli_running' \in BOOLEAN
  BY <1>1, <1>3 DEF ThreadReleases
<1>7. Advance(t)
  <2>1. PICK new : new = [at |-> "gone", cli_state |-> "terminated"]
    OBVIOUS
  <2>2. SetReader(t, new)
    BY <2>1 DEF ThreadReleases
  <2>3. PICK x : x = rd'[t] /\ Replaced(r, new, x)
    BY <1>1, <1>3, <2>2, ReaderSet
  <2>4. /\ x = [f \in Fields |-> x[f]] /\ x.at = "gone" /\ x.inner = r.inner /\ x.cli_packet = r.cli_packet
        /\ x.completed = r.completed /\ x.api_call_count = r.api_call_count /\ x.cli_state = "terminated" /\ x.cli_call = r.cli_call
        /\ x.cli_paused_call = r.cli_paused_call /\ x.cli_step = r.cli_step /\ x.cli_function = r.cli_function /\ x.terminated = r.terminated
    BY <2>1, <2>3 DEF Fields, Replaced
  <2>5. x \in Readers
    BY <1>3, <2>4, ReaderTyped DEF Readers, Places, ThreadStates
  <2>6. ReaderOK(s, x)
    BY <1>2, <1>4, <1>5, <2>4 DEF ReaderOK, Reading
  <2>7. Moves(t, r, x)
    BY <1>4, <1>5, <2>4 DEF Moves, Waits
  <2>8. rd' \in [Threads -> Readers] /\ \A u \in Threads : u # t => rd'[u] = rd[u]
    BY <1>1, <2>2, <2>3, <2>5, ReaderSet
  <2> QED
    BY <1>2, <1>3, <1>5, <2>3, <2>6, <2>7, <2>8 DEF Advance, Waiting
<1> QED
  BY <1>7

LEMMA PastAdvances ==
  ASSUME ServiceTypes, ReadersOK, WaitsInPlace, NEW t \in Threads, rd[t].at \in {"check", "held"}, SetReader(t, Past(t)),
         UNCHANGED <<service, cli_running, request>>,
         cli_thread # t \/ rd[t].at = "held" \/ (rd[t].cli_step = "packets" => rd[t].cli_packet + 1 < rd[t].cli_call)
  PROVE  Advance(t)
<1>1. rd[t] \in Readers /\ ReaderOK(Trace[t], rd[t]) /\ rd \in [Threads -> Readers] /\ cli_running \in BOOLEAN
  BY DEF ServiceTypes, ReadersOK
<1>2. PICK s \in Seq(TracePackets) : s = Trace[t] /\ Len(s) \in Nat /\ \A k \in 1 .. Len(s) : s[k] \in TracePackets
  BY TracePacket
<1>3. PICK r \in Readers : r = rd[t]
  BY <1>1
<1>4. ReaderOK(s, r) /\ r.cli_packet \in Nat /\ r.completed \in Nat /\ r.api_call_count \in Nat
  BY <1>1, <1>2, <1>3 DEF Readers
<1>5. r.at \in {"check", "held"} /\ UNCHANGED <<service, cli_running, request>> /\ cli_running' \in BOOLEAN
  BY <1>1, <1>3
<1>6. r.cli_packet < Len(s) /\ r.completed = r.cli_packet + Barrier(s[r.cli_packet + 1]) /\ r.api_call_count <= r.cli_packet + 1
      /\ (r.inner => r.api_call_count <= r.cli_packet)
  BY <1>4, <1>5 DEF ReaderOK, Reading
<1>7. CASE r.inner /\ r.cli_step = "packets"
  <2>0. PICK a \in Nat : a = r.api_call_count + 1
    BY <1>4
  <2>1. PICK new : new = [inner |-> FALSE, api_call_count |-> a, cli_state |-> "running", at |-> "check", cli_packet |-> r.cli_packet]
    OBVIOUS
  <2>2. SetReader(t, new)
    <3>1. r.cli_packet + 0 = r.cli_packet
      BY <1>4
    <3>2. Past(t) = new
      BY <1>3, <1>7, <2>0, <2>1, <3>1 DEF Past
    <3> QED
      BY <3>2
  <2>3. PICK x : x = rd'[t] /\ Replaced(r, new, x)
    BY <1>1, <1>3, <2>2, ReaderSet
  <2>4. /\ x = [f \in Fields |-> x[f]] /\ x.at = "check" /\ x.inner = FALSE /\ x.cli_packet = r.cli_packet
        /\ x.completed = r.completed /\ x.api_call_count = a /\ x.cli_state = "running" /\ x.cli_call = r.cli_call
        /\ x.cli_paused_call = r.cli_paused_call /\ x.cli_step = r.cli_step /\ x.cli_function = r.cli_function /\ x.terminated = r.terminated
    BY <2>1, <2>3 DEF Fields, Replaced
  <2>5. x \in Readers
    BY <1>3, <2>4, ReaderTyped DEF Readers, Places, ThreadStates
  <2>6. ReaderOK(s, x)
    BY <1>2, <1>4, <1>5, <1>6, <1>7, <2>0, <2>4 DEF ReaderOK, Reading
  <2>7. Moves(t, r, x)
    BY <1>4, <1>5, <2>4 DEF Moves, Waits
  <2>8. rd' \in [Threads -> Readers] /\ \A u \in Threads : u # t => rd'[u] = rd[u]
    BY <1>1, <2>2, <2>3, <2>5, ReaderSet
  <2> QED
    BY <1>2, <1>3, <1>5, <2>3, <2>6, <2>7, <2>8 DEF Advance, Waiting
<1>8. CASE r.inner /\ r.cli_step # "packets"
  <2>0. PICK a \in Nat, k \in Nat : a = r.api_call_count + 1 /\ k = r.cli_packet + 1
    BY <1>4
  <2>1. PICK new : new = [inner |-> FALSE, api_call_count |-> a, cli_state |-> "running", at |-> "step", cli_packet |-> k]
    OBVIOUS
  <2>2. SetReader(t, new)
    BY <1>3, <1>4, <1>8, <2>0, <2>1 DEF Past
  <2>3. PICK x : x = rd'[t] /\ Replaced(r, new, x)
    BY <1>1, <1>3, <2>2, ReaderSet
  <2>4. /\ x = [f \in Fields |-> x[f]] /\ x.at = "step" /\ x.inner = FALSE /\ x.cli_packet = k
        /\ x.completed = r.completed /\ x.api_call_count = a /\ x.cli_state = "running" /\ x.cli_call = r.cli_call
        /\ x.cli_paused_call = r.cli_paused_call /\ x.cli_step = r.cli_step /\ x.cli_function = r.cli_function /\ x.terminated = r.terminated
    BY <2>1, <2>3 DEF Fields, Replaced
  <2>5. x \in Readers
    BY <1>3, <2>0, <2>4, ReaderTyped DEF Readers, Places, ThreadStates
  <2>6. ReaderOK(s, x)
    <3>1. k \in Nat /\ k <= Len(s) /\ k # 0 /\ k - 1 = r.cli_packet /\ r.cli_packet + 1 = k /\ x.api_call_count <= k
      BY <1>2, <1>4, <1>6, <1>8, <2>0, <2>4
    <3>2. x.completed = k - 1 + Barrier(s[k]) /\ Barrier(s[k]) \in 0 .. 1
      BY <1>6, <2>4, <3>1 DEF Barrier
    <3> QED
      BY <1>2, <2>4, <3>1, <3>2 DEF ReaderOK, Reading
  <2>7. Moves(t, r, x)
    BY <1>4, <1>3, <1>5, <1>8, <2>0, <2>4 DEF Moves, Waits
  <2>8. rd' \in [Threads -> Readers] /\ \A u \in Threads : u # t => rd'[u] = rd[u]
    BY <1>1, <2>2, <2>3, <2>5, ReaderSet
  <2> QED
    BY <1>2, <1>3, <1>5, <2>3, <2>6, <2>7, <2>8 DEF Advance, Waiting
<1>9. CASE ~r.inner
  <2>0. PICK k \in Nat : k = r.cli_packet + 1
    BY <1>4
  <2>1. PICK new : new = [at |-> "step", cli_packet |-> k, cli_state |-> "running"]
    OBVIOUS
  <2>2. SetReader(t, new)
    BY <1>3, <1>9, <2>0, <2>1 DEF Past
  <2>3. PICK x : x = rd'[t] /\ Replaced(r, new, x)
    BY <1>1, <1>3, <2>2, ReaderSet
  <2>4. /\ x = [f \in Fields |-> x[f]] /\ x.at = "step" /\ x.inner = r.inner /\ x.cli_packet = k
        /\ x.completed = r.completed /\ x.api_call_count = r.api_call_count /\ x.cli_state = "running" /\ x.cli_call = r.cli_call
        /\ x.cli_paused_call = r.cli_paused_call /\ x.cli_step = r.cli_step /\ x.cli_function = r.cli_function /\ x.terminated = r.terminated
    BY <2>1, <2>3 DEF Fields, Replaced
  <2>5. x \in Readers
    BY <1>3, <2>0, <2>4, ReaderTyped DEF Readers, Places, ThreadStates
  <2>6. ReaderOK(s, x)
    <3>1. k \in Nat /\ k <= Len(s) /\ k # 0 /\ k - 1 = r.cli_packet /\ r.cli_packet + 1 = k /\ x.api_call_count <= k
      BY <1>2, <1>4, <1>6, <1>9, <2>0, <2>4
    <3>2. x.completed = k - 1 + Barrier(s[k]) /\ Barrier(s[k]) \in 0 .. 1
      BY <1>6, <2>4, <3>1 DEF Barrier
    <3>3. x.at = "step" /\ x.cli_packet = k /\ x.api_call_count \in Nat
      BY <1>4, <2>4
    <3> QED
      BY <1>2, <3>1, <3>2, <3>3 DEF ReaderOK, Reading
  <2>7. Moves(t, r, x)
    BY <1>4, <1>3, <1>5, <2>0, <2>4 DEF Moves, Waits
  <2>8. rd' \in [Threads -> Readers] /\ \A u \in Threads : u # t => rd'[u] = rd[u]
    BY <1>1, <2>2, <2>3, <2>5, ReaderSet
  <2> QED
    BY <1>2, <1>3, <1>5, <2>3, <2>6, <2>7, <2>8 DEF Advance, Waiting
<1> QED
  BY <1>7, <1>8, <1>9

LEMMA CheckAdvances ==
  ASSUME ServiceTypes, ReadersOK, WaitsInPlace, NEW t \in Threads, check_cli(t)
  PROVE  Advance(t)
<1>1. CASE /\ rd[t].at \in {"check", "held"} /\ stop_requested
           /\ SetReader(t, [at |-> "end"])
           /\ UNCHANGED <<service, cli_running, request>>
  BY <1>1, EndAdvances
<1>2. CASE check_cliHeld(t)
  <2>1. rd[t].at = "held" /\ SetReader(t, Past(t)) /\ UNCHANGED <<service, cli_running, request>>
    BY <1>2 DEF check_cliHeld
  <2> QED
    BY <2>1, PastAdvances
<1>3. CASE /\ rd[t].at = "check" /\ ~ stop_requested
           /\ CASE cli_thread # t /\ cli_isolate_thread ->
                        SetReader(t, [at |-> "held", cli_state |-> "cli_paused"])
                [] cli_thread = t /\ Reached(t) ->
                        SetReader(t, [at |-> "pause", cli_paused_call |-> completed_call(t),
                                      cli_state |-> "cli_paused"])
                [] OTHER -> SetReader(t, Past(t))
           /\ UNCHANGED <<service, cli_running, request>>
  <2>1. CASE cli_thread # t /\ cli_isolate_thread
    <3>1. SetReader(t, [at |-> "held", cli_state |-> "cli_paused"])
      BY <1>3, <2>1
    <3> QED
      BY <1>3, <2>1, <3>1, HoldAdvances
  <2>2. CASE cli_thread = t /\ Reached(t)
    <3>1. SetReader(t, [at |-> "pause", cli_paused_call |-> completed_call(t), cli_state |-> "cli_paused"])
      BY <1>3, <2>2
    <3> QED
      BY <1>3, <2>2, <3>1, PauseAdvances
  <2>3. CASE ~(cli_thread # t /\ cli_isolate_thread) /\ ~(cli_thread = t /\ Reached(t))
    <3>1. SetReader(t, Past(t))
      BY <1>3, <2>3
    <3>2. ASSUME cli_thread = t, rd[t].cli_step = "packets" PROVE rd[t].cli_packet + 1 < rd[t].cli_call
      <4>1. rd[t].cli_packet \in Nat /\ rd[t].cli_call \in Nat
        BY DEF ServiceTypes, Readers
      <4>2. ~Reached(t) /\ completed_call(t) = rd[t].cli_packet + 1
        BY <2>3, <3>2 DEF completed_call
      <4> QED
        BY <4>1, <4>2 DEF Reached
    <3> QED
      BY <1>3, <3>1, <3>2, PastAdvances
  <2> QED
    BY <2>1, <2>2, <2>3
<1> QED
  BY <1>1, <1>2, <1>3 DEF check_cli

LEMMA ThreadAdvances ==
  ASSUME ServiceTypes, ReadersOK, WaitsInPlace, NEW t \in Threads, replay_thread(t)
  PROVE  Advance(t)
  BY StepAdvances, PublishWaitAdvances, ExecuteAdvances, CheckAdvances, PausedAdvances, ServedAdvances,
     TerminateAdvances, ReleaseAdvances DEF replay_thread

-----------------------------------------------------------------------------
\* Threads that block each other stay where they are.
LEMMA KnotStays ==
  ASSUME ServiceTypes, NEW S \in SUBSET Threads, Knot(S), ~stop_requested, NEW t \in Threads, Advance(t)
  PROVE  /\ Knot(S)' /\ t \notin S
         /\ \A u \in S : rd'[u] = rd[u] /\ Snapshot(u)' = Snapshot(u)
<1>1. t \notin S /\ Trace' = Trace /\ \A u \in S : u \in Threads /\ rd'[u] = rd[u]
  BY DEF Knot, Advance, service
<1>2. ASSUME NEW u \in S PROVE (Waiting(u) /\ Blocked(u) /\ Packet(u).on \in S)' /\ Snapshot(u)' = Snapshot(u)
  <2>1. Packet(u)' = Packet(u) /\ Waiting(u) /\ Blocked(u) /\ Packet(u).on \in S
    BY <1>1 DEF Knot, Packet
  <2>2. rd'[Packet(u).on] = rd[Packet(u).on]
    BY <1>1, <2>1
  <2> QED
    BY <1>1, <2>1, <2>2 DEF Waiting, Blocked, Snapshot
<1> QED
  BY <1>1, <1>2 DEF Knot

LEMMA UnmovedBlocked ==
  ASSUME ServiceTypes, WaitsInPlace, ~stop_requested, NEW n, NEW seen, NEW S \in SUBSET Threads,
         Tied(S, seen, n), \A u \in S : Unmoved(u, seen[u]), NEW t \in S
  PROVE  Waiting(t) /\ Blocked(t) /\ (seen[t].on \in 0 .. (n - 1) => Packet(t).on \in S)
<1>1. Waiting(t) /\ Packet(t).on = seen[t].on /\ Packet(t).count = seen[t].count /\ Packet(t).on # t
  BY DEF Unmoved, Waiting, WaitsInPlace
<1>2. seen[t].count > rd[seen[t].on].completed
  <2>1. CASE seen[t].on \in 0 .. (n - 1)
    <3>1. seen[t].on \in S /\ seen[t].count > seen[seen[t].on].completed
      BY <2>1 DEF Tied
    <3>2. rd[seen[t].on].completed = seen[seen[t].on].completed
      BY <3>1 DEF Unmoved
    <3> QED
      BY <3>1, <3>2
  <2>2. CASE seen[t].on \notin 0 .. (n - 1)
    BY <2>2 DEF Tied
  <2> QED
    BY <2>1, <2>2
<1> QED
  BY <1>1, <1>2 DEF Blocked, Tied

LEMMA TiedStay ==
  ASSUME ServiceTypes, ServiceTypes', WaitsInPlace, ~stop_requested, NEW n \in 0 .. (Cardinality(Threads) - 1),
         NEW seen \in [0 .. (n - 1) -> SnapshotRecords],
         \A S \in SUBSET (0 .. (n - 1)) : Tied(S, seen, n) => \A u \in S : Unmoved(u, seen[u]),
         NEW t \in Threads, Advance(t), NEW S \in SUBSET (0 .. (n - 1)), Tied(S, seen, n)'
  PROVE  \A u \in S : Unmoved(u, seen[u])'
<1>0. S \in SUBSET Threads /\ \A u \in S : u \in 0 .. (n - 1) /\ seen[u] \in SnapshotRecords
  BY ThreadsAssumption, FS_CardinalityType
<1>1. \A v \in Threads : rd[v].completed \in Nat /\ rd'[v].completed \in Nat /\ rd'[v].completed >= rd[v].completed
  <2> SUFFICES ASSUME NEW v \in Threads
               PROVE  rd[v].completed \in Nat /\ rd'[v].completed \in Nat /\ rd'[v].completed >= rd[v].completed
    OBVIOUS
  <2>1. rd[v] \in Readers /\ rd'[v] \in Readers
    BY DEF ServiceTypes
  <2>2. rd[v].completed \in Nat /\ rd'[v].completed \in Nat
    BY <2>1 DEF Readers
  <2>3. rd'[v] = rd[v] \/ (v = t /\ rd'[t].completed >= rd[t].completed)
    BY DEF Advance, Moves
  <2> QED
    BY <2>2, <2>3
<1>2. Tied(S, seen, n)
  <2> SUFFICES ASSUME NEW u \in S
               PROVE  /\ seen[u].state \in Waits
                      /\ IF seen[u].on \in 0 .. (n - 1)
                         THEN seen[u].on \in S /\ seen[u].count > seen[seen[u].on].completed
                         ELSE seen[u].count > rd[seen[u].on].completed
    BY DEF Tied
  <2>1. seen[u].on \in Threads /\ seen[u].count \in Nat
    BY <1>0 DEF SnapshotRecords
  <2> QED
    BY <1>1, <2>1 DEF Tied
<1>3. \A u \in S : Unmoved(u, seen[u])
  BY <1>2
<1>4. t \notin S
  <2>1. ASSUME t \in S PROVE Waiting(t) /\ Blocked(t)
    BY <1>0, <1>2, <1>3, <2>1, UnmovedBlocked
  <2> QED
    BY <2>1 DEF Advance
<1>5. Trace' = Trace /\ \A u \in S : rd'[u] = rd[u]
  BY <1>0, <1>4 DEF Advance, service
<1> QED
  BY <1>3, <1>5 DEF Unmoved, Waiting, Packet

\* What no thread's reader notices: only what it was told to do changes.
SameReader(t) ==
  /\ rd'[t].at = rd[t].at /\ rd'[t].inner = rd[t].inner /\ rd'[t].cli_packet = rd[t].cli_packet
  /\ rd'[t].completed = rd[t].completed /\ rd'[t].api_call_count = rd[t].api_call_count
  /\ rd'[t].cli_state = rd[t].cli_state
Calm ==
  /\ Trace' = Trace /\ diag' = diag /\ (stop_requested => stop_requested')
  /\ \A t \in Threads : SameReader(t)

LEMMA CalmKeeps ==
  ASSUME ServiceTypes, ReadersOK, WaitsInPlace, Reporting, TiedUnmoved, DeadlockSeen, Found, DeadlockReported, Calm
  PROVE  ReadersOK' /\ WaitsInPlace' /\ Reporting' /\ TiedUnmoved' /\ DeadlockSeen' /\ Found' /\ DeadlockReported'
<1>1. Trace' = Trace /\ diag' = diag /\ (stop_requested => stop_requested') /\ \A t \in Threads : SameReader(t)
  BY DEF Calm
<1>2. \A t \in Threads : Packet(t)' = Packet(t) /\ (Waiting(t)' <=> Waiting(t)) /\ Snapshot(t)' = Snapshot(t)
  BY <1>1 DEF Packet, SameReader, Waiting, Snapshot
<1>3. ReadersOK'
  BY <1>1 DEF ReadersOK, ReaderOK, SameReader
<1>4. WaitsInPlace'
  BY <1>1, <1>2 DEF WaitsInPlace, SameReader
<1>5. Reporting' /\ DeadlockReported'
  BY <1>1 DEF Reporting, DeadlockReported
<1>6. ASSUME NEW S \in SUBSET Threads, Knot(S) PROVE Knot(S)'
  <2>1. ASSUME NEW t \in S PROVE (Waiting(t) /\ Blocked(t) /\ Packet(t).on \in S)'
    <3>1. Packet(t)' = Packet(t) /\ Waiting(t)' /\ Blocked(t) /\ Packet(t).on \in S
      BY <1>2, <1>6 DEF Knot
    <3>2. rd'[Packet(t).on].completed = rd[Packet(t).on].completed
      BY <1>1, <3>1 DEF SameReader
    <3> QED
      BY <3>1, <3>2 DEF Blocked
  <2> QED
    BY <1>6, <2>1 DEF Knot
<1>7. Found'
  BY <1>1, <1>6 DEF Found, Reporting
<1>8. DeadlockSeen'
  BY <1>1, <1>2, <1>6 DEF DeadlockSeen
<1>9. TiedUnmoved'
  <2> SUFFICES ASSUME diag.at < Cardinality(Threads), ~stop_requested, NEW S \in SUBSET (0 .. (diag.at - 1)),
                      Tied(S, diag.seen, diag.at)', NEW t \in S
               PROVE  Unmoved(t, diag.seen[t])'
    BY <1>1 DEF TiedUnmoved
  <2>1. diag.at \in 0 .. (Cardinality(Threads) - 1) /\ diag.seen \in [0 .. (diag.at - 1) -> SnapshotRecords]
    BY FS_CardinalityType, ThreadsAssumption DEF Reporting
  <2>2. S \in SUBSET Threads /\ \A u \in S : diag.seen[u] \in SnapshotRecords
    BY <2>1, FS_CardinalityType, ThreadsAssumption
  <2>3. \A u \in S : diag.seen[u].on \in Threads
    BY <2>2 DEF SnapshotRecords
  <2>4. Tied(S, diag.seen, diag.at)
    BY <1>1, <2>3 DEF Tied, SameReader
  <2>5. Unmoved(t, diag.seen[t])
    BY <2>4 DEF TiedUnmoved
  <2> QED
    BY <1>1, <1>2, <2>2, <2>5 DEF Unmoved, SameReader
<1> QED
  BY <1>3, <1>4, <1>5, <1>7, <1>8, <1>9

LEMMA AdvanceKeeps ==
  ASSUME DiagnosisInv, NEW t \in Threads, Advance(t)
  PROVE  DiagnosisInv'
<1>1. /\ ServiceTypes /\ ReadersOK /\ Stepping /\ WaitsInPlace /\ Reporting /\ TiedUnmoved /\ DeadlockSeen /\ Found
      /\ DeadlockReported
  BY DEF DiagnosisInv, SteppingInv
<1>2. /\ Trace' = Trace /\ diag' = diag /\ stop' = stop /\ cmd' = cmd /\ main' = main /\ cli_thread' = cli_thread
      /\ cli_isolate_thread' = cli_isolate_thread
      /\ rd' \in [Threads -> Readers] /\ \A u \in Threads : u # t => rd'[u] = rd[u]
  BY DEF Advance, service
<1>3. rd[t] \in Readers /\ rd'[t] \in Readers /\ Moves(t, rd[t], rd'[t])
  BY <1>1, <1>2 DEF ServiceTypes, Advance
<1>4. ServiceTypes'
  BY <1>1, <1>2, <1>3 DEF ServiceTypes, Advance, Moves
<1>5. ReadersOK'
  BY <1>1, <1>2 DEF ReadersOK, Advance
<1>6. Stepping'
  <2> SUFFICES ASSUME cmd.op \in {"step", "goto"}
               PROVE  /\ cmd.t = cli_thread
                      /\ rd'[cmd.t].at = "held" => rd'[cmd.t].cli_packet + 1 <= cmd.from
                      /\ rd'[cmd.t].cli_step = "packets"
                           => rd'[cmd.t].cli_packet < rd'[cmd.t].cli_call \/ rd'[cmd.t].cli_packet <= cmd.from
    BY <1>2 DEF Stepping
  <2>1. cmd.t = cli_thread /\ cmd.t \in Threads /\ cmd.from \in Nat
    BY <1>1 DEF Stepping, ServiceTypes, ServiceCommands
  <2>2. CASE cmd.t # t
    BY <1>1, <1>2, <2>1, <2>2 DEF Stepping
  <2>3. CASE cmd.t = t
    <3>1. PICK r \in Readers, x \in Readers : r = rd[t] /\ x = rd'[t]
      BY <1>3
    <3>2. /\ x.at # "held" /\ x.cli_step = r.cli_step /\ x.cli_call = r.cli_call
          /\ \/ x.cli_packet = r.cli_packet
             \/ x.cli_packet = r.cli_packet + 1 /\ (r.at = "held" \/ (r.cli_step = "packets" => x.cli_packet < r.cli_call))
      BY <1>3, <2>1, <2>3, <3>1 DEF Moves
    <3>3. /\ r.at = "held" => r.cli_packet + 1 <= cmd.from
          /\ r.cli_step = "packets" => r.cli_packet < r.cli_call \/ r.cli_packet <= cmd.from
      BY <1>1, <2>3, <3>1 DEF Stepping
    <3>4. r.cli_packet \in Nat /\ r.cli_call \in Nat /\ x.cli_packet \in Nat
      BY <3>1 DEF Readers
    <3> QED
      BY <2>1, <2>3, <3>1, <3>2, <3>3, <3>4
  <2> QED
    BY <2>2, <2>3
<1>7. WaitsInPlace'
  <2> SUFFICES ASSUME NEW u \in Threads, rd'[u].cli_state \in Waits, ~stop_requested
               PROVE  rd'[u].at = "exec" /\ Packet(u)'.on # u
    BY <1>2 DEF WaitsInPlace, stop_requested
  <2>1. CASE u # t
    <3>1. rd'[u] = rd[u] /\ Packet(u)' = Packet(u)
      BY <1>2, <2>1 DEF Packet
    <3> QED
      BY <1>1, <3>1 DEF WaitsInPlace
  <2>2. CASE u = t
    <3>1. rd'[t].at = "exec" /\ rd'[t].cli_packet = rd[t].cli_packet /\ Blocked(t)
      BY <1>3, <2>2 DEF Moves
    <3>2. Packet(t)' = Packet(t)
      BY <1>2, <3>1 DEF Packet
    <3> QED
      BY <2>2, <3>1, <3>2 DEF Blocked
  <2> QED
    BY <2>1, <2>2
<1>8. Reporting' /\ DeadlockReported'
  BY <1>1, <1>2 DEF Reporting, DeadlockReported, stop_requested
<1>9. Found'
  BY <1>1, <1>2, KnotStays DEF Found, Reporting, stop_requested
<1>10. DeadlockSeen'
  <2> SUFFICES ASSUME diag.at \in 0 .. (Cardinality(Threads) - 1), diag.deadlocked, ~stop_requested
               PROVE  \E S \in SUBSET Threads : Knot(S)' /\ \A u \in S : u < diag.at => diag.seen[u] = Snapshot(u)'
    BY <1>2 DEF DeadlockSeen, stop_requested
  <2>1. PICK S \in SUBSET Threads : Knot(S) /\ \A u \in S : u < diag.at => diag.seen[u] = Snapshot(u)
    BY <1>1 DEF DeadlockSeen
  <2>2. Knot(S)' /\ \A u \in S : Snapshot(u)' = Snapshot(u)
    BY <1>1, <2>1, KnotStays
  <2> QED
    BY <2>1, <2>2
<1>11. TiedUnmoved'
  <2> SUFFICES ASSUME diag.at < Cardinality(Threads), ~stop_requested, NEW S \in SUBSET (0 .. (diag.at - 1)),
                      Tied(S, diag.seen, diag.at)', NEW u \in S
               PROVE  Unmoved(u, diag.seen[u])'
    BY <1>2 DEF TiedUnmoved, stop_requested
  <2>1. PICK n \in 0 .. (Cardinality(Threads) - 1) : n = diag.at
    BY <1>1, FS_CardinalityType, ThreadsAssumption DEF Reporting
  <2>2. PICK seen \in [0 .. (n - 1) -> SnapshotRecords] : seen = diag.seen
    BY <1>1, <2>1 DEF Reporting
  <2>3. \A X \in SUBSET (0 .. (n - 1)) : Tied(X, seen, n) => \A v \in X : Unmoved(v, seen[v])
    BY <1>1, <2>1, <2>2 DEF TiedUnmoved
  <2>4. Tied(S, seen, n)' /\ S \in SUBSET (0 .. (n - 1))
    BY <1>2, <2>1, <2>2
  <2>5. \A v \in S : Unmoved(v, seen[v])'
    BY <1>1, <1>4, <2>3, <2>4, TiedStay
  <2> QED
    BY <1>2, <2>2, <2>5
<1> QED
  BY <1>4, <1>5, <1>6, <1>7, <1>8, <1>9, <1>10, <1>11 DEF DiagnosisInv, SteppingInv

-----------------------------------------------------------------------------
\* A step that leaves the readers and the command alone, or moves the command on.
LEMMA QuietKeeps ==
  ASSUME DiagnosisInv, rd' = rd, Trace' = Trace, diag' = diag, cli_thread' = cli_thread,
         (stop_requested => stop_requested'), cli_running' \in BOOLEAN, cli_isolate_thread' \in BOOLEAN,
         main' = "waiting" => main = "waiting",
         cmd' \in ServiceCommands, cmd'.at = "idle" <=> cmd'.op = "none",
         cmd'.op \in {"step", "goto"} => cmd'.op = cmd.op /\ cmd'.t = cmd.t /\ cmd'.from = cmd.from
  PROVE  DiagnosisInv'
<1>1. Calm
  BY DEF Calm, SameReader
<1>2. ReadersOK' /\ WaitsInPlace' /\ Reporting' /\ TiedUnmoved' /\ DeadlockSeen' /\ Found' /\ DeadlockReported'
  BY <1>1, CalmKeeps DEF DiagnosisInv, SteppingInv
<1>3. ServiceTypes'
  BY DEF DiagnosisInv, SteppingInv, ServiceTypes
<1>4. Stepping'
  BY DEF DiagnosisInv, SteppingInv, Stepping
<1> QED
  BY <1>2, <1>3, <1>4 DEF DiagnosisInv, SteppingInv

LEMMA NoCommand == NoCmd \in ServiceCommands /\ NoCmd.at = "idle" /\ NoCmd.op = "none"
  BY ThreadsAssumption DEF NoCmd, ServiceCommands, CommandNames, CommandPlaces

LEMMA CommandMoves ==
  ASSUME cmd \in ServiceCommands, cmd.at = "idle" <=> cmd.op = "none", cmd.at # "idle",
         \/ cmd' = NoCmd
         \/ \E a \in CommandPlaces : cmd' = [cmd EXCEPT !.at = a]
         \/ \E n \in Nat : cmd' = [cmd EXCEPT !.scan = n]
  PROVE  /\ cmd' \in ServiceCommands /\ (cmd'.at = "idle" <=> cmd'.op = "none")
         /\ cmd'.op \in {"step", "goto"} => cmd'.op = cmd.op /\ cmd'.t = cmd.t /\ cmd'.from = cmd.from
<1>1. CASE cmd' = NoCmd
  BY <1>1, NoCommand
<1>2. ASSUME NEW a \in CommandPlaces, cmd' = [cmd EXCEPT !.at = a]
      PROVE  /\ cmd' \in ServiceCommands /\ (cmd'.at = "idle" <=> cmd'.op = "none")
             /\ cmd'.op = cmd.op /\ cmd'.t = cmd.t /\ cmd'.from = cmd.from
  BY <1>2 DEF ServiceCommands, CommandPlaces
<1>3. ASSUME NEW n \in Nat, cmd' = [cmd EXCEPT !.scan = n]
      PROVE  /\ cmd' \in ServiceCommands /\ (cmd'.at = "idle" <=> cmd'.op = "none")
             /\ cmd'.op = cmd.op /\ cmd'.t = cmd.t /\ cmd'.from = cmd.from
  BY <1>3 DEF ServiceCommands
<1> QED
  BY <1>1, <1>2, <1>3

LEMMA CommandKeeps ==
  ASSUME DiagnosisInv, command
  PROVE  DiagnosisInv'
<1>1. cmd \in ServiceCommands /\ (cmd.at = "idle" <=> cmd.op = "none") /\ cli_running \in BOOLEAN /\ cli_isolate_thread \in BOOLEAN
  BY DEF DiagnosisInv, SteppingInv, ServiceTypes
<1>2. /\ rd' = rd /\ Trace' = Trace /\ diag' = diag /\ cli_thread' = cli_thread /\ stop' = stop
      /\ cli_isolate_thread' = cli_isolate_thread /\ main' = main /\ cli_running' \in BOOLEAN
  <2>1. CASE Resume
    BY <1>1, <2>1 DEF Resume, replay
  <2>2. CASE cli_wait_for_pause_or_block
    BY <1>1, <2>2 DEF cli_wait_for_pause_or_block, replay
  <2>3. CASE cli_wait_for_quiescence_and_idle \/ cli_wait_for_done_and_idle
    BY <1>1, <2>3 DEF cli_wait_for_quiescence_and_idle, cli_wait_for_done_and_idle, replay
  <2>4. CASE RequestClear \/ RequestAsk \/ RequestAsked \/ RequestAnswer
    BY <1>1, <2>4 DEF RequestClear, RequestAsk, RequestAsked, RequestAnswer, replay
  <2> QED
    BY <2>1, <2>2, <2>3, <2>4 DEF command
<1>3. /\ cmd.at # "idle"
      /\ \/ cmd' = NoCmd
         \/ \E a \in CommandPlaces : cmd' = [cmd EXCEPT !.at = a]
         \/ \E n \in Nat : cmd' = [cmd EXCEPT !.scan = n]
  <2>1. CASE Resume
    <3>1. cmd.at = "resume" /\ (cmd' = [cmd EXCEPT !.at = "done"] \/ cmd' = [cmd EXCEPT !.at = "paused"])
      BY <2>1 DEF Resume
    <3> QED
      BY <3>1 DEF CommandPlaces
  <2>2. CASE cli_wait_for_pause_or_block
    <3>1. cmd.at = "paused" /\ (cmd' = NoCmd \/ cmd' = [cmd EXCEPT !.at = "quiet"])
      BY <2>2 DEF cli_wait_for_pause_or_block, Respond
    <3> QED
      BY <3>1 DEF CommandPlaces
  <2>3. CASE cli_wait_for_quiescence_and_idle
    <3>1. cmd.at = "quiet" /\ cmd.scan \in Nat
      BY <1>1, <2>3 DEF cli_wait_for_quiescence_and_idle, ServiceCommands
    <3>2. \/ cmd' = NoCmd \/ cmd' = [cmd EXCEPT !.at = "clear"] \/ cmd' = [cmd EXCEPT !.scan = cmd.scan + 1]
          \/ cmd' = [cmd EXCEPT !.scan = 0]
      BY <2>3 DEF cli_wait_for_quiescence_and_idle, Respond
    <3>3. cmd.scan + 1 \in Nat /\ 0 \in Nat /\ "clear" \in CommandPlaces
      BY <3>1 DEF CommandPlaces
    <3> QED
      BY <3>1, <3>2, <3>3
  <2>4. CASE cli_wait_for_done_and_idle
    BY <2>4 DEF cli_wait_for_done_and_idle, Respond
  <2>5. CASE RequestClear
    <3>1. cmd.at = "clear" /\ cmd' = [cmd EXCEPT !.at = "ask"]
      BY <2>5 DEF RequestClear
    <3> QED
      BY <3>1 DEF CommandPlaces
  <2>6. CASE RequestAsk
    <3>1. /\ cmd.at \in {"ask", "asking"}
          /\ cmd' = NoCmd \/ cmd' = [cmd EXCEPT !.at = "asking"] \/ cmd' = [cmd EXCEPT !.at = "asked"]
      BY <2>6 DEF RequestAsk, Respond
    <3> QED
      BY <3>1 DEF CommandPlaces
  <2>7. CASE RequestAsked
    <3>1. cmd.at = "asked" /\ (cmd' = NoCmd \/ cmd' = [cmd EXCEPT !.at = "answer"])
      BY <2>7 DEF RequestAsked, Respond
    <3> QED
      BY <3>1 DEF CommandPlaces
  <2>8. CASE RequestAnswer
    BY <2>8 DEF RequestAnswer, Respond
  <2> QED
    BY <2>1, <2>2, <2>3, <2>4, <2>5, <2>6, <2>7, <2>8 DEF command
<1>4. /\ cmd' \in ServiceCommands /\ (cmd'.at = "idle" <=> cmd'.op = "none")
      /\ cmd'.op \in {"step", "goto"} => cmd'.op = cmd.op /\ cmd'.t = cmd.t /\ cmd'.from = cmd.from
  BY <1>1, <1>3, CommandMoves
<1> QED
  BY <1>1, <1>2, <1>4, QuietKeeps DEF stop_requested

LEMMA StopKeeps ==
  ASSUME DiagnosisInv, StopFlag \/ cli_cancel_pending_requests \/ StopResume \/ StopRequest \/ MainJoins \/ MainReleases \/ MainExits
  PROVE  DiagnosisInv'
<1>1. cmd \in ServiceCommands /\ (cmd.at = "idle" <=> cmd.op = "none") /\ cli_running \in BOOLEAN /\ cli_isolate_thread \in BOOLEAN
  BY DEF DiagnosisInv, SteppingInv, ServiceTypes
<1>2. /\ rd' = rd /\ Trace' = Trace /\ diag' = diag /\ cli_thread' = cli_thread /\ (stop = "done" => stop' = "done")
      /\ cli_isolate_thread' = cli_isolate_thread /\ cli_running' \in BOOLEAN /\ cmd' = cmd
      /\ main' = "waiting" => main = "waiting"
  <2>1. CASE StopFlag
    BY <1>1, <2>1 DEF StopFlag
  <2>2. CASE cli_cancel_pending_requests
    BY <1>1, <2>2 DEF cli_cancel_pending_requests
  <2>3. CASE StopResume
    BY <1>1, <2>3 DEF StopResume
  <2>4. CASE StopRequest
    BY <1>1, <2>4 DEF StopRequest
  <2>5. CASE MainJoins
    BY <1>1, <2>5 DEF MainJoins
  <2>6. CASE MainReleases
    BY <1>1, <2>6 DEF MainReleases
  <2>7. CASE MainExits
    BY <1>1, <2>7 DEF MainExits
  <2> QED
    BY <2>1, <2>2, <2>3, <2>4, <2>5, <2>6, <2>7
<1> QED
  BY <1>1, <1>2, QuietKeeps DEF stop_requested

-----------------------------------------------------------------------------
\* A command tells a reader how far to go.
LEMMA Told ==
  ASSUME rd \in [Threads -> Readers], NEW t \in Threads, NEW new, SetReader(t, new),
         DOMAIN new \subseteq {"cli_function", "cli_step", "cli_call", "cli_paused_call"},
         "cli_function" \in DOMAIN new => new.cli_function \in Names,
         "cli_step" \in DOMAIN new => new.cli_step \in {"packets", "calls", "function"},
         "cli_call" \in DOMAIN new => new.cli_call \in Nat,
         "cli_paused_call" \in DOMAIN new => new.cli_paused_call \in Nat
  PROVE  rd' \in [Threads -> Readers] /\ \A u \in Threads : SameReader(u)
<1>0. PICK r \in Readers : r = rd[t]
  OBVIOUS
<1>1. PICK x : x = rd'[t] /\ Replaced(r, new, x) /\ r = rd[t]
  BY <1>0, ReaderSet
<1>2. /\ x.at = r.at /\ x.inner = r.inner /\ x.cli_packet = r.cli_packet /\ x.completed = r.completed
      /\ x.api_call_count = r.api_call_count /\ x.cli_state = r.cli_state /\ x.terminated = r.terminated
      /\ x = [f \in Fields |-> x[f]]
  BY <1>1 DEF Replaced, Fields
<1>3. /\ x.cli_function \in Names /\ x.cli_step \in {"packets", "calls", "function"}
      /\ x.cli_call \in Nat /\ x.cli_paused_call \in Nat
  BY <1>1 DEF Replaced, Fields, Readers
<1>4. x \in Readers
  BY <1>2, <1>3, ReaderTyped DEF Readers
<1>5. rd' \in [Threads -> Readers] /\ \A u \in Threads : u # t => rd'[u] = rd[u]
  BY <1>1, <1>4, ReaderSet
<1> QED
  BY <1>1, <1>2, <1>5 DEF SameReader

LEMMA BeginKeeps ==
  ASSUME DiagnosisInv, NEW op \in CommandNames, NEW at \in CommandPlaces, NEW t \in Threads,
         cmd' = [op |-> op, at |-> at, t |-> t, scan |-> 0, from |-> Committed(t)],
         rd' \in [Threads -> Readers], \A u \in Threads : SameReader(u),
         Trace' = Trace, diag' = diag, main' = main, stop' = stop, cli_running' = cli_running,
         cli_isolate_thread' \in BOOLEAN, cli_thread' \in Threads, op \in {"step", "goto"} => cli_thread' = t
  PROVE  DiagnosisInv'
<1>1. Calm
  BY DEF Calm, stop_requested
<1>2. ReadersOK' /\ WaitsInPlace' /\ Reporting' /\ TiedUnmoved' /\ DeadlockSeen' /\ Found' /\ DeadlockReported'
  BY <1>1, CalmKeeps DEF DiagnosisInv, SteppingInv
<1>3. rd[t] \in Readers /\ SameReader(t)
  BY DEF DiagnosisInv, SteppingInv, ServiceTypes
<1>4. rd[t].cli_packet \in Nat /\ rd'[t].at = rd[t].at /\ rd'[t].cli_packet = rd[t].cli_packet
  BY <1>3 DEF SameReader, Readers
<1>5. PICK from \in Nat : from = Committed(t)
  BY <1>4 DEF Committed
<1>6. cmd' \in ServiceCommands /\ cmd'.op = op /\ cmd'.at = at /\ cmd'.t = t /\ cmd'.from = from
  BY <1>5 DEF ServiceCommands
<1>7. ServiceTypes'
  <2>1. main' = "waiting" => \A u \in Threads : rd'[u].at = "unborn"
    BY DEF DiagnosisInv, SteppingInv, ServiceTypes, SameReader
  <2>2. op # "none" /\ at # "idle"
    BY DEF CommandNames, CommandPlaces
  <2> QED
    BY <1>6, <2>1, <2>2 DEF DiagnosisInv, SteppingInv, ServiceTypes
<1>8. Stepping'
  BY <1>4, <1>5, <1>6 DEF Stepping, Committed
<1> QED
  BY <1>2, <1>7, <1>8 DEF DiagnosisInv, SteppingInv

\* What the service works out from a reader is a count.
LEMMA CountsTyped ==
  ASSUME ServiceTypes, ReadersOK, NEW t \in Threads
  PROVE  /\ rd[t].cli_packet \in Nat /\ cli_current_packet_count(t) \in Nat /\ cli_current_call(t) \in Nat
         /\ cli_thread \in Threads /\ rd \in [Threads -> Readers]
<1>1. rd[t] \in Readers /\ cli_thread \in Threads /\ rd \in [Threads -> Readers]
  BY DEF ServiceTypes
<1>2. rd[t].cli_packet \in Nat /\ rd[t].api_call_count \in Nat
  BY <1>1 DEF Readers
<1> QED
  BY <1>1, <1>2 DEF cli_current_packet_count, cli_current_call

LEMMA CommandStepKeeps ==
  ASSUME DiagnosisInv, NEW mode \in {"packets", "calls"}, CommandStep(mode, 1)
  PROVE  DiagnosisInv'
<1>1. ServiceTypes /\ ReadersOK /\ cli_thread \in Threads /\ cli_isolate_thread \in BOOLEAN /\ rd \in [Threads -> Readers]
  BY DEF DiagnosisInv, SteppingInv, ServiceTypes
<1>2. PICK c \in Nat : c = 1 + (IF mode = "calls" THEN cli_current_call(cli_thread) ELSE cli_current_packet_count(cli_thread))
  BY <1>1, CountsTyped
<1>3. PICK new : new = [cli_function |-> "none", cli_step |-> mode, cli_call |-> c]
  OBVIOUS
<1>4. SetReader(cli_thread, new)
  BY <1>2, <1>3 DEF CommandStep
<1>5. rd' \in [Threads -> Readers] /\ \A u \in Threads : SameReader(u)
  BY <1>1, <1>3, <1>4, Told DEF Names
<1>6. /\ cmd' = [op |-> "step", at |-> "resume", t |-> cli_thread, scan |-> 0, from |-> Committed(cli_thread)]
      /\ Trace' = Trace /\ diag' = diag /\ main' = main /\ stop' = stop /\ cli_running' = cli_running
      /\ cli_isolate_thread' = cli_isolate_thread /\ cli_thread' = cli_thread
  BY DEF CommandStep, Begin
<1>7. "step" \in CommandNames /\ "resume" \in CommandPlaces
  BY DEF CommandNames, CommandPlaces
<1> QED
  BY <1>1, <1>5, <1>6, <1>7, BeginKeeps

LEMMA CommandGotoKeeps ==
  ASSUME DiagnosisInv, NEW target \in 0 .. Len(Trace[cli_thread]) - 1, CommandGoto(target)
  PROVE  DiagnosisInv'
<1>1. ServiceTypes /\ ReadersOK /\ cli_thread \in Threads /\ cli_isolate_thread \in BOOLEAN /\ rd \in [Threads -> Readers]
  BY DEF DiagnosisInv, SteppingInv, ServiceTypes
<1>2. target + 1 \in Nat
  OBVIOUS
<1>3. PICK new : new = [cli_function |-> "none", cli_step |-> "packets", cli_call |-> target + 1]
  OBVIOUS
<1>4. rd' = rd \/ SetReader(cli_thread, new)
  BY <1>3 DEF CommandGoto
<1>5. rd' \in [Threads -> Readers] /\ \A u \in Threads : SameReader(u)
  <2>1. CASE rd' = rd
    BY <1>1, <2>1 DEF SameReader
  <2>2. CASE SetReader(cli_thread, new)
    BY <1>1, <1>2, <1>3, <2>2, Told DEF Names
  <2> QED
    BY <1>4, <2>1, <2>2
<1>6. PICK at \in {"quiet", "resume"} :
        /\ cmd' = [op |-> "goto", at |-> at, t |-> cli_thread, scan |-> 0, from |-> Committed(cli_thread)]
        /\ Trace' = Trace /\ diag' = diag /\ main' = main /\ stop' = stop /\ cli_running' = cli_running
        /\ cli_isolate_thread' = cli_isolate_thread /\ cli_thread' = cli_thread
  BY DEF CommandGoto, Begin
<1>7. "goto" \in CommandNames /\ at \in CommandPlaces
  BY <1>6 DEF CommandNames, CommandPlaces
<1> QED
  BY <1>1, <1>5, <1>6, <1>7, BeginKeeps

LEMMA CommandGotoNameKeeps ==
  ASSUME DiagnosisInv, NEW id \in Names, CommandGotoName(id)
  PROVE  DiagnosisInv'
<1>1. ServiceTypes /\ ReadersOK /\ cli_thread \in Threads /\ cli_isolate_thread \in BOOLEAN /\ rd \in [Threads -> Readers]
  BY DEF DiagnosisInv, SteppingInv, ServiceTypes
<1>2. PICK c \in Nat : c = cli_current_call(cli_thread) + 1
  BY <1>1, CountsTyped
<1>3. PICK new : new = [cli_function |-> id, cli_step |-> "function", cli_call |-> c]
  OBVIOUS
<1>4. SetReader(cli_thread, new)
  BY <1>2, <1>3 DEF CommandGotoName
<1>5. rd' \in [Threads -> Readers] /\ \A u \in Threads : SameReader(u)
  BY <1>1, <1>3, <1>4, Told
<1>6. /\ cmd' = [op |-> "goto", at |-> "resume", t |-> cli_thread, scan |-> 0, from |-> Committed(cli_thread)]
      /\ Trace' = Trace /\ diag' = diag /\ main' = main /\ stop' = stop /\ cli_running' = cli_running
      /\ cli_isolate_thread' = cli_isolate_thread /\ cli_thread' = cli_thread
  BY DEF CommandGotoName, Begin
<1>7. "goto" \in CommandNames /\ "resume" \in CommandPlaces
  BY DEF CommandNames, CommandPlaces
<1> QED
  BY <1>1, <1>5, <1>6, <1>7, BeginKeeps

LEMMA SelectKeeps ==
  ASSUME DiagnosisInv, NEW t \in Threads, cli_select_thread(t)
  PROVE  DiagnosisInv'
<1>1. ServiceTypes /\ ReadersOK /\ cli_thread \in Threads /\ cli_isolate_thread \in BOOLEAN /\ rd \in [Threads -> Readers]
  BY DEF DiagnosisInv, SteppingInv, ServiceTypes
<1>2. PICK c \in Nat : c = rd[t].cli_packet + 1
  BY <1>1, CountsTyped
<1>3. PICK new : new = [cli_paused_call |-> 0, cli_function |-> "none", cli_step |-> "packets", cli_call |-> c]
  OBVIOUS
<1>4. rd' = rd \/ SetReader(t, new)
  BY <1>2, <1>3 DEF cli_select_thread
<1>5. rd' \in [Threads -> Readers] /\ \A u \in Threads : SameReader(u)
  <2>1. CASE rd' = rd
    BY <1>1, <2>1 DEF SameReader
  <2>2. CASE SetReader(t, new)
    BY <1>1, <1>3, <2>2, Told DEF Names
  <2> QED
    BY <1>4, <2>1, <2>2
<1>6. PICK at \in {"quiet", "resume"} :
        /\ cmd' = [op |-> "thread", at |-> at, t |-> t, scan |-> 0, from |-> Committed(t)]
        /\ Trace' = Trace /\ diag' = diag /\ main' = main /\ stop' = stop /\ cli_running' = cli_running
        /\ cli_isolate_thread' = cli_isolate_thread /\ cli_thread' \in {cli_thread, t}
  BY DEF cli_select_thread, Begin
<1>7. "thread" \in CommandNames \ {"step", "goto"} /\ at \in CommandPlaces
  BY <1>6 DEF CommandNames, CommandPlaces
<1> QED
  BY <1>1, <1>5, <1>6, <1>7, BeginKeeps

LEMMA CommandContinueKeeps ==
  ASSUME DiagnosisInv, CommandContinue
  PROVE  DiagnosisInv'
<1>1. ServiceTypes /\ ReadersOK /\ cli_thread \in Threads /\ rd \in [Threads -> Readers]
  BY DEF DiagnosisInv, SteppingInv, ServiceTypes
<1>2. UINT32_MAX \in Nat
  BY DEF UINT32_MAX
<1>3. PICK new : new = [cli_function |-> "none", cli_call |-> UINT32_MAX]
  OBVIOUS
<1>4. SetReader(cli_thread, new)
  BY <1>3 DEF CommandContinue
<1>5. rd' \in [Threads -> Readers] /\ \A u \in Threads : SameReader(u)
  BY <1>1, <1>2, <1>3, <1>4, Told DEF Names
<1>6. /\ cmd' = [op |-> "continue", at |-> "resume", t |-> cli_thread, scan |-> 0, from |-> Committed(cli_thread)]
      /\ Trace' = Trace /\ diag' = diag /\ main' = main /\ stop' = stop /\ cli_running' = cli_running
      /\ cli_isolate_thread' \in BOOLEAN /\ cli_thread' = cli_thread
  BY DEF CommandContinue, Begin
<1>7. "continue" \in CommandNames /\ "resume" \in CommandPlaces
  BY DEF CommandNames, CommandPlaces
<1> QED
  BY <1>1, <1>5, <1>6, <1>7, BeginKeeps

LEMMA CommandAskKeeps ==
  ASSUME DiagnosisInv, CommandSelfTest \/ \E r \in Requests : CommandRequest(r)
  PROVE  DiagnosisInv'
<1>1. ServiceTypes /\ cli_thread \in Threads /\ cli_isolate_thread \in BOOLEAN /\ rd \in [Threads -> Readers]
  BY DEF DiagnosisInv, SteppingInv, ServiceTypes
<1>2. /\ rd' = rd /\ Trace' = Trace /\ diag' = diag /\ main' = main /\ stop' = stop /\ cli_running' = cli_running
      /\ cli_isolate_thread' = cli_isolate_thread /\ cli_thread' = cli_thread
  BY DEF CommandSelfTest, CommandRequest
<1>3. PICK op \in {"self-test", "parameters", "instrument"}, at \in {"quiet", "clear"} :
        cmd' = [op |-> op, at |-> at, t |-> cli_thread, scan |-> 0, from |-> Committed(cli_thread)]
  <2>1. CASE CommandSelfTest
    BY <2>1 DEF CommandSelfTest, Begin
  <2>2. ASSUME NEW r \in Requests, CommandRequest(r)
        PROVE  \E op \in {"self-test", "parameters", "instrument"}, at \in {"quiet", "clear"} :
                 cmd' = [op |-> op, at |-> at, t |-> cli_thread, scan |-> 0, from |-> Committed(cli_thread)]
    BY <2>2 DEF CommandRequest, Begin, Requests
  <2> QED
    BY <2>1, <2>2
<1>4. op \in CommandNames /\ at \in CommandPlaces
  BY <1>3 DEF CommandNames, CommandPlaces
<1>5. \A u \in Threads : SameReader(u)
  BY <1>2 DEF SameReader
<1> QED
  BY <1>1, <1>2, <1>3, <1>4, <1>5, BeginKeeps

LEMMA IsolateKeeps ==
  ASSUME DiagnosisInv, NEW b \in BOOLEAN, CommandIsolate(b)
  PROVE  DiagnosisInv'
<1>1. cmd \in ServiceCommands /\ (cmd.at = "idle" <=> cmd.op = "none") /\ cli_running \in BOOLEAN
  BY DEF DiagnosisInv, SteppingInv, ServiceTypes
<1>2. /\ rd' = rd /\ Trace' = Trace /\ diag' = diag /\ cli_thread' = cli_thread /\ stop' = stop
      /\ cli_isolate_thread' \in BOOLEAN /\ cli_running' = cli_running /\ cmd' = cmd /\ main' = main
  BY DEF CommandIsolate
<1> QED
  BY <1>1, <1>2, QuietKeeps DEF stop_requested

LEMMA GiveKeeps ==
  ASSUME DiagnosisInv, GiveCommand
  PROVE  DiagnosisInv'
<1>1. ASSUME NEW p \in Threads, NEW k \in 1 .. Len(Trace[p]), CommandGotoName(Trace[p][k].id)
      PROVE  DiagnosisInv'
  <2>1. Trace[p][k] \in TracePackets
    BY TracePacket DEF DiagnosisInv, SteppingInv
  <2>2. Trace[p][k].id \in Names
    BY <2>1 DEF TracePackets, Names
  <2> QED
    BY <1>1, <2>2, CommandGotoNameKeeps
<1> QED
  BY <1>1, CommandStepKeeps, CommandGotoKeeps, SelectKeeps, IsolateKeeps, CommandContinueKeeps, CommandAskKeeps
  DEF GiveCommand

LEMMA StartKeeps ==
  ASSUME DiagnosisInv, MainStarts
  PROVE  DiagnosisInv'
<1>1. cmd \in ServiceCommands /\ (cmd.at = "idle" <=> cmd.op = "none") /\ cli_running \in BOOLEAN /\ cli_isolate_thread \in BOOLEAN
  BY DEF DiagnosisInv, SteppingInv, ServiceTypes
<1>2. /\ Trace' = Trace /\ diag' = diag /\ cli_thread' = cli_thread /\ stop' = stop
      /\ cli_isolate_thread' = cli_isolate_thread /\ cli_running' = cli_running /\ cmd' = cmd /\ main' # "waiting" /\ main = "waiting"
  BY DEF MainStarts
<1>3. CASE rd' = rd
  BY <1>1, <1>2, <1>3, QuietKeeps DEF stop_requested
<1>4. CASE rd' = [t \in Threads |-> [rd[t] EXCEPT !.at = "step", !.cli_state = "running"]]
  <2>1. /\ ServiceTypes /\ ReadersOK /\ Stepping /\ WaitsInPlace /\ Reporting /\ TiedUnmoved /\ DeadlockSeen /\ Found
        /\ DeadlockReported
    BY DEF DiagnosisInv, SteppingInv
  <2>2. ASSUME NEW t \in Threads
        PROVE  /\ rd[t] \in Readers /\ rd'[t] = [rd[t] EXCEPT !.at = "step", !.cli_state = "running"]
               /\ rd'[t] \in Readers /\ rd[t].at = "unborn" /\ ReaderOK(Trace[t], rd[t])
               /\ rd[t].cli_packet = 0 /\ rd[t].completed = 0 /\ rd[t].api_call_count = 0
    <3>1. rd[t] \in Readers /\ rd'[t] = [rd[t] EXCEPT !.at = "step", !.cli_state = "running"]
      BY <1>4, <2>1 DEF ServiceTypes
    <3>2. rd[t].at = "unborn" /\ ReaderOK(Trace[t], rd[t])
      BY <1>2, <2>1 DEF ServiceTypes, ReadersOK
    <3>3. rd'[t] \in Readers
      BY <3>1 DEF Readers, Places, ThreadStates
    <3>4. rd[t].cli_packet = 0 /\ rd[t].completed = 0 /\ rd[t].api_call_count <= 0 /\ rd[t].api_call_count \in Nat
      BY <3>1, <3>2 DEF ReaderOK, Readers
    <3> QED
      BY <3>1, <3>2, <3>3, <3>4
  <2>3. ServiceTypes'
    <3>1. rd' \in [Threads -> Readers]
      BY <1>4, <2>2
    <3> QED
      BY <1>2, <2>1, <3>1 DEF ServiceTypes
  <2>4. ASSUME NEW t \in Threads
        PROVE  /\ rd'[t].at = "step" /\ rd'[t].cli_state = "running" /\ rd'[t].inner = rd[t].inner
               /\ rd'[t].cli_packet = 0 /\ rd'[t].completed = 0 /\ rd'[t].api_call_count = 0
               /\ rd'[t].cli_step = rd[t].cli_step /\ rd'[t].cli_call = rd[t].cli_call
    BY <2>2, ZenonT(60) DEF Readers
  <2>5. ReadersOK'
    <3>1. \A t \in Threads : Len(Trace[t]) \in Nat
      BY <2>1, TracePacket
    <3> QED
      BY <1>2, <2>4, <3>1 DEF ReadersOK, ReaderOK, Reading
  <2>6. Stepping'
    <3>1. cmd.t \in Threads
      BY <1>1 DEF ServiceCommands
    <3>2. rd[cmd.t].cli_packet = 0
      BY <2>2, <3>1
    <3> QED
      BY <1>2, <2>1, <2>4, <3>1, <3>2 DEF Stepping
  <2>7. WaitsInPlace'
    BY <2>4 DEF WaitsInPlace, Waits
  <2>8. ASSUME NEW S \in SUBSET Threads, Knot(S) PROVE FALSE
    BY <2>2, <2>8 DEF Knot, Waiting
  <2>9. Reporting' /\ Found' /\ DeadlockSeen' /\ DeadlockReported'
    BY <1>2, <2>1, <2>8 DEF Reporting, Found, DeadlockSeen, DeadlockReported, stop_requested
  <2>10. TiedUnmoved'
    <3> SUFFICES ASSUME diag.at < Cardinality(Threads), ~stop_requested, NEW S \in SUBSET (0 .. (diag.at - 1)),
                        Tied(S, diag.seen, diag.at)', NEW t \in S
                 PROVE  FALSE
      BY <1>2 DEF TiedUnmoved, stop_requested
    <3>1. diag.at \in 0 .. (Cardinality(Threads) - 1) /\ diag.seen \in [0 .. (diag.at - 1) -> SnapshotRecords]
      BY <2>1, FS_CardinalityType, ThreadsAssumption DEF Reporting
    <3>2. S \in SUBSET Threads /\ \A u \in S : diag.seen[u] \in SnapshotRecords
      BY <3>1, FS_CardinalityType, ThreadsAssumption
    <3>3. \A u \in S : diag.seen[u].on \in Threads
      BY <3>2 DEF SnapshotRecords
    <3>4. \A u \in Threads : rd'[u].completed = rd[u].completed
      BY <2>2, <2>4
    <3>5. Tied(S, diag.seen, diag.at)
      BY <1>2, <3>3, <3>4 DEF Tied
    <3>6. Unmoved(t, diag.seen[t]) /\ t \in Threads
      BY <2>1, <3>2, <3>5 DEF TiedUnmoved
    <3> QED
      BY <2>2, <3>6 DEF Unmoved, Waiting
  <2> QED
    BY <2>3, <2>5, <2>6, <2>7, <2>9, <2>10 DEF DiagnosisInv, SteppingInv
<1> QED
  BY <1>3, <1>4 DEF MainStarts

-----------------------------------------------------------------------------
\* The report.
LEMMA SnapshotTyped ==
  ASSUME ServiceTypes, ReadersOK, NEW t \in Threads
  PROVE  /\ Snapshot(t) \in SnapshotRecords
         /\ Snapshot(t).state = rd[t].cli_state /\ Snapshot(t).completed = rd[t].completed
         /\ rd[t].at = "exec" => Snapshot(t).on = Packet(t).on /\ Snapshot(t).count = Packet(t).count
<1>1. rd[t] \in Readers /\ ReaderOK(Trace[t], rd[t])
  BY DEF ServiceTypes, ReadersOK
<1>2. PICK p : p = IF rd[t].cli_packet < Len(Trace[t]) THEN Packet(t) ELSE [on |-> t, count |-> 0]
  OBVIOUS
<1>3. Snapshot(t) = [state |-> rd[t].cli_state, completed |-> rd[t].completed, on |-> p.on, count |-> p.count]
  BY <1>2 DEF Snapshot
<1>4. p.on \in Threads /\ p.count \in Nat
  <2>1. CASE rd[t].cli_packet < Len(Trace[t])
    <3>1. rd[t].cli_packet + 1 \in 1 .. Len(Trace[t])
      BY <1>1, <2>1, TracePacket DEF Readers
    <3>2. Packet(t) \in TracePackets
      BY <3>1, TracePacket DEF Packet
    <3> QED
      BY <1>2, <2>1, <3>2 DEF TracePackets
  <2>2. CASE ~(rd[t].cli_packet < Len(Trace[t]))
    BY <1>2, <2>2
  <2> QED
    BY <2>1, <2>2
<1>5. rd[t].at = "exec" => p = Packet(t)
  BY <1>1, <1>2 DEF ReaderOK, Reading
<1> QED
  BY <1>1, <1>3, <1>4, <1>5 DEF SnapshotRecords, Readers

\* What has been read of one more thread.
SeenMore(seen, n) == [t \in 0 .. n |-> IF t = n THEN Snapshot(t) ELSE seen[t]]

LEMMA TiedMore ==
  ASSUME ServiceTypes, ReadersOK, WaitsInPlace, ~stop_requested, NEW n \in 0 .. (Cardinality(Threads) - 1),
         NEW seen \in [0 .. (n - 1) -> SnapshotRecords],
         \A S \in SUBSET (0 .. (n - 1)) : Tied(S, seen, n) => \A u \in S : Unmoved(u, seen[u]),
         NEW S \in SUBSET (0 .. n), Tied(S, SeenMore(seen, n), n + 1)
  PROVE  \A u \in S : Unmoved(u, SeenMore(seen, n)[u])
<1>0. n \in Threads /\ n \in Nat
  BY ThreadsAssumption, FS_CardinalityType
<1>1. PICK more : more = SeenMore(seen, n)
  OBVIOUS
<1>2. more[n] = Snapshot(n) /\ \A u \in 0 .. (n - 1) : more[u] = seen[u] /\ seen[u] \in SnapshotRecords
  BY <1>0, <1>1 DEF SeenMore
<1>3. PICK X \in SUBSET (0 .. (n - 1)) : X = S \ {n}
  <2>1. \A u \in 0 .. n : u # n => u \in 0 .. (n - 1)
    BY <1>0
  <2>2. S \ {n} \in SUBSET (0 .. (n - 1))
    BY <2>1
  <2> QED
    BY <2>2
<1>4. Tied(X, seen, n)
  <2> SUFFICES ASSUME NEW u \in X
               PROVE  /\ seen[u].state \in Waits
                      /\ IF seen[u].on \in 0 .. (n - 1)
                         THEN seen[u].on \in X /\ seen[u].count > seen[seen[u].on].completed
                         ELSE seen[u].count > rd[seen[u].on].completed
    BY DEF Tied
  <2>1. u \in S /\ more[u] = seen[u] /\ seen[u].on \in Threads
    BY <1>2, <1>3 DEF SnapshotRecords
  <2>2. /\ seen[u].state \in Waits
        /\ IF seen[u].on \in 0 .. ((n + 1) - 1)
           THEN seen[u].on \in S /\ seen[u].count > more[seen[u].on].completed
           ELSE seen[u].count > rd[seen[u].on].completed
    BY <1>1, <2>1 DEF Tied
  <2>3. CASE seen[u].on \in 0 .. (n - 1)
    BY <1>0, <1>2, <1>3, <2>2, <2>3
  <2>4. CASE seen[u].on = n
    <3>1. more[n].completed = rd[n].completed
      BY <1>0, <1>2, SnapshotTyped
    <3> QED
      BY <1>0, <2>2, <2>4, <3>1
  <2>5. CASE seen[u].on \notin 0 .. n
    BY <1>0, <2>2, <2>5
  <2> QED
    BY <1>0, <2>3, <2>4, <2>5
<1>5. \A u \in X : Unmoved(u, seen[u])
  BY <1>4
<1>6. ASSUME n \in S PROVE Unmoved(n, more[n])
  <2>1. more[n].state \in Waits
    BY <1>1, <1>6 DEF Tied
  <2>2. rd[n].cli_state \in Waits
    BY <1>0, <1>2, <2>1, SnapshotTyped
  <2>3. Waiting(n)
    BY <1>0, <2>2 DEF WaitsInPlace, Waiting
  <2> QED
    BY <1>0, <1>2, <2>3, SnapshotTyped DEF Unmoved, Waiting
<1>7. \A u \in S : Unmoved(u, more[u])
  BY <1>2, <1>3, <1>5, <1>6
<1> QED
  BY <1>1, <1>7

-----------------------------------------------------------------------------
\* Induction over a bounded range, by the least counterexample.
LEMMA LeastOf ==
  ASSUME NEW T \in SUBSET Nat, T # {}
  PROVE  \E x \in T : \A y \in T : x <= y
<1>1. PICK R : R = OpToRel(<, Nat)
  OBVIOUS
<1>2. IsWellFoundedOn(R, Nat)
  BY <1>1, NatLessThanWellFounded
<1>3. \A x, y \in Nat : x < y => <<x, y>> \in R
  BY <1>1 DEF OpToRel
<1>4. PICK x \in T : \A y \in T : ~(<<y, x>> \in R)
  BY <1>2, WFMin
<1>5. \A y \in T : ~(y < x)
  BY <1>3, <1>4
<1>6. x \in Nat /\ \A y \in T : y \in Nat
  OBVIOUS
<1>7. \A y \in T : x <= y
  BY <1>5, <1>6
<1> QED
  BY <1>7

LEMMA Throughout ==
  ASSUME NEW a \in Nat, NEW b \in Nat, NEW S, a \in S, \A n \in a .. (b - 1) : n \in S => n + 1 \in S
  PROVE  \A n \in a .. b : n \in S
<1> SUFFICES ASSUME NEW m \in a .. b, m \notin S PROVE FALSE
  OBVIOUS
<1>1. PICK T : T = {n \in a .. b : n \notin S}
  OBVIOUS
<1>2. T \in SUBSET Nat /\ m \in T
  BY <1>1
<1>3. PICK x \in T : \A y \in T : x <= y
  BY <1>2, LeastOf
<1>4. x \in a .. b /\ x \notin S /\ x # a
  BY <1>1, <1>3
<1>5. x - 1 \in a .. (b - 1) /\ x - 1 \in a .. b /\ x - 1 + 1 = x /\ x - 1 < x
  BY <1>4
<1>6. x - 1 \in T
  BY <1>1, <1>4, <1>5
<1> QED
  BY <1>3, <1>5, <1>6

\* One edge further from where a thread's edges have led.
Onward(seen, at) == [s \in Threads |-> IF at[s] = -1 THEN -1 ELSE WaitEdge(seen, at[s])]
IsFollowed(f, seen, m) == f = [k \in 0 .. m |-> IF k = 0 THEN [s \in Threads |-> s] ELSE Onward(seen, f[k - 1])]

LEMMA FollowedExists ==
  ASSUME NEW seen, NEW M \in Nat
  PROVE  \E f : IsFollowed(f, seen, M)
<1> DEFINE P(m) == \E f : IsFollowed(f, seen, m)
           Good == {m \in 0 .. M : P(m)}
<1>1. 0 \in Good
  <2>1. PICK f : f = [k \in 0 .. 0 |-> [s \in Threads |-> s]]
    OBVIOUS
  <2>2. IsFollowed(f, seen, 0)
    BY <2>1 DEF IsFollowed
  <2> QED
    BY <2>2
<1>2. ASSUME NEW m \in 0 .. (M - 1), m \in Good PROVE m + 1 \in Good
  <2>1. PICK f : f = [k \in 0 .. m |-> IF k = 0 THEN [s \in Threads |-> s] ELSE Onward(seen, f[k - 1])]
    BY <1>2 DEF IsFollowed
  <2>2. PICK g : g = [k \in 0 .. (m + 1) |-> IF k = m + 1 THEN Onward(seen, f[m]) ELSE f[k]]
    OBVIOUS
  <2>3. \A k \in 0 .. m : g[k] = f[k] /\ f[k] = IF k = 0 THEN [s \in Threads |-> s] ELSE Onward(seen, f[k - 1])
    BY <2>1, <2>2
  <2>4. ASSUME NEW k \in 0 .. (m + 1) PROVE g[k] = IF k = 0 THEN [s \in Threads |-> s] ELSE Onward(seen, g[k - 1])
    <3>1. CASE k = m + 1
      <4>1. k # 0 /\ k - 1 = m /\ m \in 0 .. m
        BY <3>1
      <4>2. g[k] = Onward(seen, f[m])
        BY <2>2, <3>1
      <4> QED
        BY <2>3, <4>1, <4>2
    <3>2. CASE k # m + 1
      <4>1. k \in 0 .. m /\ (k # 0 => k - 1 \in 0 .. m)
        BY <3>2
      <4> QED
        BY <2>3, <4>1
    <3> QED
      BY <3>1, <3>2
  <2>5. IsFollowed(g, seen, m + 1)
    BY <2>2, <2>4 DEF IsFollowed
  <2> QED
    BY <1>2, <2>5
<1> HIDE DEF Good, P
<1>3. \A m \in 0 .. M : m \in Good
  BY <1>1, <1>2, Throughout
<1>4. M \in Good
  BY <1>3
<1> QED
  BY <1>4 DEF Good, P

\* The way along the edges from thread s.
Way(f, seen, s, m) ==
  /\ f[0][s] = s
  /\ \A k \in 0 .. m : f[k][s] \in Threads \cup {-1}
  /\ \A k \in 0 .. (m - 1) : f[k + 1][s] = IF f[k][s] = -1 THEN -1 ELSE WaitEdge(seen, f[k][s])

LEMMA FollowedWay ==
  ASSUME NEW seen, \A t \in Threads : WaitEdge(seen, t) \in Threads \cup {-1}, NEW s \in Threads
  PROVE  Way(Followed(seen), seen, s, 2 * Cardinality(Threads))
<1>1. PICK M \in Nat : M = 2 * Cardinality(Threads)
  BY ThreadsAssumption, FS_CardinalityType
<1>2. PICK f : f = CHOOSE g : IsFollowed(g, seen, M)
  OBVIOUS
<1>3. Followed(seen) = f
  BY <1>1, <1>2 DEF Followed, IsFollowed, Onward
<1>4. f = [k \in 0 .. M |-> IF k = 0 THEN [u \in Threads |-> u] ELSE Onward(seen, f[k - 1])]
  BY <1>2, FollowedExists DEF IsFollowed
<1>5. f[0][s] = s
  BY <1>4
<1>6. ASSUME NEW k \in 0 .. (M - 1) PROVE f[k + 1][s] = IF f[k][s] = -1 THEN -1 ELSE WaitEdge(seen, f[k][s])
  <2>1. k + 1 \in 0 .. M /\ k + 1 # 0 /\ (k + 1) - 1 = k
    OBVIOUS
  <2>2. f[k + 1] = Onward(seen, f[k])
    BY <1>4, <2>1
  <2> QED
    BY <2>2 DEF Onward
<1>7. \A k \in 0 .. M : k \in {j \in 0 .. M : f[j][s] \in Threads \cup {-1}}
  <2> DEFINE In == {j \in 0 .. M : f[j][s] \in Threads \cup {-1}}
  <2>1. 0 \in In
    BY <1>5
  <2>2. ASSUME NEW k \in 0 .. (M - 1), k \in In PROVE k + 1 \in In
    BY <1>6, <2>2
  <2> HIDE DEF In
  <2>3. \A k \in 0 .. M : k \in In
    BY <2>1, <2>2, Throughout
  <2> QED
    BY <2>3 DEF In
<1> QED
  BY <1>1, <1>3, <1>5, <1>6, <1>7 DEF Way

\* A way that has not ended after as many edges as there are threads goes round:
\* it never ends, and from there on it stays on the threads it comes back to.
Rounds(f, s, n) ==
  /\ \A k \in 0 .. (2 * n) : f[k][s] \in Threads
  /\ \E p \in 1 .. n : f[2 * n][s] = f[2 * n - p][s]

LEMMA CountUpTo == ASSUME NEW b \in Nat PROVE IsFiniteSet(0 .. b) /\ Cardinality(0 .. b) = b + 1
<1>1. 0 \in Int /\ b \in Int /\ ~(0 > b) /\ b - 0 + 1 = b + 1
  OBVIOUS
<1>2. IsFiniteSet(0 .. b) /\ Cardinality(0 .. b) = IF 0 > b THEN 0 ELSE b - 0 + 1
  BY ONLY <1>1, FS_Interval
<1> QED
  BY <1>1, <1>2

LEMMA WayGoesRound ==
  ASSUME NEW f, NEW seen, NEW s \in Threads, NEW n \in Nat, n = Cardinality(Threads), Way(f, seen, s, 2 * n), f[n][s] # -1
  PROVE  Rounds(f, s, n)
<1>1. \A k \in 0 .. n : f[k][s] \in Threads
  <2> SUFFICES ASSUME NEW m \in 0 .. n, f[m][s] = -1 PROVE FALSE
    BY DEF Way
  <2> DEFINE Ended == {k \in m .. n : f[k][s] = -1}
  <2>1. m \in Ended
    OBVIOUS
  <2>2. ASSUME NEW k \in m .. (n - 1), k \in Ended PROVE k + 1 \in Ended
    BY <2>2 DEF Way
  <2> HIDE DEF Ended
  <2>3. m \in Nat
    OBVIOUS
  <2>4. \A k \in m .. n : k \in Ended
    BY <2>1, <2>2, <2>3, Throughout
  <2> QED
    BY <2>4 DEF Ended
<1>2. PICK i \in 0 .. n, j \in 0 .. n : i < j /\ f[i][s] = f[j][s]
  <2>1. PICK g : g = [k \in 0 .. n |-> f[k][s]]
    OBVIOUS
  <2>2. g \in [0 .. n -> Threads] /\ \A k \in 0 .. n : g[k] = f[k][s]
    BY <1>1, <2>1
  <2>3. IsFiniteSet(0 .. n) /\ Cardinality(0 .. n) = n + 1
    BY ONLY n \in Nat, CountUpTo
  <2>4. IsFiniteSet(Threads) /\ Cardinality(Threads) < Cardinality(0 .. n)
    BY <2>3, ThreadsAssumption
  <2>5. PICK x \in 0 .. n, y \in 0 .. n : x # y /\ g[x] = g[y]
    BY <2>2, <2>3, <2>4, FS_PigeonHole
  <2>6. x < y \/ y < x
    BY <2>5
  <2> QED
    BY <2>2, <2>5, <2>6
<1>3. PICK p \in 1 .. n : p = j - i
  BY <1>2
<1>4. \A m \in i .. (2 * n - p) : f[m + p][s] = f[m][s]
  <2> DEFINE Alike == {m \in i .. (2 * n - p) : f[m + p][s] = f[m][s]}
  <2>1. i \in Alike
    BY <1>2, <1>3
  <2>2. ASSUME NEW m \in i .. ((2 * n - p) - 1), m \in Alike PROVE m + 1 \in Alike
    <3>1. m \in 0 .. (2 * n - 1) /\ m + p \in 0 .. (2 * n - 1) /\ (m + 1) + p = (m + p) + 1
      BY <1>3
    <3>2. f[(m + p) + 1][s] = f[m + 1][s]
      BY <2>2, <3>1 DEF Way
    <3> QED
      BY <3>1, <3>2
  <2>3. 2 * n - p \in Nat /\ i \in Nat
    BY <1>3
  <2> HIDE DEF Alike
  <2>4. \A m \in i .. (2 * n - p) : m \in Alike
    BY <2>1, <2>2, <2>3, Throughout, ZenonT(60)
  <2> QED
    BY <2>4 DEF Alike
<1>5. \A k \in 0 .. (2 * n) : f[k][s] \in Threads
  <2> SUFFICES ASSUME NEW m \in 0 .. (2 * n), f[m][s] \notin Threads PROVE FALSE
    OBVIOUS
  <2>1. PICK T : T = {k \in 0 .. (2 * n) : f[k][s] \notin Threads}
    OBVIOUS
  <2>2. T \in SUBSET Nat /\ m \in T
    BY <2>1
  <2>3. PICK x \in T : \A y \in T : x <= y
    BY <2>2, LeastOf
  <2>4. x \in 0 .. (2 * n) /\ x > n /\ f[x][s] \notin Threads
    BY <1>1, <2>1, <2>3
  <2>5. x - p \in i .. (2 * n - p) /\ x - p \in 0 .. (2 * n) /\ (x - p) + p = x /\ x - p < x
    BY <1>2, <1>3, <2>4
  <2>6. x - p \in T
    BY <1>4, <2>1, <2>4, <2>5
  <2> QED
    BY <2>3, <2>5, <2>6
<1>6. f[2 * n][s] = f[2 * n - p][s]
  <2>1. 2 * n - p \in i .. (2 * n - p) /\ (2 * n - p) + p = 2 * n
    BY <1>2, <1>3
  <2> QED
    BY <1>4, <2>1
<1> QED
  BY <1>5, <1>6 DEF Rounds

LEMMA EdgeTyped ==
  ASSUME NEW seen \in [Threads -> SnapshotRecords], NEW t \in Threads
  PROVE  WaitEdge(seen, t) \in Threads \cup {-1}
<1>1. seen[t].on \in Threads
  BY DEF SnapshotRecords
<1> QED
  BY <1>1 DEF WaitEdge

\* Where the report starts to follow the edges: a thread from which they do not end.
Endless(seen) == {s \in Threads : Followed(seen)[Cardinality(Threads)][s] # -1}

LEMMA CycleFrom ==
  ASSUME NEW seen, FindCycle(seen) # {} \/ Endless(seen) # {}
  PROVE  \E s \in Endless(seen) :
           FindCycle(seen) = {Followed(seen)[k][s] : k \in Cardinality(Threads) .. (2 * Cardinality(Threads))}
<1>1. Endless(seen) # {}
  BY DEF FindCycle, Endless
<1>2. Endless(seen) \in SUBSET Nat
  BY ThreadsAssumption, FS_CardinalityType DEF Endless
<1>3. PICK s : s = CHOOSE v \in Endless(seen) : \A u \in Endless(seen) : v <= u
  OBVIOUS
<1>4. s \in Endless(seen)
  BY <1>1, <1>2, <1>3, LeastOf
<1>5. FindCycle(seen) = {Followed(seen)[k][s] : k \in Cardinality(Threads) .. (2 * Cardinality(Threads))}
  BY <1>1, <1>3 DEF FindCycle, Endless
<1> QED
  BY <1>4, <1>5

\* The threads the report names wait for each other, as the report has seen them.
LEMMA CycleClosed ==
  ASSUME NEW seen \in [Threads -> SnapshotRecords], NEW t \in FindCycle(seen)
  PROVE  t \in Threads /\ WaitEdge(seen, t) \in FindCycle(seen)
<1>1. PICK n \in Nat : n = Cardinality(Threads)
  BY ThreadsAssumption, FS_CardinalityType
<1>2. PICK f : f = Followed(seen)
  OBVIOUS
<1>3. PICK s \in Threads : f[n][s] # -1 /\ FindCycle(seen) = {f[k][s] : k \in n .. (2 * n)}
  <2>1. PICK s \in Endless(seen) :
           FindCycle(seen) = {Followed(seen)[k][s] : k \in Cardinality(Threads) .. (2 * Cardinality(Threads))}
    BY CycleFrom
  <2> QED
    BY <1>1, <1>2, <2>1 DEF Endless
<1>4. Way(f, seen, s, 2 * n)
  BY <1>1, <1>2, EdgeTyped, FollowedWay
<1>40. f[n][s] # -1
  BY <1>3
<1>50. Rounds(f, s, n)
  BY <1>1, <1>4, <1>40, WayGoesRound
<1>5. PICK p \in 1 .. n : f[2 * n][s] = f[2 * n - p][s] /\ \A k \in 0 .. (2 * n) : f[k][s] \in Threads
  BY <1>50 DEF Rounds
<1>6. PICK k \in n .. (2 * n) : t = f[k][s]
  BY <1>3
<1>7. t \in Threads
  BY <1>5, <1>6
<1>8. -1 \notin Threads
  BY ThreadsAssumption, FS_CardinalityType
<1>9. ASSUME NEW m \in n .. (2 * n - 1) PROVE WaitEdge(seen, f[m][s]) \in FindCycle(seen)
  <2>1. m \in 0 .. (2 * n - 1) /\ m + 1 \in n .. (2 * n) /\ m \in 0 .. (2 * n)
    OBVIOUS
  <2>2. f[m][s] # -1
    BY <1>5, <1>8, <2>1
  <2>3. f[m + 1][s] = WaitEdge(seen, f[m][s])
    BY <1>4, <2>1, <2>2 DEF Way
  <2> QED
    BY <1>3, <2>1, <2>3
<1>10. CASE k = 2 * n
  <2>1. 2 * n - p \in n .. (2 * n - 1)
    BY <1>5
  <2> QED
    BY <1>5, <1>6, <1>7, <1>9, <1>10, <2>1
<1>11. CASE k # 2 * n
  <2>1. k \in n .. (2 * n - 1)
    BY <1>11
  <2> QED
    BY <1>6, <1>7, <1>9, <2>1
<1> QED
  BY <1>10, <1>11

\* Where threads wait for each other as the report has seen them, it names some.
LEMMA CycleFound ==
  ASSUME NEW seen \in [Threads -> SnapshotRecords], NEW K \in SUBSET Threads, K # {}, \A t \in K : WaitEdge(seen, t) \in K
  PROVE  FindCycle(seen) # {}
<1>1. PICK n \in Nat : n = Cardinality(Threads)
  BY ThreadsAssumption, FS_CardinalityType
<1>2. PICK f : f = Followed(seen)
  OBVIOUS
<1>3. PICK s \in K : TRUE
  OBVIOUS
<1>4. Way(f, seen, s, 2 * n)
  BY <1>1, <1>2, EdgeTyped, FollowedWay
<1>5. -1 \notin Threads
  BY ThreadsAssumption, FS_CardinalityType
<1>6. \A k \in 0 .. n : f[k][s] \in K
  <2> DEFINE In == {k \in 0 .. n : f[k][s] \in K}
  <2>1. 0 \in In
    BY <1>4 DEF Way
  <2>2. ASSUME NEW k \in 0 .. (n - 1), k \in In PROVE k + 1 \in In
    <3>1. k \in 0 .. (2 * n - 1) /\ k + 1 \in 0 .. n
      OBVIOUS
    <3>2. f[k][s] \in K /\ f[k][s] # -1
      BY <1>5, <2>2
    <3>3. f[k + 1][s] = WaitEdge(seen, f[k][s])
      BY <1>4, <3>1, <3>2 DEF Way
    <3> QED
      BY <3>1, <3>2, <3>3
  <2> HIDE DEF In
  <2>3. \A k \in 0 .. n : k \in In
    BY <2>1, <2>2, Throughout
  <2> QED
    BY <2>3 DEF In
<1>7. s \in Endless(seen)
  BY <1>1, <1>2, <1>5, <1>6 DEF Endless
<1>8. PICK u \in Endless(seen) : FindCycle(seen) = {f[k][u] : k \in n .. (2 * n)}
  BY <1>1, <1>2, <1>7, CycleFrom
<1>9. n \in n .. (2 * n)
  OBVIOUS
<1> QED
  BY <1>8, <1>9

\* A knot the report has seen whole.
LEMMA KnotFound ==
  ASSUME ServiceTypes, ReadersOK, NEW seen \in [Threads -> SnapshotRecords], NEW S \in SUBSET Threads, Knot(S),
         \A t \in S : seen[t] = Snapshot(t)
  PROVE  FindCycle(seen) # {}
<1>1. ASSUME NEW t \in S PROVE WaitEdge(seen, t) \in S
  <2>1. Waiting(t) /\ Blocked(t) /\ Packet(t).on \in S
    BY DEF Knot
  <2>2. seen[t].state \in Waits /\ seen[t].on = Packet(t).on /\ seen[t].count = Packet(t).count
    BY <2>1, SnapshotTyped DEF Waiting
  <2>3. seen[Packet(t).on].completed = rd[Packet(t).on].completed
    BY <2>1, SnapshotTyped
  <2> QED
    BY <2>1, <2>2, <2>3 DEF Blocked, WaitEdge, Waits
<1> QED
  BY <1>1, CycleFound DEF Knot

\* What the report names when it has seen every thread is blocked still.
LEMMA CycleKnot ==
  ASSUME ServiceTypes, ReadersOK, WaitsInPlace, ~stop_requested, NEW seen \in [Threads -> SnapshotRecords],
         \A S \in SUBSET Threads : Tied(S, seen, Cardinality(Threads)) => \A u \in S : Unmoved(u, seen[u]),
         FindCycle(seen) # {}
  PROVE  Knot(FindCycle(seen))
<1>1. PICK C : C = FindCycle(seen)
  OBVIOUS
<1>2. C \in SUBSET Threads /\ C # {} /\ \A t \in C : WaitEdge(seen, t) \in C
  BY <1>1, CycleClosed
<1>3. -1 \notin Threads /\ Threads = 0 .. (Cardinality(Threads) - 1)
  BY ThreadsAssumption, FS_CardinalityType
<1>4. ASSUME NEW t \in C
      PROVE  seen[t].state \in Waits /\ seen[t].on \in C /\ seen[t].count > seen[seen[t].on].completed
  <2>1. WaitEdge(seen, t) # -1 /\ WaitEdge(seen, t) \in C
    BY <1>2, <1>3
  <2> QED
    BY <2>1 DEF WaitEdge, Waits
<1>5. Tied(C, seen, Cardinality(Threads))
  BY <1>2, <1>3, <1>4 DEF Tied
<1>6. \A u \in C : Unmoved(u, seen[u])
  BY <1>2, <1>5
<1>7. ASSUME NEW t \in C PROVE Waiting(t) /\ Blocked(t) /\ Packet(t).on \in C
  <2>1. seen[t].on \in 0 .. (Cardinality(Threads) - 1)
    BY <1>2, <1>3, <1>4
  <2> QED
    BY <1>2, <1>5, <1>6, <2>1, UnmovedBlocked
<1> QED
  BY <1>1, <1>2, <1>7 DEF Knot

LEMMA ReportKeeps ==
  ASSUME DiagnosisInv, replay_diagnostics_snapshot_threads
  PROVE  DiagnosisInv'
<1>1. /\ ServiceTypes /\ ReadersOK /\ Stepping /\ WaitsInPlace /\ Reporting /\ TiedUnmoved /\ DeadlockSeen /\ Found
      /\ DeadlockReported
  BY DEF DiagnosisInv, SteppingInv
<1>2. /\ rd' = rd /\ Trace' = Trace /\ cli_thread' = cli_thread /\ stop' = stop /\ cmd' = cmd /\ main' = main
      /\ cli_running' = cli_running /\ cli_isolate_thread' = cli_isolate_thread
  BY DEF replay_diagnostics_snapshot_threads
<1>3. ServiceTypes' /\ ReadersOK' /\ Stepping' /\ WaitsInPlace'
  BY <1>1, <1>2 DEF ServiceTypes, ReadersOK, Stepping, WaitsInPlace, Packet, stop_requested
<1>4. \A t \in Threads : Snapshot(t)' = Snapshot(t) /\ (Waiting(t)' <=> Waiting(t))
  BY <1>2 DEF Snapshot, Packet, Waiting
<1>5. \A S : Knot(S)' <=> Knot(S)
  BY <1>2 DEF Knot, Waiting, Blocked, Packet
<1>6. PICK N \in Nat : N = Cardinality(Threads) /\ N > 0 /\ Threads = 0 .. (N - 1)
  BY ThreadsAssumption, FS_CardinalityType
<1>7. diag.at \in -1 .. (N - 1)
  BY <1>1, <1>6 DEF replay_diagnostics_snapshot_threads, Reporting
<1>8. CASE diag.at = -1
  <2>1. diag' = [diag EXCEPT !.at = 0, !.deadlocked = Deadlocked]
    BY <1>8 DEF replay_diagnostics_snapshot_threads
  <2>2. diag' = [at |-> 0, seen |-> <<>>, cycle |-> {}, deadlocked |-> Deadlocked]
    <3>1. diag.seen = <<>> /\ diag.cycle = {}
      BY <1>1, <1>6, <1>8 DEF Reporting
    <3>2. diag = [at |-> diag.at, seen |-> diag.seen, cycle |-> diag.cycle, deadlocked |-> diag.deadlocked]
      BY <1>1 DEF Reporting
    <3> QED
      BY <2>1, <3>1, <3>2
  <2>3. diag'.at = 0 /\ diag'.seen = <<>> /\ diag'.cycle = {} /\ diag'.deadlocked = Deadlocked
    BY <2>2
  <2>4. <<>> \in [0 .. (0 - 1) -> SnapshotRecords]
    OBVIOUS
  <2>5. Reporting'
    <3>1. diag' = [at |-> diag'.at, seen |-> diag'.seen, cycle |-> diag'.cycle, deadlocked |-> diag'.deadlocked]
      BY <2>2
    <3> QED
      BY <1>6, <2>3, <2>4, <3>1 DEF Reporting
  <2>6. TiedUnmoved'
    BY <2>3 DEF TiedUnmoved
  <2>7. DeadlockSeen'
    <3>1. ASSUME Deadlocked PROVE \E S \in SUBSET Threads : Knot(S)
      BY <3>1 DEF Deadlocked, Knot, Waiting, Waits
    <3>2. \A t \in Threads : ~(t < 0)
      BY <1>6
    <3> QED
      BY <1>5, <2>3, <3>1, <3>2 DEF DeadlockSeen
  <2>8. Found' /\ DeadlockReported'
    BY <1>6, <2>3 DEF Found, DeadlockReported
  <2> QED
    BY <1>3, <2>5, <2>6, <2>7, <2>8 DEF DiagnosisInv, SteppingInv
<1>9. CASE diag.at # -1
  <2>1. PICK n \in 0 .. (N - 1) : n = diag.at
    BY <1>7, <1>9
  <2>2. PICK seen \in [0 .. (n - 1) -> SnapshotRecords] : seen = diag.seen
    BY <1>1, <1>6, <2>1 DEF Reporting
  <2>3. PICK more : more = SeenMore(seen, n)
    OBVIOUS
  <2>4. more \in [0 .. n -> SnapshotRecords] /\ more[n] = Snapshot(n) /\ \A t \in 0 .. (n - 1) : more[t] = seen[t]
    <3>1. n \in Threads
      BY <1>6
    <3>2. Snapshot(n) \in SnapshotRecords
      BY <1>1, <3>1, SnapshotTyped
    <3>3. \A t \in 0 .. n : t # n => t \in 0 .. (n - 1)
      OBVIOUS
    <3> QED
      BY <2>3, <3>2, <3>3 DEF SeenMore
  <2>5. diag' = [diag EXCEPT !.at = n + 1, !.seen = IF n + 1 = N THEN <<>> ELSE more,
                            !.cycle = IF n + 1 = N THEN FindCycle(more) ELSE {}]
    BY <1>6, <1>9, <2>1, <2>2, <2>3 DEF replay_diagnostics_snapshot_threads, SeenMore
  <2>6. /\ diag'.at = n + 1 /\ diag'.deadlocked = diag.deadlocked
        /\ diag'.seen = IF n + 1 = N THEN <<>> ELSE more
        /\ diag'.cycle = IF n + 1 = N THEN FindCycle(more) ELSE {}
        /\ diag' = [at |-> diag'.at, seen |-> diag'.seen, cycle |-> diag'.cycle, deadlocked |-> diag'.deadlocked]
    <3>1. diag = [at |-> diag.at, seen |-> diag.seen, cycle |-> diag.cycle, deadlocked |-> diag.deadlocked]
      BY <1>1 DEF Reporting
    <3> QED
      BY <2>5, <3>1
  <2>7. ASSUME ~stop_requested, NEW S \in SUBSET (0 .. n), Tied(S, more, n + 1)
        PROVE  \A u \in S : Unmoved(u, more[u])
    <3>1. \A X \in SUBSET (0 .. (n - 1)) : Tied(X, seen, n) => \A v \in X : Unmoved(v, seen[v])
      BY <1>1, <1>6, <2>1, <2>2, <2>7 DEF TiedUnmoved
    <3> QED
      BY <1>1, <1>6, <2>3, <2>7, <3>1, TiedMore
  <2>8. ASSUME diag.deadlocked, ~stop_requested
        PROVE  \E S \in SUBSET Threads : Knot(S) /\ \A t \in S : t < n + 1 => more[t] = Snapshot(t)
    <3>1. PICK S \in SUBSET Threads : Knot(S) /\ \A t \in S : t < n => seen[t] = Snapshot(t)
      BY <1>1, <1>6, <2>1, <2>2, <2>8 DEF DeadlockSeen
    <3>2. \A t \in S : t < n + 1 => (t = n \/ (t < n /\ t \in 0 .. (n - 1)))
      BY <1>6
    <3> QED
      BY <2>4, <3>1, <3>2
  <2>9. CASE n + 1 # N
    <3>1. diag'.at = n + 1 /\ diag'.seen = more /\ diag'.cycle = {} /\ n + 1 \in 0 .. (N - 1) /\ (n + 1) - 1 = n
      BY <2>6, <2>9
    <3>2. Reporting'
      BY <1>6, <2>4, <2>6, <3>1 DEF Reporting
    <3>3. TiedUnmoved'
      <4> SUFFICES ASSUME ~stop_requested, NEW S \in SUBSET (0 .. n), Tied(S, more, n + 1)', NEW u \in S
                   PROVE  Unmoved(u, more[u])'
        BY <1>2, <3>1 DEF TiedUnmoved, stop_requested
      <4>1. Tied(S, more, n + 1)
        BY <1>2 DEF Tied
      <4>2. Unmoved(u, more[u])
        BY <2>7, <4>1
      <4> QED
        BY <1>2, <4>2 DEF Unmoved, Waiting, Packet
    <3>4. DeadlockSeen'
      BY <1>2, <1>4, <1>5, <2>6, <2>8, <3>1 DEF DeadlockSeen, stop_requested
    <3>5. Found' /\ DeadlockReported'
      BY <1>6, <2>9, <3>1 DEF Found, DeadlockReported
    <3> QED
      BY <1>3, <3>2, <3>3, <3>4, <3>5 DEF DiagnosisInv, SteppingInv
  <2>10. CASE n + 1 = N
    <3>1. diag'.at = N /\ diag'.cycle = FindCycle(more) /\ 0 .. n = Threads /\ ~(N \in 0 .. (N - 1)) /\ ~(N < N)
      BY <1>6, <2>6, <2>10
    <3>2. more \in [Threads -> SnapshotRecords]
      BY <2>4, <3>1
    <3>3. Reporting'
      <4>1. FindCycle(more) \in SUBSET Threads
        BY <3>2, CycleClosed
      <4> QED
        BY <1>6, <2>6, <3>1, <4>1 DEF Reporting
    <3>4. TiedUnmoved' /\ DeadlockSeen'
      BY <1>6, <3>1 DEF TiedUnmoved, DeadlockSeen
    <3>5. Found'
      <4>1. ASSUME ~stop_requested, FindCycle(more) # {} PROVE Knot(FindCycle(more))
        <5>1. \A S \in SUBSET Threads : Tied(S, more, Cardinality(Threads)) => \A u \in S : Unmoved(u, more[u])
          BY <1>6, <2>7, <2>10, <3>1, <4>1
        <5> QED
          BY <1>1, <3>2, <4>1, <5>1, CycleKnot
      <4> QED
        BY <1>2, <1>5, <3>1, <4>1 DEF Found, stop_requested
    <3>6. DeadlockReported'
      <4>1. ASSUME diag.deadlocked, ~stop_requested PROVE FindCycle(more) # {}
        <5>1. PICK S \in SUBSET Threads : Knot(S) /\ \A t \in S : t < n + 1 => more[t] = Snapshot(t)
          BY <2>8, <4>1
        <5>2. ASSUME NEW t \in Threads PROVE t < n + 1
          <6>1. t \in 0 .. (N - 1)
            BY <1>6
          <6> QED
            BY <2>10, <6>1
        <5>3. \A t \in S : more[t] = Snapshot(t)
          BY <5>1, <5>2
        <5> QED
          BY <1>1, <3>2, <5>1, <5>3, KnotFound
      <4> QED
        BY <1>2, <2>6, <3>1, <4>1 DEF DeadlockReported, stop_requested
    <3> QED
      BY <1>3, <3>3, <3>4, <3>5, <3>6 DEF DiagnosisInv, SteppingInv
  <2> QED
    BY <2>9, <2>10
<1> QED
  BY <1>8, <1>9

-----------------------------------------------------------------------------
LEMMA ServiceBegins ==
  ASSUME Init
  PROVE  DiagnosisInv
<1>1. PICK N \in Nat : N = Cardinality(Threads) /\ N > 0 /\ Threads = 0 .. (N - 1)
  BY ThreadsAssumption, FS_CardinalityType
<1>2. ASSUME NEW t \in Threads
      PROVE  /\ rd[t] = [at |-> "unborn", inner |-> FALSE, cli_packet |-> 0, completed |-> 0,
                         api_call_count |-> 0, cli_state |-> "not_started", cli_call |-> UINT32_MAX,
                         cli_paused_call |-> 0, cli_step |-> "packets", cli_function |-> "none",
                         terminated |-> FALSE]
             /\ rd[t] \in Readers
  BY DEF Init, Readers, Places, ThreadStates, Names, UINT32_MAX
<1>3. rd \in [Threads -> Readers]
  BY <1>2 DEF Init
<1>4. ServiceTypes
  BY <1>2, <1>3, ThreadsAssumption, NoCommand DEF Init, ServiceTypes
<1>5. ReadersOK
  <2>1. \A t \in Threads : Len(Trace[t]) \in Nat
    BY <1>4, TracePacket
  <2> QED
    BY <1>2, <2>1 DEF ReadersOK, ReaderOK, Reading
<1>6. Stepping
  BY NoCommand DEF Init, Stepping
<1>7. WaitsInPlace
  BY <1>2 DEF WaitsInPlace, Waits
<1>8. diag = [at |-> -1, seen |-> <<>>, cycle |-> {}, deadlocked |-> FALSE]
  BY DEF Init
<1>9. Reporting /\ Found /\ DeadlockReported
  BY <1>1, <1>8 DEF Reporting, Found, DeadlockReported
<1>10. TiedUnmoved /\ DeadlockSeen
  BY <1>8 DEF TiedUnmoved, DeadlockSeen
<1> QED
  BY <1>4, <1>5, <1>6, <1>7, <1>9, <1>10 DEF DiagnosisInv, SteppingInv

LEMMA ServiceStep ==
  ASSUME DiagnosisInv, [Next]_vars
  PROVE  DiagnosisInv'
<1>1. CASE UNCHANGED vars
  <2>1. ServiceTypes
    BY DEF DiagnosisInv, SteppingInv
  <2> QED
    BY <1>1, <2>1, QuietKeeps DEF vars, stop_requested, ServiceTypes
<1>2. ASSUME NEW t \in Threads, replay_thread(t) PROVE DiagnosisInv'
  BY <1>2, ThreadAdvances, AdvanceKeeps DEF DiagnosisInv, SteppingInv
<1> QED
  BY <1>1, <1>2, CommandKeeps, GiveKeeps, StopKeeps, StartKeeps, ReportKeeps DEF Next

\* However the threads and the commands interleave, for every number of threads
\* and every traces, the invariant of the service holds.
LEMMA ServiceInvariant == Spec => []DiagnosisInv
<1>1. Init => DiagnosisInv
  BY ServiceBegins
<1>2. DiagnosisInv /\ [Next]_vars => DiagnosisInv'
  BY ServiceStep
<1> QED
  BY <1>1, <1>2, PTL DEF Spec

\* check_cli and the commands of service_command_response agree on how far a
\* thread may go: a step or a goto never takes it past its target, whatever
\* number of threads and commands there are.
THEOREM SteppingIsSound == Spec => []SteppingSound
<1>1. ASSUME DiagnosisInv PROVE TypeOK
  <2>1. ServiceTypes /\ ReadersOK
    BY <1>1 DEF DiagnosisInv, SteppingInv
  <2>2. ASSUME NEW t \in Threads
        PROVE  /\ rd[t].at \in Places
               /\ rd[t].cli_packet \in 0 .. Len(Trace[t]) /\ rd[t].completed \in 0 .. Len(Trace[t])
               /\ rd[t].api_call_count <= rd[t].cli_packet + 1
               /\ rd[t].at \in {"held", "pause", "serve"} => rd[t].cli_state = "cli_paused"
    <3>1. rd[t] \in Readers /\ ReaderOK(Trace[t], rd[t]) /\ Len(Trace[t]) \in Nat
      BY <2>1, TracePacket DEF ServiceTypes, ReadersOK
    <3>2. rd[t].cli_packet \in Nat /\ rd[t].completed \in Nat /\ rd[t].at \in Places
      BY <3>1 DEF Readers
    <3> QED
      BY <3>1, <3>2 DEF ReaderOK
  <2> QED
    BY <2>1, <2>2 DEF TypeOK, ServiceTypes, Places
<1>2. ASSUME DiagnosisInv PROVE StopsAtTarget
  BY <1>2 DEF DiagnosisInv, SteppingInv, Stepping, StopsAtTarget
<1>3. DiagnosisInv => SteppingSound
  BY <1>1, <1>2 DEF SteppingSound
<1> QED
  BY <1>3, ServiceInvariant, PTL

\* replay_diagnostics_snapshot_threads reads one thread after the other while they
\* run, and still the cycle it finds is one: every thread it names is blocked by
\* another it names; and threads that block each other when it begins are found.
THEOREM DiagnosisIsRight == Spec => []DiagnosisRight
<1>1. ASSUME DiagnosisInv PROVE DiagnosisRight
  BY <1>1 DEF DiagnosisInv, Found, Knot, Waiting, DiagnosisRight, DiagnosedCycleIsReal
<1> QED
  BY <1>1, ServiceInvariant, PTL

-----------------------------------------------------------------------------
(***************************************************************************)
(* The virtual swapchain, for any number of images of the two swapchains   *)
(* and any order in which the driver hands them out.                       *)
(*                                                                         *)
(* The argument.  A copy that has not run has its stored image in flight   *)
(* and its fence unsignalled, so the wait before the next present keeps    *)
(* the copies apart.  With a window, the real image of a copy that has not *)
(* run is queued and its semaphore unsignalled, and the images of the      *)
(* application are acquired, each for one stored image.  Without one, a    *)
(* copy is followed by the wait for its semaphore, which is signalled only *)
(* while that wait is first in the queue.                                  *)
(***************************************************************************)
RealState == [at : {"free", "acquired", "queued", "shown"}, shows : Int, wanted : Int]
Works == [kind : {"copy", "wait"}, stored : StoredImages \cup {NoImage}, real : RealImages, what : Int]
Swapchains ==
  [state : {"new", "live", "asserted", "destroyed"}, next_stored_image : StoredImages, next_swapchain_image : RealImages,
   acquired_real_image_indices : [StoredImages -> RealImages \cup {NoImage}], inflight : [StoredImages -> BOOLEAN]]

SwapTypes ==
  /\ noscreen \in BOOLEAN /\ held \in SUBSET StoredImages
  /\ swapchain \in Swapchains /\ image \in [RealImages -> RealState]
  /\ content \in [StoredImages -> Int] /\ rendered \in Int
  /\ fence \in [StoredImages -> BOOLEAN] /\ signalled \in [RealImages -> BOOLEAN]
  /\ gpu \in Seq(Works)
  /\ ranges \in Seq([first : Nat, last : Int]) /\ range \in 1 .. (Len(ranges) + 1) /\ frame \in Int
  /\ swapchain.state = "new" => swapchain = [Fresh EXCEPT !.state = "new"] /\ held = {} /\ gpu = <<>>
  /\ \A i \in held : swapchain.acquired_real_image_indices[i] # NoImage

\* A copy that has not run: its command buffer is in use and its fence is not signalled.
CopiesApart ==
  /\ \A k \in DOMAIN gpu : gpu[k].kind = "copy" =>
       gpu[k].stored \in StoredImages /\ swapchain.inflight[gpu[k].stored] /\ ~fence[gpu[k].stored]
  /\ \A j, k \in DOMAIN gpu :
       gpu[j].kind = "copy" /\ gpu[k].kind = "copy" /\ gpu[j].stored = gpu[k].stored => j = k
  /\ swapchain.state = "destroyed" => \A k \in DOMAIN gpu : gpu[k].kind # "copy"

\* With a window: where a real image is says who uses it and its semaphore.
ImagesApart ==
  /\ \A k \in DOMAIN gpu :
       /\ gpu[k].kind = "copy" /\ image[gpu[k].real].at = "queued"
       /\ gpu[k].what = image[gpu[k].real].wanted /\ ~signalled[gpu[k].real]
  /\ \A j, k \in DOMAIN gpu : gpu[j].real = gpu[k].real => j = k
  /\ \A r \in RealImages : signalled[r] => image[r].at = "queued" /\ image[r].shows = image[r].wanted
  /\ \A r \in RealImages : image[r].at = "shown" => image[r].shows = image[r].wanted
  /\ \A i \in held : image[swapchain.acquired_real_image_indices[i]].at = "acquired"
  /\ \A i, j \in held :
       swapchain.acquired_real_image_indices[i] = swapchain.acquired_real_image_indices[j] => i = j

\* Without one: a copy and the wait for it are next to each other.
WaitsFollow ==
  /\ \A r \in RealImages : image[r].at = "free"
  /\ \A k \in DOMAIN gpu : gpu[k].kind = "copy" =>
       k + 1 \in DOMAIN gpu /\ gpu[k + 1].kind = "wait" /\ gpu[k + 1].real = gpu[k].real
  /\ \A r \in RealImages : signalled[r] => gpu # <<>> /\ gpu[1].kind = "wait" /\ gpu[1].real = r

SwapInv ==
  /\ SwapTypes /\ CopiesApart
  /\ noscreen => WaitsFollow
  /\ ~noscreen /\ "remade" \notin odd => ImagesApart

-----------------------------------------------------------------------------
\* is_frame_selected finds a range or the end of the list.
LEMMA RangeMoves ==
  ASSUME ranges \in Seq([first : Nat, last : Int]), range \in 1 .. (Len(ranges) + 1), NEW f \in Int
  PROVE  /\ NextRange(f) \in 1 .. (Len(ranges) + 1) /\ NextRange(f) \in range .. (Len(ranges) + 1)
         /\ NextRange(f) <= Len(ranges) => ranges[NextRange(f)].last >= f
         /\ \A j \in range .. (NextRange(f) - 1) : ranges[j].last < f
<1>1. PICK n \in Nat : n = Len(ranges)
  OBVIOUS
<1>2. PICK T : T = {k \in range .. (n + 1) : k <= n => ranges[k].last >= f}
  OBVIOUS
<1>3. T \in SUBSET Nat /\ n + 1 \in T
  BY <1>1, <1>2
<1>4. PICK k \in T : \A j \in T : k <= j
  BY <1>3, LeastOf
<1>5. \A j \in range .. (k - 1) : ranges[j].last < f
  <2> SUFFICES ASSUME NEW j \in range .. (k - 1) PROVE ranges[j].last < f
    OBVIOUS
  <2>1. k \in range .. (n + 1)
    BY <1>2, <1>4
  <2>2. j \in range .. (n + 1) /\ j < k /\ j \in 1 .. n
    BY <1>1, <2>1
  <2>3. ranges[j].last \in Int
    <3>1. j \in 1 .. Len(ranges)
      BY <1>1, <2>2
    <3>2. ranges[j] \in [first : Nat, last : Int]
      BY <3>1, ElementOfSeq
    <3> QED
      BY <3>2
  <2>4. ~(ranges[j].last >= f)
    BY <1>2, <1>4, <2>2
  <2> QED
    BY <2>3, <2>4
<1>6. k \in range .. (n + 1) /\ (k <= n => ranges[k].last >= f)
  BY <1>2, <1>4
<1>7. /\ NextRange(f) \in range .. (n + 1)
      /\ NextRange(f) <= n => ranges[NextRange(f)].last >= f
      /\ \A j \in range .. (NextRange(f) - 1) : ranges[j].last < f
  BY <1>1, <1>5, <1>6 DEF NextRange
<1> QED
  BY <1>1, <1>7

LEMMA SwapFacts ==
  ASSUME SwapTypes
  PROVE  /\ 0 \in StoredImages /\ 0 \in RealImages /\ NoImage \notin RealImages /\ NoImage \notin StoredImages
         /\ noscreen => RealImages = StoredImages
         /\ swapchain.state \in {"new", "live", "asserted", "destroyed"}
         /\ swapchain.next_stored_image \in StoredImages /\ swapchain.next_swapchain_image \in RealImages
         /\ swapchain.acquired_real_image_indices \in [StoredImages -> RealImages \cup {NoImage}]
         /\ swapchain.inflight \in [StoredImages -> BOOLEAN]
         /\ \A i \in held : i \in StoredImages /\ swapchain.acquired_real_image_indices[i] \in RealImages
         /\ Len(gpu) \in Nat /\ DOMAIN gpu = 1 .. Len(gpu) /\ \A k \in DOMAIN gpu : gpu[k] \in Works /\ gpu[k].real \in RealImages
<1>1. 0 \in StoredImages /\ 0 \in RealImages /\ NoImage \notin RealImages /\ NoImage \notin StoredImages
  BY SwapAssumption DEF StoredImages, RealImages, NoImage, SwapTypes
<1>2. noscreen => RealImages = StoredImages
  BY DEF RealImages, StoredImages
<1>3. /\ swapchain.state \in {"new", "live", "asserted", "destroyed"}
      /\ swapchain.next_stored_image \in StoredImages /\ swapchain.next_swapchain_image \in RealImages
      /\ swapchain.acquired_real_image_indices \in [StoredImages -> RealImages \cup {NoImage}]
      /\ swapchain.inflight \in [StoredImages -> BOOLEAN]
  BY DEF SwapTypes, Swapchains
<1>4. \A i \in held : i \in StoredImages /\ swapchain.acquired_real_image_indices[i] \in RealImages
  BY <1>3 DEF SwapTypes
<1>5. Len(gpu) \in Nat /\ DOMAIN gpu = 1 .. Len(gpu) /\ \A k \in DOMAIN gpu : gpu[k] \in Works
  BY DEF SwapTypes
<1>6. \A k \in DOMAIN gpu : gpu[k].real \in RealImages
  BY <1>5 DEF Works
<1> QED
  BY <1>1, <1>2, <1>3, <1>4, <1>5, <1>6

\* What does not touch the queue, the images, or the indices of the swapchain.
SwapQuiet ==
  /\ noscreen' = noscreen /\ ranges' = ranges /\ swapchain' = swapchain /\ held' = held
  /\ gpu' = gpu /\ fence' = fence /\ signalled' = signalled /\ image' = image /\ odd' = odd

LEMMA QuietSwap ==
  ASSUME SwapInv, SwapQuiet, content' \in [StoredImages -> Int], rendered' \in Int, frame' \in Int,
         range' \in 1 .. (Len(ranges) + 1)
  PROVE  SwapInv'
<1>1. RealImages' = RealImages /\ Works' = Works /\ Swapchains' = Swapchains /\ Fresh' = Fresh
  BY DEF SwapQuiet, RealImages, Works, Swapchains, Fresh
<1>2. SwapTypes'
  BY <1>1 DEF SwapInv, SwapTypes, SwapQuiet
<1>3. CopiesApart'
  BY DEF SwapInv, CopiesApart, SwapQuiet
<1>4. noscreen' => WaitsFollow'
  BY <1>1 DEF SwapInv, WaitsFollow, SwapQuiet
<1>5. ~noscreen' /\ "remade" \notin odd' => ImagesApart'
  BY <1>1 DEF SwapInv, ImagesApart, SwapQuiet
<1> QED
  BY <1>2, <1>3, <1>4, <1>5 DEF SwapInv

LEMMA QuietSteps ==
  ASSUME SwapInv,
         \/ \E i \in StoredImages : Render(i)
         \/ \E i \in BoundaryImages : SubmitFrameBoundary(i) \/ replay_process_android_frame_boundary(i)
         \/ UNCHANGED swapvars
  PROVE  SwapInv'
<1>1. content \in [StoredImages -> Int] /\ rendered \in Int /\ frame \in Int /\ range \in 1 .. (Len(ranges) + 1)
  BY DEF SwapInv, SwapTypes
<1>2. CASE UNCHANGED swapvars
  BY <1>1, <1>2, QuietSwap DEF swapvars, SwapQuiet
<1>3. ASSUME NEW i \in StoredImages, Render(i) PROVE SwapInv'
  <2>1. SwapQuiet /\ content' = [content EXCEPT ![i] = rendered + 1] /\ rendered' = rendered + 1 /\ frame' = frame /\ range' = range
    BY <1>3 DEF Render, SwapQuiet
  <2> QED
    BY <1>1, <2>1, QuietSwap
<1>4. ASSUME NEW i \in BoundaryImages, SubmitFrameBoundary(i) \/ replay_process_android_frame_boundary(i) PROVE SwapInv'
  <2>1. SwapQuiet /\ content' = content /\ rendered' = rendered /\ frame' = frame + 1 /\ range' = NextRange(frame)
    BY <1>4 DEF SubmitFrameBoundary, replay_process_android_frame_boundary, SwapQuiet
  <2>2. range' \in 1 .. (Len(ranges) + 1)
    BY <1>1, <2>1, RangeMoves DEF SwapInv, SwapTypes
  <2> QED
    BY <1>1, <2>1, <2>2, QuietSwap
<1> QED
  BY <1>2, <1>3, <1>4

LEMMA GpuStepKeeps ==
  ASSUME SwapInv, GpuStep
  PROVE  SwapInv'
<1>1. SwapTypes /\ CopiesApart
  BY DEF SwapInv
<1>2. PICK work \in Works : work = gpu[1] /\ work = Head(gpu) /\ gpu # <<>> /\ work.real \in RealImages
                            /\ work.kind \in {"copy", "wait"} /\ work.what \in Int
  <2>1. gpu # <<>> /\ gpu \in Seq(Works)
    BY <1>1 DEF GpuStep, SwapTypes
  <2>2. Head(gpu) = gpu[1] /\ Head(gpu) \in Works
    BY <2>1
  <2> QED
    BY <2>1, <2>2 DEF Works
<1>3. /\ noscreen' = noscreen /\ ranges' = ranges /\ swapchain' = swapchain /\ held' = held /\ content' = content
      /\ rendered' = rendered /\ range' = range /\ frame' = frame /\ odd' = odd
      /\ gpu' = Tail(gpu) /\ signalled' = [signalled EXCEPT ![work.real] = work.kind = "copy"]
      /\ work.kind = "wait" => signalled[work.real]
      /\ work.kind = "copy" => /\ fence' = [fence EXCEPT ![work.stored] = TRUE]
                               /\ image' = [image EXCEPT ![work.real].shows = work.what]
      /\ work.kind # "copy" => fence' = fence /\ image' = image
  BY <1>2 DEF GpuStep
<1>4. RealImages' = RealImages /\ Works' = Works /\ Swapchains' = Swapchains /\ Fresh' = Fresh
  BY <1>3 DEF RealImages, Works, Swapchains, Fresh
<1>5. /\ gpu' \in Seq(Works) /\ Len(gpu) \in Nat /\ Len(gpu) > 0 /\ DOMAIN gpu = 1 .. Len(gpu) /\ DOMAIN gpu' = 1 .. (Len(gpu) - 1)
      /\ \A k \in DOMAIN gpu' : k + 1 \in DOMAIN gpu /\ k + 1 # 1 /\ gpu'[k] = gpu[k + 1]
  <2>1. gpu \in Seq(Works) /\ gpu # <<>>
    BY <1>1, <1>2 DEF SwapTypes
  <2>2. Tail(gpu) \in Seq(Works) /\ Len(Tail(gpu)) = Len(gpu) - 1 /\ Len(gpu) \in Nat /\ Len(gpu) > 0
    BY <2>1
  <2>3. \A k \in 1 .. (Len(gpu) - 1) : Tail(gpu)[k] = gpu[k + 1]
    BY <2>1, <2>2
  <2> QED
    BY <1>3, <2>1, <2>2, <2>3
<1>6. 1 \in DOMAIN gpu /\ \A k \in DOMAIN gpu : gpu[k] \in Works /\ gpu[k].real \in RealImages
  BY <1>1, <1>5, SwapFacts
<1>7. /\ fence' \in [StoredImages -> BOOLEAN] /\ signalled' \in [RealImages -> BOOLEAN] /\ image' \in [RealImages -> RealState]
      /\ work.kind = "copy" => work.stored \in StoredImages
  <2>1. fence \in [StoredImages -> BOOLEAN] /\ signalled \in [RealImages -> BOOLEAN] /\ image \in [RealImages -> RealState]
    BY <1>1 DEF SwapTypes
  <2>2. work.kind = "copy" => work.stored \in StoredImages
    BY <1>1, <1>2, <1>6 DEF CopiesApart
  <2>3. fence' \in [StoredImages -> BOOLEAN] /\ signalled' \in [RealImages -> BOOLEAN]
    BY <1>3, <2>1
  <2>4. image' \in [RealImages -> RealState]
    BY <1>2, <1>3, <2>1, SMTT(30) DEF RealState
  <2> QED
    BY <2>2, <2>3, <2>4
<1>8. SwapTypes'
  BY <1>1, <1>2, <1>3, <1>4, <1>5, <1>7 DEF SwapTypes
<1>9. CopiesApart'
  <2>1. ASSUME NEW k \in DOMAIN gpu', gpu'[k].kind = "copy"
        PROVE  gpu'[k].stored \in StoredImages /\ swapchain'.inflight[gpu'[k].stored] /\ ~fence'[gpu'[k].stored]
    <3>1. k + 1 \in DOMAIN gpu /\ k + 1 # 1 /\ gpu'[k] = gpu[k + 1]
      BY <1>5
    <3>2. gpu'[k].stored \in StoredImages /\ swapchain.inflight[gpu'[k].stored] /\ ~fence[gpu'[k].stored]
      BY <1>1, <2>1, <3>1 DEF CopiesApart
    <3>3. work.kind = "copy" => gpu'[k].stored # work.stored
      BY <1>1, <1>2, <1>6, <2>1, <3>1 DEF CopiesApart
    <3>4. fence'[gpu'[k].stored] = fence[gpu'[k].stored]
      BY <1>1, <1>3, <3>2, <3>3 DEF SwapTypes
    <3> QED
      BY <1>3, <3>2, <3>4
  <2>2. ASSUME NEW j \in DOMAIN gpu', NEW k \in DOMAIN gpu', gpu'[j].kind = "copy", gpu'[k].kind = "copy",
               gpu'[j].stored = gpu'[k].stored
        PROVE  j = k
    <3>1. j + 1 \in DOMAIN gpu /\ k + 1 \in DOMAIN gpu /\ gpu'[j] = gpu[j + 1] /\ gpu'[k] = gpu[k + 1]
      BY <1>5
    <3>2. j + 1 = k + 1
      BY <1>1, <2>2, <3>1 DEF CopiesApart
    <3> QED
      BY <1>5, <3>2
  <2>3. swapchain'.state = "destroyed" => \A k \in DOMAIN gpu' : gpu'[k].kind # "copy"
    BY <1>1, <1>3, <1>5 DEF CopiesApart
  <2> QED
    BY <2>1, <2>2, <2>3 DEF CopiesApart
<1>91. ASSUME NEW r \in RealImages
       PROVE  /\ image'[r].at = image[r].at /\ image'[r].wanted = image[r].wanted
              /\ r # work.real => image'[r].shows = image[r].shows
              /\ r = work.real /\ work.kind = "copy" => image'[r].shows = work.what
  <2>1. image[r] \in RealState /\ image \in [RealImages -> RealState]
    BY <1>1 DEF SwapTypes
  <2>2. CASE work.kind # "copy"
    BY <1>3, <2>2
  <2>3. CASE work.kind = "copy" /\ r # work.real
    BY <1>3, <2>1, <2>3
  <2>4. CASE work.kind = "copy" /\ r = work.real
    <3>1. image'[r] = [image[r] EXCEPT !.shows = work.what]
      BY <1>3, <2>1, <2>4
    <3> QED
      BY <2>1, <2>4, <3>1 DEF RealState
  <2> QED
    BY <2>2, <2>3, <2>4
<1>10. ASSUME noscreen PROVE WaitsFollow'
  <2>1. WaitsFollow
    BY <1>10 DEF SwapInv
  <2>2. \A r \in RealImages : image'[r].at = "free"
    BY <1>91, <2>1 DEF WaitsFollow
  <2>3. ASSUME NEW k \in DOMAIN gpu', gpu'[k].kind = "copy"
        PROVE  k + 1 \in DOMAIN gpu' /\ gpu'[k + 1].kind = "wait" /\ gpu'[k + 1].real = gpu'[k].real
    <3>1. k + 1 \in DOMAIN gpu /\ gpu'[k] = gpu[k + 1]
      BY <1>5
    <3>2. (k + 1) + 1 \in DOMAIN gpu /\ gpu[(k + 1) + 1].kind = "wait" /\ gpu[(k + 1) + 1].real = gpu[k + 1].real
      BY <2>1, <2>3, <3>1 DEF WaitsFollow
    <3>3. k + 1 \in DOMAIN gpu'
      BY <1>5, <3>2
    <3> QED
      BY <1>5, <3>1, <3>2, <3>3
  <2>4. ASSUME NEW r \in RealImages, signalled'[r]
        PROVE  gpu' # <<>> /\ gpu'[1].kind = "wait" /\ gpu'[1].real = r
    <3>1. signalled \in [RealImages -> BOOLEAN]
      BY <1>1 DEF SwapTypes
    <3>2. signalled[r] => work.kind = "wait" /\ work.real = r
      BY <1>2, <2>1 DEF WaitsFollow
    <3>3. work.kind = "copy" /\ work.real = r
      BY <1>2, <1>3, <2>4, <3>1, <3>2
    <3>4. 1 + 1 \in DOMAIN gpu /\ gpu[1 + 1].kind = "wait" /\ gpu[1 + 1].real = gpu[1].real
      BY <1>2, <1>6, <2>1, <3>3 DEF WaitsFollow
    <3>5. 1 \in DOMAIN gpu'
      BY <1>5, <3>4
    <3>6. gpu'[1] = gpu[1 + 1]
      BY <1>5, <3>5
    <3>7. gpu' # <<>>
      BY <3>5
    <3> QED
      BY <1>2, <3>3, <3>4, <3>6, <3>7
  <2> QED
    BY <1>4, <2>2, <2>3, <2>4 DEF WaitsFollow
<1>11. ASSUME ~noscreen, "remade" \notin odd PROVE ImagesApart'
  <2>1. ImagesApart
    BY <1>11 DEF SwapInv
  <2>2. /\ work.kind = "copy" /\ image[work.real].at = "queued" /\ work.what = image[work.real].wanted
        /\ ~signalled[work.real]
    BY <1>2, <1>6, <2>1 DEF ImagesApart
  <2>3. ASSUME NEW r \in RealImages
        PROVE  /\ image'[r].at = image[r].at /\ image'[r].wanted = image[r].wanted
               /\ r # work.real => signalled'[r] = signalled[r] /\ image'[r].shows = image[r].shows
               /\ r = work.real => signalled'[r] /\ image'[r].shows = image[r].wanted
    <3>1. signalled \in [RealImages -> BOOLEAN] /\ signalled' = [signalled EXCEPT ![work.real] = TRUE]
      BY <1>1, <1>3, <2>2 DEF SwapTypes
    <3> QED
      BY <1>91, <2>2, <3>1
  <2>4. ASSUME NEW k \in DOMAIN gpu'
        PROVE  /\ gpu'[k].kind = "copy" /\ image'[gpu'[k].real].at = "queued"
               /\ gpu'[k].what = image'[gpu'[k].real].wanted /\ ~signalled'[gpu'[k].real]
    <3>1. k + 1 \in DOMAIN gpu /\ k + 1 # 1 /\ gpu'[k] = gpu[k + 1]
      BY <1>5
    <3>2. gpu[k + 1].real # work.real /\ gpu[k + 1].real \in RealImages
      BY <1>2, <1>6, <2>1, <3>1 DEF ImagesApart
    <3> QED
      BY <2>1, <2>3, <3>1, <3>2 DEF ImagesApart
  <2>5. ASSUME NEW j \in DOMAIN gpu', NEW k \in DOMAIN gpu', gpu'[j].real = gpu'[k].real PROVE j = k
    <3>1. j + 1 \in DOMAIN gpu /\ k + 1 \in DOMAIN gpu /\ gpu'[j] = gpu[j + 1] /\ gpu'[k] = gpu[k + 1]
      BY <1>5
    <3>2. j + 1 = k + 1
      BY <2>1, <2>5, <3>1 DEF ImagesApart
    <3> QED
      BY <1>5, <3>2
  <2>6. ASSUME NEW r \in RealImages, signalled'[r] PROVE image'[r].at = "queued" /\ image'[r].shows = image'[r].wanted
    BY <2>1, <2>2, <2>3, <2>6 DEF ImagesApart
  <2>7. ASSUME NEW r \in RealImages, image'[r].at = "shown" PROVE image'[r].shows = image'[r].wanted
    BY <2>1, <2>2, <2>3, <2>7 DEF ImagesApart
  <2>8. ASSUME NEW i \in held PROVE image'[swapchain.acquired_real_image_indices[i]].at = "acquired"
    BY <1>1, <2>1, <2>3, SwapFacts DEF ImagesApart
  <2>9. \A i, j \in held :
          swapchain.acquired_real_image_indices[i] = swapchain.acquired_real_image_indices[j] => i = j
    BY <2>1 DEF ImagesApart
  <2> QED
    BY <1>3, <1>4, <2>4, <2>5, <2>6, <2>7, <2>8, <2>9 DEF ImagesApart
<1> QED
  BY <1>3, <1>8, <1>9, <1>10, <1>11 DEF SwapInv

LEMMA ShowImageKeeps ==
  ASSUME SwapInv, NEW r \in RealImages, ShowImage(r) \/ ReleaseImage(r)
  PROVE  SwapInv'
<1>1. SwapTypes /\ CopiesApart
  BY DEF SwapInv
<1>2. /\ noscreen' = noscreen /\ ranges' = ranges /\ swapchain' = swapchain /\ held' = held /\ content' = content
      /\ rendered' = rendered /\ range' = range /\ frame' = frame /\ odd' = odd /\ gpu' = gpu /\ fence' = fence
  BY DEF ShowImage, ReleaseImage
<1>3. RealImages' = RealImages /\ Works' = Works /\ Swapchains' = Swapchains /\ Fresh' = Fresh
  BY <1>2 DEF RealImages, Works, Swapchains, Fresh
<1>4. image \in [RealImages -> RealState] /\ image[r] \in RealState /\ signalled \in [RealImages -> BOOLEAN]
  BY <1>1 DEF SwapTypes
<1>5. /\ image' \in [RealImages -> RealState] /\ signalled' \in [RealImages -> BOOLEAN]
      /\ \A k \in RealImages : k # r => image'[k] = image[k] /\ signalled'[k] = signalled[k]
      /\ image[r].at = "queued" => signalled[r] /\ ~signalled'[r] /\ image'[r].at = "shown" /\ image'[r].shows = image[r].shows /\ image'[r].wanted = image[r].wanted
      /\ image[r].at # "queued" => image[r].at = "shown" /\ signalled' = signalled /\ image'[r].at = "free"
  <2>1. CASE ShowImage(r)
    <3>1. /\ image[r].at = "queued" /\ signalled[r] /\ image' = [image EXCEPT ![r].at = "shown"]
          /\ signalled' = [signalled EXCEPT ![r] = FALSE]
      BY <2>1 DEF ShowImage
    <3>2. image'[r] = [image[r] EXCEPT !.at = "shown"]
      BY <1>4, <3>1
    <3>3. image'[r] \in RealState /\ image'[r].at = "shown" /\ image'[r].shows = image[r].shows /\ image'[r].wanted = image[r].wanted
      BY <1>4, <3>2 DEF RealState
    <3>4. image' \in [RealImages -> RealState] /\ \A k \in RealImages : k # r => image'[k] = image[k]
      <4>1. image' = [image EXCEPT ![r] = image'[r]]
        BY <1>4, <3>1
      <4> QED
        BY <1>4, <3>3, <4>1
    <3>5. signalled' \in [RealImages -> BOOLEAN] /\ ~signalled'[r] /\ \A k \in RealImages : k # r => signalled'[k] = signalled[k]
      BY <1>4, <3>1
    <3> QED
      BY <3>1, <3>3, <3>4, <3>5
  <2>2. CASE ReleaseImage(r)
    <3>1. image[r].at = "shown" /\ image' = [image EXCEPT ![r] = Free] /\ signalled' = signalled
      BY <2>2 DEF ReleaseImage
    <3>2. Free \in RealState /\ Free.at = "free"
      BY DEF Free, RealState
    <3> QED
      BY <1>4, <3>1, <3>2
  <2> QED
    BY <2>1, <2>2
<1>6. SwapTypes'
  BY <1>1, <1>2, <1>3, <1>5 DEF SwapTypes
<1>7. CopiesApart'
  BY <1>1, <1>2 DEF CopiesApart
<1>8. ASSUME noscreen PROVE WaitsFollow'
  <2>1. image[r].at = "free"
    BY <1>8 DEF SwapInv, WaitsFollow
  <2> QED
    BY <1>5, <2>1
<1>9. ASSUME ~noscreen, "remade" \notin odd PROVE ImagesApart'
  <2>1. ImagesApart
    BY <1>9 DEF SwapInv
  <2>2. \A k \in DOMAIN gpu : gpu[k].real \in RealImages
    BY <1>1, SwapFacts
  <2>3. ASSUME NEW k \in DOMAIN gpu
        PROVE  /\ gpu[k].kind = "copy" /\ image'[gpu[k].real].at = "queued"
               /\ gpu[k].what = image'[gpu[k].real].wanted /\ ~signalled'[gpu[k].real]
    <3>1. gpu[k].kind = "copy" /\ image[gpu[k].real].at = "queued" /\ gpu[k].what = image[gpu[k].real].wanted /\ ~signalled[gpu[k].real]
      BY <2>1 DEF ImagesApart
    <3>2. gpu[k].real # r
      BY <1>5, <3>1
    <3> QED
      BY <1>5, <2>2, <3>1, <3>2
  <2>4. ASSUME NEW k \in RealImages, signalled'[k] PROVE image'[k].at = "queued" /\ image'[k].shows = image'[k].wanted
    <3>1. k # r
      BY <1>5, <2>1, <2>4 DEF ImagesApart
    <3> QED
      BY <1>5, <2>1, <2>4, <3>1 DEF ImagesApart
  <2>5. ASSUME NEW k \in RealImages, image'[k].at = "shown" PROVE image'[k].shows = image'[k].wanted
    <3>1. CASE k # r
      BY <1>5, <2>1, <2>5, <3>1 DEF ImagesApart
    <3>2. CASE k = r
      BY <1>5, <2>1, <2>5, <3>2 DEF ImagesApart
    <3> QED
      BY <3>1, <3>2
  <2>6. ASSUME NEW i \in held PROVE image'[swapchain.acquired_real_image_indices[i]].at = "acquired"
    <3>1. swapchain.acquired_real_image_indices[i] \in RealImages /\ image[swapchain.acquired_real_image_indices[i]].at = "acquired"
      BY <1>1, <2>1, SwapFacts DEF ImagesApart
    <3> QED
      BY <1>5, <3>1
  <2> QED
    BY <1>2, <1>3, <2>1, <2>3, <2>4, <2>5, <2>6 DEF ImagesApart
<1> QED
  BY <1>2, <1>6, <1>7, <1>8, <1>9 DEF SwapInv

LEMMA FreshSwapchain == Fresh \in Swapchains /\ Fresh.state = "live"
<1>1. 0 \in StoredImages /\ 0 \in RealImages
  BY SwapAssumption DEF StoredImages, RealImages
<1> QED
  BY <1>1 DEF Fresh, Swapchains

LEMMA GetImagesKeeps ==
  ASSUME SwapInv, retrace_vkGetSwapchainImagesKHR
  PROVE  SwapInv'
<1>1. SwapTypes /\ CopiesApart
  BY DEF SwapInv
<1>2. /\ noscreen' = noscreen /\ ranges' = ranges /\ held' = held /\ content' = content /\ signalled' = signalled /\ image' = image
      /\ rendered' = rendered /\ range' = range /\ frame' = frame /\ odd' = odd /\ gpu' = gpu /\ fence' = fence
      /\ swapchain' = SwapchainImages /\ swapchain.state \in {"new", "live"}
  BY DEF retrace_vkGetSwapchainImagesKHR
<1>3. CASE swapchain.state = "live"
  <2>1. swapchain' = swapchain
    BY <1>2, <1>3 DEF SwapchainImages
  <2> QED
    BY <1>1, <1>2, <2>1, QuietSwap DEF SwapQuiet, SwapTypes
<1>4. CASE swapchain.state = "new"
  <2>1. swapchain' = Fresh /\ held = {} /\ gpu = <<>>
    BY <1>1, <1>2, <1>4 DEF SwapchainImages, SwapTypes
  <2>2. RealImages' = RealImages /\ Works' = Works /\ Swapchains' = Swapchains /\ Fresh' = Fresh
    BY <1>2 DEF RealImages, Works, Swapchains, Fresh
  <2>3. SwapTypes'
    BY <1>1, <1>2, <2>1, <2>2, FreshSwapchain DEF SwapTypes
  <2>4. DOMAIN gpu' = {}
    BY <1>2, <2>1
  <2>5. CopiesApart'
    BY <2>4 DEF CopiesApart
  <2>6. noscreen' => WaitsFollow'
    BY <1>2, <2>2 DEF SwapInv, WaitsFollow
  <2>7. ~noscreen' /\ "remade" \notin odd' => ImagesApart'
    BY <1>2, <2>1, <2>2, <2>4 DEF SwapInv, ImagesApart
  <2> QED
    BY <2>3, <2>5, <2>6, <2>7 DEF SwapInv
<1> QED
  BY <1>2, <1>3, <1>4

LEMMA AcquireFailedKeeps ==
  ASSUME SwapInv, NEW i \in StoredImages, AcquireFailed(i)
  PROVE  SwapInv'
<1>1. SwapTypes /\ CopiesApart
  BY DEF SwapInv
<1>2. /\ noscreen' = noscreen /\ ranges' = ranges /\ held' = held /\ content' = content /\ signalled' = signalled /\ image' = image
      /\ rendered' = rendered /\ range' = range /\ frame' = frame /\ gpu' = gpu /\ fence' = fence
      /\ odd' = odd \cup {"failed"} /\ swapchain' = [swapchain EXCEPT !.next_stored_image = i] /\ swapchain.state = "live"
  BY DEF AcquireFailed
<1>3. RealImages' = RealImages /\ Works' = Works /\ Swapchains' = Swapchains /\ Fresh' = Fresh
  BY <1>2 DEF RealImages, Works, Swapchains, Fresh
<1>4. /\ swapchain' \in Swapchains /\ swapchain'.state = "live" /\ swapchain'.inflight = swapchain.inflight
      /\ swapchain'.acquired_real_image_indices = swapchain.acquired_real_image_indices
  BY <1>1, <1>2 DEF SwapTypes, Swapchains
<1>5. SwapTypes'
  BY <1>1, <1>2, <1>3, <1>4 DEF SwapTypes
<1>6. CopiesApart'
  BY <1>1, <1>2, <1>4 DEF CopiesApart
<1>7. noscreen' => WaitsFollow'
  BY <1>2, <1>3 DEF SwapInv, WaitsFollow
<1>8. ~noscreen' /\ "remade" \notin odd' => ImagesApart'
  BY <1>2, <1>3, <1>4 DEF SwapInv, ImagesApart
<1> QED
  BY <1>5, <1>6, <1>7, <1>8 DEF SwapInv

LEMMA DestroySwapchainKeeps ==
  ASSUME SwapInv, DestroySwapchain
  PROVE  SwapInv'
<1>1. SwapTypes /\ CopiesApart
  BY DEF SwapInv
<1>2. /\ noscreen' = noscreen /\ ranges' = ranges /\ held' = held /\ content' = content /\ signalled' = signalled /\ image' = image
      /\ rendered' = rendered /\ range' = range /\ frame' = frame /\ gpu' = gpu /\ fence' = fence /\ odd' = odd
      /\ swapchain' = [swapchain EXCEPT !.state = "destroyed"] /\ held = {}
      /\ \A i \in StoredImages : swapchain.inflight[i] => fence[i]
  BY DEF DestroySwapchain, FenceWaitOver
<1>3. RealImages' = RealImages /\ Works' = Works /\ Swapchains' = Swapchains /\ Fresh' = Fresh
  BY <1>2 DEF RealImages, Works, Swapchains, Fresh
<1>4. /\ swapchain' \in Swapchains /\ swapchain'.state = "destroyed" /\ swapchain'.inflight = swapchain.inflight
      /\ swapchain'.acquired_real_image_indices = swapchain.acquired_real_image_indices
  BY <1>1, <1>2 DEF SwapTypes, Swapchains
<1>5. SwapTypes'
  BY <1>1, <1>2, <1>3, <1>4 DEF SwapTypes
<1>6. CopiesApart'
  BY <1>1, <1>2, <1>4 DEF CopiesApart
<1>7. noscreen' => WaitsFollow'
  BY <1>2, <1>3 DEF SwapInv, WaitsFollow
<1>8. ~noscreen' /\ "remade" \notin odd' => ImagesApart'
  BY <1>2, <1>3, <1>4 DEF SwapInv, ImagesApart
<1> QED
  BY <1>5, <1>6, <1>7, <1>8 DEF SwapInv

LEMMA AcquireKeeps ==
  ASSUME SwapInv, NEW i \in StoredImages, NEW r \in RealImages, AcquireNextImage(i, r)
  PROVE  SwapInv'
<1>1. SwapTypes /\ CopiesApart
  BY DEF SwapInv
<1>2. /\ noscreen' = noscreen /\ ranges' = ranges /\ content' = content /\ signalled' = signalled
      /\ rendered' = rendered /\ range' = range /\ frame' = frame /\ gpu' = gpu /\ fence' = fence
      /\ swapchain' = callback_vkAcquireNextImageKHR(i, r) /\ swapchain.state = "live"
      /\ i \notin held /\ held' = held \cup {i} /\ odd \subseteq odd'
      /\ ~noscreen => image[r].at = "free" /\ image' = [image EXCEPT ![r].at = "acquired"]
      /\ noscreen => image' = image
  BY DEF AcquireNextImage
<1>3. RealImages' = RealImages /\ Works' = Works /\ Swapchains' = Swapchains /\ Fresh' = Fresh
  BY <1>2 DEF RealImages, Works, Swapchains, Fresh
<1>4. /\ swapchain' \in Swapchains /\ swapchain'.state = "live" /\ swapchain'.inflight = swapchain.inflight
      /\ swapchain'.acquired_real_image_indices = [swapchain.acquired_real_image_indices EXCEPT ![i] = r]
  <2>1. /\ swapchain \in Swapchains /\ swapchain.acquired_real_image_indices \in [StoredImages -> RealImages \cup {NoImage}]
    BY <1>1, SwapFacts DEF SwapTypes
  <2>2. [swapchain.acquired_real_image_indices EXCEPT ![i] = r] \in [StoredImages -> RealImages \cup {NoImage}]
    BY <2>1
  <2> QED
    BY <1>2, <2>1, <2>2 DEF Swapchains, callback_vkAcquireNextImageKHR
<1>5. /\ swapchain'.acquired_real_image_indices[i] = r
      /\ \A j \in StoredImages : j # i => swapchain'.acquired_real_image_indices[j] = swapchain.acquired_real_image_indices[j]
  BY <1>1, <1>4, SwapFacts
<1>6. image \in [RealImages -> RealState] /\ image[r] \in RealState
  BY <1>1 DEF SwapTypes
<1>7. /\ image' \in [RealImages -> RealState]
      /\ ~noscreen => image'[r].at = "acquired" /\ \A k \in RealImages : k # r => image'[k] = image[k]
  <2>1. CASE noscreen
    BY <1>2, <1>6, <2>1
  <2>2. CASE ~noscreen
    <3>1. image'[r] = [image[r] EXCEPT !.at = "acquired"]
      BY <1>2, <1>6, <2>2
    <3>2. image'[r] \in RealState /\ image'[r].at = "acquired"
      BY <1>6, <3>1 DEF RealState
    <3>3. image' = [image EXCEPT ![r] = image'[r]]
      BY <1>2, <1>6, <2>2
    <3> QED
      BY <1>6, <3>2, <3>3
  <2> QED
    BY <2>1, <2>2
<1>8. NoImage \notin RealImages /\ held \in SUBSET StoredImages
  BY <1>1, SwapFacts DEF SwapTypes
<1>9. SwapTypes'
  <2>1. \A j \in held' : swapchain'.acquired_real_image_indices[j] # NoImage
    BY <1>1, <1>2, <1>5, <1>8 DEF SwapTypes
  <2> QED
    BY <1>1, <1>2, <1>3, <1>4, <1>7, <1>8, <2>1 DEF SwapTypes
<1>10. CopiesApart'
  BY <1>1, <1>2, <1>4 DEF CopiesApart
<1>11. noscreen' => WaitsFollow'
  BY <1>2, <1>3 DEF SwapInv, WaitsFollow
<1>12. ASSUME ~noscreen, "remade" \notin odd' PROVE ImagesApart'
  <2>1. ImagesApart
    BY <1>2, <1>12 DEF SwapInv
  <2>2. /\ \A k \in DOMAIN gpu : gpu[k].real \in RealImages
        /\ \A j \in held : j \in StoredImages /\ swapchain.acquired_real_image_indices[j] \in RealImages
    BY <1>1, SwapFacts
  <2>3. image[r].at = "free" /\ image'[r].at = "acquired" /\ \A k \in RealImages : k # r => image'[k] = image[k]
    BY <1>2, <1>7, <1>12
  <2>4. ASSUME NEW k \in DOMAIN gpu PROVE image'[gpu[k].real] = image[gpu[k].real]
    <3>1. gpu[k].real # r
      BY <2>1, <2>3 DEF ImagesApart
    <3> QED
      BY <2>2, <2>3, <3>1
  <2>5. ASSUME NEW k \in RealImages, signalled[k] PROVE image'[k].at = "queued" /\ image'[k].shows = image'[k].wanted
    <3>1. k # r
      BY <2>1, <2>3, <2>5 DEF ImagesApart
    <3> QED
      BY <2>1, <2>3, <2>5, <3>1 DEF ImagesApart
  <2>6. ASSUME NEW k \in RealImages, image'[k].at = "shown" PROVE image'[k].shows = image'[k].wanted
    <3>1. k # r
      BY <2>3, <2>6
    <3> QED
      BY <2>1, <2>3, <2>6, <3>1 DEF ImagesApart
  <2>7. ASSUME NEW j \in held
        PROVE  /\ j # i /\ swapchain'.acquired_real_image_indices[j] = swapchain.acquired_real_image_indices[j]
               /\ swapchain.acquired_real_image_indices[j] # r
               /\ image'[swapchain.acquired_real_image_indices[j]].at = "acquired"
    <3>1. j # i /\ swapchain'.acquired_real_image_indices[j] = swapchain.acquired_real_image_indices[j]
      BY <1>2, <1>5, <2>2
    <3>2. image[swapchain.acquired_real_image_indices[j]].at = "acquired"
      BY <2>1 DEF ImagesApart
    <3> QED
      BY <2>2, <2>3, <3>1, <3>2
  <2>8. \A j \in held' : image'[swapchain'.acquired_real_image_indices[j]].at = "acquired"
    BY <1>2, <1>5, <2>3, <2>7
  <2>9. ASSUME NEW j \in held', NEW k \in held',
               swapchain'.acquired_real_image_indices[j] = swapchain'.acquired_real_image_indices[k]
        PROVE  j = k
    BY <1>2, <1>5, <2>1, <2>7, <2>9 DEF ImagesApart
  <2> QED
    BY <1>2, <1>3, <2>1, <2>4, <2>5, <2>6, <2>8, <2>9 DEF ImagesApart
<1> QED
  BY <1>2, <1>9, <1>10, <1>11, <1>12 DEF SwapInv

LEMMA OutOfDateKeeps ==
  ASSUME SwapInv, NEW i \in StoredImages, NEW b, QueuePresentOutOfDate(i, b)
  PROVE  SwapInv'
<1>1. SwapTypes /\ CopiesApart
  BY DEF SwapInv
<1>2. PICK r : r = swapchain.acquired_real_image_indices[i]
  OBVIOUS
<1>3. PICK again : again = swapchain.acquired_real_image_indices[r]
  OBVIOUS
<1>4. /\ ~noscreen /\ noscreen' = noscreen /\ ranges' = ranges /\ content' = content /\ rendered' = rendered
      /\ swapchain.state = "live" /\ held' = held \ {i} /\ frame' = frame + 1 /\ range' = NextRange(frame)
      /\ signalled' = [k \in RealImages |-> FALSE] /\ ReissuedPresent(i, r, b) /\ odd' = odd \cup {"remade"}
  BY <1>2 DEF QueuePresentOutOfDate, Presented
<1>5. RealImages' = RealImages /\ Works' = Works /\ Swapchains' = Swapchains /\ Fresh' = Fresh
  BY <1>4 DEF RealImages, Works, Swapchains, Fresh
<1>6. range' \in 1 .. (Len(ranges') + 1) /\ frame' \in Int
  BY <1>1, <1>4, RangeMoves DEF SwapTypes
<1>7. /\ swapchain \in Swapchains /\ swapchain.inflight \in [StoredImages -> BOOLEAN] /\ content \in [StoredImages -> Int]
      /\ swapchain.acquired_real_image_indices \in [StoredImages -> RealImages \cup {NoImage}]
  BY <1>1, SwapFacts DEF SwapTypes
<1>8. Free \in RealState /\ [k \in RealImages |-> Free] \in [RealImages -> RealState]
  BY DEF Free, RealState
<1>9. /\ swapchain' \in Swapchains /\ swapchain'.state \in {"live", "asserted"}
      /\ swapchain'.acquired_real_image_indices = swapchain.acquired_real_image_indices
      /\ fence' \in [StoredImages -> BOOLEAN] /\ image' \in [RealImages -> RealState] /\ gpu' \in Seq(Works)
      /\ \A k \in DOMAIN gpu' : k = 1 /\ r \in StoredImages /\ gpu'[k].stored = r /\ swapchain'.inflight[r] /\ ~fence'[r]
  <2>1. CASE r \in StoredImages /\ again # NoImage
    <3>1. /\ swapchain' = [Use(i) EXCEPT !.inflight[r] = TRUE] /\ gpu' = <<Copy(r, again)>>
          /\ fence' = [k \in StoredImages |-> IF k = r THEN FALSE ELSE k = i \/ swapchain.inflight[k]]
          /\ image' = [[k \in RealImages |-> Free] EXCEPT ![again].at = "queued", ![again].wanted = content[i]]
      BY <1>3, <1>4, <2>1 DEF ReissuedPresent
    <3>2. again \in RealImages
      BY <1>3, <1>7, <2>1
    <3>3. PICK flight \in [StoredImages -> BOOLEAN] : flight = [[swapchain.inflight EXCEPT ![i] = TRUE] EXCEPT ![r] = TRUE] /\ flight[r]
      <4>1. PICK mid : mid = [swapchain.inflight EXCEPT ![i] = TRUE]
        OBVIOUS
      <4>2. mid \in [StoredImages -> BOOLEAN]
        BY <1>7, <4>1
      <4>3. [mid EXCEPT ![r] = TRUE] \in [StoredImages -> BOOLEAN] /\ [mid EXCEPT ![r] = TRUE][r]
        BY <2>1, <4>2
      <4> QED
        BY <4>1, <4>3
    <3>4. swapchain' = [swapchain EXCEPT !.inflight = flight]
      BY <1>7, <3>1, <3>3 DEF Use, Swapchains
    <3>5. /\ swapchain' \in Swapchains /\ swapchain'.state = "live" /\ swapchain'.inflight = flight
          /\ swapchain'.acquired_real_image_indices = swapchain.acquired_real_image_indices
      BY <1>4, <1>7, <3>4 DEF Swapchains
    <3>6. fence' \in [StoredImages -> BOOLEAN] /\ ~fence'[r]
      BY <1>7, <2>1, <3>1
    <3>7. image' \in [RealImages -> RealState]
      <4>1. content[i] \in Int
        BY <1>7
      <4> QED
        BY <1>8, <3>1, <3>2, <4>1 DEF RealState, Free
    <3>8. Copy(r, again) \in Works /\ Copy(r, again).stored = r
      BY <1>7, <2>1, <3>2 DEF Copy, Works
    <3>9. gpu' \in Seq(Works) /\ \A k \in DOMAIN gpu' : k = 1 /\ gpu'[k] = Copy(r, again)
      BY <3>1, <3>8
    <3> QED
      BY <2>1, <3>3, <3>5, <3>6, <3>7, <3>8, <3>9
  <2>2. CASE ~(r \in StoredImages /\ again # NoImage)
    <3>1. /\ swapchain' = [swapchain EXCEPT !.state = "asserted"] /\ gpu' = <<>> /\ fence' = fence
          /\ image' = [k \in RealImages |-> Free]
      BY <1>3, <1>4, <2>2 DEF ReissuedPresent
    <3>2. /\ swapchain' \in Swapchains /\ swapchain'.state = "asserted"
          /\ swapchain'.acquired_real_image_indices = swapchain.acquired_real_image_indices
      BY <1>7, <3>1 DEF Swapchains
    <3>3. gpu' \in Seq(Works) /\ DOMAIN gpu' = {}
      BY <3>1
    <3> QED
      BY <1>1, <1>8, <3>1, <3>2, <3>3 DEF SwapTypes
  <2> QED
    BY <2>1, <2>2
<1>10. SwapTypes'
  BY <1>1, <1>4, <1>5, <1>6, <1>9 DEF SwapTypes
<1>11. CopiesApart'
  BY <1>9 DEF CopiesApart
<1> QED
  BY <1>4, <1>10, <1>11 DEF SwapInv

LEMMA AppendOne ==
  ASSUME NEW S, NEW s \in Seq(S), NEW a \in S
  PROVE  /\ s \o <<a>> \in Seq(S) /\ DOMAIN (s \o <<a>>) = 1 .. (Len(s) + 1)
         /\ \A k \in DOMAIN s : k \in DOMAIN (s \o <<a>>) /\ (s \o <<a>>)[k] = s[k]
         /\ Len(s) + 1 \in DOMAIN (s \o <<a>>) /\ (s \o <<a>>)[Len(s) + 1] = a
<1> DEFINE more == <<a>>
           all == s \o more
<1>1. more \in Seq(S) /\ Len(more) = 1 /\ more[1] = a
  OBVIOUS
<1> HIDE DEF more
<1>2. all \in Seq(S) /\ Len(all) = Len(s) + 1 /\ Len(s) \in Nat /\ DOMAIN s = 1 .. Len(s)
  <2>1. all \in Seq(S) /\ Len(all) = Len(s) + Len(more)
    BY <1>1, ConcatProperties
  <2>2. Len(s) \in Nat /\ DOMAIN s = 1 .. Len(s)
    OBVIOUS
  <2> QED
    BY <1>1, <2>1, <2>2
<1>3. \A k \in 1 .. (Len(s) + 1) : all[k] = IF k <= Len(s) THEN s[k] ELSE more[k - Len(s)]
  <2>1. \A k \in 1 .. Len(s) + Len(more) : all[k] = IF k <= Len(s) THEN s[k] ELSE more[k - Len(s)]
    BY <1>1, ConcatProperties
  <2> QED
    BY <1>1, <2>1
<1>4. DOMAIN all = 1 .. (Len(s) + 1)
  BY <1>2
<1> HIDE DEF all
<1>5. Len(s) + 1 \in 1 .. (Len(s) + 1) /\ (Len(s) + 1) - Len(s) = 1 /\ ~(Len(s) + 1 <= Len(s))
  BY <1>2
<1>6. all[Len(s) + 1] = more[1]
  BY <1>3, <1>5
<1> QED
  BY <1>1, <1>2, <1>3, <1>4, <1>5, <1>6 DEF all, more

LEMMA AppendTwo ==
  ASSUME NEW S, NEW s \in Seq(S), NEW a \in S, NEW c \in S
  PROVE  /\ s \o <<a, c>> \in Seq(S) /\ DOMAIN (s \o <<a, c>>) = 1 .. (Len(s) + 2)
         /\ \A k \in DOMAIN s : k \in DOMAIN (s \o <<a, c>>) /\ (s \o <<a, c>>)[k] = s[k]
         /\ Len(s) + 1 \in DOMAIN (s \o <<a, c>>) /\ (s \o <<a, c>>)[Len(s) + 1] = a
         /\ Len(s) + 2 \in DOMAIN (s \o <<a, c>>) /\ (s \o <<a, c>>)[Len(s) + 2] = c
<1> DEFINE more == <<a, c>>
           all == s \o more
<1>1. more \in Seq(S) /\ Len(more) = 2 /\ more[1] = a /\ more[2] = c
  OBVIOUS
<1> HIDE DEF more
<1>2. all \in Seq(S) /\ Len(all) = Len(s) + 2 /\ Len(s) \in Nat /\ DOMAIN s = 1 .. Len(s)
  <2>1. all \in Seq(S) /\ Len(all) = Len(s) + Len(more)
    BY <1>1, ConcatProperties
  <2>2. Len(s) \in Nat /\ DOMAIN s = 1 .. Len(s)
    OBVIOUS
  <2> QED
    BY <1>1, <2>1, <2>2
<1>3. \A k \in 1 .. (Len(s) + 2) : all[k] = IF k <= Len(s) THEN s[k] ELSE more[k - Len(s)]
  <2>1. \A k \in 1 .. Len(s) + Len(more) : all[k] = IF k <= Len(s) THEN s[k] ELSE more[k - Len(s)]
    BY <1>1, ConcatProperties
  <2> QED
    BY <1>1, <2>1
<1>4. DOMAIN all = 1 .. (Len(s) + 2)
  BY <1>2
<1> HIDE DEF all
<1>5. /\ Len(s) + 1 \in 1 .. (Len(s) + 2) /\ (Len(s) + 1) - Len(s) = 1 /\ ~(Len(s) + 1 <= Len(s))
      /\ Len(s) + 2 \in 1 .. (Len(s) + 2) /\ (Len(s) + 2) - Len(s) = 2 /\ ~(Len(s) + 2 <= Len(s))
  BY <1>2
<1>6. all[Len(s) + 1] = more[1] /\ all[Len(s) + 2] = more[2]
  BY <1>3, <1>5
<1> QED
  BY <1>1, <1>2, <1>3, <1>4, <1>5, <1>6 DEF all, more

LEMMA QueuePresentKeeps ==
  ASSUME SwapInv, NEW i \in StoredImages, NEW b, QueuePresent(i, b)
  PROVE  SwapInv'
<1>1. SwapTypes /\ CopiesApart
  BY DEF SwapInv
<1>2. PICK r : r = swapchain.acquired_real_image_indices[i]
  OBVIOUS
<1>3. /\ noscreen' = noscreen /\ ranges' = ranges /\ content' = content /\ rendered' = rendered
      /\ signalled' = signalled /\ odd' = odd
      /\ swapchain.state = "live" /\ held' = held \ {i} /\ frame' = frame + 1 /\ range' = NextRange(frame)
      /\ i \in held /\ (swapchain.inflight[i] => fence[i]) /\ swapchain' = [swapchain EXCEPT !.inflight[i] = TRUE]
      /\ fence' = [fence EXCEPT ![i] = FALSE]
      /\ gpu' = gpu \o (IF noscreen THEN <<Copy(i, r), Wait(r)>> ELSE <<Copy(i, r)>>)
      /\ image' = [image EXCEPT ![r].wanted = content[i],
                                ![r].at = IF noscreen THEN "free" ELSE "queued"]
  BY <1>2 DEF QueuePresent, Presented, FenceWaitOver, Use
<1>4. RealImages' = RealImages /\ Works' = Works /\ Swapchains' = Swapchains /\ Fresh' = Fresh
  BY <1>3 DEF RealImages, Works, Swapchains, Fresh
<1>5. range' \in 1 .. (Len(ranges') + 1) /\ frame' \in Int
  BY <1>1, <1>3, RangeMoves DEF SwapTypes
<1>6. /\ swapchain \in Swapchains /\ swapchain.inflight \in [StoredImages -> BOOLEAN] /\ content \in [StoredImages -> Int]
      /\ r \in RealImages /\ content[i] \in Int /\ fence \in [StoredImages -> BOOLEAN] /\ gpu \in Seq(Works)
      /\ image \in [RealImages -> RealState] /\ image[r] \in RealState /\ held \in SUBSET StoredImages
      /\ Len(gpu) \in Nat /\ DOMAIN gpu = 1 .. Len(gpu)
      /\ \A k \in DOMAIN gpu : gpu[k] \in Works /\ gpu[k].real \in RealImages
      /\ \A j \in held : swapchain.acquired_real_image_indices[j] \in RealImages
  BY <1>1, <1>2, <1>3, SwapFacts DEF SwapTypes
<1>7. /\ swapchain' \in Swapchains /\ swapchain'.state = "live"
      /\ swapchain'.inflight = [swapchain.inflight EXCEPT ![i] = TRUE]
      /\ swapchain'.acquired_real_image_indices = swapchain.acquired_real_image_indices
  <2>1. [swapchain.inflight EXCEPT ![i] = TRUE] \in [StoredImages -> BOOLEAN]
    BY <1>6
  <2>2. swapchain' = [swapchain EXCEPT !.inflight = [swapchain.inflight EXCEPT ![i] = TRUE]]
    BY <1>3, <1>6 DEF Swapchains
  <2> QED
    BY <1>3, <1>6, <2>1, <2>2 DEF Swapchains
<1>8. /\ Copy(i, r) \in Works /\ Copy(i, r).kind = "copy" /\ Copy(i, r).stored = i /\ Copy(i, r).real = r
      /\ Copy(i, r).what = content[i]
      /\ Wait(r) \in Works /\ Wait(r).kind = "wait" /\ Wait(r).real = r
  BY <1>6 DEF Copy, Wait, Works
<1>9. /\ gpu' \in Seq(Works) /\ DOMAIN gpu' = 1 .. (Len(gpu) + (IF noscreen THEN 2 ELSE 1))
      /\ \A k \in DOMAIN gpu : k \in DOMAIN gpu' /\ gpu'[k] = gpu[k]
      /\ Len(gpu) + 1 \in DOMAIN gpu' /\ gpu'[Len(gpu) + 1] = Copy(i, r)
      /\ noscreen => Len(gpu) + 2 \in DOMAIN gpu' /\ gpu'[Len(gpu) + 2] = Wait(r)
  <2>1. CASE noscreen
    BY <1>3, <1>6, <1>8, <2>1, AppendTwo
  <2>2. CASE ~noscreen
    BY <1>3, <1>6, <1>8, <2>2, AppendOne
  <2> QED
    BY <2>1, <2>2
<1>10. \A k \in DOMAIN gpu' : k \in DOMAIN gpu \/ k = Len(gpu) + 1 \/ (noscreen /\ k = Len(gpu) + 2)
  BY <1>6, <1>9
<1>11. /\ image' \in [RealImages -> RealState] /\ \A k \in RealImages : k # r => image'[k] = image[k]
       /\ image'[r].wanted = content[i] /\ image'[r].at = (IF noscreen THEN "free" ELSE "queued")
  <2>1. PICK where \in {"free", "queued"} : where = (IF noscreen THEN "free" ELSE "queued")
    OBVIOUS
  <2>2. PICK state : state = [image[r] EXCEPT !.wanted = content[i], !.at = where]
    OBVIOUS
  <2>3. state \in RealState /\ state.wanted = content[i] /\ state.at = where
    BY <1>6, <2>1, <2>2 DEF RealState
  <2>4. image' = [image EXCEPT ![r] = state]
    BY <1>3, <1>6, <2>1, <2>2 DEF RealState
  <2> QED
    BY <1>6, <2>1, <2>3, <2>4
<1>12. SwapTypes'
  <2>1. fence' \in [StoredImages -> BOOLEAN]
    BY <1>3, <1>6
  <2> QED
    BY <1>1, <1>3, <1>4, <1>5, <1>7, <1>9, <1>11, <2>1, SMTT(30) DEF SwapTypes
<1>13. CopiesApart'
  <2>1. ASSUME NEW k \in DOMAIN gpu, gpu[k].kind = "copy"
        PROVE  /\ gpu[k].stored \in StoredImages /\ gpu[k].stored # i
               /\ swapchain'.inflight[gpu[k].stored] /\ ~fence'[gpu[k].stored]
    <3>1. gpu[k].stored \in StoredImages /\ swapchain.inflight[gpu[k].stored] /\ ~fence[gpu[k].stored]
      BY <1>1, <2>1 DEF CopiesApart
    <3>2. gpu[k].stored # i
      BY <1>3, <3>1
    <3> QED
      BY <1>3, <1>6, <1>7, <3>1, <3>2
  <2>2. swapchain'.inflight[i] /\ ~fence'[i]
    BY <1>3, <1>6, <1>7
  <2>3. ASSUME NEW k \in DOMAIN gpu', gpu'[k].kind = "copy"
        PROVE  /\ gpu'[k].stored \in StoredImages /\ swapchain'.inflight[gpu'[k].stored] /\ ~fence'[gpu'[k].stored]
               /\ k \notin DOMAIN gpu => k = Len(gpu) + 1 /\ gpu'[k].stored = i
               /\ k \in DOMAIN gpu => gpu'[k] = gpu[k] /\ gpu'[k].stored # i
    <3>1. CASE k \in DOMAIN gpu
      BY <1>9, <2>1, <2>3, <3>1
    <3>2. CASE k \notin DOMAIN gpu
      <4>1. k = Len(gpu) + 1 /\ gpu'[k].stored = i
        BY <1>8, <1>9, <1>10, <2>3, <3>2
      <4> QED
        BY <2>2, <3>2, <4>1
    <3> QED
      BY <3>1, <3>2
  <2>4. ASSUME NEW j \in DOMAIN gpu', NEW k \in DOMAIN gpu', gpu'[j].kind = "copy", gpu'[k].kind = "copy",
               gpu'[j].stored = gpu'[k].stored
        PROVE  j = k
    <3>1. CASE j \in DOMAIN gpu /\ k \in DOMAIN gpu
      BY <1>1, <1>9, <2>4, <3>1 DEF CopiesApart
    <3>2. CASE j \notin DOMAIN gpu \/ k \notin DOMAIN gpu
      BY <2>3, <2>4, <3>2
    <3> QED
      BY <3>1, <3>2
  <2> QED
    BY <1>7, <2>3, <2>4 DEF CopiesApart
<1>14. ASSUME noscreen PROVE WaitsFollow'
  <2>1. WaitsFollow
    BY <1>14 DEF SwapInv
  <2>2. \A k \in RealImages : image'[k].at = "free"
    BY <1>11, <1>14, <2>1 DEF WaitsFollow
  <2>3. ASSUME NEW k \in DOMAIN gpu', gpu'[k].kind = "copy"
        PROVE  k + 1 \in DOMAIN gpu' /\ gpu'[k + 1].kind = "wait" /\ gpu'[k + 1].real = gpu'[k].real
    <3>1. CASE k \in DOMAIN gpu
      <4>1. k + 1 \in DOMAIN gpu /\ gpu[k + 1].kind = "wait" /\ gpu[k + 1].real = gpu[k].real
        BY <1>9, <2>1, <2>3, <3>1 DEF WaitsFollow
      <4> QED
        BY <1>9, <3>1, <4>1
    <3>2. CASE k = Len(gpu) + 1
      <4>1. k + 1 = Len(gpu) + 2
        BY <1>6, <3>2
      <4> QED
        BY <1>8, <1>9, <1>14, <3>2, <4>1
    <3>3. CASE k = Len(gpu) + 2
      BY <1>8, <1>9, <1>14, <2>3, <3>3
    <3> QED
      BY <1>10, <3>1, <3>2, <3>3
  <2>4. ASSUME NEW k \in RealImages, signalled[k] PROVE gpu' # <<>> /\ gpu'[1].kind = "wait" /\ gpu'[1].real = k
    <3>1. gpu # <<>> /\ gpu[1].kind = "wait" /\ gpu[1].real = k
      BY <2>1, <2>4 DEF WaitsFollow
    <3>2. 1 \in DOMAIN gpu
      BY <1>6, <3>1
    <3>3. 1 \in DOMAIN gpu' /\ gpu'[1] = gpu[1]
      BY <1>9, <3>2
    <3>4. gpu' # <<>>
      BY <3>3
    <3> QED
      BY <3>1, <3>3, <3>4
  <2> QED
    BY <1>3, <1>4, <2>2, <2>3, <2>4 DEF WaitsFollow
<1>15. ASSUME ~noscreen, "remade" \notin odd PROVE ImagesApart'
  <2>1. ImagesApart
    BY <1>15 DEF SwapInv
  <2>2. image[r].at = "acquired" /\ ~signalled[r]
    BY <1>2, <1>3, <1>6, <2>1 DEF ImagesApart
  <2>3. image'[r].at = "queued" /\ image'[r].wanted = content[i] /\ \A k \in RealImages : k # r => image'[k] = image[k]
    BY <1>11, <1>15
  <2>4. \A k \in DOMAIN gpu' : k \in DOMAIN gpu \/ k = Len(gpu) + 1
    BY <1>10, <1>15
  <2>5. ASSUME NEW k \in DOMAIN gpu PROVE gpu[k].real # r /\ image'[gpu[k].real] = image[gpu[k].real]
    <3>1. gpu[k].real # r
      BY <2>1, <2>2 DEF ImagesApart
    <3> QED
      BY <1>6, <2>3, <3>1
  <2>6. ASSUME NEW k \in DOMAIN gpu'
        PROVE  /\ gpu'[k].kind = "copy" /\ image'[gpu'[k].real].at = "queued"
               /\ gpu'[k].what = image'[gpu'[k].real].wanted /\ ~signalled[gpu'[k].real]
               /\ k \in DOMAIN gpu => gpu'[k] = gpu[k] /\ gpu'[k].real # r
               /\ k \notin DOMAIN gpu => k = Len(gpu) + 1 /\ gpu'[k].real = r
    <3>1. CASE k \in DOMAIN gpu
      <4>1. gpu'[k] = gpu[k]
        BY <1>9, <3>1
      <4>2. gpu[k].kind = "copy" /\ image[gpu[k].real].at = "queued" /\ gpu[k].what = image[gpu[k].real].wanted /\ ~signalled[gpu[k].real]
        BY <2>1, <3>1 DEF ImagesApart
      <4> QED
        BY <2>5, <3>1, <4>1, <4>2
    <3>2. CASE k \notin DOMAIN gpu
      <4>1. k = Len(gpu) + 1 /\ gpu'[k] = Copy(i, r)
        BY <1>9, <2>4, <3>2
      <4> QED
        BY <1>8, <2>2, <2>3, <3>2, <4>1
    <3> QED
      BY <3>1, <3>2
  <2>7. ASSUME NEW j \in DOMAIN gpu', NEW k \in DOMAIN gpu', gpu'[j].real = gpu'[k].real PROVE j = k
    <3>1. CASE j \in DOMAIN gpu /\ k \in DOMAIN gpu
      BY <2>1, <2>6, <2>7, <3>1 DEF ImagesApart
    <3>2. CASE j \notin DOMAIN gpu \/ k \notin DOMAIN gpu
      BY <2>6, <2>7, <3>2
    <3> QED
      BY <3>1, <3>2
  <2>8. ASSUME NEW k \in RealImages, signalled[k] PROVE image'[k].at = "queued" /\ image'[k].shows = image'[k].wanted
    BY <2>1, <2>2, <2>3, <2>8 DEF ImagesApart
  <2>9. ASSUME NEW k \in RealImages, image'[k].at = "shown" PROVE image'[k].shows = image'[k].wanted
    BY <2>1, <2>2, <2>3, <2>9 DEF ImagesApart
  <2>10. ASSUME NEW j \in held' PROVE image'[swapchain.acquired_real_image_indices[j]].at = "acquired"
    <3>1. j \in held /\ j # i
      BY <1>3
    <3>2. swapchain.acquired_real_image_indices[j] # r /\ image[swapchain.acquired_real_image_indices[j]].at = "acquired"
      BY <1>2, <1>3, <2>1, <3>1 DEF ImagesApart
    <3> QED
      BY <1>6, <2>3, <3>1, <3>2
  <2>11. \A j, k \in held' :
           swapchain.acquired_real_image_indices[j] = swapchain.acquired_real_image_indices[k] => j = k
    BY <1>3, <2>1 DEF ImagesApart
  <2>12. \A k \in DOMAIN gpu' :
           /\ gpu'[k].kind = "copy" /\ image'[gpu'[k].real].at = "queued"
           /\ gpu'[k].what = image'[gpu'[k].real].wanted /\ ~signalled'[gpu'[k].real]
    BY <1>3, <2>6
  <2>13. /\ \A k \in RealImages' : signalled'[k] => image'[k].at = "queued" /\ image'[k].shows = image'[k].wanted
         /\ \A k \in RealImages' : image'[k].at = "shown" => image'[k].shows = image'[k].wanted
    BY <1>3, <1>4, <2>8, <2>9
  <2>14. /\ \A j \in held' : image'[swapchain'.acquired_real_image_indices[j]].at = "acquired"
         /\ \A j, k \in held' :
              swapchain'.acquired_real_image_indices[j] = swapchain'.acquired_real_image_indices[k] => j = k
    BY <1>7, <2>10, <2>11
  <2> QED
    BY <2>7, <2>12, <2>13, <2>14 DEF ImagesApart
<1> QED
  BY <1>3, <1>12, <1>13, <1>14, <1>15 DEF SwapInv

LEMMA SwapInitInv == SwapInit => SwapInv
<1> SUFFICES ASSUME SwapInit PROVE SwapInv
  OBVIOUS
<1>1. 0 \in StoredImages /\ 0 \in RealImages
  BY SwapAssumption DEF StoredImages, RealImages
<1>2. swapchain \in Swapchains
  BY FreshSwapchain DEF SwapInit, Swapchains
<1>3. Free \in RealState /\ Free.at = "free"
  BY DEF Free, RealState
<1>4. image \in [RealImages -> RealState] /\ \A r \in RealImages : image[r].at = "free" /\ ~signalled[r]
  BY <1>3 DEF SwapInit
<1>5. gpu = <<>> /\ gpu \in Seq(Works) /\ DOMAIN gpu = {} /\ held = {}
  BY DEF SwapInit
<1>6. ranges \in Seq([first : Nat, last : Int]) /\ range \in 1 .. (Len(ranges) + 1)
  <2>1. ranges \in Seq([first : Nat, last : Int]) /\ range = 1
    BY SwapAssumption DEF SwapInit
  <2>2. Len(ranges) \in Nat
    BY <2>1
  <2> QED
    BY <2>1, <2>2
<1>7. SwapTypes
  BY <1>2, <1>4, <1>5, <1>6 DEF SwapTypes, SwapInit
<1>8. CopiesApart
  <2>1. swapchain.state = "new"
    BY FreshSwapchain DEF SwapInit, Swapchains
  <2> QED
    BY <1>5, <2>1 DEF CopiesApart
<1>9. WaitsFollow
  BY <1>4, <1>5 DEF WaitsFollow
<1>10. ImagesApart
  BY <1>4, <1>5 DEF ImagesApart
<1> QED
  BY <1>7, <1>8, <1>9, <1>10 DEF SwapInv

LEMMA SwapStepInv == SwapInv /\ [SwapNext]_swapvars => SwapInv'
<1> SUFFICES ASSUME SwapInv, [SwapNext]_swapvars PROVE SwapInv'
  OBVIOUS
<1>1. CASE GpuStep
  BY <1>1, GpuStepKeeps
<1>2. CASE \E r \in RealImages : ShowImage(r) \/ ReleaseImage(r)
  BY <1>2, ShowImageKeeps
<1>3. CASE retrace_vkGetSwapchainImagesKHR
  BY <1>3, GetImagesKeeps
<1>4. CASE \E i \in StoredImages, r \in RealImages : AcquireNextImage(i, r)
  BY <1>4, AcquireKeeps
<1>5. CASE \E i \in StoredImages : AcquireFailed(i)
  BY <1>5, AcquireFailedKeeps
<1>6. CASE \/ \E i \in StoredImages : Render(i)
           \/ \E i \in BoundaryImages : SubmitFrameBoundary(i) \/ replay_process_android_frame_boundary(i)
           \/ UNCHANGED swapvars
  BY <1>6, QuietSteps
<1>7. CASE \E i \in StoredImages, b \in Boundaries : QueuePresent(i, b)
  BY <1>7, QueuePresentKeeps
<1>8. CASE \E i \in StoredImages, b \in Boundaries : QueuePresentOutOfDate(i, b)
  BY <1>8, OutOfDateKeeps
<1>9. CASE DestroySwapchain
  BY <1>9, DestroySwapchainKeeps
<1> QED
  BY <1>1, <1>2, <1>3, <1>4, <1>5, <1>6, <1>7, <1>8, <1>9 DEF SwapNext

LEMMA SwapInvPresents == SwapInv => PresentsSound
<1> SUFFICES ASSUME SwapInv PROVE PresentsSound
  OBVIOUS
<1>1. SwapTypes /\ CopiesApart
  BY DEF SwapInv
<1>2. SwapTypeOK
  BY <1>1, SwapFacts DEF SwapTypeOK, SwapTypes
<1>3. CopiesNotReused
  BY <1>1 DEF CopiesApart, CopiesNotReused
<1>4. SemaphoreConsumed
  <2> SUFFICES ASSUME gpu # <<>>, Head(gpu).kind = "copy", "remade" \notin odd PROVE ~signalled[Head(gpu).real]
    BY DEF SemaphoreConsumed
  <2>1. Head(gpu) = gpu[1] /\ 1 \in DOMAIN gpu /\ gpu[1].real \in RealImages
    BY <1>1, SwapFacts DEF SwapTypes
  <2>2. CASE noscreen
    BY <2>1, <2>2 DEF SwapInv, WaitsFollow
  <2>3. CASE ~noscreen
    BY <2>1, <2>3 DEF SwapInv, ImagesApart
  <2> QED
    BY <2>2, <2>3
<1>5. ShowsPresented
  BY DEF SwapInv, ShowsPresented, WaitsFollow, ImagesApart
<1> QED
  BY <1>2, <1>3, <1>4, <1>5 DEF PresentsSound

(***************************************************************************)
(* However many images the two swapchains have, whichever real image the   *)
(* driver hands out and however late the GPU and the presentation engine   *)
(* are: every image the application holds has a real image, a command      *)
(* buffer and fence are not submitted again or destroyed while their copy  *)
(* has not run, and until a swapchain had to be remade a semaphore is      *)
(* signalled only after its last signal was waited for and the screen      *)
(* shows what was presented (replay_pre_vkQueuePresentKHR,                 *)
(* callback_vkAcquireNextImageKHR, replay_pre_vkDestroySwapchainKHR).      *)
(***************************************************************************)
THEOREM PresentsAreSound == SwapSpec => []PresentsSound
<1>1. SwapSpec => []SwapInv
  BY SwapInitInv, SwapStepInv, PTL DEF SwapSpec
<1>2. SwapInv => PresentsSound
  BY SwapInvPresents
<1> QED
  BY <1>1, <1>2, PTL

-----------------------------------------------------------------------------
(***************************************************************************)
(* Scratch memory of acceleration structure builds, for any list of builds *)
(* and any alignment.                                                      *)
(*                                                                         *)
(* The argument.  The ends of the ranges do not decrease, each range       *)
(* starts at or after the end of the one before it and ends at its own     *)
(* end, so two ranges that are not empty are apart and all of them are     *)
(* below the last end, the size of the buffer.                             *)
(***************************************************************************)
Ends(f, b) ==
  f = [i \in 0 .. Len(b) |-> IF i = 0 THEN 0
                             ELSE IF b[i].n = 0 THEN f[i - 1] ELSE align_device_size(f[i - 1]) + b[i].n]

ScratchRanges == [first : Nat, n : Nat]

LEMMA EndsExist ==
  ASSUME NEW b, Len(b) \in Nat
  PROVE  Ends(ScratchEnds(b), b)
<1> DEFINE N == Len(b)
           Next0(x, i) == IF b[i].n = 0 THEN x ELSE align_device_size(x) + b[i].n
           P(m) == \E f : f = [i \in 0 .. m |-> IF i = 0 THEN 0 ELSE Next0(f[i - 1], i)]
           Good == {m \in 0 .. N : P(m)}
<1> HIDE DEF Next0
<1>1. 0 \in Good
  <2>1. PICK f : f = [i \in 0 .. 0 |-> 0]
    OBVIOUS
  <2>2. f = [i \in 0 .. 0 |-> IF i = 0 THEN 0 ELSE Next0(f[i - 1], i)]
    BY <2>1
  <2> QED
    BY <2>2
<1>2. ASSUME NEW m \in 0 .. (N - 1), m \in Good PROVE m + 1 \in Good
  <2>1. PICK f : f = [i \in 0 .. m |-> IF i = 0 THEN 0 ELSE Next0(f[i - 1], i)]
    BY <1>2
  <2>2. PICK g : g = [i \in 0 .. (m + 1) |-> IF i = m + 1 THEN Next0(f[m], m + 1) ELSE f[i]]
    OBVIOUS
  <2>3. \A i \in 0 .. m : g[i] = f[i] /\ f[i] = IF i = 0 THEN 0 ELSE Next0(f[i - 1], i)
    BY <2>1, <2>2
  <2>4. ASSUME NEW i \in 0 .. (m + 1) PROVE g[i] = IF i = 0 THEN 0 ELSE Next0(g[i - 1], i)
    <3>1. CASE i = m + 1
      <4>1. i # 0 /\ i - 1 = m /\ m \in 0 .. m
        BY <3>1
      <4>2. g[i] = Next0(f[m], i)
        BY <2>2, <3>1
      <4> QED
        BY <2>3, <4>1, <4>2
    <3>2. CASE i # m + 1
      <4>1. i \in 0 .. m /\ (i # 0 => i - 1 \in 0 .. m)
        BY <3>2
      <4> QED
        BY <2>3, <4>1
    <3> QED
      BY <3>1, <3>2
  <2>5. g = [i \in 0 .. (m + 1) |-> IF i = 0 THEN 0 ELSE Next0(g[i - 1], i)]
    BY <2>2, <2>4
  <2> QED
    BY <1>2, <2>5
<1> HIDE DEF Good, P
<1>3. \A m \in 0 .. N : m \in Good
  BY <1>1, <1>2, Throughout
<1>4. N \in Good
  BY <1>3
<1>5. \E f : Ends(f, b)
  BY <1>4 DEF Good, P, Ends, Next0
<1>6. ScratchEnds(b) = CHOOSE f : Ends(f, b)
  BY DEF ScratchEnds, Ends
<1> QED
  BY <1>5, <1>6

LEMMA AlignFacts ==
  ASSUME NEW x \in Nat
  PROVE  align_device_size(x) \in Nat /\ align_device_size(x) >= x /\ align_device_size(x) % ScratchAlignment = 0
<1>0. PICK a \in Nat \ {0} : a = ScratchAlignment
  BY CbAssumption
<1>1. PICK q \in Int : q = (x + a - 1) \div a
  OBVIOUS
<1>2. PICK r \in Int : r = (x + a - 1) % a
  OBVIOUS
<1>3. x + a - 1 = a * q + r /\ 0 <= r /\ r < a
  BY <1>1, <1>2
<1>4. q * a >= x /\ q >= 0
  BY <1>3
<1>5. (q * a) % a = 0
  BY <1>4
<1>6. q * a \in Nat
  BY <1>4
<1> QED
  BY <1>0, <1>1, <1>4, <1>5, <1>6 DEF align_device_size

\* Each end is a size, and follows from the one before it.
LEMMA EndsGrow ==
  ASSUME NEW b \in Seq(ScratchRanges), NEW f, Ends(f, b)
  PROVE  /\ \A i \in 0 .. Len(b) : f[i] \in Nat
         /\ \A i \in 1 .. Len(b) :
              /\ f[i - 1] \in Nat /\ f[i] >= f[i - 1] /\ b[i].n \in Nat
              /\ b[i].n > 0 => f[i] = align_device_size(f[i - 1]) + b[i].n
<1>1. Len(b) \in Nat /\ \A i \in 1 .. Len(b) : b[i] \in ScratchRanges
  BY ElementOfSeq
<1>2. \A i \in 1 .. Len(b) : b[i].n \in Nat
  BY <1>1 DEF ScratchRanges
<1>3. f[0] = 0
  BY <1>1 DEF Ends
<1>4. \A i \in 1 .. Len(b) : f[i] = IF b[i].n = 0 THEN f[i - 1] ELSE align_device_size(f[i - 1]) + b[i].n
  <2> TAKE i \in 1 .. Len(b)
  <2>1. i \in 0 .. Len(b) /\ i # 0
    BY <1>1
  <2> QED
    BY <2>1 DEF Ends
<1> DEFINE Good == {m \in 0 .. Len(b) : f[m] \in Nat}
<1>5. 0 \in Good
  BY <1>1, <1>3
<1>6. ASSUME NEW m \in 0 .. (Len(b) - 1), m \in Good PROVE m + 1 \in Good
  <2>1. m + 1 \in 1 .. Len(b) /\ (m + 1) - 1 = m /\ m + 1 \in 0 .. Len(b)
    BY <1>1
  <2>2. align_device_size(f[m]) \in Nat
    BY <1>6, AlignFacts
  <2>3. f[m + 1] = IF b[m + 1].n = 0 THEN f[m] ELSE align_device_size(f[m]) + b[m + 1].n
    BY <1>4, <2>1
  <2>4. f[m + 1] \in Nat
    BY <1>2, <1>6, <2>1, <2>2, <2>3
  <2> QED
    BY <2>1, <2>4
<1> HIDE DEF Good
<1>7. \A m \in 0 .. Len(b) : m \in Good
  BY <1>1, <1>5, <1>6, Throughout
<1>8. \A i \in 0 .. Len(b) : f[i] \in Nat
  BY <1>7 DEF Good
<1>9. ASSUME NEW i \in 1 .. Len(b)
      PROVE  /\ f[i - 1] \in Nat /\ f[i] >= f[i - 1] /\ b[i].n \in Nat
             /\ b[i].n > 0 => f[i] = align_device_size(f[i - 1]) + b[i].n
  <2>1. i - 1 \in 0 .. Len(b)
    BY <1>1
  <2>2. f[i - 1] \in Nat
    BY <1>8, <2>1
  <2>3. align_device_size(f[i - 1]) \in Nat /\ align_device_size(f[i - 1]) >= f[i - 1]
    BY <2>2, AlignFacts
  <2> QED
    BY <1>2, <1>4, <2>2, <2>3
<1> QED
  BY <1>8, <1>9

LEMMA EndsOrdered ==
  ASSUME NEW b \in Seq(ScratchRanges), NEW f, Ends(f, b), NEW i \in 0 .. Len(b), NEW j \in i .. Len(b)
  PROVE  f[i] <= f[j]
<1>1. Len(b) \in Nat /\ i \in Nat
  OBVIOUS
<1>2. \A m \in 0 .. Len(b) : f[m] \in Nat
  BY EndsGrow
<1> DEFINE Good == {m \in i .. Len(b) : f[i] <= f[m]}
<1>3. i \in Good
  BY <1>1, <1>2
<1>4. ASSUME NEW m \in i .. (Len(b) - 1), m \in Good PROVE m + 1 \in Good
  <2>1. m + 1 \in 1 .. Len(b) /\ (m + 1) - 1 = m /\ m + 1 \in i .. Len(b) /\ m \in 0 .. Len(b) /\ m + 1 \in 0 .. Len(b)
    BY <1>1
  <2>2. f[m + 1] >= f[m]
    BY <2>1, EndsGrow
  <2>3. f[i] <= f[m + 1]
    BY <1>2, <1>4, <2>1, <2>2
  <2> QED
    BY <2>1, <2>3
<1> HIDE DEF Good
<1>5. \A m \in i .. Len(b) : m \in Good
  BY <1>1, <1>3, <1>4, Throughout
<1> QED
  BY <1>5 DEF Good

ScratchOf(b) ==
  IF replay_can_preserve_as_scratch_addresses(b)
  THEN [own |-> FALSE, size |-> AppScratch, at |-> b]
  ELSE [own |-> TRUE, size |-> ScratchTotal(b), at |-> ScratchPlace(b)]

Separate(s) ==
  \A i \in DOMAIN s.at : s.at[i].n > 0 =>
      /\ s.at[i].first + s.at[i].n <= s.size
      /\ s.own => s.at[i].first % ScratchAlignment = 0
      /\ \A j \in DOMAIN s.at : j # i /\ s.at[j].n > 0 => ~Overlap(s.at[i], s.at[j])

\* The application's own ranges, when replay's sizes fit there.
LEMMA PreservedSeparate ==
  ASSUME NEW b \in Seq(ScratchRanges), replay_can_preserve_as_scratch_addresses(b)
  PROVE  Separate([own |-> FALSE, size |-> AppScratch, at |-> b])
<1>1. Len(b) \in Nat /\ DOMAIN b = 1 .. Len(b)
  OBVIOUS
<1>2. \A i \in DOMAIN b : b[i].first \in Nat /\ b[i].n \in Nat
  <2> TAKE i \in DOMAIN b
  <2>1. b[i] \in ScratchRanges
    BY <1>1, ElementOfSeq
  <2> QED
    BY <2>1 DEF ScratchRanges
<1>3. ASSUME NEW i \in DOMAIN b, b[i].n > 0 PROVE b[i].first + b[i].n <= AppScratch
  BY <1>3 DEF replay_can_preserve_as_scratch_addresses
<1>4. ASSUME NEW i \in DOMAIN b, NEW j \in DOMAIN b, j # i, b[i].n > 0, b[j].n > 0 PROVE ~Overlap(b[i], b[j])
  <2>1. CASE i < j
    BY <1>4, <2>1 DEF replay_can_preserve_as_scratch_addresses
  <2>2. CASE ~(i < j)
    <3>1. j < i
      BY <1>1, <1>4, <2>2
    <3>2. ~Overlap(b[j], b[i])
      BY <1>4, <3>1 DEF replay_can_preserve_as_scratch_addresses
    <3> QED
      BY <3>2 DEF Overlap
  <2> QED
    BY <2>1, <2>2
<1> QED
  BY <1>3, <1>4 DEF Separate

\* A buffer that replay made.
LEMMA PlacedSeparate ==
  ASSUME NEW b \in Seq(ScratchRanges)
  PROVE  Separate([own |-> TRUE, size |-> ScratchTotal(b), at |-> ScratchPlace(b)])
<1>1. Len(b) \in Nat /\ DOMAIN b = 1 .. Len(b)
  OBVIOUS
<1>2. PICK f : f = ScratchEnds(b) /\ Ends(f, b)
  BY <1>1, EndsExist
<1>3. PICK at : at = ScratchPlace(b)
  OBVIOUS
<1>4. DOMAIN at = 1 .. Len(b) /\ \A i \in 1 .. Len(b) : at[i].first = align_device_size(f[i - 1]) /\ at[i].n = b[i].n
  BY <1>1, <1>2, <1>3 DEF ScratchPlace
<1>5. ASSUME NEW i \in 1 .. Len(b)
      PROVE  /\ at[i].first \in Nat /\ at[i].n \in Nat /\ f[i - 1] \in Nat /\ f[i] \in Nat
             /\ at[i].first >= f[i - 1] /\ at[i].first % ScratchAlignment = 0
             /\ at[i].n > 0 => at[i].first + at[i].n = f[i]
  <2>1. i \in 0 .. Len(b)
    BY <1>1
  <2>2. /\ f[i - 1] \in Nat /\ f[i] \in Nat /\ b[i].n \in Nat
        /\ b[i].n > 0 => f[i] = align_device_size(f[i - 1]) + b[i].n
    BY <1>2, <2>1, EndsGrow
  <2>3. /\ align_device_size(f[i - 1]) \in Nat /\ align_device_size(f[i - 1]) >= f[i - 1]
        /\ align_device_size(f[i - 1]) % ScratchAlignment = 0
    BY <2>2, AlignFacts
  <2> QED
    BY <1>4, <2>2, <2>3
<1>6. ASSUME NEW i \in 1 .. Len(b), NEW j \in 1 .. Len(b), i < j, at[i].n > 0
      PROVE  at[i].first + at[i].n <= at[j].first
  <2>1. i \in 0 .. Len(b) /\ j - 1 \in i .. Len(b)
    BY <1>1, <1>6
  <2>2. f[i] <= f[j - 1]
    BY <1>2, <2>1, EndsOrdered
  <2> QED
    BY <1>5, <1>6, <2>2
<1>7. ASSUME NEW i \in 1 .. Len(b), at[i].n > 0 PROVE at[i].first + at[i].n <= ScratchTotal(b)
  <2>1. i \in 0 .. Len(b) /\ Len(b) \in i .. Len(b)
    BY <1>1
  <2>2. f[i] <= f[Len(b)]
    BY <1>2, <2>1, EndsOrdered
  <2> QED
    BY <1>2, <1>5, <1>7, <2>2 DEF ScratchTotal
<1>8. ASSUME NEW i \in 1 .. Len(b), NEW j \in 1 .. Len(b), j # i, at[i].n > 0, at[j].n > 0 PROVE ~Overlap(at[i], at[j])
  <2>1. CASE i < j
    <3>1. at[i].first + at[i].n <= at[j].first
      BY <1>6, <1>8, <2>1
    <3> QED
      BY <1>5, <3>1 DEF Overlap
  <2>2. CASE ~(i < j)
    <3>1. j < i
      BY <1>1, <1>8, <2>2
    <3>2. at[j].first + at[j].n <= at[i].first
      BY <1>6, <1>8, <3>1
    <3> QED
      BY <1>5, <3>2 DEF Overlap
  <2> QED
    BY <2>1, <2>2
<1> QED
  BY <1>3, <1>4, <1>5, <1>7, <1>8 DEF Separate

ScratchInv == scratch \in [CommandBuffers -> {<<>>} \cup {ScratchOf(b) : b \in Builds}]

LEMMA ScratchStepInv == ScratchInv /\ [CbNext]_cbvars => ScratchInv'
<1> SUFFICES ASSUME ScratchInv, [CbNext]_cbvars PROVE ScratchInv'
  OBVIOUS
<1> DEFINE Kept == {<<>>} \cup {ScratchOf(b) : b \in Builds}
<1>1. scratch \in [CommandBuffers -> Kept] /\ <<>> \in Kept
  BY DEF ScratchInv
<1> SUFFICES scratch' \in [CommandBuffers -> Kept]
  BY DEF ScratchInv
<1>2. ASSUME NEW c \in CommandBuffers, NEW b \in Builds, replay_pre_vkCmdBuildAccelerationStructuresKHR(c, b)
      PROVE  scratch' \in [CommandBuffers -> Kept]
  <2>1. scratch' = [scratch EXCEPT ![c] = ScratchOf(b)]
    BY <1>2 DEF replay_pre_vkCmdBuildAccelerationStructuresKHR, ScratchOf
  <2>2. ScratchOf(b) \in Kept
    OBVIOUS
  <2> HIDE DEF Kept
  <2> QED
    BY <1>1, <2>1, <2>2
<1> HIDE DEF Kept
<1>3. ASSUME NEW c \in CommandBuffers, NEW state, NEW shared, replay_cleanup_commandbuffer_for_rerecord(c, state, shared)
      PROVE  scratch' \in [CommandBuffers -> Kept]
  <2>1. scratch' = [scratch EXCEPT ![c] = <<>>]
    BY <1>3 DEF replay_cleanup_commandbuffer_for_rerecord
  <2> QED
    BY <1>1, <2>1
<1>4. CASE replay_pre_vkResetCommandPool
  <2>1. PICK live : scratch' = [c \in CommandBuffers |-> IF c \in live THEN <<>> ELSE scratch[c]]
    BY <1>4 DEF replay_pre_vkResetCommandPool
  <2> QED
    BY <1>1, <2>1
<1>5. ASSUME NEW c \in CommandBuffers, NEW shared,
             replay_pre_vkBeginCommandBuffer(c, shared) \/ replay_pre_vkResetCommandBuffer(c) \/ replay_pre_vkFreeCommandBuffers(c)
      PROVE  scratch' \in [CommandBuffers -> Kept]
  BY <1>3, <1>5 DEF replay_pre_vkBeginCommandBuffer, replay_pre_vkResetCommandBuffer, replay_pre_vkFreeCommandBuffers
<1>6. ASSUME NEW c \in CommandBuffers, NEW q, NEW f, vkEndCommandBuffer(c) \/ replay_pre_vkQueueSubmit(c, q, f)
      PROVE  scratch' = scratch
  BY <1>6 DEF vkEndCommandBuffer, replay_pre_vkQueueSubmit
<1>7. ASSUME NEW q, CaptureFinishes(q) \/ ReplayFinishes(q) \/ replay_callback_vkQueueWaitIdle(q) PROVE scratch' = scratch
  BY <1>7 DEF CaptureFinishes, ReplayFinishes, replay_callback_vkQueueWaitIdle
<1>8. ASSUME NEW fs, NEW waitAll, NEW success, replay_callback_vkWaitForFences(fs, waitAll, success) PROVE scratch' = scratch
  BY <1>8 DEF replay_callback_vkWaitForFences
<1>9. ASSUME NEW f, NEW success, replay_callback_vkGetFenceStatus(f, success) \/ replay_callback_vkResetFences(f) \/ vkDestroyFence(f)
      PROVE  scratch' = scratch
  BY <1>9 DEF replay_callback_vkGetFenceStatus, replay_callback_vkResetFences, vkDestroyFence
<1>10. CASE replay_callback_vkDeviceWaitIdle
  BY <1>1, <1>10 DEF replay_callback_vkDeviceWaitIdle
<1>11. CASE UNCHANGED cbvars
  BY <1>1, <1>11 DEF cbvars
<1> QED
  BY <1>1, <1>2, <1>4, <1>5, <1>6, <1>7, <1>8, <1>9, <1>10, <1>11 DEF CbNext

LEMMA ScratchInvSeparate == ScratchInv => ScratchSeparate
<1> SUFFICES ASSUME ScratchInv, NEW c \in CommandBuffers, scratch[c] # <<>> PROVE Separate(scratch[c])
  BY DEF ScratchSeparate, Separate
<1>1. PICK b \in Builds : scratch[c] = ScratchOf(b)
  BY DEF ScratchInv
<1>2. b \in Seq(ScratchRanges)
  BY CbAssumption DEF ScratchRanges
<1>3. CASE replay_can_preserve_as_scratch_addresses(b)
  BY <1>1, <1>2, <1>3, PreservedSeparate DEF ScratchOf
<1>4. CASE ~replay_can_preserve_as_scratch_addresses(b)
  BY <1>1, <1>2, <1>4, PlacedSeparate DEF ScratchOf
<1> QED
  BY <1>3, <1>4

(***************************************************************************)
(* Whatever builds a call makes, in whatever order the calls come: its     *)
(* builds never share scratch memory, stay inside the buffer they are      *)
(* given, and are aligned in a buffer that replay made                     *)
(* (replay_pre_vkCmdBuildAccelerationStructuresKHR,                        *)
(* replay_can_preserve_as_scratch_addresses).                              *)
(***************************************************************************)
THEOREM ScratchIsSeparate == CbSpec => []ScratchSeparate
<1>1. CbInit => ScratchInv
  BY DEF CbInit, ScratchInv
<1>2. CbSpec => []ScratchInv
  BY <1>1, ScratchStepInv, PTL DEF CbSpec
<1> QED
  BY <1>2, ScratchInvSeparate, PTL

-----------------------------------------------------------------------------
(***************************************************************************)
(* The screenshots, for any ranges the user may select.                    *)
(*                                                                         *)
(* The argument.  The ranges before mCurrentRange have ended before the    *)
(* next frame and later ranges start after earlier ones end, so the range  *)
(* that is_frame_selected stops at decides.  Until a swapchain is remade   *)
(* no boundary is left over, so a frame is captured when it ends and once. *)
(* An application that holds one image at a time holds the one acquired    *)
(* last, whose virtual image the capture with a window reads.              *)
(***************************************************************************)
Handled == odd \subseteq (IF noscreen THEN {"several", "failed"} ELSE {})
Frames == 0 .. (MaxFrame - 1)

ShotInv ==
  /\ content \in [StoredImages -> Nat] /\ rendered \in Nat /\ frame \in 0 .. MaxFrame
  /\ ended \in [Frames -> Int]
  /\ parse_replay_screenshot_ranges(ranges)
  /\ \A j \in 1 .. (range - 1) : ranges[j].last < frame
  /\ "remade" \notin odd =>
       /\ boundaries = <<>> /\ shots \in [Frames -> Int]
       /\ \A g \in frame .. (MaxFrame - 1) : shots[g] = Nothing
  /\ noscreen => "remade" \notin odd
  /\ odd = {} => held \subseteq {swapchain.next_stored_image}
  /\ ScreenshotsExact

\* A later range starts after an earlier one ends.
LEMMA RangesApart ==
  ASSUME ranges \in Seq([first : Nat, last : Int]), parse_replay_screenshot_ranges(ranges),
         NEW k \in 1 .. Len(ranges), NEW j \in (k + 1) .. Len(ranges)
  PROVE  ranges[k].last < ranges[j].first
<1>1. Len(ranges) \in Nat /\ DOMAIN ranges = 1 .. Len(ranges)
  OBVIOUS
<1>2. \A m \in 1 .. Len(ranges) : ranges[m].first \in Int /\ ranges[m].last \in Int
  <2> TAKE m \in 1 .. Len(ranges)
  <2>1. ranges[m] \in [first : Nat, last : Int]
    BY ElementOfSeq
  <2> QED
    BY <2>1, SMTT(30)
<1>3. /\ \A m \in 1 .. Len(ranges) : ranges[m].first <= ranges[m].last
      /\ \A m \in 1 .. (Len(ranges) - 1) : ranges[m].last < ranges[m + 1].first
  BY <1>1 DEF parse_replay_screenshot_ranges
<1> DEFINE Good == {m \in (k + 1) .. Len(ranges) : ranges[k].last < ranges[m].first}
<1>4. k + 1 \in Nat /\ k + 1 \in (k + 1) .. Len(ranges) /\ k \in 1 .. (Len(ranges) - 1)
  BY <1>1
<1>5. k + 1 \in Good
  BY <1>3, <1>4
<1>6. ASSUME NEW m \in (k + 1) .. (Len(ranges) - 1), m \in Good PROVE m + 1 \in Good
  <2>1. m \in 1 .. (Len(ranges) - 1) /\ m \in 1 .. Len(ranges) /\ m + 1 \in 1 .. Len(ranges) /\ m + 1 \in (k + 1) .. Len(ranges)
    BY <1>1, <1>4
  <2>2. ranges[k].last < ranges[m].first /\ ranges[m].first <= ranges[m].last /\ ranges[m].last < ranges[m + 1].first
    BY <1>3, <1>6, <2>1
  <2>4. /\ ranges[k].last \in Int /\ ranges[m].first \in Int /\ ranges[m].last \in Int
        /\ ranges[m + 1].first \in Int
    BY <1>2, <2>1
  <2>5. PICK x \in Int, y \in Int, z \in Int, w \in Int :
          x = ranges[k].last /\ y = ranges[m].first /\ z = ranges[m].last /\ w = ranges[m + 1].first
    BY <2>4
  <2>6. x < y /\ y <= z /\ z < w
    BY <2>2, <2>5
  <2>7. x < w
    BY <2>6
  <2>3. ranges[k].last < ranges[m + 1].first
    BY <2>5, <2>7
  <2> QED
    BY <2>1, <2>3
<1> HIDE DEF Good
<1>7. \A m \in (k + 1) .. Len(ranges) : m \in Good
  BY <1>1, <1>4, <1>5, <1>6, Throughout
<1> QED
  BY <1>7 DEF Good

\* is_frame_selected answers for the frame that ends as the user asked.
LEMMA FrameSelected ==
  ASSUME ranges \in Seq([first : Nat, last : Int]), range \in 1 .. (Len(ranges) + 1), frame \in Int,
         parse_replay_screenshot_ranges(ranges), \A j \in 1 .. (range - 1) : ranges[j].last < frame
  PROVE  /\ \A j \in 1 .. (NextRange(frame) - 1) : ranges[j].last < frame
         /\ is_frame_selected(frame) <=> Selected(frame)
<1>1. Len(ranges) \in Nat /\ DOMAIN ranges = 1 .. Len(ranges)
  OBVIOUS
<1>2. \A m \in 1 .. Len(ranges) : ranges[m].first \in Int /\ ranges[m].last \in Int
  <2> TAKE m \in 1 .. Len(ranges)
  <2>1. ranges[m] \in [first : Nat, last : Int]
    BY ElementOfSeq
  <2> QED
    BY <2>1
<1>3. PICK k \in 1 .. (Len(ranges) + 1) :
        /\ k = NextRange(frame) /\ k \in range .. (Len(ranges) + 1)
        /\ k <= Len(ranges) => ranges[k].last >= frame
        /\ \A j \in range .. (k - 1) : ranges[j].last < frame
  BY RangeMoves
<1>4. \A j \in 1 .. (k - 1) : ranges[j].last < frame
  <2> TAKE j \in 1 .. (k - 1)
  <2>1. CASE j < range
    <3>1. j \in 1 .. (range - 1)
      BY <1>1, <1>3, <2>1
    <3> QED
      BY <3>1
  <2>2. CASE ~(j < range)
    <3>1. j \in range .. (k - 1)
      BY <1>1, <1>3, <2>2
    <3> QED
      BY <1>3, <3>1
  <2> QED
    BY <2>1, <2>2
<1>5. ASSUME NEW j \in 1 .. Len(ranges), ranges[j].first <= frame, frame <= ranges[j].last
      PROVE  j = k
  <2>1. ~(j < k)
    <3>1. j < k => j \in 1 .. (k - 1)
      BY <1>1
    <3> QED
      BY <1>2, <1>4, <1>5, <3>1, SMTT(30)
  <2>2. ~(k < j)
    <3> SUFFICES ASSUME k < j PROVE FALSE
      OBVIOUS
    <3>1. k \in 1 .. Len(ranges) /\ j \in (k + 1) .. Len(ranges)
      BY <1>1
    <3>2. ranges[k].last < ranges[j].first
      BY <3>1, RangesApart
    <3>3. ranges[k].last >= frame
      BY <1>3, <3>1
    <3> QED
      BY <1>2, <1>5, <3>1, <3>2, <3>3, SMTT(30)
  <2> QED
    BY <1>1, <2>1, <2>2
<1>6. is_frame_selected(frame) <=> k <= Len(ranges) /\ ranges[k].first <= frame /\ frame <= ranges[k].last
  BY <1>3 DEF is_frame_selected
<1>7. k <= Len(ranges) => k \in 1 .. Len(ranges)
  BY <1>1
<1>8. Selected(frame) <=> \E j \in 1 .. Len(ranges) : ranges[j].first <= frame /\ frame <= ranges[j].last
  BY <1>1 DEF Selected
<1>9. is_frame_selected(frame) => Selected(frame)
  BY <1>6, <1>7, <1>8
<1>10. ASSUME Selected(frame) PROVE is_frame_selected(frame)
  <2>1. PICK j \in 1 .. Len(ranges) : ranges[j].first <= frame /\ frame <= ranges[j].last
    BY <1>8, <1>10
  <2>2. j = k /\ k <= Len(ranges)
    BY <1>1, <1>5, <2>1
  <2> QED
    BY <1>6, <2>1, <2>2
<1> QED
  BY <1>3, <1>4, <1>9, <1>10

LEMMA CaptureNone ==
  ASSUME NEW before, NEW f
  PROVE  CaptureAll(before, f, <<>>) = before
<1> DEFINE Is(g) == g = [k \in 0 .. Len(<<>>) |-> IF k = 0 THEN before ELSE replay_capture_frame_boundary_image(g[k - 1], f, <<>>[k])]
<1>1. Len(<<>>) = 0
  OBVIOUS
<1>2. PICK h : h = [k \in 0 .. 0 |-> before]
  OBVIOUS
<1>3. Is(h)
  BY <1>1, <1>2
<1>4. PICK g : g = CHOOSE x : Is(x)
  OBVIOUS
<1>5. Is(g)
  BY <1>3, <1>4
<1>6. g[0] = before
  BY <1>1, <1>5
<1>7. CaptureAll(before, f, <<>>) = g[Len(<<>>)]
  BY <1>4 DEF CaptureAll
<1> QED
  BY <1>1, <1>6, <1>7

LEMMA CaptureOne ==
  ASSUME NEW before, NEW f, NEW i
  PROVE  CaptureAll(before, f, <<i>>) = replay_capture_frame_boundary_image(before, f, i)
<1> DEFINE s == <<i>>
           Is(g) == g = [k \in 0 .. Len(s) |-> IF k = 0 THEN before ELSE replay_capture_frame_boundary_image(g[k - 1], f, s[k])]
<1>1. Len(s) = 1 /\ s[1] = i
  OBVIOUS
<1> HIDE DEF s
<1>2. PICK h : h = [k \in 0 .. 1 |-> IF k = 0 THEN before ELSE replay_capture_frame_boundary_image(before, f, s[1])]
  OBVIOUS
<1>3. Is(h)
  <2>1. h[0] = before /\ h[1] = replay_capture_frame_boundary_image(before, f, s[1])
    BY <1>2
  <2>2. \A k \in 0 .. 1 : k = 0 \/ (k = 1 /\ k - 1 = 0)
    OBVIOUS
  <2>3. h = [k \in 0 .. 1 |-> IF k = 0 THEN before ELSE replay_capture_frame_boundary_image(h[k - 1], f, s[k])]
    BY <1>2, <2>1, <2>2
  <2> QED
    BY <1>1, <2>3
<1>4. PICK g : g = CHOOSE x : Is(x)
  OBVIOUS
<1>5. Is(g)
  BY <1>3, <1>4
<1>6. g[0] = before /\ g[1] = replay_capture_frame_boundary_image(g[1 - 1], f, s[1])
  BY <1>1, <1>5
<1>7. CaptureAll(before, f, s) = g[Len(s)]
  BY <1>4 DEF CaptureAll
<1>8. 1 - 1 = 0
  OBVIOUS
<1> QED
  BY <1>1, <1>6, <1>7, <1>8 DEF s

\* What a capture of the frame that ends leaves.
ShotsWith(s, e) ==
  /\ s \in [Frames -> Int] /\ \A g \in Frames : g # frame => s[g] = shots[g]
  /\ s[frame] = IF Selected(frame) /\ e # NoImage THEN e ELSE Nothing

LEMMA CaptureLeaves ==
  ASSUME SwapTypes, ShotInv, "remade" \notin odd, frame < MaxFrame
  PROVE  /\ ShotsWith(shots, NoImage)
         /\ \A e \in Nat : ShotsWith(capture(shots, frame, e), e)
<1>1. /\ shots \in [Frames -> Int] /\ frame \in Frames /\ shots[frame] = Nothing /\ Nothing \in Int
      /\ frame \in 0 .. MaxFrame
  <2>1. shots \in [Frames -> Int] /\ frame \in 0 .. MaxFrame /\ \A g \in frame .. (MaxFrame - 1) : shots[g] = Nothing
    BY DEF ShotInv
  <2>2. frame \in Frames /\ frame \in frame .. (MaxFrame - 1)
    BY <2>1, SwapAssumption DEF Frames
  <2> QED
    BY <2>1, <2>2 DEF Nothing
<1>2. is_frame_selected(frame) <=> Selected(frame)
  BY FrameSelected DEF SwapTypes, ShotInv
<1>3. ShotsWith(shots, NoImage)
  BY <1>1 DEF ShotsWith
<1>4. ASSUME NEW e \in Nat PROVE ShotsWith(capture(shots, frame, e), e)
  <2>1. e # NoImage /\ e \in Int
    BY DEF NoImage
  <2>2. CASE Selected(frame)
    <3>1. capture(shots, frame, e) = [shots EXCEPT ![frame] = e]
      BY <1>2, <2>2 DEF capture
    <3> QED
      BY <1>1, <2>1, <2>2, <3>1 DEF ShotsWith
  <2>3. CASE ~Selected(frame)
    <3>1. capture(shots, frame, e) = shots
      BY <1>2, <2>3 DEF capture
    <3> QED
      BY <1>1, <2>3, <3>1 DEF ShotsWith
  <2> QED
    BY <2>2, <2>3
<1> QED
  BY <1>3, <1>4

LEMMA FrameEnds ==
  ASSUME SwapTypes, ShotInv, frame < MaxFrame, NEW e \in Int,
         frame' = frame + 1, range' = NextRange(frame), ranges' = ranges, noscreen' = noscreen,
         content' = content, rendered' = rendered, ended' = [ended EXCEPT ![frame] = e], odd \subseteq odd',
         "remade" \notin odd' =>
            boundaries' = <<>> /\ shots' \in [Frames -> Int] /\ \A g \in Frames : g # frame => shots'[g] = shots[g],
         Handled' => ShotsWith(shots', e),
         noscreen => "remade" \notin odd', odd' = {} => held' \subseteq {swapchain'.next_stored_image}
  PROVE  ShotInv'
<1>1. frame \in 0 .. MaxFrame /\ MaxFrame \in Nat /\ ended \in [Frames -> Int] /\ content \in [StoredImages -> Nat] /\ rendered \in Nat
  BY SwapAssumption DEF ShotInv
<1>2. frame \in Frames /\ frame' \in 0 .. MaxFrame /\ Frames' = Frames
  BY <1>1 DEF Frames
<1>3. ended' \in [Frames -> Int] /\ ended'[frame] = e /\ \A g \in Frames : g # frame => ended'[g] = ended[g]
  BY <1>1, <1>2
<1>4. parse_replay_screenshot_ranges(ranges)'
  BY DEF ShotInv, parse_replay_screenshot_ranges
<1>5. \A j \in 1 .. (range' - 1) : ranges'[j].last < frame'
  <2> TAKE j \in 1 .. (range' - 1)
  <2>1. range' \in 1 .. (Len(ranges) + 1) /\ Len(ranges) \in Nat
    BY <1>1, RangeMoves DEF SwapTypes
  <2>2. j \in 1 .. Len(ranges) /\ j \in 1 .. (NextRange(frame) - 1)
    BY <2>1
  <2>3. ranges[j].last < frame
    BY <1>1, <2>2, FrameSelected DEF SwapTypes, ShotInv
  <2>4. ranges[j] \in [first : Nat, last : Int]
    BY <2>2, ElementOfSeq DEF SwapTypes
  <2>5. PICK x \in Int : x = ranges[j].last
    BY <2>4
  <2>6. x < frame + 1
    BY <1>1, <2>3, <2>5
  <2> QED
    BY <2>5, <2>6
<1>6. ASSUME "remade" \notin odd'
      PROVE  /\ boundaries' = <<>> /\ shots' \in [Frames' -> Int]
             /\ \A g \in frame' .. (MaxFrame - 1) : shots'[g] = Nothing
  <2>1. "remade" \notin odd
    BY <1>6
  <2>2. ASSUME NEW g \in frame' .. (MaxFrame - 1) PROVE shots'[g] = Nothing
    <3>1. g \in frame .. (MaxFrame - 1) /\ g \in Frames /\ g # frame
      BY <1>1 DEF Frames
    <3>2. shots[g] = Nothing
      BY <2>1, <3>1 DEF ShotInv
    <3> QED
      BY <1>6, <3>1, <3>2
  <2> QED
    BY <1>2, <1>6, <2>2
<1>7. ScreenshotsExact'
  <2> SUFFICES ASSUME Handled', NEW g \in 0 .. (frame' - 1)
               PROVE  IF Selected(g)' /\ ended'[g] # NoImage THEN shots'[g] = ended'[g] ELSE shots'[g] = Nothing
    BY DEF ScreenshotsExact, Handled, NoImage, Nothing
  <2>1. Handled /\ "remade" \notin odd'
    BY DEF Handled
  <2>2. Selected(g)' <=> Selected(g)
    BY DEF Selected
  <2>3. ShotsWith(shots', e)
    OBVIOUS
  <2>4. CASE g = frame
    BY <1>3, <2>2, <2>3, <2>4 DEF ShotsWith
  <2>5. CASE g # frame
    <3>1. g \in 0 .. (frame - 1) /\ g \in Frames
      BY <1>1, <2>5 DEF Frames
    <3>2. IF Selected(g) /\ ended[g] # NoImage THEN shots[g] = ended[g] ELSE shots[g] = Nothing
      BY <2>1, <3>1 DEF ShotInv, ScreenshotsExact, Handled
    <3>3. shots'[g] = shots[g] /\ ended'[g] = ended[g]
      BY <1>3, <2>3, <2>5, <3>1 DEF ShotsWith
    <3> QED
      BY <2>2, <3>2, <3>3
  <2> QED
    BY <2>4, <2>5
<1> QED
  BY <1>1, <1>2, <1>3, <1>4, <1>5, <1>6, <1>7 DEF ShotInv, Nothing

LEMMA NoFrameEnds ==
  ASSUME ShotInv, frame' = frame, range' = range, ranges' = ranges, noscreen' = noscreen, shots' = shots, ended' = ended,
         boundaries' = boundaries, content' \in [StoredImages -> Nat], rendered' \in Nat, odd \subseteq odd',
         noscreen => "remade" \notin odd', odd' = {} => held' \subseteq {swapchain'.next_stored_image}
  PROVE  ShotInv'
<1>1. Frames' = Frames
  BY DEF Frames
<1>2. parse_replay_screenshot_ranges(ranges)' /\ \A j \in 1 .. (range' - 1) : ranges'[j].last < frame'
  BY DEF ShotInv, parse_replay_screenshot_ranges
<1>3. "remade" \notin odd' =>
         /\ boundaries' = <<>> /\ shots' \in [Frames' -> Int]
         /\ \A g \in frame' .. (MaxFrame - 1) : shots'[g] = Nothing
  BY <1>1 DEF ShotInv
<1>4. ScreenshotsExact'
  <2> SUFFICES ASSUME Handled', NEW g \in 0 .. (frame' - 1)
               PROVE  IF Selected(g)' /\ ended'[g] # NoImage THEN shots'[g] = ended'[g] ELSE shots'[g] = Nothing
    BY DEF ScreenshotsExact, Handled, NoImage, Nothing
  <2>1. Handled
    BY DEF Handled
  <2>2. Selected(g)' <=> Selected(g)
    BY DEF Selected
  <2> QED
    BY <2>1, <2>2 DEF ShotInv, ScreenshotsExact, Handled
<1> QED
  BY <1>1, <1>2, <1>3, <1>4 DEF ShotInv, Nothing

LEMMA BoundaryContent ==
  ASSUME ShotInv, NEW i \in BoundaryImages, i # NoImage
  PROVE  i \in StoredImages /\ content[i] \in Nat
BY SwapAssumption DEF ShotInv

LEMMA BoundaryShots ==
  ASSUME SwapTypes, ShotInv, NEW i \in BoundaryImages, SubmitFrameBoundary(i) \/ replay_process_android_frame_boundary(i)
  PROVE  ShotInv'
<1>1. /\ frame' = frame + 1 /\ range' = NextRange(frame) /\ ranges' = ranges /\ noscreen' = noscreen /\ odd' = odd
      /\ content' = content /\ rendered' = rendered /\ frame < MaxFrame /\ held' = held /\ swapchain' = swapchain
      /\ EndFrameWith(i, frame) /\ boundaries' \in {boundaries, <<>>}
  BY DEF SubmitFrameBoundary, replay_process_android_frame_boundary
<1>2. PICK e \in Int : /\ ended' = [ended EXCEPT ![frame] = e] /\ (i = NoImage => e = NoImage)
                       /\ i # NoImage => e = content[i] /\ e \in Nat
  <2>1. NoImage \in Int
    BY DEF NoImage
  <2>2. CASE i = NoImage
    BY <1>1, <2>1, <2>2 DEF EndFrameWith
  <2>3. CASE i # NoImage
    <3>1. content[i] \in Nat /\ content[i] \in Int
      BY <2>3, BoundaryContent
    <3>2. ended' = [ended EXCEPT ![frame] = content[i]]
      BY <1>1, <2>3 DEF EndFrameWith
    <3> QED
      BY <2>3, <3>1, <3>2
  <2> QED
    BY <2>2, <2>3
<1>3. ASSUME "remade" \notin odd PROVE boundaries' = <<>> /\ ShotsWith(shots', e)
  <2>1. boundaries = <<>>
    BY <1>3 DEF ShotInv
  <2>2. CaptureAll(shots, frame - 1, boundaries) = shots
    BY <2>1, CaptureNone
  <2>3. shots' = replay_capture_frame_boundary_image(shots, frame, i)
    <3>1. CASE replay_process_android_frame_boundary(i)
      BY <3>1 DEF replay_process_android_frame_boundary
    <3>2. CASE SubmitFrameBoundary(i)
      <4>1. PICK before : /\ before = IF frame = 0 THEN shots ELSE CaptureAll(shots, frame - 1, boundaries)
                          /\ shots' = replay_capture_frame_boundary_image(before, frame, i)
        BY <3>2, Zenon DEF SubmitFrameBoundary
      <4>2. before = shots
        BY <2>2, <4>1
      <4> QED
        BY <4>1, <4>2
    <3> QED
      BY <3>1, <3>2
  <2>6. boundaries' = <<>>
    BY <1>1, <2>1
  <2>4. CASE i = NoImage
    BY <1>1, <1>2, <1>3, <2>3, <2>4, <2>6, CaptureLeaves DEF replay_capture_frame_boundary_image
  <2>5. CASE i # NoImage
    <3>1. shots' = capture(shots, frame, e)
      BY <1>2, <2>3, <2>5 DEF replay_capture_frame_boundary_image
    <3> QED
      BY <1>1, <1>2, <1>3, <2>5, <2>6, <3>1, CaptureLeaves
  <2> QED
    BY <2>4, <2>5
<1>4. Handled' => "remade" \notin odd
  BY <1>1 DEF Handled
<1>5. /\ noscreen => "remade" \notin odd'
      /\ odd' = {} => held' \subseteq {swapchain'.next_stored_image}
  BY <1>1 DEF ShotInv
<1>6. "remade" \notin odd' =>
        boundaries' = <<>> /\ shots' \in [Frames -> Int] /\ \A g \in Frames : g # frame => shots'[g] = shots[g]
  BY <1>1, <1>3 DEF ShotsWith
<1> QED
  BY <1>1, <1>2, <1>3, <1>4, <1>5, <1>6, FrameEnds

LEMMA PresentEnds ==
  ASSUME ShotInv, NEW i \in StoredImages, NEW b \in Boundaries, Presented(i, b)
  PROVE  \E e \in Int : ended' = [ended EXCEPT ![frame] = e]
<1>1. PICK j : ended' = [ended EXCEPT ![frame] = IF j = NoImage THEN NoImage ELSE content[j]]
               /\ j = IF b = <<>> \/ b = <<NoImage>> THEN i ELSE b[1]
  BY DEF Presented, EndFrameWith
<1>2. j = NoImage \/ j \in StoredImages
  <2>1. CASE b = <<>> \/ b = <<NoImage>>
    BY <1>1, <2>1
  <2>2. CASE ~(b = <<>> \/ b = <<NoImage>>)
    <3>1. PICK x \in BoundaryImages : b = <<x>>
      BY <2>2 DEF Boundaries
    <3>2. j = x
      BY <1>1, <2>2, <3>1
    <3> QED
      BY <3>2, SwapAssumption
  <2> QED
    BY <2>1, <2>2
<1>3. NoImage \in Int /\ (j \in StoredImages => content[j] \in Int)
  BY DEF ShotInv, NoImage
<1> QED
  BY <1>1, <1>2, <1>3

LEMMA PresentShotsLeave ==
  ASSUME SwapTypes, ShotInv, "remade" \notin odd, frame < MaxFrame, NEW i \in held, NEW b \in Boundaries, Presented(i, b)
  PROVE  \E e \in Nat : /\ ended' = [ended EXCEPT ![frame] = e]
                        /\ \E v \in Nat : ShotsWith(shots', v) /\ (Handled => v = e)
<1>1. i \in StoredImages /\ content[i] \in Nat /\ NoImage \notin StoredImages /\ swapchain.next_stored_image \in StoredImages
  BY SwapFacts DEF SwapTypes, ShotInv
<1>2. /\ shots' = PresentShots(i, b)
      /\ EndFrameWith(IF b = <<>> \/ b = <<NoImage>> THEN i ELSE b[1], frame)
  BY DEF Presented
<1>3. boundaries = <<>>
  BY DEF ShotInv
<1>4. CASE b = <<>> \/ b = <<NoImage>>
  <2>1. ended' = [ended EXCEPT ![frame] = content[i]]
    BY <1>1, <1>2, <1>4 DEF EndFrameWith
  <2>2. boundaries \o b = b
    <3>1. b \in Seq({NoImage})
      <4>1. <<>> \in Seq({NoImage}) /\ <<NoImage>> \in Seq({NoImage})
        OBVIOUS
      <4> QED
        BY <1>4, <4>1
    <3> QED
      BY <1>3, <3>1, ConcatEmptySeq
  <2>3. ~\E k \in DOMAIN b : b[k] # NoImage
    BY <1>4
  <2>4. PICK v \in Nat : /\ v = IF noscreen THEN content[i] ELSE content[swapchain.next_stored_image]
                         /\ shots' = capture(shots, frame, v)
    <3>1. PICK v : v = IF noscreen THEN content[i] ELSE content[swapchain.next_stored_image]
      OBVIOUS
    <3>2. v \in Nat
      BY <1>1, <3>1 DEF ShotInv
    <3>3. shots' = capture(shots, frame, v)
      BY <1>2, <2>2, <2>3, <3>1 DEF PresentShots
    <3> QED
      BY <3>1, <3>2, <3>3
  <2>5. Handled => v = content[i]
    <3>1. CASE noscreen
      BY <2>4, <3>1
    <3>2. CASE ~noscreen
      <4>1. Handled => odd = {}
        BY <3>2 DEF Handled
      <4>2. Handled => i = swapchain.next_stored_image
        BY <4>1 DEF ShotInv
      <4> QED
        BY <2>4, <3>2, <4>2
    <3> QED
      BY <3>1, <3>2
  <2>6. ShotsWith(shots', v)
    BY <2>4, CaptureLeaves
  <2> QED
    BY <1>1, <2>1, <2>5, <2>6
<1>5. CASE ~(b = <<>> \/ b = <<NoImage>>)
  <2>1. PICK x \in BoundaryImages : b = <<x>>
    BY <1>5 DEF Boundaries
  <2>2. x # NoImage /\ b[1] = x /\ DOMAIN b = {1}
    BY <1>5, <2>1
  <2>3. content[x] \in Nat
    BY <2>2, BoundaryContent
  <2>4. ended' = [ended EXCEPT ![frame] = content[x]]
    BY <1>2, <1>5, <2>2 DEF EndFrameWith
  <2>5. boundaries \o b = b
    <3>1. b \in Seq(BoundaryImages)
      BY <2>1
    <3> QED
      BY <1>3, <3>1, ConcatEmptySeq
  <2>6. \E k \in DOMAIN b : b[k] # NoImage
    BY <2>2
  <2>7. shots' = CaptureAll(shots, frame, b)
    BY <1>2, <2>5, <2>6 DEF PresentShots
  <2>8. shots' = replay_capture_frame_boundary_image(shots, frame, x)
    BY <2>1, <2>7, CaptureOne
  <2>9. shots' = capture(shots, frame, content[x])
    BY <2>2, <2>8 DEF replay_capture_frame_boundary_image
  <2>10. ShotsWith(shots', content[x])
    BY <2>3, <2>9, CaptureLeaves
  <2> QED
    BY <2>3, <2>4, <2>10
<1> QED
  BY <1>4, <1>5

LEMMA QueuePresentShots ==
  ASSUME SwapTypes, ShotInv, NEW i \in StoredImages, NEW b \in Boundaries, QueuePresent(i, b)
  PROVE  ShotInv'
<1>1. /\ frame' = frame + 1 /\ range' = NextRange(frame) /\ ranges' = ranges /\ noscreen' = noscreen /\ odd' = odd
      /\ content' = content /\ rendered' = rendered /\ frame < MaxFrame /\ held' = held \ {i} /\ i \in held
      /\ Presented(i, b) /\ boundaries' = <<>> /\ swapchain' = [swapchain EXCEPT !.inflight[i] = TRUE]
  BY DEF QueuePresent, Presented, Use
<1>2. swapchain'.next_stored_image = swapchain.next_stored_image
  BY <1>1 DEF SwapTypes, Swapchains
<1>3. /\ noscreen => "remade" \notin odd'
      /\ odd' = {} => held' \subseteq {swapchain'.next_stored_image}
  BY <1>1, <1>2 DEF ShotInv
<1>4. CASE "remade" \notin odd
  <2>1. PICK e \in Nat : /\ ended' = [ended EXCEPT ![frame] = e]
                         /\ \E v \in Nat : ShotsWith(shots', v) /\ (Handled => v = e)
    BY <1>1, <1>4, PresentShotsLeave
  <2>2. PICK v \in Nat : ShotsWith(shots', v) /\ (Handled => v = e)
    BY <2>1
  <2>3. Handled' => ShotsWith(shots', e)
    BY <1>1, <2>2 DEF Handled
  <2>4. shots' \in [Frames -> Int] /\ \A g \in Frames : g # frame => shots'[g] = shots[g]
    BY <2>2 DEF ShotsWith
  <2>5. e \in Int
    OBVIOUS
  <2> QED
    BY <1>1, <1>3, <2>1, <2>3, <2>4, <2>5, FrameEnds
<1>5. CASE "remade" \in odd
  <2>1. PICK e \in Int : ended' = [ended EXCEPT ![frame] = e]
    BY <1>1, PresentEnds
  <2>2. ~Handled'
    BY <1>1, <1>5 DEF Handled
  <2> QED
    BY <1>1, <1>3, <1>5, <2>1, <2>2, FrameEnds
<1> QED
  BY <1>4, <1>5

LEMMA OutOfDateShots ==
  ASSUME SwapTypes, ShotInv, NEW i \in StoredImages, NEW b \in Boundaries, QueuePresentOutOfDate(i, b)
  PROVE  ShotInv'
<1>1. /\ frame' = frame + 1 /\ range' = NextRange(frame) /\ ranges' = ranges /\ noscreen' = noscreen /\ ~noscreen
      /\ content' = content /\ rendered' = rendered /\ frame < MaxFrame /\ i \in held
      /\ Presented(i, b) /\ odd' = odd \cup {"remade"}
  BY DEF QueuePresentOutOfDate, Presented
<1>2. PICK e \in Int : ended' = [ended EXCEPT ![frame] = e]
  BY <1>1, PresentEnds
<1>3. ~Handled' /\ "remade" \in odd' /\ odd' # {} /\ odd \subseteq odd'
  BY <1>1 DEF Handled
<1> QED
  BY <1>1, <1>2, <1>3, FrameEnds

LEMMA ShotInitInv == SwapInit => ShotInv
<1> SUFFICES ASSUME SwapInit PROVE ShotInv
  OBVIOUS
<1>1. /\ content \in [StoredImages -> Nat] /\ rendered \in Nat /\ frame = 0 /\ range = 1 /\ odd = {} /\ held = {} /\ boundaries = <<>>
      /\ parse_replay_screenshot_ranges(ranges)
  BY DEF SwapInit
<1>2. frame \in 0 .. MaxFrame
  BY <1>1, SwapAssumption
<1>3. NoImage \in Int /\ Nothing \in Int
  BY DEF NoImage, Nothing
<1>4. ended \in [Frames -> Int] /\ shots \in [Frames -> Int] /\ \A g \in frame .. (MaxFrame - 1) : shots[g] = Nothing
  BY <1>1, <1>3 DEF SwapInit, Frames
<1>5. ScreenshotsExact
  BY <1>1 DEF ScreenshotsExact
<1> QED
  BY <1>1, <1>2, <1>4, <1>5 DEF ShotInv

LEMMA ShotStepInv == SwapTypes /\ ShotInv /\ [SwapNext]_swapvars => ShotInv'
<1> SUFFICES ASSUME SwapTypes, ShotInv, [SwapNext]_swapvars PROVE ShotInv'
  OBVIOUS
<1>1. /\ content \in [StoredImages -> Nat] /\ rendered \in Nat
      /\ noscreen => "remade" \notin odd
      /\ odd = {} => held \subseteq {swapchain.next_stored_image}
  BY DEF ShotInv
<1>2. CASE \/ GpuStep \/ DestroySwapchain \/ UNCHANGED swapvars
           \/ \E r \in RealImages : ShowImage(r) \/ ReleaseImage(r)
  <2>1. /\ frame' = frame /\ range' = range /\ ranges' = ranges /\ noscreen' = noscreen /\ shots' = shots /\ ended' = ended
        /\ boundaries' = boundaries /\ content' = content /\ rendered' = rendered /\ odd' = odd /\ held' = held
        /\ swapchain' = swapchain \/ swapchain' = [swapchain EXCEPT !.state = "destroyed"]
    BY <1>2 DEF GpuStep, DestroySwapchain, swapvars, ShowImage, ReleaseImage
  <2>2. swapchain'.next_stored_image = swapchain.next_stored_image
    BY <2>1 DEF SwapTypes, Swapchains
  <2> QED
    BY <1>1, <2>1, <2>2, NoFrameEnds
<1>3. CASE retrace_vkGetSwapchainImagesKHR
  <2>1. /\ frame' = frame /\ range' = range /\ ranges' = ranges /\ noscreen' = noscreen /\ shots' = shots /\ ended' = ended
        /\ boundaries' = boundaries /\ content' = content /\ rendered' = rendered /\ odd' = odd /\ held' = held
        /\ swapchain' = SwapchainImages /\ swapchain.state \in {"new", "live"}
    BY <1>3 DEF retrace_vkGetSwapchainImagesKHR
  <2>2. swapchain' = swapchain \/ held = {}
    BY <2>1 DEF SwapchainImages, SwapTypes
  <2> QED
    BY <1>1, <2>1, <2>2, NoFrameEnds
<1>4. CASE \E i \in StoredImages, r \in RealImages : AcquireNextImage(i, r)
  <2>1. PICK i \in StoredImages, r \in RealImages : AcquireNextImage(i, r)
    BY <1>4
  <2>2. /\ frame' = frame /\ range' = range /\ ranges' = ranges /\ noscreen' = noscreen /\ shots' = shots /\ ended' = ended
        /\ boundaries' = boundaries /\ content' = content /\ rendered' = rendered /\ held' = held \cup {i}
        /\ swapchain' = callback_vkAcquireNextImageKHR(i, r)
        /\ odd' = IF held = {} THEN odd ELSE odd \cup {"several"}
    BY <2>1 DEF AcquireNextImage
  <2>3. swapchain'.next_stored_image = i
    BY <2>2 DEF callback_vkAcquireNextImageKHR, SwapTypes, Swapchains
  <2>4. odd' = {} => held' \subseteq {swapchain'.next_stored_image}
    BY <2>2, <2>3
  <2>5. odd \subseteq odd' /\ (noscreen => "remade" \notin odd')
    BY <1>1, <2>2
  <2> QED
    BY <1>1, <2>2, <2>4, <2>5, NoFrameEnds
<1>5. CASE \E i \in StoredImages : AcquireFailed(i)
  <2>1. /\ frame' = frame /\ range' = range /\ ranges' = ranges /\ noscreen' = noscreen /\ shots' = shots /\ ended' = ended
        /\ boundaries' = boundaries /\ content' = content /\ rendered' = rendered
        /\ odd' = odd \cup {"failed"}
    BY <1>5 DEF AcquireFailed
  <2>2. odd \subseteq odd' /\ odd' # {} /\ (noscreen => "remade" \notin odd')
    BY <1>1, <2>1
  <2> QED
    BY <1>1, <2>1, <2>2, NoFrameEnds
<1>6. CASE \E i \in StoredImages : Render(i)
  <2>1. PICK i \in StoredImages : Render(i)
    BY <1>6
  <2>2. /\ frame' = frame /\ range' = range /\ ranges' = ranges /\ noscreen' = noscreen /\ shots' = shots /\ ended' = ended
        /\ boundaries' = boundaries /\ content' = [content EXCEPT ![i] = rendered + 1] /\ rendered' = rendered + 1
        /\ odd' = odd /\ held' = held /\ swapchain' = swapchain
    BY <2>1 DEF Render
  <2>3. content' \in [StoredImages -> Nat] /\ rendered' \in Nat
    BY <1>1, <2>2
  <2> QED
    BY <1>1, <2>2, <2>3, NoFrameEnds
<1>7. CASE \E i \in BoundaryImages : SubmitFrameBoundary(i) \/ replay_process_android_frame_boundary(i)
  BY <1>7, BoundaryShots
<1>8. CASE \E i \in StoredImages, b \in Boundaries : QueuePresent(i, b)
  BY <1>8, QueuePresentShots
<1>9. CASE \E i \in StoredImages, b \in Boundaries : QueuePresentOutOfDate(i, b)
  BY <1>9, OutOfDateShots
<1> QED
  BY <1>2, <1>3, <1>4, <1>5, <1>6, <1>7, <1>8, <1>9 DEF SwapNext

(***************************************************************************)
(* Whatever ascending ranges the user selects, however many images the     *)
(* swapchains have and however frames end: the screenshots are those of    *)
(* the selected frames, each showing what its frame ended with, for every  *)
(* application without a window and, with one, for an application that     *)
(* holds one image at a time, whose acquires succeed and whose swapchain   *)
(* is not remade (replay_screenshot_handler,                               *)
(* replay_callback_vkQueuePresentKHR).                                     *)
(***************************************************************************)
THEOREM ScreenshotsAreExact == SwapSpec => []ScreenshotsExact
<1>1. SwapSpec => []SwapTypes
  <2>1. SwapInv => SwapTypes
    BY DEF SwapInv
  <2> QED
    BY <2>1, SwapInitInv, SwapStepInv, PTL DEF SwapSpec
<1>2. SwapSpec => []ShotInv
  BY <1>1, ShotInitInv, ShotStepInv, PTL DEF SwapSpec
<1>3. ShotInv => ScreenshotsExact
  BY DEF ShotInv
<1> QED
  BY <1>2, <1>3, PTL

=============================================================================
