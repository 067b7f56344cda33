-------------------------- MODULE CommandBufferReplay --------------------------
(* Replay repeats the calls of an application that knew, by whatever means, how *)
(* far its own device had come. The replaying device is slower or faster than   *)
(* that one, so before a command buffer is recorded, freed or submitted again   *)
(* replay waits for its last submission itself (hardcode_read.cpp).             *)
EXTENDS Integers, Sequences

CONSTANTS
    CommandBuffers,     \* of one pool
    SubmitFences,       \* VkFence objects
    SubmitQueues,       \* VkQueue objects of one device
    SharedQueues,       \* queues that SIMULTANEOUS_USE command buffers go to
    Builds,             \* argument lists of vkCmdBuildAccelerationStructuresKHR
    ScratchAlignment,   \* minAccelerationStructureScratchOffsetAlignment
    AppScratch,         \* size of the application's scratch buffer
    MaxSubmits          \* bound: submissions

VARIABLES
    recorded,       \* trackedcmdbuffer: state, flags and the number of its recording
    scratch,        \* replay_scratch_buffers and the scratch ranges of the builds
    onCapture,      \* submissions running when the trace was made, per queue
    onReplay,       \* submissions running on the replaying device
    captureFence,   \* state of each fence when the trace was made
    replayFence,    \* and on the replaying device
    observed,       \* fences the application has asked about since their submission
    pending,        \* replay_pending
    submitQueue,    \* replay_submit_queue
    submitFence,    \* replay_submit_fence_index
    fencePending,   \* replay_pending_commandbuffers of each fence
    submits         \* number of submissions

trackvars == <<pending, submitQueue, submitFence, fencePending>>
devicevars == <<onCapture, onReplay, captureFence, replayFence, observed, submits>>
cbvars == <<recorded, scratch, onCapture, onReplay, captureFence, replayFence, observed,
            pending, submitQueue, submitFence, fencePending, submits>>

NoFence == "no fence"
NoQueue == "no queue"

\* They are no handles. A build says where the application's scratch range starts and
\* how much the replaying device needs, and replay takes the alignment as at least 1.
ASSUME CbAssumption ==
    /\ NoFence \notin SubmitFences /\ NoQueue \notin SubmitQueues
    /\ Builds \subseteq Seq([first : Nat, n : Nat]) /\ ScratchAlignment \in Nat \ {0}

Running(queues, c) == \E q \in SubmitQueues : \E i \in DOMAIN queues[q] : queues[q][i].cb = c
Blank0 == [state |-> "initial", shared |-> FALSE, number |-> 0]

CbInit ==
    /\ recorded = [c \in CommandBuffers |-> Blank0]
    /\ scratch = [c \in CommandBuffers |-> <<>>]
    /\ onCapture = [q \in SubmitQueues |-> <<>>] /\ onReplay = onCapture
    /\ captureFence = [f \in SubmitFences |-> "unsignaled"] /\ replayFence = captureFence
    /\ observed = {}
    /\ pending = {}
    /\ submitQueue = [c \in CommandBuffers |-> NoQueue]
    /\ submitFence = [c \in CommandBuffers |-> NoFence]
    /\ fencePending = [f \in SubmitFences |-> {}]
    /\ submits = 0

--------------------------------------------------------------------------------
(* Bookkeeping, as changes to the four tracking variables *)

Tracking == [pending |-> pending, queue |-> submitQueue, fence |-> submitFence, of |-> fencePending]
Track(t) ==
    /\ pending' = t.pending /\ submitQueue' = t.queue /\ submitFence' = t.fence /\ fencePending' = t.of

\* Command buffers are forgotten; what is left on the lists of the fences is given.
Forget(t, cs, of) ==
    [pending |-> t.pending \ cs,
     queue   |-> [c \in CommandBuffers |-> IF c \in cs THEN NoQueue ELSE t.queue[c]],
     fence   |-> [c \in CommandBuffers |-> IF c \in cs THEN NoFence ELSE t.fence[c]],
     of      |-> of]

FenceExists(f) == f # NoFence /\ replayFence[f] # "destroyed"

\* Called for one command buffer or for one after the other: each leaves only its own list.
replay_clear_pending_commandbuffer(t, cs) ==
    Forget(t, cs, [f \in SubmitFences |-> IF FenceExists(f) THEN t.of[f] \ {c \in cs : t.fence[c] = f} ELSE t.of[f]])

\* Mutant: the submission before stays on its fence's list.
replay_mark_pending_commandbufferKept(t, c, q, f) ==
    [pending |-> t.pending \cup {c},
     queue   |-> [t.queue EXCEPT ![c] = q],
     fence   |-> IF f = NoFence THEN t.fence ELSE [t.fence EXCEPT ![c] = f],
     of      |-> [x \in SubmitFences |-> IF x = f THEN t.of[x] \cup {c} ELSE t.of[x]]]

replay_mark_pending_commandbuffer(t, c, q, f) ==
    LET u == replay_clear_pending_commandbuffer(t, {c})
    IN [pending |-> u.pending \cup {c},
        queue   |-> [u.queue EXCEPT ![c] = q],
        fence   |-> [u.fence EXCEPT ![c] = f],
        of      |-> [x \in SubmitFences |-> IF x = f THEN u.of[x] \cup {c} ELSE u.of[x]]]

\* For one fence or several. A command buffer that was submitted again in between
\* belongs to another fence.
replay_clear_pending_fence(t, fs) ==
    LET known == {f \in fs : FenceExists(f)}
    IN Forget(t, {c \in CommandBuffers : t.fence[c] \in known /\ c \in t.of[t.fence[c]]},
              [f \in SubmitFences |-> IF f \in known THEN {} ELSE t.of[f]])

\* Mutant: a submission without a fence is not waited for.
WaitedForFencesOnly(c) ==
    c \in pending /\ FenceExists(submitFence[c]) => replayFence[submitFence[c]] = "signaled"

\* What vkWaitForFences or vkQueueWaitIdle returns after.
WaitedFor(c) ==
    c \in pending =>
        IF FenceExists(submitFence[c]) THEN replayFence[submitFence[c]] = "signaled"
        ELSE submitQueue[c] # NoQueue => onReplay[submitQueue[c]] = <<>>

\* For one command buffer, or for those of a pool: what one wait clears no other one
\* waits for again, so their order does not matter.
replay_wait_for_pending_commandbuffer(t, cs, allow_simultaneous_use) ==
    LET waits == {c \in cs : c \in t.pending /\ ~(allow_simultaneous_use /\ recorded[c].shared)}
        onQueue == {c \in waits : ~FenceExists(t.fence[c])}
        waited == replay_clear_pending_fence(t, {t.fence[c] : c \in waits \ onQueue})
    IN replay_clear_pending_commandbuffer(waited, onQueue)

--------------------------------------------------------------------------------
(* Recording. The trace holds only calls that were allowed when it was made. *)

Idle(c) == ~Running(onCapture, c) /\ recorded[c].state # "freed"

replay_cleanup_commandbuffer_for_rerecord(c, state, shared) ==
    /\ Idle(c) /\ WaitedFor(c)
    /\ Track(replay_wait_for_pending_commandbuffer(Tracking, {c}, FALSE))
    /\ recorded' = [recorded EXCEPT ![c] =
          [state |-> state, shared |-> shared, number |-> (recorded[c].number + 1) % 2]]
    /\ scratch' = [scratch EXCEPT ![c] = <<>>]
    /\ UNCHANGED devicevars

replay_pre_vkBeginCommandBuffer(c, shared) ==
    replay_cleanup_commandbuffer_for_rerecord(c, "recording", shared)
replay_pre_vkResetCommandBuffer(c) ==
    /\ recorded[c].state # "initial"
    /\ replay_cleanup_commandbuffer_for_rerecord(c, "initial", recorded[c].shared)
replay_pre_vkFreeCommandBuffers(c) ==
    replay_cleanup_commandbuffer_for_rerecord(c, "freed", recorded[c].shared)

replay_pre_vkResetCommandPool ==
    LET live == {c \in CommandBuffers : recorded[c].state # "freed"}
    IN /\ \A c \in live : Idle(c) /\ WaitedFor(c)
       /\ \E c \in live : recorded[c].state # "initial"
       /\ Track(replay_wait_for_pending_commandbuffer(Tracking, live, FALSE))
       /\ recorded' = [c \in CommandBuffers |->
             IF c \in live
             THEN [state |-> "initial", shared |-> recorded[c].shared, number |-> (recorded[c].number + 1) % 2]
             ELSE recorded[c]]
       /\ scratch' = [c \in CommandBuffers |-> IF c \in live THEN <<>> ELSE scratch[c]]
       /\ UNCHANGED devicevars

vkEndCommandBuffer(c) ==
    /\ recorded[c].state = "recording"
    /\ recorded' = [recorded EXCEPT ![c] =
          [state |-> "executable", shared |-> recorded[c].shared, number |-> recorded[c].number]]
    /\ UNCHANGED <<scratch, devicevars, trackvars>>

\* Where the builds of one call keep their scratch data: where the application
\* says, if replay's sizes still fit there, or in a buffer made for the call.
align_device_size(n) == ((n + ScratchAlignment - 1) \div ScratchAlignment) * ScratchAlignment

Overlap(a, b) == a.first < b.first + b.n /\ b.first < a.first + a.n

replay_can_preserve_as_scratch_addresses(b) ==
    /\ \A i \in DOMAIN b : b[i].n > 0 => b[i].first + b[i].n <= AppScratch
    /\ \A i, j \in DOMAIN b : i < j /\ b[i].n > 0 /\ b[j].n > 0 => ~Overlap(b[i], b[j])

\* Mutant: ranges put one after the other without regard for alignment.
ScratchPlaceUnaligned(b) ==
    LET end[i \in 0 .. Len(b)] == IF i = 0 THEN 0 ELSE IF b[i].n = 0 THEN end[i - 1] ELSE end[i - 1] + b[i].n
    IN [i \in DOMAIN b |-> [first |-> end[i - 1], n |-> b[i].n]]

\* Where each build's range ends: a build that needs no scratch memory is passed over.
ScratchEnds(b) ==
    LET end[i \in 0 .. Len(b)] == IF i = 0 THEN 0
                                  ELSE IF b[i].n = 0 THEN end[i - 1] ELSE align_device_size(end[i - 1]) + b[i].n
    IN end

ScratchPlace(b) == [i \in DOMAIN b |-> [first |-> align_device_size(ScratchEnds(b)[i - 1]), n |-> b[i].n]]

ScratchTotal(b) == ScratchEnds(b)[Len(b)]

replay_pre_vkCmdBuildAccelerationStructuresKHR(c, b) ==
    /\ recorded[c].state = "recording"
    /\ scratch[c] = <<>>
    /\ scratch' = [scratch EXCEPT ![c] =
          IF replay_can_preserve_as_scratch_addresses(b)
          THEN [own |-> FALSE, size |-> AppScratch, at |-> b]
          ELSE [own |-> TRUE, size |-> ScratchTotal(b), at |-> ScratchPlace(b)]]
    /\ UNCHANGED <<recorded, devicevars, trackvars>>

--------------------------------------------------------------------------------
(* Submissions, and the two devices *)

replay_pre_vkQueueSubmit(c, q, f) ==
    LET waited == replay_wait_for_pending_commandbuffer(Tracking, {c}, TRUE)
        s == [cb |-> c, fence |-> f, number |-> recorded[c].number]
    IN /\ submits < MaxSubmits
       /\ recorded[c].state = "executable"
       /\ Running(onCapture, c) => recorded[c].shared
       /\ recorded[c].shared => q \in SharedQueues
       /\ f # NoFence => captureFence[f] = "unsignaled"
       /\ ~recorded[c].shared => WaitedFor(c)
       /\ Track(replay_mark_pending_commandbuffer(waited, c, q, f))
       /\ onCapture' = [onCapture EXCEPT ![q] = Append(@, s)]
       /\ onReplay' = [onReplay EXCEPT ![q] = Append(@, s)]
       /\ captureFence' = [x \in SubmitFences |-> IF x = f THEN "pending" ELSE captureFence[x]]
       /\ replayFence' = [x \in SubmitFences |-> IF x = f THEN "pending" ELSE replayFence[x]]
       /\ observed' = observed \ {f}
       /\ submits' = submits + 1
       /\ UNCHANGED <<recorded, scratch>>

Signal(fences, f) == [x \in SubmitFences |-> IF x = f THEN "signaled" ELSE fences[x]]

CaptureFinishes(q) ==
    /\ onCapture[q] # <<>>
    /\ onCapture' = [onCapture EXCEPT ![q] = Tail(@)]
    /\ captureFence' = Signal(captureFence, Head(onCapture[q]).fence)
    /\ UNCHANGED <<recorded, scratch, onReplay, replayFence, observed, trackvars, submits>>

ReplayFinishes(q) ==
    /\ onReplay[q] # <<>>
    /\ onReplay' = [onReplay EXCEPT ![q] = Tail(@)]
    /\ replayFence' = Signal(replayFence, Head(onReplay[q]).fence)
    /\ UNCHANGED <<recorded, scratch, onCapture, captureFence, observed, trackvars, submits>>

--------------------------------------------------------------------------------
(* Waits. A call that succeeded then is waited for now; one that did not may    *)
(* well succeed now. The layer also tells the application so late               *)
(* (fence_delay_until_frame), which the nondeterminism of the devices includes. *)

Signaled(fences, fs) == {f \in fs : fences[f] = "signaled"}

replay_callback_vkWaitForFences(fs, waitAll, success) ==
    LET enough(fences) == IF waitAll THEN Signaled(fences, fs) = fs ELSE Signaled(fences, fs) # {}
    IN /\ fs # {} /\ \A f \in fs : captureFence[f] # "destroyed"
       /\ success => enough(captureFence) /\ enough(replayFence)
       /\ Track(replay_clear_pending_fence(Tracking, IF waitAll THEN (IF enough(replayFence) THEN fs ELSE {}) ELSE Signaled(replayFence, fs)))
       /\ observed' = IF success /\ (waitAll \/ \E f \in fs : fs = {f}) THEN observed \cup fs ELSE observed
       /\ UNCHANGED <<recorded, scratch, onCapture, onReplay, captureFence, replayFence, submits>>

\* Mutant: the answer of the trace is taken without waiting for it.
replay_callback_vkGetFenceStatusUnwaited(f, success) ==
    /\ captureFence[f] # "destroyed"
    /\ success => captureFence[f] = "signaled"
    /\ Track(replay_clear_pending_fence(Tracking, Signaled(replayFence, {f})))
    /\ observed' = IF success THEN observed \cup {f} ELSE observed
    /\ UNCHANGED <<recorded, scratch, onCapture, onReplay, captureFence, replayFence, submits>>

replay_callback_vkGetFenceStatus(f, success) ==
    /\ captureFence[f] # "destroyed"
    /\ success => captureFence[f] = "signaled" /\ replayFence[f] = "signaled"
    /\ Track(replay_clear_pending_fence(Tracking, Signaled(replayFence, {f})))
    /\ observed' = IF success THEN observed \cup {f} ELSE observed
    /\ UNCHANGED <<recorded, scratch, onCapture, onReplay, captureFence, replayFence, submits>>

replay_callback_vkQueueWaitIdle(q) ==
    /\ onCapture[q] = <<>> /\ onReplay[q] = <<>>
    /\ Track(replay_clear_pending_commandbuffer(Tracking, {c \in pending : submitQueue[c] = q}))
    /\ UNCHANGED <<recorded, scratch, devicevars>>

replay_callback_vkDeviceWaitIdle ==
    /\ \A q \in SubmitQueues : onCapture[q] = <<>> /\ onReplay[q] = <<>>
    /\ Track(replay_clear_pending_commandbuffer(Tracking, pending))
    /\ observed' = observed \cup Signaled(captureFence, SubmitFences)
    /\ UNCHANGED <<recorded, scratch, onCapture, onReplay, captureFence, replayFence, submits>>

\* A fence is reset or destroyed once the application has seen it signaled.
Settled(f) == captureFence[f] = "signaled" /\ f \in observed

replay_callback_vkResetFences(f) ==
    /\ Settled(f)
    /\ Track(replay_clear_pending_fence(Tracking, {f}))
    /\ captureFence' = [captureFence EXCEPT ![f] = "unsignaled"]
    /\ replayFence' = [replayFence EXCEPT ![f] = "unsignaled"]
    /\ observed' = observed \ {f}
    /\ UNCHANGED <<recorded, scratch, onCapture, onReplay, submits>>

vkDestroyFence(f) ==
    /\ Settled(f)
    /\ captureFence' = [captureFence EXCEPT ![f] = "destroyed"]
    /\ replayFence' = [replayFence EXCEPT ![f] = "destroyed"]
    /\ UNCHANGED <<recorded, scratch, onCapture, onReplay, observed, trackvars, submits>>

CbNext ==
    \/ \E c \in CommandBuffers :
          \/ \E shared \in BOOLEAN : replay_pre_vkBeginCommandBuffer(c, shared)
          \/ replay_pre_vkResetCommandBuffer(c)
          \/ replay_pre_vkFreeCommandBuffers(c)
          \/ vkEndCommandBuffer(c)
          \/ \E b \in Builds : replay_pre_vkCmdBuildAccelerationStructuresKHR(c, b)
          \/ \E q \in SubmitQueues : \E f \in SubmitFences \cup {NoFence} : replay_pre_vkQueueSubmit(c, q, f)
    \/ replay_pre_vkResetCommandPool
    \/ \E q \in SubmitQueues : CaptureFinishes(q) \/ ReplayFinishes(q) \/ replay_callback_vkQueueWaitIdle(q)
    \/ \E fs \in SUBSET SubmitFences : \E waitAll, success \in BOOLEAN : replay_callback_vkWaitForFences(fs, waitAll, success)
    \/ \E f \in SubmitFences :
          \/ \E success \in BOOLEAN : replay_callback_vkGetFenceStatus(f, success)
          \/ replay_callback_vkResetFences(f) \/ vkDestroyFence(f)
    \/ replay_callback_vkDeviceWaitIdle

CbSpec == CbInit /\ [][CbNext]_cbvars

--------------------------------------------------------------------------------
(* Properties *)

\* Whatever the two devices' speeds, the replaying device only runs a command
\* buffer as it was recorded when it was submitted: it is not begun, reset, freed
\* or its scratch buffers destroyed while a submission of it runs, and only a
\* SIMULTANEOUS_USE command buffer runs more than once at a time.
RunsAsSubmitted ==
    \A q \in SubmitQueues : \A i \in DOMAIN onReplay[q] :
        LET s == onReplay[q][i] IN
        /\ recorded[s.cb].state = "executable" /\ recorded[s.cb].number = s.number
        /\ \A p \in SubmitQueues : \A j \in DOMAIN onReplay[p] :
              onReplay[p][j].cb = s.cb /\ <<p, j>> # <<q, i>> => recorded[s.cb].shared

\* A command buffer that runs is marked pending with the fence or the queue of its
\* last submission, so the wait before its next use is for that submission; a
\* fence's list and the command buffers' own records never disagree.
PendingTracked ==
    /\ \A q \in SubmitQueues : \A i \in DOMAIN onReplay[q] :
          LET s == onReplay[q][i]
              last == ~\E p \in SubmitQueues : \E j \in DOMAIN onReplay[p] :
                          onReplay[p][j].cb = s.cb /\ (p # q \/ j > i)
          IN last => s.cb \in pending /\ submitQueue[s.cb] = q /\ submitFence[s.cb] = s.fence
    /\ \A c \in CommandBuffers : \A f \in SubmitFences :
          replayFence[f] # "destroyed" => (c \in fencePending[f] <=> submitFence[c] = f)

\* A fence of the replaying device is given to one running submission at a time
\* and is not reset under it.
FencesFree ==
    \A f \in SubmitFences :
        LET Uses(q, i) == i \in DOMAIN onReplay[q] /\ onReplay[q][i].fence = f
        IN /\ \A p, q \in SubmitQueues : \A i \in DOMAIN onReplay[p], j \in DOMAIN onReplay[q] :
                 Uses(p, i) /\ Uses(q, j) => p = q /\ i = j
           /\ (\E q \in SubmitQueues : \E i \in DOMAIN onReplay[q] : Uses(q, i)) <=> replayFence[f] = "pending"

\* A slower replaying device never makes a valid trace invalid: command buffers and
\* fences are reused only when its own submissions are over
\* (replay_wait_for_pending_commandbuffer, replay_callback_vkGetFenceStatus).
ReplayedSafely == RunsAsSubmitted /\ PendingTracked /\ FencesFree

\* The builds of one call never share scratch memory, stay inside the buffer they
\* are given, and are aligned in a buffer that replay made.
ScratchSeparate ==
    \A c \in CommandBuffers : scratch[c] # <<>> =>
        LET at == scratch[c].at IN
        \A i \in DOMAIN at : at[i].n > 0 =>
            /\ at[i].first + at[i].n <= scratch[c].size
            /\ scratch[c].own => at[i].first % ScratchAlignment = 0
            /\ \A j \in DOMAIN at : j # i /\ at[j].n > 0 => ~Overlap(at[i], at[j])
================================================================================
