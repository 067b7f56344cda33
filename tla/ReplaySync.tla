------------------------------ MODULE ReplaySync ------------------------------
(***************************************************************************)
(* The replayer: one thread per stream, each stepping through its packets. *)
(* thread_packet_numbers is the only thing the threads share; a handle and *)
(* a barrier make a thread spin on it.                                     *)
(***************************************************************************)
EXTENDS TraceFormat

VARIABLES
  completed,   \* thread_packet_numbers: packets each thread has completed
  rpc,         \* where each replay thread stands
  packetOpen,  \* current_packet_open
  waitIndex,   \* the stream read_barrier is waiting for
  robj,        \* what the replay driver holds for each object
  stop         \* mStopRequested

replayVars == <<completed, rpc, packetOpen, waitIndex, robj, stop>>

ReplayInit ==
  /\ completed = [t \in Threads |-> 0]
  /\ rpc = [t \in Threads |-> "step"]
  /\ packetOpen = [t \in Threads |-> FALSE]
  /\ waitIndex = [t \in Threads |-> 0]
  /\ robj = [o \in Objects |-> "uninitialized"]
  /\ stop = FALSE

\* The packet a thread has open, and the barrier it has completed and stands at.
OpenPacket(t) == trace[t][completed[t] + 1]
LastBarrier(t) == trace[t][completed[t]]

complete_packet(t) == IF packetOpen[t] THEN [completed EXCEPT ![t] = @ + 1] ELSE completed

step(t) ==
  /\ rpc[t] = "step"
  /\ completed' = complete_packet(t)
  /\ IF stop \/ completed'[t] = Len(trace[t])
     THEN /\ packetOpen' = [packetOpen EXCEPT ![t] = FALSE]
          /\ rpc' = [rpc EXCEPT ![t] = "terminated"]
     ELSE /\ packetOpen' = [packetOpen EXCEPT ![t] = TRUE]
          /\ rpc' = [rpc EXCEPT ![t] = IF trace[t][completed'[t] + 1].type = "barrier"
                                       THEN "barrier" ELSE "handle"]
  /\ UNCHANGED <<waitIndex, robj, stop>>

\* read_barrier completes its own packet before it waits for anyone.
EnterBarrier(t) ==
  /\ rpc[t] = "barrier"
  /\ completed' = complete_packet(t)
  /\ packetOpen' = [packetOpen EXCEPT ![t] = FALSE]
  /\ waitIndex' = [waitIndex EXCEPT ![t] = 0]
  /\ rpc' = [rpc EXCEPT ![t] = "waiting"]
  /\ UNCHANGED <<robj, stop>>

\* Mutations of MustWaitFor: one packet too few, and one too many, is waited for.
WaitsTooShort(t, i) == i # t /\ LastBarrier(t).at[i] > completed[i] + 1
WaitsTooLong(t, i)  == i # t /\ LastBarrier(t).at[i] >= completed[i]

MustWaitFor(t, i) == i # t /\ LastBarrier(t).at[i] > completed[i]

PassBarrier(t) ==
  LET i == waitIndex[t]
  IN /\ rpc[t] = "waiting"
     /\ \/ /\ i < LastBarrier(t).size
           /\ ~MustWaitFor(t, i)
           /\ waitIndex' = [waitIndex EXCEPT ![t] = i + 1]
           /\ UNCHANGED rpc
        \/ /\ i = LastBarrier(t).size
           /\ rpc' = [rpc EXCEPT ![t] = "step"]
           /\ UNCHANGED waitIndex
     /\ UNCHANGED <<completed, packetOpen, robj, stop>>

\* Mutation of MustWaitForHandle: the packet that last touched the object may still be running.
HandleWaitsTooShort(t) ==
  LET r == OpenPacket(t).req
  IN r.thread \notin {-1, t} /\ r.packet > completed[r.thread]

MustWaitForHandle(t) ==
  LET r == OpenPacket(t).req
  IN r.thread \notin {-1, t} /\ r.packet >= completed[r.thread]

read_handle(t) ==
  /\ rpc[t] = "handle"
  /\ ~MustWaitForHandle(t)
  /\ rpc' = [rpc EXCEPT ![t] = "execute"]
  /\ UNCHANGED <<completed, packetOpen, waitIndex, robj, stop>>

\* Both spin loops leave by throwing once a stop has been requested.
StopWhileWaiting(t) ==
  /\ stop
  /\ \/ rpc[t] = "handle" /\ MustWaitForHandle(t)
     \/ rpc[t] = "waiting" /\ waitIndex[t] < LastBarrier(t).size /\ MustWaitFor(t, waitIndex[t])
  /\ rpc' = [rpc EXCEPT ![t] = "terminated"]
  /\ UNCHANGED <<completed, packetOpen, waitIndex, robj, stop>>

\* The driver's call and the tracking after it.
Replay(t) ==
  LET p == OpenPacket(t)
  IN /\ rpc[t] = "execute"
     /\ robj' = CASE p.obj = NoObject     -> robj
                  [] p.kind = "create"    -> [robj EXCEPT ![p.obj] = "created"]
                  [] p.kind = "destroy"   -> [robj EXCEPT ![p.obj] = "destroyed"]
                  [] OTHER                -> robj
     /\ rpc' = [rpc EXCEPT ![t] = "step"]
     /\ UNCHANGED <<completed, packetOpen, waitIndex, stop>>

\* A command this device cannot replay: the replay is stopped and the call thrown out of.
ReplayFails(t) ==
  /\ rpc[t] = "execute"
  /\ stop' = TRUE
  /\ rpc' = [rpc EXCEPT ![t] = "terminated"]
  /\ UNCHANGED <<completed, packetOpen, waitIndex, robj>>

ReplayThread(t) ==
  step(t) \/ EnterBarrier(t) \/ PassBarrier(t) \/ read_handle(t) \/ StopWhileWaiting(t) \/ Replay(t)

\* request_stop from the command-line service, at any time.
request_stop ==
  /\ ~stop
  /\ stop' = TRUE
  /\ UNCHANGED <<completed, rpc, packetOpen, waitIndex, robj>>

Terminated == \A t \in Threads : rpc[t] = "terminated"

ReplayTypeOK ==
  /\ completed \in [Threads -> Nat]
  /\ rpc \in [Threads -> {"step", "barrier", "waiting", "handle", "execute", "terminated"}]
  /\ packetOpen \in [Threads -> BOOLEAN]
  /\ waitIndex \in [Threads -> 0 .. NumThreads]
  /\ robj \in [Objects -> {"uninitialized", "created", "destroyed"}]
  /\ stop \in BOOLEAN
=============================================================================
