---------------------------- MODULE CaptureReplay ----------------------------
(***************************************************************************)
(* A capture followed by a replay of what it wrote.  The properties say    *)
(* that the replay keeps the orders of the captured run that its driver    *)
(* calls depend on, whatever the scheduling of either.                     *)
(***************************************************************************)
EXTENDS CaptureSync, ReplaySync

VARIABLE phase     \* "capture", then "replay"

vars == <<captureVars, replayVars, phase>>

Init == CaptureInit /\ ReplayInit /\ phase = "capture"

Capture == phase = "capture" /\ CaptureNext /\ UNCHANGED <<replayVars, phase>>

Finish ==
  /\ phase = "capture"
  /\ FinishCapture
  /\ phase' = "replay"
  /\ UNCHANGED replayVars

ReplayBy(t) == phase = "replay" /\ ReplayThread(t) /\ UNCHANGED <<captureVars, phase>>
Fail(t)     == phase = "replay" /\ ReplayFails(t) /\ UNCHANGED <<captureVars, phase>>
Stop        == phase = "replay" /\ ~Terminated /\ request_stop /\ UNCHANGED <<captureVars, phase>>

\* Nothing is left to do once every replay thread has terminated.
Done == phase = "replay" /\ Terminated /\ UNCHANGED vars

Next == \/ Capture
        \/ Finish
        \/ \E t \in Threads : ReplayBy(t) \/ Fail(t)
        \/ Stop
        \/ Done

(***************************************************************************)
(* A replay thread keeps running while it can: the operating system does   *)
(* not starve it, and its spin loops re-read what they wait for.           *)
(***************************************************************************)
Spec == Init /\ [][Next]_vars /\ \A t \in Threads : WF_vars(ReplayBy(t))
-----------------------------------------------------------------------------
TypeOK == CaptureTypeOK /\ ReplayTypeOK /\ phase \in {"capture", "replay"}

\* Replay threads about to make the driver's call of a packet.
Executing == {t \in Threads : phase = "replay" /\ rpc[t] = "execute"}

(***************************************************************************)
(* Packet number k of thread i, written by a call that had returned when   *)
(* the call that wrote packet p was made; and whether it is complete now.  *)
(***************************************************************************)
Earlier(p, i)   == 0 .. p.seen[i] - 1
Written(i, k)   == trace[i][k + 1]
Complete(i, k)  == completed[i] > k

(***************************************************************************)
(* The replayer hands the driver an object only while the object exists:   *)
(* after the packet that creates it and before the one that destroys it.   *)
(* Creation is ordered by read_handle, destruction by the local barrier.   *)
(***************************************************************************)
UsedWhileAlive ==
  \A t \in Executing :
    LET p == OpenPacket(t)
    IN p.obj # NoObject =>
         robj[p.obj] = IF p.kind = "create" THEN "uninitialized" ELSE "created"

(***************************************************************************)
(* A destroy, reset, present or submit starts only after everything any    *)
(* thread had returned from when the application made that call            *)
(* (write_header's local barrier, read_barrier).                           *)
(***************************************************************************)
LocalBarrierOrder ==
  \A t \in Executing :
    LET p == OpenPacket(t)
    IN p.type = "call" /\ HasLocalBarrier(p.kind) =>
         \A i \in Threads : \A k \in Earlier(p, i) : Complete(i, k)

(***************************************************************************)
(* A command that names an object starts only after every earlier command  *)
(* that created or touched it is complete (write_handle, read_handle).     *)
(***************************************************************************)
TouchOrder ==
  \A t \in Executing :
    LET p == OpenPacket(t)
    IN p.obj # NoObject =>
         \A i \in Threads : \A k \in Earlier(p, i) :
           LET q == Written(i, k)
           IN q.obj = p.obj /\ (Touches(q.kind) \/ q.kind = "create") => Complete(i, k)

(***************************************************************************)
(* A barrier in the stream of t, before packet number n, that was written  *)
(* while packet k was the open packet of thread i.                         *)
(***************************************************************************)
WrittenDuring(t, n, i, k) ==
  \E j \in 1 .. n : /\ trace[t][j].type = "barrier"
                    /\ i < trace[t][j].size
                    /\ trace[t][j].at[i] = k

(***************************************************************************)
(* A command called after a push-barrier command returned starts after     *)
(* that command is complete, unless the calling thread had written a       *)
(* barrier while it was still the open packet of its stream: only such a   *)
(* barrier can use up the request without waiting for the command.         *)
(***************************************************************************)
PushBarrierOrder ==
  \A t \in Executing :
    LET p == OpenPacket(t)
    IN p.type = "call" =>
         \A i \in Threads : \A k \in Earlier(p, i) :
           HasPushBarrier(Written(i, k).kind) =>
             Complete(i, k) \/ WrittenDuring(t, completed[t], i, k)

(***************************************************************************)
(* doc/Multithreading.md of push barriers: they prevent the next commands  *)
(* of the other threads from starting before the command that issued them  *)
(* has completed on replay.                                                *)
(***************************************************************************)
PushBarrierHolds ==
  \A t \in Executing :
    LET p == OpenPacket(t)
    IN p.type = "call" =>
         \A i \in Threads : \A k \in Earlier(p, i) :
           HasPushBarrier(Written(i, k).kind) => Complete(i, k)

(***************************************************************************)
(* No replay thread waits for ever: the waits that the capture wrote into  *)
(* the streams are never circular, and a stop releases every waiting       *)
(* thread.                                                                 *)
(***************************************************************************)
ReplayTerminates == (phase = "replay") ~> Terminated
=============================================================================
