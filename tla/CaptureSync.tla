----------------------------- MODULE CaptureSync -----------------------------
(***************************************************************************)
(* The tracing layer of lavatube, seen as the threads of the application   *)
(* going through the generated wrappers.  The application is bound only by *)
(* Vulkan's external synchronization rule; everything that orders the      *)
(* replay must come from what the wrappers write into the streams.         *)
(***************************************************************************)
EXTENDS TraceFormat

CONSTANTS Kinds,      \* the commands the application calls
          MaxCalls    \* bound: calls made by the whole application

ASSUME KindsAssumption == Kinds \subseteq AllKinds
ASSUME MaxCallsAssumption == MaxCalls \in Nat

VARIABLES
  nstreams,    \* thread_streams.size(): streams are numbered as they are made
  pc,          \* where each thread stands in its wrapper
  call,        \* the call each thread is in
  open,        \* the packet each stream has begun and not ended
  found,       \* positions collected so far by inject_thread_barrier
  pending,     \* pending_barrier of each stream
  frameMutex,  \* the thread holding frame_mutex
  lastModified,\* last_modified of each object
  state,       \* trackable::state of each object
  calls        \* calls made so far (bounded by MaxCalls)

captureVars == <<trace, nstreams, pc, call, open, found, pending, frameMutex,
                 lastModified, state, calls>>

Free     == -1
NoPacket == [type |-> "none"]

NoCall == [kind |-> "none", obj |-> NoObject, upd |-> NoObject,
           seen |-> [t \in Threads |-> 0]]

\* current.packet of a stream: the number of packets it has ended.
CurrentPacket(t) == Len(trace[t])

\* Mutation of Here: the number of streams is stored instead of the thread's own.
HereByCount(t) == [thread |-> nstreams, packet |-> CurrentPacket(t)]

Here(t) == [thread |-> t, packet |-> CurrentPacket(t)]

InCall(t) == pc[t] # "idle"

(***************************************************************************)
(* Packets of t whose wrapper has returned.  A packet left open by its     *)
(* wrapper has been returned from although the stream has not ended it.    *)
(***************************************************************************)
Returned(t) == CurrentPacket(t) + IF ~InCall(t) /\ open[t] # NoPacket THEN 1 ELSE 0

\* begin_packet first ends whatever packet is still open.
Ended(t) == IF open[t] = NoPacket THEN trace[t] ELSE Append(trace[t], open[t])

CaptureInit ==
  /\ trace = [t \in Threads |-> <<>>]
  /\ nstreams = 0
  /\ pc = [t \in Threads |-> "idle"]
  /\ call = [t \in Threads |-> NoCall]
  /\ open = [t \in Threads |-> NoPacket]
  /\ found = [t \in Threads |-> <<>>]
  /\ pending = [t \in Threads |-> FALSE]
  /\ frameMutex = Free
  /\ lastModified = [o \in Objects |-> NoPlace]
  /\ state = [o \in Objects |-> "uninitialized"]
  /\ calls = 0
-----------------------------------------------------------------------------
(***************************************************************************)
(* The application.                                                        *)
(***************************************************************************)

\* The calls in flight on other threads that involve object o.
Users(t, o)    == {u \in Threads \ {t} : InCall(u) /\ o \in {call[u].obj, call[u].upd}}
Touchers(t, o) == {u \in Threads \ {t} : InCall(u) /\ o = call[u].obj
                                          /\ (Touches(call[u].kind) \/ call[u].kind = "create")}

(***************************************************************************)
(* External synchronization: an object is used only between its creation   *)
(* and its destruction, and a thread that touches it is alone with it.     *)
(***************************************************************************)
MayCall(t, k, o, u) ==
  /\ IF k = "create"
     THEN state[o] = "uninitialized" /\ Users(t, o) = {}
     ELSE /\ state[o] = "created"
          /\ IF Touches(k) THEN Users(t, o) = {} ELSE Touchers(t, o) = {}
  /\ CASE k = "submit" -> \/ u = NoObject
                          \/ u \in Objects \ {o} /\ state[u] = "created" /\ Touchers(t, u) = {}
       [] k = "sync"   -> u = o
       [] OTHER        -> u = NoObject

\* Where a thread goes once it has its stream: trace_pre_*, then write_header.
AfterPre(k)   == IF HasLocalBarrier(k) THEN "header" ELSE "command"
AfterBind(c)  == IF c.upd # NoObject THEN "pre" ELSE AfterPre(c.kind)

Call(t) ==
  /\ pc[t] = "idle"
  /\ calls < MaxCalls
  /\ \E k \in Kinds, o \in Objects, u \in Objects \cup {NoObject} :
       /\ MayCall(t, k, o, u)
       /\ call' = [call EXCEPT ![t] = [kind |-> k, obj |-> o, upd |-> u,
                                       seen |-> [i \in Threads |-> Returned(i)]]]
       /\ \/ /\ t < nstreams
             /\ pc' = [pc EXCEPT ![t] = AfterBind(call'[t])]
             /\ UNCHANGED frameMutex
          \/ /\ t = nstreams               \* file_writer() finds no stream
             /\ frameMutex = Free
             /\ frameMutex' = t
             /\ pc' = [pc EXCEPT ![t] = "join"]
  /\ calls' = calls + 1
  /\ UNCHANGED <<trace, nstreams, open, found, pending, lastModified, state>>
-----------------------------------------------------------------------------
(***************************************************************************)
(* inject_thread_barrier runs with frame_mutex held, but the positions it  *)
(* collects belong to threads that advance without it.                     *)
(***************************************************************************)
CollectPosition(t) ==
  /\ pc[t] \in {"join", "local", "pushed"}
  /\ Len(found[t]) < nstreams
  /\ found' = [found EXCEPT ![t] = Append(@, CurrentPacket(Len(@)))]
  /\ UNCHANGED <<trace, nstreams, pc, call, open, pending, frameMutex,
                 lastModified, state, calls>>

write_thread_barrier(t) ==
  /\ Len(found[t]) = nstreams
  /\ trace' = [trace EXCEPT ![t] =
                 Append(Ended(t),
                        BarrierPacket(nstreams,
                                      [i \in Threads |-> IF i < nstreams THEN found[t][i + 1] ELSE 0],
                                      call[t].seen))]
  /\ open' = [open EXCEPT ![t] = NoPacket]
  /\ found' = [found EXCEPT ![t] = <<>>]
  /\ frameMutex' = Free
  /\ UNCHANGED <<call, lastModified, state, calls>>

make_writer(t) ==
  /\ pc[t] = "join"
  /\ write_thread_barrier(t)
  /\ nstreams' = nstreams + 1
  /\ pc' = [pc EXCEPT ![t] = AfterBind(call[t])]
  /\ UNCHANGED pending

LocalBarrier(t) ==
  /\ pc[t] = "local"
  /\ write_thread_barrier(t)
  /\ pc' = [pc EXCEPT ![t] = "command"]
  /\ UNCHANGED <<nstreams, pending>>

PendingBarrier(t) ==
  /\ pc[t] = "pushed"
  /\ write_thread_barrier(t)
  /\ pending' = [pending EXCEPT ![t] = FALSE]
  /\ pc' = [pc EXCEPT ![t] = "begin"]
  /\ UNCHANGED nstreams
-----------------------------------------------------------------------------
(***************************************************************************)
(* The wrapper.                                                            *)
(***************************************************************************)

\* trace_pre_vkQueueSubmit: changed host memory goes out as an update packet.
BeginUpdate(t) ==
  /\ pc[t] = "pre"
  /\ trace' = [trace EXCEPT ![t] = Ended(t)]
  /\ open' = [open EXCEPT ![t] = UpdatePacket(call[t].upd, lastModified[call[t].upd], call[t].seen)]
  /\ pc' = [pc EXCEPT ![t] = "update"]
  /\ UNCHANGED <<nstreams, call, found, pending, frameMutex, lastModified, state, calls>>

EndUpdate(t) ==
  /\ pc[t] = "update"
  /\ trace' = [trace EXCEPT ![t] = Ended(t)]
  /\ open' = [open EXCEPT ![t] = NoPacket]
  /\ pc' = [pc EXCEPT ![t] = AfterPre(call[t].kind)]
  /\ UNCHANGED <<nstreams, call, found, pending, frameMutex, lastModified, state, calls>>

write_header(t) ==
  /\ pc[t] = "header"
  /\ frameMutex = Free
  /\ frameMutex' = t
  /\ pc' = [pc EXCEPT ![t] = "local"]
  /\ UNCHANGED <<trace, nstreams, call, open, found, pending, lastModified, state, calls>>

\* Mutation of write_api_command: a pending barrier is not looked at.
CommandIgnoresPending(t) ==
  /\ pc[t] = "command"
  /\ pc' = [pc EXCEPT ![t] = "begin"]
  /\ UNCHANGED <<trace, nstreams, call, open, found, pending, frameMutex, lastModified, state, calls>>

write_api_command(t) ==
  /\ pc[t] = "command"
  /\ IF pending[t]
     THEN frameMutex = Free /\ frameMutex' = t /\ pc' = [pc EXCEPT ![t] = "pushed"]
     ELSE pc' = [pc EXCEPT ![t] = "begin"] /\ UNCHANGED frameMutex
  /\ UNCHANGED <<trace, nstreams, call, open, found, pending, lastModified, state, calls>>

(***************************************************************************)
(* begin_packet and the parameters that go in: write_handle stores where   *)
(* the object was last touched; touching it moves that place here.  A      *)
(* created object has no handle yet.                                       *)
(***************************************************************************)
BeginCall(t) ==
  LET c == call[t]
  IN /\ pc[t] = "begin"
     /\ trace' = [trace EXCEPT ![t] = Ended(t)]
     /\ open' = [open EXCEPT ![t] =
                   CallPacket(c.kind, c.obj,
                              IF c.kind = "create" THEN NoPlace ELSE lastModified[c.obj],
                              c.seen)]
     /\ lastModified' = IF Touches(c.kind)
                        THEN [lastModified EXCEPT ![c.obj] =
                                [thread |-> t, packet |-> Len(trace'[t])]]
                        ELSE lastModified
     /\ pc' = [pc EXCEPT ![t] = "execute"]
     /\ UNCHANGED <<nstreams, call, found, pending, frameMutex, state, calls>>

AfterExecute(k) == CASE k = "sync" -> "leave" [] HasPushBarrier(k) -> "push" [] OTHER -> "end"

(***************************************************************************)
(* The driver's call and the bookkeeping after it.  vkQueueSubmit and its  *)
(* like hold frame_mutex around the driver's call.                         *)
(***************************************************************************)
Execute(t) ==
  LET c == call[t]
  IN /\ pc[t] = "execute"
     /\ HasExtraSync(c.kind) => frameMutex = Free
     /\ IF c.kind = "create"
        THEN \/ /\ state' = [state EXCEPT ![c.obj] = "created"]
                /\ lastModified' = [lastModified EXCEPT ![c.obj] = Here(t)]
                /\ open' = [open EXCEPT ![t].req = Here(t)]
             \/ /\ open' = [open EXCEPT ![t].obj = NoObject]      \* the driver refused
                /\ UNCHANGED <<state, lastModified>>
        ELSE /\ state' = IF c.kind = "destroy" THEN [state EXCEPT ![c.obj] = "destroyed"]
                                               ELSE state
             /\ UNCHANGED <<lastModified, open>>
     /\ pc' = [pc EXCEPT ![t] = AfterExecute(c.kind)]
     /\ UNCHANGED <<trace, nstreams, call, found, pending, frameMutex, calls>>

\* The generated wrapper pushes its barriers and only then ends its packet.
push_thread_barriers(t) ==
  /\ pc[t] = "push"
  /\ frameMutex = Free
  /\ pending' = [i \in Threads |-> pending[i] \/ (i < nstreams /\ i # t)]
  /\ pc' = [pc EXCEPT ![t] = "end"]
  /\ UNCHANGED <<trace, nstreams, call, open, found, frameMutex, lastModified, state, calls>>

end_packet(t) ==
  /\ pc[t] = "end"
  /\ trace' = [trace EXCEPT ![t] = Ended(t)]
  /\ open' = [open EXCEPT ![t] = NoPacket]
  /\ pc' = [pc EXCEPT ![t] = "idle"]
  /\ call' = [call EXCEPT ![t] = NoCall]
  /\ UNCHANGED <<nstreams, found, pending, frameMutex, lastModified, state, calls>>

\* trace_vkSyncBufferTRACETOOLTEST returns without ending its packet.
LeaveOpen(t) ==
  /\ pc[t] = "leave"
  /\ pc' = [pc EXCEPT ![t] = "idle"]
  /\ call' = [call EXCEPT ![t] = NoCall]
  /\ UNCHANGED <<trace, nstreams, open, found, pending, frameMutex, lastModified, state, calls>>

CaptureStep(t) ==
  \/ Call(t) \/ CollectPosition(t) \/ make_writer(t) \/ LocalBarrier(t) \/ PendingBarrier(t)
  \/ BeginUpdate(t) \/ EndUpdate(t) \/ write_header(t) \/ write_api_command(t)
  \/ BeginCall(t) \/ Execute(t) \/ push_thread_barriers(t) \/ end_packet(t) \/ LeaveOpen(t)

CaptureNext == \E t \in Threads : CaptureStep(t)

CaptureIdle == \A t \in Threads : ~InCall(t)

\* finish() deletes the streams; the destructor ends a packet still open.
FinishCapture ==
  /\ CaptureIdle
  /\ trace' = [t \in Threads |-> Ended(t)]
  /\ open' = [t \in Threads |-> NoPacket]
  /\ UNCHANGED <<nstreams, pc, call, found, pending, frameMutex, lastModified, state, calls>>
-----------------------------------------------------------------------------
PcValues == {"idle", "join", "pre", "update", "header", "local", "command", "pushed",
             "begin", "execute", "push", "end", "leave"}

CaptureTypeOK ==
  /\ trace \in [Threads -> Seq(Packet)]
  /\ nstreams \in 0 .. NumThreads
  /\ pc \in [Threads -> PcValues]
  /\ call \in [Threads -> [kind : AllKinds \cup {"none"}, obj : Objects \cup {NoObject},
                           upd : Objects \cup {NoObject}, seen : [Threads -> Nat]]]
  /\ open \in [Threads -> Packet \cup {NoPacket}]
  /\ found \in [Threads -> Seq(Nat)]
  /\ pending \in [Threads -> BOOLEAN]
  /\ frameMutex \in Threads \cup {Free}
  /\ lastModified \in [Objects -> Place]
  /\ state \in [Objects -> {"uninitialized", "created", "destroyed"}]
  /\ calls \in 0 .. MaxCalls
=============================================================================
