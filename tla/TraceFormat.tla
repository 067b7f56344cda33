----------------------------- MODULE TraceFormat -----------------------------
(***************************************************************************)
(* What one capture leaves for the replayer: a stream of packets per       *)
(* thread.  A packet carries the two ordering devices of the file format:  *)
(* a handle, stored with the place where its object was last touched, and  *)
(* a thread barrier, stored as the position of every stream.               *)
(***************************************************************************)
EXTENDS Integers, Sequences

CONSTANTS NumThreads,   \* threads of the traced application
          Objects       \* Vulkan objects, each one created at most once

ASSUME NumThreadsAssumption == NumThreads \in Nat \ {0}

Threads == 0 .. NumThreads - 1

NoObject == "no object"
ASSUME NoObjectAssumption == NoObject \notin Objects

VARIABLE trace          \* trace[t]: the finished packets of thread t

(***************************************************************************)
(* The commands are told apart by what the generator's tables say of them. *)
(*   create   creates the object and writes its handle after the call      *)
(*   use      reads an object that needs no external synchronization       *)
(*   touch    uses an externally synchronized object                       *)
(*   destroy  vkDestroy*, vkFree*                                          *)
(*   submit   vkQueueSubmit*: host memory updates go into the stream first *)
(*   wait     vkWaitForFences, vkGetFenceStatus with VK_SUCCESS            *)
(*   reset    vkResetCommandPool, vkResetDescriptorPool, vkResetQueryPool  *)
(*   present  vkQueuePresentKHR, vkFrameBoundaryANDROID                    *)
(*   sync     vkSyncBufferTRACETOOLTEST                                    *)
(***************************************************************************)
AllKinds == {"create", "use", "touch", "destroy", "submit", "wait", "reset", "present", "sync"}

\* Mutation of HasLocalBarrier: the destroy commands are missing from the table.
HasLocalBarrierButDestroy(k) == k \in {"submit", "reset", "present"}

HasLocalBarrier(k) == k \in {"destroy", "submit", "reset", "present"}
HasPushBarrier(k)  == k \in {"wait", "reset", "present"}
Touches(k)         == k \in {"touch", "destroy", "submit", "reset", "present"}
HasExtraSync(k)    == k \in {"submit", "present"}

\* Where an object was last touched; thread -1 asks for no wait.
Place   == [thread : Threads \cup {-1}, packet : Nat]
NoPlace == [thread |-> -1, packet |-> 0]

(***************************************************************************)
(* seen is a history field that no action of the replayer reads: how many  *)
(* packets of each thread belonged to calls that had already returned to   *)
(* the application when the call that wrote this packet was made.          *)
(***************************************************************************)
NoPositions == [t \in Threads |-> 0]

Packet == [type : {"barrier", "update", "call"},
           kind : AllKinds \cup {"none"},
           obj  : Objects \cup {NoObject},
           req  : Place,
           size : 0 .. NumThreads,      \* streams a barrier waits for
           at   : [Threads -> Nat],     \* and their positions
           seen : [Threads -> Nat]]

BarrierPacket(size, at, seen) ==
  [type |-> "barrier", kind |-> "none", obj |-> NoObject, req |-> NoPlace,
   size |-> size, at |-> at, seen |-> seen]

UpdatePacket(o, place, seen) ==
  [type |-> "update", kind |-> "use", obj |-> o, req |-> place,
   size |-> 0, at |-> NoPositions, seen |-> seen]

CallPacket(k, o, place, seen) ==
  [type |-> "call", kind |-> k, obj |-> o, req |-> place,
   size |-> 0, at |-> NoPositions, seen |-> seen]
=============================================================================
