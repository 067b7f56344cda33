--------------------------- MODULE ServiceControl ---------------------------
(***************************************************************************)
(* The replay service: replay threads that pause for lava-cli, the client  *)
(* threads that carry out its commands, the stop command and the main      *)
(* thread (src/replay.cpp, check_cli and the waits of src/read.h, the      *)
(* deadlock report of src/replay_diagnostics.cpp).                         *)
(*                                                                         *)
(* All of them share atomics and no lock: an action reads what it decides  *)
(* on, and a store that others act on is an action of its own.  At most    *)
(* one control command is carried out at a time (cli_command_active); stop *)
(* and the deadlock report are let past it.  A command that is refused     *)
(* answers ERROR and changes nothing, so only the accepted ones are here.  *)
(***************************************************************************)
EXTENDS Integers, Sequences, FiniteSets

CONSTANTS
    Threads,      \* the trace's threads, 0 .. n-1
    Traces,       \* the traces: for each thread its packets, in order
    Commands,     \* the commands the user gives
    MaxCommands   \* bound: commands given in one behaviour

UINT32_MAX == 99

ASSUME ThreadsAssumption == IsFiniteSet(Threads) /\ Threads = 0 .. Cardinality(Threads) - 1 /\ 0 \in Threads

\* A packet names the thread it waits for and how many packets of it; itself where it waits for none.
ASSUME TracesAssumption ==
    Traces \subseteq [Threads -> Seq([type : {"call", "barrier", "other"}, id : STRING,
                                     on : Threads, count : Nat, gpu : BOOLEAN])]

VARIABLES
    Trace,         \* the trace being replayed
    rd,            \* the lava_file_reader of each thread, and where its thread is
    cli_running, cli_thread, cli_isolate_thread,
    request,       \* the requests the paused thread serves: parameters, instrument
    replay_done,
    main,          \* where main() is
    stop,          \* where the stop command is
    cmd,           \* the command that holds cli_command_active, and how far its thread was
    resp,          \* the last response and what it reported
    given,         \* commands given so far
    diag           \* the deadlock report

vars == <<Trace, rd, cli_running, cli_thread, cli_isolate_thread, request, replay_done,
          main, stop, cmd, resp, given, diag>>

\* What a step of a replay thread leaves alone.
service == <<Trace, cli_thread, cli_isolate_thread, replay_done, main, stop, cmd, resp, given, diag>>
\* What a step of a command leaves alone.
replay == <<Trace, replay_done, main, stop, given, diag>>

Requests == {"parameters", "instrument"}
NoCmd == [op |-> "none", at |-> "idle", t |-> 0, scan |-> 0, from |-> 0]

Init ==
    /\ Trace \in Traces
    /\ rd = [t \in Threads |->
                [at |-> "unborn", inner |-> FALSE, cli_packet |-> 0, completed |-> 0,
                 api_call_count |-> 0, cli_state |-> "not_started", cli_call |-> UINT32_MAX,
                 cli_paused_call |-> 0, cli_step |-> "packets", cli_function |-> "none",
                 terminated |-> FALSE]]
    /\ cli_running = FALSE /\ cli_thread = 0 /\ cli_isolate_thread = FALSE
    /\ request = [r \in Requests |-> [asked |-> FALSE, ready |-> FALSE]]
    /\ replay_done = FALSE /\ main = "waiting" /\ stop = "none"
    /\ cmd = NoCmd
    /\ resp = [is |-> "none", t |-> 0, packet |-> 0]
    /\ given = 0
    /\ diag = [at |-> -1, seen |-> <<>>, cycle |-> {}, deadlocked |-> FALSE]

service_stop_requested == stop # "none"
stop_requested == stop = "done"
Packet(t) == Trace[t][rd[t].cli_packet + 1]
SetReader(t, new) ==
    rd' = [rd EXCEPT ![t] = [f \in DOMAIN rd[t] |-> IF f \in DOMAIN new THEN new[f] ELSE rd[t][f]]]

-----------------------------------------------------------------------------
(* The replay threads.                                                     *)

\* read_barrier and read_handle: the packet still has to wait for another thread.
Blocked(t) == Packet(t).on # t /\ Packet(t).count > rd[Packet(t).on].completed

\* lava_file_reader::step: the packet before is complete (a barrier was already
\* when it was read); a stop unwinds, otherwise the next packet is read.
Step(t) ==
    /\ rd[t].at = "step"
    /\ LET k == rd[t].cli_packet
           done == rd[t].completed + (IF k > 0 /\ Trace[t][k].type # "barrier" THEN 1 ELSE 0)
       IN  IF k = Len(Trace[t]) \/ stop_requested
           THEN SetReader(t, [at |-> "end", completed |-> done, terminated |-> TRUE])
           ELSE SetReader(t, [at |-> "exec",
                    completed |-> done + (IF Packet(t).type = "barrier" THEN 1 ELSE 0)])
    /\ UNCHANGED <<service, cli_running, request>>

\* A handle or a barrier that is not there yet, or a call that waits for the
\* GPU, is published as the thread's state before the thread waits.
PublishWait(t) ==
    /\ rd[t].at = "exec" /\ rd[t].cli_state = "running"
    /\ Blocked(t) \/ Packet(t).gpu
    /\ SetReader(t, [cli_state |-> IF ~ Blocked(t) THEN "wait_fence"
                                   ELSE IF Packet(t).type = "barrier" THEN "wait_barrier" ELSE "wait_handle"])
    /\ UNCHANGED <<service, cli_running, request>>

\* The packet is carried out once nothing is left to wait for; a wait for
\* another thread is also left by a stop.
Execute(t) ==
    /\ rd[t].at = "exec"
    /\ \/ /\ stop_requested /\ rd[t].cli_state \in {"wait_handle", "wait_barrier"}
          /\ SetReader(t, [at |-> "end"])
       \/ /\ ~ Blocked(t)
          /\ Packet(t).gpu => rd[t].cli_state = "wait_fence"
          /\ SetReader(t, [at |-> "check", inner |-> Packet(t).type = "call",
                           cli_state |-> "running"])
    /\ UNCHANGED <<service, cli_running, request>>

PastTwice(t) ==
    IF rd[t].inner
    THEN [inner |-> FALSE, api_call_count |-> rd[t].api_call_count + 1, cli_state |-> "running",
          at |-> IF rd[t].cli_step = "packets" THEN "check" ELSE "step",
          cli_packet |-> rd[t].cli_packet + 1]
    ELSE [at |-> "step", cli_packet |-> rd[t].cli_packet + 1, cli_state |-> "running"]
\* The reader once check_cli has returned false.  The check inside a call is
\* followed by the one of replay_thread where the mode is packets.
Past(t) ==
    IF rd[t].inner
    THEN [inner |-> FALSE, api_call_count |-> rd[t].api_call_count + 1, cli_state |-> "running",
          at |-> IF rd[t].cli_step = "packets" THEN "check" ELSE "step",
          cli_packet |-> rd[t].cli_packet + (IF rd[t].cli_step = "packets" THEN 0 ELSE 1)]
    ELSE [at |-> "step", cli_packet |-> rd[t].cli_packet + 1, cli_state |-> "running"]

completed_callLate(t) == rd[t].cli_packet
\* The count check_cli compares with the target, 0 where the mode does not
\* count this packet.
completed_call(t) ==
    IF rd[t].cli_step = "packets" THEN rd[t].cli_packet + 1
    ELSE IF \/ Packet(t).type # "call"
            \/ rd[t].cli_step = "function" /\ Packet(t).id # rd[t].cli_function
         THEN 0 ELSE rd[t].api_call_count + 1

Reached(t) ==
    LET c == completed_call(t)
    IN  c # 0 /\ (cli_running => c >= rd[t].cli_call)

\* A held thread is let go when it is selected or no thread is held any more.
check_cliHeld(t) ==
    /\ rd[t].at = "held"
    /\ cli_thread = t \/ ~ cli_isolate_thread
    /\ SetReader(t, Past(t))
    /\ UNCHANGED <<service, cli_running, request>>
check_cliDeafHeld(t) ==
    \/ check_cliHeld(t)
    \/ /\ rd[t].at = "check"
       /\ \/ stop_requested /\ SetReader(t, [at |-> "end"])
          \/ /\ ~ stop_requested /\ cli_thread # t
             /\ IF cli_isolate_thread THEN SetReader(t, [at |-> "held", cli_state |-> "cli_paused"])
                ELSE SetReader(t, Past(t))
          \/ /\ ~ stop_requested /\ cli_thread = t
             /\ IF Reached(t)
                THEN SetReader(t, [at |-> "pause", cli_paused_call |-> completed_call(t),
                                   cli_state |-> "cli_paused"])
                ELSE SetReader(t, Past(t))
       /\ UNCHANGED <<service, cli_running, request>>
\* check_cli up to the store of cli_running.  A thread that is not selected
\* goes on, or is held where only the selected thread may run; the selected
\* one goes on while replay is running and its target is not reached.
check_cli(t) ==
    \/ /\ rd[t].at \in {"check", "held"} /\ stop_requested
       /\ SetReader(t, [at |-> "end"])
       /\ UNCHANGED <<service, cli_running, request>>
    \/ check_cliHeld(t) /\ ~ stop_requested
    \/ /\ rd[t].at = "check" /\ ~ stop_requested
       /\ CASE cli_thread # t /\ cli_isolate_thread ->
                    SetReader(t, [at |-> "held", cli_state |-> "cli_paused"])
            [] cli_thread = t /\ Reached(t) ->
                    SetReader(t, [at |-> "pause", cli_paused_call |-> completed_call(t),
                                  cli_state |-> "cli_paused"])
            [] OTHER -> SetReader(t, Past(t))
       /\ UNCHANGED <<service, cli_running, request>>

\* check_cli's last store, whatever cli_running has become by now.
check_cli_pause(t) ==
    /\ rd[t].at = "pause"
    /\ cli_running' = FALSE
    /\ SetReader(t, [at |-> "serve"])
    /\ UNCHANGED <<service, request>>

\* The loop around check_cli: a request that is there is answered by this
\* thread, then check_cli is called again.
cli_params_packet(t) ==
    /\ rd[t].at = "serve"
    /\ request' = [r \in Requests |->
                     IF request[r].asked /\ (r = "instrument" => rd[t].inner)
                     THEN [asked |-> FALSE, ready |-> TRUE] ELSE request[r]]
    /\ SetReader(t, [at |-> "check"])
    /\ UNCHANGED <<service, cli_running>>

\* The end of replay_thread: terminated, then the commands waiting for this
\* thread are let go.
ThreadTerminates(t) ==
    /\ rd[t].at = "end"
    /\ SetReader(t, [at |-> "ended", terminated |-> TRUE])
    /\ UNCHANGED <<service, cli_running, request>>

ThreadReleases(t) ==
    /\ rd[t].at = "ended"
    /\ cli_running' = IF cli_thread = t THEN FALSE ELSE cli_running
    /\ SetReader(t, [at |-> "gone", cli_state |-> "terminated"])
    /\ UNCHANGED <<service, request>>

replay_thread(t) ==
    \/ Step(t) \/ PublishWait(t) \/ Execute(t) \/ check_cli(t) \/ check_cli_pause(t)
    \/ cli_params_packet(t) \/ ThreadTerminates(t) \/ ThreadReleases(t)

-----------------------------------------------------------------------------
(* Commands.                                                               *)

cli_has_paused_command(t) == rd[t].cli_paused_call # 0
cli_current_packet_count(t) == rd[t].cli_packet + (IF cli_has_paused_command(t) THEN 1 ELSE 0)
cli_current_call(t) ==
    rd[t].api_call_count + (IF /\ cli_has_paused_command(t)
                               /\ rd[t].cli_packet < Len(Trace[t]) /\ Packet(t).type = "call"
                            THEN 1 ELSE 0)
cli_current_packet_index(t) ==
    IF cli_has_paused_command(t) /\ rd[t].cli_step = "packets"
    THEN rd[t].cli_paused_call - 1 ELSE rd[t].cli_packet

cli_thread_quiescent(t) == rd[t].terminated \/ rd[t].cli_state # "running"

\* How far a thread gets whatever it is told: check_cli lets a held thread go
\* past its packet without a look at the target.
Committed(t) == rd[t].cli_packet + (IF rd[t].at = "held" THEN 1 ELSE 0)

\* service_client: one control command at a time holds cli_command_active.
Begin(op, at, t) ==
    /\ op \in Commands /\ cmd.op = "none" /\ given < MaxCommands
    /\ given' = given + 1
    /\ cmd' = [op |-> op, at |-> at, t |-> t, scan |-> 0, from |-> Committed(t)]
    /\ resp' = [resp EXCEPT !.is = "none"]

Paused == ~ replay_done /\ ~ cli_running

\* step packets N and step calls N.
CommandStep(mode, count) ==
    /\ Paused
    /\ Begin("step", "resume", cli_thread)
    /\ SetReader(cli_thread,
          [cli_function |-> "none", cli_step |-> mode,
           cli_call |-> count + (IF mode = "calls" THEN cli_current_call(cli_thread)
                                 ELSE cli_current_packet_count(cli_thread))])
    /\ UNCHANGED <<cli_running, cli_thread, cli_isolate_thread, request, replay_done, main, stop, diag, Trace>>

\* goto PACKET (already there: only waits for the others) and goto NAME.
CommandGoto(target) ==
    /\ Paused
    /\ LET t == cli_thread
           here == cli_current_packet_index(t)
       IN  \/ /\ target = here /\ cli_has_paused_command(t)
              /\ Begin("goto", "quiet", t) /\ UNCHANGED rd
           \/ /\ target > here \/ (target = here /\ ~ cli_has_paused_command(t))
              /\ Begin("goto", "resume", t)
              /\ SetReader(t, [cli_function |-> "none", cli_step |-> "packets",
                               cli_call |-> target + 1])
    /\ UNCHANGED <<cli_running, cli_thread, cli_isolate_thread, request, replay_done, main, stop, diag, Trace>>

CommandGotoName(id) ==
    /\ Paused
    /\ Begin("goto", "resume", cli_thread)
    /\ SetReader(cli_thread, [cli_function |-> id, cli_step |-> "function",
                              cli_call |-> cli_current_call(cli_thread) + 1])
    /\ UNCHANGED <<cli_running, cli_thread, cli_isolate_thread, request, replay_done, main, stop, diag, Trace>>

\* cli_select_thread.
cli_select_thread(t) ==
    /\ Paused /\ ~ rd[t].terminated
    /\ IF t = cli_thread
       THEN Begin("thread", "quiet", t) /\ UNCHANGED <<rd, cli_thread>>
       ELSE /\ Begin("thread", "resume", t)
            /\ SetReader(t, [cli_paused_call |-> 0, cli_function |-> "none",
                             cli_step |-> "packets", cli_call |-> rd[t].cli_packet + 1])
            /\ cli_thread' = t
    /\ UNCHANGED <<cli_running, cli_isolate_thread, request, replay_done, main, stop, diag, Trace>>

\* set isolate-thread; before the replay has started it is not counted.
CommandIsolate(b) ==
    /\ "isolate" \in Commands /\ cmd.op = "none" /\ b # cli_isolate_thread
    /\ main # "waiting" => given < MaxCommands
    /\ given' = IF main = "waiting" THEN given ELSE given + 1
    /\ cli_isolate_thread' = b
    /\ UNCHANGED <<rd, cli_running, cli_thread, request, cmd, resp, replay_done, main, stop, diag, Trace>>

CommandContinue ==
    /\ Begin("continue", "resume", cli_thread)
    /\ SetReader(cli_thread, [cli_function |-> "none", cli_call |-> UINT32_MAX])
    /\ cli_isolate_thread' = FALSE
    /\ UNCHANGED <<cli_running, cli_thread, request, replay_done, main, stop, diag, Trace>>

\* self-test, show instrumentation: wait until every thread is quiet.
CommandSelfTest ==
    /\ ~ cli_running
    /\ Begin("self-test", "quiet", cli_thread)
    /\ UNCHANGED <<rd, cli_running, cli_thread, cli_isolate_thread, request, replay_done, main, stop, diag, Trace>>

\* parameters, and instrument, which first waits until every thread is quiet.
CommandRequest(r) ==
    /\ ~ cli_running /\ cli_has_paused_command(cli_thread)
    /\ IF r = "parameters" THEN ~ replay_done
       ELSE rd[cli_thread].cli_packet < Len(Trace[cli_thread])
            /\ Packet(cli_thread).id = "vkBeginCommandBuffer"
    /\ Begin(r, IF r = "parameters" THEN "clear" ELSE "quiet", cli_thread)
    /\ UNCHANGED <<rd, cli_running, cli_thread, cli_isolate_thread, request, replay_done, main, stop, diag, Trace>>

Respond(is) ==
    /\ resp' = [is |-> is, t |-> cmd.t, packet |-> cli_current_packet_index(cmd.t)]
    /\ cmd' = NoCmd

\* The store that lets the replay threads go on.
Resume ==
    /\ cmd.at = "resume"
    /\ cli_running' = TRUE
    /\ cmd' = [cmd EXCEPT !.at = IF cmd.op = "continue" THEN "done" ELSE "paused"]
    /\ UNCHANGED <<rd, cli_thread, cli_isolate_thread, request, resp, replay>>

\* cli_wait_for_pause_or_block.
cli_wait_for_pause_or_block ==
    /\ cmd.at = "paused"
    /\ LET r == rd[cmd.t]
       IN  \/ /\ ~ cli_running /\ r.terminated
              /\ Respond("THREAD_DONE") /\ UNCHANGED cli_running
           \/ /\ ~ cli_running /\ ~ r.terminated
              /\ IF cmd.op = "thread" /\ replay_done THEN Respond("DONE")
                 ELSE cmd' = [cmd EXCEPT !.at = "quiet"] /\ UNCHANGED resp
              /\ UNCHANGED cli_running
           \/ /\ cli_running /\ cli_isolate_thread
              /\ r.cli_state \in {"wait_handle", "wait_barrier", "wait_fence"}
              /\ cli_running' = FALSE /\ Respond("BLOCKED")
    /\ UNCHANGED <<rd, cli_thread, cli_isolate_thread, request, replay>>

\* cli_wait_for_quiescence_and_idle: the threads are looked at one by one, from
\* the first again when one is running.
cli_wait_for_quiescence_and_idle ==
    /\ cmd.at = "quiet"
    /\ IF replay_done \/ cmd.scan = Cardinality(Threads)
       THEN IF cmd.op = "instrument" THEN cmd' = [cmd EXCEPT !.at = "clear"] /\ UNCHANGED resp
            ELSE Respond(IF cmd.op = "goto" /\ replay_done THEN "DONE" ELSE "PAUSED")
       ELSE /\ cmd' = [cmd EXCEPT !.scan = IF cli_thread_quiescent(cmd.scan) THEN @ + 1 ELSE 0]
            /\ UNCHANGED resp
    /\ UNCHANGED <<rd, cli_running, cli_thread, cli_isolate_thread, request, replay>>

cli_wait_for_done_and_idle ==
    /\ cmd.at = "done" /\ replay_done
    /\ Respond("DONE")
    /\ UNCHANGED <<rd, cli_running, cli_thread, cli_isolate_thread, request, replay>>

\* The request: ready is cleared, a stop is looked for, the request is made and
\* a stop is looked for once more before waiting for ready.
RequestClear ==
    /\ cmd.at = "clear"
    /\ request' = [request EXCEPT ![cmd.op].ready = FALSE]
    /\ cmd' = [cmd EXCEPT !.at = "ask"]
    /\ UNCHANGED <<rd, cli_running, cli_thread, cli_isolate_thread, resp, replay>>

RequestAskUnchecked ==
    /\ cmd.at = "ask"
    /\ request' = [request EXCEPT ![cmd.op].asked = TRUE]
    /\ cmd' = [cmd EXCEPT !.at = "answer"]
    /\ UNCHANGED <<rd, cli_running, cli_thread, cli_isolate_thread, resp, replay>>
RequestAsk ==
    /\ \/ /\ cmd.at = "ask" /\ service_stop_requested
          /\ Respond("STOPPED") /\ UNCHANGED request
       \/ /\ cmd.at = "ask" /\ ~ service_stop_requested
          /\ cmd' = [cmd EXCEPT !.at = "asking"] /\ UNCHANGED <<request, resp>>
       \/ /\ cmd.at = "asking"
          /\ request' = [request EXCEPT ![cmd.op].asked = TRUE]
          /\ cmd' = [cmd EXCEPT !.at = "asked"] /\ UNCHANGED resp
    /\ UNCHANGED <<rd, cli_running, cli_thread, cli_isolate_thread, replay>>

RequestAsked ==
    /\ cmd.at = "asked"
    /\ IF service_stop_requested
       THEN Respond("STOPPED") /\ request' = [request EXCEPT ![cmd.op].asked = FALSE]
       ELSE cmd' = [cmd EXCEPT !.at = "answer"] /\ UNCHANGED <<resp, request>>
    /\ UNCHANGED <<rd, cli_running, cli_thread, cli_isolate_thread, replay>>

RequestAnswer ==
    /\ cmd.at = "answer" /\ request[cmd.op].ready
    /\ Respond(IF service_stop_requested THEN "STOPPED" ELSE "OK")
    /\ UNCHANGED <<rd, cli_running, cli_thread, cli_isolate_thread, request, replay>>

command ==
    \/ Resume \/ cli_wait_for_pause_or_block \/ cli_wait_for_quiescence_and_idle
    \/ cli_wait_for_done_and_idle \/ RequestClear \/ RequestAsk \/ RequestAsked \/ RequestAnswer

GiveCommand ==
    \/ \E mode \in {"packets", "calls"} : CommandStep(mode, 1)
    \/ \E target \in 0 .. Len(Trace[cli_thread]) - 1 : CommandGoto(target)
    \/ \E p \in Threads : \E k \in 1 .. Len(Trace[p]) :
            Trace[p][k].type = "call" /\ CommandGotoName(Trace[p][k].id)
    \/ \E t \in Threads : cli_select_thread(t)
    \/ \E b \in BOOLEAN : CommandIsolate(b)
    \/ CommandContinue \/ CommandSelfTest
    \/ \E r \in Requests : CommandRequest(r)

-----------------------------------------------------------------------------
(* stop, which is let past cli_command_active, and main.                   *)

StopFlag ==
    /\ stop = "none" /\ "stop" \in Commands
    /\ stop' = "flagged"
    /\ UNCHANGED <<rd, cli_running, cli_thread, cli_isolate_thread, request, replay_done, main, cmd, resp, given, diag, Trace>>

\* cli_cancel_pending_requests.
cli_cancel_pending_requests ==
    /\ stop = "flagged"
    /\ request' = [r \in Requests |-> [asked |-> FALSE, ready |-> TRUE]]
    /\ stop' = "cancelled"
    /\ UNCHANGED <<rd, cli_running, cli_thread, cli_isolate_thread, replay_done, main, cmd, resp, given, diag, Trace>>

StopResume ==
    /\ stop = "cancelled"
    /\ cli_running' = TRUE
    /\ stop' = "resumed"
    /\ UNCHANGED <<rd, cli_thread, cli_isolate_thread, request, replay_done, main, cmd, resp, given, diag, Trace>>

\* request_stop, and done_var, which nothing but main and the listener waits for.
StopRequest ==
    /\ stop = "resumed"
    /\ stop' = "done"
    /\ UNCHANGED <<rd, cli_running, cli_thread, cli_isolate_thread, request, replay_done, main, cmd, resp, given, diag, Trace>>

\* main waits until replay is let go, runs the threads, joins them, reports the
\* end and waits for done_var and the last client.
MainStarts ==
    /\ main = "waiting" /\ cli_running
    /\ IF service_stop_requested
       THEN main' = "listener" /\ replay_done' = TRUE /\ UNCHANGED rd
       ELSE /\ main' = "threads" /\ UNCHANGED replay_done
            /\ rd' = [t \in Threads |-> [rd[t] EXCEPT !.at = "step", !.cli_state = "running"]]
    /\ UNCHANGED <<cli_running, cli_thread, cli_isolate_thread, request, stop, cmd, resp, given, diag, Trace>>

MainJoins ==
    /\ main = "threads" /\ \A t \in Threads : rd[t].at = "gone"
    /\ main' = "finished" /\ replay_done' = TRUE
    /\ UNCHANGED <<rd, cli_running, cli_thread, cli_isolate_thread, request, stop, cmd, resp, given, diag, Trace>>

MainReleases ==
    /\ main = "finished"
    /\ main' = "listener" /\ cli_running' = FALSE
    /\ UNCHANGED <<rd, cli_thread, cli_isolate_thread, request, replay_done, stop, cmd, resp, given, diag, Trace>>

\* service_listener returns when the last client is done.
MainExits ==
    /\ main = "listener" /\ stop_requested /\ cmd.op = "none"
    /\ main' = "exited"
    /\ UNCHANGED <<rd, cli_running, cli_thread, cli_isolate_thread, request, replay_done, stop, cmd, resp, given, diag, Trace>>

-----------------------------------------------------------------------------
(* diagnose deadlock.                                                      *)

\* replay_diagnostics_wait_edge_active, on what was read of each thread.
WaitEdgeLate(seen, t) ==
    IF /\ seen[t].state \in {"wait_handle", "wait_barrier"}
       /\ seen[t].count > seen[seen[t].on].completed + 1
    THEN seen[t].on ELSE -1
WaitEdgeAlways(seen, t) ==
    IF seen[t].state \in {"wait_handle", "wait_barrier"} THEN seen[t].on ELSE -1
WaitEdge(seen, t) ==
    IF /\ seen[t].state \in {"wait_handle", "wait_barrier"}
       /\ seen[t].count > seen[seen[t].on].completed
    THEN seen[t].on ELSE -1

\* Where the edges lead from each thread: Followed(seen)[k][s] is k edges from s.
Followed(seen) ==
    LET after[k \in 0 .. 2 * Cardinality(Threads)] ==
            IF k = 0 THEN [s \in Threads |-> s]
            ELSE [s \in Threads |-> IF after[k - 1][s] = -1 THEN -1 ELSE WaitEdge(seen, after[k - 1][s])]
    IN  after

\* replay_diagnostics_find_thread_cycle: follow the edges from each thread in
\* turn until one does not end.
FindCycle(seen) ==
    LET n == Cardinality(Threads)
        after == Followed(seen)
        endless == {s \in Threads : after[n][s] # -1}
    IN  IF endless = {} THEN {}
        ELSE LET s == CHOOSE s \in endless : \A u \in endless : s <= u
             IN  {after[k][s] : k \in n .. 2 * n}

\* What the report reads of one thread, in one step.
Snapshot(t) ==
    LET p == IF rd[t].cli_packet < Len(Trace[t]) THEN Packet(t) ELSE [on |-> t, count |-> 0]
    IN  [state |-> rd[t].cli_state, completed |-> rd[t].completed, on |-> p.on, count |-> p.count]

\* Some threads wait for each other, each with its wait published.
Deadlocked ==
    \E S \in (SUBSET Threads) \ {{}} : \A t \in S :
        /\ rd[t].at = "exec" /\ rd[t].cli_state \in {"wait_handle", "wait_barrier"}
        /\ Blocked(t) /\ Packet(t).on \in S

replay_diagnostics_snapshot_threads ==
    /\ "diagnose" \in Commands /\ diag.at < Cardinality(Threads)
    /\ diag.at = -1 => given < MaxCommands
    /\ given' = IF diag.at = -1 THEN given + 1 ELSE given
    /\ diag' = IF diag.at = -1 THEN [diag EXCEPT !.at = 0, !.deadlocked = Deadlocked]
               ELSE LET seen == [t \in 0 .. diag.at |->
                                   IF t = diag.at THEN Snapshot(t) ELSE diag.seen[t]]
                        last == diag.at + 1 = Cardinality(Threads)
                    IN  [diag EXCEPT !.at = @ + 1, !.seen = IF last THEN <<>> ELSE seen,
                                     !.cycle = IF last THEN FindCycle(seen) ELSE {}]
    /\ UNCHANGED <<rd, cli_running, cli_thread, cli_isolate_thread, request, replay_done, main, stop, cmd, resp, Trace>>

-----------------------------------------------------------------------------
Next ==
    \/ \E t \in Threads : replay_thread(t)
    \/ command \/ GiveCommand
    \/ StopFlag \/ cli_cancel_pending_requests \/ StopResume \/ StopRequest
    \/ MainStarts \/ MainJoins \/ MainReleases \/ MainExits
    \/ replay_diagnostics_snapshot_threads

\* Every thread of the service runs when it can; the user need not do anything.
Fairness ==
    /\ \A t \in Threads : WF_vars(replay_thread(t))
    /\ WF_vars(command)
    /\ WF_vars(cli_cancel_pending_requests \/ StopResume \/ StopRequest)
    /\ WF_vars(MainStarts \/ MainJoins \/ MainReleases \/ MainExits)

Spec == Init /\ [][Next]_vars /\ Fairness
-----------------------------------------------------------------------------
(* Properties.                                                             *)

\* The atomics hold values of their types, and a thread is where its state says.
TypeOK ==
    /\ \A t \in Threads :
        /\ rd[t].at \in {"unborn", "step", "exec", "check", "held", "pause", "serve", "end", "ended", "gone"}
        /\ rd[t].cli_packet \in 0 .. Len(Trace[t]) /\ rd[t].completed \in 0 .. Len(Trace[t])
        /\ rd[t].api_call_count <= rd[t].cli_packet + 1
        /\ rd[t].at \in {"held", "pause", "serve"} => rd[t].cli_state = "cli_paused"
    /\ cli_running \in BOOLEAN /\ cli_thread \in Threads /\ cli_isolate_thread \in BOOLEAN
    /\ cmd.at = "idle" <=> cmd.op = "none"

\* A step or goto never lets the selected thread run past the packet it was to
\* stop at. A thread that was there already when the command came stays where
\* it was, except for the one packet that a held thread passes.
StopsAtTarget ==
    \A t \in Threads :
        (cmd.op \in {"step", "goto"} /\ cmd.t = t /\ rd[t].cli_step = "packets")
            => rd[t].cli_packet < rd[t].cli_call \/ rd[t].cli_packet <= cmd.from

\* The threads and the service agree on how far a thread may go (check_cli,
\* service_command_response).
SteppingSound == TypeOK /\ StopsAtTarget

\* The deadlock report names only threads that are all blocked by each other.
DiagnosedCycleIsReal ==
    diag.cycle # {} /\ ~ stop_requested =>
        \A t \in diag.cycle : rd[t].at = "exec" /\ Blocked(t) /\ Packet(t).on \in diag.cycle

\* Threads blocked by each other when the report begins are reported.
DeadlockReported ==
    diag.at = Cardinality(Threads) /\ diag.deadlocked => diag.cycle # {} \/ stop_requested

\* The deadlock report is sound and complete although the threads run on while it
\* is made (replay_diagnostics).
DiagnosisRight == DiagnosedCycleIsReal /\ DeadlockReported

\* After stop every replay thread ends and the replay is over.
StopEndsReplay == service_stop_requested ~> replay_done

\* After stop no command is left waiting for an answer of a paused thread.
StopReleasesRequests == service_stop_requested ~> cmd.op \notin Requests

\* continue lets the replay run to its end ("Resume replay and wait until
\* completion" in the usage of lava-cli).
ContinueCompletes == cmd.op = "continue" ~> replay_done
=============================================================================
