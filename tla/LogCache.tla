------------------------------ MODULE LogCache ------------------------------
(***************************************************************************)
(* The replay log as lava-cli keeps it: the service hands out its log in   *)
(* chunks behind a cursor (service_log_update_response, service_client in  *)
(* src/replay.cpp) and the client appends them to a file in its cache      *)
(* (update_log_cache, append_log_chunk, synchronize_log_session in         *)
(* src/cli.cpp).  Responses get lost, the client is killed between any two *)
(* writes and given again, and the service is restarted.  One lava-cli     *)
(* process at a time works on a cache.                                     *)
(*                                                                         *)
(* A byte of the log is the pair of its session and its number in it.      *)
(***************************************************************************)
EXTENDS Integers, Sequences

CONSTANTS
    Chunk,        \* 512 KiB in the code
    MaxLog,       \* bound: bytes a session writes to its log
    MaxSession,   \* bound: service starts
    MaxUpdates    \* bound: commands lava-cli is given

ASSUME LogAssumption == Chunk \in Nat /\ MaxSession \in Nat \ {0}

VARIABLES
    session, log,             \* the running service: its session and the length of its log
    cursor, snapshot_end,     \* service_log_stream_state
    commit,                   \* cursor_commit of the update being answered, -1 when none is
    cache, cached_session,    \* the client's files: the log and its .session
    cli,                      \* where the lava-cli process is and what it holds
    updates                   \* commands it was given

logvars == <<session, log, cursor, snapshot_end, commit, cache, cached_session, cli, updates>>

LogIdle == [at |-> "idle", expected |-> 0, session |-> 0, start |-> 0, end |-> 0, snapshot |-> 0]

LogInit ==
    /\ session = 1 /\ log = 0
    /\ cursor = 0 /\ snapshot_end = 0 /\ commit = -1
    /\ cache = <<>> /\ cached_session = 0
    /\ cli = LogIdle /\ updates = 0

server == <<session, log, cursor, snapshot_end, commit>>
files == <<cache, cached_session>>

-----------------------------------------------------------------------------
(* The service.                                                            *)

ReplayLogs ==
    /\ log < MaxLog
    /\ log' = log + 1
    /\ UNCHANGED <<session, cursor, snapshot_end, commit, files, cli, updates>>

\* The replay is started again: another session id, an empty log.
ServiceRestarts ==
    /\ session < MaxSession
    /\ session' = session + 1
    /\ log' = 0 /\ cursor' = 0 /\ snapshot_end' = 0 /\ commit' = -1
    /\ cli' = IF cli.at = "answered" THEN LogIdle ELSE cli
    /\ UNCHANGED <<files, updates>>

\* service_log_update_response: the snapshot is renewed when all of it has been
\* handed out, and the next chunk of it is the answer.
service_log_update_responseLatest ==
    /\ cli.at = "request" /\ commit = -1
    /\ snapshot_end' = IF cursor = snapshot_end THEN log ELSE snapshot_end
    /\ commit' = IF cursor + Chunk < snapshot_end' THEN cursor + Chunk ELSE log
    /\ cli' = [at |-> "answered", expected |-> cli.expected, session |-> session,
               start |-> cursor, end |-> commit', snapshot |-> snapshot_end']
    /\ UNCHANGED <<session, log, cursor, files, updates>>
service_log_update_response ==
    /\ cli.at = "request" /\ commit = -1
    /\ snapshot_end' = IF cursor = snapshot_end THEN log ELSE snapshot_end
    /\ commit' = IF cursor + Chunk < snapshot_end' THEN cursor + Chunk ELSE snapshot_end'
    /\ cli' = [at |-> "answered", expected |-> cli.expected, session |-> session,
               start |-> cursor, end |-> commit', snapshot |-> snapshot_end']
    /\ UNCHANGED <<session, log, cursor, files, updates>>

\* update_active: an update that is still being answered, to a client that is
\* gone, refuses the next one.
UpdateRefused ==
    /\ cli.at = "request" /\ commit # -1
    /\ cli' = LogIdle
    /\ UNCHANGED <<server, files, updates>>

\* service_client: the response is sent and the cursor moves.  A client that is
\* gone, or a connection that breaks, is not always noticed by the send.
service_client ==
    /\ commit # -1
    /\ commit' = -1
    /\ \/ /\ cli.at = "answered"
          /\ cursor' = commit /\ cli' = [cli EXCEPT !.at = "received"]
       \/ /\ cursor' \in {cursor, commit}
          /\ cli' = IF cli.at = "answered" THEN LogIdle ELSE cli
    /\ UNCHANGED <<session, log, snapshot_end, files, updates>>

-----------------------------------------------------------------------------
(* The client.                                                             *)

\* lava-cli log update: update_log_cache asks for the first chunk.
LogUpdate ==
    /\ cli.at = "idle" /\ updates < MaxUpdates
    /\ updates' = updates + 1
    /\ cli' = [LogIdle EXCEPT !.at = "request"]
    /\ UNCHANGED <<server, files>>

\* lava-cli log tail update=off: validate_log_session.
validate_log_session ==
    /\ cli.at = "idle" /\ updates < MaxUpdates /\ cached_session # session
    /\ updates' = updates + 1
    /\ cli' = [LogIdle EXCEPT !.at = "reset", !.session = session]
    /\ UNCHANGED <<server, files>>

\* update_log_cache with a response: for the first chunk the cache has to be of
\* the same session or is reset; a session that changes between two chunks ends
\* the update.
update_log_cache ==
    /\ cli.at = "received"
    /\ cli' = CASE cli.expected = 0 ->
                      [cli EXCEPT !.expected = cli.session,
                                  !.at = IF cached_session = cli.session THEN "append" ELSE "reset"]
                [] cli.expected = cli.session -> [cli EXCEPT !.at = "append"]
                [] OTHER -> LogIdle
    /\ UNCHANGED <<server, files, updates>>

\* The log is emptied first, then .session is written.
synchronize_log_session ==
    /\ \/ /\ cli.at = "reset"
          /\ cache' = <<>> /\ UNCHANGED cached_session
          /\ cli' = [cli EXCEPT !.at = "emptied"]
       \/ /\ cli.at = "emptied"
          /\ cached_session' = cli.session /\ UNCHANGED cache
          /\ cli' = IF cli.expected = 0 THEN LogIdle ELSE [cli EXCEPT !.at = "append"]
    /\ UNCHANGED <<server, updates>>

\* append_log_chunk: truncated where the chunk is the first one; the file has to
\* be as long as the log is before the chunk.
append_log_chunkUnchecked ==
    /\ cli.at = "append"
    /\ cache' = IF cli.start = 0 THEN <<>> ELSE cache
    /\ cli' = [cli EXCEPT !.at = "write"]
    /\ UNCHANGED <<server, cached_session, updates>>
append_log_chunk ==
    /\ cli.at = "append"
    /\ cache' = IF cli.start = 0 THEN <<>> ELSE cache
    /\ cli' = IF Len(cache') = cli.start THEN [cli EXCEPT !.at = "write"] ELSE LogIdle
    /\ UNCHANGED <<server, cached_session, updates>>

\* One write(2) of the chunk; behind the last one the next chunk is asked for
\* while the snapshot has more.
WriteChunk ==
    /\ cli.at = "write"
    /\ IF cli.start < cli.end
       THEN /\ cache' = Append(cache, <<cli.session, cli.start + 1>>)
            /\ cli' = [cli EXCEPT !.start = @ + 1]
       ELSE /\ UNCHANGED cache
            /\ cli' = IF cli.end < cli.snapshot THEN [cli EXCEPT !.at = "request"] ELSE LogIdle
    /\ UNCHANGED <<server, cached_session, updates>>

\* The process is killed.
ClientKilled ==
    /\ cli.at # "idle"
    /\ cli' = LogIdle
    /\ UNCHANGED <<server, files, updates>>

-----------------------------------------------------------------------------
LogNext ==
    \/ ReplayLogs \/ ServiceRestarts
    \/ service_log_update_response \/ UpdateRefused \/ service_client
    \/ LogUpdate \/ validate_log_session \/ update_log_cache \/ synchronize_log_session
    \/ append_log_chunk \/ WriteChunk \/ ClientKilled

LogSpec == LogInit /\ [][LogNext]_logvars

\* The cursor stays inside the snapshot and the snapshot inside the log, also
\* over restarts and responses that are lost (the checks of
\* service_log_update_response that answer ERROR never fire).
CursorInLog ==
    /\ 0 <= cursor /\ cursor <= snapshot_end /\ snapshot_end <= log
    /\ commit \in {-1} \cup (cursor .. snapshot_end)

\* The cache is a prefix of the log of one session at every moment, without a
\* gap or a repetition, and once it is not empty and no process is resetting it,
\* of the session its .session file names.
CacheIsPrefix ==
    /\ \E s \in 1 .. MaxSession : cache = [i \in 1 .. Len(cache) |-> <<s, i>>]
    /\ cache # <<>> => cache[1][1] = cached_session

\* Restarts of the server, lost responses and killed clients neither lose nor
\* repeat a line of the log (service_log_update_response, update_log_cache).
LogKept == CursorInLog /\ CacheIsPrefix
=============================================================================
