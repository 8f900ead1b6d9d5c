----------------------------- MODULE ClientLoop -----------------------------
(***************************************************************************)
(* The life of an rsc-client process (client/src/main.rs): run_connection,  *)
(* which connects, sets a session up and then waits for heartbeats, for the *)
(* end of its command task and for Ctrl+C; and the loop in main around it,  *)
(* which connects again after a pause.  What a connection does while it is  *)
(* up is the subject of RemoteSmartcard, where this process starts as many  *)
(* connections as it likes.                                                 *)
(*                                                                          *)
(* Outcomes of RPCs, the fate of command tasks and Ctrl+C come from outside.*)
(***************************************************************************)
EXTENDS ClientConfig

CONSTANTS
    Readers,                  \* local readers, which get_reader_info finds
    MaxHeartbeatFailures      \* 3

ASSUME LoopAssumption == MaxHeartbeatFailures \in Nat \ {0}

VARIABLES
    config,       \* the settings, fixed once main has merged them
    pc,           \* where the process is; in an RPC, it waits for its outcome
    todo,         \* readers this connection has still to register
    failures,     \* consecutive_heartbeat_failures
    task,         \* the command task of this connection
    shutdown,     \* Ctrl+C has been pressed
    delay,        \* reconnect_config.current_delay
    pause,        \* the delay main waits for at the moment, or last waited for
    unmet         \* history: connections in a row without a session, up to 2

vars == <<config, pc, todo, failures, task, shutdown, delay, pause, unmet>>

Rpcs == {"connect", "establish", "register", "heartbeat"}

TypeOK ==
    /\ config \in ClientSettings
    /\ pc \in Rpcs \cup {"loop", "backoff", "stopped", "failed"}
    /\ todo \subseteq Readers
    /\ failures \in 0 .. MaxHeartbeatFailures - 1
    /\ task \in {"none", "running", "ended"}
    /\ shutdown \in BOOLEAN
    /\ delay \in Nat
    /\ pause \in Nat
    /\ unmet \in 0 .. 2

Init ==
    /\ config \in Configured
    /\ pc = "connect"
    /\ todo = Readers
    /\ failures = 0
    /\ task = "none"
    /\ shutdown = FALSE
    /\ delay = config.reconnect_delay
    /\ pause = 0
    /\ unmet = 0

Smaller(m, n) == IF m < n THEN m ELSE n

----------------------------------------------------------------------------
(* run_connection returns an error: main gives up, or takes the next delay, *)
(* which it doubles for the time after, and waits.  A command task that is  *)
(* still running is let go of; in RemoteSmartcard it goes on.               *)
next_delay ==
    /\ pause' = delay
    /\ delay' = Smaller(2 * delay, config.reconnect_max_delay)

ConnectionLost ==
    /\ IF ~config.no_reconnect
       THEN pc' = "backoff" /\ next_delay
       ELSE pc' = "failed" /\ UNCHANGED <<delay, pause>>
    /\ task' = "none"
    /\ UNCHANGED <<config, todo, failures, shutdown>>

Unmet == unmet' = Smaller(unmet + 1, 2)

(* connect_with_tls and establish_session. *)
connect_with_tls(ok) ==
    /\ pc = "connect"
    /\ IF ok
       THEN /\ pc' = "establish"
            /\ UNCHANGED <<config, todo, failures, task, shutdown, delay,
                           pause, unmet>>
       ELSE ConnectionLost /\ Unmet

establish_session(ok) ==
    /\ pc = "establish"
    /\ IF ok
       THEN /\ pc' = "register"
            /\ unmet' = 0
            /\ UNCHANGED <<config, todo, failures, task, shutdown, delay,
                           pause>>
       ELSE ConnectionLost /\ Unmet

(* register_reader for each reader in turn; a failure is only warned about. *)
register_reader(r) ==
    /\ pc = "register"
    /\ r \in todo
    /\ todo' = todo \ {r}
    /\ UNCHANGED <<config, pc, failures, task, shutdown, delay, pause, unmet>>

(* start_command_channel spawns the command task and returns at once.       *)
start_command_channel ==
    /\ pc = "register"
    /\ todo = {}
    /\ task' = "running"
    /\ pc' = "loop"
    /\ UNCHANGED <<config, todo, failures, shutdown, delay, pause, unmet>>

(* The heartbeat branch of select!: while the RPC is on its way nothing     *)
(* else is looked at.                                                       *)
heartbeat_tick ==
    /\ pc = "loop"
    /\ pc' = "heartbeat"
    /\ UNCHANGED <<config, todo, failures, task, shutdown, delay, pause, unmet>>

heartbeat_ok(valid) ==
    /\ pc = "heartbeat"
    /\ IF valid
       THEN /\ pc' = "loop"
            /\ failures' = 0
            /\ UNCHANGED <<config, todo, task, shutdown, delay, pause, unmet>>
       ELSE ConnectionLost /\ UNCHANGED unmet

(* Mutant: one failure too many. *)
heartbeat_fails_late ==
    /\ pc = "heartbeat"
    /\ IF failures + 1 > MaxHeartbeatFailures
       THEN ConnectionLost
       ELSE /\ pc' = "loop"
            /\ failures' = failures + 1
            /\ UNCHANGED <<config, todo, task, shutdown, delay, pause>>
    /\ UNCHANGED unmet

heartbeat_fails ==
    /\ pc = "heartbeat"
    /\ IF failures + 1 >= MaxHeartbeatFailures
       THEN ConnectionLost
       ELSE /\ pc' = "loop"
            /\ failures' = failures + 1
            /\ UNCHANGED <<config, todo, task, shutdown, delay, pause>>
    /\ UNCHANGED unmet

(* Mutant: the end of the command task is taken for a clean shutdown. *)
cmd_shutdown_ok ==
    /\ pc = "loop"
    /\ task = "ended"
    /\ pc' = "stopped"
    /\ task' = "none"
    /\ UNCHANGED <<config, todo, failures, shutdown, delay, pause, unmet>>

(* Mutant: the end of the command task is not noticed. *)
cmd_shutdown_unread == FALSE

(* The command task's notice, or the end of its shutdown_tx.                *)
cmd_shutdown ==
    /\ pc = "loop"
    /\ task = "ended"
    /\ ConnectionLost
    /\ UNCHANGED unmet

(* main returns and the process ends, command tasks and all.                *)
Stop ==
    /\ pc' = "stopped"
    /\ task' = "none"
    /\ UNCHANGED <<config, todo, failures, shutdown, delay, pause, unmet>>

(* Mutant: Ctrl+C is looked for between connections only. *)
shutdown_unread == FALSE

shutdown_in_loop == pc = "loop" /\ shutdown /\ Stop

shutdown_in_backoff == pc = "backoff" /\ shutdown /\ Stop

(* The pause is over: unless Ctrl+C has been pressed meanwhile, the delay   *)
(* is reset and run_connection is called again.                             *)
reset == delay' = config.reconnect_delay

(* Mutant: whether Ctrl+C has been pressed is not asked after the pause. *)
sleep_over_unchecked ==
    /\ pc = "backoff"
    /\ pc' = "connect"
    /\ todo' = Readers
    /\ failures' = 0
    /\ reset
    /\ UNCHANGED <<config, task, shutdown, pause, unmet>>

sleep_over ==
    /\ pc = "backoff"
    /\ IF shutdown
       THEN Stop
       ELSE /\ pc' = "connect"
            /\ todo' = Readers
            /\ failures' = 0
            /\ reset
            /\ UNCHANGED <<config, task, shutdown, pause, unmet>>

----------------------------------------------------------------------------
(* Ctrl+C, and the end of the command task when its stream ends.            *)
ctrl_c ==
    /\ pc \notin {"stopped", "failed"}
    /\ ~shutdown
    /\ shutdown' = TRUE
    /\ UNCHANGED <<config, pc, todo, failures, task, delay, pause, unmet>>

task_ends ==
    /\ task = "running"
    /\ task' = "ended"
    /\ UNCHANGED <<config, pc, todo, failures, shutdown, delay, pause, unmet>>

(* An RPC has its outcome. *)
RpcReturns ==
    \/ \E ok \in BOOLEAN : connect_with_tls(ok)
    \/ \E ok \in BOOLEAN : establish_session(ok)
    \/ \E r \in Readers : register_reader(r)
    \/ \E valid \in BOOLEAN : heartbeat_ok(valid)
    \/ heartbeat_fails

Select == heartbeat_tick \/ cmd_shutdown \/ shutdown_in_loop

Backoff == shutdown_in_backoff \/ sleep_over

Next ==
    \/ RpcReturns \/ start_command_channel \/ Select \/ Backoff
    \/ ctrl_c \/ task_ends

Spec == Init /\ [][Next]_vars

----------------------------------------------------------------------------
(* Properties.                                                              *)

(* Once Ctrl+C has been pressed the process begins no new connection.       *)
NoStartAfterShutdown == [][shutdown => (pc' = "connect" => pc = "connect")]_vars

(* "Press Ctrl+C to exit": Ctrl+C ends the process, wherever run_connection *)
(* or main is.                                                              *)
ShutdownStops == shutdown ~> pc \in {"stopped", "failed"}

(* A connection whose command task has ended, which serves no card any more,*)
(* is left, though its heartbeats may well be answered.                     *)
DeadChannelLeft == task = "ended" ~> task # "ended"

(* "Exponential backoff - 1s, 2s, 4s, 8s, max 60s": as long as no session   *)
(* comes about, each pause is twice the one before, up to the maximum (which*)
(* is no less than the first delay, unless someone set them so).            *)
BackoffGrows ==
    [][(pc # "backoff" /\ pc' = "backoff" /\ unmet' > 1
          /\ config.reconnect_delay <= config.reconnect_max_delay) =>
          pause' = Smaller(2 * pause, config.reconnect_max_delay)]_vars

=============================================================================
