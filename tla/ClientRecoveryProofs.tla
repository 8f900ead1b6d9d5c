------------------------ MODULE ClientRecoveryProofs ------------------------
(***************************************************************************)
(* Proofs about the client process, for any readers, delays and settings:   *)
(* ClientLoop by itself, where any RPC may have any outcome, and            *)
(* ClientRecovery, each step of which is one of ClientLoop's or leaves the  *)
(* process alone.                                                           *)
(*                                                                          *)
(* The inductive invariant of the process says which delay is to come       *)
(* (FirstDelay): main has set it back whenever it begins a connection.      *)
(***************************************************************************)
EXTENDS ClientRecovery, TLAPS

(* Every pause is the first one. *)
PausesAlike == pc = "backoff" => pause = config.reconnect_delay

(* While a connection is being made, or is up, the next delay is the first. *)
FirstDelay == pc \in Rpcs \cup {"loop"} => delay = config.reconnect_delay

IInv == TypeOK /\ FirstDelay /\ PausesAlike

(* A file and a command line, whatever they leave out, give settings.       *)
LEMMA SettingsConfigured == Configured \subseteq ClientSettings
<1> USE ConfigAssumption
<1>1. \A w \in Written : WithDefaults(w) \in ClientSettings
  BY DEF Written, WithDefaults, Given, ClientSettings
<1>2. \A cfg, args \in ClientSettings : merge_cli_args(cfg, args) \in ClientSettings
  BY DEF ClientSettings, merge_cli_args
<1> QED BY <1>1, <1>2 DEF Configured, load, parse

(* The first connection is like any other. *)
LEMMA InitInvariant == Init => IInv
<1> SUFFICES ASSUME Init PROVE IInv
  OBVIOUS
<1>1. config \in ClientSettings /\ config.reconnect_delay \in Nat
  BY SettingsConfigured, ConfigAssumption DEF Init, ClientSettings
<1>2. TypeOK
  <2>1. /\ 0 \in 0 .. MaxHeartbeatFailures - 1 /\ 0 \in 0 .. 2 /\ 0 \in Nat
        /\ FALSE \in BOOLEAN /\ Readers \subseteq Readers
    BY LoopAssumption
  <2>2. /\ config \in ClientSettings /\ delay \in Nat /\ pause \in Nat
        /\ failures \in 0 .. MaxHeartbeatFailures - 1 /\ unmet \in 0 .. 2
        /\ todo \subseteq Readers
    BY <1>1, <2>1 DEF Init
  <2>3. shutdown \in BOOLEAN
    BY <2>1 DEF Init
  <2>4. /\ pc \in Rpcs \cup {"loop", "backoff", "stopped", "failed"}
        /\ task \in {"none", "running", "ended"}
    BY DEF Init, Rpcs
  <2> QED BY <2>2, <2>3, <2>4 DEF TypeOK
<1> QED BY <1>2 DEF Init, IInv, FirstDelay, PausesAlike

(* However a connection is lost, main takes the first delay. *)
LEMMA LostKeeps ==
    ASSUME IInv, ConnectionLost, pc \in Rpcs \cup {"loop"}, unmet' \in 0 .. 2
    PROVE  IInv'
<1>1. /\ config \in ClientSettings /\ config.reconnect_max_delay \in Nat
      /\ pause \in Nat /\ delay \in Nat
  BY ConfigAssumption DEF IInv, TypeOK, ClientSettings
<1>2. delay = config.reconnect_delay
  BY DEF IInv, FirstDelay
<1>3. pc' \in {"backoff", "failed"} /\ task' = "none"
  BY DEF ConnectionLost
<1>4. delay' \in Nat /\ pause' \in Nat /\ (pc' = "backoff" => pause' = delay)
  BY <1>1 DEF ConnectionLost, next_delay, Smaller
<1>5. UNCHANGED <<config, todo, failures, shutdown>>
  BY DEF ConnectionLost
<1>6. TypeOK'
  BY <1>3, <1>4, <1>5 DEF IInv, TypeOK
<1> QED BY <1>2, <1>3, <1>4, <1>5, <1>6
        DEF IInv, FirstDelay, PausesAlike, Rpcs

(* The process ends. *)
LEMMA StopKeeps ==
    ASSUME IInv, Stop
    PROVE  IInv'
  BY DEF IInv, Stop, TypeOK, FirstDelay, PausesAlike, Rpcs

(* Every step of the process keeps the inductive invariant. *)
LEMMA StepInvariant == IInv /\ [Next]_vars => IInv'
<1> SUFFICES ASSUME IInv, [Next]_vars PROVE IInv'
  OBVIOUS
<1> USE DEF Rpcs
<1>t. TypeOK /\ unmet \in 0 .. 2 /\ Smaller(unmet + 1, 2) \in 0 .. 2
  BY DEF IInv, TypeOK, Smaller
<1>1. ASSUME NEW ok \in BOOLEAN, connect_with_tls(ok) PROVE IInv'
  <2>1. CASE ok
    BY <1>1, <2>1 DEF connect_with_tls, IInv, TypeOK, FirstDelay, PausesAlike
  <2>2. CASE ~ok
    BY <1>1, <1>t, <2>2, LostKeeps DEF connect_with_tls, Unmet
  <2> QED BY <2>1, <2>2
<1>2. ASSUME NEW ok \in BOOLEAN, establish_session(ok) PROVE IInv'
  <2>1. CASE ok
    BY <1>2, <2>1 DEF establish_session, IInv, TypeOK, FirstDelay, PausesAlike
  <2>2. CASE ~ok
    BY <1>2, <1>t, <2>2, LostKeeps DEF establish_session, Unmet
  <2> QED BY <2>1, <2>2
<1>3. ASSUME NEW r \in Readers, register_reader(r) PROVE IInv'
  BY <1>3 DEF register_reader, IInv, TypeOK, FirstDelay, PausesAlike
<1>4. ASSUME start_command_channel PROVE IInv'
  BY <1>4 DEF start_command_channel, IInv, TypeOK, FirstDelay, PausesAlike
<1>5. ASSUME heartbeat_tick PROVE IInv'
  BY <1>5 DEF heartbeat_tick, IInv, TypeOK, FirstDelay, PausesAlike
<1>6. ASSUME NEW valid \in BOOLEAN, heartbeat_ok(valid) PROVE IInv'
  <2>1. CASE valid
    BY <1>6, <2>1, LoopAssumption
       DEF heartbeat_ok, IInv, TypeOK, FirstDelay, PausesAlike
  <2>2. CASE ~valid
    BY <1>6, <1>t, <2>2, LostKeeps DEF heartbeat_ok
  <2> QED BY <2>1, <2>2
<1>7. ASSUME heartbeat_fails PROVE IInv'
  <2>1. CASE failures + 1 >= MaxHeartbeatFailures
    BY <1>7, <1>t, <2>1, LostKeeps DEF heartbeat_fails
  <2>2. CASE ~(failures + 1 >= MaxHeartbeatFailures)
    <3>1. failures + 1 \in 0 .. MaxHeartbeatFailures - 1
      BY <1>t, <2>2, LoopAssumption DEF TypeOK
    <3> QED BY <1>7, <2>2, <3>1
            DEF heartbeat_fails, IInv, TypeOK, FirstDelay, PausesAlike
  <2> QED BY <2>1, <2>2
<1>8. ASSUME cmd_shutdown PROVE IInv'
  BY <1>8, <1>t, LostKeeps DEF cmd_shutdown
<1>9. ASSUME shutdown_in_loop \/ shutdown_in_backoff PROVE IInv'
  BY <1>9, StopKeeps DEF shutdown_in_loop, shutdown_in_backoff
<1>10. ASSUME sleep_over PROVE IInv'
  <2>1. CASE shutdown
    BY <1>10, <2>1, StopKeeps DEF sleep_over
  <2>2. CASE ~shutdown
    <3>1. config.reconnect_delay \in Nat
      BY <1>t, ConfigAssumption DEF TypeOK, ClientSettings
    <3> QED BY <1>10, <2>2, <3>1, LoopAssumption
            DEF sleep_over, reset, IInv, TypeOK, FirstDelay, PausesAlike
  <2> QED BY <2>1, <2>2
<1>11. ASSUME ctrl_c PROVE IInv'
  BY <1>11 DEF ctrl_c, IInv, TypeOK, FirstDelay, PausesAlike
<1>12. ASSUME task_ends PROVE IInv'
  BY <1>12 DEF task_ends, IInv, TypeOK, FirstDelay, PausesAlike
<1>13. CASE UNCHANGED vars
  BY <1>13 DEF vars, IInv, TypeOK, FirstDelay, PausesAlike
<1> QED BY <1>1, <1>2, <1>3, <1>4, <1>5, <1>6, <1>7, <1>8, <1>9, <1>10, <1>11, <1>12, <1>13
        DEF Next, RpcReturns, Select, Backoff

(* The inductive invariant holds. *)
THEOREM Invariance == Spec => []IInv
  BY InitInvariant, StepInvariant, PTL DEF Spec

(* The process is in a state of its type. *)
THEOREM TypeCorrect == Spec => []TypeOK
<1>1. IInv => TypeOK
  BY DEF IInv
<1> QED BY <1>1, Invariance, PTL

(* However often connecting fails in a row, and whatever delays are set:    *)
(* main waits for the first of them each time, as it resets its delay       *)
(* before it connects and not after.  This is what BackoffGrows runs into.  *)
THEOREM PausesAlwaysAlike == Spec => []PausesAlike
<1>1. IInv => PausesAlike
  BY DEF IInv
<1> QED BY <1>1, Invariance, PTL

(* Once Ctrl+C has been pressed no step begins a new connection. *)
THEOREM NoneAfterShutdown == Spec => NoStartAfterShutdown
<1> DEFINE NoStart == shutdown => (pc' = "connect" => pc = "connect")
<1>1. Next => NoStart
  BY DEF Next, RpcReturns, Select, Backoff, connect_with_tls, establish_session, register_reader,
         heartbeat_ok, heartbeat_fails, heartbeat_tick, cmd_shutdown, shutdown_in_loop,
         shutdown_in_backoff, sleep_over, Stop, start_command_channel, ctrl_c, task_ends,
         ConnectionLost
<1>2. [Next]_vars => [NoStart]_vars
  BY <1>1
<1>3. Spec => [][NoStart]_vars
  BY <1>2, PTL DEF Spec
<1> QED BY <1>3 DEF NoStartAfterShutdown

----------------------------------------------------------------------------
(* On a network that fails and with a server that restarts.                 *)

(* FairRecovery without its fairness. *)
SpecRecovery == InitRecovery /\ [][NextRecovery]_allVars

NetworkTypes ==
    /\ net \in {"good", "bad"} /\ link \in {"none", "alive", "dead"}
    /\ known \in BOOLEAN /\ broken \in BOOLEAN
    /\ acked \in BOOLEAN /\ (acked => Asking)

(* The network and what the server knows keep their types. *)
LEMMA NetworkType == SpecRecovery => []NetworkTypes
<1>1. InitRecovery => NetworkTypes
  BY DEF InitRecovery, NetworkTypes
<1>2. NetworkTypes /\ [NextRecovery]_allVars => NetworkTypes'
  <2> SUFFICES ASSUME NetworkTypes, [NextRecovery]_allVars PROVE NetworkTypes'
    OBVIOUS
  <2> USE DEF NetworkTypes
  <2>1. CASE RpcStep
    <3>1. CASE connect_to_server
      <4>1. ~acked
        BY <3>1 DEF connect_to_server, connect_with_tls, Asking
      <4> QED BY <3>1, <4>1 DEF connect_to_server
    <3>2. CASE establish \/ heartbeat \/ \E r \in Readers : register(r)
      BY <3>2 DEF establish, register, heartbeat, Rpc
    <3> QED BY <2>1, <3>1, <3>2 DEF RpcStep
  <2>2. CASE request_arrives
    BY <2>2 DEF request_arrives, vars, Asking
  <2>3. CASE open_channel
    BY <2>3 DEF open_channel, start_command_channel, Asking
  <2>4. CASE \/ LocalStep(heartbeat_tick) \/ LocalStep(cmd_shutdown)
             \/ LocalStep(shutdown_in_loop) \/ LocalStep(Backoff) \/ LocalStep(ctrl_c)
             \/ stream_ends
    <3>1. Asking => Asking'
      BY <2>4 DEF LocalStep, stream_ends, heartbeat_tick, cmd_shutdown, shutdown_in_loop,
        Backoff, shutdown_in_backoff, sleep_over, ctrl_c, task_ends, Asking
    <3> QED BY <2>4, <3>1 DEF LocalStep, stream_ends, recoveryVars
  <2>5. CASE outage \/ link_dies \/ server_restarts \/ outage_ends
    <3>1. UNCHANGED vars /\ acked' = acked
      BY <2>5 DEF outage, link_dies, server_restarts, outage_ends
    <3>2. Asking' <=> Asking
      BY <3>1 DEF vars, Asking
    <3> QED BY <2>5, <3>1, <3>2 DEF outage, link_dies, server_restarts, outage_ends
  <2>6. CASE UNCHANGED allVars
    BY <2>6 DEF allVars, recoveryVars, vars, Asking
  <2> QED BY <2>1, <2>2, <2>3, <2>4, <2>5, <2>6 DEF NextRecovery
<1> QED BY <1>1, <1>2, PTL DEF SpecRecovery

(* What happens there to the process is a step of ClientLoop, or nothing.   *)
LEMMA ProcessStep == NetworkTypes /\ [NextRecovery]_allVars => [Next]_vars
<1> SUFFICES ASSUME NetworkTypes, [NextRecovery]_allVars PROVE [Next]_vars
  OBVIOUS
<1>1. CASE RpcStep
  <2>1. CASE connect_to_server
    BY <2>1 DEF connect_to_server, Next, RpcReturns
  <2>2. CASE establish
    BY <2>2 DEF establish, Next, RpcReturns
  <2>3. CASE \E r \in Readers : register(r)
    BY <2>3 DEF register, Next, RpcReturns
  <2>4. CASE heartbeat
    <3>1. known \in BOOLEAN
      BY DEF NetworkTypes
    <3> QED BY <2>4, <3>1 DEF heartbeat, Next, RpcReturns
  <2> QED BY <1>1, <2>1, <2>2, <2>3, <2>4 DEF RpcStep
<1>2. CASE request_arrives
  BY <1>2 DEF request_arrives
<1>3. CASE open_channel
  BY <1>3 DEF open_channel, Next
<1>4. CASE \/ LocalStep(heartbeat_tick) \/ LocalStep(cmd_shutdown) \/ LocalStep(shutdown_in_loop)
           \/ LocalStep(Backoff) \/ LocalStep(ctrl_c)
  BY <1>4 DEF LocalStep, Next, Select
<1>5. CASE stream_ends
  BY <1>5 DEF stream_ends, Next
<1>6. CASE outage \/ link_dies \/ server_restarts \/ outage_ends
  BY <1>6 DEF outage, link_dies, server_restarts, outage_ends
<1>7. CASE UNCHANGED allVars
  BY <1>7 DEF allVars
<1> QED BY <1>1, <1>2, <1>3, <1>4, <1>5, <1>6, <1>7 DEF NextRecovery

(* ClientRecovery implements ClientLoop: the outcomes of RPCs and the end of*)
(* a command task that a network and a server bring about are ones that     *)
(* ClientLoop allows.                                                       *)
THEOREM RecoveryImplementsLoop == SpecRecovery => Spec
<1>1. InitRecovery => Init
  BY DEF InitRecovery
<1> QED BY <1>1, ProcessStep, NetworkType, PTL DEF SpecRecovery, Spec

(* The process is in a state of its type whatever the network does, and so  *)
(* are the network and what the server knows.                               *)
THEOREM RecoveryTypeCorrect == SpecRecovery => []RecoveryTypeOK
<1>1. TypeOK /\ NetworkTypes => RecoveryTypeOK
  BY DEF RecoveryTypeOK, NetworkTypes
<1> QED BY <1>1, NetworkType, RecoveryImplementsLoop, TypeCorrect, PTL

(* So the process begins no connection after Ctrl+C there either, and all   *)
(* its pauses are the first delay.                                          *)
THEOREM RecoveryAfterShutdown == SpecRecovery => NoStartAfterShutdown /\ []PausesAlike
  BY RecoveryImplementsLoop, NoneAfterShutdown, PausesAlwaysAlike, PTL

=============================================================================
