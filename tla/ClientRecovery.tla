--------------------------- MODULE ClientRecovery ---------------------------
(***************************************************************************)
(* The client process of ClientLoop on a network that fails and with a      *)
(* server that restarts: what comes of its RPCs, and when its command task  *)
(* ends, is no longer up to anybody.                                        *)
(*                                                                          *)
(* All RPCs of a run_connection, and its command stream, share one tonic    *)
(* channel.  The channel has one HTTP/2 connection at a time, and makes a   *)
(* new one for the RPC after the one that failed; streams do not move along.*)
(* There are no timeouts and no keepalive: an RPC fails only when its       *)
(* connection is seen to fail, and a client that has had its request        *)
(* acknowledged sends nothing more that could tell.                         *)
(***************************************************************************)
EXTENDS ClientLoop

VARIABLES
    net,      \* whether the server runs and can be reached
    link,     \* the channel's connection: none, alive, or dead and not noticed
    known,    \* whether the server has the session of this run_connection
    broken,   \* whether the connection of its command stream has died
    acked     \* whether the server's host has the request of the RPC at hand

recoveryVars == <<net, link, known, broken, acked>>
allVars == <<vars, recoveryVars>>

(* An RPC on the channel is on its way; connecting is none yet.             *)
Asking == pc \in {"establish", "heartbeat"} \/ (pc = "register" /\ todo # {})

RecoveryTypeOK ==
    /\ TypeOK
    /\ net \in {"good", "bad"}
    /\ link \in {"none", "alive", "dead"}
    /\ known \in BOOLEAN
    /\ broken \in BOOLEAN
    /\ acked \in BOOLEAN
    /\ acked => Asking

InitRecovery ==
    /\ Init
    /\ net \in {"good", "bad"}
    /\ link = "none"
    /\ known = FALSE
    /\ broken = FALSE
    /\ acked = FALSE

----------------------------------------------------------------------------
(* An RPC on the channel: it waits for as long as its connection is alive   *)
(* and the server cannot be reached, and fails if the connection is dead or *)
(* cannot be made.                                                          *)
Waits == link = "alive" /\ net = "bad"
Works == link # "dead" /\ net = "good"

Rpc(ok) ==
    /\ ~Waits
    /\ ok = Works
    /\ link' = IF ok THEN "alive" ELSE "none"
    /\ acked' = FALSE

(* The request of an RPC reaches the server, whose host acknowledges it.    *)
request_arrives ==
    /\ Asking
    /\ Works
    /\ ~acked
    /\ acked' = TRUE
    /\ link' = "alive"
    /\ UNCHANGED <<vars, net, known, broken>>

(* connect_with_tls makes the channel, with a connection of its own.        *)
connect_to_server ==
    /\ connect_with_tls(net = "good")
    /\ link' = IF net = "good" THEN "alive" ELSE "none"
    /\ UNCHANGED <<net, known, broken, acked>>

(* EstablishSession: a session the server knows until it is restarted.      *)
establish ==
    /\ \E ok \in BOOLEAN : establish_session(ok) /\ Rpc(ok) /\ known' = ok
    /\ UNCHANGED <<net, broken>>

(* UpdateReaderInfo: also when it fails, run_connection goes on.            *)
register(r) ==
    /\ register_reader(r)
    /\ \E ok \in BOOLEAN : Rpc(ok)
    /\ UNCHANGED <<net, known, broken>>

(* The CommandChannel call is made by the task: it fails, or its stream ends*)
(* at once, without a connection or with a session the server does not know.*)
open_channel ==
    /\ start_command_channel
    /\ broken' = ~(known /\ (Works \/ Waits))
    /\ link' \in IF Works \/ Waits THEN {"alive"} ELSE {link, "none"}
    /\ UNCHANGED <<net, known, acked>>

(* Heartbeat: the answer says whether the server knows the session.         *)
heartbeat ==
    /\ \/ heartbeat_ok(known) /\ Rpc(TRUE)
       \/ heartbeat_fails /\ Rpc(FALSE)
    /\ UNCHANGED <<net, known, broken>>

RpcStep ==
    \/ connect_to_server
    \/ establish
    \/ \E r \in Readers : register(r)
    \/ heartbeat

(* Steps of the process that do not touch the network; a new run_connection *)
(* has nothing of the channel before it.                                    *)
LocalStep(A) == A /\ UNCHANGED recoveryVars

(* The command task notices that its stream is over: heartbeats on the same *)
(* connection meet its end, if nothing else does.                           *)
stream_ends ==
    /\ task_ends
    /\ broken
    /\ UNCHANGED recoveryVars

----------------------------------------------------------------------------
(* The network and the server.                                              *)

(* The server stops or cannot be reached.  A stopped server closes its      *)
(* connections; otherwise they may survive.                                 *)
outage ==
    /\ net = "good"
    /\ net' = "bad"
    /\ UNCHANGED <<vars, link, known, broken, acked>>

(* The connection is given up by one of the two sides, by TCP after its     *)
(* retransmissions for one; the other side need not notice.                 *)
link_dies ==
    /\ Waits
    /\ link' = "dead"
    /\ broken' = TRUE
    /\ UNCHANGED <<vars, net, known, acked>>

(* A new server process has no sessions and none of the connections.        *)
server_restarts ==
    /\ net = "bad"
    /\ known' = FALSE
    /\ broken' = TRUE
    /\ link' = IF link = "alive" THEN "dead" ELSE link
    /\ UNCHANGED <<vars, net, acked>>

outage_ends ==
    /\ net = "bad"
    /\ net' = "good"
    /\ UNCHANGED <<vars, link, known, broken, acked>>

NextRecovery ==
    \/ RpcStep \/ request_arrives
    \/ open_channel
    \/ LocalStep(heartbeat_tick) \/ LocalStep(cmd_shutdown) \/ LocalStep(shutdown_in_loop)
    \/ LocalStep(Backoff)
    \/ LocalStep(ctrl_c)
    \/ stream_ends
    \/ outage \/ link_dies \/ server_restarts \/ outage_ends

(* The client waits for the answer to a request that the server's host has  *)
(* acknowledged, while nothing comes through: it has nothing left to send,  *)
(* so if the connection dies it need never hear of it.                      *)
Unheard == acked /\ ~Works

(* select! polls its branches in a random order, so one that is ready each  *)
(* time it is polled is taken some time; pauses end; the end of a stream is *)
(* noticed.  TCP sends again what is not acknowledged, so that it gets      *)
(* through if the server can be reached time and again, and gives up a      *)
(* connection over which no acknowledgement comes back.                     *)
FairRecovery ==
    /\ InitRecovery /\ [][NextRecovery]_allVars
    /\ SF_allVars(~Unheard /\ RpcStep) /\ WF_allVars(open_channel)
    /\ WF_allVars(LocalStep(heartbeat_tick)) /\ WF_allVars(LocalStep(Backoff))
    /\ SF_allVars(LocalStep(cmd_shutdown)) /\ SF_allVars(LocalStep(shutdown_in_loop))
    /\ WF_allVars(stream_ends)
    /\ WF_allVars(~acked /\ link_dies)

----------------------------------------------------------------------------
(* Properties.                                                              *)

(* The client does not wait for good for an answer that cannot come.        *)
Heard == []<>~Unheard

(* Ctrl+C ends the process, wherever it is and whatever has failed.  The    *)
(* only thing that keeps it from ending is an RPC that never returns: one   *)
(* acknowledged by a host that then vanished, as RPCs have no timeout.      *)
ShutdownStopsIfHeard == Heard => ShutdownStops

(* A connection whose command task has ended is left, though heartbeats may *)
(* go on succeeding on a new HTTP/2 connection, except for such an RPC.     *)
DeadChannelLeftIfHeard == Heard => DeadChannelLeft

(* The client sends heartbeats for a session the server knows, and its      *)
(* command stream is on a connection that is alive.                         *)
Served ==
    /\ pc \in {"loop", "heartbeat"}
    /\ task = "running"
    /\ known /\ ~broken

(* "Automatic reconnection": whatever has failed, and wherever the client   *)
(* was at the time, once the server can be reached for good the client comes*)
(* to be served and stays so, unless it was told to end or not to reconnect *)
(* or waits for an answer that was lost with a connection it never hears of.*)
Recovers ==
    Heard /\ <>[](net = "good") => <>[](Served \/ shutdown \/ config.no_reconnect)

=============================================================================
