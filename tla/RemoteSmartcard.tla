--------------------------- MODULE RemoteSmartcard ---------------------------
(***************************************************************************)
(* The relay of smartcard commands.  On the server, one vpcd client per     *)
(* announced reader with a card (server/src/vpcd.rs) takes requests from    *)
(* vpcd, files them with the session and puts them on the session's command *)
(* channel; the gRPC handlers (server/src/grpc_service.rs) create sessions, *)
(* register readers and channels and take responses.  On the client, a task *)
(* per connection (client/src/grpc_client.rs) takes commands one at a time, *)
(* runs each on the local reader and sends the response by an RPC of its    *)
(* own.  Everything on the server that touches the session table holds the  *)
(* write or read guard of one RwLock.                                       *)
(*                                                                          *)
(* The vpcd process, the network and the cards are the environment.         *)
(***************************************************************************)
EXTENDS SessionManager, Sequences, FiniteSets

CONSTANTS
    AtrRequests,   \* requests that are GetATR; the others carry an APDU
    QueueCap,      \* commands mpsc::channel(100) and the HTTP/2 window hold
    ChannelPolls,  \* polls of wait_for_command_channel (300)
    VpcdSlots,     \* connections vpcd serves at once on its one port
    CardInfos,     \* what clients may announce of a reader
    MaxFaults,     \* bound: failures of the environment in a behaviour
    NoReq, NoWorker, NoSession, NoCmd

Workers == SessionIds \X Readers   \* vpcd clients, by their set_target

ASSUME RelayAssumption ==
    /\ AtrRequests \subseteq Requests
    /\ QueueCap \in Nat \ {0}
    /\ ChannelPolls \in Nat \ {0}
    /\ VpcdSlots \in Nat \ {0}
    /\ CardInfos \subseteq KnownInfos
    /\ MaxFaults \in Nat
    /\ NoReq \notin Requests
    /\ NoWorker \notin Workers
    /\ NoSession \notin SessionIds

VARIABLES
    lock,      \* the vpcd client that keeps the write guard, or NoWorker
    handler,   \* handler[c]: the task spawned by command_channel
    rx,        \* rx[c]: whether the receiver of c's command queue lives
    stream,    \* stream[c]: the bidirectional stream of connection c
    queue,     \* queue[c]: commands on their way to connection c
    worker,    \* worker[w]: the vpcd client of w
    port,      \* port[w]: whether vpcd serves w's connection
    ask,       \* ask[w]: the request vpcd waits for on w's connection
    answer,    \* answer[q]: how request q was answered
    client,    \* client[c]: run_connection up to its channel, then the task
    inflight,  \* SendCommandResponse requests the server has not handled
    faults,    \* failures of the environment so far
    asked,     \* history: requests put to w, in order
    ran        \* history: requests run on the reader of w, in order

serverVars == <<lock, handler, rx, worker>>
vpcdVars == <<port, ask, answer, asked>>
clientVars == <<client, ran>>
netVars == <<stream, queue, inflight>>
vars == <<sessionVars, serverVars, vpcdVars, clientVars, netVars, faults>>

Commands == [cid : Nat, req : Requests, reader : Readers]

(* A CommandResponse: success flag, the request the card replied to, and    *)
(* the card that did, named by the client's session and the reader.         *)
Replies == [ok : BOOLEAN, req : Requests, by : Workers]
NoReply == [ok |-> FALSE, req |-> NoReq, by |-> NoWorker]

Virtual == INSTANCE VirtualReader WITH Ports <- Workers, NoPort <- NoWorker

Answers == [src : {"none", "error", "cache", "card"},
            req : Requests \cup {NoReq}, by : Workers \cup {NoWorker}]

(* A vpcd client: where it is, the request it works on, the id it filed, its*)
(* polls for a channel and what arrived in its oneshot.                     *)
WorkerStates ==
    [pc : {"off", "connecting", "idle", "atr", "wait", "send", "blocked", "await"},
     req : Requests \cup {NoReq}, cid : Nat, polls : Nat,
     mail : Replies \cup {NoReply}]

(* A connection: where it is, its session, the readers it has still to      *)
(* register, and the command at hand.                                       *)
ClientStates ==
    [pc : {"start", "register", "recv", "exec", "respond", "gone"},
     sid : SessionIds \cup {NoSession}, todo : SUBSET Readers,
     cmd : Commands \cup {NoCmd}]

(* A SendCommandResponse request, with the connection it came from.         *)
Responses == [conn : Conns, sid : SessionIds, cid : Nat, reply : Replies]

TypeOK ==
    /\ SessionTypeOK
    /\ lock \in Workers \cup {NoWorker}
    /\ handler \in [Conns -> {"none", "new", "serving", "ended"}]
    /\ rx \in [Conns -> BOOLEAN]
    /\ stream \in [Conns -> {"none", "open", "broken"}]
    /\ queue \in [Conns -> Seq(Commands)]
    /\ worker \in [Workers -> WorkerStates]
    /\ port \in [Workers -> {"up", "down"}]
    /\ ask \in [Workers -> Requests \cup {NoReq}]
    /\ answer \in [Requests -> Answers]
    /\ client \in [Conns -> ClientStates]
    /\ inflight \subseteq Responses
    /\ faults \in Nat
    /\ asked \in [Workers -> Seq(Requests)]
    /\ ran \in [Workers -> Seq(Requests)]

(* VpcdClient::new: no connection, no request, nothing received.            *)
StoppedWorker == [pc |-> "off", req |-> NoReq, cid |-> 0, polls |-> 0, mail |-> NoReply]

Init ==
    /\ SessionInit
    /\ lock = NoWorker
    /\ handler = [c \in Conns |-> "none"]
    /\ rx = [c \in Conns |-> FALSE]
    /\ stream = [c \in Conns |-> "none"]
    /\ queue = [c \in Conns |-> << >>]
    /\ worker = [w \in Workers |-> StoppedWorker]
    /\ Virtual!Init
    /\ client = [c \in Conns |-> [pc |-> "start", sid |-> NoSession,
                                  todo |-> Readers, cmd |-> NoCmd]]
    /\ inflight = {}
    /\ faults = 0
    /\ asked = [w \in Workers |-> << >>]
    /\ ran = [w \in Workers |-> << >>]

Unlocked == lock = NoWorker

Fault == faults < MaxFaults /\ faults' = faults + 1

(* Work that has been done or handed over never repeats: a request is fresh *)
(* until some vpcd client has been asked it.                                *)
Fresh(q) == \A w \in Workers : \A i \in DOMAIN asked[w] : asked[w][i] # q

----------------------------------------------------------------------------
(* Setting up a connection: run_connection and the handlers it calls.       *)

(* EstablishSession.  The response may get lost, which leaves the server    *)
(* with a session no client knows of and ends run_connection.               *)
establish_session(c, s, delivered) ==
    /\ client[c].pc = "start"
    /\ Unlocked
    /\ create_session(s)
    /\ (IF delivered THEN UNCHANGED faults ELSE Fault)
    /\ client' = IF delivered
                 THEN [client EXCEPT ![c].pc = "register", ![c].sid = s]
                 ELSE [client EXCEPT ![c].pc = "gone"]
    /\ UNCHANGED <<serverVars, vpcdVars, netVars, ran>>

(* start_client is called for a new reader that has a card.                 *)
StartsVpcdClient(s, r, info) ==
    /\ readers[s][r] = "unknown"
    /\ info # "no_card"

(* UpdateReaderInfo for one reader of the list made before connecting: the  *)
(* session learns of it and a vpcd client may start; an unknown session is  *)
(* refused.  Either way the client goes on with its next reader.            *)
update_reader_info(c, r, info) ==
    /\ client[c].pc = "register"
    /\ r \in client[c].todo
    /\ Unlocked
    /\ client' = [client EXCEPT ![c].todo = @ \ {r}]
    /\ LET s == client[c].sid IN
       IF s \in sessions
       THEN /\ update_reader(s, r, info)
            /\ worker' = IF StartsVpcdClient(s, r, info)
                         THEN [worker EXCEPT ![<<s, r>>].pc = "connecting"]
                         ELSE worker
       ELSE UNCHANGED <<sessionVars, worker>>
    /\ UNCHANGED <<lock, handler, rx, vpcdVars, netVars, ran, faults>>

(* The same RPC fails before it reaches the server: only a warning.         *)
register_reader_fails(c, r) ==
    /\ Fault
    /\ client[c].pc = "register"
    /\ r \in client[c].todo
    /\ client' = [client EXCEPT ![c].todo = @ \ {r}]
    /\ UNCHANGED <<sessionVars, serverVars, vpcdVars, netVars, ran>>

(* start_command_channel: the stream is opened, the server makes the queue  *)
(* and spawns the task that reads from the stream.                          *)
start_command_channel(c) ==
    /\ client[c].pc = "register"
    /\ client[c].todo = {}
    /\ client' = [client EXCEPT ![c].pc = "recv"]
    /\ handler' = [handler EXCEPT ![c] = "new"]
    /\ rx' = [rx EXCEPT ![c] = TRUE]
    /\ stream' = [stream EXCEPT ![c] = "open"]
    /\ UNCHANGED <<sessionVars, lock, worker, vpcdVars, queue, inflight, ran, faults>>

(* The task reads the initial message, with command id 0: it registers the  *)
(* queue with the session, or ends at once when there is no such session.   *)
register_channel(c) ==
    /\ handler[c] = "new"
    /\ Unlocked
    /\ IF client[c].sid \in sessions
       THEN /\ set_command_channel(client[c].sid, c)
            /\ handler' = [handler EXCEPT ![c] = "serving"]
       ELSE /\ handler' = [handler EXCEPT ![c] = "ended"]
            /\ UNCHANGED sessionVars
    /\ UNCHANGED <<lock, rx, worker, vpcdVars, clientVars, netVars, faults>>

(* The stream breaks before its first message arrives: nothing to clean up. *)
channel_without_message(c) ==
    /\ handler[c] = "new"
    /\ stream[c] = "broken"
    /\ handler' = [handler EXCEPT ![c] = "ended"]
    /\ UNCHANGED <<sessionVars, lock, rx, worker, vpcdVars, clientVars, netVars, faults>>

(* Mutant: the task ends without clearing the session's channel.            *)
end_channel_uncleared(c) ==
    /\ handler[c] = "serving"
    /\ stream[c] = "broken"
    /\ handler' = [handler EXCEPT ![c] = "ended"]
    /\ UNCHANGED <<sessionVars, lock, rx, worker, vpcdVars, clientVars, netVars, faults>>

(* The stream ends: the task clears the session's channel.                  *)
end_channel(c) ==
    /\ handler[c] = "serving"
    /\ stream[c] = "broken"
    /\ Unlocked
    /\ handler' = [handler EXCEPT ![c] = "ended"]
    /\ IF client[c].sid \in sessions
       THEN clear_command_channel(client[c].sid)
       ELSE UNCHANGED sessionVars
    /\ UNCHANGED <<lock, rx, worker, vpcdVars, clientVars, netVars, faults>>

----------------------------------------------------------------------------
(* The vpcd client: connect, its message loop and the forwarding of one     *)
(* request, which it completes before it reads the next.                    *)

(* TcpStream::connect succeeds and vpcd takes the connection.  All vpcd     *)
(* clients use the one host and port the server was started with, so one    *)
(* that vpcd has no room for waits (here: goes on connecting).              *)
connect(w) ==
    /\ worker[w].pc = "connecting"
    /\ Cardinality({v \in Workers : port[v] = "up"}) < VpcdSlots
    /\ worker' = [worker EXCEPT ![w].pc = "idle"]
    /\ port' = [port EXCEPT ![w] = "up"]
    /\ UNCHANGED <<sessionVars, lock, handler, rx, ask, answer, asked,
                   clientVars, netVars, faults>>

(* The loop ends on the closed connection; after a pause it starts again.   *)
disconnected(w) ==
    /\ worker[w].pc = "idle"
    /\ port[w] = "down"
    /\ worker' = [worker EXCEPT ![w].pc = "connecting"]
    /\ UNCHANGED <<sessionVars, lock, handler, rx, vpcdVars, clientVars, netVars, faults>>

(* receive_message: vpcd sends a request on a connection it holds.  Powering*)
(* the card off or on and resetting it have no response and no effect.      *)
receive_message(w, q) ==
    /\ worker[w].pc = "idle"
    /\ port[w] = "up"
    /\ Fresh(q)
    /\ ask' = [ask EXCEPT ![w] = q]
    /\ asked' = [asked EXCEPT ![w] = Append(@, q)]
    /\ worker' = [worker EXCEPT ![w].pc = IF q \in AtrRequests THEN "atr" ELSE "wait",
                                ![w].req = q]
    /\ UNCHANGED <<sessionVars, lock, handler, rx, port, answer, clientVars,
                   netVars, faults>>

(* handle_message returns answer a, send_response sends it and the vpcd     *)
(* client reads on.  With the connection gone the write or the next read    *)
(* fails, the answer is lost and the vpcd client connects anew.             *)
Finish(w, a) ==
    /\ worker' = [worker EXCEPT
           ![w] = [StoppedWorker EXCEPT
                      !.pc = IF port[w] = "up" THEN "idle" ELSE "connecting"]]
    /\ answer' = IF port[w] = "up" THEN [answer EXCEPT ![worker[w].req] = a] ELSE answer
    /\ ask' = [ask EXCEPT ![w] = NoReq]
    /\ UNCHANGED <<port, asked>>

(* get_atr_from_client looks for the ATR in the session first; without one  *)
(* it goes on as forward_apdu does, with a GetAtr command.                  *)
HasCachedAtr(w) == w[1] \in sessions /\ readers[w[1]][w[2]] = "atr"

get_atr_from_client(w) ==
    /\ worker[w].pc = "atr"
    /\ Unlocked
    /\ IF HasCachedAtr(w)
       THEN Finish(w, Virtual!CachedAtr(w))
       ELSE /\ worker' = [worker EXCEPT ![w].pc = "wait"]
            /\ UNCHANGED vpcdVars
    /\ UNCHANGED <<sessionVars, lock, handler, rx, clientVars, netVars, faults>>

HasChannel(s) == s \in sessions /\ channel[s] # NoConn

(* Mutant: the polls are not counted. *)
wait_for_ever(w) ==
    /\ worker[w].pc = "wait"
    /\ Unlocked
    /\ IF HasChannel(w[1])
       THEN worker' = [worker EXCEPT ![w].pc = "send"] /\ UNCHANGED vpcdVars
       ELSE IF w[1] \in sessions THEN UNCHANGED <<worker, vpcdVars>>
       ELSE Finish(w, Virtual!ErrorAnswer)
    /\ UNCHANGED <<sessionVars, lock, handler, rx, clientVars, netVars, faults>>

(* One turn of wait_for_command_channel: the channel is there, or one more  *)
(* poll was in vain, or the session is gone or that was the last poll.      *)
wait_for_command_channel(w) ==
    /\ worker[w].pc = "wait"
    /\ Unlocked
    /\ CASE HasChannel(w[1]) ->
              /\ worker' = [worker EXCEPT ![w].pc = "send"]
              /\ UNCHANGED vpcdVars
         [] ~HasChannel(w[1]) /\ w[1] \in sessions /\ worker[w].polls + 1 < ChannelPolls ->
              /\ worker' = [worker EXCEPT ![w].polls = @ + 1]
              /\ UNCHANGED vpcdVars
         [] OTHER -> Finish(w, Virtual!ErrorAnswer)
    /\ UNCHANGED <<sessionVars, lock, handler, rx, clientVars, netVars, faults>>

(* Mutants: a command for any one reader of the session; a command with an  *)
(* id that is not the one its request is filed under.                       *)
Command_any_reader(w, cid) ==
    [cid |-> cid, req |-> worker[w].req, reader |-> CHOOSE r \in Readers : TRUE]
Command_other_id(w, cid) == [cid |-> cid + 1, req |-> worker[w].req, reader |-> w[2]]

Command(w, cid) == [cid |-> cid, req |-> worker[w].req, reader |-> w[2]]

(* send_command_async, which runs under the write guard: the request is     *)
(* filed, then the command is put on the queue.  With no channel any more   *)
(* nothing is filed; with the receiver gone the filed entry stays behind;   *)
(* with the queue full the vpcd client waits for room and keeps the guard.  *)
send_command_async(w) ==
    /\ worker[w].pc = "send"
    /\ Unlocked
    /\ IF ~HasChannel(w[1])
       THEN /\ Finish(w, Virtual!ErrorAnswer)
            /\ UNCHANGED <<sessionVars, lock, queue>>
       ELSE LET c == channel[w[1]] IN
            /\ store_pending(w[1], worker[w].req)
            /\ CASE ~rx[c] ->
                      /\ Finish(w, Virtual!ErrorAnswer)
                      /\ UNCHANGED <<lock, queue>>
                 [] rx[c] /\ Len(queue[c]) >= QueueCap ->
                      /\ worker' = [worker EXCEPT ![w].pc = "blocked", ![w].cid = nextId]
                      /\ lock' = w
                      /\ UNCHANGED <<queue, vpcdVars>>
                 [] OTHER ->
                      /\ queue' = [queue EXCEPT ![c] = Append(@, Command(w, nextId))]
                      /\ worker' = [worker EXCEPT ![w].pc = "await", ![w].cid = nextId]
                      /\ UNCHANGED <<lock, vpcdVars>>
    /\ UNCHANGED <<handler, rx, stream, inflight, clientVars, faults>>

(* The send that waited for room goes through, or fails with the receiver;  *)
(* then the guard is dropped.                                               *)
send_unblocked(w) ==
    /\ lock = w
    /\ LET c == channel[w[1]] IN
       \/ /\ rx[c]
          /\ Len(queue[c]) < QueueCap
          /\ queue' = [queue EXCEPT ![c] = Append(@, Command(w, worker[w].cid))]
          /\ worker' = [worker EXCEPT ![w].pc = "await"]
          /\ UNCHANGED vpcdVars
       \/ /\ ~rx[c]
          /\ Finish(w, Virtual!ErrorAnswer)
          /\ UNCHANGED queue
    /\ lock' = NoWorker
    /\ UNCHANGED <<sessionVars, handler, rx, stream, inflight, clientVars, faults>>

(* The response is used if it is a success of the expected kind.            *)
AnswerFrom(reply, q) ==
    IF reply.ok /\ (reply.req \in AtrRequests <=> q \in AtrRequests)
    THEN Virtual!CardReply(reply.req, reply.by)
    ELSE Virtual!ErrorAnswer

response_received(w) ==
    /\ worker[w].pc = "await"
    /\ worker[w].mail # NoReply
    /\ Finish(w, AnswerFrom(worker[w].mail, worker[w].req))
    /\ UNCHANGED <<sessionVars, lock, handler, rx, clientVars, netVars, faults>>

(* The oneshot sender was dropped without a response.                       *)
response_channel_closed(w) ==
    /\ worker[w].pc = "await"
    /\ worker[w].mail = NoReply
    /\ \A p \in pending[w[1]] : p[2] # worker[w].req
    /\ Finish(w, Virtual!ErrorAnswer)
    /\ UNCHANGED <<sessionVars, lock, handler, rx, clientVars, netVars, faults>>

(* 30 seconds pass: the receiver is dropped, the pending entry stays.       *)
response_timeout(w) ==
    /\ worker[w].pc = "await"
    /\ worker[w].mail = NoReply
    /\ Finish(w, Virtual!ErrorAnswer)
    /\ UNCHANGED <<sessionVars, lock, handler, rx, clientVars, netVars, faults>>

----------------------------------------------------------------------------
(* The client's task.                                                       *)

(* Mutant: the command is left on the stream. *)
receive_command_peeks(c) ==
    /\ client[c].pc = "recv"
    /\ queue[c] # << >>
    /\ client' = [client EXCEPT ![c].pc = "exec", ![c].cmd = Head(queue[c])]
    /\ UNCHANGED <<sessionVars, serverVars, vpcdVars, ran, netVars, faults>>

(* cmd_stream.next() yields a command. *)
receive_command(c) ==
    /\ client[c].pc = "recv"
    /\ queue[c] # << >>
    /\ client' = [client EXCEPT ![c].pc = "exec", ![c].cmd = Head(queue[c])]
    /\ queue' = [queue EXCEPT ![c] = Tail(@)]
    /\ UNCHANGED <<sessionVars, serverVars, vpcdVars, ran, stream, inflight, faults>>

(* process_command runs the command on the local reader, which succeeds or  *)
(* not (no card counts as success with an empty ATR, the same bytes to vpcd *)
(* as a failure), and send_command_response sends the outcome off.          *)
process_command(c, ok) ==
    /\ client[c].pc = "exec"
    /\ LET cmd == client[c].cmd
           by == <<client[c].sid, cmd.reader>> IN
       /\ ran' = [ran EXCEPT ![by] = Append(@, cmd.req)]
       /\ inflight' = inflight \cup
             {[conn |-> c, sid |-> client[c].sid, cid |-> cmd.cid,
               reply |-> [ok |-> ok, req |-> cmd.req, by |-> by]]}
    /\ client' = [client EXCEPT ![c].pc = "respond"]
    /\ UNCHANGED <<sessionVars, serverVars, vpcdVars, stream, queue, faults>>

(* SendCommandResponse on the server.  The response goes to whoever waits   *)
(* for its command id in its session; a session or an id that is not known  *)
(* or a receiver that has given up makes no difference to the client, which *)
(* reads its next command once this response, and not one of an earlier RPC *)
(* it has given up, is acknowledged.                                        *)
send_command_response(m) ==
    /\ m \in inflight
    /\ Unlocked
    /\ inflight' = inflight \ {m}
    /\ IF m.sid \in sessions /\ channel[m.sid] # NoConn
       THEN /\ remove_pending(m.sid, m.cid)
            /\ worker' = [w \in Workers |->
                 IF worker[w].pc = "await" /\ worker[w].req \in waiter(m.sid, m.cid)
                 THEN [worker[w] EXCEPT !.mail = m.reply] ELSE worker[w]]
       ELSE UNCHANGED <<sessionVars, worker>>
    /\ client' = IF client[m.conn].pc = "respond" /\ client[m.conn].cmd.cid = m.cid
                 THEN [client EXCEPT ![m.conn].pc = "recv", ![m.conn].cmd = NoCmd]
                 ELSE client
    /\ UNCHANGED <<lock, handler, rx, vpcdVars, ran, stream, queue, faults>>

(* The RPC fails at the client: the error is logged.  The request may be    *)
(* lost, or still be on its way to the server or to the lock there.         *)
response_rpc_fails(c, lost) ==
    /\ Fault
    /\ client[c].pc = "respond"
    /\ client' = [client EXCEPT ![c].pc = "recv", ![c].cmd = NoCmd]
    /\ inflight' = IF lost
                   THEN {m \in inflight : ~(m.conn = c /\ m.cid = client[c].cmd.cid)}
                   ELSE inflight
    /\ UNCHANGED <<sessionVars, serverVars, vpcdVars, ran, stream, queue>>

(* cmd_stream ends: broken, or closed by a server task that found no session*)
command_stream_ends(c) ==
    /\ client[c].pc = "recv"
    /\ \/ stream[c] = "broken"
       \/ handler[c] = "ended" /\ queue[c] = << >>
    /\ client' = [client EXCEPT ![c].pc = "gone"]
    /\ stream' = [stream EXCEPT ![c] = "broken"]
    /\ UNCHANGED <<sessionVars, serverVars, vpcdVars, ran, queue, inflight, faults>>

----------------------------------------------------------------------------
(* The environment.                                                         *)

(* vpcd closes a connection (pcscd ejects the card, or vpcd stops).         *)
vpcd_closes(w) ==
    /\ Fault
    /\ port[w] = "up"
    /\ port' = [port EXCEPT ![w] = "down"]
    /\ ask' = [ask EXCEPT ![w] = NoReq]
    /\ UNCHANGED <<sessionVars, serverVars, answer, asked, clientVars, netVars>>

stream_breaks(c) ==
    /\ Fault
    /\ stream[c] = "open"
    /\ stream' = [stream EXCEPT ![c] = "broken"]
    /\ UNCHANGED <<sessionVars, serverVars, vpcdVars, clientVars, queue, inflight>>

(* The server's HTTP/2 layer drops the receiver of a broken stream.  Of the *)
(* commands not taken yet, those already sent may still be delivered.       *)
drop_receiver(c) ==
    /\ rx[c]
    /\ stream[c] = "broken"
    /\ rx' = [rx EXCEPT ![c] = FALSE]
    /\ \E n \in 0 .. Len(queue[c]) : queue' = [queue EXCEPT ![c] = SubSeq(@, 1, n)]
    /\ UNCHANGED <<sessionVars, lock, handler, worker, vpcdVars, clientVars, stream,
                   inflight, faults>>

(* The client stops: its process ends and the stream with it, or its host   *)
(* or network goes away without a word and the stream stays as it is.       *)
client_stops(c, notified) ==
    /\ Fault
    /\ client[c].pc \notin {"start", "gone"}
    /\ client' = [client EXCEPT ![c].pc = "gone", ![c].cmd = NoCmd]
    /\ stream' = IF notified /\ stream[c] = "open"
                 THEN [stream EXCEPT ![c] = "broken"] ELSE stream
    /\ UNCHANGED <<sessionVars, serverVars, vpcdVars, ran, queue, inflight>>

(* The server process ends and starts again.  Nothing is stored: sessions,  *)
(* vpcd clients, tasks, queues and requests are gone, ids start over at 1.  *)
(* The clients live on, and their next RPC reaches the new process.         *)
server_restarts ==
    /\ Fault
    /\ EmptyTable(sessions', readers', channel', pending', nextId')
    /\ issued' = issued
    /\ lock' = NoWorker
    /\ handler' = [c \in Conns |-> IF handler[c] = "none" THEN "none" ELSE "ended"]
    /\ rx' = [c \in Conns |-> FALSE]
    /\ worker' = [w \in Workers |-> StoppedWorker]
    /\ port' = [w \in Workers |-> "down"]
    /\ ask' = [w \in Workers |-> NoReq]
    /\ stream' = [c \in Conns |-> IF stream[c] = "none" THEN "none" ELSE "broken"]
    /\ queue' = [c \in Conns |-> << >>]
    /\ inflight' = {}
    /\ UNCHANGED <<answer, asked, clientVars>>

----------------------------------------------------------------------------
ConnStep(c) ==
    \/ \E s \in SessionIds, d \in BOOLEAN : establish_session(c, s, d)
    \/ \E r \in Readers, info \in CardInfos : update_reader_info(c, r, info)
    \/ \E r \in Readers : register_reader_fails(c, r)
    \/ start_command_channel(c)
    \/ register_channel(c)
    \/ channel_without_message(c)
    \/ end_channel(c)
    \/ receive_command(c)
    \/ \E ok \in BOOLEAN : process_command(c, ok)
    \/ \E lost \in BOOLEAN : response_rpc_fails(c, lost)
    \/ command_stream_ends(c)
    \/ stream_breaks(c)
    \/ drop_receiver(c)
    \/ \E b \in BOOLEAN : client_stops(c, b)

WorkerStep(w) ==
    \/ connect(w)
    \/ disconnected(w)
    \/ \E q \in Requests : receive_message(w, q)
    \/ get_atr_from_client(w)
    \/ wait_for_command_channel(w)
    \/ send_command_async(w)
    \/ send_unblocked(w)
    \/ response_received(w)
    \/ response_channel_closed(w)
    \/ response_timeout(w)
    \/ vpcd_closes(w)

Next ==
    \/ \E c \in Conns : ConnStep(c)
    \/ \E w \in Workers : WorkerStep(w)
    \/ \E m \in inflight : send_command_response(m)
    \/ server_restarts

Spec == Init /\ [][Next]_vars

----------------------------------------------------------------------------
(* Fairness.  Tasks of the tokio runtime that can go on do so, the lock is  *)
(* handed on in turn, and timers fire.  Nothing is assumed of the network,  *)
(* of vpcd's wish to ask or close, or of clients starting and stopping.     *)

WorkerProgress(w) ==
    \/ get_atr_from_client(w) \/ wait_for_command_channel(w)
    \/ send_command_async(w) \/ send_unblocked(w)
    \/ response_received(w) \/ response_channel_closed(w)

HandlerProgress(c) ==
    register_channel(c) \/ channel_without_message(c) \/ end_channel(c)

ClientProgress(c) ==
    \/ receive_command(c)
    \/ \E ok \in BOOLEAN : process_command(c, ok)
    \/ command_stream_ends(c)

TaskFairness ==
    /\ \A w \in Workers : WF_vars(WorkerProgress(w)) /\ WF_vars(connect(w))
                            /\ WF_vars(disconnected(w))
    /\ \A c \in Conns : /\ WF_vars(HandlerProgress(c))
                        /\ WF_vars(ClientProgress(c))
                        /\ WF_vars(drop_receiver(c))
    /\ WF_vars(\E m \in inflight : send_command_response(m))

TimerFairness == \A w \in Workers : WF_vars(response_timeout(w))

UntimedSpec == Spec /\ TaskFairness
FairSpec == UntimedSpec /\ TimerFairness

----------------------------------------------------------------------------
(* Properties.                                                              *)

(* A channel filed with a session is that of the connection that owns the   *)
(* session, and its task still runs: end_channel will clear it, so no vpcd  *)
(* client goes on sending to a connection nobody watches.                   *)
ChannelServed ==
    \A s \in SessionIds : channel[s] # NoConn =>
        /\ s \in sessions
        /\ client[channel[s]].sid = s
        /\ handler[channel[s]] = "serving"

(* The commands run on a reader are requests vpcd put to that very reader   *)
(* of that very session, in the order it put them, none run twice: timeouts,*)
(* late commands, lost RPCs, new connections and restarts included.         *)
RunAsAsked ==
    \A w \in Workers :
        /\ \A i \in DOMAIN ran[w] : \E k \in DOMAIN asked[w] : asked[w][k] = ran[w][i]
        /\ \A i, j \in DOMAIN ran[w] : i < j =>
              \E k, l \in DOMAIN asked[w] :
                  k < l /\ asked[w][k] = ran[w][i] /\ asked[w][l] = ran[w][j]

(* What routes a response: the parts of the inductive invariant.            *)

AskedOn(w) == {asked[w][i] : i \in DOMAIN asked[w]}

(* No two vpcd clients were ever asked the same request, and only asked     *)
(* requests are awaited or answered.                                        *)
AskedOnce ==
    /\ \A v, w \in Workers : \A q \in AskedOn(v) \cap AskedOn(w) : v = w
    /\ \A w \in Workers : ask[w] # NoReq => ask[w] \in AskedOn(w)
    /\ \A q \in Requests : answer[q] # Virtual!Unanswered =>
                              \E w \in Workers : q \in AskedOn(w)

(* Where a connection is in its life fixes what it knows.                   *)
ConnConsistent ==
    \A c \in Conns :
        /\ client[c].pc \in {"start", "register"} => handler[c] = "none" /\ queue[c] = << >>
        /\ client[c].pc \in {"register", "recv", "exec", "respond"} => client[c].sid \in issued
        /\ handler[c] # "none" => client[c].sid \in issued
        /\ client[c].pc \in {"exec", "respond"} => client[c].cmd \in Commands

Busy == {"atr", "wait", "send", "blocked", "await"}

(* A vpcd client works on the request vpcd waits for, or on one vpcd has    *)
(* given up; it holds the write guard exactly while its send is blocked.    *)
WorkerOK(w) ==
    /\ worker[w].pc # "off" => readers[w[1]][w[2]] # "unknown"
    /\ worker[w].pc \in {"off", "connecting"} => port[w] = "down"
    /\ worker[w].pc \notin Busy => ask[w] = NoReq
    /\ worker[w].pc \in Busy =>
          /\ worker[w].req \in AskedOn(w)
          /\ ask[w] = IF port[w] = "up" THEN worker[w].req ELSE NoReq
    /\ worker[w].pc = "atr" => worker[w].req \in AtrRequests
    /\ lock = w <=> worker[w].pc = "blocked"
    /\ worker[w].pc = "blocked" =>
          /\ channel[w[1]] # NoConn
          /\ <<worker[w].cid, worker[w].req>> \in pending[w[1]]

WorkerConsistent == \A w \in Workers : WorkerOK(w)

(* Ids on file are below the counter, file one request each, and belong to  *)
(* a session that has a channel.                                            *)
PendingConsistent ==
    \A s \in SessionIds :
        /\ pending[s] # {} => channel[s] # NoConn
        /\ \A p \in pending[s] : p[1] < nextId
        /\ \A p, o \in pending[s] : p[1] = o[1] => p = o

(* A command or response of session s with id cid, about request q of the   *)
(* vpcd client w, cannot reach anyone but the one who waits for q.          *)
Routed(s, cid, q, w) ==
    /\ s \in issued
    /\ w[1] = s
    /\ q \in AskedOn(w)
    /\ s \in sessions => cid < nextId
    /\ \A p \in pending[s] : p[1] = cid => p[2] = q

(* Every command and response on its way is routed, so a response delivered *)
(* is the reply to the request that waits for it, from the right card.      *)
Correlated ==
    /\ \A c \in Conns : \A i \in DOMAIN queue[c] :
          Routed(client[c].sid, queue[c][i].cid, queue[c][i].req,
                 <<client[c].sid, queue[c][i].reader>>)
    /\ \A c \in Conns : client[c].pc = "exec" =>
          Routed(client[c].sid, client[c].cmd.cid, client[c].cmd.req,
                 <<client[c].sid, client[c].cmd.reader>>)
    /\ \A m \in inflight : Routed(m.sid, m.cid, m.reply.req, m.reply.by)
    /\ \A w \in Workers : worker[w].mail # NoReply =>
          /\ worker[w].pc = "await"
          /\ worker[w].mail.req = worker[w].req
          /\ worker[w].mail.by = w

IInv ==
    /\ TypeOK
    /\ AskedOnce
    /\ ConnConsistent
    /\ WorkerConsistent
    /\ PendingConsistent
    /\ ChannelServed
    /\ Correlated

(* vpcd sees the reader VirtualReader describes; above all an answer that   *)
(* comes from a card is that card's reply to the request answered, even     *)
(* when responses are late, lost or of an earlier server process.           *)
ActsAsVirtualReader == Virtual!Spec

(* No session's live channel is replaced by another, which would close the  *)
(* oneshots of all requests that wait on it.                                *)
ChannelNotReplaced ==
    [][\A s \in SessionIds :
          channel'[s] = channel[s] \/ channel[s] = NoConn \/ channel'[s] = NoConn]_vars

Settled(w, q) == answer[q].src # "none" \/ port[w] = "down"

(* Every request gets an answer for as long as vpcd keeps the connection,   *)
(* whatever becomes of the client and the network.                          *)
EveryRequestAnswered ==
    \A w \in Workers, q \in Requests : ask[w] = q ~> Settled(w, q)

(* The full queue is the only thing that can leave vpcd without an answer:  *)
(* if timers fire and no vpcd client keeps the write guard for good, each   *)
(* request is answered, whatever fails and whoever stops.                   *)
AnsweredUnlessStuck ==
    (TimerFairness /\ []<>(lock = NoWorker)) => EveryRequestAnswered

(* A vpcd client of another session than s keeps the write guard. *)
KeptByOther(s) == lock # NoWorker /\ lock[1] # s

(* Once the stream of a session's connection has broken, the requests of    *)
(* that session are answered without the 30 second timer having to fire,    *)
(* even one whose send had waited for room with the write guard.  A vpcd    *)
(* client of another session must not keep the guard for good: there is one *)
(* guard for all, and end_channel needs it.                                 *)
BrokenStreamAnswered ==
    \A w \in Workers, q \in Requests :
        ([]<>~KeptByOther(w[1])) =>
            ((ask[w] = q /\ \E c \in Conns : stream[c] = "broken" /\ client[c].sid = w[1])
                ~> Settled(w, q))

(* No client runs but c, and none will.                                     *)
LastClient(c) ==
    /\ client[c].pc \notin {"start", "gone"}
    /\ \A d \in Conns \ {c} : client[d].pc = "gone"

(* "each client gets its own virtual smartcard reader on the server": even  *)
(* if every other client is gone and only this one is left, the vpcd client *)
(* of its card is served by vpcd sooner or later.                           *)
OwnVirtualReader ==
    \A w \in Workers, c \in Conns :
        (worker[w].pc = "connecting" /\ client[c].sid = w[1] /\ []LastClient(c))
            ~> port[w] = "up"

=============================================================================
