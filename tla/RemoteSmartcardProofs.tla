------------------------ MODULE RemoteSmartcardProofs ------------------------
(***************************************************************************)
(* Proofs about RemoteSmartcard, for all values of its constants.           *)
(*                                                                          *)
(* The inductive invariant IInv has seven parts.  The one that matters is   *)
(* Correlated; the others say why it holds: each request is put to one vpcd *)
(* client only (AskedOnce), the command id under which it is pending is not *)
(* used again while the session is known (PendingConsistent), a queue is    *)
(* that of the session's own connection (ChannelServed, ConnConsistent), and*)
(* a vpcd client waits for the request it filed (WorkerConsistent).  There  *)
(* is one lemma for each part, and the refinement follows from IInv.        *)
(***************************************************************************)
EXTENDS RemoteSmartcard, TLAPS

----------------------------------------------------------------------------
(* Types.                                                                   *)

(* Every operation on the session table (session_manager.rs) keeps its      *)
(* types.                                                                   *)
LEMMA SessionOpsType ==
    ASSUME SessionTypeOK, NEW s \in SessionIds
    PROVE  /\ create_session(s) => SessionTypeOK'
           /\ \A r \in Readers, info \in KnownInfos : update_reader(s, r, info) => SessionTypeOK'
           /\ \A c \in Conns : set_command_channel(s, c) => SessionTypeOK'
           /\ clear_command_channel(s) => SessionTypeOK'
           /\ \A q \in Requests : store_pending(s, q) => SessionTypeOK'
           /\ \A cid \in Nat : remove_pending(s, cid) => SessionTypeOK'
           /\ UNCHANGED sessionVars => SessionTypeOK'
<1>1. create_session(s) => SessionTypeOK'
  BY DEF SessionTypeOK, create_session
<1>2. ASSUME NEW r \in Readers, NEW info \in KnownInfos, update_reader(s, r, info)
      PROVE  SessionTypeOK'
  <2>1. readers' \in [SessionIds -> [Readers -> ReaderInfos]]
    BY <1>2 DEF SessionTypeOK, update_reader, ReaderInfos
  <2> QED BY <1>2, <2>1 DEF SessionTypeOK, update_reader
<1>3. ASSUME NEW c \in Conns, set_command_channel(s, c) PROVE SessionTypeOK'
  BY <1>3 DEF SessionTypeOK, set_command_channel
<1>4. clear_command_channel(s) => SessionTypeOK'
  BY DEF SessionTypeOK, clear_command_channel
<1>5. ASSUME NEW q \in Requests, store_pending(s, q) PROVE SessionTypeOK'
  <2>1. pending \in [SessionIds -> SUBSET (Nat \X Requests)] /\ nextId \in Nat \ {0}
    BY DEF SessionTypeOK
  <2>2. {p \in pending[s] : p[1] # nextId} \cup {<<nextId, q>>} \in SUBSET (Nat \X Requests)
    BY <2>1
  <2>3. pending' = [pending EXCEPT ![s] = {p \in pending[s] : p[1] # nextId} \cup {<<nextId, q>>}]
    BY <1>5, <2>1 DEF store_pending
  <2>4. pending' \in [SessionIds -> SUBSET (Nat \X Requests)]
    BY <2>1, <2>2, <2>3
  <2>5. nextId' \in Nat \ {0}
    BY <1>5, <2>1 DEF store_pending, next_command_id
  <2> QED BY <1>5, <2>4, <2>5 DEF SessionTypeOK, store_pending
<1>6. ASSUME NEW cid \in Nat, remove_pending(s, cid) PROVE SessionTypeOK'
  <2>1. pending \in [SessionIds -> SUBSET (Nat \X Requests)]
    BY DEF SessionTypeOK
  <2>2. {p \in pending[s] : p[1] # cid} \in SUBSET (Nat \X Requests)
    BY <2>1
  <2>3. pending' = [pending EXCEPT ![s] = {p \in pending[s] : p[1] # cid}]
    BY <1>6, <2>1 DEF remove_pending
  <2>4. pending' \in [SessionIds -> SUBSET (Nat \X Requests)]
    BY <2>1, <2>2, <2>3
  <2> QED BY <1>6, <2>4 DEF SessionTypeOK, remove_pending
<1>7. UNCHANGED sessionVars => SessionTypeOK'
  BY DEF SessionTypeOK, sessionVars
<1> QED BY <1>1, <1>2, <1>3, <1>4, <1>5, <1>6, <1>7

(* Completing a request (the return of handle_message and send_response,    *)
(* vpcd.rs) keeps the types of the variables it changes.                    *)
LEMMA FinishType ==
    ASSUME TypeOK, NEW w \in Workers, NEW a \in Answers,
           worker[w].req \in Requests, Finish(w, a)
    PROVE  /\ worker' \in [Workers -> WorkerStates]
           /\ port' \in [Workers -> {"up", "down"}]
           /\ ask' \in [Workers -> Requests \cup {NoReq}]
           /\ answer' \in [Requests -> Answers]
           /\ asked' \in [Workers -> Seq(Requests)]
<1>1. worker' \in [Workers -> WorkerStates]
  <2>1. \A p \in {"idle", "connecting"} : [StoppedWorker EXCEPT !.pc = p] \in WorkerStates
    BY DEF StoppedWorker, WorkerStates
  <2>2. worker \in [Workers -> WorkerStates]
    BY DEF TypeOK
  <2>3. CASE port[w] = "up"
    <3>1. worker' = [worker EXCEPT ![w] = [StoppedWorker EXCEPT !.pc = "idle"]]
       BY <2>3 DEF Finish
    <3> QED BY <2>1, <2>2, <3>1
  <2>4. CASE port[w] # "up"
    <3>1. worker' = [worker EXCEPT ![w] = [StoppedWorker EXCEPT !.pc = "connecting"]]
       BY <2>4 DEF Finish
    <3> QED BY <2>1, <2>2, <3>1
  <2> QED BY <2>3, <2>4
<1> QED BY <1>1 DEF TypeOK, Finish

(* Every step of handlers, vpcd clients, clients and environment keeps the  *)
(* types.  The other invariants are needed where a step uses what an earlier*)
(* one left: the command a client executes, the request a vpcd client works *)
(* on.                                                                      *)
LEMMA TypeStep ==
    ASSUME TypeOK, ConnConsistent, WorkerConsistent, ChannelServed, [Next]_vars
    PROVE  TypeOK'
<1> USE DEF serverVars, vpcdVars, clientVars, netVars
<1>t. /\ SessionTypeOK
      /\ worker \in [Workers -> WorkerStates]
      /\ client \in [Conns -> ClientStates]
      /\ queue \in [Conns -> Seq(Commands)]
      /\ nextId \in Nat
      /\ Workers = SessionIds \X Readers
  BY DEF TypeOK, SessionTypeOK, Workers
<1>w. worker \in [Workers -> WorkerStates]
  BY DEF TypeOK
<1>q. queue \in [Conns -> Seq(Commands)]
  BY DEF TypeOK
<1>b. ASSUME NEW w \in Workers, worker[w].pc \in Busy PROVE worker[w].req \in Requests
  <2>1. worker[w].req \in AskedOn(w)
    BY <1>b DEF WorkerConsistent, WorkerOK
  <2>2. asked[w] \in Seq(Requests)
    BY DEF TypeOK
  <2> QED BY <2>1, <2>2 DEF AskedOn
<1>e. Virtual!ErrorAnswer \in Answers
  BY DEF Virtual!ErrorAnswer, Answers
<1>1. ASSUME NEW c \in Conns, NEW s \in SessionIds, NEW d \in BOOLEAN,
             establish_session(c, s, d)
      PROVE  TypeOK'
  <2>1. SessionTypeOK'
    BY <1>1, <1>t, SessionOpsType DEF establish_session
  <2>2. client' \in [Conns -> ClientStates]
    BY <1>1, <1>t, ZenonT(40) DEF establish_session, ClientStates
  <2>3. faults' \in Nat
    BY <1>1 DEF TypeOK, establish_session, Fault
  <2> QED BY <1>1, <2>1, <2>2, <2>3 DEF TypeOK, establish_session
<1>2. ASSUME NEW c \in Conns, NEW r \in Readers, NEW info \in CardInfos,
             update_reader_info(c, r, info)
      PROVE  TypeOK'
  <2>1. client' \in [Conns -> ClientStates]
    BY <1>2, <1>t, ZenonT(40) DEF update_reader_info, ClientStates
  <2>2. CASE client[c].sid \in sessions
    <3>1. client[c].sid \in SessionIds /\ info \in KnownInfos
      BY <2>2, RelayAssumption DEF TypeOK, SessionTypeOK
    <3>2. SessionTypeOK'
      BY <1>2, <1>t, <2>2, <3>1, SessionOpsType DEF update_reader_info
    <3>3. worker' \in [Workers -> WorkerStates]
      <4>1. \/ worker' = worker
            \/ worker' = [worker EXCEPT ![<<client[c].sid, r>>].pc = "connecting"]
        BY <1>2, <2>2 DEF update_reader_info
      <4>2. <<client[c].sid, r>> \in Workers
        BY <3>1 DEF Workers
      <4>3. [worker EXCEPT ![<<client[c].sid, r>>].pc = "connecting"]
                \in [Workers -> WorkerStates]
        BY <1>w, <4>2 DEF WorkerStates
      <4> QED BY <1>w, <4>1, <4>3
    <3> QED BY <1>2, <2>1, <3>2, <3>3 DEF TypeOK, update_reader_info
  <2>3. CASE client[c].sid \notin sessions
    <3>1. SessionTypeOK' /\ worker' = worker
      BY <1>2, <2>3 DEF TypeOK, SessionTypeOK, update_reader_info, sessionVars
    <3> QED BY <1>2, <2>1, <3>1 DEF TypeOK, update_reader_info
  <2> QED BY <2>2, <2>3
<1>3. ASSUME NEW c \in Conns, NEW r \in Readers, register_reader_fails(c, r)
      PROVE  TypeOK'
  <2>1. client' \in [Conns -> ClientStates]
    BY <1>3, <1>t, ZenonT(40) DEF register_reader_fails, ClientStates
  <2> QED BY <1>3, <2>1 DEF TypeOK, SessionTypeOK, sessionVars, register_reader_fails, Fault
<1>4. ASSUME NEW c \in Conns, start_command_channel(c) PROVE TypeOK'
  <2>1. client' \in [Conns -> ClientStates]
    BY <1>4, <1>t, ZenonT(40) DEF start_command_channel, ClientStates
  <2> QED BY <1>4, <2>1 DEF TypeOK, SessionTypeOK, sessionVars, start_command_channel
<1>5. ASSUME NEW c \in Conns, register_channel(c) PROVE TypeOK'
  <2>1. SessionTypeOK'
    <3>1. CASE client[c].sid \in sessions
      BY <1>5, <1>t, <3>1, SessionOpsType DEF register_channel, SessionTypeOK
    <3>2. CASE client[c].sid \notin sessions
      BY <1>5, <3>2 DEF TypeOK, SessionTypeOK, register_channel, sessionVars
    <3> QED BY <3>1, <3>2
  <2>2. handler' \in [Conns -> {"none", "new", "serving", "ended"}]
    BY <1>5, ZenonT(40) DEF TypeOK, register_channel
  <2> QED BY <1>5, <2>1, <2>2 DEF TypeOK, register_channel
<1>6. ASSUME NEW c \in Conns, channel_without_message(c) PROVE TypeOK'
  BY <1>6 DEF TypeOK, SessionTypeOK, sessionVars, channel_without_message
<1>7. ASSUME NEW c \in Conns, end_channel(c) PROVE TypeOK'
  <2>1. SessionTypeOK'
    <3>1. CASE client[c].sid \in sessions
      BY <1>7, <1>t, <3>1, SessionOpsType DEF end_channel, SessionTypeOK
    <3>2. CASE client[c].sid \notin sessions
      BY <1>7, <3>2 DEF TypeOK, SessionTypeOK, end_channel, sessionVars
    <3> QED BY <3>1, <3>2
  <2>2. handler' \in [Conns -> {"none", "new", "serving", "ended"}]
    BY <1>7 DEF TypeOK, end_channel
  <2> QED BY <1>7, <2>1, <2>2 DEF TypeOK, end_channel
<1>8. ASSUME NEW c \in Conns, receive_command(c) PROVE TypeOK'
  <2>1. Head(queue[c]) \in Commands /\ Tail(queue[c]) \in Seq(Commands)
    BY <1>8, <1>t DEF receive_command
  <2>2. client' \in [Conns -> ClientStates]
    <3> DEFINE taking == [client[c] EXCEPT !.pc = "exec", !.cmd = Head(queue[c])]
    <3>1. taking \in ClientStates
      <4>1. client[c] \in ClientStates
        BY <1>t
      <4> QED BY <2>1, <4>1 DEF ClientStates
    <3>2. client' = [client EXCEPT ![c] = taking]
      BY <1>8, <1>t DEF receive_command, ClientStates
    <3> HIDE DEF taking
    <3> QED BY <1>t, <3>1, <3>2
  <2>3. queue' \in [Conns -> Seq(Commands)]
    BY <1>8, <1>t, <2>1 DEF receive_command
  <2> QED BY <1>8, <2>2, <2>3 DEF TypeOK, SessionTypeOK, sessionVars, receive_command
<1>9. ASSUME NEW c \in Conns, NEW ok \in BOOLEAN, process_command(c, ok) PROVE TypeOK'
  <2>1. client[c].sid \in SessionIds /\ client[c].cmd \in Commands
    BY <1>9 DEF TypeOK, SessionTypeOK, ConnConsistent, process_command
  <2>2. client' \in [Conns -> ClientStates]
    BY <1>9, <1>t, ZenonT(40) DEF process_command, ClientStates
  <2>3. ran' \in [Workers -> Seq(Requests)]
    BY <1>9, <2>1 DEF TypeOK, process_command, Workers, Commands
  <2>4. inflight' \subseteq Responses
    BY <1>9, <2>1 DEF TypeOK, process_command, Workers, Commands, Responses, Replies
  <2> QED BY <1>9, <2>2, <2>3, <2>4 DEF TypeOK, SessionTypeOK, sessionVars, process_command
<1>10. ASSUME NEW c \in Conns, NEW lost \in BOOLEAN, response_rpc_fails(c, lost)
       PROVE  TypeOK'
  <2>1. client' \in [Conns -> ClientStates]
    BY <1>10, <1>t, ZenonT(40) DEF response_rpc_fails, ClientStates
  <2>2. inflight' \subseteq Responses
    BY <1>10 DEF TypeOK, response_rpc_fails
  <2> QED BY <1>10, <2>1, <2>2 DEF TypeOK, SessionTypeOK, sessionVars, response_rpc_fails,
     Fault
<1>11. ASSUME NEW c \in Conns, command_stream_ends(c) PROVE TypeOK'
  <2>1. client' \in [Conns -> ClientStates]
    BY <1>11, <1>t, ZenonT(40) DEF command_stream_ends, ClientStates
  <2> QED BY <1>11, <2>1 DEF TypeOK, SessionTypeOK, sessionVars, command_stream_ends
<1>12. ASSUME NEW c \in Conns, stream_breaks(c) PROVE TypeOK'
  BY <1>12 DEF TypeOK, SessionTypeOK, sessionVars, stream_breaks, Fault
<1>13. ASSUME NEW c \in Conns, drop_receiver(c) PROVE TypeOK'
  <2>1. queue' \in [Conns -> Seq(Commands)]
    <3>1. PICK n \in 0 .. Len(queue[c]) :
              queue' = [queue EXCEPT ![c] = SubSeq(queue[c], 1, n)]
      BY <1>13 DEF drop_receiver
    <3>2. SubSeq(queue[c], 1, n) \in Seq(Commands)
      BY <1>t
    <3> QED BY <1>t, <3>1, <3>2
  <2> QED BY <1>13, <2>1 DEF TypeOK, SessionTypeOK, sessionVars, drop_receiver
<1>14. ASSUME NEW c \in Conns, NEW b \in BOOLEAN, client_stops(c, b) PROVE TypeOK'
  <2>1. client' \in [Conns -> ClientStates]
    BY <1>14, <1>t, ZenonT(40) DEF client_stops, ClientStates
  <2>2. stream' \in [Conns -> {"none", "open", "broken"}]
    BY <1>14 DEF TypeOK, client_stops
  <2> QED BY <1>14, <2>1, <2>2 DEF TypeOK, SessionTypeOK, sessionVars, client_stops, Fault
<1>15. ASSUME NEW w \in Workers, connect(w) PROVE TypeOK'
  <2>1. worker' \in [Workers -> WorkerStates]
    BY <1>15, <1>w DEF connect, WorkerStates
  <2> QED BY <1>15, <2>1 DEF TypeOK, SessionTypeOK, sessionVars, connect
<1>16. ASSUME NEW w \in Workers, disconnected(w) PROVE TypeOK'
  <2>1. worker' \in [Workers -> WorkerStates]
    BY <1>16, <1>w DEF disconnected, WorkerStates
  <2> QED BY <1>16, <2>1 DEF TypeOK, SessionTypeOK, sessionVars, disconnected
<1>17. ASSUME NEW w \in Workers, NEW q \in Requests, receive_message(w, q) PROVE TypeOK'
  <2>1. worker' \in [Workers -> WorkerStates]
    <3>1. PICK p \in {"atr", "wait"} :
              worker' = [worker EXCEPT ![w].pc = p, ![w].req = q]
      BY <1>17 DEF receive_message
    <3> DEFINE asking == [worker[w] EXCEPT !.pc = p, !.req = q]
    <3>2. asking \in WorkerStates
      <4>1. worker[w] \in WorkerStates
        BY <1>w
      <4> QED BY <4>1 DEF WorkerStates
    <3>3. worker' = [worker EXCEPT ![w] = asking]
      BY <1>w, <3>1 DEF WorkerStates
    <3> HIDE DEF asking
    <3> QED BY <1>w, <3>2, <3>3
  <2>2. asked' \in [Workers -> Seq(Requests)]
    BY <1>17 DEF TypeOK, receive_message
  <2>3. ask' \in [Workers -> Requests \cup {NoReq}]
    BY <1>17 DEF TypeOK, receive_message
  <2> QED BY <1>17, <2>1, <2>2, <2>3 DEF TypeOK, SessionTypeOK, sessionVars, receive_message
<1>f. ASSUME NEW w \in Workers, NEW a \in Answers, Finish(w, a), worker[w].pc \in Busy,
             SessionTypeOK', lock' \in Workers \cup {NoWorker}, queue' = queue,
             UNCHANGED <<handler, rx, stream, inflight, clientVars, faults>>
      PROVE  TypeOK'
  <2>1. worker[w].req \in Requests
    BY <1>f, <1>b
  <2> QED BY <1>f, <2>1, FinishType DEF TypeOK
<1>18. ASSUME NEW w \in Workers, get_atr_from_client(w) PROVE TypeOK'
  <2>1. SessionTypeOK'
    BY <1>18 DEF TypeOK, SessionTypeOK, get_atr_from_client, sessionVars
  <2>2. CASE HasCachedAtr(w)
    <3>1. Virtual!CachedAtr(w) \in Answers
      BY DEF Virtual!CachedAtr, Answers
    <3> QED BY <1>18, <2>1, <2>2, <3>1, <1>f DEF TypeOK, get_atr_from_client, Busy
  <2>3. CASE ~HasCachedAtr(w)
    <3>1. worker' \in [Workers -> WorkerStates]
      <4>1. worker' = [worker EXCEPT ![w].pc = "wait"]
        BY <1>18, <2>3 DEF get_atr_from_client
      <4> QED BY <1>w, <4>1 DEF WorkerStates
    <3> QED BY <1>18, <2>1, <2>3, <3>1 DEF TypeOK, get_atr_from_client
  <2> QED BY <2>2, <2>3
<1>19. ASSUME NEW w \in Workers, wait_for_command_channel(w) PROVE TypeOK'
  <2>1. SessionTypeOK'
    BY <1>19 DEF TypeOK, SessionTypeOK, wait_for_command_channel, sessionVars
  <2>2. CASE Finish(w, Virtual!ErrorAnswer)
    BY <1>19, <1>e, <1>f, <2>1, <2>2 DEF TypeOK, wait_for_command_channel, Busy
  <2>3. CASE ~Finish(w, Virtual!ErrorAnswer)
    <3>1. /\ \/ worker' = [worker EXCEPT ![w].pc = "send"]
             \/ worker' = [worker EXCEPT ![w].polls = @ + 1]
          /\ UNCHANGED vpcdVars
      BY <1>19, <2>3 DEF wait_for_command_channel
    <3>2. worker' \in [Workers -> WorkerStates]
      <4>1. [worker EXCEPT ![w].pc = "send"] \in [Workers -> WorkerStates]
        BY <1>w DEF WorkerStates
      <4>2. [worker EXCEPT ![w].polls = @ + 1] \in [Workers -> WorkerStates]
        BY <1>w DEF WorkerStates
      <4> QED BY <3>1, <4>1, <4>2
    <3> QED BY <1>19, <2>1, <3>1, <3>2 DEF TypeOK, wait_for_command_channel
  <2> QED BY <2>2, <2>3
<1>20. ASSUME NEW w \in Workers, send_command_async(w) PROVE TypeOK'
  <2>1. worker[w].req \in Requests /\ w[1] \in SessionIds /\ w[2] \in Readers
    BY <1>20, <1>b, <1>t DEF send_command_async, Busy
  <2>2. CASE ~HasChannel(w[1])
    <3>1. SessionTypeOK'
      BY <1>20, <2>2 DEF TypeOK, SessionTypeOK, send_command_async, sessionVars
    <3> QED BY <1>20, <1>e, <1>f, <2>2, <3>1 DEF TypeOK, send_command_async, Busy
  <2>3. CASE HasChannel(w[1])
    <3>1. PICK c \in Conns : c = channel[w[1]]
      BY <2>1, <2>3 DEF TypeOK, SessionTypeOK, HasChannel
    <3>2. store_pending(w[1], worker[w].req)
      BY <1>20, <2>3 DEF send_command_async
    <3>3. SessionTypeOK'
      BY <1>t, <2>1, <3>2, SessionOpsType
    <3>4. CASE ~rx[c]
      BY <1>20, <1>e, <1>f, <2>3, <3>1, <3>3, <3>4 DEF TypeOK, send_command_async, Busy
    <3>5. CASE rx[c]
      <4>1. \/ /\ worker' = [worker EXCEPT ![w].pc = "blocked", ![w].cid = nextId]
               /\ lock' = w
               /\ UNCHANGED <<queue, vpcdVars>>
            \/ /\ worker' = [worker EXCEPT ![w].pc = "await", ![w].cid = nextId]
               /\ queue' = [queue EXCEPT ![c] = Append(queue[c], Command(w, nextId))]
               /\ UNCHANGED <<lock, vpcdVars>>
        BY <1>20, <2>3, <3>1, <3>5 DEF send_command_async
      <4>2. worker' \in [Workers -> WorkerStates]
        <5>1. nextId \in Nat
          BY <1>t
        <5>2. [worker EXCEPT ![w].pc = "blocked", ![w].cid = nextId] \in [Workers -> WorkerStates]
          BY <1>w, <5>1, ZenonT(40) DEF WorkerStates
        <5>3. [worker EXCEPT ![w].pc = "await", ![w].cid = nextId] \in [Workers -> WorkerStates]
          BY <1>w, <5>1, ZenonT(40) DEF WorkerStates
        <5> QED BY <4>1, <5>2, <5>3
      <4>3. Command(w, nextId) \in Commands
        BY <1>t, <2>1 DEF Command, Commands
      <4>4. queue' \in [Conns -> Seq(Commands)]
        <5>1. [queue EXCEPT ![c] = Append(queue[c], Command(w, nextId))]
                  \in [Conns -> Seq(Commands)]
          BY <1>q, <4>3
        <5> QED BY <1>q, <4>1, <5>1
      <4>5. lock' \in Workers \cup {NoWorker}
        BY <4>1 DEF TypeOK
      <4> QED BY <1>20, <3>3, <4>1, <4>2, <4>4, <4>5 DEF TypeOK, send_command_async
    <3> QED BY <3>4, <3>5
  <2> QED BY <2>2, <2>3
<1>21. ASSUME NEW w \in Workers, send_unblocked(w) PROVE TypeOK'
  <2>1. worker[w].pc = "blocked"
    BY <1>21 DEF send_unblocked, WorkerConsistent, WorkerOK
  <2>2. worker[w].req \in Requests /\ w[1] \in SessionIds /\ w[2] \in Readers /\ worker[w].cid \in Nat
    BY <2>1, <1>b, <1>t DEF Busy, WorkerStates
  <2>3. SessionTypeOK' /\ lock' \in Workers \cup {NoWorker}
    BY <1>21 DEF TypeOK, SessionTypeOK, send_unblocked, sessionVars
  <2>4. CASE Finish(w, Virtual!ErrorAnswer) /\ UNCHANGED queue
    BY <1>21, <1>e, <1>f, <2>1, <2>3, <2>4 DEF send_unblocked, Busy
  <2>5. CASE ~(Finish(w, Virtual!ErrorAnswer) /\ UNCHANGED queue)
    <3>1. PICK c \in Conns : c = channel[w[1]]
      <4>1. channel[w[1]] # NoConn
        BY <2>1 DEF WorkerConsistent, WorkerOK
      <4>2. channel \in [SessionIds -> Conns \cup {NoConn}]
        BY DEF TypeOK, SessionTypeOK
      <4> QED BY <2>2, <4>1, <4>2
    <3>2. /\ worker' = [worker EXCEPT ![w].pc = "await"]
          /\ queue' = [queue EXCEPT ![c] = Append(queue[c], Command(w, worker[w].cid))]
          /\ UNCHANGED vpcdVars
      BY <1>21, <2>5, <3>1 DEF send_unblocked
    <3>3. worker' \in [Workers -> WorkerStates]
      BY <1>t, <3>2, ZenonT(40) DEF WorkerStates
    <3>4. Command(w, worker[w].cid) \in Commands
      BY <2>2 DEF Command, Commands
    <3>5. queue' \in [Conns -> Seq(Commands)]
      BY <1>t, <3>2, <3>4
    <3> QED BY <1>21, <2>3, <3>2, <3>3, <3>5 DEF TypeOK, send_unblocked
  <2> QED BY <2>4, <2>5
<1>22. ASSUME NEW w \in Workers, response_received(w) PROVE TypeOK'
  <2>1. worker[w].mail \in Replies
    BY <1>22, <1>t DEF response_received, WorkerStates
  <2>2. AnswerFrom(worker[w].mail, worker[w].req) \in Answers
    BY <1>e, <2>1 DEF AnswerFrom, Virtual!CardReply, Answers, Replies
  <2>3. SessionTypeOK'
    BY <1>22 DEF TypeOK, SessionTypeOK, response_received, sessionVars
  <2> QED BY <1>22, <1>f, <2>2, <2>3 DEF TypeOK, response_received, Busy
<1>23. ASSUME NEW w \in Workers, response_channel_closed(w) PROVE TypeOK'
  <2>1. SessionTypeOK'
    BY <1>23 DEF TypeOK, SessionTypeOK, response_channel_closed, sessionVars
  <2> QED BY <1>23, <1>e, <1>f, <2>1 DEF TypeOK, response_channel_closed, Busy
<1>24. ASSUME NEW w \in Workers, response_timeout(w) PROVE TypeOK'
  <2>1. SessionTypeOK'
    BY <1>24 DEF TypeOK, SessionTypeOK, response_timeout, sessionVars
  <2> QED BY <1>24, <1>e, <1>f, <2>1 DEF TypeOK, response_timeout, Busy
<1>25. ASSUME NEW w \in Workers, vpcd_closes(w) PROVE TypeOK'
  BY <1>25 DEF TypeOK, SessionTypeOK, sessionVars, vpcd_closes, Fault
<1>26. ASSUME NEW m \in inflight, send_command_response(m) PROVE TypeOK'
  <2>1. m \in Responses
    BY DEF TypeOK
  <2>2. client' \in [Conns -> ClientStates]
    <3>1. m.conn \in Conns
      BY <2>1 DEF Responses
    <3>2. \/ client' = client
          \/ client' = [client EXCEPT ![m.conn].pc = "recv", ![m.conn].cmd = NoCmd]
      BY <1>26 DEF send_command_response
    <3>3. client \in [Conns -> ClientStates]
      BY DEF TypeOK
    <3>4. [client EXCEPT ![m.conn].pc = "recv", ![m.conn].cmd = NoCmd]
            \in [Conns -> ClientStates]
      BY <3>1, <3>3 DEF ClientStates
    <3> QED BY <3>2, <3>3, <3>4
  <2>3. CASE m.sid \in sessions /\ channel[m.sid] # NoConn
    <3>1. SessionTypeOK'
      BY <1>26, <1>t, <2>1, <2>3, SessionOpsType DEF send_command_response, Responses
    <3>2. worker' \in [Workers -> WorkerStates]
      <4>1. m.reply \in Replies
        BY <2>1 DEF Responses
      <4>2. ASSUME NEW v \in Workers PROVE [worker[v] EXCEPT !.mail = m.reply] \in WorkerStates
        BY <1>w, <4>1 DEF WorkerStates
      <4>3. worker' = [v \in Workers |->
                 IF worker[v].pc = "await" /\ worker[v].req \in waiter(m.sid, m.cid)
                 THEN [worker[v] EXCEPT !.mail = m.reply] ELSE worker[v]]
        BY <1>26, <2>3 DEF send_command_response
      <4> QED BY <1>w, <4>2, <4>3
    <3> QED BY <1>26, <2>2, <3>1, <3>2 DEF TypeOK, send_command_response
  <2>4. CASE ~(m.sid \in sessions /\ channel[m.sid] # NoConn)
    <3>1. SessionTypeOK' /\ worker' = worker
      BY <1>26, <2>4 DEF TypeOK, SessionTypeOK, send_command_response, sessionVars
    <3> QED BY <1>26, <2>2, <3>1 DEF TypeOK, send_command_response
  <2> QED BY <2>3, <2>4
<1>27. ASSUME server_restarts PROVE TypeOK'
  <2>1. SessionTypeOK'
    BY <1>27 DEF TypeOK, SessionTypeOK, server_restarts, EmptyTable, ReaderInfos
  <2>2. worker' \in [Workers -> WorkerStates]
    BY <1>27 DEF server_restarts, StoppedWorker, WorkerStates
  <2> QED BY <1>27, <2>1, <2>2 DEF TypeOK, server_restarts, Fault
<1>28. ASSUME UNCHANGED vars PROVE TypeOK'
  BY <1>28 DEF TypeOK, SessionTypeOK, vars, sessionVars
<1> QED BY <1>1, <1>2, <1>3, <1>4, <1>5, <1>6, <1>7, <1>8, <1>9, <1>10, <1>11, <1>12, <1>13,
           <1>14, <1>15, <1>16, <1>17, <1>18, <1>19, <1>20, <1>21, <1>22, <1>23, <1>24, <1>25,
           <1>26, <1>27, <1>28 DEF Next, ConnStep, WorkerStep

----------------------------------------------------------------------------
(* What vpcd sees, and which vpcd client was asked what.                    *)

(* What completing a request of w does: only w's state changes, vpcd no     *)
(* longer waits on w's connection, and the answer is recorded exactly if the*)
(* connection is still there.                                               *)
LEMMA FinishEffect ==
    ASSUME TypeOK, NEW w \in Workers, NEW a, Finish(w, a)
    PROVE  /\ worker'[w] = [StoppedWorker EXCEPT
                              !.pc = IF port[w] = "up" THEN "idle" ELSE "connecting"]
           /\ \A v \in Workers : v # w => worker'[v] = worker[v]
           /\ ask'[w] = NoReq
           /\ \A v \in Workers : v # w => ask'[v] = ask[v]
           /\ port[w] = "up" => answer' = [answer EXCEPT ![worker[w].req] = a]
           /\ port[w] # "up" => answer' = answer
           /\ UNCHANGED <<port, asked>>
  BY DEF Finish, TypeOK

(* The outcomes a vpcd client may end a request with in its present state:  *)
(* an error at any time, the announced ATR while it looks for that, the     *)
(* answer made of the response it received.                                 *)
Conclusions(w) ==
    {Virtual!ErrorAnswer}
      \cup (IF worker[w].pc = "atr" THEN {Virtual!CachedAtr(w)} ELSE {})
      \cup (IF worker[w].pc = "await" /\ worker[w].mail # NoReply
            THEN {AnswerFrom(worker[w].mail, worker[w].req)} ELSE {})

(* The steps vpcd can see.  Whatever any actor does, vpcd sees no change, a *)
(* connection made, a request taken, a request completed with one of its    *)
(* possible outcomes, a connection closed or the server stopping.           *)
LEMMA VpcdSteps ==
    ASSUME WorkerConsistent, [Next]_vars
    PROVE  \/ UNCHANGED vpcdVars
           \/ \E w \in Workers : connect(w)
           \/ \E w \in Workers, q \in Requests : receive_message(w, q)
           \/ \E w \in Workers : worker[w].pc \in Busy /\ \E a \in Conclusions(w) : Finish(w, a)
           \/ \E w \in Workers : vpcd_closes(w)
           \/ server_restarts
<1> DEFINE Concludes(w) == worker[w].pc \in Busy /\ \E a \in Conclusions(w) : Finish(w, a)
<1>1. ASSUME NEW c \in Conns, ConnStep(c) PROVE UNCHANGED vpcdVars
  BY <1>1 DEF ConnStep, establish_session, update_reader_info, register_reader_fails,
     start_command_channel, register_channel, channel_without_message, end_channel,
     receive_command, process_command, response_rpc_fails, command_stream_ends,
     stream_breaks, drop_receiver, client_stops
<1>2. ASSUME NEW w \in Workers, WorkerStep(w)
      PROVE  \/ UNCHANGED vpcdVars
             \/ connect(w)
             \/ \E q \in Requests : receive_message(w, q)
             \/ Concludes(w)
             \/ vpcd_closes(w)
  <2>1. CASE disconnected(w)
    BY <2>1 DEF disconnected
  <2>2. CASE get_atr_from_client(w)
    BY <2>2 DEF get_atr_from_client, Conclusions, Busy
  <2>3. CASE wait_for_command_channel(w)
    BY <2>3 DEF wait_for_command_channel, Conclusions, Busy
  <2>4. CASE send_command_async(w)
    BY <2>4 DEF send_command_async, Conclusions, Busy
  <2>5. CASE send_unblocked(w)
    BY <2>5 DEF send_unblocked, Conclusions, Busy, WorkerConsistent, WorkerOK
  <2>6. CASE response_received(w)
    BY <2>6 DEF response_received, Conclusions, Busy
  <2>7. CASE response_channel_closed(w)
    BY <2>7 DEF response_channel_closed, Conclusions, Busy
  <2>8. CASE response_timeout(w)
    BY <2>8 DEF response_timeout, Conclusions, Busy
  <2> HIDE DEF Concludes
  <2> QED BY <1>2, <2>1, <2>2, <2>3, <2>4, <2>5, <2>6, <2>7, <2>8 DEF WorkerStep
<1>3. ASSUME NEW m \in inflight, send_command_response(m) PROVE UNCHANGED vpcdVars
  BY <1>3 DEF send_command_response
<1>4. UNCHANGED vars => UNCHANGED vpcdVars
  BY DEF vars
<1> QED BY <1>1, <1>2, <1>3, <1>4 DEF Next

(* A request belongs to the one vpcd client it was put to, and only a       *)
(* request that was put is awaited or answered: every step keeps that.      *)
LEMMA AskedOnceStep ==
    ASSUME TypeOK, AskedOnce, WorkerConsistent, [Next]_vars
    PROVE  AskedOnce'
<1>1. CASE UNCHANGED vpcdVars \/ \E w \in Workers : connect(w)
  <2>1. UNCHANGED <<ask, answer, asked>>
    BY <1>1 DEF vpcdVars, connect
  <2> QED BY <2>1 DEF AskedOnce, AskedOn
<1>2. ASSUME NEW w \in Workers, NEW q \in Requests, receive_message(w, q)
      PROVE  AskedOnce'
  <2>1. /\ asked' = [asked EXCEPT ![w] = Append(asked[w], q)]
        /\ ask' = [ask EXCEPT ![w] = q]
        /\ answer' = answer
        /\ Fresh(q)
    BY <1>2 DEF receive_message
  <2>2. /\ asked \in [Workers -> Seq(Requests)]
        /\ ask \in [Workers -> Requests \cup {NoReq}]
    BY DEF TypeOK
  <2>3. \A v \in Workers : v # w => AskedOn(v)' = AskedOn(v)
    BY <2>1, <2>2 DEF AskedOn
  <2>4. AskedOn(w)' = AskedOn(w) \cup {q}
    <3>1. asked'[w] = Append(asked[w], q) /\ asked[w] \in Seq(Requests)
      BY <2>1, <2>2
    <3> HIDE <2>1, <2>2
    <3> QED BY <3>1 DEF AskedOn
  <2>5. \A v \in Workers : q \notin AskedOn(v)
    BY <2>1 DEF Fresh, AskedOn
  <2>6. \A u, v \in Workers : \A x \in AskedOn(u)' \cap AskedOn(v)' : u = v
    <3>1. \A v \in Workers : AskedOn(v)' = AskedOn(v) \/ v = w
      BY <2>3
    <3> HIDE <2>3
    <3> QED BY <2>4, <2>5, <3>1 DEF AskedOnce
  <2>7. \A v \in Workers : AskedOn(v) \subseteq AskedOn(v)'
    BY <2>3, <2>4
  <2>8. \A v \in Workers : ask'[v] # NoReq => ask'[v] \in AskedOn(v)'
    BY <2>1, <2>2, <2>4, <2>7 DEF AskedOnce
  <2>9. \A x \in Requests : answer'[x] # Virtual!Unanswered =>
                              \E v \in Workers : x \in AskedOn(v)'
    BY <2>1, <2>7 DEF AskedOnce
  <2> QED BY <2>6, <2>8, <2>9 DEF AskedOnce, Virtual!Unanswered
<1>3. ASSUME NEW w \in Workers, worker[w].pc \in Busy, NEW a \in Conclusions(w), Finish(w, a)
      PROVE  AskedOnce'
  <2>1. worker[w].req \in AskedOn(w)
    BY <1>3 DEF WorkerConsistent, WorkerOK
  <2>2. answer \in [Requests -> Answers]
    BY DEF TypeOK
  <2>3. /\ asked' = asked
        /\ \A v \in Workers : ask'[v] = NoReq \/ ask'[v] = ask[v]
        /\ \A q \in Requests : answer'[q] = answer[q] \/ q = worker[w].req
    BY <1>3, <2>2, FinishEffect
  <2>4. \A v \in Workers : AskedOn(v)' = AskedOn(v)
    BY <2>3 DEF AskedOn
  <2> QED BY <2>1, <2>3, <2>4 DEF AskedOnce, Virtual!Unanswered
<1>4. ASSUME NEW w \in Workers, vpcd_closes(w) PROVE AskedOnce'
  <2>1. /\ UNCHANGED <<asked, answer>>
        /\ \A v \in Workers : ask'[v] = NoReq \/ ask'[v] = ask[v]
    BY <1>4 DEF vpcd_closes, TypeOK
  <2>2. \A v \in Workers : AskedOn(v)' = AskedOn(v)
    BY <2>1 DEF AskedOn
  <2> QED BY <2>1, <2>2 DEF AskedOnce
<1>5. ASSUME server_restarts PROVE AskedOnce'
  BY <1>5 DEF AskedOnce, AskedOn, server_restarts
<1> QED BY <1>1, <1>2, <1>3, <1>4, <1>5, VpcdSteps

----------------------------------------------------------------------------
(* Connections, channels, pending entries and vpcd clients.                 *)

(* What a connection's stage says of its session, command and handler task  *)
(* is kept by every step (run_connection, process_command and               *)
(* command_channel).                                                        *)
LEMMA ConnConsistentStep ==
    ASSUME TypeOK, ConnConsistent, ChannelServed, WorkerConsistent, [Next]_vars
    PROVE  ConnConsistent'
<1> USE DEF serverVars, vpcdVars, clientVars, netVars
<1>t. /\ client \in [Conns -> ClientStates]
      /\ queue \in [Conns -> Seq(Commands)]
      /\ handler \in [Conns -> {"none", "new", "serving", "ended"}]
      /\ sessions \subseteq issued
  BY DEF TypeOK, SessionTypeOK
<1>s. ASSUME NEW w \in Workers, channel[w[1]] # NoConn,
             UNCHANGED <<client, handler, issued>>,
             NEW x, queue' = [queue EXCEPT ![channel[w[1]]] = x]
      PROVE  ConnConsistent'
  <2>1. w[1] \in SessionIds
    BY DEF Workers
  <2>2. handler[channel[w[1]]] = "serving"
    BY <1>s, <2>1 DEF ChannelServed
  <2>3. \A c \in Conns : handler[c] = "none" => queue'[c] = queue[c]
    BY <1>s, <1>t, <2>2
  <2> QED BY <1>s, <2>3 DEF ConnConsistent
<1>1. ASSUME NEW c \in Conns, NEW s \in SessionIds, NEW d \in BOOLEAN, establish_session(c, s, d)
      PROVE  ConnConsistent'
  BY <1>1, <1>t DEF ConnConsistent, establish_session, create_session, ClientStates,
     sessionVars
<1>2. ASSUME NEW c \in Conns, NEW r \in Readers, NEW info \in CardInfos, update_reader_info(c, r, info)
      PROVE  ConnConsistent'
  BY <1>2, <1>t DEF ConnConsistent, update_reader_info, update_reader, StartsVpcdClient,
     ClientStates, sessionVars
<1>3. ASSUME NEW c \in Conns, NEW r \in Readers, register_reader_fails(c, r)
      PROVE  ConnConsistent'
  BY <1>3, <1>t DEF ConnConsistent, register_reader_fails, ClientStates, sessionVars
<1>4. ASSUME NEW c \in Conns, start_command_channel(c) PROVE ConnConsistent'
  BY <1>4, <1>t DEF ConnConsistent, start_command_channel, ClientStates, sessionVars
<1>5. ASSUME NEW c \in Conns, register_channel(c) PROVE ConnConsistent'
  BY <1>5, <1>t DEF ConnConsistent, register_channel, set_command_channel, ClientStates,
     sessionVars
<1>6. ASSUME NEW c \in Conns, channel_without_message(c) PROVE ConnConsistent'
  BY <1>6, <1>t DEF ConnConsistent, channel_without_message, ClientStates, sessionVars
<1>7. ASSUME NEW c \in Conns, end_channel(c) PROVE ConnConsistent'
  BY <1>7, <1>t DEF ConnConsistent, end_channel, clear_command_channel, ClientStates,
     sessionVars
<1>8. ASSUME NEW c \in Conns, receive_command(c) PROVE ConnConsistent'
  BY <1>8, <1>t DEF ConnConsistent, receive_command, ClientStates, sessionVars
<1>9. ASSUME NEW c \in Conns, NEW ok \in BOOLEAN, process_command(c, ok)
      PROVE  ConnConsistent'
  BY <1>9, <1>t DEF ConnConsistent, process_command, ClientStates, sessionVars
<1>10. ASSUME NEW c \in Conns, NEW lost \in BOOLEAN, response_rpc_fails(c, lost)
       PROVE  ConnConsistent'
  BY <1>10, <1>t DEF ConnConsistent, response_rpc_fails, ClientStates, sessionVars
<1>11. ASSUME NEW c \in Conns, command_stream_ends(c) PROVE ConnConsistent'
  BY <1>11, <1>t DEF ConnConsistent, command_stream_ends, ClientStates, sessionVars
<1>12. ASSUME NEW c \in Conns, drop_receiver(c) PROVE ConnConsistent'
  BY <1>12, <1>t DEF ConnConsistent, drop_receiver, ClientStates, sessionVars
<1>13. ASSUME NEW c \in Conns, NEW b \in BOOLEAN, client_stops(c, b) PROVE ConnConsistent'
  BY <1>13, <1>t DEF ConnConsistent, client_stops, ClientStates, sessionVars
<1>14. ASSUME NEW c \in Conns,
             \/ stream_breaks(c)
      PROVE  ConnConsistent'
  <2>1. UNCHANGED <<client, handler, queue, issued>>
    BY <1>14 DEF sessionVars, stream_breaks
  <2> QED BY <2>1 DEF ConnConsistent, ClientStates, sessionVars
<1>15. ASSUME NEW w \in Workers, send_command_async(w) PROVE ConnConsistent'
  <2>1. UNCHANGED <<client, handler, issued>>
    BY <1>15 DEF send_command_async, store_pending, sessionVars
  <2>2. \/ queue' = queue
        \/ /\ HasChannel(w[1])
           /\ queue' = [queue EXCEPT ![channel[w[1]]] =
                            Append(@, Command(w, nextId))]
    BY <1>15 DEF send_command_async
  <2>3. queue' = queue => ConnConsistent'
    BY <2>1 DEF ConnConsistent
  <2> QED BY <1>s, <2>1, <2>2, <2>3 DEF HasChannel
<1>16. ASSUME NEW w \in Workers, send_unblocked(w) PROVE ConnConsistent'
  <2>1. UNCHANGED <<client, handler, issued>>
    BY <1>16 DEF send_unblocked, sessionVars
  <2>2. \/ queue' = queue
        \/ /\ channel[w[1]] # NoConn
           /\ queue' = [queue EXCEPT ![channel[w[1]]] =
                            Append(@, Command(w, worker[w].cid))]
    BY <1>16 DEF send_unblocked, WorkerConsistent, WorkerOK
  <2>3. queue' = queue => ConnConsistent'
    BY <2>1 DEF ConnConsistent
  <2> QED BY <1>s, <2>1, <2>2, <2>3
<1>17. ASSUME NEW w \in Workers,
             \/ connect(w)
             \/ disconnected(w)
             \/ (\E q \in Requests : receive_message(w, q))
             \/ get_atr_from_client(w)
             \/ wait_for_command_channel(w)
             \/ response_received(w)
             \/ response_channel_closed(w)
             \/ response_timeout(w)
             \/ vpcd_closes(w)
      PROVE  ConnConsistent'
  <2>1. UNCHANGED <<client, handler, queue, issued>>
    BY <1>17 DEF sessionVars, connect, disconnected, receive_message,
       get_atr_from_client, wait_for_command_channel, response_received,
       response_channel_closed, response_timeout, vpcd_closes, AnswerFrom, Finish,
       HasCachedAtr, HasChannel
  <2> QED BY <2>1 DEF ConnConsistent, ClientStates, sessionVars
<1>18. ASSUME NEW m \in inflight, send_command_response(m) PROVE ConnConsistent'
  BY <1>18, <1>t DEF ConnConsistent, send_command_response, remove_pending, waiter,
     ClientStates, sessionVars
<1>19. ASSUME server_restarts PROVE ConnConsistent'
  BY <1>19, <1>t DEF ConnConsistent, server_restarts, EmptyTable, ClientStates, sessionVars
<1>20. ASSUME UNCHANGED vars PROVE ConnConsistent'
  BY <1>20 DEF ConnConsistent, vars, sessionVars, ClientStates, sessionVars
<1> QED BY <1>1, <1>2, <1>3, <1>4, <1>5, <1>6, <1>7, <1>8, <1>9, <1>10, <1>11, <1>12, <1>13,
   <1>14, <1>15, <1>16, <1>17, <1>18, <1>19, <1>20 DEF Next, ConnStep, WorkerStep

(* Every step keeps ChannelServed: a filed channel belongs to the session's *)
(* own connection and to a task that still runs and will clear it.          *)
LEMMA ChannelServedStep ==
    ASSUME TypeOK, ConnConsistent, ChannelServed, [Next]_vars
    PROVE  ChannelServed'
<1> USE DEF serverVars, vpcdVars, clientVars, netVars
<1>t. /\ client \in [Conns -> ClientStates]
      /\ handler \in [Conns -> {"none", "new", "serving", "ended"}]
      /\ channel \in [SessionIds -> Conns \cup {NoConn}]
      /\ sessions \subseteq issued /\ issued \subseteq SessionIds
  BY DEF TypeOK, SessionTypeOK
<1>1. ASSUME NEW c \in Conns, NEW s \in SessionIds, NEW d \in BOOLEAN, establish_session(c, s, d)
      PROVE  ChannelServed'
  BY <1>1, <1>t DEF ChannelServed, establish_session, create_session, ClientStates,
     sessionVars
<1>2. ASSUME NEW c \in Conns, NEW r \in Readers, NEW info \in CardInfos, update_reader_info(c, r, info)
      PROVE  ChannelServed'
  BY <1>2, <1>t DEF ChannelServed, update_reader_info, update_reader, StartsVpcdClient,
     ClientStates, sessionVars
<1>3. ASSUME NEW c \in Conns, NEW r \in Readers, register_reader_fails(c, r)
      PROVE  ChannelServed'
  BY <1>3, <1>t DEF ChannelServed, register_reader_fails, ClientStates, sessionVars
<1>4. ASSUME NEW c \in Conns, start_command_channel(c) PROVE ChannelServed'
  <2>1. handler[c] = "none"
    BY <1>4 DEF start_command_channel, ConnConsistent
  <2> QED BY <1>4, <1>t, <2>1 DEF ChannelServed, start_command_channel, ClientStates,
     sessionVars
<1>5. ASSUME NEW c \in Conns, register_channel(c) PROVE ChannelServed'
  BY <1>5, <1>t DEF ChannelServed, register_channel, set_command_channel, ClientStates,
     sessionVars
<1>6. ASSUME NEW c \in Conns, channel_without_message(c) PROVE ChannelServed'
  BY <1>6, <1>t DEF ChannelServed, channel_without_message, ClientStates, sessionVars
<1>7. ASSUME NEW c \in Conns, end_channel(c) PROVE ChannelServed'
  BY <1>7, <1>t DEF ChannelServed, end_channel, clear_command_channel, ClientStates,
     sessionVars
<1>8. ASSUME NEW c \in Conns, receive_command(c) PROVE ChannelServed'
  BY <1>8, <1>t DEF ChannelServed, receive_command, ClientStates, sessionVars
<1>9. ASSUME NEW c \in Conns, NEW ok \in BOOLEAN, process_command(c, ok)
      PROVE  ChannelServed'
  BY <1>9, <1>t DEF ChannelServed, process_command, ClientStates, sessionVars
<1>10. ASSUME NEW c \in Conns, NEW lost \in BOOLEAN, response_rpc_fails(c, lost)
       PROVE  ChannelServed'
  BY <1>10, <1>t DEF ChannelServed, response_rpc_fails, ClientStates, sessionVars
<1>11. ASSUME NEW c \in Conns, command_stream_ends(c) PROVE ChannelServed'
  BY <1>11, <1>t DEF ChannelServed, command_stream_ends, ClientStates, sessionVars
<1>12. ASSUME NEW c \in Conns, NEW b \in BOOLEAN, client_stops(c, b) PROVE ChannelServed'
  BY <1>12, <1>t DEF ChannelServed, client_stops, ClientStates, sessionVars
<1>13. ASSUME NEW c \in Conns,
             \/ stream_breaks(c)
             \/ drop_receiver(c)
      PROVE  ChannelServed'
  <2>1. UNCHANGED <<client, handler, channel, sessions>>
    BY <1>13 DEF sessionVars, stream_breaks, drop_receiver
  <2> QED BY <2>1 DEF ChannelServed, ClientStates, sessionVars
<1>14. ASSUME NEW w \in Workers,
             \/ connect(w)
             \/ disconnected(w)
             \/ (\E q \in Requests : receive_message(w, q))
             \/ get_atr_from_client(w)
             \/ wait_for_command_channel(w)
             \/ send_command_async(w)
             \/ send_unblocked(w)
             \/ response_received(w)
             \/ response_channel_closed(w)
             \/ response_timeout(w)
             \/ vpcd_closes(w)
      PROVE  ChannelServed'
  <2>1. UNCHANGED <<client, handler, channel, sessions>>
    BY <1>14 DEF sessionVars, connect, disconnected, receive_message,
       get_atr_from_client, wait_for_command_channel, send_command_async,
       send_unblocked, response_received, response_channel_closed, response_timeout,
       vpcd_closes, AnswerFrom, Command, Finish, HasCachedAtr, HasChannel,
       next_command_id, store_pending
  <2> QED BY <2>1 DEF ChannelServed, ClientStates, sessionVars
<1>15. ASSUME NEW m \in inflight, send_command_response(m) PROVE ChannelServed'
  BY <1>15, <1>t DEF ChannelServed, send_command_response, remove_pending, waiter,
     ClientStates, sessionVars
<1>16. ASSUME server_restarts PROVE ChannelServed'
  BY <1>16, <1>t DEF ChannelServed, server_restarts, EmptyTable, ClientStates, sessionVars
<1>17. ASSUME UNCHANGED vars PROVE ChannelServed'
  BY <1>17 DEF ChannelServed, vars, sessionVars, ClientStates, sessionVars
<1> QED BY <1>1, <1>2, <1>3, <1>4, <1>5, <1>6, <1>7, <1>8, <1>9, <1>10, <1>11, <1>12, <1>13,
   <1>14, <1>15, <1>16, <1>17 DEF Next, ConnStep, WorkerStep

(* Every step keeps the pending tables in order: ids below the counter, one *)
(* request for each, none without a channel.                                *)
LEMMA PendingConsistentStep ==
    ASSUME TypeOK, PendingConsistent, [Next]_vars
    PROVE  PendingConsistent'
<1> USE DEF serverVars, vpcdVars, clientVars, netVars
<1>t. /\ channel \in [SessionIds -> Conns \cup {NoConn}]
      /\ pending \in [SessionIds -> SUBSET (Nat \X Requests)]
      /\ nextId \in Nat
      /\ sessions \subseteq SessionIds
      /\ NoConn \notin Conns
  BY NoConnAssumption DEF TypeOK, SessionTypeOK
<1>1. ASSUME NEW c \in Conns, register_channel(c) PROVE PendingConsistent'
  BY <1>1, <1>t DEF PendingConsistent, register_channel, set_command_channel, sessionVars
<1>2. ASSUME NEW c \in Conns, end_channel(c) PROVE PendingConsistent'
  BY <1>2, <1>t DEF PendingConsistent, end_channel, clear_command_channel, sessionVars
<1>3. ASSUME NEW c \in Conns,
             \/ (\E s \in SessionIds : \E d \in BOOLEAN : establish_session(c, s, d))
             \/ (\E r \in Readers : \E info \in CardInfos : update_reader_info(c, r, info))
             \/ (\E r \in Readers : register_reader_fails(c, r))
             \/ start_command_channel(c)
             \/ channel_without_message(c)
             \/ receive_command(c)
             \/ (\E ok \in BOOLEAN : process_command(c, ok))
             \/ (\E lost \in BOOLEAN : response_rpc_fails(c, lost))
             \/ command_stream_ends(c)
             \/ stream_breaks(c)
             \/ drop_receiver(c)
             \/ (\E b \in BOOLEAN : client_stops(c, b))
      PROVE  PendingConsistent'
  <2>1. UNCHANGED <<pending, channel, nextId>>
    BY <1>3 DEF sessionVars, establish_session, update_reader_info,
       register_reader_fails, start_command_channel, channel_without_message,
       receive_command, process_command, response_rpc_fails, command_stream_ends,
       stream_breaks, drop_receiver, client_stops, StartsVpcdClient, create_session,
       update_reader
  <2> QED BY <2>1 DEF PendingConsistent, sessionVars
<1>4. ASSUME NEW w \in Workers, send_command_async(w) PROVE PendingConsistent'
  BY <1>4, <1>t DEF PendingConsistent, send_command_async, store_pending, next_command_id,
     HasChannel, Command, Finish, sessionVars
<1>5. ASSUME NEW w \in Workers,
             \/ connect(w)
             \/ disconnected(w)
             \/ (\E q \in Requests : receive_message(w, q))
             \/ get_atr_from_client(w)
             \/ wait_for_command_channel(w)
             \/ send_unblocked(w)
             \/ response_received(w)
             \/ response_channel_closed(w)
             \/ response_timeout(w)
             \/ vpcd_closes(w)
      PROVE  PendingConsistent'
  <2>1. UNCHANGED <<pending, channel, nextId>>
    BY <1>5 DEF sessionVars, connect, disconnected, receive_message,
       get_atr_from_client, wait_for_command_channel, send_unblocked, response_received,
       response_channel_closed, response_timeout, vpcd_closes, AnswerFrom, Command,
       Finish, HasCachedAtr, HasChannel
  <2> QED BY <2>1 DEF PendingConsistent, sessionVars
<1>6. ASSUME NEW m \in inflight, send_command_response(m) PROVE PendingConsistent'
  BY <1>6, <1>t, SMTT(20) DEF PendingConsistent, send_command_response, remove_pending, waiter,
     sessionVars
<1>7. ASSUME server_restarts PROVE PendingConsistent'
  BY <1>7, <1>t DEF PendingConsistent, server_restarts, EmptyTable, sessionVars
<1>8. ASSUME UNCHANGED vars PROVE PendingConsistent'
  BY <1>8 DEF PendingConsistent, vars, sessionVars
<1> QED BY <1>1, <1>2, <1>3, <1>4, <1>5, <1>6, <1>7, <1>8 DEF Next, ConnStep, WorkerStep

(* A step leaves the vpcd client v alone: its own state and what WorkerOK   *)
(* says of the rest of the system are as before.                            *)
Spared(v) ==
    /\ worker'[v] = worker[v]
    /\ port'[v] = port[v]
    /\ ask'[v] = ask[v]
    /\ asked'[v] = asked[v]
    /\ readers[v[1]][v[2]] # "unknown" => readers'[v[1]][v[2]] # "unknown"
    /\ lock' = v <=> lock = v
    /\ lock = v => channel'[v[1]] = channel[v[1]] /\ pending'[v[1]] = pending[v[1]]

(* A vpcd client that is left alone stays consistent.                       *)
LEMMA SparedWorker ==
    ASSUME NEW v \in Workers, WorkerOK(v), Spared(v)
    PROVE  WorkerOK(v)'
  BY DEF WorkerOK, Spared, AskedOn

(* A vpcd client that has completed its request is consistent.              *)
LEMMA FinishedWorker ==
    ASSUME TypeOK, WorkerConsistent, NEW w \in Workers, NEW a, Finish(w, a),
           worker[w].pc \in Busy, lock' # w,
           UNCHANGED readers
    PROVE  WorkerOK(w)'
<1>1. /\ worker'[w].pc = IF port[w] = "up" THEN "idle" ELSE "connecting"
      /\ port' = port /\ asked' = asked /\ ask'[w] = NoReq
  BY FinishEffect DEF StoppedWorker
<1>2. port[w] \in {"up", "down"} /\ readers[w[1]][w[2]] # "unknown"
  BY DEF TypeOK, WorkerConsistent, WorkerOK, Busy
<1> QED BY <1>1, <1>2 DEF WorkerOK, Busy

(* Every step keeps the vpcd clients consistent: each works on the request  *)
(* vpcd waits for, or on one vpcd gave up, and holds the write guard exactly*)
(* while its send waits for room in the queue.                              *)
LEMMA WorkerConsistentStep ==
    ASSUME TypeOK, PendingConsistent, WorkerConsistent, [Next]_vars
    PROVE  WorkerConsistent'
<1> USE DEF serverVars, vpcdVars, clientVars, netVars
<1>t. /\ worker \in [Workers -> WorkerStates]
      /\ port \in [Workers -> {"up", "down"}]
      /\ ask \in [Workers -> Requests \cup {NoReq}]
      /\ asked \in [Workers -> Seq(Requests)]
  BY DEF TypeOK
<1>n. NoWorker \notin Workers
  BY RelayAssumption
<1>s. ASSUME UNCHANGED <<worker, port, ask, asked, lock>>,
             Unlocked,
             readers' = readers
      PROVE  WorkerConsistent'
  BY <1>s, <1>n, SparedWorker DEF WorkerConsistent, Spared, Unlocked
<1>f. ASSUME NEW w \in Workers, NEW a, Finish(w, a), worker[w].pc \in Busy,
             Unlocked \/ lock = w, lock' = NoWorker, readers' = readers
      PROVE  WorkerConsistent'
  <2>1. WorkerOK(w)'
    BY <1>f, <1>n, FinishedWorker
  <2>2. ASSUME NEW v \in Workers, v # w PROVE Spared(v)
    BY <1>f, <1>n, <2>2, FinishEffect, ZenonT(40) DEF Spared, Unlocked
  <2> QED BY <2>1, <2>2, SparedWorker DEF WorkerConsistent
<1>1. ASSUME NEW c \in Conns, NEW r \in Readers, NEW info \in CardInfos,
             update_reader_info(c, r, info)
      PROVE  WorkerConsistent'
  <2>1. CASE client[c].sid \in sessions
    <3>1. PICK s \in SessionIds : s = client[c].sid
      BY <2>1 DEF TypeOK, SessionTypeOK
    <3>2. /\ readers' = [readers EXCEPT ![s][r] = info]
          /\ UNCHANGED <<port, ask, asked, lock, channel, pending>>
          /\ worker' = IF StartsVpcdClient(s, r, info)
                       THEN [worker EXCEPT ![<<s, r>>].pc = "connecting"] ELSE worker
          /\ Unlocked
      BY <1>1, <2>1, <3>1 DEF update_reader_info, update_reader
    <3>3. info # "unknown" /\ readers \in [SessionIds -> [Readers -> ReaderInfos]]
      BY RelayAssumption DEF KnownInfos, TypeOK, SessionTypeOK
    <3>4. <<s, r>> \in Workers
      BY DEF Workers
    <3>5. readers'[s][r] = info
      BY <3>2, <3>3
    <3>6. ASSUME NEW v \in Workers, v # <<s, r>> PROVE Spared(v)
      <4>1. v[1] \in SessionIds /\ v[2] \in Readers /\ (v[1] # s \/ v[2] # r)
        BY <3>6 DEF Workers
      <4>2. readers'[v[1]][v[2]] = readers[v[1]][v[2]]
        BY <3>2, <3>3, <4>1
      <4>3. worker'[v] = worker[v]
        BY <1>t, <3>2, <3>6
      <4> QED BY <1>n, <3>2, <4>2, <4>3 DEF Spared, Unlocked
    <3>7. WorkerOK(<<s, r>>)'
      <4>0. PICK w \in Workers : w = <<s, r>>
        BY <3>4
      <4>1. WorkerOK(w)
        BY DEF WorkerConsistent
      <4>2. w[1] = s /\ w[2] = r /\ w \in Workers
        BY <4>0
      <4>3. CASE ~StartsVpcdClient(s, r, info)
        <5>1. worker'[w] = worker[w]
          BY <3>2, <4>3
        <5>2. Spared(w)
          BY <1>n, <3>2, <3>3, <3>5, <4>2, <5>1 DEF Spared, Unlocked
        <5>3. WorkerOK(w)'
          BY <4>1, <5>2, SparedWorker
        <5> QED BY <4>0, <5>3
      <4>4. CASE StartsVpcdClient(s, r, info)
        <5>1. worker[w].pc = "off" /\ port[w] = "down" /\ ask[w] = NoReq
          BY <4>1, <4>2, <4>4 DEF StartsVpcdClient, WorkerOK, Busy
        <5>2. worker' = [worker EXCEPT ![w].pc = "connecting"]
          BY <3>2, <4>0, <4>4
        <5>3. worker'[w].pc = "connecting"
          BY <1>t, <4>2, <5>2 DEF WorkerStates
        <5>4. WorkerOK(w)'
          BY <1>n, <3>2, <3>3, <3>5, <4>2, <5>1, <5>3 DEF WorkerOK, Busy, Unlocked
        <5> QED BY <4>0, <5>4
      <4> QED BY <4>3, <4>4
    <3> QED BY <3>6, <3>7, SparedWorker DEF WorkerConsistent
  <2>2. CASE client[c].sid \notin sessions
    BY <1>1, <1>s, <2>2 DEF update_reader_info, sessionVars
  <2> QED BY <2>1, <2>2
<1>2. ASSUME NEW c \in Conns, register_channel(c) PROVE WorkerConsistent'
  BY <1>2, <1>s DEF register_channel, set_command_channel, sessionVars
<1>3. ASSUME NEW c \in Conns, end_channel(c) PROVE WorkerConsistent'
  BY <1>3, <1>s DEF end_channel, clear_command_channel, sessionVars
<1>4. ASSUME NEW c \in Conns,
             \/ (\E s \in SessionIds : \E d \in BOOLEAN : establish_session(c, s, d))
             \/ (\E r \in Readers : register_reader_fails(c, r))
             \/ start_command_channel(c)
             \/ channel_without_message(c)
             \/ receive_command(c)
             \/ (\E ok \in BOOLEAN : process_command(c, ok))
             \/ (\E lost \in BOOLEAN : response_rpc_fails(c, lost))
             \/ command_stream_ends(c)
             \/ stream_breaks(c)
             \/ drop_receiver(c)
             \/ (\E b \in BOOLEAN : client_stops(c, b))
      PROVE  WorkerConsistent'
  <2>1. UNCHANGED <<worker, port, ask, asked, lock, channel, pending, readers>>
    BY <1>4 DEF sessionVars, establish_session, register_reader_fails,
       start_command_channel,
       channel_without_message, receive_command, process_command, response_rpc_fails,
       command_stream_ends, stream_breaks, drop_receiver, client_stops, create_session
  <2> QED BY <2>1, SparedWorker DEF WorkerConsistent, Spared
<1>5. ASSUME NEW w \in Workers, connect(w) PROVE WorkerConsistent'
  <2>1. /\ worker' = [worker EXCEPT ![w].pc = "idle"]
        /\ port' = [port EXCEPT ![w] = "up"]
        /\ UNCHANGED <<ask, asked, lock, channel, pending, readers>>
        /\ worker[w].pc = "connecting"
    BY <1>5 DEF connect, sessionVars
  <2>2. worker'[w].pc = "idle"
    BY <1>t, <2>1 DEF WorkerStates
  <2>3. WorkerOK(w)'
    BY <2>1, <2>2 DEF WorkerConsistent, WorkerOK, Busy
  <2>4. \A v \in Workers : v # w => Spared(v)
    BY <1>t, <2>1 DEF Spared
  <2> QED BY <2>3, <2>4, SparedWorker DEF WorkerConsistent
<1>6. ASSUME NEW w \in Workers, disconnected(w) PROVE WorkerConsistent'
  <2>1. /\ worker' = [worker EXCEPT ![w].pc = "connecting"]
        /\ UNCHANGED <<port, ask, asked, lock, channel, pending, readers>>
        /\ worker[w].pc = "idle"
        /\ port[w] = "down"
    BY <1>6 DEF disconnected, sessionVars
  <2>2. worker'[w].pc = "connecting"
    BY <1>t, <2>1 DEF WorkerStates
  <2>3. WorkerOK(w)'
    BY <2>1, <2>2 DEF WorkerConsistent, WorkerOK, Busy
  <2>4. \A v \in Workers : v # w => Spared(v)
    BY <1>t, <2>1 DEF Spared
  <2> QED BY <2>3, <2>4, SparedWorker DEF WorkerConsistent
<1>7. ASSUME NEW w \in Workers, NEW q \in Requests, receive_message(w, q)
      PROVE  WorkerConsistent'
  <2>1. /\ worker' = [worker EXCEPT ![w].pc = IF q \in AtrRequests THEN "atr" ELSE "wait",
                                    ![w].req = q]
        /\ ask' = [ask EXCEPT ![w] = q]
        /\ asked' = [asked EXCEPT ![w] = Append(asked[w], q)]
        /\ UNCHANGED <<port, lock, channel, pending, readers>>
        /\ worker[w].pc = "idle"
        /\ port[w] = "up"
    BY <1>7 DEF receive_message, sessionVars
  <2>2. /\ worker'[w].pc = IF q \in AtrRequests THEN "atr" ELSE "wait"
        /\ worker'[w].req = q
    BY <1>t, <2>1 DEF WorkerStates
  <2>3. q \in AskedOn(w)'
    <3>1. asked'[w] = Append(asked[w], q) /\ asked[w] \in Seq(Requests)
      BY <1>t, <2>1
    <3>2. /\ Len(asked[w]) + 1 \in DOMAIN asked'[w]
          /\ asked'[w][Len(asked[w]) + 1] = q
      BY <3>1
    <3> QED BY <3>2 DEF AskedOn
  <2>4. ask'[w] = q
    BY <1>t, <2>1
  <2>5. WorkerOK(w)'
    <3>1. WorkerOK(w)
      BY DEF WorkerConsistent
    <3>2. CASE q \in AtrRequests
      BY <2>1, <2>2, <2>3, <2>4, <3>1, <3>2 DEF WorkerOK, Busy
    <3>3. CASE q \notin AtrRequests
      BY <2>1, <2>2, <2>3, <2>4, <3>1, <3>3 DEF WorkerOK, Busy
    <3> QED BY <3>2, <3>3
  <2>6. \A v \in Workers : v # w => Spared(v)
    BY <1>t, <2>1 DEF Spared
  <2> QED BY <2>5, <2>6, SparedWorker DEF WorkerConsistent
<1>m. ASSUME NEW w \in Workers,
             UNCHANGED <<port, ask, asked, lock, channel, readers>>,
             Unlocked,
             worker[w].pc \in {"atr", "wait", "send"},
             worker'[w].pc \in {"wait", "send", "await"},
             worker'[w].req = worker[w].req,
             \A v \in Workers : v # w => worker'[v] = worker[v]
      PROVE  WorkerConsistent'
  <2>1. WorkerOK(w)'
    <3>1. WorkerOK(w) /\ AskedOn(w)' = AskedOn(w)
      BY <1>m DEF WorkerConsistent, AskedOn
    <3> QED BY <1>m, <1>n, <3>1 DEF WorkerOK, Busy, Unlocked
  <2>2. \A v \in Workers : v # w => Spared(v)
    BY <1>m, <1>n DEF Spared, Unlocked
  <2> QED BY <2>1, <2>2, SparedWorker DEF WorkerConsistent
<1>8. ASSUME NEW w \in Workers, get_atr_from_client(w) PROVE WorkerConsistent'
  <2>1. CASE Finish(w, Virtual!CachedAtr(w))
    BY <1>8, <1>f, <2>1 DEF get_atr_from_client, sessionVars, Busy, Unlocked
  <2>2. CASE worker' = [worker EXCEPT ![w].pc = "wait"] /\ UNCHANGED vpcdVars
    <3>1. worker'[w].pc = "wait" /\ worker'[w].req = worker[w].req
      BY <1>t, <2>2 DEF WorkerStates
    <3> QED BY <1>8, <1>m, <1>t, <2>2, <3>1 DEF get_atr_from_client, sessionVars
  <2> QED BY <1>8, <2>1, <2>2 DEF get_atr_from_client
<1>9. ASSUME NEW w \in Workers, wait_for_command_channel(w) PROVE WorkerConsistent'
  <2>1. CASE Finish(w, Virtual!ErrorAnswer)
    BY <1>9, <1>f, <2>1 DEF wait_for_command_channel, sessionVars, Busy, Unlocked
  <2>2. ASSUME UNCHANGED vpcdVars,
               \/ worker' = [worker EXCEPT ![w].pc = "send"]
               \/ worker' = [worker EXCEPT ![w].polls = @ + 1]
        PROVE  WorkerConsistent'
    <3>1. /\ worker'[w].pc \in {"wait", "send"}
          /\ worker'[w].req = worker[w].req
          /\ worker[w].pc = "wait"
      BY <1>9, <1>t, <2>2 DEF wait_for_command_channel, WorkerStates
    <3> QED BY <1>9, <1>m, <1>t, <2>2, <3>1 DEF wait_for_command_channel, sessionVars
  <2> QED BY <1>9, <2>1, <2>2 DEF wait_for_command_channel
<1>10. ASSUME NEW w \in Workers, send_command_async(w) PROVE WorkerConsistent'
  <2>1. CASE ~HasChannel(w[1]) \/ ~rx[channel[w[1]]]
    <3>1. Finish(w, Virtual!ErrorAnswer) /\ lock' = lock /\ readers' = readers
      BY <1>10, <2>1 DEF send_command_async, store_pending, sessionVars
    <3> QED BY <1>10, <1>f, <3>1 DEF send_command_async, Busy, Unlocked
  <2>2. CASE HasChannel(w[1]) /\ rx[channel[w[1]]]
    <3>1. /\ HasChannel(w[1])
          /\ store_pending(w[1], worker[w].req)
          /\ Unlocked
          /\ worker[w].pc = "send"
          /\ UNCHANGED vpcdVars
          /\ \/ /\ worker' = [worker EXCEPT ![w].pc = "blocked", ![w].cid = nextId]
                /\ lock' = w
             \/ /\ worker' = [worker EXCEPT ![w].pc = "await", ![w].cid = nextId]
                /\ UNCHANGED lock
      BY <1>10, <2>2 DEF send_command_async
    <3>2. UNCHANGED <<readers, channel>>
      BY <3>1 DEF store_pending
    <3>3. CASE lock' = w /\ worker' = [worker EXCEPT ![w].pc = "blocked", ![w].cid = nextId]
      <4>1. /\ worker'[w].pc = "blocked"
            /\ worker'[w].cid = nextId
            /\ worker'[w].req = worker[w].req
        BY <1>t, <3>3 DEF WorkerStates
      <4>2. <<nextId, worker[w].req>> \in pending'[w[1]]
        <5>1. w[1] \in SessionIds /\ pending \in [SessionIds -> SUBSET (Nat \X Requests)]
          BY DEF Workers, TypeOK, SessionTypeOK
        <5> QED BY <3>1, <5>1 DEF store_pending
      <4>3. WorkerOK(w)'
        <5>1. WorkerOK(w) /\ AskedOn(w)' = AskedOn(w)
          BY <3>1 DEF WorkerConsistent, AskedOn
        <5>2. channel'[w[1]] # NoConn
          BY <3>1, <3>2 DEF HasChannel
        <5> QED BY <3>1, <3>2, <3>3, <4>1, <4>2, <5>1, <5>2 DEF WorkerOK, Busy
      <4>4. \A v \in Workers : v # w => Spared(v)
        BY <1>n, <1>t, <3>1, <3>2, <3>3 DEF Spared, Unlocked
      <4> QED BY <4>3, <4>4, SparedWorker DEF WorkerConsistent
    <3>4. CASE lock' = lock /\ worker' = [worker EXCEPT ![w].pc = "await", ![w].cid = nextId]
      <4>1. worker'[w].pc = "await" /\ worker'[w].req = worker[w].req
        BY <1>t, <3>4 DEF WorkerStates
      <4> QED BY <1>m, <1>t, <3>1, <3>2, <3>4, <4>1
    <3> QED BY <3>1, <3>3, <3>4
  <2> QED BY <2>1, <2>2
<1>11. ASSUME NEW w \in Workers, send_unblocked(w) PROVE WorkerConsistent'
  <2>1. worker[w].pc = "blocked" /\ lock = w /\ lock' = NoWorker /\ readers' = readers
    BY <1>11 DEF send_unblocked, WorkerConsistent, WorkerOK, sessionVars
  <2>2. CASE Finish(w, Virtual!ErrorAnswer)
    BY <1>f, <2>1, <2>2 DEF Busy
  <2>3. CASE worker' = [worker EXCEPT ![w].pc = "await"] /\ UNCHANGED vpcdVars
    <3>1. worker'[w].pc = "await" /\ worker'[w].req = worker[w].req
      BY <1>t, <2>3 DEF WorkerStates
    <3>2. WorkerOK(w) /\ AskedOn(w)' = AskedOn(w)
      BY <2>3 DEF WorkerConsistent, AskedOn
    <3>3. WorkerOK(w)'
      BY <1>n, <2>1, <2>3, <3>1, <3>2 DEF WorkerOK, Busy
    <3>4. \A v \in Workers : v # w => Spared(v)
      BY <1>n, <1>t, <2>1, <2>3 DEF Spared
    <3> QED BY <3>3, <3>4, SparedWorker DEF WorkerConsistent
  <2> QED BY <1>11, <2>2, <2>3 DEF send_unblocked
<1>12. ASSUME NEW w \in Workers, NEW a, Finish(w, a), worker[w].pc = "await",
              UNCHANGED <<lock, channel, pending, readers>>
       PROVE  WorkerConsistent'
  <2>1. lock # w
    BY <1>12 DEF WorkerConsistent, WorkerOK
  <2>2. WorkerOK(w)'
    BY <1>12, <2>1, FinishedWorker DEF Busy
  <2>3. \A v \in Workers : v # w => Spared(v)
    BY <1>12, FinishEffect DEF Spared
  <2> QED BY <2>2, <2>3, SparedWorker DEF WorkerConsistent
<1>13. ASSUME NEW w \in Workers,
              response_received(w) \/ response_channel_closed(w) \/ response_timeout(w)
       PROVE  WorkerConsistent'
  BY <1>12, <1>13 DEF response_received, response_channel_closed, response_timeout,
     sessionVars
<1>14. ASSUME NEW w \in Workers, vpcd_closes(w) PROVE WorkerConsistent'
  <2>1. /\ port' = [port EXCEPT ![w] = "down"]
        /\ ask' = [ask EXCEPT ![w] = NoReq]
        /\ UNCHANGED <<worker, asked, lock, channel, pending, readers>>
    BY <1>14 DEF vpcd_closes, sessionVars
  <2>2. WorkerOK(w) /\ AskedOn(w)' = AskedOn(w) /\ port'[w] = "down" /\ ask'[w] = NoReq
    BY <1>t, <2>1 DEF WorkerConsistent, AskedOn
  <2>3. WorkerOK(w)'
    BY <2>1, <2>2 DEF WorkerOK
  <2>4. \A v \in Workers : v # w => Spared(v)
    BY <1>t, <2>1 DEF Spared
  <2> QED BY <2>3, <2>4, SparedWorker DEF WorkerConsistent
<1>15. ASSUME NEW m \in inflight, send_command_response(m) PROVE WorkerConsistent'
  <2>1. /\ UNCHANGED <<port, ask, asked, lock, channel, readers>>
        /\ Unlocked
    BY <1>15 DEF send_command_response, remove_pending, sessionVars
  <2>2. ASSUME NEW v \in Workers
        PROVE  worker'[v].pc = worker[v].pc /\ worker'[v].req = worker[v].req
    <3>1. worker'[v] = worker[v] \/ worker'[v] = [worker[v] EXCEPT !.mail = m.reply]
      BY <1>15 DEF send_command_response
    <3> QED BY <1>t, <3>1 DEF WorkerStates
  <2>3. ASSUME NEW v \in Workers PROVE WorkerOK(v)'
    <3>1. WorkerOK(v) /\ AskedOn(v)' = AskedOn(v)
      BY <2>1 DEF WorkerConsistent, AskedOn
    <3> QED BY <1>n, <2>1, <2>2, <3>1 DEF WorkerOK, Unlocked
  <2> QED BY <2>3 DEF WorkerConsistent
<1>16. ASSUME server_restarts PROVE WorkerConsistent'
  BY <1>16, <1>n DEF server_restarts, StoppedWorker, WorkerConsistent, WorkerOK, Busy
<1>17. ASSUME UNCHANGED vars PROVE WorkerConsistent'
  BY <1>17, SparedWorker DEF vars, sessionVars, WorkerConsistent, Spared
<1> QED BY <1>1, <1>2, <1>3, <1>4, <1>5, <1>6, <1>7, <1>8, <1>9, <1>10, <1>11, <1>13, <1>14,
           <1>15, <1>16, <1>17 DEF Next, ConnStep, WorkerStep

----------------------------------------------------------------------------
(* Commands and responses reach whom they are meant for.                    *)

(* What a step may do to sessions, ids and pending entries: nothing, a new  *)
(* session, fewer entries, one entry under the next id, or a new server     *)
(* process.                                                                 *)
LEMMA TableSteps ==
    ASSUME TypeOK, [Next]_vars
    PROVE  \/ UNCHANGED <<sessions, issued, pending, nextId>>
           \/ \E s \in SessionIds : create_session(s)
           \/ /\ UNCHANGED <<sessions, issued, nextId>>
              /\ \A s \in SessionIds : pending'[s] \subseteq pending[s]
           \/ \E w \in Workers : /\ HasChannel(w[1])
                                 /\ store_pending(w[1], worker[w].req)
           \/ server_restarts
<1>t. pending \in [SessionIds -> SUBSET (Nat \X Requests)]
  BY DEF TypeOK, SessionTypeOK
<1>1. ASSUME NEW c \in Conns, ConnStep(c)
      PROVE  \/ UNCHANGED <<sessions, issued, pending, nextId>>
             \/ \E s \in SessionIds : create_session(s)
             \/ /\ UNCHANGED <<sessions, issued, nextId>>
                /\ \A s \in SessionIds : pending'[s] \subseteq pending[s]
  <2>1. CASE register_channel(c)
    BY <1>t, <2>1 DEF register_channel, set_command_channel, sessionVars
  <2>2. CASE end_channel(c)
    BY <1>t, <2>2 DEF end_channel, clear_command_channel, sessionVars
  <2>3. CASE \E s \in SessionIds, d \in BOOLEAN : establish_session(c, s, d)
    BY <2>3 DEF establish_session
  <2>4. CASE \E r \in Readers, info \in CardInfos : update_reader_info(c, r, info)
    BY <2>4 DEF update_reader_info, update_reader, sessionVars
  <2>5. CASE \/ \E r \in Readers : register_reader_fails(c, r)
             \/ start_command_channel(c)
             \/ channel_without_message(c)
             \/ receive_command(c)
             \/ \E ok \in BOOLEAN : process_command(c, ok)
             \/ \E lost \in BOOLEAN : response_rpc_fails(c, lost)
             \/ command_stream_ends(c)
             \/ stream_breaks(c)
             \/ drop_receiver(c)
             \/ \E b \in BOOLEAN : client_stops(c, b)
    BY <2>5 DEF register_reader_fails, start_command_channel, channel_without_message,
       receive_command, process_command, response_rpc_fails, command_stream_ends,
       stream_breaks, drop_receiver, client_stops, sessionVars
  <2> QED BY <1>1, <2>1, <2>2, <2>3, <2>4, <2>5 DEF ConnStep
<1>2. ASSUME NEW w \in Workers, WorkerStep(w)
      PROVE  \/ UNCHANGED <<sessions, issued, pending, nextId>>
             \/ HasChannel(w[1]) /\ store_pending(w[1], worker[w].req)
  <2>1. CASE send_command_async(w)
    BY <2>1 DEF send_command_async, sessionVars
  <2>2. CASE \/ connect(w)
             \/ disconnected(w)
             \/ \E q \in Requests : receive_message(w, q)
             \/ get_atr_from_client(w)
             \/ wait_for_command_channel(w)
             \/ send_unblocked(w)
             \/ response_received(w)
             \/ response_channel_closed(w)
             \/ response_timeout(w)
             \/ vpcd_closes(w)
    BY <2>2 DEF connect, disconnected, receive_message, get_atr_from_client,
       wait_for_command_channel, send_unblocked, response_received,
       response_channel_closed, response_timeout, vpcd_closes, sessionVars
  <2> QED BY <1>2, <2>1, <2>2 DEF WorkerStep
<1>3. ASSUME NEW m \in inflight, send_command_response(m)
      PROVE  /\ UNCHANGED <<sessions, issued, nextId>>
             /\ \A s \in SessionIds : pending'[s] \subseteq pending[s]
  BY <1>t, <1>3 DEF send_command_response, remove_pending, sessionVars
<1>4. UNCHANGED vars => UNCHANGED <<sessions, issued, pending, nextId>>
  BY DEF vars, sessionVars
<1> QED BY <1>1, <1>2, <1>3, <1>4 DEF Next

(* No step forgets that a request was put to a vpcd client.                 *)
LEMMA AskedGrows ==
    ASSUME TypeOK, WorkerConsistent, [Next]_vars, NEW w \in Workers
    PROVE  AskedOn(w) \subseteq AskedOn(w)'
<1>1. \/ asked' = asked
      \/ \E v \in Workers, q \in Requests : asked' = [asked EXCEPT ![v] = Append(asked[v], q)]
  BY VpcdSteps DEF vpcdVars, connect, receive_message, Finish, vpcd_closes, server_restarts
<1>2. asked[w] \in Seq(Requests) /\ asked \in [Workers -> Seq(Requests)]
  BY DEF TypeOK
<1>3. asked'[w] = asked[w] \/ \E q \in Requests : asked'[w] = Append(asked[w], q)
  BY <1>1, <1>2
<1> HIDE <1>1
<1>4. ASSUME NEW q \in Requests, asked'[w] = Append(asked[w], q)
      PROVE  AskedOn(w) \subseteq AskedOn(w)'
  <2>1. \A i \in DOMAIN asked[w] : i \in DOMAIN asked'[w] /\ asked'[w][i] = asked[w][i]
    BY <1>2, <1>4
  <2> QED BY <2>1 DEF AskedOn
<1> QED BY <1>3, <1>4 DEF AskedOn

(* A command or response that cannot reach the wrong waiter now never will: *)
(* ids are not reused by the process that knows the session, and a new      *)
(* process does not know the session.                                       *)
LEMMA RoutedStep ==
    ASSUME TypeOK, WorkerConsistent, ChannelServed, [Next]_vars,
           NEW s \in SessionIds, NEW cid \in Nat, NEW q, NEW w \in Workers,
           Routed(s, cid, q, w)
    PROVE  Routed(s, cid, q, w)'
<1>t. /\ pending \in [SessionIds -> SUBSET (Nat \X Requests)]
      /\ nextId \in Nat
      /\ sessions \subseteq issued
  BY DEF TypeOK, SessionTypeOK
<1>a. q \in AskedOn(w)'
  BY AskedGrows DEF Routed
<1>1. CASE UNCHANGED <<sessions, issued, pending, nextId>>
  BY <1>1, <1>a DEF Routed
<1>2. ASSUME NEW n \in SessionIds, create_session(n) PROVE Routed(s, cid, q, w)'
  BY <1>2, <1>a DEF create_session, Routed
<1>3. CASE /\ UNCHANGED <<sessions, issued, nextId>>
           /\ \A n \in SessionIds : pending'[n] \subseteq pending[n]
  BY <1>3, <1>a DEF Routed
<1>4. ASSUME NEW v \in Workers, HasChannel(v[1]), store_pending(v[1], worker[v].req)
      PROVE  Routed(s, cid, q, w)'
  <2>1. /\ UNCHANGED <<sessions, issued>>
        /\ nextId' = nextId + 1
        /\ v[1] \in sessions
        /\ pending' = [pending EXCEPT ![v[1]] = {p \in pending[v[1]] : p[1] # nextId}
                                                  \cup {<<nextId, worker[v].req>>}]
    BY <1>4 DEF store_pending, next_command_id, HasChannel
  <2>2. \A p \in pending'[s] : p \in pending[s] \/ (s \in sessions /\ p[1] = nextId)
    BY <1>t, <2>1
  <2>3. \A p \in pending'[s] : p[1] = cid => p[2] = q
    BY <1>t, <2>2 DEF Routed
  <2>4. s \in sessions' => cid < nextId'
    BY <1>t, <2>1 DEF Routed
  <2> QED BY <1>a, <2>1, <2>3, <2>4 DEF Routed
<1>5. ASSUME server_restarts PROVE Routed(s, cid, q, w)'
  <2>1. sessions' = {} /\ issued' = issued /\ pending' = [n \in SessionIds |-> {}]
    BY <1>5 DEF server_restarts, EmptyTable
  <2> QED BY <1>a, <2>1 DEF Routed
<1> QED BY <1>1, <1>2, <1>3, <1>4, <1>5, TableSteps

(* A command in a queue after a step was there before, or was put there by a*)
(* vpcd client of the connection's session, with the id its request is filed*)
(* under.                                                                   *)
LEMMA QueueSteps ==
    ASSUME TypeOK, WorkerConsistent, [Next]_vars, NEW c \in Conns, NEW i \in DOMAIN queue'[c]
    PROVE  \/ \E k \in DOMAIN queue[c] : queue'[c][i] = queue[c][k]
           \/ \E w \in Workers, cid \in Nat :
                 /\ channel[w[1]] = c
                 /\ <<cid, worker[w].req>> \in pending'[w[1]]
                 /\ worker[w].req \in AskedOn(w)
                 /\ queue'[c][i] = Command(w, cid)
                 /\ UNCHANGED <<client, asked, sessions, issued>>
<1> USE DEF serverVars, vpcdVars, clientVars, netVars
<1>t. /\ queue \in [Conns -> Seq(Commands)]
      /\ queue[c] \in Seq(Commands)
      /\ nextId \in Nat
      /\ pending \in [SessionIds -> SUBSET (Nat \X Requests)]
      /\ \A w \in Workers : w[1] \in SessionIds /\ worker[w].cid \in Nat
  BY DEF TypeOK, SessionTypeOK, Workers, WorkerStates
<1>s. ASSUME queue'[c] = queue[c]
      PROVE  \E k \in DOMAIN queue[c] : queue'[c][i] = queue[c][k]
  BY <1>s
<1>a. ASSUME NEW w \in Workers, NEW cid \in Nat,
             queue' = [queue EXCEPT ![channel[w[1]]] = Append(@, Command(w, cid))]
      PROVE  \/ \E k \in DOMAIN queue[c] : queue'[c][i] = queue[c][k]
             \/ channel[w[1]] = c /\ queue'[c][i] = Command(w, cid)
  <2>1. CASE channel[w[1]] # c
    BY <1>a, <1>s, <1>t, <2>1
  <2>2. CASE channel[w[1]] = c
    <3>1. queue'[c] = Append(queue[c], Command(w, cid))
      BY <1>a, <1>t, <2>2
    <3>2. i = Len(queue[c]) + 1 \/ (i \in DOMAIN queue[c] /\ queue'[c][i] = queue[c][i])
      BY <1>t, <3>1
    <3>3. i = Len(queue[c]) + 1 => queue'[c][i] = Command(w, cid)
      BY <1>t, <3>1
    <3> QED BY <2>2, <3>2, <3>3
  <2> QED BY <2>1, <2>2
<1>1. ASSUME NEW d \in Conns, ConnStep(d)
      PROVE  \E k \in DOMAIN queue[c] : queue'[c][i] = queue[c][k]
  <2>1. CASE receive_command(d)
    <3>1. queue'[c] = queue[c] \/ (queue[c] # << >> /\ queue'[c] = Tail(queue[c]))
      BY <1>t, <2>1 DEF receive_command
    <3>2. ASSUME queue[c] # << >>, queue'[c] = Tail(queue[c])
          PROVE  i + 1 \in DOMAIN queue[c] /\ queue'[c][i] = queue[c][i + 1]
      BY <1>t, <3>2
    <3> QED BY <1>s, <3>1, <3>2
  <2>2. CASE drop_receiver(d)
    <3>1. queue'[c] = queue[c] \/ \E n \in 0 .. Len(queue[c]) : queue'[c] = SubSeq(queue[c], 1, n)
      BY <1>t, <2>2 DEF drop_receiver
    <3>2. ASSUME NEW n \in 0 .. Len(queue[c]), queue'[c] = SubSeq(queue[c], 1, n)
          PROVE  i \in DOMAIN queue[c] /\ queue'[c][i] = queue[c][i]
      BY <1>t, <3>2
    <3> QED BY <1>s, <3>1, <3>2
  <2>3. CASE \/ \E s \in SessionIds, e \in BOOLEAN : establish_session(d, s, e)
             \/ \E r \in Readers, info \in CardInfos : update_reader_info(d, r, info)
             \/ \E r \in Readers : register_reader_fails(d, r)
             \/ start_command_channel(d)
             \/ register_channel(d)
             \/ channel_without_message(d)
             \/ end_channel(d)
             \/ \E ok \in BOOLEAN : process_command(d, ok)
             \/ \E lost \in BOOLEAN : response_rpc_fails(d, lost)
             \/ command_stream_ends(d)
             \/ stream_breaks(d)
             \/ \E b \in BOOLEAN : client_stops(d, b)
    <3>1. queue' = queue
      BY <2>3 DEF establish_session, update_reader_info, register_reader_fails,
         start_command_channel, register_channel, channel_without_message, end_channel,
         process_command, response_rpc_fails, command_stream_ends, stream_breaks, client_stops
    <3> QED BY <1>s, <3>1
  <2> QED BY <1>1, <2>1, <2>2, <2>3 DEF ConnStep
<1>2. ASSUME NEW w \in Workers, WorkerStep(w)
      PROVE  \/ \E k \in DOMAIN queue[c] : queue'[c][i] = queue[c][k]
             \/ \E cid \in Nat :
                   /\ channel[w[1]] = c
                   /\ <<cid, worker[w].req>> \in pending'[w[1]]
                   /\ worker[w].req \in AskedOn(w)
                   /\ queue'[c][i] = Command(w, cid)
                   /\ UNCHANGED <<client, asked, sessions, issued>>
  <2>1. CASE send_command_async(w)
    <3>1. \/ queue' = queue
          \/ /\ store_pending(w[1], worker[w].req)
             /\ worker[w].pc = "send"
             /\ UNCHANGED <<client, asked>>
             /\ queue' = [queue EXCEPT ![channel[w[1]]] = Append(@, Command(w, nextId))]
      BY <2>1 DEF send_command_async
    <3>2. ASSUME store_pending(w[1], worker[w].req), worker[w].pc = "send"
          PROVE  /\ <<nextId, worker[w].req>> \in pending'[w[1]]
                 /\ UNCHANGED <<sessions, issued>>
                 /\ worker[w].req \in AskedOn(w)
      BY <1>t, <3>2 DEF store_pending, WorkerConsistent, WorkerOK, Busy
    <3> QED BY <1>a, <1>s, <1>t, <3>1, <3>2
  <2>2. CASE send_unblocked(w)
    <3>1. \/ queue' = queue
          \/ queue' = [queue EXCEPT ![channel[w[1]]] = Append(@, Command(w, worker[w].cid))]
      BY <2>2 DEF send_unblocked
    <3>2. /\ <<worker[w].cid, worker[w].req>> \in pending[w[1]]
          /\ worker[w].req \in AskedOn(w)
      BY <2>2 DEF send_unblocked, WorkerConsistent, WorkerOK, Busy
    <3>3. UNCHANGED <<client, sessions, issued, pending>>
      BY <2>2 DEF send_unblocked, sessionVars
    <3>4. UNCHANGED asked
      BY <2>2 DEF send_unblocked, Finish
    <3> QED BY <1>a, <1>s, <1>t, <3>1, <3>2, <3>3, <3>4
  <2>3. CASE \/ connect(w)
             \/ disconnected(w)
             \/ \E q \in Requests : receive_message(w, q)
             \/ get_atr_from_client(w)
             \/ wait_for_command_channel(w)
             \/ response_received(w)
             \/ response_channel_closed(w)
             \/ response_timeout(w)
             \/ vpcd_closes(w)
    <3>1. queue' = queue
      BY <2>3 DEF connect, disconnected, receive_message, get_atr_from_client,
         wait_for_command_channel, response_received, response_channel_closed,
         response_timeout, vpcd_closes
    <3> QED BY <1>s, <3>1
  <2> QED BY <1>2, <2>1, <2>2, <2>3 DEF WorkerStep
<1>3. ASSUME NEW m \in inflight, send_command_response(m)
      PROVE  \E k \in DOMAIN queue[c] : queue'[c][i] = queue[c][k]
  BY <1>3, <1>s DEF send_command_response
<1>4. ASSUME server_restarts PROVE FALSE
  BY <1>4 DEF server_restarts
<1>5. ASSUME UNCHANGED vars PROVE \E k \in DOMAIN queue[c] : queue'[c][i] = queue[c][k]
  BY <1>5, <1>s DEF vars
<1> QED BY <1>1, <1>2, <1>3, <1>4, <1>5 DEF Next

(* A connection keeps its session once it has one, and executes only what it*)
(* took from the head of its queue.                                         *)
LEMMA ClientSteps ==
    ASSUME TypeOK, [Next]_vars, NEW c \in Conns
    PROVE  /\ client'[c].sid = client[c].sid \/ client[c].pc = "start"
           /\ client'[c].pc = "exec" =>
                \/ client'[c] = client[c]
                \/ queue[c] # << >> /\ client'[c].cmd = Head(queue[c]) /\ client[c].pc = "recv"
<1> USE DEF clientVars, netVars
<1>t. client \in [Conns -> ClientStates]
  BY DEF TypeOK
<1> DEFINE SidKept == client'[c].sid = client[c].sid \/ client[c].pc = "start"
           ExecFrom == client'[c].pc = "exec" =>
                \/ client'[c] = client[c]
                \/ queue[c] # << >> /\ client'[c].cmd = Head(queue[c]) /\ client[c].pc = "recv"
<1>1. ASSUME NEW d \in Conns, ConnStep(d) PROVE SidKept /\ ExecFrom
  <2>1. CASE UNCHANGED client
    BY <2>1
  <2>2. CASE receive_command(d)
    <3>1. client' = [client EXCEPT ![d].pc = "exec", ![d].cmd = Head(queue[d])]
      BY <2>2 DEF receive_command
    <3>2. CASE d = c
      BY <1>t, <2>2, <3>1, <3>2 DEF receive_command, ClientStates
    <3>3. CASE d # c
      BY <1>t, <3>1, <3>3
    <3> QED BY <3>2, <3>3
  <2>3. ASSUME client'[d].pc # "exec",
               \A e \in Conns : e # d => client'[e] = client[e],
               client'[d].sid = client[d].sid \/ client[d].pc = "start"
        PROVE  SidKept /\ ExecFrom
    BY <2>3
  <2>4. CASE \E s \in SessionIds, e \in BOOLEAN : establish_session(d, s, e)
    <3>1. /\ client[d].pc = "start"
          /\ \E s \in SessionIds :
               \/ client' = [client EXCEPT ![d].pc = "register", ![d].sid = s]
               \/ client' = [client EXCEPT ![d].pc = "gone"]
      BY <2>4 DEF establish_session
    <3> QED BY <1>t, <2>3, <3>1 DEF ClientStates
  <2>5. CASE \/ \E r \in Readers, info \in CardInfos : update_reader_info(d, r, info)
             \/ \E r \in Readers : register_reader_fails(d, r)
    <3>1. /\ client[d].pc = "register"
          /\ \E r \in Readers : client' = [client EXCEPT ![d].todo = @ \ {r}]
      BY <2>5 DEF update_reader_info, register_reader_fails
    <3> QED BY <1>t, <2>3, <3>1 DEF ClientStates
  <2>6. CASE \/ start_command_channel(d)
             \/ \E ok \in BOOLEAN : process_command(d, ok)
             \/ \E lost \in BOOLEAN : response_rpc_fails(d, lost)
             \/ command_stream_ends(d)
             \/ \E b \in BOOLEAN : client_stops(d, b)
    <3>1. \/ client' = [client EXCEPT ![d].pc = "recv"]
          \/ client' = [client EXCEPT ![d].pc = "respond"]
          \/ client' = [client EXCEPT ![d].pc = "recv", ![d].cmd = NoCmd]
          \/ client' = [client EXCEPT ![d].pc = "gone"]
          \/ client' = [client EXCEPT ![d].pc = "gone", ![d].cmd = NoCmd]
      BY <2>6 DEF start_command_channel, process_command, response_rpc_fails,
         command_stream_ends, client_stops
    <3> QED BY <1>t, <2>3, <3>1 DEF ClientStates
  <2>7. CASE \/ register_channel(d)
             \/ channel_without_message(d)
             \/ end_channel(d)
             \/ stream_breaks(d)
             \/ drop_receiver(d)
    BY <2>1, <2>7 DEF register_channel, channel_without_message, end_channel, stream_breaks,
       drop_receiver
  <2> HIDE DEF SidKept, ExecFrom
  <2> QED BY <1>1, <2>2, <2>4, <2>5, <2>6, <2>7 DEF ConnStep
<1>2. ASSUME NEW w \in Workers, WorkerStep(w) PROVE UNCHANGED client
  BY <1>2 DEF WorkerStep, connect, disconnected, receive_message, get_atr_from_client,
     wait_for_command_channel, send_command_async, send_unblocked, response_received,
     response_channel_closed, response_timeout, vpcd_closes
<1>3. ASSUME NEW m \in inflight, send_command_response(m)
      PROVE  SidKept /\ ExecFrom
  <2>1. \/ client' = client
        \/ \E d \in Conns : client' = [client EXCEPT ![d].pc = "recv", ![d].cmd = NoCmd]
    BY <1>3 DEF send_command_response, TypeOK, Responses
  <2>2. \A e \in Conns : \/ client'[e] = client[e]
                         \/ client'[e].pc = "recv" /\ client'[e].sid = client[e].sid
    <3>1. CASE client' = client
      BY <3>1
    <3>2. ASSUME NEW d \in Conns, client' = [client EXCEPT ![d].pc = "recv", ![d].cmd = NoCmd],
                 NEW e \in Conns
          PROVE  \/ client'[e] = client[e]
                 \/ client'[e].pc = "recv" /\ client'[e].sid = client[e].sid
      <4>1. client[e] \in ClientStates
        BY <1>t
      <4>2. CASE e = d
        BY <1>t, <3>2, <4>1, <4>2 DEF ClientStates
      <4>3. CASE e # d
        BY <1>t, <3>2, <4>3
      <4> QED BY <4>2, <4>3
    <3> QED BY <2>1, <3>1, <3>2
  <2> QED BY <2>2
<1>4. CASE server_restarts
  BY <1>4 DEF server_restarts
<1>5. CASE UNCHANGED vars
  BY <1>5 DEF vars
<1> QED BY <1>1, <1>2, <1>3, <1>4, <1>5 DEF Next

(* A new response on its way is that of a command a client has just         *)
(* executed, with the command's id and the client's session.                *)
LEMMA InflightSteps ==
    ASSUME [Next]_vars, NEW m \in inflight', m \notin inflight
    PROVE  \E d \in Conns, ok \in BOOLEAN :
              /\ client[d].pc = "exec"
              /\ m = [conn |-> d, sid |-> client[d].sid, cid |-> client[d].cmd.cid,
                      reply |-> [ok |-> ok, req |-> client[d].cmd.req,
                                 by |-> <<client[d].sid, client[d].cmd.reader>>]]
<1> USE DEF clientVars, netVars
<1>1. ASSUME NEW d \in Conns, ConnStep(d)
      PROVE  \E ok \in BOOLEAN : process_command(d, ok)
  BY <1>1 DEF ConnStep, establish_session, update_reader_info, register_reader_fails,
     start_command_channel, register_channel, channel_without_message, end_channel,
     receive_command, response_rpc_fails, command_stream_ends, stream_breaks, drop_receiver,
     client_stops
<1>2. ASSUME NEW w \in Workers, WorkerStep(w) PROVE UNCHANGED inflight
  BY <1>2 DEF WorkerStep, connect, disconnected, receive_message, get_atr_from_client,
     wait_for_command_channel, send_command_async, send_unblocked, response_received,
     response_channel_closed, response_timeout, vpcd_closes
<1>3. ASSUME NEW d \in Conns, NEW ok \in BOOLEAN, process_command(d, ok)
      PROVE  /\ client[d].pc = "exec"
             /\ m = [conn |-> d, sid |-> client[d].sid, cid |-> client[d].cmd.cid,
                     reply |-> [ok |-> ok, req |-> client[d].cmd.req,
                                by |-> <<client[d].sid, client[d].cmd.reader>>]]
  BY <1>3 DEF process_command
<1>4. \A n \in inflight : send_command_response(n) => inflight' \subseteq inflight
  BY DEF send_command_response
<1>5. server_restarts => inflight' = {}
  BY DEF server_restarts
<1>6. UNCHANGED vars => UNCHANGED inflight
  BY DEF vars
<1> QED BY <1>1, <1>2, <1>3, <1>4, <1>5, <1>6 DEF Next

(* A vpcd client's oneshot is filled only by a response filed under an id   *)
(* its request is pending under.                                            *)
LEMMA MailSteps ==
    ASSUME TypeOK, WorkerConsistent, [Next]_vars, NEW w \in Workers
    PROVE  \/ worker'[w] = worker[w]
           \/ worker'[w].mail = NoReply
           \/ worker[w].pc # "await" /\ worker'[w].mail = worker[w].mail
           \/ \E m \in inflight : /\ worker[w].pc = "await"
                                  /\ worker[w].req \in waiter(m.sid, m.cid)
                                  /\ worker'[w] = [worker[w] EXCEPT !.mail = m.reply]
<1> USE DEF serverVars
<1>t. worker \in [Workers -> WorkerStates]
  BY DEF TypeOK
<1> DEFINE Kept == \/ worker'[w] = worker[w]
                   \/ worker'[w].mail = NoReply
                   \/ worker[w].pc # "await" /\ worker'[w].mail = worker[w].mail
<1>f. ASSUME NEW v \in Workers, NEW a, Finish(v, a) PROVE Kept
  <2>1. worker'[w] = worker[w] \/ w = v
    BY <1>f, FinishEffect
  <2>2. worker'[v] = [StoppedWorker EXCEPT
                        !.pc = IF port[v] = "up" THEN "idle" ELSE "connecting"]
    BY <1>f, FinishEffect
  <2>3. w = v => worker'[w].mail = NoReply
    BY <2>2 DEF StoppedWorker
  <2> QED BY <2>1, <2>3
<1>1. ASSUME NEW c \in Conns, ConnStep(c) PROVE Kept
  <2>1. CASE UNCHANGED worker
    BY <2>1
  <2>2. ASSUME NEW r \in Readers, NEW info \in CardInfos, update_reader_info(c, r, info),
               worker' # worker
        PROVE  Kept
    <3>1. PICK v \in Workers : /\ v = <<client[c].sid, r>>
                               /\ worker' = [worker EXCEPT ![v].pc = "connecting"]
                               /\ readers[v[1]][v[2]] = "unknown"
      <4>1. /\ client[c].sid \in sessions
            /\ worker' = [worker EXCEPT ![<<client[c].sid, r>>].pc = "connecting"]
            /\ readers[client[c].sid][r] = "unknown"
        BY <2>2 DEF update_reader_info, StartsVpcdClient
      <4>2. PICK s \in SessionIds : s = client[c].sid
        BY <4>1 DEF TypeOK, SessionTypeOK
      <4>3. PICK v \in Workers : v = <<s, r>>
        BY DEF Workers
      <4> QED BY <4>1, <4>2, <4>3
    <3>2. worker[v].pc = "off"
      BY <3>1 DEF WorkerConsistent, WorkerOK
    <3>3. worker'[v].mail = worker[v].mail /\ (v # w => worker'[w] = worker[w])
      BY <1>t, <3>1 DEF WorkerStates
    <3> QED BY <3>2, <3>3
  <2>3. \/ UNCHANGED worker
        \/ \E r \in Readers, info \in CardInfos : update_reader_info(c, r, info)
    BY <1>1 DEF ConnStep, establish_session, register_reader_fails, start_command_channel,
       register_channel, channel_without_message, end_channel, receive_command,
       process_command, response_rpc_fails, command_stream_ends, stream_breaks,
       drop_receiver, client_stops
  <2> QED BY <2>1, <2>2, <2>3
<1>2. ASSUME NEW v \in Workers, WorkerStep(v) PROVE Kept
  <2>1. CASE UNCHANGED worker
    BY <2>1
  <2>2. ASSUME worker[v].pc # "await", worker'[v].mail = worker[v].mail,
               v # w => worker'[w] = worker[w]
        PROVE  Kept
    BY <2>2
  <2>3. ASSUME connect(v) PROVE Kept
    <3>1. worker' = [worker EXCEPT ![v].pc = "idle"] /\ worker[v].pc = "connecting"
      BY <2>3 DEF connect
    <3> QED BY <1>t, <2>2, <3>1 DEF WorkerStates
  <2>4. ASSUME disconnected(v) PROVE Kept
    <3>1. worker' = [worker EXCEPT ![v].pc = "connecting"] /\ worker[v].pc = "idle"
      BY <2>4 DEF disconnected
    <3> QED BY <1>t, <2>2, <3>1 DEF WorkerStates
  <2>5. ASSUME NEW q \in Requests, receive_message(v, q) PROVE Kept
    <3>1. /\ \E x : worker' = [worker EXCEPT ![v].pc = x, ![v].req = q]
          /\ worker[v].pc = "idle"
      BY <2>5 DEF receive_message
    <3> QED BY <1>t, <2>2, <3>1 DEF WorkerStates
  <2>6. ASSUME get_atr_from_client(v), ~ \E a : Finish(v, a) PROVE Kept
    <3>1. worker' = [worker EXCEPT ![v].pc = "wait"] /\ worker[v].pc = "atr"
      BY <2>6 DEF get_atr_from_client
    <3> QED BY <1>t, <2>2, <3>1 DEF WorkerStates
  <2>7. ASSUME wait_for_command_channel(v), ~ \E a : Finish(v, a) PROVE Kept
    <3>1. /\ \/ worker' = [worker EXCEPT ![v].pc = "send"]
             \/ worker' = [worker EXCEPT ![v].polls = @ + 1]
          /\ worker[v].pc = "wait"
      BY <2>7 DEF wait_for_command_channel
    <3> QED BY <1>t, <2>2, <3>1 DEF WorkerStates
  <2>8. ASSUME send_command_async(v), ~ \E a : Finish(v, a) PROVE Kept
    <3>1. /\ \E x : worker' = [worker EXCEPT ![v].pc = x, ![v].cid = nextId]
          /\ worker[v].pc = "send"
      BY <2>8 DEF send_command_async
    <3> QED BY <1>t, <2>2, <3>1 DEF WorkerStates
  <2>9. ASSUME send_unblocked(v), ~ \E a : Finish(v, a) PROVE Kept
    <3>1. worker' = [worker EXCEPT ![v].pc = "await"] /\ worker[v].pc = "blocked"
      BY <2>9 DEF send_unblocked, WorkerConsistent, WorkerOK
    <3> QED BY <1>t, <2>2, <3>1 DEF WorkerStates
  <2>10. \/ \E a : Finish(v, a)
         \/ UNCHANGED worker
         \/ connect(v) \/ disconnected(v)
         \/ \E q \in Requests : receive_message(v, q)
         \/ get_atr_from_client(v) \/ wait_for_command_channel(v)
         \/ send_command_async(v) \/ send_unblocked(v)
    BY <1>2 DEF WorkerStep, response_received, response_channel_closed, response_timeout,
       vpcd_closes
  <2> HIDE DEF Kept
  <2> QED BY <1>f, <2>1, <2>3, <2>4, <2>5, <2>6, <2>7, <2>8, <2>9, <2>10
<1>3. ASSUME NEW m \in inflight, send_command_response(m)
      PROVE  \/ Kept
             \/ /\ worker[w].pc = "await"
                /\ worker[w].req \in waiter(m.sid, m.cid)
                /\ worker'[w] = [worker[w] EXCEPT !.mail = m.reply]
  BY <1>3 DEF send_command_response
<1>4. CASE server_restarts
  BY <1>4 DEF server_restarts, StoppedWorker
<1>5. CASE UNCHANGED vars
  BY <1>5 DEF vars
<1> QED BY <1>1, <1>2, <1>3, <1>4, <1>5 DEF Next

(* Every step keeps commands and responses correlated.  The response        *)
(* delivered is that of the waiting request because its id files only that  *)
(* request, and of the right card because only one vpcd client was ever     *)
(* asked that request.                                                      *)
LEMMA CorrelatedStep ==
    ASSUME IInv, [Next]_vars
    PROVE  Correlated'
<1> USE DEF IInv
<1>t. /\ queue \in [Conns -> Seq(Commands)]
      /\ client \in [Conns -> ClientStates]
      /\ worker \in [Workers -> WorkerStates]
      /\ inflight \subseteq Responses
      /\ sessions \subseteq issued
      /\ issued \subseteq SessionIds
      /\ \A c \in Conns : queue[c] \in Seq(Commands)
  BY DEF TypeOK, SessionTypeOK
<1>o. ASSUME NEW c \in Conns, NEW cmd \in Commands,
             Routed(client[c].sid, cmd.cid, cmd.req, <<client[c].sid, cmd.reader>>),
             client'[c].sid = client[c].sid
      PROVE  Routed(client[c].sid, cmd.cid, cmd.req, <<client[c].sid, cmd.reader>>)'
  <2>1. client[c].sid \in SessionIds /\ cmd.cid \in Nat /\ cmd.reader \in Readers
    BY <1>o, <1>t DEF Routed, Commands
  <2>2. PICK s \in SessionIds : s = client[c].sid
    BY <2>1
  <2>3. PICK w \in Workers : w = <<s, cmd.reader>>
    BY <2>1 DEF Workers
  <2>4. Routed(s, cmd.cid, cmd.req, w)'
    BY <1>o, <2>1, <2>2, <2>3, RoutedStep
  <2>5. client'[c].sid = s /\ <<client'[c].sid, cmd.reader>> = w
    BY <1>o, <2>2, <2>3
  <2> QED BY <2>4, <2>5 DEF Routed
<1>1. ASSUME NEW c \in Conns, NEW i \in DOMAIN queue'[c]
      PROVE  Routed(client[c].sid, queue[c][i].cid, queue[c][i].req,
                    <<client[c].sid, queue[c][i].reader>>)'
  <2>1. ASSUME NEW k \in DOMAIN queue[c], queue'[c][i] = queue[c][k]
        PROVE  Routed(client[c].sid, queue[c][i].cid, queue[c][i].req,
                      <<client[c].sid, queue[c][i].reader>>)'
    <3>1. queue[c][k] \in Commands
      BY <1>t
    <3>2. queue[c] # << >>
      BY <1>t
    <3>3. client'[c].sid = client[c].sid
      BY <3>2, ClientSteps DEF ConnConsistent
    <3>4. PICK cmd \in Commands : cmd = queue[c][k]
      BY <3>1
    <3>5. Routed(client[c].sid, cmd.cid, cmd.req, <<client[c].sid, cmd.reader>>)
      BY <3>4 DEF Correlated
    <3>6. Routed(client[c].sid, cmd.cid, cmd.req, <<client[c].sid, cmd.reader>>)'
      BY <1>o, <3>3, <3>5
    <3>7. queue'[c][i] = cmd
      BY <2>1, <3>4
    <3> QED BY <3>6, <3>7 DEF Routed
  <2>2. ASSUME NEW w \in Workers, NEW cid \in Nat,
               channel[w[1]] = c,
               <<cid, worker[w].req>> \in pending'[w[1]],
               worker[w].req \in AskedOn(w),
               queue'[c][i] = Command(w, cid),
               UNCHANGED <<client, asked, sessions, issued>>
        PROVE  Routed(client[c].sid, queue[c][i].cid, queue[c][i].req,
                      <<client[c].sid, queue[c][i].reader>>)'
    <3>1. PICK s \in SessionIds, r \in Readers : w = <<s, r>>
      BY DEF Workers
    <3>2. client[c].sid = s /\ s \in sessions
      BY <2>2, <3>1, NoConnAssumption DEF ChannelServed
    <3>3. PendingConsistent'
      BY PendingConsistentStep
    <3>4. cid < nextId' /\ \A p \in pending'[s] : p[1] = cid => p[2] = worker[w].req
      BY <2>2, <3>1, <3>3 DEF PendingConsistent
    <3>5. AskedOn(w)' = AskedOn(w)
      BY <2>2 DEF AskedOn
    <3>6. /\ s \in issued'
          /\ w[1] = s
          /\ worker[w].req \in AskedOn(w)'
      BY <1>t, <2>2, <3>1, <3>2, <3>5
    <3>7. /\ client'[c].sid = s
          /\ queue'[c][i].cid = cid
          /\ queue'[c][i].req = worker[w].req
          /\ <<client'[c].sid, queue'[c][i].reader>> = w
      BY <2>2, <3>1, <3>2 DEF Command
    <3> QED BY <3>4, <3>6, <3>7 DEF Routed
  <2>3. \/ \E k \in DOMAIN queue[c] : queue'[c][i] = queue[c][k]
        \/ \E w \in Workers, cid \in Nat :
              /\ channel[w[1]] = c
              /\ <<cid, worker[w].req>> \in pending'[w[1]]
              /\ worker[w].req \in AskedOn(w)
              /\ queue'[c][i] = Command(w, cid)
              /\ UNCHANGED <<client, asked, sessions, issued>>
    BY QueueSteps
  <2> QED BY <2>1, <2>2, <2>3
<1>2. ASSUME NEW c \in Conns, client'[c].pc = "exec"
      PROVE  Routed(client[c].sid, client[c].cmd.cid, client[c].cmd.req,
                    <<client[c].sid, client[c].cmd.reader>>)'
  <2>1. CASE client'[c] = client[c]
    <3>1. client[c].cmd \in Commands /\ client[c].pc = "exec"
      BY <1>2, <2>1 DEF ConnConsistent
    <3>2. PICK cmd \in Commands : cmd = client[c].cmd
      BY <3>1
    <3>3. Routed(client[c].sid, cmd.cid, cmd.req, <<client[c].sid, cmd.reader>>)
      BY <3>1, <3>2 DEF Correlated
    <3>4. Routed(client[c].sid, cmd.cid, cmd.req, <<client[c].sid, cmd.reader>>)'
      BY <1>o, <2>1, <3>3
    <3>5. client'[c].cmd = cmd
      BY <2>1, <3>2
    <3> QED BY <3>4, <3>5 DEF Routed
  <2>2. CASE queue[c] # << >> /\ client'[c].cmd = Head(queue[c]) /\ client[c].pc = "recv"
    <3>1. 1 \in DOMAIN queue[c] /\ queue[c][1] \in Commands /\ Head(queue[c]) = queue[c][1]
      BY <1>t, <2>2
    <3>2. PICK cmd \in Commands : cmd = queue[c][1]
      BY <3>1
    <3>3. Routed(client[c].sid, cmd.cid, cmd.req, <<client[c].sid, cmd.reader>>)
      BY <3>1, <3>2 DEF Correlated
    <3>4. client'[c].sid = client[c].sid
      BY <2>2, ClientSteps
    <3>5. Routed(client[c].sid, cmd.cid, cmd.req, <<client[c].sid, cmd.reader>>)'
      BY <1>o, <3>3, <3>4
    <3>6. client'[c].cmd = cmd
      BY <2>2, <3>1, <3>2
    <3> QED BY <3>5, <3>6 DEF Routed
  <2> QED BY <1>2, <2>1, <2>2, ClientSteps
<1>3. ASSUME NEW m \in inflight' PROVE Routed(m.sid, m.cid, m.reply.req, m.reply.by)'
  <2>1. CASE m \in inflight
    <3>1. m.sid \in SessionIds /\ m.cid \in Nat /\ m.reply.by \in Workers
      BY <1>t, <2>1 DEF Responses, Replies
    <3>2. Routed(m.sid, m.cid, m.reply.req, m.reply.by)
      BY <2>1 DEF Correlated
    <3> QED BY <3>1, <3>2, RoutedStep
  <2>2. ASSUME NEW d \in Conns, NEW ok \in BOOLEAN, client[d].pc = "exec",
               m = [conn |-> d, sid |-> client[d].sid, cid |-> client[d].cmd.cid,
                    reply |-> [ok |-> ok, req |-> client[d].cmd.req,
                               by |-> <<client[d].sid, client[d].cmd.reader>>]]
        PROVE  Routed(m.sid, m.cid, m.reply.req, m.reply.by)'
    <3>1. PICK cmd \in Commands : cmd = client[d].cmd
      BY <2>2 DEF ConnConsistent
    <3>2. PICK s \in SessionIds : s = client[d].sid
      BY <1>t, <2>2 DEF ConnConsistent
    <3>3. PICK w \in Workers : w = <<s, cmd.reader>>
      BY DEF Workers, Commands
    <3>4. cmd.cid \in Nat
      BY DEF Commands
    <3>5. Routed(s, cmd.cid, cmd.req, w)
      BY <2>2, <3>1, <3>2, <3>3 DEF Correlated
    <3>6. Routed(s, cmd.cid, cmd.req, w)'
      BY <3>4, <3>5, RoutedStep
    <3>7. m.sid = s /\ m.cid = cmd.cid /\ m.reply.req = cmd.req /\ m.reply.by = w
      BY <2>2, <3>1, <3>2, <3>3
    <3> QED BY <3>6, <3>7
  <2>3. \/ m \in inflight
        \/ \E d \in Conns, ok \in BOOLEAN :
              /\ client[d].pc = "exec"
              /\ m = [conn |-> d, sid |-> client[d].sid, cid |-> client[d].cmd.cid,
                      reply |-> [ok |-> ok, req |-> client[d].cmd.req,
                                 by |-> <<client[d].sid, client[d].cmd.reader>>]]
    BY InflightSteps
  <2> QED BY <2>1, <2>2, <2>3
<1>4. ASSUME NEW w \in Workers, worker'[w].mail # NoReply
      PROVE  /\ worker'[w].pc = "await"
             /\ worker'[w].mail.req = worker'[w].req
             /\ worker'[w].mail.by = w
  <2>1. CASE worker'[w] = worker[w]
    BY <1>4, <2>1 DEF Correlated
  <2>2. CASE worker[w].pc # "await" /\ worker'[w].mail = worker[w].mail
    BY <1>4, <2>2 DEF Correlated
  <2>3. ASSUME NEW m \in inflight, worker[w].pc = "await",
               worker[w].req \in waiter(m.sid, m.cid),
               worker'[w] = [worker[w] EXCEPT !.mail = m.reply]
        PROVE  /\ worker'[w].pc = "await"
               /\ worker'[w].mail.req = worker'[w].req
               /\ worker'[w].mail.by = w
    <3>1. m.reply \in Replies /\ worker[w] \in WorkerStates
      BY <1>t DEF Responses
    <3>2. /\ worker'[w].mail = m.reply
          /\ worker'[w].req = worker[w].req
          /\ worker'[w].pc = "await"
      BY <2>3, <3>1 DEF WorkerStates
    <3>3. Routed(m.sid, m.cid, m.reply.req, m.reply.by)
      BY DEF Correlated
    <3>4. m.reply.req = worker[w].req
      BY <2>3, <3>3 DEF Routed, waiter
    <3>5. worker[w].req \in AskedOn(w)
      BY <2>3 DEF WorkerConsistent, WorkerOK, Busy
    <3>6. m.reply.by = w
      BY <3>1, <3>3, <3>4, <3>5 DEF Routed, AskedOnce, Replies
    <3> QED BY <3>2, <3>4, <3>6
  <2> QED BY <1>4, <2>1, <2>2, <2>3, MailSteps
<1> QED BY <1>1, <1>2, <1>3, <1>4 DEF Correlated

----------------------------------------------------------------------------
(* The theorems.                                                            *)

(* The inductive invariant holds when the server has just started and no    *)
(* client has connected.                                                    *)
LEMMA InitIInv == Init => IInv
<1> SUFFICES ASSUME Init PROVE IInv
  OBVIOUS
<1> USE DEF Init, SessionInit, EmptyTable, Virtual!Init
<1>1. TypeOK
  <2>1. SessionTypeOK
    BY DEF SessionTypeOK, ReaderInfos
  <2>2. worker \in [Workers -> WorkerStates]
    BY DEF WorkerStates, StoppedWorker
  <2>3. client \in [Conns -> ClientStates]
    BY DEF ClientStates
  <2>4. answer \in [Requests -> Answers]
    BY DEF Answers, Virtual!Unanswered
  <2> QED BY <2>1, <2>2, <2>3, <2>4 DEF TypeOK
<1>2. AskedOnce
  BY DEF AskedOnce, AskedOn
<1>3. ConnConsistent
  BY DEF ConnConsistent
<1>4. WorkerConsistent
  BY RelayAssumption DEF WorkerConsistent, WorkerOK, StoppedWorker, Busy
<1>5. PendingConsistent
  BY DEF PendingConsistent
<1>6. ChannelServed
  BY DEF ChannelServed
<1>7. Correlated
  BY DEF Correlated, StoppedWorker
<1> QED BY <1>1, <1>2, <1>3, <1>4, <1>5, <1>6, <1>7 DEF IInv

(* The inductive invariant holds in every reachable state, for any numbers  *)
(* of sessions, connections, readers and requests and any failures.         *)
THEOREM Invariance == Spec => []IInv
<1>1. Init => IInv
  BY InitIInv
<1>2. IInv /\ [Next]_vars => IInv'
  <2> SUFFICES ASSUME IInv, [Next]_vars PROVE IInv'
    OBVIOUS
  <2>1. TypeOK'
    BY TypeStep DEF IInv
  <2>2. AskedOnce'
    BY AskedOnceStep DEF IInv
  <2>3. ConnConsistent'
    BY ConnConsistentStep DEF IInv
  <2>4. WorkerConsistent'
    BY WorkerConsistentStep DEF IInv
  <2>5. PendingConsistent'
    BY PendingConsistentStep DEF IInv
  <2>6. ChannelServed'
    BY ChannelServedStep DEF IInv
  <2>7. Correlated'
    BY CorrelatedStep
  <2> QED BY <2>1, <2>2, <2>3, <2>4, <2>5, <2>6, <2>7 DEF IInv
<1> QED BY <1>1, <1>2, PTL DEF Spec

(* Every variable keeps its type: the state is always one the declarations  *)
(* of the structs and channels allow.                                       *)
THEOREM TypeCorrect == Spec => []TypeOK
<1>1. IInv => TypeOK
  BY DEF IInv
<1> QED BY <1>1, Invariance, PTL

(* A session's command channel (Session.command_channel) is always that of  *)
(* the connection that owns the session, with a task in command_channel that*)
(* still runs and clears it at the end; so clear_command_channel never      *)
(* removes another connection's channel.                                    *)
THEOREM ChannelsServed == Spec => []ChannelServed
<1>1. IInv => ChannelServed
  BY DEF IInv
<1> QED BY <1>1, Invariance, PTL

(* handle_response never hands a response to a request it does not answer,  *)
(* nor a card's response to another reader's vpcd client, whatever is late, *)
(* lost or repeated and however often the server restarts.                  *)
THEOREM ResponsesCorrelated == Spec => []Correlated
<1>1. IInv => Correlated
  BY DEF IInv
<1> QED BY <1>1, Invariance, PTL

(* A step of the relay is a step of the virtual reader, or one vpcd does not*)
(* see.                                                                     *)
LEMMA VirtualStep ==
    ASSUME IInv, [Next]_vars
    PROVE  [Virtual!Next]_(Virtual!vars)
<1> USE DEF IInv
<1>t. /\ port \in [Workers -> {"up", "down"}]
      /\ ask \in [Workers -> Requests \cup {NoReq}]
      /\ NoReq \notin Requests
  BY RelayAssumption DEF TypeOK
<1>1. CASE UNCHANGED vpcdVars
  BY <1>1 DEF vpcdVars, Virtual!vars
<1>2. ASSUME NEW w \in Workers, connect(w) PROVE Virtual!Next
  <2>1. port[w] = "down"
    BY <1>2 DEF connect, WorkerConsistent, WorkerOK
  <2>2. Virtual!Attach(w)
    BY <1>2, <2>1 DEF connect, Virtual!Attach
  <2> QED BY <2>2 DEF Virtual!Next
<1>3. ASSUME NEW w \in Workers, NEW q \in Requests, receive_message(w, q) PROVE Virtual!Next
  <2>1. ask[w] = NoReq
    BY <1>3 DEF receive_message, WorkerConsistent, WorkerOK, Busy
  <2>2. \A v \in Workers : q \notin AskedOn(v)
    BY <1>3 DEF receive_message, Fresh, AskedOn
  <2>3. answer[q] = Virtual!Unanswered /\ \A v \in Workers : ask[v] # q
    BY <1>t, <2>2 DEF AskedOnce
  <2>4. Virtual!Ask(w, q)
    BY <1>3, <2>1, <2>3 DEF receive_message, Virtual!Ask
  <2> QED BY <2>4 DEF Virtual!Next
<1>4. ASSUME NEW w \in Workers, worker[w].pc \in Busy, NEW a \in Conclusions(w), Finish(w, a)
      PROVE  [Virtual!Next]_(Virtual!vars)
  <2>1. /\ worker[w].req \in AskedOn(w)
        /\ ask[w] = IF port[w] = "up" THEN worker[w].req ELSE NoReq
    BY <1>4 DEF WorkerConsistent, WorkerOK
  <2>2. worker[w].req \in Requests
    BY <2>1 DEF AskedOn, TypeOK
  <2>3. CASE port[w] = "up"
    <3>1. ask[w] = worker[w].req /\ ask[w] # NoReq
      BY <1>t, <2>1, <2>2, <2>3
    <3>2. a \in Virtual!Faithful(ask[w], w)
      <4>1. CASE a = Virtual!ErrorAnswer
        BY <4>1 DEF Virtual!Faithful
      <4>2. CASE worker[w].pc = "atr" /\ a = Virtual!CachedAtr(w)
        <5>1. ask[w] \in AtrRequests
          BY <3>1, <4>2 DEF WorkerConsistent, WorkerOK
        <5> QED BY <4>2, <5>1 DEF Virtual!Faithful
      <4>3. CASE worker[w].mail # NoReply /\ a = AnswerFrom(worker[w].mail, worker[w].req)
        <5>1. worker[w].mail.req = worker[w].req /\ worker[w].mail.by = w
          BY <4>3 DEF Correlated
        <5> QED BY <3>1, <4>3, <5>1 DEF AnswerFrom, Virtual!Faithful
      <4> QED BY <4>1, <4>2, <4>3 DEF Conclusions
    <3>3. /\ answer' = [answer EXCEPT ![ask[w]] = a]
          /\ ask' = [ask EXCEPT ![w] = NoReq]
          /\ port' = port
      BY <1>4, <2>3, <3>1 DEF Finish
    <3>4. Virtual!Answer(w)
      BY <3>1, <3>2, <3>3 DEF Virtual!Answer
    <3> QED BY <3>4 DEF Virtual!Next
  <2>4. CASE port[w] # "up"
    <3>1. ask[w] = NoReq
      BY <2>1, <2>4
    <3>2. ask' = ask
      BY <1>4, <1>t, <3>1 DEF Finish
    <3>3. answer' = answer /\ port' = port
      BY <1>4, <2>4 DEF Finish
    <3> QED BY <3>2, <3>3 DEF Virtual!vars
  <2> QED BY <2>3, <2>4
<1>5. ASSUME NEW w \in Workers, vpcd_closes(w) PROVE Virtual!Next
  <2>1. Virtual!Detach({w})
    BY <1>5, <1>t DEF vpcd_closes, Virtual!Detach
  <2> QED BY <2>1 DEF Virtual!Next
<1>6. ASSUME server_restarts PROVE Virtual!Next
  <2>1. Virtual!Detach(Workers)
    BY <1>6, <1>t DEF server_restarts, Virtual!Detach
  <2> QED BY <2>1 DEF Virtual!Next
<1> QED BY <1>1, <1>2, <1>3, <1>4, <1>5, <1>6, VpcdSteps

(* The relay implements VirtualReader: vpcd sees, behind every connection, a*)
(* reader whose answers are its card's reply to the very request asked, the *)
(* ATR announced for it, or an error.                                       *)
THEOREM RelayImplementsVirtualReader == Spec => ActsAsVirtualReader
<1>1. Init => Virtual!Init
  BY DEF Init
<1>2. IInv /\ [Next]_vars => [Virtual!Next]_(Virtual!vars)
  BY VirtualStep
<1> QED BY <1>1, <1>2, Invariance, PTL DEF Spec, ActsAsVirtualReader, Virtual!Spec

=============================================================================
