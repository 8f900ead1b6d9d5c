-------------------------- MODULE RelayOrderProofs --------------------------
(***************************************************************************)
(* Proofs about RemoteSmartcard, continued: no live channel is replaced, and*)
(* the requests vpcd puts to a reader are run there in the order it put     *)
(* them, each at most once.                                                 *)
(*                                                                          *)
(* For the second, the way of a request is followed: it is with its vpcd    *)
(* client (Unsent), then in a slot of a connection, then run.  OrderInv says*)
(* that whatever is further on its way was asked earlier.                   *)
(***************************************************************************)
EXTENDS RemoteSmartcardProofs

(* A session belongs to one connection: the one that established it.        *)
OneOwner ==
    /\ \A c \in Conns : client[c].sid # NoSession =>
          client[c].sid \in issued /\ client[c].pc # "start"
    /\ \A c, d \in Conns : client[c].sid = client[d].sid /\ client[c].sid # NoSession => c = d

(* Request p was put to w before request q. *)
Before(w, p, q) ==
    \E k, l \in DOMAIN asked[w] : k < l /\ asked[w][k] = p /\ asked[w][l] = q

RanOn(w) == {ran[w][i] : i \in DOMAIN ran[w]}

(* What connection c has still to run: the command at hand is in slot 0,    *)
(* those in its queue follow.                                               *)
Slots(c) == (IF client[c].pc = "exec" THEN {0} ELSE {}) \cup DOMAIN queue[c]
Given(c, i) == IF i = 0 THEN client[c].cmd ELSE queue[c][i]
For(c, i) == <<client[c].sid, Given(c, i).reader>>

(* A vpcd client has a request and has not sent a command for it yet.       *)
Unsent(w) == worker[w].pc \in {"atr", "wait", "send", "blocked"}

(* What has been run was asked before what is in the slots, that in the     *)
(* order of the slots, and all of it before what has not been sent yet.     *)
OrderInv ==
    /\ \A w \in Workers : RanOn(w) \subseteq AskedOn(w)
    /\ \A w \in Workers : \A i, j \in DOMAIN ran[w] :
          i < j => Before(w, ran[w][i], ran[w][j])
    /\ \A c \in Conns : \A i, j \in Slots(c) :
          i < j /\ For(c, i) = For(c, j) => Before(For(c, i), Given(c, i).req, Given(c, j).req)
    /\ \A c \in Conns : \A i \in Slots(c) : \A q \in RanOn(For(c, i)) :
          Before(For(c, i), q, Given(c, i).req)
    /\ \A w \in Workers : Unsent(w) =>
          /\ \A q \in RanOn(w) : Before(w, q, worker[w].req)
          /\ \A c \in Conns : \A i \in Slots(c) :
                For(c, i) = w => Before(w, Given(c, i).req, worker[w].req)

(* The slots of c are as they were, but for some that were emptied; or each *)
(* holds what was in the next one.                                          *)
Advances(c) ==
    \E n \in {0, 1} : \A i \in Slots(c)' :
        /\ i + n \in Slots(c)
        /\ Given(c, i)' = Given(c, i + n)
        /\ client'[c].sid = client[c].sid

(* No request is put to anyone, sent or run.                                *)
Passes ==
    /\ UNCHANGED <<asked, ran>>
    /\ \A w \in Workers : Unsent(w)' => Unsent(w) /\ worker'[w].req = worker[w].req
    /\ \A c \in Conns : Advances(c)

(* The vpcd client of w puts its command in the queue.                      *)
Sends(w) ==
    /\ Unsent(w) /\ ~Unsent(w)'
    /\ \A v \in Workers : v # w => worker'[v] = worker[v]
    /\ UNCHANGED <<asked, ran, client>>
    /\ channel[w[1]] # NoConn
    /\ \E cid \in Nat : queue' = [queue EXCEPT ![channel[w[1]]] = Append(@, Command(w, cid))]

----------------------------------------------------------------------------
(* What the steps of the relay mean for requests on their way.              *)

(* A connection that takes nothing from its queue, and whose command at hand*)
(* is the same or gone, advances.                                           *)
LEMMA SlotsKept ==
    ASSUME TypeOK, NEW c \in Conns, queue'[c] = queue[c],
           \/ client'[c] = client[c]
           \/ client'[c].pc # "exec" /\ client'[c].sid = client[c].sid
    PROVE  Advances(c)
<1>1. DOMAIN queue[c] \subseteq Nat \ {0}
  BY DEF TypeOK
<1>2. ASSUME NEW i \in Slots(c)'
      PROVE  i + 0 \in Slots(c) /\ Given(c, i)' = Given(c, i + 0)
             /\ client'[c].sid = client[c].sid
  BY <1>1, <1>2 DEF Slots, Given
<1> QED BY <1>2 DEF Advances

(* Steps of a connection, but for running a command.                        *)
LEMMA ConnAdvances ==
    ASSUME TypeOK, ConnConsistent, NEW d \in Conns, ConnStep(d),
           ~ \E ok \in BOOLEAN : process_command(d, ok),
           NEW c \in Conns
    PROVE  Advances(c)
<1> USE DEF serverVars, vpcdVars, clientVars, netVars
<1>t. /\ client \in [Conns -> ClientStates]
      /\ queue \in [Conns -> Seq(Commands)]
      /\ queue[c] \in Seq(Commands)
  BY DEF TypeOK
<1>1. CASE receive_command(d)
  <2>1. /\ client[d].pc = "recv" /\ queue[d] # << >>
        /\ client' = [client EXCEPT ![d].pc = "exec", ![d].cmd = Head(queue[d])]
        /\ queue' = [queue EXCEPT ![d] = Tail(queue[d])]
    BY <1>1 DEF receive_command
  <2>2. CASE c # d
    BY <1>t, <2>1, <2>2, SlotsKept
  <2>3. CASE c = d
    <3>1. /\ client'[c].cmd = Head(queue[c]) /\ client'[c].sid = client[c].sid
          /\ client'[c].pc = "exec"
          /\ queue'[c] = Tail(queue[c]) /\ queue[c] # << >>
      BY <1>t, <2>1, <2>3 DEF ClientStates
    <3>2. Slots(c)' = {0} \cup DOMAIN Tail(queue[c])
      BY <3>1 DEF Slots
    <3>3. ASSUME NEW i \in Slots(c)'
          PROVE  i + 1 \in Slots(c) /\ Given(c, i)' = Given(c, i + 1)
                 /\ client'[c].sid = client[c].sid
      <4>1. CASE i = 0
        <5>1. Given(c, i)' = queue[c][1] /\ 1 \in DOMAIN queue[c]
          BY <1>t, <3>1, <4>1 DEF Given
        <5> QED BY <3>1, <4>1, <5>1 DEF Given, Slots
      <4>2. CASE i # 0
        <5>1. i \in DOMAIN Tail(queue[c])
          BY <3>2, <3>3, <4>2
        <5>2. /\ i \in Nat /\ i + 1 \in DOMAIN queue[c]
              /\ Tail(queue[c])[i] = queue[c][i + 1]
          BY <1>t, <3>1, <5>1
        <5> QED BY <3>1, <4>2, <5>2 DEF Given, Slots
      <4> QED BY <4>1, <4>2
    <3> QED BY <3>3 DEF Advances
  <2> QED BY <2>2, <2>3
<1>2. CASE drop_receiver(d)
  <2>1. client' = client
    BY <1>2 DEF drop_receiver
  <2>2. PICK n \in 0 .. Len(queue[d]) : queue' = [queue EXCEPT ![d] = SubSeq(queue[d], 1, n)]
    BY <1>2 DEF drop_receiver
  <2>3. CASE c # d
    BY <1>t, <2>1, <2>2, <2>3, SlotsKept
  <2>4. CASE c = d
    <3>1. queue'[c] = SubSeq(queue[c], 1, n)
      BY <1>t, <2>2, <2>4
    <3>2. \A i \in DOMAIN queue'[c] : /\ i \in Nat \ {0} /\ i \in DOMAIN queue[c]
                                      /\ queue'[c][i] = queue[c][i]
      BY <1>t, <2>4, <3>1
    <3>3. ASSUME NEW i \in Slots(c)'
          PROVE  i + 0 \in Slots(c) /\ Given(c, i)' = Given(c, i + 0)
                 /\ client'[c].sid = client[c].sid
      BY <2>1, <3>2 DEF Given, Slots
    <3> QED BY <3>3 DEF Advances
  <2> QED BY <2>3, <2>4
<1>3. CASE \E s \in SessionIds, e \in BOOLEAN : establish_session(d, s, e)
  <2>1. /\ client[d].pc = "start"
        /\ queue' = queue
        /\ \E s \in SessionIds :
               \/ client' = [client EXCEPT ![d].pc = "register", ![d].sid = s]
               \/ client' = [client EXCEPT ![d].pc = "gone"]
    BY <1>3 DEF establish_session
  <2>2. CASE c # d
    BY <1>t, <2>1, <2>2, SlotsKept
  <2>3. CASE c = d
    <3>1. queue'[c] = << >> /\ client'[c].pc # "exec"
      BY <1>t, <2>1, <2>3 DEF ConnConsistent, ClientStates
    <3>2. Slots(c)' = {}
      BY <3>1 DEF Slots
    <3> QED BY <3>2 DEF Advances
  <2> QED BY <2>2, <2>3
<1>4. CASE \/ \E r \in Readers, info \in CardInfos : update_reader_info(d, r, info)
           \/ \E r \in Readers : register_reader_fails(d, r)
  <2>1. /\ client[d].pc = "register"
        /\ queue' = queue
        /\ \E r \in Readers : client' = [client EXCEPT ![d].todo = @ \ {r}]
    BY <1>4 DEF update_reader_info, register_reader_fails
  <2>2. \/ client'[c] = client[c]
        \/ client'[c].pc # "exec" /\ client'[c].sid = client[c].sid
    BY <1>t, <2>1 DEF ClientStates
  <2> QED BY <2>1, <2>2, SlotsKept
<1>5. CASE \/ start_command_channel(d)
           \/ \E lost \in BOOLEAN : response_rpc_fails(d, lost)
           \/ command_stream_ends(d)
           \/ \E b \in BOOLEAN : client_stops(d, b)
  <2>1. /\ queue' = queue
        /\ \/ client' = [client EXCEPT ![d].pc = "recv"]
           \/ client' = [client EXCEPT ![d].pc = "recv", ![d].cmd = NoCmd]
           \/ client' = [client EXCEPT ![d].pc = "gone"]
           \/ client' = [client EXCEPT ![d].pc = "gone", ![d].cmd = NoCmd]
    BY <1>5 DEF start_command_channel, response_rpc_fails, command_stream_ends, client_stops
  <2>2. \/ client'[c] = client[c]
        \/ client'[c].pc # "exec" /\ client'[c].sid = client[c].sid
    BY <1>t, <2>1 DEF ClientStates
  <2> QED BY <2>1, <2>2, SlotsKept
<1>6. CASE \/ register_channel(d)
           \/ channel_without_message(d)
           \/ end_channel(d)
           \/ stream_breaks(d)
  <2>1. UNCHANGED <<queue, client>>
    BY <1>6 DEF register_channel, channel_without_message, end_channel, stream_breaks
  <2> QED BY <2>1, SlotsKept
<1> QED BY <1>1, <1>2, <1>3, <1>4, <1>5, <1>6 DEF ConnStep

(* Completing a request leaves no one with a request unsent that was not so.*)
LEMMA FinishSends ==
    ASSUME TypeOK, NEW w \in Workers, NEW a, Finish(w, a)
    PROVE  /\ asked' = asked
           /\ \A v \in Workers : Unsent(v)' => Unsent(v) /\ worker'[v].req = worker[v].req
<1>1. worker'[w].pc \notin {"atr", "wait", "send", "blocked"}
  BY FinishEffect DEF StoppedWorker
<1> QED BY <1>1, FinishEffect DEF Unsent

(* Steps of vpcd clients: a request is put to one, or sent by it, or neither*)
LEMMA WorkerPasses ==
    ASSUME TypeOK, WorkerConsistent, NEW w \in Workers, WorkerStep(w)
    PROVE  Passes \/ (\E q \in Requests : receive_message(w, q)) \/ Sends(w)
<1> USE DEF serverVars, vpcdVars, clientVars, netVars
<1>t. /\ worker \in [Workers -> WorkerStates]
      /\ nextId \in Nat
      /\ worker[w].cid \in Nat
  BY DEF TypeOK, SessionTypeOK, WorkerStates
<1>s. ASSUME UNCHANGED <<queue, client, ran, asked>>,
             \A v \in Workers : Unsent(v)' => Unsent(v) /\ worker'[v].req = worker[v].req
      PROVE  Passes
  BY <1>s, SlotsKept DEF Passes
<1>f. ASSUME NEW a, Finish(w, a), UNCHANGED <<queue, client, ran>> PROVE Passes
  BY <1>f, <1>s, FinishSends
<1>1. CASE connect(w) \/ disconnected(w)
  <2>1. /\ UNCHANGED <<queue, client, ran, asked>>
        /\ \E p \in {"idle", "connecting"} : worker' = [worker EXCEPT ![w].pc = p]
    BY <1>1 DEF connect, disconnected
  <2>2. \A v \in Workers : Unsent(v)' => Unsent(v) /\ worker'[v].req = worker[v].req
    BY <1>t, <2>1 DEF Unsent, WorkerStates
  <2> QED BY <1>s, <2>1, <2>2
<1>2. CASE get_atr_from_client(w)
  <2>1. CASE HasCachedAtr(w)
    BY <1>2, <1>f, <2>1 DEF get_atr_from_client
  <2>2. CASE ~HasCachedAtr(w)
    <3>1. /\ UNCHANGED <<queue, client, ran, asked>>
          /\ worker[w].pc = "atr" /\ worker' = [worker EXCEPT ![w].pc = "wait"]
      BY <1>2, <2>2 DEF get_atr_from_client
    <3>2. \A v \in Workers : Unsent(v)' => Unsent(v) /\ worker'[v].req = worker[v].req
      BY <1>t, <3>1 DEF Unsent, WorkerStates
    <3> QED BY <1>s, <3>1, <3>2
  <2> QED BY <2>1, <2>2
<1>3. CASE wait_for_command_channel(w)
  <2>1. /\ UNCHANGED <<queue, client, ran>> /\ worker[w].pc = "wait"
        /\ \/ Finish(w, Virtual!ErrorAnswer)
           \/ asked' = asked /\ worker' = [worker EXCEPT ![w].pc = "send"]
           \/ asked' = asked /\ worker' = [worker EXCEPT ![w].polls = @ + 1]
    BY <1>3 DEF wait_for_command_channel
  <2>2. asked' = asked /\ worker' = [worker EXCEPT ![w].pc = "send"] => Passes
    <3> SUFFICES ASSUME asked' = asked, worker' = [worker EXCEPT ![w].pc = "send"] PROVE Passes
      OBVIOUS
    <3>1. \A v \in Workers : Unsent(v)' => Unsent(v) /\ worker'[v].req = worker[v].req
      BY <1>t, <2>1 DEF Unsent, WorkerStates
    <3> QED BY <1>s, <2>1, <3>1
  <2>3. asked' = asked /\ worker' = [worker EXCEPT ![w].polls = @ + 1] => Passes
    <3> SUFFICES ASSUME asked' = asked, worker' = [worker EXCEPT ![w].polls = @ + 1]
                 PROVE  Passes
      OBVIOUS
    <3>1. \A v \in Workers : Unsent(v)' => Unsent(v) /\ worker'[v].req = worker[v].req
      BY <1>t, <2>1 DEF Unsent, WorkerStates
    <3> QED BY <1>s, <2>1, <3>1
  <2> QED BY <1>f, <2>1, <2>2, <2>3
<1>4. CASE send_command_async(w)
  <2>1. worker[w].pc = "send" /\ UNCHANGED <<client, ran>>
    BY <1>4 DEF send_command_async
  <2>2. \/ queue' = queue /\ \E a : Finish(w, a)
        \/ /\ UNCHANGED <<queue, asked>>
           /\ worker' = [worker EXCEPT ![w].pc = "blocked", ![w].cid = nextId]
        \/ /\ asked' = asked
           /\ channel[w[1]] # NoConn
           /\ queue' = [queue EXCEPT ![channel[w[1]]] = Append(@, Command(w, nextId))]
           /\ worker' = [worker EXCEPT ![w].pc = "await", ![w].cid = nextId]
    BY <1>4 DEF send_command_async, HasChannel
  <2>3. ASSUME UNCHANGED <<queue, asked>>,
               worker' = [worker EXCEPT ![w].pc = "blocked", ![w].cid = nextId]
        PROVE  Passes
    <3>1. \A v \in Workers : Unsent(v)' => Unsent(v) /\ worker'[v].req = worker[v].req
      BY <1>t, <2>1, <2>3 DEF Unsent, WorkerStates
    <3> QED BY <1>s, <2>1, <2>3, <3>1
  <2>4. ASSUME asked' = asked,
               channel[w[1]] # NoConn,
               queue' = [queue EXCEPT ![channel[w[1]]] = Append(@, Command(w, nextId))],
               worker' = [worker EXCEPT ![w].pc = "await", ![w].cid = nextId]
        PROVE  Sends(w)
    <3>1. Unsent(w) /\ ~Unsent(w)' /\ \A v \in Workers : v # w => worker'[v] = worker[v]
      BY <1>t, <2>1, <2>4 DEF Unsent, WorkerStates
    <3> QED BY <1>t, <2>1, <2>4, <3>1 DEF Sends
  <2> QED BY <1>f, <2>1, <2>2, <2>3, <2>4
<1>5. CASE send_unblocked(w)
  <2>1. worker[w].pc = "blocked" /\ channel[w[1]] # NoConn /\ UNCHANGED <<client, ran>>
    BY <1>5 DEF send_unblocked, WorkerConsistent, WorkerOK
  <2>2. \/ queue' = queue /\ \E a : Finish(w, a)
        \/ /\ asked' = asked
           /\ queue' = [queue EXCEPT ![channel[w[1]]] = Append(@, Command(w, worker[w].cid))]
           /\ worker' = [worker EXCEPT ![w].pc = "await"]
    BY <1>5 DEF send_unblocked
  <2>3. ASSUME asked' = asked,
               queue' = [queue EXCEPT ![channel[w[1]]] = Append(@, Command(w, worker[w].cid))],
               worker' = [worker EXCEPT ![w].pc = "await"]
        PROVE  Sends(w)
    <3>1. Unsent(w) /\ ~Unsent(w)' /\ \A v \in Workers : v # w => worker'[v] = worker[v]
      BY <1>t, <2>1, <2>3 DEF Unsent, WorkerStates
    <3> QED BY <1>t, <2>1, <2>3, <3>1 DEF Sends
  <2> QED BY <1>f, <2>1, <2>2, <2>3
<1>6. CASE response_received(w) \/ response_channel_closed(w) \/ response_timeout(w)
  <2>1. UNCHANGED <<queue, client, ran>> /\ \E a : Finish(w, a)
    BY <1>6 DEF response_received, response_channel_closed, response_timeout
  <2> QED BY <1>f, <2>1
<1>7. CASE vpcd_closes(w)
  <2>1. UNCHANGED <<queue, client, ran, asked, worker>>
    BY <1>7 DEF vpcd_closes
  <2> QED BY <1>s, <2>1 DEF Unsent
<1> QED BY <1>1, <1>2, <1>3, <1>4, <1>5, <1>6, <1>7, <1>t DEF WorkerStep

(* The steps that matter for the order of requests.                         *)
LEMMA OrderSteps ==
    ASSUME TypeOK, ConnConsistent, WorkerConsistent, [Next]_vars
    PROVE  \/ Passes
           \/ \E w \in Workers, q \in Requests : receive_message(w, q)
           \/ \E w \in Workers : Sends(w)
           \/ \E c \in Conns, ok \in BOOLEAN : process_command(c, ok)
<1> USE DEF serverVars, vpcdVars, clientVars, netVars
<1>t. client \in [Conns -> ClientStates] /\ worker \in [Workers -> WorkerStates]
  BY DEF TypeOK
<1>1. ASSUME NEW d \in Conns, ConnStep(d), ~ \E ok \in BOOLEAN : process_command(d, ok)
      PROVE  Passes
  <2>1. UNCHANGED <<asked, ran>>
    BY <1>1 DEF ConnStep, establish_session, update_reader_info, register_reader_fails,
       start_command_channel, register_channel, channel_without_message, end_channel,
       receive_command, response_rpc_fails, command_stream_ends,
       stream_breaks, drop_receiver, client_stops
  <2>2. \/ worker' = worker
        \/ \E v \in Workers : worker' = [worker EXCEPT ![v].pc = "connecting"]
    <3>1. ASSUME NEW r \in Readers, NEW info \in CardInfos, update_reader_info(d, r, info)
          PROVE  \/ worker' = worker
                 \/ \E v \in Workers : worker' = [worker EXCEPT ![v].pc = "connecting"]
      <4>1. client[d].sid \in sessions => <<client[d].sid, r>> \in Workers
        BY DEF TypeOK, SessionTypeOK, Workers
      <4> QED BY <3>1, <4>1 DEF update_reader_info
    <3> QED BY <1>1, <3>1 DEF ConnStep, establish_session, register_reader_fails,
       start_command_channel, register_channel, channel_without_message, end_channel,
       receive_command, response_rpc_fails, command_stream_ends,
       stream_breaks, drop_receiver, client_stops
  <2>3. \A w \in Workers : Unsent(w)' => Unsent(w) /\ worker'[w].req = worker[w].req
    BY <1>t, <2>2 DEF Unsent, WorkerStates
  <2> QED BY <1>1, <2>1, <2>3, ConnAdvances DEF Passes
<1>2. ASSUME NEW m \in inflight, send_command_response(m) PROVE Passes
  <2>1. UNCHANGED <<queue, asked, ran>>
    BY <1>2 DEF send_command_response
  <2>2. \A w \in Workers : worker'[w].pc = worker[w].pc /\ worker'[w].req = worker[w].req
    BY <1>t, <1>2 DEF send_command_response, WorkerStates
  <2>3. \/ client' = client
        \/ \E d \in Conns : client' = [client EXCEPT ![d].pc = "recv", ![d].cmd = NoCmd]
    BY <1>2 DEF send_command_response, TypeOK, Responses
  <2>4. \A c \in Conns : \/ client'[c] = client[c]
                         \/ client'[c].pc # "exec" /\ client'[c].sid = client[c].sid
    <3>1. CASE client' = client
      BY <3>1
    <3>2. ASSUME NEW d \in Conns, client' = [client EXCEPT ![d].pc = "recv", ![d].cmd = NoCmd],
                 NEW c \in Conns
          PROVE  \/ client'[c] = client[c]
                 \/ client'[c].pc # "exec" /\ client'[c].sid = client[c].sid
      <4>1. client \in [Conns -> ClientStates] /\ client[c] \in ClientStates
        BY <1>t
      <4>2. CASE c = d
        BY <3>2, <4>1, <4>2 DEF ClientStates
      <4>3. CASE c # d
        BY <3>2, <4>1, <4>3
      <4> QED BY <4>2, <4>3
    <3> QED BY <2>3, <3>1, <3>2
  <2> QED BY <2>1, <2>2, <2>4, SlotsKept DEF Passes, Unsent
<1>3. CASE server_restarts
  <2>1. /\ UNCHANGED <<asked, ran, client>>
        /\ queue' = [c \in Conns |-> << >>]
        /\ worker' = [w \in Workers |-> StoppedWorker]
    BY <1>3 DEF server_restarts
  <2>2. \A w \in Workers : ~Unsent(w)'
    BY <2>1 DEF Unsent, StoppedWorker
  <2>3. ASSUME NEW c \in Conns PROVE Advances(c)
    <3>1. ASSUME NEW i \in Slots(c)'
          PROVE  i + 0 \in Slots(c) /\ Given(c, i)' = Given(c, i + 0)
                 /\ client'[c].sid = client[c].sid
      BY <2>1 DEF Slots, Given
    <3> QED BY <3>1 DEF Advances
  <2> QED BY <2>1, <2>2, <2>3 DEF Passes
<1>4. CASE UNCHANGED vars
  <2>1. UNCHANGED <<asked, ran, client, queue, worker>>
    BY <1>4 DEF vars
  <2> QED BY <2>1, SlotsKept DEF Passes, Unsent
<1> QED BY <1>1, <1>2, <1>3, <1>4, WorkerPasses DEF Next

----------------------------------------------------------------------------
(* Who owns a session.                                                      *)

(* A session is one connection's for good: EstablishSession draws an id that*)
(* was never drawn, and no connection is given a second one.                *)
LEMMA OneOwnerStep ==
    ASSUME TypeOK, OneOwner, [Next]_vars
    PROVE  OneOwner'
<1> USE DEF serverVars, vpcdVars, clientVars, netVars
<1>t. /\ client \in [Conns -> ClientStates]
      /\ issued \subseteq SessionIds /\ NoSession \notin SessionIds
  BY RelayAssumption DEF TypeOK, SessionTypeOK
<1>k. ASSUME issued \subseteq issued',
             \A c \in Conns : /\ client'[c].sid = client[c].sid
                              /\ client[c].pc # "start" => client'[c].pc # "start"
      PROVE  OneOwner'
  BY <1>k DEF OneOwner
<1>i. issued \subseteq issued'
  <2>1. \/ UNCHANGED issued
        \/ \E s \in SessionIds : create_session(s)
        \/ \E w \in Workers : store_pending(w[1], worker[w].req)
        \/ server_restarts
    BY TableSteps
  <2> QED BY <2>1 DEF create_session, store_pending, server_restarts
<1>c. ASSUME NEW d \in Conns,
             \/ client' = client
             \/ \E r \in Readers : client' = [client EXCEPT ![d].todo = @ \ {r}]
             \/ client' = [client EXCEPT ![d].pc = "recv"]
             \/ client' = [client EXCEPT ![d].pc = "exec", ![d].cmd = Head(queue[d])]
             \/ client' = [client EXCEPT ![d].pc = "respond"]
             \/ client' = [client EXCEPT ![d].pc = "recv", ![d].cmd = NoCmd]
             \/ client' = [client EXCEPT ![d].pc = "gone"]
             \/ client' = [client EXCEPT ![d].pc = "gone", ![d].cmd = NoCmd]
      PROVE  OneOwner'
  <2>1. \A c \in Conns : /\ client'[c].sid = client[c].sid
                         /\ client[c].pc # "start" => client'[c].pc # "start"
    BY <1>t, <1>c DEF ClientStates
  <2> QED BY <1>k, <1>i, <2>1
<1>1. ASSUME NEW d \in Conns, NEW s \in SessionIds, NEW e \in BOOLEAN,
             establish_session(d, s, e)
      PROVE  OneOwner'
  <2>1. /\ s \notin issued /\ issued' = issued \cup {s}
        /\ client[d].pc = "start"
    BY <1>1 DEF establish_session, create_session
  <2>2. CASE client' = [client EXCEPT ![d].pc = "register", ![d].sid = s]
    <3>1. /\ client'[d].sid = s /\ client'[d].pc = "register"
          /\ \A c \in Conns : c # d => client'[c] = client[c]
      BY <1>t, <2>2 DEF ClientStates
    <3> QED BY <1>t, <2>1, <3>1 DEF OneOwner
  <2>3. CASE client' = [client EXCEPT ![d].pc = "gone"]
    BY <1>c, <2>3
  <2> QED BY <1>1, <2>2, <2>3 DEF establish_session
<1>2. ASSUME NEW d \in Conns, ConnStep(d),
             ~ \E s \in SessionIds, e \in BOOLEAN : establish_session(d, s, e)
      PROVE  OneOwner'
  <2>1. \/ client' = client
        \/ \E r \in Readers : client' = [client EXCEPT ![d].todo = @ \ {r}]
        \/ client' = [client EXCEPT ![d].pc = "recv"]
        \/ client' = [client EXCEPT ![d].pc = "exec", ![d].cmd = Head(queue[d])]
        \/ client' = [client EXCEPT ![d].pc = "respond"]
        \/ client' = [client EXCEPT ![d].pc = "recv", ![d].cmd = NoCmd]
        \/ client' = [client EXCEPT ![d].pc = "gone"]
        \/ client' = [client EXCEPT ![d].pc = "gone", ![d].cmd = NoCmd]
    BY <1>2 DEF ConnStep, update_reader_info, register_reader_fails,
       start_command_channel, register_channel, channel_without_message, end_channel,
       receive_command, process_command, response_rpc_fails, command_stream_ends,
       stream_breaks, drop_receiver, client_stops
  <2> QED BY <1>c, <2>1
<1>3. ASSUME NEW w \in Workers, WorkerStep(w) PROVE OneOwner'
  <2>1. client' = client
    BY <1>3 DEF WorkerStep, connect, disconnected, receive_message, get_atr_from_client,
       wait_for_command_channel, send_command_async, send_unblocked, response_received,
       response_channel_closed, response_timeout, vpcd_closes
  <2> QED BY <1>k, <1>i, <2>1
<1>4. ASSUME NEW m \in inflight, send_command_response(m) PROVE OneOwner'
  <2>1. \/ client' = client
        \/ \E d \in Conns : client' = [client EXCEPT ![d].pc = "recv", ![d].cmd = NoCmd]
    BY <1>4 DEF send_command_response, TypeOK, Responses
  <2> QED BY <1>c, <1>k, <1>i, <2>1
<1>5. CASE server_restarts \/ UNCHANGED vars
  <2>1. client' = client
    BY <1>5 DEF server_restarts, vars
  <2> QED BY <1>k, <1>i, <2>1
<1> QED BY <1>1, <1>2, <1>3, <1>4, <1>5 DEF Next

(* A connection that owns no session has nothing in its slots, and what is  *)
(* in a slot was put to the vpcd client of that session and reader.         *)
LEMMA SlotAsked ==
    ASSUME IInv, NEW c \in Conns, NEW i \in Slots(c)
    PROVE  /\ For(c, i) \in Workers
           /\ client[c].sid \in SessionIds
           /\ Given(c, i) \in Commands
           /\ Given(c, i).req \in AskedOn(For(c, i))
<1>t. queue[c] \in Seq(Commands) /\ issued \subseteq SessionIds
  BY DEF IInv, TypeOK, SessionTypeOK
<1>1. CASE i = 0
  <2>1. client[c].pc = "exec"
    BY <1>t, <1>1 DEF Slots
  <2>2. client[c].cmd \in Commands /\ client[c].sid \in SessionIds
    BY <1>t, <2>1 DEF IInv, ConnConsistent
  <2>3. client[c].cmd.req \in AskedOn(<<client[c].sid, client[c].cmd.reader>>)
    BY <2>1 DEF IInv, Correlated, Routed
  <2> QED BY <1>1, <2>2, <2>3 DEF Given, For, Workers, Commands
<1>2. CASE i # 0
  <2>1. i \in DOMAIN queue[c]
    BY <1>2 DEF Slots
  <2>2. queue[c][i] \in Commands
    BY <1>t, <2>1
  <2>3. /\ client[c].sid \in issued
        /\ queue[c][i].req \in AskedOn(<<client[c].sid, queue[c][i].reader>>)
    BY <2>1 DEF IInv, Correlated, Routed
  <2> QED BY <1>2, <1>t, <2>2, <2>3 DEF Given, For, Workers, Commands
<1> QED BY <1>1, <1>2

----------------------------------------------------------------------------
(* The order of requests is kept by every step.                             *)

(* A slot after a step in which connection c advances, and what it was.     *)
LEMMA SlotBefore ==
    ASSUME NEW c \in Conns, NEW n \in {0, 1}, NEW i,
           i + n \in Slots(c), Given(c, i)' = Given(c, i + n), client'[c].sid = client[c].sid
    PROVE  For(c, i)' = For(c, i + n)
  BY DEF For

LEMMA PassesKeepOrder ==
    ASSUME TypeOK', OrderInv, Passes
    PROVE  OrderInv'
<1>t. \A c \in Conns : queue'[c] \in Seq(Commands)
  BY DEF TypeOK
<1>u. UNCHANGED <<asked, ran>>
  BY DEF Passes
<1>a. \A w \in Workers : RanOn(w)' = RanOn(w) /\ AskedOn(w)' = AskedOn(w)
  BY <1>u DEF RanOn, AskedOn
<1>o. ASSUME NEW c \in Conns, NEW i \in Slots(c)'
      PROVE  \E k \in Slots(c) : For(c, i)' = For(c, k) /\ Given(c, i)' = Given(c, k)
  <2>1. PICK n \in {0, 1} : /\ i + n \in Slots(c) /\ Given(c, i)' = Given(c, i + n)
                            /\ client'[c].sid = client[c].sid
    BY DEF Passes, Advances
  <2>2. For(c, i)' = For(c, i + n)
    BY <2>1, SlotBefore
  <2> QED BY <2>1, <2>2
<1>1. \A w \in Workers : RanOn(w)' \subseteq AskedOn(w)'
  BY <1>a DEF OrderInv
<1>2. ASSUME NEW w \in Workers, NEW i \in DOMAIN ran'[w], NEW j \in DOMAIN ran'[w], i < j
      PROVE  Before(w, ran[w][i], ran[w][j])'
  BY <1>u, <1>2 DEF OrderInv, Before
<1>3. ASSUME NEW c \in Conns, NEW i \in Slots(c)', NEW j \in Slots(c)', i < j,
             For(c, i)' = For(c, j)'
      PROVE  Before(For(c, i), Given(c, i).req, Given(c, j).req)'
  <2>1. PICK n \in {0, 1} : \A k \in Slots(c)' :
               /\ k + n \in Slots(c) /\ Given(c, k)' = Given(c, k + n)
               /\ client'[c].sid = client[c].sid
    BY DEF Passes, Advances
  <2>2. For(c, i)' = For(c, i + n) /\ For(c, j)' = For(c, j + n)
    BY <2>1, SlotBefore
  <2>3. i + n < j + n
    <3>1. i \in Nat /\ j \in Nat
      BY <1>t DEF Slots
    <3> QED BY <1>3, <3>1
  <2>4. Before(For(c, i + n), Given(c, i + n).req, Given(c, j + n).req)
    BY <1>3, <2>1, <2>2, <2>3 DEF OrderInv
  <2> QED BY <1>u, <2>1, <2>2, <2>4 DEF Before
<1>4. ASSUME NEW c \in Conns, NEW i \in Slots(c)', NEW q \in RanOn(For(c, i))'
      PROVE  Before(For(c, i), q, Given(c, i).req)'
  <2>1. PICK k \in Slots(c) : For(c, i)' = For(c, k) /\ Given(c, i)' = Given(c, k)
    BY <1>o
  <2>2. q \in RanOn(For(c, k))
    BY <1>u, <2>1 DEF RanOn
  <2>3. Before(For(c, k), q, Given(c, k).req)
    BY <2>2 DEF OrderInv
  <2> QED BY <1>u, <2>1, <2>3 DEF Before
<1>5. ASSUME NEW w \in Workers, Unsent(w)'
      PROVE  /\ \A q \in RanOn(w)' : Before(w, q, worker[w].req)'
             /\ \A c \in Conns : \A i \in Slots(c)' :
                   For(c, i)' = w => Before(w, Given(c, i).req, worker[w].req)'
  <2>1. Unsent(w) /\ worker'[w].req = worker[w].req
    BY <1>5 DEF Passes
  <2>2. \A q \in RanOn(w)' : Before(w, q, worker[w].req)'
    BY <1>a, <1>u, <2>1 DEF OrderInv, Before
  <2>3. ASSUME NEW c \in Conns, NEW i \in Slots(c)', For(c, i)' = w
        PROVE  Before(w, Given(c, i).req, worker[w].req)'
    <3>1. PICK k \in Slots(c) : For(c, i)' = For(c, k) /\ Given(c, i)' = Given(c, k)
      BY <1>o
    <3>2. Before(w, Given(c, k).req, worker[w].req)
      BY <2>1, <2>3, <3>1 DEF OrderInv
    <3> QED BY <1>u, <2>1, <3>1, <3>2 DEF Before
  <2> QED BY <2>2, <2>3
<1> QED BY <1>1, <1>2, <1>3, <1>4, <1>5 DEF OrderInv

(* vpcd puts a request to w: whatever is on its way for w was put to it     *)
(* before.                                                                  *)
LEMMA MessageKeepsOrder ==
    ASSUME IInv, OrderInv, NEW w \in Workers, NEW q \in Requests, receive_message(w, q)
    PROVE  OrderInv'
<1>t. /\ asked \in [Workers -> Seq(Requests)]
      /\ worker \in [Workers -> WorkerStates]
  BY DEF IInv, TypeOK
<1>1. /\ UNCHANGED <<queue, client, ran>>
      /\ asked' = [asked EXCEPT ![w] = Append(asked[w], q)]
      /\ \E p \in {"atr", "wait"} : worker' = [worker EXCEPT ![w].pc = p, ![w].req = q]
  BY DEF receive_message, clientVars, netVars
<1>2. \A v \in Workers : v # w => asked'[v] = asked[v] /\ worker'[v] = worker[v]
  BY <1>t, <1>1
<1>3. worker'[w].req = q /\ asked'[w] = Append(asked[w], q) /\ asked[w] \in Seq(Requests)
  BY <1>t, <1>1 DEF WorkerStates
<1>4. /\ \A k \in DOMAIN asked[w] : k \in DOMAIN asked'[w] /\ asked'[w][k] = asked[w][k]
      /\ Len(asked[w]) + 1 \in DOMAIN asked'[w]
      /\ asked'[w][Len(asked[w]) + 1] = q
      /\ \A k \in DOMAIN asked[w] : k < Len(asked[w]) + 1
  <2> HIDE <1>t, <1>1, <1>2
  <2> QED BY <1>3
<1>b. ASSUME NEW v \in Workers, NEW p, NEW x, Before(v, p, x) PROVE Before(v, p, x)'
  BY <1>2, <1>4, <1>b DEF Before
<1>n. ASSUME NEW p \in AskedOn(w) PROVE Before(w, p, q)'
  <2>1. PICK k \in DOMAIN asked[w] : p = asked[w][k]
    BY DEF AskedOn
  <2> QED BY <1>4, <2>1 DEF Before
<1>a. \A v \in Workers : RanOn(v)' = RanOn(v) /\ AskedOn(v) \subseteq AskedOn(v)'
  BY <1>1, <1>2, <1>4 DEF RanOn, AskedOn
<1>s. \A c \in Conns : /\ Slots(c)' = Slots(c)
                       /\ \A i : Given(c, i)' = Given(c, i) /\ For(c, i)' = For(c, i)
  BY <1>1 DEF Slots, Given, For
<1>5. \A v \in Workers : RanOn(v)' \subseteq AskedOn(v)'
  BY <1>a DEF OrderInv
<1>6. ASSUME NEW v \in Workers, NEW i \in DOMAIN ran'[v], NEW j \in DOMAIN ran'[v], i < j
      PROVE  Before(v, ran[v][i], ran[v][j])'
  <2>1. PICK p, x : p = ran[v][i] /\ x = ran[v][j]
    OBVIOUS
  <2>2. Before(v, p, x)
    BY <1>1, <1>6, <2>1 DEF OrderInv
  <2>3. Before(v, p, x)'
    BY <1>b, <2>2
  <2> QED BY <1>1, <2>1, <2>3 DEF Before
<1>7. ASSUME NEW c \in Conns, NEW i \in Slots(c), NEW j \in Slots(c), i < j,
             For(c, i) = For(c, j)
      PROVE  Before(For(c, i), Given(c, i).req, Given(c, j).req)'
  <2>1. PICK v \in Workers : v = For(c, i)
    BY SlotAsked
  <2>2. PICK p, x : p = Given(c, i).req /\ x = Given(c, j).req
    OBVIOUS
  <2>3. Before(v, p, x)
    BY <1>7, <2>1, <2>2 DEF OrderInv
  <2>4. Before(v, p, x)'
    BY <1>b, <2>3
  <2> QED BY <1>s, <2>1, <2>2, <2>4 DEF Before
<1>8. ASSUME NEW c \in Conns, NEW i \in Slots(c), NEW p \in RanOn(For(c, i))
      PROVE  Before(For(c, i), p, Given(c, i).req)'
  <2>1. PICK v \in Workers : v = For(c, i)
    BY SlotAsked
  <2>2. PICK x : x = Given(c, i).req
    OBVIOUS
  <2>3. Before(v, p, x)
    BY <1>8, <2>1, <2>2 DEF OrderInv
  <2>4. Before(v, p, x)'
    BY <1>b, <2>3
  <2> QED BY <1>s, <2>1, <2>2, <2>4 DEF Before
<1>9. ASSUME NEW v \in Workers, Unsent(v)'
      PROVE  /\ \A p \in RanOn(v) : Before(v, p, worker[v].req)'
             /\ \A c \in Conns : \A i \in Slots(c) :
                   For(c, i) = v => Before(v, Given(c, i).req, worker[v].req)'
  <2>1. CASE v = w
    <3>1. \A p \in RanOn(v) : Before(v, p, q)'
      BY <1>n, <2>1 DEF OrderInv
    <3>2. ASSUME NEW c \in Conns, NEW i \in Slots(c), For(c, i) = v
          PROVE  Before(v, Given(c, i).req, q)'
      <4>1. PICK p : p = Given(c, i).req
        OBVIOUS
      <4>2. p \in AskedOn(w)
        BY <2>1, <3>2, <4>1, SlotAsked
      <4>3. Before(w, p, q)'
        BY <1>n, <4>2
      <4> QED BY <1>s, <2>1, <4>1, <4>3 DEF Before
    <3> QED BY <1>3, <2>1, <3>1, <3>2 DEF Before
  <2>2. CASE v # w
    <3>1. Unsent(v) /\ worker'[v].req = worker[v].req
      BY <1>2, <1>9, <2>2 DEF Unsent
    <3>2. \A p \in RanOn(v) : Before(v, p, worker[v].req)'
      BY <1>2, <2>2, <3>1 DEF OrderInv, Before
    <3>3. ASSUME NEW c \in Conns, NEW i \in Slots(c), For(c, i) = v
          PROVE  Before(v, Given(c, i).req, worker[v].req)'
      <4>1. Before(v, Given(c, i).req, worker[v].req)
        BY <3>1, <3>3 DEF OrderInv
      <4> QED BY <1>2, <1>s, <2>2, <3>1, <4>1 DEF Before
    <3> QED BY <3>2, <3>3
  <2> QED BY <2>1, <2>2
<1>10. \A v \in Workers : \A i, j \in DOMAIN ran'[v] :
          i < j => Before(v, ran[v][i], ran[v][j])'
  BY <1>6
<1>11. \A c \in Conns : \A i, j \in Slots(c)' :
          i < j /\ For(c, i)' = For(c, j)' => Before(For(c, i), Given(c, i).req, Given(c, j).req)'
  BY <1>7, <1>s
<1>12. \A c \in Conns : \A i \in Slots(c)' : \A p \in RanOn(For(c, i))' :
          Before(For(c, i), p, Given(c, i).req)'
  <2>1. ASSUME NEW c \in Conns, NEW i \in Slots(c) PROVE RanOn(For(c, i))' = RanOn(For(c, i))
    BY <1>1, <1>s DEF RanOn
  <2> QED BY <1>8, <1>s, <2>1
<1>13. \A v \in Workers : Unsent(v)' =>
          /\ \A p \in RanOn(v)' : Before(v, p, worker[v].req)'
          /\ \A c \in Conns : \A i \in Slots(c)' :
                For(c, i)' = v => Before(v, Given(c, i).req, worker[v].req)'
  BY <1>9, <1>s, <1>a
<1> QED BY <1>5, <1>10, <1>11, <1>12, <1>13 DEF OrderInv


(* The vpcd client of w puts the command for its request behind what is in  *)
(* the slots of its connection.                                             *)
LEMMA SendKeepsOrder ==
    ASSUME IInv, OrderInv, NEW w \in Workers, Sends(w)
    PROVE  OrderInv'
<1>t. /\ queue \in [Conns -> Seq(Commands)]
      /\ channel \in [SessionIds -> Conns \cup {NoConn}]
      /\ w[1] \in SessionIds
  BY DEF IInv, TypeOK, SessionTypeOK, Workers
<1>c. PICK c \in Conns : c = channel[w[1]] /\ client[c].sid = w[1]
  BY <1>t DEF Sends, IInv, ChannelServed
<1>n. PICK n \in Nat : n = Len(queue[c]) + 1
  BY <1>t
<1>1. PICK cid \in Nat : queue' = [queue EXCEPT ![c] = Append(@, Command(w, cid))]
  BY <1>c DEF Sends
<1>2. /\ UNCHANGED <<asked, ran, client>>
      /\ Unsent(w) /\ ~Unsent(w)'
      /\ \A v \in Workers : v # w => worker'[v] = worker[v]
  BY DEF Sends
<1>4. /\ queue'[c] = Append(queue[c], Command(w, cid))
      /\ queue[c] \in Seq(Commands)
      /\ \A d \in Conns : d # c => queue'[d] = queue[d]
  BY <1>t, <1>1
<1>5. /\ DOMAIN queue'[c] = DOMAIN queue[c] \cup {n}
      /\ queue'[c][n] = Command(w, cid)
      /\ n # 0
      /\ \A i \in DOMAIN queue[c] : queue'[c][i] = queue[c][i] /\ i < n /\ i \in Nat \ {0}
      /\ 0 < n
  <2> HIDE <1>t, <1>1, <1>2, <1>c
  <2> QED BY <1>4, <1>n
<1>6. ASSUME NEW d \in Conns, NEW i \in Slots(d)'
      PROVE  \/ /\ i \in Slots(d) /\ Given(d, i)' = Given(d, i) /\ For(d, i)' = For(d, i)
                /\ d = c => i < n
             \/ d = c /\ i = n
  <2>1. CASE d # c
    BY <1>2, <1>4, <2>1 DEF Slots, Given, For
  <2>2. CASE d = c
    BY <1>2, <1>5, <2>2 DEF Slots, Given, For
  <2> QED BY <2>1, <2>2
<1>7. Given(c, n)'.req = worker[w].req /\ For(c, n)' = w
  <2>1. Given(c, n)' = Command(w, cid)
    BY <1>5 DEF Given
  <2>2. Given(c, n)'.req = worker[w].req /\ Given(c, n)'.reader = w[2]
    BY <2>1 DEF Command
  <2>3. w = <<w[1], w[2]>>
    BY DEF Workers
  <2> QED BY <1>2, <1>c, <2>2, <2>3 DEF For
<1>8. /\ \A q \in RanOn(w) : Before(w, q, worker[w].req)
      /\ \A d \in Conns : \A i \in Slots(d) :
            For(d, i) = w => Before(w, Given(d, i).req, worker[w].req)
  BY <1>2 DEF OrderInv
<1>b. ASSUME NEW v, NEW p, NEW x, Before(v, p, x) PROVE Before(v, p, x)'
  BY <1>2, <1>b DEF Before
<1>r. \A v : RanOn(v)' = RanOn(v) /\ AskedOn(v)' = AskedOn(v)
  BY <1>2 DEF RanOn, AskedOn
<1>9. \A v \in Workers : RanOn(v)' \subseteq AskedOn(v)'
  BY <1>r DEF OrderInv
<1>10. \A v \in Workers : \A i, j \in DOMAIN ran'[v] :
          i < j => Before(v, ran[v][i], ran[v][j])'
  BY <1>2 DEF OrderInv, Before
<1>11. ASSUME NEW d \in Conns, NEW i \in Slots(d)', NEW j \in Slots(d)', i < j,
              For(d, i)' = For(d, j)'
       PROVE  Before(For(d, i), Given(d, i).req, Given(d, j).req)'
  <2>v. PICK v, p, x : v = For(d, i)' /\ p = Given(d, i)'.req /\ x = Given(d, j)'.req
    OBVIOUS
  <2>n. ~(d = c /\ i = n)
    <3> SUFFICES ASSUME d = c, i = n PROVE FALSE
      OBVIOUS
    <3>1. CASE j = n
      BY <1>11, <3>1
    <3>2. CASE j # n
      <4>1. j \in Slots(c) /\ j < n
        BY <1>6, <3>2
      <4>2. j \in Nat
        BY <1>5, <4>1 DEF Slots
      <4> QED BY <1>11, <4>1, <4>2
    <3> QED BY <3>1, <3>2
  <2>o. i \in Slots(d) /\ Given(d, i)' = Given(d, i) /\ For(d, i)' = For(d, i)
    BY <1>6, <2>n
  <2>1. CASE d = c /\ j = n
    <3>1. For(d, i) = w /\ v = w /\ x = worker[w].req /\ p = Given(d, i).req
      BY <1>7, <1>11, <2>o, <2>1, <2>v
    <3>2. Before(w, p, worker[w].req)
      BY <1>8, <2>o, <3>1
    <3> QED BY <1>b, <2>v, <3>1, <3>2 DEF Before
  <2>2. CASE ~(d = c /\ j = n)
    <3>1. j \in Slots(d) /\ Given(d, j)' = Given(d, j) /\ For(d, j)' = For(d, j)
      BY <1>6, <2>2
    <3>2. Before(For(d, i), Given(d, i).req, Given(d, j).req)
      BY <1>11, <2>o, <3>1 DEF OrderInv
    <3>3. Before(v, p, x)
      BY <2>o, <2>v, <3>1, <3>2
    <3> QED BY <1>b, <2>v, <3>3 DEF Before
  <2> QED BY <2>1, <2>2
<1>12. ASSUME NEW d \in Conns, NEW i \in Slots(d)', NEW q \in RanOn(For(d, i))'
       PROVE  Before(For(d, i), q, Given(d, i).req)'
  <2>v. PICK v, x : v = For(d, i)' /\ x = Given(d, i)'.req
    OBVIOUS
  <2>q. q \in RanOn(v)
    BY <1>2, <2>v DEF RanOn
  <2>1. CASE d = c /\ i = n
    BY <1>7, <1>8, <1>b, <2>1, <2>q, <2>v DEF Before
  <2>2. CASE ~(d = c /\ i = n)
    <3>1. i \in Slots(d) /\ Given(d, i)' = Given(d, i) /\ For(d, i)' = For(d, i)
      BY <1>6, <2>2
    <3>2. Before(v, q, x)
      BY <2>q, <2>v, <3>1 DEF OrderInv
    <3> QED BY <1>b, <2>v, <3>2 DEF Before
  <2> QED BY <2>1, <2>2
<1>13. ASSUME NEW v \in Workers, Unsent(v)'
       PROVE  /\ \A q \in RanOn(v)' : Before(v, q, worker[v].req)'
              /\ \A d \in Conns : \A i \in Slots(d)' :
                    For(d, i)' = v => Before(v, Given(d, i).req, worker[v].req)'
  <2>1. v # w /\ Unsent(v) /\ worker'[v] = worker[v]
    BY <1>2, <1>13 DEF Unsent
  <2>x. PICK x : x = worker[v].req
    OBVIOUS
  <2>2. \A q \in RanOn(v)' : Before(v, q, worker[v].req)'
    <3>1. \A q \in RanOn(v) : Before(v, q, x)
      BY <2>1, <2>x DEF OrderInv
    <3> QED BY <1>b, <1>r, <2>1, <2>x, <3>1 DEF Before
  <2>3. ASSUME NEW d \in Conns, NEW i \in Slots(d)', For(d, i)' = v
        PROVE  Before(v, Given(d, i).req, worker[v].req)'
    <3>1. i \in Slots(d) /\ Given(d, i)' = Given(d, i) /\ For(d, i)' = For(d, i)
      BY <1>6, <1>7, <2>1, <2>3
    <3>2. PICK p : p = Given(d, i).req
      OBVIOUS
    <3>3. Before(v, p, x)
      BY <2>1, <2>3, <2>x, <3>1, <3>2 DEF OrderInv
    <3> QED BY <1>b, <2>1, <2>x, <3>1, <3>2, <3>3 DEF Before
  <2> QED BY <2>2, <2>3
<1> QED BY <1>9, <1>10, <1>11, <1>12, <1>13 DEF OrderInv

(* Connection c runs the command at hand: what was run before was asked     *)
(* before, and what is still to run, or to send, was asked after.           *)
LEMMA RunKeepsOrder ==
    ASSUME IInv, OneOwner, OrderInv, NEW c \in Conns, NEW ok \in BOOLEAN, process_command(c, ok)
    PROVE  OrderInv'
<1>t. /\ queue \in [Conns -> Seq(Commands)]
      /\ client \in [Conns -> ClientStates]
      /\ ran \in [Workers -> Seq(Requests)]
  BY DEF IInv, TypeOK
<1>0. client[c].pc = "exec"
  BY DEF process_command
<1>s. 0 \in Slots(c)
  BY <1>0 DEF Slots
<1>w. PICK w \in Workers : w = For(c, 0) /\ w[1] = client[c].sid
  <2>1. For(c, 0) \in Workers
    BY <1>s, SlotAsked
  <2> QED BY <2>1 DEF For
<1>q. PICK q \in Requests : q = Given(c, 0).req
  BY <1>s, SlotAsked DEF Commands
<1>1. /\ UNCHANGED <<asked, worker, queue>>
      /\ ran' = [ran EXCEPT ![w] = Append(@, q)]
      /\ client' = [client EXCEPT ![c].pc = "respond"]
  BY <1>w, <1>q DEF process_command, For, Given, serverVars, vpcdVars
<1>2. /\ ran'[w] = Append(ran[w], q)
      /\ ran[w] \in Seq(Requests)
      /\ \A v \in Workers : v # w => ran'[v] = ran[v]
  BY <1>t, <1>1
<1>n. PICK n \in Nat : n = Len(ran[w]) + 1
  BY <1>2
<1>3. /\ DOMAIN ran'[w] = DOMAIN ran[w] \cup {n}
      /\ ran'[w][n] = q
      /\ \A i \in DOMAIN ran[w] : ran'[w][i] = ran[w][i] /\ i < n
  <2> HIDE <1>t, <1>1
  <2> QED BY <1>2, <1>n
<1>4. \A v \in Workers : RanOn(v)' = IF v = w THEN RanOn(v) \cup {q} ELSE RanOn(v)
  <2>1. ASSUME NEW v \in Workers, v # w PROVE RanOn(v)' = RanOn(v)
    BY <1>2, <2>1 DEF RanOn
  <2>2. RanOn(w)' = RanOn(w) \cup {q}
    BY <1>3 DEF RanOn
  <2> QED BY <2>1, <2>2
<1>5. ASSUME NEW d \in Conns, NEW i \in Slots(d)'
      PROVE  /\ i \in Slots(d) /\ Given(d, i)' = Given(d, i) /\ For(d, i)' = For(d, i)
             /\ d = c => i \in Nat \ {0}
  <2>1. CASE d # c
    BY <1>t, <1>1, <2>1 DEF Slots, Given, For
  <2>2. CASE d = c
    <3>1. /\ client'[c].sid = client[c].sid /\ client'[c].pc = "respond"
          /\ queue'[c] = queue[c]
      BY <1>t, <1>1 DEF ClientStates
    <3>2. i \in DOMAIN queue[c] /\ i \in Nat \ {0}
      BY <1>t, <2>2, <3>1 DEF Slots
    <3> QED BY <2>2, <3>1, <3>2 DEF Slots, Given, For
  <2> QED BY <2>1, <2>2
<1>6. ASSUME NEW d \in Conns, NEW i \in Slots(d)', For(d, i)' = w PROVE d = c
  <2>1. i \in Slots(d) /\ For(d, i) = w
    BY <1>5, <1>6
  <2>2. client[d].sid = w[1] /\ client[d].sid \in SessionIds
    BY <2>1, SlotAsked DEF For
  <2> QED BY <1>w, <2>2, RelayAssumption DEF OneOwner
<1>b. ASSUME NEW v, NEW p, NEW x, Before(v, p, x) PROVE Before(v, p, x)'
  BY <1>1, <1>b DEF Before
<1>a. \A v : AskedOn(v)' = AskedOn(v)
  BY <1>1 DEF AskedOn
<1>7. /\ \A p \in RanOn(w) : Before(w, p, q)
      /\ \A i \in Slots(c) : i \in Nat \ {0} /\ For(c, i) = w => Before(w, q, Given(c, i).req)
      /\ Unsent(w) => Before(w, q, worker[w].req)
  <2>1. \A i \in Slots(c) : i \in Nat \ {0} => 0 < i
    OBVIOUS
  <2> QED BY <1>s, <1>w, <1>q, <2>1 DEF OrderInv
<1>9. \A v \in Workers : RanOn(v)' \subseteq AskedOn(v)'
  <2>1. q \in AskedOn(w)
    BY <1>s, <1>w, <1>q, SlotAsked
  <2> QED BY <1>4, <1>a, <2>1 DEF OrderInv
<1>10. ASSUME NEW v \in Workers, NEW i \in DOMAIN ran'[v], NEW j \in DOMAIN ran'[v], i < j
       PROVE  Before(v, ran[v][i], ran[v][j])'
  <2>v. PICK p, x : p = ran'[v][i] /\ x = ran'[v][j]
    OBVIOUS
  <2>1. Before(v, p, x)
    <3>1. CASE v # w
      BY <1>2, <1>10, <2>v, <3>1 DEF OrderInv
    <3>2. CASE v = w /\ j # n
      <4>1. j \in DOMAIN ran[w]
        BY <1>3, <3>2
      <4>2. i # n
        BY <1>3, <1>10, <1>2, <1>n, <4>1
      <4>3. i \in DOMAIN ran[w] /\ p = ran[w][i] /\ x = ran[w][j]
        BY <1>3, <2>v, <3>2, <4>1, <4>2
      <4> QED BY <1>10, <3>2, <4>1, <4>3 DEF OrderInv
    <3>3. CASE v = w /\ j = n
      <4>1. i \in DOMAIN ran[w] /\ x = q
        BY <1>3, <1>n, <1>10, <2>v, <3>3
      <4>2. p \in RanOn(w)
        BY <1>3, <2>v, <3>3, <4>1 DEF RanOn
      <4> QED BY <1>7, <3>3, <4>1, <4>2
    <3> QED BY <3>1, <3>2, <3>3
  <2> QED BY <1>b, <2>1, <2>v DEF Before
<1>11. ASSUME NEW d \in Conns, NEW i \in Slots(d)', NEW j \in Slots(d)', i < j,
              For(d, i)' = For(d, j)'
       PROVE  Before(For(d, i), Given(d, i).req, Given(d, j).req)'
  <2>v. PICK v, p, x : v = For(d, i)' /\ p = Given(d, i)'.req /\ x = Given(d, j)'.req
    OBVIOUS
  <2>1. /\ i \in Slots(d) /\ j \in Slots(d)
        /\ v = For(d, i) /\ v = For(d, j)
        /\ p = Given(d, i).req /\ x = Given(d, j).req
    BY <1>5, <1>11, <2>v
  <2>2. Before(v, p, x)
    BY <1>11, <2>1 DEF OrderInv
  <2> QED BY <1>b, <2>2, <2>v DEF Before
<1>12. ASSUME NEW d \in Conns, NEW i \in Slots(d)', NEW p \in RanOn(For(d, i))'
       PROVE  Before(For(d, i), p, Given(d, i).req)'
  <2>v. PICK v, x : v = For(d, i)' /\ x = Given(d, i)'.req
    OBVIOUS
  <2>1. /\ i \in Slots(d) /\ v = For(d, i) /\ x = Given(d, i).req
        /\ v \in Workers
    BY <1>5, <2>v, SlotAsked
  <2>2. p \in RanOn(v)'
    BY <1>12, <2>v DEF RanOn
  <2>3. CASE p \in RanOn(v)
    <3>1. Before(v, p, x)
      BY <2>1, <2>3 DEF OrderInv
    <3> QED BY <1>b, <2>v, <3>1 DEF Before
  <2>4. CASE p \notin RanOn(v)
    <3>1. v = w /\ p = q
      BY <1>4, <2>1, <2>2, <2>4
    <3>2. d = c /\ i \in Nat \ {0}
      BY <1>5, <1>6, <2>v, <3>1
    <3>3. Before(v, p, x)
      BY <1>7, <2>1, <3>1, <3>2
    <3> QED BY <1>b, <2>v, <3>3 DEF Before
  <2> QED BY <2>3, <2>4
<1>13. ASSUME NEW v \in Workers, Unsent(v)'
       PROVE  /\ \A p \in RanOn(v)' : Before(v, p, worker[v].req)'
              /\ \A d \in Conns : \A i \in Slots(d)' :
                    For(d, i)' = v => Before(v, Given(d, i).req, worker[v].req)'
  <2>1. Unsent(v)
    BY <1>1, <1>13 DEF Unsent
  <2>x. PICK x : x = worker[v].req
    OBVIOUS
  <2>2. ASSUME NEW p \in RanOn(v)' PROVE Before(v, p, worker[v].req)'
    <3>1. Before(v, p, x)
      BY <1>4, <1>7, <2>1, <2>2, <2>x DEF OrderInv
    <3> QED BY <1>1, <1>b, <2>x, <3>1 DEF Before
  <2>3. ASSUME NEW d \in Conns, NEW i \in Slots(d)', For(d, i)' = v
        PROVE  Before(v, Given(d, i).req, worker[v].req)'
    <3>1. i \in Slots(d) /\ Given(d, i)' = Given(d, i) /\ For(d, i)' = For(d, i)
      BY <1>5
    <3>2. PICK p : p = Given(d, i).req
      OBVIOUS
    <3>3. Before(v, p, x)
      BY <2>1, <2>3, <2>x, <3>1, <3>2 DEF OrderInv
    <3> QED BY <1>1, <1>b, <2>x, <3>1, <3>2, <3>3 DEF Before
  <2> QED BY <2>2, <2>3
<1> QED BY <1>9, <1>10, <1>11, <1>12, <1>13 DEF OrderInv

----------------------------------------------------------------------------
(* The theorems.                                                            *)

(* Initially nothing has been asked, sent or run.                           *)
LEMMA InitOrder == Init => OneOwner /\ OrderInv
<1> SUFFICES ASSUME Init PROVE OneOwner /\ OrderInv
  OBVIOUS
<1>1. /\ \A c \in Conns : client[c].sid = NoSession /\ client[c].pc = "start"
                          /\ queue[c] = << >>
      /\ \A w \in Workers : worker[w].pc = "off" /\ ran[w] = << >>
  BY DEF Init, StoppedWorker
<1>2. \A c \in Conns : Slots(c) = {}
  BY <1>1 DEF Slots
<1>3. \A w \in Workers : ~Unsent(w) /\ RanOn(w) = {}
  BY <1>1 DEF Unsent, RanOn
<1>4. OneOwner
  BY <1>1 DEF OneOwner
<1>5. \A w \in Workers : DOMAIN ran[w] = {}
  BY <1>1
<1> QED BY <1>2, <1>3, <1>4, <1>5 DEF OrderInv

(* Every step keeps the order of requests, and who owns a session.          *)
LEMMA OrderInvariance == Spec => [](IInv /\ OneOwner /\ OrderInv)
<1>1. Init => OneOwner /\ OrderInv
  BY InitOrder
<1>2. IInv /\ IInv' /\ OneOwner /\ OrderInv /\ [Next]_vars => OneOwner' /\ OrderInv'
  <2> SUFFICES ASSUME IInv, IInv', OneOwner, OrderInv, [Next]_vars
               PROVE  OneOwner' /\ OrderInv'
    OBVIOUS
  <2>1. TypeOK /\ ConnConsistent /\ WorkerConsistent /\ TypeOK'
    BY DEF IInv
  <2>2. OneOwner'
    BY <2>1, OneOwnerStep
  <2>3. \/ Passes
        \/ \E w \in Workers, q \in Requests : receive_message(w, q)
        \/ \E w \in Workers : Sends(w)
        \/ \E c \in Conns, ok \in BOOLEAN : process_command(c, ok)
    BY <2>1, OrderSteps
  <2>4. OrderInv'
    BY <2>1, <2>3, PassesKeepOrder, MessageKeepsOrder, SendKeepsOrder, RunKeepsOrder
  <2> QED BY <2>2, <2>4
<1> QED BY <1>1, <1>2, Invariance, PTL DEF Spec

(* The commands the client runs on a reader are the requests vpcd put to    *)
(* the virtual reader of it, in vpcd's order and none of them twice: a late *)
(* response, a lost RPC, a timeout or a new server process changes nothing. *)
THEOREM RunsAsAsked == Spec => []RunAsAsked
<1>1. OrderInv => RunAsAsked
  <2> SUFFICES ASSUME OrderInv, NEW w \in Workers
               PROVE  /\ \A i \in DOMAIN ran[w] : \E k \in DOMAIN asked[w] : asked[w][k] = ran[w][i]
                      /\ \A i, j \in DOMAIN ran[w] : i < j =>
                            \E k, l \in DOMAIN asked[w] :
                               k < l /\ asked[w][k] = ran[w][i] /\ asked[w][l] = ran[w][j]
    BY DEF RunAsAsked
  <2>1. \A i \in DOMAIN ran[w] : \E k \in DOMAIN asked[w] : asked[w][k] = ran[w][i]
    BY DEF OrderInv, RanOn, AskedOn
  <2> QED BY <2>1 DEF OrderInv, Before
<1> QED BY <1>1, OrderInvariance, PTL

(* set_command_channel never replaces a channel that is still registered:   *)
(* the session's one connection would have had to register it twice.        *)
THEOREM ChannelsNotReplaced == Spec => ChannelNotReplaced
<1>1. IInv /\ OneOwner /\ [Next]_vars =>
         [\A s \in SessionIds :
             channel'[s] = channel[s] \/ channel[s] = NoConn \/ channel'[s] = NoConn]_vars
  <2> SUFFICES ASSUME IInv, OneOwner, Next, NEW s \in SessionIds
               PROVE  channel'[s] = channel[s] \/ channel[s] = NoConn \/ channel'[s] = NoConn
    OBVIOUS
  <2>t. channel \in [SessionIds -> Conns \cup {NoConn}]
    BY DEF IInv, TypeOK, SessionTypeOK
  <2>1. CASE UNCHANGED channel
    BY <2>1
  <2>2. CASE \E c \in Conns : register_channel(c) /\ client[c].sid \in sessions
    <3>1. PICK c \in Conns : register_channel(c) /\ client[c].sid \in sessions
      BY <2>2
    <3>2. handler[c] = "new" /\ channel' = [channel EXCEPT ![client[c].sid] = c]
      BY <3>1 DEF register_channel, set_command_channel
    <3>3. CASE s = client[c].sid /\ channel[s] # NoConn
      <4>1. /\ channel[s] \in Conns /\ client[channel[s]].sid = s
            /\ handler[channel[s]] = "serving"
        BY <2>t, <3>3 DEF IInv, ChannelServed
      <4>2. channel[s] = c
        BY <3>3, <4>1, RelayAssumption DEF OneOwner
      <4> QED BY <3>2, <4>1, <4>2
    <3> QED BY <2>t, <3>2, <3>3
  <2>3. CASE \E c \in Conns : end_channel(c)
    <3>1. \/ UNCHANGED channel
          \/ \E x \in SessionIds : channel' = [channel EXCEPT ![x] = NoConn]
      BY <2>3 DEF end_channel, clear_command_channel, sessionVars, IInv, TypeOK, SessionTypeOK
    <3> QED BY <2>t, <3>1
  <2>4. CASE server_restarts
    BY <2>4 DEF server_restarts, EmptyTable
  <2>5. ASSUME NEW c \in Conns, ConnStep(c)
        PROVE  \/ UNCHANGED channel
               \/ register_channel(c) /\ client[c].sid \in sessions
               \/ end_channel(c)
    BY <2>5 DEF ConnStep, establish_session, create_session, update_reader_info,
       update_reader, register_reader_fails, start_command_channel, register_channel,
       channel_without_message, receive_command, process_command, response_rpc_fails,
       command_stream_ends, stream_breaks, drop_receiver, client_stops, sessionVars
  <2>6. ASSUME NEW w \in Workers, WorkerStep(w) PROVE UNCHANGED channel
    BY <2>6 DEF WorkerStep, connect, disconnected, receive_message, get_atr_from_client,
       wait_for_command_channel, send_command_async, store_pending, send_unblocked,
       response_received, response_channel_closed, response_timeout, vpcd_closes,
       sessionVars
  <2>7. ASSUME NEW m \in inflight, send_command_response(m) PROVE UNCHANGED channel
    BY <2>7 DEF send_command_response, remove_pending, sessionVars
  <2> QED BY <2>1, <2>2, <2>3, <2>4, <2>5, <2>6, <2>7 DEF Next
<1> QED BY <1>1, OrderInvariance, PTL DEF Spec, ChannelNotReplaced

=============================================================================
