# Remote Smartcard in TLA+

Remote Smartcard lets programs on a server use a smartcard that sits in a
reader of somebody's own machine. This directory holds TLA+ models of it, the
configurations that check them with TLC on small instances, and proofs, checked
by TLAPS, of what matters most for instances of any size.

Paths below are relative to the repository. Line numbers are those of the
commit modelled.

## 1. The system

```
 pcscd -- vpcd ==TCP==> vpcd client --+                            +-- card
                        vpcd client --+-- session table            |
 (server)               (one per announced reader     |       PC/SC reader
                         with a card)                 |            |
                              gRPC handlers ----------+       card connections
                                   ^                               |
                                   +======== HTTP/2 =======  command task
                                                             run_connection (client)
```

| Part | Source | State | Operations |
|---|---|---|---|
| Session table | `server/src/session_manager.rs` | sessions, their readers, command channel, pending oneshots, the id counter | create, update_reader, set/clear channel, send_command_async, handle_response, touch, cleanup |
| gRPC service | `server/src/grpc_service.rs` | one task per command channel | EstablishSession, UpdateReaderInfo, CommandChannel, SendCommandResponse, Heartbeat, ListReaders; the rest are stubs |
| vpcd clients | `server/src/vpcd.rs` | a task per announced reader, its TCP connection | connect and reconnect, message loop, get_atr_from_client, forward_apdu, wait_for_command_channel |
| Client connection | `client/src/grpc_client.rs` | session id, a command task | establish_session, register_reader, start_command_channel, process_command, response RPC, heartbeat |
| Card connections | `client/src/pcsc_reader.rs` | a global map from reader to PC/SC connection | transmit, get_atr, connect_with_retry, disconnect |
| Client process | `client/src/main.rs` | delay, heartbeat failures, Ctrl+C | run_connection, reconnect loop |
| Client configuration | `client/src/config.rs` | the settings | load, merge_cli_args, validate |
| Certificates | `tools/keygen`, `common/src/tls.rs`, both `main.rs` | the files; what each process has read of them | rsc-keygen ca, server, client; create_server_tls_config, build_tls_config |
| Test tool | `tools/vpcd-test` | a connection | its commands |
| Server configuration, common helpers, protocol, packaging | the rest | none of interest | see `PROJECT.json`, "components" |

**How they interact.** vpcd, the driver that makes pcscd see a virtual reader,
sends a request on a TCP connection. The vpcd client of that connection looks
the session up in the table (a `RwLock<SessionManager>`), files a oneshot under
a fresh command id and puts a command on the session's queue, an
`mpsc::channel(100)` that feeds a gRPC stream to the client. The client's
command task takes commands one at a time, runs each on the reader through the
map of card connections, and sends the response by an RPC of its own; the
handler finds the oneshot by command id and the vpcd client, which waits at most
30 seconds, answers vpcd. Each activation of `run_connection` on the client
makes a session of its own and announces its readers; the command task it spawns
may outlive it.

**What is hard here.**

- Late responses: the vpcd client gives up after 30 seconds, but command and
  response are still under way, together with those of later requests and, after
  a restart of the server, with ids that start over at 1.
- Several vpcd clients of a session share one queue, one command task and one
  pending map.
- Locks and awaits: the channel is looked up under one guard and used under a
  later one, and the send into the queue is awaited with the write guard held.
- Channels are cleared by the task of whatever stream ended, while the client
  may already be back.
- Cards are taken out, reset and locked by others between the steps of a call,
  while the map keeps connections, and a failed APDU is tried a second time.
- The client waits for RPCs without a timeout inside `select!`, on a channel that
  makes new connections behind its back while its command stream stays with the
  old one.
- vpcd's TCP stream comes in pieces and may end within a message.
- Certificate files are written and read one after the other, by processes that
  know nothing of each other.

What makes each part correct:

- *relay*: a request is answered, in turn, by the reply of the card behind its
  own connection to that request, or by an error, whatever is late, lost or
  restarted; the cards run exactly requests that were asked, in order, none
  twice; every request is answered in the end.
- *session table and channels*: a channel on file belongs to the connection that
  owns the session and is watched by a task; a live channel is never replaced.
- *card connections*: a broken connection is replaced without harm to the card
  there is now, and a card is reset only for an APDU that was refused or an
  interference in the same call; an APDU runs twice only if a reply was lost; every
  call gives the Mutex back. That the applet selected on a card stays so, as the code
  promises, is not the case (*Selection* below).
- *announcements*: a card is announced if and only if it is there.
- *framing*: both sides see the same messages and responses, in the same order.
- *client process*: Ctrl+C ends it, nothing is begun afterwards, a dead command
  channel is left, unless an RPC never returns, pauses grow as documented; once the server can be reached the
  client comes to be served.
- *certificates*: what rsc-keygen has reported done is of use to whoever reads it.

`PROJECT.json`, "hazards", lists each hazard at its line.

## 2. The modules

| Module | Models | Composes |
|---|---|---|
| `SessionManager` | the session table: one operator per operation | |
| `VirtualReader` | abstract: what the relay promises vpcd | |
| `RemoteSmartcard` | the relay: handlers, vpcd clients, command tasks, network, failures | extends `SessionManager`, implements `VirtualReader` |
| `MCRemoteSmartcard` | symmetry and a late start for TLC | extends `RemoteSmartcard` |
| `RemoteSmartcardProofs` | theorems: the relay implements `VirtualReader` | extends `RemoteSmartcard` |
| `RelayOrderProofs` | theorems: order of requests, channels | extends `RemoteSmartcardProofs` |
| `VpcdProtocol` | the bytes between vpcd and a vpcd client | |
| `MCVpcdProtocol` | its instances for TLC | extends `VpcdProtocol` |
| `VpcdProtocolProofs` | theorems about it | extends `VpcdProtocol` |
| `CardConnections` | the client's map of PC/SC connections and one call at a time on it | |
| `CardConnectionsProofs` | theorems about them | extends `CardConnections` |
| `CardAnnouncements` | get_reader_info and commands on that map, while cards are exchanged | extends `CardConnections` |
| `CardAnnouncementsProofs` | theorems about the two together | extends `CardAnnouncements`, `CardConnectionsProofs` |
| `ClientConfig` | file, defaults and command line merged | |
| `ClientLoop` | run_connection and main's loop around it | extends `ClientConfig` |
| `ClientRecovery` | the same on a network that fails, with a server that restarts | extends `ClientLoop` |
| `ClientRecoveryProofs` | theorems about both; the second implements the first | extends `ClientRecovery` |
| `Certificates` | rsc-keygen, and the start of server and client | |
| `MCCertificates` | its instances for TLC | extends `Certificates` |
| `CertificatesProofs` | theorems about it | extends `Certificates` |

### SessionManager and RemoteSmartcard

`SessionManager` has the state of the table: `sessions`, `readers`, `channel`
(the connection whose queue `command_tx` feeds), `pending` (pairs of a command
id and the request whose oneshot is filed under it) and `nextId`
(`COMMAND_ID_COUNTER`). `issued` is history: UUIDs are never drawn twice, also
not by a later server process.

`RemoteSmartcard` has the processes. An activation of `run_connection` is an
element of `Conns`; two of them stand for a client that comes back, for a
command task left behind by an earlier activation, and for two clients. A vpcd
client is a pair of a session and a reader (`set_target`).

| Variable | Code |
|---|---|
| `lock` | the write guard of the table, when a vpcd client keeps it across an await; `Unlocked` is a conjunct of every step that takes a guard |
| `handler[c]` | the task spawned by `command_channel` |
| `rx[c]`, `stream[c]`, `queue[c]` | the queue's receiver, the gRPC stream, commands on their way |
| `worker[w]` | a vpcd client: where it is, the request at hand, the id it filed, its polls, what its oneshot holds |
| `port`, `ask`, `answer` | what vpcd sees; the state of `VirtualReader` |
| `client[c]` | run_connection up to the channel, then the command task |
| `inflight` | SendCommandResponse requests on their way |
| `asked`, `ran` | history: requests put to w; requests run on w's reader |

Steps are cut where the code awaits: each action is what happens between two
awaits, or under one guard. `send_command_async` has four ends: no channel,
receiver gone (the filed entry stays), queue full (the vpcd client stays
`blocked` and keeps `lock`), sent. `Finish` is everything from the return of
`handle_message` to the next read, lost answer and reconnect included. The
failures are a lost EstablishSession response, a failed registration, a failed
response RPC whose request is lost or still arrives, a broken stream, a closed
vpcd connection, a client that stops with or without a trace, and a restart of
the server; `MaxFaults` bounds how many a behaviour has.

Requests and replies are opaque; a reply names the request and the card it is
from, so a mix-up cannot hide. An APDU's retry on the card is the subject of
`CardConnections`; here `process_command` is one run of the command. Bytes on the
vpcd connection are the subject of `VpcdProtocol`.
Powering and resetting (control codes 0 to 2) have no response and no effect in
the code and no action here; nor have connect and disconnect commands, which the
server never sends. Heartbeats are in `ClientLoop` and `ClientRecovery`.

### VirtualReader

Three variables and four actions: a connection comes up, a request is asked, an
answer is given, connections go down. `Faithful(q, w)` is the set of answers that
a local reader with w's card could give to q, errors and the announced ATR
included. The refinement mapping is the identity on `port`, `ask` and `answer`.

### CardConnections

One variable per thing that moves: `manager` (the context in
`CARD_CONNECTIONS`), `card` (power-ups counted, present, applet selected),
`access` (what connecting meets), `handle` (the power-up that the connection on
file is to, so a connection is stale when the numbers differ) and `call`, the
call that holds the Mutex. Calls come one at a time, as the Mutex has it; cards
and other applications move between the steps. `believes` is history: the last
to use a reader has reason to think that its applet is selected.

`try_transmit` has one success and two kinds of error, which the code does not tell
apart. Either the card runs the APDU and the reply gets lost; or it runs nothing:
because the connection is stale or another application has the card, or on a
connection that works, because PC/SC or the reader refuses this APDU (an extended one
where they are not supported, one that is too short, a communication error). `refused`
in a call remembers the last case. `transmit` gives the connection up on each of them.

PC/SC is external and modelled as the code uses it. The error for a missing card
is taken to be recognised by `handle_get_atr_command`, which looks for one of
three texts in it; whether PC/SC's library words it so is not in the repository.

### CardAnnouncements

What the server knows of a card, and the ATR its vpcd client answers with, is what
`get_reader_info` found at the begin of a connection. The module adds to
`CardConnections` which card (`chip`) is in a reader, and `run_connection` as far
as it asks for ATRs: `list_readers` (through a context of its own, so it works
after a restart of the PC/SC service), `ask_next` and `reader_info` for each
reader, `register_readers`, `connection_lost`. Commands come for readers with a vpcd
client, also of an earlier connection, whose command task may still run. `seen` and
`calm` are history: the cards that were in a reader since the announcement began,
and the readers nothing has happened to since.

### VpcdProtocol

| Variable | Code |
|---|---|
| `link`, `toServer`, `toPeer` | the TCP connection and the bytes on it |
| `server`, `input` | the vpcd client: connecting, in `receive_message`, in `handle_message`; the `read_exact` at hand |
| `peer`, `output` | vpcd (external) or the test tool, and its `read_exact` |
| `meant`, `awaited`, `handled`, `given`, `got` | history of a connection: what the peer sent, the part of it that has an answer, what was handled, what was answered, what was read |

`receive_message` takes a byte at a time, which includes every way TCP may cut the
stream. A length of zero and an unknown control code end the connection. The
codes are those of the code (`vpcd.rs:30-51`), not those of the comment at its top.

### ClientConfig, ClientLoop and ClientRecovery

`ClientLoop` is the client process: `pc` is in an RPC, in `select!`, in a pause,
or at an end. `connect_with_tls`, `establish_session`, `register_reader` and
`heartbeat_*` are outcomes of RPCs. A command task that is let go of is forgotten
here. It starts from any result of `merge_cli_args`. The loop is composed with the
relay by abstraction: `RemoteSmartcard` lets connections start whenever they
like and overlap, which includes what this loop does.

`ClientRecovery` says where the outcomes come from. `net` is whether the server
runs and can be reached, `link` the HTTP/2 connection of the tonic channel (which
may be dead without the client knowing), `known` whether the server knows the
session, `broken` whether the connection under the command stream has died. Each
RPC is the step of `ClientLoop` together with what comes of it on that link: it
waits on a link that is alive while the server cannot be reached, fails on a dead one,
and has the channel make a new one next time. The server restarts without its
sessions. `acked` is whether the server's host has acknowledged the request of the RPC
at hand: from then on the client has nothing left to send, and nothing in the code
(no timeout, no keepalive) would have it find out that the connection has died.

### Certificates

The files of one directory: `key[k]`, `csr[k]`, `crt[k]` for `k` the CA, the
server, the client. A key is a number, drawn once; a certificate says of which key
it is and by which it is signed. Each call of openssl in `generate_ca`,
`generate_server_cert` and `generate_client_cert` is an action that succeeds, or
fails and leaves its output as it was or useless; `command` is where rsc-keygen
is. `server` and `client` read the files one at a time, in the order of
`create_server_tls_config` and `build_tls_config`, after `validate` has looked
whether they exist. `settled`, `sound` and `era` are history: kinds whose files were
reported done since the CA was made; processes that read only settled files; the
CA at that time. `Handshake` is what rustls will say, as the code relies on it.
Host names, validity and certificate versions are left out.

## 3. The runs

| Run | Instance | Shows |
|---|---|---|
| `Relay.cfg` | 2 sessions and connections, 1 reader, 2 requests, queue of 1, 3 faults | `TypeOK`, `ChannelServed`, `RunAsAsked`, `ActsAsVirtualReader`, `ChannelNotReplaced` |
| `Readers.cfg` | 1 connection, 2 readers with or without card and ATR, a GetATR and 2 APDUs, 1 fault | `RunAsAsked`, `Correlated`, `ActsAsVirtualReader` |
| `Answered.cfg` | one client from its start with 2 faults, or 2 sessions set up with a client gone and 1 more fault; queue of 1, 3 requests, timers may never fire | `AnsweredUnlessStuck`, `BrokenStreamAnswered` |
| `QueueFull.cfg` | queue of 1, 3 requests, no fault | `EveryRequestAnswered` fails |
| `OneSlot.cfg` | 2 sessions and connections, 1 connection of vpcd, 1 fault | `OwnVirtualReader` fails |
| `Framing.cfg` | vpcd or test tool, 2 connections, 2 messages each, bytes below 5 | `TypeOK`, `RequestsUnderstood`, `AnsweredInTurn`, `ConnectionKept`, `AnsweredOrClosed` |
| `Cards.cfg` | 1 reader, 2 cards, 2 attempts, 2 connections, 4 calls, 3 moves of the environment | `AnnouncementsTypeOK`, `UndisturbedTransmitSucceeds`, `RunTwiceAtMost`, `AnnouncedCardsWereThere`, `ResetForCause`, `CallEnds` |
| `Refresh.cfg` | the same | `CardsAnnounced` fails |
| `Selection.cfg` | 1 reader, 3 commands, no move of the environment | `SelectionPreserved` fails |
| `Loop.cfg` | all configurations over 3 delays, 2 readers, any number of connections, outages and restarts | `RecoveryTypeOK`, `NoStartAfterShutdown`, `ShutdownStopsIfHeard`, `DeadChannelLeftIfHeard`, `Recovers` |
| `Backoff.cfg` | the loop by itself, any outcomes of RPCs | `BackoffGrows` fails |
| `Certificates.cfg` | 4 keys, 1 failure of rsc-keygen, with and without certificates of clients | `TypeOK`, `SuccessMeansUsable`, `TrustKept`, `SoundStartSucceeds` |

**Bounds, and why they are enough.**
A mix-up of the relay needs a late response and a second request, or two
readers, or an id used twice: two requests suffice for each, with one connection
and a restart in between, or two connections. Three faults let a response be
delayed, a stream break and a server restart in one behaviour, or a stream
break and two RPCs fail. A queue of 1 fills at the second command (100 in the code).
`Answered.cfg` has two beginnings: one client that is about to start, and two sessions
with their channels and vpcd clients, the host of one client just vanished, which counts
as one of the two faults (a state the relay reaches: two clients start, announce their readers, open their channels and vpcd accepts their
vpcd clients). It has vpcd ask the three requests in the order of their names, which
are alike. Three are what it takes to keep the guard with a client at work (a command at
hand, a full queue, a blocked send); with a client that is gone it takes two, and the
third is for the session whose stream breaks. Without its premise each of the two
properties fails in this run.
`ChannelPolls` of 1 or 2 (300 in the code) distinguishes the first, a further
and the last poll. In `Framing.cfg` a byte has 5 values instead of 256, so that a
length goes up to 24; there are responses of length 0, 24 and more. Two messages are
a first and one that a slip would shift, two connections one that ends anywhere and
one after it. In `Cards.cfg` two attempts are a first and a last one (5 in
the code); four calls are two announcements and two commands, or one to fill the
map, one to meet the change and one to see what was left behind; two cards are
exchanged. Calls on different readers share nothing but the Mutex and the context, so
one reader is enough. `MaxHeartbeatFailures` is 3, as in the code, and `Loop.cfg` bounds nothing else. In
`Certificates.cfg` four keys are a CA, a server's, a client's and a renewed one, or a
second CA; one failure leaves one thing behind for a later success to stumble over.
(Two failures were checked as well; it takes several minutes.) Deadlock
checking is off: each bounded model stops when its requests, calls or
connections are used up, and the client process may end.

**Mutants.** Beside some definitions stands a second one, marked "Mutant": the
same step with a plausible bug, such as a guard dropped, a counter not advanced,
a map not cleared. With it in place of the original, the property it is paired
with in `PROJECT.json` ("mutants") fails in the run named there. This is how we
know that the bounds are large enough for each property to say something.

Symmetry (session ids, connections, requests of one kind) is used in the two
safety runs of the relay only, never with liveness.

**Fairness.** Tasks of the tokio runtime that can go on do so, and the RwLock is
fair, so weak fairness is assumed of the steps of each vpcd client, channel task
and command task, and of the handling of a response that has arrived.
`FairSpec` adds that 30 second timers fire; `UntimedSpec` is without (as is
`AnswersSpec`, the same from the two beginnings of `Answered.cfg`), and
`AnsweredUnlessStuck` has the timers among its premises, so that one run shows what
holds with them and what without. Nothing is
assumed of the network, of vpcd's wish to ask or of clients coming. In
`VpcdProtocol` what has been sent arrives and `handle_message` returns, which the
timers of the relay see to. In
`CardConnections` PC/SC calls return, so the thread that holds the Mutex goes
on. In the client process pauses end, and `select!` picks at random among the branches
that are ready, so that one that is ready each time round is taken some time
(strong fairness). The code has no timeouts on RPCs, so `ClientRecovery` says when
they return: TCP repeats what is not acknowledged, so an RPC that could get through time
and again does (strong fairness), and gives a connection up over which no
acknowledgement comes back; the end of a stream is noticed. Of a connection that dies when
the request has been acknowledged and the answer is not yet there, the client need never
hear (`Unheard`), and nothing is assumed to tell it. So `ShutdownStopsIfHeard`,
`DeadChannelLeftIfHeard` and `Recovers` have the premise `Heard`: the client does not wait
for good for an answer that cannot come. It leaves out this one way to hang and no other.
Nothing is assumed of outages, and `Recovers` promises something only if they cease. A
server that takes RPCs and answers none, as in *Queue full*, makes the client hang in the
same way; `ClientRecovery` does not have it.

`BrokenStreamAnswered` has a premise: again and again the guard is not kept by a vpcd
client of *another* session. One of the same session, blocked in its send, is freed by
the very break of the stream, as `drop_receiver` ends the send; but `end_channel` of a
broken stream needs the guard that a vpcd client of another session may keep for
good, and then only the 30 second timer answers.

`UndisturbedTransmitSucceeds` is about calls with nothing else going on: no reply
lost, no card moved, no other application at work, no restart of the PC/SC service,
and an APDU that PC/SC accepts.

**What the failing runs show.**

- *Queue full.* `session_manager.rs:161` awaits the send with the write guard
  held. The client handles commands one at a time and gets its acknowledgement
  only when its response has been handled, which takes the guard. So once the
  queue is full the server stands still for all sessions, until the stream breaks.
- *One slot.* `grpc_service.rs:130` gives all vpcd clients the one port
  configured, and a vpcd client runs for ever (`vpcd.rs:457`). When a client has lost
  its connection and comes back, under a new session, the vpcd client of its old
  session still holds vpcd's connection, and the one of the new session never gets
  it. The user guide promises a virtual reader to each client, and the README
  reconnection.
- *Refresh.* `get_reader_info` asks for the ATR through the map of connections.
  A card that was put back or reset since the last one there leaves a stale
  connection, whose error `get_atr` passes on without giving it up, and
  `get_reader_info` takes for a missing card. It is announced as missing at each
  reconnection, gets no vpcd client, and so never a command that would heal the
  map. After a restart of the PC/SC service the same happens, for good. (That
  PC/SC fails `status` on a stale handle is an assumption about PC/SC.)
- *Selection.* `transmit` gives a connection up on any error, which resets the card,
  and its retry runs the APDU on the reset card, without its applet, and reports
  success. In the run nothing else happens to the card: it is enough that PC/SC or the
  reader refuses one APDU on a connection that works.
- *Backoff.* `main.rs:232` resets the delay on the way to each attempt.

Other disagreements met while reading, without a run of their own: the client may hang
for ever, Ctrl+C or not ("Press Ctrl+C to exit", `main.rs:318`; "reasonable timeouts for
all operations", `ARCHITECTURE.md:295`), when a server's host acknowledges a request and
vanishes, as no RPC has a timeout, the endpoint has no keepalive
(`grpc_client.rs:88-100`), Ctrl+C is looked at only between RPCs and no longer has its
default effect. Heartbeats, there "to detect dead connections" (`ARCHITECTURE.md:294`), are
such RPCs themselves. (Without their premise `ShutdownStopsIfHeard` and
`DeadChannelLeftIfHeard` fail in `Loop.cfg`, with this as the counterexample.) A session never expires, because nothing
calls `cleanup_expired`; "Vid reconnect: försök återskapa session"
(`ARCHITECTURE.md:300`), but each connection makes a new one; "CLI takes
precedence" (`config.rs:194`), but an option given with its default value does
not override the file (`merge_cli_args` in `ClientConfig`), and files that the
configuration names must exist although the command line names others, because
`validate` comes first (`Validates` in `Certificates`); `reader_filter` and
`heartbeat_interval` are read by nothing; a first delay above the maximum is
accepted and waited for; `rsc-server --config` is accepted and never read; `create_server_tls_config` asks
every client for a certificate as soon as there is a CA and never looks at
`require_client_cert`, while `server/src/main.rs:125` says "client certificates
optional". The test
tool sends code 3 for Get ATR and puts a code of 4 before APDUs, as the comment at
`vpcd.rs:12-17` has it, while the server takes 4 for Get ATR and an APDU without a
code: with the test tool a request for the ATR is an unknown command, which ends
the connection, and an APDU reaches the card with a byte too many. A GetATR command is
sent to the client only for a card that was announced with an empty ATR.

## 4. The proofs

Every invariant and every action property the passing runs check, and the
refinement, is proved for every value of the constants: any sets of sessions,
readers, connections and requests, any queue capacity, any numbers of calls,
messages, keys, retries and faults. Before each proof TLC had found the
inductive invariant to hold in the instance of the corresponding run.

| Module | Theorem | States |
|---|---|---|
| `RemoteSmartcardProofs` | `Invariance`, `TypeCorrect` | `Spec => []IInv`, `Spec => []TypeOK` |
| | `ChannelsServed`, `ResponsesCorrelated` | `[]ChannelServed`, `[]Correlated` |
| | `RelayImplementsVirtualReader` | `Spec => ActsAsVirtualReader` |
| `RelayOrderProofs` | `RunsAsAsked`, `ChannelsNotReplaced` | `[]RunAsAsked`, `ChannelNotReplaced` |
| `VpcdProtocolProofs` | `Invariance`, `TypeCorrect` | `[]IInv`, `[]TypeOK` |
| | `Understanding`, `Answering`, `Keeping` | `[]RequestsUnderstood`, `[]AnsweredInTurn`, `[]ConnectionKept` |
| `CardConnectionsProofs` | `Invariance`, `TypeCorrect` | `[]IInv`, `[]TypeOK` |
| | `RunsTwiceAtMost`, `UndisturbedTransmits`, `ResetsForCause` | `[]RunTwiceAtMost`, `[]UndisturbedTransmitSucceeds`, `ResetForCause` |
| `CardAnnouncementsProofs` | `ComposedConnections` | `SpecAnnouncements => Spec` of `CardConnections` |
| | `AnnouncementsTypeCorrect`, `AnnouncementsTrue` | `[]AnnouncementsTypeOK`, `[]AnnouncedCardsWereThere` |
| | `ComposedTransmits` | the theorems about calls, of `SpecAnnouncements` |
| `ClientRecoveryProofs` | `Invariance`, `TypeCorrect`, `NoneAfterShutdown`, `PausesAlwaysAlike` | of `ClientLoop`: `[]IInv`, `[]TypeOK`, `NoStartAfterShutdown`, `[]PausesAlike` |
| | `RecoveryImplementsLoop` | `SpecRecovery => Spec` of `ClientLoop` |
| | `RecoveryTypeCorrect`, `RecoveryAfterShutdown` | `[]RecoveryTypeOK`, `NoStartAfterShutdown` and `[]PausesAlike`, on the network |
| `CertificatesProofs` | `Invariance`, `TypeCorrect` | `[]IInv`, `[]TypeOK` |
| | `SuccessUsable`, `TrustIsKept`, `SoundStarts` | `[]SuccessMeansUsable`, `[]TrustKept`, `SoundStartSucceeds` |

`SpecRecovery` is `FairRecovery` without its fairness. Fairness only takes
behaviours away, so what is proved without it holds with it.

**Assumptions.** The proofs rest on the named assumptions on constants, which TLC
evaluates in the runs, and on nothing else. Counts and bounds are numbers, positive
where the code's are; values for "none", "missing" and "damaged" are not among
those they stand beside, nor the same. One says more:
`VpcdAssumption` takes APDUs to be at least two bytes long (their header has four;
one byte is a control code), responses to hold the two bytes of their status word
(`try_transmit` hands on what PC/SC returns), and, where the peer is vpcd, APDUs to be
of a length that two bytes can say: vpcd, which is external, could not put another to
the server at all. Responses may be of any length: what becomes of the
connection when one is too long is in the model, and `AnsweredInTurn` says up to where
the peer gets what it was given.

### The relay implements a virtual reader

That an answer of a card is that card's reply to the request answered is not
inductive by itself: it depends on everything a response passes on its way. `IInv`
has seven parts.

- `Correlated` follows commands and responses: whatever is in a queue, at hand
  in a command task or in flight is `Routed`, that is, its id is below the
  counter of the server process that knows its session, and if a oneshot is
  filed under that id in that session, it is the one of the same request. It is
  why a late response cannot be taken for another.
- `PendingConsistent`: ids on file are below the counter, so a new id is under
  none of them and under nothing on its way. A restart of the server takes ids
  back to 1; what is still on its way then names a session that no server
  process will ever know again, which is what `Routed` says of ids only "if s is
  in `sessions`".
- `AskedOnce`: a request belongs to one vpcd client, so a reply to it can be
  for that one only.
- `ChannelServed` and `ConnConsistent`: a session's channel is the queue of the
  session's own connection, so a command goes to the client that has the card.
- `WorkerConsistent`: a vpcd client works on the request vpcd waits for, unless
  the connection has gone, and holds the lock exactly while its send is blocked.
- `TypeOK`.

There is one lemma per part for the step, with one step per action; lemmas such
as `FinishEffect`, `SparedWorker`, `AskedGrows` and `RoutedStep` say once what
groups of actions leave alone. `VirtualStep` maps every step of the relay to a
step of `VirtualReader` or to a stutter, given `IInv`.

### Order in the relay

`RunAsAsked` compares two histories that no step touches together. What lies between them
are the places a request passes, and `OrderInv` orders them all: what has been run
was asked before what is in the slots of a connection (the command at hand, then its
queue), those are in the order of asking, and all of it was asked before what a vpcd
client has at hand and has not sent. It is why a request is not run a
second time: `Before` is strict, because `AskedOnce` has it asked once. A step of the relay
is one of four for `OrderInv` (`OrderSteps`), each with its lemma: nothing is asked, sent or
run, and slots are emptied or move up by one (`PassesKeepOrder`); vpcd asks
(`MessageKeepsOrder`); a vpcd client sends (`SendKeepsOrder`); a card runs a request
(`RunKeepsOrder`).

`ChannelNotReplaced` follows from `OneOwner`: a session id is held by one connection
only, also after restarts, because UUIDs are never drawn twice, and a connection
opens its channel once.

### Bytes between vpcd and a vpcd client

What the two sides have read must be compared with what was written, while any
number of bytes of it is on the way. Defining the bytes of a list of messages by
recursion is no help, as nothing could be proved of it by induction. `Flow` says it
with witnesses instead: there is a function `w` with *all* bytes ever written to a
direction, and one `at` with the place of each frame in it; what is on the way is the
end of `w` (`Ends`), and what the `read_exact` at hand has read is the piece before it
(`Held`), behind the length of the frame it is reading (`ReadOf`). Writing extends
the witnesses (`FlowWritten`), reading a byte keeps them (`FlowByte` and the lemmas
before it). Each is proved once and used for both directions. So no bound on
lengths, messages or pieces is needed.

- `Heard` is the flow to the server from vpcd: the bodies are the messages meant,
  and those handled are the beginning of them (`Follows`). (The test tool's are taken
  for others, as section 3 says, and nothing is claimed of them.)
- `Answered` is the flow back, to either peer: the bodies are the responses given, up to
  the first that is too long for its length (`FitIn`); behind that nothing is claimed.
- `InTurn` pairs responses with the messages that have one. Control commands have
  none, so the two are not at the same index; `Counts` has a function that numbers
  those that do.
- `Orderly`: a connection that is open has a server behind it, a message that is being
  handled is the last one handled and has a response, a length is two bytes.
- `ConnectionKept` follows from `Heard` at each step: a message of vpcd's is
  never an unknown command, nor its length zero or cut (`VpcdBodies`).

### Card connections and announcements

`IInv` has what is known in the middle of a call. `RunsCounted`: until the second
`try_transmit` the card has run the APDU at most once, and a call that goes on after
that has been disturbed. `OnFile`: a call connects only where there is no connection
on file. `Calm`: a call that nothing has disturbed has found the reader as it was, so it
gives up a connection only if that is stale or its APDU was refused, and its second
attempt has a new one. `ResetsForCause` is about an action property: the only step of a
call that resets a card is `disconnect`, of the reader of the call and in the first
attempt; a stale connection no longer reaches the card, so by `Calm` an APDU was refused
or something has interfered.

`CardAnnouncements` has steps of its own, yet `ComposedConnections` shows each to be a step
of `CardConnections` or to leave its variables alone, so that the theorems about
calls need no second proof. `AInv` adds that `seen` has every card in a reader since
the announcement began (`CardsSeen`), and that the ATR at hand is of one of these
(`AtrSeen`): a connection on file may be to a card of long ago, but `status`
on it fails.

### The client process

`NoStartAfterShutdown` needs no invariant. `PausesAlike` does: `FirstDelay` says that
whenever a connection is being made or is up the next delay is the first, because
`main.rs:232` resets it on the way to each attempt. So the disagreement *Backoff*
is not one of a small instance: for no settings does a pause ever grow.
`RecoveryImplementsLoop` shows that the network of `ClientRecovery` decides among the
outcomes `ClientLoop` allows and adds none, given the types of the network's variables.

### Certificates

`SuccessMeansUsable` looks at the end of a command only. `CommandConsistent` says what
rsc-keygen has made from call to call of openssl: a request names the key on file, and
a certificate that key and that of the CA; what is being made is not settled, and while
a CA is made nothing is. A process reads its files while rsc-keygen may write them.
`ServerSound` and `ClientSound` are one definition, `Sound`: each file it needs has been
read as it is now, or is still to be read; once it is up, what it has read belongs to the
CA at its start, whatever becomes of the files. So both sides have read the
same CA, and the certificates they show are signed by it (`SoundUnderstand`).

**Only model-checked.** The liveness properties: `AnsweredUnlessStuck`,
`BrokenStreamAnswered`, `AnsweredOrClosed`, `CallEnds`, `ShutdownStopsIfHeard`,
`DeadChannelLeftIfHeard` and `Recovers`. Each holds by fairness of steps, whose proof needs
ENABLED, which is beyond TLAPS 1.4.5. The five disagreements are counterexamples,
which a run shows and a proof need not.

## 5. Not modelled

- Expiry of sessions: `touch` writes a time that only `is_expired` reads, which
  only `cleanup_expired` calls, which nothing calls. That sessions and their vpcd
  clients stay is what `OneSlot.cfg` is about.
- Stubs of the service (StreamCardEvents, CardConnect, CardDisconnect, Transmit,
  GetStatus, Control): they change nothing and have no caller.
- The server's graceful shutdown: what `serve_with_shutdown` does with open streams
  is up to tonic.
- The Windows certificate store; the functions that build rustls configurations
  (no caller); the server's configuration file (not read); logging, packaging; what
  the test tool prints.
- What openssl and rustls make of a certificate beyond keys and signatures: a client's
  is made without extensions, and whether that gives a version rustls accepts
  depends on the version of openssl.
- Bytes of APDUs beyond their number. Cards changing under a registered reader in the
  relay: `CardAnnouncements` has what the server is told of it.
- A server that takes RPCs and answers none, in `ClientRecovery`.

## 6. Plan

Done: the relay with its abstract specification; card connections and what is
announced of them; framing; the client process and its recovery; the certificates; and
proofs of all their safety properties. To come, in order of weight:

1. An abstract specification of the connection in `VpcdProtocol`, with whole messages
   in place of bytes, and the proof that the bytes implement it: `Flow` is
   most of what it takes. The relay then rests on it, as it has requests and answers
   whole.
2. The connection of `RemoteSmartcard` to `ClientLoop`, by now by words only (connections
   start whenever they like), as a refinement.
3. Lemmas about `merge_cli_args` (what "takes precedence" amounts to) and about the
   operators of `SessionManager`, each for every session table.
