--------------------------- MODULE SessionManager ---------------------------
(***************************************************************************)
(* The server's table of sessions (server/src/session_manager.rs): which    *)
(* sessions exist, the readers each one announced, the command channel it   *)
(* holds, the commands on that channel that wait for a response, and the    *)
(* process-wide counter of command ids.                                     *)
(*                                                                          *)
(* Every operation below runs under the write guard of the                  *)
(* RwLock<SessionManager> and says what it does to the table; the gRPC      *)
(* handlers and vpcd clients of RemoteSmartcard call them.                  *)
(***************************************************************************)
EXTENDS Naturals

CONSTANTS
    SessionIds,   \* the UUIDs Session::new may draw; none is drawn twice
    Readers,      \* names of local readers
    Conns,        \* connections of clients: one activation of run_connection
    Requests,     \* requests vpcd puts to a virtual reader, all distinct
    NoConn        \* command_channel: None

ASSUME NoConnAssumption == NoConn \notin Conns

VARIABLES
    sessions,     \* keys of SessionManager.sessions
    issued,       \* every id ever drawn, by this or an earlier server process
    readers,      \* readers[s][r]: what session s knows of reader r
    channel,      \* channel[s]: the connection behind command_tx, or NoConn
    pending,      \* pending[s]: <<command id, request whose oneshot waits>>
    nextId        \* COMMAND_ID_COUNTER

sessionVars == <<sessions, issued, readers, channel, pending, nextId>>

(***************************************************************************)
(* What a session knows of a reader: nothing, no card (card_present false), *)
(* a card with its ATR, or a card whose ATR came back empty.                *)
(***************************************************************************)
KnownInfos == {"no_card", "atr", "empty_atr"}
ReaderInfos == KnownInfos \cup {"unknown"}

SessionTypeOK ==
    /\ sessions \subseteq issued
    /\ issued \subseteq SessionIds
    /\ readers \in [SessionIds -> [Readers -> ReaderInfos]]
    /\ channel \in [SessionIds -> Conns \cup {NoConn}]
    /\ pending \in [SessionIds -> SUBSET (Nat \X Requests)]
    /\ nextId \in Nat \ {0}

(* Mutant: ids start at 0, the id of the message that registers a channel.  *)
EmptyTable_from_zero(sess, rd, ch, pn, next) ==
    /\ sess = {}
    /\ rd = [s \in SessionIds |-> [r \in Readers |-> "unknown"]]
    /\ ch = [s \in SessionIds |-> NoConn]
    /\ pn = [s \in SessionIds |-> {}]
    /\ next = 0

(* SessionManager::new and the initial value of COMMAND_ID_COUNTER.  A      *)
(* server process always starts like this; only `issued' outlives it.       *)
EmptyTable(sess, rd, ch, pn, next) ==
    /\ sess = {}
    /\ rd = [s \in SessionIds |-> [r \in Readers |-> "unknown"]]
    /\ ch = [s \in SessionIds |-> NoConn]
    /\ pn = [s \in SessionIds |-> {}]
    /\ next = 1

SessionInit ==
    /\ EmptyTable(sessions, readers, channel, pending, nextId)
    /\ issued = {}

----------------------------------------------------------------------------
(* Mutant: a client that comes back is given a session that exists.         *)
create_session_again(s) ==
    /\ issued' = issued \cup {s}
    /\ sessions' = sessions \cup {s}
    /\ UNCHANGED <<readers, channel, pending, nextId>>

(* create_session: a fresh id, no readers and no command channel.           *)
create_session(s) ==
    /\ s \notin issued
    /\ issued' = issued \cup {s}
    /\ sessions' = sessions \cup {s}
    /\ UNCHANGED <<readers, channel, pending, nextId>>

(* update_reader: insert or overwrite what the session knows of a reader.   *)
update_reader(s, r, info) ==
    /\ readers' = [readers EXCEPT ![s][r] = info]
    /\ UNCHANGED <<sessions, issued, channel, pending, nextId>>

(* set_command_channel: a new CommandChannel, with nothing pending on it.   *)
set_command_channel(s, c) ==
    /\ channel' = [channel EXCEPT ![s] = c]
    /\ pending' = [pending EXCEPT ![s] = {}]
    /\ UNCHANGED <<sessions, issued, readers, nextId>>

(* Mutant: the pending map outlives the channel.                            *)
clear_command_channel_only(s) ==
    /\ channel' = [channel EXCEPT ![s] = NoConn]
    /\ UNCHANGED <<sessions, issued, readers, pending, nextId>>

(* clear_command_channel: dropping the channel drops every oneshot sender   *)
(* in its pending map, which closes the receivers that wait on them.        *)
clear_command_channel(s) ==
    /\ channel' = [channel EXCEPT ![s] = NoConn]
    /\ pending' = [pending EXCEPT ![s] = {}]
    /\ UNCHANGED <<sessions, issued, readers, nextId>>

(* Mutant: the counter is read without being increased.                     *)
next_command_id_load == UNCHANGED nextId

(* next_command_id. *)
next_command_id == nextId' = nextId + 1

(* The bookkeeping of send_command_async: take the next command id and file *)
(* the request's oneshot sender under it.  A map holds one sender per id.   *)
store_pending(s, q) ==
    /\ next_command_id
    /\ pending' = [pending EXCEPT ![s] =
                     {p \in @ : p[1] # nextId} \cup {<<nextId, q>>}]
    /\ UNCHANGED <<sessions, issued, readers, channel>>

(* Mutant: a response is for whoever waits in its session.                  *)
waiter_in_session(s, cid) == {q \in Requests : \E p \in pending[s] : p[2] = q}

(* The sender filed under a command id, as a set of at most one request.    *)
waiter(s, cid) == {q \in Requests : <<cid, q>> \in pending[s]}

(* handle_response, on the table: the entry filed under the id is removed.  *)
(* Without a channel nothing is pending, so the table stays as it is.       *)
remove_pending(s, cid) ==
    /\ pending' = [pending EXCEPT ![s] = {p \in @ : p[1] # cid}]
    /\ UNCHANGED <<sessions, issued, readers, channel, nextId>>

=============================================================================
