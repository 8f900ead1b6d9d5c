------------------------- MODULE CardAnnouncements -------------------------
(***************************************************************************)
(* What run_connection (client/src/main.rs) tells the server about the      *)
(* local cards, composed with the connections to them in CardConnections.   *)
(* Each call of run_connection begins with get_reader_info, which lists the *)
(* readers and calls get_atr for each, while the command task of an earlier *)
(* connection may still run commands, and cards come and go.                *)
(*                                                                          *)
(* The announcement is all the server ever learns: update_reader_info starts*)
(* a vpcd client for a reader that is announced with a card, the ATR in it  *)
(* answers vpcd's requests for an ATR, and nothing is announced again before*)
(* the next connection.                                                     *)
(***************************************************************************)
EXTENDS CardConnections

CONSTANTS
    Chips,             \* cards, each with an ATR of its own
    NoAtr,             \* the ATR of a reader without a card: empty
    MaxConnections     \* bound: calls of run_connection

ASSUME AnnouncementAssumption ==
    /\ NoAtr \notin Chips
    /\ MaxConnections \in Nat

VARIABLES
    chip,         \* chip[r]: the card in reader r, or the last one in it
    stage,        \* run_connection: not running, in get_reader_info, or beyond
    todo,         \* readers get_reader_info has still to ask for their ATR
    asking,       \* the reader it has called get_atr for, as a set
    atr,          \* the ATR that call has read
    announced,    \* announced[r]: reader_info
    served,       \* readers with a vpcd client, of this session or an earlier
    connections,  \* calls of run_connection so far
    seen,         \* history: cards in r at some time since get_reader_info began
    calm          \* history: readers with a card and undisturbed since then

announceVars == <<chip, stage, todo, asking, atr, announced, served, connections, seen, calm>>
allVars == <<vars, announceVars>>

Announcements == [listed : BOOLEAN, card_present : BOOLEAN, atr : Chips \cup {NoAtr}]
NotListed == [listed |-> FALSE, card_present |-> FALSE, atr |-> NoAtr]

AnnouncementsTypeOK ==
    /\ TypeOK
    /\ chip \in [Readers -> Chips]
    /\ stage \in {"away", "listing", "connected"}
    /\ todo \subseteq Readers /\ asking \subseteq Readers
    /\ atr \in Chips \cup {NoAtr}
    /\ announced \in [Readers -> Announcements]
    /\ served \subseteq Readers
    /\ connections \in 0 .. MaxConnections
    /\ seen \in [Readers -> SUBSET Chips]
    /\ calm \subseteq Readers

InitAnnouncements ==
    /\ Init
    /\ chip \in [Readers -> Chips]
    /\ stage = "away"
    /\ todo = {} /\ asking = {} /\ atr = NoAtr
    /\ announced = [r \in Readers |-> NotListed]
    /\ served = {}
    /\ connections = 0
    /\ seen = [r \in Readers |-> {}]
    /\ calm = {}

----------------------------------------------------------------------------
(* get_reader_info begins.  list_readers makes a context of its own, so it  *)
(* works again after the service has been restarted; if it fails, there are *)
(* no readers.                                                              *)
list_readers(ok) ==
    /\ stage = "away"
    /\ connections < MaxConnections
    /\ connections' = connections + 1
    /\ stage' = "listing"
    /\ todo' = IF ok THEN {r \in Readers : access[r] # "unknown"} ELSE {}
    /\ announced' = [r \in Readers |-> NotListed]
    /\ seen' = [r \in Readers |-> IF card[r].present THEN {chip[r]} ELSE {}]
    /\ calm' = IF ok THEN {r \in Readers : card[r].present /\ access[r] = "shared"} ELSE {}
    /\ UNCHANGED <<vars, chip, asking, atr, served>>

(* get_atr for the next reader, through the same map as the commands use.   *)
ask_next(r) ==
    /\ stage = "listing"
    /\ asking = {}
    /\ r \in todo
    /\ \/ start_call("atr", r) /\ UNCHANGED calm
       \/ no_context("atr", r) /\ calm' = calm \ {r}
    /\ todo' = todo \ {r}
    /\ asking' = {r}
    /\ atr' = NoAtr
    /\ UNCHANGED <<chip, stage, announced, served, connections, seen>>

(* get_atr(reader).ok(): a reader whose ATR could not be read, for whatever *)
(* reason, is one without a card.                                           *)
reader_info(r) ==
    /\ r \in asking
    /\ At("done")
    /\ asking' = {}
    /\ announced' = [announced EXCEPT ![r] =
          [listed |-> TRUE, card_present |-> call.outcome = "ok", atr |-> atr]]
    /\ UNCHANGED <<vars, chip, stage, todo, atr, served, connections, seen, calm>>

(* The session is established and the readers are registered, which starts  *)
(* vpcd clients for those with a card; a registration may fail.             *)
register_readers ==
    /\ stage = "listing"
    /\ todo = {} /\ asking = {}
    /\ stage' = "connected"
    /\ \E R \in SUBSET {r \in Readers : announced[r].card_present} : served' = served \cup R
    /\ UNCHANGED <<vars, chip, todo, asking, atr, announced, connections, seen, calm>>

(* run_connection returns.  Its command task may go on.                     *)
connection_lost ==
    /\ stage = "connected"
    /\ stage' = "away"
    /\ UNCHANGED <<vars, chip, todo, asking, atr, announced, served, connections, seen, calm>>

(* A command of the server, for a reader with a vpcd client, of this        *)
(* connection or of an earlier one.                                         *)
command(op, r) ==
    /\ r \in served
    /\ asking = {}
    /\ start_call(op, r)
    /\ UNCHANGED announceVars

(* A step of the call at hand; get_atr, for get_reader_info, keeps the ATR. *)
CallStep ==
    /\ CodeStep
    /\ atr' = IF asking # {} /\ At("use") /\ call'.outcome = "ok"
              THEN chip[call.reader] ELSE atr
    /\ UNCHANGED <<chip, stage, todo, asking, announced, served, connections, seen, calm>>

(* Cards and other applications. *)
insert_chip(r, k) ==
    /\ insert(r)
    /\ chip' = [chip EXCEPT ![r] = k]
    /\ seen' = [seen EXCEPT ![r] = @ \cup {k}]
    /\ calm' = calm \ {r}
    /\ UNCHANGED <<stage, todo, asking, atr, announced, served, connections>>

disturbance(r) ==
    /\ \/ remove(r) \/ reset_by_other(r)
       \/ \E a \in Accesses : access_changes(r, a)
    /\ calm' = calm \ {r}
    /\ UNCHANGED <<chip, stage, todo, asking, atr, announced, served, connections, seen>>

restart_of_service ==
    /\ service_restarts
    /\ calm' = {}
    /\ UNCHANGED <<chip, stage, todo, asking, atr, announced, served, connections, seen>>

NextAnnouncements ==
    \/ \E ok \in BOOLEAN : list_readers(ok)
    \/ \E r \in Readers : ask_next(r) \/ reader_info(r)
    \/ register_readers
    \/ connection_lost
    \/ \E op \in Ops, r \in Readers : command(op, r)
    \/ CallStep
    \/ \E r \in Readers, k \in Chips : insert_chip(r, k)
    \/ \E r \in Readers : disturbance(r)
    \/ restart_of_service

SpecAnnouncements == InitAnnouncements /\ [][NextAnnouncements]_allVars

(* The thread that holds the Mutex goes on: PC/SC returns and pauses end.   *)
FairAnnouncements == SpecAnnouncements /\ WF_allVars(CallStep)

----------------------------------------------------------------------------
(* Properties.                                                              *)

(* A reader is announced with a card only if that card, the one with the ATR*)
(* announced, was in it at some time during this get_reader_info: the map   *)
(* may hold a connection to a card of long ago, but never answers for it.   *)
(* So an ATR vpcd is given is as old as the connection, and no older.       *)
AnnouncedCardsWereThere ==
    \A r \in Readers :
        announced[r].card_present => announced[r].atr \in seen[r]

(* "Get reader info (refresh on each connection attempt)", and "Try         *)
(* reinserting the card" when the server sees none: a card that is in its   *)
(* reader throughout get_reader_info, undisturbed, is announced.            *)
CardsAnnounced ==
    stage = "connected" => \A r \in calm : announced[r].card_present

=============================================================================
