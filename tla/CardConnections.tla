-------------------------- MODULE CardConnections --------------------------
(***************************************************************************)
(* The client's connections to its local cards (client/src/pcsc_reader.rs), *)
(* and the commands of the server that use them (the handle_*_command       *)
(* functions of client/src/grpc_client.rs).  A global map keeps one         *)
(* connection per reader for as long as it works; one Mutex guards the map  *)
(* for the whole of a call, so calls come one at a time, but cards and      *)
(* other applications move between the steps of a call.                     *)
(*                                                                          *)
(* PC/SC and the cards are external.  A connection is to a card as powered  *)
(* up: once the card is taken out, or reset by another application, every   *)
(* use of the connection fails.  Giving a connection up resets its card.    *)
(* When the PC/SC service restarts, the context and all connections made    *)
(* with it are of no use any more.                                          *)
(***************************************************************************)
EXTENDS Naturals

CONSTANTS
    Readers,       \* names of local readers
    MaxRetries,    \* attempts of connect_with_retry (5)
    MaxCalls,      \* bound: calls in a behaviour
    MaxEvents      \* bound: moves of cards and other applications

ASSUME CardAssumption ==
    /\ MaxRetries \in Nat \ {0}
    /\ MaxCalls \in Nat
    /\ MaxEvents \in Nat

VARIABLES
    manager,    \* CARD_CONNECTIONS: none yet, or with a context that works or not
    card,       \* card[r]: the card in reader r
    access,     \* access[r]: what an attempt to connect to r meets
    handle,     \* handle[r]: power-up the connection on file is to, 0 if none
    call,       \* the call that holds the Mutex, or its outcome
    believes,   \* believes[r]: history: the last one to use r selected its applet
    calls,      \* calls so far
    events      \* moves of the environment so far

vars == <<manager, card, access, handle, call, believes, calls, events>>

(* A card: its latest power-up (they are counted from 1), whether it is in  *)
(* the reader, and whether an applet has been selected since the power-up.  *)
Cards == [up : Nat, present : BOOLEAN, selected : BOOLEAN]

(* What an attempt to connect to a reader meets: nothing; another           *)
(* application, or a reader that is not ready; or no reader of that name.   *)
Accesses == {"shared", "exclusive", "unavailable", "unknown"}

(* What a command asks of a card: an APDU that selects an applet, one that  *)
(* needs an applet to have been selected, or the ATR.                       *)
Ops == {"select", "use", "atr"}

(* A call: where it is, attempts at connecting, whether try_transmit has    *)
(* been called again, how often the card ran the APDU and what it ran it on,*)
(* and three observations: whether anything but the code interfered, whether*)
(* PC/SC refused the APDU on a connection that works, and whether the reader*)
(* was without a card all along.                                            *)
Calls == [op : Ops, reader : Readers,
          step : {"lookup", "connect", "use", "disconnect", "done"},
          attempt : 1 .. MaxRetries, again : BOOLEAN, runs : Nat, disturbed : BOOLEAN,
          refused : BOOLEAN, absent : BOOLEAN,
          outcome : {"none", "ok", "no_card", "failed", "ok_unselected"}]
NoCall == [op |-> "none"]

(* What becomes of an APDU handed to a connection: the card runs it and its *)
(* reply arrives or gets lost; or it is an error and the card runs nothing. *)
Exchanges == {"answered", "lost", "refused"}

TypeOK ==
    /\ manager \in {"none", "valid", "stopped"}
    /\ believes \in [Readers -> BOOLEAN]
    /\ card \in [Readers -> Cards]
    /\ access \in [Readers -> Accesses]
    /\ handle \in [Readers -> Nat]
    /\ call \in Calls \cup {NoCall}
    /\ calls \in Nat
    /\ events \in Nat

Init ==
    /\ manager = "none"
    /\ believes = [r \in Readers |-> FALSE]
    /\ card \in [Readers -> {[up |-> 1, present |-> b, selected |-> FALSE] : b \in BOOLEAN}]
    /\ access = [r \in Readers |-> "shared"]
    /\ handle = [r \in Readers |-> 0]
    /\ call = NoCall
    /\ calls = 0
    /\ events = 0

At(step) == call # NoCall /\ call.step = step
Connected(r) == handle[r] # 0
Stale(r) == manager = "stopped" \/ ~card[r].present \/ handle[r] # card[r].up
Busy(r) == manager = "valid" /\ access[r] \in {"exclusive", "unavailable"}
Open(r) == manager = "valid" /\ access[r] = "shared"
Reset(c) == [c EXCEPT !.up = @ + 1, !.selected = FALSE]

----------------------------------------------------------------------------
(* transmit_apdu and get_atr take the Mutex; the call before is over, and   *)
(* whoever made it knows its outcome.  ensure_manager makes the manager on  *)
(* the first call and keeps it for good.                                    *)
start_call(op, r) ==
    /\ call = NoCall \/ At("done")
    /\ calls < MaxCalls
    /\ calls' = calls + 1
    /\ manager' = IF manager = "none" THEN "valid" ELSE manager
    /\ call' = [op |-> op, reader |-> r, step |-> "lookup", attempt |-> 1,
                again |-> FALSE, runs |-> 0,
                disturbed |-> access[r] # "shared" \/ manager = "stopped",
                refused |-> FALSE, absent |-> ~card[r].present, outcome |-> "none"]
    /\ believes' =
          IF call = NoCall \/ call.op = "atr" THEN believes
          ELSE [believes EXCEPT ![call.reader] =
                  call.outcome = "ok" /\ (call.op = "select" \/ @)]
    /\ UNCHANGED <<card, access, handle, events>>

(* ensure_manager fails, as long as there is no manager, without the service*)
no_context(op, r) ==
    /\ call = NoCall \/ At("done")
    /\ manager = "none"
    /\ calls < MaxCalls
    /\ calls' = calls + 1
    /\ call' = [op |-> op, reader |-> r, step |-> "done", attempt |-> 1,
                again |-> FALSE, runs |-> 0, disturbed |-> TRUE,
                refused |-> FALSE, absent |-> ~card[r].present, outcome |-> "failed"]
    /\ UNCHANGED <<manager, card, access, handle, believes, events>>

(* get_or_connect: the connection on file is used, whatever its state.      *)
get_or_connect ==
    /\ At("lookup")
    /\ call' = [call EXCEPT !.step = IF Connected(call.reader) THEN "use" ELSE "connect",
                            !.attempt = 1]
    /\ UNCHANGED <<manager, card, access, handle, believes, calls, events>>

(* Mutant: every failure is tried again. *)
Fails_never(c, error) ==
    call' = IF c.op # "atr"
            THEN [c EXCEPT !.step = "disconnect"]
            ELSE [c EXCEPT !.step = "done", !.outcome = error]

(* A step of call c fails.  transmit gives the connection up and calls    *)
(* try_transmit once more; get_atr, and the second try_transmit, return the *)
(* error, and leave the connection on file.                                 *)
Fails(c, error) ==
    call' = IF c.op # "atr" /\ ~c.again
            THEN [c EXCEPT !.step = "disconnect"]
            ELSE [c EXCEPT !.step = "done", !.outcome = error]

(* The error that there is no card.  handle_get_atr_command, which knows it *)
(* by its text, takes it for an answer; handle_apdu_command does not.       *)
NoSmartcard == IF call.op = "atr" THEN "no_card" ELSE "failed"

(* Mutant: attempts are not counted. *)
connect_without_count ==
    /\ At("connect")
    /\ LET r == call.reader IN
       \/ /\ Busy(r)
          /\ call.attempt < MaxRetries
          /\ UNCHANGED call
          /\ UNCHANGED handle
       \/ /\ \/ manager = "stopped" \/ access[r] = "unknown"
             \/ Busy(r) /\ call.attempt >= MaxRetries
          /\ Fails(call, "failed")
          /\ UNCHANGED handle
       \/ /\ Open(r)
          /\ ~card[r].present
          /\ Fails(call, NoSmartcard)
          /\ UNCHANGED handle
       \/ /\ Open(r)
          /\ card[r].present
          /\ handle' = [handle EXCEPT ![r] = card[r].up]
          /\ call' = [call EXCEPT !.step = "use"]
    /\ UNCHANGED <<manager, card, access, believes, calls, events>>

(* Mutant: one attempt too many. *)
connect_once_more ==
    /\ At("connect")
    /\ LET r == call.reader IN
       \/ /\ Busy(r)
          /\ call.attempt <= MaxRetries
          /\ call' = [call EXCEPT !.attempt = @ + 1]
          /\ UNCHANGED handle
       \/ /\ \/ manager = "stopped" \/ access[r] = "unknown"
             \/ Busy(r) /\ call.attempt > MaxRetries
          /\ Fails(call, "failed")
          /\ UNCHANGED handle
       \/ /\ Open(r)
          /\ ~card[r].present
          /\ Fails(call, NoSmartcard)
          /\ UNCHANGED handle
       \/ /\ Open(r)
          /\ card[r].present
          /\ handle' = [handle EXCEPT ![r] = card[r].up]
          /\ call' = [call EXCEPT !.step = "use"]
    /\ UNCHANGED <<manager, card, access, believes, calls, events>>

(* One attempt of connect_with_retry.  A busy or unavailable reader is      *)
(* tried again after a pause, as often as MaxRetries; any other error, such *)
(* as that there is no card, is final.                                      *)
connect_with_retry ==
    /\ At("connect")
    /\ LET r == call.reader IN
       \/ /\ Busy(r)
          /\ call.attempt < MaxRetries
          /\ call' = [call EXCEPT !.attempt = @ + 1]
          /\ UNCHANGED handle
       \/ /\ \/ manager = "stopped" \/ access[r] = "unknown"
             \/ Busy(r) /\ call.attempt >= MaxRetries
          /\ Fails(call, "failed")
          /\ UNCHANGED handle
       \/ /\ Open(r)
          /\ ~card[r].present
          /\ Fails(call, NoSmartcard)
          /\ UNCHANGED handle
       \/ /\ Open(r)
          /\ card[r].present
          /\ handle' = [handle EXCEPT ![r] = card[r].up]
          /\ call' = [call EXCEPT !.step = "use"]
    /\ UNCHANGED <<manager, card, access, believes, calls, events>>

(* card.transmit on the connection.  It is an error on a stale connection   *)
(* and while another application has locked the card, but also on one that  *)
(* works: PC/SC and the reader refuse APDUs, such as an extended one where  *)
(* they are not supported, or one that is too short.  An error is an error: *)
(* the code looks at none of these reasons.                                 *)
try_transmit(exchange) ==
    /\ At("use")
    /\ call.op # "atr"
    /\ LET r == call.reader IN
       \/ /\ exchange = "refused"
          /\ Fails([call EXCEPT !.refused = @ \/ (~Stale(r) /\ Open(r))], "failed")
          /\ UNCHANGED <<card, events>>
       \/ /\ exchange # "refused"
          /\ ~Stale(r) /\ Open(r)
          /\ card' = [card EXCEPT ![r].selected = @ \/ call.op = "select"]
          /\ LET ran == [call EXCEPT !.runs = @ + 1] IN
             IF exchange = "answered"
             THEN /\ call' = [ran EXCEPT !.step = "done",
                                !.outcome = IF call.op = "use" /\ ~card[r].selected
                                            THEN "ok_unselected" ELSE "ok"]
                  /\ UNCHANGED events
             ELSE /\ events < MaxEvents
                  /\ events' = events + 1
                  /\ Fails([ran EXCEPT !.disturbed = TRUE], "failed")
    /\ UNCHANGED <<manager, access, handle, believes, calls>>

(* Mutant: try_transmit is called again on the same connection. *)
same_connection ==
    /\ At("disconnect")
    /\ call' = [call EXCEPT !.step = "lookup", !.again = TRUE]
    /\ UNCHANGED <<manager, card, access, handle, believes, calls, events>>

(* transmit drops the connection on file, which resets the card if the      *)
(* connection was still one to it, and calls try_transmit again.            *)
disconnect ==
    /\ At("disconnect")
    /\ LET r == call.reader IN
       /\ handle' = [handle EXCEPT ![r] = 0]
       /\ card' = IF Connected(r) /\ ~Stale(r)
                  THEN [card EXCEPT ![r] = Reset(@)] ELSE card
    /\ call' = [call EXCEPT !.step = "lookup", !.again = TRUE]
    /\ UNCHANGED <<manager, access, believes, calls, events>>

(* Mutant: get_atr connects for itself and drops its connection at the end. *)
get_atr_drops ==
    /\ At("use")
    /\ call.op = "atr"
    /\ call' = [call EXCEPT !.step = "done", !.outcome = "ok"]
    /\ handle' = [handle EXCEPT ![call.reader] = 0]
    /\ card' = [card EXCEPT ![call.reader] = Reset(@)]
    /\ UNCHANGED <<manager, access, believes, calls, events>>

(* Mutant: the ATR is kept with the connection on file. *)
get_atr_on_file ==
    /\ At("use")
    /\ call.op = "atr"
    /\ call' = [call EXCEPT !.step = "done", !.outcome = "ok"]
    /\ UNCHANGED <<manager, card, access, handle, believes, calls, events>>

(* get_atr: status2 on the connection.  handle_get_atr_command recognises   *)
(* the error "no card" only; that of a stale connection is another one.     *)
get_atr ==
    /\ At("use")
    /\ call.op = "atr"
    /\ IF Stale(call.reader)
       THEN Fails(call, "failed")
       ELSE call' = [call EXCEPT !.step = "done", !.outcome = "ok"]
    /\ UNCHANGED <<manager, card, access, handle, believes, calls, events>>

----------------------------------------------------------------------------
(* Cards and other applications (external).                                 *)

(* The call at hand is disturbed, if it is one for a reader in S. *)
Disturb(S) ==
    /\ events < MaxEvents
    /\ events' = events + 1
    /\ call' = IF call # NoCall /\ call.reader \in S
               THEN [call EXCEPT !.disturbed = TRUE,
                                 !.absent = @ /\ ~card'[call.reader].present]
               ELSE call
    /\ UNCHANGED <<handle, believes, calls>>

insert(r) ==
    /\ ~card[r].present
    /\ card' = [card EXCEPT ![r] = [Reset(@) EXCEPT !.present = TRUE]]
    /\ UNCHANGED <<manager, access>>
    /\ Disturb({r})

remove(r) ==
    /\ card[r].present
    /\ card' = [card EXCEPT ![r].present = FALSE, ![r].selected = FALSE]
    /\ UNCHANGED <<manager, access>>
    /\ Disturb({r})

(* Another application resets the card, which sharing it allows.            *)
reset_by_other(r) ==
    /\ card[r].present
    /\ card' = [card EXCEPT ![r] = Reset(@)]
    /\ UNCHANGED <<manager, access>>
    /\ Disturb({r})

(* Another application takes or gives back the reader; it is unplugged,     *)
(* which cuts the card's power, or plugged in.                              *)
access_changes(r, a) ==
    /\ access[r] # a
    /\ access' = [access EXCEPT ![r] = a]
    /\ card' = IF a \in {"unavailable", "unknown"}
               THEN [card EXCEPT ![r] = Reset(@)] ELSE card
    /\ UNCHANGED manager
    /\ Disturb({r})

(* The PC/SC service restarts; connections were shared, cards are reset.    *)
service_restarts ==
    /\ manager' = IF manager = "valid" THEN "stopped" ELSE manager
    /\ card' = [r \in Readers |-> Reset(card[r])]
    /\ UNCHANGED access
    /\ Disturb(Readers)

CodeStep ==
    \/ get_or_connect
    \/ connect_with_retry
    \/ \E x \in Exchanges : try_transmit(x)
    \/ disconnect
    \/ get_atr

Next ==
    \/ \E op \in Ops, r \in Readers : start_call(op, r) \/ no_context(op, r)
    \/ CodeStep
    \/ \E r \in Readers : insert(r) \/ remove(r) \/ reset_by_other(r)
    \/ \E r \in Readers, a \in Accesses : access_changes(r, a)
    \/ service_restarts

Spec == Init /\ [][Next]_vars

----------------------------------------------------------------------------
(* Properties.                                                              *)

(* transmit heals the map: with a card in the reader, nothing else going on *)
(* and an APDU that PC/SC accepts, the card runs the APDU once and its reply*)
(* is returned, whatever became of the card and the connection on file      *)
(* before, short of a restart of the PC/SC service.                         *)
UndisturbedTransmitSucceeds ==
    At("done") /\ call.op # "atr" /\ ~call.disturbed /\ ~call.refused /\ ~call.absent =>
        call.outcome \in {"ok", "ok_unselected"} /\ call.runs = 1

(* A card runs an APDU twice only if the reply to the first time was lost,  *)
(* or something else interfered, and never more than twice.                 *)
RunTwiceAtMost == At("done") => call.runs <= 2 /\ (call.runs = 2 => call.disturbed)

(* Giving a connection up resets its card and whatever was selected on it.  *)
(* The code does that to the card of its own call only, once at most, never *)
(* to read an ATR, and only if in this very call PC/SC refused the APDU or  *)
(* something else interfered: a stale connection, however it got stale, is  *)
(* replaced without harm to the card that is there now.                     *)
ResetForCause ==
    [][\A r \in Readers : card'[r].up # card[r].up /\ events' = events =>
          /\ call.reader = r /\ call.op # "atr" /\ ~call.again
          /\ call.refused \/ call.disturbed]_vars

(* Every call ends and gives the Mutex back. *)
CallEnds == At("lookup") ~> At("done")

(* "Maintains persistent card connections to preserve applet selection      *)
(* state": no APDU is run without the applet that was selected for it.      *)
SelectionPreserved ==
    At("done") /\ call.outcome = "ok_unselected" => ~believes[call.reader]

=============================================================================
