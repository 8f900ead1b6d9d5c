----------------------- MODULE CardAnnouncementsProofs -----------------------
(***************************************************************************)
(* Proofs about CardAnnouncements: composed with get_reader_info and the    *)
(* commands of the server, the connections to the cards do what they do on  *)
(* their own, so all that CardConnectionsProofs shows of them holds here;   *)
(* and no ATR is announced of a card that was not there.                    *)
(***************************************************************************)
EXTENDS CardAnnouncements, CardConnectionsProofs

(* From the first get_reader_info on, every card in a reader is one that has*)
(* been seen there since the latest one began.                              *)
CardsSeen == connections > 0 => \A r \in Readers : card[r].present => chip[r] \in seen[r]

(* get_reader_info waits for the get_atr it has called, for that reader.    *)
WaitsForAtr ==
    /\ stage # "away" => connections > 0
    /\ asking # {} =>
          /\ stage = "listing"
          /\ call # NoCall
          /\ asking = {call.reader} /\ call.op = "atr"

(* An ATR that get_atr has read for it is that of a card that was there.    *)
AtrSeen ==
    asking # {} /\ At("done") /\ call.outcome = "ok" => atr \in seen[call.reader]

AInv ==
    /\ AnnouncementsTypeOK
    /\ CardsSeen
    /\ WaitsForAtr
    /\ AtrSeen
    /\ AnnouncedCardsWereThere

----------------------------------------------------------------------------
(* The composition takes no step that the connections alone would not take. *)

(* Every step of the composition is one of the connections, or leaves them. *)
LEMMA ConnectionsStep ==
    ASSUME [NextAnnouncements]_allVars
    PROVE  [Next]_vars
<1>1. CASE \/ \E ok \in BOOLEAN : list_readers(ok)
           \/ \E r \in Readers : reader_info(r)
           \/ register_readers
           \/ connection_lost
           \/ UNCHANGED allVars
  BY <1>1 DEF list_readers, reader_info, register_readers, connection_lost, allVars
<1>2. CASE \/ \E r \in Readers : ask_next(r)
           \/ \E op \in Ops, r \in Readers : command(op, r)
  BY <1>2 DEF ask_next, command, Next, Ops
<1>3. CASE CallStep
  BY <1>3 DEF CallStep, Next
<1>4. CASE \/ \E r \in Readers, k \in Chips : insert_chip(r, k)
           \/ \E r \in Readers : disturbance(r)
           \/ restart_of_service
  BY <1>4 DEF insert_chip, disturbance, restart_of_service, Next
<1> QED BY <1>1, <1>2, <1>3, <1>4 DEF NextAnnouncements

(* get_reader_info and the commands use the map of connections as its own   *)
(* specification allows: what holds of it holds in the whole client.        *)
THEOREM ComposedConnections == SpecAnnouncements => Spec
<1>1. InitAnnouncements => Init
  BY DEF InitAnnouncements
<1>2. [NextAnnouncements]_allVars => [Next]_vars
  BY ConnectionsStep
<1> QED BY <1>1, <1>2, PTL DEF SpecAnnouncements, Spec

----------------------------------------------------------------------------
(* What the announcements know of the cards.                                *)

(* A step of a call keeps what the call is for, and get_atr succeeds only   *)
(* with the card it asks in the reader.                                     *)
LEMMA CallStepEffect ==
    ASSUME TypeOK, CodeStep
    PROVE  /\ call # NoCall /\ call \in Calls /\ call' \in Calls /\ call' # NoCall
           /\ call'.reader = call.reader /\ call'.op = call.op
           /\ \A r \in Readers : card'[r].present = card[r].present
           /\ call.op = "atr" /\ call'.step = "done" /\ call'.outcome = "ok" =>
                 At("use") /\ card[call.reader].present
<1>c. \A c \in Calls : c # NoCall
  BY CallMade
<1>f. call # NoCall => call \in Calls
  BY CallFields
<1>1. CASE get_or_connect
  BY <1>c, <1>f, <1>1, LookupEffect DEF Calls
<1>2. CASE connect_with_retry
  <2>1. call # NoCall /\ call' \in Calls /\ UNCHANGED card /\ call.step = "connect"
    BY <1>2, ConnectEffect
  <2>2. CASE \E e \in {"failed", "no_card"} : Fails(call, e)
    BY <1>c, <1>f, <2>1, <2>2, FailsEffect
  <2>3. CASE ~ \E e \in {"failed", "no_card"} : Fails(call, e)
    BY <1>c, <1>f, <1>2, <2>1, <2>3, ConnectEffect DEF Calls
  <2> QED BY <2>2, <2>3
<1>3. CASE \E x \in Exchanges : try_transmit(x)
  <2>1. /\ call # NoCall /\ call \in Calls /\ call' \in Calls /\ call.op # "atr"
        /\ \A r \in Readers : card'[r].present = card[r].present
    BY <1>f, <1>3, TransmitEffect
  <2>2. call'.reader = call.reader /\ call'.op = call.op
    <3>1. CASE Refuses(call)
      BY <2>1, <3>1, RefusesEffect
    <3>2. CASE call' = [call EXCEPT !.runs = call.runs + 1, !.step = "done",
                                    !.outcome = call'.outcome]
      BY <2>1, <3>2 DEF Calls
    <3>3. CASE Fails([call EXCEPT !.runs = call.runs + 1, !.disturbed = TRUE], "failed")
      <4>1. \A n \in Nat : /\ [call EXCEPT !.runs = n, !.disturbed = TRUE] \in Calls
                           /\ [call EXCEPT !.runs = n, !.disturbed = TRUE].op = call.op
                           /\ [call EXCEPT !.runs = n, !.disturbed = TRUE].reader = call.reader
        BY <2>1 DEF Calls
      <4>2. call.runs + 1 \in Nat
        BY <2>1, CallFields
      <4> QED BY <3>3, <4>1, <4>2, FailsEffect
    <3> QED BY <1>3, <3>1, <3>2, <3>3, TransmitEffect
  <2> QED BY <1>c, <2>1, <2>2
<1>4. CASE disconnect
  <2>1. call'.step = "lookup" /\ call'.reader = call.reader /\ call'.op = call.op
    BY <1>f, <1>4, DisconnectEffect DEF Calls
  <2> QED BY <1>c, <1>f, <1>4, <2>1, DisconnectEffect
<1>5. CASE get_atr
  <2>1. call # NoCall /\ call \in Calls /\ call' \in Calls /\ UNCHANGED card
        /\ call.step = "use"
    BY <1>f, <1>5, AtrEffect
  <2>2. CASE Fails(call, "failed")
    BY <1>c, <2>1, <2>2, FailsEffect
  <2>3. CASE ~Stale(call.reader) /\ call' = [call EXCEPT !.step = "done", !.outcome = "ok"]
    <3>1. call'.reader = call.reader /\ call'.op = call.op
      BY <2>1, <2>3 DEF Calls
    <3>2. card[call.reader].present
      BY <2>3 DEF Stale
    <3> QED BY <1>c, <2>1, <3>1, <3>2 DEF At
  <2> QED BY <1>5, <2>2, <2>3 DEF get_atr
<1> QED BY <1>1, <1>2, <1>3, <1>4, <1>5 DEF CodeStep

(* The environment puts no card into a reader but by insert.                *)
LEMMA EnvPresent ==
    ASSUME TypeOK, EnvStep, NEW r \in Readers, card'[r].present, ~insert(r)
    PROVE  card[r].present
<1>t. card \in [Readers -> Cards] /\ card[r] \in Cards
  BY DEF TypeOK
<1>r. \A x \in Readers : Reset(card[x]).present = card[x].present
  BY <1>t DEF Reset, Cards
<1>1. ASSUME NEW x \in Readers, insert(x) \/ remove(x) \/ reset_by_other(x)
      PROVE  card[r].present
  <2>1. CASE x # r
    BY <1>t, <1>1, <2>1 DEF insert, remove, reset_by_other
  <2>2. CASE x = r
    BY <1>t, <1>1, <2>2 DEF remove, reset_by_other
  <2> QED BY <2>1, <2>2
<1>2. ASSUME NEW x \in Readers, NEW a \in Accesses, access_changes(x, a)
      PROVE  card[r].present
  BY <1>t, <1>r, <1>2 DEF access_changes
<1>3. ASSUME service_restarts PROVE card[r].present
  BY <1>t, <1>r, <1>3 DEF service_restarts
<1> QED BY <1>1, <1>2, <1>3 DEF EnvStep

(* Every step keeps the types. *)
LEMMA AnnouncementsTypeStep ==
    ASSUME AnnouncementsTypeOK, WaitsForAtr, [NextAnnouncements]_allVars
    PROVE  AnnouncementsTypeOK'
<1> USE DEF announceVars
<1>0. TypeOK'
  BY ConnectionsStep, TypeStep DEF AnnouncementsTypeOK
<1>t. /\ TypeOK
      /\ chip \in [Readers -> Chips]
      /\ stage \in {"away", "listing", "connected"}
      /\ todo \subseteq Readers /\ asking \subseteq Readers
      /\ atr \in Chips \cup {NoAtr}
      /\ announced \in [Readers -> Announcements]
      /\ served \subseteq Readers
      /\ connections \in 0 .. MaxConnections
      /\ seen \in [Readers -> SUBSET Chips]
      /\ calm \subseteq Readers
  BY DEF AnnouncementsTypeOK
<1>1. ASSUME NEW ok \in BOOLEAN, list_readers(ok) PROVE AnnouncementsTypeOK'
  <2>1. connections' \in 0 .. MaxConnections
    BY <1>t, <1>1, AnnouncementAssumption DEF list_readers
  <2>2. announced' \in [Readers -> Announcements]
    BY <1>1 DEF list_readers, Announcements, NotListed
  <2>3. seen' \in [Readers -> SUBSET Chips]
    <3>1. \A r \in Readers : (IF card[r].present THEN {chip[r]} ELSE {}) \in SUBSET Chips
      BY <1>t
    <3> QED BY <1>1, <3>1 DEF list_readers
  <2>4. todo' \subseteq Readers /\ calm' \subseteq Readers
    BY <1>1 DEF list_readers
  <2> QED BY <1>0, <1>t, <1>1, <2>1, <2>2, <2>3, <2>4 DEF list_readers, AnnouncementsTypeOK
<1>2. ASSUME NEW r \in Readers, ask_next(r) PROVE AnnouncementsTypeOK'
  BY <1>0, <1>t, <1>2 DEF ask_next, AnnouncementsTypeOK
<1>3. ASSUME NEW r \in Readers, reader_info(r) PROVE AnnouncementsTypeOK'
  <2>1. (call.outcome = "ok") \in BOOLEAN
    OBVIOUS
  <2>2. [listed |-> TRUE, card_present |-> call.outcome = "ok", atr |-> atr] \in Announcements
    BY <1>t, <2>1 DEF Announcements
  <2> QED BY <1>0, <1>t, <1>3, <2>2 DEF reader_info, AnnouncementsTypeOK
<1>4. CASE register_readers \/ connection_lost \/ UNCHANGED allVars
  BY <1>0, <1>t, <1>4 DEF register_readers, connection_lost, allVars, AnnouncementsTypeOK
<1>5. ASSUME NEW op \in Ops, NEW r \in Readers, command(op, r) PROVE AnnouncementsTypeOK'
  BY <1>0, <1>t, <1>5 DEF command, AnnouncementsTypeOK
<1>6. CASE CallStep
  <2>1. call.reader \in Readers
    BY <1>t, <1>6, CallStepEffect, CallFields DEF CallStep
  <2> QED BY <1>0, <1>t, <1>6, <2>1 DEF CallStep, AnnouncementsTypeOK
<1>7. ASSUME NEW r \in Readers, NEW k \in Chips, insert_chip(r, k) PROVE AnnouncementsTypeOK'
  BY <1>0, <1>t, <1>7 DEF insert_chip, AnnouncementsTypeOK
<1>8. ASSUME NEW r \in Readers, disturbance(r) PROVE AnnouncementsTypeOK'
  BY <1>0, <1>t, <1>8 DEF disturbance, AnnouncementsTypeOK
<1>9. CASE restart_of_service
  BY <1>0, <1>t, <1>9 DEF restart_of_service, AnnouncementsTypeOK
<1> QED BY <1>1, <1>2, <1>3, <1>4, <1>5, <1>6, <1>7, <1>8, <1>9 DEF NextAnnouncements

(* Steps of cards and other applications.                                   *)
EnvAnnouncements ==
    \/ \E r \in Readers, k \in Chips : insert_chip(r, k)
    \/ \E r \in Readers : disturbance(r)
    \/ restart_of_service

(* The environment adds to what has been seen, and every card it inserts.   *)
LEMMA EnvAnnouncementsEffect ==
    ASSUME AnnouncementsTypeOK, EnvAnnouncements
    PROVE  /\ EnvStep
           /\ UNCHANGED <<stage, todo, asking, atr, announced, served, connections>>
           /\ \A r \in Readers : seen[r] \subseteq seen'[r]
           /\ \A r \in Readers : \/ insert(r) /\ chip'[r] \in seen'[r]
                                 \/ ~insert(r) /\ chip'[r] = chip[r]
<1>t. /\ chip \in [Readers -> Chips] /\ seen \in [Readers -> SUBSET Chips]
      /\ TypeOK /\ card \in [Readers -> Cards]
  BY DEF AnnouncementsTypeOK, TypeOK
<1>n. ASSUME NEW x \in Readers, card'[x].present = FALSE \/ card'[x] = card[x] \/ card[x].present
      PROVE  ~insert(x)
  <2> SUFFICES ASSUME insert(x) PROVE FALSE
    OBVIOUS
  <2>1. Reset(card[x]) \in Cards /\ card[x] \in Cards
    BY <1>t, CardOps
  <2>2. ~card[x].present /\ card'[x] = [Reset(card[x]) EXCEPT !.present = TRUE]
    BY <1>t DEF insert
  <2>3. card'[x].present = TRUE
    BY <2>1, <2>2 DEF Cards
  <2> QED BY <1>n, <2>2, <2>3
<1>1. ASSUME NEW r \in Readers, NEW k \in Chips, insert_chip(r, k)
      PROVE  /\ \A x \in Readers : seen[x] \subseteq seen'[x]
             /\ \A x \in Readers : \/ insert(x) /\ chip'[x] \in seen'[x]
                                   \/ ~insert(x) /\ chip'[x] = chip[x]
  <2>1. /\ insert(r) /\ chip' = [chip EXCEPT ![r] = k]
        /\ seen' = [seen EXCEPT ![r] = @ \cup {k}]
    BY <1>1 DEF insert_chip
  <2>2. \A x \in Readers \ {r} : card'[x] = card[x]
    BY <1>t, <2>1 DEF insert
  <2> QED BY <1>t, <1>n, <2>1, <2>2
<1>2. ASSUME NEW r \in Readers, disturbance(r)
      PROVE  UNCHANGED <<chip, seen>> /\ \A x \in Readers : ~insert(x)
  <2>1. UNCHANGED <<chip, seen>>
    BY <1>2 DEF disturbance
  <2>2. \/ remove(r) \/ reset_by_other(r)
        \/ \E a \in Accesses : access_changes(r, a)
    BY <1>2 DEF disturbance
  <2>3. \A x \in Readers \ {r} : card'[x] = card[x]
    BY <1>t, <2>2 DEF remove, reset_by_other, access_changes
  <2>4. card[r].present \/ card'[r] = card[r] \/ card'[r].present = FALSE
    <3>1. card[r] \in Cards /\ Reset(card[r]).present = card[r].present
      BY <1>t DEF Reset, Cards
    <3>2. ASSUME NEW a \in Accesses, access_changes(r, a)
          PROVE  card[r].present \/ card'[r] = card[r] \/ card'[r].present = FALSE
      BY <1>t, <3>1, <3>2 DEF access_changes, Cards
    <3> QED BY <2>2, <3>2 DEF remove, reset_by_other
  <2> QED BY <1>n, <2>1, <2>3, <2>4
<1>3. ASSUME restart_of_service
      PROVE  UNCHANGED <<chip, seen>> /\ \A x \in Readers : ~insert(x)
  <2>1. UNCHANGED <<chip, seen>> /\ card' = [x \in Readers |-> Reset(card[x])]
    BY <1>3 DEF restart_of_service, service_restarts
  <2>2. ASSUME NEW x \in Readers
        PROVE  card[x].present \/ card'[x].present = FALSE
    <3>1. card[x] \in Cards /\ Reset(card[x]).present = card[x].present
      BY <1>t DEF Reset, Cards
    <3> QED BY <2>1, <3>1 DEF Cards
  <2> QED BY <1>n, <2>1, <2>2
<1>4. EnvStep /\ UNCHANGED <<stage, todo, asking, atr, announced, served, connections>>
  BY DEF EnvAnnouncements, insert_chip, disturbance, restart_of_service, EnvStep
<1> QED BY <1>1, <1>2, <1>3, <1>4 DEF EnvAnnouncements

(* get_reader_info's call is the one that holds the Mutex until it has      *)
(* taken its outcome.                                                       *)
LEMMA WaitsForAtrStep ==
    ASSUME AnnouncementsTypeOK, WaitsForAtr, [NextAnnouncements]_allVars
    PROVE  WaitsForAtr'
<1> USE DEF announceVars
<1>t. TypeOK /\ connections \in Nat
  BY DEF AnnouncementsTypeOK
<1>1. ASSUME NEW ok \in BOOLEAN, list_readers(ok) PROVE WaitsForAtr'
  BY <1>t, <1>1 DEF list_readers, WaitsForAtr
<1>2. ASSUME NEW r \in Readers, ask_next(r) PROVE WaitsForAtr'
  <2>1. start_call("atr", r) \/ no_context("atr", r)
    BY <1>2 DEF ask_next
  <2>2. call' # NoCall /\ call'.reader = r
    BY <1>t, <2>1, StartEffect DEF Ops
  <2>3. call'.op = "atr"
    BY <2>1 DEF start_call, no_context
  <2> QED BY <1>2, <2>2, <2>3 DEF ask_next, WaitsForAtr
<1>3. CASE \/ \E r \in Readers : reader_info(r)
           \/ register_readers
           \/ connection_lost
           \/ \E op \in Ops, r \in Readers : command(op, r)
           \/ UNCHANGED allVars
  BY <1>3 DEF reader_info, register_readers, connection_lost, command, WaitsForAtr,
     allVars, vars
<1>4. CASE CallStep
  BY <1>t, <1>4, CallStepEffect DEF CallStep, WaitsForAtr
<1>5. CASE EnvAnnouncements
  BY <1>t, <1>5, EnvAnnouncementsEffect, EnvEffect DEF WaitsForAtr, SameCall
<1> QED BY <1>1, <1>2, <1>3, <1>4, <1>5 DEF NextAnnouncements, EnvAnnouncements

(* What is in a reader was there when get_reader_info began, or came since. *)
LEMMA CardsSeenStep ==
    ASSUME AnnouncementsTypeOK, CardsSeen, [NextAnnouncements]_allVars
    PROVE  CardsSeen'
<1> USE DEF announceVars
<1>t. TypeOK
  BY DEF AnnouncementsTypeOK
<1>1. ASSUME NEW ok \in BOOLEAN, list_readers(ok) PROVE CardsSeen'
  BY <1>1 DEF list_readers, CardsSeen, vars
<1>2. CASE \/ \E r \in Readers : ask_next(r) \/ reader_info(r)
           \/ register_readers
           \/ connection_lost
           \/ \E op \in Ops, r \in Readers : command(op, r)
           \/ UNCHANGED allVars
  <2>1. UNCHANGED <<card, chip, seen, connections>>
    BY <1>2 DEF ask_next, reader_info, register_readers, connection_lost, command,
       start_call, no_context, allVars, vars
  <2> QED BY <2>1 DEF CardsSeen
<1>3. CASE CallStep
  BY <1>t, <1>3, CallStepEffect DEF CallStep, CardsSeen
<1>4. CASE EnvAnnouncements
  <2>1. \A r \in Readers : card'[r].present /\ ~insert(r) => card[r].present
    BY <1>t, <1>4, EnvAnnouncementsEffect, EnvPresent
  <2> QED BY <1>4, <2>1, EnvAnnouncementsEffect DEF CardsSeen
<1> QED BY <1>1, <1>2, <1>3, <1>4 DEF NextAnnouncements, EnvAnnouncements

(* get_atr reads the ATR of the card that is in the reader at that moment.  *)
LEMMA AtrSeenStep ==
    ASSUME AnnouncementsTypeOK, CardsSeen, WaitsForAtr, AtrSeen,
           [NextAnnouncements]_allVars
    PROVE  AtrSeen'
<1> USE DEF announceVars
<1>t. TypeOK
  BY DEF AnnouncementsTypeOK
<1>1. ASSUME NEW ok \in BOOLEAN, list_readers(ok) PROVE AtrSeen'
  <2>1. asking' = {}
    BY <1>1 DEF list_readers, WaitsForAtr
  <2> QED BY <2>1 DEF AtrSeen
<1>2. ASSUME NEW r \in Readers, ask_next(r) PROVE AtrSeen'
  <2>1. call'.step = "lookup" \/ call'.outcome = "failed"
    BY <1>2 DEF ask_next, start_call, no_context
  <2> QED BY <2>1 DEF AtrSeen, At
<1>3. ASSUME NEW r \in Readers, reader_info(r) PROVE AtrSeen'
  BY <1>3 DEF reader_info, AtrSeen
<1>4. ASSUME NEW op \in Ops, NEW r \in Readers, command(op, r) PROVE AtrSeen'
  BY <1>4 DEF command, AtrSeen
<1>5. CASE register_readers \/ connection_lost \/ UNCHANGED allVars
  BY <1>5 DEF register_readers, connection_lost, AtrSeen, At, allVars, vars
<1>6. CASE CallStep
  <2> SUFFICES ASSUME asking' # {}, At("done")', call'.outcome = "ok"
               PROVE  atr' \in seen'[call'.reader]
    BY DEF AtrSeen
  <2>1. asking # {} /\ call.op = "atr" /\ connections > 0 /\ UNCHANGED <<chip, seen>>
    BY <1>6 DEF CallStep, WaitsForAtr
  <2>2. /\ At("use") /\ card[call.reader].present
        /\ call'.reader = call.reader /\ call.reader \in Readers
    BY <1>t, <1>6, <2>1, CallStepEffect, CallFields DEF CallStep, At
  <2>3. atr' = chip[call.reader]
    BY <1>6, <2>1, <2>2 DEF CallStep
  <2> QED BY <2>1, <2>2, <2>3 DEF CardsSeen
<1>7. CASE EnvAnnouncements
  <2>1. /\ UNCHANGED <<asking, atr>>
        /\ \A r \in Readers : seen[r] \subseteq seen'[r]
        /\ call = NoCall <=> call' = NoCall
        /\ call # NoCall => SameCall /\ call.reader \in Readers
    BY <1>t, <1>7, EnvAnnouncementsEffect, EnvEffect, CallFields
  <2> QED BY <2>1 DEF AtrSeen, At, SameCall
<1> QED BY <1>1, <1>2, <1>3, <1>4, <1>5, <1>6, <1>7
        DEF NextAnnouncements, EnvAnnouncements

(* Only the outcome of a get_atr is announced. *)
LEMMA AnnouncedStep ==
    ASSUME AnnouncementsTypeOK, WaitsForAtr, AtrSeen, AnnouncedCardsWereThere,
           [NextAnnouncements]_allVars
    PROVE  AnnouncedCardsWereThere'
<1> USE DEF announceVars
<1>t. announced \in [Readers -> Announcements]
  BY DEF AnnouncementsTypeOK
<1>1. ASSUME NEW ok \in BOOLEAN, list_readers(ok) PROVE AnnouncedCardsWereThere'
  BY <1>1 DEF list_readers, NotListed, AnnouncedCardsWereThere
<1>2. ASSUME NEW r \in Readers, reader_info(r) PROVE AnnouncedCardsWereThere'
  <2>1. /\ announced' = [announced EXCEPT ![r] =
              [listed |-> TRUE, card_present |-> call.outcome = "ok", atr |-> atr]]
        /\ UNCHANGED seen /\ r \in asking /\ At("done")
    BY <1>2 DEF reader_info
  <2>2. r = call.reader
    BY <2>1 DEF WaitsForAtr
  <2>3. call.outcome = "ok" => atr \in seen[r]
    BY <2>1, <2>2 DEF AtrSeen
  <2> QED BY <1>t, <2>1, <2>3 DEF AnnouncedCardsWereThere
<1>3. CASE \/ \E r \in Readers : ask_next(r)
           \/ register_readers
           \/ connection_lost
           \/ \E op \in Ops, r \in Readers : command(op, r)
           \/ CallStep
           \/ UNCHANGED allVars
  <2>1. UNCHANGED <<announced, seen>>
    BY <1>3 DEF ask_next, register_readers, connection_lost, command, CallStep, allVars
  <2> QED BY <2>1 DEF AnnouncedCardsWereThere
<1>4. CASE EnvAnnouncements
  BY <1>4, EnvAnnouncementsEffect DEF AnnouncedCardsWereThere
<1> QED BY <1>1, <1>2, <1>3, <1>4 DEF NextAnnouncements, EnvAnnouncements

----------------------------------------------------------------------------
(* The theorems.                                                            *)

(* The inductive invariant of the composition holds in every reachable state*)
LEMMA AnnouncementsInvariance == SpecAnnouncements => []AInv
<1>1. InitAnnouncements => AInv
  <2> SUFFICES ASSUME InitAnnouncements PROVE AInv
    OBVIOUS
  <2>1. TypeOK
    BY InitInvariant DEF InitAnnouncements, IInv
  <2>2. AnnouncementsTypeOK
    BY <2>1, AnnouncementAssumption
       DEF InitAnnouncements, AnnouncementsTypeOK, Announcements, NotListed
  <2> QED BY <2>2, AnnouncementAssumption
          DEF InitAnnouncements, AInv, CardsSeen, WaitsForAtr, AtrSeen,
              AnnouncedCardsWereThere, NotListed
<1>2. AInv /\ [NextAnnouncements]_allVars => AInv'
  BY AnnouncementsTypeStep, CardsSeenStep, WaitsForAtrStep, AtrSeenStep, AnnouncedStep
     DEF AInv
<1> QED BY <1>1, <1>2, PTL DEF SpecAnnouncements

(* What run_connection keeps of readers, cards and vpcd clients always has  *)
(* its type, whatever interrupts get_reader_info.                           *)
THEOREM AnnouncementsTypeCorrect == SpecAnnouncements => []AnnouncementsTypeOK
<1>1. AInv => AnnouncementsTypeOK
  BY DEF AInv
<1> QED BY <1>1, AnnouncementsInvariance, PTL

(* get_reader_info announces a card only if that card was in the reader at  *)
(* some time since it began: the ATRs the server answers vpcd with are never*)
(* those of a connection to a card of long ago.                             *)
THEOREM AnnouncementsTrue == SpecAnnouncements => []AnnouncedCardsWereThere
<1>1. AInv => AnnouncedCardsWereThere
  BY DEF AInv
<1> QED BY <1>1, AnnouncementsInvariance, PTL

(* In the whole client, too, transmit heals the map, runs no APDU too often *)
(* and resets no card without a cause.                                      *)
THEOREM ComposedTransmits ==
    SpecAnnouncements => []UndisturbedTransmitSucceeds /\ []RunTwiceAtMost /\ ResetForCause
  BY ComposedConnections, UndisturbedTransmits, RunsTwiceAtMost, ResetsForCause, PTL

=============================================================================
