------------------------ MODULE CardConnectionsProofs ------------------------
(***************************************************************************)
(* Proofs about CardConnections: whatever cards and other applications do,  *)
(* and however many calls there are, transmit runs an APDU as often as it   *)
(* should, heals the map of connections, and resets no card without a cause.*)
(*                                                                          *)
(* The inductive invariant says what is known in the middle of a call: how  *)
(* often the card can have run the APDU (RunsCounted), what is left of the  *)
(* connection on file (OnFile), and that a call nothing has interfered with *)
(* finds the reader as it was when it started (Calm).                       *)
(***************************************************************************)
EXTENDS CardConnections, TLAPS

(* Until try_transmit is called again the card has run the APDU at most     *)
(* once, and it has run it in a call that goes on only if the reply got     *)
(* lost.                                                                    *)
RunsCounted ==
    call # NoCall =>
        /\ call.runs <= IF call.step = "done" THEN 2 ELSE 1
        /\ ~call.again /\ call.step \in {"lookup", "connect", "use"} => call.runs = 0
        /\ ~call.again => call.runs <= 1
        /\ call.runs = 1 /\ call.step # "done" => call.disturbed
        /\ call.runs = 2 => call.disturbed

(* A call connects only when there is no connection on file: never was, or  *)
(* given up; and only the first try_transmit of a call gives one up.        *)
OnFile ==
    call # NoCall =>
        /\ call.step = "connect" => ~Connected(call.reader)
        /\ call.step = "lookup" /\ call.again => ~Connected(call.reader)
        /\ call.step = "disconnect" => ~call.again /\ call.op # "atr"

(* With nothing interfering, a call that goes on has the reader to itself,  *)
(* gives up a connection only if it is stale or its APDU was refused, and   *)
(* has a new one once it uses the card again; and it can fail only without  *)
(* a card, or with an APDU that was refused.                                *)
Calm ==
    call # NoCall /\ ~call.disturbed =>
        /\ call.step # "done" =>
              Open(call.reader) /\ call.absent = ~card[call.reader].present
        /\ call.step = "disconnect" =>
              ~Connected(call.reader) \/ Stale(call.reader) \/ call.refused
        /\ call.step = "use" /\ call.again => ~Stale(call.reader)
        /\ call.step = "done" /\ call.op # "atr" /\ ~call.absent /\ ~call.refused =>
              call.outcome \in {"ok", "ok_unselected"} /\ call.runs = 1

IInv == TypeOK /\ RunsCounted /\ OnFile /\ Calm

----------------------------------------------------------------------------
(* Types.                                                                   *)

(* What the environment does: a call goes on as it was, and if anything of  *)
(* its reader or of the service changed, the call knows.                    *)
EnvStep ==
    \/ \E r \in Readers : insert(r) \/ remove(r) \/ reset_by_other(r)
    \/ \E r \in Readers, a \in Accesses : access_changes(r, a)
    \/ service_restarts

SameCall ==
    /\ call'.op = call.op /\ call'.reader = call.reader /\ call'.step = call.step
    /\ call'.attempt = call.attempt /\ call'.again = call.again
    /\ call'.runs = call.runs /\ call'.refused = call.refused
    /\ call'.outcome = call.outcome

(* The fields of a call, and a call that differs in some of them.           *)
LEMMA CallFields ==
    ASSUME TypeOK, call # NoCall
    PROVE  /\ call \in Calls
           /\ call.op \in Ops /\ call.reader \in Readers /\ call.attempt \in 1 .. MaxRetries
           /\ call.again \in BOOLEAN /\ call.runs \in Nat
           /\ call.disturbed \in BOOLEAN /\ call.absent \in BOOLEAN
           /\ call.refused \in BOOLEAN
           /\ card[call.reader] \in Cards
  BY DEF TypeOK, Calls

(* A record that is a call is not NoCall. *)
LEMMA CallMade ==
    ASSUME NEW c \in Calls
    PROVE  c # NoCall
  BY DEF Calls, NoCall, Ops

(* Disturb keeps the type of the call, and all of it but two fields. *)
LEMMA DisturbEffect ==
    ASSUME TypeOK, NEW S \in SUBSET Readers, Disturb(S), card' \in [Readers -> Cards]
    PROVE  /\ call' \in Calls \cup {NoCall}
           /\ events' \in Nat /\ events' # events
           /\ UNCHANGED <<handle, believes, calls>>
           /\ call = NoCall <=> call' = NoCall
           /\ call # NoCall => SameCall
           /\ call # NoCall /\ call.reader \in S => call'.disturbed
           /\ call # NoCall /\ call.reader \notin S => call' = call
<1>1. /\ events' = events + 1 /\ events \in Nat
      /\ UNCHANGED <<handle, believes, calls>>
  BY DEF Disturb, TypeOK
<1>2. CASE call # NoCall /\ call.reader \in S
  <2>1. call \in Calls /\ call.reader \in Readers /\ card'[call.reader] \in Cards
    BY <1>2, CallFields DEF Calls
  <2>2. PICK b \in BOOLEAN :
          call' = [call EXCEPT !.disturbed = TRUE, !.absent = b]
    BY <1>2, <2>1 DEF Disturb, Calls, Cards
  <2>3. call' \in Calls /\ call'.disturbed /\ SameCall
    BY <2>1, <2>2 DEF Calls, SameCall
  <2> QED BY <1>1, <1>2, <2>3, CallMade
<1>3. CASE ~(call # NoCall /\ call.reader \in S)
  <2>1. call' = call
    BY <1>3 DEF Disturb
  <2> QED BY <1>1, <1>3, <2>1 DEF SameCall, TypeOK
<1> QED BY <1>2, <1>3

(* What becomes of a card is a card. *)
LEMMA CardOps ==
    ASSUME NEW c \in Cards, NEW b \in BOOLEAN
    PROVE  /\ Reset(c) \in Cards
           /\ [c EXCEPT !.present = b] \in Cards
           /\ [c EXCEPT !.selected = b] \in Cards
<1>1. c.up \in Nat
  BY DEF Cards
<1>2. c.up + 1 \in Nat
  BY <1>1
<1>3. \A n \in Nat : [c EXCEPT !.up = n, !.selected = FALSE] \in Cards
  BY DEF Cards
<1> QED BY <1>2, <1>3 DEF Cards, Reset

(* The environment moves. *)
LEMMA EnvEffect ==
    ASSUME TypeOK, EnvStep
    PROVE  /\ TypeOK'
           /\ handle' = handle /\ events' # events
           /\ call = NoCall <=> call' = NoCall
           /\ call # NoCall => SameCall
           /\ call # NoCall =>
                \/ call'.disturbed
                \/ /\ call' = call /\ manager' = manager
                   /\ access'[call.reader] = access[call.reader]
                   /\ card'[call.reader] = card[call.reader]
<1>t. /\ card \in [Readers -> Cards] /\ access \in [Readers -> Accesses]
      /\ manager \in {"none", "valid", "stopped"}
  BY DEF TypeOK
<1>r. \A r \in Readers : Reset(card[r]) \in Cards
  BY <1>t, CardOps
<1>1. ASSUME NEW r \in Readers, insert(r) \/ remove(r) \/ reset_by_other(r)
      PROVE  /\ card' \in [Readers -> Cards] /\ UNCHANGED <<manager, access>>
             /\ Disturb({r})
             /\ \A x \in Readers \ {r} : card'[x] = card[x]
  <2>1. PICK c \in Cards : card' = [card EXCEPT ![r] = c]
    <3>1. CASE insert(r)
      <4>1. [Reset(card[r]) EXCEPT !.present = TRUE] \in Cards
        BY <1>r, CardOps
      <4> QED BY <3>1, <4>1 DEF insert
    <3>2. CASE remove(r)
      <4>1. card' = [card EXCEPT ![r] = [[card[r] EXCEPT !.present = FALSE]
                                            EXCEPT !.selected = FALSE]]
        BY <1>t, <3>2 DEF remove
      <4>2. [card[r] EXCEPT !.present = FALSE] \in Cards
        BY <1>t, CardOps
      <4> QED BY <4>1, <4>2, CardOps
    <3>3. CASE reset_by_other(r)
      BY <1>r, <3>3 DEF reset_by_other
    <3> QED BY <1>1, <3>1, <3>2, <3>3
  <2> QED BY <1>t, <1>1, <2>1 DEF insert, remove, reset_by_other
<1>2. ASSUME NEW r \in Readers, NEW a \in Accesses, access_changes(r, a)
      PROVE  /\ card' \in [Readers -> Cards] /\ manager' = manager
             /\ access' \in [Readers -> Accesses]
             /\ Disturb({r})
             /\ \A x \in Readers \ {r} : card'[x] = card[x] /\ access'[x] = access[x]
  BY <1>t, <1>r, <1>2 DEF access_changes
<1>3. ASSUME service_restarts
      PROVE  /\ card' \in [Readers -> Cards] /\ access' = access
             /\ manager' \in {"none", "valid", "stopped"}
             /\ Disturb(Readers)
  BY <1>t, <1>r, <1>3 DEF service_restarts
<1>4. PICK S \in SUBSET Readers :
        /\ card' \in [Readers -> Cards] /\ access' \in [Readers -> Accesses]
        /\ manager' \in {"none", "valid", "stopped"}
        /\ Disturb(S)
        /\ S # Readers => manager' = manager
        /\ \A x \in Readers \ S : card'[x] = card[x] /\ access'[x] = access[x]
  BY <1>t, <1>1, <1>2, <1>3 DEF EnvStep
<1>5. /\ call' \in Calls \cup {NoCall}
      /\ events' \in Nat /\ events' # events
      /\ UNCHANGED <<handle, believes, calls>>
      /\ call = NoCall <=> call' = NoCall
      /\ call # NoCall => SameCall
      /\ call # NoCall /\ call.reader \in S => call'.disturbed
      /\ call # NoCall /\ call.reader \notin S => call' = call
  BY <1>4, DisturbEffect
<1>6. TypeOK'
  BY <1>4, <1>5 DEF TypeOK
<1>7. call # NoCall => call.reader \in Readers
  BY CallFields
<1> QED BY <1>4, <1>5, <1>6, <1>7

(* A failing step of a call ends it or gives its connection up. *)
LEMMA FailsEffect ==
    ASSUME NEW c \in Calls, NEW e \in {"failed", "no_card"}, Fails(c, e)
    PROVE  /\ call' \in Calls /\ call' # NoCall
           /\ call'.op = c.op /\ call'.reader = c.reader /\ call'.again = c.again
           /\ call'.runs = c.runs /\ call'.disturbed = c.disturbed
           /\ call'.absent = c.absent /\ call'.refused = c.refused
           /\ \/ call'.step = "disconnect" /\ ~c.again /\ c.op # "atr"
              \/ call'.step = "done" /\ (c.again \/ c.op = "atr") /\ call'.outcome = e
<1>1. call' \in Calls
  BY DEF Fails, Calls
<1> QED BY <1>1, CallMade DEF Fails, Calls

(* A new call, or one that fails without a manager. *)
LEMMA StartEffect ==
    ASSUME TypeOK, NEW op \in Ops, NEW r \in Readers, start_call(op, r) \/ no_context(op, r)
    PROVE  /\ TypeOK'
           /\ call' \in Calls /\ call' # NoCall /\ call'.reader = r
           /\ ~call'.again /\ call'.runs = 0
           /\ UNCHANGED <<card, access, handle, events>>
           /\ call'.absent = ~card[r].present
           /\ \/ /\ call'.step = "lookup"
                 /\ ~call'.disturbed => Open(r)'
              \/ call'.step = "done" /\ call'.disturbed
<1>t. /\ manager \in {"none", "valid", "stopped"} /\ believes \in [Readers -> BOOLEAN]
      /\ calls \in Nat /\ card \in [Readers -> Cards] /\ access \in [Readers -> Accesses]
      /\ call \in Calls \cup {NoCall}
  BY DEF TypeOK
<1>m. 1 \in 1 .. MaxRetries
  BY CardAssumption
<1>p. (~card[r].present) \in BOOLEAN
  OBVIOUS
<1>1. CASE start_call(op, r)
  <2>1. /\ call' = [op |-> op, reader |-> r, step |-> "lookup", attempt |-> 1,
                    again |-> FALSE, runs |-> 0,
                    disturbed |-> access[r] # "shared" \/ manager = "stopped",
                    refused |-> FALSE, absent |-> ~card[r].present, outcome |-> "none"]
        /\ calls' = calls + 1
        /\ manager' = IF manager = "none" THEN "valid" ELSE manager
        /\ UNCHANGED <<card, access, handle, events>>
    BY <1>1 DEF start_call
  <2>2. call' \in Calls
    BY <1>m, <1>p, <2>1 DEF Calls
  <2>3. believes' \in [Readers -> BOOLEAN]
    <3>1. \/ believes' = believes
          \/ \E x, b : believes' = [believes EXCEPT ![x] = b] /\ b \in BOOLEAN
      <4>1. CASE call = NoCall \/ call.op = "atr"
        BY <1>1, <4>1 DEF start_call
      <4>2. CASE ~(call = NoCall \/ call.op = "atr")
        <5> DEFINE b == call.outcome = "ok" /\ (call.op = "select" \/ believes[call.reader])
        <5>1. believes' = [believes EXCEPT ![call.reader] = b]
          BY <1>1, <4>2 DEF start_call
        <5>2. believes[call.reader] \in BOOLEAN
          BY <1>t, <4>2 DEF Calls
        <5>3. b \in BOOLEAN
          BY <5>2
        <5> HIDE DEF b
        <5> QED BY <5>1, <5>3
      <4> QED BY <4>1, <4>2
    <3> QED BY <1>t, <3>1
  <2>4. TypeOK'
    BY <1>t, <2>1, <2>2, <2>3 DEF TypeOK
  <2>5. ~call'.disturbed => Open(r)'
    BY <1>t, <2>1 DEF Open
  <2> QED BY <2>1, <2>2, <2>4, <2>5, CallMade
<1>2. CASE no_context(op, r)
  <2>1. /\ call' = [op |-> op, reader |-> r, step |-> "done", attempt |-> 1,
                    again |-> FALSE, runs |-> 0, disturbed |-> TRUE,
                    refused |-> FALSE, absent |-> ~card[r].present, outcome |-> "failed"]
        /\ calls' = calls + 1
        /\ UNCHANGED <<manager, card, access, handle, believes, events>>
    BY <1>2 DEF no_context
  <2>2. call' \in Calls
    BY <1>m, <1>p, <2>1 DEF Calls
  <2>3. TypeOK'
    BY <1>t, <2>1, <2>2 DEF TypeOK
  <2> QED BY <2>1, <2>2, <2>3, CallMade
<1> QED BY <1>1, <1>2

(* get_or_connect: how the call is left.                                    *)
LEMMA LookupEffect ==
    ASSUME TypeOK, get_or_connect
    PROVE  /\ call # NoCall /\ call.step = "lookup"
           /\ call' \in Calls
           /\ call' = [call EXCEPT !.step = call'.step, !.attempt = 1]
           /\ call'.step = IF Connected(call.reader) THEN "use" ELSE "connect"
           /\ UNCHANGED <<manager, card, access, handle, believes, calls, events>>
<1>1. call # NoCall /\ call \in Calls /\ call.step = "lookup"
  BY CallFields DEF get_or_connect, At
<1>2. 1 \in 1 .. MaxRetries
  BY CardAssumption
<1> QED BY <1>1, <1>2 DEF get_or_connect, Calls

(* One attempt at connecting: another one, a failure, or a new connection. *)
LEMMA ConnectEffect ==
    ASSUME TypeOK, connect_with_retry
    PROVE  /\ call # NoCall /\ call.step = "connect"
           /\ call' \in Calls
           /\ UNCHANGED <<manager, card, access, believes, calls, events>>
           /\ \/ /\ \E n \in 1 .. MaxRetries : call' = [call EXCEPT !.attempt = n]
                 /\ UNCHANGED handle
              \/ /\ \E e \in {"failed", "no_card"} : Fails(call, e)
                 /\ ~Open(call.reader) \/ ~card[call.reader].present
                 /\ UNCHANGED handle
              \/ /\ Open(call.reader) /\ card[call.reader].present
                 /\ handle' = [handle EXCEPT ![call.reader] = card[call.reader].up]
                 /\ call' = [call EXCEPT !.step = "use"]
<1>1. call # NoCall /\ call \in Calls /\ call.step = "connect"
  BY CallFields DEF connect_with_retry, At
<1>2. call.attempt \in 1 .. MaxRetries
  BY <1>1 DEF Calls
<1>3. UNCHANGED <<manager, card, access, believes, calls, events>>
  BY DEF connect_with_retry
<1>4. CASE /\ call.attempt < MaxRetries
           /\ call' = [call EXCEPT !.attempt = @ + 1]
           /\ UNCHANGED handle
  <2>1. call.attempt + 1 \in 1 .. MaxRetries
    BY <1>2, <1>4, CardAssumption
  <2>2. call' = [call EXCEPT !.attempt = call.attempt + 1]
    BY <1>4
  <2>3. \A n \in 1 .. MaxRetries : [call EXCEPT !.attempt = n] \in Calls
    BY <1>1 DEF Calls
  <2> QED BY <1>1, <1>3, <1>4, <2>1, <2>2, <2>3
<1>5. CASE /\ \E e \in {"failed", "no_card"} : Fails(call, e)
           /\ ~Open(call.reader) \/ ~card[call.reader].present
           /\ UNCHANGED handle
  BY <1>1, <1>3, <1>5, FailsEffect
<1>6. CASE /\ Open(call.reader) /\ card[call.reader].present
           /\ handle' = [handle EXCEPT ![call.reader] = card[call.reader].up]
           /\ call' = [call EXCEPT !.step = "use"]
  <2>1. call' \in Calls
    BY <1>1, <1>6 DEF Calls
  <2> QED BY <1>1, <1>3, <1>6, <2>1
<1> QED BY <1>4, <1>5, <1>6 DEF connect_with_retry, NoSmartcard, Busy, Open

(* A refusal is a field of a call. *)
LEMMA RefusedCall ==
    ASSUME NEW c \in Calls, NEW b \in BOOLEAN
    PROVE  /\ [c EXCEPT !.refused = b] \in Calls
           /\ [c EXCEPT !.refused = b].op = c.op
           /\ [c EXCEPT !.refused = b].reader = c.reader
           /\ [c EXCEPT !.refused = b].again = c.again
           /\ [c EXCEPT !.refused = b].runs = c.runs
           /\ [c EXCEPT !.refused = b].disturbed = c.disturbed
           /\ [c EXCEPT !.refused = b].absent = c.absent
           /\ [c EXCEPT !.refused = b].refused = b
  BY DEF Calls

(* What a refused APDU leaves: the call ends or gives its connection up, and*)
(* knows whether the connection was one that works.                         *)
Refuses(c) ==
    \E b \in BOOLEAN : /\ b \/ Stale(c.reader) \/ ~Open(c.reader)
                       /\ Fails([c EXCEPT !.refused = b], "failed")

LEMMA RefusesEffect ==
    ASSUME NEW c \in Calls, Refuses(c)
    PROVE  /\ call' \in Calls /\ call' # NoCall
           /\ call'.op = c.op /\ call'.reader = c.reader /\ call'.again = c.again
           /\ call'.runs = c.runs /\ call'.disturbed = c.disturbed
           /\ call'.absent = c.absent
           /\ call'.refused \/ Stale(c.reader) \/ ~Open(c.reader)
           /\ \/ call'.step = "disconnect" /\ ~c.again /\ c.op # "atr"
              \/ call'.step = "done" /\ (c.again \/ c.op = "atr") /\ call'.outcome = "failed"
<1>1. PICK b \in BOOLEAN : /\ b \/ Stale(c.reader) \/ ~Open(c.reader)
                          /\ Fails([c EXCEPT !.refused = b], "failed")
  BY DEF Refuses
<1> DEFINE d == [c EXCEPT !.refused = b]
<1>2. /\ d \in Calls /\ d.op = c.op /\ d.reader = c.reader /\ d.again = c.again
      /\ d.runs = c.runs /\ d.disturbed = c.disturbed /\ d.absent = c.absent
      /\ d.refused = b
  BY RefusedCall
<1>3. Fails(d, "failed")
  BY <1>1
<1> HIDE DEF d
<1> QED BY <1>1, <1>2, <1>3, FailsEffect

(* try_transmit: a failure before or after the card ran the APDU, or the   *)
(* end of the call with the card's reply.                                   *)
LEMMA TransmitEffect ==
    ASSUME TypeOK, NEW x \in Exchanges, try_transmit(x)
    PROVE  /\ call # NoCall /\ call.step = "use" /\ call.op # "atr"
           /\ call' \in Calls
           /\ card' \in [Readers -> Cards]
           /\ \A r \in Readers : /\ card'[r].present = card[r].present
                                 /\ card'[r].up = card[r].up
           /\ events' \in Nat
           /\ UNCHANGED <<manager, access, handle, believes, calls>>
           /\ \/ Refuses(call)
              \/ /\ ~Stale(call.reader)
                 /\ call' = [call EXCEPT !.runs = call.runs + 1, !.step = "done",
                                         !.outcome = call'.outcome]
                 /\ call'.outcome \in {"ok", "ok_unselected"}
              \/ Fails([call EXCEPT !.runs = call.runs + 1, !.disturbed = TRUE], "failed")
<1>1. call # NoCall /\ call \in Calls /\ call.step = "use" /\ call.op # "atr"
  BY CallFields DEF try_transmit, At
<1>2. /\ call.reader \in Readers /\ call.runs \in Nat /\ events \in Nat
      /\ card \in [Readers -> Cards] /\ call.refused \in BOOLEAN
  BY <1>1, CallFields DEF TypeOK
<1>3. UNCHANGED <<manager, access, handle, believes, calls>>
  BY DEF try_transmit
<1>4. CASE /\ Fails([call EXCEPT !.refused = @ \/ (~Stale(call.reader) /\ Open(call.reader))],
                    "failed")
           /\ UNCHANGED <<card, events>>
  <2>1. PICK b \in BOOLEAN :
          b = (call.refused \/ (~Stale(call.reader) /\ Open(call.reader)))
    BY <1>2
  <2>2. Fails([call EXCEPT !.refused = b], "failed")
    BY <1>4, <2>1
  <2>3. Refuses(call)
    BY <2>1, <2>2 DEF Refuses
  <2>4. call' \in Calls
    BY <1>1, <2>3, RefusesEffect
  <2> QED BY <1>1, <1>2, <1>3, <1>4, <2>3, <2>4
<1>5. CASE /\ ~Stale(call.reader)
           /\ card' = [card EXCEPT ![call.reader].selected = @ \/ call.op = "select"]
           /\ LET ran == [call EXCEPT !.runs = @ + 1] IN
              IF x = "answered"
              THEN /\ call' = [ran EXCEPT !.step = "done",
                                 !.outcome = IF call.op = "use" /\ ~card[call.reader].selected
                                             THEN "ok_unselected" ELSE "ok"]
                   /\ UNCHANGED events
              ELSE /\ events' = events + 1
                   /\ Fails([ran EXCEPT !.disturbed = TRUE], "failed")
  <2>1. /\ card' \in [Readers -> Cards]
        /\ \A r \in Readers : /\ card'[r].present = card[r].present
                              /\ card'[r].up = card[r].up
    <3>1. card[call.reader].selected \in BOOLEAN
      BY <1>2 DEF Cards
    <3>2. PICK b \in BOOLEAN : card' = [card EXCEPT ![call.reader].selected = b]
      BY <1>5, <3>1
    <3>3. [card[call.reader] EXCEPT !.selected = b] \in Cards
      BY <1>2, CardOps
    <3>4. card' \in [Readers -> Cards]
      BY <1>2, <3>2, <3>3
    <3>5. ASSUME NEW r \in Readers
          PROVE  card'[r].present = card[r].present /\ card'[r].up = card[r].up
      <4>1. card[r] \in Cards
        BY <1>2
      <4>2. CASE r # call.reader
        BY <1>2, <3>2, <4>2
      <4>3. CASE r = call.reader
        BY <1>2, <3>2, <4>1, <4>3 DEF Cards
      <4> QED BY <4>2, <4>3
    <3> QED BY <3>4, <3>5
  <2>2. events' \in Nat
    BY <1>2, <1>5
  <2>3. call.runs + 1 \in Nat
    BY <1>2
  <2>4. CASE x = "answered"
    <3>1. PICK o \in {"ok", "ok_unselected"} :
             call' = [[call EXCEPT !.runs = call.runs + 1] EXCEPT !.step = "done", !.outcome = o]
      BY <1>5, <2>4
    <3>2. call' = [call EXCEPT !.runs = call.runs + 1, !.step = "done", !.outcome = o]
      BY <1>1, <3>1 DEF Calls
    <3>3. \A n \in Nat : /\ [call EXCEPT !.runs = n, !.step = "done", !.outcome = o] \in Calls
                         /\ [call EXCEPT !.runs = n, !.step = "done", !.outcome = o].outcome = o
      BY <1>1 DEF Calls
    <3> QED BY <1>1, <1>3, <1>5, <2>1, <2>2, <2>3, <3>2, <3>3
  <2>5. CASE x # "answered"
    <3>1. Fails([[call EXCEPT !.runs = call.runs + 1] EXCEPT !.disturbed = TRUE], "failed")
      BY <1>5, <2>5
    <3>2. [[call EXCEPT !.runs = call.runs + 1] EXCEPT !.disturbed = TRUE]
            = [call EXCEPT !.runs = call.runs + 1, !.disturbed = TRUE]
      BY <1>1 DEF Calls
    <3>3. \A n \in Nat : [call EXCEPT !.runs = n, !.disturbed = TRUE] \in Calls
      BY <1>1 DEF Calls
    <3>4. call' \in Calls
      BY <2>3, <3>1, <3>2, <3>3, FailsEffect
    <3> QED BY <1>1, <1>3, <2>1, <2>2, <3>1, <3>2, <3>4
  <2> QED BY <2>4, <2>5
<1> QED BY <1>4, <1>5 DEF try_transmit

(* The connection on file is given up. *)
LEMMA DisconnectEffect ==
    ASSUME TypeOK, disconnect
    PROVE  /\ call # NoCall /\ call.step = "disconnect"
           /\ call' \in Calls
           /\ call' = [call EXCEPT !.step = "lookup", !.again = TRUE]
           /\ handle' = [handle EXCEPT ![call.reader] = 0]
           /\ card' \in [Readers -> Cards]
           /\ \A r \in Readers :
                \/ card'[r] = card[r]
                \/ /\ r = call.reader /\ Connected(r) /\ ~Stale(r)
                   /\ card'[r].present = card[r].present
           /\ UNCHANGED <<manager, access, believes, calls, events>>
<1>1. call # NoCall /\ call \in Calls /\ call.step = "disconnect"
  BY CallFields DEF disconnect, At
<1>2. call' \in Calls
  BY <1>1 DEF disconnect, Calls
<1>3. call.reader \in Readers /\ card \in [Readers -> Cards] /\ card[call.reader] \in Cards
  BY <1>1, CallFields DEF TypeOK
<1>4. Reset(card[call.reader]) \in Cards
  BY <1>3, CardOps
<1>5. Reset(card[call.reader]).present = card[call.reader].present
  BY <1>3 DEF Reset, Cards
<1> QED BY <1>1, <1>2, <1>3, <1>4, <1>5 DEF disconnect

(* get_atr ends its call, whether it fails or not. *)
LEMMA AtrEffect ==
    ASSUME TypeOK, get_atr
    PROVE  /\ call # NoCall /\ call.step = "use" /\ call.op = "atr"
           /\ call' \in Calls
           /\ \/ Fails(call, "failed")
              \/ call' = [call EXCEPT !.step = "done", !.outcome = "ok"]
           /\ UNCHANGED <<manager, card, access, handle, believes, calls, events>>
<1>1. call # NoCall /\ call \in Calls /\ call.step = "use" /\ call.op = "atr"
  BY CallFields DEF get_atr, At
<1>2. call' = [call EXCEPT !.step = "done", !.outcome = "ok"] => call' \in Calls
  BY <1>1 DEF Calls
<1> QED BY <1>1, <1>2, FailsEffect DEF get_atr

(* The steps there are. *)
LEMMA StepCases ==
    ASSUME [Next]_vars
    PROVE  \/ \E op \in Ops, r \in Readers : start_call(op, r) \/ no_context(op, r)
           \/ get_or_connect
           \/ connect_with_retry
           \/ \E x \in Exchanges : try_transmit(x)
           \/ disconnect
           \/ get_atr
           \/ EnvStep
           \/ UNCHANGED vars
  BY DEF Next, CodeStep, EnvStep

(* Every step keeps the types. *)
LEMMA TypeStep ==
    ASSUME TypeOK, [Next]_vars
    PROVE  TypeOK'
<1>t. /\ manager \in {"none", "valid", "stopped"} /\ believes \in [Readers -> BOOLEAN]
      /\ card \in [Readers -> Cards] /\ access \in [Readers -> Accesses]
      /\ handle \in [Readers -> Nat] /\ calls \in Nat /\ events \in Nat
  BY DEF TypeOK
<1>u. \A r \in Readers : card[r].up \in Nat
  BY <1>t DEF Cards
<1>1. CASE \E op \in Ops, r \in Readers : start_call(op, r) \/ no_context(op, r)
  BY <1>1, StartEffect
<1>2. CASE get_or_connect
  BY <1>t, <1>2, LookupEffect DEF TypeOK
<1>3. CASE connect_with_retry
  <2>1. call.reader \in Readers
    BY <1>3, ConnectEffect, CallFields
  <2>2. handle' \in [Readers -> Nat]
    BY <1>t, <1>u, <1>3, <2>1, ConnectEffect
  <2> QED BY <1>t, <1>3, <2>2, ConnectEffect DEF TypeOK
<1>4. CASE \E x \in Exchanges : try_transmit(x)
  BY <1>t, <1>4, TransmitEffect DEF TypeOK
<1>5. CASE disconnect
  BY <1>t, <1>5, DisconnectEffect DEF TypeOK
<1>6. CASE get_atr
  BY <1>t, <1>6, AtrEffect DEF TypeOK
<1>7. CASE EnvStep
  BY <1>7, EnvEffect
<1>8. CASE UNCHANGED vars
  BY <1>8 DEF vars, TypeOK
<1> QED BY <1>1, <1>2, <1>3, <1>4, <1>5, <1>6, <1>7, <1>8, StepCases

----------------------------------------------------------------------------
(* The inductive invariant.                                                 *)

(* A card runs the APDU of a call only in try_transmit.                     *)
LEMMA RunsCountedStep ==
    ASSUME TypeOK, RunsCounted, [Next]_vars
    PROVE  RunsCounted'
<1>f. call # NoCall => call \in Calls
  BY CallFields
<1>1. CASE \E op \in Ops, r \in Readers : start_call(op, r) \/ no_context(op, r)
  BY <1>1, StartEffect DEF RunsCounted
<1>2. CASE get_or_connect
  <2>1. /\ call'.again = call.again /\ call'.runs = call.runs
        /\ call'.disturbed = call.disturbed /\ call'.step \in {"use", "connect"}
    BY <1>f, <1>2, LookupEffect DEF Calls
  <2> QED BY <1>2, <2>1, LookupEffect DEF RunsCounted
<1>3. CASE connect_with_retry
  <2>1. CASE \E e \in {"failed", "no_card"} : Fails(call, e)
    <3>1. /\ call'.runs = call.runs /\ call'.disturbed = call.disturbed
          /\ call'.again = call.again /\ call'.step \in {"disconnect", "done"}
      BY <1>f, <1>3, <2>1, ConnectEffect, FailsEffect
    <3> QED BY <1>f, <1>3, <3>1, ConnectEffect DEF RunsCounted, Calls
  <2>2. CASE ~ \E e \in {"failed", "no_card"} : Fails(call, e)
    <3>1. /\ call'.runs = call.runs /\ call'.disturbed = call.disturbed
          /\ call'.again = call.again /\ call'.step \in {"connect", "use"}
      BY <1>f, <1>3, <2>2, ConnectEffect DEF Calls
    <3> QED BY <1>f, <1>3, <3>1, ConnectEffect DEF RunsCounted
  <2> QED BY <2>1, <2>2
<1>4. CASE \E x \in Exchanges : try_transmit(x)
  <2>0. /\ call # NoCall /\ call \in Calls /\ call.step = "use" /\ call.runs \in Nat
        /\ call.again \in BOOLEAN /\ call.disturbed \in BOOLEAN
    BY <1>4, CallFields, TransmitEffect
  <2>1. CASE Refuses(call)
    <3>1. /\ call'.runs = call.runs /\ call'.disturbed = call.disturbed
          /\ call'.again = call.again /\ call'.step \in {"disconnect", "done"}
      BY <2>0, <2>1, RefusesEffect
    <3> QED BY <2>0, <3>1 DEF RunsCounted
  <2>2. CASE /\ call' = [call EXCEPT !.runs = call.runs + 1, !.step = "done",
                                     !.outcome = call'.outcome]
    <3>1. /\ call'.runs = call.runs + 1 /\ call'.disturbed = call.disturbed
          /\ call'.again = call.again /\ call'.step = "done"
      BY <2>0, <2>2 DEF Calls
    <3> QED BY <2>0, <3>1 DEF RunsCounted
  <2>3. CASE Fails([call EXCEPT !.runs = call.runs + 1, !.disturbed = TRUE], "failed")
    <3>1. /\ [call EXCEPT !.runs = call.runs + 1, !.disturbed = TRUE] \in Calls
          /\ [call EXCEPT !.runs = call.runs + 1, !.disturbed = TRUE].runs = call.runs + 1
          /\ [call EXCEPT !.runs = call.runs + 1, !.disturbed = TRUE].disturbed
          /\ [call EXCEPT !.runs = call.runs + 1, !.disturbed = TRUE].again = call.again
          /\ [call EXCEPT !.runs = call.runs + 1, !.disturbed = TRUE].op = call.op
      <4>1. call.runs + 1 \in Nat
        BY <2>0
      <4>2. \A n \in Nat :
              /\ [call EXCEPT !.runs = n, !.disturbed = TRUE] \in Calls
              /\ [call EXCEPT !.runs = n, !.disturbed = TRUE].runs = n
              /\ [call EXCEPT !.runs = n, !.disturbed = TRUE].disturbed
              /\ [call EXCEPT !.runs = n, !.disturbed = TRUE].again = call.again
              /\ [call EXCEPT !.runs = n, !.disturbed = TRUE].op = call.op
        BY <2>0 DEF Calls
      <4> QED BY <4>1, <4>2
    <3>2. /\ call'.runs = call.runs + 1 /\ call'.disturbed /\ call'.again = call.again
          /\ \/ call'.step = "disconnect" /\ ~call.again
             \/ call'.step = "done" /\ call.again
      <4>1. call.op # "atr"
        BY <1>4, TransmitEffect
      <4> QED BY <2>3, <3>1, <4>1, FailsEffect
    <3> QED BY <2>0, <3>2 DEF RunsCounted
  <2> QED BY <1>4, <2>1, <2>2, <2>3, TransmitEffect
<1>5. CASE disconnect
  <2>1. /\ call'.runs = call.runs /\ call'.disturbed = call.disturbed
        /\ call'.again /\ call'.step = "lookup"
    BY <1>f, <1>5, DisconnectEffect DEF Calls
  <2> QED BY <1>5, <2>1, DisconnectEffect DEF RunsCounted
<1>6. CASE get_atr
  <2>1. /\ call'.runs = call.runs /\ call'.disturbed = call.disturbed
        /\ call'.again = call.again /\ call'.step = "done"
    BY <1>f, <1>6, AtrEffect, FailsEffect DEF Calls
  <2> QED BY <1>f, <1>6, <2>1, AtrEffect DEF RunsCounted, Calls
<1>7. CASE EnvStep
  BY <1>7, EnvEffect DEF RunsCounted, SameCall
<1>8. CASE UNCHANGED vars
  BY <1>8 DEF vars, RunsCounted
<1> QED BY <1>1, <1>2, <1>3, <1>4, <1>5, <1>6, <1>7, <1>8, StepCases

(* Connections are made and given up for the reader of the call only.       *)
LEMMA OnFileStep ==
    ASSUME TypeOK, OnFile, [Next]_vars
    PROVE  OnFile'
<1>f. call # NoCall => call \in Calls /\ call.reader \in Readers
  BY CallFields
<1>h. handle \in [Readers -> Nat]
  BY DEF TypeOK
<1>1. CASE \E op \in Ops, r \in Readers : start_call(op, r) \/ no_context(op, r)
  BY <1>1, StartEffect DEF OnFile
<1>2. CASE get_or_connect
  <2>1. /\ call'.reader = call.reader
        /\ call'.step = IF Connected(call.reader) THEN "use" ELSE "connect"
    BY <1>f, <1>2, LookupEffect DEF Calls
  <2> QED BY <1>2, <2>1, LookupEffect DEF OnFile, Connected
<1>3. CASE connect_with_retry
  <2>1. CASE \E e \in {"failed", "no_card"} : Fails(call, e)
    <3>1. \/ call'.step = "disconnect" /\ ~call'.again /\ call'.op # "atr"
          \/ call'.step = "done"
      BY <1>f, <1>3, <2>1, ConnectEffect, FailsEffect
    <3> QED BY <3>1 DEF OnFile
  <2>2. CASE \E n \in 1 .. MaxRetries : call' = [call EXCEPT !.attempt = n]
    <3>1. call'.reader = call.reader /\ call'.step = "connect"
      BY <1>f, <1>3, <2>2, ConnectEffect DEF Calls
    <3>2. ~Connected(call.reader)
      BY <1>3, ConnectEffect DEF OnFile
    <3>3. UNCHANGED handle \/ call'.step = "use"
      BY <1>f, <1>3, ConnectEffect, FailsEffect DEF Calls
    <3> QED BY <3>1, <3>2, <3>3 DEF OnFile, Connected
  <2>3. CASE call' = [call EXCEPT !.step = "use"]
    <3>1. call'.step = "use"
      BY <1>f, <1>3, <2>3, ConnectEffect DEF Calls
    <3> QED BY <3>1 DEF OnFile
  <2> QED BY <1>3, <2>1, <2>2, <2>3, ConnectEffect
<1>4. CASE \E x \in Exchanges : try_transmit(x)
  <2>0. call # NoCall /\ call \in Calls /\ call.runs \in Nat /\ call.op # "atr"
    BY <1>4, TransmitEffect, CallFields
  <2>1. CASE Refuses(call)
    BY <2>0, <2>1, RefusesEffect DEF OnFile
  <2>2. CASE call' = [call EXCEPT !.runs = call.runs + 1, !.step = "done",
                                  !.outcome = call'.outcome]
    <3>1. call'.step = "done"
      BY <2>0, <2>2 DEF Calls
    <3> QED BY <3>1 DEF OnFile
  <2>3. CASE Fails([call EXCEPT !.runs = call.runs + 1, !.disturbed = TRUE], "failed")
    <3>1. \A n \in Nat : [call EXCEPT !.runs = n, !.disturbed = TRUE] \in Calls
      BY <2>0 DEF Calls
    <3>2. call.runs + 1 \in Nat
      BY <2>0
    <3>3. \/ call'.step = "disconnect" /\ ~call'.again /\ call'.op # "atr"
          \/ call'.step = "done"
      BY <2>3, <3>1, <3>2, FailsEffect
    <3> QED BY <3>3 DEF OnFile
  <2> QED BY <1>4, <2>1, <2>2, <2>3, TransmitEffect
<1>5. CASE disconnect
  <2>1. /\ call'.reader = call.reader /\ handle'[call.reader] = 0
        /\ call'.step = "lookup"
    BY <1>f, <1>h, <1>5, DisconnectEffect DEF Calls
  <2> QED BY <2>1 DEF OnFile, Connected
<1>6. CASE get_atr
  <2>1. call'.step = "done"
    BY <1>f, <1>6, AtrEffect, FailsEffect DEF Calls
  <2> QED BY <2>1 DEF OnFile
<1>7. CASE EnvStep
  BY <1>7, EnvEffect DEF OnFile, SameCall, Connected
<1>8. CASE UNCHANGED vars
  BY <1>8 DEF vars, OnFile, Connected
<1> QED BY <1>1, <1>2, <1>3, <1>4, <1>5, <1>6, <1>7, <1>8, StepCases

(* While nothing interferes, a call finds the reader as it left it.         *)
LEMMA CalmStep ==
    ASSUME TypeOK, RunsCounted, OnFile, Calm, [Next]_vars
    PROVE  Calm'
<1>f. call # NoCall => /\ call \in Calls /\ call.reader \in Readers
                       /\ card[call.reader] \in Cards
                       /\ call.absent \in BOOLEAN /\ call.runs \in Nat
  BY CallFields
<1>h. /\ handle \in [Readers -> Nat]
      /\ card \in [Readers -> Cards]
  BY DEF TypeOK
<1>1. CASE \E op \in Ops, r \in Readers : start_call(op, r) \/ no_context(op, r)
  BY <1>1, StartEffect DEF Calm
<1>2. CASE get_or_connect
  <2>0. call # NoCall /\ call.step = "lookup"
        /\ UNCHANGED <<manager, card, access, handle>>
    BY <1>2, LookupEffect
  <2>1. /\ call'.reader = call.reader /\ call'.again = call.again
        /\ call'.disturbed = call.disturbed /\ call'.absent = call.absent
        /\ call'.refused = call.refused
        /\ call'.step = IF Connected(call.reader) THEN "use" ELSE "connect"
    BY <1>f, <1>2, LookupEffect DEF Calls
  <2>2. call.again => call'.step = "connect"
    BY <2>0, <2>1 DEF OnFile
  <2> QED BY <2>0, <2>1, <2>2 DEF Calm, Open
<1>3. CASE connect_with_retry
  <2>0. /\ call # NoCall /\ call.step = "connect"
        /\ UNCHANGED <<manager, card, access>>
        /\ ~Connected(call.reader)
    BY <1>3, ConnectEffect DEF OnFile
  <2>1. CASE /\ \E e \in {"failed", "no_card"} : Fails(call, e)
             /\ ~Open(call.reader) \/ ~card[call.reader].present
             /\ UNCHANGED handle
    <3>1. /\ call'.reader = call.reader /\ call'.disturbed = call.disturbed
          /\ call'.absent = call.absent
          /\ call'.step \in {"disconnect", "done"}
      BY <1>f, <2>0, <2>1, FailsEffect
    <3>2. \/ call'.absent = ~card[call.reader].present /\ Open(call.reader)
          \/ call.disturbed
      BY <2>0, <3>1 DEF Calm
    <3>3. call'.absent \/ call.disturbed
      BY <2>1, <3>2
    <3> QED BY <2>0, <2>1, <3>1, <3>2, <3>3 DEF Calm, Open, Connected
  <2>2. CASE /\ \E n \in 1 .. MaxRetries : call' = [call EXCEPT !.attempt = n]
             /\ UNCHANGED handle
    <3>1. /\ call'.reader = call.reader /\ call'.disturbed = call.disturbed
          /\ call'.absent = call.absent /\ call'.step = "connect"
      BY <1>f, <2>0, <2>2 DEF Calls
    <3> QED BY <2>0, <3>1 DEF Calm, Open
  <2>3. CASE /\ Open(call.reader) /\ card[call.reader].present
             /\ handle' = [handle EXCEPT ![call.reader] = card[call.reader].up]
             /\ call' = [call EXCEPT !.step = "use"]
    <3>1. /\ call'.reader = call.reader /\ call'.disturbed = call.disturbed
          /\ call'.absent = call.absent /\ call'.step = "use"
      BY <1>f, <2>0, <2>3 DEF Calls
    <3>2. handle'[call.reader] = card[call.reader].up
      BY <1>f, <1>h, <2>0, <2>3
    <3>3. ~Stale(call.reader)'
      BY <2>0, <2>3, <3>1, <3>2 DEF Stale, Open
    <3> QED BY <2>0, <3>1, <3>3 DEF Calm, Open
  <2> QED BY <1>3, <2>1, <2>2, <2>3, ConnectEffect
<1>4. CASE \E x \in Exchanges : try_transmit(x)
  <2>0. /\ call # NoCall /\ call.step = "use" /\ call.op # "atr"
        /\ UNCHANGED <<manager, access, handle>>
        /\ card'[call.reader].present = card[call.reader].present
        /\ card'[call.reader].up = card[call.reader].up
    BY <1>4, <1>f, TransmitEffect
  <2>1. CASE Refuses(call)
    <3>1. /\ call'.reader = call.reader /\ call'.disturbed = call.disturbed
          /\ call'.absent = call.absent
          /\ call'.refused \/ Stale(call.reader) \/ ~Open(call.reader)
          /\ \/ call'.step = "disconnect" /\ ~call.again
             \/ call'.step = "done" /\ call.again
      BY <1>f, <2>0, <2>1, RefusesEffect
    <3>2. CASE call.disturbed
      BY <3>1, <3>2 DEF Calm
    <3>3. CASE ~call.disturbed
      <4>1. Open(call.reader) /\ call.absent = ~card[call.reader].present
        BY <2>0, <3>3 DEF Calm
      <4>2. call'.refused \/ (Stale(call.reader) /\ ~call.again)
        BY <2>0, <3>1, <3>3, <4>1 DEF Calm
      <4>3. Open(call.reader)' /\ (Stale(call.reader) => Stale(call.reader)')
        BY <2>0, <3>1, <4>1 DEF Stale, Open
      <4> QED BY <2>0, <3>1, <4>1, <4>2, <4>3 DEF Calm
    <3> QED BY <3>2, <3>3
  <2>2. CASE /\ call' = [call EXCEPT !.runs = call.runs + 1, !.step = "done",
                                     !.outcome = call'.outcome]
             /\ call'.outcome \in {"ok", "ok_unselected"}
    <3>1. /\ call'.runs = call.runs + 1 /\ call'.step = "done"
          /\ call'.disturbed = call.disturbed
      BY <1>f, <2>0, <2>2 DEF Calls
    <3>2. call.runs = 0 \/ call.disturbed
      BY <1>f, <2>0 DEF RunsCounted
    <3> QED BY <2>2, <3>1, <3>2 DEF Calm
  <2>3. CASE Fails([call EXCEPT !.runs = call.runs + 1, !.disturbed = TRUE], "failed")
    <3>1. \A n \in Nat : /\ [call EXCEPT !.runs = n, !.disturbed = TRUE] \in Calls
                         /\ [call EXCEPT !.runs = n, !.disturbed = TRUE].disturbed
      BY <1>f, <2>0 DEF Calls
    <3>2. call.runs + 1 \in Nat
      BY <1>f, <2>0
    <3>3. call'.disturbed
      BY <2>3, <3>1, <3>2, FailsEffect
    <3> QED BY <3>3 DEF Calm
  <2> QED BY <1>4, <2>1, <2>2, <2>3, TransmitEffect
<1>5. CASE disconnect
  <2>0. /\ call # NoCall /\ call.step = "disconnect"
        /\ UNCHANGED <<manager, access>>
        /\ card'[call.reader].present = card[call.reader].present
    BY <1>5, <1>f, DisconnectEffect
  <2>1. /\ call'.reader = call.reader /\ call'.disturbed = call.disturbed
        /\ call'.absent = call.absent /\ call'.step = "lookup"
    BY <1>f, <1>5, <2>0, DisconnectEffect DEF Calls
  <2> QED BY <2>0, <2>1 DEF Calm, Open
<1>6. CASE get_atr
  <2>0. call # NoCall /\ call.op = "atr"
    BY <1>6, AtrEffect
  <2>1. call'.step = "done" /\ call'.op = "atr"
    BY <1>f, <1>6, <2>0, AtrEffect, FailsEffect DEF Calls
  <2> QED BY <2>1 DEF Calm
<1>7. CASE EnvStep
  <2>1. CASE call = NoCall \/ call'.disturbed
    BY <1>7, <2>1, EnvEffect DEF Calm
  <2>2. CASE call # NoCall /\ ~call'.disturbed
    <3>1. /\ call' = call /\ manager' = manager /\ handle' = handle
          /\ access'[call.reader] = access[call.reader]
          /\ card'[call.reader] = card[call.reader]
      BY <1>7, <2>2, EnvEffect
    <3> QED BY <3>1 DEF Calm, Open, Connected, Stale
  <2> QED BY <2>1, <2>2
<1>8. CASE UNCHANGED vars
  BY <1>8 DEF vars, Calm, Open, Connected, Stale
<1> QED BY <1>1, <1>2, <1>3, <1>4, <1>5, <1>6, <1>7, <1>8, StepCases

----------------------------------------------------------------------------
(* The theorems.                                                            *)

(* Initially there is neither a call nor a connection.                      *)
LEMMA InitInvariant == Init => IInv
<1> SUFFICES ASSUME Init PROVE IInv
  OBVIOUS
<1>1. call = NoCall
  BY DEF Init
<1>2. card \in [Readers -> Cards]
  <2>1. \A b \in BOOLEAN : [up |-> 1, present |-> b, selected |-> FALSE] \in Cards
    BY DEF Cards
  <2>2. {[up |-> 1, present |-> b, selected |-> FALSE] : b \in BOOLEAN} \subseteq Cards
    BY <2>1
  <2> QED BY <2>2 DEF Init
<1>3. TypeOK
  BY <1>2 DEF Init, TypeOK, Accesses
<1> QED BY <1>1, <1>3 DEF IInv, RunsCounted, OnFile, Calm

(* The inductive invariant holds in every reachable state.                  *)
THEOREM Invariance == Spec => []IInv
<1>1. Init => IInv
  BY InitInvariant
<1>2. IInv /\ [Next]_vars => IInv'
  BY TypeStep, RunsCountedStep, OnFileStep, CalmStep DEF IInv
<1> QED BY <1>1, <1>2, PTL DEF Spec

(* The state of the manager, the map of connections and a call always is    *)
(* one the types of pcsc_reader.rs have room for.                           *)
THEOREM TypeCorrect == Spec => []TypeOK
<1>1. IInv => TypeOK
  BY DEF IInv
<1> QED BY <1>1, Invariance, PTL

(* transmit's second try_transmit never runs an APDU a card has run and     *)
(* answered: twice only if the reply was lost or something interfered.      *)
THEOREM RunsTwiceAtMost == Spec => []RunTwiceAtMost
<1>1. IInv => RunTwiceAtMost
  BY CallFields DEF IInv, RunsCounted, RunTwiceAtMost, At
<1> QED BY <1>1, Invariance, PTL

(* transmit heals the map of connections: left in peace, with a card in the *)
(* reader and an APDU that is not refused, one call runs it, once, whatever *)
(* became of card and connection before it.                                 *)
THEOREM UndisturbedTransmits == Spec => []UndisturbedTransmitSucceeds
<1>1. IInv => UndisturbedTransmitSucceeds
  BY DEF IInv, Calm, UndisturbedTransmitSucceeds, At
<1> QED BY <1>1, Invariance, PTL

(* The code resets a card only by giving up a connection that works, which  *)
(* it does at most once in a call, for the reader of the call, and only if  *)
(* PC/SC refused the APDU on it or something else interfered with the call. *)
THEOREM ResetsForCause == Spec => ResetForCause
<1>1. IInv /\ [Next]_vars =>
        [\A r \in Readers : card'[r].up # card[r].up /\ events' = events =>
            /\ call.reader = r /\ call.op # "atr" /\ ~call.again
            /\ call.refused \/ call.disturbed]_vars
  <2> SUFFICES ASSUME IInv, [Next]_vars, NEW r \in Readers,
                      card'[r].up # card[r].up, events' = events
               PROVE  /\ call.reader = r /\ call.op # "atr" /\ ~call.again
                      /\ call.refused \/ call.disturbed
    OBVIOUS
  <2>t. TypeOK
    BY DEF IInv
  <2>1. CASE disconnect
    <3>1. /\ call # NoCall /\ call.step = "disconnect"
          /\ r = call.reader /\ Connected(r) /\ ~Stale(r)
      BY <2>t, <2>1, DisconnectEffect
    <3>2. call.op # "atr" /\ ~call.again
      BY <3>1 DEF IInv, OnFile
    <3>3. call.refused \/ call.disturbed
      BY <3>1 DEF IInv, Calm
    <3> QED BY <3>1, <3>2, <3>3
  <2>2. CASE EnvStep
    BY <2>t, <2>2, EnvEffect
  <2>3. CASE \E x \in Exchanges : try_transmit(x)
    BY <2>t, <2>3, TransmitEffect
  <2>4. CASE UNCHANGED card
    BY <2>4
  <2>5. \/ UNCHANGED card \/ disconnect \/ EnvStep
        \/ \E x \in Exchanges : try_transmit(x)
    <3>1. CASE \E op \in Ops, x \in Readers : start_call(op, x) \/ no_context(op, x)
      BY <3>1 DEF start_call, no_context
    <3>2. CASE get_or_connect \/ connect_with_retry \/ get_atr
      BY <3>2 DEF get_or_connect, connect_with_retry, get_atr
    <3>3. CASE UNCHANGED vars
      BY <3>3 DEF vars
    <3> QED BY <3>1, <3>2, <3>3, StepCases
  <2> QED BY <2>1, <2>2, <2>3, <2>4, <2>5
<1> QED BY <1>1, Invariance, PTL DEF Spec, ResetForCause

=============================================================================
