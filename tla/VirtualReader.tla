--------------------------- MODULE VirtualReader ---------------------------
(***************************************************************************)
(* What the relay promises to vpcd, the driver that pcscd sees as a local   *)
(* reader: behind every connection made to it there seems to be one card.   *)
(* A request is answered while its connection lives, at most once and in    *)
(* turn, and the answer is the reply of the card behind that connection to  *)
(* that very request, or the ATR announced for that card, or an error.      *)
(***************************************************************************)
CONSTANTS
    Ports,        \* connections to vpcd: one per announced reader with a card
    Requests,     \* requests, all distinct
    AtrRequests,  \* those that ask for the ATR; the others carry an APDU
    NoReq,        \* no request
    NoPort        \* no card

VARIABLES
    port,         \* port[w]: "up" while vpcd holds the connection
    ask,          \* ask[w]: the request vpcd waits for, or NoReq
    answer        \* answer[q]: how request q was answered

vars == <<port, ask, answer>>

(* Where an answer comes from: the reply to request req of the card at by;  *)
(* the ATR the server holds for by; or an error, no answer from a card.     *)
Unanswered == [src |-> "none", req |-> NoReq, by |-> NoPort]
ErrorAnswer == [src |-> "error", req |-> NoReq, by |-> NoPort]
CachedAtr(w) == [src |-> "cache", req |-> NoReq, by |-> w]
CardReply(q, w) == [src |-> "card", req |-> q, by |-> w]

(* The answers that pass for those of a local reader. *)
Faithful(q, w) ==
    {ErrorAnswer, CardReply(q, w)}
        \cup (IF q \in AtrRequests THEN {CachedAtr(w)} ELSE {})

Init ==
    /\ port = [w \in Ports |-> "down"]
    /\ ask = [w \in Ports |-> NoReq]
    /\ answer = [q \in Requests |-> Unanswered]

Attach(w) ==
    /\ port[w] = "down"
    /\ port' = [port EXCEPT ![w] = "up"]
    /\ UNCHANGED <<ask, answer>>

Ask(w, q) ==
    /\ port[w] = "up"
    /\ ask[w] = NoReq
    /\ answer[q] = Unanswered
    /\ \A v \in Ports : ask[v] # q
    /\ ask' = [ask EXCEPT ![w] = q]
    /\ UNCHANGED <<port, answer>>

Answer(w) ==
    /\ ask[w] # NoReq
    /\ \E a \in Faithful(ask[w], w) :
           answer' = [answer EXCEPT ![ask[w]] = a]
    /\ ask' = [ask EXCEPT ![w] = NoReq]
    /\ UNCHANGED port

(* Connections end one by one, or all together when the server stops.  What *)
(* was asked on them is no longer awaited by anyone.                        *)
Detach(S) ==
    /\ port' = [w \in Ports |-> IF w \in S THEN "down" ELSE port[w]]
    /\ ask' = [w \in Ports |-> IF w \in S THEN NoReq ELSE ask[w]]
    /\ UNCHANGED answer

Next ==
    \/ \E w \in Ports : Attach(w) \/ Answer(w)
    \/ \E w \in Ports, q \in Requests : Ask(w, q)
    \/ \E S \in SUBSET Ports : Detach(S)

Spec == Init /\ [][Next]_vars

=============================================================================
