---------------------------- MODULE VpcdProtocol ----------------------------
(***************************************************************************)
(* The bytes between vpcd and a vpcd client (server/src/vpcd.rs): messages  *)
(* and responses, each behind a length of two bytes, on a TCP connection    *)
(* that the server makes anew whenever it ends.  RemoteSmartcard has them   *)
(* as whole requests and answers.                                           *)
(*                                                                          *)
(* The peer is vpcd, which is external and asks one thing at a time, or the *)
(* test tool that stands in for it (tools/vpcd-test), which sends what its  *)
(* user types and prints what comes back.  TCP delivers in pieces.          *)
(***************************************************************************)
EXTENDS Naturals, Sequences, SequencesExt

CONSTANTS
    Base,            \* values of a byte (256)
    Apdus,           \* APDUs put to the card
    ApduResponses,   \* what forward_apdu returns: data and two status bytes
    Atrs,            \* what get_atr_from_client returns; empty if it fails
    Peers,           \* who is at the other end: "vpcd", "vpcd_test"
    MaxMessages,     \* bound: messages on a connection
    MaxConnections   \* bound: connections

Bytes == 0 .. Base - 1

(* An APDU has a header of four bytes at least; that it has more than one   *)
(* is what tells it from a control command.  vpcd puts none to the card of  *)
(* which it could not say the length; the test tool cuts the length off.    *)
ASSUME VpcdAssumption ==
    /\ Base \in Nat /\ Base > 4
    /\ \A a \in Apdus : a \in Seq(Bytes) /\ Len(a) > 1
    /\ "vpcd" \in Peers => \A a \in Apdus : Len(a) < Base * Base
    /\ \A a \in ApduResponses : a \in Seq(Bytes) /\ Len(a) >= 2
    /\ Atrs \subseteq Seq(Bytes)
    /\ Peers \subseteq {"vpcd", "vpcd_test"}
    /\ MaxMessages \in Nat
    /\ MaxConnections \in Nat \ {0}

VARIABLES
    peer,      \* who is at the other end
    link,      \* the TCP connection: none, open, or left by one of the two
    toServer,  \* bytes on their way to the server
    toPeer,    \* bytes on their way to the peer
    server,    \* the vpcd client: in connect's loop, or not connected
    input,     \* the server's read_exact at hand
    output,    \* the peer's
    meant,     \* history: messages the peer has sent on this connection
    awaited,   \* history: those of them it waits for a response to
    handled,   \* history: messages handle_message was called with
    given,     \* history: responses handed to send_response
    got,       \* history: responses the peer has read
    links      \* connections so far

netVars == <<peer, link, toServer, toPeer, links>>
histVars == <<meant, awaited, handled, given, got>>
vars == <<netVars, server, input, output, histVars>>

----------------------------------------------------------------------------
(* Messages and their bytes.                                                *)

Controls == {"PowerOff", "PowerOn", "Reset", "GetAtr"}

Messages == [kind : Controls \cup {"Apdu"}, apdu : Seq(Bytes)]

Control(k) == [kind |-> k, apdu |-> << >>]
Apdu(a) == [kind |-> "Apdu", apdu |-> a]

(* Mutant: power on is answered, with the ATR. *)
HasResponse_power_on(m) == m.kind \in {"GetAtr", "Apdu", "PowerOn"}

(* The messages that handle_message returns a response to.                  *)
HasResponse(m) == m.kind \in {"GetAtr", "Apdu"}

(* Mutant: the code of Get ATR as in the comment at the top of vpcd.rs.     *)
VpcdCtrlCommand_as_listed == [PowerOff |-> 0, PowerOn |-> 1, Reset |-> 2, GetAtr |-> 3]

VpcdCtrlCommand == [PowerOff |-> 0, PowerOn |-> 1, Reset |-> 2, GetAtr |-> 4]

(* What vpcd sends, and what it waits for a response to.                    *)
VpcdCodes == [PowerOff |-> 0, PowerOn |-> 1, Reset |-> 2, GetAtr |-> 4]
HasAnswer(m) == m.kind \in {"GetAtr", "Apdu"}

(* What the test tool sends, which has a code for APDUs.                    *)
VpcdCommand == [PowerOff |-> 0, PowerOn |-> 1, Reset |-> 2, GetAtr |-> 3, Apdu |-> 4]

Body(p, m) ==
    IF p = "vpcd_test" THEN <<VpcdCommand[m.kind]>> \o m.apdu
    ELSE IF m.kind = "Apdu" THEN m.apdu
    ELSE <<VpcdCodes[m.kind]>>

(* The length of a body, as u16: what is above is cut off.                  *)
Cut(body) == Len(body) % (Base * Base)

Framed(body) == <<Cut(body) \div Base, Cut(body) % Base>> \o body

(* Mutants: an empty response is not sent; a length is not cut.             *)
Response_unless_empty(data) == IF data = << >> THEN << >> ELSE Framed(data)
Response_uncut(data) == <<Len(data) \div Base, Len(data) % Base>> \o data

(* send_response: nothing but length and data, whatever it is a response to.*)
Response(data) == Framed(data)

(* u16::from_be_bytes *)
LengthOf(bytes) == bytes[1] * Base + bytes[2]

(* What a body means to the server: a set of one message, or an empty one   *)
(* for an unknown control command.                                          *)
Understood(body) ==
    IF Len(body) = 1
    THEN {Control(k) : k \in {k \in Controls : VpcdCtrlCommand[k] = body[1]}}
    ELSE {Apdu(body)}

(* A call of read_exact: the part of a message it is for, how many bytes it *)
(* wants, and those that have arrived.                                      *)
Reads == [part : {"length", "data"}, want : Nat, bytes : Seq(Bytes)]
AtLength == [part |-> "length", want |-> 2, bytes |-> << >>]
AtData(n) == [part |-> "data", want |-> n, bytes |-> << >>]

(* The call with one more byte.                                             *)
Next_byte(read, stream) == [read EXCEPT !.bytes = Append(@, Head(stream))]
HasAll(read, part) == read.part = part /\ Len(read.bytes) = read.want

TypeOK ==
    /\ peer \in Peers
    /\ link \in {"none", "open", "peer_left", "server_left"}
    /\ toServer \in Seq(Bytes) /\ toPeer \in Seq(Bytes)
    /\ server \in {"connecting", "reading", "handling"}
    /\ input \in Reads /\ output \in Reads
    /\ meant \in Seq(Messages) /\ awaited \in Seq(Messages) /\ handled \in Seq(Messages)
    /\ given \in Seq([request : Messages, data : Seq(Bytes)])
    /\ got \in Seq(Seq(Bytes))
    /\ links \in 0 .. MaxConnections

(* No connection, and nothing of one. *)
Init ==
    /\ peer \in Peers
    /\ link = "none"
    /\ toServer = << >> /\ toPeer = << >>
    /\ server = "connecting"
    /\ input = AtLength /\ output = AtLength
    /\ meant = << >> /\ awaited = << >> /\ handled = << >> /\ given = << >> /\ got = << >>
    /\ links = 0

----------------------------------------------------------------------------
(* The vpcd client.                                                         *)

(* Mutant: the bytes of a message begun are kept in the client.             *)
connect_bytes_kept ==
    /\ server = "connecting"
    /\ link = "none"
    /\ links < MaxConnections
    /\ links' = links + 1
    /\ link' = "open"
    /\ toServer' = << >> /\ toPeer' = << >>
    /\ server' = "reading"
    /\ output' = AtLength
    /\ meant' = << >> /\ awaited' = << >>
    /\ handled' = << >> /\ given' = << >> /\ got' = << >>
    /\ UNCHANGED <<peer, input>>

(* TcpStream::connect, and a peer that takes the connection: each connection*)
(* begins with nothing of the one before it.                                *)
connect ==
    /\ server = "connecting"
    /\ link = "none"
    /\ links < MaxConnections
    /\ links' = links + 1
    /\ link' = "open"
    /\ toServer' = << >> /\ toPeer' = << >>
    /\ server' = "reading"
    /\ input' = AtLength /\ output' = AtLength
    /\ meant' = << >> /\ awaited' = << >>
    /\ handled' = << >> /\ given' = << >> /\ got' = << >>
    /\ UNCHANGED peer

(* The loop in connect is left: the stream is closed with whatever has not  *)
(* been read.                                                               *)
Leave ==
    /\ server' = "connecting"
    /\ link' = IF link = "peer_left" THEN "none" ELSE "server_left"
    /\ toServer' = << >>
    /\ UNCHANGED input

(* A piece of the stream arrives in receive_message.  A length of zero and  *)
(* an unknown control command are errors; other messages are handled.       *)
receive_message ==
    /\ server = "reading"
    /\ link \in {"open", "peer_left"}
    /\ toServer # << >>
    /\ LET read == Next_byte(input, toServer)
           n == LengthOf(read.bytes) IN
       CASE HasAll(read, "length") /\ n = 0 ->
              Leave /\ UNCHANGED handled
         [] HasAll(read, "length") /\ n > 0 ->
              /\ input' = AtData(n)
              /\ toServer' = Tail(toServer)
              /\ UNCHANGED <<server, link, handled>>
         [] HasAll(read, "data") /\ Understood(read.bytes) = {} ->
              Leave /\ UNCHANGED handled
         [] HasAll(read, "data") /\ Understood(read.bytes) # {} ->
              /\ input' = AtLength
              /\ toServer' = Tail(toServer)
              /\ \E m \in Understood(read.bytes) :
                    /\ handled' = Append(handled, m)
                    /\ server' = IF HasResponse(m) THEN "handling" ELSE "reading"
              /\ UNCHANGED link
         [] OTHER ->
              /\ input' = read
              /\ toServer' = Tail(toServer)
              /\ UNCHANGED <<server, link, handled>>
    /\ UNCHANGED <<peer, toPeer, links, output, meant, awaited, given, got>>

(* The peer has closed: the end of the stream, or an error with data lost.  *)
end_of_stream ==
    /\ server = "reading"
    /\ link = "peer_left"
    /\ Leave
    /\ UNCHANGED <<peer, toPeer, links, output, histVars>>

(* handle_message has its response and send_response writes it.  With the   *)
(* connection gone that fails, or seems to succeed.                         *)
send_response(data) ==
    /\ server = "handling"
    /\ data \in IF Last(handled).kind = "Apdu" THEN ApduResponses ELSE Atrs
    /\ given' = Append(given, [request |-> Last(handled), data |-> data])
    /\ \/ /\ link = "open"
          /\ toPeer' = toPeer \o Response(data)
          /\ server' = "reading"
          /\ UNCHANGED <<link, toServer, input>>
       \/ /\ link = "peer_left"
          /\ \/ Leave
             \/ server' = "reading" /\ UNCHANGED <<link, toServer, input>>
          /\ UNCHANGED toPeer
    /\ UNCHANGED <<peer, links, output, meant, awaited, handled, got>>

----------------------------------------------------------------------------
(* The peer.                                                                *)

Awaiting == Len(got) < Len(awaited)

(* vpcd waits for a response before it goes on; users of the test tool type *)
(* as they like.                                                            *)
send_message(m) ==
    /\ link = "open"
    /\ Len(meant) < MaxMessages
    /\ peer = "vpcd" => ~Awaiting
    /\ meant' = Append(meant, m)
    /\ awaited' = IF HasAnswer(m) THEN Append(awaited, m) ELSE awaited
    /\ toServer' = toServer \o Framed(Body(peer, m))
    /\ UNCHANGED <<peer, link, toPeer, links, server, input, output, handled, given, got>>

(* A piece of a response arrives.  A length of zero is an empty response.   *)
read_response ==
    /\ link \in {"open", "server_left"}
    /\ toPeer # << >>
    /\ toPeer' = Tail(toPeer)
    /\ LET read == Next_byte(output, toPeer)
           n == LengthOf(read.bytes) IN
       CASE HasAll(read, "length") /\ n = 0 ->
              output' = AtLength /\ got' = Append(got, << >>)
         [] HasAll(read, "length") /\ n > 0 ->
              output' = AtData(n) /\ UNCHANGED got
         [] HasAll(read, "data") ->
              output' = AtLength /\ got' = Append(got, read.bytes)
         [] OTHER ->
              output' = read /\ UNCHANGED got
    /\ UNCHANGED <<peer, link, toServer, links, server, input, meant, awaited, handled, given>>

(* pcscd ejects the card or stops; the user of the test tool quits.         *)
peer_closes ==
    /\ link = "open"
    /\ link' = "peer_left"
    /\ toPeer' = << >>
    /\ UNCHANGED <<peer, toServer, links, server, input, output, histVars>>

(* The peer meets the end of the stream the server has closed, or an error. *)
server_is_gone ==
    /\ link = "server_left"
    /\ link' = "none"
    /\ toPeer' = << >>
    /\ UNCHANGED <<peer, toServer, links, server, input, output, histVars>>

----------------------------------------------------------------------------
ServerStep ==
    \/ receive_message
    \/ end_of_stream
    \/ \E data \in ApduResponses \cup Atrs : send_response(data)

Next ==
    \/ connect
    \/ ServerStep
    \/ \E k \in Controls : send_message(Control(k))
    \/ \E a \in Apdus : send_message(Apdu(a))
    \/ read_response
    \/ peer_closes
    \/ server_is_gone

Spec == Init /\ [][Next]_vars

(* What has been sent arrives, handle_message returns (its timers see to it)*)
(* and the peer reads.  That the peer sends or closes is up to it.          *)
FairSpec == Spec /\ WF_vars(ServerStep) /\ WF_vars(read_response)

----------------------------------------------------------------------------
(* Properties.                                                              *)

(* The first n responses are no longer than a length can say.               *)
Fit(n) == \A i \in DOMAIN given : i <= n => Len(given[i].data) < Base * Base

(* However the stream is cut in pieces, and wherever a connection ends, the *)
(* server handles what vpcd said on this connection, in order.              *)
RequestsUnderstood == peer = "vpcd" => IsPrefix(handled, meant)

(* What the peer reads are the responses given on this connection, in turn  *)
(* and byte for byte, also if it sends on without waiting for them; and the *)
(* n-th that vpcd reads is the one given to the n-th message it awaits an   *)
(* answer to.  So it is up to the first response that does not fit.         *)
AnsweredInTurn ==
    \A i \in DOMAIN got :
        Fit(i) =>
            /\ i \in DOMAIN given /\ got[i] = given[i].data
            /\ peer = "vpcd" => i \in DOMAIN awaited /\ given[i].request = awaited[i]

(* The server keeps the connection for as long as vpcd does: nothing it says*)
(* is taken for an error.                                                   *)
ConnectionKept == peer = "vpcd" => link # "server_left"

(* Whatever vpcd waits for, it gets an answer or the connection ends, even  *)
(* if the answer is an empty ATR.                                           *)
AnsweredOrClosed ==
    (peer = "vpcd" /\ Awaiting) ~> (~Awaiting \/ link # "open" \/ ~Fit(Len(given)))

=============================================================================
