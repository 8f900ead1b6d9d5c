---------------------------- MODULE Certificates ----------------------------
(***************************************************************************)
(* The files TLS rests on: rsc-keygen (tools/keygen), which writes them one *)
(* after the other with calls of openssl, and the start of the server and of*)
(* the client, which read them one after the other, once.                   *)
(*                                                                          *)
(* There is one directory and one rsc-keygen at a time; it may fail or be   *)
(* killed anywhere, and programs start while it runs.  Names are taken to   *)
(* fit: a certificate is for the host its server runs on.  openssl and      *)
(* rustls are external.                                                     *)
(***************************************************************************)
EXTENDS Naturals, Sequences

CONSTANTS
    MaxKeys,         \* bound: keys drawn
    MaxFailures,     \* bound: calls of rsc-keygen that do not succeed
    Missing,         \* no such file
    Damaged,         \* a file that holds nothing of use
    Options          \* how the server and the client are called

Kinds == {"ca", "server", "client"}
Keys == 1 .. MaxKeys
Unusable == {Missing, Damaged}
Certs == [of : Keys, by : Keys]

(* tls: --tls-cert and --tls-key are given to the server; ca: --tls-ca.     *)
(* (--tls-require-client-cert changes nothing.)  ca, cert and key: the files*)
(* the client is given; file: by its configuration file.                    *)
ASSUME CertificatesAssumption ==
    /\ MaxKeys \in Nat /\ MaxFailures \in Nat
    /\ \A u \in Unusable : u \notin Keys /\ u \notin Certs
    /\ Missing # Damaged
    /\ Options \subseteq
          [server : [tls : BOOLEAN, ca : BOOLEAN],
           client : [file : BOOLEAN, ca : BOOLEAN, cert : BOOLEAN, key : BOOLEAN]]

VARIABLES
    key,       \* key[k]: the file k.key
    csr,       \* csr[k]: k.csr, a request for the certificate of a key
    crt,       \* crt[k]: k.crt, the certificate of a key, signed by a key
    command,   \* rsc-keygen: what it makes, and where it is
    drawn,     \* keys drawn so far: each is a new one
    failures,  \* calls of rsc-keygen that did not succeed so far
    server,    \* the server process: where it is, and what it has read
    client,    \* the client process
    options,
    settled    \* history: kinds whose files the last rsc-keygen for them has
               \* reported done, with the CA there is

files == <<key, csr, crt, drawn, failures>>
vars == <<files, command, server, client, options, settled>>

Idle == [kind |-> "none", step |-> "none"]

(* A process reads the files in todo, in turn.  sound and era are history:  *)
(* the files were settled all the while, and the CA there was.              *)
Parts == {"ca", "cert", "key"}
Processes ==
    [pc : {"off", "validate", "reading", "up"}, todo : Seq(Parts),
     read : [ca : Certs \cup Unusable, cert : Certs \cup Unusable, key : Keys \cup Unusable],
     sound : BOOLEAN, era : Keys \cup Unusable]

Off == [pc |-> "off", todo |-> << >>, read |-> [f \in Parts |-> Missing],
        sound |-> FALSE, era |-> Missing]

TypeOK ==
    /\ key \in [Kinds -> Keys \cup Unusable]
    /\ csr \in [Kinds -> Keys \cup Unusable]
    /\ crt \in [Kinds -> Certs \cup Unusable]
    /\ command \in [kind : Kinds, step : {"key", "csr", "ext", "sign", "cleanup"}] \cup {Idle}
    /\ drawn \in 0 .. MaxKeys /\ failures \in 0 .. MaxFailures
    /\ server \in Processes /\ client \in Processes
    /\ options \in Options
    /\ settled \subseteq Kinds

Init ==
    /\ key = [k \in Kinds |-> Missing]
    /\ csr = [k \in Kinds |-> Missing]
    /\ crt = [k \in Kinds |-> Missing]
    /\ command = Idle
    /\ drawn = 0 /\ failures = 0
    /\ server = Off /\ client = Off
    /\ options \in Options
    /\ settled = {}

----------------------------------------------------------------------------
(* rsc-keygen.                                                              *)

(* The files each program reads, and what is left of a sound start when the *)
(* files settled are S.                                                     *)
HasIdentity == options.client.ca /\ options.client.cert /\ options.client.key
ServerNeeds == {"ca", "server"}
ClientNeeds ==
    IF options.client.cert \/ options.client.key THEN {"ca", "client"} ELSE {"ca"}
StillSound(p, needs, S) ==
    [p EXCEPT !.sound = @ /\ (p.pc = "up" \/ needs \subseteq S)]

(* rsc-keygen is called.  A new CA unsettles what older ones have signed.   *)
call_keygen(k) ==
    /\ command = Idle
    /\ command' = [kind |-> k, step |-> "key"]
    /\ settled' = IF k = "ca" THEN {} ELSE settled \ {k}
    /\ server' = StillSound(server, ServerNeeds, settled')
    /\ client' = StillSound(client, ClientNeeds, settled')
    /\ UNCHANGED <<files, options>>

At(k, step) == command.kind = k /\ command.step = step
Goto(step) == command' = [command EXCEPT !.step = step]

(* bail!, and being killed: what openssl was at is as before or useless.    *)
GivesUp ==
    /\ failures < MaxFailures
    /\ failures' = failures + 1
    /\ command' = Idle

Fails(file, k) ==
    /\ GivesUp
    /\ file' \in {file, [file EXCEPT ![k] = Damaged]}

(* openssl genrsa *)
genrsa(k) ==
    /\ At(k, "key")
    /\ \/ /\ drawn < MaxKeys
          /\ drawn' = drawn + 1
          /\ key' = [key EXCEPT ![k] = drawn']
          /\ Goto(IF k = "ca" THEN "sign" ELSE "csr")
          /\ UNCHANGED failures
       \/ Fails(key, k) /\ UNCHANGED drawn
    /\ UNCHANGED <<csr, crt, server, client, options, settled>>

(* Mutant: whether openssl has succeeded is not asked.                      *)
self_sign_unchecked ==
    /\ At("ca", "sign")
    /\ \/ key["ca"] \in Keys /\ crt' = [crt EXCEPT !["ca"] = [of |-> key["ca"], by |-> key["ca"]]]
       \/ crt' \in {crt, [crt EXCEPT !["ca"] = Damaged]}
    /\ command' = Idle
    /\ settled' = {"ca"}
    /\ UNCHANGED <<key, csr, drawn, failures, server, client, options>>

(* openssl req -x509, for the CA, which makes its certificate itself.       *)
self_sign ==
    /\ At("ca", "sign")
    /\ \/ /\ key["ca"] \in Keys
          /\ crt' = [crt EXCEPT !["ca"] = [of |-> key["ca"], by |-> key["ca"]]]
          /\ command' = Idle
          /\ settled' = {"ca"}
          /\ UNCHANGED failures
       \/ Fails(crt, "ca") /\ UNCHANGED settled
    /\ UNCHANGED <<key, csr, drawn, server, client, options>>

AfterCsr(k) == Goto(IF k = "server" THEN "ext" ELSE "sign")

(* Mutant: whether openssl has succeeded is not asked.                      *)
req_new_unchecked(k) ==
    /\ At(k, "csr")
    /\ \/ key[k] \in Keys /\ csr' = [csr EXCEPT ![k] = key[k]]
       \/ csr' \in {csr, [csr EXCEPT ![k] = Damaged]}
    /\ AfterCsr(k)
    /\ UNCHANGED <<key, crt, drawn, failures, server, client, options, settled>>

(* openssl req -new                                                         *)
req_new(k) ==
    /\ At(k, "csr")
    /\ \/ /\ key[k] \in Keys
          /\ csr' = [csr EXCEPT ![k] = key[k]]
          /\ AfterCsr(k)
          /\ UNCHANGED failures
       \/ Fails(csr, k)
    /\ UNCHANGED <<key, crt, drawn, server, client, options, settled>>

(* The extensions of a server's certificate.                                *)
write_ext ==
    /\ At("server", "ext")
    /\ \/ Goto("sign") /\ UNCHANGED failures
       \/ GivesUp
    /\ UNCHANGED <<key, csr, crt, drawn, server, client, options, settled>>

(* openssl x509 -req signs for the key in the request; it refuses a CA whose*)
(* certificate is not that of its key.                                      *)
CaUsable == key["ca"] \in Keys /\ crt["ca"] \in Certs /\ crt["ca"].of = key["ca"]

(* Mutant: without looking whether that CA is there.                        *)
x509_req_any_ca(k) ==
    /\ At(k, "sign")
    /\ k # "ca"
    /\ csr[k] \in Keys
    /\ crt' = [crt EXCEPT ![k] = [of |-> csr[k], by |-> key["ca"]]]
    /\ Goto("cleanup")
    /\ UNCHANGED <<key, csr, drawn, failures, server, client, options, settled>>

x509_req(k) ==
    /\ At(k, "sign")
    /\ k # "ca"
    /\ \/ /\ CaUsable /\ csr[k] \in Keys
          /\ crt' = [crt EXCEPT ![k] = [of |-> csr[k], by |-> key["ca"]]]
          /\ Goto("cleanup")
          /\ UNCHANGED failures
       \/ Fails(crt, k)
    /\ UNCHANGED <<key, csr, drawn, server, client, options, settled>>

(* The request is removed, if it can be, and success is reported; or        *)
(* rsc-keygen is killed before that.                                        *)
cleanup(k) ==
    /\ At(k, "cleanup")
    /\ \/ /\ csr' \in {csr, [csr EXCEPT ![k] = Missing]}
          /\ command' = Idle
          /\ settled' = IF "ca" \in settled THEN settled \cup {k} ELSE settled
          /\ UNCHANGED failures
       \/ GivesUp /\ UNCHANGED <<csr, settled>>
    /\ UNCHANGED <<key, crt, drawn, server, client, options>>

----------------------------------------------------------------------------
(* The start of the server and of the client.                               *)

Begun(pc, needs, todo) ==
    [pc |-> pc, todo |-> todo, read |-> [f \in Parts |-> Missing],
     sound |-> needs \subseteq settled,
     era |-> IF crt["ca"] \in Certs THEN crt["ca"].of ELSE Missing]

(* Mutant: the paths of the CA and of the own certificate are swapped.      *)
Content_swapped(k, f) ==
    CASE f = "ca" -> crt[k]
      [] f = "cert" -> crt["ca"]
      [] f = "key" -> key[k]

Content(k, f) ==
    CASE f = "ca" -> crt["ca"]
      [] f = "cert" -> crt[k]
      [] f = "key" -> key[k]

(* read_to_string of the next file; without it the process ends.            *)
Read(p, k) ==
    LET f == Head(p.todo) IN
    IF Content(k, f) = Missing THEN Off
    ELSE [p EXCEPT !.read[f] = Content(k, f), !.todo = Tail(@)]

(* The server's main: no TLS unless both files are named.                   *)
start_server ==
    /\ server.pc = "off"
    /\ server' = Begun("reading", ServerNeeds,
          (IF options.server.tls THEN <<"cert", "key">> ELSE << >>)
          \o (IF options.server.tls /\ options.server.ca THEN <<"ca">> ELSE << >>))
    /\ UNCHANGED <<files, command, client, options, settled>>

create_server_tls_config ==
    /\ server.pc = "reading"
    /\ server.todo # << >>
    /\ server' = Read(server, "server")
    /\ UNCHANGED <<files, command, client, options, settled>>

(* tls_config takes no text it cannot parse, which ends main.               *)
serve ==
    /\ server.pc = "reading"
    /\ server.todo = << >>
    /\ server' = IF \E f \in Parts : server.read[f] = Damaged
                 THEN Off ELSE [server EXCEPT !.pc = "up"]
    /\ UNCHANGED <<files, command, client, options, settled>>

(* The client's main.  A certificate needs its key, and both need a CA.     *)
start_client ==
    /\ client.pc = "off"
    /\ client' = Begun("validate", ClientNeeds,
          (IF options.client.ca THEN <<"ca">> ELSE << >>)
          \o (IF HasIdentity THEN <<"cert", "key">> ELSE << >>))
    /\ UNCHANGED <<files, command, server, options, settled>>

(* load: validate asks whether the files exist that the configuration file  *)
(* names, and does so before the command line is merged.                    *)
Validates ==
    options.client.ca /\ options.client.file =>
        \A f \in Parts : options.client[f] => Content("client", f) # Missing

validate ==
    /\ client.pc = "validate"
    /\ client' = IF Validates THEN [client EXCEPT !.pc = "reading"] ELSE Off
    /\ UNCHANGED <<files, command, server, options, settled>>

build_tls_config ==
    /\ client.pc = "reading"
    /\ client' = IF client.todo = << >> THEN [client EXCEPT !.pc = "up"]
                 ELSE Read(client, "client")
    /\ UNCHANGED <<files, command, server, options, settled>>

(* Both run until they are stopped.  The client keeps what it has read for  *)
(* all its connections.                                                     *)
stop_server ==
    /\ server.pc = "up"
    /\ server' = Off
    /\ UNCHANGED <<files, command, client, options, settled>>

stop_client ==
    /\ client.pc = "up"
    /\ client' = Off
    /\ UNCHANGED <<files, command, server, options, settled>>

Next ==
    \/ \E k \in Kinds : call_keygen(k) \/ genrsa(k) \/ req_new(k) \/ x509_req(k) \/ cleanup(k)
    \/ self_sign \/ write_ext
    \/ start_server \/ create_server_tls_config \/ serve \/ stop_server
    \/ start_client \/ validate \/ build_tls_config \/ stop_client

Spec == Init /\ [][Next]_vars

----------------------------------------------------------------------------
(* Whether client and server come to terms.                                 *)

Fits(p) == p.read["cert"] \in Certs /\ p.read["cert"].of = p.read["key"]

Signed(p, q) == q.read["ca"] \in Certs /\ p.read["cert"].by = q.read["ca"].of

(* client_ca_root: tonic asks every client for a certificate then, whatever *)
(* require_client_cert says.                                                *)
AsksForCert == options.server.ca

Handshake ==
    IF options.server.tls /\ options.client.ca
    THEN /\ Fits(server) /\ Signed(server, client)
         /\ HasIdentity => Fits(client)
         /\ AsksForCert => HasIdentity /\ Signed(client, server)
    ELSE ~options.server.tls /\ ~options.client.ca

----------------------------------------------------------------------------
(* Properties.                                                              *)

(* What rsc-keygen has reported done is of use: each certificate is that of *)
(* the key beside it and signed by the CA there is, whatever failed or was  *)
(* killed before and left its files behind.                                 *)
SuccessMeansUsable ==
    \A k \in settled :
        key[k] \in Keys /\ crt[k] = [of |-> key[k], by |-> key["ca"]]

(* A server and a client that have each read settled files, with the same CA*)
(* there, understand each other: now and for as long as they run, whatever  *)
(* rsc-keygen makes, or fails to make, meanwhile.                           *)
BothSound ==
    /\ server.pc = "up" /\ server.sound
    /\ client.pc = "up" /\ client.sound
    /\ server.era = client.era
    /\ options.server.tls /\ options.client.ca

TrustKept == BothSound /\ (AsksForCert => HasIdentity) => Handshake

(* A server or a client that is called when the files it needs are settled, *)
(* and stay so, comes up.                                                   *)
SoundStartSucceeds ==
    [][/\ server.sound /\ server.pc # "up" => server'.pc # "off"
       /\ client.sound /\ client.pc # "up" => client'.pc # "off"]_vars

=============================================================================
