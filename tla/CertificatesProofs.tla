------------------------- MODULE CertificatesProofs -------------------------
(***************************************************************************)
(* Proofs about Certificates, for any number of keys and of failures and any*)
(* way of calling the programs: what rsc-keygen reports done is of use, a   *)
(* start with settled files succeeds, and a server and a client that had    *)
(* settled files with the same CA understand each other for good.           *)
(*                                                                          *)
(* The inductive invariant says what rsc-keygen has made when it goes on to *)
(* its next call of openssl (CommandConsistent), and what a process that    *)
(* started with settled files has read and has still to read (Sound).       *)
(***************************************************************************)
EXTENDS Certificates, TLAPS

(* What rsc-keygen is making is not settled, and nothing is while it makes  *)
(* a CA.  From call to call it has made what the next one relies on.        *)
CommandConsistent ==
    /\ settled # {} => "ca" \in settled
    /\ command.kind \in Kinds =>
          command.kind \notin settled /\ (command.kind = "ca" => settled = {})
    /\ \A k \in Kinds :
          /\ At(k, "csr") => k # "ca"
          /\ k # "ca" /\ command.kind = k /\ command.step \in {"ext", "sign", "cleanup"} =>
                key[k] \in Keys /\ csr[k] = key[k]
          /\ At(k, "cleanup") => k # "ca" /\ crt[k] = [of |-> key[k], by |-> key["ca"]]

(* The files a process reads, and whether it has one still to read.         *)
ServerReads ==
    {f \in Parts : options.server.tls /\ (f = "ca" => options.server.ca)}
ClientReads ==
    {f \in Parts : options.client.ca /\ (f # "ca" => HasIdentity)}
Pending(p, f) == \E i \in DOMAIN p.todo : p.todo[i] = f

(* A process of certificate k that needs certain kinds and reads certain    *)
(* parts.  While it starts, and is sound, it has what is in the files but   *)
(* for those it has still to read; once it is up, what it has read belongs  *)
(* together and to the CA of its start.                                     *)
Sound(p, k, needs, reads) ==
    /\ p.pc = "off" => ~p.sound
    /\ p.sound /\ p.pc \in {"validate", "reading"} =>
          /\ needs \subseteq settled
          /\ p.era = key["ca"]
          /\ \A f \in Parts : /\ Pending(p, f) => f \in reads
                              /\ f \in reads => Pending(p, f) \/ p.read[f] = Content(k, f)
                              /\ f \notin reads => p.read[f] = Missing
    /\ p.sound /\ p.pc = "up" =>
          /\ p.era \in Keys
          /\ "ca" \in reads => p.read["ca"] = [of |-> p.era, by |-> p.era]
          /\ "cert" \in reads =>
                /\ p.read["key"] \in Keys
                /\ p.read["cert"] = [of |-> p.read["key"], by |-> p.era]

ServerSound == Sound(server, "server", ServerNeeds, ServerReads)
ClientSound == Sound(client, "client", ClientNeeds, ClientReads)

IInv == TypeOK /\ SuccessMeansUsable /\ CommandConsistent /\ ServerSound /\ ClientSound

(* A process reads its key with its certificate, and needs the CA, and to   *)
(* have been certified if it reads more than the CA.                        *)
Demands(k, needs, reads) ==
    /\ "ca" \in needs
    /\ "cert" \in reads => "key" \in reads
    /\ \A f \in reads : f # "ca" => k \in needs

----------------------------------------------------------------------------
(* rsc-keygen.                                                              *)

KeygenStep ==
    \/ \E k \in Kinds : genrsa(k) \/ req_new(k) \/ x509_req(k) \/ cleanup(k)
    \/ self_sign \/ write_ext

(* The step of a command is one of its steps. *)
LEMMA CommandType ==
    ASSUME TypeOK, NEW k \in Kinds, NEW s \in {"key", "csr", "ext", "sign", "cleanup"},
           command.kind = k
    PROVE  /\ [command EXCEPT !.step = s] = [kind |-> k, step |-> s]
           /\ [command EXCEPT !.step = s] \in
                 [kind : Kinds, step : {"key", "csr", "ext", "sign", "cleanup"}]
  BY DEF TypeOK, Idle, Kinds

(* A call of rsc-keygen that does not succeed keeps the types. *)
LEMMA FailsType ==
    ASSUME TypeOK, GivesUp
    PROVE  failures' \in 0 .. MaxFailures /\ command' = Idle
  BY CertificatesAssumption DEF TypeOK, GivesUp

(* rsc-keygen writes the files of the kind it makes; with each it settles   *)
(* more, and until the end it has what its next step needs.                 *)
LEMMA KeygenEffect ==
    ASSUME TypeOK, CommandConsistent, KeygenStep
    PROVE  /\ TypeOK'
           /\ UNCHANGED <<server, client, options>>
           /\ settled \subseteq settled'
           /\ \A j \in settled : key'[j] = key[j] /\ crt'[j] = crt[j]
<1>t. /\ key \in [Kinds -> Keys \cup Unusable]
      /\ csr \in [Kinds -> Keys \cup Unusable]
      /\ crt \in [Kinds -> Certs \cup Unusable]
      /\ command \in [kind : Kinds, step : {"key", "csr", "ext", "sign", "cleanup"}] \cup {Idle}
      /\ drawn \in 0 .. MaxKeys /\ failures \in 0 .. MaxFailures
      /\ server \in Processes /\ client \in Processes
      /\ options \in Options
      /\ settled \subseteq Kinds
  BY DEF TypeOK
<1>d. Damaged \in Unusable /\ Missing \in Unusable
  BY DEF Unusable
<1>k. "ca" \in Kinds /\ "server" \in Kinds
  BY DEF Kinds
<1>1. ASSUME NEW k \in Kinds, genrsa(k)
      PROVE  /\ TypeOK' /\ UNCHANGED <<server, client, options, settled, crt>>
             /\ \A j \in Kinds \ {k} : key'[j] = key[j]
             /\ command.kind = k
  <2>1. command.kind = k /\ UNCHANGED <<csr, crt, server, client, options, settled>>
    BY <1>1 DEF genrsa, At
  <2>2. CASE Fails(key, k) /\ UNCHANGED drawn
    <3>1. key' \in [Kinds -> Keys \cup Unusable] /\ \A j \in Kinds \ {k} : key'[j] = key[j]
      BY <1>t, <1>d, <2>2 DEF Fails
    <3> QED BY <1>t, <2>1, <2>2, <3>1, FailsType DEF Fails, TypeOK
  <2>3. CASE /\ drawn < MaxKeys /\ drawn' = drawn + 1
             /\ key' = [key EXCEPT ![k] = drawn']
             /\ Goto(IF k = "ca" THEN "sign" ELSE "csr")
             /\ UNCHANGED failures
    <3>1. drawn' \in Keys /\ drawn' \in 0 .. MaxKeys
      BY <1>t, <2>3, CertificatesAssumption DEF Keys
    <3>2. key' \in [Kinds -> Keys \cup Unusable] /\ \A j \in Kinds \ {k} : key'[j] = key[j]
      BY <1>t, <2>3, <3>1
    <3>3. command' \in [kind : Kinds, step : {"key", "csr", "ext", "sign", "cleanup"}]
      BY <2>1, <2>3, CommandType DEF Goto
    <3> QED BY <1>t, <2>1, <2>3, <3>1, <3>2, <3>3 DEF TypeOK
  <2> QED BY <1>1, <2>2, <2>3 DEF genrsa
<1>2. ASSUME NEW k \in Kinds, req_new(k)
      PROVE  TypeOK' /\ UNCHANGED <<server, client, options, settled, key, crt>>
  <2>1. command.kind = k /\ UNCHANGED <<key, crt, drawn, server, client, options, settled>>
    BY <1>2 DEF req_new, At
  <2>2. CASE Fails(csr, k)
    <3>1. csr' \in [Kinds -> Keys \cup Unusable]
      BY <1>t, <1>d, <2>2 DEF Fails
    <3> QED BY <1>t, <2>1, <2>2, <3>1, FailsType DEF Fails, TypeOK
  <2>3. CASE /\ key[k] \in Keys
             /\ csr' = [csr EXCEPT ![k] = key[k]]
             /\ AfterCsr(k)
             /\ UNCHANGED failures
    <3>1. command' \in [kind : Kinds, step : {"key", "csr", "ext", "sign", "cleanup"}]
      BY <2>1, <2>3, CommandType DEF Goto, AfterCsr
    <3> QED BY <1>t, <2>1, <2>3, <3>1 DEF TypeOK
  <2> QED BY <1>2, <2>1, <2>2, <2>3 DEF req_new
<1>3. ASSUME NEW k \in Kinds, x509_req(k)
      PROVE  /\ TypeOK' /\ UNCHANGED <<server, client, options, settled, key>>
             /\ \A j \in Kinds \ {k} : crt'[j] = crt[j]
             /\ command.kind = k
  <2>1. command.kind = k /\ UNCHANGED <<key, csr, drawn, server, client, options, settled>>
    BY <1>3 DEF x509_req, At
  <2>2. CASE Fails(crt, k)
    <3>1. crt' \in [Kinds -> Certs \cup Unusable] /\ \A j \in Kinds \ {k} : crt'[j] = crt[j]
      BY <1>t, <1>d, <2>2 DEF Fails
    <3> QED BY <1>t, <2>1, <2>2, <3>1, FailsType DEF Fails, TypeOK
  <2>3. CASE /\ CaUsable /\ csr[k] \in Keys
             /\ crt' = [crt EXCEPT ![k] = [of |-> csr[k], by |-> key["ca"]]]
             /\ Goto("cleanup")
             /\ UNCHANGED failures
    <3>1. [of |-> csr[k], by |-> key["ca"]] \in Certs
      BY <2>3 DEF CaUsable, Certs
    <3>2. crt' \in [Kinds -> Certs \cup Unusable] /\ \A j \in Kinds \ {k} : crt'[j] = crt[j]
      BY <1>t, <2>3, <3>1
    <3>3. command' \in [kind : Kinds, step : {"key", "csr", "ext", "sign", "cleanup"}]
      BY <2>1, <2>3, CommandType DEF Goto
    <3> QED BY <1>t, <2>1, <2>3, <3>2, <3>3 DEF TypeOK
  <2> QED BY <1>3, <2>2, <2>3 DEF x509_req
<1>4. ASSUME NEW k \in Kinds, cleanup(k)
      PROVE  TypeOK' /\ UNCHANGED <<server, client, options, key, crt>>
             /\ settled \subseteq settled'
  <2>1. UNCHANGED <<key, crt, drawn, server, client, options>>
    BY <1>4 DEF cleanup
  <2>2. CASE GivesUp /\ UNCHANGED <<csr, settled>>
    BY <1>t, <2>1, <2>2, FailsType DEF TypeOK
  <2>3. CASE /\ csr' \in {csr, [csr EXCEPT ![k] = Missing]}
             /\ command' = Idle
             /\ settled' = IF "ca" \in settled THEN settled \cup {k} ELSE settled
             /\ UNCHANGED failures
    <3>1. csr' \in [Kinds -> Keys \cup Unusable]
      BY <1>t, <1>d, <2>3
    <3> QED BY <1>t, <2>1, <2>3, <3>1 DEF TypeOK
  <2> QED BY <1>4, <2>2, <2>3 DEF cleanup
<1>5. ASSUME self_sign
      PROVE  TypeOK' /\ UNCHANGED <<server, client, options>> /\ settled = {}
  <2>1. /\ command.kind = "ca" /\ UNCHANGED <<key, csr, drawn, server, client, options>>
        /\ settled = {}
    BY <1>5, <1>k DEF self_sign, At, CommandConsistent
  <2>2. CASE Fails(crt, "ca") /\ UNCHANGED settled
    <3>1. crt' \in [Kinds -> Certs \cup Unusable]
      BY <1>t, <1>d, <1>k, <2>2 DEF Fails
    <3> QED BY <1>t, <2>1, <2>2, <3>1, FailsType DEF Fails, TypeOK
  <2>3. CASE /\ key["ca"] \in Keys
             /\ crt' = [crt EXCEPT !["ca"] = [of |-> key["ca"], by |-> key["ca"]]]
             /\ command' = Idle
             /\ settled' = {"ca"}
             /\ UNCHANGED failures
    <3>1. [of |-> key["ca"], by |-> key["ca"]] \in Certs
      BY <2>3 DEF Certs
    <3>2. crt' \in [Kinds -> Certs \cup Unusable]
      BY <1>t, <1>k, <2>3, <3>1
    <3> QED BY <1>t, <1>k, <2>1, <2>3, <3>2 DEF TypeOK
  <2> QED BY <1>5, <2>2, <2>3 DEF self_sign
<1>6. ASSUME write_ext
      PROVE  TypeOK' /\ UNCHANGED <<server, client, options, settled, key, crt>>
  <2>1. command.kind = "server"
        /\ UNCHANGED <<key, csr, crt, drawn, server, client, options, settled>>
    BY <1>6 DEF write_ext, At
  <2>2. CASE GivesUp
    BY <1>t, <2>1, <2>2, FailsType DEF TypeOK
  <2>3. CASE Goto("sign") /\ UNCHANGED failures
    <3>1. command' \in [kind : Kinds, step : {"key", "csr", "ext", "sign", "cleanup"}]
      BY <1>k, <2>1, <2>3, CommandType DEF Goto
    <3> QED BY <1>t, <2>1, <2>3, <3>1 DEF TypeOK
  <2> QED BY <1>6, <2>1, <2>2, <2>3 DEF write_ext
<1>7. \A k \in Kinds : command.kind = k => k \notin settled
  BY DEF CommandConsistent
<1> QED BY <1>t, <1>1, <1>2, <1>3, <1>4, <1>5, <1>6, <1>7 DEF KeygenStep

(* Being called keeps the types; the processes stay, sound or not.          *)
LEMMA CallEffect ==
    ASSUME TypeOK, NEW k \in Kinds, call_keygen(k)
    PROVE  /\ TypeOK'
           /\ UNCHANGED <<key, csr, crt, options>>
           /\ command' = [kind |-> k, step |-> "key"]
           /\ settled' = IF k = "ca" THEN {} ELSE settled \ {k}
           /\ server' = StillSound(server, ServerNeeds, settled')
           /\ client' = StillSound(client, ClientNeeds, settled')
<1>t. /\ key \in [Kinds -> Keys \cup Unusable]
      /\ csr \in [Kinds -> Keys \cup Unusable]
      /\ crt \in [Kinds -> Certs \cup Unusable]
      /\ drawn \in 0 .. MaxKeys /\ failures \in 0 .. MaxFailures
      /\ server \in Processes /\ client \in Processes
      /\ options \in Options
      /\ settled \subseteq Kinds
  BY DEF TypeOK
<1>1. /\ UNCHANGED <<key, csr, crt, drawn, failures, options>>
      /\ command' = [kind |-> k, step |-> "key"]
      /\ settled' = IF k = "ca" THEN {} ELSE settled \ {k}
      /\ server' = StillSound(server, ServerNeeds, settled')
      /\ client' = StillSound(client, ClientNeeds, settled')
  BY DEF call_keygen, files
<1>2. ASSUME NEW p \in Processes, NEW needs, NEW S PROVE StillSound(p, needs, S) \in Processes
  <2>1. PICK b \in BOOLEAN : StillSound(p, needs, S) = [p EXCEPT !.sound = b]
    <3>1. p.sound \in BOOLEAN
      BY DEF Processes
    <3>2. (p.sound /\ (p.pc = "up" \/ needs \subseteq S)) \in BOOLEAN
      BY <3>1
    <3> QED BY <3>2 DEF StillSound
  <2> QED BY <2>1 DEF Processes
<1>3. server' \in Processes /\ client' \in Processes
  BY <1>t, <1>1, <1>2
<1>4. TypeOK'
  BY <1>t, <1>1, <1>3 DEF TypeOK
<1> QED BY <1>1, <1>4

(* What is settled stays usable: its files are not touched, and files are   *)
(* settled with their certificate made for their key by the CA there is.    *)
LEMMA UsableStep ==
    ASSUME TypeOK, SuccessMeansUsable, CommandConsistent,
           KeygenStep \/ \E k \in Kinds : call_keygen(k)
    PROVE  SuccessMeansUsable'
<1>t. crt \in [Kinds -> Certs \cup Unusable] /\ "ca" \in Kinds /\ settled \subseteq Kinds
  BY DEF TypeOK, Kinds
<1>1. ASSUME NEW k \in Kinds, call_keygen(k) PROVE SuccessMeansUsable'
  BY <1>1, CallEffect DEF SuccessMeansUsable
<1>2. CASE KeygenStep
  <2>1. \A j \in settled : key'[j] \in Keys /\ crt'[j] = [of |-> key'[j], by |-> key'["ca"]]
    BY <1>2, KeygenEffect DEF SuccessMeansUsable, CommandConsistent
  <2>2. CASE settled' = settled
    BY <2>1, <2>2 DEF SuccessMeansUsable
  <2>3. CASE /\ key["ca"] \in Keys /\ UNCHANGED key
             /\ crt' = [crt EXCEPT !["ca"] = [of |-> key["ca"], by |-> key["ca"]]]
             /\ settled' = {"ca"}
    BY <1>t, <2>3 DEF SuccessMeansUsable
  <2>4. ASSUME NEW k \in Kinds, cleanup(k), settled' # settled PROVE SuccessMeansUsable'
    <3>1. UNCHANGED <<key, crt>> /\ settled' = settled \cup {k} /\ At(k, "cleanup")
      BY <2>4 DEF cleanup
    <3>2. key[k] \in Keys /\ crt[k] = [of |-> key[k], by |-> key["ca"]]
      BY <3>1 DEF CommandConsistent, At
    <3> QED BY <2>1, <3>1, <3>2 DEF SuccessMeansUsable
  <2>5. \/ settled' = settled
        \/ /\ key["ca"] \in Keys /\ UNCHANGED key
           /\ crt' = [crt EXCEPT !["ca"] = [of |-> key["ca"], by |-> key["ca"]]]
           /\ settled' = {"ca"}
        \/ \E k \in Kinds : cleanup(k)
    BY <1>2 DEF KeygenStep, genrsa, req_new, x509_req, self_sign, write_ext
  <2> QED BY <2>2, <2>3, <2>4, <2>5
<1> QED BY <1>1, <1>2

(* From call to call of openssl, each makes what the next relies on.        *)
LEMMA ConsistentStep ==
    ASSUME TypeOK, CommandConsistent,
           KeygenStep \/ \E k \in Kinds : call_keygen(k)
    PROVE  CommandConsistent'
<1>t. /\ key \in [Kinds -> Keys \cup Unusable]
      /\ csr \in [Kinds -> Keys \cup Unusable]
      /\ crt \in [Kinds -> Certs \cup Unusable]
      /\ settled \subseteq Kinds /\ "ca" \in Kinds /\ "server" \in Kinds
      /\ Idle.kind \notin Kinds
  BY DEF TypeOK, Kinds, Idle
<1>i. ASSUME command' = Idle, settled' # {} => "ca" \in settled' PROVE CommandConsistent'
  BY <1>t, <1>i DEF CommandConsistent, At
<1>s. settled # {} => "ca" \in settled
  BY DEF CommandConsistent
<1>g. ASSUME GivesUp, UNCHANGED settled PROVE CommandConsistent'
  BY <1>g, <1>i, <1>s DEF GivesUp
<1>o. ASSUME NEW k \in Kinds, command.kind = k, UNCHANGED settled,
             NEW s \in {"key", "csr", "ext", "sign", "cleanup"},
             command' = [command EXCEPT !.step = s],
             s = "csr" => k # "ca",
             k # "ca" /\ s \in {"ext", "sign", "cleanup"} => key'[k] \in Keys /\ csr'[k] = key'[k],
             s = "cleanup" => k # "ca" /\ crt'[k] = [of |-> key'[k], by |-> key'["ca"]]
      PROVE  CommandConsistent'
  <2>1. command'.kind = k /\ command'.step = s
    BY <1>o, CommandType
  <2>2. k \notin settled /\ (k = "ca" => settled = {})
    BY <1>o DEF CommandConsistent
  <2> QED BY <1>o, <1>s, <2>1, <2>2 DEF CommandConsistent, At
<1>1. ASSUME NEW k \in Kinds, call_keygen(k) PROVE CommandConsistent'
  <2>1. command'.kind = k /\ command'.step = "key"
    BY <1>1, CallEffect
  <2>2. settled' = IF k = "ca" THEN {} ELSE settled \ {k}
    BY <1>1, CallEffect
  <2> QED BY <1>s, <2>1, <2>2 DEF CommandConsistent, At
<1>2. ASSUME NEW k \in Kinds, genrsa(k) PROVE CommandConsistent'
  <2>1. command.kind = k /\ UNCHANGED settled
    BY <1>2 DEF genrsa, At
  <2> QED BY <1>2, <1>g, <1>o, <2>1 DEF genrsa, Fails, Goto
<1>3. ASSUME NEW k \in Kinds, req_new(k) PROVE CommandConsistent'
  <2>1. command.kind = k /\ UNCHANGED <<settled, key, crt>> /\ k # "ca"
    BY <1>3 DEF req_new, At, CommandConsistent
  <2>2. CASE key[k] \in Keys /\ csr' = [csr EXCEPT ![k] = key[k]] /\ AfterCsr(k)
    <3>1. csr'[k] = key'[k] /\ key'[k] \in Keys
      BY <1>t, <2>1, <2>2
    <3>2. \E s \in {"ext", "sign"} : command' = [command EXCEPT !.step = s]
      BY <2>2 DEF AfterCsr, Goto
    <3> QED BY <1>o, <2>1, <3>1, <3>2
  <2> QED BY <1>3, <1>g, <2>1, <2>2 DEF req_new, Fails
<1>4. ASSUME NEW k \in Kinds, x509_req(k) PROVE CommandConsistent'
  <2>1. command.kind = k /\ UNCHANGED <<settled, key, csr>> /\ k # "ca"
        /\ command.step = "sign"
    BY <1>4 DEF x509_req, At
  <2>2. CASE crt' = [crt EXCEPT ![k] = [of |-> csr[k], by |-> key["ca"]]] /\ Goto("cleanup")
    <3>1. key[k] \in Keys /\ csr[k] = key[k]
      BY <2>1 DEF CommandConsistent
    <3>2. crt'[k] = [of |-> key'[k], by |-> key'["ca"]]
      BY <1>t, <2>1, <2>2, <3>1
    <3> QED BY <1>o, <2>1, <2>2, <3>1, <3>2 DEF Goto
  <2> QED BY <1>4, <1>g, <2>1, <2>2 DEF x509_req, Fails
<1>5. ASSUME NEW k \in Kinds, cleanup(k) PROVE CommandConsistent'
  <2>1. command' = Idle
    BY <1>5 DEF cleanup, GivesUp
  <2>2. settled' = settled \/ "ca" \in settled'
    BY <1>5 DEF cleanup
  <2> QED BY <1>i, <1>s, <2>1, <2>2
<1>6. CASE self_sign
  <2>1. command' = Idle /\ (settled' = settled \/ settled' = {"ca"})
    BY <1>6 DEF self_sign, Fails, GivesUp
  <2> QED BY <1>i, <1>s, <2>1
<1>7. CASE write_ext
  <2>1. command.kind = "server" /\ UNCHANGED <<settled, key, csr, crt>>
        /\ command.step = "ext"
    BY <1>7 DEF write_ext, At
  <2>2. key["server"] \in Keys /\ csr["server"] = key["server"]
    BY <1>t, <2>1 DEF CommandConsistent
  <2>3. CASE Goto("sign")
    BY <1>o, <1>t, <2>1, <2>2, <2>3 DEF Goto
  <2> QED BY <1>7, <1>g, <2>1, <2>3 DEF write_ext
<1> QED BY <1>1, <1>2, <1>3, <1>4, <1>5, <1>6, <1>7 DEF KeygenStep

----------------------------------------------------------------------------
(* Processes that start.                                                    *)

(* What a file holds of which the kind is settled is of use. *)
LEMMA SettledContent ==
    ASSUME TypeOK, SuccessMeansUsable, NEW k \in Kinds, NEW needs, NEW reads,
           Demands(k, needs, reads), needs \subseteq settled, NEW f \in Parts, f \in reads
    PROVE  /\ Content(k, f) \notin Unusable
           /\ f = "ca" => Content(k, f) = [of |-> key["ca"], by |-> key["ca"]]
           /\ f = "cert" => Content(k, f) = [of |-> key[k], by |-> key["ca"]]
           /\ f = "key" => Content(k, f) = key[k]
           /\ f # "ca" => key[k] \in Keys
           /\ key["ca"] \in Keys
<1>1. "ca" \in settled /\ (f # "ca" => k \in settled)
  BY DEF Demands
<1>2. /\ key["ca"] \in Keys /\ crt["ca"] = [of |-> key["ca"], by |-> key["ca"]]
      /\ f # "ca" => key[k] \in Keys /\ crt[k] = [of |-> key[k], by |-> key["ca"]]
  BY <1>1 DEF SuccessMeansUsable
<1>3. crt["ca"] \in Certs /\ (f # "ca" => crt[k] \in Certs)
  BY <1>2 DEF Certs
<1> QED BY <1>2, <1>3, CertificatesAssumption DEF Content, Parts

(* Reading a file keeps the type of a process. *)
LEMMA ReadType ==
    ASSUME TypeOK, NEW p \in Processes, NEW k \in Kinds, p.todo # << >>
    PROVE  /\ Read(p, k) \in Processes
           /\ Head(p.todo) \in Parts
           /\ Read(p, k) # Off =>
                 Read(p, k) = [p EXCEPT !.read = [p.read EXCEPT ![Head(p.todo)] =
                                                     Content(k, Head(p.todo))],
                                        !.todo = Tail(p.todo)]
<1> DEFINE Reads == [ca : Certs \cup Unusable, cert : Certs \cup Unusable, key : Keys \cup Unusable]
<1>1. p.read \in Reads /\ p.todo \in Seq(Parts)
  BY DEF Processes
<1>2. Head(p.todo) \in Parts /\ Tail(p.todo) \in Seq(Parts)
  <2> HIDE DEF Reads
  <2> QED BY <1>1
<1>3. /\ crt["ca"] \in Certs \cup Unusable /\ crt[k] \in Certs \cup Unusable
      /\ key[k] \in Keys \cup Unusable
  BY DEF TypeOK, Kinds
<1>4. PICK f, x, t : f = Head(p.todo) /\ x = Content(k, f) /\ t = Tail(p.todo)
  OBVIOUS
<1>5. [p.read EXCEPT ![f] = x] \in Reads
  <2>1. CASE f = "ca"
    BY <1>1, <1>3, <1>4, <2>1 DEF Content
  <2>2. CASE f = "cert"
    BY <1>1, <1>3, <1>4, <2>2 DEF Content
  <2>3. CASE f = "key"
    BY <1>1, <1>3, <1>4, <2>3 DEF Content
  <2> QED BY <1>2, <1>4, <2>1, <2>2, <2>3 DEF Parts
<1>6. \A rd \in Reads : [p EXCEPT !.read = rd, !.todo = t] \in Processes
  BY <1>2, <1>4 DEF Processes
<1>7. [p EXCEPT !.read[f] = x, !.todo = t] = [p EXCEPT !.read = [p.read EXCEPT ![f] = x], !.todo = t]
  BY DEF Processes
<1>8. Off \in Processes
  BY DEF Off, Processes, Parts, Unusable
<1> HIDE DEF Reads
<1> QED BY <1>2, <1>4, <1>5, <1>6, <1>7, <1>8 DEF Read

(* A process that is not running is sound in no way. *)
LEMMA OffSound ==
    ASSUME NEW k, NEW needs, NEW reads
    PROVE  Off \in Processes /\ Sound(Off, k, needs, reads) /\ Off.pc = "off" /\ ~Off.sound
  BY DEF Off, Sound, Processes, Parts, Unusable

(* A process begins with all it reads before it, and is sound if the files  *)
(* are settled.                                                             *)
LEMMA BegunSound ==
    ASSUME TypeOK, SuccessMeansUsable, NEW k \in Kinds, NEW needs, NEW reads,
           Demands(k, needs, reads), NEW todo \in Seq(Parts),
           \A f \in Parts : f \in reads <=> \E i \in DOMAIN todo : todo[i] = f,
           NEW pc \in {"validate", "reading"}
    PROVE  /\ Begun(pc, needs, todo) \in Processes
           /\ Sound(Begun(pc, needs, todo), k, needs, reads)
<1> DEFINE p == Begun(pc, needs, todo)
<1>b. PICK b : b = (needs \subseteq settled)
  OBVIOUS
<1>e. PICK e : e = IF crt["ca"] \in Certs THEN crt["ca"].of ELSE Missing
  OBVIOUS
<1>1. /\ b \in BOOLEAN /\ b = (needs \subseteq settled)
      /\ e = IF crt["ca"] \in Certs THEN crt["ca"].of ELSE Missing
  BY <1>b, <1>e
<1>2. p = [pc |-> pc, todo |-> todo, read |-> [f \in Parts |-> Missing], sound |-> b, era |-> e]
  BY <1>1 DEF Begun
<1>3. e \in Keys \cup Unusable
  BY <1>1 DEF Certs, Unusable
<1>4. [f \in Parts |-> Missing] \in
         [ca : Certs \cup Unusable, cert : Certs \cup Unusable, key : Keys \cup Unusable]
  BY DEF Parts, Unusable
<1>5. p \in Processes
  BY <1>1, <1>2, <1>3, <1>4 DEF Processes
<1>6. ASSUME b PROVE e = key["ca"]
  <2>1. "ca" \in settled
    BY <1>1, <1>6 DEF Demands
  <2>2. key["ca"] \in Keys /\ crt["ca"] = [of |-> key["ca"], by |-> key["ca"]]
    BY <2>1 DEF SuccessMeansUsable
  <2> QED BY <1>1, <2>2 DEF Certs
<1>7. /\ p.pc = pc /\ p.todo = todo /\ p.sound = b /\ p.era = e
      /\ \A f \in Parts : p.read[f] = Missing
  BY <1>2
<1> HIDE DEF p
<1>8. Sound(p, k, needs, reads)
  BY <1>1, <1>6, <1>7 DEF Sound, Pending
<1> QED BY <1>5, <1>8 DEF p

(* A process that is sound finds what it reads.                             *)
LEMMA ReadSound ==
    ASSUME TypeOK, SuccessMeansUsable, NEW k \in Kinds, NEW needs, NEW reads,
           Demands(k, needs, reads), NEW p \in Processes, Sound(p, k, needs, reads),
           p.pc = "reading", p.todo # << >>
    PROVE  Sound(Read(p, k), k, needs, reads) /\ (p.sound => Read(p, k).pc # "off")
<1>t. p.todo \in Seq(Parts)
  BY DEF Processes
<1>1. CASE Read(p, k) # Off
  <2>1. PICK f, x, t, q : /\ f = Head(p.todo) /\ x = Content(k, f) /\ t = Tail(p.todo)
                          /\ q = Read(p, k)
    OBVIOUS
  <2>2. f \in Parts /\ q = [p EXCEPT !.read = [p.read EXCEPT ![f] = x], !.todo = t]
    BY <1>1, <2>1, ReadType
  <2>3. /\ q.pc = p.pc /\ q.sound = p.sound /\ q.era = p.era /\ q.todo = t
        /\ q.read = [p.read EXCEPT ![f] = x]
    BY <2>2 DEF Processes
  <2>4. q.read[f] = x /\ \A g \in Parts \ {f} : q.read[g] = p.read[g]
    BY <2>2, <2>3 DEF Processes, Parts
  <2>5. \A g : Pending(q, g) => Pending(p, g)
    <3> SUFFICES ASSUME NEW g, NEW i \in DOMAIN t, t[i] = g PROVE Pending(p, g)
      BY <2>3 DEF Pending
    <3>1. i + 1 \in DOMAIN p.todo /\ p.todo[i + 1] = g
      BY <1>t, <2>1
    <3> QED BY <3>1 DEF Pending
  <2>6. \A g : Pending(p, g) /\ g # f => Pending(q, g)
    <3> SUFFICES ASSUME NEW g, NEW i \in DOMAIN p.todo, p.todo[i] = g, g # f
                 PROVE  Pending(q, g)
      BY DEF Pending
    <3>1. i # 1
      BY <1>t, <2>1
    <3>2. i - 1 \in DOMAIN t /\ t[i - 1] = g
      BY <1>t, <2>1, <3>1
    <3> QED BY <2>3, <3>2 DEF Pending
  <2>7. Pending(p, f)
    <3>1. 1 \in DOMAIN p.todo /\ p.todo[1] = f
      BY <1>t, <2>1
    <3> QED BY <3>1 DEF Pending
  <2>8. ASSUME q.sound, NEW g \in Parts
        PROVE  /\ needs \subseteq settled
               /\ q.era = key["ca"]
               /\ Pending(q, g) => g \in reads
               /\ g \in reads => Pending(q, g) \/ q.read[g] = Content(k, g)
               /\ g \notin reads => q.read[g] = Missing
    <3>1. /\ needs \subseteq settled
          /\ q.era = key["ca"]
          /\ Pending(p, g) => g \in reads
          /\ g \in reads => Pending(p, g) \/ p.read[g] = Content(k, g)
          /\ g \notin reads => p.read[g] = Missing
      BY <2>3, <2>8 DEF Sound
    <3>2. f \in reads
      BY <2>2, <2>3, <2>7, <2>8 DEF Sound
    <3>3. CASE g = f
      BY <2>1, <2>4, <2>5, <3>1, <3>2, <3>3
    <3>4. CASE g # f
      BY <2>4, <2>5, <2>6, <3>1, <3>4
    <3> QED BY <3>3, <3>4
  <2>9. q.pc = "reading"
    BY <2>3
  <2>10. Sound(q, k, needs, reads)
    BY <2>3, <2>8, <2>9, CertificatesAssumption DEF Sound, Parts
  <2> QED BY <2>1, <2>9, <2>10
<1>2. CASE Read(p, k) = Off
  <2>1. ~p.sound
    <3> SUFFICES ASSUME p.sound PROVE FALSE
      OBVIOUS
    <3>1. PICK f \in Parts : f = Head(p.todo)
      BY ReadType
    <3>2. 1 \in DOMAIN p.todo /\ p.todo[1] = f
      BY <1>t, <3>1
    <3>3. f \in reads /\ needs \subseteq settled
      BY <3>2 DEF Sound, Pending
    <3>4. Content(k, f) # Missing
      BY <3>3, SettledContent DEF Unusable
    <3>5. PICK q : q = [p EXCEPT !.read[f] = Content(k, f), !.todo = Tail(p.todo)]
      OBVIOUS
    <3>6. q.pc = "reading"
      BY <3>5 DEF Processes
    <3>7. Read(p, k) = q
      BY <3>1, <3>4, <3>5 DEF Read
    <3> QED BY <1>2, <3>6, <3>7, OffSound
  <2> QED BY <1>2, <2>1, OffSound
<1> QED BY <1>1, <1>2

(* A sound process that has read all has nothing damaged, and comes up with *)
(* what belongs together.                                                   *)
LEMMA UpSound ==
    ASSUME TypeOK, SuccessMeansUsable, NEW k \in Kinds, NEW needs, NEW reads,
           Demands(k, needs, reads), NEW p \in Processes, Sound(p, k, needs, reads),
           p.pc = "reading", p.todo = << >>
    PROVE  /\ [p EXCEPT !.pc = "up"] \in Processes
           /\ Sound([p EXCEPT !.pc = "up"], k, needs, reads)
           /\ p.sound => \A f \in Parts : p.read[f] # Damaged
<1>1. \A f : ~Pending(p, f)
  BY DEF Pending
<1>2. ASSUME p.sound
      PROVE  /\ needs \subseteq settled /\ p.era = key["ca"]
             /\ \A f \in Parts : /\ f \in reads => p.read[f] = Content(k, f)
                                 /\ f \notin reads => p.read[f] = Missing
  BY <1>1, <1>2 DEF Sound
<1>3. p.sound => \A f \in Parts : p.read[f] # Damaged
  BY <1>2, SettledContent, CertificatesAssumption DEF Unusable
<1>4. PICK q : q = [p EXCEPT !.pc = "up"]
  OBVIOUS
<1>5. /\ q \in Processes
      /\ q.pc = "up" /\ q.sound = p.sound /\ q.era = p.era /\ q.read = p.read
  BY <1>4 DEF Processes
<1>6. ASSUME p.sound
      PROVE  /\ p.era \in Keys
             /\ "ca" \in reads => p.read["ca"] = [of |-> p.era, by |-> p.era]
             /\ "cert" \in reads =>
                   /\ p.read["key"] \in Keys
                   /\ p.read["cert"] = [of |-> p.read["key"], by |-> p.era]
  <2>1. p.era \in Keys
    BY <1>2, <1>6 DEF Demands, SuccessMeansUsable
  <2>2. "ca" \in Parts /\ "cert" \in Parts /\ "key" \in Parts
    BY DEF Parts
  <2>3. "ca" \in reads => p.read["ca"] = [of |-> p.era, by |-> p.era]
    BY <1>2, <1>6, <2>2, SettledContent
  <2>4. "cert" \in reads => /\ p.read["key"] = key[k] /\ key[k] \in Keys
                            /\ p.read["cert"] = [of |-> key[k], by |-> p.era]
    <3> SUFFICES ASSUME "cert" \in reads
                 PROVE  /\ p.read["key"] = key[k] /\ key[k] \in Keys
                        /\ p.read["cert"] = [of |-> key[k], by |-> p.era]
      OBVIOUS
    <3>1. "key" \in reads
      BY DEF Demands
    <3>2. Content(k, "key") = key[k] /\ key[k] \in Keys
      BY <1>2, <1>6, <2>2, <3>1, SettledContent
    <3>3. Content(k, "cert") = [of |-> key[k], by |-> key["ca"]]
      BY <1>2, <1>6, <2>2, SettledContent
    <3> QED BY <1>2, <1>6, <2>2, <3>1, <3>2, <3>3
  <2> QED BY <2>1, <2>3, <2>4
<1>7. Sound(q, k, needs, reads)
  BY <1>5, <1>6 DEF Sound
<1> QED BY <1>3, <1>4, <1>5, <1>7

(* Validating changes nothing but where a process is. *)
LEMMA ValidateSound ==
    ASSUME NEW k, NEW needs, NEW reads, NEW p \in Processes, Sound(p, k, needs, reads),
           p.pc = "validate"
    PROVE  /\ [p EXCEPT !.pc = "reading"] \in Processes
           /\ Sound([p EXCEPT !.pc = "reading"], k, needs, reads)
<1>1. PICK q : q = [p EXCEPT !.pc = "reading"]
  OBVIOUS
<1>2. /\ q \in Processes /\ q.pc = "reading"
      /\ q.sound = p.sound /\ q.era = p.era /\ q.read = p.read /\ q.todo = p.todo
  BY <1>1 DEF Processes
<1>3. Sound(q, k, needs, reads)
  BY <1>2 DEF Sound, Pending
<1> QED BY <1>1, <1>2, <1>3

----------------------------------------------------------------------------
(* Processes that are left alone.                                           *)

(* A process is sound as long as what is settled stays as it is.            *)
LEMMA SoundKept ==
    ASSUME TypeOK, NEW k \in Kinds, NEW needs, NEW reads, Demands(k, needs, reads),
           NEW p, Sound(p, k, needs, reads),
           p.sound /\ p.pc # "up" => needs \subseteq settled',
           \A j \in settled : key'[j] = key[j] /\ crt'[j] = crt[j]
    PROVE  Sound(p, k, needs, reads)'
<1>1. ASSUME p.sound, p.pc \in {"validate", "reading"}, NEW f \in Parts
      PROVE  /\ needs \subseteq settled'
             /\ p.era = key'["ca"]
             /\ Pending(p, f) => f \in reads
             /\ f \in reads => Pending(p, f) \/ p.read[f] = Content(k, f)'
             /\ f \notin reads => p.read[f] = Missing
  <2>1. /\ needs \subseteq settled /\ p.era = key["ca"]
        /\ Pending(p, f) => f \in reads
        /\ f \in reads => Pending(p, f) \/ p.read[f] = Content(k, f)
        /\ f \notin reads => p.read[f] = Missing
    BY <1>1 DEF Sound
  <2>2. "ca" \in settled /\ (f \in reads /\ f # "ca" => k \in settled)
    BY <2>1 DEF Demands
  <2>3. f \in reads => Content(k, f)' = Content(k, f)
    BY <2>2 DEF Content, Parts
  <2> QED BY <1>1, <2>1, <2>2, <2>3
<1>2. /\ p.pc = "off" => ~p.sound
      /\ p.sound /\ p.pc = "up" =>
          /\ p.era \in Keys
          /\ "ca" \in reads => p.read["ca"] = [of |-> p.era, by |-> p.era]
          /\ "cert" \in reads =>
                /\ p.read["key"] \in Keys
                /\ p.read["cert"] = [of |-> p.read["key"], by |-> p.era]
  BY DEF Sound
<1>3. "ca" \in Parts
  BY DEF Parts
<1> QED BY <1>1, <1>2, <1>3 DEF Sound, Pending

(* A call of rsc-keygen leaves only those sound that need nothing of what   *)
(* it makes anew.                                                           *)
LEMMA StillSoundKept ==
    ASSUME TypeOK, NEW k \in Kinds, NEW needs, NEW reads, Demands(k, needs, reads),
           NEW p \in Processes, Sound(p, k, needs, reads), UNCHANGED <<key, crt>>,
           NEW q, q = StillSound(p, needs, settled')
    PROVE  Sound(q, k, needs, reads)'
<1>1. PICK b : b = (p.sound /\ (p.pc = "up" \/ needs \subseteq settled'))
  OBVIOUS
<1>2. q = [p EXCEPT !.sound = b]
  BY <1>1 DEF StillSound
<1>3. /\ q.pc = p.pc /\ q.read = p.read /\ q.era = p.era /\ q.todo = p.todo /\ q.sound = b
      /\ p.pc \in {"off", "validate", "reading", "up"}
  BY <1>2 DEF Processes
<1>4. Sound(q, k, needs, reads)
  BY <1>1, <1>3 DEF Sound, Pending
<1>5. q.sound /\ q.pc # "up" => needs \subseteq settled'
  BY <1>1, <1>3
<1> QED BY <1>4, <1>5, SoundKept

(* The files the two programs read are covered by the kinds they need.      *)
LEMMA BothDemand ==
    ASSUME TypeOK
    PROVE  /\ Demands("server", ServerNeeds, ServerReads)
           /\ Demands("client", ClientNeeds, ClientReads)
<1>1. Demands("server", ServerNeeds, ServerReads)
  BY DEF Demands, ServerNeeds, ServerReads, Parts
<1>2. Demands("client", ClientNeeds, ClientReads)
  <2>1. "ca" \in ClientNeeds
    BY DEF ClientNeeds
  <2>2. HasIdentity => "client" \in ClientNeeds
    BY DEF ClientNeeds, HasIdentity
  <2> QED BY <2>1, <2>2 DEF Demands, ClientReads, Parts
<1> QED BY <1>1, <1>2

----------------------------------------------------------------------------
(* The steps of rsc-keygen.                                                 *)

(* Being called keeps the inductive invariant. *)
LEMMA CallKeeps ==
    ASSUME IInv, NEW k \in Kinds, call_keygen(k)
    PROVE  IInv'
<1>1. TypeOK /\ SuccessMeansUsable /\ CommandConsistent /\ ServerSound /\ ClientSound
  BY DEF IInv
<1>2. /\ TypeOK'
      /\ UNCHANGED <<key, csr, crt, options>>
      /\ server' = StillSound(server, ServerNeeds, settled')
      /\ client' = StillSound(client, ClientNeeds, settled')
  BY <1>1, CallEffect
<1>3. SuccessMeansUsable'
  BY <1>1, UsableStep
<1>4. CommandConsistent'
  BY <1>1, ConsistentStep
<1>5. ServerSound'
  <2>1. PICK p, q, reads : p = server /\ q = server' /\ reads = ServerReads
    OBVIOUS
  <2>2. Sound(q, "server", ServerNeeds, reads)'
    BY <1>1, <1>2, <2>1, StillSoundKept, BothDemand DEF ServerSound, TypeOK, Kinds
  <2>3. ServerReads' = reads
    BY <1>2, <2>1 DEF ServerReads
  <2> QED BY <2>1, <2>2, <2>3 DEF ServerSound, Sound, Pending, ServerNeeds
<1>6. ClientSound'
  <2>1. PICK p, q, needs, reads : p = client /\ q = client' /\ needs = ClientNeeds
                                  /\ reads = ClientReads
    OBVIOUS
  <2>2. Sound(q, "client", needs, reads)'
    BY <1>1, <1>2, <2>1, StillSoundKept, BothDemand DEF ClientSound, TypeOK, Kinds
  <2>3. ClientReads' = reads /\ ClientNeeds' = needs
    BY <1>2, <2>1 DEF ClientReads, ClientNeeds, HasIdentity
  <2> QED BY <2>1, <2>2, <2>3 DEF ClientSound, Sound, Pending
<1> QED BY <1>2, <1>3, <1>4, <1>5, <1>6 DEF IInv

(* A process that has not moved stays sound when nothing settled changes.   *)
LEMMA ServerStays ==
    ASSUME TypeOK, ServerSound, UNCHANGED <<server, options>>, settled \subseteq settled',
           \A j \in settled : key'[j] = key[j] /\ crt'[j] = crt[j]
    PROVE  ServerSound'
<1>1. PICK p, reads : p = server /\ reads = ServerReads
  OBVIOUS
<1>2. p.sound /\ p.pc # "up" => ServerNeeds \subseteq settled
  BY <1>1 DEF ServerSound, Sound, TypeOK, Processes
<1>3. Sound(p, "server", ServerNeeds, reads)'
  BY <1>1, <1>2, SoundKept, BothDemand DEF ServerSound, Kinds
<1>4. ServerReads' = reads
  BY <1>1 DEF ServerReads
<1> QED BY <1>1, <1>3, <1>4 DEF ServerSound, Sound, Pending, ServerNeeds

(* The same of the client.                                                  *)
LEMMA ClientStays ==
    ASSUME TypeOK, ClientSound, UNCHANGED <<client, options>>, settled \subseteq settled',
           \A j \in settled : key'[j] = key[j] /\ crt'[j] = crt[j]
    PROVE  ClientSound'
<1>1. PICK p, needs, reads : p = client /\ needs = ClientNeeds /\ reads = ClientReads
  OBVIOUS
<1>2. p.sound /\ p.pc # "up" => needs \subseteq settled
  BY <1>1 DEF ClientSound, Sound, TypeOK, Processes
<1>3. Sound(p, "client", needs, reads)'
  BY <1>1, <1>2, SoundKept, BothDemand DEF ClientSound, Kinds
<1>4. ClientReads' = reads /\ ClientNeeds' = needs
  BY <1>1 DEF ClientReads, ClientNeeds, HasIdentity
<1> QED BY <1>1, <1>3, <1>4 DEF ClientSound, Sound, Pending

(* So do the steps that follow. *)
LEMMA KeygenKeeps ==
    ASSUME IInv, KeygenStep
    PROVE  IInv'
<1>1. TypeOK /\ SuccessMeansUsable /\ CommandConsistent /\ ServerSound /\ ClientSound
  BY DEF IInv
<1>2. /\ TypeOK'
      /\ UNCHANGED <<server, client, options>>
      /\ settled \subseteq settled'
      /\ \A j \in settled : key'[j] = key[j] /\ crt'[j] = crt[j]
  BY <1>1, KeygenEffect
<1>3. SuccessMeansUsable'
  BY <1>1, UsableStep
<1>4. CommandConsistent'
  BY <1>1, ConsistentStep
<1>5. ServerSound' /\ ClientSound'
  BY <1>1, <1>2, ServerStays, ClientStays
<1> QED BY <1>2, <1>3, <1>4, <1>5 DEF IInv

----------------------------------------------------------------------------
(* The steps of the server and of the client.                               *)

(* A server that moves to a sound state keeps the inductive invariant.      *)
LEMMA ServerMoves ==
    ASSUME IInv, UNCHANGED <<files, command, client, options, settled>>,
           server' \in Processes, Sound(server', "server", ServerNeeds, ServerReads)
    PROVE  IInv'
<1>1. TypeOK /\ SuccessMeansUsable /\ CommandConsistent /\ ServerSound /\ ClientSound
  BY DEF IInv
<1>2. TypeOK'
  BY <1>1 DEF TypeOK, files
<1>3. SuccessMeansUsable' /\ CommandConsistent'
  BY <1>1 DEF SuccessMeansUsable, CommandConsistent, At, files
<1>4. ClientSound'
  BY <1>1, ClientStays DEF files
<1>5. ServerSound'
  <2>1. PICK p, reads : p = server' /\ reads = ServerReads
    OBVIOUS
  <2>2. p.sound /\ p.pc # "up" => ServerNeeds \subseteq settled
    BY <2>1 DEF Sound, Processes
  <2>3. Sound(p, "server", ServerNeeds, reads)'
    BY <1>1, <2>1, <2>2, SoundKept, BothDemand DEF files, Kinds
  <2>4. ServerReads' = reads
    BY <2>1 DEF ServerReads
  <2> QED BY <2>1, <2>3, <2>4 DEF ServerSound, Sound, Pending, ServerNeeds
<1> QED BY <1>2, <1>3, <1>4, <1>5 DEF IInv

(* The same of the client.                                                  *)
LEMMA ClientMoves ==
    ASSUME IInv, UNCHANGED <<files, command, server, options, settled>>,
           client' \in Processes, Sound(client', "client", ClientNeeds, ClientReads)
    PROVE  IInv'
<1>1. TypeOK /\ SuccessMeansUsable /\ CommandConsistent /\ ServerSound /\ ClientSound
  BY DEF IInv
<1>2. TypeOK'
  BY <1>1 DEF TypeOK, files
<1>3. SuccessMeansUsable' /\ CommandConsistent'
  BY <1>1 DEF SuccessMeansUsable, CommandConsistent, At, files
<1>4. ServerSound'
  BY <1>1, ServerStays DEF files
<1>5. ClientSound'
  <2>1. PICK p, needs, reads : p = client' /\ needs = ClientNeeds /\ reads = ClientReads
    OBVIOUS
  <2>2. p.sound /\ p.pc # "up" => needs \subseteq settled
    BY <2>1 DEF Sound, Processes
  <2>3. Sound(p, "client", needs, reads)'
    BY <1>1, <2>1, <2>2, SoundKept, BothDemand DEF files, Kinds
  <2>4. ClientReads' = reads /\ ClientNeeds' = needs
    BY <2>1 DEF ClientReads, ClientNeeds, HasIdentity
  <2> QED BY <2>1, <2>3, <2>4 DEF ClientSound, Sound, Pending
<1> QED BY <1>2, <1>3, <1>4, <1>5 DEF IInv

(* A part is in a list of them. *)
Listed(f, s) == \E i \in DOMAIN s : s[i] = f

(* A list of two parts lists what either does. *)
LEMMA ListedFiles ==
    ASSUME NEW s \in Seq(Parts), NEW t \in Seq(Parts)
    PROVE  /\ s \o t \in Seq(Parts)
           /\ \A f : Listed(f, s \o t) <=> Listed(f, s) \/ Listed(f, t)
<1>1. /\ s \o t \in Seq(Parts) /\ Len(s \o t) = Len(s) + Len(t)
      /\ \A i \in 1 .. Len(s) : (s \o t)[i] = s[i]
      /\ \A i \in 1 .. Len(t) : (s \o t)[Len(s) + i] = t[i]
  OBVIOUS
<1>2. /\ DOMAIN s = 1 .. Len(s) /\ DOMAIN t = 1 .. Len(t)
      /\ DOMAIN (s \o t) = 1 .. Len(s) + Len(t)
      /\ Len(s) \in Nat /\ Len(t) \in Nat
  BY <1>1
<1>3. ASSUME NEW f, NEW i \in DOMAIN (s \o t), (s \o t)[i] = f
      PROVE  (\E j \in DOMAIN s : s[j] = f) \/ (\E j \in DOMAIN t : t[j] = f)
  <2>1. CASE i \in 1 .. Len(s)
    BY <1>1, <1>2, <1>3, <2>1
  <2>2. CASE i \notin 1 .. Len(s)
    <3>1. i - Len(s) \in 1 .. Len(t) /\ i = Len(s) + (i - Len(s))
      BY <1>2, <1>3, <2>2
    <3>2. t[i - Len(s)] = f
      BY <1>1, <1>3, <3>1
    <3> QED BY <1>2, <3>1, <3>2
  <2> QED BY <2>1, <2>2
<1>4. ASSUME NEW f, NEW i \in DOMAIN s, s[i] = f
      PROVE  \E j \in DOMAIN (s \o t) : (s \o t)[j] = f
  BY <1>1, <1>2, <1>4
<1>5. ASSUME NEW f, NEW i \in DOMAIN t, t[i] = f
      PROVE  \E j \in DOMAIN (s \o t) : (s \o t)[j] = f
  <2>1. Len(s) + i \in DOMAIN (s \o t) /\ (s \o t)[Len(s) + i] = f
    BY <1>1, <1>2, <1>5
  <2> QED BY <2>1
<1> QED BY <1>1, <1>3, <1>4, <1>5 DEF Listed

(* What is listed for a CA and for an identity. *)
LEMMA ListedParts ==
    ASSUME NEW ca \in BOOLEAN, NEW id \in BOOLEAN,
           NEW s, s = IF id THEN <<"cert", "key">> ELSE << >>,
           NEW t, t = IF ca THEN <<"ca">> ELSE << >>
    PROVE  /\ s \in Seq(Parts) /\ t \in Seq(Parts)
           /\ \A f : Listed(f, s) <=> id /\ f \in {"cert", "key"}
           /\ \A f : Listed(f, t) <=> ca /\ f = "ca"
<1>1. <<"cert", "key">> \in Seq(Parts) /\ <<"ca">> \in Seq(Parts) /\ << >> \in Seq(Parts)
  BY DEF Parts
<1>2. \A f : (\E i \in DOMAIN <<"cert", "key">> : <<"cert", "key">>[i] = f)
             <=> f \in {"cert", "key"}
  <2>1. /\ DOMAIN <<"cert", "key">> = 1 .. 2
        /\ <<"cert", "key">>[1] = "cert" /\ <<"cert", "key">>[2] = "key"
    OBVIOUS
  <2> QED BY <2>1
<1>3. \A f : (\E i \in DOMAIN <<"ca">> : <<"ca">>[i] = f) <=> f = "ca"
  <2>1. DOMAIN <<"ca">> = 1 .. 1 /\ <<"ca">>[1] = "ca"
    OBVIOUS
  <2> QED BY <2>1
<1>4. \A i : i \notin DOMAIN << >>
  OBVIOUS
<1>5. s \in Seq(Parts) /\ \A f : (\E i \in DOMAIN s : s[i] = f) <=> id /\ f \in {"cert", "key"}
  <2>1. CASE id
    BY <1>1, <1>2, <2>1
  <2>2. CASE ~id
    BY <1>1, <1>4, <2>2
  <2> QED BY <2>1, <2>2
<1>6. t \in Seq(Parts) /\ \A f : (\E i \in DOMAIN t : t[i] = f) <=> ca /\ f = "ca"
  <2>1. CASE ca
    BY <1>1, <1>3, <2>1
  <2>2. CASE ~ca
    BY <1>1, <1>4, <2>2
  <2> QED BY <2>1, <2>2
<1> QED BY <1>5, <1>6 DEF Listed

ServerSteps == start_server \/ create_server_tls_config \/ serve \/ stop_server
ClientSteps == start_client \/ validate \/ build_tls_config \/ stop_client

(* The server's steps keep the inductive invariant, and end no sound start. *)
LEMMA ServerKeeps ==
    ASSUME IInv, ServerSteps
    PROVE  IInv' /\ (server.sound /\ server.pc # "up" => server'.pc # "off")
<1>1. /\ TypeOK /\ SuccessMeansUsable /\ server \in Processes /\ "server" \in Kinds
      /\ Sound(server, "server", ServerNeeds, ServerReads)
      /\ Demands("server", ServerNeeds, ServerReads)
  BY BothDemand DEF IInv, TypeOK, ServerSound, Kinds
<1>2. UNCHANGED <<files, command, client, options, settled>>
  BY DEF ServerSteps, start_server, create_server_tls_config, serve, stop_server
<1>3. CASE start_server
  <2>1. PICK tls, ca : tls = options.server.tls /\ ca = (options.server.tls /\ options.server.ca)
    OBVIOUS
  <2>2. PICK s, t : /\ s = IF tls THEN <<"cert", "key">> ELSE << >>
                    /\ t = IF ca THEN <<"ca">> ELSE << >>
    OBVIOUS
  <2>3. tls \in BOOLEAN /\ ca \in BOOLEAN
    BY <1>1, <2>1, CertificatesAssumption DEF TypeOK
  <2>4. /\ s \in Seq(Parts) /\ t \in Seq(Parts)
        /\ \A f : Listed(f, s) <=> tls /\ f \in {"cert", "key"}
        /\ \A f : Listed(f, t) <=> ca /\ f = "ca"
    BY <2>2, <2>3, ListedParts, Zenon
  <2>5. server' = Begun("reading", ServerNeeds, s \o t)
    BY <1>3, <2>1, <2>2 DEF start_server
  <2>6. PICK todo : todo = s \o t
    OBVIOUS
  <2>7. /\ todo \in Seq(Parts)
        /\ \A f : Listed(f, todo) <=> (tls /\ f \in {"cert", "key"}) \/ (ca /\ f = "ca")
    BY <2>4, <2>6, ListedFiles
  <2>8. \A f \in Parts : f \in ServerReads <=> \E i \in DOMAIN todo : todo[i] = f
    BY <2>1, <2>3, <2>7 DEF ServerReads, Parts, Listed
  <2>9. server' \in Processes /\ Sound(server', "server", ServerNeeds, ServerReads)
    BY <1>1, <2>5, <2>6, <2>7, <2>8, BegunSound
  <2>10. ~server.sound
    BY <1>1, <1>3 DEF start_server, Sound
  <2> QED BY <1>2, <2>9, <2>10, ServerMoves
<1>4. CASE create_server_tls_config
  <2>1. server.pc = "reading" /\ server.todo # << >> /\ server' = Read(server, "server")
    BY <1>4 DEF create_server_tls_config
  <2>2. server' \in Processes
    BY <1>1, <2>1, ReadType
  <2>3. /\ Sound(server', "server", ServerNeeds, ServerReads)
        /\ server.sound => server'.pc # "off"
    BY <1>1, <2>1, ReadSound
  <2> QED BY <1>2, <2>2, <2>3, ServerMoves
<1>5. CASE serve
  <2>1. /\ server.pc = "reading" /\ server.todo = << >>
        /\ server' = IF \E f \in Parts : server.read[f] = Damaged
                     THEN Off ELSE [server EXCEPT !.pc = "up"]
    BY <1>5 DEF serve
  <2>2. /\ [server EXCEPT !.pc = "up"] \in Processes
        /\ Sound([server EXCEPT !.pc = "up"], "server", ServerNeeds, ServerReads)
        /\ server.sound => \A f \in Parts : server.read[f] # Damaged
    BY <1>1, <2>1, UpSound
  <2>3. [server EXCEPT !.pc = "up"].pc = "up"
    BY <1>1 DEF Processes
  <2>4. server' \in Processes /\ Sound(server', "server", ServerNeeds, ServerReads)
    BY <2>1, <2>2, OffSound
  <2> QED BY <1>2, <2>1, <2>2, <2>3, <2>4, ServerMoves
<1>6. CASE stop_server
  <2>1. server.pc = "up" /\ server' = Off
    BY <1>6 DEF stop_server
  <2>2. server' \in Processes /\ Sound(server', "server", ServerNeeds, ServerReads)
    BY <2>1, OffSound
  <2> QED BY <1>2, <2>1, <2>2, ServerMoves
<1> QED BY <1>3, <1>4, <1>5, <1>6 DEF ServerSteps

(* So do the client's.  The files its configuration file names are there    *)
(* when they are settled.                                                   *)
LEMMA ClientKeeps ==
    ASSUME IInv, ClientSteps
    PROVE  IInv' /\ (client.sound /\ client.pc # "up" => client'.pc # "off")
<1>1. /\ TypeOK /\ SuccessMeansUsable /\ client \in Processes /\ "client" \in Kinds
      /\ Sound(client, "client", ClientNeeds, ClientReads)
      /\ Demands("client", ClientNeeds, ClientReads)
  BY BothDemand DEF IInv, TypeOK, ClientSound, Kinds
<1>2. UNCHANGED <<files, command, server, options, settled>>
  BY DEF ClientSteps, start_client, validate, build_tls_config, stop_client
<1>3. CASE start_client
  <2>1. PICK ca, id : ca = options.client.ca /\ id = HasIdentity
    OBVIOUS
  <2>2. PICK s, t : /\ s = IF id THEN <<"cert", "key">> ELSE << >>
                    /\ t = IF ca THEN <<"ca">> ELSE << >>
    OBVIOUS
  <2>3. id \in BOOLEAN /\ ca \in BOOLEAN
    BY <1>1, <2>1, CertificatesAssumption DEF TypeOK, HasIdentity
  <2>4. /\ s \in Seq(Parts) /\ t \in Seq(Parts)
        /\ \A f : Listed(f, s) <=> id /\ f \in {"cert", "key"}
        /\ \A f : Listed(f, t) <=> ca /\ f = "ca"
    BY <2>2, <2>3, ListedParts, Zenon
  <2>5. client' = Begun("validate", ClientNeeds, t \o s)
    BY <1>3, <2>1, <2>2 DEF start_client
  <2>6. PICK todo : todo = t \o s
    OBVIOUS
  <2>7. /\ todo \in Seq(Parts)
        /\ \A f : Listed(f, todo) <=> (id /\ f \in {"cert", "key"}) \/ (ca /\ f = "ca")
    BY <2>4, <2>6, ListedFiles
  <2>8. \A f \in Parts : f \in ClientReads <=> \E i \in DOMAIN todo : todo[i] = f
    BY <2>1, <2>3, <2>7 DEF ClientReads, HasIdentity, Parts, Listed
  <2>9. client' \in Processes /\ Sound(client', "client", ClientNeeds, ClientReads)
    BY <1>1, <2>5, <2>6, <2>7, <2>8, BegunSound
  <2>10. ~client.sound
    BY <1>1, <1>3 DEF start_client, Sound
  <2> QED BY <1>2, <2>9, <2>10, ClientMoves
<1>4. CASE validate
  <2>1. client.pc = "validate" /\ client' = IF Validates THEN [client EXCEPT !.pc = "reading"] ELSE Off
    BY <1>4 DEF validate
  <2>2. /\ [client EXCEPT !.pc = "reading"] \in Processes
        /\ Sound([client EXCEPT !.pc = "reading"], "client", ClientNeeds, ClientReads)
    BY <1>1, <2>1, ValidateSound
  <2>3. [client EXCEPT !.pc = "reading"].pc = "reading"
    BY <1>1 DEF Processes
  <2>4. client' \in Processes /\ Sound(client', "client", ClientNeeds, ClientReads)
    BY <2>1, <2>2, OffSound
  <2>5. ASSUME client.sound PROVE Validates
    <3>1. ClientNeeds \subseteq settled
      BY <1>1, <2>1, <2>5 DEF Sound, Parts
    <3>2. SUFFICES ASSUME options.client.ca, NEW f \in Parts, options.client[f]
                   PROVE  Content("client", f) # Missing
      BY DEF Validates
    <3>3. "ca" \in settled /\ (f # "ca" => "client" \in settled)
      BY <3>1, <3>2 DEF ClientNeeds, Parts
    <3>4. /\ key["ca"] \in Keys /\ crt["ca"] = [of |-> key["ca"], by |-> key["ca"]]
          /\ f # "ca" => /\ key["client"] \in Keys
                         /\ crt["client"] = [of |-> key["client"], by |-> key["ca"]]
      BY <1>1, <3>3 DEF SuccessMeansUsable
    <3>5. crt["ca"] \in Certs /\ (f # "ca" => crt["client"] \in Certs)
      BY <3>4 DEF Certs
    <3> QED BY <3>4, <3>5, CertificatesAssumption DEF Content, Parts, Unusable
  <2> QED BY <1>2, <2>1, <2>3, <2>4, <2>5, ClientMoves
<1>5. CASE build_tls_config
  <2>1. client.pc = "reading"
    BY <1>5 DEF build_tls_config
  <2>2. CASE client.todo = << >>
    <3>1. client' = [client EXCEPT !.pc = "up"]
      BY <1>5, <2>2 DEF build_tls_config
    <3>2. client' \in Processes /\ Sound(client', "client", ClientNeeds, ClientReads)
      BY <1>1, <2>1, <2>2, <3>1, UpSound
    <3>3. client'.pc = "up"
      BY <1>1, <3>1 DEF Processes
    <3> QED BY <1>2, <3>2, <3>3, ClientMoves
  <2>3. CASE client.todo # << >>
    <3>1. client' = Read(client, "client")
      BY <1>5, <2>3 DEF build_tls_config
    <3>2. client' \in Processes
      BY <1>1, <2>3, <3>1, ReadType
    <3>3. /\ Sound(client', "client", ClientNeeds, ClientReads)
          /\ client.sound => client'.pc # "off"
      BY <1>1, <2>1, <2>3, <3>1, ReadSound
    <3> QED BY <1>2, <3>2, <3>3, ClientMoves
  <2> QED BY <2>2, <2>3
<1>6. CASE stop_client
  <2>1. client.pc = "up" /\ client' = Off
    BY <1>6 DEF stop_client
  <2>2. client' \in Processes /\ Sound(client', "client", ClientNeeds, ClientReads)
    BY <2>1, OffSound
  <2> QED BY <1>2, <2>1, <2>2, ClientMoves
<1> QED BY <1>3, <1>4, <1>5, <1>6 DEF ClientSteps

----------------------------------------------------------------------------
(* The theorems.                                                            *)

(* At first nothing is there, settled or running. *)
LEMMA InitInvariant == Init => IInv
<1> SUFFICES ASSUME Init PROVE IInv
  OBVIOUS
<1>1. TypeOK
  BY CertificatesAssumption, OffSound DEF Init, TypeOK, Unusable, Kinds
<1>2. SuccessMeansUsable
  BY DEF Init, SuccessMeansUsable
<1>3. CommandConsistent
  BY DEF Init, CommandConsistent, Idle, At, Kinds
<1>4. ServerSound /\ ClientSound
  BY OffSound DEF Init, ServerSound, ClientSound
<1> QED BY <1>1, <1>2, <1>3, <1>4 DEF IInv

(* A step is a call of rsc-keygen, one of its steps or one of a program.    *)
LEMMA Steps ==
    ASSUME Next
    PROVE  (\E k \in Kinds : call_keygen(k)) \/ KeygenStep \/ ServerSteps \/ ClientSteps
  BY DEF Next, KeygenStep, ServerSteps, ClientSteps

(* Every step keeps the inductive invariant. *)
LEMMA StepInvariant == IInv /\ [Next]_vars => IInv'
<1> SUFFICES ASSUME IInv, [Next]_vars PROVE IInv'
  OBVIOUS
<1>1. CASE Next
  BY <1>1, Steps, CallKeeps, KeygenKeeps, ServerKeeps, ClientKeeps
<1>2. CASE UNCHANGED vars
  <2>1. ServerSound' /\ ClientSound'
    BY <1>2, ServerStays, ClientStays DEF IInv, vars, files
  <2>2. TypeOK' /\ SuccessMeansUsable' /\ CommandConsistent'
    BY <1>2 DEF IInv, vars, files, TypeOK, SuccessMeansUsable, CommandConsistent, At
  <2> QED BY <2>1, <2>2 DEF IInv
<1> QED BY <1>1, <1>2

(* The inductive invariant holds. *)
THEOREM Invariance == Spec => []IInv
  BY InitInvariant, StepInvariant, PTL DEF Spec

(* The files, rsc-keygen and the two programs are of their types. *)
THEOREM TypeCorrect == Spec => []TypeOK
<1>1. IInv => TypeOK
  BY DEF IInv
<1> QED BY <1>1, Invariance, PTL

(* What rsc-keygen has reported done is of use, whatever call of openssl    *)
(* failed or was killed, with however many calls of rsc-keygen.             *)
THEOREM SuccessUsable == Spec => []SuccessMeansUsable
<1>1. IInv => SuccessMeansUsable
  BY DEF IInv
<1> QED BY <1>1, Invariance, PTL

(* A server and a client that are up, started with settled files under the  *)
(* same CA and were given what the other asks for, understand each other.   *)
LEMMA SoundUnderstand == IInv => TrustKept
<1> SUFFICES ASSUME IInv, BothSound, AsksForCert => HasIdentity PROVE Handshake
  BY DEF TrustKept
<1>1. /\ server.pc = "up" /\ server.sound
      /\ client.pc = "up" /\ client.sound
      /\ server.era = client.era
      /\ options.server.tls /\ options.client.ca
  BY DEF BothSound
<1>2. /\ "cert" \in ServerReads
      /\ AsksForCert => "ca" \in ServerReads
      /\ "ca" \in ClientReads
      /\ HasIdentity => "cert" \in ClientReads
  BY <1>1 DEF ServerReads, ClientReads, AsksForCert, Parts
<1>3. PICK e : e = server.era
  OBVIOUS
<1>4. /\ e \in Keys
      /\ AsksForCert => server.read["ca"] = [of |-> e, by |-> e]
      /\ server.read["key"] \in Keys
      /\ server.read["cert"] = [of |-> server.read["key"], by |-> e]
  BY <1>1, <1>2, <1>3 DEF IInv, ServerSound, Sound
<1>5. /\ client.read["ca"] = [of |-> e, by |-> e]
      /\ HasIdentity => /\ client.read["key"] \in Keys
                        /\ client.read["cert"] = [of |-> client.read["key"], by |-> e]
  BY <1>1, <1>2, <1>3 DEF IInv, ClientSound, Sound
<1>6. /\ \A j, k \in Keys : [of |-> j, by |-> k] \in Certs
  BY DEF Certs
<1>7. Fits(server) /\ Signed(server, client)
  BY <1>4, <1>5, <1>6 DEF Fits, Signed
<1>8. HasIdentity => Fits(client)
  BY <1>4, <1>5, <1>6 DEF Fits
<1>9. AsksForCert => HasIdentity /\ Signed(client, server)
  BY <1>4, <1>5, <1>6 DEF Signed
<1> QED BY <1>1, <1>7, <1>8, <1>9 DEF Handshake

(* A server and a client that have each read settled files, with the same   *)
(* CA there, understand each other for as long as they run.                 *)
THEOREM TrustIsKept == Spec => []TrustKept
  BY SoundUnderstand, Invariance, PTL

(* A server or a client that is called when the files it needs are settled, *)
(* and stay so, comes up.                                                   *)
THEOREM SoundStarts == Spec => SoundStartSucceeds
<1> DEFINE Succeeds == /\ server.sound /\ server.pc # "up" => server'.pc # "off"
                       /\ client.sound /\ client.pc # "up" => client'.pc # "off"
<1>1. ASSUME IInv, [Next]_vars PROVE [Succeeds]_vars
  <2>0. SUFFICES ASSUME Next PROVE Succeeds
    BY <1>1
  <2>1. /\ server \in Processes /\ client \in Processes
        /\ server.sound => server.pc # "off"
        /\ client.sound => client.pc # "off"
    BY <1>1 DEF IInv, TypeOK, ServerSound, ClientSound, Sound
  <2>2. CASE \E k \in Kinds : call_keygen(k)
    <3>1. /\ server' = StillSound(server, ServerNeeds, settled')
          /\ client' = StillSound(client, ClientNeeds, settled')
      BY <2>2 DEF call_keygen
    <3>2. server'.pc = server.pc /\ client'.pc = client.pc
      BY <2>1, <3>1 DEF StillSound, Processes
    <3> QED BY <2>1, <3>2
  <2>3. CASE KeygenStep
    <3>1. server' = server /\ client' = client
      BY <1>1, <2>3, KeygenEffect DEF IInv
    <3> QED BY <2>1, <3>1
  <2>4. CASE ServerSteps
    <3>1. client' = client
      BY <2>4 DEF ServerSteps, start_server, create_server_tls_config, serve, stop_server
    <3> QED BY <1>1, <2>1, <2>4, <3>1, ServerKeeps
  <2>5. CASE ClientSteps
    <3>1. server' = server
      BY <2>5 DEF ClientSteps, start_client, validate, build_tls_config, stop_client
    <3> QED BY <1>1, <2>1, <2>5, <3>1, ClientKeeps
  <2> QED BY <2>0, <2>2, <2>3, <2>4, <2>5, Steps
<1>2. Spec => [][Succeeds]_vars
  BY <1>1, Invariance, PTL DEF Spec
<1> QED BY <1>2 DEF SoundStartSucceeds

=============================================================================
