--------------------------- MODULE MCCertificates ---------------------------
(* Instances of Certificates for TLC.                                       *)
EXTENDS Certificates

Called(ca, file, cert, key_given) ==
    [server |-> [tls |-> TRUE, ca |-> ca],
     client |-> [file |-> file, ca |-> TRUE, cert |-> cert, key |-> key_given]]

(* Both sides have certificates; the server alone has one, and the client   *)
(* knows the CA only; and a client's certificate that is of no use without  *)
(* its key.                                                                 *)
MCOptions == {Called(TRUE, TRUE, TRUE, TRUE),
              Called(FALSE, FALSE, FALSE, FALSE),
              Called(FALSE, FALSE, TRUE, FALSE)}

=============================================================================
