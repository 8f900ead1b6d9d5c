--------------------------- MODULE MCVpcdProtocol ---------------------------
(* Instances of VpcdProtocol for TLC.  With a byte of five values a length  *)
(* goes up to 24.                                                           *)
EXTENDS VpcdProtocol

Bytes_of(n) == [i \in 1 .. n |-> i % Base]

(* A short one that begins like the test tool's; the longest there is.      *)
MCApdus == {<<4, 0>>, Bytes_of(24)}

(* An error, the longest that a length can say, and a byte more.            *)
MCApduResponses == {<<3, 0>>, Bytes_of(24), Bytes_of(25)}

MCAtrs == {<< >>, <<3, 1, 2>>}

=============================================================================
