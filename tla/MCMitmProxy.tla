---------------------------- MODULE MCMitmProxy ----------------------------
(* Two connections to one host: one pipelines two requests, the other sends *)
(* none and competes for the certificate.                                   *)
EXTENDS MitmProxy

SameHost == [c \in {1, 2} |-> "h"]

TwoAndNone == <<2, 0>>

=============================================================================
