------------------------------ MODULE MCGateway ------------------------------
(***************************************************************************)
(* Instances of Gateway for TLC.                                           *)
(***************************************************************************)
EXTENDS Gateway

CONSTANTS c1, p1

OneClient    == {c1}
OnePassword  == {p1}

Row(s, h, a) == [socks |-> s, http |-> h, auth |-> a]

\* All off; socks5 alone, open; both, with auth.
ThreeRows == {Row(FALSE, FALSE, FALSE), Row(TRUE, FALSE, FALSE), Row(TRUE, TRUE, TRUE)}
=============================================================================
