--------------------------- MODULE MCAuthSessions ---------------------------
(***************************************************************************)
(* An instance of AuthSessions for TLC.                                    *)
(***************************************************************************)
EXTENDS AuthSessions

CONSTANTS a1, l1, l2, r1, r2, s1

OneIp       == {a1}
TwoLogins   == {l1, l2}
TwoRequests == {r1, r2}
OneId       == {s1}
=============================================================================
