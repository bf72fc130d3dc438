-------------------------- MODULE MCAccountSecrets --------------------------
(***************************************************************************)
(* An instance of AccountSecrets for TLC.                                  *)
(***************************************************************************)
EXTENDS AccountSecrets, TLC

CONSTANTS c1, c2

TwoClients == {c1, c2}

Secret(l, i, s) == [license |-> l, client_id |-> i, client_secret |-> s]
Put_(m, o, s) == [mode |-> m, org |-> o, secret |-> s]

\* To WARP+, with a licence and with another one; to free, clearing it; to Zero
\* Trust with all it needs; half of a token rotated; nothing but the mode.
SixBodies ==
  { Put_({"warp_plus"}, {}, Secret({"a"}, {}, {})),
    Put_({}, {}, Secret({"b"}, {}, {})),
    Put_({"free"}, {}, Secret({""}, {}, {})),
    Put_({"zero_trust"}, {"org"}, Secret({}, {"a"}, {"a"})),
    Put_({}, {}, Secret({}, {""}, {"b"})),
    Put_({"warp_plus"}, {}, Secret({}, {}, {})) }

\* A deployment whose key is in the file, and one that brings its own.
FileOrEnv == {{}, {9}}

Symmetry == Permutations(TwoClients)
=============================================================================
