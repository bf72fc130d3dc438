-------------------------- MODULE MCAccountProfiles --------------------------
(***************************************************************************)
(* Instances of AccountProfiles for TLC.                                   *)
(***************************************************************************)
EXTENDS AccountProfiles, TLC

CONSTANTS i1, i2, c1, c2

TwoInstances == {i1, i2}
TwoClients   == {c1, c2}
TwoProfiles  == 1 .. 2

Body(m, o, p, c) == [mode |-> m, org |-> o, put |-> p, clear |-> c]

\* To WARP+ and to Zero Trust with all they need; to free, dropping the licence;
\* a licence replaced, a token cleared, nothing but the name.
SixPatches ==
    {Body("warp_plus", "keep", {"license"}, {}),
     Body("zero_trust", "set", {"client_id", "client_secret"}, {"license"}),
     Body("free", "clear", {}, {"license"}),
     Body("keep", "keep", {"license"}, {}),
     Body("keep", "clear", {}, {"client_id", "client_secret"}),
     Body("keep", "keep", {}, {})}

Symmetry == Permutations(TwoInstances) \cup Permutations(TwoClients)
=============================================================================
