--------------------------- MODULE MCRegistration ---------------------------
(***************************************************************************)
(* An instance of Registration for TLC: profiles of all three modes, two   *)
(* licences and two tokens, so that a rebinding can leave an older one     *)
(* behind; the built-in profile, which lives on the global licence; one    *)
(* profile that lacks its secret and one whose secret does not decrypt.    *)
(***************************************************************************)
EXTENDS Registration

Profile(mode, licence, token) ==
  [builtin |-> FALSE, mode |-> mode, licence |-> licence, token |-> token]

MCGlobal == [licence |-> {"k1"}, token |-> {}]
MCUnreadable == {"garbled"}
MCProfiles == { Profile("free", {"k2"}, {}),
                [Profile("warp_plus", {}, {}) EXCEPT !.builtin = TRUE],
                Profile("warp_plus", {"k2"}, {}), Profile("warp_plus", {"garbled"}, {}),
                Profile("zero_trust", {}, {"t1"}), Profile("zero_trust", {}, {"t2"}),
                Profile("zero_trust", {}, {}) }
=============================================================================
