--------------------------- MODULE AccountProfiles ---------------------------
(***************************************************************************)
(* Account profiles and who uses them (api/accounts.rs, db/uow.rs,         *)
(* db/profiles.rs; the bindings in db/repo.rs).                            *)
(*                                                                         *)
(* Every write to profiles and bindings is one SQLite transaction, opened  *)
(* with BEGIN IMMEDIATE, and foreign keys are enforced. A PATCH decides on *)
(* three reads made before its transaction.                                *)
(* Of a secret only its presence is kept.                                  *)
(***************************************************************************)
EXTENDS Naturals, FiniteSets

CONSTANTS Profiles,     \* profile ids, 1 .. n; 1 is the built-in one
          Instances,    \* instances
          Clients,      \* concurrent PATCH requests
          Patches       \* the bodies they send

ASSUME ProfilesAssumption ==
    IsFiniteSet(Profiles) /\ Profiles = 1 .. Cardinality(Profiles) /\ Profiles # {}
ASSUME InstancesAssumption == IsFiniteSet(Instances)

Modes   == {"free", "warp_plus", "zero_trust"}
Secrets == {"license", "client_id", "client_secret"}

\* mode, "keep" when the field is absent; org (absent, cleared, set); the secrets
\* that are set and those that are cleared, the others being absent.
Patch == [mode : Modes \cup {"keep"}, org : {"keep", "clear", "set"},
          put : SUBSET Secrets, clear : SUBSET Secrets]

ASSUME PatchesAssumption ==
    Patches \subseteq Patch /\ \A b \in Patches : b.put \cap b.clear = {}

DefaultProfile == 1   \* DEFAULT_PROFILE_ID
Null   == 0           \* account_profile_id is NULL: the default profile
NoInst == Cardinality(Profiles) + 1   \* there is no such instance

VARIABLES
    mode,    \* account_profiles.mode, "none" when there is no row
    org,     \* account_profiles.zero_trust_org is not NULL
    held,    \* secrets with this profile_id
    bound,   \* warp_instances.account_profile_id, NoInst when there is no row
    req      \* PATCH requests in progress

profiles == <<mode, org, held>>
vars == <<profiles, bound, req>>

NoReq == [pc |-> "none", id |-> 0, mode |-> "free", org |-> FALSE, put |-> {}, clear |-> {}]

\* Types of the tables and of the requests in progress.
TypeOK ==
    /\ mode \in [Profiles -> Modes \cup {"none"}]
    /\ org \in [Profiles -> BOOLEAN]
    /\ held \in [Profiles -> SUBSET Secrets]
    /\ bound \in [Instances -> Profiles \cup {Null, NoInst}]
    /\ req \in [Clients -> [pc : {"none", "read", "counted", "valid"}, id : Profiles \cup {0},
                            mode : Modes, org : BOOLEAN,
                            put : SUBSET Secrets, clear : SUBSET Secrets]]

\* The migrations leave the built-in profile and no instance.
Init ==
    /\ mode = [p \in Profiles |-> IF p = DefaultProfile THEN "free" ELSE "none"]
    /\ org = [p \in Profiles |-> FALSE]
    /\ held = [p \in Profiles |-> {}]
    /\ bound = [i \in Instances |-> NoInst]
    /\ req = [c \in Clients |-> NoReq]

Exists(p) == mode[p] # "none"
Bound(p)  == {i \in Instances : bound[i] = p}

\* validate_credentials: what a mode needs.
Complete(m, o, s) ==
    CASE m = "free"       -> TRUE
      [] m = "warp_plus"  -> "license" \in s
      [] m = "zero_trust" -> {"client_id", "client_secret"} \subseteq s /\ o

-----------------------------------------------------------------------------
\* set_profile_secret and delete_profile_secret, inside a transaction.
StoreSecrets(p, put, clear) == held' = [held EXCEPT ![p] = (@ \cup put) \ clear]

\* POST /accounts: create_profile_with_credentials. The row and its secrets, those
\* the mode does not need too, in one transaction; a second free profile is a 409.
CreateProfile(p, b) ==
    /\ ~Exists(p)
    /\ \A q \in Profiles : Exists(q) => q < p
    /\ Exists(p - 1)
    /\ b.mode # "keep" /\ Complete(b.mode, b.org = "set", b.put)
    /\ b.mode = "free" => \A q \in Profiles : mode[q] # "free"
    /\ mode' = [mode EXCEPT ![p] = b.mode]
    /\ org' = [org EXCEPT ![p] = b.org = "set"]
    /\ StoreSecrets(p, b.put, {})
    /\ UNCHANGED <<bound, req>>

\* PATCH /accounts/{id}: the row is read; the free profile is read-only.
PatchRead(c, p, b) ==
    /\ req[c] = NoReq
    /\ Exists(p)
    /\ mode[p] # "free"
    /\ req' = [req EXCEPT ![c] =
                 [pc |-> "read", id |-> p, put |-> b.put, clear |-> b.clear,
                  mode |-> IF b.mode = "keep" THEN mode[p] ELSE b.mode,
                  org  |-> IF b.org = "keep" THEN org[p] ELSE b.org = "set"]]
    /\ UNCHANGED <<profiles, bound>>

\* The bindings are counted: a profile in use is read-only.
PatchCount(c) ==
    /\ req[c].pc = "read"
    /\ req' = [req EXCEPT ![c] = IF Bound(@.id) = {} THEN [@ EXCEPT !.pc = "counted"] ELSE NoReq]
    /\ UNCHANGED <<profiles, bound>>

\* The secrets that would be there are compared with what the mode needs.
PatchValidate(c) ==
    LET r == req[c] IN
    /\ r.pc = "counted"
    /\ req' = [req EXCEPT ![c] =
                 IF Complete(r.mode, r.org, (held[r.id] \cup r.put) \ r.clear)
                 THEN [r EXCEPT !.pc = "valid"] ELSE NoReq]
    /\ UNCHANGED <<profiles, bound>>

\* Variant: the transaction does not look for another free profile.
PatchCommitAnyFree(c) ==
    LET r == req[c]
        p == r.id IN
    /\ r.pc = "valid"
    /\ IF ~Exists(p)
       THEN UNCHANGED profiles
       ELSE /\ mode' = [mode EXCEPT ![p] = r.mode]
            /\ org' = [org EXCEPT ![p] = r.org]
            /\ StoreSecrets(p, r.put, r.clear)
    /\ req' = [req EXCEPT ![c] = NoReq]
    /\ UNCHANGED <<bound>>

\* update_profile_with_credentials: a second free profile is refused. The row may
\* be gone by now: then the update finds nothing, clearing finds nothing and a
\* new secret violates its foreign key, which undoes the whole.
PatchCommit(c) ==
    LET r == req[c]
        p == r.id IN
    /\ r.pc = "valid"
    /\ IF ~Exists(p) \/ (r.mode = "free" /\ \E q \in Profiles \ {p} : mode[q] = "free")
       THEN UNCHANGED profiles
       ELSE /\ mode' = [mode EXCEPT ![p] = r.mode]
            /\ org' = [org EXCEPT ![p] = r.org]
            /\ StoreSecrets(p, r.put, r.clear)
    /\ req' = [req EXCEPT ![c] = NoReq]
    /\ UNCHANGED <<bound>>

\* The repository's delete, as one statement. No handler disables an instance, so a
\* binding makes the foreign key refuse; the secrets go with the row.
DeleteRow(p) ==
    /\ p # DefaultProfile
    /\ Bound(p) = {}
    /\ mode' = [mode EXCEPT ![p] = "none"]
    /\ org' = [org EXCEPT ![p] = FALSE]
    /\ held' = [held EXCEPT ![p] = {}]

\* DELETE /accounts/{id}: an error of the repository is answered, nothing else.
DeleteProfile(p) ==
    /\ Exists(p)
    /\ DeleteRow(p)
    /\ UNCHANGED <<bound, req>>

-----------------------------------------------------------------------------
\* Variant: any profile that is there may be bound.
BindableAny(i, p) == p # Null => Exists(p)

\* ensure_warp_plus_bindable, in the transaction that binds, and its foreign key.
Bindable(i, p) ==
    \/ p = Null
    \/ /\ p # Null
       /\ Exists(p)
       /\ mode[p] = "warp_plus" => Bound(p) \ {i} = {}

\* POST /instances (create_guarded) and PATCH /instances/{id} (rebind_profile_guarded).
Bind(i, p) ==
    /\ Bindable(i, p)
    /\ bound' = [bound EXCEPT ![i] = p]
    /\ UNCHANGED <<profiles, req>>

DeleteInstance(i) ==
    /\ bound[i] # NoInst
    /\ bound' = [bound EXCEPT ![i] = NoInst]
    /\ UNCHANGED <<profiles, req>>

-----------------------------------------------------------------------------
Profile == \E p \in Profiles : \/ \E b \in Patches : CreateProfile(p, b)
                               \/ DeleteProfile(p)
                               \/ \E c \in Clients, b \in Patches : PatchRead(c, p, b)

Next == \/ Profile
        \/ \E c \in Clients : PatchCount(c) \/ PatchValidate(c) \/ PatchCommit(c)
        \/ \E i \in Instances : DeleteInstance(i) \/ \E p \in Profiles \cup {Null} : Bind(i, p)

Spec == Init /\ [][Next]_vars

-----------------------------------------------------------------------------
(***************************************************************************)
(* What must hold.                                                         *)
(***************************************************************************)

\* There is always exactly one free profile, the built-in one, whatever two
\* requests decide on reads of the same moment: an instance without a binding
\* always has a profile that needs no credentials.
OneFreeProfile == \A p \in Profiles : mode[p] = "free" <=> p = DefaultProfile

\* A binding leads to a row, and no secret outlives its profile to turn up in a
\* later one that is given the same id.
NothingDangles ==
    /\ \A i \in Instances : bound[i] \in Profiles => Exists(bound[i])
    /\ \A p \in Profiles : ~Exists(p) => held[p] = {} /\ ~org[p]

\* What the transactions keep although requests decide on reads made before them:
\* one free profile, and nothing that leads to a row that is gone.
Inv == TypeOK /\ OneFreeProfile /\ NothingDangles

\* A PATCH in progress is never about the built-in profile: it is free, and was
\* free when it was read.
PatchesOthers ==
    \A c \in Clients : req[c].pc # "none" => req[c].id \in Profiles \ {DefaultProfile}

\* The inductive invariant: the requests carry a fact from their first read to
\* their transaction.
IInv == Inv /\ PatchesOthers

Sharing(p) == mode[p] = "warp_plus" /\ Cardinality(Bound(p)) > 1

\* Bindings made at the same moment never share a licence: a profile two instances
\* are bound to becomes a WARP+ one only by a change of its mode.
BindingNeverShares ==
    [][\A p \in Profiles : Sharing(p)' => Sharing(p) \/ mode[p] # "warp_plus"]_vars
=============================================================================
