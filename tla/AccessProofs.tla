---------------------------- MODULE AccessProofs ----------------------------
(****************************************************************************)
(* AccountProfiles: what the transactions keep, for any number of           *)
(* profiles, instances, requests in progress and request bodies.            *)
(* AuthSessions: failures an address may make, and ends of sessions, for any *)
(* number of callers.                                                       *)
(****************************************************************************)
EXTENDS AccountProfiles, AuthSessions, FiniteSetTheorems, TLAPS

\* db/profiles.rs: DEFAULT_PROFILE_ID is an id; "no binding" and "no instance" are
\* not.
LEMMA IdsApart ==
  /\ DefaultProfile \in Profiles
  /\ Null \notin Profiles
  /\ NoInst \notin Profiles
  /\ NoInst # Null
<1>1. Cardinality(Profiles) \in Nat
  BY ProfilesAssumption, FS_CardinalityType
<1>2. Profiles = 1 .. Cardinality(Profiles) /\ Profiles # {}
  BY ProfilesAssumption
<1> QED BY <1>1, <1>2 DEF DefaultProfile, Null, NoInst

\* A request body names modes and secrets.
LEMMA PatchFields ==
  ASSUME NEW b \in Patches
  PROVE  /\ b.mode \in Modes \cup {"keep"}
         /\ b.put \in SUBSET Secrets
         /\ b.clear \in SUBSET Secrets
BY PatchesAssumption DEF Patch

\* db/uow.rs, create_profile_with_credentials: the new row is not a second free one.
LEMMA CreateProfilePreserves ==
  ASSUME NEW p \in Profiles, NEW b \in Patches, IInv, CreateProfile(p, b)
  PROVE  IInv'
<1> USE DEF CreateProfile, StoreSecrets, Exists
<1>1. b.mode \in Modes /\ b.put \in SUBSET Secrets
  BY PatchFields
<1>2. TypeOK'
  BY <1>1 DEF IInv, Inv, TypeOK
<1>3. OneFreeProfile'
  BY <1>1, IdsApart DEF IInv, Inv, TypeOK, OneFreeProfile, Modes
<1>4. NothingDangles'
  BY <1>1 DEF IInv, Inv, TypeOK, NothingDangles, Modes
<1>5. PatchesOthers'
  BY DEF IInv, PatchesOthers
<1> QED BY <1>2, <1>3, <1>4, <1>5 DEF IInv, Inv

\* db/profiles.rs, delete: only a profile nobody is bound to, with its secrets.
LEMMA DeleteProfilePreserves ==
  ASSUME NEW p \in Profiles, IInv, DeleteProfile(p)
  PROVE  IInv'
<1> USE DEF DeleteProfile, DeleteRow, Exists, Bound
<1>1. TypeOK'
  BY DEF IInv, Inv, TypeOK
<1>2. OneFreeProfile'
  BY DEF IInv, Inv, TypeOK, OneFreeProfile
<1>3. NothingDangles'
  BY DEF IInv, Inv, TypeOK, NothingDangles
<1>4. PatchesOthers'
  BY DEF IInv, PatchesOthers
<1> QED BY <1>1, <1>2, <1>3, <1>4 DEF IInv, Inv

\* api/accounts.rs, update: what is not free is not the built-in profile.
LEMMA PatchReadPreserves ==
  ASSUME NEW c \in Clients, NEW p \in Profiles, NEW b \in Patches, IInv, PatchRead(c, p, b)
  PROVE  IInv'
<1> USE DEF PatchRead, profiles, Exists
<1> DEFINE r == [pc |-> "read", id |-> p, put |-> b.put, clear |-> b.clear,
                 mode |-> IF b.mode = "keep" THEN mode[p] ELSE b.mode,
                 org  |-> IF b.org = "keep" THEN org[p] ELSE b.org = "set"]
<1>0. UNCHANGED <<mode, org, held, bound>> /\ req' = [req EXCEPT ![c] = r]
  OBVIOUS
<1>1. /\ r.mode \in Modes /\ r.org \in BOOLEAN
      /\ r.put \in SUBSET Secrets /\ r.clear \in SUBSET Secrets
  BY PatchFields DEF IInv, Inv, TypeOK
<1>2. TypeOK'
  BY <1>0, <1>1 DEF IInv, Inv, TypeOK
<1>3. OneFreeProfile' /\ NothingDangles'
  BY <1>0 DEF IInv, Inv, OneFreeProfile, NothingDangles
<1>4. PatchesOthers'
  BY <1>0 DEF IInv, Inv, TypeOK, OneFreeProfile, PatchesOthers
<1> QED BY <1>2, <1>3, <1>4 DEF IInv, Inv

\* api/accounts.rs, update: the two checks before the transaction move the request
\* on or end it.
LEMMA PatchChecksPreserve ==
  ASSUME NEW c \in Clients, IInv, PatchCount(c) \/ PatchValidate(c)
  PROVE  IInv'
<1>0. UNCHANGED <<mode, org, held, bound>>
  BY DEF PatchCount, PatchValidate, profiles
<1>1. PICK q \in {"counted", "valid"} :
         \/ req' = [req EXCEPT ![c] = [req[c] EXCEPT !.pc = q]] /\ req[c].pc # "none"
         \/ req' = [req EXCEPT ![c] = NoReq]
  <2>1. CASE PatchCount(c)
    BY <2>1 DEF PatchCount
  <2>2. CASE PatchValidate(c)
    BY <2>2 DEF PatchValidate
  <2> QED BY <2>1, <2>2
<1>2. TypeOK'
  <2>1. CASE req' = [req EXCEPT ![c] = [req[c] EXCEPT !.pc = q]]
    BY <1>0, <2>1 DEF IInv, Inv, TypeOK
  <2>2. CASE req' = [req EXCEPT ![c] = NoReq]
    BY <1>0, <2>2 DEF IInv, Inv, TypeOK, NoReq, Modes
  <2> QED BY <1>1, <2>1, <2>2
<1>3. OneFreeProfile' /\ NothingDangles'
  BY <1>0 DEF IInv, Inv, OneFreeProfile, NothingDangles, Exists
<1>4. PatchesOthers'
  BY <1>1 DEF IInv, Inv, TypeOK, PatchesOthers, NoReq
<1> QED BY <1>2, <1>3, <1>4 DEF IInv, Inv

\* db/uow.rs, update_profile_with_credentials: decides on the row as it is now.
LEMMA PatchCommitPreserves ==
  ASSUME NEW c \in Clients, IInv, PatchCommit(c)
  PROVE  IInv'
<1> USE DEF PatchCommit, StoreSecrets, profiles, Exists
<1> DEFINE p == req[c].id
<1>1. p \in Profiles /\ p # DefaultProfile
  BY DEF IInv, PatchesOthers
<1>2. TypeOK'
  BY <1>1 DEF IInv, Inv, TypeOK, NoReq, Modes
<1>3. OneFreeProfile'
  BY <1>1, IdsApart DEF IInv, Inv, TypeOK, OneFreeProfile
<1>4. NothingDangles'
  BY <1>1 DEF IInv, Inv, TypeOK, NothingDangles, Modes
<1>5. PatchesOthers'
  BY DEF IInv, Inv, TypeOK, PatchesOthers, NoReq
<1> QED BY <1>2, <1>3, <1>4, <1>5 DEF IInv, Inv

\* db/repo.rs: a binding is made to a row that is there; a deleted instance has none.
LEMMA BindingPreserves ==
  ASSUME NEW i \in Instances, IInv,
         DeleteInstance(i) \/ \E p \in Profiles \cup {Null} : Bind(i, p)
  PROVE  IInv'
<1>0. UNCHANGED <<mode, org, held, req>>
  BY DEF DeleteInstance, Bind, profiles
<1>1. PICK p : /\ bound' = [bound EXCEPT ![i] = p]
               /\ p \in {NoInst, Null} \/ (p \in Profiles /\ Exists(p))
  BY DEF DeleteInstance, Bind, Bindable
<1>2. TypeOK'
  BY <1>0, <1>1 DEF IInv, Inv, TypeOK
<1>3. OneFreeProfile' /\ PatchesOthers'
  BY <1>0 DEF IInv, Inv, OneFreeProfile, PatchesOthers
<1>4. NothingDangles'
  BY <1>0, <1>1, IdsApart DEF IInv, Inv, TypeOK, NothingDangles, Exists
<1> QED BY <1>2, <1>3, <1>4 DEF IInv, Inv

\* Every transaction and every read keeps the inductive invariant.
LEMMA NextPreserves ==
  ASSUME IInv, [Next]_vars
  PROVE  IInv'
<1>1. CASE Profile
  BY <1>1, CreateProfilePreserves, DeleteProfilePreserves, PatchReadPreserves DEF Profile
<1>2. ASSUME NEW c \in Clients, PatchCount(c) \/ PatchValidate(c) \/ PatchCommit(c)
      PROVE  IInv'
  BY <1>2, PatchChecksPreserve, PatchCommitPreserves
<1>3. ASSUME NEW i \in Instances,
             DeleteInstance(i) \/ \E p \in Profiles \cup {Null} : Bind(i, p)
      PROVE  IInv'
  BY <1>3, BindingPreserves
<1>4. CASE UNCHANGED vars
  BY <1>4 DEF vars, profiles, IInv, Inv, TypeOK, OneFreeProfile, NothingDangles,
              PatchesOthers, Exists
<1> QED BY <1>1, <1>2, <1>3, <1>4 DEF Next

\* The tables the migrations leave satisfy it.
LEMMA InitEstablishes == Init => IInv
<1> SUFFICES ASSUME Init PROVE IInv
  OBVIOUS
<1>1. TypeOK
  BY DEF Init, TypeOK, NoReq, Modes
<1>2. OneFreeProfile /\ NothingDangles /\ PatchesOthers
  BY IdsApart DEF Init, OneFreeProfile, NothingDangles, PatchesOthers, NoReq, Exists
<1> QED BY <1>1, <1>2 DEF IInv, Inv

\* The invariant holds in every reachable state of the tables.
THEOREM ProfilesInvariance == Spec => []IInv
BY InitEstablishes, NextPreserves, PTL DEF Spec

\* db/uow.rs and db/profiles.rs: exactly one free profile, and no binding and no
\* secret without its row, whatever requests decide on reads that are out of date.
THEOREM ProfilesConsistent == Spec => []Inv
BY ProfilesInvariance, PTL DEF IInv

-----------------------------------------------------------------------------
\* db/repo.rs, ensure_warp_plus_bindable: only a binding to the profile itself adds
\* to those that use it, and then it is the only one.
LEMMA BindingAddsNoSecond ==
  ASSUME IInv, [Next]_vars, NEW p \in Profiles, Sharing(p)', mode[p] = "warp_plus"
  PROVE  Sharing(p)
<1> USE DEF Sharing
<1>0. bound \in [Instances -> Profiles \cup {Null, NoInst}]
  BY DEF IInv, Inv, TypeOK
<1>1. CASE UNCHANGED bound
  BY <1>1 DEF Bound
<1>2. ASSUME NEW i \in Instances, NEW q \in Profiles \cup {Null, NoInst},
             bound' = [bound EXCEPT ![i] = q], q # p
      PROVE  Sharing(p)
  <2>1. Bound(p)' \subseteq Bound(p)
    BY <1>0, <1>2 DEF Bound
  <2>2. IsFiniteSet(Bound(p))
    BY InstancesAssumption, FS_Subset DEF Bound
  <2>3. /\ Cardinality(Bound(p)') <= Cardinality(Bound(p))
        /\ Cardinality(Bound(p)') \in Nat /\ Cardinality(Bound(p)) \in Nat
    BY <2>1, <2>2, FS_Subset, FS_CardinalityType
  <2> QED BY <2>3
<1>3. ASSUME NEW i \in Instances, Bind(i, p)
      PROVE  FALSE
  <2>1. Bound(p)' \subseteq {i}
    BY <1>0, <1>3, IdsApart DEF Bind, Bindable, Bound
  <2>2. IsFiniteSet({i}) /\ Cardinality({i}) = 1
    BY FS_Singleton
  <2>3. /\ Cardinality(Bound(p)') <= 1
        /\ Cardinality(Bound(p)') \in Nat
    BY <2>1, <2>2, FS_Subset, FS_CardinalityType
  <2> QED BY <2>3
<1>4. CASE UNCHANGED vars
  BY <1>1, <1>4 DEF vars
<1>5. CASE Profile
  BY <1>1, <1>5 DEF Profile, CreateProfile, DeleteProfile, PatchRead
<1>6. ASSUME NEW c \in Clients, PatchCount(c) \/ PatchValidate(c) \/ PatchCommit(c)
      PROVE  Sharing(p)
  BY <1>1, <1>6 DEF PatchCount, PatchValidate, PatchCommit
<1>7. ASSUME NEW i \in Instances, DeleteInstance(i)
      PROVE  Sharing(p)
  BY <1>2, <1>7, IdsApart DEF DeleteInstance
<1>8. ASSUME NEW i \in Instances, NEW q \in Profiles \cup {Null}, Bind(i, q)
      PROVE  Sharing(p)
  BY <1>2, <1>3, <1>8 DEF Bind
<1> QED BY <1>4, <1>5, <1>6, <1>7, <1>8 DEF Next

\* db/repo.rs, create_guarded and rebind_profile_guarded: two bindings of the same
\* moment never come to share a WARP+ licence.
THEOREM BindingsNeverShare == Spec => BindingNeverShares
<1>1. IInv /\ [Next]_vars =>
        [\A p \in Profiles : Sharing(p)' => Sharing(p) \/ mode[p] # "warp_plus"]_vars
  BY BindingAddsNoSecond
<1> QED BY <1>1, ProfilesInvariance, PTL DEF Spec, BindingNeverShares

-----------------------------------------------------------------------------
(****************************************************************************)
(* Logins and sessions.                                                     *)
(****************************************************************************)

\* A request that is not there has an address and a session id of its own kind.
LEMMA EmptyRequests ==
  /\ NoLogin.pc = "none" /\ NoLogin.ip \in Ips
  /\ NoLogin = [pc |-> NoLogin.pc, ip |-> NoLogin.ip]
  /\ NoGuarded.pc = "none" /\ NoGuarded.id \in Ids /\ NoGuarded.what = "get"
  /\ NoGuarded = [pc |-> NoGuarded.pc, id |-> NoGuarded.id, what |-> NoGuarded.what]
BY CallersAssumption DEF NoLogin, NoGuarded

\* Of the logins in flight, those that have passed the check are a finite part.
LEMMA PassedFinite ==
  ASSUME NEW ip \in Ips
  PROVE  /\ IsFiniteSet(Passed(ip)) /\ Cardinality(Passed(ip)) \in Nat
         /\ Cardinality(Logins) \in Nat
         /\ Cardinality(Passed(ip)) <= Cardinality(Logins)
<1>1. Passed(ip) \subseteq Logins
  BY DEF Passed
<1> QED BY <1>1, CallersAssumption, FS_Subset, FS_CardinalityType

\* The same of the next state.
LEMMA PassedFiniteNext ==
  ASSUME NEW ip \in Ips
  PROVE  /\ IsFiniteSet(Passed(ip)') /\ Cardinality(Passed(ip)') \in Nat
         /\ Cardinality(Passed(ip)') <= Cardinality(Logins)
<1>1. Passed(ip)' \subseteq Logins
  BY DEF Passed
<1> QED BY <1>1, CallersAssumption, FS_Subset, FS_CardinalityType

\* A step that lets nobody else pass and adds no failure keeps the places.
LEMMA FewerPassed ==
  ASSUME AuthTypeOK, FailuresReserved,
         \A ip \in Ips : Passed(ip)' \subseteq Passed(ip),
         \A ip \in Ips : \A f \in limiter'[ip] : \E g \in limiter[ip] : f.count = g.count
  PROVE  FailuresReserved'
<1> SUFFICES ASSUME NEW ip \in Ips, NEW f \in limiter'[ip]
             PROVE  f.count + Cardinality(Passed(ip)') < MaxFailures + Cardinality(Logins)
  BY DEF FailuresReserved
<1>1. PICK g \in limiter[ip] : f.count = g.count
  OBVIOUS
<1>2. Cardinality(Passed(ip)') <= Cardinality(Passed(ip))
  BY PassedFinite, FS_Subset
<1>3. g.count + Cardinality(Passed(ip)) < MaxFailures + Cardinality(Logins)
  BY DEF FailuresReserved
<1>4. g.count \in Nat
  BY DEF AuthTypeOK
<1> QED BY <1>1, <1>2, <1>3, <1>4, PassedFinite, PassedFiniteNext, LimitsAssumption

\* A login that moves on: types, and who has passed.
LEMMA LoginToStep ==
  ASSUME AuthTypeOK, NEW r \in Logins, NEW from, NEW to, LoginTo(r, from, to),
         to \in {"none", "setup", "verify", "bad", "good", "clean", "create"},
         to # "verify" /\ (to = "bad" => from = "verify")
  PROVE  /\ login' \in [Logins -> [pc : {"none", "setup", "verify", "bad", "good", "clean",
                                         "create"}, ip : Ips]]
         /\ \A ip \in Ips : Passed(ip)' \subseteq Passed(ip)
         /\ \A ip \in Ips : from = "bad" /\ login[r].ip = ip
                            => r \in Passed(ip) /\ r \notin Passed(ip)'
<1>1. login[r] \in [pc : {"none", "setup", "verify", "bad", "good", "clean", "create"},
                    ip : Ips]
  BY DEF AuthTypeOK
<1>2. [login[r] EXCEPT !.pc = to].pc = to /\ [login[r] EXCEPT !.pc = to].ip = login[r].ip
      /\ [login[r] EXCEPT !.pc = to]
           \in [pc : {"none", "setup", "verify", "bad", "good", "clean", "create"}, ip : Ips]
  BY <1>1
<1>3. NoLogin \in [pc : {"none", "setup", "verify", "bad", "good", "clean", "create"},
                   ip : Ips]
  BY EmptyRequests
<1>4. login' \in [Logins -> [pc : {"none", "setup", "verify", "bad", "good", "clean",
                                   "create"}, ip : Ips]]
  BY <1>2, <1>3 DEF AuthTypeOK, LoginTo
<1>5. \A q \in Logins : q # r => login'[q] = login[q]
  BY DEF AuthTypeOK, LoginTo
<1>6. IF to = "none" THEN login'[r].pc = "none"
      ELSE login'[r].pc = to /\ login'[r].ip = login[r].ip
  BY <1>2, EmptyRequests DEF AuthTypeOK, LoginTo
<1>7. ASSUME NEW ip \in Ips, NEW q \in Passed(ip)'
      PROVE  q \in Passed(ip)
  BY <1>5, <1>6 DEF Passed, LoginTo
<1>8. \A ip \in Ips : from = "bad" /\ login[r].ip = ip
                     => r \in Passed(ip) /\ r \notin Passed(ip)'
  BY <1>6 DEF Passed, LoginTo
<1> QED BY <1>4, <1>7, <1>8

\* api/setup.rs; api/auth.rs: the steps of a login that leave the limiter alone.
LEMMA QuietLoginPreserves ==
  ASSUME AuthIInv, NEW r \in Logins,
         SetupHash(r) \/ SetupCommit(r) \/ LoginVerify(r) \/ LoginClean(r)
         \/ (\E i \in Ids : LoginCreate(r, i)) \/ LoginCreateFails(r)
  PROVE  AuthIInv'
<1> USE DEF AuthIInv
<1>1. /\ login' \in [Logins -> [pc : {"none", "setup", "verify", "bad", "good", "clean",
                                      "create"}, ip : Ips]]
      /\ \A ip \in Ips : Passed(ip)' \subseteq Passed(ip)
  BY LoginToStep DEF SetupHash, SetupCommit, LoginVerify, LoginClean, LoginCreate,
                     LoginCreateFails
<1>2. limiter' = limiter /\ half' = half /\ guarded' = guarded
  BY DEF SetupHash, SetupCommit, LoginVerify, LoginClean, LoginCreate, LoginCreateFails
<1>3. users' \in 0..1
  BY DEF AuthTypeOK, SetupHash, SetupCommit, LoginVerify, LoginClean, LoginCreate,
         LoginCreateFails
<1>4. Ttl \in Floor..Gone /\ Gone \in Floor..Gone
  BY LimitsAssumption DEF Floor, Gone
<1>5. session' \in [Ids -> Floor..Gone]
  BY <1>4 DEF AuthTypeOK, SetupHash, SetupCommit, LoginVerify, LoginClean, LoginCreate,
              LoginCreateFails
<1>6. AuthTypeOK'
  BY <1>1, <1>2, <1>3, <1>5 DEF AuthTypeOK
<1>7. FailuresReserved'
  BY <1>1, <1>2, FewerPassed
<1> QED BY <1>6, <1>7

\* auth/rate_limit.rs, snapshot: the windows that are not over.
LEMMA SnapshotType ==
  ASSUME AuthTypeOK
  PROVE  /\ Snapshot \in [Ips -> SUBSET [count : Nat \ {0}, age : 0..Window]]
         /\ \A ip \in Ips : Snapshot[ip] \subseteq limiter[ip]
BY DEF AuthTypeOK, Snapshot

\* api/auth.rs, login: only who finds the count below the limit passes, so that all
\* the logins there are fit behind it.
LEMMA LoginCheckPreserves ==
  ASSUME AuthIInv, NEW r \in Logins, NEW ip \in Ips, LoginCheck(r, ip)
  PROVE  AuthIInv'
<1> USE DEF AuthIInv
<1>1. limiter' \in [Ips -> SUBSET [count : Nat \ {0}, age : 0..Window]]
      /\ \A a \in Ips : limiter'[a] \subseteq limiter[a]
  BY SnapshotType DEF LoginCheck
<1>2. [pc |-> "verify", ip |-> ip] \in
        [pc : {"none", "setup", "verify", "bad", "good", "clean", "create"}, ip : Ips]
      /\ NoLogin \in
           [pc : {"none", "setup", "verify", "bad", "good", "clean", "create"}, ip : Ips]
  BY EmptyRequests
<1>3. AuthTypeOK'
  BY <1>1, <1>2 DEF AuthTypeOK, LoginCheck
<1>4. \A q \in Logins : q # r => login'[q] = login[q]
  BY DEF AuthTypeOK, LoginCheck
<1>5. CASE Blocked(ip)
  <2>1. login'[r].pc = "none"
    BY <1>5, EmptyRequests DEF AuthTypeOK, LoginCheck
  <2>2. \A a \in Ips : Passed(a)' \subseteq Passed(a)
    BY <1>4, <2>1 DEF Passed
  <2> QED BY <1>1, <1>3, <2>2, FewerPassed
<1>6. CASE ~Blocked(ip)
  <2>1. login'[r] = [pc |-> "verify", ip |-> ip]
    BY <1>6 DEF AuthTypeOK, LoginCheck
  <2>2. \A a \in Ips : a # ip => Passed(a)' \subseteq Passed(a)
    BY <1>4, <2>1 DEF Passed
  <2>3. ASSUME NEW a \in Ips, NEW f \in limiter'[a]
        PROVE  f.count + Cardinality(Passed(a)') < MaxFailures + Cardinality(Logins)
    <3>1. f \in limiter[a] /\ f.count \in Nat
      BY <1>1, <2>3 DEF AuthTypeOK
    <3>2. CASE a = ip
      <4>1. f.count < MaxFailures
        BY <1>6, <2>3, <3>1, <3>2, LimitsAssumption DEF Blocked, LoginCheck
      <4> QED BY <3>1, <4>1, <2>3, PassedFinite, PassedFiniteNext, LimitsAssumption
    <3>3. CASE a # ip
      <4>1. Cardinality(Passed(a)') <= Cardinality(Passed(a))
        BY <2>2, <2>3, <3>3, PassedFinite, FS_Subset
      <4> QED BY <3>1, <4>1, <2>3, PassedFinite, PassedFiniteNext, LimitsAssumption
              DEF FailuresReserved
    <3> QED BY <3>2, <3>3
  <2> QED BY <1>3, <2>3 DEF FailuresReserved
<1> QED BY <1>5, <1>6

\* auth/rate_limit.rs, record_failure: one more in the window, or a window with one.
LEMMA FailedEntry ==
  ASSUME NEW entry \in SUBSET [count : Nat \ {0}, age : 0..Window],
         \A f, g \in entry : f = g
  PROVE  /\ Failed(entry) \in SUBSET [count : Nat \ {0}, age : 0..Window]
         /\ \A f, g \in Failed(entry) : f = g
         /\ \A f \in Failed(entry) : f.count = 1 \/ \E g \in entry : f.count = g.count + 1
<1> DEFINE known == {f \in entry : f.age < Window}
<1>1. 0 \in 0..Window
  BY LimitsAssumption
<1>2. CASE known = None
  <2>1. Failed(entry) = {[count |-> 1, age |-> 0]}
    BY <1>2 DEF Failed
  <2> QED BY <1>1, <2>1
<1>3. CASE known # None
  <2>1. Failed(entry) = {[f EXCEPT !.count = @ + 1] : f \in known}
    BY <1>3 DEF Failed
  <2>2. \A f \in entry : /\ [f EXCEPT !.count = @ + 1] \in [count : Nat \ {0}, age : 0..Window]
                         /\ [f EXCEPT !.count = @ + 1].count = f.count + 1
    OBVIOUS
  <2> QED BY <2>1, <2>2
<1> QED BY <1>2, <1>3

\* api/auth.rs, login: a failure fills the place that its login had taken.
LEMMA LoginFailurePreserves ==
  ASSUME AuthIInv, NEW r \in Logins, LoginFailure(r)
  PROVE  AuthIInv'
<1> USE DEF AuthIInv
<1>0. PICK ip \in Ips : login[r].ip = ip
  BY DEF AuthTypeOK
<1>1. /\ login' \in [Logins -> [pc : {"none", "setup", "verify", "bad", "good", "clean",
                                      "create"}, ip : Ips]]
      /\ \A a \in Ips : Passed(a)' \subseteq Passed(a)
      /\ r \in Passed(ip) /\ r \notin Passed(ip)'
  BY <1>0, LoginToStep DEF LoginFailure
<1>3. limiter[ip] \in SUBSET [count : Nat \ {0}, age : 0..Window]
      /\ \A f, g \in limiter[ip] : f = g
  BY DEF AuthTypeOK
<1>2. limiter' = [limiter EXCEPT ![ip] = Failed(limiter[ip])]
  BY <1>0 DEF LoginFailure
<1>4. limiter'[ip] = Failed(limiter[ip]) /\ \A a \in Ips : a # ip => limiter'[a] = limiter[a]
  BY <1>2 DEF AuthTypeOK
<1>5. AuthTypeOK'
  <2>1. limiter' \in [Ips -> SUBSET [count : Nat \ {0}, age : 0..Window]]
    <3>1. Failed(limiter[ip]) \in SUBSET [count : Nat \ {0}, age : 0..Window]
      BY <1>3, FailedEntry
    <3> HIDE DEF AuthIInv
    <3> DEFINE E == SUBSET [count : Nat \ {0}, age : 0..Window]
    <3>2. limiter \in [Ips -> E]
      BY DEF AuthIInv, AuthTypeOK
    <3> HIDE DEF E
    <3>3. Failed(limiter[ip]) \in E
      BY <3>1 DEF E
    <3>4. limiter' \in [Ips -> E]
      BY <1>2, <3>2, <3>3
    <3> QED BY <3>4 DEF E
  <2>2. \A a \in Ips : \A f, g \in limiter'[a] : f = g
    BY <1>3, <1>4, FailedEntry DEF AuthTypeOK
  <2> QED BY <1>1, <2>1, <2>2 DEF AuthTypeOK, LoginFailure
<1>6. Cardinality(Passed(ip)') + 1 <= Cardinality(Passed(ip))
  <2>1. Passed(ip)' \subseteq Passed(ip) \ {r}
    BY <1>1
  <2>2. IsFiniteSet(Passed(ip) \ {r})
        /\ Cardinality(Passed(ip) \ {r}) = Cardinality(Passed(ip)) - 1
    BY <1>1, PassedFinite, FS_RemoveElement
  <2>3. Cardinality(Passed(ip)') <= Cardinality(Passed(ip) \ {r})
    BY <2>1, <2>2, FS_Subset
  <2> QED BY <2>2, <2>3, PassedFinite, PassedFiniteNext
<1>7. ASSUME NEW a \in Ips, NEW f \in limiter'[a]
      PROVE  f.count + Cardinality(Passed(a)') < MaxFailures + Cardinality(Logins)
  <2>1. CASE a = ip
    <3>1. f.count = 1 \/ \E g \in limiter[ip] : f.count = g.count + 1
      BY <1>3, <1>4, <1>7, <2>1, FailedEntry
    <3>2. ASSUME NEW g \in limiter[ip], f.count = g.count + 1
          PROVE  f.count + Cardinality(Passed(a)') < MaxFailures + Cardinality(Logins)
      <4>1. g.count \in Nat
        BY <1>3
      <4>2. g.count + Cardinality(Passed(ip)) < MaxFailures + Cardinality(Logins)
        BY DEF FailuresReserved
      <4> QED BY <4>1, <4>2, <3>2, <2>1, <1>6, PassedFinite, PassedFiniteNext,
                 LimitsAssumption
    <3>3. CASE f.count = 1
      BY <3>3, <2>1, <1>6, PassedFinite, PassedFiniteNext, LimitsAssumption
    <3> QED BY <3>1, <3>2, <3>3
  <2>2. CASE a # ip
    <3>1. f \in limiter[a] /\ f.count \in Nat
      BY <1>4, <1>7, <2>2 DEF AuthTypeOK
    <3>2. Cardinality(Passed(a)') <= Cardinality(Passed(a))
      BY <1>1, <1>7, PassedFinite, FS_Subset
    <3>3. f.count + Cardinality(Passed(a)) < MaxFailures + Cardinality(Logins)
      BY <3>1, <1>7 DEF FailuresReserved
    <3> QED BY <3>1, <3>2, <3>3, <1>7, PassedFinite, PassedFiniteNext, LimitsAssumption
  <2> QED BY <2>1, <2>2
<1> QED BY <1>5, <1>7 DEF FailuresReserved

\* api/auth.rs, login: a success forgets the failures of its address.
LEMMA LoginSuccessPreserves ==
  ASSUME AuthIInv, NEW r \in Logins, LoginSuccess(r)
  PROVE  AuthIInv'
<1> USE DEF AuthIInv
<1>1. /\ login' \in [Logins -> [pc : {"none", "setup", "verify", "bad", "good", "clean",
                                      "create"}, ip : Ips]]
      /\ \A a \in Ips : Passed(a)' \subseteq Passed(a)
  BY LoginToStep DEF LoginSuccess
<1>2. \A a \in Ips : limiter'[a] \subseteq limiter[a]
  BY DEF LoginSuccess, AuthTypeOK, None
<1>3. limiter' \in [Ips -> SUBSET [count : Nat \ {0}, age : 0..Window]]
  BY DEF LoginSuccess, AuthTypeOK, None
<1>4. AuthTypeOK'
  BY <1>1, <1>2, <1>3 DEF AuthTypeOK, LoginSuccess
<1> QED BY <1>1, <1>2, <1>4, FewerPassed

\* api/middleware.rs, auth_guard and its handlers: sessions only.
LEMMA GuardPreserves ==
  ASSUME AuthIInv, NEW r \in Requests,
         \/ \E i \in Ids, what \in {"get", "change", "logout"} : GuardGet(r, i, what)
         \/ GuardToken(r) \/ GuardTouch(r) \/ Handler(r) \/ Logout(r)
  PROVE  AuthIInv'
<1> USE DEF AuthIInv
<1> DEFINE G == [pc : {"none", "token", "touch", "handler"}, id : Ids,
                 what : {"get", "change", "logout"}]
<1>1. /\ users' = users /\ limiter' = limiter /\ half' = half /\ login' = login
  BY DEF GuardGet, GuardToken, GuardTouch, Handler, Logout
<1>2. Gone \in Floor..Gone
  BY LimitsAssumption DEF Floor, Gone
<1>3. session' \in [Ids -> Floor..Gone]
  BY <1>2 DEF AuthTypeOK, GuardGet, GuardToken, GuardTouch, Handler, Logout
<1>4. guarded' \in [Requests -> G]
  <2>1. NoGuarded \in G
    BY EmptyRequests
  <2>2. guarded \in [Requests -> G]
    BY DEF AuthTypeOK
  <2>3. ASSUME NEW from, NEW to \in {"none", "touch", "handler"}, ReqTo(r, from, to)
        PROVE  guarded' \in [Requests -> G]
    BY <2>1, <2>2, <2>3 DEF ReqTo
  <2>4. ASSUME NEW i \in Ids, NEW what \in {"get", "change", "logout"}, GuardGet(r, i, what)
        PROVE  guarded' \in [Requests -> G]
    BY <2>1, <2>2, <2>4 DEF GuardGet
  <2> QED BY <2>3, <2>4 DEF GuardToken, GuardTouch, Handler, Logout
<1>5. AuthTypeOK'
  BY <1>1, <1>3, <1>4 DEF AuthTypeOK
<1>6. FailuresReserved'
  BY <1>1 DEF FailuresReserved, Passed
<1> QED BY <1>5, <1>6

\* Time passes: windows age and sessions run down, the counts stay.
LEMMA TickPreserves ==
  ASSUME AuthIInv, Tick
  PROVE  AuthIInv'
<1> USE DEF AuthIInv
<1> DEFINE older(f) == [f EXCEPT !.age = IF @ < Window THEN @ + 1 ELSE @]
<1>1. \A f \in [count : Nat \ {0}, age : 0..Window] :
        older(f) \in [count : Nat \ {0}, age : 0..Window] /\ older(f).count = f.count
  BY LimitsAssumption
<1>2. \A ip \in Ips : limiter'[ip] = {older(f) : f \in limiter[ip]}
  BY DEF Tick
<1>3. limiter' \in [Ips -> SUBSET [count : Nat \ {0}, age : 0..Window]]
  BY <1>1 DEF Tick, AuthTypeOK
<1>4. \A ip \in Ips : \A f, g \in limiter'[ip] : f = g
  BY <1>2 DEF AuthTypeOK
<1>5. session' \in [Ids -> Floor..Gone]
  BY LimitsAssumption DEF Tick, AuthTypeOK, Floor, Gone, Rows
<1>6. AuthTypeOK'
  BY <1>3, <1>4, <1>5 DEF Tick, AuthTypeOK
<1>7. \A ip \in Ips : Passed(ip)' \subseteq Passed(ip)
  BY DEF Tick, Passed
<1>8. \A ip \in Ips : \A f \in limiter'[ip] : \E g \in limiter[ip] : f.count = g.count
  BY <1>1, <1>2 DEF AuthTypeOK
<1> QED BY <1>6, <1>7, <1>8, FewerPassed

\* A restart forgets the limiter, and with it every login that had passed it.
LEMMA RestartPreserves ==
  ASSUME AuthIInv, Restart
  PROVE  AuthIInv'
<1>1. AuthTypeOK'
  BY EmptyRequests DEF Restart, AuthIInv, AuthTypeOK, None
<1>2. FailuresReserved'
  BY DEF Restart, FailuresReserved, None
<1> QED BY <1>1, <1>2 DEF AuthIInv

\* auth/, api/auth.rs, api/setup.rs, api/middleware.rs: for any number of addresses,
\* logins and requests in flight, the failures counted and the logins that may still
\* fail stay together below the limit and the number of logins.
THEOREM AuthInvariance == AuthSpec => []AuthIInv
<1>1. AuthInit => AuthIInv
  <2> SUFFICES ASSUME AuthInit PROVE AuthIInv
    OBVIOUS
  <2>1. AuthTypeOK
    BY EmptyRequests, LimitsAssumption
       DEF AuthInit, AuthTypeOK, None, Unused, Floor, Gone
  <2>2. FailuresReserved
    BY DEF AuthInit, FailuresReserved, None
  <2> QED BY <2>1, <2>2 DEF AuthIInv
<1>2. AuthIInv /\ [AuthNext]_authVars => AuthIInv'
  <2> SUFFICES ASSUME AuthIInv, [AuthNext]_authVars PROVE AuthIInv'
    OBVIOUS
  <2>1. CASE UNCHANGED authVars
    BY <2>1 DEF authVars, AuthIInv, AuthTypeOK, FailuresReserved, Passed
  <2>2. CASE AuthNext
    BY <2>2, QuietLoginPreserves, LoginCheckPreserves, LoginFailurePreserves,
       LoginSuccessPreserves, GuardPreserves, TickPreserves, RestartPreserves DEF AuthNext
  <2> QED BY <2>1, <2>2
<1> QED BY <1>1, <1>2, PTL DEF AuthSpec

\* auth/rate_limit.rs, api/setup.rs: one admin at most, and no more failures in a
\* window than the limit and the logins that raced it.
THEOREM FailuresAreBounded == AuthSpec => []AuthInv
<1>1. AuthIInv => AuthInv
  <2> SUFFICES ASSUME AuthIInv, NEW ip \in Ips, NEW f \in limiter[ip]
               PROVE  f.count < MaxFailures + Cardinality(Logins)
    BY DEF AuthIInv, AuthInv, FailuresBounded
  <2>1. f.count + Cardinality(Passed(ip)) < MaxFailures + Cardinality(Logins)
        /\ f.count \in Nat
    BY DEF AuthIInv, AuthTypeOK, FailuresReserved
  <2> QED BY <2>1, PassedFinite, LimitsAssumption
<1> QED BY <1>1, AuthInvariance, PTL

\* The order of the two halves of a second: one that is later by more than a half
\* second is later as text.
LEMMA TextOrder ==
  ASSUME NEW k \in Nat \ {0}
  PROVE  /\ AsText(k) <= 1 => k = 1
         /\ AsText(k + 1) > 0
<1>1. k = 2 * (k \div 2) + (k % 2) /\ k \div 2 \in Nat /\ k % 2 \in {0, 1}
  OBVIOUS
<1>2. k + 1 = 2 * ((k + 1) \div 2) + ((k + 1) % 2) /\ (k + 1) \div 2 \in Nat
      /\ (k + 1) % 2 \in {0, 1}
  OBVIOUS
<1> QED BY <1>1, <1>2 DEF AsText

\* auth/session.rs: a step ends a session that has not expired only by its owner's
\* logout, or in the last half of its second; no step brings one back.
LEMMA SessionStep ==
  ASSUME AuthTypeOK, AuthNext, NEW i \in Ids
  PROVE  /\ session[i] = Gone => session'[i] = Gone
         /\ Live(i) /\ session'[i] = Gone
              => session[i] = 1 \/ \E r \in Requests : guarded[r].id = i
                                                       /\ guarded[r].what = "logout"
<1> USE LimitsAssumption DEF Gone, Unused, Live, Rows
<1>1. session[i] \in Int /\ session \in [Ids -> Int]
  BY DEF AuthTypeOK, Floor
<1>2. CASE session' = session
  BY <1>1, <1>2
<1>3. ASSUME NEW r \in Logins, LoginClean(r)
      PROVE  /\ session[i] = Gone => session'[i] = Gone
             /\ Live(i) /\ session'[i] = Gone => session[i] = 1
  <2>1. session'[i] = IF i \in Rows /\ TextExpired(i) THEN Gone ELSE session[i]
    BY <1>3 DEF LoginClean
  <2>2. ASSUME Live(i), TextExpired(i) PROVE session[i] = 1
    <3> DEFINE k == session[i]
    <3>1. k \in Nat /\ k > 0 /\ half \in {0, 1}
      BY <1>1, <2>2 DEF AuthTypeOK
    <3>2. AsText(half + k) <= AsText(half)
      BY <2>2 DEF TextExpired
    <3>3. AsText(0) = 1 /\ AsText(1) = 0 /\ 0 + k = k /\ 1 + k = k + 1
      BY <3>1 DEF AsText
    <3>4. AsText(k) \in Int /\ AsText(k + 1) \in Int
      BY <3>1 DEF AsText
    <3> QED BY <3>1, <3>2, <3>3, <3>4, TextOrder
  <2> QED BY <1>1, <2>1, <2>2
<1>4. ASSUME NEW r \in Logins, NEW j \in Ids, LoginCreate(r, j)
      PROVE  /\ session[i] = Gone => session'[i] = Gone
             /\ Live(i) => session'[i] # Gone
  BY <1>1, <1>4 DEF LoginCreate
<1>5. ASSUME NEW r \in Requests, NEW j \in Ids, NEW what, GuardGet(r, j, what)
      PROVE  /\ session[i] = Gone => session'[i] = Gone
             /\ Live(i) => session'[i] # Gone
  BY <1>1, <1>5 DEF GuardGet
<1>6. ASSUME NEW r \in Requests, Logout(r)
      PROVE  /\ session[i] = Gone => session'[i] = Gone
             /\ Live(i) /\ session'[i] = Gone
                  => \E q \in Requests : guarded[q].id = i /\ guarded[q].what = "logout"
  BY <1>1, <1>6 DEF Logout
<1>7. CASE Tick
  <2>1. session'[i] = IF i \in Rows /\ session[i] > Floor THEN session[i] - 1 ELSE session[i]
    BY <1>7 DEF Tick
  <2> QED BY <1>1, <2>1 DEF Floor
<1> QED BY <1>2, <1>3, <1>4, <1>5, <1>6, <1>7
        DEF AuthNext, SetupHash, SetupCommit, LoginCheck, LoginVerify, LoginFailure,
            LoginSuccess, LoginCreateFails, GuardToken, GuardTouch, Handler, Restart

\* A session ends once and only for a reason, whatever requests have read before.
THEOREM SessionsEndForGood == AuthSpec => SessionsEndOnce
<1>1. AuthIInv /\ [AuthNext]_authVars
      => [\A i \in Ids : session[i] = Gone => session'[i] = Gone]_authVars
  BY SessionStep DEF AuthIInv
<1>2. AuthIInv /\ [AuthNext]_authVars
      => [\A i \in Ids :
            Live(i) /\ session'[i] = Gone
            => session[i] = 1 \/ \E r \in Requests : guarded[r].id = i
                                                     /\ guarded[r].what = "logout"]_authVars
  BY SessionStep DEF AuthIInv
<1> QED BY <1>1, <1>2, AuthInvariance, PTL
        DEF AuthSpec, SessionsEndOnce, GoneStaysGone, LiveSessionsKept

=============================================================================
