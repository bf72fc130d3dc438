------------------------- MODULE RegistrationProofs -------------------------
(***************************************************************************)
(* Registration: whose policy, licence and secret a start leaves behind,   *)
(* for any set of profiles and any budgets of attempts.                    *)
(***************************************************************************)
EXTENDS Registration, TLAPS

USE AttemptsAssumption

Points == {"idle", "mdm", "spawn", "ready", "ensure", "register", "account",
           "mode", "port", "connect", "verify", "probe", "clean", "up"}
Regs == Options([kind : {"consumer", "team"}, licence : Options(Licences)])
Daemons == [up : BOOLEAN, policy : Options(Tokens),
            proxy : SUBSET {"mode", "port"}, link : BOOLEAN]
Sends == [blind : BOOLEAN, late : Nat, behind : BOOLEAN]
States == {"stopped", "starting", "healthy", "degraded", "failed"}

-----------------------------------------------------------------------------
(***************************************************************************)
(* The operators.                                                          *)
(***************************************************************************)

\* Budget: a phase that does not repeat has one attempt.
LEMMA BudgetValues ==
  /\ \A a : Budget(a) \in Nat
  /\ Budget("ready") = MaxReady - 1 /\ Budget("register") = MaxRegister - 1
  /\ Budget("connect") = MaxEnrolPolls /\ Budget("verify") = MaxVerify
  /\ Budget("probe") = MaxProbes - 1
<1>1. ASSUME NEW a
      PROVE  Budget(a) \in Nat
  <2>1. CASE a \in {"ready", "register", "connect", "verify", "probe"}
    BY <2>1 DEF Budget
  <2>2. CASE a \notin {"ready", "register", "connect", "verify", "probe"}
    BY <2>2 DEF Budget
  <2> QED BY <2>1, <2>2
<1> QED BY <1>1 DEF Budget

\* secret_for: a profile's secret, or the global one, is an option of what is stored.
LEMMA SecretForType ==
  ASSUME NEW p \in Profiles
  PROVE  /\ SecretFor(p, "licence") \in Options(Licences)
         /\ SecretFor(p, "token") \in Options(Tokens)
<1>1. ASSUME NEW q \in Profiles \cup {Global}
      PROVE  q.licence \in Options(Licences) /\ q.token \in Options(Tokens)
  <2>1. q.licence \subseteq Licences /\ q.token \subseteq Tokens
    <3>1. CASE q \in Profiles
      BY <3>1 DEF Licences, Tokens
    <3>2. CASE q = Global
      BY <3>2 DEF Licences, Tokens
    <3> QED BY <3>1, <3>2
  <2>2. \A x, y \in q.licence : x = y
    BY ProfilesAssumption
  <2>3. \A x, y \in q.token : x = y
    BY ProfilesAssumption
  <2>4. q.licence \in Options(Licences)
    BY <2>1, <2>2 DEF Options, None
  <2>5. q.token \in Options(Tokens)
    BY <2>1, <2>3 DEF Options, None
  <2> QED BY <2>4, <2>5
<1>2. /\ SecretFor(p, "licence") \in {p.licence, Global.licence}
      /\ SecretFor(p, "token") \in {p.token, Global.token}
  BY DEF SecretFor
<1> QED BY <1>1, <1>2

\* SqliteCredentialResolver::resolve: the mode of the profile and what it needs.
LEMMA ResolvedValues ==
  ASSUME NEW p \in Profiles
  PROVE  /\ Resolved(p).mode = p.mode
         /\ Resolved(p).licence =
              IF p.mode = "warp_plus" THEN SecretFor(p, "licence") ELSE None
         /\ Resolved(p).token =
              IF p.mode = "zero_trust" THEN SecretFor(p, "token") ELSE None
<1>1. \/ p.mode = "free" /\ Needed(p) = {}
      \/ p.mode = "warp_plus" /\ Needed(p) = {"licence"}
      \/ p.mode = "zero_trust" /\ Needed(p) = {"token"}
  BY ProfilesAssumption DEF Needed
<1> QED BY <1>1 DEF Resolved

\* do_start goes on with credentials that are complete: what the mode needs is there,
\* readable, and nothing else is.
LEMMA CompleteCreds ==
  ASSUME NEW p \in Profiles, Complete(p)
  PROVE  /\ Resolved(p).mode = "zero_trust" <=> Resolved(p).token # None
         /\ Resolved(p).mode = "warp_plus" <=> Resolved(p).licence # None
         /\ Readable(Resolved(p).licence)
<1>1. p.mode = "warp_plus" => SecretFor(p, "licence") # None /\ Readable(SecretFor(p, "licence"))
  BY DEF Complete, Needed
<1>2. p.mode = "zero_trust" => SecretFor(p, "token") # None
  BY DEF Complete, Needed
<1>3. Readable(None)
  BY DEF Readable, None
<1> QED BY <1>1, <1>2, <1>3, ResolvedValues, ProfilesAssumption

\* Credentials are options of stored secrets, those of every start.
LEMMA CredsType ==
  ASSUME NEW c \in {Resolved(p) : p \in Profiles} \cup {Free}
  PROVE  c.licence \in Options(Licences) /\ c.token \in Options(Tokens)
<1>1. CASE c = Free
  BY <1>1 DEF Free, Options
<1>2. ASSUME NEW p \in Profiles, c = Resolved(p)
      PROVE  c.licence \in Options(Licences) /\ c.token \in Options(Tokens)
  BY <1>2, SecretForType, ResolvedValues DEF Options
<1> QED BY <1>1, <1>2

-----------------------------------------------------------------------------
(***************************************************************************)
(* The shapes of a step.                                                   *)
(***************************************************************************)

\* A step that takes the start to a point and leaves the rest well typed.
LEMMA RunStepTypes ==
  ASSUME TypeOK, NEW a \in Points, NEW k \in 0..Budget(a), NEW g \in Options(BOOLEAN), NEW h \in Sends,
         run' = [pc |-> a, creds |-> run.creds, n |-> k, mdmGone |-> g, sent |-> h],
         UNCHANGED bound, starts' \in 0..MaxStarts,
         reg' \in Regs, mdm' \in Options(Tokens), daemon' \in Daemons, state' \in States
  PROVE  TypeOK'
BY DEF TypeOK, Points, Regs, Daemons, States, Sends

\* What Goto and a further attempt of the same phase make of the start.
LEMMA GotoStep ==
  ASSUME RunInv, NEW a \in Points, Goto(a)
  PROVE  /\ run' = [pc |-> a, creds |-> run.creds, n |-> 0, mdmGone |-> run.mdmGone,
               sent |-> run.sent]
         /\ 0 \in 0..Budget(a)
<1>1. run' = [pc |-> a, creds |-> run.creds, n |-> 0, mdmGone |-> run.mdmGone,
               sent |-> run.sent]
  BY DEF RunInv, Goto
<1>2. 0 \in 0..Budget(a)
  BY BudgetValues
<1> QED BY <1>1, <1>2

LEMMA StopDaemonStep ==
  ASSUME TypeOK, StopDaemon
  PROVE  daemon' \in Daemons /\ ~daemon'.up
BY DEF TypeOK, StopDaemon, Daemons, Options

\* Any end of a start: at "idle" with no daemon, whatever is on disk by then.
LEMMA EndPreserves ==
  ASSUME IInv, Goto("idle"), UNCHANGED bound, starts' \in 0..MaxStarts,
         reg' \in Regs, mdm' \in Options(Tokens), daemon' \in Daemons, ~daemon'.up,
         state' \in States
  PROVE  IInv'
<1>1. run' = [pc |-> "idle", creds |-> run.creds, n |-> 0, mdmGone |-> run.mdmGone,
               sent |-> run.sent]
      /\ 0 \in 0..Budget("idle")
  BY GotoStep DEF IInv, Points
<1>2. TypeOK'
  BY <1>1, RunStepTypes DEF Sends, IInv, Inv, TypeOK, Points
<1>3. CredsInv'
  BY <1>1 DEF IInv, CredsInv, IsZeroTrust
<1>4. /\ PolicyIsOfThisStart' /\ SecretRemoved' /\ LicenceCurrent'
      /\ RunInv' /\ FileInv' /\ RegInv'
  BY <1>1 DEF PolicyIsOfThisStart, SecretRemoved, LicenceCurrent, RunInv, FileInv, RegInv
<1> QED BY <1>2, <1>3, <1>4 DEF IInv, Inv

\* fail_start behind a graceful stop.
LEMMA FailStartPreserves ==
  ASSUME IInv, FailStart, UNCHANGED <<bound, starts, mdm>>, reg' \in Regs
  PROVE  IInv'
<1>1. daemon' \in Daemons /\ ~daemon'.up
  BY StopDaemonStep DEF IInv, Inv, FailStart
<1> QED BY <1>1, EndPreserves DEF FailStart, IInv, Inv, TypeOK, States

\* fail_start where nothing has been spawned.
LEMMA FailEarlyPreserves ==
  ASSUME IInv, FailEarly, run.pc \in {"idle", "mdm", "spawn"},
         UNCHANGED <<bound, reg>>, mdm' \in Options(Tokens), starts' \in 0..MaxStarts
  PROVE  IInv'
<1>1. daemon' \in Daemons /\ ~daemon'.up
  BY DEF FailEarly, IInv, Inv, TypeOK, Daemons, FileInv
<1> QED BY <1>1, EndPreserves DEF FailEarly, IInv, Inv, TypeOK, States, Regs

\* The daemon, the network, the health loop or a rebinding: the start and what is on disk
\* stay, and no daemon appears.
LEMMA OutsidePreserves ==
  ASSUME IInv, UNCHANGED <<run, reg, mdm, starts>>, bound' \in Profiles,
         daemon' \in Daemons, daemon'.up => daemon.up /\ daemon'.policy = daemon.policy,
         state' \in States
  PROVE  IInv'
<1>1. TypeOK'
  BY DEF IInv, Inv, TypeOK, Daemons, States
<1>2. PolicyIsOfThisStart' /\ SecretRemoved' /\ LicenceCurrent'
  BY DEF IInv, Inv, PolicyIsOfThisStart, SecretRemoved, LicenceCurrent
<1>3. RunInv' /\ CredsInv' /\ FileInv' /\ RegInv'
  BY DEF IInv, RunInv, CredsInv, FileInv, RegInv, IsZeroTrust
<1> QED BY <1>1, <1>2, <1>3 DEF IInv, Inv

\* A step that leaves a start at its point: a further attempt, within its budget, or an
\* earlier one that is carried out only now.
LEMMA AgainPreserves ==
  ASSUME IInv, NEW k \in 0..Budget(run.pc), NEW h \in Sends,
         run' = [pc |-> run.pc, creds |-> run.creds, n |-> k, mdmGone |-> run.mdmGone,
                 sent |-> h],
         h.blind = run.sent.blind, run.sent.behind => h.behind,
         reg' \in Regs, reg # None => reg' # None,
         reg' # reg => /\ h.behind \/ run.pc \in {"register", "account"}
                       /\ run.pc = "register" => h.blind \/ \A r \in reg' : r.licence = None,
         UNCHANGED <<bound, starts, mdm, daemon, state>>
  PROVE  IInv'
<1>1. TypeOK'
  <2>1. /\ run.pc \in Points /\ run.mdmGone \in Options(BOOLEAN) /\ mdm' \in Options(Tokens)
        /\ daemon' \in Daemons /\ state' \in States /\ starts' \in 0..MaxStarts
    BY DEF IInv, Inv, TypeOK, Points, Daemons, States
  <2> QED BY <2>1, RunStepTypes DEF IInv, Inv
<1>2. CredsInv' /\ PolicyIsOfThisStart' /\ RunInv' /\ FileInv'
  BY DEF IInv, Inv, CredsInv, IsZeroTrust, PolicyIsOfThisStart, RunInv, FileInv
<1>3. SecretRemoved' /\ RegInv'
  BY DEF IInv, Inv, SecretRemoved, RegInv
<1>4. LicenceCurrent'
  BY DEF IInv, LicenceCurrent
<1> QED BY <1>1, <1>2, <1>3, <1>4 DEF IInv, Inv

\* A further attempt on a disk that stays.
LEMMA RetryPreserves ==
  ASSUME IInv, run' = [run EXCEPT !.n = @ + 1], run.n + 1 \in 0..Budget(run.pc),
         UNCHANGED <<bound, starts, reg, mdm, daemon, state>>
  PROVE  IInv'
<1>1. run' = [pc |-> run.pc, creds |-> run.creds, n |-> run.n + 1, mdmGone |-> run.mdmGone,
              sent |-> run.sent]
  BY DEF IInv, RunInv
<1>2. run.sent \in Sends /\ reg' \in Regs
  BY DEF IInv, Inv, TypeOK, Sends, Regs
<1> QED BY <1>1, <1>2, AgainPreserves

\* The start goes on to its next point, with daemon, disk and state as they are.
LEMMA AdvancePreserves ==
  ASSUME IInv, NEW a \in Points, Goto(a), run.pc \notin {"idle", "mdm", "spawn", "up"},
         a \notin {"idle", "mdm", "spawn", "up"},
         a \in {"ensure", "register", "account", "mode", "port"} => ~IsZeroTrust,
         a = "register" => reg = None \/ run.sent.blind, a = "account" => reg # None,
         a \in {"mode", "port", "connect", "verify", "probe", "clean"} =>
           \/ run.pc \in {"mode", "port", "connect", "verify", "probe", "clean"}
           \/ run.creds.mode # "warp_plus",
         UNCHANGED <<bound, starts, reg, mdm, daemon, state>>
  PROVE  IInv'
<1>1. run' = [pc |-> a, creds |-> run.creds, n |-> 0, mdmGone |-> run.mdmGone,
               sent |-> run.sent]
      /\ 0 \in 0..Budget(a)
  BY GotoStep DEF IInv
<1>2. TypeOK'
  BY <1>1, RunStepTypes DEF Sends, IInv, Inv, TypeOK, Regs, Daemons, States
<1>3. CredsInv' /\ PolicyIsOfThisStart' /\ RunInv' /\ FileInv'
  BY <1>1 DEF IInv, Inv, CredsInv, IsZeroTrust, PolicyIsOfThisStart, RunInv, FileInv
<1>4. SecretRemoved' /\ RegInv'
  BY <1>1 DEF SecretRemoved, RegInv, None
<1>5. LicenceCurrent'
  BY <1>1 DEF IInv, LicenceCurrent
<1> QED BY <1>2, <1>3, <1>4, <1>5 DEF IInv, Inv

-----------------------------------------------------------------------------
(***************************************************************************)
(* The actions.                                                            *)
(***************************************************************************)

\* manager.rs, do_start: the credentials are resolved, whole and readable, or the
\* start ends.
LEMMA StartPreserves ==
  ASSUME IInv, Start
  PROVE  IInv'
<1>1. starts' \in 0..MaxStarts /\ run.pc = "idle" /\ bound \in Profiles /\ ~daemon.up
  BY DEF Start, IInv, Inv, TypeOK, FileInv
<1>2. CASE ~Complete(bound)
  BY <1>1, <1>2, FailEarlyPreserves DEF Start, disk, IInv, Inv, TypeOK
<1>3. CASE Complete(bound)
  <2>1. PICK c : c = Resolved(bound)
    OBVIOUS
  <2>2. /\ c.mode = "zero_trust" <=> c.token # None
        /\ c.mode = "warp_plus" <=> c.licence # None
        /\ Readable(c.licence)
    BY <1>1, <1>3, <2>1, CompleteCreds
  <2>3. run' = [pc |-> "mdm", creds |-> c, n |-> 0, mdmGone |-> None,
               sent |-> Unsent]
        /\ UNCHANGED <<bound, reg, mdm, daemon>> /\ state' = "starting"
    BY <1>3, <2>1 DEF Start, disk
  <2>4. TypeOK'
    <3>1. 0 \in 0..Budget("mdm") /\ None \in Options(BOOLEAN)
      BY BudgetValues DEF Options
    <3>2. Unsent \in [blind : BOOLEAN, late : Nat, behind : BOOLEAN]
      BY DEF Unsent
    <3> HIDE DEF Unsent
    <3> QED BY <1>1, <2>1, <2>3, <3>1, <3>2 DEF IInv, Inv, TypeOK
  <2>5. RunInv' /\ CredsInv'
    BY <2>2, <2>3 DEF RunInv, CredsInv, IsZeroTrust
  <2>6. /\ FileInv' /\ RegInv' /\ PolicyIsOfThisStart' /\ SecretRemoved' /\ LicenceCurrent'
    BY <1>1, <2>3 DEF FileInv, RegInv, PolicyIsOfThisStart, SecretRemoved, LicenceCurrent
  <2> QED BY <2>4, <2>5, <2>6 DEF IInv, Inv
<1> QED BY <1>2, <1>3

\* mdm.rs, sync_mdm_xml, and the spawn that reads what it wrote.
LEMMA SpawnPreserves ==
  ASSUME IInv, SyncMdm \/ SyncMdmFails \/ Spawn \/ SpawnFails
  PROVE  IInv'
<1>1. CASE SyncMdm
  <2>1. run' = [pc |-> "spawn", creds |-> run.creds, n |-> 0, mdmGone |-> run.mdmGone,
               sent |-> run.sent]
        /\ 0 \in 0..Budget("spawn")
    BY <1>1, GotoStep DEF SyncMdm, IInv, Points
  <2>2. mdm' = run.creds.token /\ run.creds.token \in Options(Tokens)
    BY <1>1, CredsType DEF SyncMdm, IInv, Inv, TypeOK, CredsInv
  <2>3. run.pc = "mdm" /\ ~daemon.up /\ UNCHANGED <<bound, reg, daemon, state, starts>>
    BY <1>1 DEF SyncMdm, IInv, FileInv
  <2>4. TypeOK'
    BY <2>1, <2>2, <2>3, RunStepTypes DEF Sends, IInv, Inv, TypeOK, Points, Regs, Daemons, States
  <2>5. RunInv' /\ CredsInv' /\ FileInv'
    BY <2>1, <2>2, <2>3 DEF IInv, RunInv, CredsInv, FileInv, IsZeroTrust
  <2>6. RegInv' /\ PolicyIsOfThisStart' /\ SecretRemoved' /\ LicenceCurrent'
    BY <2>1, <2>3 DEF RegInv, PolicyIsOfThisStart, SecretRemoved, LicenceCurrent
  <2> QED BY <2>4, <2>5, <2>6 DEF IInv, Inv
<1>2. CASE SyncMdmFails
  <2>1. mdm' \in Options(Tokens)
    BY <1>2 DEF SyncMdmFails, IInv, Inv, TypeOK, Options, Tokens
  <2> QED BY <1>2, <2>1, FailEarlyPreserves DEF SyncMdmFails, IInv, Inv, TypeOK
<1>3. CASE Spawn
  <2>1. run' = [pc |-> "ready", creds |-> run.creds, n |-> 0, mdmGone |-> run.mdmGone,
               sent |-> run.sent]
        /\ 0 \in 0..Budget("ready")
    BY <1>3, GotoStep DEF Spawn, IInv, Points
  <2>2. run.pc = "spawn" /\ mdm = run.creds.token /\ run.mdmGone = None
    BY <1>3 DEF Spawn, IInv, FileInv, RunInv
  <2>3. /\ daemon' \in Daemons /\ daemon'.up /\ daemon'.policy = mdm
        /\ UNCHANGED <<bound, reg, mdm, state, starts>>
    BY <1>3 DEF Spawn, disk, IInv, Inv, TypeOK, Daemons
  <2>4. TypeOK'
    BY <2>1, <2>3, RunStepTypes DEF Sends, IInv, Inv, TypeOK, Points, Regs, States
  <2>5. RunInv' /\ CredsInv' /\ FileInv' /\ PolicyIsOfThisStart'
    BY <2>1, <2>2, <2>3 DEF IInv, RunInv, CredsInv, FileInv, IsZeroTrust, PolicyIsOfThisStart
  <2>6. RegInv' /\ SecretRemoved' /\ LicenceCurrent'
    BY <2>1 DEF RegInv, SecretRemoved, LicenceCurrent
  <2> QED BY <2>4, <2>5, <2>6 DEF IInv, Inv
<1>4. CASE SpawnFails
  BY <1>4, FailEarlyPreserves DEF SpawnFails, disk, IInv, Inv, TypeOK
<1> QED BY <1>1, <1>2, <1>3, <1>4

\* warp-svc and the network, the health loop, a rebinding.
LEMMA EnvironmentPreserves ==
  ASSUME IInv, LinkUp \/ LinkDown \/ DaemonCrash \/ HealthRound \/ \E p \in Profiles : Rebind(p)
  PROVE  IInv'
<1>1. CASE LinkUp \/ LinkDown
  <2>1. daemon' \in Daemons /\ daemon'.up = daemon.up /\ daemon'.policy = daemon.policy
    BY <1>1 DEF LinkUp, LinkDown, IInv, Inv, TypeOK, Daemons
  <2> QED BY <1>1, <2>1, OutsidePreserves DEF LinkUp, LinkDown, disk, IInv, Inv, TypeOK, States
<1>2. CASE DaemonCrash
  <2>1. daemon' \in Daemons /\ ~daemon'.up
    BY <1>2, StopDaemonStep DEF DaemonCrash, IInv, Inv
  <2>2. state' \in States
    BY <1>2 DEF DaemonCrash, IInv, Inv, TypeOK, States
  <2> QED BY <1>2, <2>1, <2>2, OutsidePreserves DEF DaemonCrash, disk, IInv, Inv, TypeOK
<1>3. CASE HealthRound
  <2>1. state' \in States
    BY <1>3 DEF HealthRound, States
  <2> QED BY <1>3, <2>1, OutsidePreserves DEF HealthRound, disk, IInv, Inv, TypeOK, Daemons
<1>4. ASSUME NEW p \in Profiles, Rebind(p)
      PROVE  IInv'
  BY <1>4, OutsidePreserves DEF Rebind, disk, IInv, Inv, TypeOK, Daemons, States
<1> QED BY <1>1, <1>2, <1>3, <1>4

\* do_stop, and the end of the container in the middle of anything.
LEMMA StopPreserves ==
  ASSUME IInv, Stop \/ ServerCrash
  PROVE  IInv'
<1>1. daemon' \in Daemons /\ ~daemon'.up
  BY StopDaemonStep DEF Stop, ServerCrash, IInv, Inv
<1>2. mdm' \in Options(Tokens)
  BY DEF Stop, ServerCrash, disk, IInv, Inv, TypeOK, Options, Tokens
<1> QED BY <1>1, <1>2, EndPreserves DEF Stop, ServerCrash, disk, IInv, Inv, TypeOK, Regs, States

\* readiness.rs, and ensure_registered's one look at reg.json.
LEMMA ReadyPreserves ==
  ASSUME IInv, Ready \/ NotReady \/ Ensure
  PROVE  IInv'
<1>1. CASE Ready /\ IsZeroTrust
  <2>1. Goto("connect") /\ run.pc = "ready" /\ run.creds.mode # "warp_plus"
        /\ UNCHANGED <<bound, starts, reg, mdm, daemon, state>>
    BY <1>1 DEF Ready, disk, IsZeroTrust
  <2> QED BY <2>1, AdvancePreserves DEF Points
<1>2. CASE Ready /\ ~IsZeroTrust
  <2>1. Goto("ensure") /\ run.pc = "ready" /\ UNCHANGED <<bound, starts, reg, mdm, daemon, state>>
    BY <1>2 DEF Ready, disk
  <2> QED BY <1>2, <2>1, AdvancePreserves DEF Points
<1>3. CASE NotReady /\ run.n + 1 < MaxReady
  <2>1. run.n + 1 \in 0..Budget(run.pc)
    BY <1>3, BudgetValues DEF NotReady, IInv, Inv, TypeOK
  <2> QED BY <1>3, <2>1, RetryPreserves DEF NotReady, disk
<1>4. CASE NotReady /\ ~(run.n + 1 < MaxReady)
  BY <1>4, FailStartPreserves DEF NotReady, disk, IInv, Inv, TypeOK, Regs
<1>5. ASSUME Ensure, reg # None, Goto("account")
      PROVE  IInv'
  <2>1. run.pc = "ensure" /\ ~IsZeroTrust /\ UNCHANGED <<bound, starts, reg, mdm, daemon, state>>
    BY <1>5 DEF Ensure, disk, IInv, RunInv
  <2> QED BY <1>5, <2>1, AdvancePreserves DEF Points
<1>6. ASSUME Ensure, reg = None, Goto("register")
      PROVE  IInv'
  <2>1. run.pc = "ensure" /\ ~IsZeroTrust /\ UNCHANGED <<bound, starts, reg, mdm, daemon, state>>
    BY <1>6 DEF Ensure, disk, IInv, RunInv
  <2> QED BY <1>6, <2>1, AdvancePreserves DEF Points
<1>7. ASSUME Ensure, run' = [run EXCEPT !.pc = "register", !.n = 0, !.sent.blind = TRUE]
      PROVE  IInv'
  <2>1. run.pc = "ensure" /\ ~IsZeroTrust /\ UNCHANGED <<bound, starts, reg, mdm, daemon, state>>
    BY <1>7 DEF Ensure, disk, IInv, RunInv
  <2>2. PICK h \in Sends : /\ h.blind
                          /\ run' = [pc |-> "register", creds |-> run.creds, n |-> 0,
                                     mdmGone |-> run.mdmGone, sent |-> h]
    <3>1. run.sent \in Sends
      BY DEF IInv, Inv, TypeOK, Sends
    <3>2. [run.sent EXCEPT !.blind = TRUE] \in Sends
      BY <3>1 DEF Sends
    <3>3. [run.sent EXCEPT !.blind = TRUE].blind
      BY <3>1 DEF Sends
    <3>4. run' = [pc |-> "register", creds |-> run.creds, n |-> 0, mdmGone |-> run.mdmGone,
                  sent |-> [run.sent EXCEPT !.blind = TRUE]]
      BY <1>7 DEF IInv, RunInv
    <3> QED BY <3>2, <3>3, <3>4
  <2>3. TypeOK'
    <3>1. 0 \in 0..Budget("register")
      BY BudgetValues
    <3> QED BY <2>1, <2>2, <3>1, RunStepTypes DEF IInv, Inv, TypeOK, Points, Regs, Daemons, States
  <2>4. RunInv' /\ CredsInv' /\ FileInv' /\ PolicyIsOfThisStart'
    BY <2>1, <2>2 DEF IInv, Inv, RunInv, CredsInv, FileInv, IsZeroTrust, PolicyIsOfThisStart
  <2>5. RegInv' /\ SecretRemoved' /\ LicenceCurrent'
    BY <2>2 DEF RegInv, SecretRemoved, LicenceCurrent
  <2> QED BY <2>3, <2>4, <2>5 DEF IInv, Inv
<1> QED BY <1>1, <1>2, <1>3, <1>4, <1>5, <1>6, <1>7 DEF Ensure

\* flow.rs, connect and the poll of `status`.
LEMMA ConnectPreserves ==
  ASSUME IInv, \/ Connect \/ MissingRegistration \/ ConnectFails
               \/ VerifyConnected \/ VerifyPoll \/ VerifyFails
  PROVE  IInv'
<1>1. CASE Connect
  <2>1. Goto("verify") /\ run.pc = "connect" /\ UNCHANGED <<bound, starts, reg, mdm, daemon, state>>
    BY <1>1 DEF Connect, disk
  <2> QED BY <2>1, AdvancePreserves DEF Points
<1>2. CASE VerifyConnected
  <2>1. Goto("probe") /\ run.pc = "verify" /\ UNCHANGED <<bound, starts, reg, mdm, daemon, state>>
    BY <1>2 DEF VerifyConnected, disk
  <2> QED BY <2>1, AdvancePreserves DEF Points
<1>3. CASE MissingRegistration /\ IsZeroTrust /\ run.n < MaxEnrolPolls
  <2>1. run.n + 1 \in 0..Budget(run.pc)
    BY <1>3, BudgetValues DEF MissingRegistration, IInv, Inv, TypeOK
  <2> QED BY <1>3, <2>1, RetryPreserves DEF MissingRegistration, disk
<1>4. CASE VerifyPoll /\ run.n < MaxVerify
  <2>1. run.n + 1 \in 0..Budget(run.pc)
    BY <1>4, BudgetValues DEF VerifyPoll, IInv, Inv, TypeOK
  <2> QED BY <1>4, <2>1, RetryPreserves DEF VerifyPoll, disk
<1>5. CASE FailStart /\ UNCHANGED <<bound, disk, starts>>
  BY <1>5, FailStartPreserves DEF disk, IInv, Inv, TypeOK, Regs
<1> QED BY <1>1, <1>2, <1>3, <1>4, <1>5 DEF MissingRegistration, ConnectFails, VerifyPoll, VerifyFails

\* flow.rs, ensure_registered: an attempt may be carried out and its answer lost, and the
\* next one meets what it made.
LEMMA RegisterPreserves ==
  ASSUME IInv, NEW out \in Outcomes \cup {"late"}, Register(out)
  PROVE  IInv'
<1>1. /\ run.pc = "register" /\ ~IsZeroTrust /\ run.mdmGone = None
      /\ UNCHANGED <<bound, mdm, starts>>
      /\ mdm = run.creds.token /\ (run.sent.blind \/ \A r \in reg : r.licence = None)
  BY DEF Register, IInv, RunInv, FileInv, RegInv
<1>2. /\ reg' \in Regs /\ (run.sent.blind \/ \A r \in reg' : r.licence = None)
      /\ reg # None => reg' # None
      /\ out = "ok" /\ daemon.up => reg' # None
  <2>1. Registered("consumer", None) \in Regs
    BY DEF Registered, Regs, Options, None
  <2>2. /\ Registered("consumer", None) # None
        /\ \A r \in Registered("consumer", None) : r.licence = None
    BY DEF Registered, None
  <2>3. reg' \in {reg, Registered("consumer", None)}
        /\ (out = "ok" /\ daemon.up => reg' = Registered("consumer", None))
    BY DEF Register, NewRegistration, Carried
  <2>4. reg \in Regs
    BY DEF Regs, IInv, Inv, TypeOK
  <2> QED BY <1>1, <2>1, <2>2, <2>3, <2>4
<1>3. CASE out = "ok"
  <2>1. Goto("account") /\ UNCHANGED <<daemon, state>> /\ reg' # None
    BY <1>2, <1>3 DEF Register
  <2>2. run' = [pc |-> "account", creds |-> run.creds, n |-> 0, mdmGone |-> run.mdmGone,
               sent |-> run.sent]
        /\ 0 \in 0..Budget("account")
    BY <2>1, GotoStep DEF IInv, Points
  <2>3. TypeOK'
    <3>1. /\ run.mdmGone \in Options(BOOLEAN) /\ run.sent \in Sends /\ mdm' \in Options(Tokens)
          /\ daemon' \in Daemons /\ state' \in States /\ starts' \in 0..MaxStarts
      BY <1>1, <2>1 DEF IInv, Inv, TypeOK, Sends, Daemons, States
    <3> QED BY <1>1, <1>2, <2>2, <3>1, RunStepTypes DEF IInv, Inv, Points
  <2>4. RunInv' /\ CredsInv' /\ FileInv' /\ PolicyIsOfThisStart'
    BY <1>1, <2>1, <2>2 DEF IInv, Inv, RunInv, CredsInv, FileInv, IsZeroTrust, PolicyIsOfThisStart
  <2>5. RegInv' /\ SecretRemoved' /\ LicenceCurrent'
    BY <2>1, <2>2 DEF RegInv, SecretRemoved, LicenceCurrent
  <2> QED BY <2>3, <2>4, <2>5 DEF IInv, Inv
<1>4. CASE out # "ok" /\ run.n + 1 < MaxRegister
  <2>1. run.n + 1 \in 0..Budget(run.pc)
    BY <1>1, <1>4, BudgetValues DEF IInv, Inv, TypeOK
  <2>2. /\ UNCHANGED <<daemon, state>>
        /\ run' = [run EXCEPT !.n = @ + 1,
                              !.sent.late = IF out = "late" THEN @ + 1 ELSE @]
    BY <1>4 DEF Register, IInv, Inv, TypeOK
  <2>3. run.sent \in Sends
    BY DEF IInv, Inv, TypeOK, Sends
  <2> DEFINE j == IF out = "late" THEN run.sent.late + 1 ELSE run.sent.late
  <2>4. PICK k \in Nat : run' = [run EXCEPT !.n = @ + 1, !.sent.late = k]
    <3>1. j \in Nat
      BY <2>3 DEF Sends
    <3>2. run' = [run EXCEPT !.n = @ + 1, !.sent.late = j]
      BY <2>2
    <3> HIDE DEF j
    <3> QED BY <3>1, <3>2
  <2>5. PICK h \in Sends : /\ h.blind = run.sent.blind /\ h.behind = run.sent.behind
                          /\ run' = [pc |-> run.pc, creds |-> run.creds, n |-> run.n + 1,
                                     mdmGone |-> run.mdmGone, sent |-> h]
    <3>1. run' = [pc |-> run.pc, creds |-> run.creds, n |-> run.n + 1, mdmGone |-> run.mdmGone,
                  sent |-> [run.sent EXCEPT !.late = k]]
      BY <2>4 DEF IInv, RunInv
    <3> QED BY <2>3, <3>1 DEF Sends
  <2> QED BY <1>1, <1>2, <2>1, <2>2, <2>5, AgainPreserves
<1>5. CASE out # "ok" /\ FailStart
  BY <1>1, <1>2, <1>5, FailStartPreserves
<1> QED BY <1>3, <1>4, <1>5 DEF Register

\* warp-svc, behind the time-out of warp-cli: an attempt to register is carried out while
\* another is under way, or when the start has gone on.
LEMMA LandsLatePreserves ==
  ASSUME IInv, LandsLate
  PROVE  IInv'
<1>1. run.sent \in Sends /\ run.n \in 0..Budget(run.pc)
  BY DEF IInv, Inv, TypeOK, Sends
<1>2. /\ reg' = Registered("consumer", None) /\ run.sent.late > 0
      /\ UNCHANGED <<bound, mdm, daemon, state, starts>>
      /\ run' = [run EXCEPT !.sent.late = @ - 1,
                            !.sent.behind = @ \/ run.pc \notin {"register", "account"}]
  BY DEF LandsLate
<1>3. PICK h \in Sends : /\ h.blind = run.sent.blind
                        /\ h.behind = (run.sent.behind \/ run.pc \notin {"register", "account"})
                        /\ run' = [pc |-> run.pc, creds |-> run.creds, n |-> run.n,
                                   mdmGone |-> run.mdmGone, sent |-> h]
  <2> DEFINE g == [blind |-> run.sent.blind, late |-> run.sent.late - 1,
                   behind |-> run.sent.behind \/ run.pc \notin {"register", "account"}]
  <2>1. run.sent.late - 1 \in Nat
    BY <1>1, <1>2 DEF Sends
  <2>2. g \in Sends
    BY <1>1, <2>1 DEF Sends
  <2>3. run' = [pc |-> run.pc, creds |-> run.creds, n |-> run.n, mdmGone |-> run.mdmGone,
                sent |-> g]
    BY <1>1, <1>2 DEF IInv, RunInv, Sends
  <2> QED BY <2>2, <2>3
<1>4. /\ Registered("consumer", None) \in Regs /\ Registered("consumer", None) # None
      /\ \A r \in Registered("consumer", None) : r.licence = None
  BY DEF Registered, Regs, Options, None
<1> QED BY <1>1, <1>2, <1>3, <1>4, AgainPreserves

\* flow.rs, apply_account: behind a success the registration carries this start's licence.
LEMMA ApplyAccountPreserves ==
  ASSUME IInv, NEW out \in Outcomes, ApplyAccount(out)
  PROVE  IInv'
<1>1. /\ run.pc = "account" /\ ~IsZeroTrust /\ run.mdmGone = None
      /\ UNCHANGED <<bound, mdm, starts>>
      /\ mdm = run.creds.token /\ reg # None
  BY DEF ApplyAccount, IInv, RunInv, FileInv, RegInv
<1>2. CASE run.creds.mode # "warp_plus"
  <2>1. Goto("mode") /\ UNCHANGED <<reg, daemon, state>>
    BY <1>2 DEF ApplyAccount
  <2> QED BY <1>1, <1>2, <2>1, AdvancePreserves DEF Points
<1>3. CASE run.creds.mode = "warp_plus"
  <2> DEFINE Licensed == {[r EXCEPT !.licence = run.creds.licence] : r \in reg}
  <2>1. run.creds.licence \in Options(Licences) /\ run.creds.licence # None
        /\ Readable(run.creds.licence)
    BY <1>3, CredsType DEF IInv, Inv, TypeOK, CredsInv
  <2>2. PICK r \in [kind : {"consumer", "team"}, licence : Options(Licences)] : reg = {r}
    BY <1>1 DEF IInv, Inv, TypeOK, Options
  <2>3. Licensed = {[kind |-> r.kind, licence |-> run.creds.licence]}
    BY <2>2
  <2>4. [kind |-> r.kind, licence |-> run.creds.licence]
          \in [kind : {"consumer", "team"}, licence : Options(Licences)]
    BY <2>1, <2>2
  <2>5. Licensed \in Regs
    BY <2>3, <2>4 DEF Regs, Options
  <2>6. reg' \in Regs
    BY <1>3, <2>5 DEF ApplyAccount, IInv, Inv, TypeOK, Regs
  <2>7. CASE out # "ok"
    <3>1. Goto("idle") /\ state' = "failed" /\ StopDaemon
      BY <1>3, <2>7 DEF ApplyAccount, Setting
    <3> QED BY <1>1, <2>6, <3>1, FailStartPreserves DEF FailStart
  <2>8. CASE out = "ok"
    <3>1. Goto("mode") /\ UNCHANGED <<state, daemon>> /\ reg' = Licensed
      BY <1>3, <2>8 DEF ApplyAccount, Setting, Carried
    <3>2. run' = [pc |-> "mode", creds |-> run.creds, n |-> 0, mdmGone |-> run.mdmGone,
               sent |-> run.sent]
          /\ 0 \in 0..Budget("mode")
      BY <3>1, GotoStep DEF IInv, Points
    <3>3. TypeOK'
      BY <1>1, <2>6, <3>1, <3>2, RunStepTypes DEF Sends, IInv, Inv, TypeOK, Points, Daemons, States
    <3>4. RunInv' /\ CredsInv' /\ FileInv' /\ PolicyIsOfThisStart'
      BY <1>1, <3>1, <3>2 DEF IInv, Inv, RunInv, CredsInv, FileInv, IsZeroTrust,
         PolicyIsOfThisStart
    <3>5. RegInv' /\ SecretRemoved'
      BY <3>2 DEF RegInv, SecretRemoved
    <3>6. LicenceCurrent'
      BY <2>1, <2>3, <3>1, <3>2 DEF LicenceCurrent, None
    <3> QED BY <3>3, <3>4, <3>5, <3>6 DEF IInv, Inv
  <2> QED BY <2>7, <2>8
<1> QED BY <1>2, <1>3

\* flow.rs: `mode proxy` and `proxy port`.
LEMMA SetProxyPreserves ==
  ASSUME IInv, NEW out \in Outcomes, SetProxyMode(out) \/ SetProxyPort(out)
  PROVE  IInv'
<1>1. PICK from \in {"mode", "port"}, to \in {"port", "connect"}, what \in {"mode", "port"} :
        SetProxy(from, to, what, out)
  BY DEF SetProxyMode, SetProxyPort
<1>2. /\ run.pc = from /\ ~IsZeroTrust /\ run.mdmGone = None
      /\ UNCHANGED <<bound, reg, mdm, starts>>
  BY <1>1 DEF SetProxy, Setting, disk, IInv, RunInv
<1>3. PICK proxy \in SUBSET {"mode", "port"} :
        daemon' = IF out = "ok" THEN [daemon EXCEPT !.proxy = proxy]
                  ELSE [daemon EXCEPT !.proxy = proxy, !.up = FALSE,
                                      !.policy = None, !.link = FALSE]
  BY <1>1 DEF SetProxy, IInv, Inv, TypeOK
<1>4. CASE out # "ok"
  <2>1. daemon' \in Daemons /\ ~daemon'.up
    BY <1>3, <1>4 DEF IInv, Inv, TypeOK, Daemons, Options
  <2>2. Goto("idle") /\ state' = "failed"
    BY <1>1, <1>4 DEF SetProxy, Setting
  <2> QED BY <1>2, <2>1, <2>2, EndPreserves DEF IInv, Inv, TypeOK, Regs, States
<1>5. CASE out = "ok"
  <2>1. /\ daemon' \in Daemons /\ daemon'.up = daemon.up /\ daemon'.policy = daemon.policy
    BY <1>3, <1>5 DEF IInv, Inv, TypeOK, Daemons
  <2>2. Goto(to) /\ UNCHANGED state
    BY <1>1, <1>5 DEF SetProxy, Setting
  <2>3. run' = [pc |-> to, creds |-> run.creds, n |-> 0, mdmGone |-> run.mdmGone,
               sent |-> run.sent]
        /\ 0 \in 0..Budget(to)
    BY <2>2, GotoStep DEF IInv, Points
  <2>4. TypeOK'
    BY <1>2, <2>1, <2>2, <2>3, RunStepTypes DEF Sends, IInv, Inv, TypeOK, Points, Regs, States
  <2>5. RunInv' /\ CredsInv'
    BY <1>2, <2>3 DEF IInv, RunInv, CredsInv, IsZeroTrust
  <2>6. FileInv' /\ PolicyIsOfThisStart'
    BY <1>2, <2>1, <2>3 DEF IInv, Inv, FileInv, PolicyIsOfThisStart
  <2>7. RegInv' /\ SecretRemoved' /\ LicenceCurrent'
    BY <1>2, <2>3 DEF IInv, RegInv, SecretRemoved, LicenceCurrent
  <2> QED BY <2>4, <2>5, <2>6, <2>7 DEF IInv, Inv
<1> QED BY <1>4, <1>5

\* warp-svc enrols as its policy says, and only a Zero Trust start has left it one.
LEMMA EnrolPreserves ==
  ASSUME IInv, Enrol
  PROVE  IInv'
<1>1. IsZeroTrust /\ run.creds.mode # "warp_plus"
      /\ run.pc \notin {"idle", "mdm", "spawn", "register", "account"}
  BY DEF Enrol, IInv, Inv, PolicyIsOfThisStart, CredsInv, RunInv, FileInv, IsZeroTrust
<1>2. reg' \in Regs
  BY DEF Enrol, Registered, Regs, Options, None
<1>3. /\ daemon' \in Daemons /\ daemon'.up = daemon.up /\ daemon'.policy = daemon.policy
      /\ UNCHANGED <<bound, mdm, run, state, starts>>
  BY DEF Enrol, IInv, Inv, TypeOK, Daemons
<1>4. TypeOK'
  BY <1>2, <1>3 DEF IInv, Inv, TypeOK, Regs, Daemons
<1>5. RunInv' /\ CredsInv' /\ FileInv' /\ PolicyIsOfThisStart' /\ SecretRemoved'
  BY <1>3 DEF IInv, Inv, RunInv, CredsInv, FileInv, IsZeroTrust, PolicyIsOfThisStart, SecretRemoved
<1>6. RegInv' /\ LicenceCurrent'
  BY <1>1, <1>3 DEF RegInv, LicenceCurrent
<1> QED BY <1>4, <1>5, <1>6 DEF IInv, Inv

\* verify_data_plane, and what follows it: mdm.xml is removed, or the instance is
\* Degraded.
LEMMA VerifiedPreserves ==
  ASSUME IInv, Verified \/ Clean \/ NotVerified
  PROVE  IInv'
<1>1. CASE Verified
  <2>1. Goto("clean") /\ run.pc = "probe" /\ UNCHANGED <<bound, starts, reg, mdm, daemon, state>>
    BY <1>1 DEF Verified, disk
  <2> QED BY <2>1, AdvancePreserves DEF Points
<1>2. CASE Clean
  <2>1. /\ run.pc = "clean" /\ state' = "healthy" /\ mdm = run.creds.token
        /\ UNCHANGED <<bound, reg, daemon, starts>>
    BY <1>2 DEF Clean, IInv, FileInv
  <2>2. PICK g \in {{TRUE}, {FALSE}} :
          /\ run' = [pc |-> "up", creds |-> run.creds, n |-> 0, mdmGone |-> g, sent |-> run.sent]
          /\ mdm' \in {None, mdm}
          /\ g = {TRUE} => mdm' = None
    BY <1>2, <2>1 DEF Clean, IInv, RunInv, CredsInv
  <2>3. TypeOK'
    <3>1. 0 \in 0..Budget("up") /\ mdm' \in Options(Tokens)
      BY <2>2, BudgetValues DEF Options, IInv, Inv, TypeOK
    <3>2. g \in Options(BOOLEAN)
      BY <2>2, Zenon DEF Options
    <3> QED BY <2>1, <2>2, <3>1, <3>2, RunStepTypes DEF Sends, IInv, Inv, TypeOK, Points, Regs, Daemons, States
  <2>4. RunInv' /\ CredsInv' /\ FileInv' /\ PolicyIsOfThisStart'
    BY <2>1, <2>2 DEF IInv, Inv, RunInv, CredsInv, FileInv, IsZeroTrust, PolicyIsOfThisStart
  <2>5. RegInv' /\ SecretRemoved' /\ LicenceCurrent'
    BY <2>1, <2>2 DEF IInv, RegInv, SecretRemoved, LicenceCurrent
  <2> QED BY <2>3, <2>4, <2>5 DEF IInv, Inv
<1>3. CASE NotVerified /\ run.n + 1 < MaxProbes
  <2>1. run.n + 1 \in 0..Budget(run.pc)
    BY <1>3, BudgetValues DEF NotVerified, IInv, Inv, TypeOK
  <2> QED BY <1>3, <2>1, RetryPreserves DEF NotVerified, disk
<1>4. CASE NotVerified /\ ~(run.n + 1 < MaxProbes)
  <2>1. /\ run.pc = "probe" /\ run.mdmGone = None /\ Goto("up") /\ state' \in States
        /\ UNCHANGED <<bound, reg, mdm, daemon, starts>>
    BY <1>4 DEF NotVerified, disk, IInv, Inv, TypeOK, States, RunInv
  <2>2. run' = [pc |-> "up", creds |-> run.creds, n |-> 0, mdmGone |-> None,
               sent |-> run.sent]
        /\ 0 \in 0..Budget("up") /\ None \in Options(BOOLEAN)
    BY <2>1, GotoStep DEF IInv, Points, Options
  <2>3. TypeOK'
    BY <2>1, <2>2, RunStepTypes DEF Sends, IInv, Inv, TypeOK, Points, Regs, Daemons
  <2>4. RunInv' /\ CredsInv' /\ FileInv' /\ PolicyIsOfThisStart'
    BY <2>1, <2>2 DEF IInv, Inv, RunInv, CredsInv, FileInv, IsZeroTrust, PolicyIsOfThisStart
  <2>5. RegInv' /\ SecretRemoved' /\ LicenceCurrent'
    BY <2>1, <2>2 DEF IInv, RegInv, SecretRemoved, LicenceCurrent, None
  <2> QED BY <2>3, <2>4, <2>5 DEF IInv, Inv
<1> QED BY <1>1, <1>2, <1>3, <1>4

-----------------------------------------------------------------------------
(***************************************************************************)
(* The theorems.                                                           *)
(***************************************************************************)

\* Every step keeps the inductive invariant.
LEMMA NextPreserves ==
  ASSUME IInv, [Next]_vars
  PROVE  IInv'
<1>1. CASE UNCHANGED vars
  BY <1>1, OutsidePreserves DEF vars, IInv, Inv, TypeOK, Daemons, States
<1>2. CASE Flow
  BY <1>2, SpawnPreserves, ReadyPreserves, RegisterPreserves, ApplyAccountPreserves,
     SetProxyPreserves, ConnectPreserves, VerifiedPreserves DEF Flow
<1> QED BY <1>1, <1>2, StartPreserves, StopPreserves, EnvironmentPreserves, EnrolPreserves,
    LandsLatePreserves DEF Next

\* The first start finds nothing on disk.
LEMMA InitEstablishes == Init => IInv
<1> SUFFICES ASSUME Init PROVE IInv
  OBVIOUS
<1>1. TypeOK
  <2>1. 0 \in 0..Budget("idle")
    BY BudgetValues
  <2> QED BY <2>1 DEF Init, TypeOK, Options, Free, Unsent
<1>2. PolicyIsOfThisStart /\ SecretRemoved /\ LicenceCurrent
  BY DEF Init, PolicyIsOfThisStart, SecretRemoved, LicenceCurrent
<1>3. RunInv /\ CredsInv /\ FileInv /\ RegInv
  BY DEF Init, RunInv, CredsInv, FileInv, RegInv, IsZeroTrust, Free, Readable, None
<1> QED BY <1>1, <1>2, <1>3 DEF IInv, Inv

\* The strengthened invariant holds at every step of every start.
THEOREM RegistrationInvariance == Spec => []IInv
BY InitEstablishes, NextPreserves, PTL DEF Spec

\* mdm.rs and flow.rs: a running daemon has read the policy of the start it belongs to,
\* whatever an earlier start, a failed write or a crash has left on disk; the secret of
\* a verified instance is gone; and no phase exceeds its attempts.
THEOREM PolicyAndSecret == Spec => []Inv
<1>1. IInv => Inv
  BY DEF IInv
<1> QED BY <1>1, RegistrationInvariance, PTL

\* flow.rs, apply_account: from the account step on, the registration of a WARP+ start
\* carries this start's licence, a readable one, also where it was found on disk.
THEOREM LicenceIsCurrent == Spec => []LicenceCurrent
<1>1. IInv => LicenceCurrent
  BY DEF IInv
<1> QED BY <1>1, RegistrationInvariance, PTL

\* flow.rs and warp_cli.rs: a retry of `registration new` behind a lost answer replaces
\* bare registrations only; a licence is lost to one that is sent blind or lands late.
LEMMA StepKeepsLicence ==
  ASSUME IInv, Next, NEW r \in reg, r.licence # None, NEW s \in reg',
         ~(run.pc = "register" /\ run.sent.blind), ~(run'.sent.late < run.sent.late)
  PROVE  s.kind = "team" \/ s.licence # None
<1>1. CASE UNCHANGED reg
  <2>1. s = r
    BY <1>1 DEF IInv, Inv, TypeOK, Options, None
  <2> QED BY <2>1
<1>2. CASE Enrol
  BY <1>2 DEF Enrol, Registered
<1>3. CASE \E out \in Outcomes \cup {"late"} : Register(out)
  <2>1. r.licence = None
    BY <1>3 DEF Register, IInv, RegInv
  <2> QED BY <2>1
<1>4. ASSUME NEW out \in Outcomes, ApplyAccount(out), reg' # reg
      PROVE  s.licence # None
  <2>1. run.creds.licence # None
    BY <1>4 DEF ApplyAccount, IInv, CredsInv
  <2>2. PICK q \in reg : s = [q EXCEPT !.licence = run.creds.licence]
    BY <1>4 DEF ApplyAccount
  <2>3. q \in [kind : {"consumer", "team"}, licence : Options(Licences)]
    BY DEF IInv, Inv, TypeOK, Options, None
  <2> QED BY <2>1, <2>2, <2>3
<1>5. ~LandsLate
  <2>1. ASSUME LandsLate
        PROVE  run'.sent.late < run.sent.late
    <3>1. run.sent \in Sends
      BY DEF IInv, Inv, TypeOK, Sends
    <3>2. run' = [pc |-> run.pc, creds |-> run.creds, n |-> run.n, mdmGone |-> run.mdmGone,
                  sent |-> [run.sent EXCEPT !.late = @ - 1,
                    !.behind = @ \/ run.pc \notin {"register", "account"}]]
      BY <2>1 DEF LandsLate, IInv, RunInv
    <3>3. run'.sent.late = run.sent.late - 1
      BY <3>1, <3>2 DEF Sends
    <3> QED BY <3>1, <3>3 DEF Sends
  <2> QED BY <2>1
<1> QED BY <1>1, <1>2, <1>3, <1>4, <1>5 DEF Next, Flow, SyncMdm, SyncMdmFails, Spawn, SpawnFails,
    Ready, NotReady, Ensure, SetProxyMode, SetProxyPort, SetProxy, Connect, MissingRegistration,
    ConnectFails, VerifyConnected, VerifyPoll, VerifyFails, Verified, Clean, NotVerified, Start,
    Stop, HealthRound, LinkUp, LinkDown, DaemonCrash, Rebind, ServerCrash, disk

\* flow.rs, ensure_registered: no retry, further start or crash takes a licence from a
\* registration; only `registration new` sent because the look for reg.json failed, or
\* carried out behind its time-out and the licence.
THEOREM LicenceIsKept == Spec => LicenceNotLost
<1>1. IInv /\ [Next]_vars =>
        [(\E r \in reg : r.licence # None)
           => \/ \A r \in reg' : r.kind = "team" \/ r.licence # None
              \/ run.pc = "register" /\ run.sent.blind
              \/ run'.sent.late < run.sent.late]_vars
  BY StepKeepsLicence
<1> QED BY <1>1, RegistrationInvariance, PTL DEF Spec, LicenceNotLost
=============================================================================
