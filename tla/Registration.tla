---------------------------- MODULE Registration ----------------------------
(***************************************************************************)
(* One start of an instance from its credentials to a verified data plane  *)
(* (manager.rs do_start, mdm.rs, flow.rs, readiness.rs, warp_cli.rs and    *)
(* probe/), over and over: profiles are rebound between starts, the server *)
(* crashes in the middle of one, and what is on disk stays.                *)
(*                                                                         *)
(* warp-svc is external.  It reads mdm.xml when it is spawned and enrols   *)
(* with it some time later; it writes reg.json; it keeps mode and port; a  *)
(* command it is sent may be carried out although warp-cli is killed for   *)
(* its time-out before the answer comes.                                   *)
(***************************************************************************)
EXTENDS Naturals, FiniteSets

CONSTANTS Profiles,      \* account profiles: [builtin, mode, licence, token],
                         \* the last two of them options: {} or a singleton
          Global,        \* [licence, token]: secrets stored without a profile
          Unreadable,    \* secrets that are encrypted under another master key
          MaxReady,      \* READINESS_MAX_ATTEMPTS
          MaxRegister,   \* attempts of `registration new`
          MaxEnrolPolls, \* ZT_REGISTRATION_WAIT_TIMEOUT in polls
          MaxVerify,     \* VERIFY_TIMEOUT in polls
          MaxProbes,     \* DATA_PLANE_VERIFY_ATTEMPTS
          MaxStarts      \* bound: starts of the instance

ASSUME AttemptsAssumption ==
  /\ {MaxReady, MaxRegister, MaxEnrolPolls, MaxVerify, MaxProbes} \subseteq Nat \ {0}
  /\ MaxStarts \in Nat
ASSUME ProfilesAssumption ==
  /\ \A p \in Profiles : p.mode \in {"free", "warp_plus", "zero_trust"}
  /\ \A p \in Profiles \cup {Global} :
       /\ \A x, y \in p.licence : x = y
       /\ \A x, y \in p.token : x = y

VARIABLES bound,   \* the profile the instance is bound to
          reg,     \* reg.json: {} or {[kind, licence]}
          mdm,     \* mdm.xml: {}, {token} or {"partial"}
          daemon,  \* [up, policy, proxy, link]
          run,     \* the start: [pc, creds, n, mdmGone, sent]; mdmGone is what
                   \* remove_after_enroll came to: {}, {TRUE} or {FALSE}
          state,   \* the registry's state of the instance
          starts   \* starts so far

vars == <<bound, reg, mdm, daemon, run, state, starts>>
disk == <<reg, mdm>>

None == {}
Free == [mode |-> "free", licence |-> None, token |-> None]
Registered(kind, licence) == {[kind |-> kind, licence |-> licence]}
\* What became of this start's `registration new`: sent although reg.json could not be
\* looked for, killed and not carried out yet, carried out behind the account.
Unsent == [blind |-> FALSE, late |-> 0, behind |-> FALSE]
Team == reg # None /\ \A r \in reg : r.kind = "team"
IsZeroTrust == run.creds.mode = "zero_trust"

Init ==
  /\ bound \in Profiles
  /\ reg = None /\ mdm = None
  /\ daemon = [up |-> FALSE, policy |-> None, proxy |-> {}, link |-> FALSE]
  /\ run = [pc |-> "idle", creds |-> Free, n |-> 0, mdmGone |-> None, sent |-> Unsent]
  /\ state = "stopped"
  /\ starts = 0

\* Every phase of a start counts its own attempts.
Goto(to) == run' = [run EXCEPT !.pc = to, !.n = 0]

\* GracefulStop: disconnect, SIGTERM, SIGKILL, reap.
StopDaemon == daemon' = [daemon EXCEPT !.up = FALSE, !.policy = None, !.link = FALSE]

\* fail_start, before there is a process, and behind a graceful stop.
FailEarly ==
  /\ Goto("idle")
  /\ state' = "failed"
  /\ UNCHANGED daemon
FailStart ==
  /\ Goto("idle")
  /\ state' = "failed"
  /\ StopDaemon

-----------------------------------------------------------------------------
\* secret_for: the profile's own secret; only the built-in profile falls back to
\* the global one.  A row that does not decrypt is an error, not an absence.
SecretFor(p, kind) == IF p[kind] # None \/ ~p.builtin THEN p[kind] ELSE Global[kind]
Readable(secret) == secret \cap Unreadable = {}

\* SqliteCredentialResolver::resolve: what the mode needs and nothing else.
Needed(p) ==
  CASE p.mode = "free" -> {}
    [] p.mode = "warp_plus" -> {"licence"}
    [] p.mode = "zero_trust" -> {"token"}
Complete(p) ==
  \A kind \in Needed(p) : SecretFor(p, kind) # None /\ Readable(SecretFor(p, kind))
Resolved(p) ==
  [mode |-> p.mode,
   licence |-> IF "licence" \in Needed(p) THEN SecretFor(p, "licence") ELSE None,
   token |-> IF "token" \in Needed(p) THEN SecretFor(p, "token") ELSE None]

\* do_start resolves the credentials before anything is spawned.  They are this
\* start's own from here on, whatever the instance is bound to meanwhile.
Start ==
  /\ run.pc = "idle"
  /\ starts < MaxStarts
  /\ starts' = starts + 1
  /\ IF Complete(bound)
     THEN /\ run' = [pc |-> "mdm", creds |-> Resolved(bound), n |-> 0,
                    mdmGone |-> None, sent |-> Unsent]
          /\ state' = "starting"
          /\ UNCHANGED daemon
     ELSE FailEarly
  /\ UNCHANGED <<bound, disk>>

\* Variant: mdm.xml of an earlier profile is left alone.
SyncMdmKeeps ==
  /\ run.pc = "mdm"
  /\ mdm' = IF IsZeroTrust THEN run.creds.token ELSE mdm
  /\ Goto("spawn")
  /\ UNCHANGED <<bound, reg, daemon, state, starts>>

\* sync_mdm_xml: written for Zero Trust, removed for everything else.
SyncMdm ==
  /\ run.pc = "mdm"
  /\ mdm' = IF IsZeroTrust THEN run.creds.token ELSE None
  /\ Goto("spawn")
  /\ UNCHANGED <<bound, reg, daemon, state, starts>>

\* The file is truncated before it is written, so an error in between leaves a
\* part of it; a directory that cannot be made, or a file that cannot be removed,
\* leaves it as it was.
SyncMdmFails ==
  /\ run.pc = "mdm"
  /\ \/ UNCHANGED mdm
     \/ IsZeroTrust /\ mdm' = {"partial"}
  /\ FailEarly
  /\ UNCHANGED <<bound, reg, starts>>

\* dbus-daemon, then warp-svc, which reads mdm.xml.
Spawn ==
  /\ run.pc = "spawn"
  /\ daemon' = [daemon EXCEPT !.up = TRUE, !.policy = mdm]
  /\ Goto("ready")
  /\ UNCHANGED <<bound, disk, state, starts>>
SpawnFails ==
  /\ run.pc = "spawn"
  /\ FailEarly
  /\ UNCHANGED <<bound, disk, starts>>

-----------------------------------------------------------------------------
\* warp-svc: enrolment as the policy says (mode and port come with it), its
\* connection, its death.
Enrol ==
  /\ daemon.up
  /\ daemon.policy # None
  /\ ~Team
  /\ reg' = Registered("team", None)
  /\ daemon' = [daemon EXCEPT !.proxy = {"mode", "port"}]
  /\ UNCHANGED <<bound, mdm, run, state, starts>>
LinkUp ==
  /\ daemon.up
  /\ reg # None
  /\ ~daemon.link
  /\ daemon' = [daemon EXCEPT !.link = TRUE]
  /\ UNCHANGED <<bound, disk, run, state, starts>>
LinkDown ==
  /\ daemon.link
  /\ daemon' = [daemon EXCEPT !.link = FALSE]
  /\ UNCHANGED <<bound, disk, run, state, starts>>
DaemonCrash ==
  /\ daemon.up
  /\ StopDaemon
  /\ state' = IF run.pc \in {"probe", "clean", "up"} THEN "failed" ELSE state
  /\ UNCHANGED <<bound, disk, run, starts>>

\* One run of warp-cli.  RealCommandExecutor kills it after CLI_TIMEOUT; the
\* daemon may have carried the command out all the same ("lost").
Outcomes == {"ok", "lost", "error"}
Carried(out) == daemon.up /\ out \in {"ok", "lost"}

-----------------------------------------------------------------------------
\* ReadinessProbe::probe: any answer to `status` will do.
Ready ==
  /\ run.pc = "ready"
  /\ daemon.up
  /\ Goto(IF IsZeroTrust THEN "connect" ELSE "ensure")
  /\ UNCHANGED <<bound, disk, daemon, state, starts>>
NotReady ==
  /\ run.pc = "ready"
  /\ IF run.n + 1 < MaxReady
     THEN run' = [run EXCEPT !.n = @ + 1] /\ UNCHANGED <<daemon, state>>
     ELSE FailStart
  /\ UNCHANGED <<bound, disk, starts>>

\* Variant: `registration new` at every start.
EnsureAlways ==
  /\ run.pc = "ensure"
  /\ Goto("register")
  /\ UNCHANGED <<bound, disk, daemon, state, starts>>

\* ensure_registered looks for reg.json once, before its first attempt, and takes an
\* error of try_exists for a file that is not there.
Ensure ==
  /\ run.pc = "ensure"
  /\ \/ Goto(IF reg # None THEN "account" ELSE "register")
     \/ /\ reg # None
        /\ run' = [run EXCEPT !.pc = "register", !.n = 0, !.sent.blind = TRUE]
  /\ UNCHANGED <<bound, disk, daemon, state, starts>>

\* `registration new`.  Whether warp-svc replaces a registration that it has is its
\* own affair: the model lets it.
NewRegistration(out) ==
  reg' = IF Carried(out) THEN Registered("consumer", None) ELSE reg

\* A retry behind a time-out may meet the registration of the attempt before, or be
\* overtaken by it: what was killed "late" is carried out at any later moment.
Register(out) ==
  /\ run.pc = "register"
  /\ NewRegistration(out)
  /\ \/ /\ out = "ok" /\ daemon.up
        /\ Goto("account")
        /\ UNCHANGED <<daemon, state>>
     \/ /\ out # "ok"
        /\ run.n + 1 < MaxRegister
        /\ run' = [run EXCEPT !.n = @ + 1,
                              !.sent.late = IF out = "late" THEN @ + 1 ELSE @]
        /\ UNCHANGED <<daemon, state>>
     \/ /\ out # "ok"
        /\ run.n + 1 >= MaxRegister
        /\ FailStart
  /\ UNCHANGED <<bound, mdm, starts>>

\* warp-svc comes to an attempt whose warp-cli is dead, the licence perhaps applied.
LandsLate ==
  /\ daemon.up
  /\ run.sent.late > 0
  /\ reg' = Registered("consumer", None)
  /\ run' = [run EXCEPT !.sent.late = @ - 1,
                        !.sent.behind = @ \/ run.pc \notin {"register", "account"}]
  /\ UNCHANGED <<bound, mdm, daemon, state, starts>>

\* The three settings of a start that is not Zero Trust, in this order; any error
\* ends the start.  `registration license` is sent at every start of a WARP+
\* profile; a team account refuses `mode` and `proxy port`.
Setting(from, to, out, allowed) ==
  /\ run.pc = from
  /\ out = "ok" => daemon.up /\ allowed
  /\ IF out = "ok"
     THEN Goto(to) /\ UNCHANGED state
     ELSE Goto("idle") /\ state' = "failed"

\* Variant: only a registration that has no licence is given one.
ApplyAccountOnce(out) ==
  LET given == run.creds.mode = "warp_plus" /\ \A r \in reg : r.licence = None IN
  /\ Setting("account", "mode", IF given THEN out ELSE "ok", TRUE)
  /\ reg' = IF given /\ Carried(out)
            THEN {[r EXCEPT !.licence = run.creds.licence] : r \in reg} ELSE reg
  /\ IF given /\ out # "ok" THEN StopDaemon ELSE UNCHANGED daemon
  /\ UNCHANGED <<bound, mdm, starts>>

ApplyAccount(out) ==
  LET given == run.creds.mode = "warp_plus" IN
  /\ run.pc = "account"
  /\ \/ /\ ~given
        /\ Goto("mode")
        /\ UNCHANGED <<reg, daemon, state>>
     \/ /\ given
        /\ Setting("account", "mode", out, TRUE)
        /\ reg' = IF Carried(out)
                  THEN {[r EXCEPT !.licence = run.creds.licence] : r \in reg}
                  ELSE reg
        /\ IF out = "ok" THEN UNCHANGED daemon ELSE StopDaemon
  /\ UNCHANGED <<bound, mdm, starts>>

SetProxy(from, to, what, out) ==
  LET done == Carried(out) /\ ~Team
      proxy == IF done THEN daemon.proxy \cup {what} ELSE daemon.proxy IN
  /\ Setting(from, to, out, ~Team)
  /\ daemon' = IF out = "ok"
               THEN [daemon EXCEPT !.proxy = proxy]
               ELSE [daemon EXCEPT !.proxy = proxy, !.up = FALSE,
                                   !.policy = None, !.link = FALSE]
  /\ UNCHANGED <<bound, disk, starts>>
SetProxyMode(out) == SetProxy("mode", "port", "mode", out)
SetProxyPort(out) == SetProxy("port", "connect", "port", out)

\* RegistrationFlow::connect.  Without a registration the daemon refuses; only a
\* Zero Trust start takes that for "not yet", and asks again until its deadline.
Connect ==
  /\ run.pc = "connect"
  /\ daemon.up /\ reg # None
  /\ Goto("verify")
  /\ UNCHANGED <<bound, disk, daemon, state, starts>>

\* Variant: the deadline is set anew at every poll.
MissingRegistrationForever ==
  /\ run.pc = "connect"
  /\ daemon.up /\ reg = None
  /\ IF IsZeroTrust
     THEN run' = [run EXCEPT !.n = (@ + 1) % MaxEnrolPolls] /\ UNCHANGED <<daemon, state>>
     ELSE FailStart
  /\ UNCHANGED <<bound, disk, starts>>

MissingRegistration ==
  /\ run.pc = "connect"
  /\ daemon.up /\ reg = None
  /\ IF IsZeroTrust /\ run.n < MaxEnrolPolls
     THEN run' = [run EXCEPT !.n = @ + 1] /\ UNCHANGED <<daemon, state>>
     ELSE FailStart
  /\ UNCHANGED <<bound, disk, starts>>
ConnectFails ==
  /\ run.pc = "connect"
  /\ FailStart
  /\ UNCHANGED <<bound, disk, starts>>

\* The poll of `status`: an answer that is taken for "connected" (parse_status takes
\* any text with the word in it, "not connected" too), another (again until the
\* deadline), or an error, which ends the start at once.
VerifyConnected ==
  /\ run.pc = "verify"
  /\ daemon.up
  /\ Goto("probe")
  /\ UNCHANGED <<bound, disk, daemon, state, starts>>
VerifyPoll ==
  /\ run.pc = "verify"
  /\ daemon.up /\ ~daemon.link
  /\ IF run.n < MaxVerify
     THEN run' = [run EXCEPT !.n = @ + 1] /\ UNCHANGED <<daemon, state>>
     ELSE FailStart
  /\ UNCHANGED <<bound, disk, starts>>
VerifyFails ==
  /\ run.pc = "verify"
  /\ FailStart
  /\ UNCHANGED <<bound, disk, starts>>

-----------------------------------------------------------------------------
\* The tunnel to the trace server goes through the daemon's own SOCKS5 listener,
\* which is there once mode and port are set; each step of the handshake is read
\* to its end, whatever the form of the address in the reply.
Tunnel(here) == here.up /\ here.proxy = {"mode", "port"}

\* RealDataPlaneProber::probe asks over IPv4 and over IPv6 at once.  A family
\* has no answer (refused, handshake, TLS, HTTP, status, time-out: None) or the
\* `warp` field of the trace.  Whether there is one is the network's choice.
TraceOne(here) ==
  IF Tunnel(here)
  THEN {None, {IF here.link THEN "on" ELSE "off"}}
  ELSE {None}
Reports(here) == {[v4 |-> a, v6 |-> b] : a, b \in TraceOne(here)}

\* DataPlaneReport::warp_on: either family is enough.
WarpOn(report) == "on" \in report.v4 \cup report.v6

\* verify_data_plane succeeds.
Verified ==
  /\ run.pc = "probe"
  /\ \E report \in Reports(daemon) : WarpOn(report)
  /\ Goto("clean")
  /\ UNCHANGED <<bound, disk, daemon, state, starts>>

\* Then a Zero Trust start removes mdm.xml (an error is logged and no more), and
\* the instance is Healthy, whatever has become of the daemon meanwhile.
Clean ==
  /\ run.pc = "clean"
  /\ \/ /\ mdm' = IF IsZeroTrust THEN None ELSE mdm
        /\ run' = [run EXCEPT !.pc = "up", !.n = 0, !.mdmGone = {TRUE}]
     \/ /\ IsZeroTrust
        /\ run' = [run EXCEPT !.pc = "up", !.n = 0, !.mdmGone = {FALSE}]
        /\ UNCHANGED mdm
  /\ state' = "healthy"
  /\ UNCHANGED <<bound, reg, daemon, starts>>

\* An attempt fails; after the last the instance is Degraded and keeps running,
\* unless the crash watcher has marked it Failed.
NotVerified ==
  /\ run.pc = "probe"
  /\ \E report \in Reports(daemon) : ~WarpOn(report)
  /\ IF run.n + 1 < MaxProbes
     THEN run' = [run EXCEPT !.n = @ + 1] /\ UNCHANGED state
     ELSE /\ Goto("up")
          /\ state' = IF state = "starting" THEN "degraded" ELSE state
  /\ UNCHANGED <<bound, disk, daemon, starts>>

\* The health loop, on an instance that runs (InstanceManager has what may happen
\* between its probe and its verdict).
HealthRound ==
  /\ run.pc = "up" /\ state \in {"healthy", "degraded"}
  /\ \E report \in Reports(daemon) :
       state' = IF WarpOn(report) THEN "healthy" ELSE "degraded"
  /\ UNCHANGED <<bound, disk, daemon, run, starts>>

\* do_stop, by a user or by the reconciler before it starts again.
Stop ==
  /\ run.pc = "up"
  /\ Goto("idle")
  /\ StopDaemon
  /\ state' = "stopped"
  /\ UNCHANGED <<bound, disk, starts>>

Rebind(p) ==
  /\ p # bound
  /\ bound' = p
  /\ UNCHANGED <<disk, daemon, run, state, starts>>

\* The container goes down at any point of a start and comes up again.
ServerCrash ==
  /\ run.pc # "idle" \/ state # "stopped"
  /\ \/ UNCHANGED mdm
     \/ run.pc = "mdm" /\ IsZeroTrust /\ mdm' = {"partial"}
  /\ Goto("idle")
  /\ StopDaemon
  /\ state' = "stopped"
  /\ UNCHANGED <<bound, reg, starts>>

-----------------------------------------------------------------------------
\* What the task of a start does by itself, time-outs and deadlines included.
Flow ==
  \/ SyncMdm \/ SyncMdmFails \/ Spawn \/ SpawnFails
  \/ Ready \/ NotReady \/ Ensure
  \/ \E out \in Outcomes \cup {"late"} : Register(out)
  \/ \E out \in Outcomes :
       ApplyAccount(out) \/ SetProxyMode(out) \/ SetProxyPort(out)
  \/ Connect \/ MissingRegistration \/ ConnectFails
  \/ VerifyConnected \/ VerifyPoll \/ VerifyFails
  \/ Verified \/ Clean \/ NotVerified

Next ==
  \/ Flow
  \/ Start \/ Stop \/ HealthRound
  \/ Enrol \/ LandsLate \/ LinkUp \/ LinkDown \/ DaemonCrash
  \/ \E p \in Profiles : Rebind(p)
  \/ ServerCrash

\* The flow's task is scheduled; nothing is assumed of warp-svc or the network.
Spec == Init /\ [][Next]_vars /\ WF_vars(Flow)

-----------------------------------------------------------------------------
Tokens == (UNION {p.token : p \in Profiles}) \cup Global.token \cup {"partial"}
Licences == (UNION {p.licence : p \in Profiles}) \cup Global.licence
Options(S) == {None} \cup {{x} : x \in S}

Budget(pc) ==
  CASE pc = "ready" -> MaxReady - 1
    [] pc = "register" -> MaxRegister - 1
    [] pc = "connect" -> MaxEnrolPolls
    [] pc = "verify" -> MaxVerify
    [] pc = "probe" -> MaxProbes - 1
    [] OTHER -> 0

TypeOK ==
  /\ bound \in Profiles
  /\ reg \in Options([kind : {"consumer", "team"}, licence : Options(Licences)])
  /\ mdm \in Options(Tokens)
  /\ daemon \in [up : BOOLEAN, policy : Options(Tokens),
                 proxy : SUBSET {"mode", "port"}, link : BOOLEAN]
  /\ run.pc \in {"idle", "mdm", "spawn", "ready", "ensure", "register", "account",
                 "mode", "port", "connect", "verify", "probe", "clean", "up"}
  /\ run.mdmGone \in Options(BOOLEAN)
  /\ run.sent \in [blind : BOOLEAN, late : Nat, behind : BOOLEAN]
  /\ run.creds \in {Resolved(p) : p \in Profiles} \cup {Free}
  /\ run.n \in 0..Budget(run.pc)
  /\ state \in {"stopped", "starting", "healthy", "degraded", "failed"}
  /\ starts \in 0..MaxStarts

\* The policy that a running daemon has read is that of the start it belongs to:
\* the token of a Zero Trust start, never an older one or a half-written file,
\* and none at all for any other start.
PolicyIsOfThisStart == daemon.up => daemon.policy = run.creds.token

\* From the moment a WARP+ start has applied its account, the registration
\* carries this start's licence, also where an older one was found on disk; and
\* that is a licence, never the garble of one that did not decrypt.  The one way to
\* lose it is an attempt to register, killed for its time-out, that is carried out
\* behind the licence: nothing in the flow looks again.
LicenceCurrent ==
  /\ run.pc \in {"mode", "port", "connect", "verify", "probe", "clean", "up"}
  /\ run.creds.mode = "warp_plus"
  => /\ reg # None /\ run.creds.licence # None
     /\ \/ run.sent.behind
        \/ \A r \in reg : r.licence = run.creds.licence /\ Readable(r.licence)

\* Every start ends, running or failed, whatever warp-svc answers and however
\* long it takes to enrol.
StartEnds == (run.pc \notin {"idle", "up"}) ~> (run.pc \in {"idle", "up"})

\* While an instance runs whose start was verified, the secret that was written for
\* warp-svc is not on disk, unless removing it failed.
SecretRemoved ==
  run.pc = "up" /\ run.mdmGone = {TRUE} => mdm = None

\* The policy file at every step of a start and after it: the daemon has read this
\* start's and no other, attempts stay within their budget (TypeOK), and a verified
\* instance has no secret on disk.
Inv == TypeOK /\ PolicyIsOfThisStart /\ SecretRemoved

(***************************************************************************)
(* The inductive invariant.                                                *)
(***************************************************************************)

\* Where a start is.  The steps between `ensure` and `port` are those of a start that
\* is not Zero Trust, and only the last step of a start cleans up.
RunInv ==
  /\ run = [pc |-> run.pc, creds |-> run.creds, n |-> run.n, mdmGone |-> run.mdmGone,
            sent |-> run.sent]
  /\ run.pc \notin {"idle", "up"} => run.mdmGone = None
  /\ run.pc \in {"ensure", "register", "account", "mode", "port"} => ~IsZeroTrust

\* What a start has resolved is what its mode needs, there and readable.
CredsInv ==
  /\ IsZeroTrust <=> run.creds.token # None
  /\ run.creds.mode = "warp_plus" <=> run.creds.licence # None
  /\ Readable(run.creds.licence)

\* The daemon runs behind its spawn only, and from sync_mdm_xml to remove_after_enroll
\* the policy file is this start's.
FileInv ==
  /\ daemon.up => run.pc \notin {"idle", "mdm", "spawn"}
  /\ run.pc \notin {"idle", "mdm", "up"} => mdm = run.creds.token

\* `registration new` is sent over a bare registration or none, unless the look for
\* reg.json failed; `registration license` over one that is there.
RegInv ==
  /\ run.pc = "register" => run.sent.blind \/ \A r \in reg : r.licence = None
  /\ run.pc = "account" => reg # None

IInv == Inv /\ LicenceCurrent /\ RunInv /\ CredsInv /\ FileInv /\ RegInv

\* A registration that carries a licence is replaced by a bare one in two cases only:
\* reg.json was there and could not be looked for, so that the flow registers over it;
\* or warp-svc carries out an attempt to register whose warp-cli was killed before the
\* licence was applied.  No retry, no further start and no crash does it.
LicenceNotLost ==
  [][(\E r \in reg : r.licence # None)
       => \/ \A r \in reg' : r.kind = "team" \/ r.licence # None
          \/ run.pc = "register" /\ run.sent.blind
          \/ run'.sent.late < run.sent.late]_vars
=============================================================================
