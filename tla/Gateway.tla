------------------------------- MODULE Gateway -------------------------------
(***************************************************************************)
(* The built-in proxy gateway and the path a setting takes to it:          *)
(*   PUT /proxy (api/proxy.rs)  ->  proxy_config row and password secret   *)
(*   Reconciler::sync_proxy     ->  apply_config or stop on the gateway    *)
(*   run_with_ready             ->  listeners, rebuilt when it is woken    *)
(*                                                                         *)
(* The three run concurrently. What they share is the database, a config   *)
(* slot, a few flags and a Notify, of which the code uses notify_waiters   *)
(* only: it wakes a loop that is waiting at that moment and leaves no      *)
(* permit for one that is not.                                             *)
(*                                                                         *)
(* Settings are kept to what the code tells apart: the two protocol        *)
(* switches and the authentication (none, or a password). Sessions in      *)
(* flight run in tasks of their own and outlive every step taken here.     *)
(***************************************************************************)
EXTENDS Naturals

CONSTANTS Clients,     \* concurrent PUT requests
          UserRows,    \* the rows that requests ask for
          Passwords,   \* proxy passwords
          NoPassword,  \* secret store: no row; settings: auth is None
          Keep         \* PUT: the password field is absent

ASSUME UserRowsAssumption ==
    UserRows \subseteq [socks : BOOLEAN, http : BOOLEAN, auth : BOOLEAN]
ASSUME PasswordsAssumption == {NoPassword, Keep} \cap Passwords = {} /\ NoPassword # Keep

Rows     == [socks : BOOLEAN, http : BOOLEAN, auth : BOOLEAN]
Settings == [socks : BOOLEAN, http : BOOLEAN, auth : Passwords \cup {NoPassword}]

NoSettings == [socks |-> FALSE, http |-> FALSE, auth |-> Keep]   \* None
NoRow      == [socks |-> FALSE, http |-> FALSE, auth |-> FALSE]
NoPut      == [row |-> NoRow, password |-> "none"]

VARIABLES
    row,      \* proxy_config
    secret,   \* secrets: proxy_password, decrypted
    put,      \* the validated update of each request, not yet committed
    rec,      \* where sync_proxy is
    recRow,   \* the row it has read and works from
    recAuth,  \* the password it has read and is about to apply
    lapsed,   \* history: the row was without auth when, or since, it was read
    applyErr, \* ApplyErrorSlot is Some
    applied,  \* SharedState.last_applied
    config,   \* SharedState.config (main applies before the loop is spawned)
    stopped,  \* SharedState.stopped
    active,   \* SharedState.active
    lastErr,  \* SharedState.last_error is Some
    gpc,      \* where run_with_ready is
    cfg,      \* its snapshot of the config
    httpUp,   \* this generation has an http listener
    woken,    \* its pending notified() was woken
    shut      \* the shutdown watch holds true

db     == <<row, secret, put>>
sync   == <<rec, recRow, recAuth, lapsed, applyErr>>
shared == <<applied, config, stopped>>
shown  == <<active, lastErr>>
loop   == <<gpc, cfg, httpUp>>
vars   == <<db, sync, shared, shown, loop, woken, shut>>

\* The awaits of sync_proxy between its read of the row and its end: whatever it has
\* read may be changed there.
Working == {"read", "secret", "apply"}

\* The points at which the loop holds a notified() future.
Waiting == {"serving", "retry"}

\* The socks5 listener is bound before the http one and closed with it.
SocksOpen == gpc \in {"bindHttp", "serving"}

\* Types of the stored settings, of the reconciler's step, of the gateway's shared
\* state and of the supervised loop: "keep the password" is an instruction of a
\* request and never gets into the secret store or into the settings.
TypeOK ==
    /\ row \in Rows
    /\ secret \in Passwords \cup {NoPassword}
    /\ put \in [Clients -> [row : Rows, password : Passwords \cup {NoPassword, Keep, "none"}]]
    /\ rec \in {"idle", "read", "secret", "apply", "notify", "stopping", "exited", "closed"}
    /\ recRow \in Rows
    /\ recAuth \in Passwords \cup {NoPassword}
    /\ lapsed \in BOOLEAN
    /\ applyErr \in BOOLEAN
    /\ applied \in Settings \cup {NoSettings}
    /\ config \in Settings
    /\ stopped \in BOOLEAN
    /\ active \in BOOLEAN
    /\ lastErr \in BOOLEAN
    /\ gpc \in {"head", "bind", "bindHttp", "serving", "retry", "done"}
    /\ cfg \in Settings \cup {NoSettings}
    /\ httpUp \in BOOLEAN
    /\ woken \in BOOLEAN
    /\ shut \in BOOLEAN

\* proxy_settings_from_config: the password is left to sync_proxy.
FromRow(r) == [socks |-> r.socks, http |-> r.http, auth |-> NoPassword]

\* main: the row that an earlier process has saved is applied before the loop and
\* the reconciler are spawned. Auth without a password is a row that two requests
\* leave when each is validated before the other one commits.
Init ==
    /\ row \in UserRows
    /\ secret \in Passwords \cup {NoPassword}
    /\ put = [c \in Clients |-> NoPut]
    /\ rec = "idle"
    /\ recRow = NoRow
    /\ recAuth = NoPassword
    /\ lapsed = FALSE
    /\ applyErr = FALSE
    /\ applied = FromRow(row)
    /\ config = FromRow(row)
    /\ stopped = FALSE
    /\ active = FALSE
    /\ lastErr = FALSE
    /\ gpc = "head"
    /\ cfg = NoSettings
    /\ httpUp = FALSE
    /\ woken = FALSE
    /\ shut = FALSE

-----------------------------------------------------------------------------
(***************************************************************************)
(* PUT /proxy. The current row and the presence of the password are read   *)
(* and validated, then row and password are written in one transaction.    *)
(***************************************************************************)

\* r is the current row with the request's fields laid over it (any row of
\* UserRows can result, so the two reads are one step); p is Keep, NoPassword to clear, or
\* the new password. An update that wants auth without a password is a 422.
PutRead(c, r, p) ==
    /\ put[c] = NoPut
    /\ r.auth => IF p = Keep THEN secret # NoPassword ELSE p # NoPassword
    /\ put' = [put EXCEPT ![c] = [row |-> r, password |-> p]]
    /\ UNCHANGED <<row, secret, sync, shared, shown, loop, woken, shut>>

\* update_proxy_with_password: the row and the password in one transaction.
PutCommit(c) ==
    /\ put[c] # NoPut
    /\ row' = put[c].row
    /\ secret' = IF put[c].password = Keep THEN secret ELSE put[c].password
    /\ put' = [put EXCEPT ![c] = NoPut]
    /\ lapsed' = (rec \in Working /\ (lapsed \/ ~row'.auth))
    /\ UNCHANGED <<rec, recRow, recAuth, applyErr, shared, shown, loop, woken, shut>>

-----------------------------------------------------------------------------
(***************************************************************************)
(* Reconciler::sync_proxy, at the end of every round.                      *)
(***************************************************************************)

\* notify_waiters: only a loop that is waiting is woken.
NotifyWaiters == woken' = (woken \/ gpc \in Waiting)

\* What was read goes with the round.
Forget == recRow' = NoRow /\ recAuth' = NoPassword /\ lapsed' = FALSE

SyncReturns(err) == rec' = "idle" /\ Forget /\ applyErr' = err

\* Variant: the password is not part of the comparison.
ApplyConfigIgnoresPassword(s) ==
    IF applied # NoSettings /\ [applied EXCEPT !.auth = s.auth] = s
    THEN SyncReturns(FALSE) /\ UNCHANGED shared
    ELSE /\ applied' = s
         /\ config' = s
         /\ rec' = "notify"
         /\ Forget
         /\ UNCHANGED <<applyErr, stopped>>

\* apply_config: the same settings again are skipped; others go into the slot,
\* and the loop is notified a moment later.
ApplyConfig(s) ==
    IF applied = s
    THEN SyncReturns(FALSE) /\ UNCHANGED shared
    ELSE /\ applied' = s
         /\ config' = s
         /\ rec' = "notify"
         /\ Forget
         /\ UNCHANGED <<applyErr, stopped>>

\* The row is read. (A read that fails ends the round.)
SyncRead ==
    /\ rec = "idle"
    /\ rec' = "read"
    /\ recRow' = row
    /\ lapsed' = ~row.auth
    /\ UNCHANGED <<db, recAuth, applyErr, shared, shown, loop, woken, shut>>

\* The round goes on with the row it was given, whatever is stored by now: both
\* protocols off is a stop, auth needs the password first, the rest is applied.
SyncDecide ==
    /\ rec = "read"
    /\ IF ~recRow.socks /\ ~recRow.http
       THEN /\ rec' = "stopping"
            /\ Forget
            /\ stopped' = TRUE
            /\ applied' = NoSettings
            /\ UNCHANGED <<applyErr, config>>
       ELSE IF recRow.auth
       THEN rec' = "secret" /\ UNCHANGED <<recRow, recAuth, lapsed, applyErr, shared>>
       ELSE ApplyConfig(FromRow(recRow))
    /\ UNCHANGED <<db, shown, loop, woken, shut>>

\* The password is read and decrypted.
SyncSecret ==
    /\ rec = "secret"
    /\ secret # NoPassword
    /\ rec' = "apply"
    /\ recAuth' = secret
    /\ UNCHANGED <<db, recRow, lapsed, applyErr, shared, shown, loop, woken, shut>>

\* Variant: fail-open, the settings are applied without the password.
SyncSecretFailsOpen ==
    /\ rec = "secret"
    /\ ApplyConfig(FromRow(recRow))
    /\ UNCHANGED <<db, shown, loop, woken, shut>>

\* Fail-closed: a password that is missing or cannot be read ends the round
\* with an error in the slot, and the gateway keeps what it has.
SyncSecretFails ==
    /\ rec = "secret"
    /\ SyncReturns(TRUE)
    /\ UNCHANGED <<db, shared, shown, loop, woken, shut>>

\* The password that was read is put into the settings, and they are applied.
SyncApply ==
    /\ rec = "apply"
    /\ ApplyConfig([socks |-> recRow.socks, http |-> recRow.http, auth |-> recAuth])
    /\ UNCHANGED <<db, shown, loop, woken, shut>>

SyncNotify ==
    /\ rec = "notify"
    /\ NotifyWaiters
    /\ SyncReturns(FALSE)
    /\ UNCHANGED <<db, shared, shown, loop, shut>>

\* Variant: stop only raises the flag.
SyncStopSilent ==
    /\ rec = "stopping"
    /\ active' = FALSE
    /\ SyncReturns(FALSE)
    /\ UNCHANGED <<db, shared, lastErr, loop, woken, shut>>

\* The rest of stop: the loop is notified, active is cleared.
SyncStop ==
    /\ rec = "stopping"
    /\ NotifyWaiters
    /\ active' = FALSE
    /\ SyncReturns(FALSE)
    /\ UNCHANGED <<db, shared, lastErr, loop, shut>>

-----------------------------------------------------------------------------
(***************************************************************************)
(* BuiltinGateway::run_with_ready.                                         *)
(***************************************************************************)

\* Variant: active is left as it was.
LoopEndsActive ==
    /\ gpc' = "done"
    /\ cfg' = NoSettings
    /\ httpUp' = FALSE
    /\ woken' = FALSE
    /\ UNCHANGED active

\* Any exit of the loop: the listeners go with their tasks, active is cleared,
\* and supervise, whose task returned without a panic, ends too.
LoopEnds ==
    /\ gpc' = "done"
    /\ cfg' = NoSettings
    /\ httpUp' = FALSE
    /\ active' = FALSE
    /\ woken' = FALSE

\* The top of the loop: stopped ends it, else the config is snapshotted.
Head ==
    /\ gpc = "head"
    /\ IF stopped
       THEN LoopEnds /\ UNCHANGED lastErr
       ELSE /\ cfg' = config
            /\ gpc' = "bind"
            /\ UNCHANGED <<httpUp, shown, woken>>
    /\ UNCHANGED <<db, sync, shared, shut>>

\* The socks5 port is bound, whatever socks5_enabled says; a failure is kept in
\* last_error and retried after a back-off. active is left as it was.
BindSocks ==
    /\ gpc = "bind"
    /\ \/ /\ active' = TRUE
          /\ lastErr' = FALSE
          /\ gpc' = IF cfg.http THEN "bindHttp" ELSE "serving"
          /\ UNCHANGED cfg
       \/ /\ lastErr' = TRUE
          /\ gpc' = "retry"
          /\ cfg' = NoSettings
          /\ UNCHANGED active
    /\ UNCHANGED <<db, sync, shared, httpUp, woken, shut>>

\* The http port; a failure costs that protocol only and is not kept.
BindHttp ==
    /\ gpc = "bindHttp"
    /\ httpUp' \in BOOLEAN
    /\ gpc' = "serving"
    /\ UNCHANGED <<db, sync, shared, shown, cfg, woken, shut>>

\* A listener task ends or panics: both go, and the next generation is built
\* after a back-off.
ListenerExits ==
    /\ gpc = "serving"
    /\ gpc' = "retry"
    /\ cfg' = NoSettings
    /\ httpUp' = FALSE
    /\ woken' = FALSE
    /\ UNCHANGED <<db, sync, shared, shown, shut>>

\* A wake-up ends the generation.
Rebuild ==
    /\ gpc = "serving"
    /\ woken
    /\ gpc' = "head"
    /\ cfg' = NoSettings
    /\ httpUp' = FALSE
    /\ woken' = FALSE
    /\ UNCHANGED <<db, sync, shared, shown, shut>>

\* The back-off is over, or a wake-up cuts it short.
Retry ==
    /\ gpc = "retry"
    /\ gpc' = "head"
    /\ woken' = FALSE
    /\ UNCHANGED <<db, sync, shared, shown, cfg, httpUp, shut>>

-----------------------------------------------------------------------------
(***************************************************************************)
(* Shutdown: the watch is set, the reconciler leaves its loop (or is       *)
(* aborted at an await), then main stops the gateway.                      *)
(***************************************************************************)
ShutdownSignal ==
    /\ ~shut
    /\ shut' = TRUE
    /\ UNCHANGED <<db, sync, shared, shown, loop, woken>>

LoopSeesShutdown ==
    /\ shut
    /\ gpc \in Waiting
    /\ LoopEnds
    /\ UNCHANGED <<db, sync, shared, lastErr, shut>>

ReconcilerExits ==
    /\ shut
    /\ rec \in {"idle"} \cup Working
    /\ rec' = "exited"
    /\ Forget
    /\ UNCHANGED <<db, applyErr, shared, shown, loop, woken, shut>>

MainStops ==
    /\ rec = "exited"
    /\ rec' = "closed"
    /\ stopped' = TRUE
    /\ applied' = NoSettings
    /\ NotifyWaiters
    /\ active' = FALSE
    /\ UNCHANGED <<db, recRow, recAuth, lapsed, applyErr, config, lastErr, loop, shut>>

-----------------------------------------------------------------------------
Put == \E c \in Clients :
          \/ \E r \in UserRows, p \in Passwords \cup {NoPassword, Keep} : PutRead(c, r, p)
          \/ PutCommit(c)

Sync == \/ SyncRead \/ SyncDecide \/ SyncSecret \/ SyncSecretFails \/ SyncApply
        \/ SyncNotify \/ SyncStop

Loop == Head \/ BindSocks \/ BindHttp \/ Rebuild \/ Retry

Shutdown == LoopSeesShutdown \/ ReconcilerExits \/ MainStops

Next == Put \/ Sync \/ Loop \/ Shutdown \/ ListenerExits \/ ShutdownSignal

Spec == Init /\ [][Next]_vars

\* The reconciler comes round every five seconds, the loop never waits without
\* a timer or a wake-up, a request in flight commits, a password that is there
\* is not unreadable for ever, and a reconciler that finds the shutdown at the
\* top of its loop round after round takes it (main aborts it otherwise).
Fairness ==
    /\ \A c \in Clients : WF_vars(PutCommit(c))
    /\ WF_vars(Sync)
    /\ SF_vars(SyncSecret)
    /\ WF_vars(Loop)
    /\ WF_vars(LoopSeesShutdown)
    /\ SF_vars(ReconcilerExits)
    /\ WF_vars(MainStops)

FairSpec == Spec /\ Fairness

-----------------------------------------------------------------------------
(***************************************************************************)
(* What must hold.                                                         *)
(***************************************************************************)

\* Settings the row and the secret ask for.
Desired == [socks |-> row.socks, http |-> row.http,
            auth |-> IF row.auth THEN secret ELSE NoPassword]

AnyListener == row.socks \/ row.http

HasPassword == row.auth => secret # NoPassword

\* Users have stopped changing things.
Quiet == \A c \in Clients : put[c] = NoPut

\* Authentication that is in force is only ever lost to a round in which the row did
\* without it, when the round read it or at some moment since: never to a password
\* that was deleted, replaced or unreadable between the reads of one round, and never
\* to the round of a row that has asked for authentication all the while.
AuthHolds ==
    [][config.auth # NoPassword /\ ~lapsed => config'.auth # NoPassword]_vars

\* What was last saved reaches the gateway's config slot, a changed password
\* included: the diff-skip never takes new settings for the old ones. And a
\* configuration that lacks its password is shown as an error for as long as it does.
ConfigConverges ==
    <>[]Quiet =>
      <>[](AnyListener /\ ~shut => IF HasPassword THEN config = Desired ELSE applyErr)

\* Both protocols switched off closes every listener, although the loop misses
\* every wake-up that comes while it binds.
OffConverges == <>[]Quiet => <>[](~AnyListener => gpc = "done")

\* BuiltinGateway::status
Status == IF stopped THEN "Stopped"
          ELSE IF active THEN "Running"
          ELSE IF lastErr THEN "Failed" ELSE "Stopped"

\* What GET /proxy shows of the gateway. Nothing that is exposed is hidden: a listener
\* that is open and that nobody has stopped is not shown as stopped or failed, whatever
\* failed before it was bound. And a loop that has ended is not shown as running,
\* whichever of its exits it took and whoever raced it with a stop. (That not all that
\* was asked for is running is never shown: status has no way to say Degraded.)
StatusTruthful ==
    /\ SocksOpen /\ ~stopped => Status \notin {"Stopped", "Failed"}
    /\ gpc = "done" => Status # "Running"

\* At all times, whatever a bind, a listener or a stop has come to: types, and
\* a status that tells what the loop is really doing.
Inv == TypeOK /\ StatusTruthful

(***************************************************************************)
(* The inductive invariant.                                                *)
(***************************************************************************)

\* A request in progress was given a password, or told to clear or to keep it.
PutInv == \A c \in Clients :
    put[c] # NoPut => put[c].password \in Passwords \cup {NoPassword, Keep}

\* active is cleared behind stopped only, set by a bind only, and gone with the loop.
ActiveInv ==
    /\ SocksOpen /\ ~stopped => active
    /\ gpc = "done" => ~active

\* A round holds a row without auth only if it read one, and a password once it applies one.
RoundInv ==
    /\ rec = "read" /\ ~recRow.auth => lapsed
    /\ rec = "apply" => recAuth # NoPassword

\* stop raises its flag before it does anything else.
StopInv == rec \in {"stopping", "closed"} => stopped

IInv == TypeOK /\ PutInv /\ ActiveInv /\ RoundInv /\ StopInv

\* Shutdown closes the listeners, even when main's stop finds the loop binding.
ShutdownDrains == shut ~> gpc = "done" /\ rec = "closed"

\* Whoever asks for it, the listeners close: the settings that switch both
\* protocols off, or main's shutdown, wherever the loop is when it misses the call.
ListenersClose == OffConverges /\ ShutdownDrains

(***************************************************************************)
(* What comments and documents say and the code does not do.               *)
(***************************************************************************)

\* gateway/mod.rs: apply triggers a hot rebuild of the listeners.
AppliedTakesEffect == <>[]Quiet => <>[](gpc = "serving" => cfg = config)
=============================================================================
