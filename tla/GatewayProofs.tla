---------------------------- MODULE GatewayProofs ----------------------------
(***************************************************************************)
(* Gateway: what the status shows and what fail-closed means, for any      *)
(* number of concurrent requests, settings and passwords.                  *)
(***************************************************************************)
EXTENDS Gateway, TLAPS

USE PasswordsAssumption

\* What a setting is made of.
LEMMA FromRowType ==
  ASSUME NEW r \in Rows, NEW p \in Passwords \cup {NoPassword}
  PROVE  /\ FromRow(r) \in Settings
         /\ [socks |-> r.socks, http |-> r.http, auth |-> p] \in Settings
BY DEF Rows, FromRow, Settings

\* api/proxy.rs: requests touch the row, the password and themselves.
LEMMA PutPreserves ==
  ASSUME IInv, Put
  PROVE  IInv'
<1> USE DEF sync, shared, shown, loop
<1>1. ASSUME NEW c \in Clients, NEW r \in UserRows,
             NEW p \in Passwords \cup {NoPassword, Keep}, PutRead(c, r, p)
      PROVE  IInv'
  <2>1. TypeOK'
    BY <1>1, UserRowsAssumption DEF PutRead, IInv, TypeOK, Rows
  <2>2. PutInv'
    BY <1>1 DEF PutRead, IInv, TypeOK, PutInv
  <2>3. ActiveInv' /\ RoundInv' /\ StopInv'
    BY <1>1 DEF PutRead, IInv, ActiveInv, RoundInv, StopInv, SocksOpen
  <2> QED BY <2>1, <2>2, <2>3 DEF IInv
<1>2. ASSUME NEW c \in Clients, PutCommit(c)
      PROVE  IInv'
  <2>1. row' \in Rows /\ secret' \in Passwords \cup {NoPassword}
    BY <1>2 DEF PutCommit, IInv, TypeOK, PutInv
  <2>2. lapsed' \in BOOLEAN
    BY <1>2 DEF PutCommit
  <2>3. TypeOK'
    BY <1>2, <2>1, <2>2 DEF PutCommit, IInv, TypeOK, NoPut, NoRow, Rows
  <2>4. PutInv'
    BY <1>2 DEF PutCommit, IInv, TypeOK, PutInv
  <2>5. RoundInv'
    BY <1>2 DEF PutCommit, IInv, RoundInv, Working
  <2>6. ActiveInv' /\ StopInv'
    BY <1>2 DEF PutCommit, IInv, ActiveInv, StopInv, SocksOpen
  <2> QED BY <2>3, <2>4, <2>5, <2>6 DEF IInv
<1> QED BY <1>1, <1>2 DEF Put

\* gateway/mod.rs, apply_config: the slot holds settings, and nothing is shown yet.
LEMMA ApplyConfigPreserves ==
  ASSUME NEW s \in Settings, IInv, rec \in {"read", "apply"}, ApplyConfig(s),
         UNCHANGED <<db, shown, loop, woken, shut>>
  PROVE  IInv'
<1> USE DEF ApplyConfig, SyncReturns, Forget, db, shared, shown, loop
<1>0. NoRow \in Rows
  BY DEF NoRow, Rows
<1>1. TypeOK'
  <2>1. CASE applied = s
    BY <1>0, <2>1 DEF IInv, TypeOK
  <2>2. CASE applied # s
    BY <1>0, <2>2 DEF IInv, TypeOK
  <2> QED BY <2>1, <2>2
<1>2. PutInv' /\ ActiveInv' /\ RoundInv' /\ StopInv'
  BY DEF IInv, PutInv, ActiveInv, RoundInv, StopInv, SocksOpen
<1> QED BY <1>1, <1>2 DEF IInv

\* reconciler/mod.rs, sync_proxy: both of its reads, fail-closed, and what follows.
LEMMA SyncPreserves ==
  ASSUME IInv, Sync
  PROVE  IInv'
<1> USE DEF db, sync, shared, shown, loop
<1>0. /\ row \in Rows /\ recRow \in Rows /\ secret \in Passwords \cup {NoPassword}
      /\ recAuth \in Passwords \cup {NoPassword}
      /\ NoRow \in Rows
  BY DEF IInv, TypeOK, NoRow, Rows
<1>1. CASE SyncRead
  <2>1. TypeOK'
    BY <1>0, <1>1 DEF SyncRead, IInv, TypeOK
  <2>2. PutInv' /\ ActiveInv' /\ RoundInv' /\ StopInv'
    BY <1>1 DEF SyncRead, IInv, PutInv, ActiveInv, RoundInv, StopInv, SocksOpen
  <2> QED BY <2>1, <2>2 DEF IInv
<1>2. CASE SyncDecide
  <2>1. CASE ~recRow.socks /\ ~recRow.http
    <3>1. TypeOK'
      BY <1>0, <1>2, <2>1 DEF SyncDecide, Forget, IInv, TypeOK
    <3>2. PutInv' /\ ActiveInv' /\ RoundInv' /\ StopInv'
      BY <1>2, <2>1 DEF SyncDecide, Forget, IInv, PutInv, ActiveInv, RoundInv, StopInv, SocksOpen
    <3> QED BY <3>1, <3>2 DEF IInv
  <2>2. CASE (recRow.socks \/ recRow.http) /\ recRow.auth
    <3>1. rec' = "secret" /\ UNCHANGED <<db, recRow, recAuth, lapsed, applyErr, shared, shown,
                                         loop, woken, shut>>
      BY <1>2, <2>2 DEF SyncDecide
    <3>2. TypeOK'
      BY <3>1 DEF IInv, TypeOK
    <3>3. PutInv' /\ ActiveInv' /\ RoundInv' /\ StopInv'
      BY <3>1 DEF IInv, PutInv, ActiveInv, RoundInv, StopInv, SocksOpen
    <3> QED BY <3>2, <3>3 DEF IInv
  <2>3. CASE (recRow.socks \/ recRow.http) /\ ~recRow.auth
    <3>1. PICK s \in Settings : s = FromRow(recRow)
      BY <1>0, FromRowType
    <3> QED BY <1>2, <2>3, <3>1, ApplyConfigPreserves DEF SyncDecide
  <2> QED BY <2>1, <2>2, <2>3
<1>3. CASE SyncSecret
  <2>1. TypeOK'
    BY <1>0, <1>3 DEF SyncSecret, IInv, TypeOK
  <2>2. PutInv' /\ ActiveInv' /\ RoundInv' /\ StopInv'
    BY <1>3 DEF SyncSecret, IInv, PutInv, ActiveInv, RoundInv, StopInv, SocksOpen
  <2> QED BY <2>1, <2>2 DEF IInv
<1>4. CASE SyncApply
  <2>1. PICK s \in Settings :
           s = [socks |-> recRow.socks, http |-> recRow.http, auth |-> recAuth]
    BY <1>0, FromRowType
  <2> QED BY <1>4, <2>1, ApplyConfigPreserves DEF SyncApply
<1>5. CASE SyncSecretFails \/ SyncNotify \/ SyncStop
  <2>1. TypeOK'
    BY <1>0, <1>5 DEF SyncSecretFails, SyncNotify, SyncStop, SyncReturns, Forget, NotifyWaiters,
       IInv, TypeOK
  <2>2. PutInv' /\ ActiveInv' /\ RoundInv' /\ StopInv'
    BY <1>5 DEF SyncSecretFails, SyncNotify, SyncStop, SyncReturns, Forget, IInv, PutInv,
       ActiveInv, RoundInv, StopInv, SocksOpen
  <2> QED BY <2>1, <2>2 DEF IInv
<1> QED BY <1>1, <1>2, <1>3, <1>4, <1>5 DEF Sync

\* What the steps of the loop and the signal can disturb of the types.
LEMMA LoopStepTypes ==
  ASSUME TypeOK, UNCHANGED <<db, sync, shared>>, shut' \in BOOLEAN,
         active' \in BOOLEAN, lastErr' \in BOOLEAN, httpUp' \in BOOLEAN, woken' \in BOOLEAN,
         gpc' \in {"head", "bind", "bindHttp", "serving", "retry", "done"},
         cfg' \in Settings \cup {NoSettings}
  PROVE  TypeOK'
<1>1. /\ UNCHANGED <<row, secret, put, rec, recRow, recAuth, applyErr>>
      /\ UNCHANGED <<applied, config, stopped>>
      /\ lapsed' = lapsed
  BY DEF db, sync, shared
<1>2. lapsed' \in BOOLEAN /\ applyErr' \in BOOLEAN /\ stopped' \in BOOLEAN
  BY <1>1, Zenon DEF TypeOK
<1> QED BY <1>1, <1>2 DEF TypeOK

\* gateway/mod.rs, run_with_ready: every bind, rebuild, back-off and exit, the one that
\* a shutdown asks for included.
LEMMA LoopPreserves ==
  ASSUME IInv, Loop \/ ListenerExits \/ LoopSeesShutdown
  PROVE  IInv'
<1>0. /\ UNCHANGED <<db, sync, shared, shut>>
      /\ PutInv' /\ RoundInv' /\ StopInv'
  <2>1. UNCHANGED <<db, sync, shared, shut>>
    BY DEF Loop, Head, BindSocks, BindHttp, Rebuild, Retry, ListenerExits, LoopSeesShutdown
  <2> QED BY <2>1 DEF IInv, PutInv, RoundInv, StopInv, db, sync, shared
<1>1. CASE Head
  <2>1. TypeOK'
    BY <1>0, <1>1, LoopStepTypes DEF Head, LoopEnds, IInv, TypeOK, shown
  <2>2. ActiveInv'
    BY <1>0, <1>1 DEF Head, LoopEnds, IInv, ActiveInv, SocksOpen, shown, shared
  <2> QED BY <1>0, <2>1, <2>2 DEF IInv
<1>2. CASE BindSocks
  <2>1. TypeOK'
    BY <1>0, <1>2, LoopStepTypes DEF BindSocks, IInv, TypeOK
  <2>2. ActiveInv'
    BY <1>0, <1>2 DEF BindSocks, IInv, ActiveInv, SocksOpen
  <2> QED BY <1>0, <2>1, <2>2 DEF IInv
<1>3. CASE BindHttp
  <2>1. TypeOK'
    BY <1>0, <1>3, LoopStepTypes DEF BindHttp, IInv, TypeOK, shown
  <2>2. ActiveInv'
    BY <1>0, <1>3 DEF BindHttp, IInv, ActiveInv, SocksOpen, shown, shared
  <2> QED BY <1>0, <2>1, <2>2 DEF IInv
<1>4. CASE Rebuild \/ Retry \/ ListenerExits
  <2>1. TypeOK'
    BY <1>0, <1>4, LoopStepTypes DEF Rebuild, Retry, ListenerExits, IInv, TypeOK, shown
  <2>2. ActiveInv'
    BY <1>0, <1>4 DEF Rebuild, Retry, ListenerExits, IInv, ActiveInv, SocksOpen, shown
  <2> QED BY <1>0, <2>1, <2>2 DEF IInv
<1>5. CASE LoopSeesShutdown
  <2>1. TypeOK'
    BY <1>0, <1>5, LoopStepTypes DEF LoopSeesShutdown, LoopEnds, IInv, TypeOK
  <2>2. ActiveInv'
    BY <1>0, <1>5 DEF LoopSeesShutdown, LoopEnds, IInv, ActiveInv, SocksOpen
  <2> QED BY <1>0, <2>1, <2>2 DEF IInv
<1> QED BY <1>1, <1>2, <1>3, <1>4, <1>5 DEF Loop

\* main.rs: the shutdown finds the loop and the reconciler wherever they are.
LEMMA ShutdownPreserves ==
  ASSUME IInv, ReconcilerExits \/ MainStops \/ ShutdownSignal
  PROVE  IInv'
<1>1. CASE ShutdownSignal
  <2>1. TypeOK'
    BY <1>1, LoopStepTypes DEF ShutdownSignal, IInv, TypeOK, shown, loop
  <2>2. PutInv' /\ ActiveInv' /\ RoundInv' /\ StopInv'
    BY <1>1 DEF ShutdownSignal, IInv, PutInv, ActiveInv, RoundInv, StopInv, SocksOpen,
                db, sync, shared, shown, loop
  <2> QED BY <2>1, <2>2 DEF IInv
<1> USE DEF db, sync, shared, shown, loop
<1>2. CASE ReconcilerExits
  <2>1. NoRow \in Rows
    BY DEF NoRow, Rows
  <2>2. TypeOK'
    BY <1>2, <2>1 DEF ReconcilerExits, Forget, IInv, TypeOK
  <2>3. PutInv' /\ ActiveInv' /\ RoundInv' /\ StopInv'
    BY <1>2 DEF ReconcilerExits, Forget, IInv, PutInv, ActiveInv, RoundInv, StopInv, SocksOpen
  <2> QED BY <2>2, <2>3 DEF IInv
<1>3. CASE MainStops
  <2>1. woken' \in BOOLEAN
    BY <1>3 DEF MainStops, IInv, TypeOK, NotifyWaiters
  <2>2. TypeOK'
    BY <1>3, <2>1 DEF MainStops, IInv, TypeOK
  <2>3. PutInv' /\ ActiveInv' /\ RoundInv' /\ StopInv'
    BY <1>3 DEF MainStops, IInv, PutInv, ActiveInv, RoundInv, StopInv, SocksOpen
  <2> QED BY <2>2, <2>3 DEF IInv
<1> QED BY <1>1, <1>2, <1>3

\* Every step keeps the inductive invariant.
LEMMA NextPreserves ==
  ASSUME IInv, [Next]_vars
  PROVE  IInv'
<1>1. CASE UNCHANGED vars
  BY <1>1 DEF vars, db, sync, shared, shown, loop, IInv, TypeOK, PutInv, ActiveInv, StopInv,
              RoundInv, SocksOpen
<1> QED BY <1>1, PutPreserves, SyncPreserves, LoopPreserves, ShutdownPreserves
   DEF Next, Shutdown

\* main.rs: the row is applied before loop and reconciler are there.
LEMMA InitEstablishes == Init => IInv
<1> SUFFICES ASSUME Init PROVE IInv
  OBVIOUS
<1>1. row \in Rows /\ FromRow(row) \in Settings
  BY UserRowsAssumption, FromRowType DEF Init, Rows
<1>2. TypeOK
  BY <1>1 DEF Init, TypeOK, NoPut, NoRow, Rows
<1>3. PutInv /\ ActiveInv /\ RoundInv /\ StopInv
  BY DEF Init, PutInv, ActiveInv, RoundInv, StopInv, SocksOpen
<1> QED BY <1>2, <1>3 DEF IInv

\* The invariant holds in every reachable state of settings, reconciler and loop.
THEOREM GatewayInvariance == Spec => []IInv
BY InitEstablishes, NextPreserves, PTL DEF Spec

\* gateway/mod.rs, status: Running where a listener is open that nobody stopped, and
\* never of a loop that has ended, whoever raced it with a stop.
THEOREM StatusIsTruthful == Spec => []Inv
<1>1. IInv => Inv
  BY DEF IInv, Inv, TypeOK, ActiveInv, StatusTruthful, Status
<1> QED BY <1>1, GatewayInvariance, PTL

\* reconciler/mod.rs, sync_proxy: no step takes a password that is in force out of the
\* gateway, except that of a round whose row was without auth when it was read or has been
\* since. A round with a row that asks for auth has read a password before it applies.
THEOREM AuthStaysInForce == Spec => AuthHolds
<1>1. ASSUME IInv, Next, config.auth # NoPassword, ~lapsed
      PROVE  config'.auth # NoPassword
  <2>1. CASE UNCHANGED config
    BY <1>1, <2>1
  <2>2. CASE SyncApply
    BY <1>1, <2>2 DEF SyncApply, ApplyConfig, SyncReturns, shared, IInv, RoundInv
  <2>3. CASE SyncDecide
    <3>1. recRow.auth
      BY <1>1, <2>3 DEF SyncDecide, IInv, RoundInv
    <3> QED BY <1>1, <2>3, <3>1 DEF SyncDecide, shared
  <2> QED BY <1>1, <2>1, <2>2, <2>3 DEF Next, Put, PutRead, PutCommit, Sync, SyncRead,
      SyncSecret, SyncSecretFails, SyncNotify, SyncStop, Loop, Head, BindSocks, BindHttp,
      Rebuild, Retry, Shutdown, LoopSeesShutdown, ReconcilerExits, MainStops, ListenerExits,
      ShutdownSignal, shared
<1>2. IInv /\ [Next]_vars =>
        [config.auth # NoPassword /\ ~lapsed => config'.auth # NoPassword]_vars
  BY <1>1
<1> QED BY <1>2, GatewayInvariance, PTL DEF Spec, AuthHolds
=============================================================================
