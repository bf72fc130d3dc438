---------------------------- MODULE AuthSessions ----------------------------
(***************************************************************************)
(* Setup, login, sessions and the guard of the API (auth/, api/setup.rs,   *)
(* api/auth.rs, api/middleware.rs), with any number of requests in flight. *)
(*                                                                         *)
(* A login asks the limiter, verifies the password and only then tells the *)
(* limiter; a guarded request reads its session, and touches it later.     *)
(* Users and sessions are rows and survive a restart, the limiter is       *)
(* memory and does not.  One tick is half a second; time is kept as ages   *)
(* and as what is left, so that it never has to end.                       *)
(***************************************************************************)
EXTENDS Integers, FiniteSets

CONSTANTS Ips,           \* addresses that log in
          Logins,        \* login and setup requests in flight
          Requests,      \* guarded requests in flight
          Ids,           \* session ids, each of them random and used once
          MaxFailures,   \* max_failures
          Window,        \* the limiter's window, in ticks
          Ttl            \* SESSION_TTL, in ticks

ASSUME LimitsAssumption == {MaxFailures, Window, Ttl} \subseteq Nat \ {0}
ASSUME CallersAssumption == Ips # {} /\ Ids # {} /\ IsFiniteSet(Logins)

VARIABLES users,     \* admins made by setup
          limiter,   \* per address {} or {[count, age]}
          session,   \* per id "unused", "gone", or what is left of it
          half,      \* 0 on a whole second, 1 on half a second
          login,     \* login requests: [pc, ip]
          guarded    \* guarded requests: [pc, id, what]

authVars == <<users, limiter, session, half, login, guarded>>

None == {}
Unused == Ttl + 1      \* no such row yet
Gone == Ttl + 2        \* the row is deleted
Floor == -2            \* as long expired as makes a difference
Rows == {i \in Ids : session[i] <= Ttl}
Live(i) == i \in Rows /\ session[i] > 0

NoLogin == [pc |-> "none", ip |-> CHOOSE ip \in Ips : TRUE]
NoGuarded == [pc |-> "none", id |-> CHOOSE i \in Ids : TRUE, what |-> "get"]

AuthInit ==
  /\ users = 0
  /\ limiter = [ip \in Ips |-> None]
  /\ session = [i \in Ids |-> Unused]
  /\ half = 0
  /\ login = [r \in Logins |-> NoLogin]
  /\ guarded = [r \in Requests |-> NoGuarded]

LoginTo(r, from, to) ==
  /\ login[r].pc = from
  /\ login' = [login EXCEPT ![r] = IF to = "none" THEN NoLogin ELSE [@ EXCEPT !.pc = to]]
ReqTo(r, from, to) ==
  /\ guarded[r].pc = from
  /\ guarded' = [guarded EXCEPT ![r] = IF to = "none" THEN NoGuarded ELSE [@ EXCEPT !.pc = to]]

-----------------------------------------------------------------------------
\* POST /setup: the body is valid and hashed, then the table is looked at and
\* written in one immediate transaction; 409 if there is somebody in it.
SetupHash(r) ==
  /\ LoginTo(r, "none", "setup")
  /\ UNCHANGED <<users, limiter, session, half, guarded>>

SetupCommit(r) ==
  /\ LoginTo(r, "setup", "none")
  /\ users' = IF users = 0 THEN 1 ELSE users
  /\ UNCHANGED <<limiter, session, half, guarded>>

-----------------------------------------------------------------------------
\* snapshot drops the windows that are over, everybody's.
Snapshot ==
  [ip \in Ips |-> {f \in limiter[ip] : f.age < Window}]
Blocked(ip) == \E f \in Snapshot[ip] : f.count >= MaxFailures

\* Variant: the limiter is not asked.
LoginCheckNot(r, ip) ==
  /\ login[r].pc = "none"
  /\ limiter' = Snapshot
  /\ login' = [login EXCEPT ![r] = [pc |-> "verify", ip |-> ip]]
  /\ UNCHANGED <<users, session, half, guarded>>

\* POST /auth/login: 403 for an address that is blocked.
LoginCheck(r, ip) ==
  /\ login[r].pc = "none"
  /\ limiter' = Snapshot
  /\ login' = [login EXCEPT ![r] = IF Blocked(ip) THEN NoLogin
                                   ELSE [pc |-> "verify", ip |-> ip]]
  /\ UNCHANGED <<users, session, half, guarded>>

\* find_by_username and Argon2, of a dummy hash where there is no such user.
LoginVerify(r) ==
  /\ \/ LoginTo(r, "verify", "bad")
     \/ users > 0 /\ LoginTo(r, "verify", "good")
  /\ UNCHANGED <<users, limiter, session, half, guarded>>

\* record_failure: the window starts with its first failure.
Failed(entry) ==
  LET known == {f \in entry : f.age < Window} IN
  IF known = None THEN {[count |-> 1, age |-> 0]}
  ELSE {[f EXCEPT !.count = @ + 1] : f \in known}

LoginFailure(r) ==
  /\ LoginTo(r, "bad", "none")
  /\ limiter' = [limiter EXCEPT ![login[r].ip] = Failed(@)]
  /\ UNCHANGED <<users, session, half, guarded>>

\* record_success, delete_expired, create: three calls.
LoginSuccess(r) ==
  /\ LoginTo(r, "good", "clean")
  /\ limiter' = [limiter EXCEPT ![login[r].ip] = None]
  /\ UNCHANGED <<users, session, half, guarded>>

\* Expiry is text: RFC 3339 without trailing zeros.  On a whole second the digits
\* end with "Z" and half a second later with ".5Z", which sorts before it, so that
\* the two halves of a second change places.
AsText(t) == 2 * (t \div 2) + 1 - (t % 2)
TextExpired(i) == AsText(half + session[i]) <= AsText(half)

LoginClean(r) ==
  /\ LoginTo(r, "clean", "create")
  /\ session' = [i \in Ids |-> IF i \in Rows /\ TextExpired(i) THEN Gone ELSE session[i]]
  /\ UNCHANGED <<users, limiter, half, guarded>>

LoginCreate(r, i) ==
  /\ LoginTo(r, "create", "none")
  /\ session[i] = Unused
  /\ session' = [session EXCEPT ![i] = Ttl]
  /\ UNCHANGED <<users, limiter, half, guarded>>

\* The insert fails: 500, without a session.  (With every id of the model used up
\* this is how a login ends.)
LoginCreateFails(r) ==
  /\ LoginTo(r, "create", "none")
  /\ UNCHANGED <<users, limiter, session, half, guarded>>

-----------------------------------------------------------------------------
\* auth_guard: the session of the cookie, which get deletes when it has expired.
GuardGet(r, i, what) ==
  /\ guarded[r].pc = "none"
  /\ session[i] # Unused
  /\ guarded' = [guarded EXCEPT ![r] = IF Live(i) THEN [pc |-> "token", id |-> i, what |-> what]
                               ELSE NoGuarded]
  /\ session' = IF i \in Rows /\ ~Live(i) THEN [session EXCEPT ![i] = Gone] ELSE session
  /\ UNCHANGED <<users, limiter, half, login>>

\* The user of the session, and the token, which GET does without.
GuardToken(r) ==
  /\ \/ ReqTo(r, "token", "touch")
     \/ guarded[r].what # "get" /\ ReqTo(r, "token", "none")
  /\ UNCHANGED <<users, limiter, session, half, login>>

\* Variants: the touch puts the row back, or puts off its end.
GuardTouchUpsert(r) ==
  /\ ReqTo(r, "touch", "handler")
  /\ session' = [session EXCEPT ![guarded[r].id] = IF @ = Gone THEN Ttl ELSE @]
  /\ UNCHANGED <<users, limiter, half, login>>
GuardTouchSlides(r) ==
  /\ ReqTo(r, "touch", "handler")
  /\ session' = [session EXCEPT ![guarded[r].id] = IF @ = Gone THEN @ ELSE Ttl]
  /\ UNCHANGED <<users, limiter, half, login>>

\* touch updates last_seen_at where the row still is, and nothing else.
GuardTouch(r) ==
  /\ ReqTo(r, "touch", "handler")
  /\ UNCHANGED <<users, limiter, session, half, login>>

\* The handler: any other one, or logout.
Handler(r) ==
  /\ guarded[r].what # "logout"
  /\ ReqTo(r, "handler", "none")
  /\ UNCHANGED <<users, limiter, session, half, login>>
\* It answers 204 and clears the cookie also where the delete has failed.
Logout(r) ==
  /\ guarded[r].what = "logout"
  /\ ReqTo(r, "handler", "none")
  /\ session' \in {session, [session EXCEPT ![guarded[r].id] = Gone]}
  /\ UNCHANGED <<users, limiter, half, login>>

-----------------------------------------------------------------------------
Tick ==
  /\ half' = 1 - half
  /\ limiter' = [ip \in Ips |->
       {[f EXCEPT !.age = IF @ < Window THEN @ + 1 ELSE @] : f \in limiter[ip]}]
  /\ session' = [i \in Ids |->
       IF i \in Rows /\ session[i] > Floor THEN session[i] - 1 ELSE session[i]]
  /\ UNCHANGED <<users, login, guarded>>

Restart ==
  /\ limiter' = [ip \in Ips |-> None]
  /\ login' = [r \in Logins |-> NoLogin]
  /\ guarded' = [r \in Requests |-> NoGuarded]
  /\ UNCHANGED <<users, session, half>>

AuthNext ==
  \/ \E r \in Logins :
       \/ SetupHash(r) \/ SetupCommit(r)
       \/ \E ip \in Ips : LoginCheck(r, ip)
       \/ LoginVerify(r) \/ LoginFailure(r)
       \/ LoginSuccess(r) \/ LoginClean(r)
       \/ \E i \in Ids : LoginCreate(r, i)
       \/ LoginCreateFails(r)
  \/ \E r \in Requests :
       \/ \E i \in Ids, what \in {"get", "change", "logout"} : GuardGet(r, i, what)
       \/ GuardToken(r) \/ GuardTouch(r) \/ Handler(r) \/ Logout(r)
  \/ Tick \/ Restart

\* Time passes; nobody has to ask for anything.
AuthSpec == AuthInit /\ [][AuthNext]_authVars /\ WF_authVars(Tick)

-----------------------------------------------------------------------------
\* Types; there is never more than one admin, whoever else is in the middle of a
\* setup: the count and the insert are one transaction.
AuthTypeOK ==
  /\ users \in 0..1
  /\ limiter \in [Ips -> SUBSET [count : Nat \ {0}, age : 0..Window]]
  /\ \A ip \in Ips : \A f, g \in limiter[ip] : f = g
  /\ session \in [Ids -> Floor..Gone]
  /\ half \in {0, 1}
  /\ login \in [Logins -> [pc : {"none", "setup", "verify", "bad", "good", "clean", "create"},
                           ip : Ips]]
  /\ guarded \in [Requests -> [pc : {"none", "token", "touch", "handler"}, id : Ids,
                           what : {"get", "change", "logout"}]]

\* However logins interleave, a window counts at most the failures of the limit
\* and one more for every other login that had passed the check by then.
FailuresBounded ==
  \A ip \in Ips : \A f \in limiter[ip] :
    f.count < MaxFailures + Cardinality(Logins)

\* With any number of set-ups and logins in flight: one admin at most (AuthTypeOK), and
\* no more failures in a window than the limit and the logins that raced it.
AuthInv == AuthTypeOK /\ FailuresBounded

\* A session that is gone, by logout or by expiry, stays gone, also under requests
\* that had read it before.
GoneStaysGone == [][\A i \in Ids : session[i] = Gone => session'[i] = Gone]_authVars

\* Until its second is over, nobody but its owner's logout takes a session away
\* that has not expired: a login of anybody's cleans up only what is over.
LiveSessionsKept ==
  [][\A i \in Ids :
       Live(i) /\ session'[i] = Gone
       => session[i] = 1 \/ \E r \in Requests : guarded[r].id = i /\ guarded[r].what = "logout"]_authVars

\* A session ends once and only for a reason: neither does a late touch bring it
\* back, nor does somebody else's clean-up take it away.
SessionsEndOnce == GoneStaysGone /\ LiveSessionsKept

\* A session ends, however busy it is kept.
SessionsEnd == \A i \in Ids : Live(i) ~> ~Live(i)

\* An address that is locked out is let in again.
LockEnds == \A ip \in Ips : Blocked(ip) ~> ~Blocked(ip)

\* Everything that has a term runs out: a session that is kept busy, and the lock of
\* an address that keeps trying.
TermsEnd == SessionsEnd /\ LockEnds

(***************************************************************************)
(* The inductive invariant.                                                *)
(***************************************************************************)

\* Logins that the limiter has let pass and that may still fail.
Passed(ip) == {r \in Logins : login[r].pc \in {"verify", "bad"} /\ login[r].ip = ip}

\* Each of those takes the place that its failure will fill.
FailuresReserved ==
  \A ip \in Ips : \A f \in limiter[ip] :
    f.count + Cardinality(Passed(ip)) < MaxFailures + Cardinality(Logins)

AuthIInv == AuthTypeOK /\ FailuresReserved
=============================================================================
