--------------------------- MODULE GatewaySessions ---------------------------
(***************************************************************************)
(* The sessions of the built-in gateway (gateway/socks5.rs, http.rs,       *)
(* limits.rs, pool.rs): one task per accepted connection, each with its    *)
(* own copy of the listener's configuration and of the upstream pool.      *)
(* A session passes the allowlist, the authentication, the limits, reads   *)
(* its target, picks a Healthy instance, dials it and relays.              *)
(*                                                                         *)
(* The limits (a semaphore and a token bucket) belong to one generation of *)
(* the configuration: a session keeps those it was accepted under when the *)
(* gateway is rebuilt.  Time is counted in ticks, Second of them a second, *)
(* and tokens in 1/Second of a token, so that the bucket's fractions are   *)
(* exact.  A session reads the clock before it has the bucket's lock, and  *)
(* may take the lock when a later reading has been through already.        *)
(***************************************************************************)
EXTENDS Integers, FiniteSets, Sequences, FiniteSetsExt

CONSTANTS Conns,        \* connections open at a time; another client may
                        \* take one that is closed
          Clients,      \* what a client may be: [proto, ip, pass, methods],
                        \* ip being [fam, n]
          Configs,      \* [allow, auth, maxConn, maxRps], the last three
                        \* of them options: {} or a singleton; allow is a
                        \* set of entries [fam, net, prefix], prefix an option
          Width,        \* bits of an address of each family (32 and 128)
          Instances,    \* ids of instances
          MaxGen,       \* bound: configurations applied
          MaxNow,       \* bound: the clock
          MaxChunks,    \* reads of a request head before it is too long
          Second        \* ticks of a second

ASSUME SecondAssumption == Second \in Nat \ {0}
ASSUME BoundsAssumption == MaxGen \in Nat \ {0} /\ {MaxNow, MaxChunks} \subseteq Nat
ASSUME InstancesAssumption == Instances \subseteq Nat /\ IsFiniteSet(Instances)
ASSUME ConnsAssumption == IsFiniteSet(Conns)
\* UpdateProxyRequest::validate refuses a limit of 0.
ASSUME ConfigsAssumption ==
  \A c \in Configs :
    /\ c = [allow |-> c.allow, auth |-> c.auth, maxConn |-> c.maxConn, maxRps |-> c.maxRps]
    /\ c.maxConn \cup c.maxRps \subseteq Nat \ {0}
    /\ \A x, y \in c.maxConn : x = y
    /\ \A x, y \in c.maxRps : x = y
    /\ \A e \in c.allow : e.fam \in DOMAIN Width =>
         /\ e.net \in 0..(2^Width[e.fam]) /\ e.prefix \subseteq Nat
         /\ \A x, y \in e.prefix : x = y
ASSUME ClientsAssumption ==
  \A w \in Clients : w.ip = [fam |-> w.ip.fam, n |-> w.ip.n] /\ w.ip.n \in Nat
\* What the proofs use of powers of two, which the provers know nothing of.
ASSUME WidthAssumption ==
  \A f \in DOMAIN Width :
    /\ Width[f] \in Nat /\ 2^(Width[f] - Width[f]) = 1
    /\ \A p \in 0..Width[f] : 2^(Width[f] - p) \in Nat \ {0}
    /\ 2^Width[f] \in Nat

VARIABLES gens,      \* configurations applied so far; the last one is served
          permits,   \* free permits of each generation's semaphore
          bucket,    \* [tokens, last] of each generation's token bucket,
                     \* and history: by how much last went back so far
          now,       \* the clock
          conn,      \* the session of each connection
          rr,        \* round-robin counter of the gateway's own pool
          healthy,   \* instances that the registry has as Healthy
          spent      \* history: per generation, the mark left by each taking

limits == <<permits, bucket, spent>>
vars == <<gens, permits, bucket, now, conn, rr, healthy, spent>>

None == {}
Gen == 1..MaxGen
Cur == Len(gens)

\* The session of a connection: where it is, who called, the generation whose
\* configuration it cloned, its clone of the pool's counter, whether it holds a
\* permit, the reads of the head so far, its reading of the clock while it is
\* in acquire, and the upstream.
Closed == [pc |-> "closed", who |-> None, gen |-> 0, rr |-> 0, holds |-> FALSE,
           chunks |-> 0, at |-> 0, up |-> None]

Cfg(s) == gens[conn[s].gen]
Who(s) == CHOOSE w \in conn[s].who : TRUE
Step(s, from, to) == conn[s].pc = from /\ conn' = [conn EXCEPT ![s].pc = to]

\* SessionLimits::new: permits and tokens of a fresh generation.
Permits(c) == IF c.maxConn = None THEN 0 ELSE Max({1} \cup c.maxConn)
Rate(c) == Max({1} \cup c.maxRps)
NewBucket(c, t) == [tokens |-> Rate(c) * Second, last |-> t, back |-> 0]

\* The settings on their way through the proxy_config row: no limit is a 0, and
\* the allowlist is one text with commas, from which blank entries do not return.
ToRow(c) == [c EXCEPT !.maxConn = Max({0} \cup @), !.maxRps = Max({0} \cup @)]
FromRow(r) == [r EXCEPT !.allow = {e \in @ : e.fam # "blank"},
                        !.maxConn = {@} \ {0}, !.maxRps = {@} \ {0}]
Saved == {FromRow(ToRow(c)) : c \in Configs}

Init ==
  \E c \in Saved :
    /\ gens = <<c>>
    /\ permits = <<Permits(c)>>
    /\ now = 0
    /\ bucket = <<NewBucket(c, 0)>>
    /\ conn = [s \in Conns |-> Closed]
    /\ rr = 0
    /\ healthy \in SUBSET Instances
    /\ spent = << <<>> >>

-----------------------------------------------------------------------------
\* parse_cidr as a test: a bare address, or a network whose prefix fits its
\* family and whose host bits are zero.  (A text that names no address at all has
\* a family of neither kind.)  With prefix 0 the host bits of an IPv6 address are
\* cut off by two shifts of a u128 by 128, which do nothing in a release build:
\* any address passes.
ParseCidr(e) ==
  /\ e.fam \in DOMAIN Width
  /\ \A p \in e.prefix : /\ p <= Width[e.fam]
                         /\ \/ e.net % 2^(Width[e.fam] - p) = 0
                            \/ e.fam = "v6" /\ p = 0

\* IpNetwork::contains: the same family and, under the mask, the same bits.  The
\* mask of a bare address is full and that of prefix 0 is empty.
NetContains(e, ip) ==
  /\ e.fam = ip.fam
  /\ LET host == 2^(Width[e.fam] - Min({Width[e.fam]} \cup e.prefix))
     IN  ip.n \div host = e.net \div host

\* client_allowed: an empty list admits everybody, an entry that does not parse
\* admits nobody; and verify_credentials.
ClientAllowed(c, w) ==
  c.allow = {} \/ \E e \in c.allow : ParseCidr(e) /\ NetContains(e, w.ip)
VerifyCredentials(c, w) == c.auth = None \/ w.pass \in c.auth

\* Every return of handle_conn drops the SessionPermit, if there is one.
Close(s) ==
  /\ conn' = [conn EXCEPT ![s] = Closed]
  /\ permits' = IF conn[s].holds
                THEN [permits EXCEPT ![conn[s].gen] = @ + 1]
                ELSE permits
  /\ UNCHANGED <<bucket, spent>>

\* The accept loop of a listener clones the pool and the configuration and
\* spawns handle_conn, which looks at the allowlist before it reads anything.
Accept(s, w) ==
  /\ conn[s].pc = "closed"
  /\ conn' = [conn EXCEPT ![s] =
       IF ClientAllowed(gens[Cur], w)
       THEN [Closed EXCEPT !.pc = IF w.proto = "socks5" THEN "method" ELSE "head",
                           !.who = {w}, !.gen = Cur, !.rr = rr]
       ELSE Closed]
  /\ UNCHANGED <<limits, gens, now, rr, healthy>>

\* Variant: the first method that the client offers is taken.
SocksMethodOfClient(s) ==
  /\ conn[s].pc = "method"
  /\ Step(s, "method", IF 0 \in Who(s).methods THEN "limits" ELSE "auth")
  /\ UNCHANGED <<limits, gens, now, rr, healthy>>

\* SOCKS5 method negotiation: 0x02 if and only if a password is configured.
SocksMethod(s) ==
  /\ conn[s].pc = "method"
  /\ \/ /\ Cfg(s).auth # None
        /\ 2 \in Who(s).methods
        /\ Step(s, "method", "auth")
        /\ UNCHANGED limits
     \/ /\ Cfg(s).auth = None
        /\ 0 \in Who(s).methods
        /\ Step(s, "method", "limits")
        /\ UNCHANGED limits
     \/ /\ (IF Cfg(s).auth # None THEN 2 ELSE 0) \notin Who(s).methods
        /\ Close(s)
  /\ UNCHANGED <<gens, now, rr, healthy>>

\* RFC 1929 sub-negotiation.
SocksAuth(s) ==
  /\ conn[s].pc = "auth"
  /\ IF VerifyCredentials(Cfg(s), Who(s))
     THEN Step(s, "auth", "limits") /\ UNCHANGED limits
     ELSE Close(s)
  /\ UNCHANGED <<gens, now, rr, healthy>>

\* One read of an HTTP request head that does not complete it.  The head may
\* not grow past its limit; each read has its own time-out (HeadTimeout).
HttpReadMore(s) ==
  /\ conn[s].pc = "head"
  /\ IF conn[s].chunks < MaxChunks
     THEN conn' = [conn EXCEPT ![s].chunks = @ + 1] /\ UNCHANGED limits
     ELSE Close(s)
  /\ UNCHANGED <<gens, now, rr, healthy>>

\* The read that completes the head, or the end of the stream: whatever was
\* read is then checked for Proxy-Authorization (407 otherwise).
HttpHeadDone(s) ==
  /\ conn[s].pc = "head"
  /\ IF VerifyCredentials(Cfg(s), Who(s))
     THEN Step(s, "head", "limits") /\ UNCHANGED limits
     ELSE Close(s)
  /\ UNCHANGED <<gens, now, rr, healthy>>

\* A read of the head has waited 30 seconds.
HeadTimeout(s) ==
  /\ conn[s].pc = "head"
  /\ Close(s)
  /\ UNCHANGED <<gens, now, rr, healthy>>

-----------------------------------------------------------------------------
\* Variant: the mark of the last refill is not moved.
RefillKeepsMark(b, rate, at) ==
  [tokens |-> Min({rate * Second, b.tokens + Max({0, at - b.last}) * rate}),
   last |-> b.last, back |-> b.back]

\* TokenBucket::try_take with a clock that was read at some time: refill for the
\* time since the mark, if there is any, up to one second of the rate.  The mark
\* becomes that reading, also where it is older: then it goes back.
Refill(b, rate, at) ==
  [tokens |-> Min({rate * Second, b.tokens + Max({0, at - b.last}) * rate}),
   last |-> at, back |-> b.back + Max({0, b.last - at})]

\* SessionLimits::acquire with a rate: Instant::now() is evaluated before the locks
\* of try_take are taken.
ReadClock(s) ==
  /\ conn[s].pc = "limits"
  /\ Cfg(s).maxRps # None
  /\ conn' = [conn EXCEPT ![s].pc = "take", ![s].at = now]
  /\ UNCHANGED <<limits, gens, now, rr, healthy>>

\* The rest of acquire: first the bucket, then the semaphore.  The token is
\* gone even when there is no permit.
Acquire(s) ==
  LET g == conn[s].gen
      c == Cfg(s)
      b == Refill(bucket[g], Rate(c), conn[s].at)
      limited == c.maxRps # None
      taken == limited /\ b.tokens >= Second
  IN
  /\ conn[s].pc \in {"limits", "take"}
  /\ limited = (conn[s].pc = "take")
  /\ bucket' = IF ~limited THEN bucket
               ELSE [bucket EXCEPT ![g] =
                       IF taken THEN [b EXCEPT !.tokens = @ - Second] ELSE b]
  /\ spent' = IF taken
              THEN [spent EXCEPT ![g] = Append(@, [last |-> b.last, back |-> b.back])]
              ELSE spent
  /\ IF (limited /\ ~taken) \/ (c.maxConn # None /\ permits[g] = 0)
     THEN /\ conn' = [conn EXCEPT ![s] = Closed]
          /\ UNCHANGED permits
     ELSE /\ conn' = [conn EXCEPT ![s].pc = "request", ![s].at = 0,
                                  ![s].holds = c.maxConn # None]
          /\ permits' = IF c.maxConn = None THEN permits
                        ELSE [permits EXCEPT ![g] = @ - 1]
  /\ UNCHANGED <<gens, now, rr, healthy>>

\* The target: read from a SOCKS5 client, parsed out of an HTTP request line.
\* Anything but a CONNECT or an absolute URI is answered with an error.
ReadTarget(s) ==
  /\ Step(s, "request", "pick")
  /\ UNCHANGED <<limits, gens, now, rr, healthy>>

\* Variant: the error reply forgets the permit.
BadTargetLeaks(s) ==
  /\ conn[s].pc = "request"
  /\ conn' = [conn EXCEPT ![s] = Closed]
  /\ UNCHANGED <<limits, gens, now, rr, healthy>>

BadTarget(s) ==
  /\ conn[s].pc = "request"
  /\ Close(s)
  /\ UNCHANGED <<gens, now, rr, healthy>>

\* A SOCKS5 client is gone while the session reads from it.  (An HTTP session
\* takes the end of the stream for the end of the head.)
ClientGone(s) ==
  /\ conn[s].pc \in {"method", "auth", "request"}
  /\ Who(s).proto = "socks5"
  /\ Close(s)
  /\ UNCHANGED <<gens, now, rr, healthy>>

\* RoundRobinPool::pick, on the session's own clone of the pool: the ids are sorted,
\* so the one at an index is the one with as many smaller ids.
PickAmong(among, n) ==
  CHOOSE id \in among : Cardinality({x \in among : x < id}) = n % Cardinality(among)

Pick(s) ==
  /\ conn[s].pc = "pick"
  /\ IF healthy = {}
     THEN Close(s)
     ELSE LET id == PickAmong(healthy, conn[s].rr) IN
          /\ conn' = [conn EXCEPT ![s].pc = "dial", ![s].rr = @ + 1,
                                  ![s].up = {id}]
          /\ UNCHANGED limits
  /\ UNCHANGED <<gens, now, rr, healthy>>

\* The tunnel is up: the client is told and bytes are copied both ways.
DialOk(s) ==
  /\ Step(s, "dial", "relay")
  /\ UNCHANGED <<limits, gens, now, rr, healthy>>

\* Refused, closed, or answered with an error: 0x01 or 502.
DialFails(s) ==
  /\ conn[s].pc = "dial"
  /\ Close(s)
  /\ UNCHANGED <<gens, now, rr, healthy>>

\* Variant: the time-out is on the other protocol.
DialTimeoutHttp(s) ==
  /\ conn[s].pc = "dial"
  /\ Who(s).proto = "http"
  /\ Close(s)
  /\ UNCHANGED <<gens, now, rr, healthy>>

\* Ten seconds, for a SOCKS5 session only: the dial of an HTTP session waits for
\* as long as the upstream is silent.
DialTimeout(s) ==
  /\ conn[s].pc = "dial"
  /\ Who(s).proto = "socks5"
  /\ Close(s)
  /\ UNCHANGED <<gens, now, rr, healthy>>

\* copy_bidirectional returns when both directions are closed, or on an error.
RelayEnds(s) ==
  /\ conn[s].pc = "relay"
  /\ Close(s)
  /\ UNCHANGED <<gens, now, rr, healthy>>

-----------------------------------------------------------------------------
\* apply_config with other settings, and the rebuild it triggers: new limits.
\* Sessions are tasks of their own and survive it.  (A rebuild after a panic
\* serves the same snapshot, hence the same limits: nothing changes here.)
Apply(c) ==
  /\ Cur < MaxGen
  /\ c # gens[Cur]
  /\ gens' = Append(gens, c)
  /\ permits' = Append(permits, Permits(c))
  /\ bucket' = Append(bucket, NewBucket(c, now))
  /\ spent' = Append(spent, <<>>)
  /\ UNCHANGED <<conn, now, rr, healthy>>

\* The manager's registry, which the pool reads at every pick.
SetHealthy(i) ==
  /\ i \notin healthy
  /\ healthy' = healthy \cup {i}
  /\ UNCHANGED <<gens, limits, now, conn, rr>>
Degrade(i) ==
  /\ i \in healthy
  /\ healthy' = healthy \ {i}
  /\ UNCHANGED <<gens, limits, now, conn, rr>>

Tick ==
  /\ now < MaxNow
  /\ now' = now + 1
  /\ UNCHANGED <<gens, limits, conn, rr, healthy>>

Session(s) ==
  \/ \E w \in Clients : Accept(s, w)
  \/ SocksMethod(s) \/ SocksAuth(s)
  \/ HttpReadMore(s) \/ HttpHeadDone(s) \/ HeadTimeout(s)
  \/ ReadClock(s) \/ Acquire(s)
  \/ ReadTarget(s) \/ BadTarget(s) \/ ClientGone(s)
  \/ Pick(s) \/ DialOk(s) \/ DialFails(s) \/ DialTimeout(s) \/ RelayEnds(s)

Environment ==
  \/ \E c \in Saved : Apply(c)
  \/ \E i \in Instances : SetHealthy(i) \/ Degrade(i)
  \/ Tick

Next == Environment \/ \E s \in Conns : Session(s)

\* What runs without anybody's help: the tasks' own steps and their time-outs.
\* Neither the client nor the upstream is assumed to answer.
Fairness ==
  \A s \in Conns : WF_vars(\/ ReadClock(s) \/ Acquire(s) \/ Pick(s)
                           \/ HeadTimeout(s) \/ DialTimeout(s))

Spec == Init /\ [][Next]_vars /\ Fairness

-----------------------------------------------------------------------------
Options(S) == {None} \cup {{x} : x \in S}

TypeOK ==
  /\ gens \in Seq(Saved) /\ Cur \in Gen
  /\ permits \in Seq(Nat) /\ Len(permits) = Cur
  /\ \A g \in 1..Cur : bucket[g].tokens \in 0..(Rate(gens[g]) * Second)
                       /\ bucket[g].last \in 0..now
  /\ now \in 0..MaxNow
  /\ \A s \in Conns :
       /\ conn[s].pc \in {"method", "auth", "head", "limits", "take", "request",
                          "pick", "dial", "relay", "closed"}
       /\ conn[s].at \in 0..now
       /\ conn[s].who \in Options(Clients)
       /\ conn[s].gen \in 0..Cur
       /\ conn[s].holds \in BOOLEAN
       /\ conn[s].chunks \in 0..MaxChunks
       /\ conn[s].up \in Options(Instances)
  /\ rr \in Nat
  /\ healthy \subseteq Instances

Holders(g) == {s \in Conns : conn[s].gen = g /\ conn[s].holds}

\* No permit is lost and none is made up: in every generation, the free permits
\* and the sessions that hold one add up to the configured limit, whichever way
\* a session ends and whatever is applied meanwhile.
PermitsConserved ==
  \A g \in 1..Cur : permits[g] + Cardinality(Holders(g)) = Permits(gens[g])

\* The addresses that an operator means by an entry: the block of the network's
\* size that its address lies in.  Only an entry that starts its block is one; but
\* an IPv6 entry of prefix 0 is all of IPv6, whatever its address.
Block(e) ==
  {[fam |-> e.fam, n |-> k] :
     k \in UNION {LET size == 2^(Width[e.fam] - p)
                      first == e.net - (e.net % size)
                  IN  first .. (first + size - 1) :
                    p \in IF e.prefix = None THEN {Width[e.fam]} ELSE e.prefix}}
Blocks(c) ==
  {e \in c.allow : \A p \in e.prefix : \E k \in 0..(2^Width[e.fam]) :
                     /\ p <= Width[e.fam]
                     /\ \/ e.net = k * 2^(Width[e.fam] - p)
                        \/ e.fam = "v6" /\ p = 0}

\* A client outside the blocks of the configuration it was accepted under, or
\* without its password, takes neither a permit nor a token, and does not move the
\* bucket's mark: the limits stand behind allowlist and password, and an entry with
\* host bits opens nothing, unless it is an IPv6 one of prefix 0.
StrangersCostNothing ==
  [][\A s \in Conns :
        conn[s].pc = "limits" /\ conn'[s].pc # "limits" =>
          /\ \/ Cfg(s).allow = {}
             \/ \E e \in Blocks(Cfg(s)) : Who(s).ip \in Block(e)
          /\ VerifyCredentials(Cfg(s), Who(s))]_vars

\* From one taking to another, a generation lets through no more than one bucket plus
\* what the rate refills between their two readings of the clock, and plus what it
\* refills once more because late sessions turned the mark back in the meantime.
\* Where nobody was overtaken on the way to the lock this is the usual bound.
RateBounded ==
  \A g \in 1..Cur : \A i, j \in DOMAIN spent[g] :
    LET time == spent[g][j].last - spent[g][i].last
        twice == spent[g][j].back - spent[g][i].back
    IN  i <= j => (j - i + 1) * Second <= Rate(gens[g]) * (Second + time + twice)

\* In every state of every session: a bucket that is never above its size
\* (TypeOK), and permits that add up.
Inv == TypeOK /\ PermitsConserved

(***************************************************************************)
(* The inductive invariant.                                                *)
(***************************************************************************)

Bucket == [tokens : Nat, last : Nat, back : Nat]
Mark == [last : Nat, back : Nat]
SessionOf == [pc : {"method", "auth", "head", "limits", "take", "request", "pick", "dial",
                    "relay", "closed"},
              who : Options(Clients), gen : Nat, rr : Nat, holds : BOOLEAN,
              chunks : 0..MaxChunks, at : Nat, up : Options(Instances)]

\* The time a bucket has been refilled for, when its mark, or the mark that a taking
\* left, is where it is: what was refilled twice counts twice.
Credit(m) == m.last + m.back

\* Every generation has its semaphore, its bucket and its history.
GensInv ==
  /\ bucket \in Seq(Bucket) /\ Len(bucket) = Cur
  /\ spent \in Seq(Seq(Mark)) /\ Len(spent) = Cur

\* A session belongs to a generation from its accept to its close, and holds a permit
\* only behind acquire, of a generation that has a semaphore.
SessionInv ==
  /\ conn \in [Conns -> SessionOf]
  /\ \A s \in Conns : conn[s].pc # "closed" =>
                        conn[s].gen \in 1..Cur /\ conn[s].who # None
  /\ \A s \in Conns : conn[s].holds =>
                        /\ conn[s].pc \in {"request", "pick", "dial", "relay"}
                        /\ Cfg(s).maxConn # None

\* What is in the bucket, and what was taken since any one of its tokens was, is no
\* more than a full bucket and the refill since then.
BucketInv ==
  \A g \in 1..Cur : \A i \in 1..Len(spent[g]) :
    /\ Credit(spent[g][i]) <= Credit(bucket[g])
    /\ bucket[g].tokens + (Len(spent[g]) - i + 1) * Second
         <= Rate(gens[g]) * (Second + Credit(bucket[g]) - Credit(spent[g][i]))

IInv == Inv /\ RateBounded /\ GensInv /\ SessionInv /\ BucketInv

\* Who is past the accept is on the allowlist of its generation, and who is past the
\* authentication has its password.
GuardInv ==
  \A s \in Conns :
    /\ conn[s].pc # "closed" => ClientAllowed(Cfg(s), Who(s))
    /\ conn[s].pc \in {"limits", "take", "request", "pick", "dial", "relay"} =>
         VerifyCredentials(Cfg(s), Who(s))

\* Where the code bounds a wait: on an HTTP client's head, every read of which has
\* its time-out and which has its greatest length, and on the upstream that a SOCKS5
\* session dials (handle_conn bounds dial_socks5_connect; HTTP's dial has no bound).
Waiting(s) ==
  conn[s].pc = "head" \/ (conn[s].pc = "dial" /\ Who(s).proto = "socks5")

\* No session waits there for ever, whatever its client or the upstream does.
WaitsEnd == \A s \in Conns : Waiting(s) ~> ~Waiting(s)

=============================================================================
