--------------------------- MODULE AccountSecrets ---------------------------
(***************************************************************************)
(* The master key, the secrets encrypted under it, and the single account  *)
(* of PUT /account (crypto/, db/account.rs, db/credentials.rs and          *)
(* api/account.rs).                                                        *)
(*                                                                         *)
(* The server boots, loads or makes its key, serves requests and crashes   *)
(* at any point; the data directory and the database stay.  A PUT decides  *)
(* on reads made before its four writes, each a transaction of its own.    *)
(* A ciphertext is kept as its plaintext and the key it was made with:     *)
(* decrypting it under another key is an error.                            *)
(***************************************************************************)
EXTENDS Naturals, Sequences

CONSTANTS Clients,     \* concurrent PUT requests
          Bodies,      \* the bodies they send
          EnvKeys,     \* what a deployment sets WARPDECK_MASTER_KEY to: {} or {key}
          MaxKeys,     \* bound: random keys made
          MaxPuts      \* bound: requests

VARIABLES env,       \* WARPDECK_MASTER_KEY of this deployment
          keyFile,   \* master.key: {} or {key}
          tmpFile,   \* master.key.tmp: {}, {Half} or {key}
          server,    \* [pc, key]
          made,      \* random keys so far
          rows,      \* global rows of `secrets`, per kind, oldest first
          account,   \* account_config: [mode, org]
          req,       \* PUT requests in progress
          puts,      \* requests so far
          last       \* history: per kind, the value last set, {} when cleared

files == <<env, keyFile, tmpFile>>
tables == <<rows, account, last>>
vars == <<files, server, made, tables, req, puts>>

None == {}
Kinds == {"license", "client_id", "client_secret"}
Modes == {"free", "warp_plus", "zero_trust"}
Fresh == 1..MaxKeys
Half == 0      \* what a file has before the key is written

\* mode and org: {} when the field is absent (an org that is empty counts as
\* absent); per secret {} for absent, {""} for clear, {v} for set.
Options(S) == {None} \cup {{x} : x \in S}
Body == [mode : Options(Modes), org : Options({"org"}),
         secret : [Kinds -> Options({"", "a", "b"})]]

ASSUME BodiesAssumption == Bodies \subseteq Body
ASSUME EnvKeysAssumption == \A e \in EnvKeys : e = None \/ \E k \in e : e = {k}
ASSUME BoundsAssumption == {MaxKeys, MaxPuts} \subseteq Nat

NoReq == [pc |-> "none", body |-> None, mode |-> "free", org |-> None,
          view |-> None, alone |-> TRUE]

Init ==
  /\ env \in EnvKeys
  /\ keyFile = None /\ tmpFile = None
  /\ server = [pc |-> "down", key |-> None]
  /\ made = 0
  /\ rows = [k \in Kinds |-> <<>>]
  /\ account = [mode |-> "free", org |-> None]
  /\ req = [c \in Clients |-> NoReq]
  /\ puts = 0
  /\ last = [k \in Kinds |-> None]

Boot(to, key) == server' = [pc |-> to, key |-> key]

-----------------------------------------------------------------------------
\* load_or_create: the environment, else the file, else a new key.
LoadKey ==
  /\ server.pc = "down"
  /\ \/ /\ env # None
        /\ Boot("up", env)
     \/ /\ env = None /\ keyFile # None
        /\ Boot("up", keyFile)
     \/ /\ env = None /\ keyFile = None
        /\ Boot("create", None)
  /\ UNCHANGED <<files, made, tables, req, puts>>

\* A new key goes to a temporary file, opened with create_new: one that a crash
\* has left there makes this boot fail, and every later one.
CreateTmp ==
  /\ server.pc = "create"
  /\ IF tmpFile = None
     THEN /\ made < MaxKeys
          /\ tmpFile' = {Half}
          /\ made' = made + 1
          /\ Boot("write", {made + 1})
     ELSE /\ Boot("down", None)
          /\ UNCHANGED <<tmpFile, made>>
  /\ UNCHANGED <<env, keyFile, tables, req, puts>>

WriteTmp ==
  /\ server.pc = "write"
  /\ tmpFile' = server.key
  /\ Boot("rename", server.key)
  /\ UNCHANGED <<env, keyFile, made, tables, req, puts>>

\* Variant: the key is served from memory and the file is left for later.
RenameTmpNot ==
  /\ server.pc = "rename"
  /\ tmpFile' = None
  /\ Boot("up", server.key)
  /\ UNCHANGED <<env, keyFile, made, tables, req, puts>>

RenameTmp ==
  /\ server.pc = "rename"
  /\ keyFile' = tmpFile
  /\ tmpFile' = None
  /\ Boot("up", server.key)
  /\ UNCHANGED <<env, made, tables, req, puts>>

\* Anything in memory goes: the key and the requests.
Crash ==
  /\ server.pc # "down"
  /\ Boot("down", None)
  /\ req' = [c \in Clients |-> NoReq]
  /\ UNCHANGED <<files, made, tables, puts>>

-----------------------------------------------------------------------------
\* SecretStore: exists counts rows, get_plaintext decrypts the first one.
Has(k) == rows[k] # <<>>

Decrypt(row) == IF row.key = server.key THEN {row.val} ELSE {"unavailable"}
GetPlaintext(k) == IF Has(k) THEN Decrypt(Head(rows[k])) ELSE None

\* set: delete and insert in one transaction, since UNIQUE(kind, profile_id) says
\* nothing of rows whose profile_id is NULL.
Set(k, v) == [rows EXCEPT ![k] = <<[val |-> v, key |-> server.key]>>]
Delete(k) == [rows EXCEPT ![k] = <<>>]

\* apply_secret: absent, clear or set.
ApplySecret(k, field) ==
  /\ rows' = IF field = None THEN rows
             ELSE IF field = {""} THEN Delete(k)
             ELSE Set(k, CHOOSE v \in field : TRUE)
  /\ last' = IF field = None THEN last
             ELSE [last EXCEPT ![k] = field \ {""}]

-----------------------------------------------------------------------------
\* What GET /account answers: the mode, the org, and the secrets that are there.
View(mode, org, present) == [mode |-> mode, org |-> org, present |-> present]
Get == View(account.mode, account.org, {k \in Kinds : Has(k)})

Complete(mode, org, present) ==
  CASE mode = "free" -> TRUE
    [] mode = "warp_plus" -> "license" \in present
    [] mode = "zero_trust" -> {"client_id", "client_secret"} \subseteq present
                              /\ org # None

\* Variant: an empty string keeps the secret.
WouldBePresentKept(body, k) == body.secret[k] # None \/ Has(k)

\* secret_would_present.
WouldBePresent(body, k) ==
  IF body.secret[k] = None THEN Has(k) ELSE body.secret[k] # {""}

Others(c) == {d \in Clients \ {c} : req[d].pc # "none"}

\* PUT /account: the mode and the org to be, from the row and the body.
PutRead(c, b) ==
  /\ server.pc = "up"
  /\ puts < MaxPuts
  /\ req[c].pc = "none"
  /\ puts' = puts + 1
  /\ req' = [d \in Clients |->
       IF d = c
       THEN [pc |-> "check", body |-> {b},
             mode |-> IF b.mode = None THEN account.mode ELSE CHOOSE m \in b.mode : TRUE,
             org |-> IF b.org = None THEN account.org ELSE b.org,
             view |-> None, alone |-> Others(c) = {}]
       ELSE [req[d] EXCEPT !.alone = FALSE]]
  /\ UNCHANGED <<files, server, made, tables>>

BodyOf(c) == CHOOSE b \in req[c].body : TRUE

\* The secrets that will be there, and 422 where the mode needs more.
PutCheck(c) ==
  LET r == req[c]
      present == {k \in Kinds : WouldBePresent(BodyOf(c), k)}
  IN
  /\ server.pc = "up" /\ r.pc = "check"
  /\ req' = [req EXCEPT ![c] =
       IF Complete(r.mode, r.org, present)
       THEN [r EXCEPT !.pc = "license", !.view = {View(r.mode, r.org, present)}]
       ELSE NoReq]
  /\ UNCHANGED <<files, server, made, tables, puts>>

\* The three secrets one after the other, then the mode.
PutSecret(c, k, to) ==
  /\ server.pc = "up" /\ req[c].pc = k
  /\ ApplySecret(k, BodyOf(c).secret[k])
  /\ req' = [req EXCEPT ![c].pc = to]
  /\ UNCHANGED <<files, server, made, account, puts>>

PutMode(c) ==
  /\ server.pc = "up" /\ req[c].pc = "mode"
  /\ account' = [mode |-> req[c].mode, org |-> req[c].org]
  /\ req' = [req EXCEPT ![c] = NoReq]
  /\ UNCHANGED <<files, server, made, rows, last, puts>>

\* The database refuses one of the writes: 500, and what was written stays.
PutFails(c) ==
  /\ server.pc = "up"
  /\ req[c].pc \in Kinds \cup {"mode"}
  /\ req' = [req EXCEPT ![c] = NoReq]
  /\ UNCHANGED <<files, server, made, tables, puts>>

Put(c) ==
  \/ \E b \in Bodies : PutRead(c, b)
  \/ PutCheck(c)
  \/ PutSecret(c, "license", "client_id")
  \/ PutSecret(c, "client_id", "client_secret")
  \/ PutSecret(c, "client_secret", "mode")
  \/ PutMode(c) \/ PutFails(c)

Next ==
  \/ LoadKey
  \/ CreateTmp \/ WriteTmp \/ RenameTmp \/ Crash
  \/ \E c \in Clients : Put(c)

Spec == Init /\ [][Next]_vars

-----------------------------------------------------------------------------
Keys == Fresh \cup UNION EnvKeys
Row == [val : {"a", "b"}, key : Options(Keys)]

\* Types of the files, the tables and the requests; master.key is never a part of
\* a key.
TypeOK ==
  /\ env \in EnvKeys
  /\ keyFile \in Options(Fresh)
  /\ tmpFile \in Options(Fresh \cup {Half})
  /\ server \in [pc : {"down", "create", "write", "rename", "up"}, key : Options(Keys)]
  /\ made \in 0..MaxKeys
  /\ rows \in [Kinds -> Seq(Row)]
  /\ account \in [mode : Modes, org : Options({"org"})]
  /\ \A c \in Clients :
       /\ req[c].pc \in {"none", "check", "mode"} \cup Kinds
       /\ req[c].mode \in Modes /\ req[c].org \in Options({"org"})
       /\ req[c].alone \in BOOLEAN
  /\ puts \in 0..MaxPuts
  /\ last \in [Kinds -> Options({"a", "b"})]

\* While a deployment does not change its environment, a server that is up can decrypt every secret
\* that any earlier one has stored, whichever step a crash came after.
SecretsReadable ==
  server.pc = "up" => \A k \in Kinds : GetPlaintext(k) # {"unavailable"}

\* What is read is what was last set, and nothing once it has been cleared,
\* whatever was set before and by whom.
ReadsLastSet ==
  server.pc = "up" => \A k \in Kinds : GetPlaintext(k) \in {last[k], {"unavailable"}}

\* What is stored at every crash and between any two statements: readable under the
\* key of every later boot, and the value that was last set.
Inv == TypeOK /\ SecretsReadable /\ ReadsLastSet

\* The answer of a PUT that no other one overlapped is what a GET says next: its
\* mode, its org and its secrets are those the answer names, and they are all that
\* the mode needs.
AnswerTruthful ==
  [][\A c \in Clients :
       /\ req[c].pc = "mode" /\ account' = [mode |-> req[c].mode, org |-> req[c].org]
       /\ req'[c].pc = "none" /\ req[c].alone
       => /\ req[c].view = {Get'}
          /\ Complete(Get'.mode, Get'.org, Get'.present)]_vars

(***************************************************************************)
(* The inductive invariant.                                                *)
(***************************************************************************)

\* The one key of a deployment: its own, or that of its file.
DeploymentKey == IF env # None THEN env ELSE keyFile

\* A key is only made where there is none, it is whole before it gets its name, and no
\* server is up with another.
KeyInv ==
  /\ server.pc = "up" => server.key = DeploymentKey /\ server.key # None
  /\ server.pc \in {"create", "write", "rename"} => DeploymentKey = None
  /\ server.pc \in {"write", "rename"} => \E k \in Fresh : server.key = {k}
  /\ server.pc = "rename" => tmpFile = server.key

\* At most one row of a kind, under that key, with the value last set.
RowsInv ==
  \A k \in Kinds :
    \/ rows[k] = <<>> /\ last[k] = None
    \/ \E v \in {"a", "b"} : /\ rows[k] = <<[val |-> v, key |-> DeploymentKey]>>
                             /\ last[k] = {v} /\ DeploymentKey # None

Done(pc) ==
  CASE pc = "client_id" -> {"license"}
    [] pc = "client_secret" -> {"license", "client_id"}
    [] pc = "mode" -> Kinds
    [] OTHER -> {}

Answer == [mode : Modes, org : Options({"org"}), present : SUBSET Kinds]
Request == [pc : {"none", "check", "mode"} \cup Kinds, body : Options(Bodies),
            mode : Modes, org : Options({"org"}), view : Options(Answer), alone : BOOLEAN]

\* A request has the body it came with, and behind its check an answer that is complete.
RequestInv ==
  /\ req \in [Clients -> Request]
  /\ \A c \in Clients : req[c].pc # "none" => \E b \in Bodies : req[c].body = {b}
  /\ \A c \in Clients : req[c].pc \in Kinds \cup {"mode"} =>
       \E p \in SUBSET Kinds : /\ req[c].view = {View(req[c].mode, req[c].org, p)}
                               /\ Complete(req[c].mode, req[c].org, p)

\* As long as a request is alone, no other one is there and its answer is what the
\* database will say: what is written of it is there, the rest is still to come.
AloneInv ==
  \A c \in Clients : req[c].alone =>
    /\ req[c].pc # "none" => Others(c) = {}
    /\ req[c].pc \in Kinds \cup {"mode"} =>
         /\ req[c].view = {View(req[c].mode, req[c].org,
                                {k \in Kinds : WouldBePresent(BodyOf(c), k)})}
         /\ \A k \in Done(req[c].pc) : Has(k) = WouldBePresent(BodyOf(c), k)

IInv == TypeOK /\ KeyInv /\ RowsInv /\ RequestInv /\ AloneInv
=============================================================================
