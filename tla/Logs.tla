-------------------------------- MODULE Logs --------------------------------
(***************************************************************************)
(* The log of an instance, from the pipes of its daemon to the browser     *)
(* (runtime/process.rs, log_tail.rs, logs.rs, api/logs.rs, api/events.rs). *)
(*                                                                         *)
(* Two pumps append to one file, a restart truncates it, an operator may   *)
(* remove it; a watcher follows it by polling and publishes its lines to a *)
(* bounded broadcast.  The history API is in LogPages.                     *)
(* A file is a sequence of units: NL, or a piece of the text of line n (n  *)
(* itself, or -n where the redactor replaced what the line gave away).     *)
(***************************************************************************)
EXTENDS Integers, Sequences, FiniteSets, FiniteSetsExt

CONSTANTS MaxLines,      \* bound: lines the daemons write
          Widths,        \* lengths that line n may have, in units; 0 is a blank line
          Labelled,      \* lines with a secret in a shape the redactor knows
          MaxSpawns,     \* bound: starts of the daemon
          Batch,         \* READ_BATCH_BYTES
          PendingMax,    \* PENDING_MAX_BYTES
          RescueTicks,   \* polls between two looks at the path
          BusCap         \* capacity of LogBus

ASSUME LogsAssumption ==
  /\ {MaxSpawns, Batch, PendingMax, RescueTicks, BusCap} \subseteq Nat \ {0}
  /\ Batch <= PendingMax
ASSUME LinesAssumption ==
  /\ MaxLines \in Nat /\ Labelled \subseteq 1 .. MaxLines
  /\ \A n \in 1 .. MaxLines : Widths[n] \subseteq Nat

VARIABLES path,    \* the file at the instance's log path, 0 if there is none
          data,    \* the contents of every file
          pumps,   \* per start of the daemon the file its stdout and stderr pumps
                   \* have open (0 before), and how many of the two are inside a line
          lines,   \* lines the daemons have written so far
          w,       \* the watcher of this source
          epoch,   \* what the watcher did since it last began from somewhere
          bus,     \* LogBus: the lines it holds that the client has not got yet,
                   \* and whether it had to drop some of those
          sub      \* an SSE client, and the number of the last line it got

logVars == <<path, data, pumps, lines, w, epoch, bus, sub>>

NL == 0
NoByte == -1
Byte(u) == IF u = NL THEN 0 ELSE 1
Files == 1 .. MaxSpawns
Starts == 1 .. MaxSpawns
Spawned == Cardinality({g \in Starts : pumps[g].ino # 0})
SmallerOf(a, b) == IF a < b THEN a ELSE b

\* The lines of some text: those that are ended and are not blank, in their order,
\* and what follows the last NL.
Nls(s) == {i \in 1 .. Len(s) : s[i] = NL}
Below(S, i) == {j \in S : j < i}
NlBefore(s, i) == Max({0} \cup Below(Nls(s), i))
LastNl(s) == NlBefore(s, Len(s) + 1)
Rest(s) == SubSeq(s, LastNl(s) + 1, Len(s))
Ends(s) == {i \in Nls(s) : i > 1 /\ s[i - 1] # NL}
Kth(S, k) == CHOOSE i \in S : Cardinality(Below(S, i)) = k - 1
LineTo(s, i) == SubSeq(s, NlBefore(s, i) + 1, i - 1)
Complete(s) == [k \in 1 .. Cardinality(Ends(s)) |-> LineTo(s, Kth(Ends(s), k))]

Scrub(u) == IF u \in Labelled THEN -u ELSE u
ScrubLine(l) == [i \in 1 .. Len(l) |-> Scrub(l[i])]

ClosedWatcher == [pc |-> "closed", first |-> FALSE, ino |-> 0, pos |-> 0, prev |-> NoByte,
           pending |-> <<>>, seq |-> 0, ticks |-> 0, len |-> 0]
NewEpoch(from) == [from |-> from, out |-> <<>>, dirty |-> FALSE, cut |-> FALSE]

LogsInit ==
  /\ path = 0 /\ lines = 0
  /\ data = [f \in Files |-> <<>>]
  /\ pumps = [g \in Starts |-> [ino |-> 0, mid |-> 0]]
  /\ w = [ClosedWatcher EXCEPT !.pc = "none", !.first = TRUE]
  /\ epoch = NewEpoch(0)
  /\ bus = [ring |-> <<>>, lagged |-> FALSE]
  /\ sub = [on |-> FALSE, last |-> 0]

-----------------------------------------------------------------------------
\* The daemon is started again: its log is created or truncated, and two new
\* pumps append to it.  The pumps of the daemon before it may have lines left.
Spawn ==
  /\ Spawned < MaxSpawns
  /\ LET ino == IF path # 0 THEN path ELSE 1 + Cardinality({pumps[g].ino : g \in Starts} \ {0})
     IN  /\ path' = ino
         /\ data' = [data EXCEPT ![ino] = <<>>]
         /\ pumps' = [pumps EXCEPT ![Spawned + 1] = [ino |-> ino, mid |-> 0]]
         /\ epoch' = [epoch EXCEPT !.dirty = @ \/ (w.ino = ino /\ {w.pos, w.len} # {0})]
  /\ UNCHANGED <<lines, w, bus, sub>>

\* A pump writes a line in two calls, the scrubbed text and then the NL.
PumpText(g) ==
  /\ pumps[g].ino # 0 /\ pumps[g].mid < 2 /\ lines < MaxLines
  /\ lines' = lines + 1
  /\ \E k \in Widths[lines + 1] : data' = [data EXCEPT ![pumps[g].ino] = @ \o [i \in 1 .. k |-> Scrub(lines + 1)]]
  /\ pumps' = [pumps EXCEPT ![g].mid = @ + 1]
  /\ UNCHANGED <<path, w, epoch, bus, sub>>

PumpNl(g) ==
  /\ pumps[g].mid > 0
  /\ data' = [data EXCEPT ![pumps[g].ino] = Append(@, NL)]
  /\ pumps' = [pumps EXCEPT ![g].mid = @ - 1]
  /\ UNCHANGED <<path, lines, w, epoch, bus, sub>>

\* Somebody removes the file; whoever has it open keeps it.
RemoveFile ==
  /\ path # 0 /\ path' = 0
  /\ UNCHANGED <<data, pumps, lines, w, epoch, bus, sub>>

-----------------------------------------------------------------------------
\* enumerate_sources: the manager, and every instance that has a log on disk.
Listed == path # 0

\* The supervisor finds the file in the logs directory and starts a worker.
Discover ==
  /\ w.pc = "none"
  /\ w' = [w EXCEPT !.pc = IF Listed THEN "closed" ELSE @]
  /\ UNCHANGED <<path, data, pumps, lines, epoch, bus, sub>>

\* The first time from the end of the file, later from its beginning.
Open ==
  /\ w.pc = "closed"
  /\ IF path = 0 THEN UNCHANGED <<w, epoch>>
     ELSE LET pos == IF w.first THEN Len(data[path]) ELSE 0
          IN  /\ w' = [ClosedWatcher EXCEPT !.pc = "poll", !.ino = path, !.pos = pos]
              /\ epoch' = NewEpoch(pos)
  /\ UNCHANGED <<path, data, pumps, lines, bus, sub>>

\* One poll: the length, through the handle; every few polls, the path.
Poll ==
  /\ w.pc = "poll"
  /\ LET look == w.ticks + 1 >= RescueTicks
     IN  w' = [w EXCEPT !.pc = IF look THEN "check" ELSE "read",
                        !.ticks = IF look THEN 0 ELSE @ + 1, !.len = Len(data[w.ino])]
  /\ UNCHANGED <<path, data, pumps, lines, epoch, bus, sub>>

Check ==
  /\ w.pc = "check"
  /\ IF path = w.ino /\ Len(data[path]) = w.len
     THEN w' = [w EXCEPT !.pc = "read"] /\ UNCHANGED epoch
     ELSE w' = ClosedWatcher /\ epoch' = NewEpoch(0)
  /\ UNCHANGED <<path, data, pumps, lines, bus, sub>>

\* Variant: a file that is now shorter is taken for one with nothing new.
NotTruncated == FALSE
Truncated == w.len < w.pos
\* Variant: the first byte that is new is compared, as an earlier version did.
RewrittenAtPos ==
  /\ w.prev # NoByte /\ w.pos > 0 /\ w.pos < Len(data[w.ino])
  /\ Byte(data[w.ino][w.pos + 1]) # w.prev
\* The last byte of the last batch is another one now.
Rewritten ==
  /\ w.prev # NoByte /\ w.pos > 0 /\ w.pos <= Len(data[w.ino])
  /\ Byte(data[w.ino][w.pos]) # w.prev

Rewind ==
  /\ w.pc = "read" /\ (Truncated \/ Rewritten)
  /\ w' = [w EXCEPT !.pc = "poll", !.len = 0, !.pos = 0, !.prev = NoByte, !.pending = <<>>, !.seq = 0]
  /\ epoch' = NewEpoch(0)
  /\ UNCHANGED <<path, data, pumps, lines, bus, sub>>

NothingNew ==
  /\ w.pc = "read" /\ ~Truncated /\ ~Rewritten /\ w.len <= w.pos
  /\ w' = [w EXCEPT !.pc = "poll", !.len = 0]
  /\ UNCHANGED <<path, data, pumps, lines, epoch, bus, sub>>

\* What is kept of a text without an NL that has grown too long.
Kept(s) ==
  IF Len(s) <= PendingMax THEN s
  ELSE IF Nls(s) # {} THEN Rest(s) ELSE <<>>

\* The lines that are published: those with text, numbered on, scrubbed again.
Numbered(ls) == [i \in 1 .. Len(ls) |-> <<w.seq + i, ScrubLine(ls[i])>>]

LastOf(s) == SubSeq(s, 1 + (IF Len(s) > BusCap THEN Len(s) - BusCap ELSE 0), Len(s))
\* A broadcast without a receiver drops what it is sent.
Publish(ms) ==
  bus' = IF sub.on THEN [ring |-> LastOf(bus.ring \o ms), lagged |-> bus.lagged \/ Len(bus.ring \o ms) > BusCap]
         ELSE bus

\* Variant: the text without an NL is dropped with the batch it came in.
ReadDropsRest ==
  /\ w.pc = "read" /\ ~Truncated /\ ~Rewritten /\ w.pos < w.len
  /\ LET end == SmallerOf(w.len, w.pos + Batch)
         got == Complete(w.pending \o SubSeq(data[w.ino], w.pos + 1, end))
     IN  /\ end <= Len(data[w.ino])
         /\ w' = [w EXCEPT !.pc = "poll", !.len = 0, !.pos = end,
                           !.prev = Byte(data[w.ino][end]), !.pending = <<>>,
                           !.seq = @ + Len(got)]
         /\ epoch' = [epoch EXCEPT !.out = @ \o got]
         /\ Publish(Numbered(got))
  /\ UNCHANGED <<path, data, pumps, lines, sub>>
\* A batch is read and its lines are published; the text that has no NL yet waits.
Read ==
  /\ w.pc = "read" /\ ~Truncated /\ ~Rewritten /\ w.pos < w.len
  /\ LET end == SmallerOf(w.len, w.pos + Batch)
         all == w.pending \o SubSeq(data[w.ino], w.pos + 1, end)
         got == Complete(Kept(all))
     IN  /\ end <= Len(data[w.ino])
         /\ w' = [w EXCEPT !.pc = "poll", !.len = 0, !.pos = end,
                           !.prev = Byte(data[w.ino][end]), !.pending = Rest(Kept(all)),
                           !.seq = @ + Len(got)]
         /\ epoch' = [epoch EXCEPT !.out = @ \o got, !.cut = @ \/ Kept(all) # all]
         /\ Publish(Numbered(got))
  /\ UNCHANGED <<path, data, pumps, lines, sub>>

\* The file became shorter after its length was read: begin again.
ReadFails ==
  /\ w.pc = "read" /\ ~Truncated /\ ~Rewritten
  /\ SmallerOf(w.len, w.pos + Batch) > Len(data[w.ino])
  /\ w.pos < w.len
  /\ w' = ClosedWatcher /\ epoch' = NewEpoch(0)
  /\ UNCHANGED <<path, data, pumps, lines, bus, sub>>

Watch == Discover \/ Open \/ Poll \/ Check \/ Rewind \/ NothingNew \/ Read \/ ReadFails

-----------------------------------------------------------------------------
\* GET /events: a receiver gets what is sent from now on.
Subscribe ==
  /\ ~sub.on
  /\ sub' = [on |-> TRUE, last |-> 0]
  /\ UNCHANGED <<path, data, pumps, lines, w, epoch, bus>>

\* A receiver that lagged goes on at the oldest line that is still held.
Receive ==
  /\ bus.ring # <<>>
  /\ sub' = [sub EXCEPT !.last = Head(bus.ring)[1]]
  /\ bus' = [ring |-> Tail(bus.ring), lagged |-> FALSE]
  /\ UNCHANGED <<path, data, pumps, lines, w, epoch>>

LogsNext ==
  \/ Spawn \/ RemoveFile \/ \E g \in Starts : PumpText(g) \/ PumpNl(g)
  \/ Watch
  \/ Subscribe \/ Receive

\* The watcher is a task that sleeps and polls for ever, and a client that
\* stays connected reads.
LogsFairness == WF_logVars(Watch) /\ WF_logVars(Receive)
LogsSpec == LogsInit /\ [][LogsNext]_logVars /\ LogsFairness

-----------------------------------------------------------------------------
(* Properties *)

\* Files hold units, and the buffers of the watcher and of the bus are within their
\* bounds.
Units == -MaxLines .. MaxLines
Watchers ==
  [pc : {"none", "closed", "poll", "check", "read"}, first : BOOLEAN, ino : 0 .. MaxSpawns,
   pos : Nat, prev : {NoByte, 0, 1}, pending : Seq(Units), seq : Nat, ticks : Nat, len : Nat]
LogsTypeOK ==
  /\ path \in 0 .. MaxSpawns /\ lines \in 0 .. MaxLines
  /\ data \in [Files -> Seq(Units)]
  /\ pumps \in [Starts -> [ino : 0 .. MaxSpawns, mid : 0 .. 2]]
  /\ w \in Watchers /\ w.ticks < RescueTicks
  /\ Nls(w.pending) = {} /\ Len(w.pending) <= PendingMax
  /\ epoch \in [from : Nat, out : Seq(Seq(Units)), dirty : BOOLEAN, cut : BOOLEAN]
  /\ bus \in [ring : Seq(Nat \X Seq(Units)), lagged : BOOLEAN] /\ Len(bus.ring) <= BusCap
  /\ sub \in [on : BOOLEAN, last : Nat]

Following == w.pc \in {"poll", "check", "read"}

\* Nothing lost, nothing twice: as long as the file was not truncated under
\* the watcher and no line was too long, what it published since it began is
\* exactly the lines it has read, in their order, and the unfinished one waits.
FollowsFile ==
  (Following /\ ~epoch.dirty /\ ~epoch.cut) =>
    LET seen == SubSeq(data[w.ino], epoch.from + 1, w.pos)
    IN  epoch.out = Complete(seen) /\ w.pending = Rest(seen)

\* What the redactor knows never gets to the disk, or to a client.
NothingLeaks ==
  /\ \A f \in Files : \A i \in DOMAIN data[f] : data[f][i] \notin Labelled
  /\ \A m \in DOMAIN bus.ring : \A i \in DOMAIN bus.ring[m][2] : bus.ring[m][2][i] \notin Labelled

\* Between any two polls: the buffers are within their bounds (LogsTypeOK), what was
\* published is what was read, and nothing of it is a secret.
LogsInv == LogsTypeOK /\ FollowsFile /\ NothingLeaks

\* The watcher begins again, and so shows lines a second time, only when the
\* file was truncated or replaced under it, or when it grew between the two
\* looks of one rescue check; a line that is merely appended never does it.
RestartsForAReason ==
  [][ (Following /\ (w'.pc = "closed" \/ w'.pos < w.pos)) =>
        \/ epoch.dirty \/ path # w.ino
        \/ w.pc = "check" /\ Len(data[w.ino]) # w.len ]_logVars

\* The number of the next line a client gets is the next number, or 1 because the
\* watcher began again, unless the client lagged.
SeqTells ==
  [][ (Len(bus'.ring) < Len(bus.ring) /\ sub.last > 0) =>
        sub'.last \in {sub.last + 1, 1} \/ bus.lagged ]_logVars

\* A line of the watcher's present epoch travels under its own number, the n-th it
\* published as n, also past lines that the broadcast dropped: a lag within one epoch
\* shows in the numbers.
NumberIsPlace ==
  /\ w.seq = Len(epoch.out)
  /\ \A i \in DOMAIN bus.ring :
       LET n == w.seq - (Len(bus.ring) - i)
       IN  n > 0 => bus.ring[i] = <<n, ScrubLine(epoch.out[n])>>

\* From the watcher to the client no line is lost, repeated or exchanged that the numbers
\* do not show.  What they cannot show, in the model as in the code: what the watcher
\* itself drops from a buffer that grew too long ("cut") or does not see rewritten
\* ("dirty"), and a lag that spans the watcher's new beginning, for nobody tells an SSE
\* client that it lagged.
GapsShow == RestartsForAReason /\ SeqTells /\ []NumberIsPlace

\* Once the daemons are quiet the watcher is at the end of the file at the path, whatever
\* was removed and created meanwhile, and has published all its lines since the
\* watcher began, and a client that stays has got the last of them.  Two cases are left
\* out, and lose lines for good: a buffer that was cut, and a file that was truncated
\* under the watcher and is, when it looks, no shorter and the same at the one byte it
\* compares.
CatchesUp ==
  <>[]( /\ path # 0 =>
             /\ w.ino = path /\ w.pos = Len(data[path])
             /\ \/ epoch.dirty \/ epoch.cut
                \/ epoch.out = Complete(SubSeq(data[path], epoch.from + 1, Len(data[path])))
        /\ bus.ring = <<>>
        /\ sub.last > 0 => w.seq \in {sub.last, 0} )

(***************************************************************************)
(* The inductive invariant.                                                *)
(***************************************************************************)

\* Where the watcher is in its file: while that only grows, not behind its end, and
\* the last byte it has read is the one that is there.
PlaceInv ==
  Following =>
    /\ w.ino \in Files
    /\ ~epoch.dirty =>
         /\ epoch.from <= w.pos /\ w.pos <= Len(data[w.ino])
         /\ w.pc \in {"check", "read"} => w.pos <= w.len /\ w.len <= Len(data[w.ino])
         /\ w.prev # NoByte /\ w.pos > 0 => w.prev = Byte(data[w.ino][w.pos])

\* The lines on their way to the client are numbered on, or from 1 again; the watcher
\* goes on after the last of them.
NumberInv ==
  LET ring == bus.ring  IN
  /\ ~sub.on => ring = <<>> /\ sub.last = 0
  /\ \A i \in DOMAIN ring : ring[i][1] > 0
  /\ \A i \in DOMAIN ring : i > 1 => ring[i][1] \in {ring[i - 1][1] + 1, 1}
  /\ ring # <<>> /\ sub.last > 0 /\ ~bus.lagged => ring[1][1] \in {sub.last + 1, 1}
  /\ ring # <<>> => w.seq \in {ring[Len(ring)][1], 0}
  /\ ring = <<>> /\ sub.last > 0 => w.seq \in {sub.last, 0}

LogsIInv == LogsInv /\ PlaceInv /\ NumberInv
=============================================================================
