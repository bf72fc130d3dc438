------------------------------ MODULE LogPages ------------------------------
(***************************************************************************)
(* GET /logs (api/logs.rs, logs.rs): a page of the history of a log, read  *)
(* backwards from the end of its file in chunks.                           *)
(***************************************************************************)
EXTENDS Logs

CONSTANTS Chunk,         \* TAIL_CHUNK_BYTES
          MaxPage,       \* MAX_PAGE_SIZE
          Limits, Offsets \* pages asked of the history API

ASSUME PagesAssumption ==
  {Chunk, MaxPage} \subseteq Nat \ {0} /\ Limits \cup Offsets \subseteq Nat

\* The lines of a file with text, the last one ended or not.
AllLines(s) == Complete(s) \o (IF Rest(s) = <<>> THEN <<>> ELSE <<Rest(s)>>)

\* Chunks are read until there are enough NLs or the file begins; a chunk that
\* is not the first of the file loses what is before its first NL.
RECURSIVE ReadBack(_, _, _, _)
ReadBack(d, len, raw, collect) ==
  LET from == IF len > Chunk THEN len - Chunk ELSE 0
      both == SubSeq(d, from + 1, len) \o raw
      kept == IF from > 0 /\ Nls(both) # {} THEN SubSeq(both, Min(Nls(both)) + 1, Len(both)) ELSE both
  IN  IF len = 0 THEN raw
      ELSE IF from = 0 \/ Cardinality(Nls(kept)) >= collect THEN kept
      ELSE ReadBack(d, from, kept, collect)

\* Variant: the offset counts lines and not pages.
ReadTailByLine(d, limit, offset) ==
  LET ls    == AllLines(ReadBack(d, Len(d), <<>>, offset + limit + 1))
      end   == IF Len(ls) > offset THEN Len(ls) - offset ELSE 0
      start == IF end > limit THEN end - limit ELSE 0
  IN  [lines |-> SubSeq(ls, start + 1, end), has_more |-> start > 0]
ReadTail(d, limit, offset) ==
  LET ls    == AllLines(ReadBack(d, Len(d), <<>>, offset * limit + limit + 1))
      end   == IF Len(ls) > offset * limit THEN Len(ls) - offset * limit ELSE 0
      start == IF end > limit THEN end - limit ELSE 0
  IN  [lines |-> SubSeq(ls, start + 1, end), has_more |-> start > 0]

\* The handler: the limit is clamped, a file that is not there is an empty page,
\* and the lines of an instance are scrubbed once more.
Clamped(limit) == SmallerOf(MaxPage, IF limit < 1 THEN 1 ELSE limit)
History(limit, offset) ==
  LET page == IF path = 0 THEN [lines |-> <<>>, has_more |-> FALSE]
              ELSE ReadTail(data[path], Clamped(limit), offset)
  IN  [lines |-> [i \in 1 .. Len(page.lines) |-> ScrubLine(page.lines[i])],
       has_more |-> page.has_more, next_offset |-> offset + 1]

-----------------------------------------------------------------------------
\* A page is a run of the file's own lines that ends where it was asked to,
\* wherever the first chunk has enough lines; only then is it told from a
\* complete one, and "has_more" promises that the page at "next_offset" has a
\* line.  (A page depends on the file alone, and every file can be there before
\* the watcher begins: it is looked at in those states.)
PageIsTail ==
  path # 0 /\ w.pc = "none" =>
    \A asked \in Limits, offset \in Offsets :
      LET d     == data[path]
          ref   == AllLines(d)
          page  == History(asked, offset)
          limit == Clamped(asked)
          end   == IF Len(ref) > offset * limit THEN Len(ref) - offset * limit ELSE 0
          last  == SubSeq(d, Len(d) - Chunk + 1, Len(d))
          one   == Len(d) <= Chunk \/ Cardinality(Nls(last)) > offset * limit + limit + 1
      IN  one => /\ Len(page.lines) <= limit /\ Len(page.lines) <= end
                 /\ page.lines = SubSeq(ref, end - Len(page.lines) + 1, end)
                 /\ page.has_more => Len(ref) > page.next_offset * limit
                 /\ Len(d) <= Chunk =>
                      /\ page.has_more <=> Len(ref) > page.next_offset * limit
                      /\ ~page.has_more => Len(page.lines) = end
=============================================================================
