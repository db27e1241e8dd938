----------------------------- MODULE LogPages -----------------------------
(***************************************************************************)
(* Reading the audit log: listLogEvents of logEvents.controller.ts over    *)
(* the log_events collection. The rows of one bulk request form a group,   *)
(* groups are ordered by their newest row, and an admin walks through the  *)
(* pages while rows arrive: in any order, stamped with the time they were  *)
(* sent at. A page and the number of groups come from two queries that are *)
(* sent together and run in either order.                                  *)
(***************************************************************************)
EXTENDS Integers, FiniteSetsExt

CONSTANTS
  Batches,      \* requests that record events; one names its group
  RuleBatches,  \* those that saved rules; the others wrote items
  MaxRows,      \* rows of one request
  PageSize,
  MaxTime       \* bound: clock

ASSUME BatchesAssumption == IsFiniteSet(Batches) /\ RuleBatches \subseteq Batches
ASSUME PageSizeAssumption == PageSize \in Nat \ {0}
ASSUME BoundsAssumption == MaxRows \in Nat /\ MaxTime \in Nat

VARIABLES
  events,  \* the collection
  batch,   \* batch[b]: the rows of request b that are on their way
  walk,    \* one admin's walk through the pages
  now

vars == <<events, batch, walk, now>>

Types == {"item", "item_rule"}
Type(b) == IF b \in RuleBatches THEN "item_rule" ELSE "item"

Row == [group : Batches, no : 1..MaxRows, createdAt : 0..MaxTime]

Unsent == [sent |-> FALSE, pending |-> {}, at |-> 0]
Done == [sent |-> TRUE, pending |-> {}, at |-> 0]

\* `shown`, `counted`: which of the two queries of the request ran.
\* `missing`: the groups there were when the walk began, not seen so far.
NoWalk == [stage |-> "none", types |-> {}, page |-> 1, shown |-> FALSE,
           counted |-> FALSE, total |-> 0, missing |-> {}]

TypeOK ==
  /\ events \subseteq Row
  /\ \A b \in Batches : /\ batch[b].pending \subseteq 1..MaxRows
                        /\ batch[b].at \in 0..now
  /\ walk.total \in 0..Cardinality(Batches)
  /\ walk.page \in 1..(Cardinality(Batches) + 1)
  /\ walk.missing \subseteq Batches
  /\ now \in 0..MaxTime

Init ==
  /\ events = {}
  /\ batch = [b \in Batches |-> Unsent]
  /\ walk = NoWalk
  /\ now = 0

----------------------------------------------------------------------------
(* The two aggregations. *)

Matching(types) == {row \in events : Type(row.group) \in types}

Groups(rows) == {row.group : row \in rows}
Latest(g, rows) == Max({row.createdAt : row \in {r \in rows : r.group = g}})

\* `first` may come before the rest of `all`: nothing there is newer.
\* Groups of equal age come in any order.
Newest(first, all, rows) ==
  \A g \in first, h \in all \ first : Latest(g, rows) >= Latest(h, rows)

Smaller(m, n) == IF m <= n THEN m ELSE n

\* Mutant of Pages: rows, not groups, are skipped and counted.
PagesOfRows(page, rows) ==
  LET skipped == Smaller((page - 1) * PageSize, Cardinality(rows))
      size == Smaller(PageSize, Cardinality(rows) - skipped)
      NewestRows(first, all) ==
        \A r \in first, s \in all \ first : r.createdAt >= s.createdAt
  IN  {Groups(shown) : shown \in
         {s \in kSubset(size, rows) :
            \E before \in kSubset(skipped, rows \ s) :
              /\ NewestRows(before, rows)
              /\ NewestRows(s, rows \ before)}}

\* What page number `page` may hold: $sort, $skip and $limit over groups.
Pages(page, rows) ==
  LET all == Groups(rows)
      skipped == Smaller((page - 1) * PageSize, Cardinality(all))
      size == Smaller(PageSize, Cardinality(all) - skipped)
  IN  {shown \in kSubset(size, all) :
         \E before \in kSubset(skipped, all \ shown) :
           /\ Newest(before, all, rows)
           /\ Newest(shown, all \ before, rows)}

\* Mutant of Total: raw rows are counted.
TotalOfRows(rows) == Cardinality(rows)

Total(rows) == Cardinality(Groups(rows))

TotalPages(total) == Max({1, (total + PageSize - 1) \div PageSize})

----------------------------------------------------------------------------
(* The walk. `types` stays the same from page to page. *)

StartWalk ==
  /\ walk.stage = "none"
  /\ \E types \in SUBSET Types \ {{}} :
       walk' = [NoWalk EXCEPT !.stage = "asked", !.types = types,
                              !.missing = Groups(Matching(types))]
  /\ UNCHANGED <<events, batch, now>>

ReadPage ==
  /\ walk.stage = "asked"
  /\ ~walk.shown
  /\ \E shown \in Pages(walk.page, Matching(walk.types)) :
       walk' = [walk EXCEPT !.shown = TRUE, !.missing = @ \ shown]
  /\ UNCHANGED <<events, batch, now>>

ReadTotal ==
  /\ walk.stage = "asked"
  /\ ~walk.counted
  /\ walk' = [walk EXCEPT !.counted = TRUE,
                          !.total = Total(Matching(walk.types))]
  /\ UNCHANGED <<events, batch, now>>

Answered == walk.stage = "asked" /\ walk.shown /\ walk.counted
Through == Answered /\ walk.page >= TotalPages(walk.total)

\* The admin asks for the next page, or was shown the last one.
TurnPage ==
  /\ Answered
  /\ walk' = IF Through THEN NoWalk
               ELSE [walk EXCEPT !.page = @ + 1, !.shown = FALSE,
                                 !.counted = FALSE, !.total = 0]
  /\ UNCHANGED <<events, batch, now>>

----------------------------------------------------------------------------
(* The rows. *)

\* A handler sends the events of its request, one for each row it changed.
Send(b) ==
  /\ ~batch[b].sent
  /\ \E n \in 1..MaxRows :
       batch' = [batch EXCEPT ![b] = [sent |-> TRUE, pending |-> 1..n,
                                      at |-> now]]
  /\ UNCHANGED <<events, walk, now>>

\* One row less to wait for.
Settled(b, no) ==
  LET rest == batch[b].pending \ {no}
  IN  batch' = [batch EXCEPT
        ![b] = IF rest = {} THEN Done ELSE [batch[b] EXCEPT !.pending = rest]]

\* A walk that may miss a group is not followed any further.
Disturbed(how) == walk' = IF how THEN NoWalk ELSE walk

\* A row arrives. It disturbs a walk if its group is listed already and
\* moves up, or if it comes between the count and the page.
Record(b, no) ==
  /\ no \in batch[b].pending
  /\ Settled(b, no)
  /\ \E t \in batch[b].at..now :
       events' = events \union {[group |-> b, no |-> no, createdAt |-> t]}
  /\ Disturbed(b \in Groups(events) \/ (walk.counted /\ ~walk.shown))
  /\ UNCHANGED now

\* The row is lost: "best-effort".
RecordFails(b, no) ==
  /\ no \in batch[b].pending
  /\ Settled(b, no)
  /\ UNCHANGED <<events, walk, now>>

\* hardDeleteRuleLogEvent --run: one event of a rule.
HardDelete(row) ==
  /\ row.group \in RuleBatches
  /\ events' = events \ {row}
  /\ Disturbed(TRUE)
  /\ UNCHANGED <<batch, now>>

Tick ==
  /\ now < MaxTime
  /\ now' = now + 1
  /\ UNCHANGED <<events, batch, walk>>

Next ==
  \/ StartWalk \/ ReadPage \/ ReadTotal \/ TurnPage
  \/ \E b \in Batches : \/ Send(b)
                        \/ \E no \in 1..MaxRows : Record(b, no)
                        \/ \E no \in 1..MaxRows : RecordFails(b, no)
  \/ \E row \in events : HardDelete(row)
  \/ Tick

Spec == Init /\ [][Next]_vars

----------------------------------------------------------------------------
\* No other group is as old as g.
Untied(g, rows) ==
  \A h \in Groups(rows) \ {g} : Latest(h, rows) # Latest(g, rows)

(***************************************************************************)
(* Paging over groups keeps a bulk edit "the one logical event it actually *)
(* was" (logEvents.controller.ts:21-29): an admin who goes through the     *)
(* pages until totalPages has seen every group that was there at the       *)
(* start, although rows arrive meanwhile and shift what a page number      *)
(* means. The exceptions are named: a group as old as another one (the     *)
(* sort has no second key), a row that arrived for a group already listed  *)
(* or between the two queries of one request, and a deletion by hand.      *)
(***************************************************************************)
WalkSeesAll ==
  Through => \A g \in walk.missing : ~Untied(g, Matching(walk.types))

============================================================================
