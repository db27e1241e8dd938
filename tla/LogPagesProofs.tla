-------------------------- MODULE LogPagesProofs --------------------------
(***************************************************************************)
(* Proofs about LogPages for any finite set of requests, page size and     *)
(* clock. The argument counts: while a walk has not seen a group that no   *)
(* other is as old as, at least as many groups are newer as the pages read *)
(* so far hold, so this group is still ahead and the total says so.        *)
(***************************************************************************)
EXTENDS LogPages, FiniteSetTheorems, TLAPS

\* The groups that are listed before g, whatever the order of equal ones.
Newer(g, rows) == {h \in Groups(rows) : Latest(h, rows) > Latest(g, rows)}

WalkRecord ==
  [stage : {"none", "asked"}, types : SUBSET Types, page : Nat,
   shown : BOOLEAN, counted : BOOLEAN, total : Nat, missing : SUBSET Batches]

BatchRecord ==
  [sent : BOOLEAN, pending : SUBSET (1..MaxRows), at : 0..MaxTime]

\* How many groups a walk w has been shown, page by page.
Passed(w) == (IF w.shown THEN w.page ELSE w.page - 1) * PageSize

\* What holds of a walk w over `rows`: what it has not seen is there, the
\* count is no older than the page, and both leave room for what it misses.
WalkSound(w, rows) ==
  /\ w.missing \subseteq Groups(rows)
  /\ w.counted /\ ~w.shown => w.total = Total(rows)
  /\ \A g \in w.missing : Untied(g, rows) =>
       /\ Cardinality(Newer(g, rows)) >= Passed(w)
       /\ w.shown /\ w.counted => w.total > Passed(w)

IInv ==
  /\ TypeOK
  /\ batch \in [Batches -> BatchRecord]
  /\ walk \in WalkRecord
  /\ walk.stage = "none" => walk = NoWalk
  /\ walk.stage = "asked" => WalkSound(walk, Matching(walk.types))

----------------------------------------------------------------------------
(* Groups and their age. *)

\* A bounded set of numbers has a largest one: the least upper interval.
LEMMA MaxExists ==
  ASSUME NEW n \in Nat, NEW S \in SUBSET (0..n), S # {}
  PROVE  Max(S) \in S /\ \A x \in S : Max(S) >= x
<1> DEFINE F == {m..n : m \in S}
<1>1. IsWellFoundedOn(StrictSubsetOrdering(0..n), SUBSET (0..n))
  <2>1. IsFiniteSet(0..n)
    BY FS_Interval
  <2> QED
    BY <2>1, FS_StrictSubsetOrderingWellFounded, FS_FiniteSubsetsOfFinite
<1>2. F \subseteq SUBSET (0..n) /\ F # {}
  <2>1. \A m \in S : (m..n) \in SUBSET (0..n)
    OBVIOUS
  <2> QED
    BY <2>1
<1>3. PICK y \in F : \A z \in F : <<z, y>> \notin StrictSubsetOrdering(0..n)
  <2> HIDE DEF F
  <2> QED
    BY <1>1, <1>2, WFMin
<1>4. PICK m \in S : y = m..n
  BY <1>3
<1>5. ASSUME NEW x \in S, x > m PROVE FALSE
  <2>1. m \in 0..n /\ x \in 0..n
    OBVIOUS
  <2>2. m \in y /\ m \notin x..n
    BY <1>4, <1>5, <2>1
  <2>3. (x..n) \subseteq y /\ (x..n) # y /\ (x..n) \in F
    BY <1>4, <1>5, <2>1, <2>2
  <2> QED
    BY <1>2, <1>3, <2>3 DEF StrictSubsetOrdering
<1>6. \A x \in S : m >= x
  <2> SUFFICES ASSUME NEW x \in S PROVE m >= x
    OBVIOUS
  <2>1. m \in 0..n /\ x \in 0..n
    OBVIOUS
  <2> QED
    BY <1>5, <2>1
<1> QED
  BY <1>6 DEF Max

LEMMA LatestNat ==
  ASSUME NEW rows \in SUBSET Row, NEW g \in Groups(rows)
  PROVE  Latest(g, rows) \in Nat
<1> DEFINE S == {row.createdAt : row \in {r \in rows : r.group = g}}
<1>1. S \in SUBSET (0..MaxTime)
  BY DEF Row
<1>2. S # {}
  BY DEF Groups
<1>3. Max(S) \in S
  <2> HIDE DEF S
  <2> QED
    BY <1>1, <1>2, MaxExists, BoundsAssumption
<1>4. Max(S) \in 0..MaxTime
  BY <1>1, <1>3
<1> QED
  BY <1>4, BoundsAssumption DEF Latest

LEMMA GroupsCount ==
  ASSUME NEW rows \in SUBSET Row, NEW G \in SUBSET Groups(rows)
  PROVE  /\ Groups(rows) \in SUBSET Batches
         /\ IsFiniteSet(G)
         /\ Cardinality(G) \in Nat
         /\ Cardinality(G) <= Cardinality(Groups(rows))
         /\ Cardinality(Groups(rows)) \in 0..Cardinality(Batches)
<1>1. Groups(rows) \in SUBSET Batches
  BY DEF Groups, Row
<1>2. /\ IsFiniteSet(Groups(rows))
      /\ Cardinality(Groups(rows)) <= Cardinality(Batches)
  BY <1>1, BatchesAssumption, FS_Subset
<1>3. IsFiniteSet(G) /\ Cardinality(G) <= Cardinality(Groups(rows))
  BY <1>2, FS_Subset
<1>4. /\ Cardinality(G) \in Nat /\ Cardinality(Groups(rows)) \in Nat
      /\ Cardinality(Batches) \in Nat
  BY <1>2, <1>3, BatchesAssumption, FS_CardinalityType
<1> QED
  BY <1>1, <1>2, <1>3, <1>4

\* A group is not newer than itself.
LEMMA NewerCount ==
  ASSUME NEW rows \in SUBSET Row, NEW g \in Groups(rows)
  PROVE  /\ Newer(g, rows) \in SUBSET Groups(rows)
         /\ Cardinality(Newer(g, rows)) \in Nat
         /\ Total(rows) \in 0..Cardinality(Batches)
         /\ Cardinality(Newer(g, rows)) < Total(rows)
<1> DEFINE N == Newer(g, rows)
<1>1. N \in SUBSET Groups(rows) /\ g \notin N
  BY LatestNat DEF Newer
<1> HIDE DEF N
<1>2. IsFiniteSet(N) /\ Cardinality(N) \in Nat
  BY <1>1, GroupsCount
<1>3. Cardinality(N \union {g}) = Cardinality(N) + 1
  BY <1>1, <1>2, FS_AddElement
<1>4. (N \union {g}) \in SUBSET Groups(rows)
  BY <1>1
<1>5. /\ Cardinality(N \union {g}) <= Cardinality(Groups(rows))
      /\ Cardinality(Groups(rows)) \in 0..Cardinality(Batches)
  BY <1>4, GroupsCount
<1> QED
  BY <1>1, <1>2, <1>3, <1>5, BatchesAssumption, FS_CardinalityType DEF N, Total

\* A page that does not hold an untied group holds only newer ones, as
\* many as fit: if it began before this group, it ends before it.
LEMMA PageStep ==
  ASSUME NEW rows \in SUBSET Row, NEW page \in Nat \ {0},
         NEW shown \in Pages(page, rows),
         NEW g \in Groups(rows), g \notin shown, Untied(g, rows),
         Cardinality(Newer(g, rows)) >= (page - 1) * PageSize
  PROVE  Cardinality(Newer(g, rows)) >= page * PageSize
<1> DEFINE all == Groups(rows)
           N == Newer(g, rows)
           n == Cardinality(all)
<1>1. PICK q \in Nat : q = (page - 1) * PageSize
  BY PageSizeAssumption
<1>2. page * PageSize = q + PageSize /\ PageSize \in Nat \ {0}
  BY <1>1, PageSizeAssumption
<1>3. /\ Cardinality(N) \in Nat /\ Cardinality(N) < n /\ n \in Nat
      /\ N \in SUBSET all /\ IsFiniteSet(N)
  BY NewerCount, GroupsCount DEF Total
<1>4. q < n /\ Smaller(q, n) = q
  BY <1>1, <1>3 DEF Smaller
<1>5. PICK before \in kSubset(q, all \ shown) :
        /\ shown \in kSubset(Smaller(PageSize, n - q), all)
        /\ Newest(before, all, rows)
        /\ Newest(shown, all \ before, rows)
  BY <1>1, <1>4 DEF Pages
<1>6. /\ before \in SUBSET all /\ shown \in SUBSET all
      /\ before \intersect shown = {}
      /\ Cardinality(before) = q
      /\ Cardinality(shown) = Smaller(PageSize, n - q)
      /\ IsFiniteSet(before) /\ IsFiniteSet(shown)
  <2>1. before \in SUBSET all /\ shown \in SUBSET all
    BY <1>5 DEF kSubset
  <2> QED
    BY <1>5, <2>1, GroupsCount DEF kSubset
<1>7. \A h \in all : /\ Latest(h, rows) \in Nat
                     /\ h # g => Latest(h, rows) # Latest(g, rows)
  BY LatestNat DEF Untied
<1>8. g \notin before
  <2> SUFFICES ASSUME g \in before PROVE FALSE
    OBVIOUS
  <2>1. \A h \in all \ before : Latest(g, rows) >= Latest(h, rows)
    BY <1>5 DEF Newest
  <2>2. N \subseteq before
    BY <1>7, <2>1 DEF Newer
  <2>3. (N \union {g}) \in SUBSET before /\ g \notin N
    BY <1>7, <2>2 DEF Newer
  <2>4. Cardinality(N \union {g}) = Cardinality(N) + 1
    BY <1>3, <2>3, FS_AddElement
  <2>5. Cardinality(N \union {g}) <= q
    BY <1>6, <2>3, FS_Subset
  <2> QED
    BY <1>1, <1>3, <2>4, <2>5
<1>9. before \subseteq N /\ shown \subseteq N
  <2>1. \A h \in before : Latest(h, rows) >= Latest(g, rows) /\ h # g
    BY <1>5, <1>8 DEF Newest
  <2>2. \A h \in shown : Latest(h, rows) >= Latest(g, rows) /\ h # g
    BY <1>5, <1>8 DEF Newest
  <2> QED
    BY <1>6, <1>7, <2>1, <2>2 DEF Newer
<1>10. Cardinality(before \union shown) = q + Cardinality(shown)
  <2>1. Cardinality(before \intersect shown) = 0
    BY <1>6, FS_EmptySet
  <2>2. Cardinality(shown) \in Nat
    BY <1>6, FS_CardinalityType
  <2>3. Cardinality(before \union shown)
          = Cardinality(before) + Cardinality(shown)
              - Cardinality(before \intersect shown)
    BY <1>6, FS_Union
  <2> QED
    BY <1>6, <2>1, <2>2, <2>3
<1>11. Cardinality(before \union shown) <= Cardinality(N)
  <2>1. (before \union shown) \in SUBSET N
    BY <1>9
  <2> QED
    BY <1>3, <2>1, FS_Subset
<1>12. Cardinality(N) >= q + PageSize
  <2> HIDE DEF N, n, all
  <2> QED
    BY <1>2, <1>3, <1>4, <1>6, <1>10, <1>11 DEF Smaller
<1> QED
  BY <1>2, <1>12

\* A row of a new group makes no group older or newer, and unties none.
LEMMA NewGroup ==
  ASSUME NEW old \in SUBSET Row, NEW new \in SUBSET Row, old \subseteq new,
         \A r \in new \ old : r.group \notin Groups(old),
         NEW g \in Groups(old), Untied(g, new)
  PROVE  /\ g \in Groups(new)
         /\ Untied(g, old)
         /\ Cardinality(Newer(g, new)) >= Cardinality(Newer(g, old))
         /\ Cardinality(Newer(g, new)) \in Nat
         /\ Cardinality(Newer(g, old)) \in Nat
<1>1. Groups(old) \subseteq Groups(new)
  BY DEF Groups
<1>2. \A h \in Groups(old) : Latest(h, new) = Latest(h, old)
  <2> SUFFICES ASSUME NEW h \in Groups(old)
               PROVE  Latest(h, new) = Latest(h, old)
    OBVIOUS
  <2>1. {r \in new : r.group = h} = {r \in old : r.group = h}
    OBVIOUS
  <2> QED
    BY <2>1 DEF Latest
<1>3. Untied(g, old)
  BY <1>1, <1>2 DEF Untied
<1>4. Newer(g, old) \in SUBSET Newer(g, new)
  BY <1>1, <1>2 DEF Newer
<1>5. /\ IsFiniteSet(Newer(g, new))
      /\ Cardinality(Newer(g, new)) \in Nat
      /\ Cardinality(Newer(g, old)) \in Nat
  <2>1. Newer(g, new) \in SUBSET Groups(new)
    BY DEF Newer
  <2>2. Newer(g, old) \in SUBSET Groups(old)
    BY DEF Newer
  <2> QED
    BY <2>1, <2>2, GroupsCount
<1>6. Cardinality(Newer(g, old)) <= Cardinality(Newer(g, new))
  BY <1>4, <1>5, FS_Subset
<1> QED
  BY <1>1, <1>3, <1>5, <1>6

\* How far the last page is.
LEMMA TotalPagesBound ==
  ASSUME NEW total \in Nat, NEW page \in Nat \ {0}
  PROVE  /\ TotalPages(total) \in Nat
         /\ page >= TotalPages(total) => total <= page * PageSize
         /\ page < TotalPages(total) => page < total
<1> DEFINE d == (total + PageSize - 1) \div PageSize
<1>1. d \in Nat /\ d * PageSize <= total + PageSize - 1
                /\ total + PageSize - 1 < (d + 1) * PageSize
  BY PageSizeAssumption
<1> HIDE DEF d
<1>2. TotalPages(total) = IF d > 1 THEN d ELSE 1
  <2>1. {1, d} \in SUBSET (0..(d + 1)) /\ {1, d} # {}
    BY <1>1
  <2>2. Max({1, d}) \in {1, d} /\ \A x \in {1, d} : Max({1, d}) >= x
    <3>1. d + 1 \in Nat
      BY <1>1
    <3> QED
      BY <2>1, <3>1, MaxExists
  <2>3. TotalPages(total) = Max({1, d})
    BY DEF TotalPages, d
  <2> QED
    BY <1>1, <2>2, <2>3
<1>3. ASSUME page >= TotalPages(total) PROVE total <= page * PageSize
  <2>1. page >= d
    BY <1>1, <1>2, <1>3
  <2>2. PICK k \in Nat : page = d + k
    BY <1>1, <2>1
  <2>3. page * PageSize = d * PageSize + k * PageSize
    BY <1>1, <2>2, PageSizeAssumption
  <2>4. (d + 1) * PageSize = d * PageSize + PageSize
    BY <1>1, PageSizeAssumption
  <2>5. k * PageSize \in Nat /\ d * PageSize \in Nat
    BY <1>1, PageSizeAssumption
  <2> QED
    BY <1>1, <2>3, <2>4, <2>5, PageSizeAssumption
<1>4. ASSUME page < TotalPages(total) PROVE page < total
  <2>1. page < d
    BY <1>1, <1>2, <1>4
  <2>2. d <= total
    <3>1. PICK k \in Nat : PageSize = k + 1
      BY PageSizeAssumption
    <3>2. ASSUME d > total PROVE FALSE
      <4>1. PICK e \in Nat : d = total + 1 + e
        BY <1>1, <3>2
      <4>2. d * PageSize = (total + 1) * PageSize + e * PageSize
        BY <4>1, PageSizeAssumption
      <4>3. (total + 1) * PageSize = total * k + total + PageSize
        BY <3>1
      <4>4. e * PageSize \in Nat /\ total * k \in Nat
        BY <3>1, PageSizeAssumption
      <4> QED
        BY <1>1, <4>2, <4>3, <4>4, PageSizeAssumption
    <3> QED
      BY <1>1, <3>2
  <2> QED
    BY <1>1, <2>1, <2>2
<1> QED
  BY <1>1, <1>2, <1>3, <1>4

----------------------------------------------------------------------------
(* The steps. *)

LEMMA NoWalkType ==
  /\ NoWalk \in WalkRecord
  /\ NoWalk.stage = "none" /\ NoWalk.total = 0 /\ NoWalk.page = 1
  /\ NoWalk.missing = {}
BY DEF NoWalk, WalkRecord

LEMMA InitIInv == Init => IInv
<1> SUFFICES ASSUME Init PROVE IInv
  OBVIOUS
<1>1. Cardinality(Batches) \in Nat
  BY BatchesAssumption, FS_CardinalityType
<1>2. batch \in [Batches -> BatchRecord]
  BY BoundsAssumption DEF Init, Unsent, BatchRecord
<1>3. \A b \in Batches : batch[b].pending = {} /\ batch[b].at = 0
  BY DEF Init, Unsent
<1>4. TypeOK
  BY <1>1, <1>3, NoWalkType, BoundsAssumption DEF Init, TypeOK
<1> QED
  BY <1>2, <1>4, NoWalkType DEF Init, IInv

\* What every step starts from.
LEMMA Parts ==
  ASSUME IInv
  PROVE  /\ events \in SUBSET Row /\ now \in 0..MaxTime
         /\ batch \in [Batches -> BatchRecord]
         /\ \A b \in Batches : /\ batch[b].pending \subseteq 1..MaxRows
                               /\ batch[b].at \in 0..now
         /\ walk \in WalkRecord
         /\ walk.total \in 0..Cardinality(Batches)
         /\ walk.page \in 1..(Cardinality(Batches) + 1)
         /\ walk.stage = "none" => walk = NoWalk
         /\ walk.stage = "asked" => WalkSound(walk, Matching(walk.types))
         /\ Cardinality(Batches) \in Nat
         /\ Matching(walk.types) \in SUBSET Row
BY BatchesAssumption, FS_CardinalityType DEF IInv, TypeOK, Matching

\* A step of the walk, to w.
LEMMA WalkStep ==
  ASSUME IInv, UNCHANGED <<events, batch, now>>,
         walk' \in WalkRecord,
         walk'.total \in 0..Cardinality(Batches),
         walk'.page \in 1..(Cardinality(Batches) + 1),
         \/ walk' = NoWalk
         \/ /\ walk'.stage = "asked"
            /\ WalkSound(walk', Matching(walk'.types))
  PROVE  IInv'
<1>1. TypeOK'
  BY DEF IInv, TypeOK, WalkRecord
<1>2. Matching(walk.types)' = Matching(walk'.types)
  BY DEF Matching
<1>3. walk'.stage = "none" => walk' = NoWalk
  OBVIOUS
<1>4. walk'.stage = "asked" => WalkSound(walk', Matching(walk'.types))
  BY NoWalkType
<1> QED
  BY <1>1, <1>2, <1>3, <1>4 DEF IInv

\* The walk ends; NoWalk is one, too.
LEMMA WalkEnds ==
  ASSUME IInv
  PROVE  /\ 0 \in 0..Cardinality(Batches)
         /\ 1 \in 1..(Cardinality(Batches) + 1)
BY Parts

LEMMA StartWalkStep == IInv /\ StartWalk => IInv'
<1> SUFFICES ASSUME IInv, StartWalk PROVE IInv'
  OBVIOUS
<1>1. PICK types \in SUBSET Types \ {{}} :
        walk' = [NoWalk EXCEPT !.stage = "asked", !.types = types,
                               !.missing = Groups(Matching(types))]
  BY DEF StartWalk
<1> DEFINE rows == Matching(types)
<1>2. rows \in SUBSET Row /\ Groups(rows) \in SUBSET Batches
  BY Parts, GroupsCount DEF Matching
<1>3. /\ walk' = [stage |-> "asked", types |-> types, page |-> 1,
                  shown |-> FALSE, counted |-> FALSE, total |-> 0,
                  missing |-> Groups(rows)]
      /\ walk' \in WalkRecord
  BY <1>1, <1>2 DEF NoWalk, WalkRecord
<1> HIDE DEF rows
<1>4. WalkSound(walk', rows)
  <2>1. Passed(walk') = 0
    BY <1>3, PageSizeAssumption DEF Passed
  <2>2. \A g \in Groups(rows) : Cardinality(Newer(g, rows)) >= 0
    BY <1>2, NewerCount
  <2> QED
    BY <1>3, <2>1, <2>2 DEF WalkSound
<1>5. Matching(walk'.types) = rows
  BY <1>3 DEF rows
<1> QED
  BY <1>3, <1>4, <1>5, WalkStep, WalkEnds DEF StartWalk

LEMMA ReadPageStep == IInv /\ ReadPage => IInv'
<1> SUFFICES ASSUME IInv, ReadPage PROVE IInv'
  OBVIOUS
<1> DEFINE rows == Matching(walk.types)
<1>1. PICK shown \in Pages(walk.page, rows) :
        walk' = [walk EXCEPT !.shown = TRUE, !.missing = walk.missing \ shown]
  BY DEF ReadPage
<1>2. /\ rows \in SUBSET Row /\ WalkSound(walk, rows)
      /\ walk \in WalkRecord /\ ~walk.shown /\ walk.page \in Nat \ {0}
      /\ walk.stage = "asked"
  BY Parts DEF ReadPage
<1>3. /\ walk' \in WalkRecord /\ walk'.stage = "asked"
      /\ walk'.types = walk.types /\ walk'.page = walk.page
      /\ walk'.shown /\ walk'.counted = walk.counted
      /\ walk'.total = walk.total /\ walk'.missing = walk.missing \ shown
  BY <1>1, <1>2 DEF WalkRecord
<1>4. Matching(walk'.types) = rows
  BY <1>3
<1> HIDE DEF rows
<1>5. /\ Passed(walk) = (walk.page - 1) * PageSize
      /\ Passed(walk') = walk.page * PageSize
  BY <1>2, <1>3 DEF Passed
<1>6. ASSUME NEW g \in walk'.missing, Untied(g, rows)
      PROVE  /\ Cardinality(Newer(g, rows)) >= Passed(walk')
             /\ walk'.counted => walk'.total > Passed(walk')
  <2>1. g \in walk.missing /\ g \in Groups(rows) /\ g \notin shown
    BY <1>2, <1>3 DEF WalkSound
  <2>2. Cardinality(Newer(g, rows)) >= (walk.page - 1) * PageSize
    BY <1>2, <1>5, <1>6, <2>1 DEF WalkSound
  <2>3. Cardinality(Newer(g, rows)) >= walk.page * PageSize
    BY <1>2, <1>6, <2>1, <2>2, PageStep
  <2>4. walk.counted => walk.total = Total(rows)
    BY <1>2 DEF WalkSound
  <2>5. /\ Cardinality(Newer(g, rows)) < Total(rows)
        /\ Cardinality(Newer(g, rows)) \in Nat
        /\ Total(rows) \in Int
    BY <1>2, <2>1, NewerCount
  <2>6. walk.page * PageSize \in Int
    BY <1>2, PageSizeAssumption
  <2> QED
    BY <1>3, <1>5, <2>3, <2>4, <2>5, <2>6
<1>7. WalkSound(walk', rows)
  BY <1>2, <1>3, <1>6 DEF WalkSound
<1> QED
  BY <1>3, <1>4, <1>7, Parts, WalkStep DEF ReadPage

LEMMA ReadTotalStep == IInv /\ ReadTotal => IInv'
<1> SUFFICES ASSUME IInv, ReadTotal PROVE IInv'
  OBVIOUS
<1> DEFINE rows == Matching(walk.types)
<1>1. /\ rows \in SUBSET Row /\ WalkSound(walk, rows)
      /\ walk \in WalkRecord /\ walk.stage = "asked"
      /\ Cardinality(Batches) \in Nat
  BY Parts DEF ReadTotal
<1>2. walk' = [walk EXCEPT !.counted = TRUE, !.total = Total(rows)]
  BY DEF ReadTotal
<1> HIDE DEF rows
<1>3. Total(rows) \in 0..Cardinality(Batches) /\ Total(rows) \in Nat
  BY <1>1, GroupsCount DEF Total
<1>4. /\ walk' \in WalkRecord /\ walk'.stage = "asked"
      /\ walk'.types = walk.types /\ walk'.page = walk.page
      /\ walk'.shown = walk.shown /\ walk'.counted
      /\ walk'.total = Total(rows) /\ walk'.missing = walk.missing
  BY <1>1, <1>2, <1>3 DEF WalkRecord
<1>5. Passed(walk') = Passed(walk) /\ Passed(walk) \in Int
  <2>1. walk.page \in Int /\ walk.shown \in BOOLEAN
    BY <1>1 DEF WalkRecord
  <2> QED
    BY <1>4, <2>1, PageSizeAssumption DEF Passed
<1>6. ASSUME NEW g \in walk.missing, Untied(g, rows)
      PROVE  /\ Cardinality(Newer(g, rows)) >= Passed(walk)
             /\ Total(rows) > Passed(walk)
  <2>1. /\ Cardinality(Newer(g, rows)) >= Passed(walk)
        /\ g \in Groups(rows)
    BY <1>1, <1>6 DEF WalkSound
  <2>2. /\ Cardinality(Newer(g, rows)) < Total(rows)
        /\ Cardinality(Newer(g, rows)) \in Nat
    BY <1>1, <2>1, NewerCount
  <2> QED
    BY <1>3, <1>5, <2>1, <2>2
<1>7. WalkSound(walk', rows)
  BY <1>1, <1>4, <1>5, <1>6 DEF WalkSound
<1>8. Matching(walk'.types) = rows
  BY <1>4 DEF rows
<1> QED
  BY <1>3, <1>4, <1>7, <1>8, Parts, WalkStep DEF ReadTotal

LEMMA TurnPageStep == IInv /\ TurnPage => IInv'
<1> SUFFICES ASSUME IInv, TurnPage PROVE IInv'
  OBVIOUS
<1>1. CASE Through
  <2>1. walk' = NoWalk
    BY <1>1 DEF TurnPage
  <2> QED
    BY <2>1, NoWalkType, WalkEnds, WalkStep DEF TurnPage
<1>2. CASE ~Through
  <2> DEFINE rows == Matching(walk.types)
  <2>1. /\ rows \in SUBSET Row /\ WalkSound(walk, rows)
        /\ walk \in WalkRecord /\ walk.stage = "asked" /\ walk.shown
        /\ walk.page \in 1..(Cardinality(Batches) + 1)
        /\ walk.total \in 0..Cardinality(Batches)
        /\ Cardinality(Batches) \in Nat
    BY Parts DEF TurnPage, Answered
  <2>2. walk' = [walk EXCEPT !.page = walk.page + 1, !.shown = FALSE,
                             !.counted = FALSE, !.total = 0]
    BY <1>2 DEF TurnPage
  <2>3. /\ walk' \in WalkRecord /\ walk'.stage = "asked"
        /\ walk'.types = walk.types /\ walk'.page = walk.page + 1
        /\ ~walk'.shown /\ ~walk'.counted /\ walk'.total = 0
        /\ walk'.missing = walk.missing
    <3>1. walk.page + 1 \in Nat
      BY <2>1
    <3> HIDE DEF rows
    <3> QED
      BY <2>1, <2>2, <3>1 DEF WalkRecord
  <2>4. walk'.page \in 1..(Cardinality(Batches) + 1)
    <3>1. walk.page < TotalPages(walk.total)
      <4>1. ~(walk.page >= TotalPages(walk.total))
        BY <1>2 DEF Through, TurnPage
      <4>2. TotalPages(walk.total) \in Int
        BY <2>1, TotalPagesBound
      <4> QED
        BY <2>1, <4>1, <4>2
    <3>2. walk.page < walk.total
      BY <2>1, <3>1, TotalPagesBound
    <3> QED
      BY <2>1, <2>3, <3>2
  <2>5. Passed(walk') = Passed(walk)
    <3>1. (walk.page + 1) - 1 = walk.page
      BY <2>1
    <3> QED
      BY <2>1, <2>3, <3>1 DEF Passed
  <2> HIDE DEF rows
  <2>6. WalkSound(walk', rows)
    BY <2>1, <2>3, <2>5 DEF WalkSound
  <2>7. Matching(walk'.types) = rows
    BY <2>3 DEF rows
  <2> QED
    BY <2>1, <2>3, <2>4, <2>6, <2>7, WalkStep DEF TurnPage
<1> QED
  BY <1>1, <1>2

\* A step that leaves the walk alone or ends it.
LEMMA RowsStep ==
  ASSUME IInv, events' \in SUBSET Row,
         batch' \in [Batches -> BatchRecord],
         now' \in 0..MaxTime,
         \A b \in Batches : batch'[b].at \in 0..now',
         \/ walk' = NoWalk
         \/ /\ walk' = walk
            /\ walk.stage = "asked"
                 => WalkSound(walk, Matching(walk.types)')
  PROVE  IInv'
<1>1. \A b \in Batches : batch'[b].pending \subseteq 1..MaxRows
  BY DEF BatchRecord
<1>2. /\ walk' \in WalkRecord
      /\ walk'.total \in 0..Cardinality(Batches)
      /\ walk'.page \in 1..(Cardinality(Batches) + 1)
      /\ walk'.missing \subseteq Batches
  <2>1. CASE walk' = NoWalk
    BY <2>1, NoWalkType, WalkEnds
  <2>2. CASE walk' = walk
    BY <2>2, Parts DEF WalkRecord
  <2> QED
    BY <2>1, <2>2
<1>3. TypeOK'
  BY <1>1, <1>2 DEF TypeOK
<1>4. /\ walk'.stage = "none" => walk' = NoWalk
      /\ walk'.stage = "asked" => WalkSound(walk', Matching(walk.types)')
  BY NoWalkType, Parts
<1> QED
  BY <1>2, <1>3, <1>4 DEF IInv

\* Rows that are on their way stay well-formed.
LEMMA SettledType ==
  ASSUME IInv, NEW b \in Batches, NEW no, Settled(b, no)
  PROVE  /\ batch' \in [Batches -> BatchRecord]
         /\ \A c \in Batches : batch'[c].at \in 0..now
<1> DEFINE rest == batch[b].pending \ {no}
           new == IF rest = {} THEN Done
                              ELSE [batch[b] EXCEPT !.pending = rest]
<1>1. batch' = [batch EXCEPT ![b] = new]
  BY DEF Settled
<1>2. new \in BatchRecord /\ new.at \in 0..now
  <2>1. Done \in BatchRecord /\ Done.at = 0
    BY BoundsAssumption DEF Done, BatchRecord
  <2>2. [batch[b] EXCEPT !.pending = rest] \in BatchRecord
        /\ [batch[b] EXCEPT !.pending = rest].at = batch[b].at
    BY Parts DEF BatchRecord
  <2>3. now \in Nat
    BY Parts
  <2> HIDE DEF rest
  <2> QED
    BY <2>1, <2>2, <2>3, Parts
<1> HIDE DEF new
<1> QED
  BY <1>1, <1>2, Parts

\* A walk that goes on when rows of a new group arrive.
LEMMA WalkGoesOn ==
  ASSUME NEW w \in WalkRecord, NEW old \in SUBSET Row, NEW new \in SUBSET Row,
         WalkSound(w, old), old \subseteq new,
         \A r \in new \ old : r.group \notin Groups(old),
         new # old => ~(w.counted /\ ~w.shown)
  PROVE  WalkSound(w, new)
<1>1. w.missing \subseteq Groups(new)
  BY DEF WalkSound, Groups
<1>2. w.counted /\ ~w.shown => w.total = Total(new)
  BY DEF WalkSound
<1>3. ASSUME NEW g \in w.missing, Untied(g, new)
      PROVE  /\ Cardinality(Newer(g, new)) >= Passed(w)
             /\ w.shown /\ w.counted => w.total > Passed(w)
  <2>1. g \in Groups(old)
    BY DEF WalkSound
  <2>2. /\ Untied(g, old)
        /\ Cardinality(Newer(g, new)) >= Cardinality(Newer(g, old))
        /\ Cardinality(Newer(g, new)) \in Nat
        /\ Cardinality(Newer(g, old)) \in Nat
    BY <1>3, <2>1, NewGroup
  <2>3. /\ Cardinality(Newer(g, old)) >= Passed(w)
        /\ w.shown /\ w.counted => w.total > Passed(w)
    BY <2>2 DEF WalkSound
  <2>4. Passed(w) \in Int
    BY PageSizeAssumption DEF Passed, WalkRecord
  <2> QED
    BY <2>2, <2>3, <2>4
<1> QED
  BY <1>1, <1>2, <1>3 DEF WalkSound

LEMMA RecordStep ==
  ASSUME IInv, NEW b \in Batches, NEW no \in 1..MaxRows, Record(b, no)
  PROVE  IInv'
<1>1. PICK t \in batch[b].at..now :
        events' = events \union {[group |-> b, no |-> no, createdAt |-> t]}
  BY DEF Record
<1> DEFINE row == [group |-> b, no |-> no, createdAt |-> t]
<1>2. row \in Row
  <2>1. batch[b].at \in 0..now /\ now \in 0..MaxTime
    BY Parts
  <2>2. t \in 0..MaxTime
    BY <2>1, BoundsAssumption
  <2> QED
    BY <2>2 DEF Row
<1>3. events' \in SUBSET Row
  BY <1>1, <1>2, Parts
<1>4. /\ batch' \in [Batches -> BatchRecord]
      /\ \A c \in Batches : batch'[c].at \in 0..now
      /\ now' = now /\ now \in 0..MaxTime
  BY SettledType, Parts DEF Record
<1>5. CASE b \in Groups(events) \/ (walk.counted /\ ~walk.shown)
  <2>1. walk' = NoWalk
    BY <1>5 DEF Record, Disturbed
  <2> QED
    BY <1>3, <1>4, <2>1, RowsStep
<1>6. CASE ~(b \in Groups(events) \/ (walk.counted /\ ~walk.shown))
  <2>1. walk' = walk
    BY <1>6 DEF Record, Disturbed
  <2>2. ASSUME walk.stage = "asked"
        PROVE  WalkSound(walk, Matching(walk.types)')
    <3> DEFINE old == Matching(walk.types)
               new == Matching(walk.types)'
    <3>1. /\ old \in SUBSET Row /\ new \in SUBSET Row /\ old \subseteq new
          /\ \A r \in new \ old : r.group = b
      BY <1>1, <1>3, <2>1, Parts DEF Matching
    <3>2. b \notin Groups(old)
      BY <1>6 DEF Groups, Matching
    <3>3. WalkSound(walk, old) /\ walk \in WalkRecord
      BY <2>2, Parts
    <3> HIDE DEF old, new
    <3>4. WalkSound(walk, new)
      <4>1. PICK w, o, n : w = walk /\ o = old /\ n = new
        OBVIOUS
      <4>2. WalkSound(w, n)
        BY <1>6, <3>1, <3>2, <3>3, <4>1, WalkGoesOn
      <4> QED
        BY <4>1, <4>2
    <3> QED
      BY <3>4 DEF new
  <2> QED
    BY <1>3, <1>4, <2>1, <2>2, RowsStep
<1> QED
  BY <1>5, <1>6

\* A step that leaves the rows and the walk alone.
LEMMA QuietStep ==
  ASSUME IInv, UNCHANGED <<events, walk>>,
         batch' \in [Batches -> BatchRecord],
         now' \in 0..MaxTime,
         \A b \in Batches : batch'[b].at \in 0..now'
  PROVE  IInv'
<1>1. Matching(walk.types)' = Matching(walk.types)
  BY DEF Matching
<1> QED
  BY <1>1, Parts, RowsStep

LEMMA NextIInv == IInv /\ [Next]_vars => IInv'
<1> SUFFICES ASSUME IInv, [Next]_vars PROVE IInv'
  OBVIOUS
<1>1. CASE StartWalk \/ ReadPage \/ ReadTotal \/ TurnPage
  BY <1>1, StartWalkStep, ReadPageStep, ReadTotalStep, TurnPageStep
<1>2. ASSUME NEW b \in Batches, Send(b) PROVE IInv'
  <2>1. PICK n \in 1..MaxRows :
          batch' = [batch EXCEPT ![b] = [sent |-> TRUE, pending |-> 1..n,
                                         at |-> now]]
    BY <1>2 DEF Send
  <2>2. now \in 0..now /\ now \in 0..MaxTime /\ 1..n \subseteq 1..MaxRows
    BY Parts, BoundsAssumption
  <2>3. [sent |-> TRUE, pending |-> 1..n, at |-> now] \in BatchRecord
    BY <2>2 DEF BatchRecord
  <2>4. /\ batch' \in [Batches -> BatchRecord]
        /\ \A c \in Batches : batch'[c].at \in 0..now
    BY <2>1, <2>2, <2>3, Parts
  <2> QED
    BY <1>2, <2>2, <2>4, QuietStep DEF Send
<1>3. ASSUME NEW b \in Batches, NEW no \in 1..MaxRows, Record(b, no)
      PROVE  IInv'
  BY <1>3, RecordStep
<1>4. ASSUME NEW b \in Batches, NEW no \in 1..MaxRows, RecordFails(b, no)
      PROVE  IInv'
  BY <1>4, SettledType, QuietStep, Parts DEF RecordFails
<1>5. ASSUME NEW row \in events, HardDelete(row) PROVE IInv'
  <2>1. walk' = NoWalk /\ events' \in SUBSET Row
    BY <1>5, Parts DEF HardDelete, Disturbed
  <2> QED
    BY <1>5, <2>1, Parts, RowsStep DEF HardDelete
<1>6. CASE Tick
  <2>1. now' \in 0..MaxTime /\ \A b \in Batches : batch[b].at \in 0..now'
    BY <1>6, Parts, BoundsAssumption DEF Tick
  <2> QED
    BY <1>6, <2>1, Parts, QuietStep DEF Tick
<1>7. CASE UNCHANGED vars
  BY <1>7, Parts, QuietStep DEF vars
<1> QED
  BY <1>1, <1>2, <1>3, <1>4, <1>5, <1>6, <1>7 DEF Next

LEMMA Invariance == Spec => []IInv
BY InitIInv, NextIInv, PTL DEF Spec

----------------------------------------------------------------------------
(***************************************************************************)
(* The collection, the requests and the walk are well-formed, and neither  *)
(* a page number nor a total exceeds what the requests account for.        *)
(***************************************************************************)
THEOREM TypeCorrect == Spec => []TypeOK
<1>1. IInv => TypeOK
  BY DEF IInv
<1> QED
  BY <1>1, Invariance, PTL

(***************************************************************************)
(* listLogEvents: whoever goes through the pages until totalPages has seen *)
(* every group that was there at the start, whatever arrives meanwhile,    *)
(* but for the cases that the property names.                              *)
(***************************************************************************)
THEOREM WalksSeeEveryGroup == Spec => []WalkSeesAll
<1>1. IInv => WalkSeesAll
  <2> SUFFICES ASSUME IInv, Through, NEW g \in walk.missing,
                      Untied(g, Matching(walk.types))
               PROVE  FALSE
    BY DEF WalkSeesAll
  <2>1. /\ walk.stage = "asked" /\ walk.shown /\ walk.counted
        /\ walk.page >= TotalPages(walk.total)
    BY DEF Through, Answered
  <2>2. WalkSound(walk, Matching(walk.types))
    BY <2>1, Parts
  <2>3. walk.total > walk.page * PageSize
    BY <2>1, <2>2 DEF WalkSound, Passed
  <2>4. walk.total \in Nat /\ walk.page \in Nat \ {0}
    BY Parts
  <2>5. walk.total <= walk.page * PageSize
    BY <2>1, <2>4, TotalPagesBound
  <2>6. walk.page * PageSize \in Int
    BY <2>4, PageSizeAssumption
  <2> QED
    BY <2>3, <2>4, <2>5, <2>6
<1> QED
  BY <1>1, Invariance, PTL
===========================================================================
