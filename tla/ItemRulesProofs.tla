-------------------------- MODULE ItemRulesProofs --------------------------
(***************************************************************************)
(* Proofs about ItemRules for any admins, rule lists and permissions, and  *)
(* any number of saves. Those about saves rest on one fact: a revision     *)
(* identifies its rules, wherever a page or a handler keeps the two        *)
(* together. Those about resolution are by induction over the rule list,   *)
(* as an argument about the least turn at which a statement fails.         *)
(***************************************************************************)
EXTENDS ItemRules, FiniteSetTheorems, TLAPS

\* s is "no document" or one of the revisions in the history h.
KnownIn(s, h) ==
  s = NoRules \/ (s.revision \in 1..Len(h) /\ s.rules = h[s.revision])

\* What holds of a request r when the history is h.
Sound(r, h) ==
  /\ KnownIn(r.base, h)
  /\ KnownIn(r.previous, h)
  /\ r.stage \in {"actor", "read", "write", "audit"}
       => r.rules \in Snapshots /\ r.base.revision < MaxRevision
  /\ r.stage \in {"write", "audit"}
       => /\ r.base = r.previous
          /\ Required(r.previous.rules, r.rules) \subseteq r.granted
  /\ r.stage = "audit"
       => r.base.revision < Len(h) /\ h[r.base.revision + 1] = r.rules
  /\ r.stage = "bulkWrite" /\ Conflicts(r.previous.rules)
       => r.approves /\ r.base = r.previous

IInv ==
  /\ TypeOK
  /\ KnownIn(ruleSet, history)
  /\ \A a \in Admins : KnownIn(seen[a], history) /\ Sound(request[a], history)

----------------------------------------------------------------------------
(* Histories. *)

LEMMA KnownUnique ==
  ASSUME NEW h, NEW s \in RuleSets, NEW t \in RuleSets,
         KnownIn(s, h), KnownIn(t, h), s.revision = t.revision
  PROVE  s = t
<1>1. s.rules = t.rules
  BY DEF KnownIn, NoRules
<1> QED
  BY <1>1 DEF RuleSets

LEMMA KnownGrows ==
  ASSUME NEW h \in Seq(Snapshots), NEW x \in Snapshots,
         NEW s \in RuleSets, KnownIn(s, h)
  PROVE  KnownIn(s, Append(h, x))
BY DEF KnownIn, RuleSets

LEMMA SoundGrows ==
  ASSUME NEW h \in Seq(Snapshots), NEW x \in Snapshots,
         NEW r \in Request, Sound(r, h)
  PROVE  Sound(r, Append(h, x))
<1>1. r.base \in RuleSets /\ r.previous \in RuleSets
  BY DEF Request
<1>2. KnownIn(r.base, Append(h, x)) /\ KnownIn(r.previous, Append(h, x))
  BY <1>1, KnownGrows DEF Sound
<1>3. ASSUME r.base.revision < Len(h)
      PROVE  /\ r.base.revision < Len(Append(h, x))
             /\ Append(h, x)[r.base.revision + 1] = h[r.base.revision + 1]
  BY <1>1, <1>3 DEF RuleSets
<1> QED
  BY <1>2, <1>3 DEF Sound

LEMMA IdleSound ==
  ASSUME NEW h PROVE Idle \in Request /\ Sound(Idle, h)
BY MaxRevisionAssumption
DEF Idle, Request, Stages, RuleSets, NoRules, Sound, KnownIn

----------------------------------------------------------------------------
(* The steps. *)

\* A step that leaves the rules alone and replaces the request of a.
LEMMA RequestStep ==
  ASSUME IInv, NEW a \in Admins, NEW r \in Request,
         request' = [request EXCEPT ![a] = r], Sound(r, history),
         UNCHANGED <<ruleSet, history, permissions, seen>>
  PROVE  IInv'
<1>1. TypeOK'
  BY DEF IInv, TypeOK
<1>2. \A b \in Admins : request'[b] = IF b = a THEN r ELSE request[b]
  BY DEF IInv, TypeOK
<1> QED
  BY <1>1, <1>2 DEF IInv

LEMMA StoredStep ==
  ASSUME IInv, NEW a \in Admins, NEW r \in Request,
         request[a].stage = "write", Matches(a), Stored(a),
         request' = [request EXCEPT ![a] = r],
         Sound(r, history'), UNCHANGED <<permissions, seen>>
  PROVE  IInv'
<1>1. /\ request[a] \in Request /\ Sound(request[a], history)
      /\ history \in Seq(Snapshots) /\ Len(history) = ruleSet.revision
      /\ ruleSet \in RuleSets
  BY DEF IInv, TypeOK
<1>2. request[a].rules \in Snapshots /\ ruleSet.revision < MaxRevision
  BY <1>1 DEF Sound, Matches
<1>3. history' = Append(history, request[a].rules)
  BY DEF Stored
<1>4. /\ ruleSet' \in RuleSets
      /\ history' \in Seq(Snapshots)
      /\ Len(history') = ruleSet'.revision
      /\ KnownIn(ruleSet', history')
  BY <1>1, <1>2, <1>3, MaxRevisionAssumption DEF Stored, RuleSets, KnownIn
<1>5. TypeOK'
  BY <1>4 DEF IInv, TypeOK
<1>6. ASSUME NEW b \in Admins
      PROVE  KnownIn(seen'[b], history') /\ Sound(request'[b], history')
  <2>1. /\ seen[b] \in RuleSets /\ KnownIn(seen[b], history)
        /\ request[b] \in Request /\ Sound(request[b], history)
    BY DEF IInv, TypeOK
  <2>2. KnownIn(seen[b], history') /\ Sound(request[b], history')
    BY <1>1, <1>2, <1>3, <2>1, KnownGrows, SoundGrows
  <2>3. request'[b] = IF b = a THEN r ELSE request[b]
    BY DEF IInv, TypeOK
  <2> QED
    BY <2>2, <2>3
<1> QED
  BY <1>4, <1>5, <1>6 DEF IInv

LEMMA InitIInv == Init => IInv
<1> SUFFICES ASSUME Init PROVE IInv
  OBVIOUS
<1>1. NoRules \in RuleSets
  BY MaxRevisionAssumption DEF NoRules, RuleSets
<1>2. Len(history) = ruleSet.revision /\ history \in Seq(Snapshots)
  BY DEF Init, NoRules
<1>3. permissions \in [Admins -> SUBSET Permissions]
  BY GrantsAssumption DEF Init
<1>4. TypeOK
  BY <1>1, <1>2, <1>3, IdleSound DEF Init, TypeOK
<1>5. KnownIn(NoRules, history) /\ Sound(Idle, history)
  BY IdleSound DEF KnownIn
<1> QED
  BY <1>4, <1>5 DEF Init, IInv

\* What every step of admin a starts from.
LEMMA Known ==
  ASSUME IInv, NEW a \in Admins
  PROVE  /\ request[a] \in Request /\ Sound(request[a], history)
         /\ seen[a] \in RuleSets /\ KnownIn(seen[a], history)
         /\ ruleSet \in RuleSets /\ KnownIn(ruleSet, history)
         /\ history \in Seq(Snapshots) /\ Len(history) = ruleSet.revision
BY DEF IInv, TypeOK

\* A step that ends the request of a, and nothing else.
LEMMA EndsStep ==
  ASSUME IInv, NEW a \in Admins, Ends(a),
         UNCHANGED <<ruleSet, history, permissions, seen>>
  PROVE  IInv'
BY IdleSound, RequestStep DEF Ends

LEMMA SetPermissionsStep ==
  ASSUME IInv, NEW a \in Admins, SetPermissions(a) PROVE IInv'
<1>1. permissions' \in [Admins -> SUBSET Permissions]
  BY GrantsAssumption DEF IInv, TypeOK, SetPermissions
<1> QED
  BY <1>1 DEF IInv, TypeOK, SetPermissions

LEMMA ListItemRulesStep ==
  ASSUME IInv, NEW a \in Admins, ListItemRules(a) PROVE IInv'
<1>1. seen' \in [Admins -> RuleSets]
  BY DEF IInv, TypeOK, ListItemRules
<1>2. \A b \in Admins : seen'[b] = IF b = a THEN ruleSet ELSE seen[b]
  BY DEF IInv, TypeOK, ListItemRules
<1> QED
  BY <1>1, <1>2 DEF IInv, TypeOK, ListItemRules

LEMMA SaveItemRulesStep ==
  ASSUME IInv, NEW a \in Admins, SaveItemRules(a) PROVE IInv'
<1>1. PICK rules \in Snapshots :
        request' = [request EXCEPT ![a] =
                      [Idle EXCEPT !.stage = "actor", !.base = seen[a],
                                   !.rules = rules]]
  BY DEF SaveItemRules
<1> DEFINE r == [Idle EXCEPT !.stage = "actor", !.base = seen[a],
                             !.rules = rules]
<1>2. r \in Request
  <2>1. Idle \in Request /\ seen[a] \in RuleSets
    BY Known, IdleSound
  <2> QED
    BY <2>1 DEF Request, Stages
<1>3. Sound(r, history)
  BY Known DEF Idle, Sound, SaveItemRules, KnownIn
<1> QED
  BY <1>1, <1>2, <1>3, RequestStep DEF SaveItemRules

LEMMA LoadActorStep ==
  ASSUME IInv, NEW a \in Admins, LoadActor(a) PROVE IInv'
<1> DEFINE granted == IF a \in HeadAdmins THEN Permissions ELSE permissions[a]
           r == [request[a] EXCEPT !.stage = "read", !.granted = granted]
<1>1. granted \subseteq Permissions
  BY DEF IInv, TypeOK
<1>2. r \in Request
  BY <1>1, Known DEF Request, Stages
<1>3. Sound(r, history)
  BY Known DEF Sound, LoadActor, Request
<1>4. request' = [request EXCEPT ![a] = r]
  BY DEF LoadActor, IInv, TypeOK, Request
<1> QED
  BY <1>2, <1>3, <1>4, RequestStep DEF LoadActor

LEMMA ReadRulesStep ==
  ASSUME IInv, NEW a \in Admins, ReadRules(a) PROVE IInv'
<1>1. CASE Ends(a)
  BY <1>1, EndsStep DEF ReadRules
<1>2. CASE ~Ends(a)
  <2> DEFINE r == [request[a] EXCEPT !.stage = "write", !.previous = ruleSet]
  <2>1. /\ ruleSet.revision = request[a].base.revision
        /\ Permitted(a)
        /\ request' = [request EXCEPT ![a].stage = "write",
                                      ![a].previous = ruleSet]
    BY <1>2 DEF ReadRules
  <2>2. r \in Request
    BY Known DEF Request, Stages
  <2>3. request[a].base = ruleSet
    BY <2>1, Known, KnownUnique DEF Sound, Request
  <2>4. Sound(r, history)
    BY <2>1, <2>3, Known DEF Sound, ReadRules, Request, Permitted
  <2>5. request' = [request EXCEPT ![a] = r]
    BY <2>1 DEF IInv, TypeOK, Request
  <2> QED
    BY <2>2, <2>4, <2>5, RequestStep DEF ReadRules
<1> QED
  BY <1>1, <1>2

LEMMA WriteRulesStep ==
  ASSUME IInv, NEW a \in Admins, WriteRules(a) PROVE IInv'
<1> DEFINE r == [request[a] EXCEPT !.stage = "audit"]
<1>1. r \in Request
  BY Known DEF Request, Stages
<1>2. /\ request[a].stage = "write" /\ Matches(a) /\ Stored(a)
      /\ UNCHANGED <<permissions, seen>>
  BY DEF WriteRules
<1>3. request[a].rules \in Snapshots /\ request[a].base = request[a].previous
  BY <1>2, Known DEF Sound
<1>4. history' = Append(history, request[a].rules)
  BY <1>2 DEF Stored
<1>5. Sound(request[a], history')
  BY <1>3, <1>4, Known, SoundGrows
<1>6. Len(history) = request[a].base.revision
  BY <1>2, <1>3, Known DEF Matches
<1>7. /\ request[a].base.revision < Len(history')
      /\ history'[request[a].base.revision + 1] = request[a].rules
  BY <1>3, <1>4, <1>6, Known
<1>8. Sound(r, history')
  BY <1>2, <1>5, <1>7, Known DEF Sound, Request
<1>9. request' = [request EXCEPT ![a] = r]
  BY DEF WriteRules, IInv, TypeOK, Request
<1> QED
  BY <1>1, <1>2, <1>8, <1>9, StoredStep

LEMMA AuditStep ==
  ASSUME IInv, NEW a \in Admins, Audit(a) PROVE IInv'
<1> DEFINE s == [revision |-> request[a].base.revision + 1,
                 rules |-> request[a].rules]
<1>1. s \in RuleSets
  BY Known, MaxRevisionAssumption DEF Audit, Sound, Request, RuleSets
<1>2. KnownIn(s, history)
  BY Known DEF Audit, Sound, KnownIn, Request, RuleSets
<1>3. \A b \in Admins : /\ seen'[b] = IF b = a THEN s ELSE seen[b]
                        /\ request'[b] = IF b = a THEN Idle ELSE request[b]
  BY DEF Audit, Ends, IInv, TypeOK
<1>4. TypeOK'
  BY <1>1, IdleSound DEF Audit, Ends, IInv, TypeOK
<1>5. ASSUME NEW b \in Admins
      PROVE  KnownIn(seen'[b], history) /\ Sound(request'[b], history)
  BY <1>2, <1>3, Known, IdleSound
<1> QED
  BY <1>4, <1>5 DEF IInv, Audit

LEMMA BulkUpdateItemsStep ==
  ASSUME IInv, NEW a \in Admins, BulkUpdateItems(a) PROVE IInv'
<1>1. PICK approves \in BOOLEAN :
        request' = [request EXCEPT ![a] =
                      [Idle EXCEPT !.stage = "bulkRead", !.base = seen[a],
                                   !.approves = approves]]
  BY DEF BulkUpdateItems
<1> DEFINE r == [Idle EXCEPT !.stage = "bulkRead", !.base = seen[a],
                             !.approves = approves]
<1>2. r \in Request
  <2>1. Idle \in Request /\ seen[a] \in RuleSets
    BY Known, IdleSound
  <2> QED
    BY <2>1 DEF Request, Stages
<1>3. Sound(r, history)
  BY Known DEF Idle, Sound, KnownIn
<1> QED
  BY <1>1, <1>2, <1>3, RequestStep DEF BulkUpdateItems

LEMMA BulkReadsRulesStep ==
  ASSUME IInv, NEW a \in Admins, BulkReadsRules(a) PROVE IInv'
<1>1. CASE Ends(a)
  BY <1>1, EndsStep DEF BulkReadsRules
<1>2. CASE ~Ends(a)
  <2> DEFINE r == [request[a] EXCEPT !.stage = "bulkWrite",
                                     !.previous = ruleSet]
  <2>1. /\ Conflicts(ruleSet.rules) => Approved(a)
        /\ request' = [request EXCEPT ![a].stage = "bulkWrite",
                                      ![a].previous = ruleSet]
    BY <1>2 DEF BulkReadsRules
  <2>2. r \in Request
    BY Known DEF Request, Stages
  <2>3. Conflicts(ruleSet.rules)
          => request[a].approves /\ request[a].base = ruleSet
    BY <2>1, Known, KnownUnique DEF Approved, Sound, Request
  <2>4. Sound(r, history)
    BY <2>3, Known DEF Sound, Request
  <2>5. request' = [request EXCEPT ![a] = r]
    BY <2>1 DEF IInv, TypeOK, Request
  <2> QED
    BY <2>2, <2>4, <2>5, RequestStep DEF BulkReadsRules
<1> QED
  BY <1>1, <1>2

LEMMA DatabaseFailsStep ==
  ASSUME IInv, NEW a \in Admins, DatabaseFails(a) PROVE IInv'
<1>1. CASE UNCHANGED <<ruleSet, history>>
  BY <1>1, EndsStep DEF DatabaseFails
<1>2. CASE request[a].stage = "write" /\ Matches(a) /\ Stored(a)
  BY <1>2, IdleSound, StoredStep DEF DatabaseFails, Ends
<1> QED
  BY <1>1, <1>2 DEF DatabaseFails

LEMMA NextIInv == IInv /\ [Next]_vars => IInv'
<1> SUFFICES ASSUME IInv, [Next]_vars PROVE IInv'
  OBVIOUS
<1>1. CASE UNCHANGED vars
  BY <1>1 DEF vars, IInv, TypeOK
<1>2. CASE Next
  <2>1. PICK a \in Admins :
          \/ SetPermissions(a) \/ ListItemRules(a)
          \/ SaveItemRules(a) \/ LoadActor(a) \/ ReadRules(a)
          \/ WriteRules(a) \/ WriteConflicts(a) \/ Audit(a)
          \/ BulkUpdateItems(a) \/ BulkReadsRules(a) \/ BulkWrites(a)
          \/ DatabaseFails(a)
    BY <1>2 DEF Next
  <2>2. CASE WriteConflicts(a) \/ BulkWrites(a)
    BY <2>2, EndsStep DEF WriteConflicts, BulkWrites
  <2> QED
    BY <2>1, <2>2, SetPermissionsStep, ListItemRulesStep, SaveItemRulesStep,
       LoadActorStep, ReadRulesStep, WriteRulesStep, AuditStep,
       BulkUpdateItemsStep, BulkReadsRulesStep, DatabaseFailsStep
<1> QED
  BY <1>1, <1>2

LEMMA Invariance == Spec => []IInv
BY InitIInv, NextIInv, PTL DEF Spec

----------------------------------------------------------------------------
(* The results. *)

\* Whoever replaces the rules is writing them, from the rules as they are.
LEMMA WriterStep ==
  ASSUME IInv, [Next]_vars, ruleSet' # ruleSet
  PROVE  \E a \in Admins :
           /\ request'[a] # request[a]
           /\ request[a].base = ruleSet
           /\ ruleSet'.rules = request[a].rules
           /\ Required(ruleSet.rules, ruleSet'.rules) \subseteq request[a].granted
<1>1. PICK a \in Admins : WriteRules(a) \/ DatabaseFails(a)
  BY DEF Next, vars, SetPermissions, ListItemRules, SaveItemRules, LoadActor,
         ReadRules, WriteConflicts, Audit, BulkUpdateItems, BulkReadsRules,
         BulkWrites
<1>2. request[a].stage = "write" /\ Matches(a) /\ Stored(a)
  BY <1>1 DEF WriteRules, DatabaseFails
<1>3. request'[a].stage # "write"
  BY <1>1 DEF WriteRules, DatabaseFails, Ends, Idle, IInv, TypeOK, Request
<1>4. /\ request[a].base = request[a].previous
      /\ Required(request[a].previous.rules, request[a].rules)
           \subseteq request[a].granted
  BY <1>2, Known DEF Sound
<1>5. request[a].previous = ruleSet
  BY <1>2, Known, KnownUnique DEF Matches, Sound, Request
<1>6. ruleSet'.rules = request[a].rules
  BY <1>2 DEF Stored
<1> QED
  BY <1>2, <1>3, <1>4, <1>5, <1>6

(***************************************************************************)
(* Every document, page and request stays one the types describe, and the  *)
(* revision counts the saves (ItemRuleSet.ts and saveItemRules).           *)
(***************************************************************************)
THEOREM TypeCorrect == Spec => []TypeOK
<1>1. IInv => TypeOK
  BY DEF IInv
<1> QED
  BY <1>1, Invariance, PTL

(***************************************************************************)
(* However many admins save at once, the revision filter of saveItemRules  *)
(* lets a list replace only the rules it was edited from.                  *)
(***************************************************************************)
THEOREM NoSaveIsLost == Spec => NoLostSave
<1>1. IInv /\ [Next]_vars =>
        [ruleSet' # ruleSet =>
           \E a \in Admins : /\ request'[a] # request[a]
                             /\ request[a].base = ruleSet
                             /\ ruleSet'.rules = request[a].rules]_vars
  BY WriterStep
<1> QED
  BY <1>1, Invariance, PTL DEF Spec, NoLostSave

(***************************************************************************)
(* The permissions saveItemRules checked against the rules it read cover   *)
(* the change it makes to the rules as they are when it writes.            *)
(***************************************************************************)
THEOREM PermissionsAreCovered == Spec => PermissionsCoverChange
<1>1. IInv /\ [Next]_vars =>
        [ruleSet' # ruleSet =>
           \E a \in Admins :
             /\ request'[a] # request[a]
             /\ Required(ruleSet.rules, ruleSet'.rules)
                  \subseteq request[a].granted]_vars
  BY WriterStep
<1> QED
  BY <1>1, Invariance, PTL DEF Spec, PermissionsCoverChange

(***************************************************************************)
(* The audit events of a save describe a pair of consecutive revisions,    *)
(* whatever was saved since by others.                                     *)
(***************************************************************************)
THEOREM AuditIsTrue == Spec => []AuditTellsChange
<1>1. IInv => AuditTellsChange
  <2> SUFFICES ASSUME IInv, NEW a \in Admins, request[a].stage = "audit"
               PROVE  LET r == request[a].previous.revision
                          before == IF r = 0 THEN <<>> ELSE history[r]
                      IN  /\ r < Len(history)
                          /\ Events(request[a].previous.rules, request[a].rules)
                               = Events(before, history[r + 1])
    BY DEF AuditTellsChange
  <2> DEFINE r == request[a].previous.revision
             before == IF r = 0 THEN <<>> ELSE history[r]
  <2>1. r < Len(history) /\ history[r + 1] = request[a].rules
    BY Known DEF Sound
  <2>2. request[a].previous.rules = before
    BY Known DEF Sound, KnownIn, NoRules
  <2> QED
    BY <2>1, <2>2
<1> QED
  BY <1>1, Invariance, PTL

(***************************************************************************)
(* bulkUpdateItems contradicts only rules the approving admin was shown.   *)
(***************************************************************************)
THEOREM ApprovalsAreKnowing == Spec => []ApprovedKnowingly
<1>1. IInv => ApprovedKnowingly
  BY Known DEF ApprovedKnowingly, Sound
<1> QED
  BY <1>1, Invariance, PTL

----------------------------------------------------------------------------
(* Induction. Nat is well founded: a statement that fails for some number  *)
(* fails for a least one.                                                  *)

LEMMA LeastNumber ==
  ASSUME NEW T, T \subseteq Nat, T # {}
  PROVE  \E n \in T : \A m \in T : n <= m
<1>1. PICK t \in T : TRUE
  OBVIOUS
<1> DEFINE S == {s \in {0..m : m \in T} : s \subseteq 0..t}
<1>2. t \in Nat /\ IsFiniteSet(0..t) /\ (0..t) \in S
  <2>1. t \in Nat
    OBVIOUS
  <2>2. IsFiniteSet(0..t)
    BY <2>1, FS_Interval
  <2> QED
    BY <2>1, <2>2
<1>3. IsWellFoundedOn(StrictSubsetOrdering(0..t), SUBSET (0..t))
  BY <1>2, FS_StrictSubsetOrderingWellFounded, FS_FiniteSubsetsOfFinite
<1>4. S \subseteq SUBSET (0..t) /\ S # {}
  BY <1>2
<1>5. PICK x \in S : \A y \in S : <<y, x>> \notin StrictSubsetOrdering(0..t)
  <2> HIDE DEF S
  <2> QED
    BY <1>3, <1>4, WFMin
<1>6. PICK n \in T : x = 0..n
  BY <1>5
<1>7. ASSUME NEW m \in T, m < n PROVE FALSE
  <2>1. m \in Nat /\ n \in Nat /\ n \in x /\ n \notin 0..m
    BY <1>6, <1>7
  <2>2. (0..m) \subseteq x /\ (0..m) # x /\ (0..m) \in S
    BY <1>5, <1>6, <1>7, <2>1
  <2> QED
    BY <1>5, <2>2 DEF StrictSubsetOrdering
<1>8. \A m \in T : n <= m
  <2> SUFFICES ASSUME NEW m \in T PROVE n <= m
    OBVIOUS
  <2>1. m \in Nat /\ n \in Nat
    OBVIOUS
  <2> QED
    BY <1>7, <2>1
<1> QED
  BY <1>8

----------------------------------------------------------------------------
(* Resolution. *)

\* s[0], ..., s[n]: the states of the loop up to the turn of rule n.
Unrolls(s, n, item, edit, rules) ==
  s = [k \in 0..n |-> IF k = 0 THEN Start(item, edit)
                         ELSE Turn(s[k - 1], rules[k])]

LEMMA AfterExists ==
  ASSUME NEW item, NEW edit, NEW rules \in Seq(Rules)
  PROVE  \A n \in 0..Len(rules) : \E s : Unrolls(s, n, item, edit, rules)
<1> USE DEF Unrolls
<1> DEFINE Is(s, n) == Unrolls(s, n, item, edit, rules)
<1> DEFINE T == {n \in 0..Len(rules) : ~\E s : Is(s, n)}
<1> SUFFICES ASSUME T # {} PROVE FALSE
  OBVIOUS
<1>1. PICK n \in T : \A m \in T : n <= m
  <2>1. T \subseteq Nat
    OBVIOUS
  <2> HIDE DEF T
  <2> QED
    BY <2>1, LeastNumber
<1>2. n # 0
  <2> DEFINE s == [k \in 0..0 |-> Start(item, edit)]
  <2>1. Is(s, 0)
    OBVIOUS
  <2> QED
    BY <2>1
<1>3. n \in 1..Len(rules) /\ n - 1 \in 0..Len(rules) /\ n - 1 \notin T
  BY <1>1, <1>2
<1>4. PICK s : Is(s, n - 1)
  BY <1>3
<1> DEFINE t == [k \in 0..n |-> IF k = n THEN Turn(s[n - 1], rules[n])
                                         ELSE s[k]]
<1>5. ASSUME NEW k \in 0..n
      PROVE  t[k] = IF k = 0 THEN Start(item, edit)
                             ELSE Turn(t[k - 1], rules[k])
  <2>1. CASE k = n
    BY <1>3, <2>1
  <2>2. CASE k < n
    <3>1. s[k] = IF k = 0 THEN Start(item, edit) ELSE Turn(s[k - 1], rules[k])
      BY <1>3, <1>4, <2>2
    <3>2. t[k] = s[k] /\ (k # 0 => t[k - 1] = s[k - 1])
      BY <1>3, <2>2
    <3> QED
      BY <3>1, <3>2
  <2> QED
    BY <1>3, <2>1, <2>2
<1>6. Is(t, n)
  BY <1>5
<1> QED
  BY <1>6

\* What a recursive function is defined by.
LEMMA AfterSteps ==
  ASSUME NEW item, NEW edit, NEW rules \in Seq(Rules)
  PROVE  /\ After(item, edit, rules)[0] = Start(item, edit)
         /\ \A k \in 1..Len(rules) :
              After(item, edit, rules)[k]
                = Turn(After(item, edit, rules)[k - 1], rules[k])
<1> DEFINE s == After(item, edit, rules)
<1>1. s = [k \in 0..Len(rules) |-> IF k = 0 THEN Start(item, edit)
                                     ELSE Turn(s[k - 1], rules[k])]
  <2>1. Len(rules) \in 0..Len(rules)
    OBVIOUS
  <2>2. \E t : Unrolls(t, Len(rules), item, edit, rules)
    BY <2>1, AfterExists
  <2> QED
    BY <2>2 DEF After, Unrolls
<1> HIDE DEF s
<1>2. /\ s[0] = Start(item, edit)
      /\ \A k \in 1..Len(rules) : s[k] = Turn(s[k - 1], rules[k])
  BY <1>1
<1> QED
  BY <1>2 DEF s

\* Claims: the rules that a claimant is the first of.
Claims(rules, applied, k, f) ==
  {j \in applied : j < k /\ f \in DOMAIN rules[j].actions}

LEMMA ClaimantIsFirst ==
  ASSUME NEW rules \in Seq(Rules), NEW applied \in SUBSET DOMAIN rules,
         NEW k \in Nat, NEW f
  PROVE  LET j == Claimant(rules, applied, k, f)
             claims == Claims(rules, applied, k, f)
         IN  \/ j = 0 /\ claims = {}
             \/ /\ j \in claims /\ j \in 1..Len(rules)
                /\ \A i \in claims : j <= i
<1> DEFINE claims == Claims(rules, applied, k, f)
<1>1. claims \subseteq 1..Len(rules) /\ claims \subseteq Nat
  BY DEF Claims
<1>2. CASE claims = {}
  BY <1>2 DEF Claimant, Claims
<1>3. CASE claims # {}
  <2>1. \E j \in claims : \A i \in claims : j <= i
    <3> HIDE DEF claims
    <3> QED
      BY <1>1, <1>3, LeastNumber
  <2>2. Claimant(rules, applied, k, f)
          = CHOOSE j \in claims : \A i \in claims : j <= i
    BY <1>3 DEF Claimant, Claims
  <2> QED
    BY <1>1, <2>1, <2>2
<1> QED
  BY <1>2, <1>3

\* One more rule claims a field if it applies, sets it and is the first.
LEMMA ClaimantSteps ==
  ASSUME NEW rules \in Seq(Rules), NEW applied \in SUBSET DOMAIN rules,
         NEW k \in 1..Len(rules), NEW f
  PROVE  /\ Claimant(rules, applied, 1, f) = 0
         /\ Claimant(rules, applied, k + 1, f)
              = IF Claimant(rules, applied, k, f) # 0
                  THEN Claimant(rules, applied, k, f)
                  ELSE IF k \in applied /\ f \in DOMAIN rules[k].actions
                         THEN k ELSE 0
<1> DEFINE C(m) == Claimant(rules, applied, m, f)
<1> DEFINE S(m) == Claims(rules, applied, m, f)
<1>1. applied \subseteq 1..Len(rules) /\ Len(rules) \in Nat
  OBVIOUS
<1>2. S(1) = {}
  BY <1>1 DEF Claims
<1>3. S(k + 1) = S(k) \union
        (IF k \in applied /\ f \in DOMAIN rules[k].actions THEN {k} ELSE {})
  BY <1>1 DEF Claims
<1>4. \A j \in S(k) : j \in 1..Len(rules) /\ j < k
  BY <1>1 DEF Claims
<1>5. \A m \in {1, k, k + 1} :
        \/ C(m) = 0 /\ S(m) = {}
        \/ C(m) \in S(m) /\ C(m) \in 1..Len(rules) /\ \A i \in S(m) : C(m) <= i
  BY ClaimantIsFirst
<1> HIDE DEF C, S
<1>6. C(1) = 0
  BY <1>2, <1>5
<1>7. C(k + 1) = IF C(k) # 0 THEN C(k)
                   ELSE IF k \in applied /\ f \in DOMAIN rules[k].actions
                          THEN k ELSE 0
  <2>1. CASE C(k) # 0
    <3>1. C(k) \in S(k + 1) /\ C(k) < k /\ \A i \in S(k + 1) : C(k) <= i
      BY <1>3, <1>4, <1>5, <2>1
    <3> QED
      BY <1>3, <1>4, <1>5, <3>1, <2>1
  <2>2. CASE C(k) = 0
    <3>1. S(k) = {}
      BY <1>5, <2>2
    <3> QED
      BY <1>3, <1>5, <2>2, <3>1
  <2> QED
    BY <2>1, <2>2
<1> QED
  BY <1>6, <1>7 DEF C

\* The rules of the loop that applied when it was their turn.
Fired(item, edit, rules) ==
  {k \in DOMAIN rules :
     Applies(After(item, edit, rules)[k - 1].item, rules[k])}

\* A state of the loop after the turns before rule k, if the rules in
\* `applied` are those that applied: it is what FirstRuleWins says.
Stands(s, item, edit, rules, applied, k) ==
  LET first(f) == Claimant(rules, applied, k, f)
  IN  /\ s.item = SeenBy(item, edit, rules, applied, k)
      /\ s.sources =
           [f \in {g \in Fields : first(g) # 0} |-> rules[first(f)].id]
      /\ s.result = [f \in DOMAIN edit \union {g \in Fields : first(g) # 0} |->
                       IF first(f) = 0 THEN edit[f]
                                       ELSE rules[first(f)].actions[f]]

LEMMA EditedType ==
  ASSUME NEW item \in Contents, NEW edit \in Edits
  PROVE  /\ Edited(item, edit) \in Contents
         /\ DOMAIN edit \subseteq Fields
BY DEF Edited, Contents, Edits

LEMMA StartStands ==
  ASSUME NEW item \in Contents, NEW edit \in Edits, NEW rules \in Seq(Rules),
         NEW applied \in SUBSET DOMAIN rules,
         \A f \in Fields : Claimant(rules, applied, 1, f) = 0
  PROVE  Stands(Start(item, edit), item, edit, rules, applied, 1)
<1> DEFINE s == Start(item, edit)
<1>0. {g \in Fields : Claimant(rules, applied, 1, g) # 0} = {}
  OBVIOUS
<1>1. s.item = SeenBy(item, edit, rules, applied, 1)
  <2>1. Edited(item, edit) = [f \in Fields |-> Edited(item, edit)[f]]
    BY EditedType DEF Contents
  <2> QED
    BY <2>1 DEF Start, SeenBy
<1>2. s.sources = [f \in {} |-> rules[Claimant(rules, applied, 1, f)].id]
  BY DEF Start
<1>3. s.result = [f \in DOMAIN edit |->
                    IF Claimant(rules, applied, 1, f) = 0 THEN edit[f] ELSE
                      rules[Claimant(rules, applied, 1, f)].actions[f]]
  <2>1. edit = [f \in DOMAIN edit |-> edit[f]] /\ DOMAIN edit \subseteq Fields
    BY DEF Edits
  <2> QED
    BY <2>1 DEF Start
<1>4. DOMAIN edit \union {} = DOMAIN edit
  OBVIOUS
<1> QED
  BY <1>0, <1>1, <1>2, <1>3, <1>4 DEF Stands

LEMMA TurnStands ==
  ASSUME NEW item \in Contents, NEW edit \in Edits, NEW rules \in Seq(Rules),
         NEW applied \in SUBSET DOMAIN rules, NEW k \in 1..Len(rules), NEW s,
         Stands(s, item, edit, rules, applied, k),
         k \in applied <=> Applies(s.item, rules[k])
  PROVE  Stands(Turn(s, rules[k]), item, edit, rules, applied, k + 1)
<1> DEFINE first(f) == Claimant(rules, applied, k, f)
           next(f) == Claimant(rules, applied, k + 1, f)
           rule == rules[k]
           won == {f \in Fields : first(f) # 0}
           winning == {f \in Fields : next(f) # 0}
           t == Turn(s, rule)
<1>1. /\ DOMAIN rule.actions \subseteq Fields
      /\ DOMAIN edit \subseteq Fields
  <2>1. rule \in Rules
    OBVIOUS
  <2>2. rule.actions \in Edits
    BY <2>1 DEF Rules
  <2> HIDE DEF rule
  <2> QED
    BY <2>2 DEF Edits
<1>2. \A f \in Fields :
        next(f) = IF first(f) # 0 THEN first(f)
                    ELSE IF k \in applied /\ f \in DOMAIN rule.actions
                           THEN k ELSE 0
  BY ClaimantSteps
<1>3. /\ s.item = SeenBy(item, edit, rules, applied, k)
      /\ s.sources = [f \in won |-> rules[first(f)].id]
      /\ s.result = [f \in DOMAIN edit \union won |->
                       IF first(f) = 0 THEN edit[f]
                                       ELSE rules[first(f)].actions[f]]
  BY DEF Stands
<1> HIDE DEF first, next
<1>4. CASE k \notin applied
  <2>1. t = s
    BY <1>4 DEF Turn
  <2>2. \A f \in Fields : next(f) = first(f)
    BY <1>2, <1>4
  <2>3. winning = won /\ won \subseteq Fields
    BY <2>2
  <2>4. s.item = SeenBy(item, edit, rules, applied, k + 1)
    BY <1>3, <2>2 DEF SeenBy, first, next
  <2>5. s.sources = [f \in winning |-> rules[next(f)].id]
    BY <1>3, <2>2, <2>3
  <2>6. s.result = [f \in DOMAIN edit \union winning |->
                      IF next(f) = 0 THEN edit[f]
                                     ELSE rules[next(f)].actions[f]]
    BY <1>1, <1>3, <2>2, <2>3
  <2> QED
    BY <2>1, <2>4, <2>5, <2>6 DEF Stands, next
<1>5. CASE k \in applied
  <2> DEFINE new == DOMAIN rule.actions \ won
             sets == Only(rule.actions, new)
  <2>1. DOMAIN s.sources = won /\ DOMAIN s.result = DOMAIN edit \union won
    BY <1>3
  <2>2. t = [item    |-> Edited(s.item, sets),
             result  |-> Over(sets, s.result),
             sources |-> Over([f \in DOMAIN sets |-> rule.id], s.sources)]
    BY <1>5, <2>1 DEF Turn, Unclaimed
  <2>3. DOMAIN sets = new /\ \A f \in new : sets[f] = rule.actions[f]
    BY DEF Only
  <2>4. \A f \in Fields :
          /\ f \in won <=> first(f) # 0
          /\ f \in new => first(f) = 0 /\ next(f) = k /\ next(f) # 0
          /\ f \notin new => next(f) = first(f)
    <3> SUFFICES ASSUME NEW f \in Fields
                 PROVE  /\ f \in won <=> first(f) # 0
                        /\ f \in new => /\ first(f) = 0 /\ next(f) = k
                                        /\ next(f) # 0
                        /\ f \notin new => next(f) = first(f)
      OBVIOUS
    <3>1. k # 0 /\ (f \in won <=> first(f) # 0)
      OBVIOUS
    <3> QED
      BY <1>2, <1>5, <3>1
  <2>5. winning = won \union new /\ new \subseteq Fields /\ won \subseteq Fields
    BY <1>1, <2>4
  <2>  HIDE DEF t, sets, new, won, winning
  <2>6. t.item = SeenBy(item, edit, rules, applied, k + 1)
    <3>1. DOMAIN s.item = Fields
      BY <1>3 DEF SeenBy
    <3>2. t.item = [f \in Fields |-> IF f \in new THEN sets[f] ELSE s.item[f]]
      BY <2>2, <2>3, <3>1 DEF Edited
    <3>3. \A f \in Fields :
            s.item[f] = IF first(f) = 0 THEN Edited(item, edit)[f]
                                        ELSE rules[first(f)].actions[f]
      BY <1>3 DEF SeenBy, first
    <3>4. \A f \in Fields :
            (IF f \in new THEN sets[f] ELSE s.item[f])
              = IF next(f) = 0 THEN Edited(item, edit)[f]
                               ELSE rules[next(f)].actions[f]
      BY <2>3, <2>4, <3>3
    <3> QED
      BY <3>2, <3>4 DEF SeenBy, next
  <2>7. t.sources = [f \in winning |-> rules[next(f)].id]
    <3>1. t.sources = [f \in won \union new |->
                         IF f \in new THEN rule.id ELSE s.sources[f]]
      BY <2>1, <2>2, <2>3 DEF Over
    <3>2. \A f \in won \union new :
            (IF f \in new THEN rule.id ELSE s.sources[f]) = rules[next(f)].id
      BY <1>3, <2>4, <2>5
    <3> QED
      BY <2>5, <3>1, <3>2
  <2>8. t.result = [f \in DOMAIN edit \union winning |->
                      IF next(f) = 0 THEN edit[f]
                                     ELSE rules[next(f)].actions[f]]
    <3>1. t.result = [f \in (DOMAIN edit \union won) \union new |->
                        IF f \in new THEN sets[f] ELSE s.result[f]]
      BY <2>1, <2>2, <2>3 DEF Over
    <3>2. \A f \in (DOMAIN edit \union won) \union new :
            (IF f \in new THEN sets[f] ELSE s.result[f])
              = IF next(f) = 0 THEN edit[f] ELSE rules[next(f)].actions[f]
      BY <1>1, <1>3, <2>3, <2>4, <2>5
    <3>3. (DOMAIN edit \union won) \union new = DOMAIN edit \union winning
      BY <2>5
    <3> QED
      BY <3>1, <3>2, <3>3
  <2> QED
    BY <2>6, <2>7, <2>8 DEF Stands, next, winning, t
<1> QED
  BY <1>4, <1>5

\* The loop does what FirstRuleWins says, with the rules that fired.
LEMMA LoopStands ==
  ASSUME NEW item \in Contents, NEW edit \in Edits, NEW rules \in Seq(Rules)
  PROVE  \A k \in 0..Len(rules) :
           Stands(After(item, edit, rules)[k], item, edit, rules,
                  Fired(item, edit, rules), k + 1)
<1> DEFINE s == After(item, edit, rules)
           fired == Fired(item, edit, rules)
           P(k) == Stands(s[k], item, edit, rules, fired, k + 1)
           T == {k \in 0..Len(rules) : ~P(k)}
<1>0. fired \in SUBSET DOMAIN rules /\ DOMAIN rules = 1..Len(rules)
  BY DEF Fired
<1>1. P(0)
  <2>1. \A f \in Fields : Claimant(rules, fired, 1, f) = 0
    <3> SUFFICES ASSUME NEW f \in Fields
                 PROVE  Claimant(rules, fired, 1, f) = 0
      OBVIOUS
    <3> DEFINE c == Claimant(rules, fired, 1, f)
    <3>1. Claims(rules, fired, 1, f) = {}
      BY <1>0 DEF Claims
    <3>2. c = 0 \/ c \in Claims(rules, fired, 1, f)
      BY <1>0, ClaimantIsFirst
    <3> QED
      BY <3>1, <3>2
  <2>2. Stands(Start(item, edit), item, edit, rules, fired, 1)
    BY <1>0, <2>1, StartStands
  <2>3. s[0] = Start(item, edit)
    BY AfterSteps
  <2> QED
    BY <2>2, <2>3
<1>2. ASSUME NEW k \in 1..Len(rules), P(k - 1) PROVE P(k)
  <2>1. k \in fired <=> Applies(s[k - 1].item, rules[k])
    BY <1>0 DEF Fired
  <2>2. Stands(s[k - 1], item, edit, rules, fired, k)
    <3>1. (k - 1) + 1 = k
      OBVIOUS
    <3> HIDE DEF s, fired
    <3> QED
      BY <1>2, <3>1
  <2>3. Stands(Turn(s[k - 1], rules[k]), item, edit, rules, fired, k + 1)
    <3> HIDE DEF s, fired
    <3> QED
      BY <1>0, <2>1, <2>2, TurnStands
  <2>4. s[k] = Turn(s[k - 1], rules[k])
    BY AfterSteps
  <2> QED
    BY <2>3, <2>4
<1> HIDE DEF P
<1> SUFFICES ASSUME T # {} PROVE FALSE
  BY DEF P
<1>3. T \subseteq Nat
  OBVIOUS
<1>4. PICK k \in T : \A m \in T : k <= m
  <2> HIDE DEF T
  <2> QED
    BY <1>3, LeastNumber
<1>5. k \in 1..Len(rules) /\ P(k - 1)
  BY <1>1, <1>4
<1> QED
  BY <1>2, <1>4, <1>5

\* Applied is the set of the rules that fired, and no other set will do.
LEMMA AppliedFired ==
  ASSUME NEW item \in Contents, NEW edit \in Edits, NEW rules \in Seq(Rules)
  PROVE  Applied(item, edit, rules) = Fired(item, edit, rules)
<1> DEFINE fired == Fired(item, edit, rules)
           Consistent(applied) ==
             \A k \in DOMAIN rules :
               k \in applied
                 <=> Applies(SeenBy(item, edit, rules, applied, k), rules[k])
<1>1. Consistent(fired) /\ fired \in SUBSET DOMAIN rules
  <2>1. fired \in SUBSET DOMAIN rules
    BY DEF Fired
  <2>2. ASSUME NEW k \in DOMAIN rules
        PROVE  k \in fired
                 <=> Applies(SeenBy(item, edit, rules, fired, k), rules[k])
    <3>1. k - 1 \in 0..Len(rules) /\ (k - 1) + 1 = k
      OBVIOUS
    <3>2. Stands(After(item, edit, rules)[k - 1], item, edit, rules, fired, k)
      <4>1. Stands(After(item, edit, rules)[k - 1], item, edit, rules, fired,
                   (k - 1) + 1)
        BY <3>1, LoopStands
      <4> QED
        BY <3>1, <4>1
    <3>3. After(item, edit, rules)[k - 1].item
            = SeenBy(item, edit, rules, fired, k)
      BY <3>2 DEF Stands
    <3> QED
      BY <3>3 DEF Fired
  <2> QED
    BY <2>1, <2>2
<1>2. ASSUME NEW applied \in SUBSET DOMAIN rules, Consistent(applied)
      PROVE  applied = fired
  <2> DEFINE T == {k \in DOMAIN rules : ~(k \in applied <=> k \in fired)}
  <2> SUFFICES ASSUME T # {} PROVE FALSE
    BY <1>1
  <2>1. T \subseteq Nat
    OBVIOUS
  <2>2. PICK k \in T : \A m \in T : k <= m
    <3> HIDE DEF T
    <3> QED
      BY <2>1, LeastNumber
  <2>3. k \in DOMAIN rules /\ k \in 1..Len(rules)
    OBVIOUS
  <2>4. \A j \in DOMAIN rules : j < k => (j \in applied <=> j \in fired)
    BY <2>2, <2>3
  <2>5. \A f : Claimant(rules, applied, k, f) = Claimant(rules, fired, k, f)
    <3> SUFFICES ASSUME NEW f PROVE Claimant(rules, applied, k, f)
                                      = Claimant(rules, fired, k, f)
      OBVIOUS
    <3> DEFINE c == Claimant(rules, applied, k, f)
               d == Claimant(rules, fired, k, f)
    <3> HIDE DEF fired
    <3>1. Claims(rules, applied, k, f) = Claims(rules, fired, k, f)
      BY <1>1, <2>4 DEF Claims
    <3>2. /\ \/ c = 0 /\ Claims(rules, applied, k, f) = {}
             \/ /\ c \in Claims(rules, applied, k, f) /\ c \in 1..Len(rules)
                /\ \A i \in Claims(rules, applied, k, f) : c <= i
          /\ \/ d = 0 /\ Claims(rules, fired, k, f) = {}
             \/ /\ d \in Claims(rules, fired, k, f) /\ d \in 1..Len(rules)
                /\ \A i \in Claims(rules, fired, k, f) : d <= i
      BY <1>1, <2>3, ClaimantIsFirst
    <3> HIDE DEF c, d
    <3>3. c = d
      BY <3>1, <3>2
    <3> QED
      BY <3>3 DEF c, d
  <2>6. SeenBy(item, edit, rules, applied, k)
          = SeenBy(item, edit, rules, fired, k)
    BY <2>5 DEF SeenBy
  <2>7. /\ k \in applied
             <=> Applies(SeenBy(item, edit, rules, applied, k), rules[k])
        /\ k \in fired
             <=> Applies(SeenBy(item, edit, rules, fired, k), rules[k])
    BY <1>1, <1>2, <2>3
  <2> QED
    BY <2>2, <2>6, <2>7
<1> HIDE DEF fired
<1>3. Applied(item, edit, rules)
        = CHOOSE applied \in SUBSET DOMAIN rules : Consistent(applied)
  BY DEF Applied
<1> HIDE DEF Consistent
<1>4. Applied(item, edit, rules) = fired
  BY <1>1, <1>2, <1>3
<1> QED
  BY <1>4 DEF fired

LEMMA FirstRuleAlwaysWins ==
  ASSUME NEW item \in Contents, NEW edit \in Edits, NEW rules \in Seq(Rules)
  PROVE  FirstRuleWins(item, edit, rules)
<1> DEFINE end == Len(rules) + 1
           applied == Applied(item, edit, rules)
           winner(f) == Claimant(rules, applied, end, f)
           resolved == Resolve(item, edit, rules)
<1>1. Stands(resolved, item, edit, rules, applied, end)
  <2>1. Len(rules) \in 0..Len(rules)
    OBVIOUS
  <2> QED
    BY <2>1, AppliedFired, LoopStands DEF Resolve
<1>2. DOMAIN edit \subseteq Fields
  BY DEF Edits
<1> HIDE DEF applied, resolved
<1>3. /\ DOMAIN resolved.sources = {f \in Fields : winner(f) # 0}
      /\ \A f \in Fields :
           winner(f) # 0 => resolved.sources[f] = rules[winner(f)].id
      /\ DOMAIN resolved.result
           = DOMAIN edit \union {f \in Fields : winner(f) # 0}
      /\ \A f \in DOMAIN edit \union {g \in Fields : winner(g) # 0} :
           resolved.result[f] = IF winner(f) = 0 THEN edit[f]
                                  ELSE rules[winner(f)].actions[f]
  BY <1>1 DEF Stands
<1> HIDE DEF winner, end
<1>4. \A f \in Fields :
        IF winner(f) = 0
          THEN /\ f \notin DOMAIN resolved.sources
               /\ f \in DOMAIN resolved.result <=> f \in DOMAIN edit
               /\ f \in DOMAIN edit => resolved.result[f] = edit[f]
          ELSE /\ resolved.sources[f] = rules[winner(f)].id
               /\ resolved.result[f] = rules[winner(f)].actions[f]
  BY <1>3
<1> QED
  BY <1>4 DEF FirstRuleWins, winner, end, applied, resolved

LEMMA EveryPriceListed ==
  ASSUME NEW rules \in Seq(Rules)
  PROVE  ListsEveryPrice(Contents, rules)
<1> SUFFICES ASSUME NEW item \in Contents
             PROVE  LET j == Claimant(rules, Applied(item, <<>>, rules),
                                      Len(rules) + 1, Price)
                    IN  IF j = 0
                          THEN \A a \in Assignments(Contents, rules) :
                                 a.item # item
                          ELSE [item |-> item, ruleId |-> rules[j].id,
                                rulePrice |-> rules[j].actions[Price]]
                                 \in Assignments(Contents, rules)
  BY DEF ListsEveryPrice
<1> DEFINE fired == Applied(item, <<>>, rules)
           j == Claimant(rules, fired, Len(rules) + 1, Price)
           resolved(i) == Resolve(i, <<>>, rules)
<1>1. <<>> \in Edits
  <2>1. <<>> \in [{} -> Cells]
    OBVIOUS
  <2> QED
    BY <2>1 DEF Edits
<1>2. IF j = 0
        THEN Price \notin DOMAIN resolved(item).sources
        ELSE /\ resolved(item).sources[Price] = rules[j].id
             /\ resolved(item).result[Price] = rules[j].actions[Price]
             /\ Price \in DOMAIN resolved(item).sources
  <2>1. Stands(resolved(item), item, <<>>, rules, fired, Len(rules) + 1)
    <3>1. Len(rules) \in 0..Len(rules)
      OBVIOUS
    <3> QED
      BY <1>1, <3>1, AppliedFired, LoopStands DEF Resolve
  <2>2. DOMAIN resolved(item).sources
          = {f \in Fields :
               Claimant(rules, fired, Len(rules) + 1, f) # 0}
    BY <2>1 DEF Stands
  <2>3. FirstRuleWins(item, <<>>, rules)
    BY <1>1, FirstRuleAlwaysWins
  <2>4. IF j = 0
          THEN Price \notin DOMAIN resolved(item).sources
          ELSE /\ resolved(item).sources[Price] = rules[j].id
               /\ resolved(item).result[Price] = rules[j].actions[Price]
    BY <2>3, BatchAssumption DEF FirstRuleWins
  <2> QED
    BY <2>2, <2>4, BatchAssumption
<1>3. CASE j = 0
  <2>1. \A a \in Assignments(Contents, rules) :
          Price \in DOMAIN resolved(a.item).sources
    BY DEF Assignments
  <2> QED
    BY <1>2, <1>3, <2>1
<1>4. CASE j # 0
  <2>1. j \in Fired(item, <<>>, rules) /\ Price \in DOMAIN rules[j].actions
    <3>1. fired \in SUBSET DOMAIN rules /\ fired = Fired(item, <<>>, rules)
      BY <1>1, AppliedFired DEF Fired
    <3>2. j \in Claims(rules, fired, Len(rules) + 1, Price)
      BY <1>4, <3>1, ClaimantIsFirst
    <3> QED
      BY <3>1, <3>2 DEF Claims
  <2>2. SetsPrices(rules)
    BY <2>1 DEF Fired, Applies, SetsPrices
  <2> HIDE DEF j
  <2>3. [item |-> item, ruleId |-> resolved(item).sources[Price],
         rulePrice |-> resolved(item).result[Price]]
           \in Assignments(Contents, rules)
    BY <1>2, <1>4, <2>2 DEF Assignments
  <2> QED
    BY <1>2, <1>4, <2>3 DEF j
<1> QED
  BY <1>3, <1>4

\* The rules that are stored are a list of rules.
LEMMA StoredRules ==
  ASSUME TypeOK
  PROVE  /\ ruleSet.rules \in Snapshots \union {<<>>}
         /\ ruleSet.rules \in Seq(Rules)
<1>1. ruleSet.rules \in Snapshots \union {<<>>}
  BY DEF TypeOK, RuleSets
<1>2. <<>> \in Seq(Rules)
  OBVIOUS
<1> QED
  BY <1>1, <1>2, SnapshotsAssumption

(***************************************************************************)
(* resolveItemRuleDetails gives every field the value of the first rule    *)
(* that applies and sets it, for any item, any edit and any rules an admin *)
(* can have stored, however many.                                          *)
(***************************************************************************)
THEOREM RulesAreResolved == Spec => []RulesResolve
<1>1. TypeOK => RulesResolve
  BY StoredRules, FirstRuleAlwaysWins DEF RulesResolve, ResolvedLists
<1> QED
  BY <1>1, TypeCorrect, PTL

(***************************************************************************)
(* listCustomerPriceRules leaves out no item whose price a stored rule     *)
(* sets and lists no other, although it reads no items unless an enabled   *)
(* rule sets a price.                                                      *)
(***************************************************************************)
THEOREM PricesAreAllPublished == Spec => []PricesArePublished
<1>1. TypeOK => PricesArePublished
  BY StoredRules, EveryPriceListed DEF PricesArePublished, PublishedLists
<1> QED
  BY <1>1, TypeCorrect, PTL
===========================================================================
