----------------------------- MODULE ItemRules -----------------------------
(***************************************************************************)
(* The item rule set: saveItemRules of itemRules.controller.ts with its    *)
(* permission check and audit events, and the conflict check with which    *)
(* bulkUpdateItems of items.controller.ts consults the rules. The rule set *)
(* is one document; several admins edit it at once, each from the list     *)
(* their page last loaded, and every handler awaits the database between   *)
(* its steps. The rules do not go through the item write queue.            *)
(***************************************************************************)
EXTENDS Integers, Sequences, RuleResolution

CONSTANTS
  Admins,
  HeadAdmins,    \* hold every permission
  Grants,        \* sets of permissions an admin may be given
  Snapshots,     \* rule lists an admin may save
  BatchItems,    \* the items a bulk update is about
  BatchEdit,     \* and what it sets
  MaxRevision    \* bound: saves

Permissions == {"add", "edit", "delete"}

ASSUME GrantsAssumption ==
  HeadAdmins \subseteq Admins /\ Grants \subseteq SUBSET Permissions
ASSUME BatchAssumption ==
  Price \in Fields /\ BatchItems \subseteq Contents /\ BatchEdit \in Edits
\* saveItemRulesSchema.
ASSUME SnapshotsAssumption == Snapshots \subseteq Seq(Rules)
ASSUME MaxRevisionAssumption == MaxRevision \in Nat

VARIABLES
  ruleSet,      \* the document; revision 0 stands for none
  history,      \* history[r]: the rules saved as revision r
  permissions,  \* permissions[a]: the User document's
  seen,         \* seen[a]: the revision and rules on the admin's page
  request       \* request[a]: the request of admin a and where it is

vars == <<ruleSet, history, permissions, seen, request>>

NoRules == [revision |-> 0, rules |-> <<>>]

Elements(rules) == {rules[k] : k \in DOMAIN rules}
Ids(rules) == {r.id : r \in Elements(rules)}

----------------------------------------------------------------------------
(* What a save changes. *)

Added(old, new) == {r \in Elements(new) : r.id \notin Ids(old)}
Removed(old, new) == Added(new, old)
Changed(old, new) ==
  {r \in Elements(new) : r.id \in Ids(old) /\ r \notin Elements(old)}

\* The ids of `rules` that are in `kept`, in order.
Order(rules, kept) ==
  LET rest == SelectSeq(rules, LAMBDA r : r.id \in kept)
  IN  [k \in DOMAIN rest |-> rest[k].id]

Reordered(old, new) == Order(old, Ids(new)) # Order(new, Ids(old))

\* The permissions a save needs.
Required(old, new) ==
  {p \in Permissions :
     \/ p = "add" /\ Added(old, new) # {}
     \/ p = "delete" /\ Removed(old, new) # {}
     \/ p = "edit" /\ (Changed(old, new) # {} \/ Reordered(old, new))}

\* The audit events of a save; the event of a new order names no rule.
Events(old, new) ==
  {<<"add", r.id>> : r \in Added(old, new)}
    \union {<<"delete", r.id>> : r \in Removed(old, new)}
    \union {<<"edit", r.id>> : r \in Changed(old, new)}
    \union {<<"order">> : x \in {y \in {TRUE} : Reordered(old, new)}}

Conflicts(rules) == Contradicts(BatchItems, BatchEdit, rules)

----------------------------------------------------------------------------
Stages == {"idle", "actor", "read", "write", "audit", "bulkRead", "bulkWrite"}

\* `base`: what the page showed when the request was made; `rules`: the
\* list to save; `granted`, `previous`: the admin and the rules as read.
Idle ==
  [stage |-> "idle", base |-> NoRules, rules |-> <<>>, approves |-> FALSE,
   granted |-> {}, previous |-> NoRules]

RuleSets == [revision : 0..MaxRevision, rules : Snapshots \union {<<>>}]

Request ==
  [stage : Stages, base : RuleSets, rules : Snapshots \union {<<>>},
   approves : BOOLEAN, granted : SUBSET Permissions, previous : RuleSets]

TypeOK ==
  /\ ruleSet \in RuleSets
  /\ history \in Seq(Snapshots)
  /\ Len(history) = ruleSet.revision
  /\ permissions \in [Admins -> SUBSET Permissions]
  /\ seen \in [Admins -> RuleSets]
  /\ request \in [Admins -> Request]

Init ==
  /\ ruleSet = NoRules
  /\ history = <<>>
  /\ permissions \in [Admins -> Grants]
  /\ seen = [a \in Admins |-> NoRules]
  /\ request = [a \in Admins |-> Idle]

\* The request ends with a response that tells the page nothing new.
Ends(a) == request' = [request EXCEPT ![a] = Idle]

\* updateAdminPermissions: it refuses a head admin, and roles never change.
SetPermissions(a) ==
  /\ a \notin HeadAdmins
  /\ \E granted \in Grants :
       permissions' = [permissions EXCEPT ![a] = granted]
  /\ UNCHANGED <<ruleSet, history, seen, request>>

\* listItemRules.
ListItemRules(a) ==
  /\ request[a].stage = "idle"
  /\ seen' = [seen EXCEPT ![a] = ruleSet]
  /\ UNCHANGED <<ruleSet, history, permissions, request>>

----------------------------------------------------------------------------
(* saveItemRules. *)

SaveItemRules(a) ==
  /\ request[a].stage = "idle"
  /\ seen[a].revision < MaxRevision
  /\ \E rules \in Snapshots :
       request' = [request EXCEPT ![a] =
                     [Idle EXCEPT !.stage = "actor", !.base = seen[a],
                                  !.rules = rules]]
  /\ UNCHANGED <<ruleSet, history, permissions, seen>>

\* actor(): the admin's permissions as of now.
LoadActor(a) ==
  /\ request[a].stage = "actor"
  /\ request' = [request EXCEPT
       ![a].stage = "read",
       ![a].granted = IF a \in HeadAdmins THEN Permissions
                                          ELSE permissions[a]]
  /\ UNCHANGED <<ruleSet, history, permissions, seen>>

\* Mutant of Permitted: one of the required permissions is enough.
PermittedSome(a) ==
  LET required == Required(ruleSet.rules, request[a].rules)
  IN  required = {} \/ required \intersect request[a].granted # {}

Permitted(a) ==
  Required(ruleSet.rules, request[a].rules) \subseteq request[a].granted

\* The stored rules are read. Another revision, a missing permission and a
\* save without changes end the request.
ReadRules(a) ==
  /\ request[a].stage = "read"
  /\ IF /\ ruleSet.revision = request[a].base.revision
        /\ Permitted(a)
        /\ Required(ruleSet.rules, request[a].rules) # {}
       THEN request' = [request EXCEPT ![a].stage = "write",
                                       ![a].previous = ruleSet]
       ELSE Ends(a)
  /\ UNCHANGED <<ruleSet, history, permissions, seen>>

\* Mutant of Matches: the update is not filtered by revision.
MatchesAny(a) == (request[a].previous.revision = 0) => (ruleSet.revision = 0)

\* The create of a first document meets none, or the update's filter on
\* `revision` finds the one that was read.
Matches(a) == ruleSet.revision = request[a].previous.revision

\* Mutant of Stored: the revision is incremented twice.
StoredTwice(a) ==
  /\ ruleSet' = [revision |-> ruleSet.revision + 2, rules |-> request[a].rules]
  /\ history' = Append(history, request[a].rules)

Stored(a) ==
  /\ ruleSet' = [revision |-> ruleSet.revision + 1, rules |-> request[a].rules]
  /\ history' = Append(history, request[a].rules)

WriteRules(a) ==
  /\ request[a].stage = "write"
  /\ Matches(a)
  /\ Stored(a)
  /\ request' = [request EXCEPT ![a].stage = "audit"]
  /\ UNCHANGED <<permissions, seen>>

\* Mutant of WriteConflicts: the result of the update is not looked at.
WriteConflictsUnseen(a) ==
  /\ request[a].stage = "write"
  /\ ~Matches(a)
  /\ request' = [request EXCEPT ![a].stage = "audit"]
  /\ UNCHANGED <<ruleSet, history, permissions, seen>>

\* No document matched, or a duplicate key: ConflictError.
WriteConflicts(a) ==
  /\ request[a].stage = "write"
  /\ ~Matches(a)
  /\ Ends(a)
  /\ UNCHANGED <<ruleSet, history, permissions, seen>>

\* The audit events are recorded, each as far as that works, and the
\* response gives the page the new revision.
Audit(a) ==
  /\ request[a].stage = "audit"
  /\ seen' = [seen EXCEPT ![a] =
       [revision |-> request[a].base.revision + 1, rules |-> request[a].rules]]
  /\ Ends(a)
  /\ UNCHANGED <<ruleSet, history, permissions>>

----------------------------------------------------------------------------
(* bulkUpdateItems, as far as it consults the rules. *)

\* The admin sends a batch; `approves` when the page warned of a conflict
\* with the rules it shows and the admin confirmed.
BulkUpdateItems(a) ==
  /\ request[a].stage = "idle"
  /\ \E approves \in BOOLEAN :
       request' = [request EXCEPT ![a] =
                     [Idle EXCEPT !.stage = "bulkRead", !.base = seen[a],
                                  !.approves = approves]]
  /\ UNCHANGED <<ruleSet, history, permissions, seen>>

\* Mutant of Approved: whether, not what, was approved.
ApprovedAny(a) == request[a].approves

\* ruleOverrideRevision is the revision of the rules just read.
Approved(a) ==
  request[a].approves /\ request[a].base.revision = ruleSet.revision

\* The callback of withVersionBump runs to its end before the next one starts.
BulkReadsRules(a) ==
  /\ request[a].stage = "bulkRead"
  /\ \A b \in Admins : request[b].stage # "bulkWrite"
  /\ IF Conflicts(ruleSet.rules) => Approved(a)
       THEN request' = [request EXCEPT ![a].stage = "bulkWrite",
                                       ![a].previous = ruleSet]
       ELSE Ends(a)
  /\ UNCHANGED <<ruleSet, history, permissions, seen>>

\* The rows are changed (see ItemSync).
BulkWrites(a) ==
  /\ request[a].stage = "bulkWrite"
  /\ Ends(a)
  /\ UNCHANGED <<ruleSet, history, permissions, seen>>

\* A database call throws, applied or not; nothing is audited then.
DatabaseFails(a) ==
  /\ request[a].stage \in {"actor", "read", "write", "bulkRead", "bulkWrite"}
  /\ \/ UNCHANGED <<ruleSet, history>>
     \/ request[a].stage = "write" /\ Matches(a) /\ Stored(a)
  /\ Ends(a)
  /\ UNCHANGED <<permissions, seen>>

Next ==
  \E a \in Admins :
    \/ SetPermissions(a) \/ ListItemRules(a)
    \/ SaveItemRules(a) \/ LoadActor(a) \/ ReadRules(a)
    \/ WriteRules(a) \/ WriteConflicts(a) \/ Audit(a)
    \/ BulkUpdateItems(a) \/ BulkReadsRules(a) \/ BulkWrites(a)
    \/ DatabaseFails(a)

Spec == Init /\ [][Next]_vars

----------------------------------------------------------------------------
(***************************************************************************)
(* No save is lost: rules are only ever replaced by a list that was edited *)
(* from exactly the rules it replaces ("Saves one ordered snapshot         *)
(* atomically", itemRules.controller.ts:50), also when two admins save the *)
(* first rules at once or an earlier save was not acknowledged.            *)
(***************************************************************************)
NoLostSave ==
  [][ruleSet' # ruleSet =>
       \E a \in Admins : /\ request'[a] # request[a]
                         /\ request[a].base = ruleSet
                         /\ ruleSet'.rules = request[a].rules]_vars

(***************************************************************************)
(* "Permissions are checked for the actual additions, edits, reorderings   *)
(* and removals in that snapshot" (itemRules.controller.ts:50-51): whoever *)
(* replaces the rules was seen to hold, during this request, what the step *)
(* from the stored rules to the new ones needs.                            *)
(***************************************************************************)
PermissionsCoverChange ==
  [][ruleSet' # ruleSet =>
       \E a \in Admins :
         /\ request'[a] # request[a]
         /\ Required(ruleSet.rules, ruleSet'.rules)
              \subseteq request[a].granted]_vars

(***************************************************************************)
(* The audit log tells what happened: the events a save is about to record *)
(* are the difference between two revisions that followed each other.      *)
(***************************************************************************)
AuditTellsChange ==
  \A a \in Admins :
    request[a].stage = "audit" =>
      LET r == request[a].previous.revision
          before == IF r = 0 THEN <<>> ELSE history[r]
      IN  /\ r < Len(history)
          /\ Events(request[a].previous.rules, request[a].rules)
               = Events(before, history[r + 1])

(***************************************************************************)
(* "Rule conflicts require explicit approval before any row in the batch   *)
(* changes" (items.controller.ts:244): a batch that contradicts the rules  *)
(* it was checked against was approved by an admin whose page showed       *)
(* exactly these rules.                                                    *)
(***************************************************************************)
ApprovedKnowingly ==
  \A a \in Admins :
    request[a].stage = "bulkWrite" /\ Conflicts(request[a].previous.rules)
      => request[a].approves /\ request[a].base = request[a].previous

\* The lists that are resolved rightly, whatever the item and the edit.
ResolvedLists ==
  {rules \in Snapshots \union {<<>>} :
     \A item \in Contents, edit \in Edits : FirstRuleWins(item, edit, rules)}

(***************************************************************************)
(* "Evaluate the post-edit item once, in priority order. First rule wins   *)
(* each field" (resolveItemRules.ts:42): with the rules that are stored,   *)
(* whatever their order, a field gets the value of the first of the rules  *)
(* that apply and set it, where a rule applies to the item that the rules  *)
(* before it have left; later ones, and disabled ones, change nothing.     *)
(***************************************************************************)
RulesResolve == ruleSet.rules \in ResolvedLists

\* The lists whose prices are all published.
PublishedLists ==
  {rules \in Snapshots \union {<<>>} : ListsEveryPrice(Contents, rules)}

(***************************************************************************)
(* The public price list gives every item whose price the stored rules set *)
(* the rule that wins it, and no other item - although the items are not   *)
(* read at all unless an enabled rule sets a price                         *)
(* (itemRules.controller.ts:22-23).                                        *)
(***************************************************************************)
PricesArePublished == ruleSet.rules \in PublishedLists
============================================================================
