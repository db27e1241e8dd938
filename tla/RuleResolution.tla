-------------------------- MODULE RuleResolution --------------------------
(***************************************************************************)
(* services/items/resolveItemRules.ts: what an ordered list of rules makes *)
(* of an item. "Evaluate the post-edit item once, in priority order. First *)
(* rule wins each field." No state; ItemRules uses it for bulk updates and *)
(* for the public price list.                                              *)
(*                                                                         *)
(* A condition is a set of values and a sign: every operator of `matches`  *)
(* asks whether the field is present and its value is in a set (equals,    *)
(* contains, in, gt, lengthLte, ..., exists), or is the negation of one    *)
(* that does (notEquals, notContains, notIn, notExists). An action's value *)
(* is what its text is converted to.                                       *)
(***************************************************************************)
LOCAL INSTANCE Integers
LOCAL INSTANCE Sequences

CONSTANTS
  Fields,
  Price,   \* `fiyat`, one of Fields
  Values,  \* what a field can hold
  Null,    \* an empty field
  RuleIds

Cells == Values \union {Null}
Contents == [Fields -> Cells]

\* Some fields and their values: a request, or the actions of a rule (which
\* name a field once, itemRule.schema.ts:31).
Edits == UNION {[fields -> Cells] : fields \in SUBSET Fields}

Conditions == [field : Fields, set : SUBSET Values, negated : BOOLEAN]
Rules ==
  [id : RuleIds, enabled : BOOLEAN, conditions : SUBSET Conditions,
   actions : Edits]

\* An item after an edit.
Edited(item, edit) ==
  [f \in DOMAIN item |-> IF f \in DOMAIN edit THEN edit[f] ELSE item[f]]

Present(cell) == cell # Null

Holds(item, condition) ==
  (Present(item[condition.field]) /\ item[condition.field] \in condition.set)
    # condition.negated

\* A rule that is disabled, or without conditions, never applies.
Applies(item, rule) ==
  /\ rule.enabled
  /\ rule.conditions # {}
  /\ \A condition \in rule.conditions : Holds(item, condition)

\* `item` is what the next rule sees; `result` the fields to set; sources[f]
\* the rule that has claimed f.
Start(item, edit) ==
  [item |-> Edited(item, edit), result |-> edit, sources |-> <<>>]

\* g, with f where g says nothing.
Over(g, f) ==
  [x \in DOMAIN f \union DOMAIN g |-> IF x \in DOMAIN g THEN g[x] ELSE f[x]]

Only(f, S) == [x \in DOMAIN f \intersect S |-> f[x]]

\* Mutant of Unclaimed: a later rule may set a field again.
UnclaimedAny(state, rule) == DOMAIN rule.actions

Unclaimed(state, rule) == DOMAIN rule.actions \ DOMAIN state.sources

\* The turn of one rule.
Turn(state, rule) ==
  LET sets == Only(rule.actions, Unclaimed(state, rule))
  IN  IF ~Applies(state.item, rule) THEN state ELSE
      [item    |-> Edited(state.item, sets),
       result  |-> Over(sets, state.result),
       sources |-> Over([f \in DOMAIN sets |-> rule.id], state.sources)]

\* After(item, edit, rules)[k]: when the first k rules have had their turn.
After(item, edit, rules) ==
  LET after[k \in 0..Len(rules)] ==
        IF k = 0 THEN Start(item, edit) ELSE Turn(after[k - 1], rules[k])
  IN  after

\* resolveItemRuleDetails.
Resolve(item, edit, rules) == After(item, edit, rules)[Len(rules)]

\* A bulk update contradicts the rules if one of the items it is about would
\* get another value than the one requested.
Contradicts(items, edit, rules) ==
  \E item \in items, f \in DOMAIN edit :
    Resolve(item, edit, rules).result[f] # edit[f]

\* Mutant of SetsPrices: a rule that is the first for no price hides others.
SetsPricesFirst(rules) ==
  rules # <<>> /\ rules[1].enabled /\ Price \in DOMAIN rules[1].actions

\* An enabled rule sets a price; else the items are not even read.
SetsPrices(rules) ==
  \E k \in DOMAIN rules :
    rules[k].enabled /\ Price \in DOMAIN rules[k].actions

\* listCustomerPriceRules: the items whose price comes from a rule.
Assignments(items, rules) ==
  LET resolved(item) == Resolve(item, <<>>, rules)
  IN  IF ~SetsPrices(rules) THEN {} ELSE
      {[item |-> item, ruleId |-> resolved(item).sources[Price],
        rulePrice |-> resolved(item).result[Price]] :
         item \in {i \in items : Price \in DOMAIN resolved(i).sources}}

----------------------------------------------------------------------------
(* What resolution means, said without an order of evaluation. *)

\* The first of the rules in `applied`, before rule k, that sets f; or 0.
Claimant(rules, applied, k, f) ==
  LET claims == {j \in applied : j < k /\ f \in DOMAIN rules[j].actions}
  IN  IF claims = {} THEN 0 ELSE CHOOSE j \in claims : \A i \in claims : j <= i

\* The item that rule k sees if the rules in `applied` are those that apply.
SeenBy(item, edit, rules, applied, k) ==
  [f \in Fields |->
     LET j == Claimant(rules, applied, k, f)
     IN  IF j = 0 THEN Edited(item, edit)[f] ELSE rules[j].actions[f]]

\* The rules that apply: those that apply to what they see.
Applied(item, edit, rules) ==
  CHOOSE applied \in SUBSET DOMAIN rules :
    \A k \in DOMAIN rules :
      k \in applied
        <=> Applies(SeenBy(item, edit, rules, applied, k), rules[k])

\* "First rule wins each field".
FirstRuleWins(item, edit, rules) ==
  LET end == Len(rules) + 1
      applied == Applied(item, edit, rules)
      winner(f) == Claimant(rules, applied, end, f)
      resolved == Resolve(item, edit, rules)
  IN  \A f \in Fields :
        IF winner(f) = 0
          THEN /\ f \notin DOMAIN resolved.sources
               /\ f \in DOMAIN resolved.result <=> f \in DOMAIN edit
               /\ f \in DOMAIN edit => resolved.result[f] = edit[f]
          ELSE /\ resolved.sources[f] = rules[winner(f)].id
               /\ resolved.result[f] = rules[winner(f)].actions[f]

\* The price list leaves out no item whose price comes from a rule.
ListsEveryPrice(items, rules) ==
  \A item \in items :
    LET j == Claimant(rules, Applied(item, <<>>, rules), Len(rules) + 1, Price)
    IN  IF j = 0
          THEN \A a \in Assignments(items, rules) : a.item # item
          ELSE [item |-> item, ruleId |-> rules[j].id,
                rulePrice |-> rules[j].actions[Price]]
                 \in Assignments(items, rules)
===========================================================================
