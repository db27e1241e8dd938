--------------------------- MODULE MCItemRules ---------------------------
EXTENDS ItemRules

CONSTANTS p, q, model, fiyat

If(field, set) == [field |-> field, set |-> set, negated |-> FALSE]
IfNot(field, set) == [field |-> field, set |-> set, negated |-> TRUE]

Rule(id, enabled, condition, actions) ==
  [id |-> id, enabled |-> enabled, conditions |-> {condition},
   actions |-> actions]

\* Both set the price; q, if it comes first, sets the model so that p no
\* longer applies.
P == Rule(p, TRUE, IfNot(model, {2}), [x \in {fiyat} |-> 2])
DisabledP == [P EXCEPT !.enabled = FALSE]
Q == Rule(q, TRUE, If(model, {1, 2}),
          [x \in {model, fiyat} |-> IF x = model THEN 2 ELSE 1])

\* Pairs of these differ by additions, removals, edits and the order.
MCSnapshots == {<<>>, <<P>>, <<DisabledP, Q>>, <<Q, P>>, <<P, Q>>}

MCGrants == {{"add", "edit"}, {"add", "delete", "edit"}}

\* P contradicts this batch, unless Q comes first.
MCBatchItems == {[x \in Fields |-> 1]}
MCBatchEdit == [x \in {fiyat} |-> 1]
==========================================================================
