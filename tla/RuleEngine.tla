----------------------------- MODULE RuleEngine -----------------------------
(***************************************************************************)
(* The rule engine of the DAS monitor, dasmon/server/engine/RuleEngine.cpp,*)
(* and its one listener, StreamAnalyzer, which turns facts into signals.   *)
(*                                                                         *)
(* An engine is a record:                                                  *)
(*   facts   fact -> [on, val, out]: m_asserted, m_value, m_rule_output.   *)
(*           A fact nobody has named yet is one that is not asserted       *)
(*   rules   rule -> [ins, valid]: the copies m_inputs and m_asserts       *)
(*           together, and m_valid.  A rule and its output fact have the   *)
(*           same name                                                     *)
(*   deps    fact -> the rules that read it, in the order of definition    *)
(*   batch, old, new   m_batch, m_old_facts, m_new_facts                   *)
(*   ok      no rule was refused                                           *)
(*   sigs    the analyzer's m_signals: fact -> [name, fact, msg]           *)
(*   told    history: the signals the listeners hold to be asserted        *)
(* A rule is defined by [id, ins, asr, sat]: the facts whose value it      *)
(* reads, the facts of which it only asks whether they hold, and the       *)
(* valuations that satisfy its expression.                                 *)
(***************************************************************************)
EXTENDS Integers, Sequences, FiniteSets, SequencesExt, FiniteSetsExt

CONSTANT FactNames

(* The value of a fact that has none: it counts as 1 in an expression.      *)
VOID == 1

(* The value of a rule's own fact, unless the expression sets it.           *)
RuleValue == 0

Fact(on, val, out) == [on |-> on, val |-> val, out |-> out]

NewEngine(sigs) ==
    [facts |-> [f \in FactNames |-> Fact(FALSE, VOID, FALSE)], rules |-> <<>>,
     deps |-> [f \in FactNames |-> <<>>], batch |-> FALSE, old |-> <<>>, new |-> {}, ok |-> TRUE,
     sigs |-> sigs, told |-> {}]

Put(f, x, v) == [y \in DOMAIN f \cup {x} |-> IF y = x THEN v ELSE f[y]]

IsOn(E, f) == E.facts[f].on

getAsserted(E) == {f \in FactNames : IsOn(E, f)}

------------------------------------------------------------------------------
(* Notifications.  In batch mode they are only noted. *)

onAssert(E, f) ==
    IF f \in DOMAIN E.sigs THEN [E EXCEPT !.told = @ \cup {E.sigs[f].name}] ELSE E

onRetract(E, f) ==
    IF f \in DOMAIN E.sigs THEN [E EXCEPT !.told = @ \ {E.sigs[f].name}] ELSE E

notify_assert(E, f) ==
    IF E.batch THEN [E EXCEPT !.new = @ \cup {f}] ELSE onAssert(E, f)

notify_retract(E, f) ==
    IF E.batch THEN [E EXCEPT !.new = @ \ {f}] ELSE onRetract(E, f)

(* Every fact of a set, in some order.                                      *)
ForEach(Op(_, _), E, S) == FoldSet(LAMBDA f, acc : Op(acc, f), E, S)

------------------------------------------------------------------------------
(* Assertion, retraction and the rules they set off. *)

(* A mutant: a rule that has lost a value it reads stays invalid. *)
CopiedOnce(E, D, f) ==
    LET F == E.facts[f]
        R == E.rules[D.id]
        copy == IF f \in D.asr THEN IF F.on THEN 1 ELSE 0
                ELSE IF F.on THEN F.val ELSE R.ins[f]
    IN  [ins |-> [R.ins EXCEPT ![f] = copy], valid |-> R.valid /\ (f \in D.ins => F.on)]

(* What evaluate() first does to a rule's copies.  Only the fact that       *)
(* changed is copied; a value that is retracted makes the rule invalid, and *)
(* an assertion makes it valid again once every value it reads is there.    *)
Copied(E, D, f) ==
    LET F == E.facts[f]
        R == E.rules[D.id]
        copy == IF f \in D.asr THEN IF F.on THEN 1 ELSE 0
                ELSE IF F.on THEN F.val ELSE R.ins[f]
        valid == IF f \in D.ins /\ ~F.on THEN FALSE
                 ELSE R.valid \/ (F.on /\ \A g \in D.ins : IsOn(E, g))
    IN  [ins |-> [R.ins EXCEPT ![f] = copy], valid |-> valid]

Fires(D, R) == R.valid /\ R.ins \in D.sat

RECURSIVE assert(_, _, _, _), retract(_, _, _), update(_, _, _)

(* Rule::evaluate(): the rule's fact follows the expression. *)
Settle(E, Rules, D, R) ==
    LET E1 == [E EXCEPT !.rules[D.id] = R]
        F == E.facts[D.id]
    IN  IF Fires(D, R)
        THEN IF ~F.on \/ F.val # RuleValue THEN assert(E1, Rules, D.id, RuleValue) ELSE E1
        ELSE IF F.on THEN retract(E1, Rules, D.id) ELSE E1

evaluate(E, Rules, D, f) == Settle(E, Rules, D, Copied(E, D, f))

DefOf(Rules, r) == CHOOSE D \in ToSet(Rules) : D.id = r

update(E, Rules, f) ==
    FoldLeft(LAMBDA acc, r : evaluate(acc, Rules, DefOf(Rules, r), f), E, E.deps[f])

assert(E, Rules, f, v) ==
    update(notify_assert([E EXCEPT !.facts[f] = Fact(TRUE, v, @.out)], f), Rules, f)

(* The value of a fact means nothing once it is retracted. *)
retract(E, Rules, f) ==
    update(notify_retract([E EXCEPT !.facts[f] = Fact(FALSE, VOID, @.out)], f), Rules, f)

(* The public operations leave the outputs of rules alone, and do nothing   *)
(* when the fact is as it should be already.                                *)
AssertFact(E, Rules, f, v) ==
    LET F == E.facts[f]
    IN  IF F.out \/ (F.on /\ F.val = v) THEN E ELSE assert(E, Rules, f, v)

Retractable(E, f) == IsOn(E, f) /\ ~E.facts[f].out

RetractFact(E, Rules, f) == IF Retractable(E, f) THEN retract(E, Rules, f) ELSE E

retractAllFacts(E, Rules) ==
    ForEach(LAMBDA acc, f : RetractFact(acc, Rules, f), E, FactNames)

retractPrefix(E, Rules, S) ==
    ForEach(LAMBDA acc, f : RetractFact(acc, Rules, f), E, S)

------------------------------------------------------------------------------
(* Batch mode.  What is asserted at the end is compared with what was       *)
(* asserted at the beginning.  Between batches m_old_facts and m_new_facts  *)
(* are empty, unless synchronize() has left something.                      *)

beginBatch(E) ==
    IF E.batch THEN E
    ELSE [E EXCEPT !.batch = TRUE,
                   !.old = [f \in getAsserted(E) |-> E.facts[f].val],
                   !.new = @ \cup getAsserted(E)]

Gone(E) == DOMAIN E.old \ E.new
Come(E) == {f \in E.new : f \in DOMAIN E.old => E.old[f] # E.facts[f].val}

(* A mutant: what is no longer asserted at the end is not told. *)
EndForgets(E, f) == IF f \in Come(E) THEN notify_assert(E, f) ELSE E

(* The end of a batch looks at each fact that was or is asserted; another   *)
(* batch that has begun meanwhile swallows what is told.                    *)
EndNotice(E, f) ==
    IF f \in Gone(E) THEN notify_retract(E, f)
    ELSE IF f \in Come(E) THEN notify_assert(E, f) ELSE E

Left(E) == [E EXCEPT !.batch = FALSE]
Forgotten(E) == [E EXCEPT !.old = <<>>, !.new = {}]

endBatch(E) ==
    IF ~E.batch THEN E
    ELSE Forgotten(ForEach(EndNotice, ForEach(EndNotice, Left(E), Gone(E)), Come(E)))

------------------------------------------------------------------------------
(* The definition of rules. *)

idInUse(E, id) == E.facts[id].out

(* isCircular(): a rule is met again when the rules that read its fact, the *)
(* rules that read theirs and so on are followed.  A rule's fact is looked  *)
(* up by the rule's name as it was written, facts are held in upper case:   *)
(* the names of the model are written so.                                   *)
RECURSIVE Reaches(_, _, _, _)
Reaches(E, from, target, depth) ==
    /\ depth > 0
    /\ \E r \in ToSet(E.deps[from]) : r = target \/ Reaches(E, r, target, depth - 1)

isCircular(E, id) == Reaches(E, id, id, Cardinality(DOMAIN E.rules) + 1)

(* The constructor: the output fact, and the rule among the readers of each *)
(* of its inputs.                                                           *)
WithInputs(E, D) ==
    [E EXCEPT !.deps = [f \in FactNames |-> IF f \in D.ins \cup D.asr THEN Append(@[f], D.id) ELSE @[f]]]

MakeRule(E, D) ==
    LET E1 == WithInputs([E EXCEPT !.facts[D.id].out = TRUE], D)
    IN  [E1 EXCEPT !.rules = Put(@, D.id, [ins |-> [f \in D.ins \cup D.asr |-> 0], valid |-> FALSE])]

(* evaluate() with no fact, after the definition: every input is copied.    *)
AllCopied(E, D) ==
    [ins |-> [f \in D.ins \cup D.asr |->
                 IF f \in D.asr THEN IF IsOn(E, f) THEN 1 ELSE 0
                 ELSE IF IsOn(E, f) THEN E.facts[f].val ELSE E.rules[D.id].ins[f]],
     valid |-> \A f \in D.ins : IsOn(E, f)]

(* defineRule(), and the definition of several rules: all are tried.        *)
Refuse(E) == [E EXCEPT !.ok = FALSE]

defineRule(E, Rules, D) ==
    IF idInUse(E, D.id) THEN Refuse(E)
    ELSE LET E1 == MakeRule(E, D)
         IN  IF isCircular(E1, D.id) THEN Refuse(E)
             ELSE Settle(E1, Rules, D, AllCopied(E1, D))

DefineAll(E, Rules) ==
    FoldLeft(LAMBDA acc, D : defineRule(acc, Rules, D), E, Rules)

(* synchronize(): the facts of the outside world are asserted in a new      *)
(* engine, silently.  What was noted meanwhile is not cleared.              *)
synchronize(E, Rules, from) ==
    LET facts == {f \in getAsserted(from) : ~from.facts[f].out}
        E1 == ForEach(LAMBDA acc, f : AssertFact(acc, Rules, f, from.facts[f].val),
                      [E EXCEPT !.batch = TRUE], facts)
    IN  [E1 EXCEPT !.batch = FALSE]
=============================================================================
