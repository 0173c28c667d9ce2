---------------------------- MODULE TaskPrograms ----------------------------
(***************************************************************************)
(* The Datalog programs of a lifted task (planning/programs/*.cpp), read on *)
(* ground instances: what the engine derives from a rule is what it derives *)
(* from the rule's bindings.                                                *)
(*                                                                          *)
(* A condition is a record                                                  *)
(*     static    whether its static literals hold (they never change)       *)
(*     pos, neg  its positive and negative fluent and derived atoms         *)
(* An action has a name, an index, a condition and a set of conditional     *)
(* effects, each with a condition, added and deleted atoms, other (numeric) *)
(* effects and a cost. An axiom has a body, a head, the name of the head's  *)
(* predicate and an index. A task further has initial atoms, a goal, the    *)
(* strata of its derived atoms and, from the invariant synthesis, groups.   *)
(***************************************************************************)
EXTENDS Naturals, FiniteSets, Sequences

\* A rule of a program.
Clause(pos, neg, head) == [pos |-> pos, neg |-> neg, head |-> head]

\* A condition holds in an extended state.
Holds(c, S) == c.static /\ c.pos \subseteq S /\ c.neg \cap S = {}

\* create_applicability_atom: its predicate is called after the name and index of an
\* action, or after the name of an axiom's head and the axiom's index.
App(x) == <<"app", x.name, x.index>>

\* What solve_bottom_up_for_stratum derives: negative literals refer to
\* atoms no rule of the stratum derives.
Fixpoint(rules, facts) ==
    LET fires(r, F) == r.pos \subseteq F /\ r.neg \cap F = {}
        reached[n \in 0 .. Cardinality(rules)] ==
            IF n = 0 THEN facts
            ELSE LET F == reached[n - 1] IN F \cup {r.head : r \in {q \in rules : fires(q, F)}}
    IN  reached[Cardinality(rules)]

\* solve_bottom_up: one stratum after the other.
Stratified(rules, strata, facts) ==
    LET model[k \in 0 .. Len(strata)] ==
            IF k = 0 THEN facts
            ELSE Fixpoint({r \in rules : r.head \in strata[k]}, model[k - 1])
    IN  model[Len(strata)]

-----------------------------------------------------------------------------
(* The programs *)

\* ApplicableActionProgram: one rule per action with all of its literals.
ActionProgram(task) ==
    {Clause(a.cond.pos, a.cond.neg, App(a)) : a \in {b \in task.actions : b.cond.static}}

\* AxiomEvaluatorProgram: the axioms themselves.
AxiomProgram(task) ==
    {Clause(x.body.pos, x.body.neg, x.head) : x \in {y \in task.axioms : y.body.static}}

\* append_from_condition keeps static literals, which the bindings of a rule
\* respect, and drops negative fluent and derived ones.
RelaxedRule(conds, extra, head) == Clause((UNION {c.pos : c \in conds}) \cup extra, {}, head)

\* GroundTaskProgram, actions: an applicability atom from the relaxed condition,
\* every added atom from it and the effect's relaxed condition.
ApplicabilityRules(task) ==
    {RelaxedRule({a.cond}, {}, App(a)) : a \in {b \in task.actions : b.cond.static}}

CondEffectRules(task) ==
    UNION {UNION {{RelaxedRule({e.cond}, {App(a)}, f) : f \in e.add} : e \in {d \in a.effects : d.cond.static}}
           : a \in {b \in task.actions : b.cond.static}}

\* Axioms: the same with the head in place of the added atoms.
AxiomRules(task) ==
    UNION {{RelaxedRule({x.body}, {}, App(x)), RelaxedRule({}, {App(x)}, x.head)}
           : x \in {y \in task.axioms : y.body.static}}

GroundTaskProgram(task) == ApplicabilityRules(task) \cup CondEffectRules(task) \cup AxiomRules(task)

\* Mutant: the polarity of the literals is not looked at.
RPGProgramAnyPolarity(task, derived) ==
    UNION {UNION {{Clause((a.cond.pos \cup a.cond.neg \cup e.cond.pos) \ derived, {}, f) : f \in e.add}
                  : e \in {d \in a.effects : d.cond.static}}
           : a \in {b \in task.actions : b.cond.static}}

\* RPGProgram: the relaxed conditions of action and effect in one body; derived
\* literals are dropped altogether, so that there are no rules for axioms.
RPGProgram(task, derived) ==
    UNION {UNION {{Clause((a.cond.pos \cup e.cond.pos) \ derived, {}, f) : f \in e.add}
                  : e \in {d \in a.effects : d.cond.static}}
           : a \in {b \in task.actions : b.cond.static}}
=============================================================================
