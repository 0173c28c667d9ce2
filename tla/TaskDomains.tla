---------------------------- MODULE TaskDomains -----------------------------
(***************************************************************************)
(* compute_variable_domains of a planning task (analysis): the objects that *)
(* can be bound to the parameters of its actions, conditional effects and   *)
(* axioms, and that can occur at the positions of its symbols. Only static  *)
(* information bounds a parameter, and the effects and axioms lift these    *)
(* bounds to what they can make true. The executor and the grounder         *)
(* instantiate an effect's own parameters from its domain alone, so that an *)
(* object missing there is an effect that never happens.                    *)
(*                                                                          *)
(* A task is a record of objects, of static and fluent facts, of actions    *)
(* [arity, condition, effects], and of axioms, those of the domain and of   *)
(* the problem. An effect is a record [arity, condition, literals,          *)
(* numeric]; its parameters follow those of the action. A numeric effect is *)
(* [op, fterm, expression].                                                 *)
(***************************************************************************)
EXTENDS RuleBodies

\* apply_policy of a numeric effect: its function term and those of its expression.
NumericTerms(N) == {n.fterm : n \in N} \cup UNION {FunctionTermsOf(n.expression) : n \in N}

\* Step 2.5: the constants of the static literals and the constraints of actions, of
\* effects, where fluent literals count too, and of axioms.
SchemaConstants(task, dom) ==
    dom \cup UNION {InsertConstants({}, OfSort(a.condition.literals, "static"), TermsOfConstraints(a.condition.constraints))
                    : a \in task.actions}
        \cup UNION {UNION {InsertConstants({}, OfSort(e.condition.literals, "static") \cup OfSort(e.condition.literals, "fluent"),
                                           TermsOfConstraints(e.condition.constraints)) : e \in a.effects} : a \in task.actions}
        \cup UNION {InsertConstants({}, OfSort(x.literals, "static"), TermsOfConstraints(x.constraints)) : x \in task.axioms}

\* Step 3: parameters of a condition, from the bounds given.
Restricted(dom, params, condition) ==
    RestrictDomains(dom, params, OfSort(condition.literals, "static"), TermsOfConstraints(condition.constraints))

Unbounded(task, arity) == [p \in 1 .. arity |-> task.objects]

ActionDomain(task, dom, a) == Restricted(dom, Unbounded(task, a.arity), a.condition)

\* Mutant: what is true initially bounds the parameters, too.
EffectDomainInitially(task, dom, a, e) ==
    RestrictDomains(dom, ActionDomain(task, dom, a) \o Unbounded(task, e.arity), e.condition.literals, {})

\* The parameters of an effect: the action's as bounded there, and its own.
EffectDomain(task, dom, a, e) ==
    Restricted(dom, ActionDomain(task, dom, a) \o Unbounded(task, e.arity), e.condition)

AxiomDomain(task, dom, x) == Restricted(dom, Unbounded(task, x.arity), x)

\* Step 4: what an action's condition mentions, ...
LiftedCondition(task, dom, a) ==
    Lift({}, ActionDomain(task, dom, a), a.condition.literals, TermsOfConstraints(a.condition.constraints))

\* ... an effect's condition, but for derived literals, its literals and numeric effects,
LiftedEffect(domain, e) ==
    Lift({}, domain,
         OfSort(e.condition.literals, "static") \cup OfSort(e.condition.literals, "fluent") \cup e.literals,
         TermsOfConstraints(e.condition.constraints) \cup NumericTerms(e.numeric))

\* ... an axiom's body and head.
LiftedAxiom(task, dom, x) ==
    Lift({}, AxiomDomain(task, dom, x), x.literals \cup {x.head}, TermsOfConstraints(x.constraints))

LiftedSymbols(task, dom) ==
    dom \cup UNION {LiftedCondition(task, dom, a) : a \in task.actions}
        \cup UNION {UNION {LiftedEffect(EffectDomain(task, dom, a, e), e) : e \in a.effects} : a \in task.actions}
        \cup UNION {LiftedAxiom(task, dom, x) : x \in task.axioms}

\* Step 5: the domains of the symbols, and of all parameters.
DomainsFrom(task, dom) ==
    [symbols |-> LiftedSymbols(task, dom),
     actions |-> [a \in task.actions |-> ActionDomain(task, dom, a)],
     effects |-> [a \in task.actions |-> [e \in a.effects |-> EffectDomain(task, dom, a, e)]],
     axioms |-> [x \in task.axioms |-> AxiomDomain(task, dom, x)]]

VariableDomains(task) == DomainsFrom(task, SchemaConstants(task, InitialDomains(task)))

-----------------------------------------------------------------------------
(* What the domains are for: a task from which all objects are tried        *)

CONSTANT DomainTasks

VARIABLES
    prog,       \* the task
    workspace,  \* its domains
    facts       \* static, fluent and derived facts of the state

domainVars == <<prog, workspace, facts>>

BindingsOf(arity) == [1 .. arity -> prog.objects]

HeadsOf(F) ==
    {<<h.sym, h.objects>> : h \in UNION {{[sym |-> x.head.sym, objects |-> Ground(x.head.terms, b)]
        : b \in {c \in BindingsOf(x.arity) : BodyHolds(x, c, F)}} : x \in prog.axioms}}

\* The facts together with all that the axioms derive.
RECURSIVE Closed(_)
Closed(F) ==
    IF HeadsOf(F) \subseteq F.atoms THEN F ELSE Closed([F EXCEPT !.atoms = @ \cup HeadsOf(F)])

Derived == {x.head.sym : x \in prog.axioms}

StateOf(atoms, values) ==
    Closed([atoms |-> prog.static.atoms \cup {a \in atoms : a[1] \notin Derived}, values |-> prog.static.values \cup values])

\* The bindings of an effect that extend b and fire.
Firing(e, b) ==
    {c \in BindingsOf(Len(b) + e.arity) : (\A p \in DOMAIN b : c[p] = b[p]) /\ BodyHolds(e.condition, c, facts)}

Atoms(a, b, pos) ==
    UNION {UNION {{<<l.sym, Ground(l.terms, c)>> : l \in {m \in e.literals : m.pos = pos}} : c \in Firing(e, b)} : e \in a.effects}

\* The values after numeric effects, here assignments.
Assigned(a, b) ==
    UNION {UNION {UNION {{<<n.fterm.sym, Ground(n.fterm.terms, c), v>> : v \in Evaluated(n.expression, c, facts)}
        : n \in e.numeric} : c \in Firing(e, b)} : e \in a.effects}

Overwritten(V) == {w \in facts.values : \E v \in V : v[1] = w[1] /\ v[2] = w[2]}

Apply(a, b) ==
    /\ BodyHolds(a.condition, b, facts)
    /\ facts' = StateOf((facts.atoms \ Atoms(a, b, FALSE)) \cup Atoms(a, b, TRUE),
                        (facts.values \ Overwritten(Assigned(a, b))) \cup Assigned(a, b))
    /\ UNCHANGED <<prog, workspace>>

DomainsInit ==
    /\ prog \in DomainTasks
    /\ workspace = VariableDomains(prog)
    /\ facts = StateOf(prog.fluent.atoms, prog.fluent.values)

DomainsNext == \E a \in prog.actions : \E b \in BindingsOf(a.arity) : Apply(a, b)

DomainsSpec == DomainsInit /\ [][DomainsNext]_domainVars

-----------------------------------------------------------------------------
(* Properties.                                                              *)

Within(b, domain) == \A p \in DOMAIN b : b[p] \in domain[p]

\* In every reachable state, whatever the fluents have become, each applicable action,
\* firing effect and axiom binds its parameters inside their domains, and each fact
\* has its arguments inside those of its symbol: bounds that are computed once, from
\* the initial facts and the schemas, exclude nothing.
DomainsSuffice ==
    /\ AtomDomains(facts.atoms) \cup ValueDomains(facts.values) \subseteq workspace.symbols
    /\ \A x \in prog.axioms, b \in UNION {BindingsOf(y.arity) : y \in prog.axioms} :
        Len(b) = x.arity /\ BodyHolds(x, b, facts) => Within(b, workspace.axioms[x])
    /\ \A a \in prog.actions : \A b \in BindingsOf(a.arity) : BodyHolds(a.condition, b, facts) =>
        /\ Within(b, workspace.actions[a])
        /\ \A e \in a.effects : \A c \in Firing(e, b) : Within(c, workspace.effects[a][e])
=============================================================================
