---- MODULE Formalism ----
(***************************************************************************)
(* A planner's use of its symbols, end to end.  A parsed domain and        *)
(* problem are translated; the task is copied to a Datalog program and to  *)
(* the repository of a ground task; symbols are copied between the four    *)
(* and grounded; and the program is solved, the rows its rule workers make *)
(* in their overlays being merged into the workspace iteration after       *)
(* iteration and read back as atoms of the task.                           *)
(*                                                                         *)
(* What is watched is that an index never comes to mean another symbol.    *)
(***************************************************************************)
EXTENDS Repositories, TLC

CONSTANTS
    Inputs,         \* [domain, problem, part]: syntax trees and what is done with them
    MaxCopies, MaxGround, MaxSolves, MaxIterations, MaxCliques  \* bounds on a behaviour

L == INSTANCE LokiToTyr
M == INSTANCE MergesGrounders
D == INSTANCE DatalogTypes

VARIABLES
    input,          \* the chosen element of Inputs
    pc,             \* "domain", "task", "program", "fdr", "work" or "refused"
    R,              \* the heap of repositories
    translator,     \* what the translator keeps between a domain and its tasks
    domain, task,   \* their handles
    fdr,            \* per repository of a task: its variables, mapping and cache
    p2d,            \* the planning predicates of the program
    rules,          \* the rules of the program, in order
    copies,         \* the merges done so far
    grounded,       \* the groundings done so far
    work,           \* how many symbols were copied or grounded, or cliques processed, since
    engine          \* the state of the bottom-up solver

vars == <<input, pc, R, translator, domain, task, fdr, p2d, rules, copies, grounded, work,
          engine>>

DomainRepository == 1
TaskRepository == 2
ProgramRepository == 3
FDRRepository == 4
CopyRepository == 5     \* another Datalog repository
WorkspaceRepository == 6

\* The overlays of the worker of rule i: over the program and over the workspace.
ProgramOverlay(i) == 5 + 2 * i
WorkspaceOverlay(i) == 6 + 2 * i

NoFDR == [variables |-> <<>>, mapping |-> <<>>, cache |-> <<>>]

Idle == [phase |-> "idle", solves |-> 0, iterations |-> 0, cliques |-> {}, facts |-> {},
         heads |-> <<>>, derived |-> {}, fired |-> {}]

Init ==
    /\ input \in Inputs
    /\ pc = "domain"
    /\ R = CreateRepository(<<>>, NoRepository)
    /\ translator = L!Translator(<<>>, DomainRepository)
    /\ domain = None /\ task = None
    /\ fdr = [r \in {TaskRepository, FDRRepository} |-> NoFDR]
    /\ p2d = <<>> /\ rules = <<>>
    /\ copies = {} /\ grounded = {} /\ work = 0
    /\ engine = Idle

(***************************************************************************)
(* Translation.                                                            *)
(***************************************************************************)

ParseDomain ==
    /\ pc = "domain"
    /\ \E S \in {L!TranslateDomain([translator EXCEPT !.R = R], input.domain)} :
          /\ R' = S.R
          /\ domain' = S.ret
          /\ translator' = [S EXCEPT !.R = <<>>]
          /\ pc' = IF S.thrown THEN "refused" ELSE "task"
    /\ UNCHANGED <<input, task, fdr, p2d, rules, copies, grounded, work, engine>>

ParseTask ==
    /\ pc = "task"
    /\ \E S \in {L!TranslateProblem([translator EXCEPT !.R = R], input.problem, input.domain, domain)} :
          /\ R' = S.R
          /\ task' = S.ret
          /\ translator' = [S EXCEPT !.R = <<>>]
          /\ fdr' = [fdr EXCEPT ![TaskRepository].variables = S.variables,
                                ![TaskRepository].mapping = S.mapping]
          /\ pc' = IF S.thrown THEN "refused" ELSE "program"
    /\ UNCHANGED <<input, domain, p2d, rules, copies, grounded, work, engine>>

TaskOf == At(R, TaskRepository, task)
DomainOf == At(R, DomainRepository, domain)

(***************************************************************************)
(* The Datalog program of a task.  Objects are copied in the order of      *)
(* their indices, because rows are copied by index afterwards.             *)
(***************************************************************************)

\* A predicate and its entry in the mapping.
WithMapping(c, p) == [c EXCEPT !.predicate_mapping = @ @@ (p :> c.ret)]

MergePredicate(S, p) ==
    WithMapping(M!P2DPredicate(S, p, IF p.k[2] = "static" THEN "static" ELSE "fluent"), p)

\* Mutant: the objects of the problem first.
ProgramObjectsFirst(d, t) == t.objects \o d.constants

ProgramObjects(d, t) == d.constants \o t.objects

ProgramSymbols(S, d, t) ==
    Each(M!P2DObject,
         Each(M!P2DFunction,
              Each(MergePredicate, S, d.static_predicates \o d.fluent_predicates \o d.derived_predicates
                                          \o t.derived_predicates),
              d.static_functions \o d.fluent_functions),
         ProgramObjects(d, t))

MergeFact(S, h) ==
    IF h.k[1] = "GroundAtom" THEN M!P2DGroundAtom(S, h) ELSE M!P2DGroundFunctionTermValue(S, h)

TaskFacts(t) == t.static_atoms \o t.fluent_atoms \o t.static_fterm_values \o t.fluent_fterm_values

ProgramFacts(S, t) == Each(MergeFact, S, TaskFacts(t))

\* A variable, literal or constraint of a planning condition, for a rule.
RuleConjunct(S, h) ==
    CASE h.k[1] = "Variable" -> M!P2DVariable(S, h)
      [] h.k[1] = "Literal" -> M!P2DLiteral(S, h)
      [] OTHER -> M!P2DFunctionExpression(S, h)

RuleConjuncts(S, list) == Each(RuleConjunct, S, list)

\* The whole condition as a Datalog condition.
RuleBodyOf(S, variables, c) ==
    D!NewConjunctiveCondition(
        Each(RuleConjuncts, S, <<variables, c.static_literals, c.fluent_literals \o c.derived_literals,
                                 c.numeric_constraints>>))

RuleBody(S, variables, condition) == RuleBodyOf(S, variables, M!Read(S, condition))

\* A rule with its variables, body and head.
RuleOf(head, variables, body) == D!Create(head, D!RuleData(variables, body, head.ret, 0))

\* create_axiom_rule: the rule itself gets no variables, its body does.
AxiomRuleHead(body, head) == RuleOf(M!P2DAtom(body, head), <<>>, body.ret)

AxiomRule(S, x) == AxiomRuleHead(RuleBody(S, x.variables, x.body), x.head)

CreateAxiomRule(S, axiom) == AxiomRule(S, M!Read(S, axiom))

ApplicabilityName(a, action) == "@" \o a.name \o "_" \o ToString(action.n)

\* The rule of an action derives its applicability predicate.
ActionRuleHead(body, a, p, variables) ==
    RuleOf(D!NewAtom(Return(body, [i \in DOMAIN a.variables |-> ParameterTerm(i - 1)]), p),
           variables, body.ret)

ActionRuleBody(vs, a, p) ==
    ActionRuleHead(RuleBody(vs, M!Read(vs, a.condition).variables, a.condition), a, p, vs.ret)

ActionRuleVariables(p, a) == ActionRuleBody(Each(M!P2DVariable, p, a.variables), a, p.ret)

ActionRule(S, a, action) ==
    ActionRuleVariables(
        Intern(S, PredicateData("fluent", ApplicabilityName(a, action), Len(a.variables))), a)

CreateActionRule(S, action) == ActionRule(S, M!Read(S, action), action)

Copy(route, from, h, to, c) == [route |-> route, from |-> from, h |-> h, to |-> to, c |-> c]

CreateRule(S, h) == IF h.k = <<"Axiom">> THEN CreateAxiomRule(S, h) ELSE CreateActionRule(S, h)

\* The program of the axioms or that of the actions.
CreateProgram ==
    /\ pc = "program"
    /\ \E t \in {TaskOf}, d \in {DomainOf} :
       \E all \in {ProgramFacts(ProgramSymbols(M!MergeContext(CreateRepository(R, NoRepository),
                                  TaskRepository, ProgramRepository, <<>>), d, t), t)} :
       \E rs \in {Each(CreateRule, all, IF input.part = "solve" THEN d.axioms \o t.axioms ELSE d.actions)} :
          /\ R' = rs.R
          /\ p2d' = rs.predicate_mapping
          /\ rules' = rs.ret
          /\ copies' = {Copy("p2d", TaskRepository, TaskFacts(t)[i], ProgramRepository, all.ret[i]) :
                           i \in DOMAIN all.ret}
    /\ pc' = "fdr"
    /\ UNCHANGED <<input, translator, domain, task, fdr, grounded, work, engine>>

(***************************************************************************)
(* The repository of the ground task, a second child of that of the        *)
(* domain, with one binary variable per fluent atom.                       *)
(***************************************************************************)

FDRSymbols(S, t) ==
    Each(M!P2PObject, Each(M!P2PPredicate, S, t.derived_predicates), t.objects)

CopyMember(S, h) ==
    CASE h.k[1] = "GroundAtom" -> M!P2PGroundAtom(S, h)
      [] h.k[1] = "GroundFunctionTermValue" -> M!P2PGroundFunctionTermValue(S, h)
      [] h.k[1] = "Metric" -> M!P2PMetric(S, h)
      [] h.k[1] = "Axiom" -> M!P2PAxiom(S, h)

\* The members of the task in the order they are copied; absent ones are skipped.
TaskMembers(t) ==
    t.fluent_atoms \o t.static_atoms \o t.static_fterm_values \o t.fluent_fterm_values
        \o SelectSeq(<<t.auxiliary_fterm_value, t.metric>>, LAMBDA h : h # None) \o t.axioms

FDRContents(S, t) == Each(CopyMember, S, TaskMembers(t))

\* FDRContext(fluent_atoms, repository).
FDRVariables(heap, atoms) ==
    LET start == Context(heap, FDRRepository, FDRRepository) @@ NoFDR
    IN  FoldLeft(L!GetFact, start, atoms)

\* The engine's repositories are made with the program's workspace.
AddOverlays(heap, i) == CreateRepository(CreateRepository(heap, ProgramRepository), WorkspaceRepository)

EngineRepositories(heap) ==
    FoldLeft(AddOverlays, CreateRepository(CreateRepository(heap, NoRepository), ProgramRepository),
             [i \in DOMAIN rules |-> i])

\* The Datalog repository of d2d merges starts with the symbols of the program.
AllOf(S, keys) ==
    FlattenSeq([j \in DOMAIN keys |->
                  [i \in 1..SizeOf(S.R, S.src, keys[j]) |-> Handle(keys[j], i - 1)]])

CopySymbols(S) ==
    Each(M!D2DObject,
         Each(M!D2DFunction,
              Each(M!D2DPredicate, S, AllOf(S, <<<<"Predicate", "static">>, <<"Predicate", "fluent">>>>)),
              AllOf(S, <<<<"Function", "static">>, <<"Function", "fluent">>>>)),
         AllOf(S, <<<<"Object">>>>))

CreateFDRTask ==
    /\ pc = "fdr"
    /\ \E t \in {TaskOf} :
       \E all \in {FDRContents(FDRSymbols(M!MergeContext(CreateRepository(R, DomainRepository),
                                 TaskRepository, FDRRepository, <<>>), t), t)} :
       \E context \in {FDRVariables(all.R, SubSeq(all.ret, 1, Len(t.fluent_atoms)))} :
          /\ R' = CopySymbols(M!MergeContext(EngineRepositories(context.R), ProgramRepository,
                                             CopyRepository, <<>>)).R
          /\ fdr' = [fdr EXCEPT ![FDRRepository] =
                       [variables |-> context.variables, mapping |-> context.mapping, cache |-> <<>>]]
          /\ copies' = copies \cup {Copy("p2p", TaskRepository, TaskMembers(t)[i], FDRRepository, all.ret[i]) :
                                       i \in DOMAIN all.ret}
    /\ pc' = "work"
    /\ UNCHANGED <<input, translator, domain, task, p2d, rules, grounded, work, engine>>

(***************************************************************************)
(* Copying one more symbol, on one of the four routes.                     *)
(***************************************************************************)

From(route) == IF route \in {"p2p", "p2d"} THEN TaskRepository ELSE ProgramRepository
To(route) ==
    CASE route \in {"p2p", "d2p"} -> FDRRepository
      [] route = "p2d" -> WorkspaceRepository
      [] route = "d2d" -> CopyRepository

\* The Datalog predicates back to the planning ones.
d2p == [q \in Range(p2d) |-> CHOOSE p \in DOMAIN p2d : p2d[p] = q]

MergeP2P(S, h) ==
    CASE h.k[1] = "Variable" -> M!P2PVariable(S, h)
      [] h.k[1] = "Atom" -> M!P2PAtom(S, h)
      [] h.k[1] = "GroundAtom" -> M!P2PGroundAtom(S, h)
      [] h.k[1] = "Literal" -> M!P2PLiteral(S, h)
      [] h.k[1] = "GroundLiteral" -> M!P2PGroundLiteral(S, h)
      [] h.k[1] = "FunctionTerm" -> M!P2PFunctionTerm(S, h)
      [] h.k[1] = "GroundFunctionTerm" -> M!P2PGroundFunctionTerm(S, h)
      [] h.k[1] \in {"Unary", "Binary", "Multi"} -> M!P2PFunctionExpression(S, h)
      [] h.k[1] = "NumericEffect" -> M!P2PNumericEffect(S, h)
      [] h.k[1] = "GroundNumericEffect" -> M!P2PGroundNumericEffect(S, h)
      [] h.k[1] = "ConjunctiveCondition" -> M!P2PConjunctiveCondition(S, h)
      [] h.k[1] = "FDRVariable" -> M!P2PFDRVariable(S, h)

MergeP2D(S, h) ==
    CASE h.k[1] = "Variable" -> M!P2DVariable(S, h)
      [] h.k[1] = "Atom" -> M!P2DAtom(S, h)
      [] h.k[1] = "GroundAtom" -> M!P2DGroundAtom(S, h)
      [] h.k[1] = "Literal" -> M!P2DLiteral(S, h)
      [] h.k[1] = "GroundLiteral" -> M!P2DGroundLiteral(S, h)
      [] h.k[1] = "FunctionTerm" -> M!P2DFunctionTerm(S, h)
      [] h.k[1] = "GroundFunctionTerm" -> M!P2DGroundFunctionTerm(S, h)
      [] h.k[1] \in {"Unary", "Binary", "Multi"} -> M!P2DFunctionExpression(S, h)

MergeD2P(S, h) ==
    CASE h.k[1] = "Variable" -> M!D2PVariable(S, h)
      [] h.k[1] = "Atom" -> M!D2PAtom(S, h)
      [] h.k[1] = "GroundAtom" -> M!D2PGroundAtom(S, h)
      [] h.k[1] = "Literal" -> M!D2PLiteral(S, h)
      [] h.k[1] = "GroundLiteral" -> M!D2PGroundLiteral(S, h)
      [] h.k[1] = "FunctionTerm" -> M!D2PFunctionTerm(S, h)
      [] h.k[1] = "GroundFunctionTerm" -> M!D2PGroundFunctionTerm(S, h)
      [] h.k[1] \in {"Unary", "Binary", "Multi"} -> M!D2PFunctionExpression(S, h)

MergeD2D(S, h) ==
    CASE h.k[1] = "Variable" -> M!D2DVariable(S, h)
      [] h.k[1] = "Atom" -> M!D2DAtom(S, h)
      [] h.k[1] = "GroundAtom" -> M!D2DGroundAtom(S, h)
      [] h.k[1] = "Literal" -> M!D2DLiteral(S, h)
      [] h.k[1] = "GroundLiteral" -> M!D2DGroundLiteral(S, h)
      [] h.k[1] = "FunctionTerm" -> M!D2DFunctionTerm(S, h)
      [] h.k[1] = "GroundFunctionTerm" -> M!D2DGroundFunctionTerm(S, h)
      [] h.k[1] = "Rule" -> M!D2DRule(S, h)
      [] h.k[1] \in {"Unary", "Binary", "Multi"} -> M!D2DFunctionExpression(S, h)

PlanningOnly == {"NumericEffect", "GroundNumericEffect", "ConjunctiveCondition", "FDRVariable"}

\* Applications of total-cost stay in the planning formalism, the applicability predicates
\* in the Datalog one.
Mergeable(route, h) ==
    \/ /\ h.k[1] \in {"Variable", "Atom", "GroundAtom", "Literal", "GroundLiteral", "FunctionTerm",
                      "GroundFunctionTerm", "Unary", "Binary", "Multi"}
       /\ route # "p2p" => h.k \notin {<<"FunctionTerm", "auxiliary">>,
                                       <<"GroundFunctionTerm", "auxiliary">>}
       /\ route = "d2p" /\ h.k[1] = "Atom" => At(R, From(route), h).predicate \in DOMAIN d2p
    \/ route = "p2p" /\ h.k[1] \in PlanningOnly
    \/ route = "d2d" /\ h.k[1] = "Rule"

HandlesOf(r) ==
    UNION {{Handle(key, n) : n \in 0..SizeOf(R, r, key) - 1} : key \in SlotKeys(R, r)}

Merge(route, S, h) ==
    CASE route = "p2p" -> MergeP2P(S, h)
      [] route = "p2d" -> MergeP2D([S EXCEPT !.predicate_mapping = p2d], h)
      [] route = "d2p" -> MergeD2P([S EXCEPT !.predicate_mapping = d2p], h)
      [] route = "d2d" -> MergeD2D(S, h)

\* An expression that reads total-cost cannot be merged to Datalog.
CopySymbol(route, h) ==
    /\ pc = "work" /\ input.part = "copy" /\ work < MaxCopies
    /\ \E S \in {Merge(route, M!MergeContext(R, From(route), To(route), <<>>), h)} :
          /\ R' = S.R
          /\ copies' = IF S.thrown THEN copies
                       ELSE copies \cup {Copy(route, From(route), h, To(route), S.ret)}
    /\ work' = work + 1
    /\ UNCHANGED <<input, pc, translator, domain, task, fdr, p2d, rules, grounded, engine>>

(***************************************************************************)
(* Grounding actions and axioms, in the repository of the task as the      *)
(* lifted planner does, and in that of the ground task.                    *)
(***************************************************************************)

Tuples(S, n) == [1..n -> S]

ObjectHandles == {Handle(<<"Object">>, n) : n \in 0..SizeOf(R, TaskRepository, <<"Object">>) - 1}

\* The domains of every effect: any object for every variable in scope.
AllDomains(action) ==
    LET a == At(R, DomainRepository, action)
        Arity(e) == Len(a.variables) + Len(At(R, DomainRepository, e).variables)
    IN  [e \in ToSet(a.effects) |-> [i \in 1..Arity(e) |-> ObjectHandles]]

GroundSymbol(S, h) ==
    IF h.k = <<"Action">> THEN M!GroundAction(S, h, AllDomains(h)) ELSE M!GroundAxiom(S, h)

Ground(r, h, binding) ==
    /\ pc = "work" /\ input.part = "ground" /\ work < MaxGround
    /\ \E T \in {GroundSymbol(M!GrounderContext(R, r, r, fdr[r].variables, fdr[r].mapping, fdr[r].cache,
                                                 binding), h)} :
          /\ R' = T.R
          /\ fdr' = [fdr EXCEPT ![r] = [variables |-> T.variables, mapping |-> T.mapping,
                                        cache |-> T.cache]]
          /\ grounded' = grounded \cup {[repository |-> r, h |-> h, binding |-> binding, g |-> T.ret]}
    /\ work' = work + 1
    /\ UNCHANGED <<input, pc, translator, domain, task, p2d, rules, copies, engine>>

(***************************************************************************)
(* The meaning of a symbol under a binding: names for its parameters.      *)
(***************************************************************************)

SubstituteTerms(terms, names) ==
    [i \in DOMAIN terms |->
        IF terms[i][1] = "parameter" THEN <<"object", names[terms[i][2] + 1]>> ELSE terms[i]]

Substitute(atom, names) == <<atom[1], SubstituteTerms(atom[2], names)>>

(***************************************************************************)
(* The bottom-up solver's rows.  The fluent facts are rows of the          *)
(* workspace repository, which keeps its rows from one solve to the next.  *)
(* A worker looks up the head of a rule in its overlay of the workspace,   *)
(* which is cleared when an iteration starts, and makes the row of a new   *)
(* head in its overlay of the program, which is cleared when a solve       *)
(* starts; the rows made in an iteration are merged into the workspace     *)
(* when all workers are done.  Which bindings the workers meet, and when,  *)
(* is the business of the delta cliques (modules DeltaKpkc and BottomUp);  *)
(* here they may be any.                                                   *)
(***************************************************************************)

ClearedOverlays ==
    FoldLeft(LAMBDA H, i : ClearRepository(H, ProgramOverlay(i)), R, [i \in DOMAIN rules |-> i])

\* Mutant: the facts of the last solve are kept.
SolveKeepsFacts(atoms) ==
    /\ pc = "work" /\ input.part = "solve"
    /\ engine.phase = "idle" /\ engine.solves < MaxSolves
    /\ \E S \in {Each(M!P2DGroundAtom, M!MergeContext(ClearedOverlays, TaskRepository, WorkspaceRepository,
                                                       p2d), SetToSeq(atoms))} :
          /\ R' = S.R
          /\ engine' = [engine EXCEPT
                !.phase = "solving", !.solves = @ + 1, !.iterations = 0,
                !.facts = @ \cup {At(S.R, WorkspaceRepository, a).binding : a \in ToSet(S.ret)},
                !.derived = {L!GroundAtomView(R, TaskRepository, a) : a \in atoms}]
    /\ UNCHANGED <<input, pc, translator, domain, task, fdr, p2d, rules, copies, grounded, work>>

\* A state: some atoms with fluent predicates, merged into the workspace.
Solve(atoms) ==
    /\ pc = "work" /\ input.part = "solve"
    /\ engine.phase = "idle" /\ engine.solves < MaxSolves
    /\ \E S \in {Each(M!P2DGroundAtom, M!MergeContext(ClearedOverlays, TaskRepository, WorkspaceRepository,
                                                       p2d), SetToSeq(atoms))} :
          /\ R' = S.R
          /\ engine' = [engine EXCEPT
                !.phase = "solving", !.solves = @ + 1, !.iterations = 0,
                !.facts = {At(S.R, WorkspaceRepository, a).binding : a \in ToSet(S.ret)},
                !.derived = {L!GroundAtomView(R, TaskRepository, a) : a \in atoms}]
    /\ UNCHANGED <<input, pc, translator, domain, task, fdr, p2d, rules, copies, grounded, work>>

\* Every active rule clears its overlay of the workspace before anything else.
StartIteration ==
    /\ engine.phase = "solving" /\ engine.iterations < MaxIterations
    /\ R' = FoldLeft(LAMBDA H, i : ClearRepository(H, WorkspaceOverlay(i)), R,
                     [i \in DOMAIN rules |-> i])
    /\ engine' = [engine EXCEPT !.phase = "iteration", !.iterations = @ + 1, !.cliques = {},
                                !.heads = [i \in DOMAIN rules |-> {}], !.fired = {}]
    /\ UNCHANGED <<input, pc, translator, domain, task, fdr, p2d, rules, copies, grounded, work>>

StaticRows ==
    {At(R, ProgramRepository, h).binding :
        h \in {x \in HandlesOf(ProgramRepository) : x.k = <<"GroundAtom", "static">>}}

\* Whether the row of a literal, made in the overlay if it is nowhere, is a fact.
RowOfLiteral(S, l) == M!DatalogAtomBinding(S, M!Read(S, l).atom)

AreFacts(rows, literals, facts) ==
    Return(rows, \A i \in DOMAIN literals :
                    (rows.ret[i] \in facts) = M!Read(rows, literals[i]).polarity)

Holds(S, literals, facts) == AreFacts(Each(RowOfLiteral, S, literals), literals, facts)

\* What the head and the body of a rule denote under a binding, without any index.
HeadMeaning(rule, names) == Substitute(L!AtomView(R, ProgramRepository, rule.head), names)
StaticMeanings == {L!GroundAtomView(R, TaskRepository, a) : a \in ToSet(TaskOf.static_atoms)}

ConditionHolds(c, names) ==
    /\ \A l \in c.static : (Substitute(l[1], names) \in StaticMeanings) = l[2]
    /\ \A l \in c.fluent : (Substitute(l[1], names) \in engine.derived) = l[2]

FiredHeads(rule, names) ==
    IF ConditionHolds(D!ConjunctiveConditionView(R, ProgramRepository, rule.body), names)
    THEN {HeadMeaning(rule, names)} ELSE {}

\* The applicability of the body, and the heap with the rows the test made.
Conjunction(fluent, static) == Return(fluent, static /\ fluent.ret)

FluentApplicable(S, body) == Conjunction(Holds(S, body.fluent_literals, engine.facts), S.ret)

BodyApplicable(S, body) == FluentApplicable(Holds(S, body.static_literals, StaticRows), body)

\* process_clique: nothing for a head that is a fact already.
ProcessClique(i, binding) ==
    /\ engine.phase = "iteration" /\ work < MaxCliques
    /\ <<i, binding>> \notin engine.cliques
    /\ \E rule \in {At(R, ProgramRepository, rules[i])} :
       \E head \in {M!DatalogAtomBinding(M!GrounderContext(R, WorkspaceOverlay(i), WorkspaceOverlay(i),
                                                          <<>>, <<>>, <<>>, binding), rule.head)} :
       \E body \in {IF head.ret \in engine.facts THEN Return(head, FALSE)
                    ELSE BodyApplicable(head, At(R, ProgramRepository, rule.body))} :
       \E out \in {IF body.ret
                   THEN M!DatalogAtomBinding([body EXCEPT !.src = ProgramOverlay(i), !.dst = ProgramOverlay(i)],
                                             rule.head)
                   ELSE body} :
          /\ R' = out.R
          /\ engine' = [engine EXCEPT
                !.cliques = @ \cup {<<i, binding>>},
                !.heads[i] = IF body.ret THEN @ \cup {out.ret} ELSE @,
                !.fired = @ \cup FiredHeads(rule, NamesView(R, ProgramRepository, binding))]
    /\ work' = work + 1
    /\ UNCHANGED <<input, pc, translator, domain, task, fdr, p2d, rules, copies, grounded>>

\* The rows of one worker's overlay become rows of the workspace.
MergeHeads(S, i) ==
    Each(M!D2DPredicateBinding, [S EXCEPT !.src = ProgramOverlay(i)],
         SetToSortSeq(engine.heads[i], LAMBDA g, h : g.n < h.n))

EndIteration ==
    /\ engine.phase = "iteration"
    /\ \E S \in {Each(MergeHeads, M!MergeContext(R, NoRepository, WorkspaceRepository, <<>>),
                      [i \in DOMAIN rules |-> i])} :
       \E new \in {UNION {ToSet(S.ret[i]) : i \in DOMAIN rules}} :
          /\ R' = S.R
          /\ engine' = [engine EXCEPT
                !.phase = IF new = {} \/ engine.iterations = MaxIterations THEN "idle" ELSE "solving",
                !.facts = @ \cup new, !.derived = @ \cup engine.fired,
                !.cliques = {}, !.heads = <<>>, !.fired = {}]
    /\ UNCHANGED <<input, pc, translator, domain, task, fdr, p2d, rules, copies, grounded, work>>

\* read_derived_atoms_from_program_context: the facts with a derived predicate become atoms
\* of the task.
DerivedRows == {h \in engine.facts : h.k[2] \in DOMAIN d2p /\ d2p[h.k[2]].k[2] = "derived"}

ReadDerivedAtoms ==
    /\ engine.phase = "idle" /\ engine.facts # {}
    /\ DerivedRows # {}
    /\ \E list \in {SetToSeq(DerivedRows)} :
       \E S \in {Each(M!MergeAtomD2P, M!MergeContext(R, WorkspaceRepository, TaskRepository, d2p), list)} :
          /\ R' = S.R
          /\ copies' = copies \cup {Copy("row", WorkspaceRepository, list[i], TaskRepository, S.ret[i]) :
                                       i \in DOMAIN list}
    /\ UNCHANGED <<input, pc, translator, domain, task, fdr, p2d, rules, grounded, work, engine>>

FluentAtoms == {h \in HandlesOf(TaskRepository) : h.k = <<"GroundAtom", "fluent">>}

Groundable(r) ==
    ToSet(DomainOf.actions) \cup ToSet(DomainOf.axioms)
        \cup (IF r = TaskRepository THEN ToSet(TaskOf.axioms) ELSE {})

Next ==
    \/ ParseDomain \/ ParseTask \/ CreateProgram \/ CreateFDRTask
    \/ pc = "work" /\ \E route \in {"p2p", "p2d", "d2p", "d2d"} :
                         \E h \in {x \in HandlesOf(From(route)) : Mergeable(route, x)} : CopySymbol(route, h)
    \/ pc = "work" /\ \E r \in {TaskRepository, FDRRepository} : \E h \in Groundable(r) :
                         \E b \in Tuples(ObjectHandles, Len(At(R, r, h).variables)) : Ground(r, h, b)
    \/ pc = "work" /\ \E atoms \in SUBSET FluentAtoms : Solve(atoms)
    \/ StartIteration
    \/ pc = "work" /\ \E i \in DOMAIN rules :
                         LET rule == At(R, ProgramRepository, rules[i])
                             arity == Len(At(R, ProgramRepository, rule.body).variables)
                         IN  \E b \in Tuples(ObjectHandles, arity) : ProcessClique(i, b)
    \/ EndIteration
    \/ ReadDerivedAtoms

Spec == Init /\ [][Next]_vars

(***************************************************************************)
(* What a syntax tree means: its atoms and expressions with the variables  *)
(* in scope replaced by their positions, read off the tree directly.       *)
(***************************************************************************)

TermMeaning(term, scope) ==
    IF term.t = "object" THEN <<"object", term.name>>
    ELSE <<"parameter", Position(scope, term.name) - 1>>

TermsMeaning(terms, scope) == [i \in DOMAIN terms |-> TermMeaning(terms[i], scope)]

LiteralMeaning(l, scope) ==
    <<<<<<l.atom.predicate.name, l.atom.predicate.arity>>, TermsMeaning(l.atom.terms, scope)>>, l.polarity>>

FunctionMeaning(f, scope) ==
    <<"fterm", <<f.skeleton.name, f.skeleton.arity>>, TermsMeaning(f.terms, scope)>>

RECURSIVE ExpressionMeaning(_, _)
ExpressionMeaning(x, scope) ==
    CASE x.t = "number" -> <<"float", x.value>>
      [] x.t = "function" -> FunctionMeaning(x.function, scope)
      [] x.t = "minus" -> <<"unary", "sub", ExpressionMeaning(x.arg, scope)>>
      [] x.t = "multi" -> <<"multi", x.op, {ExpressionMeaning(y, scope) : y \in ToSet(x.args)}>>
      [] x.t \in {"binary", "numeric"} ->
            LET lhs == ExpressionMeaning(x.lhs, scope)
                rhs == ExpressionMeaning(x.rhs, scope)
            IN  <<"binary", x.op, IF x.op \in {"add", "mul"} THEN {lhs, rhs} ELSE <<lhs, rhs>>>>

\* A condition as the set of its conjuncts.
ConditionMeaning(c, scope) ==
    {IF x.t = "literal" THEN LiteralMeaning(x.literal, scope) ELSE ExpressionMeaning(x, scope) :
        x \in ToSet(L!ConjunctsOf(c))}

OptionalMeaning(list, scope) == IF list = <<>> THEN {} ELSE ConditionMeaning(list[1], scope)

\* An effect as the set of its guarded simple effects.
EffectMeaning(e, scope) ==
    {LET inner == IF x.t = "forall" THEN x.effect ELSE x
         all == IF x.t = "forall" THEN scope \o x.parameters ELSE scope
         simple == IF inner.t = "when" THEN inner.effect ELSE inner
     IN  <<IF inner.t = "when" THEN ConditionMeaning(inner.condition, all) ELSE {},
           IF simple.t = "literal" THEN LiteralMeaning(simple.literal, all)
           ELSE <<simple.op, FunctionMeaning(simple.function, all),
                  ExpressionMeaning(simple.expression, all)>>>> :
        x \in ToSet(L!ConjunctsOf(e))}

ActionMeaning(a) ==
    [name |-> a.name, arity |-> a.original_arity, variables |-> a.parameters,
     condition |-> OptionalMeaning(a.condition, a.parameters),
     effects |-> IF a.effect = <<>> THEN {} ELSE EffectMeaning(a.effect[1], a.parameters)]

AxiomMeaning(x) ==
    [variables |-> x.parameters, body |-> ConditionMeaning(x.condition, x.parameters),
     head |-> LiteralMeaning(x.literal, x.parameters)[1]]

(***************************************************************************)
(* The same, read through the views of the translated symbols.             *)
(***************************************************************************)

Conjuncts(c) == c.static \cup c.fluent \cup c.derived \cup c.constraints

GroundConjuncts(c) ==
    c.static \cup c.derived \cup {<<a, TRUE>> : a \in c.positive}
        \cup {<<a, FALSE>> : a \in c.negative} \cup c.constraints

SimpleEffects(e) == e.literals \cup e.numeric \cup e.auxiliary

ActionDenotes(a) ==
    [name |-> a.name, arity |-> a.original_arity, variables |-> a.variables,
     condition |-> Conjuncts(a.condition),
     effects |-> UNION {{<<Conjuncts(e.condition), x>> : x \in SimpleEffects(e.effect)} : e \in a.effects}]

AxiomDenotes(x) == [variables |-> x.variables, body |-> Conjuncts(x.body), head |-> x.head]

\* Every parameter an effect mentions has an object when the effect is grounded.
TermsInScope(terms, n) == \A i \in DOMAIN terms : terms[i][1] = "parameter" => terms[i][2] < n
EffectInScope(a, e) ==
    LET n == Len(a.variables) + Len(e.variables)
    IN  \A l \in e.effect.literals \cup e.condition.static \cup e.condition.fluent \cup e.condition.derived :
            TermsInScope(l[1][2], n)

Changed ==
    {x.literal.atom.predicate.name :
        x \in {e \in UNION {L!SimpleEffectsOf(a) : a \in ToSet(input.domain.actions)} : e.t = "literal"}}
Derived ==
    {x.literal.atom.predicate.name : x \in ToSet(input.domain.axioms) \cup ToSet(input.problem.axioms)}

\* Static predicates are those no effect changes and no axiom derives.
KindsRight(static, fluent, derived) ==
    /\ \A p \in static : p[1] \notin Changed \cup Derived
    /\ \A p \in fluent : p[1] \in Changed \ Derived
    /\ \A p \in derived : p[1] \in Derived

DomainRight(v) ==
    LET ast == input.domain
    IN  /\ v.constants = ToSet(ast.constants)
        /\ v.static \cup v.fluent \cup v.derived = {<<p.name, p.arity>> : p \in ToSet(ast.predicates)}
        /\ KindsRight(v.static, v.fluent, v.derived)
        /\ {ActionDenotes(a) : a \in v.actions} = {ActionMeaning(a) : a \in ToSet(ast.actions)}
        /\ \A a \in v.actions : \A e \in a.effects : EffectInScope(a, e)
        /\ {AxiomDenotes(x) : x \in v.axioms} = {AxiomMeaning(x) : x \in ToSet(ast.axioms)}

TaskRight(v) ==
    LET ast == input.problem
        init == {LiteralMeaning(l, <<>>)[1] : l \in ToSet(ast.initial_literals)}
        values == {<<FunctionMeaning(x.function, <<>>), x.number>> : x \in ToSet(ast.initial_values)}
    IN  /\ v.objects = ToSet(ast.objects)
        /\ v.derived = {<<p.name, p.arity>> : p \in ToSet(ast.predicates)}
        /\ v.static \cup v.fluent = init
        /\ KindsRight({a[1] : a \in v.static}, {a[1] : a \in v.fluent}, v.derived)
        /\ v.values \cup v.total_cost = values
        /\ GroundConjuncts(v.goal) = OptionalMeaning(ast.goal, <<>>)
        /\ v.metric = {<<m.objective, ExpressionMeaning(m.expression, <<>>)>> : m \in ToSet(ast.metric)}
        /\ {AxiomDenotes(x) : x \in v.axioms} = {AxiomMeaning(x) : x \in ToSet(ast.axioms)}

\* A translated domain or task says what its syntax tree says: every effect under its own
\* guard and in its own scope, every predicate of the right kind; only unsupported inputs
\* are refused (LokiToTyrTranslator).
TranslationFaithful ==
    /\ pc = "task" => DomainRight(L!DomainView(R, DomainRepository, domain))
    /\ pc = "program" => TaskRight(L!TaskView(R, TaskRepository, task))
    /\ pc = "refused" => ~input.supported
    /\ pc = "program" => input.supported

(***************************************************************************)
(* Interning.                                                              *)
(***************************************************************************)

\* The overlays of the workspace are stale outside an iteration, and nobody reads them.
LiveRepositories ==
    DOMAIN R \ (IF engine.phase = "iteration" THEN {} ELSE {WorkspaceOverlay(i) : i \in DOMAIN rules})

\* In a chain of repositories one symbol has one handle: no layer repeats what a layer above
\* it has, and no parent grew under a child that counts on from its old size
\* (Repository::get_or_create, exists_parent_mutation).
SymbolsShared ==
    \A r \in LiveRepositories : \A key \in SlotKeys(R, r) :
        /\ ~ParentMutated(R, r, key)
        /\ LET handles == {Handle(key, n) : n \in 0..SizeOf(R, r, key) - 1}
           IN  /\ \A h \in handles : Valid(R, r, h)
               /\ Cardinality({IdentifyingMembers(At(R, r, h)) : h \in handles}) = Cardinality(handles)

(***************************************************************************)
(* Merging.                                                                *)
(***************************************************************************)

\* A rule without the variables of its body, which merge_d2d does not copy.
RuleMeaning(v) ==
    [v EXCEPT !.body = [f \in {"static", "fluent", "constraints"} |-> v.body[f]]]

SymbolView(r, h) ==
    CASE h.k[1] = "Variable" -> NameView(R, r, h)
      [] h.k[1] = "Row" -> <<RelationView(R, r, h.k[2]), L!ObjectTerms(BindingView(R, r, h))>>
      [] h.k[1] = "Atom" -> L!AtomView(R, r, h)
      [] h.k[1] = "GroundAtom" -> L!GroundAtomView(R, r, h)
      [] h.k[1] = "Literal" -> L!LiteralView(R, r, h)
      [] h.k[1] = "GroundLiteral" -> L!GroundLiteralView(R, r, h)
      [] h.k[1] = "GroundFunctionTermValue" -> L!GroundFunctionTermValueView(R, r, h)
      [] h.k[1] \in {"NumericEffect", "GroundNumericEffect"} -> L!NumericEffectView(R, r, h)
      [] h.k[1] = "ConjunctiveCondition" -> L!ConjunctiveConditionView(R, r, h)
      [] h.k[1] = "Axiom" -> L!AxiomView(R, r, h)
      [] h.k[1] = "FDRVariable" -> L!FDRVariableView(R, r, h)
      [] h.k[1] = "Metric" -> L!MetricView(R, r, h)
      [] h.k[1] = "Rule" -> RuleMeaning(D!RuleView(R, r, h))
      [] OTHER -> L!FunctionExpressionView(R, r, h)

\* A merged symbol means in its new repository what it meant in the old one, whatever was
\* merged before it; a symbol already there keeps its handle (merge_p2p, merge_p2d,
\* merge_d2p, merge_d2d).
CopiesFaithful == \A c \in copies : SymbolView(c.from, c.h) = SymbolView(c.to, c.c)

(***************************************************************************)
(* Grounding.                                                              *)
(***************************************************************************)

RECURSIVE SubstituteExpression(_, _)
SubstituteExpression(x, names) ==
    CASE x[1] = "float" -> x
      [] x[1] = "fterm" -> <<"fterm", x[2], SubstituteTerms(x[3], names)>>
      [] x[1] = "unary" -> <<"unary", x[2], SubstituteExpression(x[3], names)>>
      [] x[1] = "multi" -> <<"multi", x[2], {SubstituteExpression(y, names) : y \in x[3]}>>
      [] x[1] = "binary" /\ x[2] \in {"add", "mul"} ->
            <<"binary", x[2], {SubstituteExpression(y, names) : y \in x[3]}>>
      [] x[1] = "binary" /\ x[2] \notin {"add", "mul"} ->
            <<"binary", x[2], [i \in 1..2 |-> SubstituteExpression(x[3][i], names)]>>

SubstituteCondition(c, names) ==
    {<<Substitute(l[1], names), l[2]>> : l \in c.static \cup c.fluent \cup c.derived}
        \cup {SubstituteExpression(x, names) : x \in c.constraints}

SubstituteEffect(e, names) ==
    {<<Substitute(l[1], names), l[2]>> : l \in e.literals}
        \cup {<<x[1], SubstituteExpression(x[2], names), SubstituteExpression(x[3], names)>> :
                x \in e.numeric \cup e.auxiliary}

GroundEffects(e) ==
    {<<a, TRUE>> : a \in e.add} \cup {<<a, FALSE>> : a \in e.del} \cup e.numeric \cup e.auxiliary

ActionGrounded(a, v, names, all) ==
    /\ v.action = a.name /\ v.objects = names
    /\ GroundConjuncts(v.condition) = SubstituteCondition(a.condition, names)
    /\ {<<GroundConjuncts(e.condition), GroundEffects(e.effect)>> : e \in v.effects} =
          UNION {{<<SubstituteCondition(e.condition, names \o u), SubstituteEffect(e.effect, names \o u)>> :
                     u \in Tuples(all, Len(e.variables))} : e \in a.effects}

AxiomGrounded(x, v, names) ==
    /\ v.objects = names
    /\ GroundConjuncts(v.body) = SubstituteCondition(x.body, names)
    /\ v.head = Substitute(x.head, names)

\* A ground action or axiom is its schema with the objects of the binding for the parameters
\* and, in every effect, each tuple of objects for the universal variables, also when it
\* comes out of the cache (ground of actions and axioms).
GroundFaithful ==
    \A g \in grounded :
        LET names == [i \in DOMAIN g.binding |-> NameView(R, g.repository, g.binding[i])]
            all == {NameView(R, TaskRepository, o) : o \in ObjectHandles}
        IN  IF g.h.k = <<"Action">>
            THEN ActionGrounded(L!ActionView(R, g.repository, g.h),
                                L!GroundActionView(R, g.repository, g.g), names, all)
            ELSE AxiomGrounded(L!AxiomView(R, g.repository, g.h),
                               L!GroundAxiomView(R, g.repository, g.g), names)

(***************************************************************************)
(* Solving.                                                                *)
(***************************************************************************)

RowsView(r, rows) == {SymbolView(r, h) : h \in rows}

\* The rows that are facts stand for exactly the atoms derived from the state of this solve,
\* and the rows of the workers for exactly the new heads of this iteration, whatever rows an
\* earlier iteration, an earlier solve or another rule left in the repositories
\* (process_clique, solve_bottom_up_for_stratum).
RowsFaithful ==
    /\ RowsView(WorkspaceRepository, engine.facts) = engine.derived
    /\ engine.phase = "iteration" =>
          UNION {RowsView(ProgramOverlay(i), engine.heads[i]) : i \in DOMAIN rules}
              = engine.fired \ engine.derived
====
