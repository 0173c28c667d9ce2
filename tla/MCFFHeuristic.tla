---------------------------- MODULE MCFFHeuristic ---------------------------
(***************************************************************************)
(* Instances of FFHeuristic. In the first task two actions support each     *)
(* other's preconditions, one is preferred only where a negative            *)
(* precondition allows it, one has a conditional effect, and several states *)
(* are evaluated one after the other. In the second one, a single action    *)
(* opens everything by a universally quantified effect.                     *)
(***************************************************************************)
EXTENDS FFHeuristic

rule(name, head, body, binding, effect, row) ==
    [name |-> name, head |-> head, body |-> body, binding |-> binding, effect |-> effect, row |-> row]

Chain == << rule("move_e1", "b", {"a"}, "move", "e1", <<>>),
            rule("move_e2", "c", {"a", "k"}, "move", "e2", <<>>),
            rule("back_e3", "a", {"b"}, "back", "e3", <<>>),
            rule("pick_e4", "k", {"b"}, "pick", "e4", <<>>),
            rule("push_e5", "c", {"b", "k"}, "push", "e5", <<>>),
            rule("done_e6", "g", {"c"}, "done", "e6", <<>>),
            rule("done_e7", "h", {"c", "k"}, "done", "e7", <<>>) >>

chainPrecondition ==
    [b \in {"move", "back", "pick", "push", "done"} |->
        CASE b = "move" -> {"a"} [] b = "back" -> {"b"} [] b = "pick" -> {"b"}
          [] b = "push" -> {"b", "k"} [] b = "done" -> {"c"}]
chainForbidden == [b \in DOMAIN chainPrecondition |-> IF b = "pick" THEN {"a"} ELSE {}]
chainStart == {{"a"}, {"a", "b"}, {"b"}, {"c", "k"}, {"k"}}

Open == << rule("open_e1", "o1", {"k"}, "open", "e1", <<1>>),
           rule("open_e1", "o2", {"k"}, "open", "e1", <<2>>),
           rule("take_e2", "k", {"a"}, "take", "e2", <<>>) >>

openPrecondition == [b \in {"open", "take"} |-> IF b = "open" THEN {"k"} ELSE {"a"}]
openForbidden == [b \in DOMAIN openPrecondition |-> {}]
openStart == {{"a"}, {"a", "k"}}

mcInstance(P) == DOMAIN P
mcFact(P) == {P[i].head : i \in DOMAIN P} \cup UNION {P[i].body : i \in DOMAIN P}
mcRule(P) == {P[i].name : i \in DOMAIN P}
mcBindingOf(P) == [i \in DOMAIN P |-> P[i].binding]
mcEffectOf(P) == [i \in DOMAIN P |-> P[i].effect]
mcRowOf(P) == [i \in DOMAIN P |-> P[i].row]
mcEffectsOf(P) == [b \in {P[i].binding : i \in DOMAIN P} |->
                    {P[i].effect : i \in {j \in DOMAIN P : P[j].binding = b}}]
mcRows(P) == [c \in {P[i].effect : i \in DOMAIN P} |-> {P[i].row : i \in {j \in DOMAIN P : P[j].effect = c}}]
mcBody(P) == [i \in DOMAIN P |-> P[i].body]

chainInstance == mcInstance(Chain)
chainFact == mcFact(Chain)
chainRule == mcRule(Chain)
chainBinding == DOMAIN chainPrecondition
chainBindingOf == mcBindingOf(Chain)
chainEffectOf == mcEffectOf(Chain)
chainRowOf == mcRowOf(Chain)
chainEffectsOf == mcEffectsOf(Chain)
chainRows == mcRows(Chain)
chainGraph == mcBody(Chain)
chainRuleOf == [i \in DOMAIN Chain |-> Chain[i].name]
chainHeadOf == [i \in DOMAIN Chain |-> Chain[i].head]
chainPredOf == [f \in chainFact |-> f]
chainStratumOf == [r \in chainRule |-> 1]
chainCost == [r \in chainRule |-> 1]
chainNone == [i \in chainInstance |-> {}]

openInstance == mcInstance(Open)
openFact == mcFact(Open)
openRule == mcRule(Open)
openBinding == DOMAIN openPrecondition
openBindingOf == mcBindingOf(Open)
openEffectOf == mcEffectOf(Open)
openRowOf == mcRowOf(Open)
openEffectsOf == mcEffectsOf(Open)
openRows == mcRows(Open)
openGraph == mcBody(Open)
openRuleOf == [i \in DOMAIN Open |-> Open[i].name]
openHeadOf == [i \in DOMAIN Open |-> Open[i].head]
openPredOf == [f \in openFact |-> f]
openStratumOf == [r \in openRule |-> 1]
openCost == [r \in openRule |-> 1]
openNone == [i \in openInstance |-> {}]
=============================================================================
