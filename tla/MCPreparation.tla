--------------------------- MODULE MCPreparation ---------------------------
(* Documents of three members for TLC: every schedule and every declared    *)
(* background over the shapes of dependency that differ, a cycle and a      *)
(* missing member among them, at the versions where something changes; and  *)
(* one whose members are built, of the configs, personas and panels below.  *)
EXTENDS Preparation

Alone == [m \in Names |-> {}]
Line == [Alone EXCEPT !["b"] = {"a"}, !["c"] = {"b"}]
Join == [Alone EXCEPT !["c"] = {"a", "b"}]
Fork == [Alone EXCEPT !["b"] = {"a"}, !["c"] = {"a"}]
Shortcut == [Line EXCEPT !["c"] = {"a", "b"}]
Ring == [Line EXCEPT !["a"] = {"c"}]
Astray == [Alone EXCEPT !["b"] = {Stranger}]

Kinds == {[m \in Names |-> "oneharness"],
          [m \in Names |-> IF m = "b" THEN "onejudge" ELSE "oneharness"]}

DocumentsOf(versions, extras, flaws) ==
    [version : versions, kind : Kinds, deps : {Alone, Line, Join, Fork, Shortcut, Ring, Astray},
     schedule : [Names -> Schedules], background : [Names -> Backgrounds],
     extra : extras, flaws : flaws]

\* Sound and unsound documents, and those no version reads
Read ==
    {g \in DocumentsOf({1, 3, 4, 7, 8, 9}, {{}}, {{}}) :
        /\ g.version < 8 => \A m \in Names \ {"a"} : g.background[m] = "unsaid"
        /\ g.version = 8 => g.kind["b"] = "oneharness"
        /\ g.version = 9 => g.kind["b"] = "onejudge"
        /\ g.version # 9 => g.deps \notin {Fork, Shortcut} /\ g.schedule["a"] = "none"
        /\ g.version # 9 => g.background["c"] = "unsaid"
        /\ g.version \in {1, 3} => g.kind["b"] = "oneharness"}
    \cup {g \in DocumentsOf({0, 4, 10, 11}, {{}, {"pre_turn", "personas"}, {"judge_settings"}},
                            {{}, {"blank name"}, {"no judge"}, {"empty dir"}}) :
            /\ g.deps = Line
            /\ \A m \in Names : g.background[m] = "unsaid" /\ g.schedule[m] = "none"}

MCBuilt ==
    {[version |-> 10, kind |-> [n \in Names |-> IF n = "a" THEN "oneharness" ELSE "onejudge"],
      deps |-> Line, schedule |-> [n \in Names |-> "none"],
      background |-> [n \in Names |-> "unsaid"], extra |-> {}, flaws |-> {}]}

MCDocuments == Read \cup MCBuilt

MCEnvirons == {{}, {"b"}, {Stranger}}
Flag(name, value) == [name |-> name, value |-> value]
MCSets == {<<>>, <<Flag("b", "false")>>, <<Flag("c", "true"), Flag("c", "false")>>,
           <<Flag("b", "perhaps")>>, <<Flag(Stranger, "true")>>}


-----------------------------------------------------------------------------
Text == [sound |-> TRUE, owned |-> FALSE, path |-> "relative", families |-> {"one"},
         bar |-> FALSE, replaces |-> FALSE, schema |-> FALSE, stream |-> "unsaid"]

MCSays ==
    [worker  |-> <<Text, [Text EXCEPT !.schema = TRUE, !.stream = "true"]>>,
     judge   |-> <<Text, [Text EXCEPT !.families = {"one", "two"}]>>,
     base    |-> <<[Text EXCEPT !.bar = TRUE], [Text EXCEPT !.owned = TRUE]>>,
     critic  |-> <<[Text EXCEPT !.bar = TRUE, !.replaces = TRUE], [Text EXCEPT !.replaces = TRUE]>>,
     planner |-> <<[Text EXCEPT !.bar = TRUE], Text>>,
     lint |-> <<Text, Text>>, graph |-> <<Text, Text>>, catalog |-> <<Text, Text>>]

MCFiles == {"worker", "judge", "base", "critic", "lint", "graph", "catalog"}

MCFileOf ==
    [k \in {<<"graph", "worker">>, <<"url", "worker">>, <<"clear", "worker">>,
            <<"graph", "judge">>, <<"graph", "base">>, <<"graph", "lint">>,
            <<"graph", "critic">>, <<"catalog", "critic">>} |-> k[2]]

Harness(config, label, model) ==
    [kind |-> "oneharness", config |-> <<"graph", config>>, label |-> label, model |-> model]
Lint == [kind |-> "llmlint", config |-> <<"graph", "lint">>, label |-> NoRef, model |-> FALSE]
Command == [kind |-> "command", config |-> NoRef, label |-> NoRef, model |-> FALSE]

\* One judge; four of every kind; one that spells another's name; two that
\* differ in case alone; a command; a lint
Panels == <<
    <<Harness("judge", NoRef, TRUE)>>,
    <<Harness("judge", NoRef, FALSE), Lint, Command, Harness("worker", NoRef, TRUE)>>,
    <<Harness("worker", <<"oneharness", 2>>, TRUE), Harness("judge", NoRef, FALSE),
      Harness("judge", NoRef, FALSE)>>,
    <<Harness("judge", <<"Strict", 1>>, FALSE), Harness("worker", <<"strict", 1>>, TRUE)>>,
    <<Command>>,
    <<Lint>> >>

MCOrder == <<"a", "b", "c">>

MCFolded == [name \in {<<"Strict", 1>>} |-> <<"strict", 1>>]

OneParty(persona, task) ==
    [kind |-> "oneharness", config |-> <<"graph", "worker">>, persona |-> persona,
     task |-> task, dir |-> FALSE, judges |-> <<>>, base |-> NoRef, model |-> FALSE]
TwoParty(persona, config, panel, task) ==
    [kind |-> "onejudge", config |-> config, persona |-> persona, task |-> task, dir |-> TRUE,
     judges |-> Panels[panel], base |-> <<"graph", "base">>, model |-> TRUE]

\* A request: b's persona, config and panel, whether the graph has a catalog,
\* and whether the run was given a task
Personas == {NoRef, <<"name", "critic">>, <<"name", "planner">>, <<"graph", "critic">>}
MCIdle == <<NoRef, "graph", 5, FALSE, FALSE>>
MCRequests ==
    (Personas \X {"graph", "url"} \X (1 .. 4) \X BOOLEAN \X {TRUE})
    \cup ({NoRef} \X {"graph", "clear"} \X {5, 6} \X {FALSE} \X BOOLEAN)

MCPlanOf(asks) ==
    [of |-> [a |-> OneParty(IF asks[5] THEN <<"name", "critic">> ELSE NoRef,
                            IF asks[5] THEN "token" ELSE "none"),
             b |-> TwoParty(asks[1], <<asks[2], "worker">>, asks[3], "none"),
             c |-> TwoParty(IF asks[4] THEN <<"name", "critic">> ELSE NoRef,
                            <<"graph", "worker">>, 1, "plain")],
     catalog |-> asks[4], given |-> asks[5], rooted |-> asks[5], template |-> TRUE]

=============================================================================
