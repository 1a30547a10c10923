---------------------------- MODULE GraphDocument ----------------------------
(* A graph document on its way to the scheduler: what the environment and   *)
(* `--set` make of it (run.rs apply_background_env, apply_overrides), what  *)
(* config.rs validate refuses, and the waves run.rs ready_order puts its    *)
(* members in. Both `run` and the preflight of `validate` and `--detach` go *)
(* this way.                                                                *)
(*                                                                          *)
(* A document is what these steps tell apart: its version, and of each      *)
(* member its kind, its dependencies, its schedule and its `background`.    *)
(* The remaining fields count by the version they came with, and by whether *)
(* what they say is well formed.                                            *)
EXTENDS Integers, Sequences, FiniteSets

CONSTANTS
    Names,       \* the members of the document
    Stranger,    \* a name no member has
    Documents,   \* the documents read
    Environs,    \* the sets of names ONEAGENTGRAPH_BACKGROUND may hold
    Sets         \* the `--set members.NAME.background=VALUE` sequences given

ASSUME NamesAssumption == IsFiniteSet(Names) /\ Stranger \notin Names

Schedules == {"none", "every", "at once", "later"}
Backgrounds == {"unsaid", "true", "false"}

GraphConfig ==
    [version : Nat,
     kind : [Names -> {"oneharness", "onejudge"}],
     deps : [Names -> SUBSET (Names \cup {Stranger})],
     schedule : [Names -> Schedules],
     background : [Names -> Backgrounds],
     extra : SUBSET STRING,     \* the gated fields used of the others
     flaws : SUBSET STRING]     \* what is not well formed

ASSUME DocumentsAssumption == \A g \in Documents : g \in GraphConfig

VARIABLES
    doc,         \* the document, as overridden so far
    asked,       \* the names the environment holds, and the flags given
    step,        \* what is done next, or the verdict
    pending,     \* ready_order: the members in no wave yet, with what they await
    waves        \* ready_order's answer so far

vars == <<doc, asked, step, pending, waves>>

-----------------------------------------------------------------------------
(* Versions. SCHEMA_VERSION and the FIRST_..._VERSION of each gated field.  *)

Latest == 10

First == [
    onejudge_deps  |-> 2,
    member_job     |-> 3,     \* `task` and `dir` of a oneharness member
    start_after    |-> 4,
    events         |-> 5,
    personas       |-> 6,
    pre_turn       |-> 7,
    background     |-> 8,
    two_party_job  |-> 9,     \* `dir` and `schedule` of a onejudge member
    judge_settings |-> 10]

\* The gated fields a document uses: those of the modelled part, and `extra`
Uses(g) ==
    g.extra
    \cup {f \in {"onejudge_deps"} :
            \E m \in Names : g.kind[m] = "onejudge" /\ g.deps[m] # {}}
    \cup {f \in {"two_party_job"} :
            \E m \in Names : g.kind[m] = "onejudge" /\ g.schedule[m] # "none"}
    \cup {f \in {"start_after"} :
            \E m \in Names : g.schedule[m] \in {"at once", "later"}}
    \cup {f \in {"background"} : \E m \in Names : g.background[m] # "unsaid"}

\* validate. Each part of it refuses its gated fields before their version,
\* and its own flaws.
Gated(g, fields) == \A f \in Uses(g) \cap fields : g.version >= First[f]

GraphIsValid(g) ==
    /\ g.version \in 1 .. Latest
    /\ Gated(g, {"personas", "events"})
    /\ g.flaws \cap {"blank name", "bad environment", "no catalog", "bad filter"} = {}

MembersAreValid(g) ==
    /\ Gated(g, {"onejudge_deps", "background"})
    /\ "bad member name" \notin g.flaws

JudgesAreWellFormed(g) ==
    g.flaws \cap {"no judge", "composed key", "no command", "bad label"} = {}

TwoPartyIsValid(g) ==
    /\ Gated(g, {"judge_settings", "two_party_job"})
    /\ g.flaws \cap {"blank mode", "no turns", "composed provider key"} = {}

HarnessIsValid(g) ==
    /\ Gated(g, {"member_job"})
    /\ "blank task" \notin g.flaws

OwnDir(g) == "empty dir" \notin g.flaws

ScheduleSpans(g) ==
    /\ Gated(g, {"start_after"})
    /\ g.flaws \cap {"every zero", "span too long"} = {}

PreTurn(g) ==
    /\ Gated(g, {"pre_turn"})
    /\ g.flaws \cap {"too many views", "no program", "bad view label", "bad timeout"} = {}

Valid(g) ==
    /\ GraphIsValid(g) /\ MembersAreValid(g)
    /\ TwoPartyIsValid(g) /\ JudgesAreWellFormed(g)
    /\ HarnessIsValid(g) /\ PreTurn(g)
    /\ OwnDir(g) /\ ScheduleSpans(g)

\* Schedule::first_turn_after is above zero: from version 4 an omitted
\* `start_after` waits one whole span
DefersFirstTurn(g, m) ==
    \/ g.schedule[m] = "later"
    \/ g.schedule[m] = "every" /\ g.version >= First.start_after

\* GraphConfig::background_memoized
IsBackground(g) ==
    LET answer[m \in Names] ==
            IF g.version >= First.background
            THEN IF g.background[m] # "unsaid" THEN g.background[m] = "true"
                                               ELSE g.schedule[m] # "none"
            ELSE \/ g.schedule[m] # "none"
                 \/ g.deps[m] # {} /\ \A d \in g.deps[m] : answer[d]
    IN  answer

\* mutant: a member is asked about its own first turn alone
TakesOwnTurn(g) == [m \in Names |-> ~DefersFirstTurn(g, m)]

\* takes_an_initial_turn, with its memo
TakesAnInitialTurn(g) ==
    LET answer[m \in Names] == ~DefersFirstTurn(g, m) /\ \A d \in g.deps[m] : answer[d]
    IN  answer

IsHeldOpen(g) ==
    \E m \in Names :
        ~IsBackground(g)[m] /\ (g.schedule[m] # "none" \/ TakesAnInitialTurn(g)[m])

NeverComesDue(g) ==
    ~IsHeldOpen(g) /\ \E m \in Names : DefersFirstTurn(g, m)

-----------------------------------------------------------------------------
(* What the run was asked to change: `background` alone, for it is the one  *)
(* field both the environment and the flags write.                          *)

\* A name no member has, or a value that is no boolean
Unanswerable ==
    \/ ~ asked.environ \subseteq Names
    \/ \E k \in 1 .. Len(asked.sets) :
           asked.sets[k].name \notin Names \/ asked.sets[k].value \notin {"true", "false"}

\* apply_background_env: each name the environment holds is set to true
ByEnvironment(g) ==
    [g EXCEPT !.background =
        [m \in Names |-> IF m \in asked.environ THEN "true" ELSE @[m]]]

\* apply_overrides, one flag after the other: the last that names a member stands
Flags(m) == {k \in 1 .. Len(asked.sets) : asked.sets[k].name = m}
LastFlag(m) == asked.sets[CHOOSE k \in Flags(m) : \A j \in Flags(m) : j <= k].value

ByFlags(g) ==
    [g EXCEPT !.background =
        [m \in Names |-> IF Flags(m) # {} THEN LastFlag(m) ELSE @[m]]]

Overridden(g) == ByFlags(ByEnvironment(g))

-----------------------------------------------------------------------------
Init ==
    /\ doc \in Documents
    /\ asked \in [environ : Environs, sets : Sets]
    /\ step = "override"
    /\ pending = [m \in {} |-> {}]
    /\ waves = <<>>

Refuse(why) ==
    /\ step' = why
    /\ UNCHANGED <<doc, asked, pending, waves>>

Override ==
    /\ step = "override"
    /\ ~Unanswerable
    /\ doc' = Overridden(doc)
    /\ step' = "validate"
    /\ UNCHANGED <<asked, pending, waves>>

RefuseOverride ==
    /\ step = "override"
    /\ Unanswerable
    /\ Refuse("no such override")

\* validate, and ready_order's look for each dependency among the members
Accept ==
    /\ step = "validate"
    /\ Valid(doc)
    /\ \A m \in Names : doc.deps[m] \subseteq Names
    /\ pending' = doc.deps
    /\ step' = "order"
    /\ UNCHANGED <<doc, asked, waves>>

RefuseInvalid ==
    /\ step = "validate"
    /\ ~Valid(doc)
    /\ Refuse("invalid")

RefuseStranger ==
    /\ step = "validate"
    /\ Valid(doc)
    /\ \E m \in Names : ~ doc.deps[m] \subseteq Names
    /\ Refuse("no such dependency")

\* ready_order: the members that await nobody
Ready == {m \in DOMAIN pending : pending[m] = {}}

\* `deps.retain`: what a member awaits once this wave is placed
StillAwaited(awaited) == awaited \ Ready

PlaceWave ==
    /\ step = "order"
    /\ Ready # {}
    /\ waves' = Append(waves, Ready)
    /\ pending' = [m \in DOMAIN pending \ Ready |-> StillAwaited(pending[m])]
    /\ UNCHANGED <<doc, asked, step>>

RefuseCycle ==
    /\ step = "order"
    /\ DOMAIN pending # {} /\ Ready = {}
    /\ Refuse("cycle")

RefuseTurn ==
    /\ step = "order"
    /\ DOMAIN pending = {}
    /\ NeverComesDue(doc)
    /\ Refuse("never due")

Schedule ==
    /\ step = "order"
    /\ DOMAIN pending = {}
    /\ ~NeverComesDue(doc)
    /\ step' = "accepted"
    /\ UNCHANGED <<doc, asked, pending, waves>>

Next ==
    \/ Override \/ RefuseOverride
    \/ Accept \/ RefuseInvalid \/ RefuseStranger
    \/ PlaceWave \/ RefuseCycle \/ RefuseTurn \/ Schedule

Spec == Init /\ [][Next]_vars

-----------------------------------------------------------------------------
(* What the scheduler is given.                                             *)

Shape == INSTANCE GraphShape WITH
    Members <- Names,
    Deps <- doc.deps,
    Background <- {m \in Names : IsBackground(doc)[m]},
    TwoParty <- {m \in Names : doc.kind[m] = "onejudge"},
    Scheduled <- {m \in Names : doc.schedule[m] # "none"},
    Deferred <- {m \in Names : DefersFirstTurn(doc, m)}

(* Wave k holds m, alone of the waves, after all it depends on and no later  *)
(* than that asks for.                                                       *)
IsLevel(m, k) ==
    /\ m \in waves[k]
    /\ \A j \in 1 .. Len(waves) : j # k => m \notin waves[j]
    /\ \A d \in doc.deps[m] : \E j \in 1 .. k - 1 : d \in waves[j]
    /\ k > 1 => doc.deps[m] \cap waves[k - 1] # {}

WavesAreLevels == \A m \in Names : \E k \in 1 .. Len(waves) : IsLevel(m, k)

(* The verdict is the one the scheduler's own view of the graph asks for,   *)
(* with its Descendants and TakesInitialTurn in place of the memos of       *)
(* run.rs: an accepted document has no cycle and no deferred first turn in  *)
(* a graph that nothing holds open, and one refused for either has it. And  *)
(* the waves of ready_order are the levels of the graph: every member is in *)
(* exactly one, after all it depends on and no later than that asks for.    *)
VerdictIsTheSchedulers ==
    /\ step = "accepted" => Shape!Acyclic /\ Shape!NotRefused /\ WavesAreLevels
    /\ step = "cycle" => ~Shape!Acyclic
    /\ step = "never due" => ~Shape!NotRefused

=============================================================================
