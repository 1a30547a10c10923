----------------------------- MODULE GraphShape -----------------------------
(* What the scheduler takes from a graph document: its members, what each   *)
(* depends on, and which are background, two-party, scheduled or deferred.  *)
(* GraphDocument derives these from a document; Scheduler runs them.        *)

CONSTANTS
    Members,      \* the graph's members
    Deps,         \* Deps[m]: the members whose success precedes m
    Background,   \* GraphConfig::is_background
    TwoParty,     \* `kind: onejudge`
    Scheduled,    \* members that carry a schedule, of either kind
    Deferred      \* defers_first_turn: a schedule whose first turn waits

Foreground == Members \ Background
Clocked == Scheduled \ TwoParty

(* The members reachable from c along dependency edges, c excluded: the     *)
(* least set closed under "depends on a member of it".                      *)
Descendants == [c \in Members |->
    {m \in Members \ {c} :
        \A S \in SUBSET Members :
            /\ c \in S
            /\ \A x \in Members : Deps[x] \cap S # {} => x \in S
            => m \in S}]

TakesInitialTurn(m) ==
    m \notin Deferred /\ \A d \in Deferred : m \notin Descendants[d]

(* What ready_order accepts: every dependency is a member, no cycle, and no *)
(* deferred first turn in a graph that nothing holds open.                  *)
Acyclic == \A S \in (SUBSET Members) \ {{}} : \E m \in S : Deps[m] \cap S = {}
HeldOpen == \E m \in Foreground : m \in Scheduled \/ TakesInitialTurn(m)
NotRefused == HeldOpen \/ Deferred = {}

=============================================================================
