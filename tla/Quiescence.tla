----------------------------- MODULE Quiescence -----------------------------
(***************************************************************************)
(* What the run promises about when it stays open and when it settles      *)
(* (docs/contract.md, `background`), with no waves, clocks, channels or    *)
(* counters: a run is open while a foreground member is unfinished; once   *)
(* none is, each clock may begin one last time what it had already decided *)
(* to begin, and what is in flight runs to its end; then the run settles.  *)
(***************************************************************************)
EXTENDS FiniteSets

CONSTANTS
    Members,      \* the graph's members
    Main,         \* the thread of the initial waves
    Foreground    \* the members the run stays open for

VARIABLES
    unfinished,   \* foreground members that have not finished
    running,      \* running[r]: the members with a turn that r began
    grace,        \* clocks that may still begin something once it is quiet
    settled       \* graph-settled has been published

vars == <<unfinished, running, grace, settled>>

Runners == Members \cup {Main}

TypeInv ==
    /\ unfinished \in SUBSET Foreground
    /\ running \in [Runners -> SUBSET Members]
    /\ grace \in SUBSET Members
    /\ settled \in BOOLEAN

Init ==
    /\ unfinished = Foreground
    /\ running = [r \in Runners |-> {}]
    /\ grace = Members
    /\ settled = FALSE

\* The initial waves are unconditional; a clock needs an open run, or its grace
Begin(r, S) ==
    /\ ~settled
    /\ S # {}
    /\ IF r # Main /\ unfinished = {}
       THEN r \in grace /\ grace' = grace \ {r}
       ELSE UNCHANGED grace
    /\ running' = [running EXCEPT ![r] = @ \cup S]
    /\ UNCHANGED <<unfinished, settled>>

End(r, m) ==
    /\ m \in running[r]
    /\ running' = [running EXCEPT ![r] = @ \ {m}]
    /\ UNCHANGED <<unfinished, grace, settled>>

\* A member never finishes with its own turn, or its own firing, in flight
Finish(m) ==
    /\ m \in unfinished
    /\ m \notin running[Main]
    /\ m \notin running[m]
    /\ unfinished' = unfinished \ {m}
    /\ UNCHANGED <<running, grace, settled>>

Settle ==
    /\ ~settled
    /\ unfinished = {}
    /\ \A r \in Runners : running[r] = {}
    /\ settled' = TRUE
    /\ UNCHANGED <<unfinished, running, grace>>

Next ==
    \/ \E r \in Runners, S \in SUBSET Members : Begin(r, S)
    \/ \E r \in Runners, m \in Members : End(r, m)
    \/ \E m \in Members : Finish(m)
    \/ Settle

Safety == Init /\ [][Next]_vars
Spec == Safety /\ WF_vars(Settle)

=============================================================================
