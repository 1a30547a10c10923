------------------------ MODULE SchedulerQuiescence ------------------------
(* The scheduler keeps the promise of Quiescence: its count of unfinished   *)
(* members, its waves, its clocks and their chains, seen as the sets of     *)
(* Quiescence, take only the steps that module allows.                      *)
EXTENDS Scheduler

Running == [r \in Runners |-> {m \in Members : turn[r][m] = "running"}]
Grace == {c \in Members : late[c] = 0}

Q == INSTANCE Quiescence WITH
    unfinished <- Unfinished,
    running    <- Running,
    grace      <- Grace,
    settled    <- (phase = "settled")

(* Every behaviour of the scheduler is a behaviour of Quiescence: a clock   *)
(* begins at most one thing once the run is quiet, no member is counted     *)
(* finished with its turn in flight, nothing is left when the run settles,  *)
(* and a run with nothing left does settle.                                 *)
KeepsThePromise == Q!Spec

=============================================================================
