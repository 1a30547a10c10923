------------------------------ MODULE Scheduler ------------------------------
(***************************************************************************)
(* The graph scheduler of src/src/run.rs: the waves the main thread runs,  *)
(* the clock thread of each scheduled member, the chain a clock runs after *)
(* a successful firing, and the count of unfinished foreground members     *)
(* that decides when the run is quiescent.                                 *)
(*                                                                         *)
(* Threads of the program and of this module:                              *)
(*   Main       run_announcing, from graph-started to graph-settled;       *)
(*   c          the clock of member c (spawn_cron, cron, run_cron_chain);  *)
(*   turns      one thread per member a runner has launched (run_wave), or *)
(*              the clock itself for its own firing: turn[r][m] is what    *)
(*              became of the turn of m that runner r started;             *)
(*   operator   `cancel`, `trigger` and `reset-timer`, other processes     *)
(*              that leave files in the run's signal directory.            *)
(*                                                                         *)
(* A member's turn is opaque here: it ends settled or failed (Incomplete,  *)
(* Died and Unstartable alike: Outcome::is_success tells only Settled      *)
(* apart). Time is abstracted to "this clock's span has elapsed".          *)
(***************************************************************************)
EXTENDS Integers, FiniteSets, GraphShape

CONSTANTS
    Main,         \* the scheduler's own thread, as the runner of the waves
    Resettable,   \* schedules that declared themselves `resettable`
    Verbs         \* bound: the signals the operator of this instance sends

Runners == Members \cup {Main}

ASSUME GraphAssumption ==
    /\ IsFiniteSet(Members)
    /\ Main \notin Members
    /\ Deps \in [Members -> SUBSET Members]
    /\ Background \subseteq Members
    /\ TwoParty \subseteq Members
    /\ Scheduled \subseteq Members
    /\ Deferred \subseteq Scheduled
    /\ Resettable \subseteq Scheduled
    /\ Verbs \subseteq {"stop", "halt", "trigger", "reset"}

ASSUME AcyclicAssumption == Acyclic

ASSUME NotRefusedAssumption == NotRefused

VARIABLES
    phase,       \* Main: "next", "admit", "wait" or "settled"
    taken,       \* members of the waves opened so far
    todo,        \* todo[r]: members of r's current wave still to be handled
    turn,        \* turn[r][m]: the turn of m that r launched
    record,      \* Record::members, as Main holds it in memory
    failed,      \* Main's `failed`
    successful,  \* successful_members, shared under a mutex
    live,        \* Foreground::live, the count of unfinished foreground members
    clock,       \* clock[c]: where c's clock thread is
    due,         \* due[c]: counting_since.elapsed() >= interval
    last,        \* last[c]: cron's `last`, the outcome of its latest firing
    seen,        \* seen[c]: members of the waves c's chain has passed
    good,        \* good[c]: run_cron_chain's local `successful`
    sent,        \* sent[m]: the newest outcome of m in the channel to Main
    sentFailed,  \* an unsuccessful outcome is in that channel
    stop,        \* the run's `stop` file
    halted,      \* members with a <member>.stop file
    triggers,    \* members with a <member>.trigger file
    resets,      \* members with a <member>.reset file
    took,        \* history: took[m], the outcomes m's turns have had
    late,        \* history: turns (or chain waves) c started once live was 0
    defied       \* history: firings c started once c was told to stop

waves == <<phase, taken, todo, turn, record, failed, successful, live>>
clocks == <<clock, due, last, seen, good, sent, sentFailed>>
signals == <<stop, halted, triggers, resets>>
history == <<took, late, defied>>
vars == <<waves, clocks, signals, history>>

Outcomes == {"settled", "failed"}
Turns == {"idle", "running"} \cup Outcomes
Places == {"absent", "asleep", "awake", "open", "armed", "turn", "link",
           "chain", "launch", "collect", "leaving", "gone"}
Counting == {"asleep", "awake", "open", "armed"}

NoTurns == [m \in Members |-> "idle"]

Init ==
    /\ phase = "next"
    /\ taken = {}
    /\ todo = [r \in Runners |-> {}]
    /\ turn = [r \in Runners |-> NoTurns]
    /\ record = [m \in Members |-> "none"]
    /\ failed = FALSE
    /\ successful = {}
    /\ live = Cardinality(Foreground)
    /\ clock = [c \in Members |-> "absent"]
    /\ due = [c \in Members |-> FALSE]
    /\ last = [c \in Members |-> "none"]
    /\ seen = [c \in Members |-> {}]
    /\ good = [c \in Members |-> {}]
    /\ sent = [m \in Members |-> "none"]
    /\ sentFailed = FALSE
    /\ stop = FALSE
    /\ halted = {}
    /\ triggers = {}
    /\ resets = {}
    /\ took = [m \in Members |-> {}]
    /\ late = [c \in Members |-> 0]
    /\ defied = [c \in Members |-> 0]

-----------------------------------------------------------------------------
(* Shared helpers. A definition marked "mutant" is a bug this code could    *)
(* have had in the definition after it; no specification uses it.           *)

\* Foreground::finish, of a member that is counted
Finish(m) == live' = IF m \in Foreground THEN live - 1 ELSE live

\* mutants: nobody asks; the last foreground member does not hold the run
NeverQuiet == FALSE
QuietOneShort == live <= 1

\* Foreground::quiet, as a clock or a chain reads it
Quiet == live = 0

\* mutant: the stop files are not read
NeverStopped(c) == FALSE

\* cron's `stopped`
Stopped(c) == stop \/ c \in halted

\* The next wave of ready_order, once the members of `done` have had theirs
ReadyAfter(done) == {m \in Members \ done : Deps[m] \subseteq done}

\* Runner r starts a turn of every member of S, each on a thread of its own
Launch(r, S) ==
    turn' = [turn EXCEPT ![r] =
                [m \in Members |-> IF m \in S THEN "running" ELSE turn[r][m]]]

-----------------------------------------------------------------------------
(* Main: the waves.                                                         *)

OpenWave ==
    /\ phase = "next"
    /\ ReadyAfter(taken) # {}
    /\ phase' = "admit"
    /\ taken' = taken \cup ReadyAfter(taken)
    /\ todo' = [todo EXCEPT ![Main] = ReadyAfter(taken)]
    /\ UNCHANGED <<turn, record, failed, successful, live>>
    /\ UNCHANGED <<clocks, signals, history>>

\* A dependency with no successful outcome on the record blocks a member
Blocked(m) == \E d \in Deps[m] : record[d] # "settled"

Skip(m) ==
    /\ phase = "admit"
    /\ m \in todo[Main]
    /\ Blocked(m)
    /\ record' = [record EXCEPT ![m] = "skipped"]
    /\ todo' = [todo EXCEPT ![Main] = @ \ {m}]
    /\ Finish(m)
    /\ UNCHANGED <<phase, taken, turn, failed, successful>>
    /\ UNCHANGED <<clocks, signals, history>>

\* The part of the wave that takes its turn now
Runnable == todo[Main] \ Deferred

(* The members left are eligible. The clocks of the deferred ones start     *)
(* first, then run_wave gives each of the others a thread.                  *)
StartWave ==
    /\ phase = "admit"
    /\ \A m \in todo[Main] : ~Blocked(m)
    /\ phase' = "wait"
    /\ clock' = [c \in Members |->
                    IF c \in todo[Main] \cap Deferred THEN "asleep" ELSE clock[c]]
    /\ Launch(Main, Runnable)
    /\ todo' = [todo EXCEPT ![Main] = @ \ Deferred]
    /\ UNCHANGED <<taken, record, failed, successful, live>>
    /\ UNCHANGED <<due, last, seen, good, sent, sentFailed, signals, history>>

\* mutant: no member is left to a clock
LeftToNoClock(m) == FALSE

\* `clocked(member).is_some()`: its clock will count it down
LeftToClock(m) == m \in Clocked

(* run_wave hears of one member and tells its callback: a foreground member *)
(* the run keeps no clock for is finished at this moment.                   *)
Hear(m) ==
    /\ phase = "wait"
    /\ m \in todo[Main]
    /\ turn[Main][m] \in Outcomes
    /\ todo' = [todo EXCEPT ![Main] = @ \ {m}]
    /\ IF LeftToClock(m) THEN UNCHANGED live ELSE Finish(m)
    /\ UNCHANGED <<phase, taken, turn, record, failed, successful>>
    /\ UNCHANGED <<clocks, signals, history>>

Unrecorded == {m \in Members : turn[Main][m] \in Outcomes /\ record[m] = "none"}

RecordOutcome(m) ==
    /\ phase = "wait"
    /\ todo[Main] = {}
    /\ m \in Unrecorded
    /\ record' = [record EXCEPT ![m] = turn[Main][m]]
    /\ failed' = (failed \/ turn[Main][m] = "failed")
    /\ successful' = IF turn[Main][m] = "settled" THEN successful \cup {m}
                                                  ELSE successful
    /\ UNCHANGED <<phase, taken, todo, turn, live>>
    /\ UNCHANGED <<clocks, signals, history>>

\* A schedule that took its turn in the wave hands over to its clock here
CloseWave ==
    /\ phase = "wait"
    /\ todo[Main] = {}
    /\ Unrecorded = {}
    /\ phase' = "next"
    /\ clock' = [c \in Members |->
                    IF /\ c \in Clocked
                       /\ turn[Main][c] \in Outcomes
                       /\ clock[c] = "absent"
                    THEN "asleep" ELSE clock[c]]
    /\ UNCHANGED <<taken, todo, turn, record, failed, successful, live>>
    /\ UNCHANGED <<due, last, seen, good, sent, sentFailed, signals, history>>

\* Every clock thread that was spawned has ended
Joined == \A c \in Members : clock[c] \in {"absent", "gone"}

\* mutant: the channel is not drained into the record
RecordOfWaves == record

\* What draining the clocks' channel makes of the record and of `failed`
FinalRecord == [m \in Members |-> IF sent[m] = "none" THEN record[m] ELSE sent[m]]
FinalFailed == failed \/ sentFailed

(* Every wave has run: join the clocks, drain their channel into the record *)
(* and publish graph-settled.                                               *)
Settle ==
    /\ phase = "next"
    /\ ReadyAfter(taken) = {}
    /\ Joined
    /\ phase' = "settled"
    /\ record' = FinalRecord
    /\ failed' = FinalFailed
    /\ UNCHANGED <<taken, todo, turn, successful, live>>
    /\ UNCHANGED <<clocks, signals, history>>

-----------------------------------------------------------------------------
(* A turn ends, however it ends: member::run returns to the thread.         *)

EndTurn(r, m, outcome) ==
    /\ turn[r][m] = "running"
    /\ turn' = [turn EXCEPT ![r][m] = outcome]
    /\ took' = [took EXCEPT ![m] = @ \cup {outcome}]
    /\ UNCHANGED <<phase, taken, todo, record, failed, successful, live>>
    /\ UNCHANGED <<clocks, signals, late, defied>>

-----------------------------------------------------------------------------
(* The clock of member c. Each step below is one read of shared state.      *)

Elapse(c) ==
    /\ clock[c] \in Counting
    /\ ~due[c]
    /\ due' = [due EXCEPT ![c] = TRUE]
    /\ UNCHANGED <<waves, signals, history>>
    /\ UNCHANGED <<clock, last, seen, good, sent, sentFailed>>

\* The tick is over: is this clock stopped?
Wake(c) ==
    /\ clock[c] = "asleep"
    /\ clock' = [clock EXCEPT ![c] = IF Stopped(c) THEN "leaving" ELSE "awake"]
    /\ UNCHANGED <<waves, signals, history>>
    /\ UNCHANGED <<due, last, seen, good, sent, sentFailed>>

\* Has every foreground member finished?
CheckQuiet(c) ==
    /\ clock[c] = "awake"
    /\ clock' = [clock EXCEPT ![c] = IF Quiet THEN "leaving" ELSE "open"]
    /\ UNCHANGED <<waves, signals, history>>
    /\ UNCHANGED <<due, last, seen, good, sent, sentFailed>>

\* A reset restarts the wait in progress and goes back to sleep
CheckReset(c) ==
    /\ clock[c] = "open"
    /\ IF c \in Resettable \cap resets
       THEN /\ resets' = resets \ {c}
            /\ due' = [due EXCEPT ![c] = FALSE]
            /\ clock' = [clock EXCEPT ![c] = "asleep"]
       ELSE /\ clock' = [clock EXCEPT ![c] = "armed"]
            /\ UNCHANGED <<resets, due>>
    /\ UNCHANGED <<waves, stop, halted, triggers, history>>
    /\ UNCHANGED <<last, seen, good, sent, sentFailed>>

\* History: c starts something now; and the operator had told c to stop
\* (bound: both count 0, 1 and "more than one")
OneMore(n) == IF n = 2 THEN 2 ELSE n + 1
Started(c) == late' = [late EXCEPT ![c] = IF live = 0 THEN OneMore(@) ELSE @]
ToldToStop(c) == stop \/ c \in halted

Fire(c) ==
    /\ clock[c] = "armed"
    /\ c \in triggers \/ due[c]
    /\ triggers' = triggers \ {c}
    /\ clock' = [clock EXCEPT ![c] = "turn"]
    /\ Launch(c, {c})
    /\ Started(c)
    /\ defied' = [defied EXCEPT ![c] = IF ToldToStop(c) THEN OneMore(@) ELSE @]
    /\ UNCHANGED <<phase, taken, todo, record, failed, successful, live>>
    /\ UNCHANGED <<due, last, seen, good, sent, sentFailed>>
    /\ UNCHANGED <<stop, halted, resets, took>>

NotDue(c) ==
    /\ clock[c] = "armed"
    /\ c \notin triggers
    /\ ~due[c]
    /\ clock' = [clock EXCEPT ![c] = "asleep"]
    /\ UNCHANGED <<waves, signals, history>>
    /\ UNCHANGED <<due, last, seen, good, sent, sentFailed>>

(* The firing and its chain are over: a two-party member's conversation was *)
(* its whole life, and any other clock starts counting `every`.             *)
Rest(c) ==
    /\ clock' = [clock EXCEPT ![c] = IF c \in TwoParty THEN "leaving" ELSE "asleep"]
    /\ due' = [due EXCEPT ![c] = FALSE]
    /\ turn' = [turn EXCEPT ![c] = NoTurns]
    /\ seen' = [seen EXCEPT ![c] = {}]
    /\ good' = [good EXCEPT ![c] = {}]

FiringFails(c) ==
    /\ clock[c] = "turn"
    /\ turn[c][c] = "failed"
    /\ last' = [last EXCEPT ![c] = "failed"]
    /\ Rest(c)
    /\ UNCHANGED <<phase, taken, todo, record, failed, successful, live>>
    /\ UNCHANGED <<sent, sentFailed, signals, history>>

\* on_success: the shared set first, the chain after it
FiringSettles(c) ==
    /\ clock[c] = "turn"
    /\ turn[c][c] = "settled"
    /\ last' = [last EXCEPT ![c] = "settled"]
    /\ successful' = successful \cup {c}
    /\ clock' = [clock EXCEPT ![c] = "link"]
    /\ UNCHANGED <<phase, taken, todo, turn, record, failed, live>>
    /\ UNCHANGED <<due, seen, good, sent, sentFailed, signals, history>>

-----------------------------------------------------------------------------
(* The chain clock c runs after a successful firing.                        *)

ChainOpens(c) ==
    /\ clock[c] = "link"
    /\ good' = [good EXCEPT ![c] = successful \ Descendants[c]]
    /\ clock' = [clock EXCEPT ![c] = "chain"]
    /\ UNCHANGED <<waves, signals, history>>
    /\ UNCHANGED <<due, last, seen, sent, sentFailed>>

\* Another wave is ahead and the run is still open
ChainGoesOn(c) ==
    /\ clock[c] = "chain"
    /\ ReadyAfter(seen[c]) # {}
    /\ ~Quiet
    /\ clock' = [clock EXCEPT ![c] = "launch"]
    /\ UNCHANGED <<waves, signals, history>>
    /\ UNCHANGED <<due, last, seen, good, sent, sentFailed>>

ChainEnds(c) ==
    /\ clock[c] = "chain"
    /\ ReadyAfter(seen[c]) = {} \/ Quiet
    /\ Rest(c)
    /\ UNCHANGED <<phase, taken, todo, record, failed, successful, live>>
    /\ UNCHANGED <<last, sent, sentFailed, signals, history>>

\* mutant: one settled dependency is enough
EligibleByAny(c) ==
    {m \in ReadyAfter(seen[c]) \cap Descendants[c] : Deps[m] \cap good[c] # {}}

\* The descendants of c in this wave that this iteration makes eligible
Eligible(c) ==
    {m \in ReadyAfter(seen[c]) \cap Descendants[c] : Deps[m] \subseteq good[c]}

ChainLaunches(c) ==
    /\ clock[c] = "launch"
    /\ Launch(c, Eligible(c))
    /\ todo' = [todo EXCEPT ![c] = Eligible(c)]
    /\ seen' = [seen EXCEPT ![c] = @ \cup ReadyAfter(@)]
    /\ clock' = [clock EXCEPT ![c] = "collect"]
    /\ IF Eligible(c) = {} THEN UNCHANGED late ELSE Started(c)
    /\ UNCHANGED <<phase, taken, record, failed, successful, live>>
    /\ UNCHANGED <<due, last, good, sent, sentFailed, signals, took, defied>>

(* The whole wave has ended: its outcomes are sent one at a time, each into *)
(* the channel Main drains last. What Main makes of the channel is the      *)
(* newest outcome of each member and whether any of them failed.            *)
ChainSends(c, m) ==
    /\ clock[c] = "collect"
    /\ m \in todo[c]
    /\ \A x \in todo[c] : turn[c][x] \in Outcomes
    /\ todo' = [todo EXCEPT ![c] = @ \ {m}]
    /\ good' = [good EXCEPT ![c] = IF turn[c][m] = "settled" THEN @ \cup {m} ELSE @]
    /\ sent' = [sent EXCEPT ![m] = turn[c][m]]
    /\ sentFailed' = (sentFailed \/ turn[c][m] = "failed")
    /\ UNCHANGED <<phase, taken, turn, record, failed, successful, live>>
    /\ UNCHANGED <<clock, due, last, seen, signals, history>>

ChainCollected(c) ==
    /\ clock[c] = "collect"
    /\ todo[c] = {}
    /\ clock' = [clock EXCEPT ![c] = "chain"]
    /\ UNCHANGED <<waves, signals, history>>
    /\ UNCHANGED <<due, last, seen, good, sent, sentFailed>>

\* cron has returned: count a foreground member down, send the last outcome
Leave(c) ==
    /\ clock[c] = "leaving"
    /\ clock' = [clock EXCEPT ![c] = "gone"]
    /\ Finish(c)
    /\ IF last[c] = "none"
       THEN UNCHANGED <<sent, sentFailed>>
       ELSE /\ sent' = [sent EXCEPT ![c] = last[c]]
            /\ sentFailed' = (sentFailed \/ last[c] = "failed")
    /\ UNCHANGED <<phase, taken, todo, turn, record, failed, successful>>
    /\ UNCHANGED <<due, last, seen, good, signals, history>>

-----------------------------------------------------------------------------
(* The operator. A signal for a member with no schedule, or a reset for one *)
(* that is not resettable, is a file the scheduler never reads.             *)

Cancel ==
    /\ "stop" \in Verbs
    /\ ~stop
    /\ stop' = TRUE
    /\ UNCHANGED <<waves, clocks, halted, triggers, resets, history>>

CancelMember(m) ==
    /\ "halt" \in Verbs
    /\ m \in Scheduled \ halted
    /\ halted' = halted \cup {m}
    /\ UNCHANGED <<waves, clocks, stop, triggers, resets, history>>

Trigger(m) ==
    /\ "trigger" \in Verbs
    /\ m \in Scheduled \ triggers
    /\ triggers' = triggers \cup {m}
    /\ UNCHANGED <<waves, clocks, stop, halted, resets, history>>

ResetTimer(m) ==
    /\ "reset" \in Verbs
    /\ m \in Resettable \ resets
    /\ resets' = resets \cup {m}
    /\ UNCHANGED <<waves, clocks, stop, halted, triggers, history>>

-----------------------------------------------------------------------------
MainStep ==
    \/ OpenWave
    \/ \E m \in Members : Skip(m)
    \/ StartWave
    \/ \E m \in Members : Hear(m)
    \/ \E m \in Members : RecordOutcome(m)
    \/ CloseWave
    \/ Settle

ClockStep(c) ==
    \/ Wake(c)
    \/ CheckQuiet(c)
    \/ CheckReset(c)
    \/ Fire(c)
    \/ NotDue(c)
    \/ FiringFails(c)
    \/ FiringSettles(c)
    \/ ChainOpens(c)
    \/ ChainGoesOn(c)
    \/ ChainEnds(c)
    \/ ChainLaunches(c)
    \/ \E m \in Members : ChainSends(c, m)
    \/ ChainCollected(c)
    \/ Leave(c)

Operator ==
    /\ phase # "settled"
    /\ \/ Cancel
       \/ \E m \in Members : CancelMember(m) \/ Trigger(m) \/ ResetTimer(m)

\* The process exits: nothing is left to run
Exited == phase = "settled" /\ UNCHANGED vars

Next ==
    \/ MainStep
    \/ \E r \in Runners, m \in Members, o \in Outcomes : EndTurn(r, m, o)
    \/ \E c \in Members : Elapse(c) \/ ClockStep(c)
    \/ Operator
    \/ Exited

\* mutant: a hold ends at no stop
HoldsThroughStop(m) == m \in TwoParty \cap Scheduled /\ ~(m \in Background /\ Quiet)

(* A paced conversation may hold between its turns for as long as the run   *)
(* lets it; every other turn ends on its own or is condemned.               *)
MayHold(m) ==
    /\ m \in TwoParty \cap Scheduled
    /\ ~Stopped(m)
    /\ ~(m \in Background /\ Quiet)

TurnEnds(r, m) == ~MayHold(m) /\ \E o \in Outcomes : EndTurn(r, m, o)

Fairness ==
    /\ WF_vars(MainStep)
    /\ \A c \in Members : WF_vars(ClockStep(c)) /\ WF_vars(Elapse(c))
    /\ \A r \in Runners, m \in Members : WF_vars(TurnEnds(r, m))

SafeSpec == Init /\ [][Next]_vars
Spec == SafeSpec /\ Fairness

-----------------------------------------------------------------------------
(* Safety.                                                                  *)

Shape ==
    /\ phase \in {"next", "admit", "wait", "settled"}
    /\ taken \in SUBSET Members
    /\ todo \in [Runners -> SUBSET Members]
    /\ turn \in [Runners -> [Members -> Turns]]
    /\ record \in [Members -> Outcomes \cup {"none", "skipped"}]
    /\ failed \in BOOLEAN
    /\ successful \in SUBSET Members
    /\ clock \in [Members -> Places]
    /\ due \in [Members -> BOOLEAN]
    /\ last \in [Members -> Outcomes \cup {"none"}]
    /\ seen \in [Members -> SUBSET Members]
    /\ good \in [Members -> SUBSET Members]
    /\ sent \in [Members -> Outcomes \cup {"none"}]
    /\ sentFailed \in BOOLEAN
    /\ stop \in BOOLEAN
    /\ halted \in SUBSET Members
    /\ triggers \in SUBSET Members
    /\ resets \in SUBSET Members
    /\ took \in [Members -> SUBSET Outcomes]
    /\ late \in [Members -> 0 .. 2]
    /\ defied \in [Members -> 0 .. 2]

(* Every variable keeps its shape, and the count of unfinished foreground   *)
(* members, an AtomicUsize in the code, never wraps below zero.             *)
TypeOK == Shape /\ live \in Nat

(* The foreground members the contract calls unfinished: not yet started,   *)
(* in a turn of the initial waves, between that turn and the clock that     *)
(* will take them over, or kept by a clock that has not stopped.            *)
Unfinished == {m \in Foreground :
    \/ m \notin taken
    \/ m \in todo[Main]
    \/ m \in Clocked /\ turn[Main][m] \in Outcomes /\ clock[m] = "absent"
    \/ clock[m] \notin {"absent", "gone"}}

(* Foreground::live counts exactly the unfinished members: each of the      *)
(* three places that count one down does it for a member nothing else will  *)
(* count (run_announcing's skip, run_wave's callback, spawn_cron's end).    *)
Ledger == live = Cardinality(Unfinished)

(* The quiet check and the start after it are two steps, so a clock may     *)
(* start one firing or one chain wave after the last foreground member has  *)
(* finished; cron and run_cron_chain never start a second.                  *)
LateOnce == \A c \in Members : late[c] <= 1

(* The stop check and the trigger check are two steps as well: a clock told *)
(* to stop fires at most once more, however the operator keeps triggering.  *)
DefiedOnce == \A c \in Members : defied[c] <= 1

(* No turn of m, whoever started it, began before each dependency of m had  *)
(* a turn that settled; inside a chain the dependencies that are part of    *)
(* this iteration settled in this iteration (Wave eligibility in            *)
(* run_announcing; `successful.retain` and the filter of run_cron_chain).   *)
Links(r) == IF r = Main THEN Members ELSE Descendants[r] \cup {r}

TurnsFollowDeps ==
    \A r \in Runners, m \in Members : turn[r][m] # "idle" =>
        \A d \in Deps[m] :
            /\ "settled" \in took[d]
            /\ d \in Links(r) /\ (r = Main \/ m # r) => turn[r][d] = "settled"

(* A foreground cadence is kept until somebody cancels it: its clock never  *)
(* stops because the run went quiet, since it is what keeps the run open    *)
(* ("a scheduled foreground member never finishes on its own").             *)
CadenceKept ==
    \A c \in Foreground \cap Clocked : clock[c] \in {"leaving", "gone"} => ToldToStop(c)

(* The final record names, for each member that took a turn, an outcome one *)
(* of its turns really had, and claims none for a member that took none;    *)
(* exit 0 is never reported beside a failure on the record, and exit 1 is   *)
(* never reported without a turn that failed.                               *)
RecordTellsTheTruth ==
    phase = "settled" =>
        /\ \A m \in Members :
             IF took[m] = {} THEN record[m] \in {"none", "skipped"}
                             ELSE record[m] \in took[m]
        /\ IF failed THEN \E m \in Members : "failed" \in took[m]
                     ELSE \A m \in Members : record[m] # "failed"

(* graph-settled is the last thing to happen: no clock thread and no turn   *)
(* of the run outlives it, and no foreground member is left unfinished.     *)
SettledIsTheEnd ==
    phase = "settled" =>
        /\ \A r \in Runners, m \in Members : turn[r][m] # "running"
        /\ \A c \in Members : clock[c] \in {"absent", "gone"}
        /\ Unfinished = {}

(* Quiescence is for ever: the count that reached zero stays there, so the  *)
(* marker file written at that moment never disagrees with the count the    *)
(* clocks read.                                                             *)
QuietStays == [][live = 0 => live' = 0]_vars

-----------------------------------------------------------------------------
(* Liveness, under Fairness.                                                *)

Settled == phase = "settled"

\* A whole-run `cancel` ends the run, whatever was waiting on whatever
StopSettles == stop ~> Settled

-----------------------------------------------------------------------------
(* Claims of the documents that the code does not keep.                     *)

(* docs/scheduler-notes.md: the clock threads are joined before the run     *)
(* settles "so the last admitted turn is present in the final stream and    *)
(* record, and a failure among them is the run's exit 1".                   *)
EveryFailureFailsTheRun ==
    Settled /\ (\E m \in Members : "failed" \in took[m]) => failed

=============================================================================
