------------------------------ MODULE Watchdog ------------------------------
(***************************************************************************)
(* The activity watchdog of src/src/member.rs (Stall, Observed) over the   *)
(* readings src/src/scratch.rs takes of a member's process tree (work,     *)
(* Work::worked), as the supervising loops of judge.rs and harness.rs      *)
(* drive it: load the activity clock, then judge.                          *)
(*                                                                         *)
(* Time is discrete and every instant is kept as an age, capped where no   *)
(* comparison can tell further ages apart. A tick is one turn of the       *)
(* supervising loop; one unit of CPU is a tick of one core.                *)
(***************************************************************************)
EXTENDS Naturals, Integers

CONSTANTS
    Bound,       \* Stall::bound, in ticks
    ProbeEvery,  \* Stall::probe_every, in ticks
    MaxLate,     \* bound: ticks the supervising loop takes to come round
    MaxChange,   \* bound: units of CPU a reading may have moved by
    Enumerable   \* whether the platform can enumerate a stamped process

ASSUME WatchdogAssumption ==
    /\ ProbeEvery \in Nat \ {0}
    /\ MaxLate \in Nat \ {0}
    /\ MaxChange \in Nat \ {0}
    /\ Bound \in Nat
    /\ Enumerable \in BOOLEAN

WorkingPercentOfACore == 1

VARIABLES
    published,   \* age of the member's last event, as the sink stamped it
    phase,       \* the loop is waiting ("recv") or holds the stamp it loaded
    read,        \* the age of that stamp
    late,        \* ticks since the loop last judged
    cleared,     \* Stall::cleared, as an age
    observed,    \* Stall::observed, without its sample
    taken,       \* age of the last look
    found,       \* some process is stamped for the member
    change,      \* CPU its tree is charged now, less what the sample reads
    wedged,      \* the member is alive and will do nothing again
    condemned,   \* the watchdog has condemned it
    busy,        \* history: ticks the same processes have been working for
    base,        \* history: age of the look the present sequence began with
    fresh,       \* history: the tree was charged something since the last look
    left,        \* history: a process has left since that sequence began
    slow         \* history: the loop has been later than Tolerated since then

clock == <<published, phase, read, late>>
stall == <<cleared, observed, taken>>
tree == <<found, change, wedged>>
history == <<busy, base, fresh, left, slow>>
watchVars == <<clock, stall, tree, condemned, history>>

Older(age) == IF age > Bound THEN age ELSE age + 1
Abs(n) == IF n < 0 THEN -n ELSE n
Least(m, n) == IF m < n THEN m ELSE n

\* The lateness that looks half a bound old can make up for: less than a quarter of
\* the bound, half of it with a probe, and less than the window in which a tick of
\* work is WORKING_PERCENT_OF_A_CORE
Tolerated(lateness) ==
    /\ 4 * lateness < Bound
    /\ 2 * (ProbeEvery + lateness) <= Bound
    /\ ProbeEvery + lateness <= 100

WatchInit ==
    /\ published = 0
    /\ phase = "recv"
    /\ read = 0
    /\ late = 0
    /\ cleared = 0
    /\ observed = "nothing"
    /\ taken = 0
    /\ found = FALSE
    /\ change = 0
    /\ wedged = FALSE
    /\ condemned = FALSE
    /\ busy = 0
    /\ base = 0
    /\ fresh = FALSE
    /\ left = FALSE
    /\ slow = FALSE

-----------------------------------------------------------------------------
(* The member, its processes and time.                                      *)

\* A tick, in which the tree is charged `units` of CPU
TimePasses ==
    /\ ~condemned
    /\ late < MaxLate
    /\ \E units \in {0, 1} :
        /\ units = 1 => found /\ ~wedged
        /\ change' = IF change < MaxChange THEN change + units ELSE change
        /\ busy' = IF units = 0 THEN 0 ELSE IF busy < ProbeEvery THEN busy + 1 ELSE busy
        /\ fresh' = (fresh \/ units = 1)
    /\ late' = late + 1
    /\ published' = Older(published)
    /\ read' = IF phase = "read" THEN Older(read) ELSE 0
    /\ cleared' = Older(cleared)
    /\ taken' = IF observed = "nothing" THEN 0 ELSE Older(taken)
    /\ base' = IF observed = "nothing" THEN 0 ELSE IF base > Bound + 1 THEN base ELSE base + 1
    /\ slow' = (slow \/ ~Tolerated(late'))
    /\ UNCHANGED <<phase, observed, found, wedged, condemned, left>>

\* The sink is handed an event and stamps the clock
Publish ==
    /\ ~condemned
    /\ ~wedged
    /\ published' = 0
    /\ UNCHANGED <<phase, read, late, stall, tree, condemned, history>>

Join ==
    /\ ~condemned
    /\ ~wedged
    /\ ~found
    /\ found' = TRUE
    /\ UNCHANGED <<clock, stall, change, wedged, condemned, history>>

\* A process leaves and takes its whole lifetime's CPU out of the total
Leave ==
    /\ ~condemned
    /\ ~wedged
    /\ found
    /\ found' \in BOOLEAN
    /\ change' \in (- MaxChange) .. (IF found' THEN change ELSE Least(change, 0))
    /\ busy' = 0
    /\ left' = TRUE
    /\ UNCHANGED <<clock, stall, wedged, condemned, base, fresh, slow>>

\* Its harness is alive and will never answer
Wedge ==
    /\ ~condemned
    /\ ~wedged
    /\ found
    /\ wedged' = TRUE
    /\ UNCHANGED <<clock, stall, found, change, condemned, history>>

-----------------------------------------------------------------------------
(* The supervising loop. A definition marked "mutant" is a bug this code    *)
(* could have had in the definition after it.                               *)

\* activity.load, the argument of condemns
LoadActivity ==
    /\ ~condemned
    /\ phase = "recv"
    /\ phase' = "read"
    /\ read' = published
    /\ UNCHANGED <<published, late, stall, tree, condemned, history>>

Quiet == Least(read, cleared)

Due == observed = "nothing" \/ taken >= ProbeEvery

\* mutant: only a total that fell is work
WorkedIfLess == change < 0

\* Work::worked over the window since the sample
Worked == Abs(change) * 100 > taken * WorkingPercentOfACore

Asked == phase = "read" /\ ~condemned
Judged == phase' = "recv" /\ late' = 0 /\ read' = 0 /\ UNCHANGED published
Condemns(verdict) == condemned' = (verdict = "idle" /\ Quiet > Bound)

\* Publishing normally: what was seen before is no evidence about this silence
JudgePublishing ==
    /\ Asked
    /\ 2 * Quiet < Bound
    /\ observed' = "nothing"
    /\ left' = FALSE
    /\ taken' = 0
    /\ base' = 0
    /\ Judged
    /\ UNCHANGED <<cleared, tree, condemned, busy, fresh, slow>>

\* No look is due, and the last one's verdict stands
JudgeByLastLook ==
    /\ Asked
    /\ 2 * Quiet >= Bound
    /\ ~Due
    /\ Condemns(observed)
    /\ Judged
    /\ UNCHANGED <<stall, tree, history>>

\* A look, and what it leaves to compare the next with
Look(verdict) ==
    /\ Asked
    /\ 2 * Quiet >= Bound
    /\ Due
    /\ observed' = verdict
    /\ taken' = 0
    /\ change' = 0
    /\ fresh' = FALSE
    /\ Condemns(verdict)
    /\ Judged
    /\ UNCHANGED <<found, wedged, busy>>

\* This look is the first of those a verdict will rest on
SequenceBegins == base' = 0 /\ left' = FALSE /\ slow' = ~Tolerated(late)

Visible == Enumerable /\ found
Sampled == observed \in {"moving", "idle"}

\* Nothing stamped for the member: no verdict, and no sample is kept
LookUnfound ==
    /\ ~Visible
    /\ Look("unfound")
    /\ UNCHANGED <<cleared, base, left, slow>>

\* The first look at a tree is a baseline and nothing else
LookFirst ==
    /\ Visible
    /\ ~Sampled
    /\ Look("moving")
    /\ SequenceBegins
    /\ UNCHANGED cleared

\* Live work counts as a line the member published
LookWorked ==
    /\ Visible
    /\ Sampled
    /\ Worked
    /\ Look("moving")
    /\ cleared' = 0
    /\ SequenceBegins

\* mutant: every look counts as a line the member published
LookIdleClears ==
    /\ Visible
    /\ Sampled
    /\ ~Worked
    /\ Look("idle")
    /\ cleared' = 0
    /\ UNCHANGED <<base, left, slow>>

LookIdle ==
    /\ Visible
    /\ Sampled
    /\ ~Worked
    /\ Look("idle")
    /\ UNCHANGED <<cleared, base, left, slow>>

Judge ==
    \/ JudgePublishing
    \/ JudgeByLastLook
    \/ LookUnfound
    \/ LookFirst
    \/ LookWorked
    \/ LookIdle

-----------------------------------------------------------------------------
Over == condemned /\ UNCHANGED watchVars

WatchNext ==
    \/ TimePasses
    \/ Publish
    \/ Join
    \/ Leave
    \/ Wedge
    \/ LoadActivity
    \/ Judge
    \/ Over

(* Time passes and the supervising loop comes round. *)
WatchFairness == WF_watchVars(TimePasses) /\ WF_watchVars(LoadActivity) /\ WF_watchVars(Judge)

WatchSpec == WatchInit /\ [][WatchNext]_watchVars /\ WatchFairness

-----------------------------------------------------------------------------
WatchTypeOK ==
    /\ published \in 0 .. Bound + 1
    /\ phase \in {"recv", "read"}
    /\ read \in 0 .. Bound + 1
    /\ late \in 0 .. MaxLate
    /\ cleared \in 0 .. Bound + 1
    /\ observed \in {"nothing", "unfound", "moving", "idle"}
    /\ taken \in 0 .. Bound + 1
    /\ found \in BOOLEAN
    /\ change \in (- MaxChange) .. MaxChange
    /\ wedged \in BOOLEAN
    /\ condemned \in BOOLEAN
    /\ busy \in 0 .. ProbeEvery
    /\ base \in 0 .. Bound + 2
    /\ fresh \in BOOLEAN
    /\ left \in BOOLEAN
    /\ slow \in BOOLEAN

(* A member is condemned on evidence of the silence it is condemned for.     *)
(* "A member blocked on a child that is doing the work is left alone": one   *)
(* whose tree has been working for a whole probe interval is not condemned,  *)
(* however old the verdict its clock still holds. (A process that leaves can *)
(* take out of the total exactly what another was charged; then it is.) And  *)
(* "a tree examined before this member's last event is not evidence about    *)
(* the silence that follows it", as far as the loop has heard: an event that *)
(* lands after the clock was loaded does not save the member. (A loop that   *)
(* was late for longer than Tolerated while it looked can condemn on older   *)
(* looks: it hears of events only when it comes round.)                      *)
CondemnedOnEvidence ==
    [][condemned' /\ ~condemned /\ ~slow =>
         /\ left' \/ busy' < ProbeEvery
         /\ base' <= Least(read, cleared)]_watchVars

(* A wedged member, alive and never to do anything again, is condemned,      *)
(* whatever the processes around it did before it wedged. (A host that can   *)
(* enumerate no process condemns nobody for silence: Enumerable is TRUE.)    *)
WedgedIsCondemned == wedged ~> condemned

=============================================================================
