---------------------------- MODULE HarnessMember ----------------------------
(***************************************************************************)
(* One `kind: oneharness` member over its firings: src/src/harness.rs, the *)
(* heartbeat of member.rs, the pre-turn views of preturn.rs and the        *)
(* interrupt of control.rs. Each firing runs in the member's one scratch   *)
(* directory, so the control record there outlives the firing it was       *)
(* written for, and so may an engine thread the run gave up on.            *)
(*                                                                         *)
(* Threads: the member's own (`phase`), the engine of firing f (`eng[f]`), *)
(* the heartbeat's (`beats`), and an operator's `interrupt`, a process of  *)
(* its own (`op`). The watchdog's verdict is an input here (`stalled`):    *)
(* Watchdog.tla is the model of how it is reached.                         *)
(***************************************************************************)
EXTENDS Integers, FiniteSets

CONSTANTS
    Firings,    \* bound: how often the member fires
    Views       \* how many pre-turn commands it declares

ASSUME HarnessAssumption == Firings \in Nat \ {0} /\ Views \in Nat

F == 1 .. Firings

\* What control.json says: nothing, half a write, no turn, or turn f's address
None == 0
Torn == -1
Unavailable == -2
Idle == -3
Sessions == F \cup {None, Torn, Unavailable}

VARIABLES
    phase,      \* where the member's thread is
    firing,     \* the firing it is in, or was in last; 0 before the first
    left,       \* views still to run
    view,       \* the view's child: "none", "running" or "exited"
    overdue,    \* the view's own bound has passed
    holder,     \* a descendant of the view holds the write end of its pipe
    control,    \* control.json
    eng,        \* eng[f]: the engine thread of firing f
    ctl,        \* ctl[f]: its turn is running with `control` on
    opened,     \* opened[f]: TheTurn::opened of firing f
    ungrouped,  \* HarnessSpawn::ungrouped, of the firing under way
    answer,     \* what its engine has sent, "none" before that
    rule,       \* the rule that condemned the firing being torn down
    beats,      \* the heartbeat's thread: "none", "beating", "starved", "refused"
    stalled,    \* the activity watchdog would condemn
    op,         \* the interrupt: Idle, or the record it has read
    astray,     \* history: an interrupt redirected another turn than it read
    said        \* history: said[f][kind], the events published (bound: to 2)

engines == <<eng, ctl, opened, ungrouped, answer>>
viewing == <<left, view, overdue, holder>>
health == <<beats, stalled>>
vars == <<phase, firing, viewing, control, engines, rule, health, op, astray, said>>

Phases == {"rest", "views", "drain", "control", "spawn", "wait", "check",
           "condemned", "join"}
EngineStates == {"none", "turn", "refused", "rewrite", "stopping", "answered",
                 "heard", "lost"}

\* An answer: an error, or a report whose chain may have passed candidates over
Advancing == {"recovered", "exhausted"}
Answers == {"error", "settled", "failed"} \cup Advancing
Kinds == {"started", "activity", "completed", "advanced", "settled", "died"}

Quiet == [k \in Kinds |-> 0]
Counted(k, n) == IF n = 2 \/ k = "activity" THEN IF n = 0 THEN 1 ELSE n ELSE n + 1

\* Each kind of S is published once more for firing f
Publish(f, S) ==
    said' = [said EXCEPT ![f] = [k \in Kinds |-> IF k \in S THEN Counted(k, @[k]) ELSE @[k]]]

Init ==
    /\ phase = "rest"
    /\ firing = 0
    /\ left = 0 /\ view = "none" /\ overdue = FALSE /\ holder = FALSE
    /\ control = None
    /\ eng = [f \in F |-> "none"]
    /\ ctl = [f \in F |-> FALSE]
    /\ opened = [f \in F |-> FALSE]
    /\ ungrouped = FALSE
    /\ answer = "none"
    /\ rule = "none"
    /\ beats = "none" /\ stalled = FALSE
    /\ op = Idle
    /\ astray = FALSE
    /\ said = [f \in F |-> Quiet]

-----------------------------------------------------------------------------
(* The member's thread, up to the engine. A definition marked "mutant" is a *)
(* bug this code could have had in the one after it; nothing uses it.       *)

\* member::run and Group::open: a host that gives the member no group of
\* processes ends the firing before any of it
Launch ==
    /\ phase = "rest"
    /\ firing < Firings
    /\ firing' = firing + 1
    /\ \/ /\ phase' = "views"
          /\ left' = Views
          /\ UNCHANGED said
       \/ /\ Publish(firing + 1, {"died"})
          /\ UNCHANGED <<phase, left>>
    /\ UNCHANGED <<view, overdue, holder, control, engines, rule, health>>
    /\ UNCHANGED <<op, astray>>

\* preturn::capture: the next view, through the member's group, or unspawnable
SpawnView ==
    /\ phase = "views"
    /\ left > 0
    /\ view = "none"
    /\ \/ view' = "running" /\ UNCHANGED left
       \/ left' = left - 1 /\ UNCHANGED view
    /\ UNCHANGED <<phase, firing, overdue, holder, control, engines, rule>>
    /\ UNCHANGED <<health, op, astray, said>>

\* The view's command, a program of the operator's: it may start one that
\* keeps its standard output, and may end or not
ViewForks ==
    /\ view = "running"
    /\ ~holder
    /\ holder' = TRUE
    /\ UNCHANGED <<phase, firing, left, view, overdue, control, engines>>
    /\ UNCHANGED <<rule, health, op, astray, said>>

ViewExits ==
    /\ view = "running"
    /\ view' = "exited"
    /\ UNCHANGED <<phase, firing, left, overdue, holder, control, engines>>
    /\ UNCHANGED <<rule, health, op, astray, said>>

HolderExits ==
    /\ holder
    /\ holder' = FALSE
    /\ UNCHANGED <<phase, firing, left, view, overdue, control, engines>>
    /\ UNCHANGED <<rule, health, op, astray, said>>

BoundPasses ==
    /\ view # "none"
    /\ ~overdue
    /\ overdue' = TRUE
    /\ UNCHANGED <<phase, firing, left, view, holder, control, engines>>
    /\ UNCHANGED <<rule, health, op, astray, said>>

\* try_wait: an exit is looked for before the deadline is
ViewReaped ==
    /\ phase = "views"
    /\ view = "exited"
    /\ phase' = "drain"
    /\ UNCHANGED <<firing, viewing, control, engines, rule, health, op>>
    /\ UNCHANGED <<astray, said>>

\* The view is over, whatever is to be said of it
NextView ==
    /\ phase' = "views"
    /\ left' = left - 1
    /\ view' = "none"
    /\ overdue' = FALSE

\* Its own bound: killed, waited for, and what it started reaped with it
ViewTimesOut ==
    /\ phase = "views"
    /\ view = "running"
    /\ overdue
    /\ NextView
    /\ holder' = FALSE
    /\ UNCHANGED <<firing, control, engines, rule, health, op, astray, said>>

\* out.join(), err.join(): the readers end when nobody can write any more
Drained ==
    /\ phase = "drain"
    /\ ~holder
    /\ NextView
    /\ UNCHANGED <<firing, holder, control, engines, rule, health, op>>
    /\ UNCHANGED <<astray, said>>

\* with_control begins: std::fs::write empties the record it replaces
OpenControl ==
    /\ phase = "views"
    /\ left = 0
    /\ phase' = "control"
    /\ control' = Torn
    /\ UNCHANGED <<firing, viewing, engines, rule, health, op, astray, said>>

\* mutant: a session named after the member alone, the same in every firing
SessionOfMember(f) == 1

\* The session with_control names: launch.session and the moment it opened
Session(f) == f

\* A chain that can be interrupted has an address, any other a reason
WriteControl ==
    /\ phase = "control"
    /\ phase' = "spawn"
    /\ \/ control' = Session(firing) /\ ctl' = [ctl EXCEPT ![firing] = TRUE]
       \/ control' = Unavailable /\ UNCHANGED ctl
    /\ UNCHANGED <<firing, viewing, eng, opened, ungrouped, answer, rule, health>>
    /\ UNCHANGED <<op, astray, said>>

\* The engine's thread, then the heartbeat's, which the host may refuse. An
\* engine thread that is refused ends the firing.
StartEngine ==
    /\ phase = "spawn"
    /\ \/ /\ phase' = "wait"
          /\ eng' = [eng EXCEPT ![firing] = "turn"]
          /\ beats' \in {"beating", "refused"}
          /\ UNCHANGED said
       \/ /\ phase' = "rest"
          /\ Publish(firing, {"died"})
          /\ UNCHANGED <<eng, beats>>
    /\ ungrouped' = FALSE
    /\ answer' = "none"
    /\ stalled' = FALSE
    /\ UNCHANGED <<firing, viewing, control, ctl, opened, rule, op, astray>>

-----------------------------------------------------------------------------
(* The engine's thread, a library: what it may do, and what this crate does *)
(* when it calls back. An engine the run gave up on keeps its thread.       *)

Over == phase \in {"join", "rest"}
Abandoned(f) == f < firing \/ (f = firing /\ Over)

\* The CancelToken of firing f: set by a refused spawn or by condemn
Cancelled(f) == Abandoned(f) \/ ungrouped \/ phase = "condemned"

\* HarnessSpawn: a process that cannot be put in the group
SpawnUngrouped ==
    /\ phase \in {"wait", "check", "condemned"}
    /\ eng[firing] = "turn"
    /\ ungrouped' = TRUE
    /\ UNCHANGED <<phase, firing, viewing, control, eng, ctl, opened, answer, rule>>
    /\ UNCHANGED <<health, op, astray, said>>

\* mutant: nobody remembers that the turn is open
EachTime(f) == {"started"}

\* TheTurn::open: what the first caller publishes
IfFirst(f) == IF opened[f] THEN {} ELSE {"started"}

\* Events::event: the turn is opened, the activity published and counted, and
\* a cancelled engine is told to stop
Event(f) ==
    /\ eng[f] = "turn"
    /\ eng' = [eng EXCEPT ![f] = IF Cancelled(f) THEN "stopping" ELSE @]
    /\ opened' = [opened EXCEPT ![f] = TRUE]
    /\ stalled' = (stalled /\ f # firing)
    /\ Publish(f, {"activity"} \cup IfFirst(f))
    /\ UNCHANGED <<phase, firing, viewing, control, ctl, ungrouped, answer, rule>>
    /\ UNCHANGED <<beats, op, astray>>

\* refused_control: the run was refused over its control flag, before it began
RefuseControl(f) ==
    /\ eng[f] = "turn"
    /\ ctl[f]
    /\ ~opened[f]
    /\ eng' = [eng EXCEPT ![f] = "refused"]
    /\ UNCHANGED <<phase, firing, viewing, control, ctl, opened, ungrouped, answer>>
    /\ UNCHANGED <<rule, health, op, astray, said>>

\* The record is emptied, ...
BeginRefusal(f) ==
    /\ eng[f] = "refused"
    /\ eng' = [eng EXCEPT ![f] = "rewrite"]
    /\ control' = Torn
    /\ UNCHANGED <<phase, firing, viewing, ctl, opened, ungrouped, answer, rule>>
    /\ UNCHANGED <<health, op, astray, said>>

\* The record of a turn that was refused its control
Refused(f) == Unavailable

\* ... says why there is no turn to reach, and the turn is taken without one
TurnWithoutControl(f) ==
    /\ eng[f] = "rewrite"
    /\ eng' = [eng EXCEPT ![f] = "turn"]
    /\ ctl' = [ctl EXCEPT ![f] = FALSE]
    /\ control' = Refused(f)
    /\ UNCHANGED <<phase, firing, viewing, opened, ungrouped, answer, rule, health>>
    /\ UNCHANGED <<op, astray, said>>

\* The run returns: an error, or the report of a turn that settled or failed,
\* by the first candidate of its chain or by the last one left. Nobody holds
\* the other end of an abandoned engine's channel.
Answer(f, a) ==
    /\ eng[f] \in {"turn", "stopping"}
    /\ IF Abandoned(f)
       THEN eng' = [eng EXCEPT ![f] = "lost"] /\ UNCHANGED answer
       ELSE eng' = [eng EXCEPT ![f] = "answered"] /\ answer' = a
    /\ UNCHANGED <<phase, firing, viewing, control, ctl, opened, ungrouped, rule>>
    /\ UNCHANGED <<health, op, astray, said>>

\* A panic drops the sender
Panic(f) ==
    /\ eng[f] = "turn"
    /\ eng' = [eng EXCEPT ![f] = "lost"]
    /\ UNCHANGED <<phase, firing, viewing, control, ctl, opened, ungrouped, answer>>
    /\ UNCHANGED <<rule, health, op, astray, said>>

-----------------------------------------------------------------------------
(* supervise: the loop, its heartbeat and its two rules.                    *)

\* The firing ends with the events of S, and its heartbeat is told to stop
EndFiring(S) ==
    /\ phase' = "join"
    /\ Publish(firing, S)
    /\ stalled' = FALSE
    /\ rule' = "none"
    /\ UNCHANGED beats

\* Drop for Heartbeat: its thread is joined, which ends as soon as it runs, and
\* is waited for until it does
JoinHeartbeat ==
    /\ phase = "join"
    /\ beats # "starved"
    /\ phase' = "rest"
    /\ beats' = "none"
    /\ UNCHANGED <<firing, viewing, control, engines, rule, stalled, op, astray, said>>

\* The channel is empty from here on
Hear == eng' = [eng EXCEPT ![firing] = "heard"]

\* mutant: nobody asks whether the harness is where a cancel reaches it
GroupUnasked == FALSE

\* Answer::ungrouped
GroupAsked == ungrouped

\* advance: every candidate that was passed over is said
Advanced == IF answer \in Advancing THEN {"advanced"} ELSE {}

\* finish: what the answer in hand makes of the firing
FinishEvents ==
    CASE answer = "error" -> {"died"} \cup IfFirst(firing)
      [] answer # "error" /\ (GroupAsked \/ answer \in {"failed", "exhausted"}) ->
             {"died"} \cup Advanced
      [] OTHER -> {"completed", "settled"} \cup IfFirst(firing) \cup Advanced

Finish ==
    /\ phase = "wait"
    /\ eng[firing] = "answered"
    /\ Hear
    /\ EndFiring(FinishEvents)
    /\ opened' = [opened EXCEPT ![firing] = @ \/ "started" \in FinishEvents]
    /\ UNCHANGED <<firing, viewing, control, ctl, ungrouped, answer, op, astray>>

\* The channel is disconnected: the engine ended without answering
EngineLost ==
    /\ phase = "wait"
    /\ eng[firing] = "lost"
    /\ EndFiring({"died"})
    /\ UNCHANGED <<firing, viewing, control, engines, op, astray>>

\* recv_timeout waited a whole interval, and what comes later waits for the
\* loop to come round
Timeout ==
    /\ phase = "wait"
    /\ eng[firing] \notin {"answered", "lost"}
    /\ phase' = "check"
    /\ UNCHANGED <<firing, viewing, control, engines, rule, health, op, astray, said>>

\* A host too loaded to run the heartbeat's thread inside the bound, and back:
\* a thread that was told to stop ends when it runs again
Starve ==
    /\ beats \in {"beating", "starved"}
    /\ beats' = IF beats = "beating" THEN "starved"
                ELSE IF phase = "join" THEN "none" ELSE "beating"
    /\ UNCHANGED <<phase, firing, viewing, control, engines, rule, stalled, op>>
    /\ UNCHANGED <<astray, said>>

\* The watchdog has seen nothing move for its bound
FallSilent ==
    /\ phase \in {"wait", "check"}
    /\ ~stalled
    /\ stalled' = TRUE
    /\ UNCHANGED <<phase, firing, viewing, control, engines, rule, beats, op>>
    /\ UNCHANGED <<astray, said>>

\* mutant: a thread that never ran has no beat to be old
BeatOfThread == beats = "starved"

\* Heartbeat::since_last > bounds.heartbeat: the thread is not there, or has
\* not run. The loop being late is neither.
BeatIsOld == beats \in {"refused", "starved"}

Condemn(by) ==
    /\ phase = "check"
    /\ phase' = "condemned"
    /\ rule' = by
    /\ UNCHANGED <<firing, viewing, control, engines, health, op, astray, said>>

\* The heartbeat rule is asked first
CondemnByHeartbeat == BeatIsOld /\ Condemn("heartbeat")
CondemnByActivity == ~BeatIsOld /\ stalled /\ Condemn("activity")

Spared ==
    /\ phase = "check"
    /\ ~BeatIsOld
    /\ ~stalled
    /\ phase' = "wait"
    /\ UNCHANGED <<firing, viewing, control, engines, rule, health, op, astray, said>>

\* condemn hears the engine inside TEARDOWN_GRACE: condemned all the same
TornDown ==
    /\ phase = "condemned"
    /\ eng[firing] = "answered"
    /\ Hear
    /\ EndFiring({"died"} \cup Advanced)
    /\ UNCHANGED <<firing, viewing, control, ctl, opened, ungrouped, answer>>
    /\ UNCHANGED <<op, astray>>

\* mutant: the teardown waits for the engine, however long it takes
GiveUpWhenLost ==
    /\ phase = "condemned"
    /\ eng[firing] = "lost"
    /\ EndFiring({"died"})
    /\ UNCHANGED <<firing, viewing, control, engines, op, astray>>

\* The grace is over, or the engine is gone: the run gives up on it
GiveUp ==
    /\ phase = "condemned"
    /\ EndFiring({"died"})
    /\ eng' = [eng EXCEPT ![firing] = IF @ = "answered" THEN "lost" ELSE @]
    /\ UNCHANGED <<firing, viewing, control, ctl, opened, ungrouped, answer>>
    /\ UNCHANGED <<op, astray>>

-----------------------------------------------------------------------------
(* control::interrupt: the record is read, then the address in it is called. *)

ReadControl ==
    /\ op = Idle
    /\ op' = control
    /\ UNCHANGED <<phase, firing, viewing, control, engines, rule, health, astray, said>>

\* A record with no address, none, or a torn one: there is no turn to reach
NoTurn ==
    /\ op \in {None, Torn, Unavailable}
    /\ op' = Idle
    /\ UNCHANGED <<phase, firing, viewing, control, engines, rule, health, astray, said>>

\* Who listens on a session's socket: external, one turn with control on
Listening(s) == {f \in F : Session(f) = s /\ eng[f] = "turn" /\ ctl[f]}

\* deliver: the turn that listens there is redirected, and if none does, or it
\* is between turns, there was no turn
Deliver ==
    /\ op \in F
    /\ \/ \E f \in Listening(op) : astray' = (astray \/ f # op)
       \/ UNCHANGED astray
    /\ op' = Idle
    /\ UNCHANGED <<phase, firing, viewing, control, engines, rule, health, said>>

-----------------------------------------------------------------------------

MemberStep ==
    \/ SpawnView \/ ViewReaped \/ ViewTimesOut \/ Drained
    \/ OpenControl \/ WriteControl \/ StartEngine
    \/ Finish \/ EngineLost \/ Timeout
    \/ CondemnByHeartbeat \/ CondemnByActivity \/ Spared
    \/ TornDown \/ GiveUp \/ JoinHeartbeat

EngineStep(f) ==
    \/ Event(f)
    \/ RefuseControl(f) \/ BeginRefusal(f) \/ TurnWithoutControl(f)
    \/ \E a \in Answers : Answer(f, a)
    \/ Panic(f)

Next ==
    \/ Launch \/ MemberStep
    \/ ViewForks \/ ViewExits \/ HolderExits \/ BoundPasses
    \/ SpawnUngrouped
    \/ \E f \in F : EngineStep(f)
    \/ Starve \/ FallSilent
    \/ ReadControl \/ NoTurn \/ Deliver

(* The member's thread is never left unscheduled, and its clocks run: a     *)
(* view's bound passes and an engine that does nothing falls silent. No     *)
(* engine, view or heartbeat is assumed to do anything.                     *)
Runs == WF_vars(MemberStep) /\ WF_vars(BoundPasses) /\ WF_vars(FallSilent)

SafeSpec == Init /\ [][Next]_vars

Spec == SafeSpec /\ Runs

-----------------------------------------------------------------------------

\* Every variable has its type (the state every action of this module reads).
TypeOK ==
    /\ phase \in Phases /\ firing \in 0 .. Firings /\ left \in 0 .. Views
    /\ view \in {"none", "running", "exited"}
    /\ {overdue, holder, ungrouped, stalled, astray} \subseteq BOOLEAN
    /\ control \in Sessions
    /\ eng \in [F -> EngineStates]
    /\ ctl \in [F -> BOOLEAN] /\ opened \in [F -> BOOLEAN]
    /\ answer \in Answers \cup {"none"}
    /\ rule \in {"none", "heartbeat", "activity"}
    /\ beats \in {"none", "beating", "starved", "refused"}
    /\ op \in Sessions \cup {Idle}
    /\ said \in [F -> [Kinds -> 0 .. 2]]

(* A firing is told once and whole, whichever of its ends it came to        *)
(* (finish, a lost engine, both rules, the give-up, both refusals): exactly *)
(* one member-settled or member-died once it is over, none before; a        *)
(* turn-completed exactly when it settled; one turn-started, before any     *)
(* activity, even of an engine that answers after the run gave up on it;    *)
(* and what a chain passed over, once its answer is heard, of a firing that *)
(* settles, that fails and that was condemned while it answered.            *)
ToldOnceAndWhole ==
    \A f \in F :
        /\ said[f]["settled"] + said[f]["died"]
             = IF f <= firing /\ Abandoned(f) THEN 1 ELSE 0
        /\ said[f]["completed"] = said[f]["settled"]
        /\ said[f]["activity"] + said[f]["completed"] > 0 => said[f]["started"] = 1
        /\ said[f]["started"] < 2
        /\ f = firing /\ eng[f] = "heard" /\ answer \in Advancing => said[f]["advanced"] = 1

(* A harness that could not be put in the member's group is outside a       *)
(* cancel's reach: its turn never settles (HarnessSpawn::refuse).           *)
UngroupedNeverSettles ==
    [][ungrouped => \A f \in F : said'[f]["settled"] = said[f]["settled"]]_vars

(* An interrupt redirects the turn whose address it read, and no later one, *)
(* however long it took between the two and whichever firings passed.       *)
InterruptReachesItsTurn == ~astray

(* A firing ends: a hung engine, a hung view, a panic and a condemnation    *)
(* each come to an end. Three things nothing bounds: an engine that goes on *)
(* publishing, a descendant of a view that keeps its pipe after the view    *)
(* exited, and a host that never again runs the heartbeat's thread, which   *)
(* the member's own thread joins.                                           *)
EveryFiringEnds ==
    \/ []<>(phase = "rest")
    \/ <>[]holder
    \/ <>[](beats = "starved")
    \/ \E f \in F : []<><<Event(f)>>_vars

(* A member whose heartbeat thread the host refused is condemned for it,    *)
(* however busy its engine keeps.                                           *)
UnconfirmedIsCondemned == beats = "refused" ~> phase = "rest"
=============================================================================
