---------------------------- MODULE Conversation ----------------------------
(***************************************************************************)
(* One paced two-party member of src/src/judge.rs: the engine thread that  *)
(* has the conversation, the hold it takes between a supervisor's close    *)
(* and the next worker turn, and the supervising thread that watches it.   *)
(*                                                                         *)
(* The engine's own progress (onejudge) is external: a turn publishes any  *)
(* number of observations, closes, or fails. What the sink answers to each *)
(* observation, and the hold it takes on one of them, is the code's. Time  *)
(* is abstracted to "every has elapsed" (due) and to how many spans the    *)
(* member has published nothing for (silent): two of them are more than    *)
(* the stall bound, and a hold's tick is shorter than one.                 *)
(***************************************************************************)
EXTENDS Naturals

CONSTANTS
    Background,  \* Pace::background: the run's quiescence ends this member
    Resettable,  \* Pace::resettable
    MaxNotes     \* bound: the notes callers offer in one conversation

ASSUME ConversationAssumption ==
    /\ Background \in BOOLEAN
    /\ Resettable \in BOOLEAN
    /\ MaxNotes \in Nat

VARIABLES
    engine,      \* where the engine thread is
    answer,      \* what the engine has sent to the supervising thread
    ended,       \* why a hold ended the conversation, if one did
    due,         \* the hold's counting_since.elapsed() >= every
    seen,        \* Hold::seen_offered
    loaded,      \* hold's local `offered`
    offered,     \* the relay's count of notes offered
    handing,     \* the relay is between notes.offer and that count
    inbox,       \* notes in the conversation's inbox that no turn has taken
    silent,      \* spans since the activity clock was stamped
    slept,       \* the hold has slept a span since its last tick
    watch,       \* where the supervising thread is
    rule,        \* the rule that condemned the member
    abort,       \* the flag the sink answers the engine from
    outcome,     \* what the member came to
    stop,        \* the run's stop file, or the member's own
    quiescent,   \* the file written when the last foreground member finishes
    trigger,     \* <member>.trigger
    reset,       \* <member>.reset
    opened       \* history: worker turns opened once stop was there

conversation == <<engine, answer, ended, due, seen, loaded>>
notes == <<offered, handing, inbox>>
clockvars == <<silent, slept>>
supervisor == <<watch, rule, abort, outcome>>
signals == <<stop, quiescent, trigger, reset>>
vars == <<conversation, notes, clockvars, supervisor, signals, opened>>

Holding == {"asleep", "awake", "heard", "open", "loading", "armed"}
Places == {"opening", "worker", "judge", "resuming", "over"} \cup Holding
Answers == {"completed", "incomplete", "early", "failed", "dropped"}

Init ==
    /\ engine = "opening"
    /\ answer = "none"
    /\ ended = "none"
    /\ due = FALSE
    /\ seen = 0
    /\ loaded = 0
    /\ offered = 0
    /\ handing = FALSE
    /\ inbox = 0
    /\ silent = 0
    /\ slept = FALSE
    /\ watch = "recv"
    /\ rule = "none"
    /\ abort = FALSE
    /\ outcome = "none"
    /\ stop = FALSE
    /\ quiescent = FALSE
    /\ trigger = FALSE
    /\ reset = FALSE
    /\ opened = 0

-----------------------------------------------------------------------------
(* The engine, and what the sink answers it. A definition marked "mutant"   *)
(* is a bug this code could have had in the definition after it.            *)

Answer(a) == engine' = "over" /\ answer' = a

\* Every observation stamps the activity clock before anything is decided
Stamp == silent' = 0 /\ slept' = FALSE

\* The sink's answer to an observation: break once aborted, or go on to `place`
Observed(place) ==
    IF abort THEN Answer("early") ELSE engine' = place /\ UNCHANGED answer

\* A live turn takes some of the notes in its inbox
TakesNotes == inbox' \in 0 .. inbox

\* A worker turn opens, on every note that waited for it
OpenTurn ==
    /\ engine = "opening"
    /\ Observed("worker")
    /\ inbox' = 0
    /\ Stamp
    /\ opened' = IF stop /\ ~abort /\ opened < 2 THEN opened + 1 ELSE opened
    /\ UNCHANGED <<ended, due, seen, loaded, offered, handing, supervisor, signals>>

\* A turn publishes something; a note may redirect it
Speak ==
    /\ engine \in {"worker", "judge"}
    /\ Observed(engine)
    /\ TakesNotes
    /\ Stamp
    /\ UNCHANGED <<ended, due, seen, loaded, offered, handing, supervisor, signals, opened>>

\* The worker's turn closes and the supervisor's opens
WorkerCloses ==
    /\ engine = "worker"
    /\ Observed("judge")
    /\ TakesNotes
    /\ Stamp
    /\ UNCHANGED <<ended, due, seen, loaded, offered, handing, supervisor, signals, opened>>

\* The supervisor's turn closes on a next instruction: the hold begins
JudgeContinues ==
    /\ engine = "judge"
    /\ IF abort THEN Answer("early") /\ UNCHANGED due
                ELSE engine' = "asleep" /\ due' = FALSE /\ UNCHANGED answer
    /\ Stamp
    /\ UNCHANGED <<ended, seen, loaded, notes, supervisor, signals, opened>>

\* It closes on a decision instead: nothing follows, and nothing is held
JudgeEnds ==
    /\ engine = "judge"
    /\ IF abort THEN Answer("early") ELSE \E a \in {"completed", "incomplete"} : Answer(a)
    /\ Stamp
    /\ UNCHANGED <<ended, due, seen, loaded, notes, supervisor, signals, opened>>

\* The engine fails, or panics and drops its end of the channel
TurnFails ==
    /\ engine \in {"worker", "judge"}
    /\ \E a \in {"failed", "dropped"} : Answer(a)
    /\ UNCHANGED <<ended, due, seen, loaded, notes, clockvars, supervisor, signals, opened>>

-----------------------------------------------------------------------------
(* The hold. Each step below is one read of what somebody else writes.      *)

\* mutant: the hold is silence to the activity watchdog
TickUnstamped ==
    /\ engine = "asleep"
    /\ slept' = FALSE
    /\ IF abort THEN Answer("early") ELSE engine' = "awake" /\ UNCHANGED answer
    /\ UNCHANGED <<silent, ended, due, seen, loaded, notes, supervisor, signals, opened>>

\* The tick is over: the wait is not silence; has a watchdog condemned us?
Tick ==
    /\ engine = "asleep"
    /\ Stamp
    /\ IF abort THEN Answer("early") ELSE engine' = "awake" /\ UNCHANGED answer
    /\ UNCHANGED <<ended, due, seen, loaded, notes, supervisor, signals, opened>>

\* mutants: the reason is not written down; the trigger is read before the stop
StopUnnamed ==
    /\ engine = "awake"
    /\ IF stop THEN Answer("early") ELSE engine' = "heard" /\ UNCHANGED answer
    /\ UNCHANGED <<ended, due, seen, loaded, notes, clockvars, supervisor, signals, opened>>
StopAfterTrigger ==
    /\ engine = "awake"
    /\ IF stop /\ ~trigger THEN Answer("early") /\ ended' = "stopped"
                           ELSE engine' = "heard" /\ UNCHANGED <<answer, ended>>
    /\ UNCHANGED <<due, seen, loaded, notes, clockvars, supervisor, signals, opened>>

HearStop ==
    /\ engine = "awake"
    /\ IF stop THEN Answer("early") /\ ended' = "stopped"
               ELSE engine' = "heard" /\ UNCHANGED <<answer, ended>>
    /\ UNCHANGED <<due, seen, loaded, notes, clockvars, supervisor, signals, opened>>

HearQuiet ==
    /\ engine = "heard"
    /\ IF Background /\ quiescent
       THEN Answer("early") /\ ended' = "quiescent"
       ELSE engine' = "open" /\ UNCHANGED <<answer, ended>>
    /\ UNCHANGED <<due, seen, loaded, notes, clockvars, supervisor, signals, opened>>

\* A reset restarts the wait in progress
HearReset ==
    /\ engine = "open"
    /\ IF Resettable /\ reset
       THEN reset' = FALSE /\ due' = FALSE /\ engine' = "asleep"
       ELSE engine' = "loading" /\ UNCHANGED <<reset, due>>
    /\ UNCHANGED <<answer, ended, seen, loaded, notes, clockvars, supervisor>>
    /\ UNCHANGED <<stop, quiescent, trigger, opened>>

CountNotes ==
    /\ engine = "loading"
    /\ loaded' = offered
    /\ engine' = "armed"
    /\ UNCHANGED <<answer, ended, due, seen, notes, clockvars, supervisor, signals, opened>>

\* `offered != self.seen_offered`
NoteArrived == loaded # seen

HoldFires ==
    /\ engine = "armed"
    /\ trigger \/ NoteArrived \/ due
    /\ trigger' = FALSE
    /\ seen' = loaded
    /\ engine' = "resuming"
    /\ UNCHANGED <<answer, ended, due, loaded, notes, clockvars, supervisor>>
    /\ UNCHANGED <<stop, quiescent, reset, opened>>

HoldGoesOn ==
    /\ engine = "armed"
    /\ ~trigger /\ ~NoteArrived /\ ~due
    /\ engine' = "asleep"
    /\ UNCHANGED <<answer, ended, due, seen, loaded, notes, clockvars, supervisor, signals, opened>>

\* The hold ended in the next turn; the sink reads abort once more
Resume ==
    /\ engine = "resuming"
    /\ Observed("opening")
    /\ UNCHANGED <<ended, due, seen, loaded, notes, clockvars, supervisor, signals, opened>>

Elapse ==
    /\ engine \in Holding
    /\ ~due
    /\ due' = TRUE
    /\ UNCHANGED <<engine, answer, ended, seen, loaded, notes, clockvars, supervisor, signals, opened>>

\* Another span with nothing published: in a turn, or once between two ticks
FallSilent ==
    /\ silent < 2
    /\ \/ engine \in {"worker", "judge"} /\ UNCHANGED slept
       \/ engine = "asleep" /\ ~slept /\ slept' = TRUE
    /\ silent' = silent + 1
    /\ UNCHANGED <<conversation, notes, supervisor, signals, opened>>

-----------------------------------------------------------------------------
(* The supervising thread.                                                  *)

\* recv_timeout answered; then the note seam is closed
Receive ==
    /\ watch = "recv"
    /\ answer \notin {"none", "dropped"}
    /\ watch' = "finishing"
    /\ UNCHANGED <<rule, abort, outcome, conversation, notes, clockvars, signals, opened>>

\* Disconnected: the engine thread panicked, and nothing is closed
ReceiveDropped ==
    /\ watch = "recv"
    /\ answer = "dropped"
    /\ outcome' = "died"
    /\ watch' = "over"
    /\ UNCHANGED <<rule, abort, conversation, notes, clockvars, signals, opened>>

RecvTimesOut ==
    /\ watch = "recv"
    /\ answer = "none"
    /\ watch' = "check"
    /\ UNCHANGED <<rule, abort, outcome, conversation, notes, clockvars, signals, opened>>

\* What finish makes of an answer; `o` is what a failure is reconciled to
Finished(o) ==
    CASE answer = "completed"                      -> "settled"
      [] answer = "incomplete"                     -> "incomplete"
      [] answer = "early" /\ ended = "stopped"     -> "died"
      [] answer = "early" /\ ended = "quiescent"   -> "settled"
      [] answer = "early" /\ ended = "none"        -> "incomplete"
      [] answer = "failed" /\ stop                 -> "died"
      [] OTHER                                     -> o

Finish ==
    /\ watch = "finishing"
    /\ \E o \in {"died", "incomplete"} : outcome' = Finished(o)
    /\ watch' = "over"
    /\ UNCHANGED <<rule, abort, conversation, notes, clockvars, signals, opened>>

\* Condemned: the note seam is closed before the engine is asked to stop
Condemned(r) ==
    /\ watch' = "closing"
    /\ rule' = r
    /\ UNCHANGED <<abort, outcome, conversation, notes, clockvars, signals, opened>>

CondemnStopped == watch = "check" /\ stop /\ Condemned("signalled")

\* The heartbeat thread was starved for longer than its bound: may happen
CondemnHeartbeat == watch = "check" /\ ~stop /\ Condemned("heartbeat")

\* The activity clock is read, and what is concluded from it comes after a
\* look at the process tree: Watchdog.tla has the rule
JudgeSilent ==
    /\ watch = "check"
    /\ ~stop
    /\ silent = 2
    /\ watch' = "judged"
    /\ UNCHANGED <<rule, abort, outcome, conversation, notes, clockvars, signals, opened>>

CondemnSilent == watch = "judged" /\ Condemned("activity")

\* Nothing is late, or the tree was working through the silence
NothingWrong ==
    /\ watch = "check"
    /\ ~stop
    /\ watch' = "recv"
    /\ UNCHANGED <<rule, abort, outcome, conversation, notes, clockvars, signals, opened>>

\* condemn: ask, reap, and wait for the engine's answer
AskToStop ==
    /\ watch = "closing"
    /\ abort' = TRUE
    /\ watch' = "teardown"
    /\ UNCHANGED <<rule, outcome, conversation, notes, clockvars, signals, opened>>

\* mutant: the thread is waited for, however long it takes
WaitForAnswer ==
    /\ watch = "teardown"
    /\ answer # "none"
    /\ outcome' = "died"
    /\ watch' = "over"
    /\ UNCHANGED <<rule, abort, conversation, notes, clockvars, signals, opened>>

\* It answered, or TEARDOWN_GRACE is over and its thread is abandoned
GiveUp ==
    /\ watch = "teardown"
    /\ outcome' = "died"
    /\ watch' = "over"
    /\ UNCHANGED <<rule, abort, conversation, notes, clockvars, signals, opened>>

-----------------------------------------------------------------------------
(* The relay and the operator: other threads, other processes.              *)

\* The note is in the inbox before the hold's count says so
OfferNote ==
    /\ offered < MaxNotes
    /\ ~handing
    /\ engine # "over"
    /\ watch \in {"recv", "check", "judged"}
    /\ inbox' = inbox + 1
    /\ handing' = TRUE
    /\ UNCHANGED <<offered, conversation, clockvars, supervisor, signals, opened>>

CountNote ==
    /\ handing
    /\ offered' = offered + 1
    /\ handing' = FALSE
    /\ UNCHANGED <<inbox, conversation, clockvars, supervisor, signals, opened>>

Operate ==
    /\ outcome = "none"
    /\ \/ ~stop /\ stop' = TRUE /\ UNCHANGED <<quiescent, trigger, reset>>
       \/ ~quiescent /\ Background /\ quiescent' = TRUE /\ UNCHANGED <<stop, trigger, reset>>
       \/ ~trigger /\ trigger' = TRUE /\ UNCHANGED <<stop, quiescent, reset>>
       \/ ~reset /\ Resettable /\ reset' = TRUE /\ UNCHANGED <<stop, quiescent, trigger>>
    /\ UNCHANGED <<conversation, notes, clockvars, supervisor, opened>>

-----------------------------------------------------------------------------
TurnEnds == WorkerCloses \/ JudgeContinues \/ JudgeEnds \/ TurnFails

HoldStep ==
    \/ Tick
    \/ HearStop
    \/ HearQuiet
    \/ HearReset
    \/ CountNotes
    \/ HoldFires
    \/ HoldGoesOn
    \/ Resume
    \/ OpenTurn

Supervise ==
    \/ Receive
    \/ ReceiveDropped
    \/ RecvTimesOut
    \/ Finish
    \/ CondemnStopped
    \/ JudgeSilent
    \/ CondemnSilent
    \/ NothingWrong
    \/ AskToStop
    \/ GiveUp

\* The member is over and so is its engine
Exited == engine = "over" /\ watch = "over" /\ UNCHANGED vars

Next ==
    \/ Speak
    \/ TurnEnds
    \/ HoldStep
    \/ Elapse
    \/ FallSilent
    \/ Supervise
    \/ CondemnHeartbeat
    \/ OfferNote
    \/ CountNote
    \/ Operate
    \/ Exited

(* Both threads run and the relay finishes what it began. A turn need not    *)
(* end: a property that needs it to says so. `every` elapses in no           *)
(* particular time, and nobody has to offer, trigger, reset, stop or quiesce *)
(* anything.                                                                 *)
Fairness ==
    /\ WF_vars(HoldStep)
    /\ WF_vars(Supervise)
    /\ WF_vars(CountNote)

SafeSpec == Init /\ [][Next]_vars
Spec == SafeSpec /\ Fairness

-----------------------------------------------------------------------------
Kinds ==
    /\ engine \in Places
    /\ answer \in Answers \cup {"none"}
    /\ ended \in {"none", "stopped", "quiescent"}
    /\ watch \in {"recv", "check", "judged", "finishing", "closing", "teardown", "over"}
    /\ rule \in {"none", "signalled", "heartbeat", "activity"}
    /\ outcome \in {"none", "settled", "incomplete", "died"}

Flags ==
    /\ due \in BOOLEAN
    /\ handing \in BOOLEAN
    /\ slept \in BOOLEAN
    /\ abort \in BOOLEAN
    /\ stop \in BOOLEAN
    /\ quiescent \in BOOLEAN
    /\ trigger \in BOOLEAN
    /\ reset \in BOOLEAN

Counts ==
    /\ seen \in 0 .. MaxNotes
    /\ loaded \in 0 .. MaxNotes
    /\ offered \in 0 .. MaxNotes
    /\ inbox \in 0 .. MaxNotes
    /\ silent \in 0 .. 2
    /\ opened \in 0 .. 2

TypeOK == Kinds /\ Flags /\ Counts

(* The outcome says what really ended the conversation: a success completed *)
(* or was ended by the quiescence of a run it was background to; a death no *)
(* rule caused was asked for or was the provider's failure; and an engine   *)
(* broken off with no reason written down is never reported as a turn that  *)
(* merely did not complete.                                                 *)
OutcomeMatches ==
    /\ outcome = "settled" =>
           answer = "completed" \/ (answer = "early" /\ Background /\ quiescent)
    /\ outcome = "died" /\ rule = "none" => stop \/ answer \in {"failed", "dropped"}
    /\ outcome = "incomplete" => answer \in {"incomplete", "failed"}

(* A stop beats a trigger, a note and the cadence: once it is written, at   *)
(* most the one turn already being opened is opened ("a trigger beside a    *)
(* cancel must not win the member a paid turn").                            *)
StopOpensOneTurn == opened <= 1

(* "A hold longer than the stall bound is still a member doing what it was  *)
(* asked": the activity rule never finds a member in its hold silent. (What *)
(* it concludes comes later, when the silent turn may just have closed.)    *)
HoldIsNotSilence ==
    [][watch' = "judged" /\ watch # "judged" => engine \notin Holding]_vars

(* Nothing waits on a wait of the conversation's.                           *)
(* A stop ends the member, whatever its engine is doing or never does: no   *)
(* turn has to end and no hold has to tick, because the supervising thread  *)
(* reads the stop too and waits a bounded time for the engine. The          *)
(* quiescence of the run ends a background conversation, at its next hold   *)
(* at the latest, however often the operator resets or triggers it, if the  *)
(* turn in progress ends. And a hold with an untaken note ends, even if     *)
(* `every` never elapses, unless the operator keeps restarting it ("a       *)
(* manager's note to a paced monitor is never held for the cadence").       *)
NothingHoldsIt ==
    /\ stop ~> outcome # "none"
    /\ WF_vars(TurnEnds) => (quiescent ~> outcome # "none")
    /\ inbox > 0 /\ engine \in Holding ~> engine \notin Holding \/ reset

=============================================================================
