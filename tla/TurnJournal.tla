----------------------------- MODULE TurnJournal -----------------------------
(***************************************************************************)
(* What a two-party member publishes of its turns: the sink, TurnJournal,  *)
(* the ending and its telemetry (src/src/judge.rs), the events themselves  *)
(* (event.rs), and what a reader makes of them later (transcript.rs,       *)
(* render.rs).                                                             *)
(*                                                                         *)
(* Two threads. The engine's runs the conversation and calls the sink on   *)
(* every observation; the member's own waits for its answer, may condemn   *)
(* it, and may give up on it. Which turns and candidates there are is the  *)
(* engine's (onejudge), an input here; a candidate that writes a history   *)
(* announces itself before it acts, and one history is on or off for all.  *)
(* Contents are compared, never read: a content is the tuple of whose it   *)
(* is. Bounds on text (MAX_PAYLOAD_TEXT_BYTES) are left out.               *)
(***************************************************************************)
EXTENDS Integers, Sequences, FiniteSetsExt

CONSTANTS
    Turns,       \* bound: turns of one conversation, both parties'
    Candidates,  \* bound: candidates of one chain, or judges of a panel
    Falls,       \* bound: candidates passed over in one conversation
    Rows,        \* bound: invocations a failure's telemetry names the candidates of
    Delivered    \* the worker turns that carry a delivered note

ASSUME JournalAssumption ==
    /\ Turns \in Nat /\ Candidates \in Nat \ {0} /\ Falls \in Nat /\ Rows \in Nat
    /\ Delivered \subseteq Nat

VARIABLES
    panel,       \* the supervisor is a panel of judges
    histories,   \* histories are written
    turns,       \* the turns so far, each with its candidates
    fell,        \* the candidates its chains passed over, in order (telemetry)
    at,          \* where the engine is
    answer,      \* its answer: whether it failed, and the records its telemetry names
    journal,     \* TurnJournal
    abort,       \* the flag the sink reads
    member,      \* where the member's own thread is
    stream       \* what has been published

engine == <<panel, histories, turns, fell, at, answer>>
journalVars == <<engine, journal, abort, member, stream>>

\* The worker and its supervisor alternate
Party(k) == IF k % 2 = 1 THEN "assistant" ELSE "user"
Chair(k) == panel /\ Party(k) = "user"

\* A candidate's place in the conversation, and nobody's
Inline == <<0, 0>>
None == 0
Fresh == [history |-> "none", acted |-> FALSE, record |-> "none"]
Now == Len(turns)
Last_(k) == Len(turns[k])
Here == <<Now, Last_(Now)>>
Runner == turns[Now][Last_(Now)]
Running == at = "turn" /\ Runner.record = "none" /\ (histories => Runner.history # "none")

\* The contents there are: a turn's instruction, a candidate's one act, its
\* text, and a panel's composed text
Instruction(k) == <<"instruction", k, 0>>
Act(c) == <<"activity", c[1], c[2]>>
Text(c) == <<"text", c[1], c[2]>>
Unavailable == <<"unavailable", 0, 0>>

-----------------------------------------------------------------------------
(* The events, by the kinds of EventKind a conversation's thread publishes. *)

Event(kind, k, ref, said) == [kind |-> kind, turn |-> k, ref |-> ref, said |-> said]

\* opening_origin: who wrote what a turn opens on; nothing of a supervisor's
OpeningOrigin(k) ==
    IF Party(k) # "assistant" THEN "none"
    ELSE IF k \in Delivered THEN "delivered"
    ELSE IF k = 1 THEN "task" ELSE "supervisor"

TurnStarted(k, ref) ==
    [kind |-> "turn-started", turn |-> k, ref |-> ref, said |-> Instruction(k),
     origin |-> OpeningOrigin(k)]
TurnActivity(k, ref) == Event("turn-activity", k, ref, Act(Here))
TurnMessage(k, ref) ==
    Event("turn-message", k, ref, Text(IF Chair(k) THEN <<k, 0>> ELSE Here))
JudgeDecided(k) == Event("judge-decided", k, Inline, Here)
TurnCompleted(k) == Event("turn-completed", k, Inline, k)
OneharnessSession(c) == Event("oneharness-session", c[1], c, c)
FallbackAdvanced(c) == Event("fallback-advanced", c[1], Inline, c)
MemberDied(why) == Event("member-died", 0, Inline, why)
MemberSettled(how) == Event("member-settled", 0, Inline, how)

Announced(c) == <<OneharnessSession(c)>>

\* carried: what a contradicted failure is settled as
Carried == MemberSettled("incomplete")

\* transcript::resolve: what the file of candidate c holds for a field
Resolve(c, field) ==
    CASE turns[c[1]][c[2]].history # "readable" -> Unavailable
      [] field = "instruction" -> Instruction(c[1])
      [] field = "text" -> IF turns[c[1]][c[2]].record = "completed"
                           THEN Text(c) ELSE Unavailable
      [] field = "activity" -> IF turns[c[1]][c[2]].acted THEN Act(c) ELSE Unavailable

Field == [kind \in {"turn-started", "turn-activity", "turn-message"} |->
            CASE kind = "turn-started" -> "instruction"
              [] kind = "turn-activity" -> "activity"
              [] kind = "turn-message" -> "text"]

\* render::field: the copy beside the event, or what its reference resolves to
Rendered(e) == IF e.ref = Inline THEN e.said ELSE Resolve(e.ref, Field[e.kind])

-----------------------------------------------------------------------------
(* The journal and the sink. A definition marked "mutant" is a bug this     *)
(* code could have had in the one after it; nothing uses it.                *)

Slot(k) == IF Party(k) = "assistant" THEN "worker" ELSE "judge"

\* TurnJournal::opening: the pending opening, by reference or with its text
Opening(ref) ==
    IF journal.pending = None THEN <<>> ELSE <<TurnStarted(journal.pending, ref)>>

\* The sink publishes events and leaves the journal as j; then it reads abort
Observed(events, j) ==
    /\ stream' = stream \o events
    /\ journal' = j
    /\ at' = "sink"
    /\ UNCHANGED <<abort, member>>

ObserveOpened(k) ==
    Observed(Opening(Inline), [journal EXCEPT !.pending = k, ![Slot(k)] = Inline])

\* mutant: a candidate whose record cannot be found leaves its predecessor's
ObserveBegunKeeps(c, available) ==
    Observed(IF available THEN Announced(c) \o Opening(c) ELSE Opening(Inline),
             [journal EXCEPT !.pending = None, ![Slot(c[1])] = IF available THEN c ELSE @])

ObserveBegun(c, available) ==
    LET told == [journal EXCEPT !.pending = None,
                                ![Slot(c[1])] = IF available THEN c ELSE Inline]
    IN  Observed(IF available THEN Announced(c) \o Opening(c)
                 ELSE Opening(Inline), told)

ObserveDecided(k) ==
    Observed(Opening(Inline) \o <<JudgeDecided(k)>>,
             [journal EXCEPT !.pending = None, !.judge = Inline])

\* Whose session a content is looked for in
Reference(kind, k) ==
    IF kind = "turn-message" /\ Party(k) # "assistant" THEN journal.judge ELSE journal.worker

\* ingest_referenced: a judge's own tools are not published
Ingested(kind, k) ==
    CASE kind = "turn-message" -> <<TurnMessage(k, Reference(kind, k))>>
      [] kind = "turn-activity" -> IF Party(k) = "assistant"
                                   THEN <<TurnActivity(k, Reference(kind, k))>> ELSE <<>>
      [] kind = "turn-completed" -> <<TurnCompleted(k)>>

Observe(kind, k) ==
    Observed(Opening(Inline) \o Ingested(kind, k), [journal EXCEPT !.pending = None])

-----------------------------------------------------------------------------
(* The engine.                                                              *)

JournalInit ==
    /\ panel \in BOOLEAN
    /\ histories \in BOOLEAN
    /\ turns = <<>>
    /\ fell = <<>>
    /\ at = "start"
    /\ answer = [failed |-> FALSE, records |-> <<>>]
    /\ journal = [pending |-> None, worker |-> Inline, judge |-> Inline]
    /\ abort = FALSE
    /\ member = "live"
    /\ stream = <<>>

\* The group, the plan and the thread are there: the conversation begins
StartEngine ==
    /\ at = "start"
    /\ at' = "between"
    /\ UNCHANGED <<panel, histories, turns, fell, answer, journal, abort, member, stream>>

OpenTurn ==
    /\ at = "between"
    /\ Now < Turns
    /\ turns' = Append(turns, <<Fresh>>)
    /\ ObserveOpened(Now + 1)
    /\ UNCHANGED <<panel, histories, fell, answer>>

Mark(field, value) == turns' = [turns EXCEPT ![Now][Last_(Now)][field] = value]

\* Transcript::available: the reader's own look, before a reference is given
Available(h) == h = "readable"

\* A candidate begins, and its record can be found, or cannot
Begin(h) ==
    /\ at = "turn" /\ histories
    /\ Runner = Fresh
    /\ Mark("history", h)
    /\ ObserveBegun(Here, Available(h))
    /\ UNCHANGED <<panel, histories, fell, answer>>

\* A worker acts once, for what can be told apart; a judge's tools leave no trace
Acts ==
    /\ Running /\ ~Runner.acted
    /\ IF Party(Now) = "assistant" THEN Mark("acted", TRUE) ELSE UNCHANGED turns
    /\ Observe("turn-activity", Now)
    /\ UNCHANGED <<panel, histories, fell, answer>>

\* A chain passes this candidate over, begun or refused before it began
FallThrough ==
    /\ at = "turn" /\ ~Chair(Now)
    /\ Runner.record = "none"
    /\ Last_(Now) < Candidates /\ Len(fell) < Falls
    /\ turns' = [turns EXCEPT ![Now] =
                    Append([@ EXCEPT ![Len(@)].record = "fell"], Fresh)]
    /\ fell' = Append(fell, Here)
    /\ UNCHANGED <<panel, histories, at, answer, journal, abort, member, stream>>

\* One judge of the panel: a command or a linter never begins
Decide ==
    /\ at = "turn" /\ Chair(Now)
    /\ Runner.record = "none"
    /\ Mark("record", "completed")
    /\ ObserveDecided(Now)
    /\ UNCHANGED <<panel, histories, fell, answer>>

NextJudge ==
    /\ at = "turn" /\ Chair(Now)
    /\ Runner.record = "completed"
    /\ Last_(Now) < Candidates
    /\ turns' = [turns EXCEPT ![Now] = Append(@, Fresh)]
    /\ UNCHANGED <<panel, histories, fell, at, answer, journal, abort, member, stream>>

Spoken == \E i \in DOMAIN stream : stream[i].kind = "turn-message" /\ stream[i].turn = Now

Speak ==
    /\ ~Spoken
    /\ \/ Running /\ ~Chair(Now) /\ Mark("record", "completed")
       \/ at = "turn" /\ Chair(Now) /\ Runner.record = "completed" /\ UNCHANGED turns
    /\ Observe("turn-message", Now)
    /\ UNCHANGED <<panel, histories, fell, answer>>

Close ==
    /\ at = "turn" /\ Spoken
    /\ Observe("turn-completed", Now)
    /\ UNCHANGED <<panel, histories, turns, fell, answer>>

\* The sink's last word: an engine that is told to break opens nothing more
Closed == stream # <<>> /\ stream[Len(stream)] = TurnCompleted(Now)

\* mutant: the flag is read between turns only
CheckBetween ==
    /\ at = "sink"
    /\ at' = IF Closed THEN IF abort THEN "broken" ELSE "between" ELSE "turn"
    /\ UNCHANGED <<panel, histories, turns, fell, answer, journal, abort, member, stream>>

Check ==
    /\ at = "sink"
    /\ at' = IF abort THEN "broken" ELSE IF Closed THEN "between" ELSE "turn"
    /\ UNCHANGED <<panel, histories, turns, fell, answer, journal, abort, member, stream>>

\* mutant: the answer is sent over a pending opening
ReturnAtOnce(f, r) ==
    /\ at' = "sent"
    /\ answer' = [failed |-> f, records |-> r]
    /\ UNCHANGED <<panel, histories, turns, fell, journal, abort, member, stream>>

\* The engine returns: what is still pending is told, and then the answer sent
Return(f, r) ==
    /\ at' = "sent"
    /\ answer' = [failed |-> f, records |-> r]
    /\ stream' = stream \o Opening(Inline)
    /\ journal' = [journal EXCEPT !.pending = None]
    /\ UNCHANGED <<panel, histories, turns, fell, abort, member>>

\* Attribution: an invocation of a chain, known by who ran or was tried last, and
\* one of each of a panel's judges
Invocations ==
    {c \in (1 .. Now) \X (1 .. Candidates) :
        IF Chair(c[1]) THEN c[2] <= Last_(c[1]) ELSE c[2] = Last_(c[1])}

\* A candidate that has begun, as far as can be known
Began(c) == histories => turns[c[1]][c[2]].history # "none"

\* What the telemetry of a failure says of the invocations whose candidates it
\* names, which is any of them or none: whether that record is of a turn that was
\* completed and billed. Nobody reads it of a member that is condemned.
Recorded(r) ==
    /\ Cardinality(DOMAIN r) <= IF abort THEN 0 ELSE Rows
    /\ \A c \in DOMAIN r : r[c] = "billed" => Began(c)

\* It fails before its first turn, or in one, and the candidate it fails on may have
\* left no record. (How one that was told to break answers makes no difference.)
Answers ==
    \/ at \in {"between", "broken"} /\ Return(FALSE, <<>>)
    \/ /\ (at = "between" /\ Now = 0) \/ (at = "turn" /\ Runner.record = "none")
       /\ \E named \in SUBSET Invocations : \E r \in [named -> {"billed", "other"}] :
            Recorded(r) /\ Return(TRUE, r)

\* The thread panics: its channel closes and nothing is flushed
Panic ==
    /\ at \in {"between", "turn"}
    /\ at' = "lost"
    /\ UNCHANGED <<panel, histories, turns, fell, answer, journal, abort, member, stream>>

-----------------------------------------------------------------------------
(* The member's own thread.                                                 *)

\* publish_attribution: every candidate its chains passed over, in order
Attribution == [i \in DOMAIN fell |-> FallbackAdvanced(fell[i])]

Earlier(c, d) == c[1] < d[1] \/ (c[1] = d[1] /\ c[2] < d[2])

\* mutant: the attributions are looked through from the first
TurnRecordFirst ==
    {c \in DOMAIN answer.records : \A d \in DOMAIN answer.records \ {c} : Earlier(c, d)}

\* turn_record: the last invocation whose candidates the telemetry names, if it names
\* any. It is an earlier one than the one that failed when that left no record.
TurnRecord ==
    {c \in DOMAIN answer.records : \A d \in DOMAIN answer.records \ {c} : Earlier(d, c)}

\* reconcile: that record says a turn was completed and billed. (It may dispute a
\* failure in other ways, which only the words of a death tell.)
Contradicted == \E c \in TurnRecord : answer.records[c] = "billed"

\* finish: an answer is a settle, unless a stop ended a paced member at its hold. A
\* failure its record contradicts is carried as an unfinished settle, any other is a
\* death; a stop that was asked for by then goes first
Ending(stop) ==
    IF ~answer.failed
    THEN {MemberSettled("completed"), MemberSettled("incomplete"), MemberDied("cancelled")}
    ELSE IF stop THEN {MemberDied("cancelled")}
    ELSE IF Contradicted THEN {Carried}
    ELSE {MemberDied("provider")}

\* The member's outcome, after what is told with it: settle_report, or died
Publishes(events) ==
    /\ stream' = stream \o events
    /\ member' = "done"

\* No group could be made, no plan read or no thread begun
Unstartable ==
    /\ at = "start"
    /\ at' = "never"
    /\ Publishes(<<MemberDied("unstartable")>>)
    /\ UNCHANGED <<panel, histories, turns, fell, answer, journal, abort>>

Finish ==
    /\ member = "live" /\ at = "sent"
    /\ \E stop \in BOOLEAN : \E e \in Ending(stop) : Publishes(Attribution \o <<e>>)
    /\ UNCHANGED <<engine, journal, abort>>

Lost ==
    /\ member = "live" /\ at = "lost"
    /\ Publishes(<<MemberDied("lost")>>)
    /\ UNCHANGED <<engine, journal, abort>>

Condemn ==
    /\ member = "live" /\ at \notin {"start", "never"}
    /\ member' = "tearing"
    /\ abort' = TRUE
    /\ UNCHANGED <<engine, journal, stream>>

HearLate ==
    /\ member = "tearing" /\ at = "sent"
    /\ Publishes(Attribution \o <<MemberDied("condemned")>>)
    /\ UNCHANGED <<engine, journal, abort>>

\* Its grace is over, or its channel closed
GiveUp ==
    /\ member = "tearing"
    /\ Publishes(<<MemberDied("given up")>>)
    /\ UNCHANGED <<engine, journal, abort>>

Engine ==
    \/ StartEngine \/ OpenTurn \/ Acts \/ FallThrough \/ Decide \/ NextJudge \/ Speak \/ Close
    \/ Check \/ Answers \/ Panic
    \/ \E h \in {"readable", "unreadable"} : Begin(h)

JournalNext == Engine \/ Unstartable \/ Finish \/ Lost \/ Condemn \/ HearLate \/ GiveUp

JournalSpec == JournalInit /\ [][JournalNext]_journalVars

-----------------------------------------------------------------------------
(* Properties.                                                              *)

Places(kind) == {i \in DOMAIN stream : stream[i].kind = kind}

\* A reader who follows the stream's references later is shown what was said:
\* each resolves, to the words of the candidate it belongs to, and that candidate
\* was announced earlier. TurnJournal keeps one reference per party across turns
\* and candidates, and must let go of it in time (judge.rs:927-1009).
RenderedAsSaid ==
    \A i \in DOMAIN stream :
        LET e == stream[i]
        IN  e.kind \in DOMAIN Field =>
            /\ Rendered(e) = e.said \/ (e.kind = "turn-message" /\ Rendered(e) = Unavailable)
            /\ e.ref # Inline =>
                 \E j \in Places("oneharness-session") : j < i /\ stream[j].ref = e.ref

\* A turn is opened once on the stream, before anything of it but the session it
\* is told by; and every turn of an engine that answered was, whether or not a
\* harness ever began it.
OpeningsAreTold ==
    \A k \in 1 .. Now :
        LET opened == {i \in Places("turn-started") : stream[i].turn = k}
        IN  /\ Cardinality(opened) <= 1
            /\ at = "sent" => opened # {}
            /\ \A i \in DOMAIN stream :
                 stream[i].turn = k /\ i \notin Places("oneharness-session")
                    /\ i \notin Places("fallback-advanced") =>
                       \E j \in opened : j <= i

Outcomes == Places("member-died") \cup Places("member-settled")

\* A member has one outcome and it is the end of its story, except of an engine
\* the run gave up on: that one may finish the observation it is in, and say
\* what was pending, and then it is silent.
LittleAfterTheOutcome ==
    /\ Cardinality(Outcomes) <= 1
    /\ \A i \in Outcomes :
         LET after == {j \in DOMAIN stream : j > i}
         IN  /\ after # {} => stream[i].said = "given up"
             /\ Cardinality({j \in after : stream[j].kind # "turn-started"}) <= 1

\* The candidates whose chains passed them over, and the order they were tried in
PassedOver == {c \in (1 .. Now) \X (1 .. Candidates) :
                 c[2] <= Last_(c[1]) /\ turns[c[1]][c[2]].record = "fell"}

\* The invocation a failure was in
FailedIn == {c \in Invocations : c = Here}

\* What is said of an ending agrees with the records it was read from. Each candidate
\* passed over is told once and in its turn, before the outcome, if the engine was
\* heard at all. A failure is not published as a death if the invocation it was in
\* left a record of a turn completed and billed; and if it left another, no earlier
\* turn's good record turns it into a settle (turn_record, reconcile,
\* judge.rs:1361-1397).
OutcomeAgreesWithRecords ==
    \A i \in Outcomes :
        LET told == {j \in Places("fallback-advanced") : j < i}
            billed == {c \in DOMAIN answer.records : answer.records[c] = "billed"}
        IN  /\ stream[i].said \notin {"given up", "lost"} =>
                 /\ {stream[j].said : j \in told} = PassedOver
                 /\ \A j, l \in told : j < l => Earlier(stream[j].said, stream[l].said)
            /\ answer.failed /\ stream[i].said = "provider" => FailedIn \cap billed = {}
            /\ answer.failed /\ stream[i].said \in {"completed", "incomplete"} =>
                 billed # {} /\ FailedIn \cap DOMAIN answer.records \subseteq billed
=============================================================================
