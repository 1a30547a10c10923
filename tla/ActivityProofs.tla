--------------------------- MODULE ActivityProofs ---------------------------
(***************************************************************************)
(* What a member's thread publishes, and the watchdog that judges by it.   *)
(* Of a conversation's journal: what is opened, referred to and told of    *)
(* its outcome, for any number of turns, of candidates and of notes. Of    *)
(* the watchdog: nobody is condemned but on evidence, for any bound, any   *)
(* probe interval and any lateness, unless the loop was later than         *)
(* Tolerated while it looked.                                              *)
(***************************************************************************)
EXTENDS Watchdog, TurnJournal, FiniteSetTheorems, TLAPS

-----------------------------------------------------------------------------
(* The journal of a conversation.                                          *)

Attempt == [history : {"none", "readable", "unreadable"}, acted : BOOLEAN,
            record : {"none", "fell", "completed"}]

IsASequence(s) == s \in Seq({s[i] : i \in DOMAIN s})

JournalTypes ==
    /\ panel \in BOOLEAN /\ histories \in BOOLEAN /\ abort \in BOOLEAN
    /\ turns \in Seq(Seq(Attempt)) /\ \A k \in 1 .. Now : Last_(k) \in 1 .. Candidates
    /\ fell \in Seq(Nat \X Nat)
    /\ at \in {"start", "between", "turn", "sink", "broken", "sent", "lost", "never"}
    /\ journal \in [pending : Nat, worker : Nat \X Nat, judge : Nat \X Nat]
    /\ member \in {"live", "tearing", "done"}
    /\ IsASequence(stream)

(* An answer is there once it is sent, and names invocations there were.    *)
AnswerIsOfTheTurns ==
    /\ answer.failed \in BOOLEAN
    /\ at # "sent" => ~answer.failed /\ DOMAIN answer.records = {}
    /\ DOMAIN answer.records \subseteq Invocations

(* The engine has a turn when it is in one.                                 *)
EngineHasATurn ==
    /\ at = "start" => stream = <<>> /\ member = "live"
    /\ at \in {"start", "never"} => turns = <<>>
    /\ at \in {"turn", "sink"} => Now >= 1
    /\ member = "tearing" => abort /\ at \notin {"start", "never"}
    /\ journal.pending \in {None, Now}

JournalTyped == JournalTypes /\ EngineHasATurn /\ AnswerIsOfTheTurns

(* What was passed over is what the telemetry names, in the order it was    *)
(* tried in; a chain's runner is the one it has not passed over, and of a   *)
(* panel nobody is.                                                         *)
TelemetryIsTheRecords ==
    /\ \A i \in 1 .. Len(fell) : fell[i] \in PassedOver
    /\ \A c \in PassedOver : \E i \in 1 .. Len(fell) : fell[i] = c
    /\ \A i, j \in 1 .. Len(fell) : i < j => Earlier(fell[i], fell[j])
    /\ \A k \in 1 .. Now : \A j \in 1 .. Last_(k) :
         turns[k][j].record = "fell" <=> ~Chair(k) /\ j # Last_(k)

Telling == {"oneharness-session", "fallback-advanced"}

(* Every turn but the pending one has its opening, and nothing before it.   *)
OpenedBut ==
    \A k \in 1 .. Now :
        IF k = journal.pending
        THEN \A i \in 1 .. Len(stream) : stream[i].turn = k => stream[i].kind \in Telling
        ELSE \E j \in 1 .. Len(stream) :
               /\ stream[j].kind = "turn-started" /\ stream[j].turn = k
               /\ \A i \in 1 .. Len(stream) :
                    stream[i].turn = k /\ stream[i].kind \notin Telling =>
                        j <= i /\ (stream[i].kind = "turn-started" => i = j)

EventsOfTurns == \A i \in 1 .. Len(stream) : stream[i].turn \in 0 .. Now

OpeningsInv ==
    EventsOfTurns /\ OpenedBut /\ (at = "sent" => journal.pending = None)

(* Candidate c is one of the conversation's, and its history can be read.   *)
Readable(c) ==
    /\ c[1] \in 1 .. Now /\ c[2] \in 1 .. Last_(c[1])
    /\ turns[c[1]][c[2]].history = "readable"

AnnouncedBy(i, c) ==
    \E j \in 1 .. Len(stream) :
        j <= i /\ stream[j].kind = "oneharness-session" /\ stream[j].ref = c

(* What e refers to can be read, and is what was said.                      *)
RefersTo(e) ==
    /\ Readable(e.ref)
    /\ e.kind = "turn-started" => e.said = Instruction(e.ref[1])
    /\ e.kind = "turn-message" => e.said = Text(e.ref)
    /\ e.kind = "turn-activity" => e.said = Act(e.ref) /\ turns[e.ref[1]][e.ref[2]].acted

(* A reference is to a candidate that was announced before it.              *)
ReferencesHold ==
    \A i \in 1 .. Len(stream) :
        stream[i].kind \in DOMAIN Field /\ stream[i].ref # Inline =>
            RefersTo(stream[i]) /\ AnnouncedBy(i - 1, stream[i].ref)

(* The journal remembers such candidates only, and of the party whose turn  *)
(* it is none but the one that runs.                                        *)
JournalHolds ==
    /\ \A c \in {journal.worker, journal.judge} :
         c # Inline => Readable(c) /\ AnnouncedBy(Len(stream), c)
    /\ ~histories => journal.worker = Inline /\ journal.judge = Inline
    /\ Now >= 1 /\ Runner.history # "none" =>
         /\ Party(Now) = "assistant" => journal.worker \in {Inline, Here}
         /\ Party(Now) # "assistant" => journal.judge \in {Inline, Here}
    /\ Now >= 1 /\ Chair(Now) /\ Runner.record = "completed" => journal.judge = Inline

ReferencesInv == ReferencesHold /\ JournalHolds

(* An engine that was heard, or never began, is over; one that was given up *)
(* is in its last observation, and what it may still say is known.          *)
Quietly(i, j) == j > i /\ j <= Len(stream) /\ stream[j].kind # "turn-started"

OutcomeInv ==
    /\ member # "done" => Outcomes = {} /\ Places("fallback-advanced") = {}
    /\ \A i, j \in Outcomes : i = j
    /\ \A i \in Outcomes :
         /\ stream[i].said # "given up" => at \in {"sent", "lost", "never"} /\ i = Len(stream)
         /\ stream[i].said = "given up" =>
              /\ abort /\ at \notin {"start", "never"}
              /\ at \in {"between", "turn"} => i = Len(stream)
              /\ \A j, l \in 1 .. Len(stream) : Quietly(i, j) /\ Quietly(i, l) => j = l

JournalInv ==
    /\ JournalTyped /\ TelemetryIsTheRecords /\ OpeningsInv
    /\ ReferencesInv /\ OutcomeInv /\ OutcomeAgreesWithRecords

-----------------------------------------------------------------------------
(* Sequences of anything.                                                   *)

LEMMA Sequences ==
    ASSUME NEW S, NEW s \in Seq(S)
    PROVE  IsASequence(s) /\ Len(s) \in Nat /\ DOMAIN s = 1 .. Len(s)
<1>1. s \in [1 .. Len(s) -> {s[i] : i \in DOMAIN s}] /\ Len(s) \in Nat
  OBVIOUS
<1> QED
  BY <1>1 DEF IsASequence

LEMMA Short ==
    ASSUME NEW x
    PROVE  /\ IsASequence(<<>>) /\ Len(<<>>) = 0
           /\ IsASequence(<<x>>) /\ Len(<<x>>) = 1 /\ <<x>>[1] = x
<1>1. <<>> \in Seq({x}) /\ <<x>> \in Seq({x})
  OBVIOUS
<1> QED
  BY <1>1, Sequences

Joins(u, s, t) == u = s \o t

(* u is s, and then t.                                                      *)
Follow(u, s, t) ==
    /\ IsASequence(u) /\ Len(u) = Len(s) + Len(t) /\ Len(s) \in Nat /\ Len(t) \in Nat
    /\ \A i \in 1 .. Len(s) : u[i] = s[i]
    /\ \A i \in 1 .. Len(t) : u[Len(s) + i] = t[i]

LEMMA Joined ==
    ASSUME NEW s, NEW t, NEW u, IsASequence(s), IsASequence(t), Joins(u, s, t)
    PROVE  Follow(u, s, t)
<1> DEFINE S == {s[i] : i \in DOMAIN s} \cup {t[i] : i \in DOMAIN t}
<1>1. s \in Seq(S) /\ t \in Seq(S)
  BY DEF IsASequence
<1> HIDE DEF S
<1>2. u \in Seq(S)
  BY <1>1 DEF Joins
<1>3. IsASequence(u)
  BY <1>2, Sequences
<1>4. /\ Len(u) = Len(s) + Len(t) /\ Len(s) \in Nat /\ Len(t) \in Nat
      /\ \A i \in 1 .. Len(s) : u[i] = s[i]
      /\ \A i \in 1 .. Len(t) : u[Len(s) + i] = t[i]
  BY <1>1 DEF Joins
<1> QED
  BY <1>3, <1>4 DEF Follow

LEMMA FunctionsAreSequences ==
    ASSUME NEW S, NEW n \in Nat, NEW f \in [1 .. n -> S]
    PROVE  f \in Seq(S) /\ Len(f) = n
OBVIOUS

-----------------------------------------------------------------------------
(* What a step does to the turns.                                           *)

LEMMA Appended ==
    ASSUME NEW S, NEW s \in Seq(S), NEW e \in S
    PROVE  /\ Append(s, e) \in Seq(S) /\ Len(Append(s, e)) = Len(s) + 1
           /\ \A i \in 1 .. Len(s) : Append(s, e)[i] = s[i]
           /\ Append(s, e)[Len(s) + 1] = e
OBVIOUS

LEMMA Replaced ==
    ASSUME NEW S, NEW s \in Seq(S), NEW n \in 1 .. Len(s), NEW e \in S
    PROVE  /\ [s EXCEPT ![n] = e] \in Seq(S) /\ Len([s EXCEPT ![n] = e]) = Len(s)
           /\ \A i \in 1 .. Len(s) : [s EXCEPT ![n] = e][i] = IF i = n THEN e ELSE s[i]
OBVIOUS

LEMMA Lengths ==
    ASSUME JournalTypes
    PROVE  /\ Now \in Nat
           /\ \A k \in 1 .. Now : /\ turns[k] \in Seq(Attempt) /\ Last_(k) \in Nat
                                  /\ \A j \in 1 .. Last_(k) : turns[k][j] \in Attempt
           /\ Now >= 1 => /\ Now \in 1 .. Now /\ Last_(Now) \in 1 .. Last_(Now)
                          /\ Runner \in Attempt
<1>1. Now \in Nat /\ \A k \in 1 .. Now : turns[k] \in Seq(Attempt)
  BY DEF JournalTypes, Now
<1>2. \A k \in 1 .. Now : Last_(k) \in Nat /\ \A j \in 1 .. Last_(k) : turns[k][j] \in Attempt
  BY <1>1 DEF Last_
<1>3. Now >= 1 => Now \in 1 .. Now /\ Last_(Now) \in 1 .. Last_(Now)
  BY <1>1 DEF JournalTypes
<1> QED
  BY <1>1, <1>2, <1>3 DEF Runner

(* The same attempt, and what it says of itself by now.                     *)
Kept(a, b) ==
    /\ a.history # "none" => b.history = a.history
    /\ a.acted => b.acted
    /\ a.record # "none" => b.record = a.record

(* Turns are added and candidates of the last one, and no record is taken   *)
(* back.                                                                    *)
TurnsGrow ==
    /\ Now' >= Now
    /\ \A k \in 1 .. Now : Last_(k)' >= Last_(k)
    /\ \A k \in 1 .. Now : \A j \in 1 .. Last_(k) : Kept(turns[k][j], turns'[k][j])

TurnsTyped == turns \in Seq(Seq(Attempt)) /\ \A k \in 1 .. Now : Last_(k) \in 1 .. Candidates

(* The runner is replaced by attempt a, and r candidates follow it.         *)
RunnerIs(a, r) ==
    /\ Now' = Now
    /\ \A k \in 1 .. Now : k # Now => turns'[k] = turns[k]
    /\ Last_(Now)' = Last_(Now) + r
    /\ \A j \in 1 .. Last_(Now) : turns'[Now][j] = IF j = Last_(Now) THEN a ELSE turns[Now][j]
    /\ r = 1 => turns'[Now][Last_(Now) + 1] = Fresh

LEMMA TurnOpened ==
    ASSUME JournalTypes, turns' \in Seq(Seq(Attempt)), Len(turns') = Now + 1,
           \A k \in 1 .. Now : turns'[k] = turns[k], turns'[Now + 1] = <<Fresh>>
    PROVE  /\ TurnsTyped' /\ TurnsGrow /\ Now' = Now + 1
           /\ Last_(Now)' = 1 /\ Runner' = Fresh /\ Here' = <<Now + 1, 1>>
<1> USE JournalAssumption
<1>1. Len(<<Fresh>>) = 1 /\ <<Fresh>>[1] = Fresh
  OBVIOUS
<1>2. Now \in Nat /\ Now' = Now + 1
  BY Lengths DEF Now
<1>3. Last_(Now)' = 1 /\ Runner' = Fresh /\ Here' = <<Now + 1, 1>>
  BY <1>1, <1>2 DEF Now, Last_, Runner, Here
<1>4. TurnsTyped'
  <2>1. \A k \in 1 .. Now : Len(turns[k]) \in 1 .. Candidates
    BY DEF JournalTypes, Last_
  <2>2. ASSUME NEW k \in 1 .. Now + 1 PROVE Len(turns'[k]) \in 1 .. Candidates
    <3>1. CASE k = Now + 1
      <4>1. Len(turns'[k]) = 1
        BY <1>1, <3>1, Zenon
      <4> QED
        BY <4>1
    <3>2. CASE k # Now + 1
      <4>1. k \in 1 .. Now
        BY <1>2, <3>2
      <4> QED
        BY <2>1, <4>1, Zenon
    <3> QED
      BY <3>1, <3>2
  <2> QED
    BY <1>2, <2>2 DEF TurnsTyped, Last_
<1>5. TurnsGrow
  <2>1. ASSUME NEW k \in 1 .. Now PROVE Len(turns'[k]) >= Len(turns[k])
    BY Lengths DEF Last_
  <2> QED
    BY <1>2, <2>1 DEF TurnsGrow, Last_, Kept
<1> QED
  BY <1>2, <1>3, <1>4, <1>5

LEMMA RunnerReplaced ==
    ASSUME JournalTypes, Now >= 1, NEW a \in Attempt, NEW r \in {0, 1},
           Last_(Now) + r <= Candidates, Kept(Runner, a),
           NEW t \in Seq(Attempt), Len(t) = Last_(Now) + r,
           \A j \in 1 .. Last_(Now) : t[j] = IF j = Last_(Now) THEN a ELSE turns[Now][j],
           r = 1 => t[Last_(Now) + 1] = Fresh,
           turns' \in Seq(Seq(Attempt)), Len(turns') = Now,
           \A k \in 1 .. Now : turns'[k] = IF k = Now THEN t ELSE turns[k]
    PROVE  /\ TurnsTyped' /\ TurnsGrow /\ RunnerIs(a, r)
           /\ Here' = <<Now, Last_(Now) + r>> /\ Runner' = IF r = 1 THEN Fresh ELSE a
<1> USE JournalAssumption
<1>1. /\ Now \in 1 .. Now /\ Now' = Now /\ Now \in Nat
      /\ Last_(Now) \in 1 .. Last_(Now) /\ Last_(Now) \in Nat
  BY Lengths DEF Now
<1>2. turns'[Now] = t /\ Last_(Now)' = Last_(Now) + r
  BY <1>1 DEF Now, Last_
<1>3. RunnerIs(a, r)
  BY <1>1, <1>2 DEF RunnerIs
<1>4. Here' = <<Now, Last_(Now) + r>> /\ Runner' = IF r = 1 THEN Fresh ELSE a
  BY <1>1, <1>2 DEF Here, Runner
<1>5. TurnsTyped'
  <2>1. \A k \in 1 .. Now : Len(turns[k]) \in 1 .. Candidates
    BY DEF JournalTypes, Last_
  <2>2. ASSUME NEW k \in 1 .. Now PROVE Len(turns'[k]) \in 1 .. Candidates
    <3>1. CASE k = Now
      <4>1. Len(turns'[k]) = Last_(Now) + r
        BY <1>1, <3>1, Zenon
      <4>2. Last_(Now) \in 1 .. Candidates
        BY <1>1, Zenon DEF JournalTypes
      <4> QED
        BY <1>1, <4>1, <4>2
    <3>2. CASE k # Now
      <4>1. turns'[k] = turns[k]
        BY <3>2, Zenon
      <4> QED
        BY <2>1, <4>1, Zenon
    <3> QED
      BY <3>1, <3>2
  <2> QED
    BY <1>1, <2>2 DEF TurnsTyped, Last_
<1>6. TurnsGrow
  <2>1. ASSUME NEW k \in 1 .. Now
        PROVE  /\ Len(turns'[k]) >= Len(turns[k])
               /\ \A j \in 1 .. Last_(k) : Kept(turns[k][j], turns'[k][j])
    <3>1. CASE k = Now
      BY <1>1, <1>2, <3>1 DEF Kept, Runner, Last_
    <3>2. CASE k # Now
      BY <1>1, <3>2, Lengths DEF Kept, Last_
    <3> QED
      BY <3>1, <3>2
  <2> QED
    BY <1>1, <2>1 DEF TurnsGrow, Last_
<1> QED
  BY <1>3, <1>4, <1>5, <1>6

LEMMA RunnerMarked ==
    ASSUME JournalTypes, Now >= 1, NEW field, NEW value, Mark(field, value),
           NEW a \in Attempt, a = [Runner EXCEPT ![field] = value], Kept(Runner, a)
    PROVE  TurnsTyped' /\ TurnsGrow /\ RunnerIs(a, 0) /\ Here' = Here /\ Runner' = a
<1> DEFINE t == [turns[Now] EXCEPT ![Last_(Now)] = a]
<1>1. turns' = [turns EXCEPT ![Now] = t]
  BY DEF Mark, Runner
<1>2. /\ Now \in 1 .. Now /\ turns[Now] \in Seq(Attempt) /\ turns \in Seq(Seq(Attempt))
      /\ Last_(Now) \in 1 .. Last_(Now) /\ Last_(Now) = Len(turns[Now]) /\ Now = Len(turns)
      /\ Last_(Now) \in Nat /\ Last_(Now) <= Candidates
  BY Lengths, JournalAssumption DEF JournalTypes, Last_, Now
<1>3. /\ t \in Seq(Attempt) /\ Len(t) = Last_(Now)
      /\ \A j \in 1 .. Last_(Now) : t[j] = IF j = Last_(Now) THEN a ELSE turns[Now][j]
  BY <1>2, Replaced
<1> HIDE DEF t
<1>4. /\ turns' \in Seq(Seq(Attempt)) /\ Len(turns') = Now
      /\ \A k \in 1 .. Now : turns'[k] = IF k = Now THEN t ELSE turns[k]
  BY <1>1, <1>2, <1>3, Replaced
<1>5. PICK r \in {0, 1} : r = 0
  OBVIOUS
<1>6. Last_(Now) + r = Last_(Now) /\ ~ (r = 1)
  BY <1>2, <1>5
<1>7. Last_(Now) + r <= Candidates /\ Len(t) = Last_(Now) + r
  BY <1>2, <1>3, <1>6
<1>8. /\ TurnsTyped' /\ TurnsGrow /\ RunnerIs(a, r)
      /\ Here' = <<Now, Last_(Now) + r>> /\ Runner' = IF r = 1 THEN Fresh ELSE a
  BY <1>3, <1>4, <1>6, <1>7, RunnerReplaced
<1> QED
  BY <1>5, <1>6, <1>8 DEF Here

LEMMA RunnerFollowed ==
    ASSUME JournalTypes, Now >= 1, Last_(Now) < Candidates,
           NEW a \in Attempt, Kept(Runner, a), NEW s, NEW t,
           s = [turns[Now] EXCEPT ![Last_(Now)] = a], t = Append(s, Fresh),
           turns' = [turns EXCEPT ![Now] = t]
    PROVE  /\ TurnsTyped' /\ TurnsGrow /\ RunnerIs(a, 1)
           /\ Here' = <<Now, Last_(Now) + 1>> /\ Runner' = Fresh
<1>2. /\ Now \in 1 .. Now /\ turns[Now] \in Seq(Attempt) /\ turns \in Seq(Seq(Attempt))
      /\ Last_(Now) \in 1 .. Last_(Now) /\ Last_(Now) = Len(turns[Now]) /\ Now = Len(turns)
      /\ Last_(Now) \in Nat /\ Last_(Now) + 1 <= Candidates
  <2>1. /\ Now \in 1 .. Now /\ turns[Now] \in Seq(Attempt) /\ Last_(Now) \in 1 .. Last_(Now)
        /\ Last_(Now) \in Nat
    BY Lengths, Zenon
  <2>2. turns \in Seq(Seq(Attempt)) /\ Last_(Now) = Len(turns[Now]) /\ Now = Len(turns)
    BY Zenon DEF JournalTypes, Last_, Now
  <2>3. Last_(Now) + 1 <= Candidates
    BY <2>1, JournalAssumption
  <2> QED
    BY <2>1, <2>2, <2>3, Zenon
<1>3. /\ s \in Seq(Attempt) /\ Len(s) = Last_(Now)
      /\ \A j \in 1 .. Last_(Now) : s[j] = IF j = Last_(Now) THEN a ELSE turns[Now][j]
  BY <1>2, Replaced
<1>4. Fresh \in Attempt
  BY DEF Fresh, Attempt
<1>5. /\ t \in Seq(Attempt) /\ Len(t) = Last_(Now) + 1 /\ t[Last_(Now) + 1] = Fresh
      /\ \A j \in 1 .. Last_(Now) : t[j] = s[j]
  BY <1>3, <1>4, Appended
<1>6. /\ turns' \in Seq(Seq(Attempt)) /\ Len(turns') = Now
      /\ \A k \in 1 .. Now : turns'[k] = IF k = Now THEN t ELSE turns[k]
  BY <1>2, <1>5, Replaced
<1>7. \A j \in 1 .. Last_(Now) : t[j] = IF j = Last_(Now) THEN a ELSE turns[Now][j]
  BY <1>3, <1>5, Zenon
<1>8. PICK r \in {0, 1} : r = 1
  OBVIOUS
<1>9. Last_(Now) + r <= Candidates /\ Len(t) = Last_(Now) + r
  BY <1>2, <1>5, <1>8
<1>10. /\ TurnsTyped' /\ TurnsGrow /\ RunnerIs(a, r)
       /\ Here' = <<Now, Last_(Now) + r>> /\ Runner' = IF r = 1 THEN Fresh ELSE a
  <2>1. r = 1 => t[Last_(Now) + 1] = Fresh
    BY <1>5, Zenon
  <2> HIDE <1>8
  <2> QED
    BY <1>5, <1>6, <1>7, <1>9, <2>1, RunnerReplaced, ZenonT(60)
<1> QED
  BY <1>8, <1>10

LEMMA TurnsAlone ==
    ASSUME JournalTypes, UNCHANGED turns
    PROVE  /\ TurnsTyped' /\ TurnsGrow /\ Now' = Now
           /\ Here' = Here /\ Runner' = Runner /\ PassedOver' = PassedOver
<1>1. /\ Now' = Now /\ Here' = Here /\ Runner' = Runner /\ PassedOver' = PassedOver /\ TurnsTyped'
  BY DEF Now, Here, Runner, Last_, PassedOver, TurnsTyped, JournalTypes
<1>2. TurnsGrow
  BY <1>1, Lengths DEF TurnsGrow, Kept, Last_
<1> QED
  BY <1>1, <1>2

-----------------------------------------------------------------------------
(* What a step tells.                                                       *)

Flushed == IF journal.pending = None THEN 0 ELSE 1

(* a sessions are announced, what is pending is told by ref, and then r     *)
(* events: e.                                                               *)
Told(a, ref, r, e) ==
    /\ IsASequence(stream') /\ Len(stream') = Len(stream) + a + Flushed + r
    /\ \A i \in 1 .. Len(stream) : stream'[i] = stream[i]
    /\ a = 1 => stream'[Len(stream) + 1] = OneharnessSession(Here)
    /\ Flushed = 1 => stream'[Len(stream) + a + 1] = TurnStarted(journal.pending, ref)
    /\ r = 1 => stream'[Len(stream) + a + Flushed + 1] = e

JournalIs(pending, worker, judge) ==
    /\ journal' \in [pending : Nat, worker : Nat \X Nat, judge : Nat \X Nat]
    /\ journal'.pending = pending /\ journal'.worker = worker /\ journal'.judge = judge

LEMMA OpeningIs ==
    ASSUME NEW ref
    PROVE  /\ IsASequence(Opening(ref)) /\ Len(Opening(ref)) = Flushed /\ Flushed \in {0, 1}
           /\ Flushed = 1 => Opening(ref)[1] = TurnStarted(journal.pending, ref)
BY Short DEF Opening, Flushed

LEMMA Lengthened ==
    ASSUME IsASequence(stream)
    PROVE  Len(stream) \in Nat /\ DOMAIN stream = 1 .. Len(stream)
BY Sequences DEF IsASequence

LEMMA TellsOpening ==
    ASSUME JournalTypes, NEW ref, NEW p, p = Opening(ref), Joins(stream', stream, p), NEW e
    PROVE  Told(0, ref, 0, e)
<1>1. /\ IsASequence(p) /\ Len(p) = Flushed /\ Flushed \in {0, 1}
      /\ Flushed = 1 => p[1] = TurnStarted(journal.pending, ref)
  BY OpeningIs
<1>2. IsASequence(stream)
  BY DEF JournalTypes
<1>3. Follow(stream', stream, p)
  BY <1>1, <1>2, Joined, Zenon
<1> QED
  BY <1>1, <1>3 DEF Told, Follow

Two(p, q) ==
    /\ IsASequence(stream') /\ Len(stream') = Len(stream) + Len(p) + Len(q)
    /\ Len(stream) \in Nat
    /\ \A i \in 1 .. Len(stream) : stream'[i] = stream[i]
    /\ Len(p) = 1 => stream'[Len(stream) + 1] = p[1]
    /\ Len(q) = 1 => stream'[Len(stream) + Len(p) + 1] = q[1]

LEMMA TellsTwo ==
    ASSUME JournalTypes, NEW p, NEW q, NEW u, IsASequence(p), IsASequence(q), Joins(u, p, q),
           Joins(stream', stream, u), Len(p) \in {0, 1}, Len(q) \in {0, 1}
    PROVE  Two(p, q)
<1>1. Follow(u, p, q)
  BY Joined, Zenon
<1>2. IsASequence(stream) /\ IsASequence(u)
  BY <1>1 DEF JournalTypes, Follow
<1>3. Follow(stream', stream, u)
  BY <1>2, Joined, Zenon
<1>4. Len(p) = 1 => stream'[Len(stream) + 1] = p[1]
  BY <1>1, <1>3 DEF Follow
<1>5. Len(q) = 1 => stream'[Len(stream) + Len(p) + 1] = q[1]
  <2>1. CASE Len(p) = 0
    BY <1>1, <1>3, <2>1 DEF Follow
  <2>2. CASE Len(p) = 1
    BY <1>1, <1>3, <2>2 DEF Follow
  <2> QED
    BY <2>1, <2>2
<1> QED
  BY <1>1, <1>3, <1>4, <1>5 DEF Follow, Two

LEMMA TellsSession ==
    ASSUME JournalTypes, NEW ref, NEW p, NEW q, NEW u, p = Announced(Here), q = Opening(ref),
           Joins(u, p, q), Joins(stream', stream, u), NEW e
    PROVE  Told(1, ref, 0, e)
<1>1. /\ IsASequence(p) /\ Len(p) = 1 /\ p[1] = OneharnessSession(Here)
  BY Short DEF Announced
<1>2. /\ IsASequence(q) /\ Len(q) = Flushed /\ Flushed \in {0, 1}
      /\ Flushed = 1 => q[1] = TurnStarted(journal.pending, ref)
  BY OpeningIs
<1>3. Len(p) \in {0, 1} /\ Len(q) \in {0, 1}
  BY <1>1, <1>2
<1>4. Two(p, q)
  BY <1>1, <1>2, <1>3, TellsTwo, Zenon
<1> QED
  BY <1>1, <1>2, <1>4 DEF Told, Two

LEMMA TellsEvent ==
    ASSUME JournalTypes, NEW ref, NEW p, NEW q, NEW u, p = Opening(ref), NEW e, NEW r \in {0, 1},
           q = IF r = 1 THEN <<e>> ELSE <<>>, Joins(u, p, q), Joins(stream', stream, u)
    PROVE  Told(0, ref, r, e)
<1>1. IsASequence(q) /\ Len(q) = r /\ (r = 1 => q[1] = e)
  <2>1. CASE r = 1
    BY <2>1, Short
  <2>2. CASE r = 0
    BY <2>2, Short
  <2> QED
    BY <2>1, <2>2
<1>2. /\ IsASequence(p) /\ Len(p) = Flushed /\ Flushed \in {0, 1}
      /\ Flushed = 1 => p[1] = TurnStarted(journal.pending, ref)
  BY OpeningIs
<1>3. Len(p) \in {0, 1} /\ Len(q) \in {0, 1}
  BY <1>1, <1>2
<1>4. Two(p, q)
  BY <1>1, <1>2, <1>3, TellsTwo, Zenon
<1> QED
  BY <1>1, <1>2, <1>4 DEF Told, Two

-----------------------------------------------------------------------------
(* The steps of the engine, as what they do to the turns, the journal and   *)
(* the stream.                                                              *)

MemberAlone == UNCHANGED <<panel, histories, abort, member>>

OpensTurn ==
    /\ at = "between" /\ at' = "sink" /\ UNCHANGED <<fell, answer>>
    /\ TurnsTyped' /\ TurnsGrow /\ Now' = Now + 1
    /\ \A k \in 1 .. Now : turns'[k] = turns[k]
    /\ Last_(Now)' = 1 /\ Runner' = Fresh /\ Here' = <<Now + 1, 1>>
    /\ JournalIs(Now + 1, IF Party(Now + 1) = "assistant" THEN Inline ELSE journal.worker,
                          IF Party(Now + 1) = "assistant" THEN journal.judge ELSE Inline)
    /\ Told(0, Inline, 0, 0)

LEMMA JournalIsA ==
    ASSUME JournalTypes
    PROVE  /\ journal = [pending |-> journal.pending, worker |-> journal.worker,
                         judge |-> journal.judge]
           /\ journal.pending \in Nat /\ journal.worker \in Nat \X Nat
           /\ journal.judge \in Nat \X Nat /\ Inline \in Nat \X Nat
BY DEF JournalTypes, Inline

LEMMA OpenTurnIs ==
    ASSUME JournalTyped, OpenTurn PROVE OpensTurn /\ MemberAlone
<1>1. JournalTypes
  BY DEF JournalTyped
<1>2. <<Fresh>> \in Seq(Attempt)
  BY DEF Fresh, Attempt
<1>3. turns \in Seq(Seq(Attempt)) /\ turns' = Append(turns, <<Fresh>>)
  BY <1>1 DEF JournalTypes, OpenTurn
<1>4. /\ turns' \in Seq(Seq(Attempt)) /\ Len(turns') = Now + 1
      /\ \A k \in 1 .. Now : turns'[k] = turns[k]
      /\ turns'[Now + 1] = <<Fresh>>
  BY <1>2, <1>3, Appended DEF Now
<1>5. /\ TurnsTyped' /\ TurnsGrow /\ Now' = Now + 1
      /\ Last_(Now)' = 1 /\ Runner' = Fresh /\ Here' = <<Now + 1, 1>>
  <2> HIDE <1>3
  <2> QED
    BY <1>1, <1>4, TurnOpened, Zenon
<1>6. PICK p : p = Opening(Inline)
  OBVIOUS
<1>7. Joins(stream', stream, p)
  BY <1>6 DEF OpenTurn, ObserveOpened, Observed, Joins
<1>8. Told(0, Inline, 0, 0)
  BY <1>1, <1>6, <1>7, TellsOpening, Zenon
<1>9. JournalIs(Now + 1, IF Party(Now + 1) = "assistant" THEN Inline ELSE journal.worker,
                         IF Party(Now + 1) = "assistant" THEN journal.judge ELSE Inline)
  <2>1. /\ journal' = [journal EXCEPT !.pending = Now + 1, ![Slot(Now + 1)] = Inline]
        /\ Now + 1 \in Nat
    BY <1>1, Lengths DEF OpenTurn, ObserveOpened, Observed
  <2>2. CASE Party(Now + 1) = "assistant"
    BY <1>1, <2>1, <2>2, JournalIsA DEF JournalIs, Slot
  <2>3. CASE Party(Now + 1) # "assistant"
    BY <1>1, <2>1, <2>3, JournalIsA DEF JournalIs, Slot
  <2> QED
    BY <2>2, <2>3
<1>10. /\ at = "between" /\ at' = "sink" /\ UNCHANGED <<fell, answer>> /\ MemberAlone
  BY DEF OpenTurn, ObserveOpened, Observed, MemberAlone
<1> QED
  BY <1>4, <1>5, <1>8, <1>9, <1>10, Zenon DEF OpensTurn

(* What an observation leaves: the engine is in the sink, and the journal   *)
(* told what was pending.                                                   *)
Observes(worker, judge, a, ref, r, e) ==
    /\ at = "turn" /\ at' = "sink" /\ UNCHANGED <<fell, answer>>
    /\ TurnsTyped' /\ TurnsGrow /\ Now' = Now /\ Here' = Here
    /\ JournalIs(None, worker, judge)
    /\ Told(a, ref, r, e)

HasBegun(h) ==
    /\ histories /\ Runner = Fresh
    /\ RunnerIs([Fresh EXCEPT !.history = h], 0) /\ Runner' = [Fresh EXCEPT !.history = h]
    /\ LET given == IF h = "readable" THEN Here ELSE Inline
       IN  Observes(IF Party(Now) = "assistant" THEN given ELSE journal.worker,
                    IF Party(Now) = "assistant" THEN journal.judge ELSE given,
                    IF h = "readable" THEN 1 ELSE 0, given, 0, 0)

LEMMA BeginIs ==
    ASSUME JournalTyped, NEW h \in {"readable", "unreadable"}, Begin(h)
    PROVE  HasBegun(h) /\ MemberAlone
<1>1. JournalTypes /\ Now >= 1
  BY DEF JournalTyped, EngineHasATurn, Begin
<1>2. PICK a : a = [Fresh EXCEPT !.history = h]
  OBVIOUS
<1>3. a \in Attempt /\ a = [Runner EXCEPT !["history"] = h] /\ Kept(Runner, a)
  BY <1>2 DEF Attempt, Fresh, Kept, Begin
<1>4. Mark("history", h)
  BY DEF Begin
<1>5. TurnsTyped' /\ TurnsGrow /\ RunnerIs(a, 0) /\ Here' = Here /\ Runner' = a
  BY <1>1, <1>3, <1>4, RunnerMarked, Zenon
<1>6. Now' = Now
  BY <1>5 DEF RunnerIs
<1>7. PICK given : given = IF h = "readable" THEN Here ELSE Inline
  OBVIOUS
<1>8. given \in Nat \X Nat
  BY <1>1, <1>7, Lengths DEF Here, Inline
<1>9. Told(IF h = "readable" THEN 1 ELSE 0, given, 0, 0)
  <2>1. CASE h = "readable"
    <3>1. PICK p, q, u : p = Announced(Here) /\ q = Opening(Here) /\ u = p \o q
      OBVIOUS
    <3>2. stream' = stream \o u
      BY <2>1, <3>1 DEF Begin, ObserveBegun, Observed, Available
    <3>3. Joins(u, p, q) /\ Joins(stream', stream, u)
      BY <3>1, <3>2 DEF Joins
    <3>4. Told(1, Here, 0, 0)
      BY <1>1, <3>1, <3>3, TellsSession, Zenon
    <3> QED
      BY <1>7, <2>1, <3>4
  <2>2. CASE h # "readable"
    <3>1. PICK p : p = Opening(Inline)
      OBVIOUS
    <3>2. Joins(stream', stream, p)
      BY <2>2, <3>1 DEF Begin, ObserveBegun, Observed, Available, Joins
    <3>3. Told(0, Inline, 0, 0)
      BY <1>1, <3>1, <3>2, TellsOpening, Zenon
    <3> QED
      BY <1>7, <2>2, <3>3
  <2> QED
    BY <2>1, <2>2
<1>10. JournalIs(None, IF Party(Now) = "assistant" THEN given ELSE journal.worker,
                       IF Party(Now) = "assistant" THEN journal.judge ELSE given)
  <2>1. journal' = [journal EXCEPT !.pending = None, ![Slot(Now)] = given]
    <3>1. Here[1] = Now
      BY DEF Here
    <3> QED
      BY <1>7, <3>1 DEF Begin, ObserveBegun, Observed, Available
  <2>2. CASE Party(Now) = "assistant"
    BY <1>1, <1>8, <2>1, <2>2, JournalIsA DEF JournalIs, Slot, None
  <2>3. CASE Party(Now) # "assistant"
    BY <1>1, <1>8, <2>1, <2>3, JournalIsA DEF JournalIs, Slot, None
  <2> QED
    BY <2>2, <2>3
<1>11. /\ at = "turn" /\ at' = "sink" /\ UNCHANGED <<fell, answer>> /\ MemberAlone
       /\ histories /\ Runner = Fresh
  BY DEF Begin, ObserveBegun, Observed, MemberAlone
<1> QED
  BY <1>2, <1>5, <1>6, <1>7, <1>9, <1>10, <1>11, Zenon DEF HasBegun, Observes

LEMMA ObserveIs ==
    ASSUME JournalTypes, NEW kind, NEW e, NEW r \in {0, 1}, Observe(kind, Now),
           Ingested(kind, Now) = IF r = 1 THEN <<e>> ELSE <<>>
    PROVE  /\ Told(0, Inline, r, e) /\ JournalIs(None, journal.worker, journal.judge)
           /\ at' = "sink" /\ UNCHANGED <<abort, member>>
<1>1. PICK p, q, u : p = Opening(Inline) /\ q = Ingested(kind, Now) /\ u = p \o q
  OBVIOUS
<1>2. stream' = stream \o u
  BY <1>1 DEF Observe, Observed
<1>3. Joins(u, p, q) /\ Joins(stream', stream, u)
  BY <1>1, <1>2 DEF Joins
<1>4. q = IF r = 1 THEN <<e>> ELSE <<>>
  BY <1>1, Zenon
<1>5. Told(0, Inline, r, e)
  BY <1>1, <1>3, <1>4, TellsEvent, Zenon
<1>6. JournalIs(None, journal.worker, journal.judge)
  <2>1. journal' = [journal EXCEPT !.pending = None]
    BY DEF Observe, Observed
  <2> QED
    BY <2>1, JournalIsA DEF JournalIs, None
<1> QED
  BY <1>5, <1>6 DEF Observe, Observed

(* Its act is on a worker's record; what a judge did leaves no trace.       *)
HasActed ==
    /\ Running
    /\ Observes(journal.worker, journal.judge, 0, Inline,
                IF Party(Now) = "assistant" THEN 1 ELSE 0, TurnActivity(Now, journal.worker))
    /\ \/ /\ Party(Now) = "assistant"
          /\ RunnerIs([Runner EXCEPT !.acted = TRUE], 0)
          /\ Runner' = [Runner EXCEPT !.acted = TRUE]
       \/ Party(Now) # "assistant" /\ UNCHANGED turns

LEMMA ActsIs ==
    ASSUME JournalTyped, Acts PROVE HasActed /\ MemberAlone
<1>1. /\ JournalTypes /\ Now >= 1 /\ at = "turn" /\ Running
      /\ UNCHANGED <<panel, histories, fell, answer>> /\ Observe("turn-activity", Now)
  BY DEF JournalTyped, EngineHasATurn, Acts, Running
<1>2. PICK r \in {0, 1} : r = IF Party(Now) = "assistant" THEN 1 ELSE 0
  OBVIOUS
<1>3. PICK e : e = TurnActivity(Now, journal.worker)
  OBVIOUS
<1>4. Ingested("turn-activity", Now) = IF r = 1 THEN <<e>> ELSE <<>>
  BY <1>2, <1>3 DEF Ingested, Reference
<1>5. /\ Told(0, Inline, r, e) /\ JournalIs(None, journal.worker, journal.judge)
      /\ at' = "sink" /\ UNCHANGED <<abort, member>>
  BY <1>1, <1>4, ObserveIs, Zenon
<1>6. CASE Party(Now) = "assistant"
  <2>1. PICK a : a = [Runner EXCEPT !.acted = TRUE]
    OBVIOUS
  <2>2. a \in Attempt /\ a = [Runner EXCEPT !["acted"] = TRUE] /\ Kept(Runner, a)
    BY <1>1, <2>1, Lengths DEF Attempt, Kept
  <2>3. Mark("acted", TRUE)
    BY <1>6 DEF Acts
  <2>4. TurnsTyped' /\ TurnsGrow /\ RunnerIs(a, 0) /\ Here' = Here /\ Runner' = a
    BY <1>1, <2>2, <2>3, RunnerMarked, Zenon
  <2>5. Now' = Now
    BY <2>4 DEF RunnerIs
  <2> QED
    BY <1>1, <1>2, <1>3, <1>5, <1>6, <2>1, <2>4, <2>5, Zenon DEF HasActed, Observes, MemberAlone
<1>7. CASE Party(Now) # "assistant"
  <2>1. UNCHANGED turns
    BY <1>7 DEF Acts
  <2>2. TurnsTyped' /\ TurnsGrow /\ Now' = Now /\ Here' = Here
    BY <1>1, <2>1, TurnsAlone
  <2> QED
    BY <1>1, <1>2, <1>3, <1>5, <1>7, <2>1, <2>2, Zenon DEF HasActed, Observes, MemberAlone
<1> QED
  BY <1>6, <1>7

Records(r) ==
    /\ RunnerIs([Runner EXCEPT !.record = r], 0) /\ Runner' = [Runner EXCEPT !.record = r]
    /\ Runner'.record = r /\ Runner'.history = Runner.history /\ Runner'.acted = Runner.acted

LEMMA RecordIs ==
    ASSUME JournalTypes, Now >= 1, Runner.record = "none",
           NEW r \in {"fell", "completed"}, Mark("record", r)
    PROVE  TurnsTyped' /\ TurnsGrow /\ Records(r) /\ Here' = Here /\ Now' = Now
<1>1. PICK a : a = [Runner EXCEPT !.record = r]
  OBVIOUS
<1>2. /\ a \in Attempt /\ a = [Runner EXCEPT !["record"] = r] /\ Kept(Runner, a)
      /\ a.record = r /\ a.history = Runner.history /\ a.acted = Runner.acted
  BY <1>1, Lengths DEF Attempt, Kept
<1>3. TurnsTyped' /\ TurnsGrow /\ RunnerIs(a, 0) /\ Here' = Here /\ Runner' = a
  BY <1>2, RunnerMarked, Zenon
<1>4. Now' = Now
  BY <1>3 DEF RunnerIs
<1> QED
  BY <1>1, <1>2, <1>3, <1>4, Zenon DEF Records

HasDecided ==
    /\ Chair(Now) /\ Runner.record = "none" /\ Records("completed")
    /\ Observes(journal.worker, Inline, 0, Inline, 1, JudgeDecided(Now))

LEMMA DecideIs ==
    ASSUME JournalTyped, Decide PROVE HasDecided /\ MemberAlone
<1>1. /\ JournalTypes /\ Now >= 1 /\ at = "turn" /\ Runner.record = "none" /\ Chair(Now)
      /\ UNCHANGED <<panel, histories, fell, answer>> /\ Mark("record", "completed")
      /\ ObserveDecided(Now)
  BY DEF JournalTyped, EngineHasATurn, Decide
<1>2. TurnsTyped' /\ TurnsGrow /\ Records("completed") /\ Here' = Here /\ Now' = Now
  BY <1>1, RecordIs
<1>3. PICK p, q, u, e, r :
         /\ p = Opening(Inline) /\ e = JudgeDecided(Now) /\ q = <<e>> /\ u = p \o q /\ r = 1 /\ r \in {0, 1}
  OBVIOUS
<1>4. stream' = stream \o u
  BY <1>1, <1>3 DEF ObserveDecided, Observed
<1>5. Joins(u, p, q) /\ Joins(stream', stream, u) /\ q = IF r = 1 THEN <<e>> ELSE <<>>
  BY <1>3, <1>4 DEF Joins
<1>6. Told(0, Inline, r, e)
  BY <1>1, <1>3, <1>5, TellsEvent, Zenon
<1>7. JournalIs(None, journal.worker, Inline)
  <2>1. journal' = [journal EXCEPT !.pending = None, !.judge = Inline]
    BY <1>1 DEF ObserveDecided, Observed
  <2> QED
    BY <1>1, <2>1, JournalIsA DEF JournalIs, None
<1>8. at' = "sink" /\ UNCHANGED <<abort, member>>
  BY <1>1 DEF ObserveDecided, Observed
<1> QED
  BY <1>1, <1>2, <1>3, <1>6, <1>7, <1>8, Zenon DEF HasDecided, Observes, MemberAlone

(* A party's text; of a panel, the one its chair composed.                  *)
HasSpoken ==
    /\ \/ ~Chair(Now) /\ Running /\ Records("completed")
       \/ Chair(Now) /\ Runner.record = "completed" /\ UNCHANGED turns
    /\ Observes(journal.worker, journal.judge, 0, Inline, 1,
                TurnMessage(Now, Reference("turn-message", Now)))

LEMMA SpeakIs ==
    ASSUME JournalTyped, Speak PROVE HasSpoken /\ MemberAlone
<1>1. /\ JournalTypes /\ Now >= 1 /\ at = "turn"
      /\ UNCHANGED <<panel, histories, fell, answer>> /\ Observe("turn-message", Now)
  BY DEF JournalTyped, EngineHasATurn, Speak, Running
<1>2. PICK e, r : e = TurnMessage(Now, Reference("turn-message", Now)) /\ r = 1 /\ r \in {0, 1}
  OBVIOUS
<1>3. Ingested("turn-message", Now) = IF r = 1 THEN <<e>> ELSE <<>>
  BY <1>2 DEF Ingested
<1>4. /\ Told(0, Inline, r, e) /\ JournalIs(None, journal.worker, journal.judge)
      /\ at' = "sink" /\ UNCHANGED <<abort, member>>
  BY <1>1, <1>2, <1>3, ObserveIs, Zenon
<1>5. CASE Running /\ ~Chair(Now) /\ Mark("record", "completed")
  <2>1. Runner.record = "none"
    BY <1>5 DEF Running
  <2>2. TurnsTyped' /\ TurnsGrow /\ Records("completed") /\ Here' = Here /\ Now' = Now
    BY <1>1, <1>5, <2>1, RecordIs
  <2> QED
    BY <1>1, <1>2, <1>4, <1>5, <2>2, Zenon DEF HasSpoken, Observes, MemberAlone
<1>6. CASE Chair(Now) /\ Runner.record = "completed" /\ UNCHANGED turns
  <2>1. TurnsTyped' /\ TurnsGrow /\ Now' = Now /\ Here' = Here
    BY <1>1, <1>6, TurnsAlone
  <2> QED
    BY <1>1, <1>2, <1>4, <1>6, <2>1, Zenon DEF HasSpoken, Observes, MemberAlone
<1> QED
  BY <1>5, <1>6 DEF Speak

HasClosed ==
    /\ UNCHANGED turns
    /\ Observes(journal.worker, journal.judge, 0, Inline, 1, TurnCompleted(Now))

LEMMA CloseIs ==
    ASSUME JournalTyped, Close PROVE HasClosed /\ MemberAlone
<1>1. /\ JournalTypes /\ Now >= 1 /\ at = "turn" /\ UNCHANGED turns
      /\ UNCHANGED <<panel, histories, fell, answer>> /\ Observe("turn-completed", Now)
  BY DEF JournalTyped, EngineHasATurn, Close
<1>2. PICK e, r : e = TurnCompleted(Now) /\ r = 1 /\ r \in {0, 1}
  OBVIOUS
<1>3. Ingested("turn-completed", Now) = IF r = 1 THEN <<e>> ELSE <<>>
  BY <1>2 DEF Ingested
<1>4. /\ Told(0, Inline, r, e) /\ JournalIs(None, journal.worker, journal.judge)
      /\ at' = "sink" /\ UNCHANGED <<abort, member>>
  BY <1>1, <1>2, <1>3, ObserveIs, Zenon
<1>5. TurnsTyped' /\ TurnsGrow /\ Now' = Now /\ Here' = Here
  BY <1>1, TurnsAlone
<1> QED
  BY <1>1, <1>2, <1>4, <1>5, Zenon DEF HasClosed, Observes, MemberAlone

(* It returns between its turns, or fails in one.                           *)
HasAnswered ==
    /\ at' = "sent" /\ UNCHANGED fell
    /\ at \in {"between", "broken", "turn"} /\ UNCHANGED turns
    /\ TurnsTyped' /\ TurnsGrow /\ Now' = Now /\ Here' = Here
    /\ JournalIs(None, journal.worker, journal.judge)
    /\ Told(0, Inline, 0, 0)
    /\ answer'.failed \in BOOLEAN /\ DOMAIN answer'.records \subseteq Invocations

LEMMA AnswersIs ==
    ASSUME JournalTyped, Answers PROVE HasAnswered /\ MemberAlone
<1>1. JournalTypes /\ (at = "turn" => Now >= 1)
  BY DEF JournalTyped, EngineHasATurn
<1>2. /\ at' = "sent" /\ stream' = stream \o Opening(Inline)
      /\ journal' = [journal EXCEPT !.pending = None]
      /\ UNCHANGED <<panel, histories, fell, abort, member>>
  BY DEF Answers, Return
<1>3. PICK p : p = Opening(Inline)
  OBVIOUS
<1>4. Joins(stream', stream, p)
  BY <1>2, <1>3 DEF Joins
<1>5. Told(0, Inline, 0, 0)
  BY <1>1, <1>3, <1>4, TellsOpening, Zenon
<1>6. JournalIs(None, journal.worker, journal.judge)
  BY <1>1, <1>2, JournalIsA DEF JournalIs, None
<1>7. at \in {"between", "broken", "turn"} /\ UNCHANGED turns
  BY DEF Answers, Return
<1>8. TurnsTyped' /\ TurnsGrow /\ Now' = Now /\ Here' = Here
  BY <1>1, <1>7, TurnsAlone
<1>9. answer'.failed \in BOOLEAN /\ DOMAIN answer'.records \subseteq Invocations
  <2>1. CASE Return(FALSE, <<>>)
    <3>1. answer' = [failed |-> FALSE, records |-> <<>>]
      BY <2>1 DEF Return
    <3> QED
      BY <3>1
  <2>2. CASE \E named \in SUBSET Invocations : \E f \in [named -> {"billed", "other"}] : Return(TRUE, f)
    <3>2. PICK named \in SUBSET Invocations : \E f \in [named -> {"billed", "other"}] : Return(TRUE, f)
      BY <2>2
    <3>1. PICK f \in [named -> {"billed", "other"}] : answer' = [failed |-> TRUE, records |-> f]
      BY <3>2 DEF Return
    <3> QED
      BY <3>1
  <2> QED
    BY <2>1, <2>2 DEF Answers
<1> QED
  BY <1>2, <1>5, <1>6, <1>7, <1>8, <1>9, Zenon DEF HasAnswered, MemberAlone

ToldNothing == UNCHANGED <<panel, histories, at, answer, journal, abort, member, stream>>

HasFallen ==
    /\ at = "turn" /\ ~Chair(Now) /\ Runner.record = "none"
    /\ TurnsTyped' /\ TurnsGrow /\ RunnerIs([Runner EXCEPT !.record = "fell"], 1)
    /\ Here' = <<Now, Last_(Now) + 1>> /\ Runner' = Fresh /\ Now' = Now
    /\ fell' = Append(fell, Here)

LEMMA FallThroughIs ==
    ASSUME JournalTyped, FallThrough PROVE HasFallen /\ ToldNothing
<1>1. /\ JournalTypes /\ Now >= 1 /\ at = "turn" /\ Runner.record = "none" /\ ~Chair(Now)
      /\ Last_(Now) < Candidates /\ fell' = Append(fell, Here) /\ ToldNothing
  BY DEF JournalTyped, EngineHasATurn, FallThrough, ToldNothing
<1>2. PICK a, s, t : /\ a = [Runner EXCEPT !.record = "fell"]
                     /\ s = [turns[Now] EXCEPT ![Last_(Now)] = a] /\ t = Append(s, Fresh)
  OBVIOUS
<1>3. a \in Attempt /\ Kept(Runner, a)
  BY <1>1, <1>2, Lengths DEF Attempt, Kept
<1>4. turns' = [turns EXCEPT ![Now] = t]
  BY <1>2 DEF FallThrough, Runner, Last_
<1>5. /\ TurnsTyped' /\ TurnsGrow /\ RunnerIs(a, 1)
      /\ Here' = <<Now, Last_(Now) + 1>> /\ Runner' = Fresh
  BY <1>1, <1>2, <1>3, <1>4, RunnerFollowed, Zenon
<1>6. Now' = Now
  BY <1>5 DEF RunnerIs
<1> QED
  BY <1>1, <1>2, <1>5, <1>6, Zenon DEF HasFallen

HasNextJudge ==
    /\ at = "turn" /\ Chair(Now) /\ Runner.record = "completed" /\ UNCHANGED fell
    /\ TurnsTyped' /\ TurnsGrow /\ RunnerIs(Runner, 1)
    /\ Here' = <<Now, Last_(Now) + 1>> /\ Runner' = Fresh /\ Now' = Now

LEMMA NextJudgeIs ==
    ASSUME JournalTyped, NextJudge PROVE HasNextJudge /\ ToldNothing
<1>1. /\ JournalTypes /\ Now >= 1 /\ at = "turn" /\ Runner.record = "completed" /\ Chair(Now)
      /\ Last_(Now) < Candidates /\ UNCHANGED fell /\ ToldNothing
  BY DEF JournalTyped, EngineHasATurn, NextJudge, ToldNothing
<1>2. PICK a, s, t : /\ a = Runner
                     /\ s = [turns[Now] EXCEPT ![Last_(Now)] = a] /\ t = Append(s, Fresh)
  OBVIOUS
<1>3. a \in Attempt /\ Kept(Runner, a)
  BY <1>1, <1>2, Lengths DEF Attempt, Kept
<1>4. turns' = [turns EXCEPT ![Now] = t]
  <2>1. s = turns[Now]
    BY <1>1, <1>2, Lengths DEF Runner
  <2> QED
    BY <1>2, <2>1 DEF NextJudge
<1>5. /\ TurnsTyped' /\ TurnsGrow /\ RunnerIs(a, 1)
      /\ Here' = <<Now, Last_(Now) + 1>> /\ Runner' = Fresh
  BY <1>1, <1>2, <1>3, <1>4, RunnerFollowed, Zenon
<1>6. Now' = Now
  BY <1>5 DEF RunnerIs
<1> QED
  BY <1>1, <1>2, <1>5, <1>6, Zenon DEF HasNextJudge

-----------------------------------------------------------------------------
(* The member's own steps.                                                  *)

(* Its outcome e is told, after the m candidates passed over.               *)
Ended(m, e) ==
    /\ IsASequence(stream') /\ Len(stream') = Len(stream) + m + 1
    /\ \A i \in 1 .. Len(stream) : stream'[i] = stream[i]
    /\ \A i \in 1 .. m : stream'[Len(stream) + i] = FallbackAdvanced(fell[i])
    /\ stream'[Len(stream) + m + 1] = e
    /\ e.kind \in {"member-died", "member-settled"} /\ e.turn = 0 /\ e.ref = Inline
    /\ member # "done" /\ member' = "done"
    /\ UNCHANGED <<panel, histories, turns, fell, answer, journal, abort>>

LEMMA AttributionIs ==
    ASSUME JournalTypes
    PROVE  /\ IsASequence(Attribution) /\ Len(Attribution) = Len(fell) /\ Len(fell) \in Nat
           /\ \A i \in 1 .. Len(fell) : Attribution[i] = FallbackAdvanced(fell[i])
<1>1. fell \in Seq(Nat \X Nat) /\ DOMAIN fell = 1 .. Len(fell) /\ Len(fell) \in Nat
  BY DEF JournalTypes
<1>2. PICK S : S = {FallbackAdvanced(fell[i]) : i \in 1 .. Len(fell)}
  OBVIOUS
<1>3. Attribution = [i \in 1 .. Len(fell) |-> FallbackAdvanced(fell[i])]
  BY <1>1 DEF Attribution
<1>4. \A i \in 1 .. Len(fell) : FallbackAdvanced(fell[i]) \in S
  BY <1>2
<1>5. Attribution \in [1 .. Len(fell) -> S]
  BY <1>3, <1>4
<1>6. Attribution \in Seq(S) /\ Len(Attribution) = Len(fell)
  BY <1>1, <1>5, FunctionsAreSequences, Zenon
<1> QED
  BY <1>1, <1>3, <1>6, Sequences

LEMMA EndsAlone ==
    ASSUME JournalTypes, NEW e, Publishes(<<e>>), member # "done",
           UNCHANGED <<panel, histories, turns, fell, answer, journal, abort>>,
           e.kind \in {"member-died", "member-settled"}, e.turn = 0, e.ref = Inline
    PROVE  Ended(0, e)
<1>1. PICK p : p = <<e>>
  OBVIOUS
<1>2. IsASequence(p) /\ Len(p) = 1 /\ p[1] = e
  BY <1>1, Short
<1>3. IsASequence(stream) /\ Joins(stream', stream, p) /\ member' = "done"
  BY <1>1 DEF JournalTypes, Publishes, Joins
<1>4. Follow(stream', stream, p)
  BY <1>2, <1>3, Joined, Zenon
<1>5. /\ IsASequence(stream') /\ Len(stream') = Len(stream) + 0 + 1
      /\ \A i \in 1 .. Len(stream) : stream'[i] = stream[i]
      /\ stream'[Len(stream) + 0 + 1] = e
  <2> HIDE <1>1
  <2> QED
    BY <1>2, <1>4 DEF Follow
<1>6. \A i \in 1 .. 0 : stream'[Len(stream) + i] = FallbackAdvanced(fell[i])
  OBVIOUS
<1> QED
  BY <1>3, <1>5, <1>6, Zenon DEF Ended

LEMMA EndsHeard ==
    ASSUME JournalTypes, NEW e, Publishes(Attribution \o <<e>>), member # "done",
           UNCHANGED <<panel, histories, turns, fell, answer, journal, abort>>,
           e.kind \in {"member-died", "member-settled"}, e.turn = 0, e.ref = Inline
    PROVE  Ended(Len(fell), e)
<1>1. PICK p, q, u : p = Attribution /\ q = <<e>> /\ u = p \o q
  OBVIOUS
<1>2. /\ IsASequence(p) /\ Len(p) = Len(fell) /\ Len(fell) \in Nat
      /\ \A i \in 1 .. Len(fell) : p[i] = FallbackAdvanced(fell[i])
  BY <1>1, AttributionIs
<1>3. IsASequence(q) /\ Len(q) = 1 /\ q[1] = e
  BY <1>1, Short
<1>4. IsASequence(stream) /\ Joins(stream', stream, u) /\ Joins(u, p, q) /\ member' = "done"
  BY <1>1 DEF JournalTypes, Publishes, Joins
<1>5. Follow(u, p, q)
  BY <1>2, <1>3, <1>4, Joined, Zenon
<1>6. Follow(stream', stream, u)
  <2>1. IsASequence(u)
    BY <1>5 DEF Follow
  <2> QED
    BY <1>4, <2>1, Joined, Zenon
<1>7. /\ IsASequence(stream') /\ Len(stream') = Len(stream) + Len(fell) + 1
      /\ \A i \in 1 .. Len(stream) : stream'[i] = stream[i]
      /\ \A i \in 1 .. Len(fell) : stream'[Len(stream) + i] = FallbackAdvanced(fell[i])
      /\ stream'[Len(stream) + Len(fell) + 1] = e
  <2> HIDE <1>1
  <2>1. Len(u) = Len(fell) + 1 /\ Len(stream) \in Nat /\ Len(stream') = Len(stream) + Len(u)
    BY <1>2, <1>3, <1>5, <1>6 DEF Follow
  <2>2. u[Len(fell) + 1] = e
    BY <1>2, <1>3, <1>5 DEF Follow
  <2>3. stream'[Len(stream) + Len(fell) + 1] = e
    <3>1. Len(fell) + 1 \in 1 .. Len(u) /\ Len(stream) + (Len(fell) + 1) = Len(stream) + Len(fell) + 1
      BY <1>2, <2>1
    <3> QED
      BY <1>6, <2>2, <3>1 DEF Follow
  <2>4. ASSUME NEW i \in 1 .. Len(fell)
        PROVE  stream'[Len(stream) + i] = FallbackAdvanced(fell[i])
    <3>1. i \in 1 .. Len(u)
      BY <1>2, <2>1
    <3>2. stream'[Len(stream) + i] = u[i]
      BY <1>6, <3>1, Zenon DEF Follow
    <3>3. u[i] = p[i]
      BY <1>2, <1>5, Zenon DEF Follow
    <3> QED
      BY <1>2, <3>2, <3>3, Zenon
  <2> QED
    BY <1>2, <1>6, <2>1, <2>3, <2>4 DEF Follow
<1> QED
  BY <1>4, <1>7, Zenon DEF Ended

(* An outcome is read of a failure only as its last record has it.          *)
ReadOf(e) ==
    /\ e.said = "provider" => ~Contradicted
    /\ answer.failed /\ e.said \in {"completed", "incomplete"} => Contradicted

(* Which outcome, of an engine where; of one that was heard, all of its     *)
(* telemetry with it.                                                       *)
HasEnded ==
    \/ /\ at = "start" /\ at' = "never" /\ Ended(0, MemberDied("unstartable"))
    \/ /\ at = "lost" /\ at' = at /\ Ended(0, MemberDied("lost"))
    \/ /\ member = "tearing" /\ at' = at /\ Ended(0, MemberDied("given up"))
    \/ /\ at = "sent" /\ at' = at
       /\ \E e \in {MemberSettled("completed"), MemberSettled("incomplete"), MemberDied("cancelled"),
                    MemberDied("provider"), MemberDied("condemned")} :
            Ended(Len(fell), e) /\ ReadOf(e)

LEMMA EndsIs ==
    ASSUME JournalTyped, Unstartable \/ Finish \/ Lost \/ HearLate \/ GiveUp
    PROVE  HasEnded
<1>1. JournalTypes /\ (at = "start" => member = "live")
  BY DEF JournalTyped, EngineHasATurn
<1> USE DEF engine, MemberDied, MemberSettled, Event
<1>2. CASE Unstartable
  <2>1. Ended(0, MemberDied("unstartable"))
    BY <1>1, <1>2, EndsAlone DEF Unstartable
  <2> QED
    BY <1>2, <2>1 DEF Unstartable, HasEnded
<1>3. CASE Lost
  <2>1. Ended(0, MemberDied("lost"))
    BY <1>1, <1>3, EndsAlone DEF Lost
  <2> QED
    BY <1>3, <2>1 DEF Lost, HasEnded
<1>4. CASE GiveUp
  <2>1. Ended(0, MemberDied("given up"))
    BY <1>1, <1>4, EndsAlone DEF GiveUp
  <2> QED
    BY <1>4, <2>1 DEF GiveUp, HasEnded
<1>5. CASE HearLate
  <2>1. Ended(Len(fell), MemberDied("condemned"))
    BY <1>1, <1>5, EndsHeard DEF HearLate
  <2>2. ReadOf(MemberDied("condemned"))
    BY DEF ReadOf
  <2> QED
    BY <1>5, <2>1, <2>2 DEF HearLate, HasEnded
<1>6. CASE Finish
  <2>1. PICK stop \in BOOLEAN : \E e \in Ending(stop) : Publishes(Attribution \o <<e>>)
    BY <1>6 DEF Finish
  <2>2. PICK e \in Ending(stop) : Publishes(Attribution \o <<e>>)
    BY <2>1
  <2>3. /\ e \in {MemberSettled("completed"), MemberSettled("incomplete"),
                  MemberDied("cancelled"), MemberDied("provider"), MemberDied("condemned")}
        /\ ReadOf(e)
    BY <2>2 DEF Ending, Carried, ReadOf
  <2>4. e.kind \in {"member-died", "member-settled"} /\ e.turn = 0 /\ e.ref = Inline
    BY <2>3
  <2>5. Ended(Len(fell), e)
    BY <1>1, <1>6, <2>2, <2>4, EndsHeard DEF Finish
  <2> QED
    BY <1>6, <2>3, <2>5 DEF Finish, HasEnded
<1> QED
  BY <1>2, <1>3, <1>4, <1>5, <1>6

(* The steps that tell nothing and leave the turns alone.                   *)
HasMoved ==
    /\ UNCHANGED <<panel, histories, turns, fell, answer, journal, stream>>
    /\ \/ at = "start" /\ at' = "between" /\ UNCHANGED <<abort, member>>
       \/ at = "sink" /\ abort /\ at' = "broken" /\ UNCHANGED <<abort, member>>
       \/ at = "sink" /\ ~abort /\ Closed /\ at' = "between" /\ UNCHANGED <<abort, member>>
       \/ at = "sink" /\ ~abort /\ ~Closed /\ at' = "turn" /\ UNCHANGED <<abort, member>>
       \/ at \in {"between", "turn"} /\ at' = "lost" /\ UNCHANGED <<abort, member>>
       \/ /\ at \notin {"start", "never"} /\ UNCHANGED at
          /\ member = "live" /\ member' = "tearing" /\ abort' = TRUE

(* Every step is one of these.                                              *)
LEMMA JournalSteps ==
    ASSUME JournalTyped, JournalNext
    PROVE  \/ OpensTurn /\ MemberAlone
           \/ (\E h \in {"readable", "unreadable"} : HasBegun(h)) /\ MemberAlone
           \/ HasActed /\ MemberAlone
           \/ HasDecided /\ MemberAlone
           \/ HasSpoken /\ MemberAlone
           \/ HasClosed /\ MemberAlone
           \/ HasAnswered /\ MemberAlone
           \/ HasFallen /\ ToldNothing
           \/ HasNextJudge /\ ToldNothing
           \/ HasEnded
           \/ HasMoved
<1>1. CASE StartEngine \/ Check \/ Panic
  BY <1>1 DEF StartEngine, Check, Panic, HasMoved
<1>2. CASE Condemn
  BY <1>2 DEF Condemn, HasMoved, engine
<1>3. CASE \E h \in {"readable", "unreadable"} : Begin(h)
  BY <1>3, BeginIs
<1>4. CASE Unstartable \/ Finish \/ Lost \/ HearLate \/ GiveUp
  BY <1>4, EndsIs
<1> QED
  BY <1>1, <1>2, <1>3, <1>4, OpenTurnIs, ActsIs, DecideIs, SpeakIs, CloseIs, AnswersIs,
     FallThroughIs, NextJudgeIs, Zenon
     DEF JournalNext, Engine

LEMMA JournalStarts ==
    ASSUME JournalInit PROVE JournalInv
<1>1. Now = 0 /\ Len(stream) = 0 /\ DOMAIN stream = 1 .. 0 /\ IsASequence(stream)
  BY Short DEF JournalInit, Now, IsASequence
<1>2. PassedOver = {} /\ Outcomes = {} /\ Places("fallback-advanced") = {} /\ Len(fell) = 0
  BY <1>1 DEF PassedOver, Outcomes, Places, JournalInit
<1>3. JournalTyped
  <2>1. turns \in Seq(Seq(Attempt)) /\ fell \in Seq(Nat \X Nat) /\ \A k \in 1 .. Now : FALSE
    <3>1. turns = <<>> /\ fell = <<>>
      BY DEF JournalInit
    <3> QED
      BY <1>1, <3>1
  <2>2. /\ journal \in [pending : Nat, worker : Nat \X Nat, judge : Nat \X Nat]
        /\ journal.pending = None
    BY DEF JournalInit, Inline, None
  <2>3. EngineHasATurn
    BY <2>2, Zenon DEF JournalInit, EngineHasATurn
  <2>5. AnswerIsOfTheTurns
    <3>1. answer = [failed |-> FALSE, records |-> <<>>]
      BY DEF JournalInit
    <3> QED
      BY <3>1 DEF AnswerIsOfTheTurns
  <2>4. JournalTypes
    BY <1>1, <2>1, <2>2, Zenon DEF JournalInit, JournalTypes
  <2> QED
    BY <2>3, <2>4, <2>5 DEF JournalTyped
<1>4. TelemetryIsTheRecords /\ OpeningsInv /\ OutcomeInv /\ OutcomeAgreesWithRecords
  BY <1>1, <1>2 DEF JournalInit, TelemetryIsTheRecords, OpeningsInv, EventsOfTurns, OpenedBut,
     OutcomeInv, OutcomeAgreesWithRecords
<1>5. ReferencesInv
  BY <1>1 DEF JournalInit, ReferencesInv, ReferencesHold, JournalHolds
<1> QED
  BY <1>3, <1>4, <1>5 DEF JournalInv

(* The steps of the engine that tell something.                             *)
Engaged ==
    /\ at' \in {"sink", "sent"} /\ TurnsTyped' /\ fell' = fell
    /\ journal' \in [pending : Nat, worker : Nat \X Nat, judge : Nat \X Nat]
    /\ IsASequence(stream') /\ MemberAlone

LEMMA JournalTypesKept ==
    ASSUME JournalTyped, [JournalNext]_journalVars PROVE JournalTyped'
<1> USE DEF JournalTyped
<1>1. CASE UNCHANGED journalVars
  BY <1>1 DEF journalVars, engine, JournalTypes, EngineHasATurn, AnswerIsOfTheTurns, Invocations,
     Chair, IsASequence, Now, Last_
<1>0. ASSUME answer' = answer, at # "sent" \/ UNCHANGED <<at, panel, turns>>
      PROVE  AnswerIsOfTheTurns'
  BY <1>0 DEF AnswerIsOfTheTurns, Invocations, Chair, Now, Last_
<1>2. ASSUME Engaged, AnswerIsOfTheTurns', at # "start", at' = "sent" \/ Now' >= 1,
             journal'.pending \in {None, Now'}
      PROVE  JournalTyped'
  <2>1. JournalTypes'
    BY <1>2 DEF JournalTypes, TurnsTyped, Engaged, MemberAlone
  <2>2. EngineHasATurn'
    BY <1>2 DEF EngineHasATurn, Engaged, MemberAlone
  <2> QED
    BY <1>2, <2>1, <2>2
<1>3. CASE OpensTurn /\ MemberAlone
  <2>1. Now' >= 1
    BY <1>3, Lengths DEF OpensTurn
  <2>2. /\ Engaged /\ answer' = answer /\ at \notin {"start", "sent"} /\ at' = "sink"
        /\ journal'.pending = Now'
    BY <1>3 DEF Engaged, OpensTurn, JournalIs, Told, EngineHasATurn, JournalTypes
  <2> QED
    BY <1>0, <1>2, <2>1, <2>2
<1>4. ASSUME NEW w, NEW j, NEW a, NEW ref, NEW r, NEW e, Observes(w, j, a, ref, r, e), MemberAlone
      PROVE  JournalTyped'
  <2>1. /\ Engaged /\ Now' >= 1 /\ answer' = answer /\ at \notin {"start", "sent"} /\ at' = "sink"
        /\ journal'.pending = None
    BY <1>4 DEF Engaged, Observes, JournalIs, Told, EngineHasATurn, JournalTypes
  <2> QED
    BY <1>0, <1>2, <2>1
<1>5. CASE HasAnswered /\ MemberAlone
  <2>1. /\ Engaged /\ at # "start" /\ at' = "sent" /\ journal'.pending = None
    BY <1>5 DEF Engaged, HasAnswered, JournalIs, Told, EngineHasATurn, JournalTypes
  <2>2. Invocations' = Invocations
    BY <1>5 DEF HasAnswered, MemberAlone, Invocations, Chair, Now, Last_
  <2>3. AnswerIsOfTheTurns'
    BY <1>5, <2>2 DEF HasAnswered, AnswerIsOfTheTurns
  <2> QED
    BY <1>2, <2>1, <2>3
<1>6. CASE HasFallen /\ ToldNothing
  <2>1. fell' \in Seq(Nat \X Nat)
    <3>1. Here \in Nat \X Nat /\ fell \in Seq(Nat \X Nat) /\ fell' = Append(fell, Here)
      BY <1>6, Lengths DEF HasFallen, JournalTypes, EngineHasATurn, Here
    <3> QED
      BY <3>1, Appended
  <2>2. JournalTypes'
    BY <1>6, <2>1 DEF HasFallen, ToldNothing, JournalTypes, TurnsTyped, IsASequence
  <2>3. EngineHasATurn'
    BY <1>6 DEF HasFallen, ToldNothing, EngineHasATurn
  <2> QED
    BY <1>0, <1>6, <2>2, <2>3 DEF HasFallen, ToldNothing
<1>7. CASE HasNextJudge /\ ToldNothing
  <2>1. JournalTypes'
    BY <1>7 DEF HasNextJudge, ToldNothing, JournalTypes, TurnsTyped, IsASequence
  <2>2. EngineHasATurn'
    BY <1>7 DEF HasNextJudge, ToldNothing, EngineHasATurn
  <2> QED
    BY <1>0, <1>7, <2>1, <2>2 DEF HasNextJudge, ToldNothing
<1>8. CASE HasEnded
  <2>1. /\ IsASequence(stream') /\ member' = "done" /\ at' \in {at, "never"} /\ at' # "start"
        /\ at' = "never" => at = "start" \/ at = "never"
        /\ at' = at \/ at = "start"
        /\ UNCHANGED <<panel, histories, turns, fell, answer, journal, abort>>
    BY <1>8 DEF HasEnded, Ended, EngineHasATurn
  <2>2. JournalTypes'
    BY <2>1 DEF JournalTypes, Now, Last_
  <2>3. EngineHasATurn'
    BY <2>1 DEF EngineHasATurn, Now
  <2> QED
    BY <1>0, <2>1, <2>2, <2>3
<1>9. CASE HasMoved
  <2>1. JournalTypes'
    BY <1>9 DEF HasMoved, JournalTypes, Now, Last_, IsASequence
  <2>2. EngineHasATurn'
    BY <1>9 DEF HasMoved, EngineHasATurn, Now
  <2>3. answer' = answer /\ (at # "sent" \/ UNCHANGED <<at, panel, turns>>)
    BY <1>9 DEF HasMoved
  <2> QED
    BY <1>0, <2>1, <2>2, <2>3
<1>10. CASE JournalNext
  BY <1>3, <1>4, <1>5, <1>6, <1>7, <1>8, <1>9, <1>10, JournalSteps
     DEF HasBegun, HasActed, HasDecided, HasSpoken, HasClosed
<1> QED
  BY <1>1, <1>10

-----------------------------------------------------------------------------
(* The telemetry.                                                           *)

(* Whose record says it was passed over.                                    *)
FellAt(k, j) == turns[k][j].record = "fell"

RunnersHold ==
    \A k \in 1 .. Now : \A j \in 1 .. Last_(k) : FellAt(k, j) <=> ~Chair(k) /\ j # Last_(k)

(* Of turns that may be those of the next state.                            *)
PassedOverIn(t) == {c \in (1 .. Len(t)) \X (1 .. Candidates) :
                      c[2] <= Len(t[c[1]]) /\ t[c[1]][c[2]].record = "fell"}

LEMMA PassedOverIs ==
    ASSUME NEW t, Len(t) \in Nat, \A k \in 1 .. Len(t) : Len(t[k]) \in 1 .. Candidates, NEW c
    PROVE  c \in PassedOverIn(t) <=>
             /\ c \in Nat \X Nat /\ c[1] \in 1 .. Len(t) /\ c[2] \in 1 .. Len(t[c[1]])
             /\ t[c[1]][c[2]].record = "fell"
<1>1. ASSUME c \in PassedOverIn(t)
      PROVE  /\ c \in Nat \X Nat /\ c[1] \in 1 .. Len(t) /\ c[2] \in 1 .. Len(t[c[1]])
             /\ t[c[1]][c[2]].record = "fell"
  <2>1. /\ c \in (1 .. Len(t)) \X (1 .. Candidates) /\ c[2] <= Len(t[c[1]])
        /\ t[c[1]][c[2]].record = "fell"
    BY <1>1 DEF PassedOverIn
  <2> QED
    BY <2>1, JournalAssumption
<1>2. ASSUME /\ c \in Nat \X Nat /\ c[1] \in 1 .. Len(t) /\ c[2] \in 1 .. Len(t[c[1]])
             /\ t[c[1]][c[2]].record = "fell"
      PROVE  c \in PassedOverIn(t)
  <2>1. c[2] \in 1 .. Candidates /\ c[2] <= Len(t[c[1]]) /\ c = <<c[1], c[2]>>
    BY <1>2, JournalAssumption
  <2>2. c \in (1 .. Len(t)) \X (1 .. Candidates)
    BY <1>2, <2>1
  <2> QED
    BY <1>2, <2>1, <2>2 DEF PassedOverIn
<1> QED
  BY <1>1, <1>2

PassedAt(c) ==
    /\ c \in Nat \X Nat /\ c[1] \in 1 .. Now /\ c[2] \in 1 .. Last_(c[1])
    /\ FellAt(c[1], c[2])

LEMMA PassedOverNow ==
    ASSUME JournalTypes PROVE \A c : c \in PassedOver <=> PassedAt(c)
<1>1. /\ Len(turns) \in Nat /\ \A k \in 1 .. Len(turns) : Len(turns[k]) \in 1 .. Candidates
      /\ PassedOver = PassedOverIn(turns)
  BY Lengths DEF JournalTypes, Now, Last_, PassedOver, PassedOverIn
<1> QED
  BY <1>1, PassedOverIs, Zenon DEF PassedAt, Now, Last_, FellAt

LEMMA PassedOverNext ==
    ASSUME TurnsTyped' PROVE \A c : c \in PassedOver' <=> PassedAt(c)'
<1>1. /\ Len(turns') \in Nat /\ \A k \in 1 .. Len(turns') : Len(turns'[k]) \in 1 .. Candidates
      /\ PassedOver' = PassedOverIn(turns')
  BY DEF TurnsTyped, Now, Last_, PassedOver, PassedOverIn
<1> QED
  BY <1>1, PassedOverIs, Zenon DEF PassedAt, Now, Last_, FellAt

(* The same candidates fell, if those of the turns there were did and no    *)
(* new one has.                                                             *)
SameFell ==
    /\ \A k \in 1 .. Now : \A j \in 1 .. Last_(k) : j <= Last_(k)' /\ (FellAt(k, j) <=> FellAt(k, j)')
    /\ \A k \in 1 .. Now' : \A j \in 1 .. Last_(k)' :
         FellAt(k, j)' => k <= Now /\ j <= Last_(k)

LEMMA PassedOverSame ==
    ASSUME JournalTypes, TurnsTyped', Now' \in Nat, Now' >= Now, SameFell
    PROVE  PassedOver' = PassedOver
<1>1. Now \in Nat /\ \A k \in 1 .. Now : Last_(k) \in Nat
  BY Lengths
<1>2. \A k \in 1 .. Now' : Last_(k)' \in Nat
  BY JournalAssumption DEF TurnsTyped
<1>3. ASSUME NEW c, PassedAt(c) PROVE PassedAt(c)'
  <2>1. c[2] <= Last_(c[1])' /\ FellAt(c[1], c[2])' /\ c[1] \in 1 .. Now'
    BY <1>1, <1>3 DEF SameFell, PassedAt
  <2>2. c[2] \in 1 .. Last_(c[1])'
    BY <1>1, <1>2, <1>3, <2>1 DEF PassedAt
  <2> QED
    BY <1>3, <2>1, <2>2 DEF PassedAt
<1>4. ASSUME NEW c, PassedAt(c)' PROVE PassedAt(c)
  <2>1. c[1] <= Now /\ c[2] <= Last_(c[1])
    BY <1>4 DEF SameFell, PassedAt
  <2>2. c[1] \in 1 .. Now /\ c[2] \in 1 .. Last_(c[1])
    BY <1>1, <1>4, <2>1 DEF PassedAt
  <2> QED
    BY <1>4, <2>2 DEF SameFell, PassedAt
<1>5. \A c : c \in PassedOver' <=> c \in PassedOver
  BY <1>3, <1>4, PassedOverNow, PassedOverNext
<1> QED
  BY <1>5 DEF PassedOver

LEMMA RunnersAre ==
    ASSUME JournalTyped
    PROVE  TelemetryIsTheRecords <=>
             /\ \A i \in 1 .. Len(fell) : fell[i] \in PassedOver
             /\ \A c \in PassedOver : \E i \in 1 .. Len(fell) : fell[i] = c
             /\ \A i, j \in 1 .. Len(fell) : i < j => Earlier(fell[i], fell[j])
             /\ RunnersHold
BY DEF TelemetryIsTheRecords, RunnersHold, FellAt

(* Chair, of a supervisor that is a panel as it was.                        *)
LEMMA ChairsStay ==
    ASSUME UNCHANGED panel PROVE \A k : Chair(k)' <=> Chair(k)
BY DEF Chair, Party

LEMMA FellAlone ==
    ASSUME JournalTyped, RunnersHold, UNCHANGED <<panel, turns>>
    PROVE  SameFell /\ RunnersHold'
<1>1. Now \in Nat /\ \A k \in 1 .. Now : Last_(k) \in Nat
  BY Lengths DEF JournalTyped
<1>2. Now' = Now /\ \A k : Last_(k)' = Last_(k) /\ \A j : FellAt(k, j)' <=> FellAt(k, j)
  BY DEF Now, Last_, FellAt
<1> QED
  BY <1>1, <1>2, ChairsStay DEF SameFell, RunnersHold

LEMMA FellMarked ==
    ASSUME JournalTyped, RunnersHold, UNCHANGED panel, Now >= 1,
           NEW a, a.record # "fell", NEW r \in {0, 1}, r = 1 => Chair(Now),
           RunnerIs(a, r), TurnsTyped'
    PROVE  SameFell /\ RunnersHold'
<1>0. PICK n, m : n = Now /\ m = Last_(Now)
  OBVIOUS
<1>1. /\ Now \in Nat /\ \A k \in 1 .. Now : Last_(k) \in Nat
      /\ n \in 1 .. Now /\ m \in 1 .. m /\ m \in Nat /\ Now' = Now
      /\ Last_(n) = m /\ Last_(n)' = m + r
  BY <1>0, Lengths DEF JournalTyped, RunnerIs, Last_
<1>2. ~FellAt(n, m) /\ ~FellAt(n, m)'
  <2>1. turns'[n][m] = a
    BY <1>0, <1>1 DEF RunnerIs
  <2> QED
    BY <1>0, <1>1, <2>1 DEF RunnersHold, FellAt
<1>3. ASSUME NEW k \in 1 .. Now, k # n
      PROVE  Last_(k)' = Last_(k) /\ \A j : FellAt(k, j)' <=> FellAt(k, j)
  BY <1>0, <1>3 DEF RunnerIs, Last_, FellAt
<1>4. ASSUME NEW j \in 1 .. m PROVE FellAt(n, j)' <=> FellAt(n, j)
  <2>1. CASE j = m
    BY <1>2, <2>1
  <2>2. CASE j # m
    <3>1. turns'[n][j] = turns[n][j]
      BY <1>0, <1>1, <2>2 DEF RunnerIs
    <3> QED
      BY <3>1 DEF FellAt
  <2> QED
    BY <2>1, <2>2
<1>5. r = 1 => ~FellAt(n, m + 1)'
  <2>1. r = 1 => turns'[n][m + 1] = Fresh
    BY <1>0 DEF RunnerIs
  <2> QED
    BY <2>1 DEF FellAt, Fresh
<1>6. ASSUME NEW j \in 1 .. m + r PROVE j \in 1 .. m \/ (r = 1 /\ j = m + 1)
  BY <1>1
<1>7. SameFell
  <2>1. ASSUME NEW k \in 1 .. Now, NEW j \in 1 .. Last_(k)
        PROVE  j <= Last_(k)' /\ (FellAt(k, j) <=> FellAt(k, j)')
    <3>1. CASE k = n
      BY <1>1, <1>4, <3>1
    <3>2. CASE k # n
      BY <1>1, <1>3, <3>2
    <3> QED
      BY <3>1, <3>2
  <2>2. ASSUME NEW k \in 1 .. Now', NEW j \in 1 .. Last_(k)', FellAt(k, j)'
        PROVE  k <= Now /\ j <= Last_(k)
    <3>1. CASE k = n
      BY <1>1, <1>5, <1>6, <2>2, <3>1
    <3>2. CASE k # n
      BY <1>1, <1>3, <2>2, <3>2
    <3> QED
      BY <3>1, <3>2
  <2> QED
    BY <2>1, <2>2 DEF SameFell
<1>8. RunnersHold'
  <2>1. ASSUME NEW k \in 1 .. Now', NEW j \in 1 .. Last_(k)'
        PROVE  FellAt(k, j)' <=> ~Chair(k)' /\ j # Last_(k)'
    <3>1. CASE k # n
      BY <1>1, <1>3, <3>1, ChairsStay DEF RunnersHold
    <3>2. CASE k = n /\ r = 0
      BY <1>0, <1>1, <1>4, <1>6, <3>2, ChairsStay DEF RunnersHold
    <3>3. CASE k = n /\ r = 1
      BY <1>0, <1>1, <1>4, <1>5, <1>6, <3>3, ChairsStay DEF RunnersHold
    <3> QED
      BY <3>1, <3>2, <3>3
  <2> QED
    BY <2>1 DEF RunnersHold
<1> QED
  BY <1>7, <1>8

LEMMA FellOpened ==
    ASSUME JournalTyped, RunnersHold, UNCHANGED panel, OpensTurn
    PROVE  SameFell /\ RunnersHold'
<1>1. PICK n : n = Now + 1
  OBVIOUS
<1>2. /\ Now \in Nat /\ \A k \in 1 .. Now : Last_(k) \in Nat
      /\ Now' = n /\ n = Now + 1 /\ Last_(n)' = 1
  BY <1>1, Lengths DEF JournalTyped, OpensTurn, Last_
<1>3. ~FellAt(n, 1)'
  <2>1. turns'[n][1] = Fresh
    BY <1>2 DEF OpensTurn, Runner, Last_
  <2> QED
    BY <2>1 DEF FellAt, Fresh
<1>4. ASSUME NEW k \in 1 .. Now
      PROVE  Last_(k)' = Last_(k) /\ \A j : FellAt(k, j)' <=> FellAt(k, j)
  BY DEF OpensTurn, Last_, FellAt
<1>5. ASSUME NEW k \in 1 .. Now', NEW j \in 1 .. Last_(k)', ~ (k \in 1 .. Now)
      PROVE  k = n /\ j = 1
  BY <1>2, <1>5
<1>6. SameFell
  <2>1. ASSUME NEW k \in 1 .. Now, NEW j \in 1 .. Last_(k)
        PROVE  j <= Last_(k)' /\ (FellAt(k, j) <=> FellAt(k, j)')
    BY <1>2, <1>4
  <2>2. ASSUME NEW k \in 1 .. Now', NEW j \in 1 .. Last_(k)', FellAt(k, j)'
        PROVE  k <= Now /\ j <= Last_(k)
    <3>1. k \in 1 .. Now
      BY <1>2, <1>3, <1>5, <2>2
    <3> QED
      BY <1>2, <1>4, <3>1
  <2> QED
    BY <2>1, <2>2 DEF SameFell
<1>7. RunnersHold'
  <2>1. ASSUME NEW k \in 1 .. Now', NEW j \in 1 .. Last_(k)'
        PROVE  FellAt(k, j)' <=> ~Chair(k)' /\ j # Last_(k)'
    <3>1. CASE k \in 1 .. Now
      BY <1>4, <3>1, ChairsStay DEF RunnersHold
    <3>2. CASE ~ (k \in 1 .. Now)
      BY <1>2, <1>3, <1>5, <3>2
    <3> QED
      BY <3>1, <3>2
  <2> QED
    BY <2>1 DEF RunnersHold
<1> QED
  BY <1>6, <1>7

(* Passing a candidate over adds it, and it is the last that was tried.     *)
LEMMA FellOver ==
    ASSUME JournalTyped, TelemetryIsTheRecords, UNCHANGED panel, HasFallen
    PROVE  TelemetryIsTheRecords'
<1>0. PICK n, m, here : n = Now /\ m = Last_(Now) /\ here = Here
  OBVIOUS
<1>1. /\ Now \in Nat /\ \A k \in 1 .. Now : Last_(k) \in Nat
      /\ n \in 1 .. Now /\ m \in 1 .. m /\ m \in Nat /\ Now' = Now /\ Now >= 1
      /\ Last_(n) = m /\ Last_(n)' = m + 1 /\ here = <<n, m>> /\ ~Chair(n) /\ ~FellAt(n, m)
  <2>1. Now >= 1 /\ turns[Now][Last_(Now)].record = "none" /\ ~Chair(Now)
    BY DEF HasFallen, JournalTyped, EngineHasATurn, Runner
  <2> QED
    BY <1>0, <2>1, Lengths DEF HasFallen, JournalTyped, RunnerIs, Last_, Here, FellAt
<1>2. FellAt(n, m)' /\ ~FellAt(n, m + 1)'
  <2>1. turns'[n][m] = [Runner EXCEPT !.record = "fell"] /\ turns'[n][m + 1] = Fresh
    BY <1>0, <1>1 DEF HasFallen, RunnerIs
  <2>2. Runner \in Attempt
    BY <1>1, Lengths DEF JournalTyped
  <2> QED
    BY <2>1, <2>2 DEF FellAt, Fresh, Attempt
<1>3. ASSUME NEW k \in 1 .. Now, k # n
      PROVE  Last_(k)' = Last_(k) /\ \A j : FellAt(k, j)' <=> FellAt(k, j)
  BY <1>0, <1>3 DEF HasFallen, RunnerIs, Last_, FellAt
<1>4. ASSUME NEW j \in 1 .. m, j # m PROVE FellAt(n, j)' <=> FellAt(n, j)
  <2>1. turns'[n][j] = turns[n][j]
    BY <1>0, <1>1, <1>4 DEF HasFallen, RunnerIs
  <2> QED
    BY <2>1 DEF FellAt
<1>5. ASSUME NEW j \in 1 .. m + 1 PROVE (j \in 1 .. m /\ j # m) \/ j = m \/ j = m + 1
  BY <1>1
<1>6. RunnersHold /\ RunnersHold'
  <2>1. RunnersHold
    BY RunnersAre
  <2>2. ASSUME NEW k \in 1 .. Now', NEW j \in 1 .. Last_(k)'
        PROVE  FellAt(k, j)' <=> ~Chair(k)' /\ j # Last_(k)'
    <3>1. CASE k # n
      BY <1>1, <1>3, <2>1, <3>1, ChairsStay DEF RunnersHold
    <3>2. CASE k = n
      BY <1>1, <1>2, <1>4, <1>5, <2>1, <3>2, ChairsStay DEF RunnersHold
    <3> QED
      BY <3>1, <3>2
  <2> QED
    BY <2>1, <2>2 DEF RunnersHold
<1>7. ASSUME NEW c PROVE PassedAt(c)' <=> PassedAt(c) \/ c = here
  <2>1. ASSUME c = here PROVE PassedAt(c)'
    <3>1. c \in Nat \X Nat /\ c[1] = n /\ c[2] = m /\ m \in 1 .. m + 1
      BY <1>1, <2>1
    <3> QED
      BY <1>1, <1>2, <3>1 DEF PassedAt
  <2>2. ASSUME PassedAt(c), c # here PROVE PassedAt(c)'
    <3>1. CASE c[1] # n
      BY <1>1, <1>3, <2>2, <3>1 DEF PassedAt
    <3>2. CASE c[1] = n
      <4>1. c[2] \in 1 .. m /\ c[2] # m
        BY <1>1, <2>2, <3>2 DEF PassedAt
      <4> QED
        BY <1>1, <1>4, <2>2, <3>2, <4>1 DEF PassedAt
    <3> QED
      BY <3>1, <3>2
  <2>3. ASSUME PassedAt(c)', c # here PROVE PassedAt(c)
    <3>1. CASE c[1] # n
      BY <1>1, <1>3, <2>3, <3>1 DEF PassedAt
    <3>2. CASE c[1] = n
      <4>1. c[2] \in 1 .. m + 1 /\ c = <<c[1], c[2]>> /\ FellAt(n, c[2])'
        BY <1>1, <2>3, <3>2 DEF PassedAt
      <4>2. c[2] \in 1 .. m /\ c[2] # m
        BY <1>1, <1>2, <1>5, <2>3, <3>2, <4>1
      <4> QED
        BY <1>1, <1>4, <2>3, <3>2, <4>1, <4>2 DEF PassedAt
    <3> QED
      BY <3>1, <3>2
  <2>4. ASSUME PassedAt(c) PROVE c # here
    BY <1>1, <2>4 DEF PassedAt
  <2> QED
    BY <2>1, <2>2, <2>3, <2>4
<1>8. \A c : c \in PassedOver' <=> c \in PassedOver \/ c = here
  BY <1>7, PassedOverNow, PassedOverNext DEF HasFallen, JournalTyped
<1>9. /\ Len(fell) \in Nat /\ Len(fell') = Len(fell) + 1
      /\ \A i \in 1 .. Len(fell) : fell'[i] = fell[i]
      /\ fell'[Len(fell) + 1] = here
  <2>1. fell \in Seq(Nat \X Nat) /\ here \in Nat \X Nat /\ fell' = Append(fell, here)
    BY <1>0, <1>1 DEF JournalTyped, JournalTypes, HasFallen
  <2> QED
    BY <2>1, Appended
<1>10. ASSUME NEW c \in PassedOver PROVE Earlier(c, here)
  <2>1. PassedAt(c)
    BY <1>10, PassedOverNow DEF JournalTyped
  <2> QED
    BY <1>0, <1>1, <2>1 DEF PassedAt, Earlier
<1>11. \A i \in 1 .. Len(fell') : fell'[i] \in PassedOver'
  BY <1>8, <1>9 DEF TelemetryIsTheRecords
<1>12. \A c \in PassedOver' : \E i \in 1 .. Len(fell') : fell'[i] = c
  BY <1>8, <1>9 DEF TelemetryIsTheRecords
<1>13. \A i, j \in 1 .. Len(fell') : i < j => Earlier(fell'[i], fell'[j])
  BY <1>9, <1>10 DEF TelemetryIsTheRecords
<1>14. \A k \in 1 .. Now' : \A j \in 1 .. Last_(k)' :
         turns'[k][j].record = "fell" <=> ~Chair(k)' /\ j # Last_(k)'
  BY <1>6, Zenon DEF RunnersHold, FellAt
<1> QED
  BY <1>11, <1>12, <1>13, <1>14, Zenon DEF TelemetryIsTheRecords, Earlier

LEMMA TelemetryStays ==
    ASSUME JournalTyped, TelemetryIsTheRecords, UNCHANGED <<panel, fell>>,
           TurnsTyped', TurnsGrow, SameFell, RunnersHold'
    PROVE  TelemetryIsTheRecords' /\ PassedOver' = PassedOver
<1>1. PassedOver' = PassedOver
  BY PassedOverSame, Lengths DEF JournalTyped, TurnsTyped, TurnsGrow, Now
<1>2. \A k \in 1 .. Now' : \A j \in 1 .. Last_(k)' :
         turns'[k][j].record = "fell" <=> ~Chair(k)' /\ j # Last_(k)'
  BY Zenon DEF RunnersHold, FellAt
<1>3. /\ \A i \in 1 .. Len(fell') : fell'[i] \in PassedOver'
      /\ \A c \in PassedOver' : \E i \in 1 .. Len(fell') : fell'[i] = c
  BY <1>1, Zenon DEF TelemetryIsTheRecords
<1>4. \A i, j \in 1 .. Len(fell') : i < j => Earlier(fell'[i], fell'[j])
  BY Zenon DEF TelemetryIsTheRecords
<1> QED
  BY <1>1, <1>2, <1>3, <1>4, Zenon DEF TelemetryIsTheRecords, Earlier

LEMMA RunnerNotFell ==
    ASSUME JournalTyped, TelemetryIsTheRecords, Now >= 1
    PROVE  RunnersHold /\ Runner.record # "fell" /\ Runner \in Attempt
<1>1. RunnersHold
  BY RunnersAre
<1>2. Now \in 1 .. Now /\ Last_(Now) \in 1 .. Last_(Now) /\ Runner \in Attempt
  BY Lengths DEF JournalTyped
<1>3. ~FellAt(Now, Last_(Now))
  BY <1>1, <1>2 DEF RunnersHold
<1> QED
  BY <1>1, <1>2, <1>3 DEF FellAt, Runner

(* What a step makes of the telemetry: only a candidate passed over changes *)
(* who was.                                                                 *)
LEMMA TelemetryKept ==
    ASSUME JournalTyped, TelemetryIsTheRecords, [JournalNext]_journalVars
    PROVE  TelemetryIsTheRecords' /\ (PassedOver' = PassedOver \/ at = "turn")
<1>1. RunnersHold
  BY RunnersAre
<1>2. ASSUME UNCHANGED <<panel, turns, fell>>
      PROVE  TelemetryIsTheRecords' /\ PassedOver' = PassedOver
  <2>1. JournalTypes
    BY DEF JournalTyped
  <2>2. TurnsTyped' /\ TurnsGrow
    BY <1>2, <2>1, TurnsAlone
  <2> QED
    BY <1>1, <1>2, <2>2, FellAlone, TelemetryStays
<1>3. ASSUME NEW r, Records(r), r # "fell", UNCHANGED <<panel, fell>>, Now >= 1, TurnsTyped', TurnsGrow
      PROVE  TelemetryIsTheRecords'
  <2>1. PICK a, z : a = [Runner EXCEPT !.record = r] /\ z = 0 /\ z \in {0, 1}
    OBVIOUS
  <2>2. a.record # "fell" /\ RunnerIs(a, z) /\ (z = 1 => Chair(Now))
    BY <1>3, <2>1, RunnerNotFell DEF Records, Attempt
  <2>3. SameFell /\ RunnersHold'
    BY <1>1, <1>3, <2>1, <2>2, FellMarked, Zenon
  <2> QED
    BY <1>3, <2>3, TelemetryStays
<1>4. CASE UNCHANGED journalVars
  BY <1>2, <1>4 DEF journalVars, engine
<1>5. CASE OpensTurn /\ MemberAlone
  BY <1>1, <1>5, FellOpened, TelemetryStays DEF MemberAlone, OpensTurn
<1>6. CASE (\E h \in {"readable", "unreadable"} : HasBegun(h)) /\ MemberAlone
  <2>1. PICK h : HasBegun(h)
    BY <1>6
  <2>2. PICK a, z : a = [Fresh EXCEPT !.history = h] /\ z = 0 /\ z \in {0, 1}
    OBVIOUS
  <2>3. /\ a.record # "fell" /\ RunnerIs(a, z) /\ (z = 1 => Chair(Now)) /\ Now >= 1
        /\ at = "turn" /\ UNCHANGED <<panel, fell>> /\ TurnsTyped' /\ TurnsGrow
    BY <1>6, <2>1, <2>2 DEF HasBegun, Observes, Fresh, MemberAlone, JournalTyped, EngineHasATurn
  <2>4. SameFell /\ RunnersHold'
    BY <1>1, <2>2, <2>3, FellMarked, Zenon
  <2> QED
    BY <2>3, <2>4, TelemetryStays
<1>7. CASE HasActed /\ MemberAlone
  <2>1. /\ Now >= 1 /\ at = "turn" /\ UNCHANGED <<panel, fell>> /\ TurnsTyped' /\ TurnsGrow
    BY <1>7 DEF HasActed, Observes, MemberAlone, JournalTyped, EngineHasATurn
  <2>2. CASE UNCHANGED turns
    BY <1>2, <2>1, <2>2
  <2>3. CASE RunnerIs([Runner EXCEPT !.acted = TRUE], 0)
    <3>1. PICK a, z : a = [Runner EXCEPT !.acted = TRUE] /\ z = 0 /\ z \in {0, 1}
      OBVIOUS
    <3>2. a.record # "fell" /\ RunnerIs(a, z) /\ (z = 1 => Chair(Now))
      BY <2>1, <2>3, <3>1, RunnerNotFell DEF Attempt
    <3>3. SameFell /\ RunnersHold'
      BY <1>1, <2>1, <3>1, <3>2, FellMarked, Zenon
    <3> QED
      BY <2>1, <3>3, TelemetryStays
  <2> QED
    BY <1>7, <2>2, <2>3 DEF HasActed
<1>8. CASE HasDecided /\ MemberAlone
  BY <1>3, <1>8 DEF HasDecided, Observes, MemberAlone, JournalTyped, EngineHasATurn
<1>9. CASE HasSpoken /\ MemberAlone
  BY <1>2, <1>3, <1>9 DEF HasSpoken, Observes, MemberAlone, JournalTyped, EngineHasATurn
<1>10. CASE HasClosed /\ MemberAlone
  BY <1>2, <1>10 DEF HasClosed, Observes, MemberAlone
<1>11. CASE HasAnswered /\ MemberAlone
  BY <1>2, <1>11 DEF HasAnswered, MemberAlone
<1>12. CASE HasFallen /\ ToldNothing
  BY <1>12, FellOver DEF ToldNothing, HasFallen
<1>13. CASE HasNextJudge /\ ToldNothing
  <2>1. PICK a, z : a = Runner /\ z = 1 /\ z \in {0, 1}
    OBVIOUS
  <2>2. /\ RunnerIs(a, z) /\ Chair(Now) /\ Now >= 1 /\ UNCHANGED <<panel, fell>>
        /\ TurnsTyped' /\ TurnsGrow
    BY <1>13, <2>1 DEF HasNextJudge, ToldNothing, JournalTyped, EngineHasATurn
  <2>3. a.record # "fell"
    BY <2>1, <2>2, RunnerNotFell
  <2>4. SameFell /\ RunnersHold'
    BY <1>1, <2>1, <2>2, <2>3, FellMarked, Zenon
  <2> QED
    BY <1>13, <2>2, <2>4, TelemetryStays DEF HasNextJudge
<1>14. CASE HasEnded
  BY <1>2, <1>14 DEF HasEnded, Ended
<1>15. CASE HasMoved
  BY <1>2, <1>15 DEF HasMoved
<1> QED
  BY <1>4, <1>5, <1>6, <1>7, <1>8, <1>9, <1>10, <1>11, <1>12, <1>13, <1>14, <1>15, JournalSteps, Zenon

-----------------------------------------------------------------------------
(* The openings.                                                            *)

(* Nothing else is on the stream by then; n events were.                    *)
ToldOnly(n, a, ref, r, e) ==
    \A i \in 1 .. Len(stream') :
       \/ i \in 1 .. n /\ stream'[i] = stream[i]
       \/ a = 1 /\ i = n + 1 /\ stream'[i] = OneharnessSession(Here)
       \/ Flushed = 1 /\ i = n + a + 1 /\ stream'[i] = TurnStarted(journal.pending, ref)
       \/ r = 1 /\ i = n + a + Flushed + 1 /\ stream'[i] = e

LEMMA ToldWhere ==
    ASSUME JournalTyped, NEW a \in {0, 1}, NEW ref, NEW r \in {0, 1}, NEW e, Told(a, ref, r, e)
    PROVE  /\ Len(stream) \in Nat /\ Flushed \in {0, 1} /\ Len(stream') \in Nat
           /\ ToldOnly(Len(stream), a, ref, r, e)
<1>1. Len(stream) \in Nat /\ Flushed \in {0, 1}
  BY Lengthened DEF JournalTyped, JournalTypes, Flushed
<1>2. Len(stream') = Len(stream) + a + Flushed + r
  BY DEF Told
<1>3. ASSUME NEW i \in 1 .. Len(stream')
      PROVE  \/ i \in 1 .. Len(stream)
             \/ a = 1 /\ i = Len(stream) + 1
             \/ Flushed = 1 /\ i = Len(stream) + a + 1
             \/ r = 1 /\ i = Len(stream) + a + Flushed + 1
  BY <1>1, <1>2
<1>4. ASSUME NEW i \in 1 .. Len(stream')
      PROVE  \/ i \in 1 .. Len(stream) /\ stream'[i] = stream[i]
             \/ a = 1 /\ i = Len(stream) + 1 /\ stream'[i] = OneharnessSession(Here)
             \/ /\ Flushed = 1 /\ i = Len(stream) + a + 1
                /\ stream'[i] = TurnStarted(journal.pending, ref)
             \/ r = 1 /\ i = Len(stream) + a + Flushed + 1 /\ stream'[i] = e
  BY <1>3 DEF Told
<1> QED
  BY <1>1, <1>2, <1>4 DEF ToldOnly

OpenedAt(k) ==
    \E j \in 1 .. Len(stream) :
        /\ stream[j].kind = "turn-started" /\ stream[j].turn = k
        /\ \A i \in 1 .. Len(stream) :
             stream[i].turn = k /\ stream[i].kind \notin Telling =>
                 j <= i /\ (stream[i].kind = "turn-started" => i = j)

UnopenedAt(k) == \A i \in 1 .. Len(stream) : stream[i].turn = k => stream[i].kind \in Telling

(* What the engine tells opens what was pending before it says more of it.  *)
LEMMA TellingOpens ==
    ASSUME JournalTyped, OpeningsInv,
           NEW a \in {0, 1}, NEW ref, NEW r \in {0, 1}, NEW e, Told(a, ref, r, e),
           r = 1 => /\ e.turn = Now /\ e.kind \notin Telling /\ e.kind # "turn-started"
    PROVE  /\ \A i \in 1 .. Len(stream') : stream'[i].turn \in 0 .. Now
           /\ \A k \in 1 .. Now : OpenedAt(k)'
<1>1. PICK n : n = Len(stream)
  OBVIOUS
<1>2. /\ n \in Nat /\ Flushed \in {0, 1} /\ Len(stream') \in Nat /\ Now \in Nat
      /\ Len(stream') = n + a + Flushed + r
      /\ \A i \in 1 .. n : i \in 1 .. Len(stream') /\ stream'[i] = stream[i]
      /\ \A i \in 1 .. Len(stream') :
           \/ i \in 1 .. n /\ stream'[i] = stream[i]
           \/ a = 1 /\ i = n + 1 /\ stream'[i] = OneharnessSession(Here)
           \/ Flushed = 1 /\ i = n + a + 1 /\ stream'[i] = TurnStarted(journal.pending, ref)
           \/ r = 1 /\ i = n + a + Flushed + 1 /\ stream'[i] = e
  <2>1. /\ Len(stream') = n + a + Flushed + r /\ n \in Nat /\ Flushed \in {0, 1} /\ Now \in Nat
        /\ \A i \in 1 .. n : stream'[i] = stream[i]
    BY <1>1, ToldWhere, Lengths DEF Told, JournalTyped
  <2>2. \A i \in 1 .. n : i \in 1 .. Len(stream')
    BY <2>1
  <2>3. ToldOnly(n, a, ref, r, e)
    BY <1>1, ToldWhere, Zenon
  <2>4. Len(stream') \in Nat
    BY <2>1
  <2> QED
    BY <1>1, <2>1, <2>2, <2>3, <2>4, Zenon DEF ToldOnly
<1>3. /\ OneharnessSession(Here).turn = Now /\ OneharnessSession(Here).kind \in Telling
      /\ TurnStarted(journal.pending, ref).turn = journal.pending
      /\ TurnStarted(journal.pending, ref).kind = "turn-started"
      /\ "turn-started" \notin Telling
  BY DEF OneharnessSession, TurnStarted, Event, Here, Telling
<1>4. journal.pending \in {0, Now} /\ (Flushed = 1 <=> journal.pending # 0)
  BY DEF JournalTyped, EngineHasATurn, None, Flushed
<1>5. ASSUME NEW i \in 1 .. Len(stream') PROVE stream'[i].turn \in 0 .. Now
  BY <1>1, <1>2, <1>3, <1>4 DEF OpeningsInv, EventsOfTurns
<1>6. ASSUME NEW k \in 1 .. Now PROVE OpenedAt(k)'
  <2>1. CASE k = journal.pending
    <3>1. Flushed = 1 /\ UnopenedAt(k)
      BY <1>2, <1>4, <2>1 DEF OpeningsInv, OpenedBut, UnopenedAt
    <3>2. PICK j : j = n + a + 1
      OBVIOUS
    <3>3. j \in 1 .. Len(stream') /\ stream'[j] = TurnStarted(journal.pending, ref)
      BY <1>1, <1>2, <3>1, <3>2 DEF Told
    <3>4. ASSUME NEW i \in 1 .. Len(stream'), stream'[i].turn = k, stream'[i].kind \notin Telling
          PROVE  j <= i /\ (stream'[i].kind = "turn-started" => i = j)
      <4>1. CASE i \in 1 .. n /\ stream'[i] = stream[i]
        BY <1>1, <3>1, <3>4, <4>1 DEF UnopenedAt
      <4>2. CASE stream'[i] = OneharnessSession(Here)
        BY <1>3, <3>4, <4>2
      <4>3. CASE i = n + a + 1
        BY <1>2, <3>2, <4>3
      <4>4. CASE r = 1 /\ i = n + a + Flushed + 1 /\ stream'[i] = e
        BY <1>2, <3>1, <3>2, <4>4
      <4> QED
        BY <1>2, <4>1, <4>2, <4>3, <4>4
    <3> QED
      BY <1>3, <2>1, <3>3, <3>4 DEF OpenedAt
  <2>2. CASE k # journal.pending
    <3>1. OpenedAt(k)
      BY <2>2 DEF OpeningsInv, OpenedBut, OpenedAt
    <3>2. PICK j \in 1 .. n :
             /\ stream[j].kind = "turn-started" /\ stream[j].turn = k
             /\ \A i \in 1 .. n :
                  stream[i].turn = k /\ stream[i].kind \notin Telling =>
                      j <= i /\ (stream[i].kind = "turn-started" => i = j)
      BY <1>1, <3>1 DEF OpenedAt
    <3>3. j \in 1 .. Len(stream') /\ stream'[j] = stream[j]
      BY <1>2
    <3>4. ASSUME NEW i \in 1 .. Len(stream'), stream'[i].turn = k, stream'[i].kind \notin Telling
          PROVE  j <= i /\ (stream'[i].kind = "turn-started" => i = j)
      <4>1. CASE i \in 1 .. n /\ stream'[i] = stream[i]
        BY <3>2, <3>4, <4>1
      <4>2. CASE stream'[i] = OneharnessSession(Here)
        BY <1>3, <3>4, <4>2
      <4>3. CASE stream'[i] = TurnStarted(journal.pending, ref)
        BY <1>3, <2>2, <3>4, <4>3
      <4>4. CASE r = 1 /\ i = n + a + Flushed + 1 /\ stream'[i] = e
        BY <1>2, <4>4
      <4> QED
        BY <1>2, <4>1, <4>2, <4>3, <4>4
    <3> QED
      BY <3>2, <3>3, <3>4 DEF OpenedAt
  <2> QED
    BY <2>1, <2>2
<1> QED
  BY <1>5, <1>6

(* What the member tells of its outcome belongs to no turn, or is of the    *)
(* kinds that open none.                                                    *)
LEMMA EndingOpens ==
    ASSUME JournalTyped, OpeningsInv, TelemetryIsTheRecords,
           NEW m \in {0, Len(fell)}, NEW e, Ended(m, e)
    PROVE  EventsOfTurns' /\ OpenedBut'
<1>1. PICK n : n = Len(stream)
  OBVIOUS
<1>2. /\ n \in Nat /\ m \in Nat /\ Len(stream') = n + m + 1 /\ Now \in Nat /\ Now' = Now
      /\ journal' = journal /\ e.turn = 0 /\ e.kind # "turn-started"
      /\ \A i \in 1 .. n : stream'[i] = stream[i]
      /\ \A i \in 1 .. m : stream'[n + i] = FallbackAdvanced(fell[i])
      /\ stream'[n + m + 1] = e
  <2>1. n \in Nat /\ m \in Nat /\ Now \in Nat /\ Now' = Now
    BY <1>1, Lengths, Lengthened DEF Ended, JournalTyped, JournalTypes, Now
  <2>2. /\ Len(stream') = n + m + 1 /\ journal' = journal /\ e.turn = 0 /\ e.kind # "turn-started"
        /\ \A i \in 1 .. n : stream'[i] = stream[i]
        /\ \A i \in 1 .. m : stream'[n + i] = FallbackAdvanced(fell[i])
        /\ stream'[n + m + 1] = e
    BY <1>1 DEF Ended
  <2> QED
    BY <2>1, <2>2
<1>3. \A i \in 1 .. m : fell[i][1] \in 1 .. Now
  BY DEF TelemetryIsTheRecords, PassedOver
<1>4. ASSUME NEW i \in 1 .. Len(stream')
      PROVE  \/ i \in 1 .. n /\ stream'[i] = stream[i]
             \/ stream'[i].kind \in Telling /\ stream'[i].turn \in 1 .. Now
             \/ stream'[i].turn = 0
  <2>1. CASE i \in 1 .. n
    BY <1>2, <2>1
  <2>2. CASE i \in n + 1 .. n + m
    <3>1. PICK j \in 1 .. m : i = n + j
      <4>1. i - n \in 1 .. m /\ i = n + (i - n)
        BY <1>2, <2>2
      <4> QED
        BY <4>1
    <3>2. stream'[i] = FallbackAdvanced(fell[j]) /\ fell[j][1] \in 1 .. Now
      BY <1>2, <1>3, <3>1
    <3> QED
      BY <3>2 DEF FallbackAdvanced, Event, Telling
  <2>3. CASE i = n + m + 1
    BY <1>2, <2>3
  <2> QED
    BY <1>2, <2>1, <2>2, <2>3
<1>5. EventsOfTurns'
  <2>1. ASSUME NEW i \in 1 .. Len(stream') PROVE stream'[i].turn \in 0 .. Now'
    <3>1. CASE i \in 1 .. n /\ stream'[i] = stream[i]
      BY <1>1, <1>2, <3>1 DEF OpeningsInv, EventsOfTurns
    <3>2. CASE stream'[i].turn \in 1 .. Now \/ stream'[i].turn = 0
      BY <1>2, <3>2
    <3> QED
      BY <1>4, <3>1, <3>2
  <2> QED
    BY <2>1 DEF EventsOfTurns
<1>6. ASSUME NEW k \in 1 .. Now, k = journal.pending PROVE UnopenedAt(k)'
  <2>1. UnopenedAt(k)
    BY <1>6 DEF OpeningsInv, OpenedBut, UnopenedAt
  <2>2. ASSUME NEW i \in 1 .. Len(stream'), stream'[i].turn = k PROVE stream'[i].kind \in Telling
    <3>1. CASE i \in 1 .. n /\ stream'[i] = stream[i]
      BY <1>1, <2>1, <2>2, <3>1 DEF UnopenedAt
    <3>2. CASE stream'[i].turn = 0
      BY <1>6, <2>2, <3>2
    <3> QED
      BY <1>4, <3>1, <3>2
  <2> QED
    BY <2>2 DEF UnopenedAt
<1>7. ASSUME NEW k \in 1 .. Now, k # journal.pending PROVE OpenedAt(k)'
  <2>1. PICK j \in 1 .. n :
           /\ stream[j].kind = "turn-started" /\ stream[j].turn = k
           /\ \A i \in 1 .. n :
                stream[i].turn = k /\ stream[i].kind \notin Telling =>
                    j <= i /\ (stream[i].kind = "turn-started" => i = j)
    <3>1. OpenedAt(k)
      BY <1>7 DEF OpeningsInv, OpenedBut, OpenedAt
    <3> QED
      BY <1>1, <3>1 DEF OpenedAt
  <2>2. j \in 1 .. Len(stream') /\ stream'[j] = stream[j]
    BY <1>2
  <2>3. ASSUME NEW i \in 1 .. Len(stream'), stream'[i].turn = k, stream'[i].kind \notin Telling
        PROVE  j <= i /\ (stream'[i].kind = "turn-started" => i = j)
    <3>1. CASE i \in 1 .. n /\ stream'[i] = stream[i]
      BY <2>1, <2>3, <3>1
    <3>2. CASE stream'[i].turn = 0
      BY <2>3, <3>2
    <3> QED
      BY <1>4, <2>3, <3>1, <3>2
  <2> QED
    BY <2>1, <2>2, <2>3 DEF OpenedAt
<1> QED
  BY <1>2, <1>5, <1>6, <1>7 DEF OpenedBut, OpenedAt, UnopenedAt

LEMMA OpeningsAlone ==
    ASSUME JournalTyped, OpeningsInv, UNCHANGED <<journal, stream>>, Now' = Now,
           at' = "sent" => at = "sent"
    PROVE  OpeningsInv'
BY DEF OpeningsInv, EventsOfTurns, OpenedBut

LEMMA OpeningsKept ==
    ASSUME JournalTyped, TelemetryIsTheRecords, OpeningsInv, [JournalNext]_journalVars
    PROVE  OpeningsInv'
<1>1. ASSUME NEW a \in {0, 1}, NEW ref, NEW r \in {0, 1}, NEW e, Told(a, ref, r, e),
             r = 1 => /\ e.turn = Now /\ e.kind \notin Telling /\ e.kind # "turn-started",
             Now' = Now, journal'.pending = None
      PROVE  OpeningsInv'
  <2>1. /\ \A i \in 1 .. Len(stream') : stream'[i].turn \in 0 .. Now
        /\ \A k \in 1 .. Now : OpenedAt(k)'
    BY <1>1, TellingOpens
  <2> QED
    BY <1>1, <2>1 DEF OpeningsInv, EventsOfTurns, OpenedBut, OpenedAt, None
<1>2. ASSUME NEW w, NEW j, NEW a \in {0, 1}, NEW ref, NEW r \in {0, 1}, NEW e,
             Observes(w, j, a, ref, r, e),
             r = 1 => /\ e.turn = Now /\ e.kind \notin Telling /\ e.kind # "turn-started"
      PROVE  OpeningsInv'
  BY <1>1, <1>2 DEF Observes, JournalIs
<1> USE DEF Telling, Event
<1>3. CASE UNCHANGED journalVars
  BY <1>3, OpeningsAlone DEF journalVars, engine, Now
<1>4. CASE OpensTurn
  <2>1. /\ \A i \in 1 .. Len(stream') : stream'[i].turn \in 0 .. Now
        /\ \A k \in 1 .. Now : OpenedAt(k)'
    <3>1. PICK z : z = 0 /\ z \in {0, 1} /\ ~ (z = 1)
      OBVIOUS
    <3>2. Told(z, Inline, z, z)
      BY <1>4, <3>1 DEF OpensTurn
    <3> QED
      BY <3>1, <3>2, TellingOpens
  <2>2. Now \in Nat /\ Now' = Now + 1 /\ journal'.pending = Now' /\ at' = "sink"
    BY <1>4, Lengths DEF OpensTurn, JournalIs, JournalTyped
  <2>3. EventsOfTurns'
    <3>1. ASSUME NEW i \in 1 .. Len(stream') PROVE stream'[i].turn \in 0 .. Now'
      BY <2>1, <2>2
    <3> QED
      BY <3>1 DEF EventsOfTurns
  <2>4. ASSUME NEW k \in 1 .. Now', k # journal'.pending PROVE OpenedAt(k)'
    <3>1. k \in 1 .. Now
      BY <2>2, <2>4
    <3> QED
      BY <2>1, <3>1
  <2>5. ASSUME NEW k \in 1 .. Now', k = journal'.pending PROVE UnopenedAt(k)'
    BY <2>1, <2>2, <2>5 DEF UnopenedAt
  <2> QED
    BY <2>2, <2>3, <2>4, <2>5 DEF OpeningsInv, OpenedBut, OpenedAt, UnopenedAt
<1>5. CASE \E h \in {"readable", "unreadable"} : HasBegun(h)
  BY <1>2, <1>5 DEF HasBegun
<1>6. CASE HasActed
  BY <1>2, <1>6 DEF HasActed, TurnActivity
<1>7. CASE HasDecided
  BY <1>2, <1>7 DEF HasDecided, JudgeDecided
<1>8. CASE HasSpoken
  BY <1>2, <1>8 DEF HasSpoken, TurnMessage
<1>9. CASE HasClosed
  BY <1>2, <1>9 DEF HasClosed, TurnCompleted
<1>10. CASE HasAnswered
  BY <1>1, <1>10 DEF HasAnswered, JournalIs
<1>11. CASE (HasFallen \/ HasNextJudge) /\ ToldNothing
  BY <1>11, OpeningsAlone DEF HasFallen, HasNextJudge, ToldNothing
<1>12. CASE HasEnded
  <2>1. PICK m, e : m \in {0, Len(fell)} /\ Ended(m, e) /\ journal' = journal /\ at' \in {at, "never"}
    BY <1>12 DEF HasEnded, Ended
  <2>2. EventsOfTurns' /\ OpenedBut'
    BY <2>1, EndingOpens
  <2> QED
    BY <2>1, <2>2 DEF OpeningsInv
<1>13. CASE HasMoved
  BY <1>13, OpeningsAlone DEF HasMoved, Now
<1> QED
  BY <1>3, <1>4, <1>5, <1>6, <1>7, <1>8, <1>9, <1>10, <1>11, <1>12, <1>13, JournalSteps, Zenon

-----------------------------------------------------------------------------
(* The references.                                                          *)

LEMMA FieldIs ==
    /\ DOMAIN Field = {"turn-started", "turn-activity", "turn-message"}
    /\ Field["turn-started"] = "instruction" /\ Field["turn-activity"] = "activity"
    /\ Field["turn-message"] = "text"
BY DEF Field

LEMMA ReadableStays ==
    ASSUME JournalTyped, TurnsGrow, TurnsTyped', NEW c, Readable(c)
    PROVE  /\ Readable(c)'
           /\ turns[c[1]][c[2]].acted => turns'[c[1]][c[2]].acted
<1>1. /\ c[1] \in 1 .. Now /\ c[2] \in 1 .. Last_(c[1]) /\ Now \in Nat
      /\ turns[c[1]][c[2]].history = "readable"
  BY Lengths DEF Readable, JournalTyped
<1>2. Now' \in Nat /\ \A k \in 1 .. Now' : Last_(k)' \in Nat
  BY JournalAssumption DEF TurnsTyped, Now
<1>3. /\ Now' >= Now /\ Last_(c[1])' >= Last_(c[1]) /\ Last_(c[1]) \in Nat
      /\ Kept(turns[c[1]][c[2]], turns'[c[1]][c[2]])
  BY <1>1, Lengths DEF TurnsGrow, JournalTyped
<1>4. c[1] \in 1 .. Now'
  BY <1>1, <1>2, <1>3
<1>5. c[2] \in 1 .. Last_(c[1])'
  BY <1>1, <1>2, <1>3, <1>4
<1> QED
  BY <1>1, <1>3, <1>4, <1>5 DEF Readable, Kept

LEMMA RefersStays ==
    ASSUME JournalTyped, TurnsGrow, TurnsTyped', NEW e, RefersTo(e)
    PROVE  RefersTo(e)'
<1>1. Readable(e.ref)
  BY DEF RefersTo
<1>2. PICK c : c = e.ref
  OBVIOUS
<1>3. Readable(c)' /\ (turns[c[1]][c[2]].acted => turns'[c[1]][c[2]].acted)
  BY <1>1, <1>2, ReadableStays
<1> QED
  BY <1>2, <1>3, Zenon DEF RefersTo

StreamGrows ==
    /\ Len(stream) \in Nat /\ Len(stream') \in Nat /\ Len(stream') >= Len(stream)
    /\ \A i \in 1 .. Len(stream) : stream'[i] = stream[i]

LEMMA AnnouncedStays ==
    ASSUME StreamGrows, NEW c, NEW i, AnnouncedBy(i, c)
    PROVE  AnnouncedBy(i, c)'
<1>1. PICK j \in 1 .. Len(stream) :
         j <= i /\ stream[j].kind = "oneharness-session" /\ stream[j].ref = c
  BY DEF AnnouncedBy
<1>2. j \in 1 .. Len(stream') /\ stream'[j] = stream[j]
  BY <1>1 DEF StreamGrows
<1> QED
  BY <1>1, <1>2 DEF AnnouncedBy

LEMMA AnnouncedSince ==
    ASSUME NEW c, NEW i \in Int, NEW j \in Int, i <= j, AnnouncedBy(i, c)
    PROVE  AnnouncedBy(j, c)
BY DEF AnnouncedBy

LEMMA ToldGrows ==
    ASSUME JournalTyped, NEW a \in {0, 1}, NEW ref, NEW r \in {0, 1}, NEW e, Told(a, ref, r, e)
    PROVE  StreamGrows
<1>1. Len(stream) \in Nat /\ Flushed \in {0, 1} /\ Len(stream') \in Nat
  BY ToldWhere
<1>2. /\ Len(stream') = Len(stream) + a + Flushed + r
      /\ \A i \in 1 .. Len(stream) : stream'[i] = stream[i]
  BY DEF Told
<1> QED
  BY <1>1, <1>2 DEF StreamGrows

LEMMA ReferencesTold ==
    ASSUME JournalTyped, ReferencesHold, TurnsGrow, TurnsTyped',
           NEW a \in {0, 1}, NEW ref, NEW r \in {0, 1}, NEW e, Told(a, ref, r, e),
           ref # Inline => a = 1 /\ ref = Here /\ Readable(ref)',
           r = 1 /\ e.kind \in DOMAIN Field /\ e.ref # Inline =>
               RefersTo(e)' /\ AnnouncedBy(Len(stream), e.ref)
    PROVE  ReferencesHold'
<1>1. StreamGrows
  BY ToldGrows
<1>2. PICK n : n = Len(stream)
  OBVIOUS
<1>3. n \in Nat /\ ToldOnly(n, a, ref, r, e) /\ Flushed \in {0, 1}
  BY <1>2, ToldWhere, Zenon
<1>4. ASSUME NEW i \in 1 .. n, stream'[i] = stream[i],
             stream'[i].kind \in DOMAIN Field, stream'[i].ref # Inline
      PROVE  RefersTo(stream[i])' /\ AnnouncedBy(i - 1, stream[i].ref)'
  <2>1. PICK d, c : d = stream[i] /\ c = d.ref
    OBVIOUS
  <2>2. RefersTo(d) /\ AnnouncedBy(i - 1, c)
    BY <1>2, <1>4, <2>1 DEF ReferencesHold
  <2>3. RefersTo(d)' /\ AnnouncedBy(i - 1, c)'
    BY <1>1, <2>2, RefersStays, AnnouncedStays
  <2> QED
    BY <1>4, <2>1, <2>3, Zenon DEF RefersTo, Readable, AnnouncedBy
<1>5. ASSUME NEW i, Flushed = 1, i = n + a + 1, stream'[i] = TurnStarted(journal.pending, ref),
             ref # Inline
      PROVE  RefersTo(stream[i])' /\ AnnouncedBy(i - 1, stream[i].ref)'
  <2>1. PICK d : d = TurnStarted(journal.pending, ref)
    OBVIOUS
  <2>2. d.ref = ref /\ d.kind = "turn-started" /\ d.said = Instruction(journal.pending)
    BY <2>1 DEF TurnStarted
  <2>3. journal.pending = Now /\ ref[1] = Now
    BY <1>5 DEF JournalTyped, EngineHasATurn, Flushed, None, Here
  <2>4. RefersTo(d)'
    BY <1>5, <2>2, <2>3 DEF RefersTo
  <2>5. AnnouncedBy(n + 1, ref)'
    <3>1. stream'[n + 1] = OneharnessSession(Here) /\ n + 1 \in 1 .. Len(stream')
      BY <1>1, <1>2, <1>3, <1>5 DEF Told, StreamGrows
    <3>2. OneharnessSession(Here).kind = "oneharness-session" /\ OneharnessSession(Here).ref = Here
      BY DEF OneharnessSession, Event
    <3> QED
      BY <1>3, <1>5, <3>1, <3>2 DEF AnnouncedBy
  <2>6. i - 1 = n + 1
    BY <1>3, <1>5
  <2> QED
    BY <1>5, <2>1, <2>2, <2>4, <2>5, <2>6, Zenon DEF RefersTo, Readable, AnnouncedBy
<1>6. ASSUME NEW i, r = 1, i = n + a + Flushed + 1, stream'[i] = e,
             e.kind \in DOMAIN Field, e.ref # Inline
      PROVE  RefersTo(stream[i])' /\ AnnouncedBy(i - 1, stream[i].ref)'
  <2>1. PICK c : c = e.ref
    OBVIOUS
  <2>2. RefersTo(e)' /\ AnnouncedBy(n, c)
    BY <1>2, <1>6, <2>1
  <2>3. AnnouncedBy(i - 1, c)
    <3>1. n \in Int /\ i - 1 \in Int /\ n <= i - 1
      BY <1>3, <1>6
    <3> QED
      BY <2>2, <3>1, AnnouncedSince
  <2>4. AnnouncedBy(i - 1, c)'
    BY <1>1, <2>3, AnnouncedStays
  <2> QED
    BY <1>6, <2>1, <2>2, <2>4, Zenon DEF RefersTo, Readable, AnnouncedBy
<1>7. OneharnessSession(Here).kind \notin DOMAIN Field
  BY FieldIs DEF OneharnessSession, Event
<1>8. TurnStarted(journal.pending, ref).ref = ref
  BY DEF TurnStarted
<1>9. ASSUME NEW i \in 1 .. Len(stream'), stream'[i].kind \in DOMAIN Field, stream'[i].ref # Inline
      PROVE  RefersTo(stream[i])' /\ AnnouncedBy(i - 1, stream[i].ref)'
  BY <1>3, <1>4, <1>5, <1>6, <1>7, <1>8, <1>9 DEF ToldOnly
<1> QED
  BY <1>9 DEF ReferencesHold, Field

(* A slot lets go, or keeps what it held; the one of the party whose turn   *)
(* it is holds on only while the same candidate runs.                       *)
LEMMA SlotsStay ==
    ASSUME JournalTyped, JournalHolds, TurnsGrow, TurnsTyped', StreamGrows,
           UNCHANGED <<panel, histories>>,
           journal'.worker \in {journal.worker, Inline},
           journal'.judge \in {journal.judge, Inline},
           \/ Runner'.history = "none"
           \/ Now' = Now /\ Here' = Here /\ Runner'.history = Runner.history,
           Now' >= 1 /\ Chair(Now') /\ Runner'.record = "completed" => journal'.judge = Inline
    PROVE  JournalHolds'
<1>1. ASSUME NEW c \in {journal'.worker, journal'.judge}, c # Inline
      PROVE  Readable(c)' /\ AnnouncedBy(Len(stream), c)'
  <2>1. Readable(c) /\ AnnouncedBy(Len(stream), c)
    BY <1>1 DEF JournalHolds
  <2>2. PICK n : n = Len(stream)
    OBVIOUS
  <2>3. Readable(c)' /\ AnnouncedBy(n, c)'
    BY <2>1, <2>2, ReadableStays, AnnouncedStays
  <2>4. n \in Nat /\ Len(stream') \in Nat /\ n <= Len(stream')
    BY <2>2 DEF StreamGrows
  <2>5. AnnouncedBy(Len(stream), c)'
    BY <2>3, <2>4 DEF AnnouncedBy
  <2> QED
    BY <2>3, <2>5
<1>2. ~histories' => journal'.worker = Inline /\ journal'.judge = Inline
  BY DEF JournalHolds
<1>3. ASSUME Now' >= 1, Runner'.history # "none"
      PROVE  /\ Party(Now') = "assistant" => journal'.worker \in {Inline, Here'}
             /\ Party(Now') # "assistant" => journal'.judge \in {Inline, Here'}
  BY <1>3 DEF JournalHolds
<1>4. Chair(Now') <=> Chair(Now)'
  BY DEF Chair, Party
<1> QED
  BY <1>1, <1>2, <1>3, <1>4, Zenon DEF JournalHolds, Party

LEMMA SlotsBegun ==
    ASSUME JournalTyped, JournalHolds, NEW h \in {"readable", "unreadable"}, HasBegun(h), MemberAlone
    PROVE  JournalHolds' /\ (h = "readable" => Readable(Here)')
<1>0. PICK here, n, g, a : /\ here = Here /\ n = Len(stream)
                           /\ g = (IF h = "readable" THEN Here ELSE Inline)
                           /\ a = (IF h = "readable" THEN 1 ELSE 0) /\ a \in {0, 1}
  OBVIOUS
<1>1. /\ TurnsGrow /\ TurnsTyped' /\ Here' = here /\ Now' = Now /\ Now >= 1 /\ histories'
      /\ Told(a, g, 0, 0)
      /\ JournalIs(None, IF Party(Now) = "assistant" THEN g ELSE journal.worker,
                         IF Party(Now) = "assistant" THEN journal.judge ELSE g)
  BY <1>0 DEF HasBegun, Observes, MemberAlone, JournalTyped, EngineHasATurn
<1>2. Runner' = [Fresh EXCEPT !.history = h]
  BY DEF HasBegun
<1>3. StreamGrows
  <2>1. PICK z : z = 0 /\ z \in {0, 1}
    OBVIOUS
  <2>2. Told(a, g, z, z)
    BY <1>1, <2>1
  <2> QED
    BY <1>0, <2>1, <2>2, ToldGrows, Zenon
<1>4. ASSUME h = "readable" PROVE Readable(here)' /\ AnnouncedBy(Len(stream), here)'
  <2>1. stream'[n + 1] = OneharnessSession(Here) /\ Len(stream') = n + 1 + Flushed + 0
    BY <1>0, <1>1, <1>4 DEF Told
  <2>2. /\ OneharnessSession(Here).kind = "oneharness-session"
        /\ OneharnessSession(Here).ref = here
    BY <1>0 DEF OneharnessSession, Event
  <2>3. n + 1 \in 1 .. Len(stream')
    BY <1>0, <1>3, <2>1 DEF StreamGrows, Flushed
  <2>4. AnnouncedBy(Len(stream), here)'
    BY <2>1, <2>2, <2>3 DEF AnnouncedBy
  <2>5. /\ here[1] = Now' /\ here[2] = Last_(here[1])' /\ here[1] \in 1 .. Now'
        /\ here[2] \in 1 .. Last_(here[1])'
    <3>1. here[1] = Now' /\ here[2] = Last_(Now)'
      BY <1>1 DEF Here
    <3>2. Now' \in Nat /\ Now' \in 1 .. Now' /\ \A k \in 1 .. Now' : Last_(k)' \in 1 .. Candidates
      BY <1>1, Lengths DEF TurnsTyped, JournalTyped
    <3>3. Last_(here[1])' \in 1 .. Candidates /\ Last_(here[1])' = Last_(Now)'
      BY <3>1, <3>2 DEF Last_
    <3> QED
      BY <3>1, <3>2, <3>3, JournalAssumption
  <2>6. turns'[here[1]][here[2]] = Runner'
    BY <2>5 DEF Runner, Last_
  <2> QED
    BY <1>2, <1>4, <2>4, <2>5, <2>6 DEF Readable, Fresh
<1>5. ASSUME NEW c \in {journal'.worker, journal'.judge}, c # Inline
      PROVE  Readable(c)' /\ AnnouncedBy(Len(stream), c)'
  <2>1. CASE c = g
    BY <1>0, <1>4, <1>5, <2>1
  <2>2. CASE c # g
    <3>1. c \in {journal.worker, journal.judge}
      BY <1>1, <1>5, <2>2 DEF JournalIs
    <3>2. Readable(c) /\ AnnouncedBy(n, c)
      BY <1>0, <1>5, <3>1 DEF JournalHolds
    <3>3. Readable(c)' /\ AnnouncedBy(n, c)'
      BY <1>1, <1>3, <3>2, ReadableStays, AnnouncedStays
    <3>4. n \in Nat /\ Len(stream') \in Nat /\ n <= Len(stream')
      BY <1>0, <1>3 DEF StreamGrows
    <3>5. AnnouncedBy(Len(stream), c)'
      BY <3>3, <3>4 DEF AnnouncedBy
    <3> QED
      BY <3>3, <3>5
  <2> QED
    BY <2>1, <2>2
<1>6. /\ Party(Now) = "assistant" => journal'.worker \in {Inline, Here'}
      /\ Party(Now) # "assistant" => journal'.judge \in {Inline, Here'}
  BY <1>0, <1>1 DEF JournalIs
<1>7. Runner'.record # "completed"
  BY <1>2 DEF Fresh
<1>8. JournalHolds'
  BY <1>1, <1>5, <1>6, <1>7, Zenon DEF JournalHolds, Party
<1> QED
  BY <1>0, <1>4, <1>8 DEF Readable, HasBegun, Observes

(* Who runs has begun, when there are histories, and is who the slot of its *)
(* party may hold.                                                          *)
LEMMA SlotOfRunner ==
    ASSUME JournalTyped, JournalHolds, Running, NEW c \in {journal.worker, journal.judge},
           c = IF Party(Now) = "assistant" THEN journal.worker ELSE journal.judge, c # Inline
    PROVE  c = Here /\ Readable(c) /\ AnnouncedBy(Len(stream), c)
<1>1. histories /\ Now >= 1 /\ Runner.history # "none"
  BY DEF JournalHolds, Running, JournalTyped, EngineHasATurn
<1> QED
  BY <1>1 DEF JournalHolds

LEMMA PartiesStay ==
    ASSUME UNCHANGED panel, Now' = Now PROVE Chair(Now') = Chair(Now)
BY DEF Chair

(* An observation that announces nobody, and says nothing by reference that *)
(* does not hold.                                                           *)
LEMMA ReferencesObserved ==
    ASSUME JournalTyped, ReferencesInv, UNCHANGED <<panel, histories>>,
           NEW r \in {0, 1}, NEW e, Told(0, Inline, r, e), TurnsGrow, TurnsTyped',
           journal'.worker \in {journal.worker, Inline},
           journal'.judge \in {journal.judge, Inline},
           \/ Runner'.history = "none"
           \/ Now' = Now /\ Here' = Here /\ Runner'.history = Runner.history,
           Now' >= 1 /\ Chair(Now') /\ Runner'.record = "completed" => journal'.judge = Inline,
           r = 1 /\ e.kind \in DOMAIN Field /\ e.ref # Inline =>
               RefersTo(e)' /\ AnnouncedBy(Len(stream), e.ref)
    PROVE  ReferencesInv'
<1>1. PICK z : z = 0 /\ z \in {0, 1}
  OBVIOUS
<1>2. Told(z, Inline, r, e)
  BY <1>1
<1>3. StreamGrows
  BY <1>1, <1>2, ToldGrows
<1>4. JournalHolds'
  BY <1>3, SlotsStay DEF ReferencesInv
<1>5. PICK ref : ref = Inline
  OBVIOUS
<1>6. Told(z, ref, r, e)
  BY <1>2, <1>5
<1>7. ReferencesHold'
  BY <1>1, <1>5, <1>6, ReferencesTold DEF ReferencesInv
<1> QED
  BY <1>4, <1>7 DEF ReferencesInv

(* Nothing that is referred to is told, and the turns only grow.            *)
LEMMA ReferencesAlone ==
    ASSUME JournalTyped, ReferencesInv, UNCHANGED <<panel, histories, journal>>,
           TurnsGrow, TurnsTyped', StreamGrows,
           \A i \in 1 .. Len(stream') :
              i \in 1 .. Len(stream) \/ stream'[i].kind \notin DOMAIN Field,
           \/ Runner' = Fresh
           \/ Now' = Now /\ Here' = Here /\ Runner' = Runner
    PROVE  ReferencesInv'
<1>1. JournalHolds'
  <2>1. /\ journal'.worker \in {journal.worker, Inline} /\ journal'.judge \in {journal.judge, Inline}
        /\ \/ Runner'.history = "none"
           \/ Now' = Now /\ Here' = Here /\ Runner'.history = Runner.history
    BY DEF Fresh
  <2>2. Now' >= 1 /\ Chair(Now') /\ Runner'.record = "completed" => journal'.judge = Inline
    BY PartiesStay DEF ReferencesInv, JournalHolds, Fresh
  <2> QED
    BY <2>1, <2>2, SlotsStay DEF ReferencesInv
<1>2. ASSUME NEW i \in 1 .. Len(stream'), stream'[i].kind \in DOMAIN Field, stream'[i].ref # Inline
      PROVE  RefersTo(stream[i])' /\ AnnouncedBy(i - 1, stream[i].ref)'
  <2>1. PICK d, c : d = stream[i] /\ c = d.ref
    OBVIOUS
  <2>2. i \in 1 .. Len(stream) /\ stream'[i] = d
    BY <1>2, <2>1 DEF StreamGrows
  <2>3. RefersTo(d) /\ AnnouncedBy(i - 1, c)
    BY <1>2, <2>1, <2>2 DEF ReferencesInv, ReferencesHold
  <2>4. RefersTo(d)' /\ AnnouncedBy(i - 1, c)'
    BY <2>3, RefersStays, AnnouncedStays
  <2> QED
    BY <2>1, <2>2, <2>4, Zenon DEF RefersTo, Readable, AnnouncedBy
<1>3. ReferencesHold'
  BY <1>2 DEF ReferencesHold, Field
<1> QED
  BY <1>1, <1>3 DEF ReferencesInv

LEMMA EndingGrows ==
    ASSUME JournalTyped, NEW m \in {0, Len(fell)}, NEW e, Ended(m, e)
    PROVE  /\ StreamGrows
           /\ \A i \in 1 .. Len(stream') :
                \/ i \in 1 .. Len(stream)
                \/ i \in Len(stream) + 1 .. Len(stream) + m
                     /\ stream'[i] = FallbackAdvanced(fell[i - Len(stream)])
                \/ i = Len(stream) + m + 1 /\ stream'[i] = e
<1>1. PICK n : n = Len(stream)
  OBVIOUS
<1>2. n \in Nat /\ m \in Nat
  BY <1>1, Lengthened DEF JournalTyped, JournalTypes
<1>3. /\ Len(stream') = n + m + 1 /\ stream'[n + m + 1] = e
      /\ \A i \in 1 .. n : stream'[i] = stream[i]
      /\ \A i \in 1 .. m : stream'[n + i] = FallbackAdvanced(fell[i])
  BY <1>1 DEF Ended
<1>4. ASSUME NEW i \in n + 1 .. n + m PROVE stream'[i] = FallbackAdvanced(fell[i - n])
  <2>1. i - n \in 1 .. m /\ n + (i - n) = i
    BY <1>2
  <2>2. stream'[n + (i - n)] = FallbackAdvanced(fell[i - n])
    BY <1>3, <2>1
  <2> QED
    BY <2>1, <2>2
<1>5. ASSUME NEW i \in 1 .. Len(stream')
      PROVE  i \in 1 .. n \/ i \in n + 1 .. n + m \/ i = n + m + 1
  BY <1>2, <1>3
<1> QED
  BY <1>1, <1>2, <1>3, <1>4, <1>5 DEF StreamGrows

LEMMA ReferencesKept ==
    ASSUME JournalTyped, ReferencesInv, [JournalNext]_journalVars
    PROVE  ReferencesInv'
<1>0. PICK z, y : z = 0 /\ z \in {0, 1} /\ y = 1 /\ y \in {0, 1}
  OBVIOUS
<1>1. ASSUME UNCHANGED <<panel, histories, turns, journal>>, StreamGrows,
             \A i \in 1 .. Len(stream') :
                i \in 1 .. Len(stream) \/ stream'[i].kind \notin DOMAIN Field
      PROVE  ReferencesInv'
  <2>1. TurnsTyped' /\ TurnsGrow /\ Now' = Now /\ Here' = Here /\ Runner' = Runner
    BY <1>1, TurnsAlone DEF JournalTyped
  <2> QED
    BY <1>1, <2>1, ReferencesAlone
<1>2. ASSUME UNCHANGED stream PROVE StreamGrows
  BY <1>2, Lengthened DEF StreamGrows, JournalTyped, JournalTypes
<1>3. CASE UNCHANGED journalVars \/ HasMoved
  BY <1>1, <1>2, <1>3 DEF journalVars, engine, HasMoved
<1>4. CASE OpensTurn /\ MemberAlone
  <2>1. Told(0, Inline, z, 0)
    BY <1>0, <1>4 DEF OpensTurn
  <2>2. PICK e : e = 0
    OBVIOUS
  <2>3. /\ journal'.worker \in {journal.worker, Inline} /\ journal'.judge \in {journal.judge, Inline}
        /\ Runner'.history = "none" /\ Runner'.record # "completed" /\ TurnsGrow /\ TurnsTyped'
        /\ UNCHANGED <<panel, histories>> /\ z # 1 /\ Told(0, Inline, z, e)
    BY <1>0, <1>4, <2>1, <2>2 DEF OpensTurn, JournalIs, MemberAlone, Fresh
  <2> QED
    BY <1>0, <2>3, ReferencesObserved, Zenon
<1>5. CASE (\E h \in {"readable", "unreadable"} : HasBegun(h)) /\ MemberAlone
  <2>1. PICK h \in {"readable", "unreadable"} : HasBegun(h) /\ MemberAlone
    BY <1>5
  <2>2. JournalHolds' /\ (h = "readable" => Readable(Here)')
    BY <2>1, SlotsBegun DEF ReferencesInv
  <2>3. PICK a, ref : a \in {0, 1} /\ a = (IF h = "readable" THEN 1 ELSE 0)
                      /\ ref = (IF h = "readable" THEN Here ELSE Inline)
    OBVIOUS
  <2>4. /\ TurnsGrow /\ TurnsTyped' /\ Here' = Here /\ Told(a, ref, z, z)
    BY <1>0, <2>1, <2>3 DEF HasBegun, Observes
  <2>5. ref # Inline => a = 1 /\ ref = Here /\ Readable(ref)'
    BY <2>2, <2>3, <2>4 DEF Readable
  <2>6. ReferencesHold'
    BY <1>0, <2>3, <2>4, <2>5, ReferencesTold DEF ReferencesInv
  <2> QED
    BY <2>2, <2>6 DEF ReferencesInv
<1>6. CASE HasActed /\ MemberAlone
  <2>1. PICK r, e : /\ r \in {0, 1} /\ r = (IF Party(Now) = "assistant" THEN 1 ELSE 0)
                    /\ e = TurnActivity(Now, journal.worker)
    OBVIOUS
  <2>2. /\ TurnsGrow /\ TurnsTyped' /\ Now' = Now /\ Here' = Here /\ Told(0, Inline, r, e)
        /\ journal'.worker \in {journal.worker, Inline} /\ journal'.judge \in {journal.judge, Inline}
        /\ Running /\ Now >= 1 /\ UNCHANGED <<panel, histories>>
    BY <1>6, <2>1 DEF HasActed, Observes, JournalIs, MemberAlone, JournalTyped, EngineHasATurn
  <2>3. Runner'.history = Runner.history /\ Runner'.record = "none"
        /\ (Party(Now) = "assistant" => Runner'.acted)
    <3>1. CASE Runner' = [Runner EXCEPT !.acted = TRUE]
      <4>1. Runner \in Attempt
        BY <2>2, Lengths DEF JournalTyped
      <4> QED
        BY <2>2, <3>1, <4>1 DEF Attempt, Running
    <3>2. CASE UNCHANGED turns /\ Party(Now) # "assistant"
      BY <2>2, <3>2 DEF Runner, Running, Last_
    <3> QED
      BY <1>6, <3>1, <3>2 DEF HasActed
  <2>4. ASSUME r = 1, e.ref # Inline PROVE RefersTo(e)' /\ AnnouncedBy(Len(stream), e.ref)
    <3>1. PICK c, here : c = journal.worker /\ here = Here
      OBVIOUS
    <3>2. e.ref = c /\ e.kind = "turn-activity" /\ e.said = Act(here) /\ Party(Now) = "assistant"
      BY <2>1, <2>4, <3>1 DEF TurnActivity, Event
    <3>3. c = here /\ Readable(c) /\ AnnouncedBy(Len(stream), c)
      BY <2>2, <2>4, <3>1, <3>2, SlotOfRunner DEF ReferencesInv
    <3>4. Readable(c)'
      BY <2>2, <3>3, ReadableStays
    <3>5. turns'[c[1]][c[2]].acted
      BY <2>2, <2>3, <3>1, <3>2, <3>3 DEF Runner, Here
    <3> QED
      BY <3>2, <3>3, <3>4, <3>5 DEF RefersTo
  <2> QED
    BY <2>1, <2>2, <2>3, <2>4, ReferencesObserved
<1>7. CASE HasDecided /\ MemberAlone
  <2>1. PICK e : e = JudgeDecided(Now)
    OBVIOUS
  <2>2. e.kind \notin DOMAIN Field
    BY <2>1, FieldIs DEF JudgeDecided, Event
  <2>3. /\ TurnsGrow /\ TurnsTyped' /\ Now' = Now /\ Here' = Here /\ Told(0, Inline, y, e)
        /\ journal'.worker \in {journal.worker, Inline} /\ journal'.judge = Inline
        /\ Runner'.history = Runner.history /\ UNCHANGED <<panel, histories>>
    BY <1>0, <1>7, <2>1 DEF HasDecided, Observes, JournalIs, MemberAlone, Records
  <2> QED
    BY <1>0, <2>2, <2>3, ReferencesObserved
<1>8. CASE HasSpoken /\ MemberAlone
  <2>1. PICK e, here : e = TurnMessage(Now, Reference("turn-message", Now)) /\ here = Here
    OBVIOUS
  <2>2. /\ TurnsGrow /\ TurnsTyped' /\ Now' = Now /\ Here' = here /\ Told(0, Inline, y, e)
        /\ journal'.worker = journal.worker /\ journal'.judge = journal.judge /\ Now >= 1
        /\ UNCHANGED <<panel, histories>>
    BY <1>0, <1>8, <2>1 DEF HasSpoken, Observes, JournalIs, MemberAlone, JournalTyped, EngineHasATurn
  <2>3. /\ e.kind = "turn-message"
        /\ e.ref = IF Party(Now) = "assistant" THEN journal.worker ELSE journal.judge
        /\ e.said = Text(IF Chair(Now) THEN <<Now, 0>> ELSE Here)
    BY <2>1 DEF TurnMessage, Event, Reference
  <2>4. CASE Chair(Now) /\ Runner.record = "completed" /\ UNCHANGED turns
    <3>1. journal.judge = Inline /\ e.ref = Inline
      BY <2>2, <2>3, <2>4 DEF ReferencesInv, JournalHolds, Chair, Party
    <3>2. Runner' = Runner /\ Here' = Here
      BY <2>4 DEF Runner, Here, Now, Last_
    <3> QED
      BY <1>0, <2>2, <3>1, <3>2, ReferencesObserved
  <2>5. CASE ~Chair(Now) /\ Running /\ Records("completed")
    <3>1. ASSUME e.ref # Inline PROVE RefersTo(e)' /\ AnnouncedBy(Len(stream), e.ref)
      <4>1. PICK c : c = e.ref
        OBVIOUS
      <4>2. c = here /\ Readable(c) /\ AnnouncedBy(Len(stream), c)
        BY <2>1, <2>3, <2>5, <3>1, <4>1, SlotOfRunner DEF ReferencesInv
      <4>3. Readable(c)'
        BY <2>2, <4>2, ReadableStays
      <4>4. e.said = Text(c)
        BY <2>1, <2>3, <2>5, <4>2
      <4> QED
        BY <2>3, <4>1, <4>2, <4>3, <4>4 DEF RefersTo
    <3>2. Runner'.history = Runner.history /\ ~Chair(Now') /\ Here' = Here
      BY <2>1, <2>2, <2>5 DEF Records
    <3> QED
      BY <1>0, <2>2, <3>1, <3>2, ReferencesObserved
  <2> QED
    BY <1>8, <2>4, <2>5 DEF HasSpoken
<1>9. CASE HasClosed /\ MemberAlone
  <2>1. PICK e : e = TurnCompleted(Now)
    OBVIOUS
  <2>2. e.kind \notin DOMAIN Field
    BY <2>1, FieldIs DEF TurnCompleted, Event
  <2>3. /\ TurnsGrow /\ TurnsTyped' /\ Now' = Now /\ Here' = Here /\ Told(0, Inline, y, e)
        /\ journal'.worker = journal.worker /\ journal'.judge = journal.judge
        /\ Runner' = Runner /\ UNCHANGED <<panel, histories>>
    BY <1>0, <1>9, <2>1 DEF HasClosed, Observes, JournalIs, MemberAlone, Runner, Now, Last_
  <2>4. Now' >= 1 /\ Chair(Now') /\ Runner'.record = "completed" => journal'.judge = Inline
    BY <2>3, PartiesStay DEF ReferencesInv, JournalHolds
  <2> QED
    BY <1>0, <2>2, <2>3, <2>4, ReferencesObserved
<1>10. CASE HasAnswered /\ MemberAlone
  <2>1. PICK e : e = 0
    OBVIOUS
  <2>2. /\ TurnsGrow /\ TurnsTyped' /\ Now' = Now /\ Here' = Here /\ Told(0, Inline, z, e)
        /\ journal'.worker = journal.worker /\ journal'.judge = journal.judge
        /\ UNCHANGED <<panel, histories>> /\ z # 1
    BY <1>0, <1>10, <2>1 DEF HasAnswered, JournalIs, MemberAlone
  <2>3. /\ Runner'.history = Runner.history
        /\ (Runner'.record = "completed" => Runner'.record = Runner.record)
    BY <1>10 DEF HasAnswered, Runner, Now, Last_
  <2>4. Now' >= 1 /\ Chair(Now') /\ Runner'.record = "completed" => journal'.judge = Inline
    BY <2>2, <2>3, PartiesStay DEF ReferencesInv, JournalHolds
  <2> QED
    BY <1>0, <2>2, <2>3, <2>4, ReferencesObserved
<1>11. CASE (HasFallen \/ HasNextJudge) /\ ToldNothing
  <2>1. TurnsGrow /\ TurnsTyped' /\ Runner' = Fresh /\ UNCHANGED <<panel, histories, journal, stream>>
    BY <1>11 DEF HasFallen, HasNextJudge, ToldNothing
  <2> QED
    BY <1>2, <2>1, ReferencesAlone
<1>12. CASE HasEnded
  <2>1. PICK m \in {0, Len(fell)} : \E e : Ended(m, e)
    BY <1>12 DEF HasEnded
  <2>2. PICK e : Ended(m, e)
    BY <2>1
  <2>3. StreamGrows /\ UNCHANGED <<panel, histories, turns, journal>>
    BY <2>2, EndingGrows DEF Ended
  <2>4. e.kind \notin DOMAIN Field /\ \A c : FallbackAdvanced(c).kind \notin DOMAIN Field
    BY <2>2, FieldIs DEF Ended, FallbackAdvanced, Event
  <2>5. \A i \in 1 .. Len(stream') :
           i \in 1 .. Len(stream) \/ stream'[i].kind \notin DOMAIN Field
    BY <2>2, <2>4, EndingGrows
  <2> QED
    BY <1>1, <2>3, <2>5
<1> QED
  BY <1>3, <1>4, <1>5, <1>6, <1>7, <1>8, <1>9, <1>10, <1>11, <1>12, JournalSteps, Zenon

-----------------------------------------------------------------------------
(* The outcome.                                                             *)

Endings == {"member-died", "member-settled"}

LEMMA OutcomesAre ==
    ASSUME JournalTyped
    PROVE  /\ Len(stream) \in Nat
           /\ \A i : i \in Outcomes <=> i \in 1 .. Len(stream) /\ stream[i].kind \in Endings
           /\ \A i : i \in Places("fallback-advanced") <=>
                       i \in 1 .. Len(stream) /\ stream[i].kind = "fallback-advanced"
<1>1. Len(stream) \in Nat /\ DOMAIN stream = 1 .. Len(stream)
  BY Lengthened DEF JournalTyped, JournalTypes
<1> QED
  BY <1>1 DEF Outcomes, Places, Endings

LEMMA OutcomesNext ==
    ASSUME JournalTyped'
    PROVE  /\ Len(stream') \in Nat
           /\ \A i : i \in Outcomes' <=> i \in 1 .. Len(stream') /\ stream'[i].kind \in Endings
           /\ \A i : i \in Places("fallback-advanced")' <=>
                       i \in 1 .. Len(stream') /\ stream'[i].kind = "fallback-advanced"
<1>1. Len(stream') \in Nat /\ DOMAIN stream' = 1 .. Len(stream')
  BY Sequences DEF JournalTyped, JournalTypes, IsASequence
<1> QED
  BY <1>1 DEF Outcomes, Places, Endings

SameOutcomes ==
    /\ Outcomes' = Outcomes /\ Places("fallback-advanced")' = Places("fallback-advanced")
    /\ \A i \in Outcomes : stream'[i] = stream[i]

LEMMA OutcomesStay ==
    ASSUME JournalTyped, JournalTyped', StreamGrows,
           \A i \in 1 .. Len(stream') : \/ i \in 1 .. Len(stream)
                                        \/ stream'[i].kind \notin Endings \cup {"fallback-advanced"}
    PROVE  SameOutcomes
<1>1. ASSUME NEW i PROVE i \in Outcomes' <=> i \in Outcomes
  BY OutcomesAre, OutcomesNext DEF StreamGrows
<1>2. ASSUME NEW i
      PROVE  i \in Places("fallback-advanced")' <=> i \in Places("fallback-advanced")
  BY OutcomesAre, OutcomesNext DEF StreamGrows
<1>3. \A i \in Outcomes : stream'[i] = stream[i]
  BY OutcomesAre DEF StreamGrows
<1>4. Outcomes' = Outcomes
  BY <1>1 DEF Outcomes, Places
<1>5. Places("fallback-advanced")' = Places("fallback-advanced")
  BY <1>2 DEF Places
<1> QED
  BY <1>3, <1>4, <1>5 DEF SameOutcomes

(* Whatever has an outcome and still goes on was given up on.               *)
OutcomeOf(i) ==
    /\ stream[i].said # "given up" => at \in {"sent", "lost", "never"} /\ i = Len(stream)
    /\ stream[i].said = "given up" =>
         /\ abort /\ at \notin {"start", "never"}
         /\ at \in {"between", "turn"} => i = Len(stream)
         /\ \A j, l \in 1 .. Len(stream) : Quietly(i, j) /\ Quietly(i, l) => j = l

LEMMA OutcomesTold ==
    ASSUME JournalTyped, JournalTyped', OutcomeInv, MemberAlone,
           at \in {"between", "turn", "broken"}, at' \in {"sink", "sent"},
           NEW a \in {0, 1}, NEW ref, NEW r \in {0, 1}, NEW e, Told(a, ref, r, e),
           a = 0 \/ r = 0, at = "broken" => a = 0 /\ r = 0,
           r = 1 => e.kind \notin Endings \cup {"fallback-advanced"}
    PROVE  OutcomeInv' /\ \A i \in Outcomes' : stream'[i].said = "given up"
<1>1. PICK n : n = Len(stream)
  OBVIOUS
<1>2. StreamGrows /\ n \in Nat /\ Flushed \in {0, 1} /\ ToldOnly(n, a, ref, r, e)
  BY <1>1, ToldWhere, ToldGrows, Zenon
<1>3. /\ OneharnessSession(Here).kind = "oneharness-session"
      /\ TurnStarted(journal.pending, ref).kind = "turn-started"
  BY DEF OneharnessSession, TurnStarted, Event
<1>4. SameOutcomes
  <2>1. \A i \in 1 .. Len(stream') : \/ i \in 1 .. Len(stream)
                                     \/ stream'[i].kind \notin Endings \cup {"fallback-advanced"}
    BY <1>1, <1>2, <1>3 DEF ToldOnly, Endings
  <2> QED
    BY <1>2, <2>1, OutcomesStay
<1>5. ASSUME NEW i \in Outcomes
      PROVE  /\ stream[i].said = "given up" /\ stream'[i] = stream[i] /\ abort
             /\ i \in 1 .. n /\ (at \in {"between", "turn"} => i = n)
             /\ \A j, l \in 1 .. n : Quietly(i, j) /\ Quietly(i, l) => j = l
  BY <1>1, <1>4, OutcomesAre DEF OutcomeInv, SameOutcomes
<1>6. ASSUME NEW i \in Outcomes, NEW j \in 1 .. Len(stream'), NEW l \in 1 .. Len(stream'),
             Quietly(i, j)', Quietly(i, l)'
      PROVE  j = l
  <2>1. ASSUME NEW x \in 1 .. Len(stream'), Quietly(i, x)'
        PROVE  \/ x \in 1 .. n /\ Quietly(i, x)
               \/ a = 1 /\ x = n + 1
               \/ r = 1 /\ x = n + a + Flushed + 1
    BY <1>1, <1>2, <1>3, <2>1 DEF ToldOnly, Quietly
  <2>2. CASE at = "broken"
    <3>1. a = 0 /\ r = 0
      BY <2>2
    <3>2. j \in 1 .. n /\ Quietly(i, j) /\ l \in 1 .. n /\ Quietly(i, l)
      BY <1>6, <2>1, <3>1
    <3> QED
      BY <1>5, <3>2
  <2>3. CASE at \in {"between", "turn"}
    <3>1. ASSUME NEW x \in 1 .. n PROVE ~Quietly(i, x)
      <4>1. i = n
        BY <1>5, <2>3, Zenon
      <4>2. ~ (x > n)
        BY <1>2
      <4> QED
        BY <4>1, <4>2, Zenon DEF Quietly
    <3> QED
      BY <1>6, <2>1, <3>1
  <2> QED
    BY <2>2, <2>3
<1>7. ASSUME NEW i \in Outcomes' PROVE OutcomeOf(i)' /\ stream'[i].said = "given up"
  <2>1. i \in Outcomes /\ stream'[i].said = "given up" /\ abort'
    BY <1>4, <1>5 DEF SameOutcomes, MemberAlone
  <2>2. \A j, l \in 1 .. Len(stream') : Quietly(i, j)' /\ Quietly(i, l)' => j = l
    BY <1>6, <2>1
  <2> QED
    BY <2>1, <2>2 DEF OutcomeOf
<1>8. /\ member' # "done" => Outcomes' = {} /\ Places("fallback-advanced")' = {}
      /\ \A i, j \in Outcomes' : i = j
  BY <1>4 DEF SameOutcomes, OutcomeInv, MemberAlone
<1> QED
  BY <1>7, <1>8 DEF OutcomeInv, OutcomeOf

(* What tells nothing, and is no step of an engine that has answered.       *)
LEMMA OutcomesAlone ==
    ASSUME JournalTyped, JournalTyped', OutcomeInv, UNCHANGED stream,
           member' # "done" => member # "done", abort => abort',
           \A i \in Outcomes : at' = at \/ (at \in {"between", "turn"} /\ at' = "lost")
                                        \/ at' = "broken",
           at \notin {"start", "never"} => at' \notin {"start", "never"},
           at' \in {"sent", "lost", "never"} \/ at \notin {"sent", "lost", "never"}
    PROVE  OutcomeInv' /\ SameOutcomes
<1>1. /\ Outcomes' = Outcomes /\ Places("fallback-advanced")' = Places("fallback-advanced")
      /\ \A i, j : Quietly(i, j)' <=> Quietly(i, j)
  BY DEF Outcomes, Places, Quietly
<1>2. SameOutcomes
  BY <1>1 DEF SameOutcomes
<1>3. ASSUME NEW i \in Outcomes PROVE OutcomeOf(i)'
  BY <1>1 DEF OutcomeInv, OutcomeOf
<1> QED
  BY <1>1, <1>2, <1>3 DEF OutcomeInv, OutcomeOf

(* An outcome that is told is the only one, after its telemetry.            *)
LEMMA EndingIs ==
    ASSUME JournalTyped, JournalTyped', OutcomeInv, NEW m \in {0, Len(fell)}, NEW e, Ended(m, e)
    PROVE  /\ Len(stream) \in Nat /\ m \in Nat /\ Len(stream') = Len(stream) + m + 1
           /\ stream'[Len(stream) + m + 1] = e /\ member' = "done" /\ abort' = abort
           /\ Outcomes' = {Len(stream) + m + 1}
           /\ Places("fallback-advanced")' = Len(stream) + 1 .. Len(stream) + m
           /\ \A i \in 1 .. m : stream'[Len(stream) + i] = FallbackAdvanced(fell[i])
<1>1. PICK n : n = Len(stream)
  OBVIOUS
<1>2. n \in Nat /\ m \in Nat /\ Len(stream') = n + m + 1
  BY <1>1, OutcomesAre DEF Ended, JournalTyped, JournalTypes
<1>3. /\ stream'[n + m + 1] = e
      /\ e.kind \in Endings /\ member # "done" /\ member' = "done" /\ abort' = abort
      /\ \A i \in 1 .. n : stream'[i] = stream[i]
      /\ \A i \in 1 .. m : stream'[n + i] = FallbackAdvanced(fell[i])
  BY <1>1, Zenon DEF Ended, Endings
<1>4. \A i \in 1 .. n : stream[i].kind \notin Endings \cup {"fallback-advanced"}
  <2>1. Outcomes = {} /\ Places("fallback-advanced") = {}
    BY <1>3 DEF OutcomeInv
  <2> QED
    BY <1>1, <2>1, OutcomesAre
<1>5. ASSUME NEW i \in n + 1 .. n + m PROVE stream'[i].kind = "fallback-advanced"
  <2>1. i - n \in 1 .. m /\ n + (i - n) = i
    BY <1>2
  <2>2. stream'[n + (i - n)] = FallbackAdvanced(fell[i - n])
    BY <1>3, <2>1
  <2> QED
    BY <2>1, <2>2 DEF FallbackAdvanced, Event
<1>6. ASSUME NEW i \in 1 .. Len(stream')
      PROVE  i \in 1 .. n \/ i \in n + 1 .. n + m \/ i = n + m + 1
  BY <1>2
<1>7. "fallback-advanced" \notin Endings
  BY DEF Endings
<1>8. ASSUME NEW i PROVE i \in Outcomes' <=> i = n + m + 1
  <2>1. ASSUME i \in Outcomes' PROVE i = n + m + 1
    <3>1. i \in 1 .. Len(stream') /\ stream'[i].kind \in Endings
      BY <2>1, OutcomesNext
    <3> QED
      BY <1>3, <1>4, <1>5, <1>6, <1>7, <3>1
  <2>2. n + m + 1 \in 1 .. Len(stream')
    BY <1>2
  <2> QED
    BY <1>3, <2>1, <2>2, OutcomesNext
<1>9. ASSUME NEW i PROVE i \in Places("fallback-advanced")' <=> i \in n + 1 .. n + m
  <2>1. ASSUME i \in Places("fallback-advanced")' PROVE i \in n + 1 .. n + m
    <3>1. i \in 1 .. Len(stream') /\ stream'[i].kind = "fallback-advanced"
      BY <2>1, OutcomesNext
    <3> QED
      BY <1>3, <1>4, <1>5, <1>6, <1>7, <3>1
  <2>2. ASSUME i \in n + 1 .. n + m PROVE i \in Places("fallback-advanced")'
    <3>1. i \in 1 .. Len(stream')
      BY <1>2, <2>2
    <3> QED
      BY <1>5, <2>2, <3>1, OutcomesNext
  <2> QED
    BY <2>1, <2>2
<1>10. Outcomes' = {n + m + 1}
  BY <1>8 DEF Outcomes, Places
<1>11. Places("fallback-advanced")' = n + 1 .. n + m
  <2>1. \A i \in Places("fallback-advanced")' : i \in n + 1 .. n + m
    BY <1>9
  <2>2. \A i \in n + 1 .. n + m : i \in Places("fallback-advanced")'
    BY <1>9
  <2> QED
    BY <2>1, <2>2
<1> QED
  BY <1>1, <1>3, <1>2, <1>10, <1>11

(* Where the engine is when e is told: over, or given up on.                *)
ToldWhen(e) ==
    /\ e.said = "given up" => member = "tearing" /\ at' = at
    /\ e.said # "given up" => at' \in {"sent", "lost", "never"}

LEMMA OutcomesEnded ==
    ASSUME JournalTyped, JournalTyped', OutcomeInv, NEW m \in {0, Len(fell)}, NEW e, Ended(m, e),
           ToldWhen(e)
    PROVE  OutcomeInv'
<1>1. PICK x : x = Len(stream) + m + 1
  OBVIOUS
<1>2. /\ Outcomes' = {x} /\ stream'[x] = e /\ x = Len(stream') /\ x \in Nat
      /\ member' = "done" /\ abort' = abort
  <2>1. Len(stream) \in Nat /\ m \in Nat
    BY EndingIs, Zenon
  <2>2. x \in Nat
    BY <1>1, <2>1
  <2> QED
    BY <1>1, <2>2, EndingIs, Zenon
<1>3. e.said = "given up" => abort /\ at' \notin {"start", "never"}
  BY DEF JournalTyped, EngineHasATurn, ToldWhen
<1>4. \A j \in 1 .. Len(stream') : ~Quietly(x, j)'
  BY <1>2 DEF Quietly
<1>5. OutcomeOf(x)'
  BY <1>2, <1>3, <1>4 DEF OutcomeOf, ToldWhen
<1> QED
  BY <1>2, <1>5 DEF OutcomeInv, OutcomeOf

(* Of a step that is not an ending, and not none: who had an outcome was    *)
(* given up on.                                                             *)
LEMMA OutcomeKept ==
    ASSUME JournalTyped, JournalTyped', OutcomeInv, [JournalNext]_journalVars
    PROVE  /\ OutcomeInv'
           /\ \/ UNCHANGED journalVars \/ HasEnded
              \/ \A i \in Outcomes' : stream'[i].said = "given up"
<1>0. PICK z, y : z = 0 /\ z \in {0, 1} /\ y = 1 /\ y \in {0, 1}
  OBVIOUS
<1>1. ASSUME NEW i \in Outcomes
      PROVE  stream[i].said # "given up" => at \in {"sent", "lost", "never"} /\ member = "done"
  BY DEF OutcomeInv
<1>2. ASSUME SameOutcomes, at \notin {"sent", "lost", "never"} \/ member # "done"
      PROVE  \A i \in Outcomes' : stream'[i].said = "given up"
  BY <1>1, <1>2 DEF SameOutcomes, OutcomeInv
<1>3. CASE UNCHANGED journalVars
  BY <1>3, OutcomesAlone DEF journalVars, engine
<1>4. CASE OpensTurn /\ MemberAlone
  <2>1. PICK ref, e : ref = Inline /\ e = 0
    OBVIOUS
  <2>2. Told(z, ref, z, e) /\ at = "between" /\ at' = "sink" /\ MemberAlone /\ z = 0 /\ z # 1
    BY <1>0, <1>4, <2>1 DEF OpensTurn
  <2> QED
    BY <1>0, <2>2, OutcomesTold
<1>5. ASSUME NEW w, NEW j, NEW a \in {0, 1}, NEW ref, NEW r \in {0, 1}, NEW e,
             Observes(w, j, a, ref, r, e), MemberAlone, a = 0 \/ r = 0,
             r = 1 => e.kind \notin Endings \cup {"fallback-advanced"}
      PROVE  OutcomeInv' /\ \A i \in Outcomes' : stream'[i].said = "given up"
  <2>1. Told(a, ref, r, e) /\ at = "turn" /\ at' = "sink"
    BY <1>5 DEF Observes
  <2> QED
    BY <1>5, <2>1, OutcomesTold
<1> USE DEF Endings, Event
<1>6. CASE (\E h \in {"readable", "unreadable"} : HasBegun(h)) /\ MemberAlone
  <2>1. PICK h : HasBegun(h)
    BY <1>6
  <2>2. PICK g, a, w, j : /\ g = (IF h = "readable" THEN Here ELSE Inline)
                          /\ a = (IF h = "readable" THEN 1 ELSE 0) /\ a \in {0, 1}
                          /\ w = (IF Party(Now) = "assistant" THEN g ELSE journal.worker)
                          /\ j = (IF Party(Now) = "assistant" THEN journal.judge ELSE g)
    OBVIOUS
  <2>3. Observes(w, j, a, g, z, z)
    BY <1>0, <2>1, <2>2 DEF HasBegun
  <2>4. Told(a, g, z, z) /\ at \in {"between", "turn", "broken"} /\ at' \in {"sink", "sent"}
        /\ at # "broken" /\ z = 0 /\ z # 1 /\ MemberAlone
    BY <1>0, <1>6, <2>3 DEF Observes
  <2> QED
    BY <1>0, <2>2, <2>4, OutcomesTold, Zenon
<1>7. CASE HasActed /\ MemberAlone
  BY <1>5, <1>7 DEF HasActed, TurnActivity
<1>8. CASE HasDecided /\ MemberAlone
  BY <1>5, <1>8 DEF HasDecided, JudgeDecided
<1>9. CASE HasSpoken /\ MemberAlone
  BY <1>5, <1>9 DEF HasSpoken, TurnMessage
<1>10. CASE HasClosed /\ MemberAlone
  BY <1>5, <1>10 DEF HasClosed, TurnCompleted
<1>11. CASE HasAnswered /\ MemberAlone
  <2>1. PICK ref, e : ref = Inline /\ e = 0
    OBVIOUS
  <2>2. /\ Told(z, ref, z, e) /\ at \in {"between", "turn", "broken"} /\ at' = "sent" /\ MemberAlone
        /\ z = 0 /\ z # 1
    BY <1>0, <1>11, <2>1 DEF HasAnswered
  <2> QED
    BY <1>0, <2>2, OutcomesTold
<1>12. CASE (HasFallen \/ HasNextJudge) /\ ToldNothing
  <2>1. OutcomeInv' /\ SameOutcomes
    BY <1>12, OutcomesAlone DEF ToldNothing, HasFallen, HasNextJudge
  <2> QED
    BY <1>2, <1>12, <2>1 DEF HasFallen, HasNextJudge
<1>13. CASE HasEnded
  <2>1. ASSUME NEW m \in {0, Len(fell)}, NEW e, Ended(m, e), ToldWhen(e) PROVE OutcomeInv'
    BY <2>1, OutcomesEnded
  <2>0. 0 \in {0, Len(fell)} /\ Len(fell) \in {0, Len(fell)}
    OBVIOUS
  <2>2. CASE at = "start" /\ at' = "never" /\ Ended(0, MemberDied("unstartable"))
    <3>1. PICK q, d : q = 0 /\ q \in {0, Len(fell)} /\ d = MemberDied("unstartable")
      OBVIOUS
    <3>2. q \in {0, Len(fell)} /\ ToldWhen(d) /\ Ended(q, d)
      BY <2>2, <3>1 DEF ToldWhen, MemberDied
    <3> QED
      BY <1>13, <2>1, <3>2, Zenon
  <2>3. CASE at = "lost" /\ at' = at /\ Ended(0, MemberDied("lost"))
    <3>1. PICK q, d : q = 0 /\ q \in {0, Len(fell)} /\ d = MemberDied("lost")
      OBVIOUS
    <3>2. q \in {0, Len(fell)} /\ ToldWhen(d) /\ Ended(q, d)
      BY <2>3, <3>1 DEF ToldWhen, MemberDied
    <3> QED
      BY <1>13, <2>1, <3>2, Zenon
  <2>4. CASE member = "tearing" /\ at' = at /\ Ended(0, MemberDied("given up"))
    <3>1. PICK q, d : q = 0 /\ q \in {0, Len(fell)} /\ d = MemberDied("given up")
      OBVIOUS
    <3>2. q \in {0, Len(fell)} /\ ToldWhen(d) /\ Ended(q, d)
      BY <2>4, <3>1 DEF ToldWhen, MemberDied
    <3> QED
      BY <1>13, <2>1, <3>2, Zenon
  <2>5. ASSUME at = "sent", at' = at,
               NEW e \in {MemberSettled("completed"), MemberSettled("incomplete"),
                          MemberDied("cancelled"), MemberDied("provider"), MemberDied("condemned")},
               Ended(Len(fell), e)
        PROVE  OutcomeInv'
    <3>1. e.said \in {"completed", "incomplete", "cancelled", "provider", "condemned"}
      BY <2>5 DEF MemberDied, MemberSettled
    <3>2. ToldWhen(e)
      BY <2>5, <3>1 DEF ToldWhen
    <3> QED
      BY <2>0, <2>1, <2>5, <3>2, Zenon
  <2> QED
    BY <1>13, <2>2, <2>3, <2>4, <2>5 DEF HasEnded
<1>14. CASE HasMoved
  <2>1. at \notin {"sent", "lost", "never"} \/ member # "done"
    BY <1>14 DEF HasMoved
  <2>2. /\ UNCHANGED stream /\ (member' # "done" => member # "done") /\ (abort => abort')
        /\ at \notin {"start", "never"} => at' \notin {"start", "never"}
        /\ at' \in {"sent", "lost", "never"} \/ at \notin {"sent", "lost", "never"}
    BY <1>14 DEF HasMoved
  <2>3. ASSUME NEW i \in Outcomes
        PROVE  at' = at \/ (at \in {"between", "turn"} /\ at' = "lost") \/ at' = "broken"
    BY <1>1, <1>14, <2>1 DEF HasMoved, OutcomeInv
  <2>4. OutcomeInv' /\ SameOutcomes
    BY <2>2, <2>3, OutcomesAlone
  <2> QED
    BY <1>2, <2>1, <2>4
<1> QED
  BY <1>3, <1>4, <1>6, <1>7, <1>8, <1>9, <1>10, <1>11, <1>12, <1>13, <1>14, JournalSteps, Zenon

-----------------------------------------------------------------------------
(* What is said of the outcome.                                             *)

(* Of the invocations there were none is after the one a failure is in; so  *)
(* if that left a record, it is the one the failure is held against.        *)
LEMMA TurnRecordIs ==
    ASSUME JournalTyped, NEW f \in FailedIn, f \in DOMAIN answer.records
    PROVE  TurnRecord = {f}
<1>1. Now \in Nat /\ \A k \in 1 .. Now : Last_(k) \in Nat
  BY Lengths DEF JournalTyped, JournalTypes
<1>2. f = Here /\ f \in Invocations
  BY DEF FailedIn
<1>3. PICK n, l : n = Now /\ l = Last_(Now)
  OBVIOUS
<1>4. f = <<n, l>> /\ n \in 1 .. Now /\ n \in Nat /\ l \in Nat
  BY <1>1, <1>2, <1>3 DEF Here, Invocations
<1>5. ASSUME NEW d \in Invocations, d # f PROVE Earlier(d, f) /\ ~Earlier(f, d)
  <2>1. d \in (1 .. Now) \X (1 .. Candidates) /\ d[2] <= Last_(d[1])
    BY <1>1, <1>5, JournalAssumption DEF Invocations
  <2>2. d = <<d[1], d[2]>> /\ d[1] \in 1 .. n /\ d[2] \in Nat
    BY <1>3, <2>1, JournalAssumption
  <2>3. f[1] = n /\ f[2] = l /\ (d[1] = n => d[2] <= l /\ d[2] # l)
    BY <1>3, <1>4, <1>5, <2>1, <2>2
  <2> QED
    BY <1>4, <2>2, <2>3 DEF Earlier
<1>6. DOMAIN answer.records \subseteq Invocations
  BY DEF JournalTyped, AnswerIsOfTheTurns
<1>7. ASSUME NEW c \in TurnRecord PROVE c = f
  BY <1>5, <1>6 DEF TurnRecord
<1> QED
  BY <1>5, <1>6, <1>7 DEF TurnRecord

Billed == {c \in DOMAIN answer.records : answer.records[c] = "billed"}

AgreesOf(i) ==
    LET told == {j \in Places("fallback-advanced") : j < i}
    IN  /\ stream[i].said \notin {"given up", "lost"} =>
             /\ {stream[j].said : j \in told} = PassedOver
             /\ \A j, l \in told : j < l => Earlier(stream[j].said, stream[l].said)
        /\ answer.failed /\ stream[i].said = "provider" => FailedIn \cap Billed = {}
        /\ answer.failed /\ stream[i].said \in {"completed", "incomplete"} =>
             Billed # {} /\ FailedIn \cap DOMAIN answer.records \subseteq Billed

(* The candidates told are the ones passed over, in their order.            *)
LEMMA ToldInOrder ==
    ASSUME TelemetryIsTheRecords, NEW n \in Nat, NEW told,
           told = n + 1 .. n + Len(fell), Len(fell) \in Nat,
           \A i \in 1 .. Len(fell) : stream'[n + i] = FallbackAdvanced(fell[i])
    PROVE  /\ {stream'[j].said : j \in told} = PassedOver
           /\ \A j, l \in told : j < l => Earlier(stream'[j].said, stream'[l].said)
<1>1. \A i : FallbackAdvanced(fell[i]).said = fell[i]
  BY DEF FallbackAdvanced, Event
<1>2. ASSUME NEW j \in told PROVE j - n \in 1 .. Len(fell) /\ stream'[j].said = fell[j - n]
  <2>1. j - n \in 1 .. Len(fell) /\ n + (j - n) = j
    OBVIOUS
  <2>2. stream'[n + (j - n)] = FallbackAdvanced(fell[j - n])
    BY <2>1
  <2> QED
    BY <1>1, <2>1, <2>2
<1>3. ASSUME NEW c \in PassedOver PROVE \E j \in told : stream'[j].said = c
  <2>1. PICK i \in 1 .. Len(fell) : fell[i] = c
    BY DEF TelemetryIsTheRecords
  <2>2. PICK j : j = n + i
    OBVIOUS
  <2>3. j \in told /\ j - n = i
    BY <2>1, <2>2
  <2> QED
    BY <1>2, <2>1, <2>3
<1>4. ASSUME NEW j \in told PROVE stream'[j].said \in PassedOver
  BY <1>2 DEF TelemetryIsTheRecords
<1>5. ASSUME NEW j \in told, NEW l \in told, j < l
      PROVE  Earlier(stream'[j].said, stream'[l].said)
  <2>1. j - n < l - n
    BY <1>5
  <2>2. Earlier(fell[j - n], fell[l - n])
    BY <1>2, <2>1 DEF TelemetryIsTheRecords
  <2> QED
    BY <1>2, <2>2
<1> QED
  BY <1>3, <1>4, <1>5

(* With an engine that was heard, or never began, goes all of its           *)
(* telemetry; and a failure is not what its record contradicts.             *)
ToldWith(m, e) ==
    /\ ReadOf(e)
    /\ e.said \notin {"given up", "lost"} => m = Len(fell)

LEMMA AgreesEnded ==
    ASSUME JournalTyped, JournalTyped', OutcomeInv, TelemetryIsTheRecords,
           NEW m \in {0, Len(fell)}, NEW e, Ended(m, e), ToldWith(m, e)
    PROVE  OutcomeAgreesWithRecords'
<1>1. PICK n, x : n = Len(stream) /\ x = n + m + 1
  OBVIOUS
<1>2. /\ Outcomes' = {x} /\ stream'[x] = e
      /\ Places("fallback-advanced")' = n + 1 .. n + m
      /\ \A i \in 1 .. m : stream'[n + i] = FallbackAdvanced(fell[i])
  BY <1>1, EndingIs, Zenon
<1>3. n \in Nat /\ m \in Nat
  BY <1>1, EndingIs, Zenon
<1>4. PassedOver' = PassedOver /\ FailedIn' = FailedIn /\ answer' = answer /\ Billed' = Billed
  BY DEF Ended, PassedOver, FailedIn, Invocations, Here, Chair, Billed, Now, Last_
<1>5. PICK told : told = {j \in Places("fallback-advanced")' : j < x}
  OBVIOUS
<1>6. told = n + 1 .. n + m
  <2>1. \A j \in n + 1 .. n + m : j < n + m + 1
    BY <1>3
  <2> QED
    BY <1>1, <1>2, <1>5, <2>1
<1>7. ASSUME e.said \notin {"given up", "lost"}
      PROVE  /\ {stream'[j].said : j \in told} = PassedOver'
             /\ \A j, l \in told : j < l => Earlier(stream'[j].said, stream'[l].said)
  <2>1. told = n + 1 .. n + Len(fell) /\ Len(fell) \in Nat
        /\ \A i \in 1 .. Len(fell) : stream'[n + i] = FallbackAdvanced(fell[i])
    <3>1. m = Len(fell)
      BY <1>7 DEF ToldWith
    <3> QED
      BY <1>2, <1>3, <1>6, <3>1
  <2>2. n \in Nat
    BY <1>3
  <2> HIDE <1>1, <1>2, <1>3, <1>5, <1>6, <1>7
  <2> QED
    BY <1>4, <2>1, <2>2, ToldInOrder
<1>8. e.said = "provider" => FailedIn \cap Billed = {}
  <2> SUFFICES ASSUME e.said = "provider", NEW f \in FailedIn, f \in Billed PROVE FALSE
    OBVIOUS
  <2>1. TurnRecord = {f}
    BY TurnRecordIs DEF Billed
  <2> QED
    BY <2>1 DEF ToldWith, ReadOf, Contradicted, Billed
<1>10. ASSUME answer.failed, e.said \in {"completed", "incomplete"}
       PROVE  Billed # {} /\ FailedIn \cap DOMAIN answer.records \subseteq Billed
  <2>1. PICK c \in TurnRecord : answer.records[c] = "billed"
    BY <1>10 DEF ToldWith, ReadOf, Contradicted
  <2>2. c \in Billed
    BY <2>1 DEF TurnRecord, Billed
  <2>3. ASSUME NEW f \in FailedIn, f \in DOMAIN answer.records PROVE f = c
    BY <2>1, <2>3, TurnRecordIs
  <2> QED
    BY <2>2, <2>3
<1>9. AgreesOf(x)'
  BY <1>2, <1>4, <1>5, <1>7, <1>8, <1>10, Zenon DEF AgreesOf
<1> QED
  BY <1>2, <1>9, Zenon DEF OutcomeAgreesWithRecords, AgreesOf, Billed

LEMMA OutcomeAgreesKept ==
    ASSUME JournalTyped, JournalTyped', OutcomeInv, TelemetryIsTheRecords,
           OutcomeAgreesWithRecords, [JournalNext]_journalVars
    PROVE  OutcomeAgreesWithRecords'
<1>1. CASE UNCHANGED journalVars
  <2>1. /\ UNCHANGED stream /\ Outcomes' = Outcomes /\ PassedOver' = PassedOver
        /\ Places("fallback-advanced")' = Places("fallback-advanced")
        /\ answer' = answer /\ FailedIn' = FailedIn
    BY <1>1 DEF journalVars, engine, Outcomes, Places, PassedOver, FailedIn, Invocations, Here, Chair,
                Now, Last_
  <2> QED
    BY <2>1, Zenon DEF OutcomeAgreesWithRecords
<1>2. CASE \A i \in Outcomes' : stream'[i].said = "given up"
  BY <1>2 DEF OutcomeAgreesWithRecords
<1>3. CASE HasEnded
  <2>1. ASSUME NEW m \in {0, Len(fell)}, NEW e, Ended(m, e),
               ToldWith(m, e)
        PROVE  OutcomeAgreesWithRecords'
    BY <2>1, AgreesEnded
  <2>2. CASE at = "start" /\ at' = "never" /\ Ended(0, MemberDied("unstartable"))
    <3>1. Len(fell) = 0
      <4>1. Now = 0
        BY <2>2 DEF JournalTyped, EngineHasATurn, Now
      <4>2. PassedOver = {}
        BY <4>1 DEF PassedOver
      <4>3. Len(fell) \in Nat
        BY DEF JournalTyped, JournalTypes
      <4> QED
        BY <4>2, <4>3 DEF TelemetryIsTheRecords
    <3>2. PICK q, d : q = 0 /\ q \in {0, Len(fell)} /\ d = MemberDied("unstartable")
      OBVIOUS
    <3>3. q \in {0, Len(fell)} /\ Ended(q, d) /\ ToldWith(q, d)
      BY <2>2, <3>1, <3>2 DEF MemberDied, Event, ToldWith, ReadOf
    <3> QED
      BY <2>1, <3>3, Zenon
  <2>3. ASSUME NEW why \in {"lost", "given up"}, Ended(0, MemberDied(why))
        PROVE  OutcomeAgreesWithRecords'
    <3>1. PICK q, d : q = 0 /\ q \in {0, Len(fell)} /\ d = MemberDied(why)
      OBVIOUS
    <3>2. q \in {0, Len(fell)} /\ Ended(q, d) /\ ToldWith(q, d)
      BY <2>3, <3>1 DEF MemberDied, Event, ToldWith, ReadOf
    <3> QED
      BY <2>1, <3>2, Zenon
  <2>4. ASSUME NEW e, Ended(Len(fell), e), ReadOf(e)
        PROVE  OutcomeAgreesWithRecords'
    <3>1. Len(fell) \in {0, Len(fell)} /\ ToldWith(Len(fell), e)
      BY <2>4 DEF ToldWith
    <3> QED
      BY <2>1, <2>4, <3>1, Zenon
  <2> QED
    BY <1>3, <2>2, <2>3, <2>4, Zenon DEF HasEnded
<1> QED
  BY <1>1, <1>2, <1>3, OutcomeKept

-----------------------------------------------------------------------------

(* The journal's invariant is inductive: what is typed, what the chains     *)
(* passed over, what is opened, what is referred to and how it ended.       *)
THEOREM JournalInvHolds == JournalSpec => []JournalInv
<1>1. JournalInit => JournalInv
  BY JournalStarts
<1>2. JournalInv /\ [JournalNext]_journalVars => JournalInv'
  <2> SUFFICES ASSUME JournalInv, [JournalNext]_journalVars PROVE JournalInv'
    OBVIOUS
  <2>1. JournalTyped'
    BY JournalTypesKept DEF JournalInv
  <2>2. TelemetryIsTheRecords'
    BY TelemetryKept DEF JournalInv
  <2>3. OpeningsInv'
    BY OpeningsKept DEF JournalInv
  <2>4. ReferencesInv'
    BY ReferencesKept DEF JournalInv
  <2>5. OutcomeInv'
    BY <2>1, OutcomeKept DEF JournalInv
  <2>6. OutcomeAgreesWithRecords'
    BY <2>1, OutcomeAgreesKept DEF JournalInv
  <2> QED
    BY <2>1, <2>2, <2>3, <2>4, <2>5, <2>6 DEF JournalInv
<1> QED
  BY <1>1, <1>2, PTL DEF JournalSpec

(* What is told of an ending agrees with the records it was read from: each *)
(* candidate passed over once and in its turn, no death over a record the   *)
(* failed invocation left of a turn that was billed, and no settle over     *)
(* another it left (judge.rs:1361-1397), for any number of turns,           *)
(* candidates and records.                                                  *)
THEOREM OutcomeAgreesWithRecordsHolds == JournalSpec => []OutcomeAgreesWithRecords
<1>1. JournalInv => OutcomeAgreesWithRecords
  BY DEF JournalInv
<1> QED
  BY <1>1, JournalInvHolds, PTL

LEMMA ResolveIs ==
    ASSUME NEW c, turns[c[1]][c[2]].history = "readable"
    PROVE  /\ Resolve(c, "instruction") = Instruction(c[1])
           /\ Resolve(c, "text") \in {Text(c), Unavailable}
           /\ turns[c[1]][c[2]].acted => Resolve(c, "activity") = Act(c)
<1>1. Resolve(c, "instruction") = Instruction(c[1])
  BY DEF Resolve
<1>2. Resolve(c, "text") \in {Text(c), Unavailable}
  BY DEF Resolve
<1>3. turns[c[1]][c[2]].acted => Resolve(c, "activity") = Act(c)
  BY DEF Resolve
<1> QED
  BY <1>1, <1>2, <1>3

(* A reference that a reader follows leads to what was said, of a candidate *)
(* that was announced before (judge.rs:927-1009).                           *)
THEOREM RenderedAsSaidHolds == JournalSpec => []RenderedAsSaid
<1>1. ASSUME JournalInv, NEW i \in DOMAIN stream, stream[i].kind \in DOMAIN Field,
             stream[i].ref # Inline
      PROVE  /\ \/ Rendered(stream[i]) = stream[i].said
                \/ stream[i].kind = "turn-message" /\ Rendered(stream[i]) = Unavailable
             /\ \E j \in Places("oneharness-session") : j < i /\ stream[j].ref = stream[i].ref
  <2>1. Len(stream) \in Nat /\ i \in 1 .. Len(stream) /\ DOMAIN stream = 1 .. Len(stream)
    BY <1>1, Lengthened DEF JournalInv, JournalTyped, JournalTypes
  <2>2. PICK e, c : e = stream[i] /\ c = stream[i].ref
    OBVIOUS
  <2>3. RefersTo(e) /\ AnnouncedBy(i - 1, c) /\ e.ref = c
    BY <1>1, <2>1, <2>2 DEF JournalInv, ReferencesInv, ReferencesHold
  <2>4. \E j \in Places("oneharness-session") : j < i /\ stream[j].ref = c
    <3>1. PICK j \in 1 .. Len(stream) :
             j <= i - 1 /\ stream[j].kind = "oneharness-session" /\ stream[j].ref = c
      BY <2>3 DEF AnnouncedBy
    <3>2. j < i
      BY <2>1, <3>1
    <3> QED
      BY <2>1, <3>1, <3>2 DEF Places
  <2>5. Rendered(e) = Resolve(c, Field[e.kind])
    BY <1>1, <2>2 DEF Rendered
  <2>6. turns[c[1]][c[2]].history = "readable"
    BY <2>3 DEF RefersTo, Readable
  <2>7. e.kind \in {"turn-started", "turn-activity", "turn-message"}
    BY <1>1, <2>2, FieldIs
  <2>8. ASSUME e.kind = "turn-started" PROVE Rendered(e) = e.said
    BY <2>3, <2>5, <2>6, <2>8, FieldIs, ResolveIs DEF RefersTo
  <2>9. ASSUME e.kind = "turn-activity" PROVE Rendered(e) = e.said
    BY <2>3, <2>5, <2>6, <2>9, FieldIs, ResolveIs DEF RefersTo
  <2>10. ASSUME e.kind = "turn-message" PROVE Rendered(e) \in {e.said, Unavailable}
    <3>1. Rendered(e) = Resolve(c, "text")
      BY <2>5, <2>10, FieldIs
    <3> QED
      BY <2>3, <2>6, <2>10, <3>1, ResolveIs DEF RefersTo
  <2> QED
    BY <2>2, <2>4, <2>7, <2>8, <2>9, <2>10
<1>2. ASSUME NEW i \in DOMAIN stream, stream[i].ref = Inline
      PROVE  Rendered(stream[i]) = stream[i].said
  BY <1>2 DEF Rendered
<1>3. JournalInv => RenderedAsSaid
  BY <1>1, <1>2, Zenon DEF RenderedAsSaid
<1> QED
  BY <1>3, JournalInvHolds, PTL

LEMMA OneAtMost ==
    ASSUME NEW S, \A i, j \in S : i = j
    PROVE  Cardinality(S) <= 1
<1>1. CASE S = {}
  BY <1>1, FS_EmptySet
<1>2. CASE S # {}
  <2>1. PICK x : x \in S
    BY <1>2
  <2>2. S = {x}
    BY <2>1
  <2> QED
    BY <2>2, FS_Singleton
<1> QED
  BY <1>1, <1>2

(* A turn is opened once on the stream, before anything of it but the       *)
(* session it is told by, and every turn of an engine that answered was.    *)
THEOREM OpeningsAreToldHolds == JournalSpec => []OpeningsAreTold
<1>1. ASSUME JournalInv, NEW k \in 1 .. Now, NEW opened,
             opened = {i \in Places("turn-started") : stream[i].turn = k}
      PROVE  /\ Cardinality(opened) <= 1
             /\ at = "sent" => opened # {}
             /\ \A i \in DOMAIN stream :
                  stream[i].turn = k /\ i \notin Places("oneharness-session")
                     /\ i \notin Places("fallback-advanced") =>
                        \E j \in opened : j <= i
  <2>1. /\ JournalTyped /\ OpeningsInv /\ Len(stream) \in Nat
        /\ DOMAIN stream = 1 .. Len(stream) /\ Now \in Nat
    BY <1>1, Lengthened, Lengths DEF JournalInv, JournalTyped, JournalTypes
  <2>2. \A i : i \in opened <=>
                 i \in 1 .. Len(stream) /\ stream[i].kind = "turn-started" /\ stream[i].turn = k
    BY <1>1, <2>1 DEF Places
  <2>3. "turn-started" \notin Telling
    BY DEF Telling
  <2>4. ASSUME NEW i \in 1 .. Len(stream), i \notin Places("oneharness-session"),
               i \notin Places("fallback-advanced")
        PROVE  stream[i].kind \notin Telling
    BY <2>1, <2>4 DEF Places, Telling
  <2>5. CASE k = journal.pending
    <3>1. \A i \in 1 .. Len(stream) : stream[i].turn = k => stream[i].kind \in Telling
      BY <2>1, <2>5 DEF OpeningsInv, OpenedBut
    <3>2. opened = {}
      BY <2>2, <2>3, <3>1
    <3>3. at # "sent"
      BY <2>1, <2>5 DEF OpeningsInv, None
    <3>4. Cardinality(opened) <= 1
      BY <3>2, FS_EmptySet
    <3> QED
      BY <2>1, <2>4, <3>1, <3>3, <3>4
  <2>6. CASE k # journal.pending
    <3>1. PICK j \in 1 .. Len(stream) :
             /\ stream[j].kind = "turn-started" /\ stream[j].turn = k
             /\ \A i \in 1 .. Len(stream) :
                  stream[i].turn = k /\ stream[i].kind \notin Telling =>
                      j <= i /\ (stream[i].kind = "turn-started" => i = j)
      BY <2>1, <2>6 DEF OpeningsInv, OpenedBut
    <3>2. j \in opened
      BY <2>2, <3>1
    <3>3. \A i \in opened : i = j
      BY <2>2, <2>3, <3>1
    <3>4. Cardinality(opened) <= 1
      BY <3>3, OneAtMost
    <3> QED
      BY <2>1, <2>4, <3>1, <3>2, <3>4
  <2> QED
    BY <2>5, <2>6
<1>2. JournalInv => OpeningsAreTold
  BY <1>1 DEF OpeningsAreTold
<1> QED
  BY <1>2, JournalInvHolds, PTL

(* A member has one outcome and it is the end of its story; of an engine    *)
(* the run gave up on, at most one event more and what was pending.         *)
THEOREM LittleAfterTheOutcomeHolds == JournalSpec => []LittleAfterTheOutcome
<1>1. ASSUME JournalInv PROVE Cardinality(Outcomes) <= 1
  <2>1. \A i, j \in Outcomes : i = j
    BY <1>1 DEF JournalInv, OutcomeInv
  <2> QED
    BY <2>1, OneAtMost
<1>2. ASSUME JournalInv, NEW i \in Outcomes, NEW after, after = {j \in DOMAIN stream : j > i}
      PROVE  /\ after # {} => stream[i].said = "given up"
             /\ Cardinality({j \in after : stream[j].kind # "turn-started"}) <= 1
  <2>1. /\ JournalTyped /\ OutcomeInv /\ Len(stream) \in Nat /\ DOMAIN stream = 1 .. Len(stream)
        /\ i \in 1 .. Len(stream)
    BY <1>2, Lengthened, OutcomesAre DEF JournalInv, JournalTyped, JournalTypes
  <2>2. CASE stream[i].said # "given up"
    <3>1. i = Len(stream)
      BY <2>1, <2>2 DEF OutcomeInv
    <3>2. after = {}
      BY <1>2, <2>1, <3>1
    <3>3. Cardinality({j \in after : stream[j].kind # "turn-started"}) <= 1
      BY <3>2, OneAtMost
    <3> QED
      BY <3>2, <3>3
  <2>3. CASE stream[i].said = "given up"
    <3>1. \A j, l \in 1 .. Len(stream) : Quietly(i, j) /\ Quietly(i, l) => j = l
      BY <2>1, <2>3 DEF OutcomeInv
    <3>2. PICK S : S = {j \in after : stream[j].kind # "turn-started"}
      OBVIOUS
    <3>3. \A j \in S : j \in 1 .. Len(stream) /\ Quietly(i, j)
      BY <1>2, <2>1, <3>2 DEF Quietly
    <3>4. Cardinality(S) <= 1
      BY <3>1, <3>3, OneAtMost
    <3> QED
      BY <2>3, <3>2, <3>4
  <2> QED
    BY <2>2, <2>3
<1>3. JournalInv => LittleAfterTheOutcome
  BY <1>1, <1>2 DEF LittleAfterTheOutcome
<1> QED
  BY <1>3, JournalInvHolds, PTL

-----------------------------------------------------------------------------
(* The watchdog.                                                            *)

(* A look is at most a probe interval old when the loop has just been round, *)
(* and a tree that was found moving was found so by the first of its looks.  *)
LooksInTime ==
    /\ observed # "nothing" => taken <= ProbeEvery - 1 + late
    /\ observed = "moving" => base = taken \/ taken > Bound

(* The loop holds the clock as it is, or it was stamped since.              *)
ClockInTime == phase = "read" => published = read \/ published <= late

(* An instant before the first look of the sequence, by half the bound; and *)
(* one no longer before the loop last judged than it may be late.           *)
Before(age) == age = Bound + 1 \/ 2 * (age - base) >= Bound
Lately(age) == age <= late \/ Tolerated(age - late)

(* While a sequence of looks lasts, slow tells whether the loop was late.   *)
LateIsTold == Sampled /\ ~slow => Tolerated(late)

(* Whatever a sequence of looks is evidence about began half a bound before *)
(* it did, or else is too fresh for the loop not to notice.                 *)
SequenceInTime ==
    Sampled /\ ~slow /\ ~condemned =>
        /\ Before(published) \/ Lately(published)
        /\ phase = "read" => Before(read) \/ Lately(read)
        /\ Before(cleared) \/ cleared <= late
        /\ observed = "idle" => 2 * (base - late) <= Bound

(* Of processes that are all still there, what a look finds is what they    *)
(* were charged.                                                            *)
ChargeIsSeen ==
    Sampled =>
        /\ taken >= 1 /\ busy > 0 => fresh
        /\ ~left => change >= 0 /\ (fresh => change >= 1)
        /\ ~left /\ ~slow /\ observed = "idle" => busy <= taken

EvidenceInv ==
    /\ WatchTypeOK /\ LooksInTime /\ ClockInTime /\ LateIsTold
    /\ SequenceInTime /\ ChargeIsSeen

-----------------------------------------------------------------------------
USE DEF Older, Least, Sampled, Before, Lately, Tolerated

LEMMA TypesKept ==
    ASSUME WatchTypeOK, [WatchNext]_watchVars PROVE WatchTypeOK'
<1> USE WatchdogAssumption
<1>1. CASE TimePasses
  <2>1. PICK units \in {0, 1} :
          /\ change' = IF change < MaxChange THEN change + units ELSE change
          /\ busy' = IF units = 0 THEN 0 ELSE IF busy < ProbeEvery THEN busy + 1 ELSE busy
          /\ fresh' = (fresh \/ units = 1)
    BY <1>1 DEF TimePasses
  <2>2. change' \in (- MaxChange) .. MaxChange /\ busy' \in 0 .. ProbeEvery /\ fresh' \in BOOLEAN
    BY <2>1 DEF WatchTypeOK
  <2>3. slow' \in BOOLEAN
    BY <1>1 DEF TimePasses, WatchTypeOK
  <2>4. /\ published' \in 0 .. Bound + 1 /\ read' \in 0 .. Bound + 1 /\ cleared' \in 0 .. Bound + 1
        /\ taken' \in 0 .. Bound + 1 /\ base' \in 0 .. Bound + 2 /\ late' \in 0 .. MaxLate
    BY <1>1 DEF TimePasses, WatchTypeOK
  <2> QED
    BY <1>1, <2>2, <2>3, <2>4 DEF TimePasses, WatchTypeOK
<1>2. CASE Publish
  BY <1>2 DEF Publish, WatchTypeOK, stall, tree, history
<1>3. CASE Join
  BY <1>3 DEF Join, WatchTypeOK, clock, stall, history
<1>4. CASE Leave
  <2>1. change' \in (- MaxChange) .. MaxChange
    BY <1>4 DEF Leave, WatchTypeOK
  <2> QED
    BY <1>4, <2>1 DEF Leave, WatchTypeOK, clock, stall
<1>5. CASE Wedge
  BY <1>5 DEF Wedge, WatchTypeOK, clock, stall, history
<1>6. CASE LoadActivity
  BY <1>6 DEF LoadActivity, WatchTypeOK, stall, tree, history
<1>7. CASE Judge
  <2>1. condemned' \in BOOLEAN
    BY <1>7 DEF Judge, JudgePublishing, JudgeByLastLook, LookUnfound, LookFirst, LookWorked, LookIdle,
                Look, Condemns, WatchTypeOK
  <2>2. published' = published /\ phase' = "recv" /\ late' = 0 /\ read' = 0
    BY <1>7 DEF Judge, JudgePublishing, JudgeByLastLook, LookUnfound, LookFirst, LookWorked, LookIdle,
                Look, Judged
  <2>3. found' = found /\ wedged' = wedged /\ busy' = busy
    BY <1>7 DEF Judge, JudgePublishing, JudgeByLastLook, LookUnfound, LookFirst, LookWorked, LookIdle,
                Look, tree, history
  <2>4. /\ cleared' \in {cleared, 0} /\ taken' \in {taken, 0} /\ change' \in {change, 0}
        /\ base' \in {base, 0} /\ fresh' \in {fresh, FALSE}
        /\ left' \in {left, FALSE}
        /\ observed' \in {"nothing", "unfound", "moving", "idle", observed}
    BY <1>7 DEF Judge, JudgePublishing, JudgeByLastLook, LookUnfound, LookFirst, LookWorked, LookIdle,
                Look, SequenceBegins, tree, stall, history
  <2>5. /\ cleared' \in 0 .. Bound + 1 /\ taken' \in 0 .. Bound + 1
        /\ change' \in (- MaxChange) .. MaxChange /\ base' \in 0 .. Bound + 2
    BY <2>4 DEF WatchTypeOK
  <2>7. fresh' \in BOOLEAN /\ left' \in BOOLEAN
    BY <2>4 DEF WatchTypeOK
  <2>8. observed' \in {"nothing", "unfound", "moving", "idle"}
    BY <2>4 DEF WatchTypeOK
  <2>6. slow' \in BOOLEAN
    BY <1>7 DEF Judge, JudgePublishing, JudgeByLastLook, LookUnfound, LookFirst, LookWorked, LookIdle,
                Look, SequenceBegins, history, WatchTypeOK
  <2> QED
    BY <2>1, <2>2, <2>3, <2>5, <2>6, <2>7, <2>8 DEF WatchTypeOK
<1>8. CASE UNCHANGED watchVars
  BY <1>8 DEF watchVars, clock, stall, tree, history, WatchTypeOK
<1> QED
  BY <1>1, <1>2, <1>3, <1>4, <1>5, <1>6, <1>7, <1>8 DEF WatchNext, Over

(* Time passes.                                                             *)
LEMMA TimeKeeps ==
    ASSUME EvidenceInv, TimePasses
    PROVE  LooksInTime' /\ ClockInTime' /\ LateIsTold' /\ SequenceInTime' /\ ChargeIsSeen'
<1> USE WatchdogAssumption
<1>1. /\ late' = late + 1 /\ late' <= MaxLate /\ phase' = phase /\ observed' = observed
      /\ ~condemned /\ condemned' = condemned /\ left' = left
      /\ published' = Older(published) /\ cleared' = Older(cleared)
      /\ phase = "read" => read' = Older(read)
      /\ observed # "nothing" => /\ taken' = Older(taken)
                                 /\ base' = IF base > Bound + 1 THEN base ELSE base + 1
  BY DEF TimePasses, WatchTypeOK, EvidenceInv
<1>2. /\ published \in 0 .. Bound + 1 /\ read \in 0 .. Bound + 1 /\ cleared \in 0 .. Bound + 1
      /\ taken \in 0 .. Bound + 1 /\ base \in 0 .. Bound + 2 /\ late \in 0 .. MaxLate
      /\ observed \in {"nothing", "unfound", "moving", "idle"}
  BY DEF EvidenceInv, WatchTypeOK
<1>3. LooksInTime'
  BY <1>1, <1>2 DEF EvidenceInv, LooksInTime
<1>4. ClockInTime'
  BY <1>1, <1>2 DEF EvidenceInv, ClockInTime
<1>7. slow' \in BOOLEAN /\ (slow' <=> slow \/ ~Tolerated(late'))
  BY DEF TimePasses, EvidenceInv, WatchTypeOK
<1>8. LateIsTold'
  BY <1>7 DEF LateIsTold
<1>5. SequenceInTime'
  <2> SUFFICES ASSUME Sampled, ~slow PROVE SequenceInTime'
    BY <1>1, <1>7 DEF SequenceInTime
  <2>1. \A age \in 0 .. Bound + 1 : Before(age) =>
            Older(age) = Bound + 1 \/ 2 * (Older(age) - base') >= Bound
    BY <1>1, <1>2
  <2>2. Before(published)' \/ Lately(published)'
    BY <1>1, <1>2, <2>1 DEF EvidenceInv, SequenceInTime
  <2>3. phase' = "read" => Before(read)' \/ Lately(read)'
    BY <1>1, <1>2, <2>1 DEF EvidenceInv, SequenceInTime
  <2>4. Before(cleared)' \/ cleared' <= late'
    BY <1>1, <1>2, <2>1 DEF EvidenceInv, SequenceInTime
  <2>5. observed' = "idle" => 2 * (base' - late') <= Bound
    BY <1>1, <1>2 DEF EvidenceInv, SequenceInTime
  <2> QED
    BY <2>2, <2>3, <2>4, <2>5 DEF SequenceInTime
<1>6. ChargeIsSeen'
  <2> SUFFICES ASSUME Sampled PROVE ChargeIsSeen'
    BY <1>1 DEF ChargeIsSeen
  <2>1. PICK units \in {0, 1} :
          /\ change' = IF change < MaxChange THEN change + units ELSE change
          /\ busy' = IF units = 0 THEN 0 ELSE IF busy < ProbeEvery THEN busy + 1 ELSE busy
          /\ fresh' <=> (fresh \/ units = 1)
    BY DEF TimePasses
  <2>2. /\ change \in (- MaxChange) .. MaxChange /\ busy \in 0 .. ProbeEvery
    BY DEF EvidenceInv, WatchTypeOK
  <2>3. taken' = Older(taken) /\ taken <= ProbeEvery - 1 + late
    BY <1>1 DEF EvidenceInv, LooksInTime
  <2>4. /\ taken >= 1 /\ busy > 0 => fresh
        /\ ~left => change >= 0 /\ (fresh => change >= 1)
        /\ ~left /\ ~slow /\ observed = "idle" => busy <= taken
    BY DEF EvidenceInv, ChargeIsSeen
  <2>5. taken' >= 1 /\ busy' > 0 => fresh'
    BY <2>1, <2>2
  <2>6. ~left' => change' >= 0 /\ (fresh' => change' >= 1)
    BY <1>1, <2>1, <2>2, <2>4
  <2>7. ~left' /\ ~slow' /\ observed' = "idle" => busy' <= taken'
    BY <1>1, <1>2, <1>7, <2>1, <2>2, <2>3, <2>4
  <2> QED
    BY <2>5, <2>6, <2>7 DEF ChargeIsSeen
<1> QED
  BY <1>3, <1>4, <1>5, <1>6, <1>8

LEMMA PublishKeeps ==
    ASSUME EvidenceInv, Publish
    PROVE  LooksInTime' /\ ClockInTime' /\ LateIsTold' /\ SequenceInTime' /\ ChargeIsSeen'
<1>1. /\ published' = 0
      /\ UNCHANGED <<phase, read, late, cleared, observed, taken, change, condemned, busy, base, fresh, left, slow>>
  BY DEF Publish, stall, tree, history
<1>2. late \in Nat /\ MaxLate \in Nat
  BY WatchdogAssumption DEF EvidenceInv, WatchTypeOK
<1>3. ClockInTime'
  BY <1>1, <1>2 DEF ClockInTime
<1>4. LooksInTime' /\ ChargeIsSeen' /\ LateIsTold'
  BY <1>1 DEF EvidenceInv, LooksInTime, ChargeIsSeen, LateIsTold
<1>5. SequenceInTime'
  BY <1>1, <1>2 DEF EvidenceInv, SequenceInTime
<1> QED
  BY <1>3, <1>4, <1>5

LEMMA TreeKeeps ==
    ASSUME EvidenceInv, Join \/ Leave \/ Wedge
    PROVE  LooksInTime' /\ ClockInTime' /\ LateIsTold' /\ SequenceInTime' /\ ChargeIsSeen'
<1>1. UNCHANGED <<published, phase, read, late, cleared, observed, taken, condemned, base, fresh, slow>>
  BY DEF Join, Leave, Wedge, clock, stall, history
<1>2. (left' /\ busy' = 0) \/ UNCHANGED <<change, busy, left>>
  BY DEF Join, Leave, Wedge, history
<1>3. LooksInTime' /\ ClockInTime' /\ LateIsTold' /\ SequenceInTime'
  BY <1>1 DEF EvidenceInv, LooksInTime, ClockInTime, LateIsTold, SequenceInTime
<1>4. ChargeIsSeen'
  BY <1>1, <1>2 DEF EvidenceInv, ChargeIsSeen
<1> QED
  BY <1>3, <1>4

LEMMA LoadKeeps ==
    ASSUME EvidenceInv, LoadActivity
    PROVE  LooksInTime' /\ ClockInTime' /\ LateIsTold' /\ SequenceInTime' /\ ChargeIsSeen'
<1>1. /\ phase' = "read" /\ read' = published
      /\ UNCHANGED <<published, late, cleared, observed, taken, change, condemned, busy, base, fresh, left, slow>>
  BY DEF LoadActivity, stall, tree, history
<1>2. LooksInTime' /\ ChargeIsSeen' /\ ClockInTime' /\ LateIsTold'
  BY <1>1 DEF EvidenceInv, LooksInTime, ChargeIsSeen, ClockInTime, LateIsTold
<1>3. SequenceInTime'
  BY <1>1 DEF EvidenceInv, SequenceInTime
<1> QED
  BY <1>2, <1>3

(* The loop judges. A verdict that is reached at all rests on a sequence of  *)
(* looks that began half a bound after everything the loop has heard of.    *)
LEMMA LongQuiet ==
    ASSUME EvidenceInv, Asked, 2 * Quiet >= Bound, Sampled, ~slow
    PROVE  /\ Before(read) /\ Before(cleared)
           /\ Before(published) \/ Tolerated(published)
           /\ base <= Bound
           /\ ~(Quiet > Bound) => 2 * base <= Bound
<1> USE WatchdogAssumption
<1>1. /\ phase = "read" /\ ~condemned /\ 2 * read >= Bound /\ 2 * cleared >= Bound
      /\ Quiet > Bound <=> (read > Bound /\ cleared > Bound)
      /\ published \in 0 .. Bound + 1 /\ read \in 0 .. Bound + 1 /\ cleared \in 0 .. Bound + 1
      /\ late \in 0 .. MaxLate /\ base \in 0 .. Bound + 2 /\ taken \in 0 .. Bound + 1
  BY DEF Asked, EvidenceInv, WatchTypeOK, Quiet
<1>7. Tolerated(late)
  BY DEF EvidenceInv, LateIsTold
<1>2. Before(read) /\ Before(cleared)
  BY <1>1, <1>7 DEF EvidenceInv, SequenceInTime
<1>3. Before(published) \/ Tolerated(published)
  BY <1>1, <1>2, <1>7 DEF EvidenceInv, ClockInTime
<1>4. /\ observed = "idle" => 2 * (base - late) <= Bound
      /\ observed = "moving" => (base = taken \/ taken > Bound) /\ taken <= ProbeEvery - 1 + late
      /\ observed = "idle" \/ observed = "moving"
  BY <1>1 DEF EvidenceInv, SequenceInTime, LooksInTime
<1>5. base <= Bound
  BY <1>1, <1>4, <1>7
<1>6. ~(Quiet > Bound) => 2 * base <= Bound
  BY <1>1, <1>2
<1> QED
  BY <1>2, <1>3, <1>5, <1>6

(* A look that finds nothing moving, none of the processes having left,     *)
(* finds that they were charged nothing since the look before.              *)
LEMMA IdleIsIdle ==
    ASSUME EvidenceInv, Sampled, Due, ~Worked, ~left, ~slow
    PROVE  busy = 0 /\ taken >= ProbeEvery
<1> USE WatchdogAssumption
<1>1. /\ taken >= ProbeEvery /\ taken <= ProbeEvery - 1 + late /\ late \in 0 .. MaxLate
      /\ taken \in Nat /\ change \in (- MaxChange) .. MaxChange /\ busy \in 0 .. ProbeEvery
  BY DEF EvidenceInv, WatchTypeOK, LooksInTime, Due
<1>2. (busy > 0 => fresh) /\ change >= 0 /\ (fresh => change >= 1)
  BY <1>1 DEF EvidenceInv, ChargeIsSeen
<1>3. ~(change * 100 > taken)
  BY <1>1, <1>2 DEF Worked, Abs, WorkingPercentOfACore
<1>5. Tolerated(late)
  BY DEF EvidenceInv, LateIsTold
<1>4. ~(change >= 1)
  BY <1>1, <1>3, <1>5
<1> QED
  BY <1>1, <1>2, <1>4

LEMMA JudgeKeeps ==
    ASSUME EvidenceInv, Judge
    PROVE  LooksInTime' /\ ClockInTime' /\ LateIsTold' /\ SequenceInTime' /\ ChargeIsSeen'
<1> USE WatchdogAssumption
<1>1. published' = published /\ phase' = "recv" /\ late' = 0 /\ busy' = busy /\ Asked
  BY DEF Judge, JudgePublishing, JudgeByLastLook, LookUnfound, LookFirst, LookWorked, LookIdle,
         Look, Judged, history
<1>2. ClockInTime'
  BY <1>1 DEF ClockInTime
<1>3. /\ published \in 0 .. Bound + 1 /\ read \in 0 .. Bound + 1 /\ cleared \in 0 .. Bound + 1
      /\ taken \in 0 .. Bound + 1 /\ base \in 0 .. Bound + 2 /\ late \in 0 .. MaxLate
      /\ busy \in 0 .. ProbeEvery /\ phase = "read" /\ ~condemned
  BY <1>1 DEF EvidenceInv, WatchTypeOK, Asked
<1>4. CASE JudgePublishing
  BY <1>1, <1>4 DEF JudgePublishing, LooksInTime, LateIsTold, SequenceInTime, ChargeIsSeen, ClockInTime
<1>5. CASE LookUnfound
  <2>1. observed' = "unfound" /\ taken' = 0
    BY <1>5 DEF LookUnfound, Look
  <2> QED
    BY <1>1, <1>2, <1>3, <2>1 DEF LooksInTime, LateIsTold, SequenceInTime, ChargeIsSeen
<1>6. CASE LookFirst \/ LookWorked
  <2>1. /\ observed' = "moving" /\ taken' = 0 /\ base' = 0 /\ change' = 0 /\ fresh' = FALSE
        /\ cleared' = cleared \/ cleared' = 0
        /\ 2 * Quiet >= Bound
        /\ ~slow' => Tolerated(late)
    BY <1>6 DEF LookFirst, LookWorked, Look, SequenceBegins
  <2>2. 2 * read >= Bound /\ 2 * cleared >= Bound
    BY <1>3, <2>1 DEF Quiet
  <2>3. LooksInTime' /\ ChargeIsSeen'
    BY <1>1, <1>3, <2>1 DEF LooksInTime, ChargeIsSeen
  <2>4. published = read \/ published <= late
    BY <1>3 DEF EvidenceInv, ClockInTime
  <2>5. SequenceInTime'
    BY <1>1, <1>3, <2>1, <2>2, <2>4 DEF SequenceInTime
  <2>6. LateIsTold'
    BY <1>1, <1>3, <2>1 DEF LateIsTold
  <2> QED
    BY <1>2, <2>3, <2>5, <2>6
<1>7. CASE JudgeByLastLook
  <2>1. /\ UNCHANGED <<cleared, observed, taken, change, base, fresh, left, slow>>
        /\ ~Due /\ 2 * Quiet >= Bound /\ condemned' = (observed = "idle" /\ Quiet > Bound)
    BY <1>7 DEF JudgeByLastLook, stall, tree, history, Condemns
  <2>2. observed # "nothing" /\ taken <= ProbeEvery - 1
    BY <1>3, <2>1 DEF Due
  <2>3. LooksInTime' /\ ChargeIsSeen'
    BY <1>1, <2>1, <2>2, <1>3 DEF EvidenceInv, LooksInTime, ChargeIsSeen
  <2>4. SequenceInTime'
    <3> SUFFICES ASSUME Sampled, ~slow, ~condemned' PROVE SequenceInTime'
      BY <2>1 DEF SequenceInTime
    <3>1. observed = "idle" => ~(Quiet > Bound)
      BY <2>1
    <3> QED
      BY <1>1, <1>3, <2>1, <3>1, LongQuiet DEF SequenceInTime
  <2>5. LateIsTold'
    BY <1>1, <1>3, <2>1 DEF EvidenceInv, LateIsTold
  <2> QED
    BY <1>2, <2>3, <2>4, <2>5
<1>8. CASE LookIdle
  <2>1. /\ UNCHANGED <<cleared, base, left, slow>> /\ observed' = "idle" /\ taken' = 0 /\ change' = 0
        /\ fresh' = FALSE /\ Due /\ ~Worked /\ Sampled
        /\ 2 * Quiet >= Bound /\ condemned' = (Quiet > Bound)
    BY <1>8 DEF LookIdle, Look, Condemns
  <2>2. LooksInTime'
    BY <1>1, <1>3, <2>1 DEF LooksInTime
  <2>3. ChargeIsSeen'
    BY <1>1, <1>3, <2>1, IdleIsIdle DEF ChargeIsSeen
  <2>4. SequenceInTime'
    <3> SUFFICES ASSUME ~slow, ~condemned' PROVE SequenceInTime'
      BY <2>1 DEF SequenceInTime
    <3>1. ~(Quiet > Bound)
      BY <2>1
    <3>2. /\ Before(read) /\ Before(cleared) /\ 2 * base <= Bound
          /\ Before(published) \/ Tolerated(published)
      BY <1>1, <2>1, <3>1, LongQuiet
    <3> QED
      BY <1>1, <1>3, <2>1, <3>2 DEF SequenceInTime
  <2>5. LateIsTold'
    BY <1>1, <1>3, <2>1 DEF EvidenceInv, LateIsTold
  <2> QED
    BY <1>2, <2>2, <2>3, <2>4, <2>5
<1> QED
  BY <1>4, <1>5, <1>6, <1>7, <1>8 DEF Judge

(* Every behaviour keeps EvidenceInv.                                       *)
THEOREM EvidenceInvHolds == WatchSpec => []EvidenceInv
<1>1. WatchInit => EvidenceInv
  <2> SUFFICES ASSUME WatchInit PROVE EvidenceInv
    OBVIOUS
  <2>1. /\ 0 \in 0 .. Bound + 1 /\ 0 \in 0 .. Bound + 2
        /\ 0 \in 0 .. MaxLate /\ 0 \in 0 .. ProbeEvery /\ 0 \in (- MaxChange) .. MaxChange
    BY WatchdogAssumption
  <2>2. WatchTypeOK
    BY <2>1 DEF WatchInit, WatchTypeOK
  <2>3. LooksInTime /\ ClockInTime /\ LateIsTold /\ SequenceInTime /\ ChargeIsSeen
    BY WatchdogAssumption DEF WatchInit, LooksInTime, ClockInTime, LateIsTold, SequenceInTime, ChargeIsSeen
  <2> QED
    BY <2>2, <2>3 DEF EvidenceInv
<1>2. EvidenceInv /\ [WatchNext]_watchVars => EvidenceInv'
  <2> SUFFICES ASSUME EvidenceInv, [WatchNext]_watchVars PROVE EvidenceInv'
    OBVIOUS
  <2>1. WatchTypeOK'
    BY TypesKept DEF EvidenceInv
  <2>2. CASE UNCHANGED watchVars
    BY <2>2 DEF watchVars, clock, stall, tree, history, EvidenceInv, LooksInTime, ClockInTime,
                LateIsTold, SequenceInTime, ChargeIsSeen, WatchTypeOK
  <2> QED
    BY <2>1, <2>2, TimeKeeps, PublishKeeps, TreeKeeps, LoadKeeps, JudgeKeeps
       DEF EvidenceInv, WatchNext, Over
<1> QED
  BY <1>1, <1>2, PTL DEF WatchSpec

(* A member whose processes have all been working for a whole probe interval *)
(* is not condemned, and no look at it is older than the silence it is      *)
(* condemned for, unless the loop was later than Tolerated while it looked  *)
(* (member.rs Stall::condemns).                                             *)
THEOREM CondemnedOnEvidenceHolds == WatchSpec => CondemnedOnEvidence
<1> USE WatchdogAssumption
<1>1. EvidenceInv /\ [WatchNext]_watchVars =>
        [condemned' /\ ~condemned /\ ~slow =>
           /\ left' \/ busy' < ProbeEvery
           /\ base' <= Least(read, cleared)]_watchVars
  <2> SUFFICES ASSUME EvidenceInv, WatchNext, condemned', ~condemned, ~slow
               PROVE  (left' \/ busy' < ProbeEvery) /\ base' <= Least(read, cleared)
    BY Zenon
  <2>1. Judge /\ Asked /\ busy' = busy
    BY DEF WatchNext, TimePasses, Publish, Join, Leave, Wedge, LoadActivity, Over, watchVars, Judge, JudgePublishing,
           JudgeByLastLook, LookUnfound, LookFirst, LookWorked, LookIdle, Look, history
  <2>2. JudgeByLastLook \/ LookIdle
    BY <2>1 DEF Judge, JudgePublishing, LookUnfound, LookFirst, LookWorked, Look, Condemns
  <2>3. /\ Quiet > Bound /\ Sampled /\ left' = left /\ base' = base
        /\ 2 * Quiet >= Bound
    BY <2>2 DEF JudgeByLastLook, LookIdle, Look, Condemns, history
  <2>4. /\ read \in Nat /\ cleared \in Nat /\ base \in Nat /\ busy \in 0 .. ProbeEvery /\ taken \in Nat
    BY DEF EvidenceInv, WatchTypeOK
  <2>5. base' <= Least(read, cleared)
    BY <2>1, <2>3, <2>4, LongQuiet DEF Quiet
  <2>6. left' \/ busy' < ProbeEvery
    <3> SUFFICES ASSUME ~left PROVE busy < ProbeEvery
      BY <2>1, <2>3
    <3>1. CASE LookIdle
      BY <2>4, <3>1, IdleIsIdle DEF LookIdle, Look
    <3>2. CASE JudgeByLastLook
      <4>1. observed = "idle" /\ taken < ProbeEvery
        <5>1. observed = "idle"
          BY <3>2, Zenon DEF JudgeByLastLook, Condemns
        <5>2. ~(taken >= ProbeEvery)
          BY <3>2, Zenon DEF JudgeByLastLook, Due
        <5> QED
          BY <2>4, <5>1, <5>2
      <4> QED
        BY <2>4, <4>1 DEF EvidenceInv, ChargeIsSeen
    <3> QED
      BY <2>2, <3>1, <3>2
  <2> QED
    BY <2>5, <2>6
<1> QED
  BY <1>1, EvidenceInvHolds, PTL DEF WatchSpec, CondemnedOnEvidence
=============================================================================
