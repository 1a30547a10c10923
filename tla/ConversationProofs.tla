-------------------------- MODULE ConversationProofs --------------------------
(***************************************************************************)
(* Proofs about Conversation, for a member of either kind, resettable or   *)
(* not, and any number of notes: its outcome is the one that happened, a   *)
(* stop lets at most the turn already being opened open, and a hold is     *)
(* never found silent by the activity rule. Every lemma about a step has   *)
(* one case for each action.                                               *)
(***************************************************************************)
EXTENDS Conversation, TLAPS

(* No note is in the inbox that was not counted, or is not being counted.   *)
Counted ==
    /\ handing => offered < MaxNotes
    /\ inbox <= IF handing THEN offered + 1 ELSE offered

TypeInv == TypeOK /\ Counted

(* Each step keeps the types and the count of notes.                        *)
LEMMA TypeStep ==
    ASSUME TypeInv, [Next]_vars
    PROVE  TypeInv'
<1> USE ConversationAssumption DEF ConversationAssumption, TypeInv, TypeOK, Counted, Kinds, Flags, Counts,
    Places, Holding, Answers, vars, conversation, notes, clockvars, supervisor, signals
<1>1. CASE Speak
  <2> USE <1>1 DEF Speak, Observed, Answer, TakesNotes, Stamp
  <2>1. Flags'
    OBVIOUS
  <2>2. Kinds' /\ Counts' /\ Counted'
    OBVIOUS
  <2> QED
    BY <2>1, <2>2
<1>2. CASE WorkerCloses
  <2> USE <1>2 DEF WorkerCloses, Observed, Answer, TakesNotes, Stamp
  <2>1. Flags'
    OBVIOUS
  <2>2. Kinds' /\ Counts' /\ Counted'
    OBVIOUS
  <2> QED
    BY <2>1, <2>2
<1>3. CASE JudgeContinues
  <2> USE <1>3 DEF JudgeContinues, Answer, Stamp
  <2>1. Flags'
    OBVIOUS
  <2>2. Kinds' /\ Counts' /\ Counted'
    OBVIOUS
  <2> QED
    BY <2>1, <2>2
<1>4. CASE JudgeEnds
  <2> USE <1>4 DEF JudgeEnds, Answer, Stamp
  <2>1. Flags'
    OBVIOUS
  <2>2. Kinds' /\ Counts' /\ Counted'
    OBVIOUS
  <2> QED
    BY <2>1, <2>2
<1>5. CASE TurnFails
  BY <1>5 DEF TurnFails, Answer
<1>6. CASE Tick
  <2> USE <1>6 DEF Tick, Answer, Stamp
  <2>1. Flags'
    OBVIOUS
  <2>2. Kinds' /\ Counts' /\ Counted'
    OBVIOUS
  <2> QED
    BY <2>1, <2>2
<1>7. CASE HearStop
  BY <1>7 DEF HearStop, Answer
<1>8. CASE HearQuiet
  BY <1>8 DEF HearQuiet, Answer
<1>9. CASE HearReset
  <2> USE <1>9 DEF HearReset
  <2>1. Flags'
    OBVIOUS
  <2>2. Kinds' /\ Counts' /\ Counted'
    OBVIOUS
  <2> QED
    BY <2>1, <2>2
<1>10. CASE CountNotes
  BY <1>10 DEF CountNotes
<1>11. CASE HoldFires
  <2> USE <1>11 DEF HoldFires, NoteArrived
  <2>1. Flags'
    OBVIOUS
  <2>2. Kinds' /\ Counts' /\ Counted'
    OBVIOUS
  <2> QED
    BY <2>1, <2>2
<1>12. CASE HoldGoesOn
  BY <1>12 DEF HoldGoesOn, NoteArrived
<1>13. CASE Resume
  BY <1>13 DEF Resume, Observed, Answer
<1>14. CASE OpenTurn
  <2> USE <1>14 DEF OpenTurn, Observed, Answer, Stamp
  <2>1. Flags'
    OBVIOUS
  <2>2. Kinds' /\ Counts' /\ Counted'
    OBVIOUS
  <2> QED
    BY <2>1, <2>2
<1>15. CASE Elapse
  BY <1>15 DEF Elapse
<1>16. CASE FallSilent
  <2> USE <1>16 DEF FallSilent
  <2>1. Flags'
    OBVIOUS
  <2>2. Kinds' /\ Counts' /\ Counted'
    OBVIOUS
  <2> QED
    BY <2>1, <2>2
<1>17. CASE Receive
  BY <1>17 DEF Receive
<1>18. CASE ReceiveDropped
  BY <1>18 DEF ReceiveDropped
<1>19. CASE RecvTimesOut
  BY <1>19 DEF RecvTimesOut
<1>20. CASE Finish
  BY <1>20 DEF Finish, Finished
<1>21. CASE CondemnStopped
  BY <1>21 DEF CondemnStopped, Condemned
<1>22. CASE JudgeSilent
  BY <1>22 DEF JudgeSilent
<1>23. CASE CondemnSilent
  BY <1>23 DEF CondemnSilent, Condemned
<1>24. CASE NothingWrong
  BY <1>24 DEF NothingWrong
<1>25. CASE AskToStop
  BY <1>25 DEF AskToStop
<1>26. CASE GiveUp
  BY <1>26 DEF GiveUp
<1>27. CASE CondemnHeartbeat
  BY <1>27 DEF CondemnHeartbeat, Condemned
<1>28. CASE OfferNote
  BY <1>28 DEF OfferNote
<1>29. CASE CountNote
  <2> USE <1>29 DEF CountNote
  <2>1. Flags'
    OBVIOUS
  <2>2. Kinds' /\ Counts' /\ Counted'
    OBVIOUS
  <2> QED
    BY <2>1, <2>2
<1>30. CASE Operate
  <2> USE <1>30 DEF Operate
  <2>1. Flags'
    OBVIOUS
  <2>2. Kinds' /\ Counts' /\ Counted'
    OBVIOUS
  <2> QED
    BY <2>1, <2>2
<1>31. CASE UNCHANGED vars
  BY <1>31
<1> QED
  BY <1>1, <1>2, <1>3, <1>4, <1>5, <1>6, <1>7, <1>8, <1>9, <1>10, <1>11, <1>12, <1>13, <1>14, <1>15, <1>16, <1>17, <1>18,
     <1>19, <1>20, <1>21, <1>22, <1>23, <1>24, <1>25, <1>26, <1>27, <1>28, <1>29, <1>30, <1>31
  DEF Next, TurnEnds, HoldStep, Supervise, Exited

(* What the later invariants rest on holds from the start.                  *)
LEMMA TypeInit == Init => TypeInv
<1> SUFFICES ASSUME Init PROVE TypeInv
  OBVIOUS
<1>1. Flags
  BY DEF Init, Flags
<1>2. Kinds
  BY DEF Init, Kinds, Places, Holding, Answers
<1>3. Counts /\ Counted
  BY ConversationAssumption DEF ConversationAssumption, Init, Counts, Counted
<1> QED
  BY <1>1, <1>2, <1>3 DEF TypeInv, TypeOK

(* The types hold for any number of notes.                                  *)
THEOREM ConversationTypesHold == SafeSpec => []TypeOK
<1>1. TypeInv /\ [Next]_vars => TypeInv'
  BY TypeStep
<1>2. TypeInv => TypeOK
  BY DEF TypeInv
<1> QED
  BY TypeInit, <1>1, <1>2, PTL DEF SafeSpec

-----------------------------------------------------------------------------
(* The engine has answered exactly when it is over.                         *)
Answering == engine = "over" <=> answer # "none"

(* A reason for the end of a hold is written down only with that end, and   *)
(* what it names is still there: the signal files are never removed.        *)
Reason ==
    /\ ended # "none" => answer = "early"
    /\ ended = "stopped" => stop
    /\ ended = "quiescent" => Background /\ quiescent
    /\ answer = "early" => abort \/ ended # "none"

(* The engine is told to stop only by a supervising thread that has named   *)
(* the rule, and that no longer listens for an outcome of the engine's own. *)
Verdict ==
    /\ rule = "none" <=>
          watch \in {"recv", "check", "judged", "finishing"} \/ (watch = "over" /\ ~abort)
    /\ abort => watch \in {"teardown", "over"}
    /\ watch = "teardown" => abort
    /\ watch = "finishing" => answer \notin {"none", "dropped"}
    /\ outcome # "none" <=> watch = "over"
    /\ outcome # "none" /\ rule # "none" => outcome = "died"

OutcomeInv == Answering /\ Reason /\ Verdict /\ OutcomeMatches

(* Each step keeps the outcome honest.                                      *)
LEMMA OutcomeStep ==
    ASSUME TypeOK, OutcomeInv, [Next]_vars
    PROVE  OutcomeInv'
<1> USE ConversationAssumption DEF ConversationAssumption, TypeOK, Kinds, Flags, Counts, Places, Holding, Answers,
    OutcomeInv, Answering, Reason, Verdict, OutcomeMatches, vars, conversation, notes, clockvars, supervisor, signals
<1>1. CASE Speak
  BY <1>1 DEF Speak, Observed, Answer, TakesNotes, Stamp
<1>2. CASE WorkerCloses
  BY <1>2 DEF WorkerCloses, Observed, Answer, TakesNotes, Stamp
<1>3. CASE JudgeContinues
  BY <1>3 DEF JudgeContinues, Answer, Stamp
<1>4. CASE JudgeEnds
  BY <1>4 DEF JudgeEnds, Answer, Stamp
<1>5. CASE TurnFails
  BY <1>5 DEF TurnFails, Answer
<1>6. CASE Tick
  BY <1>6 DEF Tick, Answer, Stamp
<1>7. CASE HearStop
  BY <1>7 DEF HearStop, Answer
<1>8. CASE HearQuiet
  BY <1>8 DEF HearQuiet, Answer
<1>9. CASE HearReset
  BY <1>9 DEF HearReset
<1>10. CASE CountNotes
  BY <1>10 DEF CountNotes
<1>11. CASE HoldFires
  BY <1>11 DEF HoldFires, NoteArrived
<1>12. CASE HoldGoesOn
  BY <1>12 DEF HoldGoesOn, NoteArrived
<1>13. CASE Resume
  BY <1>13 DEF Resume, Observed, Answer
<1>14. CASE OpenTurn
  BY <1>14 DEF OpenTurn, Observed, Answer, Stamp
<1>15. CASE Elapse
  BY <1>15 DEF Elapse
<1>16. CASE FallSilent
  BY <1>16 DEF FallSilent
<1>17. CASE Receive
  BY <1>17 DEF Receive
<1>18. CASE ReceiveDropped
  BY <1>18 DEF ReceiveDropped
<1>19. CASE RecvTimesOut
  BY <1>19 DEF RecvTimesOut
<1>20. CASE Finish
  BY <1>20 DEF Finish, Finished
<1>21. CASE CondemnStopped
  BY <1>21 DEF CondemnStopped, Condemned
<1>22. CASE JudgeSilent
  BY <1>22 DEF JudgeSilent
<1>23. CASE CondemnSilent
  BY <1>23 DEF CondemnSilent, Condemned
<1>24. CASE NothingWrong
  BY <1>24 DEF NothingWrong
<1>25. CASE AskToStop
  BY <1>25 DEF AskToStop
<1>26. CASE GiveUp
  BY <1>26 DEF GiveUp
<1>27. CASE CondemnHeartbeat
  BY <1>27 DEF CondemnHeartbeat, Condemned
<1>28. CASE OfferNote
  BY <1>28 DEF OfferNote
<1>29. CASE CountNote
  BY <1>29 DEF CountNote
<1>30. CASE Operate
  BY <1>30 DEF Operate
<1>31. CASE UNCHANGED vars
  BY <1>31
<1> QED
  BY <1>1, <1>2, <1>3, <1>4, <1>5, <1>6, <1>7, <1>8, <1>9, <1>10, <1>11, <1>12, <1>13, <1>14, <1>15, <1>16, <1>17, <1>18,
     <1>19, <1>20, <1>21, <1>22, <1>23, <1>24, <1>25, <1>26, <1>27, <1>28, <1>29, <1>30, <1>31
  DEF Next, TurnEnds, HoldStep, Supervise, Exited

(* A success completed, or was ended by the quiescence of a run it was      *)
(* background to, and a death or an unfinished conversation is no other     *)
(* outcome in disguise, in every paced conversation.                        *)
THEOREM OutcomeMatchesHolds == SafeSpec => []OutcomeMatches
<1>1. Init => OutcomeInv
  BY DEF Init, OutcomeInv, Answering, Reason, Verdict, OutcomeMatches
<1>2. TypeInv /\ OutcomeInv /\ [Next]_vars => TypeInv' /\ OutcomeInv'
  BY TypeStep, OutcomeStep DEF TypeInv
<1>3. OutcomeInv => OutcomeMatches
  BY DEF OutcomeInv
<1> QED
  BY TypeInit, <1>1, <1>2, <1>3, PTL DEF SafeSpec

-----------------------------------------------------------------------------
(* A turn opened after the stop leads to a hold that hears the stop: the    *)
(* engine is never again past that read, or about to open a turn.           *)
StopInv ==
    opened # 0 =>
        /\ opened = 1
        /\ stop
        /\ engine \notin {"opening", "heard", "open", "loading", "armed", "resuming"}

(* Each step after the stop leads nowhere but to that read.                 *)
LEMMA StopStep ==
    ASSUME TypeOK, StopInv, [Next]_vars
    PROVE  StopInv'
<1> USE DEF TypeOK, Kinds, Flags, Counts, Places, Holding, StopInv, vars, conversation, notes, clockvars, supervisor, signals
<1>1. CASE Speak
  BY <1>1 DEF Speak, Observed, Answer, TakesNotes, Stamp
<1>2. CASE WorkerCloses
  BY <1>2 DEF WorkerCloses, Observed, Answer, TakesNotes, Stamp
<1>3. CASE JudgeContinues
  BY <1>3 DEF JudgeContinues, Answer, Stamp
<1>4. CASE JudgeEnds
  BY <1>4 DEF JudgeEnds, Answer, Stamp
<1>5. CASE TurnFails
  BY <1>5 DEF TurnFails, Answer
<1>6. CASE Tick
  BY <1>6 DEF Tick, Answer, Stamp
<1>7. CASE HearStop
  BY <1>7 DEF HearStop, Answer
<1>8. CASE HearQuiet
  BY <1>8 DEF HearQuiet, Answer
<1>9. CASE HearReset
  BY <1>9 DEF HearReset
<1>10. CASE CountNotes
  BY <1>10 DEF CountNotes
<1>11. CASE HoldFires
  BY <1>11 DEF HoldFires, NoteArrived
<1>12. CASE HoldGoesOn
  BY <1>12 DEF HoldGoesOn, NoteArrived
<1>13. CASE Resume
  BY <1>13 DEF Resume, Observed, Answer
<1>14. CASE OpenTurn
  BY <1>14 DEF OpenTurn, Observed, Answer, Stamp
<1>15. CASE Elapse
  BY <1>15 DEF Elapse
<1>16. CASE FallSilent
  BY <1>16 DEF FallSilent
<1>17. CASE Receive
  BY <1>17 DEF Receive
<1>18. CASE ReceiveDropped
  BY <1>18 DEF ReceiveDropped
<1>19. CASE RecvTimesOut
  BY <1>19 DEF RecvTimesOut
<1>20. CASE Finish
  BY <1>20 DEF Finish, Finished
<1>21. CASE CondemnStopped
  BY <1>21 DEF CondemnStopped, Condemned
<1>22. CASE JudgeSilent
  BY <1>22 DEF JudgeSilent
<1>23. CASE CondemnSilent
  BY <1>23 DEF CondemnSilent, Condemned
<1>24. CASE NothingWrong
  BY <1>24 DEF NothingWrong
<1>25. CASE AskToStop
  BY <1>25 DEF AskToStop
<1>26. CASE GiveUp
  BY <1>26 DEF GiveUp
<1>27. CASE CondemnHeartbeat
  BY <1>27 DEF CondemnHeartbeat, Condemned
<1>28. CASE OfferNote
  BY <1>28 DEF OfferNote
<1>29. CASE CountNote
  BY <1>29 DEF CountNote
<1>30. CASE Operate
  BY <1>30 DEF Operate
<1>31. CASE UNCHANGED vars
  BY <1>31
<1> QED
  BY <1>1, <1>2, <1>3, <1>4, <1>5, <1>6, <1>7, <1>8, <1>9, <1>10, <1>11, <1>12, <1>13, <1>14, <1>15, <1>16, <1>17, <1>18,
     <1>19, <1>20, <1>21, <1>22, <1>23, <1>24, <1>25, <1>26, <1>27, <1>28, <1>29, <1>30, <1>31
  DEF Next, TurnEnds, HoldStep, Supervise, Exited

(* At most the turn already being opened is opened once stop is written.    *)
THEOREM StopOpensOneTurnHolds == SafeSpec => []StopOpensOneTurn
<1>1. Init => StopInv
  BY DEF Init, StopInv
<1>2. TypeInv /\ StopInv /\ [Next]_vars => TypeInv' /\ StopInv'
  BY TypeStep, StopStep DEF TypeInv
<1>3. TypeInv /\ StopInv => StopOpensOneTurn
  BY DEF TypeInv, TypeOK, Counts, StopInv, StopOpensOneTurn
<1> QED
  BY TypeInit, <1>1, <1>2, <1>3, PTL DEF SafeSpec

-----------------------------------------------------------------------------
(* A hold stamps the clock at every tick and sleeps one span between two.   *)
Stamped ==
    engine \in Holding =>
        /\ silent = IF slept THEN 1 ELSE 0
        /\ engine # "asleep" => ~slept

(* Each step of a hold leaves the clock stamped.                            *)
LEMMA StampedStep ==
    ASSUME TypeOK, Stamped, [Next]_vars
    PROVE  Stamped'
<1> USE DEF TypeOK, Kinds, Flags, Counts, Places, Holding, Stamped, vars, conversation, notes, clockvars, supervisor, signals
<1>1. CASE Speak
  BY <1>1 DEF Speak, Observed, Answer, TakesNotes, Stamp
<1>2. CASE WorkerCloses
  BY <1>2 DEF WorkerCloses, Observed, Answer, TakesNotes, Stamp
<1>3. CASE JudgeContinues
  BY <1>3 DEF JudgeContinues, Answer, Stamp
<1>4. CASE JudgeEnds
  BY <1>4 DEF JudgeEnds, Answer, Stamp
<1>5. CASE TurnFails
  BY <1>5 DEF TurnFails, Answer
<1>6. CASE Tick
  BY <1>6 DEF Tick, Answer, Stamp
<1>7. CASE HearStop
  BY <1>7 DEF HearStop, Answer
<1>8. CASE HearQuiet
  BY <1>8 DEF HearQuiet, Answer
<1>9. CASE HearReset
  BY <1>9 DEF HearReset
<1>10. CASE CountNotes
  BY <1>10 DEF CountNotes
<1>11. CASE HoldFires
  BY <1>11 DEF HoldFires, NoteArrived
<1>12. CASE HoldGoesOn
  BY <1>12 DEF HoldGoesOn, NoteArrived
<1>13. CASE Resume
  BY <1>13 DEF Resume, Observed, Answer
<1>14. CASE OpenTurn
  BY <1>14 DEF OpenTurn, Observed, Answer, Stamp
<1>15. CASE Elapse
  BY <1>15 DEF Elapse
<1>16. CASE FallSilent
  BY <1>16 DEF FallSilent
<1>17. CASE Receive
  BY <1>17 DEF Receive
<1>18. CASE ReceiveDropped
  BY <1>18 DEF ReceiveDropped
<1>19. CASE RecvTimesOut
  BY <1>19 DEF RecvTimesOut
<1>20. CASE Finish
  BY <1>20 DEF Finish, Finished
<1>21. CASE CondemnStopped
  BY <1>21 DEF CondemnStopped, Condemned
<1>22. CASE JudgeSilent
  BY <1>22 DEF JudgeSilent
<1>23. CASE CondemnSilent
  BY <1>23 DEF CondemnSilent, Condemned
<1>24. CASE NothingWrong
  BY <1>24 DEF NothingWrong
<1>25. CASE AskToStop
  BY <1>25 DEF AskToStop
<1>26. CASE GiveUp
  BY <1>26 DEF GiveUp
<1>27. CASE CondemnHeartbeat
  BY <1>27 DEF CondemnHeartbeat, Condemned
<1>28. CASE OfferNote
  BY <1>28 DEF OfferNote
<1>29. CASE CountNote
  BY <1>29 DEF CountNote
<1>30. CASE Operate
  BY <1>30 DEF Operate
<1>31. CASE UNCHANGED vars
  BY <1>31
<1> QED
  BY <1>1, <1>2, <1>3, <1>4, <1>5, <1>6, <1>7, <1>8, <1>9, <1>10, <1>11, <1>12, <1>13, <1>14, <1>15, <1>16, <1>17, <1>18,
     <1>19, <1>20, <1>21, <1>22, <1>23, <1>24, <1>25, <1>26, <1>27, <1>28, <1>29, <1>30, <1>31
  DEF Next, TurnEnds, HoldStep, Supervise, Exited

(* The activity rule never finds a member in its hold silent.               *)
THEOREM HoldIsNotSilenceHolds == SafeSpec => HoldIsNotSilence
<1>1. Init => Stamped
  BY DEF Init, Stamped, Holding
<1>2. TypeInv /\ Stamped /\ [Next]_vars => TypeInv' /\ Stamped'
  BY TypeStep, StampedStep DEF TypeInv
<1>3. ASSUME TypeInv, Stamped, [Next]_vars
      PROVE  [watch' = "judged" /\ watch # "judged" => engine \notin Holding]_vars
  <2> SUFFICES ASSUME Next, watch' = "judged", watch # "judged", engine \in Holding
               PROVE  FALSE
    BY <1>3 DEF vars, supervisor
  <2>1. silent # 2
    BY <1>3 DEF Stamped
  <2>2. ~JudgeSilent
    BY <2>1 DEF JudgeSilent
  <2> QED
    BY <2>2 DEF Next, TurnEnds, HoldStep, Supervise, Exited, Speak, WorkerCloses, JudgeContinues, JudgeEnds, TurnFails, Tick, HearStop, HearQuiet, HearReset, CountNotes, HoldFires, HoldGoesOn, Resume, OpenTurn, Elapse, FallSilent, Receive, ReceiveDropped, RecvTimesOut, Finish, CondemnStopped, JudgeSilent, CondemnSilent, NothingWrong, AskToStop, GiveUp, CondemnHeartbeat, OfferNote, CountNote, Operate, Condemned, vars, conversation, notes, clockvars, supervisor, signals
<1> QED
  BY TypeInit, <1>1, <1>2, <1>3, PTL DEF SafeSpec, HoldIsNotSilence

=============================================================================
