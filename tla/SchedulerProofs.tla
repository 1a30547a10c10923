--------------------------- MODULE SchedulerProofs ---------------------------
(* Proofs about Scheduler and what it implements, for every graph the       *)
(* assumptions allow.                                                       *)
EXTENDS SchedulerQuiescence, FiniteSetTheorems, TLAPS

USE DEF Outcomes, Turns, Places, Counting, Runners

-----------------------------------------------------------------------------
(* What each group of steps leaves alone.                                   *)

(* A step of a clock moves that clock from one place to another, neither of *)
(* them "absent", and touches nothing of the initial waves but the count,   *)
(* which it lowers only when a foreground clock ends.                       *)
LEMMA ClockStepFrame ==
    ASSUME Shape, NEW c \in Members, ClockStep(c)
    PROVE  /\ UNCHANGED <<phase, taken, record, failed>>
           /\ todo'[Main] = todo[Main]
           /\ turn'[Main] = turn[Main]
           /\ clock[c] # "absent" /\ clock[c] # "gone" /\ clock'[c] # "absent"
           /\ \A x \in Members \ {c} : clock'[x] = clock[x]
           /\ IF clock'[c] = "gone" THEN Finish(c) ELSE live' = live
           /\ UNCHANGED <<stop, halted>>
<1> USE GraphAssumption DEF Shape, signals, history, waves
<1>1. CASE Wake(c)
  BY <1>1 DEF Wake
<1>2. CASE CheckQuiet(c)
  BY <1>2 DEF CheckQuiet
<1>3. CASE CheckReset(c)
  BY <1>3 DEF CheckReset
<1>4. CASE Fire(c)
  BY <1>4 DEF Fire, Launch
<1>5. CASE NotDue(c)
  BY <1>5 DEF NotDue
<1>6. CASE FiringFails(c)
  BY <1>6 DEF FiringFails, Rest
<1>7. CASE FiringSettles(c)
  BY <1>7 DEF FiringSettles
<1>8. CASE ChainOpens(c)
  BY <1>8 DEF ChainOpens
<1>9. CASE ChainGoesOn(c)
  BY <1>9 DEF ChainGoesOn
<1>10. CASE ChainEnds(c)
  BY <1>10 DEF ChainEnds, Rest
<1>11. CASE ChainLaunches(c)
  BY <1>11 DEF ChainLaunches, Launch
<1>12. ASSUME NEW m \in Members, ChainSends(c, m)
       PROVE  UNCHANGED <<phase, taken, record, failed, turn, clock, live, stop, halted>>
              /\ todo'[Main] = todo[Main] /\ clock[c] = "collect"
  BY <1>12 DEF ChainSends
<1>13. CASE ChainCollected(c)
  BY <1>13 DEF ChainCollected
<1>14. CASE Leave(c)
  BY <1>14 DEF Leave
<1> QED
  BY <1>1, <1>2, <1>3, <1>4, <1>5, <1>6, <1>7, <1>8, <1>9, <1>10, <1>11,
     <1>12, <1>13, <1>14 DEF ClockStep

(* Every variable keeps its shape, whichever step is taken.                 *)
LEMMA ShapeStep ==
    ASSUME Shape, [Next]_vars
    PROVE  Shape'
<1> USE GraphAssumption DEF Shape, waves, clocks, signals, history
<1>1. CASE OpenWave
  BY <1>1 DEF OpenWave, ReadyAfter
<1>2. ASSUME NEW m \in Members, Skip(m) PROVE Shape'
  BY <1>2 DEF Skip
<1>3. CASE StartWave
  BY <1>3 DEF StartWave, Launch
<1>4. ASSUME NEW m \in Members, Hear(m) PROVE Shape'
  BY <1>4 DEF Hear
<1>5. ASSUME NEW m \in Members, RecordOutcome(m) PROVE Shape'
  BY <1>5 DEF RecordOutcome, Unrecorded
<1>6. CASE CloseWave
  <2>1. /\ phase' = "next"
       /\ clock' \in [Members -> Places]
    BY <1>6 DEF CloseWave
  <2> QED
    BY <1>6, <2>1 DEF CloseWave
<1>7. CASE Settle
  BY <1>7 DEF Settle, FinalRecord, FinalFailed
<1>8. ASSUME NEW c \in Members, Wake(c) PROVE Shape'
  BY <1>8 DEF Wake
<1>9. ASSUME NEW c \in Members, CheckQuiet(c) PROVE Shape'
  BY <1>9 DEF CheckQuiet
<1>10. ASSUME NEW c \in Members, CheckReset(c) PROVE Shape'
  BY <1>10 DEF CheckReset
<1>11. ASSUME NEW c \in Members, Fire(c) PROVE Shape'
  BY <1>11 DEF Fire, Launch, Started, OneMore
<1>12. ASSUME NEW c \in Members, NotDue(c) PROVE Shape'
  BY <1>12 DEF NotDue
<1>13. ASSUME NEW c \in Members, FiringFails(c) PROVE Shape'
  BY <1>13 DEF FiringFails, Rest, NoTurns
<1>14. ASSUME NEW c \in Members, FiringSettles(c) PROVE Shape'
  BY <1>14 DEF FiringSettles
<1>15. ASSUME NEW c \in Members, ChainOpens(c) PROVE Shape'
  BY <1>15 DEF ChainOpens
<1>16. ASSUME NEW c \in Members, ChainGoesOn(c) PROVE Shape'
  BY <1>16 DEF ChainGoesOn
<1>17. ASSUME NEW c \in Members, ChainEnds(c) PROVE Shape'
  BY <1>17 DEF ChainEnds, Rest, NoTurns
<1>18. ASSUME NEW c \in Members, ChainLaunches(c) PROVE Shape'
  <2>1. Eligible(c) \subseteq Members /\ ReadyAfter(seen[c]) \subseteq Members
    BY DEF Eligible, ReadyAfter
  <2>2. turn' \in [Runners -> [Members -> Turns]]
    BY <1>18 DEF ChainLaunches, Launch
  <2>3. /\ todo' \in [Runners -> SUBSET Members]
        /\ seen' \in [Members -> SUBSET Members]
    BY <1>18, <2>1 DEF ChainLaunches
  <2>4. late' \in [Members -> 0 .. 2]
    <3>1. late' = late \/ Started(c)
      BY <1>18, Zenon DEF ChainLaunches
    <3> QED
      BY <3>1 DEF Started, OneMore
  <2> QED
    BY <1>18, <2>2, <2>3, <2>4 DEF ChainLaunches
<1>19. ASSUME NEW c \in Members, ChainCollected(c) PROVE Shape'
  BY <1>19 DEF ChainCollected
<1>20. ASSUME NEW c \in Members, Leave(c) PROVE Shape'
  BY <1>20 DEF Leave
<1>21. ASSUME NEW c \in Members, NEW m \in Members, ChainSends(c, m) PROVE Shape'
  BY <1>21 DEF ChainSends
<1>22. ASSUME NEW r \in Runners, NEW m \in Members, NEW o \in Outcomes, EndTurn(r, m, o)
       PROVE Shape'
  BY <1>22 DEF EndTurn
<1>23. ASSUME NEW c \in Members, Elapse(c) PROVE Shape'
  BY <1>23 DEF Elapse
<1>24. CASE Operator
  <2>1. /\ stop' \in BOOLEAN
        /\ halted' \subseteq Members /\ triggers' \subseteq Members /\ resets' \subseteq Members
    BY <1>24 DEF Operator, Cancel, CancelMember, Trigger, ResetTimer
  <2>2. UNCHANGED <<waves, clocks, history>>
    BY <1>24 DEF Operator, Cancel, CancelMember, Trigger, ResetTimer
  <2> QED
    BY <2>1, <2>2
<1>25. CASE UNCHANGED vars
  BY <1>25 DEF vars
<1> HIDE DEF Shape
<1> QED
  BY <1>1, <1>2, <1>3, <1>4, <1>5, <1>6, <1>7, <1>8, <1>9, <1>10, <1>11, <1>12,
     <1>13, <1>14, <1>15, <1>16, <1>17, <1>18, <1>19, <1>20, <1>21, <1>22, <1>23,
     <1>24, <1>25
     DEF Next, MainStep, ClockStep, Exited

-----------------------------------------------------------------------------
(* The waves. A member is untouched before its wave is opened; while it is  *)
(* still to be handled it has no clock; and Main never waits on the turn of *)
(* a member it has already heard of.                                        *)
WaveOrder ==
    /\ phase \in {"next", "settled"} => todo[Main] = {}
    /\ todo[Main] \subseteq taken
    /\ \A m \in Members \ taken : turn[Main][m] = "idle" /\ clock[m] = "absent"
    /\ \A m \in todo[Main] : clock[m] = "absent"
    /\ phase = "admit" => \A m \in todo[Main] : turn[Main][m] = "idle"
    /\ \A m \in Members : turn[Main][m] = "running" => m \in todo[Main]

(* The order of the waves is kept by every step.                            *)
LEMMA WaveOrderStep ==
    ASSUME Shape, WaveOrder, [Next]_vars
    PROVE  WaveOrder'
<1> USE GraphAssumption DEF Shape, WaveOrder, waves, clocks, signals, history
<1>1. CASE OpenWave
  BY <1>1 DEF OpenWave, ReadyAfter
<1>2. ASSUME NEW m \in Members, Skip(m) PROVE WaveOrder'
  BY <1>2 DEF Skip
<1>3. CASE StartWave
  BY <1>3 DEF StartWave, Launch, Runnable
<1>4. ASSUME NEW m \in Members, Hear(m) PROVE WaveOrder'
  BY <1>4 DEF Hear
<1>5. ASSUME NEW m \in Members, RecordOutcome(m) PROVE WaveOrder'
  BY <1>5 DEF RecordOutcome
<1>6. CASE CloseWave
  BY <1>6 DEF CloseWave
<1>7. CASE Settle
  BY <1>7 DEF Settle
<1>8. ASSUME NEW r \in Runners, NEW m \in Members, NEW o \in Outcomes, EndTurn(r, m, o)
      PROVE  WaveOrder'
  BY <1>8 DEF EndTurn
<1>9. ASSUME NEW c \in Members, Elapse(c) PROVE WaveOrder'
  BY <1>9 DEF Elapse
<1>10. ASSUME NEW c \in Members, ClockStep(c) PROVE WaveOrder'
  <2>1. todo[Main] \subseteq Members
    OBVIOUS
  <2> HIDE DEF Shape
  <2> QED
    BY <1>10, <2>1, ClockStepFrame
<1>11. CASE Operator
  BY <1>11 DEF Operator, Cancel, CancelMember, Trigger, ResetTimer
<1>12. CASE UNCHANGED vars
  BY <1>12 DEF vars
<1> HIDE DEF WaveOrder
<1> QED
  BY <1>1, <1>2, <1>3, <1>4, <1>5, <1>6, <1>7, <1>8, <1>9, <1>10, <1>11, <1>12
     DEF Next, MainStep, Exited

-----------------------------------------------------------------------------
(* The ledger.                                                              *)

(* What a step may do to the count and to the members it stands for.        *)
Tally ==
    \/ live' = live /\ Unfinished' = Unfinished
    \/ \E m \in Unfinished : live' = live - 1 /\ Unfinished' = Unfinished \ {m}

(* Every step leaves the unfinished members and their count alone, or       *)
(* finishes one member and counts one down.                                 *)
LEMMA TallyStep ==
    ASSUME Shape, WaveOrder, [Next]_vars
    PROVE  Tally
<1> USE GraphAssumption DEF Shape, WaveOrder, Tally, Unfinished, waves, clocks,
                            signals, history
<1>1. CASE OpenWave
  BY <1>1 DEF OpenWave, ReadyAfter
<1>2. ASSUME NEW m \in Members, Skip(m) PROVE Tally
  <2>1. /\ UNCHANGED <<taken, turn, clock>>
        /\ todo'[Main] = todo[Main] \ {m}
        /\ m \in todo[Main]
        /\ turn[Main][m] = "idle"
        /\ clock[m] = "absent"
        /\ Finish(m)
    BY <1>2 DEF Skip
  <2>2. CASE m \notin Foreground
    <3>1. \A x \in Foreground : x \in Unfinished' <=> x \in Unfinished
      BY <2>1, <2>2
    <3> QED
      BY <2>1, <2>2, <3>1 DEF Finish
  <2>3. CASE m \in Foreground
    <3>1. m \in Unfinished
      BY <2>1, <2>3
    <3>2. \A x \in Foreground : x \in Unfinished' <=> x \in Unfinished \ {m}
      BY <2>1, <2>3
    <3>3. Unfinished' = Unfinished \ {m}
      BY <3>2
    <3>4. live' = live - 1
      BY <2>1, <2>3 DEF Finish
    <3> HIDE DEF Unfinished
    <3> QED
      BY <3>1, <3>3, <3>4
  <2> QED
    BY <2>2, <2>3
<1>3. CASE StartWave
  <2>1. /\ live' = live
        /\ taken' = taken
        /\ todo'[Main] = todo[Main] \ Deferred
        /\ \A m \in Members : clock'[m] =
              IF m \in todo[Main] \cap Deferred THEN "asleep" ELSE clock[m]
        /\ \A m \in Members : turn'[Main][m] =
              IF m \in todo[Main] \ Deferred THEN "running" ELSE turn[Main][m]
    BY <1>3 DEF StartWave, Launch, Runnable
  <2>2. \A m \in Foreground : m \in Unfinished' <=> m \in Unfinished
    BY <1>3, <2>1 DEF StartWave, Foreground
  <2>3. Unfinished' = Unfinished
    BY <2>2
  <2> QED
    BY <2>1, <2>3
<1>4. ASSUME NEW m \in Members, Hear(m) PROVE Tally
  <2>1. /\ UNCHANGED <<taken, turn, clock>>
        /\ todo'[Main] = todo[Main] \ {m}
        /\ m \in todo[Main]
        /\ turn[Main][m] \in Outcomes
        /\ clock[m] = "absent"
    BY <1>4 DEF Hear
  <2>2. CASE m \in Clocked
    <3>1. \A x \in Foreground : x \in Unfinished' <=> x \in Unfinished
      BY <2>1, <2>2
    <3> QED
      BY <1>4, <2>2, <3>1 DEF Hear, LeftToClock
  <2>3. CASE m \notin Clocked /\ m \notin Foreground
    <3>1. \A x \in Foreground : x \in Unfinished' <=> x \in Unfinished
      BY <2>1, <2>3
    <3> QED
      BY <1>4, <2>3, <3>1 DEF Hear, LeftToClock, Finish
  <2>4. CASE m \notin Clocked /\ m \in Foreground
    <3>1. m \in Unfinished
      BY <2>1, <2>4
    <3>2. \A x \in Foreground : x \in Unfinished' <=> x \in Unfinished \ {m}
      BY <2>1, <2>4
    <3> QED
      BY <1>4, <2>4, <3>1, <3>2 DEF Hear, LeftToClock, Finish
  <2> QED
    BY <2>2, <2>3, <2>4
<1>5. ASSUME NEW m \in Members, RecordOutcome(m) PROVE Tally
  BY <1>5 DEF RecordOutcome
<1>6. CASE CloseWave
  BY <1>6 DEF CloseWave
<1>7. CASE Settle
  BY <1>7 DEF Settle
<1>8. ASSUME NEW r \in Runners, NEW m \in Members, NEW o \in Outcomes, EndTurn(r, m, o)
      PROVE  Tally
  BY <1>8 DEF EndTurn
<1>9. ASSUME NEW c \in Members, Elapse(c) PROVE Tally
  BY <1>9 DEF Elapse
<1>10. ASSUME NEW c \in Members, ClockStep(c) PROVE Tally
  <2> HIDE DEF Shape
  <2> QED
    BY <1>10, ClockStepFrame DEF Finish, Foreground
<1>11. CASE Operator
  BY <1>11 DEF Operator, Cancel, CancelMember, Trigger, ResetTimer
<1>12. CASE UNCHANGED vars
  BY <1>12 DEF vars
<1> HIDE DEF Tally
<1> QED
  BY <1>1, <1>2, <1>3, <1>4, <1>5, <1>6, <1>7, <1>8, <1>9, <1>10, <1>11, <1>12
     DEF Next, MainStep, Exited

(* The unfinished members are finitely many, so they can be counted.        *)
LEMMA UnfinishedIsFinite ==
    IsFiniteSet(Unfinished) /\ Cardinality(Unfinished) \in Nat
<1>1. Unfinished \in SUBSET Members
  BY DEF Unfinished, Foreground
<1>2. IsFiniteSet(Unfinished)
  BY <1>1, GraphAssumption, FS_Subset DEF GraphAssumption
<1> QED
  BY <1>2, FS_CardinalityType

(* A count that agrees with the members it stands for still does after any  *)
(* step, and once it is zero it stays zero.                                 *)
LEMMA LedgerStep ==
    ASSUME Ledger, Tally
    PROVE  Ledger' /\ (live = 0 => live' = 0)
<1>1. CASE live' = live /\ Unfinished' = Unfinished
  BY <1>1 DEF Ledger
<1>2. ASSUME NEW m \in Unfinished, live' = live - 1, Unfinished' = Unfinished \ {m}
      PROVE  Ledger' /\ live # 0
  <2>1. Cardinality(Unfinished \ {m}) = Cardinality(Unfinished) - 1
    BY UnfinishedIsFinite, FS_RemoveElement
  <2>2. Ledger'
    BY <1>2, <2>1 DEF Ledger
  <2>3. live # 0
    BY UnfinishedIsFinite, FS_EmptySet DEF Ledger
  <2> QED
    BY <2>2, <2>3
<1> QED
  BY <1>1, <1>2 DEF Tally

(* The inductive invariant of the ledger.                                   *)
LedgerInv == Shape /\ WaveOrder /\ Ledger

(* Every foreground member is unfinished, and counted, at the start.        *)
LEMMA LedgerInvInit == Init => LedgerInv
<1> SUFFICES ASSUME Init PROVE LedgerInv
  OBVIOUS
<1>1. Shape
  <2>1. turn \in [Runners -> [Members -> Turns]] /\ todo \in [Runners -> SUBSET Members]
    BY DEF Init, NoTurns
  <2>2. late \in [Members -> 0 .. 2] /\ defied \in [Members -> 0 .. 2]
    BY DEF Init
  <2>3. clock \in [Members -> Places] /\ halted \in SUBSET Members
    BY DEF Init
  <2> QED
    BY <2>1, <2>2, <2>3 DEF Init, Shape
<1>2. WaveOrder
  BY GraphAssumption DEF Init, WaveOrder, NoTurns
<1>3. Unfinished = Foreground
  BY DEF Init, Unfinished
<1>4. Ledger
  BY <1>3 DEF Init, Ledger
<1> QED
  BY <1>1, <1>2, <1>4 DEF LedgerInv

(* Every step keeps the count exact, and a count of zero at zero.           *)
LEMMA LedgerInvStep == LedgerInv /\ [Next]_vars => LedgerInv' /\ (live = 0 => live' = 0)
  BY ShapeStep, WaveOrderStep, TallyStep, LedgerStep DEF LedgerInv

(* The count of unfinished foreground members is exact in every state of    *)
(* every graph.                                                             *)
THEOREM LedgerHolds == SafeSpec => []Ledger
<1>1. LedgerInv => Ledger
  BY DEF LedgerInv
<1> QED
  BY LedgerInvInit, LedgerInvStep, <1>1, PTL DEF SafeSpec

(* Every variable keeps its shape and the count never goes below zero: it   *)
(* is the size of a set.                                                    *)
THEOREM TypesHold == SafeSpec => []TypeOK
<1>1. LedgerInv => TypeOK
  BY UnfinishedIsFinite DEF LedgerInv, TypeOK, Ledger
<1> QED
  BY LedgerInvInit, LedgerInvStep, <1>1, PTL DEF SafeSpec

(* The run goes quiet at most once and never comes back.                    *)
THEOREM QuietStaysHolds == SafeSpec => QuietStays
<1>1. LedgerInv /\ [Next]_vars => [live = 0 => live' = 0]_vars
  BY LedgerInvStep
<1>2. LedgerInv /\ [Next]_vars => LedgerInv'
  BY LedgerInvStep
<1> QED
  BY LedgerInvInit, <1>1, <1>2, PTL DEF SafeSpec, QuietStays

-----------------------------------------------------------------------------
(* What a clock may still do after the run went quiet, or was stopped.      *)

(* A clock that has started something late is past the places it could only *)
(* have come to while the run was open, and the run stays quiet.            *)
LateInv ==
    \A c \in Members : late[c] # 0 =>
        /\ late[c] = 1
        /\ live = 0
        /\ clock[c] \notin {"open", "armed", "launch"}

(* A clock that has defied a stop is past the places only a clock that was  *)
(* not stopped comes to.                                                    *)
DefiedInv ==
    \A c \in Members : defied[c] # 0 =>
        /\ defied[c] = 1
        /\ ToldToStop(c)
        /\ clock[c] \notin {"awake", "open", "armed"}

(* A second late start is never reached.                                    *)
LEMMA LateStep ==
    ASSUME Shape, LateInv, [Next]_vars, live = 0 => live' = 0
    PROVE  LateInv'
<1> USE DEF Shape, LateInv, waves, clocks, signals, history
<1>1. CASE MainStep
  BY <1>1 DEF MainStep, OpenWave, Skip, StartWave, Hear, RecordOutcome, CloseWave, Settle
<1>2. ASSUME NEW r \in Runners, NEW m \in Members, NEW o \in Outcomes, EndTurn(r, m, o)
      PROVE  LateInv'
  BY <1>2 DEF EndTurn
<1>3. ASSUME NEW c \in Members, Elapse(c) PROVE LateInv'
  BY <1>3 DEF Elapse
<1>4. ASSUME NEW c \in Members, Wake(c) PROVE LateInv'
  BY <1>4 DEF Wake, Stopped
<1>5. ASSUME NEW c \in Members, CheckQuiet(c) PROVE LateInv'
  BY <1>5 DEF CheckQuiet, Quiet
<1>6. ASSUME NEW c \in Members, CheckReset(c) PROVE LateInv'
  BY <1>6 DEF CheckReset
<1>7. ASSUME NEW c \in Members, Fire(c) PROVE LateInv'
  BY <1>7 DEF Fire, Started, ToldToStop, OneMore
<1>8. ASSUME NEW c \in Members, NotDue(c) PROVE LateInv'
  BY <1>8 DEF NotDue
<1>9. ASSUME NEW c \in Members, FiringFails(c) PROVE LateInv'
  BY <1>9 DEF FiringFails, Rest
<1>10. ASSUME NEW c \in Members, FiringSettles(c) PROVE LateInv'
  BY <1>10 DEF FiringSettles
<1>11. ASSUME NEW c \in Members, ChainOpens(c) PROVE LateInv'
  BY <1>11 DEF ChainOpens
<1>12. ASSUME NEW c \in Members, ChainGoesOn(c) PROVE LateInv'
  BY <1>12 DEF ChainGoesOn, Quiet
<1>13. ASSUME NEW c \in Members, ChainEnds(c) PROVE LateInv'
  BY <1>13 DEF ChainEnds, Rest
<1>14. ASSUME NEW c \in Members, ChainLaunches(c) PROVE LateInv'
  BY <1>14 DEF ChainLaunches, Started, OneMore
<1>15. ASSUME NEW c \in Members, ChainCollected(c) PROVE LateInv'
  BY <1>15 DEF ChainCollected
<1>16. ASSUME NEW c \in Members, Leave(c) PROVE LateInv'
  BY <1>16 DEF Leave
<1>17. ASSUME NEW c \in Members, NEW m \in Members, ChainSends(c, m) PROVE LateInv'
  BY <1>17 DEF ChainSends
<1>18. CASE Operator
  BY <1>18 DEF Operator, Cancel, CancelMember, Trigger, ResetTimer
<1>19. CASE UNCHANGED vars
  BY <1>19 DEF vars
<1> HIDE DEF Shape, LateInv, waves, clocks, signals, history
<1> QED
  BY <1>1, <1>2, <1>3, <1>4, <1>5, <1>6, <1>7, <1>8, <1>9, <1>10, <1>11, <1>12,
     <1>13, <1>14, <1>15, <1>16, <1>17, <1>18, <1>19
     DEF Next, ClockStep, Exited

(* A second firing against a stop is never reached.                         *)
LEMMA DefiedStep ==
    ASSUME Shape, DefiedInv, [Next]_vars, live = 0 => live' = 0
    PROVE  DefiedInv'
<1> USE DEF Shape, DefiedInv, waves, clocks, signals, history, ToldToStop
<1>1. CASE MainStep
  BY <1>1 DEF MainStep, OpenWave, Skip, StartWave, Hear, RecordOutcome, CloseWave, Settle
<1>2. ASSUME NEW r \in Runners, NEW m \in Members, NEW o \in Outcomes, EndTurn(r, m, o)
      PROVE  DefiedInv'
  BY <1>2 DEF EndTurn
<1>3. ASSUME NEW c \in Members, Elapse(c) PROVE DefiedInv'
  BY <1>3 DEF Elapse
<1>4. ASSUME NEW c \in Members, Wake(c) PROVE DefiedInv'
  BY <1>4 DEF Wake, Stopped
<1>5. ASSUME NEW c \in Members, CheckQuiet(c) PROVE DefiedInv'
  BY <1>5 DEF CheckQuiet, Quiet
<1>6. ASSUME NEW c \in Members, CheckReset(c) PROVE DefiedInv'
  BY <1>6 DEF CheckReset
<1>7. ASSUME NEW c \in Members, Fire(c) PROVE DefiedInv'
  BY <1>7 DEF Fire, Started, ToldToStop, OneMore
<1>8. ASSUME NEW c \in Members, NotDue(c) PROVE DefiedInv'
  BY <1>8 DEF NotDue
<1>9. ASSUME NEW c \in Members, FiringFails(c) PROVE DefiedInv'
  BY <1>9 DEF FiringFails, Rest
<1>10. ASSUME NEW c \in Members, FiringSettles(c) PROVE DefiedInv'
  BY <1>10 DEF FiringSettles
<1>11. ASSUME NEW c \in Members, ChainOpens(c) PROVE DefiedInv'
  BY <1>11 DEF ChainOpens
<1>12. ASSUME NEW c \in Members, ChainGoesOn(c) PROVE DefiedInv'
  BY <1>12 DEF ChainGoesOn, Quiet
<1>13. ASSUME NEW c \in Members, ChainEnds(c) PROVE DefiedInv'
  BY <1>13 DEF ChainEnds, Rest
<1>14. ASSUME NEW c \in Members, ChainLaunches(c) PROVE DefiedInv'
  BY <1>14 DEF ChainLaunches, Started, OneMore
<1>15. ASSUME NEW c \in Members, ChainCollected(c) PROVE DefiedInv'
  BY <1>15 DEF ChainCollected
<1>16. ASSUME NEW c \in Members, Leave(c) PROVE DefiedInv'
  BY <1>16 DEF Leave
<1>17. ASSUME NEW c \in Members, NEW m \in Members, ChainSends(c, m) PROVE DefiedInv'
  BY <1>17 DEF ChainSends
<1>18. CASE Operator
  BY <1>18 DEF Operator, Cancel, CancelMember, Trigger, ResetTimer
<1>19. CASE UNCHANGED vars
  BY <1>19 DEF vars
<1> HIDE DEF Shape, DefiedInv, ToldToStop, waves, clocks, signals, history
<1> QED
  BY <1>1, <1>2, <1>3, <1>4, <1>5, <1>6, <1>7, <1>8, <1>9, <1>10, <1>11, <1>12,
     <1>13, <1>14, <1>15, <1>16, <1>17, <1>18, <1>19
     DEF Next, ClockStep, Exited

(* However the graph is shaped, a clock starts at most one firing or chain  *)
(* wave once the run is quiet.                                              *)
THEOREM LateOnceHolds == SafeSpec => []LateOnce
<1>1. Init => LateInv
  BY DEF Init, LateInv
<1>2. LedgerInv /\ LateInv /\ [Next]_vars => LedgerInv' /\ LateInv'
  BY LedgerInvStep, LateStep DEF LedgerInv
<1>3. LateInv => LateOnce
  BY DEF LateInv, LateOnce
<1> QED
  BY LedgerInvInit, <1>1, <1>2, <1>3, PTL DEF SafeSpec

(* However often it is triggered, a clock that was told to stop fires at    *)
(* most once more.                                                          *)
THEOREM DefiedOnceHolds == SafeSpec => []DefiedOnce
<1>1. Init => DefiedInv
  BY DEF Init, DefiedInv
<1>2. LedgerInv /\ DefiedInv /\ [Next]_vars => LedgerInv' /\ DefiedInv'
  BY LedgerInvStep, DefiedStep DEF LedgerInv
<1>3. DefiedInv => DefiedOnce
  BY DEF DefiedInv, DefiedOnce
<1> QED
  BY LedgerInvInit, <1>1, <1>2, <1>3, PTL DEF SafeSpec

-----------------------------------------------------------------------------
(* A foreground cadence is what keeps the run open, so its clock never sees *)
(* the run quiet.                                                           *)
LEMMA CadenceStep ==
    ASSUME LedgerInv, CadenceKept, [Next]_vars
    PROVE  CadenceKept'
<1>1. ASSUME NEW c \in Foreground \cap Clocked, clock[c] \notin {"absent", "gone"}
      PROVE  live # 0
  <2>1. c \in Unfinished
    BY <1>1 DEF Unfinished
  <2> QED
    BY <2>1, UnfinishedIsFinite, FS_EmptySet DEF LedgerInv, Ledger
<1>2. Shape
  BY DEF LedgerInv
<1>3. \A c \in Foreground \cap Clocked : c \in Members /\ c \notin TwoParty
  BY GraphAssumption DEF Foreground, Clocked
<1> USE <1>1, <1>2, <1>3 DEF Shape, CadenceKept, ToldToStop, waves, clocks, signals, history
<1>4. CASE OpenWave
  BY <1>4 DEF OpenWave
<1>5. ASSUME NEW m \in Members, Skip(m) PROVE CadenceKept'
  BY <1>5 DEF Skip
<1>6. CASE StartWave
  BY <1>6 DEF StartWave, Launch, Runnable, Blocked
<1>7. ASSUME NEW m \in Members, Hear(m) PROVE CadenceKept'
  BY <1>7 DEF Hear
<1>8. ASSUME NEW m \in Members, RecordOutcome(m) PROVE CadenceKept'
  BY <1>8 DEF RecordOutcome, Unrecorded
<1>9. CASE CloseWave
  BY <1>9 DEF CloseWave
<1>10. CASE Settle
  BY <1>10 DEF Settle
<1>11. ASSUME NEW r \in Runners, NEW m \in Members, NEW o \in Outcomes, EndTurn(r, m, o)
       PROVE CadenceKept'
  BY <1>11 DEF EndTurn
<1>12. ASSUME NEW c \in Members, Elapse(c) PROVE CadenceKept'
  BY <1>12 DEF Elapse
<1>13. ASSUME NEW c \in Members, Wake(c) PROVE CadenceKept'
  BY <1>13 DEF Wake, Stopped
<1>14. ASSUME NEW c \in Members, CheckQuiet(c) PROVE CadenceKept'
  BY <1>14 DEF CheckQuiet, Quiet
<1>15. ASSUME NEW c \in Members, CheckReset(c) PROVE CadenceKept'
  BY <1>15 DEF CheckReset
<1>16. ASSUME NEW c \in Members, Fire(c) PROVE CadenceKept'
  BY <1>16 DEF Fire, Launch
<1>17. ASSUME NEW c \in Members, NotDue(c) PROVE CadenceKept'
  BY <1>17 DEF NotDue
<1>18. ASSUME NEW c \in Members, FiringFails(c) PROVE CadenceKept'
  BY <1>18 DEF FiringFails, Rest, NoTurns
<1>19. ASSUME NEW c \in Members, FiringSettles(c) PROVE CadenceKept'
  BY <1>19 DEF FiringSettles
<1>20. ASSUME NEW c \in Members, ChainOpens(c) PROVE CadenceKept'
  BY <1>20 DEF ChainOpens
<1>21. ASSUME NEW c \in Members, ChainGoesOn(c) PROVE CadenceKept'
  BY <1>21 DEF ChainGoesOn
<1>22. ASSUME NEW c \in Members, ChainEnds(c) PROVE CadenceKept'
  BY <1>22 DEF ChainEnds, Rest, NoTurns
<1>23. ASSUME NEW c \in Members, ChainLaunches(c) PROVE CadenceKept'
  BY <1>23 DEF ChainLaunches, Launch, Eligible, ReadyAfter
<1>24. ASSUME NEW c \in Members, NEW m \in Members, ChainSends(c, m) PROVE CadenceKept'
  BY <1>24 DEF ChainSends
<1>25. ASSUME NEW c \in Members, ChainCollected(c) PROVE CadenceKept'
  BY <1>25 DEF ChainCollected
<1>26. ASSUME NEW c \in Members, Leave(c) PROVE CadenceKept'
  BY <1>26 DEF Leave
<1>27. CASE Operator
  BY <1>27 DEF Operator, Cancel, CancelMember, Trigger, ResetTimer
<1>28. CASE UNCHANGED vars
  BY <1>28 DEF vars
<1> HIDE DEF Shape, CadenceKept, ToldToStop, waves, clocks, signals, history
<1> QED
  BY <1>4, <1>5, <1>6, <1>7, <1>8, <1>9, <1>10, <1>11, <1>12, <1>13, <1>14, <1>15,
     <1>16, <1>17, <1>18, <1>19, <1>20, <1>21, <1>22, <1>23, <1>24, <1>25, <1>26, <1>27,
     <1>28
     DEF Next, MainStep, ClockStep, Exited

(* A foreground schedule's clock stops only because somebody stopped it.    *)
THEOREM CadenceHolds == SafeSpec => []CadenceKept
<1>1. Init => CadenceKept
  BY GraphAssumption DEF Init, CadenceKept, Foreground, Clocked, GraphAssumption
<1>2. LedgerInv /\ CadenceKept /\ [Next]_vars => LedgerInv' /\ CadenceKept'
  BY LedgerInvStep, CadenceStep
<1> QED
  BY LedgerInvInit, <1>1, <1>2, PTL DEF SafeSpec

-----------------------------------------------------------------------------
(* Turns follow their dependencies.                                         *)

(* What settled is known to have settled, wherever it is written down.      *)
Witnessed ==
    /\ \A r \in Runners, m \in Members : turn[r][m] \in Outcomes => turn[r][m] \in took[m]
    /\ phase # "settled" =>
          \A m \in Members : record[m] = "settled" => turn[Main][m] = "settled"
    /\ \A m \in successful : "settled" \in took[m]
    /\ \A c \in Members : \A m \in good[c] : "settled" \in took[m]
    /\ \A c \in Members : clock[c] # "absent" => \A d \in Deps[c] : "settled" \in took[d]

(* A clock between firings holds no turns; in its firing it holds its own;  *)
(* in its chain, its own success and the turns of the waves gone by.        *)
ChainShape ==
    \A c \in Members :
        /\ clock[c] \notin {"turn", "link", "chain", "launch", "collect"} =>
              \A m \in Members : turn[c][m] = "idle"
        /\ clock[c] \in {"turn", "link"} =>
              \A m \in Members \ {c} : turn[c][m] = "idle"
        /\ clock[c] \in {"link", "chain", "launch", "collect"} => turn[c][c] = "settled"
        /\ clock[c] \in {"chain", "launch", "collect"} =>
              /\ \A m \in Members \ {c} : turn[c][m] # "idle" => m \in seen[c]
              /\ \A m \in good[c] \cap Descendants[c] : turn[c][m] = "settled"

FollowInv == Witnessed /\ ChainShape /\ TurnsFollowDeps

(* No member descends from itself, by the definition of Descendants.        *)
LEMMA DescendantsOf ==
    ASSUME NEW c \in Members
    PROVE  Descendants[c] \subseteq Members \ {c}
  BY DEF Descendants

(* Every step keeps what settled witnessed.                                 *)
LEMMA WitnessedStep ==
    ASSUME Shape, WaveOrder, FollowInv, [Next]_vars
    PROVE  Witnessed'
<1> USE GraphAssumption, DescendantsOf
    DEF Shape, WaveOrder, FollowInv, Witnessed, ChainShape, TurnsFollowDeps, Links,
        waves, clocks, signals, history
<1>1. CASE OpenWave
  BY <1>1 DEF OpenWave
<1>2. ASSUME NEW m \in Members, Skip(m) PROVE Witnessed'
  BY <1>2 DEF Skip
<1>3. CASE StartWave
  BY <1>3 DEF StartWave, Launch, Runnable, Blocked
<1>4. ASSUME NEW m \in Members, Hear(m) PROVE Witnessed'
  BY <1>4 DEF Hear
<1>5. ASSUME NEW m \in Members, RecordOutcome(m) PROVE Witnessed'
  BY <1>5 DEF RecordOutcome, Unrecorded
<1>6. CASE CloseWave
  BY <1>6 DEF CloseWave
<1>7. CASE Settle
  BY <1>7 DEF Settle
<1>8. ASSUME NEW r \in Runners, NEW m \in Members, NEW o \in Outcomes, EndTurn(r, m, o)
       PROVE Witnessed'
  BY <1>8 DEF EndTurn
<1>9. ASSUME NEW c \in Members, Elapse(c) PROVE Witnessed'
  BY <1>9 DEF Elapse
<1>10. ASSUME NEW c \in Members, Wake(c) PROVE Witnessed'
  BY <1>10 DEF Wake
<1>11. ASSUME NEW c \in Members, CheckQuiet(c) PROVE Witnessed'
  BY <1>11 DEF CheckQuiet
<1>12. ASSUME NEW c \in Members, CheckReset(c) PROVE Witnessed'
  <2>1. /\ UNCHANGED <<phase, turn, record, successful, good, took>>
        /\ \A x \in Members : clock'[x] # "absent" => clock[x] # "absent"
    BY <1>12 DEF CheckReset
  <2> QED
    BY <2>1
<1>13. ASSUME NEW c \in Members, Fire(c) PROVE Witnessed'
  BY <1>13 DEF Fire, Launch
<1>14. ASSUME NEW c \in Members, NotDue(c) PROVE Witnessed'
  BY <1>14 DEF NotDue
<1>15. ASSUME NEW c \in Members, FiringFails(c) PROVE Witnessed'
  BY <1>15 DEF FiringFails, Rest, NoTurns
<1>16. ASSUME NEW c \in Members, FiringSettles(c) PROVE Witnessed'
  BY <1>16 DEF FiringSettles
<1>17. ASSUME NEW c \in Members, ChainOpens(c) PROVE Witnessed'
  BY <1>17 DEF ChainOpens
<1>18. ASSUME NEW c \in Members, ChainGoesOn(c) PROVE Witnessed'
  BY <1>18 DEF ChainGoesOn
<1>19. ASSUME NEW c \in Members, ChainEnds(c) PROVE Witnessed'
  BY <1>19 DEF ChainEnds, Rest, NoTurns
<1>20. ASSUME NEW c \in Members, ChainLaunches(c) PROVE Witnessed'
  BY <1>20 DEF ChainLaunches, Launch, Eligible, ReadyAfter
<1>21. ASSUME NEW c \in Members, NEW m \in Members, ChainSends(c, m) PROVE Witnessed'
  BY <1>21 DEF ChainSends
<1>22. ASSUME NEW c \in Members, ChainCollected(c) PROVE Witnessed'
  BY <1>22 DEF ChainCollected
<1>23. ASSUME NEW c \in Members, Leave(c) PROVE Witnessed'
  BY <1>23 DEF Leave
<1>24. CASE Operator
  BY <1>24 DEF Operator, Cancel, CancelMember, Trigger, ResetTimer
<1>25. CASE UNCHANGED vars
  BY <1>25 DEF vars
<1> HIDE DEF Shape, WaveOrder, FollowInv, Witnessed, ChainShape, TurnsFollowDeps,
             waves, clocks, signals, history
<1> QED
  BY <1>1, <1>2, <1>3, <1>4, <1>5, <1>6, <1>7, <1>8, <1>9, <1>10, <1>11, <1>12,
     <1>13, <1>14, <1>15, <1>16, <1>17, <1>18, <1>19, <1>20, <1>21, <1>22, <1>23, <1>24,
     <1>25
     DEF Next, MainStep, ClockStep, Exited

(* Every step keeps the turns of a clock in their place.                    *)
LEMMA ChainShapeStep ==
    ASSUME Shape, WaveOrder, FollowInv, [Next]_vars
    PROVE  ChainShape'
<1> USE GraphAssumption, DescendantsOf
    DEF Shape, WaveOrder, FollowInv, Witnessed, ChainShape, TurnsFollowDeps, Links,
        waves, clocks, signals, history
<1>1. CASE OpenWave
  BY <1>1 DEF OpenWave
<1>2. ASSUME NEW m \in Members, Skip(m) PROVE ChainShape'
  BY <1>2 DEF Skip
<1>3. CASE StartWave
  BY <1>3 DEF StartWave, Launch, Runnable, Blocked
<1>4. ASSUME NEW m \in Members, Hear(m) PROVE ChainShape'
  BY <1>4 DEF Hear
<1>5. ASSUME NEW m \in Members, RecordOutcome(m) PROVE ChainShape'
  BY <1>5 DEF RecordOutcome, Unrecorded
<1>6. CASE CloseWave
  BY <1>6 DEF CloseWave
<1>7. CASE Settle
  BY <1>7 DEF Settle
<1>8. ASSUME NEW r \in Runners, NEW m \in Members, NEW o \in Outcomes, EndTurn(r, m, o)
       PROVE ChainShape'
  BY <1>8 DEF EndTurn
<1>9. ASSUME NEW c \in Members, Elapse(c) PROVE ChainShape'
  BY <1>9 DEF Elapse
<1>10. ASSUME NEW c \in Members, Wake(c) PROVE ChainShape'
  BY <1>10 DEF Wake
<1>11. ASSUME NEW c \in Members, CheckQuiet(c) PROVE ChainShape'
  BY <1>11 DEF CheckQuiet
<1>12. ASSUME NEW c \in Members, CheckReset(c) PROVE ChainShape'
  BY <1>12 DEF CheckReset
<1>13. ASSUME NEW c \in Members, Fire(c) PROVE ChainShape'
  BY <1>13 DEF Fire, Launch
<1>14. ASSUME NEW c \in Members, NotDue(c) PROVE ChainShape'
  BY <1>14 DEF NotDue
<1>15. ASSUME NEW c \in Members, FiringFails(c) PROVE ChainShape'
  BY <1>15 DEF FiringFails, Rest, NoTurns
<1>16. ASSUME NEW c \in Members, FiringSettles(c) PROVE ChainShape'
  BY <1>16 DEF FiringSettles
<1>17. ASSUME NEW c \in Members, ChainOpens(c) PROVE ChainShape'
  BY <1>17 DEF ChainOpens
<1>18. ASSUME NEW c \in Members, ChainGoesOn(c) PROVE ChainShape'
  BY <1>18 DEF ChainGoesOn
<1>19. ASSUME NEW c \in Members, ChainEnds(c) PROVE ChainShape'
  BY <1>19 DEF ChainEnds, Rest, NoTurns
<1>20. ASSUME NEW c \in Members, ChainLaunches(c) PROVE ChainShape'
  BY <1>20 DEF ChainLaunches, Launch, Eligible, ReadyAfter
<1>21. ASSUME NEW c \in Members, NEW m \in Members, ChainSends(c, m) PROVE ChainShape'
  BY <1>21 DEF ChainSends
<1>22. ASSUME NEW c \in Members, ChainCollected(c) PROVE ChainShape'
  BY <1>22 DEF ChainCollected
<1>23. ASSUME NEW c \in Members, Leave(c) PROVE ChainShape'
  BY <1>23 DEF Leave
<1>24. CASE Operator
  BY <1>24 DEF Operator, Cancel, CancelMember, Trigger, ResetTimer
<1>25. CASE UNCHANGED vars
  BY <1>25 DEF vars
<1> HIDE DEF Shape, WaveOrder, FollowInv, Witnessed, ChainShape, TurnsFollowDeps,
             waves, clocks, signals, history
<1> QED
  BY <1>1, <1>2, <1>3, <1>4, <1>5, <1>6, <1>7, <1>8, <1>9, <1>10, <1>11, <1>12,
     <1>13, <1>14, <1>15, <1>16, <1>17, <1>18, <1>19, <1>20, <1>21, <1>22, <1>23, <1>24,
     <1>25
     DEF Next, MainStep, ClockStep, Exited

(* No step starts a turn ahead of its dependencies.                         *)
LEMMA FollowStep ==
    ASSUME Shape, WaveOrder, FollowInv, [Next]_vars
    PROVE  TurnsFollowDeps'
<1> USE GraphAssumption, DescendantsOf
    DEF Shape, WaveOrder, FollowInv, Witnessed, ChainShape, TurnsFollowDeps, Links,
        waves, clocks, signals, history
<1>1. CASE OpenWave
  BY <1>1 DEF OpenWave
<1>2. ASSUME NEW m \in Members, Skip(m) PROVE TurnsFollowDeps'
  BY <1>2 DEF Skip
<1>3. CASE StartWave
  BY <1>3 DEF StartWave, Launch, Runnable, Blocked
<1>4. ASSUME NEW m \in Members, Hear(m) PROVE TurnsFollowDeps'
  BY <1>4 DEF Hear
<1>5. ASSUME NEW m \in Members, RecordOutcome(m) PROVE TurnsFollowDeps'
  BY <1>5 DEF RecordOutcome, Unrecorded
<1>6. CASE CloseWave
  BY <1>6 DEF CloseWave
<1>7. CASE Settle
  BY <1>7 DEF Settle
<1>8. ASSUME NEW r \in Runners, NEW m \in Members, NEW o \in Outcomes, EndTurn(r, m, o)
       PROVE TurnsFollowDeps'
  BY <1>8 DEF EndTurn
<1>9. ASSUME NEW c \in Members, Elapse(c) PROVE TurnsFollowDeps'
  BY <1>9 DEF Elapse
<1>10. ASSUME NEW c \in Members, Wake(c) PROVE TurnsFollowDeps'
  BY <1>10 DEF Wake
<1>11. ASSUME NEW c \in Members, CheckQuiet(c) PROVE TurnsFollowDeps'
  BY <1>11 DEF CheckQuiet
<1>12. ASSUME NEW c \in Members, CheckReset(c) PROVE TurnsFollowDeps'
  BY <1>12 DEF CheckReset
<1>13. ASSUME NEW c \in Members, Fire(c) PROVE TurnsFollowDeps'
  <2>1. /\ \A r \in Runners \ {c} : turn'[r] = turn[r]
        /\ \A m \in Members \ {c} : turn'[c][m] = "idle"
        /\ took' = took
    BY <1>13 DEF Fire, Launch
  <2>2. \A d \in Deps[c] : "settled" \in took[d]
    BY <1>13 DEF Fire
  <2> SUFFICES ASSUME NEW r \in Runners, NEW m \in Members, turn'[r][m] # "idle",
                      NEW d \in Deps[m]
               PROVE  /\ "settled" \in took'[d]
                      /\ d \in Links(r) /\ (r = Main \/ m # r) => turn'[r][d] = "settled"
    BY DEF Links
  <2>3. CASE r = c
    BY <2>1, <2>2, <2>3
  <2>4. CASE r # c
    BY <2>1, <2>4
  <2> QED
    BY <2>3, <2>4
<1>14. ASSUME NEW c \in Members, NotDue(c) PROVE TurnsFollowDeps'
  BY <1>14 DEF NotDue
<1>15. ASSUME NEW c \in Members, FiringFails(c) PROVE TurnsFollowDeps'
  BY <1>15 DEF FiringFails, Rest, NoTurns
<1>16. ASSUME NEW c \in Members, FiringSettles(c) PROVE TurnsFollowDeps'
  BY <1>16 DEF FiringSettles
<1>17. ASSUME NEW c \in Members, ChainOpens(c) PROVE TurnsFollowDeps'
  BY <1>17 DEF ChainOpens
<1>18. ASSUME NEW c \in Members, ChainGoesOn(c) PROVE TurnsFollowDeps'
  BY <1>18 DEF ChainGoesOn
<1>19. ASSUME NEW c \in Members, ChainEnds(c) PROVE TurnsFollowDeps'
  BY <1>19 DEF ChainEnds, Rest, NoTurns
<1>20. ASSUME NEW c \in Members, ChainLaunches(c) PROVE TurnsFollowDeps'
  BY <1>20 DEF ChainLaunches, Launch, Eligible, ReadyAfter
<1>21. ASSUME NEW c \in Members, NEW m \in Members, ChainSends(c, m) PROVE TurnsFollowDeps'
  BY <1>21 DEF ChainSends
<1>22. ASSUME NEW c \in Members, ChainCollected(c) PROVE TurnsFollowDeps'
  BY <1>22 DEF ChainCollected
<1>23. ASSUME NEW c \in Members, Leave(c) PROVE TurnsFollowDeps'
  BY <1>23 DEF Leave
<1>24. CASE Operator
  BY <1>24 DEF Operator, Cancel, CancelMember, Trigger, ResetTimer
<1>25. CASE UNCHANGED vars
  BY <1>25 DEF vars
<1> HIDE DEF Shape, WaveOrder, FollowInv, Witnessed, ChainShape, TurnsFollowDeps,
             waves, clocks, signals, history
<1> QED
  BY <1>1, <1>2, <1>3, <1>4, <1>5, <1>6, <1>7, <1>8, <1>9, <1>10, <1>11, <1>12,
     <1>13, <1>14, <1>15, <1>16, <1>17, <1>18, <1>19, <1>20, <1>21, <1>22, <1>23, <1>24,
     <1>25
     DEF Next, MainStep, ClockStep, Exited

(* No turn has been started yet.                                            *)
LEMMA FollowInvInit == Init => FollowInv
<1> USE GraphAssumption DEF GraphAssumption, Init, NoTurns
<1>1. Init => Witnessed
  BY DEF Witnessed
<1>2. Init => ChainShape
  BY DEF ChainShape
<1>3. Init => TurnsFollowDeps
  BY DEF TurnsFollowDeps
<1> QED
  BY <1>1, <1>2, <1>3 DEF FollowInv

(* Every step keeps turns behind their dependencies.                        *)
LEMMA FollowInvStep == LedgerInv /\ FollowInv /\ [Next]_vars => FollowInv'
<1> SUFFICES ASSUME LedgerInv, FollowInv, [Next]_vars PROVE FollowInv'
  OBVIOUS
<1>1. Shape /\ WaveOrder
  BY DEF LedgerInv
<1> QED
  BY <1>1, WitnessedStep, ChainShapeStep, FollowStep DEF FollowInv

(* Whichever runner starts it, no turn starts ahead of its dependencies, in *)
(* every graph and however waves, clocks and chains interleave.             *)
THEOREM TurnsFollowDepsHolds == SafeSpec => []TurnsFollowDeps
<1>1. LedgerInv /\ FollowInv /\ [Next]_vars => LedgerInv' /\ FollowInv'
  BY LedgerInvStep, FollowInvStep
<1>2. FollowInv => TurnsFollowDeps
  BY DEF FollowInv
<1> QED
  BY LedgerInvInit, FollowInvInit, <1>1, <1>2, PTL DEF SafeSpec

-----------------------------------------------------------------------------
(* The end of a run, for every graph: the scheduler implements Quiescence,  *)
(* nothing outlives graph-settled, and the record it leaves is true.        *)

(* A turn that is running belongs to somebody: to the wave Main waits for,  *)
(* to the firing of its clock, or to the chain wave its clock collects.     *)
Owned ==
    \A c \in Members : \A m \in Members : turn[c][m] = "running" =>
        \/ clock[c] = "turn" /\ m = c
        \/ clock[c] = "collect" /\ m \in todo[c]

(* Outside a wave, a schedule that took its turn has its clock.             *)
HandedOver ==
    phase # "wait" =>
        \A m \in Clocked : turn[Main][m] \in Outcomes => clock[m] # "absent"

(* A settled run has taken every member and has no clock left.              *)
AllOver ==
    phase = "settled" =>
        /\ taken = Members
        /\ \A c \in Members : clock[c] \in {"absent", "gone"}

(* Every step keeps running turns owned.                                    *)
LEMMA OwnedStep ==
    ASSUME Shape, WaveOrder, ChainShape, Owned, [Next]_vars
    PROVE  Owned'
<1> USE GraphAssumption DEF Shape, WaveOrder, ChainShape, Owned, waves, clocks, signals, history
<1>1. CASE OpenWave
  BY <1>1 DEF OpenWave
<1>2. ASSUME NEW m \in Members, Skip(m) PROVE Owned'
  BY <1>2 DEF Skip
<1>3. CASE StartWave
  BY <1>3 DEF StartWave, Launch, Runnable, Blocked
<1>4. ASSUME NEW m \in Members, Hear(m) PROVE Owned'
  BY <1>4 DEF Hear
<1>5. ASSUME NEW m \in Members, RecordOutcome(m) PROVE Owned'
  BY <1>5 DEF RecordOutcome, Unrecorded
<1>6. CASE CloseWave
  BY <1>6 DEF CloseWave
<1>7. CASE Settle
  BY <1>7 DEF Settle
<1>8. ASSUME NEW r \in Runners, NEW m \in Members, NEW o \in Outcomes, EndTurn(r, m, o)
       PROVE Owned'
  BY <1>8 DEF EndTurn
<1>9. ASSUME NEW c \in Members, Elapse(c) PROVE Owned'
  BY <1>9 DEF Elapse
<1>10. ASSUME NEW c \in Members, Wake(c) PROVE Owned'
  BY <1>10 DEF Wake
<1>11. ASSUME NEW c \in Members, CheckQuiet(c) PROVE Owned'
  BY <1>11 DEF CheckQuiet
<1>12. ASSUME NEW c \in Members, CheckReset(c) PROVE Owned'
  BY <1>12 DEF CheckReset
<1>13. ASSUME NEW c \in Members, Fire(c) PROVE Owned'
  BY <1>13 DEF Fire, Launch
<1>14. ASSUME NEW c \in Members, NotDue(c) PROVE Owned'
  BY <1>14 DEF NotDue
<1>15. ASSUME NEW c \in Members, FiringFails(c) PROVE Owned'
  BY <1>15 DEF FiringFails, Rest, NoTurns
<1>16. ASSUME NEW c \in Members, FiringSettles(c) PROVE Owned'
  BY <1>16 DEF FiringSettles
<1>17. ASSUME NEW c \in Members, ChainOpens(c) PROVE Owned'
  BY <1>17 DEF ChainOpens
<1>18. ASSUME NEW c \in Members, ChainGoesOn(c) PROVE Owned'
  BY <1>18 DEF ChainGoesOn
<1>19. ASSUME NEW c \in Members, ChainEnds(c) PROVE Owned'
  BY <1>19 DEF ChainEnds, Rest, NoTurns
<1>20. ASSUME NEW c \in Members, ChainLaunches(c) PROVE Owned'
  BY <1>20 DEF ChainLaunches, Launch, Eligible, ReadyAfter
<1>21. ASSUME NEW c \in Members, NEW m \in Members, ChainSends(c, m) PROVE Owned'
  <2>1. UNCHANGED <<turn, clock>> /\ clock[c] = "collect"
    BY <1>21 DEF ChainSends
  <2>2. \A x \in Members \ {c} : todo'[x] = todo[x]
    BY <1>21 DEF ChainSends
  <2>3. \A x \in todo[c] : turn[c][x] \in Outcomes
    BY <1>21 DEF ChainSends
  <2> HIDE DEF Shape, WaveOrder, ChainShape
  <2>4. \A x \in Members : turn[c][x] # "running"
    <3> SUFFICES ASSUME NEW x \in Members, turn[c][x] = "running" PROVE FALSE
      OBVIOUS
    <3>1. x \in todo[c]
      BY <2>1
    <3> QED
      BY <2>3, <3>1 DEF Outcomes
  <2> SUFFICES ASSUME NEW x \in Members, NEW y \in Members, turn'[x][y] = "running"
               PROVE  \/ clock'[x] = "turn" /\ y = x
                      \/ clock'[x] = "collect" /\ y \in todo'[x]
    OBVIOUS
  <2>5. x # c
    BY <2>1, <2>4
  <2> QED
    BY <2>1, <2>2, <2>5
<1>22. ASSUME NEW c \in Members, ChainCollected(c) PROVE Owned'
  BY <1>22 DEF ChainCollected
<1>23. ASSUME NEW c \in Members, Leave(c) PROVE Owned'
  BY <1>23 DEF Leave
<1>24. CASE Operator
  BY <1>24 DEF Operator, Cancel, CancelMember, Trigger, ResetTimer
<1>25. CASE UNCHANGED vars
  BY <1>25 DEF vars
<1> HIDE DEF Shape, WaveOrder, ChainShape, Owned, waves, clocks, signals, history
<1> QED
  BY <1>1, <1>2, <1>3, <1>4, <1>5, <1>6, <1>7, <1>8, <1>9, <1>10, <1>11, <1>12,
     <1>13, <1>14, <1>15, <1>16, <1>17, <1>18, <1>19, <1>20, <1>21, <1>22, <1>23, <1>24,
     <1>25
     DEF Next, MainStep, ClockStep, Exited

(* Every step leaves a schedule outside its wave with its clock.            *)
LEMMA HandedOverStep ==
    ASSUME Shape, WaveOrder, HandedOver, [Next]_vars
    PROVE  HandedOver'
<1> USE GraphAssumption DEF Shape, WaveOrder, HandedOver, Clocked, waves, clocks, signals, history
<1>1. CASE OpenWave
  BY <1>1 DEF OpenWave
<1>2. ASSUME NEW m \in Members, Skip(m) PROVE HandedOver'
  BY <1>2 DEF Skip
<1>3. CASE StartWave
  BY <1>3 DEF StartWave, Launch, Runnable, Blocked
<1>4. ASSUME NEW m \in Members, Hear(m) PROVE HandedOver'
  BY <1>4 DEF Hear
<1>5. ASSUME NEW m \in Members, RecordOutcome(m) PROVE HandedOver'
  BY <1>5 DEF RecordOutcome, Unrecorded
<1>6. CASE CloseWave
  BY <1>6 DEF CloseWave
<1>7. CASE Settle
  BY <1>7 DEF Settle
<1>8. ASSUME NEW r \in Runners, NEW m \in Members, NEW o \in Outcomes, EndTurn(r, m, o)
       PROVE HandedOver'
  BY <1>8 DEF EndTurn
<1>9. ASSUME NEW c \in Members, Elapse(c) PROVE HandedOver'
  BY <1>9 DEF Elapse
<1>10. ASSUME NEW c \in Members, Wake(c) PROVE HandedOver'
  BY <1>10 DEF Wake
<1>11. ASSUME NEW c \in Members, CheckQuiet(c) PROVE HandedOver'
  BY <1>11 DEF CheckQuiet
<1>12. ASSUME NEW c \in Members, CheckReset(c) PROVE HandedOver'
  BY <1>12 DEF CheckReset
<1>13. ASSUME NEW c \in Members, Fire(c) PROVE HandedOver'
  BY <1>13 DEF Fire, Launch
<1>14. ASSUME NEW c \in Members, NotDue(c) PROVE HandedOver'
  BY <1>14 DEF NotDue
<1>15. ASSUME NEW c \in Members, FiringFails(c) PROVE HandedOver'
  BY <1>15 DEF FiringFails, Rest, NoTurns
<1>16. ASSUME NEW c \in Members, FiringSettles(c) PROVE HandedOver'
  BY <1>16 DEF FiringSettles
<1>17. ASSUME NEW c \in Members, ChainOpens(c) PROVE HandedOver'
  BY <1>17 DEF ChainOpens
<1>18. ASSUME NEW c \in Members, ChainGoesOn(c) PROVE HandedOver'
  BY <1>18 DEF ChainGoesOn
<1>19. ASSUME NEW c \in Members, ChainEnds(c) PROVE HandedOver'
  BY <1>19 DEF ChainEnds, Rest, NoTurns
<1>20. ASSUME NEW c \in Members, ChainLaunches(c) PROVE HandedOver'
  BY <1>20 DEF ChainLaunches, Launch, Eligible, ReadyAfter
<1>21. ASSUME NEW c \in Members, NEW m \in Members, ChainSends(c, m) PROVE HandedOver'
  BY <1>21 DEF ChainSends
<1>22. ASSUME NEW c \in Members, ChainCollected(c) PROVE HandedOver'
  BY <1>22 DEF ChainCollected
<1>23. ASSUME NEW c \in Members, Leave(c) PROVE HandedOver'
  BY <1>23 DEF Leave
<1>24. CASE Operator
  BY <1>24 DEF Operator, Cancel, CancelMember, Trigger, ResetTimer
<1>25. CASE UNCHANGED vars
  BY <1>25 DEF vars
<1> HIDE DEF Shape, WaveOrder, HandedOver, Clocked, waves, clocks, signals, history
<1> QED
  BY <1>1, <1>2, <1>3, <1>4, <1>5, <1>6, <1>7, <1>8, <1>9, <1>10, <1>11, <1>12,
     <1>13, <1>14, <1>15, <1>16, <1>17, <1>18, <1>19, <1>20, <1>21, <1>22, <1>23, <1>24,
     <1>25
     DEF Next, MainStep, ClockStep, Exited

-----------------------------------------------------------------------------
(* Everything the refinement needs of a reachable state.                    *)
RefInv == LedgerInv /\ LateInv /\ FollowInv /\ Owned /\ HandedOver /\ AllOver

(* It holds before the first wave is opened.                                *)
LEMMA RefInvInit == Init => RefInv
<1> SUFFICES ASSUME Init PROVE RefInv
  OBVIOUS
<1> USE GraphAssumption DEF GraphAssumption
<1>1. LateInv
  BY DEF Init, LateInv
<1> \A r \in Runners, m \in Members : turn[r][m] = "idle"
  BY DEF Init, NoTurns
<1>2. Owned
  BY DEF Owned
<1>3. HandedOver
  BY DEF HandedOver, Clocked
<1>4. AllOver
  BY DEF Init, AllOver
<1> QED
  BY <1>1, <1>2, <1>3, <1>4, LedgerInvInit, FollowInvInit DEF RefInv

(* The graph has no cycle, so as long as a member is left one is ready.     *)
LEMMA AllTaken ==
    ASSUME taken \in SUBSET Members, ReadyAfter(taken) = {}
    PROVE  taken = Members
<1> SUFFICES ASSUME taken # Members PROVE FALSE
  OBVIOUS
<1> DEFINE S == Members \ taken
<1>1. S \in (SUBSET Members) \ {{}}
  OBVIOUS
<1>2. PICK m \in S : Deps[m] \cap S = {}
  BY <1>1, AcyclicAssumption DEF Acyclic
<1>3. m \in ReadyAfter(taken)
  BY <1>2, GraphAssumption DEF ReadyAfter, GraphAssumption
<1> QED
  BY <1>3

(* Nothing starts again in a settled run.                                   *)
LEMMA AllOverStep ==
    ASSUME Shape, AllOver, [Next]_vars
    PROVE  AllOver'
<1> USE DEF AllOver, waves, clocks, signals, history
<1>1. CASE MainStep
  <2>1. CASE Settle
    BY <2>1, AllTaken DEF Shape, Settle, Joined
  <2> QED
    BY <1>1, <2>1 DEF MainStep, OpenWave, Skip, StartWave, Hear, RecordOutcome, CloseWave
<1>2. ASSUME NEW c \in Members, ClockStep(c) PROVE AllOver'
  BY <1>2, ClockStepFrame
<1>3. ASSUME NEW c \in Members, Elapse(c) PROVE AllOver'
  BY <1>3 DEF Elapse
<1>4. ASSUME NEW r \in Runners, NEW m \in Members, NEW o \in Outcomes, EndTurn(r, m, o)
      PROVE  AllOver'
  BY <1>4 DEF EndTurn
<1>5. CASE Operator
  BY <1>5 DEF Operator, Cancel, CancelMember, Trigger, ResetTimer
<1>6. CASE UNCHANGED vars
  BY <1>6 DEF vars
<1> HIDE DEF AllOver, waves, clocks, signals, history
<1> QED
  BY <1>1, <1>2, <1>3, <1>4, <1>5, <1>6 DEF Next, Exited

(* Every step of the scheduler keeps all of it.                             *)
LEMMA RefInvStep == RefInv /\ [Next]_vars => RefInv'
<1> SUFFICES ASSUME RefInv, [Next]_vars PROVE RefInv'
  OBVIOUS
<1>1. Shape /\ WaveOrder /\ ChainShape /\ LedgerInv
  BY DEF RefInv, LedgerInv, FollowInv
<1>2. LedgerInv' /\ (live = 0 => live' = 0)
  BY <1>1, LedgerInvStep
<1>3. LateInv'
  BY <1>1, <1>2, LateStep DEF RefInv
<1>4. FollowInv'
  BY FollowInvStep DEF RefInv
<1>5. Owned' /\ HandedOver' /\ AllOver'
  BY <1>1, OwnedStep, HandedOverStep, AllOverStep DEF RefInv
<1> QED
  BY <1>2, <1>3, <1>4, <1>5 DEF RefInv

(* The count is zero exactly when no foreground member is unfinished.       *)
LEMMA QuietIsEmpty ==
    ASSUME Ledger
    PROVE  live = 0 <=> Unfinished = {}
  BY UnfinishedIsFinite, FS_EmptySet DEF Ledger

(* A run that settles leaves nothing behind it.                             *)
LEMMA NothingLeft ==
    ASSUME RefInv, Settle
    PROVE  /\ Unfinished = {}
           /\ \A r \in Runners, m \in Members : turn[r][m] # "running"
<1> USE GraphAssumption DEF GraphAssumption
<1>1. Shape /\ WaveOrder /\ ChainShape /\ Owned /\ HandedOver
  BY DEF RefInv, LedgerInv, FollowInv
<1>2. taken = Members
  BY <1>1, AllTaken DEF Shape, Settle
<1>3. /\ todo[Main] = {}
      /\ phase = "next"
      /\ \A c \in Members : clock[c] \in {"absent", "gone"}
  BY <1>1 DEF Settle, Joined, WaveOrder
<1>4. Unfinished = {}
  BY <1>1, <1>2, <1>3 DEF Unfinished, HandedOver, Foreground, Clocked
<1>5. \A r \in Runners, m \in Members : turn[r][m] # "running"
  <2>1. \A m \in Members : turn[Main][m] # "running"
    BY <1>1, <1>3 DEF WaveOrder
  <2>2. \A c \in Members : \A m \in Members : turn[c][m] # "running"
    BY <1>1, <1>3 DEF Owned
  <2> QED
    BY <2>1, <2>2
<1> QED
  BY <1>4, <1>5

-----------------------------------------------------------------------------
(* Steps.                                                                   *)

(* The state Quiescence sees.                                               *)
QVars == <<Unfinished, Running, Grace, phase = "settled">>

(* Launching a set of turns is beginning them.                              *)
LEMMA RunningAfterLaunch ==
    ASSUME Shape, NEW r \in Runners, NEW S \in SUBSET Members, Launch(r, S)
    PROVE  Running' = [Running EXCEPT ![r] = @ \cup S]
<1>1. \A q \in Runners : Running'[q] = IF q = r THEN Running[r] \cup S ELSE Running[q]
  <2>1. \A q \in Runners, m \in Members :
            turn'[q][m] = IF q = r /\ m \in S THEN "running" ELSE turn[q][m]
    BY DEF Shape, Launch
  <2> QED
    BY <2>1 DEF Running
<1> QED
  BY <1>1 DEF Running

(* Ending a turn takes it off.                                              *)
LEMMA RunningAfterEnd ==
    ASSUME Shape, NEW r \in Runners, NEW m \in Members, NEW o \in Outcomes, EndTurn(r, m, o)
    PROVE  m \in Running[r] /\ Running' = [Running EXCEPT ![r] = @ \ {m}]
<1>1. turn[r][m] = "running"
  BY DEF EndTurn
<1>2. \A q \in Runners, x \in Members :
          turn'[q][x] = IF q = r /\ x = m THEN o ELSE turn[q][x]
  BY DEF Shape, EndTurn
<1>3. \A q \in Runners : Running'[q] = IF q = r THEN Running[r] \ {m} ELSE Running[q]
  BY <1>2 DEF Running
<1> QED
  BY <1>1, <1>3 DEF Running

(* What starts something changes no count; what a clock starts once the run *)
(* is quiet uses up the one start it had left.                              *)
LEMMA GraceAfterStart ==
    ASSUME Shape, Ledger, LateInv, NEW c \in Members, clock[c] \in {"armed", "launch"}, Started(c)
    PROVE  IF Unfinished = {} THEN c \in Grace /\ Grace' = Grace \ {c} ELSE Grace' = Grace
<1>1. late[c] = 0
  BY DEF LateInv
<1>2. \A x \in Members : late'[x] = IF x = c /\ live = 0 THEN 1 ELSE late[x]
  BY <1>1 DEF Shape, Started, OneMore
<1>3. live = 0 <=> Unfinished = {}
  BY QuietIsEmpty
<1> QED
  BY <1>1, <1>2, <1>3 DEF Grace

(* Only Skip, Hear and Leave touch the count, and they start nothing.       *)
LEMMA CountIsAlone ==
    ASSUME Shape, [Next]_vars, live' # live
    PROVE  UNCHANGED <<turn, late, phase>>
<1> USE DEF waves, clocks, signals, history
<1>1. ASSUME NEW c \in Members, ClockStep(c) PROVE UNCHANGED <<turn, late, phase>>
  BY <1>1 DEF ClockStep, Wake, CheckQuiet, CheckReset, Fire, NotDue, FiringFails,
     FiringSettles, ChainOpens, ChainGoesOn, ChainEnds, ChainLaunches, ChainSends,
     ChainCollected, Leave
<1>2. CASE MainStep
  BY <1>2 DEF MainStep, OpenWave, Skip, StartWave, Hear, RecordOutcome, CloseWave, Settle
<1>3. ASSUME NEW c \in Members, Elapse(c) PROVE FALSE
  BY <1>3 DEF Elapse
<1>4. ASSUME NEW r \in Runners, NEW m \in Members, NEW o \in Outcomes, EndTurn(r, m, o)
      PROVE  FALSE
  BY <1>4 DEF EndTurn
<1>5. CASE Operator
  BY <1>5 DEF Operator, Cancel, CancelMember, Trigger, ResetTimer
<1>6. CASE UNCHANGED vars
  BY <1>6 DEF vars
<1> HIDE DEF waves, clocks, signals, history
<1> QED
  BY <1>1, <1>2, <1>3, <1>4, <1>5, <1>6 DEF Next, Exited

(* A step that counts a member down finishes it, with no turn in flight.    *)
LEMMA FinishStep ==
    ASSUME RefInv, RefInv', [Next]_vars, live' # live
    PROVE  \E m \in Members : Q!Finish(m)
<1>1. Shape /\ WaveOrder /\ Ledger /\ WaveOrder' /\ Owned'
  BY DEF RefInv, LedgerInv
<1>2. UNCHANGED <<turn, late, phase>>
  BY <1>1, CountIsAlone
<1>3. PICK m \in Unfinished : Unfinished' = Unfinished \ {m}
  BY <1>1, TallyStep DEF Tally
<1>4. m \in Members /\ m \in Foreground /\ m \notin Unfinished'
  BY <1>3 DEF Unfinished, Foreground
<1>5. m \notin todo'[Main] /\ clock'[m] \in {"absent", "gone"}
  BY <1>4 DEF Unfinished
<1>6. turn[Main][m] # "running" /\ turn[m][m] # "running"
  BY <1>1, <1>2, <1>4, <1>5 DEF WaveOrder, Owned
<1>7. Running' = Running /\ Grace' = Grace
  BY <1>2 DEF Running, Grace
<1> QED
  BY <1>2, <1>3, <1>4, <1>6, <1>7 DEF Q!Finish, Running

(* A runner that may still begin something, and begins it, takes a step of  *)
(* Quiescence.                                                              *)
LEMMA BeginStep ==
    ASSUME Shape, NEW r \in Runners, NEW S \in SUBSET Members, S # {}, Launch(r, S),
           phase # "settled", phase' # "settled", Unfinished' = Unfinished,
           IF r # Main /\ Unfinished = {} THEN r \in Grace /\ Grace' = Grace \ {r}
                                          ELSE Grace' = Grace
    PROVE  Q!Next
<1>1. Running' = [Running EXCEPT ![r] = @ \cup S]
  BY RunningAfterLaunch
<1>2. Q!Begin(r, S)
  BY <1>1 DEF Q!Begin
<1> QED
  BY <1>2 DEF Q!Next, Q!Runners

(* No member of a clock's finished or failed firing is running.             *)
LEMMA RestStep ==
    ASSUME Shape, ChainShape, Owned, NEW c \in Members, clock[c] \in {"turn", "chain"},
           clock[c] = "turn" => turn[c][c] = "failed", Rest(c)
    PROVE  Running' = Running
<1>1. \A m \in Members : turn[c][m] # "running"
  BY DEF Owned
<1>2. \A m \in Members : turn'[c][m] = "idle"
  BY DEF Shape, Rest, NoTurns
<1>3. \A r \in Runners \ {c} : turn'[r] = turn[r]
  BY DEF Shape, Rest
<1>4. \A r \in Runners, m \in Members : turn'[r][m] = "running" <=> turn[r][m] = "running"
  BY <1>1, <1>2, <1>3
<1> QED
  BY <1>4 DEF Running

(* A step that counts nobody down begins turns, ends one, settles the run,  *)
(* or is not seen.                                                          *)
LEMMA OtherStep ==
    ASSUME RefInv, RefInv', [Next]_vars, live' = live
    PROVE  Q!Next \/ UNCHANGED QVars
<1> DEFINE Seen == Q!Next \/ UNCHANGED QVars
<1> USE GraphAssumption DEF GraphAssumption
<1>1. Shape /\ WaveOrder /\ ChainShape /\ Ledger /\ LateInv /\ Owned /\ AllOver
  BY DEF RefInv, LedgerInv, FollowInv
<1>2. Unfinished' = Unfinished
  <2>1. live # live - 1
    BY <1>1, UnfinishedIsFinite DEF Ledger
  <2> QED
    BY <1>1, <2>1, TallyStep DEF Tally
<1>3. ASSUME UNCHANGED <<turn, late>>, phase # "settled", phase' # "settled"
      PROVE  Seen
  BY <1>2, <1>3 DEF QVars, Running, Grace
<1>4. ASSUME NEW c \in Members, ClockStep(c)
      PROVE  phase # "settled" /\ phase' # "settled"
  BY <1>1, <1>4, ClockStepFrame DEF AllOver
<1>5. CASE UNCHANGED vars
  BY <1>2, <1>5 DEF QVars, Running, Grace, vars, waves, history
<1>6. CASE OpenWave \/ (\E m \in Members : Skip(m) \/ Hear(m) \/ RecordOutcome(m)) \/ CloseWave
  <2>1. UNCHANGED <<turn, late>> /\ phase # "settled" /\ phase' # "settled"
    BY <1>6 DEF OpenWave, Skip, Hear, RecordOutcome, CloseWave, history
  <2> QED
    BY <2>1, <1>3
<1>7. CASE StartWave
  <2>1. /\ Launch(Main, Runnable) /\ Runnable \in SUBSET Members /\ Grace' = Grace
        /\ phase # "settled" /\ phase' # "settled"
    BY <1>1, <1>7 DEF StartWave, Runnable, Shape, Grace, history
  <2>2. CASE Runnable = {}
    <3>1. turn' = turn
      BY <1>1, <2>1, <2>2 DEF Launch, Shape
    <3> QED
      BY <1>3, <1>7, <2>1, <3>1 DEF StartWave, history
  <2> QED
    BY <1>1, <1>2, <2>1, <2>2, BeginStep
<1>8. CASE Settle
  <2>1. /\ UNCHANGED <<turn, late>>
        /\ phase = "next" /\ phase' = "settled"
    BY <1>8 DEF Settle, history
  <2>2. /\ Unfinished = {}
        /\ \A r \in Runners : Running[r] = {}
    BY <1>8, NothingLeft DEF Running
  <2>3. Q!Settle
    BY <1>2, <2>1, <2>2 DEF Q!Settle, Q!Runners, Running, Grace
  <2> QED
    BY <2>3 DEF Q!Next
<1>9. ASSUME NEW r \in Runners, NEW m \in Members, NEW o \in Outcomes, EndTurn(r, m, o)
      PROVE  Seen
  <2>1. m \in Running[r] /\ Running' = [Running EXCEPT ![r] = @ \ {m}]
    BY <1>1, <1>9, RunningAfterEnd
  <2>2. Grace' = Grace /\ phase' = phase
    BY <1>9 DEF EndTurn, Grace
  <2>3. Q!End(r, m)
    BY <1>2, <2>1, <2>2 DEF Q!End
  <2> QED
    BY <2>3 DEF Q!Next, Q!Runners
<1>10. ASSUME NEW c \in Members, Elapse(c)
       PROVE  Seen
  BY <1>2, <1>10 DEF Elapse, QVars, Running, Grace, waves, history
<1>11. ASSUME NEW c \in Members, Fire(c)
       PROVE  Seen
  <2>1. Launch(c, {c}) /\ Started(c) /\ clock[c] = "armed"
    BY <1>11 DEF Fire
  <2>2. phase # "settled" /\ phase' # "settled"
    BY <1>11, <1>4 DEF ClockStep
  <2> QED
    BY <1>1, <1>2, <2>1, <2>2, GraceAfterStart, BeginStep
<1>12. ASSUME NEW c \in Members, ChainLaunches(c)
       PROVE  Seen
  <2>1. /\ Launch(c, Eligible(c)) /\ clock[c] = "launch"
        /\ IF Eligible(c) = {} THEN late' = late ELSE Started(c)
    BY <1>12 DEF ChainLaunches
  <2>2. phase # "settled" /\ phase' # "settled"
    BY <1>12, <1>4 DEF ClockStep
  <2>3. Eligible(c) \in SUBSET Members
    BY DEF Eligible, ReadyAfter
  <2>4. CASE Eligible(c) = {}
    <3>1. turn' = turn
      BY <1>1, <2>1, <2>4 DEF Launch, Shape
    <3> QED
      BY <1>3, <2>1, <2>2, <2>4, <3>1
  <2>5. CASE Eligible(c) # {}
    <3>1. Started(c)
      BY <2>1, <2>5
    <3> QED
      BY <1>1, <1>2, <2>1, <2>2, <2>3, <2>5, <3>1, GraceAfterStart, BeginStep
  <2> QED
    BY <2>4, <2>5
<1>13. ASSUME NEW c \in Members, FiringFails(c) \/ ChainEnds(c)
       PROVE  Seen
  <2>1. Rest(c) /\ clock[c] \in {"turn", "chain"} /\ Grace' = Grace
        /\ (clock[c] = "turn" => turn[c][c] = "failed")
    BY <1>13 DEF FiringFails, ChainEnds, Grace, history
  <2>2. phase # "settled" /\ phase' # "settled"
    BY <1>13, <1>4 DEF ClockStep
  <2>3. Running' = Running
    BY <1>1, <2>1, RestStep
  <2> QED
    BY <1>2, <2>1, <2>2, <2>3 DEF QVars
<1>14. ASSUME NEW c \in Members, ClockStep(c), UNCHANGED <<turn, late>>
       PROVE  Seen
  BY <1>3, <1>4, <1>14
<1>15. ASSUME NEW c \in Members, ClockStep(c)
       PROVE  \/ UNCHANGED <<turn, late>>
              \/ Fire(c) \/ ChainLaunches(c) \/ FiringFails(c) \/ ChainEnds(c)
  BY <1>15 DEF ClockStep, Wake, CheckQuiet, CheckReset, NotDue, FiringSettles, ChainOpens,
     ChainGoesOn, ChainSends, ChainCollected, Leave, waves, history
<1>16. ASSUME NEW c \in Members, ClockStep(c)
       PROVE  Seen
  BY <1>11, <1>12, <1>13, <1>14, <1>15, <1>16
<1>17. CASE Operator
  BY <1>2, <1>17 DEF Operator, Cancel, CancelMember, Trigger, ResetTimer, QVars,
     Running, Grace, waves, history
<1> QED
  BY <1>5, <1>6, <1>7, <1>8, <1>9, <1>10, <1>16, <1>17 DEF Next, MainStep, Exited

(* The scheduler refines Quiescence: every behaviour of it, seen through    *)
(* the mapping, takes only the steps Quiescence allows.                     *)
THEOREM RefinesQuiescence == SafeSpec => Q!Safety
<1>1. Init => Q!Init
  BY GraphAssumption DEF Init, Q!Init, Q!Runners, Running, Grace, Unfinished, NoTurns
<1>2. RefInv /\ RefInv' /\ [Next]_vars => [Q!Next]_(Q!vars)
  BY OtherStep, FinishStep DEF Q!Next, Q!vars, QVars
<1>3. RefInv /\ [Next]_vars => RefInv'
  BY RefInvStep
<1> QED
  BY RefInvInit, <1>1, <1>2, <1>3, PTL DEF SafeSpec, Q!Safety

(* graph-settled is the last thing to happen in a run of any graph.         *)
THEOREM SettledIsTheEndHolds == SafeSpec => []SettledIsTheEnd
<1>1. RefInv => SettledIsTheEnd
  <2> SUFFICES ASSUME RefInv, phase = "settled"
               PROVE  /\ \A r \in Runners, m \in Members : turn[r][m] # "running"
                      /\ \A c \in Members : clock[c] \in {"absent", "gone"}
                      /\ Unfinished = {}
    BY DEF SettledIsTheEnd
  <2>1. WaveOrder /\ Owned /\ HandedOver /\ AllOver
    BY DEF RefInv, LedgerInv
  <2>2. \A c \in Members : clock[c] \in {"absent", "gone"}
    BY <2>1 DEF AllOver
  <2>3. Unfinished = {}
    BY <2>1, <2>2 DEF WaveOrder, HandedOver, AllOver, Unfinished, Foreground, Clocked
  <2>4. \A m \in Members : turn[Main][m] # "running"
    BY <2>1 DEF WaveOrder
  <2>5. \A c \in Members : \A m \in Members : turn[c][m] # "running"
    BY <2>1, <2>2 DEF Owned
  <2> QED
    BY <2>2, <2>3, <2>4, <2>5
<1> QED
  BY RefInvInit, RefInvStep, <1>1, PTL DEF SafeSpec

-----------------------------------------------------------------------------
(* The record.                                                              *)

(* What is written down of the turns, in the record, in the channel and by  *)
(* the clocks, is what they came to; a failure is counted where it is       *)
(* written down, and only where there was one.                              *)
BookedTruly ==
    /\ \A m \in Members :
          /\ record[m] \in Outcomes => record[m] \in took[m]
          /\ sent[m] # "none" => sent[m] \in took[m]
          /\ last[m] # "none" => last[m] \in took[m]
          /\ record[m] = "failed" => failed
          /\ sent[m] = "failed" => sentFailed
    /\ failed \/ sentFailed => \E m \in Members : "failed" \in took[m]

(* Who is passed over had no turn in a wave and will have none.             *)
PassedOver ==
    \A m \in Members :
        /\ record[m] = "skipped" => turn[Main][m] = "idle"
        /\ m \in todo[Main] \/ m \notin taken => record[m] = "none"

(* A member that took a turn is on the record or in the channel, or on its  *)
(* way there: in the wave Main waits for, in its clock's hands, or in the   *)
(* chain wave a clock collects.                                             *)
OnItsWay(m) ==
    \/ record[m] \in Outcomes
    \/ sent[m] # "none"
    \/ phase = "wait" /\ turn[Main][m] \in Outcomes
    \/ last[m] # "none" /\ clock[m] \notin {"absent", "gone"}
    \/ clock[m] = "turn" /\ turn[m][m] \in Outcomes
    \/ \E c \in Members : clock[c] = "collect" /\ m \in todo[c]

Accounted == phase # "settled" => \A m \in Members : took[m] # {} => OnItsWay(m)

RecordInv == BookedTruly /\ PassedOver /\ Accounted /\ RecordTellsTheTruth

(* The books, and the steps that write in them.                             *)
Books == <<record, sent, last, took, failed, sentFailed>>

Writes ==
    \/ \E m \in Members : Skip(m) \/ RecordOutcome(m)
    \/ Settle
    \/ \E r \in Runners, m \in Members, o \in Outcomes : EndTurn(r, m, o)
    \/ \E c \in Members : FiringFails(c) \/ FiringSettles(c) \/ Leave(c)
    \/ \E c, m \in Members : ChainSends(c, m)

\* The steps that write nothing down
Others ==
    \/ OpenWave \/ StartWave \/ CloseWave
    \/ \E m \in Members : Hear(m)
    \/ \E c \in Members :
          \/ Elapse(c) \/ Wake(c) \/ CheckQuiet(c) \/ CheckReset(c) \/ Fire(c) \/ NotDue(c)
          \/ ChainOpens(c) \/ ChainGoesOn(c) \/ ChainEnds(c) \/ ChainLaunches(c)
          \/ ChainCollected(c)
    \/ Operator
    \/ UNCHANGED vars

(* A step writes something down or nothing.                                 *)
LEMMA WritesOrNot ==
    ASSUME [Next]_vars
    PROVE  Writes \/ Others
BY DEF Next, MainStep, ClockStep, Exited, Writes, Others

(* What writes nothing down leaves the books alone.                         *)
LEMMA BooksLeft ==
    ASSUME Others
    PROVE  UNCHANGED Books
<1> USE DEF Books, waves, clocks, signals, history
<1>1. CASE OpenWave \/ StartWave \/ CloseWave
  BY <1>1 DEF OpenWave, StartWave, CloseWave
<1>2. ASSUME NEW m \in Members, Hear(m) PROVE UNCHANGED Books
  BY <1>2 DEF Hear
<1>3. ASSUME NEW c \in Members,
             Elapse(c) \/ Wake(c) \/ CheckQuiet(c) \/ CheckReset(c) \/ NotDue(c)
      PROVE  UNCHANGED Books
  BY <1>3 DEF Elapse, Wake, CheckQuiet, CheckReset, NotDue
<1>4. ASSUME NEW c \in Members, Fire(c) \/ ChainOpens(c) \/ ChainGoesOn(c) PROVE UNCHANGED Books
  BY <1>4 DEF Fire, ChainOpens, ChainGoesOn
<1>5. ASSUME NEW c \in Members, ChainEnds(c) \/ ChainLaunches(c) \/ ChainCollected(c)
      PROVE  UNCHANGED Books
  BY <1>5 DEF ChainEnds, ChainLaunches, ChainCollected
<1>6. CASE Operator
  BY <1>6 DEF Operator, Cancel, CancelMember, Trigger, ResetTimer
<1>7. CASE UNCHANGED vars
  BY <1>7 DEF vars
<1> QED
  BY <1>1, <1>2, <1>3, <1>4, <1>5, <1>6, <1>7 DEF Others

(* Every step writes down what is true.                                     *)
LEMMA BookedTrulyStep ==
    ASSUME Shape, Witnessed, BookedTruly, [Next]_vars
    PROVE  BookedTruly'
<1>1. CASE Others
  BY <1>1, BooksLeft DEF Books, BookedTruly
<1> USE DEF BookedTruly, Shape, clocks, signals, history
<1>2. ASSUME NEW m \in Members, Skip(m) PROVE BookedTruly'
  BY <1>2 DEF Skip
<1>3. ASSUME NEW m \in Members, RecordOutcome(m) PROVE BookedTruly'
  <2>1. turn[Main][m] \in Outcomes /\ turn[Main][m] \in took[m]
    BY <1>3, GraphAssumption DEF RecordOutcome, Unrecorded, Witnessed
  <2>2. /\ \A x \in Members : record'[x] = IF x = m THEN turn[Main][m] ELSE record[x]
        /\ UNCHANGED <<sent, last, took, sentFailed>>
    BY <1>3 DEF RecordOutcome
  <2>3. failed' <=> failed \/ turn[Main][m] = "failed"
    BY <1>3, Zenon DEF RecordOutcome
  <2> HIDE DEF Shape
  <2> QED
    BY <2>1, <2>2, <2>3
<1>4. CASE Settle
  BY <1>4 DEF Settle, FinalRecord, FinalFailed
<1>5. ASSUME NEW r \in Runners, NEW m \in Members, NEW o \in Outcomes, EndTurn(r, m, o)
      PROVE  BookedTruly'
  BY <1>5 DEF EndTurn
<1>6. ASSUME NEW c \in Members, FiringFails(c) \/ FiringSettles(c) PROVE BookedTruly'
  <2>1. turn[c][c] \in Outcomes /\ turn[c][c] \in took[c]
    BY <1>6 DEF FiringFails, FiringSettles, Witnessed
  <2>2. /\ \A x \in Members : last'[x] = IF x = c THEN turn[c][c] ELSE last[x]
        /\ UNCHANGED <<record, sent, took, failed, sentFailed>>
    BY <1>6 DEF FiringFails, FiringSettles
  <2> HIDE DEF Shape
  <2> QED
    BY <2>1, <2>2
<1>7. ASSUME NEW c \in Members, Leave(c) PROVE BookedTruly'
  <2>1. UNCHANGED <<record, last, took, failed>>
    BY <1>7 DEF Leave
  <2>2. CASE last[c] = "none"
    BY <1>7, <2>1, <2>2 DEF Leave
  <2>3. CASE last[c] # "none"
    <3>1. \A x \in Members : sent'[x] = IF x = c THEN last[c] ELSE sent[x]
      BY <1>7, <2>3 DEF Leave
    <3>2. sentFailed' <=> sentFailed \/ last[c] = "failed"
      BY <1>7, <2>3, Zenon DEF Leave
    <3>3. last[c] \in took[c]
      BY <2>3
    <3> HIDE DEF Shape
    <3> QED
      BY <2>1, <3>1, <3>2, <3>3
  <2> QED
    BY <2>2, <2>3
<1>8. ASSUME NEW c \in Members, NEW m \in Members, ChainSends(c, m) PROVE BookedTruly'
  <2>1. turn[c][m] \in Outcomes /\ turn[c][m] \in took[m]
    BY <1>8 DEF ChainSends, Witnessed
  <2>2. /\ \A x \in Members : sent'[x] = IF x = m THEN turn[c][m] ELSE sent[x]
        /\ UNCHANGED <<record, last, took, failed>>
    BY <1>8 DEF ChainSends
  <2>3. sentFailed' <=> sentFailed \/ turn[c][m] = "failed"
    BY <1>8, Zenon DEF ChainSends
  <2> HIDE DEF Shape
  <2> QED
    BY <2>1, <2>2, <2>3
<1> HIDE DEF BookedTruly, Shape, clocks, signals, history
<1> QED
  BY <1>1, <1>2, <1>3, <1>4, <1>5, <1>6, <1>7, <1>8, WritesOrNot DEF Writes

(* Every step passes over only whom no wave will take.                      *)
LEMMA PassedOverStep ==
    ASSUME Shape, WaveOrder, AllOver, PassedOver, [Next]_vars
    PROVE  PassedOver'
<1> USE GraphAssumption DEF Shape, WaveOrder, PassedOver, waves, clocks, signals, history
<1>1. CASE OpenWave
  BY <1>1 DEF OpenWave, ReadyAfter
<1>2. ASSUME NEW m \in Members, Skip(m) PROVE PassedOver'
  BY <1>2 DEF Skip
<1>3. CASE StartWave
  BY <1>3 DEF StartWave, Launch, Runnable
<1>4. ASSUME NEW m \in Members, Hear(m) PROVE PassedOver'
  BY <1>4 DEF Hear
<1>5. ASSUME NEW m \in Members, RecordOutcome(m) PROVE PassedOver'
  BY <1>5 DEF RecordOutcome, Unrecorded
<1>6. CASE CloseWave
  BY <1>6 DEF CloseWave
<1>7. CASE Settle
  <2>1. AllOver'
    BY AllOverStep
  <2> QED
    BY <1>7, <2>1 DEF Settle, FinalRecord, AllOver
<1>8. ASSUME NEW r \in Runners, NEW m \in Members, NEW o \in Outcomes, EndTurn(r, m, o)
      PROVE  PassedOver'
  BY <1>8 DEF EndTurn
<1>9. ASSUME NEW c \in Members, Elapse(c) PROVE PassedOver'
  BY <1>9 DEF Elapse
<1>10. ASSUME NEW c \in Members, ClockStep(c) PROVE PassedOver'
  BY <1>10, ClockStepFrame DEF Shape
<1>11. CASE Operator
  BY <1>11 DEF Operator, Cancel, CancelMember, Trigger, ResetTimer
<1>12. CASE UNCHANGED vars
  BY <1>12 DEF vars
<1> HIDE DEF PassedOver, vars
<1> QED
  BY <1>1, <1>2, <1>3, <1>4, <1>5, <1>6, <1>7, <1>8, <1>9, <1>10, <1>11, <1>12
     DEF Next, MainStep, Exited

(* A settled run stays settled, and only Settle settles one.                *)
LEMMA PhaseEnds ==
    ASSUME Shape, [Next]_vars
    PROVE  /\ phase = "settled" => phase' = "settled"
           /\ phase # "settled" /\ phase' = "settled" => Settle
<1> USE DEF waves
<1>1. CASE MainStep
  BY <1>1 DEF MainStep, OpenWave, Skip, StartWave, Hear, RecordOutcome, CloseWave, Settle
<1>2. ASSUME NEW c \in Members, ClockStep(c) PROVE phase' = phase
  BY <1>2, ClockStepFrame
<1>3. ASSUME NEW c \in Members, Elapse(c) PROVE phase' = phase
  BY <1>3 DEF Elapse
<1>4. ASSUME NEW r \in Runners, NEW m \in Members, NEW o \in Outcomes, EndTurn(r, m, o)
      PROVE  phase' = phase
  BY <1>4 DEF EndTurn
<1>5. CASE Operator
  BY <1>5 DEF Operator, Cancel, CancelMember, Trigger, ResetTimer
<1>6. CASE UNCHANGED vars
  BY <1>6 DEF vars
<1> QED
  BY <1>1, <1>2, <1>3, <1>4, <1>5, <1>6 DEF Next, Exited

(* No step loses a turn that ended.                                         *)
LEMMA AccountedStep ==
    ASSUME Shape, WaveOrder, ChainShape, Owned, PassedOver, Accounted, [Next]_vars
    PROVE  Accounted'
<1> SUFFICES ASSUME phase' # "settled", NEW x \in Members, took'[x] # {}
             PROVE  OnItsWay(x)'
  BY DEF Accounted
<1> DEFINE Kept == took[x] # {} => OnItsWay(x)
<1>0. phase # "settled" /\ Kept
  <2>1. phase # "settled"
    BY PhaseEnds
  <2> QED
    BY <2>1 DEF Accounted
<1> HIDE DEF Kept
<1>00. took[x] # {} => OnItsWay(x)
  BY <1>0 DEF Kept
<1> USE DEF OnItsWay, Shape, waves, clocks, signals, history
<1>1. CASE OpenWave
  <2>1. UNCHANGED <<record, sent, last, clock, turn, took>> /\ phase = "next"
    BY <1>1 DEF OpenWave
  <2>2. \A c \in Members : todo'[c] = todo[c]
    BY <1>1, GraphAssumption DEF OpenWave
  <2> HIDE DEF Shape
  <2> QED
    BY <1>00, <2>1, <2>2
<1>2. ASSUME NEW m \in Members, Skip(m) PROVE OnItsWay(x)'
  BY <1>00, <1>2, GraphAssumption DEF Skip, PassedOver
<1>3. CASE StartWave
  <2>1. UNCHANGED <<record, sent, last, took>> /\ phase = "admit"
    BY <1>3 DEF StartWave
  <2>2. \A c \in Members : todo'[c] = todo[c] /\ turn'[c] = turn[c]
    BY <1>3, GraphAssumption DEF StartWave, Launch
  <2>3. \A c \in Members : clock'[c] = clock[c] \/ (clock[c] = "absent" /\ clock'[c] = "asleep")
    BY <1>3 DEF StartWave, WaveOrder
  <2> HIDE DEF Shape
  <2> QED
    BY <1>00, <2>1, <2>2, <2>3
<1>4. ASSUME NEW m \in Members, Hear(m) PROVE OnItsWay(x)'
  BY <1>00, <1>4, GraphAssumption DEF Hear
<1>5. ASSUME NEW m \in Members, RecordOutcome(m) PROVE OnItsWay(x)'
  BY <1>00, <1>5 DEF RecordOutcome, Unrecorded
<1>6. CASE CloseWave
  BY <1>00, <1>6 DEF CloseWave, Unrecorded, PassedOver
<1>7. CASE Settle
  BY <1>0, <1>7 DEF Settle
<1>8. ASSUME NEW r \in Runners, NEW m \in Members, NEW o \in Outcomes, EndTurn(r, m, o)
      PROVE  OnItsWay(x)'
  <2>1. CASE x # m
    BY <1>00, <1>8, <2>1, GraphAssumption DEF EndTurn
  <2>2. CASE x = m /\ r = Main
    BY <1>0, <1>8, <2>2 DEF EndTurn, WaveOrder
  <2>3. CASE x = m /\ r \in Members
    BY <1>8, <2>3 DEF EndTurn, Owned
  <2> QED
    BY <2>1, <2>2, <2>3 DEF Runners
<1>9. ASSUME NEW c \in Members, Elapse(c) PROVE OnItsWay(x)'
  BY <1>00, <1>9 DEF Elapse
<1>23. ASSUME NEW c \in Members, UNCHANGED <<phase, record, sent, last, turn, todo, took>>,
              clock[c] \notin {"turn", "collect"}, clock'[c] \notin {"absent", "gone"},
              \A d \in Members \ {c} : clock'[d] = clock[d]
       PROVE  OnItsWay(x)'
  <2> HIDE DEF Shape
  <2> QED
    BY <1>00, <1>23
<1>10. ASSUME NEW c \in Members, Wake(c) \/ CheckQuiet(c) \/ NotDue(c) PROVE OnItsWay(x)'
  <2>1. /\ UNCHANGED <<phase, record, sent, last, turn, todo, took>>
        /\ clock[c] \in {"asleep", "awake", "armed"}
        /\ \E p \in {"leaving", "awake", "open", "asleep"} : clock' = [clock EXCEPT ![c] = p]
    BY <1>10, Zenon DEF Wake, CheckQuiet, NotDue
  <2>2. /\ clock'[c] \notin {"absent", "gone"}
        /\ \A d \in Members \ {c} : clock'[d] = clock[d]
    BY <2>1
  <2>3. UNCHANGED <<phase, record, sent, last, turn, todo, took>> /\ clock[c] \notin {"turn", "collect"}
    BY <2>1
  <2> QED
    BY <1>23, <2>2, <2>3
<1>11. ASSUME NEW c \in Members, CheckReset(c) PROVE OnItsWay(x)'
  BY <1>00, <1>11 DEF CheckReset
<1>12. ASSUME NEW c \in Members, Fire(c) PROVE OnItsWay(x)'
  BY <1>00, <1>12, GraphAssumption DEF Fire, Launch
<1>13. ASSUME NEW c \in Members, FiringFails(c) PROVE OnItsWay(x)'
  BY <1>00, <1>13, GraphAssumption DEF FiringFails, Rest
<1>14. ASSUME NEW c \in Members, FiringSettles(c) PROVE OnItsWay(x)'
  BY <1>00, <1>14 DEF FiringSettles
<1>15. ASSUME NEW c \in Members, ChainOpens(c) \/ ChainGoesOn(c) PROVE OnItsWay(x)'
  <2>1. /\ UNCHANGED <<phase, record, sent, last, turn, todo, took>>
        /\ clock[c] \in {"link", "chain"}
        /\ \E p \in {"chain", "launch"} : clock' = [clock EXCEPT ![c] = p]
    BY <1>15 DEF ChainOpens, ChainGoesOn
  <2>2. /\ clock'[c] \notin {"absent", "gone"}
        /\ \A d \in Members \ {c} : clock'[d] = clock[d]
    BY <2>1
  <2>3. UNCHANGED <<phase, record, sent, last, turn, todo, took>> /\ clock[c] \notin {"turn", "collect"}
    BY <2>1
  <2> QED
    BY <1>23, <2>2, <2>3
<1>16. ASSUME NEW c \in Members, ChainEnds(c) PROVE OnItsWay(x)'
  BY <1>00, <1>16, GraphAssumption DEF ChainEnds, Rest
<1>17. ASSUME NEW c \in Members, ChainLaunches(c) PROVE OnItsWay(x)'
  BY <1>00, <1>17, GraphAssumption DEF ChainLaunches, Launch
<1>18. ASSUME NEW c \in Members, NEW m \in Members, ChainSends(c, m) PROVE OnItsWay(x)'
  BY <1>00, <1>18 DEF ChainSends
<1>19. ASSUME NEW c \in Members, ChainCollected(c) PROVE OnItsWay(x)'
  BY <1>00, <1>19 DEF ChainCollected
<1>20. ASSUME NEW c \in Members, Leave(c) PROVE OnItsWay(x)'
  BY <1>00, <1>20 DEF Leave
<1>21. CASE Operator
  BY <1>00, <1>21 DEF Operator, Cancel, CancelMember, Trigger, ResetTimer
<1>22. CASE UNCHANGED vars
  BY <1>00, <1>22 DEF vars
<1> HIDE DEF OnItsWay, Shape, waves, clocks, signals, history
<1> QED
  BY <1>1, <1>2, <1>3, <1>4, <1>5, <1>6, <1>7, <1>8, <1>9, <1>10, <1>11, <1>12, <1>13, <1>14,
     <1>15, <1>16, <1>17, <1>18, <1>19, <1>20, <1>21, <1>22
     DEF Next, MainStep, ClockStep, Exited

(* A run that settles settles with a record of what its turns came to, and  *)
(* nothing is added to it afterwards.                                       *)
LEMMA TruthStep ==
    ASSUME RefInv, BookedTruly, PassedOver, Accounted, RecordTellsTheTruth, [Next]_vars
    PROVE  RecordTellsTheTruth'
<1> SUFFICES ASSUME phase' = "settled"
             PROVE  RecordTellsTheTruth'
  BY DEF RecordTellsTheTruth
<1>0. Shape /\ WaveOrder /\ Owned /\ AllOver
  BY DEF RefInv, LedgerInv
<1>1. CASE phase = "settled"
  <2>1. UNCHANGED <<record, failed, took>>
    <3>1. ~MainStep /\ ~Operator
      BY <1>1 DEF MainStep, OpenWave, Skip, StartWave, Hear, RecordOutcome, CloseWave, Settle,
                  Operator
    <3>2. \A c \in Members : ~Elapse(c) /\ ~ClockStep(c)
      BY <1>0, <1>1, ClockStepFrame DEF AllOver, Elapse
    <3>3. \A r \in Runners, m \in Members, o \in Outcomes : ~EndTurn(r, m, o)
      BY <1>0, <1>1 DEF AllOver, WaveOrder, Owned, EndTurn
    <3> QED
      BY <3>1, <3>2, <3>3 DEF Next, Exited, vars, waves, history
  <2> QED
    BY <1>1, <2>1 DEF RecordTellsTheTruth
<1>2. CASE phase # "settled"
  <2>1. Settle
    BY <1>0, <1>2, PhaseEnds
  <2>2. /\ record' = FinalRecord /\ failed' = FinalFailed /\ took' = took
        /\ phase = "next" /\ Joined
    BY <2>1 DEF Settle, history
  <2>3. ASSUME NEW m \in Members
        PROVE  IF took[m] = {} THEN record'[m] \in {"none", "skipped"}
                               ELSE record'[m] \in took[m]
    <3>1. took[m] # {} => record[m] \in Outcomes \/ sent[m] # "none"
      BY <1>2, <2>2 DEF Accounted, OnItsWay, Joined
    <3>2. record'[m] = IF sent[m] = "none" THEN record[m] ELSE sent[m]
      BY <2>2 DEF FinalRecord
    <3>3. record[m] \in Outcomes \cup {"none", "skipped"}
      BY <1>0 DEF Shape
    <3> QED
      BY <3>1, <3>2, <3>3 DEF BookedTruly
  <2>4. failed' => \E m \in Members : "failed" \in took[m]
    BY <2>2 DEF FinalFailed, BookedTruly
  <2>5. ~failed' => \A m \in Members : record'[m] # "failed"
    BY <2>2 DEF FinalFailed, FinalRecord, BookedTruly
  <2> QED
    BY <2>2, <2>3, <2>4, <2>5 DEF RecordTellsTheTruth
<1> QED
  BY <1>1, <1>2

(* Nothing has been written down yet.                                      *)
LEMMA RecordInvInit == Init => RecordInv
BY GraphAssumption DEF Init, RecordInv, BookedTruly, PassedOver, Accounted, RecordTellsTheTruth,
   NoTurns

(* The final record of a run of any graph names what its members' turns     *)
(* came to, and its exit code says whether one on the record failed         *)
(* (run.rs run_announcing: the waves' outcomes, the clocks' channel, the    *)
(* exit code).                                                              *)
THEOREM RecordTellsTheTruthHolds == SafeSpec => []RecordTellsTheTruth
<1>1. RefInv /\ RecordInv /\ [Next]_vars => RefInv' /\ RecordInv'
  <2> SUFFICES ASSUME RefInv, RecordInv, [Next]_vars PROVE RefInv' /\ RecordInv'
    OBVIOUS
  <2>1. Shape /\ WaveOrder /\ Witnessed /\ ChainShape /\ Owned /\ AllOver
    BY DEF RefInv, LedgerInv, FollowInv
  <2>2. BookedTruly /\ PassedOver /\ Accounted /\ RecordTellsTheTruth
    BY DEF RecordInv
  <2> QED
    BY <2>1, <2>2, RefInvStep, BookedTrulyStep, PassedOverStep, AccountedStep, TruthStep
       DEF RecordInv
<1>2. RecordInv => RecordTellsTheTruth
  BY DEF RecordInv
<1> QED
  BY RefInvInit, RecordInvInit, <1>1, <1>2, PTL DEF SafeSpec

=============================================================================
