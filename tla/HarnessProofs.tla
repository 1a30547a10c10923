---------------------------- MODULE HarnessProofs ----------------------------
(* A member's firings are told once and whole, for any number of firings.   *)
EXTENDS HarnessMember, TLAPS

(* What the telling of a firing is made of.                                 *)
Shape ==
    /\ phase \in Phases /\ firing \in 0 .. Firings
    /\ eng \in [F -> EngineStates]
    /\ opened \in [F -> BOOLEAN]
    /\ answer \in Answers \cup {"none"}
    /\ said \in [F -> [Kinds -> 0 .. 2]]

(* A firing that has not begun has said nothing and has no engine.          *)
Unbegun ==
    \A f \in F : f > firing => said[f] = Quiet /\ eng[f] = "none" /\ ~opened[f]

(* An engine is heard once, as its firing ends, and none precedes the wait. *)
EngineInOrder ==
    /\ phase \in {"views", "drain", "control", "spawn"} => eng[firing] = "none"
    /\ phase # "rest" => firing \in F
    /\ \A f \in F : eng[f] = "heard" => f <= firing /\ Abandoned(f)

(* What is told of a firing, kind by kind.                                  *)
ToldSoFar ==
    \A f \in F :
        /\ said[f]["settled"] + said[f]["died"]
             = IF f <= firing /\ Abandoned(f) THEN 1 ELSE 0
        /\ said[f]["completed"] = said[f]["settled"]
        /\ said[f]["started"] = IF opened[f] THEN 1 ELSE 0
        /\ said[f]["activity"] + said[f]["completed"] > 0 => opened[f]
        /\ eng[f] # "heard" => said[f]["advanced"] = 0
        /\ f = firing /\ eng[f] = "heard" /\ answer \in Advancing => said[f]["advanced"] = 1

ToldInv == Shape /\ Unbegun /\ EngineInOrder /\ ToldSoFar

-----------------------------------------------------------------------------
(* The operators.                                                           *)

(* Publish counts each kind of S once more for one firing.                  *)
LEMMA PublishCounts ==
    ASSUME said \in [F -> [Kinds -> 0 .. 2]], NEW f \in F, NEW S, Publish(f, S)
    PROVE  /\ said' \in [F -> [Kinds -> 0 .. 2]]
           /\ \A g \in F \ {f} : said'[g] = said[g]
           /\ \A k \in Kinds : said'[f][k] = IF k \in S THEN Counted(k, said[f][k])
                                                         ELSE said[f][k]
<1>1. \A k \in Kinds : Counted(k, said[f][k]) \in 0 .. 2
  BY DEF Counted
<1> QED
  BY <1>1 DEF Publish

(* What an answer makes of a firing: one of its two ends.                   *)
LEMMA FinishEventsAre ==
    \/ FinishEvents = {"died"} \cup IfFirst(firing) /\ answer = "error"
    \/ FinishEvents = {"died"} \cup Advanced /\ answer # "error"
    \/ /\ FinishEvents = {"completed", "settled"} \cup IfFirst(firing) \cup Advanced
       /\ answer # "error" /\ ~ungrouped
BY DEF FinishEvents, GroupAsked

-----------------------------------------------------------------------------
(* The steps that publish nothing: no firing begins or ends in one, and no  *)
(* engine is heard.                                                         *)
Silent ==
    /\ UNCHANGED <<firing, said, opened>>
    /\ (Over <=> Over') /\ (phase = "rest" => phase' = "rest")
    /\ phase' \in {"views", "drain", "control", "spawn"} =>
          phase \in {"views", "drain", "control", "spawn"} /\ eng'[firing] = eng[firing]
    /\ \A f \in F : eng'[f] # eng[f] => eng[f] \notin {"none", "heard"} /\ eng'[f] # "heard"
    /\ answer' # answer => eng[firing] # "heard"

Publishes ==
    \/ Launch \/ StartEngine \/ Finish \/ EngineLost \/ TornDown \/ GiveUp
    \/ \E f \in F : Event(f)

(* The next-state relation, in its two kinds of step.                       *)
LEMMA SilentOrPublishes ==
    ASSUME Shape, Unbegun, EngineInOrder, [Next]_vars
    PROVE  Publishes \/ (Silent /\ Shape')
<1> USE DEF Shape, Phases, engines
<1>1. CASE SpawnView \/ ViewReaped \/ ViewTimesOut \/ Drained \/ JoinHeartbeat
  BY <1>1 DEF SpawnView, ViewReaped, ViewTimesOut, Drained, NextView, JoinHeartbeat, Silent, Over
<1>2. CASE OpenControl \/ WriteControl
  BY <1>2 DEF OpenControl, WriteControl, Silent, Over, viewing, health
<1>3. CASE Timeout \/ Spared \/ CondemnByHeartbeat \/ CondemnByActivity
  BY <1>3 DEF Timeout, Spared, CondemnByHeartbeat, CondemnByActivity, Condemn, Silent, Over
<1>4. CASE ViewForks \/ ViewExits \/ HolderExits \/ BoundPasses
  BY <1>4 DEF ViewForks, ViewExits, HolderExits, BoundPasses, Silent, Over
<1>5. CASE SpawnUngrouped \/ Starve \/ FallSilent
  BY <1>5 DEF SpawnUngrouped, Starve, FallSilent, Silent, Over
<1>6. ASSUME NEW f \in F,
             RefuseControl(f) \/ BeginRefusal(f) \/ TurnWithoutControl(f) \/ Panic(f)
      PROVE  Silent /\ Shape'
  <2>1. /\ UNCHANGED <<phase, firing, said, opened, answer>>
        /\ eng[f] \in {"turn", "refused", "rewrite"}
        /\ \E e \in {"turn", "refused", "rewrite", "lost"} : eng' = [eng EXCEPT ![f] = e]
    BY <1>6 DEF RefuseControl, BeginRefusal, TurnWithoutControl, Panic
  <2> QED
    BY <2>1 DEF EngineStates, Silent, Over, EngineInOrder
<1>7. ASSUME NEW f \in F, NEW a \in Answers, Answer(f, a)
      PROVE  Silent /\ Shape'
  <2>1. /\ UNCHANGED <<phase, firing, said, opened>>
        /\ eng[f] \in {"turn", "stopping"}
        /\ \E e \in {"lost", "answered"} : eng' = [eng EXCEPT ![f] = e]
    BY <1>7 DEF Answer
  <2>2. answer' # answer => f = firing /\ answer' \in Answers
    BY <1>7, HarnessAssumption DEF Answer, Abandoned, Over, Unbegun, F
  <2> QED
    BY <2>1, <2>2 DEF EngineStates, Silent, Over, EngineInOrder
<1>8. CASE ReadControl \/ NoTurn \/ Deliver
  BY <1>8 DEF ReadControl, NoTurn, Deliver, Silent, Over
<1>9. CASE UNCHANGED vars
  BY <1>9 DEF vars, Silent, Over
<1> HIDE DEF Shape
<1> QED
  BY <1>1, <1>2, <1>3, <1>4, <1>5, <1>6, <1>7, <1>8, <1>9
     DEF Next, MemberStep, EngineStep, Publishes

-----------------------------------------------------------------------------
(* The invariant.                                                           *)

(* A step that publishes nothing disturbs no part of it.                    *)
LEMMA SilentStep ==
    ASSUME ToldInv, Silent, Shape'
    PROVE  ToldInv'
<1>1. Unbegun'
  BY DEF ToldInv, Unbegun, Silent
<1>2. EngineInOrder'
  <2>1. phase' # "rest" => firing' \in F
    BY DEF ToldInv, EngineInOrder, Silent, Over
  <2> QED
    BY <2>1 DEF ToldInv, EngineInOrder, Silent, Abandoned, Over
<1>3. ToldSoFar'
  BY DEF ToldInv, ToldSoFar, Silent, Abandoned, Over
<1> QED
  BY <1>1, <1>2, <1>3 DEF ToldInv

(* A firing ends once, and with what its end says of it.                    *)
Ending(S) ==
    /\ ~Over /\ phase' \in {"join", "rest"} /\ firing' = firing
    /\ Publish(firing, S)
    /\ "settled" \in S <=> "died" \notin S
    /\ "completed" \in S <=> "settled" \in S
    /\ "activity" \notin S
    /\ "started" \in S => ~opened[firing]
    /\ "completed" \in S => opened[firing] \/ "started" \in S
    /\ \A f \in F \ {firing} : eng'[f] = eng[f] /\ opened'[f] = opened[f]
    /\ opened'[firing] <=> opened[firing] \/ "started" \in S
    /\ eng'[firing] = "heard" => answer' = answer /\ (answer \in Advancing => "advanced" \in S)
    /\ eng'[firing] # "heard" => "advanced" \notin S

(* Whichever of its ends a firing comes to.                                 *)
LEMMA EndingStep ==
    ASSUME ToldInv, NEW S, Ending(S),
           eng' \in [F -> EngineStates], opened' \in [F -> BOOLEAN],
           answer' \in Answers \cup {"none"}
    PROVE  ToldInv'
<1>0. Shape /\ Unbegun /\ EngineInOrder /\ ToldSoFar
  BY DEF ToldInv
<1>1. firing \in F /\ firing \in Nat /\ ~Abandoned(firing) /\ eng[firing] # "heard"
  BY <1>0, HarnessAssumption DEF EngineInOrder, Ending, Abandoned, Over, F
<1>2. /\ said' \in [F -> [Kinds -> 0 .. 2]]
      /\ \A g \in F \ {firing} : said'[g] = said[g]
      /\ \A k \in Kinds : said'[firing][k] = IF k \in S THEN Counted(k, said[firing][k])
                                                       ELSE said[firing][k]
  BY <1>0, <1>1, PublishCounts DEF Ending, Shape
<1>3. /\ said[firing]["settled"] = 0 /\ said[firing]["died"] = 0 /\ said[firing]["completed"] = 0
      /\ said[firing]["advanced"] = 0
      /\ said[firing]["started"] = IF opened[firing] THEN 1 ELSE 0
      /\ said[firing]["activity"] > 0 => opened[firing]
  <2>1. \A k \in Kinds : said[firing][k] \in 0 .. 2
    BY <1>0, <1>1 DEF Shape
  <2> QED
    BY <1>0, <1>1, <2>1 DEF ToldSoFar, Kinds
<1>4. /\ said'[firing]["settled"] = IF "settled" \in S THEN 1 ELSE 0
      /\ said'[firing]["died"] = IF "died" \in S THEN 1 ELSE 0
      /\ said'[firing]["completed"] = IF "completed" \in S THEN 1 ELSE 0
      /\ said'[firing]["advanced"] = IF "advanced" \in S THEN 1 ELSE 0
      /\ said'[firing]["started"] = IF opened'[firing] THEN 1 ELSE 0
      /\ said'[firing]["activity"] = said[firing]["activity"]
  BY <1>2, <1>3 DEF Counted, Kinds, Ending
<1>5. Shape'
  BY <1>0, <1>2 DEF Shape, Phases, Ending
<1>6. Unbegun'
  BY <1>0, <1>1, <1>2 DEF Unbegun, Ending, F
<1>7. EngineInOrder'
  BY <1>0, <1>1 DEF EngineInOrder, Ending, Abandoned, Over, F
<1>8. ToldSoFar'
  <2> SUFFICES ASSUME NEW f \in F
               PROVE  (/\ said[f]["settled"] + said[f]["died"]
                            = IF f <= firing /\ Abandoned(f) THEN 1 ELSE 0
                       /\ said[f]["completed"] = said[f]["settled"]
                       /\ said[f]["started"] = IF opened[f] THEN 1 ELSE 0
                       /\ said[f]["activity"] + said[f]["completed"] > 0 => opened[f]
                       /\ eng[f] # "heard" => said[f]["advanced"] = 0
                       /\ f = firing /\ eng[f] = "heard" /\ answer \in Advancing
                            => said[f]["advanced"] = 1)'
    BY DEF ToldSoFar
  <2>1. CASE f = firing
    <3>1. said'[f]["activity"] \in 0 .. 2
      BY <1>2 DEF Kinds
    <3> QED
      BY <1>1, <1>3, <1>4, <2>1, <3>1 DEF Ending, Abandoned, Over
  <2>2. CASE f # firing
    <3>1. said'[f] = said[f] /\ eng'[f] = eng[f] /\ opened'[f] = opened[f] /\ firing' = firing
      BY <1>2, <2>2 DEF Ending
    <3>2. f <= firing /\ Abandoned(f)' <=> f <= firing /\ Abandoned(f)
      BY <1>1, <2>2 DEF Abandoned, Over, Ending, F
    <3> QED
      BY <1>0, <2>2, <3>1, <3>2 DEF ToldSoFar
  <2> QED
    BY <2>1, <2>2
<1> QED
  BY <1>5, <1>6, <1>7, <1>8 DEF ToldInv

(* One case per action that publishes; the others are silent.               *)
LEMMA ToldInvStep ==
    ASSUME ToldInv, [Next]_vars
    PROVE  ToldInv'
<1>0. Shape /\ Unbegun /\ EngineInOrder /\ ToldSoFar
  BY DEF ToldInv
<1> USE HarnessAssumption DEF F, engines
<1>1. CASE Launch
  <2>1. /\ phase = "rest" /\ firing' = firing + 1 /\ firing' \in F /\ firing \in Nat
        /\ UNCHANGED <<eng, opened, answer>>
    BY <1>0, <1>1 DEF Launch, Shape
  <2>2. said[firing'] = Quiet /\ eng[firing'] = "none" /\ ~opened[firing']
    BY <1>0, <2>1 DEF Unbegun
  <2>3. CASE phase' = "views" /\ said' = said
    <3>1. Shape'
      BY <1>0, <2>1, <2>3 DEF Shape, Phases
    <3>2. Unbegun'
      BY <1>0, <2>1, <2>3 DEF Unbegun
    <3>3. EngineInOrder'
      BY <1>0, <2>1, <2>2, <2>3 DEF EngineInOrder, Abandoned, Over
    <3>4. ToldSoFar'
      BY <1>0, <2>1, <2>2, <2>3 DEF ToldSoFar, Abandoned, Over, Quiet, Kinds
    <3> QED
      BY <3>1, <3>2, <3>3, <3>4 DEF ToldInv
  <2>4. CASE phase' = "rest" /\ Publish(firing', {"died"})
    <3>0. /\ said' \in [F -> [Kinds -> 0 .. 2]]
          /\ \A g \in F \ {firing'} : said'[g] = said[g]
          /\ \A k \in Kinds : said'[firing'][k] = IF k \in {"died"}
                                                   THEN Counted(k, said[firing'][k])
                                                   ELSE said[firing'][k]
      <4>1. said \in [F -> [Kinds -> 0 .. 2]] /\ firing' \in F
        BY <1>0, <2>1 DEF Shape
      <4> HIDE DEF F
      <4> QED
        BY <2>4, <4>1, PublishCounts
    <3>q. \A k \in Kinds : said[firing'][k] = 0
      BY <2>2 DEF Quiet
    <3>1. /\ said' \in [F -> [Kinds -> 0 .. 2]]
          /\ \A g \in F \ {firing'} : said'[g] = said[g]
          /\ \A k \in Kinds : said'[firing'][k] = IF k = "died" THEN 1 ELSE 0
      BY <3>0, <3>q DEF Counted
    <3>2. Shape'
      BY <1>0, <2>1, <2>4, <3>1 DEF Shape, Phases
    <3>3. Unbegun'
      BY <1>0, <2>1, <3>1 DEF Unbegun
    <3>4. EngineInOrder'
      BY <1>0, <2>1, <2>2, <2>4 DEF EngineInOrder, Abandoned, Over
    <3>5. ToldSoFar'
      <4> SUFFICES ASSUME NEW f \in F
                   PROVE  (/\ said[f]["settled"] + said[f]["died"]
                                = IF f <= firing /\ Abandoned(f) THEN 1 ELSE 0
                           /\ said[f]["completed"] = said[f]["settled"]
                           /\ said[f]["started"] = IF opened[f] THEN 1 ELSE 0
                           /\ said[f]["activity"] + said[f]["completed"] > 0 => opened[f]
                           /\ eng[f] # "heard" => said[f]["advanced"] = 0
                           /\ f = firing /\ eng[f] = "heard" /\ answer \in Advancing
                                => said[f]["advanced"] = 1)'
        BY DEF ToldSoFar
      <4>1. CASE f = firing'
        BY <2>1, <2>2, <2>4, <3>1, <4>1 DEF Abandoned, Over, Kinds
      <4>2. CASE f # firing'
        <5>1. said'[f] = said[f] /\ eng'[f] = eng[f] /\ opened'[f] = opened[f]
          BY <2>1, <3>1, <4>2
        <5>2. f <= firing' /\ Abandoned(f)' <=> f <= firing /\ Abandoned(f)
          BY <2>1, <2>4, <4>2 DEF Abandoned, Over
        <5> QED
          BY <1>0, <4>2, <5>1, <5>2 DEF ToldSoFar
      <4> QED
        BY <4>1, <4>2
    <3> QED
      BY <3>2, <3>3, <3>4, <3>5 DEF ToldInv
  <2> QED
    BY <1>1, <2>1, <2>3, <2>4 DEF Launch
<1>2. CASE StartEngine
  <2>1. /\ phase = "spawn" /\ firing' = firing /\ firing \in F /\ eng[firing] = "none"
        /\ opened' = opened /\ answer' = "none"
    BY <1>0, <1>2 DEF StartEngine, EngineInOrder
  <2>2. CASE phase' = "wait" /\ eng' = [eng EXCEPT ![firing] = "turn"] /\ said' = said
    <3>1. Shape'
      BY <1>0, <2>1, <2>2 DEF Shape, Phases, EngineStates
    <3>2. Unbegun'
      BY <1>0, <2>1, <2>2 DEF Unbegun, Shape
    <3>3. EngineInOrder'
      BY <1>0, <2>1, <2>2 DEF EngineInOrder, Abandoned, Over, Shape
    <3>4. ToldSoFar'
      BY <1>0, <2>1, <2>2 DEF ToldSoFar, Abandoned, Over, Shape
    <3> QED
      BY <3>1, <3>2, <3>3, <3>4 DEF ToldInv
  <2>3. CASE phase' = "rest" /\ Publish(firing, {"died"}) /\ eng' = eng
    <3>1. Ending({"died"})
      BY <2>1, <2>3 DEF Ending, Over
    <3> QED
      BY <1>0, <2>1, <2>3, <3>1, EndingStep DEF Shape
  <2> QED
    BY <1>2, <2>1, <2>2, <2>3 DEF StartEngine
<1>3. CASE Finish
  <2>1. /\ phase = "wait" /\ phase' = "join" /\ firing' = firing /\ firing \in F
        /\ Publish(firing, FinishEvents)
        /\ eng' = [eng EXCEPT ![firing] = "heard"] /\ answer' = answer
        /\ opened' = [opened EXCEPT ![firing] = @ \/ "started" \in FinishEvents]
    BY <1>0, <1>3 DEF Finish, Hear, EndFiring, EngineInOrder
  <2>2. /\ eng' \in [F -> EngineStates] /\ eng'[firing] = "heard"
        /\ \A f \in F \ {firing} : eng'[f] = eng[f]
    BY <1>0, <2>1 DEF Shape, EngineStates
  <2>3. /\ opened' \in [F -> BOOLEAN]
        /\ \A f \in F \ {firing} : opened'[f] = opened[f]
        /\ opened'[firing] <=> opened[firing] \/ "started" \in FinishEvents
    BY <1>0, <2>1 DEF Shape
  <2>4. /\ "settled" \in FinishEvents <=> "died" \notin FinishEvents
        /\ "completed" \in FinishEvents <=> "settled" \in FinishEvents
        /\ "activity" \notin FinishEvents
        /\ "started" \in FinishEvents => ~opened[firing]
        /\ "completed" \in FinishEvents => opened[firing] \/ "started" \in FinishEvents
        /\ answer \in Advancing => "advanced" \in FinishEvents
    BY FinishEventsAre DEF IfFirst, Advanced, Advancing
  <2>5. Ending(FinishEvents)
    BY <2>1, <2>2, <2>3, <2>4 DEF Ending, Over
  <2> QED
    BY <1>0, <2>1, <2>2, <2>3, <2>5, EndingStep DEF Shape
<1>4. CASE EngineLost \/ TornDown \/ GiveUp
  <2>1. /\ phase \in {"wait", "condemned"} /\ phase' = "join" /\ firing' = firing /\ firing \in F
        /\ opened' = opened /\ answer' = answer
    BY <1>0, <1>4 DEF EngineLost, TornDown, GiveUp, EndFiring, EngineInOrder
  <2>2. eng[firing] # "heard"
    BY <1>0, <2>1 DEF EngineInOrder, Abandoned, Over, Shape
  <2>3. CASE EngineLost \/ GiveUp
    <3>1. Publish(firing, {"died"})
      BY <2>3 DEF EngineLost, GiveUp, EndFiring
    <3>2. /\ eng' \in [F -> EngineStates] /\ eng'[firing] # "heard"
          /\ \A f \in F \ {firing} : eng'[f] = eng[f]
      BY <1>0, <2>1, <2>2, <2>3 DEF EngineLost, GiveUp, Shape, EngineStates
    <3>3. Ending({"died"})
      BY <2>1, <3>1, <3>2 DEF Ending, Over
    <3> QED
      BY <1>0, <2>1, <3>2, <3>3, EndingStep DEF Shape
  <2>4. CASE TornDown
    <3>1. Publish(firing, {"died"} \cup Advanced)
      BY <2>4 DEF TornDown, EndFiring
    <3>2. /\ eng' \in [F -> EngineStates] /\ eng'[firing] = "heard"
          /\ \A f \in F \ {firing} : eng'[f] = eng[f]
      BY <1>0, <2>1, <2>4 DEF TornDown, Hear, Shape, EngineStates
    <3>3. Ending({"died"} \cup Advanced)
      BY <2>1, <3>1, <3>2 DEF Ending, Over, Advanced
    <3> QED
      BY <1>0, <2>1, <3>2, <3>3, EndingStep DEF Shape
  <2> QED
    BY <1>4, <2>3, <2>4
<1>5. ASSUME NEW f \in F, Event(f) PROVE ToldInv'
  <2>1. /\ eng[f] = "turn" /\ f <= firing
        /\ UNCHANGED <<phase, firing, answer>>
        /\ \E e \in {"stopping", "turn"} : eng' = [eng EXCEPT ![f] = e]
        /\ opened' = [opened EXCEPT ![f] = TRUE]
    <3>1. eng[f] = "turn"
      BY <1>5 DEF Event
    <3>2. f <= firing
      BY <1>0, <3>1 DEF Unbegun, Shape
    <3>3. eng' = [eng EXCEPT ![f] = IF Cancelled(f) THEN "stopping" ELSE "turn"]
      BY <1>5, <3>1 DEF Event
    <3> QED
      BY <1>5, <3>1, <3>2, <3>3 DEF Event
  <2>2. /\ said' \in [F -> [Kinds -> 0 .. 2]]
        /\ \A g \in F \ {f} : said'[g] = said[g]
        /\ \A k \in Kinds : said'[f][k] = IF k \in {"activity"} \cup IfFirst(f)
                                           THEN Counted(k, said[f][k]) ELSE said[f][k]
    BY <1>0, <1>5, PublishCounts DEF Event, Shape
  <2>3. /\ \A k \in {"settled", "died", "completed", "advanced"} : said'[f][k] = said[f][k]
        /\ said'[f]["started"] = 1
    BY <1>0, <2>2 DEF IfFirst, Kinds, Counted, ToldSoFar, Shape
  <2>4. Shape'
    BY <1>0, <2>1, <2>2 DEF Shape, EngineStates
  <2>5. Unbegun'
    BY <1>0, <2>1, <2>2 DEF Unbegun
  <2>6. EngineInOrder'
    BY <1>0, <2>1 DEF EngineInOrder, Abandoned, Over, Shape
  <2>7. ToldSoFar'
    BY <1>0, <2>1, <2>2, <2>3 DEF ToldSoFar, Abandoned, Over, Shape
  <2> QED
    BY <2>4, <2>5, <2>6, <2>7 DEF ToldInv
<1>6. CASE Silent /\ Shape'
  BY <1>6, SilentStep
<1> QED
  BY <1>0, <1>1, <1>2, <1>3, <1>4, <1>5, <1>6, SilentOrPublishes DEF Publishes

(* Before the member fires, every firing is unbegun and nothing is told.    *)
LEMMA ToldInvInit ==
    ASSUME Init
    PROVE  ToldInv
<1> USE HarnessAssumption DEF Init, F
<1>1. \A f \in F : said[f] = Quiet /\ f > firing /\ eng[f] = "none" /\ ~opened[f]
  OBVIOUS
<1>2. Shape
  BY DEF Shape, Phases, EngineStates, Quiet
<1>3. Unbegun /\ EngineInOrder
  BY <1>1 DEF Unbegun, EngineInOrder
<1>4. ToldSoFar
  BY <1>1 DEF ToldSoFar, Quiet, Kinds
<1> QED
  BY <1>2, <1>3, <1>4 DEF ToldInv

THEOREM ToldInvHolds == SafeSpec => []ToldInv
<1>1. Init => ToldInv
  BY ToldInvInit
<1>2. ToldInv /\ [Next]_vars => ToldInv'
  BY ToldInvStep
<1> QED
  BY <1>1, <1>2, PTL DEF SafeSpec

-----------------------------------------------------------------------------
(* The properties.                                                          *)

(* Every firing is told once and whole, whichever of its ends it came to,   *)
(* for any number of firings and of views.                                  *)
THEOREM ToldOnceAndWholeHolds == SafeSpec => []ToldOnceAndWhole
<1>1. ToldInv => ToldOnceAndWhole
  <2> SUFFICES ASSUME ToldInv, NEW f \in F
               PROVE  (/\ said[f]["settled"] + said[f]["died"]
                            = IF f <= firing /\ Abandoned(f) THEN 1 ELSE 0
                       /\ said[f]["completed"] = said[f]["settled"]
                       /\ said[f]["activity"] + said[f]["completed"] > 0
                            => said[f]["started"] = 1
                       /\ said[f]["started"] < 2
                       /\ f = firing /\ eng[f] = "heard" /\ answer \in Advancing
                            => said[f]["advanced"] = 1)
    BY DEF ToldOnceAndWhole
  <2> QED
    BY DEF ToldInv, ToldSoFar
<1> QED
  BY <1>1, ToldInvHolds, PTL

(* An interrupt redirects the turn whose address it read: a session is one  *)
(* firing's, whatever passes between the reading and the call.              *)
THEOREM InterruptReachesItsTurnHolds == SafeSpec => []InterruptReachesItsTurn
<1>1. Init => InterruptReachesItsTurn
  BY DEF Init, InterruptReachesItsTurn
<1>2. InterruptReachesItsTurn /\ [Next]_vars => InterruptReachesItsTurn'
  <2> SUFFICES ASSUME ~astray, [Next]_vars PROVE ~astray'
    BY DEF InterruptReachesItsTurn
  <2>1. CASE Deliver
    BY <2>1 DEF Deliver, Listening, Session
  <2>2. CASE astray' = astray
    BY <2>2
  <2>3. CASE SpawnView \/ ViewReaped \/ ViewTimesOut \/ Drained \/ OpenControl \/ WriteControl
    BY <2>3 DEF SpawnView, ViewReaped, ViewTimesOut, Drained, OpenControl, WriteControl
  <2>4. CASE Launch \/ StartEngine \/ Finish \/ EngineLost \/ Timeout \/ TornDown \/ GiveUp
             \/ JoinHeartbeat
    BY <2>4 DEF Launch, StartEngine, Finish, EngineLost, Timeout, TornDown, GiveUp, JoinHeartbeat
  <2>5. CASE CondemnByHeartbeat \/ CondemnByActivity \/ Spared
    BY <2>5 DEF CondemnByHeartbeat, CondemnByActivity, Condemn, Spared
  <2>6. ASSUME NEW f \in F, EngineStep(f) PROVE ~astray'
    BY <2>6 DEF EngineStep, Event, RefuseControl, BeginRefusal, TurnWithoutControl, Answer, Panic
  <2>7. CASE \/ ViewForks \/ ViewExits \/ HolderExits \/ BoundPasses \/ SpawnUngrouped
             \/ Starve \/ FallSilent \/ ReadControl \/ NoTurn
    BY <2>7 DEF ViewForks, ViewExits, HolderExits, BoundPasses, SpawnUngrouped, Starve,
                FallSilent, ReadControl, NoTurn
  <2>8. CASE UNCHANGED vars
    BY <2>8 DEF vars
  <2> QED
    BY <2>1, <2>3, <2>4, <2>5, <2>6, <2>7, <2>8 DEF Next, MemberStep
<1> QED
  BY <1>1, <1>2, PTL DEF SafeSpec

(* No step settles a firing whose harness could not be put in the member's  *)
(* group: the only step that settles asks it, and gives a death.            *)
THEOREM UngroupedNeverSettlesHolds == SafeSpec => UngroupedNeverSettles
<1>1. ToldInv /\ [Next]_vars
        => [ungrouped => \A f \in F : said'[f]["settled"] = said[f]["settled"]]_vars
  <2> SUFFICES ASSUME ToldInv, [Next]_vars, ungrouped, NEW f \in F
               PROVE  said'[f]["settled"] = said[f]["settled"]
    OBVIOUS
  <2>0. /\ said \in [F -> [Kinds -> 0 .. 2]] /\ "settled" \in Kinds
        /\ Shape /\ Unbegun /\ EngineInOrder
    BY DEF ToldInv, Shape, Kinds
  <2>1. ASSUME NEW g \in F, NEW S, Publish(g, S), "settled" \notin S
        PROVE  said'[f]["settled"] = said[f]["settled"]
    <3>1. /\ \A h \in F \ {g} : said'[h] = said[h]
          /\ said'[g]["settled"] = said[g]["settled"]
      BY <2>0, <2>1, PublishCounts
    <3> QED
      BY <3>1
  <2>2. CASE Silent
    BY <2>2 DEF Silent
  <2>3. CASE Launch
    <3>1. firing + 1 \in F
      BY <2>0, <2>3, HarnessAssumption DEF Shape, Launch, F
    <3>2. said' = said \/ Publish(firing + 1, {"died"})
      BY <2>3 DEF Launch
    <3> QED
      BY <2>1, <3>1, <3>2
  <2>4. CASE StartEngine \/ Finish \/ EngineLost \/ TornDown \/ GiveUp
    <3>1. firing \in F
      BY <2>0, <2>4 DEF EngineInOrder, StartEngine, Finish, EngineLost, TornDown, GiveUp
    <3>2. "settled" \notin FinishEvents
      BY FinishEventsAre DEF IfFirst, Advanced
    <3>3. \/ said' = said \/ Publish(firing, {"died"}) \/ Publish(firing, FinishEvents)
          \/ Publish(firing, {"died"} \cup Advanced)
      BY <2>4 DEF StartEngine, Finish, EngineLost, TornDown, GiveUp, EndFiring
    <3>4. "settled" \notin {"died"} \cup Advanced
      BY DEF Advanced
    <3> QED
      BY <2>1, <3>1, <3>2, <3>3, <3>4
  <2>5. ASSUME NEW g \in F, Event(g) PROVE said'[f]["settled"] = said[f]["settled"]
    <3>1. Publish(g, {"activity"} \cup IfFirst(g)) /\ "settled" \notin {"activity"} \cup IfFirst(g)
      BY <2>5 DEF Event, IfFirst
    <3> QED
      BY <2>1, <3>1
  <2> QED
    BY <2>0, <2>2, <2>3, <2>4, <2>5, SilentOrPublishes DEF Publishes
<1> QED
  BY <1>1, ToldInvHolds, PTL DEF SafeSpec, UngroupedNeverSettles

=============================================================================
