------------------------- MODULE PreparationProofs -------------------------
(* What a run has ready before its first launch, for any graph document, any *)
(* configs, personas and panels, and any edit the operator makes meanwhile.  *)
EXTENDS Preparation, FiniteSetTheorems, TLAPS

-----------------------------------------------------------------------------
(* The invocations.                                                         *)

GraphKey == <<"cwd", "graph">>

(* The members are built in their order, each once, and its steps in theirs. *)
StepNames == {"start", "base", "role", "merge", "config", "stamp", "judge", "launch"}
StepsDone == Len(Steps(member)) - Len(todo)
OrderKept ==
    /\ request \in Requests
    /\ at \in 1 .. Len(Order) + 1
    /\ DOMAIN launches = {Order[i] : i \in 1 .. at - 1}
    /\ at > Len(Order) => todo = <<>> /\ read = Nothing
    /\ at <= Len(Order) =>
         /\ todo \in Seq(StepNames) /\ StepsDone \in Nat
         /\ \A i \in 1 .. Len(todo) : todo[i] = Steps(member)[StepsDone + i]
    /\ verdict = "recorded" => at > Len(Order)

(* What was read for any member is what the resolver remembers, and it      *)
(* remembers nothing else but the graph.                                    *)
ReadInOrder ==
    /\ GraphKey \in DOMAIN seen /\ seen[GraphKey] = [file |-> Graph, version |-> 1]
    /\ \A k \in DOMAIN read : k \in DOMAIN seen /\ read[k] = seen[k]
    /\ \A n \in DOMAIN launches : \A k \in DOMAIN launches[n].read :
           k \in DOMAIN seen /\ launches[n].read[k] = seen[k]
    /\ \A k \in DOMAIN seen \ {GraphKey} :
           k \in DOMAIN read \/ \E n \in DOMAIN launches : k \in DOMAIN launches[n].read
    /\ verdict = "recorded" => refs = Inventory

(* A bar that may be taken away was replaced by one.                        *)
BarInOrder == role # NoRole => ReplacesByOwn(Document(role))

(* What a side has to be, of a member with plan p, or of its judge j, whose  *)
(* references were read as texts.                                           *)
OwnIs(p, side, texts) ==
    /\ p.config \in DOMAIN texts /\ side.text = texts[p.config]
    /\ side.mode <=> p.kind = "onejudge"
    /\ side.path = "relative" => p.config[1] = "url"

JudgeIs(n, j, side, texts) ==
    /\ j.config \in DOMAIN texts /\ side.text = texts[j.config]
    /\ ~side.mode /\ side.owner = n
    /\ side.model # {} <=> j.model
    /\ side.path = "relative" => j.config[1] = "url"

(* It stands in the scratch, where a host tells cases apart.                *)
OwnStands(n, p, files, texts) ==
    <<n, OwnFile>> \in DOMAIN files /\ OwnIs(p, files[<<n, OwnFile>>], texts)

JudgeStands(n, j, file, files, texts) ==
    j.kind = "oneharness" =>
        <<n, file>> \in DOMAIN files /\ JudgeIs(n, j, files[<<n, file>>], texts)

(* What a member's steps have read and written by now is there, and what a  *)
(* launch names was written for it.                                         *)
ConfigAt == IF Asked.kind = "oneharness" THEN 2 ELSE 5
ConfigInOrder == at <= Len(Order) /\ StepsDone >= ConfigAt => Asked.config \in DOMAIN read

StampAt == IF Asked.kind = "oneharness" THEN 4 ELSE 6
SidesInOrder ==
    /\ \A n \in DOMAIN launches :
         /\ OwnStands(n, plan.of[n], scratch, launches[n].read)
         /\ \A k \in 1 .. Len(launches[n].judges) :
                JudgeStands(n, plan.of[n].judges[k], launches[n].judges[k], scratch,
                            launches[n].read)
    /\ at <= Len(Order) =>
         /\ StepsDone >= StampAt => OwnStands(member, Asked, scratch, read)
         /\ \A k \in 1 .. Len(entries) :
                JudgeStands(member, Asked.judges[k], entries[k].file, scratch, read)

JudgesInOrder ==
    at <= Len(Order) =>
        /\ entries \in Seq({entries[k] : k \in DOMAIN entries})
        /\ Len(entries) = IF Asked.kind = "onejudge" /\ StepsDone > 6
                          THEN (IF StepsDone > 6 + Len(Asked.judges) THEN Len(Asked.judges)
                                                                    ELSE StepsDone - 6)
                          ELSE 0

BuildInv ==
    /\ OrderKept /\ ReadInOrder
    /\ BarInOrder /\ NobodyUnjudged
    /\ JudgesInOrder /\ ConfigInOrder /\ (~blind => SidesInOrder)

-----------------------------------------------------------------------------
(* The order of the steps.                                                  *)

LEMMA SequenceRange ==
    ASSUME NEW S, NEW s \in Seq(S)
    PROVE  s \in Seq({s[i] : i \in DOMAIN s}) /\ DOMAIN s = 1 .. Len(s) /\ Len(s) \in Nat
<1>1. s \in [1 .. Len(s) -> {s[i] : i \in DOMAIN s}] /\ Len(s) \in Nat
  OBVIOUS
<1> QED
  BY <1>1

LEMMA AppendIsSequence ==
    ASSUME NEW S, NEW s \in Seq(S), NEW e, NEW t, t = Append(s, e)
    PROVE  /\ t \in Seq({t[i] : i \in DOMAIN t}) /\ Len(t) = Len(s) + 1 /\ t[Len(t)] = e
           /\ \A i \in 1 .. Len(s) : t[i] = s[i]
<1>1. t \in Seq(S \cup {e})
  <2>1. s \in Seq(S \cup {e})
    OBVIOUS
  <2> QED
    BY <2>1
<1>2. Len(t) = Len(s) + 1 /\ t[Len(t)] = e /\ \A i \in 1 .. Len(s) : t[i] = s[i]
  OBVIOUS
<1> QED
  BY <1>1, <1>2, SequenceRange

(* The steps of a member of either kind.                                    *)
LEMMA HarnessSteps ==
    ASSUME NEW n, plan.of[n].kind = "oneharness"
    PROVE  Steps(n) \in Seq(StepNames) /\ Len(Steps(n)) = 5
BY DEF Steps, StepNames

LEMMA HarnessStep ==
    ASSUME NEW n, plan.of[n].kind = "oneharness", NEW k \in 1 .. 5
    PROVE  /\ Steps(n)[k] = "config" <=> k = 2
           /\ Steps(n)[k] = "stamp" <=> k = 4
           /\ Steps(n)[k] = "launch" <=> k = 5
           /\ Steps(n)[k] # "judge"
<1>1. Steps(n) = <<"start", "config", "role", "stamp", "launch">>
  BY DEF Steps
<1>2. k = 1 \/ k = 2 \/ k = 3 \/ k = 4 \/ k = 5
  OBVIOUS
<1> QED
  BY <1>1, <1>2

LEMMA StepsAre ==
    ASSUME request \in Requests, NEW i \in DOMAIN Order
    PROVE  LET n == Order[i]
               J == Len(plan.of[n].judges)
           IN  /\ Steps(n) \in Seq(StepNames) /\ plan.of[n].kind \in {"oneharness", "onejudge"}
               /\ J \in Nat /\ DOMAIN plan.of[n].judges = 1 .. J
               /\ plan.of[n].kind = "oneharness" =>
                    /\ Len(Steps(n)) = 5
                    /\ \A k \in 1 .. 5 : /\ Steps(n)[k] = "config" <=> k = 2
                                         /\ Steps(n)[k] = "stamp" <=> k = 4
                                         /\ Steps(n)[k] = "launch" <=> k = 5
                                         /\ Steps(n)[k] # "judge"
               /\ plan.of[n].kind = "onejudge" =>
                    /\ Len(Steps(n)) = 7 + J
                    /\ \A k \in 1 .. 7 + J : /\ Steps(n)[k] = "config" <=> k = 5
                                             /\ Steps(n)[k] = "stamp" <=> k = 6
                                             /\ Steps(n)[k] = "launch" <=> k = 7 + J
                                             /\ Steps(n)[k] = "judge" <=> k \in 7 .. 6 + J
<1> DEFINE n == Order[i]
           p == PlanOf(request).of[n]
           J == Len(p.judges)
<1>1. /\ p.kind \in {"oneharness", "onejudge"} /\ p.judges \in Seq({p.judges[k] : k \in DOMAIN p.judges})
  BY PlansAssumption
<1>2. J \in Nat /\ DOMAIN p.judges = 1 .. J
  <2> HIDE DEF p
  <2> QED
    BY <1>1
<1> HIDE DEF p, J
<1>3. CASE p.kind = "oneharness"
  <2>1. p.kind # "onejudge" /\ plan.of[n].kind = "oneharness"
    BY <1>3 DEF plan, p
  <2> QED
    BY <1>1, <1>2, <2>1, HarnessSteps, HarnessStep DEF plan, p, J
<1>4. CASE p.kind = "onejudge"
  <2> DEFINE first == <<"start", "base", "role", "merge", "config", "stamp">>
             judges == [j \in 1 .. J |-> "judge"]
             last == <<"launch">>
  <2>1. Steps(n) = first \o judges \o last
    BY <1>4 DEF Steps, plan, p, J
  <2>2. /\ first \in Seq(StepNames) /\ judges \in Seq(StepNames) /\ last \in Seq(StepNames)
        /\ Len(first) = 6 /\ Len(judges) = J /\ Len(last) = 1
    <3>1. first \in Seq(StepNames) /\ Len(first) = 6 /\ last \in Seq(StepNames) /\ Len(last) = 1
      BY DEF StepNames
    <3>2. judges \in [1 .. J -> StepNames]
      BY DEF StepNames
    <3>3. judges \in Seq(StepNames) /\ Len(judges) = J
      BY <1>2, <3>2
    <3> QED
      BY <3>1, <3>3
  <2> DEFINE both == first \o judges
  <2>3. /\ both \in Seq(StepNames) /\ Len(both) = 6 + J
        /\ \A k \in 1 .. 6 : both[k] = first[k]
        /\ \A k \in 7 .. 6 + J : both[k] = "judge"
    BY <1>2, <2>2
  <2>4. /\ both \o last \in Seq(StepNames) /\ Len(both \o last) = 7 + J
        /\ \A k \in 1 .. 6 : (both \o last)[k] = first[k]
        /\ \A k \in 7 .. 6 + J : (both \o last)[k] = "judge"
        /\ (both \o last)[7 + J] = "launch"
    <3> HIDE DEF both
    <3> QED
      BY <1>2, <2>2, <2>3
  <2>5. first[1] = "start" /\ first[2] = "base" /\ first[3] = "role" /\ first[4] = "merge"
        /\ first[5] = "config" /\ first[6] = "stamp"
    OBVIOUS
  <2> HIDE DEF first, judges, last
  <2> DEFINE t == Steps(n)
  <2>6. /\ t \in Seq(StepNames) /\ Len(t) = 7 + J
        /\ \A k \in 1 .. 6 : t[k] = first[k]
        /\ \A k \in 7 .. 6 + J : t[k] = "judge"
        /\ t[7 + J] = "launch"
    BY <2>1, <2>4
  <2> HIDE DEF t, n
  <2>7. \A k \in 1 .. 6 : /\ first[k] \notin {"judge", "launch"}
                         /\ (first[k] = "config" <=> k = 5) /\ (first[k] = "stamp" <=> k = 6)
    BY <2>5
  <2>8. \A k \in 1 .. 7 + J : /\ t[k] = "config" <=> k = 5
                              /\ t[k] = "stamp" <=> k = 6
                              /\ t[k] = "launch" <=> k = 7 + J
                              /\ t[k] = "judge" <=> k \in 7 .. 6 + J
    <3> TAKE k \in 1 .. 7 + J
    <3>1. k \in 1 .. 6 \/ k \in 7 .. 6 + J \/ k = 7 + J
      BY <1>2
    <3>2. CASE k \in 1 .. 6
      BY <1>2, <2>6, <2>7, <3>2
    <3>3. CASE k \in 7 .. 6 + J
      BY <1>2, <2>6, <3>3
    <3>4. CASE k = 7 + J
      BY <1>2, <2>6, <3>4
    <3> QED
      BY <3>1, <3>2, <3>3, <3>4
  <2> QED
    BY <1>1, <1>2, <1>4, <2>6, <2>8 DEF plan, p, J, t, n
<1> QED
  BY <1>1, <1>3, <1>4

LEMMA OrderIs ==
    /\ Len(Order) \in Nat \ {0} /\ DOMAIN Order = 1 .. Len(Order)
    /\ \A i, j \in 1 .. Len(Order) : Order[i] = Order[j] => i = j
<1>1. Order \in Seq({Order[i] : i \in DOMAIN Order}) /\ Order # <<>>
  BY InvocationAssumption
<1>2. Len(Order) \in Nat \ {0} /\ DOMAIN Order = 1 .. Len(Order)
  BY <1>1
<1> QED
  BY <1>2, InvocationAssumption

(* A step that is being done is the next one of the member being built.     *)
LEMMA StepInHand ==
    ASSUME OrderKept, NEW s, Doing(s)
    PROVE  /\ at \in DOMAIN Order /\ at <= Len(Order) /\ request \in Requests
           /\ verdict = "building" /\ StepsDone \in Nat
           /\ StepsDone < Len(Steps(member)) /\ Steps(member)[StepsDone + 1] = s
<1>1. at \in Nat /\ at <= Len(Order) /\ at \in DOMAIN Order /\ request \in Requests
  BY OrderIs DEF OrderKept, Doing
<1>2. /\ todo \in Seq(StepNames) /\ todo # <<>> /\ StepsDone \in Nat
      /\ \A i \in 1 .. Len(todo) : todo[i] = Steps(member)[StepsDone + i]
  BY <1>1 DEF OrderKept, Doing
<1>3. Len(todo) \in Nat /\ Len(todo) >= 1 /\ Head(todo) = todo[1]
  BY <1>2
<1>4. Steps(member)[StepsDone + 1] = s
  BY <1>2, <1>3 DEF Doing
<1>5. Len(Steps(member)) \in Nat
  BY <1>1, StepsAre DEF member
<1>6. StepsDone < Len(Steps(member))
  BY <1>2, <1>3, <1>5 DEF StepsDone
<1> QED
  BY <1>1, <1>2, <1>4, <1>6 DEF Doing

LEMMA StepTaken ==
    ASSUME OrderKept, NEW s, Doing(s), Done, UNCHANGED <<request, at, launches, verdict>>
    PROVE  /\ OrderKept' /\ StepsDone' = StepsDone + 1
           /\ Steps(member)' = Steps(member) /\ member' = member /\ Asked' = Asked
<1>1. /\ todo \in Seq(StepNames) /\ todo # <<>> /\ StepsDone \in Nat
      /\ \A i \in 1 .. Len(todo) : todo[i] = Steps(member)[StepsDone + i]
      /\ at <= Len(Order) /\ at \in DOMAIN Order /\ todo' = Tail(todo) /\ verdict = "building"
  BY StepInHand DEF OrderKept, Doing, Done
<1>2. /\ todo' \in Seq(StepNames) /\ Len(todo') = Len(todo) - 1 /\ Len(todo) \in Nat
      /\ \A i \in 1 .. Len(todo') : todo'[i] = todo[i + 1] /\ i + 1 \in 1 .. Len(todo)
  BY <1>1
<1>3. Steps(member)' = Steps(member) /\ member' = member /\ Asked' = Asked
  BY DEF Steps, member, plan, Asked
<1>4. Len(Steps(member)) \in Nat
  BY <1>1, StepsAre DEF member, OrderKept
<1>5. StepsDone' = StepsDone + 1
  BY <1>1, <1>2, <1>3, <1>4 DEF StepsDone
<1>6. \A i \in 1 .. Len(todo') : todo'[i] = Steps(member)'[StepsDone' + i]
  BY <1>1, <1>2, <1>3, <1>5
<1>7. OrderKept'
  BY <1>1, <1>2, <1>5, <1>6 DEF OrderKept
<1> QED
  BY <1>3, <1>5, <1>7

(* The steps that leave the member being built where it is.                 *)
Ordinary ==
    \/ Start \/ ReadBase \/ LoadPersona \/ Merge \/ ReadConfig \/ StampSide
    \/ ComposeHarnessJudge \/ ComposeOtherJudge

LEMMA OrdinaryOrder ==
    ASSUME OrderKept, Ordinary
    PROVE  /\ \E s : Doing(s) /\ Done
           /\ UNCHANGED Kept /\ OrderKept' /\ StepsDone' = StepsDone + 1
           /\ member' = member /\ Asked' = Asked /\ verdict = "building"
<1>1. UNCHANGED Kept /\ \E s : Doing(s) /\ Done
  BY DEF Ordinary, Start, ReadBase, LoadPersona, Merge, ReadConfig, StampSide,
         ComposeHarnessJudge, ComposeOtherJudge
<1>2. UNCHANGED <<request, at, launches, verdict>> /\ verdict = "building"
  BY <1>1 DEF Kept, Doing
<1> QED
  BY <1>1, <1>2, StepTaken

LEMMA LaunchOrder ==
    ASSUME OrderKept, Launch
    PROVE  /\ OrderKept' /\ DOMAIN launches' = DOMAIN launches \cup {member}
           /\ member \notin DOMAIN launches /\ Doing("launch")
           /\ at' <= Len(Order) => StepsDone' = 0
<1>1. /\ Doing("launch") /\ at \in 1 .. Len(Order) /\ at' = at + 1 /\ UNCHANGED <<request, verdict>>
      /\ todo' = IF at < Len(Order) THEN Steps(Order[at + 1]) ELSE <<>>
      /\ read' = Nothing /\ verdict = "building" /\ request \in Requests
      /\ launches' = With(launches, member, Launched)
  BY StepInHand, OrderIs DEF Launch
<1>2. DOMAIN launches' = DOMAIN launches \cup {member}
  BY <1>1 DEF With
<1>3. DOMAIN launches = {Order[i] : i \in 1 .. at - 1} /\ member = Order[at]
  BY DEF OrderKept, member
<1>4. member \notin DOMAIN launches
  <2> SUFFICES ASSUME NEW i \in 1 .. at - 1, Order[i] = Order[at] PROVE FALSE
    BY <1>3
  <2>1. i \in 1 .. Len(Order) /\ i # at
    BY <1>1, OrderIs
  <2> QED
    BY <2>1, <1>1, OrderIs
<1>5. DOMAIN launches' = {Order[i] : i \in 1 .. at' - 1}
  <2>1. at' - 1 = at /\ 1 .. at = (1 .. at - 1) \cup {at}
    BY <1>1, OrderIs
  <2> QED
    BY <1>2, <1>3, <2>1
<1>6. CASE at < Len(Order)
  <2>1. at + 1 \in DOMAIN Order /\ at' <= Len(Order)
    BY <1>1, <1>6, OrderIs
  <2>2. Steps(Order[at + 1]) \in Seq(StepNames)
    BY <1>1, <2>1, StepsAre
  <2>3. Steps(member)' = Steps(Order[at + 1])
    BY <1>1 DEF Steps, plan, member
  <2>4. todo' = Steps(member)' /\ todo' \in Seq(StepNames)
    BY <1>1, <1>6, <2>2, <2>3
  <2>5. StepsDone' = 0
    BY <2>4 DEF StepsDone
  <2>6. \A i \in 1 .. Len(todo') : todo'[i] = Steps(member)'[StepsDone' + i]
    BY <2>4, <2>5
  <2>7. OrderKept'
    BY <1>1, <1>5, <2>1, <2>4, <2>5, <2>6, OrderIs DEF OrderKept
  <2> QED
    BY <1>1, <1>2, <1>4, <2>5, <2>7
<1>7. CASE ~(at < Len(Order))
  <2>1. at' = Len(Order) + 1 /\ todo' = <<>> /\ at' > Len(Order) /\ ~(at' <= Len(Order))
    BY <1>1, <1>7, OrderIs
  <2>2. OrderKept'
    BY <1>1, <1>5, <2>1, OrderIs DEF OrderKept
  <2> QED
    BY <1>1, <1>2, <1>4, <2>1, <2>2
<1> QED
  BY <1>6, <1>7

(* The remaining steps build nothing.                                       *)
LEMMA RestOrder ==
    ASSUME OrderKept, RefuseBuild \/ RecordRefs \/ \E f \in Files : Edit(f)
    PROVE  /\ OrderKept' /\ UNCHANGED <<request, blind, seen, at, todo, read, role, entries, scratch,
                                        launches>>
           /\ member' = member /\ Asked' = Asked /\ StepsDone' = StepsDone
           /\ verdict' = "recorded" => (verdict = "building" /\ RecordRefs)
<1>1. /\ UNCHANGED <<request, blind, seen, at, todo, read, role, entries, scratch, launches>>
      /\ \/ verdict' = "refused"
         \/ RecordRefs /\ verdict' = "recorded" /\ at > Len(Order) /\ verdict = "building"
         \/ verdict' = verdict /\ verdict = "building"
  BY DEF RefuseBuild, RecordRefs, Edit
<1>2. member' = member /\ Asked' = Asked /\ StepsDone' = StepsDone /\ Steps(member)' = Steps(member)
  BY <1>1 DEF member, Asked, StepsDone, Steps, plan
<1>3. OrderKept'
  BY <1>1, <1>2 DEF OrderKept
<1> QED
  BY <1>1, <1>2, <1>3

-----------------------------------------------------------------------------
(* What was read.                                                           *)

LEMMA Reads ==
    ASSUME ReadInOrder, NEW k, Resolve(k), UNCHANGED launches, verdict' = "building"
    PROVE  /\ ReadInOrder' /\ k \in DOMAIN read' /\ read'[k] = TextOf(k)
           /\ \A q \in DOMAIN read : q \in DOMAIN read' /\ read'[q] = read[q]
<1>1. /\ DOMAIN seen' = DOMAIN seen \cup {k} /\ DOMAIN read' = DOMAIN read \cup {k}
      /\ \A q \in DOMAIN seen \cup {k} : seen'[q] = IF q = k THEN TextOf(k) ELSE seen[q]
      /\ \A q \in DOMAIN read \cup {k} : read'[q] = IF q = k THEN TextOf(k) ELSE read[q]
  BY DEF Resolve, With
<1>2. k \in DOMAIN seen => TextOf(k) = seen[k]
  BY DEF TextOf, AlreadyRead
<1>3. \A q \in DOMAIN seen : q \in DOMAIN seen' /\ seen'[q] = seen[q]
  BY <1>1, <1>2
<1>4. \A q \in DOMAIN read : q \in DOMAIN read' /\ read'[q] = read[q]
  BY <1>1, <1>2 DEF ReadInOrder
<1>5. \A q \in DOMAIN read' : q \in DOMAIN seen' /\ read'[q] = seen'[q]
  BY <1>1, <1>3 DEF ReadInOrder
<1>6. \A q \in DOMAIN seen' \ {GraphKey} :
         q \in DOMAIN read' \/ \E n \in DOMAIN launches : q \in DOMAIN launches[n].read
  BY <1>1 DEF ReadInOrder
<1>7. ReadInOrder'
  BY <1>3, <1>5, <1>6 DEF ReadInOrder
<1> QED
  BY <1>1, <1>4, <1>7

LEMMA OrdinaryReads ==
    ASSUME OrderKept, ReadInOrder, Ordinary
    PROVE  ReadInOrder' /\ \A q \in DOMAIN read : q \in DOMAIN read' /\ read'[q] = read[q]
<1>1. UNCHANGED <<launches, refs, verdict>> /\ verdict = "building"
  BY OrdinaryOrder DEF Kept
<1>2. (\E k : Resolve(k)) \/ UNCHANGED <<seen, read>>
  BY DEF Ordinary, Start, ReadBase, LoadPersona, Merge, ReadConfig, StampSide,
         ComposeHarnessJudge, ComposeOtherJudge
<1>3. CASE UNCHANGED <<seen, read>>
  BY <1>1, <1>3 DEF ReadInOrder
<1> QED
  BY <1>1, <1>2, <1>3, Reads

LEMMA LaunchIs ==
    ASSUME OrderKept, Launch
    PROVE  /\ launches'[member] = Launched /\ member \in DOMAIN launches'
           /\ \A n \in DOMAIN launches : n \in DOMAIN launches' /\ launches'[n] = launches[n]
           /\ \A n \in DOMAIN launches' : n = member \/ n \in DOMAIN launches
           /\ UNCHANGED <<request, blind, seen, scratch, refs, verdict>>
           /\ read' = Nothing /\ role' = NoRole /\ entries' = <<>> /\ verdict = "building"
<1>1. member \notin DOMAIN launches
  BY LaunchOrder
<1> QED
  BY <1>1 DEF Launch, With, Doing

LEMMA LaunchReads ==
    ASSUME OrderKept, ReadInOrder, Launch PROVE ReadInOrder'
<1>1. Launched.read = read
  BY DEF Launched
<1>2. DOMAIN read' = {}
  BY LaunchIs DEF Nothing
<1> QED
  BY <1>1, <1>2, LaunchIs DEF ReadInOrder

LEMMA RestReads ==
    ASSUME OrderKept, ReadInOrder, RefuseBuild \/ RecordRefs \/ \E f \in Files : Edit(f)
    PROVE  ReadInOrder'
<1>1. UNCHANGED <<seen, read, launches>>
  BY RestOrder
<1>2. verdict' = "recorded" => refs' = Inventory
  BY RestOrder DEF RecordRefs
<1> QED
  BY <1>1, <1>2 DEF ReadInOrder, Inventory

-----------------------------------------------------------------------------
(* What the judges hold a member to.                                        *)

LEMMA BarStep ==
    ASSUME OrderKept, BarInOrder, BuildNext PROVE BarInOrder'
<1>1. CASE LoadPersona
  <2>1. CASE Asked.persona = NoRef
    BY <1>1, <2>1 DEF LoadPersona, BarInOrder
  <2>2. CASE Asked.persona # NoRef
    <3>1. CanLoad(Asked.persona)
      BY <1>1, <2>2 DEF LoadPersona, Possible
    <3>2. ReplacesByOwn(Document(RoleText(Asked.persona)))
      BY <3>1 DEF CanLoad, PersonaIsSound
    <3>3. role' = RoleText(Asked.persona)
      BY <1>1, <2>2 DEF LoadPersona
    <3> QED
      BY <3>2, <3>3 DEF BarInOrder, Document
  <2> QED
    BY <2>1, <2>2
<1>2. CASE Launch
  BY <1>2, LaunchIs DEF BarInOrder
<1>3. CASE ~LoadPersona /\ ~Launch
  <2>1. role' = role
    BY <1>3 DEF BuildNext, Start, ReadBase, Merge, ReadConfig, StampSide, ComposeHarnessJudge,
                ComposeOtherJudge, RefuseBuild, RecordRefs, Edit
  <2> QED
    BY <2>1 DEF BarInOrder, Document
<1> QED
  BY <1>1, <1>2, <1>3

LEMMA BarsStand ==
    ASSUME BarInOrder, NEW base, Document(base).bar PROVE BarsOf(base) # {}
<1>1. CASE RoleBar.instead
  <2>1. role # NoRole /\ Document(role).replaces
    BY <1>1 DEF RoleBar
  <2>2. RoleBar.own
    BY <2>1 DEF BarInOrder, ReplacesByOwn, RoleBar
  <2> QED
    BY <2>2 DEF BarsOf
<1>2. CASE ~RoleBar.instead
  BY <1>2 DEF BarsOf
<1> QED
  BY <1>1, <1>2

LEMMA JudgedStep ==
    ASSUME OrderKept, BarInOrder, NobodyUnjudged, BuildNext PROVE NobodyUnjudged'
<1>1. CASE Launch
  <2>1. ASSUME NEW n \in DOMAIN launches', plan.of[n].kind = "onejudge",
               Document(launches'[n].read[plan.of[n].base]).bar
        PROVE  launches'[n].bars # {}
    <3>1. CASE n = member
      <4>1. Launched.read = read /\ Asked = plan.of[n]
        BY <3>1 DEF Launched, Asked
      <4>2. Launched.bars = BarsOf(read[Asked.base])
        BY <2>1, <4>1 DEF Launched
      <4> QED
        BY <1>1, <2>1, <3>1, <4>1, <4>2, LaunchIs, BarsStand
    <3>2. CASE n # member
      BY <1>1, <2>1, <3>2, LaunchIs DEF NobodyUnjudged
    <3> QED
      BY <3>1, <3>2
  <2>2. plan' = plan
    BY <1>1, LaunchIs DEF plan
  <2> QED
    BY <2>1, <2>2 DEF NobodyUnjudged, Document
<1>2. CASE ~Launch
  <2>1. launches' = launches /\ plan' = plan
    BY <1>2 DEF BuildNext, Start, ReadBase, LoadPersona, Merge, ReadConfig, StampSide,
                ComposeHarnessJudge, ComposeOtherJudge, RefuseBuild, RecordRefs, Edit, Kept, plan
  <2> QED
    BY <2>1 DEF NobodyUnjudged, Document
<1> QED
  BY <1>1, <1>2

-----------------------------------------------------------------------------
(* What is written for the two sides.                                       *)

(* Where a step is among those that stamp, compose and launch.              *)
LEMMA StageIs ==
    ASSUME OrderKept, NEW s, Doing(s)
    PROVE  LET J == Len(Asked.judges)
               d == StepsDone
           IN  /\ d \in Nat /\ J \in Nat /\ DOMAIN Asked.judges = 1 .. J
               /\ Asked.kind \in {"oneharness", "onejudge"}
               /\ s = "config" <=> d + 1 = ConfigAt
               /\ s = "stamp" <=> d + 1 = StampAt
               /\ s = "judge" <=> (Asked.kind = "onejudge" /\ d + 1 \in 7 .. 6 + J)
               /\ s = "launch" => (d >= StampAt /\ (Asked.kind = "onejudge" => d = 6 + J))
               /\ s # "launch" /\ Asked.kind = "onejudge" => d < 6 + J
<1> DEFINE J == Len(Asked.judges)
           d == StepsDone
<1>1. /\ at \in DOMAIN Order /\ request \in Requests /\ d \in Nat
      /\ d < Len(Steps(member)) /\ Steps(member)[d + 1] = s /\ member = Order[at]
  BY StepInHand DEF member
<1>2. /\ J \in Nat /\ DOMAIN Asked.judges = 1 .. J /\ Asked.kind \in {"oneharness", "onejudge"}
  BY <1>1, StepsAre DEF Asked
<1> HIDE DEF d, J
<1>3. CASE Asked.kind = "oneharness"
  <2>1. Len(Steps(member)) = 5
    BY <1>3, HarnessSteps DEF Asked
  <2>2. d + 1 \in 1 .. 5
    BY <1>1, <2>1
  <2>3. /\ s = "config" <=> d + 1 = 2
        /\ s = "stamp" <=> d + 1 = 4
        /\ s = "launch" <=> d + 1 = 5
        /\ s # "judge"
    BY <1>1, <1>3, <2>2, HarnessStep DEF Asked
  <2>4. s = "launch" => d >= 4
    BY <1>1, <2>3
  <2> QED
    BY <1>1, <1>2, <1>3, <2>3, <2>4 DEF ConfigAt, StampAt, d, J
<1>4. CASE Asked.kind = "onejudge"
  <2>1. /\ Len(Steps(member)) = 7 + J
        /\ \A k \in 1 .. 7 + J : /\ Steps(member)[k] = "config" <=> k = 5
                                 /\ Steps(member)[k] = "stamp" <=> k = 6
                                 /\ Steps(member)[k] = "launch" <=> k = 7 + J
                                 /\ Steps(member)[k] = "judge" <=> k \in 7 .. 6 + J
    BY <1>1, <1>4, StepsAre DEF Asked, J
  <2>2. d + 1 \in 1 .. 7 + J
    BY <1>1, <1>2, <2>1
  <2>3. /\ s = "config" <=> d + 1 = 5
        /\ s = "stamp" <=> d + 1 = 6
        /\ s = "launch" <=> d + 1 = 7 + J
        /\ s = "judge" <=> d + 1 \in 7 .. 6 + J
    BY <1>1, <2>1, <2>2
  <2>4. (s = "launch" => d = 6 + J /\ d >= 6) /\ (s # "launch" => d < 6 + J)
    BY <1>1, <1>2, <2>2, <2>3
  <2> QED
    BY <1>1, <1>2, <1>4, <2>3, <2>4 DEF ConfigAt, StampAt, d, J
<1> QED
  BY <1>2, <1>3, <1>4

LEMMA JudgeComposed ==
    ASSUME OrderKept, JudgesInOrder, Doing("judge")
    PROVE  /\ Len(entries) + 1 \in DOMAIN Asked.judges /\ Len(entries) \in Nat
           /\ entries \in Seq({entries[k] : k \in DOMAIN entries})
           /\ Asked.kind = "onejudge" /\ StepsDone >= 6 /\ Len(entries) = StepsDone - 6
<1> DEFINE J == Len(Asked.judges)
<1>1. /\ StepsDone \in Nat /\ J \in Nat /\ DOMAIN Asked.judges = 1 .. J
      /\ Asked.kind = "onejudge" /\ StepsDone + 1 \in 7 .. 6 + J
  BY StageIs
<1>2. /\ entries \in Seq({entries[k] : k \in DOMAIN entries})
      /\ Len(entries) = IF Asked.kind = "onejudge" /\ StepsDone > 6
                        THEN (IF StepsDone > 6 + J THEN J ELSE StepsDone - 6)
                        ELSE 0
  BY StepInHand DEF JudgesInOrder
<1> HIDE DEF J
<1>3. Len(entries) = StepsDone - 6 /\ Len(entries) + 1 \in 1 .. J
  BY <1>1, <1>2
<1> QED
  BY <1>1, <1>2, <1>3

LEMMA JudgesStep ==
    ASSUME OrderKept, JudgesInOrder, BuildNext PROVE JudgesInOrder'
<1>1. CASE Ordinary
  <2> DEFINE J == Len(Asked.judges)
  <2>1. /\ at \in DOMAIN Order /\ at' = at /\ at <= Len(Order)
        /\ StepsDone' = StepsDone + 1 /\ Asked' = Asked /\ verdict = "building"
    BY <1>1, OrdinaryOrder, StepInHand DEF Kept
  <2>2. /\ entries \in Seq({entries[k] : k \in DOMAIN entries})
        /\ Len(entries) = IF Asked.kind = "onejudge" /\ StepsDone > 6
                          THEN (IF StepsDone > 6 + J THEN J ELSE StepsDone - 6)
                          ELSE 0
    BY <2>1 DEF JudgesInOrder
  <2>3. CASE Doing("judge") /\ (ComposeHarnessJudge \/ ComposeOtherJudge)
    <3>1. Asked.kind = "onejudge" /\ StepsDone \in Nat /\ StepsDone + 1 \in 7 .. 6 + J /\ J \in Nat
      BY <2>3, StageIs
    <3>2. \E e : entries' = Append(entries, e)
      BY <2>3 DEF ComposeHarnessJudge, ComposeOtherJudge
    <3>3. entries' \in Seq({entries'[k] : k \in DOMAIN entries'}) /\ Len(entries') = Len(entries) + 1
      <4>1. PICK e : entries' = Append(entries, e)
        BY <3>2
      <4>2. entries \in Seq({entries[k] : k \in DOMAIN entries})
        BY <2>2
      <4> QED
        BY <4>1, <4>2, AppendIsSequence
    <3>4. Len(entries) = StepsDone - 6
      BY <2>3, JudgeComposed
    <3> HIDE DEF J
    <3>5. Len(entries') = StepsDone + 1 - 6 /\ StepsDone + 1 > 6 /\ ~(StepsDone + 1 > 6 + J)
      BY <3>1, <3>3, <3>4
    <3> QED
      BY <2>1, <3>1, <3>3, <3>5 DEF JudgesInOrder, J
  <2>4. CASE ~(ComposeHarnessJudge \/ ComposeOtherJudge)
    <3>1. PICK s : Doing(s) /\ s \notin {"judge", "launch"}
      BY <1>1, <2>4 DEF Ordinary, Start, ReadBase, LoadPersona, Merge, ReadConfig, StampSide
    <3>2. entries' = entries
      BY <1>1, <2>4 DEF Ordinary, Start, ReadBase, LoadPersona, Merge, ReadConfig, StampSide
    <3>3. /\ StepsDone \in Nat /\ J \in Nat
          /\ Asked.kind = "onejudge" => StepsDone < 6 + J /\ ~(StepsDone + 1 \in 7 .. 6 + J)
      BY <3>1, StageIs
    <3> HIDE DEF J
    <3>4. Asked.kind = "onejudge" => ~(StepsDone > 6) /\ ~(StepsDone + 1 > 6)
      BY <3>3
    <3> QED
      BY <2>1, <2>2, <3>2, <3>4 DEF JudgesInOrder
  <2> QED
    BY <2>3, <2>4 DEF ComposeHarnessJudge, ComposeOtherJudge
<1>2. CASE Launch
  <2>1. entries' = <<>> /\ entries' \in Seq({entries'[k] : k \in DOMAIN entries'}) /\ Len(entries') = 0
    BY <1>2, LaunchIs
  <2>2. at' <= Len(Order) => ~(StepsDone' > 6)
    BY <1>2, LaunchOrder
  <2> QED
    BY <2>1, <2>2 DEF JudgesInOrder
<1>3. CASE RefuseBuild \/ RecordRefs \/ \E f \in Files : Edit(f)
  BY <1>3, RestOrder DEF JudgesInOrder
<1> QED
  BY <1>1, <1>2, <1>3 DEF BuildNext, Ordinary

LEMMA ConfigStep ==
    ASSUME OrderKept, ReadInOrder, ConfigInOrder, BuildNext PROVE ConfigInOrder'
<1>1. CASE Ordinary
  <2>1. PICK s : Doing(s) /\ (s = "config" => ReadConfig)
    BY <1>1 DEF Ordinary, Start, ReadBase, LoadPersona, Merge, ReadConfig, StampSide,
                ComposeHarnessJudge, ComposeOtherJudge
  <2>2. /\ at' = at /\ at <= Len(Order) /\ StepsDone' = StepsDone + 1 /\ Asked' = Asked
        /\ \A q \in DOMAIN read : q \in DOMAIN read'
    BY <1>1, <2>1, OrdinaryOrder, OrdinaryReads, StepInHand DEF Kept
  <2>3. ConfigAt' = ConfigAt /\ ConfigAt \in Nat /\ StepsDone \in Nat
    BY <2>1, <2>2, StepInHand DEF ConfigAt
  <2>4. CASE s = "config"
    <3>1. Asked.config \in DOMAIN read'
      BY <2>1, <2>4 DEF ReadConfig, Resolve, With
    <3> QED
      BY <2>2, <3>1 DEF ConfigInOrder
  <2>5. CASE s # "config"
    <3>1. StepsDone + 1 # ConfigAt
      BY <2>1, <2>5, StageIs
    <3> QED
      BY <2>2, <2>3, <3>1 DEF ConfigInOrder
  <2> QED
    BY <2>4, <2>5
<1>2. CASE Launch
  <2>1. at' <= Len(Order) => ~(StepsDone' >= ConfigAt')
    BY <1>2, LaunchOrder DEF ConfigAt
  <2> QED
    BY <2>1 DEF ConfigInOrder
<1>3. CASE RefuseBuild \/ RecordRefs \/ \E f \in Files : Edit(f)
  BY <1>3, RestOrder DEF ConfigInOrder, ConfigAt
<1> QED
  BY <1>1, <1>2, <1>3 DEF BuildNext, Ordinary

(* A side stands while what was read for it is read no other way.           *)
LEMMA SidesGrow ==
    ASSUME NEW t1, NEW t2, \A q \in DOMAIN t1 : q \in DOMAIN t2 /\ t2[q] = t1[q]
    PROVE  /\ \A p, side : OwnIs(p, side, t1) => OwnIs(p, side, t2)
           /\ \A n, j, side : JudgeIs(n, j, side, t1) => JudgeIs(n, j, side, t2)
BY DEF OwnIs, JudgeIs

LEMMA OwnIsStamped ==
    ASSUME NEW texts, Asked.config \in DOMAIN texts,
           Asked.kind \in {"oneharness", "onejudge"}
    PROVE  OwnIs(Asked, Stamped(Asked.config, texts[Asked.config], OwnSide), texts)
<1> DEFINE side == Stamped(Asked.config, texts[Asked.config], OwnSide)
<1>1. /\ side.text = texts[Asked.config] /\ side.mode = OwnSide.mode
      /\ side.path = PathOf(Document(texts[Asked.config]), Asked.config)
  BY DEF Stamped
<1>2. OwnSide.mode <=> Asked.kind = "onejudge"
  BY DEF OwnSide, AgentSide, BareSide
<1>3. side.path = "relative" => Asked.config[1] = "url"
  BY <1>1 DEF PathOf, Anchored, HasDirectory
<1> HIDE DEF side
<1>4. OwnIs(Asked, side, texts)
  BY <1>1, <1>2, <1>3 DEF OwnIs
<1> QED
  BY <1>4 DEF side

LEMMA JudgeIsStamped ==
    ASSUME NEW j, NEW texts, j.config \in DOMAIN texts,
           CanStamp(j.config, texts[j.config], JudgeSide(j))
    PROVE  JudgeIs(member, j, Stamped(j.config, texts[j.config], JudgeSide(j)), texts)
<1> DEFINE side == Stamped(j.config, texts[j.config], JudgeSide(j))
<1>1. /\ side.text = texts[j.config] /\ side.mode = FALSE /\ side.owner = member
      /\ side.path = PathOf(Document(texts[j.config]), j.config)
      /\ side.model = IF j.model THEN Document(texts[j.config]).families ELSE {}
  BY DEF Stamped, JudgeSide
<1>2. side.model # {} <=> j.model
  <2>1. j.model => Cardinality(Document(texts[j.config]).families) = 1
    BY DEF CanStamp, JudgeSide, Pairable
  <2>2. Cardinality({}) = 0
    BY FS_EmptySet
  <2> HIDE DEF side
  <2> QED
    BY <1>1, <2>1, <2>2
<1>3. side.path = "relative" => j.config[1] = "url"
  BY <1>1 DEF PathOf, Anchored, HasDirectory
<1> HIDE DEF side
<1>4. JudgeIs(member, j, side, texts)
  BY <1>1, <1>2, <1>3 DEF JudgeIs
<1> QED
  BY <1>4 DEF side

LEMMA JudgeFileIsNotTheAgents ==
    ASSUME OrderKept, at \in DOMAIN Order, NEW k \in DOMAIN Asked.judges,
           Asked.judges[k].kind = "oneharness"
    PROVE  JudgeFile(k) # OwnFile
<1>1. Asked.judges[k].label # OwnFile
  BY PlansAssumption DEF OrderKept, Asked, plan, member
<1> QED
  BY <1>1 DEF JudgeFile, OwnFile

LEMMA MemberIsNew ==
    ASSUME OrderKept, at \in DOMAIN Order PROVE member \notin DOMAIN launches
<1>1. DOMAIN launches = {Order[i] : i \in 1 .. at - 1} /\ member = Order[at] /\ at \in 1 .. Len(Order)
  BY OrderIs DEF OrderKept, member
<1>2. SUFFICES ASSUME NEW i \in 1 .. at - 1, Order[i] = Order[at] PROVE FALSE
  BY <1>1
<1>3. i \in 1 .. Len(Order) /\ i # at
  BY <1>1, OrderIs
<1> QED
  BY <1>1, <1>2, <1>3, OrderIs

(* A file that is written leaves the other ones as they stand.              *)
LEMMA WritesOne ==
    ASSUME NEW files, NEW path, NEW text
    PROVE  LET after == With(files, path, text)
           IN  /\ path \in DOMAIN after /\ after[path] = text
               /\ \A q \in DOMAIN files : q \in DOMAIN after /\ (q # path => after[q] = files[q])
BY DEF With

(* The file each step writes in the scratch of the member being built.       *)
LEMMA WhatIsWritten ==
    ASSUME Ordinary, ~blind
    PROVE  \/ StampSide
              /\ scratch' = With(scratch, <<member, OwnFile>>,
                                 Stamped(Asked.config, read[Asked.config], OwnSide))
           \/ ComposeHarnessJudge
              /\ scratch' = With(scratch, <<member, JudgeFile(Len(entries) + 1)>>,
                                 Stamped(Judge.config, TextOf(Judge.config), JudgeSide(Judge)))
           \/ ~StampSide /\ ~ComposeHarnessJudge /\ scratch' = scratch
BY DEF Ordinary, Start, ReadBase, LoadPersona, Merge, ReadConfig, StampSide,
       ComposeHarnessJudge, ComposeOtherJudge, PathIn

LEMMA OthersKeepTheirFiles ==
    ASSUME OrderKept, Ordinary, ~blind, NEW n \in DOMAIN launches, NEW file,
           <<n, file>> \in DOMAIN scratch
    PROVE  <<n, file>> \in DOMAIN scratch' /\ scratch'[<<n, file>>] = scratch[<<n, file>>]
<1>1. at \in DOMAIN Order
  BY OrdinaryOrder, StepInHand
<1>2. n # member
  BY <1>1, MemberIsNew
<1>3. \A name : <<n, file>> # <<member, name>>
  BY <1>2
<1>4. \/ scratch' = scratch
      \/ \E name, text : scratch' = With(scratch, <<member, name>>, text)
  BY WhatIsWritten
<1>5. ASSUME NEW name, NEW text, scratch' = With(scratch, <<member, name>>, text)
      PROVE  <<n, file>> \in DOMAIN scratch' /\ scratch'[<<n, file>>] = scratch[<<n, file>>]
  <2>1. PICK path : path = <<member, name>>
    OBVIOUS
  <2>2. PICK mine : mine = <<n, file>>
    OBVIOUS
  <2>3. mine # path /\ mine \in DOMAIN scratch /\ scratch' = With(scratch, path, text)
    BY <1>3, <1>5, <2>1, <2>2
  <2>4. mine \in DOMAIN scratch' /\ scratch'[mine] = scratch[mine]
    BY <2>3 DEF With
  <2> QED
    BY <2>2, <2>4
<1> QED
  BY <1>4, <1>5

(* What stands for a member launched before stands for good.                *)
LEMMA LaunchedStand ==
    ASSUME OrderKept, SidesInOrder, Ordinary, ~blind, NEW n \in DOMAIN launches
    PROVE  /\ OwnStands(n, plan.of[n], scratch', launches[n].read)
           /\ \A k \in 1 .. Len(launches[n].judges) :
                  JudgeStands(n, plan.of[n].judges[k], launches[n].judges[k], scratch',
                              launches[n].read)
<1>1. \A file : <<n, file>> \in DOMAIN scratch =>
          <<n, file>> \in DOMAIN scratch' /\ scratch'[<<n, file>>] = scratch[<<n, file>>]
  BY OthersKeepTheirFiles
<1>2. PICK before, after : before = scratch /\ after = scratch'
  OBVIOUS
<1>3. \A file : <<n, file>> \in DOMAIN before =>
          <<n, file>> \in DOMAIN after /\ after[<<n, file>>] = before[<<n, file>>]
  BY <1>1, <1>2
<1>4. PICK texts : texts = launches[n].read
  OBVIOUS
<1>5. /\ OwnStands(n, plan.of[n], before, texts)
      /\ \A k \in 1 .. Len(launches[n].judges) :
             JudgeStands(n, plan.of[n].judges[k], launches[n].judges[k], before, texts)
  BY <1>2, <1>4 DEF SidesInOrder
<1>6. \A p : OwnStands(n, p, before, texts) => OwnStands(n, p, after, texts)
  BY <1>3 DEF OwnStands
<1>7. \A j, file : JudgeStands(n, j, file, before, texts) => JudgeStands(n, j, file, after, texts)
  BY <1>3 DEF JudgeStands
<1> QED
  BY <1>2, <1>4, <1>5, <1>6, <1>7

(* What the member being built has, once it is stamped.                     *)
LEMMA OwnStep ==
    ASSUME OrderKept, ReadInOrder, ConfigInOrder, JudgesInOrder, SidesInOrder, Ordinary, ~blind
    PROVE  StepsDone' >= StampAt => OwnStands(member, Asked, scratch', read')
<1>1. PICK s : Doing(s) /\ (s = "stamp" <=> StampSide) /\ (ComposeHarnessJudge => s = "judge")
  BY DEF Ordinary, Start, ReadBase, LoadPersona, Merge, ReadConfig, StampSide,
         ComposeHarnessJudge, ComposeOtherJudge, Doing
<1>2. /\ at \in DOMAIN Order /\ at <= Len(Order) /\ StepsDone' = StepsDone + 1 /\ StepsDone \in Nat
      /\ Asked.kind \in {"oneharness", "onejudge"}
  BY <1>1, OrdinaryOrder, StepInHand, StageIs
<1>3. StampAt \in Nat /\ ConfigAt \in Nat /\ ConfigAt < StampAt
  BY DEF StampAt, ConfigAt
<1>4. s = "stamp" <=> StepsDone + 1 = StampAt
  BY <1>1, StageIs
<1>5. CASE s = "stamp"
  <2>1. Asked.config \in DOMAIN read /\ read' = read
    BY <1>1, <1>2, <1>3, <1>4, <1>5 DEF ConfigInOrder, StampSide
  <2>2. scratch' = With(scratch, <<member, OwnFile>>,
                        Stamped(Asked.config, read[Asked.config], OwnSide))
    BY <1>1, <1>5 DEF StampSide, PathIn
  <2>3. OwnIs(Asked, Stamped(Asked.config, read[Asked.config], OwnSide), read)
    BY <1>2, <2>1, OwnIsStamped
  <2>4. PICK path, side : path = <<member, OwnFile>>
                          /\ side = Stamped(Asked.config, read[Asked.config], OwnSide)
    OBVIOUS
  <2>5. scratch' = With(scratch, path, side)
    BY <2>2, <2>4
  <2>6. path \in DOMAIN scratch' /\ scratch'[path] = side
    BY <2>5, WritesOne
  <2>7. OwnIs(Asked, scratch'[path], read')
    BY <2>1, <2>3, <2>4, <2>6
  <2> QED
    BY <2>4, <2>6, <2>7 DEF OwnStands
<1>6. CASE s # "stamp"
  <2> SUFFICES ASSUME StepsDone' >= StampAt PROVE OwnStands(member, Asked, scratch', read')
    OBVIOUS
  <2>1. OwnStands(member, Asked, scratch, read)
    BY <1>2, <1>3, <1>4, <1>6 DEF SidesInOrder
  <2>2. PICK path : path = <<member, OwnFile>>
    OBVIOUS
  <2>3. path \in DOMAIN scratch /\ OwnIs(Asked, scratch[path], read)
    BY <2>1, <2>2 DEF OwnStands
  <2>4. path \in DOMAIN scratch' /\ scratch'[path] = scratch[path]
    <3>1. CASE ComposeHarnessJudge
      <4>1. JudgeFile(Len(entries) + 1) # OwnFile
        <5>1. Len(entries) + 1 \in DOMAIN Asked.judges
          BY <3>1, <1>1, JudgeComposed
        <5>2. Asked.judges[Len(entries) + 1].kind = "oneharness"
          BY <3>1 DEF ComposeHarnessJudge, Judge
        <5> QED
          BY <1>2, <5>1, <5>2, JudgeFileIsNotTheAgents
      <4>2. PICK other, side : other = <<member, JudgeFile(Len(entries) + 1)>>
                               /\ scratch' = With(scratch, other, side)
        BY <3>1 DEF ComposeHarnessJudge, PathIn
      <4>3. other # path
        BY <2>2, <4>1, <4>2
      <4> QED
        BY <2>3, <4>2, <4>3, WritesOne
    <3>2. CASE ~ComposeHarnessJudge
      BY <1>1, <1>6, <2>3, <3>2, WhatIsWritten
    <3> QED
      BY <3>1, <3>2
  <2>5. OwnIs(Asked, scratch'[path], read')
    <3>1. PICK t1, t2, p, side : t1 = read /\ t2 = read' /\ p = Asked /\ side = scratch[path]
      OBVIOUS
    <3>2. \A q \in DOMAIN t1 : q \in DOMAIN t2 /\ t2[q] = t1[q]
      BY <3>1, OrdinaryReads
    <3>3. OwnIs(p, side, t1)
      BY <2>3, <3>1
    <3>4. OwnIs(p, side, t2)
      BY <3>2, <3>3, SidesGrow
    <3> QED
      BY <2>4, <3>1, <3>4
  <2> QED
    BY <2>2, <2>4, <2>5 DEF OwnStands
<1> QED
  BY <1>5, <1>6

(* What stands under the judges' names of the member being built.           *)
LEMMA JudgesKeepTheirs ==
    ASSUME OrderKept, ReadInOrder, JudgesInOrder, SidesInOrder, Ordinary, ~blind,
           NEW k \in 1 .. Len(entries)
    PROVE  JudgeStands(member, Asked.judges[k], entries[k].file, scratch', read')
<1>1. at <= Len(Order)
  BY OrdinaryOrder, StepInHand
<1>2. PICK j, path, t1, t2 : /\ j = Asked.judges[k] /\ path = <<member, entries[k].file>>
                             /\ t1 = read /\ t2 = read'
  OBVIOUS
<1>3. SUFFICES ASSUME j.kind = "oneharness"
               PROVE  path \in DOMAIN scratch' /\ JudgeIs(member, j, scratch'[path], t2)
  BY <1>2 DEF JudgeStands
<1>4. path \in DOMAIN scratch /\ JudgeIs(member, j, scratch[path], t1)
  BY <1>1, <1>2, <1>3 DEF SidesInOrder, JudgeStands
<1>5. path \in DOMAIN scratch' /\ scratch'[path] = scratch[path]
  <2>1. CASE StampSide
    <3>1. Doing("stamp")
      BY <2>1 DEF StampSide
    <3>2. StepsDone + 1 = StampAt /\ StepsDone \in Nat
      BY <3>1, StageIs
    <3>3. ~(StepsDone > 6)
      BY <3>2 DEF StampAt
    <3>4. Len(entries) = 0
      BY <1>1, <3>3 DEF JudgesInOrder
    <3> QED
      BY <3>4
  <2>2. CASE ComposeHarnessJudge
    <3>1. JudgeFile(Len(entries) + 1) \notin Claimed
      BY <2>2 DEF ComposeHarnessJudge, Possible, CanJudge, Judge
    <3>2. JudgeFile(Len(entries) + 1) # entries[k].file
      BY <3>1 DEF Claimed
    <3>3. PICK other, side : /\ other = <<member, JudgeFile(Len(entries) + 1)>>
                             /\ scratch' = With(scratch, other, side)
      BY <2>2 DEF ComposeHarnessJudge, PathIn
    <3>4. other # path
      BY <1>2, <3>2, <3>3
    <3> QED
      BY <1>4, <3>3, <3>4, WritesOne
  <2> QED
    BY <1>4, <2>1, <2>2, WhatIsWritten
<1>6. \A q \in DOMAIN t1 : q \in DOMAIN t2 /\ t2[q] = t1[q]
  BY <1>2, OrdinaryReads
<1>7. JudgeIs(member, j, scratch[path], t2)
  BY <1>4, <1>6, SidesGrow
<1> QED
  BY <1>5, <1>7

LEMMA JudgeWritten ==
    ASSUME OrderKept, ReadInOrder, JudgesInOrder, ~blind, ComposeHarnessJudge
    PROVE  JudgeStands(member, Judge, JudgeFile(Len(entries) + 1), scratch', read')
<1>1. /\ Readable(Judge.config) /\ CanStamp(Judge.config, TextOf(Judge.config), JudgeSide(Judge))
      /\ Resolve(Judge.config) /\ UNCHANGED launches /\ verdict' = "building"
  BY DEF ComposeHarnessJudge, Possible, CanJudge, Kept, Doing
<1>2. Judge.config \in DOMAIN read' /\ read'[Judge.config] = TextOf(Judge.config)
  BY <1>1, Reads
<1>3. PICK j, texts : j = Judge /\ texts = read'
  OBVIOUS
<1>4. JudgeIs(member, j, Stamped(j.config, texts[j.config], JudgeSide(j)), texts)
  BY <1>1, <1>2, <1>3, JudgeIsStamped
<1>5. PICK path, side : /\ path = <<member, JudgeFile(Len(entries) + 1)>>
                        /\ side = Stamped(j.config, texts[j.config], JudgeSide(j))
  OBVIOUS
<1>6. scratch' = With(scratch, path, side)
  BY <1>2, <1>3, <1>5 DEF ComposeHarnessJudge, PathIn
<1>7. path \in DOMAIN scratch' /\ scratch'[path] = side
  BY <1>6, WritesOne
<1>8. JudgeIs(member, j, scratch'[path], texts)
  BY <1>4, <1>5, <1>7
<1> QED
  BY <1>3, <1>5, <1>7, <1>8 DEF JudgeStands

LEMMA JudgeStep ==
    ASSUME OrderKept, ReadInOrder, JudgesInOrder, SidesInOrder, Ordinary, ~blind,
           NEW k \in 1 .. Len(entries')
    PROVE  JudgeStands(member, Asked.judges[k], entries'[k].file, scratch', read')
<1>1. CASE ~(ComposeHarnessJudge \/ ComposeOtherJudge)
  <2>1. entries' = entries
    BY <1>1 DEF Ordinary, Start, ReadBase, LoadPersona, Merge, ReadConfig, StampSide
  <2> QED
    BY <2>1, JudgesKeepTheirs
<1>2. CASE ComposeHarnessJudge \/ ComposeOtherJudge
  <2>1. /\ Doing("judge") /\ Len(entries) \in Nat /\ Judge = Asked.judges[Len(entries) + 1]
        /\ entries \in Seq({entries[i] : i \in DOMAIN entries})
    BY <1>2, JudgeComposed DEF ComposeHarnessJudge, ComposeOtherJudge, Judge
  <2>2. PICK e : entries' = Append(entries, e)
    BY <1>2 DEF ComposeHarnessJudge, ComposeOtherJudge
  <2>3. Len(entries') = Len(entries) + 1 /\ entries'[Len(entries')] = e
        /\ \A i \in 1 .. Len(entries) : entries'[i] = entries[i]
    BY <2>1, <2>2, AppendIsSequence
  <2>4. CASE k \in 1 .. Len(entries)
    BY <2>3, <2>4, JudgesKeepTheirs
  <2>5. CASE k = Len(entries) + 1
    <3>1. CASE ComposeHarnessJudge
      <4>1. entries' = Append(entries, [file |-> JudgeFile(Len(entries) + 1)])
        BY <3>1 DEF ComposeHarnessJudge
      <4>2. entries'[k] = [file |-> JudgeFile(Len(entries) + 1)]
        BY <2>1, <2>5, <4>1, AppendIsSequence
      <4>3. entries'[k].file = JudgeFile(Len(entries) + 1)
        BY <4>2
      <4> QED
        BY <2>1, <2>5, <3>1, <4>3, JudgeWritten
    <3>2. CASE ComposeOtherJudge
      BY <2>1, <2>5, <3>2 DEF ComposeOtherJudge, JudgeStands
    <3> QED
      BY <1>2, <3>1, <3>2
  <2>6. k \in 1 .. Len(entries) \/ k = Len(entries) + 1
    BY <2>1, <2>3
  <2> QED
    BY <2>4, <2>5, <2>6
<1> QED
  BY <1>1, <1>2

(* What the invocation of the member just built names.                      *)
LEMMA LaunchedStands ==
    ASSUME OrderKept, JudgesInOrder, SidesInOrder, Launch
    PROVE  /\ OwnStands(member, Asked, scratch, Launched.read)
           /\ \A k \in 1 .. Len(Launched.judges) :
                  JudgeStands(member, Asked.judges[k], Launched.judges[k], scratch, Launched.read)
<1>1. at <= Len(Order) /\ Doing("launch")
  BY StepInHand DEF Launch
<1>2. StepsDone >= StampAt
  BY <1>1, StageIs
<1>3. Launched.read = read /\ Launched.judges = [k \in 1 .. Len(entries) |-> entries[k].file]
  BY DEF Launched
<1>4. Len(entries) \in Nat
  BY <1>1 DEF JudgesInOrder
<1>5. /\ Len(Launched.judges) = Len(entries)
      /\ \A k \in 1 .. Len(entries) : Launched.judges[k] = entries[k].file
  BY <1>3, <1>4
<1> QED
  BY <1>1, <1>2, <1>3, <1>5 DEF SidesInOrder

LEMMA SidesStep ==
    ASSUME BuildInv, BuildNext, ~blind PROVE SidesInOrder'
<1>0. /\ OrderKept /\ ReadInOrder /\ JudgesInOrder /\ ConfigInOrder /\ SidesInOrder
  BY DEF BuildInv
<1>1. CASE Ordinary
  <2>1. UNCHANGED <<request, at, launches>>
    BY <1>0, <1>1, OrdinaryOrder DEF Kept
  <2>2. member' = member /\ Asked' = Asked /\ plan' = plan /\ StampAt' = StampAt
    BY <1>0, <1>1, <2>1, OrdinaryOrder DEF plan, StampAt
  <2>3. PICK n0, p0 : n0 = member /\ p0 = Asked
    OBVIOUS
  <2>4. /\ StepsDone' >= StampAt => OwnStands(n0, p0, scratch', read')
        /\ \A k \in 1 .. Len(entries') :
               JudgeStands(n0, p0.judges[k], entries'[k].file, scratch', read')
    BY <1>0, <1>1, <2>3, OwnStep, JudgeStep
  <2>5. \A n \in DOMAIN launches :
           /\ OwnStands(n, plan.of[n], scratch', launches[n].read)
           /\ \A k \in 1 .. Len(launches[n].judges) :
                  JudgeStands(n, plan.of[n].judges[k], launches[n].judges[k], scratch',
                              launches[n].read)
    BY <1>0, <1>1, LaunchedStand
  <2> QED
    BY <2>1, <2>2, <2>3, <2>4, <2>5 DEF SidesInOrder
<1>2. CASE Launch
  <2>1. UNCHANGED <<request, scratch>> /\ entries' = <<>> /\ plan' = plan
    BY <1>0, <1>2, LaunchIs DEF plan
  <2>2. at' <= Len(Order) => ~(StepsDone' >= StampAt')
    BY <1>0, <1>2, LaunchOrder DEF StampAt
  <2>3. PICK n0 : n0 = member
    OBVIOUS
  <2>4. plan.of[n0] = Asked
    BY <2>3 DEF Asked
  <2>5. /\ OwnStands(n0, plan.of[n0], scratch, launches'[n0].read)
        /\ \A k \in 1 .. Len(launches'[n0].judges) :
               JudgeStands(n0, plan.of[n0].judges[k], launches'[n0].judges[k], scratch,
                           launches'[n0].read)
    BY <1>0, <1>2, <2>3, <2>4, LaunchedStands, LaunchIs
  <2>6. \A n \in DOMAIN launches' : n = n0 \/ (n \in DOMAIN launches /\ launches'[n] = launches[n])
    BY <1>0, <1>2, <2>3, LaunchIs
  <2>7. \A n \in DOMAIN launches' :
           /\ OwnStands(n, plan.of[n], scratch, launches'[n].read)
           /\ \A k \in 1 .. Len(launches'[n].judges) :
                  JudgeStands(n, plan.of[n].judges[k], launches'[n].judges[k], scratch,
                              launches'[n].read)
    BY <1>0, <2>5, <2>6 DEF SidesInOrder
  <2>8. 1 .. Len(entries') = {}
    BY <2>1
  <2> QED
    BY <2>1, <2>2, <2>7, <2>8 DEF SidesInOrder
<1>3. CASE RefuseBuild \/ RecordRefs \/ \E f \in Files : Edit(f)
  <2>1. UNCHANGED <<request, at, read, entries, scratch, launches>> /\ member' = member /\ Asked' = Asked
        /\ StepsDone' = StepsDone /\ plan' = plan
    BY <1>0, <1>3, RestOrder DEF plan
  <2> QED
    BY <1>0, <2>1 DEF SidesInOrder, StampAt
<1> QED
  BY <1>1, <1>2, <1>3 DEF BuildNext, Ordinary

-----------------------------------------------------------------------------
(* The invariant.                                                           *)

LEMMA BuildStep ==
    ASSUME BuildInv, BuildNext PROVE BuildInv'
<1>1. OrderKept' /\ ReadInOrder'
  BY OrdinaryOrder, LaunchOrder, RestOrder, OrdinaryReads, LaunchReads, RestReads
     DEF BuildInv, BuildNext, Ordinary
<1>2. BarInOrder' /\ NobodyUnjudged' /\ JudgesInOrder' /\ ConfigInOrder'
  BY BarStep, JudgedStep, JudgesStep, ConfigStep DEF BuildInv
<1>3. blind' = blind
  BY LaunchIs, RestOrder DEF BuildInv, BuildNext, Start, ReadBase, LoadPersona, Merge, ReadConfig,
                             StampSide, ComposeHarnessJudge, ComposeOtherJudge, Kept
<1>4. ~blind => SidesInOrder'
  BY SidesStep
<1> QED
  BY <1>1, <1>2, <1>3, <1>4 DEF BuildInv

LEMMA BuildStutter ==
    ASSUME BuildInv, UNCHANGED buildVars PROVE BuildInv'
<1>1. /\ UNCHANGED <<request, blind, seen, at, todo, read, role, entries, scratch, launches, refs, verdict>>
      /\ plan' = plan /\ member' = member /\ Asked' = Asked /\ StepsDone' = StepsDone
  BY DEF buildVars, plan, member, Asked, StepsDone, Steps
<1>2. OrderKept'
  BY <1>1 DEF BuildInv, OrderKept, Steps
<1>3. ReadInOrder' /\ BarInOrder' /\ NobodyUnjudged'
  BY <1>1 DEF BuildInv, ReadInOrder, Inventory, BarInOrder, NobodyUnjudged, Document
<1>4. JudgesInOrder' /\ ConfigInOrder'
  BY <1>1 DEF BuildInv, JudgesInOrder, ConfigInOrder, ConfigAt
<1>5. ~blind => SidesInOrder'
  BY <1>1 DEF BuildInv, SidesInOrder, StampAt
<1> QED
  BY <1>1, <1>2, <1>3, <1>4, <1>5 DEF BuildInv

LEMMA BuildStarts ==
    ASSUME BuildInit PROVE BuildInv
<1>1. /\ at = 1 /\ todo = Steps(Order[1]) /\ request \in Requests /\ read = Nothing /\ launches = Nothing
      /\ entries = <<>> /\ role = NoRole /\ verdict = "building" /\ seen = GraphRead
  BY DEF BuildInit
<1>2. 1 \in DOMAIN Order /\ 1 <= Len(Order) /\ at \in 1 .. Len(Order) + 1 /\ member = Order[1]
  BY <1>1, OrderIs DEF member
<1>3. todo \in Seq(StepNames) /\ todo = Steps(member)
  BY <1>1, <1>2, StepsAre
<1>4. StepsDone = 0 /\ \A i \in 1 .. Len(todo) : todo[i] = Steps(member)[0 + i]
  BY <1>3 DEF StepsDone
<1>5. DOMAIN launches = {} /\ DOMAIN read = {}
  BY <1>1 DEF Nothing
<1>6. 1 .. at - 1 = {}
  BY <1>1
<1>7. OrderKept
  BY <1>1, <1>2, <1>3, <1>4, <1>5, <1>6 DEF OrderKept
<1>8. ReadInOrder
  BY <1>1, <1>5 DEF ReadInOrder, GraphRead, With, Nothing, GraphKey
<1>9. BarInOrder /\ NobodyUnjudged
  BY <1>1, <1>5 DEF BarInOrder, NobodyUnjudged
<1>10. Len(entries) = 0 /\ entries \in Seq({entries[k] : k \in DOMAIN entries})
  BY <1>1
<1>11. JudgesInOrder
  BY <1>4, <1>10 DEF JudgesInOrder
<1>12. ConfigInOrder /\ SidesInOrder
  <2>1. ~(StepsDone >= ConfigAt) /\ ~(StepsDone >= StampAt)
    BY <1>4 DEF ConfigAt, StampAt
  <2>2. 1 .. Len(entries) = {}
    BY <1>10
  <2> QED
    BY <1>5, <2>1, <2>2 DEF ConfigInOrder, SidesInOrder
<1> QED
  BY <1>7, <1>8, <1>9, <1>11, <1>12 DEF BuildInv

(* Every preparation keeps BuildInv, whatever the operator edits.           *)
THEOREM BuildInvHolds == PrepareSpec => []BuildInv
<1>1. PrepareInit => BuildInv
  BY BuildStarts DEF PrepareInit
<1>2. BuildInv /\ [PrepareNext]_<<vars, buildVars>> => BuildInv'
  BY BuildStep, BuildStutter DEF PrepareNext
<1> QED
  BY <1>1, <1>2, PTL DEF PrepareSpec

(* The record's `refs` are the texts the members run under, for any edits   *)
(* of the operator's (resolve.rs Resolver).                                 *)
THEOREM InventoryIsWhatRanHolds == PrepareSpec => []InventoryIsWhatRan
<1>1. BuildInv => InventoryIsWhatRan
  <2> SUFFICES ASSUME BuildInv PROVE InventoryIsWhatRan
    OBVIOUS
  <2>1. ReadInOrder /\ OrderKept
    BY DEF BuildInv
  <2>2. \A n1, n2 \in DOMAIN launches :
            \A k \in DOMAIN launches[n1].read \cap DOMAIN launches[n2].read :
                launches[n1].read[k] = launches[n2].read[k]
    BY <2>1 DEF ReadInOrder
  <2>3. ASSUME verdict = "recorded"
        PROVE  refs = {[file |-> Graph, version |-> 1]} \cup
                      UNION {{launches[n].read[k] : k \in DOMAIN launches[n].read} : n \in DOMAIN launches}
    <3>1. refs = {seen[k] : k \in DOMAIN seen} /\ DOMAIN read = {}
      <4>1. at > Len(Order) /\ refs = Inventory
        BY <2>1, <2>3 DEF ReadInOrder, OrderKept
      <4> QED
        BY <2>1, <4>1 DEF OrderKept, Inventory, Nothing
    <3> DEFINE ran == UNION {{launches[n].read[k] : k \in DOMAIN launches[n].read} : n \in DOMAIN launches}
    <3>2. ASSUME NEW t \in refs PROVE t = [file |-> Graph, version |-> 1] \/ t \in ran
      <4>1. PICK k \in DOMAIN seen : t = seen[k]
        BY <3>1
      <4>2. k = GraphKey \/ \E n \in DOMAIN launches : k \in DOMAIN launches[n].read /\ launches[n].read[k] = t
        BY <2>1, <3>1, <4>1 DEF ReadInOrder
      <4> QED
        BY <2>1, <4>1, <4>2 DEF ReadInOrder
    <3>3. [file |-> Graph, version |-> 1] \in refs
      BY <2>1, <3>1 DEF ReadInOrder
    <3>4. ASSUME NEW t \in ran PROVE t \in refs
      <4>1. PICK n \in DOMAIN launches : \E k \in DOMAIN launches[n].read : t = launches[n].read[k]
        OBVIOUS
      <4> QED
        BY <2>1, <3>1, <4>1 DEF ReadInOrder
    <3> QED
      BY <3>2, <3>3, <3>4
  <2> QED
    BY <2>2, <2>3 DEF InventoryIsWhatRan
<1> QED
  BY <1>1, BuildInvHolds, PTL

(* No persona takes a member's review bar away (persona.rs                  *)
(* RoleBar::compose).                                                       *)
THEOREM NobodyUnjudgedHolds == PrepareSpec => []NobodyUnjudged
<1>1. BuildInv => NobodyUnjudged
  BY DEF BuildInv
<1> QED
  BY <1>1, BuildInvHolds, PTL

(* Every side runs under what was composed for it alone, for any panel of   *)
(* judges (invoke.rs stamp_side, provider_block).                           *)
THEOREM SidesRunAsWrittenHolds == PrepareSpec => []SidesRunAsWritten
<1>1. BuildInv => SidesRunAsWritten
  <2> SUFFICES ASSUME BuildInv, ~blind, NEW n \in DOMAIN launches
               PROVE  LET p == plan.of[n]
                          own == SidePath(n, OwnFile)
                      IN  /\ own.text = launches[n].read[p.config]
                          /\ own.mode <=> p.kind = "onejudge"
                          /\ own.path = "relative" => p.config[1] = "url"
                          /\ \A k \in 1 .. Len(launches[n].judges) : p.judges[k].kind = "oneharness" =>
                                 LET side == SidePath(n, launches[n].judges[k])
                                 IN  /\ side.text = launches[n].read[p.judges[k].config]
                                     /\ ~side.mode /\ side.owner = n
                                     /\ side.model # {} <=> p.judges[k].model
                                     /\ side.path = "relative" => p.judges[k].config[1] = "url"
    BY DEF SidesRunAsWritten
  <2>1. /\ OwnStands(n, plan.of[n], scratch, launches[n].read)
        /\ \A k \in 1 .. Len(launches[n].judges) :
               JudgeStands(n, plan.of[n].judges[k], launches[n].judges[k], scratch, launches[n].read)
    BY DEF BuildInv, SidesInOrder
  <2>2. \A file : SidePath(n, file) = scratch[<<n, file>>]
    BY DEF SidePath, PathIn
  <2>3. OwnIs(plan.of[n], SidePath(n, OwnFile), launches[n].read)
    BY <2>1, <2>2 DEF OwnStands
  <2>4. \A k \in 1 .. Len(launches[n].judges) : plan.of[n].judges[k].kind = "oneharness" =>
            JudgeIs(n, plan.of[n].judges[k], SidePath(n, launches[n].judges[k]), launches[n].read)
    BY <2>1, <2>2 DEF JudgeStands
  <2> QED
    BY <2>3, <2>4 DEF OwnIs, JudgeIs
<1> QED
  BY <1>1, BuildInvHolds, PTL

-----------------------------------------------------------------------------
(* The verdict on the document.                                             *)

Judged == step \in {"order", "accepted", "cycle", "never due"}
Placed(m) == \E k \in 1 .. Len(waves) : m \in waves[k]

(* Every edge leads from a member to a member, and what is pending awaits   *)
(* what is pending of it.                                                   *)
EdgesKept ==
    /\ DOMAIN doc.deps = Names
    /\ step = "override" => doc \in GraphConfig
    /\ Judged =>
         /\ \A m \in Names : doc.deps[m] \subseteq Names
         /\ DOMAIN pending \subseteq Names
         /\ \A m \in DOMAIN pending : pending[m] = doc.deps[m] \cap DOMAIN pending
         /\ step \in {"accepted", "never due"} => DOMAIN pending = {}

(* No set of members that a placed one is in awaits itself everywhere.      *)
NoneInCircles ==
    Judged => \A S \in SUBSET Names :
        S \ DOMAIN pending # {} => \E m \in S : doc.deps[m] \cap S = {}

(* A wave, once placed, is a level, and the next one asks for it.           *)
WavesInOrder ==
    /\ waves \in Seq(SUBSET Names)
    /\ step \in {"override", "validate"} => waves = <<>>
    /\ Judged =>
         /\ \A m \in Names \ DOMAIN pending : \E k \in 1 .. Len(waves) : IsLevel(m, k)
         /\ \A m \in DOMAIN pending : \A k \in 1 .. Len(waves) : m \notin waves[k]
         /\ waves # <<>> => \A m \in DOMAIN pending :
                pending[m] = {} => doc.deps[m] \cap waves[Len(waves)] # {}

NotInTime ==
    /\ step = "cycle" => DOMAIN pending # {} /\ Ready = {}
    /\ step = "accepted" => ~NeverComesDue(doc)
    /\ step = "never due" => NeverComesDue(doc)

OrderInv == EdgesKept /\ NoneInCircles /\ WavesInOrder /\ NotInTime

Deferred == {m \in Names : DefersFirstTurn(doc, m)}
Closed(c, S) == c \in S /\ \A x \in Names : doc.deps[x] \cap S # {} => x \in S
Reached(c) == {m \in Names : \A S \in SUBSET Names : Closed(c, S) => m \in S}

(* What a deferred member reaches is itself and all that depend on what it  *)
(* reaches.                                                                 *)
LEMMA ReachedByEdges ==
    ASSUME NEW c \in Names, NEW m \in Names
    PROVE  m \in Reached(c) <=> (m = c \/ doc.deps[m] \cap Reached(c) # {})
<1>1. Reached(c) \subseteq Names /\ c \in Reached(c)
  BY DEF Reached, Closed
<1>2. ASSUME doc.deps[m] \cap Reached(c) # {} PROVE m \in Reached(c)
  <2> SUFFICES ASSUME NEW S \in SUBSET Names, Closed(c, S) PROVE m \in S
    BY DEF Reached
  <2>1. Reached(c) \subseteq S
    BY DEF Reached
  <2> QED
    BY <1>2, <2>1 DEF Closed
<1>3. ASSUME m # c, doc.deps[m] \cap Reached(c) = {} PROVE m \notin Reached(c)
  <2> DEFINE S == Reached(c) \ {m}
  <2>1. S \in SUBSET Names /\ c \in S
    BY <1>1, <1>3
  <2>2. ASSUME NEW x \in Names, doc.deps[x] \cap S # {} PROVE x \in S
    <3>1. x # m
      BY <1>3, <2>2
    <3>2. x \in Reached(c)
      <4> SUFFICES ASSUME NEW T \in SUBSET Names, Closed(c, T) PROVE x \in T
        BY DEF Reached
      <4>1. Reached(c) \subseteq T
        BY DEF Reached
      <4> QED
        BY <2>2, <4>1 DEF Closed
    <3> QED
      BY <3>1, <3>2
  <2>3. Closed(c, S)
    BY <2>1, <2>2 DEF Closed
  <2>4. m \notin S
    OBVIOUS
  <2> QED
    BY <2>1, <2>3, <2>4 DEF Reached
<1> QED
  BY <1>1, <1>2, <1>3

LEMMA InitialTurnIs ==
    ASSUME NEW m \in Names
    PROVE  Shape!TakesInitialTurn(m) <=> \A c \in Deferred : m \notin Reached(c)
<1>1. \A c \in Names : Shape!Descendants[c] = Reached(c) \ {c}
  BY DEF Shape!Descendants, Reached, Closed
<1>2. \A c \in Deferred : c \in Names /\ c \in Reached(c)
  BY DEF Deferred, Reached, Closed
<1>3. Shape!TakesInitialTurn(m) <=> (m \notin Deferred /\ \A c \in Deferred : m \notin Shape!Descendants[c])
  BY DEF Shape!TakesInitialTurn, Deferred
<1> QED
  BY <1>1, <1>2, <1>3

(* The memo's equation has the scheduler's answer for a solution, and on a  *)
(* graph without cycles no other.                                           *)
Answers(f) ==
    f = [m \in Names |-> ~DefersFirstTurn(doc, m) /\ \A d \in doc.deps[m] : f[d]]

LEMMA ShapeAnswers ==
    ASSUME \A m \in Names : doc.deps[m] \subseteq Names
    PROVE  Answers([m \in Names |-> Shape!TakesInitialTurn(m)])
<1> DEFINE f == [m \in Names |-> Shape!TakesInitialTurn(m)]
<1>1. ASSUME NEW m \in Names
      PROVE  f[m] = (~DefersFirstTurn(doc, m) /\ \A d \in doc.deps[m] : f[d])
  <2>1. f[m] <=> \A c \in Deferred : m \notin Reached(c)
    BY InitialTurnIs
  <2>2. \A d \in doc.deps[m] : f[d] <=> \A c \in Deferred : d \notin Reached(c)
    BY InitialTurnIs
  <2>3. \A c \in Deferred : m \in Reached(c) <=> (m = c \/ doc.deps[m] \cap Reached(c) # {})
    BY ReachedByEdges DEF Deferred
  <2>4. m \in Deferred <=> DefersFirstTurn(doc, m)
    BY DEF Deferred
  <2>5. f[m] \in BOOLEAN
    BY DEF Shape!TakesInitialTurn
  <2> HIDE DEF f
  <2>6. f[m] <=> (~DefersFirstTurn(doc, m) /\ \A d \in doc.deps[m] : f[d])
    BY <2>1, <2>2, <2>3, <2>4
  <2> QED
    BY <2>5, <2>6
<1> QED
  BY <1>1, Zenon DEF Answers

LEMMA OneAnswer ==
    ASSUME \A m \in Names : doc.deps[m] \subseteq Names, Shape!Acyclic,
           NEW f, Answers(f), NEW g, Answers(g)
    PROVE  f = g
<1> DEFINE D == {m \in Names : f[m] # g[m]}
<1>1. /\ f = [m \in Names |-> f[m]] /\ g = [m \in Names |-> g[m]]
      /\ \A m \in Names : f[m] = (~DefersFirstTurn(doc, m) /\ \A d \in doc.deps[m] : f[d])
      /\ \A m \in Names : g[m] = (~DefersFirstTurn(doc, m) /\ \A d \in doc.deps[m] : g[d])
  BY Zenon DEF Answers
<1>2. ASSUME D # {} PROVE FALSE
  <2>1. PICK m \in D : doc.deps[m] \cap D = {}
    BY <1>2 DEF Shape!Acyclic
  <2>2. \A d \in doc.deps[m] : f[d] = g[d]
    BY <2>1
  <2>3. (\A d \in doc.deps[m] : f[d]) <=> (\A d \in doc.deps[m] : g[d])
    BY <2>2, Zenon
  <2>4. f[m] = g[m]
    BY <1>1, <2>1, <2>3, Zenon
  <2> QED
    BY <2>1, <2>4
<1>3. \A m \in Names : f[m] = g[m]
  BY <1>2
<1> QED
  BY <1>1, <1>3, Zenon

LEMMA MemoIsTheSchedulers ==
    ASSUME \A m \in Names : doc.deps[m] \subseteq Names, Shape!Acyclic, NEW m \in Names
    PROVE  TakesAnInitialTurn(doc)[m] <=> Shape!TakesInitialTurn(m)
<1> DEFINE f == [x \in Names |-> Shape!TakesInitialTurn(x)]
<1>1. Answers(f)
  BY ShapeAnswers
<1>2. TakesAnInitialTurn(doc) = CHOOSE h : Answers(h)
  BY DEF TakesAnInitialTurn, Answers
<1>3. Answers(TakesAnInitialTurn(doc))
  BY <1>1, <1>2
<1>4. TakesAnInitialTurn(doc) = f
  BY <1>1, <1>3, OneAnswer
<1> QED
  BY <1>4

LEMMA NotRefusedIs ==
    ASSUME \A m \in Names : doc.deps[m] \subseteq Names, Shape!Acyclic
    PROVE  Shape!NotRefused <=> ~NeverComesDue(doc)
<1>1. \A m \in Names : TakesAnInitialTurn(doc)[m] <=> Shape!TakesInitialTurn(m)
  BY MemoIsTheSchedulers
<1>2. Shape!HeldOpen <=> \E m \in Names : ~IsBackground(doc)[m]
                              /\ (doc.schedule[m] # "none" \/ Shape!TakesInitialTurn(m))
  BY DEF Shape!HeldOpen, Shape!Foreground
<1>3. IsHeldOpen(doc) <=> Shape!HeldOpen
  BY <1>1, <1>2 DEF IsHeldOpen
<1> QED
  BY <1>3 DEF NeverComesDue, Shape!NotRefused

(* What the overrides leave alone.                                          *)
LEMMA OverriddenEdges ==
    ASSUME doc \in GraphConfig PROVE Overridden(doc).deps = doc.deps
<1>1. ASSUME NEW g, g \in GraphConfig, NEW e PROVE [g EXCEPT !.background = e].deps = g.deps
  BY <1>1 DEF GraphConfig
<1>2. DOMAIN doc = {"version", "kind", "deps", "schedule", "background", "extra", "flaws"}
  BY DEF GraphConfig
<1>3. PICK g : g = ByEnvironment(doc)
  OBVIOUS
<1>4. g.deps = doc.deps /\ DOMAIN g = DOMAIN doc
  BY <1>2, <1>3 DEF ByEnvironment
<1>5. ByFlags(g).deps = g.deps
  BY <1>2, <1>4 DEF ByFlags
<1> QED
  BY <1>3, <1>4, <1>5 DEF Overridden

LEMMA OrderStarts == ASSUME Init PROVE OrderInv
<1>1. /\ doc \in Documents /\ step = "override" /\ waves = <<>>
  BY DEF Init
<1>2. doc \in GraphConfig /\ DOMAIN doc.deps = Names
  BY <1>1, DocumentsAssumption DEF GraphConfig
<1>3. ~Judged /\ step \notin {"cycle", "accepted", "never due"}
  BY <1>1 DEF Judged
<1>4. waves \in Seq(SUBSET Names)
  BY <1>1
<1> QED
  BY <1>1, <1>2, <1>3, <1>4 DEF OrderInv, EdgesKept, NoneInCircles, WavesInOrder, NotInTime

LEMMA EdgesStep ==
    ASSUME OrderInv, Next PROVE EdgesKept'
<1>0. EdgesKept
  BY DEF OrderInv
<1>1. CASE Override
  <2>1. doc \in GraphConfig /\ step' = "validate" /\ doc' = Overridden(doc) /\ DOMAIN doc.deps = Names
    BY <1>0, <1>1 DEF Override, EdgesKept
  <2>2. doc'.deps = doc.deps
    BY <2>1, OverriddenEdges
  <2> QED
    BY <2>1, <2>2 DEF EdgesKept, Judged
<1>2. CASE Accept
  BY <1>0, <1>2 DEF Accept, EdgesKept, Judged
<1>3. CASE PlaceWave
  <2>1. /\ step = "order" /\ UNCHANGED <<doc, step>>
        /\ pending' = [m \in DOMAIN pending \ Ready |-> pending[m] \ Ready]
    BY <1>3 DEF PlaceWave, StillAwaited
  <2>2. DOMAIN pending' = DOMAIN pending \ Ready
    BY <2>1
  <2>3. \A m \in DOMAIN pending : pending[m] = doc.deps[m] \cap DOMAIN pending
    BY <1>0, <2>1 DEF EdgesKept, Judged
  <2>4. \A m \in DOMAIN pending' : pending'[m] = doc.deps[m] \cap DOMAIN pending'
    BY <2>1, <2>2, <2>3
  <2> QED
    BY <1>0, <2>1, <2>2, <2>4 DEF EdgesKept, Judged
<1>4. CASE ~Override /\ ~Accept /\ ~PlaceWave
  <2>1. /\ UNCHANGED <<doc, pending>> /\ step' \notin {"override", "validate"}
        /\ Judged' => step = "order"
        /\ step' \in {"accepted", "never due"} => DOMAIN pending = {}
    BY <1>4 DEF Next, RefuseOverride, RefuseInvalid, RefuseStranger, RefuseCycle, RefuseTurn,
                Schedule, Refuse, Judged
  <2> QED
    BY <1>0, <2>1 DEF EdgesKept, Judged
<1> QED
  BY <1>1, <1>2, <1>3, <1>4

LEMMA CirclesStep ==
    ASSUME OrderInv, Next PROVE NoneInCircles'
<1>0. EdgesKept /\ NoneInCircles
  BY DEF OrderInv
<1>1. CASE Override
  BY <1>1 DEF Override, NoneInCircles, Judged
<1>2. CASE Accept
  <2>1. DOMAIN pending' = Names
    BY <1>0, <1>2 DEF Accept, EdgesKept
  <2> QED
    BY <2>1 DEF NoneInCircles
<1>3. CASE PlaceWave
  <2>1. /\ Judged /\ UNCHANGED doc
        /\ DOMAIN pending' = DOMAIN pending \ Ready
    BY <1>3 DEF PlaceWave, Judged
  <2> SUFFICES ASSUME NEW S \in SUBSET Names, S \ DOMAIN pending' # {}
               PROVE  \E m \in S : doc.deps[m] \cap S = {}
    BY <2>1 DEF NoneInCircles
  <2>2. CASE S \ DOMAIN pending # {}
    BY <1>0, <2>1, <2>2 DEF NoneInCircles
  <2>3. CASE S \subseteq DOMAIN pending
    <3>1. PICK m \in S : m \in Ready
      BY <2>1, <2>3
    <3>2. doc.deps[m] \cap DOMAIN pending = {}
      BY <1>0, <2>1, <2>3, <3>1 DEF EdgesKept, Ready
    <3> QED
      BY <2>3, <3>2
  <2> QED
    BY <2>2, <2>3
<1>4. CASE ~Override /\ ~Accept /\ ~PlaceWave
  <2>1. UNCHANGED <<doc, pending>> /\ (Judged' => Judged)
    BY <1>4 DEF Next, RefuseOverride, RefuseInvalid, RefuseStranger, RefuseCycle, RefuseTurn,
                Schedule, Refuse, Judged
  <2> QED
    BY <1>0, <2>1 DEF NoneInCircles
<1> QED
  BY <1>1, <1>2, <1>3, <1>4

(* A wave is placed after the ones there are.                               *)
LEMMA LevelsGrow ==
    ASSUME EdgesKept, WavesInOrder, PlaceWave
    PROVE  WavesInOrder'
<1>1. /\ step = "order" /\ UNCHANGED <<doc, step>> /\ waves' = Append(waves, Ready)
      /\ DOMAIN pending' = DOMAIN pending \ Ready /\ Judged /\ Ready \subseteq DOMAIN pending
      /\ DOMAIN pending \subseteq Names
  BY DEF PlaceWave, Judged, EdgesKept, Ready
<1>2. /\ waves \in Seq(SUBSET Names) /\ Ready \in SUBSET Names
      /\ \A m \in Names \ DOMAIN pending : \E k \in 1 .. Len(waves) : IsLevel(m, k)
      /\ \A m \in DOMAIN pending : \A k \in 1 .. Len(waves) : m \notin waves[k]
      /\ waves # <<>> => \A m \in DOMAIN pending :
             pending[m] = {} => doc.deps[m] \cap waves[Len(waves)] # {}
  BY <1>1 DEF WavesInOrder
<1>3. PICK L : L = Len(waves)
  OBVIOUS
<1>4. /\ L \in Nat /\ waves' \in Seq(SUBSET Names) /\ Len(waves') = L + 1 /\ waves' # <<>>
      /\ \A k \in 1 .. L : waves'[k] = waves[k]
      /\ waves'[L + 1] = Ready
  BY <1>1, <1>2, <1>3
<1>5. \A m \in DOMAIN pending' : \A k \in 1 .. L + 1 : m \notin waves'[k]
  <2> SUFFICES ASSUME NEW m \in DOMAIN pending', NEW k \in 1 .. L + 1 PROVE m \notin waves'[k]
    OBVIOUS
  <2>1. k \in 1 .. L \/ k = L + 1
    BY <1>4
  <2> QED
    BY <1>1, <1>2, <1>3, <1>4, <2>1
<1>6. \A m \in DOMAIN pending' : pending'[m] = {} => doc.deps[m] \cap waves'[L + 1] # {}
  <2> SUFFICES ASSUME NEW m \in DOMAIN pending', pending'[m] = {}
               PROVE  doc.deps[m] \cap Ready # {}
    BY <1>4
  <2>1. pending'[m] = pending[m] \ Ready
    BY <1>1 DEF PlaceWave, StillAwaited
  <2>2. pending[m] # {} /\ pending[m] = doc.deps[m] \cap DOMAIN pending
    BY <1>1 DEF Ready, EdgesKept
  <2> QED
    BY <2>1, <2>2
<1>7. ASSUME NEW m \in Names \ DOMAIN pending, NEW k \in 1 .. L, IsLevel(m, k)
      PROVE  IsLevel(m, k)'
  <2>1. \A j \in 1 .. L + 1 : j # k => m \notin waves'[j]
    <3> TAKE j \in 1 .. L + 1
    <3>1. j \in 1 .. L \/ j = L + 1
      BY <1>4
    <3> QED
      BY <1>1, <1>3, <1>4, <1>7, <3>1 DEF IsLevel
  <2>2. \A d \in doc.deps[m] : \E j \in 1 .. k - 1 : d \in waves'[j]
    <3>1. 1 .. k - 1 \subseteq 1 .. L
      BY <1>4
    <3> QED
      BY <1>4, <1>7, <3>1 DEF IsLevel
  <2>3. k > 1 => doc.deps[m] \cap waves'[k - 1] # {}
    <3>1. k > 1 => k - 1 \in 1 .. L
      BY <1>4
    <3> QED
      BY <1>4, <1>7, <3>1 DEF IsLevel
  <2>4. m \in waves'[k]
    BY <1>4, <1>7 DEF IsLevel
  <2> QED
    BY <1>1, <1>4, <2>1, <2>2, <2>3, <2>4 DEF IsLevel
<1>8. ASSUME NEW m \in Ready PROVE IsLevel(m, L + 1)'
  <2>1. m \in waves'[L + 1] /\ m \in DOMAIN pending /\ pending[m] = {}
        /\ doc.deps[m] \cap DOMAIN pending = {} /\ doc.deps[m] \subseteq Names
    BY <1>1, <1>4 DEF Ready, EdgesKept
  <2>2. \A j \in 1 .. L + 1 : j # L + 1 => m \notin waves'[j]
    <3> SUFFICES ASSUME NEW j \in 1 .. L + 1, j # L + 1 PROVE m \notin waves'[j]
      OBVIOUS
    <3>1. j \in 1 .. L
      BY <1>4
    <3> QED
      BY <1>2, <1>3, <1>4, <2>1, <3>1
  <2>3. \A d \in doc.deps[m] : \E j \in 1 .. L : d \in waves'[j]
    <3> TAKE d \in doc.deps[m]
    <3>1. PICK k \in 1 .. L : IsLevel(d, k)
      BY <1>2, <1>3, <2>1
    <3> QED
      BY <1>4, <3>1 DEF IsLevel
  <2>4. L + 1 > 1 => doc.deps[m] \cap waves'[L] # {}
    <3> SUFFICES ASSUME L >= 1 PROVE doc.deps[m] \cap waves'[L] # {}
      BY <1>4
    <3>1. waves # <<>> /\ L \in 1 .. L
      BY <1>2, <1>3, <1>4
    <3> QED
      BY <1>2, <1>3, <1>4, <2>1, <3>1
  <2>5. L + 1 - 1 = L
    BY <1>4
  <2> QED
    BY <1>1, <1>4, <2>1, <2>2, <2>3, <2>4, <2>5 DEF IsLevel
<1>9. \A m \in Names \ DOMAIN pending' : \E k \in 1 .. L + 1 : IsLevel(m, k)'
  <2> TAKE m \in Names \ DOMAIN pending'
  <2>1. m \in Names \ DOMAIN pending \/ m \in Ready
    BY <1>1
  <2>2. CASE m \in Names \ DOMAIN pending
    <3>1. PICK k \in 1 .. L : IsLevel(m, k)
      BY <1>2, <1>3, <2>2
    <3>2. k \in 1 .. L + 1
      BY <1>4
    <3> QED
      BY <1>7, <2>2, <3>1, <3>2
  <2>3. CASE m \in Ready
    <3>1. L + 1 \in 1 .. L + 1
      BY <1>4
    <3> QED
      BY <1>8, <2>3, <3>1
  <2> QED
    BY <2>1, <2>2, <2>3
<1>10. Judged' /\ step' \notin {"override", "validate"}
  BY <1>1 DEF Judged
<1> QED
  BY <1>1, <1>4, <1>5, <1>6, <1>9, <1>10 DEF WavesInOrder

LEMMA WavesStep ==
    ASSUME OrderInv, Next PROVE WavesInOrder'
<1>0. EdgesKept /\ WavesInOrder
  BY DEF OrderInv
<1>1. CASE Override
  BY <1>0, <1>1 DEF Override, WavesInOrder, Judged
<1>2. CASE Accept
  <2>1. /\ waves = <<>> /\ waves' = waves /\ step' = "order" /\ waves \in Seq(SUBSET Names)
        /\ DOMAIN pending' = Names
    BY <1>0, <1>2 DEF Accept, WavesInOrder, EdgesKept
  <2>2. 1 .. Len(waves') = {}
    BY <2>1
  <2> QED
    BY <2>1, <2>2 DEF WavesInOrder
<1>3. CASE PlaceWave
  BY <1>0, <1>3, LevelsGrow
<1>4. CASE ~Override /\ ~Accept /\ ~PlaceWave
  <2>1. /\ UNCHANGED <<doc, pending, waves>> /\ (Judged' => Judged)
        /\ step' \notin {"override", "validate"}
    BY <1>4 DEF Next, RefuseOverride, RefuseInvalid, RefuseStranger, RefuseCycle, RefuseTurn,
                Schedule, Refuse, Judged
  <2> QED
    BY <1>0, <2>1 DEF WavesInOrder, IsLevel
<1> QED
  BY <1>1, <1>2, <1>3, <1>4

LEMMA TimeStep ==
    ASSUME OrderInv, Next PROVE NotInTime'
<1>1. \A g : NeverComesDue(g)' <=> NeverComesDue(g)
  BY DEF NeverComesDue, IsHeldOpen, IsBackground, TakesAnInitialTurn, DefersFirstTurn
<1>2. CASE Override \/ Accept \/ PlaceWave
  BY <1>2 DEF Override, Accept, PlaceWave, NotInTime
<1>3. CASE ~(Override \/ Accept \/ PlaceWave)
  BY <1>1, <1>3 DEF Next, RefuseOverride, RefuseInvalid, RefuseStranger, RefuseCycle, RefuseTurn,
                    Schedule, Refuse, NotInTime, Ready
<1> QED
  BY <1>2, <1>3

LEMMA OrderStutter ==
    ASSUME OrderInv, UNCHANGED vars PROVE OrderInv'
<1>1. UNCHANGED <<doc, step, pending, waves>>
  BY DEF vars
<1>2. EdgesKept' /\ NoneInCircles'
  BY <1>1 DEF OrderInv, EdgesKept, NoneInCircles, Judged
<1>3. WavesInOrder'
  <2>1. WavesInOrder
    BY DEF OrderInv
  <2>2. doc' = doc /\ step' = step /\ pending' = pending /\ waves' = waves
    BY <1>1
  <2>3. \A m, k : IsLevel(m, k)' <=> IsLevel(m, k)
    BY <2>2 DEF IsLevel
  <2> QED
    BY <2>1, <2>2, <2>3, Zenon DEF WavesInOrder, Judged
<1>4. NotInTime'
  <2>1. \A g : NeverComesDue(g)' <=> NeverComesDue(g)
    BY DEF NeverComesDue, IsHeldOpen, IsBackground, TakesAnInitialTurn, DefersFirstTurn
  <2> QED
    BY <1>1, <2>1 DEF OrderInv, NotInTime, Ready
<1> QED
  BY <1>2, <1>3, <1>4 DEF OrderInv

(* Every preparation keeps OrderInv.                                        *)
THEOREM OrderInvHolds == PrepareSpec => []OrderInv
<1>1. PrepareInit => OrderInv
  BY OrderStarts DEF PrepareInit
<1>2. OrderInv /\ [PrepareNext]_<<vars, buildVars>> => OrderInv'
  BY EdgesStep, CirclesStep, WavesStep, TimeStep, OrderStutter DEF PrepareNext, OrderInv
<1> QED
  BY <1>1, <1>2, PTL DEF PrepareSpec

(* The verdict on any document, of any number of members, is the one the    *)
(* scheduler's own view of the graph asks for, and its waves are the levels  *)
(* of the graph (run.rs ready_order, takes_an_initial_turn).                *)
THEOREM VerdictIsTheSchedulersHolds == PrepareSpec => []VerdictIsTheSchedulers
<1>1. OrderInv => VerdictIsTheSchedulers
  <2> SUFFICES ASSUME OrderInv PROVE VerdictIsTheSchedulers
    OBVIOUS
  <2>0. EdgesKept /\ NoneInCircles /\ WavesInOrder /\ NotInTime
    BY DEF OrderInv
  <2>1. ASSUME step \in {"accepted", "never due"}
        PROVE  /\ \A m \in Names : doc.deps[m] \subseteq Names
               /\ DOMAIN pending = {} /\ Shape!Acyclic
    <3>1. Judged /\ DOMAIN pending = {} /\ \A m \in Names : doc.deps[m] \subseteq Names
      BY <2>0, <2>1 DEF EdgesKept, Judged
    <3>2. Shape!Acyclic
      BY <2>0, <3>1 DEF NoneInCircles, Shape!Acyclic
    <3> QED
      BY <3>1, <3>2
  <2>2. step = "never due" => ~Shape!NotRefused
    BY <2>0, <2>1, NotRefusedIs DEF NotInTime
  <2>3. step = "accepted" => Shape!Acyclic /\ Shape!NotRefused
    BY <2>0, <2>1, NotRefusedIs DEF NotInTime
  <2>4. step = "accepted" => WavesAreLevels
    <3>1. ASSUME step = "accepted" PROVE \A m \in Names : \E k \in 1 .. Len(waves) : IsLevel(m, k)
      BY <2>0, <2>1, <3>1 DEF WavesInOrder, Judged
    <3> QED
      BY <3>1 DEF WavesAreLevels
  <2>5. ASSUME step = "cycle" PROVE ~Shape!Acyclic
    <3>1. Judged /\ DOMAIN pending # {} /\ Ready = {} /\ DOMAIN pending \subseteq Names
      BY <2>0, <2>5 DEF NotInTime, EdgesKept, Judged
    <3>2. \A m \in DOMAIN pending : doc.deps[m] \cap DOMAIN pending # {}
      BY <2>0, <3>1 DEF EdgesKept, Ready
    <3>3. DOMAIN pending \in (SUBSET Names) \ {{}}
      BY <3>1
    <3> QED
      BY <3>2, <3>3 DEF Shape!Acyclic
  <2> QED
    BY <2>2, <2>3, <2>4, <2>5 DEF VerdictIsTheSchedulers
<1> QED
  BY <1>1, OrderInvHolds, PTL

=============================================================================
