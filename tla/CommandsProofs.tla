--------------------------- MODULE CommandsProofs ---------------------------
(* The commands: what a reader of a run's directory may believe, for any    *)
(* number of runs, that a smoke pays once, for chains of any length, and    *)
(* that a pre-turn view says what its program printed, whatever it prints.  *)
EXTENDS RunDirectory, Smoke, PreTurnView, FiniteSetTheorems, TLAPS

(* Nobody is idle but who was not asked for or not spawned, and who works   *)
(* has minted an id.                                                        *)
Asking ==
    /\ \A r \in Runs : at[r] = "idle" <=> told[r] \in {"idle", "spawn", "refused"}
    /\ \A r \in Runs : at[r] \in {"idle", "mint"} => id[r] = NoId
    /\ \A r \in Runs : at[r] \in Working => id[r] \in Ids

(* The lock of a directory is held from the claim to the end of its run.    *)
Locked == \A r \in Runs : Holds(r) => owner[id[r]] = r

(* What the record and the stream of a run say while it holds its directory *)
PenOf(r) ==
    /\ at[r] = "rewrite" => record[id[r]] = "early"
    /\ at[r] \in {"announce", "begin", "serve", "settle", "finish"} => record[id[r]] = "full"
    /\ at[r] \in {"recording", "rewriting", "finishing"} => record[id[r]] = "torn"
    /\ at[r] \in {"settle", "finish", "finishing"} => code[r] \in Codes
    /\ at[r] \in {"finish", "finishing"} => stream[id[r]] = code[r]

Pen == \A r \in Runs : PenOf(r)

(* A directory with a record has had a run in it. *)
Begun == {r \in Runs : at[r] \notin {"idle", "mint", "claim"}}
Authored == \A i \in Ids : record[i] # "absent" => \E r \in Begun : id[r] = i

(* Who announced itself is past every refusal. *)
Heralded ==
    /\ \A r \in heralds : at[r] \in {"begin", "serve", "settle", "finish", "finishing",
                                     "return", "over", "failed", "panicked", "crashed"}
    /\ \A r \in Runs : told[r] = "handle" => r \in heralds

(* HistoryTellsTheTruth is not inductive: it does not say that the one who  *)
(* writes an exit code published it first, that nobody else may write there *)
(* meanwhile, nor that who truncates a stream finds no older run's record.  *)
DirectoryInv ==
    /\ TypeOK /\ Asking /\ Locked /\ Pen /\ Authored /\ Heralded
    /\ HistoryTellsTheTruth

-----------------------------------------------------------------------------
(* The operators.                                                           *)

(* A stage is followed by the one after it in the order.                    *)
LEMMA OrderIsOneWay ==
    /\ Then("mint") = "claim" /\ Then("claim") = "record"
    /\ Then("record") = "recording" /\ Then("recording") = "rewrite"
    /\ Then("rewrite") = "rewriting" /\ Then("rewriting") = "announce"
    /\ Then("announce") = "begin" /\ Then("begin") = "serve"
    /\ Then("serve") = "settle" /\ Then("settle") = "finish"
    /\ Then("finish") = "finishing" /\ Then("finishing") = "return"
    /\ Then("return") = "over"
<1>1. ASSUME NEW i \in 1 .. 13
      PROVE  Then(Order[i]) = Order[i + 1]
  <2>1. \A k \in 1 .. 13 : Order[k] = Order[i] => k = i
    BY DEF Order
  <2> QED
    BY <2>1 DEF Then
<1> QED
  BY <1>1 DEF Order

(* A set of naturals has a least element: of its initial segments, finite  *)
(* sets, one is least under strict inclusion.                               *)
LEMMA LeastElement ==
    ASSUME NEW T \in SUBSET Nat, T # {}
    PROVE  \E n \in T : \A k \in T : n <= k
<1> DEFINE Upto == {0 .. n : n \in T}
<1>1. Upto \subseteq FiniteSubsetsOf(Nat) /\ Upto # {}
  <2>1. \A n \in T : 0 .. n \in SUBSET Nat /\ IsFiniteSet(0 .. n)
    BY FS_Interval
  <2> QED
    BY <2>1 DEF FiniteSubsetsOf
<1>2. PICK X \in Upto : \A Y \in Upto : ~(<<Y, X>> \in StrictSubsetOrdering(Nat))
  <2> HIDE DEF Upto
  <2> QED
    BY <1>1, FS_StrictSubsetOrderingWellFounded, WFMin
<1>3. PICK n \in T : X = 0 .. n
  OBVIOUS
<1>4. ASSUME NEW k \in T, k < n PROVE FALSE
  <2>1. 0 .. k \subseteq 0 .. n /\ 0 .. k # 0 .. n /\ 0 .. n \in SUBSET Nat /\ 0 .. k \in SUBSET Nat
    BY <1>4
  <2>2. <<0 .. k, 0 .. n>> \in StrictSubsetOrdering(Nat)
    BY <2>1 DEF StrictSubsetOrdering
  <2> QED
    BY <1>2, <1>3, <2>2
<1> QED
  BY <1>4

(* The CHOOSE of Foremost has what to choose: the oldest has an age that no *)
(* other falls below.                                                       *)
LEMMA ForemostListed ==
    ASSUME NEW I \in SUBSET Ids, I # {}
    PROVE  Foremost(I) \in I
<1> DEFINE Ages == {LastMilli - i[1] : i \in I}
<1>1. ASSUME NEW i \in I PROVE i[1] \in 0 .. LastMilli
  BY DEF Ids
<1>2. Ages \in SUBSET Nat /\ Ages # {}
  BY <1>1, RunsAssumption
<1>3. PICK n \in Ages : \A k \in Ages : n <= k
  BY <1>2, LeastElement
<1>4. PICK i \in I : n = LastMilli - i[1]
  BY <1>3
<1>5. ASSUME NEW j \in I PROVE j[1] <= i[1]
  <2>1. LastMilli - j[1] \in Ages
    OBVIOUS
  <2>2. LastMilli - i[1] <= LastMilli - j[1]
    BY <1>3, <1>4, <2>1
  <2> QED
    BY <1>1, <2>2, RunsAssumption
<1> QED
  BY <1>5 DEF Foremost

(* Every step keeps the shapes.                                             *)
LEMMA TypesKept ==
    ASSUME TypeOK, Pen, [Next]_vars
    PROVE  TypeOK'
<1> USE DEF disk, clients
<1>1. ASSUME NEW r \in Runs, Mint(r) PROVE TypeOK'
  BY <1>1, OrderIsOneWay DEF TypeOK, Mint, Advance, Ids, Pid, Pids, Stages, Working
<1>2. ASSUME NEW r \in Runs, Claim(r) PROVE TypeOK'
  BY <1>2, OrderIsOneWay DEF TypeOK, Claim, Advance, Stages, Working
<1>3. ASSUME NEW r \in Runs, Truncate(r) PROVE TypeOK'
  BY <1>3, OrderIsOneWay DEF TypeOK, Truncate, Advance, Stages, Working
<1>4. ASSUME NEW r \in Runs, Fill(r) PROVE TypeOK'
  <2>1. Written(r) \in Parsed
    BY <1>4 DEF Fill, Written, Parsed, Pen, PenOf
  <2> QED
    BY <1>4, <2>1, OrderIsOneWay DEF TypeOK, Fill, Advance, Stages, Working
<1>5. ASSUME NEW r \in Runs, Announce(r) PROVE TypeOK'
  BY <1>5, OrderIsOneWay DEF TypeOK, Announce, Advance, Stages, Working
<1>6. ASSUME NEW r \in Runs, Begin(r) PROVE TypeOK'
  BY <1>6, OrderIsOneWay DEF TypeOK, Begin, Advance, Stages, Working
<1>7. ASSUME NEW r \in Runs, Serve(r) PROVE TypeOK'
  BY <1>7, OrderIsOneWay DEF TypeOK, Serve, Advance, Stages, Working
<1>8. ASSUME NEW r \in Runs, PublishSettled(r) PROVE TypeOK'
  BY <1>8, OrderIsOneWay DEF TypeOK, PublishSettled, Advance, Stages, Working, Pen, PenOf
<1>9. ASSUME NEW r \in Runs, Return(r) PROVE TypeOK'
  BY <1>9, OrderIsOneWay DEF TypeOK, Return, Advance, Stages, Working, Ended, Released
<1>10. ASSUME NEW r \in Runs, Refuse(r) \/ LastWriteFails(r) \/ Panic(r) PROVE TypeOK'
  <2>1. owner' \in [Ids -> Runs \cup {Nobody}]
    BY <1>10 DEF TypeOK, Refuse, LastWriteFails, Panic, Released
  <2>2. at' \in [Runs -> Stages]
    <3>1. \E e \in Ended : at' = [at EXCEPT ![r] = e]
      BY <1>10 DEF Refuse, LastWriteFails, Panic, Ended
    <3> QED
      BY <3>1 DEF TypeOK, Stages
  <2> QED
    BY <1>10, <2>1, <2>2 DEF TypeOK, Refuse, LastWriteFails, Panic
<1>11. ASSUME NEW r \in Runs, Start(r) \/ StartStep(r) PROVE TypeOK'
  <2>1. CASE Start(r)
    BY <2>1 DEF TypeOK, Start, Stages
  <2>2. CASE StartStep(r)
    <3>1. \E what \in {"handle", "looking", "never started", "error", "waiting"} : Hears(r, what)
      BY <2>2 DEF StartStep, HearStarted, WaitRunsOut, LookForResult, HearNothing
    <3>2. told' \in [Runs -> Detaching \cup {"idle", "waiting", "looking", "handle", "error",
                                            "never started", "dead", "refused"}]
      BY <3>1 DEF TypeOK, Hears
    <3>3. UNCHANGED <<now, at, id, code, disk, heralds, before, named>>
      BY <3>1 DEF Hears
    <3> QED
      BY <3>2, <3>3 DEF TypeOK
  <2> QED
    BY <1>11, <2>1, <2>2
<1>12. ASSUME NEW r \in Runs, RefuseDetach(r) \/ Snapshot(r) \/ Spawn(r) \/ PollExpires(r)
       PROVE  TypeOK'
  <2>1. Listed \in SUBSET Ids
    BY DEF Listed
  <2>2. CASE RefuseDetach(r) \/ PollExpires(r)
    BY <2>2 DEF TypeOK, RefuseDetach, PollExpires, Hears, Detaching
  <2>3. CASE Snapshot(r)
    BY <2>1, <2>3 DEF TypeOK, Snapshot, Detaching
  <2>4. CASE Spawn(r)
    BY <2>4 DEF TypeOK, Spawn, Detaching, Stages
  <2> QED
    BY <1>12, <2>2, <2>3, <2>4
<1>13. ASSUME NEW r \in Runs, Poll(r) PROVE TypeOK'
  <2>1. Foremost(Listed \ before[r]) \in Ids
    BY <1>13, ForemostListed DEF Poll, Listed
  <2> QED
    BY <1>13, <2>1 DEF TypeOK, Poll, Detaching
<1>14. ASSUME NEW p \in Pids, Crash(p) PROVE TypeOK'
  BY <1>14 DEF TypeOK, Crash, Released, Stages, Ended
<1>15. CASE Tick
  <2>1. now' \in 0 .. LastMilli
    <3>1. LastMilli \in Nat
      BY RunsAssumption
    <3>2. now \in 0 .. LastMilli /\ now < LastMilli /\ now' = now + 1
      BY <1>15 DEF TypeOK, Tick
    <3> QED
      BY <3>1, <3>2
  <2>2. UNCHANGED <<at, id, code, record, stream, owner, heralds, told, before, named>>
    BY <1>15 DEF Tick
  <2> QED
    BY <2>1, <2>2 DEF TypeOK
<1>16. CASE UNCHANGED vars
  BY <1>16 DEF TypeOK, vars, Listed
<1> QED
  BY <1>1, <1>2, <1>3, <1>4, <1>5, <1>6, <1>7, <1>8, <1>9, <1>10, <1>11, <1>12, <1>13, <1>14,
     <1>15, <1>16 DEF Next, RunStep, DetachStep

-----------------------------------------------------------------------------
(* What the three kinds of step do to a run and to the disk.                *)

(* Advance moves one run one stage on.                                      *)
LEMMA OneStageOn ==
    ASSUME TypeOK, NEW r \in Runs, Advance(r)
    PROVE  /\ at'[r] = Then(at[r])
           /\ \A q \in Runs \ {r} : at'[q] = at[q]
BY DEF TypeOK, Advance

ClientStep(r) == Start(r) \/ StartStep(r) \/ DetachStep(r)

(* Who asks for a run, or asks after it, writes nothing that it writes.     *)
LEMMA ClientsWriteNothing ==
    ASSUME TypeOK, Asking, NEW r \in Runs, ClientStep(r)
    PROVE  /\ UNCHANGED <<now, id, code, record, stream, owner, heralds>>
           /\ \A q \in Runs : at'[q] = at[q] \/ (at[q] = "idle" /\ at'[q] = "mint")
<1> USE DEF disk
<1>1. CASE Start(r) \/ Spawn(r)
  BY <1>1 DEF TypeOK, Asking, Start, Spawn
<1>2. CASE StartStep(r)
  BY <1>2 DEF StartStep, HearStarted, WaitRunsOut, LookForResult, HearNothing, Hears
<1>3. CASE RefuseDetach(r) \/ Snapshot(r) \/ Poll(r) \/ PollExpires(r)
  BY <1>3 DEF RefuseDetach, Snapshot, Poll, PollExpires, Hears
<1> QED
  BY <1>1, <1>2, <1>3 DEF ClientStep, DetachStep

EndStep(r) == Refuse(r) \/ LastWriteFails(r) \/ Panic(r)

Halted == {"refused", "failed", "panicked", "crashed"}

(* What ends runs leaves their files as they were, and lets their locks go. *)
LEMMA EndingsWriteNothing ==
    ASSUME TypeOK, (\E r \in Runs : EndStep(r)) \/ (\E p \in Pids : Crash(p))
    PROVE  /\ UNCHANGED <<now, id, code, record, stream, heralds>>
           /\ \E R \in SUBSET Runs :
                 /\ Released(R)
                 /\ \A q \in Runs \ R : at'[q] = at[q]
                 /\ \A q \in R : at[q] \notin Ended \cup {"idle"} /\ at'[q] \in Halted
<1> USE DEF clients
<1>1. ASSUME NEW r \in Runs, EndStep(r)
      PROVE  /\ UNCHANGED <<now, id, code, record, stream, heralds>>
             /\ Released({r})
             /\ {r} \in SUBSET Runs
             /\ \A q \in Runs \ {r} : at'[q] = at[q]
             /\ \A q \in {r} : at[q] \notin Ended \cup {"idle"} /\ at'[q] \in Halted
  <2>0. DOMAIN at = Runs
    BY DEF TypeOK
  <2>1. UNCHANGED <<now, id, code, record, stream, heralds>> /\ Released({r})
    BY <1>1 DEF EndStep, Refuse, LastWriteFails, Panic
  <2>2. \E e \in Halted : at' = [at EXCEPT ![r] = e]
    BY <1>1 DEF EndStep, Refuse, LastWriteFails, Panic, Halted
  <2>3. at[r] \notin Ended \cup {"idle"}
    BY <1>1 DEF EndStep, Refuse, LastWriteFails, Panic, PanicPoints, Ended
  <2>4. /\ \A q \in Runs \ {r} : at'[q] = at[q]
        /\ at'[r] \in Halted
    BY <2>0, <2>2
  <2> QED
    BY <2>1, <2>3, <2>4
<1>2. ASSUME NEW p \in Pids, Crash(p)
      PROVE  /\ UNCHANGED <<now, id, code, record, stream, heralds>>
             /\ \E R \in SUBSET Runs :
                   /\ Released(R)
                   /\ \A q \in Runs \ R : at'[q] = at[q]
                   /\ \A q \in R : at[q] \notin Ended \cup {"idle"} /\ at'[q] \in Halted
  <2> DEFINE lost == {q \in Runs : Pid(q) = p /\ at[q] \notin Ended \cup {"idle"}}
  <2>1. Released(lost) /\ at' = [q \in Runs |-> IF q \in lost THEN "crashed" ELSE at[q]]
    BY <1>2 DEF Crash
  <2>2. lost \in SUBSET Runs /\ \A q \in lost : at[q] \notin Ended \cup {"idle"}
    OBVIOUS
  <2>3. /\ \A q \in Runs \ lost : at'[q] = at[q]
        /\ \A q \in lost : at'[q] \in Halted
    <3> HIDE DEF lost
    <3> QED
      BY <2>1, <2>2 DEF Halted
  <2>4. UNCHANGED <<now, id, code, record, stream, heralds>>
    BY <1>2 DEF Crash
  <2> HIDE DEF lost
  <2> QED
    BY <2>1, <2>2, <2>3, <2>4
<1>3. CASE \E r \in Runs : EndStep(r)
  <2>1. PICK r \in Runs : EndStep(r)
    BY <1>3
  <2> QED
    BY <1>1, <2>1
<1> QED
  BY <1>2, <1>3

-----------------------------------------------------------------------------
(* The invariant, conjunct by conjunct.                                     *)

(* Each conjunct is kept.                                                   *)
LEMMA AskingKept ==
    ASSUME TypeOK, Asking, [Next]_vars
    PROVE  Asking'
<1> USE DEF disk, clients, Asking, Working, Ended
<1>1. ASSUME NEW r \in Runs, Mint(r) PROVE Asking'
  <2>1. at[r] = "mint" /\ at'[r] = "claim" /\ \A q \in Runs \ {r} : at'[q] = at[q]
    BY <1>1, OrderIsOneWay, OneStageOn DEF Mint
  <2>2. <<now, Pid(r)>> \in Ids
    BY DEF TypeOK, Ids, Pids, Pid
  <2>3. id'[r] = <<now, Pid(r)>> /\ \A q \in Runs \ {r} : id'[q] = id[q]
    BY <1>1 DEF TypeOK, Mint
  <2>4. told' = told
    BY <1>1 DEF Mint
  <2> QED
    BY <2>1, <2>2, <2>3, <2>4
<1>2. ASSUME NEW r \in Runs,
             Claim(r) \/ Truncate(r) \/ Fill(r) \/ Announce(r) \/ Begin(r) \/ Serve(r)
                \/ PublishSettled(r) \/ Return(r)
      PROVE  Asking'
  <2>1. Advance(r) /\ UNCHANGED <<id, told>>
    BY <1>2 DEF Claim, Truncate, Fill, Announce, Begin, Serve, PublishSettled, Return
  <2>2. at[r] \in Working
    BY <1>2 DEF Claim, Truncate, Fill, Announce, Begin, Serve, PublishSettled, Return
  <2>3. /\ at'[r] = Then(at[r]) /\ \A q \in Runs \ {r} : at'[q] = at[q]
    BY <2>1, OneStageOn
  <2>4. at'[r] \notin {"idle", "mint"} /\ at[r] \notin {"idle", "mint"}
    BY <2>2, <2>3, OrderIsOneWay
  <2>5. id[r] \in Ids
    BY <2>2
  <2> HIDE DEF Working
  <2> QED
    BY <2>1, <2>3, <2>4, <2>5
<1>3. ASSUME NEW r \in Runs, EndStep(r) PROVE Asking'
  <2>1. UNCHANGED <<id, told>>
    BY <1>3 DEF EndStep, Refuse, LastWriteFails, Panic
  <2>2. /\ \A q \in Runs \ {r} : at'[q] = at[q]
        /\ at[r] # "idle" /\ at'[r] \in Halted
    <3>1. PICK where \in Halted : at' = [at EXCEPT ![r] = where]
      BY <1>3 DEF EndStep, Refuse, LastWriteFails, Panic, Halted
    <3>2. at[r] # "idle"
      BY <1>3 DEF EndStep, Refuse, LastWriteFails, Panic, PanicPoints
    <3>3. at \in [Runs -> Stages]
      BY DEF TypeOK
    <3> QED
      BY <3>1, <3>2, <3>3, Zenon
  <2> QED
    BY <2>1, <2>2 DEF Halted
<1>4. ASSUME NEW r \in Runs, ClientStep(r) PROVE Asking'
  <2>0. at \in [Runs -> Stages] /\ DOMAIN told = Runs
    BY DEF TypeOK
  <2>1. CASE Start(r) \/ Spawn(r)
    BY <2>0, <2>1 DEF Start, Spawn
  <2>2. CASE HearStarted(r) \/ WaitRunsOut(r) \/ HearNothing(r)
    BY <2>0, <2>2 DEF HearStarted, WaitRunsOut, HearNothing, Hears
  <2>4. CASE LookForResult(r)
    BY <2>0, <2>4 DEF LookForResult, Hears
  <2>3. CASE RefuseDetach(r) \/ Snapshot(r) \/ Poll(r) \/ PollExpires(r)
    BY <2>0, <2>3 DEF RefuseDetach, Snapshot, Poll, PollExpires, Hears
  <2> QED
    BY <1>4, <2>1, <2>2, <2>3, <2>4 DEF ClientStep, StartStep, DetachStep
<1>5. ASSUME NEW p \in Pids, Crash(p) PROVE Asking'
  BY <1>5 DEF TypeOK, Crash, Pid, Detaching
<1>6. CASE Tick \/ UNCHANGED vars
  BY <1>6 DEF Tick, vars
<1> QED
  BY <1>1, <1>2, <1>3, <1>4, <1>5, <1>6 DEF Next, RunStep, EndStep, ClientStep

LEMMA LockedKept ==
    ASSUME TypeOK, Asking, Locked, [Next]_vars
    PROVE  Locked'
<1> USE DEF disk, clients, Locked, Holds
<1>1. ASSUME NEW r \in Runs, Mint(r) PROVE Locked'
  BY <1>1, OrderIsOneWay DEF TypeOK, Mint, Advance, Working
<1>2. ASSUME NEW r \in Runs, Claim(r) PROVE Locked'
  <2>1. id[r] \in Ids /\ owner[id[r]] = Nobody
    BY <1>2 DEF Claim, LockFree, Asking, Working
  <2>2. /\ owner'[id[r]] = r
        /\ \A i \in Ids \ {id[r]} : owner'[i] = owner[i]
    <3>1. owner' = [owner EXCEPT ![id[r]] = r]
      BY <1>2 DEF Claim
    <3>2. DOMAIN owner = Ids
      BY DEF TypeOK
    <3> QED
      BY <2>1, <3>1, <3>2
  <2>3. \A q \in Runs \ {r} : at'[q] = at[q] /\ id'[q] = id[q]
    BY <1>2, OneStageOn DEF Claim
  <2>4. id'[r] = id[r]
    BY <1>2 DEF Claim
  <2>5. ASSUME NEW q \in Runs \ {r}, Holds(q) PROVE owner'[id[q]] = q
    <3>1. id[q] \in Ids /\ owner[id[q]] = q
      BY <2>5 DEF Asking, Working
    <3>2. id[q] # id[r]
      BY <2>1, <3>1, RunsAssumption
    <3> QED
      BY <2>2, <3>1, <3>2
  <2> QED
    BY <2>2, <2>3, <2>4, <2>5
<1>3. ASSUME NEW r \in Runs,
             Truncate(r) \/ Fill(r) \/ Announce(r) \/ Begin(r) \/ Serve(r) \/ PublishSettled(r)
      PROVE  Locked'
  <2>1. Advance(r) /\ UNCHANGED <<id, owner>> /\ Holds(r)
    BY <1>3 DEF Truncate, Fill, Announce, Begin, Serve, PublishSettled, Working
  <2> QED
    BY <2>1, OneStageOn
<1>4. ASSUME NEW r \in Runs, Return(r) PROVE Locked'
  <2>1. at[r] = "return" /\ at'[r] = "over" /\ \A q \in Runs \ {r} : at'[q] = at[q]
    BY <1>4, OneStageOn, OrderIsOneWay DEF Return
  <2>2. id' = id /\ owner' = [i \in Ids |-> IF owner[i] \in {r} THEN Nobody ELSE owner[i]]
    BY <1>4 DEF Return, Released
  <2>3. \A q \in Runs : Holds(q)' => q # r /\ Holds(q)
    BY <2>1 DEF Working
  <2>4. \A q \in Runs : Holds(q) => id[q] \in Ids
    BY DEF Asking
  <2> QED
    BY <2>2, <2>3, <2>4
<1>5. ASSUME \/ \E r \in Runs : EndStep(r)
             \/ \E p \in Pids : Crash(p)
      PROVE  Locked'
  <2>1. PICK R \in SUBSET Runs :
           /\ Released(R)
           /\ \A q \in Runs \ R : at'[q] = at[q]
           /\ \A q \in R : at[q] \notin Ended \cup {"idle"} /\ at'[q] \in Halted
    BY <1>5, EndingsWriteNothing
  <2>2. id' = id
    BY <1>5, EndingsWriteNothing
  <2>3. ASSUME NEW q \in Runs, at'[q] \in Working \ {"claim"} PROVE owner'[id[q]] = q
    <3>1. q \notin R /\ at'[q] = at[q]
      BY <2>1, <2>3 DEF Working, Halted
    <3>2. id[q] \in Ids /\ owner[id[q]] = q
      BY <2>3, <3>1 DEF Asking
    <3> QED
      BY <2>1, <3>1, <3>2 DEF Released
  <2> QED
    BY <2>2, <2>3
<1>6. ASSUME NEW r \in Runs, ClientStep(r) PROVE Locked'
  BY <1>6, ClientsWriteNothing DEF Working
<1>7. CASE Tick \/ UNCHANGED vars
  BY <1>7 DEF Tick, vars
<1> QED
  BY <1>1, <1>2, <1>3, <1>4, <1>5, <1>6, <1>7 DEF Next, RunStep, EndStep, ClientStep

\* What a step that only ends runs, or only answers who asked, leaves alone
Quiet == \/ \E r \in Runs : EndStep(r) \/ ClientStep(r)
         \/ \E p \in Pids : Crash(p)
         \/ Tick
         \/ UNCHANGED vars

(* Neither does a quiet step write, and it takes a run to its beginning, or *)
(* to one of its ends, or nowhere.                                          *)
LEMMA QuietWritesNothing ==
    ASSUME TypeOK, Asking, Quiet
    PROVE  /\ UNCHANGED <<id, code, record, stream>>
           /\ \A q \in Runs : \/ at'[q] = at[q]
                              \/ at'[q] \in Halted /\ at[q] # "idle"
                              \/ at[q] = "idle" /\ at'[q] = "mint"
<1>1. CASE \/ \E r \in Runs : EndStep(r)
           \/ \E p \in Pids : Crash(p)
  <2>1. UNCHANGED <<id, code, record, stream>>
    BY <1>1, EndingsWriteNothing
  <2>2. PICK R \in SUBSET Runs :
           /\ \A q \in Runs \ R : at'[q] = at[q]
           /\ \A q \in R : at[q] \notin Ended \cup {"idle"} /\ at'[q] \in Halted
    BY <1>1, EndingsWriteNothing
  <2> QED
    BY <2>1, <2>2
<1>2. CASE \E r \in Runs : ClientStep(r)
  BY <1>2, ClientsWriteNothing
<1>3. CASE Tick \/ UNCHANGED vars
  BY <1>3 DEF Tick, vars, disk
<1> QED
  BY <1>1, <1>2, <1>3 DEF Quiet

StageStep(r) ==
    \/ Mint(r) \/ Claim(r) \/ Truncate(r) \/ Fill(r) \/ Announce(r)
    \/ Begin(r) \/ Serve(r) \/ PublishSettled(r) \/ Return(r)

(* A step is quiet, or takes one run one stage on.                          *)
LEMMA StepKinds ==
    ASSUME [Next]_vars
    PROVE  Quiet \/ \E r \in Runs : StageStep(r)
BY DEF Next, RunStep, Quiet, EndStep, ClientStep, StageStep

(* A stage is one run's, which has an id, and after the claim the lock.     *)
LEMMA StagesInOrder ==
    ASSUME TypeOK, Asking, NEW r \in Runs, StageStep(r)
    PROVE  /\ at'[r] = Then(at[r])
           /\ \A q \in Runs \ {r} : at'[q] = at[q] /\ id'[q] = id[q] /\ code'[q] = code[q]
           /\ at[r] # "mint" => id[r] \in Ids /\ id' = id
           /\ at[r] \in {"mint", "claim"} \/ Holds(r)
<1>1. Advance(r)
  BY DEF StageStep, Mint, Claim, Announce, Serve, Return, Truncate, Fill, Begin, PublishSettled
<1>2. \A q \in Runs \ {r} : id'[q] = id[q] /\ code'[q] = code[q]
  BY DEF StageStep, TypeOK, Mint, Claim, Announce, Serve, Return, Truncate, Fill, Begin,
         PublishSettled
<1>3. at[r] \in {"mint", "claim"} \/ Holds(r)
  BY DEF StageStep, Mint, Claim, Announce, Serve, Return, Truncate, Fill, Begin, PublishSettled,
         Holds, Working
<1>4. at[r] # "mint" => id[r] \in Ids /\ id' = id
  BY <1>3 DEF StageStep, Mint, Claim, Announce, Serve, Return, Truncate, Fill, Begin,
              PublishSettled, Asking, Holds, Working
<1> QED
  BY <1>1, <1>2, <1>3, <1>4, OneStageOn

LEMMA PenKept ==
    ASSUME TypeOK, Asking, Locked, Pen, [Next]_vars
    PROVE  Pen'
<1> SUFFICES ASSUME NEW q \in Runs PROVE PenOf(q)'
  BY DEF Pen
<1>0. PenOf(q)
  BY DEF Pen
<1>1. CASE Quiet
  BY <1>0, <1>1, QuietWritesNothing DEF PenOf, Halted
<1>2. ASSUME NEW r \in Runs,
             StageStep(r),
             q = r
      PROVE  PenOf(q)'
  <2>0. at'[r] = Then(at[r])
    BY <1>2, StagesInOrder
  <2>1. at[r] # "mint" => id[r] \in Ids /\ id'[r] = id[r]
    BY <1>2, StagesInOrder
  <2>2. CASE Mint(r) \/ Claim(r) \/ Return(r)
    BY <1>2, <2>0, <2>2, OrderIsOneWay DEF Mint, Claim, Return, PenOf
  <2>3. CASE Announce(r) \/ Begin(r)
    BY <1>0, <1>2, <2>0, <2>1, <2>3, OrderIsOneWay DEF Announce, Begin, PenOf, disk
  <2>4. CASE Serve(r)
    BY <1>0, <1>2, <2>0, <2>1, <2>4, OrderIsOneWay DEF Serve, PenOf, disk, TypeOK
  <2>5. CASE PublishSettled(r)
    BY <1>0, <1>2, <2>0, <2>1, <2>5, OrderIsOneWay DEF PublishSettled, PenOf, TypeOK
  <2>6. CASE Truncate(r)
    BY <1>0, <1>2, <2>0, <2>1, <2>6, OrderIsOneWay DEF Truncate, PenOf, TypeOK
  <2>7. CASE Fill(r)
    BY <1>0, <1>2, <2>0, <2>1, <2>7, OrderIsOneWay DEF Fill, Written, PenOf, TypeOK
  <2> QED
    BY <1>2, <2>2, <2>3, <2>4, <2>5, <2>6, <2>7 DEF StageStep
<1>3. ASSUME NEW r \in Runs,
             StageStep(r),
             q # r
      PROVE  PenOf(q)'
  <2>0. at'[q] = at[q] /\ id'[q] = id[q] /\ code'[q] = code[q]
    BY <1>3, StagesInOrder
  <2>1. CASE ~Holds(q)
    BY <2>0, <2>1 DEF PenOf, Holds, Working
  <2>2. CASE Holds(q) /\ (Mint(r) \/ Announce(r) \/ Serve(r) \/ Return(r))
    BY <1>0, <2>0, <2>2 DEF PenOf, Mint, Announce, Serve, Return, disk
  <2>3. CASE Holds(q) /\ (Claim(r) \/ Truncate(r) \/ Fill(r) \/ Begin(r) \/ PublishSettled(r))
    <3>1. id[q] \in Ids /\ id[r] \in Ids /\ owner[id[q]] = q
      BY <2>3 DEF Asking, Locked, Holds, Working, Claim, Truncate, Fill, Begin, PublishSettled
    <3>2. owner[id[r]] = r \/ owner[id[r]] = Nobody
      BY <2>3 DEF Locked, Holds, Working, Claim, LockFree, Truncate, Fill, Begin, PublishSettled
    <3>3. id[q] # id[r]
      BY <1>3, <3>1, <3>2, RunsAssumption
    <3>4. record'[id[q]] = record[id[q]] /\ stream'[id[q]] = stream[id[q]]
      BY <2>3, <3>1, <3>3 DEF TypeOK, Claim, Truncate, Fill, Begin, PublishSettled
    <3> QED
      BY <1>0, <2>0, <3>4 DEF PenOf
  <2> QED
    BY <1>3, <2>1, <2>2, <2>3 DEF StageStep
<1> QED
  BY <1>1, <1>2, <1>3, StepKinds

LEMMA AuthoredKept ==
    ASSUME TypeOK, Asking, Authored, [Next]_vars
    PROVE  Authored'
<1> SUFFICES ASSUME NEW i \in Ids, record'[i] # "absent"
             PROVE  \E q \in Begun' : id'[q] = i
  BY DEF Authored
<1>1. CASE Quiet
  <2>1. PICK q \in Begun : id[q] = i
    BY <1>1, QuietWritesNothing DEF Authored
  <2> QED
    BY <1>1, <2>1, QuietWritesNothing DEF Begun, Halted
<1>2. ASSUME NEW r \in Runs, StageStep(r)
      PROVE  \E q \in Begun' : id'[q] = i
  <2>1. Holds(r) => at'[r] \notin {"idle", "mint", "claim"}
    BY <1>2, StagesInOrder, OrderIsOneWay DEF Holds, Working
  <2>2. CASE record'[i] # record[i]
    <3>1. (Truncate(r) \/ Fill(r)) /\ id[r] = i
      BY <1>2, <2>2 DEF StageStep, Mint, Claim, Announce, Serve, Return, Truncate, Fill, Begin,
                        PublishSettled, disk, TypeOK
    <3>2. Holds(r) /\ id' = id
      BY <3>1 DEF Truncate, Fill, Holds, Working
    <3> QED
      BY <2>1, <3>1, <3>2 DEF Begun
  <2>3. CASE record'[i] = record[i]
    <3>1. PICK q \in Begun : id[q] = i
      BY <2>3 DEF Authored
    <3>2. CASE q # r
      BY <1>2, <3>1, <3>2, StagesInOrder DEF Begun
    <3>3. CASE q = r
      BY <1>2, <2>1, <3>1, <3>3, StagesInOrder DEF Begun
    <3> QED
      BY <3>2, <3>3
  <2> QED
    BY <2>2, <2>3
<1> QED
  BY <1>1, <1>2, StepKinds

LEMMA HeraldedKept ==
    ASSUME TypeOK, Asking, Heralded, [Next]_vars
    PROVE  Heralded'
<1> DEFINE Past == {"begin", "serve", "settle", "finish", "finishing",
                    "return", "over", "failed", "panicked", "crashed"}
<1>0. /\ heralds \subseteq Runs
      /\ \A r \in heralds : at[r] \in Past
      /\ \A r \in Runs : told[r] = "handle" => r \in heralds
  BY DEF TypeOK, Heralded
<1> USE DEF disk, clients
<1>1. ASSUME NEW r \in Runs, StageStep(r) PROVE Heralded'
  <2>1. heralds' \subseteq heralds \cup {r} /\ heralds \subseteq heralds' /\ told' = told
    BY <1>1 DEF StageStep, Mint, Claim, Announce, Serve, Return, Truncate, Fill, Begin,
                PublishSettled
  <2>2. r \in heralds' => at'[r] \in Past
    <3>1. CASE r \in heralds
      BY <1>0, <1>1, <3>1, StagesInOrder, OrderIsOneWay DEF Holds, Working
    <3>2. CASE Announce(r)
      BY <1>1, <3>2, StagesInOrder, OrderIsOneWay DEF Announce
    <3> QED
      BY <1>1, <3>1, <3>2 DEF StageStep, Mint, Claim, Serve, Return, Truncate, Fill, Begin,
                PublishSettled
  <2>3. \A q \in heralds' \ {r} : at'[q] \in Past
    BY <1>0, <1>1, <2>1, StagesInOrder
  <2> QED
    BY <1>0, <2>1, <2>2, <2>3 DEF Heralded
<1>2. ASSUME NEW r \in Runs, EndStep(r) PROVE Heralded'
  <2>1. UNCHANGED <<heralds, told>>
    BY <1>2 DEF EndStep, Refuse, LastWriteFails, Panic
  <2>2. /\ \A q \in Runs \ {r} : at'[q] = at[q]
        /\ at[r] \in Past => at'[r] \in Past
    BY <1>2 DEF TypeOK, EndStep, Refuse, LastWriteFails, Panic
  <2> QED
    BY <1>0, <2>1, <2>2 DEF Heralded
<1>3. ASSUME NEW r \in Runs, ClientStep(r) PROVE Heralded'
  <2>1. heralds' = heralds /\ \A q \in heralds : at'[q] = at[q]
    BY <1>0, <1>3, ClientsWriteNothing
  <2>2. \A q \in Runs : told'[q] = "handle" => q \in heralds
    <3>0. DOMAIN told = Runs
      BY DEF TypeOK
    <3>1. CASE HearStarted(r)
      BY <1>0, <3>0, <3>1 DEF HearStarted, Hears, Announced
    <3>2. CASE WaitRunsOut(r) \/ LookForResult(r) \/ HearNothing(r)
      BY <1>0, <3>0, <3>2 DEF WaitRunsOut, LookForResult, HearNothing, Hears
    <3>3. CASE Start(r) \/ RefuseDetach(r) \/ Snapshot(r) \/ Spawn(r) \/ Poll(r) \/ PollExpires(r)
      BY <1>0, <3>0, <3>3 DEF Start, RefuseDetach, Snapshot, Spawn, Poll, PollExpires, Hears
    <3> QED
      BY <1>3, <3>1, <3>2, <3>3 DEF ClientStep, StartStep, DetachStep
  <2> QED
    BY <1>0, <2>1, <2>2 DEF Heralded
<1>4. ASSUME NEW p \in Pids, Crash(p) PROVE Heralded'
  <2>1. heralds' = heralds
    BY <1>4 DEF Crash
  <2>2. \A q \in Runs : at'[q] \in {at[q], "crashed"}
    BY <1>4 DEF TypeOK, Crash
  <2>3. \A q \in Runs : told'[q] = "handle" => told[q] = "handle"
    BY <1>4 DEF TypeOK, Crash
  <2> QED
    BY <1>0, <2>1, <2>2, <2>3 DEF Heralded
<1>5. CASE Tick \/ UNCHANGED vars
  BY <1>5 DEF Tick, vars, Heralded
<1> QED
  BY <1>1, <1>2, <1>3, <1>4, <1>5, StepKinds DEF Quiet

LEMMA HistoryKept ==
    ASSUME TypeOK, Asking, Pen, Authored, HistoryTellsTheTruth, [Next]_vars
    PROVE  HistoryTellsTheTruth'
<1> SUFFICES ASSUME NEW i \in Ids, ~Shared(i)', record'[i] \in Codes
             PROVE  stream'[i] = record'[i]
  BY DEF HistoryTellsTheTruth, Codes
<1>0. ~Shared(i) /\ record[i] \in Codes => stream[i] = record[i]
  BY DEF HistoryTellsTheTruth
<1>1. CASE Quiet
  BY <1>0, <1>1, QuietWritesNothing DEF Shared
<1>2. ASSUME NEW r \in Runs, StageStep(r)
      PROVE  stream'[i] = record'[i]
  <2>1. ~Shared(i)
    <3>1. NoId \notin Ids
      BY DEF NoId, Ids
    <3>2. \A q \in Runs : id[q] = i => id'[q] = i
      BY <1>2, <3>1, StagesInOrder DEF Asking
    <3> QED
      BY <3>2 DEF Shared
  <2>2. CASE Mint(r) \/ Announce(r) \/ Serve(r) \/ Return(r)
    BY <1>0, <2>1, <2>2 DEF Mint, Announce, Serve, Return, disk
  <2>3. CASE Claim(r)
    <3>1. record' = record /\ id[r] \in Ids /\ \A j \in Ids \ {id[r]} : stream'[j] = stream[j]
      BY <1>2, <2>3, StagesInOrder DEF Claim, TypeOK
    <3>2. i # id[r]
      <4>1. PICK q \in Begun : id[q] = i
        BY <3>1 DEF Authored, Codes
      <4>2. q # r
        BY <2>3, <4>1 DEF Claim, Begun
      <4> QED
        BY <2>1, <4>1, <4>2 DEF Shared, Begun
    <3> QED
      BY <1>0, <2>1, <3>1, <3>2
  <2>4. CASE Truncate(r)
    BY <1>0, <2>1, <2>4 DEF Truncate, TypeOK, Codes
  <2>5. CASE Fill(r)
    <3>1. stream' = stream /\ record' = [record EXCEPT ![id[r]] = Written(r)]
      BY <2>5 DEF Fill
    <3>2. CASE i # id[r]
      BY <1>0, <2>1, <3>1, <3>2 DEF TypeOK
    <3>3. CASE i = id[r]
      <4>1. Written(r) \in Codes
        BY <3>1, <3>3 DEF TypeOK
      <4>2. at[r] = "finishing" /\ Written(r) = code[r]
        BY <2>5, <4>1 DEF Fill, Written, Codes
      <4>3. stream[i] = code[r]
        BY <3>3, <4>2 DEF Pen, PenOf
      <4> QED
        BY <3>1, <3>3, <4>2, <4>3 DEF TypeOK
    <3> QED
      BY <3>2, <3>3
  <2>6. CASE Begin(r) \/ PublishSettled(r)
    <3>1. record[id[r]] = "full"
      BY <2>6 DEF Begin, PublishSettled, Pen, PenOf
    <3>2. record' = record /\ \A j \in Ids \ {id[r]} : stream'[j] = stream[j]
      BY <2>6 DEF Begin, PublishSettled, TypeOK
    <3> QED
      BY <1>0, <2>1, <3>1, <3>2 DEF Codes
  <2> QED
    BY <1>2, <2>2, <2>3, <2>4, <2>5, <2>6 DEF StageStep
<1> QED
  BY <1>1, <1>2, StepKinds

-----------------------------------------------------------------------------
(* The invariant holds in every state of every set of runs.                 *)
LEMMA DirectoryInvHolds == SafeSpec => []DirectoryInv
<1>1. Init => DirectoryInv
  BY RunsAssumption DEF Init, DirectoryInv, TypeOK, Asking, Locked, Holds, Pen, PenOf, Authored, Begun,
     Heralded, HistoryTellsTheTruth, Shared, Stages, Working, Ended, Detaching, Codes, Ids, NoId
<1>2. DirectoryInv /\ [Next]_vars => DirectoryInv'
  BY TypesKept, AskingKept, LockedKept, PenKept, AuthoredKept, HeraldedKept, HistoryKept
     DEF DirectoryInv
<1> QED
  BY <1>1, <1>2, PTL DEF SafeSpec

(* A run that history shows with an exit code settled with that code on its *)
(* own stream, for any number of runs, detached or of one host, and however *)
(* long they take (run.rs run_announcing, write_record).                    *)
THEOREM HistoryTellsTheTruthHolds == SafeSpec => []HistoryTellsTheTruth
<1>1. DirectoryInv => HistoryTellsTheTruth
  BY DEF DirectoryInv
<1> QED
  BY <1>1, DirectoryInvHolds, PTL

(* No two runs work in one directory, and a handle names a run that was not *)
(* refused and whose record can be read while its graph is at work          *)
(* (Owned::claim, run_announcing's announcement after its last refusal).    *)
THEOREM HandleFindsItsRunHolds == SafeSpec => []HandleFindsItsRun
<1>1. DirectoryInv => HandleFindsItsRun
  <2> SUFFICES ASSUME DirectoryInv PROVE HandleFindsItsRun
    OBVIOUS
  <2>1. \A r, q \in Runs : Holds(r) /\ Holds(q) /\ id[r] = id[q] => r = q
    BY DEF DirectoryInv, Locked
  <2>2. ASSUME NEW s \in Runs, told[s] = "handle"
        PROVE  /\ at[s] # "refused"
               /\ at[s] \in Live => record[id[s]] = "full" /\ owner[id[s]] = s
    <3>1. s \in heralds
      BY <2>2 DEF DirectoryInv, Heralded
    <3>2. at[s] # "refused"
      BY <3>1 DEF DirectoryInv, Heralded
    <3>3. at[s] \in Live => record[id[s]] = "full"
      BY DEF DirectoryInv, Pen, PenOf, Live
    <3>4. at[s] \in Live => owner[id[s]] = s
      BY DEF DirectoryInv, Locked, Holds, Working, Live
    <3> QED
      BY <3>2, <3>3, <3>4
  <2> QED
    BY <2>1, <2>2 DEF HandleFindsItsRun
<1> QED
  BY <1>1, DirectoryInvHolds, PTL

-----------------------------------------------------------------------------
(* The smoke.                                                               *)

(* What the last launch answered bears out what was paid: a report is one   *)
(* of Reports, and one that records candidates of whom none was paid left   *)
(* the launch unpaid, as did a program that could not be started.           *)
Answered ==
    /\ report.answer = "report" =>
         /\ report \in Reports
         /\ Len(report.results) > 0 /\ ~Paid(report) => charged = {}
    /\ report.answer = "not started" => charged = {}

(* PaysOnce is not inductive: it does not say that a launch made again      *)
(* follows launches that were all unpaid, nor that a verdict was read from  *)
(* the last report.                                                         *)
SmokeInv ==
    /\ stage \in {"claim", "worktree", "launch", "answered", "done"}
    /\ stage \in {"claim", "worktree", "launch"} => charged = {}
    /\ stage # "done" => verdict = NoVerdict
    /\ stage = "answered" => Answered
    /\ PaysOnce

-----------------------------------------------------------------------------
(* A report's candidates are records.                                       *)
LEMMA ReportsRecord ==
    ASSUME NEW r \in Reports
    PROVE  /\ r.results \in Seq(Records)
           /\ r.past \in Nat /\ r.past <= Len(r.results)
           /\ r.answer = "report"
<1>1. PICK n \in 0 .. Chain : r.results \in [1 .. n -> Records]
  BY DEF Reports
<1>2. r.results \in Seq(Records)
  BY <1>1, SmokeAssumption
<1> QED
  BY <1>2, SmokeAssumption DEF Reports

(* SpentNothing is proof: a report it accepts records nobody who was paid.  *)
LEMMA SpentNothingIsProof ==
    ASSUME NEW r \in Reports, SpentNothing(r)
    PROVE  Len(r.results) > 0 /\ ~Paid(r)
<1>1. r.results \in Seq(Records) /\ r.results # <<>>
  BY ReportsRecord DEF SpentNothing
<1>2. ASSUME NEW i \in 1 .. Len(r.results) PROVE ~r.results[i].paid
  <2>1. r.results[i] \in Records
    BY <1>1
  <2>2. r.results[i].class = "none" /\ r.results[i].usage \in {"absent", "free"}
    BY DEF SpentNothing
  <2> QED
    BY <2>1, <2>2 DEF Records
<1> QED
  BY <1>1, <1>2 DEF Paid

(* A report that passes stepped past nobody who was paid.                   *)
LEMMA PassesPastTheUnpaid ==
    ASSUME NEW r \in Reports, Passes(r)
    PROVE  \A i \in 1 .. r.past : ~r.results[i].paid
<1> SUFFICES ASSUME NEW i \in 1 .. r.past PROVE ~r.results[i].paid
  OBVIOUS
<1>1. i \in 1 .. Len(r.results) /\ r.results[i] \in Records
  BY ReportsRecord
<1>2. r.results[i].class \in FallThroughs
  BY DEF Passes
<1> QED
  BY <1>1, <1>2 DEF Records

(* A launch that may be made again was not paid for.                        *)
LEMMA FreeIsUnpaid ==
    ASSUME Answered, Refusal.free
    PROVE  charged = {}
<1>1. CASE report.answer = "report"
  <2>1. SpentNothing(report) /\ report \in Reports
    BY <1>1 DEF Refusal, Answered
  <2> QED
    BY <1>1, <2>1, SpentNothingIsProof DEF Answered
<1>2. CASE report.answer # "report"
  BY <1>2 DEF Refusal, Answered
<1> QED
  BY <1>1, <1>2

-----------------------------------------------------------------------------
(* Nobody passes, or is said to have spent nothing, before there is a       *)
(* verdict, nor where a directory was refused.                              *)
LEMMA NothingSaid ==
    ASSUME NEW v, NEW n,
           \/ v = NoVerdict
           \/ v = [exit |-> "invalid config", attempts |-> n, free |-> FALSE]
    PROVE  ~v.free /\ v.exit # "success"
<1>1. v = NoVerdict => ~v.free /\ v.exit # "success"
  <2>1. NoVerdict.free = FALSE /\ NoVerdict.exit = "none"
    BY Zenon DEF NoVerdict
  <2> QED
    BY <2>1
<1>2. ASSUME v = [exit |-> "invalid config", attempts |-> n, free |-> FALSE]
      PROVE  ~v.free /\ v.exit # "success"
  <2>1. v.free = FALSE /\ v.exit = "invalid config"
    BY <1>2, Zenon
  <2> QED
    BY <2>1
<1> QED
  BY <1>1, <1>2

LEMMA SmokeInvInit == SmokeInit => SmokeInv
BY DEF SmokeInit, SmokeInv, PaysOnce, NoVerdict

LEMMA SmokeInvStep == SmokeInv /\ [SmokeNext]_smokeVars => SmokeInv'
<1> SUFFICES ASSUME SmokeInv, [SmokeNext]_smokeVars PROVE SmokeInv'
  OBVIOUS
<1>1. CASE Place
  <2>1. ~verdict'.free /\ verdict'.exit # "success"
    BY <1>1, NothingSaid DEF Place, SmokeInv, Answers
  <2> QED
    BY <1>1, <2>1 DEF Place, SmokeInv, Answers, PaysOnce
<1>2. CASE EnsureGitWorktree
  <2>1. ~verdict'.free /\ verdict'.exit # "success"
    BY <1>2, NothingSaid DEF EnsureGitWorktree, SmokeInv, Answers
  <2> QED
    BY <1>2, <2>1 DEF EnsureGitWorktree, SmokeInv, Answers, PaysOnce
<1>3. CASE Launch
  <2>1. charged = {} /\ verdict = NoVerdict /\ verdict' = NoVerdict /\ attempt' = attempt
    BY <1>3 DEF Launch, SmokeInv
  <2>2. PaysOnce'
    BY <1>3, <2>1, NothingSaid DEF Launch, PaysOnce
  <2>3. Answered'
    <3>1. ASSUME NEW r \in Reports, report' = r,
                 \/ Paid(r) /\ charged' = charged \cup {attempt}
                 \/ ~Paid(r) /\ Len(r.results) > 0 /\ UNCHANGED charged
                 \/ r.results = <<>> /\ charged' \in {charged, charged \cup {attempt}}
          PROVE  Answered'
      <4>1. r.answer = "report" /\ r.results \in Seq(Records)
        BY ReportsRecord
      <4>2. ~Paid(r) /\ Len(r.results) > 0 => charged' = {}
        BY <2>1, <3>1, <4>1
      <4>3. Paid(report)' <=> Paid(r)
        BY <3>1 DEF Paid
      <4> QED
        BY <3>1, <4>1, <4>2, <4>3 DEF Answered
    <3>2. ASSUME NEW why \in {"not found", "not started"},
                 report' = Silence(why), UNCHANGED charged
          PROVE  Answered'
      BY <2>1, <3>2 DEF Answered, Silence
    <3>3. ASSUME report' = Silence("unreadable")
          PROVE  Answered'
      BY <3>3 DEF Answered, Silence
    <3> QED
      BY <1>3, <3>1, <3>2, <3>3 DEF Launch
  <2> QED
    BY <1>3, <2>1, <2>2, <2>3 DEF Launch, SmokeInv
<1>4. CASE Accept
  <2>1. Answered /\ charged \subseteq {attempt}
    BY <1>4 DEF Accept, SmokeInv, PaysOnce
  <2>2. report \in Reports /\ report.success /\ report.ran /\ Passes(report)
    BY <1>4, <2>1 DEF Accept, Accepted, Answered, Passes
  <2>3. \A i \in 1 .. report.past : ~report.results[i].paid
    BY <2>2, PassesPastTheUnpaid
  <2> QED
    BY <1>4, <2>1, <2>2, <2>3 DEF Accept, Answers, SmokeInv, PaysOnce
<1>5. CASE Relaunch
  <2>1. charged = {}
    BY <1>5, FreeIsUnpaid DEF Relaunch, SmokeInv
  <2>2. verdict = NoVerdict
    BY <1>5 DEF Relaunch, SmokeInv
  <2> QED
    BY <1>5, <2>1, <2>2 DEF Relaunch, SmokeInv, PaysOnce, NoVerdict
<1>6. CASE GiveUpSmoke
  <2>1. Refusal.free => charged = {}
    BY <1>6, FreeIsUnpaid DEF GiveUpSmoke, SmokeInv
  <2>2. Refusal.exit \in {"member failed", "invalid config"}
    BY DEF Refusal
  <2> QED
    BY <1>6, <2>1, <2>2 DEF GiveUpSmoke, Answers, SmokeInv, PaysOnce
<1>7. CASE UNCHANGED smokeVars
  BY <1>7 DEF smokeVars, SmokeInv, PaysOnce, Answered, Paid
<1> QED
  BY <1>1, <1>2, <1>3, <1>4, <1>5, <1>6, <1>7 DEF SmokeNext

(* A smoke pays once: whatever its launches answer, for chains of any       *)
(* length, at most the last was paid for, one that says nothing was spent   *)
(* is right, and one that passes ran its turn (smoke.rs once,               *)
(* spent_nothing, judge_report).                                            *)
THEOREM PaysOnceHolds == SmokeSpec => []PaysOnce
<1>1. SmokeInv => PaysOnce
  BY DEF SmokeInv
<1> QED
  BY SmokeInvInit, SmokeInvStep, <1>1, PTL DEF SmokeSpec

-----------------------------------------------------------------------------
(* A view: what its program printed.                                        *)

Spelling == Bytes \cup {"<", "v", "&lt;", "truncated", "unavailable"}

(* A bounded set of naturals has the greatest that Max chooses: it is as    *)
(* far from the bound as any.                                               *)
LEMMA GreatestElement ==
    ASSUME NEW L \in Nat, NEW T \in SUBSET (0 .. L), T # {}
    PROVE  Max(T) \in T /\ \A y \in T : y <= Max(T)
<1> DEFINE Gaps == {L - n : n \in T}
<1>1. Gaps \in SUBSET Nat /\ Gaps # {}
  <2>1. \A n \in T : L - n \in Nat
    OBVIOUS
  <2> QED
    BY <2>1
<1>2. PICK g \in Gaps : \A k \in Gaps : g <= k
  <2> HIDE DEF Gaps
  <2> QED
    BY <1>1, LeastElement
<1>3. PICK m \in T : g = L - m
  OBVIOUS
<1>4. ASSUME NEW y \in T PROVE y <= m
  <2>1. L - y \in Gaps
    OBVIOUS
  <2>2. L - m <= L - y
    BY <1>2, <1>3, <2>1
  <2> QED
    BY <2>2
<1> QED
  BY <1>4 DEF Max

(* What is kept of a pipe is a prefix of it that fits and decodes, and all  *)
(* of it when it fits and decodes as it stands.                             *)
LEMMA HeadIsAPrefix ==
    ASSUME NEW bytes \in Seq(Spelling)
    PROVE  /\ Head16K(bytes) \in Seq(Spelling)
           /\ Len(Head16K(bytes)) <= Keep /\ Len(Head16K(bytes)) <= Len(bytes)
           /\ \A i \in 1 .. Len(Head16K(bytes)) : Head16K(bytes)[i] = bytes[i]
           /\ Len(bytes) <= Keep => Head16K(bytes) = bytes
<1>1. Keep \in Nat
  BY PreTurnViewAssumption
<1> DEFINE cut == IF Len(bytes) < Keep THEN Len(bytes) ELSE Keep
<1>2. cut \in Nat /\ cut <= Keep /\ cut <= Len(bytes) /\ (Len(bytes) <= Keep => cut = Len(bytes))
  BY <1>1
<1> HIDE DEF cut
<1>3. Head16K(bytes) = SubSeq(bytes, 1, cut)
  BY DEF Head16K, cut
<1> QED
  BY <1>1, <1>2, <1>3

LEMMA DecodedIsAPrefix ==
    ASSUME NEW bytes \in Seq(Spelling)
    PROVE  /\ Decoded(bytes) \in Seq(Spelling)
           /\ Len(Decoded(bytes)) <= Len(bytes)
           /\ \A i \in 1 .. Len(Decoded(bytes)) : Decoded(bytes)[i] = bytes[i]
           /\ Decodes(Decoded(bytes))
           /\ Decodes(bytes) => Decoded(bytes) = bytes
<1> DEFINE T == {n \in 0 .. Len(bytes) : Decodes(SubSeq(bytes, 1, n))}
<1>1. 0 \in T
  <2>1. Len(SubSeq(bytes, 1, 0)) = 0
    OBVIOUS
  <2>2. Decodes(SubSeq(bytes, 1, 0))
    BY <2>1 DEF Decodes
  <2> QED
    BY <2>2
<1>2. PICK m : m = Max(T)
  OBVIOUS
<1>3. m \in T /\ \A y \in T : y <= m
  <2>1. T \in SUBSET (0 .. Len(bytes)) /\ T # {} /\ Len(bytes) \in Nat
    BY <1>1
  <2> HIDE DEF T
  <2> QED
    BY <1>2, <2>1, GreatestElement
<1>4. Decoded(bytes) = SubSeq(bytes, 1, m)
  BY <1>2 DEF Decoded
<1>5. Decodes(SubSeq(bytes, 1, m)) /\ m \in 0 .. Len(bytes)
  BY <1>3
<1>6. ASSUME Decodes(bytes) PROVE m = Len(bytes)
  <2>1. SubSeq(bytes, 1, Len(bytes)) = bytes
    OBVIOUS
  <2>2. Decodes(SubSeq(bytes, 1, Len(bytes)))
    BY <1>6, <2>1, Zenon
  <2>3. Len(bytes) \in 0 .. Len(bytes)
    OBVIOUS
  <2>4. Len(bytes) \in T
    BY <2>2, <2>3
  <2> HIDE DEF T
  <2>5. Len(bytes) <= m
    BY <1>3, <2>4
  <2> QED
    BY <1>5, <2>5
<1>7. Decodes(Decoded(bytes))
  BY <1>4, <1>5
<1> HIDE DEF T
<1>8. Decodes(bytes) => Decoded(bytes) = bytes
  BY <1>4, <1>6
<1>9. /\ Decoded(bytes) \in Seq(Spelling)
      /\ Len(Decoded(bytes)) <= Len(bytes)
      /\ \A i \in 1 .. Len(Decoded(bytes)) : Decoded(bytes)[i] = bytes[i]
  BY <1>4, <1>5
<1> QED
  BY <1>7, <1>8, <1>9

LEMMA DrainedIsAPrefix ==
    ASSUME NEW p \in Pipes, said[p] \in Seq(Spelling)
    PROVE  /\ Drained(p) \in Seq(Spelling)
           /\ IsPrefix(Drained(p), said[p])
           /\ Len(Drained(p)) <= Keep
           /\ Decodes(Drained(p))
           /\ Len(said[p]) <= Keep /\ Decodes(said[p]) => Drained(p) = said[p]
<1>1. Keep \in Nat
  BY PreTurnViewAssumption
<1>2. PICK bytes : bytes = said[p]
  OBVIOUS
<1>3. bytes \in Seq(Spelling)
  BY <1>2
<1>4. PICK head : head = Head16K(bytes)
  OBVIOUS
<1>5. /\ head \in Seq(Spelling) /\ Len(head) <= Keep /\ Len(head) <= Len(bytes)
      /\ \A i \in 1 .. Len(head) : head[i] = bytes[i]
      /\ Len(bytes) <= Keep => head = bytes
  BY <1>3, <1>4, HeadIsAPrefix
<1>6. PICK kept : kept = Decoded(head)
  OBVIOUS
<1>7. /\ kept \in Seq(Spelling) /\ Len(kept) <= Len(head)
      /\ \A i \in 1 .. Len(kept) : kept[i] = head[i]
      /\ Decodes(kept)
      /\ Decodes(head) => kept = head
  BY <1>5, <1>6, DecodedIsAPrefix
<1>8. Drained(p) = kept
  BY <1>2, <1>4, <1>6 DEF Drained
<1>9. Len(kept) <= Keep /\ Len(kept) <= Len(bytes)
      /\ \A i \in 1 .. Len(kept) : kept[i] = bytes[i]
  <2>1. Len(kept) \in Nat /\ Len(head) \in Nat /\ Len(bytes) \in Nat
    BY <1>3, <1>5, <1>7
  <2>2. Len(kept) <= Keep /\ Len(kept) <= Len(bytes)
    BY <1>1, <1>5, <1>7, <2>1
  <2>3. \A i \in 1 .. Len(kept) : i \in 1 .. Len(head)
    BY <1>7, <2>1
  <2> QED
    BY <1>5, <1>7, <2>2, <2>3
<1>10. IsPrefix(kept, bytes)
  <2>1. SubSeq(kept, 1, Len(kept)) = SubSeq(bytes, 1, Len(kept))
    BY <1>3, <1>7, <1>9
  <2> QED
    BY <1>9, <2>1 DEF IsPrefix
<1>11. Len(bytes) <= Keep /\ Decodes(bytes) => kept = bytes
  BY <1>5, <1>7
<1> QED
  BY <1>2, <1>7, <1>8, <1>9, <1>10, <1>11

(* Where an element opens or closes. *)
LEMMA FramesAt ==
    ASSUME NEW text \in Seq(Spelling), NEW i \in 1 .. Len(text)
    PROVE  Frames(text, i) <=> i < Len(text) /\ text[i] = "<" /\ text[i + 1] \in {"v", "V"}
<1>1. ASSUME i < Len(text)
      PROVE  SubSeq(text, i, i + 1) \in Framing <=> text[i] = "<" /\ text[i + 1] \in {"v", "V"}
  <2>1. SubSeq(text, i, i + 1) = <<text[i], text[i + 1]>>
    <3>1. i \in Nat /\ i + 1 \in 1 .. Len(text)
      BY <1>1
    <3>2. SubSeq(text, i, i + 1) = [k \in 1 .. 2 |-> text[i + k - 1]]
      BY <3>1
    <3>3. <<text[i], text[i + 1]>> = [k \in 1 .. 2 |-> text[i + k - 1]]
      BY <3>1
    <3> QED
      BY <3>2, <3>3
  <2> QED
    BY <2>1 DEF Framing
<1> QED
  BY <1>1 DEF Frames

LEMMA JoinOf ==
    ASSUME NEW a \in Seq(Spelling), NEW b \in Seq(Spelling)
    PROVE  /\ a \o b \in Seq(Spelling) /\ Len(a \o b) = Len(a) + Len(b)
           /\ \A i \in 1 .. Len(a) : (a \o b)[i] = a[i]
           /\ \A i \in 1 .. Len(b) : (a \o b)[Len(a) + i] = b[i]
OBVIOUS

LEMMA Spelled ==
    /\ "<" \in Spelling /\ "v" \in Spelling /\ "&lt;" \in Spelling
    /\ "truncated" \in Spelling /\ "unavailable" \in Spelling
BY DEF Spelling

LEMMA SequenceOfOne ==
    ASSUME NEW S, NEW a \in S, NEW s, s = <<a>>
    PROVE  s \in Seq(S) /\ Len(s) = 1 /\ s[1] = a
OBVIOUS

LEMMA SequenceOfTwo ==
    ASSUME NEW S, NEW a \in S, NEW b \in S, NEW s, s = <<a, b>>
    PROVE  s \in Seq(S) /\ Len(s) = 2 /\ s[1] = a /\ s[2] = b
OBVIOUS

(* What is contained in an element opens and closes none.                   *)
LEMMA ContainedFramesNothing ==
    ASSUME NEW text \in Seq(Spelling)
    PROVE  /\ Contained(text) \in Seq(Spelling) /\ Len(Contained(text)) = Len(text)
           /\ \A i \in 1 .. Len(text) :
                  i < Len(text) => Contained(text)[i] # "<" \/ Contained(text)[i + 1] \notin {"v", "V"}
<1>1. Contained(text) \in Seq(Spelling) /\ Len(Contained(text)) = Len(text)
  <2>1. \A i \in 1 .. Len(text) : (IF Frames(text, i) THEN "&lt;" ELSE text[i]) \in Spelling
    <3>1. \A i \in 1 .. Len(text) : text[i] \in Spelling
      OBVIOUS
    <3> QED
      BY <3>1, Spelled, Zenon
  <2>2. Contained(text) \in [1 .. Len(text) -> Spelling] /\ Len(text) \in Nat
    <3>1. Contained(text) \in [1 .. Len(text) -> Spelling]
      BY <2>1, Zenon DEF Contained
    <3> QED
      BY <3>1
  <2> QED
    BY <2>2
<1>2. ASSUME NEW i \in 1 .. Len(text), i < Len(text),
             Contained(text)[i] = "<", Contained(text)[i + 1] \in {"v", "V"}
      PROVE  FALSE
  <2>1. i + 1 \in 1 .. Len(text)
    BY <1>2
  <2>2. ~Frames(text, i) /\ text[i] = "<"
    BY <1>2 DEF Contained
  <2>3. text[i + 1] \in {"v", "V"}
    BY <1>2, <2>1 DEF Contained
  <2> QED
    BY <1>2, <2>2, <2>3, FramesAt
<1> QED
  BY <1>1, <1>2

(* The element of a view opens once, and closes once when it has a text.    *)
LEMMA ElementIsOne ==
    ASSUME NEW view, view.text \in Seq(Spelling), view.truncated \in BOOLEAN
    PROVE  LET element == Element(view)
               frames == {i \in 1 .. Len(element) : Frames(element, i)}
           IN  Cardinality(frames) = IF view.outcome = "captured" THEN 2 ELSE 1
<1> DEFINE mark == IF view.truncated THEN <<"truncated">> ELSE <<>>
           element == Element(view)
           frames == {i \in 1 .. Len(element) : Frames(element, i)}
<1>1. PICK mark0 : mark0 = mark
  OBVIOUS
<1>2. /\ mark0 \in Seq(Spelling)
      /\ Len(mark0) = 0 \/ (Len(mark0) = 1 /\ mark0[1] = "truncated")
  <2>1. mark0 = <<"truncated">> \/ mark0 = <<>>
    BY <1>1, Zenon
  <2>2. ASSUME mark0 = <<"truncated">>
        PROVE  mark0 \in Seq(Spelling) /\ Len(mark0) = 1 /\ mark0[1] = "truncated"
    BY <2>2, Spelled, SequenceOfOne, Zenon
  <2>3. ASSUME mark0 = <<>>
        PROVE  mark0 \in Seq(Spelling) /\ Len(mark0) = 0
    BY <2>3
  <2> QED
    BY <2>1, <2>2, <2>3
<1>3. PICK n : n = Len(mark0)
  OBVIOUS
<1>4. CASE view.outcome = "captured"
  <2>1. PICK inner : inner = Contained(view.text)
    OBVIOUS
  <2>2. PICK m : m = Len(inner)
    OBVIOUS
  <2>3. /\ inner \in Seq(Spelling) /\ m \in Nat
        /\ \A i \in 1 .. m : i < m => inner[i] # "<" \/ inner[i + 1] \notin {"v", "V"}
    BY <2>1, <2>2, ContainedFramesNothing
  <2>4. PICK e : e = <<"<", "v">> \o mark0 \o (inner \o <<"<", "v">>)
    OBVIOUS
  <2>5. Element(view) = e
    BY <1>1, <1>4, <2>1, <2>4 DEF Element
  <2>6. n \in {0, 1}
    BY <1>2, <1>3
  <2>7. PICK closed : closed = inner \o <<"<", "v">>
    OBVIOUS
  <2>8. /\ closed \in Seq(Spelling) /\ Len(closed) = m + 2
        /\ \A i \in 1 .. m : closed[i] = inner[i]
        /\ closed[m + 1] = "<" /\ closed[m + 2] = "v"
    <3>1. PICK tag : tag = <<"<", "v">>
      OBVIOUS
    <3>2. tag \in Seq(Spelling) /\ Len(tag) = 2 /\ tag[1] = "<" /\ tag[2] = "v"
      BY <3>1, Spelled, SequenceOfTwo, Zenon
    <3>3. /\ closed \in Seq(Spelling) /\ Len(closed) = Len(inner) + 2
          /\ \A i \in 1 .. Len(inner) : closed[i] = inner[i]
          /\ \A i \in 1 .. Len(tag) : closed[Len(inner) + i] = tag[i]
      BY <2>3, <2>7, <3>1, <3>2, JoinOf
    <3>4. closed[m + 1] = tag[1] /\ closed[m + 2] = tag[2]
      BY <2>2, <3>2, <3>3
    <3> QED
      BY <2>2, <3>2, <3>3, <3>4
  <2>9. PICK opened : opened = <<"<", "v">> \o mark0
    OBVIOUS
  <2>10. /\ opened \in Seq(Spelling) /\ Len(opened) = n + 2
         /\ opened[1] = "<" /\ opened[2] = "v"
         /\ n = 1 => opened[3] = "truncated"
    <3>1. PICK tag : tag = <<"<", "v">>
      OBVIOUS
    <3>2. tag \in Seq(Spelling) /\ Len(tag) = 2 /\ tag[1] = "<" /\ tag[2] = "v"
      BY <3>1, Spelled, SequenceOfTwo, Zenon
    <3>3. /\ opened \in Seq(Spelling) /\ Len(opened) = 2 + n
          /\ \A i \in 1 .. Len(tag) : opened[i] = tag[i]
          /\ \A i \in 1 .. Len(mark0) : opened[Len(tag) + i] = mark0[i]
      BY <1>2, <1>3, <2>9, <3>1, <3>2, JoinOf
    <3>4. opened[1] = tag[1] /\ opened[2] = tag[2]
      BY <3>2, <3>3
    <3>5. n = 1 => opened[2 + 1] = mark0[1]
      BY <1>3, <3>2, <3>3
    <3>6. n = 1 => opened[3] = "truncated"
      BY <1>2, <1>3, <3>5
    <3> QED
      BY <2>6, <3>2, <3>3, <3>4, <3>6
  <2>11. e = opened \o closed
    BY <2>4, <2>7, <2>9
  <2>12. /\ e \in Seq(Spelling) /\ Len(e) = n + m + 4
         /\ \A i \in 1 .. n + 2 : e[i] = opened[i]
         /\ \A i \in 1 .. m + 2 : e[n + 2 + i] = closed[i]
    <3>1. /\ e \in Seq(Spelling) /\ Len(e) = Len(opened) + Len(closed)
          /\ \A i \in 1 .. Len(opened) : e[i] = opened[i]
          /\ \A i \in 1 .. Len(closed) : e[Len(opened) + i] = closed[i]
      <4>1. opened \in Seq(Spelling) /\ closed \in Seq(Spelling)
        BY <2>8, <2>10
      <4> QED
        BY <2>11, <4>1, JoinOf, Zenon
    <3>2. Len(opened) = n + 2 /\ Len(closed) = m + 2
      BY <2>8, <2>10
    <3>3. (n + 2) + (m + 2) = n + m + 4
      BY <2>3, <2>6
    <3> QED
      BY <3>1, <3>2, <3>3
  <2>13. \A i \in 1 .. Len(e) : Frames(e, i) <=> i < Len(e) /\ e[i] = "<" /\ e[i + 1] \in {"v", "V"}
    BY <2>12, FramesAt
  <2>14. ASSUME NEW i \in 1 .. Len(e), i < Len(e), e[i] = "<", e[i + 1] \in {"v", "V"}
         PROVE  i \in {1, n + m + 3}
    <3>1. CASE i \in 1 .. n + 2
      <4>1. i # 2 /\ i # 3
        BY <2>6, <2>10, <2>12, <2>14, <3>1
      <4> QED
        BY <2>6, <3>1, <4>1
    <3>2. CASE i \notin 1 .. n + 2
      <4>1. PICK k \in 1 .. m + 2 : i = n + 2 + k
        <5>1. i - n - 2 \in 1 .. m + 2 /\ i = n + 2 + (i - n - 2)
          BY <2>3, <2>6, <2>12, <3>2
        <5> QED
          BY <5>1
      <4>2. closed[k] = "<"
        BY <2>12, <2>14, <4>1
      <4>3. k < m + 2
        BY <2>3, <2>6, <2>12, <2>14, <4>1
      <4>4. closed[k + 1] \in {"v", "V"}
        <5>1. k + 1 \in 1 .. m + 2 /\ i + 1 = n + 2 + (k + 1)
          BY <2>3, <2>6, <4>1, <4>3
        <5> QED
          BY <2>12, <2>14, <5>1
      <4>5. ~(k \in 1 .. m /\ k < m)
        <5> SUFFICES ASSUME k \in 1 .. m, k < m PROVE FALSE
          OBVIOUS
        <5>1. k + 1 \in 1 .. m
          BY <2>3
        <5>2. inner[k] = "<" /\ inner[k + 1] \in {"v", "V"}
          BY <2>8, <4>2, <4>4, <5>1
        <5> QED
          BY <2>3, <5>2
      <4>6. ~(k \in 1 .. m /\ k = m)
        <5> SUFFICES ASSUME k \in 1 .. m, k = m PROVE FALSE
          OBVIOUS
        <5> QED
          BY <2>8, <4>4
      <4>7. k = m + 1
        BY <2>3, <4>3, <4>5, <4>6
      <4> QED
        BY <2>3, <2>6, <4>1, <4>7
    <3> QED
      BY <3>1, <3>2
  <2>15. 1 < Len(e) /\ e[1] = "<" /\ e[1 + 1] \in {"v", "V"}
    BY <2>3, <2>6, <2>10, <2>12
  <2>16. n + m + 3 \in 1 .. Len(e) /\ n + m + 3 < Len(e)
         /\ e[n + m + 3] = "<" /\ e[(n + m + 3) + 1] \in {"v", "V"}
    <3>1. /\ n + m + 3 = n + 2 + (m + 1) /\ (n + m + 3) + 1 = n + 2 + (m + 2)
          /\ m + 1 \in 1 .. m + 2 /\ m + 2 \in 1 .. m + 2
      BY <2>3, <2>6
    <3>2. e[n + 2 + (m + 1)] = "<" /\ e[n + 2 + (m + 2)] = "v"
      BY <2>8, <2>12, <3>1
    <3>3. e[n + m + 3] = "<" /\ e[(n + m + 3) + 1] = "v"
      BY <3>1, <3>2
    <3> QED
      BY <2>3, <2>6, <2>12, <3>3
  <2>17. {i \in 1 .. Len(e) : Frames(e, i)} = {1, n + m + 3}
    <3>1. 1 \in 1 .. Len(e)
      BY <2>3, <2>6, <2>12
    <3> QED
      BY <2>13, <2>14, <2>15, <2>16, <3>1
  <2>18. Cardinality({1, n + m + 3}) = 2
    <3>1. n + m + 3 \notin {1}
      BY <2>3, <2>6
    <3>2. {1, n + m + 3} = {1} \cup {n + m + 3}
      OBVIOUS
    <3>3. IsFiniteSet({1}) /\ Cardinality({1}) = 1
      BY FS_Singleton
    <3>4. Cardinality({1} \cup {n + m + 3}) = 1 + 1
      BY <3>1, <3>3, FS_AddElement
    <3>5. 1 + 1 = 2
      OBVIOUS
    <3> QED
      BY <3>2, <3>4, <3>5, Zenon
  <2> QED
    BY <1>4, <2>5, <2>17, <2>18
<1>5. CASE view.outcome # "captured"
  <2>1. PICK e : e = <<"<", "v">> \o mark0 \o <<"unavailable">>
    OBVIOUS
  <2>2. Element(view) = e
    BY <1>1, <1>5, <2>1 DEF Element
  <2>3. n \in {0, 1}
    BY <1>2, <1>3
  <2>4. PICK opened : opened = <<"<", "v">> \o mark0
    OBVIOUS
  <2>5. /\ opened \in Seq(Spelling) /\ Len(opened) = n + 2
        /\ opened[1] = "<" /\ opened[2] = "v"
        /\ n = 1 => opened[3] = "truncated"
    <3>1. PICK tag : tag = <<"<", "v">>
      OBVIOUS
    <3>2. tag \in Seq(Spelling) /\ Len(tag) = 2 /\ tag[1] = "<" /\ tag[2] = "v"
      BY <3>1, Spelled, SequenceOfTwo, Zenon
    <3>3. /\ opened \in Seq(Spelling) /\ Len(opened) = 2 + n
          /\ \A i \in 1 .. Len(tag) : opened[i] = tag[i]
          /\ \A i \in 1 .. Len(mark0) : opened[Len(tag) + i] = mark0[i]
      BY <1>2, <1>3, <2>4, <3>1, <3>2, JoinOf
    <3>4. opened[1] = tag[1] /\ opened[2] = tag[2]
      BY <3>2, <3>3
    <3>5. n = 1 => opened[2 + 1] = mark0[1]
      BY <1>3, <3>2, <3>3
    <3>6. n = 1 => opened[3] = "truncated"
      BY <1>2, <1>3, <3>5
    <3> QED
      BY <2>3, <3>2, <3>3, <3>4, <3>6
  <2>6. e = opened \o <<"unavailable">>
    BY <2>1, <2>4
  <2>7. /\ e \in Seq(Spelling) /\ Len(e) = n + 3
        /\ \A i \in 1 .. n + 2 : e[i] = opened[i]
        /\ e[n + 3] = "unavailable"
    <3>1. PICK tail : tail = <<"unavailable">>
      OBVIOUS
    <3>2. tail \in Seq(Spelling) /\ Len(tail) = 1 /\ tail[1] = "unavailable"
      BY <3>1, Spelled, SequenceOfOne, Zenon
    <3>3. /\ e \in Seq(Spelling) /\ Len(e) = Len(opened) + 1
          /\ \A i \in 1 .. Len(opened) : e[i] = opened[i]
          /\ \A i \in 1 .. Len(tail) : e[Len(opened) + i] = tail[i]
      BY <2>5, <2>6, <3>1, <3>2, JoinOf
    <3>4. e[Len(opened) + 1] = tail[1] /\ Len(opened) + 1 = n + 3
      BY <2>3, <2>5, <3>2, <3>3
    <3> QED
      BY <2>5, <3>2, <3>3, <3>4
  <2>8. \A i \in 1 .. Len(e) : Frames(e, i) <=> i < Len(e) /\ e[i] = "<" /\ e[i + 1] \in {"v", "V"}
    BY <2>7, FramesAt
  <2>9. ASSUME NEW i \in 1 .. Len(e), i < Len(e), e[i] = "<"
        PROVE  i = 1
    <3>1. i \in 1 .. n + 2 /\ (n = 0 => i \in {1, 2}) /\ (n = 1 => i \in {1, 2, 3})
      BY <2>3, <2>7, <2>9
    <3>2. opened[i] = "<"
      BY <2>7, <2>9, <3>1
    <3>3. i # 2
      BY <2>5, <3>2
    <3>4. n = 1 => i # 3
      BY <2>5, <3>2
    <3> QED
      BY <2>3, <3>1, <3>3, <3>4
  <2>10. 1 \in 1 .. Len(e) /\ 1 < Len(e) /\ e[1] = "<" /\ e[1 + 1] \in {"v", "V"}
    BY <2>3, <2>5, <2>7
  <2>11. {i \in 1 .. Len(e) : Frames(e, i)} = {1}
    BY <2>8, <2>9, <2>10
  <2>12. Cardinality({1}) = 1
    BY FS_Singleton
  <2> QED
    BY <1>5, <2>2, <2>11, <2>12
<1> QED
  BY <1>4, <1>5

(* What a view is at, at every step.                                        *)

Endings == {"exited 0", "exited 1", "killed"}

ViewTyped ==
    /\ script \in Seq(Pipes \X Bytes) /\ printed \in 0 .. Len(script)
    /\ said \in [Pipes -> Seq(Spelling)]
    /\ taken \in [Pipes -> Nat] /\ \A p \in Pipes : taken[p] <= Len(said[p])
    /\ holder \in BOOLEAN
    /\ program \in {"none", "running"} \cup Endings
    /\ drained \subseteq Pipes /\ truncated \subseteq Pipes
    /\ capture \in {"spawn", "waiting", "joining", "done"}
    /\ captured.text \in Seq(Spelling) /\ captured.truncated \in BOOLEAN

(* A drain has let bytes go when it has read more than is kept, and one     *)
(* that ended has read everything that will ever be said.                   *)
DrainsTell ==
    /\ \A p \in Pipes : p \in truncated <=> taken[p] > Keep
    /\ \A p \in drained : program \in Endings /\ ~holder /\ taken[p] = Len(said[p])

(* Only a command that ran to its end is joined.                            *)
Joining ==
    /\ capture = "spawn" => program = "none" /\ captured = NoView
    /\ capture = "waiting" => captured = NoView
    /\ capture = "joining" => program \in {"exited 0", "exited 1"} /\ captured = NoView
    /\ captured.outcome \in {"captured", "empty"} => capture = "done" /\ drained = Pipes

(* ViewIsWhatItPrinted is not inductive: it does not say what a drain that  *)
(* ended has read, nor that nothing more is said to it.                     *)
ViewInv == ViewTyped /\ DrainsTell /\ Joining /\ ViewIsWhatItPrinted

LEMMA NoTextOfAny ==
    /\ NoView.text \in Seq(Spelling) /\ NoView.truncated \in BOOLEAN
    /\ NoView.outcome \notin {"captured", "empty"}
BY DEF NoView, PreTurnContext

(* Of a view without a text there is only the element. *)
LEMMA NoTextNoDoubt ==
    ASSUME ViewTyped, captured.outcome \notin {"captured", "empty"}
    PROVE  ViewIsWhatItPrinted
<1>1. LET element == Element(captured)
          frames == {i \in 1 .. Len(element) : Frames(element, i)}
      IN  Cardinality(frames) = IF captured.outcome = "captured" THEN 2 ELSE 1
  BY ElementIsOne DEF ViewTyped
<1> QED
  BY <1>1 DEF ViewIsWhatItPrinted

LEMMA ViewReads ==
    ASSUME ViewTyped
    PROVE  \A p \in Pipes : /\ taken[p] \in Nat /\ said[p] \in Seq(Spelling)
                            /\ Len(said[p]) \in Nat /\ taken[p] <= Len(said[p])
<1>1. taken \in [Pipes -> Nat] /\ said \in [Pipes -> Seq(Spelling)]
      /\ \A p \in Pipes : taken[p] <= Len(said[p])
  BY DEF ViewTyped
<1>2. \A p \in Pipes : taken[p] \in Nat /\ said[p] \in Seq(Spelling)
  BY <1>1
<1>3. \A p \in Pipes : Len(said[p]) \in Nat
  BY <1>2
<1> QED
  BY <1>1, <1>2, <1>3, Zenon

LEMMA EmptyIsSpelled == <<>> \in Seq(Spelling)
OBVIOUS

LEMMA ViewTypedKept ==
    ASSUME ViewTyped, [ViewNext]_viewVars
    PROVE  ViewTyped'
<1>0. Keep \in Nat /\ Buffer \in Nat
  BY PreTurnViewAssumption
<1>a. \A p \in Pipes : /\ taken[p] \in Nat /\ said[p] \in Seq(Spelling)
                       /\ Len(said[p]) \in Nat /\ taken[p] <= Len(said[p])
  BY ViewReads
<1>b. /\ taken \in [Pipes -> Nat] /\ said \in [Pipes -> Seq(Spelling)]
      /\ truncated \subseteq Pipes /\ captured.text \in Seq(Spelling) /\ captured.truncated \in BOOLEAN
  BY DEF ViewTyped
<1>1. CASE Prints
  <2>1. printed' \in 0 .. Len(script) /\ printed' \in 1 .. Len(script)
    BY <1>1 DEF Prints, ViewTyped
  <2>2. PICK p : p = script[printed'][1]
    OBVIOUS
  <2>3. PICK b : b = script[printed'][2]
    OBVIOUS
  <2>4. p \in Pipes /\ b \in Spelling
    <3>1. PICK n : n = printed'
      OBVIOUS
    <3>2. script \in Seq(Pipes \X Bytes) /\ n \in 1 .. Len(script)
      BY <2>1, <3>1 DEF ViewTyped
    <3>3. script[n] \in Pipes \X Bytes
      BY <3>2
    <3>4. p = script[n][1] /\ b = script[n][2]
      BY <2>2, <2>3, <3>1
    <3>5. p \in Pipes /\ b \in Bytes
      BY <3>3, <3>4
    <3> QED
      BY <3>5 DEF Spelling
  <2>5. said' = [said EXCEPT ![p] = Append(@, b)]
    BY <1>1, <2>2, <2>3 DEF Prints
  <2>6. PICK line : line = Append(said[p], b)
    OBVIOUS
  <2>7. line \in Seq(Spelling) /\ Len(line) = Len(said[p]) + 1
    BY <1>a, <2>4, <2>6
  <2>8. said' = [said EXCEPT ![p] = line]
    BY <2>5, <2>6
  <2>9. said' \in [Pipes -> Seq(Spelling)]
    BY <1>b, <2>4, <2>7, <2>8, Zenon
  <2>10. said'[p] = line /\ \A q \in Pipes : q # p => said'[q] = said[q]
    BY <1>b, <2>4, <2>8, Zenon
  <2>11. taken[p] <= Len(said'[p])
    BY <1>a, <2>4, <2>7, <2>10
  <2>12. \A q \in Pipes : taken'[q] <= Len(said'[q])
    <3>1. taken' = taken
      BY <1>1 DEF Prints
    <3>2. ASSUME NEW q \in Pipes, q # p PROVE taken[q] <= Len(said'[q])
      BY <1>a, <2>10, <3>2, Zenon
    <3> QED
      BY <2>11, <3>1, <3>2, Zenon
  <2> QED
    BY <1>1, <2>1, <2>12, <2>9 DEF Prints, ViewTyped
<1>2. CASE Exits
  BY <1>2 DEF Exits, ViewTyped, Endings
<1>3. CASE LetsGo
  BY <1>3 DEF LetsGo, ViewTyped, Endings
<1>4. CASE Capture
  <2>1. captured' = captured \/ captured' = PreTurnContext("unspawnable", <<>>, FALSE)
    BY <1>4, Zenon DEF Capture, Captures
  <2>2. captured'.text \in Seq(Spelling) /\ captured'.truncated \in BOOLEAN
    <3>1. captured' = captured \/ (captured'.text = <<>> /\ captured'.truncated = FALSE)
      BY <2>1 DEF PreTurnContext
    <3> QED
      BY <1>b, <3>1, EmptyIsSpelled, Zenon
  <2> QED
    BY <1>4, <2>2 DEF Capture, Captures, ViewTyped
<1>5. CASE Reaped
  BY <1>5 DEF Reaped, ViewTyped, Endings
<1>6. CASE Expires
  <2>1. captured' = PreTurnContext("timed_out", <<>>, FALSE)
    BY <1>6 DEF Expires, Captures
  <2>2. captured'.text = <<>> /\ captured'.truncated = FALSE
    BY <2>1 DEF PreTurnContext
  <2>3. captured'.text \in Seq(Spelling) /\ captured'.truncated \in BOOLEAN
    BY <2>2, EmptyIsSpelled, Zenon
  <2> QED
    BY <1>6, <2>3 DEF Expires, Captures, ViewTyped, Endings
<1>7. CASE Join
  <2>1. Drained("out") \in Seq(Spelling)
    BY <1>a, DrainedIsAPrefix DEF Pipes
  <2>2. captured'.text \in Seq(Spelling) /\ captured'.truncated \in BOOLEAN /\ capture' = "done"
    <3>1. \/ captured' = PreTurnContext("failed", <<>>, FALSE)
          \/ captured' = PreTurnContext("empty", <<>>, FALSE)
          \/ captured' = PreTurnContext("captured", Drained("out"), "out" \in truncated)
      BY <1>7, Zenon DEF Join, Captures
    <3>2. captured'.text = <<>> \/ captured'.text = Drained("out")
      BY <3>1 DEF PreTurnContext
    <3>3. captured'.truncated \in BOOLEAN
      <4>1. PICK flag : flag = ("out" \in truncated)
        OBVIOUS
      <4>2. flag \in BOOLEAN
        <5>1. CASE "out" \in truncated
          BY <4>1, <5>1
        <5>2. CASE "out" \notin truncated
          BY <4>1, <5>2
        <5> QED
          BY <5>1, <5>2
      <4>3. captured'.truncated = FALSE \/ captured'.truncated = flag
        BY <3>1, <4>1 DEF PreTurnContext
      <4> QED
        BY <4>2, <4>3, Zenon
    <3>4. capture' = "done"
      BY <1>7, Zenon DEF Join, Captures
    <3> QED
      BY <2>1, <3>2, <3>3, <3>4, EmptyIsSpelled, Zenon
  <2> QED
    BY <1>7, <2>2 DEF Join, ViewTyped
<1>8. ASSUME NEW p \in Pipes, Drains(p) PROVE ViewTyped'
  <2>1. PICK read \in 1 .. Buffer :
            /\ read <= InPipe(p)
            /\ taken' = [taken EXCEPT ![p] = @ + read]
            /\ truncated' = IF read > Room(p) THEN truncated \cup {p} ELSE truncated
    BY <1>8 DEF Drains
  <2>2. read \in Nat /\ taken[p] \in Nat /\ Len(said[p]) \in Nat
    <3>1. read \in Nat
      BY <1>0, <2>1
    <3> QED
      BY <1>a, <3>1
  <2>3. taken[p] + read \in Nat /\ taken[p] + read <= Len(said[p])
    <3>1. read <= Len(said[p]) - taken[p]
      BY <2>1 DEF InPipe
    <3> QED
      BY <2>2, <3>1
  <2>4. taken' \in [Pipes -> Nat] /\ \A q \in Pipes : taken'[q] <= Len(said[q])
    <3>1. PICK sum \in Nat : sum = taken[p] + read
      BY <2>3
    <3>2. taken' = [taken EXCEPT ![p] = sum]
      BY <2>1, <3>1
    <3>3. taken' \in [Pipes -> Nat]
      BY <1>b, <3>1, <3>2, Zenon
    <3>4. taken'[p] = sum /\ \A q \in Pipes : q # p => taken'[q] = taken[q]
      BY <1>b, <3>2, Zenon
    <3>5. ASSUME NEW q \in Pipes PROVE taken'[q] <= Len(said[q])
      BY <1>a, <2>3, <3>1, <3>4, <3>5, Zenon
    <3> QED
      BY <3>3, <3>5
  <2>5. truncated' \subseteq Pipes
    BY <1>b, <2>1, Zenon
  <2> QED
    BY <1>8, <2>4, <2>5 DEF Drains, ViewTyped
<1>9. ASSUME NEW p \in Pipes, DrainEnds(p) PROVE ViewTyped'
  BY <1>9 DEF DrainEnds, ViewTyped
<1>10. CASE UNCHANGED viewVars
  BY <1>10 DEF viewVars, ViewTyped
<1> QED
  BY <1>1, <1>2, <1>3, <1>4, <1>5, <1>6, <1>7, <1>8, <1>9, <1>10
  DEF ViewNext, TurnThread, DrainThread

LEMMA DrainsTellKept ==
    ASSUME ViewTyped, DrainsTell, Joining, [ViewNext]_viewVars
    PROVE  DrainsTell'
<1>0. Keep \in Nat /\ Buffer \in Nat
  BY PreTurnViewAssumption
<1>1. CASE Prints
  <2>1. drained = {}
    BY <1>1 DEF Prints, DrainsTell, Endings
  <2> QED
    BY <1>1, <2>1 DEF Prints, DrainsTell
<1>2. CASE Exits
  <2>1. drained = {}
    BY <1>2 DEF Exits, DrainsTell, Endings
  <2> QED
    BY <1>2, <2>1 DEF Exits, DrainsTell, Endings
<1>3. CASE LetsGo
  BY <1>3 DEF LetsGo, DrainsTell
<1>4. CASE Capture
  <2>1. drained = {}
    BY <1>4 DEF Capture, Joining, DrainsTell, Endings
  <2> QED
    BY <1>4, <2>1 DEF Capture, DrainsTell
<1>5. CASE Reaped
  BY <1>5 DEF Reaped, DrainsTell
<1>6. CASE Expires
  BY <1>6 DEF Expires, DrainsTell, Endings
<1>7. CASE Join
  BY <1>7 DEF Join, DrainsTell
<1>8. ASSUME NEW p \in Pipes, Drains(p) PROVE DrainsTell'
  <2>1. PICK read \in 1 .. Buffer :
            /\ taken' = [taken EXCEPT ![p] = @ + read]
            /\ truncated' = IF read > Room(p) THEN truncated \cup {p} ELSE truncated
    BY <1>8 DEF Drains
  <2>2. read \in Nat /\ read > 0 /\ taken[p] \in Nat
    <3>1. read \in Nat /\ read > 0
      BY <1>0
    <3> QED
      BY <3>1, ViewReads
  <2>3. taken'[p] = taken[p] + read /\ \A q \in Pipes : q # p => taken'[q] = taken[q]
    BY <2>1 DEF ViewTyped
  <2>4. read > Room(p) \/ taken[p] > Keep <=> taken[p] + read > Keep
    <3>1. PICK t \in Nat : t = taken[p]
      BY <2>2
    <3>2. PICK room : room = Room(p)
      OBVIOUS
    <3>3. room = IF t < Keep THEN Keep - t ELSE 0
      BY <3>1, <3>2 DEF Room
    <3>4. PICK r \in Nat : r = read /\ r > 0
      BY <2>2
    <3>5. (r > room \/ t > Keep) <=> t + r > Keep
      BY <1>0, <3>3, <3>4
    <3> QED
      BY <3>1, <3>2, <3>4, <3>5
  <2>5. p \in truncated' <=> taken'[p] > Keep
    BY <2>1, <2>3, <2>4 DEF DrainsTell
  <2>6. \A q \in Pipes : q # p => (q \in truncated' <=> taken'[q] > Keep)
    BY <2>1, <2>3 DEF DrainsTell
  <2>7. \A q \in drained' : q \in drained /\ q # p
    BY <1>8 DEF Drains
  <2>8. \A q \in drained' : program' \in Endings /\ ~holder' /\ taken'[q] = Len(said'[q])
    BY <1>8, <2>3, <2>7 DEF Drains, ViewTyped, DrainsTell, Endings
  <2> QED
    BY <2>5, <2>6, <2>8 DEF DrainsTell
<1>9. ASSUME NEW p \in Pipes, DrainEnds(p) PROVE DrainsTell'
  <2>1. program \in Endings /\ ~holder
    BY <1>9 DEF DrainEnds, Open, ViewTyped, Endings
  <2>2. taken[p] = Len(said[p])
    <3>1. Len(said[p]) - taken[p] = 0
      BY <1>9 DEF DrainEnds, InPipe
    <3>2. PICK t \in Nat : t = taken[p]
      BY ViewReads
    <3>3. PICK n \in Nat : n = Len(said[p])
      BY ViewReads
    <3> QED
      BY <3>1, <3>2, <3>3
  <2> QED
    BY <1>9, <2>1, <2>2 DEF DrainEnds, DrainsTell, ViewTyped
<1>10. CASE UNCHANGED viewVars
  BY <1>10 DEF viewVars, DrainsTell
<1> QED
  BY <1>1, <1>2, <1>3, <1>4, <1>5, <1>6, <1>7, <1>8, <1>9, <1>10
  DEF ViewNext, TurnThread, DrainThread

LEMMA JoiningKept ==
    ASSUME ViewTyped, Joining, [ViewNext]_viewVars
    PROVE  Joining'
<1> USE DEF Joining
<1>1. CASE Prints
  BY <1>1 DEF Prints
<1>2. CASE Exits
  BY <1>2 DEF Exits
<1>3. CASE LetsGo
  BY <1>3 DEF LetsGo
<1>4. CASE Capture
  <2>1. \/ program' = "running" /\ capture' = "waiting" /\ UNCHANGED captured
        \/ capture' = "done" /\ captured'.outcome = "unspawnable"
    BY <1>4 DEF Capture, Captures, PreTurnContext
  <2>2. capture = "spawn" /\ captured = NoView
    BY <1>4 DEF Capture
  <2> QED
    BY <2>1, <2>2, NoTextOfAny
<1>5. CASE Reaped
  BY <1>5 DEF Reaped
<1>6. CASE Expires
  BY <1>6 DEF Expires, Captures, PreTurnContext
<1>7. CASE Join
  BY <1>7 DEF Join, Captures, PreTurnContext
<1>8. ASSUME NEW p \in Pipes, Drains(p) PROVE Joining'
  BY <1>8 DEF Drains
<1>9. ASSUME NEW p \in Pipes, DrainEnds(p) PROVE Joining'
  BY <1>9 DEF DrainEnds, ViewTyped
<1>10. CASE UNCHANGED viewVars
  BY <1>10 DEF viewVars
<1> QED
  BY <1>1, <1>2, <1>3, <1>4, <1>5, <1>6, <1>7, <1>8, <1>9, <1>10
  DEF ViewNext, TurnThread, DrainThread

(* A view once made is of bytes that no longer change. *)
LEMMA ViewStands ==
    ASSUME ViewInv, [ViewNext]_viewVars, UNCHANGED captured, ViewTyped'
    PROVE  ViewIsWhatItPrinted'
<1>1. CASE captured.outcome \in {"captured", "empty"}
  <2>1. capture = "done" /\ program = "exited 0" /\ \A p \in Pipes : p \in drained
    BY <1>1 DEF ViewInv, Joining, ViewIsWhatItPrinted
  <2>2. ~Prints /\ ~Exits /\ ~TurnThread
    BY <2>1 DEF Prints, Exits, TurnThread, Capture, Reaped, Expires, Join
  <2>3. UNCHANGED <<said, program>>
    BY <2>2 DEF ViewNext, LetsGo, DrainThread, Drains, DrainEnds, viewVars
  <2> QED
    BY <2>3 DEF ViewInv, ViewIsWhatItPrinted, Drained
<1>2. CASE captured.outcome \notin {"captured", "empty"}
  <2>1. LET element == Element(captured)
            frames == {i \in 1 .. Len(element) : Frames(element, i)}
        IN  Cardinality(frames) = IF captured.outcome = "captured" THEN 2 ELSE 1
    BY ElementIsOne DEF ViewInv, ViewTyped
  <2> QED
    BY <1>2, <2>1 DEF ViewIsWhatItPrinted
<1> QED
  BY <1>1, <1>2

LEMMA JoinTells ==
    ASSUME ViewInv, Join, ViewTyped'
    PROVE  ViewIsWhatItPrinted'
<1>0. Keep \in Nat
  BY PreTurnViewAssumption
<1>1. PICK head : head = Drained("out")
  OBVIOUS
<1>2. PICK s : s = said["out"]
  OBVIOUS
<1>3. /\ head \in Seq(Spelling) /\ IsPrefix(head, s) /\ Len(head) <= Keep /\ Decodes(head)
      /\ Len(s) <= Keep /\ Decodes(s) => head = s
  BY <1>1, <1>2, DrainedIsAPrefix DEF Pipes, ViewInv, ViewTyped
<1>4. "out" \in truncated <=> Len(s) > Keep
  BY <1>2 DEF ViewInv, DrainsTell, Join, Pipes
<1>5. Drained("out")' = head /\ said'["out"] = s
  BY <1>1, <1>2 DEF Join, Drained
<1>6. ToSet(head) \subseteq Blank <=> \A i \in 1 .. Len(head) : head[i] \in Blank
  BY <1>3 DEF ToSet
<1>7. CASE program # "exited 0" /\ Captures("failed", <<>>, FALSE)
  <2>1. captured'.outcome = "failed" /\ captured'.text = <<>> /\ captured'.truncated = FALSE
    BY <1>7 DEF Captures, PreTurnContext
  <2>2. PICK view : view = captured'
    OBVIOUS
  <2>3. LET element == Element(view)
            frames == {i \in 1 .. Len(element) : Frames(element, i)}
        IN  Cardinality(frames) = IF view.outcome = "captured" THEN 2 ELSE 1
    BY <2>2, ElementIsOne DEF ViewTyped
  <2> QED
    BY <2>1, <2>2, <2>3 DEF ViewIsWhatItPrinted
<1>8. CASE /\ program = "exited 0"
           /\ \A i \in 1 .. Len(head) : head[i] \in Blank
           /\ Captures("empty", <<>>, FALSE)
  <2>1. captured'.outcome = "empty" /\ captured'.text = <<>> /\ captured'.truncated = FALSE
    BY <1>8 DEF Captures, PreTurnContext
  <2>2. PICK view : view = captured'
    OBVIOUS
  <2>3. LET element == Element(view)
            frames == {i \in 1 .. Len(element) : Frames(element, i)}
        IN  Cardinality(frames) = IF view.outcome = "captured" THEN 2 ELSE 1
    BY <2>2, ElementIsOne DEF ViewTyped
  <2>4. program' = "exited 0"
    BY <1>8 DEF Join
  <2> QED
    BY <1>5, <1>6, <1>8, <2>1, <2>2, <2>3, <2>4 DEF ViewIsWhatItPrinted
<1>9. CASE /\ program = "exited 0"
           /\ \E i \in 1 .. Len(head) : head[i] \notin Blank
           /\ Captures("captured", head, "out" \in truncated)
  <2>1. /\ captured'.outcome = "captured" /\ captured'.text = head
        /\ captured'.truncated = ("out" \in truncated)
    BY <1>9 DEF Captures, PreTurnContext
  <2>2. PICK view : view = captured'
    OBVIOUS
  <2>3. LET element == Element(view)
            frames == {i \in 1 .. Len(element) : Frames(element, i)}
        IN  Cardinality(frames) = IF view.outcome = "captured" THEN 2 ELSE 1
    BY <2>2, ElementIsOne DEF ViewTyped
  <2>4. program' = "exited 0"
    BY <1>9 DEF Join
  <2>5. /\ captured'.truncated <=> Len(s) > Keep
        /\ ~captured'.truncated /\ Decodes(s) => head = s
    <3>1. ~(Len(s) > Keep) => Len(s) <= Keep
      <4>1. s \in Seq(Spelling)
        BY <1>2 DEF ViewInv, ViewTyped, Pipes
      <4> QED
        BY <1>0, <4>1
    <3> QED
      BY <1>3, <1>4, <2>1, <3>1
  <2> QED
    BY <1>3, <1>5, <1>6, <1>9, <2>1, <2>2, <2>3, <2>4, <2>5 DEF ViewIsWhatItPrinted
<1> QED
  BY <1>1, <1>7, <1>8, <1>9 DEF Join

LEMMA ViewPrintedKept ==
    ASSUME ViewInv, [ViewNext]_viewVars, ViewTyped'
    PROVE  ViewIsWhatItPrinted'
<1>1. CASE Join
  BY <1>1, JoinTells
<1>2. CASE UNCHANGED captured
  BY <1>2, ViewStands
<1>3. CASE captured'.outcome \notin {"captured", "empty"} /\ captured'.text = <<>>
           /\ captured'.truncated = FALSE
  <2>1. PICK view : view = captured'
    OBVIOUS
  <2>2. LET element == Element(view)
            frames == {i \in 1 .. Len(element) : Frames(element, i)}
        IN  Cardinality(frames) = IF view.outcome = "captured" THEN 2 ELSE 1
    BY <2>1, ElementIsOne DEF ViewTyped
  <2> QED
    BY <1>3, <2>1, <2>2 DEF ViewIsWhatItPrinted
<1>4. Capture \/ Expires => \/ UNCHANGED captured
                            \/ /\ captured'.outcome \notin {"captured", "empty"}
                               /\ captured'.text = <<>> /\ captured'.truncated = FALSE
  BY DEF Capture, Expires, Captures, PreTurnContext
<1>5. [ViewNext]_viewVars => Join \/ Capture \/ Expires \/ UNCHANGED captured
  BY DEF ViewNext, TurnThread, DrainThread, Prints, Exits, LetsGo, Reaped, Drains, DrainEnds, viewVars
<1> QED
  BY <1>1, <1>2, <1>3, <1>4, <1>5

LEMMA ViewInvHolds == ViewSafeSpec => []ViewInv
<1>1. ViewInit => ViewInv
  <2> SUFFICES ASSUME ViewInit PROVE ViewInv
    OBVIOUS
  <2>0. Keep \in Nat
    BY PreTurnViewAssumption
  <2>1. script \in Seq(Pipes \X Bytes) /\ captured = NoView
    BY PreTurnViewAssumption DEF ViewInit, ViewAt
  <2>2. ViewTyped
    <3>1. \A p \in Pipes : said[p] = <<>> /\ taken[p] = 0
      BY DEF ViewInit, ViewAt
    <3>2. said \in [Pipes -> Seq(Spelling)] /\ taken \in [Pipes -> Nat]
      BY DEF ViewInit, ViewAt
    <3>3. \A p \in Pipes : taken[p] <= Len(said[p])
      BY <3>1
    <3>4. printed \in 0 .. Len(script)
      BY <2>1 DEF ViewInit, ViewAt
    <3> QED
      BY <2>1, <3>2, <3>3, <3>4, NoTextOfAny DEF ViewTyped, ViewInit, ViewAt
  <2>3. DrainsTell
    BY <2>0 DEF DrainsTell, ViewInit, ViewAt
  <2>4. Joining
    BY <2>1, NoTextOfAny DEF Joining, ViewInit, ViewAt
  <2>5. ViewIsWhatItPrinted
    BY <2>1, <2>2, NoTextOfAny, NoTextNoDoubt
  <2> QED
    BY <2>2, <2>3, <2>4, <2>5 DEF ViewInv
<1>2. ViewInv /\ [ViewNext]_viewVars => ViewInv'
  BY ViewTypedKept, DrainsTellKept, JoiningKept, ViewPrintedKept DEF ViewInv
<1> QED
  BY <1>1, <1>2, PTL DEF ViewSafeSpec

(* A view says what its program printed, back to where it decodes, and is   *)
(* marked as cut exactly when more was printed than is kept, for every      *)
(* script, every size of pipe, of reads and of what is kept (preturn.rs     *)
(* capture, drain, rendered). What is cut because it does not decode is     *)
(* marked by nothing: CutIsMarked.                                          *)
THEOREM ViewIsWhatItPrintedHolds == ViewSafeSpec => []ViewIsWhatItPrinted
<1>1. ViewInv => ViewIsWhatItPrinted
  BY DEF ViewInv
<1> QED
  BY ViewInvHolds, <1>1, PTL
=============================================================================
