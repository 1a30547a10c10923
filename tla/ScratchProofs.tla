--------------------------- MODULE ScratchProofs ---------------------------
(* What a sweep may take and what a reap may end, for any number of owners   *)
(* of a directory and of processes under it.                                 *)
EXTENDS ScratchSweep, FiniteSetTheorems, TLAPS

(* The variables the arguments read, each in its range.                     *)
Shape ==
    /\ life \in [Procs -> {"unborn", "alive", "dead"}]
    /\ dir \in {"none", "young", "old"}
    /\ file \in {0} \cup Files /\ made \in {0} \cup Files
    /\ content \in [Files -> Owners \cup {Nobody}]
    /\ holder \in [Files -> Owners \cup {Sweeper, Nobody}]
    /\ claim \in [Owners -> {"idle", "made", "opened", "locked", "owns", "released", "over"}]
    /\ handle \in [Owners -> {0} \cup Files]
    /\ arrived \subseteq Owners /\ reclaimed \subseteq Owners
    /\ sweep \in {"rest", "opened", "locked", "cleared", "aged", "unnamed"}
    /\ opened \in {0} \cup Files

(* A claim is a living process's, and there is one at a time.               *)
OneClaimant ==
    /\ \A o \in Owners : claim[o] = "idle" <=> life[o] = "unborn"
    /\ \A o \in Owners : ~Alive(o) => claim[o] \in {"idle", "over"}
    /\ \A o, p \in Owners : Alive(o) /\ Alive(p) => o = p

(* Its lock file is the last one made, which is the one in the directory or *)
(* none is; what it holds and what it wrote stay its own.                   *)
Engaged(o) == Alive(o) /\ claim[o] \in {"opened", "locked", "owns", "released"}
LastFile ==
    /\ file \in {0, made} /\ (dir = "none" => file = 0)
    /\ made <= Cardinality({o \in Owners : claim[o] \notin {"idle", "made"}})
    /\ \A o \in Owners : Engaged(o) => handle[o] = made /\ made # 0
    /\ \A o \in Owners : Owning(o) => holder[handle[o]] = o
    /\ \A o \in Owners : Alive(o) /\ claim[o] \in {"owns", "released"} /\ file # 0 => content[file] = o

(* What each judgement of the sweep has established by the time it is made. *)
SweepInOrder ==
    /\ sweep # "rest" => opened \in Files /\ opened <= made
    /\ sweep = "locked" => holder[opened] = Sweeper
    /\ sweep = "opened" => \A o \in Owners : Owning(o) /\ o \notin arrived => handle[o] = opened
    /\ sweep \in {"locked", "cleared", "aged", "unnamed"} =>
          \A o \in Owners : Owning(o) => o \in arrived
    /\ sweep \in {"cleared", "aged", "unnamed"} =>
          \A o \in Owners : Alive(o) /\ claim[o] = "released" => o \in arrived \/ file = 0

(* Where there is a floor, what is swept is old, or was claimed when it was. *)
FloorInOrder ==
    /\ \A o \in Owners \ reclaimed :
          /\ Engaged(o) /\ handle[o] = file
          /\ claim[o] \in {"opened", "locked"} \/ (o \in arrived /\ sweep # "rest")
          => dir = "young"
    /\ sweep # "rest" /\ dir = "old" => file # 0
    /\ sweep \in {"aged", "unnamed"} /\ floor /\ arrived \cap reclaimed = {} => dir = "old"

(* Who is under the directory, and by whom it was launched there.           *)
TreeInOrder ==
    /\ scope \in [Workers -> Members \cup {Nobody}] /\ boss \in [Workers -> Owners \cup {Nobody}]
    /\ joined \subseteq Workers
    /\ \A w \in joined : Alive(w) /\ scope[w] \in Members
    /\ \A w \in Workers : boss[w] \in Owners => life[boss[w]] # "unborn"
    /\ \A w \in Workers : Alive(w) => boss[w] \in Owners /\ scope[w] \in Members
    /\ \A w \in Workers : Waiting(w) /\ Alive(boss[w]) => claim[boss[w]] = "owns"
    /\ sweep = "unnamed" => \A w \in joined : boss[w] \in arrived

(* Whoever is alive has its pid alone.                                      *)
OneBearer == \A p, q \in Procs : Alive(p) /\ Alive(q) /\ Pid[p] = Pid[q] => p = q

(* What carried the stamp is in the tree for as long as it lives; what is   *)
(* signalled has a pid from the tree, and had it when it was looked at.     *)
ReapInOrder ==
    /\ reap \in Reaps
    /\ reap.at \in {"rest", "named"} => reap.checked = Nobody /\ reap.left = {}
    /\ reap.at = "asking" => host = "posix"
    /\ \A w \in reap.named :
          /\ life[w] # "unborn"
          /\ Alive(w) => w \in joined /\ (reap.scope = Root \/ scope[w] = reap.scope)
    /\ \A p \in reap.targets : \E w \in reap.named : Pid[w] = Pid[p]
    /\ host = "posix" => reap.left \subseteq reap.targets
    /\ host = "windows" => reap.left \subseteq GroupsUnder(reap.scope)
    /\ reap.checked # Nobody =>
          host = "posix" /\ reap.checked \in reap.targets /\ reap.bearers = {reap.checked}

(* It goes on with what it had, or with less.                               *)
Narrows ==
    /\ reap' \in [
         at : {reap.at}, scope : {reap.scope}, named : {reap.named},
         targets : {reap.targets}, left : SUBSET reap.left,
         checked : {Nobody, reap.checked}, bearers : {{}, reap.bearers}]
    /\ reap'.checked # Nobody => reap'.bearers = reap.bearers

SweepInv == Shape /\ OneClaimant /\ LastFile /\ SweepInOrder /\ FloorInOrder
ScratchInv == SweepInv /\ TreeInOrder /\ OneBearer /\ ReapInOrder

-----------------------------------------------------------------------------
(* The sweep and the claims.                                                *)

(* The owners that have come as far as the lock file are finitely many, and *)
(* more of them only make room for more files.                              *)
Come == {o \in Owners : claim[o] \notin {"idle", "made"}}

LEMMA ComeGrows ==
    ASSUME Come \subseteq Come', Come' \subseteq Owners
    PROVE  Cardinality(Come) <= Cardinality(Come')
<1>1. IsFiniteSet(Come')
  BY ProcsAssumption, FS_Subset
<1> QED
  BY <1>1, FS_Subset

LEMMA ComeIsBounded ==
    /\ IsFiniteSet(Come) /\ Cardinality(Come) \in Nat /\ Cardinality(Owners) \in Nat
    /\ \A o \in Owners \ Come : Cardinality(Come) + 1 <= Cardinality(Owners)
<1>1. IsFiniteSet(Come) /\ Cardinality(Come) \in Nat /\ Cardinality(Owners) \in Nat
  BY ProcsAssumption, FS_Subset, FS_CardinalityType DEF Come
<1>2. ASSUME NEW o \in Owners \ Come PROVE Cardinality(Come) + 1 <= Cardinality(Owners)
  <2>1. Cardinality(Come \cup {o}) = Cardinality(Come) + 1
    BY <1>1, <1>2, FS_AddElement
  <2>2. Come \cup {o} \subseteq Owners
    BY DEF Come
  <2> QED
    BY <2>1, <2>2, ProcsAssumption, FS_Subset
<1> QED
  BY <1>1, <1>2

(* Processes end.                                                           *)
LEMMA EndedStep ==
    ASSUME SweepInv, NEW S, S \subseteq Procs, Ended(S), UNCHANGED <<floor, dir, sweepVars>>
    PROVE  SweepInv'
<1>0. /\ Shape /\ OneClaimant /\ LastFile /\ SweepInOrder /\ FloorInOrder
      /\ UNCHANGED <<floor, dir, sweep, opened, arrived, reclaimed, file, made, content>>
  BY DEF SweepInv, Ended, sweepVars
<1>1. /\ Shape'
      /\ \A p \in Procs : life'[p] = IF p \in S THEN "dead" ELSE life[p]
      /\ \A f \in Files : holder'[f] = IF holder[f] \in S THEN Nobody ELSE holder[f]
      /\ \A o \in Owners : claim'[o] = IF o \in S THEN "over" ELSE claim[o]
      /\ \A o \in Owners : handle'[o] = IF o \in S THEN 0 ELSE handle[o]
  BY <1>0 DEF Ended, Shape
<1>2. \A o \in Owners : /\ o \in Procs
                        /\ o \in S => ~Alive(o)' /\ claim'[o] = "over"
                        /\ o \notin S => (Alive(o)' <=> Alive(o)) /\ claim'[o] = claim[o]
                                         /\ handle'[o] = handle[o] /\ life'[o] = life[o]
  BY <1>1 DEF Alive, Procs
<1>3. OneClaimant'
  BY <1>0, <1>1, <1>2 DEF OneClaimant, Alive
<1>4. LastFile'
  <2>1. made <= Cardinality(Come')
    <3>1. Come \subseteq Come' /\ Come' \subseteq Owners
      BY <1>2 DEF Come
    <3>2. made <= Cardinality(Come)
      BY <1>0 DEF LastFile, Come
    <3>3. made \in Nat /\ Cardinality(Come) \in Nat /\ Cardinality(Come') \in Nat
      BY <1>0, <3>1, ComeIsBounded, ProcsAssumption, FS_Subset, FS_CardinalityType DEF Shape, Files
    <3> QED
      BY <3>1, <3>2, <3>3, ComeGrows
  <2>2. \A o \in Owners : Owning(o)' => holder'[handle'[o]] = o
    <3> SUFFICES ASSUME NEW o \in Owners, Owning(o)' PROVE holder'[handle'[o]] = o
      OBVIOUS
    <3>1. o \notin S /\ Owning(o) /\ handle'[o] = handle[o]
      BY <1>2 DEF Owning
    <3>2. holder[handle[o]] = o /\ handle[o] = made /\ made # 0
      BY <1>0, <3>1 DEF LastFile, Owning, Engaged
    <3>3. handle[o] \in Files
      BY <1>0, <3>2 DEF Shape
    <3> QED
      BY <1>1, <3>1, <3>2, <3>3
  <2>3. \A o \in Owners : Engaged(o)' => Engaged(o) /\ handle'[o] = handle[o]
    BY <1>2 DEF Engaged
  <2> QED
    BY <1>0, <1>2, <2>1, <2>2, <2>3 DEF LastFile, Come
<1>5. \A o \in Owners : Owning(o)' => Owning(o) /\ handle'[o] = handle[o]
  BY <1>2 DEF Owning
<1>6. SweepInOrder'
  <2>1. (sweep = "locked" => holder[opened] = Sweeper)'
    <3>1. sweep = "locked" => opened \in Files /\ holder[opened] = Sweeper
      BY <1>0 DEF SweepInOrder
    <3>2. Sweeper \notin S
      BY ProcsAssumption
    <3> QED
      BY <1>0, <1>1, <3>1, <3>2
  <2> QED
    BY <1>0, <1>2, <1>5, <2>1 DEF SweepInOrder
<1>7. FloorInOrder'
  <2>1. \A o \in Owners : Engaged(o)' => Engaged(o) /\ handle'[o] = handle[o] /\ claim'[o] = claim[o]
    BY <1>2 DEF Engaged
  <2> QED
    BY <1>0, <2>1 DEF FloorInOrder
<1> QED
  BY <1>1, <1>3, <1>4, <1>6, <1>7 DEF SweepInv

(* Something that is no owner begins.                                       *)
LEMMA BornStep ==
    ASSUME SweepInv, NEW p \in Procs \ Owners, Begin(p),
           UNCHANGED <<floor, dir, claimVars, lockVars, sweepVars>>
    PROVE  SweepInv'
<1>1. /\ Shape /\ OneClaimant /\ LastFile /\ SweepInOrder /\ FloorInOrder
      /\ UNCHANGED <<floor, dir, sweep, opened, arrived, file, made, content, holder,
                     claim, handle, reclaimed>>
  BY DEF SweepInv, claimVars, lockVars, sweepVars
<1>2. Shape' /\ \A o \in Owners : life'[o] = life[o]
  BY <1>1 DEF Begin, Shape, Procs
<1>3. \A o \in Owners : /\ Alive(o)' <=> Alive(o)
                        /\ Owning(o)' <=> Owning(o)
                        /\ Engaged(o)' <=> Engaged(o)
  BY <1>1, <1>2 DEF Alive, Owning, Engaged
<1>4. OneClaimant'
  BY <1>1, <1>2, <1>3 DEF OneClaimant
<1>5. LastFile'
  BY <1>1, <1>3 DEF LastFile
<1>6. SweepInOrder'
  BY <1>1, <1>3 DEF SweepInOrder
<1>7. FloorInOrder'
  BY <1>1, <1>3 DEF FloorInOrder
<1> QED
  BY <1>2, <1>4, <1>5, <1>6, <1>7 DEF SweepInv

(* Whoever claims is the only owner that lives.                             *)
LEMMA Alone ==
    ASSUME Shape, OneClaimant, NEW o \in Owners, Alive(o) \/ Begin(o)
    PROVE  \A p \in Owners \ {o} : ~Alive(p)
<1>1. CASE Alive(o)
  BY <1>1 DEF OneClaimant
<1>2. CASE Begin(o)
  BY <1>2, ProcsAssumption DEF Begin, Procs
<1> QED
  BY <1>1, <1>2

(* A step of the claim that leaves the lock files as they are made.         *)
LEMMA MakeDirStep ==
    ASSUME SweepInv, NEW o \in Owners, MakeDir(o) PROVE SweepInv'
<1>1. /\ Shape /\ OneClaimant /\ LastFile /\ SweepInOrder /\ FloorInOrder
      /\ UNCHANGED <<floor, sweep, opened, arrived, file, made, content, holder,
                     handle, reclaimed>>
      /\ dir' = IF dir = "none" THEN "young" ELSE dir
  BY DEF SweepInv, MakeDir, lockVars, sweepVars
<1>2. /\ Shape' /\ Begin(o) /\ life'[o] = "alive" /\ claim'[o] = "made" /\ life[o] = "unborn"
      /\ \A p \in Owners \ {o} : life'[p] = life[p] /\ claim'[p] = claim[p]
  BY <1>1 DEF MakeDir, Begin, Shape, Procs
<1>3. \A p \in Owners \ {o} : ~Alive(p) /\ ~Alive(p)'
  BY <1>1, <1>2, Alone DEF Alive
<1>4. \A p \in Owners : /\ ~Owning(p)' /\ ~Engaged(p)'
                        /\ Alive(p)' => claim'[p] = "made"
  BY <1>2, <1>3 DEF Owning, Engaged
<1>5. OneClaimant'
  BY <1>1, <1>2, <1>3 DEF OneClaimant, Alive
<1>6. Come' = Come
  BY <1>1, <1>2 DEF Come, OneClaimant
<1>7. LastFile'
  BY <1>1, <1>4, <1>6 DEF LastFile, Come
<1>8. SweepInOrder'
  BY <1>1, <1>4 DEF SweepInOrder
<1>9. FloorInOrder'
  BY <1>1, <1>4 DEF FloorInOrder
<1> QED
  BY <1>2, <1>5, <1>7, <1>8, <1>9 DEF SweepInv

LEMMA OpenLockStep ==
    ASSUME SweepInv, NEW o \in Owners, OpenLock(o) PROVE SweepInv'
<1> DEFINE f == IF file = 0 THEN made + 1 ELSE file
<1>1. /\ Shape /\ OneClaimant /\ LastFile /\ SweepInOrder /\ FloorInOrder
      /\ UNCHANGED <<floor, life, holder, sweep, opened, arrived>>
      /\ Alive(o) /\ claim[o] = "made" /\ dir # "none"
      /\ file' = f /\ made' = f
      /\ dir' = IF file = 0 THEN "young" ELSE dir
      /\ reclaimed' = IF file = 0 THEN reclaimed ELSE reclaimed \cup {o}
  BY DEF SweepInv, OpenLock, Claiming, sweepVars, LastFile
<1>2. made \in Nat /\ made <= Cardinality(Come) /\ o \notin Come /\ f \in Files
  <2>1. made \in Nat /\ made <= Cardinality(Come) /\ o \notin Come
    BY <1>1 DEF Shape, Files, LastFile, Come
  <2>2. Cardinality(Come) + 1 <= Cardinality(Owners) /\ Cardinality(Come) \in Nat
        /\ Cardinality(Owners) \in Nat
    BY <2>1, ComeIsBounded
  <2> QED
    BY <2>1, <2>2, <1>1 DEF Shape, Files
<1>3. /\ Shape' /\ claim'[o] = "opened" /\ handle'[o] = f
      /\ \A p \in Owners \ {o} : claim'[p] = claim[p] /\ handle'[p] = handle[p]
  <2> HIDE DEF f
  <2> QED
    BY <1>1, <1>2 DEF OpenLock, Claiming, Shape, f
<1>4. \A p \in Owners : /\ Alive(p)' <=> Alive(p)
                        /\ p # o => ~Alive(p)
                        /\ ~Owning(p)'
                        /\ Engaged(p)' => p = o
  BY <1>1, <1>3, Alone DEF Alive, Owning, Engaged
<1>5. OneClaimant'
  BY <1>1, <1>3, <1>4 DEF OneClaimant
<1>6. LastFile'
  <2>1. made' <= Cardinality(Come')
    <3>1. Come' = Come \cup {o}
      BY <1>3 DEF Come
    <3>2. Cardinality(Come') = Cardinality(Come) + 1
      BY <3>1, <1>2, ComeIsBounded, FS_AddElement
    <3>3. Cardinality(Come) \in Nat
      BY ComeIsBounded
    <3>4. f \in {made, made + 1}
      BY <1>1 DEF LastFile
    <3> QED
      BY <1>1, <1>2, <3>2, <3>3, <3>4
  <2>2. f # 0
    BY <1>2 DEF Files
  <2> QED
    BY <1>1, <1>3, <1>4, <2>1, <2>2 DEF LastFile, Come
<1>7. SweepInOrder'
  <2>1. made <= f
    BY <1>1, <1>2 DEF LastFile
  <2>2. opened \in Nat /\ f \in Nat
    BY <1>1, <1>2 DEF Shape, Files
  <2>3. \A p \in Owners : ~(Alive(p)' /\ claim'[p] = "released")
    BY <1>3, <1>4
  <2> QED
    BY <1>1, <1>2, <1>4, <2>1, <2>2, <2>3 DEF SweepInOrder
<1>8. FloorInOrder'
  <2>1. f # 0
    BY <1>2 DEF Files
  <2> QED
    BY <1>1, <1>3, <1>4, <2>1 DEF FloorInOrder
<1> QED
  BY <1>3, <1>5, <1>6, <1>7, <1>8 DEF SweepInv

LEMMA ClaimFailsStep ==
    ASSUME SweepInv, NEW o \in Owners, OpenFails(o) \/ Refused(o) PROVE SweepInv'
<1>1. /\ Shape /\ OneClaimant /\ LastFile /\ SweepInOrder /\ FloorInOrder
      /\ UNCHANGED <<floor, life, dir, handle, reclaimed, file, made, content, holder,
                     sweep, opened, arrived>>
      /\ Alive(o) /\ claim[o] \in {"made", "opened"}
      /\ claim' = [claim EXCEPT ![o] = "over"]
  BY DEF SweepInv, OpenFails, Refused, Claiming, lockVars, sweepVars
<1>2. /\ Shape' /\ claim'[o] = "over"
      /\ \A p \in Owners \ {o} : claim'[p] = claim[p]
  BY <1>1 DEF Shape
<1>3. \A p \in Owners : /\ Alive(p)' <=> Alive(p)
                        /\ p # o => ~Alive(p)
                        /\ ~Owning(p)' /\ ~Engaged(p)'
  BY <1>1, <1>2, Alone DEF Alive, Owning, Engaged
<1>4. OneClaimant'
  BY <1>1, <1>2, <1>3 DEF OneClaimant, Alive
<1>5. LastFile'
  <2>1. made <= Cardinality(Come')
    <3>1. Come \subseteq Come' /\ Come' \subseteq Owners
      BY <1>2 DEF Come
    <3>2. made <= Cardinality(Come)
      BY <1>1 DEF LastFile, Come
    <3>3. made \in Nat /\ Cardinality(Come) \in Nat /\ Cardinality(Come') \in Nat
      BY <1>1, <3>1, ComeIsBounded, ProcsAssumption, FS_Subset, FS_CardinalityType DEF Shape, Files
    <3> QED
      BY <3>1, <3>2, <3>3, ComeGrows
  <2> QED
    BY <1>1, <1>2, <1>3, <2>1 DEF LastFile, Come
<1>6. SweepInOrder'
  <2>1. \A p \in Owners : ~(Alive(p)' /\ claim'[p] = "released")
    BY <1>2, <1>3
  <2> QED
    BY <1>1, <1>3, <2>1 DEF SweepInOrder
<1>7. FloorInOrder'
  BY <1>1, <1>3 DEF FloorInOrder
<1> QED
  BY <1>2, <1>4, <1>5, <1>6, <1>7 DEF SweepInv

(* The claimant's next step, with its lock file open: of an owner, only what *)
(* it claims, holds and wrote may change.                                   *)
LEMMA TakeLockStep ==
    ASSUME SweepInv, NEW o \in Owners, TakeLock(o) PROVE SweepInv'
<1>1. /\ Shape /\ OneClaimant /\ LastFile /\ SweepInOrder /\ FloorInOrder
      /\ UNCHANGED <<floor, life, dir, handle, reclaimed, file, made, content, sweep, opened>>
      /\ Alive(o) /\ claim[o] = "opened" /\ claim' = [claim EXCEPT ![o] = "locked"]
      /\ holder[handle[o]] = Nobody /\ holder' = [holder EXCEPT ![handle[o]] = o]
      /\ arrived' = arrived \cup {o}
  BY DEF SweepInv, TakeLock, Claiming
<1>2. handle[o] = made /\ made \in Files
  BY <1>1 DEF LastFile, Engaged, Shape
<1>3. /\ Shape' /\ claim'[o] = "locked" /\ holder'[handle[o]] = o
      /\ \A p \in Owners \ {o} : claim'[p] = claim[p]
      /\ \A h \in Files \ {handle[o]} : holder'[h] = holder[h]
  BY <1>1, <1>2 DEF Shape
<1>4. \A p \in Owners : /\ Alive(p)' <=> Alive(p)
                        /\ p # o => ~Alive(p) /\ ~Owning(p)' /\ ~Engaged(p)'
  BY <1>1, <1>3, Alone DEF Alive, Owning, Engaged
<1>5. OneClaimant'
  BY <1>1, <1>3, <1>4 DEF OneClaimant, Alive
<1>6. LastFile'
  <2>1. Come' = Come
    BY <1>1, <1>3 DEF Come
  <2>2. Engaged(o)
    BY <1>1 DEF Engaged
  <2> QED
    BY <1>1, <1>2, <1>3, <1>4, <2>1, <2>2 DEF LastFile, Come
<1>7. SweepInOrder'
  BY <1>1, <1>2, <1>3, <1>4, ProcsAssumption DEF SweepInOrder, Procs
<1>8. FloorInOrder'
  BY <1>1, <1>2, <1>3, <1>4 DEF FloorInOrder, Engaged
<1> QED
  BY <1>3, <1>5, <1>6, <1>7, <1>8 DEF SweepInv

LEMMA WriteIdentityStep ==
    ASSUME SweepInv, NEW o \in Owners, WriteIdentity(o) PROVE SweepInv'
<1>1. /\ Shape /\ OneClaimant /\ LastFile /\ SweepInOrder /\ FloorInOrder
      /\ UNCHANGED <<floor, life, dir, handle, reclaimed, file, made, holder, sweep, opened,
                     arrived>>
      /\ Alive(o) /\ claim[o] = "locked" /\ claim' = [claim EXCEPT ![o] = "owns"]
      /\ content' = [content EXCEPT ![handle[o]] = o]
  BY DEF SweepInv, WriteIdentity, Claiming, sweepVars
<1>2. handle[o] = made /\ made \in Files
  BY <1>1 DEF LastFile, Engaged, Shape
<1>3. /\ Shape' /\ claim'[o] = "owns" /\ content'[made] = o
      /\ \A p \in Owners \ {o} : claim'[p] = claim[p]
  BY <1>1, <1>2 DEF Shape
<1>4. \A p \in Owners : /\ Alive(p)' <=> Alive(p)
                        /\ p # o => ~Alive(p) /\ ~Owning(p)' /\ ~Engaged(p)'
  BY <1>1, <1>3, Alone DEF Alive, Owning, Engaged
<1>5. Owning(o) /\ Engaged(o)
  BY <1>1 DEF Owning, Engaged
<1>6. OneClaimant'
  BY <1>1, <1>3, <1>4 DEF OneClaimant, Alive
<1>7. LastFile'
  <2>1. Come' = Come
    BY <1>1, <1>3 DEF Come
  <2> QED
    BY <1>1, <1>2, <1>3, <1>4, <1>5, <2>1 DEF LastFile, Come
<1>8. SweepInOrder'
  BY <1>1, <1>3, <1>4, <1>5 DEF SweepInOrder
<1>9. FloorInOrder'
  BY <1>1, <1>3, <1>4, <1>5 DEF FloorInOrder
<1> QED
  BY <1>3, <1>6, <1>7, <1>8, <1>9 DEF SweepInv

LEMMA ReleaseStep ==
    ASSUME SweepInv, NEW o \in Owners, Release(o) PROVE SweepInv'
<1>1. /\ Shape /\ OneClaimant /\ LastFile /\ SweepInOrder /\ FloorInOrder
      /\ UNCHANGED <<floor, life, dir, handle, reclaimed, file, made, content, sweep, opened,
                     arrived>>
      /\ Alive(o) /\ claim[o] = "owns"
      /\ claim' = [claim EXCEPT ![o] = IF o \in Keepers THEN "over" ELSE "released"]
      /\ holder' = [holder EXCEPT ![handle[o]] = Nobody]
  BY DEF SweepInv, Release, Claiming, sweepVars
<1>2. Owning(o) /\ Engaged(o)
  BY <1>1 DEF Owning, Engaged
<1>3. handle[o] = made /\ made \in Files /\ holder[handle[o]] = o
  BY <1>1, <1>2 DEF LastFile, Shape
<1>4. /\ Shape' /\ claim'[o] \in {"over", "released"}
      /\ \A p \in Owners \ {o} : claim'[p] = claim[p]
      /\ \A h \in Files \ {handle[o]} : holder'[h] = holder[h]
  BY <1>1, <1>3 DEF Shape
<1>5. \A p \in Owners : /\ Alive(p)' <=> Alive(p)
                        /\ p # o => ~Alive(p) /\ ~Engaged(p)'
                        /\ ~Owning(p)'
  BY <1>1, <1>4, Alone DEF Alive, Owning, Engaged
<1>6. OneClaimant'
  BY <1>1, <1>4, <1>5 DEF OneClaimant, Alive
<1>7. LastFile'
  <2>1. Come' = Come
    BY <1>1, <1>4 DEF Come
  <2> QED
    BY <1>1, <1>2, <1>3, <1>4, <1>5, <2>1 DEF LastFile, Come
<1>8. SweepInOrder'
  BY <1>1, <1>2, <1>3, <1>4, <1>5, ProcsAssumption DEF SweepInOrder, Procs
<1>9. FloorInOrder'
  BY <1>1, <1>2, <1>4, <1>5 DEF FloorInOrder
<1> QED
  BY <1>4, <1>6, <1>7, <1>8, <1>9 DEF SweepInv

LEMMA RemoveOwnStep ==
    ASSUME SweepInv, NEW o \in Owners, RemoveOwn(o) PROVE SweepInv'
<1>1. /\ Shape /\ OneClaimant /\ LastFile /\ SweepInOrder /\ FloorInOrder
      /\ UNCHANGED <<floor, life, handle, reclaimed, made, content, holder, sweep, opened,
                     arrived>>
      /\ Alive(o) /\ claim[o] = "released" /\ claim' = [claim EXCEPT ![o] = "over"]
      /\ dir' = "none" /\ file' = 0
  BY DEF SweepInv, RemoveOwn, Claiming, sweepVars
<1>2. /\ Shape' /\ claim'[o] = "over"
      /\ \A p \in Owners \ {o} : claim'[p] = claim[p]
  BY <1>1 DEF Shape
<1>3. \A p \in Owners : /\ Alive(p)' <=> Alive(p)
                        /\ p # o => ~Alive(p)
                        /\ ~Owning(p)' /\ ~Engaged(p)'
                        /\ ~(Alive(p)' /\ claim'[p] = "released")
  BY <1>1, <1>2, Alone DEF Alive, Owning, Engaged
<1>4. OneClaimant'
  BY <1>1, <1>2, <1>3 DEF OneClaimant, Alive
<1>5. LastFile'
  <2>1. Come' = Come
    BY <1>1, <1>2 DEF Come
  <2> QED
    BY <1>1, <1>2, <1>3, <2>1 DEF LastFile, Come
<1>6. SweepInOrder'
  BY <1>1, <1>3 DEF SweepInOrder
<1>7. FloorInOrder'
  <2>1. ~(sweep \in {"aged", "unnamed"} /\ floor /\ arrived \cap reclaimed = {})
    <3> SUFFICES ASSUME sweep \in {"aged", "unnamed"}, floor, arrived \cap reclaimed = {}
                 PROVE  FALSE
      OBVIOUS
    <3>1. dir = "old" /\ file # 0
      BY <1>1 DEF FloorInOrder
    <3>2. o \in arrived \ reclaimed
      BY <1>1, <3>1 DEF SweepInOrder
    <3>3. Engaged(o) /\ handle[o] = file
      BY <1>1, <3>1 DEF Engaged, LastFile
    <3> QED
      BY <1>1, <3>1, <3>2, <3>3 DEF FloorInOrder
  <2> QED
    BY <1>1, <1>3, <2>1 DEF FloorInOrder
<1> QED
  BY <1>2, <1>4, <1>5, <1>6, <1>7 DEF SweepInv

LEMMA ClaimStepStep ==
    ASSUME SweepInv, NEW o \in Owners, ClaimStep(o) PROVE SweepInv'
BY MakeDirStep, OpenLockStep, ClaimFailsStep, TakeLockStep, WriteIdentityStep, ReleaseStep,
   RemoveOwnStep DEF ClaimStep

-----------------------------------------------------------------------------
(* The sweep's own steps change no owner.                                   *)
LEMMA OwnersAsTheyWere ==
    ASSUME UNCHANGED <<life, claim, handle>>
    PROVE  /\ \A o \in Owners : (Alive(o)' <=> Alive(o)) /\ (Owning(o)' <=> Owning(o))
                                /\ (Engaged(o)' <=> Engaged(o))
           /\ OneClaimant => OneClaimant'
           /\ Come' = Come
BY DEF Alive, Owning, Engaged, OneClaimant, Come

LEMMA SweepLocksStep ==
    ASSUME SweepInv, SweepLocks PROVE SweepInv'
<1>1. /\ Shape /\ OneClaimant /\ LastFile /\ SweepInOrder /\ FloorInOrder
      /\ UNCHANGED <<floor, life, dir, claim, handle, reclaimed, file, made, content>>
      /\ sweep = "opened"
  BY DEF SweepInv, SweepLocks, Cleared, Retained, claimVars
<1>2. Shape'
  BY <1>1 DEF Shape, SweepLocks, Cleared, Retained
<1>3. CASE holder[opened] # Nobody
  <2>1. sweep' = "rest" /\ opened' = 0 /\ arrived' = {} /\ holder' = holder
    BY <1>3 DEF SweepLocks, Retained
  <2>2. LastFile' /\ SweepInOrder' /\ FloorInOrder'
    BY <1>1, <2>1, OwnersAsTheyWere DEF LastFile, SweepInOrder, FloorInOrder, Come
  <2> QED
    BY <1>1, <1>2, <2>2, OwnersAsTheyWere DEF SweepInv
<1>4. CASE holder[opened] = Nobody
  <2>1. /\ sweep' = "locked" /\ holder' = [holder EXCEPT ![opened] = Sweeper]
        /\ UNCHANGED <<opened, arrived>>
    BY <1>4 DEF SweepLocks, Cleared
  <2>2. opened \in Files /\ holder'[opened] = Sweeper
    BY <1>1, <2>1 DEF SweepInOrder, Shape
  <2>3. \A o \in Owners : Owning(o) => holder[handle[o]] = o /\ handle[o] \in Files
    BY <1>1 DEF LastFile, Owning, Engaged, Shape
  <2>4. \A o \in Owners : o # Nobody
    BY ProcsAssumption DEF Procs
  <2>5. \A o \in Owners : Owning(o) => handle[o] # opened /\ holder'[handle[o]] = o
    BY <1>1, <1>4, <2>1, <2>2, <2>3, <2>4 DEF Shape
  <2>6. LastFile'
    BY <1>1, <2>5, OwnersAsTheyWere DEF LastFile, Come
  <2>7. SweepInOrder'
    BY <1>1, <2>1, <2>2, <2>5, OwnersAsTheyWere DEF SweepInOrder
  <2>8. FloorInOrder'
    BY <1>1, <2>1, OwnersAsTheyWere DEF FloorInOrder
  <2> QED
    BY <1>1, <1>2, <2>6, <2>7, <2>8, OwnersAsTheyWere DEF SweepInv
<1> QED
  BY <1>3, <1>4

LEMMA SweepReadsStep ==
    ASSUME SweepInv, SweepReads PROVE SweepInv'
<1>1. /\ Shape /\ OneClaimant /\ LastFile /\ SweepInOrder /\ FloorInOrder
      /\ UNCHANGED <<floor, life, dir, claim, handle, reclaimed, file, made, content>>
      /\ sweep = "locked" /\ holder' = [holder EXCEPT ![opened] = Nobody]
      /\ \/ RecordsLive /\ sweep' = "rest" /\ opened' = 0 /\ arrived' = {}
         \/ ~RecordsLive /\ sweep' = "cleared" /\ UNCHANGED <<opened, arrived>>
  BY DEF SweepInv, SweepReads, Cleared, Retained, claimVars
<1>2. Shape'
  BY <1>1 DEF Shape
<1>3. \A o \in Owners : Owning(o) => holder'[handle[o]] = o
  <2> SUFFICES ASSUME NEW o \in Owners, Owning(o) PROVE holder'[handle[o]] = o
    OBVIOUS
  <2>1. holder[handle[o]] = o /\ handle[o] \in Files
    BY <1>1 DEF LastFile, Owning, Engaged, Shape
  <2>2. holder[opened] = Sweeper /\ o # Sweeper
    BY <1>1, ProcsAssumption DEF SweepInOrder, Procs
  <2> QED
    BY <1>1, <2>1, <2>2 DEF Shape
<1>4. LastFile'
  BY <1>1, <1>3, OwnersAsTheyWere DEF LastFile, Come
<1>5. ~RecordsLive => \A o \in Owners : ~(Alive(o) /\ claim[o] = "released" /\ file # 0)
  BY <1>1, ProcsAssumption DEF RecordsLive, LastFile, Procs
<1>6. SweepInOrder'
  BY <1>1, <1>5, OwnersAsTheyWere DEF SweepInOrder
<1>7. FloorInOrder'
  BY <1>1, OwnersAsTheyWere DEF FloorInOrder
<1> QED
  BY <1>1, <1>2, <1>4, <1>6, <1>7, OwnersAsTheyWere DEF SweepInv

LEMMA SweepJudgesStep ==
    ASSUME SweepInv, SweepOpens \/ SweepAges \/ SweepStamps PROVE SweepInv'
<1>1. /\ Shape /\ OneClaimant /\ LastFile /\ SweepInOrder /\ FloorInOrder
      /\ UNCHANGED <<floor, life, dir, claim, handle, reclaimed, file, made, content, holder>>
  BY DEF SweepInv, SweepOpens, SweepAges, SweepStamps, claimVars, lockVars
<1>2. \/ sweep = "rest" /\ file # 0 /\ sweep' = "opened" /\ opened' = file /\ arrived' = {}
      \/ sweep' = "rest" /\ opened' = 0 /\ arrived' = {}
      \/ sweep = "cleared" /\ ~TooYoung /\ sweep' = "aged" /\ UNCHANGED <<opened, arrived>>
      \/ sweep = "aged" /\ sweep' = "unnamed" /\ UNCHANGED <<opened, arrived>>
  BY DEF SweepOpens, SweepAges, SweepStamps, Retained, Cleared
<1>3. Shape'
  BY <1>1, <1>2 DEF Shape
<1>4. LastFile'
  BY <1>1, OwnersAsTheyWere DEF LastFile, Come
<1>5. SweepInOrder'
  <2>1. file # 0 => file \in Files /\ file = made /\ file <= made
    BY <1>1 DEF LastFile, Shape, Files
  <2>2. \A o \in Owners : Owning(o) /\ file # 0 => handle[o] = file
    BY <1>1, <2>1 DEF LastFile, Owning, Engaged
  <2> QED
    BY <1>1, <1>2, <2>1, <2>2, OwnersAsTheyWere DEF SweepInOrder
<1>6. FloorInOrder'
  BY <1>1, <1>2, OwnersAsTheyWere DEF FloorInOrder, TooYoung
<1> QED
  BY <1>1, <1>3, <1>4, <1>5, <1>6, OwnersAsTheyWere DEF SweepInv

LEMMA SweepRemovesStep ==
    ASSUME SweepInv, SweepRemoves PROVE SweepInv'
<1>1. /\ Shape /\ OneClaimant /\ LastFile /\ SweepInOrder /\ FloorInOrder
      /\ UNCHANGED <<floor, life, claim, handle, reclaimed, made, content, holder>>
      /\ sweep' = "rest" /\ opened' = 0 /\ arrived' = {} /\ dir' = "none" /\ file' = 0
  BY DEF SweepInv, SweepRemoves, Retained, claimVars
<1>2. Shape'
  BY <1>1 DEF Shape
<1>3. LastFile'
  BY <1>1, OwnersAsTheyWere DEF LastFile, Come
<1>4. SweepInOrder'
  BY <1>1 DEF SweepInOrder
<1>5. \A o \in Owners : Engaged(o) => handle[o] # 0
  BY <1>1 DEF LastFile
<1>6. FloorInOrder'
  BY <1>1, <1>5, OwnersAsTheyWere DEF FloorInOrder
<1> QED
  BY <1>1, <1>2, <1>3, <1>4, <1>6, OwnersAsTheyWere DEF SweepInv

LEMMA AgeStep ==
    ASSUME SweepInv, Age PROVE SweepInv'
<1>1. /\ Shape /\ OneClaimant /\ LastFile /\ SweepInOrder /\ FloorInOrder
      /\ UNCHANGED <<floor, life, claim, handle, reclaimed, file, made, content, holder,
                     sweep, opened, arrived>>
      /\ sweep = "rest" /\ dir = "young" /\ dir' = "old"
      /\ \A o \in Owners : Alive(o) => claim[o] \notin {"made", "opened", "locked"}
  BY DEF SweepInv, Age, claimVars, lockVars, sweepVars
<1>2. Shape'
  BY <1>1 DEF Shape
<1>3. LastFile'
  BY <1>1, OwnersAsTheyWere DEF LastFile, Come
<1>4. SweepInOrder'
  BY <1>1, OwnersAsTheyWere DEF SweepInOrder
<1>5. FloorInOrder'
  BY <1>1, OwnersAsTheyWere DEF FloorInOrder, Engaged
<1> QED
  BY <1>1, <1>2, <1>3, <1>4, <1>5, OwnersAsTheyWere DEF SweepInv

LEMMA SweepInvStep ==
    ASSUME ScratchInv, [Next]_vars PROVE SweepInv'
<1>0. SweepInv /\ joined \subseteq Workers
  BY DEF ScratchInv, TreeInOrder
<1>1. ASSUME NEW p \in Procs, Appear(p) PROVE SweepInv'
  BY <1>0, <1>1, BornStep, ProcsAssumption DEF Appear
<1>2. ASSUME NEW p \in Procs, Dies(p) PROVE SweepInv'
  <2>1. {p} \cup Inherits(p) \subseteq Procs
    BY <1>0 DEF Inherits, Procs
  <2> QED
    BY <1>0, <1>2, <2>1, EndedStep DEF Dies
<1>3. ASSUME NEW o \in Owners, ClaimStep(o) PROVE SweepInv'
  BY <1>0, <1>3, ClaimStepStep
<1>4. ASSUME NEW o \in Owners, NEW w \in Workers, NEW m \in Members, Launch(o, w, m)
      PROVE  SweepInv'
  BY <1>0, <1>4, BornStep, ProcsAssumption DEF Launch, Procs
<1>5. ASSUME NEW w \in Workers, Adopt(w) PROVE SweepInv'
  <2>1. /\ Shape /\ OneClaimant /\ LastFile /\ SweepInOrder /\ FloorInOrder
        /\ UNCHANGED <<floor, life, dir, claim, handle, reclaimed, file, made, content,
                       holder, sweep, opened, arrived>>
    BY <1>0, <1>5 DEF SweepInv, Adopt, claimVars, lockVars, sweepVars
  <2> QED
    BY <2>1 DEF SweepInv, Shape, OneClaimant, LastFile, SweepInOrder, FloorInOrder, Alive,
                Owning, Engaged
<1>6. ASSUME NEW w \in Workers, AdoptFails(w) PROVE SweepInv'
  BY <1>0, <1>6, EndedStep DEF AdoptFails, Procs
<1>7. ASSUME NEW w \in Workers, NEW child \in Workers, Fork(w, child) PROVE SweepInv'
  BY <1>0, <1>7, BornStep, ProcsAssumption DEF Fork, Procs
<1>8. ASSUME Signals PROVE SweepInv'
  <2>1. PICK S \in SUBSET Procs : Ended(S)
    BY <1>8 DEF Signals, Bearers
  <2> QED
    BY <1>0, <1>8, <2>1, EndedStep DEF Signals, ReapStep
<1>9. ASSUME NEW m, EndsJob(m) PROVE SweepInv'
  <2>1. PidsIn(m) \subseteq Procs
    BY <1>0 DEF PidsIn, Procs
  <2> QED
    BY <1>0, <1>9, <2>1, EndedStep DEF EndsJob, ReapStep
<1>10. ASSUME SweepStep PROVE SweepInv'
  BY <1>0, <1>10, SweepLocksStep, SweepReadsStep, SweepJudgesStep, SweepRemovesStep DEF SweepStep
<1>11. ASSUME UNCHANGED <<floor, life, dir, claim, handle, reclaimed, file, made, content,
                          holder, sweep, opened, arrived>>
       PROVE  SweepInv'
  BY <1>0, <1>11 DEF SweepInv, Shape, OneClaimant, LastFile, SweepInOrder, FloorInOrder,
                     Alive, Owning, Engaged
<1>12. ASSUME Reaping PROVE SweepInv'
  BY <1>8, <1>9, <1>11, <1>12
     DEF Reaping, ReapNames, ReapIdentifies, Checks, RoundEnds, ReapStep, claimVars, lockVars,
         sweepVars
<1>13. ASSUME Over \/ UNCHANGED vars PROVE SweepInv'
  BY <1>11, <1>13 DEF Over, vars, claimVars, lockVars, sweepVars
<1> QED
  BY <1>0, <1>1, <1>2, <1>3, <1>4, <1>5, <1>6, <1>7, <1>10, <1>12, <1>13, AgeStep DEF Next

-----------------------------------------------------------------------------
(* The tree and the reap.                                                   *)

(* The stamps of one host and the recorded jobs of the other name the same  *)
(* processes, once each is in its group.                                    *)
LEMMA FoundIsStamped ==
    ASSUME TreeInOrder, NEW s \in Members \cup {Root}
    PROVE  Found(s) = Stamped(s) /\ Stamped(Root) = joined
<1>1. \A w \in joined : scope[w] \in Members
  BY DEF TreeInOrder
<1>2. UNION {PidsIn(m) : m \in GroupsUnder(s)} = Stamped(s)
  BY <1>1, ProcsAssumption DEF PidsIn, GroupsUnder, Stamped
<1> QED
  BY <1>2 DEF Found, Stamped

(* A reap's part of the tree is what it was, whatever else begins or ends.  *)
LEMMA ReapKept ==
    ASSUME ReapInOrder, host' = host, Narrows,
           \A w \in Workers : life[w] # "unborn" =>
               life'[w] # "unborn" /\ (life'[w] = "alive" => Alive(w)),
           \A w \in joined : life'[w] = "alive" => w \in joined' /\ scope'[w] = scope[w]
    PROVE  ReapInOrder'
<1>1. PICK before, after : before = reap /\ after = reap'
  OBVIOUS
<1>2. /\ after.at = before.at /\ after.scope = before.scope /\ after.named = before.named
      /\ after.targets = before.targets /\ after.left \subseteq before.left
      /\ after.checked = Nobody \/ (after.checked = before.checked
                                   /\ after.bearers = before.bearers)
  BY <1>1 DEF Narrows
<1>3. /\ before.named \subseteq Workers
      /\ before.at \in {"rest", "named"} => before.checked = Nobody /\ before.left = {}
      /\ before.at = "asking" => host = "posix"
      /\ \A w \in before.named :
           /\ life[w] # "unborn"
           /\ Alive(w) => w \in joined /\ (before.scope = Root \/ scope[w] = before.scope)
      /\ \A p \in before.targets : \E w \in before.named : Pid[w] = Pid[p]
      /\ host = "posix" => before.left \subseteq before.targets
      /\ host = "windows" => before.left \subseteq GroupsUnder(before.scope)
      /\ before.checked # Nobody =>
           host = "posix" /\ before.checked \in before.targets
             /\ before.bearers = {before.checked}
  BY <1>1 DEF ReapInOrder, Reaps
<1>4. after \in Reaps
  BY <1>1 DEF Narrows, ReapInOrder, Reaps
<1>5. \A w \in before.named :
        /\ life'[w] # "unborn"
        /\ life'[w] = "alive" => w \in joined' /\ (before.scope = Root \/ scope'[w] = before.scope)
  BY <1>3
<1> QED
  BY <1>1, <1>2, <1>3, <1>4, <1>5 DEF ReapInOrder, Alive, GroupsUnder

LEMMA AtRestInOrder ==
    ASSUME reap' = Idle PROVE ReapInOrder'
BY DEF ReapInOrder, Reaps, Idle, Procs

LEMMA SameNarrows ==
    ASSUME ReapInOrder, reap' = reap PROVE Narrows
BY DEF Narrows, ReapInOrder, Reaps

(* Processes end: the tree loses them, and nobody else waits for them.      *)
LEMMA EndedTree ==
    ASSUME Shape, TreeInOrder, ReapInOrder, NEW S, S \subseteq Procs, Ended(S),
           UNCHANGED <<host, sweepVars>>
    PROVE  TreeInOrder' /\ (Narrows => ReapInOrder')
<1>1. /\ \A p \in Procs : life'[p] = IF p \in S THEN "dead" ELSE life[p]
      /\ \A o \in Owners : claim'[o] = IF o \in S THEN "over" ELSE claim[o]
      /\ \A w \in Workers : scope'[w] = IF w \in S THEN Nobody ELSE scope[w]
      /\ \A w \in Workers : boss'[w] = IF w \in S THEN Nobody ELSE boss[w]
      /\ scope' \in [Workers -> Members \cup {Nobody}] /\ boss' \in [Workers -> Owners \cup {Nobody}]
      /\ joined' = joined \ S /\ joined \subseteq Workers
      /\ UNCHANGED <<sweep, arrived>>
  BY DEF Ended, TreeInOrder, sweepVars
<1>2. /\ Owners \subseteq Procs /\ Workers \subseteq Procs /\ Nobody \notin Owners
  BY ProcsAssumption DEF Procs
<1>3. \A w \in Workers : Alive(w)' => /\ w \notin S /\ Alive(w) /\ boss'[w] = boss[w]
                                      /\ scope'[w] = scope[w] /\ (w \in joined' <=> w \in joined)
  BY <1>1, <1>2 DEF Alive
<1>4. TreeInOrder'
  <2>1. \A w \in joined' : Alive(w)' /\ scope'[w] \in Members
    BY <1>1, <1>2 DEF TreeInOrder, Alive
  <2>2. \A w \in Workers : boss'[w] \in Owners => life'[boss'[w]] # "unborn"
    BY <1>1, <1>2 DEF TreeInOrder
  <2>3. \A w \in Workers : Alive(w)' => boss'[w] \in Owners /\ scope'[w] \in Members
    BY <1>3 DEF TreeInOrder
  <2>4. \A w \in Workers : Waiting(w)' /\ life'[boss'[w]] = "alive" => claim'[boss'[w]] = "owns"
    <3> SUFFICES ASSUME NEW w \in Workers, Waiting(w)', life'[boss'[w]] = "alive"
                 PROVE  claim'[boss'[w]] = "owns"
      OBVIOUS
    <3>1. Waiting(w) /\ boss'[w] = boss[w] /\ boss[w] \in Owners
      BY <1>3 DEF Waiting, TreeInOrder
    <3>2. boss[w] \notin S /\ Alive(boss[w])
      BY <1>1, <1>2, <3>1 DEF Alive
    <3>3. claim[boss[w]] = "owns"
      BY <3>1, <3>2 DEF TreeInOrder
    <3> QED
      BY <1>1, <3>1, <3>2, <3>3
  <2>5. sweep' = "unnamed" => \A w \in joined' : boss'[w] \in arrived'
    BY <1>1 DEF TreeInOrder
  <2> QED
    BY <1>1, <2>1, <2>2, <2>3, <2>4, <2>5 DEF TreeInOrder, Alive
<1>5. Narrows => ReapInOrder'
  BY <1>1, <1>2, <1>3, ReapKept DEF Alive
<1> QED
  BY <1>4, <1>5

(* One process more begins under the directory, or is put in its group.     *)
LEMMA JoinedTree ==
    ASSUME SweepInv, TreeInOrder, ReapInOrder,
           \/ \E o \in Owners, w \in Workers, m \in Members : Launch(o, w, m)
           \/ \E w, child \in Workers : Fork(w, child)
           \/ \E w \in Workers : Adopt(w)
    PROVE  TreeInOrder' /\ ReapInOrder'
<1>0. /\ \A o \in Owners : Owning(o) /\ sweep = "unnamed" => o \in arrived
      /\ \A o \in Owners : Alive(o) /\ claim[o] = "owns" => Owning(o)
      /\ life \in [Procs -> {"unborn", "alive", "dead"}]
      /\ Owners \subseteq Procs /\ Workers \subseteq Procs
      /\ Owners \cap Workers = {} /\ Nobody \notin Owners
  BY ProcsAssumption DEF SweepInv, SweepInOrder, Shape, Owning, Procs
<1>1. ASSUME NEW o \in Owners, NEW w \in Workers, NEW m \in Members, Launch(o, w, m)
      PROVE  TreeInOrder' /\ ReapInOrder'
  <2>1. /\ UNCHANGED <<host, claim, sweep, arrived, reap>> /\ Alive(o) /\ claim[o] = "owns"
        /\ life[w] = "unborn" /\ life'[w] = "alive" /\ scope'[w] = m /\ boss'[w] = o
        /\ \A p \in Procs \ {w} : life'[p] = life[p]
        /\ \A v \in Workers \ {w} : scope'[v] = scope[v] /\ boss'[v] = boss[v]
        /\ scope' \in [Workers -> Members \cup {Nobody}] /\ boss' \in [Workers -> Owners \cup {Nobody}]
        /\ joined \subseteq joined' /\ joined' \subseteq joined \cup {w}
    BY <1>0, <1>1 DEF Launch, Begin, claimVars, sweepVars, TreeInOrder
  <2>2. TreeInOrder'
    BY <1>0, <2>1 DEF TreeInOrder, Alive, Waiting
  <2> QED
    BY <1>0, <2>1, <2>2, SameNarrows, ReapKept DEF Alive, TreeInOrder
<1>2. ASSUME NEW w \in Workers, NEW child \in Workers, Fork(w, child)
      PROVE  TreeInOrder' /\ ReapInOrder'
  <2>1. /\ UNCHANGED <<host, claim, sweep, arrived, reap>> /\ w \in joined
        /\ life[child] = "unborn" /\ life'[child] = "alive"
        /\ scope'[child] = scope[w] /\ boss'[child] = boss[w]
        /\ \A p \in Procs \ {child} : life'[p] = life[p]
        /\ \A v \in Workers \ {child} : scope'[v] = scope[v] /\ boss'[v] = boss[v]
        /\ scope' \in [Workers -> Members \cup {Nobody}] /\ boss' \in [Workers -> Owners \cup {Nobody}]
        /\ joined' = joined \cup {child}
    BY <1>0, <1>2 DEF Fork, Begin, claimVars, sweepVars, TreeInOrder
  <2>2. TreeInOrder'
    BY <1>0, <2>1 DEF TreeInOrder, Alive, Waiting
  <2> QED
    BY <1>0, <2>1, <2>2, SameNarrows, ReapKept DEF Alive, TreeInOrder
<1>3. ASSUME NEW w \in Workers, Adopt(w) PROVE TreeInOrder' /\ ReapInOrder'
  <2>1. /\ UNCHANGED <<host, life, claim, scope, boss, sweep, arrived, reap>>
        /\ Waiting(w) /\ Alive(boss[w]) /\ joined' = joined \cup {w}
    BY <1>3 DEF Adopt, claimVars, sweepVars
  <2>2. boss[w] \in Owners /\ scope[w] \in Members /\ claim[boss[w]] = "owns"
    BY <2>1 DEF TreeInOrder, Waiting
  <2>3. TreeInOrder'
    BY <1>0, <2>1, <2>2 DEF TreeInOrder, Alive, Waiting
  <2> QED
    BY <1>0, <2>1, <2>3, SameNarrows, ReapKept DEF Alive, TreeInOrder
<1> QED
  BY <1>1, <1>2, <1>3

(* Owners come and go, and the sweep goes on, beside the tree.              *)
LEMMA TreeStays ==
    ASSUME Shape, TreeInOrder, UNCHANGED treeVars,
           \A p \in Procs : life[p] # "unborn" => life'[p] = life[p],
           \A w \in Workers : life'[w] = life[w],
           \A w \in Workers : Waiting(w) /\ boss[w] \in Owners /\ claim[boss[w]] = "owns"
                                => claim'[boss[w]] = "owns",
           sweep' = "unnamed" => (sweep = "unnamed" /\ arrived \subseteq arrived')
                                 \/ joined = {}
    PROVE  TreeInOrder' /\ (ReapInOrder /\ host' = host /\ Narrows => ReapInOrder')
<1>1. /\ UNCHANGED <<scope, boss, joined>> /\ Owners \subseteq Procs
      /\ \A w \in Workers : (Alive(w)' <=> Alive(w)) /\ (Waiting(w)' <=> Waiting(w))
      /\ \A w \in Workers : boss[w] \in Owners => life'[boss[w]] = life[boss[w]]
  BY DEF treeVars, Procs, Alive, Waiting, TreeInOrder
<1>2. TreeInOrder'
  BY <1>1 DEF TreeInOrder, Alive, Waiting
<1>3. ReapInOrder /\ host' = host /\ Narrows => ReapInOrder'
  BY <1>1, ReapKept DEF Alive, TreeInOrder
<1> QED
  BY <1>2, <1>3

LEMMA ClaimTree ==
    ASSUME ScratchInv, NEW o \in Owners, ClaimStep(o) PROVE TreeInOrder' /\ ReapInOrder'
<1>1. /\ Shape /\ TreeInOrder /\ ReapInOrder
      /\ UNCHANGED <<host, scope, boss, joined, sweep, reap>> /\ o \in Procs
  BY DEF ScratchInv, SweepInv, ClaimStep, MakeDir, OpenLock, OpenFails, TakeLock, Refused,
         WriteIdentity, Release, RemoveOwn, treeVars, sweepVars, Procs
<1>2. arrived \subseteq arrived'
  BY DEF ClaimStep, MakeDir, OpenLock, OpenFails, TakeLock, Refused, WriteIdentity, Release,
         RemoveOwn, sweepVars
<1>3. life' = life \/ Begin(o)
  BY DEF ClaimStep, MakeDir, OpenLock, OpenFails, TakeLock, Refused, WriteIdentity, Release,
         RemoveOwn
<1>4. /\ \A p \in Procs : life[p] # "unborn" => life'[p] = life[p]
      /\ \A w \in Workers : life'[w] = life[w]
  BY <1>1, <1>3, ProcsAssumption DEF Begin, Shape, Procs
<1>5. ASSUME NEW w \in Workers, Waiting(w), boss[w] \in Owners, claim[boss[w]] = "owns"
      PROVE  claim'[boss[w]] = "owns"
  <2>1. PICK b \in Owners : b = boss[w]
    BY <1>5
  <2>2. CASE b # o
    <3>1. claim' \in {[claim EXCEPT ![o] = c] :
                        c \in {"made", "opened", "over", "locked", "owns", "released"}}
      BY DEF ClaimStep, MakeDir, OpenLock, OpenFails, TakeLock, Refused, WriteIdentity, Release,
             RemoveOwn, Claiming
    <3> QED
      BY <1>1, <1>5, <2>1, <2>2, <3>1 DEF Shape
  <2>3. CASE b = o
    <3>1. ~Release(o)
      BY <1>5, <2>1, <2>3 DEF Release
    <3>2. life[o] # "unborn"
      BY <1>1, <1>5, <2>1, <2>3 DEF TreeInOrder
    <3>3. FALSE
      BY <1>5, <2>1, <2>3, <3>1, <3>2
         DEF ClaimStep, MakeDir, OpenLock, OpenFails, TakeLock, Refused, WriteIdentity,
             RemoveOwn, Claiming, Begin
    <3> QED
      BY <3>3
  <2> QED
    BY <2>2, <2>3
<1> QED
  BY <1>1, <1>2, <1>4, <1>5, TreeStays, SameNarrows DEF treeVars

LEMMA SweepTree ==
    ASSUME ScratchInv, SweepStep \/ Age PROVE TreeInOrder' /\ ReapInOrder'
<1>1. /\ Shape /\ TreeInOrder /\ ReapInOrder
      /\ UNCHANGED <<host, life, claim, scope, boss, joined, reap>>
  BY DEF ScratchInv, SweepInv, SweepStep, Age, SweepOpens, SweepLocks, SweepReads, SweepAges,
         SweepStamps, SweepRemoves, treeVars, claimVars
<1>2. sweep' = "unnamed" => (sweep = "unnamed" /\ arrived \subseteq arrived') \/ joined = {}
  <2>1. CASE SweepStamps
    BY <1>1, <2>1, FoundIsStamped DEF SweepStamps, Retained, Cleared
  <2>2. CASE Age
    BY <2>2 DEF Age, sweepVars
  <2>3. CASE SweepStep /\ ~SweepStamps
    BY <2>3 DEF SweepStep, SweepOpens, SweepLocks, SweepReads, SweepAges, SweepRemoves,
                Retained, Cleared
  <2> QED
    BY <2>1, <2>2, <2>3
<1> QED
  BY <1>1, <1>2, TreeStays, SameNarrows DEF treeVars

(* A pid is given to one process at a time.                                 *)
LEMMA OneBearerStep ==
    ASSUME Shape, OneBearer, [Next]_vars PROVE OneBearer'
<1>1. ASSUME NEW p \in Procs, Begin(p) PROVE OneBearer'
  <2>1. /\ life'[p] = "alive" /\ \A q \in Procs \ {p} : life'[q] = life[q]
        /\ \A q \in Procs : Pid[q] = Pid[p] => ~Alive(q)
    BY <1>1 DEF Begin, Shape
  <2> QED
    BY <2>1 DEF OneBearer, Alive
<1>2. ASSUME NEW S, Ended(S) PROVE OneBearer'
  <2>1. \A p \in Procs : life'[p] = "alive" => life[p] = "alive"
    BY <1>2 DEF Ended
  <2> QED
    BY <2>1 DEF OneBearer, Alive
<1>3. ASSUME life' = life PROVE OneBearer'
  BY <1>3 DEF OneBearer, Alive
<1>4. ASSUME NEW o \in Owners, ClaimStep(o) PROVE OneBearer'
  <2>1. Begin(o) \/ life' = life
    BY <1>4 DEF ClaimStep, MakeDir, OpenLock, OpenFails, TakeLock, Refused, WriteIdentity,
                Release, RemoveOwn
  <2> QED
    BY <1>1, <1>3, <2>1 DEF Procs
<1>5. ASSUME Reaping PROVE OneBearer'
  BY <1>2, <1>3, <1>5
     DEF Reaping, ReapNames, ReapIdentifies, Checks, Signals, EndsJob, RoundEnds
<1>6. ASSUME SweepStep \/ Age \/ Over PROVE life' = life
  BY <1>6 DEF SweepStep, Age, Over, vars, SweepOpens, SweepLocks, SweepReads, SweepAges,
              SweepStamps, SweepRemoves
<1>7. ASSUME NEW p \in Procs, Appear(p) \/ Dies(p) PROVE OneBearer'
  BY <1>1, <1>2, <1>7 DEF Appear, Dies
<1>8. ASSUME NEW w \in Workers, Adopt(w) \/ AdoptFails(w) PROVE OneBearer'
  BY <1>2, <1>3, <1>8 DEF Adopt, AdoptFails
<1>9. ASSUME NEW w \in Workers,
             (\E o \in Owners, m \in Members : Launch(o, w, m)) \/ (\E v \in Workers : Fork(v, w))
      PROVE  OneBearer'
  BY <1>1, <1>9 DEF Launch, Fork, Procs
<1> QED
  BY <1>3, <1>4, <1>5, <1>6, <1>7, <1>8, <1>9 DEF Next, vars

(* The steps of a reap itself.                                              *)
LEMMA ReapTree ==
    ASSUME Shape, TreeInOrder, OneBearer, ReapInOrder, Reaping
    PROVE  TreeInOrder' /\ ReapInOrder'
<1>1. /\ joined \subseteq Workers /\ Workers \subseteq Procs /\ Nobody \notin Procs
      /\ host' = host
  BY ProcsAssumption
     DEF TreeInOrder, Procs, Reaping, ReapNames, ReapIdentifies, Checks, Signals, EndsJob,
         RoundEnds, ReapStep
<1>2. PICK held : held = reap
  OBVIOUS
<1>3. held \in Reaps
  BY <1>2 DEF ReapInOrder
<1>4. /\ \A w \in held.named :
           /\ life[w] # "unborn"
           /\ Alive(w) => w \in joined /\ (held.scope = Root \/ scope[w] = held.scope)
      /\ \A q \in held.targets : \E w \in held.named : Pid[w] = Pid[q]
      /\ host = "posix" => held.left \subseteq held.targets
      /\ host = "windows" => held.left \subseteq GroupsUnder(held.scope)
      /\ held.at = "asking" => host = "posix"
  BY <1>2 DEF ReapInOrder
<1>5. ASSUME UNCHANGED <<life, treeVars, claim, sweep, arrived>>
      PROVE  TreeInOrder' /\ (Narrows => ReapInOrder')
  BY <1>1, <1>5, TreeStays
<1>6. ASSUME NEW s \in Members \cup {Root}, ReapNames(s)
      PROVE  TreeInOrder' /\ ReapInOrder'
  <2>1. /\ UNCHANGED <<life, treeVars, claim, sweep, arrived>>
        /\ reap' = [Idle EXCEPT !.at = "named", !.scope = s, !.named = Found(s)]
    BY <1>6 DEF ReapNames, ReapStep, claimVars, sweepVars
  <2>2. Found(s) = Stamped(s) /\ UNCHANGED <<life, scope, joined>>
    BY <2>1, FoundIsStamped DEF treeVars
  <2>3. \A w \in Found(s) : /\ life[w] # "unborn" /\ w \in joined /\ w \in Workers
                            /\ s = Root \/ scope[w] = s
    BY <1>1, <2>2 DEF Stamped, TreeInOrder, Alive
  <2>4. reap' = [at |-> "named", scope |-> s, named |-> Found(s), targets |-> {}, left |-> {},
                 checked |-> Nobody, bearers |-> {}]
    BY <2>1 DEF Idle
  <2>5. ReapInOrder'
    BY <2>2, <2>3, <2>4 DEF ReapInOrder, Reaps, Alive
  <2> QED
    BY <1>5, <2>1, <2>5
<1>7. ASSUME ReapIdentifies PROVE TreeInOrder' /\ ReapInOrder'
  <2> DEFINE targets == Bearers(reap.named)
  <2>1. /\ UNCHANGED <<life, treeVars, claim, sweep, arrived>>
        /\ reap' = Idle \/ \E g \in {"asking", "compelling"},
                              l \in {targets, GroupsUnder(held.scope)} :
             /\ g = "asking" => host = "posix"
             /\ reap' = [held EXCEPT !.at = g, !.targets = targets, !.left = l]
             /\ host = "posix" => l = targets
             /\ host = "windows" => l = GroupsUnder(held.scope)
    BY <1>2, <1>7 DEF ReapIdentifies, ReapStep, claimVars, sweepVars
  <2>2. CASE reap' = Idle
    BY <1>5, <2>1, <2>2, AtRestInOrder
  <2>3. CASE reap' # Idle
    <3>1. PICK g \in {"asking", "compelling"}, l \in {targets, GroupsUnder(held.scope)} :
             /\ g = "asking" => host = "posix"
             /\ reap' = [held EXCEPT !.at = g, !.targets = targets, !.left = l]
             /\ host = "posix" => l = targets
             /\ host = "windows" => l = GroupsUnder(held.scope)
      BY <2>1, <2>3
    <3>2. /\ targets \subseteq Procs /\ \A p \in targets : \E w \in held.named : Pid[w] = Pid[p]
          /\ l \subseteq Procs \cup Members
      BY <1>2, <1>3 DEF Bearers, GroupsUnder, Reaps
    <3>3. TreeInOrder' /\ UNCHANGED <<host, life, scope, joined>>
      BY <1>1, <1>5, <2>1 DEF treeVars
    <3>4. held.checked = Nobody
      BY <1>2, <1>7 DEF ReapIdentifies, ReapInOrder
    <3> QED
      BY <1>2, <1>3, <3>1, <3>2, <3>3, <3>4 DEF ReapInOrder, Reaps, GroupsUnder, Alive
  <2> QED
    BY <2>2, <2>3
<1>8. ASSUME NEW p \in Procs \cup Members, Checks(p) PROVE TreeInOrder' /\ ReapInOrder'
  <2>1. /\ UNCHANGED <<life, treeVars, claim, sweep, arrived>>
        /\ host = "posix" /\ held.checked = Nobody /\ p \in held.left
        /\ reap' = IF StillItself(p)
                   THEN [held EXCEPT !.left = @ \ {p}, !.checked = p, !.bearers = Bearers({p})]
                   ELSE [held EXCEPT !.left = @ \ {p}]
    BY <1>2, <1>8 DEF Checks, ReapStep, claimVars, sweepVars
  <2>2. p \in held.targets /\ p \in Procs /\ held.at \notin {"rest", "named"}
    BY <1>2, <1>3, <2>1 DEF ReapInOrder, Reaps
  <2>3. CASE StillItself(p)
    <3>1. Bearers({p}) = {p}
      BY <2>2, <2>3 DEF Bearers, OneBearer, StillItself
    <3>2. reap' = [held EXCEPT !.left = @ \ {p}, !.checked = p, !.bearers = {p}]
      BY <2>1, <2>3, <3>1
    <3>3. TreeInOrder' /\ UNCHANGED <<host, life, scope, joined>>
      BY <1>1, <1>5, <2>1 DEF treeVars
    <3>4. PICK next : next = reap'
      OBVIOUS
    <3>5. next \in Reaps
      BY <1>3, <2>2, <3>2, <3>4 DEF Reaps
    <3>6. /\ next.scope = held.scope /\ next.named = held.named /\ next.targets = held.targets
          /\ next.at = held.at /\ next.left \subseteq held.left
          /\ next.checked = p /\ next.bearers = {p}
      BY <1>3, <2>2, <3>2, <3>4 DEF Reaps
    <3>7. /\ \A w \in next.named :
               /\ life'[w] # "unborn"
               /\ Alive(w)' => w \in joined' /\ (next.scope = Root \/ scope'[w] = next.scope)
          /\ \A q \in next.targets : \E w \in next.named : Pid[w] = Pid[q]
      BY <1>4, <3>3, <3>6 DEF Alive
    <3>8. /\ host' = "posix" => next.left \subseteq next.targets
          /\ host' = "windows" => next.left \subseteq GroupsUnder(next.scope)
          /\ next.at = "asking" => host' = "posix"
      BY <1>4, <3>3, <3>6
    <3>9. ReapInOrder'
      BY <2>1, <2>2, <3>3, <3>4, <3>6, <3>7, <3>8, <3>5 DEF ReapInOrder
    <3> QED
      BY <3>3, <3>9
  <2>4. CASE ~StillItself(p)
    <3>1. reap' = [held EXCEPT !.left = @ \ {p}]
      BY <2>1, <2>4
    <3>2. Narrows
      BY <1>2, <1>3, <3>1 DEF Narrows, Reaps
    <3> QED
      BY <1>5, <2>1, <3>2
  <2> QED
    BY <2>3, <2>4
<1>9. ASSUME Signals PROVE TreeInOrder' /\ ReapInOrder'
  <2>1. PICK S \in SUBSET Procs : Ended(S)
    BY <1>9 DEF Signals, Bearers
  <2>2. reap' = [held EXCEPT !.checked = Nobody, !.bearers = {}] /\ UNCHANGED sweepVars
    BY <1>2, <1>9 DEF Signals, ReapStep
  <2>3. Narrows
    BY <1>2, <1>3, <2>2 DEF Narrows, Reaps
  <2> QED
    BY <1>1, <2>1, <2>2, <2>3, EndedTree
<1>10. ASSUME NEW m, EndsJob(m) PROVE TreeInOrder' /\ ReapInOrder'
  <2>1. PidsIn(m) \subseteq Procs /\ Ended(PidsIn(m))
    BY <1>1, <1>10 DEF EndsJob, PidsIn
  <2>2. reap' = [held EXCEPT !.left = @ \ {m}] /\ UNCHANGED sweepVars
    BY <1>2, <1>10 DEF EndsJob, ReapStep
  <2>3. Narrows
    BY <1>2, <1>3, <2>2 DEF Narrows, Reaps
  <2> QED
    BY <1>1, <2>1, <2>2, <2>3, EndedTree
<1>11. ASSUME RoundEnds PROVE TreeInOrder' /\ ReapInOrder'
  <2>1. /\ UNCHANGED <<life, treeVars, claim, sweep, arrived>>
        /\ held.left = {} /\ held.checked = Nobody
        /\ reap' = IF held.at = "asking"
                   THEN [held EXCEPT !.at = "compelling", !.left = held.targets] ELSE Idle
    BY <1>2, <1>11 DEF RoundEnds, ReapStep, claimVars, sweepVars
  <2>2. CASE held.at = "asking"
    <3>1. reap' = [held EXCEPT !.at = "compelling", !.left = held.targets]
      BY <2>1, <2>2
    <3>2. TreeInOrder' /\ UNCHANGED <<host, life, scope, joined>>
      BY <1>1, <1>5, <2>1 DEF treeVars
    <3>3. host # "windows"
      BY <1>2, <2>2 DEF ReapInOrder
    <3>4. PICK next : next = reap'
      OBVIOUS
    <3>5. next \in Reaps
      BY <1>3, <2>1, <3>1, <3>4 DEF Reaps
    <3>6. /\ next.scope = held.scope /\ next.named = held.named /\ next.targets = held.targets
          /\ next.at = "compelling" /\ next.left = held.targets /\ next.checked = Nobody
      BY <1>3, <2>1, <3>1, <3>4 DEF Reaps
    <3>7. /\ \A w \in next.named :
               /\ life'[w] # "unborn"
               /\ Alive(w)' => w \in joined' /\ (next.scope = Root \/ scope'[w] = next.scope)
          /\ \A q \in next.targets : \E w \in next.named : Pid[w] = Pid[q]
      BY <1>4, <3>2, <3>6 DEF Alive
    <3>8. /\ host' = "posix" => next.left \subseteq next.targets
          /\ host' = "windows" => next.left \subseteq GroupsUnder(next.scope)
          /\ next.at = "asking" => host' = "posix"
      BY <1>4, <3>3, <3>2, <3>6
    <3>9. ReapInOrder'
      BY <3>2, <3>4, <3>6, <3>7, <3>8, <3>5 DEF ReapInOrder
    <3> QED
      BY <3>2, <3>9
  <2>3. CASE held.at # "asking"
    BY <1>5, <2>1, <2>3, AtRestInOrder
  <2> QED
    BY <2>2, <2>3
<1> QED
  BY <1>2, <1>3, <1>6, <1>7, <1>8, <1>9, <1>10, <1>11 DEF Reaping, Reaps

LEMMA TreeStep ==
    ASSUME ScratchInv, [Next]_vars PROVE TreeInOrder' /\ ReapInOrder'
<1>0. /\ SweepInv /\ Shape /\ TreeInOrder /\ ReapInOrder
      /\ OneBearer /\ joined \subseteq Workers
  BY DEF ScratchInv, SweepInv, TreeInOrder
<1>1. ASSUME NEW p \in Procs, Appear(p) PROVE TreeInOrder' /\ ReapInOrder'
  <2>1. /\ UNCHANGED <<host, claim, sweep, arrived, scope, boss, joined, reap>>
        /\ \A q \in Procs \ {p} : life'[q] = life[q]
        /\ life[p] = "unborn" /\ p \notin Workers
    BY <1>0, <1>1, ProcsAssumption DEF Appear, Begin, Shape, claimVars, treeVars, sweepVars
  <2>2. \A w \in Workers : life'[w] = life[w]
    BY <2>1 DEF Procs
  <2> QED
    BY <1>0, <2>1, <2>2, TreeStays, SameNarrows DEF treeVars
<1>2. ASSUME NEW p \in Procs, Dies(p) PROVE TreeInOrder' /\ ReapInOrder'
  <2>1. {p} \cup Inherits(p) \subseteq Procs
    BY <1>0 DEF Inherits, Procs
  <2> QED
    BY <1>0, <1>2, <2>1, EndedTree, SameNarrows DEF Dies
<1>3. ASSUME NEW w \in Workers, AdoptFails(w) PROVE TreeInOrder' /\ ReapInOrder'
  BY <1>0, <1>3, EndedTree, SameNarrows DEF AdoptFails, Procs
<1>4. ASSUME Reaping PROVE TreeInOrder' /\ ReapInOrder'
  BY <1>0, <1>4, ReapTree
<1>7. ASSUME Over \/ UNCHANGED vars PROVE TreeInOrder' /\ ReapInOrder'
  <2>1. UNCHANGED <<host, life, claim, sweep, arrived, scope, boss, joined, reap>>
    BY <1>7 DEF Over, vars, claimVars, treeVars, sweepVars
  <2> QED
    BY <1>0, <2>1, TreeStays, SameNarrows DEF treeVars
<1> QED
  BY <1>0, <1>1, <1>2, <1>3, <1>4, <1>7, JoinedTree, ClaimTree, SweepTree DEF Next

-----------------------------------------------------------------------------
(* In every state of every sweep and reap of a directory, whoever claims it *)
(* and whatever runs under it: there is one claimant at most and it has the *)
(* last lock file, the sweep has established what its judgements so far say, *)
(* everything a reap named is under what was asked for, or is over, and what *)
(* it is about to signal was, when it was looked at, the only one of its pid. *)
THEOREM ScratchInvHolds == SafeSpec => []ScratchInv
<1>1. Init => ScratchInv
  <2> SUFFICES ASSUME Init PROVE ScratchInv
    OBVIOUS
  <2>1. Shape /\ OneClaimant
    BY DEF Init, Shape, OneClaimant, Alive, Procs
  <2>2. LastFile
    <3>1. Cardinality(Come) \in Nat
      BY ComeIsBounded
    <3> QED
      BY <3>1 DEF Init, LastFile, Engaged, Owning, Alive, Come, Procs
  <2>3. SweepInOrder /\ FloorInOrder
    BY DEF Init, SweepInOrder, FloorInOrder, Engaged, Owning, Alive, Procs
  <2>4. TreeInOrder /\ OneBearer
    BY ProcsAssumption DEF Init, TreeInOrder, OneBearer, Waiting, Alive, Procs
  <2>5. ReapInOrder
    <3>1. reap = Idle
      BY DEF Init
    <3> QED
      BY <3>1 DEF ReapInOrder, Reaps, Idle
  <2> QED
    BY <2>1, <2>2, <2>3, <2>4, <2>5 DEF ScratchInv, SweepInv
<1>2. ScratchInv /\ [Next]_vars => ScratchInv'
  BY SweepInvStep, TreeStep, OneBearerStep DEF ScratchInv, SweepInv
<1> QED
  BY <1>1, <1>2, PTL DEF SafeSpec

(* A sweep takes a directory from a live owner, or from under a process that *)
(* names it, only where the owner claimed it while the sweep judged it, and *)
(* past a floor only where one of those found an older directory there.     *)
THEOREM LiveScratchStaysHolds == SafeSpec => LiveScratchStays
<1>1. ScratchInv /\ [Next]_vars =>
        [SweepRemoves =>
           /\ \A o \in Owners :
                Owning(o) /\ handle[o] = file
                   => o \in arrived /\ (floor => arrived \cap reclaimed # {})
           /\ \A w \in Found(Root) : boss[w] \in arrived]_vars
  <2> SUFFICES ASSUME ScratchInv, SweepRemoves
               PROVE  /\ \A o \in Owners :
                           Owning(o) /\ handle[o] = file
                              => o \in arrived /\ (floor => arrived \cap reclaimed # {})
                      /\ \A w \in Found(Root) : boss[w] \in arrived
    OBVIOUS
  <2>1. sweep = "unnamed" /\ Shape /\ SweepInOrder /\ FloorInOrder /\ TreeInOrder
    BY DEF ScratchInv, SweepInv, SweepRemoves, Retained
  <2>2. ASSUME NEW o \in Owners, Owning(o), handle[o] = file
        PROVE  o \in arrived /\ (floor => arrived \cap reclaimed # {})
    <3>1. o \in arrived /\ Engaged(o)
      BY <2>1, <2>2 DEF SweepInOrder, Owning, Engaged
    <3> QED
      BY <2>1, <2>2, <3>1 DEF FloorInOrder
  <2>3. \A w \in Found(Root) : boss[w] \in arrived
    BY <2>1, FoundIsStamped DEF TreeInOrder
  <2> QED
    BY <2>2, <2>3
<1> QED
  BY <1>1, ScratchInvHolds, PTL DEF SafeSpec, LiveScratchStays

(* Whatever a reap ends is in the tree it was asked for, whether it is named *)
(* by the stamps it carries or by the jobs recorded for it, or was given one *)
(* of the tree's pids in the instant between two readings of that pid.      *)
THEOREM ReapSparesStrangersHolds == SafeSpec => ReapSparesStrangers
<1>1. ScratchInv /\ [Next]_vars =>
        [Signals \/ (\E m \in Members : EndsJob(m)) =>
           \A p \in Procs : Alive(p) /\ ~Alive(p)' =>
             \/ p \in joined /\ (reap.scope = Root \/ scope[p] = reap.scope)
             \/ /\ host = "posix" /\ \E w \in reap.named : Pid[w] = Pid[p]
                /\ p \in reap.targets \ reap.named \/ p \notin reap.bearers]_vars
  <2> SUFFICES ASSUME ScratchInv, Signals \/ (\E m \in Members : EndsJob(m)),
                      NEW p \in Procs, Alive(p), ~Alive(p)'
               PROVE  \/ p \in joined /\ (reap.scope = Root \/ scope[p] = reap.scope)
                      \/ /\ host = "posix" /\ \E w \in reap.named : Pid[w] = Pid[p]
                         /\ p \in reap.targets \ reap.named \/ p \notin reap.bearers
    OBVIOUS
  <2>1. TreeInOrder /\ ReapInOrder
    BY DEF ScratchInv
  <2>2. \A S : Ended(S) => p \in S
    BY DEF Ended, Alive
  <2>3. CASE Signals
    <3>1. reap.checked # Nobody /\ Pid[p] = Pid[reap.checked]
      BY <2>2, <2>3 DEF Signals, Bearers
    <3>2. /\ host = "posix" /\ reap.checked \in reap.targets
          /\ reap.bearers = {reap.checked}
          /\ \E w \in reap.named : Pid[w] = Pid[p]
      BY <2>1, <3>1 DEF ReapInOrder
    <3>3. CASE p # reap.checked
      BY <3>2, <3>3
    <3>4. CASE p = reap.checked /\ p \notin reap.named
      BY <3>2, <3>4
    <3>5. CASE p \in reap.named
      BY <2>1, <3>5 DEF ReapInOrder
    <3> QED
      BY <3>3, <3>4, <3>5
  <2>4. ASSUME NEW m \in Members, EndsJob(m)
        PROVE  p \in joined /\ (reap.scope = Root \/ scope[p] = reap.scope)
    <3>1. p \in PidsIn(m) /\ m \in GroupsUnder(reap.scope)
      BY <2>1, <2>2, <2>4 DEF EndsJob, ReapInOrder
    <3> QED
      BY <3>1 DEF PidsIn, GroupsUnder
  <2> QED
    BY <2>3, <2>4
<1> QED
  BY <1>1, ScratchInvHolds, PTL DEF SafeSpec, ReapSparesStrangers

=============================================================================
