---------------------------- MODULE ScratchSweep ----------------------------
(* One scratch directory, from its claim to its removal: the owners that    *)
(* claim it one after another (scratch.rs), the processes launched under    *)
(* it, a sweep that judges it (sweep.rs) and a reap of what it holds.       *)
(*                                                                          *)
(* A process is an incarnation: the pair of a pid and a start token of the  *)
(* code. Incarnations that share a pid never live at the same time. A lock  *)
(* file is a number: a directory made again has a new one, and whoever      *)
(* opened the old one still holds that.                                     *)
EXTENDS Naturals, FiniteSets

CONSTANTS
    Owners,     \* processes that may claim the directory
    Keepers,    \* those of them that keep() it
    Workers,    \* processes that may be launched under it
    Strangers,  \* processes that have nothing to do with it
    Members,    \* the members whose own directories lie below it
    Pid,        \* the pid of each process
    Root,       \* the scope of the whole directory
    Sweeper,    \* the process that sweeps
    Nobody

Procs == Owners \cup Workers \cup Strangers

\* The directory is named after its claimant's pid, so owners have one pid
ASSUME ProcsAssumption ==
    /\ IsFiniteSet(Owners)
    /\ \A o, p \in Owners : Pid[o] = Pid[p]
    /\ Keepers \subseteq Owners
    /\ Owners \cap Workers = {}
    /\ (Owners \cup Workers) \cap Strangers = {}
    /\ {Sweeper, Nobody} \cap Procs = {}
    /\ Sweeper # Nobody
    /\ Root \notin Members
    /\ DOMAIN Pid = Procs

Files == 1..Cardinality(Owners)

VARIABLES
    host,       \* "posix" or "windows": how membership of a tree is proven
    floor,      \* whether this sweep spares what was written recently
    life,       \* "unborn", "alive" or "dead"
    dir,        \* "none", "young" or "old": the directory and its mtime
    file,       \* the lock file in it, 0 for none
    made,       \* how many lock files have been made
    content,    \* the owner each lock file records, or Nobody
    holder,     \* who holds each lock file's lock
    claim,      \* where each owner is in Owned::claim and Drop
    handle,     \* the lock file each owner opened
    reclaimed,  \* owners whose claim opened a lock file that was there
    scope,      \* the member each worker was launched for, or Nobody
    boss,       \* the owner that holds each worker's group open
    joined,     \* workers a scan of the directory finds
    sweep,      \* where the sweep is
    opened,     \* the lock file the sweep opened
    arrived,    \* owners that took their lock since the sweep opened its own
    reap        \* the reap under way

claimVars == <<claim, handle, reclaimed>>
lockVars  == <<file, made, content, holder>>
treeVars  == <<scope, boss, joined>>
sweepVars == <<sweep, opened, arrived>>
vars == <<host, floor, life, dir, claimVars, lockVars, treeVars, sweepVars, reap>>

Alive(p) == life[p] = "alive"

\* enumerate: whose environment has the stamp of scope s, or of one below it
Stamped(s) == {w \in joined : s = Root \/ scope[w] = s}

\* groups_under: the directories whose record a walk from s comes to
GroupsUnder(s) == IF s = Root THEN Members ELSE {s}

\* pids_in: what the jobs recorded for one directory hold
PidsIn(m) == {w \in joined : scope[w] = m}

\* stamped_for, on either host; a job nobody recorded is not found
Found(s) ==
    IF host = "posix" THEN Stamped(s) ELSE UNION {PidsIn(m) : m \in GroupsUnder(s)}

\* born, and not yet in its group
Waiting(w) == Alive(w) /\ w \notin joined

Reaps ==
    [at : {"rest", "named", "asking", "compelling"}, scope : Members \cup {Root},
     named : SUBSET Workers, targets : SUBSET Procs, left : SUBSET (Procs \cup Members),
     checked : Procs \cup {Nobody}, bearers : SUBSET Procs]

Idle == [at |-> "rest", scope |-> Root, named |-> {}, targets |-> {}, left |-> {},
         checked |-> Nobody, bearers |-> {}]

TypeOK ==
    /\ host \in {"posix", "windows"} /\ floor \in BOOLEAN
    /\ life \in [Procs -> {"unborn", "alive", "dead"}]
    /\ dir \in {"none", "young", "old"}
    /\ file \in {0} \cup Files /\ made \in {0} \cup Files
    /\ content \in [Files -> Owners \cup {Nobody}]
    /\ holder \in [Files -> Owners \cup {Sweeper, Nobody}]
    /\ claim \in [Owners -> {"idle", "made", "opened", "locked", "owns",
                             "released", "over"}]
    /\ handle \in [Owners -> {0} \cup Files]
    /\ reclaimed \subseteq Owners /\ arrived \subseteq Owners
    /\ scope \in [Workers -> Members \cup {Nobody}]
    /\ boss \in [Workers -> Owners \cup {Nobody}]
    /\ joined \subseteq Workers
    /\ sweep \in {"rest", "opened", "locked", "cleared", "aged", "unnamed"}
    /\ opened \in {0} \cup Files
    /\ reap \in Reaps

Init ==
    /\ host \in {"posix", "windows"} /\ floor \in BOOLEAN
    /\ life = [p \in Procs |-> "unborn"]
    /\ dir = "none" /\ file = 0 /\ made = 0
    /\ content = [f \in Files |-> Nobody]
    /\ holder = [f \in Files |-> Nobody]
    /\ claim = [o \in Owners |-> "idle"]
    /\ handle = [o \in Owners |-> 0]
    /\ reclaimed = {} /\ arrived = {}
    /\ scope = [w \in Workers |-> Nobody]
    /\ boss = [w \in Workers |-> Nobody]
    /\ joined = {}
    /\ sweep = "rest" /\ opened = 0
    /\ reap = Idle

-----------------------------------------------------------------------------
(* Processes begin and end as the operating system has them do.             *)

Begin(p) ==
    /\ life[p] = "unborn"
    /\ \A q \in Procs : Pid[q] = Pid[p] => ~Alive(q)
    /\ life' = [life EXCEPT ![p] = "alive"]

\* something that has nothing to do with the directory begins
Appear(p) ==
    /\ p \in Strangers
    /\ Begin(p)
    /\ UNCHANGED <<host, floor, dir, claimVars, lockVars, treeVars, sweepVars, reap>>

\* a job is KILL_ON_JOB_CLOSE: on Windows a group dies with whoever holds it
Inherits(p) ==
    IF host = "windows" /\ p \in Owners THEN {w \in joined : boss[w] = p} ELSE {}

\* whatever ends leaves the kernel's tables, and what it held is released
Ended(dying) ==
    /\ life' = [p \in Procs |-> IF p \in dying THEN "dead" ELSE life[p]]
    /\ holder' = [f \in Files |-> IF holder[f] \in dying THEN Nobody ELSE holder[f]]
    /\ claim' = [o \in Owners |-> IF o \in dying THEN "over" ELSE claim[o]]
    /\ handle' = [o \in Owners |-> IF o \in dying THEN 0 ELSE handle[o]]
    /\ scope' = [w \in Workers |-> IF w \in dying THEN Nobody ELSE scope[w]]
    /\ boss' = [w \in Workers |-> IF w \in dying THEN Nobody ELSE boss[w]]
    /\ joined' = joined \ dying
    /\ UNCHANGED <<reclaimed, file, made, content>>

\* an exit, a crash or a kill from outside
Dies(p) ==
    /\ Alive(p)
    /\ Ended({p} \cup Inherits(p))
    /\ UNCHANGED <<host, floor, dir, sweepVars, reap>>

\* the directory's mtime is passed by the floor; a claim and a sweep each take
\* less time than that
Age ==
    /\ dir = "young" /\ sweep = "rest"
    /\ \A o \in Owners : Alive(o) => claim[o] \notin {"made", "opened", "locked"}
    /\ dir' = "old"
    /\ UNCHANGED <<host, floor, life, claimVars, lockVars, treeVars, sweepVars, reap>>

-----------------------------------------------------------------------------
(* Owned::claim and Drop for Owned.                                         *)

Claiming(o, from, to) ==
    /\ Alive(o) /\ claim[o] = from
    /\ claim' = [claim EXCEPT ![o] = to]

MakeDir(o) ==
    /\ Begin(o)
    /\ claim' = [claim EXCEPT ![o] = "made"]
    /\ dir' = IF dir = "none" THEN "young" ELSE dir
    /\ UNCHANGED <<host, floor, handle, reclaimed, lockVars, treeVars,
                   sweepVars, reap>>

\* opened for writing and truncated before it is locked
OpenLock(o) ==
    /\ Claiming(o, "made", "opened")
    /\ dir # "none"
    /\ LET f == IF file = 0 THEN made + 1 ELSE file IN
       /\ file' = f
       /\ made' = IF file = 0 THEN f ELSE made
       /\ dir' = IF file = 0 THEN "young" ELSE dir
       /\ reclaimed' = IF file = 0 THEN reclaimed ELSE reclaimed \cup {o}
       /\ content' = [content EXCEPT ![f] = Nobody]
       /\ handle' = [handle EXCEPT ![o] = f]
    /\ UNCHANGED <<host, floor, life, holder, treeVars, sweepVars, reap>>

OpenFails(o) ==
    /\ Claiming(o, "made", "over")
    /\ dir = "none"
    /\ UNCHANGED <<host, floor, life, dir, handle, reclaimed, lockVars, treeVars,
                   sweepVars, reap>>

TakeLock(o) ==
    /\ Claiming(o, "opened", "locked")
    /\ holder[handle[o]] = Nobody
    /\ holder' = [holder EXCEPT ![handle[o]] = o]
    /\ arrived' = arrived \cup {o}
    /\ UNCHANGED <<host, floor, life, dir, handle, reclaimed, file, made, content,
                   treeVars, sweep, opened, reap>>

Refused(o) ==
    /\ Claiming(o, "opened", "over")
    /\ holder[handle[o]] # Nobody
    /\ UNCHANGED <<host, floor, life, dir, handle, reclaimed, lockVars, treeVars,
                   sweepVars, reap>>

WriteIdentity(o) ==
    /\ Claiming(o, "locked", "owns")
    /\ content' = [content EXCEPT ![handle[o]] = o]
    /\ UNCHANGED <<host, floor, life, dir, handle, reclaimed, file, made, holder,
                   treeVars, sweepVars, reap>>

\* a run ends when its launches have returned
Release(o) ==
    /\ \A w \in Workers : boss[w] = o => ~Waiting(w)
    /\ Claiming(o, "owns", IF o \in Keepers THEN "over" ELSE "released")
    /\ holder' = [holder EXCEPT ![handle[o]] = Nobody]
    /\ UNCHANGED <<host, floor, life, dir, handle, reclaimed, file, made, content,
                   treeVars, sweepVars, reap>>

RemoveOwn(o) ==
    /\ Claiming(o, "released", "over")
    /\ dir' = "none" /\ file' = 0
    /\ UNCHANGED <<host, floor, life, handle, reclaimed, made, content, holder,
                   treeVars, sweepVars, reap>>

ClaimStep(o) ==
    \/ MakeDir(o) \/ OpenLock(o) \/ OpenFails(o) \/ TakeLock(o) \/ Refused(o)
    \/ WriteIdentity(o) \/ Release(o) \/ RemoveOwn(o)

-----------------------------------------------------------------------------
(* Group: a member's tree. On POSIX a process is born with the stamp. On    *)
(* Windows it is born suspended and runs only once a job of this directory  *)
(* holds it; for a child another supervisor contained, the job comes before *)
(* the record that lets a scan find it.                                     *)

Launch(o, w, m) ==
    /\ Alive(o) /\ claim[o] = "owns"
    /\ Begin(w)
    /\ scope' = [scope EXCEPT ![w] = m]
    /\ boss' = [boss EXCEPT ![w] = o]
    /\ joined' = IF host = "posix" THEN joined \cup {w} ELSE joined
    /\ UNCHANGED <<host, floor, dir, claimVars, lockVars, sweepVars, reap>>

Adopt(w) ==
    /\ Waiting(w) /\ Alive(boss[w])
    /\ joined' = joined \cup {w}
    /\ UNCHANGED <<host, floor, life, dir, claimVars, lockVars, scope, boss,
                   sweepVars, reap>>

\* a child that cannot be put in its group is killed rather than run
AdoptFails(w) ==
    /\ Waiting(w) /\ Alive(boss[w])
    /\ Ended({w})
    /\ UNCHANGED <<host, floor, dir, sweepVars, reap>>

\* a running process starts another, which is in its tree from birth
Fork(w, child) ==
    /\ w \in joined
    /\ Begin(child)
    /\ scope' = [scope EXCEPT ![child] = scope[w]]
    /\ boss' = [boss EXCEPT ![child] = boss[w]]
    /\ joined' = joined \cup {child}
    /\ UNCHANGED <<host, floor, dir, claimVars, lockVars, sweepVars, reap>>

-----------------------------------------------------------------------------
(* reap_with, for a member that ends or for cancel --kill: what carries the  *)
(* stamp, then the identity each pid has, then two rounds of signals, each a *)
(* look at the identity and a signal to its pid. reap.bearers, a history,    *)
(* is who had that pid when the identity was looked at.                     *)

ReapStep == UNCHANGED <<host, floor, dir, sweepVars>>

Bearers(ps) == {p \in Procs : Alive(p) /\ \E q \in ps : Pid[p] = Pid[q]}

\* enumerate: the environments, and on Windows the lists of the jobs
ReapNames(s) ==
    /\ reap.at = "rest" /\ Found(s) # {}
    /\ reap' = [Idle EXCEPT !.at = "named", !.scope = s, !.named = Found(s)]
    /\ ReapStep /\ UNCHANGED <<life, claimVars, lockVars, treeVars>>

\* the start token of whoever has the pid by now. What Windows ends is the jobs
\* recorded, which it opens after the grace.
ReapIdentifies ==
    /\ reap.at = "named"
    /\ LET targets == Bearers(reap.named) IN
       reap' = IF targets = {} THEN Idle
               ELSE IF host = "posix"
                    THEN [reap EXCEPT !.at = "asking", !.targets = targets, !.left = targets]
                    ELSE [reap EXCEPT !.at = "compelling", !.targets = targets,
                                      !.left = GroupsUnder(reap.scope)]
    /\ ReapStep /\ UNCHANGED <<life, claimVars, lockVars, treeVars>>

\* mutant: a pid that is in use will do, whoever has it
AnyBearer(p) == Bearers({p}) # {}

\* is_live: the start token is still the one recorded
StillItself(p) == Alive(p)

\* the targets are sorted
Checks(p) ==
    /\ host = "posix" /\ reap.checked = Nobody /\ p \in reap.left
    /\ \A q \in reap.left : Pid[p] <= Pid[q]
    /\ reap' = IF StillItself(p)
               THEN [reap EXCEPT !.left = @ \ {p}, !.checked = p, !.bearers = Bearers({p})]
               ELSE [reap EXCEPT !.left = @ \ {p}]
    /\ ReapStep /\ UNCHANGED <<life, claimVars, lockVars, treeVars>>

\* kill: to the pid. SIGTERM may be declined, SIGKILL may not.
Signals ==
    /\ reap.checked # Nobody
    /\ \E ends \in IF reap.at = "asking" THEN SUBSET Bearers({reap.checked})
                                        ELSE {Bearers({reap.checked})} : Ended(ends)
    /\ reap' = [reap EXCEPT !.checked = Nobody, !.bearers = {}]
    /\ ReapStep

\* TerminateJobObject, one job at a time
EndsJob(m) ==
    /\ host = "windows" /\ m \in reap.left
    /\ Ended(PidsIn(m))
    /\ reap' = [reap EXCEPT !.left = @ \ {m}]
    /\ ReapStep

\* the grace is between the rounds
RoundEnds ==
    /\ reap.at \in {"asking", "compelling"} /\ reap.left = {} /\ reap.checked = Nobody
    /\ reap' = IF reap.at = "asking"
               THEN [reap EXCEPT !.at = "compelling", !.left = reap.targets] ELSE Idle
    /\ ReapStep /\ UNCHANGED <<life, claimVars, lockVars, treeVars>>

Reaping ==
    \/ \E s \in Members \cup {Root} : ReapNames(s)
    \/ ReapIdentifies
    \/ \E p \in reap.left : Checks(p) \/ EndsJob(p)
    \/ Signals \/ RoundEnds

-----------------------------------------------------------------------------
(* sweep::judge, with reclaimable and too_young.                            *)

\* no readable owner.lock: retained, and so nothing starts
SweepOpens ==
    /\ sweep = "rest" /\ file # 0
    /\ sweep' = "opened" /\ opened' = file /\ arrived' = {}
    /\ UNCHANGED <<host, floor, life, dir, claimVars, lockVars, treeVars, reap>>

Retained(from) ==
    sweep = from /\ sweep' = "rest" /\ opened' = 0 /\ arrived' = {}

Cleared(from, to) ==
    sweep = from /\ sweep' = to /\ UNCHANGED opened

SweepLocks ==
    /\ sweep = "opened"
    /\ IF holder[opened] = Nobody
       THEN /\ Cleared("opened", "locked")
            /\ holder' = [holder EXCEPT ![opened] = Sweeper]
            /\ UNCHANGED arrived
       ELSE Retained("opened") /\ UNCHANGED holder
    /\ UNCHANGED <<host, floor, life, dir, claimVars, file, made, content, treeVars,
                   reap>>

\* mutant: a record keeps the directory, whether its owner lives or not
RecordsAnybody == file # 0 /\ content[file] # Nobody

\* recorded_identity reads the path, not the file that was locked
RecordsLive == file # 0 /\ content[file] # Nobody /\ Alive(content[file])

SweepReads ==
    /\ IF RecordsLive THEN Retained("locked")
                      ELSE Cleared("locked", "cleared") /\ UNCHANGED arrived
    /\ holder' = [holder EXCEPT ![opened] = Nobody]
    /\ UNCHANGED <<host, floor, life, dir, claimVars, file, made, content, treeVars,
                   reap>>

\* mutant: nothing is too young
NeverTooYoung == FALSE

\* modified or changed inside the floor
TooYoung == floor /\ dir # "old"

SweepAges ==
    /\ IF TooYoung THEN Retained("cleared")
                   ELSE Cleared("cleared", "aged") /\ UNCHANGED arrived
    /\ UNCHANGED <<host, floor, life, dir, claimVars, lockVars, treeVars, reap>>

SweepStamps ==
    /\ IF Found(Root) # {} THEN Retained("aged")
                           ELSE Cleared("aged", "unnamed") /\ UNCHANGED arrived
    /\ UNCHANGED <<host, floor, life, dir, claimVars, lockVars, treeVars, reap>>

SweepRemoves ==
    /\ Retained("unnamed")
    /\ dir' = "none" /\ file' = 0
    /\ UNCHANGED <<host, floor, life, claimVars, made, content, holder, treeVars, reap>>

SweepStep ==
    SweepOpens \/ SweepLocks \/ SweepReads \/ SweepAges \/ SweepStamps \/ SweepRemoves

-----------------------------------------------------------------------------
\* every process that could begin has, and ended
Over ==
    /\ \A p \in Procs : life[p] # "alive"
    /\ UNCHANGED vars

Next ==
    \/ \E p \in Procs : Appear(p) \/ Dies(p)
    \/ \E o \in Owners : ClaimStep(o)
    \/ \E o \in Owners, w \in Workers, m \in Members : Launch(o, w, m)
    \/ \E w \in Workers : Adopt(w) \/ AdoptFails(w)
    \/ \E w, child \in Workers : Fork(w, child)
    \/ Reaping
    \/ SweepStep \/ Age
    \/ Over

SafeSpec == Init /\ [][Next]_vars

(* An operator keeps sweeping, and between sweeps time passes: Age is        *)
(* disabled while a sweep runs, so its fairness is strong.                  *)
Spec == SafeSpec /\ WF_vars(SweepStep) /\ SF_vars(Age)

-----------------------------------------------------------------------------
(* Properties.                                                              *)

Owning(o) == Alive(o) /\ claim[o] \in {"locked", "owns"}

\* A sweep takes a directory from a live owner, or from under a process that
\* names it, only when that owner took its lock after the sweep had opened the
\* lock file; and where the sweep has a floor, only when the directory was claimed,
\* while it swept, by an owner that found it there: that owner, or one whose
\* directory it was before.
LiveScratchStays ==
    [][SweepRemoves =>
         /\ \A o \in Owners :
              Owning(o) /\ handle[o] = file
                 => o \in arrived /\ (floor => arrived \cap reclaimed # {})
         /\ \A w \in Found(Root) : boss[w] \in arrived]_vars

\* What a reap ends is in the tree it was asked for, or was given a pid of that
\* tree between two readings of it: after the environment was read and before the
\* start token was, or after the start token was compared and before the signal.
\* However long it was between the rounds, nothing that the pid was given to then
\* is ended.
ReapSparesStrangers ==
    [][Signals \/ (\E m \in Members : EndsJob(m)) =>
         \A p \in Procs : Alive(p) /\ ~Alive(p)' =>
             \/ p \in joined /\ (reap.scope = Root \/ scope[p] = reap.scope)
             \/ /\ host = "posix" /\ \E w \in reap.named : Pid[w] = Pid[p]
                /\ p \in reap.targets \ reap.named \/ p \notin reap.bearers]_vars

\* What a killed or ended owner leaves, once what ran under it is gone.
Abandoned ==
    dir # "none" /\ Found(Root) = {} /\ \A o \in Owners : life[o] = "dead"

\* A directory whose owner and whose processes are gone is reclaimed, and no
\* stale lock, record or stamp keeps it; but one whose owner ended between making
\* it and making the lock file in it is never reclaimed, however often it is swept.
AbandonedIsReclaimed ==
    /\ [](Abandoned /\ file # 0 => <>(dir = "none"))
    /\ [](Abandoned /\ file = 0 /\ sweep = "rest" => []Abandoned)

=============================================================================
