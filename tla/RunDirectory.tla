---------------------------- MODULE RunDirectory ----------------------------
(* The life of a run in its directory under the state directory: run.rs     *)
(* run_announcing from the minted id to the record's exit code, the library *)
(* call `start` that waits to hear of it, `oneagentgraph run --detach`      *)
(* (main.rs detach), which relaunches the binary and learns the child's id  *)
(* from the records that appeared, and the readers of history.rs.           *)
(*                                                                          *)
(* What a run does between graph-started and graph-settled is Scheduler;    *)
(* who may remove its directory is ScratchSweep. Here a turn of the graph   *)
(* is one step, and a record is what a reader could parse it as.            *)
EXTENDS Integers, FiniteSets

CONSTANTS
    Runs,        \* the runs asked for, by `start` or by `run --detach`
    Host,        \* the process every call of `start` is made in
    LastMilli    \* the clock stops here: the bound on minted milliseconds

Nobody == "nobody"

ASSUME RunsAssumption ==
    /\ IsFiniteSet(Runs)
    /\ Host \notin Runs
    /\ Nobody \notin Runs
    /\ LastMilli \in Nat

\* std::process::id(): a detached run has a process of its own
Pids == Runs \cup {Host}

\* RunId: <slug>-<millis>-<pid>, for graphs of one name
Ids == (0 .. LastMilli) \X Pids
NoId == <<>>

\* EXIT_SUCCESS and EXIT_MEMBER_FAILED
Codes == {"success", "member_failed"}

\* What record.json can be parsed as: written before the invocations are
\* built, with every ref the run read, with the exit code
Parsed == {"early", "full"} \cup Codes

VARIABLES
    now,       \* SystemTime::now() in milliseconds
    at,        \* at[r]: what the run r does next, or how it ended
    id,        \* id[r]: the id it minted
    code,      \* code[r]: the exit code of its graph
    record,    \* record[i]: what a reader of i's record.json finds
    stream,    \* stream[i]: the last graph envelope of i's events.ndjson
    owner,     \* owner[i]: the run that holds the lock of i's directory
    heralds,   \* the runs whose announcement lies in its channel, or did
    told,      \* told[r]: where whoever asked for r is, or what it was told
    before,    \* before[r]: the ids `detach` saw before it spawned its child r
    named      \* named[r]: the id `detach` answered with

vars == <<now, at, id, code, record, stream, owner, heralds, told, before, named>>
disk == <<record, stream, owner>>
clients == <<heralds, told, before, named>>

-----------------------------------------------------------------------------
(* The order run_announcing works in. A stage is named for what is done     *)
(* next; "recording", "rewriting" and "finishing" are the second half of a  *)
(* write_record, between the truncation of record.json and its content.     *)
\* mutants: the exit code recorded before graph-settled is published; the
\* announcement made where the id is minted and recorded
RecordFirst ==
    <<"mint", "claim", "record", "recording", "rewrite", "rewriting",
      "announce", "begin", "serve", "finish", "finishing", "settle", "return", "over">>
AnnounceFirst ==
    <<"mint", "claim", "record", "recording", "announce", "rewrite",
      "rewriting", "begin", "serve", "settle", "finish", "finishing", "return", "over">>

Order ==
    <<"mint", "claim", "record", "recording", "rewrite", "rewriting",
      "announce", "begin", "serve", "settle", "finish", "finishing", "return", "over">>

Then(stage) == Order[1 + CHOOSE k \in 1 .. 13 : Order[k] = stage]

Ended == {"over", "refused", "failed", "panicked", "crashed"}
Working == {"claim", "record", "recording", "rewrite", "rewriting",
            "announce", "begin", "serve", "settle", "finish", "finishing", "return"}
Stages == {"idle", "mint"} \cup Working \cup Ended

\* Who asked for r: its pid is the child's own once `detach` has asked
Detaching == {"spawn", "polling", "named", "unrecorded"}
Pid(r) == IF told[r] \in Detaching THEN r ELSE Host

\* The stages in which a run holds its directory's lock
Holds(r) == at[r] \in Working \ {"claim"}
Live == {"begin", "serve", "settle"}

Advance(r) == at' = [at EXCEPT ![r] = Then(@)]

\* The lock goes with the process or with the value that owned the directory
Released(R) ==
    owner' = [i \in Ids |-> IF owner[i] \in R THEN Nobody ELSE owner[i]]

-----------------------------------------------------------------------------
(* The run.                                                                 *)

\* Everything before the id: the graph, its overrides and its filter are read
Mint(r) ==
    /\ at[r] = "mint"
    /\ now < LastMilli
    /\ id' = [id EXCEPT ![r] = <<now, Pid(r)>>]
    /\ Advance(r)
    /\ UNCHANGED <<now, code, disk, clients>>

LockFree(i) == owner[i] = Nobody

\* Owned::claim, whose lock is refused while another handle holds it; then the
\* signal directory, and File::create over the events file
Claim(r) ==
    /\ at[r] = "claim"
    /\ LockFree(id[r])
    /\ owner' = [owner EXCEPT ![id[r]] = r]
    /\ stream' = [stream EXCEPT ![id[r]] = "empty"]
    /\ Advance(r)
    /\ UNCHANGED <<now, id, code, record, clients>>

\* std::fs::write truncates record.json, and then fills it
Truncate(r) ==
    /\ at[r] \in {"record", "rewrite", "finish"}
    /\ record' = [record EXCEPT ![id[r]] = "torn"]
    /\ Advance(r)
    /\ UNCHANGED <<now, id, code, stream, owner, clients>>

Written(r) == CASE at[r] = "recording" -> "early"
                [] at[r] = "rewriting" -> "full"
                [] at[r] = "finishing" -> code[r]

Fill(r) ==
    /\ at[r] \in {"recording", "rewriting", "finishing"}
    /\ record' = [record EXCEPT ![id[r]] = Written(r)]
    /\ Advance(r)
    /\ UNCHANGED <<now, id, code, stream, owner, clients>>

\* announce(run_id): the scheduler thread tells `start`; nobody else listens
Announce(r) ==
    /\ at[r] = "announce"
    /\ heralds' = heralds \cup {r}
    /\ Advance(r)
    /\ UNCHANGED <<now, id, code, disk, told, before, named>>

Begin(r) ==
    /\ at[r] = "begin"
    /\ stream' = [stream EXCEPT ![id[r]] = "started"]
    /\ Advance(r)
    /\ UNCHANGED <<now, id, code, record, owner, clients>>

\* The graph: a run with a process to launch takes a millisecond at least
Serve(r) ==
    /\ at[r] = "serve"
    /\ now > id[r][1]
    /\ \E c \in Codes : code' = [code EXCEPT ![r] = c]
    /\ Advance(r)
    /\ UNCHANGED <<now, id, disk, clients>>

PublishSettled(r) ==
    /\ at[r] = "settle"
    /\ stream' = [stream EXCEPT ![id[r]] = code[r]]
    /\ Advance(r)
    /\ UNCHANGED <<now, id, code, record, owner, clients>>

\* reap, the result, and the lock with the last of the function's values
Return(r) ==
    /\ at[r] = "return"
    /\ Released({r})
    /\ Advance(r)
    /\ UNCHANGED <<now, id, code, record, stream, clients>>

\* What `?` returns early with before graph-started. An invocation that cannot
\* be built is refused before the record is rewritten with the refs it read.
Refuse(r) ==
    /\ \/ at[r] \in {"mint", "record", "recording", "rewrite", "rewriting"}
       \/ at[r] = "claim" /\ ~LockFree(id[r])
    /\ at' = [at EXCEPT ![r] = "refused"]
    /\ Released({r})
    /\ UNCHANGED <<now, id, code, record, stream, clients>>

LastWriteFails(r) ==
    /\ at[r] \in {"finish", "finishing"}
    /\ at' = [at EXCEPT ![r] = "failed"]
    /\ Released({r})
    /\ UNCHANGED <<now, id, code, record, stream, clients>>

\* Bound: without a directory, before the announcement, and after it
PanicPoints == {"mint", "rewrite", "serve"}

\* A scheduler thread that panics takes its channels and its lock with it
Panic(r) ==
    /\ told[r] \notin Detaching
    /\ at[r] \in PanicPoints
    /\ at' = [at EXCEPT ![r] = "panicked"]
    /\ Released({r})
    /\ UNCHANGED <<now, id, code, record, stream, clients>>

\* A process killed at any point: its files stay as they were
Crash(p) ==
    LET lost == {r \in Runs : Pid(r) = p /\ at[r] \notin Ended \cup {"idle"}}
    IN  /\ lost # {}
        /\ at' = [r \in Runs |-> IF r \in lost THEN "crashed" ELSE at[r]]
        /\ Released(lost)
        /\ told' = [r \in Runs |-> IF p = Host /\ r \in lost THEN "dead" ELSE told[r]]
        /\ UNCHANGED <<now, id, code, record, stream, heralds, before, named>>

Tick ==
    /\ now < LastMilli
    /\ now' = now + 1
    /\ UNCHANGED <<at, id, code, disk, clients>>

-----------------------------------------------------------------------------
(* run::start: a loop of recv_timeout on the announcement's channel, which  *)
(* looks at the result's channel each time the wait runs out.               *)

Announced(r) == r \in heralds
Start(r) ==
    /\ told[r] = "idle"
    /\ at' = [at EXCEPT ![r] = "mint"]
    /\ told' = [told EXCEPT ![r] = "waiting"]
    /\ UNCHANGED <<now, id, code, disk, heralds, before, named>>

Hears(r, what) ==
    /\ told' = [told EXCEPT ![r] = what]
    /\ UNCHANGED <<now, at, id, code, disk, heralds, before, named>>

HearStarted(r) ==
    /\ told[r] = "waiting" /\ Announced(r)
    /\ Hears(r, "handle")

WaitRunsOut(r) ==
    /\ told[r] = "waiting" /\ ~Announced(r) /\ at[r] \notin Ended
    /\ Hears(r, "looking")

\* try_recv: an error is passed on, an exit code is "ended without ever starting"
LookForResult(r) ==
    /\ told[r] = "looking"
    /\ Hears(r, CASE at[r] = "over" -> "never started"
                  [] at[r] \in {"refused", "failed"} -> "error"
                  [] OTHER -> "waiting")

\* The announcement's sender is gone and had sent nothing: the result, or
\* "stopped without a result". Mutant: the arm taken for a result alone.
OnlyAResult(r) == at[r] = "refused"
Gone(r) == at[r] \in {"refused", "panicked"}

HearNothing(r) ==
    /\ told[r] = "waiting" /\ ~Announced(r) /\ Gone(r)
    /\ Hears(r, "error")

-----------------------------------------------------------------------------
(* `run --detach`: the records that are there, the child, and then the      *)
(* first record that was not there, for ten seconds.                        *)

\* history::list passes over a directory whose record it cannot read
Readable(i) == record[i] \in Parsed
Listed == {i \in Ids : Readable(i)}

\* Latest start first; a tie goes to the smaller id, which is any of them here
Foremost(I) == CHOOSE i \in I : \A j \in I : j[1] <= i[1]

\* The preflight: what the child would refuse is refused before it is spawned
RefuseDetach(r) ==
    /\ told[r] = "idle"
    /\ Hears(r, "refused")

Snapshot(r) ==
    /\ told[r] = "idle"
    /\ before' = [before EXCEPT ![r] = Listed]
    /\ told' = [told EXCEPT ![r] = "spawn"]
    /\ UNCHANGED <<now, at, id, code, disk, heralds, named>>

Spawn(r) ==
    /\ told[r] = "spawn"
    /\ at' = [at EXCEPT ![r] = "mint"]
    /\ told' = [told EXCEPT ![r] = "polling"]
    /\ UNCHANGED <<now, id, code, disk, heralds, before, named>>

Poll(r) ==
    /\ told[r] = "polling"
    /\ Listed \ before[r] # {}
    /\ told' = [told EXCEPT ![r] = "named"]
    /\ named' = [named EXCEPT ![r] = Foremost(Listed \ before[r])]
    /\ UNCHANGED <<now, at, id, code, disk, heralds, before>>

PollExpires(r) ==
    /\ told[r] = "polling"
    /\ Listed \ before[r] = {}
    /\ Hears(r, "unrecorded")

-----------------------------------------------------------------------------
Init ==
    /\ now = 0
    /\ at = [r \in Runs |-> "idle"]
    /\ id = [r \in Runs |-> NoId]
    /\ code = [r \in Runs |-> "none"]
    /\ record = [i \in Ids |-> "absent"]
    /\ stream = [i \in Ids |-> "absent"]
    /\ owner = [i \in Ids |-> Nobody]
    /\ heralds = {}
    /\ told = [r \in Runs |-> "idle"]
    /\ before = [r \in Runs |-> {}]
    /\ named = [r \in Runs |-> NoId]

RunStep(r) ==
    \/ Mint(r) \/ Claim(r) \/ Truncate(r) \/ Fill(r)
    \/ Announce(r) \/ Begin(r) \/ Serve(r) \/ PublishSettled(r)
    \/ Return(r) \/ Refuse(r) \/ LastWriteFails(r) \/ Panic(r)

StartStep(r) ==
    HearStarted(r) \/ WaitRunsOut(r) \/ LookForResult(r) \/ HearNothing(r)

DetachStep(r) ==
    RefuseDetach(r) \/ Snapshot(r) \/ Spawn(r) \/ Poll(r) \/ PollExpires(r)

Next ==
    \/ \E r \in Runs : RunStep(r) \/ Start(r) \/ StartStep(r) \/ DetachStep(r)
    \/ \E p \in Pids : Crash(p)
    \/ Tick

SafeSpec == Init /\ [][Next]_vars

\* A thread that is not blocked goes on, and time does
Fairness ==
    /\ WF_vars(Tick)
    /\ \A r \in Runs : WF_vars(RunStep(r)) /\ WF_vars(StartStep(r))

Spec == SafeSpec /\ Fairness

-----------------------------------------------------------------------------
(* Safety.                                                                  *)

(* Every variable keeps its shape.                                          *)
TypeOK ==
    /\ now \in 0 .. LastMilli
    /\ at \in [Runs -> Stages]
    /\ id \in [Runs -> Ids \cup {NoId}]
    /\ code \in [Runs -> Codes \cup {"none"}]
    /\ record \in [Ids -> Parsed \cup {"absent", "torn"}]
    /\ stream \in [Ids -> Codes \cup {"absent", "empty", "started"}]
    /\ owner \in [Ids -> Runs \cup {Nobody}]
    /\ heralds \subseteq Runs
    /\ told \in [Runs -> Detaching \cup {"idle", "waiting", "looking", "handle", "error",
                                        "never started", "dead", "refused"}]
    /\ before \in [Runs -> SUBSET Ids]
    /\ named \in [Runs -> Ids \cup {NoId}]

(* A run that history shows with an exit code settled with that code on its *)
(* own stream, wherever the run was killed and whatever write failed: a     *)
(* reader of the record and a reader of the events never disagree about the *)
(* end (run_announcing). Two runs with one id may still overwrite each      *)
(* other in turn, the second claiming the directory the first let go.       *)
Shared(i) == \E r, q \in Runs : r # q /\ id[r] = i /\ id[q] = i

HistoryTellsTheTruth ==
    \A i \in Ids : ~Shared(i) /\ record[i] \in Codes => stream[i] = record[i]

(* Two runs of one process may mint the same id within a millisecond: the   *)
(* lock refuses the second, and no two runs ever work in one directory      *)
(* (RunId::mint, Owned::claim).                                             *)
(* Whoever holds a handle finds the run it names: while the graph is at     *)
(* work its record can be read, names every ref, and is not half written,   *)
(* so that `cancel`, `trigger` and `interrupt` reach it; and the run of a   *)
(* handle was never refused ("a refusal the caller receives instead of a  *)
(* handle to a run that never ran", run_announcing).                        *)
HandleFindsItsRun ==
    /\ \A r, q \in Runs : Holds(r) /\ Holds(q) /\ id[r] = id[q] => r = q
    /\ \A s \in Runs : told[s] = "handle" =>
          /\ at[s] # "refused"
          /\ at[s] \in Live => record[id[s]] = "full" /\ owner[id[s]] = s

(* Liveness.                                                                *)

(* A call of `start` is answered whatever becomes of the scheduler thread:  *)
(* started, refused, panicked before or after it announced (run::start).    *)
StartAnswers ==
    \A s \in Runs : told[s] = "waiting"
        ~> told[s] \in {"handle", "error", "never started", "dead"}

-----------------------------------------------------------------------------
(* Claims of the documents and comments that the code does not keep.        *)

(* main.rs on `run --detach`: "The child is the run; this process only      *)
(* reports where to watch it."                                              *)
DetachNamesItsOwn ==
    \A d \in Runs : told[d] = "named" => named[d] = id[d]

=============================================================================
