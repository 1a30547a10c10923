------------------------------- MODULE Smoke -------------------------------
(* The `smoke` verb (src/src/smoke.rs and run_smoke of src/src/main.rs):    *)
(* one paid turn in a git work tree, launched again while an attempt proves *)
(* it spent nothing, and the verdict the report of the last one allows.     *)
(*                                                                          *)
(* `oneharness run` is external. What is assumed of it is what smoke.rs     *)
(* states: a chain records every candidate it attempts; a candidate it      *)
(* steps past as quota, auth, overloaded or skipped did no work; one that   *)
(* was charged is classified, or accounted for, if its report can be read;  *)
(* and it exits 0 only over a turn that ran, if one did.                    *)
EXTENDS Naturals, Sequences

CONSTANTS
    Chain    \* bound: the most candidates one report records

ASSUME SmokeAssumption == Chain \in Nat

VARIABLES
    stage,     \* how far the verb has come
    attempt,   \* the launch being made
    report,    \* what the last launch answered
    charged,   \* the launches a provider was paid for
    verdict    \* what the verb exits on, and what it says

smokeVars == <<stage, attempt, report, charged, verdict>>

LAUNCH_ATTEMPTS == 3

\* What a candidate's record says of it, and whether it was paid
FallThroughs == {"quota", "skipped"}
Classes == FallThroughs \cup {"none", "rate limit"}
Usages == {"absent", "free", "billed", "unreadable"}

Records ==
    {r \in [class : Classes, usage : Usages, paid : BOOLEAN] :
        /\ r.paid => r.class # "none" \/ r.usage \in {"billed", "unreadable"}
        /\ r.class \in FallThroughs => ~r.paid}

\* The candidates before the last were stepped past; `ran` names one or none.
Reports ==
    {r \in [results : UNION {[1 .. n -> Records] : n \in 0 .. Chain}, past : 0 .. Chain,
            ran : BOOLEAN, success : BOOLEAN, answer : {"report"}] :
        /\ r.past <= Len(r.results)
        /\ \A i \in 1 .. Len(r.results) : r.results[i].class # "none" \/ i > r.past
        /\ r.ran => r.past < Len(r.results)
        /\ r.success /\ r.ran => r.results[r.past + 1].class = "none"}

\* A launch that answered nothing to judge
Silence(why) == [results |-> <<>>, past |-> 0, ran |-> FALSE, success |-> FALSE, answer |-> why]

Paid(r) == \E i \in 1 .. Len(r.results) : r.results[i].paid

NoVerdict == [exit |-> "none", attempts |-> 0, free |-> FALSE]

SmokeInit ==
    /\ stage = "claim"
    /\ attempt = 1
    /\ report = Silence("none")
    /\ charged = {}
    /\ verdict = NoVerdict

Answers(exit, attempts, free) ==
    /\ stage' = "done"
    /\ verdict' = [exit |-> exit, attempts |-> attempts, free |-> free]

-----------------------------------------------------------------------------
\* run_smoke: the directory asked for, or a kept scratch of its own; a host
\* that refuses either is a bad ask
Place ==
    /\ stage = "claim"
    /\ \/ stage' = "worktree" /\ UNCHANGED verdict
       \/ Answers("invalid config", 0, FALSE)
    /\ UNCHANGED <<attempt, report, charged>>

\* ensure_git_worktree: inside one already, or made one
EnsureGitWorktree ==
    /\ stage = "worktree"
    /\ \/ stage' = "launch" /\ UNCHANGED verdict
       \/ Answers("invalid config", 0, FALSE)
    /\ UNCHANGED <<attempt, report, charged>>

\* once, up to the answer of the program it ran
Launch ==
    /\ stage = "launch"
    /\ \/ \E r \in Reports :
            /\ report' = r
            /\ \/ Paid(r) /\ charged' = charged \cup {attempt}
               \/ ~Paid(r) /\ Len(r.results) > 0 /\ UNCHANGED charged
               \/ r.results = <<>> /\ charged' \in {charged, charged \cup {attempt}}
       \/ \E why \in {"not found", "not started"} :
            report' = Silence(why) /\ UNCHANGED charged
       \/ report' = Silence("unreadable") /\ charged' \in {charged, charged \cup {attempt}}
    /\ stage' = "answered"
    /\ UNCHANGED <<attempt, verdict>>

\* mutant: a record that says nothing billed is proof, whatever its class
SpentNothingBilled(r) == \A i \in 1 .. Len(r.results) : r.results[i].usage \in {"absent", "free"}

\* spent_nothing: proof, not the absence of contrary evidence
SpentNothing(r) ==
    /\ r.results # <<>>
    /\ \A i \in 1 .. Len(r.results) :
         r.results[i].class = "none" /\ r.results[i].usage \in {"absent", "free"}

\* judge_report
Passes(r) ==
    /\ \A i \in 1 .. r.past : r.results[i].class \in FallThroughs
    /\ r.ran

\* Refusal: the error of one attempt, and whether it spent nothing
Refusal ==
    CASE report.answer = "report" ->
            [exit |-> "member failed", free |-> ~report.success /\ SpentNothing(report)]
      [] OTHER -> [exit |-> "invalid config", free |-> report.answer = "not started"]

Accepted == report.answer = "report" /\ report.success /\ Passes(report)

Accept ==
    /\ stage = "answered"
    /\ Accepted
    /\ Answers("success", attempt, FALSE)
    /\ UNCHANGED <<attempt, report, charged>>

\* The pause widens with the attempt, then the launch is made again
Relaunch ==
    /\ stage = "answered"
    /\ ~Accepted
    /\ Refusal.free
    /\ attempt < LAUNCH_ATTEMPTS
    /\ stage' = "launch"
    /\ attempt' = attempt + 1
    /\ report' = Silence("none")
    /\ UNCHANGED <<charged, verdict>>

\* after_attempts says that none of them spent anything
GiveUpSmoke ==
    /\ stage = "answered"
    /\ ~Accepted
    /\ Refusal.free => attempt = LAUNCH_ATTEMPTS
    /\ Answers(Refusal.exit, attempt, Refusal.free)
    /\ UNCHANGED <<attempt, report, charged>>

SmokeNext == Place \/ EnsureGitWorktree \/ Launch \/ Accept \/ Relaunch \/ GiveUpSmoke

SmokeSpec == SmokeInit /\ [][SmokeNext]_smokeVars

-----------------------------------------------------------------------------
(* "The one thing a smoke must never do: pay twice." Whatever the launches   *)
(* answer, at most one of them was paid for, and none before the last; a     *)
(* smoke that says none of its attempts spent anything is right; and one     *)
(* that passes ran a turn in its last attempt, having stepped past nobody    *)
(* who was paid.                                                             *)
PaysOnce ==
    /\ charged \subseteq {attempt}
    /\ verdict.free => charged = {}
    /\ verdict.exit = "success" =>
         /\ report.ran /\ report.success
         /\ \A i \in 1 .. report.past : ~report.results[i].paid

=============================================================================
