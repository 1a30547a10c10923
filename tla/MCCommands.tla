----------------------------- MODULE MCCommands -----------------------------
(* What is run from a command line and what it runs: a run and its directory *)
(* (RunDirectory), `smoke` and its launches (Smoke), and a member's pre-turn *)
(* command (PreTurnView). A behaviour is of one of the three; the others     *)
(* stand still, and nothing in them is fair.                                 *)
EXTENDS RunDirectory, Smoke, PreTurnView

VARIABLE subject

\* Into one pipe, up to one byte more than it holds and is kept: a character
\* cut at every place, an element spelled out, blanks. And a byte into each.
OutputBytes == {"<", "v", "h", "t", "x", "_"}
Into(pipe, bytes) == [i \in DOMAIN bytes |-> <<pipe, bytes[i]>>]
AllScripts ==
    {Into("out", bytes) : bytes \in UNION {[1 .. n -> OutputBytes] : n \in 0 .. 3}}
        \cup {Into("err", bytes) : bytes \in [1 .. 3 -> {"x"}]}
        \cup {<<<<"out", byte>>, <<"err", "x">>>> : byte \in OutputBytes}

MCInit ==
    /\ subject \in {"run", "smoke", "view"}
    /\ Init /\ SmokeInit
    /\ IF subject = "view" THEN ViewInit ELSE ViewAt("done", {<<>>})

\* The two runs are alike: one of them is asked for first
Asked(r) == told[r] # "idle"

MCNext ==
    \/ /\ subject = "run"
       /\ Next
       /\ Asked("second")' => Asked("first")'
       /\ UNCHANGED <<subject, smokeVars, viewVars>>
    \/ subject = "smoke" /\ SmokeNext /\ UNCHANGED <<subject, vars, viewVars>>
    \/ subject = "view" /\ ViewNext /\ UNCHANGED <<subject, vars, smokeVars>>

MCFairness ==
    /\ WF_vars(subject = "run" /\ Tick)
    /\ \A r \in Runs : WF_vars(RunStep(r)) /\ WF_vars(StartStep(r))
    /\ ViewFairness

MCSpec == MCInit /\ [][MCNext]_<<subject, vars, smokeVars, viewVars>> /\ MCFairness
=============================================================================
