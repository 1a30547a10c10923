--------------------------- MODULE MCScratchSweep ---------------------------
(* A sweep and a reap take turns here, to keep the run small: all a reap does *)
(* that a sweep could notice is to end processes, and those end by           *)
(* themselves at any moment too. A reap of the one member finds what one of *)
(* the whole directory does. The proofs are about any interleaving and scope. *)
EXTENDS ScratchSweep

\* the second owner has the first one's pid, and so claims the same directory;
\* the editor has the pid the harness had
Recycled == [p \in Procs |-> CASE p \in Owners -> 1
                               [] p \in {"harness", "editor"} -> 2
                               [] OTHER -> 3]

MCNext == Next /\ (reap'.at = "rest" \/ (sweep' = "rest" /\ reap'.scope # Root))

\* a reap that has begun goes on to its end
MCSpec ==
    /\ Init /\ [][MCNext]_vars
    /\ WF_vars(reap.at = "rest" /\ SweepStep) /\ SF_vars(Age)
    /\ WF_vars(reap.at # "rest" /\ Reaping)
=============================================================================
