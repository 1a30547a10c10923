------------------------------ MODULE MCNotes ------------------------------
(* The note seam from both its sides: the member's relay with two notes and  *)
(* three requests of it (NoteRelay), and one caller with its note, from what *)
(* it reads of the run to what it is told (NoteCaller). A behaviour is of    *)
(* one or the other; the one it is not of stands still, and nothing in it    *)
(* is fair.                                                                  *)
EXTENDS NoteRelay, NoteCaller

VARIABLE side

MCInit ==
    /\ side \in {"relay", "caller"} /\ Init /\ CallerInit
    /\ side = "relay" => <<kind, mode, writable>> = <<"single", "stop", TRUE>>

MCNext ==
    \/ side = "relay" /\ Next /\ UNCHANGED <<side, noteVars>>
    \/ side = "caller" /\ CallerNext /\ UNCHANGED <<side, vars>>

MCSpec == MCInit /\ [][MCNext]_<<side, vars, noteVars>> /\ Fairness
=============================================================================
