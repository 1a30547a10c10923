---------------------------- MODULE Preparation ----------------------------
(* run.rs run_announcing up to the announcement: the graph document is read *)
(* through the run's resolver, overridden, validated and ordered            *)
(* (GraphDocument), and only then is every member built (Invocation).       *)
EXTENDS GraphDocument, Invocation

CONSTANTS
    Built,   \* bound: the documents whose members are built here
    Idle     \* the request of every other document, which nothing is built for

PrepareInit ==
    \/ /\ Init /\ doc \notin Built
       /\ request = Idle /\ blind = FALSE
       /\ BuildInit
    \/ /\ Init /\ doc \in Built /\ asked = [environ |-> {}, sets |-> <<>>]
       /\ BuildInit
       /\ request # Idle /\ \A n \in Names : plan.of[n].kind = doc.kind[n]

PrepareNext ==
    \/ Next /\ UNCHANGED buildVars
    \/ step = "accepted" /\ request # Idle /\ BuildNext /\ UNCHANGED vars

PrepareSpec == PrepareInit /\ [][PrepareNext]_<<vars, buildVars>>

=============================================================================
