--------------------------- MODULE MCConversation ---------------------------
(* A two-party member (Conversation) and the watchdog its supervising loop   *)
(* asks (Watchdog). A behaviour is of one of them; the other stands still,   *)
(* and nothing in it is fair.                                                *)
EXTENDS Conversation, Watchdog

VARIABLE subject

MCInit == subject \in {"conversation", "watchdog"} /\ Init /\ WatchInit

MCNext ==
    \/ subject = "conversation" /\ Next /\ UNCHANGED <<subject, watchVars>>
    \/ subject = "watchdog" /\ WatchNext /\ UNCHANGED <<subject, vars>>

MCFairness ==
    /\ WF_vars(subject = "conversation" /\ HoldStep)
    /\ WF_vars(subject = "conversation" /\ Supervise)
    /\ WF_vars(subject = "conversation" /\ CountNote)
    /\ WF_watchVars(subject = "watchdog" /\ TimePasses)
    /\ WF_watchVars(subject = "watchdog" /\ LoadActivity)
    /\ WF_watchVars(subject = "watchdog" /\ Judge)

MCSpec == MCInit /\ [][MCNext]_<<subject, vars, watchVars>> /\ MCFairness
=============================================================================
