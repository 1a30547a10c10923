---------------------------- MODULE MCScheduler ----------------------------
(* The graphs TLC checks Scheduler on. Each is named for its shape; the     *)
(* .cfg that uses it gives the kinds and the schedules of its members.      *)
EXTENDS SchedulerQuiescence

\* report follows ticker; keeper is the work being paced
ReportAfterTicker ==
    [m \in Members |-> IF m = "report" THEN {"ticker"} ELSE {}]

\* summary waits for both ticker and base; publish follows summary
PublishAfterBoth ==
    [m \in Members |-> CASE m = "summary" -> {"ticker", "base"}
                         [] m = "publish" -> {"summary"}
                         [] OTHER -> {}]

NoDeps == [m \in Members |-> {}]

=============================================================================
