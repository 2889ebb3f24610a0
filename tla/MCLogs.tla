------------------------------- MODULE MCLogs -------------------------------
(***************************************************************************)
(* Queries, lists of packages and the follow stream share nothing that     *)
(* changes but the journal: a behaviour has a client that pages, one that  *)
(* lists packages, beside a journal that has all its entries, or a follow  *)
(* task.                                                                   *)
(***************************************************************************)
EXTENDS Logs

MCInit ==
    \/ /\ journal = << >> /\ InitQuery("logs", "idle")
       /\ InitFollow /\ follow.task = "ended"
    \/ /\ journal = [k \in 1..MaxEntries |-> "short"] /\ InitQuery("packages", "idle")
       /\ InitFollow /\ follow.task = "ended"
    \/ /\ journal = << >> /\ InitQuery("logs", "end")
       /\ InitFollow /\ follow.task = "reads"

MCSpec == MCInit /\ [][LogsNext]_logsVars /\ LogsFairness
=============================================================================
