----------------------------- MODULE MCServices -----------------------------
(***************************************************************************)
(* Calls, the feed and a client that pages meet only in systemd, where the *)
(* jobs of the one are foreign jobs to the others.  A behaviour has calls  *)
(* and no watch task, or a watch task and calls that were all refused at   *)
(* once, or a client that pages and neither.  Of the three units the host  *)
(* lists, nothing happens to one; while a client pages one job is left.    *)
(***************************************************************************)
EXTENDS Services

CONSTANTS u1, u2, u3

MCTable  == <<u1, u2, u3>>
MCNameOf == u1 :> <<"a", "b">> @@ u2 :> <<"b">> @@ u3 :> <<"b", "a", "b">>
MCGlobs  == {<< >>, << <<"?", "*", "b">> >>}

AllRefused == [c \in Callers |-> [Idle EXCEPT !.pc = "answered", !.outcome = "err"]]

MCInit ==
    \/ /\ InitTasks(0) /\ InitLister("end")
       /\ call = IF watch.pc = "ended" THEN [c \in Callers |-> Idle] ELSE AllRefused
    \/ /\ InitTasks(MaxJobs - 1) /\ watch.pc = "ended"
       /\ InitLister("idle") /\ call = AllRefused

MCSpec == MCInit /\ [][Next]_vars /\ Fairness
=============================================================================
