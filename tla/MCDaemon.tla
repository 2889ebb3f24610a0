------------------------------ MODULE MCDaemon ------------------------------
(***************************************************************************)
(* A derivative of Ubuntu without a system bus, where at least one         *)
(* provider is missing, and a host that is not Linux, in the mode that     *)
(* refuses it.                                                             *)
(***************************************************************************)
EXTENDS Daemon

Ubuntu  == [linux |-> TRUE, bus |-> FALSE, journalctl |-> TRUE, privd |-> TRUE,
            release |-> <<"neon", "ubuntu", "debian">>, binaries |-> {"apt"}]
Windows == [linux |-> FALSE, bus |-> FALSE, journalctl |-> FALSE, privd |-> FALSE,
            release |-> << >>, binaries |-> {}]

MCHosts   == {Ubuntu, Windows}
MCConfigs ==
    {[listeners |-> l, mode |-> "mock", audit |-> "valid"] :
        l \in {<< >>, <<"http", "https">>, <<"https_no_cert">>, <<"http", "obfs">>}}
      \cup {[listeners |-> <<"http">>, mode |-> mode, audit |-> "valid"] : mode \in {"auto", "real"}}
      \cup {[listeners |-> <<"http">>, mode |-> "auto", audit |-> "below_minimum"]}

MCInit == DaemonInit /\ (setup.host = Windows <=> setup.mode = "real")
MCSpec == MCInit /\ [][DaemonNext]_allVars /\ DaemonFairness
=============================================================================
