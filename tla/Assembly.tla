------------------------------ MODULE Assembly ------------------------------
(***************************************************************************)
(* backend/assemble.rs, backend/packages/detect.rs and backend/probe.rs:   *)
(* which providers a daemon has, by its configured mode and by what it     *)
(* finds on its host.                                                      *)
(*                                                                         *)
(* A host is a record: linux, bus (a system bus accepts a connection),     *)
(* journalctl (it runs), release (the ID and the ID_LIKE of os-release, in *)
(* that order), binaries (package managers installed), privd (the helper's *)
(* socket exists).                                                         *)
(***************************************************************************)
EXTENDS Integers, Sequences

Modes    == {"auto", "mock", "real"}
Managers == {"apt", "dnf", "pacman", "apk"}

Capabilities == [services : BOOLEAN, packages : BOOLEAN, logs : BOOLEAN]
Everything   == [services |-> TRUE, packages |-> TRUE, logs |-> TRUE]
Nothing      == [services |-> FALSE, packages |-> FALSE, logs |-> FALSE]

KindFromId(id) ==
    CASE id \in {"debian", "ubuntu", "raspbian", "linuxmint", "pop"}     -> "apt"
      [] id \in {"fedora", "rhel", "centos", "rocky", "almalinux"}       -> "dnf"
      [] id \in {"arch", "manjaro", "endeavouros", "artix"}              -> "pacman"
      [] id = "alpine"                                                   -> "apk"
      [] OTHER                                                           -> "none"

\* The first identifier that names a manager: ID, then those of ID_LIKE.
FromOsRelease(release) ==
    LET Known(id) == KindFromId(id) # "none"
        known     == SelectSeq(release, Known)
    IN  IF known = << >> THEN "none" ELSE KindFromId(Head(known))

Confirm(kind, binaries) == kind \in binaries

\* Each probe yields the values it may: one that finds what it looks for can
\* still time out, and SystemdServices::new makes a connection of its own.
ProbeSystemdServices(host) == IF host.bus THEN BOOLEAN ELSE {FALSE}
ProbeJournaldLogs(host)    == IF host.journalctl THEN BOOLEAN ELSE {FALSE}
ProbePackages(host)        ==
    LET kind == FromOsRelease(host.release)
    IN  {kind # "none" /\ Confirm(kind, host.binaries) /\ host.privd}

NativeProviders(host) ==
    IF host.linux
    THEN [services : ProbeSystemdServices(host), packages : ProbePackages(host),
          logs : ProbeJournaldLogs(host)]
    ELSE {Nothing}

\* The backends that may come of it; none when the platform is unsupported.
Assembled(mode, host) ==
    CASE mode = "mock" -> {Everything}
      [] mode = "auto" -> NativeProviders(host)
      [] mode = "real" -> IF host.linux THEN NativeProviders(host) ELSE {}
=============================================================================
