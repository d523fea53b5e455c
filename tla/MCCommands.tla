----------------------------- MODULE MCCommands -----------------------------
(***************************************************************************)
(* An instance of CommandLine for TLC.  c1 runs every command in every     *)
(* mode that makes a difference to it, watch --ui under one flag only, as  *)
(* watch has them all; next to it c2 deletes the service s1, which c1 may  *)
(* be using or deleting too.                                               *)
(***************************************************************************)
EXTENDS CommandLine

CONSTANTS c1, s1, s2

\* No setting, all settings, and a service ID alone.
MCFiles == {NoLayer, [key |-> s1, id |-> s1], Broken}
MCEnvs == {NoLayer, [key |-> s2, id |-> s2]}
MCFlags == {NoLayer, [key |-> s1, id |-> Empty], [key |-> Empty, id |-> s2]}

Modes(cmd) ==
    CASE cmd = "service delete" -> {"interactive", "quiet", "json"}
      [] cmd \in {"send", "service create", "service list"} -> {"interactive", "quiet"}
      [] OTHER -> {"quiet"}

MCRepertoire ==
    [c \in Sessions |->
        IF c = c1
        THEN {r \in Run :
                /\ r.mode \in Modes(r.cmd)
                /\ r.flag \in MCFlags
                /\ r.timed \/ r.cmd \in {"send", "watch"}
                /\ r.cmd = "watch --ui" => r.flag.key # Empty
                /\ r.target = s1}
        ELSE {[cmd |-> "service delete", mode |-> "quiet", timed |-> TRUE, target |-> s1,
               flag |-> [key |-> s2, id |-> Empty]]}]
=============================================================================
