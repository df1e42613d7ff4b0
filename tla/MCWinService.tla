---------------------------- MODULE MCWinService ----------------------------
(* One process controls the running service or removes it, the other one     *)
(* starts or installs it, resumes it too, or runs the console.               *)
EXTENDS WinService, TLC

MCCallers == {"c1", "c2"}
MCCommands ==
    [a \in MCCallers |-> IF a = "c1" THEN {"stop", "pause", "continue", "uninstall"}
                          ELSE {"start", "continue", "install", "test"}]
==============================================================================
