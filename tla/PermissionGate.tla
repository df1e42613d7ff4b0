---------------------------- MODULE PermissionGate ----------------------------
(***************************************************************************)
(* What on-access protection promises a program that opens a file, without *)
(* descriptors, threads, passes or queues: every open gets one answer, the *)
(* answer depends on that file alone, and it comes.                        *)
(***************************************************************************)
CONSTANTS Requests, Kinds

VARIABLES
    gate,   \* gate[r]: "none", "asked", or the answer
    own,    \* the daemon itself opens the file
    kind    \* what the file is

gateVars == <<gate, own, kind>>

\* Scanned malware is refused; the daemon's own opens and everything else pass.
Policy(mine, k) == IF ~mine /\ k = "MALWARE" THEN "DENY" ELSE "ALLOW"

GateInit ==
    /\ gate = [r \in Requests |-> "none"]
    /\ own = [r \in Requests |-> FALSE]
    /\ kind = [r \in Requests |-> "special"]

Ask(r, mine, k) ==
    /\ gate[r] = "none"
    /\ gate' = [gate EXCEPT ![r] = "asked"]
    /\ own' = [own EXCEPT ![r] = mine]
    /\ kind' = [kind EXCEPT ![r] = k]

\* The answer follows the policy, or the kernel had no descriptor to ask with.
Reply(r) ==
    /\ gate[r] = "asked"
    /\ \E ans \in {Policy(own[r], kind[r]), "NOFD"} :
          gate' = [gate EXCEPT ![r] = ans]
    /\ UNCHANGED <<own, kind>>

GateNext ==
    \E r \in Requests : Reply(r) \/ \E mine \in BOOLEAN, k \in Kinds : Ask(r, mine, k)

GateSpec == GateInit /\ [][GateNext]_gateVars
            /\ \A r \in Requests : WF_gateVars(Reply(r))
===============================================================================
