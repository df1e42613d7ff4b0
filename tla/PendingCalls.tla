---------------------------- MODULE PendingCalls ----------------------------
(***************************************************************************)
(* What a connection promises about the calls it makes: a set of calls     *)
(* that wait for their answer, numbered in order, each answered at most    *)
(* once, and only while it waits.                                          *)
(***************************************************************************)
EXTENDS Integers

CONSTANT MaxCalls

VARIABLES
    issued,    \* number of calls made
    pending,   \* calls whose callback is registered
    answered   \* calls whose callback was run

vars == <<issued, pending, answered>>

Init == issued = 0 /\ pending = {} /\ answered = {}

Call ==
    /\ issued < MaxCalls
    /\ issued' = issued + 1
    /\ pending' = pending \cup {issued + 1}
    /\ UNCHANGED answered

Answer(k) ==
    /\ k \in pending
    /\ pending' = pending \ {k}
    /\ answered' = answered \cup {k}
    /\ UNCHANGED issued

Next == Call \/ \E k \in 1..MaxCalls : Answer(k)

Spec == Init /\ [][Next]_vars
==============================================================================
