------------------------------ MODULE Register ------------------------------
(***************************************************************************)
(* What Persist means to a scheduler: the state is a register. A write     *)
(* takes effect at the moment it is acknowledged, and before that at most  *)
(* once for every answer that was lost, never after its end. A write that  *)
(* fails may have taken effect or not. As long as no answer is lost this   *)
(* is an atomic register; with lost answers a write that is tried again    *)
(* can undo one that was made, and acknowledged, in between.               *)
(***************************************************************************)
EXTENDS Naturals

CONSTANTS Writers, Values

VARIABLES
    value,      \* what the register holds
    phase,      \* where the last write of each writer is
    arg,        \* and what it writes
    lost        \* answers lost so far

regVars == <<value, phase, arg, lost>>

Init ==
    /\ value \in Values
    /\ phase = [w \in Writers |-> "idle"]
    /\ arg \in [Writers -> Values]
    /\ lost = 0

Pending(w) == phase[w] \in {"asked", "applied"}

Ask(w) ==
    /\ phase[w] \in {"idle", "ok"}
    /\ phase' = [phase EXCEPT ![w] = "asked"]
    /\ \E v \in Values : arg' = [arg EXCEPT ![w] = v]
    /\ UNCHANGED <<value, lost>>

\* The write takes effect and is acknowledged.
Acknowledge(w) ==
    /\ Pending(w)
    /\ phase' = [phase EXCEPT ![w] = "ok"]
    /\ value' = arg[w]
    /\ UNCHANGED <<arg, lost>>

\* It takes effect and the writer is not told: it may try again, or give up.
Apply(w) ==
    /\ Pending(w)
    /\ \E p \in {"applied", "failed"} : phase' = [phase EXCEPT ![w] = p]
    /\ value' = arg[w]
    /\ lost' = lost + 1
    /\ UNCHANGED arg

Fail(w) ==
    /\ Pending(w)
    /\ phase' = [phase EXCEPT ![w] = "failed"]
    /\ lost' \in {lost, lost + 1}
    /\ UNCHANGED <<value, arg>>

Lose ==
    /\ lost' = lost + 1
    /\ UNCHANGED <<value, phase, arg>>

Next == Lose \/ \E w \in Writers : Ask(w) \/ Acknowledge(w) \/ Apply(w) \/ Fail(w)

Spec == Init /\ [][Next]_regVars
=============================================================================
