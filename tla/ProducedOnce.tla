----------------------------- MODULE ProducedOnce -----------------------------
(***************************************************************************)
(* What Chapter11/coroutines/main_1.cpp promises: WORK_ITEMS workers each  *)
(* produce their number once, in any order, none of them disturbs what     *)
(* another has produced, and main() gets the numbers when all are there.   *)
(***************************************************************************)
EXTENDS Integers, Sequences

CONSTANT WORK_ITEMS

VARIABLES
    out,      \* the numbers produced so far
    reported  \* main() has them

absVars == <<out, reported>>

Numbers == 0 .. WORK_ITEMS - 1
Missing == {i \in Numbers : \A k \in DOMAIN out : out[k] # i}

AbsInit == out = <<>> /\ reported = FALSE

Produce(i) ==
    /\ i \in Missing
    /\ out' = Append(out, i)
    /\ UNCHANGED reported

Report ==
    /\ Missing = {} /\ ~reported
    /\ reported' = TRUE
    /\ UNCHANGED out

AbsNext == Report \/ \E i \in Numbers : Produce(i)

AbsSpec == AbsInit /\ [][AbsNext]_absVars
=============================================================================
