--------------------------- MODULE PollUntilClosed ---------------------------
(***************************************************************************)
(* What a component with a polling thread promises: it polls again and     *)
(* again until it is closed, closing it does not take forever, and nothing *)
(* that was polled takes effect any more when close() has returned.        *)
(***************************************************************************)
EXTENDS Naturals

VARIABLES
    polls,    \* the polls that have taken effect
    called,   \* close() has been called
    closed    \* that call has returned

vars == <<polls, called, closed>>

Init == polls = 0 /\ called = FALSE /\ closed = FALSE

Poll ==
    /\ ~closed
    /\ polls' = polls + 1
    /\ UNCHANGED <<called, closed>>

Call ==
    /\ ~called /\ called' = TRUE
    /\ UNCHANGED <<polls, closed>>

Close ==
    /\ called /\ ~closed /\ closed' = TRUE
    /\ UNCHANGED <<polls, called>>

Next == Poll \/ Call \/ Close

\* What may happen; and closing it does not take forever.
SafeSpec == Init /\ [][Next]_vars

Spec == SafeSpec /\ WF_vars(Close)
=============================================================================
