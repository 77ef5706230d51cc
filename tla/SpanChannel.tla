----------------------------- MODULE SpanChannel -----------------------------
(***************************************************************************)
(* What RemoteReporter with its sender promises: the spans it accepts go   *)
(* out in the order they were accepted.  It may batch them as it likes and *)
(* it may lose some, but only in the open: a lost span has never gone out  *)
(* and never will.  A span goes out once, unless the transport may repeat: *)
(* then the oldest spans may go out together and still be pending, and go  *)
(* out again, in the same order, until they are known to have arrived.     *)
(***************************************************************************)
EXTENDS Naturals, Sequences

CONSTANTS
    Span,
    MayRepeat  \* what went out may have to go out again

VARIABLES
    pending,    \* accepted and neither known to be sent nor lost, oldest first
    delivered,  \* what went out, oldest first
    lost

vars == <<pending, delivered, lost>>

Init == pending = <<>> /\ delivered = <<>> /\ lost = {}

Members(spans) == {spans[i] : i \in DOMAIN spans}

Accept(s) ==
    /\ s \notin Members(pending) \cup Members(delivered) \cup lost
    /\ pending' = Append(pending, s)
    /\ UNCHANGED <<delivered, lost>>

\* The oldest n spans go out.
GoOut(n) == delivered' = delivered \o SubSeq(pending, 1, n)

Deliver(n) ==
    /\ GoOut(n)
    /\ pending' = SubSeq(pending, n + 1, Len(pending))
    /\ UNCHANGED lost

\* They go out, and are not known to.
Attempt(n) ==
    /\ MayRepeat
    /\ GoOut(n)
    /\ UNCHANGED <<pending, lost>>

\* A span is lost that never went out; the attempt to make room for it by
\* sending older ones may be what failed.
Lose(i) ==
    /\ pending[i] \notin Members(delivered)
    /\ \/ UNCHANGED delivered
       \/ MayRepeat /\ \E n \in 1 .. i - 1 : GoOut(n)
    /\ pending' = SubSeq(pending, 1, i - 1) \o SubSeq(pending, i + 1, Len(pending))
    /\ lost' = lost \cup {pending[i]}

Next ==
    \/ \E s \in Span : Accept(s)
    \/ \E i \in 1 .. Len(pending) : Deliver(i) \/ Attempt(i) \/ Lose(i)

Spec == Init /\ [][Next]_vars
===============================================================================
