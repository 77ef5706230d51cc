--------------------------- MODULE MCTracerLifetime ---------------------------
(* Two threads finish three spans, two of which share a batch. *)
EXTENDS TracerLifetime, TLC

CONSTANTS t1, t2, c1, c2, small1, small2, middle

MCThread == {t1, t2}
MCCloser == {c1, c2, destructor}
MCSpan == {small1, small2, middle}
MCSpanSize == (small1 :> 20) @@ (small2 :> 20) @@ (middle :> 40)
===============================================================================
