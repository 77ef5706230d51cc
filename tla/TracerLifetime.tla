---------------------------- MODULE TracerLifetime ----------------------------
(***************************************************************************)
(* Who keeps a jaegertracing::Tracer alive, and which thread destroys it.  *)
(* The program's handle (opentracing::Tracer::Global), every Span and so   *)
(* every copy of a Span in RemoteReporter's queue hold a shared_ptr to the *)
(* tracer; the one that lets go of the last runs ~Tracer, which calls      *)
(* RemoteReporter::close().                                                *)
(*                                                                         *)
(* The reporter is RemoteReporter's model, and its properties are checked  *)
(* in these programs too.  The spans are started before the first of them  *)
(* is finished; several threads of the program may call Close().           *)
(***************************************************************************)
EXTENDS RemoteReporter

CONSTANTS
    destructor,     \* the call of close() that ~Tracer makes; the others are the program's
    ClosesTracer    \* the program calls Close() before it drops its handle

ASSUME LifetimeAssumption ==
    destructor \in Closer /\ ClosesTracer \in BOOLEAN

VARIABLES
    held,        \* the program has its handle
    selfClosing  \* ~Tracer runs on the sweeper, inside the loop it would join

allVars == <<vars, held, selfClosing>>

\* A shared_ptr to the tracer exists.
Referenced ==
    \/ held
    \/ reported # Span \/ \E t \in Thread : thread[t] # "idle"
    \/ queue # <<>> \/ inHand # <<>>

InitAlive == Init /\ held = TRUE /\ selfClosing = FALSE

\* FinishWithOptions() reports the span and then lets go of it.
Finish(t) == Reporting(t) /\ UNCHANGED <<held, selfClosing>>

\* The span the sweeper has sent is destroyed with the mutex held: when that
\* was the last reference, close() locks the mutex its own thread holds.
Sweep ==
    /\ ~selfClosing
    /\ UNCHANGED held
    /\ Sweeping
    /\ selfClosing' = (sweeper = "sending" /\ ~Referenced')

Close(c) ==
    /\ ClosesTracer /\ held /\ c # destructor
    /\ Closing(c)
    /\ UNCHANGED <<held, selfClosing>>

\* Mutant of Release: Close() need not have returned.
Release_Early ==
    /\ held
    /\ held' = FALSE
    /\ UNCHANGED <<vars, selfClosing>>

Release ==
    /\ held
    /\ ClosesTracer => \A c \in Closer \ {destructor} : closer[c] \in {"closed", "returned"}
    /\ held' = FALSE
    /\ UNCHANGED <<vars, selfClosing>>

Destroy ==
    /\ ~Referenced /\ ~selfClosing
    /\ Closing(destructor)
    /\ UNCHANGED <<held, selfClosing>>

\* The program is through: the tracer is destroyed, is being destroyed by the
\* sweeper, or is kept by spans that were finished after Close().
Through ==
    /\ ~held /\ reported = Span /\ \A t \in Thread : thread[t] = "idle"
    /\ \/ closer[destructor] \in {"closed", "returned"} \/ selfClosing
       \/ sweeper = "stopped" /\ queue # <<>>
    /\ UNCHANGED allVars

NextAlive ==
    \/ \E t \in Thread : Finish(t)
    \/ \E c \in Closer : Close(c)
    \/ Sweep \/ Release \/ Destroy \/ Through

SpecAlive == InitAlive /\ [][NextAlive]_allVars

\* The program finishes its spans, but need never close nor let go; a call of Close()
\* that it has begun goes on.
FairAlive ==
    /\ SpecAlive
    /\ \A t \in Thread : WF_allVars(Finish(t))
    /\ \A c \in Closer : WF_allVars(closer[c] # "open" /\ Close(c))
    /\ WF_allVars(Sweep) /\ WF_allVars(Destroy)

-----------------------------------------------------------------------------
\* Closing before the handle goes is enough for the tracer never to be
\* destroyed by its own reporter's thread, whatever is still being finished.
NeverSelfClosing == ~selfClosing

\* After Close() the tracer is destroyed once the program has let go of it,
\* unless a span was finished too late for the sweeper: nobody takes it out of
\* the queue any more, and its own reference keeps the tracer and the queue.
Destroyed == ~held ~>
    \/ closer[destructor] \in {"closed", "returned"}
    \/ sweeper = "stopped" /\ queue # <<>>

\* CHANGELOG.md:74: "Flush pending spans in RemoteReporter destructor (#59)".
\* When the program only lets go of the tracer, what was queued is sent.
DestructorFlushes == (~held /\ reported = Span) ~>
    reported \ dropped \subseteq
        Members(delivered) \cup lost \cup (IF failed > 0 THEN Members(spanBuffer) ELSE {})
===============================================================================
