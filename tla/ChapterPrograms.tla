--------------------------- MODULE ChapterPrograms ---------------------------
(***************************************************************************)
(* Programs of the chapters, side by side: each behaviour is one of the    *)
(* program that program names, and the others stand still.  What stands    *)
(* still is given one of its initial states, to no loss.                   *)
(***************************************************************************)
EXTENDS ItemStateMachine, VisitedMerchants, RoutineWork, ArrayValue, ItemGallery

VARIABLE program

programVars == <<itemVars, vars, workVars, arrayVars, galleryVars, program>>

ProgramInit ==
    /\ program \in {"item", "app", "work", "array", "gallery"}
    /\ ItemInit /\ Init /\ WorkInit /\ ArrayInit /\ GalleryInit
    /\ program # "gallery" =>
        /\ stores = CHOOSE s \in StoreInputs : TRUE
        /\ favorite_stores_by_customer = CHOOSE f \in FavoriteInputs : TRUE

ProgramNext ==
    /\ UNCHANGED program
    /\ \/ program = "item" /\ ItemNext /\ UNCHANGED <<vars, workVars, arrayVars, galleryVars>>
       \/ program = "app" /\ Next /\ UNCHANGED <<itemVars, workVars, arrayVars, galleryVars>>
       \/ program = "work" /\ WorkNext /\ UNCHANGED <<itemVars, vars, arrayVars, galleryVars>>
       \/ program = "array" /\ ArrayNext /\ UNCHANGED <<itemVars, vars, workVars, galleryVars>>
       \/ program = "gallery" /\ GalleryNext /\ UNCHANGED <<itemVars, vars, workVars, arrayVars>>

\* The threads of the coroutine program are fairly scheduled.
ProgramSpec ==
    /\ ProgramInit /\ [][ProgramNext]_programVars
    /\ WF_workVars(program = "work" /\ Main)
    /\ \A t \in Threads : WF_workVars(program = "work" /\ Thread(t))

-----------------------------------------------------------------------------
\* What each program keeps its state in is well formed.
ProgramsOK == ItemOK /\ TypeOK /\ WorkOK

\* main() of the coroutine program ends, see Finishes.
WorkFinishes == program = "work" => Finishes
=============================================================================
