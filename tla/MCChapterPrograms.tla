-------------------------- MODULE MCChapterPrograms --------------------------
(* The constants of the programs of the chapters for TLC.                    *)
EXTENDS ChapterPrograms, TLC

\* A four-bit int, and counts that take it over either end in six events.
MCIntMax == 7
MCCounts == {-2, 0, 1, 3}

\* Ratings around both ends of the range, and NaN.
MCFloats == {-1, 0, 5, 6, NaN}

-----------------------------------------------------------------------------
\* Two stores of up to two items; a customer with one favorite, two, or one twice.
MCItem == [date_added : 1..2, featured : BOOLEAN]
MCStoreInputs == [StoreId -> BoundedSeq(MCItem, 2)]
MCFavoriteInputs == {42 :> <<1>>, 42 :> <<2, 1>>, 42 :> <<1, 1>>}
=============================================================================
