------------------------ MODULE MCCustomerReviewStore ------------------------
(* Ids with and without a value, and up to two reviews.                      *)
EXTENDS CustomerReviewStore
=============================================================================
