-------------------------- MODULE CustomerReviewStore --------------------------
(***************************************************************************)
(* The mobile app's own review store, Chapter08/mobile_app/src/merchants/  *)
(* reviews.cpp.  A GSL contract that fails terminates the program; the     *)
(* copy of the range constructor writes through begin() of an empty        *)
(* vector, a null pointer, which ends the program too unless there is      *)
(* nothing to copy.                                                        *)
(***************************************************************************)
EXTENDS Sequences, Naturals

CONSTANTS
    Ids,       \* customer and merchant ids; 0 is no id
    MaxReviews \* bound: reviews posted, and reviews in an initial range

VARIABLES reviews_, running

vars == <<reviews_, running>>

Review == [customer : Ids, merchant : Ids]
Valid(r) == r.merchant # 0 /\ r.customer # 0

Init ==
    /\ reviews_ = <<>>
    /\ \E initial_reviews \in 0 .. MaxReviews : running = (initial_reviews = 0)

\* Expects(merchant), Expects(customer) and Ensures(!reviews_.empty()) all stand
\* before the push_back.
post_review(r) ==
    /\ running /\ Len(reviews_) < MaxReviews
    /\ IF Valid(r) /\ reviews_ # <<>>
         THEN reviews_' = Append(reviews_, r) /\ UNCHANGED running
         ELSE running' = FALSE /\ UNCHANGED reviews_

\* get_review_for_merchant always throws std::logic_error.
get_review_for_merchant == running /\ UNCHANGED vars

Next == get_review_for_merchant \/ \E r \in Review : post_review(r)

Spec == Init /\ [][Next]_vars

\* Ensures(!reviews_.empty()): the store has a review when the post of a valid
\* one is over.
PostEnsuresReview ==
    [][\A r \in Review : Valid(r) /\ post_review(r) => running' /\ reviews_' # <<>>]_vars
=============================================================================
