--------------------------- MODULE VisitedMerchants ---------------------------
(***************************************************************************)
(* The history of visited merchants of the mobile app (Chapter08 and       *)
(* Chapter10 mobile_app) over a review store.  An entry of the history     *)
(* copies the customer's review when it is made and posts its copy when it *)
(* is rated; the store can be posted to by anybody who has it, and nothing *)
(* refreshes the copies.  The store is the one the tests provide,          *)
(* fake_customer_review_store; the vector is Chapter10's, whose operator[] *)
(* throws when the index is out of range.                                  *)
(*                                                                         *)
(* A rating is an integer or NaN: the fractions between behave alike.      *)
(***************************************************************************)
EXTENDS Integers, Sequences

CONSTANTS
    Customers, Merchants, Texts, \* ids and review texts
    customer_id_, \* the customer the store belongs to
    Floats,       \* the numbers a caller asks stars of
    NaN,          \* the float that is not a number
    NoReview,     \* an empty std::optional<review>
    MaxEntries    \* bound: visits added to the history

ASSUME MerchantAssumption ==
    /\ customer_id_ \in Customers
    /\ NaN \notin Int
    /\ Floats \subseteq Int \cup {NaN}
    /\ NoReview \notin [customer : Customers, merchant : Merchants, text : Texts,
                        rating : Int \cup {NaN}]
    /\ MaxEntries \in Nat

VARIABLES
    reviews_,   \* the store: each merchant's review or NoReview
    merchants_, \* the history: the review each entry has copied
    outcome,    \* how the last call ended: "ok" or the exception
    passed      \* history variable: entries whose merchant's review somebody
                \* else has posted since they were made or last posted it

vars == <<reviews_, merchants_, outcome, passed>>

-----------------------------------------------------------------------------
\* stars: a number outside the range is refused; both comparisons are false of
\* NaN, and NaN differs from every rating, itself included.
InRange(s) == s \in 0 .. 5

\* Mutant of CheckRange: one star too many at the upper end.
CheckRange_SixStars(s) == s = NaN \/ s \in 0 .. 6

CheckRange(s) == s = NaN \/ InRange(s)
Differ(s, r) == s # r \/ s = NaN

Review == [customer : Customers, merchant : Merchants, text : Texts,
           rating : 0 .. 5 \cup {NaN}]

EntriesOf(m) == {k \in DOMAIN merchants_ : merchants_[k].merchant = m}

\* fake_customer_review_store::post_review throws for another customer's review.
Accepts(r) == r.customer = customer_id_

\* r is posted by entry k of the history, or by the holder of the store (k = 0).
PostReview(r, k) ==
    IF Accepts(r)
      THEN /\ reviews_' = [reviews_ EXCEPT ![r.merchant] = r]
           /\ passed' = (passed \cup EntriesOf(r.merchant)) \ {k}
           /\ outcome' = "ok"
      ELSE /\ outcome' = "invalid_argument"
           /\ UNCHANGED <<reviews_, passed>>

Throws(exception) ==
    /\ outcome' = exception
    /\ UNCHANGED <<reviews_, merchants_, passed>>

-----------------------------------------------------------------------------
Init ==
    /\ reviews_ = [m \in Merchants |-> NoReview]
    /\ merchants_ = <<>>
    /\ outcome = "ok"
    /\ passed = {}

\* The holder of the store posts a review.
Post(c, m, t, s) ==
    \/ /\ CheckRange(s)
       /\ PostReview([customer |-> c, merchant |-> m, text |-> t, rating |-> s], 0)
       /\ UNCHANGED merchants_
    \/ ~CheckRange(s) /\ Throws("invalid_argument")

\* Mutant of Visit: a merchant that is not reviewed gets an empty review.
Visit_EmptyReview(m) ==
    /\ Len(merchants_) < MaxEntries
    /\ \E c \in Customers \ {customer_id_}, t \in Texts :
       merchants_' = Append(merchants_,
           IF reviews_[m] # NoReview THEN reviews_[m]
             ELSE [customer |-> c, merchant |-> m, text |-> t, rating |-> 0])
    /\ outcome' = "ok"
    /\ UNCHANGED <<reviews_, passed>>

\* history.add(make_unique<visited_merchant>(m, store)): value() throws when the
\* customer has no review of m.
Visit(m) ==
    \/ /\ reviews_[m] # NoReview /\ Len(merchants_) < MaxEntries
       /\ merchants_' = Append(merchants_, reviews_[m])
       /\ outcome' = "ok"
       /\ UNCHANGED <<reviews_, passed>>
    \/ reviews_[m] = NoReview /\ Throws("bad_optional_access")

\* Mutant of PostRating: only what is posted gets the new rating.
PostRating_KeepsCopy(k, s) ==
    /\ PostReview([merchants_[k] EXCEPT !.rating = s], k)
    /\ UNCHANGED merchants_

\* visited_merchant::post_rating changes the copy, then posts it.
PostRating(k, s) ==
    LET rated == [merchants_[k] EXCEPT !.rating = s] IN
    /\ merchants_' = [merchants_ EXCEPT ![k] = rated]
    /\ PostReview(rated, k)

\* history.rate(k, stars{s})
Rate(k, s) ==
    \/ ~CheckRange(s) /\ Throws("invalid_argument")
    \/ CheckRange(s) /\ k \notin DOMAIN merchants_ /\ Throws("range_error")
    \/ /\ CheckRange(s) /\ k \in DOMAIN merchants_
       /\ \/ Differ(merchants_[k].rating, s) /\ PostRating(k, s)
          \/ /\ ~Differ(merchants_[k].rating, s)
             /\ outcome' = "ok"
             /\ UNCHANGED <<reviews_, merchants_, passed>>

Next ==
    \/ \E c \in Customers, m \in Merchants, t \in Texts, s \in Floats : Post(c, m, t, s)
    \/ \E m \in Merchants : Visit(m)
    \/ \E k \in 1 .. MaxEntries, s \in Floats : Rate(k, s)

Spec == Init /\ [][Next]_vars

-----------------------------------------------------------------------------
TypeOK ==
    /\ reviews_ \in [Merchants -> Review \cup {NoReview}]
    /\ merchants_ \in Seq(Review)
    /\ outcome \in {"ok", "invalid_argument", "bad_optional_access", "range_error"}
    /\ passed \subseteq DOMAIN merchants_

\* Whatever is posted and by whom, the store holds only its customer's reviews,
\* each under its own merchant.
OwnReviews ==
    \A m \in Merchants : reviews_[m] # NoReview =>
        reviews_[m].customer = customer_id_ /\ reviews_[m].merchant = m

\* An entry disagrees with the store only when somebody else, another entry of
\* the same merchant or a holder of the store, has posted since.
EntriesMatch ==
    \A k \in DOMAIN merchants_ \ passed :
        reviews_[merchants_[k].merchant] = merchants_[k]

\* post_rating writes the copy before it posts; the post is never refused after
\* that, so no entry shows a rating the store has not taken.  An index stays
\* with its merchant and a review that is there does not disappear.
KeptWhole ==
    /\ \A k \in DOMAIN merchants_ :
        /\ k \in DOMAIN merchants_' /\ merchants_'[k].merchant = merchants_[k].merchant
        /\ merchants_'[k] # merchants_[k] =>
               reviews_'[merchants_[k].merchant] = merchants_'[k]
    /\ \A m \in Merchants : reviews_[m] # NoReview => reviews_'[m] # NoReview

NoHalfRating == [][KeptWhole]_vars

\* "merchant history keeps store up to date": when rate() returns, the store has
\* the rating the user has chosen.
StoreUpToDate ==
    [][\A k \in DOMAIN merchants_, s \in Floats :
        Rate(k, s) /\ outcome' = "ok" => reviews_'[merchants_[k].merchant].rating = s]_vars
=============================================================================
