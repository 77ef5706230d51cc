---------------------------- MODULE ChapterProofs ----------------------------
(***************************************************************************)
(* Proofs about the programs of the chapters: the item for every width of  *)
(* int and every delivery, the app for any customers, merchants, texts,    *)
(* numbers and length of the history, the array for any names, addresses   *)
(* and elements, the gallery for any stores and favorites, and all of them *)
(* side by side.                                                           *)
(***************************************************************************)
EXTENDS ChapterPrograms, RoutineWorkProofs, InductionLemmas

-----------------------------------------------------------------------------
(* ItemStateMachine                                                        *)

\* An int sum or difference of a count and an event's count stays an int once
\* it is wrapped, and is the exact result when it was in range.
LEMMA WrapLemma ==
    ASSUME NEW n \in -2 * (IntMax + 1) .. 2 * IntMax + 1
    PROVE  Wrap(n) \in Ints /\ (n \in Ints => Wrap(n) = n)
BY ItemAssumption DEF Wrap, Ints

\* An event's count added to or taken from a stock wraps at most once.
LEMMA CountLemma ==
    ASSUME ItemOK, NEW n \in Counts
    PROVE  /\ n \in Ints /\ n \in Int
           /\ state_.count \in Ints
           /\ state_.count + n \in -2 * (IntMax + 1) .. 2 * IntMax + 1
           /\ state_.count - n \in -2 * (IntMax + 1) .. 2 * IntMax + 1
BY ItemAssumption DEF ItemOK, State, Depleted, Discontinued, Available, Ints

\* A step keeps the state well formed.
LEMMA ItemTypeStep == ItemOK /\ [ItemNext]_itemVars => ItemOK'
<1> SUFFICES ASSUME ItemOK, [ItemNext]_itemVars PROVE ItemOK'
    OBVIOUS
<1>1. CASE UNCHANGED itemVars
    BY <1>1 DEF ItemOK, itemVars
<1>2. CASE Discontinue /\ UNCHANGED events
    BY <1>2 DEF ItemOK, Discontinue, Stores, ledger, State
<1>3. ASSUME NEW n \in Counts, events < MaxEvents, events' = events + 1,
             DeliveryArrived(n) \/ Purchased(n)
      PROVE  ItemOK'
    <2> USE <1>3
    <2>1. events' \in 0 .. MaxEvents
        BY ItemAssumption DEF ItemOK
    <2>2. n \in Ints /\ n \in Int /\ state_.count \in Int
        BY CountLemma, ItemAssumption DEF Ints
    <2>3. Wrap(state_.count + n) \in Ints /\ Wrap(state_.count - n) \in Ints
        BY CountLemma, WrapLemma
    <2>4. CASE AvailableDelivery(n)
        <3>1. state_' \in State
            BY <2>3, <2>4 DEF AvailableDelivery, Stores, State
        <3>2. threw' \in BOOLEAN /\ overflowed' \in BOOLEAN /\ misdelivered' \in BOOLEAN
            BY <2>4, Zenon DEF AvailableDelivery, Delivers, Stores, ItemOK
        <3>3. arrived' \in Int /\ taken' \in Int /\ oversold' \in Int
            BY <2>2, <2>4 DEF AvailableDelivery, Delivers, ItemOK
        <3> QED
            BY <2>1, <3>1, <3>2, <3>3 DEF ItemOK
    <2>5. CASE DepletedDelivery(n)
        <3>1. state_' \in State
            BY <2>2, <2>5 DEF DepletedDelivery, Stores, State
        <3>2. threw' \in BOOLEAN /\ overflowed' \in BOOLEAN /\ misdelivered' \in BOOLEAN
            BY <2>5, Zenon DEF DepletedDelivery, Delivers, Stores, ItemOK
        <3>3. arrived' \in Int /\ taken' \in Int /\ oversold' \in Int
            BY <2>2, <2>5 DEF DepletedDelivery, Delivers, ItemOK
        <3> QED
            BY <2>1, <3>1, <3>2, <3>3 DEF ItemOK
    <2>6. CASE AvailablePurchase(n)
        <3>1. state_' \in State
            BY <2>3, <2>6 DEF AvailablePurchase, Stores, State
        <3>2. threw' \in BOOLEAN /\ overflowed' \in BOOLEAN /\ misdelivered' \in BOOLEAN
            BY <2>6, Zenon DEF AvailablePurchase, Takes, Stores, ItemOK
        <3>3. arrived' \in Int /\ taken' \in Int /\ oversold' \in Int
            BY <2>2, <2>6 DEF AvailablePurchase, Takes, ItemOK
        <3> QED
            BY <2>1, <3>1, <3>2, <3>3 DEF ItemOK
    <2>7. CASE \E tags : Unsupported(tags)
        BY <2>1, <2>7 DEF Unsupported, ItemOK, ledger
    <2> QED
        BY <2>4, <2>5, <2>6, <2>7 DEF DeliveryArrived, Purchased
<1> QED
    BY <1>1, <1>2, <1>3 DEF ItemNext

\* The machine starts out well formed.
LEMMA ItemInitOK == ItemInit => ItemOK
<1> SUFFICES ASSUME ItemInit PROVE ItemOK
    OBVIOUS
<1>1. state_ \in State
    BY DEF ItemInit, State
<1>2. threw \in BOOLEAN /\ overflowed \in BOOLEAN /\ misdelivered \in BOOLEAN
    BY DEF ItemInit
<1>3. /\ arrived \in Int /\ taken \in Int /\ oversold \in Int
          /\ events \in 0 .. MaxEvents
    BY ItemAssumption DEF ItemInit
<1> QED
    BY <1>1, <1>2, <1>3 DEF ItemOK

\* The machine's variant always holds one of its three states with a count an
\* int can hold, overflow included.
THEOREM TypeCorrect == ItemSpec => []ItemOK
BY ItemInitOK, ItemTypeStep, PTL DEF ItemSpec

\* A step keeps the stock equal to what came in less what was sold.
LEMMA LedgerStep == ItemOK /\ StockLedger /\ [ItemNext]_itemVars => StockLedger'
<1> SUFFICES ASSUME ItemOK, StockLedger, [ItemNext]_itemVars,
                    ~overflowed', state_'.tag # "Discontinued"
             PROVE  /\ state_'.count = arrived' - taken' + oversold'
                    /\ (state_'.tag = "Available" /\ ~misdelivered' => state_'.count > 0)
    BY DEF StockLedger
<1>1. CASE UNCHANGED itemVars
    BY <1>1 DEF StockLedger, itemVars
<1>2. CASE Discontinue
    BY <1>2 DEF Discontinue, Stores, Discontinued
<1>3. ASSUME NEW n \in Counts, DeliveryArrived(n) \/ Purchased(n)
      PROVE  /\ state_'.count = arrived' - taken' + oversold'
             /\ (state_'.tag = "Available" /\ ~misdelivered' => state_'.count > 0)
    <2> USE <1>3
    <2>1. n \in Int /\ state_.count \in Int
        BY CountLemma, ItemAssumption DEF Ints
    <2>2. arrived \in Int /\ taken \in Int /\ oversold \in Int
        BY DEF ItemOK
    <2>3. CASE AvailableDelivery(n)
        <3>1. ~overflowed /\ state_.count + n \in Ints
            BY <2>3 DEF AvailableDelivery, ItemOK
        <3>2. Wrap(state_.count + n) = state_.count + n
            BY <3>1, CountLemma, WrapLemma
        <3>3. ~misdelivered' => ~misdelivered /\ ~(n <= 0)
            BY <2>3, Zenon DEF AvailableDelivery, Delivers
        <3>4. state_'.count = state_.count + n
            BY <2>3, <3>2 DEF AvailableDelivery, Stores, Available
        <3> QED
            BY <2>1, <2>2, <2>3, <3>1, <3>3, <3>4
            DEF AvailableDelivery, Delivers, StockLedger
    <2>4. CASE DepletedDelivery(n)
        <3>1. state_.count = 0
            BY <2>4 DEF DepletedDelivery, ItemOK, State, Depleted, Available, Discontinued
        <3>2. ~misdelivered' => ~(n <= 0)
            BY <2>4, Zenon DEF DepletedDelivery, Delivers
        <3> QED
            BY <2>1, <2>2, <2>4, <3>1, <3>2
            DEF DepletedDelivery, Delivers, Stores, Available, StockLedger
    <2>5. CASE AvailablePurchase(n)
        <3>1. ~overflowed /\ state_.count - n \in Ints
            BY <2>5 DEF AvailablePurchase, ItemOK
        <3>2. Wrap(state_.count - n) = state_.count - n
            BY <3>1, CountLemma, WrapLemma
        <3>3. state_.count = arrived - taken + oversold
            BY <2>5, <3>1 DEF AvailablePurchase, StockLedger
        <3>4. CASE state_.count > n
            BY <2>1, <2>2, <2>5, <3>2, <3>3, <3>4
            DEF AvailablePurchase, Takes, Stores, Available
        <3>5. CASE state_.count <= n
            BY <2>1, <2>2, <2>5, <3>2, <3>3, <3>5
            DEF AvailablePurchase, Takes, Stores, Depleted
        <3> QED
            BY <2>1, <3>4, <3>5
    <2>6. CASE \E tags : Unsupported(tags)
        BY <2>6 DEF Unsupported, StockLedger, ledger
    <2> QED
        BY <2>3, <2>4, <2>5, <2>6 DEF DeliveryArrived, Purchased
<1> QED
    BY <1>1, <1>2, <1>3 DEF ItemNext

\* As long as no int operation has overflowed, the machine's count is the real
\* stock, whatever ints the events carry; and an item reported as available has
\* some, unless a delivery of none or fewer came in since the last purchase.
THEOREM LedgerCorrect == ItemSpec => []StockLedger
<1>1. ItemInit => StockLedger
    BY DEF ItemInit, StockLedger, Depleted
<1> QED
    BY <1>1, TypeCorrect, LedgerStep, PTL DEF ItemSpec
\* No sequence of events brings a discontinued item back, and none that throws
\* leaves the state half changed.
THEOREM FinalIsFinal == ItemSpec => DiscontinuedIsFinal
<1> DEFINE Final ==
        /\ state_.tag = "Discontinued" => state_' = state_ /\ ledger' = ledger
        /\ (threw' /\ ~threw) => state_' = state_ /\ ledger' = ledger
<1>1. ASSUME NEW n \in Counts, DeliveryArrived(n) \/ Purchased(n) PROVE Final
    <2>1. CASE AvailableDelivery(n) \/ DepletedDelivery(n) \/ AvailablePurchase(n)
        BY <2>1 DEF AvailableDelivery, DepletedDelivery, AvailablePurchase, Stores
    <2>2. CASE \E tags : Unsupported(tags)
        BY <2>2 DEF Unsupported
    <2> QED
        BY <1>1, <2>1, <2>2 DEF DeliveryArrived, Purchased
<1>2. ItemOK /\ Discontinue => Final
    BY DEF ItemOK, State, Discontinue, Stores, Depleted, Available, Discontinued, ledger
<1>3. ItemOK /\ [ItemNext]_itemVars => [Final]_itemVars
    BY <1>1, <1>2 DEF ItemNext
<1> QED
    BY <1>3, TypeCorrect, PTL DEF ItemSpec, DiscontinuedIsFinal

-----------------------------------------------------------------------------
(* VisitedMerchants                                                        *)

\* Entries are copies of reviews of the store, so they are its customer's too:
\* that is why a post by an entry is never refused.
OwnEntries == \A k \in DOMAIN merchants_ : merchants_[k].customer = customer_id_

MerchantsInv == TypeOK /\ OwnReviews /\ OwnEntries /\ EntriesMatch

\* What check_range lets through is in range or not a number.
LEMMA ReviewFacts ==
    /\ NoReview \notin Review
    /\ \A s \in Floats : CheckRange(s) => s \in 0 .. 5 \cup {NaN}
BY MerchantAssumption DEF Review, CheckRange, InRange

\* A post keeps the invariant, accepted or refused.
LEMMA PostStep ==
    ASSUME MerchantsInv, NEW c \in Customers, NEW m \in Merchants, NEW t \in Texts,
           NEW s \in Floats, Post(c, m, t, s)
    PROVE  MerchantsInv'
<1> DEFINE r == [customer |-> c, merchant |-> m, text |-> t, rating |-> s]
<1> USE DEF MerchantsInv
<1>1. CASE ~CheckRange(s) /\ Throws("invalid_argument")
    BY <1>1 DEF Throws, TypeOK, OwnReviews, OwnEntries, EntriesMatch
<1>2. CASE CheckRange(s) /\ PostReview(r, 0) /\ UNCHANGED merchants_
    <2>1. r \in Review
        BY <1>2, ReviewFacts DEF Review
    <2>2. CASE ~Accepts(r)
        BY <1>2, <2>2 DEF PostReview, TypeOK, OwnReviews, OwnEntries, EntriesMatch
    <2>3. CASE Accepts(r)
        <3>1. /\ reviews_' = [reviews_ EXCEPT ![m] = r] /\ outcome' = "ok"
              /\ passed' = (passed \cup EntriesOf(m)) \ {0} /\ merchants_' = merchants_
            BY <1>2, <2>3 DEF PostReview
        <3>2. TypeOK'
            BY <2>1, <3>1, LenProperties DEF TypeOK, EntriesOf
        <3>3. OwnReviews' /\ OwnEntries'
            BY <2>3, <3>1 DEF OwnReviews, OwnEntries, Accepts, TypeOK
        <3>4. EntriesMatch'
            BY <3>1 DEF EntriesMatch, EntriesOf, TypeOK
        <3> QED
            BY <3>2, <3>3, <3>4
    <2> QED
        BY <2>2, <2>3
<1> QED
    BY <1>1, <1>2 DEF Post

\* So does a new entry: it starts as a copy of the store's review.
LEMMA VisitStep ==
    ASSUME MerchantsInv, NEW m \in Merchants, Visit(m)
    PROVE  MerchantsInv'
<1> USE DEF MerchantsInv
<1>1. CASE Throws("bad_optional_access")
    BY <1>1 DEF Throws, TypeOK, OwnReviews, OwnEntries, EntriesMatch
<1>2. CASE /\ reviews_[m] # NoReview
           /\ merchants_' = Append(merchants_, reviews_[m])
           /\ outcome' = "ok" /\ UNCHANGED <<reviews_, passed>>
    <2>1. reviews_[m] \in Review /\ merchants_ \in Seq(Review)
        BY <1>2 DEF TypeOK
    <2>2. /\ merchants_' \in Seq(Review)
          /\ DOMAIN merchants_ = 1 .. Len(merchants_) /\ Len(merchants_) \in Nat
          /\ DOMAIN merchants_' = 1 .. Len(merchants_) + 1
          /\ \A k \in DOMAIN merchants_ : merchants_'[k] = merchants_[k]
          /\ merchants_'[Len(merchants_) + 1] = reviews_[m]
        BY <1>2, <2>1, AppendProperties, LenProperties
    <2>3. TypeOK'
        BY <1>2, <2>2 DEF TypeOK
    <2>4. OwnReviews' /\ OwnEntries' /\ EntriesMatch'
        BY <1>2, <2>2 DEF OwnReviews, OwnEntries, EntriesMatch
    <2> QED
        BY <2>3, <2>4
<1> QED
    BY <1>1, <1>2 DEF Visit

\* A post by an entry is accepted, and store and entry agree on the rating.
LEMMA PostRatingAccepted ==
    ASSUME MerchantsInv, NEW k \in DOMAIN merchants_, NEW s, PostRating(k, s)
    PROVE  LET rated == [merchants_[k] EXCEPT !.rating = s] IN
           /\ merchants_[k] \in Review /\ rated.customer = customer_id_
           /\ merchants_' = [merchants_ EXCEPT ![k] = rated]
           /\ reviews_' = [reviews_ EXCEPT ![merchants_[k].merchant] = rated]
           /\ passed' = (passed \cup EntriesOf(merchants_[k].merchant)) \ {k}
           /\ outcome' = "ok"
<1> DEFINE rated == [merchants_[k] EXCEPT !.rating = s]
<1>1. merchants_[k] \in Review /\ merchants_[k].customer = customer_id_
    BY ElementOfSeq, LenProperties DEF MerchantsInv, TypeOK, OwnEntries
<1>2. rated.customer = customer_id_ /\ rated.merchant = merchants_[k].merchant
    BY <1>1 DEF Review
<1>3. Accepts(rated)
    BY <1>2 DEF Accepts
<1> QED
    BY <1>1, <1>2, <1>3 DEF PostRating, PostReview

\* So does a rating, which goes to the store and the entry together.
LEMMA RateStep ==
    ASSUME MerchantsInv, NEW k, NEW s \in Floats, Rate(k, s)
    PROVE  MerchantsInv'
<1> USE DEF MerchantsInv
<1>1. CASE Throws("invalid_argument") \/ Throws("range_error")
    BY <1>1 DEF Throws, TypeOK, OwnReviews, OwnEntries, EntriesMatch
<1>2. CASE outcome' = "ok" /\ UNCHANGED <<reviews_, merchants_, passed>>
    BY <1>2 DEF TypeOK, OwnReviews, OwnEntries, EntriesMatch
<1>3. CASE CheckRange(s) /\ k \in DOMAIN merchants_ /\ PostRating(k, s)
    <2> DEFINE rated == [merchants_[k] EXCEPT !.rating = s]
               m == merchants_[k].merchant
    <2>1. /\ merchants_[k] \in Review /\ rated.customer = customer_id_
          /\ merchants_' = [merchants_ EXCEPT ![k] = rated]
          /\ reviews_' = [reviews_ EXCEPT ![m] = rated]
          /\ passed' = (passed \cup EntriesOf(m)) \ {k}
          /\ outcome' = "ok"
        BY <1>3, PostRatingAccepted
    <2>2. rated \in Review /\ rated.merchant = m /\ m \in Merchants
        BY <1>3, <2>1, ReviewFacts DEF Review
    <2>3. k \in 1 .. Len(merchants_) /\ DOMAIN merchants_' = DOMAIN merchants_
        BY <1>3, <2>1, LenProperties DEF TypeOK
    <2>4. TypeOK'
        BY <2>1, <2>2, <2>3, ExceptSeq DEF TypeOK, EntriesOf
    <2>5. OwnReviews' /\ OwnEntries'
        BY <2>1, <2>2, <2>3 DEF OwnReviews, OwnEntries, TypeOK
    <2>6. EntriesMatch'
        BY <2>1, <2>2, <2>3 DEF EntriesMatch, EntriesOf, TypeOK
    <2> QED
        BY <2>4, <2>5, <2>6
<1> QED
    BY <1>1, <1>2, <1>3 DEF Rate

\* The invariant holds before the first post.
LEMMA MerchantsInit == Init => MerchantsInv
BY MerchantAssumption
DEF Init, MerchantsInv, TypeOK, OwnReviews, OwnEntries, EntriesMatch

\* And every step keeps it.
LEMMA MerchantsNext == MerchantsInv /\ [Next]_vars => MerchantsInv'
<1>1. MerchantsInv /\ UNCHANGED vars => MerchantsInv'
    BY DEF MerchantsInv, vars, TypeOK, OwnReviews, OwnEntries, EntriesMatch
<1> QED
    BY <1>1, PostStep, VisitStep, RateStep DEF Next

\* MerchantsInv is an invariant of the app and its store.
THEOREM MerchantsInvariance == Spec => []MerchantsInv
BY MerchantsInit, MerchantsNext, PTL DEF Spec

\* The store is never given another customer's review, nor one under a merchant
\* it is not about.
THEOREM StoreIsOwn == Spec => []OwnReviews
BY MerchantsInvariance, PTL DEF MerchantsInv

\* An entry and the store differ only after somebody else's post.
THEOREM EntriesAgree == Spec => []EntriesMatch
BY MerchantsInvariance, PTL DEF MerchantsInv

\* No step changes a rating on one side only.
LEMMA HalfStep == MerchantsInv /\ [Next]_vars => KeptWhole
<1> SUFFICES ASSUME MerchantsInv, [Next]_vars PROVE KeptWhole
    OBVIOUS
<1> USE DEF KeptWhole
<1>1. CASE UNCHANGED <<reviews_, merchants_>>
    BY <1>1
<1>2. ASSUME NEW c \in Customers, NEW m \in Merchants, NEW t \in Texts,
             NEW s \in Floats, Post(c, m, t, s)
      PROVE  KeptWhole
    <2> DEFINE r == [customer |-> c, merchant |-> m, text |-> t, rating |-> s]
    <2>1. CASE UNCHANGED reviews_
        BY <1>1, <1>2, <2>1 DEF Post, Throws
    <2>2. CASE reviews_' = [reviews_ EXCEPT ![m] = r] /\ UNCHANGED merchants_
                   /\ CheckRange(s)
        <3>1. r \in Review
            BY <2>2, ReviewFacts DEF Review
        <3> QED
            BY <2>2, <3>1, ReviewFacts DEF MerchantsInv, TypeOK
    <2> QED
        BY <1>2, <2>1, <2>2 DEF Post, PostReview, Throws
<1>3. ASSUME NEW m \in Merchants, Visit(m) PROVE KeptWhole
    <2>1. CASE Throws("bad_optional_access")
        BY <1>1, <2>1 DEF Throws
    <2>2. CASE /\ reviews_[m] # NoReview /\ UNCHANGED reviews_
               /\ merchants_' = Append(merchants_, reviews_[m])
        <3>1. reviews_[m] \in Review /\ merchants_ \in Seq(Review)
            BY <2>2 DEF MerchantsInv, TypeOK
        <3>2. \A k \in DOMAIN merchants_ :
                k \in DOMAIN merchants_' /\ merchants_'[k] = merchants_[k]
            BY <2>2, <3>1, AppendProperties, LenProperties
        <3> QED
            BY <2>2, <3>2
    <2> QED
        BY <1>3, <2>1, <2>2 DEF Visit
<1>4. ASSUME NEW k \in 1 .. MaxEntries, NEW s \in Floats, Rate(k, s) PROVE KeptWhole
    <2>1. CASE k \in DOMAIN merchants_ /\ PostRating(k, s) /\ CheckRange(s)
        <3> DEFINE rated == [merchants_[k] EXCEPT !.rating = s]
                   m == merchants_[k].merchant
        <3>1. /\ merchants_[k] \in Review
              /\ merchants_' = [merchants_ EXCEPT ![k] = rated]
              /\ reviews_' = [reviews_ EXCEPT ![m] = rated]
            BY <2>1, PostRatingAccepted
        <3>2. rated \in Review /\ rated.merchant = m /\ m \in Merchants
            BY <2>1, <3>1, ReviewFacts DEF Review
        <3> QED
            BY <2>1, <3>1, <3>2, ReviewFacts DEF MerchantsInv, TypeOK
    <2>2. CASE UNCHANGED <<reviews_, merchants_>>
        BY <1>1, <2>2
    <2> QED
        BY <1>4, <2>1, <2>2 DEF Rate, Throws
<1> QED
    BY <1>1, <1>2, <1>3, <1>4 DEF Next, vars

\* No call leaves an entry with a rating the store has not taken, moves an entry
\* to another index or loses a review.
THEOREM NoRatingIsHalf == Spec => NoHalfRating
<1>1. MerchantsInv /\ [Next]_vars => [KeptWhole]_vars
    BY HalfStep
<1> QED
    BY <1>1, MerchantsInvariance, PTL DEF Spec, NoHalfRating

-----------------------------------------------------------------------------
(* ArrayValue                                                              *)

ArraysShape ==
    /\ Alive \subseteq Name /\ DOMAIN meant = Alive /\ DOMAIN heap \subseteq Address
    /\ \A a \in Alive : /\ arrays[a] \in [array_ : Address \cup {nullptr}, size_ : Nat]
                        /\ meant[a] \in Seq(Element)

ArrayInv == ArraysShape /\ ArraysAreValues

LEMMA ArrayInitInv == ArrayInit => ArrayInv
BY DEF ArrayInit, ArrayInv, ArraysShape, ArraysAreValues, Alive

\* A variable that is made, with a block of its own.
LEMMA MadeInv ==
    ASSUME ArrayInv, NEW a \in Name, a \notin Alive, NEW address \in Free, NEW e \in Seq(Element),
           heap' = With(heap, address, e), arrays' = With(arrays, a, Block(address, e)),
           meant' = With(meant, a, e)
    PROVE  ArrayInv'
<1> USE DEF ArrayInv, ArraysShape, Alive
<1>1. /\ DOMAIN heap' = DOMAIN heap \cup {address} /\ heap'[address] = e
      /\ \A p \in DOMAIN heap : heap'[p] = heap[p]
  BY DEF Free, With
<1>2. /\ DOMAIN arrays' = DOMAIN arrays \cup {a}
      /\ arrays'[a] = [array_ |-> address, size_ |-> Len(e)]
      /\ \A b \in DOMAIN arrays : arrays'[b] = arrays[b]
  BY DEF Block, With
<1>3. /\ DOMAIN meant' = DOMAIN arrays \cup {a} /\ meant'[a] = e
      /\ \A b \in DOMAIN arrays : meant'[b] = meant[b]
  BY DEF With
<1>4. address \in Address /\ address \notin DOMAIN heap /\ address # nullptr
  BY AddressAssumption DEF Free
<1>5. \A b \in DOMAIN arrays : arrays[b].array_ # address
  BY <1>4 DEF ArraysAreValues
<1>6. ArraysShape'
  BY <1>1, <1>2, <1>3, <1>4
<1>7. DOMAIN heap' = {arrays'[b].array_ : b \in Alive'} \ {nullptr}
  BY <1>1, <1>2, <1>4 DEF ArraysAreValues
<1>8. \A b, c \in Alive' : arrays'[b].array_ = arrays'[c].array_ => b = c \/ arrays'[b] = Null
  BY <1>2, <1>5 DEF ArraysAreValues
<1>9. ASSUME NEW b \in Alive' PROVE Elements(b)' = meant'[b] /\ arrays'[b].size_ = Len(meant'[b])
  <2>1. CASE b = a
    BY <2>1, <1>1, <1>2, <1>3, <1>4 DEF Elements
  <2>2. CASE b # a
    <3>1. /\ b \in Alive /\ arrays'[b] = arrays[b] /\ meant'[b] = meant[b]
          /\ Elements(b) = meant[b] /\ arrays[b].size_ = Len(meant[b])
      BY <2>2, <1>2, <1>3 DEF ArraysAreValues
    <3>2. arrays[b].array_ # nullptr => arrays[b].array_ \in DOMAIN heap
      BY <3>1 DEF ArraysAreValues
    <3>3. Elements(b)' = Elements(b)
      BY <1>1, <3>1, <3>2 DEF Elements
    <3> QED BY <3>1, <3>3
  <2> QED BY <2>1, <2>2
<1> QED BY <1>6, <1>7, <1>8, <1>9 DEF ArraysAreValues

\* What the invariant says of one variable: its block is its own, and allocated.
LEMMA OfOne ==
    ASSUME ArrayInv, NEW a \in Alive
    PROVE  /\ Elements(a) = meant[a] /\ arrays[a].size_ = Len(meant[a])
           /\ arrays[a].array_ # nullptr => /\ arrays[a].array_ \in DOMAIN heap
                                            /\ heap[arrays[a].array_] = meant[a]
           /\ arrays[a].array_ = nullptr => arrays[a] = Null /\ meant[a] = <<>>
           /\ \A b \in Alive : arrays[a].array_ = arrays[b].array_ /\ a # b =>
                arrays[a].array_ = nullptr
           /\ meant[a] \in Seq(Element) /\ arrays[a].size_ \in Nat
           /\ arrays[a] \in [array_ : Address \cup {nullptr}, size_ : Nat]
<1> USE DEF ArrayInv, ArraysShape, Alive
<1>1. Elements(a) = meant[a] /\ arrays[a].size_ = Len(meant[a])
  BY DEF ArraysAreValues
<1>2. /\ meant[a] \in Seq(Element) /\ arrays[a].size_ \in Nat
      /\ arrays[a] \in [array_ : Address \cup {nullptr}, size_ : Nat]
  OBVIOUS
<1>3. arrays[a].array_ # nullptr => arrays[a].array_ \in DOMAIN heap /\ heap[arrays[a].array_] = meant[a]
  BY <1>1 DEF ArraysAreValues, Elements
<1>4. arrays[a].array_ = nullptr => arrays[a] = Null /\ meant[a] = <<>>
  BY <1>1, <1>2 DEF Elements, Null
<1>5. ASSUME NEW b \in Alive, arrays[a].array_ = arrays[b].array_, a # b
      PROVE  arrays[a].array_ = nullptr
  BY <1>5 DEF ArraysAreValues, Null
<1> QED BY <1>1, <1>2, <1>3, <1>4, <1>5

\* The invariant, as what is to be shown of each variable after a step.
LEMMA FromEach ==
    ASSUME Alive' \subseteq Name, DOMAIN meant' = Alive', DOMAIN heap' \subseteq Address,
           \A p \in DOMAIN heap' : \E a \in Alive' : arrays'[a].array_ = p,
           \A a \in Alive' :
              /\ arrays'[a] \in [array_ : Address \cup {nullptr}, size_ : Nat]
              /\ arrays'[a].size_ = Len(meant'[a])
              /\ meant'[a] \in Seq(Element)
              /\ arrays'[a].array_ # nullptr =>
                    /\ arrays'[a].array_ \in DOMAIN heap' /\ heap'[arrays'[a].array_] = meant'[a]
              /\ arrays'[a].array_ = nullptr => meant'[a] = <<>>,
           \A a, b \in Alive' : arrays'[a].array_ = arrays'[b].array_ /\ a # b =>
              arrays'[a].array_ = nullptr
    PROVE  ArrayInv'
<1>2. ArraysShape'
  BY DEF ArraysShape, Alive
<1>3. DOMAIN heap' = {arrays'[a].array_ : a \in Alive'} \ {nullptr}
  <2>1. nullptr \notin DOMAIN heap'
    BY AddressAssumption
  <2>2. \A a \in Alive' : arrays'[a].array_ # nullptr => arrays'[a].array_ \in DOMAIN heap'
    OBVIOUS
  <2>3. \A p \in DOMAIN heap' : \E a \in Alive' : arrays'[a].array_ = p
    OBVIOUS
  <2> QED BY ONLY <2>1, <2>2, <2>3
<1>4. \A a, b \in Alive' : arrays'[a].array_ = arrays'[b].array_ => a = b \/ arrays'[a] = Null
  <2> SUFFICES ASSUME NEW a \in Alive', NEW b \in Alive', a # b,
                      arrays'[a].array_ = arrays'[b].array_
               PROVE  arrays'[a] = Null
    OBVIOUS
  <2>1. arrays'[a].array_ = nullptr /\ meant'[a] = <<>>
    OBVIOUS
  <2>2. arrays'[a].size_ = 0
    BY <2>1
  <2> QED BY <2>1, <2>2 DEF Null
<1>5. ASSUME NEW a \in Alive'
      PROVE  Elements(a)' = meant'[a] /\ arrays'[a].size_ = Len(meant'[a])
  <2>1. arrays'[a].size_ = Len(meant'[a])
    OBVIOUS
  <2>2. Elements(a)' = meant'[a]
    BY DEF Elements
  <2> QED BY <2>1, <2>2
<1> QED BY <1>2, <1>3, <1>4, <1>5 DEF ArrayInv, ArraysAreValues

\* A block that is deleted is gone, the others stay.
LEMMA DeletedIs ==
    ASSUME ArrayInv, NEW a \in Alive
    PROVE  LET p == arrays[a].array_
           IN  /\ DOMAIN Deleted(heap, p) = DOMAIN heap \ {p}
               /\ \A q \in DOMAIN heap \ {p} : Deleted(heap, p)[q] = heap[q]
<1>1. CASE arrays[a].array_ = nullptr
  <2>1. nullptr \notin DOMAIN heap
    BY AddressAssumption DEF ArrayInv, ArraysShape
  <2> QED BY <1>1, <2>1 DEF Deleted
<1>2. CASE arrays[a].array_ # nullptr
  BY <1>2 DEF Deleted, Without, Restrict
<1> QED BY <1>1, <1>2

LEMMA MoveConstructInv ==
    ASSUME ArrayInv, NEW a \in Name, NEW other \in Name, MoveConstruct(a, other)
    PROVE  ArrayInv'
<1>1. /\ a \notin Alive /\ other \in Alive /\ a # other /\ heap' = heap
      /\ Alive' = Alive \cup {a} /\ DOMAIN meant' = Alive' /\ Alive' \subseteq Name
      /\ arrays'[a] = arrays[other] /\ meant'[a] = meant[other]
      /\ arrays'[other] = Null /\ meant'[other] = <<>>
      /\ \A b \in Alive : b # other => arrays'[b] = arrays[b] /\ meant'[b] = meant[b]
  BY DEF MoveConstruct, With, Alive, ArrayInv, ArraysShape
<1>2. \A p \in DOMAIN heap' : \E b \in Alive' : arrays'[b].array_ = p
  <2> SUFFICES ASSUME NEW p \in DOMAIN heap PROVE \E b \in Alive' : arrays'[b].array_ = p
    BY <1>1
  <2>1. PICK b \in Alive : arrays[b].array_ = p
    BY DEF ArrayInv, ArraysAreValues
  <2> QED BY <1>1, <2>1
<1>3. ASSUME NEW b \in Alive'
      PROVE  /\ arrays'[b] \in [array_ : Address \cup {nullptr}, size_ : Nat]
             /\ arrays'[b].size_ = Len(meant'[b])
             /\ meant'[b] \in Seq(Element)
             /\ arrays'[b].array_ # nullptr =>
                   /\ arrays'[b].array_ \in DOMAIN heap' /\ heap'[arrays'[b].array_] = meant'[b]
             /\ arrays'[b].array_ = nullptr => meant'[b] = <<>>
  <2>1. CASE b = other
    BY <1>1, <2>1 DEF Null
  <2>2. CASE b = a
    BY <1>1, <2>2, OfOne
  <2>3. CASE b # a /\ b # other
    BY <1>1, <2>3, OfOne
  <2> QED BY <2>1, <2>2, <2>3
<1>4. ASSUME NEW b \in Alive', NEW c \in Alive', b # c, arrays'[b].array_ = arrays'[c].array_
      PROVE  arrays'[b].array_ = nullptr
  <2>1. CASE b = other \/ c = other
    BY <1>1, <1>4, <2>1 DEF Null
  <2>2. CASE b # other /\ c # other
    <3> DEFINE was(d) == IF d = a THEN other ELSE d
    <3>1. was(b) \in Alive /\ was(c) \in Alive /\ was(b) # was(c)
      BY <1>1, <1>4, <2>2
    <3>2. arrays'[b] = arrays[was(b)] /\ arrays'[c] = arrays[was(c)]
      BY <1>1, <2>2
    <3> HIDE DEF was
    <3> QED BY <1>4, <3>1, <3>2, OfOne
  <2> QED BY <2>1, <2>2
<1>5. DOMAIN heap' \subseteq Address
  BY <1>1 DEF ArrayInv, ArraysShape
<1> QED BY <1>1, <1>2, <1>3, <1>4, <1>5, FromEach

LEMMA SwapInv ==
    ASSUME ArrayInv, NEW l \in Name, NEW r \in Name, swap(l, r)
    PROVE  ArrayInv'
<1> DEFINE was(d) == IF d = r THEN l ELSE IF d = l THEN r ELSE d
<1>1. /\ l \in Alive /\ r \in Alive /\ heap' = heap /\ Alive' = Alive /\ DOMAIN meant' = Alive
      /\ Alive \subseteq Name /\ DOMAIN heap \subseteq Address
      /\ \A b \in Alive : was(b) \in Alive /\ arrays'[b] = arrays[was(b)] /\ meant'[b] = meant[was(b)]
      /\ \A b \in Alive : was(was(b)) = b
  BY DEF swap, Alive, ArrayInv, ArraysShape
<1> HIDE DEF was
<1>2. \A p \in DOMAIN heap' : \E b \in Alive' : arrays'[b].array_ = p
  <2> SUFFICES ASSUME NEW p \in DOMAIN heap PROVE \E b \in Alive' : arrays'[b].array_ = p
    BY <1>1
  <2>1. PICK b \in Alive : arrays[b].array_ = p
    BY DEF ArrayInv, ArraysAreValues
  <2> QED BY <1>1, <2>1
<1>3. ASSUME NEW b \in Alive'
      PROVE  /\ arrays'[b] \in [array_ : Address \cup {nullptr}, size_ : Nat]
             /\ arrays'[b].size_ = Len(meant'[b])
             /\ meant'[b] \in Seq(Element)
             /\ arrays'[b].array_ # nullptr =>
                   /\ arrays'[b].array_ \in DOMAIN heap' /\ heap'[arrays'[b].array_] = meant'[b]
             /\ arrays'[b].array_ = nullptr => meant'[b] = <<>>
  BY <1>1, OfOne
<1>4. ASSUME NEW b \in Alive', NEW c \in Alive', b # c, arrays'[b].array_ = arrays'[c].array_
      PROVE  arrays'[b].array_ = nullptr
  <2>1. was(b) # was(c)
    BY <1>1, <1>4
  <2> QED BY <1>1, <1>4, <2>1, OfOne
<1> QED BY <1>1, <1>2, <1>3, <1>4, FromEach

LEMMA MoveAssignInv ==
    ASSUME ArrayInv, NEW a \in Name, NEW other \in Name, MoveAssign(a, other)
    PROVE  ArrayInv'
<1>1. /\ a \in Alive /\ other \in Alive /\ Alive' = Alive /\ DOMAIN meant' = Alive
      /\ Alive \subseteq Name /\ DOMAIN heap \subseteq Address
      /\ arrays'[a] = arrays[other] /\ meant'[a] = meant[other]
      /\ \A b \in Alive : b # a /\ b # other => arrays'[b] = arrays[b] /\ meant'[b] = meant[b]
      /\ a # other => arrays'[other] = Null /\ meant'[other] = <<>>
  BY DEF MoveAssign, Alive, ArrayInv, ArraysShape
<1> DEFINE old == IF a = other THEN nullptr ELSE arrays[a].array_
<1>2. DOMAIN heap' = DOMAIN heap \ {old} /\ \A q \in DOMAIN heap \ {old} : heap'[q] = heap[q]
  <2>1. CASE a = other
    <3>1. nullptr \notin DOMAIN heap
      BY AddressAssumption, <1>1
    <3>2. heap' = Deleted(heap, nullptr)
      BY <1>1, <2>1 DEF MoveAssign, Null, Alive
    <3> QED BY <2>1, <3>1, <3>2 DEF Deleted
  <2>2. CASE a # other
    <3>1. heap' = Deleted(heap, arrays[a].array_)
      BY <1>1, <2>2 DEF MoveAssign, Alive
    <3> QED BY <1>1, <2>2, <3>1, DeletedIs
  <2> QED BY <2>1, <2>2
<1>3. ASSUME NEW b \in Alive, b # a \/ a = other
      PROVE  arrays[b].array_ # nullptr => arrays[b].array_ # old
  BY <1>1, <1>3, OfOne
<1> HIDE DEF old
<1>4. \A p \in DOMAIN heap' : \E b \in Alive' : arrays'[b].array_ = p
  <2> SUFFICES ASSUME NEW p \in DOMAIN heap, p # old PROVE \E b \in Alive' : arrays'[b].array_ = p
    BY <1>2
  <2>1. PICK b \in Alive : arrays[b].array_ = p
    BY DEF ArrayInv, ArraysAreValues
  <2>2. b # a \/ a = other
    BY <2>1 DEF old
  <2> QED BY <1>1, <2>1, <2>2
<1>5. ASSUME NEW b \in Alive'
      PROVE  /\ arrays'[b] \in [array_ : Address \cup {nullptr}, size_ : Nat]
             /\ arrays'[b].size_ = Len(meant'[b])
             /\ meant'[b] \in Seq(Element)
             /\ arrays'[b].array_ # nullptr =>
                   /\ arrays'[b].array_ \in DOMAIN heap' /\ heap'[arrays'[b].array_] = meant'[b]
             /\ arrays'[b].array_ = nullptr => meant'[b] = <<>>
  <2>1. CASE b = a
    <3>1. arrays'[b] = arrays[other] /\ meant'[b] = meant[other]
      BY <1>1, <2>1
    <3>2. /\ arrays[other] \in [array_ : Address \cup {nullptr}, size_ : Nat]
          /\ arrays[other].size_ = Len(meant[other]) /\ meant[other] \in Seq(Element)
          /\ arrays[other].array_ # nullptr =>
                /\ arrays[other].array_ \in DOMAIN heap /\ heap[arrays[other].array_] = meant[other]
          /\ arrays[other].array_ = nullptr => meant[other] = <<>>
      BY <1>1, OfOne
    <3>3. arrays[other].array_ # nullptr => arrays[other].array_ # old
      BY <1>1, <1>3
    <3> QED BY <1>2, <3>1, <3>2, <3>3
  <2>2. CASE b # a /\ b = other
    <3>1. arrays'[b] = Null /\ meant'[b] = <<>>
      BY <1>1, <2>2
    <3> QED BY <3>1 DEF Null
  <2>3. CASE b # a /\ b # other
    BY <1>1, <1>2, <1>3, <2>3, OfOne
  <2> QED BY <2>1, <2>2, <2>3
<1>6. ASSUME NEW b \in Alive', NEW c \in Alive', b # c, arrays'[b].array_ = arrays'[c].array_
      PROVE  arrays'[b].array_ = nullptr
  <2>1. ASSUME a # other, b = other \/ c = other
        PROVE  arrays'[b].array_ = nullptr
    BY <1>1, <1>6, <2>1 DEF Null
  <2>2. ASSUME ~(a # other /\ (b = other \/ c = other))
        PROVE  arrays'[b].array_ = nullptr
    <3> DEFINE was(d) == IF d = a THEN other ELSE d
    <3>1. was(b) \in Alive /\ was(c) \in Alive /\ was(b) # was(c)
      BY <1>1, <1>6, <2>2
    <3>2. arrays'[b] = arrays[was(b)] /\ arrays'[c] = arrays[was(c)]
      BY <1>1, <2>2
    <3> HIDE DEF was
    <3>3. arrays[was(b)].array_ = arrays[was(c)].array_
      BY <1>6, <3>2
    <3>4. arrays[was(b)].array_ = nullptr
      BY <3>1, <3>3, OfOne
    <3> QED BY <3>2, <3>4
  <2> QED BY <2>1, <2>2
<1> QED BY <1>1, <1>2, <1>4, <1>5, <1>6, FromEach

LEMMA CopyAssignInv ==
    ASSUME ArrayInv, NEW a \in Name, NEW other \in Name, CopyAssign(a, other)
    PROVE  ArrayInv'
<1>1. CASE BadAlloc
  BY <1>1 DEF BadAlloc, arrayVars, ArrayInv, ArraysShape, ArraysAreValues, Alive, Elements
<1>2. ASSUME NEW address \in Free,
             heap' = Deleted(With(heap, address, Elements(other)), arrays[a].array_),
             arrays' = [arrays EXCEPT ![a] = Block(address, Elements(other))],
             meant' = [meant EXCEPT ![a] = meant[other]]
      PROVE  ArrayInv'
  <2>1. /\ a \in Alive /\ other \in Alive /\ Alive' = Alive /\ DOMAIN meant' = Alive
        /\ Alive \subseteq Name /\ DOMAIN heap \subseteq Address
        /\ meant'[a] = meant[other] /\ arrays'[a] = Block(address, Elements(other))
        /\ \A b \in Alive : b # a => arrays'[b] = arrays[b] /\ meant'[b] = meant[b]
    BY <1>2 DEF CopyAssign, Alive, ArrayInv, ArraysShape
  <2>2. Elements(other) = meant[other] /\ meant[other] \in Seq(Element)
    BY <2>1, OfOne
  <2>3. address \in Address /\ address \notin DOMAIN heap /\ address # nullptr
    BY AddressAssumption DEF Free
  <2>4. arrays[a].array_ # address
    BY <2>1, <2>3, OfOne
  <2>5. /\ DOMAIN heap' = (DOMAIN heap \cup {address}) \ {arrays[a].array_}
        /\ heap'[address] = meant[other]
        /\ \A q \in DOMAIN heap \ {arrays[a].array_} : heap'[q] = heap[q]
    <3> DEFINE blocks == With(heap, address, Elements(other))
    <3>1. /\ DOMAIN blocks = DOMAIN heap \cup {address} /\ blocks[address] = meant[other]
          /\ \A q \in DOMAIN heap : blocks[q] = heap[q]
      BY <2>2, <2>3 DEF With
    <3> HIDE DEF blocks
    <3>2. heap' = Deleted(blocks, arrays[a].array_)
      BY <1>2 DEF blocks
    <3>3. CASE arrays[a].array_ = nullptr
      <4>1. nullptr \notin DOMAIN heap
        BY AddressAssumption, <2>1
      <4> QED BY <2>3, <3>1, <3>2, <3>3, <4>1 DEF Deleted
    <3>4. CASE arrays[a].array_ # nullptr
      BY <2>4, <3>1, <3>2, <3>4 DEF Deleted, Without, Restrict
    <3> QED BY <3>3, <3>4
  <2>6. arrays'[a] \in [array_ : Address \cup {nullptr}, size_ : Nat]
        /\ arrays'[a].array_ = address /\ arrays'[a].size_ = Len(meant[other])
    BY <2>1, <2>2, <2>3 DEF Block
  <2>7. \A p \in DOMAIN heap' : \E b \in Alive' : arrays'[b].array_ = p
    <3> SUFFICES ASSUME NEW p \in DOMAIN heap' PROVE \E b \in Alive' : arrays'[b].array_ = p
      OBVIOUS
    <3>1. CASE p = address
      BY <2>1, <2>6, <3>1
    <3>2. CASE p \in DOMAIN heap /\ p # arrays[a].array_
      <4>1. PICK b \in Alive : arrays[b].array_ = p
        BY <3>2 DEF ArrayInv, ArraysAreValues
      <4> QED BY <2>1, <3>2, <4>1
    <3> QED BY <2>5, <3>1, <3>2
  <2>8. ASSUME NEW b \in Alive'
        PROVE  /\ arrays'[b] \in [array_ : Address \cup {nullptr}, size_ : Nat]
               /\ arrays'[b].size_ = Len(meant'[b])
               /\ meant'[b] \in Seq(Element)
               /\ arrays'[b].array_ # nullptr =>
                     /\ arrays'[b].array_ \in DOMAIN heap' /\ heap'[arrays'[b].array_] = meant'[b]
               /\ arrays'[b].array_ = nullptr => meant'[b] = <<>>
    <3>1. CASE b = a
      <4>1. arrays'[b].array_ = address /\ meant'[b] = meant[other]
        BY <2>1, <2>6, <3>1
      <4>2. address \in DOMAIN heap' /\ heap'[address] = meant[other] /\ address # nullptr
        BY <2>3, <2>4, <2>5
      <4> QED BY <2>2, <2>6, <3>1, <4>1, <4>2
    <3>2. CASE b # a
      BY <2>1, <2>5, <3>2, OfOne
    <3> QED BY <3>1, <3>2
  <2>9. ASSUME NEW b \in Alive', NEW c \in Alive', b # c, arrays'[b].array_ = arrays'[c].array_
        PROVE  arrays'[b].array_ = nullptr
    <3>1. CASE b # a /\ c # a
      BY <2>1, <2>9, <3>1, OfOne
    <3>2. ASSUME NEW d \in Alive, d # a PROVE arrays'[d].array_ # address
      BY <2>1, <2>3, <3>2, OfOne
    <3>3. CASE b = a
      BY <2>1, <2>6, <2>9, <3>2, <3>3
    <3>4. CASE c = a
      BY <2>1, <2>6, <2>9, <3>2, <3>4
    <3> QED BY <3>1, <3>3, <3>4
  <2>10. DOMAIN heap' \subseteq Address
    BY <2>1, <2>3, <2>5
  <2> QED BY <2>1, <2>7, <2>8, <2>9, <2>10, FromEach
<1> QED BY <1>1, <1>2 DEF CopyAssign

LEMMA WriteInv ==
    ASSUME ArrayInv, NEW a \in Name, NEW i \in 1 .. MaxSize, NEW x \in Element, Write(a, i, x)
    PROVE  ArrayInv'
<1> DEFINE p == arrays[a].array_
<1>1. /\ a \in Alive /\ i \in 1 .. arrays[a].size_ /\ arrays' = arrays
      /\ Alive' = Alive /\ DOMAIN meant' = Alive /\ DOMAIN heap' = DOMAIN heap
      /\ Alive \subseteq Name /\ DOMAIN heap \subseteq Address
      /\ \A b \in Alive : b # a => meant'[b] = meant[b]
      /\ \A q \in DOMAIN heap : q # p => heap'[q] = heap[q]
  BY DEF Write, Alive, ArrayInv, ArraysShape
<1>2. i \in 1 .. Len(meant[a]) /\ meant[a] \in Seq(Element)
  BY <1>1, OfOne
<1>3. p # nullptr /\ p \in DOMAIN heap /\ heap[p] = meant[a]
  <2>1. meant[a] # <<>>
    BY <1>2
  <2> QED BY <1>1, <2>1, OfOne
<1>4. meant'[a] = [meant[a] EXCEPT ![i] = x] /\ heap'[p] = [meant[a] EXCEPT ![i] = x]
  BY <1>1, <1>3 DEF Write, Alive, ArrayInv, ArraysShape
<1>5. meant'[a] \in Seq(Element) /\ Len(meant'[a]) = Len(meant[a])
  BY <1>2, <1>4
<1> HIDE DEF p
<1>6. ASSUME NEW b \in Alive'
      PROVE  /\ arrays'[b] \in [array_ : Address \cup {nullptr}, size_ : Nat]
             /\ arrays'[b].size_ = Len(meant'[b])
             /\ meant'[b] \in Seq(Element)
             /\ arrays'[b].array_ # nullptr =>
                   /\ arrays'[b].array_ \in DOMAIN heap' /\ heap'[arrays'[b].array_] = meant'[b]
             /\ arrays'[b].array_ = nullptr => meant'[b] = <<>>
  <2>1. CASE b = a
    BY <1>1, <1>3, <1>4, <1>5, <2>1, OfOne DEF p
  <2>2. CASE b # a
    <3>1. arrays[b].array_ # p
      BY <1>1, <1>3, <2>2, OfOne DEF p
    <3> QED BY <1>1, <2>2, <3>1, OfOne
  <2> QED BY <2>1, <2>2
<1>7. \A q \in DOMAIN heap' : \E b \in Alive' : arrays'[b].array_ = q
  BY <1>1 DEF ArrayInv, ArraysAreValues
<1>8. \A b, c \in Alive' : arrays'[b].array_ = arrays'[c].array_ /\ b # c =>
        arrays'[b].array_ = nullptr
  BY <1>1, OfOne
<1> QED BY <1>1, <1>6, <1>7, <1>8, FromEach

LEMMA DestroyInv ==
    ASSUME ArrayInv, NEW a \in Name, Destroy(a)
    PROVE  ArrayInv'
<1>1. /\ a \in Alive /\ Alive' = Alive \ {a} /\ DOMAIN meant' = Alive'
      /\ Alive \subseteq Name /\ DOMAIN heap \subseteq Address
      /\ \A b \in Alive' : arrays'[b] = arrays[b] /\ meant'[b] = meant[b]
  BY DEF Destroy, Without, Restrict, Alive, ArrayInv, ArraysShape
<1>2. /\ DOMAIN heap' = DOMAIN heap \ {arrays[a].array_}
      /\ \A q \in DOMAIN heap \ {arrays[a].array_} : heap'[q] = heap[q]
  BY <1>1, DeletedIs DEF Destroy
<1>3. ASSUME NEW b \in Alive'
      PROVE  arrays[b].array_ # nullptr => arrays[b].array_ # arrays[a].array_
  BY <1>1, OfOne
<1>4. ASSUME NEW b \in Alive'
      PROVE  /\ arrays'[b] \in [array_ : Address \cup {nullptr}, size_ : Nat]
             /\ arrays'[b].size_ = Len(meant'[b])
             /\ meant'[b] \in Seq(Element)
             /\ arrays'[b].array_ # nullptr =>
                   /\ arrays'[b].array_ \in DOMAIN heap' /\ heap'[arrays'[b].array_] = meant'[b]
             /\ arrays'[b].array_ = nullptr => meant'[b] = <<>>
  BY <1>1, <1>2, <1>3, OfOne
<1>5. \A q \in DOMAIN heap' : \E b \in Alive' : arrays'[b].array_ = q
  <2> SUFFICES ASSUME NEW q \in DOMAIN heap, q # arrays[a].array_
               PROVE  \E b \in Alive' : arrays'[b].array_ = q
    BY <1>2
  <2>1. PICK b \in Alive : arrays[b].array_ = q
    BY DEF ArrayInv, ArraysAreValues
  <2> QED BY <1>1, <2>1
<1>6. \A b, c \in Alive' : arrays'[b].array_ = arrays'[c].array_ /\ b # c =>
        arrays'[b].array_ = nullptr
  BY <1>1, OfOne
<1> QED BY <1>1, <1>2, <1>4, <1>5, <1>6, FromEach

LEMMA ArrayNextInv == ArrayInv /\ [ArrayNext]_arrayVars => ArrayInv'
<1> SUFFICES ASSUME ArrayInv, [ArrayNext]_arrayVars PROVE ArrayInv'
  OBVIOUS
<1>1. CASE UNCHANGED arrayVars
  BY <1>1 DEF arrayVars, ArrayInv, ArraysShape, ArraysAreValues, Alive, Elements
<1>2. ASSUME NEW a \in Name, NEW n \in 0 .. MaxSize, NEW e \in [1 .. n -> Element], make_array(a, e)
      PROVE  ArrayInv'
  <2>1. e \in Seq(Element)
    OBVIOUS
  <2> QED BY <1>1, <1>2, <2>1, MadeInv DEF make_array, BadAlloc
<1>3. ASSUME NEW a \in Name, NEW other \in Name, CopyConstruct(a, other)
      PROVE  ArrayInv'
  <2>1. a \notin Alive /\ other \in Alive
    BY <1>3 DEF CopyConstruct
  <2>2. Elements(other) = meant[other] /\ meant[other] \in Seq(Element)
    BY <2>1, OfOne
  <2> QED BY <1>1, <1>3, <2>1, <2>2, MadeInv DEF CopyConstruct, BadAlloc
<1> QED BY <1>1, <1>2, <1>3, MoveConstructInv, CopyAssignInv, MoveAssignInv, SwapInv,
           WriteInv, DestroyInv DEF ArrayNext

\* Whatever is copied, moved, assigned, swapped and destroyed, and wherever new
\* throws: no block has two owners or none, and no array changes with another.
THEOREM ArraysStayValues == ArraySpec => []ArraysAreValues
<1>1. ArrayInv => ArraysAreValues
  BY DEF ArrayInv
<1> QED BY <1>1, ArrayInitInv, ArrayNextInv, PTL DEF ArraySpec

-----------------------------------------------------------------------------
(* ItemGallery: what the loop, the lazy view, the copy and the join make   *)
(* of every store and every customer's favorites, by induction over the    *)
(* subsets that their folds run through.                                   *)

\* The pointers to the items there are.
Place == {x \in StoreId \X Nat : x[2] \in DOMAIN stores[x[1]]}

\* How often an empty sequence and a sequence of one have an element.
LEMMA TimesOfFew ==
    ASSUME NEW x
    PROVE  Times(x, <<>>) = 0 /\ \A y : Times(x, <<y>>) = IF x = y THEN 1 ELSE 0
<1>1. {k \in DOMAIN <<>> : <<>>[k] = x} = {}
  OBVIOUS
<1>2. ASSUME NEW y PROVE {k \in DOMAIN <<y>> : <<y>>[k] = x} = IF x = y THEN {1} ELSE {}
  OBVIOUS
<1>3. Cardinality({}) = 0 /\ Cardinality({1}) = 1
  BY FS_EmptySet, FS_Singleton
<1> QED BY <1>1, <1>2, <1>3 DEF Times

\* Put behind each other, two sequences have an element as often as both together.
LEMMA TimesOfConcat ==
    ASSUME NEW V, NEW q \in Seq(V), NEW r \in Seq(V), NEW x
    PROVE  Times(x, q) \in Nat /\ Times(x, q \o r) = Times(x, q) + Times(x, r)
<1> DEFINE m == Len(q)
           n == Len(r)
           Q == {k \in 1 .. m : q[k] = x}
           R == {k \in 1 .. n : r[k] = x}
           P == {k \in 1 .. m + n : (q \o r)[k] = x}
           shift == [k \in R |-> k + m]
           B == {shift[k] : k \in R}
<1>1. m \in Nat /\ n \in Nat /\ DOMAIN q = 1 .. m /\ DOMAIN r = 1 .. n
      /\ DOMAIN (q \o r) = 1 .. m + n
  OBVIOUS
<1>2. /\ \A k \in 1 .. m : (q \o r)[k] = q[k]
      /\ \A k \in 1 .. n : (q \o r)[k + m] = r[k]
  OBVIOUS
<1>3. P = Q \cup B /\ Q \cap B = {}
  <2>1. ASSUME NEW k \in P PROVE k \in Q \cup B
    <3>1. CASE k \in 1 .. m
      BY <1>2, <3>1
    <3>2. CASE k \notin 1 .. m
      <4>1. k - m \in 1 .. n /\ k = (k - m) + m
        BY <1>1, <3>2
      <4> QED BY <1>2, <4>1
    <3> QED BY <3>1, <3>2
  <2>2. Q \subseteq P
    BY <1>1, <1>2
  <2>3. ASSUME NEW k \in R PROVE k + m \in P /\ k + m \notin 1 .. m
    BY <1>1, <1>2
  <2> QED BY <2>1, <2>2, <2>3
<1>4. IsFiniteSet(Q) /\ IsFiniteSet(R)
  <2>1. IsFiniteSet(1 .. m) /\ IsFiniteSet(1 .. n)
    BY <1>1, FS_Interval
  <2> QED BY <2>1, FS_Subset
<1>5. IsFiniteSet(B) /\ Cardinality(B) = Cardinality(R)
  <2>1. shift \in Bijection(R, B)
    <3>1. shift \in [R -> B] /\ DOMAIN shift = R
      OBVIOUS
    <3>2. \A a, b \in R : shift[a] = shift[b] => a = b
      BY <1>1
    <3>3. \A b \in B : \E a \in R : shift[a] = b
      OBVIOUS
    <3> HIDE DEF shift, B, R
    <3> QED BY <3>1, <3>2, <3>3 DEF Bijection, Injection, Surjection, IsInjective
  <2>2. ExistsBijection(R, B)
    BY <2>1 DEF ExistsBijection
  <2> QED BY <1>4, <2>2, FS_Bijection
<1>6. Cardinality(P) = Cardinality(Q) + Cardinality(R)
  <2> HIDE DEF P, Q, B, R
  <2>1. Cardinality(P) = Cardinality(Q) + Cardinality(B) - Cardinality({})
    BY <1>3, <1>4, <1>5, FS_Union
  <2>2. Cardinality({}) = 0 /\ Cardinality(Q) \in Nat /\ Cardinality(R) \in Nat
    BY <1>4, FS_EmptySet, FS_CardinalityType
  <2> QED BY <1>5, <2>1, <2>2
<1> QED BY <1>1, <1>4, <1>6, FS_CardinalityType DEF Times

\* A fold that puts each featured item of a store at either end has each once.
LEMMA EachFeatured ==
    ASSUME NEW s \in StoreId, NEW S, S \subseteq DOMAIN stores[s], S \subseteq Nat, IsFiniteSet(S),
           NEW f, f[{}] = <<>>,
           \A t \in SUBSET S : t # {} => \E i \in t :
               f[t] \in IF Featured(<<s, i>>)
                        THEN {Append(f[t \ {i}], <<s, i>>), << <<s, i>> >> \o f[t \ {i}]}
                        ELSE {f[t \ {i}]}
    PROVE  /\ f[S] \in Seq(Place)
           /\ \A x : Times(x, f[S]) = IF \E i \in S : x = <<s, i>> /\ Featured(x) THEN 1 ELSE 0
<1> SUFFICES ASSUME NEW x
             PROVE  /\ f[S] \in Seq(Place)
                    /\ Times(x, f[S]) = IF \E i \in S : x = <<s, i>> /\ Featured(x) THEN 1 ELSE 0
  OBVIOUS
<1> DEFINE Count(t) == IF \E i \in t : x = <<s, i>> /\ Featured(x) THEN 1 ELSE 0
           T == {t \in SUBSET S : f[t] \in Seq(Place) /\ Times(x, f[t]) = Count(t)}
<1>1. {} \in T
  <2>1. <<>> \in Seq(Place) /\ Count({}) = 0
    OBVIOUS
  <2> HIDE DEF Count
  <2> QED BY <2>1, TimesOfFew
<1>2. ASSUME NEW t \in SUBSET S, t # {} PROVE \E i \in t : t \ {i} \in T => t \in T
  <2>1. PICK i \in t :
            f[t] \in IF Featured(<<s, i>>)
                     THEN {Append(f[t \ {i}], <<s, i>>), << <<s, i>> >> \o f[t \ {i}]}
                     ELSE {f[t \ {i}]}
    BY <1>2
  <2>2. SUFFICES ASSUME t \ {i} \in T PROVE f[t] \in Seq(Place) /\ Times(x, f[t]) = Count(t)
    OBVIOUS
  <2>3. \A j \in t : j = i \/ j \in t \ {i}
    OBVIOUS
  <2> DEFINE r == f[t \ {i}]
             one == << <<s, i>> >>
  <2>4. r \in Seq(Place) /\ Times(x, r) = Count(t \ {i})
    BY <2>2
  <2>5. CASE ~Featured(<<s, i>>)
    <3>1. f[t] = r
      BY <2>1, <2>5
    <3>2. Count(t) = Count(t \ {i})
      BY <2>3, <2>5
    <3> HIDE DEF Count, r
    <3> QED BY <2>4, <3>1, <3>2
  <2>6. CASE Featured(<<s, i>>)
    <3>1. one \in Seq(Place)
      <4>1. i \in Nat /\ i \in DOMAIN stores[s]
        OBVIOUS
      <4>2. <<s, i>> \in Place
        BY <4>1 DEF Place
      <4> QED BY <4>2
    <3>2. Times(x, one) = IF x = <<s, i>> THEN 1 ELSE 0
      BY TimesOfFew
    <3>3. f[t] = r \o one \/ f[t] = one \o r
      <4>1. f[t] = Append(r, <<s, i>>) \/ f[t] = one \o r
        BY <2>1, <2>6
      <4>2. <<s, i>> \in Place /\ one = << <<s, i>> >>
        BY DEF Place
      <4> HIDE DEF r, one
      <4>3. Append(r, <<s, i>>) = r \o one
        BY <2>4, <4>2
      <4> QED BY <4>1, <4>3
    <3>4. x = <<s, i>> => Count(t) = 1 /\ Count(t \ {i}) = 0
      <4>1. \A j : <<s, j>> = <<s, i>> => j = i
        OBVIOUS
      <4>2. ASSUME x = <<s, i>> PROVE \E j \in t : x = <<s, j>> /\ Featured(x)
        BY <2>6, <4>2
      <4>3. ASSUME x = <<s, i>> PROVE ~\E j \in t \ {i} : x = <<s, j>> /\ Featured(x)
        BY <4>1, <4>3
      <4> QED BY <4>2, <4>3
    <3>5. x # <<s, i>> => Count(t) = Count(t \ {i})
      BY <2>3
    <3>6. Count(t \ {i}) \in Nat
      OBVIOUS
    <3> HIDE DEF Count, r, one
    <3>7. Times(x, r \o one) = Times(x, r) + Times(x, one)
      BY <2>4, <3>1, TimesOfConcat
    <3>8. Times(x, one \o r) = Times(x, one) + Times(x, r)
      BY <2>4, <3>1, TimesOfConcat
    <3>9. f[t] \in Seq(Place)
      <4>1. r \o one \in Seq(Place) /\ one \o r \in Seq(Place)
        BY <2>4, <3>1
      <4> QED BY <3>3, <4>1
    <3>10. Times(x, f[t]) = Count(t \ {i}) + IF x = <<s, i>> THEN 1 ELSE 0
      <4>1. Times(x, f[t]) = Times(x, r \o one) \/ Times(x, f[t]) = Times(x, one \o r)
        BY <3>3
      <4> QED BY <2>4, <3>2, <3>6, <3>7, <3>8, <4>1
    <3> QED BY <3>4, <3>5, <3>6, <3>9, <3>10
  <2> QED BY <2>5, <2>6
<1> HIDE DEF Count, T
<1>3. IsFiniteSet(S) /\ {} \in T
      /\ \A t \in SUBSET S : t # {} => \E i \in t : t \ {i} \in T => t \in T
  BY <1>1, <1>2
<1>4. SUBSET S \subseteq T
  BY ONLY <1>3, SubsetInduction
<1>5. S \in T
  BY <1>4
<1> QED BY <1>5 DEF T, Count

\* The pointers to the items of a store, and the ends of a set of them.
LEMMA PointersOf ==
    ASSUME stores \in [StoreId -> Seq(Item)], NEW s \in StoreId
    PROVE  LET D == DOMAIN Pointers(s) IN
           /\ D = DOMAIN stores[s] /\ D \subseteq Nat /\ IsFiniteSet(D)
           /\ \A i \in D : Pointers(s)[i] = <<s, i>>
           /\ \A t \in SUBSET D : t # {} => Max(t) \in t /\ Min(t) \in t
<1> DEFINE D == DOMAIN Pointers(s)
<1>1. PICK n \in Nat : DOMAIN stores[s] = 1 .. n
  OBVIOUS
<1>2. D = 1 .. n /\ \A i \in D : Pointers(s)[i] = <<s, i>>
  BY <1>1 DEF Pointers
<1>3. IsFiniteSet(1 .. n)
  BY FS_Interval
<1>4. \A t \in SUBSET (1 .. n) : t # {} => Max(t) \in t /\ Min(t) \in t
  BY Extremes DEF Max, Min
<1> QED BY <1>1, <1>2, <1>3, <1>4

\* The loop finds each featured item of the store once.
LEMMA LoopFinds ==
    ASSUME stores \in [StoreId -> Seq(Item)], NEW s \in StoreId
    PROVE  /\ FeaturedByLoop(s) \in Seq(Place)
           /\ \A x : Times(x, FeaturedByLoop(s)) =
                  IF \E i \in DOMAIN stores[s] : x = <<s, i>> /\ Featured(x) THEN 1 ELSE 0
<1> DEFINE D == DOMAIN Pointers(s)
           V == Seq(StoreId \X Nat)
           step == [e \in D \X V |->
                       IF Featured(Pointers(s)[e[1]]) THEN Append(e[2], Pointers(s)[e[1]]) ELSE e[2]]
           next == [t \in SUBSET D |-> Max(t)]
           Body(f) == [t \in SUBSET D |->
               IF t = {} THEN <<>>
               ELSE IF Featured(Pointers(s)[Max(t)])
                    THEN Append(f[t \ {Max(t)}], Pointers(s)[Max(t)]) ELSE f[t \ {Max(t)}]]
           g == CHOOSE f : f = Body(f)
<1>1. /\ D = DOMAIN stores[s] /\ D \subseteq Nat /\ IsFiniteSet(D)
      /\ \A i \in D : Pointers(s)[i] = <<s, i>>
      /\ \A t \in SUBSET D : t # {} => Max(t) \in t
  BY PointersOf
<1>2. \E f : f = Body(f)
  <2>1. step \in [D \X V -> V]
    <3>1. ASSUME NEW i \in D PROVE Pointers(s)[i] \in StoreId \X Nat
      <4>1. i \in Nat /\ Pointers(s)[i] = <<s, i>>
        BY <1>1
      <4> QED BY <4>1
    <3>2. ASSUME NEW e \in D \X V
          PROVE  (IF Featured(Pointers(s)[e[1]]) THEN Append(e[2], Pointers(s)[e[1]]) ELSE e[2]) \in V
      <4>1. e[2] \in V /\ Pointers(s)[e[1]] \in StoreId \X Nat
        BY <3>1
      <4>2. Append(e[2], Pointers(s)[e[1]]) \in V
        BY <4>1
      <4> QED BY <4>1, <4>2
    <3> HIDE DEF D, V
    <3> QED BY <3>2
  <2>2. /\ <<>> \in V
        /\ \A t \in SUBSET D : t # {} => next[t] \in t
    BY <1>1
  <2> HIDE DEF D, V, step, next
  <2>3. PICK f : IsFold(f, D, V, <<>>, step, next)
    <3>1. IsFiniteSet(D)
      BY <1>1
    <3> QED BY ONLY <2>1, <2>2, <3>1, FoldExists
  <2>4. ASSUME NEW t \in SUBSET D, t # {}
        PROVE  step[<<next[t], f[t \ {next[t]}]>>] =
                   IF Featured(Pointers(s)[Max(t)])
                   THEN Append(f[t \ {Max(t)}], Pointers(s)[Max(t)]) ELSE f[t \ {Max(t)}]
    <3>1. next[t] = Max(t) /\ Max(t) \in D
      BY <1>1, <2>4 DEF next
    <3>2. <<Max(t), f[t \ {Max(t)}]>> \in D \X V
      BY <2>3, <3>1 DEF IsFold
    <3> QED BY <3>1, <3>2 DEF step
  <2>5. f = Body(f)
    BY <2>3, <2>4 DEF IsFold
  <2> QED BY <2>5
<1>3. FeaturedByLoop(s) = g[D]
  BY DEF FeaturedByLoop, FoldLeft, MapThenFoldSet
<1> HIDE DEF g
<1>4. g = Body(g)
  BY <1>2 DEF g
<1>5. \A t \in SUBSET D : t # {} => \E i \in t :
          g[t] \in IF Featured(<<s, i>>)
                   THEN {Append(g[t \ {i}], <<s, i>>), << <<s, i>> >> \o g[t \ {i}]}
                   ELSE {g[t \ {i}]}
  <2> SUFFICES ASSUME NEW t \in SUBSET D, t # {}
               PROVE  g[t] \in IF Featured(<<s, Max(t)>>)
                               THEN {Append(g[t \ {Max(t)}], <<s, Max(t)>>),
                                     << <<s, Max(t)>> >> \o g[t \ {Max(t)}]}
                               ELSE {g[t \ {Max(t)}]}
    BY <1>1
  <2>1. Max(t) \in D /\ Pointers(s)[Max(t)] = <<s, Max(t)>>
    BY <1>1
  <2> QED BY <1>4, <2>1
<1>6. /\ g[D] \in Seq(Place)
      /\ \A x : Times(x, g[D]) = IF \E i \in D : x = <<s, i>> /\ Featured(x) THEN 1 ELSE 0
  <2>1. g[{}] = <<>>
    BY <1>4
  <2>2. D \subseteq DOMAIN stores[s] /\ D \subseteq Nat /\ IsFiniteSet(D)
    BY <1>1
  <2> HIDE DEF D
  <2> QED BY ONLY s \in StoreId, <1>5, <2>1, <2>2, EachFeatured
<1> QED BY <1>1, <1>3, <1>6

\* The lazy view shows each featured item of the store once.
LEMMA RangeFinds ==
    ASSUME stores \in [StoreId -> Seq(Item)], NEW s \in StoreId
    PROVE  /\ FeaturedByRange(s) \in Seq(Place)
           /\ \A x : Times(x, FeaturedByRange(s)) =
                  IF \E i \in DOMAIN stores[s] : x = <<s, i>> /\ Featured(x) THEN 1 ELSE 0
<1> DEFINE D == DOMAIN Pointers(s)
           V == Seq(StoreId \X Nat)
           step == [e \in D \X V |->
                       IF Featured(Pointers(s)[e[1]]) THEN <<Pointers(s)[e[1]]>> \o e[2] ELSE e[2]]
           next == [t \in SUBSET D |-> Min(t)]
           Body(f) == [t \in SUBSET D |->
               IF t = {} THEN <<>>
               ELSE IF Featured(Pointers(s)[Min(t)])
                    THEN <<Pointers(s)[Min(t)]>> \o f[t \ {Min(t)}] ELSE f[t \ {Min(t)}]]
           g == CHOOSE f : f = Body(f)
<1>1. /\ D = DOMAIN stores[s] /\ D \subseteq Nat /\ IsFiniteSet(D)
      /\ \A i \in D : Pointers(s)[i] = <<s, i>>
      /\ \A t \in SUBSET D : t # {} => Min(t) \in t
  BY PointersOf
<1>2. \E f : f = Body(f)
  <2>1. step \in [D \X V -> V]
    <3>1. ASSUME NEW i \in D PROVE Pointers(s)[i] \in StoreId \X Nat
      <4>1. i \in Nat /\ Pointers(s)[i] = <<s, i>>
        BY <1>1
      <4> QED BY <4>1
    <3>2. ASSUME NEW e \in D \X V
          PROVE  (IF Featured(Pointers(s)[e[1]]) THEN <<Pointers(s)[e[1]]>> \o e[2] ELSE e[2]) \in V
      <4>1. e[2] \in V /\ Pointers(s)[e[1]] \in StoreId \X Nat
        BY <3>1
      <4>2. <<Pointers(s)[e[1]]>> \o e[2] \in V
        BY <4>1
      <4> QED BY <4>1, <4>2
    <3> HIDE DEF D, V
    <3> QED BY <3>2
  <2>2. /\ <<>> \in V
        /\ \A t \in SUBSET D : t # {} => next[t] \in t
    BY <1>1
  <2> HIDE DEF D, V, step, next
  <2>3. PICK f : IsFold(f, D, V, <<>>, step, next)
    <3>1. IsFiniteSet(D)
      BY <1>1
    <3> QED BY ONLY <2>1, <2>2, <3>1, FoldExists
  <2>4. ASSUME NEW t \in SUBSET D, t # {}
        PROVE  step[<<next[t], f[t \ {next[t]}]>>] =
                   IF Featured(Pointers(s)[Min(t)])
                   THEN <<Pointers(s)[Min(t)]>> \o f[t \ {Min(t)}] ELSE f[t \ {Min(t)}]
    <3>1. next[t] = Min(t) /\ Min(t) \in D
      BY <1>1, <2>4 DEF next
    <3>2. <<Min(t), f[t \ {Min(t)}]>> \in D \X V
      BY <2>3, <3>1 DEF IsFold
    <3> QED BY <3>1, <3>2 DEF step
  <2>5. f = Body(f)
    BY <2>3, <2>4 DEF IsFold
  <2> QED BY <2>5
<1>3. FeaturedByRange(s) = g[D]
  BY DEF FeaturedByRange, FoldRight, MapThenFoldSet
<1> HIDE DEF g
<1>4. g = Body(g)
  BY <1>2 DEF g
<1>5. \A t \in SUBSET D : t # {} => \E i \in t :
          g[t] \in IF Featured(<<s, i>>)
                   THEN {Append(g[t \ {i}], <<s, i>>), << <<s, i>> >> \o g[t \ {i}]}
                   ELSE {g[t \ {i}]}
  <2> SUFFICES ASSUME NEW t \in SUBSET D, t # {}
               PROVE  g[t] \in IF Featured(<<s, Min(t)>>)
                               THEN {Append(g[t \ {Min(t)}], <<s, Min(t)>>),
                                     << <<s, Min(t)>> >> \o g[t \ {Min(t)}]}
                               ELSE {g[t \ {Min(t)}]}
    BY <1>1
  <2>1. Min(t) \in D /\ Pointers(s)[Min(t)] = <<s, Min(t)>>
    BY <1>1
  <2> QED BY <1>4, <2>1
<1>6. /\ g[D] \in Seq(Place)
      /\ \A x : Times(x, g[D]) = IF \E i \in D : x = <<s, i>> /\ Featured(x) THEN 1 ELSE 0
  <2>1. g[{}] = <<>>
    BY <1>4
  <2>2. D \subseteq DOMAIN stores[s] /\ D \subseteq Nat /\ IsFiniteSet(D)
    BY <1>1
  <2> HIDE DEF D
  <2> QED BY ONLY s \in StoreId, <1>5, <2>1, <2>2, EachFeatured
<1> QED BY <1>1, <1>3, <1>6

\* Taking out an element counts one less if it was counted.
LEMMA OneMore ==
    ASSUME NEW t, IsFiniteSet(t), NEW i \in t, NEW W
    PROVE  /\ Cardinality((t \ {i}) \cap W) \in Nat
           /\ Cardinality(t \cap W) = Cardinality((t \ {i}) \cap W) + IF i \in W THEN 1 ELSE 0
<1> DEFINE r == (t \ {i}) \cap W
<1>1. IsFiniteSet(r)
  BY FS_Subset
<1>2. Cardinality(r) \in Nat
  BY <1>1, FS_CardinalityType
<1>3. ASSUME i \in W PROVE Cardinality(t \cap W) = Cardinality(r) + 1
  <2>1. t \cap W = r \cup {i} /\ i \notin r
    BY <1>3
  <2> HIDE DEF r
  <2> QED BY <1>1, <2>1, FS_AddElement
<1>4. ASSUME i \notin W PROVE t \cap W = r
  BY <1>4
<1> QED BY <1>2, <1>3, <1>4

\* Sequences can be put behind each other.
LEMMA JoinsExist ==
    ASSUME NEW P, NEW n \in Nat, NEW selected, selected \in [1 .. n -> Seq(P)]
    PROVE  \E f : IsFold(f, 1 .. n, Seq(P), <<>>,
                         [e \in (1 .. n) \X Seq(P) |-> e[2] \o selected[e[1]]],
                         [t \in SUBSET (1 .. n) |-> Max(t)])
<1> DEFINE D == 1 .. n
           V == Seq(P)
           step == [e \in D \X V |-> e[2] \o selected[e[1]]]
           next == [t \in SUBSET D |-> Max(t)]
<1>1. IsFiniteSet(D) /\ <<>> \in V /\ \A t \in SUBSET D : t # {} => next[t] \in t
  <2>1. IsFiniteSet(1 .. n)
    BY FS_Interval
  <2>2. \A t \in SUBSET (1 .. n) : t # {} => Max(t) \in t
    BY Extremes DEF Max
  <2>3. <<>> \in V
    OBVIOUS
  <2> HIDE DEF V
  <2> QED BY <2>1, <2>2, <2>3
<1>2. step \in [D \X V -> V]
  <2>1. ASSUME NEW e \in D \X V PROVE e[2] \o selected[e[1]] \in V
    <3>1. e[2] \in Seq(P) /\ selected[e[1]] \in Seq(P)
      OBVIOUS
    <3> QED BY <3>1
  <2> HIDE DEF D, V
  <2> QED BY <2>1
<1> HIDE DEF D, V, step, next
<1>3. \E f : IsFold(f, D, V, <<>>, step, next)
  BY ONLY <1>1, <1>2, FoldExists
<1> QED BY <1>3 DEF D, V, step, next

\* The sequences where x is, and it is there once.
OnceAt(x, selected, W) ==
    /\ W \subseteq DOMAIN selected
    /\ \A k \in DOMAIN selected : Times(x, selected[k]) = IF k \in W THEN 1 ELSE 0

\* get_all_featured_items() copies: what W of the sequences have once, their copy has as
\* often as there are sequences in W.
LEMMA CopiedHas ==
    ASSUME NEW P, NEW selected \in Seq(Seq(P)), NEW x, NEW W
    PROVE  /\ Copied(selected) \in Seq(P)
           /\ OnceAt(x, selected, W) => Times(x, Copied(selected)) = Cardinality(W)
<1> DEFINE n == Len(selected)
<1>0. n \in Nat /\ selected \in [1 .. n -> Seq(P)] /\ DOMAIN selected = 1 .. n
  OBVIOUS
<1> HIDE DEF n
<1> SUFFICES /\ Copied(selected) \in Seq(P)
             /\ (\A k \in 1 .. n : Times(x, selected[k]) = IF k \in W THEN 1 ELSE 0)
                    => Times(x, Copied(selected)) = Cardinality((1 .. n) \cap W)
  <2>1. ASSUME OnceAt(x, selected, W)
        PROVE  /\ \A k \in 1 .. n : Times(x, selected[k]) = IF k \in W THEN 1 ELSE 0
               /\ W = (1 .. n) \cap W
    BY <1>0, <2>1 DEF OnceAt
  <2> QED BY <2>1
<1> USE <1>0
<1> DEFINE D == DOMAIN selected
           Body(f) == [t \in SUBSET D |->
               IF t = {} THEN <<>> ELSE f[t \ {Max(t)}] \o selected[Max(t)]]
           g == CHOOSE f : f = Body(f)
<1>1. D = 1 .. n /\ IsFiniteSet(D)
  <2>1. IsFiniteSet(1 .. n)
    BY FS_Interval
  <2> QED BY <2>1
<1>2. \E f : f = Body(f)
  <2> DEFINE step == [e \in (1 .. n) \X Seq(P) |-> e[2] \o selected[e[1]]]
             next == [t \in SUBSET (1 .. n) |-> Max(t)]
  <2>1. PICK f : IsFold(f, 1 .. n, Seq(P), <<>>, step, next)
    BY JoinsExist
  <2>2. ASSUME NEW t \in SUBSET D, t # {}
        PROVE  step[<<next[t], f[t \ {next[t]}]>>] = f[t \ {Max(t)}] \o selected[Max(t)]
    <3>1. next[t] = Max(t) /\ Max(t) \in D
      BY <1>1, <2>2, Extremes DEF Max
    <3>2. <<Max(t), f[t \ {Max(t)}]>> \in (1 .. n) \X Seq(P)
      BY <1>1, <2>1, <3>1 DEF IsFold
    <3> QED BY <3>1, <3>2
  <2>3. f = Body(f)
    <3> HIDE DEF step, next
    <3> QED BY <1>1, <2>1, <2>2 DEF IsFold
  <2> QED BY <2>3
<1>3. Copied(selected) = g[D]
  BY DEF Copied, FoldLeft, MapThenFoldSet
<1> HIDE DEF g
<1>4. g = Body(g)
  BY <1>2 DEF g
<1> DEFINE Known == \A k \in 1 .. n : Times(x, selected[k]) = IF k \in W THEN 1 ELSE 0
           T == {t \in SUBSET D : /\ g[t] \in Seq(P)
                                  /\ Known => Times(x, g[t]) = Cardinality(t \cap W)}
<1>5. {} \in T
  <2>1. g[{}] = <<>>
    BY <1>4
  <2>2. {} \cap W = {} /\ Cardinality({}) = 0
    BY FS_EmptySet
  <2>3. <<>> \in Seq(P) /\ Times(x, <<>>) = 0
    BY TimesOfFew
  <2> QED BY <2>1, <2>2, <2>3
<1>6. ASSUME NEW t \in SUBSET D, t # {} PROVE \E i \in t : t \ {i} \in T => t \in T
  <2> DEFINE i == Max(t)
             r == g[t \ {i}]
  <2>1. i \in t
    BY <1>1, <1>6, Extremes DEF Max
  <2>2. SUFFICES ASSUME t \ {i} \in T PROVE t \in T
    BY <2>1
  <2>3. g[t] = r \o selected[i]
    BY <1>4, <1>6
  <2>4. /\ r \in Seq(P) /\ selected[i] \in Seq(P)
        /\ Known => /\ Times(x, r) = Cardinality((t \ {i}) \cap W)
                    /\ Times(x, selected[i]) = IF i \in W THEN 1 ELSE 0
    BY <1>1, <2>1, <2>2
  <2>5. IsFiniteSet(t)
    BY <1>1, FS_Subset
  <2> HIDE DEF i, r, Known
  <2>6. /\ r \o selected[i] \in Seq(P)
        /\ Times(x, r \o selected[i]) = Times(x, r) + Times(x, selected[i])
    BY <2>4, TimesOfConcat
  <2>7. Cardinality(t \cap W) = Cardinality((t \ {i}) \cap W) + IF i \in W THEN 1 ELSE 0
    BY <2>1, <2>5, OneMore
  <2> QED BY <2>3, <2>4, <2>6, <2>7
<1>7. D \in T
  <2> HIDE DEF T, Known
  <2>1. IsFiniteSet(D) /\ {} \in T
        /\ \A t \in SUBSET D : t # {} => \E i \in t : t \ {i} \in T => t \in T
    BY <1>1, <1>5, <1>6
  <2> HIDE DEF D
  <2>2. SUBSET D \subseteq T
    BY ONLY <2>1, SubsetInduction
  <2> QED BY <2>2
<1> QED BY <1>1, <1>3, <1>7

\* The numbers up to i are those up to i - 1 and the largest, i.
LEMMA UpTo ==
    ASSUME NEW n \in Nat, NEW i \in 1 .. n
    PROVE  /\ 1 .. i \in SUBSET (1 .. n) /\ 1 .. i # {} /\ IsFiniteSet(1 .. i)
           /\ i \in 1 .. i /\ (1 .. i) \ {i} = 1 .. i - 1 /\ Max(1 .. i) = i
<1>1. i \in Nat /\ i >= 1
  OBVIOUS
<1>2. /\ 1 .. i \in SUBSET (1 .. n) /\ i \in 1 .. i /\ \A k \in 1 .. i : i >= k
      /\ (1 .. i) \ {i} = 1 .. i - 1
  BY <1>1
<1>3. IsFiniteSet(1 .. i)
  BY <1>1, FS_Interval
<1>4. \A y \in 1 .. i : y >= i => y = i
  BY <1>1
<1>5. Max(1 .. i) = i
  <2>1. \A y \in 1 .. i : (\A k \in 1 .. i : y >= k) <=> y = i
    BY <1>2, <1>4
  <2> QED BY <1>2, <2>1 DEF Max
<1> QED BY <1>2, <1>3, <1>5

\* Joining lazily gives the same.
LEMMA JoinedHas ==
    ASSUME NEW P, NEW selected \in Seq(Seq(P)), NEW x, NEW W
    PROVE  /\ FlattenSeq(selected) \in Seq(P)
           /\ OnceAt(x, selected, W) => Times(x, FlattenSeq(selected)) = Cardinality(W)
<1> DEFINE n == Len(selected)
<1>0. n \in Nat /\ selected \in [1 .. n -> Seq(P)] /\ DOMAIN selected = 1 .. n
  OBVIOUS
<1> HIDE DEF n
<1> SUFFICES /\ FlattenSeq(selected) \in Seq(P)
             /\ (\A k \in 1 .. n : Times(x, selected[k]) = IF k \in W THEN 1 ELSE 0)
                    => Times(x, FlattenSeq(selected)) = Cardinality((1 .. n) \cap W)
  <2>1. ASSUME OnceAt(x, selected, W)
        PROVE  /\ \A k \in 1 .. n : Times(x, selected[k]) = IF k \in W THEN 1 ELSE 0
               /\ W = (1 .. n) \cap W
    BY <1>0, <2>1 DEF OnceAt
  <2> QED BY <2>1
<1> USE <1>0
<1> DEFINE Body(f) == [i \in 1 .. Len(selected) |->
               IF i = 1 THEN selected[i] ELSE f[i - 1] \o selected[i]]
           g == CHOOSE f : f = Body(f)
           Known == \A k \in 1 .. n : Times(x, selected[k]) = IF k \in W THEN 1 ELSE 0
<1>1. Len(selected) = n
  OBVIOUS
<1>2. CASE n = 0
  <2>1. FlattenSeq(selected) = <<>> /\ 1 .. n = {}
    BY <1>1, <1>2 DEF FlattenSeq
  <2>2. {} \cap W = {} /\ Cardinality({}) = 0 /\ Times(x, <<>>) = 0
    BY FS_EmptySet, TimesOfFew
  <2>3. <<>> \in Seq(P)
    OBVIOUS
  <2> HIDE DEF g
  <2> QED BY <2>1, <2>2, <2>3
<1>3. CASE n # 0
  <2>1. \E f : f = Body(f)
    <3> DEFINE D == 1 .. n
               step == [e \in D \X Seq(P) |-> e[2] \o selected[e[1]]]
               next == [t \in SUBSET D |-> Max(t)]
    <3>1. PICK f : IsFold(f, D, Seq(P), <<>>, step, next)
      BY JoinsExist
    <3> DEFINE h == [i \in 1 .. n |-> f[1 .. i]]
    <3>2. ASSUME NEW i \in 1 .. n
          PROVE  h[i] = IF i = 1 THEN selected[i] ELSE h[i - 1] \o selected[i]
      <4>1. 1 .. i \in SUBSET D /\ 1 .. i # {} /\ Max(1 .. i) = i /\ (1 .. i) \ {i} = 1 .. i - 1
        BY UpTo
      <4>4. f[1 .. i] = step[<<i, f[1 .. i - 1]>>]
        <5>1. next[1 .. i] = i
          BY <4>1
        <5> HIDE DEF D, step, next, h, g
        <5>2. f[1 .. i] = step[<<next[1 .. i], f[(1 .. i) \ {next[1 .. i]}]>>]
          BY <3>1, <4>1 DEF IsFold
        <5> QED BY <4>1, <5>1, <5>2
      <4>5. f[1 .. i - 1] \in Seq(P) /\ selected[i] \in Seq(P)
        BY <3>1 DEF IsFold
      <4>6. f[1 .. i] = f[1 .. i - 1] \o selected[i]
        BY <4>4, <4>5
      <4>7. ASSUME i = 1 PROVE f[1 .. i - 1] = <<>>
        <5>1. 1 .. i - 1 = {} /\ {} \in SUBSET D
          BY <4>7
        <5> QED BY <3>1, <5>1 DEF IsFold
      <4>8. <<>> \o selected[i] = selected[i]
        BY <4>5
      <4>9. i # 1 => i - 1 \in 1 .. n
        OBVIOUS
      <4> QED BY <4>6, <4>7, <4>8, <4>9
    <3> HIDE DEF h
    <3>3. h = Body(h)
      <4>1. h = [i \in 1 .. n |-> IF i = 1 THEN selected[i] ELSE h[i - 1] \o selected[i]]
        BY <3>2 DEF h
      <4> QED BY <1>1, <4>1
    <3> QED BY <3>3
  <2>2. FlattenSeq(selected) = g[n]
    BY <1>1, <1>3 DEF FlattenSeq
  <2> HIDE DEF g
  <2>3. g = Body(g)
    BY <2>1 DEF g
  <2> DEFINE Right(m) == /\ g[m] \in Seq(P)
                         /\ Known => Times(x, g[m]) = Cardinality((1 .. m) \cap W)
             T == {m \in Nat : m + 1 \in 1 .. n => Right(m + 1)}
  <2>4. ASSUME NEW m \in 1 .. n
        PROVE  /\ IsFiniteSet(1 .. m) /\ m \in 1 .. m /\ (1 .. m) \ {m} = 1 .. m - 1
               /\ selected[m] \in Seq(P)
               /\ Known => Times(x, selected[m]) = IF m \in W THEN 1 ELSE 0
    BY UpTo
  <2>5. 0 \in T
    <3>1. 1 \in 1 .. n
      BY <1>3
    <3>2. g[1] = selected[1]
      BY <1>1, <2>3, <3>1
    <3>3. Cardinality((1 .. 1) \cap W) = IF 1 \in W THEN 1 ELSE 0
      <4>1. 1 \in W => (1 .. 1) \cap W = {1}
        OBVIOUS
      <4>2. 1 \notin W => (1 .. 1) \cap W = {}
        OBVIOUS
      <4> QED BY <4>1, <4>2, FS_EmptySet, FS_Singleton
    <3>4. Right(1)
      BY <2>4, <3>1, <3>2, <3>3
    <3> QED BY <3>4
  <2>6. ASSUME NEW m \in Nat, m \in T PROVE m + 1 \in T
    <3> DEFINE i == m + 2
    <3> SUFFICES ASSUME i \in 1 .. n PROVE Right(i)
      OBVIOUS
    <3>1. i - 1 \in 1 .. n /\ i # 1 /\ i - 1 = m + 1
      OBVIOUS
    <3>2. Right(i - 1)
      BY <2>6, <3>1
    <3> HIDE DEF i
    <3>3. g[i] = g[i - 1] \o selected[i]
      BY <1>1, <2>3, <3>1
    <3>4. /\ g[i - 1] \o selected[i] \in Seq(P)
          /\ Times(x, g[i - 1] \o selected[i]) = Times(x, g[i - 1]) + Times(x, selected[i])
      BY <2>4, <3>2, TimesOfConcat
    <3>5. Cardinality((1 .. i) \cap W)
              = Cardinality((1 .. i - 1) \cap W) + IF i \in W THEN 1 ELSE 0
      <4>1. IsFiniteSet(1 .. i) /\ i \in 1 .. i /\ (1 .. i) \ {i} = 1 .. i - 1
        BY <2>4
      <4>2. Cardinality((1 .. i) \cap W)
                = Cardinality(((1 .. i) \ {i}) \cap W) + IF i \in W THEN 1 ELSE 0
        <5> DEFINE t == 1 .. i
        <5>1. IsFiniteSet(t) /\ i \in t
          BY <4>1
        <5> HIDE DEF t
        <5>2. Cardinality(t \cap W) = Cardinality((t \ {i}) \cap W) + IF i \in W THEN 1 ELSE 0
          BY <5>1, OneMore
        <5> QED BY <5>2 DEF t
      <4> QED BY <4>1, <4>2
    <3> QED BY <2>4, <3>2, <3>3, <3>4, <3>5
  <2>7. Right(n)
    <3>1. n - 1 \in T
      <4>1. n - 1 \in Nat
        BY <1>3
      <4> HIDE DEF T
      <4> QED BY <2>5, <2>6, <4>1, SetInduction
    <3> QED BY <1>3, <3>1
  <2> QED BY <2>2, <2>7
<1> QED BY <1>2, <1>3

\* Each version finds the featured items of the favorite stores and no others.
LEMMA EachSelected ==
    ASSUME stores \in [StoreId -> Seq(Item)], NEW favorites \in Seq(StoreId),
           NEW file \in {"1_base", "2_ranges_part_1", "3_ranges_part_2"}
    PROVE  /\ AllFeatured(file, favorites) \in Seq(Place)
           /\ \A s \in StoreId : \A i \in DOMAIN stores[s] :
                  Times(<<s, i>>, AllFeatured(file, favorites))
                      = IF stores[s][i].featured THEN Times(s, favorites) ELSE 0
<1> DEFINE loops == [k \in DOMAIN favorites |-> FeaturedByLoop(favorites[k])]
           views == [k \in DOMAIN favorites |-> FeaturedByRange(favorites[k])]
           Where(s, i) == IF stores[s][i].featured THEN {k \in DOMAIN favorites : favorites[k] = s}
                          ELSE {}
           Right(all) == /\ all \in Seq(Place)
                         /\ \A s \in StoreId : \A i \in DOMAIN stores[s] :
                                Times(<<s, i>>, all) = Cardinality(Where(s, i))
<1>1. ASSUME NEW s \in StoreId, NEW i \in DOMAIN stores[s], NEW k \in DOMAIN favorites
      PROVE  LET shop == favorites[k] IN
             (\E j \in DOMAIN stores[shop] : <<s, i>> = <<shop, j>> /\ Featured(<<s, i>>))
                 <=> k \in Where(s, i)
  BY DEF Featured
<1>2. /\ loops \in Seq(Seq(Place)) /\ views \in Seq(Seq(Place))
      /\ \A s \in StoreId : \A i \in DOMAIN stores[s] :
             OnceAt(<<s, i>>, loops, Where(s, i)) /\ OnceAt(<<s, i>>, views, Where(s, i))
  <2>1. \A k \in DOMAIN favorites : favorites[k] \in StoreId
    OBVIOUS
  <2>2. loops \in Seq(Seq(Place)) /\ views \in Seq(Seq(Place))
    <3>1. \A k \in DOMAIN favorites : loops[k] \in Seq(Place) /\ views[k] \in Seq(Place)
      BY <2>1, LoopFinds, RangeFinds
    <3>2. /\ DOMAIN favorites = 1 .. Len(favorites) /\ Len(favorites) \in Nat
          /\ loops = [k \in DOMAIN favorites |-> loops[k]]
          /\ views = [k \in DOMAIN favorites |-> views[k]]
      OBVIOUS
    <3> HIDE DEF loops, views
    <3> QED BY <3>1, <3>2
  <2>3. ASSUME NEW s \in StoreId, NEW i \in DOMAIN stores[s]
        PROVE  OnceAt(<<s, i>>, loops, Where(s, i)) /\ OnceAt(<<s, i>>, views, Where(s, i))
    <3>1. Where(s, i) \subseteq DOMAIN loops /\ Where(s, i) \subseteq DOMAIN views
      OBVIOUS
    <3>2. ASSUME NEW k \in DOMAIN favorites
          PROVE  /\ Times(<<s, i>>, loops[k]) = IF k \in Where(s, i) THEN 1 ELSE 0
                 /\ Times(<<s, i>>, views[k]) = IF k \in Where(s, i) THEN 1 ELSE 0
      <4> HIDE DEF Where
      <4> QED BY <1>1, <2>1, LoopFinds, RangeFinds
    <3> HIDE DEF Where
    <3> QED BY <3>1, <3>2 DEF OnceAt
  <2> QED BY <2>2, <2>3
<1>3. Right(Copied(loops)) /\ Right(Copied(views)) /\ Right(FlattenSeq(views))
  <2> HIDE DEF loops, views, Where
  <2> QED BY <1>2, CopiedHas, JoinedHas
<1>4. Right(AllFeatured(file, favorites))
  BY <1>3 DEF AllFeatured, AllByLoop, AllByRange, AllByJoin
<1>5. ASSUME NEW s \in StoreId, NEW i \in DOMAIN stores[s]
      PROVE  Cardinality(Where(s, i)) = IF stores[s][i].featured THEN Times(s, favorites) ELSE 0
  BY FS_EmptySet DEF Times
<1> QED BY <1>4, <1>5

\* std::sort only moves items, and the one behind is never newer.
LEMMA OrderedKeeps ==
    ASSUME stores \in [StoreId -> Seq(Item)], NEW items \in Seq(Place), NEW q \in Ordered(items)
    PROVE  /\ q \in Seq(Place)
           /\ \A x : Times(x, q) = Times(x, items)
           /\ \A k, l \in DOMAIN q : k < l => DateAdded(q[k]) >= DateAdded(q[l])
<1> DEFINE n == Len(items)
<1>1. n \in Nat /\ DOMAIN items = 1 .. n /\ \A k \in 1 .. n : items[k] \in Place
  OBVIOUS
<1>2. PICK p \in Bijection(1 .. n, 1 .. n) : q = [k \in 1 .. n |-> items[p[k]]]
  BY <1>1 DEF Ordered
<1>3. /\ p \in [1 .. n -> 1 .. n]
      /\ \A a, b \in 1 .. n : p[a] = p[b] => a = b
      /\ \A b \in 1 .. n : \E a \in 1 .. n : p[a] = b
  BY DEF Bijection, Injection, Surjection, IsInjective
<1>4. q \in Seq(Place) /\ Len(q) = n /\ DOMAIN q = 1 .. n
  BY <1>1, <1>2, <1>3
<1>5. ASSUME NEW x PROVE Times(x, q) = Times(x, items)
  <2> DEFINE Q == {k \in DOMAIN q : q[k] = x}
             A == {k \in DOMAIN items : items[k] = x}
             move == [k \in Q |-> p[k]]
  <2>1. IsFiniteSet(Q)
    <3>1. IsFiniteSet(1 .. n)
      BY <1>1, FS_Interval
    <3> QED BY <1>4, <3>1, FS_Subset
  <2>2. move \in Bijection(Q, A)
    <3>1. move \in [Q -> A]
      BY <1>1, <1>2, <1>3, <1>4
    <3>2. \A a, b \in Q : move[a] = move[b] => a = b
      BY <1>3, <1>4
    <3>3. ASSUME NEW b \in A PROVE \E a \in Q : move[a] = b
      <4>1. b \in 1 .. n /\ items[b] = x
        BY <1>1
      <4>2. PICK a \in 1 .. n : p[a] = b
        BY <1>3, <4>1
      <4> QED BY <1>2, <1>4, <4>1, <4>2
    <3>4. DOMAIN move = Q
      OBVIOUS
    <3> HIDE DEF move, Q, A
    <3> QED BY <3>1, <3>2, <3>3, <3>4 DEF Bijection, Injection, Surjection, IsInjective
  <2> HIDE DEF Q, A, move
  <2>3. ExistsBijection(Q, A)
    BY <2>2 DEF ExistsBijection
  <2>4. Cardinality(A) = Cardinality(Q)
    BY <2>1, <2>3, FS_Bijection
  <2> QED BY <2>4 DEF Times, Q, A
<1>6. \A k \in 1 .. n : DateAdded(q[k]) \in Int
  <2>1. ASSUME NEW x \in Place PROVE DateAdded(x) \in Int
    <3>1. x[1] \in StoreId /\ x[2] \in DOMAIN stores[x[1]] /\ stores[x[1]] \in Seq(Item)
      BY DEF Place
    <3>2. stores[x[1]][x[2]] \in Item
      BY <3>1
    <3> QED BY <3>2 DEF DateAdded, Item
  <2> QED BY <1>4, <2>1
<1>7. \A k \in 1 .. n - 1 : DateAdded(q[k]) >= DateAdded(q[k + 1])
  BY <1>4 DEF Ordered
<1>8. ASSUME NEW k \in 1 .. n, NEW l \in 1 .. n, k < l
      PROVE  DateAdded(q[k]) >= DateAdded(q[l])
  <2> DEFINE T == {d \in Nat : k + d + 1 \in 1 .. n => DateAdded(q[k]) >= DateAdded(q[k + d + 1])}
  <2>1. 0 \in T
    BY <1>7
  <2>2. ASSUME NEW d \in Nat, d \in T PROVE d + 1 \in T
    <3> SUFFICES ASSUME k + d + 2 \in 1 .. n PROVE DateAdded(q[k]) >= DateAdded(q[k + d + 2])
      OBVIOUS
    <3>1. k + d + 1 \in 1 .. n - 1 /\ k + d + 1 \in 1 .. n
      BY <1>1
    <3>2. DateAdded(q[k]) >= DateAdded(q[k + d + 1])
      BY <2>2, <3>1
    <3>3. DateAdded(q[k + d + 1]) >= DateAdded(q[k + d + 2])
      <4>1. (k + d + 1) + 1 = k + d + 2
        BY <1>1
      <4> QED BY <1>7, <3>1, <4>1
    <3> QED BY <1>6, <3>1, <3>2, <3>3
  <2>3. l - k - 1 \in Nat /\ k + (l - k - 1) + 1 = l
    BY <1>1, <1>8
  <2>4. l - k - 1 \in T
    <3> HIDE DEF T
    <3> QED BY <2>1, <2>2, <2>3, SetInduction
  <2> QED BY <2>3, <2>4
<1> QED BY <1>4, <1>5, <1>8

\* Strengthens GalleryComplete: the stores and the favorites have items and stores, and
\* whom somebody asked for stays in the map.
GalleryInv ==
    /\ stores \in [StoreId -> Seq(Item)]
    /\ \A c \in DOMAIN favorite_stores_by_customer :
           favorite_stores_by_customer[c] \in Seq(StoreId)
    /\ \E known \in FavoriteInputs :
           /\ DOMAIN known \subseteq DOMAIN favorite_stores_by_customer
           /\ \A c \in DOMAIN favorite_stores_by_customer :
                  favorite_stores_by_customer[c] = IF c \in DOMAIN known THEN known[c] ELSE <<>>
    /\ GalleryComplete

\* At first nothing is rendered, and the map holds sequences of stores.
LEMMA GalleryInitOK == GalleryInit => GalleryInv
<1> SUFFICES ASSUME GalleryInit PROVE GalleryInv
  OBVIOUS
<1>1. DOMAIN gallery = {}
  BY DEF GalleryInit
<1>2. GalleryComplete
  BY <1>1 DEF GalleryComplete
<1> QED BY <1>2, GalleryAssumption DEF GalleryInit, GalleryInv

\* main() renders what GalleryComplete asks for, whichever version it is.
LEMMA RenderKeepsGallery ==
    ASSUME GalleryInv, NEW file \in {"1_base", "2_ranges_part_1", "3_ranges_part_2"},
           NEW customer_id \in CustomerId, RenderGallery(file, customer_id)
    PROVE  GalleryInv'
<1> DEFINE before == favorite_stores_by_customer
           after == favorite_stores_by_customer'
           favorites == after[customer_id]
<1>1. stores \in [StoreId -> Seq(Item)] /\ stores' = stores
  BY DEF GalleryInv, RenderGallery
<1>2. after = [c \in DOMAIN before \cup {customer_id} |->
                   IF c \in DOMAIN before THEN before[c] ELSE <<>>]
  BY DEF RenderGallery, get_favorite_stores_for
<1>3. \A c \in DOMAIN after : after[c] \in Seq(StoreId)
  BY <1>2 DEF GalleryInv
<1>4. PICK known \in FavoriteInputs :
          /\ DOMAIN known \subseteq DOMAIN before
          /\ \A c \in DOMAIN before : before[c] = IF c \in DOMAIN known THEN known[c] ELSE <<>>
  BY DEF GalleryInv
<1>5. /\ DOMAIN known \subseteq DOMAIN after
      /\ \A c \in DOMAIN after : after[c] = IF c \in DOMAIN known THEN known[c] ELSE <<>>
  BY <1>2, <1>4
<1>6. PICK items \in Ordered(AllFeatured(file, favorites)) :
          gallery' = [c \in {customer_id} |-> items]
  BY <1>2 DEF RenderGallery, get_favorite_stores_for
<1>7. favorites \in Seq(StoreId)
  BY <1>2, <1>3
<1>8. /\ \A s \in StoreId : \A i \in DOMAIN stores[s] :
             Times(<<s, i>>, items) = IF stores[s][i].featured THEN Times(s, favorites) ELSE 0
      /\ \A k, l \in DOMAIN items : k < l => DateAdded(items[k]) >= DateAdded(items[l])
  <2> HIDE DEF favorites
  <2>1. /\ AllFeatured(file, favorites) \in Seq(Place)
        /\ \A s \in StoreId : \A i \in DOMAIN stores[s] :
               Times(<<s, i>>, AllFeatured(file, favorites))
                   = IF stores[s][i].featured THEN Times(s, favorites) ELSE 0
    BY <1>1, <1>7, EachSelected
  <2>2. /\ \A x : Times(x, items) = Times(x, AllFeatured(file, favorites))
        /\ \A k, l \in DOMAIN items : k < l => DateAdded(items[k]) >= DateAdded(items[l])
    BY <1>1, <1>6, <2>1, OrderedKeeps
  <2> QED BY <2>1, <2>2
<1>9. GalleryComplete'
  <2>1. DOMAIN gallery' = {customer_id} /\ gallery'[customer_id] = items
    BY <1>6
  <2>2. \E inputs \in FavoriteInputs : \A c \in DOMAIN after :
            after[c] = IF c \in DOMAIN inputs THEN inputs[c] ELSE <<>>
    BY <1>5
  <2> QED BY <1>1, <1>8, <2>1, <2>2 DEF GalleryComplete, DateAdded
<1> QED BY <1>1, <1>3, <1>5, <1>9 DEF GalleryInv

\* Every step of the gallery keeps the invariant.
LEMMA GalleryInvariance == GalleryInv /\ [GalleryNext]_galleryVars => GalleryInv'
<1> SUFFICES ASSUME GalleryInv, [GalleryNext]_galleryVars PROVE GalleryInv'
  OBVIOUS
<1>1. CASE GalleryNext
  BY <1>1, RenderKeepsGallery DEF GalleryNext
<1>2. CASE UNCHANGED galleryVars
  BY <1>2 DEF galleryVars, GalleryInv, GalleryComplete, DateAdded
<1> QED BY <1>1, <1>2

\* Whatever the stores hold and whoever asks, all versions show the featured items of the
\* favorite stores and no others, each as often as its store is a favorite, newest first.
THEOREM GalleryIsComplete == GallerySpec => []GalleryComplete
<1>1. GalleryInv => GalleryComplete
  BY DEF GalleryInv
<1> QED BY <1>1, GalleryInitOK, GalleryInvariance, PTL DEF GallerySpec

-----------------------------------------------------------------------------
(* ChapterPrograms                                                         *)

\* One step of a program is a step of its own or none, so each behaves as its
\* specification allows.
LEMMA EachProgram == ProgramSpec => ItemSpec /\ Spec /\ WorkSpec /\ ArraySpec /\ GallerySpec
<1>1. ProgramInit => ItemInit /\ Init /\ WorkInit /\ ArrayInit /\ GalleryInit
    BY DEF ProgramInit
<1>2. [ProgramNext]_programVars =>
        /\ [ItemNext]_itemVars /\ [Next]_vars /\ [WorkNext]_workVars
        /\ [ArrayNext]_arrayVars /\ [GalleryNext]_galleryVars
    BY DEF ProgramNext, programVars
<1> QED
    BY <1>1, <1>2, PTL DEF ProgramSpec, ItemSpec, Spec, WorkSpec, ArraySpec, GallerySpec

\* In every program of the chapters, what it keeps its state in is well formed at
\* every step: the item's variant, the store and the history of reviews, and the
\* counters, stacks and queues of the coroutines.
THEOREM ProgramsWellFormed == ProgramSpec => []ProgramsOK
<1>1. MerchantsInv => TypeOK
    BY DEF MerchantsInv
<1>2. IInv => WorkOK
    BY DEF IInv
<1> QED
    BY <1>1, <1>2, EachProgram, TypeCorrect, MerchantsInvariance, Invariance, PTL
    DEF ProgramsOK
=============================================================================
