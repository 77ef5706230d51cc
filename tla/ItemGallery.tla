---------------------------- MODULE ItemGallery ------------------------------
(***************************************************************************)
(* Chapter05: the gallery of the featured items of a customer's favorite   *)
(* stores, newest first, written with loops (1_base.cpp), with ranges      *)
(* (2_ranges_part_1.cpp) and with ranges that are joined lazily            *)
(* (3_ranges_part_2.cpp; 4_concepts.cpp adds concepts only).               *)
(*                                                                         *)
(* A pointer to an item is a pair of its store and its place there.  Of an *)
(* item its date and whether it is featured are kept.                      *)
(***************************************************************************)
EXTENDS Integers, SequencesExt

CONSTANTS
    CustomerId,
    StoreId,
    StoreInputs,      \* the items of each store
    FavoriteInputs    \* the favorite stores of some customers, each a sequence of stores

Item == [date_added : Int, featured : BOOLEAN]

ASSUME GalleryAssumption ==
    /\ \A inputs \in StoreInputs : inputs \in [StoreId -> Seq(Item)]
    /\ \A known \in FavoriteInputs : \A c \in DOMAIN known : known[c] \in Seq(StoreId)

VARIABLES
    stores,
    favorite_stores_by_customer,   \* a static std::unordered_map
    gallery    \* what main() has rendered for a customer, or nothing yet

galleryVars == <<stores, favorite_stores_by_customer, gallery>>

GalleryInit ==
    /\ stores \in StoreInputs
    /\ favorite_stores_by_customer \in FavoriteInputs
    /\ gallery = << >>

-----------------------------------------------------------------------------
\* operator[] finds the customer's entry or inserts an empty one.
get_favorite_stores_for(customer_id) ==
    [c \in DOMAIN favorite_stores_by_customer \cup {customer_id} |->
        IF c \in DOMAIN favorite_stores_by_customer THEN favorite_stores_by_customer[c] ELSE <<>>]

Pointers(s) == [i \in DOMAIN stores[s] |-> <<s, i>>]
Featured(item) == stores[item[1]][item[2]].featured
DateAdded(item) == stores[item[1]][item[2]].date_added

-----------------------------------------------------------------------------
(* 1_base.cpp                                                              *)

FeaturedByLoop(s) ==
    FoldLeft(LAMBDA featured, item : IF Featured(item) THEN Append(featured, item) ELSE featured,
             <<>>, Pointers(s))

\* Each store's items are put behind those of the stores before.
Copied(selected) == FoldLeft(LAMBDA all, items : all \o items, <<>>, selected)

\* Mutant of AllByLoop: each store's items replace those of the stores before.
AllByLoop_Assigns(favorites) ==
    FoldLeft(LAMBDA all, s : FeaturedByLoop(s), <<>>, favorites)

AllByLoop(favorites) == Copied([k \in DOMAIN favorites |-> FeaturedByLoop(favorites[k])])

-----------------------------------------------------------------------------
(* 2_ranges_part_1.cpp and 3_ranges_part_2.cpp                             *)

\* A view: its first item, if that is featured, and then the view of the others.
FeaturedByRange(s) ==
    FoldRight(LAMBDA item, others : IF Featured(item) THEN <<item>> \o others ELSE others,
              Pointers(s), <<>>)

AllByRange(favorites) == Copied([k \in DOMAIN favorites |-> FeaturedByRange(favorites[k])])

AllByJoin(favorites) ==
    FlattenSeq([k \in DOMAIN favorites |-> FeaturedByRange(favorites[k])])

-----------------------------------------------------------------------------

\* order_items_by_date_added(): std::sort leaves equal dates in any order.
Ordered(items) ==
    {q \in {[k \in DOMAIN items |-> items[p[k]]] : p \in Bijection(DOMAIN items, DOMAIN items)} :
        \A k \in 1..Len(q) - 1 : DateAdded(q[k]) >= DateAdded(q[k + 1])}

\* get_all_featured_items()
AllFeatured(file, favorites) ==
    CASE file = "1_base" -> AllByLoop(favorites)
      [] file = "2_ranges_part_1" -> AllByRange(favorites)
      [] file = "3_ranges_part_2" -> AllByJoin(favorites)

\* main()
RenderGallery(file, customer_id) ==
    LET favorites == get_favorite_stores_for(customer_id)
    IN  /\ favorite_stores_by_customer' = favorites
        /\ \E items \in Ordered(AllFeatured(file, favorites[customer_id])) :
             gallery' = [c \in {customer_id} |-> items]
        /\ UNCHANGED stores

GalleryNext ==
    \E file \in {"1_base", "2_ranges_part_1", "3_ranges_part_2"}, customer_id \in CustomerId :
        RenderGallery(file, customer_id)

GallerySpec == GalleryInit /\ [][GalleryNext]_galleryVars

-----------------------------------------------------------------------------
\* How often a sequence has an element.
Times(x, sequence) == Cardinality({k \in DOMAIN sequence : sequence[k] = x})

\* All versions show the featured items of the favorite stores and no others, each as
\* often as its store is a favorite, newest first; a customer nobody knows has none,
\* and asking for one takes no favorites from others.
GalleryComplete == \A customer_id \in DOMAIN gallery :
    LET items == gallery[customer_id]
        favorites == favorite_stores_by_customer[customer_id]
    IN  /\ \A s \in StoreId : \A i \in DOMAIN stores[s] :
            Times(<<s, i>>, items) = IF stores[s][i].featured THEN Times(s, favorites) ELSE 0
        /\ \A k, l \in DOMAIN items : k < l => DateAdded(items[k]) >= DateAdded(items[l])
        /\ \E known \in FavoriteInputs : \A c \in DOMAIN favorite_stores_by_customer :
            favorite_stores_by_customer[c] = IF c \in DOMAIN known THEN known[c] ELSE <<>>
=============================================================================
