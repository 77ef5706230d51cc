-------------------------- MODULE ItemStateMachine --------------------------
(***************************************************************************)
(* The item state machine of Chapter06/12_state_and_visitation.cpp: a      *)
(* std::variant of three states and the overload set on_event that         *)
(* process_event dispatches to.  A pair of a state and an event without an *)
(* on_event overload throws std::logic_error and leaves state_ as it was.  *)
(*                                                                         *)
(* The count of an event is an int that nobody checks: zero and negative   *)
(* deliveries and purchases are accepted.                                  *)
(*                                                                         *)
(* arrived, taken and oversold are history variables: the units delivered, *)
(* the units asked for by accepted purchases, and the part of those that   *)
(* on_event(Available, Purchased) handed out without having them in stock. *)
(***************************************************************************)
EXTENDS Integers

CONSTANTS
    IntMax,    \* largest value of the int the counts are kept in
    Counts,    \* the counts that events carry
    MaxEvents  \* bound: deliveries and purchases processed

ASSUME ItemAssumption ==
    /\ IntMax \in Nat \ {0}
    /\ Counts \subseteq (-IntMax - 1) .. IntMax
    /\ MaxEvents \in Nat

VARIABLES
    state_,     \* the variant held by ItemStateMachine
    threw,      \* the last process_event ended in std::logic_error
    overflowed, \* an int addition or subtraction has left the int range
    arrived, taken, oversold,
    misdelivered, \* history: no unit or fewer came in since the last purchase
    events

itemVars == <<state_, threw, overflowed, arrived, taken, oversold, misdelivered, events>>
ledger == <<arrived, taken, oversold, misdelivered>>

-----------------------------------------------------------------------------
Ints == (-IntMax - 1) .. IntMax

Depleted == [tag |-> "Depleted", count |-> 0]
Available(n) == [tag |-> "Available", count |-> n]
Discontinued == [tag |-> "Discontinued", count |-> 0]

State == {Depleted, Discontinued} \cup {Available(n) : n \in Ints}

\* Two's complement: what the builds the repository targets make of an int
\* sum or difference that is out of range.
Wrap(n) ==
    CASE n > IntMax -> n - 2 * (IntMax + 1)
      [] n < -IntMax - 1 -> n + 2 * (IntMax + 1)
      [] OTHER -> n

-----------------------------------------------------------------------------
ItemInit ==
    /\ state_ = Depleted
    /\ threw = FALSE
    /\ overflowed = FALSE
    /\ arrived = 0 /\ taken = 0 /\ oversold = 0 /\ misdelivered = FALSE
    /\ events = 0

\* process_event stores the state an overload returned.
Stores(next) == state_' = next /\ threw' = FALSE

\* The books of a delivery and of a purchase.
Delivers(n) ==
    /\ arrived' = arrived + n
    /\ misdelivered' = (misdelivered \/ n <= 0)
    /\ UNCHANGED <<taken, oversold>>

Takes(n) ==
    /\ taken' = taken + n
    /\ oversold' = oversold + (IF state_.count < n THEN n - state_.count ELSE 0)
    /\ misdelivered' = FALSE
    /\ UNCHANGED arrived

\* on_event(Available, DeliveryArrived)
AvailableDelivery(n) ==
    /\ state_.tag = "Available"
    /\ Stores(Available(Wrap(state_.count + n)))
    /\ overflowed' = (overflowed \/ state_.count + n \notin Ints)
    /\ Delivers(n)

\* Mutant of DepletedDelivery: the overload is a template over the state, as
\* the one of event::Discontinued is.
DepletedDelivery_AnyState(n) ==
    /\ state_.tag # "Available"
    /\ Stores(Available(n))
    /\ Delivers(n)
    /\ UNCHANGED overflowed

\* on_event(Depleted, DeliveryArrived)
DepletedDelivery(n) ==
    /\ state_.tag = "Depleted"
    /\ Stores(Available(n))
    /\ Delivers(n)
    /\ UNCHANGED overflowed

\* Mutant of AvailablePurchase: selling the last unit leaves the item available.
AvailablePurchase_KeepsEmpty(n) ==
    LET left == Wrap(state_.count - n) IN
    /\ state_.tag = "Available"
    /\ Stores(IF left >= 0 THEN Available(left) ELSE Depleted)
    /\ overflowed' = (overflowed \/ state_.count - n \notin Ints)
    /\ Takes(n)

\* on_event(Available, Purchased): the purchase is accepted even when it asks
\* for more than is there; the remainder is not checked, only its sign.
AvailablePurchase(n) ==
    LET left == Wrap(state_.count - n) IN
    /\ state_.tag = "Available"
    /\ Stores(IF left > 0 THEN Available(left) ELSE Depleted)
    /\ overflowed' = (overflowed \/ state_.count - n \notin Ints)
    /\ Takes(n)

\* template <typename S> on_event(S, event::Discontinued)
Discontinue ==
    /\ Stores(Discontinued)
    /\ UNCHANGED <<overflowed, ledger>>

\* The fallback lambda of process_event throws before state_ is assigned.
Unsupported(tags) ==
    /\ state_.tag \in tags
    /\ threw' = TRUE
    /\ UNCHANGED <<state_, overflowed, ledger>>

DeliveryArrived(n) ==
    \/ AvailableDelivery(n)
    \/ DepletedDelivery(n)
    \/ Unsupported({"Discontinued"})

Purchased(n) ==
    \/ AvailablePurchase(n)
    \/ Unsupported({"Depleted", "Discontinued"})

ItemNext ==
    \/ /\ events < MaxEvents
       /\ events' = events + 1
       /\ \E n \in Counts : DeliveryArrived(n) \/ Purchased(n)
    \/ Discontinue /\ UNCHANGED events

ItemSpec == ItemInit /\ [][ItemNext]_itemVars

-----------------------------------------------------------------------------
ItemOK ==
    /\ state_ \in State
    /\ threw \in BOOLEAN /\ overflowed \in BOOLEAN /\ misdelivered \in BOOLEAN
    /\ arrived \in Int /\ taken \in Int /\ oversold \in Int
    /\ events \in 0 .. MaxEvents

\* While no int operation has overflowed, the count the machine carries
\* through any run of deliveries, purchases and rejected events is the real
\* stock (what arrived, less what was taken, not counting what was oversold),
\* and a depleted item has none.  An available item has at least one unit,
\* except after a delivery of none or fewer: that one makes, or leaves, the
\* item available with whatever the sum is, until the next purchase looks.
StockLedger ==
    ~overflowed /\ state_.tag # "Discontinued" =>
        /\ state_.count = arrived - taken + oversold
        /\ (state_.tag = "Available" /\ ~misdelivered => state_.count > 0)

\* A discontinued item never comes back, and whatever arrives afterwards does
\* not enter the books; an event that throws changes neither state nor stock.
DiscontinuedIsFinal ==
    [][ /\ state_.tag = "Discontinued" => state_' = state_ /\ ledger' = ledger
        /\ (threw' /\ ~threw) => state_' = state_ /\ ledger' = ledger ]_itemVars
=============================================================================
