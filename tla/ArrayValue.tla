----------------------------- MODULE ArrayValue ------------------------------
(***************************************************************************)
(* Chapter06, 04_hidden_friend__copy_and_swap.cpp: Array<T>, a class that  *)
(* owns a block of the heap by a plain pointer and is copied, moved and    *)
(* swapped as a value.  Assignment takes its argument by value, so it is a *)
(* construction, a swap and the destruction of what the argument is left   *)
(* with.  The elements are integers, whose copies do not throw; new may.   *)
(***************************************************************************)
EXTENDS Integers, Sequences, Functions

CONSTANTS
    Name,       \* the variables of type Array<T>
    Address,    \* where new finds room for a block
    nullptr,
    Element,
    MaxSize     \* bound: the size of an array

ASSUME AddressAssumption == nullptr \notin Address

VARIABLES
    arrays,   \* the array_ and size_ of the variables that are alive
    heap,     \* the elements of each block that is allocated
    meant     \* history: the elements each variable should have

arrayVars == <<arrays, heap, meant>>

ArrayInit == arrays = << >> /\ heap = << >> /\ meant = << >>

-----------------------------------------------------------------------------
Alive == DOMAIN arrays
With(f, x, y) == [z \in DOMAIN f \cup {x} |-> IF z = x THEN y ELSE f[z]]
Without(f, x) == Restrict(f, DOMAIN f \ {x})

Free == Address \ DOMAIN heap
Null == [array_ |-> nullptr, size_ |-> 0]
Block(address, elements) == [array_ |-> address, size_ |-> Len(elements)]

\* copy_n from other.array_
Elements(a) == IF arrays[a].array_ = nullptr THEN <<>> ELSE heap[arrays[a].array_]

\* ~Array(), of an array that holds the block at address
Deleted(blocks, address) == IF address = nullptr THEN blocks ELSE Without(blocks, address)

-----------------------------------------------------------------------------
\* new throws std::bad_alloc: no variable has been made or assigned to.
BadAlloc == UNCHANGED arrayVars

\* make_array(), whose elements nobody has set
make_array(a, elements) ==
    /\ a \notin Alive
    /\ \/ \E address \in Free :
            /\ heap' = With(heap, address, elements)
            /\ arrays' = With(arrays, a, Block(address, elements))
            /\ meant' = With(meant, a, elements)
       \/ BadAlloc

\* Array(const Array &)
CopyConstruct(a, other) ==
    /\ a \notin Alive /\ other \in Alive
    /\ \/ \E address \in Free :
            /\ heap' = With(heap, address, Elements(other))
            /\ arrays' = With(arrays, a, Block(address, Elements(other)))
            /\ meant' = With(meant, a, meant[other])
       \/ BadAlloc

\* Mutant of MoveConstruct: the source keeps its pointer.
MoveConstruct_Shares(a, other) ==
    /\ a \notin Alive /\ other \in Alive
    /\ arrays' = With(arrays, a, arrays[other])
    /\ meant' = With(meant, a, meant[other])
    /\ UNCHANGED heap

\* Array(Array &&)
MoveConstruct(a, other) ==
    /\ a \notin Alive /\ other \in Alive
    /\ arrays' = With([arrays EXCEPT ![other] = Null], a, arrays[other])
    /\ meant' = With([meant EXCEPT ![other] = <<>>], a, meant[other])
    /\ UNCHANGED heap

\* operator=(Array other), where other is a copy: the new block is there before the
\* old one goes.
CopyAssign(a, other) ==
    /\ {a, other} \subseteq Alive
    /\ \/ \E address \in Free :
            /\ heap' = Deleted(With(heap, address, Elements(other)), arrays[a].array_)
            /\ arrays' = [arrays EXCEPT ![a] = Block(address, Elements(other))]
            /\ meant' = [meant EXCEPT ![a] = meant[other]]
       \/ BadAlloc

\* Mutant of MoveAssign: the old block is deleted even if it comes back.
MoveAssign_Self(a, other) ==
    /\ {a, other} \subseteq Alive
    /\ heap' = Deleted(heap, arrays[a].array_)
    /\ arrays' = [[arrays EXCEPT ![other] = Null] EXCEPT ![a] = arrays[other]]
    /\ meant' = [[meant EXCEPT ![other] = <<>>] EXCEPT ![a] = meant[other]]

\* operator=(Array other), where other is moved from: a variable may be moved to itself.
MoveAssign(a, other) ==
    LET moved == [arrays EXCEPT ![other] = Null]
    IN  /\ {a, other} \subseteq Alive
        /\ heap' = Deleted(heap, moved[a].array_)
        /\ arrays' = [moved EXCEPT ![a] = arrays[other]]
        /\ meant' = [[meant EXCEPT ![other] = <<>>] EXCEPT ![a] = meant[other]]

swap(left, right) ==
    /\ {left, right} \subseteq Alive
    /\ arrays' = [arrays EXCEPT ![left] = arrays[right], ![right] = arrays[left]]
    /\ meant' = [meant EXCEPT ![left] = meant[right], ![right] = meant[left]]
    /\ UNCHANGED heap

\* a[i] = x
Write(a, i, x) ==
    /\ a \in Alive /\ i \in 1..arrays[a].size_
    /\ heap' = [heap EXCEPT ![arrays[a].array_][i] = x]
    /\ meant' = [meant EXCEPT ![a][i] = x]
    /\ UNCHANGED arrays

Destroy(a) ==
    /\ a \in Alive
    /\ heap' = Deleted(heap, arrays[a].array_)
    /\ arrays' = Without(arrays, a) /\ meant' = Without(meant, a)

-----------------------------------------------------------------------------
ArrayNext == \E a \in Name :
    \/ \E n \in 0..MaxSize : \E elements \in [1..n -> Element] : make_array(a, elements)
    \/ \E other \in Name :
        \/ CopyConstruct(a, other) \/ MoveConstruct(a, other)
        \/ CopyAssign(a, other) \/ MoveAssign(a, other) \/ swap(a, other)
    \/ \E i \in 1..MaxSize, x \in Element : Write(a, i, x)
    \/ Destroy(a)

ArraySpec == ArrayInit /\ [][ArrayNext]_arrayVars

-----------------------------------------------------------------------------
\* Whatever is copied, moved, swapped, assigned to itself or fails for want of memory:
\* every block has one owner and goes with it, and an array has the elements a value
\* would have, changed by nothing that is done to another.
ArraysAreValues ==
    /\ DOMAIN heap = {arrays[a].array_ : a \in Alive} \ {nullptr}
    /\ \A a, b \in Alive : arrays[a].array_ = arrays[b].array_ => a = b \/ arrays[a] = Null
    /\ \A a \in Alive : Elements(a) = meant[a] /\ arrays[a].size_ = Len(meant[a])
=============================================================================
