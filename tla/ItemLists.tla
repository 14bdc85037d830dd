------------------------------ MODULE ItemLists ------------------------------
(***************************************************************************)
(* What CLinkedListTemplate promises to the threads that share its lists:  *)
(* each list is a sequence of items, new items go to the end, a list takes *)
(* no item that it already has, removals keep the order of the rest, and a *)
(* concatenation carries the items over one by one from the front.         *)
(* An item enters a list by a call only, and a call changes one list only  *)
(* (a concatenation two).                                                  *)
(***************************************************************************)
EXTENDS Naturals, Sequences, SequencesExt

CONSTANTS
  Lists,     \* the lists
  Items      \* the objects that may be in a list

VARIABLE items   \* the objects in each list, in order

Has(l, i) == i \in Range(items[l])

Init == items = [l \in Lists |-> <<>>]

Enter(l, i) ==
  /\ ~Has(l, i)
  /\ items' = [items EXCEPT ![l] = Append(@, i)]

Leave(l) == \E p \in 1..Len(items[l]) : items' = [items EXCEPT ![l] = RemoveAt(@, p)]

\* The first link of an item gets another item, which the list may have already.
Replace(l, j) ==
  \E p \in 1..Len(items[l]) :
    /\ \A q \in 1..(p - 1) : items[l][q] # items[l][p]
    /\ items' = [items EXCEPT ![l][p] = j]

Clear(l) == items' = [items EXCEPT ![l] = <<>>]

Carry(src, dst) ==
  /\ src # dst /\ items[src] # <<>>
  /\ ~Has(dst, Head(items[src]))
  /\ items' = [items EXCEPT ![src] = Tail(@), ![dst] = Append(@, Head(items[src]))]

Next == \/ \E l \in Lists, i \in Items : Enter(l, i) \/ Replace(l, i)
        \/ \E l \in Lists : Leave(l) \/ Clear(l)
        \/ \E src, dst \in Lists : Carry(src, dst)

Spec == Init /\ [][Next]_items
=============================================================================
