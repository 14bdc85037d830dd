------------------------------ MODULE LinkedList ------------------------------
(***************************************************************************)
(* CLinkedListTemplate of CiUtils, with the threads that share its lists.  *)
(* A list is a chain of CLinkItems in both directions, with a head, a tail *)
(* and a counter; each list keeps the links it no longer needs in a cache, *)
(* a chain of its own.  The memory is one record, and the operations of    *)
(* the class are functions from a memory to a memory.  The clients call    *)
(* the Safe functions, which hold the lock of the list, and concatenate    *)
(* and traverse lists step by step under their locks.                      *)
(***************************************************************************)
EXTENDS Naturals, Sequences, FiniteSets, SequencesExt

CONSTANTS
  Lists, Items,         \* see ItemLists
  Links,                \* the addresses a CLinkItem may have
  CacheSize,            \* m_iCacheSize
  MaxItems,             \* bound: the items in all lists together
  Clients,              \* the threads
  Null,                 \* the NULL pointer
  NoOne                 \* the holder of a free lock

ASSUME ListConstants ==
  /\ CacheSize \in Nat /\ MaxItems \in Nat
  /\ IsFiniteSet(Links) /\ IsFiniteSet(Lists)
  /\ Cardinality(Links) >= MaxItems + CacheSize * Cardinality(Lists)
  /\ Null \notin Links \cup Items
  /\ NoOne \notin Clients

VARIABLES
  mem,       \* the links, the lists and their caches
  lock,      \* the thread that holds _mutex of each list
  call,      \* what each client is doing
  unvisited  \* history: the links a traversal has still to visit

listVars == <<mem, lock, call, unvisited>>

\* m_pHead, m_pTail, m_iNItems of a list or of a cache.
EmptyChain == [head |-> Null, tail |-> Null, n |-> 0]
-----------------------------------------------------------------------------
(* Walking a chain.                                                        *)

\* The links from k on, following m_pNext or m_pPrevious, to the first NULL.
Chain(dir, k) ==
  LET from[j \in Links \cup {Null}] == IF j = Null THEN <<>> ELSE <<j>> \o from[dir[j]]
  IN  from[k]

Forward(m, l) == Chain(m.next, m.list[l].head)

ItemsOf(m, l) == LET links == Forward(m, l) IN [p \in DOMAIN links |-> m.item[links[p]]]

\* FindLinkItemFromID: the first link with the item.  GetIDOf is not overridden
\* anywhere: the ID of an item is its address.
FindLink(m, l, i) ==
  LET links == Forward(m, l)
      p == SelectInSeq(links, LAMBDA k : m.item[k] = i)
  IN  IF p = 0 THEN Null ELSE links[p]

\* GetItem: m_iNItems guards the walk.
GetItem(m, l, index) ==
  IF index >= m.list[l].n THEN Null ELSE ItemsOf(m, l)[index + 1]

\* FindIndex: the first position of the item, -1 if it is not in the list.
FindIndex(m, l, i) == SelectInSeq(ItemsOf(m, l), LAMBDA j : j = i) - 1
-----------------------------------------------------------------------------
(* The chains: w is "list" or "cache".                                     *)

LinkAtTail(m, w, l, k) ==
  LET old == m[w][l].tail
  IN  IF m[w][l].head = Null /\ old = Null
      THEN [m EXCEPT !.previous[k] = Null, !.next[k] = Null,
                     ![w][l].head = k, ![w][l].tail = k, ![w][l].n = @ + 1]
      ELSE [m EXCEPT !.next = [@ EXCEPT ![old] = k, ![k] = Null],
                     !.previous[k] = old,
                     ![w][l].tail = k, ![w][l].n = @ + 1]

\* delete: nothing is read from the link afterwards.
Delete(m, k) ==
  [m EXCEPT !.allocated = @ \ {k}, !.previous[k] = Null, !.next[k] = Null,
            !.item[k] = Null]

\* A link in the cache keeps its m_pItem, but AddItem sets it before anything
\* reads it.
SafeReleaseLinkItem(m, l, k) ==
  IF m.cache[l].n >= CacheSize THEN Delete(m, k)
  ELSE [LinkAtTail(m, "cache", l, k) EXCEPT !.item[k] = Null]

\* The link that SafeAllocLinkItem returns (new: any address that is free) ...
NewLink(m, l) ==
  IF m.cache[l].head # Null THEN m.cache[l].head
  ELSE CHOOSE k \in Links : k \notin m.allocated

\* ... and the memory it leaves.
SafeAllocLinkItem(m, l) ==
  LET q == m.cache[l]
  IN  IF q.head = Null
      THEN [m EXCEPT !.allocated = @ \cup {NewLink(m, l)}]
      ELSE IF q.head = q.tail
      THEN [m EXCEPT !.cache[l] = [EmptyChain EXCEPT !.n = q.n - 1]]
      ELSE [m EXCEPT !.previous[m.next[q.head]] = Null,
                     !.cache[l].head = m.next[q.head], !.cache[l].n = @ - 1]

\* Faulty: the link before the removed one keeps its m_pNext.
Mutant_UnlinkOneWay(m, l, k) ==
  LET q == m.list[l]
      out == IF q.head = q.tail THEN [m EXCEPT !.list[l].head = Null, !.list[l].tail = Null]
             ELSE IF k = q.head
             THEN [m EXCEPT !.previous[m.next[k]] = Null, !.list[l].head = m.next[k]]
             ELSE [m EXCEPT !.list[l].tail = IF k = @ THEN m.previous[k] ELSE @]
  IN  [SafeReleaseLinkItem(out, l, k) EXCEPT !.list[l].n = @ - 1]

\* Unlink of a link of the list: the only one, the head, the tail, or one
\* between two others; then the link goes to the cache.
Unlink(m, l, k) ==
  LET q == m.list[l]
      out == IF q.head = q.tail
             THEN [m EXCEPT !.list[l].head = Null, !.list[l].tail = Null]
             ELSE IF k = q.head
             THEN [m EXCEPT !.next[k] = Null, !.previous[m.next[k]] = Null,
                            !.list[l].head = m.next[k]]
             ELSE IF k = q.tail
             THEN [m EXCEPT !.previous[k] = Null, !.next[m.previous[k]] = Null,
                            !.list[l].tail = m.previous[k]]
             ELSE [m EXCEPT !.next[m.previous[k]] = m.next[k],
                            !.previous[m.next[k]] = m.previous[k]]
  IN  [SafeReleaseLinkItem(out, l, k) EXCEPT !.list[l].n = @ - 1]
-----------------------------------------------------------------------------
(* The operations of the class.                                            *)

Has(m, l, i) == FindLink(m, l, i) # Null

\* Faulty: the item is added whatever the list holds.
Mutant_AddAnyway(m, l, i) ==
  LinkAtTail([SafeAllocLinkItem(m, l) EXCEPT !.item[NewLink(m, l)] = i],
             "list", l, NewLink(m, l))

AddItem(m, l, i) ==
  IF Has(m, l, i) THEN m
  ELSE LinkAtTail([SafeAllocLinkItem(m, l) EXCEPT !.item[NewLink(m, l)] = i],
                  "list", l, NewLink(m, l))

DeleteItem(m, l, i) ==
  IF Has(m, l, i) THEN Unlink(m, l, FindLink(m, l, i)) ELSE m

ModifyItem(m, l, before, after) ==
  IF Has(m, l, before) THEN [m EXCEPT !.item[FindLink(m, l, before)] = after]
  ELSE m

Clean(m, l) ==
  LET links == Forward(m, l)
      after[p \in 0..Len(links)] ==
        IF p = 0 THEN m ELSE SafeReleaseLinkItem(after[p - 1], l, links[p])
  IN  [after[Len(links)] EXCEPT !.list[l] = EmptyChain]

\* The destructors: Clean, then that of the cache, which deletes its links.
Destroy(m, l) ==
  LET c == Clean(m, l)
      links == Chain(c.next, c.cache[l].head)
      after[p \in 0..Len(links)] == IF p = 0 THEN c ELSE Delete(after[p - 1], links[p])
  IN  [after[Len(links)] EXCEPT !.cache[l] = EmptyChain]
-----------------------------------------------------------------------------
NoCall == [op |-> "none"]
Idle(t) == call[t].op = "none"
Free(l) == lock[l] = NoOne

ListInit ==
  /\ mem = [previous  |-> [k \in Links |-> Null],
            next      |-> [k \in Links |-> Null],
            item      |-> [k \in Links |-> Null],
            allocated |-> {},
            list      |-> [l \in Lists |-> EmptyChain],
            cache     |-> [l \in Lists |-> EmptyChain]]
  /\ lock = [l \in Lists |-> NoOne]
  /\ call = [t \in Clients |-> NoCall]
  /\ unvisited = [t \in Clients |-> {}]
-----------------------------------------------------------------------------
(* Calls that lock the list, do one thing and unlock it.                   *)

Linked == Cardinality({k \in Links : mem.item[k] # Null})

OneStep(l, m) ==
  /\ Free(l) /\ \E t \in Clients : Idle(t)
  /\ mem' = m
  /\ UNCHANGED <<lock, call, unvisited>>

SafeAddItem(l, i) == Linked < MaxItems /\ OneStep(l, AddItem(mem, l, i))
SafeDeleteItem(l, i) == OneStep(l, DeleteItem(mem, l, i))
SafeModifyItem(l, before, after) == OneStep(l, ModifyItem(mem, l, before, after))
SafeClean(l) == OneStep(l, Clean(mem, l))

\* Nobody destroys a list that a call in progress names.
Renew(l) ==
  /\ \A t \in Clients : call[t].op = "lockSource" => call[t].src # l
  /\ OneStep(l, Destroy(mem, l))
-----------------------------------------------------------------------------
(* SafeConcatenation: the destination is locked, then the source.          *)

SafeConcatenation(t, dst, src) ==
  /\ Idle(t) /\ Free(dst)
  /\ lock' = [lock EXCEPT ![dst] = t]
  /\ call' = [call EXCEPT ![t] = [op |-> "lockSource", dst |-> dst, src |-> src]]
  /\ UNCHANGED <<mem, unvisited>>

\* GetFirstPosition and GotoNextPosition.
NextOf(m, k) == IF k = Null THEN Null ELSE m.next[k]

\* The loops at the link k: the link after it is read ahead.
CarryAt(m, dst, src, k) == [op |-> "carry", dst |-> dst, src |-> src,
                            position |-> k, positionNext |-> NextOf(m, k)]
TraverseAt(m, l, k) == [op |-> "traverse", list |-> l,
                        position |-> k, positionNext |-> NextOf(m, k)]

LockSource(t) ==
  LET c == call[t]
  IN  /\ c.op = "lockSource" /\ Free(c.src)
      /\ lock' = [lock EXCEPT ![c.src] = t]
      /\ call' = [call EXCEPT ![t] = CarryAt(mem, c.dst, c.src, mem.list[c.src].head)]
      /\ UNCHANGED <<mem, unvisited>>

\* One pass of the loop: the item leaves the source and enters the
\* destination.  If the destination refuses it, it is in neither list.
Carry(t) ==
  LET c == call[t]
      i == mem.item[c.position]
      removed == DeleteItem(mem, c.src, i)
  IN  /\ c.op = "carry" /\ c.position # Null
      /\ mem' = AddItem(removed, c.dst, i)
      /\ call' = [call EXCEPT ![t] =
                    CarryAt(mem', c.dst, c.src,
                            IF Has(removed, c.dst, i) THEN Null ELSE c.positionNext)]
      /\ UNCHANGED <<lock, unvisited>>

UnlockSource(t) ==
  /\ call[t].op = "carry" /\ call[t].position = Null
  /\ lock' = [lock EXCEPT ![call[t].src] = NoOne]
  /\ call' = [call EXCEPT ![t] = [op |-> "unlock", list |-> call[t].dst]]
  /\ UNCHANGED <<mem, unvisited>>

\* Faulty: the return in the middle leaves the list locked.
Mutant_UnlockForgotten(t) ==
  /\ call[t].op = "unlock"
  /\ call' = [call EXCEPT ![t] = NoCall]
  /\ UNCHANGED <<mem, lock, unvisited>>

Unlock(t) ==
  /\ call[t].op = "unlock"
  /\ lock' = [lock EXCEPT ![call[t].list] = NoOne]
  /\ call' = [call EXCEPT ![t] = NoCall]
  /\ UNCHANGED <<mem, unvisited>>
-----------------------------------------------------------------------------
(* Lock, TRAVERSELIST, Unlock, as CCiThreadComplex does.                   *)

Traverse(t, l) ==
  /\ Idle(t) /\ Free(l)
  /\ lock' = [lock EXCEPT ![l] = t]
  /\ call' = [call EXCEPT ![t] = TraverseAt(mem, l, mem.list[l].head)]
  /\ unvisited' = [unvisited EXCEPT ![t] = ToSet(Forward(mem, l))]
  /\ UNCHANGED mem

\* The body of the loop deletes nothing, the current item (by its position or
\* by its ID) or another item, but not the one at positionNext.
Deletions(t) ==
  LET c == call[t]
      found == FindLink(mem, c.list, mem.item[c.position])
  IN  {{}, {c.position}, {found}} \cup {{k} : k \in ToSet(Forward(mem, c.list)) \ {c.positionNext}}

\* Faulty: positionNext is read after the body.
Mutant_NextAfterBody(t) ==
  LET c == call[t]
  IN  /\ c.op = "traverse" /\ c.position # Null
      /\ \E gone \in Deletions(t) :
           /\ mem' = IF gone = {} THEN mem ELSE Unlink(mem, c.list, CHOOSE k \in gone : TRUE)
           /\ unvisited' = [unvisited EXCEPT ![t] = (@ \ {c.position}) \ gone]
      /\ call' = [call EXCEPT ![t].position = NextOf(mem', c.position)]
      /\ UNCHANGED lock

\* The body, then (position) = (positionNext) and the next of that.
Visit(t) ==
  LET c == call[t]
  IN  /\ c.op = "traverse" /\ c.position # Null
      /\ \E gone \in Deletions(t) :
           /\ mem' = IF gone = {} THEN mem ELSE Unlink(mem, c.list, CHOOSE k \in gone : TRUE)
           /\ unvisited' = [unvisited EXCEPT ![t] = (@ \ {c.position}) \ gone]
      /\ call' = [call EXCEPT ![t] = TraverseAt(mem', c.list, c.positionNext)]
      /\ UNCHANGED lock

EndTraverse(t) ==
  /\ call[t].op = "traverse" /\ call[t].position = Null
  /\ lock' = [lock EXCEPT ![call[t].list] = NoOne]
  /\ call' = [call EXCEPT ![t] = NoCall]
  /\ UNCHANGED <<mem, unvisited>>
-----------------------------------------------------------------------------
Inside(t) == Carry(t) \/ UnlockSource(t) \/ Visit(t) \/ EndTraverse(t) \/ Unlock(t)

ListNext ==
  \/ \E l \in Lists, i \in Items :
       \/ SafeAddItem(l, i) \/ SafeDeleteItem(l, i)
       \/ \E j \in Items : SafeModifyItem(l, i, j)
  \/ \E l \in Lists : SafeClean(l) \/ Renew(l)
  \/ \E t \in Clients :
       \/ \E dst, src \in Lists : SafeConcatenation(t, dst, src)
       \/ \E l \in Lists : Traverse(t, l)
       \/ LockSource(t) \/ Inside(t)

ListSpec == ListInit /\ [][ListNext]_listVars
-----------------------------------------------------------------------------
Chains == [of : {"list", "cache"}, list : Lists]
ChainOf(c) == Chain(mem.next, mem[c.of][c.list].head)

ListTypeOK ==
  /\ mem.previous \in [Links -> Links \cup {Null}]
  /\ mem.next \in [Links -> Links \cup {Null}]
  /\ mem.item \in [Links -> Items \cup {Null}]
  /\ mem.allocated \in SUBSET Links
  /\ \A l \in Lists : /\ mem.list[l].n \in Nat /\ mem.cache[l].n \in 0..CacheSize
                      /\ lock[l] \in Clients \cup {NoOne}
  /\ unvisited \in [Clients -> SUBSET Links]

\* Between two steps every list is the same chain in both directions, as long
\* as its counter says; so is every cache, and never longer than m_iCacheSize.
\* Every link that is allocated is in exactly one chain: none leaks, none is
\* shared.  GetItem and FindIndex agree on every position.
WellLinked ==
  /\ ListTypeOK
  /\ \A c \in Chains : /\ Len(ChainOf(c)) = mem[c.of][c.list].n
                       /\ Chain(mem.previous, mem[c.of][c.list].tail) = Reverse(ChainOf(c))
  /\ \A l \in Lists :
       /\ \A p \in 0..(mem.list[l].n - 1) : GetItem(mem, l, p) = ItemsOf(mem, l)[p + 1]
       /\ \A i \in Items : LET p == FindIndex(mem, l, i)
                           IN  p >= 0 => GetItem(mem, l, p) = i
  /\ mem.allocated = UNION {ToSet(ChainOf(c)) : c \in Chains}
  /\ \A c, d \in Chains : c # d => ToSet(ChainOf(c)) \cap ToSet(ChainOf(d)) = {}

\* A traversal whose body deletes what it likes but the item it goes to next
\* visits every item that stays, once, and no link that has left the list.
TraversalVisitsAll ==
  \A t \in Clients :
    call[t].op = "traverse" =>
      IF call[t].position = Null THEN unvisited[t] = {}
      ELSE call[t].position \in unvisited[t]

\* The lists are those of ItemLists.
Abstract == INSTANCE ItemLists WITH items <- [l \in Lists |-> ItemsOf(mem, l)]
ItemListsSpec == Abstract!Spec

\* Concatenations that wait for the locks of each other (two in opposite
\* directions, or one of a list to itself).
Crossed ==
  \E ring \in SUBSET Clients \ {{}} :
    \A t \in ring : call[t].op = "lockSource" /\ lock[call[t].src] \in ring

\* Every lock is held by a call that is going to release it, and one of the
\* calls in progress can go on: only concatenations that cross stop each other,
\* no early return leaves a list locked.
CallsGoOn ==
  /\ \A l \in Lists : ~Free(l) => ~Idle(lock[l])
  /\ \/ \A t \in Clients : Idle(t)
     \/ \E t \in Clients : ~Idle(t) /\ (call[t].op = "lockSource" => Free(call[t].src))
     \/ Crossed
=============================================================================
