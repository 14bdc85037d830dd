------------------------- MODULE RealTimeComplex_proofs -------------------------
(***************************************************************************)
(* CCiThreadRealTimeComplex is a CCiThreadComplex and a CRealTimeFlavor.   *)
(* The first part proves what the complex promises the responder and the   *)
(* children beside it, however many there are, whenever their owners come  *)
(* and go; the second part proves the schedule of its rounds, for any      *)
(* periods, any width of the counter and of usleep's argument, and any     *)
(* changes of the clock; the third part proves about CLinkedListTemplate,  *)
(* of which its list of threads is one, that the pointers of the links     *)
(* always weave the chains of the lists and of their caches, that a        *)
(* traversal comes to every link that stays, that the calls of the clients *)
(* do not wait for each other in a circle, and that the operations on      *)
(* pointers do to the items what the operations on sequences of ItemLists  *)
(* do, for any lists, links, items and clients.                            *)
(***************************************************************************)
EXTENDS ComplexResponder, RealTimePace, LinkedList, SequenceTheorems,
        FiniteSetTheorems, WellFoundedInduction, TLAPS

\* AddItem and DeleteItem on a list that has every item once.
LEMMA AppendNew ==
  ASSUME NEW S, NEW s \in Seq(S), IsInjective(s), NEW c \in S, c \notin Range(s),
         NEW u, u = Append(s, c)
  PROVE  /\ u \in Seq(S) /\ IsInjective(u) /\ Len(u) = Len(s) + 1
         /\ \A x : x \in Range(u) <=> x \in Range(s) \/ x = c
<1>1. /\ Len(s) \in Nat /\ DOMAIN s = 1..Len(s)
      /\ u \in Seq(S) /\ Len(u) = Len(s) + 1 /\ DOMAIN u = 1..(Len(s) + 1)
      /\ \A i \in 1..Len(s) : u[i] = s[i]
      /\ u[Len(s) + 1] = c
  OBVIOUS
<1>2. \A i \in 1..Len(s) : s[i] # c
  BY <1>1 DEF Range
<1>3. IsInjective(u)
  BY <1>1, <1>2 DEF IsInjective
<1>4. ASSUME NEW x PROVE x \in Range(u) <=> x \in Range(s) \/ x = c
  BY <1>1 DEF Range
<1>. QED
  BY <1>1, <1>3, <1>4

\* The list without its item at one position.
IsWithout(u, s, k) ==
  /\ Len(u) = Len(s) - 1 /\ DOMAIN u = 1..(Len(s) - 1)
  /\ \A i \in 1..(Len(s) - 1) : u[i] = IF i < k THEN s[i] ELSE s[i + 1]

\* RemoveAt, position by position.
LEMMA WithoutPosition ==
  ASSUME NEW S, NEW s \in Seq(S), NEW k \in 1..Len(s),
         NEW u, u = RemoveAt(s, k)
  PROVE  u \in Seq(S) /\ IsWithout(u, s, k)
<1> DEFINE front == SubSeq(s, 1, k - 1)
           back  == SubSeq(s, k + 1, Len(s))
<1>1. PICK n \in Nat : n = Len(s) /\ k \in 1..n /\ k - 1 \in Int /\ k + 1 \in Int
  OBVIOUS
<1>2. \A i \in 1..n : s[i] \in S
  BY <1>1
<1>3. /\ front \in Seq(S) /\ Len(front) = k - 1
      /\ \A i \in 1..(k - 1) : front[i] = s[i]
  <2>1. 1 \in Int /\ \A i \in 1..(k - 1) : s[i] \in S
    BY <1>1, <1>2
  <2>2. /\ front \in Seq(S)
        /\ Len(front) = IF 1 <= k - 1 THEN k - 1 - 1 + 1 ELSE 0
        /\ \A i \in 1..(k - 1 - 1 + 1) : front[i] = s[1 + i - 1]
    BY <1>1, <2>1, SubSeqProperties
  <2> HIDE DEF front
  <2>. QED
    BY <1>1, <2>2
<1>4. /\ back \in Seq(S) /\ Len(back) = n - k
      /\ \A i \in 1..(n - k) : back[i] = s[i + k]
  <2>1. n \in Int /\ \A i \in (k + 1)..n : s[i] \in S
    BY <1>1, <1>2
  <2>2. /\ back \in Seq(S)
        /\ Len(back) = IF k + 1 <= n THEN n - (k + 1) + 1 ELSE 0
        /\ \A i \in 1..(n - (k + 1) + 1) : back[i] = s[k + 1 + i - 1]
    BY <1>1, <2>1, SubSeqProperties
  <2> HIDE DEF back
  <2>3. k \in Int /\ n \in Int /\ 1 <= k /\ k <= n
    BY <1>1
  <2>4. n - (k + 1) + 1 = n - k /\ (k + 1 <= n \/ n - k = 0)
    BY <2>3
  <2>5. \A i \in 1..(n - k) : k + 1 + i - 1 = i + k
    BY <2>3
  <2>. QED
    BY <2>2, <2>4, <2>5
<1>5. u = front \o back
  BY DEF front, back, RemoveAt
<1> HIDE DEF front, back
<1>6. /\ u \in Seq(S) /\ Len(u) = Len(front) + Len(back)
      /\ \A i \in 1..(Len(front) + Len(back)) :
           u[i] = IF i <= Len(front) THEN front[i] ELSE back[i - Len(front)]
  <2>1. /\ front \o back \in Seq(S) /\ Len(front \o back) = Len(front) + Len(back)
        /\ \A i \in 1..(Len(front) + Len(back)) :
             (front \o back)[i] = IF i <= Len(front) THEN front[i] ELSE back[i - Len(front)]
    BY <1>3, <1>4, ConcatProperties
  <2>. QED
    BY <1>5, <2>1
<1>7. k - 1 + (n - k) = n - 1
  BY <1>1
<1>8. /\ Len(u) = n - 1
      /\ \A i \in 1..(n - 1) : u[i] = IF i <= k - 1 THEN front[i] ELSE back[i - (k - 1)]
  BY <1>3, <1>4, <1>6, <1>7
<1>9. DOMAIN u = 1..(n - 1)
  <2>1. DOMAIN u = 1..Len(u)
    BY <1>6
  <2>. QED
    BY <1>8, <2>1
<1>10. ASSUME NEW i \in 1..(n - 1)
       PROVE  u[i] = IF i < k THEN s[i] ELSE s[i + 1]
  <2>1. i \in Int /\ k \in Int /\ n \in Int
    BY <1>1
  <2>2. CASE i < k
    <3>1. i <= k - 1 /\ i \in 1..(k - 1)
      BY <2>1, <2>2
    <3>. QED
      BY <1>3, <1>8, <2>2, <3>1
  <2>3. CASE ~(i < k)
    <3>1. /\ ~(i <= k - 1) /\ i - (k - 1) \in 1..(n - k) /\ i - (k - 1) + k = i + 1
      BY <1>1, <2>1, <2>3
    <3>. QED
      BY <1>4, <1>8, <2>3, <3>1
  <2>. QED
    BY <2>2, <2>3
<1>. QED
  BY <1>1, <1>6, <1>8, <1>9, <1>10 DEF IsWithout

\* RemoveFirst on a list that has every item once.
LEMMA RemoveListed ==
  ASSUME NEW S, NEW s \in Seq(S), IsInjective(s), NEW c,
         NEW u, u = RemoveFirst(s, c)
  PROVE  /\ u \in Seq(S) /\ IsInjective(u)
         /\ \A x : x \in Range(u) <=> x \in Range(s) /\ x # c
<1>0. Len(s) \in Nat /\ DOMAIN s = 1..Len(s)
  OBVIOUS
<1>1. CASE ~ \E i \in 1..Len(s) : s[i] = c
  <2>1. u = s
    BY <1>1 DEF RemoveFirst
  <2>2. \A x : x \in Range(s) => x # c
    BY <1>0, <1>1 DEF Range
  <2>. QED
    BY <2>1, <2>2
<1>2. CASE \E i \in 1..Len(s) : s[i] = c
  <2>1. PICK k \in 1..Len(s) : s[k] = c
    BY <1>2
  <2>2. SelectInSeq(s, LAMBDA v : v = c) = k
    <3>1. {i \in 1..Len(s) : s[i] = c} = {k}
      BY <1>0, <2>1 DEF IsInjective
    <3>2. Min({k}) = k
      BY <2>1 DEF Min
    <3>. QED
      BY <3>1, <3>2 DEF SelectInSeq
  <2>3. u = RemoveAt(s, k)
    BY <1>2, <2>2 DEF RemoveFirst
  <2>4. /\ u \in Seq(S) /\ Len(u) = Len(s) - 1 /\ DOMAIN u = 1..(Len(s) - 1)
        /\ \A i \in 1..(Len(s) - 1) : u[i] = IF i < k THEN s[i] ELSE s[i + 1]
    <3>1. u \in Seq(S) /\ IsWithout(u, s, k)
      BY <2>3, WithoutPosition, Zenon
    <3>. QED
      BY <3>1, Zenon DEF IsWithout
  <2>5. IsInjective(u)
    <3> DEFINE old(i) == IF i < k THEN i ELSE i + 1
    <3>1. \A i \in 1..(Len(s) - 1) : old(i) \in 1..Len(s) /\ u[i] = s[old(i)]
      BY <1>0, <2>1, <2>4
    <3>2. \A i, j \in 1..(Len(s) - 1) : old(i) = old(j) => i = j
      BY <1>0, <2>1
    <3> HIDE DEF old
    <3>3. ASSUME NEW i \in 1..(Len(s) - 1), NEW j \in 1..(Len(s) - 1), u[i] = u[j]
          PROVE  i = j
      <4>1. s[old(i)] = s[old(j)] /\ old(i) \in DOMAIN s /\ old(j) \in DOMAIN s
        BY <1>0, <3>1, <3>3, Zenon
      <4>. QED
        BY <3>2, <4>1, Zenon DEF IsInjective
    <3>. QED
      BY <2>4, <3>3, Zenon DEF IsInjective
  <2>6. ASSUME NEW x PROVE x \in Range(u) <=> x \in Range(s) /\ x # c
    <3>1. ASSUME x \in Range(u) PROVE x \in Range(s) /\ x # c
      <4>1. PICK i \in 1..(Len(s) - 1) : x = u[i]
        BY <2>4, <3>1 DEF Range
      <4>2. PICK j \in 1..Len(s) : x = s[j] /\ j # k
        BY <1>0, <2>1, <2>4, <4>1
      <4>. QED
        BY <1>0, <2>1, <4>2 DEF Range, IsInjective
    <3>2. ASSUME x \in Range(s), x # c PROVE x \in Range(u)
      <4>1. PICK j \in 1..Len(s) : x = s[j]
        BY <1>0, <3>2 DEF Range
      <4>2. j # k
        BY <2>1, <3>2, <4>1
      <4>3. \E i \in 1..(Len(s) - 1) : x = u[i]
        <5>1. CASE j < k
          BY <1>0, <2>1, <2>4, <4>1, <5>1
        <5>2. CASE j > k
          <6>1. j - 1 \in 1..(Len(s) - 1) /\ u[j - 1] = s[j]
            BY <1>0, <2>1, <2>4, <5>2
          <6>. QED
            BY <4>1, <6>1
        <5>. QED
          BY <1>0, <4>2, <5>1, <5>2
      <4>. QED
        BY <2>4, <4>3 DEF Range
    <3>. QED
      BY <3>1, <3>2
  <2>. QED
    BY <2>4, <2>5, <2>6
<1>. QED
  BY <1>1, <1>2

\* The complex's list operators are those of its own instance of SequencesExt.
LEMMA SameListOperators ==
  ASSUME NEW s, NEW c
  PROVE  /\ Complex!IsInjective(s) <=> IsInjective(s)
         /\ Complex!RemoveFirst(s, c) = RemoveFirst(s, c)
         /\ Complex!Range(s) = Range(s)
  BY DEF Complex!IsInjective, IsInjective, Complex!RemoveFirst, RemoveFirst,
         Complex!SelectInSeq, SelectInSeq, Complex!RemoveAt, RemoveAt, Complex!Min, Min,
         Complex!Range, Range
-----------------------------------------------------------------------------
(* The complex: its list, its lock and the owners of its children.         *)

Kids == {Responder} \cup Others

\* The complex holds the lock whenever it is inside the list.
LockHeld == locked <=> step \in {"traverse", "call", "exitTraverse", "exitCall"}

\* A child is listed while its owner has it in the complex; the sample deletes
\* the responder only after it has ended its complexing.
ListedIsOwned ==
  /\ \A c \in Others : Complex!Listed(c) <=> owner[c] = "in"
  /\ owner[Responder] = "in" => Complex!Listed(Responder)
  /\ Complex!Listed(Responder) => owner[Responder] \in {"in", "deleted"}
  /\ owner[Responder] = "deleted" => step = "done"

\* m_semExit is free exactly while the child is not prepared.
SemaphoreTaken ==
  /\ \A c \in Others : childSem[c] = 1 <=> owner[c] = "out"
  /\ childSem[Responder] = 1 <=> owner[Responder] \in {"out", "deleted"}

\* The traversal is at a child, and ExitInstance has ended those before it.
AtChild ==
  /\ cursor # 0
  /\ Complex!Calling => cursor <= Len(ciThreads)
  /\ step \in {"exitTraverse", "exitCall"} =>
       \A i \in 1..Len(ciThreads) : i < cursor => Complex!Done(ciThreads[i])

ComplexInv == TypeOK /\ LockHeld /\ ListedIsOwned /\ SemaphoreTaken /\ AtChild

\* Both readings of the list's type, for the lemmas about lists.
LEMMA ListType ==
  ASSUME ComplexInv
  PROVE  /\ ciThreads \in Seq(Kids) /\ IsInjective(ciThreads)
         /\ Len(ciThreads) \in Nat
         /\ \A i \in 1..Len(ciThreads) : ciThreads[i] \in Kids /\ ciThreads[i] \in Range(ciThreads)
         /\ \A c : c \in Range(ciThreads) => \E i \in 1..Len(ciThreads) : c = ciThreads[i]
         /\ \A c : Complex!Listed(c) <=> c \in Range(ciThreads)
<1>1. ciThreads \in Seq(Kids) /\ IsInjective(ciThreads)
  BY SameListOperators DEF ComplexInv, TypeOK, Complex!TypeOK, Kids
<1>2. \A c : Complex!Listed(c) <=> c \in Range(ciThreads)
  BY SameListOperators DEF Complex!Listed
<1>. QED
  BY <1>1, <1>2 DEF Range

\* The initial states.
LEMMA InitComplexInv == Init => ComplexInv
<1> SUFFICES ASSUME Init PROVE ComplexInv
  OBVIOUS
<1> USE DEF Init, Complex!Init
<1>1. TypeOK
  <2>1. ciThreads \in Seq({Responder} \cup Others) /\ Complex!IsInjective(ciThreads)
    BY DEF Complex!IsInjective
  <2>2. /\ childState \in [{Responder} \cup Others -> Complex!ChildStates]
        /\ childExit \in [{Responder} \cup Others -> BOOLEAN]
        /\ childSem \in [{Responder} \cup Others -> {0, 1}]
        /\ owner \in [{Responder} \cup Others -> {"out", "prepared", "in", "deleted"}]
    BY DEF Complex!ChildStates
  <2>3. queued \in 0..MaxQueue /\ ~(queued > 0)
    BY ComplexConstants DEF Init
  <2>4. hbExit \in BOOLEAN /\ bound \in BOOLEAN
    OBVIOUS
  <2>. QED
    BY <2>1, <2>2, <2>3, <2>4 DEF TypeOK, Complex!TypeOK
<1>2. \A c : ~Complex!Listed(c)
  BY DEF Complex!Listed, Complex!Range
<1>3. LockHeld /\ SemaphoreTaken /\ AtChild
  BY DEF LockHeld, SemaphoreTaken, AtChild, Complex!Calling
<1>4. ListedIsOwned
  BY <1>2 DEF ListedIsOwned
<1>. QED
  BY <1>1, <1>3, <1>4 DEF ComplexInv
-----------------------------------------------------------------------------
(* The owners: the sample, and the owners of the other children.           *)

\* The variables' ranges, over the children of this complex.
InRange ==
  /\ ciThreads \in Seq(Kids) /\ IsInjective(ciThreads)
  /\ locked \in BOOLEAN /\ complexExit \in BOOLEAN
  /\ step \in {"idle", "sleep", "traverse", "call", "exitTraverse", "exitCall", "done"}
  /\ cursor \in Nat
  /\ childState \in [Kids -> Complex!ChildStates]
  /\ childExit \in [Kids -> BOOLEAN]
  /\ childSem \in [Kids -> {0, 1}]
  /\ owner \in [Kids -> {"out", "prepared", "in", "deleted"}]
  /\ hbExit \in BOOLEAN /\ bound \in BOOLEAN
  /\ queued \in 0..MaxQueue /\ (queued > 0 => bound)

\* TypeOK, with the ranges written out.
LEMMA Ranges == (TypeOK <=> InRange) /\ (TypeOK' <=> InRange')
  BY SameListOperators, Zenon DEF TypeOK, Complex!TypeOK, Kids, InRange

\* PrepareComplexing works on a child that is not listed.
LEMMA PrepareStep ==
  ASSUME ComplexInv, NEW c \in Kids, Complex!PrepareComplexing(c), UNCHANGED socketVars
  PROVE  ComplexInv'
<1> USE DEF ComplexInv, Complex!PrepareComplexing, Complex!complexVars, socketVars
<1>1. c \notin Range(ciThreads)
  BY ListType DEF ListedIsOwned, Kids
<1>2. TypeOK'
  BY Ranges DEF InRange, Complex!ChildStates
<1>3. LockHeld'
  BY DEF LockHeld
<1>4. ListedIsOwned'
  BY ListType, Ranges, <1>1 DEF InRange, ListedIsOwned, Complex!Listed, Kids
<1>5. SemaphoreTaken'
  BY Ranges DEF InRange, SemaphoreTaken, Kids
<1>6. AtChild'
  BY ListType, Ranges, <1>1 DEF InRange, AtChild, Complex!Calling, Complex!Done
<1>. QED
  BY <1>2, <1>3, <1>4, <1>5, <1>6

\* Who is listed after a step.
LEMMA ListedNext == \A c : Complex!Listed(c)' <=> c \in Range(ciThreads')
  BY SameListOperators DEF Complex!Listed

\* AddCiThread waits until the complex has left the list.
LEMMA AddStep ==
  ASSUME ComplexInv, NEW c \in Kids, Complex!AddCiThread(c), UNCHANGED socketVars
  PROVE  ComplexInv'
<1> USE DEF ComplexInv, Complex!AddCiThread, socketVars
<1>1. ~Complex!Calling /\ step \notin {"exitTraverse", "exitCall"}
  BY DEF LockHeld, Complex!Calling
<1>2. c \notin Range(ciThreads)
  BY ListType DEF ListedIsOwned, Kids
<1>3. /\ ciThreads' \in Seq(Kids) /\ IsInjective(ciThreads')
      /\ \A x : x \in Range(ciThreads') <=> x \in Range(ciThreads) \/ x = c
  <2>1. ciThreads' = Append(ciThreads, c)
    BY ListType, <1>2
  <2>. QED
    BY ListType, AppendNew, <1>2, <2>1
<1>4. TypeOK'
  BY Ranges, <1>3 DEF InRange
<1>5. LockHeld'
  BY DEF LockHeld
<1>6. ListedIsOwned'
  BY ListType, ListedNext, Ranges, <1>3, ComplexConstants DEF InRange, ListedIsOwned, Kids
<1>7. SemaphoreTaken'
  BY Ranges DEF InRange, SemaphoreTaken, Kids
<1>8. AtChild'
  BY <1>1 DEF AtChild, Complex!Calling
<1>. QED
  BY <1>4, <1>5, <1>6, <1>7, <1>8

\* EndThread only sets the child's exit flag.
LEMMA EndChildStep ==
  ASSUME ComplexInv, NEW c \in Kids, Complex!EndChild(c), UNCHANGED socketVars
  PROVE  ComplexInv'
<1> USE DEF ComplexInv, Complex!EndChild, Complex!complexVars, socketVars
<1>1. TypeOK'
  BY Ranges DEF InRange
<1>2. LockHeld' /\ SemaphoreTaken'
  BY DEF LockHeld, SemaphoreTaken
<1>3. ListedIsOwned'
  BY DEF ListedIsOwned, Complex!Listed
<1>4. AtChild'
  BY DEF AtChild, Complex!Calling, Complex!Done
<1>. QED
  BY <1>1, <1>2, <1>3, <1>4

\* DeleteCiThread of another child waits for the lock as AddCiThread does.
LEMMA DeleteStep ==
  ASSUME ComplexInv, NEW c \in Others, Complex!DeleteCiThread(c), UNCHANGED socketVars
  PROVE  ComplexInv'
<1> USE DEF ComplexInv, Complex!DeleteCiThread, socketVars
<1>1. ~Complex!Calling /\ step \notin {"exitTraverse", "exitCall"}
  BY DEF LockHeld, Complex!Calling
<1>2. /\ ciThreads' \in Seq(Kids) /\ IsInjective(ciThreads')
      /\ \A x : x \in Range(ciThreads') <=> x \in Range(ciThreads) /\ x # c
  BY ListType, RemoveListed, SameListOperators
<1>3. TypeOK'
  BY Ranges, <1>2 DEF InRange
<1>4. LockHeld'
  BY DEF LockHeld
<1>5. ListedIsOwned'
  BY ListType, ListedNext, Ranges, <1>2, ComplexConstants DEF InRange, ListedIsOwned, Kids
<1>6. SemaphoreTaken'
  BY Ranges, ComplexConstants DEF InRange, SemaphoreTaken, Kids
<1>7. AtChild'
  BY <1>1 DEF AtChild, Complex!Calling
<1>. QED
  BY <1>3, <1>4, <1>5, <1>6, <1>7

\* EndComplexing gives the semaphore back: it was taken.
LEMMA EndComplexingStep ==
  ASSUME ComplexInv, NEW c \in Others, Complex!EndComplexing(c), UNCHANGED socketVars
  PROVE  ComplexInv'
<1> USE DEF ComplexInv, Complex!EndComplexing, Complex!complexVars, socketVars
<1>1. c \in Kids /\ c # Responder /\ childSem[c] = 0
  BY Ranges, ComplexConstants DEF InRange, SemaphoreTaken, Kids
<1>2. childSem' = [childSem EXCEPT ![c] = 1]
  BY <1>1
<1>3. TypeOK'
  BY Ranges, <1>1, <1>2 DEF InRange
<1>4. LockHeld'
  BY DEF LockHeld
<1>5. ListedIsOwned'
  BY ListType, ListedNext, Ranges, <1>1 DEF InRange, ListedIsOwned, Kids
<1>6. SemaphoreTaken'
  BY Ranges, <1>1, <1>2 DEF InRange, SemaphoreTaken, Kids
<1>7. AtChild'
  BY DEF AtChild, Complex!Calling, Complex!Done
<1>. QED
  BY <1>3, <1>4, <1>5, <1>6, <1>7

\* The sample's destructor, once the complex has returned.
LEMMA DestructorStep ==
  ASSUME ComplexInv, EndComplexing \/ DeleteCiThread
  PROVE  ComplexInv'
<1> USE DEF ComplexInv, complexVars, childVars, socketVars
<1>1. Responder \in Kids /\ Responder \notin Others
  BY ComplexConstants DEF Kids
<1>2. CASE EndComplexing
  <2> USE <1>2 DEF EndComplexing
  <2>1. childSem' = [childSem EXCEPT ![Responder] = 1]
    <3>1. childSem[Responder] = 0
      BY Ranges, <1>1 DEF InRange, SemaphoreTaken
    <3>. QED
      BY <3>1
  <2>2. TypeOK'
    BY Ranges, <1>1, <2>1 DEF InRange
  <2>3. LockHeld'
    BY DEF LockHeld
  <2>4. ListedIsOwned'
    BY ListType, ListedNext, Ranges, <1>1 DEF InRange, ListedIsOwned, Kids
  <2>5. SemaphoreTaken'
    BY Ranges, <1>1, <2>1 DEF InRange, SemaphoreTaken, Kids
  <2>6. AtChild'
    BY DEF AtChild, Complex!Calling, Complex!Done
  <2>. QED
    BY <2>2, <2>3, <2>4, <2>5, <2>6
<1>3. CASE DeleteCiThread
  <2> USE <1>3 DEF DeleteCiThread
  <2>1. step = "done"
    BY DEF ListedIsOwned
  <2>2. /\ ciThreads' \in Seq(Kids) /\ IsInjective(ciThreads')
        /\ \A x : x \in Range(ciThreads') <=> x \in Range(ciThreads) /\ x # Responder
    BY ListType, RemoveListed
  <2>3. TypeOK'
    BY Ranges, <2>2 DEF InRange
  <2>4. LockHeld'
    BY DEF LockHeld
  <2>5. ListedIsOwned'
    BY ListType, ListedNext, Ranges, <1>1, <2>1, <2>2 DEF InRange, ListedIsOwned, Kids
  <2>6. SemaphoreTaken'
    BY DEF SemaphoreTaken
  <2>7. AtChild'
    BY <2>1 DEF AtChild, Complex!Calling
  <2>. QED
    BY <2>3, <2>4, <2>5, <2>6, <2>7
<1>. QED
  BY <1>2, <1>3
-----------------------------------------------------------------------------
(* The thread of the complex.                                              *)

\* Taking the lock starts a traversal, giving it back ends one; in between the
\* thread goes from child to child.
LEMMA ThreadStep ==
  ASSUME ComplexInv, ComplexStep
  PROVE  ComplexInv'
<1> USE DEF ComplexInv, ComplexStep, Complex!childVars, socketVars
<1>. SUFFICES TypeOK' /\ LockHeld' /\ AtChild'
  <2>1. /\ UNCHANGED <<ciThreads, owner, childSem>>
        /\ owner[Responder] = "in"
    BY DEF Complex!EnterRun, Complex!LockForRun, Complex!CallChild, Complex!UnlockRun,
           Complex!LockForExit, Complex!ExitChild, Complex!UnlockExit
  <2>2. ListedIsOwned'
    BY <2>1 DEF ListedIsOwned, Complex!Listed
  <2>3. SemaphoreTaken'
    BY <2>1 DEF SemaphoreTaken
  <2>. QED
    BY <2>2, <2>3
<1>1. CASE Complex!EnterRun
  BY <1>1, Ranges DEF Complex!EnterRun, InRange, LockHeld, AtChild, Complex!Calling
<1>2. CASE Complex!LockForRun
  BY <1>2, Ranges DEF Complex!LockForRun, InRange, LockHeld, AtChild, Complex!Calling
<1>3. CASE Complex!CallChild
  BY <1>3, Ranges DEF Complex!CallChild, InRange, LockHeld, AtChild, Complex!Calling
<1>4. CASE Complex!UnlockRun
  BY <1>4, Ranges DEF Complex!UnlockRun, InRange, LockHeld, AtChild, Complex!Calling
<1>5. CASE Complex!LockForExit
  <2>1. TypeOK' /\ LockHeld'
    BY <1>5, Ranges DEF Complex!LockForExit, InRange, LockHeld
  <2>2. \A i \in 1..Len(ciThreads) : ~(i < 1)
    BY ListType
  <2>3. AtChild'
    BY <1>5, <2>2 DEF Complex!LockForExit, AtChild, Complex!Calling
  <2>. QED
    BY <2>1, <2>3
<1>6. CASE Complex!ExitChild
  <2> USE <1>6 DEF Complex!ExitChild
  <2>1. TypeOK'
    BY Ranges, ListType DEF InRange, AtChild
  <2>2. LockHeld'
    BY DEF LockHeld
  <2>3. AtChild'
    BY DEF AtChild, Complex!Calling, Complex!Done
  <2>. QED
    BY <2>1, <2>2, <2>3
<1>7. CASE Complex!UnlockExit
  BY <1>7, Ranges DEF Complex!UnlockExit, InRange, LockHeld, AtChild, Complex!Calling
<1>. QED
  BY <1>1, <1>2, <1>3, <1>4, <1>5, <1>6, <1>7

\* A ThreadProc leads from a state between two calls to another, and leaves a
\* child that is done done.
LEMMA ThreadProcKeeps ==
  ASSUME childState \in [Kids -> Complex!ChildStates], NEW c \in Kids, NEW exit,
         NEW initOK, NEW runOK, Complex!ThreadProc(c, exit, initOK, runOK)
  PROVE  /\ childState' \in [Kids -> Complex!ChildStates]
         /\ \A d \in Kids : Complex!Done(d) => Complex!Done(d)'
  BY DEF Complex!ThreadProc, Complex!ChildStates, Complex!Done

\* What the responder's socket calls do to its state, whichever they are.
LEMMA SocketKeeps ==
  ASSUME bound \in BOOLEAN, queued \in 0..MaxQueue, queued > 0 => bound,
         NEW initOK, SocketEffect(initOK) \/ UNCHANGED <<bound, queued>>
  PROVE  bound' \in BOOLEAN /\ queued' \in 0..MaxQueue /\ (queued' > 0 => bound')
<1>1. 0 \in 0..MaxQueue /\ ~(0 > 0)
  BY ComplexConstants
<1>2. CASE bound' \in BOOLEAN /\ queued' = 0
  BY <1>1, <1>2
<1>3. CASE Serve /\ UNCHANGED bound
  <2>1. queued' \in 0..MaxQueue /\ (queued' > 0 => queued > 0)
    BY <1>3, ComplexConstants DEF Serve
  <2>. QED
    BY <1>3, <2>1
<1>4. CASE UNCHANGED <<bound, queued>>
  BY <1>4
<1>. QED
  BY <1>2, <1>3, <1>4 DEF SocketEffect

\* A call returns: the children that ExitInstance has passed stay done.
LEMMA ReturnStep ==
  ASSUME ComplexInv, CallReturns
  PROVE  ComplexInv'
<1> USE DEF ComplexInv
<1>1. PICK initOK, runOK \in BOOLEAN :
        /\ Complex!ReturnChild(initOK, runOK) \/ Complex!ExitProc(initOK, runOK)
        /\ SocketEffect(initOK) \/ UNCHANGED <<bound, queued>>
        /\ UNCHANGED hbExit
  BY Zenon DEF CallReturns
<1>2. /\ Complex!Calling /\ step # "done"
      /\ cursor \in 1..Len(ciThreads) /\ ciThreads[cursor] \in Kids
  <2>1. Complex!Calling /\ step # "done"
    BY <1>1 DEF Complex!ReturnChild, Complex!ExitProc, Complex!Calling
  <2>. QED
    BY <2>1, Ranges, ListType DEF InRange, AtChild
<1>3. /\ UNCHANGED <<ciThreads, locked, complexExit, childExit, childSem, owner>>
      /\ step' \in {"traverse", "exitTraverse", "exitCall"} /\ cursor' \in {cursor, cursor + 1}
  BY <1>1 DEF Complex!ReturnChild, Complex!ExitProc
<1>4. /\ childState' \in [Kids -> Complex!ChildStates]
      /\ \A d \in Kids : Complex!Done(d) => Complex!Done(d)'
  <2>1. UNCHANGED childState \/ \E exit :
          Complex!ThreadProc(ciThreads[cursor], exit, initOK, runOK)
    BY <1>1, Zenon DEF Complex!ReturnChild, Complex!ExitProc
  <2>2. CASE UNCHANGED childState
    BY <2>2, Ranges DEF InRange, Complex!Done
  <2>. QED
    BY <2>1, <2>2, <1>2, Ranges, ThreadProcKeeps DEF InRange
<1>5. TypeOK'
  <2>1. bound' \in BOOLEAN /\ queued' \in 0..MaxQueue /\ (queued' > 0 => bound')
    BY <1>1, Ranges, SocketKeeps DEF InRange
  <2>2. cursor' \in Nat
    BY <1>3, Ranges DEF InRange
  <2>. QED
    BY <1>1, <1>3, <1>4, <2>1, <2>2, Ranges DEF InRange
<1>6. LockHeld'
  BY <1>1, <1>3 DEF LockHeld, Complex!ReturnChild, Complex!ExitProc
<1>7. ListedIsOwned'
  BY <1>2, <1>3 DEF ListedIsOwned, Complex!Listed
<1>8. SemaphoreTaken'
  BY <1>3 DEF SemaphoreTaken
<1>9. AtChild'
  <2>1. CASE Complex!ReturnChild(initOK, runOK)
    BY <2>1, Ranges DEF InRange, AtChild, Complex!ReturnChild, Complex!Calling
  <2>2. CASE Complex!ExitProc(initOK, runOK)
    <3>1. \A i \in 1..Len(ciThreads) :
            i < cursor => Complex!Done(ciThreads[i]) /\ Complex!Done(ciThreads[i])'
      BY <1>4, <2>2, ListType DEF AtChild, Complex!ExitProc
    <3>2. CASE Complex!Done(ciThreads[cursor])
      <4>1. \A i \in 1..Len(ciThreads) : i < cursor + 1 => Complex!Done(ciThreads[i])'
        <5>1. \A i \in 1..Len(ciThreads) : i < cursor + 1 => i < cursor \/ i = cursor
          BY <1>2, ListType
        <5>2. cursor' = cursor + 1 /\ UNCHANGED childState
          BY <2>2, <3>2 DEF Complex!ExitProc
        <5>. QED
          BY <1>3, <3>1, <3>2, <5>1, <5>2 DEF Complex!Done
      <4>. QED
        BY <1>2, <1>3, <2>2, <3>2, <4>1 DEF AtChild, Complex!ExitProc, Complex!Calling, Complex!Done
    <3>3. CASE ~Complex!Done(ciThreads[cursor])
      BY <1>2, <1>3, <2>2, <3>1, <3>3 DEF AtChild, Complex!ExitProc, Complex!Calling, Complex!Done
    <3>. QED
      BY <3>2, <3>3
  <2>. QED
    BY <1>1, <2>1, <2>2
<1>. QED
  BY <1>5, <1>6, <1>7, <1>8, <1>9

\* Every step keeps the invariant.
LEMMA StepComplexInv ==
  ComplexInv /\ [Next]_vars => ComplexInv'
<1> SUFFICES ASSUME ComplexInv, [Next]_vars PROVE ComplexInv'
  OBVIOUS
<1>1. CASE Construct
  BY <1>1, PrepareStep, AddStep DEF Construct, Kids
<1>2. CASE EndComplexing \/ DeleteCiThread
  BY <1>2, DestructorStep
<1>3. CASE End
  <2>1. CASE Complex!EndChild(Responder) /\ UNCHANGED socketVars
    BY <2>1, EndChildStep DEF Kids
  <2>2. CASE Complex!EndComplex /\ UNCHANGED socketVars
    <3> USE <2>2 DEF ComplexInv, Complex!EndComplex, Complex!childVars, socketVars
    <3>1. TypeOK'
      BY Ranges DEF InRange
    <3>2. LockHeld' /\ SemaphoreTaken'
      BY DEF LockHeld, SemaphoreTaken
    <3>3. ListedIsOwned' /\ AtChild'
      BY DEF ListedIsOwned, AtChild, Complex!Listed, Complex!Calling, Complex!Done
    <3>. QED
      BY <3>1, <3>2, <3>3
  <2>. QED
    BY <1>3, <2>1, <2>2 DEF End
<1>4. ASSUME NEW c \in Others, OtherOwner(c) PROVE ComplexInv'
  BY <1>4, PrepareStep, AddStep, EndChildStep, DeleteStep, EndComplexingStep
     DEF OtherOwner, Complex!Owner, Kids
<1>5. CASE ComplexStep
  BY <1>5, ThreadStep
<1>6. CASE CallReturns
  BY <1>6, ReturnStep
<1>7. CASE Arrive \/ UNCHANGED vars
  <2>1. UNCHANGED <<complexVars, childVars, hbExit>>
    BY <1>7 DEF Arrive, vars, socketVars
  <2>2. bound' = bound /\ queued' \in 0..MaxQueue /\ (queued' > 0 => bound)
    BY <1>7, Ranges, ComplexConstants DEF ComplexInv, InRange, Arrive, vars, socketVars
  <2> USE <2>1 DEF ComplexInv, complexVars, childVars
  <2>3. TypeOK'
    BY <2>2, Ranges DEF InRange
  <2>4. LockHeld' /\ SemaphoreTaken'
    BY DEF LockHeld, SemaphoreTaken
  <2>5. ListedIsOwned' /\ AtChild'
    BY DEF ListedIsOwned, AtChild, Complex!Listed, Complex!Calling, Complex!Done
  <2>. QED
    BY <2>3, <2>4, <2>5
<1>. QED
  BY <1>1, <1>2, <1>3, <1>4, <1>5, <1>6, <1>7 DEF Next

\* The inductive invariant holds in every state of the sample's complex.
THEOREM ComplexInvariant == Spec => []ComplexInv
<1>. QED
  BY InitComplexInv, StepComplexInv, PTL DEF Spec

\* Once SafeDeleteItem has returned, the complex does not call the child any
\* more: the thread of the complex is at a listed child, which its owner has
\* not taken back, and the list changes only while the complex is outside.
THEOREM ComplexAlwaysConsistent == Spec => []ComplexConsistent
<1>1. ComplexInv => ComplexConsistent
  <2> SUFFICES ASSUME ComplexInv PROVE Complex!CalledChildIsOwned
    BY DEF ComplexInv, ComplexConsistent
  <2> SUFFICES ASSUME Complex!Calling
               PROVE  /\ cursor <= Len(ciThreads)
                      /\ owner[ciThreads[cursor]] = "in"
                      /\ childSem[ciThreads[cursor]] = 0
    BY DEF Complex!CalledChildIsOwned
  <2>1. /\ cursor <= Len(ciThreads)
        /\ ciThreads[cursor] \in Kids /\ Complex!Listed(ciThreads[cursor])
    BY Ranges, ListType DEF ComplexInv, InRange, AtChild
  <2>2. owner[ciThreads[cursor]] = "in"
    BY <2>1 DEF ComplexInv, ListedIsOwned, Kids, Complex!Calling
  <2>3. childSem[ciThreads[cursor]] = 0
    BY <2>1, <2>2, Ranges DEF ComplexInv, InRange, SemaphoreTaken, Kids
  <2>. QED
    BY <2>1, <2>2, <2>3
<1>. QED
  BY <1>1, ComplexInvariant, PTL

\* ExitInstance of the complex leaves no listed child that is not done, also
\* when children are added and deleted, or end by themselves, meanwhile.
THEOREM ExitAlwaysEndsChildren == Spec => ExitEndsChildren
<1>1. ASSUME ComplexInv, [Next]_vars, step' = "done", step # "done",
             NEW c \in {Responder} \cup Others, Complex!Listed(c)
      PROVE  Complex!Done(c)
  <2>1. Complex!UnlockExit
    BY <1>1 DEF Next, vars, complexVars, childVars, Construct, EndComplexing,
       DeleteCiThread, End, OtherOwner, ComplexStep, CallReturns, Arrive,
       Complex!PrepareComplexing, Complex!AddCiThread, Complex!EndChild,
       Complex!DeleteCiThread, Complex!EndComplexing, Complex!Owner, Complex!EndComplex,
       Complex!EnterRun, Complex!LockForRun, Complex!CallChild, Complex!ReturnChild,
       Complex!UnlockRun, Complex!LockForExit, Complex!ExitChild, Complex!ExitProc,
       Complex!complexVars, Complex!childVars
  <2>2. PICK i \in 1..Len(ciThreads) : c = ciThreads[i]
    BY <1>1, ListType
  <2>3. i < cursor
    BY <1>1, <2>1, Ranges, ListType DEF ComplexInv, InRange, Complex!UnlockExit
  <2>. QED
    BY <1>1, <2>1, <2>2, <2>3 DEF ComplexInv, AtChild, Complex!UnlockExit
<1>2. ComplexInv /\ [Next]_vars =>
        [step' = "done" /\ step # "done" =>
           \A c \in {Responder} \cup Others : Complex!Listed(c) => Complex!Done(c)]_step
  BY <1>1
<1>. QED
  BY <1>2, ComplexInvariant, PTL DEF Spec, ExitEndsChildren, Complex!ExitEndsChildren

-----------------------------------------------------------------------------
(* The pace of the rounds.                                                 *)

\* The product of the next round.
LEMMA NextProduct ==
  ASSUME NEW p \in Nat, NEW c \in Int
  PROVE  p * (c + 1) = p * c + p
  BY SMT

\* The products of the rounds before it fit if that of a round does.
LEMMA ProductGrows ==
  ASSUME NEW p \in Nat, NEW c \in Nat
  PROVE  p * c \in Nat /\ p * c <= p * (c + 1)
  BY SMT

\* What msleep is asked for: a natural number, and a pace that fits as it is.
LEMMA MSleepResult ==
  ASSUME NEW pace \in Int
  PROVE  /\ MSleep(pace) \in Nat
         /\ pace < 0 => MSleep(pace) = 0
         /\ pace \in 0..(SleepLimit - 1) => MSleep(pace) = pace
<1>1. SleepLimit \in Nat \ {0}
  BY PaceConstants
<1>2. pace % SleepLimit \in Nat
  BY <1>1, SMT
<1> QED
  BY <1>1, <1>2, SMT DEF MSleep

\* The arithmetic of the product: if it fits, it is exact.
LEMMA ProductsResult ==
  ASSUME period \in Nat, counter \in Nat, NEW product \in Products
  PROVE  /\ product \in Int
         /\ period * counter <= LongMax => product = period * counter
<1>1. period * counter \in Nat
  BY ProductGrows
<1>2. (-LongMax)..LongMax \subseteq Int
  BY PaceConstants, SMT
<1> QED
  BY <1>1, <1>2, SMT DEF Products
-----------------------------------------------------------------------------
\* The conditions under which the schedule is the code's: Regular, with the
\* setting left out.
Fits == period * counter <= LongMax /\ period < SleepLimit

\* What holds before and inside each stage of Run.
Schedule ==
  disturbed = "no" /\ setting = "none" =>
    /\ stage = "loaded" => loaded = counter
    /\ Fits =>
         /\ stage \in {"idle", "loaded", "round"} => elapsed >= period * counter
         /\ stage = "counted" => elapsed >= period * counter - period
         /\ stage = "sleeping" => elapsed + sleep >= period * counter

\* A base time that was just stored: the counter is still to be reset.
FreshBase == disturbed = "no" /\ setting = "counter" => elapsed >= 0

PaceInv == PaceTypeOK /\ Schedule /\ FreshBase

\* The initial states.
LEMMA InitPaceInv == PaceInit => PaceInv
<1> SUFFICES ASSUME PaceInit PROVE PaceInv
  OBVIOUS
<1>1. PaceTypeOK
  BY PaceConstants, SMT DEF PaceInit, PaceTypeOK, Steps
<1>2. Schedule /\ FreshBase
  BY SMT DEF PaceInit, Schedule, FreshBase
<1> QED
  BY <1>1, <1>2 DEF PaceInv

\* Every step keeps the invariant.
LEMMA StepPaceInv == PaceInv /\ [PaceNext]_paceVars => PaceInv'
<1> SUFFICES ASSUME PaceInv, [PaceNext]_paceVars PROVE PaceInv'
  OBVIOUS
<1> USE PaceConstants DEF PaceInv, PaceTypeOK, Steps
<1>p. /\ period * counter \in Nat
      /\ period * (counter + 1) = period * counter + period
      /\ period * 0 = 0
  BY NextProduct, ProductGrows
<1>1. CASE BeginRun
  <2>1. CASE counter = LongMax
    <3>1. period' * counter' = 0
      BY <1>1, <2>1, <1>p DEF BeginRun
    <3> QED
      BY <1>1, <2>1, <3>1 DEF BeginRun, Schedule, FreshBase, Fits
  <2>2. CASE counter # LongMax
    BY <1>1, <2>2 DEF BeginRun, Schedule, FreshBase, Fits
  <2> QED
    BY <2>1, <2>2
<1>2. CASE Count
  <2>1. PaceTypeOK' /\ FreshBase'
    BY <1>2 DEF Count, FreshBase
  <2>2. ASSUME disturbed' = "no", setting' = "none", Fits'
        PROVE  elapsed' >= period' * counter' - period'
    <3>1. loaded = counter
      BY <1>2, <2>2 DEF Count, Schedule
    <3>2. period' * counter' = period * counter + period
      BY <1>2, <1>p, <3>1 DEF Count
    <3>3. Fits
      BY <1>2, <1>p, <2>2, <3>2 DEF Count, Fits
    <3> QED
      BY <1>2, <1>p, <2>2, <3>2, <3>3 DEF Count, Schedule
  <2> QED
    BY <1>2, <2>1, <2>2 DEF Count, Schedule
<1>3. CASE Sleep
  <2>1. PICK product \in Products : sleep' = MSleep(product - elapsed)
    BY <1>3 DEF Sleep
  <2>2. product \in Int /\ (period * counter <= LongMax => product = period * counter)
    BY ProductsResult
  <2>3. sleep' \in Nat
    BY <2>1, <2>2, MSleepResult
  <2>4. PaceTypeOK' /\ FreshBase'
    BY <1>3, <2>3 DEF Sleep, FreshBase
  <2>5. ASSUME disturbed' = "no", setting' = "none", Fits'
        PROVE  elapsed' + sleep' >= period' * counter'
    <3>1. elapsed >= period * counter - period /\ product = period * counter
          /\ period < SleepLimit
      BY <1>3, <2>2, <2>5 DEF Sleep, Schedule, Fits
    <3>2. CASE product - elapsed < 0
      BY <1>3, <1>p, <2>1, <2>2, <3>1, <3>2, MSleepResult DEF Sleep
    <3>3. CASE product - elapsed >= 0
      <4>1. product - elapsed \in 0..(SleepLimit - 1)
        BY <1>p, <2>2, <3>1, <3>3
      <4>2. sleep' = product - elapsed
        BY <2>1, <2>2, <4>1, MSleepResult
      <4> QED
        BY <1>3, <1>p, <3>1, <4>2 DEF Sleep
    <3> QED
      BY <2>2, <3>2, <3>3
  <2> QED
    BY <1>3, <2>4, <2>5 DEF Sleep, Schedule
<1>4. CASE Wake
  BY <1>4, <1>p DEF Wake, Schedule, FreshBase, Fits
<1>5. CASE EndRun
  BY <1>5 DEF EndRun, Schedule, FreshBase, Fits
<1>6. CASE \E p \in Periods : SetPeriod(p)
  BY <1>6 DEF SetPeriod, Schedule, FreshBase
<1>7. CASE SetBase
  BY <1>7 DEF SetBase, Schedule, FreshBase
<1>8. CASE ResetCounter
  <2>1. period' * counter' = 0 /\ period' = period
    BY <1>8, <1>p DEF ResetCounter
  <2> QED
    BY <1>8, <2>1 DEF ResetCounter, Schedule, FreshBase
<1>9. CASE Tick
  BY <1>9, <1>p DEF Tick, Schedule, FreshBase, Fits
<1>10. CASE \E jump \in Jumps : SetClock(jump) \/ SetClock(-jump)
  <2>1. PICK jump \in Int : SetClock(jump)
    BY <1>10
  <2> QED
    BY <2>1, <1>p DEF SetClock, Schedule, FreshBase, Fits
<1>11. CASE UNCHANGED paceVars
  BY <1>11 DEF paceVars, Schedule, FreshBase, Fits
<1> QED
  BY <1>1, <1>2, <1>3, <1>4, <1>5, <1>6, <1>7, <1>8, <1>9, <1>10, <1>11 DEF PaceNext
-----------------------------------------------------------------------------
\* The inductive invariant holds for every width of the integers.
THEOREM ScheduleInvariant == PaceSpec => []PaceInv
  BY InitPaceInv, StepPaceInv, PTL DEF PaceSpec

\* No round of the complex starts before its period (Run of
\* CCiThreadRealTimeComplex), for every period, clock and interleaving with
\* SetPeriodMillieSec that OnSchedule admits.
THEOREM AlwaysOnSchedule == PaceSpec => []OnSchedule
<1>1. PaceInv => OnSchedule
  BY DEF PaceInv, OnSchedule, Schedule, Fits, Regular, GetPeriodStartTime
<1> QED
  BY <1>1, ScheduleInvariant, PTL

\* A late thread does not sleep and the others sleep to the start of their
\* period, at most one period (the clipping in Run and msleep).
THEOREM SleepAlwaysBounded == PaceSpec => SleepBounded
<1> DEFINE Bound == stage = "counted" /\ stage' = "sleeping" /\ Regular =>
                      /\ sleep' <= period
                      /\ elapsed >= GetPeriodStartTime => sleep' = 0
                      /\ sleep' > 0 => elapsed + sleep' + period = GetPeriodEndTime
<1>1. ASSUME PaceInv, [PaceNext]_paceVars PROVE [Bound]_paceVars
  <2> SUFFICES ASSUME stage = "counted", stage' = "sleeping", Regular
               PROVE  /\ sleep' <= period
                      /\ elapsed >= GetPeriodStartTime => sleep' = 0
                      /\ sleep' > 0 => elapsed + sleep' + period = GetPeriodEndTime
    OBVIOUS
  <2>1. Sleep
    BY <1>1 DEF PaceNext, paceVars, BeginRun, Count, Wake, EndRun, SetPeriod, SetBase,
                ResetCounter, Tick, SetClock
  <2>2. PICK product \in Products : sleep' = MSleep(product - elapsed)
    BY <2>1 DEF Sleep
  <2>3. /\ period \in Nat /\ counter \in Nat /\ elapsed \in Int
        /\ elapsed >= period * counter - period /\ period < SleepLimit
        /\ period * counter <= LongMax
    BY <1>1, PaceConstants DEF PaceInv, PaceTypeOK, Schedule, Fits, Regular
  <2>4. product = period * counter /\ product \in Nat
    BY <2>3, ProductsResult, ProductGrows
  <2>5. CASE product - elapsed < 0
    BY <2>2, <2>3, <2>4, <2>5, MSleepResult DEF GetPeriodStartTime
  <2>6. CASE product - elapsed >= 0
    <3>1. product - elapsed \in 0..(SleepLimit - 1)
      BY <2>3, <2>4, <2>6, PaceConstants
    <3>2. sleep' = product - elapsed
      BY <2>2, <2>3, <2>4, <3>1, MSleepResult
    <3> QED
      BY <2>3, <2>4, <2>6, <3>2 DEF GetPeriodStartTime, GetPeriodEndTime
  <2> QED
    BY <2>3, <2>4, <2>5, <2>6
<1> QED
  BY <1>1, ScheduleInvariant, PTL DEF PaceSpec, SleepBounded

-----------------------------------------------------------------------------
(* The chains of the lists: pointers, seen from the sequences of links     *)
(* they thread.  s[c] is the sequence of the links of chain c; the first   *)
(* lemmas are about any pointers, the next ones about the operations of    *)
(* CLinkedListTemplate one after the other, the last ones about the calls. *)

\* f finds the links from each link on: the function inside Chain.
Walk(dir, f) == f = [j \in Links \cup {Null} |-> IF j = Null THEN <<>> ELSE <<j>> \o f[dir[j]]]

\* A set of numbers has a least one.
LEMMA LeastOf ==
  ASSUME NEW S \in SUBSET Nat, S # {}
  PROVE  \E n \in S : \A m \in S : n <= m
<1> DEFINE R == OpToRel(<, Nat)
<1>1. IsWellFoundedOn(R, Nat)
  BY NatLessThanWellFounded
<1>2. PICK n \in S : \A m \in S : ~(<<m, n>> \in R)
  BY <1>1, WFMin
<1>3. \A m \in S : ~(m < n)
  BY <1>2 DEF OpToRel
<1>. QED
  BY <1>3

\* v is j and then u.
BeginsWith(v, S, j, u) ==
  /\ v \in Seq(S) /\ Len(v) = Len(u) + 1
  /\ \A p \in 1..(Len(u) + 1) : v[p] = IF p = 1 THEN j ELSE u[p - 1]

\* One link put before a sequence.
LEMMA Consed ==
  ASSUME NEW S, NEW j \in S, NEW u \in Seq(S), NEW v, v = <<j>> \o u
  PROVE  BeginsWith(v, S, j, u)
<1>1. <<j>> \in Seq(S) /\ Len(<<j>>) = 1 /\ <<j>>[1] = j /\ Len(u) \in Nat
  OBVIOUS
<1>2. /\ <<j>> \o u \in Seq(S) /\ Len(<<j>> \o u) = Len(u) + 1
      /\ \A p \in 1..(Len(u) + 1) : (<<j>> \o u)[p] = IF p = 1 THEN j ELSE u[p - 1]
  BY <1>1, ConcatProperties
<1>. QED
  BY <1>2 DEF BeginsWith

\* Two ways to write down the walk along dir agree: Chain, which a walk that
\* ends at every link exists for, finds what that walk finds.
LEMMA ChainIsWalk ==
  ASSUME NEW dir, NEW w, Walk(dir, w), NEW k \in Links \cup {Null},
         dir \in [Links -> Links \cup {Null}],
         w \in [Links \cup {Null} -> Seq(Links)]
  PROVE  Chain(dir, k) = w[k]
<1> DEFINE N == Links \cup {Null}
           f == CHOOSE g : Walk(dir, g)
<1>1. Chain(dir, k) = f[k]
  BY DEF Chain, Walk
<1>2. Walk(dir, f)
  BY Zenon
<1> HIDE DEF f
<1>3. f[Null] = <<>> /\ w[Null] = <<>> /\ Null \notin Links
  BY <1>2, ListConstants, Zenon DEF Walk
<1>4. ASSUME NEW j \in Links PROVE f[j] = <<j>> \o f[dir[j]] /\ w[j] = <<j>> \o w[dir[j]]
  BY <1>2, <1>3, <1>4, Zenon DEF Walk
<1> DEFINE Bad == {Len(w[j]) : j \in {i \in N : f[i] # w[i]}}
<1>5. Bad = {}
  <2> SUFFICES ASSUME Bad # {} PROVE FALSE
    OBVIOUS
  <2>1. Bad \in SUBSET Nat
    OBVIOUS
  <2>2. PICK n \in Bad : \A m \in Bad : n <= m
    BY <2>1, LeastOf
  <2>3. PICK j \in N : f[j] # w[j] /\ Len(w[j]) = n
    BY <2>2
  <2>4. j \in Links /\ dir[j] \in N
    BY <2>3, <1>3
  <2>5. Len(w[j]) = Len(w[dir[j]]) + 1
    <3>1. w[dir[j]] \in Seq(Links)
      BY <2>4
    <3>2. w[j] = <<j>> \o w[dir[j]]
      BY <2>4, <1>4
    <3>3. BeginsWith(w[j], Links, j, w[dir[j]])
      BY <2>4, <3>1, <3>2, Consed
    <3>. QED
      BY <3>3 DEF BeginsWith
  <2>6. f[dir[j]] = w[dir[j]]
    <3>1. Len(w[dir[j]]) \in Nat
      BY <2>4
    <3>2. ~(n <= Len(w[dir[j]]))
      BY <2>3, <2>5, <3>1
    <3>. QED
      BY <2>2, <2>4, <3>2
  <2>. QED
    BY <2>3, <2>4, <2>6, <1>4
<1>. QED
  BY <1>1, <1>5

-----------------------------------------------------------------------------
\* The neighbours of the link at a position of a chain.
After(u, p)  == IF p = Len(u) THEN Null ELSE u[p + 1]
Before(u, p) == IF p = 1 THEN Null ELSE u[p - 1]
FirstLink(u) == IF Len(u) = 0 THEN Null ELSE u[1]
LastLink(u)  == IF Len(u) = 0 THEN Null ELSE u[Len(u)]

\* Chains of links; every link is in one of them, at one position, or in none.
OnChain(s, k) == \E c \in Chains : \E p \in 1..Len(s[c]) : s[c][p] = k
\* No link is in two chains, or twice in one.
Apart(s) ==
  \A c, d \in Chains : \A p \in 1..Len(s[c]), r \in 1..Len(s[d]) :
    s[c][p] = s[d][r] => c = d /\ p = r

\* The rest of u from position p on.
Suffix(u, p) == [i \in 1..(Len(u) - p + 1) |-> u[p + i - 1]]

\* The rest of a sequence from one position on.
LEMMA SuffixIs ==
  ASSUME NEW S, NEW u \in Seq(S), NEW p \in 1..Len(u)
  PROVE  /\ Suffix(u, p) \in Seq(S) /\ Len(Suffix(u, p)) = Len(u) - p + 1
         /\ p = Len(u) => Suffix(u, p) = <<u[p]>> \o <<>>
         /\ p < Len(u) => Suffix(u, p) = <<u[p]>> \o Suffix(u, p + 1)
         /\ Suffix(u, 1) = u
<1>1. PICK n \in Nat : n = Len(u) /\ p \in 1..n
  OBVIOUS
<1>2. \A i \in 1..n : u[i] \in S
  BY <1>1
<1>3. ASSUME NEW q \in 1..n
      PROVE  /\ Suffix(u, q) \in Seq(S) /\ Len(Suffix(u, q)) = n - q + 1
             /\ \A i \in 1..(n - q + 1) : Suffix(u, q)[i] = u[q + i - 1]
  <2>1. PICK m \in Nat : m = n - q + 1 /\ \A i \in 1..m : q + i - 1 \in 1..n
    <3>1. n - q + 1 \in Nat /\ \A i \in 1..(n - q + 1) : q + i - 1 \in 1..n
      <4>1. n \in Nat /\ q \in 1..n
        BY <1>1
      <4>. QED
        BY <4>1
    <3>. QED
      BY <3>1
  <2>2. Suffix(u, q) = [i \in 1..m |-> u[q + i - 1]]
    BY <1>1, <2>1 DEF Suffix
  <2>3. \A i \in 1..m : u[q + i - 1] \in S
    BY <1>2, <2>1
  <2>. QED
    BY <2>1, <2>2, <2>3
<1>4. u = Suffix(u, 1)
  <2>1. 1 \in 1..n /\ n - 1 + 1 = n /\ \A i \in 1..n : 1 + i - 1 = i
    BY <1>1
  <2>2. /\ Suffix(u, 1) \in Seq(S) /\ Len(Suffix(u, 1)) = n
        /\ \A i \in 1..n : Suffix(u, 1)[i] = u[i]
    BY <1>3, <2>1
  <2>. QED
    BY <1>1, <2>2, SeqEqual
<1>5. ASSUME p = n PROVE Suffix(u, p) = <<u[p]>> \o <<>>
  <2>1. <<>> \in Seq(S) /\ Len(<<>>) = 0 /\ u[p] \in S
    BY <1>1, <1>2
  <2>2. /\ <<u[p]>> \o <<>> \in Seq(S) /\ Len(<<u[p]>> \o <<>>) = 1
        /\ (<<u[p]>> \o <<>>)[1] = u[p]
    <3>1. PICK k, t, none : k = u[p] /\ none = <<>> /\ t = <<k>> \o none
      OBVIOUS
    <3>2. BeginsWith(t, S, k, none)
      BY <2>1, <3>1, Consed
    <3>3. t \in Seq(S) /\ Len(t) = 1 /\ t[1] = k
      BY <2>1, <3>1, <3>2 DEF BeginsWith
    <3>. QED
      BY <3>1, <3>3
  <2>3. Len(Suffix(u, p)) = 1 /\ Suffix(u, p)[1] = u[p] /\ Suffix(u, p) \in Seq(S)
    <3>1. n - p + 1 = 1 /\ p + 1 - 1 = p /\ 1 \in 1..1 /\ p \in 1..n
      BY <1>1, <1>5
    <3>2. /\ Suffix(u, p) \in Seq(S) /\ Len(Suffix(u, p)) = n - p + 1
          /\ \A i \in 1..(n - p + 1) : Suffix(u, p)[i] = u[p + i - 1]
      BY <1>3, <3>1
    <3>. QED
      BY <3>1, <3>2
  <2>. QED
    BY <2>2, <2>3, SeqEqual
<1>6. ASSUME p < n PROVE Suffix(u, p) = <<u[p]>> \o Suffix(u, p + 1)
  <2> DEFINE v == Suffix(u, p + 1)
  <2>1. p + 1 \in 1..n /\ u[p] \in S
    BY <1>1, <1>2, <1>6
  <2>2. /\ v \in Seq(S) /\ Len(v) = n - p
        /\ \A i \in 1..(n - p) : v[i] = u[p + i]
    <3>1. n - (p + 1) + 1 = n - p /\ \A i \in 1..(n - p) : p + 1 + i - 1 = p + i
      <4>1. p \in Int /\ n \in Int
        BY <1>1
      <4>. QED
        BY <4>1
    <3>2. /\ v \in Seq(S) /\ Len(v) = n - (p + 1) + 1
          /\ \A i \in 1..(n - (p + 1) + 1) : v[i] = u[p + 1 + i - 1]
      BY <1>3, <2>1
    <3> HIDE DEF v
    <3>. QED
      BY <3>1, <3>2
  <2> HIDE DEF v
  <2>3. /\ <<u[p]>> \o v \in Seq(S) /\ Len(<<u[p]>> \o v) = n - p + 1
        /\ \A i \in 1..(n - p + 1) : (<<u[p]>> \o v)[i] = IF i = 1 THEN u[p] ELSE v[i - 1]
    <3>1. PICK k, t : k = u[p] /\ t = <<k>> \o v
      OBVIOUS
    <3>2. BeginsWith(t, S, k, v)
      BY <2>1, <2>2, <3>1, Consed
    <3>3. Len(v) + 1 = n - p + 1
      BY <2>2
    <3>4. /\ t \in Seq(S) /\ Len(t) = n - p + 1
          /\ \A i \in 1..(n - p + 1) : t[i] = IF i = 1 THEN k ELSE v[i - 1]
      BY <3>2, <3>3 DEF BeginsWith
    <3>. QED
      BY <3>1, <3>4
  <2>4. /\ Suffix(u, p) \in Seq(S) /\ Len(Suffix(u, p)) = n - p + 1
        /\ \A i \in 1..(n - p + 1) : Suffix(u, p)[i] = u[p + i - 1]
    BY <1>1, <1>3
  <2>5. \A i \in 1..(n - p + 1) : (<<u[p]>> \o v)[i] = Suffix(u, p)[i]
    <3> SUFFICES ASSUME NEW i \in 1..(n - p + 1)
                 PROVE  (<<u[p]>> \o v)[i] = Suffix(u, p)[i]
      OBVIOUS
    <3>1. CASE i = 1
      <4>1. p + i - 1 = p
        BY <1>1, <3>1
      <4>. QED
        BY <2>3, <2>4, <3>1, <4>1
    <3>2. CASE i # 1
      <4>1. i - 1 \in 1..(n - p) /\ p + (i - 1) = p + i - 1
        BY <1>1, <3>2
      <4>. QED
        BY <2>2, <2>3, <2>4, <3>2, <4>1
    <3>. QED
      BY <3>1, <3>2
  <2>6. PICK a, b : a = Suffix(u, p) /\ b = <<u[p]>> \o v
    OBVIOUS
  <2>7. /\ a \in Seq(S) /\ b \in Seq(S) /\ Len(a) = Len(b)
        /\ \A i \in 1..Len(a) : a[i] = b[i]
    BY <2>3, <2>4, <2>5, <2>6
  <2>8. a = b
    BY <2>7, SeqEqual
  <2>. QED
    BY <2>6, <2>8 DEF v
<1>. QED
  BY <1>1, <1>3, <1>4, <1>5, <1>6

\* dir takes each link to the next one of its chain, the others nowhere.
Threaded(dir, s) ==
  /\ dir \in [Links -> Links \cup {Null}]
  /\ s \in [Chains -> Seq(Links)] /\ Apart(s)
  /\ \A c \in Chains : \A p \in 1..Len(s[c]) : dir[s[c][p]] = After(s[c], p)
  /\ \A k \in Links : ~OnChain(s, k) => dir[k] = Null

\* w walks, and finds the rest of its chain from each link.
WalksChains(dir, s, w) ==
  /\ w \in [Links \cup {Null} -> Seq(Links)]
  /\ Walk(dir, w) /\ w[Null] = <<>>
  /\ \A c \in Chains : \A p \in 1..Len(s[c]) : w[s[c][p]] = Suffix(s[c], p)

\* Pointers that thread disjoint chains can be walked to the end from any link.
LEMMA WalkExists ==
  ASSUME NEW dir, NEW s, Threaded(dir, s)
  PROVE  \E w : WalksChains(dir, s, w)
<1> DEFINE N == Links \cup {Null}
           At(k, u) == \E c \in Chains : \E p \in 1..Len(s[c]) :
                         s[c][p] = k /\ u = Suffix(s[c], p)
           w == [k \in N |-> IF OnChain(s, k) THEN CHOOSE u : At(k, u)
                             ELSE IF k = Null THEN <<>> ELSE <<k>> \o <<>>]
<1>0. /\ dir \in [Links -> Links \cup {Null}]
      /\ s \in [Chains -> Seq(Links)] /\ Apart(s)
      /\ \A c \in Chains : \A p \in 1..Len(s[c]) : dir[s[c][p]] = After(s[c], p)
      /\ \A k \in Links : ~OnChain(s, k) => dir[k] = Null
  BY DEF Threaded
<1>1. \A c \in Chains : s[c] \in Seq(Links) /\ Len(s[c]) \in Nat
  BY <1>0
<1>2. \A c \in Chains : \A p \in 1..Len(s[c]) : s[c][p] \in Links
  BY <1>1
<1>3. Null \notin Links
  BY ListConstants
<1>4. ASSUME NEW c \in Chains, NEW p \in 1..Len(s[c])
      PROVE  w[s[c][p]] = Suffix(s[c], p)
  <2> DEFINE k == s[c][p]
  <2>1. k \in N /\ OnChain(s, k)
    BY <1>2 DEF OnChain
  <2>2. w[k] = CHOOSE u : At(k, u)
    BY <2>1
  <2>3. At(k, Suffix(s[c], p))
    OBVIOUS
  <2>4. At(k, w[k])
    BY <2>2, <2>3
  <2>5. \A u : At(k, u) => u = Suffix(s[c], p)
    BY <1>0 DEF Apart
  <2>. QED
    BY <2>4, <2>5
<1>5. w[Null] = <<>>
  <2>1. ~OnChain(s, Null)
    BY <1>2, <1>3 DEF OnChain
  <2>. QED
    BY <2>1
<1>6. ASSUME NEW k \in Links, ~OnChain(s, k) PROVE w[k] = <<k>> \o <<>>
  BY <1>3, <1>6
<1> HIDE DEF w
<1>7. w \in [Links \cup {Null} -> Seq(Links)]
  <2>1. ASSUME NEW k \in N PROVE w[k] \in Seq(Links)
    <3>1. CASE OnChain(s, k)
      <4>1. PICK c \in Chains : \E p \in 1..Len(s[c]) : s[c][p] = k
        BY <3>1 DEF OnChain
      <4>2. PICK p \in 1..Len(s[c]) : s[c][p] = k
        BY <4>1
      <4>3. w[k] = Suffix(s[c], p)
        BY <1>4, <4>2
      <4>4. Suffix(s[c], p) \in Seq(Links)
        BY <1>1, SuffixIs
      <4>. QED
        BY <4>3, <4>4
    <3>2. CASE k = Null
      BY <3>2, <1>5
    <3>3. CASE k \in Links /\ ~OnChain(s, k)
      <4>1. <<>> \in Seq(Links)
        OBVIOUS
      <4>2. <<k>> \o <<>> \in Seq(Links)
        BY <3>3
      <4>. QED
        BY <3>3, <4>2, <1>6
    <3>. QED
      BY <3>1, <3>2, <3>3
  <2>2. w = [k \in N |-> w[k]]
    BY DEF w
  <2>. QED
    BY <2>1, <2>2
<1>8. Walk(dir, w)
  <2>1. ASSUME NEW k \in Links PROVE w[k] = <<k>> \o w[dir[k]]
    <3>1. CASE ~OnChain(s, k)
      BY <3>1, <1>0, <1>5, <1>6
    <3>2. CASE OnChain(s, k)
      <4>1. PICK c \in Chains : \E p \in 1..Len(s[c]) : s[c][p] = k
        BY <3>2 DEF OnChain
      <4>2. PICK p \in 1..Len(s[c]) : s[c][p] = k
        BY <4>1
      <4>3. w[k] = Suffix(s[c], p) /\ dir[k] = After(s[c], p)
        BY <1>0, <1>4, <4>2
      <4>4. CASE p = Len(s[c])
        <5>1. w[dir[k]] = <<>>
          BY <4>3, <4>4, <1>5 DEF After
        <5>2. Suffix(s[c], p) = <<k>> \o <<>>
          BY <4>2, <4>4, <1>1, SuffixIs, ZenonT(30)
        <5>. QED
          BY <4>3, <5>1, <5>2
      <4>5. CASE p < Len(s[c])
        <5>1. dir[k] = s[c][p + 1] /\ p + 1 \in 1..Len(s[c])
          BY <4>3, <4>5, <1>1 DEF After
        <5>2. w[dir[k]] = Suffix(s[c], p + 1)
          BY <5>1, <1>4
        <5>3. Suffix(s[c], p) = <<k>> \o Suffix(s[c], p + 1)
          BY <4>2, <4>5, <1>1, SuffixIs, ZenonT(30)
        <5>. QED
          BY <4>3, <5>2, <5>3
      <4>. QED
        BY <4>4, <4>5, <1>1
    <3>. QED
      BY <3>1, <3>2
  <2>2. w = [k \in N |-> w[k]]
    BY DEF w
  <2>3. ASSUME NEW k \in N
        PROVE  w[k] = IF k = Null THEN <<>> ELSE <<k>> \o w[dir[k]]
    BY <2>1, <1>5
  <2>. QED
    BY <2>2, <2>3, Zenon DEF Walk
<1>. QED
  BY <1>4, <1>5, <1>7, <1>8 DEF WalksChains

\* A walk from the first link of a chain finds the chain.
LEMMA WalkFindsChain ==
  ASSUME NEW dir, NEW s, Threaded(dir, s)
  PROVE  \A c \in Chains : Chain(dir, FirstLink(s[c])) = s[c]
<1>1. PICK w : WalksChains(dir, s, w)
  BY WalkExists
<1>2. ASSUME NEW k \in Links \cup {Null} PROVE Chain(dir, k) = w[k]
  <2>1. dir \in [Links -> Links \cup {Null}]
    BY DEF Threaded
  <2>2. w \in [Links \cup {Null} -> Seq(Links)]
    BY <1>1 DEF WalksChains
  <2>3. Walk(dir, w)
    BY <1>1 DEF WalksChains
  <2>. QED
    BY <2>1, <2>2, <2>3, ChainIsWalk, Zenon
<1>3. \A c \in Chains : s[c] \in Seq(Links) /\ Len(s[c]) \in Nat
  BY DEF Threaded
<1>4. ASSUME NEW c \in Chains PROVE Chain(dir, FirstLink(s[c])) = s[c]
  <2>1. CASE Len(s[c]) = 0
    <3>1. s[c] = <<>> /\ FirstLink(s[c]) = Null
      BY <2>1, <1>3, EmptySeq DEF FirstLink
    <3>. QED
      BY <3>1, <1>1, <1>2 DEF WalksChains
  <2>2. CASE Len(s[c]) # 0
    <3>1. 1 \in 1..Len(s[c]) /\ FirstLink(s[c]) = s[c][1] /\ s[c][1] \in Links
      BY <2>2, <1>3 DEF FirstLink
    <3>2. Suffix(s[c], 1) = s[c]
      BY <3>1, <1>3, SuffixIs
    <3>. QED
      BY <3>1, <3>2, <1>1, <1>2 DEF WalksChains
  <2>. QED
    BY <2>1, <2>2
<1>. QED
  BY <1>4

-----------------------------------------------------------------------------
\* m_pHead, m_pTail and m_iNItems of a chain.
EndsOf(u) == [head |-> FirstLink(u), tail |-> LastLink(u), n |-> Len(u)]

\* A chain in both directions, with no link twice.
Linear(nx, pv, u) ==
  /\ \A p, r \in 1..Len(u) : u[p] = u[r] => p = r
  /\ \A p \in 1..Len(u) : nx[u[p]] = After(u, p) /\ pv[u[p]] = Before(u, p)

\* All chains, with their ends in q.
Woven(nx, pv, q, s) ==
  /\ nx \in [Links -> Links \cup {Null}] /\ pv \in [Links -> Links \cup {Null}]
  /\ s \in [Chains -> Seq(Links)] /\ Apart(s)
  /\ \A c \in Chains : q[c] = EndsOf(s[c]) /\ Linear(nx, pv, s[c])

\* None of the links of u is in a chain other than c.
Elsewhere(s, c, u) ==
  \A d \in Chains : d # c => \A p \in 1..Len(u), r \in 1..Len(s[d]) : u[p] # s[d][r]

\* The links of the chains but c have the same neighbours.
Kept(nx, pv, nx2, pv2, s, c) ==
  \A d \in Chains : d # c =>
    \A r \in 1..Len(s[d]) : nx2[s[d][r]] = nx[s[d][r]] /\ pv2[s[d][r]] = pv[s[d][r]]

KeptEnds(q, q2, c) == \A d \in Chains : d # c => q2[d] = q[d]

\* A step that leaves the links of all chains but one alone weaves the others.
LEMMA OneChainChanges ==
  ASSUME NEW nx, NEW pv, NEW q, NEW s, Woven(nx, pv, q, s),
         NEW c \in Chains, NEW u \in Seq(Links),
         NEW nx2 \in [Links -> Links \cup {Null}], NEW pv2 \in [Links -> Links \cup {Null}],
         Linear(nx2, pv2, u), Elsewhere(s, c, u), Kept(nx, pv, nx2, pv2, s, c),
         NEW q2, q2[c] = EndsOf(u), KeptEnds(q, q2, c)
  PROVE  Woven(nx2, pv2, q2, [s EXCEPT ![c] = u])
<1> DEFINE s2 == [s EXCEPT ![c] = u]
<1>1. /\ s \in [Chains -> Seq(Links)] /\ Apart(s)
      /\ \A d \in Chains : q[d] = EndsOf(s[d]) /\ Linear(nx, pv, s[d])
  BY DEF Woven
<1>2. s2 \in [Chains -> Seq(Links)] /\ s2[c] = u /\ \A d \in Chains : d # c => s2[d] = s[d]
  BY <1>1
<1> HIDE DEF s2
<1>3. \A p, r \in 1..Len(u) : u[p] = u[r] => p = r
  BY DEF Linear
<1>4. Apart(s2)
  <2> SUFFICES ASSUME NEW a \in Chains, NEW b \in Chains,
                      NEW p \in 1..Len(s2[a]), NEW r \in 1..Len(s2[b]), s2[a][p] = s2[b][r]
               PROVE  a = b /\ p = r
    BY DEF Apart
  <2>1. CASE a = c /\ b = c
    BY <2>1, <1>2, <1>3
  <2>2. CASE a = c /\ b # c
    BY <2>2, <1>2 DEF Elsewhere
  <2>3. CASE a # c /\ b = c
    BY <2>3, <1>2 DEF Elsewhere
  <2>4. CASE a # c /\ b # c
    BY <2>4, <1>1, <1>2 DEF Apart
  <2>. QED
    BY <2>1, <2>2, <2>3, <2>4
<1>5. ASSUME NEW d \in Chains, d # c PROVE Linear(nx2, pv2, s[d])
  <2>1. Linear(nx, pv, s[d])
    BY <1>1
  <2>. QED
    BY <1>5, <2>1 DEF Linear, Kept
<1>6. ASSUME NEW d \in Chains PROVE q2[d] = EndsOf(s2[d]) /\ Linear(nx2, pv2, s2[d])
  <2>1. CASE d = c
    BY <2>1, <1>2
  <2>2. CASE d # c
    BY <2>2, <1>1, <1>2, <1>5 DEF KeptEnds
  <2>. QED
    BY <2>1, <2>2
<1>. QED
  BY <1>2, <1>4, <1>6 DEF Woven, s2

\* The neighbours once the link k is behind the last one of the chain v.
JoinedAtTail(nx, pv, nx2, pv2, v, k) ==
  /\ \A j \in Links : nx2[j] = IF j = k THEN Null ELSE IF j = LastLink(v) THEN k ELSE nx[j]
  /\ \A j \in Links : pv2[j] = IF j = k THEN LastLink(v) ELSE pv[j]

\* A link that is in no chain is linked behind the last one of c.
LEMMA AppendWeaves ==
  ASSUME NEW nx, NEW pv, NEW q, NEW s, Woven(nx, pv, q, s),
         NEW c \in Chains, NEW k \in Links, ~OnChain(s, k),
         NEW nx2 \in [Links -> Links \cup {Null}], NEW pv2 \in [Links -> Links \cup {Null}],
         JoinedAtTail(nx, pv, nx2, pv2, s[c], k),
         NEW q2, q2[c] = EndsOf(Append(s[c], k)), KeptEnds(q, q2, c)
  PROVE  Woven(nx2, pv2, q2, [s EXCEPT ![c] = Append(s[c], k)])
<1> DEFINE v == s[c]
           u == Append(v, k)
<1>0. /\ \A j \in Links : nx2[j] = IF j = k THEN Null
                                      ELSE IF j = LastLink(v) THEN k ELSE nx[j]
      /\ \A j \in Links : pv2[j] = IF j = k THEN LastLink(v) ELSE pv[j]
  BY DEF JoinedAtTail
<1> USE <1>0
<1>1. /\ s \in [Chains -> Seq(Links)] /\ Apart(s) /\ v \in Seq(Links)
      /\ \A p, r \in 1..Len(v) : v[p] = v[r] => p = r
      /\ \A p \in 1..Len(v) : nx[v[p]] = After(v, p) /\ pv[v[p]] = Before(v, p)
  BY DEF Woven, Linear
<1>2. PICK n \in Nat : n = Len(v)
  BY <1>1
<1>3. /\ u \in Seq(Links) /\ Len(u) = n + 1 /\ u[n + 1] = k
      /\ \A p \in 1..n : u[p] = v[p] /\ u[p] \in Links /\ u[p] # k
  <2>1. \A p \in 1..n : v[p] # k
    BY <1>2 DEF OnChain
  <2>2. \A p \in 1..n : v[p] \in Links
    BY <1>1, <1>2
  <2>. QED
    BY <1>1, <1>2, <2>1, <2>2, AppendProperties
<1>4. LastLink(v) = IF n = 0 THEN Null ELSE v[n]
  BY <1>2 DEF LastLink
<1> HIDE DEF u
<1>5. \A p, r \in 1..(n + 1) : u[p] = u[r] => p = r
  <2>1. \A p \in 1..(n + 1) : p = n + 1 \/ p \in 1..n
    OBVIOUS
  <2>. QED
    BY <1>1, <1>2, <1>3, <2>1
<1>6. Linear(nx2, pv2, u)
  <2>1. ASSUME NEW p \in 1..(n + 1)
        PROVE  nx2[u[p]] = After(u, p) /\ pv2[u[p]] = Before(u, p)
    <3>1. CASE p = n + 1
      <4>1. nx2[k] = Null /\ pv2[k] = LastLink(v)
        OBVIOUS
      <4>2. After(u, p) = Null
        BY <1>3, <3>1 DEF After
      <4>3. Before(u, p) = LastLink(v)
        <5>1. CASE n = 0
          BY <3>1, <5>1, <1>4 DEF Before
        <5>2. CASE n # 0
          <6>1. n \in 1..n /\ p - 1 = n /\ p # 1
            BY <5>2, <3>1
          <6>. QED
            BY <6>1, <5>2, <1>3, <1>4 DEF Before
        <5>. QED
          BY <5>1, <5>2
      <4>. QED
        BY <1>3, <3>1, <4>1, <4>2, <4>3
    <3>2. CASE p = n /\ n # 0
      <4>0. p \in 1..n /\ n \in 1..n /\ p # n + 1 /\ (p # 1 => p - 1 \in 1..n)
        BY <3>2
      <4>1. u[p] = v[p] /\ u[p] = LastLink(v) /\ u[p] # k /\ u[p] \in Links
        BY <3>2, <4>0, <1>3, <1>4
      <4>2. nx2[u[p]] = k /\ pv2[u[p]] = pv[v[p]]
        BY <4>1
      <4>3. After(u, p) = k
        BY <3>2, <4>0, <1>3 DEF After
      <4>4. pv[v[p]] = Before(v, p)
        BY <4>0, <1>1, <1>2
      <4>5. Before(u, p) = Before(v, p)
        BY <4>0, <1>3 DEF Before
      <4>. QED
        BY <4>2, <4>3, <4>4, <4>5
    <3>3. CASE p \in 1..n /\ p # n
      <4>0. p + 1 \in 1..n /\ n \in 1..n /\ p # n + 1 /\ n # 0 /\ (p # 1 => p - 1 \in 1..n)
        BY <3>3
      <4>1. u[p] = v[p] /\ u[p] # LastLink(v) /\ u[p] # k /\ u[p] \in Links
        BY <3>3, <4>0, <1>1, <1>2, <1>3, <1>4
      <4>2. nx2[u[p]] = nx[v[p]] /\ pv2[u[p]] = pv[v[p]]
        BY <4>1
      <4>3. nx[v[p]] = After(v, p) /\ pv[v[p]] = Before(v, p)
        BY <3>3, <1>1, <1>2
      <4>4. After(u, p) = After(v, p)
        BY <3>3, <4>0, <1>2, <1>3 DEF After
      <4>5. Before(u, p) = Before(v, p)
        BY <4>0, <1>3 DEF Before
      <4>. QED
        BY <4>2, <4>3, <4>4, <4>5
    <3>. QED
      BY <3>1, <3>2, <3>3
  <2>. QED
    BY <1>3, <1>5, <2>1 DEF Linear
<1>7. Elsewhere(s, c, u) /\ Kept(nx, pv, nx2, pv2, s, c)
  <2>1. ASSUME NEW d \in Chains, d # c, NEW r \in 1..Len(s[d])
        PROVE  /\ \A p \in 1..Len(u) : u[p] # s[d][r]
               /\ nx2[s[d][r]] = nx[s[d][r]] /\ pv2[s[d][r]] = pv[s[d][r]]
    <3>1. s[d][r] \in Links /\ s[d][r] # k
      <4>1. s[d] \in Seq(Links)
        BY <1>1
      <4>. QED
        BY <4>1 DEF OnChain
    <3>2. \A p \in 1..n : v[p] # s[d][r]
      <4>1. Apart(s)
        BY <1>1
      <4>. QED
        BY <1>2, <2>1, <4>1 DEF Apart
    <3>3. s[d][r] # LastLink(v)
      BY <1>4, <3>1, <3>2, ListConstants
    <3>4. \A p \in 1..(n + 1) : p = n + 1 \/ p \in 1..n
      OBVIOUS
    <3>5. \A p \in 1..(n + 1) : u[p] # s[d][r]
      BY <1>3, <3>1, <3>2, <3>4
    <3>. QED
      BY <1>3, <3>1, <3>3, <3>5
  <2>2. Elsewhere(s, c, u)
    BY <2>1 DEF Elsewhere
  <2>3. Kept(nx, pv, nx2, pv2, s, c)
    BY <2>1 DEF Kept
  <2>. QED
    BY <2>2, <2>3
<1>. QED
  BY <1>3, <1>6, <1>7, OneChainChanges DEF u

\* The neighbours of the other links once the one at position x of v is out.
PartedAt(nx, pv, nx2, pv2, v, x) ==
  \A j \in Links : j # v[x] =>
    /\ nx2[j] = IF j = Before(v, x) THEN After(v, x) ELSE nx[j]
    /\ pv2[j] = IF j = After(v, x) THEN Before(v, x) ELSE pv[j]

\* The link at position x of c is taken out, its neighbours are joined.
LEMMA TakeWeaves ==
  ASSUME NEW nx, NEW pv, NEW q, NEW s, Woven(nx, pv, q, s),
         NEW c \in Chains, NEW x \in 1..Len(s[c]),
         NEW u \in Seq(Links), IsWithout(u, s[c], x),
         NEW nx2 \in [Links -> Links \cup {Null}], NEW pv2 \in [Links -> Links \cup {Null}],
         PartedAt(nx, pv, nx2, pv2, s[c], x),
         NEW q2, q2[c] = EndsOf(u), KeptEnds(q, q2, c)
  PROVE  Woven(nx2, pv2, q2, [s EXCEPT ![c] = u])
<1> DEFINE v == s[c]
<1>0. \A j \in Links : j # v[x] =>
        /\ nx2[j] = IF j = Before(v, x) THEN After(v, x) ELSE nx[j]
        /\ pv2[j] = IF j = After(v, x) THEN Before(v, x) ELSE pv[j]
  BY DEF PartedAt
<1> USE <1>0
<1>1. /\ s \in [Chains -> Seq(Links)] /\ Apart(s) /\ v \in Seq(Links)
      /\ \A p, r \in 1..Len(v) : v[p] = v[r] => p = r
      /\ \A p \in 1..Len(v) : nx[v[p]] = After(v, p) /\ pv[v[p]] = Before(v, p)
  BY DEF Woven, Linear
<1>2. PICK n \in Nat : n = Len(v) /\ x \in 1..n
  BY <1>1
<1>3. \A p \in 1..n : v[p] \in Links
  BY <1>1, <1>2
<1>4. /\ Len(u) = n - 1 /\ \A p \in 1..(n - 1) : u[p] = IF p < x THEN v[p] ELSE v[p + 1]
  BY <1>2 DEF IsWithout
<1>5. \A p, r \in 1..(n - 1) : u[p] = u[r] => p = r
  <2> SUFFICES ASSUME NEW p \in 1..(n - 1), NEW r \in 1..(n - 1), u[p] = u[r]
               PROVE  p = r
    OBVIOUS
  <2>1. /\ p \in 1..n /\ r \in 1..n /\ p + 1 \in 1..n /\ r + 1 \in 1..n
    BY <1>2
  <2>. QED
    BY <1>1, <1>2, <1>4, <2>1
<1>6. After(v, x) = (IF x = n THEN Null ELSE v[x + 1]) /\ Before(v, x) = IF x = 1 THEN Null ELSE v[x - 1]
  BY <1>2 DEF After, Before
<1>7. Null \notin Links
  BY ListConstants
<1>8. ASSUME NEW p \in 1..n, p # x
      PROVE  /\ nx2[v[p]] = IF p + 1 = x THEN After(v, x) ELSE After(v, p)
             /\ pv2[v[p]] = IF p = x + 1 THEN Before(v, x) ELSE Before(v, p)
  <2>1. v[p] \in Links /\ v[p] # v[x]
    BY <1>1, <1>2, <1>3, <1>8
  <2>2. v[p] = Before(v, x) <=> p + 1 = x
    <3>1. CASE x = 1
      BY <3>1, <1>6, <1>7, <2>1
    <3>2. CASE x # 1
      <4>1. x - 1 \in 1..n /\ (p = x - 1 <=> p + 1 = x)
        BY <3>2, <1>2
      <4>. QED
        BY <3>2, <4>1, <1>1, <1>2, <1>6
    <3>. QED
      BY <3>1, <3>2
  <2>3. v[p] = After(v, x) <=> p = x + 1
    <3>1. CASE x = n
      BY <3>1, <1>2, <1>6, <1>7, <2>1
    <3>2. CASE x # n
      <4>1. x + 1 \in 1..n
        BY <3>2, <1>2
      <4>. QED
        BY <3>2, <4>1, <1>1, <1>2, <1>6
    <3>. QED
      BY <3>1, <3>2
  <2>4. /\ nx2[v[p]] = IF v[p] = Before(v, x) THEN After(v, x) ELSE nx[v[p]]
        /\ pv2[v[p]] = IF v[p] = After(v, x) THEN Before(v, x) ELSE pv[v[p]]
    BY <2>1
  <2>5. nx[v[p]] = After(v, p) /\ pv[v[p]] = Before(v, p)
    BY <1>1, <1>2
  <2>. QED
    BY <2>2, <2>3, <2>4, <2>5
<1>9. Linear(nx2, pv2, u)
  <2>1. ASSUME NEW p \in 1..(n - 1)
        PROVE  nx2[u[p]] = After(u, p) /\ pv2[u[p]] = Before(u, p)
    <3>0. /\ After(u, p) = (IF p = n - 1 THEN Null ELSE u[p + 1])
          /\ Before(u, p) = (IF p = 1 THEN Null ELSE u[p - 1])
      BY <1>4 DEF After, Before
    <3>1. CASE p < x
      <4>1. p \in 1..n /\ p # x /\ p # x + 1 /\ u[p] = v[p]
        BY <3>1, <1>2, <1>4
      <4>2. /\ nx2[u[p]] = IF p + 1 = x THEN After(v, x) ELSE After(v, p)
            /\ pv2[u[p]] = Before(v, p)
        BY <4>1, <1>8
      <4>3. Before(v, p) = Before(u, p)
        <5>1. p # 1 => p - 1 \in 1..(n - 1) /\ p - 1 < x
          BY <3>1
        <5>. QED
          BY <3>0, <5>1, <1>4 DEF Before
      <4>4. CASE p + 1 = x
        <5>1. (p = n - 1 <=> x = n) /\ (p # n - 1 => p + 1 \in 1..(n - 1) /\ ~(p + 1 < x))
          BY <4>4, <1>2
        <5>2. p # n - 1 => u[p + 1] = v[x + 1]
          BY <5>1, <4>4, <1>4
        <5>3. After(u, p) = After(v, x)
          BY <3>0, <5>1, <5>2, <1>6
        <5>. QED
          BY <4>2, <4>3, <4>4, <5>3
      <4>5. CASE p + 1 # x
        <5>1. p + 1 \in 1..(n - 1) /\ p + 1 < x /\ p # n - 1 /\ p # n
          BY <3>1, <4>5, <1>2
        <5>2. u[p + 1] = v[p + 1]
          BY <5>1, <1>4
        <5>3. After(u, p) = After(v, p)
          BY <3>0, <5>1, <5>2, <1>2 DEF After
        <5>. QED
          BY <4>2, <4>3, <4>5, <5>3
      <4>. QED
        BY <4>4, <4>5
    <3>2. CASE ~(p < x)
      <4>1. p + 1 \in 1..n /\ p + 1 # x /\ p + 1 + 1 # x /\ u[p] = v[p + 1]
        BY <3>2, <1>2, <1>4
      <4>2. /\ nx2[u[p]] = After(v, p + 1)
            /\ pv2[u[p]] = IF p = x THEN Before(v, x) ELSE Before(v, p + 1)
        <5>1. p + 1 = x + 1 <=> p = x
          BY <1>2
        <5>. QED
          BY <4>1, <5>1, <1>8
      <4>3. After(v, p + 1) = After(u, p)
        <5>1. p # n - 1 => p + 1 \in 1..(n - 1) /\ ~(p + 1 < x) /\ p + 1 # n
          BY <3>2, <1>2
        <5>2. p # n - 1 => u[p + 1] = v[p + 1 + 1]
          BY <5>1, <1>4
        <5>3. p = n - 1 <=> p + 1 = n
          BY <1>2
        <5>. QED
          BY <3>0, <5>1, <5>2, <5>3, <1>2 DEF After
      <4>4. CASE p = x
        <5>1. p # 1 => p - 1 \in 1..(n - 1) /\ p - 1 < x
          BY <4>4
        <5>2. p # 1 => u[p - 1] = v[p - 1]
          BY <5>1, <1>4
        <5>. QED
          BY <3>0, <4>2, <4>3, <4>4, <5>2, <1>6
      <4>5. CASE p # x
        <5>1. p # 1 /\ p - 1 \in 1..(n - 1) /\ ~(p - 1 < x) /\ p - 1 + 1 = p /\ p + 1 - 1 = p /\ p + 1 # 1
          BY <3>2, <4>5, <1>2
        <5>2. u[p - 1] = v[p]
          BY <5>1, <1>4
        <5>3. Before(v, p + 1) = v[p]
          BY <5>1 DEF Before
        <5>. QED
          BY <3>0, <4>2, <4>3, <4>5, <5>1, <5>2, <5>3
      <4>. QED
        BY <4>4, <4>5
    <3>. QED
      BY <3>1, <3>2
  <2>. QED
    BY <1>4, <1>5, <2>1 DEF Linear
<1>10. ASSUME NEW d \in Chains, d # c, NEW r \in 1..Len(s[d])
       PROVE  /\ \A p \in 1..n : v[p] # s[d][r]
              /\ \A p \in 1..Len(u) : u[p] # s[d][r]
              /\ nx2[s[d][r]] = nx[s[d][r]] /\ pv2[s[d][r]] = pv[s[d][r]]
  <2>1. s[d][r] \in Links
    <3>1. s[d] \in Seq(Links)
      BY <1>1
    <3>. QED
      BY <3>1
  <2>2. \A p \in 1..n : v[p] # s[d][r]
    BY <1>1, <1>2, <1>10 DEF Apart
  <2>3. \A p \in 1..(n - 1) : p \in 1..n /\ p + 1 \in 1..n
    BY <1>2
  <2>4. \A p \in 1..Len(u) : u[p] # s[d][r]
    BY <1>4, <2>2, <2>3
  <2>5. s[d][r] # Before(v, x) /\ s[d][r] # After(v, x) /\ s[d][r] # v[x]
    <3>1. (x # 1 => x - 1 \in 1..n) /\ (x # n => x + 1 \in 1..n)
      BY <1>2
    <3>. QED
      BY <1>2, <1>6, <1>7, <2>1, <2>2, <3>1
  <2>. QED
    BY <2>1, <2>2, <2>4, <2>5
<1>11. Elsewhere(s, c, u)
  BY <1>10 DEF Elsewhere
<1>12. Kept(nx, pv, nx2, pv2, s, c)
  BY <1>10 DEF Kept
<1>. QED
  BY <1>9, <1>11, <1>12, OneChainChanges

-----------------------------------------------------------------------------
\* The two chains of a list, and the ends of all chains.
ListOf(l)  == [of |-> "list", list |-> l]
CacheOf(l) == [of |-> "cache", list |-> l]
EndsIn(m)  == [c \in Chains |-> m[c.of][c.list]]

\* The type of the memory.
ChainEnds == [head : Links \cup {Null}, tail : Links \cup {Null}, n : Nat]
Memory ==
  [previous  : [Links -> Links \cup {Null}],
   next      : [Links -> Links \cup {Null}],
   item      : [Links -> Items \cup {Null}],
   allocated : SUBSET Links,
   list      : [Lists -> ChainEnds],
   cache     : [Lists -> ChainEnds]]

\* The links on the way from one chain to another are loose.
Placed(m, s, loose) ==
  /\ loose \in SUBSET Links /\ \A k \in loose : ~OnChain(s, k)
  /\ \A k \in Links : k \in m.allocated <=> OnChain(s, k) \/ k \in loose

\* An address that is not allocated holds nothing.
Unused(m) ==
  \A k \in Links : k \notin m.allocated =>
    m.next[k] = Null /\ m.previous[k] = Null /\ m.item[k] = Null

\* Links of a list hold items, links of a cache none; a cache has its limit.
ItemsIn(c) == IF c.of = "list" THEN Items ELSE {Null}
Filled(m, s) ==
  \A c \in Chains :
    /\ \A p \in 1..Len(s[c]) : m.item[s[c][p]] \in ItemsIn(c)
    /\ c.of = "cache" => Len(s[c]) <= CacheSize

\* The memory spells out the chains s, but for the links that are loose: the
\* pointers, ends and counters are those of s, and what is allocated is in s.
Sound(m, s, loose) ==
  /\ m \in Memory /\ Woven(m.next, m.previous, EndsIn(m), s)
  /\ Placed(m, s, loose) /\ Unused(m) /\ Filled(m, s)

\* A chain is that of a list or that of its cache.
LEMMA ChainKinds ==
  /\ \A l \in Lists : ListOf(l) \in Chains /\ CacheOf(l) \in Chains
  /\ \A c \in Chains : c.of \in {"list", "cache"} /\ c.list \in Lists
  /\ \A c \in Chains : \E l \in Lists : c = ListOf(l) \/ c = CacheOf(l)
  /\ \A l, k \in Lists : /\ ListOf(l) # CacheOf(k)
                         /\ ListOf(l) = ListOf(k) => l = k
                         /\ CacheOf(l) = CacheOf(k) => l = k
<1>1. \A l \in Lists : ListOf(l) \in Chains /\ CacheOf(l) \in Chains
  BY DEF ListOf, CacheOf, Chains
<1>2. \A c \in Chains : c.of \in {"list", "cache"} /\ c.list \in Lists
  BY DEF Chains
<1>3. ASSUME NEW c \in Chains PROVE \E l \in Lists : c = ListOf(l) \/ c = CacheOf(l)
  <2>1. c = [of |-> c.of, list |-> c.list]
    BY DEF Chains
  <2>. QED
    BY <1>2, <2>1 DEF ListOf, CacheOf
<1>4. ASSUME NEW l \in Lists, NEW k \in Lists
      PROVE  /\ ListOf(l) # CacheOf(k)
             /\ ListOf(l) = ListOf(k) => l = k
             /\ CacheOf(l) = CacheOf(k) => l = k
  <2>1. ListOf(l).of = "list" /\ ListOf(l).list = l /\ ListOf(k).list = k
    BY DEF ListOf
  <2>2. CacheOf(l).of = "cache" /\ CacheOf(k).of = "cache" /\ CacheOf(l).list = l /\ CacheOf(k).list = k
    BY DEF CacheOf
  <2>. QED
    BY <2>1, <2>2
<1>. QED
  BY <1>1, <1>2, <1>3, <1>4

\* Where the ends of the two kinds are kept.
LEMMA EndsInLists ==
  ASSUME NEW m, NEW l \in Lists
  PROVE  EndsIn(m)[ListOf(l)] = m.list[l] /\ EndsIn(m)[CacheOf(l)] = m.cache[l]
<1>1. ListOf(l) \in Chains /\ CacheOf(l) \in Chains
  BY ChainKinds
<1>2. ListOf(l).of = "list" /\ ListOf(l).list = l /\ CacheOf(l).of = "cache" /\ CacheOf(l).list = l
  BY DEF ListOf, CacheOf
<1>. QED
  BY <1>1, <1>2 DEF EndsIn

\* Memories whose ends differ in one chain.
LEMMA EndsChange ==
  ASSUME NEW m, NEW m2, NEW l \in Lists
  PROVE  /\ m2.cache = m.cache /\ (\A k \in Lists : k # l => m2.list[k] = m.list[k])
              => KeptEnds(EndsIn(m), EndsIn(m2), ListOf(l))
         /\ m2.list = m.list /\ (\A k \in Lists : k # l => m2.cache[k] = m.cache[k])
              => KeptEnds(EndsIn(m), EndsIn(m2), CacheOf(l))
<1>1. ASSUME m2.cache = m.cache, \A k \in Lists : k # l => m2.list[k] = m.list[k],
             NEW d \in Chains, d # ListOf(l)
      PROVE  EndsIn(m2)[d] = EndsIn(m)[d]
  <2>1. PICK k \in Lists : d = ListOf(k) \/ d = CacheOf(k)
    BY ChainKinds
  <2>. QED
    BY <1>1, <2>1, EndsInLists
<1>2. ASSUME m2.list = m.list, \A k \in Lists : k # l => m2.cache[k] = m.cache[k],
             NEW d \in Chains, d # CacheOf(l)
      PROVE  EndsIn(m2)[d] = EndsIn(m)[d]
  <2>1. PICK k \in Lists : d = ListOf(k) \/ d = CacheOf(k)
    BY ChainKinds
  <2>. QED
    BY <1>2, <2>1, EndsInLists
<1>. QED
  BY <1>1, <1>2 DEF KeptEnds

\* The types of the memory.
LEMMA MemoryFields ==
  ASSUME NEW m \in Memory
  PROVE  /\ m.previous \in [Links -> Links \cup {Null}] /\ m.next \in [Links -> Links \cup {Null}]
         /\ m.item \in [Links -> Items \cup {Null}] /\ m.allocated \in SUBSET Links
         /\ m.list \in [Lists -> ChainEnds] /\ m.cache \in [Lists -> ChainEnds]
BY DEF Memory

\* Head, tail and counter of a chain.
LEMMA EndsOfSeq ==
  ASSUME NEW v \in Seq(Links)
  PROVE  /\ EndsOf(v) \in ChainEnds
         /\ EndsOf(v).head = FirstLink(v) /\ EndsOf(v).tail = LastLink(v) /\ EndsOf(v).n = Len(v)
         /\ FirstLink(v) = Null <=> Len(v) = 0
         /\ LastLink(v) = Null <=> Len(v) = 0
<1>1. Len(v) \in Nat /\ \A p \in 1..Len(v) : v[p] \in Links
  OBVIOUS
<1>2. Len(v) # 0 => 1 \in 1..Len(v) /\ Len(v) \in 1..Len(v)
  BY <1>1
<1>3. /\ FirstLink(v) = Null <=> Len(v) = 0
      /\ LastLink(v) = Null <=> Len(v) = 0
      /\ FirstLink(v) \in Links \cup {Null} /\ LastLink(v) \in Links \cup {Null}
  BY <1>1, <1>2, ListConstants DEF FirstLink, LastLink
<1>. QED
  BY <1>1, <1>3 DEF EndsOf, ChainEnds

\* The assignments of LinkAtTail, field by field: a chain with no link, then
\* one with a last link; a list, then a cache.
FirstListed(m, m2, l, k, n) ==
  /\ m2 \in Memory /\ m2.item = m.item /\ m2.allocated = m.allocated /\ m2.cache = m.cache
  /\ m2.list[l] = [head |-> k, tail |-> k, n |-> n + 1]
  /\ \A j \in Lists : j # l => m2.list[j] = m.list[j]
  /\ m2.previous = [m.previous EXCEPT ![k] = Null]
  /\ m2.next = [m.next EXCEPT ![k] = Null]

\* LinkAtTail, into an empty list ...
LEMMA FirstInList ==
  ASSUME NEW m \in Memory, NEW l \in Lists, NEW k \in Links,
         NEW n \in Nat, m.list[l].n = n,
         m.list[l].head = Null, m.list[l].tail = Null,
         NEW m2, m2 = LinkAtTail(m, "list", l, k)
  PROVE  FirstListed(m, m2, l, k, n)
<1>0. m2 = [m EXCEPT !.previous[k] = Null, !.next[k] = Null,
                  !.list[l].head = k, !.list[l].tail = k, !.list[l].n = @ + 1]
  BY DEF LinkAtTail
<1>1. [head |-> k, tail |-> k, n |-> n + 1] \in ChainEnds
  BY MemoryFields DEF ChainEnds
<1>2. m2.list = [m.list EXCEPT ![l] = [head |-> k, tail |-> k, n |-> n + 1]]
  <2>1. m2.list = [m.list EXCEPT ![l].head = k, ![l].tail = k, ![l].n = @ + 1]
    BY <1>0, ZenonT(30) DEF Memory
  <2>. QED
    BY <2>1, MemoryFields DEF ChainEnds
<1>3. /\ m2.previous = [m.previous EXCEPT ![k] = Null]
      /\ m2.next = [m.next EXCEPT ![k] = Null]
      /\ m2.item = m.item /\ m2.allocated = m.allocated /\ m2.cache = m.cache
  BY <1>0, ZenonT(30) DEF Memory
<1>4. m2 = [previous |-> m2.previous, next |-> m2.next, item |-> m2.item,
            allocated |-> m2.allocated, list |-> m2.list, cache |-> m2.cache]
  BY <1>0, ZenonT(30) DEF Memory
<1>5. m2.list \in [Lists -> ChainEnds]
  BY <1>1, <1>2, MemoryFields
<1>6. m2.previous \in [Links -> Links \cup {Null}] /\ m2.next \in [Links -> Links \cup {Null}]
  BY <1>3, MemoryFields
<1>7. m2 \in Memory
  BY <1>3, <1>4, <1>5, <1>6, MemoryFields DEF Memory
<1>. QED
  BY <1>2, <1>3, <1>7, MemoryFields DEF FirstListed

NextListed(m, m2, l, k, old, n) ==
  /\ m2 \in Memory /\ m2.item = m.item /\ m2.allocated = m.allocated /\ m2.cache = m.cache
  /\ m2.list[l] = [head |-> m.list[l].head, tail |-> k, n |-> n + 1]
  /\ \A j \in Lists : j # l => m2.list[j] = m.list[j]
  /\ m2.previous = [m.previous EXCEPT ![k] = old]
  /\ m2.next = [m.next EXCEPT ![old] = k, ![k] = Null]

\* ... into one that is not empty ...
LEMMA NextInList ==
  ASSUME NEW m \in Memory, NEW l \in Lists, NEW k \in Links, NEW old \in Links,
         NEW n \in Nat, m.list[l].n = n,
         m.list[l].tail = old,
         NEW m2, m2 = LinkAtTail(m, "list", l, k)
  PROVE  NextListed(m, m2, l, k, old, n)
<1>0. m2 = [m EXCEPT !.next = [@ EXCEPT ![old] = k, ![k] = Null],
                  !.previous[k] = old,
                  !.list[l].tail = k, !.list[l].n = @ + 1]
  BY ListConstants DEF LinkAtTail
<1>1. [head |-> m.list[l].head, tail |-> k, n |-> n + 1] \in ChainEnds
  BY MemoryFields DEF ChainEnds
<1>2. m2.list = [m.list EXCEPT ![l] = [head |-> m.list[l].head, tail |-> k, n |-> n + 1]]
  <2>1. m2.list = [m.list EXCEPT ![l].tail = k, ![l].n = @ + 1]
    BY <1>0, ZenonT(30) DEF Memory
  <2>. QED
    BY <2>1, MemoryFields DEF ChainEnds
<1>3. /\ m2.previous = [m.previous EXCEPT ![k] = old]
      /\ m2.next = [m.next EXCEPT ![old] = k, ![k] = Null]
      /\ m2.item = m.item /\ m2.allocated = m.allocated /\ m2.cache = m.cache
  BY <1>0, ZenonT(30) DEF Memory
<1>4. m2 = [previous |-> m2.previous, next |-> m2.next, item |-> m2.item,
            allocated |-> m2.allocated, list |-> m2.list, cache |-> m2.cache]
  BY <1>0, ZenonT(30) DEF Memory
<1>5. m2.list \in [Lists -> ChainEnds]
  BY <1>1, <1>2, MemoryFields
<1>6. m2.previous \in [Links -> Links \cup {Null}] /\ m2.next \in [Links -> Links \cup {Null}]
  BY <1>3, MemoryFields
<1>7. m2 \in Memory
  BY <1>3, <1>4, <1>5, <1>6, MemoryFields DEF Memory
<1>. QED
  BY <1>2, <1>3, <1>7, MemoryFields DEF NextListed

FirstCached(m, m2, l, k, n) ==
  /\ m2 \in Memory /\ m2.item = m.item /\ m2.allocated = m.allocated /\ m2.list = m.list
  /\ m2.cache[l] = [head |-> k, tail |-> k, n |-> n + 1]
  /\ \A j \in Lists : j # l => m2.cache[j] = m.cache[j]
  /\ m2.previous = [m.previous EXCEPT ![k] = Null]
  /\ m2.next = [m.next EXCEPT ![k] = Null]

\* ... into an empty cache ...
LEMMA FirstInCache ==
  ASSUME NEW m \in Memory, NEW l \in Lists, NEW k \in Links,
         NEW n \in Nat, m.cache[l].n = n,
         m.cache[l].head = Null, m.cache[l].tail = Null,
         NEW m2, m2 = LinkAtTail(m, "cache", l, k)
  PROVE  FirstCached(m, m2, l, k, n)
<1>0. m2 = [m EXCEPT !.previous[k] = Null, !.next[k] = Null,
                  !.cache[l].head = k, !.cache[l].tail = k, !.cache[l].n = @ + 1]
  BY DEF LinkAtTail
<1>1. [head |-> k, tail |-> k, n |-> n + 1] \in ChainEnds
  BY MemoryFields DEF ChainEnds
<1>2. m2.cache = [m.cache EXCEPT ![l] = [head |-> k, tail |-> k, n |-> n + 1]]
  <2>1. m2.cache = [m.cache EXCEPT ![l].head = k, ![l].tail = k, ![l].n = @ + 1]
    BY <1>0, ZenonT(30) DEF Memory
  <2>. QED
    BY <2>1, MemoryFields DEF ChainEnds
<1>3. /\ m2.previous = [m.previous EXCEPT ![k] = Null]
      /\ m2.next = [m.next EXCEPT ![k] = Null]
      /\ m2.item = m.item /\ m2.allocated = m.allocated /\ m2.list = m.list
  BY <1>0, ZenonT(30) DEF Memory
<1>4. m2 = [previous |-> m2.previous, next |-> m2.next, item |-> m2.item,
            allocated |-> m2.allocated, list |-> m2.list, cache |-> m2.cache]
  BY <1>0, ZenonT(30) DEF Memory
<1>5. m2.cache \in [Lists -> ChainEnds]
  BY <1>1, <1>2, MemoryFields
<1>6. m2.previous \in [Links -> Links \cup {Null}] /\ m2.next \in [Links -> Links \cup {Null}]
  BY <1>3, MemoryFields
<1>7. m2 \in Memory
  BY <1>3, <1>4, <1>5, <1>6, MemoryFields DEF Memory
<1>. QED
  BY <1>2, <1>3, <1>7, MemoryFields DEF FirstCached

NextCached(m, m2, l, k, old, n) ==
  /\ m2 \in Memory /\ m2.item = m.item /\ m2.allocated = m.allocated /\ m2.list = m.list
  /\ m2.cache[l] = [head |-> m.cache[l].head, tail |-> k, n |-> n + 1]
  /\ \A j \in Lists : j # l => m2.cache[j] = m.cache[j]
  /\ m2.previous = [m.previous EXCEPT ![k] = old]
  /\ m2.next = [m.next EXCEPT ![old] = k, ![k] = Null]

\* ... and into one that is not empty.
LEMMA NextInCache ==
  ASSUME NEW m \in Memory, NEW l \in Lists, NEW k \in Links, NEW old \in Links,
         NEW n \in Nat, m.cache[l].n = n,
         m.cache[l].tail = old,
         NEW m2, m2 = LinkAtTail(m, "cache", l, k)
  PROVE  NextCached(m, m2, l, k, old, n)
<1>0. m2 = [m EXCEPT !.next = [@ EXCEPT ![old] = k, ![k] = Null],
                  !.previous[k] = old,
                  !.cache[l].tail = k, !.cache[l].n = @ + 1]
  BY ListConstants DEF LinkAtTail
<1>1. [head |-> m.cache[l].head, tail |-> k, n |-> n + 1] \in ChainEnds
  BY MemoryFields DEF ChainEnds
<1>2. m2.cache = [m.cache EXCEPT ![l] = [head |-> m.cache[l].head, tail |-> k, n |-> n + 1]]
  <2>1. m2.cache = [m.cache EXCEPT ![l].tail = k, ![l].n = @ + 1]
    BY <1>0, ZenonT(30) DEF Memory
  <2>. QED
    BY <2>1, MemoryFields DEF ChainEnds
<1>3. /\ m2.previous = [m.previous EXCEPT ![k] = old]
      /\ m2.next = [m.next EXCEPT ![old] = k, ![k] = Null]
      /\ m2.item = m.item /\ m2.allocated = m.allocated /\ m2.list = m.list
  BY <1>0, ZenonT(30) DEF Memory
<1>4. m2 = [previous |-> m2.previous, next |-> m2.next, item |-> m2.item,
            allocated |-> m2.allocated, list |-> m2.list, cache |-> m2.cache]
  BY <1>0, ZenonT(30) DEF Memory
<1>5. m2.cache \in [Lists -> ChainEnds]
  BY <1>1, <1>2, MemoryFields
<1>6. m2.previous \in [Links -> Links \cup {Null}] /\ m2.next \in [Links -> Links \cup {Null}]
  BY <1>3, MemoryFields
<1>7. m2 \in Memory
  BY <1>3, <1>4, <1>5, <1>6, MemoryFields DEF Memory
<1>. QED
  BY <1>2, <1>3, <1>7, MemoryFields DEF NextCached

\* What LinkAtTail does to the two lists of pointers and to the ends.
LEMMA LinkAtTailEnds ==
  ASSUME NEW m \in Memory, NEW w \in {"list", "cache"}, NEW l \in Lists, NEW k \in Links,
         NEW v \in Seq(Links), m[w][l] = EndsOf(v),
         NEW m2, m2 = LinkAtTail(m, w, l, k)
  PROVE  /\ m2 \in Memory /\ m2.item = m.item /\ m2.allocated = m.allocated
         /\ m2[w][l] = EndsOf(Append(v, k))
         /\ w = "list" => m2.cache = m.cache /\ \A j \in Lists : j # l => m2.list[j] = m.list[j]
         /\ w = "cache" => m2.list = m.list /\ \A j \in Lists : j # l => m2.cache[j] = m.cache[j]
         /\ JoinedAtTail(m.next, m.previous, m2.next, m2.previous, v, k)
<1>1. /\ m[w][l].head = FirstLink(v) /\ m[w][l].tail = LastLink(v) /\ m[w][l].n = Len(v)
      /\ FirstLink(v) = Null <=> Len(v) = 0
      /\ LastLink(v) = Null <=> Len(v) = 0
  BY EndsOfSeq
<1>2. PICK n \in Nat : n = Len(v) /\ \A p \in 1..n : v[p] \in Links
  OBVIOUS
<1>3. Null \notin Links /\ \A j \in Links : j # Null
  BY ListConstants
<1>4. EndsOf(Append(v, k)) = [head |-> IF n = 0 THEN k ELSE v[1], tail |-> k, n |-> n + 1]
  <2>1. Append(v, k) \in Seq(Links) /\ Len(Append(v, k)) = n + 1 /\ Append(v, k)[n + 1] = k
        /\ \A p \in 1..n : Append(v, k)[p] = v[p]
    BY <1>2, AppendProperties
  <2>2. n # 0 => 1 \in 1..n
    OBVIOUS
  <2>. QED
    BY <2>1, <2>2 DEF EndsOf, FirstLink, LastLink
<1>5. n # 0 => FirstLink(v) = v[1] /\ LastLink(v) \in Links
  BY <1>2 DEF FirstLink, LastLink
<1>6. n = 0 => LastLink(v) = Null
  BY <1>1, <1>2
<1>7. CASE w = "list" /\ n = 0
  <2>1. m2 = LinkAtTail(m, "list", l, k)
    BY <1>7
  <2>2. m.list[l].head = FirstLink(v) /\ m.list[l].tail = LastLink(v) /\ m.list[l].n = n
    BY <1>1, <1>2, <1>7
  <2>3. /\ m2 \in Memory /\ m2.item = m.item /\ m2.allocated = m.allocated /\ m2.cache = m.cache
        /\ m2.list[l] = [head |-> k, tail |-> k, n |-> n + 1]
        /\ \A j \in Lists : j # l => m2.list[j] = m.list[j]
        /\ m2.previous = [m.previous EXCEPT ![k] = Null]
        /\ m2.next = [m.next EXCEPT ![k] = Null]
    <3>1. m.list[l].head = Null /\ m.list[l].tail = Null /\ m.list[l].n = n
      BY <1>1, <1>2, <1>7, <2>2
    <3>2. FirstListed(m, m2, l, k, n)
      BY <2>1, <3>1, FirstInList
    <3>. QED
      BY <3>2 DEF FirstListed
  <2>4. [head |-> k, tail |-> k, n |-> n + 1] = EndsOf(Append(v, k))
    BY <1>4, <1>5, <1>7, <2>2
  <2>5. /\ \A j \in Links : m2.next[j] = IF j = k THEN Null
                                         ELSE IF j = LastLink(v) THEN k ELSE m.next[j]
        /\ \A j \in Links : m2.previous[j] = IF j = k THEN LastLink(v) ELSE m.previous[j]
    BY <2>3, <1>1, <1>2, <1>3, <1>5, <1>7, MemoryFields
  <2>. QED
    BY <1>7, <2>3, <2>4, <2>5 DEF JoinedAtTail
<1>8. CASE w = "list" /\ n # 0
  <2>1. m2 = LinkAtTail(m, "list", l, k)
    BY <1>8
  <2>2. m.list[l].head = FirstLink(v) /\ m.list[l].tail = LastLink(v) /\ m.list[l].n = n
    BY <1>1, <1>2, <1>8
  <2>3. PICK old \in Links : old = LastLink(v)
    BY <1>5, <1>8
  <2>4. /\ m2 \in Memory /\ m2.item = m.item /\ m2.allocated = m.allocated /\ m2.cache = m.cache
        /\ m2.list[l] = [head |-> m.list[l].head, tail |-> k, n |-> n + 1]
        /\ \A j \in Lists : j # l => m2.list[j] = m.list[j]
        /\ m2.previous = [m.previous EXCEPT ![k] = old]
        /\ m2.next = [m.next EXCEPT ![old] = k, ![k] = Null]
    <3>1. m.list[l].tail = old /\ m.list[l].n = n
      BY <2>2, <2>3
    <3>2. NextListed(m, m2, l, k, old, n)
      BY <2>1, <2>3, <3>1, NextInList
    <3>. QED
      BY <3>2 DEF NextListed
  <2>5. [head |-> m.list[l].head, tail |-> k, n |-> n + 1] = EndsOf(Append(v, k))
    BY <1>4, <1>5, <1>8, <2>2
  <2>6. /\ \A j \in Links : m2.next[j] = IF j = k THEN Null
                                         ELSE IF j = LastLink(v) THEN k ELSE m.next[j]
        /\ \A j \in Links : m2.previous[j] = IF j = k THEN LastLink(v) ELSE m.previous[j]
    BY <2>3, <2>4, <1>1, <1>2, <1>3, <1>5, <1>8, MemoryFields
  <2>. QED
    BY <1>8, <2>4, <2>5, <2>6 DEF JoinedAtTail
<1>9. CASE w = "cache" /\ n = 0
  <2>1. m2 = LinkAtTail(m, "cache", l, k)
    BY <1>9
  <2>2. m.cache[l].head = FirstLink(v) /\ m.cache[l].tail = LastLink(v) /\ m.cache[l].n = n
    BY <1>1, <1>2, <1>9
  <2>3. /\ m2 \in Memory /\ m2.item = m.item /\ m2.allocated = m.allocated /\ m2.list = m.list
        /\ m2.cache[l] = [head |-> k, tail |-> k, n |-> n + 1]
        /\ \A j \in Lists : j # l => m2.cache[j] = m.cache[j]
        /\ m2.previous = [m.previous EXCEPT ![k] = Null]
        /\ m2.next = [m.next EXCEPT ![k] = Null]
    <3>1. m.cache[l].head = Null /\ m.cache[l].tail = Null /\ m.cache[l].n = n
      BY <1>1, <1>2, <1>9, <2>2
    <3>2. FirstCached(m, m2, l, k, n)
      BY <2>1, <3>1, FirstInCache
    <3>. QED
      BY <3>2 DEF FirstCached
  <2>4. [head |-> k, tail |-> k, n |-> n + 1] = EndsOf(Append(v, k))
    BY <1>4, <1>5, <1>9, <2>2
  <2>5. /\ \A j \in Links : m2.next[j] = IF j = k THEN Null
                                         ELSE IF j = LastLink(v) THEN k ELSE m.next[j]
        /\ \A j \in Links : m2.previous[j] = IF j = k THEN LastLink(v) ELSE m.previous[j]
    BY <2>3, <1>1, <1>2, <1>3, <1>5, <1>9, MemoryFields
  <2>. QED
    BY <1>9, <2>3, <2>4, <2>5 DEF JoinedAtTail
<1>10. CASE w = "cache" /\ n # 0
  <2>1. m2 = LinkAtTail(m, "cache", l, k)
    BY <1>10
  <2>2. m.cache[l].head = FirstLink(v) /\ m.cache[l].tail = LastLink(v) /\ m.cache[l].n = n
    BY <1>1, <1>2, <1>10
  <2>3. PICK old \in Links : old = LastLink(v)
    BY <1>5, <1>10
  <2>4. /\ m2 \in Memory /\ m2.item = m.item /\ m2.allocated = m.allocated /\ m2.list = m.list
        /\ m2.cache[l] = [head |-> m.cache[l].head, tail |-> k, n |-> n + 1]
        /\ \A j \in Lists : j # l => m2.cache[j] = m.cache[j]
        /\ m2.previous = [m.previous EXCEPT ![k] = old]
        /\ m2.next = [m.next EXCEPT ![old] = k, ![k] = Null]
    <3>1. m.cache[l].tail = old /\ m.cache[l].n = n
      BY <2>2, <2>3
    <3>2. NextCached(m, m2, l, k, old, n)
      BY <2>1, <2>3, <3>1, NextInCache
    <3>. QED
      BY <3>2 DEF NextCached
  <2>5. [head |-> m.cache[l].head, tail |-> k, n |-> n + 1] = EndsOf(Append(v, k))
    BY <1>4, <1>5, <1>10, <2>2
  <2>6. /\ \A j \in Links : m2.next[j] = IF j = k THEN Null
                                         ELSE IF j = LastLink(v) THEN k ELSE m.next[j]
        /\ \A j \in Links : m2.previous[j] = IF j = k THEN LastLink(v) ELSE m.previous[j]
    BY <2>3, <2>4, <1>1, <1>2, <1>3, <1>5, <1>10, MemoryFields
  <2>. QED
    BY <1>10, <2>4, <2>5, <2>6 DEF JoinedAtTail
<1>. QED
  BY <1>2, <1>7, <1>8, <1>9, <1>10

-----------------------------------------------------------------------------
\* A link is in the sequence v, or in a chain other than c.
On(v, k) == \E p \in 1..Len(v) : v[p] = k
OnOthers(s, c, k) == \E d \in Chains : d # c /\ On(s[d], k)

\* One chain of s replaced: which links are in a chain.
LEMMA ChainReplaced ==
  ASSUME NEW s \in [Chains -> Seq(Links)], NEW c \in Chains, NEW u \in Seq(Links),
         NEW s2, s2 = [s EXCEPT ![c] = u]
  PROVE  /\ s2 \in [Chains -> Seq(Links)] /\ s2[c] = u
         /\ \A d \in Chains : d # c => s2[d] = s[d]
         /\ \A k \in Links : OnChain(s2, k) <=> On(u, k) \/ OnOthers(s, c, k)
         /\ \A k \in Links : OnChain(s, k) <=> On(s[c], k) \/ OnOthers(s, c, k)
<1>1. s2 \in [Chains -> Seq(Links)] /\ s2[c] = u /\ \A d \in Chains : d # c => s2[d] = s[d]
  OBVIOUS
<1>2. ASSUME NEW k \in Links PROVE OnChain(s2, k) <=> On(u, k) \/ OnOthers(s, c, k)
  BY <1>1, Zenon DEF OnChain, On, OnOthers
<1>3. ASSUME NEW k \in Links PROVE OnChain(s, k) <=> On(s[c], k) \/ OnOthers(s, c, k)
  BY Zenon DEF OnChain, On, OnOthers
<1>. QED
  BY <1>1, <1>2, <1>3

KeptItems(m, m2, s, c) ==
  \A d \in Chains : d # c => \A p \in 1..Len(s[d]) : m2.item[s[d][p]] = m.item[s[d][p]]

FilledWith(m, c, u) ==
  /\ \A p \in 1..Len(u) : m.item[u[p]] \in ItemsIn(c)
  /\ c.of = "cache" => Len(u) <= CacheSize

\* One chain replaced: what the links of the chains hold.
LEMMA FilledReplaced ==
  ASSUME NEW m, NEW m2, NEW s \in [Chains -> Seq(Links)], Filled(m, s),
         NEW c \in Chains, NEW u \in Seq(Links),
         KeptItems(m, m2, s, c), FilledWith(m2, c, u),
         NEW s2, s2 = [s EXCEPT ![c] = u]
  PROVE  Filled(m2, s2)
<1>1. s2[c] = u /\ \A d \in Chains : d # c => s2[d] = s[d]
  BY ChainReplaced
<1>2. ASSUME NEW d \in Chains
      PROVE  /\ \A p \in 1..Len(s2[d]) : m2.item[s2[d][p]] \in ItemsIn(d)
             /\ d.of = "cache" => Len(s2[d]) <= CacheSize
  <2>1. CASE d = c
    BY <1>1, <2>1 DEF FilledWith
  <2>2. CASE d # c
    <3>1. s2[d] = s[d]
      BY <1>1, <2>2
    <3>2. /\ \A p \in 1..Len(s[d]) : m.item[s[d][p]] \in ItemsIn(d)
          /\ d.of = "cache" => Len(s[d]) <= CacheSize
      BY DEF Filled
    <3>3. \A p \in 1..Len(s[d]) : m2.item[s[d][p]] = m.item[s[d][p]]
      BY <2>2 DEF KeptItems
    <3>. QED
      BY <3>1, <3>2, <3>3
  <2>. QED
    BY <2>1, <2>2
<1>. QED
  BY <1>2 DEF Filled

\* What a sound memory is, for the steps that do not need all of it.
LEMMA SoundFields ==
  ASSUME NEW m, NEW s, NEW loose, Sound(m, s, loose)
  PROVE  /\ m \in Memory /\ s \in [Chains -> Seq(Links)] /\ Apart(s)
         /\ Woven(m.next, m.previous, EndsIn(m), s) /\ Filled(m, s) /\ Unused(m)
         /\ loose \in SUBSET Links
         /\ \A k \in loose : ~OnChain(s, k)
         /\ \A k \in Links : k \in m.allocated <=> OnChain(s, k) \/ k \in loose
BY DEF Sound, Woven, Placed

\* A loose link is linked behind the last one of a chain.
LEMMA Appended ==
  ASSUME NEW m, NEW s, NEW loose, Sound(m, s, loose),
         NEW c \in Chains, NEW k \in loose,
         NEW m2 \in Memory, m2.allocated = m.allocated,
         JoinedAtTail(m.next, m.previous, m2.next, m2.previous, s[c], k),
         EndsIn(m2)[c] = EndsOf(Append(s[c], k)), KeptEnds(EndsIn(m), EndsIn(m2), c),
         \A j \in Links : j # k => m2.item[j] = m.item[j],
         m2.item[k] \in ItemsIn(c), c.of = "cache" => Len(s[c]) < CacheSize
  PROVE  Sound(m2, [s EXCEPT ![c] = Append(s[c], k)], loose \ {k})
<1> DEFINE v == s[c]
           u == Append(v, k)
           s2 == [s EXCEPT ![c] = u]
<1>1. /\ m \in Memory /\ s \in [Chains -> Seq(Links)] /\ v \in Seq(Links)
      /\ Woven(m.next, m.previous, EndsIn(m), s) /\ Filled(m, s) /\ Unused(m)
      /\ loose \in SUBSET Links /\ k \in Links /\ ~OnChain(s, k)
      /\ \A j \in loose : ~OnChain(s, j)
      /\ \A j \in Links : j \in m.allocated <=> OnChain(s, j) \/ j \in loose
  BY SoundFields
<1>2. PICK n \in Nat : n = Len(v) /\ \A p \in 1..n : v[p] \in Links
  BY <1>1
<1>3. /\ u \in Seq(Links) /\ Len(u) = n + 1 /\ u[n + 1] = k
      /\ \A p \in 1..n : u[p] = v[p]
  BY <1>1, <1>2, AppendProperties
<1>4. Woven(m2.next, m2.previous, EndsIn(m2), s2)
  <2>1. m2.next \in [Links -> Links \cup {Null}] /\ m2.previous \in [Links -> Links \cup {Null}]
    BY MemoryFields
  <2>. QED
    BY <1>1, <2>1, AppendWeaves, Zenon
<1>0. s2 = [s EXCEPT ![c] = u]
  OBVIOUS
<1> HIDE DEF u, v, s2
<1>5. \A d \in Chains : \A p \in 1..Len(s[d]) : s[d][p] \in Links /\ s[d][p] # k
  <2>1. \A d \in Chains : s[d] \in Seq(Links)
    BY <1>1
  <2>. QED
    BY <1>1, <2>1 DEF OnChain
<1>6. \A j \in Links : OnChain(s2, j) <=> OnChain(s, j) \/ j = k
  <2>1. ASSUME NEW j \in Links PROVE On(u, j) <=> On(v, j) \/ j = k
    <3>1. \A p \in 1..(n + 1) : p \in 1..n \/ p = n + 1
      OBVIOUS
    <3>2. n + 1 \in 1..(n + 1) /\ \A p \in 1..n : p \in 1..(n + 1)
      OBVIOUS
    <3>. QED
      BY <1>2, <1>3, <3>1, <3>2 DEF On
  <2>2. /\ \A j \in Links : OnChain(s2, j) <=> On(u, j) \/ OnOthers(s, c, j)
        /\ \A j \in Links : OnChain(s, j) <=> On(s[c], j) \/ OnOthers(s, c, j)
    <3>1. s \in [Chains -> Seq(Links)] /\ u \in Seq(Links)
      BY <1>1, <1>3
    <3>. QED
      BY <1>0, <3>1, ChainReplaced, Zenon
  <2>. QED
    BY <2>1, <2>2 DEF v
<1>7. Filled(m2, s2)
  <2>1. KeptItems(m, m2, s, c)
    BY <1>5 DEF KeptItems
  <2>2. ASSUME NEW p \in 1..Len(u) PROVE m2.item[u[p]] \in ItemsIn(c)
    <3>1. p \in 1..n \/ p = n + 1
      BY <1>3
    <3>2. CASE p \in 1..n
      <4>1. v[p] \in Links /\ v[p] # k
        BY <1>2, <1>5, <3>2 DEF v
      <4>2. m.item[v[p]] \in ItemsIn(c)
        BY <1>1, <1>2, <3>2 DEF Filled, v
      <4>. QED
        BY <1>3, <3>2, <4>1, <4>2
    <3>3. CASE p = n + 1
      BY <1>3, <3>3
    <3>. QED
      BY <3>1, <3>2, <3>3
  <2>3. c.of = "cache" => Len(u) <= CacheSize
    BY <1>2, <1>3, ListConstants DEF v
  <2>4. FilledWith(m2, c, u)
    BY <2>2, <2>3 DEF FilledWith
  <2>. QED
    BY <1>0, <1>1, <1>3, <2>1, <2>4, FilledReplaced, Zenon
<1>8. Placed(m2, s2, loose \ {k})
  BY <1>1, <1>6 DEF Placed
<1>9. Unused(m2)
  <2>1. ASSUME NEW j \in Links, j \notin m2.allocated
        PROVE  m2.next[j] = Null /\ m2.previous[j] = Null /\ m2.item[j] = Null
    <3>1. j # k /\ ~OnChain(s, j)
      BY <1>1, <2>1
    <3>2. j # LastLink(v)
      <4>1. CASE n = 0
        BY <4>1, <1>2, ListConstants DEF LastLink
      <4>2. CASE n # 0
        <5>1. n \in 1..Len(s[c]) /\ LastLink(v) = s[c][n]
          BY <1>2, <4>2 DEF LastLink, v
        <5>. QED
          BY <3>1, <5>1 DEF OnChain
      <4>. QED
        BY <4>1, <4>2
    <3>3. m.next[j] = Null /\ m.previous[j] = Null /\ m.item[j] = Null
      BY <1>1, <2>1 DEF Unused
    <3>. QED
      BY <3>1, <3>2, <3>3 DEF v, JoinedAtTail
  <2>. QED
    BY <2>1 DEF Unused
<1>. QED
  BY <1>4, <1>7, <1>8, <1>9 DEF Sound, u, v, s2

\* The links that leave the chain become loose, those that enter it were loose.
Exchanged(s, c, u, loose, loose2) ==
  /\ \A k \in loose2 : ~On(u, k) /\ ~OnOthers(s, c, k)
  /\ \A k \in Links : On(u, k) \/ k \in loose2 <=> On(s[c], k) \/ k \in loose

\* A chain is replaced.
LEMMA Rewoven ==
  ASSUME NEW m, NEW s, NEW loose, Sound(m, s, loose),
         NEW c \in Chains, NEW u \in Seq(Links), NEW s2, s2 = [s EXCEPT ![c] = u],
         NEW m2 \in Memory, m2.allocated = m.allocated, NEW loose2 \in SUBSET Links,
         Woven(m2.next, m2.previous, EndsIn(m2), s2),
         KeptItems(m, m2, s, c), FilledWith(m2, c, u), Unused(m2),
         Exchanged(s, c, u, loose, loose2)
  PROVE  Sound(m2, s2, loose2)
<1>1. /\ s \in [Chains -> Seq(Links)] /\ Filled(m, s)
      /\ \A k \in Links : k \in m.allocated <=> OnChain(s, k) \/ k \in loose
  BY SoundFields
<1>2. /\ \A k \in Links : OnChain(s2, k) <=> On(u, k) \/ OnOthers(s, c, k)
      /\ \A k \in Links : OnChain(s, k) <=> On(s[c], k) \/ OnOthers(s, c, k)
  <2>1. s \in [Chains -> Seq(Links)]
    BY <1>1
  <2>. QED
    BY <2>1, ChainReplaced, Zenon
<1>3. Filled(m2, s2)
  BY <1>1, FilledReplaced, Zenon
<1>4. Placed(m2, s2, loose2)
  <2>1. \A k \in loose2 : ~OnChain(s2, k)
    BY <1>2 DEF Exchanged
  <2>2. \A k \in Links : k \in m2.allocated <=> OnChain(s2, k) \/ k \in loose2
    BY <1>1, <1>2 DEF Exchanged
  <2>. QED
    BY <2>1, <2>2 DEF Placed
<1>. QED
  BY <1>3, <1>4 DEF Sound

\* The links of a chain when one is taken out.
LEMMA WithoutIs ==
  ASSUME NEW v \in Seq(Links), NEW x \in 1..Len(v), NEW u \in Seq(Links), IsWithout(u, v, x),
         \A p, r \in 1..Len(v) : v[p] = v[r] => p = r
  PROVE  /\ \A k \in Links : On(v, k) <=> On(u, k) \/ k = v[x]
         /\ ~On(u, v[x])
<1>1. PICK n \in Nat : n = Len(v) /\ x \in 1..n
  OBVIOUS
<1>2. Len(u) = n - 1 /\ \A p \in 1..(n - 1) : u[p] = IF p < x THEN v[p] ELSE v[p + 1]
  BY <1>1 DEF IsWithout
<1>3. ASSUME NEW p \in 1..(n - 1)
      PROVE  \E r \in 1..n : r # x /\ u[p] = v[r]
  <2>1. CASE p < x
    <3>1. p \in 1..n /\ p # x /\ u[p] = v[p]
      BY <1>1, <1>2, <2>1
    <3>. QED
      BY <3>1
  <2>2. CASE ~(p < x)
    <3>1. p + 1 \in 1..n /\ p + 1 # x /\ u[p] = v[p + 1]
      BY <1>1, <1>2, <2>2
    <3>. QED
      BY <3>1
  <2>. QED
    BY <2>1, <2>2
<1>4. ASSUME NEW r \in 1..n, r # x
      PROVE  \E p \in 1..(n - 1) : u[p] = v[r]
  <2>1. CASE r < x
    <3>1. r \in 1..(n - 1) /\ u[r] = v[r]
      BY <1>1, <1>2, <2>1
    <3>. QED
      BY <3>1
  <2>2. CASE x < r
    <3>1. r - 1 \in 1..(n - 1) /\ ~(r - 1 < x) /\ r - 1 + 1 = r
      BY <1>1, <2>2
    <3>2. u[r - 1] = v[r]
      BY <1>2, <3>1
    <3>. QED
      BY <3>1, <3>2
  <2>. QED
    BY <1>1, <1>4, <2>1, <2>2
<1>5. ~On(u, v[x])
  BY <1>1, <1>2, <1>3 DEF On
<1>6. ASSUME NEW k \in Links PROVE On(v, k) <=> On(u, k) \/ k = v[x]
  <2>1. ASSUME On(v, k), k # v[x] PROVE On(u, k)
    <3>1. PICK r \in 1..n : v[r] = k
      BY <1>1, <2>1 DEF On
    <3>. QED
      BY <1>2, <1>4, <2>1, <3>1 DEF On
  <2>2. ASSUME On(u, k) PROVE On(v, k)
    BY <1>1, <1>2, <1>3, <2>2 DEF On
  <2>3. On(v, v[x])
    BY <1>1 DEF On
  <2>. QED
    BY <2>1, <2>2, <2>3
<1>. QED
  BY <1>5, <1>6

SameItemsBut(m, m2, k) == \A j \in Links : j # k => m2.item[j] = m.item[j]

\* The link at position x of c is taken out of its chain.
LEMMA Taken ==
  ASSUME NEW m, NEW s, NEW loose, Sound(m, s, loose),
         NEW c \in Chains, NEW x \in 1..Len(s[c]),
         NEW u \in Seq(Links), IsWithout(u, s[c], x), NEW s2, s2 = [s EXCEPT ![c] = u],
         NEW m2 \in Memory, m2.allocated = m.allocated,
         PartedAt(m.next, m.previous, m2.next, m2.previous, s[c], x),
         EndsIn(m2)[c] = EndsOf(u), KeptEnds(EndsIn(m), EndsIn(m2), c),
         SameItemsBut(m, m2, s[c][x]), NEW loose2, loose2 = loose \cup {s[c][x]}
  PROVE  Sound(m2, s2, loose2)
<1> DEFINE v == s[c]
           k == v[x]
<1>1. /\ m \in Memory /\ s \in [Chains -> Seq(Links)] /\ Apart(s)
      /\ Woven(m.next, m.previous, EndsIn(m), s) /\ Filled(m, s) /\ Unused(m)
      /\ loose \in SUBSET Links
      /\ \A j \in loose : ~OnChain(s, j)
      /\ \A j \in Links : j \in m.allocated <=> OnChain(s, j) \/ j \in loose
  BY SoundFields
<1>2. /\ v \in Seq(Links) /\ \A p \in 1..Len(v) : v[p] \in Links
      /\ \A p, r \in 1..Len(v) : v[p] = v[r] => p = r
  <2>1. v \in Seq(Links) /\ \A p \in 1..Len(v) : v[p] \in Links
    BY <1>1
  <2>2. Apart(s)
    BY <1>1
  <2>3. \A p, r \in 1..Len(v) : v[p] = v[r] => p = r
    BY <2>2 DEF Apart
  <2>. QED
    BY <2>1, <2>3
<1>3. k \in Links /\ loose2 \in SUBSET Links /\ OnChain(s, k)
  BY <1>1, <1>2 DEF OnChain
<1>4. (\A j \in Links : On(v, j) <=> On(u, j) \/ j = k) /\ ~On(u, k)
  BY <1>2, WithoutIs
<1>5. Woven(m2.next, m2.previous, EndsIn(m2), s2)
  <2>1. m2.next \in [Links -> Links \cup {Null}] /\ m2.previous \in [Links -> Links \cup {Null}]
    BY MemoryFields
  <2>2. Woven(m.next, m.previous, EndsIn(m), s)
    BY <1>1
  <2>. QED
    BY <2>1, <2>2, TakeWeaves
<1>6. \A j \in Links : OnChain(s, j) <=> On(v, j) \/ OnOthers(s, c, j)
  BY Zenon DEF OnChain, On, OnOthers
<1>7. ~OnOthers(s, c, k)
  BY <1>1 DEF OnOthers, On, Apart
<1>8. KeptItems(m, m2, s, c)
  <2>1. ASSUME NEW d \in Chains, d # c, NEW p \in 1..Len(s[d])
        PROVE  s[d][p] \in Links /\ s[d][p] # k
    <3>1. s[d] \in Seq(Links)
      BY <1>1
    <3>. QED
      BY <1>7, <2>1, <3>1 DEF OnOthers, On
  <2>. QED
    BY <2>1 DEF KeptItems, SameItemsBut
<1>9. FilledWith(m2, c, u)
  <2>1. ASSUME NEW p \in 1..Len(u) PROVE m2.item[u[p]] \in ItemsIn(c)
    <3>1. u[p] \in Links /\ On(u, u[p])
      BY DEF On
    <3>2. u[p] # k /\ On(v, u[p])
      BY <1>4, <3>1
    <3>3. PICK r \in 1..Len(v) : v[r] = u[p]
      BY <3>2 DEF On
    <3>4. m.item[u[p]] \in ItemsIn(c)
      BY <1>1, <3>3 DEF Filled
    <3>. QED
      BY <3>1, <3>2, <3>4 DEF SameItemsBut
  <2>2. c.of = "cache" => Len(u) <= CacheSize
    <3>1. Len(u) = Len(v) - 1 /\ Len(v) \in Nat
      BY <1>2 DEF IsWithout
    <3>2. c.of = "cache" => Len(v) <= CacheSize
      BY <1>1 DEF Filled
    <3>. QED
      BY <3>1, <3>2, ListConstants
  <2>. QED
    BY <2>1, <2>2 DEF FilledWith
<1>10. Unused(m2)
  <2>1. ASSUME NEW j \in Links, j \notin m2.allocated
        PROVE  m2.next[j] = Null /\ m2.previous[j] = Null /\ m2.item[j] = Null
    <3>1. j # k /\ ~OnChain(s, j)
      BY <1>1, <1>3, <2>1
    <3>2. \A p \in 1..Len(v) : v[p] # j
      BY <3>1 DEF OnChain
    <3>3. j # Before(v, x) /\ j # After(v, x)
      <4>1. x # 1 => x - 1 \in 1..Len(v)
        OBVIOUS
      <4>2. x # Len(v) => x + 1 \in 1..Len(v)
        BY <1>2
      <4>. QED
        BY <3>2, <4>1, <4>2, ListConstants DEF Before, After
    <3>4. m.next[j] = Null /\ m.previous[j] = Null /\ m.item[j] = Null
      BY <1>1, <2>1 DEF Unused
    <3>. QED
      BY <3>1, <3>3, <3>4 DEF PartedAt, SameItemsBut
  <2>. QED
    BY <2>1 DEF Unused
<1>11. \A j \in loose2 : ~On(u, j) /\ ~OnOthers(s, c, j)
  BY <1>1, <1>3, <1>4, <1>6, <1>7
<1>12. \A j \in Links : On(u, j) \/ j \in loose2 <=> On(v, j) \/ j \in loose
  BY <1>4
<1>13. Exchanged(s, c, u, loose, loose2) /\ loose2 \in SUBSET Links
  BY <1>3, <1>11, <1>12 DEF Exchanged
<1>. QED
  BY <1>5, <1>8, <1>9, <1>10, <1>13, Rewoven

\* The links off the chains may change.
LEMMA ElsewhereWoven ==
  ASSUME NEW nx, NEW pv, NEW q, NEW s, Woven(nx, pv, q, s),
         NEW nx2 \in [Links -> Links \cup {Null}], NEW pv2 \in [Links -> Links \cup {Null}],
         \A j \in Links : OnChain(s, j) => nx2[j] = nx[j] /\ pv2[j] = pv[j]
  PROVE  Woven(nx2, pv2, q, s)
<1>1. /\ s \in [Chains -> Seq(Links)] /\ Apart(s)
      /\ \A c \in Chains : q[c] = EndsOf(s[c]) /\ Linear(nx, pv, s[c])
  BY DEF Woven
<1>2. ASSUME NEW c \in Chains PROVE Linear(nx2, pv2, s[c])
  <2>1. s[c] \in Seq(Links)
    BY <1>1
  <2>2. \A p \in 1..Len(s[c]) : s[c][p] \in Links /\ OnChain(s, s[c][p])
    BY <2>1 DEF OnChain
  <2>. QED
    BY <1>1, <2>2 DEF Linear
<1>. QED
  BY <1>1, <1>2 DEF Woven

\* A chain is given up: the others stay as they were.
LEMMA EmptyWoven ==
  ASSUME NEW nx, NEW pv, NEW q, NEW s, Woven(nx, pv, q, s), NEW c \in Chains,
         NEW q2, q2[c] = EndsOf(<<>>), KeptEnds(q, q2, c), NEW s2, s2 = [s EXCEPT ![c] = <<>>]
  PROVE  Woven(nx, pv, q2, s2)
<1>1. nx \in [Links -> Links \cup {Null}] /\ pv \in [Links -> Links \cup {Null}]
  BY DEF Woven
<1>2. <<>> \in Seq(Links) /\ Linear(nx, pv, <<>>) /\ Elsewhere(s, c, <<>>)
  BY EmptySeq DEF Linear, Elsewhere
<1>3. Kept(nx, pv, nx, pv, s, c)
  BY DEF Kept
<1>. QED
  BY <1>1, <1>2, <1>3, OneChainChanges

\* A list or a cache forgets its links.
LEMMA Dropped ==
  ASSUME NEW m, NEW s, NEW loose, Sound(m, s, loose), NEW c \in Chains,
         NEW m2 \in Memory, m2.next = m.next, m2.previous = m.previous, m2.item = m.item,
         m2.allocated = m.allocated,
         EndsIn(m2)[c] = EndsOf(<<>>), KeptEnds(EndsIn(m), EndsIn(m2), c),
         NEW s2, s2 = [s EXCEPT ![c] = <<>>],
         NEW loose2 \in SUBSET Links, \A k \in Links : k \in loose2 <=> k \in loose \/ On(s[c], k)
  PROVE  Sound(m2, s2, loose2)
<1>1. /\ s \in [Chains -> Seq(Links)] /\ Apart(s) /\ Woven(m.next, m.previous, EndsIn(m), s)
      /\ Unused(m) /\ \A j \in loose : ~OnChain(s, j)
  BY SoundFields
<1>2. Woven(m2.next, m2.previous, EndsIn(m2), s2)
  BY <1>1, EmptyWoven
<1>3. Unused(m2)
  BY <1>1 DEF Unused
<1>4. KeptItems(m, m2, s, c)
  BY DEF KeptItems
<1>5. <<>> \in Seq(Links) /\ FilledWith(m2, c, <<>>) /\ \A k : ~On(<<>>, k)
  BY EmptySeq, ListConstants DEF FilledWith, On
<1>6. Exchanged(s, c, <<>>, loose, loose2)
  <2>1. ASSUME NEW k \in loose2 PROVE ~OnOthers(s, c, k)
    <3>1. k \in Links
      OBVIOUS
    <3>2. CASE k \in loose
      BY <1>1, <3>2 DEF OnChain, OnOthers, On
    <3>3. CASE On(s[c], k)
      BY <1>1, <3>3 DEF OnOthers, On, Apart
    <3>. QED
      BY <3>1, <3>2, <3>3
  <2>. QED
    BY <1>5, <2>1 DEF Exchanged
<1>. QED
  BY <1>2, <1>3, <1>4, <1>5, <1>6, Rewoven

\* The assignments of Delete.
DeletedFrom(m, m2, k) ==
  /\ m2 \in Memory /\ m2.list = m.list /\ m2.cache = m.cache
  /\ m2.allocated = m.allocated \ {k} /\ m2.item = [m.item EXCEPT ![k] = Null]
  /\ m2.next = [m.next EXCEPT ![k] = Null]
  /\ m2.previous = [m.previous EXCEPT ![k] = Null]

\* Delete, field by field.
LEMMA DeleteFields ==
  ASSUME NEW m \in Memory, NEW k \in Links, NEW m2, m2 = Delete(m, k)
  PROVE  DeletedFrom(m, m2, k)
<1>1. /\ m2.list = m.list /\ m2.cache = m.cache
      /\ m2.allocated = m.allocated \ {k} /\ m2.item = [m.item EXCEPT ![k] = Null]
      /\ m2.next = [m.next EXCEPT ![k] = Null]
      /\ m2.previous = [m.previous EXCEPT ![k] = Null]
  BY DEF Memory, Delete
<1>2. m2 = [previous |-> m2.previous, next |-> m2.next, item |-> m2.item,
            allocated |-> m2.allocated, list |-> m2.list, cache |-> m2.cache]
  BY DEF Memory, Delete
<1>3. /\ m2.previous \in [Links -> Links \cup {Null}] /\ m2.next \in [Links -> Links \cup {Null}]
      /\ m2.item \in [Links -> Items \cup {Null}] /\ m2.allocated \in SUBSET Links
  BY <1>1, MemoryFields
<1>. QED
  BY <1>1, <1>2, <1>3, MemoryFields DEF Memory, DeletedFrom

SameNeighbours(m, m2, s) ==
  \A j \in Links : OnChain(s, j) => m2.next[j] = m.next[j] /\ m2.previous[j] = m.previous[j]

\* A memory with the same chains, whose other links differ.
LEMMA SameChains ==
  ASSUME NEW m, NEW s, NEW loose, Sound(m, s, loose),
         NEW m2 \in Memory, EndsIn(m2) = EndsIn(m),
         SameNeighbours(m, m2, s), Filled(m2, s), Unused(m2),
         NEW loose2, Placed(m2, s, loose2)
  PROVE  Sound(m2, s, loose2)
<1>1. Woven(m.next, m.previous, EndsIn(m), s)
  BY SoundFields
<1>2. Woven(m2.next, m2.previous, EndsIn(m2), s)
  <2>1. m2.next \in [Links -> Links \cup {Null}] /\ m2.previous \in [Links -> Links \cup {Null}]
    BY MemoryFields
  <2>. QED
    BY <1>1, <2>1, ElsewhereWoven DEF SameNeighbours
<1>. QED
  BY <1>2 DEF Sound

\* What the links hold is a matter of their items only.
LEMMA FilledAlike ==
  ASSUME NEW m, NEW m2, NEW s \in [Chains -> Seq(Links)], Filled(m, s),
         \A j \in Links : OnChain(s, j) => m2.item[j] = m.item[j]
  PROVE  Filled(m2, s)
<1>1. ASSUME NEW c \in Chains, NEW p \in 1..Len(s[c])
      PROVE  m2.item[s[c][p]] = m.item[s[c][p]]
  <2>1. s[c] \in Seq(Links)
    OBVIOUS
  <2>2. s[c][p] \in Links /\ OnChain(s, s[c][p])
    BY <2>1 DEF OnChain
  <2>. QED
    BY <2>2
<1>. QED
  BY <1>1 DEF Filled

\* delete of a loose link.
LEMMA Deleted ==
  ASSUME NEW m, NEW s, NEW loose, Sound(m, s, loose), NEW k \in loose,
         NEW m2, m2 = Delete(m, k)
  PROVE  Sound(m2, s, loose \ {k})
<1>1. /\ m \in Memory /\ s \in [Chains -> Seq(Links)] /\ Filled(m, s) /\ Unused(m)
      /\ loose \in SUBSET Links /\ k \in Links
      /\ \A j \in loose : ~OnChain(s, j)
      /\ \A j \in Links : j \in m.allocated <=> OnChain(s, j) \/ j \in loose
  BY SoundFields
<1>2. /\ m2 \in Memory /\ m2.list = m.list /\ m2.cache = m.cache
      /\ m2.allocated = m.allocated \ {k} /\ m2.item = [m.item EXCEPT ![k] = Null]
      /\ m2.next = [m.next EXCEPT ![k] = Null]
      /\ m2.previous = [m.previous EXCEPT ![k] = Null]
  <2>1. m \in Memory /\ k \in Links
    BY <1>1
  <2>. QED
    BY <2>1, DeleteFields DEF DeletedFrom
<1>3. \A j \in Links : j # k => /\ m2.next[j] = m.next[j] /\ m2.previous[j] = m.previous[j]
                               /\ m2.item[j] = m.item[j]
  BY <1>1, <1>2, MemoryFields
<1>4. m2.next[k] = Null /\ m2.previous[k] = Null /\ m2.item[k] = Null
  BY <1>1, <1>2, MemoryFields
<1>5. EndsIn(m2) = EndsIn(m)
  <2>1. ASSUME NEW c \in Chains PROVE m2[c.of][c.list] = m[c.of][c.list]
    <3>1. c.of = "list" \/ c.of = "cache"
      BY ChainKinds
    <3>. QED
      BY <1>2, <3>1
  <2>. QED
    BY <2>1 DEF EndsIn
<1>6. Filled(m2, s)
  BY <1>1, <1>3, FilledAlike
<1>7. Unused(m2)
  BY <1>1, <1>2, <1>3, <1>4 DEF Unused
<1>8. SameNeighbours(m, m2, s)
  BY <1>1, <1>3 DEF SameNeighbours
<1>9. Placed(m2, s, loose \ {k})
  BY <1>1, <1>2 DEF Placed
<1>. QED
  BY <1>2, <1>5, <1>6, <1>7, <1>8, <1>9, SameChains

WithItem(m, k, i) == [m EXCEPT !.item[k] = i]

\* m2 holds the items of m, but i at the link k.
ItemPut(m, m2, k, i) == m2.item = [m.item EXCEPT ![k] = i]

MayHold(s, loose, k, i) ==
  k \in loose \/ (i \in Items /\ \E l \in Lists : On(s[ListOf(l)], k))

\* A loose link gets an item, or a link of a list another one.
LEMMA ItemSet ==
  ASSUME NEW m, NEW s, NEW loose, Sound(m, s, loose), NEW k \in Links, NEW i \in Items \cup {Null},
         MayHold(s, loose, k, i), NEW m2, m2 = WithItem(m, k, i)
  PROVE  Sound(m2, s, loose) /\ ItemPut(m, m2, k, i)
<1>0. k \in loose \/ (i \in Items /\ \E l \in Lists : On(s[ListOf(l)], k))
  BY DEF MayHold
<1>1. /\ m \in Memory /\ s \in [Chains -> Seq(Links)] /\ Apart(s) /\ Filled(m, s) /\ Unused(m)
      /\ loose \in SUBSET Links
      /\ \A j \in loose : ~OnChain(s, j)
      /\ \A j \in Links : j \in m.allocated <=> OnChain(s, j) \/ j \in loose
  BY SoundFields
<1>2. /\ m2.list = m.list /\ m2.cache = m.cache /\ m2.next = m.next /\ m2.previous = m.previous
      /\ m2.allocated = m.allocated /\ m2.item = [m.item EXCEPT ![k] = i]
  BY <1>1 DEF Memory, WithItem
<1>3. m2 \in Memory
  <2>1. m2 = [previous |-> m2.previous, next |-> m2.next, item |-> m2.item,
              allocated |-> m2.allocated, list |-> m2.list, cache |-> m2.cache]
    BY <1>1 DEF Memory, WithItem
  <2>2. m2.item \in [Links -> Items \cup {Null}]
    BY <1>1, <1>2, MemoryFields
  <2>. QED
    BY <1>1, <1>2, <2>1, <2>2, MemoryFields DEF Memory
<1>4. m2.item[k] = i /\ \A j \in Links : j # k => m2.item[j] = m.item[j]
  BY <1>1, <1>2, MemoryFields
<1>5. EndsIn(m2) = EndsIn(m)
  <2>1. ASSUME NEW c \in Chains PROVE m2[c.of][c.list] = m[c.of][c.list]
    <3>1. c.of = "list" \/ c.of = "cache"
      BY ChainKinds
    <3>. QED
      BY <1>2, <3>1
  <2>. QED
    BY <2>1 DEF EndsIn
<1>6. Filled(m2, s)
  <2>1. CASE k \in loose
    <3>1. \A j \in Links : OnChain(s, j) => m2.item[j] = m.item[j]
      BY <1>1, <1>4, <2>1
    <3>. QED
      BY <1>1, <3>1, FilledAlike
  <2>2. ASSUME i \in Items, NEW l \in Lists, On(s[ListOf(l)], k) PROVE Filled(m2, s)
    <3>1. ListOf(l) \in Chains /\ ListOf(l).of = "list"
      BY ChainKinds DEF ListOf
    <3>2. PICK x \in 1..Len(s[ListOf(l)]) : s[ListOf(l)][x] = k
      BY <2>2 DEF On
    <3>3. ASSUME NEW c \in Chains, NEW p \in 1..Len(s[c]) PROVE m2.item[s[c][p]] \in ItemsIn(c)
      <4>1. s[c] \in Seq(Links)
        BY <1>1
      <4>2. s[c][p] \in Links
        BY <4>1
      <4>3. CASE s[c][p] = k
        <5>1. c = ListOf(l)
          BY <1>1, <3>1, <3>2, <4>3 DEF Apart
        <5>. QED
          BY <1>4, <2>2, <3>1, <4>3, <5>1 DEF ItemsIn
      <4>4. CASE s[c][p] # k
        BY <1>1, <1>4, <4>2, <4>4 DEF Filled
      <4>. QED
        BY <4>3, <4>4
    <3>. QED
      BY <1>1, <3>3 DEF Filled
  <2>. QED
    BY <1>0, <2>1, <2>2
<1>7. Unused(m2)
  <2>1. k \in m.allocated
    <3>1. ASSUME NEW l \in Lists, On(s[ListOf(l)], k) PROVE OnChain(s, k)
      BY <3>1, ChainKinds DEF On, OnChain
    <3>. QED
      BY <1>0, <1>1, <3>1
  <2>. QED
    BY <1>1, <1>2, <1>4, <2>1 DEF Unused
<1>8. SameNeighbours(m, m2, s)
  BY <1>2 DEF SameNeighbours
<1>9. Placed(m2, s, loose)
  BY <1>1, <1>2 DEF Placed
<1>10. Sound(m2, s, loose)
  BY <1>3, <1>5, <1>6, <1>7, <1>8, <1>9, SameChains
<1>. QED
  BY <1>2, <1>10 DEF ItemPut

\* new: a link that was free is loose.
LEMMA Fresh ==
  ASSUME NEW m, NEW s, NEW loose, Sound(m, s, loose), NEW k \in Links, k \notin m.allocated,
         NEW m2, m2 = [m EXCEPT !.allocated = @ \cup {k}]
  PROVE  /\ Sound(m2, s, loose \cup {k}) /\ m2.item = m.item /\ k \notin loose
         /\ m2.list = m.list /\ m2.cache = m.cache /\ m.item[k] = Null
<1>1. /\ m \in Memory /\ s \in [Chains -> Seq(Links)] /\ Filled(m, s) /\ Unused(m)
      /\ loose \in SUBSET Links
      /\ \A j \in loose : ~OnChain(s, j)
      /\ \A j \in Links : j \in m.allocated <=> OnChain(s, j) \/ j \in loose
  BY SoundFields
<1>2. /\ m2.list = m.list /\ m2.cache = m.cache /\ m2.next = m.next /\ m2.previous = m.previous
      /\ m2.allocated = m.allocated \cup {k} /\ m2.item = m.item
  BY <1>1 DEF Memory
<1>3. m2 \in Memory
  BY <1>1 DEF Memory
<1>5. EndsIn(m2) = EndsIn(m)
  <2>1. ASSUME NEW c \in Chains PROVE m2[c.of][c.list] = m[c.of][c.list]
    <3>1. c.of = "list" \/ c.of = "cache"
      BY ChainKinds
    <3>. QED
      BY <1>2, <3>1
  <2>. QED
    BY <2>1 DEF EndsIn
<1>6. Filled(m2, s) /\ Unused(m2)
  BY <1>1, <1>2 DEF Filled, Unused
<1>7. \A j \in loose \cup {k} : ~OnChain(s, j)
  BY <1>1
<1>8. SameNeighbours(m, m2, s)
  BY <1>2 DEF SameNeighbours
<1>9. Placed(m2, s, loose \cup {k})
  BY <1>1, <1>2, <1>7 DEF Placed
<1>10. Sound(m2, s, loose \cup {k})
  BY <1>3, <1>5, <1>6, <1>8, <1>9, SameChains
<1>. QED
  BY <1>1, <1>2, <1>10 DEF Unused

-----------------------------------------------------------------------------
\* The ends of a list and of its cache.
LEMMA SoundEnds ==
  ASSUME NEW m, NEW s, NEW loose, Sound(m, s, loose), NEW l \in Lists
  PROVE  /\ m.list[l] = EndsOf(s[ListOf(l)]) /\ m.cache[l] = EndsOf(s[CacheOf(l)])
         /\ s[ListOf(l)] \in Seq(Links) /\ s[CacheOf(l)] \in Seq(Links)
<1>1. \A c \in Chains : EndsIn(m)[c] = EndsOf(s[c]) /\ s[c] \in Seq(Links)
  <2>1. Woven(m.next, m.previous, EndsIn(m), s) /\ s \in [Chains -> Seq(Links)]
    BY SoundFields
  <2>. QED
    BY <2>1 DEF Woven
<1>2. ListOf(l) \in Chains /\ CacheOf(l) \in Chains
  BY ChainKinds
<1>. QED
  BY <1>1, <1>2, EndsInLists

\* A memory is its fields.
LEMMA SameMemory ==
  ASSUME NEW m \in Memory, NEW m2 \in Memory,
         m.previous = m2.previous, m.next = m2.next, m.item = m2.item,
         m.allocated = m2.allocated, m.list = m2.list, m.cache = m2.cache
  PROVE  m = m2
<1>1. m = [previous |-> m.previous, next |-> m.next, item |-> m.item,
           allocated |-> m.allocated, list |-> m.list, cache |-> m.cache]
  BY DEF Memory
<1>2. m2 = [previous |-> m2.previous, next |-> m2.next, item |-> m2.item,
            allocated |-> m2.allocated, list |-> m2.list, cache |-> m2.cache]
  BY DEF Memory
<1>. QED
  BY <1>1, <1>2

WithList(m, l, q)  == [m EXCEPT !.list[l] = q]
WithCache(m, l, q) == [m EXCEPT !.cache[l] = q]

\* The ends of a list or of a cache are written.
LEMMA ListWritten ==
  ASSUME NEW m \in Memory, NEW l \in Lists, NEW q \in ChainEnds, NEW m2, m2 = WithList(m, l, q)
  PROVE  /\ m2 \in Memory /\ m2.previous = m.previous /\ m2.next = m.next
         /\ m2.item = m.item /\ m2.allocated = m.allocated /\ m2.cache = m.cache
         /\ m2.list[l] = q /\ \A j \in Lists : j # l => m2.list[j] = m.list[j]
<1>1. m2 = [m EXCEPT !.list[l] = q]
  BY DEF WithList
<1>2. /\ m2 \in Memory /\ m2.previous = m.previous /\ m2.next = m.next
      /\ m2.item = m.item /\ m2.allocated = m.allocated /\ m2.cache = m.cache
      /\ m2.list = [m.list EXCEPT ![l] = q]
  BY <1>1 DEF Memory
<1>. QED
  BY <1>2, MemoryFields

\* The same for a cache.
LEMMA CacheWritten ==
  ASSUME NEW m \in Memory, NEW l \in Lists, NEW q \in ChainEnds, NEW m2, m2 = WithCache(m, l, q)
  PROVE  /\ m2 \in Memory /\ m2.previous = m.previous /\ m2.next = m.next
         /\ m2.item = m.item /\ m2.allocated = m.allocated /\ m2.list = m.list
         /\ m2.cache[l] = q /\ \A j \in Lists : j # l => m2.cache[j] = m.cache[j]
<1>1. m2 = [m EXCEPT !.cache[l] = q]
  BY DEF WithCache
<1>2. /\ m2 \in Memory /\ m2.previous = m.previous /\ m2.next = m.next
      /\ m2.item = m.item /\ m2.allocated = m.allocated /\ m2.list = m.list
      /\ m2.cache = [m.cache EXCEPT ![l] = q]
  BY <1>1 DEF Memory
<1>. QED
  BY <1>2, MemoryFields

AppendedTo(s, c, k) == [s EXCEPT ![c] = Append(s[c], k)]

\* AddItem: the link goes to the end of the list.
LEMMA Listed ==
  ASSUME NEW m, NEW s, NEW loose, Sound(m, s, loose), NEW k \in loose, NEW l \in Lists,
         m.item[k] \in Items, NEW m2, m2 = LinkAtTail(m, "list", l, k),
         NEW s2, s2 = AppendedTo(s, ListOf(l), k), NEW loose2, loose2 = loose \ {k}
  PROVE  Sound(m2, s2, loose2) /\ m2.item = m.item
<1> DEFINE c == ListOf(l)
           v == s[c]
<1>1. m \in Memory /\ k \in Links /\ v \in Seq(Links) /\ m.list[l] = EndsOf(v)
  BY SoundFields, SoundEnds
<1>2. /\ m2 \in Memory /\ m2.item = m.item /\ m2.allocated = m.allocated
      /\ m2["list"][l] = EndsOf(Append(v, k))
      /\ m2.cache = m.cache /\ \A j \in Lists : j # l => m2.list[j] = m.list[j]
      /\ JoinedAtTail(m.next, m.previous, m2.next, m2.previous, v, k)
  <2>1. m["list"][l] = EndsOf(v)
    BY <1>1
  <2> HIDE DEF v
  <2>. QED
    BY <1>1, <2>1, LinkAtTailEnds
<1>3. c \in Chains /\ c.of = "list"
  BY ChainKinds DEF ListOf
<1>4. EndsIn(m2)[c] = EndsOf(Append(v, k)) /\ KeptEnds(EndsIn(m), EndsIn(m2), c)
  BY <1>2, EndsInLists, EndsChange
<1>5. m2.item[k] \in ItemsIn(c)
  BY <1>2, <1>3 DEF ItemsIn
<1>6. /\ \A j \in Links : j # k => m2.item[j] = m.item[j]
      /\ c.of = "cache" => Len(s[c]) < CacheSize
  BY <1>2, <1>3
<1> HIDE DEF c
<1>7. Sound(m2, [s EXCEPT ![c] = Append(s[c], k)], loose \ {k})
  BY <1>2, <1>3, <1>4, <1>5, <1>6, Appended
<1>. QED
  BY <1>2, <1>7 DEF c, AppendedTo

SameLists(s, s2) == \A l \in Lists : s2[ListOf(l)] = s[ListOf(l)]

\* The memory fits the lists of s, with any caches.
FitsLists(m, s, loose) == \E s2 : Sound(m, s2, loose) /\ SameLists(s, s2)

\* The link k is released, into the cache or to the heap.
Discarded(m, m2, k) ==
  m2 \in Memory /\ m2.list = m.list /\ m2.item = [m.item EXCEPT ![k] = Null]

\* SafeReleaseLinkItem, while the ends of the list are not yet written: with
\* the ends q, memory and chains fit.
LEMMA Released ==
  ASSUME NEW m \in Memory, NEW l \in Lists, NEW q \in ChainEnds, NEW s, NEW loose,
         NEW w, w = WithList(m, l, q), Sound(w, s, loose), NEW k \in loose,
         NEW m2, m2 = SafeReleaseLinkItem(m, l, k), NEW w2, w2 = WithList(m2, l, q)
  PROVE  Discarded(m, m2, k) /\ FitsLists(w2, s, loose \ {k})
<1> DEFINE c == CacheOf(l)
           v == s[c]
<1>1. /\ w \in Memory /\ w.previous = m.previous /\ w.next = m.next
      /\ w.item = m.item /\ w.allocated = m.allocated /\ w.cache = m.cache
      /\ w.list[l] = q /\ \A j \in Lists : j # l => w.list[j] = m.list[j]
  BY ListWritten
<1>2. k \in Links /\ v \in Seq(Links) /\ m.cache[l] = EndsOf(v)
  BY <1>1, SoundFields, SoundEnds
<1>3. m.cache[l].n = Len(v)
  BY <1>2, EndsOfSeq
<1>4. c \in Chains /\ c.of = "cache"
  BY ChainKinds DEF CacheOf
<1>5. CASE m.cache[l].n >= CacheSize
  <2>0. k \in Links /\ w \in Memory
    BY <1>1, <1>2
  <2>1. m2 = Delete(m, k)
    BY <1>5 DEF SafeReleaseLinkItem
  <2>2. /\ m2 \in Memory /\ m2.list = m.list /\ m2.cache = m.cache
        /\ m2.allocated = m.allocated \ {k} /\ m2.item = [m.item EXCEPT ![k] = Null]
        /\ m2.next = [m.next EXCEPT ![k] = Null] /\ m2.previous = [m.previous EXCEPT ![k] = Null]
    <3>1. DeletedFrom(m, m2, k)
      BY <2>0, <2>1, DeleteFields
    <3>. QED
      BY <3>1 DEF DeletedFrom
  <2>3. PICK d : d = Delete(w, k)
    OBVIOUS
  <2>4. /\ d \in Memory /\ d.list = w.list /\ d.cache = w.cache
        /\ d.allocated = w.allocated \ {k} /\ d.item = [w.item EXCEPT ![k] = Null]
        /\ d.next = [w.next EXCEPT ![k] = Null] /\ d.previous = [w.previous EXCEPT ![k] = Null]
    <3>1. DeletedFrom(w, d, k)
      BY <2>0, <2>3, DeleteFields
    <3>. QED
      BY <3>1 DEF DeletedFrom
  <2>5. /\ w2 \in Memory /\ w2.previous = m2.previous /\ w2.next = m2.next
        /\ w2.item = m2.item /\ w2.allocated = m2.allocated /\ w2.cache = m2.cache
        /\ w2.list[l] = q /\ \A j \in Lists : j # l => w2.list[j] = m2.list[j]
    BY <2>2, ListWritten
  <2>6. w2 = d
    <3>1. w2.list = w.list
      BY <1>1, <2>2, <2>5, MemoryFields
    <3>2. /\ d.previous = w2.previous /\ d.next = w2.next /\ d.item = w2.item
          /\ d.allocated = w2.allocated /\ d.list = w2.list /\ d.cache = w2.cache
      BY <1>1, <2>2, <2>4, <2>5, <3>1
    <3>. QED
      BY <2>4, <2>5, <3>2, SameMemory
  <2>7. Sound(w2, s, loose \ {k})
    BY <2>3, <2>6, Deleted
  <2>. QED
    BY <2>2, <2>7 DEF SameLists, FitsLists, Discarded
<1>6. CASE ~(m.cache[l].n >= CacheSize)
  <2>1. PICK n : n = LinkAtTail(m, "cache", l, k)
    OBVIOUS
  <2>2. m2 = [n EXCEPT !.item[k] = Null]
    BY <1>6, <2>1 DEF SafeReleaseLinkItem
  <2>3. /\ n \in Memory /\ n.item = m.item /\ n.allocated = m.allocated
        /\ n["cache"][l] = EndsOf(Append(v, k))
        /\ n.list = m.list /\ \A j \in Lists : j # l => n.cache[j] = m.cache[j]
        /\ JoinedAtTail(m.next, m.previous, n.next, n.previous, v, k)
    <3>1. m["cache"][l] = EndsOf(v)
      BY <1>2
    <3> HIDE DEF v
    <3>. QED
      BY <1>2, <2>1, <3>1, LinkAtTailEnds
  <2>4. /\ m2.previous = n.previous /\ m2.next = n.next /\ m2.item = [m.item EXCEPT ![k] = Null]
        /\ m2.allocated = m.allocated /\ m2.list = m.list /\ m2.cache = n.cache
    BY <2>2, <2>3 DEF Memory
  <2>5. m2 \in Memory
    <3>1. m2 = [previous |-> m2.previous, next |-> m2.next, item |-> m2.item,
                allocated |-> m2.allocated, list |-> m2.list, cache |-> m2.cache]
      BY <2>2, <2>3 DEF Memory
    <3>2. m2.item \in [Links -> Items \cup {Null}]
      BY <1>2, <2>4, MemoryFields
    <3>. QED
      BY <2>3, <2>4, <3>1, <3>2, MemoryFields DEF Memory
  <2>6. /\ w2 \in Memory /\ w2.previous = m2.previous /\ w2.next = m2.next
        /\ w2.item = m2.item /\ w2.allocated = m2.allocated /\ w2.cache = m2.cache
        /\ w2.list[l] = q /\ \A j \in Lists : j # l => w2.list[j] = m2.list[j]
    BY <2>5, ListWritten
  <2>7. JoinedAtTail(w.next, w.previous, w2.next, w2.previous, v, k)
    BY <1>1, <2>3, <2>4, <2>6
  <2>8. EndsIn(w2)[c] = EndsOf(Append(v, k)) /\ KeptEnds(EndsIn(w), EndsIn(w2), c)
    <3>1. w2.list = w.list /\ w2.cache = n.cache
      BY <1>1, <2>4, <2>6, MemoryFields
    <3>2. w2.cache[l] = EndsOf(Append(v, k)) /\ \A j \in Lists : j # l => w2.cache[j] = w.cache[j]
      BY <1>1, <2>3, <3>1
    <3>3. EndsIn(w2)[c] = w2.cache[l]
      BY EndsInLists
    <3>. QED
      BY <3>1, <3>2, <3>3, EndsChange
  <2>9. /\ \A j \in Links : j # k => w2.item[j] = w.item[j]
        /\ w2.item[k] \in ItemsIn(c)
    <3>1. w2.item[k] = Null /\ \A j \in Links : j # k => w2.item[j] = w.item[j]
      BY <1>1, <1>2, <2>4, <2>6, MemoryFields
    <3>. QED
      BY <1>4, <3>1 DEF ItemsIn
  <2>10. c.of = "cache" => Len(s[c]) < CacheSize
    BY <1>2, <1>3, <1>6, ListConstants
  <2>11. w2.allocated = w.allocated
    BY <1>1, <2>4, <2>6
  <2> HIDE DEF c, v
  <2>12. Sound(w2, [s EXCEPT ![c] = Append(s[c], k)], loose \ {k})
    BY <1>4, <2>6, <2>7, <2>8, <2>9, <2>10, <2>11, Appended DEF v
  <2>13. SameLists(s, [s EXCEPT ![c] = Append(s[c], k)])
    <3>1. s \in [Chains -> Seq(Links)]
      BY SoundFields
    <3>2. \A j \in Lists : ListOf(j) \in Chains /\ ListOf(j) # c
      BY ChainKinds DEF c
    <3>. QED
      BY <3>1, <3>2 DEF SameLists
  <2>. QED
    BY <2>4, <2>5, <2>12, <2>13 DEF FitsLists, Discarded
<1>. QED
  BY <1>5, <1>6

-----------------------------------------------------------------------------
\* Unlink before the link goes to the cache.
LinkOut(m, l, k) ==
  IF m.list[l].head = m.list[l].tail
  THEN [m EXCEPT !.list[l].head = Null, !.list[l].tail = Null]
  ELSE IF k = m.list[l].head
  THEN [m EXCEPT !.next[k] = Null, !.previous[m.next[k]] = Null,
                 !.list[l].head = m.next[k]]
  ELSE IF k = m.list[l].tail
  THEN [m EXCEPT !.previous[k] = Null, !.next[m.previous[k]] = Null,
                 !.list[l].tail = m.previous[k]]
  ELSE [m EXCEPT !.next[m.previous[k]] = m.next[k],
                 !.previous[m.next[k]] = m.previous[k]]

\* out is m with other pointers, and with the ends h and t of the list l.
Repointed(m, out, l, nx, pv, h, t) ==
  /\ out \in Memory /\ out.item = m.item /\ out.allocated = m.allocated /\ out.cache = m.cache
  /\ out.next = nx /\ out.previous = pv
  /\ out.list[l] = [head |-> h, tail |-> t, n |-> m.list[l].n]
  /\ \A j \in Lists : j # l => out.list[j] = m.list[j]

\* Unlink of the only link of a list ...
LEMMA OutOnly ==
  ASSUME NEW m \in Memory, NEW l \in Lists, NEW out,
         out = [m EXCEPT !.list[l].head = Null, !.list[l].tail = Null]
  PROVE  Repointed(m, out, l, m.next, m.previous, Null, Null)
<1>1. out.list = [m.list EXCEPT ![l] = [head |-> Null, tail |-> Null, n |-> m.list[l].n]]
  <2>1. out.list = [m.list EXCEPT ![l].head = Null, ![l].tail = Null]
    BY DEF Memory
  <2>. QED
    BY <2>1, MemoryFields DEF ChainEnds
<1>2. /\ out.item = m.item /\ out.allocated = m.allocated /\ out.cache = m.cache
      /\ out.next = m.next /\ out.previous = m.previous
  BY DEF Memory
<1>3. out = [previous |-> out.previous, next |-> out.next, item |-> out.item,
             allocated |-> out.allocated, list |-> out.list, cache |-> out.cache]
  BY DEF Memory
<1>4. out.list \in [Lists -> ChainEnds]
  BY <1>1, MemoryFields DEF ChainEnds
<1>5. out \in Memory
  BY <1>2, <1>3, <1>4, MemoryFields DEF Memory
<1>. QED
  BY <1>1, <1>2, <1>5, MemoryFields DEF Repointed

\* ... of its head ...
LEMMA OutFirst ==
  ASSUME NEW m \in Memory, NEW l \in Lists, NEW k \in Links, NEW a \in Links, NEW out,
         out = [m EXCEPT !.next[k] = Null, !.previous[a] = Null, !.list[l].head = a]
  PROVE  Repointed(m, out, l, [m.next EXCEPT ![k] = Null], [m.previous EXCEPT ![a] = Null],
                   a, m.list[l].tail)
<1>1. out.list = [m.list EXCEPT ![l] = [head |-> a, tail |-> m.list[l].tail, n |-> m.list[l].n]]
  <2>1. out.list = [m.list EXCEPT ![l].head = a]
    BY DEF Memory
  <2>. QED
    BY <2>1, MemoryFields DEF ChainEnds
<1>2. /\ out.item = m.item /\ out.allocated = m.allocated /\ out.cache = m.cache
      /\ out.next = [m.next EXCEPT ![k] = Null] /\ out.previous = [m.previous EXCEPT ![a] = Null]
  BY DEF Memory
<1>3. out = [previous |-> out.previous, next |-> out.next, item |-> out.item,
             allocated |-> out.allocated, list |-> out.list, cache |-> out.cache]
  BY DEF Memory
<1>4. /\ out.list \in [Lists -> ChainEnds]
      /\ out.next \in [Links -> Links \cup {Null}] /\ out.previous \in [Links -> Links \cup {Null}]
  BY <1>1, <1>2, MemoryFields DEF ChainEnds
<1>5. out \in Memory
  BY <1>2, <1>3, <1>4, MemoryFields DEF Memory
<1>. QED
  BY <1>1, <1>2, <1>5, MemoryFields DEF Repointed

\* ... of its tail ...
LEMMA OutLast ==
  ASSUME NEW m \in Memory, NEW l \in Lists, NEW k \in Links, NEW b \in Links, NEW out,
         out = [m EXCEPT !.previous[k] = Null, !.next[b] = Null, !.list[l].tail = b]
  PROVE  Repointed(m, out, l, [m.next EXCEPT ![b] = Null], [m.previous EXCEPT ![k] = Null],
                   m.list[l].head, b)
<1>1. out.list = [m.list EXCEPT ![l] = [head |-> m.list[l].head, tail |-> b, n |-> m.list[l].n]]
  <2>1. out.list = [m.list EXCEPT ![l].tail = b]
    BY DEF Memory
  <2>. QED
    BY <2>1, MemoryFields DEF ChainEnds
<1>2. /\ out.item = m.item /\ out.allocated = m.allocated /\ out.cache = m.cache
      /\ out.next = [m.next EXCEPT ![b] = Null] /\ out.previous = [m.previous EXCEPT ![k] = Null]
  BY DEF Memory
<1>3. out = [previous |-> out.previous, next |-> out.next, item |-> out.item,
             allocated |-> out.allocated, list |-> out.list, cache |-> out.cache]
  BY DEF Memory
<1>4. /\ out.list \in [Lists -> ChainEnds]
      /\ out.next \in [Links -> Links \cup {Null}] /\ out.previous \in [Links -> Links \cup {Null}]
  BY <1>1, <1>2, MemoryFields DEF ChainEnds
<1>5. out \in Memory
  BY <1>2, <1>3, <1>4, MemoryFields DEF Memory
<1>. QED
  BY <1>1, <1>2, <1>5, MemoryFields DEF Repointed

\* ... and of one between two others.
LEMMA OutMiddle ==
  ASSUME NEW m \in Memory, NEW l \in Lists, NEW a \in Links, NEW b \in Links, NEW out,
         out = [m EXCEPT !.next[b] = a, !.previous[a] = b]
  PROVE  Repointed(m, out, l, [m.next EXCEPT ![b] = a], [m.previous EXCEPT ![a] = b],
                   m.list[l].head, m.list[l].tail)
<1>1. /\ out.item = m.item /\ out.allocated = m.allocated /\ out.cache = m.cache
      /\ out.next = [m.next EXCEPT ![b] = a] /\ out.previous = [m.previous EXCEPT ![a] = b]
      /\ out.list = m.list
  BY DEF Memory
<1>2. out = [previous |-> out.previous, next |-> out.next, item |-> out.item,
             allocated |-> out.allocated, list |-> out.list, cache |-> out.cache]
  BY DEF Memory
<1>3. out.next \in [Links -> Links \cup {Null}] /\ out.previous \in [Links -> Links \cup {Null}]
  BY <1>1, MemoryFields
<1>4. out \in Memory
  BY <1>1, <1>2, <1>3, MemoryFields DEF Memory
<1>5. m.list[l] = [head |-> m.list[l].head, tail |-> m.list[l].tail, n |-> m.list[l].n]
  BY MemoryFields DEF ChainEnds
<1>. QED
  BY <1>1, <1>4, <1>5 DEF Repointed

\* The removal of the link at position x: u is the chain without it.
OutAt(m, out, l, v, x, u) ==
  /\ out \in Memory /\ out.item = m.item /\ out.allocated = m.allocated
  /\ out.cache = m.cache
  /\ PartedAt(m.next, m.previous, out.next, out.previous, v, x)
  /\ out.list[l] = [head |-> FirstLink(u), tail |-> LastLink(u), n |-> Len(v)]
  /\ \A j \in Lists : j # l => out.list[j] = m.list[j]

\* What Unlink does to the pointers and ends, before the link goes to the cache.
LEMMA LinkOutParts ==
  ASSUME NEW m \in Memory, NEW l \in Lists, NEW v \in Seq(Links), NEW x \in 1..Len(v),
         m.list[l] = EndsOf(v), Linear(m.next, m.previous, v),
         NEW u \in Seq(Links), IsWithout(u, v, x), NEW out, out = LinkOut(m, l, v[x])
  PROVE  OutAt(m, out, l, v, x, u)
<1>0. SUFFICES /\ out \in Memory /\ out.item = m.item /\ out.allocated = m.allocated
               /\ out.cache = m.cache
               /\ PartedAt(m.next, m.previous, out.next, out.previous, v, x)
               /\ out.list[l] = [head |-> FirstLink(u), tail |-> LastLink(u), n |-> Len(v)]
               /\ \A j \in Lists : j # l => out.list[j] = m.list[j]
  BY DEF OutAt
<1> DEFINE k == v[x]
<1>1. PICK n \in Nat : n = Len(v) /\ x \in 1..n
  OBVIOUS
<1>2. /\ \A p \in 1..n : v[p] \in Links
      /\ \A p, r \in 1..n : v[p] = v[r] => p = r
      /\ \A p \in 1..n : m.next[v[p]] = After(v, p) /\ m.previous[v[p]] = Before(v, p)
  BY <1>1 DEF Linear
<1>3. m.list[l].head = v[1] /\ m.list[l].tail = v[n] /\ m.list[l].n = n
  BY <1>1 DEF EndsOf, FirstLink, LastLink
<1>4. /\ x # n => After(v, x) = v[x + 1] /\ m.next[k] = v[x + 1] /\ v[x + 1] \in Links
      /\ x = n => After(v, x) = Null
      /\ x # 1 => Before(v, x) = v[x - 1] /\ m.previous[k] = v[x - 1] /\ v[x - 1] \in Links
      /\ x = 1 => Before(v, x) = Null
  <2>1. x # n => x + 1 \in 1..n
    BY <1>1
  <2>2. x # 1 => x - 1 \in 1..n
    BY <1>1
  <2>. QED
    BY <1>1, <1>2, <2>1, <2>2 DEF After, Before
<1>5. Len(u) = n - 1 /\ \A p \in 1..(n - 1) : u[p] = IF p < x THEN v[p] ELSE v[p + 1]
  BY <1>1 DEF IsWithout
<1>6. /\ n = 1 => FirstLink(u) = Null /\ LastLink(u) = Null
      /\ n # 1 => /\ FirstLink(u) = (IF x = 1 THEN v[2] ELSE v[1])
                  /\ LastLink(u) = (IF x = n THEN v[n - 1] ELSE v[n])
  <2>1. n # 1 => n - 1 # 0 /\ 1 \in 1..(n - 1) /\ n - 1 \in 1..(n - 1)
    BY <1>1
  <2>2. n # 1 => FirstLink(u) = u[1] /\ LastLink(u) = u[n - 1]
    BY <1>5, <2>1 DEF FirstLink, LastLink
  <2>3. n # 1 => u[1] = (IF x = 1 THEN v[2] ELSE v[1])
    BY <1>1, <1>5, <2>1
  <2>4. n # 1 => u[n - 1] = (IF x = n THEN v[n - 1] ELSE v[n])
    BY <1>1, <1>5, <2>1
  <2>5. n = 1 => FirstLink(u) = Null /\ LastLink(u) = Null
    BY <1>5 DEF FirstLink, LastLink
  <2>. QED
    BY <2>2, <2>3, <2>4, <2>5
<1>7. k \in Links /\ Null \notin Links /\ \A j \in Links : j # Null
  BY <1>1, <1>2, ListConstants
<1>8. /\ v[1] = v[n] <=> n = 1
      /\ k = v[1] <=> x = 1
      /\ k = v[n] <=> x = n
  <2>1. 1 \in 1..n /\ n \in 1..n
    BY <1>1
  <2>. QED
    BY <1>1, <1>2, <2>1
<1>9. CASE n = 1
  <2>1. x = 1 /\ out = [m EXCEPT !.list[l].head = Null, !.list[l].tail = Null]
    BY <1>1, <1>3, <1>9 DEF LinkOut
  <2>2. Repointed(m, out, l, m.next, m.previous, Null, Null)
    BY <2>1, OutOnly
  <2>3. PartedAt(m.next, m.previous, out.next, out.previous, v, x)
    BY <1>4, <1>7, <1>9, <2>1, <2>2 DEF PartedAt, Repointed
  <2>. QED
    BY <1>1, <1>3, <1>6, <1>9, <2>2, <2>3 DEF Repointed
<1>10. CASE n # 1 /\ x = 1
  <2>1. PICK a \in Links : a = v[2] /\ a = m.next[k] /\ a = After(v, x)
    BY <1>1, <1>4, <1>10
  <2>2. out = [m EXCEPT !.next[k] = Null, !.previous[a] = Null, !.list[l].head = a]
    BY <1>3, <1>8, <1>10, <2>1 DEF LinkOut
  <2>3. Repointed(m, out, l, [m.next EXCEPT ![k] = Null], [m.previous EXCEPT ![a] = Null],
                  a, m.list[l].tail)
    <3> HIDE DEF k
    <3>. QED
      BY <1>7, <2>2, OutFirst
  <2>4. PartedAt(m.next, m.previous, out.next, out.previous, v, x)
    BY <1>4, <1>7, <1>10, <2>1, <2>3, MemoryFields DEF PartedAt, Repointed
  <2>. QED
    BY <1>1, <1>3, <1>6, <1>10, <2>1, <2>3, <2>4 DEF Repointed
<1>11. CASE n # 1 /\ x = n
  <2>1. PICK b \in Links : b = v[n - 1] /\ b = m.previous[k] /\ b = Before(v, x)
    BY <1>1, <1>4, <1>11
  <2>2. out = [m EXCEPT !.previous[k] = Null, !.next[b] = Null, !.list[l].tail = b]
    BY <1>3, <1>8, <1>11, <2>1 DEF LinkOut
  <2>3. Repointed(m, out, l, [m.next EXCEPT ![b] = Null], [m.previous EXCEPT ![k] = Null],
                  m.list[l].head, b)
    <3> HIDE DEF k
    <3>. QED
      BY <1>7, <2>2, OutLast
  <2>4. PartedAt(m.next, m.previous, out.next, out.previous, v, x)
    BY <1>4, <1>7, <1>11, <2>1, <2>3, MemoryFields DEF PartedAt, Repointed
  <2>. QED
    BY <1>1, <1>3, <1>6, <1>11, <2>1, <2>3, <2>4 DEF Repointed
<1>12. CASE n # 1 /\ x # 1 /\ x # n
  <2>1. PICK a \in Links : a = m.next[k] /\ a = After(v, x)
    BY <1>1, <1>4, <1>12
  <2>2. PICK b \in Links : b = m.previous[k] /\ b = Before(v, x)
    BY <1>1, <1>4, <1>12
  <2>3. out = [m EXCEPT !.next[b] = a, !.previous[a] = b]
    BY <1>3, <1>8, <1>12, <2>1, <2>2 DEF LinkOut
  <2>4. Repointed(m, out, l, [m.next EXCEPT ![b] = a], [m.previous EXCEPT ![a] = b],
                  m.list[l].head, m.list[l].tail)
    BY <2>3, OutMiddle
  <2>5. PartedAt(m.next, m.previous, out.next, out.previous, v, x)
    BY <1>4, <1>7, <1>12, <2>1, <2>2, <2>4, MemoryFields DEF PartedAt, Repointed
  <2>. QED
    BY <1>1, <1>3, <1>6, <1>12, <2>4, <2>5 DEF Repointed
<1>. QED
  BY <1>9, <1>10, <1>11, <1>12

\* One position can be taken out of any sequence.
LEMMA Shorter ==
  ASSUME NEW S, NEW v \in Seq(S), NEW x \in 1..Len(v)
  PROVE  \E u \in Seq(S) : IsWithout(u, v, x)
<1>1. PICK n \in Nat : n = Len(v) /\ x \in 1..n /\ \A p \in 1..n : v[p] \in S
  OBVIOUS
<1> DEFINE u == [i \in 1..(n - 1) |-> IF i < x THEN v[i] ELSE v[i + 1]]
<1>2. n - 1 \in Nat
  BY <1>1
<1>3. \A i \in 1..(n - 1) : (IF i < x THEN v[i] ELSE v[i + 1]) \in S
  <2>1. \A i \in 1..(n - 1) : i \in 1..n /\ i + 1 \in 1..n
    BY <1>1
  <2>. QED
    BY <1>1, <2>1
<1>4. u \in Seq(S) /\ Len(u) = n - 1
  BY <1>2, <1>3
<1>. QED
  BY <1>1, <1>4 DEF IsWithout

\* Lists other than l are as they were.
OtherLists(s, s2, l) == \A j \in Lists : j # l => s2[ListOf(j)] = s[ListOf(j)]

\* Unlink takes the link at one position of the list, and nothing else.
LEMMA Unlinked ==
  ASSUME NEW m, NEW s, Sound(m, s, {}), NEW l \in Lists, NEW x \in 1..Len(s[ListOf(l)]),
         NEW m2, m2 = Unlink(m, l, s[ListOf(l)][x])
  PROVE  /\ m2.item = [m.item EXCEPT ![s[ListOf(l)][x]] = Null]
         /\ \E s2 : /\ Sound(m2, s2, {}) /\ OtherLists(s, s2, l)
                    /\ IsWithout(s2[ListOf(l)], s[ListOf(l)], x)
<1> DEFINE c == ListOf(l)
           v == s[c]
           k == v[x]
<1>1. /\ m \in Memory /\ s \in [Chains -> Seq(Links)]
      /\ Woven(m.next, m.previous, EndsIn(m), s)
  BY SoundFields
<1>2. /\ c \in Chains /\ v \in Seq(Links) /\ k \in Links
      /\ m.list[l] = EndsOf(v) /\ Linear(m.next, m.previous, v)
  <2>1. c \in Chains
    BY ChainKinds
  <2>2. v \in Seq(Links)
    BY <1>1, <2>1
  <2>. QED
    BY <1>1, <2>1, <2>2, SoundEnds DEF Woven
<1>3. PICK u \in Seq(Links) : IsWithout(u, v, x)
  BY <1>2, Shorter
<1>4. PICK out : out = LinkOut(m, l, k)
  OBVIOUS
<1>5. /\ out \in Memory /\ out.item = m.item /\ out.allocated = m.allocated
      /\ out.cache = m.cache
      /\ PartedAt(m.next, m.previous, out.next, out.previous, v, x)
      /\ out.list[l] = [head |-> FirstLink(u), tail |-> LastLink(u), n |-> Len(v)]
      /\ \A j \in Lists : j # l => out.list[j] = m.list[j]
  <2>1. x \in 1..Len(v) /\ m \in Memory /\ v \in Seq(Links)
        /\ m.list[l] = EndsOf(v) /\ Linear(m.next, m.previous, v)
    BY <1>1, <1>2
  <2>2. out = LinkOut(m, l, v[x])
    BY <1>4
  <2> HIDE DEF v
  <2>3. OutAt(m, out, l, v, x, u)
    BY <1>3, <2>1, <2>2, LinkOutParts
  <2>. QED
    BY <2>3 DEF OutAt
<1>6. PICK m3 : m3 = SafeReleaseLinkItem(out, l, k)
  OBVIOUS
<1>7. m2 = [m3 EXCEPT !.list[l].n = @ - 1]
  <2>1. Unlink(m, l, k) = [SafeReleaseLinkItem(LinkOut(m, l, k), l, k) EXCEPT !.list[l].n = @ - 1]
    BY Zenon DEF Unlink, LinkOut
  <2>. QED
    BY <1>4, <1>6, <2>1, ZenonT(30)
<1>8. PICK q \in ChainEnds : q = EndsOf(u)
  BY <1>3, EndsOfSeq
<1>9. q = [head |-> FirstLink(u), tail |-> LastLink(u), n |-> Len(v) - 1]
  BY <1>3, <1>8 DEF EndsOf, IsWithout
<1>10. PICK w : w = WithList(out, l, q)
  OBVIOUS
<1>11. PICK s1 : s1 = [s EXCEPT ![c] = u]
  OBVIOUS
<1>12. /\ w \in Memory /\ w.previous = out.previous /\ w.next = out.next
       /\ w.item = out.item /\ w.allocated = out.allocated /\ w.cache = out.cache
       /\ w.list[l] = q /\ \A j \in Lists : j # l => w.list[j] = out.list[j]
  BY <1>5, <1>10, ListWritten
<1>13. PICK loose : loose = {k}
  OBVIOUS
<1>14. Sound(w, s1, loose)
  <2>1. w.allocated = m.allocated /\ PartedAt(m.next, m.previous, w.next, w.previous, v, x)
    BY <1>5, <1>12
  <2>2. EndsIn(w)[c] = EndsOf(u)
    BY <1>8, <1>12, EndsInLists
  <2>3. KeptEnds(EndsIn(m), EndsIn(w), c)
    BY <1>5, <1>12, EndsChange
  <2>4. SameItemsBut(m, w, s[c][x])
    BY <1>5, <1>12 DEF SameItemsBut
  <2>5. loose = {} \cup {s[c][x]}
    BY <1>13
  <2>6. c \in Chains /\ x \in 1..Len(s[c]) /\ w \in Memory /\ IsWithout(u, s[c], x)
    BY <1>2, <1>3, <1>12
  <2> HIDE DEF c
  <2>. QED
    BY <1>3, <1>11, <2>1, <2>2, <2>3, <2>4, <2>5, <2>6, Taken
<1>15. PICK w2 : w2 = WithList(m3, l, q)
  OBVIOUS
<1>22. Discarded(out, m3, k) /\ FitsLists(w2, s1, loose \ {k})
  <2>1. k \in loose /\ out \in Memory
    BY <1>5, <1>13
  <2> HIDE DEF k
  <2>. QED
    BY <1>6, <1>8, <1>10, <1>14, <1>15, <2>1, Released
<1>23. m3 \in Memory /\ m3.list = out.list /\ m3.item = [out.item EXCEPT ![k] = Null]
  BY <1>22 DEF Discarded
<1>16. m2 = w2
  <2>1. m3.list[l] = [head |-> FirstLink(u), tail |-> LastLink(u), n |-> Len(v)]
    BY <1>5, <1>23
  <2>2. [m3.list[l] EXCEPT !.n = @ - 1] = q
    BY <1>9, <2>1
  <2>3. m2 = [m3 EXCEPT !.list[l] = [m3.list[l] EXCEPT !.n = @ - 1]]
    BY <1>7
  <2>. QED
    BY <1>15, <2>2, <2>3 DEF WithList
<1>17. w2.item = m3.item
  BY <1>8, <1>15, <1>23, ListWritten
<1>18. PICK s2 : Sound(w2, s2, loose \ {k}) /\ SameLists(s1, s2)
  BY <1>22 DEF FitsLists
<1>19. Sound(m2, s2, {})
  <2>1. loose \ {k} = {}
    BY <1>13
  <2>. QED
    BY <1>16, <1>18, <2>1
<1>20. s1[c] = u /\ \A d \in Chains : d # c => s1[d] = s[d]
  BY <1>1, <1>2, <1>11
<1>21. OtherLists(s, s2, l) /\ s2[c] = u
  BY <1>18, <1>20, ChainKinds DEF SameLists, OtherLists
<1>. QED
  BY <1>3, <1>5, <1>23, <1>16, <1>17, <1>19, <1>21

-----------------------------------------------------------------------------
CacheAdvanced(m, out, l, a, n) ==
  /\ out \in Memory /\ out.item = m.item /\ out.allocated = m.allocated
  /\ out.list = m.list /\ out.next = m.next
  /\ out.previous = [m.previous EXCEPT ![a] = Null]
  /\ out.cache[l] = [head |-> a, tail |-> m.cache[l].tail, n |-> n]
  /\ \A j \in Lists : j # l => out.cache[j] = m.cache[j]

\* SafeAllocLinkItem takes the head of a cache that has more links.
LEMMA CachedOut ==
  ASSUME NEW m \in Memory, NEW l \in Lists, NEW a \in Links, NEW n \in Nat, m.cache[l].n = n + 1,
         NEW out, out = [m EXCEPT !.previous[a] = Null, !.cache[l].head = a, !.cache[l].n = @ - 1]
  PROVE  CacheAdvanced(m, out, l, a, n)
<1>1. out.cache = [m.cache EXCEPT ![l] = [head |-> a, tail |-> m.cache[l].tail, n |-> n]]
  <2>1. out.cache = [m.cache EXCEPT ![l].head = a, ![l].n = @ - 1]
    BY DEF Memory
  <2>2. n + 1 - 1 = n
    OBVIOUS
  <2>. QED
    BY <2>1, <2>2, MemoryFields DEF ChainEnds
<1>2. /\ out.item = m.item /\ out.allocated = m.allocated /\ out.list = m.list
      /\ out.next = m.next /\ out.previous = [m.previous EXCEPT ![a] = Null]
  BY DEF Memory
<1>3. out = [previous |-> out.previous, next |-> out.next, item |-> out.item,
             allocated |-> out.allocated, list |-> out.list, cache |-> out.cache]
  BY DEF Memory
<1>4. out.cache \in [Lists -> ChainEnds] /\ out.previous \in [Links -> Links \cup {Null}]
  BY <1>1, <1>2, MemoryFields DEF ChainEnds
<1>5. out \in Memory
  BY <1>2, <1>3, <1>4, MemoryFields DEF Memory
<1>. QED
  BY <1>1, <1>2, <1>5, MemoryFields DEF CacheAdvanced

\* SafeAllocLinkItem takes the first link of the cache, or new finds a free one.
LEMMA Allocated ==
  ASSUME NEW m, NEW s, Sound(m, s, {}), NEW l \in Lists,
         m.cache[l].head # Null \/ \E j \in Links : j \notin m.allocated,
         NEW m2, m2 = SafeAllocLinkItem(m, l)
  PROVE  /\ NewLink(m, l) \in Links /\ m.item[NewLink(m, l)] = Null /\ m2.item = m.item
         /\ \A c \in Chains : c.of = "list" => ~On(s[c], NewLink(m, l))
         /\ FitsLists(m2, s, {NewLink(m, l)})
<1> DEFINE c == CacheOf(l)
           v == s[c]
<1>1. PICK k : k = NewLink(m, l)
  OBVIOUS
<1>2. /\ m \in Memory /\ s \in [Chains -> Seq(Links)] /\ Apart(s) /\ Filled(m, s)
      /\ Woven(m.next, m.previous, EndsIn(m), s)
      /\ \A j \in Links : j \in m.allocated <=> OnChain(s, j) \/ j \in {}
  BY SoundFields
<1>3. /\ c \in Chains /\ c.of = "cache" /\ v \in Seq(Links) /\ m.cache[l] = EndsOf(v)
      /\ Linear(m.next, m.previous, v)
  <2>1. c \in Chains /\ c.of = "cache"
    BY ChainKinds DEF CacheOf
  <2>. QED
    BY <1>2, <2>1, SoundEnds DEF Woven
<1>4. PICK n \in Nat : n = Len(v) /\ \A p \in 1..n : v[p] \in Links
  BY <1>3
<1>5. m.cache[l].head = FirstLink(v) /\ m.cache[l].tail = LastLink(v) /\ m.cache[l].n = n
  BY <1>3, <1>4, EndsOfSeq
<1>6. \A d, e \in Chains : d.of = "list" /\ e.of = "cache" => d # e
  OBVIOUS
<1>7. CASE m.cache[l].head = Null
  <2>1. k \in Links /\ k \notin m.allocated
    BY <1>1, <1>7 DEF NewLink
  <2>2. m2 = [m EXCEPT !.allocated = @ \cup {k}]
    BY <1>1, <1>7 DEF SafeAllocLinkItem
  <2>3. /\ Sound(m2, s, {} \cup {k}) /\ m2.item = m.item /\ m.item[k] = Null
    BY <2>1, <2>2, Fresh
  <2>4. ~OnChain(s, k)
    BY <1>2, <2>1
  <2>5. FitsLists(m2, s, {k})
    <3>1. {} \cup {k} = {k}
      OBVIOUS
    <3>2. SameLists(s, s)
      BY DEF SameLists
    <3>. QED
      BY <2>3, <3>1, <3>2 DEF FitsLists
  <2>. QED
    BY <1>1, <2>1, <2>3, <2>4, <2>5 DEF OnChain, On
<1>8. CASE m.cache[l].head # Null
  <2>1. n # 0 /\ m.cache[l].head = v[1] /\ m.cache[l].tail = v[n] /\ 1 \in 1..n /\ n \in 1..n
    BY <1>4, <1>5, <1>8 DEF FirstLink, LastLink
  <2>2. k = v[1] /\ k \in Links
    BY <1>1, <1>4, <1>8, <2>1 DEF NewLink
  <2>3. m.item[k] = Null
    BY <1>2, <1>3, <1>4, <2>1, <2>2 DEF Filled, ItemsIn
  <2>4. \A d \in Chains : d.of = "list" => ~On(s[d], k)
    BY <1>2, <1>3, <1>4, <2>1, <2>2 DEF Apart, On
  <2>5. PICK u \in Seq(Links) : IsWithout(u, v, 1)
    BY <1>3, <1>4, <2>1, Shorter
  <2>6. Len(u) = n - 1 /\ \A p \in 1..(n - 1) : u[p] = v[p + 1]
    BY <1>4, <2>5 DEF IsWithout
  <2>7. Before(v, 1) = Null /\ After(v, 1) = (IF n = 1 THEN Null ELSE v[2])
    BY <1>4 DEF Before, After
  <2>8. Null \notin Links /\ \A j \in Links : j # Null
    BY ListConstants
  <2>9. /\ m2 \in Memory /\ m2.item = m.item /\ m2.allocated = m.allocated /\ m2.list = m.list
        /\ PartedAt(m.next, m.previous, m2.next, m2.previous, v, 1)
        /\ m2.cache[l] = EndsOf(u) /\ \A j \in Lists : j # l => m2.cache[j] = m.cache[j]
    <3>1. CASE n = 1
      <4>1. EndsOf(u) = [head |-> Null, tail |-> Null, n |-> 0]
        BY <2>6, <3>1 DEF EndsOf, FirstLink, LastLink
      <4>2. EndsOf(u) \in ChainEnds
        BY <2>5, EndsOfSeq
      <4>3. [EmptyChain EXCEPT !.n = m.cache[l].n - 1] = EndsOf(u)
        BY <1>5, <3>1, <4>1 DEF EmptyChain
      <4>4. m2 = [m EXCEPT !.cache[l] = [EmptyChain EXCEPT !.n = m.cache[l].n - 1]]
        BY <1>8, <2>1, <3>1 DEF SafeAllocLinkItem
      <4>5. m2 = WithCache(m, l, EndsOf(u))
        BY <4>3, <4>4 DEF WithCache
      <4>6. PICK q \in ChainEnds : q = EndsOf(u)
        BY <4>2
      <4>7. /\ m2 \in Memory /\ m2.previous = m.previous /\ m2.next = m.next
            /\ m2.item = m.item /\ m2.allocated = m.allocated /\ m2.list = m.list
            /\ m2.cache[l] = q /\ \A j \in Lists : j # l => m2.cache[j] = m.cache[j]
        BY <1>2, <4>5, <4>6, CacheWritten
      <4>8. PartedAt(m.next, m.previous, m2.next, m2.previous, v, 1)
        BY <2>7, <2>8, <3>1, <4>7 DEF PartedAt
      <4>. QED
        BY <4>6, <4>7, <4>8
    <3>2. CASE n # 1
      <4>1. PICK a \in Links : a = v[2] /\ a = m.next[k]
        <5>1. 2 \in 1..n
          BY <2>1, <3>2
        <5>. QED
          BY <1>3, <1>4, <2>1, <2>2, <2>7, <3>2, <5>1 DEF Linear
      <4>2. v[1] # v[n]
        BY <1>3, <1>4, <2>1, <3>2 DEF Linear
      <4>3. m2 = [m EXCEPT !.previous[a] = Null, !.cache[l].head = a, !.cache[l].n = @ - 1]
        BY <1>8, <2>1, <2>2, <4>1, <4>2 DEF SafeAllocLinkItem
      <4>4. PICK n1 \in Nat : n = n1 + 1 /\ n1 # 0
        <5>1. n - 1 \in Nat /\ n = n - 1 + 1 /\ n - 1 # 0
          BY <2>1, <3>2
        <5>. QED
          BY <5>1
      <4>5. m.cache[l].n = n1 + 1 /\ m \in Memory
        BY <1>2, <1>5, <4>4
      <4>6. /\ m2 \in Memory /\ m2.item = m.item /\ m2.allocated = m.allocated
            /\ m2.list = m.list /\ m2.next = m.next
            /\ m2.previous = [m.previous EXCEPT ![a] = Null]
            /\ m2.cache[l] = [head |-> a, tail |-> m.cache[l].tail, n |-> n1]
            /\ \A j \in Lists : j # l => m2.cache[j] = m.cache[j]
        <5>1. CacheAdvanced(m, m2, l, a, n1)
          BY <4>3, <4>5, CachedOut
        <5>. QED
          BY <5>1 DEF CacheAdvanced
      <4>7. PartedAt(m.next, m.previous, m2.next, m2.previous, v, 1)
        BY <1>2, <2>7, <2>8, <3>2, <4>1, <4>6, MemoryFields DEF PartedAt
      <4>8. EndsOf(u) = [head |-> a, tail |-> v[n], n |-> n1]
        <5>1. 1 \in 1..(n - 1) /\ n - 1 \in 1..(n - 1) /\ n - 1 = n1 /\ n - 1 # 0
          BY <4>4
        <5>2. u[1] = v[2] /\ u[n - 1] = v[n]
          BY <2>6, <5>1
        <5>. QED
          BY <2>6, <4>1, <5>1, <5>2 DEF EndsOf, FirstLink, LastLink
      <4>. QED
        BY <2>1, <4>6, <4>7, <4>8
    <3>. QED
      BY <3>1, <3>2
  <2>10. PICK s2 : s2 = [s EXCEPT ![c] = u]
    OBVIOUS
  <2>11. PICK loose : loose = {k}
    OBVIOUS
  <2>12. Sound(m2, s2, loose)
    <3>1. 1 \in 1..Len(s[c]) /\ IsWithout(u, s[c], 1) /\ loose = {} \cup {s[c][1]}
      BY <1>4, <2>1, <2>2, <2>5, <2>11
    <3>2. EndsIn(m2)[c] = EndsOf(u)
      BY <2>9, EndsInLists
    <3>3. KeptEnds(EndsIn(m), EndsIn(m2), c)
      BY <2>9, EndsChange
    <3>4. SameItemsBut(m, m2, s[c][1])
      BY <2>9 DEF SameItemsBut
    <3>5. c \in Chains /\ m2 \in Memory /\ m2.allocated = m.allocated
          /\ PartedAt(m.next, m.previous, m2.next, m2.previous, s[c], 1)
      BY <1>3, <2>9
    <3> HIDE DEF c, v
    <3>. QED
      BY <2>5, <2>10, <3>1, <3>2, <3>3, <3>4, <3>5, Taken
  <2>13. SameLists(s, s2)
    <3>1. \A j \in Lists : ListOf(j) \in Chains /\ ListOf(j) # c
      BY ChainKinds
    <3>. QED
      BY <1>2, <2>10, <3>1 DEF SameLists
  <2>14. FitsLists(m2, s, {k})
    BY <2>11, <2>12, <2>13 DEF FitsLists
  <2>. QED
    BY <1>1, <2>2, <2>3, <2>4, <2>9, <2>14
<1>. QED
  BY <1>7, <1>8

-----------------------------------------------------------------------------
\* The links in use; Linked is how many there are.
Holding(m) == {k \in Links : m.item[k] # Null}

\* As long as the lists hold less than MaxItems items, new finds a free link:
\* the caches cannot use up the others.
LEMMA LinkIsFree ==
  ASSUME NEW m, NEW s, Sound(m, s, {}), Cardinality(Holding(m)) < MaxItems
  PROVE  \E j \in Links : j \notin m.allocated
<1> DEFINE A == Holding(m)
           B == Links \ A
           Slots == Lists \X (1..CacheSize)
<1>1. /\ m \in Memory /\ s \in [Chains -> Seq(Links)] /\ Filled(m, s)
      /\ \A k \in Links : k \in m.allocated <=> OnChain(s, k) \/ k \in {}
  BY SoundFields
<1>2. SUFFICES ASSUME \A j \in Links : j \in m.allocated PROVE FALSE
  OBVIOUS
<1>3. IsFiniteSet(Links) /\ IsFiniteSet(Lists) /\ CacheSize \in Nat /\ MaxItems \in Nat
      /\ Cardinality(Links) >= MaxItems + CacheSize * Cardinality(Lists)
  BY ListConstants
<1>4. A \in SUBSET Links /\ B \in SUBSET Links /\ Links = A \cup B /\ A \cap B = {}
  BY DEF Holding
<1>5. IsFiniteSet(A) /\ IsFiniteSet(B)
  BY <1>3, <1>4, FS_Subset
<1> DEFINE Sits(k, t) == t[2] \in 1..Len(s[CacheOf(t[1])]) /\ s[CacheOf(t[1])][t[2]] = k
<1>6. ASSUME NEW k \in B PROVE \E t \in Slots : Sits(k, t)
  <2>1. k \in Links /\ m.item[k] = Null
    BY DEF Holding
  <2>2. PICK c \in Chains : \E p \in 1..Len(s[c]) : s[c][p] = k
    BY <1>1, <1>2, <2>1 DEF OnChain
  <2>3. PICK p \in 1..Len(s[c]) : s[c][p] = k
    BY <2>2
  <2>4. c.of = "cache"
    <3>1. m.item[k] \in ItemsIn(c)
      BY <1>1, <2>3 DEF Filled
    <3>2. c.of \in {"list", "cache"}
      BY ChainKinds
    <3>. QED
      BY <2>1, <3>1, <3>2, ListConstants DEF ItemsIn
  <2>5. PICK l \in Lists : c = CacheOf(l)
    BY <2>4, ChainKinds DEF ListOf
  <2>6. Len(s[c]) \in Nat /\ Len(s[c]) <= CacheSize
    <3>1. s[c] \in Seq(Links)
      BY <1>1
    <3>. QED
      BY <1>1, <2>4, <3>1 DEF Filled
  <2>7. p \in 1..CacheSize
    BY <1>3, <2>6
  <2>8. <<l, p>> \in Slots /\ Sits(k, <<l, p>>)
    BY <2>3, <2>5, <2>7
  <2>. QED
    BY <2>8
<1>7. \A k, j, t : Sits(k, t) /\ Sits(j, t) => k = j
  OBVIOUS
<1> DEFINE f == [k \in B |-> CHOOSE t \in Slots : Sits(k, t)]
<1> HIDE DEF Slots, Sits
<1>8. f \in [B -> Slots] /\ \A k \in B : Sits(k, f[k])
  BY <1>6
<1> HIDE DEF f
<1>9. ASSUME NEW k \in B, NEW j \in B, f[k] = f[j] PROVE k = j
  BY <1>7, <1>8, <1>9
<1>10. IsFiniteSet(Slots) /\ Cardinality(Slots) = Cardinality(Lists) * CacheSize
  <2>1. IsFiniteSet(1..CacheSize) /\ Cardinality(1..CacheSize) = CacheSize
    BY <1>3, FS_Interval
  <2>. QED
    BY <1>3, <2>1, FS_Product DEF Slots
<1>11. ~(Cardinality(Slots) < Cardinality(B))
  BY <1>5, <1>8, <1>9, <1>10, FS_PigeonHole
<1>12. Cardinality(Links) <= Cardinality(A) + Cardinality(B)
  <2>1. Cardinality(A \cup B) = Cardinality(A) + Cardinality(B) - Cardinality(A \cap B)
    BY <1>5, FS_Union
  <2>2. Cardinality(A) \in Nat /\ Cardinality(B) \in Nat
    BY <1>5, FS_CardinalityType
  <2>3. Cardinality(A \cap B) = 0
    BY <1>4, FS_EmptySet
  <2> HIDE DEF A, B
  <2>4. PICK i, u : i = Cardinality(A \cap B) /\ u = Cardinality(A \cup B)
    OBVIOUS
  <2>5. u = Cardinality(Links)
    BY <1>4, <2>4, Zenon
  <2>. QED
    BY <2>1, <2>2, <2>3, <2>4, <2>5
<1>13. /\ Cardinality(A) \in Nat /\ Cardinality(B) \in Nat /\ Cardinality(Lists) \in Nat
       /\ Cardinality(Links) \in Nat
  BY <1>3, <1>5, FS_CardinalityType
<1>14. Cardinality(A) < MaxItems
  OBVIOUS
<1> HIDE DEF A, B
<1>15. PICK a \in Nat, b \in Nat, n \in Nat, z \in Nat :
         a = Cardinality(A) /\ b = Cardinality(B) /\ n = Cardinality(Links)
         /\ z = CacheSize * Cardinality(Lists) /\ z = Cardinality(Slots)
  <2>1. CacheSize * Cardinality(Lists) = Cardinality(Lists) * CacheSize
        /\ CacheSize * Cardinality(Lists) \in Nat
    BY <1>3, <1>13
  <2>. QED
    BY <1>10, <1>13, <2>1
<1>. QED
  BY <1>3, <1>11, <1>12, <1>14, <1>15

-----------------------------------------------------------------------------
(* The walks of the class find the chains.                                 *)

\* Along m_pNext from the head ...
LEMMA ForwardFinds ==
  ASSUME NEW m, NEW s, Sound(m, s, {})
  PROVE  /\ \A l \in Lists : Forward(m, l) = s[ListOf(l)]
         /\ \A l \in Lists : Chain(m.next, m.cache[l].head) = s[CacheOf(l)]
<1>1. /\ m \in Memory /\ s \in [Chains -> Seq(Links)] /\ Apart(s) /\ Unused(m)
      /\ Woven(m.next, m.previous, EndsIn(m), s)
      /\ \A k \in Links : k \in m.allocated <=> OnChain(s, k) \/ k \in {}
  BY SoundFields
<1>2. Threaded(m.next, s)
  <2>1. \A c \in Chains : \A p \in 1..Len(s[c]) : m.next[s[c][p]] = After(s[c], p)
    BY <1>1 DEF Woven, Linear
  <2>2. \A k \in Links : ~OnChain(s, k) => m.next[k] = Null
    BY <1>1 DEF Unused
  <2>. QED
    BY <1>1, <2>1, <2>2, MemoryFields DEF Threaded
<1>3. ASSUME NEW l \in Lists
      PROVE  /\ Forward(m, l) = s[ListOf(l)]
             /\ Chain(m.next, m.cache[l].head) = s[CacheOf(l)]
  <2>1. ListOf(l) \in Chains /\ CacheOf(l) \in Chains
    BY ChainKinds
  <2>2. m.list[l] = EndsOf(s[ListOf(l)]) /\ m.cache[l] = EndsOf(s[CacheOf(l)])
    BY SoundEnds
  <2>3. m.list[l].head = FirstLink(s[ListOf(l)]) /\ m.cache[l].head = FirstLink(s[CacheOf(l)])
    BY <2>2 DEF EndsOf
  <2>. QED
    BY <1>2, <2>1, <2>3, WalkFindsChain DEF Forward
<1>. QED
  BY <1>3

\* The reverse of a sequence, position by position.
LEMMA ReverseIs ==
  ASSUME NEW S, NEW u \in Seq(S)
  PROVE  /\ Reverse(u) \in Seq(S) /\ Len(Reverse(u)) = Len(u)
         /\ \A p \in 1..Len(u) : /\ Len(u) - p + 1 \in 1..Len(u)
                                 /\ Reverse(u)[p] = u[Len(u) - p + 1]
<1>1. PICK n \in Nat : n = Len(u) /\ \A p \in 1..n : u[p] \in S
  OBVIOUS
<1>2. \A p \in 1..n : n - p + 1 \in 1..n
  OBVIOUS
<1>3. Reverse(u) = [i \in 1..n |-> u[(n - i) + 1]]
  BY <1>1 DEF Reverse
<1>. QED
  BY <1>1, <1>2, <1>3

\* b is a from its end to its beginning.
Mirrored(b, a) ==
  /\ Len(a) \in Nat /\ Len(b) = Len(a)
  /\ \A p \in 1..Len(a) : Len(a) - p + 1 \in 1..Len(a) /\ b[p] = a[Len(a) - p + 1]

\* Position p of b, and the one after it.
MirroredAt(b, a, n, p) ==
  /\ n \in Nat /\ n = Len(a) /\ n = Len(b) /\ p \in 1..n
  /\ n - p + 1 \in 1..n /\ b[p] = a[n - p + 1]
  /\ p # n => b[p + 1] = a[n - p]

\* A mirror image, position by position ...
LEMMA MirrorAt ==
  ASSUME NEW a, NEW b, Mirrored(b, a), NEW p \in 1..Len(b)
  PROVE  \E n : MirroredAt(b, a, n, p)
<1>1. PICK n : n = Len(a) /\ n = Len(b) /\ n \in Nat
  BY DEF Mirrored
<1>2. \A q \in 1..n : n - q + 1 \in 1..n /\ b[q] = a[n - q + 1]
  BY <1>1 DEF Mirrored
<1>3. p \in 1..n
  BY <1>1
<1>4. p # n => p + 1 \in 1..n /\ n - (p + 1) + 1 = n - p
  BY <1>1, <1>3
<1>5. p # n => b[p + 1] = a[n - p]
  <2>1. SUFFICES ASSUME p # n PROVE b[p + 1] = a[n - p]
    OBVIOUS
  <2>2. PICK q \in 1..n : q = p + 1
    BY <1>4, <2>1
  <2>3. b[q] = a[n - q + 1]
    BY <1>2
  <2>. QED
    BY <1>4, <2>1, <2>2, <2>3
<1>6. MirroredAt(b, a, n, p)
  BY <1>1, <1>2, <1>3, <1>5 DEF MirroredAt
<1>. QED
  BY <1>6

\* ... has the same links ...
LEMMA MirrorBack ==
  ASSUME NEW a, NEW b, Mirrored(b, a), NEW p \in 1..Len(a)
  PROVE  \E q \in 1..Len(b) : b[q] = a[p]
<1>1. PICK n : n = Len(a) /\ n = Len(b) /\ n \in Nat
  BY DEF Mirrored
<1>2. \A q \in 1..n : n - q + 1 \in 1..n /\ b[q] = a[n - q + 1]
  BY <1>1 DEF Mirrored
<1>3. p \in 1..n
  BY <1>1
<1>4. PICK q \in 1..n : q = n - p + 1 /\ n - q + 1 = p
  <2>1. n - p + 1 \in 1..n
    BY <1>2, <1>3
  <2>2. n - (n - p + 1) + 1 = p
    BY <1>1, <1>3
  <2>. QED
    BY <2>1, <2>2
<1>5. b[q] = a[n - q + 1]
  BY <1>2
<1>. QED
  BY <1>1, <1>4, <1>5

\* ... and begins where the other ends.
LEMMA MirrorEnds ==
  ASSUME NEW a, NEW b, Mirrored(b, a)
  PROVE  FirstLink(b) = LastLink(a)
<1>1. PICK n : n = Len(a) /\ n = Len(b) /\ n \in Nat
  BY DEF Mirrored
<1>2. ASSUME n # 0 PROVE b[1] = a[n]
  <2>1. PICK one : one = 1 /\ one \in 1..n /\ n - one + 1 = n
    BY <1>1, <1>2
  <2>2. b[one] = a[n - one + 1]
    BY <1>1, <2>1 DEF Mirrored
  <2>. QED
    BY <2>1, <2>2
<1>. QED
  BY <1>1, <1>2 DEF FirstLink, LastLink

\* ... and along m_pPrevious from the tail.
LEMMA BackwardFinds ==
  ASSUME NEW m, NEW s, Sound(m, s, {})
  PROVE  /\ \A l \in Lists : Chain(m.previous, m.list[l].tail) = Reverse(s[ListOf(l)])
         /\ \A l \in Lists : Chain(m.previous, m.cache[l].tail) = Reverse(s[CacheOf(l)])
<1> DEFINE r == [c \in Chains |-> Reverse(s[c])]
<1>1. /\ m \in Memory /\ s \in [Chains -> Seq(Links)] /\ Apart(s) /\ Unused(m)
      /\ Woven(m.next, m.previous, EndsIn(m), s)
      /\ \A k \in Links : k \in m.allocated <=> OnChain(s, k) \/ k \in {}
  BY SoundFields
<1>2. ASSUME NEW c \in Chains
      PROVE  /\ r[c] \in Seq(Links) /\ r[c] = Reverse(s[c]) /\ Mirrored(r[c], s[c])
  <2>1. PICK u \in Seq(Links) : u = s[c]
    BY <1>1
  <2>2. PICK n : n = Len(u) /\ n \in Nat
    OBVIOUS
  <2>3. /\ Reverse(u) \in Seq(Links) /\ Len(Reverse(u)) = n
        /\ \A p \in 1..n : n - p + 1 \in 1..n /\ Reverse(u)[p] = u[n - p + 1]
    BY <2>2, ReverseIs
  <2>4. Mirrored(Reverse(u), u)
    BY <2>2, <2>3 DEF Mirrored
  <2>. QED
    BY <2>1, <2>3, <2>4
<1>3. r \in [Chains -> Seq(Links)]
  BY <1>2
<1> HIDE DEF r
<1>4. Apart(r)
  <2>1. SUFFICES ASSUME NEW c \in Chains, NEW d \in Chains, NEW p \in 1..Len(r[c]),
                        NEW q \in 1..Len(r[d]), r[c][p] = r[d][q]
                 PROVE  c = d /\ p = q
    BY DEF Apart
  <2>2. PICK n : MirroredAt(r[c], s[c], n, p)
    BY <1>2, MirrorAt
  <2>3. PICK h : MirroredAt(r[d], s[d], h, q)
    BY <1>2, MirrorAt
  <2>4. /\ n \in Nat /\ n = Len(s[c]) /\ p \in 1..n
        /\ n - p + 1 \in 1..n /\ r[c][p] = s[c][n - p + 1]
    BY <2>2 DEF MirroredAt
  <2>5. /\ h \in Nat /\ h = Len(s[d]) /\ q \in 1..h
        /\ h - q + 1 \in 1..h /\ r[d][q] = s[d][h - q + 1]
    BY <2>3 DEF MirroredAt
  <2>6. c = d /\ n - p + 1 = h - q + 1
    <3>1. PICK i, j : i = n - p + 1 /\ j = h - q + 1
      OBVIOUS
    <3>2. i \in 1..Len(s[c]) /\ j \in 1..Len(s[d]) /\ s[c][i] = s[d][j]
      BY <2>1, <2>4, <2>5, <3>1
    <3>3. Apart(s)
      BY <1>1
    <3>4. c = d /\ i = j
      BY <3>2, <3>3 DEF Apart
    <3>. QED
      BY <3>1, <3>4
  <2>7. n = h
    BY <2>4, <2>5, <2>6
  <2>. QED
    BY <2>4, <2>5, <2>6, <2>7
<1>5. \A c \in Chains : \A p \in 1..Len(r[c]) : m.previous[r[c][p]] = After(r[c], p)
  <2>1. SUFFICES ASSUME NEW c \in Chains, NEW p \in 1..Len(r[c])
                 PROVE  m.previous[r[c][p]] = After(r[c], p)
    OBVIOUS
  <2>2. PICK n : MirroredAt(r[c], s[c], n, p)
    BY <1>2, MirrorAt
  <2>3. /\ n \in Nat /\ n = Len(s[c]) /\ n = Len(r[c]) /\ p \in 1..n
        /\ n - p + 1 \in 1..n /\ r[c][p] = s[c][n - p + 1]
        /\ p # n => r[c][p + 1] = s[c][n - p]
    BY <2>2 DEF MirroredAt
  <2>4. PICK i \in 1..Len(s[c]) : /\ i = n - p + 1 /\ r[c][p] = s[c][i]
                                 /\ (i = 1 <=> p = n) /\ i - 1 = n - p
    <3>1. PICK i \in 1..n : i = n - p + 1
      BY <2>3
    <3>2. (i = 1 <=> p = n) /\ i - 1 = n - p
      BY <2>3, <3>1
    <3>3. r[c][p] = s[c][i]
      BY <2>3, <3>1
    <3>4. i \in 1..Len(s[c])
      BY <2>3
    <3>. QED
      BY <3>1, <3>2, <3>3, <3>4
  <2>5. m.previous[s[c][i]] = Before(s[c], i)
    <3>1. Linear(m.next, m.previous, s[c])
      BY <1>1 DEF Woven
    <3>. QED
      BY <3>1 DEF Linear
  <2>6. Before(s[c], i) = IF p = n THEN Null ELSE s[c][n - p]
    BY <2>4 DEF Before
  <2>7. After(r[c], p) = IF p = n THEN Null ELSE s[c][n - p]
    BY <2>3 DEF After
  <2>8. m.previous[r[c][p]] = m.previous[s[c][i]]
    BY <2>4
  <2>. QED
    BY <2>5, <2>6, <2>7, <2>8
<1>6. \A k \in Links : ~OnChain(r, k) => m.previous[k] = Null
  <2>1. SUFFICES ASSUME NEW k \in Links, ~OnChain(r, k) PROVE m.previous[k] = Null
    OBVIOUS
  <2>2. ~OnChain(s, k)
    <3>1. SUFFICES ASSUME NEW c \in Chains, NEW p \in 1..Len(s[c]), s[c][p] = k PROVE FALSE
      BY DEF OnChain
    <3>2. PICK q \in 1..Len(r[c]) : r[c][q] = s[c][p]
      BY <1>2, MirrorBack
    <3>. QED
      BY <2>1, <3>1, <3>2 DEF OnChain
  <2>. QED
    BY <1>1, <2>2 DEF Unused
<1>7. Threaded(m.previous, r)
  BY <1>1, <1>3, <1>4, <1>5, <1>6, MemoryFields DEF Threaded
<1>8. \A c \in Chains : FirstLink(r[c]) = LastLink(s[c])
  <2>1. SUFFICES ASSUME NEW c \in Chains PROVE FirstLink(r[c]) = LastLink(s[c])
    OBVIOUS
  <2>. QED
    BY <1>2, MirrorEnds
<1>9. ASSUME NEW l \in Lists
      PROVE  /\ Chain(m.previous, m.list[l].tail) = Reverse(s[ListOf(l)])
             /\ Chain(m.previous, m.cache[l].tail) = Reverse(s[CacheOf(l)])
  <2>1. ListOf(l) \in Chains /\ CacheOf(l) \in Chains
    BY ChainKinds
  <2>2. m.list[l] = EndsOf(s[ListOf(l)]) /\ m.cache[l] = EndsOf(s[CacheOf(l)])
    BY SoundEnds
  <2>3. m.list[l].tail = LastLink(s[ListOf(l)]) /\ m.cache[l].tail = LastLink(s[CacheOf(l)])
    BY <2>2 DEF EndsOf
  <2>4. \A c \in Chains : Chain(m.previous, LastLink(s[c])) = Reverse(s[c])
    BY <1>2, <1>7, <1>8, WalkFindsChain
  <2>. QED
    BY <2>1, <2>3, <2>4
<1>. QED
  BY <1>9

-----------------------------------------------------------------------------
\* x is the first position of v whose link holds i.
FirstHolder(m, v, i, x) ==
  /\ x \in 1..Len(v) /\ m.item[v[x]] = i
  /\ \A p \in 1..Len(v) : p < x => m.item[v[p]] # i

PositionOf(f, v, i) == SelectInSeq(v, LAMBDA k : f[k] = i)

\* SelectInSeq finds the first position, 0 if there is none.
LEMMA SelectFinds ==
  ASSUME NEW f, NEW v, Len(v) \in Nat, NEW i, NEW z, z = PositionOf(f, v, i)
  PROVE  \/ z = 0 /\ \A p \in 1..Len(v) : f[v[p]] # i
         \/ /\ z \in 1..Len(v) /\ f[v[z]] = i
            /\ \A p \in 1..Len(v) : p < z => f[v[p]] # i
<1> DEFINE I == {p \in 1..Len(v) : f[v[p]] = i}
<1>1. z = IF I # {} THEN Min(I) ELSE 0
  BY DEF SelectInSeq, PositionOf
<1>2. CASE I = {}
  BY <1>1, <1>2
<1>3. CASE I # {}
  <2>1. I \in SUBSET Nat
    OBVIOUS
  <2>2. PICK n \in I : \A y \in I : n <= y
    BY <1>3, <2>1, LeastOf
  <2>3. Min(I) \in I /\ \A y \in I : Min(I) <= y
    BY <2>2 DEF Min
  <2>4. z \in I /\ \A y \in I : z <= y
    BY <1>1, <1>3, <2>3
  <2>5. z \in 1..Len(v) /\ f[v[z]] = i
    BY <2>4
  <2>6. ASSUME NEW p \in 1..Len(v), p < z PROVE f[v[p]] # i
    <3>1. SUFFICES ASSUME f[v[p]] = i PROVE FALSE
      OBVIOUS
    <3>2. p \in I
      BY <3>1
    <3>3. z <= p
      BY <2>4, <3>2
    <3>. QED
      BY <2>5, <2>6, <3>3
  <2>. QED
    BY <2>5, <2>6
<1>. QED
  BY <1>2, <1>3

\* FindLinkItemFromID.
LEMMA FindLinkFinds ==
  ASSUME NEW m, NEW s, Sound(m, s, {}), NEW l \in Lists, NEW i
  PROVE  /\ Has(m, l, i) => \E x : /\ FirstHolder(m, s[ListOf(l)], i, x)
                                   /\ FindLink(m, l, i) = s[ListOf(l)][x]
         /\ ~Has(m, l, i) => \A p \in 1..Len(s[ListOf(l)]) : m.item[s[ListOf(l)][p]] # i
<1> DEFINE v == s[ListOf(l)]
           z == PositionOf(m.item, v, i)
<1>1. v \in Seq(Links) /\ Len(v) \in Nat /\ Forward(m, l) = v
  BY SoundEnds, ForwardFinds
<1>2. \A p \in 1..Len(v) : v[p] \in Links
  BY <1>1
<1>3. FindLink(m, l, i) = IF z = 0 THEN Null ELSE v[z]
  BY <1>1 DEF FindLink, PositionOf
<1>4. \/ z = 0 /\ \A p \in 1..Len(v) : m.item[v[p]] # i
      \/ FirstHolder(m, v, i, z)
  <2>1. PICK f, y : f = m.item /\ y = PositionOf(f, v, i)
    OBVIOUS
  <2>2. y = z
    BY <2>1
  <2>3. \/ y = 0 /\ \A p \in 1..Len(v) : f[v[p]] # i
        \/ /\ y \in 1..Len(v) /\ f[v[y]] = i
           /\ \A p \in 1..Len(v) : p < y => f[v[p]] # i
    <3> HIDE DEF v
    <3>. QED
      BY <1>1, <2>1, SelectFinds
  <2>. QED
    BY <2>1, <2>2, <2>3 DEF FirstHolder
<1> HIDE DEF z, v
<1>5. CASE z = 0 /\ \A p \in 1..Len(v) : m.item[v[p]] # i
  BY <1>3, <1>5 DEF Has, v
<1>6. CASE FirstHolder(m, v, i, z)
  <2>1. z # 0 /\ v[z] # Null
    BY <1>2, <1>6, ListConstants DEF FirstHolder
  <2>. QED
    BY <1>3, <1>6, <2>1 DEF Has, v
<1>. QED
  BY <1>4, <1>5, <1>6

\* What an operation on the list l may do to the memory and to the other lists.
Step(m2, s, s2, l) == Sound(m2, s2, {}) /\ OtherLists(s, s2, l)

\* DeleteItem takes out the first link with the item.
LEMMA Removed ==
  ASSUME NEW m, NEW s, Sound(m, s, {}), NEW l \in Lists, NEW i, Has(m, l, i)
  PROVE  \E x, s2 :
           /\ FirstHolder(m, s[ListOf(l)], i, x) /\ Step(DeleteItem(m, l, i), s, s2, l)
           /\ IsWithout(s2[ListOf(l)], s[ListOf(l)], x)
           /\ DeleteItem(m, l, i).item = [m.item EXCEPT ![s[ListOf(l)][x]] = Null]
<1>1. PICK x : /\ FirstHolder(m, s[ListOf(l)], i, x)
               /\ FindLink(m, l, i) = s[ListOf(l)][x]
  BY FindLinkFinds
<1>2. PICK m2 : m2 = DeleteItem(m, l, i)
  OBVIOUS
<1>3. m2 = Unlink(m, l, s[ListOf(l)][x])
  BY <1>1, <1>2 DEF DeleteItem
<1>4. x \in 1..Len(s[ListOf(l)])
  BY <1>1 DEF FirstHolder
<1>5. /\ m2.item = [m.item EXCEPT ![s[ListOf(l)][x]] = Null]
      /\ \E s2 : /\ Sound(m2, s2, {}) /\ OtherLists(s, s2, l)
                 /\ IsWithout(s2[ListOf(l)], s[ListOf(l)], x)
  BY <1>3, <1>4, Unlinked
<1>6. PICK s2 : /\ Sound(m2, s2, {}) /\ OtherLists(s, s2, l)
                /\ IsWithout(s2[ListOf(l)], s[ListOf(l)], x)
  BY <1>5
<1>7. Step(m2, s, s2, l)
  BY <1>6 DEF Step
<1>. QED
  BY <1>1, <1>2, <1>5, <1>6, <1>7

\* A link that held nothing is at the end of the list l, with the item i.
AddedAt(m, m2, s, s2, l, i, k) ==
  /\ k \in Links /\ m.item[k] = Null /\ Step(m2, s, s2, l)
  /\ s2[ListOf(l)] = Append(s[ListOf(l)], k) /\ m2.item = [m.item EXCEPT ![k] = i]

\* AddItem appends a link that no list has.
LEMMA Added ==
  ASSUME NEW m, NEW s, Sound(m, s, {}), NEW l \in Lists, NEW i \in Items, ~Has(m, l, i),
         Cardinality(Holding(m)) < MaxItems
  PROVE  \E k, s2 : AddedAt(m, AddItem(m, l, i), s, s2, l, i, k)
<1> DEFINE c == ListOf(l)
<1>1. PICK k : k = NewLink(m, l)
  OBVIOUS
<1>2. PICK a : a = SafeAllocLinkItem(m, l)
  OBVIOUS
<1>3. PICK b : b = WithItem(a, k, i)
  OBVIOUS
<1>4. PICK m2 : m2 = LinkAtTail(b, "list", l, k)
  OBVIOUS
<1>5. m2 = AddItem(m, l, i)
  BY <1>1, <1>2, <1>3, <1>4 DEF AddItem, WithItem
<1>6. k \in Links /\ m.item[k] = Null /\ a.item = m.item /\ FitsLists(a, s, {k})
  <2>1. \E j \in Links : j \notin m.allocated
    BY LinkIsFree
  <2>. QED
    BY <1>1, <1>2, <2>1, Allocated
<1>7. PICK s1 : Sound(a, s1, {k}) /\ SameLists(s, s1)
  BY <1>6 DEF FitsLists
<1>8. PICK loose : loose = {k}
  OBVIOUS
<1>9. Sound(b, s1, loose) /\ ItemPut(a, b, k, i)
  <2>1. Sound(a, s1, loose) /\ k \in Links /\ i \in Items \cup {Null}
    BY <1>6, <1>7, <1>8
  <2>2. MayHold(s1, loose, k, i)
    BY <1>8 DEF MayHold
  <2>. QED
    BY <1>3, <2>1, <2>2, ItemSet
<1>10. b.item[k] = i
  <2>1. a \in Memory
    BY <1>7, SoundFields
  <2>. QED
    BY <1>6, <1>9, <2>1, MemoryFields DEF ItemPut
<1>11. PICK s2 : s2 = AppendedTo(s1, c, k)
  OBVIOUS
<1>12. PICK none : none = {}
  OBVIOUS
<1>13. Sound(m2, s2, none) /\ m2.item = b.item
  <2>1. k \in loose /\ b.item[k] \in Items /\ none = loose \ {k}
    BY <1>8, <1>10, <1>12
  <2>. QED
    BY <1>4, <1>9, <1>11, <2>1, Listed
<1>14. s1 \in [Chains -> Seq(Links)]
  BY <1>7, SoundFields
<1>15. s2[c] = Append(s[c], k) /\ OtherLists(s, s2, l)
  <2>1. c \in Chains /\ s1[c] = s[c]
    BY <1>7, ChainKinds DEF SameLists
  <2>2. \A d \in Chains : d # c => s2[d] = s1[d]
    BY <1>11, <1>14 DEF AppendedTo
  <2>3. \A j \in Lists : j # l => ListOf(j) \in Chains /\ ListOf(j) # c
    BY ChainKinds
  <2>. QED
    BY <1>7, <1>11, <1>14, <2>1, <2>2, <2>3 DEF SameLists, OtherLists, AppendedTo
<1>16. m2.item = [m.item EXCEPT ![k] = i]
  BY <1>6, <1>9, <1>13 DEF ItemPut
<1>17. Step(m2, s, s2, l)
  BY <1>12, <1>13, <1>15 DEF Step
<1>. QED
  BY <1>5, <1>6, <1>15, <1>16, <1>17 DEF AddedAt

\* ModifyItem gives the first link with the item another one.
LEMMA Modified ==
  ASSUME NEW m, NEW s, Sound(m, s, {}), NEW l \in Lists, NEW i, NEW j \in Items, Has(m, l, i)
  PROVE  \E x : /\ FirstHolder(m, s[ListOf(l)], i, x) /\ Sound(ModifyItem(m, l, i, j), s, {})
                /\ ModifyItem(m, l, i, j).item = [m.item EXCEPT ![s[ListOf(l)][x]] = j]
<1>1. PICK x : /\ FirstHolder(m, s[ListOf(l)], i, x)
               /\ FindLink(m, l, i) = s[ListOf(l)][x]
  BY FindLinkFinds
<1>2. PICK k : k = s[ListOf(l)][x]
  OBVIOUS
<1>3. PICK m2 : m2 = WithItem(m, k, j)
  OBVIOUS
<1>4. m2 = ModifyItem(m, l, i, j)
  BY <1>1, <1>2, <1>3 DEF ModifyItem, WithItem
<1>5. k \in Links /\ On(s[ListOf(l)], k)
  <2>1. s[ListOf(l)] \in Seq(Links) /\ x \in 1..Len(s[ListOf(l)])
    BY <1>1, SoundEnds DEF FirstHolder
  <2>. QED
    BY <1>2, <2>1 DEF On
<1>6. PICK none : none = {}
  OBVIOUS
<1>7. Sound(m2, s, none) /\ ItemPut(m, m2, k, j)
  <2>1. Sound(m, s, none) /\ j \in Items \cup {Null}
    BY <1>6
  <2>2. MayHold(s, none, k, j)
    BY <1>5 DEF MayHold
  <2>. QED
    BY <1>3, <1>5, <2>1, <2>2, ItemSet
<1>. QED
  BY <1>1, <1>2, <1>4, <1>6, <1>7 DEF ItemPut

-----------------------------------------------------------------------------
(* The loops of Clean and of the destructors.                              *)

\* f runs through the states of a loop of n passes; g[p] is pass p.
Runs(f, n, x, g) == f = [p \in 0..n |-> IF p = 0 THEN x ELSE g[p][f[p - 1]]]

\* A loop whose state is in S[p] after p passes.
LEMMA LoopRuns ==
  ASSUME NEW n \in Nat, NEW S, NEW x, x \in S[0], NEW g,
         \A p \in 1..n : \A y \in S[p - 1] : g[p][y] \in S[p]
  PROVE  \E f : Runs(f, n, x, g) /\ \A p \in 0..n : f[p] \in S[p]
<1> DEFINE OK(i) == \E f : Runs(f, i, x, g) /\ \A p \in 0..i : f[p] \in S[p]
           bad == {i \in 0..n : ~OK(i)}
<1>1. SUFFICES ASSUME bad # {} PROVE FALSE
  <2>1. n \in 0..n
    OBVIOUS
  <2>. QED
    BY <1>1, <2>1
<1>2. bad \in SUBSET Nat
  OBVIOUS
<1>3. PICK i \in bad : \A j \in bad : i <= j
  BY <1>1, <1>2, LeastOf
<1>4. i \in 0..n /\ ~OK(i)
  OBVIOUS
<1>5. i # 0
  <2>1. SUFFICES ASSUME i = 0 PROVE FALSE
    OBVIOUS
  <2>2. PICK f : f = [p \in 0..0 |-> x]
    OBVIOUS
  <2>3. 0..0 = {0}
    OBVIOUS
  <2>4. [p \in 0..0 |-> IF p = 0 THEN x ELSE g[p][f[p - 1]]] = [p \in 0..0 |-> x]
    BY <2>3
  <2>5. Runs(f, 0, x, g)
    BY <2>2, <2>4 DEF Runs
  <2>6. \A p \in 0..0 : f[p] \in S[p]
    BY <2>2, <2>3
  <2>. QED
    BY <1>4, <2>1, <2>5, <2>6
<1>6. PICK h \in Nat : i = h + 1
  <2>1. i - 1 \in Nat /\ i = i - 1 + 1
    BY <1>4, <1>5
  <2>. QED
    BY <2>1
<1>7. OK(h)
  <2>1. h \in 0..n /\ ~(i <= h)
    BY <1>4, <1>6
  <2>. QED
    BY <1>3, <2>1
<1>8. PICK e : Runs(e, h, x, g) /\ \A p \in 0..h : e[p] \in S[p]
  BY <1>7
<1>9. PICK f : f = [p \in 0..i |-> IF p = i THEN g[i][e[h]] ELSE e[p]]
  OBVIOUS
<1>10. \A p \in 0..h : p \in 0..i /\ f[p] = e[p]
  BY <1>6, <1>9
<1>11. i \in 0..i /\ f[i] = g[i][f[i - 1]] /\ f[i] \in S[i]
  <2>1. h \in 0..h /\ i - 1 = h /\ i \in 1..n /\ i \in 0..i
    BY <1>4, <1>6
  <2>2. e[h] \in S[i - 1]
    BY <1>8, <2>1
  <2>. QED
    BY <1>9, <1>10, <2>1, <2>2
<1>12. \A p \in 0..h : e[p] = IF p = 0 THEN x ELSE g[p][e[p - 1]]
  BY <1>8 DEF Runs
<1>13. ASSUME NEW p \in 0..i
       PROVE  f[p] = (IF p = 0 THEN x ELSE g[p][f[p - 1]]) /\ f[p] \in S[p]
  <2>1. CASE p = i
    BY <1>5, <1>11, <2>1
  <2>2. CASE p # i
    <3>1. p \in 0..h
      BY <1>6, <2>2
    <3>2. p # 0 => p - 1 \in 0..h
      BY <3>1
    <3>. QED
      BY <1>8, <1>10, <1>12, <3>1, <3>2
  <2>. QED
    BY <2>1, <2>2
<1>14. Runs(f, i, x, g)
  <2>1. f = [p \in 0..i |-> f[p]]
    BY <1>9
  <2>. QED
    BY <1>13, <2>1 DEF Runs
<1>. QED
  BY <1>4, <1>13, <1>14

\* What one pass of a loop keeps holds after every pass.
LEMMA LoopStays ==
  ASSUME NEW n \in Nat, NEW S, NEW f, f[0] \in S[0],
         \A p \in 1..n : f[p - 1] \in S[p - 1] => f[p] \in S[p]
  PROVE  \A p \in 0..n : f[p] \in S[p]
<1> DEFINE bad == {i \in 0..n : f[i] \notin S[i]}
<1>1. SUFFICES ASSUME bad # {} PROVE FALSE
  BY <1>1
<1>2. bad \in SUBSET Nat
  OBVIOUS
<1>3. PICK i \in bad : \A j \in bad : i <= j
  BY <1>1, <1>2, LeastOf
<1>4. i \in 0..n /\ f[i] \notin S[i]
  OBVIOUS
<1>5. i \in 1..n
  BY <1>4
<1>6. i - 1 \in 0..n /\ ~(i <= i - 1)
  BY <1>5
<1>7. f[i - 1] \in S[i - 1]
  BY <1>3, <1>6
<1>. QED
  BY <1>4, <1>5, <1>7

\* The links of v that a loop has still to come to after p passes, and those
\* it has passed.
ToCome(v, p) == {v[j] : j \in (p + 1)..Len(v)}
Passed(v, p, k) == \E j \in 1..p : v[j] = k

\* One pass: the link at hand is no longer to come, but passed.
LEMMA Passes ==
  ASSUME NEW S, NEW v \in Seq(S), \A p, r \in 1..Len(v) : v[p] = v[r] => p = r,
         NEW p \in 1..Len(v)
  PROVE  /\ p - 1 \in 0..Len(v) /\ v[p] \in ToCome(v, p - 1)
         /\ ToCome(v, p) = ToCome(v, p - 1) \ {v[p]}
         /\ \A k : Passed(v, p, k) <=> Passed(v, p - 1, k) \/ k = v[p]
<1>1. PICK n \in Nat : n = Len(v) /\ p \in 1..n
  OBVIOUS
<1>2. /\ p - 1 + 1 = p
      /\ \A j \in (p + 1)..n : j \in p..n /\ j # p /\ j \in 1..n
      /\ \A j \in p..n : j # p => j \in (p + 1)..n
      /\ \A j \in p..n : j \in 1..n
      /\ p \in p..n /\ p - 1 \in 0..n
  BY <1>1
<1>3. ToCome(v, p - 1) = {v[j] : j \in p..n} /\ ToCome(v, p) = {v[j] : j \in (p + 1)..n}
  BY <1>1, <1>2 DEF ToCome
<1>4. ToCome(v, p) = ToCome(v, p - 1) \ {v[p]}
  <2>1. \A j \in (p + 1)..n : v[j] # v[p]
    BY <1>1, <1>2
  <2>. QED
    BY <1>2, <1>3, <2>1
<1>5. ASSUME NEW k PROVE Passed(v, p, k) <=> Passed(v, p - 1, k) \/ k = v[p]
  <2>1. \A j \in 1..p : j \in 1..(p - 1) \/ j = p
    BY <1>1
  <2>2. \A j \in 1..(p - 1) : j \in 1..p
    BY <1>1
  <2>3. p \in 1..p
    BY <1>1
  <2>. QED
    BY <2>1, <2>2, <2>3 DEF Passed
<1>. QED
  BY <1>1, <1>2, <1>3, <1>4, <1>5

\* Before the first pass and after the last one.
LEMMA NoPasses ==
  ASSUME NEW S, NEW v \in Seq(S)
  PROVE  /\ \A k : k \in ToCome(v, 0) <=> On(v, k)
         /\ ToCome(v, Len(v)) = {}
         /\ \A k : ~Passed(v, 0, k)
         /\ \A k : Passed(v, Len(v), k) <=> On(v, k)
<1>1. PICK n \in Nat : n = Len(v)
  OBVIOUS
<1>2. 0 + 1 = 1 /\ (n + 1)..n = {} /\ 1..0 = {}
  OBVIOUS
<1>. QED
  BY <1>1, <1>2 DEF ToCome, Passed, On

\* Clean after p passes: v was the list, s is what the lists will be.
Cleaning(m, l, s, v, x, p) ==
  /\ x \in Memory /\ x.list = m.list
  /\ FitsLists(WithList(x, l, EmptyChain), s, ToCome(v, p))
  /\ \A k \in Links : x.item[k] = IF Passed(v, p, k) THEN Null ELSE m.item[k]

\* EmptyChain is the chain of no links.
LEMMA EmptyEnds ==
  EmptyChain = EndsOf(<<>>) /\ EmptyChain \in ChainEnds
<1>1. <<>> \in Seq(Links) /\ Len(<<>>) = 0
  BY EmptySeq
<1>2. EmptyChain = EndsOf(<<>>)
  BY <1>1 DEF EmptyChain, EndsOf, FirstLink, LastLink
<1>. QED
  BY <1>1, <1>2, EndsOfSeq

\* One pass of the loop of Clean.
LEMMA CleaningGoesOn ==
  ASSUME NEW m, NEW l \in Lists, NEW s, NEW v \in Seq(Links),
         \A p, r \in 1..Len(v) : v[p] = v[r] => p = r,
         NEW p \in 1..Len(v), NEW x, Cleaning(m, l, s, v, x, p - 1),
         NEW x2, x2 = SafeReleaseLinkItem(x, l, v[p])
  PROVE  Cleaning(m, l, s, v, x2, p)
<1>1. /\ p - 1 \in 0..Len(v) /\ v[p] \in ToCome(v, p - 1)
      /\ ToCome(v, p) = ToCome(v, p - 1) \ {v[p]}
      /\ \A k : Passed(v, p, k) <=> Passed(v, p - 1, k) \/ k = v[p]
  BY Passes
<1>2. /\ x \in Memory /\ x.list = m.list
      /\ \A k \in Links : x.item[k] = IF Passed(v, p - 1, k) THEN Null ELSE m.item[k]
  BY DEF Cleaning
<1>3. PICK w : w = WithList(x, l, EmptyChain)
  OBVIOUS
<1>4. PICK w2 : w2 = WithList(x2, l, EmptyChain)
  OBVIOUS
<1>5. PICK loose : loose = ToCome(v, p - 1)
  OBVIOUS
<1>6. PICK s1 : Sound(w, s1, loose) /\ SameLists(s, s1)
  BY <1>3, <1>5 DEF Cleaning, FitsLists
<1>7. PICK k \in loose : k = v[p]
  BY <1>1, <1>5
<1>8. PICK q \in ChainEnds : q = EmptyChain
  BY EmptyEnds
<1>9. Discarded(x, x2, k) /\ FitsLists(w2, s1, loose \ {k})
  <2>1. w = WithList(x, l, q) /\ w2 = WithList(x2, l, q) /\ x2 = SafeReleaseLinkItem(x, l, k)
    BY <1>3, <1>4, <1>7, <1>8
  <2>. QED
    BY <1>2, <1>6, <2>1, Released
<1>10. FitsLists(w2, s, ToCome(v, p))
  <2>1. loose \ {k} = ToCome(v, p)
    BY <1>1, <1>5, <1>7
  <2>2. PICK s2 : Sound(w2, s2, loose \ {k}) /\ SameLists(s1, s2)
    BY <1>9 DEF FitsLists
  <2>3. SameLists(s, s2)
    BY <1>6, <2>2 DEF SameLists
  <2>. QED
    BY <2>1, <2>2, <2>3 DEF FitsLists
<1>11. k \in Links /\ \A j \in Links : x2.item[j] = IF j = k THEN Null ELSE x.item[j]
  <2>1. k \in Links
    BY <1>6, SoundFields
  <2>. QED
    BY <1>2, <1>9, <2>1, MemoryFields DEF Discarded
<1>12. \A j \in Links : x2.item[j] = IF Passed(v, p, j) THEN Null ELSE m.item[j]
  BY <1>1, <1>2, <1>7, <1>11
<1>. QED
  BY <1>2, <1>4, <1>9, <1>10, <1>12 DEF Cleaning, Discarded

CleanLoop(f, m, l, v) ==
  f = [p \in 0..Len(v) |-> IF p = 0 THEN m ELSE SafeReleaseLinkItem(f[p - 1], l, v[p])]

\* All passes of the loop of Clean.
LEMMA CleanLoopRuns ==
  ASSUME NEW m, NEW l \in Lists, NEW s, NEW v \in Seq(Links),
         \A p, r \in 1..Len(v) : v[p] = v[r] => p = r,
         Cleaning(m, l, s, v, m, 0)
  PROVE  /\ \E f : CleanLoop(f, m, l, v)
         /\ \A f : CleanLoop(f, m, l, v) => Cleaning(m, l, s, v, f[Len(v)], Len(v))
<1>1. PICK n \in Nat : n = Len(v)
  OBVIOUS
<1>2. PICK S : S = [p \in 0..n |-> {x \in Memory : Cleaning(m, l, s, v, x, p)}]
  OBVIOUS
<1>3. PICK g : g = [p \in 1..n |-> [x \in Memory |-> SafeReleaseLinkItem(x, l, v[p])]]
  OBVIOUS
<1>4. \A p \in 0..n : \A x : x \in S[p] <=> Cleaning(m, l, s, v, x, p)
  BY <1>2 DEF Cleaning
<1>5. ASSUME NEW p \in 1..n, NEW x \in S[p - 1]
      PROVE  /\ p - 1 \in 0..n /\ SafeReleaseLinkItem(x, l, v[p]) \in S[p]
             /\ g[p][x] = SafeReleaseLinkItem(x, l, v[p])
  <2>1. p - 1 \in 0..n /\ p \in 0..n /\ p \in 1..Len(v)
    BY <1>1
  <2>2. Cleaning(m, l, s, v, x, p - 1)
    BY <1>4, <2>1
  <2>3. Cleaning(m, l, s, v, SafeReleaseLinkItem(x, l, v[p]), p)
    BY <2>1, <2>2, CleaningGoesOn
  <2>4. x \in Memory
    BY <2>2 DEF Cleaning
  <2>. QED
    BY <1>3, <1>4, <2>1, <2>3, <2>4
<1>6. 0 \in 0..n /\ n \in 0..n
  OBVIOUS
<1>7. m \in S[0]
  BY <1>4, <1>6
<1>8. \E f : CleanLoop(f, m, l, v)
  <2>1. PICK f : Runs(f, n, m, g) /\ \A p \in 0..n : f[p] \in S[p]
    <3>1. \A p \in 1..n : \A y \in S[p - 1] : g[p][y] \in S[p]
      BY <1>5
    <3>. QED
      BY <1>7, <3>1, LoopRuns
  <2>2. ASSUME NEW p \in 0..n, p # 0 PROVE g[p][f[p - 1]] = SafeReleaseLinkItem(f[p - 1], l, v[p])
    <3>1. p \in 1..n /\ p - 1 \in 0..n
      BY <2>2
    <3>. QED
      BY <1>5, <2>1, <3>1
  <2>3. f = [p \in 0..n |-> IF p = 0 THEN m ELSE SafeReleaseLinkItem(f[p - 1], l, v[p])]
    BY <2>1, <2>2 DEF Runs
  <2>. QED
    BY <1>1, <2>3 DEF CleanLoop
<1>9. ASSUME NEW f, CleanLoop(f, m, l, v) PROVE f[n] \in S[n]
  <2>1. \A p \in 0..n : f[p] = IF p = 0 THEN m ELSE SafeReleaseLinkItem(f[p - 1], l, v[p])
    BY <1>1, <1>9 DEF CleanLoop
  <2>2. f[0] \in S[0]
    BY <1>6, <1>7, <2>1
  <2>3. ASSUME NEW p \in 1..n, f[p - 1] \in S[p - 1] PROVE f[p] \in S[p]
    <3>1. p \in 0..n /\ p # 0
      OBVIOUS
    <3>2. f[p] = SafeReleaseLinkItem(f[p - 1], l, v[p])
      BY <2>1, <3>1
    <3>. QED
      BY <1>5, <2>3, <3>2
  <2>4. \A p \in 0..n : f[p] \in S[p]
    BY <2>2, <2>3, LoopStays
  <2>. QED
    BY <1>6, <2>4
<1>. QED
  BY <1>1, <1>4, <1>6, <1>8, <1>9

\* The list l has become empty, and its links hold nothing.
Emptied(m, s, m2, s2, l) ==
  /\ Sound(m2, s2, {}) /\ OtherLists(s, s2, l) /\ s2[ListOf(l)] = <<>>
  /\ \A k \in Links : m2.item[k] = IF On(s[ListOf(l)], k) THEN Null ELSE m.item[k]

\* Clean empties one list and leaves the others as they are.
LEMMA Cleaned ==
  ASSUME NEW m, NEW s, Sound(m, s, {}), NEW l \in Lists
  PROVE  \E s2 : Emptied(m, s, Clean(m, l), s2, l)
<1> DEFINE c == ListOf(l)
           v == s[c]
<1>1. /\ m \in Memory /\ s \in [Chains -> Seq(Links)] /\ v \in Seq(Links) /\ c \in Chains
      /\ Forward(m, l) = v /\ Apart(s)
  BY SoundFields, SoundEnds, ForwardFinds, ChainKinds
<1>2. \A p, r \in 1..Len(v) : v[p] = v[r] => p = r
  BY <1>1 DEF Apart
<1>3. PICK s0 : s0 = [s EXCEPT ![c] = <<>>]
  OBVIOUS
<1>4. PICK w : w = WithList(m, l, EmptyChain)
  OBVIOUS
<1>5. /\ w \in Memory /\ w.previous = m.previous /\ w.next = m.next
      /\ w.item = m.item /\ w.allocated = m.allocated /\ w.cache = m.cache
      /\ w.list[l] = EmptyChain /\ \A j \in Lists : j # l => w.list[j] = m.list[j]
  <2>1. PICK q \in ChainEnds : q = EmptyChain
    BY EmptyEnds
  <2>. QED
    BY <1>1, <1>4, <2>1, ListWritten
<1> HIDE DEF v, c
<1>6. Sound(w, s0, ToCome(v, 0))
  <2>1. EndsIn(w)[c] = EndsOf(<<>>) /\ KeptEnds(EndsIn(m), EndsIn(w), c)
    BY <1>5, EndsInLists, EndsChange, EmptyEnds DEF c
  <2>2. PICK loose : loose = ToCome(v, 0)
    OBVIOUS
  <2>3. \A k : k \in loose <=> On(v, k)
    BY <1>1, <2>2, NoPasses
  <2>4. loose \in SUBSET Links
    BY <1>1, <2>2 DEF ToCome
  <2>5. PICK none : none = {}
    OBVIOUS
  <2>6. Sound(m, s, none) /\ \A k \in Links : k \in loose <=> k \in none \/ On(s[c], k)
    BY <2>3, <2>5 DEF v
  <2>7. Sound(w, s0, loose)
    BY <1>1, <1>3, <1>5, <2>1, <2>4, <2>6, Dropped
  <2>. QED
    BY <2>2, <2>7
<1>7. Cleaning(m, l, s0, v, m, 0)
  <2>1. SameLists(s0, s0)
    BY DEF SameLists
  <2>2. \A k : ~Passed(v, 0, k)
    BY <1>1, NoPasses
  <2>. QED
    BY <1>1, <1>4, <1>6, <2>1, <2>2 DEF Cleaning, FitsLists
<1>8. PICK f : CleanLoop(f, m, l, v) /\ Clean(m, l) = WithList(f[Len(v)], l, EmptyChain)
  <2>1. PICK e : e = CHOOSE f : CleanLoop(f, m, l, v)
    OBVIOUS
  <2>2. CleanLoop(e, m, l, v)
    <3>1. \E f : CleanLoop(f, m, l, v)
      BY <1>1, <1>2, <1>7, CleanLoopRuns
    <3>. QED
      BY <2>1, <3>1
  <2>3. Clean(m, l) = WithList(e[Len(v)], l, EmptyChain)
    BY <1>1, <2>1 DEF Clean, CleanLoop, WithList
  <2>. QED
    BY <2>2, <2>3
<1>9. Cleaning(m, l, s0, v, f[Len(v)], Len(v))
  BY <1>1, <1>2, <1>7, <1>8, CleanLoopRuns
<1>10. ToCome(v, Len(v)) = {} /\ \A k : Passed(v, Len(v), k) <=> On(v, k)
  BY <1>1, NoPasses
<1>11. PICK s2 : Sound(Clean(m, l), s2, {}) /\ SameLists(s0, s2)
  BY <1>8, <1>9, <1>10 DEF Cleaning, FitsLists
<1>12. PICK x \in Memory : x = f[Len(v)] /\ Clean(m, l) = WithList(x, l, EmptyChain)
  BY <1>8, <1>9 DEF Cleaning
<1>13. Clean(m, l).item = x.item
  <2>1. PICK q \in ChainEnds : q = EmptyChain
    BY EmptyEnds
  <2>. QED
    BY <1>12, <2>1, ListWritten
<1>14. \A k \in Links : Clean(m, l).item[k] = IF On(v, k) THEN Null ELSE m.item[k]
  BY <1>9, <1>10, <1>12, <1>13 DEF Cleaning
<1>15. s2[c] = <<>> /\ OtherLists(s, s2, l)
  <2>1. s0[c] = <<>> /\ \A d \in Chains : d # c => s0[d] = s[d]
    BY <1>1, <1>3
  <2>2. \A j \in Lists : j # l => ListOf(j) \in Chains /\ ListOf(j) # c
    BY ChainKinds DEF c
  <2>. QED
    BY <1>11, <2>1, <2>2 DEF SameLists, OtherLists, c
<1>. QED
  BY <1>11, <1>14, <1>15 DEF Emptied, v, c

-----------------------------------------------------------------------------
\* The destructor of the cache after p passes: the cache has forgotten its
\* links v, and those passed are deleted.
Deleting(m, l, s, v, x, p) ==
  /\ x \in Memory /\ Sound(WithCache(x, l, EmptyChain), s, ToCome(v, p))
  /\ x.item = m.item

\* One pass of the loop of the cache's destructor.
LEMMA DeletingGoesOn ==
  ASSUME NEW m, NEW l \in Lists, NEW s, NEW v \in Seq(Links),
         \A p, r \in 1..Len(v) : v[p] = v[r] => p = r,
         NEW p \in 1..Len(v), m.item[v[p]] = Null, NEW x, Deleting(m, l, s, v, x, p - 1),
         NEW x2, x2 = Delete(x, v[p])
  PROVE  Deleting(m, l, s, v, x2, p)
<1>1. v[p] \in ToCome(v, p - 1) /\ ToCome(v, p) = ToCome(v, p - 1) \ {v[p]}
  BY Passes
<1>2. x \in Memory /\ x.item = m.item
  BY DEF Deleting
<1>3. PICK w : w = WithCache(x, l, EmptyChain)
  OBVIOUS
<1>4. PICK w2 : w2 = WithCache(x2, l, EmptyChain)
  OBVIOUS
<1>5. PICK loose : loose = ToCome(v, p - 1) /\ Sound(w, s, loose)
  BY <1>3 DEF Deleting
<1>6. PICK k \in loose : k = v[p]
  BY <1>1, <1>5
<1>7. k \in Links /\ w \in Memory
  BY <1>5, SoundFields
<1>8. PICK d : d = Delete(w, k)
  OBVIOUS
<1>9. Sound(d, s, loose \ {k})
  BY <1>5, <1>8, Deleted
<1>10. PICK q \in ChainEnds : q = EmptyChain
  BY EmptyEnds
<1>11. DeletedFrom(x, x2, k) /\ DeletedFrom(w, d, k)
  BY <1>2, <1>6, <1>7, <1>8, DeleteFields
<1>12. /\ w.previous = x.previous /\ w.next = x.next
       /\ w.item = x.item /\ w.allocated = x.allocated /\ w.list = x.list
       /\ w.cache[l] = q /\ \A j \in Lists : j # l => w.cache[j] = x.cache[j]
  BY <1>2, <1>3, <1>10, CacheWritten
<1>13. /\ w2 \in Memory /\ w2.previous = x2.previous /\ w2.next = x2.next
       /\ w2.item = x2.item /\ w2.allocated = x2.allocated /\ w2.list = x2.list
       /\ w2.cache[l] = q /\ \A j \in Lists : j # l => w2.cache[j] = x2.cache[j]
  <2>1. x2 \in Memory
    BY <1>11 DEF DeletedFrom
  <2>. QED
    BY <1>4, <1>10, <2>1, CacheWritten
<1>14. w2 = d
  <2>1. w2.cache = w.cache
    <3>1. \A j \in Lists : w2.cache[j] = w.cache[j]
      BY <1>11, <1>12, <1>13 DEF DeletedFrom
    <3>. QED
      BY <1>7, <1>13, <3>1, MemoryFields
  <2>2. /\ d.previous = w2.previous /\ d.next = w2.next /\ d.item = w2.item
        /\ d.allocated = w2.allocated /\ d.list = w2.list /\ d.cache = w2.cache
    BY <1>11, <1>12, <1>13, <2>1 DEF DeletedFrom
  <2>3. d \in Memory
    BY <1>11 DEF DeletedFrom
  <2>. QED
    BY <1>13, <2>2, <2>3, SameMemory
<1>15. x2.item = m.item
  <2>1. x.item[k] = Null /\ x2.item = [x.item EXCEPT ![k] = Null]
    BY <1>2, <1>6, <1>11 DEF DeletedFrom
  <2>. QED
    BY <1>2, <1>7, <2>1, MemoryFields
<1>16. loose \ {k} = ToCome(v, p)
  BY <1>1, <1>5, <1>6
<1>17. x2 \in Memory
  BY <1>11 DEF DeletedFrom
<1>18. Sound(WithCache(x2, l, EmptyChain), s, ToCome(v, p))
  BY <1>4, <1>9, <1>14, <1>16
<1>. QED
  BY <1>15, <1>17, <1>18 DEF Deleting

DeleteLoop(f, m, v) ==
  f = [p \in 0..Len(v) |-> IF p = 0 THEN m ELSE Delete(f[p - 1], v[p])]

\* All passes of that loop.
LEMMA DeleteLoopRuns ==
  ASSUME NEW m, NEW l \in Lists, NEW s, NEW v \in Seq(Links),
         \A p, r \in 1..Len(v) : v[p] = v[r] => p = r,
         \A p \in 1..Len(v) : m.item[v[p]] = Null,
         Deleting(m, l, s, v, m, 0)
  PROVE  /\ \E f : DeleteLoop(f, m, v)
         /\ \A f : DeleteLoop(f, m, v) => Deleting(m, l, s, v, f[Len(v)], Len(v))
<1>1. PICK n \in Nat : n = Len(v)
  OBVIOUS
<1>2. PICK S : S = [p \in 0..n |-> {x \in Memory : Deleting(m, l, s, v, x, p)}]
  OBVIOUS
<1>3. PICK g : g = [p \in 1..n |-> [x \in Memory |-> Delete(x, v[p])]]
  OBVIOUS
<1>4. \A p \in 0..n : \A x : x \in S[p] <=> Deleting(m, l, s, v, x, p)
  BY <1>2 DEF Deleting
<1>5. ASSUME NEW p \in 1..n, NEW x \in S[p - 1]
      PROVE  /\ p - 1 \in 0..n /\ Delete(x, v[p]) \in S[p]
             /\ g[p][x] = Delete(x, v[p])
  <2>1. p - 1 \in 0..n /\ p \in 0..n /\ p \in 1..Len(v) /\ m.item[v[p]] = Null
    BY <1>1
  <2>2. Deleting(m, l, s, v, x, p - 1)
    BY <1>4, <2>1
  <2>3. Deleting(m, l, s, v, Delete(x, v[p]), p)
    BY <2>1, <2>2, DeletingGoesOn
  <2>4. x \in Memory
    BY <2>2 DEF Deleting
  <2>. QED
    BY <1>3, <1>4, <2>1, <2>3, <2>4
<1>6. 0 \in 0..n /\ n \in 0..n
  OBVIOUS
<1>7. m \in S[0]
  BY <1>4, <1>6
<1>8. \E f : DeleteLoop(f, m, v)
  <2>1. PICK f : Runs(f, n, m, g) /\ \A p \in 0..n : f[p] \in S[p]
    <3>1. \A p \in 1..n : \A y \in S[p - 1] : g[p][y] \in S[p]
      BY <1>5
    <3>. QED
      BY <1>7, <3>1, LoopRuns
  <2>2. ASSUME NEW p \in 0..n, p # 0 PROVE g[p][f[p - 1]] = Delete(f[p - 1], v[p])
    <3>1. p \in 1..n /\ p - 1 \in 0..n
      BY <2>2
    <3>. QED
      BY <1>5, <2>1, <3>1
  <2>3. f = [p \in 0..n |-> IF p = 0 THEN m ELSE Delete(f[p - 1], v[p])]
    BY <2>1, <2>2 DEF Runs
  <2>. QED
    BY <1>1, <2>3 DEF DeleteLoop
<1>9. ASSUME NEW f, DeleteLoop(f, m, v) PROVE f[n] \in S[n]
  <2>1. \A p \in 0..n : f[p] = IF p = 0 THEN m ELSE Delete(f[p - 1], v[p])
    BY <1>1, <1>9 DEF DeleteLoop
  <2>2. f[0] \in S[0]
    BY <1>6, <1>7, <2>1
  <2>3. ASSUME NEW p \in 1..n, f[p - 1] \in S[p - 1] PROVE f[p] \in S[p]
    <3>1. p \in 0..n /\ p # 0
      OBVIOUS
    <3>2. f[p] = Delete(f[p - 1], v[p])
      BY <2>1, <3>1
    <3>. QED
      BY <1>5, <2>3, <3>2
  <2>4. \A p \in 0..n : f[p] \in S[p]
    BY <2>2, <2>3, LoopStays
  <2>. QED
    BY <1>6, <2>4
<1>. QED
  BY <1>1, <1>4, <1>6, <1>8, <1>9

\* The destructors empty one list and its cache.
LEMMA Destroyed ==
  ASSUME NEW m, NEW s, Sound(m, s, {}), NEW l \in Lists
  PROVE  \E s2 : Emptied(m, s, Destroy(m, l), s2, l)
<1>1. PICK a : a = Clean(m, l)
  OBVIOUS
<1>2. PICK s1 : Emptied(m, s, a, s1, l)
  BY <1>1, Cleaned
<1>3. /\ Sound(a, s1, {}) /\ OtherLists(s, s1, l) /\ s1[ListOf(l)] = <<>>
      /\ \A k \in Links : a.item[k] = IF On(s[ListOf(l)], k) THEN Null ELSE m.item[k]
  BY <1>2 DEF Emptied
<1> DEFINE c == CacheOf(l)
           v == s1[c]
<1>4. /\ a \in Memory /\ s1 \in [Chains -> Seq(Links)] /\ v \in Seq(Links) /\ c \in Chains
      /\ Chain(a.next, a.cache[l].head) = v /\ Apart(s1) /\ Filled(a, s1)
  BY <1>3, SoundFields, SoundEnds, ForwardFinds, ChainKinds
<1>5. \A p, r \in 1..Len(v) : v[p] = v[r] => p = r
  BY <1>4 DEF Apart
<1>6. \A p \in 1..Len(v) : a.item[v[p]] = Null
  <2>1. ItemsIn(c) = {Null}
    BY DEF ItemsIn, CacheOf
  <2>. QED
    BY <1>4, <2>1 DEF Filled
<1>7. PICK s0 : s0 = [s1 EXCEPT ![c] = <<>>]
  OBVIOUS
<1>8. PICK w : w = WithCache(a, l, EmptyChain)
  OBVIOUS
<1>9. /\ w \in Memory /\ w.previous = a.previous /\ w.next = a.next
      /\ w.item = a.item /\ w.allocated = a.allocated /\ w.list = a.list
      /\ w.cache[l] = EmptyChain /\ \A j \in Lists : j # l => w.cache[j] = a.cache[j]
  <2>1. PICK q \in ChainEnds : q = EmptyChain
    BY EmptyEnds
  <2>. QED
    BY <1>4, <1>8, <2>1, CacheWritten
<1> HIDE DEF v, c
<1>10. Sound(w, s0, ToCome(v, 0))
  <2>1. EndsIn(w)[c] = EndsOf(<<>>) /\ KeptEnds(EndsIn(a), EndsIn(w), c)
    BY <1>9, EndsInLists, EndsChange, EmptyEnds DEF c
  <2>2. PICK loose : loose = ToCome(v, 0)
    OBVIOUS
  <2>3. \A k : k \in loose <=> On(v, k)
    BY <1>4, <2>2, NoPasses
  <2>4. loose \in SUBSET Links
    BY <1>4, <2>2 DEF ToCome
  <2>5. PICK none : none = {}
    OBVIOUS
  <2>6. Sound(a, s1, none) /\ \A k \in Links : k \in loose <=> k \in none \/ On(s1[c], k)
    BY <1>3, <2>3, <2>5 DEF v
  <2>7. Sound(w, s0, loose)
    BY <1>4, <1>7, <1>9, <2>1, <2>4, <2>6, Dropped
  <2>. QED
    BY <2>2, <2>7
<1>11. Deleting(a, l, s0, v, a, 0)
  BY <1>4, <1>8, <1>10 DEF Deleting
<1>12. PICK f : DeleteLoop(f, a, v) /\ Destroy(m, l) = WithCache(f[Len(v)], l, EmptyChain)
  <2>1. PICK e : e = CHOOSE f : DeleteLoop(f, a, v)
    OBVIOUS
  <2>2. DeleteLoop(e, a, v)
    <3>1. \E f : DeleteLoop(f, a, v)
      BY <1>4, <1>5, <1>6, <1>11, DeleteLoopRuns
    <3>. QED
      BY <2>1, <3>1
  <2>3. Destroy(m, l) = WithCache(e[Len(v)], l, EmptyChain)
    BY <1>1, <1>4, <2>1 DEF Destroy, DeleteLoop, WithCache
  <2>. QED
    BY <2>2, <2>3
<1>13. Deleting(a, l, s0, v, f[Len(v)], Len(v))
  BY <1>4, <1>5, <1>6, <1>11, <1>12, DeleteLoopRuns
<1>14. ToCome(v, Len(v)) = {}
  BY <1>4, NoPasses
<1>15. Sound(Destroy(m, l), s0, {})
  BY <1>12, <1>13, <1>14 DEF Deleting
<1>16. Destroy(m, l).item = a.item
  <2>1. PICK x \in Memory : x = f[Len(v)] /\ x.item = a.item
    BY <1>13 DEF Deleting
  <2>2. PICK q \in ChainEnds : q = EmptyChain
    BY EmptyEnds
  <2>. QED
    BY <1>12, <2>1, <2>2, CacheWritten
<1>17. s0[ListOf(l)] = <<>> /\ OtherLists(s, s0, l)
  <2>1. \A j \in Lists : ListOf(j) \in Chains /\ ListOf(j) # c
    BY ChainKinds DEF c
  <2>2. \A d \in Chains : d # c => s0[d] = s1[d]
    BY <1>4, <1>7
  <2>. QED
    BY <1>3, <2>1, <2>2 DEF OtherLists
<1>. QED
  BY <1>3, <1>15, <1>16, <1>17 DEF Emptied

(* The locks of the lists.                                                 *)

\* What a client may be doing, wherever its traversal is.  Concatenation has
\* found the source's lock free while the destination's was its own.
CarryCall(dst, src, p, q) ==
  [op |-> "carry", dst |-> dst, src |-> src, position |-> p, positionNext |-> q]

TraverseCall(l, p, q) ==
  [op |-> "traverse", list |-> l, position |-> p, positionNext |-> q]

\* A thread is in no call or at one of the places of a call.
IsCall(c) ==
  \/ c = NoCall
  \/ \E dst, src \in Lists : c = [op |-> "lockSource", dst |-> dst, src |-> src]
  \/ \E dst, src \in Lists : dst # src /\ \E p, q : c = CarryCall(dst, src, p, q)
  \/ \E l \in Lists : c = [op |-> "unlock", list |-> l]
  \/ \E l \in Lists : \E p, q : c = TraverseCall(l, p, q)

\* The locks that a call is going to release.
Holds(c, l) ==
  \/ c.op = "lockSource" /\ l = c.dst
  \/ c.op = "carry" /\ (l = c.dst \/ l = c.src)
  \/ c.op \in {"unlock", "traverse"} /\ l = c.list

\* A thread has the lock of a list exactly while its call is going to release it.
LocksInv ==
  /\ lock \in [Lists -> Clients \cup {NoOne}]
  /\ DOMAIN call = Clients /\ call = [t \in Clients |-> call[t]]
  /\ \A t \in Clients : IsCall(call[t])
  /\ \A t \in Clients, l \in Lists : Holds(call[t], l) <=> lock[l] = t

\* Each kind of call by its op, and what the positions do not change.
LEMMA CallKinds ==
  ASSUME NEW c, IsCall(c)
  PROVE  /\ c.op = "lockSource" =>
              \E dst, src \in Lists : c = [op |-> "lockSource", dst |-> dst, src |-> src]
         /\ c.op = "carry" =>
              \E dst, src \in Lists : dst # src /\ \E p, q : c = CarryCall(dst, src, p, q)
         /\ c.op = "unlock" => \E l \in Lists : c = [op |-> "unlock", list |-> l]
         /\ c.op = "traverse" => \E l \in Lists : \E p, q : c = TraverseCall(l, p, q)
<1>1. NoCall.op = "none"
  BY DEF NoCall
<1>2. \A dst, src : [op |-> "lockSource", dst |-> dst, src |-> src].op = "lockSource"
  OBVIOUS
<1>3. \A dst, src, p, q : CarryCall(dst, src, p, q).op = "carry"
  BY DEF CarryCall
<1>4. \A l : [op |-> "unlock", list |-> l].op = "unlock"
  OBVIOUS
<1>5. \A l, p, q : TraverseCall(l, p, q).op = "traverse"
  BY DEF TraverseCall
<1>. QED
  BY <1>1, <1>2, <1>3, <1>4, <1>5 DEF IsCall

\* The lists that a concatenation in its loop holds.
LEMMA CarryCalls ==
  ASSUME NEW dst \in Lists, NEW src \in Lists, dst # src, NEW p, NEW q
  PROVE  /\ IsCall(CarryCall(dst, src, p, q))
         /\ \A k : Holds(CarryCall(dst, src, p, q), k) <=> k = dst \/ k = src
         /\ CarryCall(dst, src, p, q).dst = dst /\ CarryCall(dst, src, p, q).src = src
<1>1. IsCall(CarryCall(dst, src, p, q))
  BY Zenon DEF IsCall
<1>2. \A k : Holds(CarryCall(dst, src, p, q), k) <=> k = dst \/ k = src
  BY DEF Holds, CarryCall
<1>. QED
  BY <1>1, <1>2 DEF CarryCall

\* The list that a traversal holds.
LEMMA TraverseCalls ==
  ASSUME NEW l \in Lists, NEW p, NEW q
  PROVE  /\ IsCall(TraverseCall(l, p, q))
         /\ \A k : Holds(TraverseCall(l, p, q), k) <=> k = l
         /\ TraverseCall(l, p, q).list = l
<1>1. IsCall(TraverseCall(l, p, q))
  BY Zenon DEF IsCall
<1>2. \A k : Holds(TraverseCall(l, p, q), k) <=> k = l
  BY DEF Holds, TraverseCall
<1>. QED
  BY <1>1, <1>2 DEF TraverseCall

\* A step of the call of one client.
CallStep(t, c) ==
  /\ call' = [call EXCEPT ![t] = c]
  /\ IsCall(c)
  /\ \A l \in Lists : Holds(c, l) <=> lock'[l] = t
  /\ lock' \in [Lists -> Clients \cup {NoOne}]
  /\ \A u \in Clients, l \in Lists : u # t => (lock'[l] = u <=> lock[l] = u)

\* A step of one client that keeps its locks and its call in line.
LEMMA CallStepKeeps ==
  ASSUME LocksInv, NEW t \in Clients, NEW c, CallStep(t, c)
  PROVE  LocksInv'
<1>1. /\ DOMAIN call' = Clients /\ call' = [u \in Clients |-> call'[u]]
      /\ call'[t] = c /\ \A u \in Clients : u # t => call'[u] = call[u]
  BY DEF LocksInv, CallStep
<1>2. \A u \in Clients : IsCall(call'[u])
  BY <1>1, Zenon DEF LocksInv, CallStep
<1>3. \A u \in Clients, l \in Lists : Holds(call'[u], l) <=> lock'[l] = u
  BY <1>1, ZenonT(30) DEF LocksInv, CallStep
<1>. QED
  BY <1>1, <1>2, <1>3 DEF LocksInv, CallStep

\* The initial states hold no lock.
LEMMA InitLocksInv == ListInit => LocksInv
  BY ListConstants DEF ListInit, LocksInv, IsCall, Holds, NoCall

\* A call takes a lock that is free: SafeConcatenation and Traverse begin,
\* Concatenation takes the source's.
LEMMA LockStep ==
  ASSUME LocksInv, NEW t \in Clients, NEW l \in Lists, Free(l),
         lock' = [lock EXCEPT ![l] = t],
         NEW c, IsCall(c), call' = [call EXCEPT ![t] = c],
         \A k \in Lists : Holds(c, k) <=> k = l \/ Holds(call[t], k)
  PROVE  LocksInv'
<1>1. /\ lock' \in [Lists -> Clients \cup {NoOne}]
      /\ lock'[l] = t /\ \A k \in Lists : k # l => lock'[k] = lock[k]
  BY DEF LocksInv
<1>2. lock[l] \notin Clients
  BY ListConstants DEF Free
<1>3. CallStep(t, c)
  BY <1>1, <1>2 DEF CallStep, LocksInv
<1>. QED
  BY <1>3, CallStepKeeps

\* A call gives back a lock that it holds.
LEMMA UnlockStep ==
  ASSUME LocksInv, NEW t \in Clients, NEW l \in Lists, Holds(call[t], l),
         lock' = [lock EXCEPT ![l] = NoOne],
         NEW c, IsCall(c), call' = [call EXCEPT ![t] = c],
         \A k \in Lists : Holds(c, k) <=> k # l /\ Holds(call[t], k)
  PROVE  LocksInv'
<1>1. /\ lock' \in [Lists -> Clients \cup {NoOne}]
      /\ lock'[l] = NoOne /\ \A k \in Lists : k # l => lock'[k] = lock[k]
  BY DEF LocksInv
<1>2. lock[l] = t /\ NoOne \notin Clients
  BY ListConstants DEF LocksInv
<1>3. CallStep(t, c)
  BY <1>1, <1>2 DEF CallStep, LocksInv
<1>. QED
  BY <1>3, CallStepKeeps

\* A step inside the list moves the positions of the call, nothing else.
LEMMA MoveStep ==
  ASSUME LocksInv, NEW t \in Clients, UNCHANGED lock,
         NEW c, IsCall(c), call' = [call EXCEPT ![t] = c],
         \A k \in Lists : Holds(c, k) <=> Holds(call[t], k)
  PROVE  LocksInv'
<1>1. CallStep(t, c)
  BY DEF CallStep, LocksInv
<1>. QED
  BY <1>1, CallStepKeeps

\* Every step keeps locks and calls in line.
LEMMA StepLocksInv == LocksInv /\ [ListNext]_listVars => LocksInv'
<1> SUFFICES ASSUME LocksInv, [ListNext]_listVars PROVE LocksInv'
  OBVIOUS
<1>1. ASSUME UNCHANGED <<lock, call>> PROVE LocksInv'
  BY <1>1 DEF LocksInv
<1>2. ASSUME NEW l, NEW m, OneStep(l, m) PROVE LocksInv'
  BY <1>1, <1>2 DEF OneStep
<1>3. ASSUME NEW t \in Clients, NEW dst \in Lists, NEW src \in Lists,
             SafeConcatenation(t, dst, src)
      PROVE  LocksInv'
  <2> DEFINE c == [op |-> "lockSource", dst |-> dst, src |-> src]
  <2>1. IsCall(c) /\ \A k \in Lists : Holds(c, k) <=> k = dst \/ Holds(call[t], k)
    BY <1>3 DEF SafeConcatenation, Idle, IsCall, Holds
  <2> HIDE DEF c
  <2>2. /\ Free(dst) /\ lock' = [lock EXCEPT ![dst] = t]
        /\ call' = [call EXCEPT ![t] = c]
    BY <1>3 DEF SafeConcatenation, c
  <2>. QED
    BY <2>1, <2>2, LockStep
<1>4. ASSUME NEW t \in Clients, NEW l \in Lists, Traverse(t, l) PROVE LocksInv'
  <2>1. PICK p, q : /\ Free(l) /\ lock' = [lock EXCEPT ![l] = t]
                    /\ call' = [call EXCEPT ![t] = TraverseCall(l, p, q)]
    BY <1>4, Zenon DEF Traverse, TraverseAt, TraverseCall
  <2>2. \A k \in Lists : ~Holds(call[t], k)
    BY <1>4 DEF Traverse, Idle, Holds
  <2>3. /\ IsCall(TraverseCall(l, p, q))
        /\ \A k \in Lists : Holds(TraverseCall(l, p, q), k) <=> k = l \/ Holds(call[t], k)
    BY <2>2, TraverseCalls
  <2>. QED
    BY <2>1, <2>2, <2>3, LockStep
<1>5. ASSUME NEW t \in Clients, LockSource(t) PROVE LocksInv'
  <2>1. PICK dst, src \in Lists : call[t] = [op |-> "lockSource", dst |-> dst, src |-> src]
    BY <1>5, CallKinds DEF LockSource, LocksInv
  <2>2. Free(src) /\ dst # src
    <3>1. lock[dst] = t /\ Free(src)
      BY <1>5, <2>1 DEF LockSource, LocksInv, Holds
    <3>. QED
      BY <3>1, ListConstants DEF Free
  <2>3. PICK p, q : /\ lock' = [lock EXCEPT ![src] = t]
                    /\ call' = [call EXCEPT ![t] = CarryCall(dst, src, p, q)]
    <3>1. call[t].dst = dst /\ call[t].src = src
      BY <2>1
    <3>. QED
      BY <1>5, <3>1, Zenon DEF LockSource, CarryAt, CarryCall
  <2>4. \A k \in Lists : Holds(call[t], k) <=> k = dst
    BY <2>1 DEF Holds
  <2>5. /\ IsCall(CarryCall(dst, src, p, q))
        /\ \A k \in Lists :
             Holds(CarryCall(dst, src, p, q), k) <=> k = src \/ Holds(call[t], k)
    BY <2>2, <2>4, CarryCalls
  <2>. QED
    BY <2>2, <2>3, <2>5, LockStep
<1>6. ASSUME NEW t \in Clients, Carry(t) PROVE LocksInv'
  <2>1. PICK dst, src \in Lists : dst # src /\ \E p, q : call[t] = CarryCall(dst, src, p, q)
    BY <1>6, CallKinds DEF Carry, LocksInv
  <2>2. /\ \A k \in Lists : Holds(call[t], k) <=> k = dst \/ k = src
        /\ call[t].dst = dst /\ call[t].src = src
    BY <2>1, CarryCalls
  <2>3. PICK x, y : call' = [call EXCEPT ![t] = CarryCall(dst, src, x, y)]
    BY <1>6, <2>2, Zenon DEF Carry, CarryAt, CarryCall
  <2>4. /\ IsCall(CarryCall(dst, src, x, y))
        /\ \A k \in Lists : Holds(CarryCall(dst, src, x, y), k) <=> Holds(call[t], k)
    BY <2>1, <2>2, CarryCalls
  <2>. QED
    BY <1>6, <2>3, <2>4, MoveStep DEF Carry
<1>7. ASSUME NEW t \in Clients, UnlockSource(t) PROVE LocksInv'
  <2>1. PICK dst, src \in Lists : dst # src /\ \E p, q : call[t] = CarryCall(dst, src, p, q)
    BY <1>7, CallKinds DEF UnlockSource, LocksInv
  <2>2. /\ \A k \in Lists : Holds(call[t], k) <=> k = dst \/ k = src
        /\ call[t].dst = dst /\ call[t].src = src
    BY <2>1, CarryCalls
  <2> DEFINE c == [op |-> "unlock", list |-> dst]
  <2>3. IsCall(c) /\ \A k \in Lists : Holds(c, k) <=> k = dst
    BY DEF IsCall, Holds
  <2>4. lock' = [lock EXCEPT ![src] = NoOne] /\ call' = [call EXCEPT ![t] = c]
    BY <1>7, <2>2 DEF UnlockSource
  <2> HIDE DEF c
  <2>5. /\ Holds(call[t], src)
        /\ \A k \in Lists : Holds(c, k) <=> k # src /\ Holds(call[t], k)
    BY <2>1, <2>2, <2>3
  <2>. QED
    BY <2>3, <2>4, <2>5, UnlockStep
<1>8. ASSUME NEW t \in Clients, Visit(t) PROVE LocksInv'
  <2>1. PICK l \in Lists : \E p, q : call[t] = TraverseCall(l, p, q)
    BY <1>8, CallKinds DEF Visit, LocksInv
  <2>2. (\A k \in Lists : Holds(call[t], k) <=> k = l) /\ call[t].list = l
    BY <2>1, TraverseCalls
  <2>3. PICK x, y : call' = [call EXCEPT ![t] = TraverseCall(l, x, y)]
    BY <1>8, <2>2, Zenon DEF Visit, TraverseAt, TraverseCall
  <2>4. /\ IsCall(TraverseCall(l, x, y))
        /\ \A k \in Lists : Holds(TraverseCall(l, x, y), k) <=> Holds(call[t], k)
    BY <2>2, TraverseCalls
  <2>. QED
    BY <1>8, <2>3, <2>4, MoveStep DEF Visit
<1>9. ASSUME NEW t \in Clients, Unlock(t) \/ EndTraverse(t) PROVE LocksInv'
  <2>1. call[t].op \in {"unlock", "traverse"} /\ call[t].list \in Lists
    BY <1>9, CallKinds DEF Unlock, EndTraverse, LocksInv, TraverseCall
  <2>2. /\ IsCall(NoCall) /\ Holds(call[t], call[t].list)
        /\ \A k \in Lists : Holds(NoCall, k) <=> k # call[t].list /\ Holds(call[t], k)
    BY <2>1 DEF IsCall, Holds, NoCall
  <2>3. lock' = [lock EXCEPT ![call[t].list] = NoOne] /\ call' = [call EXCEPT ![t] = NoCall]
    BY <1>9 DEF Unlock, EndTraverse
  <2>. QED
    BY <2>1, <2>2, <2>3, UnlockStep
<1>. QED
  BY <1>1, <1>2, <1>3, <1>4, <1>5, <1>6, <1>7, <1>8, <1>9
     DEF ListNext, Inside, listVars, SafeAddItem, SafeDeleteItem, SafeModifyItem, SafeClean, Renew

\* A client has a list's lock exactly while its call is going to release it.
THEOREM LocksInvariant == ListSpec => []LocksInv
<1>. QED
  BY InitLocksInv, StepLocksInv, PTL DEF ListSpec

\* Whoever takes the locks of two lists, and however many do: no early return
\* leaves a list locked, and if no call can go on, those in progress are
\* concatenations each of which waits for a lock that another one of them has.
THEOREM CallsAlwaysGoOn == ListSpec => []CallsGoOn
<1>1. LocksInv => CallsGoOn
  <2> SUFFICES ASSUME LocksInv PROVE CallsGoOn
    OBVIOUS
  <2>1. ASSUME NEW l \in Lists, ~Free(l)
        PROVE  lock[l] \in Clients /\ ~Idle(lock[l])
    <3>1. lock[l] \in Clients /\ Holds(call[lock[l]], l)
      BY <2>1 DEF LocksInv, Free
    <3>. QED
      BY <3>1 DEF Holds, Idle
  <2> DEFINE ring == {t \in Clients : ~Idle(t)}
  <2>2. ASSUME ring # {},
               \A t \in Clients : Idle(t) \/ (call[t].op = "lockSource" /\ ~Free(call[t].src))
        PROVE  Crossed
    <3>1. ASSUME NEW t \in ring
          PROVE  call[t].op = "lockSource" /\ lock[call[t].src] \in ring
      <4>1. call[t].op = "lockSource" /\ ~Free(call[t].src)
        BY <2>2
      <4>2. call[t].src \in Lists
        BY <4>1, CallKinds DEF LocksInv
      <4>. QED
        BY <2>1, <4>1, <4>2
    <3>. QED
      BY <2>2, <3>1 DEF Crossed
  <2>. QED
    BY <2>1, <2>2 DEF CallsGoOn
<1>. QED
  BY <1>1, LocksInvariant, PTL

-----------------------------------------------------------------------------
(* The bound on the items.                                                 *)

\* There are only so many links that hold an item.
LEMMA HoldingFinite ==
  ASSUME NEW m
  PROVE  IsFiniteSet(Holding(m)) /\ Cardinality(Holding(m)) \in Nat
<1>1. Holding(m) \in SUBSET Links
  BY DEF Holding
<1>2. IsFiniteSet(Holding(m))
  BY <1>1, ListConstants, FS_Subset
<1>. QED
  BY <1>2, FS_CardinalityType

\* A link gives its item up.
LEMMA HoldingLess ==
  ASSUME NEW m \in Memory, NEW m2, NEW k \in Links, m.item[k] # Null,
         m2.item = [m.item EXCEPT ![k] = Null]
  PROVE  Cardinality(Holding(m2)) = Cardinality(Holding(m)) - 1
<1>1. m2.item[k] = Null /\ \A j \in Links : j # k => m2.item[j] = m.item[j]
  BY MemoryFields
<1>2. Holding(m2) = Holding(m) \ {k} /\ k \in Holding(m)
  BY <1>1 DEF Holding
<1>. QED
  BY <1>2, HoldingFinite, FS_RemoveElement

\* A link gets an item.
LEMMA HoldingMore ==
  ASSUME NEW m \in Memory, NEW m2, NEW k \in Links, m.item[k] = Null, NEW i \in Items,
         m2.item = [m.item EXCEPT ![k] = i]
  PROVE  Cardinality(Holding(m2)) = Cardinality(Holding(m)) + 1
<1>1. m2.item[k] # Null /\ \A j \in Links : j # k => m2.item[j] = m.item[j]
  BY MemoryFields, ListConstants
<1>2. Holding(m2) = Holding(m) \cup {k} /\ k \notin Holding(m)
  BY <1>1 DEF Holding
<1>. QED
  BY <1>2, HoldingFinite, FS_AddElement

\* Items replaced or given up.
LEMMA HoldingNoMore ==
  ASSUME NEW m, NEW m2, \A k \in Links : m.item[k] = Null => m2.item[k] = Null
  PROVE  Cardinality(Holding(m2)) <= Cardinality(Holding(m))
<1>1. Holding(m2) \subseteq Holding(m)
  BY DEF Holding
<1>. QED
  BY <1>1, HoldingFinite, FS_Subset

-----------------------------------------------------------------------------
(* The inductive invariant.                                                *)

\* Concatenation is at the first link of the source.
Carrying(v, c) ==
  c.position # Null => Len(v) # 0 /\ c.position = v[1] /\ c.positionNext = After(v, 1)

\* A traversal is at a link of its list, and has still to visit that one and
\* those behind it.
Traversing(v, c, u) ==
  IF c.position = Null THEN u = {}
  ELSE \E p \in 1..Len(v) : /\ c.position = v[p] /\ c.positionNext = After(v, p)
                            /\ u = {v[j] : j \in p..Len(v)}

\* A call in the loop of a concatenation or of a traversal.
CallFits(s, c, u) ==
  /\ c.op = "carry" => Carrying(s[ListOf(c.src)], c)
  /\ c.op = "traverse" => Traversing(s[ListOf(c.list)], c, u)

\* Memory and calls fit the chains s.
Fitting(s, m, cl, uv) ==
  /\ Sound(m, s, {}) /\ Cardinality(Holding(m)) <= MaxItems
  /\ \A t \in Clients : CallFits(s, cl[t], uv[t])

\* There are chains that the memory spells out and the calls in progress fit.
ChainsInv == unvisited \in [Clients -> SUBSET Links] /\ \E s : Fitting(s, mem, call, unvisited)

\* The inductive invariant of CLinkedListTemplate.
ListInv == LocksInv /\ ChainsInv

\* The parts of Fitting.
LEMMA FittingFields ==
  ASSUME NEW s, NEW m, NEW cl, NEW uv, Fitting(s, m, cl, uv)
  PROVE  /\ Sound(m, s, {}) /\ Cardinality(Holding(m)) <= MaxItems
         /\ \A t \in Clients : CallFits(s, cl[t], uv[t])
BY DEF Fitting

\* A call fits as long as the list that it is in stays as it is.
LEMMA CallStillFits ==
  ASSUME NEW s, NEW s2, NEW c, NEW u, CallFits(s, c, u), IsCall(c),
         \A l \in Lists : Holds(c, l) => s2[ListOf(l)] = s[ListOf(l)]
  PROVE  CallFits(s2, c, u)
<1>1. ASSUME c.op = "carry" PROVE Carrying(s2[ListOf(c.src)], c)
  <2>1. c.src \in Lists /\ Holds(c, c.src)
    BY <1>1, CallKinds DEF Holds, CarryCall
  <2>. QED
    BY <1>1, <2>1 DEF CallFits
<1>2. ASSUME c.op = "traverse" PROVE Traversing(s2[ListOf(c.list)], c, u)
  <2>1. c.list \in Lists /\ Holds(c, c.list)
    BY <1>2, CallKinds DEF Holds, TraverseCall
  <2>. QED
    BY <1>2, <2>1 DEF CallFits
<1>. QED
  BY <1>1, <1>2 DEF CallFits

\* A call has locked the lists it is at work on.
LEMMA HeldList ==
  ASSUME LocksInv, NEW u \in Clients, NEW l \in Lists, Holds(call[u], l)
  PROVE  lock[l] = u /\ ~Free(l)
BY ListConstants DEF LocksInv, Free

\* The initial states have no links.
LEMMA InitChainsInv == ListInit => ChainsInv
<1> SUFFICES ASSUME ListInit PROVE ChainsInv
  OBVIOUS
<1>1. PICK s : s = [c \in Chains |-> <<>>]
  OBVIOUS
<1>2. /\ s \in [Chains -> Seq(Links)] /\ \A c \in Chains : s[c] = <<>> /\ Len(s[c]) = 0
      /\ \A c \in Chains : \A p \in 1..Len(s[c]) : FALSE
  <2>1. <<>> \in Seq(Links) /\ Len(<<>>) = 0 /\ 1..0 = {}
    BY EmptySeq
  <2>. QED
    BY <1>1, <2>1
<1>3. /\ mem.previous = [k \in Links |-> Null] /\ mem.next = [k \in Links |-> Null]
      /\ mem.item = [k \in Links |-> Null] /\ mem.allocated = {}
      /\ mem.list = [l \in Lists |-> EmptyChain] /\ mem.cache = [l \in Lists |-> EmptyChain]
  BY DEF ListInit
<1>4. mem \in Memory
  <2>1. mem = [previous |-> mem.previous, next |-> mem.next, item |-> mem.item,
               allocated |-> mem.allocated, list |-> mem.list, cache |-> mem.cache]
    BY DEF ListInit
  <2>. QED
    BY <1>3, <2>1, EmptyEnds DEF Memory
<1>5. Woven(mem.next, mem.previous, EndsIn(mem), s)
  <2>1. ASSUME NEW c \in Chains PROVE EndsIn(mem)[c] = EndsOf(s[c]) /\ Linear(mem.next, mem.previous, s[c])
    <3>1. PICK l \in Lists : c = ListOf(l) \/ c = CacheOf(l)
      BY ChainKinds
    <3>2. EndsIn(mem)[c] = EmptyChain
      BY <1>3, <3>1, EndsInLists
    <3>. QED
      BY <1>2, <3>2, EmptyEnds DEF Linear
  <2>2. Apart(s)
    BY <1>2 DEF Apart
  <2>. QED
    BY <1>2, <1>3, <2>1, <2>2 DEF Woven
<1>6. Placed(mem, s, {}) /\ Unused(mem) /\ Filled(mem, s)
  <2>1. \A k \in Links : ~OnChain(s, k)
    BY <1>2 DEF OnChain
  <2>. QED
    BY <1>2, <1>3, <2>1, ListConstants DEF Placed, Unused, Filled
<1>7. Cardinality(Holding(mem)) <= MaxItems
  <2>1. Holding(mem) = {}
    BY <1>3 DEF Holding
  <2>. QED
    BY <2>1, FS_EmptySet, ListConstants
<1>8. \A t \in Clients : CallFits(s, call[t], unvisited[t])
  <2>1. \A t \in Clients : call[t].op = "none"
    BY DEF ListInit, NoCall
  <2>. QED
    BY <2>1 DEF CallFits
<1>9. unvisited \in [Clients -> SUBSET Links]
  BY DEF ListInit
<1>. QED
  BY <1>4, <1>5, <1>6, <1>7, <1>8, <1>9 DEF ChainsInv, Fitting, Sound

-----------------------------------------------------------------------------
(* The calls that lock a list, do one thing and unlock it.                 *)

\* A list that nobody has locked may change.
LEMMA FreeListChanges ==
  ASSUME LocksInv, NEW s, Fitting(s, mem, call, unvisited), NEW l \in Lists, Free(l),
         NEW m2, NEW s2, Step(m2, s, s2, l), Cardinality(Holding(m2)) <= MaxItems
  PROVE  Fitting(s2, m2, call, unvisited)
<1>1. ASSUME NEW t \in Clients PROVE CallFits(s2, call[t], unvisited[t])
  <2>1. CallFits(s, call[t], unvisited[t])
    BY FittingFields
  <2>2. IsCall(call[t])
    BY DEF LocksInv
  <2>3. ASSUME NEW k \in Lists, Holds(call[t], k) PROVE s2[ListOf(k)] = s[ListOf(k)]
    <3>1. k # l
      BY <2>3, HeldList
    <3>. QED
      BY <3>1 DEF Step, OtherLists
  <2>. QED
    BY <2>1, <2>2, <2>3, CallStillFits
<1>. QED
  BY <1>1 DEF Fitting, Step

\* Which of the operations keeps the bound, and what it does to the chains.
LEMMA AddKeeps ==
  ASSUME NEW m, NEW s, Sound(m, s, {}), NEW l \in Lists, NEW i \in Items,
         Cardinality(Holding(m)) < MaxItems
  PROVE  \E s2 : Step(AddItem(m, l, i), s, s2, l) /\ Cardinality(Holding(AddItem(m, l, i))) <= MaxItems
<1>0. m \in Memory /\ MaxItems \in Nat /\ Cardinality(Holding(m)) \in Nat
  BY SoundFields, ListConstants, HoldingFinite
<1>1. CASE Has(m, l, i)
  <2>1. AddItem(m, l, i) = m
    BY <1>1 DEF AddItem
  <2>2. Step(m, s, s, l)
    BY DEF Step, OtherLists
  <2>. QED
    BY <1>0, <2>1, <2>2
<1>2. CASE ~Has(m, l, i)
  <2>1. PICK m2 : m2 = AddItem(m, l, i)
    OBVIOUS
  <2>2. PICK k, s2 : AddedAt(m, m2, s, s2, l, i, k)
    BY <1>2, <2>1, Added
  <2>3. Cardinality(Holding(m2)) = Cardinality(Holding(m)) + 1
    BY <1>0, <2>2, HoldingMore DEF AddedAt
  <2>. QED
    BY <1>0, <2>1, <2>2, <2>3 DEF AddedAt
<1>. QED
  BY <1>1, <1>2

\* DeleteItem, whether the list has the item or not.
LEMMA RemoveKeeps ==
  ASSUME NEW m, NEW s, Sound(m, s, {}), Cardinality(Holding(m)) <= MaxItems,
         NEW l \in Lists, NEW i \in Items
  PROVE  \E s2 : Step(DeleteItem(m, l, i), s, s2, l)
                 /\ Cardinality(Holding(DeleteItem(m, l, i))) <= MaxItems
<1>0. m \in Memory /\ MaxItems \in Nat /\ Cardinality(Holding(m)) \in Nat
  BY SoundFields, ListConstants, HoldingFinite
<1>1. CASE ~Has(m, l, i)
  <2>1. DeleteItem(m, l, i) = m
    BY <1>1 DEF DeleteItem
  <2>2. Step(m, s, s, l)
    BY DEF Step, OtherLists
  <2>. QED
    BY <1>0, <2>1, <2>2
<1>2. CASE Has(m, l, i)
  <2>1. PICK m2 : m2 = DeleteItem(m, l, i)
    OBVIOUS
  <2>2. PICK x, s2 : /\ FirstHolder(m, s[ListOf(l)], i, x) /\ Step(m2, s, s2, l)
                     /\ m2.item = [m.item EXCEPT ![s[ListOf(l)][x]] = Null]
    BY <1>2, <2>1, Removed
  <2>3. s[ListOf(l)] \in Seq(Links) /\ x \in 1..Len(s[ListOf(l)]) /\ m.item[s[ListOf(l)][x]] = i
    BY <2>2, SoundEnds DEF FirstHolder
  <2>4. PICK k \in Links : k = s[ListOf(l)][x]
    BY <2>3
  <2>5. m.item[k] # Null
    BY <2>3, <2>4, ListConstants
  <2>6. Cardinality(Holding(m2)) = Cardinality(Holding(m)) - 1
    BY <1>0, <2>2, <2>4, <2>5, HoldingLess
  <2>. QED
    BY <1>0, <2>1, <2>2, <2>6
<1>. QED
  BY <1>1, <1>2

\* ModifyItem, whether the list has the item or not.
LEMMA ModifyKeeps ==
  ASSUME NEW m, NEW s, Sound(m, s, {}), Cardinality(Holding(m)) <= MaxItems,
         NEW l \in Lists, NEW i \in Items, NEW j \in Items
  PROVE  \E s2 : Step(ModifyItem(m, l, i, j), s, s2, l)
                 /\ Cardinality(Holding(ModifyItem(m, l, i, j))) <= MaxItems
<1>0. m \in Memory /\ MaxItems \in Nat /\ Cardinality(Holding(m)) \in Nat
  BY SoundFields, ListConstants, HoldingFinite
<1>1. CASE ~Has(m, l, i)
  <2>1. ModifyItem(m, l, i, j) = m
    BY <1>1 DEF ModifyItem
  <2>2. Step(m, s, s, l)
    BY DEF Step, OtherLists
  <2>. QED
    BY <1>0, <2>1, <2>2
<1>2. CASE Has(m, l, i)
  <2>1. PICK m2 : m2 = ModifyItem(m, l, i, j)
    OBVIOUS
  <2>2. PICK x : /\ FirstHolder(m, s[ListOf(l)], i, x) /\ Sound(m2, s, {})
                 /\ m2.item = [m.item EXCEPT ![s[ListOf(l)][x]] = j]
    BY <1>2, <2>1, Modified
  <2>3. s[ListOf(l)] \in Seq(Links) /\ x \in 1..Len(s[ListOf(l)]) /\ m.item[s[ListOf(l)][x]] = i
    BY <2>2, SoundEnds DEF FirstHolder
  <2>4. PICK k \in Links : k = s[ListOf(l)][x]
    BY <2>3
  <2>5. \A n \in Links : m.item[n] = Null => m2.item[n] = Null
    BY <1>0, <2>2, <2>3, <2>4, MemoryFields, ListConstants
  <2>6. Cardinality(Holding(m2)) <= Cardinality(Holding(m)) /\ Cardinality(Holding(m2)) \in Nat
    BY <2>5, HoldingNoMore, HoldingFinite
  <2>7. Step(m2, s, s, l)
    BY <2>2 DEF Step, OtherLists
  <2>. QED
    BY <1>0, <2>1, <2>6, <2>7
<1>. QED
  BY <1>1, <1>2

\* Clean and the destructors.
LEMMA EmptyKeeps ==
  ASSUME NEW m, NEW s, Sound(m, s, {}), Cardinality(Holding(m)) <= MaxItems,
         NEW l, NEW m2, NEW s2, Emptied(m, s, m2, s2, l)
  PROVE  Step(m2, s, s2, l) /\ Cardinality(Holding(m2)) <= MaxItems
<1>0. MaxItems \in Nat /\ Cardinality(Holding(m)) \in Nat /\ Cardinality(Holding(m2)) \in Nat
  BY ListConstants, HoldingFinite
<1>1. \A n \in Links : m.item[n] = Null => m2.item[n] = Null
  BY DEF Emptied
<1>2. Cardinality(Holding(m2)) <= Cardinality(Holding(m))
  BY <1>1, HoldingNoMore
<1>. QED
  BY <1>0, <1>2 DEF Emptied, Step

\* One of these calls on the list l.
LEMMA OneStepFits ==
  ASSUME LocksInv, NEW s, Fitting(s, mem, call, unvisited), NEW l \in Lists, NEW m,
         OneStep(l, m),
         \E s2 : Step(m, s, s2, l) /\ Cardinality(Holding(m)) <= MaxItems
  PROVE  \E s2 : Fitting(s2, mem', call', unvisited')
<1>1. PICK s2 : Step(m, s, s2, l) /\ Cardinality(Holding(m)) <= MaxItems
  OBVIOUS
<1>2. Free(l) /\ mem' = m /\ call' = call /\ unvisited' = unvisited
  BY DEF OneStep
<1>3. Fitting(s2, m, call, unvisited)
  BY <1>1, <1>2, FreeListChanges
<1>. QED
  BY <1>2, <1>3

-----------------------------------------------------------------------------
(* Concatenations and traversals.                                          *)

\* The link at the position x of the list l is gone.
RemovedAt(m, m2, s, s2, l, x) ==
  /\ x \in 1..Len(s[ListOf(l)]) /\ Step(m2, s, s2, l)
  /\ IsWithout(s2[ListOf(l)], s[ListOf(l)], x)
  /\ m2.item = [m.item EXCEPT ![s[ListOf(l)][x]] = Null]

\* What a link of a list holds and where it points.
LEMMA AtLink ==
  ASSUME NEW m, NEW s, Sound(m, s, {}), NEW l \in Lists, NEW x \in 1..Len(s[ListOf(l)])
  PROVE  /\ s[ListOf(l)][x] \in Links /\ s[ListOf(l)][x] # Null
         /\ NextOf(m, s[ListOf(l)][x]) = After(s[ListOf(l)], x)
         /\ m.item[s[ListOf(l)][x]] \in Items /\ Has(m, l, m.item[s[ListOf(l)][x]])
<1> DEFINE v == s[ListOf(l)]
<1>1. ListOf(l) \in Chains /\ ListOf(l).of = "list" /\ v \in Seq(Links)
  BY SoundEnds, ChainKinds DEF ListOf
<1>2. Linear(m.next, m.previous, v) /\ Filled(m, s)
  <2>1. Woven(m.next, m.previous, EndsIn(m), s) /\ Filled(m, s)
    BY SoundFields
  <2>. QED
    BY <1>1, <2>1 DEF Woven
<1>3. v[x] \in Links /\ v[x] # Null
  BY <1>1, ListConstants
<1>4. m.next[v[x]] = After(v, x) /\ m.item[v[x]] \in Items
  BY <1>1, <1>2 DEF Linear, Filled, ItemsIn
<1>5. Has(m, l, m.item[v[x]])
  <2>1. PICK i : i = m.item[v[x]]
    OBVIOUS
  <2>2. ~Has(m, l, i) => \A p \in 1..Len(v) : m.item[v[p]] # i
    BY FindLinkFinds
  <2>. QED
    BY <2>1, <2>2
<1>. QED
  BY <1>3, <1>4, <1>5 DEF NextOf

\* Unlink takes out the link that it is given.
LEMMA UnlinkedAt ==
  ASSUME NEW m, NEW s, Sound(m, s, {}), NEW l \in Lists, NEW x \in 1..Len(s[ListOf(l)])
  PROVE  \E s2 : RemovedAt(m, Unlink(m, l, s[ListOf(l)][x]), s, s2, l, x)
<1>1. PICK m2 : m2 = Unlink(m, l, s[ListOf(l)][x])
  OBVIOUS
<1>2. /\ m2.item = [m.item EXCEPT ![s[ListOf(l)][x]] = Null]
      /\ \E s2 : /\ Sound(m2, s2, {}) /\ OtherLists(s, s2, l)
                 /\ IsWithout(s2[ListOf(l)], s[ListOf(l)], x)
  BY <1>1, Unlinked
<1>. QED
  BY <1>1, <1>2 DEF RemovedAt, Step

\* There is room for one more item after a removal.
LEMMA RemovedHoldsLess ==
  ASSUME NEW m, NEW s, Sound(m, s, {}), Cardinality(Holding(m)) <= MaxItems, NEW l \in Lists,
         NEW m2, NEW s2, NEW x, RemovedAt(m, m2, s, s2, l, x)
  PROVE  Cardinality(Holding(m2)) < MaxItems /\ Cardinality(Holding(m2)) <= MaxItems
<1>1. x \in 1..Len(s[ListOf(l)])
  BY DEF RemovedAt
<1>2. PICK k \in Links : k = s[ListOf(l)][x]
  BY <1>1, AtLink
<1>3. m.item[k] # Null
  BY <1>1, <1>2, AtLink, ListConstants
<1>4. m \in Memory /\ m2.item = [m.item EXCEPT ![k] = Null]
  BY <1>2, SoundFields DEF RemovedAt
<1>5. Cardinality(Holding(m2)) = Cardinality(Holding(m)) - 1
  BY <1>3, <1>4, HoldingLess
<1>6. Cardinality(Holding(m)) \in Nat /\ MaxItems \in Nat
  BY HoldingFinite, ListConstants
<1>. QED
  BY <1>5, <1>6

\* The first item of a list, deleted by its ID.
LEMMA FirstRemoved ==
  ASSUME NEW m, NEW s, Sound(m, s, {}), NEW l \in Lists, Len(s[ListOf(l)]) # 0,
         NEW i, i = m.item[s[ListOf(l)][1]]
  PROVE  \E s2 : RemovedAt(m, DeleteItem(m, l, i), s, s2, l, 1)
<1>1. PICK m2 : m2 = DeleteItem(m, l, i)
  OBVIOUS
<1>2. PICK v \in Seq(Links) : v = s[ListOf(l)]
  BY SoundEnds
<1>3. 1 \in 1..Len(v)
  BY <1>2
<1>4. Has(m, l, i)
  BY <1>2, <1>3, AtLink
<1>5. PICK x : FirstHolder(m, v, i, x) /\ FindLink(m, l, i) = v[x]
  BY <1>2, <1>4, FindLinkFinds
<1>6. x = 1
  BY <1>2, <1>3, <1>5 DEF FirstHolder
<1>7. m2 = Unlink(m, l, s[ListOf(l)][1])
  BY <1>1, <1>2, <1>4, <1>5, <1>6 DEF DeleteItem
<1>. QED
  BY <1>1, <1>2, <1>3, <1>7, UnlinkedAt

\* A step of the client t, which may change lists that it has locked.
LEMMA CallMoves ==
  ASSUME LocksInv, NEW s, Fitting(s, mem, call, unvisited), NEW t \in Clients,
         NEW m2, NEW s2, Sound(m2, s2, {}), Cardinality(Holding(m2)) <= MaxItems,
         \A l \in Lists : s2[ListOf(l)] # s[ListOf(l)] => lock[l] = t,
         NEW c, NEW cl2, cl2 = [call EXCEPT ![t] = c],
         NEW uv2, CallFits(s2, c, uv2[t]), \A r \in Clients : r # t => uv2[r] = unvisited[r]
  PROVE  Fitting(s2, m2, cl2, uv2)
<1>1. ASSUME NEW r \in Clients PROVE CallFits(s2, cl2[r], uv2[r])
  <2>1. CASE r = t
    <3>1. cl2[t] = c
      BY DEF LocksInv
    <3>. QED
      BY <2>1, <3>1
  <2>2. CASE r # t
    <3>1. cl2[r] = call[r] /\ uv2[r] = unvisited[r]
      BY <2>2 DEF LocksInv
    <3>2. CallFits(s, call[r], unvisited[r])
      BY FittingFields
    <3>3. IsCall(call[r])
      BY DEF LocksInv
    <3>4. ASSUME NEW l \in Lists, Holds(call[r], l) PROVE s2[ListOf(l)] = s[ListOf(l)]
      BY <2>2, <3>4, HeldList
    <3>. QED
      BY <3>1, <3>2, <3>3, <3>4, CallStillFits
  <2>. QED
    BY <2>1, <2>2
<1>. QED
  BY <1>1 DEF Fitting

\* The fields of a concatenation in its loop ...
LEMMA CarryAtIs ==
  ASSUME NEW m, NEW dst, NEW src, NEW k, NEW c, c = CarryAt(m, dst, src, k)
  PROVE  /\ c.op = "carry" /\ c.dst = dst /\ c.src = src
         /\ c.position = k /\ c.positionNext = NextOf(m, k)
BY DEF CarryAt

\* ... and of a traversal.
LEMMA TraverseAtIs ==
  ASSUME NEW m, NEW l, NEW k, NEW c, c = TraverseAt(m, l, k)
  PROVE  /\ c.op = "traverse" /\ c.list = l
         /\ c.position = k /\ c.positionNext = NextOf(m, k)
BY DEF TraverseAt

\* Where a concatenation may stand: nowhere, or at the first link.
LEMMA CarryFits ==
  ASSUME NEW m, NEW s, Sound(m, s, {}), NEW dst, NEW src \in Lists,
         NEW k, k = Null \/ k = FirstLink(s[ListOf(src)]), NEW u
  PROVE  CallFits(s, CarryAt(m, dst, src, k), u)
<1>1. PICK c : c = CarryAt(m, dst, src, k)
  OBVIOUS
<1>2. PICK v \in Seq(Links) : v = s[ListOf(src)]
  BY SoundEnds
<1>3. c.op = "carry" /\ c.src = src /\ c.position = k /\ c.positionNext = NextOf(m, k)
  BY <1>1, CarryAtIs
<1>4. ASSUME k # Null PROVE Len(v) # 0 /\ k = v[1] /\ NextOf(m, k) = After(v, 1)
  <2>1. Len(v) # 0 /\ k = v[1]
    BY <1>2, <1>4 DEF FirstLink
  <2>2. 1 \in 1..Len(v)
    BY <2>1
  <2>. QED
    BY <1>2, <2>1, <2>2, AtLink
<1>5. Carrying(v, c)
  BY <1>3, <1>4 DEF Carrying
<1>. QED
  BY <1>1, <1>2, <1>3, <1>5 DEF CallFits

\* Where a traversal may stand: at the end, or at a link.
LEMMA TraverseFits ==
  ASSUME NEW m, NEW s, Sound(m, s, {}), NEW l \in Lists, NEW x, NEW u,
         x \in 1..Len(s[ListOf(l)]), u = {s[ListOf(l)][j] : j \in x..Len(s[ListOf(l)])}
  PROVE  CallFits(s, TraverseAt(m, l, s[ListOf(l)][x]), u)
<1>1. PICK v : v = s[ListOf(l)]
  OBVIOUS
<1>2. PICK c : c = TraverseAt(m, l, v[x])
  OBVIOUS
<1>3. c.op = "traverse" /\ c.list = l /\ c.position = v[x] /\ c.positionNext = NextOf(m, v[x])
  BY <1>2, TraverseAtIs
<1>4. v[x] # Null /\ NextOf(m, v[x]) = After(v, x)
  BY <1>1, AtLink
<1>5. Traversing(v, c, u)
  BY <1>1, <1>3, <1>4 DEF Traversing
<1>. QED
  BY <1>1, <1>2, <1>3, <1>5 DEF CallFits

\* A traversal at its end has no link to come.
LEMMA TraverseEndFits ==
  ASSUME NEW m, NEW s, NEW l
  PROVE  CallFits(s, TraverseAt(m, l, Null), {})
<1>1. PICK c : c = TraverseAt(m, l, Null)
  OBVIOUS
<1>2. c.op = "traverse" /\ c.list = l /\ c.position = Null
  BY <1>1, TraverseAtIs
<1>. QED
  BY <1>1, <1>2 DEF CallFits, Traversing

-----------------------------------------------------------------------------
\* A concatenation starts at the head of the source.
LEMMA LockSourceFits ==
  ASSUME LocksInv, NEW s, Fitting(s, mem, call, unvisited), NEW t \in Clients, LockSource(t)
  PROVE  Fitting(s, mem', call', unvisited')
<1>1. PICK dst, src \in Lists : call[t] = [op |-> "lockSource", dst |-> dst, src |-> src]
  BY CallKinds DEF LockSource, LocksInv
<1>2. call[t].dst = dst /\ call[t].src = src
  BY <1>1
<1>3. PICK c : c = CarryAt(mem, dst, src, mem.list[src].head)
  OBVIOUS
<1>4. /\ call' = [call EXCEPT ![t] = c] /\ mem' = mem /\ unvisited' = unvisited
  BY <1>2, <1>3 DEF LockSource
<1>5. Sound(mem, s, {}) /\ Cardinality(Holding(mem)) <= MaxItems
  BY FittingFields
<1>6. mem.list[src].head = FirstLink(s[ListOf(src)])
  <2>1. mem.list[src] = EndsOf(s[ListOf(src)])
    BY <1>5, SoundEnds
  <2>. QED
    BY <2>1 DEF EndsOf
<1>7. CallFits(s, c, unvisited[t])
  BY <1>3, <1>5, <1>6, CarryFits
<1>8. Fitting(s, mem, call', unvisited)
  BY <1>4, <1>5, <1>7, CallMoves
<1>. QED
  BY <1>4, <1>8

\* SafeConcatenation begins, UnlockSource, Unlock and EndTraverse: the call is
\* in no list afterwards.
LEMMA OutsideFits ==
  ASSUME LocksInv, NEW s, Fitting(s, mem, call, unvisited), NEW t \in Clients,
         NEW c, call' = [call EXCEPT ![t] = c], c.op \notin {"carry", "traverse"},
         mem' = mem, unvisited' = unvisited
  PROVE  Fitting(s, mem', call', unvisited')
<1>1. Sound(mem, s, {}) /\ Cardinality(Holding(mem)) <= MaxItems
  BY FittingFields
<1>2. CallFits(s, c, unvisited[t])
  BY DEF CallFits
<1>3. Fitting(s, mem, call', unvisited)
  BY <1>1, <1>2, CallMoves
<1>. QED
  BY <1>3

\* A traversal starts at the head, with all links of the list to come.
LEMMA BeginTraverseFits ==
  ASSUME LocksInv, NEW s, Fitting(s, mem, call, unvisited), NEW t \in Clients, NEW l \in Lists,
         Traverse(t, l), unvisited \in [Clients -> SUBSET Links]
  PROVE  Fitting(s, mem', call', unvisited') /\ unvisited' \in [Clients -> SUBSET Links]
<1>1. Sound(mem, s, {}) /\ Cardinality(Holding(mem)) <= MaxItems
  BY FittingFields
<1>2. PICK v \in Seq(Links) : v = s[ListOf(l)] /\ Forward(mem, l) = v
  BY <1>1, SoundEnds, ForwardFinds
<1>3. PICK c : c = TraverseAt(mem, l, mem.list[l].head)
  OBVIOUS
<1>4. PICK u : u = ToSet(v)
  OBVIOUS
<1>5. /\ call' = [call EXCEPT ![t] = c] /\ mem' = mem
      /\ unvisited' = [unvisited EXCEPT ![t] = u]
  BY <1>2, <1>3, <1>4 DEF Traverse
<1>6. u = {v[j] : j \in 1..Len(v)} /\ u \in SUBSET Links
  BY <1>2, <1>4 DEF ToSet
<1>7. mem.list[l].head = FirstLink(v)
  <2>1. mem.list[l] = EndsOf(v)
    BY <1>1, <1>2, SoundEnds
  <2>. QED
    BY <2>1 DEF EndsOf
<1>8. CallFits(s, c, u)
  <2>1. CASE Len(v) = 0
    <3>1. u = {} /\ mem.list[l].head = Null
      BY <1>6, <1>7, <2>1 DEF FirstLink
    <3>. QED
      BY <1>3, <3>1, TraverseEndFits
  <2>2. CASE Len(v) # 0
    <3>1. 1 \in 1..Len(s[ListOf(l)]) /\ mem.list[l].head = s[ListOf(l)][1]
      BY <1>2, <1>7, <2>2 DEF FirstLink
    <3>2. u = {s[ListOf(l)][j] : j \in 1..Len(s[ListOf(l)])}
      BY <1>2, <1>6
    <3>. QED
      BY <1>1, <1>3, <3>1, <3>2, TraverseFits
  <2>. QED
    BY <2>1, <2>2
<1>9. /\ unvisited' \in [Clients -> SUBSET Links] /\ unvisited'[t] = u
      /\ \A r \in Clients : r # t => unvisited'[r] = unvisited[r]
  BY <1>5, <1>6
<1>10. Fitting(s, mem, call', unvisited')
  <2>1. CallFits(s, c, unvisited'[t])
    BY <1>8, <1>9
  <2>. QED
    BY <1>1, <1>5, <1>9, <2>1, CallMoves
<1>. QED
  BY <1>5, <1>9, <1>10

\* What a pass of the loop of Concatenation finds.
CarryFinds(t, s, dst, src, i) ==
  /\ dst \in Lists /\ src \in Lists /\ dst # src
  /\ call[t].dst = dst /\ call[t].src = src /\ lock[dst] = t /\ lock[src] = t
  /\ Len(s[ListOf(src)]) # 0 /\ call[t].position = s[ListOf(src)][1]
  /\ call[t].positionNext = After(s[ListOf(src)], 1)
  /\ i = mem.item[s[ListOf(src)][1]] /\ i \in Items

\* The loop of a concatenation is at the head of the source.
LEMMA CarryBegins ==
  ASSUME LocksInv, NEW s, Fitting(s, mem, call, unvisited), NEW t \in Clients, Carry(t)
  PROVE  \E dst, src, i : CarryFinds(t, s, dst, src, i)
<1>1. call[t].op = "carry" /\ call[t].position # Null
  BY DEF Carry
<1>2. PICK dst, src \in Lists : dst # src /\ \E p, q : call[t] = CarryCall(dst, src, p, q)
  BY <1>1, CallKinds DEF LocksInv
<1>3. /\ \A k \in Lists : Holds(call[t], k) <=> k = dst \/ k = src
      /\ call[t].dst = dst /\ call[t].src = src
  BY <1>2, CarryCalls
<1>4. lock[dst] = t /\ lock[src] = t
  BY <1>3, HeldList
<1>5. Carrying(s[ListOf(src)], call[t])
  BY <1>1, <1>3, FittingFields DEF CallFits
<1>6. /\ Len(s[ListOf(src)]) # 0 /\ call[t].position = s[ListOf(src)][1]
      /\ call[t].positionNext = After(s[ListOf(src)], 1)
  BY <1>1, <1>5 DEF Carrying
<1>7. 1 \in 1..Len(s[ListOf(src)]) /\ Sound(mem, s, {})
  <2>1. Sound(mem, s, {})
    BY FittingFields
  <2>2. s[ListOf(src)] \in Seq(Links)
    BY <2>1, SoundEnds
  <2>. QED
    BY <1>6, <2>1, <2>2
<1>8. mem.item[s[ListOf(src)][1]] \in Items
  BY <1>7, AtLink
<1>. QED
  BY <1>2, <1>3, <1>4, <1>6, <1>8 DEF CarryFinds

\* The first link after the first one is gone.
LEMMA SecondIsFirst ==
  ASSUME NEW v \in Seq(Links), NEW u \in Seq(Links), Len(v) # 0, IsWithout(u, v, 1)
  PROVE  FirstLink(u) = After(v, 1)
<1>1. PICK n \in Nat : n = Len(v) /\ n # 0
  OBVIOUS
<1>2. Len(u) = n - 1 /\ \A p \in 1..(n - 1) : u[p] = IF p < 1 THEN v[p] ELSE v[p + 1]
  BY <1>1 DEF IsWithout
<1>3. n # 1 => 1 \in 1..(n - 1) /\ n - 1 # 0
  BY <1>1
<1>. QED
  BY <1>1, <1>2, <1>3 DEF FirstLink, After

\* One pass of the loop of a concatenation.
LEMMA CarryStepFits ==
  ASSUME LocksInv, NEW s, Fitting(s, mem, call, unvisited), NEW t \in Clients, Carry(t)
  PROVE  \E s2 : Fitting(s2, mem', call', unvisited')
<1>1. PICK dst, src, i : CarryFinds(t, s, dst, src, i)
  BY CarryBegins
<1>2. /\ dst \in Lists /\ src \in Lists /\ dst # src /\ i \in Items
      /\ call[t].dst = dst /\ call[t].src = src /\ lock[dst] = t /\ lock[src] = t
      /\ Len(s[ListOf(src)]) # 0 /\ call[t].position = s[ListOf(src)][1]
      /\ call[t].positionNext = After(s[ListOf(src)], 1)
      /\ i = mem.item[s[ListOf(src)][1]]
  BY <1>1 DEF CarryFinds
<1>3. Sound(mem, s, {}) /\ Cardinality(Holding(mem)) <= MaxItems
  BY FittingFields
<1>4. PICK m1 : m1 = DeleteItem(mem, src, i)
  OBVIOUS
<1>5. PICK s1 : RemovedAt(mem, m1, s, s1, src, 1)
  BY <1>2, <1>3, <1>4, FirstRemoved
<1>6. /\ Sound(m1, s1, {}) /\ OtherLists(s, s1, src) /\ IsWithout(s1[ListOf(src)], s[ListOf(src)], 1)
  BY <1>5 DEF RemovedAt, Step
<1>7. Cardinality(Holding(m1)) < MaxItems
  BY <1>2, <1>3, <1>5, RemovedHoldsLess
<1>8. PICK m2 : m2 = AddItem(m1, dst, i)
  OBVIOUS
<1>9. PICK s2 : Step(m2, s1, s2, dst) /\ Cardinality(Holding(m2)) <= MaxItems
  BY <1>2, <1>6, <1>7, <1>8, AddKeeps
<1>10. Sound(m2, s2, {}) /\ OtherLists(s1, s2, dst)
  BY <1>9 DEF Step
<1>11. PICK k : k = IF Has(m1, dst, i) THEN Null ELSE call[t].positionNext
  OBVIOUS
<1>12. PICK c : c = CarryAt(m2, dst, src, k)
  OBVIOUS
<1>13. mem' = m2 /\ call' = [call EXCEPT ![t] = c] /\ unvisited' = unvisited
  <2>1. mem' = m2
    BY <1>2, <1>4, <1>8 DEF Carry
  <2>. QED
    BY <1>2, <1>4, <1>11, <1>12, <2>1, ZenonT(30) DEF Carry
<1>14. CallFits(s2, c, unvisited[t])
  <2>1. s2[ListOf(src)] = s1[ListOf(src)]
    BY <1>2, <1>10 DEF OtherLists
  <2>2. s1[ListOf(src)] \in Seq(Links) /\ s[ListOf(src)] \in Seq(Links)
    BY <1>2, <1>3, <1>6, SoundEnds
  <2>3. FirstLink(s1[ListOf(src)]) = After(s[ListOf(src)], 1)
    BY <1>2, <1>6, <2>2, SecondIsFirst
  <2>4. k = Null \/ k = FirstLink(s2[ListOf(src)])
    BY <1>2, <1>11, <2>1, <2>3
  <2>. QED
    BY <1>2, <1>10, <1>12, <2>4, CarryFits
<1>15. \A l \in Lists : s2[ListOf(l)] # s[ListOf(l)] => lock[l] = t
  BY <1>2, <1>6, <1>10 DEF OtherLists
<1>16. Fitting(s2, m2, call', unvisited)
  BY <1>9, <1>10, <1>13, <1>14, <1>15, CallMoves
<1>. QED
  BY <1>13, <1>16

-----------------------------------------------------------------------------
\* What is to come after the position before p.
LEMMA ToComeFrom ==
  ASSUME NEW v, NEW p \in Nat \ {0}
  PROVE  ToCome(v, p - 1) = {v[j] : j \in p..Len(v)}
<1>1. p - 1 + 1 = p
  OBVIOUS
<1>. QED
  BY <1>1 DEF ToCome

NoRepeats(v) == \A a, b \in 1..Len(v) : v[a] = v[b] => a = b

\* The loop is at p in v, and the link at x is taken out: what is left is u,
\* and p2 the position there of what the loop has passed.
StillComing(v, u, x, p, p2) ==
  /\ ToCome(v, p) \ {v[x]} = ToCome(u, p2) /\ p2 \in Nat
  /\ p # Len(v) => p2 + 1 \in 1..Len(u) /\ After(v, p) = u[p2 + 1]
  /\ p = Len(v) => ToCome(v, p) = {}

\* A link is taken out, but not the next one: the links to come are those to
\* come after it in the list that is left.
LEMMA StillToCome ==
  ASSUME NEW v \in Seq(Links), NoRepeats(v),
         NEW u \in Seq(Links), NEW x \in 1..Len(v), IsWithout(u, v, x),
         NEW p \in 1..Len(v), x # p + 1,
         NEW p2, p2 = IF x < p + 1 THEN p - 1 ELSE p
  PROVE  StillComing(v, u, x, p, p2)
<1>. USE DEF NoRepeats
<1>1. PICK n \in Nat : n = Len(v) /\ x \in 1..n /\ p \in 1..n
  OBVIOUS
<1>2. Len(u) = n - 1 /\ \A i \in 1..(n - 1) : u[i] = IF i < x THEN v[i] ELSE v[i + 1]
  BY <1>1 DEF IsWithout
<1>3. p2 \in Nat
  BY <1>1
<1>4. ToCome(v, p) = {v[j] : j \in (p + 1)..n} /\ ToCome(u, p2) = {u[j] : j \in (p2 + 1)..(n - 1)}
  BY <1>1, <1>2 DEF ToCome
<1>5. ASSUME NEW j \in (p + 1)..n, v[j] # v[x] PROVE v[j] \in {u[i] : i \in (p2 + 1)..(n - 1)}
  <2>1. j # x
    BY <1>5
  <2>2. CASE j < x
    <3>1. j \in (p2 + 1)..(n - 1) /\ j \in 1..(n - 1)
      BY <1>1, <2>2
    <3>. QED
      BY <1>2, <2>2, <3>1
  <2>3. CASE j > x
    <3>1. /\ j - 1 \in (p2 + 1)..(n - 1) /\ j - 1 \in 1..(n - 1) /\ ~(j - 1 < x)
          /\ j - 1 + 1 = j
      BY <1>1, <2>3
    <3>2. u[j - 1] = v[j]
      BY <1>2, <3>1
    <3>. QED
      BY <3>1, <3>2
  <2>. QED
    BY <1>1, <2>1, <2>2, <2>3
<1>6. ASSUME NEW i \in (p2 + 1)..(n - 1)
      PROVE  u[i] \in {v[j] : j \in (p + 1)..n} /\ u[i] # v[x]
  <2>1. i \in 1..(n - 1)
    BY <1>1, <1>3
  <2>2. CASE i < x
    <3>1. i \in (p + 1)..n /\ i # x /\ i \in 1..n
      BY <1>1, <2>1, <2>2
    <3>. QED
      BY <1>1, <1>2, <2>1, <2>2, <3>1
  <2>3. CASE ~(i < x)
    <3>1. i + 1 \in (p + 1)..n /\ i + 1 # x /\ i + 1 \in 1..n
      BY <1>1, <2>1, <2>3
    <3>2. u[i] = v[i + 1]
      BY <1>2, <2>1, <2>3
    <3>3. v[i + 1] # v[x]
      BY <1>1, <3>1
    <3>. QED
      BY <3>1, <3>2, <3>3
  <2>. QED
    BY <2>2, <2>3
<1>7. ToCome(v, p) \ {v[x]} = ToCome(u, p2)
  <2>1. ASSUME NEW k \in ToCome(v, p), k # v[x] PROVE k \in ToCome(u, p2)
    <3>1. PICK j \in (p + 1)..n : k = v[j]
      BY <1>4
    <3>2. v[j] \in {u[i] : i \in (p2 + 1)..(n - 1)}
      BY <1>5, <2>1, <3>1
    <3>. QED
      BY <1>4, <3>1, <3>2
  <2>2. ASSUME NEW k \in ToCome(u, p2) PROVE k \in ToCome(v, p) /\ k # v[x]
    <3>1. PICK i \in (p2 + 1)..(n - 1) : k = u[i]
      BY <1>4
    <3>. QED
      BY <1>4, <1>6, <3>1
  <2>. QED
    BY <2>1, <2>2
<1>8. ASSUME p # n PROVE p2 + 1 \in 1..Len(u) /\ After(v, p) = u[p2 + 1]
  <2>1. After(v, p) = v[p + 1]
    BY <1>1, <1>8 DEF After
  <2>2. CASE x < p + 1
    <3>1. p2 + 1 = p /\ p \in 1..(n - 1) /\ ~(p < x)
      BY <1>1, <1>8, <2>2
    <3>. QED
      BY <1>2, <2>1, <3>1
  <2>3. CASE ~(x < p + 1)
    <3>1. p2 + 1 = p + 1 /\ p + 1 \in 1..(n - 1) /\ p + 1 < x
      BY <1>1, <1>8, <2>3
    <3>. QED
      BY <1>2, <2>1, <3>1
  <2>. QED
    BY <2>2, <2>3
<1>9. p = n => ToCome(v, p) = {}
  BY <1>4
<1>. QED
  BY <1>1, <1>3, <1>7, <1>8, <1>9 DEF StillComing

\* What a pass of a traversal finds.
VisitFinds(t, s, l, v, p) ==
  /\ l \in Lists /\ call[t].list = l /\ lock[l] = t
  /\ v = s[ListOf(l)] /\ v \in Seq(Links) /\ p \in 1..Len(v)
  /\ call[t].position = v[p] /\ call[t].positionNext = After(v, p)
  /\ unvisited[t] = ToCome(v, p - 1)
  /\ \A a, b \in 1..Len(v) : v[a] = v[b] => a = b

\* A traversal is at a link of its list, which its thread has locked.
LEMMA VisitBegins ==
  ASSUME LocksInv, NEW s, Fitting(s, mem, call, unvisited), NEW t \in Clients, Visit(t)
  PROVE  \E l, v, p : VisitFinds(t, s, l, v, p)
<1>1. call[t].op = "traverse" /\ call[t].position # Null
  BY DEF Visit
<1>2. PICK l \in Lists : \E p, q : call[t] = TraverseCall(l, p, q)
  BY <1>1, CallKinds DEF LocksInv
<1>3. (\A k \in Lists : Holds(call[t], k) <=> k = l) /\ call[t].list = l
  BY <1>2, TraverseCalls
<1>4. lock[l] = t
  BY <1>3, HeldList
<1>5. PICK v : v = s[ListOf(l)]
  OBVIOUS
<1>6. Traversing(v, call[t], unvisited[t])
  BY <1>1, <1>3, <1>5, FittingFields DEF CallFits
<1>7. PICK p \in 1..Len(v) : /\ call[t].position = v[p] /\ call[t].positionNext = After(v, p)
                             /\ unvisited[t] = {v[j] : j \in p..Len(v)}
  BY <1>1, <1>6 DEF Traversing
<1>8. Sound(mem, s, {})
  BY FittingFields
<1>9. v \in Seq(Links) /\ \A a, b \in 1..Len(v) : v[a] = v[b] => a = b
  <2>1. Apart(s)
    BY <1>8, SoundFields
  <2>. QED
    BY <1>5, <1>8, <2>1, SoundEnds, ChainKinds DEF Apart
<1>10. p \in Nat \ {0}
  BY <1>7, <1>9
<1>11. unvisited[t] = ToCome(v, p - 1)
  BY <1>7, <1>10, ToComeFrom
<1>. QED
  BY <1>3, <1>4, <1>5, <1>7, <1>9, <1>11 DEF VisitFinds

\* The body of the loop deletes nothing, or a link of the list but the next.
LEMMA DeletionsAre ==
  ASSUME NEW s, Sound(mem, s, {}), NEW t, NEW l, NEW v, NEW p, VisitFinds(t, s, l, v, p),
         NEW gone \in Deletions(t)
  PROVE  gone = {} \/ \E x \in 1..Len(v) : gone = {v[x]} /\ x # p + 1
<1>1. /\ l \in Lists /\ call[t].list = l /\ v = s[ListOf(l)] /\ v \in Seq(Links)
      /\ p \in 1..Len(v) /\ call[t].position = v[p] /\ call[t].positionNext = After(v, p)
  BY DEF VisitFinds
<1>2. Forward(mem, l) = v
  BY <1>1, ForwardFinds
<1>3. PICK i : i = mem.item[v[p]]
  OBVIOUS
<1>4. PICK found : found = FindLink(mem, l, i)
  OBVIOUS
<1>5. PICK y : FirstHolder(mem, v, i, y) /\ found = v[y]
  <2>1. Has(mem, l, i)
    BY <1>1, <1>3, AtLink
  <2>. QED
    BY <1>1, <1>4, <2>1, FindLinkFinds
<1>6. PICK n \in Nat : n = Len(v) /\ p \in 1..n
  BY <1>1
<1>7. y \in 1..n /\ y # p + 1
  BY <1>3, <1>5, <1>6 DEF FirstHolder
<1>8. gone = {} \/ gone = {v[p]} \/ gone = {found}
      \/ \E k \in ToSet(v) \ {After(v, p)} : gone = {k}
  BY <1>1, <1>2, <1>3, <1>4 DEF Deletions
<1>9. ASSUME NEW k \in ToSet(v) \ {After(v, p)}, gone = {k}
      PROVE  \E x \in 1..Len(v) : gone = {v[x]} /\ x # p + 1
  <2>1. PICK x \in 1..n : k = v[x]
    BY <1>6 DEF ToSet
  <2>2. x # p + 1
    <3>1. SUFFICES ASSUME x = p + 1 PROVE FALSE
      OBVIOUS
    <3>2. p # n
      BY <1>6, <3>1
    <3>. QED
      BY <1>6, <1>9, <2>1, <3>1, <3>2 DEF After
  <2>. QED
    BY <1>6, <1>9, <2>1, <2>2
<1>10. p # p + 1
  BY <1>6
<1>. QED
  BY <1>5, <1>6, <1>7, <1>8, <1>9, <1>10

\* One pass of a traversal, whatever its body deletes.
LEMMA VisitStepFits ==
  ASSUME LocksInv, NEW s, Fitting(s, mem, call, unvisited), NEW t \in Clients, Visit(t),
         unvisited \in [Clients -> SUBSET Links]
  PROVE  (\E s2 : Fitting(s2, mem', call', unvisited')) /\ unvisited' \in [Clients -> SUBSET Links]
<1>1. PICK l, v, p : VisitFinds(t, s, l, v, p)
  BY VisitBegins
<1>2. /\ l \in Lists /\ call[t].list = l /\ lock[l] = t
      /\ v = s[ListOf(l)] /\ v \in Seq(Links) /\ p \in 1..Len(v)
      /\ call[t].position = v[p] /\ call[t].positionNext = After(v, p)
      /\ unvisited[t] = ToCome(v, p - 1)
      /\ \A a, b \in 1..Len(v) : v[a] = v[b] => a = b
  BY <1>1 DEF VisitFinds
<1>3. Sound(mem, s, {}) /\ Cardinality(Holding(mem)) <= MaxItems
  BY FittingFields
<1>4. PICK gone \in Deletions(t) :
        /\ mem' = IF gone = {} THEN mem ELSE Unlink(mem, l, CHOOSE k \in gone : TRUE)
        /\ unvisited' = [unvisited EXCEPT ![t] = (@ \ {v[p]}) \ gone]
  BY <1>2, ZenonT(30) DEF Visit
<1>5. PICK c : c = TraverseAt(mem', l, After(v, p))
  OBVIOUS
<1>6. call' = [call EXCEPT ![t] = c]
  BY <1>2, <1>5 DEF Visit
<1>7. ToCome(v, p - 1) \ {v[p]} = ToCome(v, p)
  BY <1>2, Passes
<1>8. unvisited'[t] = ToCome(v, p) \ gone /\ \A r \in Clients : r # t => unvisited'[r] = unvisited[r]
  BY <1>2, <1>4, <1>7
<1>9. unvisited' \in [Clients -> SUBSET Links]
  BY <1>4
<1>10. PICK u : u = unvisited'[t]
  OBVIOUS
<1>11. CASE gone = {}
  <2>1. mem' = mem /\ u = ToCome(v, p)
    BY <1>4, <1>8, <1>10, <1>11
  <2>2. CallFits(s, c, u)
    <3>1. CASE p = Len(v)
      <4>1. u = {} /\ After(v, p) = Null
        BY <1>2, <2>1, <3>1, NoPasses DEF After
      <4>. QED
        BY <1>5, <4>1, TraverseEndFits
    <3>2. CASE p # Len(v)
      <4>1. p + 1 \in 1..Len(v) /\ After(v, p) = v[p + 1] /\ p + 1 \in Nat \ {0} /\ p + 1 - 1 = p
        BY <1>2, <3>2 DEF After
      <4>2. PICK y : y = p + 1
        OBVIOUS
      <4>3. y \in 1..Len(s[ListOf(l)]) /\ After(v, p) = s[ListOf(l)][y]
        BY <1>2, <4>1, <4>2
      <4>4. u = {s[ListOf(l)][j] : j \in y..Len(s[ListOf(l)])}
        BY <1>2, <2>1, <4>2 DEF ToCome
      <4>5. CallFits(s, TraverseAt(mem, l, s[ListOf(l)][y]), u)
        BY <1>2, <1>3, <4>3, <4>4, TraverseFits
      <4>. QED
        BY <1>5, <2>1, <4>3, <4>5
    <3>. QED
      BY <3>1, <3>2
  <2>3. Fitting(s, mem, call', unvisited')
    <3>1. CallFits(s, c, unvisited'[t])
      BY <1>10, <2>2
    <3>. QED
      BY <1>3, <1>6, <1>8, <3>1, CallMoves
  <2>. QED
    BY <1>9, <2>1, <2>3
<1>12. ASSUME NEW x \in 1..Len(v), gone = {v[x]}, x # p + 1
       PROVE  \E s2 : Fitting(s2, mem', call', unvisited')
  <2>1. PICK m2 : m2 = Unlink(mem, l, s[ListOf(l)][x])
    OBVIOUS
  <2>2. mem' = m2
    <3>1. gone # {} /\ (CHOOSE k \in gone : TRUE) = v[x]
      BY <1>12
    <3>. QED
      BY <1>2, <1>4, <2>1, <3>1
  <2>3. PICK s2 : RemovedAt(mem, m2, s, s2, l, x)
    BY <1>2, <1>3, <2>1, UnlinkedAt
  <2>4. Sound(m2, s2, {}) /\ OtherLists(s, s2, l) /\ IsWithout(s2[ListOf(l)], v, x)
    BY <1>2, <2>3 DEF RemovedAt, Step
  <2>5. Cardinality(Holding(m2)) <= MaxItems
    BY <1>2, <1>3, <2>3, RemovedHoldsLess
  <2>6. PICK w \in Seq(Links) : w = s2[ListOf(l)]
    BY <1>2, <2>4, SoundEnds
  <2>7. PICK p2 : p2 = IF x < p + 1 THEN p - 1 ELSE p
    OBVIOUS
  <2>8. /\ ToCome(v, p) \ {v[x]} = ToCome(w, p2) /\ p2 \in Nat
        /\ p # Len(v) => p2 + 1 \in 1..Len(w) /\ After(v, p) = w[p2 + 1]
        /\ p = Len(v) => ToCome(v, p) = {}
    <3>1. v \in Seq(Links) /\ p \in 1..Len(v) /\ NoRepeats(v)
      BY <1>2 DEF NoRepeats
    <3>2. IsWithout(w, v, x)
      BY <2>4, <2>6
    <3>3. w \in Seq(Links)
      BY <2>6
    <3>4. x # p + 1
      BY <1>12
    <3>5. StillComing(v, w, x, p, p2)
      BY <2>7, <3>1, <3>2, <3>3, <3>4, StillToCome
    <3>. QED
      BY <3>5 DEF StillComing
  <2>9. u = ToCome(w, p2)
    BY <1>8, <1>10, <1>12, <2>8
  <2>10. CallFits(s2, c, u)
    <3>1. CASE p = Len(v)
      <4>1. u = {} /\ After(v, p) = Null
        BY <2>8, <2>9, <3>1 DEF After
      <4>. QED
        BY <1>5, <4>1, TraverseEndFits
    <3>2. CASE p # Len(v)
      <4>1. p2 + 1 \in 1..Len(s2[ListOf(l)]) /\ After(v, p) = s2[ListOf(l)][p2 + 1]
        BY <2>6, <2>8, <3>2
      <4>2. u = {s2[ListOf(l)][j] : j \in (p2 + 1)..Len(s2[ListOf(l)])}
        BY <2>6, <2>9 DEF ToCome
      <4>3. CallFits(s2, TraverseAt(m2, l, s2[ListOf(l)][p2 + 1]), u)
        BY <1>2, <2>4, <4>1, <4>2, TraverseFits
      <4>. QED
        BY <1>5, <2>2, <4>1, <4>3
    <3>. QED
      BY <3>1, <3>2
  <2>11. \A k \in Lists : s2[ListOf(k)] # s[ListOf(k)] => lock[k] = t
    BY <1>2, <2>4 DEF OtherLists
  <2>12. Fitting(s2, m2, call', unvisited')
    <3>1. CallFits(s2, c, unvisited'[t])
      BY <1>10, <2>10
    <3>. QED
      BY <1>6, <1>8, <2>4, <2>5, <2>11, <3>1, CallMoves
  <2>. QED
    BY <2>2, <2>12
<1>. QED
  BY <1>1, <1>3, <1>9, <1>11, <1>12, DeletionsAre

\* Every step keeps the chains and the calls in line.
LEMMA StepChainsInv == ListInv /\ [ListNext]_listVars => ChainsInv'
<1> SUFFICES ASSUME ListInv, [ListNext]_listVars PROVE ChainsInv'
  OBVIOUS
<1>1. LocksInv /\ unvisited \in [Clients -> SUBSET Links]
  BY DEF ListInv, ChainsInv
<1>2. PICK s : Fitting(s, mem, call, unvisited)
  BY DEF ListInv, ChainsInv
<1>3. Sound(mem, s, {}) /\ Cardinality(Holding(mem)) <= MaxItems
  BY <1>2, FittingFields
<1>4. ASSUME \E s2 : Fitting(s2, mem', call', unvisited'), unvisited' = unvisited PROVE ChainsInv'
  BY <1>1, <1>4 DEF ChainsInv
<1>5. ASSUME NEW l \in Lists, NEW i \in Items,
             SafeAddItem(l, i) \/ SafeDeleteItem(l, i) \/ \E j \in Items : SafeModifyItem(l, i, j)
      PROVE  ChainsInv'
  <2>1. CASE SafeAddItem(l, i)
    <3>1. PICK m2 : m2 = AddItem(mem, l, i)
      OBVIOUS
    <3>2. OneStep(l, m2) /\ Cardinality(Holding(mem)) < MaxItems
      BY <2>1, <3>1 DEF SafeAddItem, Linked, Holding
    <3>3. \E s2 : Step(m2, s, s2, l) /\ Cardinality(Holding(m2)) <= MaxItems
      BY <1>3, <3>1, <3>2, AddKeeps
    <3>4. \E s2 : Fitting(s2, mem', call', unvisited')
      BY <1>1, <1>2, <3>2, <3>3, OneStepFits
    <3>. QED
      BY <1>4, <3>2, <3>4 DEF OneStep
  <2>2. CASE SafeDeleteItem(l, i)
    <3>1. PICK m2 : m2 = DeleteItem(mem, l, i)
      OBVIOUS
    <3>2. OneStep(l, m2)
      BY <2>2, <3>1 DEF SafeDeleteItem
    <3>3. \E s2 : Step(m2, s, s2, l) /\ Cardinality(Holding(m2)) <= MaxItems
      BY <1>3, <3>1, RemoveKeeps
    <3>4. \E s2 : Fitting(s2, mem', call', unvisited')
      BY <1>1, <1>2, <3>2, <3>3, OneStepFits
    <3>. QED
      BY <1>4, <3>2, <3>4 DEF OneStep
  <2>3. ASSUME NEW j \in Items, SafeModifyItem(l, i, j) PROVE ChainsInv'
    <3>1. PICK m2 : m2 = ModifyItem(mem, l, i, j)
      OBVIOUS
    <3>2. OneStep(l, m2)
      BY <2>3, <3>1 DEF SafeModifyItem
    <3>3. \E s2 : Step(m2, s, s2, l) /\ Cardinality(Holding(m2)) <= MaxItems
      BY <1>3, <3>1, ModifyKeeps
    <3>4. \E s2 : Fitting(s2, mem', call', unvisited')
      BY <1>1, <1>2, <3>2, <3>3, OneStepFits
    <3>. QED
      BY <1>4, <3>2, <3>4 DEF OneStep
  <2>. QED
    BY <1>5, <2>1, <2>2, <2>3
<1>6. ASSUME NEW l \in Lists, SafeClean(l) \/ Renew(l) PROVE ChainsInv'
  <2>1. PICK m2 : /\ m2 = Clean(mem, l) \/ m2 = Destroy(mem, l)
                  /\ OneStep(l, m2)
    BY <1>6 DEF SafeClean, Renew
  <2>2. PICK s2 : Emptied(mem, s, m2, s2, l)
    BY <1>3, <2>1, Cleaned, Destroyed
  <2>3. \E s3 : Step(m2, s, s3, l) /\ Cardinality(Holding(m2)) <= MaxItems
    BY <1>3, <2>2, EmptyKeeps
  <2>4. \E s3 : Fitting(s3, mem', call', unvisited')
    BY <1>1, <1>2, <2>1, <2>3, OneStepFits
  <2>. QED
    BY <1>4, <2>1, <2>4 DEF OneStep
<1>7. ASSUME NEW t \in Clients, NEW dst \in Lists, NEW src \in Lists, SafeConcatenation(t, dst, src)
      PROVE  ChainsInv'
  <2>1. PICK c : c = [op |-> "lockSource", dst |-> dst, src |-> src]
    OBVIOUS
  <2>2. /\ call' = [call EXCEPT ![t] = c] /\ c.op \notin {"carry", "traverse"}
        /\ mem' = mem /\ unvisited' = unvisited
    BY <1>7, <2>1 DEF SafeConcatenation
  <2>. QED
    BY <1>1, <1>2, <1>4, <2>2, OutsideFits
<1>8. ASSUME NEW t \in Clients, UnlockSource(t) PROVE ChainsInv'
  <2>1. PICK c : c = [op |-> "unlock", list |-> call[t].dst]
    OBVIOUS
  <2>2. /\ call' = [call EXCEPT ![t] = c] /\ c.op \notin {"carry", "traverse"}
        /\ mem' = mem /\ unvisited' = unvisited
    BY <1>8, <2>1 DEF UnlockSource
  <2>. QED
    BY <1>1, <1>2, <1>4, <2>2, OutsideFits
<1>9. ASSUME NEW t \in Clients, Unlock(t) \/ EndTraverse(t) PROVE ChainsInv'
  <2>1. /\ call' = [call EXCEPT ![t] = NoCall] /\ NoCall.op \notin {"carry", "traverse"}
        /\ mem' = mem /\ unvisited' = unvisited
    BY <1>9 DEF Unlock, EndTraverse, NoCall
  <2>. QED
    BY <1>1, <1>2, <1>4, <2>1, OutsideFits
<1>10. ASSUME NEW t \in Clients, NEW l \in Lists, Traverse(t, l) PROVE ChainsInv'
  BY <1>1, <1>2, <1>10, BeginTraverseFits DEF ChainsInv
<1>11. ASSUME NEW t \in Clients, LockSource(t) PROVE ChainsInv'
  <2>1. unvisited' = unvisited
    BY <1>11 DEF LockSource
  <2>. QED
    BY <1>1, <1>2, <1>4, <1>11, <2>1, LockSourceFits
<1>12. ASSUME NEW t \in Clients, Carry(t) PROVE ChainsInv'
  <2>1. unvisited' = unvisited
    BY <1>12 DEF Carry
  <2>. QED
    BY <1>1, <1>2, <1>4, <1>12, <2>1, CarryStepFits
<1>13. ASSUME NEW t \in Clients, Visit(t) PROVE ChainsInv'
  BY <1>1, <1>2, <1>13, VisitStepFits DEF ChainsInv
<1>14. CASE UNCHANGED listVars
  BY <1>1, <1>2, <1>14 DEF ChainsInv, listVars
<1>. QED
  BY <1>5, <1>6, <1>7, <1>8, <1>9, <1>10, <1>11, <1>12, <1>13, <1>14 DEF ListNext, Inside

\* CLinkedListTemplate: whatever its clients call, in whatever order they get the
\* locks, a thread holds exactly the locks its call has taken, and the pointers,
\* ends, counters and items of the links weave the chains of the lists and of
\* their caches, with every call in the middle of a loop at a link of its list.
THEOREM ListInvariant == ListSpec => []ListInv
<1>1. ListInit => ListInv
  BY InitLocksInv, InitChainsInv DEF ListInv
<1>2. ListInv /\ [ListNext]_listVars => ListInv'
  BY StepLocksInv, StepChainsInv DEF ListInv
<1>. QED
  BY <1>1, <1>2, PTL DEF ListSpec

-----------------------------------------------------------------------------
(* WellLinked and TraversalVisitsAll.                                      *)

IndexIn(v, i) == SelectInSeq(v, LAMBDA j : j = i)

\* SelectInSeq finds a position of i, or 0.
LEMMA IndexFinds ==
  ASSUME NEW v, Len(v) \in Nat, NEW i, NEW z, z = IndexIn(v, i)
  PROVE  z = 0 \/ (z \in 1..Len(v) /\ v[z] = i)
<1> DEFINE I == {p \in 1..Len(v) : v[p] = i}
<1>1. z = IF I # {} THEN Min(I) ELSE 0
  BY DEF SelectInSeq, IndexIn
<1>2. CASE I = {}
  BY <1>1, <1>2
<1>3. CASE I # {}
  <2>1. I \in SUBSET Nat
    OBVIOUS
  <2>2. PICK n \in I : \A y \in I : n <= y
    BY <1>3, <2>1, LeastOf
  <2>3. Min(I) \in I
    BY <2>2 DEF Min
  <2>. QED
    BY <1>1, <1>3, <2>3
<1>. QED
  BY <1>2, <1>3

\* The items of a list, one for each of its links.
LEMMA ItemsAre ==
  ASSUME NEW m, NEW s, Sound(m, s, {}), NEW l \in Lists, NEW v, v = s[ListOf(l)]
  PROVE  /\ ItemsOf(m, l) = [p \in 1..Len(v) |-> m.item[v[p]]]
         /\ ItemsOf(m, l) \in Seq(Items)
         /\ Len(ItemsOf(m, l)) = Len(v) /\ Len(v) \in Nat
<1>1. v \in Seq(Links) /\ Forward(m, l) = v
  BY SoundEnds, ForwardFinds
<1>2. PICK n \in Nat : n = Len(v) /\ DOMAIN v = 1..n
  BY <1>1
<1>3. ItemsOf(m, l) = [p \in 1..n |-> m.item[v[p]]]
  BY <1>1, <1>2 DEF ItemsOf
<1>4. \A p \in 1..n : m.item[v[p]] \in Items
  BY <1>2, AtLink
<1>. QED
  BY <1>2, <1>3, <1>4

\* What a pass of the loop of the class finds, for a list and for a cache.
LEMMA ChainsFound ==
  ASSUME NEW s, Sound(mem, s, {}), NEW c \in Chains
  PROVE  /\ ChainOf(c) = s[c] /\ Len(s[c]) = mem[c.of][c.list].n
         /\ Chain(mem.previous, mem[c.of][c.list].tail) = Reverse(s[c])
<1>1. PICK l \in Lists : c = ListOf(l) \/ c = CacheOf(l)
  BY ChainKinds
<1>2. /\ mem.list[l] = EndsOf(s[ListOf(l)]) /\ mem.cache[l] = EndsOf(s[CacheOf(l)])
      /\ s[ListOf(l)] \in Seq(Links) /\ s[CacheOf(l)] \in Seq(Links)
  BY SoundEnds
<1>3. mem.list[l].n = Len(s[ListOf(l)]) /\ mem.cache[l].n = Len(s[CacheOf(l)])
  BY <1>2, EndsOfSeq
<1>4. /\ Chain(mem.next, mem.list[l].head) = s[ListOf(l)]
      /\ Chain(mem.next, mem.cache[l].head) = s[CacheOf(l)]
  BY ForwardFinds DEF Forward
<1>5. /\ Chain(mem.previous, mem.list[l].tail) = Reverse(s[ListOf(l)])
      /\ Chain(mem.previous, mem.cache[l].tail) = Reverse(s[CacheOf(l)])
  BY BackwardFinds
<1>6. CASE c = ListOf(l)
  <2>1. c.of = "list" /\ c.list = l
    BY <1>6 DEF ListOf
  <2>. QED
    BY <1>3, <1>4, <1>5, <1>6, <2>1 DEF ChainOf
<1>7. CASE c = CacheOf(l)
  <2>1. c.of = "cache" /\ c.list = l
    BY <1>7 DEF CacheOf
  <2>. QED
    BY <1>3, <1>4, <1>5, <1>7, <2>1 DEF ChainOf
<1>. QED
  BY <1>1, <1>6, <1>7

\* The invariant types the state.
LEMMA ListInvTyped == ListInv => ListTypeOK
<1> SUFFICES ASSUME ListInv PROVE ListTypeOK
  OBVIOUS
<1>1. LocksInv /\ unvisited \in [Clients -> SUBSET Links]
  BY DEF ListInv, ChainsInv
<1>2. PICK s : Fitting(s, mem, call, unvisited)
  BY DEF ListInv, ChainsInv
<1>3. Sound(mem, s, {})
  BY <1>2, FittingFields
<1>4. mem \in Memory /\ Filled(mem, s)
  BY <1>3, SoundFields
<1>5. ASSUME NEW l \in Lists
      PROVE  /\ mem.list[l].n \in Nat /\ mem.cache[l].n \in 0..CacheSize
             /\ lock[l] \in Clients \cup {NoOne}
  <2>1. CacheOf(l) \in Chains /\ CacheOf(l).of = "cache"
    BY ChainKinds DEF CacheOf
  <2>2. Len(s[CacheOf(l)]) <= CacheSize
    BY <1>4, <2>1 DEF Filled
  <2>3. /\ mem.list[l] = EndsOf(s[ListOf(l)]) /\ mem.cache[l] = EndsOf(s[CacheOf(l)])
        /\ s[ListOf(l)] \in Seq(Links) /\ s[CacheOf(l)] \in Seq(Links)
    BY <1>3, SoundEnds
  <2>4. mem.list[l].n = Len(s[ListOf(l)]) /\ mem.cache[l].n = Len(s[CacheOf(l)])
    BY <2>3, EndsOfSeq
  <2>5. Len(s[ListOf(l)]) \in Nat /\ Len(s[CacheOf(l)]) \in Nat
    BY <2>3
  <2>. QED
    BY <1>1, <2>2, <2>4, <2>5, ListConstants DEF LocksInv
<1>. QED
  BY <1>1, <1>4, <1>5, MemoryFields DEF ListTypeOK

\* GetItem and FindIndex.
LEMMA IndexesAgree ==
  ASSUME NEW s, Sound(mem, s, {}), NEW l \in Lists
  PROVE  /\ \A p \in 0..(mem.list[l].n - 1) : GetItem(mem, l, p) = ItemsOf(mem, l)[p + 1]
         /\ \A i \in Items : LET p == FindIndex(mem, l, i)
                             IN  p >= 0 => GetItem(mem, l, p) = i
<1>1. PICK n \in Nat : n = Len(s[ListOf(l)])
  <2>1. s[ListOf(l)] \in Seq(Links)
    BY SoundEnds
  <2>. QED
    BY <2>1
<1>2. mem.list[l].n = n
  <2>1. mem.list[l] = EndsOf(s[ListOf(l)]) /\ s[ListOf(l)] \in Seq(Links)
    BY SoundEnds
  <2>. QED
    BY <1>1, <2>1, EndsOfSeq
<1>3. \A p : GetItem(mem, l, p) = IF p >= n THEN Null ELSE ItemsOf(mem, l)[p + 1]
  BY <1>2 DEF GetItem
<1>4. \A p \in 0..(n - 1) : GetItem(mem, l, p) = ItemsOf(mem, l)[p + 1]
  BY <1>3
<1>5. ASSUME NEW i \in Items, FindIndex(mem, l, i) >= 0
      PROVE  GetItem(mem, l, FindIndex(mem, l, i)) = i
  <2>1. PICK v : v = ItemsOf(mem, l)
    OBVIOUS
  <2>2. PICK z : z = IndexIn(v, i)
    OBVIOUS
  <2>3. FindIndex(mem, l, i) = z - 1
    BY <2>1, <2>2 DEF FindIndex, IndexIn
  <2>4. Len(v) = n
    BY <1>1, <2>1, ItemsAre
  <2>5. z = 0 \/ (z \in 1..n /\ v[z] = i)
    <3>1. Len(v) \in Nat
      BY <2>4
    <3>2. z = 0 \/ (z \in 1..Len(v) /\ v[z] = i)
      BY <2>2, <3>1, IndexFinds
    <3>. QED
      BY <2>4, <3>2
  <2>6. z \in 1..n /\ v[z] = i
    BY <1>5, <2>3, <2>5
  <2>7. z - 1 \in 0..(n - 1) /\ z - 1 + 1 = z
    BY <2>6
  <2>. QED
    BY <1>4, <2>1, <2>3, <2>6, <2>7
<1>. QED
  BY <1>2, <1>4, <1>5

\* The links that are allocated are those of the chains, and the chains are
\* disjoint.
LEMMA LinksPlaced ==
  ASSUME NEW s, Sound(mem, s, {})
  PROVE  /\ mem.allocated = UNION {ToSet(s[c]) : c \in Chains}
         /\ \A c, d \in Chains : c # d => ToSet(s[c]) \cap ToSet(s[d]) = {}
<1>1. /\ s \in [Chains -> Seq(Links)] /\ Apart(s) /\ mem \in Memory
      /\ \A k \in Links : k \in mem.allocated <=> OnChain(s, k) \/ k \in {}
  BY SoundFields
<1>2. mem.allocated \in SUBSET Links
  BY <1>1, MemoryFields
<1>3. ASSUME NEW c \in Chains, NEW k
      PROVE  k \in ToSet(s[c]) <=> \E p \in 1..Len(s[c]) : s[c][p] = k
  <2>1. s[c] \in Seq(Links)
    BY <1>1
  <2>2. DOMAIN s[c] = 1..Len(s[c])
    BY <2>1
  <2>. QED
    BY <2>2 DEF ToSet
<1>4. ASSUME NEW c \in Chains, NEW k \in ToSet(s[c]) PROVE k \in Links
  <2>1. s[c] \in Seq(Links)
    BY <1>1
  <2>2. PICK p \in 1..Len(s[c]) : s[c][p] = k
    BY <1>3, <1>4
  <2>. QED
    BY <2>1, <2>2
<1>5. ASSUME NEW k PROVE k \in mem.allocated <=> \E c \in Chains : k \in ToSet(s[c])
  <2>1. ASSUME k \in Links PROVE k \in mem.allocated <=> \E c \in Chains : k \in ToSet(s[c])
    <3>1. k \in mem.allocated <=> OnChain(s, k)
      BY <1>1, <2>1
    <3>. QED
      BY <1>3, <3>1 DEF OnChain
  <2>. QED
    BY <1>2, <1>4, <2>1
<1>6. ASSUME NEW c \in Chains, NEW d \in Chains, c # d,
             NEW k \in ToSet(s[c]), k \in ToSet(s[d])
      PROVE  FALSE
  <2>1. PICK p \in 1..Len(s[c]) : s[c][p] = k
    BY <1>3, <1>6
  <2>2. PICK r \in 1..Len(s[d]) : s[d][r] = k
    BY <1>3, <1>6
  <2>. QED
    BY <1>1, <1>6, <2>1, <2>2 DEF Apart
<1>. QED
  BY <1>5, <1>6

\* WellLinked: between two steps each list and each cache is the same chain in
\* both directions, as long as m_iNItems says, no cache is longer than
\* m_iCacheSize, and no CLinkItem leaks or is in two chains, whatever the
\* interleaving of the Safe functions, concatenations and traversals.
THEOREM AlwaysWellLinked == ListSpec => []WellLinked
<1>1. ASSUME ListInv PROVE WellLinked
  <2>1. PICK s : Sound(mem, s, {})
    BY <1>1, FittingFields DEF ListInv, ChainsInv
  <2>2. \A c \in Chains : /\ ChainOf(c) = s[c] /\ Len(s[c]) = mem[c.of][c.list].n
                          /\ Chain(mem.previous, mem[c.of][c.list].tail) = Reverse(s[c])
    BY <2>1, ChainsFound
  <2>3. \A c \in Chains : /\ Len(ChainOf(c)) = mem[c.of][c.list].n
                          /\ Chain(mem.previous, mem[c.of][c.list].tail) = Reverse(ChainOf(c))
    BY <2>2
  <2>4. \A l \in Lists :
          /\ \A p \in 0..(mem.list[l].n - 1) : GetItem(mem, l, p) = ItemsOf(mem, l)[p + 1]
          /\ \A i \in Items : LET p == FindIndex(mem, l, i)
                              IN  p >= 0 => GetItem(mem, l, p) = i
    BY <2>1, IndexesAgree
  <2>5. /\ mem.allocated = UNION {ToSet(ChainOf(c)) : c \in Chains}
        /\ \A c, d \in Chains : c # d => ToSet(ChainOf(c)) \cap ToSet(ChainOf(d)) = {}
    <3>1. /\ mem.allocated = UNION {ToSet(s[c]) : c \in Chains}
          /\ \A c, d \in Chains : c # d => ToSet(s[c]) \cap ToSet(s[d]) = {}
      BY <2>1, LinksPlaced
    <3>2. {ToSet(ChainOf(c)) : c \in Chains} = {ToSet(s[c]) : c \in Chains}
      BY <2>2
    <3>3. \A c, d \in Chains : c # d => ToSet(ChainOf(c)) \cap ToSet(ChainOf(d)) = {}
      BY <2>2, <3>1
    <3>. QED
      BY <3>1, <3>2, <3>3
  <2>6. ListTypeOK
    BY <1>1, ListInvTyped
  <2>. QED
    BY <2>3, <2>4, <2>5, <2>6 DEF WellLinked
<1>. QED
  BY <1>1, ListInvariant, PTL

\* TraversalVisitsAll: a traversal of TRAVERSELIST that deletes the current item
\* or others, but not the one at positionNext, comes to every link that stays
\* and to none that has left the list.
THEOREM TraversalAlwaysVisitsAll == ListSpec => []TraversalVisitsAll
<1>1. ASSUME ListInv PROVE TraversalVisitsAll
  <2>1. PICK s : Fitting(s, mem, call, unvisited)
    BY <1>1 DEF ListInv, ChainsInv
  <2>2. LocksInv /\ Sound(mem, s, {})
    BY <1>1, <2>1, FittingFields DEF ListInv
  <2>3. ASSUME NEW t \in Clients, call[t].op = "traverse"
        PROVE  IF call[t].position = Null THEN unvisited[t] = {}
               ELSE call[t].position \in unvisited[t]
    <3>1. PICK v : v = s[ListOf(call[t].list)]
      OBVIOUS
    <3>2. Traversing(v, call[t], unvisited[t])
      BY <2>1, <2>3, <3>1, FittingFields DEF CallFits
    <3>3. PICK l \in Lists : call[t].list = l
      <4>1. IsCall(call[t])
        BY <2>2 DEF LocksInv
      <4>. QED
        BY <2>3, <4>1, CallKinds, TraverseCalls
    <3>4. v \in Seq(Links)
      BY <2>2, <3>1, <3>3, SoundEnds
    <3>5. \A p \in 1..Len(v) : p \in p..Len(v)
      BY <3>4
    <3>. QED
      BY <3>2, <3>5 DEF Traversing
  <2>. QED
    BY <2>3 DEF TraversalVisitsAll
<1>. QED
  BY <1>1, ListInvariant, PTL

-----------------------------------------------------------------------------
(* The lists implement ItemLists.                                          *)

\* The items of all lists, the state of ItemLists.
Contents(m) == [l \in Lists |-> ItemsOf(m, l)]

\* All lists but l hold what they held.
OthersKeep(m, m2, l) == \A k \in Lists : k # l => ItemsOf(m2, k) = ItemsOf(m, k)

\* No link of another list than v gets another item.
ItemsChangeOn(m, m2, v) ==
  \A j \in Links : m2.item[j] # m.item[j] => On(v, j) \/ m.item[j] = Null

\* A step at one list does not show in the others.
LEMMA OthersHold ==
  ASSUME NEW m, NEW s, Sound(m, s, {}), NEW l \in Lists, NEW m2, NEW s2, Step(m2, s, s2, l),
         ItemsChangeOn(m, m2, s[ListOf(l)])
  PROVE  OthersKeep(m, m2, l)
<1> SUFFICES ASSUME NEW k \in Lists, k # l PROVE ItemsOf(m2, k) = ItemsOf(m, k)
  BY DEF OthersKeep
<1>1. PICK v : v = s[ListOf(k)]
  OBVIOUS
<1>2. Sound(m2, s2, {}) /\ v = s2[ListOf(k)]
  BY <1>1 DEF Step, OtherLists
<1>3. /\ ItemsOf(m, k) = [p \in 1..Len(v) |-> m.item[v[p]]]
      /\ ItemsOf(m2, k) = [p \in 1..Len(v) |-> m2.item[v[p]]]
  <2>1. ItemsOf(m, k) = [p \in 1..Len(v) |-> m.item[v[p]]]
    BY <1>1, ItemsAre
  <2>2. ItemsOf(m2, k) = [p \in 1..Len(v) |-> m2.item[v[p]]]
    BY <1>2, ItemsAre
  <2>. QED
    BY <2>1, <2>2
<1>4. ASSUME NEW p \in 1..Len(v) PROVE m2.item[v[p]] = m.item[v[p]]
  <2>1. v[p] \in Links /\ m.item[v[p]] \in Items
    BY <1>1, <1>4, AtLink
  <2>2. m.item[v[p]] # Null
    BY <2>1, ListConstants
  <2>3. ~On(s[ListOf(l)], v[p])
    <3>1. Apart(s) /\ ListOf(l) \in Chains /\ ListOf(k) \in Chains /\ ListOf(l) # ListOf(k)
      BY SoundFields, ChainKinds
    <3>. QED
      BY <1>1, <1>4, <3>1 DEF Apart, On
  <2>. QED
    BY <2>1, <2>2, <2>3 DEF ItemsChangeOn
<1>. QED
  BY <1>3, <1>4

\* The links of a list are different.
LEMMA LinksDiffer ==
  ASSUME NEW m, NEW s, Sound(m, s, {}), NEW l \in Lists, NEW v, v = s[ListOf(l)]
  PROVE  v \in Seq(Links) /\ NoRepeats(v)
<1>1. Apart(s) /\ ListOf(l) \in Chains
  BY SoundFields, ChainKinds
<1>. QED
  BY <1>1, SoundEnds DEF Apart, NoRepeats

\* A link is taken out: its item leaves the list.
LEMMA ItemsRemoved ==
  ASSUME NEW m, NEW s, Sound(m, s, {}), NEW l \in Lists,
         NEW m2, NEW s2, NEW x, RemovedAt(m, m2, s, s2, l, x)
  PROVE  /\ OthersKeep(m, m2, l) /\ x \in 1..Len(ItemsOf(m, l))
         /\ IsWithout(ItemsOf(m2, l), ItemsOf(m, l), x)
<1>1. PICK v, w : v = s[ListOf(l)] /\ w = s2[ListOf(l)]
  OBVIOUS
<1>2. /\ x \in 1..Len(v) /\ Step(m2, s, s2, l) /\ IsWithout(w, v, x)
      /\ m2.item = [m.item EXCEPT ![v[x]] = Null]
  BY <1>1 DEF RemovedAt
<1>3. v \in Seq(Links) /\ NoRepeats(v) /\ Sound(m2, s2, {})
  BY <1>1, <1>2, LinksDiffer DEF Step
<1>4. m.item \in [Links -> Items \cup {Null}]
  BY SoundFields, MemoryFields
<1>5. \A j \in Links : m2.item[j] = IF j = v[x] THEN Null ELSE m.item[j]
  BY <1>2, <1>4
<1>6. OthersKeep(m, m2, l)
  <2>1. ItemsChangeOn(m, m2, v)
    BY <1>2, <1>5 DEF ItemsChangeOn, On
  <2>. QED
    BY <1>1, <1>2, <2>1, OthersHold
<1>7. /\ ItemsOf(m, l) = [p \in 1..Len(v) |-> m.item[v[p]]] /\ Len(ItemsOf(m, l)) = Len(v)
      /\ ItemsOf(m2, l) = [p \in 1..Len(w) |-> m2.item[w[p]]] /\ Len(ItemsOf(m2, l)) = Len(w)
  BY <1>1, <1>3, ItemsAre
<1>8. PICK n \in Nat : n = Len(v) /\ x \in 1..n /\ \A p \in 1..n : v[p] \in Links
  BY <1>2, <1>3
<1>9. Len(w) = n - 1 /\ \A i \in 1..(n - 1) : w[i] = IF i < x THEN v[i] ELSE v[i + 1]
  BY <1>2, <1>8 DEF IsWithout
<1>10. ASSUME NEW i \in 1..(n - 1)
       PROVE  m2.item[w[i]] = IF i < x THEN m.item[v[i]] ELSE m.item[v[i + 1]]
  <2>1. CASE i < x
    <3>1. i \in 1..n /\ i # x
      BY <1>8, <2>1
    <3>2. v[i] # v[x] /\ v[i] \in Links
      BY <1>3, <1>8, <3>1 DEF NoRepeats
    <3>. QED
      BY <1>5, <1>9, <2>1, <3>2
  <2>2. CASE ~(i < x)
    <3>1. i + 1 \in 1..n /\ i + 1 # x
      BY <1>8, <2>2
    <3>2. v[i + 1] # v[x] /\ v[i + 1] \in Links
      BY <1>3, <1>8, <3>1 DEF NoRepeats
    <3>. QED
      BY <1>5, <1>9, <2>2, <3>2
  <2>. QED
    BY <2>1, <2>2
<1>11. ASSUME NEW i \in 1..(n - 1)
       PROVE  ItemsOf(m2, l)[i] = IF i < x THEN ItemsOf(m, l)[i] ELSE ItemsOf(m, l)[i + 1]
  <2>1. i \in 1..n /\ i + 1 \in 1..n
    BY <1>8
  <2>2. ItemsOf(m, l)[i] = m.item[v[i]] /\ ItemsOf(m, l)[i + 1] = m.item[v[i + 1]]
    BY <1>7, <1>8, <2>1
  <2>3. ItemsOf(m2, l)[i] = m2.item[w[i]]
    BY <1>7, <1>9
  <2>. QED
    BY <1>10, <2>2, <2>3
<1>12. DOMAIN ItemsOf(m2, l) = 1..(n - 1)
  BY <1>7, <1>9
<1>. QED
  BY <1>2, <1>6, <1>7, <1>8, <1>9, <1>11, <1>12 DEF IsWithout

\* A link is appended: its item enters the list at the end.
LEMMA ItemsAdded ==
  ASSUME NEW m, NEW s, Sound(m, s, {}), NEW l \in Lists, NEW i \in Items,
         NEW m2, NEW s2, NEW k, AddedAt(m, m2, s, s2, l, i, k)
  PROVE  OthersKeep(m, m2, l) /\ ItemsOf(m2, l) = Append(ItemsOf(m, l), i)
<1>1. PICK v, w : v = s[ListOf(l)] /\ w = s2[ListOf(l)]
  OBVIOUS
<1>2. /\ k \in Links /\ m.item[k] = Null /\ Step(m2, s, s2, l)
      /\ w = Append(v, k) /\ m2.item = [m.item EXCEPT ![k] = i]
  BY <1>1 DEF AddedAt
<1>3. v \in Seq(Links) /\ Sound(m2, s2, {}) /\ m.item \in [Links -> Items \cup {Null}]
  BY <1>1, <1>2, SoundEnds, SoundFields, MemoryFields DEF Step
<1>4. \A j \in Links : m2.item[j] = IF j = k THEN i ELSE m.item[j]
  BY <1>2, <1>3
<1>5. OthersKeep(m, m2, l)
  <2>1. ItemsChangeOn(m, m2, v)
    BY <1>2, <1>4 DEF ItemsChangeOn
  <2>. QED
    BY <1>1, <1>2, <2>1, OthersHold
<1>6. /\ ItemsOf(m, l) = [p \in 1..Len(v) |-> m.item[v[p]]] /\ ItemsOf(m, l) \in Seq(Items)
      /\ ItemsOf(m2, l) = [p \in 1..Len(w) |-> m2.item[w[p]]] /\ Len(ItemsOf(m, l)) = Len(v)
  BY <1>1, <1>3, ItemsAre
<1>7. PICK n \in Nat : n = Len(v)
  BY <1>3
<1>8. Len(w) = n + 1 /\ w[n + 1] = k /\ \A p \in 1..n : w[p] = v[p] /\ v[p] \in Links
  BY <1>2, <1>3, <1>7
<1>9. \A p \in 1..n : v[p] # k
  <2>1. \A p \in 1..n : m.item[v[p]] \in Items
    BY <1>1, <1>7, AtLink
  <2>. QED
    BY <1>2, <2>1, ListConstants
<1>10. ASSUME NEW p \in 1..(n + 1) PROVE m2.item[w[p]] = IF p = n + 1 THEN i ELSE m.item[v[p]]
  <2>1. CASE p = n + 1
    BY <1>2, <1>4, <1>8, <2>1
  <2>2. CASE p # n + 1
    <3>1. p \in 1..n
      BY <2>2
    <3>. QED
      BY <1>4, <1>8, <1>9, <2>2, <3>1
  <2>. QED
    BY <2>1, <2>2
<1>11. PICK a : a = ItemsOf(m, l)
  OBVIOUS
<1>12. a \in Seq(Items) /\ Len(a) = n /\ \A p \in 1..n : a[p] = m.item[v[p]]
  BY <1>6, <1>7, <1>11
<1>13. Append(a, i) = [p \in 1..(n + 1) |-> IF p = n + 1 THEN i ELSE a[p]]
  <2>1. PICK q : q = Append(a, i)
    OBVIOUS
  <2>2. /\ q \in Seq(Items) /\ Len(q) = n + 1 /\ q[n + 1] = i
        /\ \A p \in 1..n : q[p] = a[p]
    BY <1>12, <2>1
  <2>3. q = [p \in 1..(n + 1) |-> q[p]]
    BY <2>2
  <2>4. \A p \in 1..(n + 1) : p # n + 1 => p \in 1..n
    OBVIOUS
  <2>5. \A p \in 1..(n + 1) : q[p] = IF p = n + 1 THEN i ELSE a[p]
    BY <2>2, <2>4
  <2>. QED
    BY <2>1, <2>3, <2>5
<1>14. ItemsOf(m2, l) = [p \in 1..(n + 1) |-> m2.item[w[p]]]
  BY <1>6, <1>8
<1>15. ItemsOf(m2, l) = Append(a, i)
  <2>1. \A p \in 1..(n + 1) : m2.item[w[p]] = IF p = n + 1 THEN i ELSE a[p]
    <3>1. \A p \in 1..(n + 1) : p # n + 1 => p \in 1..n
      OBVIOUS
    <3>. QED
      BY <1>10, <1>12, <3>1
  <2>. QED
    BY <1>13, <1>14, <2>1
<1>. QED
  BY <1>5, <1>11, <1>15

\* The first link of l with item i has got item j.
ModifiedAt(m, m2, s, l, i, x, j) ==
  /\ FirstHolder(m, s[ListOf(l)], i, x) /\ Sound(m2, s, {})
  /\ m2.item = [m.item EXCEPT ![s[ListOf(l)][x]] = j]

\* The first of equal items is replaced.
ReplacedIn(a, b, x, j) ==
  /\ x \in 1..Len(a) /\ b = [a EXCEPT ![x] = j]
  /\ \A q \in 1..(x - 1) : a[q] # a[x]

\* A link gets another item.
LEMMA ItemsModified ==
  ASSUME NEW m, NEW s, Sound(m, s, {}), NEW l \in Lists, NEW i, NEW j \in Items,
         NEW x, NEW m2, ModifiedAt(m, m2, s, l, i, x, j)
  PROVE  OthersKeep(m, m2, l) /\ ReplacedIn(ItemsOf(m, l), ItemsOf(m2, l), x, j)
<1>0. /\ FirstHolder(m, s[ListOf(l)], i, x) /\ Sound(m2, s, {})
      /\ ItemPut(m, m2, s[ListOf(l)][x], j)
  BY DEF ModifiedAt, ItemPut
<1>1. PICK v : v = s[ListOf(l)]
  OBVIOUS
<1>2. /\ x \in 1..Len(v) /\ m.item[v[x]] = i
      /\ \A p \in 1..Len(v) : p < x => m.item[v[p]] # i
  BY <1>0, <1>1 DEF FirstHolder
<1>3. v \in Seq(Links) /\ NoRepeats(v) /\ m.item \in [Links -> Items \cup {Null}]
  BY <1>1, LinksDiffer, SoundFields, MemoryFields
<1>4. PICK n \in Nat : n = Len(v) /\ x \in 1..n /\ \A p \in 1..n : v[p] \in Links
  BY <1>2, <1>3
<1>5. \A k \in Links : m2.item[k] = IF k = v[x] THEN j ELSE m.item[k]
  BY <1>0, <1>1, <1>3 DEF ItemPut
<1>6. OthersKeep(m, m2, l)
  <2>1. ItemsChangeOn(m, m2, v)
    BY <1>2, <1>5 DEF ItemsChangeOn, On
  <2>2. Step(m2, s, s, l)
    BY <1>0 DEF Step, OtherLists
  <2>. QED
    BY <1>1, <2>1, <2>2, OthersHold
<1>7. /\ ItemsOf(m, l) = [p \in 1..n |-> m.item[v[p]]] /\ Len(ItemsOf(m, l)) = n
      /\ ItemsOf(m2, l) = [p \in 1..n |-> m2.item[v[p]]]
  <2>1. ItemsOf(m, l) = [p \in 1..Len(v) |-> m.item[v[p]]] /\ Len(ItemsOf(m, l)) = Len(v)
    BY <1>1, ItemsAre
  <2>2. ItemsOf(m2, l) = [p \in 1..Len(v) |-> m2.item[v[p]]]
    BY <1>0, <1>1, ItemsAre
  <2>. QED
    BY <1>4, <2>1, <2>2
<1>8. \A p \in 1..n : m2.item[v[p]] = IF p = x THEN j ELSE m.item[v[p]]
  BY <1>3, <1>4, <1>5 DEF NoRepeats
<1>9. ItemsOf(m2, l) = [ItemsOf(m, l) EXCEPT ![x] = j]
  <2>1. PICK a : a = ItemsOf(m, l)
    OBVIOUS
  <2>2. a = [p \in 1..n |-> m.item[v[p]]]
    BY <1>7, <2>1
  <2>3. [a EXCEPT ![x] = j] = [p \in 1..n |-> IF p = x THEN j ELSE m.item[v[p]]]
    BY <2>2
  <2>. QED
    BY <1>7, <1>8, <2>1, <2>3
<1>10. ASSUME NEW q \in 1..(x - 1) PROVE ItemsOf(m, l)[q] # ItemsOf(m, l)[x]
  <2>1. q \in 1..n /\ q < x
    BY <1>4
  <2>. QED
    BY <1>2, <1>4, <1>7, <2>1
<1>. QED
  BY <1>4, <1>6, <1>7, <1>9, <1>10 DEF ReplacedIn

\* All links of a list are given up.
LEMMA ItemsEmptied ==
  ASSUME NEW m, NEW s, Sound(m, s, {}), NEW l \in Lists,
         NEW m2, NEW s2, Emptied(m, s, m2, s2, l)
  PROVE  OthersKeep(m, m2, l) /\ ItemsOf(m2, l) = <<>>
<1>1. /\ Sound(m2, s2, {}) /\ Step(m2, s, s2, l) /\ s2[ListOf(l)] = <<>>
      /\ \A k \in Links : m2.item[k] = IF On(s[ListOf(l)], k) THEN Null ELSE m.item[k]
  BY DEF Emptied, Step
<1>2. ItemsChangeOn(m, m2, s[ListOf(l)])
  BY <1>1 DEF ItemsChangeOn
<1>3. PICK v : v = s2[ListOf(l)]
  OBVIOUS
<1>4. ItemsOf(m2, l) \in Seq(Items) /\ Len(ItemsOf(m2, l)) = Len(v)
  BY <1>1, <1>3, ItemsAre
<1>5. ItemsOf(m2, l) = <<>>
  BY <1>1, <1>3, <1>4
<1>. QED
  BY <1>1, <1>2, <1>5, OthersHold

\* ItemLists takes its operators on sequences from the same module.
LEMMA SameSequenceOperators ==
  /\ \A f : Abstract!Range(f) = Range(f)
  /\ \A v, p : Abstract!RemoveAt(v, p) = RemoveAt(v, p)
  BY DEF Abstract!Range, Range, Abstract!RemoveAt, RemoveAt

\* The two ways to say that one position is taken out.
LEMMA TakenOut ==
  ASSUME NEW S, NEW v \in Seq(S), NEW w \in Seq(S), NEW x \in 1..Len(v), IsWithout(w, v, x)
  PROVE  w = RemoveAt(v, x) /\ (x = 1 => w = Tail(v))
<1>1. PICK n \in Nat : n = Len(v) /\ x \in 1..n /\ n - 1 \in Nat
  OBVIOUS
<1>2. w = [i \in 1..(n - 1) |-> IF i < x THEN v[i] ELSE v[i + 1]]
  BY <1>1 DEF IsWithout
<1>3. w = RemoveAt(v, x)
  <2>1. PICK u : u = RemoveAt(v, x)
    OBVIOUS
  <2>2. u \in Seq(S) /\ IsWithout(u, v, x)
    BY <2>1, WithoutPosition
  <2>3. u = [i \in 1..(n - 1) |-> IF i < x THEN v[i] ELSE v[i + 1]]
    BY <1>1, <2>2 DEF IsWithout
  <2>. QED
    BY <1>2, <2>1, <2>3
<1>4. ASSUME x = 1 PROVE w = Tail(v)
  <2>1. v # <<>>
    BY <1>1
  <2>2. PICK u : u = Tail(v)
    OBVIOUS
  <2>3. u \in Seq(S) /\ Len(u) = n - 1 /\ \A i \in 1..(n - 1) : u[i] = v[i + 1]
    BY <1>1, <2>1, <2>2
  <2>4. u = [i \in 1..(n - 1) |-> v[i + 1]]
    BY <2>3
  <2>5. w = [i \in 1..(n - 1) |-> v[i + 1]]
    BY <1>2, <1>4
  <2>. QED
    BY <2>2, <2>4, <2>5
<1>. QED
  BY <1>3, <1>4

\* One list holds something else.
LEMMA ContentsReplaced ==
  ASSUME NEW m, NEW m2, NEW l \in Lists, OthersKeep(m, m2, l), NEW u, ItemsOf(m2, l) = u
  PROVE  /\ Contents(m2) = [Contents(m) EXCEPT ![l] = u]
         /\ Contents(m)[l] = ItemsOf(m, l)
<1>1. \A k \in Lists : ItemsOf(m2, k) = IF k = l THEN u ELSE ItemsOf(m, k)
  BY DEF OthersKeep
<1>. QED
  BY <1>1 DEF Contents

\* The operations on sequences of items.
Entering(a, b, l, i) == i \notin Range(a[l]) /\ b = [a EXCEPT ![l] = Append(a[l], i)]
Leaving(a, b, l) == \E p \in 1..Len(a[l]) : b = [a EXCEPT ![l] = RemoveAt(a[l], p)]
Replacing(a, b, l, j) ==
  \E p \in 1..Len(a[l]) :
    /\ \A q \in 1..(p - 1) : a[l][q] # a[l][p]
    /\ b = [a EXCEPT ![l] = [a[l] EXCEPT ![p] = j]]
Clearing(a, b, l) == b = [a EXCEPT ![l] = <<>>]
CarryingOver(a, b, src, dst) ==
  /\ src # dst /\ a[src] # <<>> /\ Head(a[src]) \notin Range(a[dst])
  /\ b = [a EXCEPT ![src] = Tail(a[src]), ![dst] = Append(a[dst], Head(a[src]))]

\* A step of ItemLists.
ItemsStep(a, b) ==
  \/ a = b
  \/ \E l \in Lists, i \in Items : Entering(a, b, l, i) \/ Replacing(a, b, l, i)
  \/ \E l \in Lists : Leaving(a, b, l) \/ Clearing(a, b, l)
  \/ \E src, dst \in Lists : CarryingOver(a, b, src, dst)

\* The operations on sequences are the actions of ItemLists.
LEMMA ItemsStepIs ==
  ASSUME ItemsStep(Contents(mem), Contents(mem'))
  PROVE  [Abstract!Next]_([l \in Lists |-> ItemsOf(mem, l)])
<1> DEFINE items == [l \in Lists |-> ItemsOf(mem, l)]
<1>1. items = Contents(mem) /\ items' = Contents(mem')
  BY DEF Contents
<1> HIDE DEF items
<1>2. ASSUME NEW l \in Lists, NEW i \in Items, Entering(items, items', l, i)
      PROVE  Abstract!Enter(l, i)
  BY <1>2, SameSequenceOperators DEF Entering, Abstract!Enter, Abstract!Has, items
<1>3. ASSUME NEW l \in Lists, NEW j \in Items, Replacing(items, items', l, j)
      PROVE  Abstract!Replace(l, j)
  BY <1>3 DEF Replacing, Abstract!Replace, items
<1>4. ASSUME NEW l \in Lists, Leaving(items, items', l) PROVE Abstract!Leave(l)
  BY <1>4, SameSequenceOperators DEF Leaving, Abstract!Leave, items
<1>5. ASSUME NEW l \in Lists, Clearing(items, items', l) PROVE Abstract!Clear(l)
  BY <1>5 DEF Clearing, Abstract!Clear, items
<1>6. ASSUME NEW src \in Lists, NEW dst \in Lists, CarryingOver(items, items', src, dst)
      PROVE  Abstract!Carry(src, dst)
  BY <1>6, SameSequenceOperators DEF CarryingOver, Abstract!Carry, Abstract!Has, items
<1>. QED
  BY <1>1, <1>2, <1>3, <1>4, <1>5, <1>6 DEF ItemsStep, Abstract!Next, items

\* FindLinkItemFromID finds what is in the list.
LEMMA HasIs ==
  ASSUME NEW m, NEW s, Sound(m, s, {}), NEW l \in Lists, NEW i
  PROVE  Has(m, l, i) <=> i \in Range(ItemsOf(m, l))
<1>1. PICK v : v = s[ListOf(l)]
  OBVIOUS
<1>2. PICK n \in Nat : n = Len(v)
  BY <1>1, ItemsAre
<1>3. DOMAIN ItemsOf(m, l) = 1..n /\ \A p \in 1..n : ItemsOf(m, l)[p] = m.item[v[p]]
  <2>1. ItemsOf(m, l) = [p \in 1..Len(v) |-> m.item[v[p]]]
    BY <1>1, ItemsAre
  <2>. QED
    BY <1>2, <2>1
<1>4. i \in Range(ItemsOf(m, l)) <=> \E p \in 1..n : m.item[v[p]] = i
  BY <1>3 DEF Range
<1>5. ASSUME Has(m, l, i) PROVE \E p \in 1..n : m.item[v[p]] = i
  <2>1. PICK x : FirstHolder(m, v, i, x)
    BY <1>1, <1>5, FindLinkFinds
  <2>. QED
    BY <1>2, <2>1 DEF FirstHolder
<1>6. ASSUME ~Has(m, l, i) PROVE ~ \E p \in 1..n : m.item[v[p]] = i
  BY <1>1, <1>2, <1>6, FindLinkFinds
<1>. QED
  BY <1>4, <1>5, <1>6

\* A link is taken out: Leave.
LEMMA RemovedLeaves ==
  ASSUME NEW m, NEW s, Sound(m, s, {}), NEW l \in Lists,
         NEW m2, NEW s2, NEW x, RemovedAt(m, m2, s, s2, l, x)
  PROVE  ItemsStep(Contents(m), Contents(m2))
<1>1. /\ OthersKeep(m, m2, l) /\ x \in 1..Len(ItemsOf(m, l))
      /\ IsWithout(ItemsOf(m2, l), ItemsOf(m, l), x)
  BY ItemsRemoved
<1>2. Sound(m2, s2, {})
  BY DEF RemovedAt, Step
<1>3. PICK a, b : a = ItemsOf(m, l) /\ b = ItemsOf(m2, l)
  OBVIOUS
<1>4. a \in Seq(Items) /\ b \in Seq(Items)
  BY <1>2, <1>3, ItemsAre
<1>5. b = RemoveAt(a, x)
  BY <1>1, <1>3, <1>4, TakenOut
<1>6. Contents(m2) = [Contents(m) EXCEPT ![l] = b] /\ Contents(m)[l] = a
  BY <1>1, <1>3, ContentsReplaced
<1>7. Leaving(Contents(m), Contents(m2), l)
  BY <1>1, <1>3, <1>5, <1>6 DEF Leaving
<1>. QED
  BY <1>7 DEF ItemsStep

\* AddItem: Enter, or nothing if the list has the item.
LEMMA AddSteps ==
  ASSUME NEW m, NEW s, Sound(m, s, {}), Cardinality(Holding(m)) < MaxItems,
         NEW l \in Lists, NEW i \in Items, NEW m2, m2 = AddItem(m, l, i)
  PROVE  ItemsStep(Contents(m), Contents(m2))
<1>1. CASE Has(m, l, i)
  BY <1>1 DEF AddItem, ItemsStep
<1>2. CASE ~Has(m, l, i)
  <2>1. PICK k, s2 : AddedAt(m, m2, s, s2, l, i, k)
    BY <1>2, Added
  <2>2. OthersKeep(m, m2, l) /\ ItemsOf(m2, l) = Append(ItemsOf(m, l), i)
    BY <2>1, ItemsAdded
  <2>3. PICK u : u = ItemsOf(m2, l)
    OBVIOUS
  <2>4. Contents(m2) = [Contents(m) EXCEPT ![l] = u] /\ Contents(m)[l] = ItemsOf(m, l)
    BY <2>2, <2>3, ContentsReplaced
  <2>5. i \notin Range(ItemsOf(m, l))
    BY <1>2, HasIs
  <2>6. Entering(Contents(m), Contents(m2), l, i)
    BY <2>2, <2>3, <2>4, <2>5 DEF Entering
  <2>. QED
    BY <2>6 DEF ItemsStep
<1>. QED
  BY <1>1, <1>2

\* DeleteItem: Leave, or nothing.
LEMMA DeleteSteps ==
  ASSUME NEW m, NEW s, Sound(m, s, {}), NEW l \in Lists, NEW i, NEW m2, m2 = DeleteItem(m, l, i)
  PROVE  ItemsStep(Contents(m), Contents(m2))
<1>1. CASE ~Has(m, l, i)
  BY <1>1 DEF DeleteItem, ItemsStep
<1>2. CASE Has(m, l, i)
  <2>1. PICK x, s2 :
          /\ FirstHolder(m, s[ListOf(l)], i, x) /\ Step(m2, s, s2, l)
          /\ IsWithout(s2[ListOf(l)], s[ListOf(l)], x)
          /\ m2.item = [m.item EXCEPT ![s[ListOf(l)][x]] = Null]
    BY <1>2, Removed
  <2>2. RemovedAt(m, m2, s, s2, l, x)
    BY <2>1 DEF RemovedAt, FirstHolder
  <2>. QED
    BY <2>2, RemovedLeaves
<1>. QED
  BY <1>1, <1>2

\* ModifyItem: Replace, or nothing.
LEMMA ModifySteps ==
  ASSUME NEW m, NEW s, Sound(m, s, {}), NEW l \in Lists, NEW i, NEW j \in Items,
         NEW m2, m2 = ModifyItem(m, l, i, j)
  PROVE  ItemsStep(Contents(m), Contents(m2))
<1>1. CASE ~Has(m, l, i)
  BY <1>1 DEF ModifyItem, ItemsStep
<1>2. CASE Has(m, l, i)
  <2>1. PICK x : ModifiedAt(m, m2, s, l, i, x, j)
    BY <1>2, Modified DEF ModifiedAt
  <2>2. OthersKeep(m, m2, l) /\ ReplacedIn(ItemsOf(m, l), ItemsOf(m2, l), x, j)
    BY <2>1, ItemsModified
  <2>3. PICK u : u = ItemsOf(m2, l)
    OBVIOUS
  <2>4. Contents(m2) = [Contents(m) EXCEPT ![l] = u] /\ Contents(m)[l] = ItemsOf(m, l)
    BY <2>2, <2>3, ContentsReplaced
  <2>5. Replacing(Contents(m), Contents(m2), l, j)
    <3>1. PICK a, c, c2 : a = ItemsOf(m, l) /\ c = Contents(m) /\ c2 = Contents(m2)
      OBVIOUS
    <3>2. ReplacedIn(c[l], u, x, j) /\ c2 = [c EXCEPT ![l] = u]
      BY <2>2, <2>3, <2>4, <3>1
    <3>3. u = [c[l] EXCEPT ![x] = j]
      BY <3>2 DEF ReplacedIn
    <3>4. x \in 1..Len(c[l]) /\ \A q \in 1..(x - 1) : c[l][q] # c[l][x]
      BY <3>2 DEF ReplacedIn
    <3>5. Replacing(c, c2, l, j)
      BY <3>2, <3>3, <3>4, Zenon DEF Replacing
    <3>. QED
      BY <3>1, <3>5
  <2>. QED
    BY <2>5 DEF ItemsStep
<1>. QED
  BY <1>1, <1>2

\* Clean and the destructors: Clear.
LEMMA EmptySteps ==
  ASSUME NEW m, NEW s, Sound(m, s, {}), NEW l \in Lists, NEW m2,
         m2 = Clean(m, l) \/ m2 = Destroy(m, l)
  PROVE  ItemsStep(Contents(m), Contents(m2))
<1>1. PICK s2 : Emptied(m, s, m2, s2, l)
  BY Cleaned, Destroyed
<1>2. OthersKeep(m, m2, l) /\ ItemsOf(m2, l) = <<>>
  BY <1>1, ItemsEmptied
<1>3. PICK none : none = <<>>
  OBVIOUS
<1>4. ItemsOf(m2, l) = none
  BY <1>2, <1>3
<1>5. Contents(m2) = [Contents(m) EXCEPT ![l] = none]
  BY <1>2, <1>4, ContentsReplaced
<1>6. Clearing(Contents(m), Contents(m2), l)
  BY <1>3, <1>5 DEF Clearing
<1>. QED
  BY <1>6 DEF ItemsStep

\* The first item of src goes to the end of dst.
LEMMA CarriedOver ==
  ASSUME NEW m, NEW s, Sound(m, s, {}), NEW src \in Lists, NEW dst \in Lists, src # dst,
         NEW i \in Items, Len(s[ListOf(src)]) # 0, i = m.item[s[ListOf(src)][1]],
         NEW m1, NEW s1, RemovedAt(m, m1, s, s1, src, 1), ~Has(m1, dst, i),
         NEW m2, NEW s2, NEW k, AddedAt(m1, m2, s1, s2, dst, i, k)
  PROVE  ItemsStep(Contents(m), Contents(m2))
<1>1. Sound(m1, s1, {})
  BY DEF RemovedAt, Step
<1>2. PICK one : one = 1
  OBVIOUS
<1>3. RemovedAt(m, m1, s, s1, src, one)
  BY <1>2
<1>4. /\ OthersKeep(m, m1, src) /\ one \in 1..Len(ItemsOf(m, src))
      /\ IsWithout(ItemsOf(m1, src), ItemsOf(m, src), one)
  BY <1>3, ItemsRemoved
<1>5. OthersKeep(m1, m2, dst) /\ ItemsOf(m2, dst) = Append(ItemsOf(m1, dst), i)
  BY <1>1, ItemsAdded
<1>6. PICK a, a1, a2 : a = ItemsOf(m, src) /\ a1 = ItemsOf(m1, src) /\ a2 = ItemsOf(m2, src)
  OBVIOUS
<1>7. PICK b, b1, b2 : b = ItemsOf(m, dst) /\ b1 = ItemsOf(m1, dst) /\ b2 = ItemsOf(m2, dst)
  OBVIOUS
<1>8. a \in Seq(Items) /\ a1 \in Seq(Items) /\ b = b1 /\ a2 = a1 /\ b2 = Append(b, i)
  <2>1. a \in Seq(Items) /\ a1 \in Seq(Items)
    BY <1>1, <1>6, ItemsAre
  <2>. QED
    BY <1>4, <1>5, <1>6, <1>7, <2>1 DEF OthersKeep
<1>9. a1 = Tail(a)
  BY <1>2, <1>4, <1>6, <1>8, TakenOut
<1>10. Head(a) = i /\ a # <<>>
  <2>1. PICK v : v = s[ListOf(src)]
    OBVIOUS
  <2>2. a = [p \in 1..Len(v) |-> m.item[v[p]]] /\ Len(a) = Len(v)
    BY <1>6, <2>1, ItemsAre
  <2>3. 1 \in 1..Len(a)
    BY <1>2, <1>4, <1>6
  <2>4. a[1] = m.item[v[1]]
    BY <2>2, <2>3
  <2>. QED
    BY <1>8, <2>1, <2>3, <2>4
<1>11. i \notin Range(b)
  <2>1. i \notin Range(ItemsOf(m1, dst))
    BY <1>1, HasIs
  <2>. QED
    BY <1>7, <1>8, <2>1
<1>12. \A l \in Lists : ItemsOf(m2, l) = IF l = src THEN a1 ELSE IF l = dst THEN b2 ELSE ItemsOf(m, l)
  BY <1>4, <1>5, <1>6, <1>7, <1>8 DEF OthersKeep
<1>13. Contents(m)[src] = a /\ Contents(m)[dst] = b
  BY <1>6, <1>7 DEF Contents
<1>14. Contents(m2) = [Contents(m) EXCEPT ![src] = a1, ![dst] = b2]
  BY <1>12 DEF Contents
<1>15. CarryingOver(Contents(m), Contents(m2), src, dst)
  BY <1>8, <1>9, <1>10, <1>11, <1>13, <1>14 DEF CarryingOver
<1>. QED
  BY <1>15 DEF ItemsStep

\* One pass of a concatenation: Carry, or Leave if the destination refuses.
LEMMA CarrySteps ==
  ASSUME LocksInv, NEW s, Fitting(s, mem, call, unvisited), NEW t \in Clients, Carry(t)
  PROVE  ItemsStep(Contents(mem), Contents(mem'))
<1>1. PICK dst, src, i : CarryFinds(t, s, dst, src, i)
  BY CarryBegins
<1>2. /\ dst \in Lists /\ src \in Lists /\ dst # src
      /\ call[t].dst = dst /\ call[t].src = src
      /\ Len(s[ListOf(src)]) # 0 /\ call[t].position = s[ListOf(src)][1]
      /\ i = mem.item[s[ListOf(src)][1]] /\ i \in Items
  BY <1>1 DEF CarryFinds
<1>3. Sound(mem, s, {}) /\ Cardinality(Holding(mem)) <= MaxItems
  BY FittingFields
<1>4. PICK m1 : m1 = DeleteItem(mem, src, i)
  OBVIOUS
<1>5. mem' = AddItem(m1, dst, i)
  BY <1>2, <1>4 DEF Carry
<1>6. PICK s1 : RemovedAt(mem, m1, s, s1, src, 1)
  BY <1>2, <1>3, <1>4, FirstRemoved
<1>7. CASE Has(m1, dst, i)
  <2>1. mem' = m1
    BY <1>5, <1>7 DEF AddItem
  <2>2. PICK one : one = 1
    OBVIOUS
  <2>3. RemovedAt(mem, m1, s, s1, src, one)
    BY <1>6, <2>2
  <2>4. ItemsStep(Contents(mem), Contents(m1))
    BY <1>2, <1>3, <2>3, RemovedLeaves
  <2>. QED
    BY <2>1, <2>4
<1>8. CASE ~Has(m1, dst, i)
  <2>1. Sound(m1, s1, {})
    BY <1>6 DEF RemovedAt, Step
  <2>2. Cardinality(Holding(m1)) < MaxItems
    <3>1. PICK one : one = 1
      OBVIOUS
    <3>2. RemovedAt(mem, m1, s, s1, src, one)
      BY <1>6, <3>1
    <3>. QED
      BY <1>2, <1>3, <3>2, RemovedHoldsLess
  <2>3. PICK m2 : m2 = AddItem(m1, dst, i)
    OBVIOUS
  <2>4. PICK k, s2 : AddedAt(m1, m2, s1, s2, dst, i, k)
    BY <1>2, <1>8, <2>1, <2>2, <2>3, Added
  <2>5. ItemsStep(Contents(mem), Contents(m2))
    BY <1>2, <1>3, <1>6, <1>8, <2>4, CarriedOver
  <2>. QED
    BY <1>5, <2>3, <2>5
<1>. QED
  BY <1>7, <1>8

\* One pass of a traversal: Leave, or nothing.
LEMMA VisitSteps ==
  ASSUME LocksInv, NEW s, Fitting(s, mem, call, unvisited), NEW t \in Clients, Visit(t)
  PROVE  ItemsStep(Contents(mem), Contents(mem'))
<1>1. PICK l, v, p : VisitFinds(t, s, l, v, p)
  BY VisitBegins
<1>2. l \in Lists /\ call[t].list = l /\ v = s[ListOf(l)]
  BY <1>1 DEF VisitFinds
<1>3. Sound(mem, s, {})
  BY FittingFields
<1>4. PICK gone \in Deletions(t) :
        mem' = IF gone = {} THEN mem ELSE Unlink(mem, l, CHOOSE k \in gone : TRUE)
  BY <1>2 DEF Visit
<1>5. CASE gone = {}
  BY <1>4, <1>5 DEF ItemsStep
<1>6. ASSUME NEW x \in 1..Len(v), gone = {v[x]} PROVE ItemsStep(Contents(mem), Contents(mem'))
  <2>1. PICK m2 : m2 = Unlink(mem, l, s[ListOf(l)][x])
    OBVIOUS
  <2>2. mem' = m2
    <3>1. gone # {} /\ (CHOOSE k \in gone : TRUE) = v[x]
      BY <1>6
    <3>. QED
      BY <1>2, <1>4, <2>1, <3>1
  <2>3. PICK s2 : RemovedAt(mem, m2, s, s2, l, x)
    BY <1>2, <1>3, <2>1, UnlinkedAt
  <2>4. ItemsStep(Contents(mem), Contents(m2))
    BY <1>2, <1>3, <2>3, RemovedLeaves
  <2>. QED
    BY <2>2, <2>4
<1>. QED
  BY <1>1, <1>3, <1>5, <1>6, DeletionsAre

\* The lists are empty at first.
LEMMA InitItems == ListInit => Abstract!Init
<1> SUFFICES ASSUME ListInit PROVE Abstract!Init
  OBVIOUS
<1>1. PICK s : Sound(mem, s, {})
  BY InitChainsInv, FittingFields DEF ChainsInv
<1>2. ASSUME NEW l \in Lists PROVE ItemsOf(mem, l) = <<>>
  <2>1. mem.list[l].n = 0
    BY DEF ListInit, EmptyChain
  <2>2. mem.list[l] = EndsOf(s[ListOf(l)]) /\ s[ListOf(l)] \in Seq(Links)
    BY <1>1, SoundEnds
  <2>3. Len(s[ListOf(l)]) = 0
    BY <2>1, <2>2, EndsOfSeq
  <2>4. PICK v : v = s[ListOf(l)]
    OBVIOUS
  <2>5. ItemsOf(mem, l) \in Seq(Items) /\ Len(ItemsOf(mem, l)) = Len(v)
    BY <1>1, <2>4, ItemsAre
  <2>. QED
    BY <2>3, <2>4, <2>5
<1>. QED
  BY <1>2 DEF Abstract!Init

\* Every step is a step of ItemLists or changes no list.
LEMMA StepItems ==
  ListInv /\ [ListNext]_listVars => [Abstract!Next]_([l \in Lists |-> ItemsOf(mem, l)])
<1> SUFFICES ASSUME ListInv, [ListNext]_listVars PROVE ItemsStep(Contents(mem), Contents(mem'))
  BY ItemsStepIs
<1>1. LocksInv
  BY DEF ListInv
<1>2. PICK s : Fitting(s, mem, call, unvisited)
  BY DEF ListInv, ChainsInv
<1>3. Sound(mem, s, {})
  BY <1>2, FittingFields
<1>4. ASSUME mem' = mem PROVE ItemsStep(Contents(mem), Contents(mem'))
  BY <1>4 DEF ItemsStep
<1>5. ASSUME NEW l \in Lists, NEW i \in Items, SafeAddItem(l, i)
      PROVE  ItemsStep(Contents(mem), Contents(mem'))
  <2>1. PICK m2 : m2 = AddItem(mem, l, i)
    OBVIOUS
  <2>2. mem' = m2 /\ Cardinality(Holding(mem)) < MaxItems
    BY <1>5, <2>1 DEF SafeAddItem, OneStep, Linked, Holding
  <2>3. ItemsStep(Contents(mem), Contents(m2))
    BY <1>3, <2>1, <2>2, AddSteps
  <2>. QED
    BY <2>2, <2>3
<1>6. ASSUME NEW l \in Lists, NEW i \in Items, SafeDeleteItem(l, i)
      PROVE  ItemsStep(Contents(mem), Contents(mem'))
  <2>1. PICK m2 : m2 = DeleteItem(mem, l, i)
    OBVIOUS
  <2>2. mem' = m2
    BY <1>6, <2>1 DEF SafeDeleteItem, OneStep
  <2>3. ItemsStep(Contents(mem), Contents(m2))
    BY <1>3, <2>1, DeleteSteps
  <2>. QED
    BY <2>2, <2>3
<1>7. ASSUME NEW l \in Lists, NEW i \in Items, NEW j \in Items, SafeModifyItem(l, i, j)
      PROVE  ItemsStep(Contents(mem), Contents(mem'))
  <2>1. PICK m2 : m2 = ModifyItem(mem, l, i, j)
    OBVIOUS
  <2>2. mem' = m2
    BY <1>7, <2>1 DEF SafeModifyItem, OneStep
  <2>3. ItemsStep(Contents(mem), Contents(m2))
    BY <1>3, <2>1, ModifySteps
  <2>. QED
    BY <2>2, <2>3
<1>8. ASSUME NEW l \in Lists, SafeClean(l) \/ Renew(l)
      PROVE  ItemsStep(Contents(mem), Contents(mem'))
  <2>1. PICK m2 : /\ m2 = Clean(mem, l) \/ m2 = Destroy(mem, l)
                  /\ OneStep(l, m2)
    BY <1>8 DEF SafeClean, Renew
  <2>2. ItemsStep(Contents(mem), Contents(m2))
    BY <1>3, <2>1, EmptySteps
  <2>. QED
    BY <2>1, <2>2 DEF OneStep
<1>9. ASSUME NEW t \in Clients, Carry(t) PROVE ItemsStep(Contents(mem), Contents(mem'))
  BY <1>1, <1>2, <1>9, CarrySteps
<1>10. ASSUME NEW t \in Clients, Visit(t) PROVE ItemsStep(Contents(mem), Contents(mem'))
  BY <1>1, <1>2, <1>10, VisitSteps
<1>11. ASSUME NEW t \in Clients,
              \/ \E dst, src \in Lists : SafeConcatenation(t, dst, src)
              \/ \E l \in Lists : Traverse(t, l)
              \/ LockSource(t) \/ UnlockSource(t) \/ EndTraverse(t) \/ Unlock(t)
       PROVE  mem' = mem
  BY <1>11 DEF SafeConcatenation, Traverse, LockSource, UnlockSource, EndTraverse, Unlock
<1>12. CASE UNCHANGED listVars
  BY <1>4, <1>12 DEF listVars
<1>. QED
  BY <1>4, <1>5, <1>6, <1>7, <1>8, <1>9, <1>10, <1>11, <1>12 DEF ListNext, Inside

\* ItemListsSpec: the lists that CLinkedListTemplate builds of links, caches and
\* counters are sequences of items that only the calls change, each call the
\* way ItemLists says, whatever the interleaving of the threads.
THEOREM ListsImplementItemLists == ListSpec => ItemListsSpec
<1>1. ListInit => Abstract!Init
  BY InitItems
<1>2. ListInv /\ [ListNext]_listVars => [Abstract!Next]_([l \in Lists |-> ItemsOf(mem, l)])
  BY StepItems
<1>. QED
  BY <1>1, <1>2, ListInvariant, PTL DEF ListSpec, ItemListsSpec, Abstract!Spec

===============================================================================
