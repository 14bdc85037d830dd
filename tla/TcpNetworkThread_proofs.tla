------------------------ MODULE TcpNetworkThread_proofs ------------------------
(***************************************************************************)
(* Proofs about TcpNetworkThread, for every set of connections, every size *)
(* of the arrays and the table and any amount of unsent data.  The poll    *)
(* table is handled through what the invariants need of it: its sockets,   *)
(* those it watches for reading and for writing, and its reported entries. *)
(* What each table operation does to those comes first.                    *)
(***************************************************************************)
EXTENDS TcpNetworkThread, FiniteSetTheorems, TLAPS

\* An entry of the poll table, and a table without a socket in it twice.
Entries == [socket : Sockets \cup {Listen}, in : BOOLEAN, out : BOOLEAN,
            revents : SUBSET {"in", "out", "nval"}]

OneEach(t) == \A i, j \in 1..Len(t) : t[i].socket = t[j].socket => i = j

GoodTable(t) == t \in Seq(Entries) /\ OneEach(t)

ReadSet(t)  == {t[i].socket : i \in {j \in 1..Len(t) : t[j].in}}
WriteSet(t) == {t[i].socket : i \in {j \in 1..Len(t) : t[j].out}}

\* Two tables watch the same sockets for the same.
SameWatch(t, u) == /\ Len(u) = Len(t) /\ SocketsIn(u) = SocketsIn(t)
                   /\ ReadSet(u) = ReadSet(t) /\ WriteSet(u) = WriteSet(t)

\* The first of some indices: what the CHOOSE of Here finds.
LEMMA FirstIndex ==
  ASSUME NEW n \in Nat, NEW S \in SUBSET (1..n), S # {}
  PROVE  \E i \in S : \A j \in S : i <= j
<1> DEFINE Below == {1..i : i \in S}
           Smaller == StrictSubsetOrdering(1..n)
<1>1. IsWellFoundedOn(Smaller, FiniteSubsetsOf(1..n))
  BY FS_StrictSubsetOrderingWellFounded
<1>2. Below # {} /\ Below \subseteq SUBSET (1..n)
  <2>1. \A i \in S : 1..i \subseteq 1..n
    OBVIOUS
  <2>. QED
    BY <2>1
<1>3. FiniteSubsetsOf(1..n) = SUBSET (1..n)
  <2>1. IsFiniteSet(1..n)
    BY FS_Interval, 1 \in Int, n \in Int
  <2>. QED
    BY <2>1, FS_FiniteSubsetsOfFinite
<1>4. \E x \in Below : \A y \in Below : <<y, x>> \notin Smaller
  <2> HIDE DEF Smaller, Below
  <2>1. IsWellFoundedOn(Smaller, SUBSET (1..n))
    BY <1>1, <1>3, Zenon
  <2>. QED
    BY <1>2, <2>1, WFMin, Zenon
<1>5. PICK i \in S : \A j \in S : <<1..j, 1..i>> \notin Smaller
  BY <1>4
<1>6. ASSUME NEW j \in S PROVE i <= j
  <2>1. SUFFICES ASSUME j < i PROVE FALSE
    OBVIOUS
  <2>2. 1..j \subseteq 1..i /\ i \in 1..i /\ i \notin 1..j
    BY <2>1
  <2>3. 1..j \in SUBSET (1..n) /\ 1..i \in SUBSET (1..n)
    BY <1>2
  <2>. QED
    BY <1>5, <2>2, <2>3 DEF StrictSubsetOrdering
<1>. QED
  BY <1>6

LEMMA HereFound ==
  ASSUME GoodTable(table), cursor \in Nat \ {0}, NEW event, Due(event) # {}
  PROVE  /\ Here(event) \in 1..Len(table)
         /\ event \in table[Here(event)].revents
<1>1. Len(table) \in Nat /\ Due(event) \in SUBSET (1..Len(table))
  BY DEF Due, GoodTable
<1>2. \E i \in Due(event) : \A j \in Due(event) : i <= j
  BY <1>1, FirstIndex
<1>3. Here(event) \in Due(event)
  BY <1>2 DEF Here
<1>. QED
  BY <1>1, <1>3 DEF Due

LEMMA IndexFound ==
  ASSUME NEW t, NEW s \in SocketsIn(t)
  PROVE  IndexOf(t, s) \in 1..Len(t) /\ t[IndexOf(t, s)].socket = s
BY DEF SocketsIn, IndexOf

\* Reported entries are finitely many.
LEMMA ReportedFinite ==
  ASSUME NEW t, Len(t) \in Nat
  PROVE  IsFiniteSet(Reported(t)) /\ Cardinality(Reported(t)) \in Nat
<1>1. IsFiniteSet(1..Len(t))
  BY FS_Interval, 1 \in Int, Len(t) \in Int
<1>2. IsFiniteSet(Reported(t))
  BY <1>1, FS_Subset DEF Reported
<1>. QED
  BY <1>2, FS_CardinalityType
-----------------------------------------------------------------------------
(* The operations on the table.                                            *)

\* An entry is replaced by one of the same socket.
Replaced(t, i, e, u) ==
  /\ u \in Seq(Entries) /\ Len(u) = Len(t)
  /\ \A j \in 1..Len(t) : u[j] = IF j = i THEN e ELSE t[j]

LEMMA ReplaceEntry ==
  ASSUME NEW t, NEW i \in 1..Len(t), NEW e, NEW u,
         GoodTable(t), e.socket = t[i].socket, Replaced(t, i, e, u)
  PROVE  /\ GoodTable(u) /\ Len(u) = Len(t) /\ SocketsIn(u) = SocketsIn(t)
         /\ \A j \in 1..Len(t) : /\ u[j] = IF j = i THEN e ELSE t[j]
                                 /\ u[j].socket = t[j].socket
<1>1. \A j \in 1..Len(t) : u[j].socket = t[j].socket
  BY DEF Replaced
<1>2. OneEach(u) /\ SocketsIn(u) = SocketsIn(t)
  BY <1>1 DEF GoodTable, OneEach, SocketsIn, Replaced
<1>. QED
  BY <1>1, <1>2 DEF GoodTable, Replaced

\* The event of an entry is cleared: ClearListen, Cleared.
LEMMA ClearEvent ==
  ASSUME NEW t, GoodTable(t), NEW i \in 1..Len(t), t[i].revents # {}, NEW u
  PROVE  u = [t EXCEPT ![i].revents = {}] =>
           /\ GoodTable(u) /\ SameWatch(t, u)
           /\ \A j \in 1..Len(t) : u[j].socket = t[j].socket
           /\ Cardinality(Reported(u)) = Cardinality(Reported(t)) - 1
<1> DEFINE e == [t[i] EXCEPT !.revents = {}]
<1>0. t[i] \in Entries /\ Len(t) \in Nat
  BY DEF GoodTable
<1>1. /\ e \in Entries /\ e.socket = t[i].socket /\ e.in = t[i].in /\ e.out = t[i].out
      /\ e.revents = {}
  BY <1>0 DEF Entries
<1>2. u = [t EXCEPT ![i].revents = {}] => u = [t EXCEPT ![i] = e]
  OBVIOUS
<1> HIDE DEF e
<1> SUFFICES ASSUME u = [t EXCEPT ![i] = e]
             PROVE  /\ GoodTable(u) /\ SameWatch(t, u)
                    /\ \A j \in 1..Len(t) : u[j].socket = t[j].socket
                    /\ Cardinality(Reported(u)) = Cardinality(Reported(t)) - 1
  BY <1>2
<1>3. /\ GoodTable(u) /\ Len(u) = Len(t) /\ SocketsIn(u) = SocketsIn(t)
      /\ \A j \in 1..Len(t) : /\ u[j] = IF j = i THEN e ELSE t[j]
                              /\ u[j].socket = t[j].socket
  <2>1. Replaced(t, i, e, u)
    BY <1>1 DEF GoodTable, Replaced
  <2>. QED
    BY <1>1, <2>1, ReplaceEntry
<1>4. ReadSet(u) = ReadSet(t) /\ WriteSet(u) = WriteSet(t)
  <2>1. \A j \in 1..Len(t) : u[j].in = t[j].in /\ u[j].out = t[j].out
    BY <1>1, <1>3
  <2>. QED
    BY <1>3, <2>1 DEF ReadSet, WriteSet
<1>5. Reported(u) = Reported(t) \ {i} /\ i \in Reported(t)
  BY <1>1, <1>3 DEF Reported
<1>6. Cardinality(Reported(u)) = Cardinality(Reported(t)) - 1
  BY <1>0, <1>5, ReportedFinite, FS_RemoveElement
<1>. QED
  BY <1>3, <1>4, <1>6 DEF SameWatch

\* PollFDEnable and PollFDDisable.
LEMMA SetWrite ==
  ASSUME NEW t, GoodTable(t), NEW i \in 1..Len(t), NEW e \in Entries, NEW u,
         Replaced(t, i, e, u),
         e.socket = t[i].socket, e.in = t[i].in, e.revents = t[i].revents
  PROVE  /\ GoodTable(u) /\ Len(u) = Len(t)
         /\ SocketsIn(u) = SocketsIn(t) /\ ReadSet(u) = ReadSet(t)
         /\ (e.out => WriteSet(u) = WriteSet(t) \cup {t[i].socket})
         /\ (~e.out => WriteSet(u) = WriteSet(t) \ {t[i].socket})
         /\ Reported(u) = Reported(t)
<1>1. /\ GoodTable(u) /\ Len(u) = Len(t) /\ SocketsIn(u) = SocketsIn(t)
      /\ \A j \in 1..Len(t) : /\ u[j] = IF j = i THEN e ELSE t[j]
                              /\ u[j].socket = t[j].socket
  BY ReplaceEntry
<1>2. \A j \in 1..Len(t) : u[j].in = t[j].in /\ u[j].revents = t[j].revents
  BY <1>1
<1>3. ReadSet(u) = ReadSet(t) /\ Reported(u) = Reported(t)
  BY <1>1, <1>2 DEF ReadSet, Reported
<1>4. CASE e.out
  <2>1. \A j \in 1..Len(t) : u[j].out <=> j = i \/ t[j].out
    BY <1>1, <1>4
  <2>2. WriteSet(u) = WriteSet(t) \cup {t[i].socket}
    BY <1>1, <2>1 DEF WriteSet
  <2>. QED
    BY <1>1, <1>3, <1>4, <2>2
<1>5. CASE ~e.out
  <2>1. \A j \in 1..Len(t) : j # i => t[j].socket # t[i].socket
    BY DEF GoodTable, OneEach
  <2>2. \A j \in 1..Len(t) : u[j].out <=> j # i /\ t[j].out
    BY <1>1, <1>5
  <2>3. WriteSet(u) = WriteSet(t) \ {t[i].socket}
    BY <1>1, <2>1, <2>2 DEF WriteSet
  <2>. QED
    BY <1>1, <1>3, <1>5, <2>3
<1>. QED
  BY <1>4, <1>5

LEMMA EnableEntry ==
  ASSUME NEW t, GoodTable(t), NEW i \in 1..Len(t), NEW u, u = PollFDEnable(t, i)
  PROVE  /\ GoodTable(u) /\ Len(u) = Len(t)
         /\ SocketsIn(u) = SocketsIn(t) /\ ReadSet(u) = ReadSet(t)
         /\ WriteSet(u) = WriteSet(t) \cup {t[i].socket} /\ Reported(u) = Reported(t)
<1> DEFINE e == [t[i] EXCEPT !.out = TRUE]
<1>1. /\ e \in Entries /\ e.socket = t[i].socket /\ e.in = t[i].in /\ e.out
      /\ e.revents = t[i].revents
  <2>1. t[i] \in Entries
    BY DEF GoodTable
  <2>. QED
    BY <2>1 DEF Entries
<1>2. u = [t EXCEPT ![i] = e]
  BY DEF PollFDEnable
<1> HIDE DEF e
<1>3. Replaced(t, i, e, u)
  BY <1>1, <1>2 DEF GoodTable, Replaced
<1>. QED
  BY <1>1, <1>3, SetWrite

LEMMA DisableEntry ==
  ASSUME NEW t, GoodTable(t), NEW i \in 1..Len(t), NEW u, u = PollFDDisable(t, i)
  PROVE  /\ GoodTable(u) /\ Len(u) = Len(t)
         /\ SocketsIn(u) = SocketsIn(t) /\ ReadSet(u) = ReadSet(t)
         /\ WriteSet(u) = WriteSet(t) \ {t[i].socket} /\ Reported(u) = Reported(t)
<1> DEFINE e == [t[i] EXCEPT !.out = FALSE]
<1>1. /\ e \in Entries /\ e.socket = t[i].socket /\ e.in = t[i].in /\ ~e.out
      /\ e.revents = t[i].revents
  <2>1. t[i] \in Entries
    BY DEF GoodTable
  <2>. QED
    BY <2>1 DEF Entries
<1>2. u = [t EXCEPT ![i] = e]
  BY DEF PollFDDisable
<1> HIDE DEF e
<1>3. Replaced(t, i, e, u)
  BY <1>1, <1>2 DEF GoodTable, Replaced
<1>. QED
  BY <1>1, <1>3, SetWrite

\* An entry without an event is appended.
Added(t, e, u) ==
  /\ GoodTable(u) /\ Len(u) = Len(t) + 1
  /\ SocketsIn(u) = SocketsIn(t) \cup {e.socket}
  /\ (e.in => ReadSet(u) = ReadSet(t) \cup {e.socket})
  /\ (~e.in => ReadSet(u) = ReadSet(t))
  /\ (e.out => WriteSet(u) = WriteSet(t) \cup {e.socket})
  /\ (~e.out => WriteSet(u) = WriteSet(t))
  /\ Reported(u) = Reported(t)

LEMMA AddEntry ==
  ASSUME NEW t, GoodTable(t), NEW e \in Entries, e.socket \notin SocketsIn(t),
         e.revents = {}, NEW u, u = Append(t, e)
  PROVE  Added(t, e, u)
<1>0. Len(t) \in Nat
  BY DEF GoodTable
<1>1. /\ u \in Seq(Entries) /\ Len(u) = Len(t) + 1
      /\ \A i \in 1..Len(t) : u[i] = t[i]
      /\ u[Len(t) + 1] = e
  BY DEF GoodTable
<1>2. /\ 1..Len(u) = 1..Len(t) \cup {Len(t) + 1}
      /\ Len(t) + 1 \notin 1..Len(t)
  BY <1>0, <1>1
<1>3. \A i \in 1..Len(t) : t[i].socket # e.socket
  BY DEF SocketsIn
<1>4. OneEach(u)
  BY <1>1, <1>2, <1>3 DEF OneEach, GoodTable
<1>5. SocketsIn(u) = SocketsIn(t) \cup {e.socket}
  BY <1>1, <1>2 DEF SocketsIn
<1>6. /\ e.in => ReadSet(u) = ReadSet(t) \cup {e.socket}
      /\ ~e.in => ReadSet(u) = ReadSet(t)
  BY <1>1, <1>2 DEF ReadSet
<1>7. /\ e.out => WriteSet(u) = WriteSet(t) \cup {e.socket}
      /\ ~e.out => WriteSet(u) = WriteSet(t)
  BY <1>1, <1>2 DEF WriteSet
<1>8. Reported(u) = Reported(t)
  BY <1>1, <1>2 DEF Reported
<1>. QED
  BY <1>1, <1>4, <1>5, <1>6, <1>7, <1>8 DEF GoodTable, Added

\* The entries of u are those of t, but for that of s.
OthersOf(t, s, u) ==
  /\ \A i \in 1..Len(u) : \E j \in 1..Len(t) : t[j].socket # s /\ u[i] = t[j]
  /\ \A j \in 1..Len(t) : t[j].socket # s => \E i \in 1..Len(u) : u[i] = t[j]

LEMMA OtherEntries ==
  ASSUME NEW t, NEW u, NEW s, OthersOf(t, s, u)
  PROVE  /\ SocketsIn(u) = SocketsIn(t) \ {s}
         /\ ReadSet(u) = ReadSet(t) \ {s}
         /\ WriteSet(u) = WriteSet(t) \ {s}
<1>1. ASSUME NEW i \in 1..Len(u)
      PROVE  \E j \in 1..Len(t) : t[j].socket # s /\ u[i] = t[j]
  BY Zenon DEF OthersOf
<1>2. ASSUME NEW j \in 1..Len(t), t[j].socket # s
      PROVE  \E i \in 1..Len(u) : u[i] = t[j]
  BY <1>2, Zenon DEF OthersOf
<1>3. SocketsIn(u) = SocketsIn(t) \ {s}
  <2>1. SocketsIn(u) \subseteq SocketsIn(t) \ {s}
    BY <1>1 DEF SocketsIn
  <2>2. SocketsIn(t) \ {s} \subseteq SocketsIn(u)
    BY <1>2 DEF SocketsIn
  <2>. QED
    BY <2>1, <2>2
<1>4. ReadSet(u) = ReadSet(t) \ {s}
  <2>1. ReadSet(u) \subseteq ReadSet(t) \ {s}
    BY <1>1 DEF ReadSet
  <2>2. ReadSet(t) \ {s} \subseteq ReadSet(u)
    BY <1>2 DEF ReadSet
  <2>. QED
    BY <2>1, <2>2
<1>5. WriteSet(u) = WriteSet(t) \ {s}
  <2>1. WriteSet(u) \subseteq WriteSet(t) \ {s}
    BY <1>1 DEF WriteSet
  <2>2. WriteSet(t) \ {s} \subseteq WriteSet(u)
    BY <1>2 DEF WriteSet
  <2>. QED
    BY <2>1, <2>2
<1>. QED
  BY <1>3, <1>4, <1>5

\* PollFDDelete: the entry of the socket goes, and no event is added.
LEMMA DeleteEntry ==
  ASSUME NEW t, GoodTable(t), NEW s, NEW u, u = PollFDDelete(t, s)
  PROVE  /\ GoodTable(u) /\ Len(u) <= Len(t) /\ SocketsIn(u) = SocketsIn(t) \ {s}
         /\ ReadSet(u) = ReadSet(t) \ {s} /\ WriteSet(u) = WriteSet(t) \ {s}
         /\ Cardinality(Reported(u)) <= Cardinality(Reported(t))
<1>0. Len(t) \in Nat /\ IsFiniteSet(Reported(t)) /\ Cardinality(Reported(t)) \in Nat
  BY ReportedFinite DEF GoodTable
<1>1. CASE s \notin SocketsIn(t)
  <2>1. u = t
    BY <1>1 DEF PollFDDelete
  <2>2. s \notin ReadSet(t) /\ s \notin WriteSet(t)
    BY <1>1 DEF SocketsIn, ReadSet, WriteSet
  <2>. QED
    BY <1>0, <1>1, <2>1, <2>2
<1>2. CASE s \in SocketsIn(t)
  <2> DEFINE k == IndexOf(t, s)
             n == Len(t)
  <2>1. k \in 1..n /\ t[k].socket = s /\ n \in Nat \ {0}
    BY <1>0, <1>2, IndexFound
  <2>2. /\ u \in Seq(Entries) /\ Len(u) = n - 1
        /\ \A i \in 1..(n - 1) : u[i] = IF i = k THEN t[n] ELSE t[i]
    <3> DEFINE v == [t EXCEPT ![k] = t[n]]
    <3>1. /\ v \in Seq(Entries) /\ Len(v) = n
          /\ \A i \in 1..n : v[i] = IF i = k THEN t[n] ELSE t[i]
      BY <2>1 DEF GoodTable
    <3>2. u = SubSeq(v, 1, n - 1)
      BY <1>2 DEF PollFDDelete
    <3> HIDE DEF v, k, n
    <3>. QED
      BY <2>1, <3>1, <3>2
  <2> HIDE DEF k, n
  <2>3. n = Len(t)
    BY DEF n
  <2>4. \A i \in 1..n : t[i].socket = s <=> i = k
    BY <2>1, <2>3 DEF GoodTable, OneEach
  \* Every entry but that of s is in the new table, and no other.
  <2>5. OthersOf(t, s, u)
    <3>1. \A i \in 1..(n - 1) : \E j \in 1..n : j # k /\ u[i] = t[j]
      BY <2>1, <2>2
    <3>2. \A j \in 1..n : j # k => \E i \in 1..(n - 1) : u[i] = t[j]
      BY <2>1, <2>2
    <3>3. 1..Len(u) = 1..(n - 1) /\ 1..Len(t) = 1..n
      BY <2>2, <2>3
    <3>4. \A j \in 1..n : t[j].socket # s <=> j # k
      BY <2>4
    <3>5. ASSUME NEW i \in 1..Len(u)
          PROVE  \E j \in 1..Len(t) : t[j].socket # s /\ u[i] = t[j]
      BY <3>1, <3>3, <3>4, Zenon
    <3>6. ASSUME NEW j \in 1..Len(t), t[j].socket # s
          PROVE  \E i \in 1..Len(u) : u[i] = t[j]
      BY <3>2, <3>3, <3>4, <3>6, Zenon
    <3>. QED
      BY <3>5, <3>6 DEF OthersOf
  <2>6. OneEach(u)
    BY <2>1, <2>2, <2>3 DEF GoodTable, OneEach
  <2>7. /\ SocketsIn(u) = SocketsIn(t) \ {s} /\ ReadSet(u) = ReadSet(t) \ {s}
        /\ WriteSet(u) = WriteSet(t) \ {s}
    BY <2>5, OtherEntries
  <2>8. Cardinality(Reported(u)) <= Cardinality(Reported(t))
    <3>1. CASE n \in Reported(t)
      <4> DEFINE rest  == Reported(t) \ {n}
                 moved == rest \cup {k}
      <4>1. IsFiniteSet(rest) /\ Cardinality(rest) = Cardinality(Reported(t)) - 1
        BY <1>0, <3>1, FS_RemoveElement
      <4>2. Reported(u) \subseteq moved
        BY <2>1, <2>2, <2>3 DEF Reported
      <4> HIDE DEF rest
      <4>3. IsFiniteSet(moved) /\ Cardinality(moved) <= Cardinality(Reported(t))
        <5>1. /\ IsFiniteSet(rest \cup {k})
              /\ Cardinality(rest \cup {k}) =
                   IF k \in rest THEN Cardinality(rest) ELSE Cardinality(rest) + 1
          BY <4>1, FS_AddElement, Zenon
        <5>. QED
          BY <1>0, <4>1, <5>1
      <4> HIDE DEF moved
      <4>4. Cardinality(Reported(u)) <= Cardinality(moved) /\ Cardinality(moved) \in Nat
            /\ Cardinality(Reported(u)) \in Nat
        BY <4>2, <4>3, FS_Subset, FS_CardinalityType
      <4>. QED
        BY <1>0, <4>3, <4>4
    <3>2. CASE n \notin Reported(t)
      <4>1. Reported(u) \subseteq Reported(t)
        BY <2>1, <2>2, <2>3, <3>2 DEF Reported
      <4>. QED
        BY <1>0, <4>1, FS_Subset
    <3>. QED
      BY <3>1, <3>2
  <2>. QED
    BY <2>1, <2>2, <2>3, <2>6, <2>7, <2>8 DEF GoodTable
<1>. QED
  BY <1>1, <1>2

\* poll writes the events of every entry.
LEMMA PollEntries ==
  ASSUME GoodTable(table), NEW room, NEW u, u = Polled(room)
  PROVE  GoodTable(u) /\ SameWatch(table, u)
<1> DEFINE events(i) ==
             IF Stale(table[i].socket) THEN {"nval"} ELSE
               (IF table[i].in /\ Readable(table[i].socket) THEN {"in"} ELSE {}) \cup
               (IF table[i].out /\ table[i].socket \in room THEN {"out"} ELSE {})
           row(i) == [table[i] EXCEPT !.revents = events(i)]
<1>0. Len(table) \in Nat /\ \A i \in 1..Len(table) : table[i] \in Entries
  BY DEF GoodTable
<1>1. \A i \in 1..Len(table) : events(i) \in SUBSET {"in", "out", "nval"}
  OBVIOUS
<1>2. u = [i \in 1..Len(table) |-> row(i)]
  BY DEF Polled
<1> HIDE DEF events
<1>3. \A i \in 1..Len(table) :
        /\ row(i) \in Entries /\ row(i).socket = table[i].socket
        /\ row(i).in = table[i].in /\ row(i).out = table[i].out
  BY <1>0, <1>1 DEF Entries
<1> HIDE DEF row
<1>4. u \in Seq(Entries) /\ Len(u) = Len(table)
  BY <1>0, <1>2, <1>3
<1>5. \A i \in 1..Len(table) : /\ u[i].socket = table[i].socket
                               /\ u[i].in = table[i].in /\ u[i].out = table[i].out
  BY <1>2, <1>3
<1>6. OneEach(u)
  BY <1>4, <1>5 DEF GoodTable, OneEach
<1>7. SocketsIn(u) = SocketsIn(table) /\ ReadSet(u) = ReadSet(table)
      /\ WriteSet(u) = WriteSet(table)
  <2>1. SocketsIn(u) = SocketsIn(table)
    BY <1>4, <1>5 DEF SocketsIn
  <2>2. ReadSet(u) = ReadSet(table)
    BY <1>4, <1>5 DEF ReadSet
  <2>3. WriteSet(u) = WriteSet(table)
    BY <1>4, <1>5 DEF WriteSet
  <2>. QED
    BY <2>1, <2>2, <2>3
<1>. QED
  BY <1>4, <1>6, <1>7 DEF GoodTable, SameWatch
-----------------------------------------------------------------------------
(* The invariant.                                                          *)

\* SocketsMatch in the terms of the lemmas above.
Agree ==
  /\ readSockets = {s \in Sockets : conn[s] = "open"}
  /\ SocketsIn(table) \subseteq readSockets \cup {Listen}
  /\ ReadSet(table) \ {Listen} = readSockets \ unpolled
  /\ WriteSet(table) \ unpolled = writeSockets \ unpolled
  /\ listenFd = "owned" => Listen \in SocketsIn(table)
  /\ Len(table) <= maxFDSize

\* The listen socket is entered in an empty table.
EarlyEmpty == at \in {"stopped", "init", "bind", "name"} => table = <<>>

\* A socket that is handed over or accepted has nothing to send.
ClosedIsEmpty == \A s \in Sockets \ readSockets : unsent[s] = 0

TcpInv == /\ TypeOK /\ OneEach(table) /\ Agree
          /\ cursor # 0 /\ EarlyEmpty /\ ListenReleased
          /\ ClosedIsEmpty /\ UnsentIsWatched
          /\ EventsCounted

LEMMA MatchIsAgree == OneEach(table) /\ Agree <=> SocketsMatch
BY DEF Agree, SocketsMatch, OneEach, ReadSet, WriteSet

LEMMA InvTable ==
  ASSUME TcpInv
  PROVE  /\ GoodTable(table) /\ cursor \in Nat \ {0} /\ eventsCount \in Int
         /\ Cardinality(Reported(table)) \in Nat /\ Len(table) \in Nat
         /\ maxFDSize \in Nat \ {0}
<1>1. table \in Seq(Entries) /\ Len(table) \in Nat
  BY DEF TcpInv, TypeOK, Entries
<1>. QED
  BY <1>1, ReportedFinite, TcpConstants DEF TcpInv, TypeOK, GoodTable

LEMMA EntryKinds ==
  ASSUME NEW s \in Sockets \cup {Listen}
  PROVE  /\ Entry(s) \in Entries /\ Entry(s).socket = s /\ Entry(s).revents = {}
         /\ Entry(s).in = TRUE /\ Entry(s).out = FALSE
         /\ WriteEntry(s) \in Entries /\ WriteEntry(s).socket = s
         /\ WriteEntry(s).revents = {} /\ WriteEntry(s).in = FALSE
         /\ WriteEntry(s).out = TRUE
BY DEF Entry, WriteEntry, Entries

LEMMA InitTcpInv == Init => TcpInv
<1> SUFFICES ASSUME Init PROVE TcpInv
  OBVIOUS
<1>1. TypeOK
  BY TcpConstants DEF Init, TypeOK
<1>2. OneEach(table) /\ Agree
  BY TcpConstants DEF Init, OneEach, Agree, SocketsIn, ReadSet, WriteSet
<1>. QED
  BY <1>1, <1>2 DEF Init, TcpInv, EarlyEmpty, ListenReleased, ClosedIsEmpty, UnsentIsWatched,
     EventsCounted

\* The steps that leave the table, the arrays, the connections and the data
\* alone: starting and stopping, the passes, the peers.
LEMMA QuietStep ==
  ASSUME TcpInv, UNCHANGED <<tableVars, unsent, histories, maxFDSize>>,
         at' \in {"stopped", "init", "bind", "name"} =>
            at \in {"stopped", "init", "bind", "name"},
         at' \in {"stopped", "init", "bind", "name", "idle", "listen", "read", "write",
                  "timeout", "exit"},
         at' = "stopped" => listenFd' = "none",
         port' \in {"none", "any", "given"}, listenFd' \in {"none", "open", "owned"},
         listenFd' = "owned" => listenFd = "owned",
         listenFd' = "open" => at' \in {"bind", "name"},
         eventsCount' \in Int, cursor' \in Nat \ {0}, bExit' \in BOOLEAN,
         conn' \in [Sockets -> {"away", "calling", "open"}],
         \A s \in Sockets : conn'[s] = "open" <=> conn[s] = "open",
         incoming' \in [Sockets -> {"none", "part", "message"}],
         at' \in {"listen", "read", "write"} /\ ~bExit' =>
            eventsCount' >= Cardinality(Reported(table))
  PROVE  TcpInv'
<1>1. /\ table' = table /\ readSockets' = readSockets /\ writeSockets' = writeSockets
      /\ unsent' = unsent /\ displaced' = displaced /\ unpolled' = unpolled
  BY DEF tableVars, histories
<1>2. TypeOK'
  BY <1>1 DEF TcpInv, TypeOK
<1>3. OneEach(table') /\ Agree'
  BY <1>1 DEF TcpInv, Agree
<1>. QED
  BY <1>1, <1>2, <1>3 DEF TcpInv, EarlyEmpty, ListenReleased, ClosedIsEmpty, UnsentIsWatched,
     EventsCounted
-----------------------------------------------------------------------------
(* The passes over the table.                                              *)

LEMMA ClearedTable ==
  ASSUME TcpInv, NEW event, Due(event) # {}, NEW u
  PROVE  /\ Here(event) \in 1..Len(table)
         /\ u = Cleared(event) =>
              /\ GoodTable(u) /\ SameWatch(table, u)
              /\ \A j \in 1..Len(table) : u[j].socket = table[j].socket
              /\ Cardinality(Reported(u)) = Cardinality(Reported(table)) - 1
<1>1. /\ Here(event) \in 1..Len(table) /\ event \in table[Here(event)].revents
      /\ GoodTable(table)
  BY InvTable, HereFound
<1>. QED
  BY <1>1, ClearEvent DEF Cleared

LEMMA ClearedListen ==
  ASSUME TcpInv, ListenReported, NEW u
  PROVE  u = ClearListen(table) =>
           /\ GoodTable(u) /\ SameWatch(table, u)
           /\ Cardinality(Reported(u)) = Cardinality(Reported(table)) - 1
<1>1. Listen \in SocketsIn(table)
  BY DEF TcpInv, Agree, ListenReported
<1>2. /\ IndexOf(table, Listen) \in 1..Len(table) /\ table[IndexOf(table, Listen)].revents # {}
      /\ GoodTable(table)
  BY <1>1, IndexFound, InvTable DEF ListenReported
<1>. QED
  BY <1>2, ClearEvent DEF ClearListen

\* A step of a pass serves one reported entry and counts one event.
LEMMA PassStep ==
  ASSUME TcpInv, at \in {"listen", "read", "write"},
         eventsCount' = eventsCount - 1, cursor' \in Nat \ {0},
         UNCHANGED <<listenVars, at, bExit>>,
         GoodTable(table'),
         Cardinality(Reported(table')) <= Cardinality(Reported(table)) - 1,
         Agree',
         writeSockets' \subseteq readSockets',
         conn' \in [Sockets -> {"away", "calling", "open"}],
         incoming' \in [Sockets -> {"none", "part", "message"}],
         unsent' \in [Sockets -> 0..MaxUnsent],
         displaced' \subseteq readSockets', unpolled' \subseteq readSockets',
         ClosedIsEmpty', UnsentIsWatched'
  PROVE  TcpInv'
<1>1. /\ maxFDSize' = maxFDSize /\ port' = port /\ listenFd' = listenFd
      /\ at' = at /\ bExit' = bExit
  BY DEF listenVars
<1>2. TypeOK'
  BY <1>1 DEF TcpInv, TypeOK, GoodTable, Agree, Entries
<1>3. OneEach(table') /\ EarlyEmpty' /\ ListenReleased'
  BY <1>1 DEF GoodTable, EarlyEmpty, ListenReleased, TcpInv
<1>4. EventsCounted'
  <2>1. /\ Cardinality(Reported(table)) \in Nat /\ Cardinality(Reported(table')) \in Nat
        /\ eventsCount \in Int
    BY InvTable, ReportedFinite DEF GoodTable
  <2>2. ~bExit => eventsCount >= Cardinality(Reported(table))
    BY DEF TcpInv, EventsCounted
  <2>. QED
    BY <1>1, <2>1, <2>2 DEF EventsCounted
<1>. QED
  BY <1>2, <1>3, <1>4 DEF TcpInv

LEMMA ServedCounts ==
  ASSUME TcpInv, NEW event, Due(event) # {}, Served(event)
  PROVE  eventsCount' = eventsCount - 1 /\ cursor' \in Nat \ {0}
         /\ UNCHANGED <<listenVars, at, bExit>>
<1>1. Here(event) \in 1..Len(table) /\ Len(table) \in Nat
  BY ClearedTable, InvTable
<1>. QED
  BY <1>1 DEF Served

\* AddWrite: what CheckWriteOperation does to the table and the write array.
LEMMA AddWriteTable ==
  ASSUME NEW t, GoodTable(t), Len(t) <= maxFDSize, maxFDSize \in Nat,
         NEW s \in Sockets, AddWrite(t, s)
  PROVE  /\ GoodTable(table') /\ Len(table') <= maxFDSize
         /\ SocketsIn(t) \subseteq SocketsIn(table')
         /\ SocketsIn(table') \subseteq SocketsIn(t) \cup {s}
         /\ ReadSet(table') = ReadSet(t)
         /\ WriteSet(t) \subseteq WriteSet(table')
         /\ WriteSet(table') \subseteq WriteSet(t) \cup {s}
         /\ s \in SocketsIn(t) /\ s \notin writeSockets => s \in WriteSet(table')
         /\ Reported(table') = Reported(t)
         /\ writeSockets' = writeSockets \cup {s}
<1>0. writeSockets' = writeSockets \cup {s} /\ Len(t) \in Nat
  BY DEF AddWrite, GoodTable
<1>1. CASE s \in writeSockets
  <2>1. table' = t
    BY <1>1 DEF AddWrite
  <2>. QED
    BY <1>0, <1>1, <2>1
<1>2. CASE s \notin writeSockets /\ s \in SocketsIn(t)
  <2>1. IndexOf(t, s) \in 1..Len(t) /\ t[IndexOf(t, s)].socket = s
    BY <1>2, IndexFound
  <2>2. table' = PollFDEnable(t, IndexOf(t, s))
    BY <1>2 DEF AddWrite
  <2>3. /\ GoodTable(table') /\ Len(table') = Len(t)
        /\ SocketsIn(table') = SocketsIn(t) /\ ReadSet(table') = ReadSet(t)
        /\ WriteSet(table') = WriteSet(t) \cup {s} /\ Reported(table') = Reported(t)
    BY <2>1, <2>2, EnableEntry
  <2>. QED
    BY <1>0, <1>2, <2>3
<1>3. CASE s \notin writeSockets /\ s \notin SocketsIn(t) /\ Len(t) < maxFDSize
  <2> DEFINE e == WriteEntry(s)
  <2>1. table' = Append(t, e)
    BY <1>3 DEF AddWrite, PollFDAdd
  <2>2. e \in Entries /\ e.socket = s /\ e.revents = {} /\ ~e.in /\ e.out
    BY EntryKinds
  <2> HIDE DEF e
  <2>3. Added(t, e, table')
    BY <1>3, <2>1, <2>2, AddEntry, Zenon
  <2>. QED
    BY <1>0, <1>3, <2>2, <2>3 DEF Added
<1>4. CASE s \notin writeSockets /\ s \notin SocketsIn(t) /\ ~(Len(t) < maxFDSize)
  <2>1. table' = t
    BY <1>4 DEF AddWrite, PollFDAdd
  <2>. QED
    BY <1>0, <1>4, <2>1
<1>. QED
  BY <1>1, <1>2, <1>3, <1>4
-----------------------------------------------------------------------------
(* The steps.                                                              *)

LEMMA StepQuiet ==
  ASSUME TcpInv
  PROVE  /\ Start => TcpInv'
         /\ EndThread => TcpInv'
         /\ \A p \in {"none", "any", "given"} : SetListenPortNumber(p) => TcpInv'
         /\ InitInstance => TcpInv'
         /\ BindListenSocket => TcpInv'
         /\ LeaveRun => TcpInv'
         /\ PollFails => TcpInv'
         /\ EndRound => TcpInv'
         /\ CloseListenSocket => TcpInv'
         /\ \A s \in Sockets : Call(s) \/ HangUp(s) \/ Arrive(s) => TcpInv'
         /\ UNCHANGED vars => TcpInv'
<1> USE DEF listenVars, tableVars, threadVars, netVars, histories
<1>0. /\ cursor \in Nat \ {0} /\ eventsCount \in Int /\ bExit \in BOOLEAN
      /\ port \in {"none", "any", "given"} /\ listenFd \in {"none", "open", "owned"}
      /\ conn \in [Sockets -> {"away", "calling", "open"}]
      /\ incoming \in [Sockets -> {"none", "part", "message"}]
      /\ at \in {"stopped", "init", "bind", "name", "idle", "listen", "read", "write",
                 "timeout", "exit"}
      /\ at = "stopped" => listenFd = "none"
      /\ listenFd = "open" => at \in {"bind", "name"}
      /\ at \in {"listen", "read", "write"} /\ ~bExit =>
           eventsCount >= Cardinality(Reported(table))
  BY InvTable DEF TcpInv, TypeOK, ListenReleased, EventsCounted
<1>1. ASSUME Start PROVE TcpInv'
  BY <1>0, <1>1, QuietStep DEF Start
<1>2. ASSUME EndThread PROVE TcpInv'
  BY <1>0, <1>2, QuietStep DEF EndThread
<1>3. ASSUME NEW p \in {"none", "any", "given"}, SetListenPortNumber(p) PROVE TcpInv'
  BY <1>0, <1>3, QuietStep DEF SetListenPortNumber
<1>4. ASSUME InitInstance PROVE TcpInv'
  BY <1>0, <1>4, QuietStep DEF InitInstance
<1>5. ASSUME BindListenSocket PROVE TcpInv'
  BY <1>0, <1>5, QuietStep DEF BindListenSocket
<1>6. ASSUME LeaveRun PROVE TcpInv'
  BY <1>0, <1>6, QuietStep DEF LeaveRun
<1>7. ASSUME PollFails PROVE TcpInv'
  BY <1>0, <1>7, QuietStep DEF PollFails
<1>8. ASSUME EndRound PROVE TcpInv'
  BY <1>0, <1>8, QuietStep DEF EndRound
<1>9. ASSUME CloseListenSocket PROVE TcpInv'
  BY <1>0, <1>9, QuietStep DEF CloseListenSocket
<1>10. ASSUME NEW s \in Sockets, Call(s) \/ HangUp(s) PROVE TcpInv'
  BY <1>0, <1>10, QuietStep DEF Call, HangUp
<1>11. ASSUME NEW s \in Sockets, Arrive(s) PROVE TcpInv'
  BY <1>0, <1>11, QuietStep DEF Arrive
<1>12. ASSUME UNCHANGED vars PROVE TcpInv'
  BY <1>0, <1>12, QuietStep DEF vars
<1>. QED
  BY <1>1, <1>2, <1>3, <1>4, <1>5, <1>6, <1>7, <1>8, <1>9, <1>10, <1>11, <1>12

\* The events a pass leaves are those that are counted.
LEMMA StepPass ==
  ASSUME TcpInv, NEW from \in {"listen", "read", "write"},
         NEW to \in {"read", "write", "timeout"}, Pass(from, to)
  PROVE  TcpInv'
<1> USE DEF listenVars, tableVars, threadVars, netVars, histories
<1>1. /\ eventsCount \in Int /\ bExit \in BOOLEAN
      /\ port \in {"none", "any", "given"} /\ listenFd \in {"none", "open", "owned"}
      /\ conn \in [Sockets -> {"away", "calling", "open"}]
      /\ incoming \in [Sockets -> {"none", "part", "message"}]
      /\ listenFd = "open" => at \in {"bind", "name"}
      /\ at \in {"listen", "read", "write"} /\ ~bExit =>
           eventsCount >= Cardinality(Reported(table))
  BY InvTable DEF TcpInv, TypeOK, ListenReleased, EventsCounted
<1>2. at' \in {"idle", "read", "write", "timeout"} /\ (at' \in {"read", "write"} => ~bExit)
      /\ cursor' \in Nat \ {0} /\ listenFd # "open"
  BY <1>1 DEF Pass
<1>. QED
  BY <1>1, <1>2, QuietStep DEF Pass

LEMMA StepOwnListenSocket == TcpInv /\ OwnListenSocket => TcpInv'
<1> SUFFICES ASSUME TcpInv, OwnListenSocket PROVE TcpInv'
  OBVIOUS
<1> USE DEF listenVars, tableVars, threadVars, netVars, histories
<1>1. CASE at' = "exit"
  <2>1. /\ cursor \in Nat \ {0} /\ eventsCount \in Int /\ bExit \in BOOLEAN
        /\ conn \in [Sockets -> {"away", "calling", "open"}]
        /\ incoming \in [Sockets -> {"none", "part", "message"}]
        /\ port \in {"none", "any", "given"}
    BY InvTable DEF TcpInv, TypeOK
  <2>. QED
    BY <1>1, <2>1, QuietStep DEF OwnListenSocket
<1>2. CASE at' = "idle"
  <2> DEFINE e == Entry(Listen)
  <2>1. /\ e \in Entries /\ e.socket = Listen /\ e.revents = {} /\ e.in /\ ~e.out
    BY EntryKinds
  <2>2. table' = Append(table, e) /\ table = <<>>
    BY <1>2 DEF OwnListenSocket, TcpInv, EarlyEmpty
  <2>3. Listen \notin SocketsIn(table) /\ Len(table) = 0
    BY <2>2 DEF SocketsIn
  <2>4. GoodTable(table) /\ maxFDSize \in Nat \ {0}
    BY InvTable
  <2> HIDE DEF e
  <2>5. Added(table, e, table')
    BY <2>1, <2>2, <2>3, <2>4, AddEntry, Zenon
  <2>6. UNCHANGED <<maxFDSize, readSockets, writeSockets, eventsCount, bExit, cursor,
                    conn, incoming, unsent, displaced, unpolled>>
        /\ port' = "given" /\ listenFd' = "owned"
    BY <1>2 DEF OwnListenSocket
  <2>7. TypeOK'
    BY <1>2, <2>5, <2>6 DEF TcpInv, TypeOK, Added, GoodTable, Entries
  <2>8. OneEach(table') /\ Agree'
    <3>1. /\ GoodTable(table') /\ Len(table') = 1
          /\ SocketsIn(table') = SocketsIn(table) \cup {Listen}
          /\ ReadSet(table') = ReadSet(table) \cup {Listen}
          /\ WriteSet(table') = WriteSet(table)
      BY <2>1, <2>3, <2>5 DEF Added
    <3>. QED
      BY <2>4, <2>6, <3>1 DEF TcpInv, Agree, GoodTable
  <2>. QED
    BY <1>2, <2>6, <2>7, <2>8 DEF TcpInv, EarlyEmpty, ListenReleased, ClosedIsEmpty,
       UnsentIsWatched, EventsCounted
<1>. QED
  BY <1>1, <1>2 DEF OwnListenSocket

LEMMA StepExitInstance == TcpInv /\ ExitInstance => TcpInv'
<1> SUFFICES ASSUME TcpInv, ExitInstance PROVE TcpInv'
  OBVIOUS
<1>1. /\ maxFDSize \in MaxFDSizes /\ maxFDSize \in Nat \ {0}
      /\ port \in {"none", "any", "given"} /\ listenFd \in {"none", "open", "owned"}
      /\ listenFd # "open" /\ bExit \in BOOLEAN /\ cursor \in Nat \ {0}
  BY InvTable DEF TcpInv, TypeOK, ListenReleased, ExitInstance
<1>2. /\ UNCHANGED <<maxFDSize, port, bExit, cursor>>
      /\ listenFd' = "none" /\ at' = "stopped"
  BY <1>1 DEF ExitInstance
<1>3. TypeOK'
  BY <1>1, <1>2, TcpConstants DEF ExitInstance, TypeOK
<1>4. OneEach(table') /\ Agree'
  BY <1>1, <1>2 DEF ExitInstance, OneEach, Agree, SocketsIn, ReadSet, WriteSet
<1>. QED
  BY <1>1, <1>2, <1>3, <1>4 DEF ExitInstance, TcpInv, EarlyEmpty, ListenReleased,
     ClosedIsEmpty, UnsentIsWatched, EventsCounted

\* poll only writes the events of the table.
LEMMA StepPoll ==
  ASSUME TcpInv, PollTimeout \/ \E room \in SUBSET Sockets : PollReady(room)
  PROVE  TcpInv'
<1> USE DEF listenVars, netVars, histories
<1>1. GoodTable(table') /\ SameWatch(table, table')
  <2>1. GoodTable(table)
    BY InvTable
  <2>2. PICK room : table' = Polled(room)
    BY DEF PollTimeout, PollReady
  <2>. QED
    BY <2>1, <2>2, PollEntries
<1>2. Len(table') \in Nat /\ Cardinality(Reported(table')) \in Nat
  BY <1>1, ReportedFinite DEF GoodTable
<1>3. /\ UNCHANGED <<listenVars, readSockets, writeSockets, bExit, cursor, netVars, histories>>
      /\ at = "idle"
      /\ \/ at' = "timeout" /\ eventsCount' = 0
         \/ at' = "listen" /\ eventsCount' = Cardinality(Reported(table'))
  BY DEF PollTimeout, PollReady
<1>4. TypeOK'
  BY <1>1, <1>2, <1>3 DEF TcpInv, TypeOK, GoodTable, Entries
<1>5. OneEach(table') /\ Agree'
  BY <1>1, <1>3 DEF TcpInv, Agree, GoodTable, SameWatch
<1>6. EventsCounted'
  BY <1>2, <1>3 DEF EventsCounted
<1>. QED
  BY <1>3, <1>4, <1>5, <1>6 DEF TcpInv, EarlyEmpty, ListenReleased, ClosedIsEmpty,
     UnsentIsWatched

\* What the invariant says of the arrays, for the steps that change them.
LEMMA ArrayFacts ==
  ASSUME TcpInv
  PROVE  /\ readSockets \subseteq Sockets /\ writeSockets \subseteq readSockets
         /\ displaced \subseteq readSockets /\ unpolled \subseteq readSockets
         /\ conn \in [Sockets -> {"away", "calling", "open"}]
         /\ incoming \in [Sockets -> {"none", "part", "message"}]
         /\ unsent \in [Sockets -> 0..MaxUnsent]
         /\ \A s \in Sockets : s \in readSockets <=> conn[s] = "open"
         /\ Listen \notin Sockets
         /\ Agree /\ ClosedIsEmpty /\ UnsentIsWatched
BY TcpConstants DEF TcpInv, TypeOK, Agree

LEMMA StepAcceptFails == TcpInv /\ AcceptFails => TcpInv'
<1> SUFFICES ASSUME TcpInv, AcceptFails PROVE TcpInv'
  OBVIOUS
<1> USE DEF netVars, histories
<1>1. /\ GoodTable(table') /\ SameWatch(table, table')
      /\ Cardinality(Reported(table')) = Cardinality(Reported(table)) - 1
  BY ClearedListen DEF AcceptFails
<1>2. Agree'
  BY <1>1, ArrayFacts DEF AcceptFails, Agree, SameWatch, listenVars
<1>3. Cardinality(Reported(table')) <= Cardinality(Reported(table)) - 1
      /\ cursor \in Nat \ {0}
  BY <1>1, InvTable
<1>. QED
  BY <1>1, <1>2, <1>3, ArrayFacts, PassStep DEF AcceptFails, ClosedIsEmpty, UnsentIsWatched

\* A connection that is taken is new to the arrays and the table.
LEMMA StepProcessConnection ==
  ASSUME TcpInv, NEW c \in Sockets, ProcessConnection(c)
  PROVE  TcpInv'
<1> USE DEF netVars, histories
<1> DEFINE u == ClearListen(table)
<1>1. /\ GoodTable(u) /\ SameWatch(table, u)
      /\ Cardinality(Reported(u)) = Cardinality(Reported(table)) - 1
  BY ClearedListen DEF ProcessConnection
<1>2. c \notin readSockets /\ c # Listen /\ c \notin SocketsIn(table)
      /\ c \notin unpolled /\ c \notin displaced /\ c \notin writeSockets
  BY ArrayFacts DEF ProcessConnection, Agree
<1>3. /\ at = "listen" /\ eventsCount' = eventsCount - 1 /\ cursor' \in Nat \ {0}
      /\ UNCHANGED <<listenVars, writeSockets, bExit, at, unsent, displaced, unpolled>>
  BY InvTable DEF ProcessConnection
<1>4. CASE HasRoom /\ table' = Append(ClearListen(table), Entry(c))
           /\ readSockets' = readSockets \cup {c} /\ conn' = [conn EXCEPT ![c] = "open"]
           /\ UNCHANGED incoming
  <2> DEFINE e == Entry(c)
  <2>1. /\ e \in Entries /\ e.socket = c /\ e.revents = {} /\ e.in /\ ~e.out
    BY EntryKinds
  <2>2. table' = Append(u, e)
    BY <1>4
  <2>3. c \notin SocketsIn(u)
    BY <1>1, <1>2 DEF SameWatch
  <2> HIDE DEF e, u
  <2>4. Added(u, e, table')
    BY <1>1, <2>1, <2>2, <2>3, AddEntry, Zenon
  <2>5. /\ GoodTable(table') /\ Len(table') = Len(table) + 1
        /\ SocketsIn(table') = SocketsIn(table) \cup {c}
        /\ ReadSet(table') = ReadSet(table) \cup {c}
        /\ WriteSet(table') = WriteSet(table)
        /\ Cardinality(Reported(table')) = Cardinality(Reported(table)) - 1
    BY <1>1, <2>1, <2>4 DEF Added, SameWatch
  <2>6. Agree'
    BY <1>2, <1>3, <1>4, <2>5, ArrayFacts, InvTable DEF Agree, HasRoom, listenVars
  <2>7. Cardinality(Reported(table')) <= Cardinality(Reported(table)) - 1
    BY <2>5, InvTable
  <2>8. ClosedIsEmpty' /\ UnsentIsWatched'
    BY <1>2, <1>3, <1>4, ArrayFacts DEF ClosedIsEmpty, UnsentIsWatched
  <2>9. /\ writeSockets' \subseteq readSockets' /\ displaced' \subseteq readSockets'
        /\ unpolled' \subseteq readSockets'
        /\ conn' \in [Sockets -> {"away", "calling", "open"}]
        /\ incoming' \in [Sockets -> {"none", "part", "message"}]
        /\ unsent' \in [Sockets -> 0..MaxUnsent]
    BY <1>3, <1>4, ArrayFacts
  <2>. QED
    BY <1>3, <2>5, <2>6, <2>7, <2>8, <2>9, PassStep
<1>5. CASE table' = ClearListen(table) /\ conn' = [conn EXCEPT ![c] = "away"]
           /\ Forget(c) /\ UNCHANGED readSockets
  <2>1. /\ GoodTable(table') /\ SameWatch(table, table')
        /\ Cardinality(Reported(table')) <= Cardinality(Reported(table)) - 1
    BY <1>1, <1>5, InvTable
  <2>2. \A s \in Sockets : conn'[s] = "open" <=> conn[s] = "open"
    BY <1>2, <1>5, ArrayFacts
  <2>3. Agree'
    BY <1>3, <1>5, <2>1, <2>2, ArrayFacts DEF Agree, SameWatch, listenVars
  <2>4. ClosedIsEmpty' /\ UnsentIsWatched'
    BY <1>3, <1>5, ArrayFacts DEF ClosedIsEmpty, UnsentIsWatched
  <2>5. /\ writeSockets' \subseteq readSockets' /\ displaced' \subseteq readSockets'
        /\ unpolled' \subseteq readSockets'
        /\ conn' \in [Sockets -> {"away", "calling", "open"}]
        /\ incoming' \in [Sockets -> {"none", "part", "message"}]
        /\ unsent' \in [Sockets -> 0..MaxUnsent]
    BY <1>3, <1>5, ArrayFacts DEF Forget
  <2>. QED
    BY <1>3, <2>1, <2>3, <2>4, <2>5, PassStep
<1>. QED
  BY <1>4, <1>5 DEF ProcessConnection

\* What holds in every step that serves an event.
LEMMA ServingFacts ==
  ASSUME TcpInv, NEW pass \in {"read", "write"}, NEW event, NEW s \in Sockets,
         Serving(pass, event, s), Served(event)
  PROVE  /\ s \in SocketsIn(table) /\ s \in readSockets /\ Here(event) \in 1..Len(table)
         /\ table[Here(event)].socket = s
         /\ at \in {"read", "write"} /\ eventsCount' = eventsCount - 1
         /\ cursor' \in Nat \ {0}
         /\ UNCHANGED <<listenVars, at, bExit>>
         /\ maxFDSize' = maxFDSize /\ listenFd' = listenFd
<1>1. Due(event) # {} /\ s = table[Here(event)].socket /\ at \in {"read", "write"}
  BY DEF Serving
<1>2. Here(event) \in 1..Len(table)
  BY <1>1, ClearedTable
<1>3. s \in SocketsIn(table)
  BY <1>1, <1>2 DEF SocketsIn
<1>4. s \in readSockets
  BY <1>3, ArrayFacts DEF Agree
<1>. QED
  BY <1>1, <1>2, <1>3, <1>4, ServedCounts DEF listenVars

LEMMA StepReceivePart ==
  ASSUME TcpInv, NEW s \in Sockets, ReceivePart(s)
  PROVE  TcpInv'
<1> USE DEF histories
<1>1. Serving("read", "in", s) /\ Served("in") /\ Due("in") # {} /\ table' = Cleared("in")
  BY DEF ReceivePart, Serving
<1>2. /\ GoodTable(table') /\ SameWatch(table, table')
      /\ Cardinality(Reported(table')) <= Cardinality(Reported(table)) - 1
  BY <1>1, ClearedTable, InvTable
<1>3. /\ at \in {"read", "write"} /\ eventsCount' = eventsCount - 1 /\ cursor' \in Nat \ {0}
      /\ UNCHANGED <<listenVars, at, bExit>> /\ maxFDSize' = maxFDSize /\ listenFd' = listenFd
  BY <1>1, ServingFacts
<1>4. Agree'
  BY <1>2, <1>3, ArrayFacts DEF ReceivePart, Agree, SameWatch
<1>5. incoming' \in [Sockets -> {"none", "part", "message"}]
  BY ArrayFacts DEF ReceivePart, Forget
<1>. QED
  BY <1>2, <1>3, <1>4, <1>5, ArrayFacts, PassStep DEF ReceivePart, ClosedIsEmpty, UnsentIsWatched

\* ReceiveFails and WriteFails: the socket leaves the table and both arrays.
LEMMA StepSocketFails ==
  ASSUME TcpInv, NEW pass \in {"read", "write"}, NEW event, NEW s \in Sockets,
         Serving(pass, event, s), CloseSocket(Cleared(event), s), Forget(s), Served(event)
  PROVE  TcpInv'
<1> DEFINE u == Cleared(event)
<1>1. Due(event) # {} /\ table' = PollFDDelete(u, s)
  BY DEF Serving, CloseSocket
<1>2. /\ GoodTable(u) /\ SameWatch(table, u)
      /\ Cardinality(Reported(u)) = Cardinality(Reported(table)) - 1
  BY <1>1, ClearedTable
<1> HIDE DEF u
<1>3. /\ GoodTable(table') /\ Len(table') <= Len(u) /\ SocketsIn(table') = SocketsIn(u) \ {s}
      /\ ReadSet(table') = ReadSet(u) \ {s} /\ WriteSet(table') = WriteSet(u) \ {s}
      /\ Cardinality(Reported(table')) <= Cardinality(Reported(u))
  BY <1>1, <1>2, DeleteEntry
<1>4. Cardinality(Reported(table')) <= Cardinality(Reported(table)) - 1
      /\ Len(table') <= Len(table)
  BY <1>2, <1>3 DEF SameWatch
<1>5. /\ s \in readSockets
      /\ at \in {"read", "write"} /\ eventsCount' = eventsCount - 1 /\ cursor' \in Nat \ {0}
      /\ UNCHANGED <<listenVars, at, bExit>> /\ maxFDSize' = maxFDSize /\ listenFd' = listenFd
  BY ServingFacts
<1>6. /\ readSockets' = readSockets \ {s} /\ writeSockets' = writeSockets \ {s}
      /\ displaced' = displaced \ {s} /\ unpolled' = unpolled \ {s}
      /\ conn' = [conn EXCEPT ![s] = "away"] /\ unsent' = [unsent EXCEPT ![s] = 0]
      /\ incoming' = [incoming EXCEPT ![s] = "none"]
  BY DEF CloseSocket, Forget
<1>7. Agree'
  <2>1. readSockets' = {x \in Sockets : conn'[x] = "open"}
    BY <1>6, ArrayFacts
  <2>2. /\ SocketsIn(table') \subseteq readSockets' \cup {Listen}
        /\ listenFd' = "owned" => Listen \in SocketsIn(table')
    BY <1>2, <1>3, <1>5, <1>6, ArrayFacts DEF Agree, SameWatch
  <2>3. ReadSet(table') \ {Listen} = readSockets' \ unpolled'
    BY <1>2, <1>3, <1>6, ArrayFacts DEF Agree, SameWatch
  <2>4. WriteSet(table') \ unpolled' = writeSockets' \ unpolled'
    BY <1>2, <1>3, <1>6, ArrayFacts DEF Agree, SameWatch
  <2>5. Len(table') <= maxFDSize'
    BY <1>3, <1>4, <1>5, ArrayFacts, InvTable DEF Agree, GoodTable
  <2>. QED
    BY <2>1, <2>2, <2>3, <2>4, <2>5 DEF Agree
<1>8. ClosedIsEmpty' /\ UnsentIsWatched'
  BY <1>6, ArrayFacts DEF ClosedIsEmpty, UnsentIsWatched
<1>9. /\ writeSockets' \subseteq readSockets' /\ displaced' \subseteq readSockets'
      /\ unpolled' \subseteq readSockets'
      /\ conn' \in [Sockets -> {"away", "calling", "open"}]
      /\ incoming' \in [Sockets -> {"none", "part", "message"}]
      /\ unsent' \in [Sockets -> 0..MaxUnsent]
  BY <1>6, ArrayFacts, TcpConstants
<1>. QED
  BY <1>3, <1>4, <1>5, <1>7, <1>8, <1>9, PassStep

\* The write array and the write events grow by the same socket, or the table
\* has no place for a socket that is not in it.
LEMMA AddWriteAgrees ==
  ASSUME TcpInv, NEW t, GoodTable(t), SameWatch(table, t),
         NEW s \in readSockets, AddWrite(t, s),
         UNCHANGED <<readSockets, conn, unpolled, maxFDSize, listenFd>>
  PROVE  /\ GoodTable(table') /\ Reported(table') = Reported(t) /\ Agree'
         /\ writeSockets' = writeSockets \cup {s}
<1>1. s \in Sockets /\ maxFDSize \in Nat /\ Len(t) <= maxFDSize
  BY ArrayFacts, InvTable DEF Agree, SameWatch
<1>2. /\ GoodTable(table') /\ Len(table') <= maxFDSize
      /\ SocketsIn(t) \subseteq SocketsIn(table')
      /\ SocketsIn(table') \subseteq SocketsIn(t) \cup {s}
      /\ ReadSet(table') = ReadSet(t)
      /\ WriteSet(t) \subseteq WriteSet(table')
      /\ WriteSet(table') \subseteq WriteSet(t) \cup {s}
      /\ s \in SocketsIn(t) /\ s \notin writeSockets => s \in WriteSet(table')
      /\ Reported(table') = Reported(t)
      /\ writeSockets' = writeSockets \cup {s}
  BY <1>1, AddWriteTable
<1>3. s \notin unpolled => s \in SocketsIn(t)
  <2>1. ReadSet(table) \subseteq SocketsIn(table)
    BY DEF ReadSet, SocketsIn
  <2>. QED
    BY <2>1, ArrayFacts DEF Agree, SameWatch
<1>4. WriteSet(table') \ unpolled = writeSockets' \ unpolled
  BY <1>2, <1>3, ArrayFacts DEF Agree, SameWatch
<1>5. Agree'
  BY <1>2, <1>4, ArrayFacts DEF Agree, SameWatch
<1>. QED
  BY <1>2, <1>5

\* Whatever is left unsent, its socket is in the write array.
LEMMA StepOnMessage ==
  ASSUME TcpInv, NEW s \in Sockets, NEW left \in 0..MaxUnsent, OnMessage(s, left)
  PROVE  TcpInv'
<1> DEFINE u == Cleared("in")
<1>1. Serving("read", "in", s) /\ Served("in") /\ Due("in") # {}
  BY DEF OnMessage, Serving
<1>2. /\ GoodTable(u) /\ SameWatch(table, u)
      /\ Cardinality(Reported(u)) <= Cardinality(Reported(table)) - 1
  BY <1>1, ClearedTable, InvTable
<1>3. /\ s \in readSockets
      /\ at \in {"read", "write"} /\ eventsCount' = eventsCount - 1 /\ cursor' \in Nat \ {0}
      /\ UNCHANGED <<listenVars, at, bExit>> /\ maxFDSize' = maxFDSize /\ listenFd' = listenFd
  BY <1>1, ServingFacts
<1>4. /\ unsent' = [unsent EXCEPT ![s] = left] /\ incoming' = [incoming EXCEPT ![s] = "none"]
      /\ displaced' = displaced \ {s}
      /\ UNCHANGED <<readSockets, conn, unpolled>>
      /\ \/ left > 0 /\ AddWrite(u, s)
         \/ ~(left > 0) /\ table' = u /\ writeSockets' = writeSockets
  BY DEF OnMessage, Forget
<1> HIDE DEF u
<1>5. /\ GoodTable(table') /\ Reported(table') = Reported(u) /\ Agree'
      /\ writeSockets \subseteq writeSockets' /\ writeSockets' \subseteq readSockets
      /\ left > 0 => s \in writeSockets'
  <2>1. CASE left > 0 /\ AddWrite(u, s)
    BY <1>2, <1>3, <1>4, <2>1, AddWriteAgrees, ArrayFacts
  <2>2. CASE ~(left > 0) /\ table' = u /\ writeSockets' = writeSockets
    BY <1>2, <1>3, <1>4, <2>2, ArrayFacts DEF Agree, SameWatch
  <2>. QED
    BY <1>4, <2>1, <2>2
<1>6. UnsentIsWatched' /\ ClosedIsEmpty'
  <2>1. \A x \in readSockets' \ displaced' : unsent'[x] > 0 => x \in writeSockets'
    BY <1>4, <1>5, ArrayFacts DEF UnsentIsWatched
  <2>2. \A x \in Sockets \ readSockets' : unsent'[x] = 0
    BY <1>3, <1>4, ArrayFacts DEF ClosedIsEmpty
  <2>. QED
    BY <2>1, <2>2 DEF UnsentIsWatched, ClosedIsEmpty
<1>7. /\ writeSockets' \subseteq readSockets' /\ displaced' \subseteq readSockets'
      /\ unpolled' \subseteq readSockets'
      /\ conn' \in [Sockets -> {"away", "calling", "open"}]
      /\ incoming' \in [Sockets -> {"none", "part", "message"}]
      /\ unsent' \in [Sockets -> 0..MaxUnsent]
  BY <1>4, <1>5, ArrayFacts
<1>. QED
  BY <1>2, <1>3, <1>5, <1>6, <1>7, PassStep

\* The write event and the entry in the write array go together.
LEMMA StepDoWrite ==
  ASSUME TcpInv, NEW s \in Sockets, NEW left \in 0..MaxUnsent, DoWrite(s, left)
  PROVE  TcpInv'
<1> DEFINE u == Cleared("out")
<1>1. Serving("write", "out", s) /\ Served("out") /\ Due("out") # {}
  BY DEF DoWrite, Serving
<1>2. /\ GoodTable(u) /\ SameWatch(table, u)
      /\ Cardinality(Reported(u)) <= Cardinality(Reported(table)) - 1
      /\ Here("out") \in 1..Len(u) /\ u[Here("out")].socket = s
  BY <1>1, ClearedTable, InvTable, ServingFacts DEF SameWatch
<1>3. /\ s \in readSockets
      /\ at \in {"read", "write"} /\ eventsCount' = eventsCount - 1 /\ cursor' \in Nat \ {0}
      /\ UNCHANGED <<listenVars, at, bExit>> /\ maxFDSize' = maxFDSize /\ listenFd' = listenFd
  BY <1>1, ServingFacts
<1>4. /\ unsent' = [unsent EXCEPT ![s] = left]
      /\ UNCHANGED <<readSockets, conn, incoming, displaced, unpolled>>
      /\ \/ left > 0 /\ left < unsent[s] /\ table' = u /\ writeSockets' = writeSockets
         \/ left = 0 /\ table' = PollFDDisable(u, Here("out"))
            /\ writeSockets' = writeSockets \ {s}
  BY DEF DoWrite, histories
<1> HIDE DEF u
<1>5. /\ GoodTable(table') /\ Reported(table') = Reported(u) /\ Agree'
      /\ writeSockets' \subseteq readSockets
  <2>1. CASE table' = u /\ writeSockets' = writeSockets
    BY <1>2, <1>3, <1>4, <2>1, ArrayFacts DEF Agree, SameWatch
  <2>2. CASE table' = PollFDDisable(u, Here("out")) /\ writeSockets' = writeSockets \ {s}
    <3>1. /\ GoodTable(table') /\ Len(table') = Len(u)
          /\ SocketsIn(table') = SocketsIn(u) /\ ReadSet(table') = ReadSet(u)
          /\ WriteSet(table') = WriteSet(u) \ {s} /\ Reported(table') = Reported(u)
      BY <1>2, <2>2, DisableEntry
    <3>. QED
      BY <1>2, <1>3, <1>4, <2>2, <3>1, ArrayFacts DEF Agree, SameWatch
  <2>. QED
    BY <1>4, <2>1, <2>2
<1>6. UnsentIsWatched' /\ ClosedIsEmpty'
  <2>1. \A x \in readSockets' \ displaced' : unsent'[x] > 0 => x \in writeSockets'
    BY <1>3, <1>4, ArrayFacts DEF UnsentIsWatched
  <2>2. \A x \in Sockets \ readSockets' : unsent'[x] = 0
    BY <1>3, <1>4, ArrayFacts DEF ClosedIsEmpty
  <2>. QED
    BY <2>1, <2>2 DEF UnsentIsWatched, ClosedIsEmpty
<1>7. /\ writeSockets' \subseteq readSockets' /\ displaced' \subseteq readSockets'
      /\ unpolled' \subseteq readSockets'
      /\ conn' \in [Sockets -> {"away", "calling", "open"}]
      /\ incoming' \in [Sockets -> {"none", "part", "message"}]
      /\ unsent' \in [Sockets -> 0..MaxUnsent]
  BY <1>4, <1>5, ArrayFacts
<1>. QED
  BY <1>2, <1>3, <1>5, <1>6, <1>7, PassStep

\* In the timeout pass no event is due.
LEMMA TimeoutStep ==
  ASSUME TcpInv, at = "timeout", UNCHANGED <<listenVars, threadVars>>,
         GoodTable(table'), Agree',
         writeSockets' \subseteq readSockets',
         conn' \in [Sockets -> {"away", "calling", "open"}],
         incoming' \in [Sockets -> {"none", "part", "message"}],
         unsent' \in [Sockets -> 0..MaxUnsent],
         displaced' \subseteq readSockets', unpolled' \subseteq readSockets',
         ClosedIsEmpty', UnsentIsWatched'
  PROVE  TcpInv'
<1>1. /\ maxFDSize' = maxFDSize /\ port' = port /\ listenFd' = listenFd
      /\ at' = at /\ bExit' = bExit /\ eventsCount' = eventsCount /\ cursor' = cursor
  BY DEF listenVars, threadVars
<1>2. TypeOK'
  BY <1>1 DEF TcpInv, TypeOK, GoodTable, Agree, Entries
<1>3. OneEach(table') /\ EarlyEmpty' /\ ListenReleased' /\ EventsCounted'
  BY <1>1 DEF GoodTable, EarlyEmpty, ListenReleased, EventsCounted, TcpInv
<1>. QED
  BY <1>1, <1>2, <1>3 DEF TcpInv

LEMMA StepCheckWriteOperation ==
  ASSUME TcpInv, NEW s \in Sockets, NEW left \in 1..MaxUnsent, CheckWriteOperation(s, left)
  PROVE  TcpInv'
<1>1. /\ at = "timeout" /\ s \in readSockets /\ AddWrite(table, s)
      /\ unsent' = [unsent EXCEPT ![s] = left] /\ displaced' = displaced \ {s}
      /\ UNCHANGED <<listenVars, threadVars, readSockets, conn, incoming, unpolled,
                     maxFDSize, listenFd>>
  BY DEF CheckWriteOperation, listenVars
<1>2. GoodTable(table) /\ SameWatch(table, table)
  BY InvTable DEF SameWatch
<1>3. GoodTable(table') /\ Agree' /\ writeSockets' = writeSockets \cup {s}
  BY <1>1, <1>2, AddWriteAgrees
<1>4. ClosedIsEmpty' /\ UnsentIsWatched'
  <2>1. \A x \in readSockets' \ displaced' : unsent'[x] > 0 => x \in writeSockets'
    BY <1>1, <1>3, ArrayFacts DEF UnsentIsWatched
  <2>2. \A x \in Sockets \ readSockets' : unsent'[x] = 0
    BY <1>1, ArrayFacts DEF ClosedIsEmpty
  <2>. QED
    BY <2>1, <2>2 DEF UnsentIsWatched, ClosedIsEmpty
<1>5. /\ writeSockets' \subseteq readSockets' /\ displaced' \subseteq readSockets'
      /\ unpolled' \subseteq readSockets'
      /\ conn' \in [Sockets -> {"away", "calling", "open"}]
      /\ incoming' \in [Sockets -> {"none", "part", "message"}]
      /\ unsent' \in [Sockets -> 0..MaxUnsent]
  BY <1>1, <1>3, ArrayFacts
<1>. QED
  BY <1>1, <1>3, <1>4, <1>5, TimeoutStep

\* A socket that is handed over is in the table or counted as not polled.
LEMMA StepAddReadOperation ==
  ASSUME TcpInv, NEW s \in Sockets, AddReadOperation(s)
  PROVE  TcpInv'
<1>1. /\ at = "timeout" /\ conn[s] = "away"
      /\ conn' = [conn EXCEPT ![s] = "open"] /\ readSockets' = readSockets \cup {s}
      /\ UNCHANGED <<listenVars, threadVars, writeSockets, incoming, unsent, displaced>>
      /\ maxFDSize' = maxFDSize /\ listenFd' = listenFd
  BY DEF AddReadOperation, listenVars
<1>2. /\ s \notin readSockets /\ s # Listen /\ s \notin SocketsIn(table)
      /\ s \notin unpolled /\ s \notin displaced /\ s \notin writeSockets
  BY <1>1, ArrayFacts DEF Agree
<1>3. GoodTable(table) /\ Len(table) \in Nat /\ maxFDSize \in Nat
  BY InvTable
<1>4. GoodTable(table') /\ Agree' /\ unpolled' \subseteq readSockets'
  <2>1. CASE Len(table) < maxFDSize
    <3> DEFINE e == Entry(s)
    <3>1. e \in Entries /\ e.socket = s /\ e.revents = {} /\ e.in /\ ~e.out
      BY EntryKinds
    <3>2. table' = Append(table, e)
      BY <2>1 DEF AddReadOperation, PollFDAdd
    <3> HIDE DEF e
    <3>3. Added(table, e, table')
      BY <1>2, <1>3, <3>1, <3>2, AddEntry, Zenon
    <3>4. /\ GoodTable(table') /\ Len(table') = Len(table) + 1
          /\ SocketsIn(table') = SocketsIn(table) \cup {s}
          /\ ReadSet(table') = ReadSet(table) \cup {s}
          /\ WriteSet(table') = WriteSet(table)
      BY <3>1, <3>3 DEF Added
    <3>5. unpolled' = unpolled
      BY <3>4 DEF AddReadOperation
    <3>6. Agree'
      BY <1>1, <1>2, <1>3, <2>1, <3>4, <3>5, ArrayFacts DEF Agree
    <3>. QED
      BY <1>1, <3>4, <3>5, <3>6, ArrayFacts
  <2>2. CASE ~(Len(table) < maxFDSize)
    <3>1. table' = table
      BY <2>2 DEF AddReadOperation, PollFDAdd
    <3>2. unpolled' = unpolled \cup {s}
      BY <1>2, <3>1 DEF AddReadOperation
    <3>3. s \notin ReadSet(table) /\ s \notin WriteSet(table)
      BY <1>2 DEF ReadSet, WriteSet, SocketsIn
    <3>4. Agree'
      BY <1>1, <1>2, <1>3, <3>1, <3>2, <3>3, ArrayFacts DEF Agree
    <3>. QED
      BY <1>1, <1>3, <3>1, <3>2, <3>4, ArrayFacts
  <2>. QED
    BY <2>1, <2>2
<1>5. ClosedIsEmpty' /\ UnsentIsWatched'
  BY <1>1, <1>2, ArrayFacts DEF ClosedIsEmpty, UnsentIsWatched
<1>6. /\ writeSockets' \subseteq readSockets' /\ displaced' \subseteq readSockets'
      /\ conn' \in [Sockets -> {"away", "calling", "open"}]
      /\ incoming' \in [Sockets -> {"none", "part", "message"}]
      /\ unsent' \in [Sockets -> 0..MaxUnsent]
  BY <1>1, ArrayFacts
<1>. QED
  BY <1>1, <1>4, <1>5, <1>6, TimeoutStep

\* The handler of one connection closes another, whose entry the last one
\* replaces: both tables and both arrays lose the same socket, whether or not
\* the entry of the socket that is served was the last.
LEMMA StepOnMessageCloses ==
  ASSUME TcpInv, NEW s \in Sockets, NEW o \in Sockets, NEW left \in 0..MaxUnsent,
         OnMessageCloses(s, o, left)
  PROVE  TcpInv'
<1> DEFINE u == Cleared("in")
           t == PollFDDelete(u, o)
           here == Here("in")
           stays == here <= Len(t) /\ t[here].socket = s
           watched == stays /\ left > 0 /\ s \notin writeSockets
<1>1. Serving("read", "in", s) /\ Served("in") /\ Due("in") # {}
  BY DEF OnMessageCloses, Serving
<1>2. /\ GoodTable(u) /\ SameWatch(table, u)
      /\ Cardinality(Reported(u)) = Cardinality(Reported(table)) - 1
      /\ here \in 1..Len(u)
  BY <1>1, ClearedTable, ServingFacts DEF SameWatch
<1>3. /\ s \in readSockets
      /\ at \in {"read", "write"} /\ eventsCount' = eventsCount - 1 /\ cursor' \in Nat \ {0}
      /\ UNCHANGED <<listenVars, at, bExit>> /\ maxFDSize' = maxFDSize /\ listenFd' = listenFd
  BY <1>1, ServingFacts
<1>4. /\ o \in readSockets \ {s}
      /\ unsent' = [unsent EXCEPT ![s] = left, ![o] = 0]
      /\ incoming' = [incoming EXCEPT ![s] = "none", ![o] = "none"]
      /\ readSockets' = readSockets \ {o} /\ conn' = [conn EXCEPT ![o] = "away"]
      /\ unpolled' = unpolled \ {o}
      /\ displaced' = (IF stays THEN displaced ELSE displaced \cup {s}) \ {o}
  BY DEF OnMessageCloses
<1>5. \/ /\ watched /\ table' = PollFDEnable(t, here)
         /\ writeSockets' = (writeSockets \cup {s}) \ {o}
      \/ ~watched /\ table' = t /\ writeSockets' = writeSockets \ {o}
  BY DEF OnMessageCloses
<1> HIDE DEF u, here
<1>6. /\ GoodTable(t) /\ Len(t) <= Len(table) /\ SocketsIn(t) = SocketsIn(table) \ {o}
      /\ ReadSet(t) = ReadSet(table) \ {o} /\ WriteSet(t) = WriteSet(table) \ {o}
      /\ Cardinality(Reported(t)) <= Cardinality(Reported(table)) - 1
      /\ Len(t) \in Nat /\ Len(table) \in Nat
  <2>1. Len(t) \in Nat /\ Len(u) \in Nat /\ Cardinality(Reported(table)) \in Nat
    BY <1>2, DeleteEntry, InvTable DEF GoodTable
  <2>2. /\ GoodTable(t) /\ Len(t) <= Len(u) /\ SocketsIn(t) = SocketsIn(u) \ {o}
        /\ ReadSet(t) = ReadSet(u) \ {o} /\ WriteSet(t) = WriteSet(u) \ {o}
        /\ Cardinality(Reported(t)) <= Cardinality(Reported(u))
    BY <1>2, DeleteEntry
  <2>. QED
    BY <1>2, <2>1, <2>2 DEF SameWatch
<1> HIDE DEF t
<1>7. /\ GoodTable(table') /\ Len(table') = Len(t) /\ SocketsIn(table') = SocketsIn(t)
      /\ ReadSet(table') = ReadSet(t) /\ Reported(table') = Reported(t)
      /\ WriteSet(table') = IF watched THEN WriteSet(t) \cup {s} ELSE WriteSet(t)
      /\ writeSockets' = (IF watched THEN writeSockets \cup {s} ELSE writeSockets) \ {o}
  <2>1. CASE watched
    <3>1. here \in 1..Len(t) /\ t[here].socket = s
      BY <1>2, <1>6, <2>1 DEF GoodTable
    <3>. QED
      BY <1>5, <1>6, <2>1, <3>1, EnableEntry
  <2>2. CASE ~watched
    BY <1>5, <1>6, <2>2
  <2>. QED
    BY <2>1, <2>2
<1>8. Agree'
  <2>1. readSockets' = {x \in Sockets : conn'[x] = "open"}
    BY <1>4, ArrayFacts
  <2>2. /\ SocketsIn(table') \subseteq readSockets' \cup {Listen}
        /\ listenFd' = "owned" => Listen \in SocketsIn(table')
    BY <1>3, <1>4, <1>6, <1>7, ArrayFacts DEF Agree
  <2>3. ReadSet(table') \ {Listen} = readSockets' \ unpolled'
    BY <1>4, <1>6, <1>7, ArrayFacts DEF Agree
  <2>4. WriteSet(table') \ unpolled' = writeSockets' \ unpolled'
    BY <1>4, <1>6, <1>7, ArrayFacts DEF Agree
  <2>5. Len(table') <= maxFDSize'
    BY <1>3, <1>6, <1>7, ArrayFacts, InvTable DEF Agree
  <2>. QED
    BY <2>1, <2>2, <2>3, <2>4, <2>5 DEF Agree
<1>9. ClosedIsEmpty' /\ UnsentIsWatched'
  <2>1. \A x \in Sockets : unsent'[x] = IF x = o THEN 0 ELSE IF x = s THEN left ELSE unsent[x]
    BY <1>4, ArrayFacts
  <2>2. \A x \in readSockets' \ displaced' : unsent'[x] > 0 => x \in writeSockets'
    <3>1. ASSUME NEW x \in readSockets' \ displaced', unsent'[x] > 0, x # s
          PROVE  x \in writeSockets'
      BY <1>4, <1>7, <2>1, <3>1, ArrayFacts DEF UnsentIsWatched
    <3>2. ASSUME s \in readSockets' \ displaced', unsent'[s] > 0
          PROVE  s \in writeSockets'
      <4>1. stays /\ left > 0
        BY <1>3, <1>4, <2>1, <3>2
      <4>. QED
        BY <1>4, <1>7, <4>1
    <3>. QED
      BY <3>1, <3>2
  <2>3. \A x \in Sockets \ readSockets' : unsent'[x] = 0
    BY <1>3, <1>4, <2>1, ArrayFacts DEF ClosedIsEmpty
  <2>. QED
    BY <2>2, <2>3 DEF UnsentIsWatched, ClosedIsEmpty
<1>10. /\ writeSockets' \subseteq readSockets' /\ displaced' \subseteq readSockets'
       /\ unpolled' \subseteq readSockets'
       /\ conn' \in [Sockets -> {"away", "calling", "open"}]
       /\ incoming' \in [Sockets -> {"none", "part", "message"}]
       /\ unsent' \in [Sockets -> 0..MaxUnsent]
  <2>1. /\ writeSockets' \subseteq readSockets' /\ displaced' \subseteq readSockets'
        /\ unpolled' \subseteq readSockets'
    BY <1>3, <1>4, <1>7, ArrayFacts
  <2>2. /\ conn' \in [Sockets -> {"away", "calling", "open"}]
        /\ incoming' \in [Sockets -> {"none", "part", "message"}]
        /\ unsent' \in [Sockets -> 0..MaxUnsent]
    BY <1>4, ArrayFacts, TcpConstants
  <2>. QED
    BY <2>1, <2>2
<1>11. Cardinality(Reported(table')) <= Cardinality(Reported(table)) - 1
  BY <1>6, <1>7
<1>. QED
  BY <1>3, <1>7, <1>8, <1>9, <1>10, <1>11, PassStep
-----------------------------------------------------------------------------
(* The theorems.                                                           *)

\* The inductive invariant of the network thread, for any number of
\* connections, any size of the arrays and any bound on the unsent data.
THEOREM TcpInvariant == Spec => []TcpInv
<1>1. Init => TcpInv
  BY InitTcpInv
<1>2. TcpInv /\ [Next]_vars => TcpInv'
  <2> SUFFICES ASSUME TcpInv, [Next]_vars
               PROVE  TcpInv'
    OBVIOUS
  <2>1. CASE \/ Start \/ EndThread \/ InitInstance \/ BindListenSocket \/ LeaveRun
             \/ PollFails \/ EndRound \/ CloseListenSocket \/ UNCHANGED vars
    BY <2>1, StepQuiet
  <2>2. ASSUME NEW s \in Sockets, Call(s) \/ HangUp(s) \/ Arrive(s)
        PROVE  TcpInv'
    BY <2>2, StepQuiet
  <2>3. ASSUME NEW p \in {"none", "any", "given"}, SetListenPortNumber(p)
        PROVE  TcpInv'
    BY <2>3, StepQuiet
  <2>4. CASE OwnListenSocket
    BY <2>4, StepOwnListenSocket
  <2>5. CASE ExitInstance
    BY <2>5, StepExitInstance
  <2>6. CASE PollTimeout \/ \E room \in SUBSET Sockets : PollReady(room)
    BY <2>6, StepPoll
  <2>7. CASE Accept
    <3>1. ListenPass => TcpInv'
      BY StepPass DEF ListenPass
    <3>. QED
      BY <2>7, <3>1, StepAcceptFails, StepProcessConnection DEF Accept
  <2>8. CASE ReadPass
    <3>1. ScanEnds("read", "in", "write") => TcpInv'
      BY StepPass DEF ScanEnds
    <3>2. ASSUME NEW s \in Sockets, ReceiveFails(s)
          PROVE  TcpInv'
      BY <3>2, StepSocketFails DEF ReceiveFails
    <3>. QED
      BY <2>8, <3>1, <3>2, StepReceivePart, StepOnMessage, StepOnMessageCloses DEF ReadPass
  <2>9. CASE WritePass
    <3>1. ScanEnds("write", "out", "timeout") => TcpInv'
      BY StepPass DEF ScanEnds
    <3>2. ASSUME NEW s \in Sockets, WriteFails(s)
          PROVE  TcpInv'
      BY <3>2, StepSocketFails DEF WriteFails
    <3>. QED
      BY <2>9, <3>1, <3>2, StepDoWrite DEF WritePass
  <2>10. ASSUME NEW s \in Sockets, NEW left \in 1..MaxUnsent, CheckWriteOperation(s, left)
         PROVE  TcpInv'
    BY <2>10, StepCheckWriteOperation
  <2>11. ASSUME NEW s \in Sockets, AddReadOperation(s)
         PROVE  TcpInv'
    BY <2>11, StepAddReadOperation
  <2>. QED
    BY <2>1, <2>2, <2>3, <2>4, <2>5, <2>6, <2>7, <2>8, <2>9, <2>10, <2>11
       DEF Next, Thread, Begin
<1>. QED
  BY <1>1, <1>2, PTL DEF Spec

\* The arrays, the table and the open connections always agree.
THEOREM SocketsAlwaysConsistent == Spec => []SocketsConsistent
<1>1. TcpInv => SocketsConsistent
  BY MatchIsAgree DEF TcpInv, SocketsConsistent
<1>. QED
  BY <1>1, TcpInvariant, PTL

\* The listen descriptor always has somebody who closes it.
THEOREM ListenAlwaysReleased == Spec => []ListenReleased
<1>1. TcpInv => ListenReleased
  BY DEF TcpInv
<1>. QED
  BY <1>1, TcpInvariant, PTL

\* Data that was not sent is watched for.
THEOREM UnsentAlwaysWatched == Spec => []UnsentIsWatched
<1>1. TcpInv => UnsentIsWatched
  BY DEF TcpInv
<1>. QED
  BY <1>1, TcpInvariant, PTL

\* m_iEventsCount never runs out before the reported events do.
THEOREM EventsAlwaysCounted == Spec => []EventsCounted
<1>1. TcpInv => EventsCounted
  BY DEF TcpInv
<1>. QED
  BY <1>1, TcpInvariant, PTL
=============================================================================
