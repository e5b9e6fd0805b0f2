--------------------------- MODULE JekvHashProofs ---------------------------
(***************************************************************************)
(* For tables of every size, and a memcpy that copies in either order: the *)
(* table fits its allocation and always has room; and as long as no erase  *)
(* of it scrambled the nodes it is in the order of the slices and holds    *)
(* exactly the live items.                                                 *)
(***************************************************************************)
EXTENDS JekvHash, FiniteSetTheorems, TLAPS

\* The inductive invariant.  That node m stands for slice m - 1 or a later one is what
\* bounds the length of the table; it holds of a scrambled one too, where copies of the
\* last node stand in the places of earlier ones.
TableInv ==
    /\ TypeOK
    /\ Ordered
    /\ HoldsAll
    /\ FitsAllocation
    /\ \A m \in DOMAIN table : m - 1 <= table[m].id

LEMMA NodesAreNodes ==
    ASSUME TypeOK
    PROVE  /\ DOMAIN table = 1 .. Len(table) /\ Len(table) \in Nat
           /\ \A m \in DOMAIN table : table[m] \in Node /\ table[m].id \in Slice
                                      /\ table[m].id \in Nat
<1>1. DOMAIN table = 1 .. Len(table) /\ Len(table) \in Nat
  BY DEF TypeOK
<1>2. \A m \in DOMAIN table : table[m] \in Node
  BY <1>1 DEF TypeOK
<1>3. \A m \in DOMAIN table : table[m].id \in Slice
  BY <1>2 DEF Node
<1>4. \A i \in Slice : i \in Nat
  BY EntriesAssumption DEF Slice
<1> QED BY <1>1, <1>2, <1>3, <1>4

LEMMA InitTable == ASSUME Init PROVE TableInv
<1>1. table = <<>> /\ size = 0 /\ held = {} /\ scrambled \in BOOLEAN
  BY DEF Init
<1>2. DOMAIN table = {} /\ Len(table) = 0
  BY <1>1
<1>3. TypeOK
  BY <1>1 DEF TypeOK
<1>4. HoldsAll
  BY <1>1, <1>2 DEF HoldsAll
<1> QED BY <1>1, <1>2, <1>3, <1>4 DEF TableInv, Ordered, FitsAllocation

\* A node entered behind the others keeps the order.
LEMMA AppendKeepsTable ==
    ASSUME TableInv, NEW n \in Node, Behind(n), AppendNode(n)
    PROVE  TableInv'
<1> USE DEF TableInv, AppendNode
<1>1. TypeOK'
  BY StepAssumption DEF TypeOK
<1>2. /\ Len(table') = Len(table) + 1
      /\ \A m \in 1 .. Len(table) : table'[m] = table[m]
      /\ table'[Len(table) + 1] = n
  BY DEF TypeOK
<1>3. DOMAIN table = 1 .. Len(table) /\ DOMAIN table' = 1 .. Len(table) + 1 /\ Len(table) \in Nat
  BY <1>1, <1>2 DEF TypeOK
<1>4. Ordered'
  <2> SUFFICES ASSUME ~ scrambled, NEW k \in DOMAIN table', NEW m \in DOMAIN table', k < m
               PROVE  table'[k].id < table'[m].id
    BY DEF Ordered
  <2>1. CASE m \in DOMAIN table
    BY <2>1, <1>2, <1>3 DEF Ordered
  <2>2. CASE m = Len(table) + 1
    BY <2>2, <1>2, <1>3 DEF Behind
  <2> QED BY <2>1, <2>2, <1>3
<1>5. HoldsAll'
  <2>1. {table'[m] : m \in DOMAIN table'} = {table[m] : m \in DOMAIN table} \union {n}
    BY <1>2, <1>3
  <2> QED BY <2>1 DEF HoldsAll
<1>6. FitsAllocation'
  BY <1>2, <1>3, StepAssumption DEF FitsAllocation, TypeOK
<1>7. Len(table) <= n.id
  <2>1. CASE Len(table) = 0
    BY <2>1, EntriesAssumption DEF Node, Slice
  <2>2. CASE Len(table) > 0
    <3>1. Len(table) \in DOMAIN table
      BY <2>2, <1>3
    <3>2. Len(table) - 1 <= table[Len(table)].id /\ table[Len(table)].id < n.id
      BY <3>1 DEF Behind
    <3>3. table[Len(table)].id \in Int /\ n.id \in Int
      BY <3>1, NodesAreNodes DEF Node, Slice
    <3> QED BY <3>2, <3>3, <1>3
  <2> QED BY <2>1, <2>2, <1>3
<1>8. \A m \in DOMAIN table' : m - 1 <= table'[m].id
  BY <1>2, <1>3, <1>7
<1> QED BY <1>1, <1>4, <1>5, <1>6, <1>8

\* What a search for the first node rests on.  Of the finite sets of
\* the elements up to some element, the smallest is that of the least.
LEMMA LeastExists ==
    ASSUME NEW S, S \subseteq Nat, S # {}
    PROVE  \E x \in S : \A y \in S : x <= y
<1> DEFINE UpTo(x) == S \cap (0 .. x)
           T == {UpTo(x) : x \in S}
<1>1. T # {}
  OBVIOUS
<1>2. T \subseteq FiniteSubsetsOf(Nat)
  <2> SUFFICES ASSUME NEW x \in S PROVE UpTo(x) \in FiniteSubsetsOf(Nat)
    OBVIOUS
  <2>1. IsFiniteSet(0 .. x)
    BY FS_Interval
  <2>2. IsFiniteSet(UpTo(x))
    BY <2>1, FS_Intersection
  <2> QED BY <2>2 DEF FiniteSubsetsOf
<1>3. PICK t \in T : \A u \in T : ~ (<<u, t>> \in StrictSubsetOrdering(Nat))
  BY <1>1, <1>2, FS_StrictSubsetOrderingWellFounded, WFMin
<1>4. PICK x \in S : t = UpTo(x)
  OBVIOUS
<1>5. ASSUME NEW y \in S, ~ (x <= y) PROVE FALSE
  <2>1. UpTo(y) \subseteq UpTo(x) /\ x \in UpTo(x) /\ x \notin UpTo(y)
    BY <1>5
  <2>2. <<UpTo(y), t>> \in StrictSubsetOrdering(Nat)
    BY <2>1, <1>4 DEF StrictSubsetOrdering
  <2> QED BY <2>2, <1>3
<1> QED BY <1>5

\* The node that Erase takes out.
LEMMA AtExists ==
    ASSUME TypeOK, NEW i, \E n \in DOMAIN table : table[n].id = i
    PROVE  At(i) \in DOMAIN table /\ table[At(i)].id = i
<1> DEFINE S == {n \in DOMAIN table : table[n].id = i}
<1>1. S # {} /\ S \subseteq Nat
  BY DEF TypeOK
<1>2. PICK n \in S : \A m \in S : n <= m
  BY <1>1, LeastExists
<1>3. \A m \in 1 .. n - 1 : table[m].id # i
  <2> SUFFICES ASSUME NEW m \in 1 .. n - 1, table[m].id = i PROVE FALSE
    OBVIOUS
  <2>1. DOMAIN table = 1 .. Len(table) /\ Len(table) \in Nat
    BY DEF TypeOK
  <2>2. m \in S
    BY <2>1
  <2> QED BY <2>2, <2>1, <1>2
<1> QED BY <1>3 DEF At

\* In whatever order memcpy copies, each place gets a node from behind it.
LEMMA EraseMovesNodes ==
    ASSUME TableInv, NEW i \in Slice, Erase(i)
    PROVE  /\ TypeOK' /\ Len(table') = Len(table) - 1
           /\ DOMAIN table' = 1 .. Len(table) - 1
           /\ \A m \in DOMAIN table' : m - 1 <= table'[m].id
<1> USE DEF TableInv
<1> DEFINE a == At(i)
           L == Len(table)
<1>1. a \in 1 .. L /\ L \in Nat /\ DOMAIN table = 1 .. L
  BY AtExists DEF Erase, TypeOK
<1>2. PICK copy \in Copies : table' = Moved(a, copy)
  BY DEF Erase
<1> HIDE DEF a
<1>3. /\ DOMAIN table' = 1 .. L - 1
      /\ \A m \in 1 .. L - 1 :
            \/ table'[m] = table[m]
            \/ table'[m] = table[m + 1]
            \/ table'[m] = table[L]
  BY <1>2 DEF Moved
<1>4. \A m \in 1 .. L : table[m] \in Node /\ table[m].id \in Nat /\ m - 1 <= table[m].id
  BY <1>1, NodesAreNodes
<1>5. \A m \in 1 .. L - 1 : table'[m] \in Node /\ m - 1 <= table'[m].id
  <2> TAKE m \in 1 .. L - 1
  <2>1. m \in 1 .. L /\ m + 1 \in 1 .. L /\ L \in 1 .. L
    BY <1>1
  <2>2. CASE table'[m] = table[m]
    BY <2>1, <2>2, <1>4
  <2>3. CASE table'[m] = table[m + 1]
    BY <2>1, <2>3, <1>4
  <2>4. CASE table'[m] = table[L]
    <3>1. L - 1 <= table[L].id /\ table[L].id \in Nat /\ table[L] \in Node
      BY <2>1, <1>4
    <3> QED BY <3>1, <2>1, <2>4, <1>1
  <2> QED BY <2>2, <2>3, <2>4, <1>3
<1>6. table' \in Seq(Node) /\ Len(table') = L - 1
  <2> DEFINE K == L - 1
  <2>1. K \in Nat /\ table' \in [1 .. K -> Node]
    BY <1>1, <1>2, <1>3, <1>5 DEF Moved
  <2> HIDE DEF K
  <2>2. table' \in Seq(Node) /\ Len(table') = K
    BY <2>1
  <2> QED BY <2>2 DEF K
<1>7. TypeOK'
  BY <1>6 DEF TypeOK, Erase
<1> QED BY <1>3, <1>5, <1>6, <1>7

\* Moving the nodes behind it to the front keeps the order and loses no other node.
LEMMA EraseKeepsTable ==
    ASSUME TableInv, NEW i \in Slice, Erase(i)
    PROVE  TableInv'
<1> USE DEF TableInv
<1> DEFINE a == At(i)
           L == Len(table)
<1>1. a \in 1 .. L /\ L \in Nat /\ DOMAIN table = 1 .. L /\ table[a].id = i
  BY AtExists DEF Erase, TypeOK
<1>2. \A m \in 1 .. L : table[m] \in Node /\ table[m].id \in Nat
  BY <1>1, NodesAreNodes
<1>3. ASSUME ~ scrambled' PROVE ~ scrambled /\ table' = Moved(a, "up")
  BY <1>3 DEF Erase
<1> HIDE DEF a
<1>4. ASSUME ~ scrambled'
      PROVE  /\ \A p, q \in 1 .. L : p < q => table[p].id < table[q].id
             /\ \A m \in 1 .. L - 1 : table'[m] = IF m < a THEN table[m] ELSE table[m + 1]
             /\ DOMAIN table' = 1 .. L - 1
  BY <1>1, <1>3, <1>4 DEF Ordered, Moved
<1>5. Ordered'
  <2> SUFFICES ASSUME ~ scrambled', NEW k \in 1 .. L - 1, NEW m \in 1 .. L - 1, k < m
               PROVE  table'[k].id < table'[m].id
    BY <1>4 DEF Ordered
  <2> QED BY <1>1, <1>2, <1>4
<1>6. HoldsAll'
  <2> SUFFICES ASSUME ~ scrambled'
               PROVE  {table'[m] : m \in DOMAIN table'} = held'
    BY DEF HoldsAll
  <2>1. \A m \in 1 .. L : table[m].id = i <=> m = a
    BY <1>1, <1>2, <1>4
  <2>2. held' = {table[m] : m \in (1 .. L) \ {a}}
    BY <2>1, <1>1, <1>3 DEF HoldsAll, Erase
  <2>3. \A m \in 1 .. L - 1 : table'[m] \in {table[k] : k \in (1 .. L) \ {a}}
    <3> TAKE m \in 1 .. L - 1
    <3>1. CASE m < a
      BY <3>1, <1>4, <1>1
    <3>2. CASE ~ (m < a)
      <4>1. m + 1 \in (1 .. L) \ {a} /\ table'[m] = table[m + 1]
        BY <3>2, <1>4, <1>1
      <4> QED BY <4>1
    <3> QED BY <3>1, <3>2
  <2>4. \A k \in (1 .. L) \ {a} : table[k] \in {table'[m] : m \in 1 .. L - 1}
    <3> TAKE k \in (1 .. L) \ {a}
    <3>1. CASE k < a
      <4>1. k \in 1 .. L - 1 /\ table'[k] = table[k]
        BY <3>1, <1>4, <1>1
      <4> QED BY <4>1
    <3>2. CASE ~ (k < a)
      <4>1. k - 1 \in 1 .. L - 1 /\ ~ (k - 1 < a) /\ table'[k - 1] = table[k]
        BY <3>2, <1>4, <1>1
      <4> QED BY <4>1
    <3> QED BY <3>1, <3>2
  <2> QED BY <2>2, <2>3, <2>4, <1>4
<1>7. FitsAllocation'
  <2>1. Len(table') = L - 1 /\ size' = size
    BY EraseMovesNodes DEF Erase
  <2> QED BY <2>1, <1>1 DEF FitsAllocation, TypeOK
<1> QED BY <1>5, <1>6, <1>7, EraseMovesNodes

LEMMA ClearKeepsTable == ASSUME TableInv, Clear PROVE TableInv'
<1>1. table' = <<>> /\ size' = 0 /\ held' = {} /\ scrambled' \in BOOLEAN
  BY DEF Clear
<1>2. DOMAIN table' = {} /\ Len(table') = 0
  BY <1>1
<1>3. TypeOK'
  BY <1>1 DEF TypeOK
<1>4. HoldsAll'
  BY <1>1, <1>2 DEF HoldsAll
<1> QED BY <1>1, <1>2, <1>3, <1>4 DEF TableInv, Ordered, FitsAllocation

LEMMA NextKeepsTable ==
    ASSUME TableInv, [Next]_hvars
    PROVE  TableInv'
<1>1. CASE \E n \in Node : Behind(n) /\ AppendNode(n)
  BY <1>1, AppendKeepsTable
<1>2. CASE \E i \in Slice : Erase(i)
  BY <1>2, EraseKeepsTable
<1>3. CASE Clear
  BY <1>3, ClearKeepsTable
<1>4. CASE UNCHANGED hvars
  BY <1>4 DEF hvars, TableInv, TypeOK, Ordered, HoldsAll, FitsAllocation
<1> QED BY <1>1, <1>2, <1>3, <1>4 DEF Next

\* Whatever order memcpy copies in: while no erase since the last clear has scrambled the
\* nodes, the table is in the order of the slices and holds the nodes of the live items
\* and no others.
THEOREM TableIsRight == Spec => [](TypeOK /\ Ordered /\ HoldsAll)
<1>1. Init => TableInv
  BY InitTable
<1>2. TableInv /\ [Next]_hvars => TableInv'
  BY NextKeepsTable
<1>3. TableInv => TypeOK /\ Ordered /\ HoldsAll
  BY DEF TableInv
<1> QED BY <1>1, <1>2, <1>3, PTL DEF Spec

\* jekv_hash_append never has to refuse a node of the sector.
LEMMA RoomInTable == TableInv => HasRoomForAll
<1> SUFFICES ASSUME TableInv, NEW n \in Node, Behind(n)
             PROVE  Len(table) < Entries
  BY DEF HasRoomForAll
<1>1. Len(table) \in Nat /\ DOMAIN table = 1 .. Len(table) /\ n.id \in 0 .. Entries - 1
  BY DEF TableInv, TypeOK, Node, Slice
<1>2. CASE Len(table) = 0
  BY <1>2, EntriesAssumption
<1>3. CASE Len(table) > 0
  <2>1. Len(table) \in DOMAIN table
    BY <1>3, <1>1
  <2>2. table[Len(table)].id \in 0 .. Entries - 1
    BY <2>1, NodesAreNodes DEF TableInv, Slice
  <2>3. Len(table) - 1 <= table[Len(table)].id /\ table[Len(table)].id < n.id
    BY <2>1 DEF TableInv, Behind
  <2> QED BY <2>2, <2>3, <1>1, EntriesAssumption
<1> QED BY <1>1, <1>2, <1>3

\* A node to be put behind the last one always finds room: jekv_hash_append never answers
\* JEKV_ERR_NO_SPACE, scrambled or not.
THEOREM TableNeverFull == Spec => []HasRoomForAll
<1>1. Init => TableInv
  BY InitTable
<1>2. TableInv /\ [Next]_hvars => TableInv'
  BY NextKeepsTable
<1> QED BY <1>1, <1>2, RoomInTable, PTL DEF Spec

\* The nodes of the table never go past the memory that was allocated for them, scrambled
\* or not.
THEOREM TableFitsAllocation == Spec => []FitsAllocation
<1>1. Init => TableInv
  BY InitTable
<1>2. TableInv /\ [Next]_hvars => TableInv'
  BY NextKeepsTable
<1>3. TableInv => FitsAllocation
  BY DEF TableInv
<1> QED BY <1>1, <1>2, <1>3, PTL DEF Spec

\* In an ordered table the first hit is the lowest.
LEMMA FirstIsLowest == TableInv => FindsLowest
<1> SUFFICES ASSUME TableInv, ~ scrambled, NEW start \in Slice, NEW h \in Hashes
             PROVE  LET hits == {n.id : n \in {m \in held : m.id >= start /\ m.hash = h}}
                    IN  IF hits = {} THEN Find(start, h) = Invalid
                        ELSE Find(start, h) \in hits /\ \A i \in hits : Find(start, h) <= i
  BY DEF FindsLowest
<1> DEFINE Hit(n) == table[n].id >= start /\ table[n].hash = h
           hits == {n.id : n \in {m \in held : m.id >= start /\ m.hash = h}}
           places == {n \in DOMAIN table : Hit(n)}
<1>1. DOMAIN table = 1 .. Len(table) /\ Len(table) \in Nat
  BY DEF TableInv, TypeOK
<1>2. \A n \in DOMAIN table : table[n].id \in Nat
  BY NodesAreNodes DEF TableInv
<1>3. hits = {table[n].id : n \in places}
  BY DEF TableInv, HoldsAll
<1>4. CASE places = {}
  BY <1>3, <1>4 DEF Find
<1>5. CASE places # {}
  <2>1. places \subseteq Nat
    BY <1>1
  <2>2. PICK p \in places : \A q \in places : p <= q
    BY <1>5, <2>1, LeastExists
  <2>3. \A m \in 1 .. p - 1 : ~ Hit(m)
    BY <2>2, <1>1
  <2> DEFINE first == CHOOSE n \in DOMAIN table : Hit(n) /\ \A m \in 1 .. n - 1 : ~ Hit(m)
  <2>4. first \in DOMAIN table /\ Hit(first) /\ \A m \in 1 .. first - 1 : ~ Hit(m)
    BY <2>2, <2>3
  <2>5. Find(start, h) = table[first].id
    BY <2>4 DEF Find
  <2> HIDE DEF first
  <2>6. Find(start, h) \in hits
    BY <2>4, <2>5, <1>3
  <2>7. ASSUME NEW q \in places PROVE table[first].id <= table[q].id
    <3>1. first <= q
      BY <2>4, <2>7, <1>1
    <3>2. CASE first = q
      BY <3>2, <2>4, <1>2
    <3>3. CASE first < q
      BY <3>3, <2>4, <1>2 DEF TableInv, Ordered
    <3> QED BY <3>1, <3>2, <3>3, <2>4, <1>1
  <2>8. \A i \in hits : Find(start, h) <= i
    BY <2>5, <2>7, <1>3
  <2> QED BY <2>6, <2>8
<1> QED BY <1>4, <1>5

\* While no erase since the last clear has scrambled the nodes, a search answers the lowest
\* slice from `start' on that holds a live item with the hash: what jekv_sector_find_item
\* relies on to walk over a sector without missing one.
THEOREM SearchFindsLowest == Spec => []FindsLowest
<1>1. Init => TableInv
  BY InitTable
<1>2. TableInv /\ [Next]_hvars => TableInv'
  BY NextKeepsTable
<1> QED BY <1>1, <1>2, FirstIsLowest, PTL DEF Spec
=============================================================================
