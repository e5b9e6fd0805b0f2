------------------------- MODULE JekvStoreInvariant -------------------------
(***************************************************************************)
(* For partitions of every size, every set of keys and values and any      *)
(* number of power failures: the data of JekvStore keep their types, the   *)
(* two lists of the sector manager hold each sector once, and at most one  *)
(* sector is being deleted: one lemma per action says that it keeps IInv.  *)
(* The active list is the one a restart would rebuild, no serial number is *)
(* given twice, and the reserve is at hand whenever a collection takes it: *)
(* one lemma per action says that it keeps OrderInv.  The items of a       *)
(* sector lie one behind the other, and a new one is programmed right      *)
(* behind the last, so that no slice is programmed twice between two       *)
(* erasures: one lemma per action says that it keeps LayoutInv and appends *)
(* no item, or where it does.                                              *)
(***************************************************************************)
EXTENDS JekvStore, FiniteSetTheorems, SequenceTheorems, TLAPS

-----------------------------------------------------------------------------
(* Sets of numbers have a least element, and bounded ones a greatest *)

\* What every CHOOSE of a first slice, node or sector rests on.  Of the finite sets of
\* the elements up to some element, the smallest is that of the least.
LEMMA LeastExists ==
    ASSUME NEW S, S \subseteq Nat, S # {}
    PROVE  \E x \in S : \A y \in S : x <= y
<1> DEFINE UpTo(x) == S \cap (0 .. x)
           T == {UpTo(x) : x \in S}
<1>1. T # {}
  OBVIOUS
<1>2. T \subseteq FiniteSubsetsOf(Nat)
  <2> SUFFICES ASSUME NEW x \in S PROVE UpTo(x) \in FiniteSubsetsOf(Nat)
    OBVIOUS
  <2>1. IsFiniteSet(0 .. x)
    BY FS_Interval
  <2>2. IsFiniteSet(UpTo(x))
    BY <2>1, FS_Intersection
  <2> QED BY <2>2 DEF FiniteSubsetsOf
<1>3. PICK t \in T : \A u \in T : ~ (<<u, t>> \in StrictSubsetOrdering(Nat))
  BY <1>1, <1>2, FS_StrictSubsetOrderingWellFounded, WFMin
<1>4. PICK x \in S : t = UpTo(x)
  OBVIOUS
<1>5. ASSUME NEW y \in S, ~ (x <= y) PROVE FALSE
  <2>1. UpTo(y) \subseteq UpTo(x) /\ x \in UpTo(x) /\ x \notin UpTo(y)
    BY <1>5
  <2>2. <<UpTo(y), t>> \in StrictSubsetOrdering(Nat)
    BY <2>1, <1>4 DEF StrictSubsetOrdering
  <2> QED BY <2>2, <1>3
<1> QED BY <1>5

\* The same seen from a bound b above: the greatest element is the one nearest to b.
LEMMA GreatestExists ==
    ASSUME NEW S, NEW b \in Int, S \subseteq Int, S # {}, \A x \in S : x <= b
    PROVE  \E x \in S : \A y \in S : y <= x
<1> DEFINE T == {b - x : x \in S}
<1>1. T \subseteq Nat
  <2> SUFFICES ASSUME NEW x \in S PROVE b - x \in Nat
    OBVIOUS
  <2>1. x \in Int /\ x <= b
    OBVIOUS
  <2> QED BY <2>1
<1>2. T # {}
  OBVIOUS
<1> HIDE DEF T
<1>3. PICK t \in T : \A u \in T : t <= u
  BY <1>1, <1>2, LeastExists
<1>4. PICK x \in S : t = b - x
  BY DEF T
<1>5. ASSUME NEW y \in S PROVE y <= x
  <2>1. b - y \in T
    BY DEF T
  <2>2. b - x <= b - y
    BY <2>1, <1>3, <1>4
  <2> QED BY <2>2
<1> QED BY <1>5

-----------------------------------------------------------------------------
(* Sectors *)

LEMMA LeastOfIsLeast ==
    ASSUME NEW S, S \subseteq Nat, S # {}
    PROVE  LeastOf(S) \in S /\ \A y \in S : LeastOf(S) <= y
BY LeastExists DEF LeastOf

LEMMA MostOfIsMost ==
    ASSUME NEW S, NEW b \in Int, S \subseteq Int, S # {}, \A x \in S : x <= b
    PROVE  MostOf(S) \in S /\ \A y \in S : y <= MostOf(S)
BY GreatestExists DEF MostOf

\* The slice counters wrap like a byte.
LEMMA CountIsByte ==
    ASSUME NEW n \in Nat
    PROVE  Count(n) \in 0 .. CounterMod - 1
BY SlicesAssumption DEF Count, CounterMod

LEMMA BlankType == Blank \in FlashSector /\ Unloaded \in RamSector
<1>1. Blank \in FlashSector
  BY DEF Blank, FlashSector, HeaderStatus
<1>2. 0 \in 0 .. CounterMod - 1
  BY SlicesAssumption DEF CounterMod
<1>3. Unloaded \in RamSector
  BY <1>2 DEF Unloaded, RamSector, RamStatus
<1> QED BY <1>1, <1>3

LEMMA NewItemType ==
    ASSUME NEW at \in Nat, NEW k \in Keys, NEW v \in Values
    PROVE  NewItem(at, k, v) \in Item /\ SpanOf[v] \in Nat
<1>1. SpanOf[v] \in Nat
  BY SpanAssumption
<1> QED BY <1>1 DEF NewItem, Item, ItemStatus

\* Items that are not of the log, like the one Scanned adds, have a place and a span too.
LEMMA SizeIsNat ==
    ASSUME NEW S, NEW log \in Seq(S), \A e \in S : e.at \in Nat /\ e.span \in Nat, NEW sts
    PROVE  Size(log, sts) \in Nat
<1> DEFINE D == {j \in DOMAIN log : log[j].st \in sts}
           f == [i \in D |-> log[i].at .. log[i].at + log[i].span - 1]
           T == {f[i] : i \in D}
<1>1. IsFiniteSet(D)
  <2>1. DOMAIN log = 1 .. Len(log) /\ Len(log) \in Nat
    OBVIOUS
  <2>2. IsFiniteSet(1 .. Len(log))
    BY <2>1, FS_Interval
  <2> QED BY <2>1, <2>2, FS_Subset
<1>2. f \in Surjection(D, T)
  BY DEF Surjection
<1>3. IsFiniteSet(T)
  BY <1>1, <1>2, FS_Surjection
<1>4. ASSUME NEW I \in T PROVE IsFiniteSet(I)
  <2>1. PICK i \in D : I = log[i].at .. log[i].at + log[i].span - 1
    OBVIOUS
  <2>2. log[i] \in S
    OBVIOUS
  <2>3. log[i].at \in Int /\ log[i].at + log[i].span - 1 \in Int
    BY <2>2
  <2> QED BY <2>1, <2>3, FS_Interval
<1>5. Covered(log, sts) = UNION T
  BY DEF Covered
<1>6. IsFiniteSet(Covered(log, sts))
  BY <1>3, <1>4, <1>5, FS_UNION
<1> QED BY <1>6, FS_CardinalityType DEF Size

LEMMA LogEndIsNat ==
    ASSUME NEW S, NEW log \in Seq(S), \A e \in S : e.at \in Nat /\ e.span \in Nat
    PROVE  LogEnd(log) \in Nat
<1>1. CASE log = <<>>
  BY <1>1 DEF LogEnd
<1>2. CASE log # <<>>
  <2>1. Len(log) \in 1 .. Len(log) /\ log[Len(log)] \in S
    BY <1>2
  <2> QED BY <2>1, <1>2 DEF LogEnd
<1> QED BY <1>1, <1>2

LEMMA LoadStatusType ==
    ASSUME NEW f \in FlashSector
    PROVE  /\ LoadStatus(f) \in RamStatus
           /\ LoadStatus(f) = "deleting" <=> f.hdr = "deleting"
           /\ LoadStatus(f) = "using" <=> f.hdr = "using"
BY DEF LoadStatus, FlashSector, HeaderStatus, RamStatus

\* Loading a sector gives counters a byte holds, whatever its flash looks like.
LEMMA LoadRamType ==
    ASSUME NEW f \in FlashSector
    PROVE  LoadRam(f) \in RamSector /\ LoadRam(f).st = LoadStatus(f)
<1> DEFINE log == Scanned(f)
           fake == [at |-> LogEnd(f.log), key |-> CHOOSE k \in Keys : TRUE,
                    val |-> CHOOSE v \in Values : TRUE, span |-> LostSpan, st |-> "droped"]
           S == Item \union {fake}
<1>1. f.log \in Seq(Item) /\ f.sn \in Nat
  BY DEF FlashSector
<1>2. \A e \in Item : e.at \in Nat /\ e.span \in Nat
  BY DEF Item
<1>3. LogEnd(f.log) \in Nat
  BY <1>1, <1>2, LogEndIsNat
<1>4. LostSpan \in Nat
  BY SlicesAssumption DEF LostSpan
<1>5. fake.at \in Nat /\ fake.span \in Nat
  BY <1>3, <1>4
<1>6. \A e \in S : e.at \in Nat /\ e.span \in Nat
  BY <1>2, <1>5
<1> HIDE DEF fake
<1>7. f.log \in Seq(S)
  BY <1>1, SeqMonotonic
<1>8. Append(f.log, fake) \in Seq(S)
  <2>1. fake \in S
    OBVIOUS
  <2> QED BY <1>7, <2>1
<1>9. log \in Seq(S)
  BY <1>7, <1>8 DEF Scanned, fake
<1> HIDE DEF log, S
<1>10. LogEnd(log) \in Nat /\ \A sts : Size(log, sts) \in Nat
  BY <1>6, <1>9, LogEndIsNat, SizeIsNat
<1>11. {log[i].at : i \in LiveAt(log)} \subseteq Nat
  <2> SUFFICES ASSUME NEW i \in DOMAIN log PROVE log[i].at \in Nat
    BY DEF LiveAt
  <2>1. log[i] \in S
    BY <1>9
  <2> QED BY <2>1, <1>6
<1>12. CASE IsUsed(LoadStatus(f))
  <2> DEFINE next   == IF LogEnd(log) > Slices THEN Slices ELSE LogEnd(log)
             used   == Count(Size(log, ItemStatus))
             droped == Count(Size(log, {"droped", "torn"}) + Size(log, {"torn"}))
             hash   == {log[i].at : i \in LiveAt(log)}
  <2>1. LoadRam(f) = [st |-> LoadStatus(f), sn |-> f.sn, next |-> next, used |-> used,
                      droped |-> droped, hash |-> hash]
    BY <1>12 DEF LoadRam, log
  <2>2. next \in Nat
    BY <1>10, SlicesAssumption
  <2>3. used \in 0 .. CounterMod - 1
    BY <1>10, CountIsByte
  <2>4. droped \in 0 .. CounterMod - 1
    BY <1>10, CountIsByte
  <2>5. hash \in SUBSET Nat
    BY <1>11
  <2> HIDE DEF next, used, droped, hash
  <2> QED BY <2>1, <2>2, <2>3, <2>4, <2>5, <1>1, LoadStatusType DEF RamSector
<1>13. CASE ~ IsUsed(LoadStatus(f))
  BY <1>13, BlankType, LoadStatusType DEF LoadRam, RamSector, Unloaded
<1> QED BY <1>12, <1>13

LEMMA LoadFlashType ==
    ASSUME NEW f \in FlashSector
    PROVE  LoadFlash(f) \in FlashSector /\ LoadFlash(f).hdr = f.hdr /\ LoadFlash(f).sn = f.sn
<1>1. DropTorn(f.log) \in Seq(Item)
  <2>1. f.log \in Seq(Item) /\ DOMAIN f.log = 1 .. Len(f.log) /\ Len(f.log) \in Nat
    BY DEF FlashSector
  <2>2. \A i \in 1 .. Len(f.log) : DropTorn(f.log)[i] \in Item
    <3> TAKE i \in 1 .. Len(f.log)
    <3>1. f.log[i] \in Item
      BY <2>1
    <3>2. [f.log[i] EXCEPT !.st = "droped"] \in Item
      BY <3>1 DEF Item, ItemStatus
    <3> QED BY <3>1, <3>2, <2>1 DEF DropTorn
  <2>3. DropTorn(f.log) \in [1 .. Len(f.log) -> Item]
    BY <2>1, <2>2 DEF DropTorn
  <2> QED BY <2>1, <2>3
<1> QED BY <1>1 DEF LoadFlash, FlashSector

LEMMA HeaderWrittenType ==
    ASSUME NEW f \in FlashSector, NEW it \in Item
    PROVE  /\ HeaderWritten(f, it) \in Item
           /\ HeaderWritten(f, it).at = it.at /\ HeaderWritten(f, it).span = it.span
BY DEF HeaderWritten, Item, ItemStatus

LEMMA AppendedType ==
    ASSUME NEW f \in FlashSector, NEW it \in Item
    PROVE  [f EXCEPT !.log = Append(@, it)] \in FlashSector
<1>1. Append(f.log, it) \in Seq(Item)
  BY DEF FlashSector
<1> QED BY <1>1 DEF FlashSector

LEMMA HeaderTornType ==
    ASSUME NEW f \in FlashSector, NEW it \in Item, NEW g \in HeaderTorn(f, it)
    PROVE  g \in FlashSector /\ g.hdr = f.hdr /\ g.sn = f.sn
<1>1. CASE g = f
  BY <1>1
<1>2. CASE g # f
  <2>1. PICK sp \in {it.span, LostSpan} :
          g = [f EXCEPT !.log = Append(@, [HeaderWritten(f, it) EXCEPT
                                     !.st = IF @ = "droped" THEN @ ELSE "torn",
                                     !.span = sp])]
    BY <1>2 DEF HeaderTorn
  <2>2. sp \in Nat
    BY SlicesAssumption DEF LostSpan, Item
  <2>3. [HeaderWritten(f, it) EXCEPT !.st = IF @ = "droped" THEN @ ELSE "torn",
                                     !.span = sp] \in Item
    BY <2>2, HeaderWrittenType DEF Item, ItemStatus
  <2>4. g \in FlashSector
    BY <2>1, <2>3, AppendedType
  <2>5. g.hdr = f.hdr /\ g.sn = f.sn
    BY <2>1 DEF FlashSector
  <2> QED BY <2>4, <2>5
<1> QED BY <1>1, <1>2

LEMMA DropAtType ==
    ASSUME NEW f \in FlashSector, NEW at \in Nat
    PROVE  DropAt(f, at) \in FlashSector /\ DropAt(f, at).hdr = f.hdr
<1> DEFINE log == [i \in DOMAIN f.log |->
                      IF f.log[i].at = at THEN [f.log[i] EXCEPT !.st = "droped"] ELSE f.log[i]]
<1>1. f.log \in Seq(Item) /\ DOMAIN f.log = 1 .. Len(f.log) /\ Len(f.log) \in Nat
  BY DEF FlashSector
<1>2. \A i \in 1 .. Len(f.log) : log[i] \in Item
  <2> TAKE i \in 1 .. Len(f.log)
  <2>1. f.log[i] \in Item
    BY <1>1
  <2>2. [f.log[i] EXCEPT !.st = "droped"] \in Item
    BY <2>1 DEF Item, ItemStatus
  <2> QED BY <2>1, <2>2, <1>1
<1>3. log \in [1 .. Len(f.log) -> Item]
  BY <1>1, <1>2
<1> HIDE DEF log
<1>4. log \in Seq(Item)
  BY <1>1, <1>3
<1>5. DropAt(f, at) \in {[f EXCEPT !.log = log], [f EXCEPT !.stale = @ \union {at}]}
  BY DEF DropAt, log
<1> QED BY <1>4, <1>5 DEF FlashSector

-----------------------------------------------------------------------------
(* Lists *)

LEMMA InRange ==
    ASSUME NEW S, NEW list \in Seq(S)
    PROVE  /\ Range(list) \subseteq S
           /\ list = <<>> <=> Range(list) = {}
           /\ \A i \in DOMAIN list : list[i] \in Range(list)
           /\ list # <<>> => Last(list) \in Range(list)
BY DEF Range, Last

LEMMA AppendRange ==
    ASSUME NEW S, NEW list \in Seq(S), NEW s \in S, s \notin Range(list), IsInjective(list)
    PROVE  /\ Append(list, s) \in Seq(S) /\ IsInjective(Append(list, s))
           /\ Append(list, s) # <<>>
           /\ Range(Append(list, s)) = Range(list) \union {s}
           /\ Last(Append(list, s)) = s
<1> DEFINE l == Append(list, s)
<1>1. /\ l \in Seq(S) /\ Len(l) = Len(list) + 1 /\ Len(list) \in Nat
      /\ DOMAIN list = 1 .. Len(list) /\ DOMAIN l = 1 .. Len(list) + 1
      /\ \A i \in 1 .. Len(list) : l[i] = list[i]
      /\ l[Len(list) + 1] = s
  OBVIOUS
<1> HIDE DEF l
<1>2. IsInjective(l)
  BY <1>1 DEF IsInjective, Range
<1>3. Range(l) = Range(list) \union {s}
  BY <1>1 DEF Range
<1>4. Last(l) = s /\ l # <<>>
  BY <1>1 DEF Last
<1> QED BY <1>1, <1>2, <1>3, <1>4 DEF l

LEMMA TailRange ==
    ASSUME NEW S, NEW list \in Seq(S), list # <<>>, IsInjective(list)
    PROVE  /\ Head(list) \in S /\ Head(list) \in Range(list)
           /\ Tail(list) \in Seq(S) /\ IsInjective(Tail(list))
           /\ Len(Tail(list)) = Len(list) - 1
           /\ Range(Tail(list)) = Range(list) \ {Head(list)}
<1> DEFINE l == Tail(list)
<1>1. /\ l \in Seq(S) /\ Len(l) = Len(list) - 1 /\ Len(list) \in Nat \ {0}
      /\ DOMAIN list = 1 .. Len(list) /\ DOMAIN l = 1 .. Len(list) - 1
      /\ \A i \in 1 .. Len(list) - 1 : l[i] = list[i + 1]
      /\ Head(list) = list[1]
  BY HeadTailProperties
<1> HIDE DEF l
<1>2. IsInjective(l)
  <2> SUFFICES ASSUME NEW m \in 1 .. Len(list) - 1, NEW n \in 1 .. Len(list) - 1, l[m] = l[n]
               PROVE  m = n
    BY <1>1 DEF IsInjective
  <2>1. m + 1 \in DOMAIN list /\ n + 1 \in DOMAIN list /\ list[m + 1] = list[n + 1]
    BY <1>1
  <2> QED BY <2>1 DEF IsInjective
<1>3. Range(l) \subseteq Range(list) \ {Head(list)}
  <2> SUFFICES ASSUME NEW m \in 1 .. Len(list) - 1
               PROVE  l[m] \in Range(list) /\ l[m] # Head(list)
    BY <1>1 DEF Range
  <2>1. m + 1 \in DOMAIN list /\ 1 \in DOMAIN list /\ m + 1 # 1 /\ l[m] = list[m + 1]
    BY <1>1
  <2> QED BY <2>1, <1>1 DEF IsInjective, Range
<1>4. Range(list) \ {Head(list)} \subseteq Range(l)
  <2> SUFFICES ASSUME NEW m \in 1 .. Len(list), list[m] # Head(list)
               PROVE  list[m] \in Range(l)
    BY <1>1 DEF Range
  <2>1. m - 1 \in DOMAIN l /\ l[m - 1] = list[m]
    BY <1>1
  <2> QED BY <2>1 DEF Range
<1>5. Head(list) \in S /\ Head(list) \in Range(list)
  BY <1>1 DEF Range
<1> QED BY <1>1, <1>2, <1>3, <1>4, <1>5 DEF l

\* dl_list_del takes out the sector it is given and no other.
LEMMA UnlinkRange ==
    ASSUME NEW S, NEW list \in Seq(S), NEW s \in Range(list), IsInjective(list)
    PROVE  /\ Unlink(list, s) \in Seq(S) /\ IsInjective(Unlink(list, s))
           /\ Range(Unlink(list, s)) = Range(list) \ {s}
           /\ \A p, q \in DOMAIN Unlink(list, s) : p < q =>
                 \E i, j \in DOMAIN list : /\ i < j /\ Unlink(list, s)[p] = list[i]
                                          /\ Unlink(list, s)[q] = list[j]
           /\ s # Last(list) => /\ Unlink(list, s) # <<>>
                                /\ Last(Unlink(list, s)) = Last(list)
<1> DEFINE n == CHOOSE i \in DOMAIN list : list[i] = s
           l == Unlink(list, s)
           L == Len(list)
           front == SubSeq(list, 1, n - 1)
           back == SubSeq(list, n + 1, L)
<1>1. n \in 1 .. L /\ list[n] = s /\ L \in Nat /\ DOMAIN list = 1 .. L
  BY DEF Range
<1>2. l = front \o back
  BY DEF Unlink, RemoveAt
<1> HIDE DEF n, l
<1>3. \A i \in 1 .. L : list[i] \in S
  OBVIOUS
<1>4. /\ front \in Seq(S) /\ Len(front) = n - 1
      /\ \A i \in 1 .. n - 1 : front[i] = list[i]
  <2>1. \A i \in 1 .. n - 1 : list[i] \in S
    BY <1>1, <1>3
  <2> QED BY <2>1, <1>1, SubSeqProperties
<1>5. /\ back \in Seq(S) /\ Len(back) = L - n
      /\ \A i \in 1 .. L - n : back[i] = list[n + i]
  <2>1. \A i \in n + 1 .. L : list[i] \in S
    BY <1>1, <1>3
  <2>2. n + 1 \in Int /\ L \in Int
    BY <1>1
  <2>3. /\ back \in Seq(S) /\ Len(back) = IF n + 1 <= L THEN L - (n + 1) + 1 ELSE 0
        /\ \A i \in 1 .. L - (n + 1) + 1 : back[i] = list[n + 1 + i - 1]
    BY <2>1, <2>2, SubSeqProperties
  <2>4. L - (n + 1) + 1 = L - n
    BY <1>1
  <2> HIDE DEF back
  <2>5. Len(back) = L - n
    <3> DEFINE b == Len(back)
    <3>1. b = IF n + 1 <= L THEN L - (n + 1) + 1 ELSE 0
      BY <2>3
    <3>2. n \in Int /\ L \in Int /\ n <= L
      BY <1>1
    <3> HIDE DEF b, L
    <3>3. b = L - n
      BY <3>1, <3>2
    <3> QED BY <3>3 DEF b
  <2>6. ASSUME NEW i \in 1 .. L - n PROVE back[i] = list[n + i]
    <3>1. back[i] = list[n + 1 + i - 1]
      BY <2>3, <2>4
    <3>2. n + 1 + i - 1 = n + i
      BY <1>1
    <3> QED BY <3>1, <3>2
  <2> QED BY <2>3, <2>5, <2>6
<1> HIDE DEF front, back
<1>6. /\ l \in Seq(S) /\ Len(l) = L - 1
      /\ \A i \in 1 .. L - 1 : l[i] = IF i < n THEN list[i] ELSE list[i + 1]
  <2>1. /\ l \in Seq(S) /\ Len(l) = Len(front) + Len(back)
        /\ \A i \in 1 .. Len(front) + Len(back) :
              l[i] = IF i <= Len(front) THEN front[i] ELSE back[i - Len(front)]
    BY <1>2, <1>4, <1>5, ConcatProperties
  <2>2. Len(front) = n - 1 /\ Len(front) + Len(back) = L - 1
    BY <1>1, <1>4, <1>5
  <2>3. ASSUME NEW i \in 1 .. L - 1
        PROVE  l[i] = IF i < n THEN list[i] ELSE list[i + 1]
    <3>1. CASE i < n
      <4>1. l[i] = front[i] /\ i \in 1 .. n - 1
        BY <3>1, <2>1, <2>2, <1>1
      <4> QED BY <4>1, <3>1, <1>4
    <3>2. CASE ~ (i < n)
      <4>1. i - (n - 1) \in 1 .. L - n /\ n + (i - (n - 1)) = i + 1
        BY <3>2, <1>1
      <4>2. l[i] = back[i - (n - 1)]
        BY <3>2, <2>1, <2>2, <1>1
      <4> QED BY <4>1, <4>2, <3>2, <1>5
    <3> QED BY <3>1, <3>2
  <2> QED BY <2>1, <2>2, <2>3
<1>7. DOMAIN l = 1 .. L - 1
  BY <1>6
<1>8. IsInjective(l)
  <2> SUFFICES ASSUME NEW p \in 1 .. L - 1, NEW q \in 1 .. L - 1, l[p] = l[q]
               PROVE  p = q
    BY <1>7 DEF IsInjective
  <2> DEFINE Old(i) == IF i < n THEN i ELSE i + 1
  <2>1. Old(p) \in 1 .. L /\ Old(q) \in 1 .. L /\ list[Old(p)] = list[Old(q)]
    BY <1>1, <1>6
  <2>2. Old(p) = Old(q)
    BY <2>1, <1>1 DEF IsInjective
  <2> QED BY <2>2, <1>1
<1>9. Range(l) \subseteq Range(list) \ {s}
  <2> SUFFICES ASSUME NEW p \in 1 .. L - 1 PROVE l[p] \in Range(list) /\ l[p] # s
    BY <1>7 DEF Range
  <2> DEFINE o == IF p < n THEN p ELSE p + 1
  <2>1. o \in 1 .. L /\ o # n /\ l[p] = list[o]
    BY <1>1, <1>6
  <2> QED BY <2>1, <1>1 DEF IsInjective, Range
<1>10. Range(list) \ {s} \subseteq Range(l)
  <2> SUFFICES ASSUME NEW p \in 1 .. L, list[p] # s PROVE list[p] \in Range(l)
    BY <1>1 DEF Range
  <2>1. CASE p < n
    <3>1. p \in 1 .. L - 1 /\ l[p] = list[p]
      BY <2>1, <1>1, <1>6
    <3> QED BY <3>1, <1>7 DEF Range
  <2>2. CASE p > n
    <3>1. PICK i : i = p - 1
      OBVIOUS
    <3>2. i \in 1 .. L - 1 /\ ~ (i < n) /\ i + 1 = p
      BY <2>2, <3>1, <1>1
    <3>3. l[i] = list[p]
      BY <3>2, <1>6
    <3> QED BY <3>2, <3>3, <1>7 DEF Range
  <2> QED BY <2>1, <2>2, <1>1
<1>11. ASSUME NEW p \in DOMAIN l, NEW q \in DOMAIN l, p < q
       PROVE  \E i, j \in DOMAIN list : i < j /\ l[p] = list[i] /\ l[q] = list[j]
  <2> DEFINE Old(i) == IF i < n THEN i ELSE i + 1
  <2>1. Old(p) \in 1 .. L /\ Old(q) \in 1 .. L /\ Old(p) < Old(q)
    BY <1>1, <1>7, <1>11
  <2>2. l[p] = list[Old(p)] /\ l[q] = list[Old(q)]
    BY <1>6, <1>7
  <2> HIDE DEF Old
  <2> QED BY <2>1, <2>2, <1>1
<1>12. ASSUME s # Last(list) PROVE l # <<>> /\ Last(l) = Last(list)
  <2>1. n < L /\ Last(list) = list[L]
    BY <1>1, <1>12 DEF Last
  <2>2. Len(l) = L - 1 /\ L - 1 \in 1 .. L - 1 /\ l[L - 1] = list[L]
    BY <1>1, <1>6, <2>1
  <2> QED BY <2>1, <2>2, <1>6 DEF Last
<1> QED BY <1>6, <1>8, <1>9, <1>10, <1>11, <1>12 DEF l

\* The lists that sm_load_sectors makes hold the sectors they are made of, once each.
LEMMA InOrderLists ==
    ASSUME NEW S, S \subseteq Sector, NEW sn \in [Sector -> Nat], NEW list \in InOrder(S, sn)
    PROVE  list \in Seq(Sector) /\ IsInjective(list) /\ Range(list) = S
<1>1. IsFiniteSet(S)
  <2>1. IsFiniteSet(Sector)
    BY SecNumAssumption, FS_Interval DEF Sector
  <2> QED BY <2>1, FS_Subset
<1> DEFINE N == Cardinality(S)
<1>2. N \in Nat
  BY <1>1, FS_CardinalityType
<1>3. list \in [1 .. N -> S]
  BY DEF InOrder
<1>4. \A m, n \in 1 .. N : m < n =>
          sn[list[m]] < sn[list[n]] \/ (sn[list[m]] = sn[list[n]] /\ list[m] < list[n])
  BY <1>3 DEF InOrder
<1> HIDE DEF N
<1>5. IsInjective(list)
  <2> SUFFICES ASSUME NEW m \in 1 .. N, NEW n \in 1 .. N, list[m] = list[n], m < n
               PROVE  FALSE
    BY <1>2, <1>3 DEF IsInjective
  <2>1. list[m] \in Sector
    BY <1>3
  <2>2. sn[list[m]] \in Nat /\ list[m] \in Int
    BY <2>1, SecNumAssumption DEF Sector
  <2>3. sn[list[m]] < sn[list[n]] \/ (sn[list[m]] = sn[list[n]] /\ list[m] < list[n])
    BY <1>4
  <2> QED BY <2>2, <2>3
<1>6. list \in Injection(1 .. N, S)
  BY <1>3, <1>5 DEF Injection, IsInjective
<1>7. Cardinality(1 .. N) = N
  BY <1>2, FS_Interval
<1>8. list \in Surjection(1 .. N, S)
  BY <1>1, <1>6, <1>7, FS_Injection DEF N
<1>9. Range(list) = S
  BY <1>3, <1>8 DEF Surjection, Range
<1>10. list \in Seq(Sector)
  <2>1. list \in [1 .. N -> Sector]
    BY <1>3
  <2> QED BY <2>1, <1>2
<1> QED BY <1>5, <1>9, <1>10

\* Giving up the last of several sectors.
LEMMA FrontRange ==
    ASSUME NEW S, NEW list \in Seq(S), IsInjective(list), list # <<>>
    PROVE  /\ Front(list) \in Seq(S) /\ IsInjective(Front(list))
           /\ Range(Front(list)) = Range(list) \ {Last(list)}
           /\ \A i \in DOMAIN Front(list) : i \in DOMAIN list /\ Front(list)[i] = list[i]
<1> DEFINE l == Front(list)
           L == Len(list)
<1>1. /\ L \in Nat \ {0} /\ DOMAIN list = 1 .. L /\ Last(list) = list[L]
      /\ \A i \in 1 .. L : list[i] \in S
  BY DEF Last
<1>2. l = SubSeq(list, 1, L - 1)
  BY DEF Front
<1> HIDE DEF l, L
<1>3. /\ l \in Seq(S) /\ Len(l) = L - 1
      /\ \A i \in 1 .. L - 1 : l[i] = list[i]
  <2>1. /\ l \in Seq(S) /\ Len(l) = IF 1 <= L - 1 THEN L - 1 - 1 + 1 ELSE 0
        /\ \A i \in 1 .. L - 1 - 1 + 1 : l[i] = list[1 + i - 1]
    BY <1>1, <1>2, SubSeqProperties
  <2>2. L - 1 - 1 + 1 = L - 1 /\ \A i \in 1 .. L - 1 : 1 + i - 1 = i
    BY <1>1
  <2>3. Len(l) = L - 1
    BY <2>1, <2>2, <1>1
  <2> QED BY <2>1, <2>2, <2>3
<1>4. DOMAIN l = 1 .. L - 1
  BY <1>3
<1>5. IsInjective(l)
  BY <1>1, <1>3, <1>4 DEF IsInjective
<1>6. Range(l) \subseteq Range(list) \ {Last(list)}
  <2> SUFFICES ASSUME NEW i \in 1 .. L - 1 PROVE l[i] \in Range(list) \ {Last(list)}
    BY <1>4 DEF Range
  <2>1. i \in 1 .. L /\ L \in 1 .. L /\ i # L /\ l[i] = list[i]
    BY <1>1, <1>3
  <2> QED BY <2>1, <1>1 DEF IsInjective, Range
<1>7. Range(list) \ {Last(list)} \subseteq Range(l)
  <2> SUFFICES ASSUME NEW i \in 1 .. L, list[i] # Last(list) PROVE list[i] \in Range(l)
    BY <1>1 DEF Range
  <2>1. i \in 1 .. L - 1 /\ l[i] = list[i]
    BY <1>1, <1>3
  <2> QED BY <2>1, <1>4 DEF Range
<1>8. \A i \in DOMAIN l : i \in DOMAIN list /\ l[i] = list[i]
  BY <1>1, <1>3, <1>4
<1> QED BY <1>3, <1>5, <1>6, <1>7, <1>8 DEF l

-----------------------------------------------------------------------------
(* The steps that actions share *)

LEMMA ActivateKeeps ==
    ASSUME StoreType, ListsOK, idle # <<>>, Activate
    PROVE  /\ StoreType' /\ ListsOK'
           /\ Head(idle) \in Sector \ Range(active)
           /\ Range(active') = Range(active) \union {Head(idle)}
           /\ \A t \in Sector : flash'[t].hdr \in {flash[t].hdr, "erased"}
           /\ \A t \in Sector \ {Head(idle)} : flash'[t] = flash[t] /\ ram'[t] = ram[t]
           /\ ram'[Head(idle)].st \in {ram[Head(idle)].st, "uninit"}
<1> DEFINE s == Head(idle)
<1>1. /\ s \in Sector /\ s \in Range(idle) /\ s \notin Range(active)
      /\ Tail(idle) \in Seq(Sector) /\ IsInjective(Tail(idle))
      /\ Range(Tail(idle)) = Range(idle) \ {s}
  BY TailRange DEF StoreType, ListsOK
<1>2. /\ active' \in Seq(Sector) /\ IsInjective(active') /\ active' # <<>>
      /\ Range(active') = Range(active) \union {s}
  BY <1>1, AppendRange DEF StoreType, ListsOK, Activate
<1>3. idle' = Tail(idle) /\ serial' \in Nat
  BY DEF Activate, StoreType
<1>4. flash' \in [Sector -> FlashSector]
  BY <1>1, BlankType DEF Activate, StoreType
<1>5. ram' \in [Sector -> RamSector]
  <2>1. ram[s] \in RamSector /\ Unloaded \in RamSector /\ serial \in Nat
    BY <1>1, BlankType DEF StoreType
  <2>2. [(IF ram[s].st = "crash" THEN Unloaded ELSE ram[s]) EXCEPT !.sn = serial] \in RamSector
    BY <2>1 DEF RamSector
  <2>3. ram' = [ram EXCEPT ![s] = [(IF ram[s].st = "crash" THEN Unloaded ELSE ram[s])
                                      EXCEPT !.sn = serial]]
    BY DEF Activate, StoreType
  <2> QED BY <2>2, <2>3 DEF StoreType
<1>6. StoreType'
  BY <1>1, <1>2, <1>3, <1>4, <1>5 DEF StoreType
<1>7. ListsOK'
  BY <1>1, <1>2, <1>3 DEF ListsOK
<1>8. /\ \A t \in Sector : flash'[t].hdr \in {flash[t].hdr, "erased"}
      /\ \A t \in Sector \ {s} : flash'[t] = flash[t] /\ ram'[t] = ram[t]
  BY <1>1 DEF Activate, StoreType, Blank
<1>9. ram'[s].st \in {ram[s].st, "uninit"}
  BY <1>1 DEF Activate, StoreType, RamSector, Unloaded
<1> QED BY <1>1, <1>2, <1>6, <1>7, <1>8, <1>9

LEMMA InitSectorKeeps ==
    ASSUME StoreType, NEW s \in Sector, InitSector(s), UNCHANGED <<active, idle, serial>>
    PROVE  /\ StoreType'
           /\ flash'[s].hdr = "using"
           /\ \A t \in Sector : flash'[t].log = flash[t].log
           /\ \A t \in Sector \ {s} : flash'[t] = flash[t] /\ ram'[t] = ram[t]
<1>1. flash[s] \in FlashSector /\ ram[s] \in RamSector
  BY DEF StoreType
<1>2. flash' \in [Sector -> FlashSector]
  BY <1>1 DEF InitSector, StoreType, FlashSector, HeaderStatus, RamSector
<1>3. ram' \in [Sector -> RamSector]
  <2>1. [Unloaded EXCEPT !.st = "using", !.sn = ram[s].sn, !.hash = ram[s].hash] \in RamSector
    BY <1>1, BlankType DEF RamSector, RamStatus
  <2> QED BY <2>1 DEF InitSector, StoreType
<1>4. /\ flash'[s].hdr = "using"
      /\ \A t \in Sector : flash'[t].log = flash[t].log
      /\ \A t \in Sector \ {s} : flash'[t] = flash[t] /\ ram'[t] = ram[t]
  BY <1>1 DEF InitSector, StoreType, FlashSector
<1> QED BY <1>2, <1>3, <1>4 DEF StoreType

LEMMA SetStateKeeps ==
    ASSUME StoreType, NEW s \in Sector, NEW st \in {"deleting", "crash"}, SetState(s, st),
           UNCHANGED <<active, idle, serial>>
    PROVE  /\ StoreType'
           /\ flash'[s].hdr = st /\ ram'[s].st = st
           /\ \A t \in Sector : flash'[t].log = flash[t].log
           /\ \A t \in Sector \ {s} : flash'[t] = flash[t] /\ ram'[t] = ram[t]
<1>1. flash[s] \in FlashSector /\ ram[s] \in RamSector
  BY DEF StoreType
<1>2. flash' \in [Sector -> FlashSector]
  BY <1>1 DEF SetState, StoreType, FlashSector, HeaderStatus
<1>3. ram' \in [Sector -> RamSector]
  BY <1>1 DEF SetState, StoreType, RamSector, RamStatus
<1>4. /\ flash'[s].hdr = st /\ ram'[s].st = st
      /\ \A t \in Sector : flash'[t].log = flash[t].log
      /\ \A t \in Sector \ {s} : flash'[t] = flash[t] /\ ram'[t] = ram[t]
  BY <1>1 DEF SetState, StoreType, FlashSector, RamSector
<1> QED BY <1>2, <1>3, <1>4 DEF StoreType

LEMMA EraseKeeps ==
    ASSUME StoreType, ListsOK, NEW s \in Range(active), Range(active) # {s}, EraseToIdle(s)
    PROVE  /\ StoreType' /\ ListsOK'
           /\ s \in Sector /\ flash'[s].hdr = "erased" /\ ram'[s].st = "uninit"
           /\ \A t \in Sector \ {s} : flash'[t] = flash[t] /\ ram'[t] = ram[t]
           /\ Range(active') = Range(active) \ {s}
<1>1. s \in Sector /\ s \notin Range(idle)
  BY DEF ListsOK
<1>2. /\ active' \in Seq(Sector) /\ IsInjective(active')
      /\ Range(active') = Range(active) \ {s}
  BY UnlinkRange DEF EraseToIdle, ListsOK, StoreType
<1>3. /\ idle' \in Seq(Sector) /\ IsInjective(idle')
      /\ Range(idle') = Range(idle) \union {s}
  BY <1>1, AppendRange DEF EraseToIdle, ListsOK, StoreType
<1>4. active' # <<>>
  BY <1>2, InRange
<1>5. flash' \in [Sector -> FlashSector]
  BY <1>1, BlankType DEF EraseToIdle, StoreType
<1>6. ram' \in [Sector -> RamSector]
  <2>1. ram[s] \in RamSector
    BY <1>1 DEF StoreType
  <2>2. [Unloaded EXCEPT !.sn = ram[s].sn] \in RamSector
    BY <2>1, BlankType DEF RamSector
  <2> QED BY <2>2 DEF EraseToIdle, StoreType
<1>7. StoreType'
  BY <1>2, <1>3, <1>5, <1>6 DEF StoreType, EraseToIdle
<1>8. ListsOK'
  BY <1>2, <1>3, <1>4 DEF ListsOK
<1>9. /\ flash'[s].hdr = "erased" /\ ram'[s].st = "uninit"
      /\ \A t \in Sector \ {s} : flash'[t] = flash[t] /\ ram'[t] = ram[t]
  BY <1>1 DEF EraseToIdle, StoreType, Blank, Unloaded
<1> QED BY <1>1, <1>2, <1>7, <1>8, <1>9

LEMMA WriteHeaderKeeps ==
    ASSUME StoreType, NEW s \in Sector, NEW it \in Item, WriteHeader(s, it)
    PROVE  /\ flash' \in [Sector -> FlashSector]
           /\ flash'[s].log # <<>>
           /\ \A t \in Sector : flash'[t].hdr = flash[t].hdr
           /\ \A t \in Sector \ {s} : flash'[t] = flash[t]
<1> DEFINE h == HeaderWritten(flash[s], it)
<1>1. flash[s] \in FlashSector
  BY DEF StoreType
<1>2. h \in Item
  BY <1>1, HeaderWrittenType
<1> HIDE DEF h
<1>3. [flash[s] EXCEPT !.log = Append(@, h)] \in FlashSector
  BY <1>1, <1>2, AppendedType
<1>4. flash' = [flash EXCEPT ![s] = [flash[s] EXCEPT !.log = Append(@, h)]]
  BY DEF WriteHeader, h, StoreType
<1>5. flash[s].log \in Seq(Item)
  BY <1>1 DEF FlashSector
<1>6. Append(flash[s].log, h) # <<>>
  BY <1>5
<1> QED BY <1>1, <1>3, <1>4, <1>6 DEF StoreType, FlashSector

LEMMA AccountKeeps ==
    ASSUME StoreType, NEW s \in Sector, NEW it, it.at \in Nat, it.span \in Nat, Account(s, it)
    PROVE  /\ ram' \in [Sector -> RamSector]
           /\ \A t \in Sector : ram'[t].st = ram[t].st
<1>1. ram[s] \in RamSector /\ ram[s].used \in Nat /\ ram[s].next \in Nat
  BY SlicesAssumption DEF StoreType, RamSector, CounterMod
<1>2. Count(ram[s].used + it.span) \in 0 .. CounterMod - 1
  BY <1>1, CountIsByte
<1>3. ram' = [ram EXCEPT ![s] = [ram[s] EXCEPT !.next = ram[s].next + it.span,
                                 !.used = Count(ram[s].used + it.span),
                                 !.hash = ram[s].hash \union {it.at}]]
  BY DEF Account, StoreType
<1>4. [ram[s] EXCEPT !.next = ram[s].next + it.span, !.used = Count(ram[s].used + it.span),
                     !.hash = ram[s].hash \union {it.at}] \in RamSector
  <2> DEFINE c == Count(ram[s].used + it.span)
             nx == ram[s].next + it.span
             h == ram[s].hash \union {it.at}
  <2>1. nx \in Nat
    BY <1>1
  <2>2. h \in SUBSET Nat
    BY <1>1 DEF RamSector
  <2>3. c \in 0 .. CounterMod - 1
    BY <1>2
  <2> HIDE DEF c, nx, h
  <2>4. [ram[s] EXCEPT !.next = nx, !.used = c, !.hash = h] \in RamSector
    BY <1>1, <2>1, <2>2, <2>3 DEF RamSector
  <2> QED BY <2>4 DEF c, nx, h
<1> QED BY <1>1, <1>3, <1>4 DEF StoreType, RamSector

LEMMA WriteDataKeeps ==
    ASSUME StoreType, NEW s \in Sector, flash[s].log # <<>>, WriteData(s)
    PROVE  /\ flash' \in [Sector -> FlashSector] /\ ram' \in [Sector -> RamSector]
           /\ \A t \in Sector : flash'[t].hdr = flash[t].hdr /\ ram'[t].st = ram[t].st
           /\ \A t \in Sector \ {s} : flash'[t] = flash[t]
<1> DEFINE n == Len(flash[s].log)
           it == flash[s].log[n]
<1>1. flash[s] \in FlashSector /\ flash[s].log \in Seq(Item)
  BY DEF StoreType, FlashSector
<1>2. n \in 1 .. Len(flash[s].log) /\ it \in Item
  BY <1>1
<1>3. PICK st \in DataWritten(flash[s], it) : flash' = [flash EXCEPT ![s].log[n].st = st]
  BY DEF WriteData
<1>4. st \in ItemStatus
  BY <1>3 DEF DataWritten, ItemStatus
<1>5. [it EXCEPT !.st = st] \in Item
  BY <1>2, <1>4 DEF Item
<1>6. Account(s, it)
  BY DEF WriteData
<1>7. it.at \in Nat /\ it.span \in Nat
  BY <1>2 DEF Item
<1>8. ram' \in [Sector -> RamSector] /\ \A t \in Sector : ram'[t].st = ram[t].st
  BY <1>6, <1>7, AccountKeeps
<1>9. flash' = [flash EXCEPT ![s] = [flash[s] EXCEPT
                   !.log = [flash[s].log EXCEPT ![n] = [it EXCEPT !.st = st]]]]
  BY <1>3 DEF StoreType
<1> HIDE DEF n, it
<1>10. [flash[s].log EXCEPT ![n] = [it EXCEPT !.st = st]] \in Seq(Item)
  BY <1>1, <1>2, <1>5, ExceptSeq
<1>11. /\ flash' \in [Sector -> FlashSector]
       /\ \A t \in Sector : flash'[t].hdr = flash[t].hdr
       /\ \A t \in Sector \ {s} : flash'[t] = flash[t]
  BY <1>1, <1>9, <1>10 DEF StoreType, FlashSector
<1> QED BY <1>8, <1>11

LEMMA DropItemKeeps ==
    ASSUME StoreType, NEW s \in Sector, NEW at \in Nat, NEW span \in Nat, DropItem(s, at, span)
    PROVE  /\ flash' \in [Sector -> FlashSector] /\ ram' \in [Sector -> RamSector]
           /\ \A t \in Sector : flash'[t].hdr = flash[t].hdr /\ ram'[t].st = ram[t].st
<1>1. flash[s] \in FlashSector /\ ram[s] \in RamSector /\ ram[s].droped \in Nat
  BY SlicesAssumption DEF StoreType, RamSector, CounterMod
<1>2. DropAt(flash[s], at) \in FlashSector /\ DropAt(flash[s], at).hdr = flash[s].hdr
  BY <1>1, DropAtType
<1>3. Count(ram[s].droped + span) \in 0 .. CounterMod - 1
  BY <1>1, CountIsByte
<1>4. flash' = [flash EXCEPT ![s] = DropAt(flash[s], at)]
  BY DEF DropItem, StoreType
<1>5. ram' = [ram EXCEPT ![s] = [ram[s] EXCEPT !.droped = Count(ram[s].droped + span),
                                               !.hash = ram[s].hash \ {at}]]
  BY DEF DropItem, StoreType
<1>6. [ram[s] EXCEPT !.droped = Count(ram[s].droped + span),
                     !.hash = ram[s].hash \ {at}] \in RamSector
  BY <1>1, <1>3 DEF RamSector
<1> QED BY <1>1, <1>2, <1>4, <1>5, <1>6 DEF StoreType, RamSector

-----------------------------------------------------------------------------
(* One active sector is the current one *)

LEMMA CurActive ==
    ASSUME StoreType, ListsOK
    PROVE  Cur \in Range(active) /\ Cur \in Sector /\ Range(active) \subseteq Sector
<1>1. Cur \in Range(active) /\ Range(active) \subseteq Sector
  BY InRange DEF StoreType, ListsOK, Cur
<1> QED BY <1>1

LEMMA MatchesType ==
    ASSUME StoreType, NEW s \in Sector, NEW k, NEW ts
    PROVE  /\ Matches(flash[s], ram[s], k, ts) \subseteq Nat
           /\ \A i \in Matches(flash[s], ram[s], k, ts) : flash[s].log[i] \in Item
<1>1. flash[s].log \in Seq(Item)
  BY DEF StoreType, FlashSector
<1>2. DOMAIN flash[s].log = 1 .. Len(flash[s].log) /\ Len(flash[s].log) \in Nat
  BY <1>1
<1>3. Matches(flash[s], ram[s], k, ts) \subseteq DOMAIN flash[s].log
  BY DEF Matches, LiveAt
<1> QED BY <1>1, <1>2, <1>3

\* What a lookup finds is an item of a sector.
LEMMA FindItemType ==
    ASSUME StoreType, NEW k, NEW ts
    PROVE  /\ FindItem(k, ts).found \in BOOLEAN /\ FindItem(k, ts).sec \in Sector
           /\ FindItem(k, ts).found => FoundItem(FindItem(k, ts)) \in Item
<1> DEFINE Has == {n \in DOMAIN active : Matches(flash[active[n]], ram[active[n]], k, ts) # {}}
           f == FindItem(k, ts)
           s == active[LeastOf(Has)]
           M == Matches(flash[s], ram[s], k, ts)
<1>1. CASE Has = {}
  BY <1>1, SecNumAssumption DEF FindItem, Sector
<1>2. CASE Has # {}
  <2>1. Has \subseteq Nat
    BY DEF StoreType
  <2>2. LeastOf(Has) \in Has
    BY <1>2, <2>1, LeastOfIsLeast
  <2>3. s \in Sector /\ M # {}
    <3>1. LeastOf(Has) \in DOMAIN active /\ M # {}
      BY <2>2
    <3>2. \A n \in DOMAIN active : active[n] \in Sector
      BY DEF StoreType
    <3>3. s \in Sector
      BY <3>1, <3>2
    <3> HIDE DEF M, s
    <3> QED BY <3>1, <3>3
  <2>4. M \subseteq Nat /\ \A i \in M : flash[s].log[i] \in Item
    BY <2>3, MatchesType
  <2>5. LeastOf(M) \in M
    BY <2>3, <2>4, LeastOfIsLeast
  <2>6. f = [found |-> TRUE, sec |-> s, i |-> LeastOf(M)]
    BY <1>2 DEF FindItem
  <2>7. FoundItem(f) = flash[s].log[LeastOf(M)]
    <3>1. f.sec = s /\ f.i = LeastOf(M)
      <4> HIDE DEF f, M, s
      <4> QED BY <2>6
    <3> HIDE DEF f, M, s
    <3> QED BY <3>1 DEF FoundItem
  <2> HIDE DEF f, M, s
  <2> QED BY <2>3, <2>4, <2>5, <2>6, <2>7 DEF f
<1> QED BY <1>1, <1>2

LEMMA LiveType ==
    ASSUME StoreType, NEW s \in Sector
    PROVE  /\ LiveAt(flash[s].log) \subseteq 1 .. Len(flash[s].log)
           /\ Len(flash[s].log) \in Nat
           /\ \A i \in LiveAt(flash[s].log) : flash[s].log[i] \in Item
<1>1. flash[s].log \in Seq(Item)
  BY DEF StoreType, FlashSector
<1> QED BY <1>1 DEF LiveAt

\* What a collection copies next is an item, moved.
LEMMA CopiedType ==
    ASSUME StoreType, ControlType, ToCopy # {}
    PROVE  /\ LeastOf(ToCopy) \in Nat /\ Copied \in Item
           /\ Copied.at \in Nat /\ Copied.span \in Nat /\ Copied.key \in Keys
<1> DEFINE it == flash[gc.src].log[LeastOf(ToCopy)]
<1>1. gc.src \in Sector /\ gc.d \in Nat
  BY DEF ControlType
<1>2. ToCopy \subseteq LiveAt(flash[gc.src].log)
  BY DEF ToCopy
<1>3. /\ LiveAt(flash[gc.src].log) \subseteq Nat
      /\ \A i \in LiveAt(flash[gc.src].log) : flash[gc.src].log[i] \in Item
  BY <1>1, LiveType, SMTT(30)
<1>4. LeastOf(ToCopy) \in ToCopy
  BY <1>2, <1>3, LeastOfIsLeast
<1>5. LeastOf(ToCopy) \in Nat /\ it \in Item
  BY <1>2, <1>3, <1>4
<1>6. Copied = [it EXCEPT !.at = gc.d]
  BY DEF Copied
<1> HIDE DEF it
<1>7. Copied \in Item
  BY <1>1, <1>5, <1>6 DEF Item
<1> QED BY <1>5, <1>7 DEF Item

-----------------------------------------------------------------------------
(* Steps that leave flash, RAM and the lists alone *)

LEMMA SetSameKeeps ==
    ASSUME IInv, NEW k \in Keys, NEW v \in Values, SetSame(k, v)
    PROVE  IInv'
<1>1. /\ UNCHANGED <<flash, ram, active, idle, serial, pc, op, gc, lost, crashes>>
      /\ res' = "ok"
  BY DEF SetSame, loaded
<1>2. StoreType' /\ ControlType'
  BY <1>1 DEF IInv, TypeOK, StoreType, ControlType
<1> QED BY <1>1, <1>2 DEF IInv, TypeOK, ListsOK, OpSet, GcSet, InGc, Calling, DataBegun,
                          Recovering, Headers, IsDeleting, Cur, ToCopy

LEMMA SetBeginKeeps ==
    ASSUME IInv, NEW k \in Keys, NEW v \in Values, SetBegin(k, v)
    PROVE  IInv'
<1> DEFINE f == FindItem(k, Types)
<1>1. /\ UNCHANGED <<flash, ram, active, idle, serial, gc, lost, crashes>>
      /\ pc = "ready" /\ pc' = "write" /\ res' = "none"
  BY DEF SetBegin, loaded
<1>2. /\ f.found \in BOOLEAN /\ f.sec \in Sector
      /\ f.found => FoundItem(f) \in Item
  BY FindItemType DEF IInv, TypeOK
<1>3. op' = [k |-> k, v |-> v, found |-> f.found, sec |-> f.sec,
             at  |-> IF f.found THEN FoundItem(f).at ELSE 0,
             old |-> IF f.found THEN FoundItem(f).val ELSE NoValue, retry |-> FALSE]
  BY DEF SetBegin
<1> HIDE DEF f
<1>4. /\ op' \in [k : Keys \union {NoValue}, v : Values \union {NoValue}, found : BOOLEAN,
                  sec : Sector, at : Nat, old : Values \union {NoValue}, retry : BOOLEAN]
      /\ OpSet'
  BY <1>2, <1>3 DEF OpSet, Item
<1>5. StoreType' /\ ControlType'
  BY <1>1, <1>4 DEF IInv, TypeOK, StoreType, ControlType
<1> QED BY <1>1, <1>4, <1>5 DEF IInv, TypeOK, ListsOK, GcSet, InGc, DataBegun, Recovering,
                                Headers, IsDeleting

\* The returns that change nothing but how the call ended.
LEMMA ReturnKeeps ==
    ASSUME IInv, WriteTooLong \/ WriteFull \/ RequestNoSpace
    PROVE  IInv'
<1>1. /\ UNCHANGED <<flash, ram, active, idle, serial, gc, lost, crashes>>
      /\ pc = "write" /\ pc' = "ready" /\ op' = NoOp
      /\ res' \in {"toolong", "full", "nospace"}
  BY DEF WriteTooLong, WriteFull, RequestNoSpace, NeedSector, Return, loaded
<1>2. StoreType' /\ ControlType'
  BY <1>1, SecNumAssumption DEF IInv, TypeOK, StoreType, ControlType, NoOp, Sector
<1> QED BY <1>1, <1>2 DEF IInv, TypeOK, ListsOK, OpSet, GcSet, InGc, Calling, DataBegun,
                          Recovering, Headers, IsDeleting

\* A sector that RAM says is being deleted, and the list position the recovery finds it by.
LEMMA DeletingFound ==
    ASSUME StoreType
    PROVE  /\ Deleting = {} <=> ~ \E s \in Range(active) : ram[s].st = "deleting"
           /\ Deleting # {} => /\ active[LeastOf(Deleting)] \in Range(active)
                               /\ ram[active[LeastOf(Deleting)]].st = "deleting"
<1>1. Deleting \subseteq Nat
  BY DEF Deleting, StoreType
<1>2. Deleting # {} => LeastOf(Deleting) \in Deleting
  BY <1>1, LeastOfIsLeast
<1> QED BY <1>2 DEF Deleting, Range

LEMMA CheckKeeps ==
    ASSUME IInv, CheckWriteNothing \/ CheckGcNothing \/ CheckGcKeep
    PROVE  IInv'
<1>1. UNCHANGED <<flash, ram, active, idle, serial, op, gc, res, lost, crashes>>
  BY DEF CheckWriteNothing, CheckGcNothing, CheckGcKeep, loaded
<1>2. \/ pc = "checkwrite" /\ pc' = "checkgc"
      \/ pc = "checkgc" /\ Deleting = {} /\ pc' = "finish"
      \/ pc = "checkgc" /\ Deleting # {} /\ pc' = "recgc"
  BY DEF CheckWriteNothing, CheckGcNothing, CheckGcKeep
<1>3. StoreType' /\ ControlType'
  BY <1>1, <1>2 DEF IInv, TypeOK, StoreType, ControlType
<1>4. Deleting = {} <=> ~ \E s \in Range(active) : ram[s].st = "deleting"
  BY DeletingFound DEF IInv, TypeOK
<1>5. Headers'
  BY <1>1, <1>2, <1>4 DEF IInv, Headers, IsDeleting
<1>6. Recovering'
  BY <1>1, <1>2, <1>4 DEF Recovering
<1> QED BY <1>1, <1>2, <1>3, <1>5, <1>6 DEF IInv, TypeOK, ListsOK, InGc, Calling, DataBegun

\* A collection for one item is one that has that item, and so it stays.
LEMMA IInvCollects == IInv <=> CollectInv /\ (Calling => OpSet)
BY DEF IInv, CollectInv, Calling

LEMMA IInvCollectsNext == IInv' <=> CollectInv' /\ (Calling' => OpSet')
BY IInvCollects, PTL

LEMMA PowerOffKeeps ==
    ASSUME CollectInv, PowerOff
    PROVE  IInv'
<1>1. /\ pc # "off" /\ pc' = "off" /\ flash' \in Torn
      /\ ram' = [s \in Sector |-> Unloaded]
      /\ active' = <<>> /\ idle' = <<>> /\ serial' = 0 /\ gc' = NoGc
      /\ crashes' = crashes + 1
      /\ UNCHANGED <<op, res>>
      /\ StoreType /\ ControlType /\ ListsOK
  BY DEF PowerOff, CollectInv, TypeOK
<1>2. Cur \in Sector
  BY <1>1, CurActive
<1>3. lost' \in SUBSET Keys
  <2>1. pc \in {"data", "eraseold"} => op.k \in Keys
    BY DEF CollectInv, OpSet
  <2> QED BY <1>1, <2>1 DEF PowerOff, ControlType
<1>4. /\ flash' \in [Sector -> FlashSector]
      /\ \A s \in Sector : IsDeleting(s)' => IsDeleting(s)
  <2>1. flash \in [Sector -> FlashSector]
    BY <1>1 DEF StoreType
  <2>2. ASSUME NEW s \in Sector, flash' = [flash EXCEPT ![s].hdr = "crash"]
        PROVE  <1>4!1 /\ <1>4!2
    BY <2>1, <2>2 DEF FlashSector, HeaderStatus, IsDeleting
  <2>3. ASSUME NEW s \in Sector, NEW it \in Item, NEW f \in HeaderTorn(flash[s], it),
               flash' = [flash EXCEPT ![s] = f]
        PROVE  <1>4!1 /\ <1>4!2
    <3>1. f \in FlashSector /\ f.hdr = flash[s].hdr
      BY <2>1, HeaderTornType
    <3> QED BY <2>1, <2>3, <3>1 DEF IsDeleting
  <2>4. CASE flash' = flash
    BY <2>1, <2>4 DEF IsDeleting
  <2>5. CASE pc = "write" /\ ram[Cur].st = "uninit"
    <3>1. flash' \in {flash, [flash EXCEPT ![Cur].hdr = "crash"]}
      BY <1>1, <2>5 DEF Torn, CanWrite
    <3> QED BY <1>2, <2>2, <2>4, <3>1
  <2>6. CASE CanWrite
    <3>1. NewItem(ram[Cur].next, op.k, op.v) \in Item
      <4>1. ram[Cur].next \in Nat
        BY <1>1, <1>2 DEF StoreType, RamSector
      <4>2. op.k \in Keys /\ op.v \in Values
        BY <2>6 DEF CanWrite, CollectInv, OpSet
      <4> QED BY <4>1, <4>2, NewItemType
    <3>2. PICK f \in HeaderTorn(flash[Cur], NewItem(ram[Cur].next, op.k, op.v)) :
             flash' = [flash EXCEPT ![Cur] = f]
      BY <1>1, <2>6 DEF Torn, CanWrite
    <3> QED BY <1>2, <2>3, <3>1, <3>2
  <2>7. CASE pc = "gcinit"
    <3>1. gc.dst \in Sector
      BY <1>1 DEF ControlType
    <3>2. flash' \in {flash, [flash EXCEPT ![gc.dst].hdr = "crash"]}
      BY <1>1, <2>7 DEF Torn, CanWrite
    <3> QED BY <2>2, <2>4, <3>1, <3>2
  <2>8. CASE pc = "gccopy" /\ ToCopy # {}
    <3>1. gc.dst \in Sector /\ Copied \in Item
      BY <1>1, <2>8, CopiedType DEF ControlType
    <3>2. PICK f \in HeaderTorn(flash[gc.dst], Copied) : flash' = [flash EXCEPT ![gc.dst] = f]
      BY <1>1, <2>8 DEF Torn, CanWrite
    <3> QED BY <2>3, <3>1, <3>2
  <2>9. CASE ~ (pc = "write" /\ ram[Cur].st = "uninit") /\ ~ CanWrite /\ pc # "gcinit"
             /\ ~ (pc = "gccopy" /\ ToCopy # {})
    <3>1. flash' = flash
      BY <1>1, <2>9 DEF Torn
    <3> QED BY <3>1, <2>4
  <2> QED BY <2>5, <2>6, <2>7, <2>8, <2>9
<1>5. StoreType'
  BY <1>1, <1>4, BlankType DEF StoreType
<1>6. ControlType'
  BY <1>1, <1>3, SecNumAssumption DEF ControlType, NoGc, Sector
<1>7. Headers'
  <2>1. \A s, t \in Sector : IsDeleting(s) /\ IsDeleting(t) => s = t
    BY DEF CollectInv, Headers
  <2>2. \A s, t \in Sector : IsDeleting(s)' /\ IsDeleting(t)' => s = t
    BY <1>4, <2>1
  <2> QED BY <1>1, <2>2 DEF Headers
<1> QED BY <1>1, <1>5, <1>6, <1>7 DEF IInv, TypeOK, InGc, Calling, DataBegun, Recovering

LEMMA UnloadKeeps ==
    ASSUME IInv, Unload
    PROVE  IInv'
<1>1. /\ pc' = "off"
      /\ ram' = [s \in Sector |-> Unloaded]
      /\ active' = <<>> /\ idle' = <<>> /\ serial' = 0
      /\ UNCHANGED <<flash, op, gc, res, lost, crashes>>
      /\ StoreType /\ ControlType
  BY DEF Unload, IInv, TypeOK
<1>2. StoreType'
  BY <1>1, BlankType DEF StoreType
<1>3. ControlType'
  BY <1>1 DEF ControlType
<1>4. Headers'
  <2>1. \A s, t \in Sector : IsDeleting(s) /\ IsDeleting(t) => s = t
    BY DEF IInv, Headers
  <2> QED BY <1>1, <2>1 DEF Headers, IsDeleting
<1> QED BY <1>1, <1>2, <1>3, <1>4 DEF IInv, TypeOK, InGc, Calling, DataBegun, Recovering

-----------------------------------------------------------------------------
(* Writing an item *)

LEMMA WriteInitKeeps ==
    ASSUME IInv, WriteInit
    PROVE  IInv'
<1>1. /\ StoreType /\ ControlType /\ ListsOK /\ Headers
      /\ pc = "write" /\ InitSector(Cur)
      /\ UNCHANGED <<active, idle, serial, pc, op, gc, res, lost, crashes>>
  BY DEF WriteInit, IInv, TypeOK
<1>2. Cur \in Sector
  BY <1>1, CurActive
<1>3. /\ StoreType' /\ flash'[Cur].hdr = "using"
      /\ \A t \in Sector \ {Cur} : flash'[t] = flash[t]
  BY <1>1, <1>2, InitSectorKeeps
<1>4. ControlType' /\ ListsOK'
  BY <1>1 DEF ControlType, ListsOK
<1>5. Headers'
  BY <1>1, <1>3 DEF Headers, IsDeleting
<1> QED BY <1>1, <1>3, <1>4, <1>5 DEF IInv, TypeOK, InGc, Calling, OpSet, DataBegun, Recovering

LEMMA WriteItemKeeps ==
    ASSUME IInv, WriteItem
    PROVE  IInv'
<1> DEFINE it == NewItem(ram[Cur].next, op.k, op.v)
<1>1. /\ StoreType /\ ControlType /\ ListsOK /\ Headers /\ OpSet
      /\ pc = "write" /\ WriteHeader(Cur, it)
      /\ pc' \in {"eraseold", "data"}
      /\ \/ Account(Cur, it)
         \/ UNCHANGED ram
      /\ UNCHANGED <<active, idle, serial, op, gc, res, crashes>>
      /\ lost' = lost \union (IF OverStale(Cur, it.at, it.span) THEN {op.k} ELSE {})
  BY DEF WriteItem, CanWrite, IInv, TypeOK, Calling
<1>2. Cur \in Sector
  BY <1>1, CurActive
<1>3. it \in Item
  <2>1. ram[Cur].next \in Nat
    BY <1>1, <1>2 DEF StoreType, RamSector
  <2> QED BY <1>1, <2>1, NewItemType DEF OpSet
<1>4. it.at \in Nat /\ it.span \in Nat
  BY <1>3 DEF Item
<1> HIDE DEF it
<1>5. /\ flash' \in [Sector -> FlashSector] /\ flash'[Cur].log # <<>>
      /\ \A t \in Sector : flash'[t].hdr = flash[t].hdr
  BY <1>1, <1>2, <1>3, WriteHeaderKeeps
<1>6. ram' \in [Sector -> RamSector]
  <2>1. CASE Account(Cur, it)
    BY <1>1, <1>2, <1>4, <2>1, AccountKeeps
  <2>2. CASE UNCHANGED ram
    BY <1>1, <2>2 DEF StoreType
  <2> QED BY <1>1, <2>1, <2>2
<1>7. StoreType' /\ ListsOK'
  BY <1>1, <1>5, <1>6 DEF StoreType, ListsOK
<1>8. ControlType'
  <2>1. lost' \in SUBSET Keys
    BY <1>1 DEF OpSet, ControlType
  <2> QED BY <1>1, <2>1 DEF ControlType
<1>9. Headers'
  BY <1>1, <1>5 DEF Headers, IsDeleting
<1>10. DataBegun'
  BY <1>1, <1>5 DEF DataBegun, Cur
<1> QED BY <1>1, <1>7, <1>8, <1>9, <1>10 DEF IInv, TypeOK, InGc, OpSet, Recovering

LEMMA WriteItemDataKeeps ==
    ASSUME IInv, WriteItemData
    PROVE  IInv'
<1>1. /\ StoreType /\ ControlType /\ ListsOK /\ Headers /\ OpSet
      /\ pc = "data" /\ pc' = "eraseold" /\ WriteData(Cur) /\ flash[Cur].log # <<>>
      /\ UNCHANGED <<active, idle, serial, op, gc, res, lost, crashes>>
  BY DEF WriteItemData, IInv, TypeOK, Calling, DataBegun
<1>2. Cur \in Sector
  BY <1>1, CurActive
<1>3. /\ flash' \in [Sector -> FlashSector] /\ ram' \in [Sector -> RamSector]
      /\ \A t \in Sector : flash'[t].hdr = flash[t].hdr
  BY <1>1, <1>2, WriteDataKeeps
<1>4. StoreType' /\ ListsOK' /\ ControlType'
  BY <1>1, <1>3 DEF StoreType, ListsOK, ControlType
<1>5. Headers'
  BY <1>1, <1>3 DEF Headers, IsDeleting
<1> QED BY <1>1, <1>4, <1>5 DEF IInv, TypeOK, InGc, OpSet, DataBegun, Recovering

LEMMA EraseOldKeeps ==
    ASSUME IInv, EraseOld
    PROVE  IInv'
<1>1. /\ StoreType /\ ControlType /\ ListsOK /\ Headers /\ OpSet
      /\ pc = "eraseold" /\ pc' = "ready" /\ res' = "ok" /\ op' = NoOp
      /\ IF op.found THEN DropItem(op.sec, op.at, SpanOf[op.old]) ELSE UNCHANGED <<flash, ram>>
      /\ UNCHANGED <<active, idle, serial, gc, crashes>>
      /\ lost' \in {lost, lost \union {op.k}}
  BY DEF EraseOld, Return, IInv, TypeOK, Calling
<1>2. /\ flash' \in [Sector -> FlashSector] /\ ram' \in [Sector -> RamSector]
      /\ \A t \in Sector : flash'[t].hdr = flash[t].hdr
  <2>1. CASE op.found
    <3>1. op.sec \in Sector /\ op.at \in Nat /\ SpanOf[op.old] \in Nat
      BY <1>1, <2>1, SpanAssumption DEF ControlType, OpSet
    <3> QED BY <1>1, <2>1, <3>1, DropItemKeeps
  <2>2. CASE ~ op.found
    BY <1>1, <2>2 DEF StoreType
  <2> QED BY <2>1, <2>2
<1>3. StoreType' /\ ListsOK'
  BY <1>1, <1>2 DEF StoreType, ListsOK
<1>4. ControlType'
  <2>1. lost' \in SUBSET Keys
    BY <1>1 DEF OpSet, ControlType
  <2> QED BY <1>1, <2>1, SecNumAssumption DEF ControlType, NoOp, Sector
<1>5. Headers'
  BY <1>1, <1>2 DEF Headers, IsDeleting
<1> QED BY <1>1, <1>3, <1>4, <1>5 DEF IInv, TypeOK, InGc, Calling, DataBegun, Recovering

LEMMA DeleteKeeps ==
    ASSUME IInv, NEW k \in Keys, Delete(k)
    PROVE  IInv'
<1> DEFINE f == FindItem(k, Types)
<1>1. /\ StoreType /\ ControlType /\ ListsOK /\ Headers
      /\ pc = "ready" /\ f.found
      /\ DropItem(f.sec, FoundItem(f).at, FoundItem(f).span)
      /\ UNCHANGED <<active, idle, serial, pc, op, gc, res, lost, crashes>>
  BY DEF Delete, IInv, TypeOK
<1>2. f.sec \in Sector /\ FoundItem(f) \in Item
  BY <1>1, FindItemType
<1> HIDE DEF f
<1>3. FoundItem(f).at \in Nat /\ FoundItem(f).span \in Nat
  BY <1>2 DEF Item
<1>4. /\ flash' \in [Sector -> FlashSector] /\ ram' \in [Sector -> RamSector]
      /\ \A t \in Sector : flash'[t].hdr = flash[t].hdr
  BY <1>1, <1>2, <1>3, DropItemKeeps
<1>5. StoreType' /\ ListsOK' /\ ControlType'
  BY <1>1, <1>4 DEF StoreType, ListsOK, ControlType
<1>6. Headers'
  BY <1>1, <1>4 DEF Headers, IsDeleting
<1> QED BY <1>1, <1>5, <1>6 DEF IInv, TypeOK, InGc, Calling, DataBegun, Recovering

-----------------------------------------------------------------------------
(* Requesting a sector and collecting one *)

LEMMA DirtiestActive ==
    ASSUME StoreType, ListsOK
    PROVE  /\ Dirtiest \in Range(active)
           /\ \A s \in Range(active) : GcSize(ram[s]) <= GcSize(ram[Dirtiest])
<1> DEFINE Sizes == {GcSize(ram[s]) : s \in Range(active)}
           best == MostOf(Sizes)
           At == {n \in DOMAIN active : GcSize(ram[active[n]]) = best}
<1>1. Range(active) \subseteq Sector /\ Cur \in Range(active)
  BY CurActive
<1>2. ASSUME NEW s \in Sector
      PROVE  GcSize(ram[s]) \in Int /\ GcSize(ram[s]) <= Slices + CounterMod
  <2>1. /\ ram[s].used \in 0 .. CounterMod - 1 /\ ram[s].droped \in 0 .. CounterMod - 1
        /\ CounterMod \in Nat /\ Slices \in Nat
    BY SlicesAssumption DEF StoreType, RamSector, CounterMod
  <2> QED BY <2>1 DEF GcSize
<1>3. /\ Sizes \subseteq Int /\ Sizes # {} /\ \A x \in Sizes : x <= Slices + CounterMod
      /\ Slices + CounterMod \in Int
  BY <1>1, <1>2, SlicesAssumption DEF CounterMod
<1>4. best \in Sizes /\ \A x \in Sizes : x <= best
  <2> HIDE DEF Sizes
  <2> QED BY <1>3, MostOfIsMost
<1>5. /\ \E s \in Range(active) : GcSize(ram[s]) = best
      /\ \A s \in Range(active) : GcSize(ram[s]) <= best
  BY <1>4
<1> HIDE DEF best, Sizes
<1>6. At # {} /\ At \subseteq DOMAIN active /\ At \subseteq Nat
  BY <1>5 DEF Range, StoreType
<1>7. LeastOf(At) \in DOMAIN active /\ LeastOf(At) \in At
  <2> HIDE DEF At
  <2> QED BY <1>6, LeastOfIsLeast
<1>8. Dirtiest = active[LeastOf(At)]
  BY DEF Dirtiest, best, Sizes
<1>9. GcSize(ram[Dirtiest]) = best
  BY <1>7, <1>8
<1> QED BY <1>5, <1>7, <1>8, <1>9 DEF Range

LEMMA RequestIdleKeeps ==
    ASSUME IInv, RequestIdle
    PROVE  IInv'
<1>1. /\ StoreType /\ ControlType /\ ListsOK /\ Headers /\ OpSet
      /\ pc = "write" /\ idle # <<>> /\ Activate
      /\ op' = [op EXCEPT !.retry = TRUE]
      /\ UNCHANGED <<pc, gc, res, lost, crashes>>
  BY DEF RequestIdle, NeedSector, IInv, TypeOK, Calling, StoreType
<1>2. /\ StoreType' /\ ListsOK'
      /\ \A t \in Sector : flash'[t].hdr \in {flash[t].hdr, "erased"}
  BY <1>1, ActivateKeeps
<1>3. ControlType' /\ OpSet'
  BY <1>1 DEF ControlType, OpSet
<1>4. Headers'
  BY <1>1, <1>2 DEF Headers, IsDeleting
<1> QED BY <1>1, <1>2, <1>3, <1>4 DEF IInv, TypeOK, InGc, DataBegun, Recovering

LEMMA GcStartKeeps ==
    ASSUME IInv, GcStart
    PROVE  IInv'
<1>1. /\ StoreType /\ ControlType /\ ListsOK /\ Headers /\ OpSet
      /\ pc = "write" /\ idle # <<>> /\ Activate
      /\ op' = [op EXCEPT !.retry = TRUE]
      /\ gc' = [src |-> Dirtiest, dst |-> Head(idle), i |-> 1, d |-> 0, rec |-> FALSE]
      /\ pc' \in {"gcinit", "gcmark"}
      /\ UNCHANGED <<res, lost, crashes>>
  <2>1. GcStart /\ IInv /\ pc = "write" /\ Len(idle) = 1
    BY DEF GcStart, NeedSector
  <2>2. idle # <<>>
    <3>1. Len(<<>>) = 0
      OBVIOUS
    <3> QED BY <2>1, <3>1
  <2>3. pc' \in {"gcinit", "gcmark"}
    BY <2>1 DEF GcStart
  <2> QED BY <2>1, <2>2, <2>3 DEF GcStart, IInv, TypeOK, Calling
<1>2. /\ StoreType' /\ ListsOK'
      /\ Head(idle) \in Sector \ Range(active)
      /\ Range(active') = Range(active) \union {Head(idle)}
      /\ \A t \in Sector : flash'[t].hdr \in {flash[t].hdr, "erased"}
  BY <1>1, ActivateKeeps
<1>3. Dirtiest \in Range(active) /\ Dirtiest \in Sector
  BY <1>1, DirtiestActive, CurActive
<1>4. ControlType' /\ OpSet' /\ GcSet'
  BY <1>1, <1>2, <1>3 DEF ControlType, OpSet, GcSet
<1>5. Headers'
  BY <1>1, <1>2 DEF Headers, IsDeleting
<1> QED BY <1>1, <1>2, <1>4, <1>5 DEF IInv, TypeOK, DataBegun, Recovering

LEMMA GcInitKeeps ==
    ASSUME CollectInv, GcInit
    PROVE  CollectInv'
<1>1. /\ StoreType /\ ControlType /\ ListsOK /\ Headers /\ GcSet
      /\ pc = "gcinit" /\ pc' = IF gc.rec THEN "gccopy" ELSE "gcmark"
      /\ InitSector(gc.dst) /\ gc.rec \in BOOLEAN
      /\ UNCHANGED <<active, idle, serial, op, gc, res, lost, crashes>>
  BY DEF GcInit, CollectInv, TypeOK, InGc, ControlType
<1>2. gc.dst \in Sector
  BY <1>1 DEF ControlType
<1>3. /\ StoreType' /\ flash'[gc.dst].hdr = "using"
      /\ \A t \in Sector \ {gc.dst} : flash'[t] = flash[t]
  BY <1>1, <1>2, InitSectorKeeps
<1>4. ControlType' /\ ListsOK'
  BY <1>1 DEF ControlType, ListsOK
<1>5. Headers'
  BY <1>1, <1>3 DEF Headers, IsDeleting
<1> QED BY <1>1, <1>3, <1>4, <1>5
        DEF CollectInv, TypeOK, InGc, OpSet, GcSet, DataBegun, Recovering

LEMMA GcMarkKeeps ==
    ASSUME CollectInv, GcMark
    PROVE  CollectInv'
<1>1. /\ StoreType /\ ControlType /\ ListsOK /\ Headers /\ GcSet
      /\ pc = "gcmark" /\ pc' = "gccopy" /\ SetState(gc.src, "deleting")
      /\ UNCHANGED <<active, idle, serial, op, gc, res, lost, crashes>>
  BY DEF GcMark, CollectInv, TypeOK, InGc
<1>2. gc.src \in Sector
  BY <1>1 DEF ControlType
<1>3. StoreType' /\ \A t \in Sector \ {gc.src} : flash'[t] = flash[t]
  BY <1>1, <1>2, SetStateKeeps
<1>4. ControlType' /\ ListsOK'
  BY <1>1 DEF ControlType, ListsOK
<1>5. Headers'
  BY <1>1, <1>3 DEF Headers, IsDeleting
<1> QED BY <1>1, <1>3, <1>4, <1>5
        DEF CollectInv, TypeOK, InGc, OpSet, GcSet, DataBegun, Recovering

LEMMA Advanced ==
    ASSUME ControlType, NEW i \in Nat, NEW d \in Nat
    PROVE  LET g == [gc EXCEPT !.i = i, !.d = d]
           IN  /\ g \in [src : Sector, dst : Sector, i : Nat, d : Nat, rec : BOOLEAN]
               /\ g.src = gc.src /\ g.dst = gc.dst /\ g.rec = gc.rec
BY DEF ControlType

LEMMA GcCopyKeeps ==
    ASSUME CollectInv, GcCopy
    PROVE  CollectInv'
<1>1. /\ StoreType /\ ControlType /\ ListsOK /\ Headers /\ GcSet
      /\ pc = "gccopy" /\ ToCopy # {} /\ WriteHeader(gc.dst, Copied)
      /\ \/ /\ Account(gc.dst, Copied) /\ pc' = pc
            /\ gc' = [gc EXCEPT !.i = LeastOf(ToCopy) + 1, !.d = @ + 1]
         \/ pc' = "gcdata" /\ UNCHANGED <<ram, gc>>
      /\ lost' \in {lost, lost \union {Copied.key}}
      /\ UNCHANGED <<active, idle, serial, op, res, crashes>>
  BY DEF GcCopy, CollectInv, TypeOK, InGc
<1>2. gc.dst \in Sector /\ gc.src \in Sector /\ gc.d \in Nat /\ gc.src # gc.dst
  BY <1>1 DEF ControlType, GcSet
<1>3. /\ LeastOf(ToCopy) \in Nat /\ Copied \in Item /\ Copied.at \in Nat
      /\ Copied.span \in Nat /\ Copied.key \in Keys
  BY <1>1, CopiedType
<1>4. /\ flash' \in [Sector -> FlashSector] /\ flash'[gc.dst].log # <<>>
      /\ \A t \in Sector : flash'[t].hdr = flash[t].hdr
      /\ \A t \in Sector \ {gc.dst} : flash'[t] = flash[t]
  BY <1>1, <1>2, <1>3, WriteHeaderKeeps
<1>5. ram' \in [Sector -> RamSector]
  <2>1. CASE Account(gc.dst, Copied)
    BY <1>1, <1>2, <1>3, <2>1, AccountKeeps
  <2>2. CASE UNCHANGED ram
    BY <1>1, <2>2 DEF StoreType
  <2> QED BY <1>1, <2>1, <2>2
<1>6. StoreType' /\ ListsOK'
  BY <1>1, <1>4, <1>5 DEF StoreType, ListsOK
<1>7. /\ gc' \in [src : Sector, dst : Sector, i : Nat, d : Nat, rec : BOOLEAN]
      /\ gc'.src = gc.src /\ gc'.dst = gc.dst /\ gc'.rec = gc.rec
  <2>1. LeastOf(ToCopy) + 1 \in Nat /\ gc.d + 1 \in Nat
    BY <1>2, <1>3
  <2>2. \/ gc' = [gc EXCEPT !.i = LeastOf(ToCopy) + 1, !.d = gc.d + 1]
        \/ gc' = gc
    BY <1>1 DEF ControlType
  <2>3. CASE gc' = [gc EXCEPT !.i = LeastOf(ToCopy) + 1, !.d = gc.d + 1]
    BY <1>1, <2>1, <2>3, Advanced
  <2>4. CASE gc' = gc
    BY <1>1, <2>4 DEF ControlType
  <2> QED BY <2>2, <2>3, <2>4
<1>8. ControlType'
  <2>1. lost' \in SUBSET Keys
    BY <1>1, <1>3 DEF ControlType
  <2> QED BY <1>1, <1>7, <2>1 DEF ControlType
<1>9. Headers'
  BY <1>1, <1>4, <1>7 DEF Headers, IsDeleting
<1>10. DataBegun'
  <2>1. CASE pc' = "gcdata"
    <3>1. UNCHANGED gc /\ flash'[gc.src] = flash[gc.src]
      BY <1>1, <1>2, <1>4, <2>1
    <3> QED BY <1>1, <1>4, <2>1, <3>1 DEF DataBegun, ToCopy
  <2>2. CASE pc' = "gccopy"
    BY <2>2 DEF DataBegun
  <2> QED BY <1>1, <2>1, <2>2
<1> QED BY <1>1, <1>6, <1>7, <1>8, <1>9, <1>10
        DEF CollectInv, TypeOK, InGc, OpSet, GcSet, Recovering

LEMMA GcCopyDataKeeps ==
    ASSUME CollectInv, GcCopyData
    PROVE  CollectInv'
<1>1. /\ StoreType /\ ControlType /\ ListsOK /\ Headers /\ GcSet
      /\ pc = "gcdata" /\ ToCopy # {} /\ flash[gc.dst].log # <<>> /\ WriteData(gc.dst)
      /\ gc' = [gc EXCEPT !.i = LeastOf(ToCopy) + 1, !.d = @ + Copied.span]
      /\ pc' = "gccopy"
      /\ UNCHANGED <<active, idle, serial, op, res, lost, crashes>>
  BY DEF GcCopyData, CollectInv, TypeOK, InGc, DataBegun
<1>2. gc.dst \in Sector
  BY <1>1 DEF ControlType
<1>3. LeastOf(ToCopy) \in Nat /\ Copied.span \in Nat
  BY <1>1, CopiedType
<1>4. /\ flash' \in [Sector -> FlashSector] /\ ram' \in [Sector -> RamSector]
      /\ \A t \in Sector : flash'[t].hdr = flash[t].hdr
  BY <1>1, <1>2, WriteDataKeeps
<1>5. StoreType' /\ ListsOK'
  BY <1>1, <1>4 DEF StoreType, ListsOK
<1>6. /\ gc' \in [src : Sector, dst : Sector, i : Nat, d : Nat, rec : BOOLEAN]
      /\ gc'.src = gc.src /\ gc'.dst = gc.dst /\ gc'.rec = gc.rec
  <2>1. LeastOf(ToCopy) + 1 \in Nat /\ gc.d + Copied.span \in Nat
    BY <1>1, <1>3 DEF ControlType
  <2>2. gc' = [gc EXCEPT !.i = LeastOf(ToCopy) + 1, !.d = gc.d + Copied.span]
    BY <1>1 DEF ControlType
  <2> QED BY <1>1, <2>1, <2>2, Advanced
<1>7. ControlType'
  BY <1>1, <1>6 DEF ControlType
<1>8. Headers'
  BY <1>1, <1>4, <1>6 DEF Headers, IsDeleting
<1> QED BY <1>1, <1>5, <1>6, <1>7, <1>8
        DEF CollectInv, TypeOK, InGc, OpSet, GcSet, DataBegun, Recovering

LEMMA GcCrashKeeps ==
    ASSUME CollectInv, GcCrash
    PROVE  CollectInv'
<1>1. /\ StoreType /\ ControlType /\ ListsOK /\ Headers /\ GcSet
      /\ pc = "gccopy" /\ pc' = "gcerase" /\ SetState(gc.src, "crash")
      /\ UNCHANGED <<active, idle, serial, op, gc, res, lost, crashes>>
  BY DEF GcCrash, CollectInv, TypeOK, InGc
<1>2. gc.src \in Sector
  BY <1>1 DEF ControlType
<1>3. /\ StoreType' /\ flash'[gc.src].hdr = "crash"
      /\ \A t \in Sector \ {gc.src} : flash'[t] = flash[t]
  BY <1>1, <1>2, SetStateKeeps
<1>4. ControlType' /\ ListsOK'
  BY <1>1 DEF ControlType, ListsOK
<1>5. Headers'
  BY <1>1, <1>3 DEF Headers, IsDeleting
<1> QED BY <1>1, <1>3, <1>4, <1>5
        DEF CollectInv, TypeOK, InGc, OpSet, GcSet, DataBegun, Recovering

LEMMA GcStepsKeep ==
    ASSUME IInv, GcInit \/ GcMark \/ GcCopy \/ GcCopyData \/ GcCrash
    PROVE  IInv'
<1>1. CollectInv
  BY IInvCollects
<1>2. CollectInv'
  BY <1>1, GcInitKeeps, GcMarkKeeps, GcCopyKeeps, GcCopyDataKeeps, GcCrashKeeps
<1>3. /\ UNCHANGED op /\ InGc /\ gc'.rec = gc.rec
      /\ pc' \in {"gcinit", "gcmark", "gccopy", "gcdata", "gcerase"}
  <2>1. ControlType
    BY DEF IInv, TypeOK
  <2>2. UNCHANGED op /\ InGc
    BY DEF GcInit, GcMark, GcCopy, GcCopyData, GcCrash, InGc
  <2>3. pc' \in {"gcinit", "gcmark", "gccopy", "gcdata", "gcerase"}
    BY DEF GcInit, GcMark, GcCopy, GcCopyData, GcCrash
  <2>4. \/ gc' = gc
        \/ \E i, d : gc' = [gc EXCEPT !.i = i, !.d = d]
    BY <2>1 DEF GcInit, GcMark, GcCopy, GcCopyData, GcCrash, ControlType
  <2>5. gc'.rec = gc.rec
    BY <2>1, <2>4 DEF ControlType
  <2> QED BY <2>2, <2>3, <2>5
<1>4. Calling' => Calling
  BY <1>3 DEF Calling, InGc
<1>5. Calling => OpSet
  BY DEF IInv
<1>6. OpSet => OpSet'
  BY <1>3 DEF OpSet
<1> QED BY <1>2, <1>4, <1>5, <1>6, IInvCollectsNext

LEMMA GcEraseKeeps ==
    ASSUME IInv, GcErase
    PROVE  IInv'
<1>1. /\ StoreType /\ ControlType /\ ListsOK /\ Headers /\ GcSet
      /\ pc = "gcerase" /\ EraseToIdle(gc.src) /\ gc' = NoGc
      /\ pc' = IF gc.rec THEN "finish" ELSE "write"
      /\ gc.rec = FALSE => OpSet
      /\ UNCHANGED <<op, res, lost, crashes>>
  BY DEF GcErase, IInv, TypeOK, InGc, Calling
<1>2. Range(active) # {gc.src} /\ gc.rec \in BOOLEAN
  BY <1>1 DEF GcSet, ControlType
<1>3. /\ StoreType' /\ ListsOK' /\ flash'[gc.src].hdr = "erased"
      /\ \A t \in Sector \ {gc.src} : flash'[t] = flash[t]
  BY <1>1, <1>2, EraseKeeps DEF GcSet
<1>4. ControlType'
  BY <1>1, <1>2, SecNumAssumption DEF ControlType, NoGc, Sector
<1>5. Headers'
  BY <1>1, <1>2, <1>3 DEF Headers, IsDeleting
<1> QED BY <1>1, <1>2, <1>3, <1>4, <1>5
        DEF IInv, TypeOK, InGc, Calling, OpSet, DataBegun, Recovering

-----------------------------------------------------------------------------
(* Starting *)

LEMMA LoadKeeps ==
    ASSUME IInv, Load
    PROVE  IInv'
<1> DEFINE st(s) == LoadStatus(flash[s])
           used  == {s \in Sector : IsUsed(st(s))}
           fl    == [s \in Sector |-> LoadFlash(flash[s])]
           rm    == [s \in Sector |-> LoadRam(flash[s])]
           FlashSn == [s \in Sector |-> flash[s].sn]
           NoSn == [s \in Sector |-> 0]
<1>1. /\ StoreType /\ ControlType /\ Headers
      /\ pc = "off" /\ pc' = "checkwrite"
      /\ UNCHANGED <<op, gc, res, lost, crashes>>
  BY DEF Load, IInv, TypeOK
<1>2. PICK sorted \in InOrder(used, FlashSn), rest \in InOrder(Sector \ used, NoSn) :
         IF used # {}
         THEN /\ flash' = fl /\ ram' = rm
              /\ active' = sorted /\ idle' = rest
              /\ serial' = flash[Last(sorted)].sn + 1
         ELSE LET s == Head(rest)
              IN  /\ flash' = IF st(s) = "crash" THEN [fl EXCEPT ![s] = Blank] ELSE fl
                  /\ ram' = [rm EXCEPT ![s] = [Unloaded EXCEPT !.sn = 1]]
                  /\ active' = <<s>> /\ idle' = Tail(rest)
                  /\ serial' = 2
  BY DEF Load
<1>3. FlashSn \in [Sector -> Nat] /\ NoSn \in [Sector -> Nat]
  BY <1>1 DEF StoreType, FlashSector
<1>4. /\ sorted \in Seq(Sector) /\ IsInjective(sorted) /\ Range(sorted) = used
      /\ rest \in Seq(Sector) /\ IsInjective(rest) /\ Range(rest) = Sector \ used
  <2> HIDE DEF FlashSn, NoSn, used
  <2>1. used \subseteq Sector /\ Sector \ used \subseteq Sector
    BY DEF used
  <2> QED BY <1>3, <2>1, InOrderLists
<1>5. ASSUME NEW s \in Sector
      PROVE  /\ LoadFlash(flash[s]) \in FlashSector /\ LoadRam(flash[s]) \in RamSector
             /\ LoadFlash(flash[s]).hdr = flash[s].hdr
             /\ LoadRam(flash[s]).st = LoadStatus(flash[s])
             /\ LoadStatus(flash[s]) = "deleting" <=> flash[s].hdr = "deleting"
  BY <1>1, LoadFlashType, LoadRamType, LoadStatusType DEF StoreType
<1>6. /\ fl \in [Sector -> FlashSector] /\ rm \in [Sector -> RamSector]
      /\ \A s \in Sector : fl[s].hdr = flash[s].hdr
      /\ \A s \in Sector : rm[s].st = "deleting" <=> flash[s].hdr = "deleting"
      /\ \A s \in Sector : flash[s].hdr = "deleting" => s \in used
  BY <1>5 DEF IsUsed
<1>7. CASE used # {}
  <2>1. flash' = fl /\ ram' = rm /\ active' = sorted /\ idle' = rest
    BY <1>2, <1>7
  <2>2. active' # <<>> /\ Last(sorted) \in Sector
    BY <1>4, <1>7, <2>1, InRange
  <2>3. serial' \in Nat
    BY <1>1, <1>2, <1>7, <2>2 DEF StoreType, FlashSector
  <2> HIDE DEF used, fl, rm
  <2>4. StoreType'
    BY <1>4, <1>6, <2>1, <2>3 DEF StoreType
  <2>5. ListsOK'
    <3>1. used \subseteq Sector
      BY DEF used
    <3> QED BY <1>4, <2>1, <2>2, <3>1 DEF ListsOK
  <2>6. Headers'
    BY <1>1, <1>4, <1>6, <2>1 DEF Headers, IsDeleting
  <2>7. ControlType'
    BY <1>1 DEF ControlType
  <2> QED BY <1>1, <2>4, <2>5, <2>6, <2>7
          DEF IInv, TypeOK, InGc, Calling, DataBegun, Recovering
<1>8. CASE used = {}
  <2> DEFINE s == Head(rest)
  <2>1. /\ flash' \in {[fl EXCEPT ![s] = Blank], fl}
        /\ ram' = [rm EXCEPT ![s] = [Unloaded EXCEPT !.sn = 1]]
        /\ active' = <<s>> /\ idle' = Tail(rest) /\ serial' = 2
    BY <1>2, <1>8
  <2>2. rest # <<>>
    <3> HIDE DEF used
    <3>1. 0 \in Sector
      BY SecNumAssumption DEF Sector
    <3>2. Range(rest) # {}
      BY <1>4, <1>8, <3>1
    <3> QED BY <1>4, <3>2, InRange
  <2>3. /\ s \in Sector /\ s \in Range(rest) /\ Tail(rest) \in Seq(Sector)
        /\ IsInjective(Tail(rest)) /\ Range(Tail(rest)) = Range(rest) \ {s}
    BY <1>4, <2>2, TailRange
  <2>4. Range(rest) = Sector
    BY <1>4, <1>8
  <2>5. \A t \in Sector : flash[t].hdr # "deleting"
    BY <1>6, <1>8
  <2> HIDE DEF used, fl, rm, s
  <2>6. flash' \in [Sector -> FlashSector]
    BY <1>6, <2>1, <2>3, BlankType
  <2>7. /\ ram' \in [Sector -> RamSector]
        /\ \A t \in Sector : ram'[t].st # "deleting"
    <3>1. [Unloaded EXCEPT !.sn = 1] \in RamSector /\ [Unloaded EXCEPT !.sn = 1].st = "uninit"
      BY BlankType DEF RamSector, Unloaded
    <3> QED BY <1>6, <2>1, <2>3, <2>5, <3>1
  <2>8. StoreType'
    BY <2>1, <2>3, <2>6, <2>7 DEF StoreType
  <2>9. ListsOK'
    <3>1. Range(<<s>>) = {s} /\ IsInjective(<<s>>) /\ <<s>> # <<>>
      BY DEF Range, IsInjective
    <3> QED BY <2>1, <2>3, <2>4, <3>1 DEF ListsOK
  <2>10. \A t \in Sector : flash'[t].hdr # "deleting"
    <3>1. Blank.hdr = "erased"
      BY DEF Blank
    <3>2. \A t \in Sector : flash'[t] \in {fl[t], Blank}
      BY <1>6, <2>1, <2>3
    <3>3. \A t \in Sector : fl[t].hdr # "deleting"
      BY <1>6, <2>5
    <3> QED BY <3>1, <3>2, <3>3
  <2>11. Headers'
    BY <1>1, <2>7, <2>10 DEF Headers, IsDeleting
  <2>12. ControlType'
    BY <1>1 DEF ControlType
  <2> QED BY <1>1, <2>8, <2>9, <2>11, <2>12
          DEF IInv, TypeOK, InGc, Calling, DataBegun, Recovering
<1> QED BY <1>7, <1>8

\* Dropping an item during the first check moves on to the second.
LEMMA CheckDropKeeps ==
    ASSUME IInv, pc = "checkwrite", pc' = "checkgc",
           NEW s \in Sector, NEW at \in Nat, NEW span \in Nat, DropItem(s, at, span),
           UNCHANGED <<active, idle, serial, op, gc, res, crashes>>, lost' \subseteq Keys
    PROVE  IInv'
<1>1. StoreType /\ ControlType /\ ListsOK /\ Headers
  BY DEF IInv, TypeOK
<1>2. /\ flash' \in [Sector -> FlashSector] /\ ram' \in [Sector -> RamSector]
      /\ \A t \in Sector : flash'[t].hdr = flash[t].hdr /\ ram'[t].st = ram[t].st
  BY <1>1, DropItemKeeps
<1>3. StoreType' /\ ListsOK' /\ ControlType'
  BY <1>1, <1>2 DEF StoreType, ListsOK, ControlType
<1>4. Headers'
  BY <1>1, <1>2 DEF Headers, IsDeleting
<1> QED BY <1>3, <1>4 DEF IInv, TypeOK, InGc, Calling, DataBegun, Recovering

LEMMA LastItemType ==
    ASSUME StoreType, NEW s \in Sector, LiveAt(flash[s].log) # {}
    PROVE  flash[s].log[MostOf(LiveAt(flash[s].log))] \in Item
<1>1. /\ LiveAt(flash[s].log) \subseteq Int /\ Len(flash[s].log) \in Int
      /\ \A i \in LiveAt(flash[s].log) : i <= Len(flash[s].log)
      /\ \A i \in LiveAt(flash[s].log) : flash[s].log[i] \in Item
  BY LiveType
<1>2. MostOf(LiveAt(flash[s].log)) \in LiveAt(flash[s].log)
  BY <1>1, MostOfIsMost
<1> QED BY <1>1, <1>2

LEMMA CheckWriteDataKeeps ==
    ASSUME IInv, CheckWriteData
    PROVE  IInv'
<1> DEFINE it == flash[Cur].log[LastItem]
<1>1. /\ StoreType /\ ControlType /\ ListsOK
      /\ pc = "checkwrite" /\ pc' = "checkgc" /\ LiveAt(flash[Cur].log) # {}
      /\ DropItem(Cur, it.at, it.span)
      /\ UNCHANGED <<active, idle, serial, op, gc, res, lost, crashes>>
  BY DEF CheckWriteData, IInv, TypeOK
<1>2. Cur \in Sector
  BY <1>1, CurActive
<1>3. it \in Item
  BY <1>1, <1>2, LastItemType DEF LastItem
<1>4. it.at \in Nat /\ it.span \in Nat /\ lost' \subseteq Keys
  BY <1>1, <1>3 DEF Item, ControlType
<1> QED BY <1>1, <1>2, <1>4, CheckDropKeeps

LEMMA CheckWriteOldKeeps ==
    ASSUME IInv, CheckWriteOld
    PROVE  IInv'
<1>1. /\ StoreType /\ ControlType /\ ListsOK
      /\ pc = "checkwrite" /\ pc' = "checkgc"
      /\ UNCHANGED <<active, idle, serial, op, gc, res, crashes>>
  BY DEF CheckWriteOld, IInv, TypeOK
<1>2. PICK o \in OldCopies :
         /\ DropItem(o.sec, flash[o.sec].log[o.i].at, flash[o.sec].log[o.i].span)
         /\ lost' \in {lost, lost \union {flash[o.sec].log[o.i].key}}
  BY DEF CheckWriteOld
<1>3. o.sec \in Sector /\ flash[o.sec].log[o.i] \in Item
  <2> DEFINE it == flash[Cur].log[LastItem]
             M(s) == Matches(flash[s], ram[s], it.key, {TypeOf[it.val]})
  <2>1. PICK n \in DOMAIN active : M(active[n]) # {}
                                   /\ o = [sec |-> active[n], i |-> LeastOf(M(active[n]))]
    BY DEF OldCopies
  <2>2. active[n] \in Sector
    BY <1>1 DEF StoreType
  <2>3. /\ M(active[n]) \subseteq Nat
        /\ \A i \in M(active[n]) : flash[active[n]].log[i] \in Item
    BY <1>1, <2>2, MatchesType
  <2> HIDE DEF M, it
  <2>4. LeastOf(M(active[n])) \in M(active[n])
    BY <2>1, <2>3, LeastOfIsLeast
  <2> QED BY <2>1, <2>2, <2>3, <2>4
<1>4. /\ flash[o.sec].log[o.i].at \in Nat /\ flash[o.sec].log[o.i].span \in Nat
      /\ lost' \subseteq Keys
  BY <1>1, <1>2, <1>3 DEF Item, ControlType
<1> QED BY <1>1, <1>2, <1>3, <1>4, CheckDropKeeps

LEMMA CheckGcWipeKeeps ==
    ASSUME IInv, CheckGcWipe
    PROVE  IInv'
<1>1. /\ StoreType /\ ControlType /\ ListsOK /\ Headers
      /\ pc = "checkgc" /\ pc' = "recerase" /\ Deleting # {} /\ ram[Cur].st = "using"
      /\ SetState(Cur, "crash")
      /\ lost' = lost \union {flash[Cur].log[i].key :
                     i \in {j \in LiveAt(flash[Cur].log) :
                        ~ \E n \in LiveAt(flash[active[LeastOf(Deleting)]].log) :
                            /\ flash[active[LeastOf(Deleting)]].log[n].key = flash[Cur].log[j].key
                            /\ flash[active[LeastOf(Deleting)]].log[n].val
                                 = flash[Cur].log[j].val}}
      /\ UNCHANGED <<active, idle, serial, op, gc, res, crashes>>
  BY DEF CheckGcWipe, IInv, TypeOK
<1>2. Cur \in Sector /\ Range(active) \subseteq Sector
  BY <1>1, CurActive
<1>3. /\ StoreType' /\ flash'[Cur].hdr = "crash" /\ ram'[Cur].st = "crash"
      /\ \A t \in Sector \ {Cur} : flash'[t] = flash[t] /\ ram'[t] = ram[t]
  BY <1>1, <1>2, SetStateKeeps
<1>4. lost' \subseteq Keys
  <2>1. \A i \in LiveAt(flash[Cur].log) : flash[Cur].log[i] \in Item
    BY <1>1, <1>2, LiveType
  <2>2. \A i \in LiveAt(flash[Cur].log) : flash[Cur].log[i].key \in Keys
    BY <2>1 DEF Item
  <2> QED BY <1>1, <2>2 DEF ControlType
<1>5. ControlType' /\ ListsOK'
  BY <1>1, <1>4 DEF ControlType, ListsOK
<1>6. Recovering'
  <2>1. \E s \in Range(active) : ram[s].st = "deleting"
    BY <1>1, DeletingFound
  <2>2. PICK s \in Range(active) : ram[s].st = "deleting"
    BY <2>1
  <2>3. s # Cur /\ ram'[s].st = "deleting" /\ s \in Range(active')
    BY <1>1, <1>2, <1>3, <2>2
  <2>4. Cur' = Cur
    BY <1>1 DEF Cur
  <2> QED BY <1>1, <1>3, <2>3, <2>4 DEF Recovering
<1>7. Headers'
  <2>1. \A s \in Sector : /\ IsDeleting(s) <=> ram[s].st = "deleting"
                          /\ IsDeleting(s) => s \in Range(active)
    BY <1>1 DEF Headers
  <2> QED BY <1>1, <1>3, <2>1 DEF Headers, IsDeleting
<1> QED BY <1>1, <1>3, <1>5, <1>6, <1>7 DEF IInv, TypeOK, InGc, Calling, DataBegun

LEMMA CheckGcEraseKeeps ==
    ASSUME IInv, CheckGcErase
    PROVE  IInv'
<1>1. /\ StoreType /\ ControlType /\ ListsOK /\ Headers
      /\ pc = "recerase" /\ pc' = "recgc" /\ EraseToIdle(Cur) /\ ram[Cur].st = "crash"
      /\ \E s \in Range(active) : ram[s].st = "deleting"
      /\ UNCHANGED <<op, gc, res, lost, crashes>>
  BY DEF CheckGcErase, IInv, TypeOK, Recovering
<1>2. Cur \in Range(active) /\ Range(active) \subseteq Sector
  BY <1>1, CurActive
<1>3. PICK s \in Range(active) : ram[s].st = "deleting"
  BY <1>1
<1>4. s # Cur
  BY <1>1, <1>3
<1>5. /\ StoreType' /\ ListsOK' /\ flash'[Cur].hdr = "erased" /\ ram'[Cur].st = "uninit"
      /\ \A t \in Sector \ {Cur} : flash'[t] = flash[t] /\ ram'[t] = ram[t]
      /\ Range(active') = Range(active) \ {Cur}
  <2>1. Range(active) # {Cur}
    BY <1>3, <1>4
  <2> QED BY <1>1, <1>2, <2>1, EraseKeeps
<1>6. ControlType'
  BY <1>1 DEF ControlType
<1>7. Recovering'
  BY <1>1, <1>2, <1>3, <1>4, <1>5 DEF Recovering
<1>8. Headers'
  <2>1. \A t \in Sector : /\ IsDeleting(t) <=> ram[t].st = "deleting"
                          /\ IsDeleting(t) => t \in Range(active)
    BY <1>1 DEF Headers
  <2>2. \A t, u \in Sector : IsDeleting(t) /\ IsDeleting(u) => t = u
    BY <1>1 DEF Headers
  <2>3. \A t \in Sector : IsDeleting(t)' => IsDeleting(t)
    BY <1>5 DEF IsDeleting
  <2>4. \A t \in Sector : /\ IsDeleting(t)' <=> ram'[t].st = "deleting"
                          /\ IsDeleting(t)' => t \in Range(active')
    BY <1>1, <1>5, <2>1 DEF IsDeleting
  <2> QED BY <1>1, <2>2, <2>3, <2>4 DEF Headers
<1> QED BY <1>1, <1>5, <1>6, <1>7, <1>8 DEF IInv, TypeOK, InGc, Calling, DataBegun

LEMMA CheckGcStartKeeps ==
    ASSUME IInv, CheckGcStart
    PROVE  IInv'
<1> DEFINE src == active[LeastOf(Deleting)]
<1>1. /\ StoreType /\ ControlType /\ ListsOK /\ Headers /\ Recovering
      /\ pc = "recgc" /\ idle # <<>> /\ Activate
      /\ gc' = [src |-> src, dst |-> Head(idle), i |-> 1, d |-> 0, rec |-> TRUE]
      /\ UNCHANGED <<op, res, lost, crashes>>
  BY DEF CheckGcStart, IInv, TypeOK
<1>2. pc' \in {"gcinit", "gccopy"}
  BY DEF CheckGcStart
<1>3. src \in Range(active) /\ ram[src].st = "deleting" /\ src \in Sector
  BY <1>1, DeletingFound, CurActive DEF Recovering
<1> HIDE DEF src
<1>4. /\ StoreType' /\ ListsOK'
      /\ Head(idle) \in Sector \ Range(active)
      /\ Range(active') = Range(active) \union {Head(idle)}
      /\ \A t \in Sector : flash'[t].hdr \in {flash[t].hdr, "erased"}
  BY <1>1, ActivateKeeps
<1>5. ControlType' /\ GcSet'
  BY <1>1, <1>2, <1>3, <1>4 DEF ControlType, GcSet
<1>6. Headers'
  <2>1. \A t \in Sector : IsDeleting(t) => t = src
    BY <1>1, <1>3 DEF Headers
  <2>2. \A t \in Sector : IsDeleting(t)' => t = src
    BY <1>4, <2>1 DEF IsDeleting
  <2> QED BY <1>1, <1>2, <1>4, <2>2 DEF Headers
<1> QED BY <1>1, <1>2, <1>4, <1>5, <1>6
        DEF IInv, TypeOK, InGc, Calling, DataBegun, Recovering

LEMMA LoadFinishKeeps ==
    ASSUME IInv, LoadFinish
    PROVE  IInv'
<1>1. /\ StoreType /\ ControlType /\ ListsOK /\ Headers
      /\ pc = "finish" /\ pc' = "ready" /\ op' = NoOp
      /\ IF idle = <<>> THEN active' = Front(active) /\ idle' = <<Cur>>
                        ELSE UNCHANGED <<active, idle>>
      /\ UNCHANGED <<flash, ram, serial, gc, res, lost, crashes>>
  BY DEF LoadFinish, IInv, TypeOK
<1>2. active' \in Seq(Sector) /\ idle' \in Seq(Sector) /\ ListsOK'
  <2>1. CASE idle = <<>>
    <3>1. Cur \in Sector /\ Cur \in Range(active) /\ Range(active) = Sector
      BY <1>1, <2>1, CurActive, InRange DEF ListsOK, StoreType
    <3>2. /\ active' \in Seq(Sector) /\ IsInjective(active')
          /\ Range(active') = Range(active) \ {Cur}
      BY <1>1, <2>1, FrontRange DEF ListsOK, StoreType, Cur
    <3>3. /\ idle' \in Seq(Sector) /\ IsInjective(idle') /\ Range(idle') = {Cur}
      <4>1. /\ <<Cur>> \in Seq(Sector) /\ IsInjective(<<Cur>>)
            /\ Range(<<Cur>>) = {Cur}
        BY <3>1 DEF IsInjective, Range
      <4> QED BY <1>1, <2>1, <4>1
    <3>4. Range(active') # {}
      <4>1. 0 \in Sector /\ 1 \in Sector
        BY SecNumAssumption DEF Sector
      <4> QED BY <3>1, <3>2, <4>1
    <3>5. active' # <<>>
      BY <3>2, <3>4, InRange
    <3> QED BY <3>1, <3>2, <3>3, <3>5 DEF ListsOK
  <2>2. CASE idle # <<>>
    BY <1>1, <2>2 DEF StoreType, ListsOK
  <2> QED BY <2>1, <2>2
<1>3. StoreType'
  BY <1>1, <1>2 DEF StoreType
<1>4. ControlType'
  BY <1>1, SecNumAssumption DEF ControlType, NoOp, Sector
<1>5. Headers'
  BY <1>1 DEF Headers, IsDeleting
<1> QED BY <1>1, <1>2, <1>3, <1>4, <1>5 DEF IInv, TypeOK, InGc, Calling, DataBegun, Recovering

-----------------------------------------------------------------------------
(* The theorems *)

LEMMA InitHolds ==
    ASSUME Init
    PROVE  IInv
<1>1. flash \in [Sector -> FlashSector] /\ \A s \in Sector : flash[s].hdr # "deleting"
  <2>1. Blank \in FlashSector /\ [Blank EXCEPT !.hdr = "crash"] \in FlashSector
    BY BlankType DEF FlashSector, HeaderStatus
  <2>2. Blank.hdr # "deleting" /\ [Blank EXCEPT !.hdr = "crash"].hdr # "deleting"
    BY DEF Blank
  <2>3. flash \in [Sector -> {Blank, [Blank EXCEPT !.hdr = "crash"]}]
    BY DEF Init
  <2> QED BY <2>1, <2>2, <2>3
<1>2. StoreType
  BY <1>1, BlankType DEF Init, StoreType
<1>3. ControlType
  BY SecNumAssumption DEF Init, ControlType, NoOp, NoGc, Sector
<1>4. Headers
  BY <1>1 DEF Init, Headers, IsDeleting
<1> QED BY <1>2, <1>3, <1>4
        DEF Init, IInv, TypeOK, InGc, Calling, DataBegun, Recovering

LEMMA StutterKeeps ==
    ASSUME IInv, UNCHANGED vars
    PROVE  IInv'
<1>1. UNCHANGED <<flash, ram, active, idle, serial, pc, op, gc, res, lost, crashes>>
  BY DEF vars
<1>2. StoreType' /\ ControlType'
  BY <1>1 DEF IInv, TypeOK, StoreType, ControlType
<1> QED BY <1>1, <1>2 DEF IInv, TypeOK, ListsOK, OpSet, GcSet, InGc, Calling, DataBegun,
                          Recovering, Headers, IsDeleting, Cur, ToCopy

\* Every step of the store keeps the inductive invariant.
LEMMA StepKeeps ==
    ASSUME IInv, [Next]_vars
    PROVE  IInv'
<1>1. CASE UNCHANGED vars
  BY <1>1, StutterKeeps
<1>2. CASE PowerOff
  BY <1>2, PowerOffKeeps, IInvCollects
<1>11. CASE Unload
  BY <1>11, UnloadKeeps
<1>3. CASE Call
  <2>1. ASSUME NEW k \in Keys, NEW v \in Values, SetSame(k, v) PROVE IInv'
    BY <2>1, SetSameKeeps
  <2>2. ASSUME NEW k \in Keys, NEW v \in Values, SetBegin(k, v) PROVE IInv'
    BY <2>2, SetBeginKeeps
  <2>3. ASSUME NEW k \in Keys, Delete(k) PROVE IInv'
    BY <2>3, DeleteKeeps
  <2>4. ASSUME NEW k, NEW t, Get(k, t) PROVE IInv'
    BY <2>4, StutterKeeps DEF Get
  <2> QED BY <1>3, <2>1, <2>2, <2>3, <2>4 DEF Call
<1>4. CASE WriteInit \/ WriteItem \/ WriteItemData \/ EraseOld
  BY <1>4, WriteInitKeeps, WriteItemKeeps, WriteItemDataKeeps, EraseOldKeeps
<1>5. CASE WriteTooLong \/ WriteFull \/ RequestNoSpace
  BY <1>5, ReturnKeeps
<1>6. CASE RequestIdle \/ GcStart \/ GcErase
  BY <1>6, RequestIdleKeeps, GcStartKeeps, GcEraseKeeps
<1>7. CASE GcInit \/ GcMark \/ GcCopy \/ GcCopyData \/ GcCrash
  BY <1>7, GcStepsKeep
<1>8. CASE CheckWriteNothing \/ CheckGcNothing \/ CheckGcKeep
  BY <1>8, CheckKeeps
<1>9. CASE Load \/ CheckWriteData \/ CheckWriteOld \/ CheckGcWipe
  BY <1>9, LoadKeeps, CheckWriteDataKeeps, CheckWriteOldKeeps, CheckGcWipeKeeps
<1>10. CASE CheckGcErase \/ CheckGcStart \/ LoadFinish
  BY <1>10, CheckGcEraseKeeps, CheckGcStartKeeps, LoadFinishKeeps
<1> QED BY <1>1, <1>2, <1>3, <1>4, <1>5, <1>6, <1>7, <1>8, <1>9, <1>10,
            <1>11
        DEF Next, Step

\* Whenever power fails and whatever is stored, the store's lists, its position in the
\* call being served and the states that flash gives the sectors fit together.
THEOREM InvariantHolds == Spec => []IInv
<1>1. Init => IInv
  BY InitHolds
<1>2. IInv /\ [Next]_vars => IInv'
  BY StepKeeps
<1> QED BY <1>1, <1>2, PTL DEF Spec

\* Every variable keeps to the data that the code's types hold: no slice counter leaves
\* its byte, no item lies outside the domain of what was set.
THEOREM TypesHold == Spec => []TypeOK
<1>1. IInv => TypeOK
  BY DEF IInv
<1> QED BY <1>1, InvariantHolds, PTL

\* At most one sector is marked as being deleted at any moment, so the recovery of
\* sm_check_imcomplete_gc has one collection to finish; between calls there is none.
THEOREM OneCollection == Spec => []OneDeleting
<1>1. ASSUME IInv PROVE OneDeleting
  <2> DEFINE D == {s \in Sector : flash[s].hdr = "deleting"}
  <2>1. Headers
    BY <1>1 DEF IInv
  <2>2. \A s, t \in D : s = t
    BY <2>1 DEF Headers, IsDeleting
  <2>3. Cardinality(D) <= 1
    <3> HIDE DEF D
    <3>1. CASE D = {}
      BY <3>1, FS_EmptySet
    <3>2. CASE D # {}
      <4>1. PICK s : D = {s}
        BY <2>2, <3>2
      <4>2. Cardinality({s}) = 1
        BY FS_Singleton
      <4> QED BY <4>1, <4>2
    <3> QED BY <3>1, <3>2
  <2>4. Idle => \A s \in Sector : flash[s].hdr # "deleting"
    BY <2>1 DEF Headers, IsDeleting, Idle
  <2> QED BY <2>3, <2>4 DEF OneDeleting
<1>2. IInv => OneDeleting
  BY <1>1
<1> QED BY <1>2, InvariantHolds, PTL

-----------------------------------------------------------------------------
(* The order of sectors *)

LEMMA SectorTypes ==
    ASSUME StoreType, NEW s \in Sector
    PROVE  /\ flash[s] \in FlashSector /\ ram[s] \in RamSector
           /\ flash[s].sn \in Nat /\ ram[s].sn \in Nat
           /\ flash[s].hdr \in HeaderStatus /\ ram[s].st \in RamStatus
           /\ flash[s].log \in Seq(Item)
BY DEF StoreType, FlashSector, RamSector

\* The current sector is the newest of the active ones.
LEMMA CurIsNewest ==
    ASSUME StoreType, ListsOK, ListOrder, Used(Cur),
           NEW t \in Range(active), t # Cur, Used(t)
    PROVE  Newer(Cur, t)
<1>1. active \in Seq(Sector) /\ active # <<>>
  BY DEF StoreType, ListsOK
<1>2. /\ Len(active) \in DOMAIN active /\ Cur = active[Len(active)]
      /\ \A n \in DOMAIN active : n \in Nat /\ n <= Len(active)
  BY <1>1 DEF Cur, Last
<1>3. PICK m \in DOMAIN active : active[m] = t
  BY DEF Range
<1>4. m < Len(active)
  <2>1. m # Len(active)
    BY <1>2, <1>3
  <2> QED BY <1>2, <2>1
<1> QED BY <1>2, <1>3, <1>4 DEF ListOrder

\* A sector is in one of the lists and not in the other.
LEMMA InOneList ==
    ASSUME ListsOK, NEW s \in Sector
    PROVE  s \in Range(idle) <=> s \notin Range(active)
BY DEF ListsOK

-----------------------------------------------------------------------------
(* Steps that change neither the headers nor the lists *)

ReserveHead ==
    \A s \in Range(idle) : Used(s) =>
        /\ s = Head(idle) /\ flash[s].hdr = "using" /\ flash[s].log = <<>>
        /\ \A t \in Range(active) : Used(t) /\ Newer(s, t)

LEMMA FrameKeeps ==
    ASSUME IInv, OrderInv, pc \notin {"off", "gcerase", "recerase"},
           UNCHANGED <<active, idle, serial>>,
           \A s \in Sector : /\ flash'[s].hdr = flash[s].hdr /\ flash'[s].sn = flash[s].sn
                             /\ ram'[s].st = ram[s].st /\ ram'[s].sn = ram[s].sn,
           \A s \in Sector : /\ flash[s].hdr = "erased" \/ s \in Range(idle)
                             /\ flash[s].log = <<>>
                             => flash'[s].log = <<>>
    PROVE  FlashOrder' /\ Agree' /\ ListOrder' /\ ReserveHead'
<1>1. /\ \A s \in Sector : Used(s)' <=> Used(s)
      /\ \A s \in Sector : Fresh(s)' <=> Fresh(s)
      /\ \A s, t \in Sector : Newer(s, t)' <=> Newer(s, t)
  BY DEF Used, Fresh, Newer
<1>2. StoreType /\ ListsOK
  BY DEF IInv, TypeOK
<1>3. /\ Range(active) \subseteq Sector /\ Range(idle) \subseteq Sector
      /\ Cur' = Cur /\ Cur \in Sector
      /\ \A n \in DOMAIN active : active[n] \in Sector
  BY <1>2, CurActive DEF ListsOK, StoreType, Cur
<1>4. FlashOrder'
  BY <1>1 DEF OrderInv, FlashOrder
<1>5. Agree'
  BY <1>1, <1>3 DEF OrderInv, Agree
<1>6. ListOrder'
  BY <1>1, <1>3 DEF OrderInv, ListOrder
<1>7. ReserveHead'
  BY <1>1, <1>3 DEF OrderInv, Reserve, ReserveHead
<1> QED BY <1>4, <1>5, <1>6, <1>7

\* The begin of a call, and its returns.
LEMMA QuietOrder ==
    ASSUME IInv, OrderInv, UNCHANGED <<flash, ram, active, idle, serial>>,
           pc \in {"ready", "write"}, pc' \in {"ready", "write"}
    PROVE  OrderInv'
<1>1. FlashOrder' /\ Agree' /\ ListOrder' /\ ReserveHead'
  BY FrameKeeps
<1>2. Reserve'
  BY <1>1 DEF OrderInv, Reserve, ReserveHead
<1> QED BY <1>1, <1>2 DEF OrderInv, NoneFree, Collecting, Placing, InGc

LEMMA StutterOrder ==
    ASSUME OrderInv, UNCHANGED vars
    PROVE  OrderInv'
<1>1. UNCHANGED <<flash, ram, active, idle, serial, pc, gc>>
  BY DEF vars
<1> QED BY <1>1 DEF OrderInv, FlashOrder, NoneFree, Agree, ListOrder, Reserve, Collecting,
                    Placing, InGc, Used, Fresh, Newer, IsDeleting, Cur

\* A start that needs a sector to collect into has one.
LEMMA IdleForRecovery ==
    ASSUME IInv, OrderInv, pc = "checkgc", Deleting # {}
    PROVE  ram[Cur].st # "using" => idle # <<>>
<1> SUFFICES ASSUME ram[Cur].st # "using", idle = <<>>
             PROVE  FALSE
  OBVIOUS
<1>1. StoreType /\ ListsOK /\ Headers /\ FlashOrder /\ NoneFree /\ Agree /\ ListOrder /\ Placing
  BY DEF IInv, TypeOK, OrderInv
<1>2. PICK d \in Range(active) : ram[d].st = "deleting"
  BY <1>1, DeletingFound
<1>3. Cur \in Sector /\ Cur \in Range(active) /\ d \in Sector
  BY <1>1, CurActive
<1>4. IsDeleting(d) /\ \A s \in Sector : IsDeleting(s) => s = d
  BY <1>1, <1>2, <1>3 DEF Headers
<1>5. \A s \in Sector : Used(s)
  BY <1>1 DEF Placing
<1>6. IsDeleting(Cur)
  BY <1>1, <1>3, <1>5 DEF Agree, Used, IsUsed, IsDeleting
<1>7. PICK s \in Sector : Newer(s, Cur)
  BY <1>1, <1>3, <1>5, <1>6 DEF NoneFree
<1>8. s # Cur
  BY <1>1, <1>3, <1>7, SectorTypes DEF Newer
<1>9. s \in Range(active)
  BY <1>1, InRange DEF ListsOK, StoreType
<1>10. Newer(Cur, s)
  BY <1>1, <1>5, <1>3, <1>8, <1>9, CurIsNewest
<1> QED BY <1>1, <1>3, <1>7, <1>10, SectorTypes DEF Newer

LEMMA CheckOrder ==
    ASSUME IInv, OrderInv, CheckWriteNothing \/ CheckGcNothing \/ CheckGcKeep
    PROVE  OrderInv'
<1>1. UNCHANGED <<flash, ram, active, idle, serial, gc>>
  BY DEF CheckWriteNothing, CheckGcNothing, CheckGcKeep, loaded
<1>2. \/ pc = "checkwrite" /\ pc' = "checkgc"
      \/ pc = "checkgc" /\ pc' = "finish"
      \/ pc = "checkgc" /\ pc' = "recgc" /\ Deleting # {} /\ ram[Cur].st # "using"
  BY DEF CheckWriteNothing, CheckGcNothing, CheckGcKeep
<1>3. FlashOrder' /\ Agree' /\ ListOrder' /\ ReserveHead'
  BY <1>1, <1>2, FrameKeeps
<1>4. NoneFree' /\ Placing'
  BY <1>1, <1>2 DEF OrderInv, NoneFree, Placing, Used, Fresh, Newer, IsDeleting, Cur
<1>5. Reserve'
  <2>1. pc' = "recgc" => idle' # <<>>
    BY <1>1, <1>2, IdleForRecovery
  <2>2. \A s \in Range(idle) : ~ Used(s)
    BY <1>2 DEF OrderInv, Reserve
  <2> QED BY <1>1, <1>2, <2>1, <2>2 DEF Reserve, Used
<1> QED BY <1>2, <1>3, <1>4, <1>5 DEF OrderInv, Collecting, InGc

-----------------------------------------------------------------------------
(* Steps that program or drop an item *)

SameHeaders ==
    \A t \in Sector : /\ flash'[t].hdr = flash[t].hdr /\ flash'[t].sn = flash[t].sn
                      /\ ram'[t].st = ram[t].st /\ ram'[t].sn = ram[t].sn

LEMMA ProgramFrame ==
    ASSUME StoreType, NEW s \in Sector, NEW it,
           WriteHeader(s, it), UNCHANGED ram \/ Account(s, it)
    PROVE  SameHeaders /\ \A t \in Sector \ {s} : flash'[t] = flash[t]
<1>1. flash \in [Sector -> FlashSector] /\ ram \in [Sector -> RamSector]
  BY DEF StoreType
<1>2. \A t \in Sector : ram'[t].st = ram[t].st /\ ram'[t].sn = ram[t].sn
  <2>1. CASE Account(s, it)
    BY <1>1, <2>1 DEF Account, RamSector
  <2> QED BY <2>1
<1>3. /\ \A t \in Sector : flash'[t].hdr = flash[t].hdr /\ flash'[t].sn = flash[t].sn
      /\ \A t \in Sector \ {s} : flash'[t] = flash[t]
  BY <1>1 DEF WriteHeader, FlashSector
<1> QED BY <1>2, <1>3 DEF SameHeaders

LEMMA DataFrame ==
    ASSUME StoreType, NEW s \in Sector, WriteData(s)
    PROVE  SameHeaders /\ \A t \in Sector \ {s} : flash'[t] = flash[t]
<1>1. flash \in [Sector -> FlashSector] /\ ram \in [Sector -> RamSector]
  BY DEF StoreType
<1> DEFINE n == Len(flash[s].log)
<1>2. \A t \in Sector : ram'[t].st = ram[t].st /\ ram'[t].sn = ram[t].sn
  BY <1>1 DEF WriteData, Account, RamSector
<1>3. PICK st : flash' = [flash EXCEPT ![s].log[n].st = st]
  BY DEF WriteData
<1>4. /\ \A t \in Sector : flash'[t].hdr = flash[t].hdr /\ flash'[t].sn = flash[t].sn
      /\ \A t \in Sector \ {s} : flash'[t] = flash[t]
  BY <1>1, <1>3 DEF FlashSector
<1> QED BY <1>2, <1>4 DEF SameHeaders

LEMMA DropFrame ==
    ASSUME StoreType, NEW s \in Sector, NEW at, NEW span, DropItem(s, at, span)
    PROVE  /\ SameHeaders
           /\ \A t \in Sector : flash[t].log = <<>> => flash'[t].log = <<>>
<1>1. flash \in [Sector -> FlashSector] /\ ram \in [Sector -> RamSector]
  BY DEF StoreType
<1>2. \A t \in Sector : ram'[t].st = ram[t].st /\ ram'[t].sn = ram[t].sn
  BY <1>1 DEF DropItem, RamSector
<1>3. /\ DropAt(flash[s], at).hdr = flash[s].hdr /\ DropAt(flash[s], at).sn = flash[s].sn
      /\ flash[s].log = <<>> => DropAt(flash[s], at).log = <<>>
  BY <1>1 DEF DropAt, FlashSector
<1>4. flash' = [flash EXCEPT ![s] = DropAt(flash[s], at)]
  BY <1>1 DEF DropItem
<1>5. /\ \A t \in Sector : flash'[t].hdr = flash[t].hdr /\ flash'[t].sn = flash[t].sn
      /\ \A t \in Sector : flash[t].log = <<>> => flash'[t].log = <<>>
  BY <1>1, <1>3, <1>4
<1> QED BY <1>2, <1>5 DEF SameHeaders

\* While an item is written the current sector is in use.
LEMMA WritesInUse ==
    ASSUME IInv, OrderInv, pc \in {"write", "data", "eraseold"}, ~ Fresh(Cur)
    PROVE  Used(Cur) /\ Cur \in Sector /\ Cur \notin Range(idle) /\ flash[Cur].hdr # "erased"
<1>1. StoreType /\ ListsOK /\ Agree
  BY DEF IInv, TypeOK, OrderInv
<1>2. Cur \in Sector /\ Cur \in Range(active)
  BY <1>1, CurActive
<1> QED BY <1>1, <1>2, InOneList DEF Agree, Used, IsUsed

LEMMA WriteItemOrder ==
    ASSUME IInv, OrderInv, WriteItem
    PROVE  OrderInv'
<1> DEFINE it == NewItem(ram[Cur].next, op.k, op.v)
<1>1. /\ StoreType /\ ListsOK
      /\ pc = "write" /\ ~ Fresh(Cur) /\ pc' \in {"eraseold", "data"}
      /\ WriteHeader(Cur, it) /\ (UNCHANGED ram \/ Account(Cur, it))
      /\ UNCHANGED <<active, idle, serial, gc>>
  BY DEF WriteItem, CanWrite, Fresh, IInv, TypeOK
<1>2. Used(Cur) /\ Cur \in Sector /\ Cur \notin Range(idle) /\ flash[Cur].hdr # "erased"
  BY <1>1, WritesInUse
<1>3. SameHeaders /\ \A t \in Sector \ {Cur} : flash'[t] = flash[t]
  <2> HIDE DEF it
  <2> QED BY <1>1, <1>2, ProgramFrame
<1>4. FlashOrder' /\ Agree' /\ ListOrder' /\ ReserveHead'
  BY <1>1, <1>2, <1>3, FrameKeeps DEF SameHeaders
<1>5. Reserve' /\ Placing'
  BY <1>1, <1>2, <1>3, <1>4
     DEF OrderInv, Reserve, ReserveHead, Placing, SameHeaders, Used, Cur
<1> QED BY <1>1, <1>4, <1>5 DEF OrderInv, NoneFree, Collecting, InGc

LEMMA WriteItemDataOrder ==
    ASSUME IInv, OrderInv, WriteItemData
    PROVE  OrderInv'
<1>1. /\ StoreType /\ ListsOK
      /\ pc = "data" /\ pc' = "eraseold" /\ WriteData(Cur)
      /\ UNCHANGED <<active, idle, serial, gc>>
  BY DEF WriteItemData, IInv, TypeOK
<1>2. Used(Cur) /\ Cur \in Sector /\ Cur \notin Range(idle) /\ flash[Cur].hdr # "erased"
  BY <1>1, CurActive, InOneList DEF OrderInv, Placing, Used, IsUsed
<1>3. SameHeaders /\ \A t \in Sector \ {Cur} : flash'[t] = flash[t]
  BY <1>1, <1>2, DataFrame
<1>4. FlashOrder' /\ Agree' /\ ListOrder' /\ ReserveHead'
  BY <1>1, <1>2, <1>3, FrameKeeps DEF SameHeaders
<1>5. Reserve' /\ Placing'
  BY <1>1, <1>2, <1>3, <1>4
     DEF OrderInv, Reserve, ReserveHead, Placing, SameHeaders, Used, Cur
<1> QED BY <1>1, <1>4, <1>5 DEF OrderInv, NoneFree, Collecting, InGc

\* Between two items of a call, or after the last.
LEMMA DropReturns ==
    ASSUME IInv, OrderInv, pc \in {"ready", "eraseold"}, pc' = "ready",
           NEW s \in Sector, NEW at, NEW span,
           DropItem(s, at, span) \/ UNCHANGED <<flash, ram>>,
           UNCHANGED <<active, idle, serial, gc>>
    PROVE  OrderInv'
<1>1. StoreType
  BY DEF IInv, TypeOK
<1>2. SameHeaders /\ \A t \in Sector : flash[t].log = <<>> => flash'[t].log = <<>>
  <2>1. CASE DropItem(s, at, span)
    BY <1>1, <2>1, DropFrame
  <2>2. CASE UNCHANGED <<flash, ram>>
    BY <2>2 DEF SameHeaders
  <2> QED BY <2>1, <2>2
<1>3. FlashOrder' /\ Agree' /\ ListOrder' /\ ReserveHead'
  BY <1>2, FrameKeeps DEF SameHeaders
<1>4. Reserve'
  BY <1>3 DEF OrderInv, Reserve, ReserveHead
<1> QED BY <1>3, <1>4 DEF OrderInv, NoneFree, Collecting, Placing, InGc

LEMMA EraseOldOrder ==
    ASSUME IInv, OrderInv, EraseOld
    PROVE  OrderInv'
<1>1. /\ pc = "eraseold" /\ pc' = "ready"
      /\ DropItem(op.sec, op.at, SpanOf[op.old]) \/ UNCHANGED <<flash, ram>>
      /\ UNCHANGED <<active, idle, serial, gc>>
  BY DEF EraseOld, Return
<1>2. op.sec \in Sector
  BY DEF IInv, TypeOK, ControlType
<1> QED BY <1>1, <1>2, DropReturns

LEMMA DeleteOrder ==
    ASSUME IInv, OrderInv, NEW k \in Keys, Delete(k)
    PROVE  OrderInv'
<1> DEFINE f == FindItem(k, Types)
<1>1. /\ pc = "ready" /\ pc' = "ready"
      /\ DropItem(f.sec, FoundItem(f).at, FoundItem(f).span)
      /\ UNCHANGED <<active, idle, serial, gc>>
  BY DEF Delete
<1>2. f.sec \in Sector
  BY FindItemType DEF IInv, TypeOK
<1> HIDE DEF f
<1> QED BY <1>1, <1>2, DropReturns

LEMMA CheckDropOrder ==
    ASSUME IInv, OrderInv, pc = "checkwrite", pc' = "checkgc",
           NEW s \in Sector, NEW at, NEW span, DropItem(s, at, span),
           UNCHANGED <<active, idle, serial, gc>>
    PROVE  OrderInv'
<1>1. StoreType
  BY DEF IInv, TypeOK
<1>2. SameHeaders /\ \A t \in Sector : flash[t].log = <<>> => flash'[t].log = <<>>
  BY <1>1, DropFrame
<1>3. FlashOrder' /\ Agree' /\ ListOrder' /\ ReserveHead'
  BY <1>2, FrameKeeps DEF SameHeaders
<1>4. Reserve'
  <2>1. \A t \in Range(idle) : t \in Sector /\ ~ Used(t)
    BY DEF OrderInv, Reserve, IInv, ListsOK
  <2> QED BY <1>2, <2>1 DEF Reserve, SameHeaders, Used
<1>5. NoneFree'
  BY <1>2 DEF OrderInv, NoneFree, SameHeaders, Used, IsDeleting, Newer
<1>6. Placing'
  <2>1. Cur' = Cur /\ Cur \in Sector
    BY CurActive DEF Cur, IInv, TypeOK
  <2> QED BY <1>2, <2>1 DEF OrderInv, Placing, SameHeaders, Used, Fresh, IsDeleting
<1> QED BY <1>3, <1>4, <1>5, <1>6 DEF OrderInv, Collecting, InGc

-----------------------------------------------------------------------------
(* Taking a sector into use *)

LEMMA AllActiveUsed ==
    ASSUME IInv, OrderInv, pc \notin {"off", "gcerase", "recerase"}, ~ Fresh(Cur)
    PROVE  \A t \in Range(active) : t \in Sector /\ Used(t)
<1>1. Range(active) \subseteq Sector
  BY CurActive DEF IInv, TypeOK
<1> QED BY <1>1 DEF OrderInv, Agree

\* The sector that is taken is the newest one, and only it may lack a header.
LEMMA ActivateOrder ==
    ASSUME IInv, OrderInv, pc \in {"write", "recgc"}, idle # <<>>, ~ Fresh(Cur), Activate,
           pc' \notin {"gcerase", "recerase"}, NEW s, s = Head(idle)
    PROVE  /\ FlashOrder' /\ Agree' /\ ListOrder'
           /\ s \in Range(idle) /\ Cur' = s
           /\ Range(active') = Range(active) \union {s}
           /\ Range(idle') = Range(idle) \ {s} /\ Len(idle') = Len(idle) - 1
           /\ \A t \in Range(idle') : t \in Sector /\ ~ Used(t)'
           /\ \A t \in Sector \ {s} : flash'[t] = flash[t] /\ ram'[t] = ram[t]
           /\ \/ Used(s)' /\ pc = "write" /\ flash'[s].hdr = "using" /\ flash'[s].log = <<>>
                 /\ ram'[s].st = "using" /\ flash'[s] = flash[s]
              \/ Fresh(s)' /\ ~ Used(s)' /\ flash'[s].hdr = "erased"
<1> DEFINE bad == ram[s].st = "crash"
<1>1. /\ StoreType /\ ListsOK /\ FlashOrder /\ Agree /\ ListOrder /\ Reserve
      /\ flash \in [Sector -> FlashSector] /\ ram \in [Sector -> RamSector]
  BY DEF IInv, TypeOK, OrderInv, StoreType
<1>2. /\ s \in Sector /\ s \in Range(idle) /\ s \notin Range(active)
      /\ Range(Tail(idle)) = Range(idle) \ {s} /\ Len(Tail(idle)) = Len(idle) - 1
  BY <1>1, TailRange DEF StoreType, ListsOK
<1>3. /\ active' = Append(active, s) /\ idle' = Tail(idle) /\ serial' = serial + 1
      /\ flash' = IF bad THEN [flash EXCEPT ![s] = Blank] ELSE flash
      /\ ram' = [ram EXCEPT ![s] = [(IF bad THEN Unloaded ELSE @) EXCEPT !.sn = serial]]
  BY DEF Activate
<1>4. /\ Cur' = s /\ Range(active') = Range(active) \union {s}
      /\ DOMAIN active' = 1 .. Len(active) + 1 /\ DOMAIN active = 1 .. Len(active)
      /\ Len(active) \in Nat
      /\ \A n \in 1 .. Len(active) : active'[n] = active[n]
      /\ active'[Len(active) + 1] = s
  <2>1. active \in Seq(Sector)
    BY <1>1 DEF StoreType
  <2>2. Cur' = Last(active')
    BY DEF Cur
  <2> QED BY <1>1, <1>2, <1>3, <2>1, <2>2, AppendRange DEF ListsOK
<1>5. \A t \in Sector \ {s} : flash'[t] = flash[t] /\ ram'[t] = ram[t]
  BY <1>1, <1>2, <1>3
<1>6. ram'[s].sn = serial /\ serial \in Nat
  BY <1>1, <1>2, <1>3 DEF StoreType, RamSector, Unloaded
<1>7. \A t \in Range(active) : t \in Sector /\ Used(t)
  BY AllActiveUsed
<1>8. ASSUME Used(s)
      PROVE  /\ flash' = flash /\ pc = "write" /\ flash[s].hdr = "using"
             /\ flash[s].log = <<>> /\ ram'[s].st = "using"
             /\ \A t \in Range(active) : Newer(s, t)
  <2>1. /\ pc = "write" /\ flash[s].hdr = "using" /\ flash[s].log = <<>>
        /\ \A t \in Range(active) : Newer(s, t)
    BY <1>1, <1>2, <1>8 DEF Reserve
  <2>2. ram[s].st = "using"
    BY <1>1, <1>2, <1>8, <2>1 DEF Agree
  <2>3. flash' = flash /\ ram'[s].st = "using"
    BY <1>1, <1>2, <1>3, <2>2 DEF RamSector
  <2> QED BY <2>1, <2>3
<1>9. ASSUME ~ Used(s)
      PROVE  /\ Fresh(s)' /\ flash'[s].hdr = "erased" /\ flash'[s].log = <<>>
  <2>1. ram[s].st \in {"uninit", "crash"}
    BY <1>1, <1>2, <1>9, SectorTypes DEF Agree, Used, IsUsed, RamStatus
  <2>2. ram'[s].st = "uninit"
    BY <1>1, <1>2, <1>3, <2>1 DEF RamSector, Unloaded
  <2>3. flash'[s].hdr = "erased" /\ flash'[s].log = <<>>
    <3>1. CASE bad
      BY <1>1, <1>2, <1>3, <3>1 DEF Blank
    <3>2. CASE ~ bad
      BY <1>1, <1>2, <1>3, <2>1, <3>2 DEF Agree, Fresh, FlashOrder
    <3> QED BY <3>1, <3>2
  <2>4. Fresh(s)'
    BY <2>2 DEF Fresh
  <2> QED BY <2>3, <2>4
<1> HIDE DEF bad
<1>10. /\ Used(s)' <=> Used(s)
       /\ \A t \in Sector \ {s} : (Used(t)' <=> Used(t)) /\ (Fresh(t)' <=> Fresh(t))
  <2>1. Used(s)' <=> Used(s)
    BY <1>8, <1>9 DEF Used, IsUsed
  <2> QED BY <2>1, <1>5 DEF Used, Fresh
<1>11. \A t \in Sector : Used(t) => Used(t)' /\ flash'[t] = flash[t]
  BY <1>5, <1>8, <1>10
<1>12. FlashOrder'
  <2>1. \A t \in Sector : Used(t)' => Used(t) /\ flash'[t] = flash[t]
    BY <1>10, <1>11
  <2>2. \A t \in Sector : flash'[t].hdr = "erased" => flash'[t].log = <<>>
    BY <1>1, <1>5, <1>8, <1>9 DEF FlashOrder
  <2> QED BY <1>1, <2>1, <2>2 DEF FlashOrder, Newer
<1>13. Agree'
  <2> SUFFICES ASSUME NEW t \in Sector
               PROVE  /\ Used(t)' \/ IsUsed(ram'[t].st) => ram'[t].st = flash'[t].hdr
                      /\ Fresh(t)' => flash'[t].hdr = "erased"
                      /\ t \in Range(active') => Used(t)' \/ (Fresh(t)' /\ t = Cur')
    BY DEF Agree
  <2>1. CASE t = s
    <3>1. CASE Used(s)
      BY <1>8, <1>10, <2>1, <3>1 DEF Fresh
    <3>2. CASE ~ Used(s)
      BY <1>4, <1>9, <1>10, <2>1, <3>2 DEF Fresh, IsUsed
    <3> QED BY <3>1, <3>2
  <2>2. CASE t # s
    <3>1. t \in Range(active') => t \in Range(active)
      BY <1>4, <2>2
    <3> QED BY <1>1, <1>5, <1>7, <1>10, <2>2, <3>1 DEF Agree
  <2> QED BY <2>1, <2>2
<1>14. ListOrder'
  <2>1. \A t \in Sector : Used(t)' => /\ Used(t) /\ flash'[t] = flash[t]
                                      /\ flash[t].sn < serial /\ flash[t].sn \in Nat
    BY <1>1, <1>10, <1>11, SectorTypes DEF ListOrder
  <2>2. \A t \in Sector : Used(t)' => flash'[t].sn < serial'
    BY <1>3, <1>6, <2>1
  <2>3. ASSUME NEW m \in DOMAIN active', NEW n \in DOMAIN active', m < n,
               Used(active[m])', Used(active[n])'
        PROVE  Newer(active[n], active[m])'
    <3>1. m \in 1 .. Len(active) /\ active'[m] = active[m]
      BY <1>4, <2>3
    <3>2. active[m] \in Range(active) /\ active[m] \in Sector /\ Used(active[m])
      BY <1>4, <1>7, <3>1 DEF Range
    <3>3. CASE n \in 1 .. Len(active)
      <4>1. active'[n] = active[n] /\ active[n] \in Sector /\ Used(active[n])
        BY <1>4, <1>7, <3>3 DEF Range
      <4>2. Newer(active[n], active[m])
        BY <1>1, <1>4, <2>3, <3>1, <3>2, <3>3, <4>1 DEF ListOrder
      <4> QED BY <1>11, <3>1, <3>2, <4>1, <4>2 DEF Newer
    <3>4. CASE n = Len(active) + 1
      <4>1. active'[n] = s /\ Used(s)
        BY <1>4, <1>10, <2>3, <3>4
      <4>2. Newer(s, active[m])
        BY <1>8, <3>2, <4>1
      <4> QED BY <1>2, <1>11, <3>1, <3>2, <4>1, <4>2 DEF Newer
    <3> QED BY <1>4, <3>3, <3>4
  <2>4. Fresh(Cur)' => /\ ram'[Cur'].sn < serial'
                       /\ \A t \in Sector : Used(t)' => flash'[t].sn < ram'[Cur'].sn
    BY <1>3, <1>4, <1>6, <2>1
  <2> QED BY <2>2, <2>3, <2>4 DEF ListOrder
<1>15. \A t \in Range(idle') : t \in Sector /\ ~ Used(t)'
  <2>1. \A t \in Range(idle') : t \in Range(idle) /\ t # s /\ t \in Sector
    BY <1>1, <1>2, <1>3 DEF ListsOK
  <2> QED BY <1>1, <1>10, <2>1 DEF Reserve
<1>16. \/ Used(s)' /\ pc = "write" /\ flash'[s].hdr = "using" /\ flash'[s].log = <<>>
          /\ ram'[s].st = "using" /\ flash'[s] = flash[s]
       \/ Fresh(s)' /\ ~ Used(s)' /\ flash'[s].hdr = "erased"
  BY <1>8, <1>9, <1>10
<1> QED BY <1>2, <1>3, <1>4, <1>5, <1>12, <1>13, <1>14, <1>15, <1>16

LEMMA RequestIdleOrder ==
    ASSUME IInv, OrderInv, RequestIdle
    PROVE  OrderInv'
<1>1. /\ StoreType /\ ListsOK /\ pc = "write" /\ pc' = "write" /\ ~ Fresh(Cur)
      /\ Len(idle) > 1 /\ idle # <<>> /\ Activate
  BY DEF RequestIdle, NeedSector, Fresh, IInv, TypeOK, StoreType
<1>2. PICK s : s = Head(idle)
  OBVIOUS
<1>3. /\ FlashOrder' /\ Agree' /\ ListOrder' /\ Len(idle') = Len(idle) - 1
      /\ \A t \in Range(idle') : t \in Sector /\ ~ Used(t)'
  BY <1>1, <1>2, ActivateOrder
<1>4. idle' # <<>>
  <2>1. Len(idle') > 0
    BY <1>1, <1>3 DEF StoreType
  <2> QED BY <2>1
<1>5. Reserve'
  BY <1>3, <1>4 DEF Reserve
<1> QED BY <1>1, <1>3, <1>5 DEF OrderInv, NoneFree, Collecting, Placing, InGc

LEMMA GcStartOrder ==
    ASSUME IInv, OrderInv, GcStart
    PROVE  OrderInv'
<1>1. /\ StoreType /\ ListsOK /\ pc = "write" /\ ~ Fresh(Cur) /\ Len(idle) = 1 /\ Activate
      /\ gc' = [src |-> Dirtiest, dst |-> Head(idle), i |-> 1, d |-> 0, rec |-> FALSE]
      /\ pc' = IF ram'[Head(idle)].st = "uninit" THEN "gcinit" ELSE "gcmark"
  BY DEF GcStart, NeedSector, Fresh, IInv, TypeOK
<1>2. idle # <<>>
  BY <1>1, EmptySeq
<1>3. PICK s : s = Head(idle)
  OBVIOUS
<1>4. /\ FlashOrder' /\ Agree' /\ ListOrder' /\ Cur' = s
      /\ \A t \in Range(idle') : t \in Sector /\ ~ Used(t)'
      /\ \/ /\ Used(s)' /\ flash'[s].hdr = "using" /\ flash'[s].log = <<>>
            /\ ram'[s].st = "using"
         \/ Fresh(s)'
  <2>1. pc' \notin {"gcerase", "recerase"}
    BY <1>1
  <2> QED BY <1>1, <1>2, <1>3, <2>1, ActivateOrder
<1>5. gc'.dst = s /\ gc'.i = 1 /\ gc'.d = 0 /\ gc'.rec = FALSE
  BY <1>1, <1>3
<1>6. Collecting'
  <2>1. CASE ram'[s].st = "uninit"
    <3>1. pc' = "gcinit" /\ Fresh(s)'
      BY <1>1, <1>3, <2>1 DEF Fresh
    <3> QED BY <1>4, <1>5, <3>1 DEF Collecting, InGc, Fresh
  <2>2. CASE ram'[s].st # "uninit"
    <3>1. pc' = "gcmark" /\ ~ Fresh(s)'
      BY <1>1, <1>3, <2>2 DEF Fresh
    <3> QED BY <1>4, <1>5, <3>1 DEF Collecting, InGc
  <2> QED BY <2>1, <2>2
<1>7. pc' \in {"gcinit", "gcmark"}
  BY <1>1
<1>8. Reserve'
  BY <1>4, <1>7 DEF Reserve
<1> QED BY <1>4, <1>6, <1>7, <1>8 DEF OrderInv, NoneFree, Placing

LEMMA CheckGcStartOrder ==
    ASSUME IInv, OrderInv, CheckGcStart
    PROVE  OrderInv'
<1> DEFINE src == active[LeastOf(Deleting)]
<1>1. /\ StoreType /\ ListsOK /\ Headers /\ Recovering
      /\ pc = "recgc" /\ idle # <<>> /\ Activate
      /\ gc' = [src |-> src, dst |-> Head(idle), i |-> 1, d |-> 0, rec |-> TRUE]
      /\ pc' = IF ram'[Head(idle)].st = "uninit" THEN "gcinit" ELSE "gccopy"
  BY DEF CheckGcStart, IInv, TypeOK
<1>2. src \in Range(active) /\ ram[src].st = "deleting" /\ src \in Sector
  BY <1>1, DeletingFound, CurActive DEF Recovering
<1>3. PICK d : d = src
  OBVIOUS
<1> HIDE DEF src
<1>4. IsDeleting(d)
  BY <1>1, <1>2, <1>3 DEF Headers
<1>5. ~ Fresh(Cur)
  BY <1>1, <1>2, <1>3, <1>4 DEF OrderInv, Placing
<1>6. PICK s : s = Head(idle)
  OBVIOUS
<1>7. /\ FlashOrder' /\ Agree' /\ ListOrder' /\ Cur' = s /\ s \in Range(idle)
      /\ \A t \in Range(idle') : t \in Sector /\ ~ Used(t)'
      /\ \A t \in Sector \ {s} : flash'[t] = flash[t]
      /\ Fresh(s)'
  <2>1. pc' \notin {"gcerase", "recerase"}
    BY <1>1
  <2> QED BY <1>1, <1>5, <1>6, <2>1, ActivateOrder
<1>8. pc' = "gcinit"
  BY <1>1, <1>6, <1>7 DEF Fresh
<1>9. gc'.src = d /\ gc'.dst = s /\ gc'.i = 1 /\ gc'.d = 0
  BY <1>1, <1>3, <1>6
<1>10. IsDeleting(d)'
  <2>1. d # s /\ d \in Sector
    BY <1>1, <1>2, <1>3, <1>7, InOneList
  <2> QED BY <1>4, <1>7, <2>1 DEF IsDeleting
<1>11. Collecting'
  BY <1>7, <1>8, <1>9, <1>10 DEF Collecting, InGc, IsDeleting, Fresh
<1> QED BY <1>7, <1>8, <1>11 DEF OrderInv, NoneFree, Placing, Reserve

-----------------------------------------------------------------------------
(* Programming a header *)

\* The sector that was just taken gets the number that was kept for it.
LEMMA InitOrder ==
    ASSUME IInv, OrderInv, pc \in {"write", "gcinit"}, Fresh(Cur), InitSector(Cur),
           UNCHANGED <<active, idle, serial>>
    PROVE  /\ FlashOrder' /\ Agree' /\ ListOrder'
           /\ Cur' = Cur /\ Cur \in Sector /\ flash'[Cur].hdr = "using"
           /\ flash'[Cur].log = <<>>
           /\ \A t \in Sector \ {Cur} : flash'[t] = flash[t]
           /\ \A t \in Range(idle) : ~ Used(t)'
<1>1. /\ StoreType /\ ListsOK /\ FlashOrder /\ Agree /\ ListOrder /\ Reserve
      /\ flash \in [Sector -> FlashSector] /\ ram \in [Sector -> RamSector]
  BY DEF IInv, TypeOK, OrderInv, StoreType
<1>2. /\ Cur \in Sector /\ Cur \in Range(active) /\ Cur' = Cur /\ Range(active) \subseteq Sector
      /\ Cur \notin Range(idle) /\ Range(idle) \subseteq Sector
  BY <1>1, CurActive, InOneList DEF Cur, ListsOK
<1>3. PICK c : c = Cur
  OBVIOUS
<1>4. /\ flash'[c].hdr = "using" /\ flash'[c].sn = ram[c].sn /\ flash'[c].log = flash[c].log
      /\ ram'[c].st = "using"
      /\ \A t \in Sector \ {c} : flash'[t] = flash[t] /\ ram'[t] = ram[t]
  BY <1>1, <1>2, <1>3 DEF InitSector, FlashSector, Unloaded
<1>5. flash[c].hdr = "erased" /\ flash[c].log = <<>> /\ ~ Used(c) /\ Used(c)' /\ ~ Fresh(c)'
  BY <1>1, <1>2, <1>3, <1>4 DEF Agree, FlashOrder, Used, Fresh, IsUsed
<1>6. \A t \in Sector \ {c} : (Used(t)' <=> Used(t)) /\ (Fresh(t)' <=> Fresh(t))
  BY <1>4 DEF Used, Fresh
<1>7. /\ \A t \in Sector : Used(t) => flash[t].sn < ram[c].sn /\ t # c
      /\ ram[c].sn < serial /\ ram[c].sn \in Nat /\ \A t \in Sector : flash[t].sn \in Nat
  BY <1>1, <1>2, <1>3, <1>5, SectorTypes DEF ListOrder
<1>8. FlashOrder'
  <2>1. \A t, u \in Sector \ {c} : Newer(t, u)' <=> Newer(t, u)
    BY <1>4 DEF Newer
  <2>2. \A t \in Sector \ {c} : Used(t)' => Newer(c, t)'
    BY <1>4, <1>6, <1>7 DEF Newer
  <2> QED BY <1>1, <1>4, <1>5, <1>6, <2>1, <2>2 DEF FlashOrder
<1>9. Agree'
  <2> SUFFICES ASSUME NEW t \in Sector
               PROVE  /\ Used(t)' \/ IsUsed(ram'[t].st) => ram'[t].st = flash'[t].hdr
                      /\ Fresh(t)' => flash'[t].hdr = "erased"
                      /\ t \in Range(active') => Used(t)'
    BY DEF Agree
  <2>1. CASE t = c
    BY <1>4, <1>5, <2>1
  <2>2. CASE t # c
    BY <1>1, <1>2, <1>3, <1>4, <1>6, <2>2 DEF Agree
  <2> QED BY <2>1, <2>2
<1>10. ListOrder'
  <2>1. \A t \in Sector : Used(t)' => flash'[t].sn < serial'
    BY <1>1, <1>4, <1>6, <1>7 DEF ListOrder
  <2>2. ASSUME NEW m \in DOMAIN active', NEW n \in DOMAIN active', m < n,
               Used(active[m])', Used(active[n])'
        PROVE  Newer(active[n], active[m])'
    <3>1. /\ active \in Seq(Sector) /\ c = active[Len(active)] /\ IsInjective(active)
          /\ active' = active
      BY <1>1, <1>2, <1>3 DEF StoreType, ListsOK, Cur, Last
    <3>2. PICK a, b : a = active[m] /\ b = active[n]
      OBVIOUS
    <3>3. a \in Sector /\ b \in Sector /\ Used(a)' /\ Used(b)'
      BY <2>2, <3>1, <3>2
    <3>4. a # c
      BY <2>2, <3>1, <3>2 DEF IsInjective
    <3>5. CASE b = c
      BY <1>4, <1>6, <1>7, <3>1, <3>2, <3>3, <3>4, <3>5 DEF Newer
    <3>6. CASE b # c
      <4>1. Newer(b, a)
        BY <1>1, <1>6, <2>2, <3>1, <3>2, <3>3, <3>4, <3>6 DEF ListOrder
      <4> QED BY <1>4, <3>1, <3>2, <3>3, <3>4, <3>6, <4>1 DEF Newer
    <3> QED BY <3>5, <3>6
  <2>3. ~ Fresh(Cur)'
    BY <1>2, <1>3, <1>5 DEF Fresh
  <2> QED BY <2>1, <2>2, <2>3 DEF ListOrder
<1>11. \A t \in Range(idle) : ~ Used(t)'
  <2>1. \A t \in Range(idle) : ~ Used(t) /\ t # c
    BY <1>1, <1>2, <1>3, <1>5 DEF Reserve
  <2> QED BY <1>2, <1>6, <2>1
<1> QED BY <1>2, <1>3, <1>4, <1>5, <1>8, <1>9, <1>10, <1>11

LEMMA WriteInitOrder ==
    ASSUME IInv, OrderInv, WriteInit
    PROVE  OrderInv'
<1>1. /\ pc = "write" /\ pc' = "write" /\ Fresh(Cur) /\ InitSector(Cur)
      /\ UNCHANGED <<active, idle, serial>>
  BY DEF WriteInit, Fresh
<1>2. FlashOrder' /\ Agree' /\ ListOrder' /\ \A t \in Range(idle') : ~ Used(t)'
  BY <1>1, InitOrder
<1>3. Reserve'
  BY <1>1, <1>2 DEF OrderInv, Reserve
<1> QED BY <1>1, <1>2, <1>3 DEF OrderInv, NoneFree, Collecting, Placing, InGc

LEMMA GcInitOrder ==
    ASSUME IInv, OrderInv, GcInit
    PROVE  OrderInv'
<1>1. /\ pc = "gcinit" /\ pc' = (IF gc.rec THEN "gccopy" ELSE "gcmark")
      /\ pc' \in {"gccopy", "gcmark"} /\ InitSector(gc.dst) /\ GcSet
      /\ UNCHANGED <<active, idle, serial, gc>>
  BY DEF GcInit, IInv, InGc
<1>2. gc.dst = Cur /\ Fresh(Cur) /\ gc.i = 1 /\ gc.d = 0 /\ (gc.rec => IsDeleting(gc.src))
  BY <1>1 DEF OrderInv, Collecting, InGc
<1>3. /\ FlashOrder' /\ Agree' /\ ListOrder' /\ \A t \in Range(idle') : ~ Used(t)'
      /\ Cur' = Cur /\ flash'[gc.dst].hdr = "using" /\ flash'[gc.dst].log = <<>>
      /\ \A t \in Sector \ {Cur} : flash'[t] = flash[t]
  BY <1>1, <1>2, InitOrder
<1>4. gc.rec => IsDeleting(gc.src)'
  <2>1. gc.src \in Sector \ {Cur}
    BY <1>1, <1>2 DEF GcSet, IInv, TypeOK, ControlType
  <2> QED BY <1>1, <1>2, <1>3, <2>1 DEF IsDeleting
<1>5. Collecting'
  <2>1. pc' = "gccopy" => gc.rec
    BY <1>1
  <2> QED BY <1>1, <1>2, <1>3, <1>4, <2>1 DEF Collecting, InGc, IsDeleting
<1> QED BY <1>1, <1>3, <1>5 DEF OrderInv, NoneFree, Placing, Reserve

LEMMA StateFrame ==
    ASSUME StoreType, NEW s \in Sector, NEW st, SetState(s, st)
    PROVE  /\ flash'[s].hdr = st /\ ram'[s].st = st
           /\ \A t \in Sector : /\ flash'[t].sn = flash[t].sn /\ flash'[t].log = flash[t].log
                                /\ ram'[t].sn = ram[t].sn
           /\ \A t \in Sector \ {s} : flash'[t] = flash[t] /\ ram'[t] = ram[t]
<1>1. flash \in [Sector -> FlashSector] /\ ram \in [Sector -> RamSector]
  BY DEF StoreType
<1> QED BY <1>1 DEF SetState, FlashSector, RamSector

LEMMA GcMarkOrder ==
    ASSUME IInv, OrderInv, GcMark
    PROVE  OrderInv'
<1>1. /\ StoreType /\ ListsOK /\ GcSet /\ FlashOrder /\ Agree /\ ListOrder /\ Reserve
      /\ pc = "gcmark" /\ pc' = "gccopy" /\ SetState(gc.src, "deleting")
      /\ UNCHANGED <<active, idle, serial, gc>>
  BY DEF GcMark, IInv, TypeOK, InGc, OrderInv
<1>2. PICK d : d = gc.src
  OBVIOUS
<1>3. /\ d \in Sector /\ d \in Range(active) /\ gc.dst = Cur /\ Cur \in Sector /\ d # Cur
      /\ Cur' = Cur /\ flash[gc.dst].hdr = "using"
      /\ \A n \in DOMAIN active : active[n] \in Sector
  BY <1>1, <1>2, CurActive DEF OrderInv, Collecting, InGc, GcSet, Cur, StoreType
<1>4. /\ flash'[d].hdr = "deleting" /\ ram'[d].st = "deleting"
      /\ \A t \in Sector : /\ flash'[t].sn = flash[t].sn /\ flash'[t].log = flash[t].log
                           /\ ram'[t].sn = ram[t].sn
      /\ \A t \in Sector \ {d} : flash'[t] = flash[t] /\ ram'[t] = ram[t]
  BY <1>1, <1>2, <1>3, StateFrame
<1>5. Used(d) /\ ~ Fresh(d) /\ ~ Fresh(d)'
  BY <1>1, <1>3, <1>4 DEF Agree, Used, Fresh, IsUsed
<1>6. /\ \A t \in Sector : Used(t)' <=> Used(t)
      /\ \A t \in Sector : Fresh(t)' <=> Fresh(t)
      /\ \A t, u \in Sector : Newer(t, u)' <=> Newer(t, u)
  BY <1>4, <1>5 DEF Used, Fresh, Newer, IsUsed
<1>7. FlashOrder'
  BY <1>1, <1>4, <1>6 DEF FlashOrder
<1>8. Agree'
  BY <1>1, <1>3, <1>4, <1>5, <1>6 DEF Agree
<1>9. ListOrder'
  BY <1>1, <1>3, <1>4, <1>6 DEF ListOrder
<1>10. Reserve'
  <2>1. \A t \in Range(idle) : t \in Sector /\ ~ Used(t)
    BY <1>1 DEF Reserve, ListsOK
  <2> QED BY <1>1, <1>6, <2>1 DEF Reserve
<1>11. Collecting'
  BY <1>1, <1>2, <1>3, <1>4 DEF Collecting, InGc, IsDeleting
<1> QED BY <1>1, <1>7, <1>8, <1>9, <1>10, <1>11 DEF OrderInv, NoneFree, Placing

\* The source and the destination of a collection stay what they are while it goes on.
CopyGoesOn == gc'.src = gc.src /\ gc'.dst = gc.dst /\ pc' \in {"gccopy", "gcdata"}

LEMMA CopyOrder ==
    ASSUME IInv, OrderInv, pc \in {"gccopy", "gcdata"}, CopyGoesOn, SameHeaders,
           \A t \in Sector \ {gc.dst} : flash'[t] = flash[t],
           UNCHANGED <<active, idle, serial>>
    PROVE  OrderInv'
<1>1. /\ StoreType /\ ListsOK /\ Reserve
      /\ gc.dst = Cur /\ flash[gc.dst].hdr = "using" /\ IsDeleting(gc.src)
  BY DEF IInv, TypeOK, OrderInv, Collecting, InGc
<1>2. /\ Cur \in Sector /\ Cur \notin Range(idle) /\ Cur' = Cur /\ gc.src \in Sector
      /\ \A t \in Range(idle) : t \in Sector
  BY <1>1, CurActive, InOneList DEF Cur, IInv, TypeOK, ControlType, ListsOK
<1>3. FlashOrder' /\ Agree' /\ ListOrder' /\ ReserveHead'
  <2>1. \A t \in Sector : flash[t].hdr = "erased" \/ t \in Range(idle) => t # gc.dst
    BY <1>1, <1>2
  <2>2. \A t \in Sector : /\ flash[t].hdr = "erased" \/ t \in Range(idle)
                        /\ flash[t].log = <<>>
                        => flash'[t].log = <<>>
    BY <2>1
  <2> QED BY <2>2, FrameKeeps DEF SameHeaders
<1>4. Reserve'
  <2>1. \A t \in Range(idle) : ~ Used(t)
    BY <1>1 DEF Reserve
  <2> QED BY <1>2, <2>1 DEF Reserve, SameHeaders, Used, CopyGoesOn
<1>5. Collecting'
  BY <1>1, <1>2 DEF Collecting, InGc, CopyGoesOn, SameHeaders, IsDeleting
<1> QED BY <1>3, <1>4, <1>5 DEF OrderInv, NoneFree, Placing, CopyGoesOn

LEMMA GcCopyOrder ==
    ASSUME IInv, OrderInv, GcCopy
    PROVE  OrderInv'
<1>1. /\ StoreType /\ ControlType /\ pc = "gccopy" /\ WriteHeader(gc.dst, Copied)
      /\ \/ /\ Account(gc.dst, Copied) /\ pc' = pc
            /\ gc' = [gc EXCEPT !.i = LeastOf(ToCopy) + 1, !.d = @ + 1]
         \/ pc' = "gcdata" /\ UNCHANGED <<ram, gc>>
      /\ UNCHANGED <<active, idle, serial>>
  BY DEF GcCopy, IInv, TypeOK
<1>2. gc.dst \in Sector
  BY <1>1 DEF ControlType
<1>3. SameHeaders /\ \A t \in Sector \ {gc.dst} : flash'[t] = flash[t]
  BY <1>1, <1>2, ProgramFrame
<1>4. CopyGoesOn
  BY <1>1 DEF CopyGoesOn, ControlType
<1> QED BY <1>1, <1>3, <1>4, CopyOrder

LEMMA GcCopyDataOrder ==
    ASSUME IInv, OrderInv, GcCopyData
    PROVE  OrderInv'
<1>1. /\ StoreType /\ ControlType /\ pc = "gcdata" /\ pc' = "gccopy" /\ WriteData(gc.dst)
      /\ gc' = [gc EXCEPT !.i = LeastOf(ToCopy) + 1, !.d = @ + Copied.span]
      /\ UNCHANGED <<active, idle, serial>>
  BY DEF GcCopyData, IInv, TypeOK
<1>2. gc.dst \in Sector
  BY <1>1 DEF ControlType
<1>3. SameHeaders /\ \A t \in Sector \ {gc.dst} : flash'[t] = flash[t]
  BY <1>1, <1>2, DataFrame
<1>4. CopyGoesOn
  BY <1>1 DEF CopyGoesOn, ControlType
<1> QED BY <1>1, <1>3, <1>4, CopyOrder

-----------------------------------------------------------------------------
(* Giving a sector up *)

\* Marking a sector as crashed takes it out of the order and changes nothing of the rest.
LEMMA CrashOrder ==
    ASSUME IInv, OrderInv, pc \in {"gccopy", "checkgc"}, NEW s \in Range(active),
           ~ Fresh(Cur), SetState(s, "crash"), UNCHANGED <<active, idle, serial>>,
           \/ pc' = "gcerase" /\ gc'.src = s
           \/ pc' = "recerase" /\ Cur = s
    PROVE  /\ FlashOrder' /\ Agree' /\ ListOrder' /\ Reserve'
           /\ flash'[s].hdr = "crash" /\ Cur' = Cur /\ ~ Fresh(Cur)'
<1>1. StoreType /\ ListsOK /\ FlashOrder /\ Agree /\ ListOrder /\ Reserve
  BY DEF IInv, TypeOK, OrderInv
<1>2. /\ s \in Sector /\ Cur \in Sector /\ Cur' = Cur
      /\ \A n \in DOMAIN active : active[n] \in Sector
      /\ \A t \in Range(idle) : t \in Sector
  BY <1>1, CurActive DEF Cur, StoreType, ListsOK
<1>3. /\ flash'[s].hdr = "crash" /\ ram'[s].st = "crash"
      /\ \A t \in Sector : flash'[t].sn = flash[t].sn /\ flash'[t].log = flash[t].log
      /\ \A t \in Sector \ {s} : flash'[t] = flash[t] /\ ram'[t] = ram[t]
  BY <1>1, <1>2, StateFrame
<1>4. /\ ~ Used(s)' /\ ~ Fresh(s)' /\ ~ IsUsed(ram'[s].st)
      /\ \A t \in Sector : Used(t)' => Used(t)
      /\ \A t \in Sector : Fresh(t)' => Fresh(t)
      /\ \A t \in Sector \ {s} : (Used(t)' <=> Used(t)) /\ (Fresh(t)' <=> Fresh(t))
      /\ \A t, u \in Sector : Newer(t, u)' <=> Newer(t, u)
  BY <1>2, <1>3 DEF Used, Fresh, Newer, IsUsed
<1>5. FlashOrder'
  <2>1. \A t \in Sector : flash'[t].hdr = "erased" => flash'[t].log = <<>>
    BY <1>1, <1>2, <1>3 DEF FlashOrder
  <2> QED BY <1>1, <1>4, <2>1 DEF FlashOrder
<1>6. Agree'
  <2> SUFFICES ASSUME NEW t \in Sector
               PROVE  /\ Used(t)' \/ IsUsed(ram'[t].st) => ram'[t].st = flash'[t].hdr
                      /\ Fresh(t)' => flash'[t].hdr = "erased"
                      /\ t \in Range(active) => \/ Used(t)'
                                                \/ pc' = "gcerase" /\ t = gc'.src
                                                \/ pc' = "recerase" /\ t = Cur'
    BY DEF Agree
  <2>1. CASE t = s
    BY <1>2, <1>4, <2>1
  <2>2. CASE t # s
    BY <1>1, <1>3, <1>4, <2>2 DEF Agree
  <2> QED BY <2>1, <2>2
<1>7. ~ Fresh(Cur)'
  BY <1>2, <1>4 DEF Fresh
<1>8. ListOrder'
  BY <1>1, <1>2, <1>3, <1>4, <1>7 DEF ListOrder
<1>9. Reserve'
  <2>1. \A t \in Range(idle) : ~ Used(t)
    BY <1>1 DEF Reserve
  <2> QED BY <1>2, <1>4, <2>1 DEF Reserve
<1> QED BY <1>2, <1>3, <1>5, <1>6, <1>7, <1>8, <1>9

LEMMA GcCrashOrder ==
    ASSUME IInv, OrderInv, GcCrash
    PROVE  OrderInv'
<1>1. /\ StoreType /\ ListsOK /\ GcSet /\ Agree
      /\ pc = "gccopy" /\ pc' = "gcerase" /\ SetState(gc.src, "crash")
      /\ UNCHANGED <<active, idle, serial, gc>>
  BY DEF GcCrash, IInv, TypeOK, InGc, OrderInv
<1>2. gc.dst = Cur /\ flash[gc.dst].hdr = "using" /\ Cur \in Sector
  BY <1>1, CurActive DEF OrderInv, Collecting, InGc
<1>3. ~ Fresh(Cur)
  BY <1>1, <1>2 DEF Agree, Fresh
<1>4. PICK s : s = gc.src
  OBVIOUS
<1>5. s \in Range(active) /\ SetState(s, "crash") /\ gc'.src = s
  BY <1>1, <1>4 DEF GcSet
<1>6. FlashOrder' /\ Agree' /\ ListOrder' /\ Reserve' /\ flash'[s].hdr = "crash" /\ Cur' = Cur
  BY <1>1, <1>3, <1>5, CrashOrder
<1>7. Collecting'
  BY <1>1, <1>2, <1>4, <1>6 DEF Collecting, InGc
<1> QED BY <1>1, <1>6, <1>7 DEF OrderInv, NoneFree, Placing

LEMMA CheckGcWipeOrder ==
    ASSUME IInv, OrderInv, CheckGcWipe
    PROVE  OrderInv'
<1>1. /\ pc = "checkgc" /\ pc' = "recerase" /\ ~ Fresh(Cur) /\ SetState(Cur, "crash")
      /\ UNCHANGED <<active, idle, serial, gc>>
  BY DEF CheckGcWipe, Fresh
<1>2. PICK s : s = Cur
  OBVIOUS
<1>3. s \in Range(active)
  BY <1>1, <1>2, CurActive DEF IInv, TypeOK
<1>4. FlashOrder' /\ Agree' /\ ListOrder' /\ Reserve' /\ ~ Fresh(Cur)'
  BY <1>1, <1>2, <1>3, CrashOrder
<1> QED BY <1>1, <1>4 DEF OrderInv, NoneFree, Placing, Collecting, InGc

\* Erasing a sector that is not in use and is not the newest of those that are.
LEMMA EraseOrder ==
    ASSUME IInv, OrderInv, pc \in {"gcerase", "recerase"},
           NEW s \in Range(active), Range(active) # {s}, ~ Used(s), EraseToIdle(s)
    PROVE  /\ FlashOrder'
           /\ \A t \in Sector : Used(t)' => flash'[t].sn < serial'
           /\ \A m, n \in DOMAIN active' :
                 (m < n /\ Used(active[m]) /\ Used(active[n]) => Newer(active[n], active[m]))'
           /\ \A t \in Sector : /\ Used(t)' \/ IsUsed(ram'[t].st) => ram'[t].st = flash'[t].hdr
                                /\ Fresh(t)' => flash'[t].hdr = "erased"
           /\ idle' # <<>> /\ \A t \in Range(idle') : ~ Used(t)'
           /\ s \in Sector /\ ~ Used(s)'
           /\ \A t \in Sector \ {s} : flash'[t] = flash[t] /\ ram'[t] = ram[t]
           /\ Range(active') = Range(active) \ {s} /\ Range(active') \subseteq Sector
           /\ (s # Cur => Cur' = Cur) /\ Cur' \in Range(active')
<1>1. StoreType /\ ListsOK /\ FlashOrder /\ Agree /\ ListOrder /\ Reserve
  BY DEF IInv, TypeOK, OrderInv
<1>2. /\ StoreType' /\ ListsOK' /\ s \in Sector
      /\ \A t \in Sector \ {s} : flash'[t] = flash[t] /\ ram'[t] = ram[t]
      /\ Range(active') = Range(active) \ {s}
  BY <1>1, EraseKeeps
<1>3. flash'[s] = Blank /\ ram'[s].st = "uninit"
  BY <1>1, <1>2 DEF EraseToIdle, StoreType, Unloaded
<1>4. /\ flash'[s].hdr = "erased" /\ flash'[s].log = <<>> /\ ~ Used(s)'
      /\ \A t \in Sector : Used(t)' => Used(t)
      /\ \A t \in Sector \ {s} : (Used(t)' <=> Used(t)) /\ (Fresh(t)' <=> Fresh(t))
  BY <1>2, <1>3 DEF Used, Fresh, IsUsed, Blank
<1>5. FlashOrder'
  <2>1. \A t \in Sector : flash'[t].hdr = "erased" => flash'[t].log = <<>>
    BY <1>1, <1>2, <1>4 DEF FlashOrder
  <2>2. \A t, u \in Sector : Used(t)' /\ Used(u)' /\ t # u => Newer(t, u)' \/ Newer(u, t)'
    <3>1. \A t \in Sector : Used(t)' => t # s /\ Used(t) /\ flash'[t] = flash[t]
      BY <1>2, <1>4
    <3> QED BY <1>1, <3>1 DEF FlashOrder, Newer
  <2> QED BY <2>1, <2>2 DEF FlashOrder
<1>6. \A t \in Sector : Used(t)' => flash'[t].sn < serial'
  <2>1. serial' = serial
    BY DEF EraseToIdle
  <2>2. \A t \in Sector : Used(t)' => t # s /\ Used(t) /\ flash'[t] = flash[t]
    BY <1>2, <1>4
  <2> QED BY <1>1, <2>1, <2>2 DEF ListOrder
<1>7. active \in Seq(Sector) /\ active' = Unlink(active, s) /\ IsInjective(active)
  BY <1>1 DEF StoreType, ListsOK, EraseToIdle
<1>8. /\ \A p, q \in DOMAIN active' : p < q =>
            \E i, j \in DOMAIN active : i < j /\ active'[p] = active[i] /\ active'[q] = active[j]
      /\ s # Cur => Cur' = Cur
  <2>1. s # Last(active) => Last(Unlink(active, s)) = Last(active)
    BY <1>7, UnlinkRange
  <2>2. \A p, q \in DOMAIN Unlink(active, s) : p < q =>
            \E i, j \in DOMAIN active : /\ i < j /\ Unlink(active, s)[p] = active[i]
                                        /\ Unlink(active, s)[q] = active[j]
    BY <1>7, UnlinkRange
  <2> QED BY <1>7, <2>1, <2>2 DEF Cur
<1>9. ASSUME NEW m \in DOMAIN active', NEW n \in DOMAIN active', m < n,
             Used(active[m])', Used(active[n])'
      PROVE  Newer(active[n], active[m])'
  <2>1. PICK i \in DOMAIN active, j \in DOMAIN active :
             i < j /\ active'[m] = active[i] /\ active'[n] = active[j]
    BY <1>8, <1>9
  <2>2. PICK a, b : a = active[i] /\ b = active[j]
    OBVIOUS
  <2>3. a \in Sector /\ b \in Sector /\ a = active'[m] /\ b = active'[n]
    BY <1>7, <2>1, <2>2
  <2>4. Used(a)' /\ Used(b)'
    BY <1>9, <2>3
  <2>5. Newer(b, a)
    BY <1>1, <1>4, <2>1, <2>2, <2>3, <2>4 DEF ListOrder
  <2>6. Newer(b, a)'
    <3>1. a # s /\ b # s
      BY <1>4, <2>4
    <3> QED BY <1>2, <2>3, <2>5, <3>1 DEF Newer
  <2> QED BY <2>3, <2>6
<1>10. \A t \in Sector : /\ Used(t)' \/ IsUsed(ram'[t].st) => ram'[t].st = flash'[t].hdr
                         /\ Fresh(t)' => flash'[t].hdr = "erased"
  <2> TAKE t \in Sector
  <2>1. CASE t = s
    BY <1>3, <1>4, <2>1 DEF IsUsed
  <2>2. CASE t # s
    BY <1>1, <1>2, <1>4, <2>2 DEF Agree
  <2> QED BY <2>1, <2>2
<1>11. idle' # <<>> /\ \A t \in Range(idle') : ~ Used(t)'
  <2>1. idle \in Seq(Sector) /\ idle' = Append(idle, s) /\ IsInjective(idle) /\ s \notin Range(idle)
    BY <1>1 DEF StoreType, ListsOK, EraseToIdle
  <2>2. idle' # <<>> /\ Range(idle') = Range(idle) \union {s}
    BY <1>2, <2>1, AppendRange
  <2>3. \A t \in Range(idle) : t \in Sector /\ ~ Used(t)
    BY <1>1 DEF Reserve, ListsOK
  <2> QED BY <1>4, <2>2, <2>3
<1>12. Cur' \in Range(active') /\ Range(active') \subseteq Sector
  <2>1. active' \in Seq(Sector) /\ active' # <<>> /\ Cur' = Last(active')
    BY <1>2 DEF StoreType, ListsOK, Cur
  <2> QED BY <2>1, InRange
<1> QED BY <1>2, <1>4, <1>5, <1>6, <1>8, <1>9, <1>10, <1>11, <1>12

LEMMA GcEraseOrder ==
    ASSUME IInv, OrderInv, GcErase
    PROVE  OrderInv'
<1>1. /\ StoreType /\ ListsOK /\ GcSet /\ Agree /\ ListOrder
      /\ pc = "gcerase" /\ EraseToIdle(gc.src)
      /\ pc' \in {"finish", "write"}
  BY DEF GcErase, IInv, TypeOK, InGc, OrderInv
<1>2. PICK s : s = gc.src
  OBVIOUS
<1>3. s \in Range(active) /\ Range(active) # {s} /\ ~ Used(s) /\ gc.dst = Cur /\ s # Cur
  BY <1>1, <1>2 DEF OrderInv, Collecting, InGc, GcSet, Used, IsUsed
<1>4. EraseToIdle(s)
  BY <1>1, <1>2
<1>5. /\ FlashOrder'
      /\ \A t \in Sector : Used(t)' => flash'[t].sn < serial'
      /\ \A m, n \in DOMAIN active' :
            (m < n /\ Used(active[m]) /\ Used(active[n]) => Newer(active[n], active[m]))'
      /\ \A t \in Sector : /\ Used(t)' \/ IsUsed(ram'[t].st) => ram'[t].st = flash'[t].hdr
                           /\ Fresh(t)' => flash'[t].hdr = "erased"
      /\ idle' # <<>> /\ \A t \in Range(idle') : ~ Used(t)'
      /\ s \in Sector /\ ~ Used(s)'
      /\ \A t \in Sector \ {s} : flash'[t] = flash[t] /\ ram'[t] = ram[t]
      /\ Range(active') = Range(active) \ {s} /\ Range(active') \subseteq Sector
      /\ Cur' = Cur /\ Cur' \in Range(active')
  BY <1>1, <1>3, <1>4, EraseOrder
<1>6. \A t \in Range(active') : Used(t)' \/ (Fresh(t)' /\ t = Cur')
  <2> TAKE t \in Range(active')
  <2>1. t \in Sector /\ t # s /\ t \in Range(active)
    BY <1>5
  <2>2. Used(t) \/ (Fresh(t) /\ t = Cur)
    BY <1>1, <1>2, <2>1 DEF Agree
  <2> QED BY <1>5, <2>1, <2>2 DEF Used, Fresh
<1>7. Agree'
  BY <1>5, <1>6 DEF Agree
<1>8. ListOrder'
  <2>1. PICK c : c = Cur
    OBVIOUS
  <2>2. c \in Sector /\ c # s /\ Cur' = c
    BY <1>3, <1>5, <2>1
  <2>3. Fresh(c)' => Fresh(c)
    BY <1>5, <2>2 DEF Fresh
  <2>4. ASSUME Fresh(Cur)'
        PROVE  ram'[Cur'].sn < serial' /\ \A t \in Sector : Used(t)' => flash'[t].sn < ram'[Cur'].sn
    <3>1. Fresh(Cur)
      BY <2>1, <2>2, <2>3, <2>4 DEF Fresh
    <3>2. ram[c].sn < serial /\ \A t \in Sector : Used(t) => flash[t].sn < ram[c].sn
      BY <1>1, <2>1, <3>1 DEF ListOrder
    <3>3. serial' = serial /\ ram'[c] = ram[c]
      BY <1>4, <1>5, <2>2 DEF EraseToIdle
    <3>4. \A t \in Sector : Used(t)' => Used(t) /\ flash'[t] = flash[t]
      BY <1>5 DEF Used
    <3> QED BY <2>2, <3>2, <3>3, <3>4
  <2> QED BY <1>5, <2>4 DEF ListOrder
<1>9. Reserve' /\ NoneFree' /\ Placing' /\ Collecting'
  BY <1>1, <1>5 DEF Reserve, NoneFree, Placing, Collecting, InGc
<1> QED BY <1>5, <1>7, <1>8, <1>9 DEF OrderInv

LEMMA CheckGcEraseOrder ==
    ASSUME IInv, OrderInv, CheckGcErase
    PROVE  OrderInv'
<1>1. /\ StoreType /\ ListsOK /\ Agree /\ ListOrder /\ Recovering
      /\ pc = "recerase" /\ pc' = "recgc" /\ EraseToIdle(Cur)
  BY DEF CheckGcErase, IInv, TypeOK, OrderInv
<1>2. PICK s : s = Cur
  OBVIOUS
<1>3. s \in Range(active) /\ Range(active) # {s} /\ ~ Used(s) /\ s \in Sector
  <2>1. s \in Range(active) /\ s \in Sector
    BY <1>1, <1>2, CurActive
  <2>2. ram[s].st = "crash" /\ \E d \in Range(active) : ram[d].st = "deleting"
    BY <1>1, <1>2 DEF Recovering
  <2>3. ~ Used(s)
    BY <1>1, <2>1, <2>2 DEF Agree, Used, IsUsed
  <2> QED BY <2>1, <2>2, <2>3
<1>4. EraseToIdle(s)
  BY <1>1, <1>2
<1>5. /\ FlashOrder'
      /\ \A t \in Sector : Used(t)' => flash'[t].sn < serial'
      /\ \A m, n \in DOMAIN active' :
            (m < n /\ Used(active[m]) /\ Used(active[n]) => Newer(active[n], active[m]))'
      /\ \A t \in Sector : /\ Used(t)' \/ IsUsed(ram'[t].st) => ram'[t].st = flash'[t].hdr
                           /\ Fresh(t)' => flash'[t].hdr = "erased"
      /\ idle' # <<>> /\ \A t \in Range(idle') : ~ Used(t)'
      /\ \A t \in Sector \ {s} : flash'[t] = flash[t] /\ ram'[t] = ram[t]
      /\ Range(active') = Range(active) \ {s} /\ Range(active') \subseteq Sector
      /\ Cur' \in Range(active')
  BY <1>1, <1>3, <1>4, EraseOrder
<1>6. \A t \in Range(active') : Used(t)'
  <2> TAKE t \in Range(active')
  <2>1. t \in Sector /\ t # s /\ t \in Range(active)
    BY <1>5
  <2>2. Used(t)
    BY <1>1, <1>2, <2>1 DEF Agree
  <2> QED BY <1>5, <2>1, <2>2 DEF Used
<1>7. Agree'
  BY <1>5, <1>6 DEF Agree
<1>8. ~ Fresh(Cur)'
  <2>1. PICK c : c = Cur'
    OBVIOUS
  <2>2. Used(c)' /\ c \in Sector
    BY <1>5, <1>6, <2>1
  <2>3. ram'[c].st = flash'[c].hdr /\ IsUsed(flash'[c].hdr)
    BY <1>5, <2>2 DEF Used
  <2> QED BY <2>1, <2>3 DEF Fresh, IsUsed
<1>9. ListOrder'
  BY <1>5, <1>8 DEF ListOrder
<1>10. Reserve' /\ NoneFree' /\ Placing' /\ Collecting'
  BY <1>1, <1>5, <1>8 DEF Reserve, NoneFree, Placing, Collecting, InGc
<1> QED BY <1>5, <1>7, <1>9, <1>10 DEF OrderInv

\* A start without a free sector gives up the last one, which is empty.
LEMMA LoadFinishOrder ==
    ASSUME IInv, OrderInv, LoadFinish
    PROVE  OrderInv'
<1>1. /\ StoreType /\ ListsOK /\ Headers
      /\ FlashOrder /\ NoneFree /\ Agree /\ ListOrder /\ Reserve /\ Placing
      /\ pc = "finish" /\ pc' = "ready"
      /\ IF idle = <<>> THEN active' = Front(active) /\ idle' = <<Cur>>
                        ELSE UNCHANGED <<active, idle>>
      /\ UNCHANGED <<flash, ram, serial, gc>>
  BY DEF LoadFinish, IInv, TypeOK, OrderInv
<1>2. NoneFree' /\ Placing' /\ Collecting'
  BY <1>1 DEF NoneFree, Placing, Collecting, InGc
<1>3. CASE idle # <<>>
  <2>1. UNCHANGED <<active, idle>>
    BY <1>1, <1>3
  <2>2. FlashOrder' /\ Agree' /\ ListOrder' /\ ReserveHead'
    BY <1>1, <2>1, FrameKeeps
  <2>3. Reserve'
    <3>1. \A t \in Range(idle) : ~ Used(t)
      BY <1>1 DEF Reserve
    <3> QED BY <1>1, <1>3, <2>1, <3>1 DEF Reserve, Used
  <2> QED BY <1>2, <2>2, <2>3 DEF OrderInv
<1>4. CASE idle = <<>>
  <2>1. PICK c : c = Cur
    OBVIOUS
  <2>2. /\ active' = Front(active) /\ idle' = <<c>>
        /\ c \in Sector /\ Range(active) = Sector /\ active \in Seq(Sector) /\ active # <<>>
    BY <1>1, <1>4, <2>1, CurActive, InRange DEF ListsOK, StoreType
  <2>3. /\ \A t \in Sector : Used(t) /\ ~ IsDeleting(t)
        /\ \A t \in Sector : ram[t].st = flash[t].hdr /\ flash[t].hdr = "using"
    <3>1. \A t \in Sector : Used(t) /\ ~ IsDeleting(t)
      BY <1>1, <1>4 DEF Placing, Headers
    <3> QED BY <1>1, <3>1 DEF Agree, Used, IsUsed, IsDeleting
  <2>4. \A t \in Sector \ {c} : Newer(c, t)
    BY <1>1, <2>1, <2>2, <2>3, CurIsNewest
  <2>5. flash[c].log = <<>>
    <3>1. PICK s \in Sector : flash[s].log = <<>> /\ \A t \in Sector \ {s} : Newer(s, t)
      BY <1>1, <2>3 DEF NoneFree
    <3>2. s = c
      <4>1. flash[s].sn \in Nat /\ flash[c].sn \in Nat
        BY <1>1, <2>2, SectorTypes
      <4> QED BY <2>2, <2>4, <3>1, <4>1 DEF Newer
    <3> QED BY <3>1, <3>2
  <2>6. /\ active' \in Seq(Sector) /\ Range(active') = Sector \ {c}
        /\ \A n \in DOMAIN active' : n \in DOMAIN active /\ active'[n] = active[n]
    BY <1>1, <2>1, <2>2, FrontRange DEF ListsOK, Cur
  <2>7. FlashOrder'
    BY <1>1 DEF FlashOrder, Used, Newer
  <2>8. Agree'
    BY <1>1, <2>3, <2>6 DEF Agree, Used, Fresh
  <2>9. ~ Fresh(Cur)'
    <3>1. Range(active') # {}
      <4>1. 0 \in Sector /\ 1 \in Sector
        BY SecNumAssumption DEF Sector
      <4> QED BY <2>6, <4>1
    <3>2. Cur' \in Range(active')
      BY <2>6, <3>1, InRange DEF Cur
    <3> QED BY <1>1, <2>3, <2>6, <3>2 DEF Fresh
  <2>10. ListOrder'
    BY <1>1, <2>6, <2>9 DEF ListOrder, Used, Newer
  <2>11. Reserve'
    <3>1. idle' # <<>> /\ Head(idle') = c /\ Range(idle') = {c}
      <4>1. <<c>> # <<>> /\ Head(<<c>>) = c /\ Range(<<c>>) = {c}
        BY DEF Range
      <4> QED BY <2>2, <4>1
    <3>2. Reserve' <=>
            /\ pc' \in {"ready", "write", "data", "eraseold", "recgc"} => idle' # <<>>
            /\ \A s \in Range(idle') : Used(s)' =>
                  /\ pc' \in {"ready", "write", "data", "eraseold"}
                  /\ s = Head(idle') /\ flash'[s].hdr = "using" /\ flash'[s].log = <<>>
                  /\ \A t \in Range(active') : Used(t)' /\ Newer(s, t)'
      BY DEF Reserve
    <3> QED BY <1>1, <2>2, <2>3, <2>4, <2>5, <2>6, <3>1, <3>2 DEF Used, Newer
  <2> QED BY <1>2, <2>7, <2>8, <2>10, <2>11 DEF OrderInv
<1> QED BY <1>3, <1>4

-----------------------------------------------------------------------------
(* Starting *)

LEMMA LoadOrder ==
    ASSUME IInv, OrderInv, Load
    PROVE  OrderInv'
<1> DEFINE st(s) == LoadStatus(flash[s])
           used  == {s \in Sector : IsUsed(st(s))}
           fl    == [s \in Sector |-> LoadFlash(flash[s])]
           rm    == [s \in Sector |-> LoadRam(flash[s])]
           FlashSn == [s \in Sector |-> flash[s].sn]
           NoSn == [s \in Sector |-> 0]
<1>1. /\ StoreType /\ FlashOrder /\ NoneFree
      /\ pc = "off" /\ pc' = "checkwrite"
  BY DEF Load, IInv, TypeOK, OrderInv
<1>2. PICK sorted \in InOrder(used, FlashSn), rest \in InOrder(Sector \ used, NoSn) :
         IF used # {}
         THEN /\ flash' = fl /\ ram' = rm
              /\ active' = sorted /\ idle' = rest
              /\ serial' = flash[Last(sorted)].sn + 1
         ELSE LET s == Head(rest)
              IN  /\ flash' = IF st(s) = "crash" THEN [fl EXCEPT ![s] = Blank] ELSE fl
                  /\ ram' = [rm EXCEPT ![s] = [Unloaded EXCEPT !.sn = 1]]
                  /\ active' = <<s>> /\ idle' = Tail(rest)
                  /\ serial' = 2
  BY DEF Load
<1>3. FlashSn \in [Sector -> Nat] /\ NoSn \in [Sector -> Nat]
  BY <1>1 DEF StoreType, FlashSector
<1>4. /\ sorted \in Seq(Sector) /\ IsInjective(sorted) /\ Range(sorted) = used
      /\ rest \in Seq(Sector) /\ IsInjective(rest) /\ Range(rest) = Sector \ used
  <2> HIDE DEF FlashSn, NoSn, used
  <2>1. used \subseteq Sector /\ Sector \ used \subseteq Sector
    BY DEF used
  <2> QED BY <1>3, <2>1, InOrderLists
<1>5. ASSUME NEW s \in Sector
      PROVE  /\ fl[s].hdr = flash[s].hdr /\ fl[s].sn = flash[s].sn /\ fl[s] \in FlashSector
             /\ flash[s].log = <<>> => fl[s].log = <<>>
             /\ rm[s].st = st(s)
             /\ Used(s) <=> IsUsed(st(s))
             /\ Used(s) => st(s) = flash[s].hdr
             /\ st(s) = "uninit" => flash[s].hdr = "erased"
             /\ IsUsed(st(s)) \/ st(s) \in {"uninit", "crash"}
  <2>1. flash[s] \in FlashSector
    BY <1>1, SectorTypes
  <2>2. LoadStatus(flash[s]) \in RamStatus /\ LoadRam(flash[s]).st = LoadStatus(flash[s])
    BY <2>1, LoadStatusType, LoadRamType
  <2>3. /\ fl[s].hdr = flash[s].hdr /\ fl[s].sn = flash[s].sn /\ fl[s] \in FlashSector
    BY <2>1, LoadFlashType
  <2>4. flash[s].log = <<>> => fl[s].log = <<>>
    BY <2>1 DEF LoadFlash, DropTorn, FlashSector
  <2>5. /\ Used(s) <=> IsUsed(st(s))
        /\ Used(s) => st(s) = flash[s].hdr
        /\ st(s) = "uninit" => flash[s].hdr = "erased"
    BY <2>1 DEF LoadStatus, Used, IsUsed, FlashSector, HeaderStatus
  <2> QED BY <2>2, <2>3, <2>4, <2>5 DEF RamStatus, IsUsed
<1>6. \A s \in Sector : s \in used <=> Used(s)
  BY <1>5
<1>7. \A s \in Sector : flash[s].sn \in Nat
  BY <1>1, SectorTypes
<1>8. Collecting'
  BY <1>1 DEF Collecting, InGc
<1>9. CASE used # {}
  <2>1. /\ flash' = fl /\ ram' = rm /\ active' = sorted /\ idle' = rest
        /\ serial' = flash[Last(sorted)].sn + 1
    BY <1>2, <1>9
  <2>2. \A m, n \in DOMAIN sorted : m < n =>
            \/ flash[sorted[m]].sn < flash[sorted[n]].sn
            \/ flash[sorted[m]].sn = flash[sorted[n]].sn
    BY <1>4 DEF InOrder
  <2>3. /\ \A n \in DOMAIN sorted : sorted[n] \in Sector /\ sorted[n] \in used /\ n \in Nat
        /\ sorted # <<>> /\ Cur' = Last(sorted) /\ Last(sorted) \in used
        /\ Last(sorted) = sorted[Len(sorted)] /\ Len(sorted) \in DOMAIN sorted
        /\ \A n \in DOMAIN sorted : n <= Len(sorted)
    <3>1. sorted # <<>>
      BY <1>4, <1>9, InRange
    <3>2. /\ Cur' = Last(sorted) /\ Last(sorted) \in Range(sorted)
          /\ \A n \in DOMAIN sorted : sorted[n] \in Range(sorted) /\ sorted[n] \in Sector
      BY <1>4, <2>1, <3>1, InRange DEF Cur
    <3>3. /\ Last(sorted) = sorted[Len(sorted)] /\ Len(sorted) \in DOMAIN sorted
          /\ \A n \in DOMAIN sorted : n \in Nat /\ n <= Len(sorted)
      BY <1>4, <3>1 DEF Last
    <3> HIDE DEF used
    <3> QED BY <1>4, <3>1, <3>2, <3>3
  <2> HIDE DEF used, fl, rm, st
  <2>4. /\ \A s \in Sector : (Used(s)' <=> Used(s)) /\ (IsDeleting(s)' <=> IsDeleting(s))
        /\ \A s, t \in Sector : Newer(s, t)' <=> Newer(s, t)
        /\ \A s \in Sector : flash[s].log = <<>> => flash'[s].log = <<>>
        /\ \A s \in Sector : flash'[s].hdr = flash[s].hdr /\ flash'[s].sn = flash[s].sn
    BY <1>5, <2>1 DEF Used, IsDeleting, Newer
  <2>5. FlashOrder'
    BY <1>1, <2>4 DEF FlashOrder
  <2>6. NoneFree'
    BY <1>1, <2>4 DEF NoneFree
  <2>7. /\ \A s \in Sector : Used(s)' \/ IsUsed(ram'[s].st) => ram'[s].st = flash'[s].hdr
        /\ \A s \in Sector : Fresh(s)' => flash'[s].hdr = "erased"
        /\ \A s \in Range(active') : s \in Sector /\ Used(s)'
    <3>1. \A s \in Range(active') : s \in Sector /\ Used(s)'
      <4>1. used \subseteq Sector
        BY DEF used
      <4> QED BY <1>4, <1>6, <2>1, <2>4, <4>1
    <3>2. \A s \in Sector : ram'[s].st = st(s)
      BY <1>5, <2>1
    <3> QED BY <1>5, <2>4, <3>1, <3>2 DEF Fresh
  <2>8. Agree'
    BY <2>7 DEF Agree
  <2>9. ~ Fresh(Cur)'
    <3>1. PICK c : c = Cur'
      OBVIOUS
    <3>2. c \in Sector /\ Used(c)'
      BY <2>1, <2>3, <2>7, <3>1, <1>4
    <3>3. ram'[c].st = flash'[c].hdr /\ IsUsed(flash'[c].hdr)
      BY <2>7, <3>2 DEF Used
    <3> QED BY <3>1, <3>3 DEF Fresh, IsUsed
  <2>10. ListOrder'
    <3>1. ASSUME NEW s \in Sector, Used(s)' PROVE flash'[s].sn < serial'
      <4>1. s \in Range(sorted)
        BY <1>4, <1>6, <2>4, <3>1
      <4>2. PICK n \in DOMAIN sorted : sorted[n] = s
        BY <4>1 DEF Range
      <4>3. n = Len(sorted) \/ n < Len(sorted)
        BY <1>4, <2>3
      <4>4. flash[s].sn <= flash[Last(sorted)].sn
        BY <1>7, <2>2, <2>3, <4>2, <4>3
      <4> QED BY <1>7, <2>1, <2>3, <2>4, <4>4
    <3>2. ASSUME NEW m \in DOMAIN active', NEW n \in DOMAIN active', m < n
          PROVE  Newer(active[n], active[m])'
      <4>1. PICK a, b : a = sorted[m] /\ b = sorted[n]
        OBVIOUS
      <4>2. a \in Sector /\ b \in Sector /\ Used(a) /\ Used(b) /\ a # b
        BY <1>4, <1>6, <2>1, <2>3, <3>2, <4>1 DEF IsInjective
      <4>3. flash[a].sn # flash[b].sn
        BY <1>1, <1>7, <4>2 DEF FlashOrder, Newer
      <4>4. Newer(b, a)
        BY <2>1, <2>2, <3>2, <4>1, <4>3 DEF Newer
      <4> QED BY <2>1, <2>4, <4>1, <4>2, <4>4 DEF Newer
    <3> QED BY <2>9, <3>1, <3>2 DEF ListOrder
  <2>11. Reserve'
    <3>1. \A s \in Range(idle') : ~ Used(s)'
      BY <1>4, <1>6, <2>1, <2>4
    <3> QED BY <1>1, <3>1 DEF Reserve
  <2>12. Placing'
    <3>1. ASSUME idle' = <<>>, NEW s \in Sector PROVE Used(s)'
      <4>1. Range(rest) = {}
        BY <1>4, <2>1, <3>1, InRange
      <4> QED BY <1>4, <1>6, <2>4, <3>1, <4>1
    <3> QED BY <1>1, <2>9, <3>1 DEF Placing
  <2> QED BY <1>8, <2>5, <2>6, <2>8, <2>10, <2>11, <2>12 DEF OrderInv
<1>10. CASE used = {}
  <2>1. PICK s : s = Head(rest)
    OBVIOUS
  <2>2. /\ flash' = IF st(s) = "crash" THEN [fl EXCEPT ![s] = Blank] ELSE fl
        /\ ram' = [rm EXCEPT ![s] = [Unloaded EXCEPT !.sn = 1]]
        /\ active' = <<s>> /\ idle' = Tail(rest) /\ serial' = 2
    BY <1>2, <1>10, <2>1
  <2>3. /\ s \in Sector /\ Range(idle') = Sector \ {s} /\ idle' \in Seq(Sector)
        /\ Range(active') = {s} /\ Cur' = s
        /\ DOMAIN active' = {1}
    <3>1. rest # <<>>
      <4>1. 0 \in Sector
        BY SecNumAssumption DEF Sector
      <4>2. Range(rest) # {}
        BY <1>4, <1>10, <4>1
      <4> QED BY <1>4, <4>2, InRange
    <3>2. /\ s \in Sector /\ Tail(rest) \in Seq(Sector)
          /\ Range(Tail(rest)) = Range(rest) \ {s}
      BY <1>4, <2>1, <3>1, TailRange
    <3>3. Range(<<s>>) = {s} /\ Last(<<s>>) = s /\ DOMAIN <<s>> = {1}
      BY DEF Range, Last
    <3> QED BY <1>4, <1>10, <2>2, <3>2, <3>3 DEF Cur
  <2>4. \A t \in Sector : ~ Used(t) /\ st(t) \in {"uninit", "crash"}
    BY <1>5, <1>6, <1>10
  <2> HIDE DEF used, fl, rm, st
  <2>5. /\ \A t \in Sector \ {s} : flash'[t] = fl[t] /\ ram'[t] = rm[t]
        /\ ram'[s].st = "uninit" /\ ram'[s].sn = 1
        /\ IF st(s) = "crash" THEN flash'[s] = Blank ELSE flash'[s] = fl[s]
    BY <2>2, <2>3 DEF Unloaded, fl, rm
  <2>6. /\ \A t \in Sector : ~ Used(t)'
        /\ flash'[s].hdr = "erased"
        /\ \A t \in Sector : flash'[t].hdr = "erased" => flash'[t].log = <<>>
    <3>1. flash'[s].hdr = "erased" /\ flash'[s].log = <<>>
      <4>1. CASE st(s) = "crash"
        BY <2>5, <4>1 DEF Blank
      <4>2. CASE st(s) # "crash"
        BY <1>1, <1>5, <2>3, <2>4, <2>5, <4>2 DEF FlashOrder
      <4> QED BY <4>1, <4>2
    <3>2. \A t \in Sector \ {s} : ~ Used(t)' /\ (flash'[t].hdr = "erased" => flash'[t].log = <<>>)
      BY <1>1, <1>5, <2>4, <2>5 DEF Used, FlashOrder
    <3> QED BY <3>1, <3>2 DEF Used, IsUsed
  <2>7. FlashOrder'
    BY <2>6 DEF FlashOrder
  <2>8. NoneFree'
    BY <2>3, <2>6 DEF NoneFree
  <2>9. Agree'
    <3>1. \A t \in Sector : ~ IsUsed(ram'[t].st) /\ (Fresh(t)' => flash'[t].hdr = "erased")
      <4> TAKE t \in Sector
      <4>1. CASE t = s
        BY <2>5, <2>6, <4>1 DEF IsUsed
      <4>2. CASE t # s
        BY <1>5, <2>4, <2>5, <4>2 DEF IsUsed, Fresh
      <4> QED BY <4>1, <4>2
    <3>2. Fresh(s)'
      BY <2>5 DEF Fresh
    <3> QED BY <2>3, <2>6, <3>1, <3>2 DEF Agree
  <2>10. ListOrder'
    BY <2>2, <2>3, <2>5, <2>6 DEF ListOrder
  <2>11. Reserve'
    BY <1>1, <2>3, <2>6 DEF Reserve
  <2>12. Placing'
    <3>1. idle' # <<>>
      <4>1. 0 \in Sector /\ 1 \in Sector
        BY SecNumAssumption DEF Sector
      <4>2. Range(idle') # {}
        BY <2>3, <4>1
      <4> QED BY <2>3, <4>2, InRange
    <3>2. \A t \in Sector : ~ IsDeleting(t)'
      BY <2>6 DEF IsDeleting, Used, IsUsed
    <3> QED BY <1>1, <3>1, <3>2 DEF Placing
  <2> QED BY <1>8, <2>7, <2>8, <2>9, <2>10, <2>11, <2>12 DEF OrderInv
<1> QED BY <1>9, <1>10

-----------------------------------------------------------------------------
(* Losing power *)

\* Whatever was going on, a store without a free sector is one a start can work with.
LEMMA AlwaysRestarts ==
    ASSUME IInv, OrderInv, pc # "off", \A s \in Sector : Used(s)
    PROVE  /\ \A d \in Sector : IsDeleting(d) => \E s \in Sector : Newer(s, d)
           /\ (\A d \in Sector : ~ IsDeleting(d)) =>
                 \E s \in Sector : /\ flash[s].log = <<>>
                                   /\ \A t \in Sector \ {s} : Newer(s, t)
                                   /\ pc = "write" => s # Cur
<1>1. /\ StoreType /\ ControlType /\ ListsOK /\ Headers /\ Recovering
      /\ NoneFree /\ Agree /\ ListOrder /\ Reserve /\ Collecting
      /\ InGc => GcSet
  BY DEF IInv, TypeOK, OrderInv
<1>2. /\ Cur \in Sector /\ Cur \in Range(active)
      /\ \A t \in Sector : t \in Range(idle) <=> t \notin Range(active)
      /\ Range(idle) \subseteq Sector
  BY <1>1, CurActive, InOneList DEF ListsOK
<1>3. CASE pc \in {"checkwrite", "checkgc", "finish"}
  <2>1. pc # "write" /\ pc \in {"off", "checkwrite", "checkgc", "finish"}
    BY <1>3
  <2> QED BY <1>1, <2>1 DEF NoneFree
<1>4. CASE pc \in {"ready", "write", "data", "eraseold"}
  <2>1. PICK h : h = Head(idle)
    OBVIOUS
  <2>2. h \in Range(idle) /\ h \in Sector
    <3>1. idle # <<>>
      BY <1>1, <1>4 DEF Reserve
    <3> QED BY <1>1, <2>1, <3>1, TailRange DEF StoreType, ListsOK
  <2>3. \A t \in Range(idle) : t = h
    BY <1>1, <1>2, <2>1 DEF Reserve
  <2>4. /\ flash[h].hdr = "using" /\ flash[h].log = <<>>
        /\ \A t \in Range(active) : Newer(h, t)
    BY <1>1, <2>2 DEF Reserve
  <2>5. \A t \in Sector \ {h} : Newer(h, t)
    BY <1>2, <2>3, <2>4
  <2>6. h # Cur
    BY <1>2, <2>2
  <2>7. \A d \in Sector : IsDeleting(d) => d # h
    BY <2>4 DEF IsDeleting
  <2> QED BY <2>2, <2>4, <2>5, <2>6, <2>7
<1>5. CASE pc = "gcmark"
  <2>1. \A t \in Sector : t \in Range(active)
    BY <1>1, <1>2, <1>5 DEF Reserve
  <2>2. flash[Cur].log = <<>>
    BY <1>1, <1>5 DEF Collecting, InGc
  <2>3. \A t \in Sector \ {Cur} : Newer(Cur, t)
    BY <1>1, <1>2, <2>1, CurIsNewest
  <2>4. \A d \in Sector : ~ IsDeleting(d)
    BY <1>1, <1>5 DEF Headers
  <2> QED BY <1>2, <1>5, <2>2, <2>3, <2>4
<1>6. CASE pc \in {"gccopy", "gcdata"}
  <2>1. /\ gc.src \in Sector /\ gc.src \in Range(active) /\ gc.src # Cur /\ IsDeleting(gc.src)
        /\ \A d \in Sector : IsDeleting(d) => d = gc.src
    BY <1>1, <1>6 DEF Collecting, InGc, GcSet, Headers, ControlType
  <2>2. Newer(Cur, gc.src)
    BY <1>1, <1>2, <2>1, CurIsNewest
  <2> QED BY <1>2, <2>1, <2>2
<1>7. CASE pc \in {"gcinit", "gcerase", "recerase", "recgc"}
  <2> SUFFICES \E s \in Sector : ~ Used(s)
    OBVIOUS
  <2>1. CASE pc = "gcinit"
    <3>1. Fresh(Cur)
      BY <1>1, <2>1 DEF Collecting, InGc
    <3> QED BY <1>1, <1>2, <3>1 DEF Agree, Used, IsUsed
  <2>2. CASE pc = "gcerase"
    BY <1>1, <2>2 DEF Collecting, ControlType, Used, IsUsed
  <2>3. CASE pc = "recerase"
    <3>1. ram[Cur].st = "crash"
      BY <1>1, <2>3 DEF Recovering
    <3> QED BY <1>1, <1>2, <3>1 DEF Agree, Used, IsUsed
  <2>4. CASE pc = "recgc"
    <3>1. idle # <<>>
      BY <1>1, <2>4 DEF Reserve
    <3>2. Head(idle) \in Range(idle) /\ Head(idle) \in Sector
      BY <1>1, <3>1, TailRange DEF StoreType, ListsOK
    <3> QED BY <1>1, <2>4, <3>2 DEF Reserve
  <2> QED BY <1>7, <2>1, <2>2, <2>3, <2>4
<1> QED BY <1>1, <1>3, <1>4, <1>5, <1>6, <1>7 DEF ControlType

\* What a power failure leaves of the flash: a header that is no header any more, or one
\* item more in a sector in use.
LEMMA TornFlash ==
    ASSUME IInv, OrderInv, PowerOff
    PROVE  /\ \A t \in Sector : flash'[t].sn = flash[t].sn
           /\ \/ \A t \in Sector : flash'[t].hdr = flash[t].hdr
              \/ \E s \in Sector : /\ flash'[s].hdr = "crash"
                                   /\ \A t \in Sector \ {s} : flash'[t].hdr = flash[t].hdr
           /\ \A t \in Sector : \/ flash'[t].log = flash[t].log
                                \/ /\ t = Cur /\ Used(t)
                                   /\ pc = "write" \/ (pc = "gccopy" /\ IsDeleting(gc.src))
<1>1. /\ StoreType /\ ControlType /\ ListsOK /\ Agree /\ Collecting
      /\ pc # "off" /\ flash' \in Torn /\ (Calling => OpSet) /\ (InGc => GcSet)
      /\ flash \in [Sector -> FlashSector]
  BY DEF PowerOff, IInv, TypeOK, OrderInv, StoreType
<1>2. Cur \in Sector /\ Cur \in Range(active)
  BY <1>1, CurActive
<1>3. CASE flash' = flash
  BY <1>3
<1>4. ASSUME NEW s \in Sector, flash' = [flash EXCEPT ![s].hdr = "crash"]
      PROVE  /\ \A t \in Sector : flash'[t].sn = flash[t].sn /\ flash'[t].log = flash[t].log
             /\ flash'[s].hdr = "crash" /\ \A t \in Sector \ {s} : flash'[t].hdr = flash[t].hdr
  BY <1>1, <1>4 DEF FlashSector
<1>5. ASSUME NEW it \in Item, NEW f \in HeaderTorn(flash[Cur], it), flash' = [flash EXCEPT ![Cur] = f]
      PROVE  /\ \A t \in Sector : flash'[t].sn = flash[t].sn /\ flash'[t].hdr = flash[t].hdr
             /\ \A t \in Sector \ {Cur} : flash'[t].log = flash[t].log
  <2>1. f.hdr = flash[Cur].hdr /\ f.sn = flash[Cur].sn
    BY <1>1, <1>2, HeaderTornType
  <2> QED BY <1>1, <1>2, <1>5, <2>1
<1>6. CASE pc = "write" /\ ram[Cur].st = "uninit"
  <2>1. flash' \in {flash, [flash EXCEPT ![Cur].hdr = "crash"]}
    BY <1>1, <1>6 DEF Torn, CanWrite
  <2> QED BY <1>2, <1>3, <1>4, <2>1
<1>7. CASE CanWrite
  <2>1. NewItem(ram[Cur].next, op.k, op.v) \in Item
    <3>1. ram[Cur].next \in Nat
      BY <1>1, <1>2 DEF StoreType, RamSector
    <3>2. op.k \in Keys /\ op.v \in Values
      BY <1>1, <1>7 DEF CanWrite, Calling, OpSet
    <3> QED BY <3>1, <3>2, NewItemType
  <2>2. PICK f \in HeaderTorn(flash[Cur], NewItem(ram[Cur].next, op.k, op.v)) :
           flash' = [flash EXCEPT ![Cur] = f]
    BY <1>1, <1>7 DEF Torn, CanWrite
  <2>3. pc = "write" /\ Used(Cur)
    BY <1>7, WritesInUse DEF CanWrite, Fresh
  <2> QED BY <1>5, <2>1, <2>2, <2>3
<1>8. CASE pc = "gcinit"
  <2>1. gc.dst = Cur
    BY <1>1, <1>8 DEF Collecting, InGc
  <2>2. flash' \in {flash, [flash EXCEPT ![Cur].hdr = "crash"]}
    BY <1>1, <1>8, <2>1 DEF Torn, CanWrite
  <2> QED BY <1>2, <1>3, <1>4, <2>2
<1>9. CASE pc = "gccopy" /\ ToCopy # {}
  <2>1. gc.dst = Cur /\ Used(Cur) /\ IsDeleting(gc.src) /\ Copied \in Item
    BY <1>1, <1>9, CopiedType DEF Collecting, InGc, Used, IsUsed
  <2>2. PICK f \in HeaderTorn(flash[Cur], Copied) : flash' = [flash EXCEPT ![Cur] = f]
    BY <1>1, <1>9, <2>1 DEF Torn, CanWrite
  <2> QED BY <1>5, <1>9, <2>1, <2>2
<1>10. CASE ~ (pc = "write" /\ ram[Cur].st = "uninit") /\ ~ CanWrite /\ pc # "gcinit"
            /\ ~ (pc = "gccopy" /\ ToCopy # {})
  <2>1. flash' = flash
    BY <1>1, <1>10 DEF Torn
  <2> QED BY <2>1
<1> QED BY <1>6, <1>7, <1>8, <1>9, <1>10

LEMMA PowerOffOrder ==
    ASSUME IInv, OrderInv, PowerOff
    PROVE  OrderInv'
<1>1. FlashOrder /\ Collecting /\ pc # "off" /\ pc' = "off" /\ ControlType
  BY DEF OrderInv, PowerOff, IInv, TypeOK
<1>2. /\ \A t \in Sector : flash'[t].sn = flash[t].sn
      /\ \/ \A t \in Sector : flash'[t].hdr = flash[t].hdr
         \/ \E s \in Sector : /\ flash'[s].hdr = "crash"
                              /\ \A t \in Sector \ {s} : flash'[t].hdr = flash[t].hdr
      /\ \A t \in Sector : \/ flash'[t].log = flash[t].log
                           \/ /\ t = Cur /\ Used(t)
                              /\ pc = "write" \/ (pc = "gccopy" /\ IsDeleting(gc.src))
  BY TornFlash
<1>3. \A t \in Sector : Used(t)' => Used(t)
  BY <1>2 DEF Used, IsUsed
<1>4. FlashOrder'
  <2>1. \A t \in Sector : flash'[t].hdr = "erased" => flash'[t].log = <<>>
    <3> SUFFICES ASSUME NEW t \in Sector, flash'[t].hdr = "erased" PROVE flash'[t].log = <<>>
      OBVIOUS
    <3>1. flash[t].hdr = "erased"
      BY <1>2
    <3> QED BY <1>1, <1>2, <3>1 DEF FlashOrder, Used, IsUsed
  <2> QED BY <1>1, <1>2, <1>3, <2>1 DEF FlashOrder, Newer
<1>5. NoneFree'
  <2> SUFFICES ASSUME \A s \in Sector : Used(s)'
               PROVE  /\ \A d \in Sector : IsDeleting(d)' => \E s \in Sector : Newer(s, d)'
                      /\ (\A d \in Sector : ~ IsDeleting(d)') =>
                            \E s \in Sector : /\ flash'[s].log = <<>>
                                              /\ \A t \in Sector \ {s} : Newer(s, t)'
    BY DEF NoneFree
  <2>1. \A s \in Sector : Used(s)
    BY <1>3
  <2>2. \A t \in Sector : flash'[t].hdr = flash[t].hdr
    BY <1>2 DEF Used, IsUsed
  <2>3. \A s, t \in Sector : (Newer(s, t)' <=> Newer(s, t)) /\ (IsDeleting(s)' <=> IsDeleting(s))
    BY <1>2, <2>2 DEF Newer, IsDeleting
  <2>4. \A d \in Sector : IsDeleting(d) => \E s \in Sector : Newer(s, d)
    BY <1>1, <2>1, AlwaysRestarts
  <2>5. ASSUME \A d \in Sector : ~ IsDeleting(d)
        PROVE  \E s \in Sector : flash'[s].log = <<>> /\ \A t \in Sector \ {s} : Newer(s, t)
    <3>1. PICK s \in Sector : /\ flash[s].log = <<>>
                              /\ \A t \in Sector \ {s} : Newer(s, t)
                              /\ pc = "write" => s # Cur
      BY <1>1, <2>1, <2>5, AlwaysRestarts
    <3>2. gc.src \in Sector
      BY <1>1 DEF ControlType
    <3> QED BY <1>2, <2>5, <3>1, <3>2
  <2> QED BY <2>3, <2>4, <2>5
<1> QED BY <1>1, <1>4, <1>5 DEF OrderInv, Collecting, Placing, InGc

LEMMA UnloadOrder ==
    ASSUME IInv, OrderInv, Unload
    PROVE  OrderInv'
<1>1. pc = "ready" /\ pc' = "off" /\ flash' = flash
  BY DEF Unload
<1>2. FlashOrder'
  BY <1>1 DEF OrderInv, FlashOrder, Used, Newer
<1>3. NoneFree'
  <2> SUFFICES ASSUME \A s \in Sector : Used(s)' PROVE NoneFree'
    BY DEF NoneFree
  <2>1. \A s \in Sector : Used(s)
    BY <1>1 DEF Used
  <2>2. /\ \A d \in Sector : IsDeleting(d) => \E s \in Sector : Newer(s, d)
        /\ (\A d \in Sector : ~ IsDeleting(d)) =>
              \E s \in Sector : /\ flash[s].log = <<>>
                                /\ \A t \in Sector \ {s} : Newer(s, t)
    BY <1>1, <2>1, AlwaysRestarts
  <2> QED BY <1>1, <2>2 DEF NoneFree, IsDeleting, Newer
<1> QED BY <1>1, <1>2, <1>3 DEF OrderInv, Collecting, Placing, InGc

-----------------------------------------------------------------------------
(* The theorems *)

LEMMA InitOrdered ==
    ASSUME Init
    PROVE  OrderInv
<1>1. \A s \in Sector : flash[s].hdr \in {"erased", "crash"} /\ flash[s].log = <<>>
  <2>1. /\ Blank.hdr = "erased" /\ Blank.log = <<>>
        /\ [Blank EXCEPT !.hdr = "crash"].hdr = "crash"
        /\ [Blank EXCEPT !.hdr = "crash"].log = <<>>
    BY DEF Blank
  <2>2. flash \in [Sector -> {Blank, [Blank EXCEPT !.hdr = "crash"]}]
    BY DEF Init
  <2> QED BY <2>1, <2>2
<1>2. \A s \in Sector : ~ Used(s)
  BY <1>1 DEF Used, IsUsed
<1>3. \E s \in Sector : TRUE
  BY SecNumAssumption DEF Sector
<1>4. FlashOrder /\ NoneFree
  BY <1>1, <1>2, <1>3 DEF FlashOrder, NoneFree
<1> QED BY <1>4 DEF Init, OrderInv, Collecting, Placing, InGc

\* Every step of the store keeps the order.
LEMMA StepOrder ==
    ASSUME IInv, OrderInv, [Next]_vars
    PROVE  OrderInv'
<1>1. CASE UNCHANGED vars
  BY <1>1, StutterOrder
<1>2. CASE PowerOff \/ Unload
  BY <1>2, PowerOffOrder, UnloadOrder
<1>3. CASE Call
  <2>1. ASSUME NEW k \in Keys, NEW v \in Values, SetSame(k, v) \/ SetBegin(k, v) PROVE OrderInv'
    <3>1. /\ UNCHANGED <<flash, ram, active, idle, serial>>
          /\ pc \in {"ready", "write"} /\ pc' \in {"ready", "write"}
      BY <2>1 DEF SetSame, SetBegin, loaded
    <3> QED BY <3>1, QuietOrder
  <2>2. ASSUME NEW k \in Keys, Delete(k) PROVE OrderInv'
    BY <2>2, DeleteOrder
  <2>3. ASSUME NEW k, NEW t, Get(k, t) PROVE OrderInv'
    BY <2>3, StutterOrder DEF Get
  <2> QED BY <1>3, <2>1, <2>2, <2>3 DEF Call
<1>4. CASE WriteInit \/ WriteItem \/ WriteItemData \/ EraseOld
  BY <1>4, WriteInitOrder, WriteItemOrder, WriteItemDataOrder, EraseOldOrder
<1>5. CASE WriteTooLong \/ WriteFull \/ RequestNoSpace
  <2>1. /\ UNCHANGED <<flash, ram, active, idle, serial>>
        /\ pc \in {"ready", "write"} /\ pc' \in {"ready", "write"}
    BY <1>5 DEF WriteTooLong, WriteFull, RequestNoSpace, NeedSector, Return, loaded
  <2> QED BY <2>1, QuietOrder
<1>6. CASE RequestIdle \/ GcStart \/ GcInit \/ GcMark
  BY <1>6, RequestIdleOrder, GcStartOrder, GcInitOrder, GcMarkOrder
<1>7. CASE GcCopy \/ GcCopyData \/ GcCrash \/ GcErase
  BY <1>7, GcCopyOrder, GcCopyDataOrder, GcCrashOrder, GcEraseOrder
<1>8. CASE CheckWriteNothing \/ CheckGcNothing \/ CheckGcKeep
  BY <1>8, CheckOrder
<1>9. CASE CheckWriteData
  <2>1. /\ pc = "checkwrite" /\ pc' = "checkgc" /\ UNCHANGED <<active, idle, serial, gc>>
        /\ DropItem(Cur, flash[Cur].log[LastItem].at, flash[Cur].log[LastItem].span)
    BY <1>9 DEF CheckWriteData
  <2>2. Cur \in Sector
    BY <2>1, CurActive DEF IInv, TypeOK
  <2> QED BY <2>1, <2>2, CheckDropOrder
<1>10. CASE CheckWriteOld
  <2>1. pc = "checkwrite" /\ pc' = "checkgc" /\ UNCHANGED <<active, idle, serial, gc>>
    BY <1>10 DEF CheckWriteOld
  <2>2. PICK o \in OldCopies :
           DropItem(o.sec, flash[o.sec].log[o.i].at, flash[o.sec].log[o.i].span)
    BY <1>10 DEF CheckWriteOld
  <2>3. o.sec \in Sector
    <3>1. \E n \in DOMAIN active : o.sec = active[n]
      BY DEF OldCopies
    <3> QED BY <2>1, <3>1 DEF IInv, TypeOK, StoreType
  <2> QED BY <2>1, <2>2, <2>3, CheckDropOrder
<1>11. CASE Load \/ CheckGcWipe \/ CheckGcErase \/ CheckGcStart \/ LoadFinish
  BY <1>11, LoadOrder, CheckGcWipeOrder, CheckGcEraseOrder, CheckGcStartOrder, LoadFinishOrder
<1> QED BY <1>1, <1>2, <1>3, <1>4, <1>5, <1>6, <1>7, <1>8, <1>9, <1>10, <1>11 DEF Next, Step

\* Whenever power fails, the serial numbers in flash, the two lists in RAM and the position
\* of the running call fit together, and a partition without a free sector can be started.
THEOREM OrderHolds == Spec => []OrderInv
<1>1. Init => OrderInv
  BY InitOrdered
<1>2. IInv /\ OrderInv /\ [Next]_vars => OrderInv'
  BY StepOrder
<1> QED BY <1>1, <1>2, InvariantHolds, PTL DEF Spec

\* There is an idle sector whenever sm_active_sector takes one: where a call needs a new
\* sector, and where the recovery of a collection does.
THEOREM ReserveIsAtHand == Spec => []ReserveAtHand
<1>1. OrderInv => ReserveAtHand
  BY DEF OrderInv, Reserve, ReserveAtHand, NeedSector
<1> QED BY <1>1, OrderHolds, PTL

\* The active list is in the order of the serial numbers in flash, and the number the next
\* sector gets is above all of them: a restart rebuilds the same list.
THEOREM OrderIsTheRestarts == Spec => []OrderSurvivesRestart
<1>1. OrderInv => OrderSurvivesRestart
  BY DEF OrderInv, ListOrder, OrderSurvivesRestart, Used, Newer
<1> QED BY <1>1, OrderHolds, PTL

\* Between calls each sector is on one list once, there is a reserve, and what is idle
\* holds no live item.
THEOREM ReserveIsKept == Spec => []ReserveKept
<1>1. ASSUME IInv, OrderInv PROVE ReserveKept
  <2> SUFFICES ASSUME pc = "ready" PROVE ReserveKept!2
    BY DEF ReserveKept, Idle
  <2>1. StoreType /\ ListsOK /\ Reserve
    BY <1>1 DEF IInv, TypeOK, OrderInv
  <2>2. ASSUME NEW list \in Seq(Sector), IsInjective(list), NEW s \in Sector
        PROVE  Cardinality({n \in DOMAIN list : list[n] = s})
                  = IF s \in Range(list) THEN 1 ELSE 0
    <3> DEFINE At == {n \in DOMAIN list : list[n] = s}
    <3>1. CASE s \in Range(list)
      <4>1. PICK m \in DOMAIN list : list[m] = s
        BY <3>1 DEF Range
      <4>2. At = {m}
        BY <2>2, <4>1 DEF IsInjective
      <4>3. Cardinality({m}) = 1
        BY FS_Singleton
      <4> QED BY <3>1, <4>2, <4>3
    <3>2. CASE s \notin Range(list)
      <4>1. At = {}
        BY <3>2 DEF Range
      <4> QED BY <3>2, <4>1, FS_EmptySet
    <3> QED BY <3>1, <3>2
  <2>3. ASSUME NEW s \in Sector
        PROVE  Cardinality({n \in DOMAIN active : active[n] = s})
                  + Cardinality({n \in DOMAIN idle : idle[n] = s}) = 1
    <3>1. /\ active \in Seq(Sector) /\ IsInjective(active)
          /\ idle \in Seq(Sector) /\ IsInjective(idle)
      BY <2>1 DEF StoreType, ListsOK
    <3>2. /\ Cardinality({n \in DOMAIN active : active[n] = s})
                = (IF s \in Range(active) THEN 1 ELSE 0)
          /\ Cardinality({n \in DOMAIN idle : idle[n] = s})
                = (IF s \in Range(idle) THEN 1 ELSE 0)
      BY <2>2, <3>1
    <3>3. s \in Range(idle) <=> s \notin Range(active)
      BY <2>1, InOneList
    <3> QED BY <3>2, <3>3
  <2>4. \A s \in Range(idle) : IsUsed(flash[s].hdr) => LiveAt(flash[s].log) = {}
    <3>1. LiveAt(<<>>) = {}
      BY DEF LiveAt
    <3> QED BY <2>1, <3>1 DEF Reserve, Used
  <2>5. idle # <<>> /\ active # <<>>
    BY <2>1 DEF Reserve, ListsOK
  <2> QED BY <2>3, <2>4, <2>5
<1>2. IInv /\ OrderInv => ReserveKept
  BY <1>1
<1> QED BY <1>2, InvariantHolds, OrderHolds, PTL

-----------------------------------------------------------------------------
(* Logs *)

LEMMA ItemNumbers ==
    ASSUME NEW log \in Seq(Item)
    PROVE  /\ DOMAIN log = 1 .. Len(log) /\ Len(log) \in Nat
           /\ \A i \in DOMAIN log : /\ log[i] \in Item
                                    /\ log[i].at \in Nat /\ log[i].span \in Nat
           /\ LogEnd(log) \in Nat /\ Slices \in Nat
<1>1. \A e \in Item : e.at \in Nat /\ e.span \in Nat
  BY DEF Item
<1>2. LogEnd(log) \in Nat
  BY <1>1, LogEndIsNat
<1> QED BY <1>1, <1>2, SlicesAssumption

\* Every item of a packed log ends where the log does, or before.
LEMMA PackedEnds ==
    ASSUME NEW log \in Seq(Item), Packed(log), NEW i \in DOMAIN log
    PROVE  log[i].at + log[i].span <= LogEnd(log) /\ log # <<>>
<1>1. /\ i \in 1 .. Len(log) /\ Len(log) \in Nat /\ Len(log) \in DOMAIN log
      /\ \A j \in DOMAIN log : log[j].at \in Nat /\ log[j].span \in Nat
      /\ log # <<>>
  BY ItemNumbers
<1>2. LogEnd(log) = log[Len(log)].at + log[Len(log)].span
  BY <1>1 DEF LogEnd
<1>3. CASE i = Len(log)
  BY <1>1, <1>2, <1>3
<1>4. CASE i < Len(log)
  <2>1. log[i].at + log[i].span <= log[Len(log)].at
    BY <1>1, <1>4 DEF Packed
  <2> QED BY <1>1, <1>2, <2>1
<1> QED BY <1>1, <1>3, <1>4

LEMMA PackedEmpty == Packed(<<>>) /\ LogEnd(<<>>) = 0
BY DEF Packed, LogEnd, LiveAt

\* An item right behind the last one.
LEMMA PackedAppend ==
    ASSUME NEW log \in Seq(Item), Packed(log), NEW it \in Item,
           it.at = LogEnd(log), it.span >= 1, IsLive(it) => it.at + it.span <= Slices
    PROVE  LET new == Append(log, it)
           IN  /\ Packed(new) /\ LogEnd(new) = it.at + it.span
               /\ Last(new) = it /\ Len(new) = Len(log) + 1
<1> DEFINE new == Append(log, it)
           n == Len(log) + 1
<1>1. /\ new \in Seq(Item) /\ Len(new) = n /\ new[n] = it /\ n \in Nat
      /\ \A i \in 1 .. Len(log) : new[i] = log[i]
      /\ DOMAIN new = 1 .. n /\ DOMAIN log = 1 .. Len(log) /\ new # <<>>
  OBVIOUS
<1>2. LogEnd(new) = it.at + it.span /\ Last(new) = it
  BY <1>1 DEF LogEnd, Last
<1>3. \A i \in 1 .. n : i = n \/ i \in DOMAIN log
  BY <1>1
<1>4. \A i \in DOMAIN new : new[i].span >= 1
  BY <1>1, <1>3 DEF Packed
<1>5. ASSUME NEW i \in DOMAIN new, NEW j \in DOMAIN new, i < j
      PROVE  new[i].at + new[i].span <= new[j].at
  <2>1. i \in DOMAIN log /\ new[i] = log[i]
    BY <1>1, <1>3, <1>5
  <2>2. CASE j = n
    BY <1>1, <2>1, <2>2, PackedEnds
  <2>3. CASE j \in DOMAIN log
    BY <1>1, <1>5, <2>1, <2>3 DEF Packed
  <2> QED BY <1>1, <1>3, <2>2, <2>3
<1>6. ASSUME NEW i \in LiveAt(new)
      PROVE  new[i].at + new[i].span <= Slices
  <2>1. i \in DOMAIN new /\ IsLive(new[i])
    BY DEF LiveAt
  <2>2. CASE i = n
    BY <1>1, <2>1, <2>2
  <2>3. CASE i \in DOMAIN log
    BY <1>1, <2>1, <2>3 DEF Packed, LiveAt
  <2> QED BY <1>1, <1>3, <2>1, <2>2, <2>3
<1> HIDE DEF new
<1>7. Packed(new)
  BY <1>4, <1>5, <1>6 DEF Packed
<1> QED BY <1>1, <1>2, <1>7 DEF new

\* The same items in the same places, some of them dropped.
SameLayout(log, new) ==
    /\ DOMAIN new = DOMAIN log
    /\ \A i \in DOMAIN log : /\ new[i].at = log[i].at /\ new[i].span = log[i].span
                             /\ IsLive(new[i]) => IsLive(log[i])

LEMMA PackedSame ==
    ASSUME NEW log \in Seq(Item), NEW new \in Seq(Item), SameLayout(log, new)
    PROVE  /\ Packed(log) => Packed(new)
           /\ LogEnd(new) = LogEnd(log) /\ Len(new) = Len(log)
           /\ LiveAt(new) \subseteq LiveAt(log)
<1>1. /\ DOMAIN new = 1 .. Len(new) /\ DOMAIN log = 1 .. Len(log)
      /\ Len(new) \in Nat /\ Len(log) \in Nat
  BY ItemNumbers
<1>2. Len(new) = Len(log)
  <2>1. 1 .. Len(new) = 1 .. Len(log)
    BY <1>1 DEF SameLayout
  <2>2. \A n \in Nat : n \in 1 .. Len(new) <=> n \in 1 .. Len(log)
    BY <2>1
  <2>3. PICK m, n : m = Len(new) /\ n = Len(log)
    OBVIOUS
  <2>4. m \in Nat /\ n \in Nat /\ \A i \in Nat : i \in 1 .. m <=> i \in 1 .. n
    BY <1>1, <2>2, <2>3
  <2>5. m <= n /\ n <= m
    BY <2>4
  <2>6. m = n
    BY <2>4, <2>5
  <2> QED BY <2>3, <2>6
<1>3. LogEnd(new) = LogEnd(log)
  <2>1. CASE log = <<>>
    <3>1. new = <<>>
      BY <1>2, <2>1
    <3> QED BY <2>1, <3>1
  <2>2. CASE log # <<>>
    <3>1. Len(log) \in DOMAIN log /\ new # <<>>
      BY <1>1, <1>2, <2>2
    <3> QED BY <1>2, <2>2, <3>1 DEF LogEnd, SameLayout
  <2> QED BY <2>1, <2>2
<1>4. LiveAt(new) \subseteq LiveAt(log)
  BY DEF LiveAt, SameLayout
<1>5. Packed(log) => Packed(new)
  BY <1>4 DEF Packed, SameLayout, LiveAt
<1> QED BY <1>2, <1>3, <1>4, <1>5

LEMMA SameLayoutItself ==
    ASSUME NEW log PROVE SameLayout(log, log)
BY DEF SameLayout

LEMMA DropAtLayout ==
    ASSUME NEW f \in FlashSector, NEW at
    PROVE  SameLayout(f.log, DropAt(f, at).log)
<1>1. /\ f.log \in Seq(Item) /\ \A i \in DOMAIN f.log : f.log[i] \in Item
  BY ItemNumbers DEF FlashSector
<1>2. CASE \E i \in DOMAIN f.log : f.log[i].at = at
  <2>1. DropAt(f, at).log = [i \in DOMAIN f.log |->
                               IF f.log[i].at = at THEN [f.log[i] EXCEPT !.st = "droped"]
                                                   ELSE f.log[i]]
    BY <1>2 DEF DropAt, FlashSector
  <2> QED BY <1>1, <2>1 DEF SameLayout, Item, IsLive
<1>3. CASE ~ \E i \in DOMAIN f.log : f.log[i].at = at
  <2>1. DropAt(f, at).log = f.log
    BY <1>3 DEF DropAt, FlashSector
  <2> QED BY <2>1, SameLayoutItself
<1> QED BY <1>2, <1>3

LEMMA LoadLayout ==
    ASSUME NEW f \in FlashSector
    PROVE  SameLayout(f.log, LoadFlash(f).log)
<1>1. \A i \in DOMAIN f.log : f.log[i] \in Item
  BY ItemNumbers DEF FlashSector
<1>2. SameLayout(f.log, DropTorn(f.log))
  BY <1>1 DEF DropTorn, SameLayout, Item, IsLive
<1>3. LoadFlash(f).log \in {f.log, DropTorn(f.log)}
  BY DEF LoadFlash, FlashSector
<1> QED BY <1>2, <1>3, SameLayoutItself

\* Loading a sector finds the first free slice, or takes the sector for full.
LEMMA LoadNext ==
    ASSUME NEW f \in FlashSector, IsUsed(LoadStatus(f))
    PROVE  LoadRam(f).next = LogEnd(f.log) \/ LoadRam(f).next >= Slices
<1>1. LogEnd(f.log) \in Nat /\ Slices \in Nat
  BY ItemNumbers DEF FlashSector
<1>2. LoadRam(f).next = IF LogEnd(Scanned(f)) > Slices THEN Slices ELSE LogEnd(Scanned(f))
  BY DEF LoadRam
<1>3. CASE LogEnd(f.log) \in f.stale
  <2> DEFINE fake == [at |-> LogEnd(f.log), key |-> CHOOSE k \in Keys : TRUE,
                      val |-> CHOOSE v \in Values : TRUE, span |-> LostSpan,
                      st |-> "droped"]
  <2>1. /\ Scanned(f) = Append(f.log, fake) /\ f.log \in Seq(Item)
    BY <1>3 DEF Scanned, FlashSector
  <2>2. f.log \in Seq(Item \union {fake}) /\ fake \in Item \union {fake}
    BY <2>1, SeqMonotonic
  <2>3. fake.at = LogEnd(f.log) /\ fake.span = LostSpan
    OBVIOUS
  <2> HIDE DEF fake
  <2>4. LET new == Append(f.log, fake)
        IN  new # <<>> /\ new[Len(new)] = fake
    BY <2>2
  <2>5. LogEnd(Scanned(f)) = LogEnd(f.log) + LostSpan
    BY <2>1, <2>3, <2>4 DEF LogEnd
  <2> QED BY <1>1, <1>2, <2>5 DEF LostSpan
<1>4. CASE LogEnd(f.log) \notin f.stale
  <2>1. Scanned(f) = f.log
    BY <1>4 DEF Scanned
  <2> QED BY <1>1, <1>2, <2>1
<1> QED BY <1>3, <1>4
-----------------------------------------------------------------------------
(* Steps that append no item *)

AppendsNone == \A s \in Sector : Len(flash'[s].log) <= Len(flash[s].log)

\* What a step does to a sector: nothing to where its items lie, or it empties it; and
\* only writing an item moves the next free slice.
Settled(s) ==
    /\ flash'[s].log = <<>> \/ SameLayout(flash[s].log, flash'[s].log)
    /\ IsUsed(ram'[s].st) =>
          \/ flash'[s].log = <<>> /\ ram'[s].next = 0
          \/ /\ SameLayout(flash[s].log, flash'[s].log)
             /\ IsUsed(ram[s].st) /\ ram'[s].next = ram[s].next

LEMMA LayoutFrame ==
    ASSUME StoreType, StoreType', LayoutInv, pc \notin {"data", "gcdata"},
           \A s \in Sector : Settled(s)
    PROVE  /\ AppendsNone
           /\ \A s \in Sector : Packed(flash[s].log)'
           /\ \A s \in Sector : IsUsed(ram'[s].st) => NextFree(s)'
<1> SUFFICES ASSUME NEW s \in Sector
             PROVE  /\ Len(flash'[s].log) <= Len(flash[s].log)
                    /\ Packed(flash[s].log)'
                    /\ IsUsed(ram'[s].st) => NextFree(s)'
  BY DEF AppendsNone
<1>1. PICK log, new : log = flash[s].log /\ new = flash'[s].log
  OBVIOUS
<1>2. log \in Seq(Item) /\ new \in Seq(Item)
  BY <1>1, SectorTypes DEF StoreType, FlashSector
<1>3. Packed(log) /\ (IsUsed(ram[s].st) => ram[s].next = LogEnd(log) \/ ram[s].next >= Slices)
  BY <1>1 DEF LayoutInv, NextFree
<1>4. /\ new = <<>> => Packed(new) /\ LogEnd(new) = 0 /\ Len(new) = 0
      /\ SameLayout(log, new) => Packed(new) /\ LogEnd(new) = LogEnd(log) /\ Len(new) = Len(log)
  BY <1>2, <1>3, PackedEmpty, PackedSame
<1>5. /\ new = <<>> \/ SameLayout(log, new)
      /\ IsUsed(ram'[s].st) =>
            \/ new = <<>> /\ ram'[s].next = 0
            \/ SameLayout(log, new) /\ IsUsed(ram[s].st) /\ ram'[s].next = ram[s].next
  BY <1>1 DEF Settled
<1>6. Packed(new) /\ Len(new) <= Len(log)
  BY <1>2, <1>4, <1>5
<1>7. IsUsed(ram'[s].st) => ram'[s].next = LogEnd(new) \/ ram'[s].next >= Slices
  BY <1>3, <1>4, <1>5
<1> QED BY <1>1, <1>6, <1>7 DEF NextFree

\* Away from writing and copying nothing more is asked.
LEMMA FrameLayout ==
    ASSUME StoreType, StoreType', LayoutInv, pc \notin {"data", "gcdata"},
           \A s \in Sector : Settled(s),
           pc' \notin {"data", "gcdata", "gcmark", "gccopy"}
    PROVE  LayoutInv' /\ AppendsNone
BY LayoutFrame DEF LayoutInv, Between

\* Steps that leave flash and RAM alone, or forget what RAM holds.
LEMMA QuietLayout ==
    ASSUME StoreType, StoreType', LayoutInv, pc \notin {"data", "gcdata"},
           UNCHANGED flash, UNCHANGED ram \/ ram' = [s \in Sector |-> Unloaded],
           pc' \notin {"data", "gcdata", "gcmark", "gccopy"}
    PROVE  LayoutInv' /\ AppendsNone
<1>1. \A s \in Sector : Settled(s)
  BY SameLayoutItself DEF Settled, Unloaded, IsUsed
<1> QED BY <1>1, FrameLayout

LEMMA StutterLayout ==
    ASSUME StoreType, LayoutInv, UNCHANGED vars
    PROVE  LayoutInv' /\ AppendsNone
<1>1. UNCHANGED <<flash, ram, active, pc, gc>>
  BY DEF vars
<1>2. \A s \in Sector : Len(flash[s].log) \in Nat
  BY SectorTypes
<1> QED BY <1>1, <1>2 DEF LayoutInv, Between, NextFree, Cur, ToCopy, Copied, AppendsNone

LEMMA DropLayout ==
    ASSUME StoreType, StoreType', LayoutInv, pc \notin {"data", "gcdata"},
           NEW s \in Sector, NEW at, NEW span, DropItem(s, at, span),
           pc' \notin {"data", "gcdata", "gcmark", "gccopy"}
    PROVE  LayoutInv' /\ AppendsNone
<1>1. flash \in [Sector -> FlashSector] /\ ram \in [Sector -> RamSector]
  BY DEF StoreType
<1>2. flash' = [flash EXCEPT ![s] = DropAt(flash[s], at)]
  BY <1>1 DEF DropItem
<1>3. \A t \in Sector : SameLayout(flash[t].log, flash'[t].log)
  <2> TAKE t \in Sector
  <2>1. CASE t = s
    <3>1. flash'[s] = DropAt(flash[s], at) /\ flash[s] \in FlashSector
      BY <1>1, <1>2
    <3> QED BY <2>1, <3>1, DropAtLayout
  <2>2. CASE t # s
    BY <1>1, <1>2, <2>2, SameLayoutItself
  <2> QED BY <2>1, <2>2
<1>4. \A t \in Sector : ram'[t].st = ram[t].st /\ ram'[t].next = ram[t].next
  BY <1>1 DEF DropItem, RamSector
<1>5. \A t \in Sector : Settled(t)
  BY <1>3, <1>4 DEF Settled
<1> QED BY <1>5, FrameLayout

\* Taking a sector into use leaves its log as it is, or empties it.
LEMMA ActivateSettles ==
    ASSUME StoreType, ListsOK, idle # <<>>, Activate
    PROVE  \A t \in Sector : Settled(t)
<1>1. PICK s : s = Head(idle)
  OBVIOUS
<1>2. /\ flash \in [Sector -> FlashSector] /\ ram \in [Sector -> RamSector]
      /\ s \in Sector /\ serial \in Nat
      /\ \A t \in Sector \ {s} : flash'[t] = flash[t] /\ ram'[t] = ram[t]
  BY <1>1, ActivateKeeps DEF StoreType
<1>3. /\ flash'[s] = IF ram[s].st = "crash" THEN Blank ELSE flash[s]
      /\ ram'[s] = [(IF ram[s].st = "crash" THEN Unloaded ELSE ram[s]) EXCEPT !.sn = serial]
  BY <1>1, <1>2 DEF Activate
<1>4. Settled(s)
  <2>1. CASE ram[s].st = "crash"
    BY <1>3, <2>1 DEF Settled, Blank, Unloaded, IsUsed
  <2>2. CASE ram[s].st # "crash"
    <3>1. ram'[s].st = ram[s].st /\ ram'[s].next = ram[s].next /\ flash'[s] = flash[s]
      BY <1>2, <1>3, <2>2 DEF RamSector
    <3> QED BY <3>1, SameLayoutItself DEF Settled
  <2> QED BY <2>1, <2>2
<1>5. ASSUME NEW t \in Sector, t # s PROVE Settled(t)
  BY <1>2, <1>5, SameLayoutItself DEF Settled
<1> QED BY <1>4, <1>5

\* So does programming the header of an empty sector,
LEMMA InitSettles ==
    ASSUME StoreType, FlashOrder, Agree, NEW s \in Sector, Fresh(s), InitSector(s)
    PROVE  (\A t \in Sector : Settled(t)) /\ flash'[s].log = <<>>
<1>1. flash \in [Sector -> FlashSector] /\ ram \in [Sector -> RamSector]
  BY DEF StoreType
<1>2. flash[s].log = <<>>
  BY DEF FlashOrder, Agree
<1>3. /\ \A t \in Sector : flash'[t].log = flash[t].log
      /\ \A t \in Sector \ {s} : ram'[t] = ram[t]
      /\ ram'[s].next = 0
  BY <1>1 DEF InitSector, FlashSector, RamSector, Unloaded
<1> QED BY <1>2, <1>3, SameLayoutItself DEF Settled

\* changing the state of one,
LEMMA StateSettles ==
    ASSUME StoreType, NEW s \in Sector, NEW st, SetState(s, st), IsUsed(st) => IsUsed(ram[s].st)
    PROVE  \A t \in Sector : Settled(t)
<1>1. /\ ram'[s].st = st /\ \A t \in Sector : flash'[t].log = flash[t].log
      /\ \A t \in Sector \ {s} : ram'[t] = ram[t]
  BY StateFrame
<1>2. \A t \in Sector : ram'[t].next = ram[t].next
  BY DEF SetState, StoreType, RamSector
<1> QED BY <1>1, <1>2, SameLayoutItself DEF Settled

\* and erasing one.
LEMMA EraseSettles ==
    ASSUME StoreType, NEW s \in Sector, EraseToIdle(s)
    PROVE  \A t \in Sector : Settled(t)
<1>1. flash \in [Sector -> FlashSector] /\ ram \in [Sector -> RamSector]
  BY DEF StoreType
<1>2. /\ flash'[s] = Blank /\ ram'[s] = [Unloaded EXCEPT !.sn = ram[s].sn]
      /\ \A t \in Sector \ {s} : flash'[t] = flash[t] /\ ram'[t] = ram[t]
  BY <1>1 DEF EraseToIdle
<1>3. Settled(s)
  BY <1>2 DEF Settled, Blank, Unloaded
<1>4. ASSUME NEW t \in Sector, t # s PROVE Settled(t)
  BY <1>2, <1>4, SameLayoutItself DEF Settled
<1> QED BY <1>3, <1>4
-----------------------------------------------------------------------------
(* Steps that program an item *)

\* What AppendsInPlace says of a sector that gets an item.
PlacedIn(s) ==
    LET it == flash'[s].log[Len(flash'[s].log)]
    IN  /\ flash[s].hdr = "using" /\ s \in Range(active)
        /\ it.at = LogEnd(flash[s].log)
        /\ it.st \notin {"torn", "droped"} => it.at + it.span <= Slices

InPlace ==
    \A s \in Sector : Len(flash'[s].log) > Len(flash[s].log) /\ pc # "off" => PlacedIn(s)

LEMMA NoneInPlace ==
    ASSUME StoreType, StoreType', AppendsNone
    PROVE  InPlace
<1>1. \A s \in Sector : Len(flash'[s].log) \in Nat /\ Len(flash[s].log) \in Nat
  BY SectorTypes DEF StoreType, FlashSector
<1> QED BY <1>1 DEF AppendsNone, InPlace

\* The header of an item, at the end of the log of a sector that is active and in use.
LEMMA HeaderLayout ==
    ASSUME StoreType, NEW s \in Range(active), s \in Sector, flash[s].hdr = "using",
           Packed(flash[s].log), NEW it \in Item, it.at = LogEnd(flash[s].log),
           it.span >= 1, it.at + it.span <= Slices, WriteHeader(s, it)
    PROVE  /\ Packed(flash[s].log)' /\ LogEnd(flash'[s].log) = it.at + it.span
           /\ Last(flash'[s].log).at = it.at /\ Last(flash'[s].log).span = it.span
           /\ Last(flash'[s].log).st # "torn"
           /\ \A t \in Sector \ {s} : flash'[t] = flash[t]
           /\ InPlace
<1>1. /\ flash \in [Sector -> FlashSector] /\ flash[s] \in FlashSector
      /\ \A t \in Sector : Len(flash[t].log) \in Nat
  BY SectorTypes DEF StoreType
<1>2. PICK h : h = HeaderWritten(flash[s], it)
  OBVIOUS
<1>3. /\ h \in Item /\ h.at = it.at /\ h.span = it.span
      /\ h.st \in {"using", "nodata", "droped"}
  BY <1>1, <1>2, HeaderWrittenType DEF HeaderWritten, Item
<1>4. /\ flash'[s].log = Append(flash[s].log, h)
      /\ \A t \in Sector \ {s} : flash'[t] = flash[t]
  BY <1>1, <1>2 DEF WriteHeader, FlashSector
<1>5. PICK log, new : log = flash[s].log /\ new = Append(log, h)
  OBVIOUS
<1>6. log \in Seq(Item) /\ Packed(log) /\ h.at = LogEnd(log)
  BY <1>1, <1>3, <1>5 DEF FlashSector
<1>7. /\ Packed(new) /\ LogEnd(new) = h.at + h.span /\ Last(new) = h
  BY <1>3, <1>5, <1>6, PackedAppend
<1>8. flash'[s].log = new
  BY <1>4, <1>5
<1>9. PlacedIn(s)
  BY <1>3, <1>7, <1>8 DEF PlacedIn, Last
<1>10. InPlace
  BY <1>1, <1>4, <1>9 DEF InPlace
<1> QED BY <1>3, <1>4, <1>7, <1>8, <1>10

\* Its data.
LEMMA DataLayout ==
    ASSUME StoreType, NEW s \in Sector, flash[s].log # <<>>, WriteData(s),
           Last(flash[s].log).st # "torn"
    PROVE  /\ \A t \in Sector : SameLayout(flash[t].log, flash'[t].log)
           /\ \A t \in Sector \ {s} : flash'[t] = flash[t] /\ ram'[t] = ram[t]
           /\ ram'[s].next = ram[s].next + Last(flash[s].log).span
           /\ \A t \in Sector : ram'[t].st = ram[t].st
           /\ LogEnd(flash[s].log) = Last(flash[s].log).at + Last(flash[s].log).span
<1> DEFINE log == flash[s].log
           n == Len(log)
<1>1. /\ flash \in [Sector -> FlashSector] /\ ram \in [Sector -> RamSector]
      /\ log \in Seq(Item) /\ n \in DOMAIN log /\ log[n] \in Item /\ Last(log) = log[n]
      /\ \A i \in DOMAIN log : log[i] \in Item
  BY SectorTypes DEF StoreType, Last
<1>2. PICK st \in DataWritten(flash[s], log[n]) : flash' = [flash EXCEPT ![s].log[n].st = st]
  BY DEF WriteData
<1>3. IsLive([log[n] EXCEPT !.st = st]) => IsLive(log[n])
  BY <1>1, <1>2 DEF DataWritten, IsLive, Item, ItemStatus
<1>4. /\ flash'[s].log = [log EXCEPT ![n] = [log[n] EXCEPT !.st = st]]
      /\ \A t \in Sector \ {s} : flash'[t] = flash[t]
  BY <1>1, <1>2 DEF FlashSector
<1>5. SameLayout(log, flash'[s].log)
  BY <1>1, <1>3, <1>4 DEF SameLayout, Item
<1>6. \A t \in Sector : SameLayout(flash[t].log, flash'[t].log)
  BY <1>4, <1>5, SameLayoutItself
<1>7. /\ \A t \in Sector \ {s} : ram'[t] = ram[t]
      /\ \A t \in Sector : ram'[t].st = ram[t].st
      /\ ram'[s].next = ram[s].next + Last(log).span
  <2>1. Account(s, Last(log)) /\ ram[s] \in RamSector
    BY <1>1 DEF WriteData
  <2>2. PICK r : r = ram[s]
    OBVIOUS
  <2>3. /\ \A t \in Sector \ {s} : ram'[t] = ram[t]
        /\ ram'[s] = [r EXCEPT !.next = @ + Last(log).span, !.used = Count(@ + Last(log).span),
                               !.hash = @ \union {Last(log).at}]
    BY <1>1, <2>1, <2>2 DEF Account
  <2>4. ram'[s].st = r.st /\ ram'[s].next = r.next + Last(log).span
    BY <2>1, <2>2, <2>3 DEF RamSector
  <2> QED BY <2>2, <2>3, <2>4
<1>8. LogEnd(log) = Last(log).at + Last(log).span
  BY <1>1 DEF LogEnd
<1> QED BY <1>4, <1>6, <1>7, <1>8

LEMMA WriteItemLayout ==
    ASSUME IInv, OrderInv, LayoutInv, WriteItem
    PROVE  LayoutInv' /\ InPlace
<1>1. PICK it, c : it = NewItem(ram[Cur].next, op.k, op.v) /\ c = Cur
  OBVIOUS
<1>2. /\ StoreType /\ ListsOK /\ Headers /\ Agree /\ OpSet
      /\ pc = "write" /\ ~ Fresh(c) /\ HasRoom(ram[c], SpanOf[op.v]) /\ WriteHeader(c, it)
      /\ (Account(c, it) /\ pc' = "eraseold") \/ (UNCHANGED ram /\ pc' = "data")
      /\ UNCHANGED active
  BY <1>1 DEF WriteItem, CanWrite, Fresh, IInv, TypeOK, OrderInv, Calling
<1>3. c \in Sector /\ c \in Range(active) /\ Cur' = c /\ Used(c)
  BY <1>1, <1>2, CurActive, WritesInUse DEF Cur
<1>4. flash[c].hdr = "using" /\ IsUsed(ram[c].st)
  BY <1>2, <1>3 DEF Headers, IsDeleting, Used, IsUsed, Agree
<1>5. ram[c].next \in Nat /\ SpanOf[op.v] \in Nat \ {0} /\ Slices \in Nat
  BY <1>2, <1>3, SpanAssumption, SlicesAssumption DEF StoreType, RamSector, OpSet
<1>6. it \in Item /\ it.at = ram[c].next /\ it.span = SpanOf[op.v]
  <2>1. NewItem(ram[c].next, op.k, op.v) \in Item
    BY <1>2, <1>5, NewItemType DEF OpSet
  <2> QED BY <1>1, <2>1 DEF NewItem
<1>7. it.at + it.span <= Slices /\ it.at = LogEnd(flash[c].log) /\ it.span >= 1
  <2>1. ram[c].next + SpanOf[op.v] <= Slices
    BY <1>2 DEF HasRoom
  <2>2. ram[c].next = LogEnd(flash[c].log) \/ ram[c].next >= Slices
    BY <1>2, <1>3, <1>4 DEF LayoutInv, NextFree
  <2> QED BY <1>5, <1>6, <2>1, <2>2
<1>8. Packed(flash[c].log)
  BY <1>3 DEF LayoutInv
<1>9. /\ Packed(flash[c].log)' /\ LogEnd(flash'[c].log) = it.at + it.span
      /\ Last(flash'[c].log).at = it.at /\ Last(flash'[c].log).span = it.span
      /\ Last(flash'[c].log).st # "torn"
      /\ \A t \in Sector \ {c} : flash'[t] = flash[t]
      /\ InPlace
  BY <1>2, <1>3, <1>4, <1>6, <1>7, <1>8, HeaderLayout
<1>10. \A t \in Sector : Packed(flash[t].log)'
  BY <1>9 DEF LayoutInv
<1>11. CASE Account(c, it) /\ pc' = "eraseold"
  <2>1. /\ \A t \in Sector \ {c} : ram'[t] = ram[t]
        /\ ram'[c].next = ram[c].next + it.span
    BY <1>2, <1>3, <1>11 DEF Account, StoreType, RamSector
  <2>2. ASSUME NEW t \in Sector, IsUsed(ram'[t].st) PROVE NextFree(t)'
    BY <1>2, <1>6, <1>9, <2>1, <2>2 DEF LayoutInv, NextFree
  <2> QED BY <1>9, <1>10, <1>11, <2>2 DEF LayoutInv, Between
<1>12. CASE UNCHANGED ram /\ pc' = "data"
  <2>1. ASSUME NEW t \in Sector, IsUsed(ram'[t].st), t # c PROVE NextFree(t)'
    BY <1>2, <1>9, <1>12, <2>1 DEF LayoutInv, NextFree
  <2>2. Between'
    BY <1>3, <1>6, <1>7, <1>9, <1>12 DEF Between
  <2> QED BY <1>3, <1>9, <1>10, <1>12, <2>1, <2>2 DEF LayoutInv
<1> QED BY <1>2, <1>11, <1>12

LEMMA WriteItemDataLayout ==
    ASSUME IInv, OrderInv, LayoutInv, StoreType', WriteItemData
    PROVE  LayoutInv' /\ AppendsNone
<1>1. PICK c, it : c = Cur /\ it = Last(flash[Cur].log)
  OBVIOUS
<1>2. /\ StoreType /\ ListsOK /\ pc = "data" /\ pc' = "eraseold" /\ WriteData(c)
      /\ flash[c].log # <<>> /\ c \in Sector
      /\ ram[c].next = it.at /\ it.st # "torn" /\ it = Last(flash[c].log)
  BY <1>1, CurActive DEF WriteItemData, IInv, TypeOK, DataBegun, LayoutInv, Between
<1>3. /\ \A t \in Sector : SameLayout(flash[t].log, flash'[t].log)
      /\ \A t \in Sector \ {c} : flash'[t] = flash[t] /\ ram'[t] = ram[t]
      /\ ram'[c].next = LogEnd(flash[c].log)
  BY <1>2, DataLayout
<1>4. \A t \in Sector : /\ Packed(flash[t].log)' /\ LogEnd(flash'[t].log) = LogEnd(flash[t].log)
                        /\ Len(flash'[t].log) = Len(flash[t].log) /\ Len(flash[t].log) \in Nat
  <2> TAKE t \in Sector
  <2>1. PICK log, new : log = flash[t].log /\ new = flash'[t].log
    OBVIOUS
  <2>2. log \in Seq(Item) /\ new \in Seq(Item) /\ Packed(log) /\ SameLayout(log, new)
    BY <1>2, <1>3, <2>1, SectorTypes DEF StoreType, FlashSector, LayoutInv
  <2>3. Packed(new) /\ LogEnd(new) = LogEnd(log) /\ Len(new) = Len(log)
    BY <2>2, PackedSame
  <2> QED BY <2>1, <2>2, <2>3
<1>5. ASSUME NEW t \in Sector, IsUsed(ram'[t].st) PROVE NextFree(t)'
  BY <1>1, <1>2, <1>3, <1>4, <1>5 DEF LayoutInv, NextFree
<1>6. AppendsNone
  BY <1>4 DEF AppendsNone
<1> QED BY <1>2, <1>4, <1>5, <1>6 DEF LayoutInv, Between
-----------------------------------------------------------------------------
(* Collection copies *)

\* The item that is copied fits behind the ones that were, and the ones left to copy
\* lie behind it.
LEMMA CopyFits ==
    ASSUME StoreType, ControlType, LayoutInv, pc \in {"gccopy", "gcdata"}, ToCopy # {}
    PROVE  /\ gc.d + Copied.span <= Slices /\ Copied.span >= 1 /\ Copied.at = gc.d
           /\ \A i \in ToCopy : i >= LeastOf(ToCopy) + 1 =>
                 gc.d + Copied.span <= flash[gc.src].log[i].at
<1>1. PICK log, n : log = flash[gc.src].log /\ n = LeastOf(ToCopy)
  OBVIOUS
<1>2. /\ gc.src \in Sector /\ log \in Seq(Item) /\ gc.d \in Nat
  BY <1>1, SectorTypes DEF ControlType
<1>3. ToCopy \subseteq LiveAt(log) /\ LiveAt(log) \subseteq DOMAIN log /\ DOMAIN log \subseteq Nat
  BY <1>1, <1>2 DEF ToCopy, LiveAt
<1>4. n \in ToCopy
  BY <1>1, <1>3, LeastOfIsLeast
<1>5. /\ \A i \in DOMAIN log : log[i] \in Item /\ log[i].at \in Nat /\ log[i].span \in Nat
      /\ Slices \in Nat
  BY <1>2, ItemNumbers
<1>6. Copied.span = log[n].span /\ Copied.at = gc.d
  <2>1. Copied = [log[n] EXCEPT !.at = gc.d] /\ log[n] \in Item
    BY <1>1, <1>3, <1>4, <1>5 DEF Copied
  <2> QED BY <2>1 DEF Item
<1>7. Packed(log) /\ gc.d <= log[n].at
  BY <1>1, <1>2, <1>4 DEF LayoutInv, Between
<1>8. log[n].at + log[n].span <= Slices /\ log[n].span >= 1
  BY <1>3, <1>4, <1>7 DEF Packed
<1>9. ASSUME NEW i \in ToCopy, i >= n + 1
      PROVE  gc.d + Copied.span <= log[i].at
  <2>1. i \in DOMAIN log /\ n \in DOMAIN log /\ n < i
    BY <1>3, <1>4, <1>9
  <2>2. log[n].at + log[n].span <= log[i].at
    BY <1>7, <2>1 DEF Packed
  <2> QED BY <1>2, <1>5, <1>6, <1>7, <2>1, <2>2
<1>10. gc.d + Copied.span <= Slices
  BY <1>2, <1>3, <1>4, <1>5, <1>6, <1>7, <1>8
<1> QED BY <1>1, <1>6, <1>8, <1>9, <1>10

\* The source is another sector than the destination, which is in use.
LEMMA CopyPlaces ==
    ASSUME IInv, OrderInv, LayoutInv, pc \in {"gccopy", "gcdata"}
    PROVE  /\ StoreType /\ ControlType
           /\ gc.src \in Sector /\ gc.dst \in Sector /\ gc.src # gc.dst
           /\ gc.dst \in Range(active) /\ flash[gc.dst].hdr = "using"
           /\ IsUsed(ram[gc.dst].st) /\ gc.d \in Nat /\ gc.i \in Nat
           /\ gc.d = ram[gc.dst].next \/ ram[gc.dst].next >= Slices
<1>1. /\ StoreType /\ ControlType /\ GcSet /\ Agree
      /\ flash[gc.dst].hdr = "using"
  BY DEF IInv, TypeOK, OrderInv, InGc, Collecting
<1>2. gc.src \in Sector /\ gc.dst \in Sector /\ gc.d \in Nat /\ gc.i \in Nat
  BY <1>1 DEF ControlType
<1>3. IsUsed(ram[gc.dst].st)
  BY <1>1, <1>2 DEF Agree, Used, IsUsed
<1>4. gc.d = ram[gc.dst].next \/ ram[gc.dst].next >= Slices
  BY <1>2, <1>3 DEF LayoutInv, Between, NextFree
<1> QED BY <1>1, <1>2, <1>3, <1>4 DEF GcSet

LEMMA GcCopyLayout ==
    ASSUME IInv, OrderInv, LayoutInv, GcCopy
    PROVE  LayoutInv' /\ InPlace
<1>1. PICK it, n, src, dst : /\ it = Copied /\ n = LeastOf(ToCopy)
                            /\ src = gc.src /\ dst = gc.dst
  OBVIOUS
<1>2. /\ pc = "gccopy" /\ ToCopy # {} /\ WriteHeader(dst, it)
      /\ \/ /\ it.span = 1 /\ Account(dst, it) /\ pc' = "gccopy"
            /\ gc' = [gc EXCEPT !.i = n + 1, !.d = @ + 1]
         \/ pc' = "gcdata" /\ UNCHANGED <<ram, gc>>
      /\ UNCHANGED active
  BY <1>1 DEF GcCopy
<1>3. /\ StoreType /\ ControlType
      /\ src \in Sector /\ dst \in Sector /\ src # dst
      /\ dst \in Range(active) /\ flash[dst].hdr = "using"
      /\ IsUsed(ram[dst].st) /\ gc.d \in Nat /\ gc.i \in Nat
      /\ gc.d = ram[dst].next \/ ram[dst].next >= Slices
      /\ ram[dst].next \in Nat /\ Slices \in Nat
  BY <1>1, <1>2, CopyPlaces, SlicesAssumption DEF StoreType, RamSector
<1>4. /\ it \in Item /\ n \in Nat /\ it.span \in Nat
      /\ gc.d + it.span <= Slices /\ it.span >= 1 /\ it.at = gc.d
      /\ \A i \in ToCopy : i >= n + 1 => gc.d + it.span <= flash[src].log[i].at
  BY <1>1, <1>2, <1>3, CopiedType, CopyFits
<1>5. /\ Packed(flash[dst].log) /\ gc.d = LogEnd(flash[dst].log)
      /\ \A i \in ToCopy : gc.d <= flash[src].log[i].at
  BY <1>1, <1>2, <1>3 DEF LayoutInv, Between
<1>6. /\ Packed(flash[dst].log)' /\ LogEnd(flash'[dst].log) = it.at + it.span
      /\ Last(flash'[dst].log).at = it.at /\ Last(flash'[dst].log).span = it.span
      /\ Last(flash'[dst].log).st # "torn"
      /\ \A t \in Sector \ {dst} : flash'[t] = flash[t]
      /\ InPlace
  BY <1>2, <1>3, <1>4, <1>5, HeaderLayout
<1>7. \A t \in Sector : Packed(flash[t].log)'
  BY <1>6 DEF LayoutInv
<1>8. flash'[src] = flash[src]
  BY <1>3, <1>6
<1>9. CASE it.span = 1 /\ Account(dst, it) /\ pc' = "gccopy"
           /\ gc' = [gc EXCEPT !.i = n + 1, !.d = @ + 1]
  <2>1. /\ \A t \in Sector \ {dst} : ram'[t] = ram[t]
        /\ ram'[dst].next = ram[dst].next + it.span
    BY <1>3, <1>9 DEF Account, StoreType, RamSector
  <2>2. gc'.src = src /\ gc'.dst = dst /\ gc'.d = gc.d + it.span /\ gc'.i = n + 1
    BY <1>1, <1>3, <1>9 DEF ControlType
  <2>3. ASSUME NEW t \in Sector, IsUsed(ram'[t].st) PROVE NextFree(t)'
    <3>1. CASE t = dst
      BY <1>3, <1>4, <1>6, <2>1, <3>1 DEF NextFree
    <3>2. CASE t # dst
      BY <1>2, <1>6, <2>1, <2>3, <3>2 DEF LayoutInv, NextFree
    <3> QED BY <3>1, <3>2
  <2>4. ASSUME NEW i \in ToCopy' PROVE gc'.d <= flash'[src].log[i].at
    <3>1. i \in LiveAt(flash[src].log) /\ i >= n + 1
      BY <1>8, <2>2, <2>4 DEF ToCopy
    <3>2. LiveAt(flash[src].log) \subseteq Nat
      <4>1. StoreType /\ src \in Sector
        BY <1>3
      <4>2. LiveAt(flash[src].log) \subseteq 1 .. Len(flash[src].log)
        BY <4>1, LiveType
      <4> QED BY <4>2
    <3>3. n \in ToCopy
      BY <1>1, <1>2, <3>2, LeastOfIsLeast DEF ToCopy
    <3>4. i \in Nat /\ n >= gc.i
      BY <3>1, <3>2, <3>3 DEF ToCopy
    <3>5. i \in ToCopy
      BY <1>1, <1>3, <1>4, <3>1, <3>4 DEF ToCopy
    <3> QED BY <1>4, <1>8, <2>2, <3>1, <3>5
  <2>5. gc'.d = LogEnd(flash'[dst].log)
    BY <1>4, <1>6, <2>2
  <2>6. Between'
    BY <1>9, <2>2, <2>4, <2>5 DEF Between
  <2> QED BY <1>6, <1>7, <2>3, <2>6 DEF LayoutInv
<1>10. CASE pc' = "gcdata" /\ UNCHANGED <<ram, gc>>
  <2>1. ASSUME NEW t \in Sector, IsUsed(ram'[t].st), t # dst PROVE NextFree(t)'
    BY <1>2, <1>6, <1>10, <2>1 DEF LayoutInv, NextFree
  <2>2. ToCopy' = ToCopy /\ Copied' = it
    BY <1>1, <1>8, <1>10 DEF ToCopy, Copied
  <2>3. Between'
    BY <1>1, <1>3, <1>4, <1>5, <1>6, <1>8, <1>10, <2>2 DEF Between
  <2> QED BY <1>1, <1>6, <1>7, <1>10, <2>1, <2>3 DEF LayoutInv
<1> QED BY <1>2, <1>9, <1>10

LEMMA GcCopyDataLayout ==
    ASSUME IInv, OrderInv, LayoutInv, StoreType', GcCopyData
    PROVE  LayoutInv' /\ AppendsNone
<1>1. PICK it, n, src, dst, span : /\ it = Last(flash[gc.dst].log) /\ n = LeastOf(ToCopy)
                                  /\ src = gc.src /\ dst = gc.dst /\ span = Copied.span
  OBVIOUS
<1>2. /\ pc = "gcdata" /\ pc' = "gccopy" /\ WriteData(dst)
      /\ gc' = [gc EXCEPT !.i = n + 1, !.d = @ + span]
      /\ flash[dst].log # <<>> /\ ToCopy # {}
      /\ gc.d = it.at /\ it.span = span /\ it.st # "torn" /\ it = Last(flash[dst].log)
      /\ ram[dst].next = gc.d \/ ram[dst].next >= Slices
  BY <1>1 DEF GcCopyData, IInv, DataBegun, LayoutInv, Between
<1>3. /\ StoreType /\ ControlType
      /\ src \in Sector /\ dst \in Sector /\ src # dst
      /\ gc.d \in Nat /\ gc.i \in Nat /\ ram[dst].next \in Nat /\ Slices \in Nat
  BY <1>1, <1>2, CopyPlaces, SlicesAssumption DEF StoreType, RamSector
<1>4. /\ n \in Nat /\ span \in Nat /\ span >= 1
      /\ \A i \in ToCopy : i >= n + 1 => gc.d + span <= flash[src].log[i].at
  BY <1>1, <1>2, <1>3, CopiedType, CopyFits
<1>5. /\ \A t \in Sector : SameLayout(flash[t].log, flash'[t].log)
      /\ \A t \in Sector \ {dst} : flash'[t] = flash[t] /\ ram'[t] = ram[t]
      /\ ram'[dst].next = ram[dst].next + span
      /\ LogEnd(flash[dst].log) = gc.d + span
  BY <1>2, <1>3, DataLayout
<1>6. \A t \in Sector : /\ Packed(flash[t].log)' /\ LogEnd(flash'[t].log) = LogEnd(flash[t].log)
                        /\ Len(flash'[t].log) = Len(flash[t].log) /\ Len(flash[t].log) \in Nat
  <2> TAKE t \in Sector
  <2>1. PICK log, new : log = flash[t].log /\ new = flash'[t].log
    OBVIOUS
  <2>2. log \in Seq(Item) /\ new \in Seq(Item) /\ Packed(log) /\ SameLayout(log, new)
    BY <1>3, <1>5, <2>1, SectorTypes DEF StoreType, FlashSector, LayoutInv
  <2>3. Packed(new) /\ LogEnd(new) = LogEnd(log) /\ Len(new) = Len(log)
    BY <2>2, PackedSame
  <2> QED BY <2>1, <2>2, <2>3
<1>7. gc'.src = src /\ gc'.dst = dst /\ gc'.d = gc.d + span /\ gc'.i = n + 1
  BY <1>1, <1>2, <1>3 DEF ControlType
<1>8. ASSUME NEW t \in Sector, IsUsed(ram'[t].st) PROVE NextFree(t)'
  <2>1. CASE t = dst
    BY <1>2, <1>3, <1>4, <1>5, <1>6, <2>1 DEF NextFree
  <2>2. CASE t # dst
    BY <1>1, <1>2, <1>5, <1>8, <2>2 DEF LayoutInv, NextFree
  <2> QED BY <2>1, <2>2
<1>9. ASSUME NEW i \in ToCopy' PROVE gc'.d <= flash'[src].log[i].at
  <2>1. flash'[src] = flash[src]
    BY <1>3, <1>5
  <2>2. i \in LiveAt(flash[src].log) /\ i >= n + 1
    BY <1>7, <1>9, <2>1 DEF ToCopy
  <2>3. LiveAt(flash[src].log) \subseteq Nat
    BY <1>3, LiveType
  <2>4. n \in ToCopy
    BY <1>1, <1>2, <2>3, LeastOfIsLeast DEF ToCopy
  <2>5. i \in Nat /\ n >= gc.i
    BY <2>2, <2>3, <2>4 DEF ToCopy
  <2>6. i \in ToCopy
    BY <1>1, <1>3, <1>4, <2>2, <2>5 DEF ToCopy
  <2> QED BY <1>4, <1>7, <2>1, <2>2, <2>6
<1>10. Between'
  <2>1. gc'.d = LogEnd(flash'[dst].log)
    BY <1>3, <1>5, <1>6, <1>7
  <2> QED BY <1>2, <1>7, <1>9, <2>1 DEF Between
<1>11. AppendsNone
  BY <1>6 DEF AppendsNone
<1> QED BY <1>2, <1>6, <1>8, <1>10, <1>11 DEF LayoutInv
-----------------------------------------------------------------------------
(* Collecting, and giving sectors up *)

LEMMA ActivateLayout ==
    ASSUME IInv, OrderInv, LayoutInv, StoreType', OrderInv',
           RequestIdle \/ GcStart \/ CheckGcStart
    PROVE  LayoutInv' /\ AppendsNone
<1>1. /\ StoreType /\ ListsOK /\ Activate /\ pc \in {"write", "recgc"}
      /\ pc' \in {"write", "gcinit", "gcmark", "gccopy"}
      /\ pc' \in {"gcmark", "gccopy"} => gc'.dst = Head(idle) /\ gc'.d = 0
      /\ pc' = "gccopy" => CheckGcStart /\ ram'[Head(idle)].st # "uninit"
  BY DEF RequestIdle, GcStart, CheckGcStart, NeedSector, IInv, TypeOK
<1>2. idle # <<>>
  <2>1. CASE CheckGcStart
    BY <2>1 DEF CheckGcStart
  <2>2. CASE RequestIdle \/ GcStart
    BY <2>2 DEF RequestIdle, GcStart, NeedSector, OrderInv, Reserve
  <2> QED BY <2>1, <2>2
<1>3. \A t \in Sector : Settled(t)
  BY <1>1, <1>2, ActivateSettles
<1>4. /\ AppendsNone
      /\ \A t \in Sector : Packed(flash[t].log)'
      /\ \A t \in Sector : IsUsed(ram'[t].st) => NextFree(t)'
  BY <1>1, <1>3, LayoutFrame
<1>5. pc' # "gccopy"
  <2> SUFFICES ASSUME pc' = "gccopy" PROVE FALSE
    OBVIOUS
  <2>1. PICK s : s = Head(idle)
    OBVIOUS
  <2>2. /\ pc = "recgc" /\ Recovering /\ (\E d \in Range(active) : ram[d].st = "deleting")
        /\ Headers /\ Placing
    BY <1>1 DEF CheckGcStart, IInv, Recovering, OrderInv
  <2>3. ~ Fresh(Cur)
    <3>1. \E d \in Sector : IsDeleting(d)
      BY <2>2 DEF Headers, IInv, ListsOK
    <3> QED BY <2>2, <3>1 DEF Placing
  <2>4. Fresh(s)'
    BY <1>1, <1>2, <2>1, <2>2, <2>3, ActivateOrder
  <2> QED BY <1>1, <2>1, <2>4 DEF Fresh
<1>6. pc' = "gcmark" => gc'.d = LogEnd(flash'[gc'.dst].log)
  BY <1>1, PackedEmpty DEF OrderInv, Collecting
<1>7. Between'
  BY <1>1, <1>5, <1>6 DEF Between
<1> QED BY <1>4, <1>7 DEF LayoutInv

LEMMA GcInitLayout ==
    ASSUME IInv, OrderInv, LayoutInv, StoreType', ControlType', GcInit
    PROVE  LayoutInv' /\ AppendsNone
<1>1. /\ StoreType /\ ControlType /\ FlashOrder /\ Agree /\ pc = "gcinit"
      /\ gc.dst \in Sector /\ gc.src \in Sector /\ Fresh(gc.dst) /\ gc.d = 0
      /\ InitSector(gc.dst) /\ UNCHANGED gc /\ pc' \in {"gcmark", "gccopy"}
  BY DEF GcInit, IInv, TypeOK, ControlType, OrderInv, Collecting
<1>2. (\A t \in Sector : Settled(t)) /\ flash'[gc.dst].log = <<>>
  BY <1>1, InitSettles
<1>3. /\ AppendsNone
      /\ \A t \in Sector : Packed(flash[t].log)'
      /\ \A t \in Sector : IsUsed(ram'[t].st) => NextFree(t)'
  BY <1>1, <1>2, LayoutFrame
<1>4. ASSUME NEW i \in ToCopy' PROVE gc'.d <= flash'[gc'.src].log[i].at
  <2>1. PICK log : log = flash'[gc.src].log
    OBVIOUS
  <2>2. log \in Seq(Item) /\ i \in DOMAIN log
    BY <1>1, <1>4, <2>1 DEF ToCopy, LiveAt, StoreType, FlashSector
  <2>3. log[i].at \in Nat
    BY <2>2, ItemNumbers
  <2> QED BY <1>1, <2>1, <2>3
<1>5. Between'
  BY <1>1, <1>2, <1>4, PackedEmpty DEF Between
<1> QED BY <1>3, <1>5 DEF LayoutInv

LEMMA GcMarkLayout ==
    ASSUME IInv, OrderInv, LayoutInv, StoreType', GcMark
    PROVE  LayoutInv' /\ AppendsNone
<1>1. PICK src : src = gc.src
  OBVIOUS
<1>2. /\ StoreType /\ Agree /\ pc = "gcmark" /\ pc' = "gccopy"
      /\ gc.dst \in Sector /\ src \in Sector /\ src \in Range(active) /\ src # gc.dst
      /\ gc.dst = Cur /\ SetState(src, "deleting") /\ UNCHANGED <<gc, active>>
      /\ flash[gc.dst].log = <<>> /\ gc.d = 0
  BY <1>1 DEF GcMark, IInv, TypeOK, ControlType, OrderInv, Collecting, InGc, GcSet
<1>3. IsUsed(ram[src].st)
  BY <1>2 DEF Agree, Used, IsUsed
<1>4. \A t \in Sector : Settled(t)
  BY <1>2, <1>3, StateSettles
<1>5. /\ AppendsNone
      /\ \A t \in Sector : Packed(flash[t].log)'
      /\ \A t \in Sector : IsUsed(ram'[t].st) => NextFree(t)'
  BY <1>2, <1>4, LayoutFrame
<1>6. \A t \in Sector : flash'[t].log = flash[t].log
  BY <1>2, StateFrame
<1>7. ASSUME NEW i \in ToCopy' PROVE gc'.d <= flash'[gc'.src].log[i].at
  <2>1. PICK log : log = flash'[src].log
    OBVIOUS
  <2>2. log \in Seq(Item) /\ i \in DOMAIN log
    BY <1>1, <1>2, <1>7, <2>1 DEF ToCopy, LiveAt, StoreType, FlashSector
  <2>3. log[i].at \in Nat
    BY <2>2, ItemNumbers
  <2> QED BY <1>1, <1>2, <2>1, <2>3
<1>8. Between'
  BY <1>2, <1>6, <1>7, PackedEmpty DEF Between
<1> QED BY <1>5, <1>8 DEF LayoutInv

LEMMA GiveUpLayout ==
    ASSUME IInv, OrderInv, LayoutInv, StoreType',
           GcCrash \/ GcErase \/ CheckGcWipe \/ CheckGcErase
    PROVE  LayoutInv' /\ AppendsNone
<1>1. StoreType /\ gc.src \in Sector /\ pc \notin {"off", "data", "gcdata"}
  BY DEF IInv, TypeOK, ControlType, GcCrash, GcErase, CheckGcWipe, CheckGcErase
<1>2. Cur \in Sector
  BY <1>1, CurActive DEF IInv
<1>3. \E s \in Sector : SetState(s, "crash") \/ EraseToIdle(s)
  BY <1>1, <1>2 DEF GcCrash, GcErase, CheckGcWipe, CheckGcErase
<1>4. \A t \in Sector : Settled(t)
  BY <1>1, <1>3, StateSettles, EraseSettles DEF IsUsed
<1>5. pc' \in {"gcerase", "finish", "write", "recerase", "recgc"}
  BY DEF GcCrash, GcErase, CheckGcWipe, CheckGcErase
<1> QED BY <1>1, <1>4, <1>5, FrameLayout

LEMMA WriteInitLayout ==
    ASSUME IInv, OrderInv, LayoutInv, StoreType', WriteInit
    PROVE  LayoutInv' /\ AppendsNone
<1>1. /\ StoreType /\ FlashOrder /\ Agree /\ Cur \in Sector /\ Fresh(Cur) /\ InitSector(Cur)
      /\ pc = "write" /\ pc' = "write"
  BY CurActive DEF WriteInit, IInv, TypeOK, OrderInv, Fresh
<1>2. PICK c \in Sector : c = Cur
  BY <1>1
<1>3. \A t \in Sector : Settled(t)
  BY <1>1, <1>2, InitSettles
<1> QED BY <1>1, <1>3, FrameLayout

-----------------------------------------------------------------------------
(* Starting, and power failure *)

LEMMA LoadLayouts ==
    ASSUME IInv, LayoutInv, StoreType', Load
    PROVE  LayoutInv' /\ AppendsNone
<1>1. /\ StoreType /\ flash \in [Sector -> FlashSector] /\ pc' = "checkwrite"
  BY DEF Load, IInv, TypeOK, StoreType
<1>2. ASSUME NEW s \in Sector
      PROVE  /\ flash'[s] \in {Blank, LoadFlash(flash[s])}
             /\ IsUsed(ram'[s].st) =>
                   flash'[s] = LoadFlash(flash[s]) /\ ram'[s] = LoadRam(flash[s])
  <2>1. \/ /\ flash' = [t \in Sector |-> LoadFlash(flash[t])]
           /\ ram' = [t \in Sector |-> LoadRam(flash[t])]
        \/ \E h : /\ flash' \in {[[t \in Sector |-> LoadFlash(flash[t])] EXCEPT ![h] = Blank],
                                  [t \in Sector |-> LoadFlash(flash[t])]}
                 /\ ram' = [[t \in Sector |-> LoadRam(flash[t])]
                                EXCEPT ![h] = [Unloaded EXCEPT !.sn = 1]]
                 /\ \A t \in Sector : ~ IsUsed(LoadStatus(flash[t]))
    BY DEF Load
  <2>2. LoadRam(flash[s]).st = LoadStatus(flash[s])
    BY <1>1, LoadRamType
  <2>3. ~ IsUsed([Unloaded EXCEPT !.sn = 1].st)
    BY DEF Unloaded, IsUsed
  <2> QED BY <2>1, <2>2, <2>3
<1>3. ASSUME NEW s \in Sector
      PROVE  /\ Packed(flash[s].log)' /\ Len(flash'[s].log) <= Len(flash[s].log)
             /\ IsUsed(ram'[s].st) => NextFree(s)'
  <2>1. PICK log, new, f : log = flash[s].log /\ f = LoadFlash(flash[s]) /\ new = f.log
    OBVIOUS
  <2>2. /\ log \in Seq(Item) /\ new \in Seq(Item) /\ SameLayout(log, new) /\ Packed(log)
        /\ Len(log) \in Nat
    BY <1>1, <2>1, LoadFlashType, LoadLayout, ItemNumbers DEF FlashSector, LayoutInv
  <2>3. Packed(new) /\ LogEnd(new) = LogEnd(log) /\ Len(new) = Len(log)
    BY <2>2, PackedSame
  <2>4. Packed(flash[s].log)' /\ Len(flash'[s].log) <= Len(flash[s].log)
    <3>1. CASE flash'[s] = f
      BY <2>1, <2>2, <2>3, <3>1
    <3>2. CASE flash'[s] = Blank
      BY <2>1, <2>2, <3>2, PackedEmpty DEF Blank
    <3> QED BY <1>2, <2>1, <3>1, <3>2
  <2>5. ASSUME IsUsed(ram'[s].st) PROVE NextFree(s)'
    <3>1. flash'[s] = f /\ ram'[s] = LoadRam(flash[s])
      BY <1>2, <2>1, <2>5
    <3>2. LoadRam(flash[s]).st = LoadStatus(flash[s])
      BY <1>1, LoadRamType
    <3>3. LoadRam(flash[s]).next = LogEnd(log) \/ LoadRam(flash[s]).next >= Slices
      BY <1>1, <2>1, <2>5, <3>1, <3>2, LoadNext
    <3> QED BY <2>1, <2>3, <3>1, <3>3 DEF NextFree
  <2> QED BY <2>4, <2>5
<1> QED BY <1>1, <1>3 DEF LayoutInv, Between, AppendsNone

\* A header that is cut short is an item that is not live.
LEMMA TornLayout ==
    ASSUME StoreType, LayoutInv, NEW s \in Range(active), s \in Sector, flash[s].hdr = "using",
           NEW it \in Item, it.at = LogEnd(flash[s].log), it.span >= 1,
           NEW f \in HeaderTorn(flash[s], it), flash' = [flash EXCEPT ![s] = f]
    PROVE  (\A t \in Sector : Packed(flash[t].log)') /\ InPlace
<1>1. /\ flash \in [Sector -> FlashSector] /\ flash[s] \in FlashSector
      /\ \A t \in Sector : Len(flash[t].log) \in Nat
  BY SectorTypes DEF StoreType
<1>2. flash'[s] = f /\ \A t \in Sector \ {s} : flash'[t] = flash[t]
  BY <1>1
<1>3. CASE f = flash[s]
  BY <1>1, <1>2, <1>3 DEF LayoutInv, InPlace
<1>4. CASE f # flash[s]
  <2>1. PICK sp \in {it.span, LostSpan} :
          f = [flash[s] EXCEPT !.log = Append(@, [HeaderWritten(flash[s], it) EXCEPT
                                     !.st = IF @ = "droped" THEN @ ELSE "torn",
                                     !.span = sp])]
    BY <1>4 DEF HeaderTorn
  <2>2. PICK h : h = [HeaderWritten(flash[s], it) EXCEPT
                        !.st = IF @ = "droped" THEN @ ELSE "torn", !.span = sp]
    OBVIOUS
  <2>3. sp \in Nat /\ sp >= 1
    BY SlicesAssumption DEF LostSpan, Item
  <2>4. HeaderWritten(flash[s], it) \in Item /\ HeaderWritten(flash[s], it).at = it.at
    BY <1>1, HeaderWrittenType
  <2>5. h \in Item /\ h.at = it.at /\ h.span >= 1 /\ h.st \in {"torn", "droped"}
    BY <2>2, <2>3, <2>4 DEF Item, ItemStatus
  <2>6. PICK log, new : log = flash[s].log /\ new = Append(log, h)
    OBVIOUS
  <2>7. log \in Seq(Item) /\ Packed(log) /\ h.at = LogEnd(log) /\ ~ IsLive(h)
    BY <1>1, <2>5, <2>6 DEF FlashSector, LayoutInv, IsLive
  <2>8. Packed(new) /\ Last(new) = h
    BY <2>5, <2>6, <2>7, PackedAppend
  <2>9. flash'[s].log = new
    BY <1>1, <1>2, <2>1, <2>2, <2>6 DEF FlashSector
  <2>10. PlacedIn(s)
    BY <2>5, <2>6, <2>7, <2>8, <2>9 DEF PlacedIn, Last
  <2>11. InPlace
    BY <1>1, <1>2, <2>10 DEF InPlace
  <2> QED BY <1>2, <2>8, <2>9, <2>11 DEF LayoutInv
<1> QED BY <1>3, <1>4

\* Power fails within the programming of a sector header.
LEMMA TornHeader ==
    ASSUME flash \in [Sector -> FlashSector], NEW s \in Sector,
           flash' \in {flash, [flash EXCEPT ![s].hdr = "crash"]}
    PROVE  \A t \in Sector : flash'[t].log = flash[t].log
<1>1. CASE flash' = flash
  BY <1>1
<1>2. CASE flash' = [flash EXCEPT ![s].hdr = "crash"]
  <2>1. \A t \in Sector \ {s} : flash'[t] = flash[t]
    BY <1>2
  <2>2. flash'[s] = [flash[s] EXCEPT !.hdr = "crash"] /\ flash[s] \in FlashSector
    BY <1>2
  <2>3. flash'[s].log = flash[s].log
    BY <2>2 DEF FlashSector
  <2> QED BY <2>1, <2>3
<1> QED BY <1>1, <1>2

LEMMA PowerOffLayout ==
    ASSUME IInv, OrderInv, LayoutInv, PowerOff
    PROVE  LayoutInv' /\ InPlace
<1>1. /\ StoreType /\ ControlType /\ ListsOK /\ Agree /\ Headers
      /\ pc # "off" /\ flash' \in Torn /\ (Calling => OpSet)
      /\ flash \in [Sector -> FlashSector] /\ ram \in [Sector -> RamSector]
  BY DEF PowerOff, IInv, TypeOK, OrderInv, StoreType
<1>2. Cur \in Sector /\ Cur \in Range(active) /\ gc.dst \in Sector
  BY <1>1, CurActive DEF ControlType
<1>3. PICK c, dst : c = Cur /\ dst = gc.dst
  OBVIOUS
<1>4. \A t \in Sector : Len(flash[t].log) \in Nat
  BY <1>1, SectorTypes
<1> SUFFICES (\A t \in Sector : Packed(flash[t].log)') /\ InPlace
  <2>1. pc' = "off" /\ \A t \in Sector : ~ IsUsed(ram'[t].st)
    BY DEF PowerOff, Unloaded, IsUsed
  <2> QED BY <2>1 DEF LayoutInv, Between
<1>5. ASSUME \A t \in Sector : flash'[t].log = flash[t].log
      PROVE  (\A t \in Sector : Packed(flash[t].log)') /\ InPlace
  BY <1>4, <1>5 DEF LayoutInv, InPlace
<1>6. CASE pc = "write" /\ ram[Cur].st = "uninit"
  <2>1. flash' \in {flash, [flash EXCEPT ![Cur].hdr = "crash"]}
    BY <1>1, <1>6 DEF Torn, CanWrite
  <2>2. \A t \in Sector : flash'[t].log = flash[t].log
    BY <1>1, <1>2, <2>1, TornHeader
  <2> QED BY <1>5, <2>2
<1>7. CASE CanWrite
  <2>1. PICK it : it = NewItem(ram[c].next, op.k, op.v)
    OBVIOUS
  <2>2. /\ pc = "write" /\ ~ Fresh(c) /\ HasRoom(ram[c], SpanOf[op.v]) /\ OpSet
        /\ ram[c].next \in Nat
    BY <1>1, <1>2, <1>3, <1>7 DEF CanWrite, Fresh, Calling, RamSector
  <2>3. flash[c].hdr = "using" /\ IsUsed(ram[c].st)
    BY <1>1, <1>2, <1>3, <2>2, WritesInUse DEF Headers, IsDeleting, Used, IsUsed, Agree
  <2>4. SpanOf[op.v] \in Nat \ {0} /\ Slices \in Nat
    BY <2>2, SpanAssumption, SlicesAssumption DEF OpSet
  <2>5. it \in Item /\ it.at = ram[c].next /\ it.span = SpanOf[op.v]
    <3>1. NewItem(ram[c].next, op.k, op.v) \in Item
      BY <2>2, NewItemType DEF OpSet
    <3> QED BY <2>1, <3>1 DEF NewItem
  <2>6. it.at = LogEnd(flash[c].log) /\ it.span >= 1
    <3>1. ram[c].next + SpanOf[op.v] <= Slices
      BY <2>2 DEF HasRoom
    <3>2. ram[c].next = LogEnd(flash[c].log) \/ ram[c].next >= Slices
      BY <1>2, <1>3, <2>2, <2>3 DEF LayoutInv, NextFree
    <3> QED BY <2>2, <2>4, <2>5, <3>1, <3>2
  <2>7. PICK f \in HeaderTorn(flash[c], it) : flash' = [flash EXCEPT ![c] = f]
    BY <1>1, <1>3, <1>7, <2>1 DEF Torn, CanWrite
  <2> QED BY <1>1, <1>2, <1>3, <2>3, <2>5, <2>6, <2>7, TornLayout
<1>8. CASE pc = "gcinit"
  <2>1. flash' \in {flash, [flash EXCEPT ![dst].hdr = "crash"]}
    BY <1>1, <1>3, <1>8 DEF Torn, CanWrite
  <2>2. \A t \in Sector : flash'[t].log = flash[t].log
    BY <1>1, <1>2, <1>3, <2>1, TornHeader
  <2> QED BY <1>5, <2>2
<1>9. CASE pc = "gccopy" /\ ToCopy # {}
  <2>1. PICK it : it = Copied
    OBVIOUS
  <2>2. dst \in Range(active) /\ flash[dst].hdr = "using"
    BY <1>3, <1>9, CopyPlaces
  <2>3. it \in Item /\ it.span >= 1 /\ it.at = gc.d
    BY <1>1, <1>9, <2>1, CopiedType, CopyFits
  <2>4. gc.d = LogEnd(flash[dst].log)
    BY <1>3, <1>9 DEF LayoutInv, Between
  <2>5. PICK f \in HeaderTorn(flash[dst], it) : flash' = [flash EXCEPT ![dst] = f]
    BY <1>1, <1>3, <1>9, <2>1 DEF Torn, CanWrite
  <2> QED BY <1>1, <1>2, <1>3, <2>2, <2>3, <2>4, <2>5, TornLayout
<1>10. CASE ~ (pc = "write" /\ ram[Cur].st = "uninit") /\ ~ CanWrite /\ pc # "gcinit"
            /\ ~ (pc = "gccopy" /\ ToCopy # {})
  <2>1. flash' = flash
    BY <1>1, <1>10 DEF Torn
  <2> QED BY <1>5, <2>1
<1> QED BY <1>6, <1>7, <1>8, <1>9, <1>10

-----------------------------------------------------------------------------
(* The theorems *)

LEMMA InitLayout ==
    ASSUME Init
    PROVE  LayoutInv
<1>1. \A s \in Sector : flash[s].log = <<>> /\ ram[s].st = "uninit"
  BY DEF Init, Blank, Unloaded
<1> QED BY <1>1, PackedEmpty DEF Init, LayoutInv, Between, IsUsed

\* Every step keeps the layout, and appends where it should.
LEMMA StepLayout ==
    ASSUME IInv, OrderInv, LayoutInv, IInv', OrderInv', [Next]_vars
    PROVE  LayoutInv' /\ InPlace
<1>1. StoreType /\ StoreType' /\ ControlType'
  BY DEF IInv, TypeOK
<1>2. SUFFICES LayoutInv' /\ (AppendsNone \/ InPlace)
  BY <1>1, NoneInPlace
<1>3. CASE UNCHANGED vars
  BY <1>1, <1>3, StutterLayout
<1>4. CASE PowerOff
  BY <1>4, PowerOffLayout
<1>5. CASE \/ Unload \/ WriteTooLong \/ WriteFull \/ RequestNoSpace
           \/ CheckWriteNothing \/ CheckGcNothing \/ CheckGcKeep \/ LoadFinish
  <2>1. /\ pc \notin {"data", "gcdata"} /\ pc' \notin {"data", "gcdata", "gcmark", "gccopy"}
        /\ UNCHANGED flash /\ (UNCHANGED ram \/ ram' = [s \in Sector |-> Unloaded])
    BY <1>5 DEF Unload, WriteTooLong, WriteFull, RequestNoSpace, NeedSector, CheckWriteNothing,
                CheckGcNothing, CheckGcKeep, LoadFinish, Return, loaded
  <2> QED BY <1>1, <2>1, QuietLayout
<1>6. CASE Call
  <2>1. ASSUME NEW k \in Keys, NEW v \in Values, SetSame(k, v) \/ SetBegin(k, v)
        PROVE  LayoutInv' /\ AppendsNone
    <3>1. UNCHANGED <<flash, ram>> /\ pc = "ready" /\ pc' \in {"ready", "write"}
      BY <2>1 DEF SetSame, SetBegin, loaded
    <3> QED BY <1>1, <3>1, QuietLayout
  <2>2. ASSUME NEW k \in Keys, Delete(k) PROVE LayoutInv' /\ AppendsNone
    <3>1. PICK f : f = FindItem(k, Types)
      OBVIOUS
    <3>2. /\ pc = "ready" /\ pc' = "ready" /\ f.sec \in Sector
          /\ DropItem(f.sec, FoundItem(f).at, FoundItem(f).span)
      BY <1>1, <2>2, <3>1, FindItemType DEF Delete
    <3> QED BY <1>1, <3>2, DropLayout
  <2>3. ASSUME NEW k, NEW t, Get(k, t) PROVE LayoutInv' /\ AppendsNone
    BY <1>1, <2>3, StutterLayout DEF Get
  <2> QED BY <1>6, <2>1, <2>2, <2>3 DEF Call
<1>7. CASE EraseOld
  <2>1. /\ pc = "eraseold" /\ pc' = "ready" /\ op.sec \in Sector
        /\ DropItem(op.sec, op.at, SpanOf[op.old]) \/ UNCHANGED <<flash, ram>>
    BY <1>7 DEF EraseOld, Return, IInv, TypeOK, ControlType
  <2> QED BY <1>1, <2>1, DropLayout, QuietLayout
<1>8. CASE CheckWriteData
  <2>1. /\ pc = "checkwrite" /\ pc' = "checkgc"
        /\ DropItem(Cur, flash[Cur].log[LastItem].at, flash[Cur].log[LastItem].span)
    BY <1>8 DEF CheckWriteData
  <2>2. Cur \in Sector
    BY <2>1, CurActive DEF IInv, TypeOK
  <2> QED BY <1>1, <2>1, <2>2, DropLayout
<1>9. CASE CheckWriteOld
  <2>1. pc = "checkwrite" /\ pc' = "checkgc"
    BY <1>9 DEF CheckWriteOld
  <2>2. PICK o \in OldCopies :
           DropItem(o.sec, flash[o.sec].log[o.i].at, flash[o.sec].log[o.i].span)
    BY <1>9 DEF CheckWriteOld
  <2>3. o.sec \in Sector
    <3>1. \E n \in DOMAIN active : o.sec = active[n]
      BY DEF OldCopies
    <3> QED BY <2>1, <3>1 DEF IInv, TypeOK, StoreType
  <2> QED BY <1>1, <2>1, <2>2, <2>3, DropLayout
<1>10. CASE WriteInit \/ WriteItem \/ WriteItemData \/ Load
  BY <1>1, <1>10, WriteInitLayout, WriteItemLayout, WriteItemDataLayout, LoadLayouts
<1>11. CASE RequestIdle \/ GcStart \/ CheckGcStart \/ GcInit \/ GcMark
  BY <1>1, <1>11, ActivateLayout, GcInitLayout, GcMarkLayout
<1>12. CASE GcCopy \/ GcCopyData
  BY <1>1, <1>12, GcCopyLayout, GcCopyDataLayout
<1>13. CASE GcCrash \/ GcErase \/ CheckGcWipe \/ CheckGcErase
  BY <1>1, <1>13, GiveUpLayout
<1> QED BY <1>3, <1>4, <1>5, <1>6, <1>7, <1>8, <1>9, <1>10, <1>11, <1>12, <1>13
        DEF Next, Step

\* In every sector the items lie one behind the other, and what RAM takes for the first
\* free slice is none of theirs.
THEOREM LayoutHolds == Spec => []LayoutInv
<1>1. Init => LayoutInv
  BY InitLayout
<1>2. IInv /\ OrderInv /\ LayoutInv /\ IInv' /\ OrderInv' /\ [Next]_vars => LayoutInv'
  BY StepLayout
<1> QED BY <1>1, <1>2, InvariantHolds, OrderHolds, PTL DEF Spec

\* No slice is programmed twice between two erasures: an item, whole or cut short, goes
\* right behind the last one of an active sector in use, and a whole one stays inside it.
THEOREM ItemsAreAppended == Spec => AppendsInPlace
<1>1. IInv /\ OrderInv /\ LayoutInv /\ IInv' /\ OrderInv' /\ [Next]_vars => [InPlace]_vars
  BY StepLayout
<1>2. (Spec => [][InPlace]_vars) => (Spec => AppendsInPlace)
  BY DEF InPlace, PlacedIn, AppendsInPlace
<1> QED BY <1>1, <1>2, InvariantHolds, OrderHolds, LayoutHolds, PTL DEF Spec
=============================================================================
