------------------------- MODULE JekvStoreCounters -------------------------
(***************************************************************************)
(* For partitions of every size, every set of keys and values and any      *)
(* number of power failures: the slice counters of a sector fit the items  *)
(* that lie in it.  And before the first power failure: what collection    *)
(* believes it can reclaim is what it can, so an item for which a sector   *)
(* is collected fits in, and JEKV_ERR_NO_SPACE is the truth.               *)
(***************************************************************************)
EXTENDS JekvStoreContents

-----------------------------------------------------------------------------
(* The slices of a log *)

LEMMA TakenIsFinite ==
    ASSUME NEW log \in Seq(Item), Packed(log), NEW I, I \subseteq DOMAIN log
    PROVE  /\ IsFiniteSet(Taken(log, I)) /\ Cardinality(Taken(log, I)) \in Nat
           /\ \A x \in Taken(log, I) : x \in Int /\ x < LogEnd(log)
<1>1. LogEnd(log) \in Nat /\ \A i \in DOMAIN log : log[i].at \in Nat /\ log[i].span \in Nat
  BY ItemNumbers
<1>2. ASSUME NEW x \in Taken(log, I) PROVE x \in 0 .. LogEnd(log) /\ x < LogEnd(log)
  <2>1. PICK i \in I : x \in log[i].at .. log[i].at + log[i].span - 1
    BY DEF Taken
  <2>2. log[i].at + log[i].span <= LogEnd(log)
    BY PackedEnds
  <2> QED BY <1>1, <2>1, <2>2
<1>3. IsFiniteSet(0 .. LogEnd(log)) /\ Taken(log, I) \in SUBSET (0 .. LogEnd(log))
  BY <1>1, <1>2, FS_Interval
<1>4. IsFiniteSet(Taken(log, I))
  BY <1>3, FS_Subset
<1> QED BY <1>1, <1>2, <1>4, FS_CardinalityType

\* Items of a packed log share no slice.
LEMMA TakenAdds ==
    ASSUME NEW log \in Seq(Item), Packed(log), NEW I, NEW J,
           I \subseteq DOMAIN log, J \subseteq DOMAIN log, I \cap J = {}
    PROVE  Cardinality(Taken(log, I \union J))
              = Cardinality(Taken(log, I)) + Cardinality(Taken(log, J))
<1>1. Taken(log, I \union J) = Taken(log, I) \union Taken(log, J)
  BY DEF Taken
<1>2. Taken(log, I) \cap Taken(log, J) = {}
  <2> SUFFICES ASSUME NEW x, x \in Taken(log, I), x \in Taken(log, J) PROVE FALSE
    OBVIOUS
  <2>1. PICK i \in I : x \in log[i].at .. log[i].at + log[i].span - 1
    BY DEF Taken
  <2>2. PICK j \in J : x \in log[j].at .. log[j].at + log[j].span - 1
    BY DEF Taken
  <2>3. i \in DOMAIN log /\ j \in DOMAIN log /\ i # j
    OBVIOUS
  <2>4. /\ log[i].at \in Nat /\ log[i].span \in Nat /\ log[j].at \in Nat /\ log[j].span \in Nat
        /\ i \in Nat /\ j \in Nat
    BY <2>3, ItemNumbers
  <2>5. \A a, b, c, d \in Nat :
           a + b <= c => ~ (x \in a .. a + b - 1 /\ x \in c .. c + d - 1)
    OBVIOUS
  <2>6. CASE i < j
    <3>1. log[i].at + log[i].span <= log[j].at
      BY <2>3, <2>6 DEF Packed
    <3> QED BY <2>1, <2>2, <2>4, <2>5, <3>1
  <2>7. CASE j < i
    <3>1. log[j].at + log[j].span <= log[i].at
      BY <2>3, <2>7 DEF Packed
    <3> QED BY <2>1, <2>2, <2>4, <2>5, <3>1
  <2> QED BY <2>3, <2>4, <2>6, <2>7
<1>3. /\ IsFiniteSet(Taken(log, I)) /\ Cardinality(Taken(log, I)) \in Nat
      /\ IsFiniteSet(Taken(log, J)) /\ Cardinality(Taken(log, J)) \in Nat
  BY TakenIsFinite
<1>4. Cardinality(Taken(log, I) \union Taken(log, J))
         = Cardinality(Taken(log, I)) + Cardinality(Taken(log, J))
              - Cardinality(Taken(log, I) \cap Taken(log, J))
  BY <1>3, FS_Union
<1>5. Cardinality(Taken(log, I) \cap Taken(log, J)) = 0
  BY <1>2, FS_EmptySet
<1>6. PICK m, n : m = Cardinality(Taken(log, I)) /\ n = Cardinality(Taken(log, J))
  OBVIOUS
<1>7. Cardinality(Taken(log, I) \union Taken(log, J)) = m + n
  <2>1. Cardinality(Taken(log, I) \union Taken(log, J)) = m + n - 0
    BY <1>4, <1>5, <1>6
  <2>2. m \in Nat /\ n \in Nat
    BY <1>3, <1>6
  <2> QED BY <2>1, <2>2
<1> QED BY <1>1, <1>6, <1>7

LEMMA TakenOfOne ==
    ASSUME NEW log \in Seq(Item), Packed(log), NEW i \in DOMAIN log
    PROVE  Cardinality(Taken(log, {i})) = log[i].span
<1>1. log[i].at \in Nat /\ log[i].span \in Nat /\ log[i].span >= 1
  BY ItemNumbers DEF Packed
<1>2. Taken(log, {i}) = log[i].at .. log[i].at + log[i].span - 1
  BY DEF Taken
<1>3. PICK a, b : a = log[i].at /\ b = log[i].at + log[i].span - 1
  OBVIOUS
<1>4. a \in Int /\ b \in Int /\ ~ (a > b) /\ b - a + 1 = log[i].span
  BY <1>1, <1>3
<1>5. Cardinality(a .. b) = b - a + 1
  BY <1>4, FS_Interval
<1> QED BY <1>2, <1>3, <1>4, <1>5

LEMMA TakenWithout ==
    ASSUME NEW log \in Seq(Item), Packed(log), NEW I, I \subseteq DOMAIN log, NEW i \in I
    PROVE  /\ Cardinality(Taken(log, I)) = Cardinality(Taken(log, I \ {i})) + log[i].span
           /\ Cardinality(Taken(log, I)) \in Nat /\ Cardinality(Taken(log, I \ {i})) \in Nat
<1>1. PICK J : J = I \ {i}
  OBVIOUS
<1>2. J \subseteq DOMAIN log /\ {i} \subseteq DOMAIN log /\ J \cap {i} = {} /\ J \union {i} = I
  BY <1>1
<1>3. Cardinality(Taken(log, J \union {i}))
         = Cardinality(Taken(log, J)) + Cardinality(Taken(log, {i}))
  BY <1>2, TakenAdds
<1>4. Cardinality(Taken(log, {i})) = log[i].span
  BY TakenOfOne
<1>5. Cardinality(Taken(log, J)) \in Nat /\ Cardinality(Taken(log, I)) \in Nat
  BY <1>2, TakenIsFinite
<1> QED BY <1>1, <1>2, <1>3, <1>4, <1>5

\* The positions whose items have one of the given statuses.
With(log, sts) == {j \in DOMAIN log : log[j].st \in sts}

LEMMA SizeIsTaken ==
    ASSUME NEW log, NEW sts
    PROVE  Size(log, sts) = Cardinality(Taken(log, With(log, sts)))
BY DEF Size, Covered, Taken, With

LEMMA SizeOfNone ==
    ASSUME NEW sts PROVE Size(<<>>, sts) = 0
<1>1. Covered(<<>>, sts) = {}
  BY DEF Covered
<1> QED BY <1>1, FS_EmptySet DEF Size

LEMMA SizeNat ==
    ASSUME NEW log \in Seq(Item), NEW sts
    PROVE  Size(log, sts) \in Nat
<1>1. \A e \in Item : e.at \in Nat /\ e.span \in Nat
  BY DEF Item
<1> QED BY <1>1, SizeIsNat

LEMMA SizeSplits ==
    ASSUME NEW log \in Seq(Item), Packed(log), NEW A, NEW B, A \cap B = {}
    PROVE  Size(log, A \union B) = Size(log, A) + Size(log, B)
<1>1. /\ With(log, A \union B) = With(log, A) \union With(log, B)
      /\ With(log, A) \cap With(log, B) = {}
      /\ With(log, A) \subseteq DOMAIN log /\ With(log, B) \subseteq DOMAIN log
  BY DEF With
<1>2. PICK I, J : I = With(log, A) /\ J = With(log, B)
  OBVIOUS
<1>3. Cardinality(Taken(log, I \union J))
         = Cardinality(Taken(log, I)) + Cardinality(Taken(log, J))
  BY <1>1, <1>2, TakenAdds
<1> QED BY <1>1, <1>2, <1>3, SizeIsTaken

\* The size depends on where the items lie and which of them count.
LEMMA SizeSame ==
    ASSUME NEW log, NEW new, NEW A, NEW B, With(log, A) = With(new, B),
           \A i \in With(log, A) : new[i].at = log[i].at /\ new[i].span = log[i].span
    PROVE  Size(new, B) = Size(log, A)
<1>1. PICK I : I = With(log, A)
  OBVIOUS
<1>2. Taken(new, I) = Taken(log, I)
  BY <1>1 DEF Taken
<1> QED BY <1>1, <1>2, SizeIsTaken

\* An item behind the last one, which need not be one of the log's: Scanned adds another.
LEMMA SizeGrows ==
    ASSUME NEW log \in Seq(Item), Packed(log), NEW it, it.at = LogEnd(log),
           it.span \in Nat \ {0}, NEW sts
    PROVE  /\ Size(Append(log, it), sts)
                 = Size(log, sts) + (IF it.st \in sts THEN it.span ELSE 0)
           /\ LogEnd(Append(log, it)) = LogEnd(log) + it.span
<1> DEFINE new == Append(log, it)
           n == Len(log) + 1
<1>1. PICK S : log \in Seq(S) /\ it \in S
  <2>1. log \in Seq(Item \union {it}) /\ it \in Item \union {it}
    BY SeqMonotonic
  <2> QED BY <2>1
<1>2. /\ Len(new) = n /\ new[n] = it /\ n \in Nat
      /\ \A i \in DOMAIN log : new[i] = log[i] /\ i # n
      /\ DOMAIN new = DOMAIN log \union {n} /\ new # <<>>
  <2>1. /\ new \in Seq(S) /\ Len(new) = n /\ new[n] = it /\ n \in Nat /\ new # <<>>
        /\ \A i \in 1 .. Len(log) : new[i] = log[i]
        /\ DOMAIN new = 1 .. n /\ DOMAIN log = 1 .. Len(log) /\ Len(log) \in Nat
    BY <1>1
  <2> QED BY <2>1
<1>3. PICK I : I = With(log, sts)
  OBVIOUS
<1>4. I \subseteq DOMAIN log /\ Taken(new, I) = Taken(log, I)
  BY <1>2, <1>3 DEF Taken, With
<1>5. /\ IsFiniteSet(Taken(log, I)) /\ Cardinality(Taken(log, I)) \in Nat
      /\ \A x \in Taken(log, I) : x \in Int /\ x < LogEnd(log)
  BY <1>4, TakenIsFinite
<1>6. LogEnd(new) = LogEnd(log) + it.span
  BY <1>2 DEF LogEnd
<1>7. LogEnd(log) \in Nat
  BY ItemNumbers
<1>8. CASE it.st \notin sts
  <2>1. With(new, sts) = I
    BY <1>2, <1>3, <1>8 DEF With
  <2>2. Size(new, sts) = Size(log, sts)
    BY <1>3, <1>4, <2>1, SizeIsTaken
  <2>3. Size(log, sts) \in Nat
    BY SizeNat
  <2> QED BY <1>6, <1>8, <2>2, <2>3
<1>9. CASE it.st \in sts
  <2>1. With(new, sts) = I \union {n}
    BY <1>2, <1>3, <1>9 DEF With
  <2>2. PICK R : R = LogEnd(log) .. LogEnd(log) + it.span - 1
    OBVIOUS
  <2>3. Taken(new, {n}) = R
    BY <1>2, <2>2 DEF Taken
  <2>4. Taken(new, I \union {n}) = Taken(log, I) \union R
    <3>1. Taken(new, I \union {n}) = Taken(new, I) \union Taken(new, {n})
      BY DEF Taken
    <3> QED BY <1>4, <2>3, <3>1
  <2>5. Taken(log, I) \cap R = {}
    BY <1>5, <1>7, <2>2
  <2>6. IsFiniteSet(R) /\ Cardinality(R) = it.span
    <3>1. PICK a, b : a = LogEnd(log) /\ b = LogEnd(log) + it.span - 1
      OBVIOUS
    <3>2. a \in Int /\ b \in Int /\ ~ (a > b) /\ b - a + 1 = it.span
      BY <1>7, <3>1
    <3>3. IsFiniteSet(a .. b) /\ Cardinality(a .. b) = b - a + 1
      BY <3>2, FS_Interval
    <3> QED BY <2>2, <3>1, <3>2, <3>3
  <2>7. Cardinality(Taken(log, I) \union R)
           = Cardinality(Taken(log, I)) + Cardinality(R) - Cardinality(Taken(log, I) \cap R)
    BY <1>5, <2>6, FS_Union
  <2>8. Cardinality(Taken(log, I) \cap R) = 0
    BY <2>5, FS_EmptySet
  <2>9. Cardinality(Taken(log, I) \union R) = Cardinality(Taken(log, I)) + it.span
    BY <1>5, <2>6, <2>7, <2>8
  <2> QED BY <1>3, <1>6, <1>9, <2>1, <2>4, <2>9, SizeIsTaken
<1> QED BY <1>8, <1>9

-----------------------------------------------------------------------------
(* Steps that program no item *)

\* The part of CountInv that is about one sector after the other.
Tally ==
    /\ \A s \in Sector : LogCounted(s) /\ Exact(s)
    /\ lost = {} => \A s \in Sector : flash[s].stale = {}
    /\ crashes = 0 => \A s \in Sector : Undisturbed(s)

\* And the part that is about the running call.
Room == crashes = 0 => NothingToRecover /\ CopyLeavesRoom

LEMMA CountInvIs == CountInv <=> Tally /\ Room
BY DEF CountInv, Tally, Room

LEMMA CountInvIsNext == CountInv' <=> Tally' /\ Room'
BY CountInvIs, PTL

\* What such a step does to a sector: nothing that counts, or it empties it.
Calm(s) ==
    /\ flash'[s].log = <<>> \/ flash'[s].log = flash[s].log
    /\ flash'[s].stale = {} \/ flash'[s].stale = flash[s].stale
    /\ IsUsed(ram'[s].st) =>
          \/ /\ flash'[s].log = <<>>
             /\ ram'[s].next = 0 /\ ram'[s].used = 0 /\ ram'[s].droped = 0
          \/ /\ flash'[s].log = flash[s].log /\ flash'[s].stale = flash[s].stale
             /\ IsUsed(ram[s].st) /\ ram'[s].next = ram[s].next
             /\ ram'[s].used = ram[s].used /\ ram'[s].droped = ram[s].droped

LEMMA EmptyCounted ==
    /\ Size(<<>>, ItemStatus) = LogEnd(<<>>) /\ LogEnd(<<>>) = 0 /\ 0 < CounterMod
    /\ Size(<<>>, Live) = 0 /\ LiveAt(<<>>) = {} /\ DOMAIN <<>> = {}
    /\ 0 <= Slices /\ ~ (0 > Slices)
BY SizeOfNone, PackedEmpty, SlicesAssumption DEF CounterMod, LiveAt

LEMMA NothingUncounted ==
    ASSUME pc \notin {"data", "gcdata"}
    PROVE  \A s \in Sector : Uncounted(s) = 0
BY DEF Uncounted, Halfway

LEMMA NothingUncountedNext ==
    ASSUME pc' \notin {"data", "gcdata"}
    PROVE  \A s \in Sector : Uncounted(s)' = 0
BY DEF Uncounted, Halfway

LEMMA CalmTally ==
    ASSUME StoreType, Tally, pc \notin {"data", "gcdata"}, pc' \notin {"data", "gcdata"},
           lost \subseteq lost', crashes' = crashes, \A s \in Sector : Calm(s)
    PROVE  Tally'
<1>1. \A s \in Sector : Uncounted(s) = 0 /\ Uncounted(s)' = 0
  BY NothingUncounted, NothingUncountedNext
<1>2. ASSUME NEW s \in Sector PROVE LogCounted(s)'
  <2>1. CASE flash'[s].log = <<>>
    BY <2>1, EmptyCounted DEF LogCounted
  <2>2. CASE flash'[s].log = flash[s].log
    BY <2>2 DEF LogCounted, Tally
  <2> QED BY <2>1, <2>2 DEF Calm
<1>3. ASSUME NEW s \in Sector, IsUsed(ram'[s].st), flash'[s].stale = {}
      PROVE  /\ ram'[s].used + 0 = LogEnd(flash'[s].log)
             /\ ram'[s].next = IF ram'[s].used > Slices THEN Slices ELSE ram'[s].used
  <2>1. CASE /\ flash'[s].log = <<>>
             /\ ram'[s].next = 0 /\ ram'[s].used = 0 /\ ram'[s].droped = 0
    BY <2>1, EmptyCounted
  <2>2. CASE /\ flash'[s].log = flash[s].log /\ flash'[s].stale = flash[s].stale
             /\ IsUsed(ram[s].st) /\ ram'[s].next = ram[s].next
             /\ ram'[s].used = ram[s].used /\ ram'[s].droped = ram[s].droped
    BY <1>1, <1>3, <2>2 DEF Exact, Tally
  <2> QED BY <1>3, <2>1, <2>2 DEF Calm
<1>4. ASSUME NEW s \in Sector PROVE Exact(s)'
  BY <1>1, <1>3 DEF Exact
<1>5. lost' = {} => \A s \in Sector : flash'[s].stale = {}
  BY DEF Tally, Calm
<1>6. ASSUME NEW s \in Sector, crashes' = 0 PROVE Undisturbed(s)'
  <2>1. Undisturbed(s)
    BY <1>6 DEF Tally
  <2>2. (\A i \in DOMAIN flash[s].log : flash[s].log[i].st # "torn")'
    BY <2>1, EmptyCounted DEF Undisturbed, Calm
  <2>3. flash'[s].stale \subseteq 0 .. Slices - 1
    BY <2>1 DEF Undisturbed, Calm
  <2>4. CASE /\ flash'[s].log = <<>>
             /\ ram'[s].next = 0 /\ ram'[s].used = 0 /\ ram'[s].droped = 0
    BY <1>1, <2>2, <2>3, <2>4, EmptyCounted DEF Undisturbed
  <2>5. CASE /\ flash'[s].log = flash[s].log /\ flash'[s].stale = flash[s].stale
             /\ IsUsed(ram[s].st) /\ ram'[s].next = ram[s].next
             /\ ram'[s].used = ram[s].used /\ ram'[s].droped = ram[s].droped
    BY <1>1, <2>1, <2>2, <2>3, <2>5 DEF Undisturbed
  <2>6. CASE ~ IsUsed(ram'[s].st)
    BY <2>2, <2>3, <2>6 DEF Undisturbed
  <2> QED BY <2>4, <2>5, <2>6 DEF Calm
<1> QED BY <1>2, <1>4, <1>5, <1>6 DEF Tally

LEMMA SameCalm ==
    ASSUME NEW s, flash'[s] = flash[s], ram'[s] = ram[s]
    PROVE  Calm(s)
BY DEF Calm

\* Steps that leave flash and RAM alone, or forget what RAM holds.
LEMMA QuietTally ==
    ASSUME StoreType, Tally, pc \notin {"data", "gcdata"}, pc' \notin {"data", "gcdata"},
           UNCHANGED flash, UNCHANGED ram \/ ram' = [s \in Sector |-> Unloaded],
           lost \subseteq lost', crashes' = crashes
    PROVE  Tally'
<1>1. \A s \in Sector : Calm(s)
  BY DEF Calm, Unloaded, IsUsed
<1> QED BY <1>1, CalmTally

LEMMA ActivateCalm ==
    ASSUME StoreType, ListsOK, idle # <<>>, Activate
    PROVE  \A t \in Sector : Calm(t)
<1>1. PICK s : s = Head(idle)
  OBVIOUS
<1>2. /\ flash \in [Sector -> FlashSector] /\ ram \in [Sector -> RamSector]
      /\ s \in Sector /\ serial \in Nat
      /\ \A t \in Sector \ {s} : flash'[t] = flash[t] /\ ram'[t] = ram[t]
  BY <1>1, ActivateKeeps DEF StoreType
<1>3. /\ flash'[s] = IF ram[s].st = "crash" THEN Blank ELSE flash[s]
      /\ ram'[s] = [(IF ram[s].st = "crash" THEN Unloaded ELSE ram[s]) EXCEPT !.sn = serial]
  BY <1>1, <1>2 DEF Activate
<1>4. Calm(s)
  <2>1. CASE ram[s].st = "crash"
    BY <1>3, <2>1 DEF Calm, Blank, Unloaded
  <2>2. CASE ram[s].st # "crash"
    <3>1. /\ ram'[s].st = ram[s].st /\ ram'[s].next = ram[s].next /\ flash'[s] = flash[s]
          /\ ram'[s].used = ram[s].used /\ ram'[s].droped = ram[s].droped
      BY <1>2, <1>3, <2>2 DEF RamSector
    <3> QED BY <3>1 DEF Calm
  <2> QED BY <2>1, <2>2
<1> QED BY <1>2, <1>4, SameCalm

LEMMA InitCalm ==
    ASSUME StoreType, FlashOrder, Agree, NEW s \in Sector, Fresh(s), InitSector(s)
    PROVE  (\A t \in Sector : Calm(t)) /\ ram'[s].next = 0 /\ ram'[s].used = 0
<1>1. flash \in [Sector -> FlashSector] /\ ram \in [Sector -> RamSector]
  BY DEF StoreType
<1>2. flash[s].log = <<>>
  BY DEF FlashOrder, Agree
<1>3. /\ flash'[s].log = flash[s].log /\ flash'[s].stale = flash[s].stale
      /\ \A t \in Sector \ {s} : flash'[t] = flash[t] /\ ram'[t] = ram[t]
      /\ ram'[s].next = 0 /\ ram'[s].used = 0 /\ ram'[s].droped = 0
  BY <1>1 DEF InitSector, FlashSector, RamSector, Unloaded
<1> QED BY <1>2, <1>3, SameCalm DEF Calm

LEMMA StateCalm ==
    ASSUME StoreType, NEW s \in Sector, NEW st, SetState(s, st), IsUsed(st) => IsUsed(ram[s].st)
    PROVE  \A t \in Sector : Calm(t)
<1>1. flash \in [Sector -> FlashSector] /\ ram \in [Sector -> RamSector]
  BY DEF StoreType
<1>2. /\ flash'[s].log = flash[s].log /\ flash'[s].stale = flash[s].stale
      /\ \A t \in Sector \ {s} : flash'[t] = flash[t] /\ ram'[t] = ram[t]
      /\ ram'[s].st = st /\ ram'[s].next = ram[s].next
      /\ ram'[s].used = ram[s].used /\ ram'[s].droped = ram[s].droped
  BY <1>1 DEF SetState, FlashSector, RamSector
<1> QED BY <1>2, SameCalm DEF Calm

LEMMA EraseCalm ==
    ASSUME StoreType, NEW s \in Sector, EraseToIdle(s)
    PROVE  \A t \in Sector : Calm(t)
<1>1. flash \in [Sector -> FlashSector] /\ ram \in [Sector -> RamSector]
  BY DEF StoreType
<1>2. /\ flash'[s] = Blank /\ ram'[s] = [Unloaded EXCEPT !.sn = ram[s].sn]
      /\ \A t \in Sector \ {s} : flash'[t] = flash[t] /\ ram'[t] = ram[t]
  BY <1>1 DEF EraseToIdle
<1>3. Calm(s)
  BY <1>2 DEF Calm, Blank, Unloaded
<1> QED BY <1>2, <1>3, SameCalm

\* Every step that programs no item and drops none.
LEMMA CalmSteps ==
    ASSUME IInv, OrderInv, Tally,
           \/ WriteInit \/ WriteTooLong \/ WriteFull \/ RequestIdle \/ RequestNoSpace
           \/ GcStart \/ GcInit \/ GcMark \/ GcCrash \/ GcErase
           \/ CheckWriteNothing \/ CheckGcNothing \/ CheckGcWipe \/ CheckGcErase
           \/ CheckGcKeep \/ CheckGcStart \/ LoadFinish \/ Unload
           \/ \E k \in Keys, v \in Values : SetSame(k, v) \/ SetBegin(k, v)
    PROVE  Tally'
<1>1. /\ StoreType /\ ControlType /\ ListsOK' = ListsOK' /\ FlashOrder
      /\ pc # "off" => ListsOK /\ Agree
      /\ gc.src \in Sector /\ gc.dst \in Sector
  BY DEF IInv, TypeOK, OrderInv, ControlType
<1>2. pc # "off" => Cur \in Sector
  BY <1>1, CurActive
<1>3. CASE WriteTooLong \/ WriteFull \/ RequestNoSpace
  BY <1>1, <1>3, QuietTally DEF WriteTooLong, WriteFull, RequestNoSpace, NeedSector, Return, loaded
<1>4. CASE CheckWriteNothing \/ CheckGcNothing \/ CheckGcKeep \/ LoadFinish \/ Unload
  BY <1>1, <1>4, QuietTally DEF CheckWriteNothing, CheckGcNothing, CheckGcKeep, LoadFinish, Unload,
     loaded
<1>5. CASE \E k \in Keys, v \in Values : SetSame(k, v) \/ SetBegin(k, v)
  BY <1>1, <1>5, QuietTally DEF SetSame, SetBegin, loaded
<1>6. CASE RequestIdle \/ GcStart \/ CheckGcStart
  <2>1. /\ idle # <<>> /\ Activate /\ lost' = lost /\ crashes' = crashes
        /\ pc \in {"write", "recgc"} /\ pc' \in {"write", "gcinit", "gcmark", "gccopy"}
    BY <1>1, <1>6 DEF RequestIdle, GcStart, CheckGcStart, NeedSector
  <2> QED BY <1>1, <2>1, ActivateCalm, CalmTally
<1>7. CASE WriteInit \/ GcInit
  <2>1. PICK s \in Sector : Fresh(s) /\ InitSector(s)
    BY <1>1, <1>2, <1>7 DEF WriteInit, GcInit, Fresh, OrderInv, Collecting
  <2>2. /\ pc \in {"write", "gcinit"} /\ pc' \in {"write", "gcmark", "gccopy"}
        /\ lost' = lost /\ crashes' = crashes
    BY <1>7 DEF WriteInit, GcInit
  <2> QED BY <1>1, <2>1, <2>2, InitCalm, CalmTally
<1>8. CASE GcMark \/ GcCrash \/ CheckGcWipe
  <2>1. PICK s, st : s \in Sector /\ SetState(s, st) /\ (IsUsed(st) => IsUsed(ram[s].st))
    <3>1. CASE GcMark
      <4>1. gc.src \in Range(active) /\ gc.dst = Cur /\ gc.src # gc.dst
        BY <3>1 DEF GcMark, IInv, GcSet, InGc, OrderInv, Collecting
      <4>2. Used(gc.src)
        BY <1>1, <3>1, <4>1 DEF Agree, GcMark
      <4>3. IsUsed(ram[gc.src].st)
        BY <1>1, <3>1, <4>2 DEF Agree, Used, GcMark
      <4> QED BY <1>1, <3>1, <4>3 DEF GcMark
    <3>2. CASE GcCrash \/ CheckGcWipe
      <4>1. SetState(gc.src, "crash") \/ (pc # "off" /\ SetState(Cur, "crash"))
        BY <3>2 DEF GcCrash, CheckGcWipe
      <4>2. ~ IsUsed("crash")
        BY DEF IsUsed
      <4> QED BY <1>1, <1>2, <4>1, <4>2
    <3> QED BY <1>8, <3>1, <3>2
  <2>2. /\ pc \in {"gcmark", "gccopy", "checkgc"} /\ pc' \in {"gccopy", "gcerase", "recerase"}
        /\ lost \subseteq lost' /\ crashes' = crashes
    BY <1>8 DEF GcMark, GcCrash, CheckGcWipe
  <2> QED BY <1>1, <2>1, <2>2, StateCalm, CalmTally
<1>9. CASE GcErase \/ CheckGcErase
  <2>1. PICK s \in Sector : EraseToIdle(s)
    BY <1>1, <1>2, <1>9 DEF GcErase, CheckGcErase
  <2>2. /\ pc \in {"gcerase", "recerase"} /\ pc' \in {"finish", "write", "recgc"}
        /\ lost' = lost /\ crashes' = crashes
    BY <1>9 DEF GcErase, CheckGcErase
  <2> QED BY <1>1, <2>1, <2>2, EraseCalm, CalmTally
<1> QED BY <1>3, <1>4, <1>5, <1>6, <1>7, <1>8, <1>9


-----------------------------------------------------------------------------
(* Dropping an item *)

\* What CountInv says of one sector.
Counted(s) == LogCounted(s) /\ Exact(s) /\ (crashes = 0 => Undisturbed(s))

LEMMA SameCounted ==
    ASSUME NEW s, Counted(s), flash'[s] = flash[s], ram'[s] = ram[s],
           Uncounted(s) = 0, Uncounted(s)' = 0, crashes' = crashes
    PROVE  Counted(s)'
BY DEF Counted, LogCounted, Exact, Undisturbed

LEMMA OneTally ==
    ASSUME Tally, NEW s, crashes' = crashes,
           Counted(s)', lost' = {} => lost = {} /\ flash'[s].stale = flash[s].stale,
           \A t \in Sector \ {s} : /\ flash'[t] = flash[t] /\ ram'[t] = ram[t]
                                   /\ Uncounted(t) = 0 /\ Uncounted(t)' = 0
    PROVE  Tally'
<1>1. \A t \in Sector : Counted(t)
  BY DEF Tally, Counted
<1>2. \A t \in Sector : Counted(t)'
  <2> SUFFICES ASSUME NEW t \in Sector PROVE Counted(t)'
    OBVIOUS
  <2> QED BY <1>1, SameCounted
<1>3. lost' = {} => \A t \in Sector : flash'[t].stale = {}
  BY DEF Tally
<1> QED BY <1>2, <1>3 DEF Tally, Counted

\* A live item of a sector becomes a dropped one, and nothing else changes in its log.
LEMMA DropSizes ==
    ASSUME StoreType, NEW s \in Sector, Packed(flash[s].log), NEW i \in LiveAt(flash[s].log),
           NEW f, f = DropAt(flash[s], It(s, i).at)
    PROVE  /\ f.stale = flash[s].stale
           /\ DOMAIN f.log = DOMAIN flash[s].log /\ LogEnd(f.log) = LogEnd(flash[s].log)
           /\ Size(f.log, ItemStatus) = Size(flash[s].log, ItemStatus)
           /\ Size(flash[s].log, Live) = Size(f.log, Live) + It(s, i).span
           /\ Size(f.log, Live) \in Nat
           /\ \A n \in DOMAIN f.log : f.log[n].st = "torn" => flash[s].log[n].st = "torn"
           /\ \A n \in LiveAt(f.log) : n \in LiveAt(flash[s].log) /\ f.log[n] = flash[s].log[n]
<1>1. PICK log, at : log = flash[s].log /\ at = It(s, i).at
  OBVIOUS
<1>2. /\ flash[s] \in FlashSector /\ log \in Seq(Item) /\ Packed(log)
      /\ i \in DOMAIN log /\ log[i].at = at /\ log[i].st \in Live /\ log[i].span = It(s, i).span
      /\ f = DropAt(flash[s], at)
  BY <1>1, SectorTypes, LiveItem DEF It, Live
<1>3. f = [flash[s] EXCEPT !.log = [n \in DOMAIN log |->
                 IF log[n].at = at THEN [log[n] EXCEPT !.st = "droped"] ELSE log[n]]]
  BY <1>1, <1>2 DEF DropAt
<1>4. f.log = [n \in DOMAIN log |->
                 IF log[n].at = at THEN [log[n] EXCEPT !.st = "droped"] ELSE log[n]]
      /\ f.stale = flash[s].stale
  BY <1>2, <1>3 DEF FlashSector
<1>5. \A n \in DOMAIN log : log[n].at = at <=> n = i
  BY <1>1, <1>2, PlacesDiffer DEF It
<1>6. /\ \A n \in DOMAIN log \ {i} : f.log[n] = log[n]
      /\ f.log[i] = [log[i] EXCEPT !.st = "droped"] /\ DOMAIN f.log = DOMAIN log
  BY <1>2, <1>4, <1>5
<1>7. /\ \A n \in DOMAIN log : log[n] \in Item
      /\ f.log[i].at = log[i].at /\ f.log[i].span = log[i].span /\ f.log[i].st = "droped"
  <2>1. \A n \in DOMAIN log : log[n] \in Item
    BY <1>2, ItemNumbers
  <2>2. PICK e : e = log[i]
    OBVIOUS
  <2>3. e \in Item /\ f.log[i] = [e EXCEPT !.st = "droped"]
    BY <1>2, <1>6, <2>1, <2>2
  <2>4. f.log[i].at = e.at /\ f.log[i].span = e.span /\ f.log[i].st = "droped"
    BY <2>3 DEF Item
  <2> QED BY <2>1, <2>2, <2>4
<1>8. PICK new : new = f.log
  OBVIOUS
<1>9. \A n \in DOMAIN log : new[n].at = log[n].at /\ new[n].span = log[n].span
  BY <1>6, <1>7, <1>8
<1>10. With(log, ItemStatus) = With(new, ItemStatus)
  BY <1>6, <1>7, <1>8 DEF With, Item, ItemStatus
<1>11. Size(new, ItemStatus) = Size(log, ItemStatus)
  BY <1>9, <1>10, SizeSame DEF With
<1>12. With(new, Live) = With(log, Live) \ {i} /\ i \in With(log, Live)
  BY <1>2, <1>6, <1>7, <1>8 DEF With, Live
<1>13. Size(log, Live) = Size(new, Live) + log[i].span /\ Size(new, Live) \in Nat
  <2>1. PICK I : I = With(log, Live)
    OBVIOUS
  <2>2. I \subseteq DOMAIN log /\ i \in I
    BY <1>12, <2>1 DEF With
  <2>3. /\ Cardinality(Taken(log, I)) = Cardinality(Taken(log, I \ {i})) + log[i].span
        /\ Cardinality(Taken(log, I \ {i})) \in Nat
    BY <1>2, <2>2, TakenWithout
  <2>4. Taken(log, I \ {i}) = Taken(new, I \ {i})
    BY <1>9, <2>2 DEF Taken
  <2> QED BY <1>12, <2>1, <2>3, <2>4, SizeIsTaken
<1>14. \A n \in LiveAt(new) : n \in LiveAt(log) /\ new[n] = log[n]
  BY <1>1, <1>2, <1>8, DropAtLive
<1>15. SameLayout(log, new)
  BY <1>1, <1>2, <1>8, DropAtLayout
<1>16. new \in Seq(Item)
  <2>1. at \in Nat
    BY <1>2, <1>7 DEF Item
  <2>2. DropAt(flash[s], at) \in FlashSector
    BY <1>2, <2>1, DropAtType
  <2> QED BY <1>2, <1>8, <2>2 DEF FlashSector
<1>17. LogEnd(new) = LogEnd(log)
  BY <1>2, <1>15, <1>16, PackedSame
<1>18. \A n \in DOMAIN new : new[n].st = "torn" => log[n].st = "torn"
  BY <1>6, <1>7, <1>8
<1> QED BY <1>1, <1>2, <1>4, <1>6, <1>8, <1>11, <1>13, <1>14, <1>17, <1>18

LEMMA DropTally ==
    ASSUME StoreType, Tally, NEW s \in Sector, Packed(flash[s].log),
           NEW i \in LiveAt(flash[s].log), NEW at, NEW span,
           at = It(s, i).at, span = It(s, i).span, DropItem(s, at, span),
           pc \notin {"data", "gcdata"}, pc' \notin {"data", "gcdata"},
           lost \subseteq lost', crashes' = crashes
    PROVE  Tally'
<1>1. \A t \in Sector : Uncounted(t) = 0 /\ Uncounted(t)' = 0
  BY NothingUncounted, NothingUncountedNext
<1>2. /\ flash \in [Sector -> FlashSector] /\ ram \in [Sector -> RamSector]
      /\ ram[s] \in RamSector
  BY DEF StoreType
<1>3. /\ flash'[s] = DropAt(flash[s], at)
      /\ \A t \in Sector \ {s} : flash'[t] = flash[t] /\ ram'[t] = ram[t]
      /\ ram'[s].st = ram[s].st /\ ram'[s].next = ram[s].next /\ ram'[s].used = ram[s].used
      /\ ram'[s].droped = Count(ram[s].droped + span)
  BY <1>2 DEF DropItem, RamSector
<1>4. PICK f : f = flash'[s]
  OBVIOUS
<1>5. /\ f.stale = flash[s].stale
      /\ DOMAIN f.log = DOMAIN flash[s].log /\ LogEnd(f.log) = LogEnd(flash[s].log)
      /\ Size(f.log, ItemStatus) = Size(flash[s].log, ItemStatus)
      /\ Size(flash[s].log, Live) = Size(f.log, Live) + span
      /\ Size(f.log, Live) \in Nat
      /\ \A n \in DOMAIN f.log : f.log[n].st = "torn" => flash[s].log[n].st = "torn"
      /\ \A n \in LiveAt(f.log) : n \in LiveAt(flash[s].log) /\ f.log[n] = flash[s].log[n]
  BY <1>3, <1>4, DropSizes
<1>6. Counted(s)
  BY DEF Counted, Tally
<1>7. LogCounted(s)'
  BY <1>4, <1>5, <1>6 DEF Counted, LogCounted
<1>8. Exact(s)'
  BY <1>1, <1>3, <1>4, <1>5, <1>6 DEF Counted, Exact
<1>9. ASSUME crashes = 0, IsUsed(ram[s].st)
      PROVE  ram'[s].droped = ram[s].droped + span
  <2>1. Size(flash[s].log, Live) + ram[s].droped <= ram[s].used + 0
    BY <1>1, <1>6, <1>9 DEF Counted, Undisturbed
  <2>2. /\ ram[s].used \in 0 .. CounterMod - 1 /\ ram[s].droped \in Nat /\ span \in Nat
        /\ CounterMod \in Nat
    BY <1>2, LiveItem, SlicesAssumption DEF RamSector, CounterMod
  <2>3. PICK n : n = ram[s].droped + span
    OBVIOUS
  <2>4. n \in 0 .. CounterMod - 1
    BY <1>5, <2>1, <2>2, <2>3
  <2>5. n % CounterMod = n
    BY <2>2, <2>4
  <2> QED BY <1>3, <2>3, <2>5 DEF Count
<1>10. ASSUME crashes = 0 PROVE Undisturbed(s)'
  <2>1. Undisturbed(s)
    BY <1>6, <1>10 DEF Counted
  <2>2. (\A n \in DOMAIN flash[s].log : flash[s].log[n].st # "torn")'
    BY <1>4, <1>5, <2>1 DEF Undisturbed
  <2>3. flash'[s].stale \subseteq 0 .. Slices - 1
    BY <1>4, <1>5, <2>1 DEF Undisturbed
  <2>4. ASSUME IsUsed(ram[s].st)
        PROVE  Size(f.log, Live) + ram'[s].droped = Size(flash[s].log, Live) + ram[s].droped
    <3>1. ram[s].droped \in Nat /\ span \in Nat
      BY <1>2, LiveItem, SlicesAssumption DEF RamSector, CounterMod
    <3> QED BY <1>5, <1>9, <1>10, <2>4, <3>1
  <2> QED BY <1>1, <1>3, <1>4, <1>5, <2>1, <2>2, <2>3, <2>4, SMTT(30) DEF Undisturbed
<1>11. Counted(s)'
  BY <1>7, <1>8, <1>10 DEF Counted
<1>12. lost' = {} => lost = {} /\ flash'[s].stale = flash[s].stale
  BY <1>4, <1>5
<1> QED BY <1>1, <1>3, <1>11, <1>12, OneTally

LEMMA DropSteps ==
    ASSUME IInv, OrderInv, LayoutInv, Tally,
           CheckWriteData \/ CheckWriteOld \/ \E k \in Keys : Delete(k)
    PROVE  Tally'
<1>1. /\ StoreType /\ \A s \in Sector : Packed(flash[s].log)
      /\ pc # "off" => ListsOK
  BY DEF IInv, TypeOK, LayoutInv
<1>2. CASE CheckWriteData
  <2>1. /\ pc = "checkwrite" /\ pc' = "checkgc" /\ lost' = lost /\ crashes' = crashes
        /\ LiveAt(flash[Cur].log) # {}
        /\ DropItem(Cur, It(Cur, LastItem).at, It(Cur, LastItem).span)
    BY <1>2 DEF CheckWriteData, It
  <2>2. Cur \in Sector
    BY <1>1, <2>1, CurActive
  <2>3. LastItem \in LiveAt(flash[Cur].log)
    <3>1. /\ LiveAt(flash[Cur].log) \subseteq Int /\ Len(flash[Cur].log) \in Int
          /\ \A i \in LiveAt(flash[Cur].log) : i <= Len(flash[Cur].log)
      BY <1>1, <2>2, LiveType
    <3> QED BY <2>1, <3>1, MostOfIsMost DEF LastItem
  <2> QED BY <1>1, <2>1, <2>2, <2>3, DropTally
<1>3. CASE CheckWriteOld
  <2>1. /\ pc = "checkwrite" /\ pc' = "checkgc" /\ lost \subseteq lost' /\ crashes' = crashes
    BY <1>3 DEF CheckWriteOld
  <2>2. PICK o \in OldCopies : DropItem(o.sec, It(o.sec, o.i).at, It(o.sec, o.i).span)
    BY <1>3 DEF CheckWriteOld, It
  <2>3. o.sec \in Sector /\ o.i \in LiveAt(flash[o.sec].log)
    BY <1>1, OldCopyIs
  <2> QED BY <1>1, <2>1, <2>2, <2>3, DropTally
<1>4. CASE \E k \in Keys : Delete(k)
  <2>1. PICK k, f : k \in Keys /\ f = FindItem(k, Types) /\ Delete(k)
    BY <1>4
  <2>2. /\ pc = "ready" /\ pc' = "ready" /\ lost' = lost /\ crashes' = crashes /\ f.found
        /\ DropItem(f.sec, FoundItem(f).at, FoundItem(f).span)
    BY <2>1 DEF Delete
  <2>3. /\ f.sec \in Sector /\ FoundItem(f) = It(f.sec, f.i)
        /\ f.i \in LiveAt(flash[f.sec].log)
    <3>1. f.sec \in Sector /\ FoundItem(f) = It(f.sec, f.i)
          /\ f.i \in Matches(flash[f.sec], ram[f.sec], k, Types)
      BY <1>1, <2>1, <2>2, FindItemFinds
    <3>2. Matches(flash[f.sec], ram[f.sec], k, Types) \subseteq LiveAt(flash[f.sec].log)
      BY DEF Matches
    <3> QED BY <3>1, <3>2
  <2> QED BY <1>1, <2>2, <2>3, DropTally
<1> QED BY <1>2, <1>3, <1>4

\* Erasing what a set call replaces: the item is there, or the sector has been collected and
\* the byte is written where nothing is.
LEMMA EraseOldTally ==
    ASSUME IInv, OrderInv, LayoutInv, ContentInv, Tally, Room, EraseOld
    PROVE  Tally'
<1>1. /\ StoreType /\ ControlType /\ Agree /\ FoundStays /\ OpSet /\ Calling
      /\ pc = "eraseold" /\ pc' = "ready" /\ crashes' = crashes /\ lost \subseteq lost'
      /\ \A s \in Sector : Packed(flash[s].log)
      /\ ListsOK
  BY DEF IInv, TypeOK, OrderInv, LayoutInv, ContentInv, EraseOld, Return, Calling
<1>2. CASE ~ op.found
  <2>1. UNCHANGED <<flash, ram>>
    BY <1>2 DEF EraseOld
  <2> QED BY <1>1, <2>1, QuietTally
<1>3. CASE op.found /\ op.sec \in Range(active)
                    /\ \E i \in LiveAt(flash[op.sec].log) :
                          It(op.sec, i).at = op.at /\ It(op.sec, i).val = op.old
  <2>1. PICK d, i : /\ d = op.sec /\ d \in Sector /\ i \in LiveAt(flash[d].log)
                    /\ It(d, i).at = op.at /\ It(d, i).val = op.old
    BY <1>1, <1>3 DEF ControlType
  <2>2. It(d, i).span = SpanOf[op.old]
    BY <2>1 DEF Tally, LogCounted, It
  <2>3. DropItem(d, op.at, SpanOf[op.old])
    BY <1>3, <2>1 DEF EraseOld
  <2> QED BY <1>1, <2>1, <2>2, <2>3, DropTally
<1>4. CASE op.found /\ op.sec \in Range(idle) /\ flash[op.sec].log = <<>>
  <2>1. PICK d : d = op.sec /\ d \in Sector /\ flash[d].log = <<>> /\ d \in Range(idle)
    BY <1>1, <1>4 DEF ControlType
  <2>2. /\ DropItem(d, op.at, SpanOf[op.old]) /\ op.k \in lost'
        /\ op.at \in Nat
    BY <1>1, <1>4, <2>1 DEF EraseOld, LiveAt, ControlType
  <2>3. /\ flash \in [Sector -> FlashSector] /\ ram \in [Sector -> RamSector]
    BY <1>1 DEF StoreType
  <2>4. DropAt(flash[d], op.at) = [flash[d] EXCEPT !.stale = @ \union {op.at}]
    BY <2>1 DEF DropAt
  <2>5. /\ flash'[d].log = <<>> /\ flash'[d].stale = flash[d].stale \union {op.at}
        /\ ram'[d].st = ram[d].st
        /\ \A t \in Sector \ {d} : flash'[t] = flash[t] /\ ram'[t] = ram[t]
    BY <2>1, <2>2, <2>3, <2>4 DEF DropItem, FlashSector, RamSector
  <2>6. LogCounted(d)'
    BY <2>5, EmptyCounted DEF LogCounted
  <2>7. Exact(d)'
    BY <2>5 DEF Exact
  <2>8. ASSUME crashes = 0 PROVE Undisturbed(d)'
    <3>1. ~ IsUsed(ram[d].st)
      BY <1>1, <2>1, <2>8 DEF Room, NothingToRecover, Agree, Used
    <3>2. op.at \in 0 .. Slices - 1
      BY <1>1, <1>4, <2>2, <2>8, SlicesAssumption DEF Room, CopyLeavesRoom
    <3>3. flash[d].stale \subseteq 0 .. Slices - 1
      BY <2>1, <2>8 DEF Tally, Undisturbed
    <3>4. (\A i \in DOMAIN flash[d].log : flash[d].log[i].st # "torn")'
      BY <2>5, EmptyCounted
    <3> QED BY <2>5, <3>1, <3>2, <3>3, <3>4 DEF Undisturbed
  <2>9. Counted(d)'
    BY <1>1, <2>6, <2>7, <2>8 DEF Counted
  <2>10. \A t \in Sector : Uncounted(t) = 0 /\ Uncounted(t)' = 0
    BY <1>1, NothingUncounted, NothingUncountedNext
  <2>11. lost' # {}
    BY <2>2
  <2> QED BY <1>1, <2>1, <2>5, <2>9, <2>10, <2>11, OneTally
<1> QED BY <1>1, <1>2, <1>3, <1>4 DEF FoundStays

-----------------------------------------------------------------------------
(* Programming an item *)

LEMMA ByteCounts ==
    ASSUME NEW n \in Nat, n <= Slices
    PROVE  Count(n) = n
<1>1. CounterMod \in Nat /\ n < CounterMod /\ n >= 0
  BY SlicesAssumption DEF CounterMod
<1> QED BY <1>1 DEF Count

\* Its header, and all of it if that is one slice.
LEMMA HeaderTally ==
    ASSUME StoreType, Tally, NEW s \in Sector, NEW it \in Item,
           Packed(flash[s].log), it.at = LogEnd(flash[s].log),
           it.span >= 1, it.at + it.span <= Slices, it.span = SpanOf[it.val],
           WriteHeader(s, it),
           \/ it.span = 1 /\ Account(s, it) /\ Uncounted(s)' = 0
           \/ UNCHANGED ram /\ Uncounted(s)' = it.span,
           \A t \in Sector : Uncounted(t) = 0,
           \A t \in Sector \ {s} : Uncounted(t)' = 0,
           lost \subseteq lost', crashes' = crashes, crashes = 0 => ram[s].next = it.at
    PROVE  Tally'
<1>1. /\ flash[s] \in FlashSector /\ flash[s].log \in Seq(Item)
      /\ ram \in [Sector -> RamSector] /\ ram[s] \in RamSector
  BY SectorTypes DEF StoreType
<1>2. PICK log, h, new : /\ log = flash[s].log /\ h = HeaderWritten(flash[s], it)
                         /\ new = Append(log, h)
  OBVIOUS
<1>3. /\ h.at = it.at /\ h.span = it.span /\ h.val = it.val /\ h \in Item
      /\ h.st \in {"using", "nodata", "droped"} /\ (flash[s].stale = {} => h.st \in Live)
  BY <1>1, <1>2, HeaderWrittenType DEF HeaderWritten, Item, Live
<1>4. /\ flash'[s].log = new /\ flash'[s].stale = flash[s].stale
      /\ \A t \in Sector \ {s} : flash'[t] = flash[t]
      /\ Grown(s, Len(log) + 1)
  BY <1>1, <1>2, HeaderContents DEF WriteHeader, FlashSector, StoreType
<1>5. /\ Packed(log) /\ log \in Seq(Item) /\ h.at = LogEnd(log) /\ h.span \in Nat \ {0}
      /\ it.at \in Nat /\ it.span \in Nat
  BY <1>1, <1>2, <1>3 DEF Item
<1>6. /\ LogEnd(new) = it.at + it.span
      /\ Size(new, ItemStatus) = Size(log, ItemStatus) + it.span
      /\ Size(new, Live) = Size(log, Live) + (IF h.st \in Live THEN it.span ELSE 0)
  <2>1. h.st \in ItemStatus
    BY <1>3 DEF Item
  <2> QED BY <1>2, <1>3, <1>5, <2>1, SizeGrows
<1>7. Counted(s) /\ Uncounted(s) = 0
  BY DEF Counted, Tally
<1>8. LogCounted(s)'
  <2>1. Size(new, ItemStatus) = LogEnd(new) /\ LogEnd(new) < CounterMod
    BY <1>2, <1>3, <1>5, <1>6, <1>7, SlicesAssumption DEF Counted, LogCounted, CounterMod
  <2>2. ASSUME NEW i \in LiveAt(new) PROVE new[i].span = SpanOf[new[i].val]
    <3>1. CASE i \in LiveAt(log)
      <4>1. new[i] = log[i]
        <5>1. flash'[s].log[i] = flash[s].log[i]
          BY <1>2, <1>4, <3>1 DEF Grown
        <5> QED BY <1>2, <1>4, <5>1
      <4> QED BY <1>2, <1>7, <3>1, <4>1 DEF Counted, LogCounted
    <3>2. CASE i = Len(log) + 1
      <4>1. new[i] = h
        BY <1>2, <1>3, <1>5, <3>2
      <4> QED BY <1>3, <4>1
    <3> QED BY <1>2, <1>4, <2>2, <3>1, <3>2 DEF Grown
  <2> QED BY <1>4, <2>1, <2>2 DEF LogCounted
<1>9. /\ ram[s].used \in Nat /\ ram[s].next \in Nat /\ ram[s].droped \in Nat /\ Slices \in Nat
      /\ \A t \in Sector \ {s} : ram'[t] = ram[t]
      /\ ram'[s].st = ram[s].st /\ ram'[s].droped = ram[s].droped
  BY <1>1, SlicesAssumption DEF RamSector, CounterMod, Account
\* The counters, when the sector is not taken for full.
<1>10. ASSUME ram[s].used + it.span <= Slices
       PROVE  /\ ram'[s].used + Uncounted(s)' = ram[s].used + it.span
              /\ \/ ram'[s].used = ram[s].used /\ ram'[s].next = ram[s].next
                 \/ /\ ram'[s].used = ram[s].used + it.span
                    /\ ram'[s].next = ram[s].next + it.span
  <2>1. CASE it.span = 1 /\ Account(s, it) /\ Uncounted(s)' = 0
    <3>1. ram'[s].used = Count(ram[s].used + it.span) /\ ram'[s].next = ram[s].next + it.span
      BY <1>1, <2>1 DEF Account, RamSector
    <3>2. PICK n : n = ram[s].used + it.span
      OBVIOUS
    <3>3. n \in Nat /\ n <= Slices
      <4>1. ram[s].used \in Nat /\ it.span \in Nat
        BY <1>5, <1>9
      <4>2. ram[s].used + it.span <= Slices
        BY <1>10
      <4> QED BY <3>2, <4>1, <4>2
    <3>4. Count(n) = n
      BY <3>3, ByteCounts
    <3>5. Count(ram[s].used + it.span) = ram[s].used + it.span
      BY <3>2, <3>4
    <3> QED BY <1>5, <1>9, <2>1, <3>1, <3>5
  <2>2. CASE UNCHANGED ram /\ Uncounted(s)' = it.span
    BY <2>2
  <2> QED BY <2>1, <2>2
<1>11. Exact(s)'
  <2> SUFFICES ASSUME IsUsed(ram'[s].st), flash'[s].stale = {}
               PROVE  /\ ram'[s].used + Uncounted(s)' = LogEnd(new)
                      /\ ram'[s].next = IF ram'[s].used > Slices THEN Slices ELSE ram'[s].used
    BY <1>4 DEF Exact
  <2>1. /\ ram[s].used = it.at
        /\ ram[s].next = IF ram[s].used > Slices THEN Slices ELSE ram[s].used
    BY <1>4, <1>7, <1>9 DEF Counted, Exact
  <2>2. ram[s].next = it.at
    BY <1>5, <1>9, <2>1
  <2> QED BY <1>5, <1>6, <1>9, <1>10, <2>1, <2>2
<1>12. ASSUME crashes = 0 PROVE Undisturbed(s)'
  <2>1. Undisturbed(s)
    BY <1>7, <1>12 DEF Counted
  <2>2. ASSUME NEW i \in DOMAIN new PROVE new[i].st # "torn"
    <3>1. CASE i \in DOMAIN log
      <4>1. new[i] = log[i] /\ log[i].st # "torn"
        BY <1>2, <1>3, <1>5, <2>1, <3>1 DEF Undisturbed
      <4> QED BY <4>1
    <3>2. CASE i = Len(log) + 1
      <4>1. new[i] = h
        BY <1>2, <1>3, <1>5, <3>2
      <4> QED BY <1>3, <4>1
    <3> QED BY <1>2, <1>3, <1>5, <2>2, <3>1, <3>2
  <2>3. flash'[s].stale \subseteq 0 .. Slices - 1
    BY <1>4, <2>1 DEF Undisturbed
  <2>4. ASSUME IsUsed(ram[s].st)
        PROVE  /\ ram'[s].used = ram'[s].next \/ ram'[s].next >= Slices
               /\ Size(new, Live) + ram'[s].droped <= ram'[s].used + Uncounted(s)'
               /\ flash[s].stale = {} =>
                     Size(new, Live) + ram'[s].droped = ram'[s].used + Uncounted(s)'
    <3>1. /\ ram[s].used = it.at
          /\ Size(log, Live) + ram[s].droped <= ram[s].used
          /\ flash[s].stale = {} => Size(log, Live) + ram[s].droped = ram[s].used
      BY <1>2, <1>5, <1>7, <1>9, <1>12, <2>1, <2>4 DEF Undisturbed
    <3>2. Size(log, Live) \in Nat
      BY <1>5, SizeNat
    <3>3. ram'[s].used = ram'[s].next
      BY <1>5, <1>9, <1>10, <1>12, <3>1
    <3>4. PICK a, u : a = Size(log, Live) /\ u = ram'[s].used + Uncounted(s)'
      OBVIOUS
    <3>5. a \in Nat /\ u = it.at + it.span /\ a + ram[s].droped <= it.at
          /\ (flash[s].stale = {} => a + ram[s].droped = it.at)
      BY <1>10, <3>1, <3>2, <3>4
    <3>6. PICK b, d : b = Size(new, Live) /\ d = ram[s].droped
      OBVIOUS
    <3>7. b = a + (IF h.st \in Live THEN it.span ELSE 0) /\ d \in Nat
      BY <1>6, <1>9, <3>4, <3>6
    <3>8. b + d <= u /\ (h.st \in Live /\ a + d = it.at => b + d = u)
      <4>1. a \in Nat /\ u = it.at + it.span /\ a + d <= it.at /\ it.span \in Nat /\ it.at \in Nat
        BY <1>5, <3>5, <3>6
      <4>2. CASE h.st \in Live
        <5>1. b = a + it.span
          BY <3>7, <4>2
        <5> QED BY <3>7, <4>1, <5>1
      <4>3. CASE h.st \notin Live
        <5>1. b = a
          BY <3>7, <4>1, <4>3
        <5> QED BY <3>7, <4>1, <4>3, <5>1
      <4> QED BY <4>2, <4>3
    <3>9. flash[s].stale = {} => b + d = u
      BY <1>3, <3>5, <3>6, <3>8
    <3> QED BY <1>9, <3>3, <3>4, <3>6, <3>8, <3>9
  <2> QED BY <1>4, <1>9, <2>2, <2>3, <2>4 DEF Undisturbed
<1>13. Counted(s)'
  BY <1>8, <1>11, <1>12 DEF Counted
<1> QED BY <1>4, <1>9, <1>13, OneTally

\* Its data.
LEMMA DataTally ==
    ASSUME StoreType, Tally, NEW s \in Sector, flash[s].log # <<>>, Packed(flash[s].log),
           NEW it, it = Last(flash[s].log), it.st # "torn", it.at + it.span <= Slices,
           WriteData(s), Uncounted(s) = it.span, Uncounted(s)' = 0,
           \A t \in Sector \ {s} : Uncounted(t) = 0 /\ Uncounted(t)' = 0,
           lost \subseteq lost', crashes' = crashes, crashes = 0 => ram[s].next = it.at
    PROVE  Tally'
<1>1. /\ flash \in [Sector -> FlashSector] /\ ram \in [Sector -> RamSector]
      /\ flash[s].log \in Seq(Item) /\ ram[s] \in RamSector
  BY SectorTypes DEF StoreType
<1>2. PICK log, n : log = flash[s].log /\ n = Len(log)
  OBVIOUS
<1>3. /\ n \in DOMAIN log /\ log[n] = it /\ it \in Item /\ log \in Seq(Item)
      /\ \A i \in DOMAIN log : log[i] \in Item
      /\ LogEnd(log) = it.at + it.span
  BY <1>1, <1>2 DEF Last, LogEnd
<1>4. PICK st \in DataWritten(flash[s], it) : flash' = [flash EXCEPT ![s].log[n].st = st]
  BY <1>2, <1>3 DEF WriteData
<1>5. PICK new : new = flash'[s].log
  OBVIOUS
<1>6. /\ new = [log EXCEPT ![n] = [it EXCEPT !.st = st]]
      /\ flash'[s].stale = flash[s].stale
      /\ \A t \in Sector \ {s} : flash'[t] = flash[t]
  BY <1>1, <1>2, <1>3, <1>4, <1>5 DEF FlashSector
<1>7. /\ it.st \in Live <=> st \in Live
      /\ st \in ItemStatus /\ st # "torn"
  BY <1>3, <1>4 DEF DataWritten, Item, ItemStatus, Live
<1>8. /\ DOMAIN new = DOMAIN log
      /\ \A i \in DOMAIN log :
            /\ new[i].at = log[i].at /\ new[i].span = log[i].span /\ new[i].val = log[i].val
            /\ new[i].st \in Live <=> log[i].st \in Live
            /\ new[i].st \in ItemStatus /\ (new[i].st = "torn" => log[i].st = "torn")
  <2>1. \A i \in DOMAIN log \ {n} : new[i] = log[i] /\ log[i].st \in ItemStatus
    BY <1>3, <1>6 DEF Item
  <2>2. /\ new[n].at = it.at /\ new[n].span = it.span /\ new[n].val = it.val /\ new[n].st = st
        /\ DOMAIN new = DOMAIN log
    BY <1>3, <1>6 DEF Item
  <2> QED BY <1>3, <1>7, <2>1, <2>2
<1>9. /\ Size(new, ItemStatus) = Size(log, ItemStatus) /\ Size(new, Live) = Size(log, Live)
      /\ LiveAt(new) = LiveAt(log)
  <2>1. With(log, ItemStatus) = With(new, ItemStatus) /\ With(log, Live) = With(new, Live)
    BY <1>3, <1>8 DEF With, Item
  <2>2. LiveAt(new) = With(new, Live) /\ LiveAt(log) = With(log, Live)
    BY DEF LiveAt, IsLive, With, Live
  <2>3. \A sts : \A i \in With(log, sts) : new[i].at = log[i].at /\ new[i].span = log[i].span
    BY <1>8 DEF With
  <2> QED BY <2>1, <2>2, <2>3, SizeSame
<1>10. LogEnd(new) = LogEnd(log)
  <2>1. new \in Seq(Item)
    <3>1. \A i \in 1 .. n : new[i] \in Item
      <4>1. [it EXCEPT !.st = st] \in Item /\ DOMAIN log = 1 .. n
        BY <1>1, <1>2, <1>3, <1>7 DEF Item
      <4> QED BY <1>3, <1>6, <4>1
    <3>2. DOMAIN new = 1 .. n /\ n \in Nat
      BY <1>1, <1>2, <1>8
    <3>3. new = [i \in 1 .. n |-> new[i]]
      BY <1>6, <3>2
    <3> QED BY <3>1, <3>2, <3>3, SeqDef
  <2>2. SameLayout(log, new)
    BY <1>8, <1>9 DEF SameLayout, LiveAt, IsLive, Live
  <2> QED BY <1>3, <2>1, <2>2, PackedSame
<1>11. Counted(s)
  BY DEF Counted, Tally
<1>12. LogCounted(s)'
  BY <1>2, <1>3, <1>5, <1>8, <1>9, <1>10, <1>11 DEF Counted, LogCounted, LiveAt
<1>13. /\ ram[s].used \in Nat /\ ram[s].next \in Nat /\ ram[s].droped \in Nat /\ Slices \in Nat
       /\ it.at \in Nat /\ it.span \in Nat
       /\ \A t \in Sector \ {s} : ram'[t] = ram[t]
       /\ ram'[s].st = ram[s].st /\ ram'[s].droped = ram[s].droped
       /\ ram'[s].next = ram[s].next + it.span
       /\ ram'[s].used = Count(ram[s].used + it.span)
  BY <1>1, <1>2, <1>3, SlicesAssumption DEF RamSector, CounterMod, WriteData, Account, Item
<1>14. ASSUME ram[s].used = it.at
       PROVE  ram'[s].used = it.at + it.span
  BY <1>13, <1>14, ByteCounts
<1>15. Exact(s)'
  <2> SUFFICES ASSUME IsUsed(ram'[s].st), flash'[s].stale = {}
               PROVE  /\ ram'[s].used + 0 = LogEnd(new)
                      /\ ram'[s].next = IF ram'[s].used > Slices THEN Slices ELSE ram'[s].used
    BY <1>5 DEF Exact
  <2>1. /\ ram[s].used + it.span = it.at + it.span
        /\ ram[s].next = IF ram[s].used > Slices THEN Slices ELSE ram[s].used
    BY <1>2, <1>3, <1>6, <1>11, <1>13 DEF Counted, Exact
  <2>2. ram[s].used = it.at /\ ram[s].next = it.at
    BY <1>13, <2>1
  <2> QED BY <1>3, <1>10, <1>13, <1>14, <2>2
<1>16. ASSUME crashes = 0 PROVE Undisturbed(s)'
  <2>1. Undisturbed(s)
    BY <1>11, <1>16 DEF Counted
  <2>2. /\ \A i \in DOMAIN new : new[i].st # "torn"
        /\ flash'[s].stale \subseteq 0 .. Slices - 1
    BY <1>2, <1>6, <1>8, <2>1 DEF Undisturbed
  <2>3. ASSUME IsUsed(ram[s].st)
        PROVE  /\ ram'[s].used = ram'[s].next \/ ram'[s].next >= Slices
               /\ Size(new, Live) + ram'[s].droped <= ram'[s].used + 0
               /\ flash[s].stale = {} => Size(new, Live) + ram'[s].droped = ram'[s].used + 0
    <3>1. ram[s].used = ram[s].next \/ ram[s].next >= Slices
      BY <2>1, <2>3 DEF Undisturbed
    <3>2. it.span >= 1
      BY <1>2, <1>3 DEF Packed
    <3>3. ram[s].used = it.at
      BY <1>13, <1>16, <3>1, <3>2
    <3>4. /\ Size(log, Live) + ram[s].droped <= ram[s].used + it.span
          /\ flash[s].stale = {} => Size(log, Live) + ram[s].droped = ram[s].used + it.span
      BY <1>2, <2>1, <2>3 DEF Undisturbed
    <3> QED BY <1>9, <1>13, <1>14, <1>16, <3>3, <3>4
  <2> QED BY <1>5, <1>6, <1>13, <2>2, <2>3 DEF Undisturbed
<1>17. Counted(s)'
  BY <1>12, <1>15, <1>16 DEF Counted
<1> QED BY <1>6, <1>13, <1>17, OneTally

LEMMA WriteItemTally ==
    ASSUME IInv, OrderInv, LayoutInv, Tally, WriteItem
    PROVE  Tally'
<1>1. PICK it, c : it = NewItem(ram[Cur].next, op.k, op.v) /\ c = Cur
  OBVIOUS
<1>2. /\ StoreType /\ ListsOK /\ Headers /\ Agree /\ OpSet
      /\ pc = "write" /\ ~ Fresh(c) /\ HasRoom(ram[c], SpanOf[op.v]) /\ WriteHeader(c, it)
      /\ \/ it.span = 1 /\ Account(c, it) /\ pc' = "eraseold"
         \/ UNCHANGED ram /\ pc' = "data"
      /\ UNCHANGED active /\ lost \subseteq lost' /\ crashes' = crashes
  BY <1>1 DEF WriteItem, CanWrite, Fresh, IInv, TypeOK, OrderInv, Calling
<1>3. c \in Sector /\ c \in Range(active) /\ Cur' = c /\ Used(c)
  BY <1>1, <1>2, CurActive, WritesInUse DEF Cur
<1>4. flash[c].hdr = "using" /\ IsUsed(ram[c].st)
  BY <1>2, <1>3 DEF Headers, IsDeleting, Used, IsUsed, Agree
<1>5. ram[c].next \in Nat /\ SpanOf[op.v] \in Nat \ {0} /\ Slices \in Nat
  BY <1>2, <1>3, SpanAssumption, SlicesAssumption DEF StoreType, RamSector, OpSet
<1>6. it \in Item /\ it.at = ram[c].next /\ it.span = SpanOf[op.v] /\ it.val = op.v
  <2>1. NewItem(ram[c].next, op.k, op.v) \in Item
    BY <1>2, <1>5, NewItemType DEF OpSet
  <2> QED BY <1>1, <2>1 DEF NewItem
<1>7. it.at + it.span <= Slices /\ it.at = LogEnd(flash[c].log) /\ it.span >= 1
  <2>1. ram[c].next + SpanOf[op.v] <= Slices
    BY <1>2 DEF HasRoom
  <2>2. ram[c].next = LogEnd(flash[c].log) \/ ram[c].next >= Slices
    BY <1>2, <1>3, <1>4 DEF LayoutInv, NextFree
  <2> QED BY <1>5, <1>6, <2>1, <2>2
<1>8. Packed(flash[c].log)
  BY <1>3 DEF LayoutInv
<1>9. \A t \in Sector : Uncounted(t) = 0
  BY <1>2, NothingUncounted
<1>10. \A t \in Sector \ {c} : Uncounted(t)' = 0
  BY <1>2, <1>3 DEF Uncounted, Halfway
<1>11. Last(flash'[c].log).span = it.span
  BY <1>2, <1>3, <1>4, <1>6, <1>7, <1>8, HeaderLayout
<1>12. \/ it.span = 1 /\ Account(c, it) /\ Uncounted(c)' = 0
       \/ UNCHANGED ram /\ Uncounted(c)' = it.span
  BY <1>2, <1>3, <1>11 DEF Uncounted, Halfway
<1> QED BY <1>2, <1>3, <1>6, <1>7, <1>8, <1>9, <1>10, <1>12, HeaderTally

LEMMA WriteItemDataTally ==
    ASSUME IInv, LayoutInv, Tally, WriteItemData
    PROVE  Tally'
<1>1. PICK c, it : c = Cur /\ it = Last(flash[Cur].log)
  OBVIOUS
<1>2. /\ StoreType /\ ListsOK /\ pc = "data" /\ pc' = "eraseold" /\ WriteData(c)
      /\ flash[c].log # <<>> /\ c \in Sector /\ lost' = lost /\ crashes' = crashes
      /\ ram[c].next = it.at /\ it.st # "torn" /\ it = Last(flash[c].log)
      /\ it.at + it.span <= Slices /\ Packed(flash[c].log)
  BY <1>1, CurActive DEF WriteItemData, IInv, TypeOK, DataBegun, LayoutInv, Between
<1>3. Uncounted(c) = it.span /\ Uncounted(c)' = 0
  BY <1>1, <1>2 DEF Uncounted, Halfway
<1>4. \A t \in Sector \ {c} : Uncounted(t) = 0 /\ Uncounted(t)' = 0
  BY <1>1, <1>2 DEF Uncounted, Halfway
<1> QED BY <1>2, <1>3, <1>4, DataTally

\* What is copied has the slices of its value.
LEMMA CopiedSpan ==
    ASSUME StoreType, ControlType, ToCopy # {}, Tally
    PROVE  Copied.span = SpanOf[Copied.val]
<1>1. PICK log, n : log = flash[gc.src].log /\ n = LeastOf(ToCopy)
  OBVIOUS
<1>2. /\ gc.src \in Sector /\ log \in Seq(Item)
  BY <1>1, SectorTypes DEF ControlType
<1>3. ToCopy \subseteq LiveAt(log) /\ LiveAt(log) \subseteq DOMAIN log /\ DOMAIN log \subseteq Nat
  BY <1>1, <1>2 DEF ToCopy, LiveAt
<1>4. n \in LiveAt(log) /\ log[n] \in Item
  <2>1. n \in ToCopy
    BY <1>1, <1>3, LeastOfIsLeast
  <2> QED BY <1>2, <1>3, <2>1
<1>5. Copied.span = log[n].span /\ Copied.val = log[n].val
  BY <1>1, <1>4 DEF Copied, Item
<1>6. log[n].span = SpanOf[log[n].val]
  BY <1>1, <1>2, <1>4 DEF Tally, LogCounted
<1> QED BY <1>5, <1>6

LEMMA GcCopyTally ==
    ASSUME IInv, OrderInv, LayoutInv, Tally, Room, GcCopy
    PROVE  Tally'
<1>1. PICK it, dst : it = Copied /\ dst = gc.dst
  OBVIOUS
<1>2. /\ pc = "gccopy" /\ ToCopy # {} /\ WriteHeader(dst, it)
      /\ \/ it.span = 1 /\ Account(dst, it) /\ pc' = "gccopy"
         \/ pc' = "gcdata" /\ UNCHANGED <<ram, gc>>
      /\ lost \subseteq lost' /\ crashes' = crashes
  BY <1>1 DEF GcCopy
<1>3. /\ StoreType /\ ControlType /\ dst \in Sector
      /\ dst \in Range(active) /\ flash[dst].hdr = "using"
  BY <1>1, <1>2, CopyPlaces
<1>4. /\ it \in Item /\ gc.d + it.span <= Slices /\ it.span >= 1 /\ it.at = gc.d
      /\ it.span = SpanOf[it.val]
  BY <1>1, <1>2, <1>3, CopiedType, CopyFits, CopiedSpan
<1>5. Packed(flash[dst].log) /\ it.at = LogEnd(flash[dst].log)
  BY <1>1, <1>2, <1>3, <1>4 DEF LayoutInv, Between
<1>6. \A t \in Sector : Uncounted(t) = 0
  BY <1>2, NothingUncounted
<1>7. pc' = "gcdata" => gc'.dst = dst
  BY <1>1, <1>2
<1>8. \A t \in Sector \ {dst} : Uncounted(t)' = 0
  BY <1>2, <1>7 DEF Uncounted, Halfway
<1>9. Last(flash'[dst].log).span = it.span
  BY <1>2, <1>3, <1>4, <1>5, HeaderLayout
<1>10. \/ it.span = 1 /\ Account(dst, it) /\ Uncounted(dst)' = 0
       \/ UNCHANGED ram /\ Uncounted(dst)' = it.span
  BY <1>2, <1>7, <1>9 DEF Uncounted, Halfway
<1>11. crashes = 0 => ram[dst].next = it.at
  BY <1>1, <1>2, <1>4 DEF Room, CopyLeavesRoom
<1> QED BY <1>2, <1>3, <1>4, <1>5, <1>6, <1>8, <1>10, <1>11, HeaderTally

LEMMA GcCopyDataTally ==
    ASSUME IInv, OrderInv, LayoutInv, Tally, Room, GcCopyData
    PROVE  Tally'
<1>1. PICK it, dst : it = Last(flash[gc.dst].log) /\ dst = gc.dst
  OBVIOUS
<1>2. /\ pc = "gcdata" /\ pc' = "gccopy" /\ WriteData(dst)
      /\ flash[dst].log # <<>> /\ ToCopy # {} /\ lost' = lost /\ crashes' = crashes
      /\ gc.d = it.at /\ it.span = Copied.span /\ it.st # "torn" /\ it = Last(flash[dst].log)
  BY <1>1 DEF GcCopyData, IInv, DataBegun, LayoutInv, Between
<1>3. /\ StoreType /\ ControlType /\ dst \in Sector /\ Packed(flash[dst].log)
  BY <1>1, <1>2, CopyPlaces DEF LayoutInv
<1>4. it.at + it.span <= Slices
  BY <1>2, <1>3, CopyFits
<1>5. Uncounted(dst) = it.span /\ Uncounted(dst)' = 0
  BY <1>1, <1>2 DEF Uncounted, Halfway
<1>6. \A t \in Sector \ {dst} : Uncounted(t) = 0 /\ Uncounted(t)' = 0
  BY <1>1, <1>2 DEF Uncounted, Halfway
<1>7. crashes = 0 => ram[dst].next = it.at
  BY <1>1, <1>2 DEF Room, CopyLeavesRoom
<1> QED BY <1>2, <1>3, <1>4, <1>5, <1>6, <1>7, DataTally

-----------------------------------------------------------------------------
(* Loading, and power failures *)

\* A start leaves the items where they are, and drops the torn ones.
LEMMA LoadSizes ==
    ASSUME NEW f \in FlashSector, Packed(f.log), NEW g, g = LoadFlash(f)
    PROVE  /\ g.stale = f.stale /\ LogEnd(g.log) = LogEnd(f.log)
           /\ Size(g.log, ItemStatus) = Size(f.log, ItemStatus)
           /\ Size(g.log, Live) = Size(f.log, Live)
           /\ \A i \in LiveAt(g.log) : i \in LiveAt(f.log) /\ g.log[i] = f.log[i]
           /\ (\A i \in DOMAIN f.log : f.log[i].st # "torn") =>
                 \A i \in DOMAIN g.log : g.log[i].st # "torn"
<1>1. PICK log, new : log = f.log /\ new = g.log
  OBVIOUS
<1>2. /\ log \in Seq(Item) /\ new \in Seq(Item) /\ SameLayout(log, new) /\ Packed(log)
      /\ \A i \in DOMAIN log : log[i] \in Item
      /\ \A i \in DOMAIN new : new[i] \in Item
  BY <1>1, LoadFlashType, LoadLayout, ItemNumbers DEF FlashSector
<1>3. LogEnd(new) = LogEnd(log)
  BY <1>2, PackedSame
<1>4. LiveAt(new) = LiveAt(log) /\ \A i \in LiveAt(log) : new[i] = log[i]
  BY <1>1, LoadItems
<1>5. /\ With(log, ItemStatus) = With(new, ItemStatus)
      /\ With(log, Live) = With(new, Live)
  BY <1>2, <1>4 DEF With, SameLayout, Item, LiveAt, IsLive, Live
<1>6. \A sts : \A i \in With(log, sts) : new[i].at = log[i].at /\ new[i].span = log[i].span
  BY <1>2 DEF With, SameLayout
<1>7. Size(new, ItemStatus) = Size(log, ItemStatus) /\ Size(new, Live) = Size(log, Live)
  BY <1>5, <1>6, SizeSame
<1>8. g.stale = f.stale
  BY DEF LoadFlash, FlashSector
<1>9. new \in {log, DropTorn(log)}
  BY <1>1 DEF LoadFlash, FlashSector
<1>10. (\A i \in DOMAIN log : log[i].st # "torn") => \A i \in DOMAIN new : new[i].st # "torn"
  BY <1>9 DEF DropTorn
<1> QED BY <1>1, <1>3, <1>4, <1>7, <1>8, <1>10

\* What it counts in a sector.
LEMMA LoadCounts ==
    ASSUME NEW f \in FlashSector, Packed(f.log), IsUsed(LoadStatus(f)), NEW r, r = LoadRam(f),
           Size(f.log, ItemStatus) = LogEnd(f.log), LogEnd(f.log) < CounterMod
    PROVE  /\ f.stale = {} => /\ r.used = LogEnd(f.log)
                              /\ r.next = IF r.used > Slices THEN Slices ELSE r.used
           /\ /\ \A i \in DOMAIN f.log : f.log[i].st # "torn"
              /\ f.stale \subseteq 0 .. Slices - 1
              => /\ r.used = r.next \/ r.next >= Slices
                 /\ Size(f.log, Live) + r.droped = r.used
<1>1. PICK log, sc, n : log = f.log /\ sc = Scanned(f) /\ n = LogEnd(f.log)
  OBVIOUS
<1>2. /\ log \in Seq(Item) /\ Packed(log) /\ n \in Nat /\ n = LogEnd(log) /\ n < CounterMod
      /\ Slices \in Nat /\ CounterMod \in Nat /\ Size(log, ItemStatus) = n
      /\ LostSpan \in Nat \ {0}
  BY <1>1, ItemNumbers, SlicesAssumption DEF FlashSector, CounterMod, LostSpan
<1>3. /\ r.next = IF LogEnd(sc) > Slices THEN Slices ELSE LogEnd(sc)
      /\ r.used = Count(Size(sc, ItemStatus))
      /\ r.droped = Count(Size(sc, {"droped", "torn"}) + Size(sc, {"torn"}))
  BY <1>1 DEF LoadRam
<1>4. CASE n \notin f.stale
  <2>1. sc = log /\ r.used = n
    BY <1>1, <1>2, <1>3, <1>4 DEF Scanned, Count
  <2>2. r.next = IF r.used > Slices THEN Slices ELSE r.used
    BY <1>2, <1>3, <2>1
  <2>3. ASSUME \A i \in DOMAIN log : log[i].st # "torn"
        PROVE  Size(log, Live) + r.droped = r.used
    <3>1. Live \union {"droped", "torn"} = ItemStatus /\ Live \cap {"droped", "torn"} = {}
      BY DEF Live, ItemStatus
    <3>2. Size(log, ItemStatus) = Size(log, Live) + Size(log, {"droped", "torn"})
      BY <1>2, <3>1, SizeSplits
    <3>3. Size(log, {"torn"}) = 0
      <4>1. Covered(log, {"torn"}) = {}
        BY <2>3 DEF Covered
      <4> QED BY <4>1, FS_EmptySet DEF Size
    <3>4. PICK a, b : a = Size(log, Live) /\ b = Size(log, {"droped", "torn"})
      OBVIOUS
    <3>5. a \in Nat /\ b \in Nat /\ a + b = n
      BY <1>2, <3>2, <3>4, SizeNat
    <3>6. r.droped = b
      <4>1. r.droped = (b + 0) % CounterMod
        BY <1>3, <2>1, <3>3, <3>4 DEF Count
      <4> QED BY <1>2, <3>5, <4>1
    <3> QED BY <2>1, <3>4, <3>5, <3>6
  <2> QED BY <1>1, <1>2, <2>1, <2>2, <2>3
<1>5. CASE n \in f.stale
  <2> DEFINE fake == [at |-> LogEnd(f.log), key |-> CHOOSE k \in Keys : TRUE,
                      val |-> CHOOSE v \in Values : TRUE, span |-> LostSpan,
                      st |-> "droped"]
  <2>1. sc = Append(log, fake)
    BY <1>1, <1>5 DEF Scanned
  <2>2. fake.at = LogEnd(log) /\ fake.span = LostSpan /\ fake.st = "droped"
    BY <1>1
  <2> HIDE DEF fake
  <2>3. /\ LogEnd(sc) = n + LostSpan
        /\ Size(sc, ItemStatus) = Size(log, ItemStatus) + LostSpan
        /\ Size(sc, {"droped", "torn"}) = Size(log, {"droped", "torn"}) + LostSpan
        /\ Size(sc, {"torn"}) = Size(log, {"torn"}) + 0
    BY <1>2, <2>1, <2>2, SizeGrows DEF ItemStatus
  <2>4. ASSUME \A i \in DOMAIN log : log[i].st # "torn", f.stale \subseteq 0 .. Slices - 1
        PROVE  r.next >= Slices /\ Size(log, Live) + r.droped = r.used
    <3>1. Live \union {"droped", "torn"} = ItemStatus /\ Live \cap {"droped", "torn"} = {}
      BY DEF Live, ItemStatus
    <3>2. Size(log, ItemStatus) = Size(log, Live) + Size(log, {"droped", "torn"})
      BY <1>2, <3>1, SizeSplits
    <3>3. Size(log, {"torn"}) = 0
      <4>1. Covered(log, {"torn"}) = {}
        BY <2>4 DEF Covered
      <4> QED BY <4>1, FS_EmptySet DEF Size
    <3>4. PICK a, b : a = Size(log, Live) /\ b = Size(log, {"droped", "torn"})
      OBVIOUS
    <3>5. a \in Nat /\ b \in Nat /\ a + b = n
      BY <1>2, <3>2, <3>4, SizeNat
    <3>6. n <= Slices - 1 /\ n + LostSpan < CounterMod /\ n + LostSpan > Slices
      <4>1. n <= Slices - 1
        BY <1>2, <1>5, <2>4
      <4> QED BY <1>2, <4>1 DEF LostSpan, CounterMod
    <3>7. r.used = n + LostSpan
      <4>1. r.used = (n + LostSpan) % CounterMod
        BY <1>2, <1>3, <2>3 DEF Count
      <4>2. PICK m : m = n + LostSpan
        OBVIOUS
      <4>3. m \in Nat /\ m < CounterMod
        BY <1>2, <3>6, <4>2
      <4>4. m % CounterMod = m
        BY <1>2, <4>3
      <4> QED BY <4>1, <4>2, <4>4
    <3>8. r.droped = b + LostSpan
      <4>1. r.droped = ((b + LostSpan) + (0 + 0)) % CounterMod
        BY <1>3, <2>3, <3>3, <3>4 DEF Count
      <4>2. PICK m : m = b + LostSpan
        OBVIOUS
      <4>3. m \in Nat /\ m < CounterMod
        BY <1>2, <3>5, <3>6, <4>2
      <4> QED BY <1>2, <4>1, <4>2, <4>3
    <3>9. r.next >= Slices
      BY <1>2, <1>3, <2>3, <3>6
    <3> QED BY <1>2, <3>4, <3>5, <3>7, <3>8, <3>9
  <2> QED BY <1>1, <1>5, <2>4
<1> QED BY <1>4, <1>5

LEMMA LoadTally ==
    ASSUME IInv, LayoutInv, Tally, Load
    PROVE  Tally'
<1>1. /\ StoreType /\ flash \in [Sector -> FlashSector]
      /\ pc' = "checkwrite" /\ lost' = lost /\ crashes' = crashes
  BY DEF Load, IInv, TypeOK, StoreType
<1>2. ASSUME NEW s \in Sector
      PROVE  /\ flash'[s] \in {Blank, LoadFlash(flash[s])}
             /\ IsUsed(ram'[s].st) =>
                   flash'[s] = LoadFlash(flash[s]) /\ ram'[s] = LoadRam(flash[s])
  <2>1. \/ /\ flash' = [t \in Sector |-> LoadFlash(flash[t])]
           /\ ram' = [t \in Sector |-> LoadRam(flash[t])]
        \/ \E h : /\ flash' \in {[[t \in Sector |-> LoadFlash(flash[t])] EXCEPT ![h] = Blank],
                                  [t \in Sector |-> LoadFlash(flash[t])]}
                 /\ ram' = [[t \in Sector |-> LoadRam(flash[t])]
                                EXCEPT ![h] = [Unloaded EXCEPT !.sn = 1]]
                 /\ \A t \in Sector : ~ IsUsed(LoadStatus(flash[t]))
    BY DEF Load
  <2>2. LoadRam(flash[s]).st = LoadStatus(flash[s])
    BY <1>1, LoadRamType
  <2>3. ~ IsUsed([Unloaded EXCEPT !.sn = 1].st)
    BY DEF Unloaded, IsUsed
  <2> QED BY <2>1, <2>2, <2>3
<1>3. \A s \in Sector : Uncounted(s)' = 0
  BY <1>1, NothingUncountedNext
<1>4. ASSUME NEW s \in Sector
      PROVE  /\ LogCounted(s)' /\ flash'[s].stale \subseteq flash[s].stale
             /\ Exact(s)' /\ (crashes = 0 => Undisturbed(s)')
  <2>1. PICK f, g, r : f = flash[s] /\ g = LoadFlash(f) /\ r = LoadRam(f)
    OBVIOUS
  <2>2. /\ f \in FlashSector /\ Packed(f.log) /\ LogCounted(s)
        /\ crashes = 0 => Undisturbed(s)
    BY <1>1, <2>1 DEF LayoutInv, Tally
  <2>3. /\ g.stale = f.stale /\ LogEnd(g.log) = LogEnd(f.log)
        /\ Size(g.log, ItemStatus) = Size(f.log, ItemStatus)
        /\ Size(g.log, Live) = Size(f.log, Live)
        /\ \A i \in LiveAt(g.log) : i \in LiveAt(f.log) /\ g.log[i] = f.log[i]
        /\ (\A i \in DOMAIN f.log : f.log[i].st # "torn") =>
              \A i \in DOMAIN g.log : g.log[i].st # "torn"
    BY <2>1, <2>2, LoadSizes
  <2>4. LogCounted(s)' /\ flash'[s].stale \subseteq flash[s].stale
    <3>1. CASE flash'[s] = Blank
      BY <3>1, EmptyCounted DEF LogCounted, Blank
    <3>2. CASE flash'[s] = g
      BY <2>1, <2>2, <2>3, <3>2 DEF LogCounted
    <3> QED BY <1>2, <2>1, <3>1, <3>2
  <2>5. ASSUME IsUsed(ram'[s].st)
        PROVE  /\ flash'[s] = g /\ ram'[s] = r
               /\ f.stale = {} => /\ r.used = LogEnd(f.log)
                                  /\ r.next = IF r.used > Slices THEN Slices ELSE r.used
               /\ /\ \A i \in DOMAIN f.log : f.log[i].st # "torn"
                  /\ f.stale \subseteq 0 .. Slices - 1
                  => /\ r.used = r.next \/ r.next >= Slices
                     /\ Size(f.log, Live) + r.droped = r.used
               /\ r.used \in Nat
    <3>1. flash'[s] = g /\ ram'[s] = r
      BY <1>2, <2>1, <2>5
    <3>2. r.st = LoadStatus(f) /\ r \in RamSector
      BY <2>1, <2>2, LoadRamType
    <3>3. Size(f.log, ItemStatus) = LogEnd(f.log) /\ LogEnd(f.log) < CounterMod
      BY <2>1, <2>2 DEF LogCounted
    <3>4. IsUsed(LoadStatus(f))
      BY <2>5, <3>1, <3>2
    <3>5. r.used \in Nat
      BY <3>2, SlicesAssumption DEF RamSector, CounterMod
    <3> QED BY <2>1, <2>2, <3>1, <3>3, <3>4, <3>5, LoadCounts
  <2>6. Exact(s)'
    BY <1>3, <2>3, <2>5 DEF Exact
  <2>7. ASSUME crashes = 0 PROVE Undisturbed(s)'
    <3>1. /\ \A i \in DOMAIN f.log : f.log[i].st # "torn"
          /\ f.stale \subseteq 0 .. Slices - 1
      BY <2>1, <2>2, <2>7 DEF Undisturbed
    <3>2. /\ \A i \in DOMAIN flash'[s].log : flash'[s].log[i].st # "torn"
          /\ flash'[s].stale \subseteq 0 .. Slices - 1
      BY <1>2, <2>1, <2>3, <3>1, EmptyCounted DEF Blank
    <3>3. ASSUME IsUsed(ram'[s].st)
          PROVE  /\ ram'[s].used = ram'[s].next \/ ram'[s].next >= Slices
                 /\ Size(flash'[s].log, Live) + ram'[s].droped = ram'[s].used
                 /\ ram'[s].used \in Nat
      BY <2>3, <2>5, <3>1, <3>3
    <3> QED BY <1>3, <3>2, <3>3 DEF Undisturbed
  <2> QED BY <2>4, <2>6, <2>7
<1> QED BY <1>1, <1>4 DEF Tally

\* A header that is cut short counts for a byte, too: its span may read the longest there is.
LEMMA TornCounted ==
    ASSUME NEW f \in FlashSector, Packed(f.log), NEW it \in Item, it.at = LogEnd(f.log),
           it.span >= 1, it.at + it.span <= Slices, NEW g \in HeaderTorn(f, it),
           Size(f.log, ItemStatus) = LogEnd(f.log), LogEnd(f.log) < CounterMod
    PROVE  /\ Size(g.log, ItemStatus) = LogEnd(g.log) /\ LogEnd(g.log) < CounterMod
           /\ g.stale = f.stale
<1>1. CASE g = f
  BY <1>1
<1>2. CASE g # f
  <2>1. PICK sp \in {it.span, LostSpan} :
          g = [f EXCEPT !.log = Append(@, [HeaderWritten(f, it) EXCEPT
                                     !.st = IF @ = "droped" THEN @ ELSE "torn",
                                     !.span = sp])]
    BY <1>2 DEF HeaderTorn
  <2>2. PICK x : x = [HeaderWritten(f, it) EXCEPT !.st = IF @ = "droped" THEN @ ELSE "torn",
                                                   !.span = sp]
    OBVIOUS
  <2>3. /\ sp \in Nat \ {0} /\ it.at \in Nat /\ it.span \in Nat /\ Slices \in Nat
        /\ it.at + sp < CounterMod
    BY SlicesAssumption DEF LostSpan, Item, CounterMod
  <2>4. HeaderWritten(f, it) \in Item /\ HeaderWritten(f, it).at = it.at
    BY HeaderWrittenType
  <2>5. x.at = it.at /\ x.span = sp /\ x.st \in {"droped", "torn"}
    BY <2>2, <2>4 DEF Item
  <2>6. g.log = Append(f.log, x) /\ f.log \in Seq(Item) /\ g.stale = f.stale
    BY <2>1, <2>2 DEF FlashSector
  <2>7. /\ Size(Append(f.log, x), ItemStatus) = Size(f.log, ItemStatus) + sp
        /\ LogEnd(Append(f.log, x)) = LogEnd(f.log) + sp
    <3>1. PICK log : log = f.log
      OBVIOUS
    <3>2. /\ log \in Seq(Item) /\ Packed(log) /\ x.at = LogEnd(log) /\ x.span \in Nat \ {0}
          /\ x.st \in ItemStatus
      BY <2>3, <2>5, <2>6, <3>1 DEF ItemStatus
    <3>3. /\ Size(Append(log, x), ItemStatus) = Size(log, ItemStatus) + x.span
          /\ LogEnd(Append(log, x)) = LogEnd(log) + x.span
      BY <3>2, SizeGrows
    <3> QED BY <2>5, <3>1, <3>3
  <2> QED BY <2>3, <2>6, <2>7
<1> QED BY <1>1, <1>2

LEMMA PowerOffTally ==
    ASSUME IInv, OrderInv, LayoutInv, Tally, PowerOff
    PROVE  Tally'
<1>1. /\ StoreType /\ ControlType /\ ListsOK /\ Agree /\ Headers
      /\ pc # "off" /\ flash' \in Torn /\ (Calling => OpSet)
      /\ flash \in [Sector -> FlashSector] /\ ram \in [Sector -> RamSector]
      /\ lost \subseteq lost' /\ crashes' = crashes + 1 /\ crashes \in Nat
      /\ ram' = [s \in Sector |-> Unloaded]
      /\ \A s \in Sector : Packed(flash[s].log)
  BY DEF PowerOff, IInv, TypeOK, OrderInv, StoreType, ControlType, LayoutInv
<1>2. Cur \in Sector /\ Cur \in Range(active)
  BY <1>1, CurActive
<1> DEFINE Good(s) == /\ Size(flash'[s].log, ItemStatus) = LogEnd(flash'[s].log)
                      /\ LogEnd(flash'[s].log) < CounterMod
                      /\ flash'[s].stale = flash[s].stale
<1>3. \A s \in Sector : Size(flash[s].log, ItemStatus) = LogEnd(flash[s].log)
                        /\ LogEnd(flash[s].log) < CounterMod
  BY DEF Tally, LogCounted
<1>4. ASSUME flash' = flash PROVE \A s \in Sector : Good(s)
  BY <1>3, <1>4
<1>5. ASSUME NEW t \in Sector, flash' = [flash EXCEPT ![t].hdr = "crash"]
      PROVE  \A s \in Sector : Good(s)
  <2>1. \A s \in Sector : flash'[s].log = flash[s].log /\ flash'[s].stale = flash[s].stale
    BY <1>1, <1>5 DEF FlashSector
  <2> QED BY <1>3, <2>1
<1>6. ASSUME NEW it \in Item, it.at = LogEnd(flash[Cur].log), it.span >= 1,
             it.at + it.span <= Slices,
             NEW f \in HeaderTorn(flash[Cur], it), flash' = [flash EXCEPT ![Cur] = f]
      PROVE  \A s \in Sector : Good(s)
  <2>1. flash'[Cur] = f /\ \A s \in Sector \ {Cur} : flash'[s] = flash[s]
    BY <1>1, <1>2, <1>6
  <2>2. flash[Cur] \in FlashSector /\ Packed(flash[Cur].log)
    BY <1>1, <1>2
  <2>3. /\ Size(f.log, ItemStatus) = LogEnd(f.log) /\ LogEnd(f.log) < CounterMod
        /\ f.stale = flash[Cur].stale
    BY <1>2, <1>3, <1>6, <2>2, TornCounted
  <2> QED BY <1>3, <2>1, <2>3
<1> HIDE DEF Good
<1>7. \A s \in Sector : Good(s)
  <2>1. CASE pc = "write" /\ ram[Cur].st = "uninit"
    <3>1. flash' \in {flash, [flash EXCEPT ![Cur].hdr = "crash"]}
      BY <1>1, <2>1 DEF Torn, CanWrite
    <3> QED BY <1>2, <1>4, <1>5, <3>1
  <2>2. CASE CanWrite
    <3>1. PICK it, c : it = NewItem(ram[Cur].next, op.k, op.v) /\ c = Cur
      OBVIOUS
    <3>2. pc = "write" /\ ~ Fresh(c) /\ HasRoom(ram[c], SpanOf[op.v]) /\ OpSet
      BY <1>1, <2>2, <3>1 DEF CanWrite, Fresh, Calling
    <3>3. c \in Sector /\ Used(c)
      BY <1>2, <3>1, <3>2, WritesInUse
    <3>4. IsUsed(ram[c].st)
      BY <1>1, <3>3 DEF Agree, Used
    <3>5. ram[c].next \in Nat /\ SpanOf[op.v] \in Nat \ {0} /\ Slices \in Nat
      BY <1>1, <3>2, <3>3, SpanAssumption, SlicesAssumption DEF RamSector, OpSet
    <3>6. it \in Item /\ it.at = ram[c].next /\ it.span = SpanOf[op.v]
      <4>1. NewItem(ram[c].next, op.k, op.v) \in Item
        BY <3>2, <3>5, NewItemType DEF OpSet
      <4> QED BY <3>1, <4>1 DEF NewItem
    <3>7. it.at + it.span <= Slices /\ it.at = LogEnd(flash[c].log) /\ it.span >= 1
      <4>1. ram[c].next + SpanOf[op.v] <= Slices
        BY <3>2 DEF HasRoom
      <4>2. ram[c].next = LogEnd(flash[c].log) \/ ram[c].next >= Slices
        BY <3>2, <3>3, <3>4 DEF LayoutInv, NextFree
      <4> QED BY <3>5, <3>6, <4>1, <4>2
    <3>8. PICK f \in HeaderTorn(flash[Cur], it) : flash' = [flash EXCEPT ![Cur] = f]
      BY <1>1, <2>2, <3>1 DEF Torn, CanWrite
    <3> QED BY <1>6, <3>1, <3>6, <3>7, <3>8
  <2>3. CASE pc = "gcinit"
    <3>1. gc.dst = Cur
      BY <2>3 DEF OrderInv, Collecting, InGc
    <3>2. flash' \in {flash, [flash EXCEPT ![Cur].hdr = "crash"]}
      BY <1>1, <2>3, <3>1 DEF Torn, CanWrite
    <3> QED BY <1>2, <1>4, <1>5, <3>2
  <2>4. CASE pc = "gccopy" /\ ToCopy # {}
    <3>1. PICK it : it = Copied
      OBVIOUS
    <3>2. gc.dst = Cur /\ it \in Item
      BY <1>1, <2>4, <3>1, CopiedType DEF OrderInv, Collecting, InGc
    <3>3. it.at = gc.d /\ it.span >= 1 /\ it.at + it.span <= Slices
      BY <1>1, <2>4, <3>1, CopyFits
    <3>4. it.at = LogEnd(flash[Cur].log)
      BY <2>4, <3>2, <3>3 DEF LayoutInv, Between
    <3>5. PICK f \in HeaderTorn(flash[Cur], it) : flash' = [flash EXCEPT ![Cur] = f]
      BY <1>1, <2>4, <3>1, <3>2 DEF Torn, CanWrite
    <3> QED BY <1>6, <3>2, <3>3, <3>4, <3>5
  <2>5. CASE ~ (pc = "write" /\ ram[Cur].st = "uninit") /\ ~ CanWrite /\ pc # "gcinit"
              /\ ~ (pc = "gccopy" /\ ToCopy # {})
    <3>1. flash' = flash
      BY <1>1, <2>5 DEF Torn
    <3> QED BY <1>4, <3>1
  <2> QED BY <2>1, <2>2, <2>3, <2>4, <2>5
<1>8. ASSUME NEW s \in Sector PROVE LogCounted(s)' /\ Exact(s)'
  <2>1. /\ LiveAt(flash'[s].log) = LiveAt(flash[s].log)
        /\ \A i \in LiveAt(flash[s].log) : flash'[s].log[i] = flash[s].log[i]
    BY TornItems
  <2>2. LogCounted(s)'
    BY <1>7, <2>1 DEF Good, Tally, LogCounted
  <2>3. Exact(s)'
    BY <1>1 DEF Exact, Unloaded, IsUsed
  <2> QED BY <2>2, <2>3
<1>9. crashes' # 0
  BY <1>1
<1>10. lost' = {} => \A s \in Sector : flash'[s].stale = {}
  BY <1>1, <1>7 DEF Good, Tally
<1> QED BY <1>8, <1>9, <1>10 DEF Tally

LEMMA InitTally ==
    ASSUME Init
    PROVE  Tally
<1>1. \A s \in Sector : flash[s].log = <<>> /\ flash[s].stale = {} /\ ~ IsUsed(ram[s].st)
  BY DEF Init, Blank, Unloaded, IsUsed
<1> QED BY <1>1, EmptyCounted DEF Tally, LogCounted, Exact, Undisturbed

LEMMA StepTally ==
    ASSUME IInv, OrderInv, LayoutInv, ContentInv, Tally, Room, [Next]_vars
    PROVE  Tally'
<1>1. CASE \/ WriteInit \/ WriteTooLong \/ WriteFull \/ RequestIdle \/ RequestNoSpace
           \/ GcStart \/ GcInit \/ GcMark \/ GcCrash \/ GcErase
           \/ CheckWriteNothing \/ CheckGcNothing \/ CheckGcWipe \/ CheckGcErase
           \/ CheckGcKeep \/ CheckGcStart \/ LoadFinish \/ Unload
           \/ \E k \in Keys, v \in Values : SetSame(k, v) \/ SetBegin(k, v)
  BY <1>1, CalmSteps
<1>2. CASE WriteItem \/ WriteItemData
  BY <1>2, WriteItemTally, WriteItemDataTally
<1>3. CASE GcCopy \/ GcCopyData
  BY <1>3, GcCopyTally, GcCopyDataTally
<1>4. CASE CheckWriteData \/ CheckWriteOld \/ \E k \in Keys : Delete(k)
  BY <1>4, DropSteps
<1>5. CASE EraseOld
  BY <1>5, EraseOldTally
<1>6. CASE Load
  BY <1>6, LoadTally
<1>7. CASE PowerOff
  BY <1>7, PowerOffTally
<1>8. CASE UNCHANGED vars
  BY <1>8 DEF vars, loaded, Tally, LogCounted, Exact, Undisturbed, Uncounted, Halfway, Cur
<1>9. CASE \E k \in Keys, t \in Types : Get(k, t)
  BY <1>8, <1>9 DEF Get
<1> QED BY <1>1, <1>2, <1>3, <1>4, <1>5, <1>6, <1>7, <1>8, <1>9 DEF Next, Step, Call

-----------------------------------------------------------------------------
(* While power has not failed *)

InCall  == {"ready", "write", "data", "eraseold"}


\* Steps that change no header and keep to a call, a start or a collection.
LEMMA SameRecover ==
    ASSUME NothingToRecover, UNCHANGED idle, gc'.rec = gc.rec,
           StoreType, \A t \in Sector : flash'[t].hdr = flash[t].hdr,
           \/ pc \in InCall /\ pc' \in InCall
           \/ pc \in {"gccopy", "gcdata"} /\ pc' \in {"gccopy", "gcdata"}
           \/ pc = "checkwrite" /\ pc' = "checkgc"
           \/ pc = "checkgc" /\ pc' = "finish"
    PROVE  NothingToRecover'
<1>1. \A t \in Sector : (Used(t)' <=> Used(t)) /\ (IsDeleting(t)' <=> IsDeleting(t))
  BY DEF Used, IsDeleting
<1>2. Range(idle') \subseteq Sector
  BY InRange DEF StoreType
<1>3. CASE pc \in InCall /\ pc' \in InCall
  BY <1>1, <1>2, <1>3 DEF NothingToRecover, InCall
<1>4. CASE pc \in {"gccopy", "gcdata"} /\ pc' \in {"gccopy", "gcdata"}
  BY <1>4 DEF NothingToRecover
<1>5. CASE pc = "checkwrite" /\ pc' = "checkgc"
  BY <1>1, <1>5 DEF NothingToRecover
<1>6. CASE pc = "checkgc" /\ pc' = "finish"
  BY <1>1, <1>6 DEF NothingToRecover
<1> QED BY <1>3, <1>4, <1>5, <1>6

LEMMA LoadHeaders ==
    ASSUME IInv, Load
    PROVE  \A t \in Sector : flash'[t].hdr \in {flash[t].hdr, "erased"}
<1> DEFINE used == {s \in Sector : IsUsed(LoadStatus(flash[s]))}
           fl   == [s \in Sector |-> LoadFlash(flash[s])]
<1>1. \A s \in Sector : flash[s] \in FlashSector
  BY DEF IInv, TypeOK, StoreType
<1>2. flash' = fl \/ \E s : flash' = [fl EXCEPT ![s] = Blank]
  BY DEF Load
<1>3. \A s \in Sector : fl[s].hdr = flash[s].hdr
  BY <1>1, LoadItems
<1>4. CASE flash' = fl
  BY <1>3, <1>4
<1>5. ASSUME NEW s, flash' = [fl EXCEPT ![s] = Blank]
      PROVE  \A t \in Sector : flash'[t].hdr \in {flash[t].hdr, "erased"}
  <2> HIDE DEF used
  <2>1. ASSUME NEW t \in Sector PROVE flash'[t] = fl[t] \/ flash'[t] = Blank
    BY <1>5
  <2> QED BY <1>3, <2>1 DEF Blank
<1> QED BY <1>2, <1>4, <1>5

\* The steps of a call that change no header.
LEMMA SameSteps ==
    ASSUME IInv, OrderInv, NothingToRecover,
           \/ WriteTooLong \/ WriteFull \/ RequestNoSpace
           \/ WriteItem \/ WriteItemData \/ EraseOld \/ GcCopy \/ GcCopyData
           \/ CheckWriteNothing \/ CheckGcNothing \/ CheckWriteData \/ CheckWriteOld
           \/ (\E k \in Keys : Delete(k))
           \/ \E k \in Keys, v \in Values : SetSame(k, v) \/ SetBegin(k, v)
    PROVE  NothingToRecover'
<1>1. StoreType /\ ControlType
  BY DEF IInv, TypeOK
<1>2. CASE \/ WriteTooLong \/ WriteFull \/ RequestNoSpace
           \/ CheckWriteNothing \/ CheckGcNothing
           \/ \E k \in Keys, v \in Values : SetSame(k, v) \/ SetBegin(k, v)
  <2>1. UNCHANGED <<flash, idle, gc>>
    BY <1>2 DEF WriteTooLong, WriteFull, RequestNoSpace, CheckWriteNothing, CheckGcNothing,
                SetSame, SetBegin, loaded
  <2>2. \/ pc \in InCall /\ pc' \in InCall
        \/ pc = "checkwrite" /\ pc' = "checkgc"
        \/ pc = "checkgc" /\ pc' = "finish"
    BY <1>2 DEF WriteTooLong, WriteFull, RequestNoSpace, CheckWriteNothing, CheckGcNothing,
                SetSame, SetBegin, Return, InCall, NeedSector
  <2> QED BY <1>1, <2>1, <2>2, SameRecover
<1>3. CASE \/ WriteItem \/ WriteItemData \/ EraseOld \/ CheckWriteData \/ CheckWriteOld
           \/ \E k \in Keys : Delete(k)
  <2>1. UNCHANGED <<idle, gc>>
    BY <1>3 DEF WriteItem, WriteItemData, EraseOld, CheckWriteData, CheckWriteOld, Delete
  <2>2. \/ pc \in InCall /\ pc' \in InCall
        \/ pc = "checkwrite" /\ pc' = "checkgc"
    BY <1>3 DEF WriteItem, WriteItemData, EraseOld, CheckWriteData, CheckWriteOld, Delete,
                CanWrite, Return, InCall
  <2>3. \A t \in Sector : flash'[t].hdr = flash[t].hdr
    BY <1>3, ItemsKeepHeaders
  <2> QED BY <1>1, <2>1, <2>2, <2>3, SameRecover
<1>4. CASE GcCopy \/ GcCopyData
  <2>1. UNCHANGED idle /\ gc'.rec = gc.rec
    BY <1>1, <1>4 DEF GcCopy, GcCopyData, ControlType
  <2>2. pc \in {"gccopy", "gcdata"} /\ pc' \in {"gccopy", "gcdata"}
    BY <1>4 DEF GcCopy, GcCopyData
  <2>3. \A t \in Sector : flash'[t].hdr = flash[t].hdr
    BY <1>4, ItemsKeepHeaders
  <2> QED BY <1>1, <2>1, <2>2, <2>3, SameRecover
<1> QED BY <1>2, <1>3, <1>4

\* The steps that program, mark or erase a sector.
LEMMA SectorRecover ==
    ASSUME IInv, OrderInv, NothingToRecover,
           \/ WriteInit \/ RequestIdle \/ GcStart \/ GcInit \/ GcMark \/ GcCrash \/ GcErase
    PROVE  NothingToRecover'
<1>1. ControlType /\ ListsOK
  BY DEF IInv, TypeOK, WriteInit, RequestIdle, GcStart, NeedSector, GcInit, GcMark, GcCrash,
         GcErase
<1>2. CASE GcInit \/ GcMark \/ GcCrash
  BY <1>2 DEF GcInit, GcMark, GcCrash, NothingToRecover
<1>3. CASE GcStart
  BY <1>3 DEF GcStart, NothingToRecover
<1>4. CASE WriteInit
  <2>1. pc = "write" /\ pc' = "write" /\ UNCHANGED <<gc, idle>>
    BY <1>4 DEF WriteInit
  <2>2. \A t \in Range(idle) : ~ Used(t)'
    BY <1>4, InitOrder DEF WriteInit, Fresh
  <2> QED BY <2>1, <2>2 DEF NothingToRecover
<1>5. CASE RequestIdle
  <2>1. pc = "write" /\ pc' = "write" /\ UNCHANGED gc /\ Activate /\ idle # <<>> /\ ~ Fresh(Cur)
    BY <1>5 DEF RequestIdle, NeedSector, Fresh
  <2>2. \A t \in Range(idle') : ~ Used(t)'
    BY <2>1, ActivateOrder
  <2> QED BY <2>1, <2>2 DEF NothingToRecover
<1>6. CASE GcErase
  <2>1. /\ pc = "gcerase" /\ EraseToIdle(gc.src) /\ ~ gc.rec
        /\ pc' = "write" /\ ~ gc'.rec
    BY <1>6 DEF GcErase, NothingToRecover, NoGc
  <2>2. gc.src \in Range(active) /\ gc.dst \in Range(active) /\ gc.src # gc.dst
    BY <2>1 DEF IInv, GcSet, InGc
  <2>3. ~ Used(gc.src)
    BY <2>1 DEF OrderInv, Collecting, Used, IsUsed
  <2>4. PICK s : s = gc.src
    OBVIOUS
  <2>5. \A t \in Range(idle') : ~ Used(t)'
    BY <2>1, <2>2, <2>3, <2>4, EraseOrder
  <2> QED BY <2>1, <2>5 DEF NothingToRecover
<1> QED BY <1>2, <1>3, <1>4, <1>5, <1>6

\* Those of a start, and the end of one.
LEMMA StartRecover ==
    ASSUME IInv, OrderInv, NothingToRecover, Load \/ LoadFinish \/ Unload
    PROVE  NothingToRecover'
<1>1. StoreType /\ ControlType
  BY DEF IInv, TypeOK
<1>2. CASE Load
  <2>1. \A t \in Sector : (Used(t)' => Used(t)) /\ (IsDeleting(t)' => IsDeleting(t))
    BY <1>2, LoadHeaders DEF Used, IsUsed, IsDeleting
  <2>2. pc = "off" /\ pc' = "checkwrite" /\ UNCHANGED gc
    BY <1>2 DEF Load
  <2> QED BY <2>1, <2>2 DEF NothingToRecover
<1>3. CASE LoadFinish
  <2>1. pc = "finish" /\ pc' = "ready" /\ UNCHANGED <<gc, flash>>
    BY <1>3 DEF LoadFinish
  <2>2. idle # <<>>
    BY <2>1 DEF OrderInv, Placing, NothingToRecover
  <2>3. UNCHANGED idle
    BY <1>3, <2>2 DEF LoadFinish
  <2>4. \A s \in Range(idle) : ~ Used(s)
    BY <2>1 DEF OrderInv, Reserve
  <2> QED BY <2>1, <2>3, <2>4 DEF NothingToRecover, Used
<1>4. CASE Unload
  <2>1. pc = "ready" /\ pc' = "off" /\ UNCHANGED <<gc, flash>>
    BY <1>4 DEF Unload
  <2>2. idle # <<>>
    BY <2>1 DEF OrderInv, Reserve
  <2>3. PICK s \in Range(idle) : s \in Sector
    BY <1>1, <2>2, InRange DEF StoreType
  <2>4. ~ Used(s)
    BY <2>1 DEF NothingToRecover
  <2>5. \A t \in Sector : ~ IsDeleting(t)
    BY <2>1 DEF IInv, Headers
  <2> QED BY <2>1, <2>3, <2>4, <2>5 DEF NothingToRecover, Used, IsDeleting
<1> QED BY <1>2, <1>3, <1>4

\* And there is nothing for a start to go on with.
LEMMA NoRecovery ==
    ASSUME IInv, NothingToRecover, CheckGcWipe \/ CheckGcErase \/ CheckGcKeep \/ CheckGcStart
    PROVE  FALSE
<1>1. pc = "checkgc" /\ Deleting # {}
  BY DEF NothingToRecover, CheckGcWipe, CheckGcErase, CheckGcKeep, CheckGcStart
<1>2. StoreType /\ ListsOK
  BY <1>1 DEF IInv, TypeOK
<1>3. PICK s \in Range(active) : ram[s].st = "deleting"
  BY <1>1, <1>2, DeletingFound
<1>4. s \in Sector
  BY <1>2, <1>3, CurActive
<1>5. IsDeleting(s)
  BY <1>1, <1>3, <1>4 DEF IInv, Headers
<1> QED BY <1>1, <1>4, <1>5 DEF NothingToRecover

LEMMA StepRecover ==
    ASSUME IInv, OrderInv, NothingToRecover, [Next]_vars, ~ PowerOff
    PROVE  NothingToRecover'
<1>1. CASE \/ WriteTooLong \/ WriteFull \/ RequestNoSpace
           \/ WriteItem \/ WriteItemData \/ EraseOld \/ GcCopy \/ GcCopyData
           \/ CheckWriteNothing \/ CheckGcNothing \/ CheckWriteData \/ CheckWriteOld
           \/ (\E k \in Keys : Delete(k))
           \/ \E k \in Keys, v \in Values : SetSame(k, v) \/ SetBegin(k, v)
  BY <1>1, SameSteps
<1>2. CASE \/ WriteInit \/ RequestIdle \/ GcStart \/ GcInit \/ GcMark \/ GcCrash \/ GcErase
  BY <1>2, SectorRecover
<1>3. CASE Load \/ LoadFinish \/ Unload
  BY <1>3, StartRecover
<1>4. CASE CheckGcWipe \/ CheckGcErase \/ CheckGcKeep \/ CheckGcStart
  BY <1>4, NoRecovery
<1>5. CASE UNCHANGED vars
  BY <1>5 DEF vars, loaded, NothingToRecover, Used, IsDeleting
<1>6. CASE \E k \in Keys, t \in Types : Get(k, t)
  BY <1>5, <1>6 DEF Get
<1> QED BY <1>1, <1>2, <1>3, <1>4, <1>5, <1>6 DEF Next, Step, Call

\* What the two counters of a call keep to: the place of the old item and the size of the new.
CallFits ==
    /\ Calling /\ op.found => op.at < Slices
    /\ Calling /\ op.retry => SpanOf[op.v] <= Slices

LEMMA SameCallFits ==
    ASSUME CallFits, UNCHANGED op, Calling' => Calling
    PROVE  CallFits'
<1>1. Calling' => Calling
  OBVIOUS
<1> HIDE DEF Calling
<1> QED BY <1>1 DEF CallFits

\* Steps behind which a call waits for no room.
LEMMA NoRoomNeeded ==
    ASSUME CallFits', pc' \notin {"gcinit", "gcmark", "gccopy", "gcdata", "gcerase"},
           pc' = "write" => ~ op'.retry
    PROVE  CopyLeavesRoom'
BY DEF CopyLeavesRoom, CallFits

LEMMA EndFits ==
    ASSUME pc' \notin {"write", "data", "eraseold", "gcinit", "gcmark", "gccopy", "gcdata",
                       "gcerase"}
    PROVE  CopyLeavesRoom'
BY DEF CopyLeavesRoom, Calling, InGc

LEMMA SetBeginFits ==
    ASSUME IInv, LayoutInv, NEW k \in Keys, NEW v \in Values, SetBegin(k, v)
    PROVE  CopyLeavesRoom'
<1>1. PICK f : f = FindItem(k, Types)
  OBVIOUS
<1>2. /\ pc' = "write" /\ op'.found = f.found /\ op'.retry = FALSE
      /\ f.found => op'.at = FoundItem(f).at
  BY <1>1 DEF SetBegin
<1>3. ASSUME f.found PROVE op'.at < Slices
  <2>1. StoreType
    BY DEF IInv, TypeOK
  <2>2. /\ f.sec \in Sector /\ f.i \in Matches(flash[f.sec], ram[f.sec], k, Types)
        /\ FoundItem(f) = It(f.sec, f.i)
    BY <1>1, <1>3, <2>1, FindItemFinds
  <2>3. PICK s, i, log : s = f.sec /\ i = f.i /\ log = flash[s].log
    OBVIOUS
  <2>4. s \in Sector /\ i \in LiveAt(log) /\ log \in Seq(Item) /\ Packed(log)
    BY <2>1, <2>2, <2>3, SectorTypes DEF Matches, LayoutInv
  <2>5. log[i].at \in Nat /\ log[i].span \in Nat /\ i \in DOMAIN log
    BY <2>4, LiveInLog
  <2>6. log[i].span >= 1 /\ log[i].at + log[i].span <= Slices
    BY <2>4, <2>5 DEF Packed
  <2>7. log[i].at < Slices
    BY <2>5, <2>6, SlicesAssumption
  <2> QED BY <1>2, <1>3, <2>2, <2>3, <2>7 DEF It
<1>4. CallFits'
  BY <1>2, <1>3 DEF CallFits
<1> QED BY <1>2, <1>4, NoRoomNeeded

\* A sector just taken for the item has room, since it is to be erased.
LEMMA RequestIdleFits ==
    ASSUME IInv, OrderInv, NothingToRecover, CopyLeavesRoom, RequestIdle
    PROVE  CopyLeavesRoom'
<1>1. /\ pc = "write" /\ pc' = "write" /\ UNCHANGED gc /\ Activate /\ idle # <<>>
      /\ ~ Fresh(Cur) /\ SpanOf[op.v] <= Slices /\ op' = [op EXCEPT !.retry = TRUE]
  BY DEF RequestIdle, NeedSector, Fresh
<1>2. PICK s : s = Head(idle)
  OBVIOUS
<1>3. Cur' = s /\ s \in Range(idle) /\ (Fresh(s)' \/ (Used(s)' /\ flash'[s] = flash[s]))
  BY <1>1, <1>2, ActivateOrder
<1>4. ~ Used(s)
  BY <1>1, <1>3 DEF NothingToRecover
<1>5. Fresh(Cur)'
  BY <1>3, <1>4 DEF Used, Fresh
<1>6. op'.found = op.found /\ op'.at = op.at /\ op'.v = op.v
  BY <1>1 DEF IInv, TypeOK, ControlType
<1>7. op.found => op.at < Slices
  BY <1>1 DEF CopyLeavesRoom, Calling
<1> QED BY <1>1, <1>5, <1>6, <1>7 DEF CopyLeavesRoom

LEMMA WriteInitFits ==
    ASSUME IInv, OrderInv, CopyLeavesRoom, WriteInit
    PROVE  CopyLeavesRoom'
<1>1. /\ pc = "write" /\ pc' = "write" /\ UNCHANGED <<op, active>>
      /\ Fresh(Cur) /\ InitSector(Cur)
  BY DEF WriteInit, Fresh
<1>2. StoreType /\ ListsOK /\ Cur \in Sector
  BY <1>1, CurActive DEF IInv, TypeOK
<1>3. PICK s \in Sector : s = Cur
  BY <1>2
<1>4. ram'[s].next = 0 /\ Cur' = s
  BY <1>1, <1>2, <1>3, InitCalm DEF OrderInv, Cur
<1>5. CallFits
  BY DEF CopyLeavesRoom, CallFits
<1>6. CallFits' /\ (op.retry => SpanOf[op.v] <= Slices)
  BY <1>1, <1>5, SameCallFits DEF Calling, CallFits
<1>7. op.retry => SpanOf[op.v] \in Nat
  BY <1>1, SpanAssumption DEF IInv, OpSet, Calling
<1>8. op'.retry => 0 + SpanOf[op'.v] <= Slices
  BY <1>1, <1>6, <1>7
<1> QED BY <1>1, <1>4, <1>6, <1>8 DEF CopyLeavesRoom, CallFits, HasRoom

\* Collection starts where it pays: what is live in the sector leaves room for the item.
LEMMA GcStartFits ==
    ASSUME IInv, OrderInv, Tally, crashes = 0, NothingToRecover, CopyLeavesRoom, GcStart
    PROVE  CopyLeavesRoom'
<1>1. /\ pc = "write" /\ Activate /\ Len(idle) = 1 /\ GcPays
      /\ ~ Fresh(Cur) /\ SpanOf[op.v] <= Slices /\ op' = [op EXCEPT !.retry = TRUE]
      /\ gc' = [src |-> Dirtiest, dst |-> Head(idle), i |-> 1, d |-> 0, rec |-> FALSE]
      /\ pc' = IF ram'[Head(idle)].st = "uninit" THEN "gcinit" ELSE "gcmark"
  BY DEF GcStart, NeedSector, Fresh
<1>2. StoreType /\ ListsOK /\ idle # <<>>
  <2>1. Len(idle) = 1 /\ Len(<<>>) = 0
    BY <1>1
  <2>2. StoreType /\ ListsOK
    BY <1>1 DEF IInv, TypeOK
  <2> QED BY <2>1, <2>2
<1>3. PICK s, d : s = Head(idle) /\ d = Dirtiest
  OBVIOUS
<1>4. pc' \notin {"gcerase", "recerase"}
  BY <1>1
<1>5. /\ s \in Range(idle) /\ (Fresh(s)' \/ (Used(s)' /\ flash'[s] = flash[s]))
      /\ \A t \in Sector \ {s} : flash'[t] = flash[t]
  BY <1>1, <1>2, <1>3, <1>4, ActivateOrder
<1>6. pc' = "gcinit"
  <2>1. ~ Used(s)
    BY <1>1, <1>5 DEF NothingToRecover
  <2>2. Fresh(s)'
    BY <1>5, <2>1 DEF Used
  <2> QED BY <1>1, <1>3, <2>2 DEF Fresh
<1>7. d \in Range(active) /\ d \in Sector /\ d # s /\ Used(d)
  <2>1. d \in Range(active)
    BY <1>2, <1>3, DirtiestActive
  <2> QED BY <1>1, <1>2, <1>5, <2>1, AllActiveUsed DEF ListsOK
<1>8. IsUsed(ram[d].st) /\ Uncounted(d) = 0
  BY <1>1, <1>7, NothingUncounted DEF OrderInv, Agree, Used
<1>9. PICK log : log = flash[d].log
  OBVIOUS
<1>10. Size(log, Live) + ram[d].droped <= ram[d].used
  <2>1. Size(log, Live) + ram[d].droped <= ram[d].used + 0
    BY <1>7, <1>8, <1>9 DEF Tally, Undisturbed
  <2> QED BY <1>2, <1>7, <2>1, SectorTypes DEF RamSector, CounterMod
<1>11. Slices - ram[d].used + ram[d].droped >= SpanOf[op.v]
  BY <1>1, <1>3 DEF GcPays, GcSize
<1>12. log \in Seq(Item) /\ Size(log, Live) \in Nat
  BY <1>2, <1>7, <1>9, SectorTypes, SizeNat
<1>13. ram[d].used \in Int /\ ram[d].droped \in Int /\ SpanOf[op.v] \in Int /\ Slices \in Int
  BY <1>1, <1>2, <1>7, SectorTypes, SpanAssumption, SlicesAssumption
     DEF RamSector, CounterMod, IInv, OpSet, Calling
<1>14. 0 + Size(log, Live) + SpanOf[op.v] <= Slices
  BY <1>10, <1>11, <1>12, <1>13
<1>15. ToCopy' = With(log, Live)
  <2>1. gc'.src = d /\ gc'.i = 1 /\ flash'[d].log = log
    BY <1>1, <1>3, <1>5, <1>7, <1>9
  <2>2. ToCopy' = {i \in LiveAt(log) : i >= 1}
    BY <2>1 DEF ToCopy
  <2> QED BY <1>12, <2>2 DEF LiveAt, IsLive, With, Live
<1>16. Size(log, Live) = Cardinality(Taken(log, With(log, Live)))
  BY SizeIsTaken
<1>17. gc'.d + Cardinality(Taken(flash'[gc'.src].log, ToCopy')) + SpanOf[op'.v] <= Slices
  <2>1. /\ gc'.src = d /\ gc'.d = 0 /\ flash'[d].log = log /\ op'.v = op.v
    BY <1>1, <1>3, <1>5, <1>7, <1>9 DEF IInv, TypeOK, ControlType
  <2> QED BY <1>14, <1>15, <1>16, <2>1
<1>18. op'.found = op.found /\ op'.at = op.at /\ op'.v = op.v
  BY <1>1 DEF IInv, TypeOK, ControlType
<1>19. op.found => op.at < Slices
  BY <1>1 DEF CopyLeavesRoom, Calling
<1> QED BY <1>1, <1>6, <1>17, <1>18, <1>19 DEF CopyLeavesRoom

\* Between the start of collection and the first copy nothing changes in the sector.
LEMMA GcBeginFits ==
    ASSUME IInv, OrderInv, NothingToRecover, CopyLeavesRoom, GcInit \/ GcMark
    PROVE  CopyLeavesRoom'
<1>1. /\ pc \in {"gcinit", "gcmark"} /\ ~ gc.rec /\ InGc /\ Calling
      /\ UNCHANGED <<active, idle, serial, op, gc>>
  BY DEF GcInit, GcMark, NothingToRecover, InGc, Calling
<1>2. /\ StoreType /\ gc.src \in Sector /\ gc.dst \in Sector /\ gc.src # gc.dst
  BY <1>1 DEF IInv, TypeOK, ControlType, GcSet
<1>3. pc' \in {"gcmark", "gccopy"} /\ Calling'
  BY <1>1 DEF GcInit, GcMark, Calling, InGc
<1>4. \A t \in Sector : flash'[t].log = flash[t].log
  BY <1>2, InitSectorKeeps, SetStateKeeps DEF GcInit, GcMark
<1>5. ram'[gc.dst].next = gc.d
  <2>1. CASE GcInit
    BY <1>2, <2>1, InitCalm DEF GcInit, OrderInv, Collecting
  <2>2. CASE GcMark
    <3>1. ram'[gc.dst] = ram[gc.dst]
      BY <1>1, <1>2, <2>2, SetStateKeeps DEF GcMark
    <3> QED BY <2>2, <3>1 DEF GcMark, CopyLeavesRoom
  <2> QED BY <2>1, <2>2
<1>6. ToCopy' = ToCopy
  BY <1>1, <1>2, <1>4 DEF ToCopy
<1>7. gc.d + Cardinality(Taken(flash[gc.src].log, ToCopy)) + SpanOf[op.v] <= Slices
  BY <1>1 DEF CopyLeavesRoom
<1>8. gc'.d + Cardinality(Taken(flash'[gc'.src].log, ToCopy')) + SpanOf[op'.v] <= Slices
  BY <1>1, <1>2, <1>4, <1>6, <1>7
<1>9. CallFits'
  <2>1. CallFits
    BY DEF CopyLeavesRoom, CallFits
  <2> QED BY <1>1, <2>1, SameCallFits
<1> QED BY <1>1, <1>3, <1>5, <1>8, <1>9 DEF CopyLeavesRoom, CallFits

\* With one item copied there is that much less to copy.
LEMMA OneLessToCopy ==
    ASSUME IInv, OrderInv, LayoutInv, CopyLeavesRoom,
           pc \in {"gccopy", "gcdata"}, ToCopy # {}, UNCHANGED op,
           NEW n, n = LeastOf(ToCopy), NEW span, span = Copied.span,
           gc' = [gc EXCEPT !.i = n + 1, !.d = @ + span], flash'[gc.src] = flash[gc.src]
    PROVE  /\ gc'.src = gc.src /\ gc'.dst = gc.dst /\ gc'.rec = gc.rec /\ gc'.d = gc.d + span
           /\ gc'.d + Cardinality(Taken(flash'[gc'.src].log, ToCopy')) + SpanOf[op'.v] <= Slices
<1>1. ControlType /\ gc.src \in Sector /\ gc.i \in Nat /\ gc.d \in Nat
  BY CopyPlaces
<1>2. StoreType
  BY DEF IInv, TypeOK
<1>3. PICK log : log = flash[gc.src].log
  OBVIOUS
<1>4. log \in Seq(Item) /\ Packed(log)
  BY <1>1, <1>2, <1>3, SectorTypes DEF LayoutInv
<1>5. ToCopy \subseteq DOMAIN log /\ DOMAIN log \subseteq Nat
  BY <1>3, <1>4 DEF ToCopy, LiveAt
<1>6. n \in ToCopy /\ \A i \in ToCopy : n <= i
  BY <1>5, LeastOfIsLeast
<1>7. n \in Nat /\ log[n] \in Item /\ Copied.span = log[n].span
  <2>1. n \in DOMAIN log /\ n \in Nat
    BY <1>5, <1>6
  <2>2. log[n] \in Item
    BY <1>4, <2>1
  <2> QED BY <1>3, <2>1, <2>2 DEF Copied, Item
<1>8. span \in Nat
  BY <1>7 DEF Item
<1>9. /\ gc'.src = gc.src /\ gc'.dst = gc.dst /\ gc'.rec = gc.rec
      /\ gc'.d = gc.d + span /\ gc'.i = n + 1
  BY <1>1 DEF ControlType
<1>10. ToCopy' = ToCopy \ {n}
  <2>1. ToCopy' = {i \in LiveAt(log) : i >= n + 1}
    BY <1>3, <1>9 DEF ToCopy
  <2>2. ToCopy = {i \in LiveAt(log) : i >= gc.i}
    BY <1>3 DEF ToCopy
  <2>3. LiveAt(log) \subseteq Nat
    BY <1>4 DEF LiveAt
  <2>4. n >= gc.i
    BY <1>6, <2>2
  <2>5. ASSUME NEW i \in LiveAt(log) PROVE i >= n + 1 <=> i >= gc.i /\ i # n
    <3>1. i >= gc.i => n <= i
      BY <1>6, <2>2
    <3> QED BY <1>1, <1>7, <2>3, <2>4, <3>1
  <2> QED BY <2>1, <2>2, <2>5
<1>11. PICK all, rest \in Nat : /\ all = Cardinality(Taken(log, ToCopy))
                                /\ rest = Cardinality(Taken(log, ToCopy \ {n}))
                                /\ all = rest + log[n].span
  BY <1>4, <1>5, <1>6, TakenWithout
<1>12. gc.d + all + SpanOf[op.v] <= Slices
  BY <1>3, <1>11 DEF CopyLeavesRoom
<1>13. Calling \/ gc.rec
  BY DEF Calling, InGc
<1>14. (gc.d + span) + rest + SpanOf[op.v] <= Slices
  <2>1. all = rest + span
    BY <1>7, <1>11
  <2>2. gc.d + all = (gc.d + span) + rest
    BY <1>1, <1>8, <1>11, <2>1
  <2> QED BY <1>12, <2>2
<1>15. Taken(flash'[gc'.src].log, ToCopy') = Taken(log, ToCopy \ {n})
  BY <1>3, <1>9, <1>10
<1> QED BY <1>9, <1>11, <1>14, <1>15

LEMMA GcCopyFits ==
    ASSUME IInv, OrderInv, LayoutInv, NothingToRecover, CopyLeavesRoom, GcCopy
    PROVE  CopyLeavesRoom'
<1>1. PICK it, dst : it = Copied /\ dst = gc.dst
  OBVIOUS
<1>2. /\ pc = "gccopy" /\ ToCopy # {} /\ WriteHeader(dst, it) /\ UNCHANGED op
      /\ \/ /\ it.span = 1 /\ Account(dst, it) /\ pc' = "gccopy"
            /\ gc' = [gc EXCEPT !.i = LeastOf(ToCopy) + 1, !.d = @ + 1]
         \/ pc' = "gcdata" /\ UNCHANGED <<ram, gc>>
  BY <1>1 DEF GcCopy
<1>3. /\ StoreType /\ gc.src \in Sector /\ dst \in Sector /\ gc.src # dst
  BY <1>1, <1>2, CopyPlaces
<1>4. flash'[gc.src] = flash[gc.src]
  BY <1>1, <1>2, <1>3 DEF WriteHeader, StoreType
<1>5. Calling /\ ~ gc.rec /\ ram[dst].next = gc.d
  BY <1>1, <1>2 DEF NothingToRecover, Calling, InGc, CopyLeavesRoom
<1>6. CallFits'
  <2>1. CallFits
    BY DEF CopyLeavesRoom, CallFits
  <2> QED BY <1>2, <1>5, <2>1, SameCallFits
<1>7. CASE /\ it.span = 1 /\ Account(dst, it) /\ pc' = "gccopy"
           /\ gc' = [gc EXCEPT !.i = LeastOf(ToCopy) + 1, !.d = @ + 1]
  <2>1. PICK n, span : n = LeastOf(ToCopy) /\ span = Copied.span
    OBVIOUS
  <2>2. gc' = [gc EXCEPT !.i = n + 1, !.d = @ + span] /\ span = 1
    BY <1>1, <1>7, <2>1
  <2>3. /\ gc'.dst = gc.dst /\ gc'.d = gc.d + span
        /\ gc'.d + Cardinality(Taken(flash'[gc'.src].log, ToCopy')) + SpanOf[op'.v] <= Slices
    BY <1>2, <1>4, <2>1, <2>2, OneLessToCopy
  <2>4. ram'[dst].next = ram[dst].next + 1
    BY <1>3, <1>7 DEF Account, StoreType, RamSector
  <2> QED BY <1>1, <1>5, <1>6, <1>7, <2>2, <2>3, <2>4 DEF CopyLeavesRoom, CallFits
<1>8. CASE pc' = "gcdata" /\ UNCHANGED <<ram, gc>>
  <2>1. ToCopy' = ToCopy
    BY <1>4, <1>8 DEF ToCopy
  <2>2. gc.d + Cardinality(Taken(flash[gc.src].log, ToCopy)) + SpanOf[op.v] <= Slices
    BY <1>2 DEF CopyLeavesRoom
  <2>3. gc'.d + Cardinality(Taken(flash'[gc'.src].log, ToCopy')) + SpanOf[op'.v] <= Slices
    BY <1>2, <1>4, <1>8, <2>1, <2>2
  <2> QED BY <1>1, <1>5, <1>6, <1>8, <2>3 DEF CopyLeavesRoom, CallFits
<1> QED BY <1>2, <1>7, <1>8

LEMMA GcCopyDataFits ==
    ASSUME IInv, OrderInv, LayoutInv, NothingToRecover, CopyLeavesRoom, GcCopyData
    PROVE  CopyLeavesRoom'
<1>1. PICK n, span, dst : n = LeastOf(ToCopy) /\ span = Copied.span /\ dst = gc.dst
  OBVIOUS
<1>2. /\ pc = "gcdata" /\ pc' = "gccopy" /\ WriteData(dst) /\ UNCHANGED op
      /\ flash[dst].log # <<>> /\ ToCopy # {}
      /\ Last(flash[dst].log).span = span /\ Last(flash[dst].log).st # "torn"
      /\ gc' = [gc EXCEPT !.i = n + 1, !.d = @ + span]
  BY <1>1 DEF GcCopyData, IInv, DataBegun, LayoutInv, Between
<1>3. /\ StoreType /\ gc.src \in Sector /\ dst \in Sector /\ gc.src # dst
  BY <1>1, <1>2, CopyPlaces
<1>4. flash'[gc.src] = flash[gc.src] /\ ram'[dst].next = ram[dst].next + span
  BY <1>2, <1>3, DataLayout
<1>5. Calling /\ ~ gc.rec /\ ram[dst].next = gc.d
  BY <1>1, <1>2 DEF NothingToRecover, Calling, InGc, CopyLeavesRoom
<1>6. CallFits'
  <2>1. CallFits
    BY DEF CopyLeavesRoom, CallFits
  <2> QED BY <1>2, <1>5, <2>1, SameCallFits
<1>7. /\ gc'.dst = gc.dst /\ gc'.d = gc.d + span
      /\ gc'.d + Cardinality(Taken(flash'[gc'.src].log, ToCopy')) + SpanOf[op'.v] <= Slices
  BY <1>1, <1>2, <1>4, OneLessToCopy
<1> QED BY <1>1, <1>2, <1>4, <1>5, <1>6, <1>7 DEF CopyLeavesRoom, CallFits

\* What is copied leaves room for the item, and erasing the sector leaves it alone.
LEMMA GcEndFits ==
    ASSUME IInv, OrderInv, NothingToRecover, CopyLeavesRoom, GcCrash \/ GcErase
    PROVE  CopyLeavesRoom'
<1>1. /\ pc \in {"gccopy", "gcerase"} /\ ~ gc.rec /\ InGc /\ Calling /\ UNCHANGED op
  BY DEF GcCrash, GcErase, NothingToRecover, InGc, Calling
<1>2. /\ StoreType /\ ListsOK /\ gc.src \in Sector /\ gc.dst \in Sector /\ gc.src # gc.dst
      /\ gc.dst = Cur /\ gc.src \in Range(active) /\ gc.dst \in Range(active)
  BY <1>1 DEF IInv, TypeOK, ControlType, GcSet, OrderInv, Collecting
<1>3. CallFits'
  <2>1. CallFits
    BY DEF CopyLeavesRoom, CallFits
  <2> QED BY <1>1, <2>1, SameCallFits
<1>4. CASE GcCrash
  <2>1. /\ pc = "gccopy" /\ ToCopy = {} /\ pc' = "gcerase" /\ SetState(gc.src, "crash")
        /\ UNCHANGED active
    BY <1>4 DEF GcCrash
  <2>2. Cardinality(Taken(flash[gc.src].log, ToCopy)) = 0
    <3>1. Taken(flash[gc.src].log, ToCopy) = {}
      BY <2>1 DEF Taken
    <3> QED BY <3>1, FS_EmptySet
  <2>3. ram[gc.dst].next = gc.d /\ gc.d + 0 + SpanOf[op.v] <= Slices
    BY <2>1, <2>2 DEF CopyLeavesRoom
  <2>4. gc.d \in Nat
    BY DEF IInv, TypeOK, ControlType
  <2>5. ram'[Cur] = ram[Cur] /\ Cur' = Cur
    BY <1>2, <2>1 DEF SetState, Cur, StoreType
  <2>6. HasRoom(ram[Cur], SpanOf[op.v])
    BY <1>2, <2>3, <2>4 DEF HasRoom
  <2>7. HasRoom(ram'[Cur'], SpanOf[op'.v])
    BY <1>1, <2>5, <2>6
  <2> QED BY <1>3, <2>1, <2>7 DEF CopyLeavesRoom, CallFits
<1>5. CASE GcErase
  <2>1. pc = "gcerase" /\ pc' = "write" /\ EraseToIdle(gc.src)
    BY <1>1, <1>5 DEF GcErase
  <2>2. PICK s : s = gc.src
    OBVIOUS
  <2>3. s \in Range(active) /\ Range(active) # {s} /\ ~ Used(s) /\ s # Cur
    BY <1>2, <2>1, <2>2 DEF OrderInv, Collecting, Used, IsUsed
  <2>4. Cur' = Cur /\ \A t \in Sector \ {s} : ram'[t] = ram[t]
    BY <2>1, <2>2, <2>3, EraseOrder
  <2>5. ram'[Cur] = ram[Cur]
    BY <1>2, <2>3, <2>4
  <2>6. Fresh(Cur) \/ HasRoom(ram[Cur], SpanOf[op.v])
    BY <2>1 DEF CopyLeavesRoom
  <2>7. Fresh(Cur)' \/ HasRoom(ram'[Cur'], SpanOf[op'.v])
    BY <1>1, <2>4, <2>5, <2>6 DEF Fresh
  <2> QED BY <1>3, <2>1, <2>7 DEF CopyLeavesRoom, CallFits
<1> QED BY <1>4, <1>5

LEMMA StepFits ==
    ASSUME IInv, OrderInv, LayoutInv, Tally, crashes = 0, NothingToRecover, NothingToRecover',
           CopyLeavesRoom, [Next]_vars, ~ PowerOff
    PROVE  CopyLeavesRoom'
<1>1. CASE \E k \in Keys, v \in Values : SetBegin(k, v)
  BY <1>1, SetBeginFits
<1>2. CASE WriteInit \/ RequestIdle \/ GcStart
  BY <1>2, WriteInitFits, RequestIdleFits, GcStartFits
<1>3. CASE GcInit \/ GcMark \/ GcCopy \/ GcCopyData \/ GcCrash \/ GcErase
  BY <1>3, GcBeginFits, GcCopyFits, GcCopyDataFits, GcEndFits
<1>4. CASE WriteItem \/ WriteItemData
  <2>1. /\ pc \in {"write", "data"} /\ pc' \in {"data", "eraseold"} /\ UNCHANGED <<op, gc>>
    BY <1>4 DEF WriteItem, WriteItemData, CanWrite
  <2>2. CallFits
    BY DEF CopyLeavesRoom, CallFits
  <2>3. CallFits'
    BY <2>1, <2>2, SameCallFits DEF Calling
  <2> QED BY <2>1, <2>3, NoRoomNeeded
<1>5. CASE \/ WriteTooLong \/ WriteFull \/ RequestNoSpace \/ EraseOld
           \/ CheckWriteNothing \/ CheckGcNothing \/ CheckWriteData \/ CheckWriteOld
           \/ (\E k \in Keys : Delete(k)) \/ (\E k \in Keys, v \in Values : SetSame(k, v))
           \/ Load \/ LoadFinish \/ Unload
  <2>1. pc' \in {"ready", "off", "checkwrite", "checkgc", "finish"}
    BY <1>5 DEF WriteTooLong, WriteFull, RequestNoSpace, EraseOld, CheckWriteNothing,
                CheckGcNothing, CheckWriteData, CheckWriteOld, Delete, SetSame, Load, LoadFinish,
                Unload, Return
  <2> QED BY <2>1, EndFits
<1>6. CASE CheckGcWipe \/ CheckGcErase \/ CheckGcKeep \/ CheckGcStart
  BY <1>6, NoRecovery
<1>7. CASE UNCHANGED vars
  BY <1>7 DEF vars, loaded, CopyLeavesRoom, Calling, InGc, ToCopy, Fresh, Cur
<1>8. CASE \E k \in Keys, t \in Types : Get(k, t)
  BY <1>7, <1>8 DEF Get
<1> QED BY <1>1, <1>2, <1>3, <1>4, <1>5, <1>6, <1>7, <1>8 DEF Next, Step, Call

LEMMA StepRoom ==
    ASSUME IInv, OrderInv, LayoutInv, Tally, Room, ControlType, [Next]_vars
    PROVE  Room'
<1>1. CASE PowerOff
  BY <1>1 DEF PowerOff, Room, ControlType
<1>2. ASSUME ~ PowerOff, crashes' = 0 PROVE NothingToRecover' /\ CopyLeavesRoom'
  <2>1. crashes' = crashes
    BY <1>2 DEF Next, Step, Call, Unload, WriteInit, WriteTooLong, WriteFull, RequestIdle,
       RequestNoSpace, GcStart, GcInit, GcMark, GcCrash, GcErase, CheckWriteNothing,
       CheckGcNothing, CheckGcWipe, CheckGcErase, CheckGcKeep, CheckGcStart, LoadFinish,
       SetSame, SetBegin, WriteItem, WriteItemData, GcCopy, GcCopyData, CheckWriteData,
       CheckWriteOld, Delete, EraseOld, Load, Get, vars
  <2>2. crashes = 0 /\ NothingToRecover /\ CopyLeavesRoom
    BY <1>2, <2>1 DEF Room
  <2>3. NothingToRecover'
    BY <1>2, <2>2, StepRecover
  <2> QED BY <1>2, <2>2, <2>3, StepFits
<1> QED BY <1>1, <1>2 DEF Room

LEMMA InitRoom ==
    ASSUME Init
    PROVE  Room
<1>1. \A s \in Sector : ~ Used(s) /\ ~ IsDeleting(s)
  BY DEF Init, Blank, Used, IsUsed, IsDeleting
<1>2. 0 \in Sector
  BY SecNumAssumption DEF Sector
<1> QED BY <1>1, <1>2 DEF Init, Room, NothingToRecover, CopyLeavesRoom, NoGc, NoOp, Calling, InGc

\* The counters that decide where the next item goes and whether collection pays fit the
\* items, whatever the code is doing; and while power has not failed a collection leaves room
\* for the item it is done for.
THEOREM CountHolds == Spec => []CountInv
<1>1. Init => Tally /\ Room
  BY InitTally, InitRoom
<1>2. IInv /\ OrderInv /\ LayoutInv /\ ContentInv /\ Tally /\ Room /\ [Next]_vars
      => Tally' /\ Room'
  BY StepTally, StepRoom DEF IInv, TypeOK
<1>3. CountInv <=> Tally /\ Room
  BY CountInvIs
<1> QED BY <1>1, <1>2, <1>3, InvariantHolds, OrderHolds, LayoutHolds, ContentHolds, PTL DEF Spec

\* The inductive invariant of the store, with all its parts.
THEOREM StoreInvHolds == Spec => []StoreInv
<1>1. IInv /\ OrderInv /\ LayoutInv /\ ContentInv /\ CountInv => StoreInv
  BY DEF StoreInv
<1> QED BY <1>1, InvariantHolds, OrderHolds, LayoutHolds, ContentHolds, CountHolds, PTL

\* While the store is idle the slice counters of a sector in use tell how much of it is
\* taken, and, unless power has failed, how much of that is dropped.
THEOREM CountersTellTheTruth == Spec => []CountersAgree
<1>1. ASSUME IInv, OrderInv, LayoutInv, CountInv, Idle,
             NEW s \in Range(active), IsUsed(ram[s].st), flash[s].stale = {}
      PROVE  /\ ram[s].st = flash[s].hdr
             /\ ram[s].next = IF LogEnd(flash[s].log) > Slices THEN Slices
                              ELSE LogEnd(flash[s].log)
             /\ ram[s].used = Count(Size(flash[s].log, ItemStatus))
             /\ crashes = 0 => ram[s].droped = Size(flash[s].log, {"droped"})
  <2>1. StoreType /\ s \in Sector
    BY <1>1, CurActive DEF IInv, TypeOK, Idle
  <2>2. PICK log : log = flash[s].log
    OBVIOUS
  <2>3. log \in Seq(Item) /\ Packed(log) /\ LogEnd(log) \in Nat
    BY <1>1, <2>1, <2>2, SectorTypes, ItemNumbers DEF LayoutInv
  <2>4. ram[s].used \in Int /\ ram[s].droped \in Int
    BY <2>1, SectorTypes DEF RamSector, CounterMod
  <2>5. Uncounted(s) = 0
    BY <1>1, <2>1, NothingUncounted DEF Idle
  <2>6. /\ ram[s].used = LogEnd(log)
        /\ ram[s].next = IF ram[s].used > Slices THEN Slices ELSE ram[s].used
    <3>1. ram[s].used + 0 = LogEnd(log)
      BY <1>1, <2>1, <2>2, <2>5 DEF CountInv, Exact
    <3>2. ram[s].next = IF ram[s].used > Slices THEN Slices ELSE ram[s].used
      BY <1>1, <2>1 DEF CountInv, Exact
    <3> QED BY <2>3, <2>4, <3>1, <3>2
  <2>7. Size(log, ItemStatus) = LogEnd(log) /\ LogEnd(log) < CounterMod
    BY <1>1, <2>1, <2>2 DEF CountInv, LogCounted
  <2>8. Count(LogEnd(log)) = LogEnd(log)
    BY <2>3, <2>7, SlicesAssumption DEF Count, CounterMod
  <2>9. ram[s].st = flash[s].hdr
    BY <1>1, <2>1 DEF OrderInv, Agree, Idle
  <2>10. ASSUME crashes = 0 PROVE ram[s].droped = Size(log, {"droped"})
    <3>1. Undisturbed(s)
      BY <1>1, <2>1, <2>10 DEF CountInv
    <3>2. Size(log, Live) + ram[s].droped = LogEnd(log)
      <4>1. Size(log, Live) + ram[s].droped = ram[s].used + 0
        BY <1>1, <2>2, <2>5, <3>1 DEF Undisturbed
      <4> QED BY <2>3, <2>4, <2>6, <4>1
    <3>3. With(log, ItemStatus) = With(log, Live \union {"droped"})
      <4>1. \A i \in DOMAIN log : log[i].st # "torn"
        BY <2>2, <3>1 DEF Undisturbed
      <4> QED BY <4>1 DEF With, ItemStatus, Live
    <3>4. Size(log, ItemStatus) = Size(log, Live \union {"droped"})
      BY <3>3, SizeIsTaken
    <3>5. Size(log, Live \union {"droped"}) = Size(log, Live) + Size(log, {"droped"})
      <4>1. Live \cap {"droped"} = {}
        BY DEF Live
      <4> QED BY <2>3, <4>1, SizeSplits
    <3>6. Size(log, Live) \in Nat /\ Size(log, {"droped"}) \in Nat
      BY <2>3, SizeNat
    <3> QED BY <2>3, <2>4, <2>7, <3>2, <3>4, <3>5, <3>6
  <2> QED BY <2>2, <2>6, <2>7, <2>8, <2>9, <2>10
<1>2. IInv /\ OrderInv /\ LayoutInv /\ CountInv => CountersAgree
  BY <1>1 DEF CountersAgree
<1> QED BY <1>2, InvariantHolds, OrderHolds, LayoutHolds, CountHolds, PTL

\* While power has not failed, a set for which a sector was taken or collected finds room
\* there: the second JEKV_ERR_SECTOR_FULL of jekv_sm_write_item never reaches the caller.
THEOREM CollectedFits == Spec => []RetryFits
<1>1. CountInv => RetryFits
  BY DEF CountInv, CopyLeavesRoom, RetryFits, Fresh
<1> QED BY <1>1, CountHolds, PTL

-----------------------------------------------------------------------------
(* JEKV_ERR_NO_SPACE *)

\* A call has returned nothing yet.
Unanswered == Calling => res = "none"

LEMMA AnswersLast == Spec => []Unanswered
<1>1. Init => Unanswered
  BY DEF Init, Unanswered
<1>2. ASSUME IInv, Unanswered, [Next]_vars PROVE Unanswered'
  <2>1. CASE \E k \in Keys, v \in Values : SetBegin(k, v)
    BY <2>1 DEF SetBegin, Unanswered
  <2>2. CASE \/ WriteInit \/ RequestIdle \/ GcStart \/ WriteItem \/ WriteItemData
    <3>1. pc \in {"write", "data"} /\ UNCHANGED res
      BY <2>2 DEF WriteInit, RequestIdle, GcStart, NeedSector, WriteItem, CanWrite, WriteItemData
    <3> QED BY <1>2, <3>1 DEF Unanswered, Calling
  <2>3. CASE GcInit \/ GcMark \/ GcCrash \/ GcErase
    <3>1. InGc /\ UNCHANGED res /\ (Calling' => ~ gc.rec)
      <4>1. CASE GcInit \/ GcMark \/ GcCrash
        BY <4>1 DEF GcInit, GcMark, GcCrash, InGc, Calling
      <4>2. CASE GcErase
        BY <4>2 DEF GcErase, InGc, Calling
      <4> QED BY <2>3, <4>1, <4>2
    <3> QED BY <1>2, <3>1 DEF Unanswered, Calling, InGc
  <2>4. CASE \/ WriteTooLong \/ WriteFull \/ RequestNoSpace \/ EraseOld
             \/ CheckWriteNothing \/ CheckGcNothing \/ CheckWriteData \/ CheckWriteOld
             \/ (\E k \in Keys : Delete(k)) \/ (\E k \in Keys, v \in Values : SetSame(k, v))
             \/ Load \/ LoadFinish \/ Unload \/ PowerOff
             \/ CheckGcWipe \/ CheckGcErase \/ CheckGcKeep
    <3>1. pc' \notin {"write", "data", "eraseold", "gcinit", "gcmark", "gccopy", "gcdata",
                      "gcerase"}
      BY <2>4 DEF WriteTooLong, WriteFull, RequestNoSpace, EraseOld, CheckWriteNothing,
                  CheckGcNothing, CheckWriteData, CheckWriteOld, Delete, SetSame, Load,
                  LoadFinish, Unload, PowerOff, CheckGcWipe, CheckGcErase, CheckGcKeep, Return
    <3> QED BY <3>1 DEF Unanswered, Calling, InGc
  <2>5. CASE CheckGcStart
    BY <2>5 DEF CheckGcStart, Unanswered, Calling
  <2>6. CASE UNCHANGED vars
    BY <1>2, <2>6 DEF vars, Unanswered, Calling, InGc
  <2>7. CASE \E k \in Keys, t \in Types : Get(k, t)
    BY <2>6, <2>7 DEF Get
  <2>8. CASE GcCopy \/ GcCopyData
    <3>1. InGc /\ UNCHANGED res /\ pc' \in {"gccopy", "gcdata"}
      BY <2>8 DEF GcCopy, GcCopyData, InGc
    <3>2. gc'.rec = gc.rec
      BY <1>2, <2>8 DEF GcCopy, GcCopyData, IInv, TypeOK, ControlType
    <3> QED BY <1>2, <3>1, <3>2 DEF Unanswered, Calling
  <2> QED BY <1>2, <2>1, <2>2, <2>3, <2>4, <2>5, <2>6, <2>7, <2>8 DEF Next, Step, Call
<1>3. IInv /\ Unanswered /\ [Next]_vars => Unanswered'
  BY <1>2
<1> QED BY <1>1, <1>3, InvariantHolds, PTL DEF Spec

\* While power has not failed and no hazard has struck, JEKV_ERR_NO_SPACE means what it says:
\* no active sector, however well collected, could hold the item.
THEOREM NoSpaceMeansNone == Spec => NoSpaceBeforeFailure
<1>1. ASSUME IInv, OrderInv, CountInv, Unanswered, [Next]_vars, crashes = 0,
             pc = "write", res' = "nospace", lost = {}, NEW s \in Range(active)
      PROVE  Size(flash[s].log, {"using", "nodata"}) + SpanOf[op.v] > Slices
  <2>1. RequestNoSpace
    <3>1. res = "none"
      BY <1>1 DEF Unanswered, Calling
    <3> QED BY <1>1, <3>1 DEF Next, Step, Call, Unload, WriteInit, WriteTooLong, WriteFull,
       RequestIdle, GcStart, GcInit, GcMark, GcCrash, GcErase, CheckWriteNothing,
       CheckGcNothing, CheckGcWipe, CheckGcErase, CheckGcKeep, CheckGcStart, LoadFinish,
       SetSame, SetBegin, WriteItem, WriteItemData, GcCopy, GcCopyData, CheckWriteData,
       CheckWriteOld, Delete, EraseOld, Load, Get, PowerOff, Return, vars
  <2>2. ~ GcPays /\ ~ Fresh(Cur)
    BY <2>1 DEF RequestNoSpace, NeedSector, Fresh
  <2>3. StoreType /\ ListsOK /\ op.v \in Values
    BY <1>1 DEF IInv, TypeOK, OpSet, Calling
  <2>4. s \in Sector /\ IsUsed(ram[s].st)
    BY <1>1, <2>2, AllActiveUsed DEF OrderInv, Agree, Used
  <2>5. PICK log : log = flash[s].log
    OBVIOUS
  <2>6. log \in Seq(Item) /\ Size(log, Live) \in Nat
    BY <2>3, <2>4, <2>5, SectorTypes, SizeNat
  <2>7. Size(log, Live) + ram[s].droped = ram[s].used + 0
    <3>1. Undisturbed(s) /\ flash[s].stale = {} /\ Uncounted(s) = 0
      BY <1>1, <2>4, NothingUncounted DEF CountInv
    <3> QED BY <2>4, <2>5, <3>1 DEF Undisturbed
  <2>8. PICK d : d = Dirtiest
    OBVIOUS
  <2>9. d \in Range(active) /\ d \in Sector /\ GcSize(ram[s]) <= GcSize(ram[d])
    BY <1>1, <2>3, <2>8, DirtiestActive, CurActive
  <2>10. ~ (GcSize(ram[d]) >= SpanOf[op.v])
    BY <2>2, <2>8 DEF GcPays
  <2>11. /\ ram[s].used \in Int /\ ram[s].droped \in Int /\ SpanOf[op.v] \in Int
         /\ ram[d].used \in Int /\ ram[d].droped \in Int /\ Slices \in Int
    BY <2>3, <2>4, <2>9, SectorTypes, SpanAssumption, SlicesAssumption, SMTT(30) DEF RamSector, CounterMod
  <2>12. Slices - ram[s].used + ram[s].droped < SpanOf[op.v]
    BY <2>9, <2>10, <2>11 DEF GcSize
  <2>13. PICK size \in Nat, span \in Int : size = Size(log, Live) /\ span = SpanOf[op.v]
    BY <2>6, <2>11
  <2>14. size + span > Slices
    BY <2>7, <2>11, <2>12, <2>13
  <2> QED BY <2>5, <2>13, <2>14 DEF Live
<1>2. IInv /\ OrderInv /\ CountInv /\ Unanswered /\ [Next]_vars
      => (crashes = 0 => NoSpaceTruly)
  BY <1>1 DEF NoSpaceTruly
<1>3. Spec => [][crashes = 0 => NoSpaceTruly]_vars
  BY <1>2, InvariantHolds, OrderHolds, CountHolds, AnswersLast, PTL DEF Spec
<1> QED BY <1>3 DEF NoSpaceBeforeFailure

=============================
