------------------------- MODULE JekvIteratorProofs -------------------------
(***************************************************************************)
(* For partitions of every size, as long as no sector is taken off the     *)
(* active list: an iterator does not go astray, yields nothing twice and   *)
(* leaves out nothing that stays.  It rests on what the store keeps: items *)
(* stay where they are, one behind the other, one to a key.                *)
(***************************************************************************)
EXTENDS JekvIterator, JekvStoreContents

-----------------------------------------------------------------------------
(* Items stay in their place *)

\* The items of a log are those of another one, some dropped, and then maybe more.
Extends(log, new) ==
    /\ DOMAIN log \subseteq DOMAIN new
    /\ \A i \in DOMAIN log : new[i].at = log[i].at /\ new[i].span = log[i].span

LEMMA SameExtends ==
    ASSUME NEW log, NEW new, SameLayout(log, new)
    PROVE  Extends(log, new)
BY DEF SameLayout, Extends

\* In the active sectors, but for those that are taken off the list.
ItemsStay ==
    \A s \in Range(active) \cap Range(active') : Extends(flash[s].log, flash'[s].log)

LEMMA HeaderExtends ==
    ASSUME StoreType, NEW s \in Sector, NEW itm \in Item, WriteHeader(s, itm)
    PROVE  \A t \in Sector : Extends(flash[t].log, flash'[t].log)
<1>1. PICK h : h = HeaderWritten(flash[s], itm)
  OBVIOUS
<1>2. flash \in [Sector -> FlashSector] /\ \A t \in Sector : flash[t].log \in Seq(Item)
  BY SectorTypes DEF StoreType
<1>3. /\ flash'[s].log = Append(flash[s].log, h)
      /\ \A t \in Sector \ {s} : flash'[t] = flash[t]
  BY <1>1, <1>2 DEF WriteHeader, FlashSector
<1>4. Extends(flash[s].log, flash'[s].log)
  <2>1. PICK log, new : log = flash[s].log /\ new = Append(log, h)
    OBVIOUS
  <2>2. log \in Seq(Item)
    BY <1>2, <2>1
  <2>3. DOMAIN log \subseteq DOMAIN new /\ \A i \in DOMAIN log : new[i] = log[i]
    BY <2>1, <2>2
  <2> QED BY <1>3, <2>1, <2>3 DEF Extends
<1>5. ASSUME NEW t \in Sector, t # s PROVE Extends(flash[t].log, flash'[t].log)
  BY <1>3, <1>5, SameLayoutItself, SameExtends
<1> QED BY <1>4, <1>5

LEMMA StepsLeaveItems ==
    ASSUME IInv, OrderInv, LayoutInv, Step \/ Call, pc # "off"
    PROVE  ItemsStay
<1>1. /\ StoreType /\ ControlType /\ ListsOK /\ gc.dst \in Sector /\ gc.src \in Sector
      /\ op.sec \in Sector /\ Cur \in Sector /\ Range(active) \subseteq Sector
      /\ flash \in [Sector -> FlashSector]
  BY CurActive DEF IInv, TypeOK, ControlType, StoreType, ListsOK
<1>2. ASSUME \A s \in Sector : SameLayout(flash[s].log, flash'[s].log)
      PROVE  ItemsStay
  BY <1>1, <1>2, SameExtends DEF ItemsStay
<1>3. ASSUME \A s \in Sector : flash'[s].log = flash[s].log
      PROVE  ItemsStay
  BY <1>2, <1>3, SameLayoutItself
<1>4. ASSUME NEW s \in Sector, NEW at, NEW span, DropItem(s, at, span)
      PROVE  ItemsStay
  <2>1. flash' = [flash EXCEPT ![s] = DropAt(flash[s], at)]
    BY <1>1, <1>4 DEF DropItem
  <2>2. \A t \in Sector : SameLayout(flash[t].log, flash'[t].log)
    BY <1>1, <2>1, DropAtLayout, SameLayoutItself
  <2> QED BY <1>2, <2>2
<1>5. CASE \/ WriteTooLong \/ WriteFull \/ RequestNoSpace \/ CheckWriteNothing
           \/ CheckGcNothing \/ CheckGcKeep \/ LoadFinish
           \/ \E k \in Keys : \/ \E v \in Values : SetSame(k, v) \/ SetBegin(k, v)
                              \/ \E t \in Types : Get(k, t)
  <2>1. UNCHANGED flash
    BY <1>5 DEF WriteTooLong, WriteFull, RequestNoSpace, CheckWriteNothing, CheckGcNothing,
                CheckGcKeep, LoadFinish, SetSame, SetBegin, Get, vars
  <2> QED BY <1>3, <2>1
<1>6. CASE EraseOld
  <2>1. DropItem(op.sec, op.at, SpanOf[op.old]) \/ UNCHANGED flash
    BY <1>6 DEF EraseOld
  <2> QED BY <1>1, <1>3, <1>4, <2>1
<1>7. ASSUME NEW k \in Keys, Delete(k) PROVE ItemsStay
  <2>1. PICK f : f = FindItem(k, Types)
    OBVIOUS
  <2>2. f.sec \in Sector /\ DropItem(f.sec, FoundItem(f).at, FoundItem(f).span)
    BY <1>1, <1>7, <2>1, FindItemType DEF Delete
  <2> QED BY <1>4, <2>2
<1>8. CASE CheckWriteData
  BY <1>1, <1>4, <1>8 DEF CheckWriteData
<1>9. CASE CheckWriteOld
  <2>1. PICK o \in OldCopies :
           DropItem(o.sec, flash[o.sec].log[o.i].at, flash[o.sec].log[o.i].span)
    BY <1>9 DEF CheckWriteOld
  <2>2. o.sec \in Sector
    <3>1. \E n \in DOMAIN active : o.sec = active[n]
      BY DEF OldCopies
    <3> QED BY <1>1, <3>1 DEF StoreType
  <2> QED BY <1>4, <2>1, <2>2
<1>10. CASE WriteInit \/ GcInit
  <2>1. \E s \in Sector : InitSector(s)
    BY <1>1, <1>10 DEF WriteInit, GcInit
  <2>2. \A t \in Sector : flash'[t].log = flash[t].log
    BY <1>1, <2>1 DEF InitSector, FlashSector
  <2> QED BY <1>3, <2>2
<1>11. CASE GcMark \/ GcCrash \/ CheckGcWipe
  <2>1. PICK s \in Sector : \E st : SetState(s, st)
    BY <1>1, <1>11 DEF GcMark, GcCrash, CheckGcWipe
  <2>2. \A t \in Sector : flash'[t].log = flash[t].log
    BY <1>1, <2>1, StateFrame
  <2> QED BY <1>3, <2>2
<1>12. CASE WriteItem
  <2>1. PICK c, itm : c = Cur /\ itm = NewItem(ram[Cur].next, op.k, op.v)
    OBVIOUS
  <2>2. /\ WriteHeader(c, itm) /\ c \in Sector /\ ram[Cur].next \in Nat
        /\ op.k \in Keys /\ op.v \in Values
    BY <1>1, <1>12, <2>1
       DEF WriteItem, CanWrite, IInv, Calling, OpSet, StoreType, RamSector
  <2>3. itm \in Item
    BY <2>1, <2>2, NewItemType
  <2> QED BY <1>1, <2>2, <2>3, HeaderExtends DEF ItemsStay
<1>13. CASE GcCopy
  <2>1. WriteHeader(gc.dst, Copied) /\ Copied \in Item
    BY <1>1, <1>13, CopiedType DEF GcCopy
  <2> QED BY <1>1, <2>1, HeaderExtends DEF ItemsStay
<1>14. CASE WriteItemData \/ GcCopyData
  <2>1. PICK s \in Sector : /\ flash[s].log # <<>> /\ WriteData(s)
                            /\ Last(flash[s].log).st # "torn"
    BY <1>1, <1>14 DEF WriteItemData, GcCopyData, IInv, DataBegun, LayoutInv, Between
  <2> QED BY <1>1, <1>2, <2>1, DataLayout
<1>15. CASE RequestIdle \/ GcStart \/ CheckGcStart
  <2>1. Activate /\ idle # <<>>
    BY <1>15 DEF RequestIdle, GcStart, CheckGcStart, NeedSector, OrderInv, Reserve
  <2>2. /\ Head(idle) \notin Range(active)
        /\ \A t \in Sector \ {Head(idle)} : flash'[t] = flash[t]
    BY <1>1, <2>1, ActivateKeeps
  <2> QED BY <1>1, <2>2, SameLayoutItself, SameExtends DEF ItemsStay
<1>16. CASE GcErase \/ CheckGcErase
  <2>1. PICK s \in Range(active) : EraseToIdle(s) /\ Range(active) # {s}
    <3>1. CASE GcErase
      <4>1. gc.src \in Range(active) /\ gc.dst \in Range(active) /\ gc.src # gc.dst
        BY <3>1 DEF GcErase, IInv, InGc, GcSet
      <4> QED BY <3>1, <4>1 DEF GcErase
    <3>2. CASE CheckGcErase
      <4>1. /\ pc = "recerase" /\ ram[Cur].st = "crash" /\ Cur \in Range(active)
            /\ \E s \in Range(active) : ram[s].st = "deleting"
        BY <1>1, <3>2, CurActive DEF CheckGcErase, IInv, Recovering
      <4> QED BY <3>2, <4>1 DEF CheckGcErase
    <3> QED BY <1>16, <3>1, <3>2
  <2>2. /\ Range(active') = Range(active) \ {s} /\ s \in Sector
        /\ \A t \in Sector \ {s} : flash'[t] = flash[t]
    BY <1>1, <2>1, EraseKeeps
  <2> QED BY <1>1, <2>2, SameLayoutItself, SameExtends DEF ItemsStay
<1>17. ~ Load
  BY DEF Load
<1>18. CASE Call
  BY <1>5, <1>7, <1>18 DEF Call
<1> QED BY <1>5, <1>6, <1>8, <1>9, <1>10, <1>11, <1>12, <1>13, <1>14, <1>15, <1>16, <1>17, <1>18
        DEF Step
-----------------------------------------------------------------------------
(* Calls on the iterator leave the store alone *)

LEMMA IterStepsAreSteps == [IterAllNext]_ivars => [Next]_vars
<1>1. ASSUME UNCHANGED ivars PROVE UNCHANGED vars
  BY <1>1 DEF ivars, vars
<1>2. ASSUME NEW f, IterFind(f) PROVE UNCHANGED vars
  BY <1>2 DEF IterFind, vars, loaded
<1>3. IterNext \/ IterAstray \/ IterRelease => UNCHANGED vars
  BY DEF IterNext, IterAstray, IterRelease, vars, loaded
<1>4. IterStore \/ IterUnload \/ IterPowerOff => Next
  BY DEF IterStore, IterUnload, IterPowerOff, Next
<1> QED BY <1>1, <1>2, <1>3, <1>4 DEF IterAllNext

\* Whatever is done with iterators, the store goes through the steps of JekvStore: what is
\* proved of it holds here too.
THEOREM IterationsLeaveTheStore == IterSpec => Spec
BY IterStepsAreSteps, PTL DEF IterSpec, IterInit, Spec

-----------------------------------------------------------------------------
(* Where the iterator is *)

\* The slice behind one of the items of a log.
EndsItem(log, n) == \E i \in DOMAIN log : n = log[i].at + log[i].span

CursorInv ==
    it.on /\ ~ moved => /\ pc # "off" /\ it.sec \in Range(active)
                       /\ EndsItem(flash[it.sec].log, it.next)

\* Behind an item no item is under way.
LEMMA NotWithinItem ==
    ASSUME NEW log \in Seq(Item), Packed(log), NEW n, EndsItem(log, n), NEW i \in DOMAIN log
    PROVE  ~ (log[i].at < n /\ n < log[i].at + log[i].span)
<1>1. PICK j \in DOMAIN log : n = log[j].at + log[j].span
  BY DEF EndsItem
<1>2. /\ i \in Int /\ j \in Int
      /\ log[i].at \in Nat /\ log[i].span \in Nat /\ log[j].at \in Nat /\ log[j].span \in Nat
  BY ItemNumbers
<1>3. CASE i = j
  BY <1>1, <1>2, <1>3
<1>4. CASE i < j
  <2>1. log[i].at + log[i].span <= log[j].at
    BY <1>4 DEF Packed
  <2> QED BY <1>1, <1>2, <2>1
<1>5. CASE j < i
  <2>1. log[j].at + log[j].span <= log[i].at
    BY <1>5 DEF Packed
  <2> QED BY <1>1, <1>2, <2>1
<1> QED BY <1>2, <1>3, <1>4, <1>5

\* A set of places in the active list has a first one.
LEMMA FirstExists ==
    ASSUME NEW S, S \subseteq Nat \X Nat, S # {}
    PROVE  /\ FirstOf(S) \in S
           /\ \A d \in S : \/ FirstOf(S)[1] < d[1]
                          \/ (FirstOf(S)[1] = d[1] /\ FirstOf(S)[2] <= d[2])
<1>1. PICK m \in {c[1] : c \in S} : \A n \in {c[1] : c \in S} : m <= n
  <2>1. {c[1] : c \in S} \subseteq Nat /\ {c[1] : c \in S} # {}
    OBVIOUS
  <2> QED BY <2>1, LeastExists
<1>2. PICK i \in {c[2] : c \in {d \in S : d[1] = m}} :
         \A j \in {c[2] : c \in {d \in S : d[1] = m}} : i <= j
  <2>1. {c[2] : c \in {d \in S : d[1] = m}} \subseteq Nat
    OBVIOUS
  <2>2. {c[2] : c \in {d \in S : d[1] = m}} # {}
    BY <1>1
  <2> QED BY <2>1, <2>2, LeastExists
<1>3. PICK c \in S : c[1] = m /\ c[2] = i
  BY <1>2
<1>4. ASSUME NEW d \in S PROVE c[1] < d[1] \/ (c[1] = d[1] /\ c[2] <= d[2])
  <2>1. c[1] \in Nat /\ d[1] \in Nat /\ c[1] <= d[1]
    BY <1>1, <1>3
  <2>2. CASE c[1] = d[1]
    BY <1>2, <1>3, <2>2
  <2> QED BY <2>1, <2>2
<1> QED BY <1>3, <1>4 DEF FirstOf

\* A yield leaves the iterator behind an item of an active sector.
LEMMA YieldPlaces ==
    ASSUME StoreType, NEW m, NEW n, NEW f, GoesOn(m, n, f) # {}, UNCHANGED <<flash, active>>,
           Yield(FirstOf(GoesOn(m, n, f)), f)
    PROVE  it'.sec \in Range(active') /\ EndsItem(flash'[it'.sec].log, it'.next)
<1>1. PICK c : c = FirstOf(GoesOn(m, n, f))
  OBVIOUS
<1>2. GoesOn(m, n, f) \subseteq (DOMAIN active) \X (1 .. Slices) /\ DOMAIN active \subseteq Nat
  BY DEF GoesOn, StoreType
<1>3. c \in GoesOn(m, n, f)
  <2>1. 1 .. Slices \subseteq Nat
    BY SlicesAssumption
  <2>2. GoesOn(m, n, f) \subseteq Nat \X Nat
    BY <1>2, <2>1
  <2> HIDE DEF GoesOn
  <2> QED BY <1>1, <2>2, FirstExists
<1>4. /\ c[1] \in DOMAIN active
      /\ c[2] \in Yields(active[c[1]], n, f) \/ c[2] \in Yields(active[c[1]], 0, f)
  BY <1>2, <1>3 DEF GoesOn
<1>5. c[2] \in DOMAIN flash[active[c[1]]].log
  BY <1>4 DEF Yields, LiveAt
<1>6. it'.sec = active[c[1]] /\ it'.next = ItemAt(c).at + ItemAt(c).span
  BY <1>1 DEF Yield
<1>7. it'.sec \in Range(active)
  BY <1>4, <1>6 DEF Range
<1> QED BY <1>5, <1>6, <1>7 DEF EndsItem, ItemAt

LEMMA FreedKeeps == Freed => CursorInv'
BY DEF Freed, CursorInv, NoIt

LEMMA CursorKept ==
    ASSUME IInv, OrderInv, LayoutInv, CursorInv, [IterAllNext]_ivars
    PROVE  CursorInv'
<1>1. StoreType
  BY DEF IInv, TypeOK
<1>2. CASE UNCHANGED ivars
  BY <1>2 DEF ivars, CursorInv
<1>3. CASE IterStore
  <2> SUFFICES ASSUME it'.on, ~ moved'
               PROVE  /\ pc' # "off" /\ it'.sec \in Range(active')
                      /\ EndsItem(flash'[it'.sec].log, it'.next)
    BY DEF CursorInv
  <2>1. /\ Step \/ Call
        /\ it' = it /\ it.on /\ ~ moved /\ Range(active) \subseteq Range(active')
    BY <1>3 DEF IterStore
  <2>2. /\ pc # "off" /\ it.sec \in Range(active) /\ EndsItem(flash[it.sec].log, it.next)
    BY <2>1 DEF CursorInv
  <2>3. ItemsStay
    BY <2>1, <2>2, StepsLeaveItems
  <2>4. Extends(flash[it.sec].log, flash'[it.sec].log)
    BY <2>1, <2>2, <2>3 DEF ItemsStay
  <2>5. EndsItem(flash'[it.sec].log, it.next)
    BY <2>2, <2>4 DEF Extends, EndsItem
  <2>6. pc' # "off"
    <3>1. CASE Call
      BY <3>1 DEF Call, SetSame, SetBegin, Delete, Get, vars
    <3>2. CASE Step
      BY <2>2, <3>2
         DEF Step, WriteInit, WriteTooLong, WriteItem, WriteItemData, WriteFull, EraseOld,
             RequestIdle, RequestNoSpace, GcStart, GcInit, GcMark, GcCopy, GcCopyData, GcCrash,
             GcErase, Load, CheckWriteNothing, CheckWriteData, CheckWriteOld, CheckGcNothing,
             CheckGcWipe, CheckGcErase, CheckGcKeep, CheckGcStart, LoadFinish, Return
    <3> QED BY <2>1, <3>1, <3>2
  <2> QED BY <2>1, <2>2, <2>5, <2>6
<1>4. CASE IterUnload
  BY <1>4 DEF IterUnload, CursorInv
<1>5. CASE IterPowerOff \/ IterAstray \/ IterRelease
  BY <1>5, FreedKeeps DEF IterPowerOff, IterAstray, IterRelease
<1>6. ASSUME NEW f \in Filter, IterFind(f) PROVE CursorInv'
  <2>1. UNCHANGED <<flash, active, pc, moved>> /\ pc = "ready"
    BY <1>6 DEF IterFind, loaded
  <2>2. CASE UNCHANGED it
    BY <2>1, <2>2 DEF CursorInv
  <2>3. CASE GoesOn(1, 0, f) # {} /\ Yield(FirstOf(GoesOn(1, 0, f)), f)
    <3>1. it'.sec \in Range(active') /\ EndsItem(flash'[it'.sec].log, it'.next)
      BY <1>1, <2>1, <2>3, YieldPlaces
    <3> QED BY <2>1, <3>1 DEF CursorInv
  <2> QED BY <1>6, <2>2, <2>3 DEF IterFind
<1>7. CASE IterNext
  <2>1. PICK m : m = PlaceOf(it.sec)
    OBVIOUS
  <2>2. /\ UNCHANGED <<flash, active, pc>> /\ pc = "ready"
        /\ Freed \/ (GoesOn(m, it.next, it) # {} /\ Yield(FirstOf(GoesOn(m, it.next, it)), it))
    BY <1>7, <2>1 DEF IterNext, loaded
  <2>3. CASE GoesOn(m, it.next, it) # {} /\ Yield(FirstOf(GoesOn(m, it.next, it)), it)
    <3>1. it'.sec \in Range(active') /\ EndsItem(flash'[it'.sec].log, it'.next)
      BY <1>1, <2>2, <2>3, YieldPlaces
    <3> QED BY <2>2, <3>1 DEF CursorInv
  <2> QED BY <2>2, <2>3, FreedKeeps
<1> QED BY <1>2, <1>3, <1>4, <1>5, <1>6, <1>7 DEF IterAllNext

LEMMA CursorIsInPlace ==
    ASSUME IInv, LayoutInv, CursorInv
    PROVE  CursorStays
<1> SUFFICES ASSUME it.on, ~ moved, WithinItem(it.sec, it.next)
             PROVE  FALSE
  BY DEF CursorStays, Astray, CursorInv
<1>1. it.sec \in Range(active) /\ EndsItem(flash[it.sec].log, it.next)
  BY DEF CursorInv
<1>2. it.sec \in Sector
  BY <1>1 DEF IInv, ListsOK, CursorInv
<1>3. flash[it.sec].log \in Seq(Item) /\ Packed(flash[it.sec].log)
  BY <1>2, SectorTypes DEF IInv, TypeOK, LayoutInv
<1>4. PICK i \in DOMAIN flash[it.sec].log :
         /\ flash[it.sec].log[i].at < it.next
         /\ it.next < flash[it.sec].log[i].at + flash[it.sec].log[i].span
  BY DEF WithinItem
<1> QED BY <1>1, <1>3, <1>4, NotWithinItem

\* An iterator neither loses its sector nor stops within an item, whatever is set and
\* deleted between two calls, as long as no sector is taken off the active list.
THEOREM CursorsStay == IterSpec => []CursorStays
<1>1. IterInit => CursorInv
  BY DEF IterInit, CursorInv, NoIt
<1>2. IInv /\ OrderInv /\ LayoutInv /\ CursorInv /\ [IterAllNext]_ivars => CursorInv'
  BY CursorKept
<1>3. IInv /\ LayoutInv /\ CursorInv => CursorStays
  BY CursorIsInPlace
<1> QED BY <1>1, <1>2, <1>3, IterationsLeaveTheStore, InvariantHolds, OrderHolds, LayoutHolds, PTL
        DEF IterSpec


-----------------------------------------------------------------------------
(* Items of other keys are not touched *)

\* The live items of active sectors that are not of key k stay as they are, but for the
\* sectors that are taken off the list.
OthersStand(k) ==
    \A s \in Range(active) \cap Range(active') : \A i \in LiveAt(flash[s].log) :
        It(s, i).key # k =>
            /\ i \in LiveAt(flash'[s].log) /\ flash'[s].log[i].at = flash[s].log[i].at
            /\ flash'[s].log[i].key = flash[s].log[i].key
            /\ flash'[s].log[i].val = flash[s].log[i].val

LEMMA KeptStand ==
    ASSUME NEW k, \A s \in Range(active) \cap Range(active') : KeepsItems(s)
    PROVE  OthersStand(k)
BY DEF OthersStand, KeepsItems

\* Erasing an item of a key leaves those of the others.
LEMMA DropStands ==
    ASSUME StoreType, LayoutInv, NEW s \in Sector, NEW at, NEW span, DropItem(s, at, span),
           NEW i \in LiveAt(flash[s].log), It(s, i).at = at, Range(active) \subseteq Sector
    PROVE  OthersStand(It(s, i).key)
<1> SUFFICES ASSUME NEW t \in Range(active), NEW j \in LiveAt(flash[t].log),
                    It(t, j).key # It(s, i).key
             PROVE  j \in LiveAt(flash'[t].log) /\ flash'[t].log[j] = flash[t].log[j]
  BY DEF OthersStand
<1>1. t \in Sector
  OBVIOUS
<1>2. CASE t # s
  <2>1. flash'[t] = flash[t]
    BY <1>1, <1>2, DropLessens
  <2> QED BY <2>1
<1>3. CASE t = s
  <2>1. flash[s].log[j].at # at
    <3>1. j # i
      BY <1>3
    <3>2. Packed(flash[s].log)
      BY DEF LayoutInv
    <3>3. i \in DOMAIN flash[s].log /\ j \in DOMAIN flash[s].log
      BY <1>3, LiveItem
    <3>4. It(s, j).at # It(s, i).at
      BY <3>1, <3>2, <3>3, PlacesDiffer
    <3> QED BY <3>4 DEF It
  <2>2. j \in LiveAt(flash'[s].log)
    BY <1>3, <2>1, DropLessens
  <2>3. flash'[s].log[j] = flash[s].log[j]
    BY <2>2, DropLessens
  <2> QED BY <1>3, <2>2, <2>3
<1> QED BY <1>2, <1>3


\* Whatever a call does between its beginning and its end, items of other keys than its own
\* stay: what it erases at its end is the item it found, which has not been moved while no
\* sector has been given up, and is there no more when it has.
LEMMA StepsLeaveOthers ==
    ASSUME IInv, OrderInv, LayoutInv, ContentInv, Step, Serving
    PROVE  OthersStand(op.k)
<1>1. /\ StoreType /\ ControlType /\ ListsOK /\ gc.dst \in Sector /\ gc.src \in Sector
      /\ op.sec \in Sector /\ Cur \in Sector /\ Range(active) \subseteq Sector
      /\ flash \in [Sector -> FlashSector]
  <2>1. pc # "off"
    BY DEF Serving
  <2> QED BY <2>1, CurActive DEF IInv, TypeOK, ControlType, StoreType, ListsOK
<1>2. ASSUME \A s \in Sector : KeepsItems(s)
      PROVE  OthersStand(op.k)
  BY <1>1, <1>2, KeptStand
<1>3. ASSUME \A s \in Sector : flash'[s].log = flash[s].log
      PROVE  OthersStand(op.k)
  BY <1>2, <1>3, SameKeepsItems
<1>4. CASE WriteTooLong \/ WriteFull \/ RequestNoSpace
  <2>1. UNCHANGED flash
    BY <1>4 DEF WriteTooLong, WriteFull, RequestNoSpace
  <2> QED BY <1>3, <2>1
<1>5. CASE EraseOld
  <2>1. CASE ~ op.found
    <3>1. UNCHANGED flash
      BY <1>5, <2>1 DEF EraseOld
    <3> QED BY <1>3, <3>1
  <2>2. CASE op.found
    <3>1. PICK s, a, x : s = op.sec /\ a = op.at /\ x = SpanOf[op.old]
      OBVIOUS
    <3>2. DropItem(s, a, x) /\ Calling /\ s \in Sector
      BY <1>1, <1>5, <2>2, <3>1 DEF EraseOld, Calling
    <3>3. \/ \E i \in LiveAt(flash[s].log) : It(s, i).at = a /\ It(s, i).key = op.k
          \/ s \in Range(idle)
      BY <2>2, <3>1, <3>2 DEF ContentInv, FoundStays
    <3>4. ASSUME NEW i \in LiveAt(flash[s].log), It(s, i).at = a, It(s, i).key = op.k
          PROVE  OthersStand(op.k)
      <4>1. OthersStand(It(s, i).key)
        BY <1>1, <3>2, <3>4, DropStands
      <4> QED BY <3>4, <4>1
    <3>5. CASE s \in Range(idle)
      <4>1. \A t \in Range(active) : t \in Sector \ {s}
        BY <1>1, <3>5 DEF ListsOK
      <4>2. \A t \in Range(active) : flash'[t] = flash[t]
        BY <1>1, <3>2, <4>1, DropLessens
      <4>3. \A t \in Range(active) : KeepsItems(t)
        BY <4>2, SameKeepsItems
      <4> QED BY <4>3, KeptStand
    <3> QED BY <3>3, <3>4, <3>5
  <2> QED BY <2>1, <2>2
<1>6. CASE WriteInit \/ GcInit
  <2>1. \E s \in Sector : InitSector(s)
    BY <1>1, <1>6 DEF WriteInit, GcInit
  <2>2. \A t \in Sector : flash'[t].log = flash[t].log
    BY <1>1, <2>1 DEF InitSector, FlashSector
  <2> QED BY <1>3, <2>2
<1>7. CASE GcMark \/ GcCrash
  <2>1. PICK s \in Sector : \E st : SetState(s, st)
    BY <1>1, <1>7 DEF GcMark, GcCrash
  <2>2. \A t \in Sector : flash'[t].log = flash[t].log
    BY <1>1, <2>1, StateFrame
  <2> QED BY <1>3, <2>2
<1>8. ASSUME NEW s \in Sector, NEW e \in Item, WriteHeader(s, e), UNCHANGED ram \/ Account(s, e)
      PROVE  OthersStand(op.k)
  <2>1. PICK n : n = Len(flash[s].log) + 1
    OBVIOUS
  <2>2. Grown(s, n)
    BY <1>1, <1>8, <2>1, HeaderContents
  <2> QED BY <1>2, <2>2 DEF Grown, KeepsItems
<1>9. CASE WriteItem
  <2>1. PICK c, e : c = Cur /\ e = NewItem(ram[Cur].next, op.k, op.v)
    OBVIOUS
  <2>2. /\ WriteHeader(c, e) /\ c \in Sector /\ ram[Cur].next \in Nat
        /\ op.k \in Keys /\ op.v \in Values /\ (UNCHANGED ram \/ Account(c, e))
    BY <1>1, <1>9, <2>1
       DEF WriteItem, CanWrite, IInv, Calling, OpSet, StoreType, RamSector
  <2>3. e \in Item
    BY <2>1, <2>2, NewItemType
  <2> QED BY <1>8, <2>2, <2>3
<1>10. CASE GcCopy
  <2>1. /\ WriteHeader(gc.dst, Copied) /\ Copied \in Item
        /\ UNCHANGED ram \/ Account(gc.dst, Copied)
    BY <1>1, <1>10, CopiedType DEF GcCopy
  <2> QED BY <1>1, <1>8, <2>1
<1>11. CASE WriteItemData \/ GcCopyData
  <2>1. PICK s \in Sector : /\ flash[s].log # <<>> /\ WriteData(s)
                            /\ Last(flash[s].log).st # "torn"
    BY <1>1, <1>11 DEF WriteItemData, GcCopyData, IInv, DataBegun, LayoutInv, Between
  <2>2. PICK n, e : n = Len(flash[s].log) /\ e = flash[s].log[n]
    OBVIOUS
  <2>3. e.st # "torn"
    BY <2>1, <2>2 DEF Last
  <2>4. SameItems
    BY <1>1, <2>1, <2>2, <2>3, DataContents
  <2> QED BY <1>2, <2>4 DEF SameItems, KeepsItems
<1>12. CASE RequestIdle \/ GcStart
  <2>1. Activate /\ idle # <<>>
    BY <1>12 DEF RequestIdle, GcStart, NeedSector, OrderInv, Reserve
  <2>2. /\ Head(idle) \notin Range(active)
        /\ \A t \in Sector \ {Head(idle)} : flash'[t] = flash[t]
    BY <1>1, <2>1, ActivateKeeps
  <2>3. \A t \in Range(active) : KeepsItems(t)
    BY <1>1, <2>2, SameKeepsItems
  <2> QED BY <2>3, KeptStand
<1>13. CASE GcErase
  <2>1. EraseToIdle(gc.src) /\ gc.src \in Range(active) /\ Range(active) # {gc.src}
    BY <1>13 DEF GcErase, IInv, InGc, GcSet
  <2>2. /\ Range(active') = Range(active) \ {gc.src}
        /\ \A t \in Sector \ {gc.src} : flash'[t] = flash[t]
    BY <1>1, <2>1, EraseKeeps
  <2>3. \A t \in Range(active) \cap Range(active') : KeepsItems(t)
    BY <1>1, <2>2, SameKeepsItems
  <2> QED BY <2>3, KeptStand
<1>14. ~ (\/ Load \/ CheckWriteNothing \/ CheckWriteData \/ CheckWriteOld \/ CheckGcNothing
          \/ CheckGcWipe \/ CheckGcErase \/ CheckGcKeep \/ CheckGcStart \/ LoadFinish)
  BY DEF Serving, Load, CheckWriteNothing, CheckWriteData, CheckWriteOld, CheckGcNothing,
         CheckGcWipe, CheckGcErase, CheckGcKeep, CheckGcStart, LoadFinish
<1> QED BY <1>4, <1>5, <1>6, <1>7, <1>9, <1>10, <1>11, <1>12, <1>13, <1>14 DEF Step


\* Sectors are appended to the active list, or taken off it.
LEMMA ActiveGrows ==
    ASSUME IInv, OrderInv, Serving, Step \/ Call, Range(active) \subseteq Range(active')
    PROVE  \A n \in DOMAIN active : n \in DOMAIN active' /\ active'[n] = active[n]
<1>1. StoreType /\ ListsOK
  BY DEF IInv, TypeOK, Serving
<1>2. CASE UNCHANGED active
  BY <1>2
<1>3. CASE RequestIdle \/ GcStart
  <2>1. active' = Append(active, Head(idle)) /\ idle # <<>> /\ active \in Seq(Sector)
    BY <1>1, <1>3 DEF RequestIdle, GcStart, Activate, NeedSector, OrderInv, Reserve, StoreType
  <2>2. Head(idle) \in Sector
    BY <1>1, <2>1 DEF StoreType
  <2>3. PICK h : h = Head(idle)
    OBVIOUS
  <2> QED BY <2>1, <2>2, <2>3
<1>4. CASE GcErase
  <2>1. EraseToIdle(gc.src) /\ gc.src \in Range(active) /\ Range(active) # {gc.src}
    BY <1>4 DEF GcErase, IInv, InGc, GcSet
  <2>2. Range(active') = Range(active) \ {gc.src}
    BY <1>1, <2>1, EraseKeeps
  <2> QED BY <2>1, <2>2
<1>5. CASE Call
  BY <1>2, <1>5 DEF Call, SetSame, SetBegin, Delete, Get, vars, loaded
<1>6. CASE \/ WriteInit \/ WriteTooLong \/ WriteItem \/ WriteItemData \/ WriteFull \/ EraseOld
           \/ RequestNoSpace \/ GcInit \/ GcMark \/ GcCopy \/ GcCopyData \/ GcCrash
  BY <1>2, <1>6 DEF WriteInit, WriteTooLong, WriteItem, WriteItemData, WriteFull, EraseOld,
     RequestNoSpace, GcInit, GcMark, GcCopy, GcCopyData, GcCrash, loaded
<1>7. ~ (\/ Load \/ CheckWriteNothing \/ CheckWriteData \/ CheckWriteOld \/ CheckGcNothing
         \/ CheckGcWipe \/ CheckGcErase \/ CheckGcKeep \/ CheckGcStart \/ LoadFinish)
  BY DEF Serving, Load, CheckWriteNothing, CheckWriteData, CheckWriteOld, CheckGcNothing,
         CheckGcWipe, CheckGcErase, CheckGcKeep, CheckGcStart, LoadFinish
<1> QED BY <1>3, <1>4, <1>5, <1>6, <1>7 DEF Step

-----------------------------------------------------------------------------
(* What an iteration has yielded, and what it still will *)

\* In a list of sectors, the item at slice `at' of sector s lies before slice `next' of
\* sector `sec'.
PassedIn(list, sec, next, s, at) ==
    \E m, n \in DOMAIN list :
        list[m] = s /\ list[n] = sec /\ (m < n \/ (m = n /\ at < next))

Passed(s, i) == PassedIn(active, it.sec, it.next, s, It(s, i).at)

\* The item that a key had when the iteration began: it has been yielded if and only if
\* the iterator is past it.
Follows(k, s, i) ==
    /\ s \in Range(active) /\ It(s, i).key = k /\ TypeOf[It(s, i).val] \in it.types
    /\ k \in seen <=> Passed(s, i)

\* As long as no sector has been given up, each key that was there and that no call has
\* changed still has that item.
FollowInv ==
    it.on /\ ~ moved =>
        /\ Serving
        /\ \A k \in steady \ lost :
              /\ k # op.k /\ k \in it.keys
              /\ \E s \in Sector : \E i \in LiveAt(flash[s].log) : Follows(k, s, i)

RestInv == "on" \in DOMAIN it /\ (~ it.on => seen = {} /\ twice = {} /\ steady = {})

LEMMA PassedAt ==
    ASSUME NEW list, IsInjective(list), NEW a \in DOMAIN list, NEW b \in DOMAIN list,
           NEW next, NEW at
    PROVE  PassedIn(list, list[b], next, list[a], at) <=> a < b \/ (a = b /\ at < next)
<1>1. \A m \in DOMAIN list : (list[m] = list[a] => m = a) /\ (list[m] = list[b] => m = b)
  BY DEF IsInjective
<1>2. ASSUME PassedIn(list, list[b], next, list[a], at)
      PROVE  a < b \/ (a = b /\ at < next)
  BY <1>1, <1>2 DEF PassedIn
<1>3. ASSUME a < b \/ (a = b /\ at < next)
      PROVE  PassedIn(list, list[b], next, list[a], at)
  BY <1>3 DEF PassedIn
<1> QED BY <1>2, <1>3

\* A live item that the iterator asks for and has not passed is among those it goes on to.
LEMMA ToBeMet ==
    ASSUME IInv, OrderInv, LayoutInv, ContentInv, pc = "ready", NEW f, NEW b \in DOMAIN active,
           NEW next, NEW a \in DOMAIN active, NEW i \in LiveAt(flash[active[a]].log),
           It(active[a], i).key \in f.keys, TypeOf[It(active[a], i).val] \in f.types,
           ~ (a < b \/ (a = b /\ It(active[a], i).at < next)), next \in Nat
    PROVE  <<a, i>> \in GoesOn(b, next, f)
<1>1. PICK s \in Sector : s = active[a]
  BY DEF IInv, TypeOK, StoreType
<1>2. /\ StoreType /\ i \in LiveAt(flash[s].log) /\ Used(s)
      /\ i \in Matches(flash[s], ram[s], It(s, i).key, Types)
  BY <1>1, ActiveIsSeen DEF IInv, TypeOK
<1>3. flash[s].log \in Seq(Item) /\ Packed(flash[s].log) /\ ram[s] \in RamSector
  BY <1>2, SectorTypes DEF LayoutInv
<1>4. i \in 1 .. Slices
  BY <1>2, <1>3, PlaceFits
<1>5. IsUsed(ram[s].st) /\ It(s, i).at \in Nat
  BY <1>2, LiveItem DEF Matches
<1>6. It(s, i).at < ram[s].next
  <2>1. NextFree(s)
    BY <1>5 DEF LayoutInv
  <2>2. /\ It(s, i).at + It(s, i).span <= Slices /\ It(s, i).span >= 1
        /\ It(s, i).at + It(s, i).span <= LogEnd(flash[s].log)
    <3>1. i \in DOMAIN flash[s].log
      BY <1>2, LiveItem
    <3> QED BY <1>2, <1>3, <3>1, PackedEnds DEF Packed, It
  <2>3. PICK x, l, e, r : x = It(s, i).at /\ l = It(s, i).span /\ e = LogEnd(flash[s].log)
                          /\ r = ram[s].next
    OBVIOUS
  <2>4. x \in Nat /\ l \in Nat /\ e \in Nat /\ r \in Nat /\ Slices \in Nat
    <3>1. x \in Nat /\ l \in Nat
      BY <1>2, <2>3, LiveItem
    <3>2. e \in Nat /\ r \in Nat /\ Slices \in Nat
      BY <1>3, <2>3, ItemNumbers DEF RamSector
    <3> QED BY <3>1, <3>2
  <2>5. r = e \/ r >= Slices
    BY <2>1, <2>3 DEF NextFree
  <2> QED BY <2>2, <2>3, <2>4, <2>5
<1>7. a \in Nat /\ b \in Nat
  BY DEF IInv, TypeOK, StoreType
<1>8. ASSUME NEW m \in Nat, It(s, i).at >= m
      PROVE  i \in Yields(s, m, f)
  BY <1>1, <1>2, <1>5, <1>6, <1>8 DEF Yields, It
<1>9. CASE a = b
  <2>1. i \in Yields(s, next, f)
    BY <1>5, <1>8, <1>1, <1>9
  <2> QED BY <1>1, <1>4, <1>9, <2>1 DEF GoesOn
<1>10. CASE a > b
  <2>1. i \in Yields(s, 0, f)
    BY <1>5, <1>8
  <2> QED BY <1>1, <1>4, <1>10, <2>1 DEF GoesOn
<1> QED BY <1>7, <1>9, <1>10, <1>1


\* What an iterator goes on to are live items of active sectors that it has not passed.
LEMMA MeetsUnpassed ==
    ASSUME IInv, NEW b \in DOMAIN active, NEW next, NEW f, NEW c \in GoesOn(b, next, f)
    PROVE  /\ c[1] \in DOMAIN active /\ c[1] \in Nat /\ c[2] \in Nat
           /\ c[2] \in LiveAt(flash[active[c[1]]].log)
           /\ c[1] > b \/ (c[1] = b /\ It(active[c[1]], c[2]).at >= next)
<1>1. /\ c[1] \in DOMAIN active /\ c[2] \in 1 .. Slices
      /\ \/ c[1] = b /\ c[2] \in Yields(active[b], next, f)
         \/ c[1] > b /\ c[2] \in Yields(active[c[1]], 0, f)
  BY DEF GoesOn
<1>2. c[1] \in Nat /\ c[2] \in Nat
  BY <1>1, SlicesAssumption DEF IInv, TypeOK, StoreType
<1>3. CASE c[1] = b /\ c[2] \in Yields(active[b], next, f)
  BY <1>1, <1>2, <1>3 DEF Yields, It
<1>4. CASE c[1] > b /\ c[2] \in Yields(active[c[1]], 0, f)
  BY <1>1, <1>2, <1>4 DEF Yields
<1> QED BY <1>1, <1>3, <1>4

\* An iterator that goes on yields the items it has not passed one after the other: once
\* it has, it is past the item it yields and past no other one it was not past before.
LEMMA YieldFollows ==
    ASSUME IInv, OrderInv, LayoutInv, ContentInv, pc = "ready", UNCHANGED <<flash, active>>,
           NEW f, NEW b \in DOMAIN active, NEW next \in Nat,
           GoesOn(b, next, f) # {}, Yield(FirstOf(GoesOn(b, next, f)), f),
           NEW a \in DOMAIN active, NEW i \in LiveAt(flash[active[a]].log),
           NEW k, k = It(active[a], i).key, k \notin lost,
           k \in f.keys, TypeOf[It(active[a], i).val] \in f.types,
           k \in seen <=> (a < b \/ (a = b /\ It(active[a], i).at < next))
    PROVE  /\ k \in seen' <=> Passed(active[a], i)'
           /\ k \in twice' => k \in twice
<1>1. PICK S : S = GoesOn(b, next, f)
  OBVIOUS
<1>2. PICK c : c = FirstOf(S)
  OBVIOUS
<1>3. /\ S \subseteq Nat \X Nat /\ c \in S
      /\ \A d \in S : c[1] < d[1] \/ (c[1] = d[1] /\ c[2] <= d[2])
  <2>1. S \subseteq (DOMAIN active) \X (1 .. Slices)
    BY <1>1 DEF GoesOn
  <2>2. DOMAIN active \subseteq Nat /\ 1 .. Slices \subseteq Nat
    BY SlicesAssumption DEF IInv, TypeOK, StoreType
  <2>3. S \subseteq Nat \X Nat /\ S # {}
    BY <1>1, <2>1, <2>2
  <2> QED BY <1>2, <2>3, FirstExists
<1>4. PICK m, j, e : m = c[1] /\ j = c[2] /\ e = It(active[m], j)
  OBVIOUS
<1>5. /\ m \in DOMAIN active /\ m \in Nat /\ j \in Nat /\ j \in LiveAt(flash[active[m]].log)
      /\ m > b \/ (m = b /\ e.at >= next)
  BY <1>1, <1>3, <1>4, MeetsUnpassed
<1>6. /\ seen' = seen \union {e.key} /\ twice' = twice \union (seen \cap {e.key})
      /\ it'.sec = active[m] /\ it'.next = e.at + e.span
  BY <1>1, <1>2, <1>4 DEF Yield, ItemAt, It
<1>7. PICK s \in Sector, t \in Sector : s = active[a] /\ t = active[m]
  BY <1>5 DEF IInv, TypeOK, StoreType
<1>8. /\ StoreType /\ IsInjective(active) /\ a \in Nat /\ b \in Nat
      /\ i \in LiveAt(flash[s].log) /\ i \in Nat /\ i \in DOMAIN flash[s].log
      /\ j \in LiveAt(flash[t].log) /\ j \in DOMAIN flash[t].log /\ e = It(t, j)
      /\ It(s, i).at \in Nat /\ e.at \in Nat /\ e.span \in Nat /\ Used(s) /\ Used(t)
  <2>1. StoreType /\ IsInjective(active) /\ a \in Nat /\ b \in Nat
    BY DEF IInv, TypeOK, StoreType, ListsOK
  <2>2. i \in LiveAt(flash[s].log) /\ j \in LiveAt(flash[t].log) /\ e = It(t, j)
    BY <1>4, <1>5, <1>7
  <2>3. Used(s) /\ Used(t)
    BY <1>5, <1>7, ActiveIsSeen
  <2> QED BY <2>1, <2>2, <2>3, LiveItem
<1>9. Passed(active[a], i)' <=> a < m \/ (a = m /\ It(s, i).at < e.at + e.span)
  <2>1. PICK x : x = It(s, i).at
    OBVIOUS
  <2>2. Passed(active[a], i)' <=> PassedIn(active, active[m], it'.next, active[a], x)
    BY <1>6, <1>7, <2>1 DEF Passed, It
  <2> QED BY <1>5, <1>6, <1>8, <2>1, <2>2, PassedAt
<1>10. k = e.key => a = m /\ i = j
  <2>1. Alone
    BY <1>8, QuietIsAlone DEF ContentInv, Quiet
  <2>2. ASSUME k = e.key PROVE s = t /\ i = j
    <3>1. It(s, i).key = It(t, j).key /\ It(s, i).key \notin lost
      BY <1>7, <1>8, <2>2
    <3> QED BY <1>8, <2>1, <3>1, AloneIs
  <2> QED BY <1>5, <1>7, <1>8, <2>2 DEF IsInjective
<1>11. CASE a < b \/ (a = b /\ It(s, i).at < next)
  <2>1. k \in seen
    BY <1>7, <1>11
  <2>2. a < m \/ (a = m /\ It(s, i).at < e.at /\ a = b)
    BY <1>5, <1>8, <1>11
  <2>3. k # e.key
    BY <1>4, <1>7, <1>10, <2>2, <1>8, <1>5
  <2>4. a < m \/ (a = m /\ It(s, i).at < e.at + e.span)
    BY <1>8, <2>2
  <2> QED BY <1>6, <1>9, <2>1, <2>3, <2>4
<1>12. CASE ~ (a < b \/ (a = b /\ It(s, i).at < next))
  <2>1. k \notin seen
    BY <1>7, <1>12
  <2>2. <<a, i>> \in S
    BY <1>1, <1>7, <1>12, ToBeMet
  <2>3. m < a \/ (m = a /\ j <= i)
    BY <1>3, <1>4, <2>2
  <2>4. m = a => (It(s, i).at < e.at + e.span <=> i = j)
    <3>1. ASSUME m = a, j < i PROVE e.at + e.span <= It(s, i).at
      BY <1>7, <1>8, <3>1 DEF LayoutInv, Packed, It
    <3>2. ASSUME m = a, j = i PROVE It(s, i).at < e.at + e.span
      <4>1. e.span >= 1 /\ It(s, i) = e
        BY <1>7, <1>8, <3>2 DEF LayoutInv, Packed, It
      <4> QED BY <1>8, <4>1
    <3> QED BY <1>5, <1>8, <2>3, <3>1, <3>2
  <2>5. Passed(active[a], i)' <=> a = m /\ i = j
    BY <1>5, <1>8, <1>9, <2>3, <2>4
  <2>6. a = m /\ i = j => k = e.key
    BY <1>4
  <2> QED BY <1>6, <1>10, <2>1, <2>5, <2>6
<1> QED BY <1>7, <1>11, <1>12


\* A key that no call changes keeps its item: a deletion of the key would change the answer.
LEMMA SteadyStands ==
    ASSUME IInv, OrderInv, LayoutInv, ContentInv, Step \/ Call, Serving,
           NEW s \in Range(active), s \in Range(active'), NEW i \in LiveAt(flash[s].log),
           NEW k, k = It(s, i).key, k \notin lost, k # op.k,
           pc = "ready" => Lookup(k) = Lookup(k)'
    PROVE  /\ i \in LiveAt(flash'[s].log) /\ flash'[s].log[i].at = flash[s].log[i].at
           /\ flash'[s].log[i].key = flash[s].log[i].key
           /\ flash'[s].log[i].val = flash[s].log[i].val
<1>1. StoreType /\ ListsOK /\ s \in Sector
  BY DEF IInv, TypeOK, Serving, ListsOK
<1>2. CASE Step
  BY <1>2, StepsLeaveOthers DEF OthersStand
<1>3. ASSUME NEW j \in Keys, Delete(j) PROVE k # j /\ OthersStand(j)
  <2>1. PICK f : f = FindItem(j, Types)
    OBVIOUS
  <2>2. f.found /\ DropItem(f.sec, FoundItem(f).at, FoundItem(f).span) /\ pc = "ready"
    BY <1>3, <2>1 DEF Delete
  <2>3. /\ f.sec \in Sector /\ f.i \in Matches(flash[f.sec], ram[f.sec], j, Types)
        /\ FoundItem(f) = It(f.sec, f.i)
    BY <1>1, <2>1, <2>2, FindItemFinds
  <2>4. f.i \in LiveAt(flash[f.sec].log) /\ It(f.sec, f.i).key = j
    BY <2>3 DEF Matches, It
  <2>5. PICK t, a, x, n : t = f.sec /\ a = FoundItem(f).at /\ x = FoundItem(f).span /\ n = f.i
    OBVIOUS
  <2>6. /\ t \in Sector /\ DropItem(t, a, x) /\ n \in LiveAt(flash[t].log)
        /\ It(t, n).at = a /\ It(t, n).key = j
    BY <2>2, <2>3, <2>4, <2>5
  <2>7. OthersStand(It(t, n).key)
    BY <1>1, <2>6, DropStands DEF ListsOK
  <2>8. ASSUME k = j PROVE FALSE
    <3>1. j \notin lost
      BY <2>8
    <3>2. Lookup(j)' = NoValue
      BY <1>3, <3>1, DeletedReads
    <3>3. Lookup(j) = It(t, n).val
      BY <2>1, <2>2, <2>3, <2>5, <3>1, RamAgrees
    <3>4. It(t, n).val \in Values
      BY <1>1, <2>6, LiveItem
    <3>5. Lookup(j) = Lookup(j)'
      BY <2>2, <2>8
    <3> QED BY <3>2, <3>3, <3>4, <3>5, NoValueAssumption
  <2> QED BY <2>6, <2>7, <2>8
<1>4. CASE UNCHANGED flash
  BY <1>4
<1>5. CASE Call
  <2>1. UNCHANGED flash \/ \E j \in Keys : Delete(j)
    BY <1>5 DEF Call, SetSame, SetBegin, Get, vars
  <2> QED BY <1>3, <1>4, <2>1 DEF OthersStand
<1> QED BY <1>2, <1>5

\* What is set, deleted, collected and erased in between leaves the iteration its items.
LEMMA StoreFollows ==
    ASSUME IInv, OrderInv, LayoutInv, ContentInv, IInv', CursorInv, FollowInv, IterStore
    PROVE  FollowInv'
<1> SUFFICES ASSUME it'.on, ~ moved'
             PROVE  /\ Serving'
                    /\ \A k \in steady' \ lost' :
                          /\ k # op'.k /\ k \in it'.keys
                          /\ \E s \in Sector : \E i \in LiveAt(flash'[s].log) : Follows(k, s, i)'
  BY DEF FollowInv
<1>1. /\ Step \/ Call
      /\ it' = it /\ seen' = seen /\ it.on /\ ~ moved /\ steady' = steady \ Touched
      /\ \A s \in Range(active) : s \in Range(active')
  BY DEF IterStore
<1>2. Serving /\ it.sec \in Range(active)
  BY <1>1 DEF FollowInv, CursorInv
<1>3. Serving' /\ lost \subseteq lost'
  BY <1>1, <1>2, CallsGoOn DEF IInv, TypeOK
<1>4. \A n \in DOMAIN active : n \in DOMAIN active' /\ active'[n] = active[n]
  BY <1>1, <1>2, ActiveGrows
<1>5. IsInjective(active) /\ IsInjective(active')
  BY <1>2, <1>3 DEF IInv, ListsOK, Serving
<1>6. ASSUME NEW k \in steady', k \notin lost'
      PROVE  /\ k # op'.k /\ k \in it'.keys
             /\ \E s \in Sector : \E i \in LiveAt(flash'[s].log) : Follows(k, s, i)'
  <2>1. k \in steady /\ k \notin lost /\ k # op'.k /\ k # op.k
    BY <1>1, <1>3, <1>6 DEF Touched
  <2>2. pc = "ready" => Lookup(k) = Lookup(k)'
    BY <1>1, <1>6, <2>1 DEF Touched
  <2>3. k \in it.keys /\ \E s \in Sector : \E i \in LiveAt(flash[s].log) : Follows(k, s, i)
    BY <1>1, <2>1 DEF FollowInv
  <2>4. PICK s \in Sector : \E i \in LiveAt(flash[s].log) : Follows(k, s, i)
    BY <2>3
  <2>5. PICK i \in LiveAt(flash[s].log) : Follows(k, s, i)
    BY <2>4
  <2>6. /\ s \in Range(active) /\ It(s, i).key = k /\ TypeOf[It(s, i).val] \in it.types
        /\ k \in seen <=> Passed(s, i)
    BY <2>5 DEF Follows
  <2>7. /\ i \in LiveAt(flash'[s].log) /\ flash'[s].log[i].at = flash[s].log[i].at
        /\ flash'[s].log[i].key = flash[s].log[i].key
        /\ flash'[s].log[i].val = flash[s].log[i].val
    BY <1>1, <1>2, <2>1, <2>2, <2>6, SteadyStands
  <2>8. Passed(s, i)' <=> Passed(s, i)
    <3>1. PICK a \in DOMAIN active, b \in DOMAIN active : active[a] = s /\ active[b] = it.sec
      BY <1>2, <2>6 DEF Range
    <3>2. PICK x, n : x = It(s, i).at /\ n = it.next
      OBVIOUS
    <3>3. Passed(s, i) <=> PassedIn(active, active[b], n, active[a], x)
      BY <3>1, <3>2 DEF Passed
    <3>4. Passed(s, i)' <=> PassedIn(active', active'[b], n, active'[a], x)
      BY <1>1, <1>4, <2>7, <3>1, <3>2 DEF Passed, It
    <3>5. PassedIn(active, active[b], n, active[a], x) <=> a < b \/ (a = b /\ x < n)
      BY <1>5, PassedAt
    <3>6. PassedIn(active', active'[b], n, active'[a], x) <=> a < b \/ (a = b /\ x < n)
      BY <1>4, <1>5, PassedAt
    <3> QED BY <3>3, <3>4, <3>5, <3>6
  <2>9. Follows(k, s, i)'
    BY <1>1, <2>6, <2>7, <2>8 DEF Follows, It
  <2> QED BY <1>1, <2>1, <2>3, <2>7, <2>9
<1> QED BY <1>3, <1>6


IterInv == CursorInv /\ FollowInv /\ RestInv /\ YieldsOnce

\* A call on the iterator that yields an item keeps track of all of them.
LEMMA YieldKeeps ==
    ASSUME IInv, OrderInv, LayoutInv, ContentInv, pc = "ready", ~ moved,
           UNCHANGED <<flash, active, pc, op, gc, lost>>,
           NEW f, NEW b \in DOMAIN active, NEW next \in Nat,
           GoesOn(b, next, f) # {}, Yield(FirstOf(GoesOn(b, next, f)), f),
           \A k \in steady' \ lost :
               /\ k # op.k /\ k \in f.keys /\ k \notin twice
               /\ \E a \in DOMAIN active : \E i \in LiveAt(flash[active[a]].log) :
                     /\ k = It(active[a], i).key /\ TypeOf[It(active[a], i).val] \in f.types
                     /\ k \in seen <=> (a < b \/ (a = b /\ It(active[a], i).at < next))
    PROVE  FollowInv' /\ RestInv' /\ YieldsOnce'
<1>1. it'.on /\ it'.keys = f.keys /\ it'.types = f.types
  BY DEF Yield
<1>2. Serving'
  BY DEF Serving
<1>3. ASSUME NEW k \in steady', k \notin lost
      PROVE  /\ k # op.k /\ k \in f.keys /\ k \notin twice'
             /\ \E s \in Sector : \E i \in LiveAt(flash[s].log) : Follows(k, s, i)'
  <2>1. k # op.k /\ k \in f.keys /\ k \notin twice
    BY <1>3
  <2>2. PICK a \in DOMAIN active : \E i \in LiveAt(flash[active[a]].log) :
           /\ k = It(active[a], i).key /\ TypeOf[It(active[a], i).val] \in f.types
           /\ k \in seen <=> (a < b \/ (a = b /\ It(active[a], i).at < next))
    BY <1>3
  <2>3. PICK i \in LiveAt(flash[active[a]].log) :
           /\ k = It(active[a], i).key /\ TypeOf[It(active[a], i).val] \in f.types
           /\ k \in seen <=> (a < b \/ (a = b /\ It(active[a], i).at < next))
    BY <2>2
  <2>4. (k \in seen' <=> Passed(active[a], i)') /\ (k \in twice' => k \in twice)
    BY <1>3, <2>1, <2>3, YieldFollows
  <2>5. PICK s \in Sector : s = active[a]
    BY DEF IInv, TypeOK, StoreType
  <2>6. s \in Range(active)
    BY <2>5 DEF Range
  <2>7. Follows(k, s, i)'
    BY <1>1, <2>3, <2>4, <2>5, <2>6 DEF Follows, It
  <2> QED BY <2>1, <2>3, <2>4, <2>5, <2>7
<1>4. FollowInv'
  BY <1>1, <1>2, <1>3 DEF FollowInv
<1>5. YieldsOnce'
  BY <1>3 DEF YieldsOnce
<1>6. RestInv'
  <2>1. "on" \in DOMAIN it'
    BY DEF Yield
  <2> QED BY <1>1, <2>1 DEF RestInv
<1> QED BY <1>4, <1>5, <1>6

LEMMA FindFollows ==
    ASSUME IInv, OrderInv, LayoutInv, ContentInv, IterInv, NEW f \in Filter, IterFind(f)
    PROVE  FollowInv' /\ RestInv' /\ YieldsOnce'
<1>1. /\ pc = "ready" /\ ~ it.on /\ UNCHANGED <<flash, active, pc, op, gc, lost, moved>>
      /\ seen = {} /\ twice = {} /\ op = NoOp /\ StoreType /\ ListsOK
  BY DEF IterFind, loaded, IterInv, RestInv, ContentInv, Started, IInv, TypeOK
<1>2. CASE UNCHANGED <<it, seen, twice, steady>>
  <2>1. "on" \in DOMAIN it /\ steady = {}
    BY <1>1 DEF IterInv, RestInv
  <2>2. it' = it /\ ~ it'.on /\ seen' = {} /\ twice' = {} /\ steady' = {}
    BY <1>1, <1>2, <2>1
  <2> QED BY <2>1, <2>2 DEF FollowInv, RestInv, YieldsOnce
<1>3. CASE /\ GoesOn(1, 0, f) # {} /\ Yield(FirstOf(GoesOn(1, 0, f)), f)
           /\ steady' = {k \in f.keys : FindItem(k, f.types).found}
  <2>1. 1 \in DOMAIN active /\ 0 \in Nat /\ DOMAIN active \subseteq Nat /\ \A a \in DOMAIN active : a >= 1
    <3>1. active \in Seq(Sector) /\ active # <<>>
      BY <1>1 DEF StoreType, ListsOK
    <3> QED BY <3>1
  <2>2. ASSUME NEW k \in steady', k \notin lost
        PROVE  /\ k # op.k /\ k \in f.keys /\ k \notin twice
               /\ \E a \in DOMAIN active : \E i \in LiveAt(flash[active[a]].log) :
                     /\ k = It(active[a], i).key /\ TypeOf[It(active[a], i).val] \in f.types
                     /\ k \in seen <=> (a < 1 \/ (a = 1 /\ It(active[a], i).at < 0))
    <3>1. PICK g : g = FindItem(k, f.types)
      OBVIOUS
    <3>2. k \in f.keys /\ g.found
      BY <1>3, <2>2, <3>1
    <3>3. g.sec \in Range(active) /\ g.i \in Matches(flash[g.sec], ram[g.sec], k, f.types)
      BY <1>1, <3>1, <3>2, FindItemFinds
    <3>4. PICK a \in DOMAIN active : active[a] = g.sec
      BY <3>3 DEF Range
    <3>5. PICK i : i = g.i
      OBVIOUS
    <3>6. /\ i \in LiveAt(flash[active[a]].log) /\ k = It(active[a], i).key
          /\ TypeOf[It(active[a], i).val] \in f.types
      BY <3>3, <3>4, <3>5 DEF Matches, It
    <3>7. active[a] \in Sector
      BY <1>1 DEF StoreType
    <3>8. k \in Keys /\ It(active[a], i).at \in Nat
      BY <1>1, <3>6, <3>7, LiveItem
    <3>9. k # op.k
      BY <1>1, <3>8, NoValueAssumption DEF NoOp
    <3>10. ~ (a < 1 \/ (a = 1 /\ It(active[a], i).at < 0))
      <4>1. a \in Nat /\ a >= 1
        BY <2>1
      <4> QED BY <3>8, <4>1
    <3> QED BY <1>1, <3>2, <3>6, <3>9, <3>10
  <2>3. CASE ~ moved
    BY <1>1, <1>3, <2>1, <2>2, <2>3, YieldKeeps
  <2>4. CASE moved
    BY <1>1, <1>3, <2>4 DEF FollowInv, YieldsOnce, RestInv, Yield
  <2> QED BY <2>3, <2>4
<1> QED BY <1>2, <1>3 DEF IterFind

LEMMA FreedRests == Freed => FollowInv' /\ RestInv' /\ YieldsOnce'
<1> SUFFICES ASSUME Freed PROVE FollowInv' /\ RestInv' /\ YieldsOnce'
  OBVIOUS
<1>1. /\ "on" \in DOMAIN it' /\ ~ it'.on
      /\ seen' = {} /\ twice' = {} /\ steady' = {}
  BY DEF Freed, NoIt
<1> QED BY <1>1 DEF FollowInv, RestInv, YieldsOnce

\* The keys an iteration keeps track of, by places in the active list.
LEMMA PlacesFollowed ==
    ASSUME IInv, IterInv, pc = "ready", it.on, ~ moved,
           NEW b \in DOMAIN active, active[b] = it.sec, NEW k \in steady \ lost
    PROVE  /\ k # op.k /\ k \in it.keys /\ k \notin twice
           /\ \E a \in DOMAIN active : \E i \in LiveAt(flash[active[a]].log) :
                 /\ k = It(active[a], i).key /\ TypeOf[It(active[a], i).val] \in it.types
                 /\ k \in seen <=> (a < b \/ (a = b /\ It(active[a], i).at < it.next))
<1>1. /\ k # op.k /\ k \in it.keys
      /\ \E s \in Sector : \E i \in LiveAt(flash[s].log) : Follows(k, s, i)
  BY DEF IterInv, FollowInv
<1>2. k \notin twice
  BY DEF IterInv, YieldsOnce
<1>3. PICK s \in Sector : \E i \in LiveAt(flash[s].log) : Follows(k, s, i)
  BY <1>1
<1>4. PICK i \in LiveAt(flash[s].log) : Follows(k, s, i)
  BY <1>3
<1>5. PICK a \in DOMAIN active : active[a] = s
  BY <1>4 DEF Follows, Range
<1>6. IsInjective(active)
  BY DEF IInv, ListsOK
<1>7. PICK x : x = It(s, i).at
  OBVIOUS
<1>8. PICK n : n = it.next
  OBVIOUS
<1>9. PassedIn(active, active[b], n, active[a], x) <=> a < b \/ (a = b /\ x < n)
  BY <1>6, PassedAt
<1>10. k \in seen <=> a < b \/ (a = b /\ x < n)
  BY <1>4, <1>5, <1>7, <1>8, <1>9 DEF Follows, Passed
<1>11. k = It(s, i).key /\ TypeOf[It(s, i).val] \in it.types
  BY <1>4 DEF Follows
<1> QED BY <1>1, <1>2, <1>5, <1>7, <1>8, <1>10, <1>11

\* Where the iterator is in the active list.
LEMMA PlaceOfCursor ==
    ASSUME IInv, CursorInv, it.on, ~ moved
    PROVE  /\ PlaceOf(it.sec) \in DOMAIN active /\ active[PlaceOf(it.sec)] = it.sec
           /\ it.next \in Nat
<1>1. it.sec \in Range(active) /\ EndsItem(flash[it.sec].log, it.next) /\ pc # "off"
  BY DEF CursorInv
<1>2. \E m \in DOMAIN active : active[m] = it.sec
  BY <1>1 DEF Range
<1>3. PlaceOf(it.sec) \in DOMAIN active /\ active[PlaceOf(it.sec)] = it.sec
  BY <1>2 DEF PlaceOf
<1>4. PICK s \in Sector : s = it.sec
  BY <1>1 DEF IInv, ListsOK
<1>5. flash[s].log \in Seq(Item)
  BY SectorTypes DEF IInv, TypeOK
<1>6. PICK log : log = flash[s].log
  OBVIOUS
<1>7. PICK i \in DOMAIN log : it.next = log[i].at + log[i].span
  BY <1>1, <1>4, <1>6 DEF EndsItem
<1>8. log[i].at \in Nat /\ log[i].span \in Nat
  BY <1>5, <1>6, <1>7, ItemNumbers
<1> QED BY <1>3, <1>7, <1>8

LEMMA NextFollows ==
    ASSUME IInv, OrderInv, LayoutInv, ContentInv, IterInv, IterNext
    PROVE  FollowInv' /\ RestInv' /\ YieldsOnce'
<1>1. PICK b, n, f : b = PlaceOf(it.sec) /\ n = it.next /\ f = it
  OBVIOUS
<1>2. /\ pc = "ready" /\ it.on /\ UNCHANGED <<flash, active, pc, op, gc, lost>>
      /\ \/ Freed
         \/ GoesOn(b, n, f) # {} /\ Yield(FirstOf(GoesOn(b, n, f)), f) /\ UNCHANGED <<steady, moved>>
  BY <1>1 DEF IterNext, loaded
<1>3. CASE Freed
  BY <1>3, FreedRests
<1>4. CASE /\ GoesOn(b, n, f) # {} /\ Yield(FirstOf(GoesOn(b, n, f)), f)
           /\ UNCHANGED <<steady, moved>>
  <2>1. CASE moved
    <3>1. it'.on /\ "on" \in DOMAIN it' /\ moved'
      BY <1>4, <2>1 DEF Yield
    <3> QED BY <3>1 DEF FollowInv, YieldsOnce, RestInv
  <2>2. CASE ~ moved
    <3>1. b \in DOMAIN active /\ active[b] = it.sec /\ n \in Nat
      BY <1>1, <1>2, <2>2, PlaceOfCursor DEF IterInv
    <3>2. ASSUME NEW k \in steady' \ lost
          PROVE  /\ k # op.k /\ k \in f.keys /\ k \notin twice
                 /\ \E a \in DOMAIN active : \E i \in LiveAt(flash[active[a]].log) :
                       /\ k = It(active[a], i).key /\ TypeOf[It(active[a], i).val] \in f.types
                       /\ k \in seen <=> (a < b \/ (a = b /\ It(active[a], i).at < n))
      <4>1. k \in steady \ lost
        BY <1>4
      <4> QED BY <1>1, <1>2, <2>2, <3>1, <4>1, PlacesFollowed
    <3> QED BY <1>2, <1>4, <2>2, <3>1, <3>2, YieldKeeps
  <2> QED BY <2>1, <2>2
<1> QED BY <1>2, <1>3, <1>4

\* What the store does leaves the iteration at rest, or counts what has been yielded.
LEMMA StoreCounts ==
    ASSUME IInv, IterInv, IterStore
    PROVE  RestInv' /\ YieldsOnce'
<1>1. /\ Step \/ Call
      /\ it' = it /\ seen' = seen /\ twice' = twice /\ steady' \subseteq steady
      /\ moved => moved'
  BY DEF IterStore
<1>2. RestInv'
  BY <1>1 DEF IterInv, RestInv
<1>3. CASE it.on /\ ~ moved
  <2>1. lost \subseteq lost'
    BY <1>1, <1>3, CallsGoOn DEF IterInv, FollowInv, IInv, TypeOK
  <2> QED BY <1>1, <1>2, <1>3, <2>1 DEF IterInv, YieldsOnce
<1>4. CASE ~ it.on
  <2>1. twice' = {}
    BY <1>1, <1>4 DEF IterInv, RestInv
  <2> QED BY <1>2, <2>1 DEF YieldsOnce
<1>5. CASE moved
  BY <1>1, <1>2, <1>5 DEF YieldsOnce
<1> QED BY <1>3, <1>4, <1>5

LEMMA UnloadRests ==
    ASSUME IterInv, IterUnload
    PROVE  FollowInv' /\ RestInv' /\ YieldsOnce'
<1>1. UNCHANGED <<seen, twice, steady>> /\ moved' = it.on /\ "on" \in DOMAIN it
  BY DEF IterUnload, IterInv, RestInv
<1>2. CASE it.on
  <2>1. it' = [it EXCEPT !.sec = NoSector]
    BY <1>2 DEF IterUnload
  <2>2. "on" \in DOMAIN it' /\ it'.on
    BY <1>1, <1>2, <2>1
  <2> QED BY <1>1, <1>2, <2>2 DEF FollowInv, RestInv, YieldsOnce
<1>3. CASE ~ it.on
  <2>1. it' = it /\ seen = {} /\ twice = {} /\ steady = {}
    BY <1>3 DEF IterUnload, IterInv, RestInv
  <2> QED BY <1>1, <1>3, <2>1 DEF FollowInv, RestInv, YieldsOnce
<1> QED BY <1>2, <1>3

LEMMA IterInvKept ==
    ASSUME IInv, OrderInv, LayoutInv, ContentInv, IInv', IterInv, [IterAllNext]_ivars
    PROVE  IterInv'
<1>1. CursorInv'
  BY CursorKept DEF IterInv
<1>2. CASE IterStore
  BY <1>1, <1>2, StoreFollows, StoreCounts DEF IterInv
<1>3. CASE IterUnload
  BY <1>1, <1>3, UnloadRests DEF IterInv
<1>4. CASE IterPowerOff \/ IterAstray \/ IterRelease
  BY <1>1, <1>4, FreedRests DEF IterPowerOff, IterAstray, IterRelease, IterInv
<1>5. ASSUME NEW f \in Filter, IterFind(f) PROVE IterInv'
  BY <1>1, <1>5, FindFollows DEF IterInv
<1>6. CASE IterNext
  BY <1>1, <1>6, NextFollows DEF IterInv
<1>7. CASE UNCHANGED ivars
  <2>1. UNCHANGED <<it, moved, pc, op, steady, lost, seen, twice, flash, active, gc>>
    BY <1>7 DEF ivars
  <2>2. RestInv' /\ YieldsOnce'
    BY <2>1 DEF IterInv, RestInv, YieldsOnce
  <2>3. FollowInv'
    BY <2>1 DEF IterInv, FollowInv, Serving, Follows, Passed, It
  <2> QED BY <1>1, <2>2, <2>3 DEF IterInv
<1> QED BY <1>2, <1>3, <1>4, <1>5, <1>6, <1>7 DEF IterAllNext

\* An iterator that finds nothing to go on to has yielded all it keeps track of.
LEMMA EndsWithAll ==
    ASSUME IInv, OrderInv, LayoutInv, ContentInv, IterInv
    PROVE  Ends /\ ~ moved => steady \subseteq seen \union lost
<1> SUFFICES ASSUME Ends, ~ moved, NEW k \in steady, k \notin lost
             PROVE  k \in seen
  OBVIOUS
<1>1. PICK b, n, f : b = PlaceOf(it.sec) /\ n = it.next /\ f = it
  OBVIOUS
<1>2. pc = "ready" /\ it.on /\ GoesOn(b, n, f) = {}
  BY <1>1 DEF Ends, IterNext, Yield
<1>3. b \in DOMAIN active /\ active[b] = it.sec /\ n \in Nat
  BY <1>1, <1>2, PlaceOfCursor DEF IterInv
<1>4. /\ k \in f.keys
      /\ \E a \in DOMAIN active : \E i \in LiveAt(flash[active[a]].log) :
            /\ k = It(active[a], i).key /\ TypeOf[It(active[a], i).val] \in f.types
            /\ k \in seen <=> (a < b \/ (a = b /\ It(active[a], i).at < n))
  BY <1>1, <1>2, <1>3, PlacesFollowed
<1>5. PICK a \in DOMAIN active : \E i \in LiveAt(flash[active[a]].log) :
            /\ k = It(active[a], i).key /\ TypeOf[It(active[a], i).val] \in f.types
            /\ k \in seen <=> (a < b \/ (a = b /\ It(active[a], i).at < n))
  BY <1>4
<1>6. PICK i \in LiveAt(flash[active[a]].log) :
            /\ k = It(active[a], i).key /\ TypeOf[It(active[a], i).val] \in f.types
            /\ k \in seen <=> (a < b \/ (a = b /\ It(active[a], i).at < n))
  BY <1>5
<1>7. ASSUME k \notin seen PROVE FALSE
  <2>1. <<a, i>> \in GoesOn(b, n, f)
    BY <1>2, <1>3, <1>4, <1>6, <1>7, ToBeMet
  <2> QED BY <1>2, <2>1
<1> QED BY <1>7

LEMMA IterStarts == IterInit => IterInv
<1> SUFFICES ASSUME IterInit PROVE IterInv
  OBVIOUS
<1>1. /\ "on" \in DOMAIN it /\ ~ it.on /\ seen = {} /\ twice = {} /\ steady = {}
  BY DEF IterInit, NoIt
<1> QED BY <1>1 DEF IterInv, CursorInv, FollowInv, RestInv, YieldsOnce

LEMMA IterInvHolds == IterSpec => []IterInv
<1>1. IInv /\ OrderInv /\ LayoutInv /\ ContentInv /\ IInv' /\ IterInv /\ [IterAllNext]_ivars
        => IterInv'
  BY IterInvKept
<1> QED BY <1>1, IterStarts, IterationsLeaveTheStore, InvariantHolds, OrderHolds, LayoutHolds,
           ContentHolds, PTL DEF IterSpec

\* As long as no sector is taken off the active list, jekv_iterator_next yields no item
\* twice that was there when the iteration began and that no call has changed since: the
\* iterator is past an item exactly when it has yielded it.
THEOREM NothingIsYieldedTwice == IterSpec => []YieldsOnce
<1>1. IterInv => YieldsOnce
  BY DEF IterInv
<1> QED BY <1>1, IterInvHolds, PTL

\* And when jekv_iterator_next comes to the end of the list and frees the iterator, it has
\* yielded all of them, whatever was set and deleted in between.
THEOREM WhatStaysIsPolled == IterSpec => PollsWhatStays
<1>1. IInv /\ OrderInv /\ LayoutInv /\ ContentInv /\ IterInv
        => [Ends /\ ~ moved => steady \subseteq seen \union lost]_ivars
  BY EndsWithAll
<1> QED BY <1>1, IterInvHolds, IterationsLeaveTheStore, InvariantHolds, OrderHolds, LayoutHolds,
           ContentHolds, PTL DEF PollsWhatStays

=============================================================================
