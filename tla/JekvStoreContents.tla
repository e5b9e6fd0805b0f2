------------------------- MODULE JekvStoreContents -------------------------
(***************************************************************************)
(* For partitions of every size, every set of keys and values and any      *)
(* number of power failures: what the items of the partition say.  Two     *)
(* live items of a key are an item and its copy, or an item and the one    *)
(* that replaces it, and only while a call, or a start, is about to erase  *)
(* one of them.  One lemma per action says that it keeps ContentInv.       *)
(* From that, JekvStore implements KVStore: one lemma per action says      *)
(* which step of the promise it takes.                                     *)
(***************************************************************************)
EXTENDS JekvStoreInvariant, JekvStoreRefines

-----------------------------------------------------------------------------
(* Live items *)

LEMMA LiveInLog ==
    ASSUME NEW log \in Seq(Item), NEW i \in LiveAt(log)
    PROVE  /\ i \in Nat /\ i \in DOMAIN log /\ i <= Len(log) /\ Len(log) \in Nat
           /\ log[i] \in Item /\ log[i].key \in Keys /\ log[i].val \in Values
           /\ log[i].at \in Nat /\ log[i].span \in Nat
           /\ log[i].st \in {"using", "nodata"}
<1>1. /\ i \in DOMAIN log /\ IsLive(log[i])
      /\ DOMAIN log = 1 .. Len(log) /\ Len(log) \in Nat
  BY DEF LiveAt
<1>2. log[i] \in Item
  BY <1>1
<1> QED BY <1>1, <1>2 DEF Item, IsLive

LEMMA LiveItem ==
    ASSUME StoreType, NEW s \in Sector, NEW i \in LiveAt(flash[s].log)
    PROVE  /\ i \in Nat /\ i \in DOMAIN flash[s].log /\ i <= Len(flash[s].log)
           /\ Len(flash[s].log) \in Nat
           /\ It(s, i) \in Item /\ It(s, i).key \in Keys /\ It(s, i).val \in Values
           /\ It(s, i).at \in Nat /\ It(s, i).span \in Nat
           /\ It(s, i).st \in {"using", "nodata"}
<1>1. flash[s].log \in Seq(Item)
  BY SectorTypes
<1> QED BY <1>1, LiveInLog DEF It

\* Items take a slice at least, so their number in a sector is bounded.
LEMMA PlaceFits ==
    ASSUME NEW log \in Seq(Item), Packed(log), NEW i \in LiveAt(log)
    PROVE  i \in 1 .. Slices
<1>1. /\ Len(log) \in Nat /\ DOMAIN log = 1 .. Len(log) /\ i \in 1 .. Len(log)
      /\ \A j \in 1 .. Len(log) : log[j].at \in Nat /\ log[j].span \in Nat
  <2>1. Len(log) \in Nat /\ DOMAIN log = 1 .. Len(log) /\ i \in DOMAIN log
    BY DEF LiveAt
  <2>2. \A j \in 1 .. Len(log) : log[j] \in Item
    OBVIOUS
  <2> QED BY <2>1, <2>2 DEF Item
<1>2. /\ \A j \in 1 .. i : log[j].at \in 0 .. Slices - 1
      /\ \A j, m \in 1 .. i : log[j].at = log[m].at => j = m
  <2>1. log[i].at + log[i].span <= Slices /\ log[i].span >= 1
    BY <1>1 DEF Packed
  <2>2. \A j \in 1 .. i : j \in 1 .. Len(log) /\ log[j].at \in Nat
    BY <1>1
  <2>3. ASSUME NEW j \in 1 .. i, NEW m \in 1 .. i, j < m
        PROVE  log[j].at + 1 <= log[m].at
    <3>1. /\ log[j].at + log[j].span <= log[m].at /\ log[j].span >= 1
      BY <1>1, <2>2, <2>3 DEF Packed
    <3> QED BY <1>1, <2>2, <3>1
  <2>4. ASSUME NEW j \in 1 .. i PROVE log[j].at \in 0 .. Slices - 1
    <3>1. log[j].at <= log[i].at
      BY <1>1, <2>2, <2>3, <2>4
    <3>2. \A a, b, c \in Nat : a <= b /\ b + c <= Slices /\ c >= 1 => a \in 0 .. Slices - 1
      BY SlicesAssumption
    <3> QED BY <1>1, <2>1, <2>2, <3>1, <3>2
  <2>5. \A j, m \in 1 .. i : log[j].at = log[m].at => j = m
    <3>1. ASSUME NEW j \in 1 .. i, NEW m \in 1 .. i, log[j].at = log[m].at, j # m PROVE FALSE
      <4>1. j < m \/ m < j
        BY <1>1, <3>1
      <4> QED BY <2>2, <2>3, <3>1, <4>1
    <3> QED BY <3>1
  <2> QED BY <2>4, <2>5
<1>3. PICK f : f = [j \in 1 .. i |-> log[j].at]
  OBVIOUS
<1>4. f \in Injection(1 .. i, 0 .. Slices - 1)
  BY <1>2, <1>3 DEF Injection, IsInjective
<1>5. /\ IsFiniteSet(0 .. Slices - 1) /\ Cardinality(0 .. Slices - 1) = Slices
      /\ Cardinality(1 .. i) = i
  <2>1. \A n \in Nat : Cardinality(1 .. n) = n /\ IsFiniteSet(0 .. n - 1) /\ Cardinality(0 .. n - 1) = n
    <3> SUFFICES ASSUME NEW n \in Nat
                 PROVE  /\ Cardinality(1 .. n) = n
                        /\ IsFiniteSet(0 .. n - 1) /\ Cardinality(0 .. n - 1) = n
      OBVIOUS
    <3>1. Cardinality(1 .. n) = IF 1 > n THEN 0 ELSE n - 1 + 1
      BY FS_Interval
    <3>2. /\ IsFiniteSet(0 .. n - 1)
          /\ Cardinality(0 .. n - 1) = IF 0 > n - 1 THEN 0 ELSE n - 1 - 0 + 1
      BY FS_Interval
    <3> QED BY <3>1, <3>2
  <2> QED BY <1>1, <2>1, SlicesAssumption
<1> QED BY <1>1, <1>4, <1>5, FS_Injection

\* The items of a sector are told apart by where they are.
LEMMA PlacesDiffer ==
    ASSUME StoreType, NEW s \in Sector, Packed(flash[s].log),
           NEW i \in DOMAIN flash[s].log, NEW j \in DOMAIN flash[s].log, It(s, i).at = It(s, j).at
    PROVE  i = j
<1>1. PICK log : log = flash[s].log
  OBVIOUS
<1>2. /\ log \in Seq(Item) /\ i \in DOMAIN log /\ j \in DOMAIN log
      /\ log[i].at = log[j].at /\ Packed(log)
  BY <1>1, SectorTypes DEF It
<1>3. /\ i \in Nat /\ j \in Nat
      /\ log[i].at \in Nat /\ log[i].span \in Nat /\ log[j].span \in Nat
  BY <1>2, ItemNumbers
<1>4. log[i].span >= 1 /\ log[j].span >= 1
  BY <1>2 DEF Packed
<1>5. ~ (i < j)
  BY <1>2, <1>3, <1>4 DEF Packed
<1>6. ~ (j < i)
  BY <1>2, <1>3, <1>4 DEF Packed
<1> QED BY <1>3, <1>5, <1>6

\* No key has two live items,
Alone == \A k \in Keys \ lost : LiveOnce(k)

\* and no item lacks its data: what holds between the calls, and while neither an item
\* nor a copy is being made.
Complete ==
    \A s \in Sector : \A i \in LiveAt(flash[s].log) :
        Used(s) /\ It(s, i).st = "nodata" => It(s, i).key \in lost

Quiet == pc \notin {"off", "checkwrite", "checkgc", "data", "eraseold", "gccopy", "gcdata"}

LEMMA QuietIsAlone ==
    ASSUME StoreType, Twins, Quiet
    PROVE  Alone
<1> SUFFICES ASSUME NEW k \in Keys, k \notin lost, NEW s \in Sector, NEW t \in Sector,
                    NEW i \in LiveAt(flash[s].log), NEW j \in LiveAt(flash[t].log),
                    Used(s), Used(t), It(s, i).key = k, It(t, j).key = k,
                    ~ (s = t /\ i = j)
             PROVE  FALSE
  BY DEF Alone, LiveOnce, Used, It
<1>1. <<s, i>> # <<t, j>>
  OBVIOUS
<1>2. Twin(s, i, t, j) \/ Twin(t, j, s, i)
  BY <1>1 DEF Twins
<1> QED BY <1>2 DEF Twin, Copying, Overwriting, Quiet

LEMMA QuietIsComplete ==
    ASSUME Unfinished, pc \notin {"off", "checkwrite", "data", "gcdata"}
    PROVE  Complete
BY DEF Unfinished, Complete, Halfway

LEMMA AloneHasNoTwins ==
    ASSUME StoreType', Alone'
    PROVE  Twins'
<1> SUFFICES ASSUME NEW s \in Sector, NEW t \in Sector,
                    NEW i \in LiveAt(flash'[s].log), NEW j \in LiveAt(flash'[t].log),
                    Used(s)', Used(t)', flash'[s].log[i].key = flash'[t].log[j].key,
                    flash'[s].log[i].key \notin lost'
             PROVE  s = t /\ i = j
  BY DEF Twins, It
<1>1. flash'[s].log \in Seq(Item)
  BY DEF StoreType, FlashSector
<1>2. flash'[s].log[i].key \in Keys
  BY <1>1, LiveInLog
<1> QED BY <1>2 DEF Alone, LiveOnce, Used

LEMMA CompleteIsFinished ==
    ASSUME Complete'
    PROVE  Unfinished'
BY DEF Unfinished, Complete

\* With one item of a key, any two are the same.
LEMMA AloneIs ==
    ASSUME StoreType, Alone, NEW s \in Sector, NEW t \in Sector,
           NEW i \in LiveAt(flash[s].log), NEW j \in LiveAt(flash[t].log),
           Used(s), Used(t), It(s, i).key = It(t, j).key, It(s, i).key \notin lost
    PROVE  s = t /\ i = j
<1>1. It(s, i).key \in Keys
  BY LiveItem
<1> QED BY <1>1 DEF Alone, LiveOnce, Used, It

-----------------------------------------------------------------------------
(* Steps that make no item *)

\* The items that a sector in use has afterwards are the ones it had,
Inherits(s) ==
    Used(s)' => \A i \in LiveAt(flash'[s].log) :
        Used(s) /\ i \in LiveAt(flash[s].log) /\ flash'[s].log[i] = flash[s].log[i]

\* and the hash table leads to them if it did.
HashKept(s) ==
    IsUsed(ram'[s].st) => \A i \in LiveAt(flash'[s].log) :
        /\ IsUsed(ram[s].st) /\ i \in LiveAt(flash[s].log)
        /\ flash'[s].log[i].at = flash[s].log[i].at
        /\ flash[s].log[i].at \in ram[s].hash => flash[s].log[i].at \in ram'[s].hash

Lessens == \A s \in Sector : Inherits(s) /\ HashKept(s)

LEMMA AloneStays ==
    ASSUME StoreType', Alone, \A s \in Sector : Inherits(s), lost \subseteq lost'
    PROVE  Alone' /\ Twins'
<1>1. ASSUME NEW k \in Keys, k \notin lost', NEW s \in Sector, NEW t \in Sector,
             NEW i \in LiveAt(flash'[s].log), NEW j \in LiveAt(flash'[t].log),
             Used(s)', Used(t)', flash'[s].log[i].key = k, flash'[t].log[j].key = k
      PROVE  s = t /\ i = j
  <2>1. /\ Used(s) /\ i \in LiveAt(flash[s].log) /\ flash[s].log[i].key = k
        /\ Used(t) /\ j \in LiveAt(flash[t].log) /\ flash[t].log[j].key = k
    BY <1>1 DEF Inherits
  <2> QED BY <1>1, <2>1 DEF Alone, LiveOnce, Used
<1>2. Alone'
  BY <1>1 DEF Alone, LiveOnce, Used
<1> QED BY <1>2, AloneHasNoTwins

LEMMA CompleteStays ==
    ASSUME Complete, \A s \in Sector : Inherits(s), lost \subseteq lost'
    PROVE  Complete' /\ Unfinished'
<1>1. Complete'
  BY DEF Complete, Inherits, It, Used
<1> QED BY <1>1, CompleteIsFinished

LEMMA HashedStays ==
    ASSUME Hashed, pc \notin {"data", "gcdata"}, \A s \in Sector : HashKept(s)
    PROVE  Hashed'
BY DEF Hashed, HashKept, Halfway, It

\* Dropping an item.
LEMMA DropAtLive ==
    ASSUME NEW f \in FlashSector, NEW at, NEW i
    PROVE  /\ i \in LiveAt(DropAt(f, at).log) <=> i \in LiveAt(f.log) /\ f.log[i].at # at
           /\ i \in LiveAt(DropAt(f, at).log) => DropAt(f, at).log[i] = f.log[i]
<1>1. \A n \in DOMAIN f.log : f.log[n] \in Item
  BY ItemNumbers DEF FlashSector
<1>2. CASE \E n \in DOMAIN f.log : f.log[n].at = at
  <2>1. DropAt(f, at).log = [n \in DOMAIN f.log |->
                               IF f.log[n].at = at THEN [f.log[n] EXCEPT !.st = "droped"]
                                                   ELSE f.log[n]]
    BY <1>2 DEF DropAt, FlashSector
  <2> QED BY <1>1, <2>1 DEF LiveAt, IsLive, Item
<1>3. CASE ~ \E n \in DOMAIN f.log : f.log[n].at = at
  <2>1. DropAt(f, at).log = f.log
    BY <1>3 DEF DropAt, FlashSector
  <2> QED BY <1>3, <2>1 DEF LiveAt
<1> QED BY <1>2, <1>3

LEMMA DropLessens ==
    ASSUME StoreType, NEW s \in Sector, NEW at, NEW span, DropItem(s, at, span)
    PROVE  /\ Lessens
           /\ \A t \in Sector : (Used(t)' <=> Used(t)) /\ flash'[t].sn = flash[t].sn
           /\ \A t \in Sector : IsDeleting(t)' <=> IsDeleting(t)
           /\ \A t \in Sector \ {s} : flash'[t] = flash[t]
           /\ \A i : i \in LiveAt(flash'[s].log) <=>
                        i \in LiveAt(flash[s].log) /\ flash[s].log[i].at # at
           /\ \A i \in LiveAt(flash'[s].log) : flash'[s].log[i] = flash[s].log[i]
<1>1. /\ flash \in [Sector -> FlashSector] /\ ram \in [Sector -> RamSector]
      /\ flash[s] \in FlashSector /\ ram[s] \in RamSector
  BY DEF StoreType
<1>2. /\ flash'[s] = DropAt(flash[s], at)
      /\ \A t \in Sector \ {s} : flash'[t] = flash[t] /\ ram'[t] = ram[t]
      /\ ram'[s].hash = ram[s].hash \ {at} /\ ram'[s].st = ram[s].st
  BY <1>1 DEF DropItem, RamSector
<1>3. SameHeaders
  BY DropFrame
<1>4. /\ \A i : i \in LiveAt(flash'[s].log) <=>
                   i \in LiveAt(flash[s].log) /\ flash[s].log[i].at # at
      /\ \A i \in LiveAt(flash'[s].log) : flash'[s].log[i] = flash[s].log[i]
  BY <1>1, <1>2, DropAtLive
<1>5. \A t \in Sector : (Used(t)' <=> Used(t)) /\ (IsDeleting(t)' <=> IsDeleting(t))
  BY <1>3 DEF SameHeaders, Used, IsDeleting
<1>6. Inherits(s) /\ HashKept(s)
  BY <1>2, <1>4, <1>5 DEF Inherits, HashKept
<1>7. ASSUME NEW t \in Sector, t # s PROVE Inherits(t) /\ HashKept(t)
  BY <1>2, <1>5, <1>7 DEF Inherits, HashKept
<1> QED BY <1>2, <1>3, <1>4, <1>5, <1>6, <1>7 DEF Lessens, SameHeaders

\* Taking a sector into use,
LEMMA ActivateLessens ==
    ASSUME StoreType, ListsOK, Agree, idle # <<>>, Activate, NEW s, s = Head(idle)
    PROVE  /\ Lessens /\ s \in Sector
           /\ \A t \in Sector \ {s} : flash'[t] = flash[t]
           /\ Used(s)' => flash'[s] = flash[s]
<1>2. /\ flash \in [Sector -> FlashSector] /\ ram \in [Sector -> RamSector]
      /\ s \in Sector /\ serial \in Nat
      /\ \A t \in Sector \ {s} : flash'[t] = flash[t] /\ ram'[t] = ram[t]
  BY ActivateKeeps DEF StoreType
<1>3. /\ flash'[s] = IF ram[s].st = "crash" THEN Blank ELSE flash[s]
      /\ ram'[s] = [(IF ram[s].st = "crash" THEN Unloaded ELSE ram[s]) EXCEPT !.sn = serial]
  BY <1>2 DEF Activate
<1>4. Inherits(s) /\ HashKept(s) /\ (Used(s)' => flash'[s] = flash[s])
  <2>1. CASE ram[s].st = "crash"
    <3>1. ~ Used(s)' /\ ~ IsUsed(ram'[s].st)
      BY <1>3, <2>1 DEF Blank, Unloaded, Used, IsUsed
    <3> QED BY <3>1 DEF Inherits, HashKept
  <2>2. CASE ram[s].st # "crash"
    <3>1. ram'[s].st = ram[s].st /\ ram'[s].hash = ram[s].hash /\ flash'[s] = flash[s]
      BY <1>2, <1>3, <2>2 DEF RamSector
    <3> QED BY <3>1 DEF Inherits, HashKept, Used
  <2> QED BY <2>1, <2>2
<1>5. ASSUME NEW t \in Sector, t # s PROVE Inherits(t) /\ HashKept(t)
  BY <1>2, <1>5 DEF Inherits, HashKept, Used
<1> QED BY <1>2, <1>4, <1>5 DEF Lessens

\* programming the header of an empty one,
LEMMA InitLessens ==
    ASSUME StoreType, FlashOrder, Agree, NEW s \in Sector, Fresh(s), InitSector(s)
    PROVE  /\ Lessens /\ ~ Used(s) /\ flash[s].log = <<>>
           /\ \A t \in Sector : flash'[t].log = flash[t].log
           /\ \A t \in Sector \ {s} : flash'[t] = flash[t]
<1>1. flash \in [Sector -> FlashSector] /\ ram \in [Sector -> RamSector]
  BY DEF StoreType
<1>2. flash[s].log = <<>> /\ ~ Used(s)
  BY DEF FlashOrder, Agree, Used, IsUsed
<1>3. /\ \A t \in Sector : flash'[t].log = flash[t].log
      /\ \A t \in Sector \ {s} : ram'[t] = ram[t] /\ flash'[t] = flash[t]
  BY <1>1 DEF InitSector, FlashSector
<1>4. LiveAt(flash'[s].log) = {}
  BY <1>2, <1>3 DEF LiveAt
<1>5. \A t \in Sector : Inherits(t) /\ HashKept(t)
  BY <1>3, <1>4 DEF Inherits, HashKept, Used
<1> QED BY <1>2, <1>3, <1>5 DEF Lessens

\* changing the state of one in use,
LEMMA StateLessens ==
    ASSUME StoreType, NEW s \in Sector, Used(s), IsUsed(ram[s].st), NEW st, SetState(s, st)
    PROVE  /\ Lessens
           /\ \A t \in Sector : flash'[t].log = flash[t].log /\ flash'[t].sn = flash[t].sn
           /\ \A t \in Sector \ {s} : flash'[t] = flash[t]
           /\ flash'[s].hdr = st
<1>1. flash \in [Sector -> FlashSector] /\ ram \in [Sector -> RamSector]
  BY DEF StoreType
<1>2. /\ \A t \in Sector : flash'[t].sn = flash[t].sn /\ flash'[t].log = flash[t].log
      /\ \A t \in Sector \ {s} : flash'[t] = flash[t] /\ ram'[t] = ram[t]
      /\ flash'[s].hdr = st
  BY StateFrame
<1>3. ram'[s].hash = ram[s].hash
  BY <1>1 DEF SetState, RamSector
<1>4. \A t \in Sector : Inherits(t) /\ HashKept(t)
  BY <1>2, <1>3 DEF Inherits, HashKept, Used
<1> QED BY <1>2, <1>4 DEF Lessens

\* and erasing one.
LEMMA EraseLessens ==
    ASSUME StoreType, NEW s \in Sector, EraseToIdle(s)
    PROVE  /\ Lessens /\ flash'[s].log = <<>> /\ ~ Used(s)'
           /\ \A t \in Sector \ {s} : flash'[t] = flash[t]
<1>1. flash \in [Sector -> FlashSector] /\ ram \in [Sector -> RamSector]
  BY DEF StoreType
<1>2. /\ flash'[s] = Blank /\ ram'[s] = [Unloaded EXCEPT !.sn = ram[s].sn]
      /\ \A t \in Sector \ {s} : flash'[t] = flash[t] /\ ram'[t] = ram[t]
  BY <1>1 DEF EraseToIdle
<1>3. flash'[s].log = <<>> /\ ~ Used(s)' /\ ~ IsUsed(ram'[s].st)
  BY <1>2 DEF Blank, Unloaded, Used, IsUsed
<1>4. \A t \in Sector : Inherits(t) /\ HashKept(t)
  BY <1>2, <1>3 DEF Inherits, HashKept, Used
<1> QED BY <1>2, <1>3, <1>4 DEF Lessens

-----------------------------------------------------------------------------
(* Steps between quiet states *)

Resting == pc \in {"ready", "recerase", "recgc", "finish"}

\* Everything that is quiet stays so while no item is made.
LEMMA QuietStays ==
    ASSUME StoreType, StoreType', ContentInv, Quiet, Lessens, lost \subseteq lost'
    PROVE  Twins' /\ Unfinished' /\ Hashed' /\ Alone' /\ Complete'
<1>1. Alone /\ Complete
  BY QuietIsAlone, QuietIsComplete DEF ContentInv, Quiet
<1>2. \A s \in Sector : Inherits(s) /\ HashKept(s)
  BY DEF Lessens
<1> QED BY <1>1, <1>2, AloneStays, CompleteStays, HashedStays DEF ContentInv, Quiet

\* At the end of a call, and in a start that looks at nothing more, no more is asked.
LEMMA RestContent ==
    ASSUME Twins', Unfinished', Hashed', Resting' \/ pc' \in {"off", "checkgc"},
           pc' = "ready" => op' = NoOp
    PROVE  ContentInv'
BY DEF Resting, ContentInv, Programming, CopiedSafely, FoundStays, OthersOld, Started,
       Calling, InGc

LEMMA QuietContent ==
    ASSUME StoreType, StoreType', ContentInv, Quiet, Lessens, lost \subseteq lost',
           Resting' \/ pc' = "off", pc' = "ready" => op' = NoOp
    PROVE  ContentInv'
BY QuietStays, RestContent

LEMMA SameLessens ==
    ASSUME UNCHANGED flash, UNCHANGED ram \/ ram' = [s \in Sector |-> Unloaded]
    PROVE  Lessens
BY DEF Lessens, Inherits, HashKept, Used, Unloaded, IsUsed

LEMMA StutterContent ==
    ASSUME ContentInv, UNCHANGED vars
    PROVE  ContentInv'
<1>1. UNCHANGED <<flash, ram, active, idle, pc, op, gc, lost>>
  BY DEF vars
<1>2. /\ \A s, t : Newer(s, t)' <=> Newer(s, t)
      /\ \A s : (Used(s)' <=> Used(s)) /\ (IsDeleting(s)' <=> IsDeleting(s))
      /\ \A s, i : (Halfway(s, i)' <=> Halfway(s, i)) /\ It(s, i)' = It(s, i)
      /\ ToCopy' = ToCopy /\ Cur' = Cur
  BY <1>1 DEF Newer, Used, IsDeleting, Halfway, It, ToCopy, Cur
<1>4. \A s, i : (Newest(s)' <=> Newest(s)) /\ (LastWritten(s, i)' <=> LastWritten(s, i))
  BY <1>1, <1>2 DEF Newest, LastWritten
<1>5. \A s, i, t, j : Twin(s, i, t, j)' <=> Twin(s, i, t, j)
  <2>1. \A s, i, t, j : Copying(s, i, t, j)' <=> Copying(s, i, t, j)
    BY <1>1, <1>2, <1>4 DEF Copying
  <2>2. \A s, i, t, j : Overwriting(s, i, t, j)' <=> Overwriting(s, i, t, j)
    BY <1>1, <1>2, <1>4 DEF Overwriting
  <2> QED BY <2>1, <2>2 DEF Twin
<1>6. Twins'
  BY <1>1, <1>2, <1>5 DEF ContentInv, Twins
<1>7. Unfinished' /\ Hashed'
  BY <1>1, <1>2, <1>4 DEF ContentInv, Unfinished, Hashed
<1>3. Programming' /\ CopiedSafely' /\ FoundStays' /\ OthersOld' /\ Started'
  <2>1. /\ \A s, at, span : OverStale(s, at, span)' <=> OverStale(s, at, span)
        /\ Copied' = Copied /\ (Calling' <=> Calling)
    BY <1>1, <1>2 DEF OverStale, Copied, Calling, InGc
  <2>2. Programming'
    BY <1>1, <1>2, <2>1 DEF ContentInv, Programming, Programmed
  <2>3. CopiedSafely'
    BY <1>1, <1>2, <2>1 DEF ContentInv, CopiedSafely
  <2>4. FoundStays' /\ OthersOld' /\ Started'
    BY <1>1, <1>2, <2>1 DEF ContentInv, FoundStays, OthersOld, Started, Calling, InGc, Fresh
  <2> QED BY <2>2, <2>3, <2>4
<1> QED BY <1>3, <1>6, <1>7 DEF ContentInv

\* The call being served stays the same.
SameCall == /\ op'.k = op.k /\ op'.v = op.v /\ op'.old = op.old
            /\ op'.found = op.found /\ op'.sec = op.sec /\ op'.at = op.at

LEMMA OthersStay ==
    ASSUME OthersOld, Calling, pc \notin {"data", "eraseold"}, SameCall,
           \A s \in Sector : Inherits(s), lost \subseteq lost'
    PROVE  OthersOld'
<1> SUFFICES ASSUME op'.k \notin lost'
             PROVE  /\ op'.found => op'.old # op'.v
                    /\ \A s \in Sector : \A i \in LiveAt(flash'[s].log) :
                          Used(s)' /\ flash'[s].log[i].key = op'.k
                          => op'.found /\ flash'[s].log[i].val = op'.old
  BY DEF OthersOld, It
<1>1. op.k \notin lost
  BY DEF SameCall
<1>2. op.found => op.old # op.v
  BY <1>1 DEF OthersOld
<1>3. ASSUME NEW s \in Sector, NEW i \in LiveAt(flash'[s].log),
             Used(s)', flash'[s].log[i].key = op'.k
      PROVE  op'.found /\ flash'[s].log[i].val = op'.old
  <2>1. Used(s) /\ i \in LiveAt(flash[s].log) /\ flash'[s].log[i] = flash[s].log[i]
    BY <1>3 DEF Inherits
  <2>2. op.found /\ flash[s].log[i].val = op.old
    BY <1>1, <1>3, <2>1 DEF OthersOld, It, SameCall
  <2> QED BY <2>1, <2>2 DEF SameCall
<1> QED BY <1>2, <1>3 DEF SameCall

\* A sector still has the items it had, complete or not.
KeepsItems(s) ==
    \A i \in LiveAt(flash[s].log) :
        /\ i \in LiveAt(flash'[s].log) /\ flash'[s].log[i].at = flash[s].log[i].at
        /\ flash'[s].log[i].key = flash[s].log[i].key
        /\ flash'[s].log[i].val = flash[s].log[i].val

LEMMA FoundStaysPut ==
    ASSUME FoundStays, Calling, SameCall, pc' \notin {"data", "eraseold"},
           InGc' /\ ~ gc'.rec => op'.retry, op.retry => op'.retry,
           \A s \in Range(active) : s \in Range(active') /\ KeepsItems(s),
           op.retry => \A s \in Range(idle) : flash[s].log = <<>> =>
                                                  s \in Range(idle') /\ flash'[s].log = <<>>
    PROVE  FoundStays'
<1> SUFFICES ASSUME op.found
             PROVE  \/ /\ op.sec \in Range(active')
                       /\ \E i \in LiveAt(flash'[op.sec].log) :
                             /\ flash'[op.sec].log[i].at = op.at
                             /\ flash'[op.sec].log[i].key = op.k
                             /\ flash'[op.sec].log[i].val = op.old
                    \/ op.sec \in Range(idle') /\ flash'[op.sec].log = <<>> /\ op'.retry
  BY DEF FoundStays, SameCall, It
<1>1. CASE op.sec \in Range(idle) /\ flash[op.sec].log = <<>> /\ op.retry
  BY <1>1
<1>2. CASE /\ op.sec \in Range(active)
           /\ \E i \in LiveAt(flash[op.sec].log) :
                 /\ It(op.sec, i).at = op.at
                 /\ It(op.sec, i).key = op.k /\ It(op.sec, i).val = op.old
  <2>1. PICK i \in LiveAt(flash[op.sec].log) : /\ It(op.sec, i).at = op.at
                                               /\ It(op.sec, i).key = op.k
                                               /\ It(op.sec, i).val = op.old
    BY <1>2
  <2>2. op.sec \in Range(active') /\ KeepsItems(op.sec)
    BY <1>2
  <2> QED BY <2>1, <2>2 DEF KeepsItems, It
<1> QED BY <1>1, <1>2 DEF FoundStays

LEMMA SameKeepsItems ==
    ASSUME NEW s, flash'[s].log = flash[s].log
    PROVE  KeepsItems(s)
BY DEF KeepsItems

\* Between quiet states of one call.
LEMMA QuietCall ==
    ASSUME StoreType, StoreType', ContentInv, Quiet, Calling, SameCall,
           Lessens, lost \subseteq lost',
           pc' \in {"write", "gcinit", "gcmark", "gccopy", "gcerase"}, FoundStays',
           pc' = "gccopy" => gc'.i = 1 /\ gc'.src \in Sector
    PROVE  ContentInv'
<1>1. Twins' /\ Unfinished' /\ Hashed'
  BY QuietStays
<1>2. OthersOld'
  <2>1. \A s \in Sector : Inherits(s)
    BY DEF Lessens
  <2> QED BY <2>1, OthersStay DEF ContentInv, Quiet
<1>3. CopiedSafely'
  <2> SUFFICES ASSUME pc' = "gccopy", NEW i \in LiveAt(flash'[gc'.src].log), i < gc'.i
               PROVE  FALSE
    BY DEF CopiedSafely
  <2>1. gc'.i = 1 /\ flash'[gc'.src].log \in Seq(Item)
    BY DEF StoreType, FlashSector
  <2> QED BY <2>1, LiveInLog DEF LiveAt
<1> QED BY <1>1, <1>2, <1>3 DEF ContentInv, Programming, Started

-----------------------------------------------------------------------------
(* A call begins *)

LEMMA FindItemFinds ==
    ASSUME StoreType, NEW k, NEW ts, NEW f, f = FindItem(k, ts)
    PROVE  /\ f.found => /\ f.sec \in Range(active) /\ f.sec \in Sector
                         /\ f.i \in Matches(flash[f.sec], ram[f.sec], k, ts)
                         /\ FoundItem(f) = It(f.sec, f.i)
           /\ ~ f.found => \A s \in Range(active) : Matches(flash[s], ram[s], k, ts) = {}
<1> DEFINE Has == {n \in DOMAIN active : Matches(flash[active[n]], ram[active[n]], k, ts) # {}}
<1>1. CASE Has = {}
  <2>1. ~ f.found
    BY <1>1 DEF FindItem
  <2> QED BY <1>1, <2>1 DEF Range
<1>2. CASE Has # {}
  <2>1. PICK s, n, M : /\ n = LeastOf(Has) /\ s = active[n]
                       /\ M = Matches(flash[s], ram[s], k, ts)
    OBVIOUS
  <2>2. Has \subseteq Nat /\ \A m \in DOMAIN active : active[m] \in Sector
    BY DEF StoreType
  <2>3. n \in Has
    BY <1>2, <2>1, <2>2, LeastOfIsLeast
  <2>4. s \in Range(active) /\ s \in Sector /\ M # {}
    BY <2>1, <2>2, <2>3 DEF Range
  <2>5. M \subseteq Nat
    BY <2>1, <2>4, MatchesType
  <2>6. LeastOf(M) \in M
    BY <2>4, <2>5, LeastOfIsLeast
  <2>7. f = [found |-> TRUE, sec |-> s, i |-> LeastOf(M)]
    BY <1>2, <2>1 DEF FindItem
  <2>8. f.found /\ f.sec = s /\ f.i = LeastOf(M)
    BY <2>7
  <2>9. FoundItem(f) = It(f.sec, f.i)
    BY DEF FoundItem, It
  <2>10. f.i \in Matches(flash[f.sec], ram[f.sec], k, ts)
    BY <2>1, <2>6, <2>8
  <2> QED BY <2>4, <2>8, <2>9, <2>10
<1> QED BY <1>1, <1>2

\* Between calls the lookup sees every live item of the partition.
LEMMA LiveIsSeen ==
    ASSUME IInv, OrderInv, Hashed, pc = "ready", NEW s \in Sector, Used(s),
           NEW i \in LiveAt(flash[s].log)
    PROVE  /\ s \in Range(active)
           /\ i \in Matches(flash[s], ram[s], It(s, i).key, Types)
           /\ TypeOf[It(s, i).val] \in Types
           /\ i \in Matches(flash[s], ram[s], It(s, i).key, {TypeOf[It(s, i).val]})
<1>1. StoreType /\ ListsOK /\ Agree /\ Reserve
  BY DEF IInv, TypeOK, OrderInv
<1>2. s \in Range(active)
  <2> SUFFICES ASSUME s \in Range(idle) PROVE FALSE
    BY <1>1, InOneList
  <2>1. flash[s].log = <<>>
    BY <1>1 DEF Reserve
  <2> QED BY <2>1 DEF LiveAt
<1>3. IsUsed(ram[s].st)
  BY <1>1 DEF Agree, Used
<1>4. It(s, i).at \in ram[s].hash
  BY <1>3 DEF Hashed, Halfway
<1>5. It(s, i).val \in Values
  BY <1>1, LiveItem
<1>6. TypeOf[It(s, i).val] \in Types
  BY <1>5 DEF Types
<1> QED BY <1>2, <1>3, <1>4, <1>6 DEF Matches, It

\* Between calls every live item of an active sector is one that a lookup can find.
LEMMA ActiveIsSeen ==
    ASSUME IInv, OrderInv, ContentInv, pc = "ready", NEW n \in DOMAIN active,
           NEW i \in LiveAt(flash[active[n]].log)
    PROVE  /\ active[n] \in Sector /\ Used(active[n])
           /\ i \in Matches(flash[active[n]], ram[active[n]], It(active[n], i).key, Types)
<1>1. PICK s \in Sector : s = active[n]
  BY DEF IInv, TypeOK, StoreType
<1>2. Used(s)
  <2>1. s \in Range(active)
    BY <1>1 DEF Range
  <2>2. Used(s) \/ flash[s].hdr = "erased"
    BY <1>1, <2>1 DEF OrderInv, Agree
  <2>3. flash[s].log # <<>>
    BY <1>1 DEF LiveAt
  <2> QED BY <2>2, <2>3 DEF OrderInv, FlashOrder
<1> QED BY <1>1, <1>2, LiveIsSeen DEF ContentInv

LEMMA SetBeginContent ==
    ASSUME IInv, OrderInv, LayoutInv, ContentInv, StoreType',
           NEW k \in Keys, NEW v \in Values, SetBegin(k, v)
    PROVE  ContentInv'
<1>1. PICK f : f = FindItem(k, Types)
  OBVIOUS
<1>2. /\ StoreType /\ Agree /\ Hashed
      /\ pc = "ready" /\ pc' = "write" /\ UNCHANGED <<flash, ram, active, idle, gc, lost>>
      /\ ~ (f.found /\ FoundItem(f).val = v /\ FoundItem(f).st = "using")
      /\ op' = [k |-> k, v |-> v, found |-> f.found, sec |-> f.sec,
                at  |-> IF f.found THEN FoundItem(f).at ELSE 0,
                old |-> IF f.found THEN FoundItem(f).val ELSE NoValue, retry |-> FALSE]
  BY <1>1 DEF SetBegin, IInv, TypeOK, OrderInv, ContentInv, loaded
<1>3. Twins' /\ Unfinished' /\ Hashed' /\ Alone /\ Complete
  BY <1>2, SameLessens, QuietStays, QuietIsAlone, QuietIsComplete DEF Quiet, ContentInv
<1>4. /\ f.found => /\ f.sec \in Range(active) /\ f.sec \in Sector
                    /\ f.i \in Matches(flash[f.sec], ram[f.sec], k, Types)
                    /\ FoundItem(f) = It(f.sec, f.i)
      /\ ~ f.found => \A s \in Range(active) : Matches(flash[s], ram[s], k, Types) = {}
  BY <1>1, <1>2, FindItemFinds
<1>5. f.found => /\ f.i \in LiveAt(flash[f.sec].log) /\ It(f.sec, f.i).key = k
                 /\ IsUsed(ram[f.sec].st) /\ Used(f.sec)
  <2> SUFFICES ASSUME f.found
               PROVE  /\ f.i \in LiveAt(flash[f.sec].log) /\ It(f.sec, f.i).key = k
                      /\ IsUsed(ram[f.sec].st) /\ Used(f.sec)
    OBVIOUS
  <2>1. IsUsed(ram[f.sec].st)
    BY <1>4 DEF Matches
  <2> QED BY <1>2, <1>4, <2>1 DEF Matches, It, Agree, Used
<1>6. FoundStays'
  <2>1. op'.found => /\ op'.sec \in Range(active) /\ f.i \in LiveAt(flash[op'.sec].log)
                     /\ flash[op'.sec].log[f.i].at = op'.at
                     /\ flash[op'.sec].log[f.i].key = op'.k
                     /\ flash[op'.sec].log[f.i].val = op'.old
    BY <1>2, <1>4, <1>5 DEF It
  <2> QED BY <1>2, <2>1 DEF FoundStays, InGc, It
<1>7. OthersOld'
  <2> SUFFICES ASSUME k \notin lost
               PROVE  /\ f.found => op'.old # v
                      /\ \A s \in Sector : \A i \in LiveAt(flash[s].log) :
                            Used(s) /\ It(s, i).key = k => f.found /\ It(s, i).val = op'.old
    BY <1>2 DEF OthersOld, It, Used
  <2>1. f.found => op'.old # v
    <3> SUFFICES ASSUME f.found, FoundItem(f).val = v PROVE FALSE
      BY <1>2
    <3>1. It(f.sec, f.i).st # "using"
      BY <1>2, <1>4
    <3>2. PICK s, i : s = f.sec /\ i = f.i
      OBVIOUS
    <3>3. s \in Sector /\ i \in LiveAt(flash[s].log) /\ Used(s) /\ It(s, i).key = k
      BY <1>4, <1>5, <3>2
    <3>4. It(s, i).st = "nodata"
      BY <1>2, <3>1, <3>2, <3>3, LiveItem
    <3> QED BY <1>3, <3>3, <3>4 DEF Complete
  <2>2. ASSUME NEW s \in Sector, NEW i \in LiveAt(flash[s].log), Used(s), It(s, i).key = k
        PROVE  f.found /\ It(s, i).val = op'.old
    <3>1. s \in Range(active) /\ i \in Matches(flash[s], ram[s], k, Types)
      BY <1>2, <2>2, LiveIsSeen
    <3>2. f.found
      BY <1>4, <3>1
    <3>3. s = f.sec /\ i = f.i
      BY <1>2, <1>3, <1>4, <1>5, <2>2, <3>2, AloneIs
    <3> QED BY <1>2, <1>4, <3>2, <3>3
  <2> QED BY <2>1, <2>2
<1> QED BY <1>2, <1>3, <1>6, <1>7 DEF ContentInv, Programming, CopiedSafely, Started

-----------------------------------------------------------------------------
(* Calls between quiet states *)

\* The same for a collection that a start resumes: no call is being served.
LEMMA QuietRecovery ==
    ASSUME StoreType, StoreType', ContentInv, Quiet, Lessens, lost \subseteq lost',
           pc' \in {"gcinit", "gccopy"}, gc'.rec,
           pc' = "gccopy" => gc'.i = 1 /\ gc'.src \in Sector
    PROVE  ContentInv'
<1>1. Twins' /\ Unfinished' /\ Hashed'
  BY QuietStays
<1>2. CopiedSafely'
  <2> SUFFICES ASSUME pc' = "gccopy", NEW i \in LiveAt(flash'[gc'.src].log), i < gc'.i
               PROVE  FALSE
    BY DEF CopiedSafely
  <2>1. gc'.i = 1 /\ flash'[gc'.src].log \in Seq(Item)
    BY DEF StoreType, FlashSector
  <2> QED BY <2>1, LiveInLog DEF LiveAt
<1> QED BY <1>1, <1>2
        DEF ContentInv, Programming, FoundStays, OthersOld, Started, Calling, InGc

LEMMA ReturnContent ==
    ASSUME IInv, ContentInv, StoreType', WriteTooLong \/ WriteFull \/ RequestNoSpace
    PROVE  ContentInv'
<1>1. /\ StoreType /\ pc = "write" /\ pc' = "ready" /\ op' = NoOp
      /\ UNCHANGED <<flash, ram, lost>>
  BY DEF IInv, TypeOK, WriteTooLong, WriteFull, RequestNoSpace, NeedSector, Return, loaded
<1> QED BY <1>1, SameLessens, QuietContent DEF Quiet, Resting

LEMMA SetSameContent ==
    ASSUME IInv, ContentInv, StoreType', NEW k \in Keys, NEW v \in Values, SetSame(k, v)
    PROVE  ContentInv'
<1>1. /\ StoreType /\ pc = "ready" /\ pc' = "ready" /\ op = NoOp /\ op' = op
      /\ UNCHANGED <<flash, ram, lost>>
  BY DEF IInv, TypeOK, SetSame, loaded, ContentInv, Started
<1> QED BY <1>1, SameLessens, QuietContent DEF Quiet, Resting

LEMMA UnloadContent ==
    ASSUME IInv, ContentInv, StoreType', Unload
    PROVE  ContentInv'
<1>1. /\ StoreType /\ pc = "ready" /\ pc' = "off" /\ UNCHANGED <<flash, lost>>
      /\ ram' = [s \in Sector |-> Unloaded]
  BY DEF IInv, TypeOK, Unload
<1> QED BY <1>1, SameLessens, QuietContent DEF Quiet

LEMMA LoadFinishContent ==
    ASSUME IInv, ContentInv, StoreType', LoadFinish
    PROVE  ContentInv'
<1>1. /\ StoreType /\ pc = "finish" /\ pc' = "ready" /\ op' = NoOp
      /\ UNCHANGED <<flash, ram, lost>>
  BY DEF IInv, TypeOK, LoadFinish
<1> QED BY <1>1, SameLessens, QuietContent DEF Quiet, Resting

LEMMA DeleteContent ==
    ASSUME IInv, ContentInv, StoreType', NEW k \in Keys, Delete(k)
    PROVE  ContentInv'
<1>1. PICK f : f = FindItem(k, Types)
  OBVIOUS
<1>2. /\ StoreType /\ pc = "ready" /\ pc' = "ready" /\ op = NoOp /\ op' = op
      /\ lost' = lost /\ f.found
      /\ DropItem(f.sec, FoundItem(f).at, FoundItem(f).span)
  BY <1>1 DEF IInv, TypeOK, Delete, ContentInv, Started
<1>3. f.sec \in Sector
  BY <1>1, <1>2, FindItemType
<1>4. Lessens
  BY <1>2, <1>3, DropLessens
<1> QED BY <1>2, <1>4, QuietContent DEF Quiet, Resting

LEMMA WriteInitContent ==
    ASSUME IInv, OrderInv, ContentInv, StoreType', WriteInit
    PROVE  ContentInv'
<1>1. /\ StoreType /\ ListsOK /\ FlashOrder /\ Agree /\ FoundStays
      /\ pc = "write" /\ pc' = "write" /\ Fresh(Cur) /\ InitSector(Cur)
      /\ UNCHANGED <<active, idle, op, gc, lost>>
  BY DEF IInv, TypeOK, OrderInv, WriteInit, Fresh, ContentInv
<1>2. Cur \in Sector /\ Range(active) \subseteq Sector /\ Range(idle) \subseteq Sector
  BY <1>1, CurActive, InRange DEF StoreType
<1>3. Lessens /\ \A t \in Sector : flash'[t].log = flash[t].log
  BY <1>1, <1>2, InitLessens
<1>4. Calling /\ SameCall
  BY <1>1 DEF Calling, SameCall
<1>5. FoundStays'
  <2>1. \A t \in Range(active) : t \in Range(active') /\ KeepsItems(t)
    BY <1>1, <1>2, <1>3, SameKeepsItems
  <2>2. \A t \in Range(idle) : flash[t].log = <<>> => t \in Range(idle') /\ flash'[t].log = <<>>
    BY <1>1, <1>2, <1>3
  <2> QED BY <1>1, <1>4, <2>1, <2>2, FoundStaysPut DEF InGc
<1> QED BY <1>1, <1>3, <1>4, <1>5, QuietCall DEF Quiet

-----------------------------------------------------------------------------
(* Making room *)

\* Taking an idle sector into use, in a call.
LEMMA ActivateContent ==
    ASSUME IInv, OrderInv, ContentInv, StoreType', RequestIdle \/ GcStart
    PROVE  ContentInv'
<1>1. /\ StoreType /\ ControlType /\ ListsOK /\ Agree /\ FoundStays
      /\ pc = "write" /\ idle # <<>> /\ ~ op.retry /\ Activate
      /\ pc' \in {"write", "gcinit", "gcmark"} /\ lost' = lost
      /\ op' = [op EXCEPT !.retry = TRUE]
  BY DEF IInv, TypeOK, OrderInv, RequestIdle, GcStart, NeedSector, ContentInv
<1>2. PICK s : s = Head(idle)
  OBVIOUS
<1>3. Lessens /\ s \in Sector /\ \A t \in Sector \ {s} : flash'[t] = flash[t]
  BY <1>1, <1>2, ActivateLessens
<1>4. Calling /\ SameCall /\ op'.retry
  BY <1>1 DEF Calling, SameCall, ControlType
<1>5. /\ s \notin Range(active) /\ Range(active) \subseteq Sector
      /\ Range(active') = Range(active) \union {s}
  BY <1>1, <1>2, ActivateKeeps, InRange DEF StoreType
<1>6. \A t \in Range(active) : t \in Range(active') /\ KeepsItems(t)
  BY <1>3, <1>5, SameKeepsItems
<1>7. FoundStays'
  BY <1>1, <1>4, <1>6, FoundStaysPut
<1> QED BY <1>1, <1>3, <1>4, <1>7, QuietCall DEF Quiet

LEMMA CheckGcStartContent ==
    ASSUME IInv, OrderInv, ContentInv, StoreType', CheckGcStart
    PROVE  ContentInv'
<1>1. /\ StoreType /\ ListsOK /\ Agree /\ idle # <<>> /\ Activate
      /\ pc = "recgc" /\ pc' \in {"gcinit", "gccopy"} /\ lost' = lost
      /\ Recovering
  BY DEF IInv, TypeOK, OrderInv, CheckGcStart
<1>2. PICK s : s = Head(idle)
  OBVIOUS
<1>3. Lessens
  BY <1>1, <1>2, ActivateLessens
<1>4. gc' = [src |-> active[LeastOf(Deleting)], dst |-> s, i |-> 1, d |-> 0, rec |-> TRUE]
  BY <1>2 DEF CheckGcStart
<1>5. active[LeastOf(Deleting)] \in Range(active) /\ Range(active) \subseteq Sector
  BY <1>1, DeletingFound, InRange DEF Recovering, StoreType
<1> QED BY <1>1, <1>3, <1>4, <1>5, QuietRecovery DEF Quiet

\* The steps of collection that copy nothing leave the call as it is.
LEMMA LogsStayPut ==
    ASSUME FoundStays, Calling, UNCHANGED <<active, idle, op, gc>>,
           \A t \in Range(active) \union Range(idle) : flash'[t].log = flash[t].log,
           pc' \in {"gcmark", "gccopy", "gcerase"}, InGc
    PROVE  FoundStays' /\ SameCall
<1>1. SameCall /\ pc' \notin {"data", "eraseold"}
  BY DEF SameCall
<1>2. InGc' /\ ~ gc'.rec => op'.retry
  BY DEF FoundStays
<1>3. \A t \in Range(active) : t \in Range(active') /\ KeepsItems(t)
  BY SameKeepsItems
<1>4. \A t \in Range(idle) : flash[t].log = <<>> => t \in Range(idle') /\ flash'[t].log = <<>>
  OBVIOUS
<1> QED BY <1>1, <1>2, <1>3, <1>4, FoundStaysPut

LEMMA GcInitContent ==
    ASSUME IInv, OrderInv, ContentInv, StoreType', GcInit
    PROVE  ContentInv'
<1>1. /\ StoreType /\ ListsOK /\ FlashOrder /\ Agree /\ FoundStays /\ ControlType
      /\ pc = "gcinit" /\ InGc /\ pc' = (IF gc.rec THEN "gccopy" ELSE "gcmark")
      /\ Fresh(gc.dst) /\ gc.i = 1 /\ InitSector(gc.dst)
      /\ UNCHANGED <<active, idle, op, gc, lost>>
  BY DEF IInv, TypeOK, OrderInv, Collecting, GcInit, InGc, ContentInv
<1>2. gc.dst \in Sector /\ gc.src \in Sector /\ gc.rec \in BOOLEAN
  BY <1>1 DEF ControlType
<1>3. Lessens /\ \A t \in Sector : flash'[t].log = flash[t].log
  BY <1>1, <1>2, InitLessens
<1>4. CASE gc.rec
  BY <1>1, <1>2, <1>3, <1>4, QuietRecovery DEF Quiet
<1>5. CASE ~ gc.rec
  <2>1. Calling /\ pc' = "gcmark"
    BY <1>1, <1>5 DEF Calling
  <2>2. FoundStays' /\ SameCall
    BY <1>1, <1>3, <2>1, LogsStayPut DEF ListsOK
  <2> QED BY <1>1, <1>3, <2>1, <2>2, QuietCall DEF Quiet
<1> QED BY <1>4, <1>5

LEMMA GcMarkContent ==
    ASSUME IInv, OrderInv, ContentInv, StoreType', GcMark
    PROVE  ContentInv'
<1>1. /\ StoreType /\ ListsOK /\ Agree /\ FoundStays /\ ControlType /\ GcSet
      /\ pc = "gcmark" /\ InGc /\ pc' = "gccopy"
      /\ gc.i = 1 /\ gc.dst = Cur /\ SetState(gc.src, "deleting")
      /\ UNCHANGED <<active, idle, op, gc, lost>>
  BY DEF IInv, TypeOK, OrderInv, Collecting, GcMark, InGc, ContentInv
<1>2. gc.src \in Sector /\ gc.src \in Range(active) /\ gc.src # Cur
  BY <1>1 DEF ControlType, GcSet
<1>3. Used(gc.src) /\ IsUsed(ram[gc.src].st)
  BY <1>1, <1>2 DEF Agree, Used
<1>4. Lessens /\ \A t \in Sector : flash'[t].log = flash[t].log
  BY <1>1, <1>2, <1>3, StateLessens
<1>5. CASE gc.rec
  BY <1>1, <1>2, <1>4, <1>5, QuietRecovery DEF Quiet
<1>6. CASE ~ gc.rec
  <2>1. Calling
    BY <1>1, <1>6 DEF Calling
  <2>2. FoundStays' /\ SameCall
    BY <1>1, <1>4, <2>1, LogsStayPut DEF ListsOK
  <2> QED BY <1>1, <1>2, <1>4, <2>1, <2>2, QuietCall DEF Quiet
<1> QED BY <1>5, <1>6

\* The source has been copied and is given up: with it go the originals.
LEMMA GcCrashContent ==
    ASSUME IInv, OrderInv, ContentInv, StoreType', GcCrash
    PROVE  ContentInv'
<1>1. /\ StoreType /\ ListsOK /\ Agree /\ FoundStays /\ ControlType /\ Headers /\ Collecting
      /\ Twins /\ Unfinished /\ Hashed /\ OthersOld
      /\ pc = "gccopy" /\ InGc /\ pc' = "gcerase" /\ SetState(gc.src, "crash")
      /\ UNCHANGED <<active, idle, op, gc, lost>>
  BY DEF IInv, TypeOK, OrderInv, GcCrash, InGc, ContentInv
<1>2. gc.src \in Sector /\ IsDeleting(gc.src)
  BY <1>1 DEF ControlType, Collecting
<1>3. Used(gc.src) /\ IsUsed(ram[gc.src].st)
  BY <1>1, <1>2 DEF Agree, Used, IsDeleting, IsUsed
<1>4. /\ Lessens /\ \A t \in Sector : flash'[t].log = flash[t].log
      /\ flash'[gc.src].hdr = "crash"
  BY <1>1, <1>2, <1>3, StateLessens
<1>5. Alone'
  <2> SUFFICES ASSUME NEW k \in Keys, k \notin lost, NEW s \in Sector, NEW t \in Sector,
                      NEW i \in LiveAt(flash'[s].log), NEW j \in LiveAt(flash'[t].log),
                      Used(s)', Used(t)', flash'[s].log[i].key = k, flash'[t].log[j].key = k,
                      ~ (s = t /\ i = j)
               PROVE  FALSE
    BY <1>1 DEF Alone, LiveOnce, Used
  <2>1. /\ Used(s) /\ i \in LiveAt(flash[s].log) /\ It(s, i).key = k
        /\ Used(t) /\ j \in LiveAt(flash[t].log) /\ It(t, j).key = k
        /\ s # gc.src /\ t # gc.src /\ <<s, i>> # <<t, j>>
    BY <1>4 DEF Lessens, Inherits, It, Used, IsUsed
  <2>2. Twin(s, i, t, j) \/ Twin(t, j, s, i)
    BY <1>1, <2>1 DEF Twins
  <2>3. IsDeleting(s) \/ IsDeleting(t)
    BY <1>1, <2>2 DEF Twin, Copying, Overwriting
  <2> QED BY <1>1, <2>1, <2>3 DEF Headers
<1>6. Twins'
  BY <1>5, AloneHasNoTwins
<1>7. Unfinished' /\ Hashed'
  BY <1>1, <1>4, QuietIsComplete, CompleteStays, HashedStays DEF Lessens
<1>8. FoundStays' /\ OthersOld'
  <2>1. CASE gc.rec
    BY <1>1, <2>1 DEF FoundStays, OthersOld, Calling, InGc
  <2>2. CASE ~ gc.rec
    <3>1. Calling
      BY <1>1, <2>2 DEF Calling
    <3>2. FoundStays' /\ SameCall
      BY <1>1, <1>4, <3>1, LogsStayPut DEF ListsOK
    <3> QED BY <1>1, <1>4, <3>1, <3>2, OthersStay DEF Lessens
  <2> QED BY <2>1, <2>2
<1> QED BY <1>1, <1>6, <1>7, <1>8 DEF ContentInv, Programming, CopiedSafely, Started

\* What a call had found in it may go with the sector.
LEMMA GcEraseContent ==
    ASSUME IInv, OrderInv, ContentInv, StoreType', GcErase
    PROVE  ContentInv'
<1>1. /\ StoreType /\ ListsOK /\ FoundStays /\ ControlType /\ GcSet
      /\ pc = "gcerase" /\ InGc /\ EraseToIdle(gc.src)
      /\ pc' = (IF gc.rec THEN "finish" ELSE "write")
      /\ UNCHANGED <<op, lost>>
  BY DEF IInv, TypeOK, GcErase, InGc, ContentInv
<1>2. gc.src \in Sector /\ gc.rec \in BOOLEAN
  BY <1>1 DEF ControlType
<1>3. /\ Lessens /\ flash'[gc.src].log = <<>>
      /\ \A t \in Sector \ {gc.src} : flash'[t] = flash[t]
  BY <1>1, <1>2, EraseLessens
<1>4. CASE gc.rec
  BY <1>1, <1>3, <1>4, QuietContent DEF Quiet, Resting
<1>5. CASE ~ gc.rec
  <2>1. Calling /\ SameCall /\ op.retry /\ pc' = "write"
    BY <1>1, <1>5 DEF Calling, SameCall, FoundStays
  <2>2. /\ gc.src \in Range(active) /\ gc.dst \in Range(active) /\ gc.dst # gc.src
        /\ active \in Seq(Sector) /\ idle \in Seq(Sector) /\ Range(active) \subseteq Sector
        /\ gc.src \notin Range(idle) /\ Range(idle) \subseteq Sector
    BY <1>1, InRange DEF GcSet, StoreType, ListsOK
  <2>3. /\ Range(active') = Range(active) \ {gc.src}
        /\ Range(idle') = Range(idle) \union {gc.src}
    <3>1. Range(active') = Range(active) \ {gc.src}
      BY <1>1, <2>2, EraseKeeps
    <3>2. idle' = Append(idle, gc.src) /\ IsInjective(idle)
      BY <1>1 DEF EraseToIdle, ListsOK
    <3> QED BY <1>2, <2>2, <3>1, <3>2, AppendRange
  <2>4. FoundStays'
    <3> SUFFICES ASSUME op.found
                 PROVE  \/ /\ op.sec \in Range(active')
                           /\ \E i \in LiveAt(flash'[op.sec].log) :
                                 /\ flash'[op.sec].log[i].at = op.at
                                 /\ flash'[op.sec].log[i].key = op.k
                                 /\ flash'[op.sec].log[i].val = op.old
                        \/ op.sec \in Range(idle') /\ flash'[op.sec].log = <<>> /\ op.retry
      BY <1>1, <2>1 DEF FoundStays, It, InGc
    <3>1. CASE op.sec = gc.src
      BY <1>3, <2>1, <2>3, <3>1
    <3>2. CASE op.sec # gc.src
      <4>1. \/ op.sec \in Range(idle) /\ flash[op.sec].log = <<>>
            \/ /\ op.sec \in Range(active)
               /\ \E i \in LiveAt(flash[op.sec].log) :
                     It(op.sec, i).at = op.at /\ It(op.sec, i).key = op.k /\ It(op.sec, i).val = op.old
        BY <1>1, <2>1 DEF FoundStays
      <4>2. flash'[op.sec] = flash[op.sec]
        BY <1>3, <2>2, <3>2, <4>1
      <4> QED BY <2>1, <2>3, <3>2, <4>1, <4>2 DEF It
    <3> QED BY <3>1, <3>2
  <2> QED BY <1>1, <1>3, <2>1, <2>4, QuietCall DEF Quiet
<1> QED BY <1>4, <1>5

LEMMA CheckGcEraseContent ==
    ASSUME IInv, ContentInv, StoreType', CheckGcErase
    PROVE  ContentInv'
<1>1. /\ StoreType /\ ListsOK /\ pc = "recerase" /\ pc' = "recgc" /\ EraseToIdle(Cur)
      /\ lost' = lost
  BY DEF IInv, TypeOK, CheckGcErase
<1>2. Lessens
  BY <1>1, CurActive, EraseLessens
<1> QED BY <1>1, <1>2, QuietContent DEF Quiet, Resting

-----------------------------------------------------------------------------
(* The newest sector *)

\* With no idle sector in use it is the current one.
LEMMA CurIsTheNewest ==
    ASSUME StoreType, ListsOK, ListOrder, Used(Cur), \A s \in Range(idle) : ~ Used(s)
    PROVE  /\ Cur \in Sector /\ Newest(Cur)
           /\ \A t \in Sector : Used(t) => t \in Range(active)
           /\ \A t \in Sector : Used(t) /\ Newest(t) => t = Cur
<1>1. Cur \in Sector /\ Range(active) \subseteq Sector
  BY CurActive
<1>2. \A t \in Sector : Used(t) => t \in Range(active)
  BY InOneList
<1>3. \A t \in Sector \ {Cur} : Used(t) => Newer(Cur, t)
  BY <1>2, CurIsNewest
<1>4. ASSUME NEW t \in Sector, Used(t), Newest(t), t # Cur PROVE FALSE
  <2>1. Newer(t, Cur) /\ Newer(Cur, t)
    BY <1>1, <1>3, <1>4 DEF Newest
  <2>2. flash[t].sn \in Nat /\ flash[Cur].sn \in Nat
    BY <1>1, SectorTypes
  <2> QED BY <2>1, <2>2 DEF Newer
<1> QED BY <1>1, <1>2, <1>3, <1>4 DEF Newest

LEMMA NoIdleInUse ==
    ASSUME OrderInv, pc \notin {"off", "ready", "write", "data", "eraseold"}
    PROVE  \A s \in Range(idle) : ~ Used(s)
BY DEF OrderInv, Reserve

\* While a start looks at it, the current sector is the newest, unless none is in use.
LEMMA StartsWithNewest ==
    ASSUME IInv, OrderInv, Started, pc = "checkwrite" \/ (pc = "checkgc" /\ Deleting # {})
    PROVE  /\ Fresh(Cur) => \A s \in Sector : ~ Used(s)
           /\ ~ Fresh(Cur) => /\ Used(Cur) /\ Cur \in Sector /\ Newest(Cur)
                              /\ \A t \in Sector : Used(t) => /\ t \in Range(active)
                                                              /\ IsUsed(ram[t].st)
                              /\ \A t \in Sector : Used(t) /\ Newest(t) => t = Cur
<1>1. StoreType /\ ListsOK /\ Agree /\ ListOrder /\ Placing /\ Headers
  BY DEF IInv, TypeOK, OrderInv
<1>2. pc = "checkgc" => ~ Fresh(Cur)
  <2> SUFFICES ASSUME pc = "checkgc" PROVE ~ Fresh(Cur)
    OBVIOUS
  <2>1. PICK s \in Range(active) : ram[s].st = "deleting"
    BY <1>1, DeletingFound
  <2>2. s \in Sector /\ IsDeleting(s)
    BY <1>1, <2>1, InRange DEF Headers, StoreType
  <2> QED BY <1>1, <2>2 DEF Placing
<1>3. ASSUME ~ Fresh(Cur) PROVE Used(Cur)
  BY <1>1, <1>3, CurActive DEF Agree
<1>4. \A t \in Sector : Used(t) => IsUsed(ram[t].st)
  BY <1>1 DEF Agree, Used
<1> QED BY <1>1, <1>2, <1>3, <1>4, CurIsTheNewest, NoIdleInUse DEF Started

-----------------------------------------------------------------------------
(* What a start does about an unfinished collection *)

\* Of two items of a key one is in the sector being deleted, the other in the newest.
LEMMA CopyInNewest ==
    ASSUME IInv, OrderInv, ContentInv, pc = "checkgc",
           NEW s \in Sector, NEW t \in Sector,
           NEW i \in LiveAt(flash[s].log), NEW j \in LiveAt(flash[t].log),
           Used(s), Used(t), <<s, i>> # <<t, j>>,
           It(s, i).key = It(t, j).key, It(s, i).key \notin lost
    PROVE  /\ Deleting # {} /\ (s = Cur \/ t = Cur)
           /\ flash[Cur].hdr = "using" /\ ram[Cur].st = "using"
<1>1. /\ StoreType /\ ListsOK /\ Agree /\ Headers /\ Twins /\ Started
  BY DEF IInv, TypeOK, OrderInv, ContentInv
<1>2. Copying(s, i, t, j) \/ Copying(t, j, s, i)
  BY <1>1 DEF Twins, Twin, Overwriting
<1>3. PICK d, n \in Sector : /\ {d, n} = {s, t} /\ d # n /\ IsDeleting(d) /\ Newest(n)
  BY <1>2 DEF Copying
<1>4. d \in Range(active) /\ ram[d].st = "deleting" /\ Used(n)
  BY <1>1, <1>3 DEF Headers
<1>5. Deleting # {}
  BY <1>1, <1>4, DeletingFound
<1>6. n = Cur
  <2>1. ~ Fresh(Cur)
    BY <1>1, <1>4, <1>5, StartsWithNewest
  <2> QED BY <1>1, <1>3, <1>4, <1>5, <2>1, StartsWithNewest
<1>7. ~ IsDeleting(n)
  BY <1>1, <1>3 DEF Headers
<1>8. flash[n].hdr = "using" /\ ram[n].st = "using"
  BY <1>1, <1>4, <1>7 DEF Agree, Used, IsUsed, IsDeleting
<1> QED BY <1>3, <1>5, <1>6, <1>8

\* A start that finds nothing to undo, or has undone it, leaves one item of a key.
LEMMA RecoveryContent ==
    ASSUME IInv, OrderInv, ContentInv, StoreType', pc = "checkgc", Lessens,
           lost \subseteq lost', pc' \in {"recerase", "recgc", "finish"},
           NEW c, c = Cur, Deleting = {} \/ ram[c].st # "using" \/ ~ Used(c)'
    PROVE  ContentInv'
<1>1. Alone'
  <2> SUFFICES ASSUME NEW k \in Keys, k \notin lost', NEW s \in Sector, NEW t \in Sector,
                      NEW i \in LiveAt(flash'[s].log), NEW j \in LiveAt(flash'[t].log),
                      Used(s)', Used(t)', flash'[s].log[i].key = k, flash'[t].log[j].key = k,
                      ~ (s = t /\ i = j)
               PROVE  FALSE
    BY DEF Alone, LiveOnce, Used
  <2>1. /\ Used(s) /\ i \in LiveAt(flash[s].log) /\ It(s, i).key = k
        /\ Used(t) /\ j \in LiveAt(flash[t].log) /\ It(t, j).key = k
        /\ <<s, i>> # <<t, j>> /\ k \notin lost
    BY DEF Lessens, Inherits, It
  <2>2. Deleting # {} /\ (s = Cur \/ t = Cur) /\ ram[Cur].st = "using"
    BY <2>1, CopyInNewest
  <2>3. Used(c)'
    BY <2>2
  <2> QED BY <2>2, <2>3
<1>2. Twins'
  BY <1>1, AloneHasNoTwins
<1>3. Unfinished' /\ Hashed'
  BY QuietIsComplete, CompleteStays, HashedStays DEF Lessens, ContentInv
<1> QED BY <1>2, <1>3, RestContent DEF Resting

LEMMA CheckGcContent ==
    ASSUME IInv, OrderInv, ContentInv, StoreType', CheckGcNothing \/ CheckGcKeep
    PROVE  ContentInv'
<1>1. /\ pc = "checkgc" /\ pc' \in {"recgc", "finish"} /\ UNCHANGED <<flash, ram, lost>>
      /\ Deleting = {} \/ ram[Cur].st # "using"
  BY DEF CheckGcNothing, CheckGcKeep, loaded
<1>2. Lessens
  BY <1>1, SameLessens
<1> QED BY <1>1, <1>2, RecoveryContent

LEMMA CheckGcWipeContent ==
    ASSUME IInv, OrderInv, ContentInv, StoreType', CheckGcWipe
    PROVE  ContentInv'
<1>1. PICK c : c = Cur
  OBVIOUS
<1>2. /\ StoreType /\ ListsOK /\ Agree /\ pc = "checkgc" /\ pc' = "recerase"
      /\ ram[c].st = "using" /\ SetState(c, "crash") /\ lost \subseteq lost'
  BY <1>1 DEF IInv, TypeOK, OrderInv, CheckGcWipe
<1>3. c \in Sector
  BY <1>1, <1>2, CurActive
<1>4. Used(c) /\ IsUsed(ram[c].st)
  BY <1>2, <1>3 DEF Agree, Used, IsUsed
<1>5. Lessens /\ flash'[c].hdr = "crash"
  BY <1>2, <1>3, <1>4, StateLessens
<1>6. ~ Used(c)'
  BY <1>5 DEF Used, IsUsed
<1> QED BY <1>1, <1>2, <1>5, <1>6, RecoveryContent

-----------------------------------------------------------------------------
(* What a start does about an unfinished write *)

LEMMA LastIs ==
    ASSUME StoreType, NEW s \in Sector, NEW i \in LiveAt(flash[s].log),
           \A n \in LiveAt(flash[s].log) : n <= i
    PROVE  MostOf(LiveAt(flash[s].log)) = i
<1> DEFINE S == LiveAt(flash[s].log)
<1>1. S \subseteq 1 .. Len(flash[s].log) /\ Len(flash[s].log) \in Nat
  BY LiveType
<1>2. S \subseteq Int /\ \A x \in S : x <= Len(flash[s].log)
  BY <1>1
<1>3. MostOf(S) \in S /\ \A y \in S : y <= MostOf(S)
  BY <1>1, <1>2, MostOfIsMost
<1>4. MostOf(S) <= i /\ i <= MostOf(S) /\ MostOf(S) \in Int /\ i \in Int
  BY <1>2, <1>3
<1> QED BY <1>4

\* Another item of the key and type of the last one is found.
LEMMA OldCopyFound ==
    ASSUME StoreType, NEW s \in Range(active), NEW i \in LiveAt(flash[s].log),
           IsUsed(ram[s].st), It(s, i).at \in ram[s].hash,
           NEW m, m = LastItem, m \in Nat, It(s, i).key = It(Cur, m).key,
           TypeOf[It(s, i).val] = TypeOf[It(Cur, m).val], s = Cur => i < m
    PROVE  OldCopies # {}
<1> DEFINE it == flash[Cur].log[LastItem]
           M(u) == Matches(flash[u], ram[u], it.key, {TypeOf[it.val]})
           Has(u) == M(u) # {} /\ (u = Cur => LeastOf(M(u)) # LastItem)
           H == {n \in DOMAIN active : Has(active[n])}
<1>1. it = It(Cur, m)
  BY DEF It
<1>2. i \in M(s)
  BY <1>1 DEF Matches, It
<1>3. s \in Sector
  BY InRange DEF StoreType
<1>4. M(s) \subseteq Nat
  BY <1>3, MatchesType
<1>5. LeastOf(M(s)) \in Nat /\ LeastOf(M(s)) <= i /\ i \in Nat
  BY <1>2, <1>4, LeastOfIsLeast
<1>6. Has(s)
  BY <1>2, <1>5
<1>7. H # {} /\ H \subseteq Nat
  <2>1. PICK n \in DOMAIN active : active[n] = s
    BY DEF Range
  <2>2. n \in H
    BY <1>6, <2>1
  <2>3. DOMAIN active \subseteq Nat
    BY DEF StoreType
  <2> QED BY <2>2, <2>3
<1>8. PICK n : n = LeastOf(H)
  OBVIOUS
<1>9. n \in H /\ \A y \in H : n <= y
  BY <1>7, <1>8, LeastOfIsLeast
<1>10. n \in DOMAIN active /\ Has(active[n])
  BY <1>9
<1>11. \A j \in 1 .. n - 1 : ~ Has(active[j])
  <2> SUFFICES ASSUME NEW j \in 1 .. n - 1, Has(active[j]) PROVE FALSE
    OBVIOUS
  <2> HIDE DEF Has
  <2>1. DOMAIN active = 1 .. Len(active) /\ Len(active) \in Nat
    BY DEF StoreType
  <2>2. n \in Nat /\ n \in 1 .. Len(active)
    BY <1>10, <2>1
  <2>3. j \in DOMAIN active /\ j < n /\ j \in Nat
    BY <2>1, <2>2
  <2>4. j \in H
    BY <2>3
  <2> HIDE DEF H
  <2>5. n <= j
    BY <1>9, <2>4
  <2> QED BY <2>2, <2>3, <2>5
<1>12. n \in {x \in DOMAIN active : Has(active[x]) /\ \A j \in 1 .. x - 1 : ~ Has(active[j])}
  BY <1>10, <1>11
<1>13. [sec |-> active[n], i |-> LeastOf(M(active[n]))] \in OldCopies
  BY <1>12 DEF OldCopies
<1> QED BY <1>13

\* And what is found is one.
LEMMA OldCopyIs ==
    ASSUME StoreType, NEW o \in OldCopies, NEW m, m = LastItem
    PROVE  /\ o.sec \in Range(active) /\ o.sec \in Sector
           /\ o.i \in LiveAt(flash[o.sec].log) /\ IsUsed(ram[o.sec].st)
           /\ It(o.sec, o.i).key = It(Cur, m).key
           /\ o.sec = Cur => o.i # m
<1> DEFINE it == flash[Cur].log[LastItem]
           M(u) == Matches(flash[u], ram[u], it.key, {TypeOf[it.val]})
<1>1. PICK n \in DOMAIN active : /\ o = [sec |-> active[n], i |-> LeastOf(M(active[n]))]
                                 /\ M(active[n]) # {}
                                 /\ active[n] = Cur => LeastOf(M(active[n])) # LastItem
  BY DEF OldCopies
<1>2. PICK s : s = active[n]
  OBVIOUS
<1>3. s \in Range(active) /\ s \in Sector
  BY <1>2, InRange DEF StoreType
<1>4. M(s) \subseteq Nat
  BY <1>3, MatchesType
<1>5. LeastOf(M(s)) \in M(s)
  BY <1>1, <1>2, <1>4, LeastOfIsLeast
<1>6. /\ LeastOf(M(s)) \in LiveAt(flash[s].log) /\ IsUsed(ram[s].st)
      /\ flash[s].log[LeastOf(M(s))].key = it.key
  BY <1>5 DEF Matches
<1>7. o.sec = s /\ o.i = LeastOf(M(s))
  BY <1>1, <1>2
<1> QED BY <1>1, <1>2, <1>3, <1>6, <1>7 DEF It

\* The two items of a call that was cut short: the new one is the last of all.
LEMMA CutShort ==
    ASSUME IInv, OrderInv, ContentInv, pc = "checkwrite",
           NEW s \in Sector, NEW t \in Sector,
           NEW i \in LiveAt(flash[s].log), NEW j \in LiveAt(flash[t].log),
           Used(s), Used(t), Overwriting(s, i, t, j)
    PROVE  /\ ~ Fresh(Cur) /\ t = Cur /\ j = LastItem /\ LastItem \in LiveAt(flash[Cur].log)
           /\ \A d \in Sector : ~ IsDeleting(d)
           /\ It(t, j).st = "using" => TypeOf[It(s, i).val] = TypeOf[It(t, j).val]
<1>1. /\ StoreType /\ Started /\ LastWritten(t, j)
      /\ \A d \in Sector : ~ IsDeleting(d)
      /\ It(t, j).st = "using" => TypeOf[It(s, i).val] = TypeOf[It(t, j).val]
  BY DEF IInv, TypeOK, ContentInv, Overwriting
<1>2. ~ Fresh(Cur) /\ t = Cur
  BY <1>1, StartsWithNewest DEF LastWritten
<1>3. MostOf(LiveAt(flash[t].log)) = j
  BY <1>1, LastIs DEF LastWritten
<1> QED BY <1>1, <1>2, <1>3 DEF LastItem

\* An item that power cut short is the last of all.
LEMMA CutItem ==
    ASSUME IInv, OrderInv, ContentInv, pc = "checkwrite",
           NEW s \in Sector, NEW i \in LiveAt(flash[s].log), Used(s),
           It(s, i).st = "nodata", It(s, i).key \notin lost
    PROVE  ~ Fresh(Cur) /\ s = Cur /\ i = LastItem /\ LastItem \in LiveAt(flash[Cur].log)
<1>1. StoreType /\ Started /\ LastWritten(s, i)
  BY DEF IInv, TypeOK, ContentInv, Unfinished, Halfway
<1>2. ~ Fresh(Cur) /\ s = Cur
  BY <1>1, StartsWithNewest DEF LastWritten
<1>3. MostOf(LiveAt(flash[s].log)) = i
  BY <1>1, LastIs DEF LastWritten
<1> QED BY <1>1, <1>2, <1>3 DEF LastItem

\* Once the two items of the call are one again, and the last is complete or gone.
LEMMA WriteCheckContent ==
    ASSUME IInv, OrderInv, ContentInv, StoreType', pc = "checkwrite", pc' = "checkgc",
           Lessens, lost \subseteq lost',
           \A t \in Sector : /\ (Used(t)' <=> Used(t)) /\ flash'[t].sn = flash[t].sn
                             /\ IsDeleting(t)' <=> IsDeleting(t),
           \A s, t \in Sector : \A i \in LiveAt(flash'[s].log), j \in LiveAt(flash'[t].log) :
              /\ i \in LiveAt(flash[s].log) /\ j \in LiveAt(flash[t].log)
              /\ Used(s) /\ Used(t) /\ <<s, i>> # <<t, j>>
              /\ It(s, i).key = It(t, j).key /\ It(s, i).key \notin lost'
              => ~ Overwriting(s, i, t, j),
           \A s \in Sector : \A i \in LiveAt(flash'[s].log) :
              i \in LiveAt(flash[s].log) /\ Used(s) /\ It(s, i).key \notin lost'
              => It(s, i).st # "nodata"
    PROVE  ContentInv'
<1>1. Twins /\ Unfinished /\ Hashed
  BY DEF ContentInv
<1>2. Twins'
  <2> SUFFICES ASSUME NEW s \in Sector, NEW t \in Sector,
                      NEW i \in LiveAt(flash'[s].log), NEW j \in LiveAt(flash'[t].log),
                      Used(s)', Used(t)', <<s, i>> # <<t, j>>,
                      flash'[s].log[i].key = flash'[t].log[j].key,
                      flash'[s].log[i].key \notin lost'
               PROVE  Copying(s, i, t, j)' \/ Copying(t, j, s, i)'
    BY DEF Twins, Twin, It
  <2>1. /\ Used(s) /\ i \in LiveAt(flash[s].log) /\ flash'[s].log[i] = flash[s].log[i]
        /\ Used(t) /\ j \in LiveAt(flash[t].log) /\ flash'[t].log[j] = flash[t].log[j]
    BY DEF Lessens, Inherits
  <2>2. ~ Overwriting(s, i, t, j) /\ ~ Overwriting(t, j, s, i)
    BY <2>1 DEF It
  <2>3. Copying(s, i, t, j) \/ Copying(t, j, s, i)
    BY <1>1, <2>1, <2>2 DEF Twins, Twin, It
  <2>4. \A n \in Sector : Newest(n) => Newest(n)'
    BY DEF Newest, Newer
  <2> QED BY <2>1, <2>3, <2>4 DEF Copying, It
<1>3. Unfinished'
  <2> SUFFICES ASSUME NEW s \in Sector, NEW i \in LiveAt(flash'[s].log), Used(s)',
                      flash'[s].log[i].st = "nodata", flash'[s].log[i].key \notin lost'
               PROVE  FALSE
    BY DEF Unfinished, It
  <2>1. Used(s) /\ i \in LiveAt(flash[s].log) /\ flash'[s].log[i] = flash[s].log[i]
    BY DEF Lessens, Inherits
  <2> QED BY <2>1 DEF It
<1>4. Hashed'
  BY <1>1, HashedStays DEF Lessens
<1> QED BY <1>2, <1>3, <1>4, RestContent

LEMMA CheckWriteNothingContent ==
    ASSUME IInv, OrderInv, ContentInv, StoreType', CheckWriteNothing
    PROVE  ContentInv'
<1>1. /\ StoreType /\ Hashed /\ pc = "checkwrite" /\ pc' = "checkgc"
      /\ UNCHANGED <<flash, ram, lost>>
      /\ \/ Fresh(Cur) \/ LiveAt(flash[Cur].log) = {}
         \/ It(Cur, LastItem).st = "using" /\ OldCopies = {}
  BY DEF IInv, TypeOK, ContentInv, CheckWriteNothing, loaded, Fresh, It
<1>2. Lessens
  BY <1>1, SameLessens
<1>3. ASSUME NEW s \in Sector, NEW t \in Sector,
             NEW i \in LiveAt(flash[s].log), NEW j \in LiveAt(flash[t].log),
             Used(s), Used(t), <<s, i>> # <<t, j>>, It(s, i).key = It(t, j).key,
             It(s, i).key \notin lost, Overwriting(s, i, t, j)
      PROVE  FALSE
  <2>1. /\ ~ Fresh(Cur) /\ t = Cur /\ j = LastItem
        /\ It(t, j).st = "using" => TypeOf[It(s, i).val] = TypeOf[It(t, j).val]
        /\ \A n \in LiveAt(flash[t].log) : n <= j
    BY <1>1, <1>3, CutShort DEF Overwriting, LastWritten
  <2>2. It(t, j).st = "using" /\ OldCopies = {}
    BY <1>1, <2>1
  <2>3. s \in Range(active) /\ IsUsed(ram[s].st)
    BY <1>1, <1>3, <2>1, StartsWithNewest DEF ContentInv
  <2>4. It(s, i).at \in ram[s].hash
    BY <1>1, <2>3 DEF Hashed, Halfway
  <2>5. i \in Nat /\ j \in Nat /\ (s = Cur => i < j)
    BY <1>1, <1>3, <2>1, LiveItem
  <2> QED BY <1>1, <1>3, <2>1, <2>2, <2>3, <2>4, <2>5, OldCopyFound
<1>4. ASSUME NEW s \in Sector, NEW i \in LiveAt(flash[s].log), Used(s),
             It(s, i).key \notin lost, It(s, i).st = "nodata"
      PROVE  FALSE
  BY <1>1, <1>4, CutItem
<1> QED BY <1>1, <1>2, <1>3, <1>4, WriteCheckContent DEF Used, IsDeleting

LEMMA CheckWriteDataContent ==
    ASSUME IInv, OrderInv, LayoutInv, ContentInv, StoreType', CheckWriteData
    PROVE  ContentInv'
<1>1. PICK c, m : c = Cur /\ m = LastItem
  OBVIOUS
<1>2. /\ StoreType /\ ListsOK /\ pc = "checkwrite" /\ pc' = "checkgc" /\ lost' = lost
      /\ DropItem(c, It(c, m).at, It(c, m).span)
  BY <1>1 DEF IInv, TypeOK, CheckWriteData, It
<1>3. c \in Sector
  BY <1>1, <1>2, CurActive
<1>4. /\ Lessens
      /\ \A t \in Sector : (Used(t)' <=> Used(t)) /\ flash'[t].sn = flash[t].sn
      /\ \A t \in Sector : IsDeleting(t)' <=> IsDeleting(t)
      /\ \A i \in LiveAt(flash'[c].log) : flash[c].log[i].at # It(c, m).at
  BY <1>2, <1>3, DropLessens
<1>5. m \notin LiveAt(flash'[c].log)
  BY <1>4 DEF It
<1>6. ASSUME NEW s \in Sector, NEW t \in Sector,
             NEW i \in LiveAt(flash'[s].log), NEW j \in LiveAt(flash'[t].log),
             i \in LiveAt(flash[s].log), j \in LiveAt(flash[t].log),
             Used(s), Used(t), Overwriting(s, i, t, j)
      PROVE  FALSE
  BY <1>1, <1>2, <1>5, <1>6, CutShort
<1>7. ASSUME NEW s \in Sector, NEW i \in LiveAt(flash'[s].log),
             i \in LiveAt(flash[s].log), Used(s), It(s, i).key \notin lost', It(s, i).st = "nodata"
      PROVE  FALSE
  BY <1>1, <1>2, <1>5, <1>7, CutItem
<1> QED BY <1>2, <1>4, <1>6, <1>7, WriteCheckContent

LEMMA CheckWriteOldContent ==
    ASSUME IInv, OrderInv, LayoutInv, ContentInv, StoreType', CheckWriteOld
    PROVE  ContentInv'
<1>1. PICK c, m : c = Cur /\ m = LastItem
  OBVIOUS
<1>2. /\ StoreType /\ ListsOK /\ Agree /\ Twins /\ Headers
      /\ pc = "checkwrite" /\ pc' = "checkgc" /\ lost \subseteq lost'
      /\ It(c, m).st = "using" /\ LiveAt(flash[c].log) # {}
  BY <1>1 DEF IInv, TypeOK, OrderInv, ContentInv, CheckWriteOld, It
<1>3. PICK o \in OldCopies :
         DropItem(o.sec, It(o.sec, o.i).at, It(o.sec, o.i).span)
  BY DEF CheckWriteOld, It
<1>4. /\ o.sec \in Sector /\ o.i \in LiveAt(flash[o.sec].log) /\ IsUsed(ram[o.sec].st)
      /\ It(o.sec, o.i).key = It(c, m).key /\ (o.sec = c => o.i # m)
  BY <1>1, <1>2, OldCopyIs
<1>5. Used(o.sec)
  BY <1>2, <1>4 DEF Agree, Used
<1>6. PICK d, a, x : d = o.sec /\ a = It(o.sec, o.i).at /\ x = It(o.sec, o.i).span
  OBVIOUS
<1>7. DropItem(d, a, x) /\ d \in Sector
  BY <1>3, <1>4, <1>6
<1>8. /\ Lessens
      /\ \A t \in Sector : (Used(t)' <=> Used(t)) /\ flash'[t].sn = flash[t].sn
      /\ \A t \in Sector : IsDeleting(t)' <=> IsDeleting(t)
      /\ \A i \in LiveAt(flash'[d].log) : flash[d].log[i].at # a
  BY <1>2, <1>7, DropLessens
<1>9. o.i \notin LiveAt(flash'[d].log)
  BY <1>6, <1>8 DEF It
<1>10. ASSUME NEW s \in Sector, NEW t \in Sector,
              NEW i \in LiveAt(flash'[s].log), NEW j \in LiveAt(flash'[t].log),
              i \in LiveAt(flash[s].log), j \in LiveAt(flash[t].log),
              Used(s), Used(t), <<s, i>> # <<t, j>>, It(s, i).key = It(t, j).key,
              It(s, i).key \notin lost', Overwriting(s, i, t, j)
       PROVE  FALSE
  <2>1. /\ t = c /\ j = m /\ \A e \in Sector : ~ IsDeleting(e)
    BY <1>1, <1>2, <1>10, CutShort
  <2>2. ~ (s = d /\ i = o.i)
    BY <1>9, <1>10
  <2>3. PICK n : n = o.i
    OBVIOUS
  <2>4. /\ d \in Sector /\ n \in LiveAt(flash[d].log) /\ Used(d) /\ <<s, i>> # <<d, n>>
        /\ It(s, i).key = It(d, n).key /\ It(s, i).key \notin lost
        /\ ~ (d = c /\ n = m)
    BY <1>2, <1>4, <1>5, <1>6, <1>10, <2>1, <2>2, <2>3
  <2>5. Twin(s, i, d, n) \/ Twin(d, n, s, i)
    BY <1>2, <1>10, <2>4 DEF Twins
  <2>6. Overwriting(s, i, d, n) \/ Overwriting(d, n, s, i)
    BY <1>10, <2>1, <2>4, <2>5 DEF Twin, Copying
  <2>7. ~ Overwriting(s, i, d, n)
    <3>1. Overwriting(s, i, d, n) => d = Cur /\ n = LastItem
      BY <1>2, <1>10, <2>4, CutShort
    <3> QED BY <1>1, <2>4, <3>1
  <2>8. ~ Overwriting(d, n, s, i)
    <3>1. Overwriting(d, n, s, i) => s = Cur /\ i = LastItem
      BY <1>2, <1>10, <2>4, CutShort
    <3> QED BY <1>1, <1>10, <2>1, <3>1
  <2> QED BY <2>6, <2>7, <2>8
<1>11. ASSUME NEW s \in Sector, NEW i \in LiveAt(flash'[s].log),
              i \in LiveAt(flash[s].log), Used(s), It(s, i).key \notin lost', It(s, i).st = "nodata"
       PROVE  FALSE
  <2>1. s = c /\ i = m
    BY <1>1, <1>2, <1>11, CutItem
  <2> QED BY <1>2, <1>11, <2>1
<1> QED BY <1>2, <1>8, <1>10, <1>11, WriteCheckContent

-----------------------------------------------------------------------------
(* Programming the header of an item *)

LEMMA HeaderWrittenIs ==
    ASSUME NEW f \in FlashSector, NEW it \in Item, it.span >= 1, NEW h, h = HeaderWritten(f, it)
    PROVE  /\ h.key = it.key /\ h.val = it.val /\ h.at = it.at /\ h.span = it.span
           /\ h.st = "nodata" => it.span # 1
           /\ ~ (NorFlash /\ (it.at .. it.at + it.span - 1) \cap f.stale # {})
              => h.st = IF it.span = 1 THEN "using" ELSE "nodata"
<1>1. /\ it.at \in Nat /\ it.span \in Nat /\ it.at \in it.at .. it.at + it.span - 1
      /\ h = [it EXCEPT !.st = IF NorFlash /\ it.at \in f.stale THEN "droped"
                               ELSE IF it.span = 1 THEN "using" ELSE "nodata"]
  BY DEF HeaderWritten, Item
<1>2. /\ h.key = it.key /\ h.val = it.val /\ h.at = it.at /\ h.span = it.span
      /\ h.st = IF NorFlash /\ it.at \in f.stale THEN "droped"
                ELSE IF it.span = 1 THEN "using" ELSE "nodata"
  BY <1>1 DEF Item
<1>3. it.at \in f.stale => (it.at .. it.at + it.span - 1) \cap f.stale # {}
  BY <1>1
<1> QED BY <1>2, <1>3

\* The live items are the ones there were, and at most (s, n) besides.
Grown(s, n) ==
    /\ \A t \in Sector : \A i \in LiveAt(flash[t].log) :
          /\ i \in LiveAt(flash'[t].log) /\ flash'[t].log[i] = flash[t].log[i]
          /\ ~ (t = s /\ i = n)
    /\ \A t \in Sector : \A i \in LiveAt(flash'[t].log) :
          (t = s /\ i = n) \/ i \in LiveAt(flash[t].log)

\* The hash tables lead to what they led to.
HashGrows ==
    \A t \in Sector : ram'[t].st = ram[t].st /\ ram[t].hash \subseteq ram'[t].hash

LEMMA HeaderContents ==
    ASSUME StoreType, NEW s \in Sector, NEW it \in Item, WriteHeader(s, it),
           UNCHANGED ram \/ Account(s, it), NEW n, n = Len(flash[s].log) + 1
    PROVE  /\ Grown(s, n) /\ HashGrows
           /\ n \in Nat /\ Len(flash'[s].log) = n /\ flash'[s].log # <<>>
           /\ \A i \in LiveAt(flash[s].log) : i < n
           /\ flash'[s].log[n] = HeaderWritten(flash[s], it)
           /\ Last(flash'[s].log) = flash'[s].log[n]
           /\ flash'[s].stale = flash[s].stale
           /\ \A t \in Sector \ {s} : flash'[t] = flash[t]
           /\ \A t \in Sector : (Used(t)' <=> Used(t)) /\ flash'[t].sn = flash[t].sn
           /\ \A t \in Sector : IsDeleting(t)' <=> IsDeleting(t)
           /\ Account(s, it) => it.at \in ram'[s].hash
<1>1. /\ flash \in [Sector -> FlashSector] /\ ram \in [Sector -> RamSector]
      /\ flash[s] \in FlashSector /\ flash[s].log \in Seq(Item) /\ ram[s] \in RamSector
  BY SectorTypes DEF StoreType
<1>2. PICK h, log : h = HeaderWritten(flash[s], it) /\ log = flash[s].log
  OBVIOUS
<1>3. flash' = [flash EXCEPT ![s].log = Append(log, h)]
  BY <1>2 DEF WriteHeader
<1>4. /\ flash'[s].log = Append(log, h) /\ flash'[s].stale = flash[s].stale
      /\ \A t \in Sector \ {s} : flash'[t] = flash[t]
  BY <1>1, <1>3 DEF FlashSector
<1>5. h \in Item
  BY <1>1, <1>2, HeaderWrittenType
<1>6. /\ Len(log) \in Nat /\ DOMAIN log = 1 .. Len(log) /\ log \in Seq(Item)
      /\ Len(Append(log, h)) = n /\ n \in Nat /\ Append(log, h) # <<>>
      /\ DOMAIN Append(log, h) = 1 .. n /\ Append(log, h)[n] = h
      /\ Last(Append(log, h)) = h
      /\ \A i \in 1 .. Len(log) : Append(log, h)[i] = log[i]
  BY <1>1, <1>2, <1>5 DEF Last
<1>7. /\ \A i \in LiveAt(log) : i \in LiveAt(Append(log, h)) /\ Append(log, h)[i] = log[i] /\ i < n
      /\ \A i \in LiveAt(Append(log, h)) : i = n \/ i \in LiveAt(log)
  <2>1. ASSUME NEW i \in LiveAt(log)
        PROVE  i \in LiveAt(Append(log, h)) /\ Append(log, h)[i] = log[i] /\ i < n
    <3>1. i \in 1 .. Len(log) /\ IsLive(log[i])
      BY <1>6 DEF LiveAt
    <3>2. i \in 1 .. n /\ i < n /\ Append(log, h)[i] = log[i]
      BY <1>2, <1>6, <3>1
    <3> QED BY <1>6, <3>1, <3>2 DEF LiveAt
  <2>2. ASSUME NEW i \in LiveAt(Append(log, h)), i # n PROVE i \in LiveAt(log)
    <3>1. i \in 1 .. n /\ IsLive(Append(log, h)[i])
      BY <1>6 DEF LiveAt
    <3>2. i \in 1 .. Len(log)
      BY <1>2, <1>6, <2>2, <3>1
    <3> QED BY <1>6, <3>1, <3>2 DEF LiveAt
  <2> QED BY <2>1, <2>2
<1>8. Grown(s, n)
  <2>1. n \in Nat /\ \A i \in LiveAt(log) : i # n
    BY <1>6, <1>7, <1>1, <1>2, LiveInLog
  <2> QED BY <1>2, <1>4, <1>7, <2>1 DEF Grown
<1>9. SameHeaders
  BY ProgramFrame
<1>10. HashGrows /\ (Account(s, it) => it.at \in ram'[s].hash)
  <2>1. CASE Account(s, it)
    <3>1. /\ ram'[s].hash = ram[s].hash \union {it.at} /\ ram'[s].st = ram[s].st
          /\ \A t \in Sector \ {s} : ram'[t] = ram[t]
      BY <1>1, <2>1 DEF Account, RamSector
    <3> QED BY <3>1 DEF HashGrows
  <2>2. CASE UNCHANGED ram /\ ~ Account(s, it)
    BY <2>2 DEF HashGrows
  <2> QED BY <2>1, <2>2
<1> QED BY <1>2, <1>4, <1>6, <1>7, <1>8, <1>9, <1>10 DEF SameHeaders, Used, IsDeleting

\* The hash tables lead to the new item, too, unless its data is still to be written.
LEMMA GrownHashed ==
    ASSUME StoreType, NEW s \in Sector, NEW n, Grown(s, n), HashGrows, Hashed,
           pc \notin {"data", "gcdata"},
           flash'[s].log[n].at \in ram'[s].hash \/ Halfway(s, n)'
    PROVE  Hashed'
<1> SUFFICES ASSUME NEW t \in Sector, IsUsed(ram'[t].st), NEW i \in LiveAt(flash'[t].log)
             PROVE  flash'[t].log[i].at \in ram'[t].hash \/ Halfway(t, i)'
  BY DEF Hashed, It
<1>1. CASE t = s /\ i = n
  BY <1>1
<1>2. CASE i \in LiveAt(flash[t].log)
  <2>1. flash[t].log[i].at \in ram[t].hash
    BY <1>2 DEF HashGrows, Hashed, Halfway, It
  <2> QED BY <1>2, <2>1 DEF Grown, HashGrows
<1> QED BY <1>1, <1>2 DEF Grown

-----------------------------------------------------------------------------
(* A call writes its item *)

LEMMA WriteItemContent ==
    ASSUME IInv, OrderInv, ContentInv, StoreType', WriteItem
    PROVE  ContentInv'
<1>1. PICK c, n, it : /\ c = Cur /\ n = Len(flash[c].log) + 1
                      /\ it = NewItem(ram[c].next, op.k, op.v)
  OBVIOUS
<1>2. /\ StoreType /\ ListsOK /\ ControlType /\ FoundStays /\ OthersOld /\ Hashed
      /\ pc = "write" /\ ~ Fresh(c) /\ Calling /\ OpSet
      /\ WriteHeader(c, it)
      /\ lost' = lost \union (IF OverStale(c, it.at, it.span) THEN {op.k} ELSE {})
      /\ IF it.span = 1 THEN Account(c, it) /\ pc' = "eraseold" ELSE UNCHANGED ram /\ pc' = "data"
      /\ UNCHANGED <<active, idle, op, gc>>
  BY <1>1 DEF IInv, TypeOK, WriteItem, CanWrite, Fresh, ContentInv, Calling
<1>3. c \in Sector /\ Used(c)
  BY <1>1, <1>2, WritesInUse
<1>4. /\ it \in Item /\ it.key = op.k /\ it.val = op.v /\ it.span >= 1 /\ it.span \in Nat
  <2>1. ram[c].next \in Nat /\ op.k \in Keys /\ op.v \in Values
    BY <1>2, <1>3 DEF StoreType, RamSector, OpSet
  <2>2. it \in Item
    BY <1>1, <2>1, NewItemType
  <2>3. SpanOf[op.v] \in Nat \ {0}
    BY <2>1, SpanAssumption
  <2> QED BY <1>1, <2>2, <2>3 DEF NewItem
<1>5. /\ Grown(c, n) /\ HashGrows
      /\ n \in Nat /\ Len(flash'[c].log) = n /\ flash'[c].log # <<>>
      /\ \A i \in LiveAt(flash[c].log) : i < n
      /\ flash'[c].log[n] = HeaderWritten(flash[c], it)
      /\ Last(flash'[c].log) = flash'[c].log[n]
      /\ flash'[c].stale = flash[c].stale
      /\ \A t \in Sector \ {c} : flash'[t] = flash[t]
      /\ \A t \in Sector : Used(t)' <=> Used(t)
      /\ Account(c, it) => it.at \in ram'[c].hash
  BY <1>1, <1>2, <1>3, <1>4, HeaderContents
<1>6. PICK h : h = HeaderWritten(flash[c], it)
  OBVIOUS
<1>7. /\ h.key = op.k /\ h.val = op.v /\ h.at = it.at /\ h.span = it.span
      /\ h.st = "nodata" => it.span # 1
      /\ ~ OverStale(c, it.at, it.span) => h.st = IF it.span = 1 THEN "using" ELSE "nodata"
  BY <1>2, <1>3, <1>4, <1>6, HeaderWrittenIs DEF StoreType, OverStale
<1>8. Cur' = c /\ lost \subseteq lost' /\ (op.k \notin lost' => ~ OverStale(c, it.at, it.span))
  BY <1>1, <1>2 DEF Cur
<1>9. Alone /\ Complete
  BY <1>2, QuietIsAlone, QuietIsComplete DEF ContentInv, Quiet
<1>10. Twins'
  <2> SUFFICES ASSUME NEW s \in Sector, NEW t \in Sector,
                      NEW i \in LiveAt(flash'[s].log), NEW j \in LiveAt(flash'[t].log),
                      Used(s)', Used(t)', <<s, i>> # <<t, j>>,
                      flash'[s].log[i].key = flash'[t].log[j].key,
                      flash'[s].log[i].key \notin lost'
               PROVE  (s = c /\ i = n) \/ (t = c /\ j = n)
    BY <1>2, <1>5, <1>8 DEF Twins, Twin, Overwriting, It
  <2> SUFFICES ASSUME ~ (s = c /\ i = n), ~ (t = c /\ j = n)
               PROVE  FALSE
    OBVIOUS
  <2>1. i \in LiveAt(flash[s].log) /\ j \in LiveAt(flash[t].log)
    BY <1>5 DEF Grown
  <2>2. flash'[s].log[i] = It(s, i) /\ flash'[t].log[j] = It(t, j)
    BY <1>5, <2>1 DEF Grown, It
  <2> QED BY <1>2, <1>5, <1>8, <1>9, <2>1, <2>2, AloneIs
<1>11. Unfinished'
  <2> SUFFICES ASSUME NEW s \in Sector, NEW i \in LiveAt(flash'[s].log), Used(s)',
                      flash'[s].log[i].st = "nodata", flash'[s].log[i].key \notin lost'
               PROVE  pc' = "data" /\ s = c /\ i = n
    BY <1>5, <1>8 DEF Unfinished, Halfway, It
  <2>1. CASE s = c /\ i = n
    BY <1>2, <1>5, <1>6, <1>7, <2>1
  <2>2. CASE i \in LiveAt(flash[s].log)
    BY <1>5, <1>8, <1>9, <2>2 DEF Grown, Complete, It
  <2> QED BY <1>5, <2>1, <2>2 DEF Grown
<1>12. Hashed'
  <2>1. flash'[c].log[n].at \in ram'[c].hash \/ Halfway(c, n)'
    BY <1>2, <1>5, <1>6, <1>7, <1>8 DEF Halfway
  <2> QED BY <1>2, <1>3, <1>5, <2>1, GrownHashed
<1>13. Programming'
  <2>1. Programmed(c, op.k, op.v)'
    <3> SUFFICES /\ h.key = op.k /\ h.val = op.v
                 /\ op.k \notin lost' => /\ h.st = IF pc' = "eraseold" THEN "using" ELSE "nodata"
                                         /\ ~ OverStale(c, h.at, h.span)'
      BY <1>2, <1>5, <1>6 DEF Programmed
    <3>1. OverStale(c, h.at, h.span)' <=> OverStale(c, it.at, it.span)
      BY <1>5, <1>7 DEF OverStale
    <3> QED BY <1>2, <1>7, <1>8, <3>1
  <2> QED BY <1>2, <1>8, <2>1 DEF Programming, Programmed, OverStale
<1>14. FoundStays'
  <2> SUFFICES ASSUME op.found
               PROVE  \/ /\ op.sec \in Range(active)
                         /\ \E i \in LiveAt(flash'[op.sec].log) :
                               /\ flash'[op.sec].log[i].at = op.at
                               /\ flash'[op.sec].log[i].key = op.k
                               /\ flash'[op.sec].log[i].val = op.old
                               /\ op.sec = c => i < Len(flash'[op.sec].log)
                      \/ op.sec \in Range(idle) /\ flash'[op.sec].log = <<>> /\ op.retry
    BY <1>2, <1>8 DEF FoundStays, InGc, It
  <2>1. CASE op.sec \in Range(idle) /\ flash[op.sec].log = <<>> /\ op.retry
    <3>1. c \in Range(active) /\ op.sec \in Sector
      BY <1>1, <1>2, <2>1, CurActive, InRange DEF StoreType
    <3> QED BY <1>2, <1>5, <2>1, <3>1 DEF ListsOK
  <2>2. CASE /\ op.sec \in Range(active)
             /\ \E i \in LiveAt(flash[op.sec].log) :
                   It(op.sec, i).at = op.at /\ It(op.sec, i).key = op.k /\ It(op.sec, i).val = op.old
    <3>1. op.sec \in Sector
      BY <1>2, <2>2, InRange DEF StoreType
    <3> QED BY <1>5, <2>2, <3>1 DEF Grown, It
  <2> QED BY <1>2, <2>1, <2>2 DEF FoundStays
<1>15. OthersOld'
  <2> SUFFICES ASSUME op.k \notin lost'
               PROVE  /\ op.found => op.old # op.v
                      /\ \A s \in Sector : \A i \in LiveAt(flash'[s].log) :
                            Used(s)' /\ flash'[s].log[i].key = op.k =>
                               \/ op.found /\ flash'[s].log[i].val = op.old
                               \/ s = c /\ i = n
    BY <1>2, <1>5, <1>8 DEF OthersOld, It
  <2>1. op.k \notin lost
    BY <1>8
  <2>2. op.found => op.old # op.v
    BY <1>2, <2>1 DEF OthersOld
  <2>3. ASSUME NEW s \in Sector, NEW i \in LiveAt(flash'[s].log), Used(s)',
               flash'[s].log[i].key = op.k, ~ (s = c /\ i = n)
        PROVE  op.found /\ flash'[s].log[i].val = op.old
    <3>1. i \in LiveAt(flash[s].log) /\ Used(s)
      BY <1>5, <2>3 DEF Grown
    <3>2. flash'[s].log[i] = It(s, i)
      BY <1>5, <3>1 DEF Grown, It
    <3> QED BY <1>2, <2>1, <2>3, <3>1, <3>2 DEF OthersOld
  <2> QED BY <2>2, <2>3
<1> QED BY <1>2, <1>10, <1>11, <1>12, <1>13, <1>14, <1>15 DEF ContentInv, CopiedSafely, Started

-----------------------------------------------------------------------------
(* Programming the data of an item *)

\* The items are the ones there were, some of them with another status.
SameItems ==
    \A t \in Sector : /\ LiveAt(flash'[t].log) = LiveAt(flash[t].log)
                      /\ \A i \in LiveAt(flash[t].log) :
                            /\ flash'[t].log[i].key = flash[t].log[i].key
                            /\ flash'[t].log[i].val = flash[t].log[i].val
                            /\ flash'[t].log[i].at = flash[t].log[i].at

LEMMA DataContents ==
    ASSUME StoreType, NEW s \in Sector, flash[s].log # <<>>, WriteData(s),
           NEW n, n = Len(flash[s].log), NEW e, e = flash[s].log[n], e.st # "torn"
    PROVE  /\ SameItems /\ HashGrows
           /\ n \in DOMAIN flash[s].log /\ Len(flash'[s].log) = n /\ flash'[s].log # <<>>
           /\ \A t \in Sector : \A i \in LiveAt(flash[t].log) :
                 ~ (t = s /\ i = n) => flash'[t].log[i] = flash[t].log[i]
           /\ Last(flash[s].log) = e /\ Last(flash'[s].log) = flash'[s].log[n]
           /\ /\ flash'[s].log[n].key = e.key /\ flash'[s].log[n].val = e.val
              /\ flash'[s].log[n].at = e.at /\ flash'[s].log[n].span = e.span
           /\ IsLive(e) /\ ~ OverStale(s, e.at, e.span) => flash'[s].log[n].st = "using"
           /\ flash'[s].stale = flash[s].stale
           /\ \A t \in Sector \ {s} : flash'[t] = flash[t]
           /\ \A t \in Sector : (Used(t)' <=> Used(t)) /\ flash'[t].sn = flash[t].sn
           /\ \A t \in Sector : IsDeleting(t)' <=> IsDeleting(t)
           /\ e.at \in ram'[s].hash
<1>1. /\ flash \in [Sector -> FlashSector] /\ ram \in [Sector -> RamSector]
      /\ flash[s] \in FlashSector /\ flash[s].log \in Seq(Item) /\ ram[s] \in RamSector
  BY SectorTypes DEF StoreType
<1>2. PICK st \in DataWritten(flash[s], e) : flash' = [flash EXCEPT ![s].log[n].st = st]
  BY DEF WriteData
<1>3. Account(s, e)
  BY DEF WriteData
<1>4. PICK log : log = flash[s].log
  OBVIOUS
<1>5. /\ n \in DOMAIN log /\ DOMAIN log = 1 .. n /\ n \in Nat /\ e \in Item /\ e = log[n]
      /\ log \in Seq(Item)
  BY <1>1, <1>4
<1>6. /\ flash'[s].log = [log EXCEPT ![n].st = st] /\ flash'[s].stale = flash[s].stale
      /\ \A t \in Sector \ {s} : flash'[t] = flash[t]
  BY <1>1, <1>2, <1>4 DEF FlashSector
<1>7. /\ DOMAIN flash'[s].log = 1 .. n /\ Len(flash'[s].log) = n /\ flash'[s].log # <<>>
      /\ \A i \in 1 .. n : i # n => flash'[s].log[i] = log[i]
      /\ flash'[s].log[n] = [e EXCEPT !.st = st]
  <2>1. st \in ItemStatus
    BY <1>5 DEF DataWritten, ItemStatus
  <2>2. [e EXCEPT !.st = st] \in Item
    BY <1>5, <2>1 DEF Item
  <2>3. flash'[s].log = [log EXCEPT ![n] = [e EXCEPT !.st = st]]
    BY <1>5, <1>6
  <2>4. flash'[s].log \in Seq(Item) /\ Len(flash'[s].log) = n
    BY <1>5, <2>2, <2>3
  <2> QED BY <1>5, <2>3, <2>4
<1>8. /\ flash'[s].log[n].key = e.key /\ flash'[s].log[n].val = e.val
      /\ flash'[s].log[n].at = e.at /\ flash'[s].log[n].span = e.span
      /\ flash'[s].log[n].st = st
  BY <1>5, <1>7 DEF Item
<1>9. IsLive(flash'[s].log[n]) <=> IsLive(e)
  BY <1>2, <1>5, <1>8 DEF IsLive, DataWritten, Item, ItemStatus
<1>10. LiveAt(flash'[s].log) = LiveAt(log)
  BY <1>5, <1>7, <1>9 DEF LiveAt
<1>11. SameItems
  <2>1. ASSUME NEW i \in LiveAt(log)
        PROVE  /\ flash'[s].log[i].key = log[i].key /\ flash'[s].log[i].val = log[i].val
               /\ flash'[s].log[i].at = log[i].at
    <3>1. i \in 1 .. n
      BY <1>5 DEF LiveAt
    <3> QED BY <1>5, <1>7, <1>8, <3>1
  <2>2. ASSUME NEW t \in Sector, t # s PROVE flash'[t].log = flash[t].log
    BY <1>6, <2>2
  <2>3. ASSUME NEW t \in Sector
        PROVE  /\ LiveAt(flash'[t].log) = LiveAt(flash[t].log)
               /\ \A i \in LiveAt(flash[t].log) :
                     /\ flash'[t].log[i].key = flash[t].log[i].key
                     /\ flash'[t].log[i].val = flash[t].log[i].val
                     /\ flash'[t].log[i].at = flash[t].log[i].at
    <3>1. CASE t = s
      BY <1>4, <1>10, <2>1, <3>1
    <3>2. CASE t # s
      BY <2>2, <3>2
    <3> QED BY <3>1, <3>2
  <2> QED BY <2>3 DEF SameItems
<1>12. \A t \in Sector : \A i \in LiveAt(flash[t].log) :
          ~ (t = s /\ i = n) => flash'[t].log[i] = flash[t].log[i]
  BY <1>4, <1>5, <1>6, <1>7 DEF LiveAt
<1>13. IsLive(e) /\ ~ OverStale(s, e.at, e.span) => flash'[s].log[n].st = "using"
  <2> SUFFICES ASSUME IsLive(e), ~ OverStale(s, e.at, e.span) PROVE st = "using"
    BY <1>8
  <2>1. e.at \in Nat /\ e.span \in Nat
    BY <1>5 DEF Item
  <2>2. e.at + 1 .. e.at + e.span - 1 \subseteq e.at .. e.at + e.span - 1
    BY <2>1
  <2>3. ~ (NorFlash /\ (e.at + 1 .. e.at + e.span - 1) \cap flash[s].stale # {})
    BY <2>2 DEF OverStale
  <2> QED BY <1>2, <2>3 DEF DataWritten, IsLive
<1>14. SameHeaders
  BY DataFrame
<1>15. HashGrows /\ e.at \in ram'[s].hash
  <2>1. /\ ram'[s].hash = ram[s].hash \union {e.at} /\ ram'[s].st = ram[s].st
        /\ \A t \in Sector \ {s} : ram'[t] = ram[t]
    BY <1>1, <1>3 DEF Account, RamSector
  <2> QED BY <2>1 DEF HashGrows
<1>16. Last(flash[s].log) = e /\ Last(flash'[s].log) = flash'[s].log[n]
  BY <1>7 DEF Last
<1> QED BY <1>4, <1>5, <1>6, <1>7, <1>8, <1>11, <1>12, <1>13, <1>14, <1>15, <1>16
        DEF SameHeaders, Used, IsDeleting

\* The hash tables lead to the item just finished, too.
LEMMA FinishedHashed ==
    ASSUME StoreType, NEW s \in Sector, NEW n, SameItems, HashGrows, Hashed,
           flash[s].log[n].at \in ram'[s].hash,
           \A t \in Sector : \A i \in LiveAt(flash[t].log) : Halfway(t, i) => t = s /\ i = n
    PROVE  Hashed'
<1> SUFFICES ASSUME NEW t \in Sector, IsUsed(ram'[t].st), NEW i \in LiveAt(flash'[t].log)
             PROVE  flash'[t].log[i].at \in ram'[t].hash
  BY DEF Hashed, It
<1>1. /\ i \in LiveAt(flash[t].log) /\ IsUsed(ram[t].st)
      /\ flash'[t].log[i].at = flash[t].log[i].at
  BY DEF SameItems, HashGrows
<1>2. flash[t].log[i].at \in ram[t].hash \/ (t = s /\ i = n)
  BY <1>1 DEF Hashed, It
<1> QED BY <1>1, <1>2 DEF HashGrows

LEMMA WriteItemDataContent ==
    ASSUME IInv, OrderInv, LayoutInv, ContentInv, StoreType', WriteItemData
    PROVE  ContentInv'
<1>1. PICK c, n, e : c = Cur /\ n = Len(flash[c].log) /\ e = flash[c].log[n]
  OBVIOUS
<1>2. /\ StoreType /\ ListsOK /\ ControlType /\ FoundStays /\ OthersOld /\ Hashed
      /\ Twins /\ Unfinished /\ Programming
      /\ pc = "data" /\ pc' = "eraseold" /\ Calling /\ OpSet /\ WriteData(c)
      /\ UNCHANGED <<active, idle, op, gc, lost>>
  BY <1>1 DEF IInv, TypeOK, WriteItemData, ContentInv, Calling
<1>3. c \in Sector /\ Cur' = c /\ c \in Range(active)
  BY <1>1, <1>2, CurActive DEF Cur
<1>4. flash[c].log # <<>> /\ e.st # "torn" /\ Last(flash[c].log) = e
  BY <1>1, <1>2 DEF IInv, DataBegun, LayoutInv, Between, Last
<1>5. /\ SameItems /\ HashGrows
      /\ n \in DOMAIN flash[c].log /\ Len(flash'[c].log) = n /\ flash'[c].log # <<>>
      /\ \A t \in Sector : \A i \in LiveAt(flash[t].log) :
            ~ (t = c /\ i = n) => flash'[t].log[i] = flash[t].log[i]
      /\ Last(flash'[c].log) = flash'[c].log[n]
      /\ flash'[c].log[n].key = e.key /\ flash'[c].log[n].val = e.val
      /\ flash'[c].log[n].at = e.at /\ flash'[c].log[n].span = e.span
      /\ IsLive(e) /\ ~ OverStale(c, e.at, e.span) => flash'[c].log[n].st = "using"
      /\ flash'[c].stale = flash[c].stale
      /\ \A t \in Sector \ {c} : flash'[t] = flash[t]
      /\ \A t \in Sector : Used(t)' <=> Used(t)
      /\ e.at \in ram'[c].hash
  BY <1>1, <1>2, <1>3, <1>4, DataContents
<1>6. /\ e.key = op.k /\ e.val = op.v
      /\ op.k \notin lost => e.st = "nodata" /\ ~ OverStale(c, e.at, e.span)
  BY <1>1, <1>2, <1>4 DEF Programming, Programmed
<1>7. op.k \notin lost => flash'[c].log[n].st = "using"
  BY <1>5, <1>6 DEF IsLive
<1>8. Twins'
  <2> SUFFICES ASSUME NEW s \in Sector, NEW t \in Sector,
                      NEW i \in LiveAt(flash[s].log), NEW j \in LiveAt(flash[t].log),
                      Used(s), Used(t), <<s, i>> # <<t, j>>,
                      It(s, i).key = It(t, j).key, It(s, i).key \notin lost
               PROVE  (s = c /\ i = n) \/ (t = c /\ j = n)
    BY <1>2, <1>3, <1>5 DEF Twins, Twin, Overwriting, It, SameItems
  <2>1. Overwriting(s, i, t, j) \/ Overwriting(t, j, s, i)
    BY <1>2 DEF Twins, Twin, Copying
  <2> QED BY <1>1, <1>2, <2>1 DEF Overwriting
<1>9. Unfinished'
  <2> SUFFICES ASSUME NEW s \in Sector, NEW i \in LiveAt(flash[s].log), Used(s),
                      flash'[s].log[i].st = "nodata", flash'[s].log[i].key \notin lost
               PROVE  FALSE
    BY <1>2, <1>5 DEF Unfinished, It, SameItems
  <2>1. CASE s = c /\ i = n
    BY <1>5, <1>6, <1>7, <2>1
  <2>2. CASE ~ (s = c /\ i = n)
    <3>1. flash'[s].log[i] = It(s, i)
      BY <1>5, <2>2 DEF It
    <3>2. Halfway(s, i)
      BY <1>2, <3>1 DEF Unfinished
    <3> QED BY <1>1, <1>2, <2>2, <3>2 DEF Halfway
  <2> QED BY <2>1, <2>2
<1>10. Hashed'
  <2>1. \A t \in Sector : \A i \in LiveAt(flash[t].log) : Halfway(t, i) => t = c /\ i = n
    BY <1>1, <1>2 DEF Halfway
  <2> QED BY <1>1, <1>2, <1>3, <1>5, <2>1, FinishedHashed
<1>11. Programming'
  <2>1. Programmed(c, op.k, op.v)'
    <3> SUFFICES op.k \notin lost => ~ OverStale(c, e.at, e.span)'
      BY <1>2, <1>5, <1>6, <1>7 DEF Programmed, OverStale
    <3>1. OverStale(c, e.at, e.span)' <=> OverStale(c, e.at, e.span)
      BY <1>5 DEF OverStale
    <3> QED BY <1>6, <3>1
  <2> QED BY <1>2, <1>3, <2>1 DEF Programming, Programmed, OverStale
<1>12. FoundStays'
  <2> SUFFICES ASSUME op.found
               PROVE  \/ /\ op.sec \in Range(active)
                         /\ \E i \in LiveAt(flash'[op.sec].log) :
                               /\ flash'[op.sec].log[i].at = op.at
                               /\ flash'[op.sec].log[i].key = op.k
                               /\ flash'[op.sec].log[i].val = op.old
                               /\ op.sec = c => i < Len(flash'[op.sec].log)
                      \/ op.sec \in Range(idle) /\ flash'[op.sec].log = <<>> /\ op.retry
    BY <1>2, <1>3 DEF FoundStays, InGc, It
  <2>1. CASE op.sec \in Range(idle) /\ flash[op.sec].log = <<>> /\ op.retry
    <3>1. op.sec \in Sector
      BY <1>2, <2>1, InRange DEF StoreType
    <3> QED BY <1>2, <1>3, <1>5, <2>1, <3>1 DEF ListsOK
  <2>2. CASE /\ op.sec \in Range(active)
             /\ \E i \in LiveAt(flash[op.sec].log) :
                   /\ It(op.sec, i).at = op.at /\ It(op.sec, i).key = op.k
                   /\ It(op.sec, i).val = op.old
                   /\ op.sec = c => i < Len(flash[op.sec].log)
    <3>1. op.sec \in Sector
      BY <1>2, <2>2, InRange DEF StoreType
    <3>2. op.sec = c => Len(flash'[op.sec].log) = Len(flash[op.sec].log)
      BY <1>1, <1>5
    <3> QED BY <1>5, <2>2, <3>1, <3>2 DEF SameItems, It
  <2> QED BY <1>1, <1>2, <2>1, <2>2 DEF FoundStays
<1>13. OthersOld'
  <2> SUFFICES ASSUME op.k \notin lost
               PROVE  /\ op.found => op.old # op.v
                      /\ \A s \in Sector : \A i \in LiveAt(flash[s].log) :
                            Used(s) /\ It(s, i).key = op.k =>
                               \/ op.found /\ It(s, i).val = op.old
                               \/ s = c /\ i = n
    BY <1>2, <1>3, <1>5 DEF OthersOld, It, SameItems
  <2> QED BY <1>1, <1>2 DEF OthersOld
<1> QED BY <1>2, <1>8, <1>9, <1>10, <1>11, <1>12, <1>13 DEF ContentInv, CopiedSafely, Started

-----------------------------------------------------------------------------
(* Collection copies an item *)

\* Where collection is: the item that is next has no copy yet.
LEMMA CopyStands ==
    ASSUME IInv, OrderInv, LayoutInv, ContentInv, pc \in {"gccopy", "gcdata"},
           NEW src, src = gc.src, NEW dst, dst = gc.dst
    PROVE  /\ StoreType /\ ControlType /\ ListsOK
           /\ src \in Sector /\ dst \in Sector /\ src # dst /\ gc.i \in Nat
           /\ IsDeleting(src) /\ Used(src) /\ Used(dst) /\ Newest(dst) /\ dst = Cur
           /\ \A s \in Sector : IsDeleting(s) => s = src
           /\ dst \in Range(active) /\ IsUsed(ram[dst].st)
<1>1. /\ StoreType /\ ControlType /\ ListsOK /\ Collecting /\ Headers /\ ListOrder /\ InGc
  BY DEF IInv, TypeOK, OrderInv, InGc
<1>2. IsDeleting(src) /\ dst = Cur /\ \A s \in Sector : IsDeleting(s) => s = src
  BY <1>1 DEF Collecting, Headers
<1>3. /\ src \in Sector /\ dst \in Sector /\ src # dst /\ gc.i \in Nat
      /\ dst \in Range(active) /\ flash[dst].hdr = "using" /\ IsUsed(ram[dst].st)
  BY CopyPlaces
<1>4. Used(src) /\ Used(dst)
  BY <1>2, <1>3 DEF Used, IsUsed, IsDeleting
<1> QED BY <1>1, <1>2, <1>3, <1>4, CurIsTheNewest, NoIdleInUse

LEMMA NextIsAlone ==
    ASSUME IInv, OrderInv, LayoutInv, ContentInv, pc = "gccopy",
           NEW src, src = gc.src, NEW m \in LiveAt(flash[src].log), m >= gc.i,
           It(src, m).key \notin lost,
           NEW s \in Sector, NEW i \in LiveAt(flash[s].log), Used(s),
           It(s, i).key = It(src, m).key
    PROVE  s = src /\ i = m
<1>1. /\ src \in Sector /\ gc.i \in Nat /\ IsDeleting(src) /\ Used(src) /\ StoreType
      /\ \A d \in Sector : IsDeleting(d) => d = src
  BY CopyStands
<1>2. m \in Nat
  BY <1>1, LiveItem
<1> SUFFICES ASSUME ~ (s = src /\ i = m) PROVE FALSE
  OBVIOUS
<1>3. <<s, i>> # <<src, m>>
  OBVIOUS
<1>4. Twin(s, i, src, m) \/ Twin(src, m, s, i)
  BY <1>1, <1>3 DEF ContentInv, Twins
<1>5. Copying(s, i, src, m) \/ Copying(src, m, s, i)
  BY <1>4 DEF Twin, Overwriting
<1> QED BY <1>1, <1>2, <1>5 DEF Copying

LEMMA GcCopyContent ==
    ASSUME IInv, OrderInv, LayoutInv, ContentInv, StoreType', GcCopy
    PROVE  ContentInv'
<1>1. PICK src, dst, m, n, it : /\ src = gc.src /\ dst = gc.dst /\ m = LeastOf(ToCopy)
                                /\ n = Len(flash[dst].log) + 1 /\ it = Copied
  OBVIOUS
<1>2. /\ Twins /\ Unfinished /\ Hashed /\ CopiedSafely /\ FoundStays /\ OthersOld
      /\ pc = "gccopy" /\ ToCopy # {} /\ WriteHeader(dst, it) /\ InGc
      /\ IF it.span = 1
         THEN /\ Account(dst, it) /\ pc' = "gccopy"
              /\ gc' = [gc EXCEPT !.i = m + 1, !.d = @ + 1]
         ELSE pc' = "gcdata" /\ UNCHANGED <<ram, gc>>
      /\ lost' = lost \union (IF OverStale(dst, it.at, it.span) THEN {it.key} ELSE {})
      /\ UNCHANGED <<active, idle, op>>
  BY <1>1 DEF ContentInv, GcCopy, InGc
<1>3. /\ StoreType /\ ControlType /\ ListsOK
      /\ src \in Sector /\ dst \in Sector /\ src # dst /\ gc.i \in Nat
      /\ IsDeleting(src) /\ Used(src) /\ Used(dst) /\ Newest(dst) /\ dst = Cur
      /\ \A s \in Sector : IsDeleting(s) => s = src
      /\ dst \in Range(active)
  BY <1>1, <1>2, CopyStands
<1>4. /\ m \in ToCopy /\ m \in LiveAt(flash[src].log) /\ m >= gc.i /\ m \in Nat
      /\ \A i \in ToCopy : m <= i
  <2>1. ToCopy \subseteq Nat
    BY <1>1, <1>3, LiveItem DEF ToCopy
  <2>2. m \in ToCopy /\ \A i \in ToCopy : m <= i
    BY <1>1, <1>2, <2>1, LeastOfIsLeast
  <2> QED BY <1>1, <2>1, <2>2 DEF ToCopy
<1>5. /\ it \in Item /\ it.key = It(src, m).key /\ it.val = It(src, m).val
      /\ it.span >= 1 /\ it.span \in Nat /\ it.at = gc.d
  <2>1. it = [It(src, m) EXCEPT !.at = gc.d]
    BY <1>1 DEF Copied, It
  <2>2. It(src, m) \in Item
    BY <1>3, <1>4, LiveItem
  <2>3. it \in Item /\ it.span >= 1
    BY <1>1, <1>2, <1>3, CopiedType, CopyFits
  <2> QED BY <2>1, <2>2, <2>3 DEF Item
<1>6. /\ Grown(dst, n) /\ HashGrows
      /\ n \in Nat /\ Len(flash'[dst].log) = n /\ flash'[dst].log # <<>>
      /\ \A i \in LiveAt(flash[dst].log) : i < n
      /\ flash'[dst].log[n] = HeaderWritten(flash[dst], it)
      /\ Last(flash'[dst].log) = flash'[dst].log[n]
      /\ flash'[dst].stale = flash[dst].stale
      /\ \A t \in Sector \ {dst} : flash'[t] = flash[t]
      /\ \A t \in Sector : (Used(t)' <=> Used(t)) /\ flash'[t].sn = flash[t].sn
      /\ \A t \in Sector : IsDeleting(t)' <=> IsDeleting(t)
      /\ Account(dst, it) => it.at \in ram'[dst].hash
  <2>1. UNCHANGED ram \/ Account(dst, it)
    BY <1>2
  <2>2. StoreType /\ WriteHeader(dst, it) /\ dst \in Sector /\ it \in Item
    BY <1>2, <1>3, <1>5
  <2>3. n = Len(flash[dst].log) + 1
    BY <1>1
  <2> QED BY <2>1, <2>2, <2>3, HeaderContents
<1>7. PICK h : h = HeaderWritten(flash[dst], it)
  OBVIOUS
<1>8. /\ h.key = it.key /\ h.val = it.val /\ h.at = it.at /\ h.span = it.span
      /\ h.st = "nodata" => it.span # 1
      /\ ~ OverStale(dst, it.at, it.span) => h.st = IF it.span = 1 THEN "using" ELSE "nodata"
  BY <1>3, <1>5, <1>7, HeaderWrittenIs DEF StoreType, OverStale
<1>9. /\ Cur' = dst /\ lost \subseteq lost' /\ gc'.src = src /\ gc'.dst = dst
      /\ gc'.rec = gc.rec /\ (it.key \notin lost' => ~ OverStale(dst, it.at, it.span))
      /\ it.span = 1 => gc'.i = m + 1
  BY <1>1, <1>2, <1>3 DEF Cur, ControlType
<1>10. /\ flash'[src] = flash[src]
       /\ it.span # 1 => ToCopy' = ToCopy /\ Copied' = it /\ LeastOf(ToCopy') = m
  <2>1. flash'[src] = flash[src]
    BY <1>3, <1>6
  <2>2. it.span # 1 => ToCopy' = ToCopy
    BY <1>1, <1>2, <2>1 DEF ToCopy
  <2> QED BY <1>1, <1>2, <2>1, <2>2 DEF Copied
<1>11. Newest(dst)'
  BY <1>3, <1>6 DEF Newest, Newer
<1>12. ASSUME it.key \notin lost'
       PROVE  Copying(src, m, dst, n)'
  <2>1. flash'[src].log[m].val = flash'[dst].log[n].val
    BY <1>5, <1>6, <1>7, <1>8, <1>10 DEF It
  <2>2. CASE it.span = 1
    <3>1. pc' = "gccopy" /\ m < gc'.i
      BY <1>2, <1>4, <1>9, <2>2
    <3> QED BY <1>3, <1>6, <1>11, <2>1, <3>1 DEF Copying, It
  <2>3. CASE it.span # 1
    <3>1. pc' = "gcdata" /\ Halfway(dst, n)'
      BY <1>2, <1>6, <1>9, <2>3 DEF Halfway
    <3> QED BY <1>3, <1>6, <1>10, <1>11, <2>1, <2>3, <3>1 DEF Copying, It
  <2> QED BY <2>2, <2>3
<1>13. ASSUME NEW s \in Sector, NEW i \in LiveAt(flash[s].log), Used(s),
              It(s, i).key = it.key, it.key \notin lost
       PROVE  s = src /\ i = m
  BY <1>1, <1>2, <1>4, <1>5, <1>13, NextIsAlone
<1>14. Twins'
  <2> SUFFICES ASSUME NEW s \in Sector, NEW t \in Sector,
                      NEW i \in LiveAt(flash'[s].log), NEW j \in LiveAt(flash'[t].log),
                      Used(s)', Used(t)', <<s, i>> # <<t, j>>,
                      flash'[s].log[i].key = flash'[t].log[j].key,
                      flash'[s].log[i].key \notin lost'
               PROVE  Copying(s, i, t, j)' \/ Copying(t, j, s, i)'
    BY DEF Twins, Twin, It
  <2>1. CASE s = dst /\ i = n
    <3>1. it.key \notin lost' /\ it.key \notin lost /\ flash'[t].log[j].key = it.key
      BY <1>6, <1>7, <1>8, <1>9, <2>1
    <3>2. j \in LiveAt(flash[t].log) /\ Used(t)
      BY <1>6, <2>1 DEF Grown
    <3>3. flash'[t].log[j] = It(t, j)
      BY <1>6, <3>2 DEF Grown, It
    <3>4. t = src /\ j = m
      BY <1>13, <3>1, <3>2, <3>3
    <3> QED BY <1>12, <2>1, <3>1, <3>4
  <2>2. CASE t = dst /\ j = n
    <3>1. it.key \notin lost' /\ it.key \notin lost /\ flash'[s].log[i].key = it.key
      BY <1>6, <1>7, <1>8, <1>9, <2>2
    <3>2. i \in LiveAt(flash[s].log) /\ Used(s)
      BY <1>6, <2>2 DEF Grown
    <3>3. flash'[s].log[i] = It(s, i)
      BY <1>6, <3>2 DEF Grown, It
    <3>4. s = src /\ i = m
      BY <1>13, <3>1, <3>2, <3>3
    <3> QED BY <1>12, <2>2, <3>1, <3>4
  <2>3. CASE ~ (s = dst /\ i = n) /\ ~ (t = dst /\ j = n)
    <3>1. /\ i \in LiveAt(flash[s].log) /\ Used(s) /\ j \in LiveAt(flash[t].log) /\ Used(t)
      BY <1>6, <2>3 DEF Grown
    <3>2. flash'[s].log[i] = It(s, i) /\ flash'[t].log[j] = It(t, j)
      BY <1>6, <3>1 DEF Grown, It
    <3>3. Twin(s, i, t, j) \/ Twin(t, j, s, i)
      BY <1>2, <1>9, <3>1, <3>2 DEF Twins
    <3>4. Copying(s, i, t, j) \/ Copying(t, j, s, i)
      BY <1>2, <3>3 DEF Twin, Overwriting
    <3>5. \A u \in Sector : Newest(u) => Newest(u)'
      BY <1>6 DEF Newest, Newer
    <3>6. pc' \in {"gccopy", "gcdata"} /\ gc.i <= gc'.i
      BY <1>2, <1>3, <1>4, <1>9
    <3>7. i \in Nat /\ j \in Nat /\ gc'.i \in Nat
      <4>1. i \in Nat /\ j \in Nat
        BY <1>3, <3>1, LiveItem
      <4>2. gc'.i \in Nat
        BY <1>2, <1>3, <1>4, <1>9
      <4> QED BY <4>1, <4>2
    <3> QED BY <1>2, <1>3, <1>6, <3>2, <3>4, <3>5, <3>6, <3>7 DEF Copying, It
  <2> QED BY <2>1, <2>2, <2>3
<1>15. Unfinished'
  <2> SUFFICES ASSUME NEW s \in Sector, NEW i \in LiveAt(flash'[s].log), Used(s)',
                      flash'[s].log[i].st = "nodata", flash'[s].log[i].key \notin lost'
               PROVE  pc' = "gcdata" /\ s = dst /\ i = n
    BY <1>6, <1>9 DEF Unfinished, Halfway, It
  <2>1. CASE s = dst /\ i = n
    BY <1>2, <1>6, <1>7, <1>8, <2>1
  <2>2. CASE i \in LiveAt(flash[s].log)
    <3>1. Complete
      BY <1>2, QuietIsComplete
    <3> QED BY <1>6, <1>9, <2>2, <3>1 DEF Grown, Complete, It
  <2> QED BY <1>6, <2>1, <2>2 DEF Grown
<1>16. Hashed'
  <2>1. flash'[dst].log[n].at \in ram'[dst].hash \/ Halfway(dst, n)'
    BY <1>2, <1>6, <1>7, <1>8, <1>9 DEF Halfway
  <2> QED BY <1>2, <1>3, <1>6, <2>1, GrownHashed
<1>17. Programming'
  <2> SUFFICES ASSUME it.span # 1 PROVE Programmed(dst, it.key, it.val)'
    BY <1>2, <1>9, <1>10 DEF Programming, Programmed, OverStale
  <2> SUFFICES it.key \notin lost' => h.st = "nodata" /\ ~ OverStale(dst, h.at, h.span)'
    BY <1>2, <1>6, <1>7, <1>8 DEF Programmed
  <2>1. OverStale(dst, h.at, h.span)' <=> OverStale(dst, it.at, it.span)
    BY <1>6, <1>8 DEF OverStale
  <2> QED BY <1>8, <1>9, <2>1
<1>18. CopiedSafely'
  <2> SUFFICES ASSUME NEW i \in LiveAt(flash[src].log), i < gc'.i, It(src, i).key \notin lost'
               PROVE  \E j \in LiveAt(flash'[dst].log) :
                         /\ flash'[dst].log[j].key = It(src, i).key
                         /\ flash'[dst].log[j].val = It(src, i).val
    BY <1>9, <1>10 DEF CopiedSafely, It
  <2>1. CASE i < gc.i
    <3>1. PICK j \in LiveAt(flash[dst].log) :
             It(dst, j).key = It(src, i).key /\ It(dst, j).val = It(src, i).val
      BY <1>1, <1>2, <1>9, <2>1 DEF CopiedSafely
    <3> QED BY <1>3, <1>6, <3>1 DEF Grown, It
  <2>2. CASE ~ (i < gc.i)
    <3>1. it.span = 1 /\ i = m
      <4>1. i \in Nat
        BY <1>3, LiveItem
      <4>2. i \in ToCopy
        BY <1>1, <1>3, <2>2, <4>1 DEF ToCopy
      <4> QED BY <1>1, <1>2, <1>4, <1>9, <2>2, <4>1, <4>2
    <3>2. h.st = "using"
      BY <1>5, <1>8, <1>9, <3>1
    <3>3. n \in LiveAt(flash'[dst].log)
      <4>1. n \in DOMAIN flash'[dst].log
        <5>1. flash'[dst].log \in Seq(Item)
          BY <1>3 DEF StoreType, FlashSector
        <5> QED BY <1>6, <5>1
      <4> QED BY <1>6, <1>7, <3>2, <4>1 DEF LiveAt, IsLive
    <3> QED BY <1>5, <1>6, <1>7, <1>8, <3>1, <3>3
  <2> QED BY <2>1, <2>2
<1>19. FoundStays' /\ OthersOld'
  <2>1. CASE gc.rec
    BY <1>2, <1>9, <2>1 DEF FoundStays, OthersOld, Calling, InGc
  <2>2. CASE ~ gc.rec
    <3>1. Calling /\ SameCall /\ op' = op /\ op.retry
      BY <1>2, <2>2 DEF Calling, SameCall, FoundStays
    <3>2. FoundStays'
      <4>1. \A t \in Range(active) : t \in Range(active') /\ KeepsItems(t)
        <5>1. Range(active) \subseteq Sector
          BY <1>3, InRange DEF StoreType
        <5> QED BY <1>2, <1>6, <5>1 DEF Grown, KeepsItems
      <4>2. \A t \in Range(idle) : flash[t].log = <<>> =>
                                     t \in Range(idle') /\ flash'[t].log = <<>>
        <5>1. Range(idle) \subseteq Sector /\ dst \notin Range(idle)
          BY <1>3, InRange DEF StoreType, ListsOK
        <5> QED BY <1>2, <1>6, <5>1
      <4> QED BY <1>2, <3>1, <4>1, <4>2, FoundStaysPut
    <3>3. OthersOld'
      <4> SUFFICES ASSUME op.k \notin lost'
                   PROVE  /\ op.found => op.old # op.v
                          /\ \A s \in Sector : \A i \in LiveAt(flash'[s].log) :
                                Used(s)' /\ flash'[s].log[i].key = op.k =>
                                   op.found /\ flash'[s].log[i].val = op.old
        BY <1>2 DEF OthersOld, It
      <4>1. op.k \notin lost
        BY <1>9
      <4>2. op.found => op.old # op.v
        BY <1>2, <3>1, <4>1 DEF OthersOld
      <4>3. \A s \in Sector : \A i \in LiveAt(flash[s].log) :
               Used(s) /\ It(s, i).key = op.k => op.found /\ It(s, i).val = op.old
        BY <1>2, <3>1, <4>1 DEF OthersOld
      <4>4. ASSUME NEW s \in Sector, NEW i \in LiveAt(flash'[s].log), Used(s)',
                   flash'[s].log[i].key = op.k
            PROVE  op.found /\ flash'[s].log[i].val = op.old
        <5>1. CASE s = dst /\ i = n
          <6>1. It(src, m).key = op.k /\ flash'[s].log[i].val = It(src, m).val
            BY <1>5, <1>6, <1>7, <1>8, <4>4, <5>1
          <6> QED BY <1>3, <1>4, <4>3, <6>1
        <5>2. CASE i \in LiveAt(flash[s].log)
          <6>1. flash'[s].log[i] = It(s, i) /\ Used(s)
            BY <1>6, <4>4, <5>2 DEF Grown, It
          <6> QED BY <4>3, <4>4, <5>2, <6>1
        <5> QED BY <1>6, <5>1, <5>2 DEF Grown
      <4> QED BY <4>2, <4>4
    <3> QED BY <3>2, <3>3
  <2> QED BY <2>1, <2>2
<1> QED BY <1>2, <1>14, <1>15, <1>16, <1>17, <1>18, <1>19 DEF ContentInv, Started

LEMMA GcCopyDataContent ==
    ASSUME IInv, OrderInv, LayoutInv, ContentInv, StoreType', GcCopyData
    PROVE  ContentInv'
<1>1. PICK src, dst, m, n, e, it : /\ src = gc.src /\ dst = gc.dst /\ m = LeastOf(ToCopy)
                                   /\ n = Len(flash[dst].log) /\ e = flash[dst].log[n]
                                   /\ it = Copied
  OBVIOUS
<1>2. /\ Twins /\ Unfinished /\ Hashed /\ CopiedSafely /\ FoundStays /\ OthersOld /\ Programming
      /\ pc = "gcdata" /\ pc' = "gccopy" /\ WriteData(dst) /\ InGc
      /\ gc' = [gc EXCEPT !.i = m + 1, !.d = @ + it.span]
      /\ UNCHANGED <<active, idle, op, lost>>
  BY <1>1 DEF ContentInv, GcCopyData, InGc
<1>3. /\ StoreType /\ ControlType /\ ListsOK
      /\ src \in Sector /\ dst \in Sector /\ src # dst /\ gc.i \in Nat
      /\ IsDeleting(src) /\ Used(src) /\ Used(dst) /\ Newest(dst) /\ dst = Cur
      /\ \A s \in Sector : IsDeleting(s) => s = src
      /\ dst \in Range(active)
  BY <1>1, <1>2, CopyStands
<1>4. flash[dst].log # <<>> /\ ToCopy # {} /\ e.st # "torn" /\ Last(flash[dst].log) = e
  BY <1>1, <1>2 DEF IInv, DataBegun, LayoutInv, Between, Last
<1>5. /\ m \in LiveAt(flash[src].log) /\ m >= gc.i /\ m \in Nat
      /\ \A i \in ToCopy : m <= i
  <2>1. ToCopy \subseteq Nat
    BY <1>1, <1>3, LiveItem DEF ToCopy
  <2>2. m \in ToCopy /\ \A i \in ToCopy : m <= i
    BY <1>1, <1>4, <2>1, LeastOfIsLeast
  <2> QED BY <1>1, <2>1, <2>2 DEF ToCopy
<1>6. it.key = It(src, m).key /\ it.val = It(src, m).val
  <2>1. it = [It(src, m) EXCEPT !.at = gc.d]
    BY <1>1 DEF Copied, It
  <2>2. It(src, m) \in Item
    BY <1>3, <1>5, LiveItem
  <2> QED BY <2>1, <2>2 DEF Item
<1>7. /\ SameItems /\ HashGrows
      /\ n \in DOMAIN flash[dst].log /\ Len(flash'[dst].log) = n /\ flash'[dst].log # <<>>
      /\ \A t \in Sector : \A i \in LiveAt(flash[t].log) :
            ~ (t = dst /\ i = n) => flash'[t].log[i] = flash[t].log[i]
      /\ flash'[dst].log[n].key = e.key
      /\ IsLive(e) /\ ~ OverStale(dst, e.at, e.span) => flash'[dst].log[n].st = "using"
      /\ \A t \in Sector \ {dst} : flash'[t] = flash[t]
      /\ \A t \in Sector : (Used(t)' <=> Used(t)) /\ flash'[t].sn = flash[t].sn
      /\ \A t \in Sector : IsDeleting(t)' <=> IsDeleting(t)
      /\ e.at \in ram'[dst].hash
  <2>1. StoreType /\ dst \in Sector /\ WriteData(dst)
    BY <1>2, <1>3
  <2>2. n = Len(flash[dst].log) /\ e = flash[dst].log[n]
    BY <1>1
  <2> QED BY <1>4, <2>1, <2>2, DataContents
<1>8. /\ e.key = it.key /\ e.val = it.val
      /\ it.key \notin lost => e.st = "nodata" /\ ~ OverStale(dst, e.at, e.span)
  BY <1>1, <1>2, <1>4 DEF Programming, Programmed
<1>9. it.key \notin lost => flash'[dst].log[n].st = "using"
  BY <1>7, <1>8 DEF IsLive
<1>10. gc'.src = src /\ gc'.dst = dst /\ gc'.i = m + 1 /\ gc'.rec = gc.rec
  BY <1>1, <1>2, <1>3 DEF ControlType
<1>11. \A t \in Sector : \A i \in LiveAt(flash[t].log) : Halfway(t, i) => t = dst /\ i = n
  BY <1>1, <1>2 DEF Halfway
<1>12. Twins'
  <2> SUFFICES ASSUME NEW s \in Sector, NEW t \in Sector,
                      NEW i \in LiveAt(flash[s].log), NEW j \in LiveAt(flash[t].log),
                      Used(s), Used(t), <<s, i>> # <<t, j>>,
                      It(s, i).key = It(t, j).key, It(s, i).key \notin lost
               PROVE  Copying(s, i, t, j)' \/ Copying(t, j, s, i)'
    BY <1>2, <1>7 DEF Twins, Twin, It, SameItems
  <2>1. Copying(s, i, t, j) \/ Copying(t, j, s, i)
    BY <1>2 DEF Twins, Twin, Overwriting
  <2>2. \A u \in Sector : Newest(u) => Newest(u)'
    BY <1>7 DEF Newest, Newer
  <2>3. i \in Nat /\ j \in Nat
    BY <1>3, LiveItem
  <2>4. /\ Copying(s, i, t, j) => i < gc'.i
        /\ Copying(t, j, s, i) => j < gc'.i
    BY <1>1, <1>2, <1>3, <1>5, <1>10, <2>3 DEF Copying
  <2>5. flash'[s].log[i].val = It(s, i).val /\ flash'[t].log[j].val = It(t, j).val
    BY <1>7 DEF SameItems, It
  <2> QED BY <1>2, <1>7, <2>1, <2>2, <2>4, <2>5 DEF Copying, It
<1>13. Unfinished'
  <2> SUFFICES ASSUME NEW s \in Sector, NEW i \in LiveAt(flash[s].log), Used(s),
                      flash'[s].log[i].st = "nodata", flash'[s].log[i].key \notin lost
               PROVE  FALSE
    BY <1>2, <1>7 DEF Unfinished, It, SameItems
  <2>1. CASE s = dst /\ i = n
    BY <1>7, <1>8, <1>9, <2>1
  <2>2. CASE ~ (s = dst /\ i = n)
    <3>1. flash'[s].log[i] = It(s, i)
      BY <1>7, <2>2 DEF It
    <3>2. Halfway(s, i)
      BY <1>2, <3>1 DEF Unfinished
    <3> QED BY <1>11, <2>2, <3>2
  <2> QED BY <2>1, <2>2
<1>14. Hashed'
  BY <1>1, <1>2, <1>3, <1>7, <1>11, FinishedHashed
<1>15. CopiedSafely'
  <2> SUFFICES ASSUME NEW i \in LiveAt(flash[src].log), i < m + 1, It(src, i).key \notin lost
               PROVE  \E j \in LiveAt(flash[dst].log) :
                         /\ It(dst, j).key = It(src, i).key
                         /\ It(dst, j).val = It(src, i).val
    <3>1. /\ LiveAt(flash'[dst].log) = LiveAt(flash[dst].log) /\ flash'[src] = flash[src]
          /\ \A j \in LiveAt(flash[dst].log) :
                /\ flash'[dst].log[j].key = flash[dst].log[j].key
                /\ flash'[dst].log[j].val = flash[dst].log[j].val
      BY <1>3, <1>7 DEF SameItems
    <3> QED BY <1>2, <1>10, <3>1 DEF CopiedSafely, It
  <2>1. CASE i < gc.i
    BY <1>1, <1>2, <2>1 DEF CopiedSafely
  <2>2. CASE ~ (i < gc.i)
    <3>1. i = m
      <4>1. i \in Nat
        BY <1>3, LiveItem
      <4>2. i \in ToCopy
        BY <1>1, <1>3, <2>2, <4>1 DEF ToCopy
      <4> QED BY <1>5, <4>1, <4>2
    <3>2. n \in LiveAt(flash[dst].log)
      BY <1>1, <1>6, <1>7, <1>8, <3>1 DEF LiveAt, IsLive
    <3> QED BY <1>1, <1>6, <1>8, <3>1, <3>2 DEF It
  <2> QED BY <2>1, <2>2
<1>16. FoundStays' /\ OthersOld'
  <2>1. CASE gc.rec
    BY <1>2, <1>10, <2>1 DEF FoundStays, OthersOld, Calling, InGc
  <2>2. CASE ~ gc.rec
    <3>1. Calling /\ SameCall /\ op' = op /\ op.retry
      BY <1>2, <2>2 DEF Calling, SameCall, FoundStays
    <3>2. FoundStays'
      <4>1. \A t \in Range(active) : t \in Range(active') /\ KeepsItems(t)
        <5>1. Range(active) \subseteq Sector
          BY <1>3, InRange DEF StoreType
        <5> QED BY <1>2, <1>7, <5>1 DEF SameItems, KeepsItems
      <4>2. \A t \in Range(idle) : flash[t].log = <<>> =>
                                     t \in Range(idle') /\ flash'[t].log = <<>>
        <5>1. Range(idle) \subseteq Sector /\ dst \notin Range(idle)
          BY <1>3, InRange DEF StoreType, ListsOK
        <5> QED BY <1>2, <1>7, <5>1
      <4> QED BY <1>2, <3>1, <4>1, <4>2, FoundStaysPut
    <3>3. OthersOld'
      <4>1. op.k \notin lost =>
               /\ op.found => op.old # op.v
               /\ \A s \in Sector : \A i \in LiveAt(flash[s].log) :
                     Used(s) /\ It(s, i).key = op.k => op.found /\ It(s, i).val = op.old
        BY <1>2, <3>1 DEF OthersOld
      <4> QED BY <1>2, <1>7, <4>1 DEF OthersOld, It, SameItems
    <3> QED BY <3>2, <3>3
  <2> QED BY <2>1, <2>2
<1> QED BY <1>2, <1>12, <1>13, <1>14, <1>15, <1>16 DEF ContentInv, Programming, Started

-----------------------------------------------------------------------------
(* A call erases the item it replaced *)

LEMMA EraseOldContent ==
    ASSUME IInv, OrderInv, LayoutInv, ContentInv, StoreType', EraseOld
    PROVE  ContentInv'
<1>1. PICK c, n, d, a, x : /\ c = Cur /\ n = Len(flash[c].log)
                           /\ d = op.sec /\ a = op.at /\ x = SpanOf[op.old]
  OBVIOUS
<1>2. /\ StoreType /\ ControlType /\ ListsOK /\ Agree /\ FlashOrder
      /\ Twins /\ Unfinished /\ Hashed /\ FoundStays /\ OthersOld /\ Programming
      /\ pc = "eraseold" /\ pc' = "ready" /\ op' = NoOp /\ Calling
      /\ IF op.found THEN DropItem(d, a, x) ELSE UNCHANGED <<flash, ram>>
      /\ lost' = lost \union (IF op.found /\ ~ \E i \in LiveAt(flash[d].log) :
                                                  flash[d].log[i].at = a
                              THEN {op.k} ELSE {})
  BY <1>1 DEF IInv, TypeOK, OrderInv, ContentInv, EraseOld, Return, Calling
<1>3. c \in Sector /\ d \in Sector
  BY <1>1, <1>2, CurActive DEF ControlType
<1>4. Lessens /\ (op.found => \A i \in LiveAt(flash'[d].log) : flash[d].log[i].at # a)
  BY <1>2, <1>3, DropLessens, SameLessens
<1>5. ASSUME NEW s \in Sector, NEW t \in Sector,
             NEW i \in LiveAt(flash'[s].log), NEW j \in LiveAt(flash'[t].log),
             i \in LiveAt(flash[s].log), j \in LiveAt(flash[t].log),
             Used(s), Used(t), <<s, i>> # <<t, j>>, It(s, i).key = It(t, j).key,
             It(s, i).key \notin lost', Overwriting(s, i, t, j)
      PROVE  FALSE
  <2>1. t = c /\ j = n /\ ~ (s = c /\ i = n) /\ It(s, i).key \notin lost
    BY <1>1, <1>2, <1>5 DEF Overwriting
  <2>2. It(s, i).key = op.k
    BY <1>1, <1>2, <1>5, <2>1 DEF Programming, Programmed, Last, It
  <2>3. op.found
    BY <1>1, <1>2, <1>5, <2>1, <2>2 DEF OthersOld
  <2>4. PICK p \in LiveAt(flash[d].log) : flash[d].log[p].at = a
    BY <1>2, <1>5, <2>2, <2>3
  <2>5. PICK q \in LiveAt(flash[d].log) :
           /\ d \in Range(active) /\ It(d, q).at = a /\ It(d, q).key = op.k
           /\ d = c => q < n
    <3>1. flash[d].log # <<>>
      BY <2>4 DEF LiveAt
    <3> QED BY <1>1, <1>2, <2>3, <3>1 DEF FoundStays
  <2>6. Used(d)
    <3>1. flash[d].hdr # "erased"
      BY <1>2, <1>3, <2>5 DEF FlashOrder, LiveAt
    <3> QED BY <1>2, <1>3, <2>5, <3>1 DEF Agree
  <2>7. ~ (s = d /\ i = q)
    BY <1>4, <1>5, <2>3, <2>5 DEF It
  <2>8. ~ (d = c /\ q = n)
    <3>1. q \in Nat
      BY <1>2, <1>3, LiveItem
    <3> QED BY <1>1, <2>5, <3>1
  <2>9. Twin(s, i, d, q) \/ Twin(d, q, s, i)
    <3>1. <<s, i>> # <<d, q>>
      BY <2>7
    <3> QED BY <1>2, <1>3, <1>5, <2>1, <2>2, <2>5, <2>6, <3>1 DEF Twins
  <2> QED BY <1>1, <1>2, <2>1, <2>8, <2>9 DEF Twin, Copying, Overwriting
<1>6. Alone'
  <2> SUFFICES ASSUME NEW k \in Keys, k \notin lost', NEW s \in Sector, NEW t \in Sector,
                      NEW i \in LiveAt(flash'[s].log), NEW j \in LiveAt(flash'[t].log),
                      Used(s)', Used(t)', flash'[s].log[i].key = k, flash'[t].log[j].key = k,
                      ~ (s = t /\ i = j)
               PROVE  FALSE
    BY DEF Alone, LiveOnce, Used
  <2>1. /\ Used(s) /\ i \in LiveAt(flash[s].log) /\ It(s, i).key = k
        /\ Used(t) /\ j \in LiveAt(flash[t].log) /\ It(t, j).key = k
        /\ <<s, i>> # <<t, j>> /\ k \notin lost
    BY <1>2, <1>4 DEF Lessens, Inherits, It
  <2>2. Twin(s, i, t, j) \/ Twin(t, j, s, i)
    BY <1>2, <2>1 DEF Twins
  <2>3. Overwriting(s, i, t, j) \/ Overwriting(t, j, s, i)
    BY <1>2, <2>2 DEF Twin, Copying
  <2>4. <<t, j>> # <<s, i>>
    BY <2>1
  <2> QED BY <1>5, <2>1, <2>3, <2>4
<1>7. Twins'
  BY <1>6, AloneHasNoTwins
<1>8. Unfinished' /\ Hashed'
  BY <1>2, <1>4, QuietIsComplete, CompleteStays, HashedStays DEF Lessens
<1> QED BY <1>2, <1>7, <1>8, RestContent DEF Resting

-----------------------------------------------------------------------------
(* A start *)

LEMMA LoadItems ==
    ASSUME NEW f \in FlashSector
    PROVE  /\ LiveAt(LoadFlash(f).log) = LiveAt(f.log)
           /\ \A i \in LiveAt(f.log) : LoadFlash(f).log[i] = f.log[i]
           /\ LoadFlash(f).hdr = f.hdr /\ LoadFlash(f).sn = f.sn
           /\ IsUsed(LoadRam(f).st) <=> IsUsed(f.hdr)
           /\ IsUsed(LoadStatus(f)) <=> IsUsed(f.hdr)
           /\ IsUsed(LoadRam(f).st) =>
                 \A i \in LiveAt(f.log) : f.log[i].at \in LoadRam(f).hash
<1>1. /\ f.log \in Seq(Item) /\ \A i \in DOMAIN f.log : f.log[i] \in Item
      /\ DOMAIN f.log = 1 .. Len(f.log) /\ Len(f.log) \in Nat
  BY ItemNumbers DEF FlashSector
<1>2. /\ LoadFlash(f).hdr = f.hdr /\ LoadFlash(f).sn = f.sn
      /\ LoadRam(f).st = LoadStatus(f)
  BY LoadFlashType, LoadRamType
<1>3. IsUsed(LoadStatus(f)) <=> IsUsed(f.hdr)
  BY DEF LoadStatus, IsUsed, FlashSector, HeaderStatus
<1>4. /\ LiveAt(DropTorn(f.log)) = LiveAt(f.log)
      /\ \A i \in LiveAt(f.log) : DropTorn(f.log)[i] = f.log[i]
  <2>1. /\ DOMAIN DropTorn(f.log) = DOMAIN f.log
        /\ \A i \in DOMAIN f.log :
              /\ f.log[i].st # "torn" => DropTorn(f.log)[i] = f.log[i]
              /\ f.log[i].st = "torn" => DropTorn(f.log)[i].st = "droped"
    BY <1>1 DEF DropTorn, Item
  <2> QED BY <2>1 DEF LiveAt, IsLive
<1>5. LoadFlash(f).log \in {f.log, DropTorn(f.log)}
  BY DEF LoadFlash, FlashSector
<1>6. \A i \in LiveAt(f.log) : i \in LiveAt(Scanned(f)) /\ Scanned(f)[i] = f.log[i]
  <2>1. CASE LogEnd(f.log) \in f.stale
    <3>1. PICK e : Scanned(f) = Append(f.log, e)
      BY <2>1 DEF Scanned
    <3>2. f.log \in Seq(Item \union {e}) /\ e \in Item \union {e}
      BY <1>1, SeqMonotonic
    <3>3. /\ DOMAIN Append(f.log, e) = 1 .. Len(f.log) + 1
          /\ \A i \in 1 .. Len(f.log) : Append(f.log, e)[i] = f.log[i]
      BY <3>2
    <3> QED BY <1>1, <3>1, <3>3 DEF LiveAt
  <2>2. CASE LogEnd(f.log) \notin f.stale
    BY <2>2 DEF Scanned
  <2> QED BY <2>1, <2>2
<1>7. IsUsed(LoadRam(f).st) => \A i \in LiveAt(f.log) : f.log[i].at \in LoadRam(f).hash
  <2> SUFFICES ASSUME IsUsed(LoadRam(f).st), NEW i \in LiveAt(f.log)
               PROVE  f.log[i].at \in LoadRam(f).hash
    OBVIOUS
  <2>1. LoadRam(f).hash = {Scanned(f)[n].at : n \in LiveAt(Scanned(f))}
    BY <1>2 DEF LoadRam
  <2> QED BY <1>6, <2>1
<1> QED BY <1>2, <1>3, <1>4, <1>5, <1>7

LEMMA LoadContent ==
    ASSUME IInv, ContentInv, StoreType', Load
    PROVE  ContentInv'
<1> DEFINE used == {s \in Sector : IsUsed(LoadStatus(flash[s]))}
           fl   == [s \in Sector |-> LoadFlash(flash[s])]
           rm   == [s \in Sector |-> LoadRam(flash[s])]
<1>1. /\ StoreType /\ Twins /\ Unfinished /\ \A s \in Sector : flash[s] \in FlashSector
      /\ pc = "off" /\ pc' = "checkwrite" /\ UNCHANGED <<op, gc, lost>>
  BY DEF Load, IInv, TypeOK, ContentInv, StoreType
<1>2. PICK sorted \in InOrder(used, [s \in Sector |-> flash[s].sn]),
           rest \in InOrder(Sector \ used, [s \in Sector |-> 0]) :
         IF used # {}
         THEN flash' = fl /\ ram' = rm /\ active' = sorted
         ELSE LET s == Head(rest)
              IN  /\ flash' = IF LoadStatus(flash[s]) = "crash" THEN [fl EXCEPT ![s] = Blank] ELSE fl
                  /\ ram' = [rm EXCEPT ![s] = [Unloaded EXCEPT !.sn = 1]]
  BY DEF Load
<1>3. /\ \A s \in Sector : s \in used <=> Used(s)
      /\ \A s \in Sector : fl[s] = LoadFlash(flash[s]) /\ rm[s] = LoadRam(flash[s])
  BY <1>1, LoadItems DEF Used
<1>4. \A s \in Sector : Used(s)' =>
         /\ Used(s) /\ flash'[s].sn = flash[s].sn /\ flash'[s].hdr = flash[s].hdr
         /\ LiveAt(flash'[s].log) = LiveAt(flash[s].log)
         /\ \A i \in LiveAt(flash[s].log) : flash'[s].log[i] = flash[s].log[i]
  <2>1. CASE used # {}
    <3>1. flash' = fl
      BY <1>2, <2>1
    <3> QED BY <1>1, <1>3, <3>1, LoadItems DEF Used
  <2>2. CASE used = {}
    <3> SUFFICES ASSUME NEW s \in Sector PROVE ~ Used(s)'
      OBVIOUS
    <3>1. flash'[s] = Blank \/ flash'[s] = fl[s]
      BY <1>2, <2>2
    <3>2. fl[s].hdr = flash[s].hdr
      BY <1>1, <1>3, LoadItems
    <3> QED BY <1>3, <2>2, <3>1, <3>2 DEF Used, Blank, IsUsed
  <2> QED BY <2>1, <2>2
<1>5. \A s \in Sector : IsUsed(ram'[s].st) => ram'[s] = rm[s] /\ Used(s) /\ used # {}
  <2>1. CASE used # {}
    BY <1>1, <1>2, <1>3, <2>1, LoadItems DEF Used
  <2>2. CASE used = {}
    <3> SUFFICES ASSUME NEW s \in Sector PROVE ~ IsUsed(ram'[s].st)
      OBVIOUS
    <3>1. ram'[s] = [Unloaded EXCEPT !.sn = 1] \/ ram'[s] = rm[s]
      BY <1>2, <2>2
    <3>2. ~ IsUsed(rm[s].st)
      BY <1>1, <1>3, <2>2, LoadItems DEF Used
    <3> QED BY <3>1, <3>2 DEF Unloaded, IsUsed
  <2> QED BY <2>1, <2>2
<1>6. \A t \in Sector : Newest(t) => Newest(t)' \/ ~ Used(t)'
  <2> SUFFICES ASSUME NEW t \in Sector, Newest(t), Used(t)', NEW s \in Sector \ {t}, Used(s)'
               PROVE  Newer(t, s)'
    BY DEF Newest
  <2> QED BY <1>4 DEF Newest, Newer
<1>7. Twins'
  <2> SUFFICES ASSUME NEW s \in Sector, NEW t \in Sector,
                      NEW i \in LiveAt(flash'[s].log), NEW j \in LiveAt(flash'[t].log),
                      Used(s)', Used(t)', <<s, i>> # <<t, j>>,
                      flash'[s].log[i].key = flash'[t].log[j].key,
                      flash'[s].log[i].key \notin lost'
               PROVE  Twin(s, i, t, j)' \/ Twin(t, j, s, i)'
    BY DEF Twins, It
  <2>1. /\ i \in LiveAt(flash[s].log) /\ Used(s) /\ flash'[s].log[i] = It(s, i)
        /\ j \in LiveAt(flash[t].log) /\ Used(t) /\ flash'[t].log[j] = It(t, j)
    BY <1>4 DEF It
  <2>2. Twin(s, i, t, j) \/ Twin(t, j, s, i)
    BY <1>1, <2>1 DEF Twins
  <2>3. Copying(s, i, t, j) => Copying(s, i, t, j)'
    BY <1>1, <1>4, <1>6, <2>1 DEF Copying, It, IsDeleting
  <2>4. Copying(t, j, s, i) => Copying(t, j, s, i)'
    BY <1>1, <1>4, <1>6, <2>1 DEF Copying, It, IsDeleting
  <2>5. (\A d \in Sector : ~ IsDeleting(d)) => \A d \in Sector : ~ IsDeleting(d)'
    <3>1. \A d \in Sector : IsDeleting(d)' => Used(d)'
      BY DEF IsDeleting, Used, IsUsed
    <3> QED BY <1>4, <3>1 DEF IsDeleting
  <2>6. LastWritten(s, i) => LastWritten(s, i)'
    BY <1>4, <1>6 DEF LastWritten
  <2>7. LastWritten(t, j) => LastWritten(t, j)'
    BY <1>4, <1>6 DEF LastWritten
  <2>8. Overwriting(s, i, t, j) => Overwriting(s, i, t, j)'
    BY <1>1, <2>1, <2>5, <2>7 DEF Overwriting, It
  <2>9. Overwriting(t, j, s, i) => Overwriting(t, j, s, i)'
    BY <1>1, <2>1, <2>5, <2>6 DEF Overwriting, It
  <2> QED BY <2>2, <2>3, <2>4, <2>8, <2>9 DEF Twin
<1>8. Unfinished'
  <2> SUFFICES ASSUME NEW s \in Sector, NEW i \in LiveAt(flash'[s].log), Used(s)',
                      flash'[s].log[i].st = "nodata", flash'[s].log[i].key \notin lost'
               PROVE  LastWritten(s, i)'
    BY <1>1 DEF Unfinished, It
  <2>1. /\ i \in LiveAt(flash[s].log) /\ Used(s) /\ flash'[s].log[i] = It(s, i)
    BY <1>4 DEF It
  <2>2. LastWritten(s, i)
    BY <1>1, <2>1 DEF Unfinished, Halfway
  <2> QED BY <1>4, <1>6, <2>2 DEF LastWritten
<1>9. Hashed'
  <2> SUFFICES ASSUME NEW s \in Sector, IsUsed(ram'[s].st), NEW i \in LiveAt(flash'[s].log)
               PROVE  flash'[s].log[i].at \in ram'[s].hash
    BY DEF Hashed, It
  <2>1. ram'[s] = LoadRam(flash[s]) /\ used # {}
    BY <1>3, <1>5
  <2>2. flash'[s] = LoadFlash(flash[s])
    BY <1>2, <1>3, <2>1
  <2> QED BY <1>1, <2>1, <2>2, LoadItems
<1>10. Started'
  <2> SUFFICES ASSUME Fresh(Cur)', NEW s \in Sector, Used(s)' PROVE FALSE
    BY <1>1 DEF Started
  <2>1. used # {} /\ active' = sorted /\ ram' = rm
    BY <1>2, <1>3, <1>4
  <2>2. sorted \in Seq(Sector) /\ Range(sorted) = used
    <3>1. [u \in Sector |-> flash[u].sn] \in [Sector -> Nat]
      BY <1>1, SectorTypes
    <3>2. used \subseteq Sector
      OBVIOUS
    <3> HIDE DEF used
    <3> QED BY <3>1, <3>2, InOrderLists
  <2>3. PICK c : c = Last(sorted)
    OBVIOUS
  <2>4. c \in used /\ c \in Sector /\ Cur' = c
    BY <2>1, <2>2, <2>3, InRange DEF Cur
  <2>5. IsUsed(ram'[c].st)
    BY <1>1, <1>3, <2>1, <2>4, LoadItems DEF Used
  <2> QED BY <2>4, <2>5 DEF Fresh, IsUsed
<1> QED BY <1>1, <1>7, <1>8, <1>9, <1>10
        DEF ContentInv, Programming, CopiedSafely, FoundStays, OthersOld, Calling, InGc

-----------------------------------------------------------------------------
(* Power failure *)

LEMMA HeaderTornItems ==
    ASSUME NEW f \in FlashSector, NEW it \in Item, NEW g \in HeaderTorn(f, it)
    PROVE  /\ LiveAt(g.log) = LiveAt(f.log)
           /\ \A i \in LiveAt(f.log) : g.log[i] = f.log[i]
<1>1. CASE g = f
  BY <1>1
<1>2. CASE g # f
  <2>1. PICK sp \in {it.span, LostSpan} :
          g = [f EXCEPT !.log = Append(@, [HeaderWritten(f, it) EXCEPT
                                     !.st = IF @ = "droped" THEN @ ELSE "torn",
                                     !.span = sp])]
    BY <1>2 DEF HeaderTorn
  <2>2. PICK x : x = [HeaderWritten(f, it) EXCEPT !.st = IF @ = "droped" THEN @ ELSE "torn",
                                                   !.span = sp]
    OBVIOUS
  <2>3. sp \in Nat
    BY SlicesAssumption DEF LostSpan, Item
  <2>4. x \in Item /\ x.st \in {"droped", "torn"}
    BY <2>2, <2>3, HeaderWrittenType DEF Item, ItemStatus
  <2>5. g.log = Append(f.log, x) /\ f.log \in Seq(Item)
    BY <2>1, <2>2 DEF FlashSector
  <2>6. PICK n : n = Len(f.log)
    OBVIOUS
  <2>7. /\ n \in Nat /\ DOMAIN f.log = 1 .. n /\ DOMAIN g.log = 1 .. (n + 1)
        /\ g.log[n + 1] = x /\ \A i \in 1 .. n : g.log[i] = f.log[i]
    BY <2>4, <2>5, <2>6
  <2>8. ~ IsLive(g.log[n + 1])
    BY <2>4, <2>7 DEF IsLive
  <2>9. \A i \in 1 .. n + 1 : i = n + 1 \/ i \in 1 .. n
    BY <2>7
  <2>10. 1 .. n \subseteq 1 .. n + 1
    BY <2>7
  <2> QED BY <2>7, <2>8, <2>9, <2>10 DEF LiveAt
<1> QED BY <1>1, <1>2

\* Power failure takes no live item away, and makes none.
LEMMA TornItems ==
    ASSUME IInv, OrderInv, PowerOff
    PROVE  \A t \in Sector :
             /\ Used(t)' <=> Used(t)
             /\ IsDeleting(t)' <=> IsDeleting(t)
             /\ flash'[t].sn = flash[t].sn
             /\ LiveAt(flash'[t].log) = LiveAt(flash[t].log)
             /\ \A i \in LiveAt(flash[t].log) : flash'[t].log[i] = flash[t].log[i]
<1> DEFINE Same(t) == /\ flash'[t].hdr = flash[t].hdr \/ (~ Used(t) /\ flash'[t].hdr = "crash")
                      /\ flash'[t].sn = flash[t].sn
                      /\ LiveAt(flash'[t].log) = LiveAt(flash[t].log)
                      /\ \A i \in LiveAt(flash[t].log) : flash'[t].log[i] = flash[t].log[i]
<1> SUFFICES \A t \in Sector : Same(t)
  BY DEF Used, IsUsed, IsDeleting
<1>1. /\ StoreType /\ ControlType /\ ListsOK /\ Agree /\ Collecting
      /\ pc # "off" /\ flash' \in Torn /\ (Calling => OpSet) /\ (InGc => GcSet)
      /\ flash \in [Sector -> FlashSector]
  BY DEF PowerOff, IInv, TypeOK, OrderInv, StoreType
<1>2. Cur \in Sector /\ Cur \in Range(active)
  BY <1>1, CurActive
<1>3. ASSUME flash' = flash PROVE \A t \in Sector : Same(t)
  BY <1>3
<1>4. ASSUME NEW s \in Sector, Fresh(s), flash' = [flash EXCEPT ![s].hdr = "crash"]
      PROVE  \A t \in Sector : Same(t)
  <2>1. ~ Used(s)
    BY <1>1, <1>4 DEF Agree, Used, IsUsed
  <2>2. \A t \in Sector : /\ flash'[t].sn = flash[t].sn /\ flash'[t].log = flash[t].log
                          /\ IF t = s THEN flash'[t].hdr = "crash"
                                      ELSE flash'[t].hdr = flash[t].hdr
    BY <1>1, <1>4 DEF FlashSector
  <2> QED BY <2>1, <2>2
<1>5. ASSUME NEW it \in Item, NEW f \in HeaderTorn(flash[Cur], it), flash' = [flash EXCEPT ![Cur] = f]
      PROVE  \A t \in Sector : Same(t)
  <2>1. flash[Cur] \in FlashSector
    BY <1>1, <1>2
  <2>2. /\ f.hdr = flash[Cur].hdr /\ f.sn = flash[Cur].sn
        /\ LiveAt(f.log) = LiveAt(flash[Cur].log)
        /\ \A i \in LiveAt(flash[Cur].log) : f.log[i] = flash[Cur].log[i]
    BY <2>1, HeaderTornType, HeaderTornItems
  <2>3. flash'[Cur] = f /\ \A t \in Sector \ {Cur} : flash'[t] = flash[t]
    BY <1>1, <1>2, <1>5
  <2> QED BY <2>2, <2>3
<1> HIDE DEF Same
<1>6. CASE pc = "write" /\ ram[Cur].st = "uninit"
  <2>1. flash' \in {flash, [flash EXCEPT ![Cur].hdr = "crash"]}
    BY <1>1, <1>6 DEF Torn, CanWrite
  <2> QED BY <1>2, <1>3, <1>4, <1>6, <2>1 DEF Fresh, Same
<1>7. CASE CanWrite
  <2>1. NewItem(ram[Cur].next, op.k, op.v) \in Item
    <3>1. ram[Cur].next \in Nat
      BY <1>1, <1>2 DEF StoreType, RamSector
    <3>2. op.k \in Keys /\ op.v \in Values
      BY <1>1, <1>7 DEF CanWrite, Calling, OpSet
    <3> QED BY <3>1, <3>2, NewItemType
  <2>2. PICK f \in HeaderTorn(flash[Cur], NewItem(ram[Cur].next, op.k, op.v)) :
           flash' = [flash EXCEPT ![Cur] = f]
    BY <1>1, <1>7 DEF Torn, CanWrite
  <2> QED BY <1>5, <2>1, <2>2
<1>8. CASE pc = "gcinit"
  <2>1. gc.dst = Cur /\ Fresh(Cur)
    BY <1>1, <1>8 DEF Collecting, InGc
  <2>2. flash' \in {flash, [flash EXCEPT ![Cur].hdr = "crash"]}
    BY <1>1, <1>8, <2>1 DEF Torn, CanWrite
  <2> QED BY <1>2, <1>3, <1>4, <2>1, <2>2 DEF Same
<1>9. CASE pc = "gccopy" /\ ToCopy # {}
  <2>1. gc.dst = Cur /\ Copied \in Item
    BY <1>1, <1>9, CopiedType DEF Collecting, InGc
  <2>2. PICK f \in HeaderTorn(flash[Cur], Copied) : flash' = [flash EXCEPT ![Cur] = f]
    BY <1>1, <1>9, <2>1 DEF Torn, CanWrite
  <2> QED BY <1>5, <2>1, <2>2
<1>10. CASE ~ (pc = "write" /\ ram[Cur].st = "uninit") /\ ~ CanWrite /\ pc # "gcinit"
            /\ ~ (pc = "gccopy" /\ ToCopy # {})
  <2>1. flash' = flash
    BY <1>1, <1>10 DEF Torn
  <2> QED BY <1>3, <2>1 DEF Same
<1> QED BY <1>6, <1>7, <1>8, <1>9, <1>10

\* Power failing while an item is written leaves it the last of the newest sector, where
\* the next start looks for it.
LEMMA CutNewest ==
    ASSUME IInv, OrderInv, ContentInv, pc \in {"data", "eraseold"}, ~ ReserveIsNewest,
           NEW c, c = Cur, NEW j, j = Len(flash[c].log)
    PROVE  /\ c \in Sector /\ LastWritten(c, j)
           /\ \A d \in Sector : ~ IsDeleting(d)
<1>1. StoreType /\ ListsOK /\ ListOrder /\ Placing /\ Headers
  BY DEF IInv, TypeOK, OrderInv
<1>2. \A s \in Range(idle) : ~ Used(s)
  BY DEF ReserveIsNewest, Used
<1>3. c \in Sector /\ Newest(c)
  BY <1>1, <1>2, CurIsTheNewest DEF Placing
<1>4. \A d \in Sector : ~ IsDeleting(d)
  BY <1>1 DEF Headers
<1>5. \A n \in LiveAt(flash[c].log) : n <= j
  BY <1>1, <1>3, LiveItem
<1> QED BY <1>3, <1>4, <1>5 DEF LastWritten

LEMMA PowerOffContent ==
    ASSUME IInv, OrderInv, LayoutInv, ContentInv, PowerOff
    PROVE  ContentInv'
<1>1. /\ StoreType /\ Programming /\ OthersOld /\ Twins /\ Unfinished
      /\ pc # "off" /\ pc' = "off" /\ op' = op /\ lost \subseteq lost'
      /\ ram' = [s \in Sector |-> Unloaded]
      /\ \/ pc = "eraseold" /\ op.found /\ (TypeOf[op.old] # TypeOf[op.v] \/ ReserveIsNewest)
         \/ pc = "data" /\ ReserveIsNewest
         => op.k \in lost'
  BY DEF PowerOff, IInv, TypeOK, ContentInv
<1>2. \A t \in Sector :
        /\ Used(t)' <=> Used(t)
        /\ IsDeleting(t)' <=> IsDeleting(t)
        /\ flash'[t].sn = flash[t].sn
        /\ LiveAt(flash'[t].log) = LiveAt(flash[t].log)
        /\ \A i \in LiveAt(flash[t].log) : flash'[t].log[i] = flash[t].log[i]
  BY TornItems
<1>3. \A t \in Sector : Newest(t) => Newest(t)'
  BY <1>2 DEF Newest, Newer
<1>4. ASSUME NEW t \in Sector, NEW j, LastWritten(t, j) PROVE LastWritten(t, j)'
  BY <1>2, <1>3, <1>4 DEF LastWritten
<1>5. ASSUME NEW t \in Sector, NEW j \in LiveAt(flash[t].log), Programmed(t, op.k, op.v),
             j = Len(flash[t].log)
      PROVE  It(t, j).key = op.k /\ It(t, j).val = op.v
  BY <1>5 DEF Programmed, It, Last
<1>6. ASSUME NEW s \in Sector, NEW t \in Sector,
             NEW i \in LiveAt(flash[s].log), NEW j \in LiveAt(flash[t].log),
             Used(s), Used(t), <<s, i>> # <<t, j>>, It(s, i).key = It(t, j).key,
             It(s, i).key \notin lost', Overwriting(s, i, t, j)
      PROVE  Overwriting(s, i, t, j)'
  <2>1. It(s, i)' = It(s, i) /\ It(t, j)' = It(t, j)
    BY <1>2 DEF It
  <2>2. (\A d \in Sector : ~ IsDeleting(d)) => \A d \in Sector : ~ IsDeleting(d)'
    BY <1>2
  <2>3. CASE pc = "checkwrite"
    <3>1. /\ LastWritten(t, j) /\ \A d \in Sector : ~ IsDeleting(d)
          /\ It(t, j).st = "using" => /\ TypeOf[It(s, i).val] = TypeOf[It(t, j).val]
                                      /\ It(t, j).key = op.k /\ It(t, j).val = op.v
      BY <1>6, <2>3 DEF Overwriting
    <3> QED BY <1>1, <1>4, <2>1, <2>2, <3>1 DEF Overwriting
  <2>4. CASE pc \in {"data", "eraseold"}
    <3>1. t = Cur /\ j = Len(flash[t].log)
      BY <1>1, <1>6, <2>4 DEF Overwriting
    <3>2. Programmed(t, op.k, op.v)
      BY <1>1, <2>4, <3>1 DEF Programming
    <3>3. It(t, j).key = op.k /\ It(t, j).val = op.v /\ op.k \notin lost' /\ op.k \notin lost
      BY <1>1, <1>5, <1>6, <3>1, <3>2
    <3>4. It(t, j).st = IF pc = "eraseold" THEN "using" ELSE "nodata"
      BY <3>1, <3>2, <3>3 DEF Programmed, It, Last
    <3>5. op.found /\ It(s, i).val = op.old
      BY <1>1, <1>6, <2>4, <3>1, <3>3 DEF OthersOld, Calling
    <3>6. ~ ReserveIsNewest
      BY <1>1, <2>4, <3>3, <3>5
    <3>7. LastWritten(t, j) /\ \A d \in Sector : ~ IsDeleting(d)
      BY <2>4, <3>1, <3>6, CutNewest
    <3>8. It(t, j).st = "using" => TypeOf[It(s, i).val] = TypeOf[It(t, j).val]
      BY <1>1, <2>4, <3>3, <3>4, <3>5
    <3> QED BY <1>1, <1>4, <2>1, <2>2, <3>3, <3>7, <3>8 DEF Overwriting
  <2> QED BY <1>1, <1>6, <2>3, <2>4 DEF Overwriting
<1>7. Twins'
  <2> SUFFICES ASSUME NEW s \in Sector, NEW t \in Sector,
                      NEW i \in LiveAt(flash'[s].log), NEW j \in LiveAt(flash'[t].log),
                      Used(s)', Used(t)', <<s, i>> # <<t, j>>,
                      flash'[s].log[i].key = flash'[t].log[j].key,
                      flash'[s].log[i].key \notin lost'
               PROVE  Twin(s, i, t, j)' \/ Twin(t, j, s, i)'
    BY DEF Twins, It
  <2>1. /\ i \in LiveAt(flash[s].log) /\ Used(s) /\ flash'[s].log[i] = It(s, i)
        /\ j \in LiveAt(flash[t].log) /\ Used(t) /\ flash'[t].log[j] = It(t, j)
    BY <1>2 DEF It
  <2>2. Twin(s, i, t, j) \/ Twin(t, j, s, i)
    BY <1>1, <2>1 DEF Twins
  <2>3. Copying(s, i, t, j) => Copying(s, i, t, j)'
    BY <1>1, <1>2, <1>3, <2>1 DEF Copying, It
  <2>4. Copying(t, j, s, i) => Copying(t, j, s, i)'
    BY <1>1, <1>2, <1>3, <2>1 DEF Copying, It
  <2>5. Overwriting(s, i, t, j) => Overwriting(s, i, t, j)'
    BY <1>6, <2>1
  <2>6. Overwriting(t, j, s, i) => Overwriting(t, j, s, i)'
    BY <1>6, <2>1
  <2> QED BY <2>2, <2>3, <2>4, <2>5, <2>6 DEF Twin
<1>8. Unfinished'
  <2> SUFFICES ASSUME NEW s \in Sector, NEW i \in LiveAt(flash'[s].log), Used(s)',
                      flash'[s].log[i].st = "nodata", flash'[s].log[i].key \notin lost'
               PROVE  LastWritten(s, i)'
    BY <1>1 DEF Unfinished, It
  <2>1. /\ i \in LiveAt(flash[s].log) /\ Used(s) /\ flash'[s].log[i] = It(s, i)
    BY <1>2 DEF It
  <2>2. Halfway(s, i) \/ LastWritten(s, i)
    BY <1>1, <2>1 DEF Unfinished
  <2>3. CASE pc = "data" /\ s = Cur /\ i = Len(flash[s].log)
    <3>1. It(s, i).key = op.k
      BY <1>1, <1>5, <2>1, <2>3 DEF Programming
    <3>2. ~ ReserveIsNewest
      BY <1>1, <2>1, <2>3, <3>1
    <3> QED BY <1>4, <2>3, <3>2, CutNewest
  <2>4. CASE pc = "gcdata" /\ s = gc.dst /\ i = Len(flash[s].log)
    <3>1. Newest(s)
      BY <2>4, CopyStands
    <3>2. \A n \in LiveAt(flash[s].log) : n <= i
      BY <1>1, <2>4, LiveItem
    <3> QED BY <1>4, <3>1, <3>2 DEF LastWritten
  <2> QED BY <1>4, <2>2, <2>3, <2>4 DEF Halfway
<1>9. Hashed'
  BY <1>1 DEF Hashed, Unloaded, IsUsed
<1> QED BY <1>1, <1>7, <1>8, <1>9, RestContent

-----------------------------------------------------------------------------
(* The specification *)

LEMMA InitContent ==
    ASSUME Init
    PROVE  ContentInv
<1>1. /\ pc = "off" /\ op = NoOp
      /\ \A s \in Sector : ~ Used(s) /\ ~ IsUsed(ram[s].st)
  BY DEF Init, Used, IsUsed, Blank, Unloaded
<1> QED BY <1>1 DEF ContentInv, Twins, Unfinished, Hashed, Programming, CopiedSafely, FoundStays,
                    OthersOld, Started, Calling, InGc

LEMMA StepContent ==
    ASSUME IInv, OrderInv, LayoutInv, ContentInv, IInv', [Next]_vars
    PROVE  ContentInv'
<1>1. StoreType'
  BY DEF IInv, TypeOK
<1>2. CASE UNCHANGED vars
  BY <1>2, StutterContent
<1>3. CASE Unload \/ PowerOff
  BY <1>1, <1>3, UnloadContent, PowerOffContent
<1>4. CASE Call
  <2>1. ASSUME NEW k, NEW t, Get(k, t) PROVE ContentInv'
    BY <2>1, StutterContent DEF Get
  <2> QED BY <1>1, <1>4, <2>1, SetSameContent, SetBeginContent, DeleteContent DEF Call
<1>5. CASE WriteInit \/ WriteTooLong \/ WriteItem \/ WriteItemData \/ WriteFull \/ EraseOld
  BY <1>1, <1>5, WriteInitContent, ReturnContent, WriteItemContent, WriteItemDataContent,
     EraseOldContent
<1>6. CASE RequestIdle \/ RequestNoSpace \/ GcStart \/ GcInit \/ GcMark
  BY <1>1, <1>6, ActivateContent, ReturnContent, GcInitContent, GcMarkContent
<1>7. CASE GcCopy \/ GcCopyData \/ GcCrash \/ GcErase
  BY <1>1, <1>7, GcCopyContent, GcCopyDataContent, GcCrashContent, GcEraseContent
<1>8. CASE Load \/ CheckWriteNothing \/ CheckWriteData \/ CheckWriteOld
  BY <1>1, <1>8, LoadContent, CheckWriteNothingContent, CheckWriteDataContent,
     CheckWriteOldContent
<1>9. CASE CheckGcNothing \/ CheckGcWipe \/ CheckGcErase \/ CheckGcKeep \/ CheckGcStart
           \/ LoadFinish
  BY <1>1, <1>9, CheckGcContent, CheckGcWipeContent, CheckGcEraseContent, CheckGcStartContent,
     LoadFinishContent
<1> QED BY <1>2, <1>3, <1>4, <1>5, <1>6, <1>7, <1>8, <1>9 DEF Next, Step

\* Whatever the code is doing, and wherever power failed: two live items of a key are an
\* item and its copy, or an item and the one that replaces it.
THEOREM ContentHolds == Spec => []ContentInv
<1>1. Init => ContentInv
  BY InitContent
<1>2. IInv /\ OrderInv /\ LayoutInv /\ ContentInv /\ IInv' /\ [Next]_vars => ContentInv'
  BY StepContent
<1> QED BY <1>1, <1>2, InvariantHolds, OrderHolds, LayoutHolds, PTL DEF Spec

\* Between calls a key has one live item in the partition, whatever power failures and
\* collections came before, unless one of the hazards has struck it.
THEOREM NoKeyTwice == Spec => []OneLiveItem
<1>1. IInv /\ ContentInv => OneLiveItem
  BY QuietIsAlone DEF OneLiveItem, Idle, Quiet, Alone, IInv, TypeOK, ContentInv
<1> QED BY <1>1, InvariantHolds, ContentHolds, PTL

-----------------------------------------------------------------------------
(* Lookups *)

\* The one complete item of a key is what a restart would find.
LEMMA LookupOfOne ==
    ASSUME StoreType, NEW k, NEW s \in Sector, NEW i \in Nat, Readable(k) = {<<s, i>>}
    PROVE  Lookup(k) = It(s, i).val
<1>1. LoadedBefore(<<s, i>>, <<s, i>>)
  BY DEF LoadedBefore
<1>2. Foremost(k) = {<<s, i>>}
  BY <1>1 DEF Foremost
<1>3. (CHOOSE c \in Foremost(k) : TRUE) = <<s, i>>
  BY <1>2
<1> QED BY <1>2, <1>3 DEF Lookup, It

LEMMA LookupOfNone ==
    ASSUME NEW k, Readable(k) = {}
    PROVE  Lookup(k) = NoValue
BY DEF Lookup, Foremost

LEMMA ReadableIs ==
    ASSUME NEW k
    PROVE  \A c : c \in Readable(k) <=>
              \E s \in Sector : \E i \in LiveAt(flash[s].log) :
                  c = <<s, i>> /\ Used(s) /\ It(s, i).key = k /\ It(s, i).st = "using"
BY DEF Readable, Used, It, LiveAt, IsLive

LEMMA RamAgrees ==
    ASSUME IInv, OrderInv, ContentInv, pc = "ready", NEW k \in Keys \ lost,
           NEW f, f = FindItem(k, Types)
    PROVE  Lookup(k) = IF f.found THEN FoundItem(f).val ELSE NoValue
<1>1. /\ StoreType /\ ListsOK /\ Agree /\ Hashed /\ Unfinished
      /\ Range(active) \subseteq Sector
  BY DEF IInv, TypeOK, OrderInv, ContentInv, ListsOK
<1>2. Alone /\ Complete
  BY <1>1, QuietIsAlone, QuietIsComplete DEF ContentInv, Quiet
<1>3. CASE f.found
  <2>1. PICK s, i : s = f.sec /\ i = f.i
    OBVIOUS
  <2>2. /\ s \in Sector /\ s \in Range(active) /\ FoundItem(f) = It(s, i)
        /\ i \in Matches(flash[s], ram[s], k, Types)
    BY <1>1, <1>3, <2>1, FindItemFinds
  <2>3. i \in LiveAt(flash[s].log) /\ It(s, i).key = k /\ IsUsed(ram[s].st)
    BY <2>2 DEF Matches, It
  <2>4. Used(s)
    BY <1>1, <2>2, <2>3 DEF Agree, Used
  <2>5. i \in Nat /\ It(s, i).st = "using"
    BY <1>1, <1>2, <2>2, <2>3, <2>4, LiveItem DEF Complete
  <2>6. ASSUME NEW t \in Sector, NEW j \in LiveAt(flash[t].log), Used(t), It(t, j).key = k
        PROVE  t = s /\ j = i
    BY <1>1, <1>2, <2>2, <2>3, <2>4, <2>6, AloneIs
  <2>7. Readable(k) = {<<s, i>>}
    BY <2>2, <2>3, <2>4, <2>5, <2>6, ReadableIs
  <2> QED BY <1>1, <1>3, <2>2, <2>5, <2>7, LookupOfOne
<1>4. CASE ~ f.found
  <2>1. ASSUME NEW s \in Sector, NEW i \in LiveAt(flash[s].log), Used(s), It(s, i).key = k
        PROVE  FALSE
    <3>1. s \in Range(active) /\ i \in Matches(flash[s], ram[s], k, Types)
      BY <1>1, <2>1, LiveIsSeen
    <3> QED BY <1>1, <1>4, <3>1, FindItemFinds
  <2>2. Readable(k) = {}
    BY <2>1, ReadableIs
  <2> QED BY <1>4, <2>2, LookupOfNone
<1> QED BY <1>3, <1>4

\* Between calls the lookup through lists and hash tables answers what a restart would
\* answer from flash.
THEOREM LookupsAgree == Spec => []RamAgreesWithFlash
<1>1. IInv /\ OrderInv /\ ContentInv => RamAgreesWithFlash
  BY RamAgrees DEF RamAgreesWithFlash, Idle
<1> QED BY <1>1, InvariantHolds, OrderHolds, ContentHolds, PTL

-----------------------------------------------------------------------------
(* Giving up a sector *)

KeptInUse == \A s \in Sector : Used(s) => Used(s)'

\* The copies of what sector s holds.
Spared(s) ==
    \A i \in LiveAt(flash[s].log) :
        flash[s].log[i].key \in lost' \/ flash[s].log[i].st = "nodata" \/
        \E t \in Sector \ {s} : \E j \in LiveAt(flash'[t].log) :
              /\ IsUsed(flash'[t].hdr)
              /\ flash'[t].log[j].key = flash[s].log[i].key
              /\ flash'[t].log[j].val = flash[s].log[i].val

SparesAll == \A s \in Sector : IsUsed(flash[s].hdr) /\ ~ IsUsed(flash'[s].hdr) => Spared(s)

LEMMA SameHeadersKept ==
    ASSUME \A t \in Sector : flash'[t].hdr = flash[t].hdr
    PROVE  KeptInUse
BY DEF KeptInUse, Used

LEMMA ItemsKeepHeaders ==
    ASSUME IInv, OrderInv, \/ WriteItem \/ WriteItemData \/ GcCopy \/ GcCopyData \/ EraseOld
                           \/ (\E k \in Keys : Delete(k)) \/ CheckWriteData \/ CheckWriteOld
    PROVE  \A t \in Sector : flash'[t].hdr = flash[t].hdr
<1>1. /\ StoreType /\ ControlType /\ ListsOK
      /\ Range(active) \subseteq Sector /\ gc.dst \in Sector /\ op.sec \in Sector
  <2>1. pc # "off"
    BY DEF WriteItem, CanWrite, WriteItemData, GcCopy, GcCopyData, EraseOld, Delete,
           CheckWriteData, CheckWriteOld
  <2> QED BY <2>1 DEF IInv, TypeOK, ListsOK, ControlType
<1>2. Cur \in Sector
  BY <1>1, CurActive
<1>3. CASE WriteItem
  <2>1. PICK it : WriteHeader(Cur, it) /\ (UNCHANGED ram \/ Account(Cur, it))
    BY <1>3 DEF WriteItem
  <2> QED BY <1>1, <1>2, <2>1, ProgramFrame DEF SameHeaders
<1>4. CASE GcCopy
  <2>1. PICK it : WriteHeader(gc.dst, it) /\ (UNCHANGED ram \/ Account(gc.dst, it))
    BY <1>4 DEF GcCopy
  <2> QED BY <1>1, <2>1, ProgramFrame DEF SameHeaders
<1>5. CASE WriteItemData \/ GcCopyData
  <2>1. PICK s \in Sector : WriteData(s)
    BY <1>1, <1>2, <1>5 DEF WriteItemData, GcCopyData
  <2> QED BY <1>1, <2>1, DataFrame DEF SameHeaders
<1>6. CASE EraseOld \/ (\E k \in Keys : Delete(k)) \/ CheckWriteData \/ CheckWriteOld
  <2>1. \/ UNCHANGED flash
        \/ \E s \in Sector : \E at, span : DropItem(s, at, span)
    <3>1. CASE EraseOld
      BY <1>1, <3>1 DEF EraseOld
    <3>2. CASE \E k \in Keys : Delete(k)
      <4>1. PICK k \in Keys : Delete(k)
        BY <3>2
      <4>2. PICK f : f = FindItem(k, Types)
        OBVIOUS
      <4>3. f.sec \in Sector /\ DropItem(f.sec, FoundItem(f).at, FoundItem(f).span)
        BY <1>1, <4>1, <4>2, FindItemType DEF Delete
      <4> QED BY <4>3
    <3>3. CASE CheckWriteData
      BY <1>2, <3>3 DEF CheckWriteData
    <3>4. CASE CheckWriteOld
      <4>1. PICK o \in OldCopies :
              DropItem(o.sec, flash[o.sec].log[o.i].at, flash[o.sec].log[o.i].span)
        BY <3>4 DEF CheckWriteOld
      <4>2. \E n \in DOMAIN active : o.sec = active[n]
        BY DEF OldCopies
      <4> QED BY <1>1, <4>1, <4>2 DEF StoreType
    <3> QED BY <1>6, <3>1, <3>2, <3>3, <3>4
  <2>2. CASE UNCHANGED flash
    BY <2>2
  <2>3. ASSUME NEW s \in Sector, NEW at, NEW span, DropItem(s, at, span)
      PROVE  \A t \in Sector : flash'[t].hdr = flash[t].hdr
    BY <1>1, <2>3, DropFrame DEF SameHeaders
  <2> QED BY <2>1, <2>2, <2>3
<1> QED BY <1>3, <1>4, <1>5, <1>6

LEMMA SectorsKeepHeaders ==
    ASSUME IInv, OrderInv, \/ WriteInit \/ GcInit \/ GcMark \/ RequestIdle \/ GcStart
                           \/ CheckGcStart \/ GcErase \/ CheckGcErase
    PROVE  KeptInUse
<1>1. /\ StoreType /\ ControlType /\ ListsOK /\ Agree /\ Collecting /\ Recovering
      /\ flash \in [Sector -> FlashSector]
  BY DEF IInv, TypeOK, OrderInv, StoreType, WriteInit, GcInit, GcMark, RequestIdle, GcStart,
         CheckGcStart, GcErase, CheckGcErase, NeedSector
<1>2. Cur \in Sector /\ gc.src \in Sector /\ gc.dst \in Sector
  BY <1>1, CurActive DEF ControlType
<1>3. CASE WriteInit \/ GcInit \/ GcMark
  <2>1. PICK s \in Sector : InitSector(s) \/ SetState(s, "deleting")
    BY <1>2, <1>3 DEF WriteInit, GcInit, GcMark
  <2>2. ASSUME NEW t \in Sector
        PROVE  flash'[t].hdr = flash[t].hdr \/ flash'[t].hdr \in {"using", "deleting"}
    <3>1. flash \in [Sector -> FlashSector] /\ flash[t] \in FlashSector
      BY <1>1 DEF StoreType
    <3>2. CASE InitSector(s)
      BY <3>1, <3>2 DEF InitSector, FlashSector
    <3>3. CASE SetState(s, "deleting")
      BY <3>1, <3>3 DEF SetState, FlashSector
    <3> QED BY <2>1, <3>2, <3>3
  <2> QED BY <2>2 DEF KeptInUse, Used, IsUsed
<1>4. CASE RequestIdle \/ GcStart \/ CheckGcStart
  <2>1. Activate /\ idle # <<>>
    BY <1>4 DEF RequestIdle, GcStart, CheckGcStart
  <2>2. PICK s : s = Head(idle)
    OBVIOUS
  <2>3. /\ s \in Sector
        /\ flash' = IF ram[s].st = "crash" THEN [flash EXCEPT ![s] = Blank] ELSE flash
    BY <1>1, <2>1, <2>2, ActivateKeeps DEF Activate
  <2>4. ram[s].st = "crash" => ~ Used(s)
    BY <1>1, <2>3 DEF Agree, Used, IsUsed
  <2> QED BY <1>1, <2>3, <2>4 DEF KeptInUse, Used
<1>5. CASE GcErase \/ CheckGcErase
  <2>1. PICK s \in Sector : EraseToIdle(s) /\ ~ Used(s)
    <3>1. CASE GcErase
      BY <1>1, <1>2, <3>1 DEF GcErase, Collecting, Used, IsUsed
    <3>2. CASE CheckGcErase
      <4>1. ram[Cur].st = "crash" /\ EraseToIdle(Cur)
        BY <1>1, <3>2 DEF CheckGcErase, Recovering
      <4>2. ~ Used(Cur)
        BY <1>1, <1>2, <4>1 DEF Agree, Used, IsUsed
      <4> QED BY <1>2, <4>1, <4>2
    <3> QED BY <1>5, <3>1, <3>2
  <2>2. \A t \in Sector \ {s} : flash'[t] = flash[t]
    BY <1>1, <2>1 DEF EraseToIdle
  <2> QED BY <2>1, <2>2 DEF KeptInUse, Used
<1> QED BY <1>3, <1>4, <1>5

LEMMA LoadKeepsHeaders ==
    ASSUME IInv, Load
    PROVE  KeptInUse
<1> DEFINE used == {s \in Sector : IsUsed(LoadStatus(flash[s]))}
           fl   == [s \in Sector |-> LoadFlash(flash[s])]
<1>1. StoreType /\ \A s \in Sector : flash[s] \in FlashSector
  BY DEF IInv, TypeOK, StoreType
<1>2. used # {} => flash' = fl
  BY DEF Load
<1>3. \A s \in Sector : (s \in used <=> Used(s)) /\ fl[s].hdr = flash[s].hdr
  BY <1>1, LoadItems DEF Used
<1> QED BY <1>2, <1>3 DEF KeptInUse, Used

\* Only collection and its recovery give a sector up.
LEMMA StepKeepsHeaders ==
    ASSUME IInv, OrderInv, [Next]_vars, ~ GcCrash, ~ CheckGcWipe
    PROVE  KeptInUse
<1>1. CASE UNCHANGED vars
  BY <1>1, SameHeadersKept DEF vars
<1>2. CASE PowerOff
  BY <1>2, TornItems DEF KeptInUse
<1>3. CASE \/ Unload \/ WriteTooLong \/ WriteFull \/ RequestNoSpace
           \/ CheckWriteNothing \/ CheckGcNothing \/ CheckGcKeep \/ LoadFinish
  BY <1>3, SameHeadersKept DEF Unload, WriteTooLong, WriteFull, RequestNoSpace,
       CheckWriteNothing, CheckGcNothing, CheckGcKeep, LoadFinish
<1>4. CASE Call
  <2>1. ASSUME NEW k, NEW v, SetSame(k, v) \/ SetBegin(k, v) \/ Get(k, v) PROVE KeptInUse
    BY <2>1, SameHeadersKept DEF SetSame, SetBegin, Get, vars
  <2> QED BY <1>4, <2>1, ItemsKeepHeaders, SameHeadersKept DEF Call
<1>5. CASE \/ WriteItem \/ WriteItemData \/ GcCopy \/ GcCopyData \/ EraseOld
           \/ CheckWriteData \/ CheckWriteOld
  BY <1>5, ItemsKeepHeaders, SameHeadersKept
<1> QED BY <1>1, <1>2, <1>3, <1>4, <1>5, SectorsKeepHeaders, LoadKeepsHeaders DEF Next, Step

LEMMA GcCrashSpares ==
    ASSUME IInv, OrderInv, LayoutInv, ContentInv, GcCrash
    PROVE  SparesAll
<1>1. PICK src, dst : src = gc.src /\ dst = gc.dst
  OBVIOUS
<1>2. /\ pc = "gccopy" /\ ToCopy = {} /\ SetState(src, "crash") /\ CopiedSafely
      /\ lost' = lost
  BY <1>1 DEF GcCrash, ContentInv
<1>3. /\ StoreType /\ src \in Sector /\ dst \in Sector /\ src # dst /\ gc.i \in Nat
      /\ Used(dst)
  BY <1>1, <1>2, CopyStands
<1>4. \A t \in Sector \ {src} : flash'[t] = flash[t]
  BY <1>2, <1>3, StateFrame
<1>5. Spared(src)
  <2> SUFFICES ASSUME NEW i \in LiveAt(flash[src].log), flash[src].log[i].key \notin lost'
               PROVE  \E j \in LiveAt(flash[dst].log) :
                          /\ flash[dst].log[j].key = flash[src].log[i].key
                          /\ flash[dst].log[j].val = flash[src].log[i].val
    BY <1>3, <1>4 DEF Spared, Used
  <2>1. i < gc.i
    BY <1>1, <1>2, <1>3, LiveItem DEF ToCopy
  <2> QED BY <1>1, <1>2, <2>1 DEF CopiedSafely, It
<1> QED BY <1>3, <1>4, <1>5 DEF SparesAll

LEMMA CheckGcWipeSpares ==
    ASSUME IInv, OrderInv, CheckGcWipe
    PROVE  SparesAll
<1>1. PICK c, d : c = Cur /\ d = active[LeastOf(Deleting)]
  OBVIOUS
<1>2. /\ StoreType /\ ListsOK /\ Agree /\ pc = "checkgc" /\ Deleting # {}
      /\ ram[c].st = "using" /\ SetState(c, "crash")
      /\ \A i \in LiveAt(flash[c].log) :
            \/ flash[c].log[i].key \in lost'
            \/ \E j \in LiveAt(flash[d].log) : /\ flash[d].log[j].key = flash[c].log[i].key
                                               /\ flash[d].log[j].val = flash[c].log[i].val
  BY <1>1 DEF IInv, TypeOK, OrderInv, CheckGcWipe
<1>3. c \in Sector
  BY <1>1, <1>2, CurActive
<1>4. d \in Sector /\ ram[d].st = "deleting"
  <2>1. Deleting \subseteq Nat /\ \A n \in DOMAIN active : active[n] \in Sector
    BY <1>2 DEF Deleting, StoreType
  <2>2. LeastOf(Deleting) \in Deleting
    BY <1>2, <2>1, LeastOfIsLeast
  <2> QED BY <1>1, <2>1, <2>2 DEF Deleting
<1>5. d # c /\ Used(d)
  BY <1>2, <1>4 DEF Agree, Used, IsUsed
<1>6. \A t \in Sector \ {c} : flash'[t] = flash[t]
  BY <1>2, <1>3, StateFrame
<1>7. Spared(c)
  BY <1>2, <1>4, <1>5, <1>6 DEF Spared, Used
<1> QED BY <1>3, <1>6, <1>7 DEF SparesAll

LEMMA StepSpares ==
    ASSUME IInv, OrderInv, LayoutInv, ContentInv, [Next]_vars
    PROVE  SparesAll
<1>1. CASE ~ GcCrash /\ ~ CheckGcWipe
  BY <1>1, StepKeepsHeaders DEF KeptInUse, SparesAll, Used
<1> QED BY <1>1, GcCrashSpares, CheckGcWipeSpares

\* A sector is given up only when each of its live items has a live copy elsewhere, or its
\* key was hit by a hazard, or power failed before the item was complete.
THEOREM NothingIsErasedAlive == Spec => NothingErasedAlive
<1>1. IInv /\ OrderInv /\ LayoutInv /\ ContentInv /\ [Next]_vars => [SparesAll]_vars
  BY StepSpares
<1>2. (Spec => [][SparesAll]_vars) => (Spec => NothingErasedAlive)
  BY DEF SparesAll, Spared, NothingErasedAlive
<1> QED BY <1>1, <1>2, InvariantHolds, OrderHolds, LayoutHolds, ContentHolds, PTL DEF Spec

-----------------------------------------------------------------------------
(* What is read *)


\* Of the complete items of a key there is a first one: by serial number, by address and
\* by place.
LEMMA SomeIsForemost ==
    StoreType => \A k : Readable(k) # {} => Foremost(k) # {}
<1> SUFFICES ASSUME StoreType, NEW k, Readable(k) # {} PROVE Foremost(k) # {}
  OBVIOUS
<1>1. \A c : c \in Readable(k) <=> \E s \in Sector : \E i \in LiveAt(flash[s].log) :
                  c = <<s, i>> /\ Used(s) /\ It(s, i).key = k /\ It(s, i).st = "using"
  BY ReadableIs
<1>2. PICK R : R = Readable(k)
  OBVIOUS
<1>3. PICK sn : sn = [s \in Sector |-> flash[s].sn]
  OBVIOUS
<1>4. /\ sn \in [Sector -> Nat] /\ Sector \subseteq Nat
      /\ \A c \in R : c = <<c[1], c[2]>> /\ c[1] \in Sector /\ c[2] \in Nat
  <2>1. \A s \in Sector : flash[s].sn \in Nat
    BY SectorTypes
  <2>2. ASSUME NEW c \in R PROVE c = <<c[1], c[2]>> /\ c[1] \in Sector /\ c[2] \in Nat
    <3>1. PICK s \in Sector : \E i \in LiveAt(flash[s].log) : c = <<s, i>>
      BY <1>1, <1>2
    <3>2. PICK i \in LiveAt(flash[s].log) : c = <<s, i>>
      BY <3>1
    <3>3. i \in Nat
      BY LiveItem
    <3> QED BY <3>2, <3>3
  <2>3. Sector \subseteq Nat
    BY SecNumAssumption DEF Sector
  <2> QED BY <1>3, <2>1, <2>2, <2>3
<1>5. PICK n : n \in {sn[c[1]] : c \in R} /\ \A m \in {sn[c[1]] : c \in R} : n <= m
  <2>1. {sn[c[1]] : c \in R} \subseteq Nat /\ {sn[c[1]] : c \in R} # {}
    BY <1>2, <1>4
  <2> QED BY <2>1, LeastExists
<1>6. PICK s : /\ s \in {c[1] : c \in {d \in R : sn[d[1]] = n}}
               /\ \A t \in {c[1] : c \in {d \in R : sn[d[1]] = n}} : s <= t
  <2>1. /\ {c[1] : c \in {d \in R : sn[d[1]] = n}} \subseteq Nat
        /\ {c[1] : c \in {d \in R : sn[d[1]] = n}} # {}
    BY <1>4, <1>5
  <2> QED BY <2>1, LeastExists
<1>7. PICK i : /\ i \in {c[2] : c \in {d \in R : d[1] = s}}
               /\ \A j \in {c[2] : c \in {d \in R : d[1] = s}} : i <= j
  <2>1. /\ {c[2] : c \in {d \in R : d[1] = s}} \subseteq Nat
        /\ {c[2] : c \in {d \in R : d[1] = s}} # {}
    BY <1>4, <1>6
  <2> QED BY <2>1, LeastExists
<1>8. PICK c \in R : c[1] = s /\ c[2] = i
  BY <1>7
<1>9. sn[s] = n /\ s \in Sector /\ n \in Nat
  BY <1>4, <1>6
<1>10. ASSUME NEW d \in R PROVE LoadedBefore(c, d)
  <2>1. n <= sn[d[1]] /\ sn[d[1]] \in Nat /\ d[1] \in Nat /\ s \in Nat
    BY <1>4, <1>5, <1>9
  <2>2. sn[d[1]] = n => s <= d[1]
    BY <1>6
  <2>3. d[1] = s => i <= d[2]
    BY <1>7
  <2>4. flash[c[1]].sn = n /\ flash[d[1]].sn = sn[d[1]]
    BY <1>3, <1>4, <1>8, <1>9
  <2> QED BY <1>8, <1>9, <2>1, <2>2, <2>3, <2>4 DEF LoadedBefore
<1>11. c \in Foremost(k)
  BY <1>2, <1>10 DEF Foremost
<1> QED BY <1>11

\* The complete items of key k all have value v, and there is one.
OneValue(k, v) ==
    Readable(k) # {} /\ \A c \in Readable(k) : flash[c[1]].log[c[2]].val = v

OneValueRead == \A k, v : OneValue(k, v) => Lookup(k) = v

LEMMA OneValueIsRead ==
    StoreType => OneValueRead
<1> SUFFICES ASSUME StoreType, NEW k, NEW v, OneValue(k, v) PROVE Lookup(k) = v
  BY DEF OneValueRead
<1>1. Foremost(k) # {} /\ Foremost(k) \subseteq Readable(k)
  BY SomeIsForemost DEF Foremost, OneValue
<1> QED BY <1>1 DEF Lookup, OneValue

LEMMA OneValueIsReadNext ==
    StoreType' => OneValueRead'
BY OneValueIsRead, PTL

LEMMA ReadsNext ==
    ASSUME StoreType', NEW k, NEW v, OneValue(k, v)'
    PROVE  Lookup(k)' = v
BY OneValueIsReadNext DEF OneValueRead

LEMMA NothingIsReadNext ==
    ASSUME NEW k, Readable(k)' = {}
    PROVE  Lookup(k)' = NoValue
BY DEF Lookup, Foremost

-----------------------------------------------------------------------------
(* Steps after which a key reads as before *)

\* (s, i) is a complete item of key k in a sector in use.
Reads(k, s, i) ==
    /\ Used(s) /\ i \in LiveAt(flash[s].log)
    /\ flash[s].log[i].key = k /\ flash[s].log[i].st = "using"

\* The complete items of key k are the same, with the same values and in the same order.
SameReads(k) ==
    \A s \in Sector : \A i :
        /\ Reads(k, s, i)' <=> Reads(k, s, i)
        /\ Reads(k, s, i) => /\ flash'[s].sn = flash[s].sn
                             /\ flash'[s].log[i].val = flash[s].log[i].val

LEMMA ReadableAre ==
    ASSUME NEW k
    PROVE  /\ \A c : c \in Readable(k) <=> \E s \in Sector : \E i : c = <<s, i>> /\ Reads(k, s, i)
           /\ \A c : c \in Readable(k)' <=> \E s \in Sector : \E i : c = <<s, i>> /\ Reads(k, s, i)'
BY DEF Readable, Reads, Used, LiveAt, IsLive

LEMMA SameReadsLookUp ==
    ASSUME NEW k, SameReads(k)
    PROVE  Lookup(k)' = Lookup(k)
<1>1. \A c : c \in Readable(k)' <=> c \in Readable(k)
  BY ReadableAre DEF SameReads
<1>2. PICK R : R = Readable(k)
  OBVIOUS
<1>3. Readable(k)' = R
  BY <1>1, <1>2
<1>4. ASSUME NEW c \in R
      PROVE  /\ c[1] \in Sector /\ flash'[c[1]].sn = flash[c[1]].sn
             /\ flash'[c[1]].log[c[2]].val = flash[c[1]].log[c[2]].val
  <2>1. PICK s \in Sector : \E i : c = <<s, i>> /\ Reads(k, s, i)
    BY <1>2, <1>4, ReadableAre
  <2>2. PICK i : c = <<s, i>> /\ Reads(k, s, i)
    BY <2>1
  <2> QED BY <2>2 DEF SameReads
<1>5. ASSUME NEW c \in R, NEW d \in R PROVE LoadedBefore(c, d)' <=> LoadedBefore(c, d)
  BY <1>4 DEF LoadedBefore
<1>6. PICK F : F = Foremost(k)
  OBVIOUS
<1>7. Foremost(k)' = F /\ F \subseteq R
  BY <1>2, <1>3, <1>5, <1>6 DEF Foremost
<1>8. CASE F = {}
  BY <1>6, <1>7, <1>8 DEF Lookup
<1>9. CASE F # {}
  <2>1. PICK c : c = CHOOSE d \in F : TRUE
    OBVIOUS
  <2>2. c \in R
    BY <1>7, <1>9, <2>1
  <2>3. Lookup(k) = flash[c[1]].log[c[2]].val
    BY <1>6, <1>9, <2>1 DEF Lookup
  <2>4. Lookup(k)' = flash'[c[1]].log[c[2]].val
    BY <1>7, <1>9, <2>1 DEF Lookup
  <2> QED BY <1>4, <2>2, <2>3, <2>4
<1> QED BY <1>8, <1>9

\* A sector holds the same live items, or held none and holds none.
Unread(t) ==
    \/ /\ Used(t)' <=> Used(t)
       /\ flash'[t].sn = flash[t].sn
       /\ LiveAt(flash'[t].log) = LiveAt(flash[t].log)
       /\ \A i \in LiveAt(flash[t].log) : flash'[t].log[i] = flash[t].log[i]
    \/ /\ Used(t) => flash[t].log = <<>>
       /\ Used(t)' => flash'[t].log = <<>>

LEMMA UnreadLookUp ==
    ASSUME \A t \in Sector : Unread(t), NEW k
    PROVE  Lookup(k)' = Lookup(k)
<1>1. SameReads(k)
  <2> SUFFICES ASSUME NEW s \in Sector, NEW i
               PROVE  /\ Reads(k, s, i)' <=> Reads(k, s, i)
                      /\ Reads(k, s, i) => /\ flash'[s].sn = flash[s].sn
                                           /\ flash'[s].log[i].val = flash[s].log[i].val
    BY DEF SameReads
  <2>1. Unread(s)
    OBVIOUS
  <2>2. LiveAt(<<>>) = {}
    BY DEF LiveAt
  <2> QED BY <2>1, <2>2 DEF Unread, Reads
<1> QED BY <1>1, SameReadsLookUp

-----------------------------------------------------------------------------
(* Steps of the promise *)

\* Until power fails calls go on being served.
LEMMA CallsGoOn ==
    ASSUME ControlType, Step \/ Call, Serving
    PROVE  /\ Serving'
           /\ lost \subseteq lost'
<1>1. gc \in [src : Sector, dst : Sector, i : Nat, d : Nat, rec : BOOLEAN]
  BY DEF ControlType
<1>2. CASE \/ WriteInit \/ WriteTooLong \/ WriteItem \/ WriteItemData \/ WriteFull \/ EraseOld
           \/ RequestNoSpace
  BY <1>2 DEF WriteInit, WriteTooLong, WriteItem, CanWrite, WriteItemData, WriteFull, EraseOld,
              RequestNoSpace, NeedSector, Return, loaded, Serving
<1>3. CASE RequestIdle
  BY <1>3 DEF RequestIdle, NeedSector, Serving, ControlType
<1>4. CASE GcStart
  BY <1>4 DEF GcStart, NeedSector, Serving, ControlType
<1>5. CASE GcInit \/ GcMark \/ GcCrash
  BY <1>5 DEF GcInit, GcMark, GcCrash, Serving
<1>6. CASE GcCopy \/ GcCopyData
  BY <1>1, <1>6 DEF GcCopy, GcCopyData, Serving
<1>7. CASE GcErase
  BY <1>7 DEF GcErase, Serving
<1>8. CASE Call
  BY <1>8 DEF Call, SetSame, SetBegin, Delete, Get, vars, loaded, Serving
<1>9. ~ (\/ Load \/ CheckWriteNothing \/ CheckWriteData \/ CheckWriteOld \/ CheckGcNothing
         \/ CheckGcWipe \/ CheckGcErase \/ CheckGcKeep \/ CheckGcStart \/ LoadFinish)
  BY DEF Serving, Load, CheckWriteNothing, CheckWriteData, CheckWriteOld, CheckGcNothing,
         CheckGcWipe, CheckGcErase, CheckGcKeep, CheckGcStart, LoadFinish
<1> QED BY <1>2, <1>3, <1>4, <1>5, <1>6, <1>7, <1>8, <1>9 DEF Step

PromiseStep == [Promise!KVNext]_(Promise!kvars)

\* No key is read otherwise, but those that a hazard strikes.
Keeps == lost \subseteq lost' /\ \A k \in Keys \ lost' : Lookup(k)' = Lookup(k)

\* The set call being served has taken effect.
TakesEffect ==
    /\ op.k \in Keys /\ lost \subseteq lost'
    /\ \A k \in Keys \ lost' : Lookup(k)' = IF k = op.k THEN op.v ELSE Lookup(k)

SameRequest == op'.k = op.k /\ op'.v = op.v /\ (Serving' <=> Serving) /\ res' = res

LEMMA LoseStep ==
    ASSUME Keeps, SameRequest
    PROVE  PromiseStep
<1>1. CASE lost' = lost
  BY <1>1 DEF PromiseStep, Promise!kvars, Keeps, SameRequest
<1>2. CASE lost' # lost
  <2>1. Promise!Lose
    BY <1>2 DEF Promise!Lose, Promise!Covered, Keeps, SameRequest
  <2> QED BY <2>1 DEF PromiseStep, Promise!KVNext
<1> QED BY <1>1, <1>2

LEMMA CommitStep ==
    ASSUME TakesEffect, SameRequest
    PROVE  PromiseStep
<1>1. Promise!Commit
  BY NoValueAssumption
     DEF Promise!Commit, Promise!Covered, Promise!Applied, Promise!NoReq, TakesEffect, SameRequest
<1> QED BY <1>1 DEF PromiseStep, Promise!KVNext

LEMMA ReturnStep ==
    ASSUME TakesEffect, Serving, Serving', op' = NoOp, res' = "ok"
    PROVE  PromiseStep
<1>1. op.k # NoValue
  BY NoValueAssumption DEF TakesEffect
<1>2. Promise!Covered(Promise!Applied)
  BY <1>1 DEF Promise!Covered, Promise!Applied, Promise!NoReq, TakesEffect
<1>3. Promise!ReturnOk
  BY <1>1, <1>2 DEF Promise!ReturnOk, Promise!NoReq, TakesEffect, NoOp
<1> QED BY <1>3 DEF PromiseStep, Promise!KVNext

LEMMA FailStep ==
    ASSUME Keeps, ~ Serving', op'.k = op.k, op'.v = op.v, res' = res
    PROVE  PromiseStep
<1>1. Promise!Fail
  BY DEF Promise!Fail, Promise!Covered, Keeps
<1> QED BY <1>1 DEF PromiseStep, Promise!KVNext

LEMMA StartStep ==
    ASSUME Keeps, lost' = lost, ~ Serving, Serving', op' = NoOp, res' = res
    PROVE  PromiseStep
<1>1. Promise!Start
  BY DEF Promise!Start, Promise!NoReq, Keeps, NoOp
<1> QED BY <1>1 DEF PromiseStep, Promise!KVNext

-----------------------------------------------------------------------------
(* Steps that leave what is read alone *)

LEMMA QuietStep ==
    ASSUME \A t \in Sector : Unread(t), lost' = lost, SameRequest
    PROVE  PromiseStep
<1>1. Keeps
  BY UnreadLookUp DEF Keeps
<1> QED BY <1>1, LoseStep

LEMMA SameFlashUnread ==
    ASSUME flash' = flash
    PROVE  \A t \in Sector : Unread(t)
BY DEF Unread, Used

LEMMA CheckSteps ==
    ASSUME \/ CheckWriteNothing \/ CheckGcNothing \/ CheckGcKeep
    PROVE  PromiseStep
<1>1. flash' = flash /\ lost' = lost /\ SameRequest
  BY DEF CheckWriteNothing, CheckGcNothing, CheckGcKeep, SameRequest, Serving
<1> QED BY <1>1, SameFlashUnread, QuietStep

LEMMA HeaderSteps ==
    ASSUME IInv, OrderInv, WriteInit \/ GcInit \/ GcMark
    PROVE  PromiseStep
<1>1. /\ StoreType /\ ControlType /\ ListsOK /\ Agree /\ FlashOrder /\ Collecting
      /\ lost' = lost /\ SameRequest
  BY DEF IInv, TypeOK, OrderInv, WriteInit, GcInit, GcMark, SameRequest, Serving
<1>2. Cur \in Sector /\ gc.src \in Sector /\ gc.dst \in Sector
  BY <1>1, CurActive DEF ControlType
<1>3. CASE WriteInit \/ GcInit
  <2>1. PICK s \in Sector : InitSector(s) /\ Fresh(s)
    BY <1>1, <1>2, <1>3 DEF WriteInit, GcInit, Collecting, Fresh
  <2>2. /\ ~ Used(s) /\ flash[s].log = <<>> /\ flash'[s].log = flash[s].log
        /\ \A t \in Sector \ {s} : flash'[t] = flash[t]
    BY <1>1, <2>1, InitLessens
  <2>3. \A t \in Sector : Unread(t)
    BY <2>2 DEF Unread, Used
  <2> QED BY <1>1, <2>3, QuietStep
<1>4. CASE GcMark
  <2>1. PICK s : s = gc.src
    OBVIOUS
  <2>2. SetState(s, "deleting") /\ s \in Sector /\ InGc /\ GcSet /\ gc.src # gc.dst
    BY <1>2, <1>4, <2>1 DEF GcMark, InGc, IInv, GcSet
  <2>3. Used(s)
    BY <1>1, <1>4, <2>1, <2>2 DEF GcMark, Agree, Collecting, GcSet, InGc, Fresh, Used, IsUsed
  <2>4. /\ flash'[s].hdr = "deleting"
        /\ \A t \in Sector : flash'[t].sn = flash[t].sn /\ flash'[t].log = flash[t].log
        /\ \A t \in Sector \ {s} : flash'[t] = flash[t]
    BY <1>1, <2>2, StateFrame
  <2>5. \A t \in Sector : Unread(t)
    BY <2>3, <2>4 DEF Unread, Used, IsUsed
  <2> QED BY <1>1, <2>5, QuietStep
<1> QED BY <1>3, <1>4

LEMMA TakeSteps ==
    ASSUME IInv, OrderInv, RequestIdle \/ GcStart \/ CheckGcStart
    PROVE  PromiseStep
<1>1. /\ StoreType /\ ControlType /\ ListsOK /\ Agree
      /\ idle # <<>> /\ Activate /\ lost' = lost
  BY DEF IInv, TypeOK, OrderInv, RequestIdle, GcStart, CheckGcStart, NeedSector
<1>2. SameRequest
  BY <1>1 DEF RequestIdle, GcStart, CheckGcStart, NeedSector, SameRequest, Serving, ControlType
<1>3. PICK s : s = Head(idle)
  OBVIOUS
<1>4. /\ s \in Sector /\ \A t \in Sector \ {s} : flash'[t] = flash[t]
      /\ flash' = IF ram[s].st = "crash" THEN [flash EXCEPT ![s] = Blank] ELSE flash
  BY <1>1, <1>3, ActivateLessens DEF Activate
<1>5. Unread(s)
  <2>1. CASE ram[s].st = "crash"
    <3>1. ~ Used(s)
      BY <1>1, <1>4, <2>1 DEF Agree, Used, IsUsed
    <3>2. flash'[s] = Blank
      BY <1>1, <1>4, <2>1 DEF StoreType
    <3> QED BY <3>1, <3>2 DEF Unread, Blank
  <2>2. CASE ram[s].st # "crash"
    BY <1>4, <2>2 DEF Unread, Used
  <2> QED BY <2>1, <2>2
<1>6. \A t \in Sector : Unread(t)
  BY <1>4, <1>5 DEF Unread, Used
<1> QED BY <1>1, <1>2, <1>6, QuietStep

LEMMA EraseSteps ==
    ASSUME IInv, OrderInv, GcErase \/ CheckGcErase
    PROVE  PromiseStep
<1>1. /\ StoreType /\ ControlType /\ ListsOK /\ Agree /\ Collecting /\ Recovering /\ lost' = lost
  BY DEF IInv, TypeOK, OrderInv, GcErase, CheckGcErase
<1>2. SameRequest
  BY DEF GcErase, CheckGcErase, SameRequest, Serving
<1>3. Cur \in Sector /\ gc.src \in Sector
  BY <1>1, CurActive DEF ControlType
<1>4. PICK s \in Sector : EraseToIdle(s) /\ ~ Used(s)
  <2>1. CASE GcErase
    BY <1>1, <1>3, <2>1 DEF GcErase, Collecting, Used, IsUsed
  <2>2. CASE CheckGcErase
    <3>1. ram[Cur].st = "crash" /\ EraseToIdle(Cur)
      BY <1>1, <2>2 DEF CheckGcErase, Recovering
    <3>2. ~ Used(Cur)
      BY <1>1, <1>3, <3>1 DEF Agree, Used, IsUsed
    <3> QED BY <1>3, <3>1, <3>2
  <2> QED BY <2>1, <2>2
<1>5. flash'[s].log = <<>> /\ \A t \in Sector \ {s} : flash'[t] = flash[t]
  BY <1>1, <1>4, EraseLessens
<1>6. \A t \in Sector : Unread(t)
  BY <1>4, <1>5 DEF Unread, Used
<1> QED BY <1>1, <1>2, <1>6, QuietStep

LEMMA LoadStep ==
    ASSUME IInv, Load
    PROVE  PromiseStep
<1> DEFINE used == {s \in Sector : IsUsed(LoadStatus(flash[s]))}
           fl   == [s \in Sector |-> LoadFlash(flash[s])]
<1>1. /\ StoreType /\ \A s \in Sector : flash[s] \in FlashSector
      /\ lost' = lost /\ SameRequest
  BY DEF IInv, TypeOK, StoreType, Load, SameRequest, Serving
<1>2. /\ used # {} => flash' = fl
      /\ used = {} => \E s : flash' = fl \/ flash' = [fl EXCEPT ![s] = Blank]
  BY DEF Load
<1>3. \A s \in Sector :
         /\ s \in used <=> Used(s)
         /\ LiveAt(fl[s].log) = LiveAt(flash[s].log)
         /\ \A i \in LiveAt(flash[s].log) : fl[s].log[i] = flash[s].log[i]
         /\ fl[s].hdr = flash[s].hdr /\ fl[s].sn = flash[s].sn
  BY <1>1, LoadItems DEF Used
<1>4. \A t \in Sector : Unread(t)
  <2>1. CASE flash' = fl
    BY <1>3, <2>1 DEF Unread, Used
  <2>2. CASE used = {}
    <3> SUFFICES ASSUME NEW t \in Sector PROVE ~ Used(t) /\ ~ Used(t)'
      BY DEF Unread
    <3>1. flash'[t] = Blank \/ flash'[t] = fl[t]
      BY <1>2, <2>2
    <3> QED BY <1>3, <2>2, <3>1 DEF Used, Blank, IsUsed
  <2> QED BY <1>2, <2>1, <2>2
<1> QED BY <1>1, <1>4, QuietStep

LEMMA FailSteps ==
    ASSUME IInv, OrderInv, Unload \/ PowerOff
    PROVE  PromiseStep
<1>1. /\ ~ Serving' /\ op'.k = op.k /\ op'.v = op.v /\ res' = res /\ lost \subseteq lost'
  BY DEF Unload, PowerOff, Serving
<1>2. \A t \in Sector : Unread(t)
  <2>1. CASE Unload
    BY <2>1, SameFlashUnread DEF Unload
  <2>2. CASE PowerOff
    BY <2>2, TornItems DEF Unread
  <2> QED BY <2>1, <2>2
<1>3. Keeps
  BY <1>1, <1>2, UnreadLookUp DEF Keeps
<1> QED BY <1>1, <1>3, FailStep

LEMMA LoadFinishStep ==
    ASSUME LoadFinish
    PROVE  PromiseStep
<1>1. /\ flash' = flash /\ lost' = lost /\ ~ Serving /\ Serving' /\ op' = NoOp /\ res' = res
  BY DEF LoadFinish, Serving
<1>2. Keeps
  BY <1>1, SameFlashUnread, UnreadLookUp DEF Keeps
<1> QED BY <1>1, <1>2, StartStep

-----------------------------------------------------------------------------
(* One value of a key *)

\* Unless a set call is between its two items, or was when power failed, the complete
\* items of a key agree, so each of them is what the key reads.
Agreeing ==
    pc \notin {"data", "eraseold", "off", "checkwrite"} =>
        \A k \in Keys \ lost : \A s \in Sector : \A i :
            Reads(k, s, i) => Lookup(k) = flash[s].log[i].val

LEMMA ItemsAgree ==
    StoreType /\ ContentInv => Agreeing
<1> SUFFICES ASSUME StoreType, ContentInv, pc \notin {"data", "eraseold", "off", "checkwrite"},
                    NEW k \in Keys \ lost, NEW s \in Sector, NEW i, Reads(k, s, i)
             PROVE  Lookup(k) = flash[s].log[i].val
  BY DEF Agreeing
<1>1. PICK v : v = flash[s].log[i].val
  OBVIOUS
<1>2. ASSUME NEW t \in Sector, NEW j, Reads(k, t, j) PROVE flash[t].log[j].val = v
  <2>1. CASE s = t /\ i = j
    BY <1>1, <2>1
  <2>2. CASE ~ (s = t /\ i = j)
    <3>1. <<s, i>> # <<t, j>>
      BY <2>2
    <3>2. Twin(s, i, t, j) \/ Twin(t, j, s, i)
      BY <1>2, <3>1 DEF ContentInv, Twins, Reads, It
    <3> QED BY <1>1, <3>2 DEF Twin, Copying, Overwriting, It
  <2> QED BY <2>1, <2>2
<1>3. \A c \in Readable(k) : flash[c[1]].log[c[2]].val = v
  BY <1>2, ReadableAre
<1>4. <<s, i>> \in Readable(k)
  BY ReadableAre
<1>5. OneValue(k, v)
  BY <1>3, <1>4 DEF OneValue
<1> QED BY <1>1, <1>5, OneValueIsRead DEF OneValueRead

LEMMA ItemsAgreeNext ==
    StoreType' /\ ContentInv' => Agreeing'
BY ItemsAgree, PTL

\* What a key reads is the value of one of its items, and nothing if it has none.
ReadsItsItems ==
    \A k : \/ Lookup(k) = NoValue /\ \A s \in Sector : \A i : ~ Reads(k, s, i)
           \/ \E s \in Sector : \E i : Reads(k, s, i) /\ Lookup(k) = flash[s].log[i].val

LEMMA LookupAmong ==
    StoreType => ReadsItsItems
<1> SUFFICES ASSUME StoreType, NEW k
             PROVE  \/ Lookup(k) = NoValue /\ \A s \in Sector : \A i : ~ Reads(k, s, i)
                    \/ \E s \in Sector : \E i : Reads(k, s, i) /\ Lookup(k) = flash[s].log[i].val
  BY DEF ReadsItsItems
<1>1. CASE Foremost(k) = {}
  <2>1. Readable(k) = {}
    BY <1>1, SomeIsForemost
  <2> QED BY <1>1, <2>1, ReadableAre DEF Lookup
<1>2. CASE Foremost(k) # {}
  <2>1. PICK c \in Foremost(k) : Lookup(k) = flash[c[1]].log[c[2]].val
    BY <1>2 DEF Lookup
  <2>2. c \in Readable(k)
    BY DEF Foremost
  <2>3. PICK s \in Sector : \E i : c = <<s, i>> /\ Reads(k, s, i)
    BY <2>2, ReadableAre
  <2>4. PICK i : c = <<s, i>> /\ Reads(k, s, i)
    BY <2>3
  <2> QED BY <2>1, <2>4
<1> QED BY <1>1, <1>2

LEMMA LookupAmongNext ==
    StoreType' => ReadsItsItems'
BY LookupAmong, PTL

-----------------------------------------------------------------------------
(* Steps that drop an item *)

LEMMA DropReads ==
    ASSUME StoreType, NEW s \in Sector, NEW at, NEW span, DropItem(s, at, span),
           NEW k, \A i : Reads(k, s, i) => flash[s].log[i].at # at
    PROVE  SameReads(k)
<1>1. /\ \A t \in Sector : (Used(t)' <=> Used(t)) /\ flash'[t].sn = flash[t].sn
      /\ \A t \in Sector \ {s} : flash'[t] = flash[t]
      /\ \A i : i \in LiveAt(flash'[s].log) <=>
                   i \in LiveAt(flash[s].log) /\ flash[s].log[i].at # at
      /\ \A i \in LiveAt(flash'[s].log) : flash'[s].log[i] = flash[s].log[i]
  BY DropLessens
<1>2. ASSUME NEW t \in Sector, NEW i
      PROVE  /\ Reads(k, t, i)' <=> Reads(k, t, i)
             /\ Reads(k, t, i) => /\ flash'[t].sn = flash[t].sn
                                  /\ flash'[t].log[i].val = flash[t].log[i].val
  <2>1. CASE t = s
    BY <1>1, <2>1 DEF Reads
  <2>2. CASE t # s
    BY <1>1, <2>2 DEF Reads
  <2> QED BY <2>1, <2>2
<1> QED BY <1>2 DEF SameReads

\* Only the key of the item that is dropped.
LEMMA DropOthers ==
    ASSUME StoreType, NEW s \in Sector, Packed(flash[s].log), NEW at, NEW span,
           DropItem(s, at, span), NEW p \in LiveAt(flash[s].log), flash[s].log[p].at = at,
           NEW k, flash[s].log[p].key # k \/ flash[s].log[p].st # "using"
    PROVE  Lookup(k)' = Lookup(k)
<1>1. ASSUME NEW i, Reads(k, s, i), flash[s].log[i].at = at PROVE FALSE
  <2>1. i \in DOMAIN flash[s].log /\ p \in DOMAIN flash[s].log
    BY <1>1 DEF Reads, LiveAt
  <2>2. i = p
    BY <1>1, <2>1, PlacesDiffer DEF It
  <2> QED BY <1>1, <2>2 DEF Reads
<1> QED BY <1>1, DropReads, SameReadsLookUp

-----------------------------------------------------------------------------
(* Calls begin and return *)

\* The map that the promise is about.
Map == [k \in Keys |-> IF k \in lost THEN NoValue ELSE Lookup(k)]

LEMMA SameMap ==
    ASSUME flash' = flash, lost' = lost
    PROVE  Map' = Map
<1>1. \A k : Lookup(k)' = Lookup(k)
  BY SameFlashUnread, UnreadLookUp
<1> QED BY <1>1 DEF Map

LEMMA SetSameStep ==
    ASSUME IInv, OrderInv, ContentInv, NEW k \in Keys, NEW v \in Values, SetSame(k, v)
    PROVE  PromiseStep
<1>1. /\ pc = "ready" /\ op = NoOp /\ res' = "ok"
      /\ flash' = flash /\ lost' = lost /\ op' = op /\ pc' = pc /\ gc' = gc
  BY DEF SetSame, ContentInv, Started
<1>2. k \in lost \/ Lookup(k) = v
  BY <1>1, RamAgrees DEF SetSame
<1>3. Map' = Map
  BY <1>1, SameMap
<1>4. Promise!SetNothing(k, v)
  BY <1>1, <1>2, <1>3 DEF Promise!SetNothing, Promise!NoReq, Map, Serving, NoOp
<1> QED BY <1>4 DEF PromiseStep, Promise!KVNext

\* A set that has something to do is of a value that its key does not read.
LEMMA SetBeginDiffers ==
    ASSUME IInv, OrderInv, ContentInv, NEW k \in Keys, NEW v \in Values, SetBegin(k, v)
    PROVE  k \in lost \/ Lookup(k) # v
<1> SUFFICES ASSUME k \notin lost, Lookup(k) = v PROVE FALSE
  OBVIOUS
<1>1. PICK f : f = FindItem(k, Types)
  OBVIOUS
<1>2. pc = "ready" /\ ~ (f.found /\ FoundItem(f).val = v /\ FoundItem(f).st = "using")
  BY <1>1 DEF SetBegin
<1>3. f.found /\ FoundItem(f).val = v
  BY <1>1, <1>2, NoValueAssumption, RamAgrees
<1>4. StoreType /\ ListsOK /\ Agree /\ Unfinished
  BY <1>2 DEF IInv, TypeOK, OrderInv, ContentInv
<1>5. /\ f.sec \in Range(active) /\ f.sec \in Sector
      /\ f.i \in Matches(flash[f.sec], ram[f.sec], k, Types)
      /\ FoundItem(f) = It(f.sec, f.i)
  BY <1>1, <1>3, <1>4, FindItemFinds
<1>6. /\ IsUsed(ram[f.sec].st) /\ f.i \in LiveAt(flash[f.sec].log)
      /\ It(f.sec, f.i).key = k
  BY <1>5 DEF Matches, It
<1>7. Used(f.sec)
  BY <1>4, <1>5, <1>6 DEF Agree, Used
<1>8. It(f.sec, f.i).st # "nodata"
  BY <1>2, <1>4, <1>5, <1>6, <1>7 DEF Unfinished, Halfway
<1>9. It(f.sec, f.i).st = "using"
  BY <1>4, <1>5, <1>6, <1>8, LiveItem
<1> QED BY <1>2, <1>3, <1>5, <1>9

LEMMA SetBeginStep ==
    ASSUME IInv, OrderInv, ContentInv, NEW k \in Keys, NEW v \in Values, SetBegin(k, v)
    PROVE  PromiseStep
<1>1. /\ pc = "ready" /\ pc' = "write" /\ op = NoOp /\ res' = "none"
      /\ flash' = flash /\ lost' = lost /\ op'.k = k /\ op'.v = v
  BY DEF SetBegin, ContentInv, Started
<1>2. k \in lost \/ Lookup(k) # v
  BY SetBeginDiffers
<1>3. Map' = Map
  BY <1>1, SameMap
<1>4. k \in lost => NoValue # v
  BY NoValueAssumption
<1>5. Promise!SetCall(k, v)
  BY <1>1, <1>2, <1>3, <1>4 DEF Promise!SetCall, Promise!NoReq, Map, Serving, NoOp
<1> QED BY <1>5 DEF PromiseStep, Promise!KVNext

\* A set that is being served and has written nothing yet is of a value its key does not read.
LEMMA UnwrittenDiffers ==
    ASSUME IInv, ContentInv, Calling, pc = "write"
    PROVE  op.k \in lost \/ Lookup(op.k) # op.v
<1> SUFFICES ASSUME op.k \notin lost PROVE Lookup(op.k) # op.v
  OBVIOUS
<1>1. StoreType /\ OpSet /\ OthersOld
  BY DEF IInv, TypeOK, ContentInv
<1>2. op.v # NoValue
  BY <1>1, NoValueAssumption DEF OpSet
<1>3. ASSUME NEW s \in Sector, NEW i, Reads(op.k, s, i)
      PROVE  flash[s].log[i].val # op.v
  BY <1>1, <1>3 DEF OthersOld, Reads, It
<1> QED BY <1>1, <1>2, <1>3, LookupAmong DEF ReadsItsItems

LEMMA ErrorSteps ==
    ASSUME IInv, OrderInv, ContentInv, WriteTooLong \/ WriteFull \/ RequestNoSpace
    PROVE  PromiseStep
<1>1. /\ StoreType /\ OpSet /\ OthersOld /\ Calling
      /\ pc = "write" /\ pc' = "ready" /\ op' = NoOp /\ res' \in {"toolong", "full", "nospace"}
      /\ flash' = flash /\ lost' = lost
  BY DEF IInv, TypeOK, ContentInv, Calling, WriteTooLong, WriteFull, RequestNoSpace, NeedSector,
         Return
<1>2. op.k \in lost \/ Lookup(op.k) # op.v
  BY <1>1, UnwrittenDiffers
<1>3. Map' = Map
  BY <1>1, SameMap
<1>4. op.k \in Keys /\ op.v \in Values /\ op.k # NoValue
  BY <1>1, NoValueAssumption DEF OpSet
<1>5. Promise!ReturnError
  BY <1>1, <1>2, <1>3, <1>4, NoValueAssumption
     DEF Promise!ReturnError, Promise!NoReq, Map, Serving, NoOp
<1> QED BY <1>5 DEF PromiseStep, Promise!KVNext

\* A deletion leaves nothing of its key to be read, and every other key as it is.
LEMMA DeletedReads ==
    ASSUME IInv, OrderInv, LayoutInv, ContentInv, NEW k \in Keys, Delete(k)
    PROVE  /\ \A j : j # k => Lookup(j)' = Lookup(j)
           /\ k \notin lost => Lookup(k)' = NoValue
<1>1. PICK f : f = FindItem(k, Types)
  OBVIOUS
<1>2. /\ StoreType /\ ListsOK /\ Agree /\ Alone
      /\ pc = "ready" /\ pc' = pc /\ op = NoOp /\ op' = op /\ gc' = gc
      /\ lost' = lost /\ res' = res /\ f.found
      /\ DropItem(f.sec, FoundItem(f).at, FoundItem(f).span)
  BY <1>1, QuietIsAlone DEF IInv, TypeOK, OrderInv, Delete, ContentInv, Started, Quiet
<1>3. /\ f.sec \in Sector
      /\ f.i \in Matches(flash[f.sec], ram[f.sec], k, Types)
      /\ FoundItem(f) = It(f.sec, f.i)
  BY <1>1, <1>2, FindItemFinds
<1>4. /\ IsUsed(ram[f.sec].st) /\ f.i \in LiveAt(flash[f.sec].log)
      /\ It(f.sec, f.i).key = k
  BY <1>3 DEF Matches, It
<1>5. PICK s, a, x, i : s = f.sec /\ a = FoundItem(f).at /\ x = FoundItem(f).span /\ i = f.i
  OBVIOUS
<1>6. /\ s \in Sector /\ DropItem(s, a, x) /\ Packed(flash[s].log) /\ i \in LiveAt(flash[s].log)
      /\ flash[s].log[i].at = a /\ flash[s].log[i].key = k /\ Used(s)
  BY <1>2, <1>3, <1>4, <1>5 DEF LayoutInv, It, Agree, Used
<1>7. ASSUME NEW j, j # k PROVE Lookup(j)' = Lookup(j)
  BY <1>2, <1>6, <1>7, DropOthers
<1>8. ASSUME k \notin lost PROVE Lookup(k)' = NoValue
  <2>1. /\ \A t \in Sector : Used(t)' <=> Used(t)
        /\ \A t \in Sector \ {s} : flash'[t] = flash[t]
        /\ \A n : n \in LiveAt(flash'[s].log) <=>
                     n \in LiveAt(flash[s].log) /\ flash[s].log[n].at # a
        /\ \A n \in LiveAt(flash'[s].log) : flash'[s].log[n] = flash[s].log[n]
    BY <1>2, <1>6, DropLessens
  <2>2. ASSUME NEW t \in Sector, NEW n, Reads(k, t, n)' PROVE FALSE
    <3>1. n \in LiveAt(flash[t].log) /\ Used(t) /\ It(t, n).key = k /\ ~ (t = s /\ n = i)
      BY <1>6, <2>1, <2>2 DEF Reads, It
    <3>2. k \notin lost /\ It(s, i).key = k
      BY <1>6, <1>8 DEF It
    <3> QED BY <1>2, <1>6, <3>1, <3>2, AloneIs
  <2>3. Readable(k)' = {}
    BY <2>2, ReadableAre
  <2> QED BY <2>3, NothingIsReadNext
<1> QED BY <1>7, <1>8

LEMMA DeleteStep ==
    ASSUME IInv, OrderInv, LayoutInv, ContentInv, NEW k \in Keys, Delete(k)
    PROVE  PromiseStep
<1>1. pc = "ready" /\ pc' = pc /\ op = NoOp /\ op' = op /\ lost' = lost /\ res' = res
  BY DEF Delete, ContentInv, Started
<1>2. /\ \A j : j # k => Lookup(j)' = Lookup(j)
      /\ k \notin lost => Lookup(k)' = NoValue
  BY DeletedReads
<1>3. Map' = [Map EXCEPT ![k] = NoValue]
  BY <1>1, <1>2 DEF Map
<1>4. Promise!DeleteCall(k)
  BY <1>1, <1>3 DEF Promise!DeleteCall, Promise!NoReq, Map, Serving, NoOp
<1> QED BY <1>4 DEF PromiseStep, Promise!KVNext

-----------------------------------------------------------------------------
(* A start undoes or completes the set that was cut short *)

LEMMA LastIsLive ==
    ASSUME StoreType, NEW s \in Sector, LiveAt(flash[s].log) # {}
    PROVE  MostOf(LiveAt(flash[s].log)) \in LiveAt(flash[s].log)
<1>1. /\ LiveAt(flash[s].log) \subseteq Int /\ Len(flash[s].log) \in Int
      /\ \A i \in LiveAt(flash[s].log) : i <= Len(flash[s].log)
  BY LiveItem
<1> QED BY <1>1, MostOfIsMost

LEMMA CheckWriteDataStep ==
    ASSUME IInv, OrderInv, LayoutInv, ContentInv, CheckWriteData
    PROVE  PromiseStep
<1>1. PICK c, m : c = Cur /\ m = LastItem
  OBVIOUS
<1>2. PICK a, x : a = It(c, m).at /\ x = It(c, m).span
  OBVIOUS
<1>3. /\ StoreType /\ ListsOK /\ pc = "checkwrite" /\ pc' = "checkgc" /\ lost' = lost
      /\ DropItem(c, a, x) /\ It(c, m).st = "nodata" /\ LiveAt(flash[c].log) # {}
      /\ op' = op /\ gc' = gc /\ res' = res
  BY <1>1, <1>2 DEF IInv, TypeOK, CheckWriteData, It
<1>4. c \in Sector /\ Packed(flash[c].log)
  BY <1>1, <1>3, CurActive DEF LayoutInv
<1>5. m \in LiveAt(flash[c].log)
  BY <1>1, <1>3, <1>4, LastIsLive DEF LastItem
<1>6. \A k : Lookup(k)' = Lookup(k)
  BY <1>2, <1>3, <1>4, <1>5, DropOthers DEF It
<1>7. Keeps /\ SameRequest
  BY <1>3, <1>6 DEF Keeps, SameRequest, Serving
<1> QED BY <1>7, LoseStep

LEMMA CheckWriteOldStep ==
    ASSUME IInv, OrderInv, LayoutInv, ContentInv, StoreType', ContentInv', CheckWriteOld
    PROVE  PromiseStep
<1>1. PICK c, m : c = Cur /\ m = LastItem
  OBVIOUS
<1>2. /\ StoreType /\ ListsOK /\ Agree /\ Twins /\ Headers /\ Started
      /\ pc = "checkwrite" /\ pc' = "checkgc" /\ ram[c].st # "uninit"
      /\ It(c, m).st = "using" /\ LiveAt(flash[c].log) # {}
      /\ op' = op /\ gc' = gc /\ res' = res
  BY <1>1 DEF IInv, TypeOK, OrderInv, ContentInv, CheckWriteOld, It
<1>3. PICK o \in OldCopies :
         /\ DropItem(o.sec, It(o.sec, o.i).at, It(o.sec, o.i).span)
         /\ lost' = lost \union (IF ram[o.sec].st = "deleting" THEN {It(o.sec, o.i).key} ELSE {})
  BY DEF CheckWriteOld, It
<1>4. /\ o.sec \in Sector /\ o.i \in LiveAt(flash[o.sec].log) /\ IsUsed(ram[o.sec].st)
      /\ It(o.sec, o.i).key = It(c, m).key /\ (o.sec = c => o.i # m)
  BY <1>1, <1>2, OldCopyIs
<1>5. PICK d, n, a, x, key : /\ d = o.sec /\ n = o.i /\ a = It(o.sec, o.i).at
                             /\ x = It(o.sec, o.i).span /\ key = It(c, m).key
  OBVIOUS
<1>6. /\ DropItem(d, a, x) /\ d \in Sector /\ Packed(flash[d].log)
      /\ n \in LiveAt(flash[d].log) /\ It(d, n).at = a /\ It(d, n).key = key
      /\ ~ (d = c /\ n = m)
      /\ lost' = lost \union (IF ram[d].st = "deleting" THEN {key} ELSE {})
  BY <1>3, <1>4, <1>5 DEF LayoutInv
<1>7. Used(d) /\ (IsDeleting(d) => ram[d].st = "deleting")
  BY <1>2, <1>4, <1>5 DEF Agree, Used, IsDeleting, Headers
<1>8. /\ c \in Sector /\ m \in LiveAt(flash[c].log) /\ Used(c) /\ Newest(c)
      /\ \A t \in Sector : Used(t) /\ Newest(t) => t = c
  <2>1. c \in Sector
    BY <1>1, <1>2, CurActive
  <2>2. m \in LiveAt(flash[c].log)
    BY <1>1, <1>2, <2>1, LastIsLive DEF LastItem
  <2>3. ~ Fresh(c)
    BY <1>2 DEF Fresh
  <2> QED BY <1>1, <1>2, <2>1, <2>2, <2>3, StartsWithNewest
<1>9. \A k : k # key => Lookup(k)' = Lookup(k)
  <2>1. ASSUME NEW k, k # key PROVE flash[d].log[n].key # k /\ flash[d].log[n].at = a
    BY <1>6, <2>1 DEF It
  <2> QED BY <1>2, <1>6, <2>1, DropOthers
<1>10. SameRequest /\ lost \subseteq lost'
  BY <1>2, <1>6 DEF SameRequest, Serving
<1>11. CASE key \in lost'
  <2>1. Keeps
    BY <1>9, <1>10, <1>11 DEF Keeps
  <2> QED BY <1>10, <2>1, LoseStep
<1>12. CASE key \notin lost'
  <2>1. ~ IsDeleting(d) /\ lost' = lost /\ key \notin lost
    BY <1>6, <1>7, <1>12
  <2>2. Twin(d, n, c, m) \/ Twin(c, m, d, n)
    <3>1. /\ n \in LiveAt(flash[d].log) /\ m \in LiveAt(flash[c].log) /\ Used(d) /\ Used(c)
          /\ <<d, n>> # <<c, m>> /\ It(d, n).key = It(c, m).key /\ It(d, n).key \notin lost
          /\ d \in Sector /\ c \in Sector
      BY <1>5, <1>6, <1>7, <1>8, <2>1
    <3> QED BY <1>2, <3>1 DEF Twins
  <2>3. ~ Copying(d, n, c, m)
    BY <2>1 DEF Copying
  <2>4. ~ Copying(c, m, d, n)
    BY <1>6, <1>7, <1>8 DEF Copying
  <2>5. ~ Overwriting(c, m, d, n)
    <3>1. Overwriting(c, m, d, n) => d = Cur /\ n = LastItem
      BY <1>2, <1>6, <1>7, <1>8, CutShort
    <3> QED BY <1>1, <1>6, <3>1
  <2>6. key = op.k /\ It(c, m).val = op.v
    BY <1>2, <1>5, <2>2, <2>3, <2>4, <2>5 DEF Twin, Overwriting
  <2>7. key \in Keys
    BY <1>2, <1>5, <1>8, LiveItem
  <2>8. Reads(key, c, m)' /\ flash'[c].log[m].val = op.v
    <3>1. /\ \A t \in Sector : Used(t)' <=> Used(t)
          /\ \A t \in Sector \ {d} : flash'[t] = flash[t]
          /\ \A i : i \in LiveAt(flash'[d].log) <=>
                       i \in LiveAt(flash[d].log) /\ flash[d].log[i].at # a
          /\ \A i \in LiveAt(flash'[d].log) : flash'[d].log[i] = flash[d].log[i]
      BY <1>2, <1>6, DropLessens
    <3>2. c = d => flash[c].log[m].at # a
      <4>1. SUFFICES ASSUME c = d, It(c, m).at = It(d, n).at PROVE FALSE
        BY <1>6 DEF It
      <4>2. m \in DOMAIN flash[d].log /\ n \in DOMAIN flash[d].log
        BY <1>6, <1>8, <4>1 DEF LiveAt
      <4> QED BY <1>2, <1>6, <4>1, <4>2, PlacesDiffer
    <3>3. m \in LiveAt(flash'[c].log) /\ flash'[c].log[m] = flash[c].log[m] /\ Used(c)'
      BY <1>8, <3>1, <3>2
    <3> QED BY <1>2, <1>5, <2>6, <3>3 DEF Reads, It
  <2>9. Lookup(key)' = op.v
    <3>1. Agreeing'
      BY ItemsAgreeNext
    <3> QED BY <1>2, <1>8, <1>12, <2>7, <2>8, <3>1 DEF Agreeing
  <2>10. TakesEffect
    BY <1>9, <1>10, <2>6, <2>7, <2>9 DEF TakesEffect
  <2> QED BY <1>10, <2>10, CommitStep
<1> QED BY <1>11, <1>12

-----------------------------------------------------------------------------
(* The old item is erased, and the call returns *)

LEMMA EraseOldStep ==
    ASSUME IInv, OrderInv, LayoutInv, ContentInv, StoreType', ContentInv', EraseOld
    PROVE  PromiseStep
<1>1. PICK c, n, d, a, x, key, v : /\ c = Cur /\ n = Len(flash[c].log) /\ d = op.sec /\ a = op.at
                                   /\ x = SpanOf[op.old] /\ key = op.k /\ v = op.v
  OBVIOUS
<1>2. /\ StoreType /\ ControlType /\ ListsOK /\ OpSet /\ Programming /\ FoundStays /\ Calling /\ Placing
      /\ pc = "eraseold" /\ pc' = "ready" /\ op' = NoOp /\ res' = "ok" /\ gc' = gc
      /\ IF op.found THEN DropItem(d, a, x) ELSE UNCHANGED <<flash, ram>>
      /\ lost' = lost \union
            (IF op.found /\ ~ \E i \in LiveAt(flash[d].log) : flash[d].log[i].at = a
             THEN {key} ELSE {})
  BY <1>1 DEF IInv, TypeOK, OrderInv, ContentInv, EraseOld, Return, Calling
<1>3. /\ c \in Sector /\ d \in Sector /\ Used(c) /\ Packed(flash[d].log)
      /\ key \in Keys /\ v \in Values /\ key # NoValue
  BY <1>1, <1>2, CurActive, NoValueAssumption DEF ControlType, OpSet, Placing, LayoutInv
<1>4. /\ n \in DOMAIN flash[c].log /\ flash[c].log[n].key = key /\ flash[c].log[n].val = v
      /\ key \notin lost => n \in LiveAt(flash[c].log) /\ flash[c].log[n].st = "using"
  <2>1. Programmed(c, key, v) /\ flash[c].log \in Seq(Item)
    BY <1>1, <1>2, <1>3 DEF Programming, StoreType, FlashSector
  <2>2. n \in DOMAIN flash[c].log /\ Last(flash[c].log) = flash[c].log[n]
    BY <1>1, <2>1 DEF Programmed, Last
  <2> QED BY <1>2, <2>1, <2>2 DEF Programmed, LiveAt, IsLive
<1>5. CASE ~ op.found
  <2>1. \A k : Lookup(k)' = Lookup(k)
    BY <1>2, <1>5, SameFlashUnread, UnreadLookUp
  <2>2. lost' = lost /\ flash' = flash
    BY <1>2, <1>5
  <2>3. ASSUME key \notin lost' PROVE Lookup(key)' = v
    <3>1. Reads(key, c, n)' /\ flash'[c].log[n].val = v
      BY <1>3, <1>4, <2>2, <2>3 DEF Reads, Used
    <3>2. Agreeing'
      BY ItemsAgreeNext
    <3> QED BY <1>2, <1>3, <2>3, <3>1, <3>2 DEF Agreeing
  <2>4. TakesEffect
    BY <1>1, <1>3, <2>1, <2>2, <2>3 DEF TakesEffect
  <2> QED BY <1>1, <1>2, <1>3, <2>4, ReturnStep DEF Serving
<1>6. CASE op.found /\ flash[d].log = <<>>
  <2>1. LiveAt(flash[d].log) = {}
    BY <1>6 DEF LiveAt
  <2>2. key \in lost' /\ lost \subseteq lost' /\ DropItem(d, a, x)
    BY <1>2, <1>6, <2>1
  <2>3. \A k : Lookup(k)' = Lookup(k)
    <3>1. ASSUME NEW k, NEW i, Reads(k, d, i) PROVE flash[d].log[i].at # a
      BY <2>1, <3>1 DEF Reads
    <3> QED BY <1>2, <1>3, <2>2, <3>1, DropReads, SameReadsLookUp
  <2>4. TakesEffect
    BY <1>1, <1>3, <2>2, <2>3 DEF TakesEffect
  <2> QED BY <1>1, <1>2, <1>3, <2>4, ReturnStep DEF Serving
<1>7. CASE op.found /\ flash[d].log # <<>>
  <2>1. PICK i \in LiveAt(flash[d].log) :
           /\ It(d, i).at = a /\ It(d, i).key = key /\ (d = c => i < n)
    BY <1>1, <1>2, <1>7 DEF FoundStays
  <2>2. lost' = lost /\ DropItem(d, a, x)
    BY <1>2, <1>7, <2>1 DEF It
  <2>3. ASSUME NEW k, k # key PROVE Lookup(k)' = Lookup(k)
    <3>1. flash[d].log[i].at = a /\ flash[d].log[i].key # k
      BY <2>1, <2>3 DEF It
    <3> QED BY <1>2, <1>3, <2>2, <3>1, DropOthers
  <2>4. ASSUME key \notin lost' PROVE Lookup(key)' = v
    <3>1. /\ \A t \in Sector : Used(t)' <=> Used(t)
          /\ \A t \in Sector \ {d} : flash'[t] = flash[t]
          /\ \A j : j \in LiveAt(flash'[d].log) <=>
                       j \in LiveAt(flash[d].log) /\ flash[d].log[j].at # a
          /\ \A j \in LiveAt(flash'[d].log) : flash'[d].log[j] = flash[d].log[j]
      BY <1>2, <1>3, <2>2, DropLessens
    <3>2. c = d => flash[c].log[n].at # a
      <4>1. SUFFICES ASSUME c = d, It(d, n).at = a PROVE FALSE
        BY DEF It
      <4>2. n \in DOMAIN flash[d].log /\ i \in DOMAIN flash[d].log /\ i \in Nat
        BY <1>2, <1>3, <1>4, <4>1, LiveItem
      <4>3. i = n
        BY <1>2, <1>3, <2>1, <4>1, <4>2, PlacesDiffer
      <4> QED BY <2>1, <4>1, <4>2, <4>3
    <3>3. n \in LiveAt(flash'[c].log) /\ flash'[c].log[n] = flash[c].log[n] /\ Used(c)'
      BY <1>3, <1>4, <2>2, <2>4, <3>1, <3>2
    <3>4. Reads(key, c, n)' /\ flash'[c].log[n].val = v
      BY <1>4, <2>2, <2>4, <3>3 DEF Reads
    <3>5. Agreeing'
      BY ItemsAgreeNext
    <3> QED BY <1>2, <1>3, <2>4, <3>4, <3>5 DEF Agreeing
  <2>5. TakesEffect
    BY <1>1, <1>3, <2>2, <2>3, <2>4 DEF TakesEffect
  <2> QED BY <1>1, <1>2, <1>3, <2>5, ReturnStep DEF Serving
<1> QED BY <1>5, <1>6, <1>7

-----------------------------------------------------------------------------
(* An item is written *)

\* A key the new item is not of.
LEMMA GrownReads ==
    ASSUME NEW c, NEW n, Grown(c, n),
           \A t \in Sector : (Used(t)' <=> Used(t)) /\ flash'[t].sn = flash[t].sn,
           NEW k, flash'[c].log[n].key # k \/ flash'[c].log[n].st # "using"
    PROVE  SameReads(k)
<1> SUFFICES ASSUME NEW s \in Sector, NEW i
             PROVE  /\ Reads(k, s, i)' <=> Reads(k, s, i)
                    /\ Reads(k, s, i) => /\ flash'[s].sn = flash[s].sn
                                         /\ flash'[s].log[i].val = flash[s].log[i].val
  BY DEF SameReads
<1>1. Reads(k, s, i) => i \in LiveAt(flash'[s].log) /\ flash'[s].log[i] = flash[s].log[i]
  BY DEF Grown, Reads
<1>2. Reads(k, s, i)' => i \in LiveAt(flash[s].log) /\ flash'[s].log[i] = flash[s].log[i]
  BY DEF Grown, Reads
<1> QED BY <1>1, <1>2 DEF Reads

\* A key the finished item is not of.
LEMMA FinishedReads ==
    ASSUME NEW c, NEW n, SameItems,
           \A t \in Sector : \A i \in LiveAt(flash[t].log) :
              ~ (t = c /\ i = n) => flash'[t].log[i] = flash[t].log[i],
           \A t \in Sector : (Used(t)' <=> Used(t)) /\ flash'[t].sn = flash[t].sn,
           NEW k, flash[c].log[n].key # k
    PROVE  SameReads(k)
<1> SUFFICES ASSUME NEW s \in Sector, NEW i
             PROVE  /\ Reads(k, s, i)' <=> Reads(k, s, i)
                    /\ Reads(k, s, i) => /\ flash'[s].sn = flash[s].sn
                                         /\ flash'[s].log[i].val = flash[s].log[i].val
  BY DEF SameReads
<1>1. CASE s = c /\ i = n
  <2>1. ~ Reads(k, s, i)
    BY <1>1 DEF Reads
  <2>2. ~ Reads(k, s, i)'
    BY <1>1 DEF Reads, SameItems
  <2> QED BY <2>1, <2>2
<1>2. CASE ~ (s = c /\ i = n)
  BY <1>2 DEF Reads, SameItems
<1> QED BY <1>1, <1>2

\* The key of the new item reads as before, or as the item says.
LEMMA OldOrNew ==
    ASSUME StoreType, StoreType', NEW k, NEW c, NEW n,
           \A s \in Sector : \A i : Reads(k, s, i) => Reads(k, s, i)',
           \A s \in Sector : \A i : Reads(k, s, i)' =>
              (s = c /\ i = n) \/ flash'[s].log[i].val = Lookup(k)
    PROVE  Lookup(k)' = Lookup(k) \/ Lookup(k)' = flash'[c].log[n].val
<1>1. ReadsItsItems /\ ReadsItsItems'
  BY LookupAmong, LookupAmongNext
<1>2. CASE Lookup(k)' = NoValue /\ \A s \in Sector : \A i : ~ Reads(k, s, i)'
  <2>1. Lookup(k) = NoValue
    BY <1>1, <1>2 DEF ReadsItsItems
  <2> QED BY <1>2, <2>1
<1>3. CASE \E s \in Sector : \E i : Reads(k, s, i)' /\ Lookup(k)' = flash'[s].log[i].val
  BY <1>3
<1> QED BY <1>1, <1>2, <1>3 DEF ReadsItsItems

\* Then the call has taken effect, or not yet.
LEMMA WriteStep ==
    ASSUME NEW key \in Keys, key = op.k, lost \subseteq lost', SameRequest,
           \A k : k # key => Lookup(k)' = Lookup(k),
           key \notin lost' => Lookup(key)' = Lookup(key) \/ Lookup(key)' = op.v
    PROVE  PromiseStep
<1>1. CASE key \in lost' \/ Lookup(key)' = Lookup(key)
  <2>1. Keeps
    BY <1>1 DEF Keeps
  <2> QED BY <2>1, LoseStep
<1>2. CASE key \notin lost' /\ Lookup(key)' = op.v
  <2>1. TakesEffect
    BY <1>2 DEF TakesEffect
  <2> QED BY <2>1, CommitStep
<1> QED BY <1>1, <1>2

LEMMA WriteItemStep ==
    ASSUME IInv, OrderInv, ContentInv, StoreType', WriteItem
    PROVE  PromiseStep
<1>1. PICK c, n, it, key : /\ c = Cur /\ n = Len(flash[c].log) + 1 /\ key = op.k
                           /\ it = NewItem(ram[c].next, op.k, op.v)
  OBVIOUS
<1>2. /\ StoreType /\ ListsOK /\ ControlType /\ pc = "write" /\ ~ Fresh(c) /\ OpSet
      /\ WriteHeader(c, it) /\ lost \subseteq lost'
      /\ IF it.span = 1 THEN Account(c, it) ELSE UNCHANGED ram
      /\ pc' \in {"eraseold", "data"} /\ UNCHANGED <<op, gc, res>>
  BY <1>1 DEF IInv, TypeOK, WriteItem, CanWrite, Fresh, Calling
<1>3. c \in Sector /\ Used(c)
  BY <1>1, <1>2, WritesInUse
<1>4. /\ it \in Item /\ it.key = key /\ it.val = op.v /\ it.span >= 1 /\ key \in Keys
  <2>1. ram[c].next \in Nat /\ op.k \in Keys /\ op.v \in Values
    BY <1>2, <1>3 DEF StoreType, RamSector, OpSet
  <2>2. it \in Item
    BY <1>1, <2>1, NewItemType
  <2>3. SpanOf[op.v] \in Nat \ {0}
    BY <2>1, SpanAssumption
  <2> QED BY <1>1, <2>1, <2>2, <2>3 DEF NewItem
<1>5. /\ Grown(c, n) /\ flash'[c].log[n] = HeaderWritten(flash[c], it)
      /\ \A t \in Sector : (Used(t)' <=> Used(t)) /\ flash'[t].sn = flash[t].sn
  BY <1>1, <1>2, <1>3, <1>4, HeaderContents
<1>6. flash'[c].log[n].key = key /\ flash'[c].log[n].val = op.v
  BY <1>2, <1>3, <1>4, <1>5, HeaderWrittenIs DEF StoreType
<1>7. \A k : k # key => Lookup(k)' = Lookup(k)
  BY <1>5, <1>6, GrownReads, SameReadsLookUp
<1>8. ASSUME key \notin lost' PROVE Lookup(key)' = Lookup(key) \/ Lookup(key)' = op.v
  <2>1. \A s \in Sector : \A i : Reads(key, s, i) => Lookup(key) = flash[s].log[i].val
    BY <1>2, <1>4, <1>8, ItemsAgree DEF Agreeing
  <2>2. ASSUME NEW s \in Sector, NEW i, Reads(key, s, i) PROVE Reads(key, s, i)'
    BY <1>5, <2>2 DEF Reads, Grown
  <2>3. ASSUME NEW s \in Sector, NEW i, Reads(key, s, i)', ~ (s = c /\ i = n)
        PROVE  flash'[s].log[i].val = Lookup(key)
    BY <1>5, <2>1, <2>3 DEF Reads, Grown
  <2> QED BY <1>2, <1>6, <2>2, <2>3, OldOrNew
<1>9. SameRequest
  BY <1>2 DEF SameRequest, Serving
<1> QED BY <1>1, <1>2, <1>4, <1>7, <1>8, <1>9, WriteStep

LEMMA WriteItemDataStep ==
    ASSUME IInv, OrderInv, LayoutInv, ContentInv, StoreType', WriteItemData
    PROVE  PromiseStep
<1>1. PICK c, n, e, key : /\ c = Cur /\ n = Len(flash[c].log) /\ e = flash[c].log[n]
                          /\ key = op.k
  OBVIOUS
<1>2. /\ StoreType /\ ListsOK /\ OpSet /\ Twins /\ Programming
      /\ pc = "data" /\ pc' = "eraseold" /\ WriteData(c)
      /\ UNCHANGED <<op, gc, lost, res>>
  BY <1>1 DEF IInv, TypeOK, WriteItemData, ContentInv, Calling
<1>3. c \in Sector
  BY <1>1, <1>2, CurActive
<1>4. flash[c].log # <<>> /\ e.st # "torn" /\ Last(flash[c].log) = e
  BY <1>1, <1>2 DEF IInv, DataBegun, LayoutInv, Between, Last
<1>5. /\ SameItems
      /\ \A t \in Sector : \A i \in LiveAt(flash[t].log) :
            ~ (t = c /\ i = n) => flash'[t].log[i] = flash[t].log[i]
      /\ flash'[c].log[n].key = e.key /\ flash'[c].log[n].val = e.val
      /\ \A t \in Sector : (Used(t)' <=> Used(t)) /\ flash'[t].sn = flash[t].sn
  BY <1>1, <1>2, <1>3, <1>4, DataContents
<1>6. /\ e.key = key /\ e.val = op.v /\ (key \notin lost => e.st = "nodata")
      /\ key \in Keys
  BY <1>1, <1>2, <1>4 DEF Programming, Programmed, OpSet
<1>7. \A k : k # key => Lookup(k)' = Lookup(k)
  BY <1>1, <1>5, <1>6, FinishedReads, SameReadsLookUp
<1>8. ASSUME key \notin lost' PROVE Lookup(key)' = Lookup(key) \/ Lookup(key)' = op.v
  <2>1. ASSUME NEW s \in Sector, NEW i, Reads(key, s, i) PROVE ~ (s = c /\ i = n)
    BY <1>1, <1>2, <1>6, <1>8, <2>1 DEF Reads
  <2>2. ASSUME NEW s \in Sector, NEW i, NEW t \in Sector, NEW j,
               Reads(key, s, i), Reads(key, t, j)
        PROVE  s = t /\ i = j
    <3>1. SUFFICES ASSUME <<s, i>> # <<t, j>> PROVE FALSE
      OBVIOUS
    <3>2. Twin(s, i, t, j) \/ Twin(t, j, s, i)
      BY <1>2, <1>8, <2>2, <3>1 DEF Twins, Reads, It
    <3>3. (t = c /\ j = n) \/ (s = c /\ i = n)
      BY <1>1, <1>2, <3>2 DEF Twin, Copying, Overwriting
    <3> QED BY <2>1, <2>2, <3>3
  <2>3. ASSUME NEW s \in Sector, NEW i, Reads(key, s, i)
        PROVE  Lookup(key) = flash[s].log[i].val
    <3>1. ReadsItsItems
      BY <1>2, LookupAmong
    <3> QED BY <2>2, <2>3, <3>1 DEF ReadsItsItems
  <2>4. ASSUME NEW s \in Sector, NEW i, Reads(key, s, i) PROVE Reads(key, s, i)'
    BY <1>5, <2>1, <2>4 DEF Reads, SameItems
  <2>5. ASSUME NEW s \in Sector, NEW i, Reads(key, s, i)', ~ (s = c /\ i = n)
        PROVE  flash'[s].log[i].val = Lookup(key)
    <3>1. Reads(key, s, i) /\ flash'[s].log[i] = flash[s].log[i]
      BY <1>5, <2>5 DEF Reads, SameItems
    <3> QED BY <2>3, <3>1
  <2> QED BY <1>2, <1>5, <1>6, <2>4, <2>5, OldOrNew
<1>9. SameRequest
  BY <1>2 DEF SameRequest, Serving
<1> QED BY <1>1, <1>2, <1>6, <1>7, <1>8, <1>9, WriteStep

-----------------------------------------------------------------------------
(* Collection copies the items of a sector and gives it up *)

LEMMA GcCopyStep ==
    ASSUME IInv, OrderInv, LayoutInv, ContentInv, StoreType', ContentInv', GcCopy
    PROVE  PromiseStep
<1>1. PICK src, dst, m, n, it : /\ src = gc.src /\ dst = gc.dst /\ m = LeastOf(ToCopy)
                                /\ n = Len(flash[dst].log) + 1 /\ it = Copied
  OBVIOUS
<1>2. /\ Unfinished /\ pc = "gccopy" /\ ToCopy # {} /\ WriteHeader(dst, it)
      /\ Account(dst, it) \/ UNCHANGED ram
      /\ pc' \in {"gccopy", "gcdata"} /\ gc'.rec = gc.rec
      /\ lost \subseteq lost' /\ UNCHANGED <<op, res>>
  BY <1>1 DEF IInv, TypeOK, ControlType, ContentInv, GcCopy
<1>3. /\ StoreType /\ ControlType /\ src \in Sector /\ dst \in Sector /\ src # dst
      /\ Used(src)
  BY <1>1, <1>2, CopyStands
<1>4. m \in LiveAt(flash[src].log)
  <2>1. ToCopy \subseteq Nat
    BY <1>1, <1>3, LiveItem DEF ToCopy
  <2>2. m \in ToCopy
    BY <1>1, <1>2, <2>1, LeastOfIsLeast
  <2> QED BY <1>1, <2>2 DEF ToCopy
<1>5. it \in Item /\ it.key = It(src, m).key /\ it.span >= 1 /\ It(src, m) \in Item
  <2>1. it = [It(src, m) EXCEPT !.at = gc.d]
    BY <1>1 DEF Copied, It
  <2>2. It(src, m) \in Item
    BY <1>3, <1>4, LiveItem
  <2>3. it \in Item /\ it.span >= 1
    BY <1>1, <1>2, <1>3, CopiedType, CopyFits
  <2> QED BY <2>1, <2>2, <2>3 DEF Item
<1>6. /\ Grown(dst, n) /\ flash'[dst].log[n] = HeaderWritten(flash[dst], it)
      /\ \A t \in Sector : (Used(t)' <=> Used(t)) /\ flash'[t].sn = flash[t].sn
      /\ flash'[src] = flash[src]
  BY <1>1, <1>2, <1>3, <1>5, HeaderContents
<1>7. flash'[dst].log[n].key = it.key
  BY <1>3, <1>5, <1>6, HeaderWrittenIs DEF StoreType
<1>8. \A k : k # it.key => Lookup(k)' = Lookup(k)
  BY <1>6, <1>7, GrownReads, SameReadsLookUp
<1>9. ASSUME it.key \notin lost' PROVE Lookup(it.key)' = Lookup(it.key)
  <2>1. It(src, m).st # "nodata"
    BY <1>2, <1>3, <1>4, <1>5, <1>9 DEF Unfinished, Halfway
  <2>2. It(src, m).st = "using"
    BY <1>3, <1>4, <2>1, LiveItem
  <2>3. PICK k \in Keys : k = it.key
    BY <1>5 DEF Item
  <2>4. Reads(k, src, m) /\ Reads(k, src, m)'
    BY <1>3, <1>4, <1>5, <1>6, <2>2, <2>3 DEF Reads, It
  <2>5. Agreeing /\ Agreeing'
    BY <1>3, ItemsAgree, ItemsAgreeNext
  <2>6. Lookup(k) = flash[src].log[m].val
    BY <1>2, <1>3, <1>9, <2>3, <2>4, <2>5 DEF Agreeing
  <2>7. Lookup(k)' = flash'[src].log[m].val
    BY <1>2, <1>3, <1>9, <2>3, <2>4, <2>5 DEF Agreeing
  <2> QED BY <1>6, <2>3, <2>6, <2>7
<1>10. Keeps
  BY <1>2, <1>8, <1>9 DEF Keeps
<1>11. SameRequest
  BY <1>2 DEF SameRequest, Serving
<1> QED BY <1>10, <1>11, LoseStep

LEMMA GcCopyDataStep ==
    ASSUME IInv, OrderInv, LayoutInv, ContentInv, StoreType', ContentInv', GcCopyData
    PROVE  PromiseStep
<1>1. PICK src, dst, m, n, e, it : /\ src = gc.src /\ dst = gc.dst /\ m = LeastOf(ToCopy)
                                   /\ n = Len(flash[dst].log) /\ e = flash[dst].log[n]
                                   /\ it = Copied
  OBVIOUS
<1>2. /\ Unfinished /\ Programming
      /\ pc = "gcdata" /\ pc' = "gccopy" /\ WriteData(dst) /\ gc'.rec = gc.rec
      /\ UNCHANGED <<op, lost, res>>
  BY <1>1 DEF IInv, TypeOK, ControlType, ContentInv, GcCopyData
<1>3. /\ StoreType /\ ControlType /\ src \in Sector /\ dst \in Sector /\ src # dst
      /\ Used(src)
  BY <1>1, <1>2, CopyStands
<1>4. flash[dst].log # <<>> /\ ToCopy # {} /\ e.st # "torn" /\ Last(flash[dst].log) = e
  BY <1>1, <1>2 DEF IInv, DataBegun, LayoutInv, Between, Last
<1>5. m \in LiveAt(flash[src].log)
  <2>1. ToCopy \subseteq Nat
    BY <1>1, <1>3, LiveItem DEF ToCopy
  <2>2. m \in ToCopy
    BY <1>1, <1>4, <2>1, LeastOfIsLeast
  <2> QED BY <1>1, <2>2 DEF ToCopy
<1>6. it.key = It(src, m).key /\ It(src, m).key \in Keys
  <2>1. it = [It(src, m) EXCEPT !.at = gc.d]
    BY <1>1 DEF Copied, It
  <2>2. It(src, m) \in Item
    BY <1>3, <1>5, LiveItem
  <2> QED BY <2>1, <2>2 DEF Item
<1>7. /\ SameItems /\ flash'[src] = flash[src]
      /\ \A t \in Sector : \A i \in LiveAt(flash[t].log) :
            ~ (t = dst /\ i = n) => flash'[t].log[i] = flash[t].log[i]
      /\ \A t \in Sector : (Used(t)' <=> Used(t)) /\ flash'[t].sn = flash[t].sn
  BY <1>1, <1>2, <1>3, <1>4, DataContents
<1>8. e.key = it.key
  BY <1>1, <1>2, <1>4 DEF Programming, Programmed
<1>9. \A k : k # it.key => Lookup(k)' = Lookup(k)
  BY <1>1, <1>7, <1>8, FinishedReads, SameReadsLookUp
<1>10. ASSUME it.key \notin lost' PROVE Lookup(it.key)' = Lookup(it.key)
  <2>1. It(src, m).st # "nodata"
    BY <1>1, <1>2, <1>3, <1>5, <1>6, <1>10 DEF Unfinished, Halfway
  <2>2. It(src, m).st = "using"
    BY <1>3, <1>5, <2>1, LiveItem
  <2>3. PICK k \in Keys : k = it.key
    BY <1>6
  <2>4. Reads(k, src, m) /\ Reads(k, src, m)'
    BY <1>3, <1>5, <1>6, <1>7, <2>2, <2>3 DEF Reads, It
  <2>5. Agreeing /\ Agreeing'
    BY <1>3, ItemsAgree, ItemsAgreeNext
  <2>6. Lookup(k) = flash[src].log[m].val
    BY <1>2, <1>3, <1>10, <2>3, <2>4, <2>5 DEF Agreeing
  <2>7. Lookup(k)' = flash'[src].log[m].val
    BY <1>2, <1>3, <1>10, <2>3, <2>4, <2>5 DEF Agreeing
  <2> QED BY <1>7, <2>3, <2>6, <2>7
<1>11. Keeps
  BY <1>2, <1>9, <1>10 DEF Keeps
<1>12. SameRequest
  BY <1>2 DEF SameRequest, Serving
<1> QED BY <1>11, <1>12, LoseStep

\* A sector that is given up: what it holds is read elsewhere.
LEMMA GiveUpStep ==
    ASSUME StoreType, StoreType', ContentInv, ContentInv', SparesAll, SameRequest,
           lost \subseteq lost', pc \in {"gccopy", "checkgc"}, pc' \in {"gcerase", "recerase"},
           NEW s \in Sector, SetState(s, "crash"), Used(s)
    PROVE  PromiseStep
<1>1. /\ flash'[s].hdr = "crash"
      /\ \A t \in Sector : flash'[t].sn = flash[t].sn /\ flash'[t].log = flash[t].log
      /\ \A t \in Sector \ {s} : flash'[t] = flash[t]
  BY StateFrame
<1>2. ~ Used(s)' /\ \A t \in Sector \ {s} : Used(t)' <=> Used(t)
  BY <1>1 DEF Used, IsUsed
<1>3. Complete /\ Spared(s)
  BY <1>1, QuietIsComplete DEF ContentInv, SparesAll, Used, IsUsed
<1>4. ASSUME NEW k \in Keys, k \notin lost' PROVE Lookup(k)' = Lookup(k)
  <2>1. CASE \E i : Reads(k, s, i)
    <3>1. PICK i : Reads(k, s, i)
      BY <2>1
    <3>2. PICK t \in Sector \ {s} : \E j \in LiveAt(flash'[t].log) :
             /\ IsUsed(flash'[t].hdr) /\ flash'[t].log[j].key = k
             /\ flash'[t].log[j].val = flash[s].log[i].val
      BY <1>3, <1>4, <3>1 DEF Spared, Reads
    <3>3. PICK j \in LiveAt(flash[t].log) :
             /\ Used(t) /\ It(t, j).key = k /\ It(t, j).val = flash[s].log[i].val
      BY <1>1, <3>2 DEF Used, It
    <3>4. It(t, j).st = "using"
      <4>1. It(t, j).st # "nodata"
        BY <1>3, <1>4, <3>3 DEF Complete
      <4> QED BY <3>3, <4>1, LiveItem
    <3>5. Reads(k, t, j)'
      BY <1>1, <1>2, <3>3, <3>4 DEF Reads, It
    <3>6. Agreeing /\ Agreeing'
      BY ItemsAgree, ItemsAgreeNext
    <3>7. Lookup(k) = flash[s].log[i].val
      BY <1>4, <3>1, <3>6 DEF Agreeing
    <3>8. Lookup(k)' = flash'[t].log[j].val
      BY <1>4, <3>5, <3>6 DEF Agreeing
    <3> QED BY <1>1, <3>3, <3>7, <3>8 DEF It
  <2>2. CASE \A i : ~ Reads(k, s, i)
    <3>1. ASSUME NEW t \in Sector, NEW i
          PROVE  /\ Reads(k, t, i)' <=> Reads(k, t, i)
                 /\ Reads(k, t, i) => /\ flash'[t].sn = flash[t].sn
                                      /\ flash'[t].log[i].val = flash[t].log[i].val
      <4>1. CASE t = s
        BY <1>2, <2>2, <4>1 DEF Reads
      <4>2. CASE t # s
        BY <1>1, <1>2, <4>2 DEF Reads
      <4> QED BY <4>1, <4>2
    <3>2. SameReads(k)
      BY <3>1 DEF SameReads
    <3> QED BY <3>2, SameReadsLookUp
  <2> QED BY <2>1, <2>2
<1>5. Keeps
  BY <1>4 DEF Keeps
<1> QED BY <1>5, LoseStep

LEMMA GcCrashStep ==
    ASSUME IInv, OrderInv, LayoutInv, ContentInv, StoreType', ContentInv', GcCrash
    PROVE  PromiseStep
<1>1. PICK src : src = gc.src
  OBVIOUS
<1>2. /\ pc = "gccopy" /\ pc' = "gcerase" /\ SetState(src, "crash") /\ lost' = lost
      /\ SameRequest
  BY <1>1 DEF GcCrash, SameRequest, Serving
<1>3. StoreType /\ src \in Sector /\ Used(src)
  BY <1>1, <1>2, CopyStands
<1>4. SparesAll
  BY GcCrashSpares
<1> QED BY <1>2, <1>3, <1>4, GiveUpStep

LEMMA CheckGcWipeStep ==
    ASSUME IInv, OrderInv, ContentInv, StoreType', ContentInv', CheckGcWipe
    PROVE  PromiseStep
<1>1. PICK c : c = Cur
  OBVIOUS
<1>2. /\ StoreType /\ ListsOK /\ Agree /\ pc = "checkgc" /\ pc' = "recerase"
      /\ ram[c].st = "using" /\ SetState(c, "crash")
      /\ lost \subseteq lost' /\ SameRequest
  BY <1>1 DEF IInv, TypeOK, OrderInv, CheckGcWipe, SameRequest, Serving
<1>3. c \in Sector
  BY <1>1, <1>2, CurActive
<1>4. Used(c)
  BY <1>2, <1>3 DEF Agree, Used, IsUsed
<1>5. SparesAll
  BY CheckGcWipeSpares
<1> QED BY <1>2, <1>3, <1>4, <1>5, GiveUpStep

-----------------------------------------------------------------------------
(* The refinement *)

LEMMA InitPromise ==
    ASSUME Init
    PROVE  Promise!KVInit
<1>1. /\ \A s \in Sector : ~ Used(s)
      /\ pc = "off" /\ op = NoOp /\ res = "none" /\ lost = {}
  BY DEF Init, Used, IsUsed, Blank
<1>2. \A k : Readable(k) = {}
  BY <1>1, ReadableAre DEF Reads
<1>3. \A k : Lookup(k) = NoValue
  BY <1>2, LookupOfNone
<1> QED BY <1>1, <1>3 DEF Promise!KVInit, Promise!NoReq, NoOp, Serving

LEMMA StutterPromise ==
    ASSUME UNCHANGED vars
    PROVE  PromiseStep
<1>1. flash' = flash /\ lost' = lost /\ SameRequest
  BY DEF vars, loaded, SameRequest, Serving
<1> QED BY <1>1, SameFlashUnread, QuietStep

LEMMA StepPromise ==
    ASSUME IInv, OrderInv, LayoutInv, ContentInv, IInv', ContentInv', [Next]_vars
    PROVE  PromiseStep
<1>1. StoreType /\ StoreType'
  BY DEF IInv, TypeOK
<1>2. CASE UNCHANGED vars
  BY <1>2, StutterPromise
<1>3. CASE WriteInit \/ GcInit \/ GcMark
  BY <1>3, HeaderSteps
<1>4. CASE RequestIdle \/ GcStart \/ CheckGcStart
  BY <1>4, TakeSteps
<1>5. CASE GcErase \/ CheckGcErase
  BY <1>5, EraseSteps
<1>6. CASE CheckWriteNothing \/ CheckGcNothing \/ CheckGcKeep
  BY <1>6, CheckSteps
<1>7. CASE WriteTooLong \/ WriteFull \/ RequestNoSpace
  BY <1>7, ErrorSteps
<1>8. CASE WriteItem \/ WriteItemData \/ EraseOld
  BY <1>1, <1>8, WriteItemStep, WriteItemDataStep, EraseOldStep
<1>9. CASE GcCopy \/ GcCopyData \/ GcCrash
  BY <1>1, <1>9, GcCopyStep, GcCopyDataStep, GcCrashStep
<1>10. CASE Load \/ LoadFinish
  BY <1>10, LoadStep, LoadFinishStep
<1>11. CASE CheckWriteData \/ CheckWriteOld \/ CheckGcWipe
  BY <1>1, <1>11, CheckWriteDataStep, CheckWriteOldStep, CheckGcWipeStep
<1>12. CASE Unload \/ PowerOff
  BY <1>12, FailSteps
<1>13. CASE Call
  <2>1. PICK k \in Keys : \/ \E v \in Values : SetSame(k, v) \/ SetBegin(k, v)
                          \/ Delete(k)
                          \/ \E t \in Types : Get(k, t)
    BY <1>13 DEF Call
  <2>2. CASE \E v \in Values : SetSame(k, v) \/ SetBegin(k, v)
    BY <2>2, SetSameStep, SetBeginStep
  <2>3. CASE Delete(k)
    BY <2>3, DeleteStep
  <2>4. CASE \E t \in Types : Get(k, t)
    BY <2>4, StutterPromise DEF Get
  <2> QED BY <2>1, <2>2, <2>3, <2>4
<1> QED BY <1>2, <1>3, <1>4, <1>5, <1>6, <1>7, <1>8, <1>9, <1>10, <1>11, <1>12, <1>13
        DEF Next, Step

\* Behaviour: the whole storage engine, with every interleaving of calls, collections,
\* starts and power failures, is an implementation of the map of KVStore: an acknowledged
\* set is read from then on, and one that was refused or cut short leaves the old value
\* or the new one.
THEOREM StoreKeepsPromise == Spec => KeepsPromise
<1>1. Init => Promise!KVInit
  BY InitPromise
<1>2. IInv /\ OrderInv /\ LayoutInv /\ ContentInv /\ IInv' /\ ContentInv' /\ [Next]_vars
      => [Promise!KVNext]_(Promise!kvars)
  BY StepPromise DEF PromiseStep
<1> QED BY <1>1, <1>2, InvariantHolds, OrderHolds, LayoutHolds, ContentHolds, PTL
        DEF Spec, KeepsPromise, Promise!KVSpec

=============================================================================
