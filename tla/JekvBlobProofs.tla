--------------------------- MODULE JekvBlobProofs ---------------------------
(***************************************************************************)
(* For partitions of every size, blobs of every size that the numbers of   *)
(* their segments allow, and any number of power failures: with blobs too  *)
(* the data of the store keep their types and the two lists of the sector  *)
(* manager hold each sector once, every item a blob needs is one the       *)
(* sector can hold a key and a value of, and the program of a blob takes   *)
(* no more numbers than there are.  One lemma per action says that it      *)
(* keeps BlobInv; the steps a blob shares with an item keep what they keep *)
(* for JekvStore.                                                          *)
(***************************************************************************)
EXTENDS JekvBlob, JekvStoreInvariant

-----------------------------------------------------------------------------
(* Names, sizes and numbers *)

LEMMA NamesAreKeys == Names \subseteq Keys /\ SegKey \subseteq Keys /\ NoValue \notin Names
BY BlobAssumption, NoValueAssumption

LEMMA ValueKinds ==
    /\ Small \subseteq Values /\ Seg \subseteq Values /\ Desc \subseteq Values
    /\ NoValue \notin Seg
    /\ \A v \in Small : v \notin Seg
    /\ \A v \in Values : v \in Desc <=> IsBlob(v)
BY BlobAssumption, NoValueAssumption DEF IsBlob

\* The sizes of blobs have a largest.
LEMMA BlobSizes ==
    ASSUME NEW b \in Blobs
    PROVE  /\ BlobSize[b] \in Nat /\ BlobSize[b] >= 1 /\ BlobSize[b] \in Sizes
           /\ BlobSize[b] <= SegNumMax * MinSeg
           /\ MostOf(Sizes) \in Nat /\ BlobSize[b] <= MostOf(Sizes)
<1>1. /\ SegNumMax * MinSeg \in Int
      /\ \A c \in Blobs : BlobSize[c] \in Nat /\ BlobSize[c] >= 1
                          /\ BlobSize[c] <= SegNumMax * MinSeg
  BY SegNumAssumption
<1>2. /\ Sizes \subseteq Int /\ BlobSize[b] \in Sizes
      /\ \A x \in Sizes : x <= SegNumMax * MinSeg
  BY <1>1 DEF Sizes
<1>3. MostOf(Sizes) \in Sizes /\ \A y \in Sizes : y <= MostOf(Sizes)
  <2> SUFFICES ASSUME NEW m, m = SegNumMax * MinSeg, m \in Int,
                      Sizes # {}, \A x \in Sizes : x <= m
               PROVE  MostOf(Sizes) \in Sizes /\ \A y \in Sizes : y <= MostOf(Sizes)
    BY <1>1, <1>2
  <2> QED BY <1>2, MostOfIsMost
<1>4. MostOf(Sizes) \in Nat
  BY <1>1, <1>3 DEF Sizes
<1> QED BY <1>1, <1>2, <1>3, <1>4

\* A blob that is not complete has had less than the largest number of segments.
LEMMA NumbersLeft ==
    ASSUME NEW b \in Blobs, NEW cnt \in Nat, NEW done \in Nat,
           cnt * MinSeg <= done, done < BlobSize[b]
    PROVE  cnt < SegNumMax
<1>1. cnt * MinSeg < SegNumMax * MinSeg
  <2> SUFFICES ASSUME NEW x \in Int, NEW y \in Int, x = cnt * MinSeg, y = SegNumMax * MinSeg
               PROVE  x < y
    BY SegNumAssumption
  <2> QED BY BlobSizes
<1>2. MinSeg \in Nat /\ MinSeg > 0 /\ SegNumMax \in Nat
  BY SegNumAssumption
<1>3. ASSUME SegNumMax <= cnt PROVE SegNumMax * MinSeg <= cnt * MinSeg
  <2>1. PICK d \in Nat : cnt = SegNumMax + d
    <3>1. cnt - SegNumMax \in Nat /\ cnt = SegNumMax + (cnt - SegNumMax)
      BY <1>2, <1>3
    <3> QED BY <3>1
  <2>2. cnt * MinSeg = SegNumMax * MinSeg + d * MinSeg
    BY <1>2, <2>1
  <2>3. d * MinSeg >= 0
    BY <1>2
  <2> QED BY <1>2, <2>2, <2>3
<1> QED BY <1>1, <1>2, <1>3

-----------------------------------------------------------------------------
(* Between the items of a call *)

LEMMA CollectRests ==
    CollectInv /\ pc \in {"ready", "write", "data", "eraseold", "finish"} => Resting
BY DEF CollectInv, TypeOK, ControlType, Headers, Resting

LEMMA CollectRestsNext ==
    (CollectInv /\ pc \in {"ready", "write", "data", "eraseold", "finish"} => Resting)'
BY CollectRests, PTL

\* Where an item, a collection or a call on anything else may go on from.
LEMMA RestCollects ==
    /\ Resting
    /\ \/ pc = "ready"
       \/ pc = "write" /\ OpSet
       \/ pc \in {"gcinit", "gcmark"} /\ GcSet
    => CollectInv
BY DEF CollectInv, TypeOK, ControlType, Headers, Resting, DataBegun, Recovering, InGc

LEMMA RestCollectsNext ==
    (/\ Resting
     /\ \/ pc = "ready"
        \/ pc = "write" /\ OpSet
        \/ pc \in {"gcinit", "gcmark"} /\ GcSet
     => CollectInv)'
BY RestCollects, PTL

LEMMA BlobIsOne == BlobSet => bl # NoBlob
BY NamesAreKeys DEF BlobSet, NoBlob

LEMMA BlobIsOneNext == (BlobSet => bl # NoBlob)'
BY BlobIsOne, PTL

Pcs == {"off", "ready", "write", "data", "eraseold", "gcinit", "gcmark", "gccopy", "gcdata",
        "gcerase", "checkwrite", "checkgc", "recerase", "recgc", "finish"}

\* A call that is not on a blob, and a start, find the store as JekvStore leaves it.
LEMMA StoreServes ==
    ASSUME BlobInv, pc \in Pcs
    PROVE  CollectInv /\ (bl = NoBlob => IInv)
<1>1. CollectInv /\ (bl = NoBlob /\ Calling => OpSet)
  BY DEF BlobInv, BetweenPcs, Pcs
<1> QED BY <1>1, IInvCollects

LEMMA FromStore ==
    ASSUME IInv', bl' = NoBlob, chk' \in {"load", "match", "drop", "done"},
           chk' \in {"match", "drop"} => pc' = "ready", Calling' => op'.v \notin Seg
    PROVE  BlobInv'
<1>1. CollectInv' /\ (Calling' => OpSet')
  BY IInvCollectsNext
<1>2. pc' \in Pcs
  BY <1>1 DEF CollectInv, TypeOK, ControlType, Pcs
<1>3. pc' \notin BetweenPcs \union {"erasesegs"} /\ pc' # "blobdesc"
  BY <1>2 DEF Pcs, BetweenPcs
<1> QED BY <1>1, <1>3 DEF BlobInv, BetweenPcs

\* Without a blob the store rests.
LEMMA FromReady ==
    ASSUME Resting', pc' = "ready", bl' = NoBlob,
           chk' \in {"load", "match", "drop", "done"}
    PROVE  BlobInv'
<1>1. CollectInv'
  BY RestCollectsNext
<1>2. ~ Calling'
  BY DEF Calling, InGc
<1> QED BY <1>1, <1>2 DEF BlobInv, BetweenPcs

LEMMA ReadyRests ==
    ASSUME BlobInv, pc = "ready"
    PROVE  Resting /\ bl = NoBlob
<1>1. bl = NoBlob
  BY DEF BlobInv, BetweenPcs, InGc
<1>2. CollectInv
  BY StoreServes DEF Pcs
<1> QED BY <1>1, <1>2, CollectRests

\* A step of the program between two items.
LEMMA FromBetween ==
    ASSUME Resting', pc' \in BetweenPcs, BlobSet', BlobInv, UNCHANGED chk,
           chk \notin {"match", "drop"}, pc' = "blobdesc" => bl'.done = BlobSize[bl'.b]
    PROVE  BlobInv'
<1>1. bl' # NoBlob
  BY BlobIsOneNext
<1> QED BY <1>1 DEF BlobInv, BetweenPcs

\* Flash and RAM change by what keeps their types and the states of the sectors.
LEMMA RestingKept ==
    ASSUME Resting, flash' \in [Sector -> FlashSector], ram' \in [Sector -> RamSector],
           \A t \in Sector : flash'[t].hdr = flash[t].hdr,
           UNCHANGED <<active, idle, serial, gc, crashes>>,
           op' \in [k : Keys \union {NoValue}, v : Values \union {NoValue}, found : BOOLEAN,
                    sec : Sector, at : Nat, old : Values \union {NoValue}, retry : BOOLEAN],
           res' \in {"none", "ok", "toolong", "full", "nospace", "notfound"},
           lost' \in SUBSET Keys
    PROVE  Resting'
<1>1. StoreType' /\ ListsOK'
  BY DEF Resting, StoreType, ListsOK
<1>2. \A s \in Sector : ~ IsDeleting(s)'
  BY DEF Resting, IsDeleting
<1> QED BY <1>1, <1>2 DEF Resting

LEMMA NoOpType ==
    NoOp \in [k : Keys \union {NoValue}, v : Values \union {NoValue}, found : BOOLEAN,
              sec : Sector, at : Nat, old : Values \union {NoValue}, retry : BOOLEAN]
BY SecNumAssumption DEF NoOp, Sector

LEMMA NothingChanges ==
    ASSUME Resting, UNCHANGED <<flash, ram>>
    PROVE  /\ flash' \in [Sector -> FlashSector] /\ ram' \in [Sector -> RamSector]
           /\ \A t \in Sector : flash'[t].hdr = flash[t].hdr
BY DEF Resting, StoreType

\* An item that a lookup finds is dropped.
LEMMA FoundDropped ==
    ASSUME Resting, NEW k, NEW ts, FindItem(k, ts).found,
           NEW span \in Nat,
           DropItem(FindItem(k, ts).sec, FoundItem(FindItem(k, ts)).at, span)
    PROVE  /\ flash' \in [Sector -> FlashSector] /\ ram' \in [Sector -> RamSector]
           /\ \A t \in Sector : flash'[t].hdr = flash[t].hdr
<1>1. PICK f : f = FindItem(k, ts)
  OBVIOUS
<1>2. PICK it : it = FoundItem(f)
  OBVIOUS
<1>3. StoreType
  BY DEF Resting
<1>4. f.sec \in Sector /\ it \in Item
  BY <1>1, <1>2, <1>3, FindItemType
<1>5. it.at \in Nat /\ DropItem(f.sec, it.at, span)
  BY <1>1, <1>2, <1>4 DEF Item
<1> QED BY <1>3, <1>4, <1>5, DropItemKeeps

-----------------------------------------------------------------------------
(* Calls that are not on a blob, starts and power failures *)

\* Where the steps of JekvStore are taken from, and that they leave a call its value.
LEMMA StepIsAt == Step => pc \in Pcs \ {"ready"}
BY DEF Step, Pcs, WriteInit, WriteTooLong, WriteItem, WriteItemData, WriteFull, EraseOld,
       CanWrite, NeedSector, RequestIdle, RequestNoSpace, GcStart, GcInit, GcMark, GcCopy,
       GcCopyData, GcCrash, GcErase, Load, CheckWriteNothing, CheckWriteData, CheckWriteOld,
       CheckGcNothing, CheckGcWipe, CheckGcErase, CheckGcKeep, CheckGcStart, LoadFinish

LEMMA StepValue ==
    ASSUME ControlType, Step, Calling'
    PROVE  Calling /\ op'.v = op.v
<1>1. CASE WriteInit \/ WriteItem \/ WriteItemData
  <2>1. UNCHANGED op /\ pc \in {"write", "data"}
    BY <1>1 DEF WriteInit, WriteItem, CanWrite, WriteItemData
  <2> QED BY <2>1 DEF Calling
<1>2. CASE WriteTooLong \/ WriteFull \/ EraseOld \/ RequestNoSpace \/ LoadFinish
  <2>1. pc' = "ready"
    BY <1>2 DEF WriteTooLong, WriteFull, EraseOld, RequestNoSpace, Return, LoadFinish
  <2> QED BY <2>1 DEF Calling, InGc
<1>3. CASE RequestIdle \/ GcStart
  <2>1. pc = "write" /\ op' = [op EXCEPT !.retry = TRUE]
    BY <1>3 DEF RequestIdle, GcStart, NeedSector
  <2>2. op'.v = op.v
    BY <2>1 DEF ControlType
  <2> QED BY <2>1, <2>2 DEF Calling
<1>4. CASE GcInit \/ GcMark \/ GcCopy \/ GcCopyData \/ GcCrash
  <2>1. UNCHANGED op /\ InGc
    BY <1>4 DEF GcInit, GcMark, GcCopy, GcCopyData, GcCrash, InGc
  <2>2. \/ gc' = gc
        \/ \E i, d : gc' = [gc EXCEPT !.i = i, !.d = d]
    BY <1>4 DEF GcInit, GcMark, GcCopy, GcCopyData, GcCrash, ControlType
  <2>3. gc'.rec = gc.rec
    BY <2>2 DEF ControlType
  <2>4. pc' \in {"gcinit", "gcmark", "gccopy", "gcdata", "gcerase"}
    <3>1. pc' \notin {"write", "data", "eraseold"}
      BY <1>4 DEF GcInit, GcMark, GcCopy, GcCopyData, GcCrash
    <3> QED BY <3>1 DEF Calling, InGc
  <2> QED BY <2>1, <2>3, <2>4 DEF Calling, InGc
<1>5. CASE GcErase
  <2>1. UNCHANGED op /\ pc = "gcerase" /\ pc' = IF gc.rec THEN "finish" ELSE "write"
    BY <1>5 DEF GcErase
  <2>2. ~ gc.rec
    BY <2>1 DEF Calling, InGc
  <2> QED BY <2>1, <2>2 DEF Calling, InGc
<1>6. CASE Load \/ CheckWriteNothing \/ CheckWriteData \/ CheckWriteOld \/ CheckGcNothing
           \/ CheckGcWipe \/ CheckGcErase \/ CheckGcKeep
  <2>1. pc' \in {"checkwrite", "checkgc", "finish", "recerase", "recgc"}
    BY <1>6 DEF Load, CheckWriteNothing, CheckWriteData, CheckWriteOld, CheckGcNothing,
                CheckGcWipe, CheckGcErase, CheckGcKeep
  <2> QED BY <2>1 DEF Calling, InGc
<1>7. CASE CheckGcStart
  <2>1. gc'.rec = TRUE /\ pc' \in {"gcinit", "gccopy"}
    BY <1>7 DEF CheckGcStart
  <2> QED BY <2>1 DEF Calling, InGc
<1> QED BY <1>1, <1>2, <1>3, <1>4, <1>5, <1>6, <1>7 DEF Step

LEMMA StoreStepKeeps ==
    ASSUME BlobInv, StoreStep
    PROVE  BlobInv'
<1>1. bl = NoBlob /\ Step /\ UNCHANGED <<bl, chk>>
  BY DEF StoreStep, checking
<1>2. pc \in Pcs /\ pc # "ready"
  BY <1>1, StepIsAt
<1>3. IInv
  BY <1>1, <1>2, StoreServes
<1>4. IInv'
  BY <1>1, <1>3, StepKeeps DEF Next
<1>5. chk \in {"load", "done"}
  BY <1>2 DEF BlobInv
<1>6. Calling' => op'.v \notin Seg
  <2> SUFFICES ASSUME Calling' PROVE op'.v \notin Seg
    OBVIOUS
  <2>1. Calling /\ op'.v = op.v
    BY <1>1, <1>3, StepValue DEF IInv, TypeOK
  <2>2. op.v \notin Seg
    BY <1>1, <1>2, <2>1 DEF BlobInv, Pcs, BetweenPcs
  <2> QED BY <2>1, <2>2
<1> QED BY <1>1, <1>4, <1>5, <1>6, FromStore

LEMMA SmallCallKeeps ==
    ASSUME BlobInv, NEW n \in Names, SmallCall(n)
    PROVE  BlobInv'
<1>1. /\ chk = "done" /\ UNCHANGED <<bl, chk>> /\ n \in Keys
      /\ \/ \E v \in Small : SetSame(n, v) \/ SetBegin(n, v)
         \/ Delete(n)
  BY NamesAreKeys DEF SmallCall, checking
<1>2. pc = "ready"
  BY <1>1 DEF SetSame, SetBegin, Delete
<1>3. bl = NoBlob /\ IInv
  BY <1>2, ReadyRests, StoreServes DEF Pcs
<1>4. CASE \E v \in Small : SetSame(n, v) \/ SetBegin(n, v)
  <2>1. PICK v \in Small : SetSame(n, v) \/ SetBegin(n, v)
    BY <1>4
  <2>2. v \in Values /\ v \notin Seg
    BY ValueKinds
  <2>3. IInv'
    BY <1>1, <1>3, <2>1, <2>2, SetSameKeeps, SetBeginKeeps
  <2>4. Calling' => op'.v = v
    <3>1. CASE SetSame(n, v)
      BY <1>2, <3>1 DEF SetSame, Calling, InGc
    <3>2. CASE SetBegin(n, v)
      BY <3>2 DEF SetBegin
    <3> QED BY <2>1, <3>1, <3>2
  <2> QED BY <1>1, <1>3, <2>2, <2>3, <2>4, FromStore
<1>5. CASE Delete(n)
  <2>1. IInv'
    BY <1>1, <1>3, <1>5, DeleteKeeps
  <2>2. ~ Calling'
    BY <1>2, <1>5 DEF Delete, Calling, InGc
  <2> QED BY <1>1, <1>3, <2>1, <2>2, FromStore
<1> QED BY <1>1, <1>4, <1>5

LEMMA BlobUnloadKeeps ==
    ASSUME BlobInv, BlobUnload
    PROVE  BlobInv'
<1>1. pc = "ready" /\ Unload /\ chk' = "load" /\ UNCHANGED bl /\ pc' = "off"
  BY DEF BlobUnload, Serves, Unload
<1>2. bl = NoBlob /\ IInv
  BY <1>1, ReadyRests, StoreServes DEF Pcs
<1>3. IInv'
  BY <1>1, <1>2, UnloadKeeps
<1>4. ~ Calling'
  BY <1>1 DEF Calling, InGc
<1> QED BY <1>1, <1>2, <1>3, <1>4, FromStore

\* Power may fail between two items as well: no program is cut short then.
LEMMA PowerOffRests ==
    ASSUME Resting, pc \in BetweenPcs \union {"erasesegs"}, PowerOff
    PROVE  IInv'
<1>1. /\ pc \notin {"write", "data", "eraseold", "gcinit", "gccopy"}
  BY DEF BetweenPcs
<1>2. Torn = {flash}
  BY <1>1 DEF Torn, CanWrite
<1>3. /\ pc' = "off" /\ UNCHANGED <<flash, op, res, lost>>
      /\ ram' = [s \in Sector |-> Unloaded]
      /\ active' = <<>> /\ idle' = <<>> /\ serial' = 0 /\ gc' = NoGc
      /\ crashes' = crashes + 1
  BY <1>1, <1>2 DEF PowerOff
<1>4. StoreType'
  BY <1>3, BlankType DEF Resting, StoreType
<1>5. ControlType'
  BY <1>3, SecNumAssumption DEF Resting, ControlType, NoGc, Sector
<1>6. Headers'
  BY <1>3 DEF Resting, Headers, IsDeleting
<1> QED BY <1>3, <1>4, <1>5, <1>6 DEF IInv, TypeOK, InGc, Calling, DataBegun, Recovering

LEMMA BlobPowerOffKeeps ==
    ASSUME BlobInv, BlobPowerOff
    PROVE  BlobInv'
<1>1. PowerOff /\ bl' = NoBlob /\ chk' = "load" /\ pc' = "off"
  BY DEF BlobPowerOff, PowerOff
<1>2. IInv'
  <2>1. CASE pc \in BetweenPcs \union {"erasesegs"}
    BY <1>1, <2>1, PowerOffRests DEF BlobInv
  <2>2. CASE pc \notin BetweenPcs \union {"erasesegs"}
    BY <1>1, <2>2, PowerOffKeeps DEF BlobInv
  <2> QED BY <2>1, <2>2
<1>3. ~ Calling'
  BY <1>1 DEF Calling, InGc
<1> QED BY <1>1, <1>2, <1>3, FromStore

-----------------------------------------------------------------------------
(* Calls on a blob begin, and the checks of a start *)

\* Calls that only say how they ended, or drop what they found.
LEMMA SetBlobEndsKeeps ==
    ASSUME BlobInv, NEW n, NEW b, SetBlobSame(n, b) \/ SetBlobNoSpace(n, b)
    PROVE  BlobInv'
<1>1. /\ pc = "ready" /\ chk = "done" /\ res' \in {"ok", "nospace"}
      /\ UNCHANGED <<flash, ram, active, idle, serial, pc, op, gc, lost, crashes, bl, chk>>
  BY DEF SetBlobSame, SetBlobNoSpace, Serves, loaded, bvars, checking
<1>2. Resting /\ bl = NoBlob
  BY <1>1, ReadyRests
<1>3. Resting'
  BY <1>1, <1>2, NothingChanges, RestingKept DEF Resting
<1> QED BY <1>1, <1>2, <1>3, FromReady

LEMMA BlobReadKeeps ==
    ASSUME BlobInv, NEW n, BlobRead(n)
    PROVE  BlobInv'
<1>1. PICK f : f = FindItem(n, {"blob"})
  OBVIOUS
<1>2. /\ pc = "ready" /\ chk = "done"
      /\ \/ f.found /\ DropItem(f.sec, FoundItem(f).at, 1)
         \/ UNCHANGED <<flash, ram>>
      /\ UNCHANGED <<active, idle, serial, pc, op, gc, res, lost, crashes, bl, chk>>
  BY <1>1 DEF BlobRead, Serves, bvars, checking
<1>3. Resting /\ bl = NoBlob
  BY <1>2, ReadyRests
<1>4. /\ flash' \in [Sector -> FlashSector] /\ ram' \in [Sector -> RamSector]
      /\ \A t \in Sector : flash'[t].hdr = flash[t].hdr
  BY <1>1, <1>2, <1>3, FoundDropped, NothingChanges
<1>5. Resting'
  BY <1>2, <1>3, <1>4, RestingKept DEF Resting
<1> QED BY <1>2, <1>3, <1>5, FromReady

\* The segments of a deleted blob are still to be erased.
LEMMA FromErasing ==
    ASSUME BlobInv, Resting', pc' = "erasesegs", bl' = NoBlob, chk' = chk,
           chk \notin {"match", "drop"}
    PROVE  BlobInv'
BY DEF BlobInv, BetweenPcs

LEMMA BlobDeleteKeeps ==
    ASSUME BlobInv, NEW n \in Names, BlobDelete(n)
    PROVE  BlobInv'
<1>1. PICK f : f = FindItem(n, Types)
  OBVIOUS
<1>2. PICK it : it = FoundItem(f)
  OBVIOUS
<1>3. /\ pc = "ready" /\ chk = "done" /\ f.found
      /\ DropItem(f.sec, it.at, 1)
      /\ op' = [NoOp EXCEPT !.k = n, !.found = TRUE, !.old = it.val]
      /\ pc' = "erasesegs"
      /\ UNCHANGED <<active, idle, serial, gc, res, lost, crashes, bl, chk>>
  BY <1>1, <1>2 DEF BlobDelete, Serves, checking
<1>4. Resting /\ bl = NoBlob
  BY <1>3, ReadyRests
<1>5. it \in Item
  BY <1>1, <1>2, <1>3, <1>4, FindItemType DEF Resting
<1>6. /\ flash' \in [Sector -> FlashSector] /\ ram' \in [Sector -> RamSector]
      /\ \A t \in Sector : flash'[t].hdr = flash[t].hdr
  BY <1>1, <1>2, <1>3, <1>4, FoundDropped
<1>7. op' \in [k : Keys \union {NoValue}, v : Values \union {NoValue}, found : BOOLEAN,
               sec : Sector, at : Nat, old : Values \union {NoValue}, retry : BOOLEAN]
  <2>1. n \in Keys /\ it.val \in Values
    BY <1>5, NamesAreKeys DEF Item
  <2> QED BY <1>3, <2>1, NoOpType DEF NoOp
<1>8. Resting'
  BY <1>3, <1>4, <1>6, <1>7, RestingKept DEF Resting
<1> QED BY <1>3, <1>4, <1>8, FromErasing

LEMMA SetBlobBeginKeeps ==
    ASSUME BlobInv, NEW n \in Names, NEW b \in Blobs, SetBlobBegin(n, b)
    PROVE  BlobInv'
<1>1. PICK f : f = FindItem(n, Types)
  OBVIOUS
<1>2. PICK it : it = FoundItem(f)
  OBVIOUS
<1>3. PICK old : old = IF f.found THEN it.val ELSE NoValue
  OBVIOUS
<1>4. /\ pc = "ready" /\ chk = "done" /\ pc' \in {"blobreq", "blob"} /\ res' = "none"
      /\ bl' = [n |-> n, b |-> b, done |-> 0, cnt |-> 0,
                start |-> IF f.found /\ IsBlob(old) /\ old.start = 0 THEN VerOne ELSE 0,
                from  |-> IF Dirty(b) THEN NoSector ELSE Cur,
                found |-> f.found, sec |-> f.sec,
                at    |-> IF f.found THEN it.at ELSE 0, old |-> old, serial |-> serial]
      /\ UNCHANGED <<flash, ram, active, idle, serial, op, gc, lost, crashes, chk>>
  BY <1>1, <1>2, <1>3 DEF SetBlobBegin, Serves, loaded, checking
<1>5. Resting
  BY <1>4, ReadyRests
<1>6. /\ f.found \in BOOLEAN /\ f.sec \in Sector /\ (f.found => it \in Item)
      /\ Cur \in Sector /\ serial \in Nat
  BY <1>1, <1>2, <1>5, FindItemType, CurActive DEF Resting, StoreType
<1>7. /\ (IF f.found THEN it.at ELSE 0) \in Nat /\ old \in Values \union {NoValue}
      /\ f.found => old \in Values
  BY <1>3, <1>6 DEF Item
<1>8. (IF Dirty(b) THEN NoSector ELSE Cur) \in 0 .. SecNum
  BY <1>6, SecNumAssumption DEF NoSector, Sector
<1>9. BlobSet'
  <2>1. /\ bl'.n = n /\ bl'.b = b /\ bl'.done = 0 /\ bl'.cnt = 0 /\ bl'.found = f.found
        /\ bl'.old = old
    BY <1>4
  <2>2. bl' \in [n : Names, b : Blobs, start : Starts, done : Nat, cnt : Nat,
                 from : 0 .. SecNum, found : BOOLEAN, sec : Sector, at : Nat,
                 old : Values \union {NoValue}, serial : Nat]
    <3>1. PICK x, y, z : /\ x = IF f.found /\ IsBlob(old) /\ old.start = 0 THEN VerOne ELSE 0
                         /\ y = IF Dirty(b) THEN NoSector ELSE Cur
                         /\ z = IF f.found THEN it.at ELSE 0
      OBVIOUS
    <3>2. x \in Starts /\ y \in 0 .. SecNum /\ z \in Nat
      BY <1>7, <1>8, <3>1 DEF Starts
    <3>3. bl' = [n |-> n, b |-> b, done |-> 0, cnt |-> 0, start |-> x, from |-> y,
                 found |-> f.found, sec |-> f.sec, at |-> z, old |-> old, serial |-> serial]
      BY <1>4, <3>1
    <3> QED BY <1>6, <1>7, <3>2, <3>3
  <2>3. 0 * MinSeg <= 0 /\ 0 <= SegNumMax /\ 0 <= BlobSize[b]
    BY SegNumAssumption, BlobSizes
  <2> QED BY <1>7, <2>1, <2>2, <2>3 DEF BlobSet
<1>10. Resting'
  BY <1>4, <1>5, NothingChanges, RestingKept DEF Resting
<1> QED BY <1>4, <1>9, <1>10, FromBetween DEF BetweenPcs

\* Of the places in the sectors there is a first one.
LEMMA FirstExists ==
    ASSUME NEW S, \A c \in S : c[1] \in Nat /\ c[2] \in Nat, S # {}
    PROVE  FirstOf(S) \in S
<1> DEFINE M == {c[1] : c \in S}
<1>1. PICK m \in M : \A x \in M : m <= x
  <2>1. M \subseteq Nat /\ M # {}
    OBVIOUS
  <2> HIDE DEF M
  <2> QED BY <2>1, LeastExists
<1> DEFINE I == {c[2] : c \in {d \in S : d[1] = m}}
<1>2. PICK i \in I : \A x \in I : i <= x
  <2>1. I \subseteq Nat /\ I # {}
    BY <1>1
  <2> HIDE DEF I, M
  <2> QED BY <2>1, LeastExists
<1>3. PICK c \in S : c[1] = m /\ c[2] = i
  BY <1>2
<1>4. ASSUME NEW d \in S PROVE c[1] < d[1] \/ (c[1] = d[1] /\ c[2] <= d[2])
  <2>1. m <= d[1] /\ m \in Nat /\ d[1] \in Nat
    BY <1>1
  <2>2. CASE d[1] = m
    BY <1>2, <1>3, <2>2
  <2>3. CASE d[1] # m
    BY <1>3, <2>1, <2>3
  <2> QED BY <2>2, <2>3
<1>5. \E e \in S : \A d \in S : e[1] < d[1] \/ (e[1] = d[1] /\ e[2] <= d[2])
  BY <1>4
<1> QED BY <1>5 DEF FirstOf

\* Nothing but the progress of the check changes.
LEMMA CheckBlobsKeeps ==
    ASSUME BlobInv, CheckBlobs \/ MatchDone \/ CheckDone
    PROVE  BlobInv'
<1>1. /\ pc = "ready" /\ chk' \in {"match", "drop", "done"}
      /\ UNCHANGED <<flash, ram, active, idle, serial, pc, op, gc, res, lost, crashes, bl>>
  BY DEF CheckBlobs, MatchDone, CheckDone, loaded, BlobInv
<1>2. Resting /\ bl = NoBlob
  BY <1>1, ReadyRests
<1>3. Resting'
  BY <1>1, <1>2, NothingChanges, RestingKept DEF Resting
<1> QED BY <1>1, <1>2, <1>3, FromReady

\* What a lookup from some slice on finds is an item of a sector.
LEMMA FindFromType ==
    ASSUME StoreType, NEW k, NEW ts, NEW from, NEW f, f = FindFrom(k, ts, from), f.found
    PROVE  f.sec \in Sector /\ FoundItem(f) \in Item
<1> DEFINE M(s) == {i \in Matches(flash[s], ram[s], k, ts) : flash[s].log[i].at >= from}
           Has  == {m \in DOMAIN active : M(active[m]) # {}}
<1>1. PICK s : s = active[LeastOf(Has)]
  OBVIOUS
<1>2. PICK i : i = LeastOf(M(s))
  OBVIOUS
<1>3. Has # {} /\ f = [found |-> TRUE, sec |-> s, i |-> i]
  BY <1>1, <1>2 DEF FindFrom
<1>4. /\ \A m \in DOMAIN active : active[m] \in Sector
      /\ Has \subseteq Nat
  BY DEF StoreType
<1>5. LeastOf(Has) \in Has
  BY <1>3, <1>4, LeastOfIsLeast
<1>6. s \in Sector /\ M(s) # {}
  BY <1>1, <1>4, <1>5
<1>7. /\ Matches(flash[s], ram[s], k, ts) \subseteq Nat
      /\ \A j \in Matches(flash[s], ram[s], k, ts) : flash[s].log[j] \in Item
  BY <1>6, MatchesType
<1>8. i \in M(s)
  <2>1. M(s) \subseteq Nat
    BY <1>7
  <2> QED BY <1>2, <1>6, <2>1, LeastOfIsLeast
<1>9. flash[s].log[i] \in Item
  BY <1>7, <1>8
<1> QED BY <1>3, <1>6, <1>9 DEF FoundItem

LEMMA MismatchDropKeeps ==
    ASSUME BlobInv, MatchDrop
    PROVE  BlobInv'
<1>1. /\ chk = "match" /\ pc = "ready"
      /\ UNCHANGED <<active, idle, serial, pc, op, gc, res, lost, crashes, bl, chk>>
  BY DEF MatchDrop, BlobInv
<1>2. Resting /\ bl = NoBlob
  BY <1>1, ReadyRests
<1>3. \E k : LET f == FindFrom(k, {"blob"}, item_index)
             IN  IF f.found THEN DropItem(f.sec, FoundItem(f).at, 1)
                            ELSE UNCHANGED <<flash, ram>>
  BY DEF MatchDrop
<1>4. PICK k : LET f == FindFrom(k, {"blob"}, item_index)
               IN  IF f.found THEN DropItem(f.sec, FoundItem(f).at, 1)
                              ELSE UNCHANGED <<flash, ram>>
  BY <1>3
<1>5. PICK f : f = FindFrom(k, {"blob"}, item_index)
  OBVIOUS
<1>6. /\ flash' \in [Sector -> FlashSector] /\ ram' \in [Sector -> RamSector]
      /\ \A t \in Sector : flash'[t].hdr = flash[t].hdr
  <2>1. CASE f.found
    <3>1. StoreType /\ DropItem(f.sec, FoundItem(f).at, 1)
      BY <1>2, <1>4, <1>5, <2>1 DEF Resting
    <3>2. f.sec \in Sector /\ FoundItem(f) \in Item
      BY <1>5, <2>1, <3>1, FindFromType
    <3>3. FoundItem(f).at \in Nat
      BY <3>2 DEF Item
    <3> QED BY <3>1, <3>2, <3>3, DropItemKeeps
  <2>2. CASE ~ f.found
    BY <1>2, <1>4, <1>5, <2>2, NothingChanges
  <2> QED BY <2>1, <2>2
<1>7. Resting'
  BY <1>1, <1>2, <1>6, RestingKept DEF Resting
<1> QED BY <1>1, <1>2, <1>7, FromReady

LEMMA DropOrphanKeeps ==
    ASSUME BlobInv, DropOrphan
    PROVE  BlobInv'
<1>1. /\ chk = "drop" /\ Orphans # {} /\ pc = "ready"
      /\ UNCHANGED <<active, idle, serial, pc, op, gc, res, lost, crashes, bl, chk>>
  BY DEF DropOrphan, BlobInv, bvars, checking
<1>2. Resting /\ bl = NoBlob
  BY <1>1, ReadyRests
<1>3. PICK c : c = FirstOf(Orphans)
  OBVIOUS
<1>4. ASSUME NEW d \in Orphans
      PROVE  /\ d[1] \in Nat /\ d[2] \in Nat
             /\ active[d[1]] \in Sector /\ ItemAt(d) \in Item
  <2>1. PICK m \in DOMAIN active : \E i \in LiveAt(flash[active[m]].log) : d = <<m, i>>
    BY DEF Orphans, ItemsOf
  <2>2. PICK i \in LiveAt(flash[active[m]].log) : d = <<m, i>>
    BY <2>1
  <2>3. m \in Nat /\ active[m] \in Sector
    BY <1>2 DEF Resting, StoreType
  <2>4. PICK s : s = active[m] /\ s \in Sector
    BY <2>3
  <2>5. i \in LiveAt(flash[s].log)
    BY <2>2, <2>4
  <2>6. i \in 1 .. Len(flash[s].log) /\ Len(flash[s].log) \in Nat /\ flash[s].log[i] \in Item
    BY <1>2, <2>4, <2>5, LiveType DEF Resting
  <2>7. d[1] = m /\ d[2] = i
    BY <2>2
  <2> QED BY <2>3, <2>4, <2>6, <2>7 DEF ItemAt
<1>5. c \in Orphans
  BY <1>1, <1>3, <1>4, FirstExists
<1>6. PICK s, it : s = active[c[1]] /\ it = ItemAt(c)
  OBVIOUS
<1>7. s \in Sector /\ it.at \in Nat /\ it.span \in Nat
  BY <1>4, <1>5, <1>6 DEF Item
<1>8. DropItem(s, it.at, it.span)
  BY <1>3, <1>6 DEF DropOrphan, DropAtPlace
<1>9. /\ flash' \in [Sector -> FlashSector] /\ ram' \in [Sector -> RamSector]
      /\ \A t \in Sector : flash'[t].hdr = flash[t].hdr
  BY <1>2, <1>7, <1>8, DropItemKeeps DEF Resting
<1>10. Resting'
  BY <1>1, <1>2, <1>9, RestingKept DEF Resting
<1> QED BY <1>1, <1>2, <1>10, FromReady

-----------------------------------------------------------------------------
(* The program of a blob *)

\* The steps by which an item of a blob is written and a sector collected.
LEMMA FromCollect ==
    ASSUME BlobInv, CollectInv', pc' \in {"write", "data", "eraseold"} \/ InGc',
           chk' = chk, chk \notin {"match", "drop"}, BlobSet'
    PROVE  BlobInv'
<1>1. bl' # NoBlob
  BY BlobIsOneNext
<1>2. pc' \notin BetweenPcs \union {"erasesegs"}
  BY DEF InGc, BetweenPcs
<1> QED BY <1>1, <1>2 DEF BlobInv, BetweenPcs

LEMMA InItem ==
    ASSUME BlobInv, pc # "ready"
    PROVE  chk \notin {"match", "drop"} /\ chk \in {"load", "done"}
BY DEF BlobInv

LEMMA BlobItemStepKeeps ==
    ASSUME BlobInv, BlobItemStep
    PROVE  BlobInv'
<1>1. bl # NoBlob /\ UNCHANGED <<bl, chk>>
  BY DEF BlobItemStep, bvars, checking
<1>2. BlobSet /\ BlobSet'
  BY <1>1 DEF BlobInv, BlobSet
<1>3. CASE WriteInit \/ WriteItem \/ WriteItemData
  <2>1. pc \in {"write", "data"} /\ pc' \in {"write", "data", "eraseold"}
    BY <1>3 DEF WriteInit, WriteItem, CanWrite, WriteItemData
  <2>2. CollectInv
    BY <2>1, StoreServes DEF Pcs
  <2>3. IInv
    BY <2>1, <2>2, IInvCollects DEF CollectInv
  <2>4. IInv'
    BY <1>3, <2>3, WriteInitKeeps, WriteItemKeeps, WriteItemDataKeeps
  <2>5. CollectInv'
    BY <2>4, IInvCollectsNext
  <2> QED BY <1>1, <1>2, <2>1, <2>5, FromCollect, InItem
<1>4. CASE GcInit \/ GcMark \/ GcCopy \/ GcCopyData \/ GcCrash
  <2>1. pc \in {"gcinit", "gcmark", "gccopy", "gcdata"}
    BY <1>4 DEF GcInit, GcMark, GcCopy, GcCopyData, GcCrash
  <2>2. CollectInv
    BY <2>1, StoreServes DEF Pcs
  <2>3. CollectInv'
    BY <1>4, <2>2, GcInitKeeps, GcMarkKeeps, GcCopyKeeps, GcCopyDataKeeps, GcCrashKeeps
  <2>4. pc' \in {"gcinit", "gcmark", "gccopy", "gcdata", "gcerase"}
    BY <1>4 DEF GcInit, GcMark, GcCopy, GcCopyData, GcCrash
  <2>5. InGc'
    BY <2>4 DEF InGc
  <2> QED BY <1>1, <1>2, <2>1, <2>3, <2>5, FromCollect, InItem
<1> QED BY <1>3, <1>4 DEF BlobItemStep

\* Between two items there is a blob, and the store rests.
LEMMA Programs ==
    ASSUME BlobInv, pc \in BetweenPcs
    PROVE  Resting /\ BlobSet /\ chk \in {"load", "done"}
BY DEF BlobInv, BetweenPcs

LEMMA BlobSkipKeeps ==
    ASSUME BlobInv, BlobSkip
    PROVE  BlobInv'
<1>1. /\ pc = "blob" /\ pc' = "blobreq"
      /\ UNCHANGED <<flash, ram, active, idle, serial, op, gc, res, lost, crashes, bl, chk>>
  BY DEF BlobSkip, loaded, bvars, checking
<1>2. Resting /\ BlobSet /\ chk \in {"load", "done"}
  BY <1>1, Programs DEF BetweenPcs
<1>3. BlobSet'
  BY <1>1, <1>2 DEF BlobSet
<1>4. Resting'
  BY <1>1, <1>2, NothingChanges, RestingKept DEF Resting
<1> QED BY <1>1, <1>2, <1>3, <1>4, FromBetween DEF BetweenPcs

LEMMA BlobFailKeeps ==
    ASSUME BlobInv, pc \in BetweenPcs, BlobFail
    PROVE  BlobInv'
<1>1. /\ pc' = "ready" /\ bl' = NoBlob /\ op' = NoOp /\ res' = "nospace"
      /\ UNCHANGED <<flash, ram, active, idle, serial, gc, lost, crashes, chk>>
  BY DEF BlobFail, Return, loaded, checking
<1>2. Resting /\ chk \in {"load", "done"}
  BY Programs
<1>3. Resting'
  BY <1>1, <1>2, NothingChanges, RestingKept, NoOpType DEF Resting
<1> QED BY <1>1, <1>2, <1>3, FromReady

LEMMA BlobGotKeeps ==
    ASSUME BlobInv, BlobGot
    PROVE  BlobInv'
<1>1. pc = "blobgot" /\ pc \in BetweenPcs
  BY DEF BlobGot, BetweenPcs
<1>2. CASE BlobFail
  BY <1>1, <1>2, BlobFailKeeps
<1>3. CASE ~ BlobFail
  <2>1. /\ bl' = [bl EXCEPT !.from = IF @ = NoSector THEN Cur ELSE @]
        /\ pc' = "blob"
        /\ UNCHANGED <<flash, ram, active, idle, serial, op, gc, res, lost, crashes, chk>>
    BY <1>3 DEF BlobGot, loaded, checking
  <2>2. Resting /\ BlobSet /\ chk \in {"load", "done"}
    BY <1>1, Programs
  <2>3. BlobSet'
    <3>1. Cur \in 0 .. SecNum
      BY <2>2, CurActive, SecNumAssumption DEF Resting, Sector
    <3>2. PICK y : y = IF bl.from = NoSector THEN Cur ELSE bl.from
      OBVIOUS
    <3>3. y \in 0 .. SecNum
      BY <2>2, <3>1, <3>2 DEF BlobSet
    <3>4. bl' = [bl EXCEPT !.from = y]
      BY <2>1, <2>2, <3>2 DEF BlobSet
    <3> QED BY <2>2, <3>3, <3>4 DEF BlobSet
  <2>4. Resting'
    BY <2>1, <2>2, NothingChanges, RestingKept DEF Resting
  <2> QED BY <2>1, <2>2, <2>3, <2>4, FromBetween DEF BetweenPcs
<1> QED BY <1>2, <1>3

\* A sector is requested for what comes next.
LEMMA BlobRequestIdleKeeps ==
    ASSUME BlobInv, BlobRequestIdle
    PROVE  BlobInv'
<1>1. /\ pc = "blobreq" /\ pc' = "blobgot" /\ Activate /\ Len(idle) > 1
      /\ UNCHANGED <<op, gc, res, lost, crashes, bl, chk>>
  BY DEF BlobRequestIdle, bvars, checking
<1>2. Resting /\ BlobSet /\ chk \in {"load", "done"}
  BY <1>1, Programs DEF BetweenPcs
<1>3. BlobSet'
  BY <1>1, <1>2 DEF BlobSet
<1>4. idle # <<>> /\ StoreType /\ ListsOK
  <2>1. Len(<<>>) = 0
    OBVIOUS
  <2>2. idle # <<>>
    BY <1>1, <2>1
  <2> QED BY <1>2, <2>2 DEF Resting
<1>5. /\ StoreType' /\ ListsOK'
      /\ \A t \in Sector : flash'[t].hdr \in {flash[t].hdr, "erased"}
  BY <1>1, <1>4, ActivateKeeps
<1>6. Resting'
  <2>1. \A s \in Sector : ~ IsDeleting(s)'
    BY <1>2, <1>5 DEF Resting, IsDeleting
  <2> QED BY <1>1, <1>2, <1>5, <2>1 DEF Resting
<1> QED BY <1>1, <1>2, <1>3, <1>6, FromBetween DEF BetweenPcs

LEMMA BlobGcStartKeeps ==
    ASSUME BlobInv, BlobGcStart
    PROVE  BlobInv'
<1>1. /\ pc = "blobreq" /\ pc' \in {"gcinit", "gcmark"} /\ Activate /\ Len(idle) = 1
      /\ gc' = [src |-> Dirtiest, dst |-> Head(idle), i |-> 1, d |-> 0, rec |-> FALSE]
      /\ UNCHANGED <<op, res, lost, crashes, bl, chk>>
  BY DEF BlobGcStart, bvars, checking
<1>2. Resting /\ BlobSet /\ chk \in {"load", "done"}
  BY <1>1, Programs DEF BetweenPcs
<1>3. BlobSet'
  BY <1>1, <1>2 DEF BlobSet
<1>4. idle # <<>> /\ StoreType /\ ListsOK
  <2>1. Len(<<>>) = 0
    OBVIOUS
  <2>2. idle # <<>>
    BY <1>1, <2>1
  <2> QED BY <1>2, <2>2 DEF Resting
<1>5. /\ StoreType' /\ ListsOK'
      /\ Head(idle) \in Sector \ Range(active)
      /\ Range(active') = Range(active) \union {Head(idle)}
      /\ \A t \in Sector : flash'[t].hdr \in {flash[t].hdr, "erased"}
  BY <1>1, <1>4, ActivateKeeps
<1>6. Dirtiest \in Range(active) /\ Dirtiest \in Sector
  BY <1>4, DirtiestActive, CurActive
<1>7. /\ GcSet'
      /\ gc' \in [src : Sector, dst : Sector, i : Nat, d : Nat, rec : BOOLEAN]
  BY <1>1, <1>5, <1>6 DEF GcSet
<1>8. Resting'
  <2>1. \A s \in Sector : ~ IsDeleting(s)'
    BY <1>2, <1>5 DEF Resting, IsDeleting
  <2>2. UNCHANGED <<op, res, lost, crashes>>
    BY <1>1
  <2> QED BY <1>2, <1>5, <1>7, <2>1, <2>2 DEF Resting
<1>9. CollectInv'
  BY <1>1, <1>7, <1>8, RestCollectsNext
<1>10. InGc'
  BY <1>1 DEF InGc
<1> QED BY <1>1, <1>2, <1>3, <1>9, <1>10, FromCollect

LEMMA BlobGcEraseKeeps ==
    ASSUME BlobInv, BlobGcErase
    PROVE  BlobInv'
<1>1. /\ pc = "gcerase" /\ pc' = "blobgot" /\ bl # NoBlob /\ gc' = NoGc
      /\ EraseToIdle(gc.src)
      /\ UNCHANGED <<op, res, lost, crashes, bl, chk>>
  BY DEF BlobGcErase, bvars, checking
<1>2. CollectInv /\ InGc
  BY <1>1, StoreServes DEF Pcs, InGc
<1>3. BlobSet /\ BlobSet'
  BY <1>1 DEF BlobInv, BlobSet
<1>4. StoreType /\ ControlType /\ ListsOK /\ GcSet /\ \A s \in Sector : ~ IsDeleting(s)
  BY <1>1, <1>2 DEF CollectInv, TypeOK, Headers
<1>5. Range(active) # {gc.src} /\ gc.src \in Range(active)
  BY <1>4 DEF GcSet
<1>6. /\ StoreType' /\ ListsOK' /\ gc.src \in Sector /\ flash'[gc.src].hdr = "erased"
      /\ \A t \in Sector \ {gc.src} : flash'[t] = flash[t]
  BY <1>1, <1>4, <1>5, EraseKeeps
<1>7. \A s \in Sector : ~ IsDeleting(s)'
  BY <1>4, <1>6 DEF IsDeleting
<1>8. gc' \in [src : Sector, dst : Sector, i : Nat, d : Nat, rec : BOOLEAN]
  BY <1>1, SecNumAssumption DEF NoGc, Sector
<1>9. Resting'
  BY <1>1, <1>4, <1>6, <1>7, <1>8 DEF Resting, ControlType
<1> QED BY <1>1, <1>3, <1>9, FromBetween, InItem DEF BetweenPcs

\* What the next segment takes of the current sector, and what is left after it.
LEMMA NextLenFits ==
    ASSUME Resting, BlobSet, Left > 0, NextLen > 0
    PROVE  /\ NextLen \in Nat /\ bl.done + NextLen <= BlobSize[bl.b]
           /\ bl.done + NextLen < BlobSize[bl.b] => NextLen >= MinSeg
           /\ bl.done < BlobSize[bl.b] /\ NextLen <= BlobSize[bl.b]
<1>1. PICK size, done, free, len :
         size = BlobSize[bl.b] /\ done = bl.done /\ free = Free(Cur) /\ len = NextLen
  OBVIOUS
<1>2. size \in Nat /\ done \in Nat /\ Left = size - done
  BY <1>1, BlobSizes DEF BlobSet, Left
<1>3. free \in Int
  <2>1. Cur \in Sector
    BY CurActive DEF Resting
  <2>2. ram[Cur].used \in Int
    BY <2>1, SlicesAssumption DEF Resting, StoreType, RamSector, CounterMod
  <2> QED BY <1>1, <2>2, SlicesAssumption DEF Free
<1>4. /\ len > 0
      /\ len = IF size - done + 1 <= free THEN size - done
               ELSE IF free >= MinSeg + 1 THEN free - 1 ELSE 0
  BY <1>1, <1>2 DEF NextLen
<1>5. MinSeg \in Nat
  BY SegNumAssumption
<1>6. /\ len \in Nat /\ done + len <= size
      /\ done + len < size => len >= MinSeg
      /\ done < size /\ len <= size
  <2>1. CASE size - done + 1 <= free
    <3>1. len = size - done
      BY <1>4, <2>1
    <3> QED BY <1>2, <1>4, <3>1
  <2>2. CASE ~ (size - done + 1 <= free)
    <3>1. len = free - 1 /\ free >= MinSeg + 1
      BY <1>4, <2>2
    <3>2. free <= size - done
      BY <1>2, <1>3, <2>2
    <3> QED BY <1>2, <1>3, <1>4, <1>5, <3>1, <3>2
  <2> QED BY <2>1, <2>2
<1> QED BY <1>1, <1>6

\* The next segment has a number of its version, and data that an item can hold.
LEMMA BlobSegmentKeeps ==
    ASSUME BlobInv, BlobSegment
    PROVE  BlobInv'
<1>1. PICK k, v, len : /\ k = <<bl.n, bl.start + bl.cnt>> /\ len = NextLen
                       /\ v = [blob |-> bl.b, part |-> bl.done, len |-> len]
  OBVIOUS
<1>2. /\ pc = "blob" /\ Left > 0 /\ len > 0
      /\ op' = [NoOp EXCEPT !.k = k, !.v = v]
      /\ bl' = [bl EXCEPT !.done = @ + len, !.cnt = @ + 1]
      /\ pc' = "write"
      /\ lost' \in {lost, lost \union {bl.n}}
      /\ UNCHANGED <<flash, ram, active, idle, serial, gc, res, crashes, chk>>
  BY <1>1 DEF BlobSegment, loaded, checking
<1>3. Resting /\ BlobSet /\ chk \in {"load", "done"}
  BY <1>2, Programs DEF BetweenPcs
<1>4. /\ len \in Nat /\ bl.done + len <= BlobSize[bl.b]
      /\ bl.done + len < BlobSize[bl.b] => len >= MinSeg
      /\ bl.done < BlobSize[bl.b] /\ len <= BlobSize[bl.b]
  BY <1>1, <1>2, <1>3, NextLenFits
<1>5. /\ bl.n \in Names /\ bl.b \in Blobs /\ bl.start \in Starts
      /\ bl.cnt \in Nat /\ bl.done \in Nat /\ bl.cnt * MinSeg <= bl.done
  BY <1>3, <1>4 DEF BlobSet
<1>6. bl.cnt < SegNumMax
  BY <1>4, <1>5, NumbersLeft
<1>7. k \in Keys
  <2>1. SegNumMax \in Nat /\ VerOne = SegNumMax + 1 /\ bl.start \in {0, VerOne}
    BY <1>5, SegNumAssumption DEF VerOne, Starts
  <2>2. bl.start + bl.cnt \in 0 .. VerOne + SegNumMax - 1
    BY <1>5, <1>6, <2>1
  <2> QED BY <1>1, <1>5, <2>2, NamesAreKeys DEF SegKey
<1>8. v \in Values
  <2>1. PICK most, size : most = MostOf(Sizes) /\ size = BlobSize[bl.b]
    OBVIOUS
  <2>2. most \in Nat /\ size \in Nat /\ size <= most
    BY <1>5, <2>1, BlobSizes
  <2>3. bl.done \in 0 .. most /\ len \in 1 .. most
    BY <1>2, <1>4, <1>5, <2>1, <2>2
  <2> QED BY <1>1, <1>5, <2>1, <2>3, ValueKinds DEF Seg
<1>9. /\ op' \in [k : Keys \union {NoValue}, v : Values \union {NoValue}, found : BOOLEAN,
                  sec : Sector, at : Nat, old : Values \union {NoValue}, retry : BOOLEAN]
      /\ OpSet'
  <2>1. /\ op'.k = k /\ op'.v = v /\ op'.found = FALSE
    BY <1>2 DEF NoOp
  <2>2. op' \in [k : Keys \union {NoValue}, v : Values \union {NoValue}, found : BOOLEAN,
                 sec : Sector, at : Nat, old : Values \union {NoValue}, retry : BOOLEAN]
    BY <1>2, <1>7, <1>8, NoOpType DEF NoOp
  <2> QED BY <1>7, <1>8, <2>1, <2>2 DEF OpSet
<1>10. lost' \in SUBSET Keys
  BY <1>2, <1>3, <1>5, NamesAreKeys DEF Resting
<1>11. Resting'
  BY <1>2, <1>3, <1>9, <1>10, NothingChanges, RestingKept DEF Resting
<1>12. CollectInv'
  BY <1>2, <1>9, <1>11, RestCollectsNext
<1>13. BlobSet'
  <2>1. PICK done, cnt : done = bl.done + len /\ cnt = bl.cnt + 1
    OBVIOUS
  <2>2. bl' = [bl EXCEPT !.done = done, !.cnt = cnt]
    BY <1>2, <1>3, <2>1 DEF BlobSet
  <2>3. /\ done \in Nat /\ cnt \in Nat /\ cnt # 0
        /\ cnt <= SegNumMax /\ done <= BlobSize[bl.b]
    BY <1>4, <1>5, <1>6, <2>1, SegNumAssumption
  <2>4. ASSUME done < BlobSize[bl.b] PROVE cnt * MinSeg <= done
    <3>1. len >= MinSeg
      BY <1>4, <2>1, <2>4
    <3>2. cnt * MinSeg = bl.cnt * MinSeg + MinSeg
      BY <1>5, <2>1, SegNumAssumption
    <3>3. PICK m : m = bl.cnt * MinSeg /\ m \in Int
      BY <1>5, SegNumAssumption
    <3> QED BY <1>4, <1>5, <2>1, <3>1, <3>2, <3>3, SegNumAssumption
  <2>5. /\ bl'.done = done /\ bl'.cnt = cnt /\ bl'.b = bl.b /\ bl'.found = bl.found
        /\ bl'.old = bl.old
    BY <1>3, <2>2 DEF BlobSet
  <2>6. bl' \in [n : Names, b : Blobs, start : Starts, done : Nat, cnt : Nat,
                 from : 0 .. SecNum, found : BOOLEAN, sec : Sector, at : Nat,
                 old : Values \union {NoValue}, serial : Nat]
    BY <1>3, <2>2, <2>3 DEF BlobSet
  <2>7. bl.found => bl.old \in Values
    BY <1>3 DEF BlobSet
  <2> QED BY <2>3, <2>4, <2>5, <2>6, <2>7 DEF BlobSet
<1> QED BY <1>2, <1>3, <1>12, <1>13, FromCollect

\* The descriptor counts at least one segment, and no more than there are numbers.
LEMMA BlobDescKeeps ==
    ASSUME BlobInv, BlobDesc
    PROVE  BlobInv'
<1>1. PICK v : v = [size |-> BlobSize[bl.b], cnt |-> bl.cnt, start |-> bl.start]
  OBVIOUS
<1>2. /\ pc \in {"blob", "blobdesc"} /\ (pc = "blob" => Left = 0)
      /\ op' = [k |-> bl.n, v |-> v, found |-> bl.found, sec |-> bl.sec, at |-> bl.at,
                old |-> bl.old, retry |-> FALSE]
      /\ pc' = "write"
      /\ UNCHANGED <<flash, ram, active, idle, serial, gc, res, lost, crashes, bl, chk>>
  BY <1>1 DEF BlobDesc, loaded, bvars, checking
<1>3. Resting /\ BlobSet /\ chk \in {"load", "done"}
  BY <1>2, Programs DEF BetweenPcs
<1>4. BlobSet'
  BY <1>2, <1>3 DEF BlobSet
<1>5. /\ bl.n \in Names /\ bl.b \in Blobs /\ bl.start \in Starts /\ bl.cnt \in Nat
      /\ bl.done \in Nat /\ bl.cnt <= SegNumMax /\ (bl.cnt = 0 => bl.done = 0)
      /\ bl.found \in BOOLEAN /\ bl.sec \in Sector /\ bl.at \in Nat
      /\ bl.old \in Values \union {NoValue} /\ (bl.found => bl.old \in Values)
  BY <1>3 DEF BlobSet
<1>6. PICK size : size = BlobSize[bl.b] /\ size \in Nat /\ size >= 1 /\ size \in Sizes
  BY <1>5, BlobSizes
<1>7. bl.done = size
  <2>1. CASE pc = "blob"
    <3>1. size - bl.done = 0
      BY <1>2, <1>6, <2>1 DEF Left
    <3> QED BY <1>5, <1>6, <3>1
  <2>2. CASE pc = "blobdesc"
    BY <1>6, <2>2 DEF BlobInv
  <2> QED BY <1>2, <2>1, <2>2
<1>8. v \in Values
  <2>1. bl.cnt \in 1 .. SegNumMax
    <3>1. bl.cnt # 0
      BY <1>5, <1>6, <1>7
    <3> QED BY <1>5, <3>1, SegNumAssumption
  <2>2. v = [size |-> size, cnt |-> bl.cnt, start |-> bl.start]
    BY <1>1, <1>6
  <2>3. v \in Desc
    BY <1>5, <1>6, <2>1, <2>2 DEF Desc
  <2> QED BY <2>3, ValueKinds
<1>9. /\ op' \in [k : Keys \union {NoValue}, v : Values \union {NoValue}, found : BOOLEAN,
                  sec : Sector, at : Nat, old : Values \union {NoValue}, retry : BOOLEAN]
      /\ OpSet'
  <2>1. bl.n \in Keys
    BY <1>5, NamesAreKeys
  <2>2. op'.k = bl.n /\ op'.v = v /\ op'.found = bl.found /\ op'.old = bl.old
    BY <1>2
  <2>3. op' \in [k : Keys \union {NoValue}, v : Values \union {NoValue}, found : BOOLEAN,
                 sec : Sector, at : Nat, old : Values \union {NoValue}, retry : BOOLEAN]
    BY <1>2, <1>5, <1>8, <2>1
  <2> QED BY <1>5, <1>8, <2>1, <2>2, <2>3 DEF OpSet
<1>10. Resting'
  BY <1>2, <1>3, <1>9, NothingChanges, RestingKept DEF Resting
<1>11. CollectInv'
  BY <1>2, <1>9, <1>10, RestCollectsNext
<1> QED BY <1>2, <1>3, <1>4, <1>11, FromCollect

LEMMA BlobSegWrittenKeeps ==
    ASSUME BlobInv, BlobSegWritten
    PROVE  BlobInv'
<1>1. /\ pc = "eraseold" /\ op.v \in Seg /\ op' = NoOp
      /\ pc' \in {"blobdesc", "blobreq"} /\ (pc' = "blobdesc" => Left = 0)
      /\ UNCHANGED <<flash, ram, active, idle, serial, gc, res, lost, crashes, bl, chk>>
  BY DEF BlobSegWritten, loaded, bvars, checking
<1>2. bl # NoBlob
  BY <1>1 DEF BlobInv, BetweenPcs, Calling
<1>3. BlobSet /\ BlobSet'
  BY <1>1, <1>2 DEF BlobInv, BlobSet
<1>4. Resting
  BY <1>1, StoreServes, CollectRests DEF Pcs
<1>5. Resting'
  BY <1>1, <1>4, NothingChanges, RestingKept, NoOpType DEF Resting
<1>6. pc' = "blobdesc" => bl'.done = BlobSize[bl'.b]
  <2> SUFFICES ASSUME pc' = "blobdesc" PROVE bl.done = BlobSize[bl.b]
    BY <1>1
  <2>1. PICK size : size = BlobSize[bl.b] /\ size \in Nat
    BY <1>3, BlobSizes DEF BlobSet
  <2>2. size - bl.done = 0 /\ bl.done \in Nat
    BY <1>1, <1>3, <2>1 DEF Left, BlobSet
  <2> QED BY <2>1, <2>2
<1> QED BY <1>1, <1>3, <1>5, <1>6, FromBetween, InItem DEF BetweenPcs

LEMMA BlobNoSpaceKeeps ==
    ASSUME BlobInv, BlobNoSpace
    PROVE  BlobInv'
BY BlobFailKeeps DEF BlobNoSpace, BetweenPcs

-----------------------------------------------------------------------------
(* Erasing what a blob replaces *)

\* An item whose data a state byte has spoiled is an item still.
LEMMA SpoiledType ==
    ASSUME NEW f \in FlashSector, NEW at, NEW g \in Spoiled(f, at)
    PROVE  g \in FlashSector /\ g.hdr = f.hdr
<1>1. PICK st \in {"using", "nodata"} :
         g = [f EXCEPT !.log = [i \in DOMAIN f.log |->
                 IF i \in HitBy(f, at) THEN [f.log[i] EXCEPT !.st = st] ELSE f.log[i]]]
  BY DEF Spoiled
<1>2. PICK log : log = [i \in DOMAIN f.log |->
                 IF i \in HitBy(f, at) THEN [f.log[i] EXCEPT !.st = st] ELSE f.log[i]]
  OBVIOUS
<1>3. f.log \in Seq(Item)
  BY DEF FlashSector
<1>4. ASSUME NEW i \in DOMAIN f.log PROVE log[i] \in Item
  <2>1. f.log[i] \in Item
    BY <1>3
  <2>2. PICK it : it = f.log[i]
    OBVIOUS
  <2>3. [it EXCEPT !.st = st] \in Item
    BY <2>1, <2>2 DEF Item, ItemStatus
  <2>4. log[i] \in {it, [it EXCEPT !.st = st]}
    BY <1>2, <2>2
  <2> QED BY <2>1, <2>2, <2>3, <2>4
<1>5. log \in Seq(Item)
  <2>1. DOMAIN f.log = 1 .. Len(f.log) /\ Len(f.log) \in Nat
    BY <1>3
  <2>2. log \in [1 .. Len(f.log) -> Item]
    BY <1>2, <1>4, <2>1
  <2> QED BY <2>1, <2>2
<1>6. g = [f EXCEPT !.log = log]
  BY <1>1, <1>2
<1> QED BY <1>5, <1>6 DEF FlashSector

LEMMA BlobEraseOldKeeps ==
    ASSUME BlobInv, BlobEraseOld
    PROVE  BlobInv'
<1>1. /\ pc = "eraseold" /\ bl' = NoBlob
      /\ UNCHANGED <<active, idle, serial, gc, crashes, chk>>
      /\ \/ pc' = "erasesegs" /\ UNCHANGED <<op, res>>
         \/ pc' = "ready" /\ op' = NoOp /\ res' = "ok"
  BY DEF BlobEraseOld, Return, checking
<1>2. CollectInv /\ OpSet
  BY <1>1, StoreServes DEF Pcs, CollectInv
<1>3. Resting /\ StoreType
  BY <1>1, <1>2, CollectRests DEF Resting
<1>4. PICK s, f, at : s = op.sec /\ f = flash[s] /\ at = op.at
  OBVIOUS
<1>5. s \in Sector /\ at \in Nat /\ f \in FlashSector
  BY <1>3, <1>4 DEF Resting, StoreType
<1>6. /\ flash' \in [Sector -> FlashSector] /\ ram' \in [Sector -> RamSector]
      /\ \A t \in Sector : flash'[t].hdr = flash[t].hdr
  <2>1. CASE op.found
    <3>1. PICK g \in Spoiled(f, at) : flash' = [flash EXCEPT ![s] = DropAt(g, at)]
      BY <1>4, <2>1 DEF BlobEraseOld
    <3>2. ram' = [ram EXCEPT ![s].droped = Count(@ + SpanOf[op.old]),
                             ![s].hash = @ \ {at}]
      BY <1>4, <2>1 DEF BlobEraseOld
    <3>3. g \in FlashSector /\ g.hdr = f.hdr
      BY <1>5, SpoiledType
    <3>4. DropAt(g, at) \in FlashSector /\ DropAt(g, at).hdr = g.hdr
      BY <1>5, <3>3, DropAtType
    <3>5. PICK r : r = ram[s] /\ r \in RamSector /\ r.droped \in Nat
      BY <1>3, <1>5, SlicesAssumption DEF StoreType, RamSector, CounterMod
    <3>6. PICK c : c = Count(r.droped + SpanOf[op.old])
      OBVIOUS
    <3>7. c \in 0 .. CounterMod - 1
      <4>1. SpanOf[op.old] \in Nat
        BY <1>2, <2>1, SpanAssumption DEF OpSet
      <4> QED BY <3>5, <3>6, <4>1, CountIsByte
    <3>8. ram' = [ram EXCEPT ![s] = [r EXCEPT !.droped = c, !.hash = r.hash \ {at}]]
      BY <1>3, <1>5, <3>2, <3>5, <3>6 DEF StoreType
    <3>9. [r EXCEPT !.droped = c, !.hash = r.hash \ {at}] \in RamSector
      BY <3>5, <3>7 DEF RamSector
    <3>10. ram' \in [Sector -> RamSector]
      BY <1>3, <3>8, <3>9 DEF StoreType
    <3> QED BY <1>3, <1>4, <1>5, <3>1, <3>3, <3>4, <3>10 DEF StoreType
  <2>2. CASE ~ op.found
    BY <1>3, <2>2, NothingChanges DEF BlobEraseOld
  <2> QED BY <2>1, <2>2
<1>7. lost' \in SUBSET Keys
  <2>1. op.k \in Keys /\ lost \in SUBSET Keys
    BY <1>2, <1>3 DEF OpSet, Resting
  <2>2. PICK hit : hit = HitBy(f, op.at) \union {i \in LiveAt(f.log) : f.log[i].at = op.at}
    OBVIOUS
  <2>3. hit \subseteq LiveAt(f.log)
    BY <2>2 DEF HitBy
  <2>4. \/ lost' = lost \union ({op.k} \union {f.log[i].key : i \in hit})
        \/ lost' = lost \union {}
    <3> DEFINE h == HitBy(flash[op.sec], op.at) \union
                    {i \in LiveAt(flash[op.sec].log) : flash[op.sec].log[i].at = op.at}
               moved == ~ \E i \in h : /\ flash[op.sec].log[i].key = op.k
                                       /\ flash[op.sec].log[i].val = op.old
               z == {op.k} \union {flash[op.sec].log[i].key : i \in h}
    <3>1. lost' = lost \union (IF op.found /\ moved THEN z ELSE {})
      BY DEF BlobEraseOld
    <3>2. h = hit
      BY <1>4, <2>2
    <3> HIDE DEF h, moved
    <3>3. z = {op.k} \union {f.log[i].key : i \in hit}
      BY <1>4, <3>2
    <3> HIDE DEF z
    <3> QED BY <3>1, <3>3
  <2>5. \A i \in LiveAt(f.log) : f.log[i].key \in Keys
    BY <1>3, <1>4, <1>5, LiveType DEF Item
  <2> QED BY <2>1, <2>3, <2>4, <2>5
<1>8. /\ op' \in [k : Keys \union {NoValue}, v : Values \union {NoValue}, found : BOOLEAN,
                  sec : Sector, at : Nat, old : Values \union {NoValue}, retry : BOOLEAN]
      /\ res' \in {"none", "ok", "toolong", "full", "nospace", "notfound"}
  BY <1>1, <1>3, NoOpType DEF Resting
<1>9. Resting'
  BY <1>1, <1>3, <1>6, <1>7, <1>8, RestingKept
<1>10. chk \in {"load", "done"} /\ chk \notin {"match", "drop"}
  BY <1>1, InItem
<1>11. CASE pc' = "erasesegs"
  BY <1>1, <1>9, <1>10, <1>11, FromErasing
<1>12. CASE pc' = "ready"
  BY <1>1, <1>9, <1>10, <1>12, FromReady
<1> QED BY <1>1, <1>11, <1>12

\* Segments are erased after their descriptor, one by one, as long as they are found.
LEMMA Erases ==
    ASSUME BlobInv, pc = "erasesegs"
    PROVE  Resting /\ bl = NoBlob /\ chk \in {"load", "done"}
BY DEF BlobInv, BetweenPcs, InGc

LEMMA BlobEraseSegKeeps ==
    ASSUME BlobInv, BlobEraseSeg
    PROVE  BlobInv'
<1>1. PICK k : k = <<op.k, op.old.start + erased>>
  OBVIOUS
<1>2. PICK f : f = FindItem(k, {"seg"})
  OBVIOUS
<1>3. PICK it : it = FoundItem(f)
  OBVIOUS
<1>4. /\ pc = "erasesegs" /\ f.found /\ DropItem(f.sec, it.at, it.span)
      /\ UNCHANGED <<active, idle, serial, gc, lost, crashes, bl, chk>>
      /\ \/ pc' = "ready" /\ op' = NoOp /\ res' \in {res, "ok"}
         \/ pc' = pc /\ UNCHANGED <<op, res>>
  BY <1>1, <1>2, <1>3 DEF BlobEraseSeg, SegAt, Answer, checking
<1>5. Resting /\ bl = NoBlob /\ chk \in {"load", "done"}
  BY <1>4, Erases
<1>6. it \in Item /\ it.span \in Nat
  BY <1>2, <1>3, <1>4, <1>5, FindItemType DEF Resting, Item
<1>7. /\ flash' \in [Sector -> FlashSector] /\ ram' \in [Sector -> RamSector]
      /\ \A t \in Sector : flash'[t].hdr = flash[t].hdr
  BY <1>2, <1>3, <1>4, <1>5, <1>6, FoundDropped
<1>8. Resting'
  BY <1>4, <1>5, <1>7, RestingKept, NoOpType DEF Resting
<1>9. CASE pc' = "ready"
  BY <1>4, <1>5, <1>8, <1>9, FromReady
<1>10. CASE pc' = pc
  BY <1>4, <1>5, <1>8, <1>10, FromErasing
<1> QED BY <1>4, <1>9, <1>10

LEMMA BlobEraseMissingKeeps ==
    ASSUME BlobInv, BlobEraseMissing
    PROVE  BlobInv'
<1>1. /\ pc = "erasesegs" /\ pc' = "ready" /\ op' = NoOp /\ res' \in {res, "notfound"}
      /\ UNCHANGED <<flash, ram, active, idle, serial, gc, lost, crashes, bl, chk>>
  BY DEF BlobEraseMissing, Answer, loaded, checking
<1>2. Resting /\ bl = NoBlob /\ chk \in {"load", "done"}
  BY <1>1, Erases
<1>3. Resting'
  BY <1>1, <1>2, NothingChanges, RestingKept, NoOpType DEF Resting
<1> QED BY <1>1, <1>2, <1>3, FromReady

-----------------------------------------------------------------------------
(* Theorems *)

LEMMA BlobInitHolds ==
    ASSUME BlobInit
    PROVE  BlobInv
<1>1. Init /\ bl = NoBlob /\ chk = "load" /\ pc = "off"
  BY DEF BlobInit, Init
<1>2. CollectInv
  BY <1>1, InitHolds, IInvCollects
<1> QED BY <1>1, <1>2 DEF BlobInv, BetweenPcs, Calling, InGc

LEMMA BlobStutters ==
    ASSUME BlobInv, UNCHANGED avars
    PROVE  BlobInv'
<1>1. /\ UNCHANGED <<flash, ram, active, idle, serial, pc, op, gc, res, lost, crashes>>
      /\ UNCHANGED <<bl, chk>>
  BY DEF avars, bvars, checking
<1>2. CollectInv => CollectInv'
  BY <1>1 DEF CollectInv, TypeOK, StoreType, ControlType, ListsOK, OpSet, GcSet, InGc,
              DataBegun, Recovering, Headers, IsDeleting, Cur, ToCopy
<1>3. Resting => Resting'
  BY <1>1 DEF Resting, StoreType, ListsOK, IsDeleting
<1>4. /\ BlobSet => BlobSet'
      /\ Calling' = Calling /\ (OpSet => OpSet') /\ InGc' = InGc
  BY <1>1 DEF BlobSet, Calling, InGc, OpSet
<1> QED BY <1>1, <1>2, <1>3, <1>4 DEF BlobInv

\* Every step of the store with blobs keeps the inductive invariant.
LEMMA BlobStepKeeps ==
    ASSUME BlobInv, [BlobNext]_avars
    PROVE  BlobInv'
<1>1. CASE UNCHANGED avars
  BY <1>1, BlobStutters
<1>2. CASE StoreStep \/ BlobItemStep
  BY <1>2, StoreStepKeeps, BlobItemStepKeeps
<1>3. CASE BlobUnload \/ BlobPowerOff
  BY <1>3, BlobUnloadKeeps, BlobPowerOffKeeps
<1>4. CASE BlobSegment \/ BlobDesc \/ BlobSkip \/ BlobSegWritten
  BY <1>4, BlobSegmentKeeps, BlobDescKeeps, BlobSkipKeeps, BlobSegWrittenKeeps
<1>5. CASE BlobRequestIdle \/ BlobGcStart \/ BlobGcErase \/ BlobNoSpace \/ BlobGot
  BY <1>5, BlobRequestIdleKeeps, BlobGcStartKeeps, BlobGcEraseKeeps, BlobNoSpaceKeeps,
     BlobGotKeeps
<1>6. CASE BlobEraseOld \/ BlobEraseSeg \/ BlobEraseMissing
  BY <1>6, BlobEraseOldKeeps, BlobEraseSegKeeps, BlobEraseMissingKeeps
<1>7. CASE CheckBlobs \/ MatchDrop \/ MatchDone \/ DropOrphan \/ CheckDone
  BY <1>7, CheckBlobsKeeps, MismatchDropKeeps, DropOrphanKeeps
<1>8. ASSUME NEW n \in Names, SmallCall(n) \/ BlobCall(n)
      PROVE  BlobInv'
  <2>1. CASE SmallCall(n)
    BY <2>1, SmallCallKeeps
  <2>2. CASE \E b \in Blobs : SetBlobSame(n, b) \/ SetBlobNoSpace(n, b)
    BY <2>2, SetBlobEndsKeeps
  <2>3. CASE \E b \in Blobs : SetBlobBegin(n, b)
    BY <2>3, SetBlobBeginKeeps
  <2>4. CASE BlobDelete(n) \/ BlobRead(n)
    BY <2>4, BlobDeleteKeeps, BlobReadKeeps
  <2> QED BY <1>8, <2>1, <2>2, <2>3, <2>4 DEF BlobCall
<1> QED BY <1>1, <1>2, <1>3, <1>4, <1>5, <1>6, <1>7, <1>8 DEF BlobNext, BlobStep

\* With blobs too, whenever power fails, the lists of the sector manager, the position in
\* the call being served and the states of the sectors fit together.
THEOREM BlobInvariantHolds == BlobSpec => []BlobInv
<1>1. BlobInit => BlobInv
  BY BlobInitHolds
<1>2. BlobInv /\ [BlobNext]_avars => BlobInv'
  BY BlobStepKeeps
<1> QED BY <1>1, <1>2, PTL DEF BlobSpec

\* The data of the store keep their types whatever blobs are written, and the program of a
\* blob keeps to it: storage_write_blob never writes more than the blob has, and it takes no
\* segment number beyond the last.
THEOREM BlobTypesHold == BlobSpec => []BlobTypeOK
<1>1. ASSUME BlobInv PROVE BlobTypeOK
  <2>1. StoreType
    BY <1>1 DEF BlobInv, Resting, CollectInv, TypeOK
  <2>2. pc \in BetweenPcs \union {"erasesegs"} \union Pcs
    BY <1>1 DEF BlobInv, CollectInv, TypeOK, ControlType, Pcs
  <2>3. ASSUME bl # NoBlob
        PROVE  bl.done \in 0 .. BlobSize[bl.b] /\ bl.cnt \in 0 .. SegNumMax
    <3>1. BlobSet
      BY <1>1, <2>3 DEF BlobInv
    <3>2. BlobSize[bl.b] \in Nat /\ SegNumMax \in Nat
      BY <3>1, BlobSizes, SegNumAssumption DEF BlobSet
    <3> QED BY <3>1, <3>2 DEF BlobSet
  <2>4. chk \in {"load", "match", "drop", "done"}
    BY <1>1 DEF BlobInv
  <2> QED BY <2>1, <2>2, <2>3, <2>4 DEF BlobTypeOK, BetweenPcs, Pcs
<1> QED BY <1>1, BlobInvariantHolds, PTL

=============================================================================
