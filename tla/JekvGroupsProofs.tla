-------------------------- MODULE JekvGroupsProofs --------------------------
(***************************************************************************)
(* For partitions of every size and any number of groups, items and power  *)
(* failures: JekvGroups keeps the groups apart.  Its steps are steps of    *)
(* JekvStore, so everything proved of the store holds of it; on top of     *)
(* that comes GroupInv, which says how the list in RAM, the items of group *)
(* 0 in flash and the set being served fit together.                       *)
(* From both follows that the groups implement KVStore, with pairs of      *)
(* names for keys.                                                         *)
(***************************************************************************)
EXTENDS JekvGroups, JekvStoreContents

-----------------------------------------------------------------------------
(* Where items come from *)

\* An item in use is written by the call being served, or is, or copies, one that was there.
Descends ==
    \A s \in Sector : \A i \in LiveAt(flash'[s].log) : Used(s)' =>
        \/ /\ pc = "write" /\ op.k \in Keys
           /\ flash'[s].log[i].key = op.k /\ flash'[s].log[i].val = op.v
        \/ \E t \in Sector : \E j \in LiveAt(flash[t].log) :
              /\ Used(t) /\ It(t, j).key = flash'[s].log[i].key
              /\ It(t, j).val = flash'[s].log[i].val

\* Each item in use was in its place.
Stays(s) ==
    Used(s)' => \A i \in LiveAt(flash'[s].log) :
        /\ Used(s) /\ i \in LiveAt(flash[s].log)
        /\ It(s, i).key = flash'[s].log[i].key /\ It(s, i).val = flash'[s].log[i].val

LEMMA StaysDescends ==
    ASSUME \A s \in Sector : Stays(s)
    PROVE  Descends
BY DEF Stays, Descends

LEMMA LessensDescends ==
    ASSUME Lessens
    PROVE  Descends
BY StaysDescends DEF Lessens, Inherits, Stays, It

LEMMA HeaderDescends ==
    ASSUME IInv, OrderInv, WriteInit \/ GcInit \/ GcMark \/ GcCrash \/ CheckGcWipe
    PROVE  Descends
<1>1. /\ StoreType /\ ControlType /\ ListsOK /\ Agree /\ FlashOrder /\ Collecting
  BY DEF IInv, TypeOK, OrderInv, WriteInit, GcInit, GcMark, GcCrash, CheckGcWipe
<1>2. Cur \in Sector /\ gc.src \in Sector /\ gc.dst \in Sector
  BY <1>1, CurActive DEF ControlType
<1>3. CASE WriteInit \/ GcInit
  <2>1. PICK s \in Sector : InitSector(s) /\ Fresh(s)
    BY <1>1, <1>2, <1>3 DEF WriteInit, GcInit, Collecting, Fresh
  <2> QED BY <1>1, <2>1, InitLessens, LessensDescends
<1>4. CASE GcMark \/ GcCrash \/ CheckGcWipe
  <2>1. CASE GcMark
    <3>1. /\ gc.src \in Range(active) /\ gc.src # Cur /\ pc = "gcmark"
          /\ SetState(gc.src, "deleting")
      BY <1>1, <2>1 DEF GcMark, IInv, GcSet, InGc, Collecting
    <3>2. Used(gc.src)
      BY <1>1, <1>2, <3>1 DEF Agree, Fresh, Used, IsUsed
    <3>3. PICK t : t = gc.src
      OBVIOUS
    <3>4. /\ \A u \in Sector : flash'[u].log = flash[u].log
          /\ \A u \in Sector \ {t} : flash'[u] = flash[u]
      BY <1>1, <1>2, <3>1, <3>3, StateFrame
    <3> QED BY <3>2, <3>3, <3>4, StaysDescends DEF Stays, It, Used
  <2>2. CASE GcCrash \/ CheckGcWipe
    <3>1. PICK t \in Sector : SetState(t, "crash")
      BY <1>2, <2>2 DEF GcCrash, CheckGcWipe
    <3>2. /\ \A u \in Sector : flash'[u].log = flash[u].log
          /\ \A u \in Sector \ {t} : flash'[u] = flash[u]
          /\ flash'[t].hdr = "crash"
      BY <1>1, <3>1, StateFrame
    <3> QED BY <3>2, StaysDescends DEF Stays, It, Used, IsUsed
  <2> QED BY <1>4, <2>1, <2>2
<1> QED BY <1>3, <1>4

LEMMA ListDescends ==
    ASSUME IInv, OrderInv, \/ RequestIdle \/ GcStart \/ CheckGcStart \/ GcErase \/ CheckGcErase
    PROVE  Descends
<1>1. StoreType /\ ControlType /\ ListsOK /\ Agree
  BY DEF IInv, TypeOK, OrderInv, RequestIdle, GcStart, CheckGcStart, GcErase, CheckGcErase,
         NeedSector
<1>2. CASE RequestIdle \/ GcStart \/ CheckGcStart
  <2>1. idle # <<>> /\ Activate
    BY <1>2 DEF RequestIdle, GcStart, CheckGcStart, NeedSector
  <2> QED BY <1>1, <2>1, ActivateLessens, LessensDescends
<1>3. CASE GcErase \/ CheckGcErase
  <2>1. PICK s \in Sector : EraseToIdle(s)
    BY <1>1, <1>3, CurActive DEF GcErase, CheckGcErase, ControlType
  <2> QED BY <1>1, <2>1, EraseLessens, LessensDescends
<1> QED BY <1>2, <1>3

LEMMA DropDescends ==
    ASSUME IInv, \/ EraseOld \/ (\E k \in Keys : Delete(k)) \/ CheckWriteData \/ CheckWriteOld
    PROVE  Descends
<1>1. /\ StoreType /\ ControlType /\ ListsOK
      /\ Range(active) \subseteq Sector /\ op.sec \in Sector
  <2>1. pc # "off"
    BY DEF EraseOld, Delete, CheckWriteData, CheckWriteOld
  <2> QED BY <2>1 DEF IInv, TypeOK, ListsOK, ControlType
<1>2. \/ UNCHANGED flash
      \/ \E s \in Sector : \E at, span : DropItem(s, at, span)
  <2>1. CASE EraseOld
    BY <1>1, <2>1 DEF EraseOld
  <2>2. CASE \E k \in Keys : Delete(k)
    <3>1. PICK k \in Keys : Delete(k)
      BY <2>2
    <3>2. PICK f : f = FindItem(k, Types)
      OBVIOUS
    <3>3. f.sec \in Sector /\ DropItem(f.sec, FoundItem(f).at, FoundItem(f).span)
      BY <1>1, <3>1, <3>2, FindItemType DEF Delete
    <3> QED BY <3>3
  <2>3. CASE CheckWriteData
    BY <1>1, <2>3, CurActive DEF CheckWriteData
  <2>4. CASE CheckWriteOld
    <3>1. PICK o \in OldCopies :
            DropItem(o.sec, flash[o.sec].log[o.i].at, flash[o.sec].log[o.i].span)
      BY <2>4 DEF CheckWriteOld
    <3>2. \E n \in DOMAIN active : o.sec = active[n]
      BY DEF OldCopies
    <3> QED BY <1>1, <3>1, <3>2 DEF StoreType
  <2> QED BY <2>1, <2>2, <2>3, <2>4
<1>3. CASE UNCHANGED flash
  BY <1>3, StaysDescends DEF Stays, It, Used
<1>4. ASSUME NEW s \in Sector, NEW at, NEW span, DropItem(s, at, span)
      PROVE  Descends
  BY <1>1, <1>4, DropLessens, LessensDescends
<1> QED BY <1>2, <1>3, <1>4

LEMMA WriteDescends ==
    ASSUME IInv, OrderInv, LayoutInv, WriteItem \/ WriteItemData
    PROVE  Descends
<1>1. PICK c : c = Cur
  OBVIOUS
<1>2. CASE WriteItem
  <2>1. PICK n, it : n = Len(flash[c].log) + 1 /\ it = NewItem(ram[c].next, op.k, op.v)
    OBVIOUS
  <2>2. /\ StoreType /\ ListsOK /\ ControlType /\ pc = "write" /\ OpSet
        /\ ~ Fresh(c) /\ WriteHeader(c, it) /\ (UNCHANGED ram \/ Account(c, it))
    BY <1>1, <1>2, <2>1 DEF IInv, TypeOK, WriteItem, CanWrite, Fresh, Calling
  <2>3. c \in Sector
    BY <1>1, <2>2, CurActive
  <2>4. it \in Item /\ it.key = op.k /\ it.val = op.v /\ it.span >= 1 /\ op.k \in Keys
    <3>1. ram[c].next \in Nat /\ op.k \in Keys /\ op.v \in Values
      BY <2>2, <2>3 DEF StoreType, RamSector, OpSet
    <3>2. it \in Item
      BY <2>1, <3>1, NewItemType
    <3>3. SpanOf[op.v] \in Nat \ {0}
      BY <3>1, SpanAssumption
    <3> QED BY <2>1, <3>1, <3>2, <3>3 DEF NewItem
  <2>5. /\ Grown(c, n) /\ flash'[c].log[n] = HeaderWritten(flash[c], it)
        /\ \A t \in Sector : Used(t)' <=> Used(t)
    BY <2>1, <2>2, <2>3, <2>4, HeaderContents
  <2>6. flash'[c].log[n].key = op.k /\ flash'[c].log[n].val = op.v
    BY <2>2, <2>3, <2>4, <2>5, HeaderWrittenIs DEF StoreType
  <2> QED BY <2>2, <2>4, <2>5, <2>6 DEF Descends, Grown, It
<1>3. CASE WriteItemData
  <2>1. PICK n, e : n = Len(flash[c].log) /\ e = flash[c].log[n]
    OBVIOUS
  <2>2. /\ StoreType /\ ListsOK /\ pc = "data" /\ WriteData(c)
    BY <1>1, <1>3 DEF IInv, TypeOK, WriteItemData
  <2>3. c \in Sector
    BY <1>1, <2>2, CurActive
  <2>4. flash[c].log # <<>> /\ e.st # "torn"
    BY <1>1, <2>1, <2>2 DEF IInv, DataBegun, LayoutInv, Between, Last
  <2>5. SameItems /\ \A t \in Sector : Used(t)' <=> Used(t)
    BY <2>1, <2>2, <2>3, <2>4, DataContents
  <2> QED BY <2>5, StaysDescends DEF SameItems, Stays, It
<1> QED BY <1>2, <1>3

LEMMA CopyDescends ==
    ASSUME IInv, OrderInv, LayoutInv, ContentInv, GcCopy \/ GcCopyData
    PROVE  Descends
<1>1. PICK src, dst, m : src = gc.src /\ dst = gc.dst /\ m = LeastOf(ToCopy)
  OBVIOUS
<1>2. CASE GcCopy
  <2>1. PICK n, it : n = Len(flash[dst].log) + 1 /\ it = Copied
    OBVIOUS
  <2>2. /\ pc = "gccopy" /\ ToCopy # {} /\ WriteHeader(dst, it)
        /\ Account(dst, it) \/ UNCHANGED ram
    BY <1>1, <1>2, <2>1 DEF GcCopy
  <2>3. /\ StoreType /\ ControlType /\ src \in Sector /\ dst \in Sector /\ Used(src)
    BY <1>1, <2>2, CopyStands
  <2>4. m \in LiveAt(flash[src].log)
    <3>1. ToCopy \subseteq Nat
      BY <1>1, <2>3, LiveItem DEF ToCopy
    <3>2. m \in ToCopy
      BY <1>1, <2>2, <3>1, LeastOfIsLeast
    <3> QED BY <1>1, <3>2 DEF ToCopy
  <2>5. /\ it \in Item /\ it.span >= 1
        /\ it.key = It(src, m).key /\ it.val = It(src, m).val
    <3>1. it = [It(src, m) EXCEPT !.at = gc.d]
      BY <1>1, <2>1 DEF Copied, It
    <3>2. It(src, m) \in Item
      BY <2>3, <2>4, LiveItem
    <3>3. it \in Item /\ it.span >= 1
      BY <2>1, <2>2, <2>3, CopiedType, CopyFits
    <3> QED BY <3>1, <3>2, <3>3 DEF Item
  <2>6. /\ Grown(dst, n) /\ flash'[dst].log[n] = HeaderWritten(flash[dst], it)
        /\ \A t \in Sector : Used(t)' <=> Used(t)
    BY <2>1, <2>2, <2>3, <2>5, HeaderContents
  <2>7. flash'[dst].log[n].key = it.key /\ flash'[dst].log[n].val = it.val
    BY <2>3, <2>5, <2>6, HeaderWrittenIs DEF StoreType
  <2> SUFFICES ASSUME NEW s \in Sector, NEW i \in LiveAt(flash'[s].log), Used(s)'
               PROVE  \E t \in Sector : \E j \in LiveAt(flash[t].log) :
                         /\ Used(t) /\ It(t, j).key = flash'[s].log[i].key
                         /\ It(t, j).val = flash'[s].log[i].val
    BY DEF Descends
  <2>8. CASE s = dst /\ i = n
    BY <2>3, <2>4, <2>5, <2>7, <2>8
  <2>9. CASE ~ (s = dst /\ i = n)
    <3>1. i \in LiveAt(flash[s].log) /\ flash'[s].log[i] = It(s, i) /\ Used(s)
      BY <2>6, <2>9 DEF Grown, It
    <3> QED BY <3>1
  <2> QED BY <2>8, <2>9
<1>3. CASE GcCopyData
  <2>1. PICK n, e : n = Len(flash[dst].log) /\ e = flash[dst].log[n]
    OBVIOUS
  <2>2. pc = "gcdata" /\ WriteData(dst)
    BY <1>1, <1>3 DEF GcCopyData
  <2>3. StoreType /\ dst \in Sector
    BY <1>1, <2>2, CopyStands
  <2>4. flash[dst].log # <<>> /\ e.st # "torn"
    BY <1>1, <2>1, <2>2 DEF IInv, DataBegun, LayoutInv, Between, Last
  <2>5. SameItems /\ \A t \in Sector : Used(t)' <=> Used(t)
    BY <2>1, <2>2, <2>3, <2>4, DataContents
  <2> QED BY <2>5, StaysDescends DEF SameItems, Stays, It
<1> QED BY <1>2, <1>3

LEMMA LoadDescends ==
    ASSUME IInv, Load
    PROVE  Descends
<1> DEFINE used == {s \in Sector : IsUsed(LoadStatus(flash[s]))}
           fl   == [s \in Sector |-> LoadFlash(flash[s])]
<1>1. \A s \in Sector : flash[s] \in FlashSector
  BY DEF IInv, TypeOK, StoreType
<1>2. /\ used # {} => flash' = fl
      /\ used = {} => \E s : flash' = fl \/ flash' = [fl EXCEPT ![s] = Blank]
  BY DEF Load
<1>3. \A s \in Sector :
         /\ s \in used <=> Used(s)
         /\ LiveAt(fl[s].log) = LiveAt(flash[s].log)
         /\ \A i \in LiveAt(flash[s].log) : fl[s].log[i] = flash[s].log[i]
         /\ fl[s].hdr = flash[s].hdr
  BY <1>1, LoadItems DEF Used
<1>4. CASE flash' = fl
  BY <1>3, <1>4, StaysDescends DEF Stays, Used, It
<1>5. CASE used = {}
  <2> SUFFICES ASSUME NEW t \in Sector PROVE ~ Used(t)'
    BY DEF Descends
  <2>1. flash'[t] = Blank \/ flash'[t] = fl[t]
    BY <1>2, <1>5
  <2> QED BY <1>3, <1>5, <2>1 DEF Used, Blank, IsUsed
<1> QED BY <1>2, <1>4, <1>5

LEMMA StepDescends ==
    ASSUME IInv, OrderInv, LayoutInv, ContentInv, [Next]_vars
    PROVE  Descends
<1>1. CASE UNCHANGED flash
  BY <1>1, StaysDescends DEF Stays, Used, It
<1>2. CASE \/ WriteInit \/ GcInit \/ GcMark \/ GcCrash \/ CheckGcWipe
  BY <1>2, HeaderDescends
<1>3. CASE \/ RequestIdle \/ GcStart \/ CheckGcStart \/ GcErase \/ CheckGcErase
  BY <1>3, ListDescends
<1>4. CASE \/ EraseOld \/ (\E k \in Keys : Delete(k)) \/ CheckWriteData \/ CheckWriteOld
  BY <1>4, DropDescends
<1>5. CASE WriteItem \/ WriteItemData
  BY <1>5, WriteDescends
<1>6. CASE GcCopy \/ GcCopyData
  BY <1>6, CopyDescends
<1>7. CASE Load
  BY <1>7, LoadDescends
<1>8. CASE PowerOff
  BY <1>8, TornItems, StaysDescends DEF Stays, It
<1>9. CASE \/ WriteTooLong \/ WriteFull \/ RequestNoSpace \/ CheckWriteNothing
           \/ CheckGcNothing \/ CheckGcKeep \/ LoadFinish \/ Unload \/ UNCHANGED vars
  BY <1>1, <1>9 DEF WriteTooLong, WriteFull, RequestNoSpace, CheckWriteNothing,
                    CheckGcNothing, CheckGcKeep, LoadFinish, Unload, vars
<1>10. CASE Call
  <2>1. \/ UNCHANGED flash
        \/ \E k \in Keys : Delete(k)
    BY <1>10 DEF Call, SetSame, SetBegin, Get, vars
  <2> QED BY <1>1, <1>4, <2>1
<1> QED BY <1>2, <1>3, <1>4, <1>5, <1>6, <1>7, <1>8, <1>9, <1>10 DEF Next, Step

-----------------------------------------------------------------------------
(* What lookups answer after a step *)

\* A step of a call or of a start changes no answer but that for the key being set, which
\* becomes the value being set.
LEMMA ServedLookups ==
    ASSUME IInv, PromiseStep, pc # "ready"
    PROVE  /\ lost \subseteq lost'
           /\ \A k \in Keys \ lost' :
                 Lookup(k)' = Lookup(k) \/ (k = op.k /\ Lookup(k)' = op.v)
<1>1. PICK m : m = [k \in Keys |-> IF k \in lost THEN NoValue ELSE Lookup(k)]
  OBVIOUS
<1>2. PICK n : n = [k \in Keys |-> IF k \in lost THEN NoValue ELSE Lookup(k)]'
  OBVIOUS
<1>3. Serving => op.k \in Keys /\ op.k # NoValue
  <2>1. Serving => Calling
    BY DEF Serving, Calling, InGc
  <2> QED BY <2>1, NoValueAssumption DEF IInv, OpSet
<1>4. /\ lost \subseteq lost'
      /\ \/ n = m /\ lost' = lost
         \/ n = [k \in Keys |-> IF k \in lost' THEN NoValue ELSE m[k]]
         \/ n = [k \in Keys |-> IF k \in lost' THEN NoValue
                                ELSE [m EXCEPT ![op.k] = op.v][k]]
  <2>1. CASE UNCHANGED Promise!kvars
    BY <1>1, <1>2, <2>1 DEF Promise!kvars
  <2>2. CASE \E k \in Keys : \/ \E v \in Values : \/ Promise!SetCall(k, v) \/ Promise!SetNothing(k, v)
                                                  \/ Promise!SetRefused(k, v)
                             \/ Promise!DeleteCall(k)
    BY <1>3, <2>2 DEF Promise!SetCall, Promise!SetNothing, Promise!SetRefused,
                      Promise!DeleteCall, Promise!NoReq
  <2>3. CASE Promise!Commit
    BY <1>1, <1>2, <2>3 DEF Promise!Commit, Promise!Covered, Promise!Applied
  <2>4. CASE Promise!ReturnOk
    BY <1>1, <1>2, <2>4 DEF Promise!ReturnOk, Promise!Covered, Promise!Applied
  <2>5. CASE Promise!ReturnError \/ Promise!Start
    BY <1>1, <1>2, <2>5 DEF Promise!ReturnError, Promise!Start
  <2>6. CASE Promise!Fail \/ Promise!Lose
    BY <1>1, <1>2, <2>6 DEF Promise!Fail, Promise!Lose, Promise!Covered
  <2> QED BY <2>1, <2>2, <2>3, <2>4, <2>5, <2>6 DEF PromiseStep, Promise!KVNext
<1>5. ASSUME NEW k \in Keys, k \notin lost', k \notin lost
      PROVE  Lookup(k)' = Lookup(k) \/ (k = op.k /\ Lookup(k)' = op.v)
  <2>1. m[k] = Lookup(k) /\ n[k] = Lookup(k)'
    BY <1>1, <1>2, <1>5
  <2>2. n[k] = m[k] \/ n[k] = [m EXCEPT ![op.k] = op.v][k]
    BY <1>4, <1>5
  <2> QED BY <1>1, <1>5, <2>1, <2>2
<1> QED BY <1>4, <1>5

\* Erasing the replaced item ends a set: its key reads the value that was set.
LEMMA SetIsAnswered ==
    ASSUME IInv, PromiseStep, EraseOld, NEW k, k = op.k, k \notin lost'
    PROVE  k \in Keys /\ Lookup(k)' = op.v
<1>1. PICK n : n = [j \in Keys |-> IF j \in lost THEN NoValue ELSE Lookup(j)]'
  OBVIOUS
<1>2. /\ pc = "eraseold" /\ op' = NoOp /\ res' = "ok" /\ pc' = "ready"
      /\ Serving /\ Serving' /\ OpSet
  BY DEF EraseOld, Return, Serving, IInv, Calling
<1>3. k \in Keys /\ k # NoValue /\ op'.k = NoValue
  BY <1>2, NoValueAssumption DEF OpSet, NoOp
<1>4. Promise!ReturnOk
  <2>1. CASE UNCHANGED Promise!kvars
    BY <1>3, <2>1 DEF Promise!kvars
  <2>2. CASE \E j \in Keys : \/ \E v \in Values : \/ Promise!SetCall(j, v) \/ Promise!SetNothing(j, v)
                                                  \/ Promise!SetRefused(j, v)
                             \/ Promise!DeleteCall(j)
    BY <1>3, <2>2 DEF Promise!SetCall, Promise!SetNothing, Promise!SetRefused,
                      Promise!DeleteCall, Promise!NoReq
  <2>3. CASE Promise!Commit \/ Promise!Lose
    BY <1>3, <2>3 DEF Promise!Commit, Promise!Lose
  <2>4. CASE Promise!ReturnError
    BY <1>2, <2>4 DEF Promise!ReturnError
  <2>5. CASE Promise!Start
    BY <1>2, <2>5 DEF Promise!Start
  <2>6. CASE Promise!Fail
    BY <1>2, <2>6 DEF Promise!Fail
  <2> QED BY <2>1, <2>2, <2>3, <2>4, <2>5, <2>6 DEF PromiseStep, Promise!KVNext
<1>5. n[k] = op.v
  BY <1>1, <1>4 DEF Promise!ReturnOk
<1> QED BY <1>1, <1>3, <1>5

\* A key that had no item has none before its header is programmed.
LEMMA NotYetWritten ==
    ASSUME IInv, ContentInv, Calling, pc \notin {"data", "eraseold"}, ~ op.found,
           NEW k, k = op.k, k \notin lost
    PROVE  Lookup(k) = NoValue
<1>1. \A s \in Sector : \A i \in LiveAt(flash[s].log) : ~ (Used(s) /\ It(s, i).key = k)
  BY DEF ContentInv, OthersOld
<1>2. Readable(k) = {}
  BY <1>1, ReadableIs
<1> QED BY <1>2, LookupOfNone

-----------------------------------------------------------------------------
(* Scans over the active sectors *)

\* The order of a scan gives the elements of a finite set the ranks from 1 on.
LEMMA Ranks ==
    ASSUME NEW S, S \subseteq Nat \X Nat, IsFiniteSet(S)
    PROVE  /\ Cardinality(S) \in Nat
           /\ \A n \in 1 .. Cardinality(S) :
                 \E x \in S : Cardinality({y \in S : Before(y, x)}) = n
           /\ \A x \in S : Cardinality({y \in S : Before(y, x)}) \in 1 .. Cardinality(S)
           /\ \A x, z \in S : Cardinality({y \in S : Before(y, x)})
                                 = Cardinality({y \in S : Before(y, z)}) => x = z
<1> DEFINE D(x) == {y \in S : Before(y, x)}
<1>1. PICK N : N = Cardinality(S)
  OBVIOUS
<1>2. N \in Nat
  BY <1>1, FS_CardinalityType
<1>3. \A x \in S : x[1] \in Nat /\ x[2] \in Nat /\ x = <<x[1], x[2]>>
  OBVIOUS
<1>4. ASSUME NEW x \in S PROVE IsFiniteSet(D(x)) /\ Cardinality(D(x)) \in 1 .. N
  <2>1. /\ IsFiniteSet(D(x)) /\ Cardinality(D(x)) <= N
    BY <1>1, FS_Subset
  <2>2. x \in D(x)
    BY <1>3 DEF Before
  <2>3. Cardinality(D(x)) \in Nat /\ Cardinality(D(x)) # 0
    BY <2>1, <2>2, FS_CardinalityType, FS_EmptySet
  <2> QED BY <1>2, <2>1, <2>3
<1>5. ASSUME NEW x \in S, NEW z \in S, Before(x, z), Cardinality(D(x)) = Cardinality(D(z))
      PROVE  x = z
  <2>1. D(x) \subseteq D(z)
    BY <1>3, <1>5 DEF Before
  <2>2. D(x) = D(z)
    BY <1>4, <1>5, <2>1, FS_Subset
  <2>3. Before(z, z)
    BY <1>3 DEF Before
  <2>4. Before(z, x)
    BY <2>2, <2>3
  <2>5. x[1] = z[1] /\ x[2] = z[2]
    BY <1>3, <1>5, <2>4 DEF Before
  <2> QED BY <1>3, <2>5
<1>6. ASSUME NEW x \in S, NEW z \in S, Cardinality(D(x)) = Cardinality(D(z))
      PROVE  x = z
  <2>1. Before(x, z) \/ Before(z, x)
    BY <1>3 DEF Before
  <2> QED BY <1>5, <1>6, <2>1
<1>7. PICK r : r = [x \in S |-> Cardinality(D(x))]
  OBVIOUS
<1>8. r \in Injection(S, 1 .. N)
  BY <1>4, <1>6, <1>7 DEF Injection, IsInjective
<1>9. IsFiniteSet(1 .. N) /\ Cardinality(1 .. N) = N
  BY <1>2, FS_Interval
<1>10. r \in Surjection(S, 1 .. N)
  BY <1>1, <1>8, <1>9, FS_Injection
<1>11. \A n \in 1 .. N : \E x \in S : r[x] = n
  BY <1>10 DEF Surjection
<1> QED BY <1>1, <1>2, <1>4, <1>6, <1>7, <1>11

\* The places a scan meets, and what is there.
LEMMA ScanMeets ==
    ASSUME StoreType, NEW list \in Seq(Sector), NEW id
    PROVE  /\ ItemsIn(list, id) \subseteq Nat \X Nat /\ IsFiniteSet(ItemsIn(list, id))
           /\ \A c \in ItemsIn(list, id) :
                 /\ c[1] \in DOMAIN list /\ list[c[1]] \in Sector
                 /\ c[2] \in LiveAt(flash[list[c[1]]].log)
                 /\ It(list[c[1]], c[2]).key[1] = id
<1>1. DOMAIN list = 1 .. Len(list) /\ Len(list) \in Nat /\ \A n \in DOMAIN list : list[n] \in Sector
  OBVIOUS
<1>2. ItemsIn(list, id) \subseteq (1 .. Len(list)) \X (1 .. Slices)
  BY <1>1 DEF ItemsIn
<1>3. (1 .. Len(list)) \X (1 .. Slices) \subseteq Nat \X Nat
  OBVIOUS
<1>4. IsFiniteSet((1 .. Len(list)) \X (1 .. Slices))
  <2>1. IsFiniteSet(1 .. Len(list)) /\ IsFiniteSet(1 .. Slices)
    BY <1>1, FS_Interval, SlicesAssumption
  <2> QED BY <2>1, FS_Product
<1>5. IsFiniteSet(ItemsIn(list, id))
  BY <1>2, <1>4, FS_Subset
<1> QED BY <1>1, <1>2, <1>3, <1>5 DEF ItemsIn, It

\* It meets every item of the sectors of the list.
LEMMA ScanMisses ==
    ASSUME StoreType, LayoutInv, NEW list \in Seq(Sector), NEW n \in DOMAIN list,
           NEW i \in LiveAt(flash[list[n]].log)
    PROVE  <<n, i>> \in ItemsIn(list, It(list[n], i).key[1])
<1>1. PICK s \in Sector : s = list[n]
  OBVIOUS
<1>2. flash[s].log \in Seq(Item) /\ Packed(flash[s].log)
  BY SectorTypes DEF LayoutInv
<1>3. i \in 1 .. Slices
  BY <1>1, <1>2, PlaceFits
<1> QED BY <1>1, <1>3 DEF ItemsIn, It

\* What a start loads are the items of group 0, in that order.
LEMMA LoadedAre ==
    ASSUME StoreType, NEW list \in Seq(Sector)
    PROVE  \E N \in Nat : \E at \in [1 .. N -> ItemsIn(list, 0)] :
              /\ Loaded(list) = [n \in 1 .. N |->
                    [id   |-> It(list[at[n][1]], at[n][2]).val,
                     name |-> It(list[at[n][1]], at[n][2]).key[2]]]
              /\ \A m, n \in 1 .. N : at[m] = at[n] => m = n
              /\ \A c \in ItemsIn(list, 0) : \E n \in 1 .. N : at[n] = c
<1>1. PICK S, N : S = ItemsIn(list, 0) /\ N = Cardinality(S)
  OBVIOUS
<1> DEFINE r(x) == Cardinality({y \in S : Before(y, x)})
<1>2. /\ N \in Nat
      /\ \A n \in 1 .. N : \E x \in S : r(x) = n
      /\ \A x \in S : r(x) \in 1 .. N
      /\ \A x, z \in S : r(x) = r(z) => x = z
  <2>1. S \subseteq Nat \X Nat /\ IsFiniteSet(S)
    BY <1>1, ScanMeets
  <2>2. /\ Cardinality(S) \in Nat
        /\ \A n \in 1 .. Cardinality(S) :
              \E x \in S : Cardinality({y \in S : Before(y, x)}) = n
        /\ \A x \in S : Cardinality({y \in S : Before(y, x)}) \in 1 .. Cardinality(S)
        /\ \A x, z \in S : Cardinality({y \in S : Before(y, x)})
                              = Cardinality({y \in S : Before(y, z)}) => x = z
    BY <2>1, Ranks
  <2> QED BY <1>1, <2>2
<1> DEFINE e(n) == CHOOSE x \in S : Cardinality({y \in S : Before(y, x)}) = n
<1>3. /\ \A n \in 1 .. N : e(n) \in S /\ r(e(n)) = n
      /\ Loaded(list) = [n \in 1 .. N |->
            [id |-> It(list[e(n)[1]], e(n)[2]).val, name |-> It(list[e(n)[1]], e(n)[2]).key[2]]]
  <2>1. \A n \in 1 .. N : e(n) \in S /\ r(e(n)) = n
    BY <1>2
  <2>2. Loaded(list) = [n \in 1 .. N |->
            [id |-> It(list[e(n)[1]], e(n)[2]).val, name |-> It(list[e(n)[1]], e(n)[2]).key[2]]]
    BY <1>1, Zenon DEF Loaded, It
  <2> QED BY <2>1, <2>2
<1> HIDE DEF e
<1>4. PICK at : at = [n \in 1 .. N |-> e(n)]
  OBVIOUS
<1>5. \A n \in 1 .. N : at[n] = e(n) /\ at[n] \in S /\ r(at[n]) = n
  BY <1>3, <1>4
<1>6. /\ at \in [1 .. N -> S] /\ \A m, n \in 1 .. N : at[m] = at[n] => m = n
      /\ \A c \in S : \E n \in 1 .. N : at[n] = c
  <2>1. /\ at \in [1 .. N -> S] /\ \A m, n \in 1 .. N : at[m] = at[n] => m = n
    BY <1>4, <1>5
  <2>2. \A c \in S : \E n \in 1 .. N : at[n] = c
    BY <1>2, <1>5
  <2> QED BY <2>1, <2>2
<1>7. Loaded(list) = [n \in 1 .. N |->
                    [id   |-> It(list[at[n][1]], at[n][2]).val,
                     name |-> It(list[at[n][1]], at[n][2]).key[2]]]
  BY <1>3, <1>5
<1>8. PICK I : I = ItemsIn(list, 0)
  OBVIOUS
<1>9. S = I
  BY <1>1, <1>8
<1> HIDE DEF r
<1>10. \E at_1 \in [1 .. N -> I] :
          /\ Loaded(list) = [n \in 1 .. N |->
                [id   |-> It(list[at_1[n][1]], at_1[n][2]).val,
                 name |-> It(list[at_1[n][1]], at_1[n][2]).key[2]]]
          /\ \A m, n \in 1 .. N : at_1[m] = at_1[n] => m = n
          /\ \A c \in I : \E n \in 1 .. N : at_1[n] = c
  BY <1>6, <1>7, <1>9, Zenon
<1> QED BY <1>2, <1>8, <1>10

-----------------------------------------------------------------------------
(* The steps of groups are steps of the store *)

\* A key names its group, and group 0 holds the groups.
LEMMA KeysByGroup ==
    /\ \A k \in Keys : /\ k = <<k[1], k[2]>>
                       /\ k[1] = 0 => k \in GroupKey
                       /\ k[1] # 0 => k \in DataKey
    /\ \A k \in GroupKey : k \in Keys /\ k[1] = 0 /\ k[2] \in GroupNames /\ k \notin DataKey
    /\ \A k \in DataKey : k \in Keys /\ k[1] \in Ids /\ k[2] \in ItemNames /\ k \notin GroupKey
    /\ \A g \in GroupNames : <<0, g>> \in GroupKey
    /\ 0 \notin Ids /\ GroupIdMax \notin Ids /\ NoValue \notin Ids /\ Ids \subseteq Values
    /\ Data \subseteq Values /\ Ids \subseteq Nat
BY GroupAssumption, NoValueAssumption DEF GroupKey, DataKey, Ids

LEMMA ListedTypes ==
    ASSUME NEW list \in Seq([id : Ids, name : GroupNames])
    PROVE  \A n \in DOMAIN list : list[n].id \in Ids /\ list[n].name \in GroupNames
<1>1. PICK G : G = [id : Ids, name : GroupNames]
  OBVIOUS
<1>2. list \in Seq(G)
  BY <1>1
<1>3. \A n \in DOMAIN list : list[n] \in G
  BY <1>2
<1> QED BY <1>1, <1>3

\* The id a new group gets is no listed group's.
LEMMA FreeIdIsFree ==
    ASSUME GroupType
    PROVE  /\ FreeId \in Ids \union {GroupIdMax}
           /\ FreeId \notin ListedIds
<1>1. ListedIds \subseteq Ids
  BY ListedTypes DEF GroupType, ListedIds
<1>2. (Ids \union {GroupIdMax}) \ ListedIds \subseteq Nat
  BY KeysByGroup, GroupAssumption
<1>3. GroupIdMax \in (Ids \union {GroupIdMax}) \ ListedIds
  BY <1>1, KeysByGroup
<1> QED BY <1>2, <1>3, LeastOfIsLeast DEF FreeId

\* The items of a group are deleted through the lookup of a deletion, which finds the item
\* the scan has got to.
LEMMA DelGroupDeletes ==
    ASSUME IInv, OrderInv, LayoutInv, ContentInv, GroupType, DelGroupItem
    PROVE  /\ del \in Ids /\ pc = "ready"
           /\ \E k \in DataKey : k[1] = del /\ Delete(k)
<1>1. StoreType /\ active \in Seq(Sector) /\ del \in Ids /\ pc = "ready"
  BY DEF IInv, TypeOK, StoreType, GroupType, DelGroupItem
<1>2. PICK c \in ToDelete : /\ \A d \in ToDelete : Before(c, d)
                            /\ LET it == flash[active[c[1]]].log[c[2]]
                               IN  DropItem(active[c[1]], it.at, it.span)
  BY DEF DelGroupItem
<1>3. PICK n, i, s, key : n = c[1] /\ i = c[2] /\ s = active[n] /\ key = It(s, i).key
  OBVIOUS
<1>4. /\ n \in DOMAIN active /\ s \in Sector /\ i \in LiveAt(flash[s].log) /\ key[1] = del
      /\ n \in Nat /\ i \in Nat
      /\ \A d \in ToDelete : d[1] \in Nat /\ d[2] \in Nat
  <2>1. ToDelete = ItemsIn(active, del)
    BY DEF ToDelete
  <2>2. /\ ToDelete \subseteq Nat \X Nat
        /\ c[1] \in DOMAIN active /\ active[c[1]] \in Sector
        /\ c[2] \in LiveAt(flash[active[c[1]]].log)
        /\ It(active[c[1]], c[2]).key[1] = del
    BY <1>1, <1>2, <2>1, ScanMeets
  <2>3. \A d \in ToDelete : d[1] \in Nat /\ d[2] \in Nat
    BY <2>2
  <2>4. n \in DOMAIN active /\ s \in Sector /\ i \in LiveAt(flash[s].log) /\ key[1] = del
    BY <1>3, <2>2
  <2> QED BY <1>2, <1>3, <2>3, <2>4
<1>5. key \in DataKey
  BY <1>1, <1>3, <1>4, LiveItem, KeysByGroup
<1> DEFINE M(m) == Matches(flash[active[m]], ram[active[m]], key, Types)
           Has == {m \in DOMAIN active : M(m) # {}}
<1>6. i \in M(n)
  BY <1>1, <1>3, <1>4, ActiveIsSeen
<1>7. Has \subseteq Nat /\ n \in Has
  BY <1>1, <1>4, <1>6
<1>8. PICK m : m = LeastOf(Has)
  OBVIOUS
<1>9. m \in DOMAIN active /\ M(m) # {} /\ m <= n /\ m \in Nat
  BY <1>7, <1>8, LeastOfIsLeast
<1>10. M(m) \subseteq Nat
  <2>1. active[m] \in Sector
    BY <1>1, <1>9
  <2> QED BY <1>1, <2>1, MatchesType
<1>11. PICK j : j = LeastOf(M(m))
  OBVIOUS
<1>12. j \in M(m) /\ j \in Nat /\ \A x \in M(m) : j <= x
  BY <1>9, <1>10, <1>11, LeastOfIsLeast
<1>13. j \in LiveAt(flash[active[m]].log) /\ It(active[m], j).key = key
  BY <1>12 DEF Matches, It
<1>14. <<m, j>> \in ToDelete
  BY <1>1, <1>4, <1>9, <1>13, ScanMisses DEF ToDelete
<1>15. m = n /\ j = i
  <2>1. n < m \/ (n = m /\ i <= j)
    BY <1>2, <1>3, <1>14 DEF Before
  <2> QED BY <1>4, <1>6, <1>9, <1>12, <2>1
<1>16. FindItem(key, Types) = [found |-> TRUE, sec |-> s, i |-> i]
  <2>1. Has # {}
    BY <1>7
  <2> QED BY <1>3, <1>8, <1>11, <1>15, <2>1 DEF FindItem
<1>17. Delete(key)
  <2>1. DropItem(s, It(s, i).at, It(s, i).span)
    BY <1>2, <1>3 DEF It
  <2> QED BY <1>1, <1>16, <2>1 DEF Delete, FoundItem, DelGroupItem, It
<1> QED BY <1>1, <1>4, <1>5, <1>17

\* No step of a call or of a start is taken between calls, and none but the end of a start
\* begins to serve them.
LEMMA StepIsBusy ==
    ASSUME Step
    PROVE  pc # "ready"
BY DEF Step, WriteInit, WriteTooLong, WriteItem, CanWrite, WriteItemData, WriteFull,
      EraseOld, RequestIdle, RequestNoSpace, NeedSector, GcStart, GcInit, GcMark, GcCopy,
      GcCopyData, GcCrash, GcErase, Load, CheckWriteNothing, CheckWriteData, CheckWriteOld,
      CheckGcNothing, CheckGcWipe, CheckGcErase, CheckGcKeep, CheckGcStart, LoadFinish

LEMMA OneStepServes ==
    ASSUME ControlType, Step, ~ Serving, Serving'
    PROVE  LoadFinish
<1>1. gc \in [src : Sector, dst : Sector, i : Nat, d : Nat, rec : BOOLEAN]
  BY DEF ControlType
<1>2. CASE \/ WriteInit \/ WriteTooLong \/ WriteItem \/ WriteItemData \/ WriteFull \/ EraseOld
           \/ RequestIdle \/ RequestNoSpace \/ GcStart
  BY <1>2 DEF WriteInit, WriteTooLong, WriteItem, CanWrite, WriteItemData, WriteFull,
      EraseOld, RequestIdle, RequestNoSpace, NeedSector, GcStart, Serving
<1>3. CASE GcInit \/ GcMark \/ GcCrash
  BY <1>3 DEF GcInit, GcMark, GcCrash, Serving
<1>4. CASE GcCopy \/ GcCopyData
  <2>1. gc'.rec = gc.rec /\ pc \in {"gccopy", "gcdata"}
    BY <1>1, <1>4 DEF GcCopy, GcCopyData
  <2>2. pc' \in {"gccopy", "gcdata"}
    BY <1>4 DEF GcCopy, GcCopyData
  <2> QED BY <2>1, <2>2 DEF Serving
<1>5. CASE GcErase
  BY <1>5 DEF GcErase, Serving
<1>6. CASE \/ Load \/ CheckWriteNothing \/ CheckWriteData \/ CheckWriteOld
           \/ CheckGcNothing \/ CheckGcWipe \/ CheckGcErase \/ CheckGcKeep
  BY <1>6 DEF Load, CheckWriteNothing, CheckWriteData, CheckWriteOld,
      CheckGcNothing, CheckGcWipe, CheckGcErase, CheckGcKeep, Serving
<1>7. CASE CheckGcStart
  BY <1>7 DEF CheckGcStart, Serving
<1> QED BY <1>2, <1>3, <1>4, <1>5, <1>6, <1>7 DEF Step

\* The set being served is the same.
SameSet == op'.k = op.k /\ op'.v = op.v /\ op'.found = op.found

LEMMA StepSets ==
    ASSUME ControlType, Step
    PROVE  \/ SameSet
           \/ op' = NoOp /\ EraseOld
           \/ op' = NoOp /\ pc = "write" /\ UNCHANGED <<flash, lost>>
           \/ LoadFinish
<1>1. op \in [k : Keys \union {NoValue}, v : Values \union {NoValue}, found : BOOLEAN,
              sec : Sector, at : Nat, old : Values \union {NoValue}, retry : BOOLEAN]
  BY DEF ControlType
<1>2. CASE EraseOld \/ LoadFinish
  BY <1>2 DEF EraseOld, Return
<1>3. CASE WriteTooLong \/ WriteFull \/ RequestNoSpace
  BY <1>3 DEF WriteTooLong, WriteFull, RequestNoSpace, NeedSector, Return
<1>4. CASE RequestIdle \/ GcStart
  <2>1. op' = [op EXCEPT !.retry = TRUE]
    BY <1>4 DEF RequestIdle, GcStart
  <2> QED BY <1>1, <2>1 DEF SameSet
<1>5. CASE \/ WriteInit \/ WriteItem \/ WriteItemData \/ GcInit \/ GcMark \/ GcCopy
           \/ GcCopyData \/ GcCrash \/ GcErase \/ Load \/ CheckWriteNothing \/ CheckWriteData
           \/ CheckWriteOld \/ CheckGcNothing \/ CheckGcWipe \/ CheckGcErase \/ CheckGcKeep
           \/ CheckGcStart
  <2>1. op' = op
    BY <1>5 DEF WriteInit, WriteItem, WriteItemData, GcInit, GcMark, GcCopy,
      GcCopyData, GcCrash, GcErase, Load, CheckWriteNothing, CheckWriteData, CheckWriteOld,
      CheckGcNothing, CheckGcWipe, CheckGcErase, CheckGcKeep, CheckGcStart
  <2> QED BY <2>1 DEF SameSet
<1> QED BY <1>2, <1>3, <1>4, <1>5 DEF Step

\* What a step of the groups is to the store, and what it does to the list of groups and to
\* the set being served.
GroupKinds ==
    \/ /\ SameSet /\ groups' = groups /\ (Serving' => Serving)
       /\ \/ Step \/ UNCHANGED vars
          \/ pc = "ready" /\ \E k \in DataKey : Delete(k) \/ \E d \in Data : SetSame(k, d)
    \/ SameSet /\ groups' = <<>> /\ ~ Serving' /\ (PowerOff \/ (Unload /\ pc = "ready"))
    \/ /\ op' = NoOp /\ groups' = groups /\ Serving /\ Step
       /\ ~ Opening \/ (pc = "write" /\ UNCHANGED <<flash, lost>>)
    \/ OpenAdd
    \/ LoadFinish /\ groups' = Loaded(active')
    \/ /\ pc = "ready" /\ groups' = groups
       /\ \E g \in GroupNames : ~ Listed(g) /\ FreeId \in Ids /\ SetBegin(<<0, g>>, FreeId)
    \/ /\ pc = "ready" /\ groups' = groups
       /\ \E n \in DOMAIN groups : \E k \in DataKey : \E d \in Data :
             k[1] = groups[n].id /\ SetBegin(k, d)

LEMMA GroupStepIs ==
    ASSUME IInv, OrderInv, LayoutInv, ContentInv, GroupType, [GroupNext]_gvars
    PROVE  GroupKinds
<1>1. ControlType /\ \A n \in DOMAIN groups : groups[n].id \in Ids
  BY ListedTypes DEF GroupType, IInv, TypeOK
<1>2. CASE UNCHANGED vars /\ groups' = groups
  <2>1. SameSet /\ Serving' = Serving
    BY <1>2 DEF vars, SameSet, Serving
  <2> QED BY <1>2, <2>1 DEF GroupKinds
<1>3. CASE StoreStep
  <2>1. /\ Step /\ ~ (pc = "eraseold" /\ Opening)
        /\ groups' = IF pc = "finish" THEN Loaded(active') ELSE groups
    BY <1>3 DEF StoreStep
  <2>2. CASE LoadFinish
    BY <2>1, <2>2 DEF GroupKinds, LoadFinish
  <2>3. CASE ~ LoadFinish
    <3>1. groups' = groups /\ (Serving' => Serving)
      <4>1. pc # "finish"
        BY <2>1, <2>3 DEF Step, WriteInit, WriteTooLong, WriteItem, CanWrite, WriteItemData,
          WriteFull, EraseOld, RequestIdle, RequestNoSpace, NeedSector, GcStart, GcInit,
          GcMark, GcCopy, GcCopyData, GcCrash, GcErase, Load, CheckWriteNothing,
          CheckWriteData, CheckWriteOld, CheckGcNothing, CheckGcWipe, CheckGcErase,
          CheckGcKeep, CheckGcStart
      <4> QED BY <1>1, <2>1, <2>3, <4>1, OneStepServes
    <3>2. CASE SameSet
      BY <2>1, <3>1, <3>2 DEF GroupKinds
    <3>3. CASE op' = NoOp /\ EraseOld
      <4>1. Serving /\ ~ Opening
        BY <2>1, <3>3 DEF EraseOld, Serving
      <4> QED BY <2>1, <3>1, <3>3, <4>1 DEF GroupKinds
    <3>4. CASE op' = NoOp /\ pc = "write" /\ UNCHANGED <<flash, lost>>
      <4>1. Serving
        BY <3>4 DEF Serving
      <4> QED BY <2>1, <3>1, <3>4, <4>1 DEF GroupKinds
    <3> QED BY <1>1, <2>1, <2>3, <3>2, <3>3, <3>4, StepSets
  <2> QED BY <2>2, <2>3
<1>4. CASE OpenAdd
  BY <1>4 DEF GroupKinds
<1>5. CASE DelGroupItem
  <2>1. pc = "ready" /\ (\E k \in DataKey : Delete(k)) /\ groups' = groups
    BY <1>5, DelGroupDeletes DEF DelGroupItem
  <2>2. op' = op /\ Serving
    BY <2>1 DEF Delete, Serving
  <2> QED BY <2>1, <2>2 DEF GroupKinds, SameSet
<1>6. CASE DelGroupEnd \/ (\E g \in GroupNames : OpenFound(g) \/ OpenFull(g))
           \/ (\E g \in Range(groups) : DelGroupBegin(g.id))
  BY <1>2, <1>6 DEF DelGroupEnd, OpenFound, OpenFull, DelGroupBegin, gvars, vars, loaded
<1>7. CASE GroupUnload \/ GroupPowerOff
  <2>1. /\ groups' = <<>> /\ pc' = "off" /\ op' = op
        /\ PowerOff \/ (Unload /\ pc = "ready")
    BY <1>7 DEF GroupUnload, GroupPowerOff, Ready, Unload, PowerOff
  <2>2. SameSet /\ ~ Serving'
    BY <2>1 DEF SameSet, Serving
  <2> QED BY <2>1, <2>2 DEF GroupKinds
<1>8. CASE \E g \in GroupNames : OpenNew(g)
  <2>1. PICK g \in GroupNames : OpenNew(g)
    BY <1>8
  <2>2. /\ pc = "ready" /\ groups' = groups /\ ~ Listed(g) /\ FreeId \in Ids
        /\ SetBegin(<<0, g>>, FreeId)
    BY <2>1, FreeIdIsFree DEF OpenNew, Ready
  <2> QED BY <2>2 DEF GroupKinds
<1>9. CASE \E g \in Range(groups) : \E n \in ItemNames : ItemCall(g, n)
  <2>1. PICK g \in Range(groups), n \in ItemNames : ItemCall(g, n)
    BY <1>9
  <2>2. PICK m \in DOMAIN groups : g = groups[m]
    BY <2>1 DEF Range
  <2>3. PICK k : k = <<g.id, n>>
    OBVIOUS
  <2>4. k \in DataKey /\ k[1] = groups[m].id
    BY <1>1, <2>1, <2>2, <2>3 DEF DataKey
  <2>5. /\ pc = "ready" /\ groups' = groups /\ Serving
        /\ Delete(k) \/ \E d \in Data : SetSame(k, d) \/ SetBegin(k, d)
    BY <2>1, <2>3 DEF ItemCall, Ready, Serving
  <2>6. CASE \E d \in Data : SetBegin(k, d)
    BY <2>2, <2>4, <2>5, <2>6 DEF GroupKinds
  <2>7. CASE Delete(k) \/ \E d \in Data : SetSame(k, d)
    <3>1. SameSet
      BY <2>7 DEF Delete, SetSame, SameSet
    <3> QED BY <2>4, <2>5, <2>7, <3>1 DEF GroupKinds
  <2> QED BY <2>5, <2>6, <2>7
<1>10. CASE UNCHANGED gvars
  BY <1>2, <1>10 DEF gvars, vars
<1> QED BY <1>3, <1>4, <1>5, <1>6, <1>7, <1>8, <1>9, <1>10 DEF GroupNext, GroupStep, GroupCall

LEMMA GroupStepMaps ==
    ASSUME IInv, OrderInv, LayoutInv, ContentInv, GroupType, [GroupNext]_gvars
    PROVE  [Next]_vars
<1>1. CASE \E k \in DataKey : \/ \E d \in Data : SetSame(k, d) \/ SetBegin(k, d)
                              \/ Delete(k)
  <2>1. PICK k \in DataKey : \/ \E d \in Data : SetSame(k, d) \/ SetBegin(k, d)
                             \/ Delete(k)
    BY <1>1
  <2>2. k \in Keys /\ Data \subseteq Values
    BY <2>1, KeysByGroup
  <2> QED BY <2>1, <2>2 DEF Next, Call
<1>2. CASE \E g \in GroupNames : FreeId \in Ids /\ SetBegin(<<0, g>>, FreeId)
  <2>1. PICK g \in GroupNames : FreeId \in Ids /\ SetBegin(<<0, g>>, FreeId)
    BY <1>2
  <2>2. <<0, g>> \in Keys /\ FreeId \in Values
    BY <2>1, KeysByGroup
  <2> QED BY <2>1, <2>2 DEF Next, Call
<1>3. CASE OpenAdd \/ LoadFinish
  BY <1>3 DEF OpenAdd, Next, Step
<1> QED BY <1>1, <1>2, <1>3, GroupStepIs DEF Next, GroupKinds

\* The answers for the groups change only when the item of one is written.
LEMMA GroupLookups ==
    ASSUME IInv, OrderInv, LayoutInv, ContentInv, PromiseStep, GroupType, [GroupNext]_gvars
    PROVE  /\ lost \subseteq lost'
           /\ \A k \in GroupKey \ lost' :
                 Lookup(k)' = Lookup(k) \/ (k = op.k /\ Lookup(k)' = op.v)
           /\ pc = "ready" => \A k \in GroupKey : Lookup(k)' = Lookup(k)
<1>1. \A k \in GroupKey : k \in Keys /\ k \notin DataKey
  BY KeysByGroup
<1>2. CASE pc # "ready"
  BY <1>1, <1>2, ServedLookups
<1>3. CASE pc = "ready"
  <2>1. CASE UNCHANGED <<flash, lost>>
    BY <2>1, SameFlashUnread, UnreadLookUp
  <2>2. ASSUME NEW j \in DataKey, Delete(j)
        PROVE  lost' = lost /\ \A k \in GroupKey : Lookup(k)' = Lookup(k)
    <3>1. j \in Keys
      BY KeysByGroup
    <3>2. lost' = lost
      BY <2>2 DEF Delete
    <3> QED BY <1>1, <2>2, <3>1, <3>2, DeletedReads
  <2>3. CASE PowerOff
    <3>1. lost \subseteq lost'
      BY <2>3 DEF PowerOff
    <3>2. \A t \in Sector : Unread(t)
      BY <2>3, TornItems DEF Unread
    <3> QED BY <3>1, <3>2, UnreadLookUp
  <2>4. \/ UNCHANGED vars \/ Unload \/ PowerOff
        \/ \E k \in DataKey : Delete(k) \/ \E d \in Data : SetSame(k, d)
        \/ \E k, v : SetBegin(k, v)
    BY <1>3, GroupStepIs, StepIsBusy DEF GroupKinds, OpenAdd, EraseOld, LoadFinish
  <2>5. UNCHANGED <<flash, lost>> \/ PowerOff \/ \E k \in DataKey : Delete(k)
    BY <2>4 DEF vars, Unload, SetSame, SetBegin
  <2> QED BY <1>3, <2>1, <2>2, <2>3, <2>5
<1> QED BY <1>2, <1>3

-----------------------------------------------------------------------------
(* The list of groups after a start *)

\* When the last call of a start is made, each key reads the one item it has.
LEMMA ReadsItsItem ==
    ASSUME StoreType, Twins, Unfinished, pc = "finish", NEW k \in Keys \ lost,
           NEW s \in Sector, NEW i \in LiveAt(flash[s].log), Used(s), It(s, i).key = k
    PROVE  /\ Lookup(k) = It(s, i).val
           /\ \A t \in Sector : \A j \in LiveAt(flash[t].log) :
                 Used(t) /\ It(t, j).key = k => t = s /\ j = i
<1>1. Alone /\ Complete
  BY QuietIsAlone, QuietIsComplete DEF Quiet
<1>2. \A t \in Sector : \A j \in LiveAt(flash[t].log) :
         Used(t) /\ It(t, j).key = k => t = s /\ j = i
  BY <1>1 DEF Alone, LiveOnce, Used, It
<1>3. i \in Nat /\ It(s, i).st = "using"
  <2>1. i \in Nat /\ It(s, i).st \in {"using", "nodata"}
    BY LiveItem
  <2> QED BY <1>1, <2>1 DEF Complete
<1>4. \A c : c \in Readable(k) <=>
         \E t \in Sector : \E j \in LiveAt(flash[t].log) :
            c = <<t, j>> /\ Used(t) /\ It(t, j).key = k /\ It(t, j).st = "using"
  BY ReadableIs
<1>5. Readable(k) = {<<s, i>>}
  BY <1>2, <1>3, <1>4
<1>6. Lookup(k) = It(s, i).val
  BY <1>3, <1>5, LookupOfOne
<1> QED BY <1>2, <1>6

\* The list is scanned over sectors in use.
LEMMA FinishScans ==
    ASSUME IInv, OrderInv, IInv', OrderInv', LoadFinish, NEW list, list = active'
    PROVE  /\ StoreType /\ pc = "finish" /\ flash' = flash /\ lost' = lost /\ op' = NoOp
           /\ list \in Seq(Sector) /\ IsInjective(list)
           /\ \A n \in DOMAIN list : \A i \in LiveAt(flash[list[n]].log) : Used(list[n])
           /\ \A s \in Sector : Used(s) /\ LiveAt(flash[s].log) # {} =>
                 \E n \in DOMAIN list : list[n] = s
<1>1. /\ StoreType /\ pc = "finish" /\ pc' = "ready" /\ flash' = flash /\ lost' = lost
      /\ op' = NoOp /\ ListsOK /\ Agree /\ FlashOrder
  BY DEF LoadFinish, IInv, TypeOK, OrderInv
<1>2. /\ list \in Seq(Sector) /\ IsInjective(list)
      /\ Range(list) \union Range(idle') = Sector
  BY <1>1 DEF IInv, TypeOK, StoreType, ListsOK
<1>3. \A s \in Sector : Used(s)' <=> Used(s)
  BY <1>1 DEF Used
<1>4. ASSUME NEW s \in Sector, Used(s), LiveAt(flash[s].log) # {}
      PROVE  \E n \in DOMAIN list : list[n] = s
  <2>1. flash[s].log # <<>>
    BY <1>4 DEF LiveAt
  <2>2. s \notin Range(idle')
    BY <1>1, <1>3, <1>4, <2>1 DEF OrderInv, Reserve
  <2>3. s \in Range(list)
    BY <1>2, <1>4, <2>2
  <2> QED BY <2>3 DEF Range
<1>5. ASSUME NEW n \in DOMAIN list, NEW i \in LiveAt(flash[list[n]].log)
      PROVE  Used(list[n])
  <2>1. PICK s \in Sector : s = list[n]
    BY <1>2
  <2>2. s \in Range(active)
    <3>1. s \notin Range(idle')
      BY <1>1, <1>5, <2>1 DEF IInv, ListsOK, Range
    <3>2. Range(idle) \subseteq Range(idle')
      BY <1>1 DEF LoadFinish, Range
    <3> QED BY <1>1, <3>1, <3>2 DEF ListsOK
  <2>3. Used(s) \/ Fresh(s)
    BY <1>1, <2>2 DEF Agree
  <2>4. flash[s].log # <<>>
    BY <1>5, <2>1 DEF LiveAt
  <2> QED BY <1>1, <2>1, <2>3, <2>4 DEF Agree, FlashOrder
<1> QED BY <1>1, <1>2, <1>4, <1>5

\* What is loaded are groups and ids; if no group was lost, all that flash holds, each once.
LEMMA LoadedFollows ==
    ASSUME IInv, OrderInv, LayoutInv, ContentInv, IInv', OrderInv', GroupType, LoadFinish,
           NEW list, list = Loaded(active')
    PROVE  /\ list \in Seq([id : Ids, name : GroupNames])
           /\ NoGroupLost =>
                 /\ \A n \in DOMAIN list : list[n].id = IdOf(list[n].name)
                 /\ \A g \in GroupNames : (\E n \in DOMAIN list : list[n].name = g)
                                          \/ IdOf(g) = NoValue
                 /\ \A m, n \in DOMAIN list : m # n => list[m].name # list[n].name
<1>1. PICK act : act = active'
  OBVIOUS
<1>2. /\ StoreType /\ pc = "finish" /\ flash' = flash /\ lost' = lost
      /\ act \in Seq(Sector) /\ IsInjective(act)
      /\ \A n \in DOMAIN act : \A i \in LiveAt(flash[act[n]].log) : Used(act[n])
      /\ \A s \in Sector : Used(s) /\ LiveAt(flash[s].log) # {} =>
            \E n \in DOMAIN act : act[n] = s
  BY <1>1, FinishScans
<1>3. PICK N \in Nat : \E at \in [1 .. N -> ItemsIn(act, 0)] :
         /\ Loaded(act) = [n \in 1 .. N |->
            [id   |-> It(act[at[n][1]], at[n][2]).val,
             name |-> It(act[at[n][1]], at[n][2]).key[2]]]
         /\ \A m, n \in 1 .. N : at[m] = at[n] => m = n
         /\ \A c \in ItemsIn(act, 0) : \E n \in 1 .. N : at[n] = c
  BY <1>2, LoadedAre
<1>4. PICK at \in [1 .. N -> ItemsIn(act, 0)] :
         /\ Loaded(act) = [n \in 1 .. N |->
            [id   |-> It(act[at[n][1]], at[n][2]).val,
             name |-> It(act[at[n][1]], at[n][2]).key[2]]]
         /\ \A m, n \in 1 .. N : at[m] = at[n] => m = n
         /\ \A c \in ItemsIn(act, 0) : \E n \in 1 .. N : at[n] = c
  BY <1>3
<1>5. /\ DOMAIN list = 1 .. N
      /\ \A n \in 1 .. N : /\ list[n].id = It(act[at[n][1]], at[n][2]).val
                           /\ list[n].name = It(act[at[n][1]], at[n][2]).key[2]
                           /\ list[n] = [id |-> list[n].id, name |-> list[n].name]
  BY <1>1, <1>4
<1>6. ASSUME NEW n \in 1 .. N
      PROVE  /\ at[n][1] \in DOMAIN act /\ act[at[n][1]] \in Sector /\ Used(act[at[n][1]])
             /\ at[n] = <<at[n][1], at[n][2]>>
             /\ at[n][2] \in LiveAt(flash[act[at[n][1]]].log)
             /\ It(act[at[n][1]], at[n][2]).key = <<0, list[n].name>>
             /\ <<0, list[n].name>> \in GroupKey /\ list[n].name \in GroupNames
             /\ list[n].id \in Ids
  <2>1. PICK c \in ItemsIn(act, 0) : c = at[n]
    BY <1>4, <1>6
  <2>2. /\ c[1] \in DOMAIN act /\ act[c[1]] \in Sector /\ c = <<c[1], c[2]>>
        /\ c[2] \in LiveAt(flash[act[c[1]]].log) /\ It(act[c[1]], c[2]).key[1] = 0
    BY <1>2, ScanMeets
  <2>3. PICK s, i : s = act[c[1]] /\ i = c[2]
    OBVIOUS
  <2>4. It(s, i).key \in Keys /\ Used(s)
    BY <1>2, <2>2, <2>3, LiveItem
  <2>5. It(s, i).key \in GroupKey /\ It(s, i).key = <<0, It(s, i).key[2]>>
        /\ It(s, i).key[2] \in GroupNames
    BY <2>2, <2>3, <2>4, KeysByGroup
  <2>6. It(s, i).val \in Ids
    BY <2>2, <2>3, <2>4, <2>5 DEF GroupType
  <2>7. list[n].name = It(s, i).key[2] /\ list[n].id = It(s, i).val
    BY <1>5, <2>1, <2>3
  <2> QED BY <2>1, <2>2, <2>3, <2>4, <2>5, <2>6, <2>7
<1>7. list \in Seq([id : Ids, name : GroupNames])
  <2>1. PICK G : G = [id : Ids, name : GroupNames]
    OBVIOUS
  <2>2. ASSUME NEW n \in 1 .. N PROVE list[n] \in G
    <3>1. list[n] = [id |-> list[n].id, name |-> list[n].name]
      BY <1>5
    <3> QED BY <1>6, <2>1, <3>1
  <2>3. list \in [1 .. N -> G]
    BY <1>1, <1>4, <2>2
  <2>4. list \in Seq(G)
    BY <2>3
  <2> QED BY <2>1, <2>4
<1>8. ASSUME NoGroupLost, NEW n \in 1 .. N
      PROVE  /\ list[n].id = IdOf(list[n].name)
             /\ \A m \in 1 .. N : list[m].name = list[n].name => m = n
  <2>1. PICK s, i, k : s = act[at[n][1]] /\ i = at[n][2] /\ k = <<0, list[n].name>>
    OBVIOUS
  <2>2. /\ s \in Sector /\ Used(s) /\ i \in LiveAt(flash[s].log) /\ It(s, i).key = k
        /\ k \in Keys \ lost
    BY <1>6, <1>8, <2>1, KeysByGroup DEF NoGroupLost
  <2>3. /\ Lookup(k) = It(s, i).val
        /\ \A t \in Sector : \A j \in LiveAt(flash[t].log) :
              Used(t) /\ It(t, j).key = k => t = s /\ j = i
    BY <1>2, <2>2, ReadsItsItem DEF ContentInv
  <2>4. list[n].id = IdOf(list[n].name)
    BY <1>5, <2>1, <2>3 DEF IdOf
  <2>5. ASSUME NEW m \in 1 .. N, list[m].name = list[n].name PROVE m = n
    <3>1. act[at[m][1]] = s /\ at[m][2] = i
      BY <1>6, <2>1, <2>3, <2>5
    <3>2. at[m][1] = at[n][1]
      <4>1. PICK p, q : p = at[m][1] /\ q = at[n][1]
        OBVIOUS
      <4>2. p \in DOMAIN act /\ q \in DOMAIN act /\ act[p] = s /\ act[q] = s
        BY <1>6, <2>1, <3>1, <4>1
      <4> QED BY <1>2, <4>1, <4>2 DEF IsInjective
    <3>3. at[m] = at[n]
      BY <1>6, <2>1, <3>1, <3>2
    <3> QED BY <1>4, <3>3
  <2> QED BY <2>4, <2>5
<1>9. ASSUME NEW g \in GroupNames, IdOf(g) # NoValue
      PROVE  \E n \in DOMAIN list : list[n].name = g
  <2>1. PICK k : k = <<0, g>>
    OBVIOUS
  <2>2. Readable(k) # {}
    BY <1>9, <2>1, LookupOfNone DEF IdOf
  <2>3. PICK s \in Sector : \E i \in LiveAt(flash[s].log) : Used(s) /\ It(s, i).key = k
    BY <2>2, ReadableIs
  <2>4. PICK i \in LiveAt(flash[s].log) : Used(s) /\ It(s, i).key = k
    BY <2>3
  <2>5. PICK m \in DOMAIN act : act[m] = s
    BY <1>2, <2>4
  <2>6. <<m, i>> \in ItemsIn(act, 0)
    BY <1>2, <2>1, <2>4, <2>5, ScanMisses
  <2>7. PICK n \in 1 .. N : at[n] = <<m, i>>
    BY <1>4, <2>6
  <2> QED BY <1>5, <2>1, <2>4, <2>5, <2>7
<1> QED BY <1>5, <1>7, <1>8, <1>9

-----------------------------------------------------------------------------
(* GroupInv is inductive *)

\* What is proved of the store holds before and after a step.
StoreHolds == IInv /\ OrderInv /\ LayoutInv /\ ContentInv

LEMMA ListTypeKept ==
    ASSUME StoreHolds, IInv', OrderInv', GroupType, GroupKinds
    PROVE  groups' \in Seq([id : Ids, name : GroupNames])
<1>1. PICK G : G = [id : Ids, name : GroupNames]
  OBVIOUS
<1>2. groups \in Seq(G)
  BY <1>1 DEF GroupType
<1>3. CASE groups' = groups \/ groups' = <<>>
  <2>1. <<>> \in Seq(G)
    OBVIOUS
  <2>2. groups' \in Seq(G)
    BY <1>2, <1>3, <2>1, Zenon
  <2> QED BY <1>1, <2>2
<1>4. CASE OpenAdd
  <2>1. op.v \in Ids /\ op.k[2] \in GroupNames
    BY <1>4, KeysByGroup DEF OpenAdd, GroupType, Opening
  <2>2. PICK e : e = [id |-> op.v, name |-> op.k[2]]
    OBVIOUS
  <2>3. e \in G
    BY <1>1, <2>1, <2>2
  <2>4. groups' = Append(groups, e)
    BY <1>4, <2>2 DEF OpenAdd
  <2>5. groups' \in Seq(G)
    BY <1>2, <2>3, <2>4
  <2> QED BY <1>1, <2>5
<1>5. CASE LoadFinish /\ groups' = Loaded(active')
  BY <1>5, LoadedFollows DEF StoreHolds
<1> QED BY <1>3, <1>4, <1>5 DEF GroupKinds

LEMMA DelKept ==
    ASSUME GroupType, [GroupNext]_gvars
    PROVE  del' \in Ids \union {0} /\ (del' # 0 => pc' = "ready")
<1>1. del \in Ids \union {0} /\ (del # 0 => pc = "ready")
  BY DEF GroupType
<1>2. CASE StoreStep \/ OpenAdd
  <2>1. Step /\ del' = del
    BY <1>2 DEF StoreStep, OpenAdd, Step
  <2> QED BY <1>1, <2>1, StepIsBusy
<1>3. CASE \E g \in Range(groups) : DelGroupBegin(g.id)
  <2>1. \A n \in DOMAIN groups : groups[n].id \in Ids
    BY ListedTypes DEF GroupType
  <2>2. PICK g \in Range(groups) : DelGroupBegin(g.id)
    BY <1>3
  <2>3. g.id \in Ids
    BY <2>1 DEF Range
  <2> QED BY <2>2, <2>3 DEF DelGroupBegin, Ready
<1>4. CASE DelGroupItem \/ DelGroupEnd \/ UNCHANGED gvars
           \/ \E g \in GroupNames : OpenFound(g) \/ OpenFull(g)
  BY <1>1, <1>4 DEF DelGroupItem, DelGroupEnd, OpenFound, OpenFull, gvars
<1>5. CASE \/ \E g \in GroupNames : OpenNew(g)
           \/ \E g \in Range(groups) : \E n \in ItemNames : ItemCall(g, n)
  BY <1>1, <1>5 DEF OpenNew, ItemCall, Ready
<1>6. CASE GroupUnload \/ GroupPowerOff
  BY <1>1, <1>6 DEF GroupUnload, GroupPowerOff, Ready
<1> QED BY <1>2, <1>3, <1>4, <1>5, <1>6 DEF GroupNext, GroupStep, GroupCall

\* A call that writes an item of group 0 is the opening of a group.
LEMMA OpensWithId ==
    ASSUME GroupKinds, GroupType, op'.k \in GroupKey
    PROVE  op'.v \in Ids
<1>1. CASE SameSet
  BY <1>1 DEF SameSet, GroupType, Opening
<1>2. CASE op' = NoOp \/ OpenAdd \/ LoadFinish
  <2>1. op'.k = NoValue
    BY <1>2 DEF OpenAdd, EraseOld, Return, LoadFinish, NoOp
  <2> QED BY <2>1, KeysByGroup, NoValueAssumption
<1>3. CASE \E g \in GroupNames : FreeId \in Ids /\ SetBegin(<<0, g>>, FreeId)
  BY <1>3 DEF SetBegin
<1>4. CASE \E k \in DataKey : \E d : SetBegin(k, d)
  BY <1>4, KeysByGroup DEF SetBegin
<1> QED BY <1>1, <1>2, <1>3, <1>4 DEF GroupKinds

LEMMA GroupTypeKept ==
    ASSUME StoreHolds, IInv', OrderInv', GroupType, [GroupNext]_gvars
    PROVE  GroupType'
<1>1. GroupKinds /\ [Next]_vars
  BY GroupStepIs, GroupStepMaps DEF StoreHolds
<1>2. Descends
  BY <1>1, StepDescends DEF StoreHolds
<1>3. groups' \in Seq([id : Ids, name : GroupNames])
  BY <1>1, ListTypeKept
<1>4. del' \in Ids \union {0} /\ (del' # 0 => pc' = "ready")
  BY DelKept
<1>5. Opening' => op'.v \in Ids
  BY <1>1, OpensWithId DEF Opening
<1>6. ASSUME NEW s \in Sector, NEW i \in LiveAt(flash'[s].log), Used(s)',
             flash'[s].log[i].key \in GroupKey
      PROVE  flash'[s].log[i].val \in Ids
  <2>1. CASE flash'[s].log[i].key = op.k /\ flash'[s].log[i].val = op.v
    BY <1>6, <2>1 DEF GroupType, Opening
  <2>2. ASSUME NEW t \in Sector, NEW j \in LiveAt(flash[t].log), Used(t),
               It(t, j).key = flash'[s].log[i].key, It(t, j).val = flash'[s].log[i].val
        PROVE  flash'[s].log[i].val \in Ids
    BY <1>6, <2>2 DEF GroupType
  <2> QED BY <1>2, <1>6, <2>1, <2>2 DEF Descends
<1> QED BY <1>3, <1>4, <1>5, <1>6 DEF GroupType, It

\* What a step does to the ids in flash as long as no group is lost.
IdsStep ==
    /\ lost \subseteq lost'
    /\ NoGroupLost' =>
          /\ NoGroupLost
          /\ \A g \in GroupNames : \/ (IdOf(g))' = IdOf(g)
                                   \/ pc # "ready" /\ op.k = <<0, g>> /\ (IdOf(g))' = op.v

LEMMA IdsChange ==
    ASSUME StoreHolds, PromiseStep, GroupType, [GroupNext]_gvars
    PROVE  IdsStep
<1>1. /\ lost \subseteq lost'
      /\ \A k \in GroupKey \ lost' :
            Lookup(k)' = Lookup(k) \/ (k = op.k /\ Lookup(k)' = op.v)
      /\ pc = "ready" => \A k \in GroupKey : Lookup(k)' = Lookup(k)
  BY GroupLookups DEF StoreHolds
<1>2. ASSUME NoGroupLost', NEW g \in GroupNames
      PROVE  \/ (IdOf(g))' = IdOf(g)
             \/ pc # "ready" /\ op.k = <<0, g>> /\ (IdOf(g))' = op.v
  <2>1. PICK k : k = <<0, g>>
    OBVIOUS
  <2>2. k \in GroupKey /\ k \notin lost'
    BY <1>2, <2>1, KeysByGroup DEF NoGroupLost
  <2>3. \/ Lookup(k)' = Lookup(k)
        \/ pc # "ready" /\ k = op.k /\ Lookup(k)' = op.v
    BY <1>1, <2>2
  <2> QED BY <2>1, <2>3 DEF IdOf
<1>3. NoGroupLost' => NoGroupLost
  BY <1>1 DEF NoGroupLost
<1> QED BY <1>1, <1>2, <1>3 DEF IdsStep

\* Until a group is lost, its id stays.
IdsStay ==
    \A g \in GroupNames : IdOf(g) # NoValue /\ NoGroupLost' => (IdOf(g))' = IdOf(g)

LEMMA IdsAreKept ==
    ASSUME IdsStep, OpensUnused
    PROVE  IdsStay
<1> SUFFICES ASSUME NEW g \in GroupNames, IdOf(g) # NoValue, NoGroupLost'
             PROVE  (IdOf(g))' = IdOf(g)
  BY DEF IdsStay
<1>1. CASE op.k = <<0, g>> /\ (IdOf(g))' = op.v
  <2>1. NoGroupLost /\ Opening /\ op.k[2] = g
    BY <1>1, KeysByGroup DEF IdsStep, Opening
  <2>2. IdOf(op.k[2]) \in {NoValue, op.v}
    BY <2>1 DEF OpensUnused
  <2>3. IdOf(op.k[2]) = IdOf(g)
    BY <2>1
  <2> QED BY <1>1, <2>2, <2>3
<1> QED BY <1>1 DEF IdsStep

LEMMA IdsApartKept ==
    ASSUME IdsStep, OpensUnused, IdsApart
    PROVE  IdsApart'
<1> SUFFICES ASSUME NoGroupLost', NEW g \in GroupNames, (IdOf(g))' # NoValue,
                    NEW h \in GroupNames \ {g}, (IdOf(h))' = (IdOf(g))'
             PROVE  FALSE
  BY DEF IdsApart
<1>1. ASSUME NEW a \in GroupNames, op.k = <<0, a>>
      PROVE  \A b \in GroupNames \ {a} : IdOf(b) # op.v
  <2>1. NoGroupLost /\ Opening /\ op.k[2] = a
    BY <1>1, KeysByGroup DEF IdsStep, Opening
  <2> QED BY <2>1 DEF OpensUnused
<1>2. CASE (IdOf(g))' = IdOf(g) /\ (IdOf(h))' = IdOf(h)
  BY <1>2 DEF IdsStep, IdsApart
<1>3. CASE op.k = <<0, g>> /\ (IdOf(g))' = op.v
  <2>1. (IdOf(h))' = IdOf(h)
    BY <1>3 DEF IdsStep
  <2> QED BY <1>1, <1>3, <2>1
<1>4. CASE op.k = <<0, h>> /\ (IdOf(h))' = op.v
  <2>1. op.k # <<0, g>>
    BY <1>4
  <2>2. (IdOf(g))' = IdOf(g)
    BY <2>1 DEF IdsStep
  <2> QED BY <1>1, <1>4, <2>2
<1> QED BY <1>2, <1>3, <1>4 DEF IdsStep

\* Between calls no set is being served, and every group in flash is listed.
LEMMA ReadyListed ==
    ASSUME StoreHolds, ListFollows, pc = "ready", NoGroupLost
    PROVE  /\ op = NoOp
           /\ \A g \in GroupNames : Listed(g) \/ IdOf(g) = NoValue
           /\ \A n \in DOMAIN groups : groups[n].id = IdOf(groups[n].name)
           /\ \A m, n \in DOMAIN groups : m # n => groups[m].name # groups[n].name
<1>1. op = NoOp /\ Serving
  BY DEF StoreHolds, ContentInv, Started, Serving
<1>2. \A g \in GroupNames : op.k # <<0, g>>
  BY <1>1, KeysByGroup, NoValueAssumption DEF NoOp
<1> QED BY <1>1, <1>2 DEF ListFollows

LEMMA OpensUnusedKept ==
    ASSUME StoreHolds, GroupType, GroupKinds, IdsStep, OpensUnused, ListFollows
    PROVE  OpensUnused'
<1> SUFFICES ASSUME NoGroupLost', op'.k \in GroupKey
             PROVE  /\ (IdOf(op.k[2]))' \in {NoValue, op'.v}
                    /\ \A g \in GroupNames \ {op'.k[2]} : (IdOf(g))' # op'.v
  BY DEF OpensUnused, Opening
<1>1. NoGroupLost
  BY DEF IdsStep
<1>2. PICK h \in GroupNames : h = op'.k[2] /\ op'.k = <<0, h>>
  BY KeysByGroup
<1>3. (IdOf(op.k[2]))' = (IdOf(h))'
  BY <1>2 DEF IdOf
<1>4. CASE SameSet
  <2>1. op.k = <<0, h>> /\ Opening /\ op.k[2] = h /\ op'.v = op.v
    BY <1>2, <1>4 DEF SameSet, Opening
  <2>2. IdOf(h) \in {NoValue, op.v} /\ \A g \in GroupNames \ {h} : IdOf(g) # op.v
    BY <1>1, <2>1 DEF OpensUnused
  <2>3. (IdOf(h))' \in {IdOf(h), op.v}
    BY DEF IdsStep
  <2>4. \A g \in GroupNames \ {h} : (IdOf(g))' = IdOf(g)
    BY <2>1 DEF IdsStep
  <2> QED BY <1>2, <1>3, <2>1, <2>2, <2>3, <2>4
<1>5. CASE op' = NoOp \/ OpenAdd \/ LoadFinish
  <2>1. op'.k = NoValue
    BY <1>5 DEF OpenAdd, EraseOld, Return, LoadFinish, NoOp
  <2> QED BY <2>1, KeysByGroup, NoValueAssumption
<1>6. ASSUME pc = "ready", NEW g \in GroupNames, ~ Listed(g), FreeId \in Ids,
             SetBegin(<<0, g>>, FreeId)
      PROVE  /\ (IdOf(op.k[2]))' \in {NoValue, op'.v}
             /\ \A a \in GroupNames \ {op'.k[2]} : (IdOf(a))' # op'.v
  <2>1. op'.k = <<0, g>> /\ op'.v = FreeId /\ h = g
    BY <1>2, <1>6 DEF SetBegin
  <2>2. \A a \in GroupNames : (IdOf(a))' = IdOf(a)
    BY <1>6 DEF IdsStep
  <2>3. IdOf(g) = NoValue
    BY <1>1, <1>6, ReadyListed
  <2>4. ASSUME NEW a \in GroupNames PROVE IdOf(a) # FreeId
    <3>1. CASE Listed(a)
      <4>1. PICK n \in DOMAIN groups : groups[n].name = a
        BY <3>1 DEF Listed
      <4>2. groups[n].id = IdOf(a)
        BY <1>1, <1>6, <4>1, ReadyListed
      <4> QED BY <4>2, FreeIdIsFree DEF ListedIds
    <3>2. CASE IdOf(a) = NoValue
      BY <1>6, <3>2, KeysByGroup
    <3> QED BY <1>1, <1>6, <3>1, <3>2, ReadyListed
  <2> QED BY <1>2, <1>3, <2>1, <2>2, <2>3, <2>4
<1>7. CASE \E k \in DataKey : \E d : SetBegin(k, d)
  BY <1>7, KeysByGroup DEF SetBegin
<1> QED BY <1>4, <1>5, <1>6, <1>7 DEF GroupKinds

\* The parts of ListFollows after a step.
Follows ==
    /\ \A n \in DOMAIN groups' : groups'[n].id = (IdOf(groups[n].name))'
    /\ \A g \in GroupNames : \/ \E n \in DOMAIN groups' : groups'[n].name = g
                             \/ (IdOf(g))' = NoValue
                             \/ op'.k = <<0, g>>
    /\ \A m, n \in DOMAIN groups' : m # n => groups'[m].name # groups'[n].name
    /\ op'.k \in GroupKey =>
          (\A n \in DOMAIN groups' : groups'[n].name # op'.k[2]) /\ ~ op'.found

LEMMA FollowsServed ==
    ASSUME StoreHolds, GroupType, IdsStep, ListFollows, Serving, NoGroupLost',
           SameSet, groups' = groups
    PROVE  Follows
<1>1. /\ NoGroupLost
      /\ \A n \in DOMAIN groups : groups[n].id = IdOf(groups[n].name)
      /\ \A g \in GroupNames : Listed(g) \/ IdOf(g) = NoValue \/ op.k = <<0, g>>
      /\ \A m, n \in DOMAIN groups : m # n => groups[m].name # groups[n].name
      /\ Opening => ~ Listed(op.k[2]) /\ ~ op.found
  BY DEF ListFollows, IdsStep
<1>2. \A n \in DOMAIN groups : groups[n].name \in GroupNames
  BY ListedTypes DEF GroupType
<1>3. ASSUME NEW n \in DOMAIN groups PROVE groups'[n].id = (IdOf(groups[n].name))'
  <2>1. PICK g : g = groups[n].name
    OBVIOUS
  <2>2. ASSUME op.k = <<0, g>> PROVE FALSE
    <3>1. op.k \in GroupKey /\ op.k[2] = g
      BY <1>2, <1>3, <2>1, <2>2, KeysByGroup
    <3> QED BY <1>1, <1>3, <2>1, <3>1 DEF Opening, Listed
  <2>3. (IdOf(g))' = IdOf(g)
    BY <1>2, <1>3, <2>1, <2>2 DEF IdsStep
  <2>4. (IdOf(groups[n].name))' = (IdOf(g))'
    BY <2>1 DEF IdOf
  <2> QED BY <1>1, <1>3, <2>1, <2>3, <2>4
<1>4. ASSUME NEW g \in GroupNames, \A n \in DOMAIN groups : groups[n].name # g, op.k # <<0, g>>
      PROVE  (IdOf(g))' = NoValue
  BY <1>1, <1>4 DEF IdsStep, Listed
<1> QED BY <1>1, <1>3, <1>4 DEF Follows, SameSet, Opening, Listed

LEMMA FollowsReturn ==
    ASSUME StoreHolds, GroupType, IdsStep, ListFollows, Serving, NoGroupLost',
           op' = NoOp, groups' = groups,
           ~ Opening \/ (pc = "write" /\ UNCHANGED <<flash, lost>>)
    PROVE  Follows
<1>1. /\ NoGroupLost
      /\ \A n \in DOMAIN groups : groups[n].id = IdOf(groups[n].name)
      /\ \A g \in GroupNames : Listed(g) \/ IdOf(g) = NoValue \/ op.k = <<0, g>>
      /\ \A m, n \in DOMAIN groups : m # n => groups[m].name # groups[n].name
      /\ Opening => ~ Listed(op.k[2]) /\ ~ op.found
  BY DEF ListFollows, IdsStep
<1>2. \A n \in DOMAIN groups : groups[n].name \in GroupNames
  BY ListedTypes DEF GroupType
<1>3. op'.k \notin GroupKey
  BY KeysByGroup, NoValueAssumption DEF NoOp
<1>4. \A g \in GroupNames : (IdOf(g))' = IdOf(g)
  <2>1. CASE ~ Opening
    <3>1. \A g \in GroupNames : op.k # <<0, g>>
      BY <2>1, KeysByGroup DEF Opening
    <3> QED BY <3>1 DEF IdsStep
  <2>2. CASE UNCHANGED <<flash, lost>>
    BY <2>2, SameFlashUnread, UnreadLookUp DEF IdOf
  <2> QED BY <2>1, <2>2
<1>5. \A n \in DOMAIN groups : groups'[n].id = (IdOf(groups[n].name))'
  <2> SUFFICES ASSUME NEW n \in DOMAIN groups
               PROVE  groups'[n].id = (IdOf(groups[n].name))'
    OBVIOUS
  <2>1. PICK g \in GroupNames : g = groups[n].name
    BY <1>2
  <2>2. (IdOf(groups[n].name))' = (IdOf(g))'
    BY <2>1 DEF IdOf
  <2> QED BY <1>1, <1>4, <2>1, <2>2
<1>6. ASSUME NEW g \in GroupNames PROVE Listed(g) \/ IdOf(g) = NoValue
  <2>1. CASE op.k = <<0, g>>
    <3>1. Opening
      BY <2>1, KeysByGroup DEF Opening
    <3>2. ~ op.found /\ pc = "write"
      BY <1>1, <3>1
    <3>3. PICK k : k = <<0, g>>
      OBVIOUS
    <3>4. k = op.k /\ k \notin lost
      BY <1>1, <2>1, <3>3, KeysByGroup DEF NoGroupLost
    <3>5. Lookup(k) = NoValue
      BY <3>2, <3>4, NotYetWritten DEF StoreHolds, Calling
    <3> QED BY <3>3, <3>5 DEF IdOf
  <2> QED BY <1>1, <2>1
<1> QED BY <1>1, <1>3, <1>4, <1>5, <1>6 DEF Follows, Listed

\* The group that has been written is the one that is listed.
LEMMA FollowsOpening ==
    ASSUME StoreHolds, PromiseStep, GroupType, IdsStep, ListFollows, NoGroupLost', OpenAdd
    PROVE  Follows
<1>1. Opening /\ EraseOld /\ Serving /\ op' = NoOp
  BY DEF OpenAdd, EraseOld, Return, Serving
<1>2. PICK g \in GroupNames : op.k = <<0, g>> /\ op.k[2] = g
  BY <1>1, KeysByGroup DEF Opening
<1>3. PICK e : e = [id |-> op.v, name |-> g]
  OBVIOUS
<1>4. groups' = Append(groups, e) /\ e.id = op.v /\ e.name = g
  BY <1>2, <1>3 DEF OpenAdd
<1>5. PICK L : L = Len(groups)
  OBVIOUS
<1>6. /\ L \in Nat /\ DOMAIN groups = 1 .. L /\ DOMAIN groups' = 1 .. L + 1
      /\ groups'[L + 1] = e /\ \A n \in 1 .. L : groups'[n] = groups[n]
  <2>1. PICK G : G = [id : Ids, name : GroupNames]
    OBVIOUS
  <2>2. groups \in Seq(G)
    BY <2>1 DEF GroupType
  <2> QED BY <1>4, <1>5, <2>2
<1>7. /\ NoGroupLost
      /\ \A n \in 1 .. L : groups[n].id = IdOf(groups[n].name)
      /\ \A h \in GroupNames : Listed(h) \/ IdOf(h) = NoValue \/ op.k = <<0, h>>
      /\ \A m, n \in 1 .. L : m # n => groups[m].name # groups[n].name
      /\ \A n \in 1 .. L : groups[n].name # g
  BY <1>1, <1>2, <1>6 DEF ListFollows, IdsStep, Listed
<1>8. \A n \in 1 .. L : groups[n].name \in GroupNames
  BY <1>6, ListedTypes DEF GroupType
<1>9. (IdOf(g))' = op.v
  <2>1. PICK k : k = <<0, g>>
    OBVIOUS
  <2>2. k = op.k /\ k \notin lost'
    BY <1>2, <2>1, KeysByGroup DEF NoGroupLost
  <2>3. Lookup(k)' = op.v
    BY <1>1, <2>2, SetIsAnswered DEF StoreHolds
  <2> QED BY <2>1, <2>3 DEF IdOf
<1>10. \A h \in GroupNames : h # g => (IdOf(h))' = IdOf(h)
  BY <1>2 DEF IdsStep
<1>11. ASSUME NEW n \in 1 .. L + 1 PROVE groups'[n].id = (IdOf(groups[n].name))'
  <2>1. PICK h : h = groups'[n].name
    OBVIOUS
  <2>2. (IdOf(groups[n].name))' = (IdOf(h))'
    BY <2>1 DEF IdOf
  <2>3. CASE n = L + 1
    BY <1>4, <1>6, <1>9, <2>1, <2>2, <2>3
  <2>4. CASE n \in 1 .. L
    BY <1>6, <1>7, <1>8, <1>10, <2>1, <2>2, <2>4
  <2> QED BY <1>6, <2>3, <2>4
<1>12. ASSUME NEW h \in GroupNames, (IdOf(h))' # NoValue
       PROVE  \E n \in 1 .. L + 1 : groups'[n].name = h
  <2>1. CASE h = g
    <3>1. L + 1 \in 1 .. L + 1
      BY <1>6
    <3> QED BY <1>4, <1>6, <2>1, <3>1
  <2>2. CASE h # g
    <3>1. Listed(h)
      BY <1>2, <1>7, <1>10, <1>12, <2>2
    <3>2. PICK n \in 1 .. L : groups[n].name = h
      BY <1>6, <3>1 DEF Listed
    <3>3. n \in 1 .. L + 1
      BY <1>6
    <3> QED BY <1>6, <3>2, <3>3
  <2> QED BY <2>1, <2>2
<1>13. ASSUME NEW m \in 1 .. L + 1, NEW n \in 1 .. L + 1, m # n
       PROVE  groups'[m].name # groups'[n].name
  <2>1. \A x \in 1 .. L + 1 : x \in 1 .. L \/ x = L + 1
    BY <1>6
  <2> QED BY <1>4, <1>6, <1>7, <1>13, <2>1
<1>14. op'.k \notin GroupKey
  BY <1>1, KeysByGroup, NoValueAssumption DEF NoOp
<1> QED BY <1>6, <1>11, <1>12, <1>13, <1>14 DEF Follows

\* A group that is not listed has no item a lookup could find.
LEMMA FollowsCall ==
    ASSUME StoreHolds, GroupType, IdsStep, ListFollows, NoGroupLost', pc = "ready",
           groups' = groups,
           \/ \E g \in GroupNames : ~ Listed(g) /\ FreeId \in Ids /\ SetBegin(<<0, g>>, FreeId)
           \/ \E k \in DataKey : \E d : SetBegin(k, d)
    PROVE  Follows
<1>1. /\ NoGroupLost
      /\ \A g \in GroupNames : Listed(g) \/ IdOf(g) = NoValue
      /\ \A n \in DOMAIN groups : groups[n].id = IdOf(groups[n].name)
      /\ \A m, n \in DOMAIN groups : m # n => groups[m].name # groups[n].name
  BY ReadyListed DEF IdsStep
<1>2. \A n \in DOMAIN groups : groups[n].name \in GroupNames
  BY ListedTypes DEF GroupType
<1>3. \A g \in GroupNames : (IdOf(g))' = IdOf(g)
  BY DEF IdsStep
<1>4. \A n \in DOMAIN groups : groups'[n].id = (IdOf(groups[n].name))'
  <2> SUFFICES ASSUME NEW n \in DOMAIN groups
               PROVE  groups'[n].id = (IdOf(groups[n].name))'
    OBVIOUS
  <2>1. PICK g \in GroupNames : g = groups[n].name
    BY <1>2
  <2>2. (IdOf(groups[n].name))' = (IdOf(g))'
    BY <2>1 DEF IdOf
  <2> QED BY <1>1, <1>3, <2>1, <2>2
<1>5. op'.k \in GroupKey => (\A n \in DOMAIN groups' : groups'[n].name # op'.k[2]) /\ ~ op'.found
  <2>1. CASE \E k \in DataKey : \E d : SetBegin(k, d)
    BY <2>1, KeysByGroup DEF SetBegin
  <2>2. ASSUME NEW g \in GroupNames, ~ Listed(g), SetBegin(<<0, g>>, FreeId)
        PROVE  op'.k[2] = g /\ ~ Listed(g) /\ ~ op'.found
    <3>1. PICK k, f : k = <<0, g>> /\ f = FindItem(k, Types)
      OBVIOUS
    <3>2. op'.k = k /\ op'.found = f.found
      BY <2>2, <3>1 DEF SetBegin
    <3>3. k \in Keys \ lost /\ Lookup(k) = NoValue
      BY <1>1, <2>2, <3>1, KeysByGroup DEF NoGroupLost, IdOf
    <3>4. NoValue = IF f.found THEN FoundItem(f).val ELSE NoValue
      BY <3>1, <3>3, RamAgrees DEF StoreHolds
    <3>5. f.found => FoundItem(f).val \in Values
      <4>1. StoreType
        BY DEF StoreHolds, IInv, TypeOK
      <4> QED BY <3>1, <4>1, FindItemType DEF Item
    <3> QED BY <2>2, <3>1, <3>2, <3>4, <3>5, NoValueAssumption
  <2> QED BY <2>1, <2>2 DEF Listed
<1>6. \A g \in GroupNames : (\E n \in DOMAIN groups' : groups'[n].name = g) \/ (IdOf(g))' = NoValue
  BY <1>1, <1>3 DEF Listed
<1> QED BY <1>1, <1>4, <1>5, <1>6 DEF Follows

LEMMA FollowsLoad ==
    ASSUME StoreHolds, IInv', OrderInv', GroupType, NoGroupLost', LoadFinish,
           groups' = Loaded(active')
    PROVE  Follows
<1>1. /\ flash' = flash /\ lost' = lost /\ op' = NoOp
  BY DEF LoadFinish
<1>2. PICK list : list = groups'
  OBVIOUS
<1>3. /\ list \in Seq([id : Ids, name : GroupNames]) /\ NoGroupLost
      /\ \A n \in DOMAIN list : list[n].id = IdOf(list[n].name)
      /\ \A g \in GroupNames : (\E n \in DOMAIN list : list[n].name = g) \/ IdOf(g) = NoValue
      /\ \A m, n \in DOMAIN list : m # n => list[m].name # list[n].name
  <2>1. list = Loaded(active') /\ NoGroupLost
    BY <1>1, <1>2 DEF NoGroupLost
  <2>2. IInv /\ OrderInv /\ LayoutInv /\ ContentInv
    BY DEF StoreHolds
  <2> QED BY <2>1, <2>2, LoadedFollows
<1>4. \A g : (IdOf(g))' = IdOf(g)
  BY <1>1, SameFlashUnread, UnreadLookUp DEF IdOf
<1>5. op'.k \notin GroupKey
  BY <1>1, KeysByGroup, NoValueAssumption DEF NoOp
<1>6. \A n \in DOMAIN groups' : groups'[n].id = (IdOf(groups[n].name))'
  <2> SUFFICES ASSUME NEW n \in DOMAIN groups'
               PROVE  groups'[n].id = (IdOf(groups[n].name))'
    OBVIOUS
  <2>1. PICK g : g = groups'[n].name
    OBVIOUS
  <2>2. (IdOf(groups[n].name))' = (IdOf(g))'
    BY <2>1 DEF IdOf
  <2>3. list[n].id = IdOf(g)
    BY <1>2, <1>3, <2>1
  <2> QED BY <1>2, <1>4, <2>2, <2>3
<1> QED BY <1>2, <1>3, <1>4, <1>5, <1>6 DEF Follows

LEMMA ListFollowsKept ==
    ASSUME StoreHolds, IInv', OrderInv', PromiseStep, GroupType, GroupKinds, IdsStep, ListFollows
    PROVE  ListFollows'
<1> SUFFICES ASSUME Serving', NoGroupLost'
             PROVE  Follows
  BY DEF ListFollows, Follows, Opening, Listed
<1>1. CASE SameSet /\ groups' = groups /\ (Serving' => Serving)
  BY <1>1, FollowsServed
<1>2. CASE /\ op' = NoOp /\ groups' = groups /\ Serving
           /\ ~ Opening \/ (pc = "write" /\ UNCHANGED <<flash, lost>>)
  BY <1>2, FollowsReturn
<1>3. CASE OpenAdd
  BY <1>3, FollowsOpening
<1>4. CASE LoadFinish /\ groups' = Loaded(active')
  BY <1>4, FollowsLoad
<1>5. CASE /\ pc = "ready" /\ groups' = groups
           /\ \/ \E g \in GroupNames : ~ Listed(g) /\ FreeId \in Ids /\ SetBegin(<<0, g>>, FreeId)
              \/ \E k \in DataKey : \E d : SetBegin(k, d)
  BY <1>5, FollowsCall
<1> QED BY <1>1, <1>2, <1>3, <1>4, <1>5 DEF GroupKinds

LEMMA WritesOwnedKept ==
    ASSUME StoreHolds, GroupType, GroupKinds, IdsStep, IdsStay, ListFollows, WritesOwned
    PROVE  WritesOwned'
<1> SUFFICES ASSUME NoGroupLost', op'.k \in DataKey
             PROVE  \E g \in GroupNames : (IdOf(g))' = op'.k[1]
  <2>1. (\E g \in GroupNames : (IdOf(g))' = op'.k[1])
           => (\E g \in GroupNames : IdOf(g) = op.k[1])'
    OBVIOUS
  <2> QED BY <2>1 DEF WritesOwned
<1>1. NoGroupLost
  BY DEF IdsStep
<1>2. CASE SameSet
  <2>1. op'.k = op.k /\ op.k[1] \in Ids
    BY <1>2, KeysByGroup DEF SameSet
  <2>2. PICK g \in GroupNames : IdOf(g) = op.k[1]
    BY <1>1, <2>1 DEF WritesOwned
  <2> QED BY <2>1, <2>2, KeysByGroup DEF IdsStay
<1>3. CASE op' = NoOp \/ OpenAdd \/ LoadFinish
  <2>1. op'.k = NoValue
    BY <1>3 DEF OpenAdd, EraseOld, Return, LoadFinish, NoOp
  <2> QED BY <2>1, KeysByGroup, NoValueAssumption
<1>4. CASE \E g \in GroupNames : SetBegin(<<0, g>>, FreeId)
  BY <1>4, KeysByGroup DEF SetBegin
<1>5. CASE /\ pc = "ready"
           /\ \E n \in DOMAIN groups : \E k \in DataKey : \E d :
                 k[1] = groups[n].id /\ SetBegin(k, d)
  <2>1. PICK n \in DOMAIN groups : op'.k[1] = groups[n].id
    BY <1>5 DEF SetBegin
  <2>2. PICK g \in GroupNames : g = groups[n].name
    BY ListedTypes DEF GroupType
  <2>3. groups[n].id = IdOf(g) /\ groups[n].id \in Ids
    BY <1>1, <1>5, <2>1, <2>2, ReadyListed, ListedTypes DEF GroupType
  <2> QED BY <2>1, <2>3, KeysByGroup DEF IdsStay
<1> QED BY <1>2, <1>3, <1>4, <1>5 DEF GroupKinds

LEMMA ItemsHaveGroupKept ==
    ASSUME StoreHolds, StoreType', Descends, IdsStep, IdsStay, WritesOwned, ItemsHaveGroup
    PROVE  ItemsHaveGroup'
<1> SUFFICES ASSUME NoGroupLost', NEW s \in Sector, NEW i \in LiveAt(flash'[s].log),
                    Used(s)', flash'[s].log[i].key[1] # 0
             PROVE  \E g \in GroupNames : (IdOf(g))' = flash'[s].log[i].key[1]
  BY DEF ItemsHaveGroup, Used
<1>1. NoGroupLost
  BY DEF IdsStep
<1>2. PICK k : k = flash'[s].log[i].key
  OBVIOUS
<1>3. k \in DataKey
  <2>1. flash'[s].log \in Seq(Item)
    BY DEF StoreType, FlashSector
  <2>2. flash'[s].log[i] \in Item
    BY <2>1 DEF LiveAt
  <2>3. k \in Keys
    BY <1>2, <2>2 DEF Item
  <2> QED BY <1>2, <2>3, KeysByGroup
<1>4. \E g \in GroupNames : IdOf(g) = k[1]
  <2>1. CASE op.k = k
    BY <1>1, <1>3, <2>1 DEF WritesOwned
  <2>2. ASSUME NEW t \in Sector, NEW j \in LiveAt(flash[t].log), Used(t), It(t, j).key = k
        PROVE  \E g \in GroupNames : IdOf(g) = k[1]
    BY <1>1, <1>2, <2>2 DEF ItemsHaveGroup, Used, It
  <2> QED BY <1>2, <2>1, <2>2 DEF Descends
<1>5. k[1] # NoValue
  BY <1>3, KeysByGroup
<1> QED BY <1>2, <1>4, <1>5 DEF IdsStay

-----------------------------------------------------------------------------
(* What holds of groups *)

LEMMA GroupStarts ==
    ASSUME GroupInit
    PROVE  StoreHolds /\ GroupInv
<1>1. /\ \A s \in Sector : ~ Used(s)
      /\ Init /\ pc = "off" /\ op = NoOp /\ groups = <<>> /\ del = 0
  BY DEF GroupInit, Init, Used, IsUsed, Blank
<1>2. StoreHolds
  BY <1>1, InitHolds, InitOrdered, InitLayout, InitContent DEF StoreHolds
<1>3. op.k \notin GroupKey /\ op.k \notin DataKey /\ ~ Serving
  BY <1>1, KeysByGroup, NoValueAssumption DEF NoOp, Serving
<1>4. GroupType
  BY <1>1, <1>3 DEF GroupType, Opening
<1>5. \A g : IdOf(g) = NoValue
  <2>1. \A k : Readable(k) = {}
    BY <1>1, ReadableAre DEF Reads
  <2> QED BY <2>1, LookupOfNone DEF IdOf
<1>6. OpensUnused /\ IdsApart /\ ListFollows /\ WritesOwned
  BY <1>3, <1>5 DEF OpensUnused, IdsApart, ListFollows, WritesOwned, Opening
<1>7. ItemsHaveGroup
  BY <1>1 DEF ItemsHaveGroup, Used
<1> QED BY <1>2, <1>4, <1>6, <1>7 DEF GroupInv

LEMMA StoreStays ==
    ASSUME StoreHolds, [Next]_vars
    PROVE  StoreHolds' /\ PromiseStep
<1>1. IInv' /\ OrderInv'
  BY StepKeeps, StepOrder DEF StoreHolds
<1>2. LayoutInv' /\ ContentInv'
  BY <1>1, StepLayout, StepContent DEF StoreHolds
<1> QED BY <1>1, <1>2, StepPromise DEF StoreHolds

LEMMA GroupStepKeeps ==
    ASSUME StoreHolds, GroupInv, [GroupNext]_gvars
    PROVE  StoreHolds' /\ GroupInv' /\ IdsStay
<1>1. GroupType /\ OpensUnused /\ IdsApart /\ ListFollows /\ WritesOwned /\ ItemsHaveGroup
  BY DEF GroupInv
<1>2. GroupKinds /\ [Next]_vars
  BY <1>1, GroupStepIs, GroupStepMaps DEF StoreHolds
<1>3. StoreHolds' /\ PromiseStep
  BY <1>2, StoreStays
<1>4. IInv' /\ OrderInv' /\ StoreType'
  BY <1>3 DEF StoreHolds, IInv, TypeOK
<1>5. IdsStep
  BY <1>1, <1>3, IdsChange
<1>6. IdsStay
  BY <1>1, <1>5, IdsAreKept
<1>7. Descends
  BY <1>2, StepDescends DEF StoreHolds
<1>8. GroupType'
  BY <1>1, <1>4, GroupTypeKept
<1>9. OpensUnused' /\ IdsApart'
  BY <1>1, <1>2, <1>5, OpensUnusedKept, IdsApartKept
<1>10. ListFollows'
  BY <1>1, <1>2, <1>3, <1>4, <1>5, ListFollowsKept
<1>11. WritesOwned' /\ ItemsHaveGroup'
  BY <1>1, <1>2, <1>4, <1>5, <1>6, <1>7, WritesOwnedKept, ItemsHaveGroupKept
<1> QED BY <1>3, <1>6, <1>8, <1>9, <1>10, <1>11 DEF GroupInv

LEMMA GroupsAlways == GroupSpec => [](StoreHolds /\ GroupInv)
<1>1. GroupInit => StoreHolds /\ GroupInv
  BY GroupStarts
<1>2. StoreHolds /\ GroupInv /\ [GroupNext]_gvars => (StoreHolds /\ GroupInv)'
  BY GroupStepKeeps
<1> QED BY <1>1, <1>2, PTL DEF GroupSpec

\* Whatever is done with groups and their items is done through the calls of the store, the
\* deletion of a group through deletions of its items: each theorem about the store holds of
\* a partition with groups.
THEOREM GroupsUseTheStore == GroupSpec => Spec
<1>1. GroupInit => Init
  BY DEF GroupInit
<1>2. StoreHolds /\ GroupInv /\ [GroupNext]_gvars => [Next]_vars
  BY GroupStepMaps DEF StoreHolds, GroupInv
<1> QED BY <1>1, <1>2, GroupsAlways, PTL DEF GroupSpec, Spec

\* The list of groups, their items in flash and the set being served fit together at every
\* step of every call, collection, start and power failure.
THEOREM GroupsFit == GroupSpec => []GroupInv
<1> QED BY GroupsAlways, PTL

\* Whenever calls are served the list in RAM, which jekv_storage_open_group trusts, holds
\* the groups of the flash, each once and under its id.
THEOREM ListHoldsTheGroups == GroupSpec => []ListIsFlash
<1>1. ASSUME StoreHolds, GroupInv PROVE ListIsFlash
  <2> SUFFICES ASSUME pc = "ready", NoGroupLost
               PROVE  /\ {<<groups[n].name, groups[n].id>> : n \in DOMAIN groups}
                            = {<<g, IdOf(g)>> : g \in {h \in GroupNames : IdOf(h) # NoValue}}
                      /\ \A m, n \in DOMAIN groups : m # n => groups[m].name # groups[n].name
    BY DEF ListIsFlash, Idle
  <2>1. /\ \A g \in GroupNames : Listed(g) \/ IdOf(g) = NoValue
        /\ \A n \in DOMAIN groups : groups[n].id = IdOf(groups[n].name)
        /\ \A m, n \in DOMAIN groups : m # n => groups[m].name # groups[n].name
    BY <1>1, ReadyListed DEF GroupInv
  <2>2. \A n \in DOMAIN groups : groups[n].id # NoValue /\ groups[n].name \in GroupNames
    BY <1>1, ListedTypes, KeysByGroup DEF GroupInv, GroupType
  <2> QED BY <2>1, <2>2 DEF Listed
<1> QED BY <1>1, GroupsAlways, PTL

\* No two groups ever have the same id in flash, whatever is being written, collected or
\* recovered.
THEOREM NoIdTwice == GroupSpec => []IdsApart
<1>1. GroupInv => IdsApart
  BY DEF GroupInv
<1> QED BY <1>1, GroupsAlways, PTL

\* An item under an id belongs to the group that has the id: none is left over for the next
\* group that gets it.
THEOREM NoItemIsOrphaned == GroupSpec => []ItemsHaveGroup
<1>1. GroupInv => ItemsHaveGroup
  BY DEF GroupInv
<1> QED BY <1>1, GroupsAlways, PTL

\* A group in flash keeps its id in every step, over collections, power failures and starts.
THEOREM IdsAreForever == GroupSpec => KeepsId
<1>1. StoreHolds /\ GroupInv /\ [GroupNext]_gvars => [IdsStay]_gvars
  BY GroupStepKeeps
<1>2. (GroupSpec => [][IdsStay]_gvars) => (GroupSpec => KeepsId)
  BY DEF IdsStay, KeepsId
<1> QED BY <1>1, <1>2, GroupsAlways, PTL DEF GroupSpec

\* jekv_del_group returns with nothing left in the group for a lookup to find.
Emptied ==
    \A id \in Ids : del = id /\ del' = 0 /\ pc' = "ready" =>
        \A n \in ItemNames : <<id, n>> \in lost \/ (Lookup(<<id, n>>))' = NoValue

LEMMA DelGroupEmpty ==
    ASSUME StoreHolds, GroupType, [GroupNext]_gvars
    PROVE  Emptied
<1> SUFFICES ASSUME NEW id \in Ids, del = id, del' = 0, pc' = "ready", NEW n \in ItemNames
             PROVE  (Lookup(<<id, n>>))' = NoValue
  BY DEF Emptied
<1>1. StoreType /\ active \in Seq(Sector) /\ id # 0 /\ pc = "ready"
  BY KeysByGroup DEF StoreHolds, IInv, TypeOK, StoreType, GroupType
<1>2. DelGroupEnd
  <2>1. ~ Ready
    BY <1>1 DEF Ready
  <2>2. ~ GroupPowerOff
    BY DEF GroupPowerOff, PowerOff
  <2>3. ~ (StoreStep \/ OpenAdd \/ DelGroupItem \/ UNCHANGED gvars)
    BY <1>1 DEF StoreStep, OpenAdd, DelGroupItem, gvars
  <2> QED BY <2>1, <2>2, <2>3
       DEF GroupNext, GroupStep, GroupCall, GroupUnload, OpenFound, OpenFull,
           OpenNew, DelGroupBegin, ItemCall
<1>3. ToDelete = {} /\ flash' = flash
  BY <1>2 DEF DelGroupEnd
<1>4. PICK k : k = <<id, n>>
  OBVIOUS
<1>5. Readable(k) = {}
  <2> SUFFICES ASSUME Readable(k) # {} PROVE FALSE
    OBVIOUS
  <2>1. PICK s \in Sector : \E i \in LiveAt(flash[s].log) : Used(s) /\ It(s, i).key = k
    BY ReadableIs
  <2>2. PICK i \in LiveAt(flash[s].log) : Used(s) /\ It(s, i).key = k
    BY <2>1
  <2>3. s \in Range(active)
    BY <1>1, <2>2, LiveIsSeen DEF StoreHolds, ContentInv
  <2>4. PICK m \in DOMAIN active : active[m] = s
    BY <2>3 DEF Range
  <2>5. <<m, i>> \in ItemsIn(active, id)
    BY <1>1, <1>4, <2>2, <2>4, ScanMisses DEF StoreHolds
  <2> QED BY <1>3, <2>5 DEF ToDelete
<1>6. Lookup(k) = NoValue /\ Lookup(k)' = Lookup(k)
  BY <1>3, <1>5, LookupOfNone, SameFlashUnread, UnreadLookUp
<1> QED BY <1>4, <1>6

\* So jekv_del_group leaves no item of the group behind, in whichever sectors they lie.
THEOREM DeletedGroupIsEmpty == GroupSpec => DelGroupEmpties
<1>1. StoreHolds /\ GroupInv /\ [GroupNext]_gvars => [Emptied]_gvars
  BY DelGroupEmpty DEF GroupInv
<1>2. (GroupSpec => [][Emptied]_gvars) => (GroupSpec => DelGroupEmpties)
  BY DEF Emptied, DelGroupEmpties
<1> QED BY <1>1, <1>2, GroupsAlways, PTL DEF GroupSpec

-----------------------------------------------------------------------------
(* The groups implement KVStore *)

\* A set of an item is being served if and only if one is by the names of its group and
\* itself, under the id of the group.
RequestFits ==
    /\ IF op.k \in DataKey
       THEN /\ req.k \in GroupNames \X ItemNames /\ req.k[2] = op.k[2]
            /\ req = [k |-> req.k, v |-> op.v] /\ op.v \in Data
            /\ NoGroupLost => IdOf(req.k[1]) = op.k[1]
       ELSE req = NoCall
    /\ op.k # NoValue => res = "none"

\* What a step of a call or of a start returns.
LEMMA StepReturns ==
    ASSUME ControlType, Step
    PROVE  \/ pc' # "ready" /\ res' = res /\ op'.k = op.k /\ op'.v = op.v
           \/ /\ pc = "write" /\ pc' = "ready" /\ op' = NoOp /\ UNCHANGED <<flash, lost>>
              /\ res' \in {"toolong", "full", "nospace"}
           \/ EraseOld
           \/ LoadFinish
<1>1. op \in [k : Keys \union {NoValue}, v : Values \union {NoValue}, found : BOOLEAN,
              sec : Sector, at : Nat, old : Values \union {NoValue}, retry : BOOLEAN]
  BY DEF ControlType
<1>2. CASE WriteTooLong \/ WriteFull \/ RequestNoSpace
  BY <1>2 DEF WriteTooLong, WriteFull, RequestNoSpace, NeedSector, Return
<1>3. CASE RequestIdle \/ GcStart
  <2>1. op' = [op EXCEPT !.retry = TRUE] /\ pc' # "ready" /\ res' = res
    BY <1>3 DEF RequestIdle, GcStart, NeedSector
  <2> QED BY <1>1, <2>1
<1>4. CASE \/ WriteInit \/ WriteItem \/ WriteItemData \/ GcInit \/ GcMark \/ GcCopy
           \/ GcCopyData \/ GcCrash \/ GcErase
  BY <1>4 DEF WriteInit, WriteItem, WriteItemData, GcInit, GcMark, GcCopy, GcCopyData,
      GcCrash, GcErase
<1>5. CASE \/ Load \/ CheckWriteNothing \/ CheckWriteData
           \/ CheckWriteOld \/ CheckGcNothing \/ CheckGcWipe \/ CheckGcErase \/ CheckGcKeep
           \/ CheckGcStart
  BY <1>5 DEF Load, CheckWriteNothing, CheckWriteData, CheckWriteOld, CheckGcNothing,
      CheckGcWipe, CheckGcErase, CheckGcKeep, CheckGcStart
<1> QED BY <1>2, <1>3, <1>4, <1>5 DEF Step

LEMMA RequestStays ==
    ASSUME RequestFits, IdsStep, IdsStay, op'.k = op.k, op'.v = op.v, req' = req, res' = res
    PROVE  RequestFits'
<1>1. CASE op.k \in DataKey
  <2>1. PICK g, k : g = req.k[1] /\ k = op.k
    OBVIOUS
  <2>2. /\ req.k \in GroupNames \X ItemNames /\ g \in GroupNames /\ k \in DataKey
        /\ NoGroupLost => IdOf(g) = k[1]
    BY <1>1, <2>1 DEF RequestFits
  <2>3. NoGroupLost' => (IdOf(g))' = k[1]
    BY <2>2, KeysByGroup DEF IdsStep, IdsStay
  <2>4. NoGroupLost' => (IdOf(req.k[1]))' = op'.k[1]
    BY <2>1, <2>3 DEF IdOf
  <2> QED BY <1>1, <2>4 DEF RequestFits
<1> QED BY <1>1 DEF RequestFits

\* Between calls none is being served.
LEMMA ReadyRests ==
    ASSUME StoreHolds, RequestFits, pc = "ready"
    PROVE  op = NoOp /\ op.k = NoValue /\ op.k \notin DataKey /\ req = NoCall
<1>1. op = NoOp /\ op.k = NoValue
  BY DEF StoreHolds, ContentInv, Started, NoOp
<1> QED BY <1>1, KeysByGroup, NoValueAssumption DEF RequestFits

\* A set through a handle is one by the name of the handle's group.
LEMMA ItemSetFits ==
    ASSUME StoreHolds, GroupInv, IdsStep, pc = "ready",
           NEW g \in Range(groups), NEW n \in ItemNames
    PROVE  /\ g.name \in GroupNames /\ <<g.id, n>> \in DataKey
           /\ NoGroupLost => IdOf(g.name) = g.id
           /\ NoGroupLost' => (IdOf(g.name))' = g.id
<1>1. PICK m \in DOMAIN groups : g = groups[m]
  BY DEF Range
<1>2. groups[m].id \in Ids /\ groups[m].name \in GroupNames
  BY ListedTypes DEF GroupInv, GroupType
<1>3. NoGroupLost => IdOf(groups[m].name) = groups[m].id
  BY ReadyListed DEF GroupInv
<1>4. PICK h : h = g.name
  OBVIOUS
<1>5. NoGroupLost' => NoGroupLost /\ (IdOf(h))' = IdOf(h)
  BY <1>1, <1>2, <1>4 DEF IdsStep
<1>6. (IdOf(g.name))' = (IdOf(h))' /\ IdOf(g.name) = IdOf(h)
  BY <1>1, <1>4 DEF IdOf
<1> QED BY <1>1, <1>2, <1>3, <1>4, <1>5 DEF DataKey

LEMMA RequestKept ==
    ASSUME StoreHolds, GroupInv, RequestFits, IdsStep, IdsStay, [GroupNext]_gvars
    PROVE  RequestFits'
<1>1. ControlType
  BY DEF StoreHolds, IInv, TypeOK
<1>2. ASSUME op' = NoOp, req' = NoCall PROVE RequestFits'
  <2>1. op'.k = NoValue /\ op'.k \notin DataKey
    BY <1>2, KeysByGroup, NoValueAssumption DEF NoOp
  <2> QED BY <1>2, <2>1 DEF RequestFits
<1>3. CASE StoreStep
  <2>1. Step /\ req' = IF pc' = "ready" THEN NoCall ELSE req
    BY <1>3 DEF StoreStep
  <2>2. CASE pc' # "ready" /\ res' = res /\ op'.k = op.k /\ op'.v = op.v
    BY <2>1, <2>2, RequestStays
  <2>3. CASE pc' = "ready" /\ op' = NoOp
    BY <1>2, <2>1, <2>3
  <2>4. CASE EraseOld \/ LoadFinish
    BY <2>3, <2>4 DEF EraseOld, Return, LoadFinish
  <2> QED BY <1>1, <2>1, <2>2, <2>3, <2>4, StepReturns
<1>4. CASE OpenAdd
  <2>1. op.k \notin DataKey
    BY <1>4, KeysByGroup DEF OpenAdd, Opening
  <2>2. op' = NoOp /\ req' = NoCall
    BY <1>4, <2>1 DEF OpenAdd, EraseOld, Return, RequestFits
  <2> QED BY <1>2, <2>2
<1>5. CASE \/ DelGroupItem \/ DelGroupEnd \/ GroupUnload \/ GroupPowerOff
           \/ UNCHANGED gvars \/ (\E g \in GroupNames : OpenFound(g) \/ OpenFull(g))
           \/ (\E g \in Range(groups) : DelGroupBegin(g.id))
  <2>1. op' = op /\ req' = req /\ res' = res
    BY <1>5 DEF DelGroupItem, DelGroupEnd, GroupUnload, GroupPowerOff, Unload,
       PowerOff, OpenFound, OpenFull, DelGroupBegin, gvars
  <2> QED BY <2>1, RequestStays
<1>6. ASSUME NEW g \in GroupNames, OpenNew(g) PROVE RequestFits'
  <2>1. req = NoCall
    BY <1>6, ReadyRests DEF OpenNew, Ready
  <2>2. req' = req /\ res' = "none" /\ op'.k = <<0, g>>
    BY <1>6 DEF OpenNew, SetBegin
  <2>3. op'.k \notin DataKey
    BY <2>2, KeysByGroup
  <2> QED BY <2>1, <2>2, <2>3 DEF RequestFits
<1>7. ASSUME NEW g \in Range(groups), NEW n \in ItemNames, ItemCall(g, n) PROVE RequestFits'
  <2>1. PICK k : k = <<g.id, n>>
    OBVIOUS
  <2>2. /\ pc = "ready" /\ op = NoOp /\ req = NoCall /\ k \in DataKey /\ g.name \in GroupNames
        /\ NoGroupLost' => (IdOf(g.name))' = g.id
    BY <1>7, <2>1, ReadyRests, ItemSetFits DEF ItemCall, Ready
  <2>3. CASE Delete(k) \/ \E d \in Data : SetSame(k, d)
    <3>1. req' = req /\ op' = op
      BY <1>7, <2>1, <2>3 DEF ItemCall, Delete, SetSame, SetBegin
    <3> QED BY <1>2, <2>2, <3>1
  <2>4. ASSUME NEW d \in Data, SetBegin(k, d), req' = [k |-> <<g.name, n>>, v |-> d]
        PROVE  RequestFits'
    <3>1. op'.k = k /\ op'.v = d /\ res' = "none"
      BY <2>4 DEF SetBegin
    <3>2. req'.k = <<g.name, n>> /\ req'.k[1] = g.name /\ req'.k[2] = n /\ req'.v = d
      BY <2>4
    <3>3. (IdOf(req.k[1]))' = (IdOf(g.name))'
      BY <3>2 DEF IdOf
    <3> QED BY <2>1, <2>2, <2>4, <3>1, <3>2, <3>3 DEF RequestFits
  <2> QED BY <1>7, <2>1, <2>3, <2>4 DEF ItemCall
<1> QED BY <1>3, <1>4, <1>5, <1>6, <1>7 DEF GroupNext, GroupStep, GroupCall

-----------------------------------------------------------------------------
(* The map of pairs of names *)

Pairs == [p \in GroupNames \X ItemNames |->
             LET id == IdOf(p[1])
             IN  IF p \in LostPairs \/ id = NoValue THEN NoValue ELSE Held[<<id, p[2]>>]]

\* Flash gives groups ids, and has nothing under the id of none.
IdsInFlash ==
    /\ \A g \in GroupNames : IdOf(g) \in Ids \union {NoValue}
    /\ NoGroupLost => \A id \in Ids : \A n \in ItemNames :
          (\A g \in GroupNames : IdOf(g) # id) => Lookup(<<id, n>>) = NoValue

LEMMA GroupsHaveIds == StoreHolds /\ GroupInv => IdsInFlash
<1> SUFFICES ASSUME StoreHolds, GroupInv PROVE IdsInFlash
  OBVIOUS
<1>1. StoreType /\ ReadsItsItems
  BY LookupAmong DEF StoreHolds, IInv, TypeOK
<1>2. ASSUME NEW k, NEW s \in Sector, NEW i, Reads(k, s, i)
      PROVE  i \in LiveAt(flash[s].log) /\ Used(s) /\ It(s, i).key = k
  BY <1>2 DEF Reads, It
<1>3. ASSUME NEW g \in GroupNames PROVE IdOf(g) \in Ids \union {NoValue}
  <2>1. PICK k : k = <<0, g>>
    OBVIOUS
  <2>2. k \in GroupKey /\ IdOf(g) = Lookup(k)
    BY <2>1, KeysByGroup DEF IdOf
  <2>3. ASSUME NEW s \in Sector, NEW i, Reads(k, s, i) PROVE flash[s].log[i].val \in Ids
    BY <1>2, <2>2, <2>3 DEF GroupInv, GroupType, It
  <2> QED BY <1>1, <2>2, <2>3 DEF ReadsItsItems
<1>4. ASSUME NoGroupLost, NEW id \in Ids, NEW n \in ItemNames, \A g \in GroupNames : IdOf(g) # id
      PROVE  Lookup(<<id, n>>) = NoValue
  <2>1. PICK k : k = <<id, n>>
    OBVIOUS
  <2>2. ASSUME NEW s \in Sector, NEW i, Reads(k, s, i) PROVE FALSE
    <3>1. /\ i \in LiveAt(flash[s].log) /\ IsUsed(flash[s].hdr)
          /\ flash[s].log[i].key[1] = id
      BY <1>2, <2>1, <2>2 DEF Used, It
    <3> QED BY <1>4, <3>1, KeysByGroup DEF GroupInv, ItemsHaveGroup
  <2> QED BY <1>1, <2>1, <2>2 DEF ReadsItsItems
<1> QED BY <1>3, <1>4 DEF IdsInFlash

LEMMA GroupsHaveIdsNext == StoreHolds' /\ GroupInv' => IdsInFlash'
BY GroupsHaveIds, PTL

\* A pair reads what the key made of the group's id reads.
PairsRead ==
    \A g \in GroupNames : \A n \in ItemNames :
        <<g, n>> \notin LostPairs =>
            /\ IdOf(g) = NoValue => Pairs[<<g, n>>] = NoValue
            /\ \A id \in Ids : IdOf(g) = id => Pairs[<<g, n>>] = Lookup(<<id, n>>)

LEMMA PairsAreRead == PairsRead
<1> SUFFICES ASSUME NEW g \in GroupNames, NEW n \in ItemNames, <<g, n>> \notin LostPairs
             PROVE  /\ IdOf(g) = NoValue => Pairs[<<g, n>>] = NoValue
                    /\ \A id \in Ids : IdOf(g) = id => Pairs[<<g, n>>] = Lookup(<<id, n>>)
  BY DEF PairsRead
<1>1. PICK p \in GroupNames \X ItemNames : p = <<g, n>> /\ p[1] = g /\ p[2] = n
  OBVIOUS
<1>2. Pairs[p] = IF IdOf(g) = NoValue THEN NoValue ELSE Held[<<IdOf(g), n>>]
  BY <1>1 DEF Pairs
<1>3. ASSUME NEW id \in Ids, IdOf(g) = id PROVE Pairs[p] = Lookup(<<id, n>>)
  <2>1. <<id, n>> \in DataKey /\ id # NoValue
    BY KeysByGroup DEF DataKey
  <2>2. Held[<<id, n>>] = Lookup(<<id, n>>)
    BY <2>1 DEF Held
  <2> QED BY <1>2, <1>3, <2>1, <2>2
<1> QED BY <1>1, <1>2, <1>3

LEMMA PairsAreReadNext == PairsRead'
BY PairsAreRead, PTL

\* The pairs that are covered: no group is lost and no item of the name, whatever its group.
PairsKept ==
    /\ \A g \in GroupNames : \A n \in ItemNames :
          <<g, n>> \notin LostPairs <=>
              NoGroupLost /\ \A id \in Ids : <<id, n>> \notin lost
    /\ LostPairs \subseteq GroupNames \X ItemNames

LEMMA KeptPairs == PairsKept
<1>1. ASSUME NEW g \in GroupNames, NEW n \in ItemNames
      PROVE  <<g, n>> \notin LostPairs <=> NoGroupLost /\ \A id \in Ids : <<id, n>> \notin lost
  <2>1. <<g, n>> \in LostPairs <=> ~ NoGroupLost \/ \E k \in lost \cap DataKey : k[2] = n
    BY DEF LostPairs
  <2>2. ASSUME NEW id \in Ids, <<id, n>> \in lost
        PROVE  \E k \in lost \cap DataKey : k[2] = n
    <3>1. <<id, n>> \in DataKey
      BY DEF DataKey
    <3> QED BY <2>2, <3>1
  <2>3. ASSUME NEW k \in lost \cap DataKey, k[2] = n
        PROVE  \E id \in Ids : <<id, n>> \in lost
    <3>1. k[1] \in Ids /\ k = <<k[1], k[2]>>
      BY KeysByGroup
    <3> QED BY <2>3, <3>1
  <2> QED BY <2>1, <2>2, <2>3
<1> QED BY <1>1 DEF PairsKept, LostPairs

LEMMA KeptPairsNext == PairsKept'
BY KeptPairs, PTL

LEMMA LossesGrow ==
    ASSUME lost \subseteq lost'
    PROVE  LostPairs \subseteq LostPairs'
<1>1. ASSUME NEW g \in GroupNames, NEW n \in ItemNames, <<g, n>> \notin LostPairs'
      PROVE  <<g, n>> \notin LostPairs
  <2>1. NoGroupLost' /\ \A id \in Ids : <<id, n>> \notin lost'
    BY <1>1, KeptPairsNext DEF PairsKept
  <2>2. NoGroupLost /\ \A id \in Ids : <<id, n>> \notin lost
    BY <2>1 DEF NoGroupLost
  <2> QED BY <2>2, KeptPairs DEF PairsKept
<1> QED BY <1>1, KeptPairs DEF PairsKept

LEMMA SameLosses ==
    ASSUME lost' = lost
    PROVE  LostPairs' = LostPairs
BY DEF LostPairs, NoGroupLost

-----------------------------------------------------------------------------
(* Steps of the promise, by what becomes of the pairs *)

PairStep == [Directory!KVNext]_(Directory!kvars)

\* No pair reads otherwise, but those that are lost.
PairsStand ==
    /\ LostPairs \subseteq LostPairs'
    /\ \A p \in (GroupNames \X ItemNames) \ LostPairs' : Pairs'[p] = Pairs[p]

LEMMA PairsCovered ==
    ASSUME NEW m, \A p \in (GroupNames \X ItemNames) \ LostPairs' : Pairs'[p] = m[p]
    PROVE  Pairs' = [p \in GroupNames \X ItemNames |-> IF p \in LostPairs' THEN NoValue ELSE m[p]]
<1>1. \A p \in GroupNames \X ItemNames : p \in LostPairs' => Pairs'[p] = NoValue
  BY DEF Pairs
<1>2. Pairs' = [p \in GroupNames \X ItemNames |-> Pairs'[p]]
  BY DEF Pairs
<1> QED BY <1>1, <1>2

LEMMA PairsRemain ==
    ASSUME PairsStand
    PROVE  Directory!Covered(Pairs)
<1>1. PICK m : m = Pairs
  OBVIOUS
<1>2. Pairs' = [p \in GroupNames \X ItemNames |-> IF p \in LostPairs' THEN NoValue ELSE m[p]]
  BY <1>1, PairsCovered DEF PairsStand
<1>3. Pairs' = [p \in GroupNames \X ItemNames |-> IF p \in LostPairs' THEN NoValue ELSE Pairs[p]]
  BY <1>1, <1>2
<1> QED BY <1>3 DEF Directory!Covered, Pairs

LEMMA PairsSame ==
    ASSUME PairsStand, LostPairs' = LostPairs
    PROVE  Pairs' = Pairs
<1>1. \A p \in GroupNames \X ItemNames : p \in LostPairs => Pairs[p] = NoValue /\ Pairs'[p] = NoValue
  BY DEF Pairs
<1>2. /\ Pairs' = [p \in GroupNames \X ItemNames |-> Pairs'[p]]
      /\ Pairs = [p \in GroupNames \X ItemNames |-> Pairs[p]]
  BY DEF Pairs
<1>3. \A p \in GroupNames \X ItemNames : Pairs'[p] = Pairs[p]
  BY <1>1 DEF PairsStand
<1> QED BY <1>2, <1>3

\* Nothing of what is promised changes, or something is lost.
LEMMA PairsLose ==
    ASSUME PairsStand, req' = req, ret' = ret, Serving' <=> Serving
    PROVE  PairStep
<1>1. CASE LostPairs' = LostPairs
  <2>1. Pairs' = Pairs
    BY <1>1, PairsSame
  <2> QED BY <1>1, <2>1 DEF PairStep, Directory!kvars, Pairs
<1>2. CASE LostPairs' # LostPairs
  <2>1. Directory!Covered(Pairs)
    BY PairsRemain
  <2>2. Directory!Lose
    BY <1>2, <2>1 DEF Directory!Lose, PairsStand, Pairs
  <2> QED BY <2>2 DEF PairStep, Directory!KVNext
<1> QED BY <1>1, <1>2

LEMMA PairsFail ==
    ASSUME PairsStand, req' = req, ret' = ret, ~ Serving'
    PROVE  PairStep
<1>1. Directory!Covered(Pairs)
  BY PairsRemain
<1>2. Directory!Fail
  BY <1>1 DEF Directory!Fail, PairsStand, Pairs
<1> QED BY <1>2 DEF PairStep, Directory!KVNext

\* The set being served has taken effect.
PairTakesEffect ==
    /\ LostPairs \subseteq LostPairs'
    /\ req.k \in GroupNames \X ItemNames /\ req # NoCall
    /\ \A p \in (GroupNames \X ItemNames) \ LostPairs' :
          Pairs'[p] = IF p = req.k THEN req.v ELSE Pairs[p]

LEMMA PairApplied ==
    ASSUME PairTakesEffect
    PROVE  Directory!Covered(Directory!Applied)
<1>1. PICK m : m = [Pairs EXCEPT ![req.k] = req.v]
  OBVIOUS
<1>2. \A p \in GroupNames \X ItemNames : m[p] = IF p = req.k THEN req.v ELSE Pairs[p]
  BY <1>1 DEF Pairs
<1>3. Pairs' = [p \in GroupNames \X ItemNames |-> IF p \in LostPairs' THEN NoValue ELSE m[p]]
  <2>1. \A p \in (GroupNames \X ItemNames) \ LostPairs' : Pairs'[p] = m[p]
    BY <1>2 DEF PairTakesEffect
  <2> QED BY <2>1, PairsCovered
<1>4. ~ (req = [k |-> NoValue, v |-> NoValue])
  BY DEF PairTakesEffect, NoCall
<1>5. Pairs' = [p \in GroupNames \X ItemNames |->
                   IF p \in LostPairs' THEN NoValue ELSE [Pairs EXCEPT ![req.k] = req.v][p]]
  BY <1>1, <1>3
<1> QED BY <1>4, <1>5 DEF Directory!Covered, Directory!Applied, Directory!NoReq, Pairs

LEMMA PairCommit ==
    ASSUME PairTakesEffect, req' = req, ret' = ret, Serving' <=> Serving
    PROVE  PairStep
<1>1. Directory!Commit
  BY PairApplied DEF Directory!Commit, Directory!NoReq, PairTakesEffect, NoCall
<1> QED BY <1>1 DEF PairStep, Directory!KVNext

LEMMA PairReturn ==
    ASSUME PairTakesEffect, req' = NoCall, ret' = "ok", Serving, Serving'
    PROVE  PairStep
<1>1. req.k \in LostPairs' \/ Pairs'[req.k] = req.v
  BY DEF PairTakesEffect
<1>2. Directory!ReturnOk
  BY <1>1, PairApplied
     DEF Directory!ReturnOk, Directory!NoReq, PairTakesEffect, NoCall, Pairs
<1> QED BY <1>2 DEF PairStep, Directory!KVNext

LEMMA PairError ==
    ASSUME Pairs' = Pairs, LostPairs' = LostPairs, Serving, Serving', req # NoCall, req' = NoCall,
           ret' \in {"toolong", "full", "nospace"},
           req.k \in LostPairs \/ Pairs[req.k] # req.v
    PROVE  PairStep
<1>1. Directory!ReturnError
  BY DEF Directory!ReturnError, Directory!NoReq, NoCall, Pairs
<1> QED BY <1>1 DEF PairStep, Directory!KVNext

LEMMA PairStart ==
    ASSUME Pairs' = Pairs, LostPairs' = LostPairs, ~ Serving, Serving', req' = NoCall, ret' = ret
    PROVE  PairStep
<1>1. Directory!Start
  BY DEF Directory!Start, Directory!NoReq, NoCall, Pairs
<1> QED BY <1>1 DEF PairStep, Directory!KVNext

-----------------------------------------------------------------------------
(* What becomes of the pairs *)

\* Pairs read as before if keys do.
LEMMA KeysStand ==
    ASSUME IdsInFlash, lost \subseteq lost', \A k : Lookup(k)' = Lookup(k)
    PROVE  PairsStand
<1>1. LostPairs \subseteq LostPairs'
  BY LossesGrow
<1>2. ASSUME NEW g \in GroupNames, NEW n \in ItemNames, <<g, n>> \notin LostPairs'
      PROVE  Pairs'[<<g, n>>] = Pairs[<<g, n>>]
  <2>1. <<g, n>> \notin LostPairs
    BY <1>1, <1>2
  <2>2. (IdOf(g))' = IdOf(g)
    BY DEF IdOf
  <2>3. CASE IdOf(g) = NoValue
    BY <1>2, <2>1, <2>2, <2>3, PairsAreRead, PairsAreReadNext DEF PairsRead
  <2>4. ASSUME NEW id \in Ids, IdOf(g) = id PROVE Pairs'[<<g, n>>] = Pairs[<<g, n>>]
    <3>1. Pairs[<<g, n>>] = Lookup(<<id, n>>)
      BY <2>1, <2>4, PairsAreRead DEF PairsRead
    <3>2. (IdOf(g))' = id
      BY <2>2, <2>4
    <3>3. Pairs'[<<g, n>>] = (Lookup(<<id, n>>))'
      BY <1>2, <3>2, PairsAreReadNext DEF PairsRead
    <3> QED BY <3>1, <3>3
  <2> QED BY <2>3, <2>4 DEF IdsInFlash
<1> QED BY <1>1, <1>2 DEF PairsStand

LEMMA FlashStands ==
    ASSUME IdsInFlash, flash' = flash, lost' = lost
    PROVE  PairsStand /\ Pairs' = Pairs /\ LostPairs' = LostPairs
<1>1. \A k : Lookup(k)' = Lookup(k)
  BY SameFlashUnread, UnreadLookUp
<1>2. PairsStand
  BY <1>1, KeysStand
<1>3. LostPairs' = LostPairs
  BY SameLosses
<1> QED BY <1>2, <1>3, PairsSame

\* A step of a call or of a start leaves each pair as it is but the one being set: other
\* pairs have other keys, and where a group is written there was nothing under its id.
LEMMA PairsChange ==
    ASSUME GroupInv, RequestFits, IdsInFlash, IInv, PromiseStep, IdsStep, pc # "ready"
    PROVE  /\ LostPairs \subseteq LostPairs'
           /\ \A g \in GroupNames : \A n \in ItemNames :
                 <<g, n>> \notin LostPairs' =>
                     \/ Pairs'[<<g, n>>] = Pairs[<<g, n>>]
                     \/ op.k \in DataKey /\ <<g, n>> = req.k /\ Pairs'[<<g, n>>] = req.v
<1>1. /\ lost \subseteq lost'
      /\ \A k \in Keys \ lost' : Lookup(k)' = Lookup(k) \/ (k = op.k /\ Lookup(k)' = op.v)
  BY ServedLookups
<1>2. LostPairs \subseteq LostPairs'
  BY <1>1, LossesGrow
<1>3. ASSUME NEW g \in GroupNames, NEW n \in ItemNames, <<g, n>> \notin LostPairs'
      PROVE  \/ Pairs'[<<g, n>>] = Pairs[<<g, n>>]
             \/ op.k \in DataKey /\ <<g, n>> = req.k /\ Pairs'[<<g, n>>] = req.v
  <2>1. /\ <<g, n>> \notin LostPairs /\ NoGroupLost' /\ NoGroupLost
        /\ \A id \in Ids : <<id, n>> \notin lost'
    BY <1>2, <1>3, KeptPairsNext DEF PairsKept, IdsStep
  <2>2. CASE (IdOf(g))' = IdOf(g) /\ IdOf(g) = NoValue
    BY <1>3, <2>1, <2>2, PairsAreRead, PairsAreReadNext DEF PairsRead
  <2>3. ASSUME NEW id \in Ids, (IdOf(g))' = IdOf(g), IdOf(g) = id
        PROVE  \/ Pairs'[<<g, n>>] = Pairs[<<g, n>>]
               \/ op.k \in DataKey /\ <<g, n>> = req.k /\ Pairs'[<<g, n>>] = req.v
    <3>1. PICK k : k = <<id, n>>
      OBVIOUS
    <3>2. k \in DataKey /\ k \in Keys /\ k \notin lost'
      BY <2>1, <3>1, KeysByGroup DEF DataKey
    <3>3. Pairs[<<g, n>>] = Lookup(k)
      BY <2>1, <2>3, <3>1, PairsAreRead DEF PairsRead
    <3>4. Pairs'[<<g, n>>] = Lookup(k)'
      <4>1. Pairs'[<<g, n>>] = (Lookup(<<id, n>>))'
        BY <1>3, <2>3, PairsAreReadNext DEF PairsRead
      <4> QED BY <3>1, <4>1
    <3>5. CASE k = op.k /\ Lookup(k)' = op.v
      <4>1. /\ req.k \in GroupNames \X ItemNames /\ req.k[2] = n /\ req.v = op.v
            /\ IdOf(req.k[1]) = id
        BY <2>1, <3>1, <3>2, <3>5 DEF RequestFits
      <4>2. PICK h \in GroupNames : req.k = <<h, n>> /\ IdOf(h) = id
        BY <4>1
      <4>3. h = g
        BY <2>1, <2>3, <4>2, KeysByGroup DEF GroupInv, IdsApart
      <4> QED BY <3>2, <3>4, <3>5, <4>1, <4>2, <4>3
    <3> QED BY <1>1, <3>2, <3>3, <3>4, <3>5
  <2>4. CASE (IdOf(g))' # IdOf(g)
    <3>1. op.k = <<0, g>> /\ (IdOf(g))' = op.v
      BY <2>1, <2>4 DEF IdsStep
    <3>2. Opening /\ op.k[2] = g /\ op.v \in Ids
      BY <3>1, KeysByGroup DEF Opening, GroupInv, GroupType
    <3>3. PICK id \in Ids : id = op.v
      BY <3>2
    <3>4. /\ IdOf(g) = NoValue
          /\ \A h \in GroupNames : IdOf(h) # id
      <4>1. PICK h : h = op.k[2]
        OBVIOUS
      <4>2. /\ IdOf(h) \in {NoValue, op.v}
            /\ \A x \in GroupNames \ {h} : IdOf(x) # op.v
        BY <2>1, <3>2, <4>1 DEF GroupInv, OpensUnused
      <4> QED BY <2>4, <3>1, <3>2, <3>3, <4>1, <4>2, KeysByGroup
    <3>5. PICK k : k = <<id, n>>
      OBVIOUS
    <3>6. k \in Keys /\ k \notin lost' /\ k # op.k
      BY <2>1, <3>1, <3>5, KeysByGroup DEF DataKey
    <3>7. Lookup(k) = NoValue
      BY <2>1, <3>4, <3>5 DEF IdsInFlash
    <3>8. Lookup(k)' = NoValue
      BY <1>1, <3>6, <3>7
    <3>9. Pairs[<<g, n>>] = NoValue
      BY <2>1, <3>4, PairsAreRead DEF PairsRead
    <3>10. Pairs'[<<g, n>>] = (Lookup(<<id, n>>))'
      BY <1>3, <3>1, <3>3, PairsAreReadNext DEF PairsRead
    <3> QED BY <3>5, <3>8, <3>9, <3>10
  <2> QED BY <2>2, <2>3, <2>4 DEF IdsInFlash
<1> QED BY <1>2, <1>3

-----------------------------------------------------------------------------
(* Each step of the groups is one of the promise *)

\* While a set is being served its pair reads as it did or as the set asks.
LEMMA ServedPairs ==
    ASSUME GroupInv, RequestFits, IdsInFlash, IInv, PromiseStep, IdsStep, pc # "ready"
    PROVE  PairsStand \/ (op.k \in DataKey /\ PairTakesEffect)
<1>1. /\ LostPairs \subseteq LostPairs'
      /\ \A g \in GroupNames : \A n \in ItemNames :
            <<g, n>> \notin LostPairs' =>
                \/ Pairs'[<<g, n>>] = Pairs[<<g, n>>]
                \/ op.k \in DataKey /\ <<g, n>> = req.k /\ Pairs'[<<g, n>>] = req.v
  BY PairsChange
<1>2. \A p \in (GroupNames \X ItemNames) \ LostPairs' :
         \/ Pairs'[p] = Pairs[p]
         \/ op.k \in DataKey /\ p = req.k /\ Pairs'[p] = req.v
  BY <1>1
<1>3. ASSUME NEW q \in (GroupNames \X ItemNames) \ LostPairs',
             op.k \in DataKey, q = req.k, Pairs'[q] = req.v
      PROVE  PairTakesEffect
  <2>1. req.k \in GroupNames \X ItemNames /\ req # NoCall
    <3>1. req.v \in Data /\ NoValue \notin Data
      BY <1>3, KeysByGroup, NoValueAssumption DEF RequestFits
    <3> QED BY <1>3, <3>1 DEF NoCall
  <2>2. \A p \in (GroupNames \X ItemNames) \ LostPairs' :
           Pairs'[p] = IF p = req.k THEN req.v ELSE Pairs[p]
    BY <1>2, <1>3
  <2> QED BY <1>1, <2>1, <2>2 DEF PairTakesEffect
<1> QED BY <1>1, <1>2, <1>3 DEF PairsStand

\* A step of a call or of a start that does not return.
LEMMA PairsOfStep ==
    ASSUME StoreHolds, GroupInv, RequestFits, IdsInFlash, PromiseStep, IdsStep, Step,
           req' = req, ret' = ret, Serving' <=> Serving
    PROVE  PairStep
<1>1. PairsStand \/ PairTakesEffect
  BY StepIsBusy, ServedPairs DEF StoreHolds
<1> QED BY <1>1, PairsLose, PairCommit

\* A call that returns an error.
LEMMA PairsOfError ==
    ASSUME StoreHolds, GroupInv, RequestFits, IdsInFlash, pc = "write",
           UNCHANGED <<flash, lost>>, Serving', req' = NoCall,
           ret' = IF Opening THEN ret ELSE res', res' \in {"toolong", "full", "nospace"}
    PROVE  PairStep
<1>1. PairsStand /\ Pairs' = Pairs /\ LostPairs' = LostPairs
  BY FlashStands
<1>2. Serving /\ Calling /\ op.k \in Keys
  BY DEF Serving, Calling, StoreHolds, IInv, OpSet
<1>3. CASE Opening
  <2>1. req = NoCall
    BY <1>3, KeysByGroup DEF RequestFits, Opening
  <2> QED BY <1>1, <1>2, <1>3, <2>1, PairsLose
<1>4. CASE ~ Opening
  <2>1. op.k \in DataKey
    BY <1>2, <1>4, KeysByGroup DEF Opening
  <2>2. PICK g \in GroupNames, n \in ItemNames : req.k = <<g, n>>
    BY <2>1 DEF RequestFits
  <2>3. /\ op.k[2] = n /\ req.v = op.v /\ op.v \in Data
        /\ NoGroupLost => IdOf(g) = op.k[1]
    BY <2>1, <2>2 DEF RequestFits
  <2>4. req # NoCall
    BY <2>3, KeysByGroup, NoValueAssumption DEF NoCall
  <2>5. ASSUME req.k \notin LostPairs PROVE Pairs[req.k] # req.v
    <3>1. PICK id \in Ids : id = op.k[1] /\ op.k = <<id, n>>
      BY <2>1, <2>3, KeysByGroup
    <3>2. NoGroupLost /\ <<id, n>> \notin lost
      BY <2>2, <2>5, KeptPairs DEF PairsKept
    <3>3. IdOf(g) = id
      BY <2>3, <3>1, <3>2
    <3>4. Pairs[req.k] = Lookup(<<id, n>>)
      BY <2>2, <2>5, <3>3, PairsAreRead DEF PairsRead
    <3>5. op.k \in lost \/ Lookup(op.k) # op.v
      BY <1>2, UnwrittenDiffers DEF StoreHolds
    <3>6. PICK k : k = op.k
      OBVIOUS
    <3>7. Lookup(k) # op.v /\ k = <<id, n>>
      BY <3>1, <3>2, <3>5, <3>6
    <3> QED BY <2>3, <3>4, <3>7
  <2> QED BY <1>1, <1>2, <1>4, <2>4, <2>5, PairError
<1> QED BY <1>3, <1>4

\* A set that returns "ok" has taken effect.
LEMMA PairsOfReturn ==
    ASSUME StoreHolds, GroupInv, RequestFits, IdsInFlash, PromiseStep, IdsStep, EraseOld,
           ~ Opening, req' = NoCall, ret' = "ok"
    PROVE  PairStep
<1>1. pc = "eraseold" /\ Serving /\ Serving' /\ Calling /\ op.k \in Keys
  BY DEF EraseOld, Return, Serving, Calling, StoreHolds, IInv, OpSet
<1>2. op.k \in DataKey
  BY <1>1, KeysByGroup DEF Opening
<1>3. PICK g \in GroupNames, n \in ItemNames : req.k = <<g, n>>
  BY <1>2 DEF RequestFits
<1>4. /\ op.k[2] = n /\ req.v = op.v /\ op.v \in Data
      /\ NoGroupLost => IdOf(g) = op.k[1]
  BY <1>2, <1>3 DEF RequestFits
<1>5. req # NoCall
  BY <1>4, KeysByGroup, NoValueAssumption DEF NoCall
<1>6. PairsStand \/ PairTakesEffect
  BY <1>1, ServedPairs DEF StoreHolds
<1>7. ASSUME req.k \notin LostPairs' PROVE Pairs'[req.k] = req.v
  <2>1. PICK id \in Ids : id = op.k[1] /\ op.k = <<id, n>>
    BY <1>2, <1>4, KeysByGroup
  <2>2. NoGroupLost' /\ <<id, n>> \notin lost'
    BY <1>3, <1>7, KeptPairsNext DEF PairsKept
  <2>3. IdOf(g) = id /\ op.k # <<0, g>>
    BY <1>2, <1>4, <2>1, <2>2, KeysByGroup DEF IdsStep
  <2>4. (IdOf(g))' = id
    BY <2>2, <2>3 DEF IdsStep
  <2>5. PICK k : k = op.k
    OBVIOUS
  <2>6. Lookup(k)' = op.v
    BY <2>1, <2>2, <2>5, SetIsAnswered DEF StoreHolds
  <2>7. Pairs'[<<g, n>>] = (Lookup(<<id, n>>))'
    BY <1>3, <1>7, <2>4, PairsAreReadNext DEF PairsRead
  <2> QED BY <1>3, <1>4, <2>1, <2>5, <2>6, <2>7
<1>8. PairTakesEffect
  <2>1. CASE PairsStand
    BY <1>3, <1>5, <1>7, <2>1 DEF PairsStand, PairTakesEffect
  <2> QED BY <1>6, <2>1
<1> QED BY <1>1, <1>8, PairReturn

LEMMA PairsOfStoreStep ==
    ASSUME StoreHolds, GroupInv, RequestFits, IdsInFlash, PromiseStep, IdsStep, StoreStep
    PROVE  PairStep
<1>1. /\ Step /\ ~ (pc = "eraseold" /\ Opening) /\ ControlType
      /\ req' = IF pc' = "ready" THEN NoCall ELSE req
      /\ ret' = IF res' # res /\ ~ Opening THEN res' ELSE ret
  BY DEF StoreStep, StoreHolds, IInv, TypeOK
<1>2. Calling => op.k # NoValue
  BY NoValueAssumption DEF StoreHolds, IInv, OpSet
<1>3. CASE pc' # "ready" /\ res' = res
  <2>1. ~ LoadFinish
    BY <1>3 DEF LoadFinish
  <2>2. Serving' <=> Serving
    BY <1>1, <2>1, OneStepServes, CallsGoOn
  <2> QED BY <1>1, <1>3, <2>2, PairsOfStep
<1>4. CASE /\ pc = "write" /\ pc' = "ready" /\ UNCHANGED <<flash, lost>>
           /\ res' \in {"toolong", "full", "nospace"}
  <2>1. res = "none"
    BY <1>2, <1>4 DEF RequestFits, Calling
  <2>2. Serving' /\ req' = NoCall /\ ret' = IF Opening THEN ret ELSE res'
    BY <1>1, <1>4, <2>1 DEF Serving
  <2> QED BY <1>4, <2>2, PairsOfError
<1>5. CASE EraseOld
  <2>1. res = "none" /\ res' = "ok" /\ pc' = "ready" /\ ~ Opening
    BY <1>1, <1>2, <1>5 DEF RequestFits, Calling, EraseOld, Return
  <2>2. req' = NoCall /\ ret' = "ok"
    BY <1>1, <2>1
  <2> QED BY <1>5, <2>1, <2>2, PairsOfReturn
<1>6. CASE LoadFinish
  <2>1. /\ flash' = flash /\ lost' = lost /\ res' = res /\ pc' = "ready"
        /\ ~ Serving /\ Serving'
    BY <1>6 DEF LoadFinish, Serving
  <2>2. req' = NoCall /\ ret' = ret
    BY <1>1, <2>1
  <2>3. Pairs' = Pairs /\ LostPairs' = LostPairs
    BY <2>1, FlashStands
  <2> QED BY <2>1, <2>2, <2>3, PairStart
<1> QED BY <1>1, <1>3, <1>4, <1>5, <1>6, StepReturns

LEMMA PairsOfOpening ==
    ASSUME StoreHolds, GroupInv, RequestFits, IdsInFlash, PromiseStep, IdsStep, OpenAdd
    PROVE  PairStep
<1>1. /\ pc = "eraseold" /\ op.k \notin DataKey /\ Serving /\ Serving'
      /\ req' = req /\ ret' = ret
  BY KeysByGroup DEF OpenAdd, Opening, EraseOld, Return, Serving
<1>2. PairsStand
  BY <1>1, ServedPairs DEF StoreHolds
<1> QED BY <1>1, <1>2, PairsLose

\* Power fails, or the partition is deinitialised.
LEMMA PairsOfFailure ==
    ASSUME StoreHolds, IdsInFlash, GroupPowerOff \/ GroupUnload
    PROVE  PairStep
<1>1. req' = req /\ ret' = ret /\ ~ Serving'
  BY DEF GroupPowerOff, GroupUnload, PowerOff, Unload, Serving
<1>2. lost \subseteq lost'
  BY DEF GroupPowerOff, GroupUnload, PowerOff, Unload
<1>3. \A k : Lookup(k)' = Lookup(k)
  <2>1. CASE GroupPowerOff
    <3>1. PowerOff
      BY <2>1 DEF GroupPowerOff
    <3>2. \A t \in Sector : Unread(t)
      BY <3>1, TornItems DEF Unread, StoreHolds
    <3> QED BY <3>2, UnreadLookUp
  <2>2. CASE GroupUnload
    BY <2>2, SameFlashUnread, UnreadLookUp DEF GroupUnload, Unload
  <2> QED BY <2>1, <2>2
<1>4. PairsStand
  BY <1>2, <1>3, KeysStand
<1> QED BY <1>1, <1>4, PairsFail

\* An item is deleted with the pair it belongs to, and with no other.
LEMMA PairsOfDelete ==
    ASSUME StoreHolds, GroupInv, RequestFits, IdsInFlash,
           NEW k \in DataKey, Delete(k), req' = req, ret' = ret
    PROVE  PairStep
<1>1. /\ pc = "ready" /\ lost' = lost /\ req = NoCall /\ Serving /\ Serving'
      /\ k \in Keys /\ LostPairs' = LostPairs
  BY ReadyRests, KeysByGroup, SameLosses DEF Delete, Serving
<1>2. /\ \A j : j # k => Lookup(j)' = Lookup(j)
      /\ k \notin lost => Lookup(k)' = NoValue
  BY <1>1, DeletedReads DEF StoreHolds
<1>3. PICK i \in Ids, x \in ItemNames : k = <<i, x>>
  BY DEF DataKey
<1>4. ASSUME NEW g \in GroupNames PROVE (IdOf(g))' = IdOf(g)
  <2>1. PICK j : j = <<0, g>>
    OBVIOUS
  <2>2. j # k
    BY <2>1, KeysByGroup
  <2> QED BY <1>2, <2>1, <2>2 DEF IdOf
<1>5. ASSUME NEW g \in GroupNames, NEW n \in ItemNames, <<g, n>> \notin LostPairs
      PROVE  /\ <<IdOf(g), n>> = k => Pairs'[<<g, n>>] = NoValue
             /\ <<IdOf(g), n>> # k => Pairs'[<<g, n>>] = Pairs[<<g, n>>]
  <2>1. CASE IdOf(g) = NoValue
    <3>1. (IdOf(g))' = NoValue /\ <<IdOf(g), n>> # k
      BY <1>3, <1>4, <2>1, KeysByGroup
    <3>2. Pairs[<<g, n>>] = NoValue
      BY <1>5, <2>1, PairsAreRead DEF PairsRead
    <3>3. Pairs'[<<g, n>>] = NoValue
      BY <1>1, <1>5, <3>1, PairsAreReadNext DEF PairsRead
    <3> QED BY <3>1, <3>2, <3>3
  <2>2. ASSUME NEW id \in Ids, IdOf(g) = id
        PROVE  /\ <<IdOf(g), n>> = k => Pairs'[<<g, n>>] = NoValue
               /\ <<IdOf(g), n>> # k => Pairs'[<<g, n>>] = Pairs[<<g, n>>]
    <3>1. PICK j : j = <<id, n>>
      OBVIOUS
    <3>2. Pairs[<<g, n>>] = Lookup(j)
      BY <1>5, <2>2, <3>1, PairsAreRead DEF PairsRead
    <3>3. Pairs'[<<g, n>>] = (Lookup(<<id, n>>))'
      <4>1. (IdOf(g))' = id
        BY <1>4, <2>2
      <4> QED BY <1>1, <1>5, <4>1, PairsAreReadNext DEF PairsRead
    <3>4. j \notin lost
      BY <1>5, <3>1, KeptPairs DEF PairsKept
    <3> QED BY <1>2, <2>2, <3>1, <3>2, <3>3, <3>4
  <2> QED BY <2>1, <2>2 DEF IdsInFlash
<1>6. CASE \E g \in GroupNames : IdOf(g) = i /\ <<g, x>> \notin LostPairs
  <2>1. PICK g \in GroupNames : IdOf(g) = i /\ <<g, x>> \notin LostPairs
    BY <1>6
  <2>2. PICK q \in GroupNames \X ItemNames : q = <<g, x>> /\ q \notin LostPairs
    BY <2>1
  <2>3. NoGroupLost
    BY <2>1, KeptPairs DEF PairsKept
  <2>4. ASSUME NEW h \in GroupNames, NEW n \in ItemNames
        PROVE  Pairs'[<<h, n>>] = IF <<h, n>> = q THEN NoValue ELSE Pairs[<<h, n>>]
    <3>1. CASE <<h, n>> \in LostPairs
      BY <1>1, <2>2, <3>1 DEF Pairs
    <3>2. CASE <<h, n>> \notin LostPairs
      <4>1. <<IdOf(h), n>> = k <=> <<h, n>> = q
        <5>1. IdOf(h) = i => h = g
          BY <2>1, <2>3, KeysByGroup DEF GroupInv, IdsApart
        <5> QED BY <1>3, <2>1, <2>2, <5>1
      <4> QED BY <1>5, <3>2, <4>1
    <3> QED BY <3>1, <3>2
  <2>5. Pairs' = [Pairs EXCEPT ![q] = NoValue]
    <3>1. \A p \in GroupNames \X ItemNames : Pairs'[p] = IF p = q THEN NoValue ELSE Pairs[p]
      BY <2>4
    <3>2. /\ Pairs' = [p \in GroupNames \X ItemNames |-> Pairs'[p]]
          /\ DOMAIN Pairs = GroupNames \X ItemNames
          /\ Pairs = [p \in GroupNames \X ItemNames |-> Pairs[p]]
      BY DEF Pairs
    <3> QED BY <3>1, <3>2
  <2>6. Directory!DeleteCall(q)
    BY <1>1, <2>5 DEF Directory!DeleteCall, Directory!NoReq, NoCall, Pairs
  <2> QED BY <2>6 DEF PairStep, Directory!KVNext
<1>7. CASE ~ \E g \in GroupNames : IdOf(g) = i /\ <<g, x>> \notin LostPairs
  <2>1. ASSUME NEW g \in GroupNames, NEW n \in ItemNames, <<g, n>> \notin LostPairs
        PROVE  Pairs'[<<g, n>>] = Pairs[<<g, n>>]
    BY <1>3, <1>5, <1>7, <2>1
  <2>2. PairsStand
    BY <1>1, <2>1 DEF PairsStand
  <2> QED BY <1>1, <2>2, PairsLose
<1> QED BY <1>6, <1>7

\* A set through a handle of what the pair reads does nothing.
LEMMA PairsOfSetSame ==
    ASSUME StoreHolds, GroupInv, RequestFits, IdsInFlash, IdsStep, NEW g \in Range(groups),
           NEW n \in ItemNames, NEW d \in Data, Ready, SetSame(<<g.id, n>>, d),
           ret' = "ok", req' = req
    PROVE  PairStep
<1>1. pc = "ready" /\ pc' = "ready" /\ flash' = flash /\ lost' = lost
  BY DEF SetSame, Ready, loaded
<1>2. /\ Serving /\ Serving' /\ req = NoCall /\ req' = NoCall
      /\ Pairs' = Pairs /\ LostPairs' = LostPairs
  BY <1>1, ReadyRests, FlashStands DEF Serving
<1>3. PICK h, id, k : h = g.name /\ id = g.id /\ k = <<id, n>>
  OBVIOUS
<1>4. /\ h \in GroupNames /\ k \in DataKey /\ k \in Keys /\ id \in Ids
      /\ NoGroupLost => IdOf(h) = id
  BY <1>1, <1>3, ItemSetFits, KeysByGroup
<1>5. d \in Values /\ SetSame(k, d)
  BY <1>3, GroupAssumption
<1>6. k \in lost \/ Lookup(k) = d
  BY <1>1, <1>4, <1>5, RamAgrees DEF SetSame, StoreHolds
<1>7. ASSUME <<h, n>> \notin LostPairs PROVE Pairs[<<h, n>>] = d
  <2>1. NoGroupLost /\ k \notin lost
    BY <1>3, <1>4, <1>7, KeptPairs DEF PairsKept
  <2>2. Pairs[<<h, n>>] = Lookup(<<id, n>>)
    BY <1>4, <1>7, <2>1, PairsAreRead DEF PairsRead
  <2> QED BY <1>3, <1>6, <2>1, <2>2
<1>8. PICK p \in GroupNames \X ItemNames : p = <<h, n>>
  BY <1>4
<1>9. Directory!SetNothing(p, d)
  BY <1>2, <1>7, <1>8 DEF Directory!SetNothing, Directory!NoReq, NoCall, Pairs
<1> QED BY <1>9 DEF PairStep, Directory!KVNext

\* Any other set is one of a value that the pair does not read.
LEMMA PairsOfSetBegin ==
    ASSUME StoreHolds, GroupInv, RequestFits, IdsInFlash, IdsStep, NEW g \in Range(groups),
           NEW n \in ItemNames, NEW d \in Data, Ready, SetBegin(<<g.id, n>>, d),
           ret' = "none", req' = [k |-> <<g.name, n>>, v |-> d]
    PROVE  PairStep
<1>1. pc = "ready" /\ pc' = "write" /\ flash' = flash /\ lost' = lost /\ op'.k = <<g.id, n>>
  BY DEF SetBegin, Ready, loaded
<1>2. req = NoCall /\ Pairs' = Pairs /\ LostPairs' = LostPairs
  BY <1>1, ReadyRests, FlashStands
<1>3. PICK h, id, k : h = g.name /\ id = g.id /\ k = <<id, n>>
  OBVIOUS
<1>4. /\ h \in GroupNames /\ k \in DataKey /\ k \in Keys /\ id \in Ids
      /\ NoGroupLost => IdOf(h) = id
  BY <1>1, <1>3, ItemSetFits, KeysByGroup
<1>5. d \in Values /\ d # NoValue /\ SetBegin(k, d) /\ op'.k = k /\ k # NoValue
  BY <1>1, <1>3, <1>4, GroupAssumption, NoValueAssumption
<1>6. k \in lost \/ Lookup(k) # d
  BY <1>4, <1>5, SetBeginDiffers DEF StoreHolds
<1>7. Serving /\ Serving'
  BY <1>1, <1>5 DEF Serving
<1>8. PICK p \in GroupNames \X ItemNames : p = <<h, n>>
  BY <1>4
<1>9. Pairs[p] # d
  <2>1. CASE p \in LostPairs
    BY <1>5, <2>1 DEF Pairs
  <2>2. CASE p \notin LostPairs
    <3>1. NoGroupLost /\ k \notin lost
      BY <1>3, <1>4, <1>8, <2>2, KeptPairs DEF PairsKept
    <3>2. Pairs[p] = Lookup(<<id, n>>)
      BY <1>4, <1>8, <2>2, <3>1, PairsAreRead DEF PairsRead
    <3> QED BY <1>3, <1>6, <3>1, <3>2
  <2> QED BY <2>1, <2>2
<1>10. req' = [k |-> p, v |-> d]
  BY <1>3, <1>8
<1>11. Directory!SetCall(p, d)
  BY <1>2, <1>7, <1>9, <1>10 DEF Directory!SetCall, Directory!NoReq, NoCall, Pairs
<1> QED BY <1>11 DEF PairStep, Directory!KVNext

LEMMA PairsOfItem ==
    ASSUME StoreHolds, GroupInv, RequestFits, IdsInFlash, IdsStep, NEW g \in Range(groups),
           NEW n \in ItemNames, ItemCall(g, n)
    PROVE  PairStep
<1>1. PICK k : k = <<g.id, n>>
  OBVIOUS
<1>2. Ready /\ pc = "ready"
  BY DEF ItemCall, Ready
<1>3. CASE Delete(k) /\ UNCHANGED <<req, ret>>
  <2>1. k \in DataKey
    BY <1>1, <1>2, ItemSetFits
  <2> QED BY <1>3, <2>1, PairsOfDelete
<1>4. ASSUME NEW d \in Data, SetSame(<<g.id, n>>, d), ret' = "ok", req' = req PROVE PairStep
  BY <1>2, <1>4, PairsOfSetSame
<1>5. ASSUME NEW d \in Data, SetBegin(<<g.id, n>>, d), ret' = "none",
             req' = [k |-> <<g.name, n>>, v |-> d]
      PROVE  PairStep
  BY <1>2, <1>5, PairsOfSetBegin
<1>6. \/ Delete(k) /\ UNCHANGED <<req, ret>>
      \/ \E d \in Data : SetSame(<<g.id, n>>, d) /\ ret' = "ok" /\ req' = req
      \/ \E d \in Data : /\ SetBegin(<<g.id, n>>, d) /\ ret' = "none"
                         /\ req' = [k |-> <<g.name, n>>, v |-> d]
  BY <1>1 DEF ItemCall
<1> QED BY <1>3, <1>4, <1>5, <1>6

\* jekv_storage_del_group erases the items of the group one by one.
LEMMA PairsOfDelGroup ==
    ASSUME StoreHolds, GroupInv, RequestFits, IdsInFlash, DelGroupItem
    PROVE  PairStep
<1>1. req' = req /\ ret' = ret
  BY DEF DelGroupItem
<1>2. PICK k \in DataKey : Delete(k)
  BY DelGroupDeletes DEF StoreHolds, GroupInv
<1> QED BY <1>1, <1>2, PairsOfDelete

\* Opening a group, and its deletion but for its items, change no pair.
LEMMA PairsOfOpenings ==
    ASSUME StoreHolds, IdsInFlash,
           \/ DelGroupEnd \/ UNCHANGED gvars
           \/ \E g \in GroupNames : OpenFound(g) \/ OpenFull(g) \/ OpenNew(g)
           \/ \E g \in Range(groups) : DelGroupBegin(g.id)
    PROVE  PairStep
<1>1. CASE \E g \in GroupNames : OpenNew(g)
  <2>1. PICK g \in GroupNames : OpenNew(g)
    BY <1>1
  <2>2. <<0, g>> # NoValue
    BY KeysByGroup, NoValueAssumption
  <2>3. /\ flash' = flash /\ lost' = lost /\ req' = req /\ ret' = ret /\ pc = "ready"
        /\ pc' = "write" /\ op'.k = <<0, g>>
    BY <2>1 DEF OpenNew, Ready, SetBegin, loaded
  <2>4. Serving /\ Serving'
    BY <2>2, <2>3 DEF Serving
  <2> QED BY <2>3, <2>4, FlashStands, PairsLose
<1>2. CASE ~ \E g \in GroupNames : OpenNew(g)
  <2>1. /\ flash' = flash /\ lost' = lost /\ req' = req /\ ret' = ret
        /\ UNCHANGED <<pc, op, gc>>
    BY <1>2 DEF DelGroupEnd, OpenFound, OpenFull, DelGroupBegin, gvars
  <2>2. Serving' <=> Serving
    BY <2>1 DEF Serving
  <2> QED BY <2>1, <2>2, FlashStands, PairsLose
<1> QED BY <1>1, <1>2

LEMMA GroupsPromise ==
    ASSUME StoreHolds, GroupInv, RequestFits, [GroupNext]_gvars
    PROVE  PairStep /\ RequestFits'
<1>1. GroupType /\ OpensUnused
  BY DEF GroupInv
<1>2. PromiseStep
  BY <1>1, GroupStepMaps, StoreStays DEF StoreHolds
<1>3. IdsStep
  BY <1>1, <1>2, IdsChange
<1>4. IdsStay /\ IdsInFlash
  BY <1>1, <1>3, IdsAreKept, GroupsHaveIds
<1>5. PairStep
  <2>1. CASE StoreStep
    BY <1>2, <1>3, <1>4, <2>1, PairsOfStoreStep
  <2>2. CASE OpenAdd
    BY <1>2, <1>3, <1>4, <2>2, PairsOfOpening
  <2>3. CASE DelGroupItem
    BY <1>4, <2>3, PairsOfDelGroup
  <2>4. CASE GroupPowerOff \/ GroupUnload
    BY <1>4, <2>4, PairsOfFailure
  <2>5. ASSUME NEW g \in Range(groups), NEW n \in ItemNames, ItemCall(g, n) PROVE PairStep
    BY <1>3, <1>4, <2>5, PairsOfItem
  <2>6. CASE \/ DelGroupEnd \/ UNCHANGED gvars
             \/ \E g \in GroupNames : OpenFound(g) \/ OpenFull(g) \/ OpenNew(g)
             \/ \E g \in Range(groups) : DelGroupBegin(g.id)
    BY <1>4, <2>6, PairsOfOpenings
  <2> QED BY <2>1, <2>2, <2>3, <2>4, <2>5, <2>6 DEF GroupNext, GroupStep, GroupCall
<1>6. RequestFits'
  BY <1>3, <1>4, RequestKept
<1> QED BY <1>5, <1>6

LEMMA GroupsBegin ==
    ASSUME GroupInit
    PROVE  RequestFits /\ Directory!KVInit
<1>1. /\ \A s \in Sector : ~ Used(s)
      /\ pc = "off" /\ op = NoOp /\ lost = {} /\ res = "none" /\ req = NoCall /\ ret = "none"
  BY DEF GroupInit, Init, Used, IsUsed, Blank
<1>2. op.k \notin DataKey /\ op.k = NoValue /\ Serving = FALSE
  BY <1>1, KeysByGroup, NoValueAssumption DEF NoOp, Serving
<1>3. RequestFits
  BY <1>1, <1>2 DEF RequestFits
<1>4. \A g : IdOf(g) = NoValue
  <2>1. \A k : Readable(k) = {}
    BY <1>1, ReadableAre DEF Reads
  <2> QED BY <2>1, LookupOfNone DEF IdOf
<1>5. LostPairs = {}
  BY <1>1 DEF LostPairs, NoGroupLost
<1>6. Pairs = [p \in GroupNames \X ItemNames |-> NoValue]
  BY <1>4 DEF Pairs
<1> QED BY <1>1, <1>2, <1>3, <1>5, <1>6 DEF Directory!KVInit, Directory!NoReq, NoCall, Pairs

\* Behaviour: partitions with groups implement the map of KVStore with pairs of names for
\* keys.  What is set through a handle is read by the names of its group and itself from then
\* on and by no other, over any opening and deletion of groups, collection, power failure and
\* start; jekv_storage_del_group takes the items of its group and no other's.
THEOREM GroupsKeepPromise == GroupSpec => KeepsGroupPromise
<1>1. GroupInit => RequestFits /\ Directory!KVInit
  BY GroupsBegin
<1>2. StoreHolds /\ GroupInv /\ RequestFits /\ [GroupNext]_gvars
      => RequestFits' /\ [Directory!KVNext]_(Directory!kvars)
  BY GroupsPromise DEF PairStep
<1> QED BY <1>1, <1>2, GroupsAlways, PTL DEF GroupSpec, KeepsGroupPromise, Directory!KVSpec

=============================================================================
