---------------------------- MODULE JekvApiProofs ----------------------------
(***************************************************************************)
(* Theorems about JekvApi, for any number of threads, partitions, handles  *)
(* and iterators, whose application calls jekv_init first and makes        *)
(* jekv_init and jekv_deinit by themselves.  Without that two calls can be *)
(* past their lock at a time, and the module's one step for what a call    *)
(* does under the mutex would be no model of the code.  So each theorem    *)
(* assumes it, and the ones about handles and iterators state OneAtATime,  *)
(* on which their steps rest, along with what they are about.              *)
(***************************************************************************)
EXTENDS JekvApi, TLAPS

USE NoneAssumption, GoneAssumption, ThreadAssumption

-----------------------------------------------------------------------------
(* Types, and the handles of the partitions in use *)

BaseInv == TypeOK /\ HandlesAttached

\* The calls the threads make are calls.
LEMMA CallTypes ==
    /\ NoCall \in Call /\ NoCall.op = "none"
    /\ Calls \subseteq Call
    /\ \A c \in Call : /\ c.op \in ByName => c.p \in Partition /\ c.mode \in {"ro", "rw"}
                       /\ c.op \in ByHandle => c.a \in Addr
                       /\ c.op \in ByIterator => c.a \in Iter
<1>1. NoCall \in Call /\ NoCall.op = "none"
  BY DEF Call, NoCall
<1>2. Calls \subseteq Call
  BY DEF Calls, Call, ByName, ByHandle, ByIterator
<1>3. ASSUME NEW c \in Call, c.op \in ByName
      PROVE  c.p \in Partition /\ c.mode \in {"ro", "rw"}
  BY <1>3 DEF Call, NoCall, ByName, ByHandle, ByIterator
<1>4. ASSUME NEW c \in Call, c.op \in ByHandle
      PROVE  c.a \in Addr
  BY <1>4 DEF Call, NoCall, ByName, ByHandle, ByIterator
<1>5. ASSUME NEW c \in Call, c.op \in ByIterator
      PROVE  c.a \in Iter
  BY <1>5 DEF Call, NoCall, ByName, ByHandle, ByIterator
<1> QED BY <1>1, <1>2, <1>3, <1>4, <1>5

LEMMA InitBase == Init => BaseInv
  BY CallTypes DEF Init, BaseInv, TypeOK, HandlesAttached

LEMMA BeginKeepsBase ==
    ASSUME BaseInv, NEW t \in Thread, NEW c \in Calls, Begin(t, c)
    PROVE  BaseInv'
<1>1. TypeOK'
  BY CallTypes DEF Begin, BaseInv, TypeOK, Goto, Entry, lists
<1>2. HandlesAttached'
  BY DEF Begin, BaseInv, HandlesAttached, lists
<1> QED BY <1>1, <1>2 DEF BaseInv

\* A fault changes nothing else.
LEMMA FaultKeepsBase ==
    ASSUME BaseInv, NEW f \in {"nomutex", "null", "freed"}, Fault(f)
    PROVE  BaseInv'
  BY DEF Fault, lists, BaseInv, TypeOK, HandlesAttached

LEMMA OutsideKeepsBase ==
    ASSUME BaseInv, NEW t \in Thread, Outside(t)
    PROVE  BaseInv'
<1> USE CallTypes DEF BaseInv, TypeOK, HandlesAttached, Goto, Return, lists
<1>1. CASE InitAlready(t)    BY <1>1 DEF InitAlready
<1>2. CASE InitPort(t)       BY <1>2 DEF InitPort
<1>3. CASE PortFlag(t)       BY <1>3 DEF PortFlag
<1>4. CASE PortMutex(t)      BY <1>4 DEF PortMutex
<1>5. CASE DeinitRefused(t)  BY <1>5 DEF DeinitRefused
<1>6. CASE DeinitBegin(t)    BY <1>6 DEF DeinitBegin
<1>7. CASE PortStays(t)      BY <1>7 DEF PortStays
<1>8. CASE PortUnflag(t)     BY <1>8 DEF PortUnflag
<1>9. CASE PortDelete(t)
  <2>1. CASE NoMutex
    BY <1>9, <2>1, FaultKeepsBase DEF PortDelete
  <2>2. CASE ~ NoMutex
    BY <1>9, <2>2 DEF PortDelete
  <2> QED BY <2>1, <2>2
<1>10. CASE EraseBegin(t)    BY <1>10 DEF EraseBegin
<1>11. CASE EraseBusy(t)     BY <1>11 DEF EraseBusy
<1>12. CASE EraseNoStorage(t)
  BY <1>12, FaultKeepsBase DEF EraseNoStorage
<1>13. CASE DelGroup(t)
  <2>1. CASE heap[call[t].a] = None
    BY <1>13, <2>1, FaultKeepsBase DEF DelGroup
  <2>2. CASE heap[call[t].a] # None
    BY <1>13, <2>2 DEF DelGroup
  <2> QED BY <2>1, <2>2
<1>14. CASE PortTest(t)      BY <1>14 DEF PortTest
<1>15. CASE PortDeinit(t)    BY <1>15 DEF PortDeinit
<1>16. CASE PortForget(t)    BY <1>16 DEF PortForget
<1> QED
  BY <1>1, <1>2, <1>3, <1>4, <1>5, <1>6, <1>7, <1>8, <1>9, <1>10, <1>11, <1>12, <1>13,
     <1>14, <1>15, <1>16 DEF Outside

\* jekv_deinit takes the handles of its partition along.
LEMMA PtmDeinitKeepsBase ==
    ASSUME BaseInv, NEW t \in Thread, PtmDeinit(t)
    PROVE  BaseInv'
<1> DEFINE p   == call[t].p
           its == {a \in handles : heap[a].p = p}
<1>1. CASE p \notin storages
  BY <1>1 DEF PtmDeinit, BaseInv, TypeOK, HandlesAttached, Done, Goto, lists
<1>2. CASE p \in storages
  <2>1. /\ storages' = storages \ {p}
        /\ handles' = handles \ its
        /\ heap' = [a \in Addr |-> IF a \in its THEN None ELSE heap[a]]
        /\ iters' = [i \in Iter |-> IF iters[i] = p THEN "gone" ELSE iters[i]]
        /\ Done(t, "ok") /\ up' = FALSE
        /\ UNCHANGED <<inited, mutex, call, fault>>
    BY <1>2 DEF PtmDeinit
  <2>2. TypeOK'
    BY <2>1 DEF BaseInv, TypeOK, Done, Goto
  <2>3. HandlesAttached'
    BY <2>1 DEF BaseInv, TypeOK, HandlesAttached
  <2> QED BY <2>2, <2>3 DEF BaseInv
<1> QED BY <1>1, <1>2

\* jekv_open allocates its handle for a partition in use and lists it.
LEMMA OpenKeepsBase ==
    ASSUME BaseInv, NEW t \in Thread, Open(t)
    PROVE  BaseInv'
<1>1. CASE UNCHANGED <<handles, heap>> /\ \E r \in {"nospace", "notinit", "fail", "notfound"} : Done(t, r)
  BY <1>1 DEF Open, BaseInv, TypeOK, HandlesAttached, Done, Goto
<1>2. ASSUME NEW a \in Addr, call[t].p \in storages, heap[a] = None,
             heap' = [heap EXCEPT ![a] = NewHandle(call[t])],
             handles' = handles \union {a}, Done(t, "ok")
      PROVE  BaseInv'
  <2>1. NewHandle(call[t]) \in Handle /\ NewHandle(call[t]).p \in storages
    BY <1>2, CallTypes DEF Open, Locked, NewHandle, Handle, BaseInv, TypeOK, ByName
  <2>2. UNCHANGED <<inited, mutex, storages, iters, call, up, fault>>
    BY DEF Open
  <2>3. TypeOK'
    BY <1>2, <2>1, <2>2 DEF BaseInv, TypeOK, Done, Goto
  <2>4. HandlesAttached'
    BY <1>2, <2>1, <2>2 DEF BaseInv, TypeOK, HandlesAttached
  <2> QED BY <2>3, <2>4 DEF BaseInv
<1> QED BY <1>1, <1>2 DEF Open

\* A call on iterators leaves the handles alone.
LEMMA IteratorsKeepBase ==
    ASSUME BaseInv, NEW t \in Thread, NEW r \in {"ok", "notfound", "notinit", "badhandle"},
           Done(t, r), iters' \in [Iter -> Partition \union {"gone", None}],
           UNCHANGED <<inited, mutex, storages, handles, heap, call, up, fault>>
    PROVE  BaseInv'
  BY DEF BaseInv, TypeOK, HandlesAttached, Done, Goto

LEMMA NewIteratorKeepsBase ==
    ASSUME BaseInv, NEW t \in Thread, NEW p \in Partition, NewIterator(t, p)
    PROVE  BaseInv'
<1>1. iters' \in [Iter -> Partition \union {"gone", None}]
  BY DEF NewIterator, BaseInv, TypeOK
<1> QED BY <1>1, IteratorsKeepBase DEF NewIterator

LEMMA EntriesKeepBase ==
    ASSUME BaseInv, NEW t \in Thread,
           \/ EntryFind(t) \/ EntryFindByHandle(t) \/ EntryNext(t) \/ EntryRead(t) \/ Release(t)
    PROVE  BaseInv'
<1>1. CASE EntryFind(t)
  BY <1>1, NewIteratorKeepsBase, IteratorsKeepBase DEF EntryFind, BaseInv, TypeOK, lists
<1>2. CASE EntryFindByHandle(t)
  <2> DEFINE a == call[t].a
  <2>1. CASE ~ Valid(a)
    BY <1>2, <2>1, IteratorsKeepBase DEF EntryFindByHandle, BaseInv, TypeOK, lists
  <2>2. CASE Valid(a) /\ ~ Readable(a)
    BY <1>2, <2>2, FaultKeepsBase DEF EntryFindByHandle
  <2>3. CASE Valid(a) /\ Readable(a)
    <3>1. heap[a].p \in Partition
      BY <2>3 DEF Readable, BaseInv, TypeOK
    <3> QED BY <1>2, <2>3, <3>1, NewIteratorKeepsBase DEF EntryFindByHandle
  <2> QED BY <2>1, <2>2, <2>3
<1>3. CASE EntryNext(t)
  <2>1. CASE ~ StorageThere(call[t].a)
    BY <1>3, <2>1, FaultKeepsBase DEF EntryNext
  <2>2. CASE StorageThere(call[t].a)
    <3>1. iters' \in [Iter -> Partition \union {"gone", None}]
      BY <1>3, <2>2 DEF EntryNext, BaseInv, TypeOK
    <3> QED BY <1>3, <2>2, <3>1, IteratorsKeepBase DEF EntryNext
  <2> QED BY <2>1, <2>2
<1>4. CASE EntryRead(t)
  <2> DEFINE there == IF call[t].op = "info" THEN IteratorThere(call[t].a)
                      ELSE StorageThere(call[t].a)
  <2>1. CASE ~ there
    BY <1>4, <2>1, FaultKeepsBase DEF EntryRead
  <2>2. CASE there
    BY <1>4, <2>2, IteratorsKeepBase DEF EntryRead, BaseInv, TypeOK, lists
  <2> QED BY <2>1, <2>2
<1>5. CASE Release(t)
  <2>1. CASE ~ IteratorThere(call[t].a)
    BY <1>5, <2>1, FaultKeepsBase DEF Release
  <2>2. CASE IteratorThere(call[t].a)
    <3>1. iters' \in [Iter -> Partition \union {"gone", None}]
      BY <1>5, <2>2 DEF Release, BaseInv, TypeOK
    <3> QED BY <1>5, <2>2, <3>1, IteratorsKeepBase DEF Release
  <2> QED BY <2>1, <2>2
<1> QED BY <1>1, <1>2, <1>3, <1>4, <1>5

LEMMA InsideKeepsBase ==
    ASSUME BaseInv, NEW t \in Thread, Inside(t)
    PROVE  BaseInv'
<1>1. CASE PtmInit(t)
  <2>1. call[t].p \in Partition
    BY <1>1, CallTypes DEF PtmInit, Locked, BaseInv, TypeOK, ByName
  <2> QED
    BY <1>1, <2>1 DEF PtmInit, BaseInv, TypeOK, HandlesAttached, Done, Goto
<1>2. CASE PtmDeinit(t)
  BY <1>2, PtmDeinitKeepsBase
<1>3. CASE EraseFind(t)
  BY <1>3 DEF EraseFind, BaseInv, TypeOK, HandlesAttached, Done, Goto, lists
<1>4. CASE Open(t)
  BY <1>4, OpenKeepsBase
<1>5. CASE Close(t)
  <2>1. TypeOK'
    BY <1>5 DEF Close, BaseInv, TypeOK, Done, Goto
  <2>2. HandlesAttached'
    BY <1>5 DEF Close, Valid, BaseInv, TypeOK, HandlesAttached
  <2> QED BY <2>1, <2>2 DEF BaseInv
<1>6. CASE UseItem(t)
  <2>1. CASE Valid(call[t].a) /\ ~ Readable(call[t].a)
    BY <1>6, <2>1, FaultKeepsBase DEF UseItem
  <2>2. CASE ~ (Valid(call[t].a) /\ ~ Readable(call[t].a))
    BY <1>6, <2>2 DEF UseItem, BaseInv, TypeOK, HandlesAttached, Done, Goto, lists
  <2> QED BY <2>1, <2>2
<1>7. CASE GetInfo(t)
  <2>1. CASE ~ Readable(call[t].a)
    BY <1>7, <2>1, FaultKeepsBase DEF GetInfo
  <2>2. CASE Readable(call[t].a)
    BY <1>7, <2>2 DEF GetInfo, BaseInv, TypeOK, HandlesAttached, Done, Goto, lists
  <2> QED BY <2>1, <2>2
<1>8. CASE Status(t)
  BY <1>8 DEF Status, BaseInv, TypeOK, HandlesAttached, Done, Goto, lists
<1> QED
  BY <1>1, <1>2, <1>3, <1>4, <1>5, <1>6, <1>7, <1>8, EntriesKeepBase DEF Inside

LEMMA TakeKeepsBase ==
    ASSUME BaseInv, NEW t \in Thread, Take(t)
    PROVE  BaseInv'
<1>1. CASE NoMutex
  BY <1>1, FaultKeepsBase DEF Take
<1>2. CASE ~ NoMutex
  BY <1>2 DEF Take, BaseInv, TypeOK, HandlesAttached, Goto, lists
<1> QED BY <1>1, <1>2

LEMMA UnlockKeepsBase ==
    ASSUME BaseInv, NEW t \in Thread, Unlock(t)
    PROVE  BaseInv'
<1>1. CASE mutex # t
  BY <1>1, FaultKeepsBase DEF Unlock
<1>2. CASE mutex = t
  <2>1. up' \in BOOLEAN
    BY <1>2, Zenon DEF Unlock, BaseInv, TypeOK
  <2>2. UNCHANGED <<inited, storages, handles, heap, iters, fault>> /\ mutex' = "free"
    BY <1>2 DEF Unlock, lists
  <2>3. CASE call[t].op \in {"deinit", "erase"}
    BY <1>2, <2>1, <2>2, <2>3 DEF Unlock, BaseInv, TypeOK, HandlesAttached, Goto
  <2>4. CASE call[t].op \notin {"deinit", "erase"}
    BY <1>2, <2>1, <2>2, <2>4, CallTypes
    DEF Unlock, BaseInv, TypeOK, HandlesAttached, Goto, Return
  <2> QED BY <2>3, <2>4
<1> QED BY <1>1, <1>2

LEMMA NextKeepsBase == BaseInv /\ [Next]_avars => BaseInv'
<1> SUFFICES ASSUME BaseInv, [Next]_avars PROVE BaseInv'
  OBVIOUS
<1>1. CASE UNCHANGED avars
  BY <1>1 DEF avars, lists, BaseInv, TypeOK, HandlesAttached
<1>2. ASSUME NEW t \in Thread, Run(t) PROVE BaseInv'
  BY <1>2, OutsideKeepsBase, InsideKeepsBase, TakeKeepsBase, UnlockKeepsBase DEF Run
<1>3. ASSUME NEW t \in Thread, NEW c \in Calls, Begin(t, c) PROVE BaseInv'
  BY <1>3, BeginKeepsBase
<1> QED BY <1>1, <1>2, <1>3 DEF Next

-----------------------------------------------------------------------------
(* A call that looks its handle up first finds it *)

LookInv ==
    /\ BaseInv
    /\ \A t \in Thread : pc[t] = "del_group" => call[t].op = "del_group"
    /\ NothingFreedIsRead

LEMMA InitLook == Init => LookInv
  BY InitBase, CallTypes DEF Init, LookInv, NothingFreedIsRead

LEMMA BeginKeepsLook ==
    ASSUME LookInv, NEW t \in Thread, NEW c \in Calls, fault = "none", Begin(t, c)
    PROVE  LookInv'
<1>1. BaseInv'
  BY BeginKeepsBase DEF LookInv
<1>2. Entry(c.op) = "del_group" => c.op = "del_group"
  BY DEF Entry
<1> QED
  BY <1>1, <1>2 DEF Begin, LookInv, BaseInv, TypeOK, Goto, NothingFreedIsRead

\* A listed handle can be read, and its storage.
LEMMA ValidIsReadable ==
    ASSUME BaseInv, NEW a, Valid(a)
    PROVE  Readable(a)
  BY DEF BaseInv, TypeOK, HandlesAttached, Valid, Readable

LEMMA RunKeepsLook ==
    ASSUME LookInv, NEW t \in Thread, Run(t)
    PROVE  LookInv'
<1>1. BaseInv'
  BY OutsideKeepsBase, InsideKeepsBase, TakeKeepsBase, UnlockKeepsBase DEF Run, LookInv
<1>2. fault = "none"
  BY DEF Run
<1>3. ASSUME fault' = "none", pc'[t] = "del_group" => call'[t].op = "del_group",
             \A u \in Thread \ {t} : pc'[u] = pc[u] /\ call'[u] = call[u]
      PROVE  LookInv'
  BY <1>1, <1>3 DEF LookInv, NothingFreedIsRead
<1>4. ASSUME fault' # "freed", UNCHANGED <<pc, call>>
      PROVE  LookInv'
  BY <1>1, <1>4 DEF LookInv, NothingFreedIsRead
<1>5. ASSUME UNCHANGED <<pc, call, handles, iters>>, pc[t] \in {"locked", "del_group"},
             \/ call[t].op \in {"del_group", "get_info"} /\ call[t].a \notin handles
             \/ call[t].op \in ByIterator /\ iters[call[t].a] = None
             \/ call[t].op \in {"next", "data"} /\ iters[call[t].a] = "gone"
      PROVE  LookInv'
  BY <1>1, <1>5 DEF LookInv, NothingFreedIsRead
<1>6. TypeOK /\ HandlesAttached /\ (pc[t] = "del_group" => call[t].op = "del_group")
  BY DEF LookInv, BaseInv
<1>7. CASE Outside(t)
  <2>1. CASE DelGroup(t) /\ heap[call[t].a] = None
    BY <1>5, <1>6, <2>1 DEF DelGroup, Fault, lists, HandlesAttached
  <2>2. CASE EraseNoStorage(t)
    BY <1>4, <2>2 DEF EraseNoStorage, Fault
  <2>3. CASE PortDelete(t) /\ NoMutex
    BY <1>4, <2>3 DEF PortDelete, Fault
  <2>4. CASE (DelGroup(t) /\ heap[call[t].a] # None) \/ (PortDelete(t) /\ ~ NoMutex)
    BY <1>2, <1>3, <1>6, <2>4 DEF DelGroup, PortDelete, Goto, TypeOK
  <2>5. CASE InitAlready(t) \/ InitPort(t) \/ PortTest(t) \/ PortFlag(t) \/ PortMutex(t)
    BY <1>2, <1>3, <1>6, <2>5
    DEF InitAlready, InitPort, PortTest, PortFlag, PortMutex, Goto, Return, TypeOK
  <2>6. CASE DeinitRefused(t) \/ DeinitBegin(t) \/ PortStays(t) \/ PortDeinit(t)
    BY <1>2, <1>3, <1>6, <2>6
    DEF DeinitRefused, DeinitBegin, PortStays, PortDeinit, Goto, Return, TypeOK
  <2>7. CASE PortUnflag(t) \/ PortForget(t) \/ EraseBegin(t) \/ EraseBusy(t)
    BY <1>2, <1>3, <1>6, <2>7
    DEF PortUnflag, PortForget, EraseBegin, EraseBusy, Goto, Return, TypeOK
  <2> QED BY <1>7, <2>1, <2>2, <2>3, <2>4, <2>5, <2>6, <2>7 DEF Outside
<1>8. CASE Take(t)
  BY <1>2, <1>3, <1>4, <1>6, <1>8 DEF Take, Fault, Goto, TypeOK
<1>9. CASE Inside(t)
  <2>1. ASSUME NEW r, Done(t, r), UNCHANGED <<call, fault>> PROVE LookInv'
    BY <1>2, <1>3, <1>6, <2>1 DEF Done, Goto, TypeOK
  <2>2. CASE PtmInit(t) \/ PtmDeinit(t) \/ EraseFind(t) \/ Open(t) \/ Close(t) \/ Status(t)
    BY <2>1, <2>2 DEF PtmInit, PtmDeinit, EraseFind, Open, Close, Status
  <2>3. CASE UseItem(t)
    BY <2>1, <2>3, ValidIsReadable DEF UseItem, LookInv
  <2>4. CASE GetInfo(t)
    BY <1>5, <1>6, <2>1, <2>4, ValidIsReadable
    DEF GetInfo, Locked, Fault, lists, LookInv, Valid
  <2>5. ASSUME NEW p, NewIterator(t, p) PROVE LookInv'
    BY <2>1, <2>5 DEF NewIterator
  <2>6. CASE EntryFind(t)
    BY <2>1, <2>5, <2>6 DEF EntryFind
  <2>7. CASE EntryFindByHandle(t)
    BY <2>1, <2>5, <2>7, ValidIsReadable DEF EntryFindByHandle, LookInv
  <2>8. ASSUME pc[t] = "locked", call[t].op \in {"next", "data"}, ~ StorageThere(call[t].a),
               Fault("freed")
        PROVE  LookInv'
    <3>1. call[t].a \in Iter /\ call[t].op \in ByIterator
      BY <1>6, <2>8, CallTypes DEF TypeOK, ByIterator
    <3>2. iters[call[t].a] \in {"gone", None}
      BY <1>6, <2>8, <3>1 DEF TypeOK, StorageThere
    <3> QED BY <1>5, <2>8, <3>1, <3>2 DEF Fault, lists
  <2>9. ASSUME pc[t] = "locked", call[t].op \in {"info", "release"}, ~ IteratorThere(call[t].a),
               Fault("freed")
        PROVE  LookInv'
    BY <1>5, <2>9 DEF Fault, lists, IteratorThere, ByIterator
  <2>10. CASE EntryNext(t)
    BY <2>1, <2>8, <2>10 DEF EntryNext, Locked
  <2>11. CASE EntryRead(t)
    BY <2>1, <2>8, <2>9, <2>11 DEF EntryRead
  <2>12. CASE Release(t)
    BY <2>1, <2>9, <2>12 DEF Release, Locked
  <2> QED
    BY <1>9, <2>2, <2>3, <2>4, <2>6, <2>7, <2>10, <2>11, <2>12 DEF Inside
<1>10. CASE Unlock(t)
  BY <1>2, <1>3, <1>4, <1>6, <1>10 DEF Unlock, Fault, Goto, Return, TypeOK
<1> QED BY <1>7, <1>8, <1>9, <1>10 DEF Run

LEMMA NextKeepsLook == LookInv /\ [Next]_avars => LookInv'
<1> SUFFICES ASSUME LookInv, [Next]_avars PROVE LookInv'
  OBVIOUS
<1>1. CASE UNCHANGED avars
  BY <1>1 DEF avars, lists, LookInv, BaseInv, TypeOK, HandlesAttached, NothingFreedIsRead
<1>2. ASSUME NEW t \in Thread, Run(t) PROVE LookInv'
  BY <1>2, RunKeepsLook
<1>3. ASSUME NEW t \in Thread, NEW c \in Calls, fault = "none", Begin(t, c) PROVE LookInv'
  BY <1>3, BeginKeepsLook
<1> QED BY <1>1, <1>2, <1>3 DEF Next

-----------------------------------------------------------------------------
(* What the mutex needs of the application *)

\* A jekv_init has returned before the other calls are made, and no other call is
\* running beside a jekv_init or a jekv_deinit.
InitFirst == {"init first", "init", "deinit"} \subseteq Discipline

PortOps == {"init", "deinit"}

LEMMA BaseOfDiscipline == DisciplineInv => BaseInv
  BY DEF DisciplineInv, BaseInv

\* Nothing runs beside a jekv_init or a jekv_deinit.
LEMMA Alone ==
    ASSUME DisciplineInv, InitFirst, NEW t \in Thread, pc[t] # "idle", call[t].op \in PortOps
    PROVE  \A u \in Thread \ {t} : pc[u] = "idle"
  BY DEF DisciplineInv, Apart, InitFirst, PortOps

\* What such a call finds of the port, but for between the flag and the mutex.
LEMMA AlonePort ==
    ASSUME DisciplineInv, InitFirst, NEW t \in Thread, call[t].op \in PortOps,
           pc[t] \notin {"idle", "create", "delete", "forget"}
    PROVE  (inited <=> ~ NoMutex) /\ (storages # {} => inited)
  BY Alone DEF DisciplineInv, PortWhole

\* It is enough to look at the thread of such a call.
LEMMA AloneStep ==
    ASSUME DisciplineInv, InitFirst, BaseInv', NEW t \in Thread,
           pc[t] # "idle", call[t].op \in PortOps,
           \A u \in Thread \ {t} : pc'[u] = pc[u] /\ call'[u] = call[u],
           pc'[t] = "idle" \/ call'[t] = call[t],
           InItsCall(t)', PortSteps(t)', HasMutex(t)',
           pc'[t] \notin {"create", "delete", "forget"} =>
               (inited' <=> ~ NoMutex') /\ (storages' # {} => inited'),
           up' => inited' /\ ~ NoMutex',
           MutexIsThere'
    PROVE  DisciplineInv'
<1>1. \A u \in Thread \ {t} : pc'[u] = "idle"
  BY Alone
<1>2. Apart'
  BY <1>1 DEF Apart
<1>3. PortWhole'
  BY DEF PortWhole
<1>4. \A u \in Thread : (InItsCall(u) /\ PortSteps(u) /\ HasMutex(u))'
  BY <1>1 DEF InItsCall, PortSteps, HasMutex
<1> QED BY <1>2, <1>3, <1>4 DEF DisciplineInv, BaseInv

\* Any other call leaves the port alone, and the mutex to the others.
LEMMA SharedStep ==
    ASSUME DisciplineInv, InitFirst, BaseInv', NEW t \in Thread,
           pc[t] # "idle", call[t].op \notin PortOps,
           \A u \in Thread \ {t} : pc'[u] = pc[u] /\ call'[u] = call[u],
           \/ pc'[t] = "idle"
           \/ call'[t] = call[t] /\ pc'[t] \in {"lock", "unlock"}
           \/ call'[t] = call[t] /\ pc'[t] = "erased" /\ call[t].op = "erase",
           UNCHANGED <<inited, storages, up>>,
           NoMutex' <=> NoMutex,
           \A u \in Thread \ {t} : mutex = u => mutex' = u,
           HasMutex(t)',
           MutexIsThere'
    PROVE  DisciplineInv'
<1>1. Apart'
  BY DEF DisciplineInv, Apart
<1>2. PortWhole'
  <2>1. pc[t] \notin {"create", "delete", "forget"}
    BY DEF DisciplineInv, InItsCall, PortOps
  <2> QED BY <2>1 DEF DisciplineInv, PortWhole
<1>3. ASSUME NEW u \in Thread \ {t}
      PROVE  (InItsCall(u) /\ PortSteps(u) /\ HasMutex(u))'
  BY <1>3 DEF DisciplineInv, InItsCall, PortSteps, HasMutex
<1>4. InItsCall(t)' /\ PortSteps(t)'
  BY DEF InItsCall, PortSteps, PortOps
<1>5. \A u \in Thread : (InItsCall(u) /\ PortSteps(u) /\ HasMutex(u))'
  BY <1>3, <1>4
<1>6. (up => inited /\ ~ NoMutex)'
  BY DEF DisciplineInv
<1> QED BY <1>1, <1>2, <1>5, <1>6 DEF DisciplineInv, BaseInv

\* A fault that is not for want of the mutex changes nothing the mutex needs.
LEMMA FaultKeepsDiscipline ==
    ASSUME DisciplineInv, NEW f \in {"null", "freed"}, Fault(f)
    PROVE  DisciplineInv'
<1>1. TypeOK' /\ HandlesAttached'
  BY FaultKeepsBase, BaseOfDiscipline DEF BaseInv
<1>2. UNCHANGED <<inited, mutex, storages, pc, call, up>> /\ fault' # "nomutex"
  BY DEF Fault, lists
<1>3. Apart' /\ PortWhole' /\ MutexIsThere'
  BY <1>2 DEF DisciplineInv, Apart, PortWhole, MutexIsThere, NoMutex
<1>5. (up => inited /\ ~ NoMutex)'
  BY <1>2 DEF DisciplineInv, NoMutex
<1>4. ASSUME NEW t \in Thread PROVE (InItsCall(t) /\ PortSteps(t) /\ HasMutex(t))'
  BY <1>2, <1>4 DEF DisciplineInv, InItsCall, PortSteps, HasMutex, NoMutex
<1> QED BY <1>1, <1>3, <1>4, <1>5 DEF DisciplineInv

LEMMA InitDiscipline == Init => DisciplineInv
<1> SUFFICES ASSUME Init PROVE DisciplineInv
  OBVIOUS
<1>1. TypeOK /\ HandlesAttached
  BY InitBase DEF BaseInv
<1>2. Apart /\ PortWhole /\ MutexIsThere /\ ~ up
  BY DEF Init, Apart, PortWhole, MutexIsThere, NoMutex
<1>3. ASSUME NEW t \in Thread PROVE InItsCall(t) /\ PortSteps(t) /\ HasMutex(t)
  BY <1>3 DEF Init, InItsCall, PortSteps, HasMutex
<1> QED BY <1>1, <1>2, <1>3 DEF DisciplineInv

LEMMA BeginKeepsDiscipline ==
    ASSUME DisciplineInv, InitFirst, NEW t \in Thread, NEW c \in Calls, Begin(t, c)
    PROVE  DisciplineInv'
<1>1. TypeOK' /\ HandlesAttached'
  BY BeginKeepsBase, BaseOfDiscipline DEF BaseInv
<1>2. /\ pc'[t] = Entry(c.op) /\ call'[t] = c
      /\ \A u \in Thread \ {t} : pc'[u] = pc[u] /\ call'[u] = call[u]
      /\ UNCHANGED <<inited, mutex, storages, up, fault>>
  BY DEF Begin, Goto, lists, DisciplineInv, TypeOK
<1>3. Entry(c.op) \in {"init", "deinit", "erase", "del_group", "lock"}
  BY DEF Entry
<1>4. Apart'
  BY <1>2 DEF Begin, Disciplined, DisciplineInv, Apart
<1>5. PortWhole'
  BY <1>2, <1>3 DEF Begin, DisciplineInv, PortWhole, NoMutex
<1>6. InItsCall(t)' /\ PortSteps(t)' /\ HasMutex(t)'
  <2>1. Entry(c.op) \in {"lock", "del_group"} => c.op \notin {"init", "deinit", "erase"}
    BY DEF Entry
  <2>2. Entry(c.op) # "lock" => c.op = Entry(c.op)
    BY DEF Entry
  <2>3. Entry(c.op) \in {"lock", "del_group"} => ~ NoMutex
    BY <2>1 DEF Begin, Disciplined, InitFirst, DisciplineInv
  <2> QED BY <1>2, <1>3, <2>1, <2>2, <2>3 DEF InItsCall, PortSteps, HasMutex, NoMutex
<1>7. ASSUME NEW u \in Thread \ {t}
      PROVE  (InItsCall(u) /\ PortSteps(u) /\ HasMutex(u))'
  BY <1>2, <1>7 DEF DisciplineInv, InItsCall, PortSteps, HasMutex, NoMutex
<1>8. (up => inited /\ ~ NoMutex)' /\ MutexIsThere'
  BY <1>2 DEF DisciplineInv, MutexIsThere, NoMutex
<1> QED BY <1>1, <1>4, <1>5, <1>6, <1>7, <1>8 DEF DisciplineInv

\* A step of jekv_init or jekv_deinit outside the mutex.
PortStep(t) ==
    \/ InitAlready(t) \/ InitPort(t) \/ PortTest(t) \/ PortFlag(t) \/ PortMutex(t)
    \/ DeinitRefused(t) \/ DeinitBegin(t) \/ PortStays(t) \/ PortDeinit(t)
    \/ PortUnflag(t) \/ PortDelete(t) \/ PortForget(t)

LEMMA PortStepKeepsDiscipline ==
    ASSUME DisciplineInv, InitFirst, NEW t \in Thread, PortStep(t)
    PROVE  DisciplineInv'
<1> DEFINE Step ==
        /\ InItsCall(t)' /\ PortSteps(t)' /\ HasMutex(t)'
        /\ pc'[t] \notin {"create", "delete", "forget"} =>
               (inited' <=> ~ NoMutex') /\ (storages' # {} => inited')
        /\ up' => inited' /\ ~ NoMutex'
        /\ MutexIsThere'
        /\ \A u \in Thread \ {t} : pc'[u] = pc[u] /\ call'[u] = call[u]
        /\ pc'[t] = "idle" \/ call'[t] = call[t]
<1>1. BaseInv'
  BY BaseOfDiscipline, OutsideKeepsBase DEF Outside, PortStep
<1>2. pc[t] # "idle" /\ call[t].op \in PortOps /\ MutexIsThere
  BY DEF DisciplineInv, InItsCall, PortOps, PortStep,
         InitAlready, InitPort, PortTest, PortFlag, PortMutex,
         DeinitRefused, DeinitBegin, PortStays, PortDeinit, PortUnflag, PortDelete, PortForget
<1>3. TypeOK /\ InItsCall(t) /\ PortSteps(t) /\ HasMutex(t) /\ (up => inited /\ ~ NoMutex)
  BY DEF DisciplineInv
<1>4. pc[t] \notin {"create", "delete", "forget"} =>
          (inited <=> ~ NoMutex) /\ (storages # {} => inited)
  BY <1>2, AlonePort
<1>5. ASSUME Step PROVE DisciplineInv'
  BY <1>1, <1>2, <1>5, AloneStep
<1> USE <1>2, <1>3, <1>4 DEF InItsCall, PortSteps, HasMutex, MutexIsThere, NoMutex, TypeOK,
       Goto, Return, lists
<1>6. CASE InitAlready(t)    BY <1>5, <1>6 DEF InitAlready
<1>7. CASE InitPort(t)       BY <1>5, <1>7 DEF InitPort
<1>8. CASE PortFlag(t)       BY <1>5, <1>8 DEF PortFlag
<1>9. CASE PortMutex(t)      BY <1>5, <1>9 DEF PortMutex
<1>10. CASE DeinitRefused(t) BY <1>5, <1>10 DEF DeinitRefused
<1>11. CASE DeinitBegin(t)   BY <1>5, <1>11 DEF DeinitBegin
<1>12. CASE PortStays(t)     BY <1>5, <1>12 DEF PortStays
<1>13. CASE PortUnflag(t)    BY <1>5, <1>13 DEF PortUnflag
<1>14. CASE PortDelete(t)    BY <1>5, <1>14 DEF PortDelete
<1>15. CASE PortTest(t)      BY <1>5, <1>15 DEF PortTest
<1>16. CASE PortDeinit(t)    BY <1>5, <1>16 DEF PortDeinit
<1>17. CASE PortForget(t)    BY <1>5, <1>17 DEF PortForget
<1> QED
  BY <1>6, <1>7, <1>8, <1>9, <1>10, <1>11, <1>12, <1>13, <1>14, <1>15, <1>16, <1>17 DEF PortStep

\* The steps of the other calls outside the mutex.
LEMMA OutsideKeepsDiscipline ==
    ASSUME DisciplineInv, InitFirst, NEW t \in Thread, Outside(t)
    PROVE  DisciplineInv'
<1>1. BaseInv'
  BY BaseOfDiscipline, OutsideKeepsBase
<1>2. TypeOK /\ InItsCall(t) /\ PortSteps(t) /\ HasMutex(t) /\ MutexIsThere
  BY DEF DisciplineInv
<1>3. CASE PortStep(t)
  BY <1>3, PortStepKeepsDiscipline
<1>4. CASE EraseNoStorage(t)
  BY <1>4, FaultKeepsDiscipline DEF EraseNoStorage
<1>5. CASE DelGroup(t) /\ heap[call[t].a] = None
  BY <1>5, FaultKeepsDiscipline DEF DelGroup
<1>6. CASE EraseBegin(t)
  <2>1. ~ NoMutex /\ call[t].op \notin PortOps
    <3>1. ASSUME NEW u \in Thread, pc[u] \in {"create", "delete", "forget"} PROVE FALSE
      BY <1>6, <3>1 DEF EraseBegin, DisciplineInv, PortSteps
    <3> QED BY <1>6, <3>1 DEF EraseBegin, DisciplineInv, PortWhole, InItsCall, PortOps
  <2>2. HasMutex(t)'
    BY <1>2, <1>6, <2>1 DEF EraseBegin, HasMutex, TypeOK, Goto, NoMutex
  <2> QED
    BY <1>1, <1>2, <1>6, <2>1, <2>2, SharedStep
    DEF EraseBegin, TypeOK, Goto, MutexIsThere, NoMutex, lists
<1>7. CASE EraseBusy(t)
  <2>1. HasMutex(t)' /\ call[t].op \notin PortOps
    BY <1>2, <1>7 DEF EraseBusy, HasMutex, TypeOK, Return, InItsCall, PortOps
  <2> QED
    BY <1>1, <1>2, <1>7, <2>1, SharedStep
    DEF EraseBusy, TypeOK, Return, MutexIsThere, NoMutex, lists
<1>8. CASE DelGroup(t) /\ heap[call[t].a] # None
  <2>1. HasMutex(t)' /\ call[t].op \notin PortOps
    BY <1>2, <1>8 DEF DelGroup, HasMutex, TypeOK, Goto, InItsCall, PortOps, NoMutex
  <2> QED
    BY <1>1, <1>2, <1>8, <2>1, SharedStep DEF DelGroup, TypeOK, Goto, MutexIsThere, lists, NoMutex
<1> QED BY <1>3, <1>4, <1>5, <1>6, <1>7, <1>8 DEF Outside, PortStep

\* The mutex is free, then: no other thread is between its lock and its unlock.
LEMMA TakeKeepsDiscipline ==
    ASSUME DisciplineInv, InitFirst, NEW t \in Thread, Take(t)
    PROVE  DisciplineInv'
<1>1. TypeOK' /\ HandlesAttached'
  BY BaseOfDiscipline, TakeKeepsBase DEF BaseInv
<1>2. /\ mutex = "free" /\ mutex' = t /\ pc[t] = "lock" /\ pc'[t] = "locked"
      /\ \A u \in Thread \ {t} : pc'[u] = pc[u]
      /\ UNCHANGED <<inited, storages, call, up, fault>>
  BY DEF Take, DisciplineInv, HasMutex, TypeOK, Goto, lists
<1>3. \A u \in Thread : pc[u] \notin {"locked", "unlock"}
  BY <1>2, ThreadAssumption DEF DisciplineInv, HasMutex
<1>4. Apart' /\ PortWhole' /\ MutexIsThere' /\ (up => inited /\ ~ NoMutex)'
  BY <1>2, ThreadAssumption DEF DisciplineInv, Apart, PortWhole, MutexIsThere, NoMutex
<1>5. ASSUME NEW u \in Thread PROVE (InItsCall(u) /\ PortSteps(u) /\ HasMutex(u))'
  <2>1. InItsCall(u) /\ PortSteps(u) /\ HasMutex(u)
    BY DEF DisciplineInv
  <2> QED
    BY <1>2, <1>3, <2>1, ThreadAssumption DEF InItsCall, PortSteps, HasMutex, NoMutex
<1> QED BY <1>1, <1>4, <1>5 DEF DisciplineInv

LEMMA UnlockKeepsDiscipline ==
    ASSUME DisciplineInv, InitFirst, NEW t \in Thread, Unlock(t)
    PROVE  DisciplineInv'
<1>1. BaseInv'
  BY BaseOfDiscipline, UnlockKeepsBase
<1>2. TypeOK /\ InItsCall(t) /\ PortSteps(t) /\ HasMutex(t) /\ MutexIsThere
  BY DEF DisciplineInv
<1>3. /\ mutex = t /\ mutex' = "free" /\ pc[t] = "unlock"
      /\ \A u \in Thread \ {t} : pc'[u] = pc[u] /\ call'[u] = call[u]
      /\ UNCHANGED <<inited, storages, fault>>
  BY <1>2 DEF Unlock, HasMutex, TypeOK, Goto, Return, lists
<1>4. CASE call[t].op = "init"
  <2>1. inited /\ pc'[t] = "idle"
    BY <1>2, <1>3, <1>4, AlonePort, ThreadAssumption DEF Unlock, PortOps, Return, TypeOK, NoMutex
  <2> QED
    BY <1>1, <1>2, <1>3, <1>4, <2>1, AloneStep
    DEF PortOps, InItsCall, PortSteps, HasMutex, MutexIsThere, NoMutex
<1>5. CASE call[t].op = "deinit"
  <2>1. inited /\ ~ NoMutex
    BY <1>2, <1>3, <1>5, AlonePort, ThreadAssumption DEF PortOps, NoMutex
  <2>2. pc'[t] = "unused" /\ call' = call /\ up' = up
    BY <1>2, <1>3, <1>5 DEF Unlock, Goto, TypeOK
  <2>3. InItsCall(t)' /\ PortSteps(t)' /\ HasMutex(t)' /\ MutexIsThere'
    BY <1>2, <1>3, <1>5, <2>2 DEF InItsCall, PortSteps, HasMutex, MutexIsThere
  <2> QED
    BY <1>1, <1>3, <1>5, <2>1, <2>2, <2>3, AloneStep DEF PortOps, NoMutex
<1>6. CASE call[t].op \notin PortOps
  <2>1. ~ NoMutex /\ UNCHANGED up
    BY <1>2, <1>3, <1>6, ThreadAssumption, Zenon DEF Unlock, PortOps, DisciplineInv, TypeOK, NoMutex
  <2>2. /\ HasMutex(t)'
        /\ \/ pc'[t] = "idle"
           \/ call'[t] = call[t] /\ pc'[t] = "erased" /\ call[t].op = "erase"
    BY <1>2, <1>3, <1>6 DEF Unlock, HasMutex, TypeOK, Goto, Return, PortOps
  <2> QED
    BY <1>1, <1>2, <1>3, <1>6, <2>1, <2>2, ThreadAssumption, SharedStep DEF MutexIsThere, NoMutex
<1> QED BY <1>4, <1>5, <1>6 DEF PortOps

\* With the mutex held, a call of another kind does no more than set its outcome.
LEMMA HeldKeepsDiscipline ==
    ASSUME DisciplineInv, InitFirst, BaseInv', NEW t \in Thread, pc[t] = "locked",
           call[t].op \notin PortOps, pc' = [pc EXCEPT ![t] = "unlock"],
           UNCHANGED <<inited, mutex, storages, call, up, fault>>
    PROVE  DisciplineInv'
<1>1. pc'[t] = "unlock" /\ \A u \in Thread \ {t} : pc'[u] = pc[u]
  BY DEF DisciplineInv, TypeOK
<1>2. HasMutex(t)' /\ MutexIsThere'
  BY <1>1 DEF DisciplineInv, HasMutex, MutexIsThere
<1> QED BY <1>1, <1>2, SharedStep DEF NoMutex

LEMMA InsideKeepsDiscipline ==
    ASSUME DisciplineInv, InitFirst, NEW t \in Thread, Inside(t)
    PROVE  DisciplineInv'
<1>1. BaseInv'
  BY BaseOfDiscipline, InsideKeepsBase
<1>2. TypeOK /\ InItsCall(t) /\ PortSteps(t) /\ HasMutex(t) /\ MutexIsThere
  BY DEF DisciplineInv
<1>3. CASE PtmInit(t)
  <2>1. /\ pc[t] = "locked" /\ pc'[t] = "unlock" /\ call[t].op \in PortOps
        /\ \A u \in Thread \ {t} : pc'[u] = pc[u]
        /\ UNCHANGED <<inited, mutex, call, up, fault>>
    BY <1>2, <1>3 DEF PtmInit, Locked, Done, Goto, TypeOK, PortOps
  <2>2. inited /\ mutex = t /\ ~ NoMutex
    BY <1>2, <2>1, AlonePort, ThreadAssumption DEF HasMutex, NoMutex
  <2>3. InItsCall(t)' /\ PortSteps(t)' /\ HasMutex(t)' /\ MutexIsThere'
    BY <1>2, <1>3, <2>1, <2>2 DEF PtmInit, Locked, InItsCall, PortSteps, HasMutex, MutexIsThere
  <2> QED BY <1>1, <2>1, <2>2, <2>3, AloneStep DEF NoMutex
<1>4. CASE PtmDeinit(t)
  <2>1. /\ pc[t] = "locked" /\ pc'[t] = "unlock" /\ call[t].op = "deinit"
        /\ \A u \in Thread \ {t} : pc'[u] = pc[u]
        /\ UNCHANGED <<inited, mutex, call, fault>>
        /\ storages # {} /\ (up' => storages' # {})
    BY <1>2, <1>4 DEF PtmDeinit, Locked, Done, Goto, TypeOK, PortSteps, lists
  <2>2. inited /\ mutex = t /\ ~ NoMutex
    BY <1>2, <2>1, AlonePort, ThreadAssumption DEF HasMutex, PortOps
  <2>3. InItsCall(t)' /\ PortSteps(t)' /\ HasMutex(t)' /\ MutexIsThere'
    BY <1>2, <2>1, <2>2 DEF InItsCall, PortSteps, HasMutex, MutexIsThere
  <2> QED BY <1>1, <2>1, <2>2, <2>3, AloneStep DEF PortOps, NoMutex
<1>5. CASE EraseFind(t)
  BY <1>1, <1>5, HeldKeepsDiscipline DEF EraseFind, Locked, Done, Goto, PortOps, lists
<1>6. CASE Open(t)
  BY <1>1, <1>6, HeldKeepsDiscipline DEF Open, Locked, Done, Goto, PortOps
<1>7. CASE Close(t)
  BY <1>1, <1>7, HeldKeepsDiscipline DEF Close, Locked, Done, Goto, PortOps
<1>8. CASE UseItem(t)
  BY <1>1, <1>8, HeldKeepsDiscipline, FaultKeepsDiscipline DEF UseItem, Done, Goto, PortOps, lists
<1>9. CASE GetInfo(t)
  BY <1>1, <1>9, HeldKeepsDiscipline, FaultKeepsDiscipline
  DEF GetInfo, Locked, Done, Goto, PortOps, lists
<1>10. CASE Status(t)
  BY <1>1, <1>10, HeldKeepsDiscipline DEF Status, Locked, Done, Goto, PortOps, lists
<1>11. CASE EntryFind(t)
  BY <1>1, <1>11, HeldKeepsDiscipline
  DEF EntryFind, NewIterator, Locked, Done, Goto, PortOps, lists
<1>12. CASE EntryFindByHandle(t)
  BY <1>1, <1>12, HeldKeepsDiscipline, FaultKeepsDiscipline
  DEF EntryFindByHandle, NewIterator, Locked, Done, Goto, PortOps, lists
<1>13. CASE EntryNext(t)
  BY <1>1, <1>13, HeldKeepsDiscipline, FaultKeepsDiscipline
  DEF EntryNext, Locked, Done, Goto, PortOps
<1>14. CASE EntryRead(t)
  BY <1>1, <1>14, HeldKeepsDiscipline, FaultKeepsDiscipline
  DEF EntryRead, Done, Goto, PortOps, lists
<1>15. CASE Release(t)
  BY <1>1, <1>15, HeldKeepsDiscipline, FaultKeepsDiscipline
  DEF Release, Locked, Done, Goto, PortOps
<1> QED
  BY <1>3, <1>4, <1>5, <1>6, <1>7, <1>8, <1>9, <1>10, <1>11, <1>12, <1>13, <1>14, <1>15
  DEF Inside

\* The invariant behind the three theorems that follow: what each thread on its way through
\* a call may rely on, if the application makes its jekv_init and jekv_deinit by themselves.
THEOREM DisciplineHolds == InitFirst => (Spec => []DisciplineInv)
<1> SUFFICES ASSUME InitFirst PROVE Spec => []DisciplineInv
  OBVIOUS
<1>1. DisciplineInv /\ [Next]_avars => DisciplineInv'
  <2> SUFFICES ASSUME DisciplineInv, [Next]_avars PROVE DisciplineInv'
    OBVIOUS
  <2>1. CASE UNCHANGED avars
    BY <2>1 DEF avars, lists, DisciplineInv, TypeOK, HandlesAttached, Apart, PortWhole,
                InItsCall, PortSteps, HasMutex, MutexIsThere, NoMutex
  <2>2. ASSUME NEW t \in Thread, Run(t) PROVE DisciplineInv'
    BY <2>2, OutsideKeepsDiscipline, TakeKeepsDiscipline, InsideKeepsDiscipline,
       UnlockKeepsDiscipline DEF Run
  <2>3. ASSUME NEW t \in Thread, NEW c \in Calls, Begin(t, c) PROVE DisciplineInv'
    BY <2>3, BeginKeepsDiscipline
  <2> QED BY <2>1, <2>2, <2>3 DEF Next
<1> QED BY <1>1, InitDiscipline, PTL DEF Spec

\* No two calls are between their lock and their unlock at a time.
THEOREM CallsOneAtATime == InitFirst => (Spec => []OneAtATime)
<1>1. DisciplineInv => OneAtATime
  BY DEF DisciplineInv, HasMutex, OneAtATime
<1> QED BY <1>1, DisciplineHolds, PTL

\* No call takes or gives a mutex that is not there.
THEOREM MutexAlwaysThere == InitFirst => (Spec => []MutexIsThere)
<1>1. DisciplineInv => MutexIsThere
  BY DEF DisciplineInv
<1> QED BY <1>1, DisciplineHolds, PTL

\* Calls that work on the lists one at a time leave in the list of handles the ones that are
\* allocated, each of a partition in use.
THEOREM HandlesStayAttached == InitFirst => (Spec => [](OneAtATime /\ HandlesAttached))
<1>1. DisciplineInv => HandlesAttached
  BY DEF DisciplineInv
<1> QED BY <1>1, CallsOneAtATime, DisciplineHolds, PTL

\* One at a time, calls read freed memory in the cases NothingFreedIsRead names and in no
\* other, closing and deinitialising threads and addresses that are used again included.
THEOREM FreedIsNotRead == InitFirst => (Spec => [](OneAtATime /\ NothingFreedIsRead))
<1>1. LookInv => NothingFreedIsRead
  BY DEF LookInv
<1> QED BY <1>1, InitLook, NextKeepsLook, CallsOneAtATime, PTL DEF Spec

\* The flag of the port, its mutex and the partitions in use agree.
THEOREM PortStaysWhole == InitFirst => (Spec => []PortWhole)
<1>1. DisciplineInv => PortWhole
  BY DEF DisciplineInv
<1> QED BY <1>1, DisciplineHolds, PTL

=============================================================================
