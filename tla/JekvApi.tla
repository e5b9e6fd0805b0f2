------------------------------- MODULE JekvApi -------------------------------
(***************************************************************************)
(* The public calls of src/jekv_base.c, made by several threads: the port  *)
(* that is brought up by the first jekv_init and taken down by the last    *)
(* jekv_deinit (porting/jekv_porting_freertos.c), its global mutex, the    *)
(* list of storages and the list of handles of jekv_partition_manager.c,   *)
(* and the iterators, which no list holds.                                 *)
(* What a call does between taking and giving the mutex is one step, which *)
(* is what the code does where OneAtATime holds: the theorems about this   *)
(* module all assume the discipline that makes it hold.  What a call does  *)
(* without the mutex is a step for each variable it reads or writes.  The  *)
(* contents of a partition are JekvStore, the cursor of an iterator is     *)
(* JekvIterator.  The program is over once a call has used a mutex, a      *)
(* storage, a handle or an iterator that is not there: `fault' says which. *)
(***************************************************************************)
EXTENDS Naturals, FiniteSets

CONSTANTS
    Thread, Partition,
    Addr,       \* where jekv_handler_open may allocate a handle; addresses are used again
    Iter,       \* where jekv_entry_find may allocate an iterator
    MaxHandles, \* JEKV_MAX_HANDLE_NUM
    Broken,     \* partitions whose sectors cannot be loaded
    Ops,        \* bound: the calls the threads make
    Discipline, \* what the application takes care of: see Disciplined
    None

Handle == [p : Partition, mode : {"ro", "rw"}]

ASSUME ApiAssumption    == MaxHandles \in Nat /\ Broken \subseteq Partition
ASSUME NoneAssumption   == None \notin Handle /\ None \notin Partition
ASSUME GoneAssumption   == "gone" \notin Partition /\ "gone" # None
ASSUME ThreadAssumption == Thread \cap {"none", "deleted", "free"} = {}

VARIABLES
    inited,     \* g_port_init
    mutex,      \* g_jvks_mutex: "none", "deleted", "free" or the thread that has it
    storages,   \* g_storage_list, by partition name
    handles,    \* g_handle_list
    heap,       \* [Addr -> the handle allocated there, or None]
    iters,      \* [Iter -> the partition the iterator allocated there was found in, "gone"
                \* when the storage it points to has been freed since, or None]
    pc,         \* [Thread -> where its call is, "idle" between calls]
    call,       \* [Thread -> the arguments of its call]
    res,        \* [Thread -> how its last call returned]
    up,         \* history: a jekv_init has returned JEKV_ERR_OK since a jekv_deinit did its work
    fault       \* "none", "nomutex", "null" or "freed"

lists == <<storages, handles, heap, iters>>
avars == <<inited, mutex, lists, pc, call, res, up, fault>>

NoCall == [op |-> "none", p |-> None, a |-> None, mode |-> "ro"]

\* jekv_set_* and jekv_del_key write, jekv_get_* read.
ByHandle   == {"write", "read", "close", "del_group", "get_info", "find_by_handle"}
ByName     == {"init", "deinit", "erase", "open", "status", "find"}
ByIterator == {"next", "info", "data", "release"}

Call == [op : ByName, p : Partition, a : {None}, mode : {"ro", "rw"}]
        \union [op : ByHandle, p : {None}, a : Addr, mode : {"ro"}]
        \union [op : ByIterator, p : {None}, a : Iter, mode : {"ro"}]
        \union {NoCall}

Calls ==
    {[op |-> o, p |-> p, a |-> None, mode |-> "ro"] : o \in Ops \cap ByName, p \in Partition}
    \union {[op |-> o, p |-> p, a |-> None, mode |-> "rw"] :
              o \in Ops \cap {"open"}, p \in Partition}
    \union {[op |-> o, p |-> None, a |-> a, mode |-> "ro"] : o \in Ops \cap ByHandle, a \in Addr}
    \union {[op |-> o, p |-> None, a |-> i, mode |-> "ro"] :
              o \in Ops \cap ByIterator, i \in Iter}

Init ==
    /\ inited = FALSE /\ mutex = "none"
    /\ storages = {} /\ handles = {} /\ heap = [a \in Addr |-> None]
    /\ iters = [i \in Iter |-> None]
    /\ pc = [t \in Thread |-> "idle"]
    /\ call = [t \in Thread |-> NoCall]
    /\ res = [t \in Thread |-> "none"]
    /\ up = FALSE /\ fault = "none"

-----------------------------------------------------------------------------
(* Making a call and returning from it *)

Goto(t, where) == pc' = [pc EXCEPT ![t] = where]

Return(t, r) ==
    /\ pc' = [pc EXCEPT ![t] = "idle"]
    /\ res' = [res EXCEPT ![t] = r]
    /\ call' = [call EXCEPT ![t] = NoCall]

Fault(f) == fault' = f /\ UNCHANGED <<inited, mutex, lists, pc, call, res, up>>

\* Where a call begins: the ones that look at something before they take the mutex.
Entry(o) == IF o \in {"init", "deinit", "erase", "del_group"} THEN o ELSE "lock"

\* "init first": nothing is called but jekv_init until one has returned JEKV_ERR_OK,
\* and jekv_erase, which is meant for a partition that is not in use.  The name of a
\* call: it is made while no other is running.
Disciplined(t, c) ==
    /\ "init first" \in Discipline => up \/ c.op \in {"init", "erase"}
    /\ \A u \in Thread \ {t} :
          pc[u] # "idle" => c.op \notin Discipline /\ call[u].op \notin Discipline

Begin(t, c) ==
    /\ pc[t] = "idle" /\ Disciplined(t, c)
    /\ call' = [call EXCEPT ![t] = c]
    /\ res' = [res EXCEPT ![t] = "none"]
    /\ Goto(t, Entry(c.op))
    /\ UNCHANGED <<inited, mutex, lists, up, fault>>

-----------------------------------------------------------------------------
(* jekv_port_mutex_lock and jekv_port_mutex_unlock *)

NoMutex == mutex \in {"none", "deleted"}

\* Mutant: the port has no mutex.
TakeAnyway(t) ==
    /\ pc[t] = "lock" /\ ~ NoMutex
    /\ mutex' = t
    /\ Goto(t, "locked")
    /\ UNCHANGED <<inited, lists, call, res, up, fault>>

Take(t) ==
    /\ pc[t] = "lock" /\ (NoMutex \/ mutex = "free")
    /\ IF NoMutex THEN Fault("nomutex")
       ELSE mutex' = t /\ Goto(t, "locked") /\ UNCHANGED <<inited, lists, call, res, up, fault>>

\* The call is over, except for jekv_deinit, which takes the port down without
\* the mutex, and jekv_erase, which goes on without it.
Unlock(t) ==
    /\ pc[t] = "unlock"
    /\ IF mutex # t THEN Fault("nomutex")
       ELSE /\ mutex' = "free"
            /\ \/ /\ call[t].op \in {"deinit", "erase"}
                  /\ Goto(t, IF call[t].op = "deinit" THEN "unused" ELSE "erased")
                  /\ UNCHANGED <<call, res, up>>
               \/ /\ call[t].op \notin {"deinit", "erase"}
                  /\ Return(t, res[t])
                  /\ up' = (up \/ (call[t].op = "init" /\ res[t] = "ok"))
            /\ UNCHANGED <<inited, lists, fault>>

-----------------------------------------------------------------------------
(* jekv_init *)

\* The port is up: nothing is done for this partition, whatever was for another.
InitAlready(t) ==
    /\ pc[t] = "init" /\ inited
    /\ Return(t, "ok")
    /\ up' = TRUE
    /\ UNCHANGED <<inited, mutex, lists, fault>>

InitPort(t) ==
    /\ pc[t] = "init" /\ ~ inited
    /\ Goto(t, "portinit")
    /\ UNCHANGED <<inited, mutex, lists, call, res, up, fault>>

\* jekv_port_init looks at the flag again, sets it, then creates the mutex; another
\* thread may come between any two of the three.
PortTest(t) ==
    /\ pc[t] = "portinit"
    /\ Goto(t, IF inited THEN "lock" ELSE "setflag")
    /\ UNCHANGED <<inited, mutex, lists, call, res, up, fault>>

PortFlag(t) ==
    /\ pc[t] = "setflag"
    /\ inited' = TRUE
    /\ Goto(t, "create")
    /\ UNCHANGED <<mutex, lists, call, res, up, fault>>

PortMutex(t) ==
    /\ pc[t] = "create"
    /\ mutex' = "free"
    /\ Goto(t, "lock")
    /\ UNCHANGED <<inited, lists, call, res, up, fault>>

\* The call's outcome, with the mutex still held.
Done(t, r) == res' = [res EXCEPT ![t] = r] /\ Goto(t, "unlock")

Locked(t, o) == pc[t] = "locked" /\ call[t].op = o

\* jekv_ptm_init.  A port that was brought up for a partition that cannot be loaded
\* stays up.
PtmInit(t) ==
    LET p == call[t].p
    IN  /\ Locked(t, "init")
        /\ \/ p \in storages /\ UNCHANGED storages /\ Done(t, "already")
           \/ p \in Broken \ storages /\ UNCHANGED storages /\ Done(t, "fail")
           \/ p \notin Broken \union storages /\ storages' = storages \union {p} /\ Done(t, "ok")
        /\ UNCHANGED <<inited, mutex, handles, heap, iters, call, up, fault>>

-----------------------------------------------------------------------------
(* jekv_deinit *)

DeinitRefused(t) ==
    /\ \/ pc[t] = "deinit" /\ storages = {}
       \/ pc[t] = "in_use" /\ ~ inited
    /\ Return(t, "fail")
    /\ UNCHANGED <<inited, mutex, lists, up, fault>>

\* jekv_ptm_is_in_using, then jekv_port_is_init.
DeinitBegin(t) ==
    /\ \/ pc[t] = "deinit" /\ storages # {} /\ Goto(t, "in_use")
       \/ pc[t] = "in_use" /\ inited /\ Goto(t, "lock")
    /\ UNCHANGED <<inited, mutex, lists, call, res, up, fault>>

\* Mutant: the handles of the partition stay open.
PtmDeinitOnly(t) ==
    LET p == call[t].p
    IN  /\ Locked(t, "deinit")
        /\ IF p \notin storages THEN UNCHANGED <<lists, up>> /\ Done(t, "notfound")
           ELSE /\ storages' = storages \ {p} /\ up' = FALSE
                /\ UNCHANGED <<handles, heap, iters>>
                /\ Done(t, "ok")
        /\ UNCHANGED <<inited, mutex, call, fault>>

\* jekv_ptm_deinit: the handles of the partition are closed with it.  Nothing is done
\* about its iterators.
PtmDeinit(t) ==
    LET p   == call[t].p
        its == {a \in handles : heap[a].p = p}
    IN  /\ Locked(t, "deinit")
        /\ IF p \notin storages THEN UNCHANGED <<lists, up>> /\ Done(t, "notfound")
           ELSE /\ storages' = storages \ {p} /\ up' = FALSE
                /\ handles' = handles \ its
                /\ heap' = [a \in Addr |-> IF a \in its THEN None ELSE heap[a]]
                /\ iters' = [i \in Iter |-> IF iters[i] = p THEN "gone" ELSE iters[i]]
                /\ Done(t, "ok")
        /\ UNCHANGED <<inited, mutex, call, fault>>

\* The port is taken down when no partition is in use any more, and it is up.
PortStays(t) ==
    /\ \/ pc[t] = "unused" /\ storages # {}
       \/ pc[t] = "portdeinit" /\ ~ inited
    /\ Return(t, res[t])
    /\ UNCHANGED <<inited, mutex, lists, up, fault>>

PortDeinit(t) ==
    /\ \/ pc[t] = "unused" /\ storages = {} /\ Goto(t, "portdeinit")
       \/ pc[t] = "portdeinit" /\ inited /\ Goto(t, "clearflag")
    /\ UNCHANGED <<inited, mutex, lists, call, res, up, fault>>

\* Mutant: the flag stays set.
PortKeepsFlag(t) ==
    /\ pc[t] = "clearflag"
    /\ Goto(t, "delete")
    /\ UNCHANGED <<inited, mutex, lists, call, res, up, fault>>

\* jekv_port_deinit clears its flag, deletes the mutex and forgets it.
PortUnflag(t) ==
    /\ pc[t] = "clearflag"
    /\ inited' = FALSE
    /\ Goto(t, "delete")
    /\ UNCHANGED <<mutex, lists, call, res, up, fault>>

\* Mutant: the mutex is kept.
PortKeepsMutex(t) ==
    /\ pc[t] = "delete"
    /\ Return(t, res[t])
    /\ UNCHANGED <<inited, mutex, lists, up, fault>>

PortDelete(t) ==
    /\ pc[t] = "delete"
    /\ IF NoMutex THEN Fault("nomutex")
       ELSE /\ mutex' = "deleted"
            /\ Goto(t, "forget")
            /\ UNCHANGED <<inited, lists, call, res, up, fault>>

PortForget(t) ==
    /\ pc[t] = "forget"
    /\ mutex' = "none"
    /\ Return(t, res[t])
    /\ UNCHANGED <<inited, lists, up, fault>>

-----------------------------------------------------------------------------
(* jekv_erase *)

EraseBegin(t) ==
    /\ pc[t] = "erase" /\ storages # {}
    /\ Goto(t, "lock")
    /\ UNCHANGED <<inited, mutex, lists, call, res, up, fault>>

\* jekv_ptm_find_storage
EraseFind(t) ==
    /\ Locked(t, "erase")
    /\ Done(t, IF call[t].p \in storages THEN "busy" ELSE "notfound")
    /\ UNCHANGED <<inited, mutex, lists, call, up, fault>>

EraseBusy(t) ==
    /\ pc[t] = "erased" /\ res[t] = "busy"
    /\ Return(t, "fail")
    /\ UNCHANGED <<inited, mutex, lists, up, fault>>

\* What is left to do is done through the storage that was not found.
EraseNoStorage(t) ==
    /\ \/ pc[t] = "erase" /\ storages = {}
       \/ pc[t] = "erased" /\ res[t] = "notfound"
    /\ Fault("null")

-----------------------------------------------------------------------------
(* Handles *)

HandlesFull == Cardinality(handles) >= MaxHandles

\* jekv_handler_open
NewHandle(c) == [p |-> c.p, mode |-> c.mode]

\* jekv_ptm_open_handle.  Opening the group may fail, for want of space to write a new one.
Open(t) ==
    LET c == call[t]
        refused == IF storages = {} THEN "notinit" ELSE IF HandlesFull THEN "fail"
                   ELSE IF c.p \notin storages THEN "notfound" ELSE "no"
    IN  /\ Locked(t, "open")
        /\ \/ /\ Done(t, IF refused = "no" THEN "nospace" ELSE refused)
              /\ UNCHANGED <<handles, heap>>
           \/ \E a \in Addr :
                 /\ refused = "no" /\ heap[a] = None
                 /\ heap' = [heap EXCEPT ![a] = NewHandle(c)]
                 /\ handles' = handles \union {a}
                 /\ Done(t, "ok")
        /\ UNCHANGED <<inited, mutex, storages, iters, call, up, fault>>

\* Mutant: any pointer is taken for a handle.
AnyPointer(a) == TRUE

\* jekv_ptm_is_handle_valid: the address is looked up, never followed.
Valid(a) == a \in handles

\* What a call reads behind a handle is allocated: the handle itself, and its storage.
Readable(a) == heap[a] # None /\ heap[a].p \in storages

Close(t) ==
    LET a == call[t].a
    IN  /\ Locked(t, "close")
        /\ IF Valid(a)
           THEN /\ handles' = handles \ {a}
                /\ heap' = [heap EXCEPT ![a] = None]
                /\ Done(t, "ok")
           ELSE UNCHANGED <<handles, heap>> /\ Done(t, "badhandle")
        /\ UNCHANGED <<inited, mutex, storages, iters, call, up, fault>>

\* A call that reads or writes items, but for jekv_get_info: the handle is looked up first.
UseItem(t) ==
    LET a == call[t].a
        refused == IF ~ Valid(a) THEN "badhandle"
                   ELSE IF call[t].op # "read" /\ heap[a].mode = "ro" THEN "readonly" ELSE "ok"
    IN  /\ pc[t] = "locked" /\ call[t].op \in {"write", "read", "del_group"}
        /\ IF Valid(a) /\ ~ Readable(a) THEN Fault("freed")
           ELSE Done(t, refused) /\ UNCHANGED <<inited, mutex, lists, call, up, fault>>

\* jekv_del_group reads h->valid before it takes the mutex.
DelGroup(t) ==
    /\ pc[t] = "del_group"
    /\ IF heap[call[t].a] = None THEN Fault("freed")
       ELSE Goto(t, "lock") /\ UNCHANGED <<inited, mutex, lists, call, res, up, fault>>

\* jekv_get_info does not look whether the handle is one.
GetInfo(t) ==
    /\ Locked(t, "get_info")
    /\ IF ~ Readable(call[t].a) THEN Fault("freed")
       ELSE Done(t, "ok") /\ UNCHANGED <<inited, mutex, lists, call, up, fault>>

\* Mutant: an early return past the unlock.
StatusEarly(t) ==
    /\ Locked(t, "status")
    /\ IF call[t].p \in storages THEN Done(t, "ok") /\ UNCHANGED call ELSE Return(t, "notinit")
    /\ UNCHANGED <<inited, mutex, lists, up, fault>>

\* jekv_get_status, and likewise jekv_print, which frees its iterator before it is done.
Status(t) ==
    /\ Locked(t, "status")
    /\ Done(t, IF call[t].p \in storages THEN "ok" ELSE "notinit")
    /\ UNCHANGED <<inited, mutex, lists, call, up, fault>>

-----------------------------------------------------------------------------
(* Iterators *)

\* iterator_find: the new iterator points to the storage it was found in.  With nothing
\* to answer it is freed again.
NewIterator(t, p) ==
    /\ \/ Done(t, "notfound") /\ UNCHANGED iters
       \/ \E i \in Iter : /\ iters[i] = None
                         /\ iters' = [iters EXCEPT ![i] = p]
                         /\ Done(t, "ok")
    /\ UNCHANGED <<inited, mutex, storages, handles, heap, call, up, fault>>

\* jekv_entry_find
EntryFind(t) ==
    /\ Locked(t, "find")
    /\ IF call[t].p \in storages THEN NewIterator(t, call[t].p)
       ELSE Done(t, "notinit") /\ UNCHANGED <<inited, mutex, lists, call, up, fault>>

\* jekv_entry_find_by_handle
EntryFindByHandle(t) ==
    LET a == call[t].a
    IN  /\ Locked(t, "find_by_handle")
        /\ IF ~ Valid(a)
           THEN Done(t, "badhandle") /\ UNCHANGED <<inited, mutex, lists, call, up, fault>>
           ELSE IF Readable(a) THEN NewIterator(t, heap[a].p) ELSE Fault("freed")

\* What jekv_entry_info and jekv_release_iterator, or jekv_entry_next and jekv_entry_data,
\* read through the iterator is allocated.  None of them looks.
IteratorThere(i) == iters[i] # None
StorageThere(i)  == iters[i] \in Partition

\* jekv_entry_next frees the iterator at the end.
EntryNext(t) ==
    LET i == call[t].a
    IN  /\ Locked(t, "next")
        /\ IF ~ StorageThere(i) THEN Fault("freed")
           ELSE /\ \/ Done(t, "ok") /\ UNCHANGED iters
                   \/ Done(t, "notfound") /\ iters' = [iters EXCEPT ![i] = None]
                /\ UNCHANGED <<inited, mutex, storages, handles, heap, call, up, fault>>

\* jekv_entry_info and jekv_entry_data
EntryRead(t) ==
    LET i == call[t].a
    IN  /\ pc[t] = "locked" /\ call[t].op \in {"info", "data"}
        /\ IF ~ (IF call[t].op = "info" THEN IteratorThere(i) ELSE StorageThere(i))
           THEN Fault("freed")
           ELSE Done(t, "ok") /\ UNCHANGED <<inited, mutex, lists, call, up, fault>>

\* jekv_release_iterator
Release(t) ==
    LET i == call[t].a
    IN  /\ Locked(t, "release")
        /\ IF ~ IteratorThere(i) THEN Fault("freed")
           ELSE /\ Done(t, "ok") /\ iters' = [iters EXCEPT ![i] = None]
                /\ UNCHANGED <<inited, mutex, storages, handles, heap, call, up, fault>>

-----------------------------------------------------------------------------
(* The specification *)

Outside(t) ==
    \/ InitAlready(t) \/ InitPort(t) \/ PortTest(t) \/ PortFlag(t) \/ PortMutex(t)
    \/ DeinitRefused(t) \/ DeinitBegin(t) \/ PortStays(t) \/ PortDeinit(t)
    \/ PortUnflag(t) \/ PortDelete(t) \/ PortForget(t)
    \/ EraseBegin(t) \/ EraseBusy(t) \/ EraseNoStorage(t) \/ DelGroup(t)

Inside(t) ==
    \/ PtmInit(t) \/ PtmDeinit(t) \/ EraseFind(t) \/ Open(t) \/ Close(t)
    \/ UseItem(t) \/ GetInfo(t) \/ Status(t)
    \/ EntryFind(t) \/ EntryFindByHandle(t) \/ EntryNext(t) \/ EntryRead(t) \/ Release(t)

Run(t) == fault = "none" /\ (Outside(t) \/ Take(t) \/ Inside(t) \/ Unlock(t))

Next == \E t \in Thread : \/ Run(t)
                          \/ fault = "none" /\ \E c \in Calls : Begin(t, c)

Spec == Init /\ [][Next]_avars

\* A thread in a call goes on; the semaphore is given to its waiters in turn.
FairSpec == Spec /\ \A t \in Thread : WF_avars(Run(t)) /\ SF_avars(fault = "none" /\ Take(t))

-----------------------------------------------------------------------------
(* Properties *)

\* Every variable keeps to the data the code's types can hold.
TypeOK ==
    /\ inited \in BOOLEAN /\ up \in BOOLEAN
    /\ mutex \in {"none", "deleted", "free"} \union Thread
    /\ storages \subseteq Partition /\ handles \subseteq Addr
    /\ heap \in [Addr -> Handle \union {None}]
    /\ iters \in [Iter -> Partition \union {"gone", None}]
    /\ pc \in [Thread -> {"idle", "init", "portinit", "setflag", "create", "deinit", "in_use",
                          "unused", "portdeinit", "clearflag", "delete", "forget",
                          "erase", "erased", "del_group", "lock", "locked", "unlock"}]
    /\ call \in [Thread -> Call]
    /\ res \in [Thread -> {"none", "ok", "already", "fail", "notfound", "notinit", "busy",
                           "nospace", "badhandle", "readonly"}]
    /\ fault \in {"none", "nomutex", "null", "freed"}

\* The global mutex does what it is there for: no two calls work on the lists, or on
\* the flash, at a time.
OneAtATime == \A t, u \in Thread : pc[t] \in {"locked", "unlock"} /\ pc[u] \in {"locked", "unlock"}
                                   => t = u

\* The handles in the list are the ones allocated, each of a partition in use: a
\* jekv_deinit leaves no handle behind that would lead to a freed storage.
HandlesAttached ==
    /\ handles = {a \in Addr : heap[a] # None}
    /\ \A a \in handles : heap[a].p \in storages

\* The flag of the port and its mutex come and go together, as seen between an init
\* and a deinit, and there is no partition in use without them.
PortWhole ==
    (\A t \in Thread : pc[t] \notin {"create", "delete", "forget"})
    => (inited <=> ~ NoMutex) /\ (storages # {} => inited)

\* Every call finds the mutex it takes and gives.
MutexIsThere == fault # "nomutex"

\* No call reads a handle, a storage or an iterator that was freed, except in three
\* cases: jekv_del_group and jekv_get_info follow a handle before, or without, looking it
\* up and may so follow one that was closed, any call on an iterator follows it when it was
\* released or ran to its end, and jekv_entry_next and jekv_entry_data follow one whose
\* partition has been deinitialised since it was found.
NothingFreedIsRead ==
    fault = "freed" =>
        \E t \in Thread :
            LET o == call[t].op  a == call[t].a
            IN  /\ pc[t] \in {"locked", "del_group"}
                /\ \/ o \in {"del_group", "get_info"} /\ a \notin handles
                   \/ o \in ByIterator /\ iters[a] = None
                   \/ o \in {"next", "data"} /\ iters[a] = "gone"

\* jekv_erase has a partition to erase.
EraseHasPartition == fault # "null"

\* jekv_init returns JEKV_ERR_OK only with the partition initialised.
InitOkIsInit ==
    [][\A t \in Thread : call[t].op = "init" /\ pc[t] # "idle" /\ pc'[t] = "idle"
                         /\ res'[t] = "ok" => call[t].p \in storages]_avars

\* Every call returns, unless the program is over: none of its ways out keeps the mutex.
CallsReturn == \A t \in Thread : pc[t] # "idle" ~> pc[t] = "idle" \/ fault # "none"

-----------------------------------------------------------------------------
(* The inductive invariant behind OneAtATime, MutexIsThere and PortWhole *)

\* A call that the application keeps apart from others runs by itself.
Apart ==
    \A t, u \in Thread :
        t # u /\ pc[t] # "idle" /\ pc[u] # "idle" => call[t].op \notin Discipline

\* A thread is inside a call's own steps only in that call.
InItsCall(t) ==
    /\ pc[t] \in {"init", "portinit", "setflag", "create"} => call[t].op = "init"
    /\ pc[t] \in {"deinit", "in_use", "unused", "portdeinit", "clearflag", "delete", "forget"}
           => call[t].op = "deinit"
    /\ pc[t] \in {"erase", "erased"} => call[t].op = "erase"
    /\ pc[t] = "del_group" => call[t].op = "del_group"

\* What a thread on its way through jekv_init or jekv_deinit may rely on.
PortSteps(t) ==
    /\ pc[t] \in {"portinit", "setflag"} => ~ inited
    /\ pc[t] = "create" => inited /\ storages = {} /\ ~ up
    /\ pc[t] \in {"portdeinit", "clearflag", "delete", "forget"} => storages = {} /\ ~ up
    /\ pc[t] \in {"delete", "forget"} => ~ inited
    /\ pc[t] = "clearflag" => inited
    /\ pc[t] = "delete" => ~ NoMutex
    /\ call[t].op = "deinit" /\ pc[t] \in {"in_use", "lock", "locked"} => storages # {}
    /\ call[t].op = "deinit" /\ pc[t] \in {"unlock", "unused"} /\ up => storages # {}

\* A thread has the mutex, or finds it.
HasMutex(t) ==
    /\ pc[t] \in {"locked", "unlock"} => mutex = t
    /\ pc[t] \in {"lock", "del_group"} => ~ NoMutex

DisciplineInv ==
    /\ TypeOK /\ HandlesAttached /\ Apart /\ PortWhole
    /\ \A t \in Thread : InItsCall(t) /\ PortSteps(t) /\ HasMutex(t)
    /\ up => inited /\ ~ NoMutex
    /\ MutexIsThere
=============================================================================
