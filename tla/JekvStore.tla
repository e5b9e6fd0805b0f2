------------------------------ MODULE JekvStore ------------------------------
(***************************************************************************)
(* The storage engine of one partition: src/jekv_sector_manager.c and the  *)
(* items of at most one sector of src/jekv_storage.c (every type but       *)
(* blobs), on top of the sectors of JekvSector.  The public API takes a    *)
(* global mutex around each call, so calls run one at a time; what         *)
(* interleaves with them is a power failure.  Every step of this module    *)
(* programs or erases flash at most once, and PowerOff may come between    *)
(* any two of them, or tear the one that is about to be made.              *)
(***************************************************************************)
EXTENDS JekvSector, SequencesExt

CONSTANTS
    NoValue,    \* what a lookup of an absent key answers
    MaxSerial,  \* bound: no call starts once the next serial number exceeds it
    MaxCrash    \* bound: power failures of a behaviour

ASSUME NoValueAssumption == NoValue \notin Keys /\ NoValue \notin Values

VARIABLES
    \* in flash
    flash,      \* [Sector -> FlashSector]
    \* in RAM, lost when power fails
    ram,        \* [Sector -> RamSector], jekv_sector_manager_t.sec_arr
    active,     \* jekv_sector_manager_t.active, in list order
    idle,       \* jekv_sector_manager_t.idle, in list order
    serial,     \* jekv_sector_manager_t.serial_number
    pc,         \* where the running call is; "ready" between calls, "off" without power
    op,         \* the set call being served, and the item it found
    gc,         \* the garbage collection being done
    \* history, read by no action
    res,        \* how the last set call returned
    lost,       \* the keys hit by one of the hazards named below
    crashes     \* power failures so far

loaded == <<ram, active, idle, serial>>
vars   == <<flash, ram, active, idle, serial, pc, op, gc, res, lost, crashes>>

NoOp == [k |-> NoValue, v |-> NoValue, found |-> FALSE, sec |-> 0, at |-> 0, old |-> NoValue,
         retry |-> FALSE]
NoGc == [src |-> 0, dst |-> 0, i |-> 0, d |-> 0, rec |-> FALSE]

-----------------------------------------------------------------------------
(* Lists and lookups *)

\* dl_list_del
Unlink(list, s) == RemoveAt(list, CHOOSE i \in DOMAIN list : list[i] = s)

\* jekv_sm_get_current_sector
Cur == Last(active)

Types == {TypeOf[v] : v \in Values}

\* jekv_sm_find_item: the first active sector with a match, and the match at its
\* lowest slice.
FindItem(k, ts) ==
    LET Has == {n \in DOMAIN active : Matches(flash[active[n]], ram[active[n]], k, ts) # {}}
    IN  IF Has = {} THEN [found |-> FALSE, sec |-> 0, i |-> 0]
        ELSE LET s == active[LeastOf(Has)]
             IN  [found |-> TRUE, sec |-> s, i |-> LeastOf(Matches(flash[s], ram[s], k, ts))]

FoundItem(f) == flash[f.sec].log[f.i]

\* The list sm_load_sectors makes of the sectors in S: by serial number, and by address
\* among equals.  There is exactly one.
InOrder(S, sn) ==
    {list \in [1 .. Cardinality(S) -> S] :
        \A m, n \in DOMAIN list : m < n =>
            \/ sn[list[m]] < sn[list[n]]
            \/ sn[list[m]] = sn[list[n]] /\ list[m] < list[n]}

-----------------------------------------------------------------------------
(* Steps shared by writing, collecting and recovering *)

\* Mutant: the serial number is used again.
ActivateUnnumbered ==
    LET s == Head(idle)
        bad == ram[s].st = "crash"
    IN  /\ flash' = IF bad THEN [flash EXCEPT ![s] = Blank] ELSE flash
        /\ ram' = [ram EXCEPT ![s] = [(IF bad THEN Unloaded ELSE @) EXCEPT !.sn = serial]]
        /\ active' = Append(active, s)
        /\ idle' = Tail(idle)
        /\ UNCHANGED serial

\* sm_active_sector: take the first idle sector, erase it if it is a crashed one,
\* number it and append it to the active list.
Activate ==
    LET s == Head(idle)
        bad == ram[s].st = "crash"
    IN  /\ flash' = IF bad THEN [flash EXCEPT ![s] = Blank] ELSE flash
        /\ ram' = [ram EXCEPT ![s] = [(IF bad THEN Unloaded ELSE @) EXCEPT !.sn = serial]]
        /\ serial' = serial + 1
        /\ active' = Append(active, s)
        /\ idle' = Tail(idle)

\* jekv_sector_init: program the header of an erased sector.
InitSector(s) ==
    /\ flash' = [flash EXCEPT ![s].hdr = "using", ![s].sn = ram[s].sn]
    /\ ram' = [ram EXCEPT ![s] = [Unloaded EXCEPT !.st = "using", !.sn = ram[s].sn,
                                                  !.hash = ram[s].hash]]

\* jekv_sector_set_state
SetState(s, st) ==
    /\ flash' = [flash EXCEPT ![s].hdr = st]
    /\ ram' = [ram EXCEPT ![s].st = st]

\* Mutant: the erased sector is in neither list.
EraseToNowhere(s) ==
    /\ flash' = [flash EXCEPT ![s] = Blank]
    /\ ram' = [ram EXCEPT ![s] = [Unloaded EXCEPT !.sn = ram[s].sn]]
    /\ active' = Unlink(active, s)
    /\ UNCHANGED <<idle, serial>>

\* The second half of jekv_sector_erase, with the sector's move to the idle list.
EraseToIdle(s) ==
    /\ flash' = [flash EXCEPT ![s] = Blank]
    /\ ram' = [ram EXCEPT ![s] = [Unloaded EXCEPT !.sn = ram[s].sn]]
    /\ active' = Unlink(active, s)
    /\ idle' = Append(idle, s)
    /\ UNCHANGED serial

\* The item header that the next step programs, in sector s at slice `at'.
WriteHeader(s, it) ==
    flash' = [flash EXCEPT ![s].log = Append(@, HeaderWritten(flash[s], it))]

\* Mutants: the item is not entered in the hash table; one slice is counted for it.
AccountUnhashed(s, it) ==
    ram' = [ram EXCEPT ![s].next = @ + it.span, ![s].used = Count(@ + it.span)]

AccountOneSlice(s, it) ==
    ram' = [ram EXCEPT ![s].next = @ + it.span, ![s].used = Count(@ + 1),
                       ![s].hash = @ \union {it.at}]

\* Its data, and the bookkeeping of jekv_sector_write_item / jekv_sector_copy.
\* jekv_hash_append comes last; nothing reads the table in between.
Account(s, it) ==
    ram' = [ram EXCEPT ![s].next = @ + it.span, ![s].used = Count(@ + it.span),
                       ![s].hash = @ \union {it.at}]

WriteData(s) ==
    LET n == Len(flash[s].log)
    IN  /\ \E st \in DataWritten(flash[s], flash[s].log[n]) :
              flash' = [flash EXCEPT ![s].log[n].st = st]
        /\ Account(s, flash[s].log[n])

\* jekv_sector_erase_item
DropItem(s, at, span) ==
    /\ flash' = [flash EXCEPT ![s] = DropAt(@, at)]
    /\ ram' = [ram EXCEPT ![s].droped = Count(@ + span), ![s].hash = @ \ {at}]

Return(r) == pc' = "ready" /\ res' = r /\ op' = NoOp

-----------------------------------------------------------------------------
(* jekv_storage_write_item *)

\* Look the key up and return at once if it already has the value.
SetSame(k, v) ==
    LET f == FindItem(k, Types)
    IN  /\ pc = "ready"
        /\ f.found /\ FoundItem(f).val = v /\ FoundItem(f).st = "using"
        /\ res' = "ok"
        /\ UNCHANGED <<flash, loaded, pc, op, gc, lost, crashes>>

\* Mutant: only an item of the new value's type is looked for.
SetBeginTyped(k, v) ==
    LET f == FindItem(k, {TypeOf[v]})
    IN  /\ pc = "ready" /\ serial <= MaxSerial
        /\ ~ (f.found /\ FoundItem(f).val = v /\ FoundItem(f).st = "using")
        /\ op' = [k |-> k, v |-> v, found |-> f.found, sec |-> f.sec,
                  at  |-> IF f.found THEN FoundItem(f).at ELSE 0,
                  old |-> IF f.found THEN FoundItem(f).val ELSE NoValue, retry |-> FALSE]
        /\ pc' = "write" /\ res' = "none"
        /\ UNCHANGED <<flash, loaded, gc, lost, crashes>>

SetBegin(k, v) ==
    LET f == FindItem(k, Types)
    IN  /\ pc = "ready" /\ serial <= MaxSerial
        /\ ~ (f.found /\ FoundItem(f).val = v /\ FoundItem(f).st = "using")
        /\ op' = [k |-> k, v |-> v, found |-> f.found, sec |-> f.sec,
                  at  |-> IF f.found THEN FoundItem(f).at ELSE 0,
                  old |-> IF f.found THEN FoundItem(f).val ELSE NoValue, retry |-> FALSE]
        /\ pc' = "write" /\ res' = "none"
        /\ UNCHANGED <<flash, loaded, gc, lost, crashes>>

\* jekv_sector_write_item into the current sector: its header first if it has none.
WriteInit ==
    /\ pc = "write" /\ ram[Cur].st = "uninit"
    /\ InitSector(Cur)
    /\ UNCHANGED <<active, idle, serial, pc, op, gc, res, lost, crashes>>

WriteTooLong ==
    /\ pc = "write" /\ ram[Cur].st # "uninit"
    /\ SpanOf[op.v] > Slices
    /\ Return("toolong")
    /\ UNCHANGED <<flash, loaded, gc, lost, crashes>>

CanWrite == /\ pc = "write" /\ ram[Cur].st # "uninit"
            /\ SpanOf[op.v] <= Slices /\ HasRoom(ram[Cur], SpanOf[op.v])

\* Programming over stale bytes is a hazard: whatever the key was, it is not
\* readable, or not with its value, afterwards.
OverStale(s, at, span) ==
    NorFlash /\ (at .. at + span - 1) \cap flash[s].stale # {}

WriteItem ==
    LET it == NewItem(ram[Cur].next, op.k, op.v)
    IN  /\ CanWrite
        /\ WriteHeader(Cur, it)
        /\ IF it.span = 1 THEN Account(Cur, it) /\ pc' = "eraseold"
                          ELSE UNCHANGED ram /\ pc' = "data"
        /\ lost' = lost \union (IF OverStale(Cur, it.at, it.span) THEN {op.k} ELSE {})
        /\ UNCHANGED <<active, idle, serial, op, gc, res, crashes>>

WriteItemData ==
    /\ pc = "data"
    /\ WriteData(Cur)
    /\ pc' = "eraseold"
    /\ UNCHANGED <<active, idle, serial, op, gc, res, lost, crashes>>

\* JEKV_ERR_SECTOR_FULL for the second time is returned to the caller.
WriteFull ==
    /\ pc = "write" /\ ram[Cur].st # "uninit" /\ SpanOf[op.v] <= Slices
    /\ ~ HasRoom(ram[Cur], SpanOf[op.v])
    /\ op.retry
    /\ Return("full")
    /\ UNCHANGED <<flash, loaded, gc, lost, crashes>>

\* The old item is erased where the lookup found it.  It is a hazard if garbage
\* collection has moved it since: the copy stays, and the byte is written into a
\* sector that has been erased.
EraseOld ==
    LET stale == ~ \E i \in LiveAt(flash[op.sec].log) : flash[op.sec].log[i].at = op.at
    IN  /\ pc = "eraseold"
        /\ IF op.found THEN DropItem(op.sec, op.at, SpanOf[op.old]) ELSE UNCHANGED <<flash, ram>>
        /\ lost' = lost \union (IF op.found /\ stale THEN {op.k} ELSE {})
        /\ Return("ok")
        /\ UNCHANGED <<active, idle, serial, gc, crashes>>

-----------------------------------------------------------------------------
(* jekv_sm_request_sector and sm_garbage_collection *)

\* The first write did not fit.  The reserve is never gone by then, ReserveAtHand, so
\* the code's answer to an empty idle list has no action here.
NeedSector == /\ pc = "write" /\ ram[Cur].st # "uninit" /\ SpanOf[op.v] <= Slices
              /\ ~ HasRoom(ram[Cur], SpanOf[op.v])
              /\ ~ op.retry

\* Mutant: the reserve is taken too.
RequestReserve ==
    /\ NeedSector /\ Len(idle) >= 1
    /\ Activate
    /\ op' = [op EXCEPT !.retry = TRUE]
    /\ UNCHANGED <<pc, gc, res, lost, crashes>>

RequestIdle ==
    /\ NeedSector /\ Len(idle) > 1
    /\ Activate
    /\ op' = [op EXCEPT !.retry = TRUE]
    /\ UNCHANGED <<pc, gc, res, lost, crashes>>

\* The active sector with the most to reclaim, the first one among equals.
Dirtiest ==
    LET best == MostOf({GcSize(ram[s]) : s \in Range(active)})
    IN  active[LeastOf({n \in DOMAIN active : GcSize(ram[active[n]]) = best})]

\* Mutant: collection is done whatever it reclaims.
GcAlways == TRUE

GcPays == GcSize(ram[Dirtiest]) >= SpanOf[op.v]

RequestNoSpace ==
    /\ NeedSector /\ Len(idle) = 1 /\ ~ GcPays
    /\ Return("nospace")
    /\ UNCHANGED <<flash, loaded, gc, lost, crashes>>

\* A sector that load put back on the idle list with its header needs no new one.
GcStart ==
    /\ NeedSector /\ Len(idle) = 1 /\ GcPays
    /\ Activate
    /\ gc' = [src |-> Dirtiest, dst |-> Head(idle), i |-> 1, d |-> 0, rec |-> FALSE]
    /\ pc' = IF ram'[Head(idle)].st = "uninit" THEN "gcinit" ELSE "gcmark"
    /\ op' = [op EXCEPT !.retry = TRUE]
    /\ UNCHANGED <<res, lost, crashes>>

\* STEP1
GcInit ==
    /\ pc = "gcinit"
    /\ InitSector(gc.dst)
    /\ pc' = IF gc.rec THEN "gccopy" ELSE "gcmark"
    /\ UNCHANGED <<active, idle, serial, op, gc, res, lost, crashes>>

\* STEP2
GcMark ==
    /\ pc = "gcmark"
    /\ SetState(gc.src, "deleting")
    /\ pc' = "gccopy"
    /\ UNCHANGED <<active, idle, serial, op, gc, res, lost, crashes>>

\* Mutant: one item too many is skipped.
ToCopyNext == {i \in LiveAt(flash[gc.src].log) : i > gc.i}

\* STEP3, jekv_sector_copy: the next live item of the source, as it stands there.
ToCopy == {i \in LiveAt(flash[gc.src].log) : i >= gc.i}

Copied == LET it == flash[gc.src].log[LeastOf(ToCopy)]
          IN  [it EXCEPT !.at = gc.d]

GcCopy ==
    /\ pc = "gccopy" /\ ToCopy # {}
    /\ WriteHeader(gc.dst, Copied)
    /\ IF Copied.span = 1
       THEN /\ Account(gc.dst, Copied) /\ pc' = pc
            /\ gc' = [gc EXCEPT !.i = LeastOf(ToCopy) + 1, !.d = @ + 1]
       ELSE pc' = "gcdata" /\ UNCHANGED <<ram, gc>>
    /\ lost' = lost \union (IF OverStale(gc.dst, Copied.at, Copied.span)
                            THEN {Copied.key} ELSE {})
    /\ UNCHANGED <<active, idle, serial, op, res, crashes>>

GcCopyData ==
    /\ pc = "gcdata"
    /\ WriteData(gc.dst)
    /\ gc' = [gc EXCEPT !.i = LeastOf(ToCopy) + 1, !.d = @ + Copied.span]
    /\ pc' = "gccopy"
    /\ UNCHANGED <<active, idle, serial, op, res, lost, crashes>>

\* Mutant: the collection does not get past marking the source.
GcCrashAgain ==
    /\ pc = "gccopy" /\ ToCopy = {}
    /\ SetState(gc.src, "crash")
    /\ UNCHANGED <<pc, active, idle, serial, op, gc, res, lost, crashes>>

\* STEP4, jekv_sector_erase in its two flash operations.
GcCrash ==
    /\ pc = "gccopy" /\ ToCopy = {}
    /\ SetState(gc.src, "crash")
    /\ pc' = "gcerase"
    /\ UNCHANGED <<active, idle, serial, op, gc, res, lost, crashes>>

GcErase ==
    /\ pc = "gcerase"
    /\ EraseToIdle(gc.src)
    /\ gc' = NoGc
    /\ pc' = IF gc.rec THEN "finish" ELSE "write"
    /\ UNCHANGED <<op, res, lost, crashes>>

-----------------------------------------------------------------------------
(* jekv_storage_del_item: one byte of flash *)

Delete(k) ==
    LET f == FindItem(k, Types)
    IN  /\ pc = "ready" /\ f.found
        /\ DropItem(f.sec, FoundItem(f).at, FoundItem(f).span)
        /\ UNCHANGED <<active, idle, serial, pc, op, gc, res, lost, crashes>>

\* jekv_storage_read_item, with the type the caller asks for, changes nothing: what
\* it answers is FindItem(k, {t}).
Get(k, t) == pc = "ready" /\ UNCHANGED vars

-----------------------------------------------------------------------------
(* jekv_sm_load *)

\* sm_load_sectors.  The only flash it programs is the state byte of an item with
\* a broken header, and, with no sector in use, the erasure of an idle one.
Load ==
    LET st(s) == LoadStatus(flash[s])
        used  == {s \in Sector : IsUsed(st(s))}
        fl    == [s \in Sector |-> LoadFlash(flash[s])]
        rm    == [s \in Sector |-> LoadRam(flash[s])]
    IN  /\ pc = "off"
        /\ \E sorted \in InOrder(used, [s \in Sector |-> flash[s].sn]),
              rest \in InOrder(Sector \ used, [s \in Sector |-> 0]) :
              IF used # {}
              THEN /\ flash' = fl /\ ram' = rm
                   /\ active' = sorted /\ idle' = rest
                   /\ serial' = flash[Last(sorted)].sn + 1
              ELSE LET s == Head(rest)
                   IN  /\ flash' = IF st(s) = "crash" THEN [fl EXCEPT ![s] = Blank] ELSE fl
                       /\ ram' = [rm EXCEPT ![s] = [Unloaded EXCEPT !.sn = 1]]
                       /\ active' = <<s>> /\ idle' = Tail(rest)
                       /\ serial' = 2
        /\ pc' = "checkwrite"
        /\ UNCHANGED <<op, gc, res, lost, crashes>>

\* Mutant: the first item is taken for the last.
FirstItem == LeastOf(LiveAt(flash[Cur].log))

\* sm_check_imcomplete_write: what the last item of the last sector asks for.
LastItem == MostOf(LiveAt(flash[Cur].log))

\* The sector and log position of the first earlier item of the same key and type;
\* in the last sector only its lowest match is looked at.
OldCopies ==
    LET it == flash[Cur].log[LastItem]
        First(s) == LeastOf(Matches(flash[s], ram[s], it.key, {TypeOf[it.val]}))
        Has(s) == /\ Matches(flash[s], ram[s], it.key, {TypeOf[it.val]}) # {}
                  /\ s = Cur => First(s) # LastItem
    IN  {[sec |-> s, i |-> First(s)] :
            s \in {active[n] : n \in {m \in DOMAIN active :
                      /\ Has(active[m])
                      /\ \A j \in 1 .. m - 1 : ~ Has(active[j])}}}

CheckWriteNothing ==
    /\ pc = "checkwrite"
    /\ \/ ram[Cur].st = "uninit"
       \/ LiveAt(flash[Cur].log) = {}
       \/ /\ LiveAt(flash[Cur].log) # {}
          /\ flash[Cur].log[LastItem].st = "using" /\ OldCopies = {}
    /\ pc' = "checkgc"
    /\ UNCHANGED <<flash, loaded, op, gc, res, lost, crashes>>

\* sm_check_item_data
CheckWriteData ==
    LET it == flash[Cur].log[LastItem]
    IN  /\ pc = "checkwrite" /\ ram[Cur].st # "uninit"
        /\ LiveAt(flash[Cur].log) # {} /\ it.st = "nodata"
        /\ DropItem(Cur, it.at, it.span)
        /\ pc' = "checkgc"
        /\ UNCHANGED <<active, idle, serial, op, gc, res, lost, crashes>>

\* The item was written, the one it replaces was not erased.  It is a hazard if
\* that one is the original of an unfinished collection: the copy goes next.
CheckWriteOld ==
    /\ pc = "checkwrite" /\ ram[Cur].st # "uninit"
    /\ LiveAt(flash[Cur].log) # {} /\ flash[Cur].log[LastItem].st = "using"
    /\ \E o \in OldCopies :
          LET it == flash[o.sec].log[o.i]
          IN  /\ DropItem(o.sec, it.at, it.span)
              /\ lost' = lost \union (IF ram[o.sec].st = "deleting" THEN {it.key} ELSE {})
    /\ pc' = "checkgc"
    /\ UNCHANGED <<active, idle, serial, op, gc, res, crashes>>

\* Mutant: only the last sector is looked at.
DeletingLast == {n \in DOMAIN active : n = Len(active) /\ ram[active[n]].st = "deleting"}

\* sm_check_imcomplete_gc
Deleting == {n \in DOMAIN active : ram[active[n]].st = "deleting"}

CheckGcNothing ==
    /\ pc = "checkgc" /\ Deleting = {}
    /\ pc' = "finish"
    /\ UNCHANGED <<flash, loaded, op, gc, res, lost, crashes>>

\* STEP0: the last sector is taken for the half-made copy and erased.  It is a
\* hazard if it holds items the sector being deleted does not.
CheckGcWipe ==
    LET it    == active[LeastOf(Deleting)]
        InSrc(e) == \E i \in LiveAt(flash[it].log) :
                        flash[it].log[i].key = e.key /\ flash[it].log[i].val = e.val
    IN  /\ pc = "checkgc" /\ Deleting # {} /\ ram[Cur].st = "using"
        /\ SetState(Cur, "crash")
        /\ lost' = lost \union {flash[Cur].log[i].key :
                       i \in {j \in LiveAt(flash[Cur].log) : ~ InSrc(flash[Cur].log[j])}}
        /\ pc' = "recerase"
        /\ UNCHANGED <<active, idle, serial, op, gc, res, crashes>>

CheckGcErase ==
    /\ pc = "recerase"
    /\ EraseToIdle(Cur)
    /\ pc' = "recgc"
    /\ UNCHANGED <<op, gc, res, lost, crashes>>

CheckGcKeep ==
    /\ pc = "checkgc" /\ Deleting # {} /\ ram[Cur].st # "using"
    /\ pc' = "recgc"
    /\ UNCHANGED <<flash, loaded, op, gc, res, lost, crashes>>

\* sm_active_sector does not look whether there is an idle sector: ReserveAtHand.
CheckGcStart ==
    /\ pc = "recgc" /\ idle # <<>>
    /\ Activate
    /\ gc' = [src |-> active[LeastOf(Deleting)], dst |-> Head(idle), i |-> 1, d |-> 0,
              rec |-> TRUE]
    /\ pc' = IF ram'[Head(idle)].st = "uninit" THEN "gcinit" ELSE "gccopy"
    /\ UNCHANGED <<op, res, lost, crashes>>

\* The last active sector becomes the reserve if there is no other.
LoadFinish ==
    /\ pc = "finish"
    /\ IF idle = <<>>
       THEN active' = Front(active) /\ idle' = <<Cur>>
       ELSE UNCHANGED <<active, idle>>
    /\ pc' = "ready" /\ op' = NoOp
    /\ UNCHANGED <<flash, ram, serial, gc, res, lost, crashes>>

\* jekv_deinit, down to jekv_sm_unload: everything in RAM is freed, flash is left as it is.
Unload ==
    /\ pc = "ready"
    /\ ram' = [s \in Sector |-> Unloaded]
    /\ active' = <<>> /\ idle' = <<>> /\ serial' = 0
    /\ pc' = "off"
    /\ UNCHANGED <<flash, op, gc, res, lost, crashes>>

-----------------------------------------------------------------------------
(* Power failure *)

\* What the flash program that the running call is about to make may leave behind
\* if it is cut short.  Erasing a sector marked crashed leaves it marked, or
\* unreadable, which is the same to sm_load_sectors; one byte is never torn.
Torn ==
    CASE pc = "write" /\ ram[Cur].st = "uninit" ->
            {flash, [flash EXCEPT ![Cur].hdr = "crash"]}
      [] CanWrite ->
            {[flash EXCEPT ![Cur] = f] :
                f \in HeaderTorn(flash[Cur], NewItem(ram[Cur].next, op.k, op.v))}
      [] pc = "gcinit" ->
            {flash, [flash EXCEPT ![gc.dst].hdr = "crash"]}
      [] pc = "gccopy" /\ ToCopy # {} ->
            {[flash EXCEPT ![gc.dst] = f] : f \in HeaderTorn(flash[gc.dst], Copied)}
      [] OTHER -> {flash}

\* LoadFinish has made the newest sector the reserve: the one that the next start looks
\* into for the last item is not the one that items are written to.
ReserveIsNewest == \E s \in Range(idle) : IsUsed(flash[s].hdr)

\* It is a hazard if it comes between writing the new item and erasing the old one and
\* these differ in type, since recovery looks for an old item of the same type; and if
\* it comes after the new item's header while recovery would not look at that item.
PowerOff ==
    /\ pc # "off" /\ crashes < MaxCrash
    /\ flash' \in Torn
    /\ ram' = [s \in Sector |-> Unloaded]
    /\ active' = <<>> /\ idle' = <<>> /\ serial' = 0
    /\ pc' = "off" /\ gc' = NoGc
    /\ lost' = lost \union
           (IF \/ pc = "eraseold" /\ op.found /\ (TypeOf[op.old] # TypeOf[op.v] \/ ReserveIsNewest)
               \/ pc = "data" /\ ReserveIsNewest
            THEN {op.k} ELSE {})
    /\ crashes' = crashes + 1
    /\ UNCHANGED <<op, res>>

-----------------------------------------------------------------------------
(* The specification *)

\* Flash is erased, or holds what is no jekv sector, before the first call.
Init ==
    /\ flash \in [Sector -> {Blank, [Blank EXCEPT !.hdr = "crash"]}]
    /\ ram = [s \in Sector |-> Unloaded]
    /\ active = <<>> /\ idle = <<>> /\ serial = 0
    /\ pc = "off" /\ op = NoOp /\ gc = NoGc
    /\ res = "none" /\ lost = {} /\ crashes = 0

\* Steps of a call that has begun, or of initialisation.
Step ==
    \/ WriteInit \/ WriteTooLong \/ WriteItem \/ WriteItemData \/ WriteFull \/ EraseOld
    \/ RequestIdle \/ RequestNoSpace
    \/ GcStart \/ GcInit \/ GcMark \/ GcCopy \/ GcCopyData \/ GcCrash \/ GcErase
    \/ Load \/ CheckWriteNothing \/ CheckWriteData \/ CheckWriteOld
    \/ CheckGcNothing \/ CheckGcWipe \/ CheckGcErase \/ CheckGcKeep
    \/ CheckGcStart \/ LoadFinish

Call == \E k \in Keys : \/ \E v \in Values : SetSame(k, v) \/ SetBegin(k, v)
                        \/ Delete(k)
                        \/ \E t \in Types : Get(k, t)

Next == Step \/ Call \/ Unload \/ PowerOff

Spec     == Init /\ [][Next]_vars
\* The thread that made a call runs it to its end.
FairSpec == Spec /\ WF_vars(Step)

-----------------------------------------------------------------------------
(* Properties *)

StoreType ==
    /\ flash \in [Sector -> FlashSector]
    /\ ram \in [Sector -> RamSector]
    /\ active \in Seq(Sector) /\ idle \in Seq(Sector)
    /\ serial \in Nat

ControlType ==
    /\ pc \in {"off", "ready", "write", "data", "eraseold", "gcinit", "gcmark", "gccopy",
               "gcdata", "gcerase", "checkwrite", "checkgc", "recerase", "recgc",
               "finish"}
    /\ op \in [k : Keys \union {NoValue}, v : Values \union {NoValue}, found : BOOLEAN,
               sec : Sector, at : Nat, old : Values \union {NoValue}, retry : BOOLEAN]
    /\ gc \in [src : Sector, dst : Sector, i : Nat, d : Nat, rec : BOOLEAN]
    /\ res \in {"none", "ok", "toolong", "full", "nospace", "notfound"}
    /\ lost \in SUBSET Keys
    /\ crashes \in Nat

\* Every variable keeps to the data the code's types can hold.
TypeOK == StoreType /\ ControlType

\* The complete items of a key in flash, each as its sector and place there, in the order
\* in which the next start would load them.
Readable(k) == UNION {{<<s, i>> : i \in {j \in DOMAIN flash[s].log :
                          flash[s].log[j].key = k /\ flash[s].log[j].st = "using"}}
                        : s \in {t \in Sector : IsUsed(flash[t].hdr)}}

LoadedBefore(c, d) ==
    \/ flash[c[1]].sn < flash[d[1]].sn
    \/ flash[c[1]].sn = flash[d[1]].sn /\ c[1] < d[1]
    \/ c[1] = d[1] /\ c[2] <= d[2]

Foremost(k) == {c \in Readable(k) : \A d \in Readable(k) : LoadedBefore(c, d)}

\* What the flash alone says a key's value is.
Lookup(k) ==
    IF Foremost(k) = {} THEN NoValue
    ELSE LET first == CHOOSE c \in Foremost(k) : TRUE
         IN  flash[first[1]].log[first[2]].val

Idle == pc = "ready"

\* Between calls a lookup through the lists and hash tables in RAM answers what a
\* restart would answer from flash: the two views of jekv_sm_find_item and
\* jekv_sm_load cannot drift apart while calls succeed.
RamAgreesWithFlash ==
    Idle => \A k \in Keys \ lost :
        LET f == FindItem(k, Types)
        IN  Lookup(k) = IF f.found THEN FoundItem(f).val ELSE NoValue

LiveOnce(k) ==
    \A s, t \in Sector : \A i \in LiveAt(flash[s].log), j \in LiveAt(flash[t].log) :
        /\ IsUsed(flash[s].hdr) /\ IsUsed(flash[t].hdr)
        /\ flash[s].log[i].key = k /\ flash[t].log[j].key = k
        => s = t /\ i = j

\* Between calls a key has at most one live item in the whole partition: neither an
\* interrupted overwrite nor an interrupted collection leaves two.
OneLiveItem == Idle => \A k \in Keys \ lost : LiveOnce(k)

\* Between calls every sector is in exactly one list, at least one is idle (the
\* reserve that collection needs), and no idle sector holds live data.
ReserveKept ==
    Idle => /\ \A s \in Sector : Cardinality({n \in DOMAIN active : active[n] = s})
                               + Cardinality({n \in DOMAIN idle : idle[n] = s}) = 1
            /\ idle # <<>> /\ active # <<>>
            /\ \A s \in Range(idle) : IsUsed(flash[s].hdr) => LiveAt(flash[s].log) = {}

\* The order of the active list is the order the serial numbers in flash give, so a
\* restart rebuilds the same list, and no sector is numbered twice.
OrderSurvivesRestart ==
    pc # "off" =>
        /\ \A m, n \in DOMAIN active :
              m < n /\ IsUsed(flash[active[m]].hdr) /\ IsUsed(flash[active[n]].hdr)
              => flash[active[m]].sn < flash[active[n]].sn
        /\ \A s \in Sector : IsUsed(flash[s].hdr) => flash[s].sn < serial

\* At most one sector is ever being collected, and none between calls.
OneDeleting ==
    /\ Cardinality({s \in Sector : flash[s].hdr = "deleting"}) <= 1
    /\ Idle => \A s \in Sector : flash[s].hdr # "deleting"

\* The slice counters that decide where the next item goes and whether collection
\* pays agree with the flash between calls.  The dropped slices are exempt once power
\* has failed: a start counts those of a torn item twice.
CountersAgree ==
    Idle => \A s \in Range(active) : IsUsed(ram[s].st) /\ flash[s].stale = {} =>
        /\ ram[s].st = flash[s].hdr
        /\ ram[s].next = IF LogEnd(flash[s].log) > Slices THEN Slices ELSE LogEnd(flash[s].log)
        /\ ram[s].used = Count(Size(flash[s].log, ItemStatus))
        /\ crashes = 0 => ram[s].droped = Size(flash[s].log, {"droped"})

\* sm_active_sector takes the head of the idle list without looking whether there is
\* one, and jekv_sm_request_sector answers JEKV_ERR_NO_MEM when there is none.  The
\* reserve is at hand at both places, so neither ever happens.
ReserveAtHand == pc = "recgc" \/ NeedSector => idle # <<>>

\* An item is programmed right behind the last one, inside a sector in use and never
\* across its end: no slice is programmed twice between two erasures.
AppendsInPlace ==
    [][\A s \in Sector : Len(flash'[s].log) > Len(flash[s].log) /\ pc # "off" =>
          LET it == flash'[s].log[Len(flash'[s].log)]
          IN  /\ flash[s].hdr = "using" /\ s \in Range(active)
              /\ it.at = LogEnd(flash[s].log)
              /\ it.st \notin {"torn", "droped"} => it.at + it.span <= Slices]_vars

\* A sector is given up only when each of its live items has a live copy elsewhere.
NothingErasedAlive ==
    [][\A s \in Sector : IsUsed(flash[s].hdr) /\ ~ IsUsed(flash'[s].hdr) =>
          \A i \in LiveAt(flash[s].log) :
              flash[s].log[i].key \in lost' \/ flash[s].log[i].st = "nodata" \/
              \E t \in Sector \ {s} : \E j \in LiveAt(flash'[t].log) :
                  /\ IsUsed(flash'[t].hdr)
                  /\ flash'[t].log[j].key = flash[s].log[i].key
                  /\ flash'[t].log[j].val = flash[s].log[i].val]_vars

\* A call that collected, or took, a sector for its item finds room there.
RetryFits ==
    pc = "write" /\ op.retry /\ crashes = 0 =>
        ram[Cur].st = "uninit" \/ HasRoom(ram[Cur], SpanOf[op.v])

\* The store answers JEKV_ERR_NO_SPACE when no active sector can be made to hold the item.
NoSpaceTruly ==
    pc = "write" /\ res' = "nospace" /\ lost = {} =>
        \A s \in Range(active) :
            Size(flash[s].log, {"using", "nodata"}) + SpanOf[op.v] > Slices

\* JEKV_ERR_NO_SPACE means that no active sector can be made to hold the item, as long
\* as no hazard has struck.
NoSpaceIsTrue == [][NoSpaceTruly]_vars

\* So it does while power has never failed: what collection believes it can reclaim is
\* what it can.
NoSpaceBeforeFailure == [][crashes = 0 => NoSpaceTruly]_vars

\* An acknowledged set is what the next get reads.
SetIsRead ==
    [][pc = "eraseold" /\ res' = "ok" => (Lookup(op.k))' = op.v]_vars

Starting == pc \in {"off", "checkwrite", "checkgc", "recerase", "recgc", "finish"} \/ gc.rec

\* A start takes nothing away: a key that reads a value while the partition is being
\* loaded, its old one or its new one, still reads a value a step later.
StartTakesNothing ==
    [][Starting => \A k \in Keys : Lookup(k) # NoValue => (Lookup(k))' # NoValue]_vars

\* What STEP0 of sm_check_imcomplete_gc erases is the half-made copy of the sector
\* being deleted: each of its items was copied from there.
WipesTheCopy ==
    [][pc = "checkgc" /\ pc' = "recerase" =>
          LET it == active[LeastOf(Deleting)]
          IN  \A i \in LiveAt(flash[Cur].log) : \E j \in DOMAIN flash[it].log :
                  /\ flash[it].log[j].key = flash[Cur].log[i].key
                  /\ flash[it].log[j].val = flash[Cur].log[i].val]_vars

\* Once loaded, no key is left with the item a set wrote and the one it replaced.
OldIsErased == Idle => \A k \in Keys : LiveOnce(k)

\* Every call, and every start, comes to its end once power stays on.
CallsEnd == pc # "ready" ~> pc = "ready"

-----------------------------------------------------------------------------
(* The inductive invariant behind TypeOK and OneDeleting *)

\* Every sector is in one of the two lists, once, and one is active.
ListsOK ==
    /\ IsInjective(active) /\ IsInjective(idle)
    /\ Range(active) \union Range(idle) = Sector
    /\ Range(active) \cap Range(idle) = {}
    /\ active # <<>>

InGc    == pc \in {"gcinit", "gcmark", "gccopy", "gcdata", "gcerase"}
Calling == pc \in {"write", "data", "eraseold"} \/ (InGc /\ ~ gc.rec)

OpSet == op.k \in Keys /\ op.v \in Values /\ (op.found => op.old \in Values)

GcSet == gc.src \in Range(active) /\ gc.dst \in Range(active) /\ gc.src # gc.dst

DataBegun ==
    /\ pc = "data" => flash[Cur].log # <<>>
    /\ pc = "gcdata" => flash[gc.dst].log # <<>> /\ ToCopy # {}

Recovering ==
    /\ pc \in {"recerase", "recgc"} => \E s \in Range(active) : ram[s].st = "deleting"
    /\ pc = "recerase" => ram[Cur].st = "crash"

IsDeleting(s) == flash[s].hdr = "deleting"

\* Which sectors flash marks as being deleted, and where the running call is.
Headers ==
    /\ \A s, t \in Sector : IsDeleting(s) /\ IsDeleting(t) => s = t
    /\ \/ pc \in {"ready", "write", "data", "eraseold", "gcmark", "gcerase", "finish"}
       \/ pc = "gcinit" /\ ~ gc.rec
       => \A s \in Sector : ~ IsDeleting(s)
    /\ pc \in {"gccopy", "gcdata"} \/ (pc = "gcinit" /\ gc.rec)
       => \A s \in Sector : IsDeleting(s) => s = gc.src
    /\ pc \in {"checkwrite", "checkgc", "recerase", "recgc"}
       => \A s \in Sector : /\ IsDeleting(s) <=> ram[s].st = "deleting"
                            /\ IsDeleting(s) => s \in Range(active)

\* Whenever the store has power its lists and its position in a call fit together, and
\* flash says of at most one sector that it is being deleted.
IInv ==
    /\ TypeOK
    /\ pc # "off" => ListsOK
    /\ Calling => OpSet
    /\ InGc => GcSet
    /\ DataBegun /\ Recovering /\ Headers

\* The same of a collection that is made for something other than one item: the segments
\* of a blob.
CollectInv ==
    /\ TypeOK
    /\ pc # "off" => ListsOK
    /\ pc \in {"write", "data", "eraseold"} => OpSet
    /\ InGc => GcSet
    /\ DataBegun /\ Recovering /\ Headers

-----------------------------------------------------------------------------
(* The inductive invariant behind ReserveAtHand, ReserveKept and OrderSurvivesRestart *)

Used(s)   == IsUsed(flash[s].hdr)
Fresh(s)   == ram[s].st = "uninit"
Newer(s, t) == flash[t].sn < flash[s].sn

\* No two sectors in use have the same number, and what is erased is empty.
FlashOrder ==
    /\ \A s, t \in Sector : Used(s) /\ Used(t) /\ s # t => Newer(s, t) \/ Newer(t, s)
    /\ \A s \in Sector : flash[s].hdr = "erased" => flash[s].log = <<>>

\* Without a free sector, the newest one is not the one being deleted, and is empty if
\* none is: so a start that finds no sector to collect into makes one.
NoneFree ==
    pc \in {"off", "checkwrite", "checkgc", "finish"} /\ (\A s \in Sector : Used(s)) =>
        /\ \A d \in Sector : IsDeleting(d) => \E s \in Sector : Newer(s, d)
        /\ (\A d \in Sector : ~ IsDeleting(d)) =>
              \E s \in Sector : /\ flash[s].log = <<>>
                                /\ \A t \in Sector \ {s} : Newer(s, t)

\* RAM and flash agree on the state of a sector; only one that was just activated, or is
\* just being erased, is active and not in use.
Agree ==
    \A s \in Sector :
        /\ Used(s) \/ IsUsed(ram[s].st) => ram[s].st = flash[s].hdr
        /\ Fresh(s) => flash[s].hdr = "erased"
        /\ s \in Range(active) => \/ Used(s)
                                  \/ Fresh(s) /\ s = Cur
                                  \/ pc = "gcerase" /\ s = gc.src
                                  \/ pc = "recerase" /\ s = Cur

\* The active list is in the order of the serial numbers, the ones not yet programmed
\* included.
ListOrder ==
    /\ \A s \in Sector : Used(s) => flash[s].sn < serial
    /\ \A m, n \in DOMAIN active :
          m < n /\ Used(active[m]) /\ Used(active[n]) => Newer(active[n], active[m])
    /\ Fresh(Cur) => /\ ram[Cur].sn < serial
                    /\ \A s \in Sector : Used(s) => flash[s].sn < ram[Cur].sn

\* There is a reserve.  If its header is programmed it is the only idle sector of which
\* that is so, holds nothing and is the newest of all.
Reserve ==
    /\ pc \in {"ready", "write", "data", "eraseold", "recgc"} => idle # <<>>
    /\ \A s \in Range(idle) : Used(s) =>
          /\ pc \in {"ready", "write", "data", "eraseold"}
          /\ s = Head(idle) /\ flash[s].hdr = "using" /\ flash[s].log = <<>>
          /\ \A t \in Range(active) : Used(t) /\ Newer(s, t)

\* Where a collection, or the recovery of one, has got to.
Collecting ==
    /\ InGc => gc.dst = Cur
    /\ pc = "gcinit" => Fresh(gc.dst) /\ gc.i = 1 /\ gc.d = 0
    /\ pc = "gcmark" => flash[gc.dst].log = <<>> /\ gc.i = 1 /\ gc.d = 0
    /\ pc \in {"gcmark", "gccopy", "gcdata"} => flash[gc.dst].hdr = "using"
    /\ pc \in {"gccopy", "gcdata"} \/ (pc = "gcinit" /\ gc.rec) => IsDeleting(gc.src)
    /\ pc = "gcerase" => flash[gc.src].hdr = "crash"

\* What writing finds in the current sector, and a start in the sectors.
Placing ==
    /\ pc \in {"data", "eraseold"} => Used(Cur)
    /\ pc \in {"checkwrite", "checkgc", "finish"} /\ idle = <<>> => \A s \in Sector : Used(s)
    /\ pc \in {"checkwrite", "checkgc", "recerase", "recgc"} /\ (\E s \in Sector : IsDeleting(s))
       => ~ Fresh(Cur)

OrderInv ==
    /\ FlashOrder /\ NoneFree
    /\ pc # "off" => Agree /\ ListOrder /\ Reserve
    /\ Collecting /\ Placing

-----------------------------------------------------------------------------
(* The inductive invariant behind AppendsInPlace *)

\* The items of a sector lie one behind the other, the complete ones inside it.
Packed(log) ==
    /\ \A i \in DOMAIN log : log[i].span >= 1
    /\ \A i, j \in DOMAIN log : i < j => log[i].at + log[i].span <= log[j].at
    /\ \A i \in LiveAt(log) : log[i].at + log[i].span <= Slices

\* The slice RAM holds for the next item is the first free one, unless the sector is
\* taken for full.
NextFree(s) == ram[s].next = LogEnd(flash[s].log) \/ ram[s].next >= Slices

\* So it is between the two programs of an item, too: the item is the last one, and
\* collection counts for itself.
Between ==
    /\ pc = "data" => LET it == Last(flash[Cur].log)
                      IN  ram[Cur].next = it.at /\ it.st # "torn" /\ it.at + it.span <= Slices
    /\ pc = "gcdata" => LET it == Last(flash[gc.dst].log)
                        IN  /\ gc.d = it.at /\ it.span = Copied.span /\ it.st # "torn"
                            /\ ram[gc.dst].next = gc.d \/ ram[gc.dst].next >= Slices
    /\ pc \in {"gcmark", "gccopy"} => gc.d = LogEnd(flash[gc.dst].log)
    /\ pc \in {"gccopy", "gcdata"} => \A i \in ToCopy : gc.d <= flash[gc.src].log[i].at

LayoutInv ==
    /\ \A s \in Sector : Packed(flash[s].log)
    /\ \A s \in Sector : IsUsed(ram[s].st) =>
          NextFree(s) \/ (pc = "data" /\ s = Cur) \/ (pc = "gcdata" /\ s = gc.dst)
    /\ Between

-----------------------------------------------------------------------------
(* The inductive invariant behind OneLiveItem, RamAgreesWithFlash, NothingErasedAlive and *)
(* the promise of KVStore                                                                  *)

It(s, i) == flash[s].log[i]

Newest(t) == \A s \in Sector \ {t} : Used(s) => Newer(t, s)

\* The item a start looks at: the last live one of the newest sector.
LastWritten(s, i) == Newest(s) /\ \A n \in LiveAt(flash[s].log) : n <= i

\* The item whose header is programmed, and its data not.
Halfway(s, i) == /\ i = Len(flash[s].log)
                 /\ \/ pc = "data" /\ s = Cur
                    \/ pc = "gcdata" /\ s = gc.dst

\* Collection has copied (s, i) to (t, j), and the sector of s is still there.
Copying(s, i, t, j) ==
    /\ pc \in {"gccopy", "gcdata", "off", "checkwrite", "checkgc"}
    /\ s # t /\ IsDeleting(s) /\ Newest(t) /\ It(s, i).val = It(t, j).val
    /\ pc = "gccopy" => i < gc.i
    /\ pc = "gcdata" => i < gc.i \/ (i = LeastOf(ToCopy) /\ Halfway(t, j))

\* A call has written (t, j) in the place of (s, i), or was cut short when it did.
Overwriting(s, i, t, j) ==
    \/ pc \in {"data", "eraseold"} /\ t = Cur /\ j = Len(flash[t].log)
    \/ /\ pc \in {"off", "checkwrite"} /\ LastWritten(t, j)
       /\ \A d \in Sector : ~ IsDeleting(d)
       /\ It(t, j).st = "using" => /\ TypeOf[It(s, i).val] = TypeOf[It(t, j).val]
                                   /\ It(t, j).key = op.k /\ It(t, j).val = op.v

Twin(s, i, t, j) == Copying(s, i, t, j) \/ Overwriting(s, i, t, j)

\* Two live items of a key are an item and its copy, or an item and the new one.
Twins ==
    \A s, t \in Sector : \A i \in LiveAt(flash[s].log), j \in LiveAt(flash[t].log) :
        /\ Used(s) /\ Used(t) /\ <<s, i>> # <<t, j>>
        /\ It(s, i).key = It(t, j).key /\ It(s, i).key \notin lost
        => Twin(s, i, t, j) \/ Twin(t, j, s, i)

\* An item without its data is the one being written, or was when power failed.
Unfinished ==
    \A s \in Sector : \A i \in LiveAt(flash[s].log) :
        Used(s) /\ It(s, i).st = "nodata" /\ It(s, i).key \notin lost =>
            Halfway(s, i) \/ (pc \in {"off", "checkwrite"} /\ LastWritten(s, i))

\* The hash table of a sector leads to each of its items.
Hashed ==
    \A s \in Sector : IsUsed(ram[s].st) =>
        \A i \in LiveAt(flash[s].log) : It(s, i).at \in ram[s].hash \/ Halfway(s, i)

\* The item being written, by a call or by collection.
Programmed(s, k, v) ==
    LET it == Last(flash[s].log)
    IN  /\ flash[s].log # <<>> /\ it.key = k /\ it.val = v
        /\ k \notin lost => /\ it.st = IF pc = "eraseold" THEN "using" ELSE "nodata"
                            /\ ~ OverStale(s, it.at, it.span)

Programming ==
    /\ pc \in {"data", "eraseold"} => Programmed(Cur, op.k, op.v)
    /\ pc = "gcdata" => Programmed(gc.dst, Copied.key, Copied.val)

\* Every item that collection is through with has a copy.
CopiedSafely ==
    pc \in {"gccopy", "gcdata"} =>
        \A i \in LiveAt(flash[gc.src].log) : i < gc.i /\ It(gc.src, i).key \notin lost =>
            \E j \in LiveAt(flash[gc.dst].log) :
                It(gc.dst, j).key = It(gc.src, i).key /\ It(gc.dst, j).val = It(gc.src, i).val

\* What the lookup of a set call found is there, or has been collected.
FoundStays ==
    /\ InGc /\ ~ gc.rec => op.retry
    /\ Calling /\ op.found =>
          \/ /\ op.sec \in Range(active)
             /\ \E i \in LiveAt(flash[op.sec].log) :
                   /\ It(op.sec, i).at = op.at
                   /\ It(op.sec, i).key = op.k /\ It(op.sec, i).val = op.old
                   /\ pc \in {"data", "eraseold"} /\ op.sec = Cur => i < Len(flash[op.sec].log)
          \/ op.sec \in Range(idle) /\ flash[op.sec].log = <<>> /\ op.retry

\* The other items of the key of a set call have the value found, not the one to be set.
OthersOld ==
    Calling /\ op.k \notin lost =>
        /\ op.found => op.old # op.v
        /\ \A s \in Sector : \A i \in LiveAt(flash[s].log) : Used(s) /\ It(s, i).key = op.k =>
              \/ op.found /\ It(s, i).val = op.old
              \/ pc \in {"data", "eraseold"} /\ s = Cur /\ i = Len(flash[s].log)

\* A start takes a sector for the first only if there is none.
Started ==
    /\ pc = "ready" => op = NoOp
    /\ pc = "checkwrite" /\ Fresh(Cur) => \A s \in Sector : ~ Used(s)

ContentInv ==
    /\ Twins /\ Unfinished /\ Hashed
    /\ Programming /\ CopiedSafely /\ FoundStays /\ OthersOld /\ Started

-----------------------------------------------------------------------------
(* The inductive invariant behind CountersAgree, RetryFits and NoSpaceBeforeFailure *)

Live == {"using", "nodata"}

\* The slices of the items at the positions in I.
Taken(log, I) == UNION {log[i].at .. log[i].at + log[i].span - 1 : i \in I}

\* The items of a sector cover it from its first slice on, and not more than a byte counts;
\* one that can be found has the slices of its value.
LogCounted(s) ==
    LET log == flash[s].log
    IN  /\ Size(log, ItemStatus) = LogEnd(log) /\ LogEnd(log) < CounterMod
        /\ \A i \in LiveAt(log) : log[i].span = SpanOf[log[i].val]

\* The slices of an item whose data is not programmed are not counted yet.
Uncounted(s) ==
    IF Halfway(s, Len(flash[s].log)) THEN Last(flash[s].log).span ELSE 0

\* The counters of a sector that no stale byte lies in.
Exact(s) ==
    IsUsed(ram[s].st) /\ flash[s].stale = {} =>
        /\ ram[s].used + Uncounted(s) = LogEnd(flash[s].log)
        /\ ram[s].next = IF ram[s].used > Slices THEN Slices ELSE ram[s].used

\* Before the first power failure a sector never holds more than its counters say.
Undisturbed(s) ==
    /\ \A i \in DOMAIN flash[s].log : flash[s].log[i].st # "torn"
    /\ flash[s].stale \subseteq 0 .. Slices - 1
    /\ IsUsed(ram[s].st) =>
          LET live == Size(flash[s].log, Live) + ram[s].droped
              used == ram[s].used + Uncounted(s)
          IN  /\ ram[s].used = ram[s].next \/ ram[s].next >= Slices
              /\ live <= used /\ (flash[s].stale = {} => live = used)

\* Then no start finds a collection to go on with, and the reserve is not in use.
NothingToRecover ==
    /\ pc \notin {"recerase", "recgc"} /\ ~ gc.rec
    /\ pc \in {"off", "checkwrite", "checkgc"} => \A s \in Sector : ~ IsDeleting(s)
    /\ pc \in {"off", "checkwrite", "checkgc", "finish"} => \E s \in Sector : ~ Used(s)
    /\ pc \in {"ready", "write", "data", "eraseold"} => \A s \in Range(idle) : ~ Used(s)

\* What is left to copy, and the item the sector is collected for, fit behind what has been
\* copied.
CopyLeavesRoom ==
    /\ Calling /\ op.found => op.at < Slices
    /\ Calling /\ op.retry => SpanOf[op.v] <= Slices
    /\ pc \in {"gcmark", "gccopy", "gcdata"} => ram[gc.dst].next = gc.d
    /\ pc \in {"gcinit", "gcmark", "gccopy", "gcdata"} =>
          gc.d + Cardinality(Taken(flash[gc.src].log, ToCopy)) + SpanOf[op.v] <= Slices
    /\ pc = "gcerase" \/ (pc = "write" /\ op.retry) =>
          Fresh(Cur) \/ HasRoom(ram[Cur], SpanOf[op.v])

CountInv ==
    /\ \A s \in Sector : LogCounted(s) /\ Exact(s)
    /\ lost = {} => \A s \in Sector : flash[s].stale = {}
    /\ crashes = 0 => /\ \A s \in Sector : Undisturbed(s)
                      /\ NothingToRecover /\ CopyLeavesRoom

-----------------------------------------------------------------------------
\* What holds at every step of every call, start and power failure: lists and control
\* state fit together, the order of the list is that of the serial numbers, there is a
\* reserve, the items of a sector lie one behind the other, two of one key are an item and
\* its copy, or an item and the one that replaces it, and the counters fit the items.
StoreInv == IInv /\ OrderInv /\ LayoutInv /\ ContentInv /\ CountInv

=============================================================================
