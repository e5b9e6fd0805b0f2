------------------------------ MODULE JekvBlob ------------------------------
(***************************************************************************)
(* Blobs: the values of src/jekv_storage.c that may be larger than a       *)
(* sector.  A blob is cut into segments, items of their own spread over    *)
(* the sectors, and a descriptor item written last, which says how many    *)
(* segments there are and in which of two ranges their numbers lie.  An    *)
(* overwrite uses the other range, so the old segments stay readable until *)
(* the old descriptor is erased.  Sectors, items, collection and recovery  *)
(* are those of JekvStore; this module adds what a call on a blob does     *)
(* between them, and the checks a start makes once the sectors are loaded. *)
(* Sizes are in slices.                                                    *)
(***************************************************************************)
EXTENDS JekvStore

CONSTANTS
    Names,      \* pairs of a group id and a key name
    Prefix,     \* <<m, n>>: the name m is a proper prefix of n, in the same group
    Small,      \* values that are one item
    Blobs,      \* values of type blob
    BlobSize,   \* their sizes
    MinSeg,     \* JEKV_BLOB_MIN_SEG_SIZE
    SegNumMax   \* JEKV_SEG_NUM_MAX, no less than a call ever writes

VARIABLES
    bl,         \* the blob being written: locals of jekv_storage_write_item and storage_write_blob;
                \* bl.serial is history
    erased,     \* segments erased so far by storage_erase_blob
    chk,        \* how far storage_blob_check is after a start
    info,       \* the list it makes of the descriptors
    todo,       \* the mismatched ones storage_blob_check_match has still to come to
    item_index, \* its local: where its last search ended
    req         \* history: the set call being served, and kept over a power failure

checking == <<chk, info, todo, item_index>>
bvars == <<bl, erased, checking, req>>
avars == <<flash, ram, active, idle, serial, pc, op, gc, res, lost, crashes, bvars>>

VerOne == SegNumMax + 1     \* JEKV_SEG_START_VER_1, 0x80
Starts == {0, VerOne}

\* The key of a segment is the name with the number of the segment; that of any other
\* item, a descriptor among them, is the name alone.
SegKey == Names \X (0 .. VerOne + SegNumMax - 1)
NameOf(k) == IF k \in Names THEN k ELSE k[1]
VerOf(k)  == IF k[2] < VerOne THEN 0 ELSE VerOne

Sizes == {BlobSize[b] : b \in Blobs}
\* `part': which slice of which blob the data of a segment begins with.
Seg  == [blob : Blobs, part : 0 .. MostOf(Sizes), len : 1 .. MostOf(Sizes)]
Desc == [size : Sizes, cnt : 1 .. SegNumMax, start : Starts]

ASSUME BlobAssumption ==
    /\ Keys = Names \union SegKey
    /\ Values = Small \union Seg \union Desc
    /\ Small \cap (Seg \union Desc) = {}
    /\ \A v \in Values : /\ v \in Seg  <=> TypeOf[v] = "seg"
                         /\ v \in Desc <=> TypeOf[v] = "blob"
                         /\ v \in Seg  => SpanOf[v] = 1 + v.len
                         /\ v \in Desc => SpanOf[v] = 1

\* A blob cut into the smallest segments needs no more numbers than there are.
ASSUME SegNumAssumption ==
    /\ MinSeg \in Nat \ {0} /\ SegNumMax \in Nat \ {0}
    /\ BlobSize \in [Blobs -> 1 .. SegNumMax * MinSeg]

NoSector == SecNum
NoBlob == [n |-> NoValue, b |-> NoValue, start |-> 0, done |-> 0, cnt |-> 0, from |-> NoSector,
           found |-> FALSE, sec |-> 0, at |-> 0, old |-> NoValue, serial |-> 0]
NoCall == [k |-> NoValue, v |-> NoValue]

-----------------------------------------------------------------------------
(* Reading *)

SegAt(n, id) == FindItem(<<n, id>>, {"seg"})

\* What is found for the segments a descriptor of name n speaks of.
Parts(n, d) == [i \in 0 .. d.cnt - 1 |-> SegAt(n, d.start + i)]

\* storage_read_blob comes to the end of the segments with exactly the size of the blob.
ReadsOk(n, d) ==
    LET p == Parts(n, d)
    IN  /\ \A i \in DOMAIN p : p[i].found
        /\ MapThenSumSet(LAMBDA i : FoundItem(p[i]).val.len, DOMAIN p) = d.size

\* The values v of consecutive segments are those of blob b, from its first slice on.
Makes(v, b) ==
    \A i \in DOMAIN v :
        /\ v[i] \in Seg /\ v[i].blob = b
        /\ v[i].part = IF i = 0 THEN 0 ELSE v[i - 1].part + v[i - 1].len

\* storage_cmp_blob
SameBlob(n, d, b) ==
    LET p == Parts(n, d)
    IN  /\ d.size = BlobSize[b] /\ ReadsOk(n, d)
        /\ \A i \in DOMAIN p : FoundItem(p[i]).st = "using"
        /\ Makes([i \in DOMAIN p |-> FoundItem(p[i]).val], b)

-----------------------------------------------------------------------------
(* Will it fit? *)

\* jekv_sm_get_free_size
Free(s) == Slices - ram[s].used

\* jekv_sm_check_write_blob_size: what is left of a blob of the given size once the idle
\* sectors but one, and then the first i active sectors, have taken their share.
LeftAfter(size) ==
    LET left[i \in 0 .. Len(active)] ==
            IF i = 0 THEN size - (Len(idle) - 1) * (Slices - 1)
            ELSE LET l == left[i - 1]
                     g == GcSize(ram[active[i]])
                 IN  IF l <= 0 THEN l
                     ELSE IF l + 1 <= g THEN 0
                     ELSE IF g >= MinSeg + 1 THEN l - (g - 1) ELSE l
    IN  left

SizeFits(size) ==
    LET left == LeftAfter(size)
    IN  /\ size <= (SecNum - 1) * (Slices - 1)
        /\ \/ left[0] <= -1
           \/ \E i \in DOMAIN active :
                 \/ left[i - 1] > 0 /\ left[i] = 0 /\ ram[active[i]].next + 1 <= Slices
                 \/ left[i - 1] <= 0 /\ GcSize(ram[active[i]]) >= 1

-----------------------------------------------------------------------------
(* jekv_storage_write_item for a blob *)

Serves == pc = "ready" /\ chk = "done"

IsBlob(v) == TypeOf[v] = "blob"

FoundSame(f, n, b) == f.found /\ IsBlob(FoundItem(f).val) /\ SameBlob(n, FoundItem(f).val, b)

SetBlobSame(n, b) ==
    /\ Serves /\ FoundSame(FindItem(n, Types), n, b)
    /\ res' = "ok"
    /\ UNCHANGED <<flash, loaded, pc, op, gc, lost, crashes, bvars>>

SetBlobNoSpace(n, b) ==
    /\ Serves /\ ~ FoundSame(FindItem(n, Types), n, b)
    /\ ~ SizeFits(BlobSize[b])
    /\ res' = "nospace"
    /\ UNCHANGED <<flash, loaded, pc, op, gc, lost, crashes, bvars>>

\* The current sector has something to reclaim and no room for the blob: a sector is
\* requested before the first segment.
Dirty(b) == ram[Cur].droped > 0 /\ BlobSize[b] + 1 > Free(Cur)

SetBlobBegin(n, b) ==
    LET f   == FindItem(n, Types)
        old == IF f.found THEN FoundItem(f).val ELSE NoValue
    IN  /\ Serves /\ serial <= MaxSerial
        /\ ~ FoundSame(f, n, b) /\ SizeFits(BlobSize[b])
        /\ bl' = [n |-> n, b |-> b, done |-> 0, cnt |-> 0,
                  start |-> IF f.found /\ IsBlob(old) /\ old.start = 0 THEN VerOne ELSE 0,
                  from  |-> IF Dirty(b) THEN NoSector ELSE Cur,
                  found |-> f.found, sec |-> f.sec,
                  at    |-> IF f.found THEN FoundItem(f).at ELSE 0, old |-> old, serial |-> serial]
        /\ pc' = IF Dirty(b) THEN "blobreq" ELSE "blob"
        /\ req' = [k |-> n, v |-> b] /\ res' = "none"
        /\ UNCHANGED <<flash, loaded, op, gc, lost, crashes, erased, checking>>

-----------------------------------------------------------------------------
(* storage_write_blob: the loop over the sectors *)

Left == BlobSize[bl.b] - bl.done

\* Mutant: the last segment is one slice longer than what is left.
NextLenBeyond == IF Left + 1 <= Free(Cur) THEN Left + 1
                 ELSE IF Free(Cur) >= MinSeg + 1 THEN Free(Cur) - 1 ELSE 0

\* The slices of data the next segment takes of the current sector, 0 if it is skipped.
NextLen == IF Left + 1 <= Free(Cur) THEN Left
           ELSE IF Free(Cur) >= MinSeg + 1 THEN Free(Cur) - 1 ELSE 0

\* A live item that has the key already is a segment some failed call left behind: it is
\* a hazard, since readers may find that one.
BlobSegment ==
    LET k == <<bl.n, bl.start + bl.cnt>>
    IN  /\ pc = "blob" /\ Left > 0 /\ NextLen > 0
        /\ op' = [NoOp EXCEPT !.k = k, !.v = [blob |-> bl.b, part |-> bl.done, len |-> NextLen]]
        /\ bl' = [bl EXCEPT !.done = @ + NextLen, !.cnt = @ + 1]
        /\ pc' = "write"
        /\ lost' = lost \union (IF FindItem(k, {"seg"}).found THEN {bl.n} ELSE {})
        /\ UNCHANGED <<flash, loaded, gc, res, crashes, erased, checking, req>>

\* Mutant: the descriptor counts one segment less.
BlobDescShort ==
    /\ \/ pc = "blob" /\ Left = 0 /\ Free(Cur) >= 1
       \/ pc = "blobdesc"
    /\ op' = [k |-> bl.n,
              v |-> [size |-> BlobSize[bl.b], cnt |-> IF bl.cnt > 1 THEN bl.cnt - 1 ELSE 1,
                     start |-> bl.start],
              found |-> bl.found, sec |-> bl.sec, at |-> bl.at, old |-> bl.old, retry |-> FALSE]
    /\ pc' = "write"
    /\ UNCHANGED <<flash, loaded, gc, res, lost, crashes, bvars>>

\* Mutant: the item it replaces is forgotten.
BlobDescKeepOld ==
    /\ \/ pc = "blob" /\ Left = 0 /\ Free(Cur) >= 1
       \/ pc = "blobdesc"
    /\ op' = [k |-> bl.n, v |-> [size |-> BlobSize[bl.b], cnt |-> bl.cnt, start |-> bl.start],
              found |-> FALSE, sec |-> bl.sec, at |-> bl.at, old |-> bl.old, retry |-> FALSE]
    /\ pc' = "write"
    /\ UNCHANGED <<flash, loaded, gc, res, lost, crashes, bvars>>

\* storage_write_blob_desc
BlobDesc ==
    /\ \/ pc = "blob" /\ Left = 0 /\ Free(Cur) >= 1
       \/ pc = "blobdesc"
    /\ op' = [k |-> bl.n, v |-> [size |-> BlobSize[bl.b], cnt |-> bl.cnt, start |-> bl.start],
              found |-> bl.found, sec |-> bl.sec, at |-> bl.at, old |-> bl.old, retry |-> FALSE]
    /\ pc' = "write"
    /\ UNCHANGED <<flash, loaded, gc, res, lost, crashes, bvars>>

\* Mutant: a sector without room is tried again.
BlobSkipStays ==
    /\ pc = "blob" /\ IF Left > 0 THEN NextLen = 0 ELSE Free(Cur) < 1
    /\ pc' = "blob"
    /\ UNCHANGED <<flash, loaded, op, gc, res, lost, crashes, bvars>>

BlobSkip ==
    /\ pc = "blob" /\ IF Left > 0 THEN NextLen = 0 ELSE Free(Cur) < 1
    /\ pc' = "blobreq"
    /\ UNCHANGED <<flash, loaded, op, gc, res, lost, crashes, bvars>>

\* A segment is complete.  Its sector is done with, unless there is room for the descriptor.
BlobSegWritten ==
    /\ pc = "eraseold" /\ op.v \in Seg
    /\ pc' = IF Left = 0 /\ ram[Cur].next + 1 <= Slices THEN "blobdesc" ELSE "blobreq"
    /\ op' = NoOp
    /\ UNCHANGED <<flash, loaded, gc, res, lost, crashes, bvars>>

BlobFail ==
    /\ Return("nospace") /\ bl' = NoBlob /\ req' = NoCall
    /\ UNCHANGED <<flash, loaded, gc, lost, crashes, erased, checking>>

\* jekv_sm_request_sector for one slice
BlobRequestIdle ==
    /\ pc = "blobreq" /\ Len(idle) > 1
    /\ Activate
    /\ pc' = "blobgot"
    /\ UNCHANGED <<op, gc, res, lost, crashes, bvars>>

BlobGcStart ==
    /\ pc = "blobreq" /\ Len(idle) = 1 /\ GcSize(ram[Dirtiest]) >= 1
    /\ Activate
    /\ gc' = [src |-> Dirtiest, dst |-> Head(idle), i |-> 1, d |-> 0, rec |-> FALSE]
    /\ pc' = IF ram'[Head(idle)].st = "uninit" THEN "gcinit" ELSE "gcmark"
    /\ UNCHANGED <<op, res, lost, crashes, bvars>>

BlobGcErase ==
    /\ pc = "gcerase" /\ bl # NoBlob
    /\ EraseToIdle(gc.src)
    /\ gc' = NoGc /\ pc' = "blobgot"
    /\ UNCHANGED <<op, res, lost, crashes, bvars>>

\* The segments written so far stay.  The request before the first one cannot fail: there
\* the current sector has something to reclaim.
BlobNoSpace ==
    /\ pc = "blobreq" /\ bl.from # NoSector /\ Len(idle) = 1 /\ GcSize(ram[Dirtiest]) < 1
    /\ BlobFail

\* If the sector the call began with has come round again, it gives up.
BlobGot ==
    /\ pc = "blobgot"
    /\ IF Cur = bl.from
       THEN BlobFail
       ELSE /\ bl' = [bl EXCEPT !.from = IF @ = NoSector THEN Cur ELSE @]
            /\ pc' = "blob"
            /\ UNCHANGED <<flash, loaded, op, gc, res, lost, crashes, erased, checking, req>>

-----------------------------------------------------------------------------
(* storage_erase_blob, and the erasure of the item a blob replaces *)

OldIsBlob == op.found /\ IsBlob(op.old)

\* The state byte is written where the old item was found.  If a collection has moved the
\* item, that may by now be another item, or the middle of one, whose data it spoils.
HitBy(f, at) == {i \in LiveAt(f.log) : f.log[i].at < at /\ at < f.log[i].at + f.log[i].span}

Spoiled(f, at) ==
    {[f EXCEPT !.log = [i \in DOMAIN f.log |->
                           IF i \in HitBy(f, at) THEN [f.log[i] EXCEPT !.st = st] ELSE f.log[i]]]
        : st \in IF NorFlash THEN {"using", "nodata"} ELSE {"nodata"}}

BlobEraseOld ==
    LET f     == flash[op.sec]
        hit   == HitBy(f, op.at) \union {i \in LiveAt(f.log) : f.log[i].at = op.at}
        moved == ~ \E i \in hit : f.log[i].key = op.k /\ f.log[i].val = op.old
    IN  /\ pc = "eraseold" /\ (OldIsBlob \/ (bl # NoBlob /\ op.v \in Desc))
        /\ IF op.found
           THEN /\ \E g \in Spoiled(f, op.at) :
                      flash' = [flash EXCEPT ![op.sec] = DropAt(g, op.at)]
                /\ ram' = [ram EXCEPT ![op.sec].droped = Count(@ + SpanOf[op.old]),
                                      ![op.sec].hash = @ \ {op.at}]
           ELSE UNCHANGED <<flash, ram>>
        /\ lost' = lost \union (IF op.found /\ moved THEN {op.k} \union {f.log[i].key : i \in hit}
                                ELSE {})
        /\ bl' = NoBlob
        /\ IF OldIsBlob
           THEN pc' = "erasesegs" /\ erased' = 0 /\ UNCHANGED <<op, res, req>>
           ELSE Return("ok") /\ req' = NoCall /\ UNCHANGED erased
        /\ UNCHANGED <<active, idle, serial, gc, crashes, checking>>

\* jekv_storage_del_item of a blob
BlobDelete(n) ==
    LET f == FindItem(n, Types)
    IN  /\ Serves /\ f.found /\ IsBlob(FoundItem(f).val)
        /\ DropItem(f.sec, FoundItem(f).at, 1)
        /\ op' = [NoOp EXCEPT !.k = n, !.found = TRUE, !.old = FoundItem(f).val]
        /\ pc' = "erasesegs" /\ erased' = 0
        /\ UNCHANGED <<active, idle, serial, gc, res, lost, crashes, bl, checking, req>>

\* A delete does not report what a set returned.
Answer(r) ==
    /\ pc' = "ready" /\ op' = NoOp /\ req' = NoCall
    /\ res' = IF op.v = NoValue THEN res ELSE r

BlobEraseSeg ==
    LET f == SegAt(op.k, op.old.start + erased)
    IN  /\ pc = "erasesegs" /\ f.found
        /\ DropItem(f.sec, FoundItem(f).at, FoundItem(f).span)
        /\ IF erased + 1 = op.old.cnt
           THEN Answer("ok") /\ erased' = 0
           ELSE erased' = erased + 1 /\ UNCHANGED <<pc, op, res, req>>
        /\ UNCHANGED <<active, idle, serial, gc, lost, crashes, bl, checking>>

\* The first one that is not found ends the search; its error is the call's.
BlobEraseMissing ==
    /\ pc = "erasesegs" /\ ~ SegAt(op.k, op.old.start + erased).found
    /\ Answer("notfound") /\ erased' = 0
    /\ UNCHANGED <<flash, loaded, gc, lost, crashes, bl, checking>>

\* jekv_storage_read_item.  It changes something only if segments of a blob are missing or
\* do not add up: then the descriptor is erased.
BlobRead(n) ==
    LET f == FindItem(n, {"blob"})
    IN  /\ Serves
        /\ IF f.found /\ ~ ReadsOk(n, FoundItem(f).val)
           THEN DropItem(f.sec, FoundItem(f).at, 1)
           ELSE UNCHANGED <<flash, ram>>
        /\ UNCHANGED <<active, idle, serial, pc, op, gc, res, lost, crashes, bvars>>

-----------------------------------------------------------------------------
(* storage_blob_check, the last part of a start *)

\* The active items of type t: position of the sector in the list, position in its log.
ItemsOf(t) ==
    UNION {{<<m, i>> : i \in {j \in LiveAt(flash[active[m]].log) :
                                TypeOf[flash[active[m]].log[j].val] = t}} : m \in DOMAIN active}

ItemAt(c) == flash[active[c[1]]].log[c[2]]

FirstOf(S) == CHOOSE c \in S : \A d \in S : c[1] < d[1] \/ (c[1] = d[1] /\ c[2] <= d[2])

DropAtPlace(c) == DropItem(active[c[1]], ItemAt(c).at, ItemAt(c).span)

\* The end of the last live segment of the last sector, 0 if it has none: what is left in
\* item_index by the search for segments.
EndOfSearch ==
    MostOf({0} \union {ItemAt(c).at + ItemAt(c).span :
                          c \in {d \in ItemsOf("seg") : d[1] = Len(active)}})

\* storage_blob_init_info, and the counting in storage_blob_check_match: a segment counts
\* for the first descriptor of its name and version.
CheckBlobs ==
    LET descs    == ItemsOf("blob")
        Owner(c) == {d \in descs : /\ ItemAt(d).key = NameOf(ItemAt(c).key)
                                   /\ ItemAt(d).val.start = VerOf(ItemAt(c).key)}
        Counted(d) == {c \in ItemsOf("seg") : d \in Owner(c) /\ d = FirstOf(Owner(c))}
        Bad(d) == \/ Cardinality(Counted(d)) # ItemAt(d).val.cnt
                  \/ MapThenSumSet(LAMBDA c : ItemAt(c).val.len, Counted(d)) # ItemAt(d).val.size
        Info(d) == [at |-> d, n |-> ItemAt(d).key, start |-> ItemAt(d).val.start]
    IN  /\ pc = "ready" /\ chk = "load"
        /\ info' = {Info(d) : d \in descs}
        /\ todo' = {Info(d) : d \in {e \in descs : Bad(e)}}
        /\ item_index' = EndOfSearch
        /\ chk' = "match"
        /\ UNCHANGED <<flash, loaded, pc, op, gc, res, lost, crashes, bl, erased, req>>

\* jekv_sm_find_item with the item_index it is given: jekv_sector_find_item passes over what
\* lies before that slice, in every sector.
FindFrom(k, ts, from) ==
    LET M(s) == {i \in Matches(flash[s], ram[s], k, ts) : flash[s].log[i].at >= from}
        Has  == {m \in DOMAIN active : M(active[m]) # {}}
    IN  IF Has = {} THEN [found |-> FALSE, sec |-> 0, i |-> 0]
        ELSE LET s == active[LeastOf(Has)]
             IN  [found |-> TRUE, sec |-> s, i |-> LeastOf(M(s))]

\* A descriptor that does not match is looked up again by its name and erased.  The search
\* goes on from where the last one ended, so that it may miss: then the descriptor stays
\* in flash, and leaves the list all the same.
MatchDrop ==
    /\ chk = "match" /\ todo # {}
    /\ \E d \in todo :
          /\ d.at = FirstOf({e.at : e \in todo})
          /\ LET f == FindFrom(d.n, {"blob"}, item_index)
             IN  IF f.found
                 THEN /\ DropItem(f.sec, FoundItem(f).at, 1)
                      /\ item_index' = FoundItem(f).at
                 ELSE UNCHANGED <<flash, ram, item_index>>
          /\ todo' = todo \ {d} /\ info' = info \ {d}
    /\ UNCHANGED <<active, idle, serial, pc, op, gc, res, lost, crashes, bl, erased, chk, req>>

MatchDone ==
    /\ chk = "match" /\ todo = {}
    /\ chk' = "drop" /\ item_index' = 0
    /\ UNCHANGED <<flash, loaded, pc, op, gc, res, lost, crashes, bl, erased, info, todo, req>>

\* Mutant: any descriptor of the name keeps a segment.
OrphansByName ==
    {c \in ItemsOf("seg") : ~ \E d \in info : d.n = NameOf(ItemAt(c).key)}

\* storage_blob_check_drop: segments no descriptor in the list speaks of.
Orphans ==
    {c \in ItemsOf("seg") :
        ~ \E d \in info : /\ \/ d.n = NameOf(ItemAt(c).key)
                             \/ <<d.n, NameOf(ItemAt(c).key)>> \in Prefix
                          /\ d.start = VerOf(ItemAt(c).key)}

DropOrphan ==
    /\ chk = "drop" /\ Orphans # {}
    /\ DropAtPlace(FirstOf(Orphans))
    /\ UNCHANGED <<active, idle, serial, pc, op, gc, res, lost, crashes, bvars>>

CheckDone ==
    /\ chk = "drop" /\ Orphans = {}
    /\ chk' = "done" /\ info' = {} /\ req' = NoCall
    /\ UNCHANGED <<flash, loaded, pc, op, gc, res, lost, crashes, bl, erased, todo, item_index>>

-----------------------------------------------------------------------------
(* Items of one sector, recovery and power failure, as in JekvStore *)

\* The steps of a call that is not on a blob, and of a start.
StoreStep ==
    /\ bl = NoBlob /\ ~ (pc = "eraseold" /\ OldIsBlob) /\ Step
    /\ UNCHANGED <<bl, erased, checking>>
    /\ req' = IF pc' = "ready" /\ chk = "done" THEN NoCall ELSE req

\* The steps by which an item is written and a sector collected are the same for a blob.
BlobItemStep ==
    /\ bl # NoBlob
    /\ \/ WriteInit \/ WriteItem \/ WriteItemData
       \/ GcInit \/ GcMark \/ GcCopy \/ GcCopyData \/ GcCrash
    /\ UNCHANGED bvars

BlobStep ==
    \/ StoreStep \/ BlobItemStep
    \/ BlobSegment \/ BlobDesc \/ BlobSkip \/ BlobSegWritten
    \/ BlobRequestIdle \/ BlobGcStart \/ BlobGcErase \/ BlobNoSpace \/ BlobGot
    \/ BlobEraseOld \/ BlobEraseSeg \/ BlobEraseMissing
    \/ CheckBlobs \/ MatchDrop \/ MatchDone \/ DropOrphan \/ CheckDone

SmallCall(n) ==
    /\ chk = "done"
    /\ \/ \E v \in Small : SetSame(n, v) /\ UNCHANGED req
       \/ \E v \in Small : SetBegin(n, v) /\ req' = [k |-> n, v |-> v]
       \/ /\ Delete(n) /\ ~ IsBlob(FoundItem(FindItem(n, Types)).val)
          /\ UNCHANGED req
    /\ UNCHANGED <<bl, erased, checking>>

BlobCall(n) ==
    \/ \E b \in Blobs : SetBlobSame(n, b) \/ SetBlobNoSpace(n, b) \/ SetBlobBegin(n, b)
    \/ BlobDelete(n) \/ BlobRead(n)

BlobPowerOff ==
    /\ PowerOff
    /\ bl' = NoBlob /\ erased' = 0
    /\ chk' = "load" /\ info' = {} /\ todo' = {} /\ item_index' = 0
    /\ UNCHANGED req

BlobUnload ==
    /\ Serves /\ Unload
    /\ chk' = "load"
    /\ UNCHANGED <<bl, erased, info, todo, item_index, req>>

BlobInit ==
    /\ Init /\ bl = NoBlob /\ erased = 0 /\ req = NoCall
    /\ chk = "load" /\ info = {} /\ todo = {} /\ item_index = 0

BlobNext == BlobStep \/ BlobUnload \/ BlobPowerOff \/ \E n \in Names : SmallCall(n) \/ BlobCall(n)

BlobSpec == BlobInit /\ [][BlobNext]_avars
BlobFairSpec == BlobSpec /\ WF_avars(BlobStep)

-----------------------------------------------------------------------------
(* Properties *)

BlobTypeOK ==
    /\ StoreType
    /\ pc \in {"off", "ready", "write", "data", "eraseold", "gcinit", "gcmark", "gccopy", "gcdata",
              "gcerase", "checkwrite", "checkgc", "recerase", "recgc", "finish", "blob", "blobdesc",
              "blobreq", "blobgot", "erasesegs"}
    /\ chk \in {"load", "match", "drop", "done"}
    /\ bl # NoBlob => bl.done \in 0 .. BlobSize[bl.b] /\ bl.cnt \in 0 .. SegNumMax

LostNames == {NameOf(k) : k \in lost}

\* The blobs of which flash has the descriptor of a name and all the segments.
WholeBlobs(n) ==
    {b \in Blobs : \E d \in {Lookup(n)} :
        /\ d \in Desc /\ d.size = BlobSize[b]
        /\ Makes([i \in 0 .. d.cnt - 1 |-> Lookup(<<n, d.start + i>>)], b)
        /\ \E last \in {Lookup(<<n, d.start + d.cnt - 1>>)} : last.part + last.len = d.size}

\* The value flash alone gives a name.
Stored(n) ==
    IF Lookup(n) \notin Desc THEN Lookup(n)
    ELSE IF WholeBlobs(n) = {} THEN NoValue ELSE CHOOSE b \in WholeBlobs(n) : TRUE

Whole == INSTANCE KVStore WITH
    Keys   <- Names,
    Values <- Small \union Blobs,
    kv     <- [n \in Names |-> IF n \in LostNames THEN NoValue ELSE Stored(n)],
    req    <- req,
    up     <- chk = "done",
    lost   <- LostNames,
    Errors <- {"nospace", "notfound"}

KeepsBlobPromise == Whole!KVSpec

\* Between calls a live descriptor has exactly the segments it speaks of, so that a read
\* never takes a blob away: storage_read_blob gives up only on what no call left behind.
\* Nor does a start: storage_blob_check_match takes no descriptor for mismatched, wherever
\* power failed, so that its search for those, which may miss them or find another of the
\* same name, never runs.  Both except the names in lost.
BlobsWhole ==
    /\ Serves => \A n \in Names \ LostNames :
          LET f == FindItem(n, {"blob"}) IN f.found => ReadsOk(n, FoundItem(f).val)
    /\ \A d \in todo : d.n \in LostNames

\* Refuted (README): "find and erase dismatch blob descriptor", jekv_storage.c:254.  What a
\* start leaves of descriptors, on any name, has its segments.
StartErasesMismatches ==
    [][chk = "match" /\ chk' = "drop" =>
          \A c \in ItemsOf("blob") : ReadsOk(ItemAt(c).key, ItemAt(c).val)]_avars

Owned(c) ==
    \E d \in ItemsOf("blob") :
        /\ ItemAt(d).key = NameOf(ItemAt(c).key)
        /\ ItemAt(c).key[2] - ItemAt(d).val.start \in 0 .. ItemAt(d).val.cnt - 1

\* What storage_blob_check leaves behind: each segment belongs to a live descriptor, so
\* nothing an interrupted write, overwrite or deletion left keeps its slices.
StartDropsOrphans ==
    [][chk = "drop" /\ chk' = "done" =>
          \A c \in ItemsOf("seg") : Owned(c) \/ NameOf(ItemAt(c).key) \in LostNames]_avars

\* A blob that jekv_sm_check_write_blob_size let pass finds room for all its items.
BlobFits == [][bl # NoBlob => res' # "nospace"]_avars

\* The loop of storage_write_blob goes round the sectors once at most, "Cycle to start
\* point": it never takes more sectors than there are.
BlobOneRound == bl # NoBlob => serial - bl.serial <= SecNum

\* Every start comes to its end, and so does every call, on a blob or not, as long as power
\* has never failed: the loop of storage_write_blob does not collect one sector after
\* another for ever.
BlobEnds == ~ Serves /\ (chk # "done" \/ crashes = 0) ~> Serves

-----------------------------------------------------------------------------
(* The inductive invariant behind BlobTypeOK *)

\* The program of a blob is between two items.
BetweenPcs == {"blob", "blobdesc", "blobreq", "blobgot"}

\* No collection is under way, and everything is in its place.
Resting ==
    /\ StoreType /\ ListsOK
    /\ \A s \in Sector : ~ IsDeleting(s)
    /\ op \in [k : Keys \union {NoValue}, v : Values \union {NoValue}, found : BOOLEAN,
               sec : Sector, at : Nat, old : Values \union {NoValue}, retry : BOOLEAN]
    /\ gc \in [src : Sector, dst : Sector, i : Nat, d : Nat, rec : BOOLEAN]
    /\ res \in {"none", "ok", "toolong", "full", "nospace", "notfound"}
    /\ lost \in SUBSET Keys /\ crashes \in Nat

BlobSet ==
    /\ bl \in [n : Names, b : Blobs, start : Starts, done : Nat, cnt : Nat, from : 0 .. SecNum,
               found : BOOLEAN, sec : Sector, at : Nat, old : Values \union {NoValue},
               serial : Nat]
    /\ bl.found => bl.old \in Values
    /\ bl.cnt <= SegNumMax /\ bl.done <= BlobSize[bl.b]
    /\ bl.cnt = 0 => bl.done = 0
    /\ bl.done < BlobSize[bl.b] => bl.cnt * MinSeg <= bl.done

\* The store is as it is for a call on one item, or for the collection that the running call
\* on a blob asks for, or between two such; a segment is written only for a blob, every one
\* but the last of at least the least size.
BlobInv ==
    /\ chk \in {"load", "match", "drop", "done"}
    /\ chk \in {"match", "drop"} => pc = "ready"
    /\ pc \in BetweenPcs \union {"erasesegs"} => Resting
    /\ pc \notin BetweenPcs \union {"erasesegs"} =>
          CollectInv /\ (bl = NoBlob /\ Calling => OpSet /\ op.v \notin Seg)
    /\ bl # NoBlob => /\ BlobSet
                      /\ pc \in BetweenPcs \union {"write", "data", "eraseold"} \/ InGc
    /\ pc \in BetweenPcs => bl # NoBlob
    /\ pc = "blobdesc" => bl.done = BlobSize[bl.b]
=============================================================================
