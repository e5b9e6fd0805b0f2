----------------------------- MODULE JekvSector -----------------------------
(***************************************************************************)
(* One flash sector of a jekv partition and what src/jekv_sector.c reads   *)
(* out of it.  Everything here is a pure operator; the state machine that  *)
(* moves sectors between states is JekvStore.                              *)
(*                                                                         *)
(* A sector is a header followed by Slices slices of 32 bytes.  An item    *)
(* occupies `span' consecutive slices: one for its header, the rest for a  *)
(* value of more than 8 bytes.  Items are only ever appended, so a sector  *)
(* is the sequence of the items programmed since it was last erased, each  *)
(* with the slice it starts at.  The bytes of names, values and checksums  *)
(* are abstracted to the status of an item:                                *)
(*   "using"   state byte USING, header and data checksums match           *)
(*   "nodata"  state byte USING, header complete, data incomplete          *)
(*   "torn"    state byte USING, header checksum wrong (power failed while *)
(*             the header was being programmed)                            *)
(*   "droped"  state byte DROPED                                           *)
(***************************************************************************)
EXTENDS Integers, Sequences, FiniteSets

CONSTANTS
    SecNum,     \* sectors of the partition (jekv_partition_t.sec_num)
    Slices,     \* JEKV_ENTRY_COUNT, slices of a sector: 127 in the code
    Keys,       \* pairs of a group id and a key name
    Values,     \* typed values
    TypeOf,     \* the type tag of a value
    SpanOf,     \* the number of slices an item with this value occupies
    NorFlash    \* TRUE: programming can only clear bits, as flash memory does;
                \* FALSE: it overwrites, as the file of jekv_porting_pc.c does

ASSUME SecNumAssumption == SecNum \in Nat /\ SecNum >= 2   \* jekv_pt_init refuses fewer
ASSUME SlicesAssumption == Slices \in Nat \ {0}
ASSUME SpanAssumption   == SpanOf \in [Values -> Nat \ {0}]
ASSUME NorAssumption    == NorFlash \in BOOLEAN

Sector == 0 .. SecNum - 1

\* A header whose length field was not programmed reads length = 0xfff, a span
\* of 129 = 127 + 2 slices; slice counts are uint8_t, 256 = 2 * 127 + 2.
LostSpan   == Slices + 2
CounterMod == 2 * Slices + 2

\* Mutant: the counters are wider than a byte.
CountWide(n) == n

Count(n) == n % CounterMod

ItemStatus   == {"using", "nodata", "torn", "droped"}
HeaderStatus == {"erased", "using", "deleting", "crash"}
RamStatus    == {"uninit", "using", "deleting", "crash"}

Item == [at : Nat, key : Keys, val : Values, span : Nat, st : ItemStatus]

\* `stale': slices of an erased sector whose first byte was overwritten with
\* DROPED although no item is there.
FlashSector == [hdr : HeaderStatus, sn : Nat, log : Seq(Item), stale : SUBSET Nat]

RamSector == [st : RamStatus, sn : Nat, next : Nat, used : 0 .. CounterMod - 1,
              droped : 0 .. CounterMod - 1, hash : SUBSET Nat]

Blank    == [hdr |-> "erased", sn |-> 0, log |-> <<>>, stale |-> {}]
Unloaded == [st |-> "uninit", sn |-> 0, next |-> 0, used |-> 0, droped |-> 0,
             hash |-> {}]

NewItem(at, k, v) == [at |-> at, key |-> k, val |-> v, span |-> SpanOf[v], st |-> "using"]

-----------------------------------------------------------------------------
(* What the flash holds *)

\* The state byte reads USING and the header checksum matches.
IsLive(it) == it.st \in {"using", "nodata"}

LiveAt(log) == {i \in DOMAIN log : IsLive(log[i])}

\* The slices covered by the items of a log that have one of the given statuses.
Covered(log, sts) ==
    UNION {log[i].at .. log[i].at + log[i].span - 1 :
              i \in {j \in DOMAIN log : log[j].st \in sts}}

Size(log, sts) == Cardinality(Covered(log, sts))

\* jekv_item_get_span adds up to the first slice behind the last item.
LogEnd(log) == IF log = <<>> THEN 0 ELSE log[Len(log)].at + log[Len(log)].span

LeastOf(S) == CHOOSE x \in S : \A y \in S : x <= y
MostOf(S)  == CHOOSE x \in S : \A y \in S : y <= x

-----------------------------------------------------------------------------
(* Loading a sector into RAM: jekv_sector_load *)

\* The items the scan of sector_update_slice_and_hash walks over.  A stale DROPED
\* byte right behind the last item reads as a dropped item of unknown length.
Scanned(f) ==
    IF LogEnd(f.log) \in f.stale
    THEN Append(f.log, [at |-> LogEnd(f.log), key |-> CHOOSE k \in Keys : TRUE,
                        val |-> CHOOSE v \in Values : TRUE, span |-> LostSpan,
                        st |-> "droped"])
    ELSE f.log

\* An item with a broken header is dropped while the sector is scanned.
DropTorn(log) ==
    [i \in DOMAIN log |-> IF log[i].st = "torn" THEN [log[i] EXCEPT !.st = "droped"]
                                                ELSE log[i]]

\* sector_check_empty: an uninitialised sector that is not all 0xff is a crashed one.
LoadStatus(f) ==
    CASE f.hdr = "erased" -> IF f.log = <<>> /\ f.stale = {} THEN "uninit" ELSE "crash"
      [] f.hdr = "crash"  -> "crash"
      [] OTHER            -> f.hdr

IsUsed(st) == st \in {"using", "deleting"}

\* sector_update_slice_and_hash counts the slices of a torn item as dropped
\* twice: once itself and once in jekv_sector_erase_item.
LoadRam(f) ==
    LET log == Scanned(f)
    IN  IF IsUsed(LoadStatus(f))
        THEN [st     |-> LoadStatus(f),
              sn     |-> f.sn,
              next   |-> IF LogEnd(log) > Slices THEN Slices ELSE LogEnd(log),
              used   |-> Count(Size(log, ItemStatus)),
              droped |-> Count(Size(log, {"droped", "torn"}) + Size(log, {"torn"})),
              hash   |-> {log[i].at : i \in LiveAt(log)}]
        ELSE [Unloaded EXCEPT !.st = LoadStatus(f)]

LoadFlash(f) ==
    IF IsUsed(LoadStatus(f)) THEN [f EXCEPT !.log = DropTorn(@)] ELSE f

-----------------------------------------------------------------------------
(* Finding an item in a loaded sector: jekv_sector_find_item *)

\* The log positions of the items of key k with a type in ts that the hash list
\* of the sector leads to.
Matches(f, r, k, ts) ==
    IF IsUsed(r.st)
    THEN {i \in LiveAt(f.log) : /\ f.log[i].key = k
                                /\ TypeOf[f.log[i].val] \in ts
                                /\ f.log[i].at \in r.hash}
    ELSE {}

\* Mutant: free slices are not reclaimed.
GcSizeDroped(r) == r.droped

\* The size garbage collection believes it can reclaim: jekv_sm_get_gc_size.
GcSize(r) == Slices - r.used + r.droped

\* Mutant: room for one slice too many.
HasRoomBeyond(r, span) == r.next + span <= Slices + 1

HasRoom(r, span) == r.next + span <= Slices

-----------------------------------------------------------------------------
(* Programming flash *)

\* The item as the flash holds it once its header slice is programmed.  Over a
\* stale DROPED byte the state byte 0xfe reads 0xfc: DROPED.
HeaderWritten(f, it) ==
    [it EXCEPT !.st = IF NorFlash /\ it.at \in f.stale THEN "droped"
                      ELSE IF it.span = 1 THEN "using" ELSE "nodata"]

\* The statuses it may have once its data is programmed too: a stale byte among
\* the data slices spoils the data, unless the data has those bits clear anyway.
DataWritten(f, it) ==
    IF it.st = "droped" THEN {"droped"}
    ELSE IF NorFlash /\ (it.at + 1 .. it.at + it.span - 1) \cap f.stale # {}
    THEN {"using", "nodata"}
    ELSE {"using"}

\* What power failing during the header program may leave: nothing, or an item
\* with a broken checksum whose length was, or was not yet, programmed.
HeaderTorn(f, it) ==
    {f} \union
    {[f EXCEPT !.log = Append(@, [HeaderWritten(f, it) EXCEPT
                                     !.st = IF @ = "droped" THEN @ ELSE "torn",
                                     !.span = sp])] : sp \in {it.span, LostSpan}}

\* jekv_sector_erase_item writes one byte over the item's state.
DropAt(f, at) ==
    IF \E i \in DOMAIN f.log : f.log[i].at = at
    THEN [f EXCEPT !.log = [i \in DOMAIN f.log |->
                               IF f.log[i].at = at THEN [f.log[i] EXCEPT !.st = "droped"]
                                                   ELSE f.log[i]]]
    ELSE [f EXCEPT !.stale = @ \union {at}]

=============================================================================
