------------------------------ MODULE JekvHash ------------------------------
(***************************************************************************)
(* The table that leads from a hash of (key, group, segment) to slices of  *)
(* a sector, src/jekv_hash.c.  It is an array of (slice, hash) nodes in    *)
(* the order of the slices, which is what makes a search from slice        *)
(* `start' on return the lowest match.  The sector appends a node for each *)
(* item it programs behind the last one, erases the node of an item it     *)
(* drops, and clears the table with the sector.  Allocation succeeds.      *)
(* An erase moves the nodes behind by a memcpy between regions that        *)
(* overlap, whose outcome C leaves open; `scrambled' remembers that one    *)
(* left something else than these nodes one place to the front.            *)
(***************************************************************************)
EXTENDS Integers, Sequences

CONSTANTS
    Entries,    \* JEKV_ENTRY_COUNT
    EnlargeStep, \* JEKV_HASH_ENLARGE_STEP
    Hashes,     \* 24-bit hashes
    Copies      \* the ways memcpy may treat regions that overlap: a subset of
                \* {"up", "down"}, the first or the last byte copied first

ASSUME EntriesAssumption == Entries \in Nat \ {0}
ASSUME StepAssumption    == EnlargeStep \in Nat \ {0}
ASSUME CopiesAssumption  == Copies \subseteq {"up", "down"}

VARIABLES
    table,      \* jekv_hash_t.hash_table, its first count nodes
    size,       \* jekv_hash_t.size, the nodes allocated
    held,       \* history: the nodes of the items appended and neither erased nor cleared
    scrambled   \* history: since the last clear a memcpy did not just move the nodes

hvars == <<table, size, held, scrambled>>

Invalid == -1

Slice == 0 .. Entries - 1
Node  == [id : Slice, hash : Hashes]

Init == table = <<>> /\ size = 0 /\ held = {} /\ scrambled = FALSE

\* Mutant: the table grows one append too late.
AppendLate(n) ==
    /\ Len(table) < Entries
    /\ size' = IF size < Len(table) THEN size + EnlargeStep ELSE size
    /\ table' = Append(table, n)
    /\ held' = held \union {n}
    /\ UNCHANGED scrambled

\* Mutant: a node for the header of an item and another for its data.
AppendTwice(n) ==
    /\ Len(table) < Entries
    /\ size' = IF size <= Len(table) THEN size + EnlargeStep ELSE size
    /\ table' = Append(Append(table, n), n)
    /\ held' = held \union {n}
    /\ UNCHANGED scrambled

\* jekv_hash_append.  Its refusal of a full table is left out, HasRoomForAll.
AppendNode(n) ==
    /\ Len(table) < Entries
    /\ size' = IF size <= Len(table) THEN size + EnlargeStep ELSE size
    /\ table' = Append(table, n)
    /\ held' = held \union {n}
    /\ UNCHANGED scrambled

\* The first node of slice i.
At(i) == CHOOSE n \in DOMAIN table : /\ table[n].id = i
                                     /\ \A m \in 1 .. n - 1 : table[m].id # i

\* What copying the nodes behind node n one place to the front makes of the table.
\* Copied from the last byte down, the last node overwrites them all.
Moved(n, copy) ==
    [m \in 1 .. Len(table) - 1 |->
        IF m < n THEN table[m]
        ELSE IF copy = "up" THEN table[m + 1] ELSE table[Len(table)]]

\* Mutant: the last node takes the place of the one that is erased.
EraseBySwap(i) ==
    /\ \E n \in DOMAIN table : table[n].id = i
    /\ table' = [m \in 1 .. Len(table) - 1 |->
                    IF m = At(i) THEN table[Len(table)] ELSE table[m]]
    /\ held' = {n \in held : n.id # i}
    /\ UNCHANGED <<size, scrambled>>

\* Mutant: only the last node is dropped.
EraseLast(i) ==
    /\ \E n \in DOMAIN table : table[n].id = i
    /\ table' = SubSeq(table, 1, Len(table) - 1)
    /\ held' = {n \in held : n.id # i}
    /\ UNCHANGED <<size, scrambled>>

\* jekv_hash_erase
Erase(i) ==
    /\ \E n \in DOMAIN table : table[n].id = i
    /\ \E copy \in Copies : table' = Moved(At(i), copy)
    /\ held' = {n \in held : n.id # i}
    /\ scrambled' = (scrambled \/ table' # Moved(At(i), "up"))
    /\ UNCHANGED size

\* jekv_hash_clear
Clear == table' = <<>> /\ size' = 0 /\ held' = {} /\ scrambled' = FALSE

\* jekv_hash_find
Find(start, h) ==
    LET Hit(n) == table[n].id >= start /\ table[n].hash = h
    IN  IF \E n \in DOMAIN table : Hit(n)
        THEN table[CHOOSE n \in DOMAIN table : Hit(n) /\ \A m \in 1 .. n - 1 : ~ Hit(m)].id
        ELSE Invalid

\* jekv_sector_write_item, jekv_sector_copy and the scan at load call jekv_hash_append
\* with the slice of an item that lies behind all the others.
Behind(n) == \A m \in DOMAIN table : table[m].id < n.id

Next ==
    \/ \E n \in Node : Behind(n) /\ AppendNode(n)
    \/ \E i \in Slice : Erase(i)
    \/ Clear

Spec == Init /\ [][Next]_hvars

-----------------------------------------------------------------------------
TypeOK ==
    table \in Seq(Node) /\ size \in Nat /\ held \subseteq Node /\ scrambled \in BOOLEAN

\* The nodes stay in the order of their slices, each slice once, as long as every memcpy
\* just moved them.
Ordered ==
    ~ scrambled => \A m, n \in DOMAIN table : m < n => table[m].id < table[n].id

\* Under the same condition the table holds the node of each live item and no other.
HoldsAll == ~ scrambled => {table[n] : n \in DOMAIN table} = held

\* The array never has more nodes than were allocated, and a node for every slice of a
\* sector would still fit: jekv_hash_append never answers JEKV_ERR_NO_SPACE.  Whatever
\* order memcpy copies in.
FitsAllocation == Len(table) <= size

HasRoomForAll == \A n \in Node : Behind(n) => Len(table) < Entries

\* A search answers the lowest slice from `start' on with that hash, of all live items, as
\* long as every memcpy just moved the nodes.
FindsLowest ==
    ~ scrambled =>
        \A start \in Slice, h \in Hashes :
            LET hits == {n.id : n \in {m \in held : m.id >= start /\ m.hash = h}}
            IN  IF hits = {} THEN Find(start, h) = Invalid
                ELSE Find(start, h) \in hits /\ \A i \in hits : Find(start, h) <= i

=============================================================================
