---------------------------- MODULE JekvIterator ----------------------------
(***************************************************************************)
(* Iterators: src/jekv_iterator.c over a partition that is written to in   *)
(* between.  An iterator is a sector and a slice to go on from, kept from  *)
(* one call to the next without the mutex, while sets and deletions take   *)
(* sectors into use, collect and erase them.                               *)
(***************************************************************************)
EXTENDS JekvStore

CONSTANTS
    Groups      \* the sets of keys an iterator may be asked for: groups of keys

VARIABLES
    it,         \* the iterator, *jekv_iterator_t, with what it was asked for
    \* history of the iteration going on
    seen,       \* the keys it has yielded
    twice,      \* those it has yielded again
    steady,     \* the keys that had an item when it began, which no call has changed since
    moved       \* a sector has been taken off the active list since

ivars == <<flash, ram, active, idle, serial, pc, op, gc, res, lost, crashes,
           it, seen, twice, steady, moved>>

Filter == [keys : Groups, types : {Types} \union {{t} : t \in Types}]

NoSector == SecNum      \* a sector in memory that has been freed

NoIt == [on |-> FALSE, sec |-> 0, next |-> 0, keys |-> {}, types |-> {}]

-----------------------------------------------------------------------------
(* jekv_iterator_find and jekv_iterator_next *)

\* The items of sector s an iterator with filter f can yield, from slice n on: what a
\* scan by jekv_sector_find_item without a key meets.
Yields(s, n, f) ==
    IF ~ IsUsed(ram[s].st) THEN {}
    ELSE {i \in LiveAt(flash[s].log) :
            LET e == flash[s].log[i]
            IN  e.at >= n /\ e.at < ram[s].next /\ e.key \in f.keys /\ TypeOf[e.val] \in f.types}

\* Slice n lies within an item of sector s, so what a scan reads there is no header.
WithinItem(s, n) ==
    /\ IsUsed(ram[s].st) /\ n < ram[s].next
    /\ \E i \in DOMAIN flash[s].log :
          flash[s].log[i].at < n /\ n < flash[s].log[i].at + flash[s].log[i].span

PlaceOf(s) == CHOOSE m \in DOMAIN active : active[m] = s

\* Mutant: the next sector is scanned from the slice the last one was left at.
GoesOnAt(m, n, f) == {c \in (DOMAIN active) \X (1 .. Slices) :
                        c[1] >= m /\ c[2] \in Yields(active[c[1]], n, f)}

\* What is left of the active list from slice n of its m-th sector on, and then from the
\* first slice of each of the others.
GoesOn(m, n, f) == {c \in (DOMAIN active) \X (1 .. Slices) :
                        \/ c[1] = m /\ c[2] \in Yields(active[m], n, f)
                        \/ c[1] > m /\ c[2] \in Yields(active[c[1]], 0, f)}

FirstOf(S) == CHOOSE c \in S : \A d \in S : c[1] < d[1] \/ (c[1] = d[1] /\ c[2] <= d[2])

ItemAt(c) == flash[active[c[1]]].log[c[2]]

\* Mutants: every item has one slice; the iterator stays at its item.
YieldSlice(c, f) ==
    /\ it' = [on |-> TRUE, sec |-> active[c[1]], next |-> ItemAt(c).at + 1,
              keys |-> f.keys, types |-> f.types]
    /\ seen' = seen \union {ItemAt(c).key}
    /\ twice' = twice \union (seen \cap {ItemAt(c).key})

YieldAgain(c, f) ==
    /\ it' = [on |-> TRUE, sec |-> active[c[1]], next |-> ItemAt(c).at,
              keys |-> f.keys, types |-> f.types]
    /\ seen' = seen \union {ItemAt(c).key}
    /\ twice' = twice \union (seen \cap {ItemAt(c).key})

\* It goes on behind the item it yields.
Yield(c, f) ==
    /\ it' = [on |-> TRUE, sec |-> active[c[1]], next |-> ItemAt(c).at + ItemAt(c).span,
              keys |-> f.keys, types |-> f.types]
    /\ seen' = seen \union {ItemAt(c).key}
    /\ twice' = twice \union (seen \cap {ItemAt(c).key})

Freed == it' = NoIt /\ seen' = {} /\ twice' = {} /\ steady' = {} /\ moved' = FALSE

\* It starts with the first active sector, and is freed at once if there is nothing.
IterFind(f) ==
    /\ pc = "ready" /\ ~ it.on
    /\ LET S == GoesOn(1, 0, f)
       IN  IF S = {} THEN UNCHANGED <<it, seen, twice, steady>>
           ELSE /\ Yield(FirstOf(S), f)
                /\ steady' = {k \in f.keys : FindItem(k, f.types).found}
    /\ UNCHANGED <<flash, loaded, pc, op, gc, res, lost, crashes, moved>>

\* The sector may be in memory that jekv_deinit has freed.  One that was erased is on the
\* idle list, whose end the loop does not know, or it is in use again and the slice lies
\* within an item.  What is read then is no item; the model follows it no further.
Astray == it.sec \in Range(active) => WithinItem(it.sec, it.next)

\* At the end of the active list the iterator is freed.
IterNext ==
    LET S == GoesOn(PlaceOf(it.sec), it.next, it)
    IN  /\ pc = "ready" /\ it.on /\ ~ Astray
        /\ IF S = {} THEN Freed ELSE Yield(FirstOf(S), it) /\ UNCHANGED <<steady, moved>>
        /\ UNCHANGED <<flash, loaded, pc, op, gc, res, lost, crashes>>

IterAstray ==
    /\ pc = "ready" /\ it.on /\ Astray
    /\ Freed
    /\ UNCHANGED <<flash, loaded, pc, op, gc, res, lost, crashes>>

\* jekv_iterator_release
IterRelease ==
    /\ pc = "ready" /\ it.on
    /\ Freed
    /\ UNCHANGED <<flash, loaded, pc, op, gc, res, lost, crashes>>

\* jekv_iterator_data is jekv_storage_read_item by group, type and name, and jekv_iterator_info
\* copies what jekv_iterator_next has read.

-----------------------------------------------------------------------------
(* The store, as in JekvStore, between the calls on the iterator *)

\* The keys whose item a step of the store touches.
Touched == {op.k, op'.k} \union {k \in steady : pc = "ready" /\ Lookup(k) # (Lookup(k))'}

IterStore ==
    /\ Step \/ Call
    /\ steady' = steady \ Touched
    /\ moved' = (moved \/ (it.on /\ ~ Range(active) \subseteq Range(active')))
    /\ UNCHANGED <<it, seen, twice>>

IterPowerOff == PowerOff /\ Freed

\* jekv_deinit frees the sectors and knows nothing of iterators.
IterUnload ==
    /\ Unload
    /\ it' = IF it.on THEN [it EXCEPT !.sec = NoSector] ELSE it
    /\ moved' = it.on
    /\ UNCHANGED <<seen, twice, steady>>

IterInit == Init /\ it = NoIt /\ seen = {} /\ twice = {} /\ steady = {} /\ moved = FALSE

IterAllNext ==
    \/ IterStore \/ IterUnload \/ IterPowerOff
    \/ \E f \in Filter : IterFind(f)
    \/ IterNext \/ IterAstray \/ IterRelease

IterSpec == IterInit /\ [][IterAllNext]_ivars

-----------------------------------------------------------------------------
(* Properties *)

\* As long as no sector has been taken off the active list, an iterator holds a sector that
\* is on it and a slice where an item begins, or behind the last one: sets and deletions in
\* between neither make the loop of jekv_iterator_next miss the end of the list nor make it
\* read data as a header.
CursorStays == it.on /\ ~ moved => ~ Astray

Ends == IterNext /\ ~ it'.on

\* An iteration that comes to its end has yielded every item that was there when it began
\* and stayed, whatever was set and deleted in between, if nothing was collected.
PollsWhatStays == [][Ends /\ ~ moved => steady \subseteq seen \union lost]_ivars

\* It yields none of them twice.
YieldsOnce == ~ moved => steady \cap twice \subseteq lost

\* The same without the condition: an iterator is "used for poll all or specified items".
PollsAll == [][(Ends \/ IterAstray) /\ lost = {} => steady \subseteq seen]_ivars
=============================================================================
