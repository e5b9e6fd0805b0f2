# jekv in TLA+

A verification project for jekv, an embedded key-value store on raw flash. The modules
model the storage engine down to each flash program and erase, the blobs, groups and
iterators built on it, the hash table that finds items, and the public calls as several
threads make them. TLC checks them on small
instances; TLAPS proves theorems about them for every value of the constants.

## The system

| Part | Source | State | Operations |
|---|---|---|---|
| Item layout | `jekv_item.[ch]` | a 32-byte header slice (state byte, group, type, length, name, two CRCs), data slices | span, checksums |
| Sector | `jekv_sector.[ch]` | flash: header (state, serial number) and 127 slices; RAM: state, next free slice, two byte counters, hash table | load, init, write, find, drop, copy, erase |
| Hash table | `jekv_hash.[ch]` | array of (slice, 24-bit hash) nodes, its size | append, erase, find, clear |
| Sector manager | `jekv_sector_manager.[ch]` | lists of active and idle sectors, next serial number | load with two recoveries, activate, collect garbage, request a sector, find |
| Storage | `jekv_storage.[ch]` | group list over a sector manager | set, get, delete; blobs in segments; groups |
| Partition | `jekv_partition.[ch]` | offset and size in flash | checked flash access |
| Partition manager, handles | `jekv_partition_manager.[ch]`, `jekv_handler.[ch]` | list of storages, list of handles | init, deinit, open, close, look up |
| Public API | `jekv_base.[ch]` | none | the calls above under one global mutex |
| Port | `porting/` | port flag, mutex, flash or a file | bring up, take down, lock |
| Iterator | `jekv_iterator.[ch]` | a cursor held by the caller | find, next, read |
| Easy API | `easy/` | one global handle | init, deinit, read, write |
| Debug, log, list, example | `jekv_debug.[ch]`, `jekv_log.[ch]`, `third/dlist.h`, `example/` | none | printing, power-off points for tests |

How they interact. A public call takes the mutex, looks its handle up and calls the
storage. A set looks the key up, appends the new item to the last active sector and then
drops the old one by clearing bits of its state byte. When the sector is full the sector
manager activates an idle sector or, if only the reserve is left, copies the live items
of the dirtiest sector into the reserve and erases it. After a restart everything in RAM
is rebuilt from flash, and two checks repair what a power failure interrupted: an
overwrite whose old item is still there, and a collection.

What is hard here: power may fail between any two flash operations and within one;
recovery itself can be interrupted; the state a set remembers from its lookup is used
after a collection has moved things; counters are bytes; the mutex belongs to a port
that comes and goes; handles point to storages that may be freed; iterators point to
sectors that may be erased between two calls; the segments of a blob are found by name
and number, among those a failed call has left.

What makes each part correct:

* hash table: it holds exactly the live items, in the order of their slices, so that a
  search answers the lowest match;
* sector: its counters agree with flash, items are appended and never overlap;
* sector manager: every sector is in one list, one is kept in reserve, the order of the
  list is the order of serial numbers, at most one sector is being deleted, nothing live
  is erased;
* storage: a set takes effect once or not at all, also over a power failure, and an
  acknowledged one stays; a blob is there as a whole or not at all, and no segment stays
  behind; a group keeps its id, and its items are in no other group;
* iterator: it yields each item once that was there all along;
* API: one call at a time works on the lists, no handle outlives its storage, every call
  returns.

## Modules

| Module | Models |
|---|---|
| `JekvSector` | what a sector holds and how loading, finding and programming read and change it, as operators |
| `JekvStore` | sector manager and storage: one action per step that programs or erases flash at most once, power failures, recovery; its invariants |
| `KVStore` | the abstract promise: a map, and a set that takes effect at one moment |
| `JekvStoreRefines` | the refinement mapping from `JekvStore` to `KVStore` |
| `JekvHash` | the hash table |
| `JekvApi` | the public calls, the port, the lists of storages and of handles, several threads |
| `JekvBlob` | blobs: segments in two versions and descriptors, the space check, the checks of a start |
| `JekvGroups` | groups: their ids, the list in RAM, deleting a group's items |
| `JekvIterator` | iterators over a store that changes between their calls |
| `MCJekvStore`, `MCJekvBlob`, `MCJekvGroups`, `MCJekvIterator`, `MCJekvHash`, `MCJekvApi` | values of the constants and symmetry for TLC |
| `JekvStoreInvariant`, `JekvStoreContents`, `JekvStoreCounters` | theorems about the store, one resting on the other; the second ends with the refinement of `KVStore` |
| `JekvBlobProofs`, `JekvGroupsProofs`, `JekvIteratorProofs`, `JekvHashProofs`, `JekvApiProofs` | theorems about blobs, groups, iterators, the hash table and the public calls |

`JekvStore` extends `JekvSector`; `JekvStoreRefines` extends `JekvStore` and
instantiates `KVStore`. `JekvBlob`, `JekvGroups` and `JekvIterator` extend `JekvStore`
each on its own: they take its steps as they are, add variables and the steps between,
and `JekvBlob` and `JekvGroups` are shown to implement `KVStore` too, with names, and
pairs of names, as keys. `JekvHash` is the detail behind the `hash` set of slices in
`JekvSector`: what it proves, that the table holds the live items and finds the lowest,
is what `Matches` and `FindItem` take for granted. `JekvApi` stands above `JekvStore`:
its `OneAtATime` is why `JekvStore` may run calls one after the other.

### JekvSector and JekvStore against the code

A sector is the sequence `log` of the items programmed since it was erased, each with its
first slice, key, value, span and status. The status abstracts bytes: `using` (both
checksums match), `nodata` (the header does), `torn` (it does not), `droped` (state byte
cleared). `hdr` is the state byte of the sector header together with its checksum. `stale`
holds slices of an erased sector whose first byte was overwritten by a drop aimed at an
item that is gone. `NorFlash` says whether programming only clears bits, as flash does, or
overwrites, as the file of the PC port does.

Variables: `flash` survives power failures; `ram`, `active`, `idle` and `serial` are
`sec_arr`, the two lists and `serial_number` of `jekv_sector_manager_t`; `op` is what
`jekv_storage_write_item` keeps in locals (the found sector and slice among them), `gc`
what `sm_garbage_collection` or `sm_check_imcomplete_gc` keeps; `pc` is where the call is.
`res`, `lost` and `crashes` are history.

| Code | Actions |
|---|---|
| `jekv_storage_write_item` | `SetSame`, `SetBegin`, `EraseOld`, and the two writes below |
| `jekv_sector_write_item` | `WriteInit`, `WriteTooLong`, `WriteItem`, `WriteItemData`, `WriteFull` |
| `jekv_sm_request_sector` | `RequestIdle`, or collection |
| `sm_garbage_collection`, `jekv_sector_copy`, `jekv_sector_erase` | `GcStart`, `GcInit`, `GcMark`, `GcCopy`, `GcCopyData`, `GcCrash`, `GcErase`, `RequestNoSpace` |
| `jekv_storage_del_item`, `jekv_storage_read_item` | `Delete`, `Get` |
| `jekv_sm_load`, `sm_load_sectors` | `Load`, `LoadFinish` |
| `sm_check_imcomplete_write` | `CheckWriteNothing`, `CheckWriteData`, `CheckWriteOld` |
| `sm_check_imcomplete_gc` | `CheckGcNothing`, `CheckGcWipe`, `CheckGcErase`, `CheckGcKeep`, `CheckGcStart`, then the steps of a collection |
| `jekv_deinit`, down to `jekv_sm_unload` | `Unload` |
| power | `PowerOff`, with what a cut program leaves in `Torn` |

A collection done by recovery (`gc.rec`) does not mark its source again, since it is
marked already. `Load` drops all torn items it meets in one step: each drop is a single
byte, and a start cut short between two of them meets the rest again.

### The keys in `lost`

The code has defects that make some keys unreadable or resurrect old values (see below).
So that the properties still say something about everything else, four steps name the
hazard and enter the key it strikes in `lost`: `EraseOld` after the old item has moved,
`CheckWriteOld` on an original under collection, `CheckGcWipe` on a sector that is no
copy, and `PowerOff` within an overwrite that a start does not finish: between two items
of different types, or when the newest sector, where a start looks, has become the
reserve (`ReserveIsNewest`); `WriteItem` and `GcCopy` over
a stale slice are the consequence of the first. In `JekvBlob` two more do: a segment
written while a failed call's segment has its key, and the erasure of an old item that
has moved, which may hit another. Nothing reads `lost`; `KVStore` promises nothing of
these keys and everything of the others. The violation runs use properties without that
exception.

### JekvBlob against the code

The key of an item is a name, or a name with a segment number; the numbers of the second
version begin at `VerOne`. A segment's value says which slices of which blob it holds, a
descriptor's the size, the number of segments and the version. `bl` holds the locals of a
blob write; `chk`, `info`, `todo` and `item_index` are how far `storage_blob_check` is.
`todo` are the descriptors its loop has not passed yet, each of which it passes once.
`item_index` is the local from which the loop looks for a descriptor in every sector. It is
not reset: it holds the end of the search for segments or the place of the hit before, so a
descriptor that lies before it is missed. It stays in flash, leaves the list, and its
segments go as orphans.

| Code | Actions |
|---|---|
| `jekv_storage_write_item` of a blob | `SetBlobSame`, `SetBlobNoSpace`, `SetBlobBegin`, `BlobEraseOld` |
| `jekv_sm_check_write_blob_size` | `LeftAfter`, `SizeFits` |
| `storage_write_blob` | `BlobSegment`, `BlobSegWritten`, `BlobDesc`, `BlobSkip`, `BlobRequestIdle`, `BlobGcStart`, `BlobGcErase`, `BlobNoSpace`, `BlobGot`; the writes and the collection are those of `JekvStore` |
| `storage_erase_blob`, `jekv_storage_del_item` | `BlobDelete`, `BlobEraseSeg`, `BlobEraseMissing` |
| `jekv_storage_read_item`, `storage_read_blob` | `BlobRead` |
| `storage_blob_check` | `CheckBlobs`, `MatchDrop`, `MatchDone`, `DropOrphan`, `CheckDone` |

Sizes are in slices, so that a last part of at most 8 bytes, which would fit the header of
its segment, is left out; so are the limits on the number of segments.

### JekvGroups against the code

The key of an item is the id of its group and its name; group 0 holds the groups, with
their ids as values. `groups` is the list in RAM, `del` the group being deleted.
`OpenFound`, `OpenFull` and `OpenNew` are `jekv_storage_open_group`, the write of the item
is that of `JekvStore`, and `OpenAdd` its end with `storage_add_group`; the end of a start
(`StoreStep`) is `storage_load_groups`. `DelGroupBegin`, `DelGroupItem` and `DelGroupEnd`
are `jekv_storage_del_group`, one erased item at a time. It erases the items and leaves the
group: `jekv_storage_erase_group_id`, which would erase it, is called from nowhere.

### JekvIterator against the code

`it` is the iterator, a sector and a slice with what it was asked for. `IterFind`,
`IterNext` and `IterRelease` are one call each; a call is one step because it only reads.
Between them any step of the store may be taken. `IterAstray` is `jekv_iterator_next` when
its sector is not in the active list or its slice lies within an item: what it reads then
is no item, and the model ends the iteration there. `seen`, `twice`, `steady` and `moved`
are history: what it has yielded, what was there from the beginning and stayed, and whether
a sector has left the active list since.

### JekvApi against the code

`inited` and `mutex` are the statics of `jekv_porting_freertos.c`, `storages` and
`handles` the lists of `jekv_partition_manager.c`, `heap` what is allocated for handles
(addresses are used again). `iters` are the iterators, which are in no list: each holds the
partition it was found in, or `"gone"` once a `jekv_deinit` has freed what it points to.
What `jekv_init`, `jekv_deinit`, `jekv_erase` and `jekv_del_group` do without the mutex is
an action per access. What a call does under the mutex is one action. That is what the code
does as long as no two threads are inside at a time, `OneAtATime`, which does not hold of
every application: one thread's `jekv_deinit` can delete the mutex another has taken. So
whatever is proved here is proved under the discipline that `OneAtATime` needs. `Discipline` states what the application takes care of: `"init first"` is the
note on `jekv_init` in `jekv_base.h`, and `"init"` and `"deinit"` say that these two are
called while no other call runs. A step that would use a mutex, a storage, a handle or an
iterator that is not there sets `fault` and ends the behaviour, so nothing is said of what comes after
undefined behaviour. FreeRTOS semaphores are modelled as mutual exclusion among waiters.

## Runs

| Run | Bounds | Checks |
|---|---|---|
| `TwoSectors` | 2 sectors of 4 slices, 2 keys, values of 1 and 2 slices, 2 power failures | `TypeOK`, `RamAgreesWithFlash`, `OneLiveItem`, `CountersAgree`, `ReserveAtHand`, `RetryFits`, `NothingErasedAlive`, `NoSpaceBeforeFailure` |
| `TwoFailures` | 3 sectors of 2 slices, 2 keys, values of 1, 2 and too many slices and of 2 types, 2 power failures, fairness | `OneDeleting`, `StoreInv`, `KeepsPromise`, `CallsEnd` |
| `Blob` | 3 sectors of 4 slices, blobs of 1 and 3 slices and a single item under 1 name, 1 power failure, fairness | `BlobTypeOK`, `BlobsWhole`, `KeepsBlobPromise`, `StartDropsOrphans`, `BlobEnds` |
| `Groups` | 3 sectors of 2 slices, 3 groups for 2 ids, 1 item name, 2 values, 1 power failure | `ListIsFlash`, `IdsApart`, `ItemsHaveGroup`, `ReserveKept`, `OrderSurvivesRestart`, `KeepsId`, `DelGroupEmpties`, `AppendsInPlace`, `KeepsGroupPromise` |
| `Iterator` | 3 sectors of 2 slices, 2 keys, iterators over one or both, values of 1 and 2 slices, 1 power failure | `CursorStays`, `YieldsOnce`, `PollsWhatStays` |
| `Hash` | 5 slices, 2 hashes, steps of 2 nodes, `memcpy` copying either way | `FindsLowest`, `HoldsAll`, `FitsAllocation`, `HasRoomForAll` |
| `Api` | 2 threads, 2 partitions of which one cannot be loaded, 2 addresses, 2 handles, 1 iterator, every call, fairness | `OneAtATime`, `HandlesAttached`, `PortWhole`, `MutexIsThere`, `DisciplineInv`, `NothingFreedIsRead`, `CallsReturn` |
| `SetIsRead` | 2 sectors, no failure | refuted |
| `NoSpaceAfterCrash` | 2 sectors, 1 failure | `NoSpaceIsTrue` refuted |
| `StartTakesNothing` | 2 sectors, 1 failure | refuted |
| `BlobOneRound` | 3 sectors of 4 slices, blobs of 1 and 4 slices, 1 failure | refuted |
| `CursorStrays` | 2 sectors of 3 slices, no failure | `PollsAll` refuted |

Bounds. `MaxSerial` ends the calls once that many sectors have been activated; 3 allows
two collections after the first sector fills, so the sector that was erased first is
written again and collected again. Two keys and four slices let a sector fill with live
items, with dropped ones and with both, and let a collection for a longer value be cut short
while a shorter one still fits. Two sectors are what both ports configure (one
active, one in reserve); the third makes activation without collection, and a choice of
the dirtiest, happen. A blob of three slices fits
one segment only in an empty sector and is cut up in any other, and with three sectors its
overwrite has to collect between two of its segments; four slices let a descriptor lie
before the slice the check of a start goes on from, so that its search misses as well as
hits. Three groups compete
for two ids, so that the ids run out and the list is compared with groups in other
sectors. An iterator needs a second active sector to go on to. Two failures let the
second strike any step of recovery. `Keys` are symmetric in `TwoSectors`; no run with a
liveness property uses symmetry.

Fairness. `CallsEnd` and `BlobEnds` assume weak fairness of the steps of a call: it is
one thread's straight code, and nothing else runs under the mutex. Calls themselves and
power failures are not fair. `CallsReturn` assumes weak fairness of each thread and
strong fairness of taking the mutex, which a FreeRTOS semaphore hands to its waiters of
equal priority in the order in which they came. It takes what a call does under the mutex
for one step that ends, so it is about the ways out of a call and says nothing of loops
inside: `BlobOneRound` shows one that never ends.

`Api` does not check deadlock: a program that has hit a fault stops. The other modules
never stop.

## What the refuted properties show

* `SetIsRead`, `jekv_storage.c:970`. The old item is erased where it was found before a
  collection moved it. The copy stays live in front of the new item: with the default
  partition of two sectors, and one key set over and over, every get after the 126th set
  answers an older value although the sets return `JEKV_ERR_OK`. No failure is needed.
* `NoSpaceAfterCrash`, `jekv_sector.c:122`. A torn item whose length was not programmed
  counts 129 slices, dropped twice; 258 wraps to 2 and the sector seems not worth
  collecting.
* `StartTakesNothing`, `jekv_sector_manager.c:206`. After a failure during a collection,
  the last copied item and its original look like an interrupted overwrite. The original
  is dropped, then the sector with the copy is erased.
* `BlobOneRound`, `jekv_storage.c:834`. A torn item, dropped at the start, counts twice
  among the dropped slices, so `jekv_sm_check_write_blob_size` adds up more room than there
  is and lets a blob through that does not fit. `storage_write_blob` then asks for one
  sector after another. It means to stop at the sector it began with, but only looks at the
  sector it gets, and the two it gets by turns, each collected into the other, are not that
  one. It never returns, keeps the mutex and wears the flash out. `BlobEnds` shows that
  calls end as long as power has never failed.
* `CursorStrays`, `jekv_iterator.c:86`. Between two calls on an iterator a set collects the
  sector the iterator is in. The iterator goes on in a sector of the idle list, whose links
  never lead to the end its loop looks for, and the other item is never yielded.

More properties are stated that TLC refutes, without a run of their own. Each needs a line
or two changed in a configuration:

* `InitOkIsInit` in `MCJekvApi`: whatever partition `jekv_init` is called for, it answers
  `JEKV_ERR_OK` once the port is up, also when the first call failed (`jekv_base.c:24`);
* `EraseHasPartition` in `MCJekvApi`: the only way to the erase in `jekv_erase` is with
  `storage` NULL (`jekv_base.c:97`);
* `BlobFits` in `MCJekvBlob` with two sectors of four slices and no failure: the check and
  the write do not add the sectors up in the same order, so a blob that passed the check is
  refused after some of its segments were written (`jekv_sector_manager.c:505`). It also
  refuses blobs that fit, when a full sector that is all dropped comes first;
* `StartDropsOrphans` in `MCJekvBlob` with a second name that the first begins: a segment is
  kept for a descriptor whose name is only the beginning of its own
  (`jekv_storage.c:311`). The run has one name, for which the comparison is exact;
* `WipesTheCopy` in `MCJekvStore` with three sectors of two slices and two failures: the
  sector recovery erases as the half-made copy can be a complete one
  (`jekv_sector_manager.c:257`);
* `OldIsErased`. With one failure in an overwrite, an old item of another type is never
  found by recovery (`jekv_sector_manager.c:206`). With two, and values of one type, neither
  is one of the same type: when the first failure comes between the first two steps of a
  collection, the sector for the copies has its header and nothing else, and the start makes
  it the reserve again (`jekv_sector_manager.c:430`). Writing goes on in an older sector, but
  the next start looks for the last item in the newest (`jekv_sector_manager.c:158`), which
  is empty. The old item and the new one stay: a get answers the old value, and a delete
  brings the new one back;
* `Ordered` in `MCJekvHash` without its exception `~ scrambled`, and `HoldsAll` and
  `FindsLowest` likewise: a `memcpy` between regions that overlap (`jekv_hash.c:59`) that
  copies the last byte first leaves other nodes than were there;
* `StartErasesMismatches` in `MCJekvBlob` with the bounds of `Blob`: a start is to
  "find and erase dismatch blob descriptor" (`jekv_storage.c:254`), but looks for each from
  the slice that `item_index` still holds (`jekv_storage.c:262`) and misses those that lie
  before it. With one failure this strikes only names that another defect has put in `lost`:
  `BlobsWhole` says that a start has no other descriptor to look for;
* `MutexIsThere` in `MCJekvApi` without `"init"` in `Discipline`: the port's flag is set
  before its mutex is made (`jekv_porting_freertos.c:49`); without `"deinit"`: a call waits
  for a mutex that is deleted; without `"init first"`: a call before `jekv_init` takes a null
  mutex instead of answering `JEKV_ERR_NOT_INIT`;
* `OneAtATime` in `MCJekvApi` without `"init"` in `Discipline`: two threads each make a
  mutex, and the second replaces one that is taken (`jekv_porting_freertos.c:48`);
* `NothingFreedIsRead` in `MCJekvApi` without one of its three exceptions: `jekv_del_group`
  and `jekv_get_info` read a handle that another thread has closed (`jekv_base.c:362` and
  `525`); every call on an iterator reads it when it was released or came to its end; and
  `jekv_entry_next` and `jekv_entry_data` read, after a `jekv_deinit`, the storage and the
  sector it freed (`jekv_iterator.c:80`).

One consequence crosses modules. When a start loses the item of a group, as in
`StartTakesNothing`, the group is not listed, its id is the least free one, and the next
group that is opened gets it, with the items of the lost one. `IdsApart`, `KeepsId` and
`ItemsHaveGroup` except groups that met a hazard.

## Proofs

For every number of sectors and slices, any keys and values, with no bound on power
failures or serial numbers other than what the constants say:

* `JekvStoreInvariant!InvariantHolds`: `Spec => []IInv`; from it `TypesHold` and
  `OneCollection`. Neither type correctness nor `OneDeleting` is inductive. That
  `gc.src` stays a sector needs the lists to be duplicate-free and to hold every sector
  (`ListsOK`); that the item being copied exists needs its header to have been written in
  the step before (`DataBegun`); that recovery finds a sector to collect needs `Recovering`;
  and that a second sector is never marked needs `Headers`, which ties the marks in flash
  to the position of the running call. `IInv` is their conjunction. The proof has a lemma
  for each action, on lemmas about sectors, about lists and about the steps actions share.
* `JekvStoreInvariant!OrderHolds`: `Spec => []OrderInv`, on top of `IInv`; from it
  `ReserveIsAtHand`, `ReserveIsKept` and `OrderIsTheRestarts`. That a call finds a reserve is
  easy as long as power stays on. The difficulty is the start after a failure that left every
  sector with a header: `sm_check_imcomplete_gc` has nothing to copy into unless the newest
  sector is an empty one, or a sector marked for deletion is not the newest. `NoneFree` says
  that this is so at every moment power may fail, so `OrderInv` speaks of flash also when
  power is off. It follows from `Reserve` (an idle sector whose header is programmed is the
  only one, empty, and newer than all active ones) while a call runs, and from `Collecting`
  within a collection; both need `ListOrder`, the order of the list by serial numbers, the
  number of a sector included that is activated but not programmed yet, and `Agree`, which
  lets RAM and flash differ only in the sector being activated or erased.
* `JekvStoreInvariant!LayoutHolds`: `Spec => []LayoutInv`; from it `ItemsAreAppended`. That the
  next item goes behind the last one needs `NextFree`, which a torn item breaks unless a
  start takes such a sector for full, and between the two programs of an item `Between`. A
  collection does not look where it writes: it counts slices for itself, and that it never
  passes the end of a sector follows from the source's items being packed, since what is
  copied lies no farther than the original (`gc.d <= at` for all that is left to copy).
* `JekvStoreContents!ContentHolds`: `Spec => []ContentInv`; from it `NoKeyTwice`,
  `LookupsAgree` and `NothingIsErasedAlive`. Its centre is `Twins`: two live items of a key
  that no hazard has struck are an item and its copy (`Copying`), with a sector marked for
  deletion and the copy in the newest one, or an item and the one that replaces it
  (`Overwriting`), which is the last of the newest sector; each only in the few steps, or
  after a failure in them, in which one of the two is about to go. A start tells the two
  cases apart by the same marks, and that it looks for them in the right sector is what
  `OrderInv` says. The rest of `ContentInv` says what the running call may rely on: the hash
  tables lead to every item (`Hashed`), the item being written is the last one
  (`Programming`), what collection is through with has a copy (`CopiedSafely`), the item a
  set has found is still there or has been collected (`FoundStays`), and no other item of
  its key has the new value yet (`OthersOld`). TLC refuted an earlier form of this
  invariant: a start makes an empty newest sector the reserve, so the sector a start looks
  into need not be the one a call writes to. That is the defect told at `OldIsErased`, and
  why `PowerOff` names it a hazard.
* `JekvStoreCounters!CountHolds`: `Spec => []CountInv`; from it `CountersTellTheTruth`,
  `CollectedFits` and `NoSpaceMeansNone`. Where no stale byte lies in a sector, packed items
  make the sum of their spans the end of the log (`LogCounted`), which fits a byte, and the
  counters are that sum, but for an item between its two programs (`Exact`, `Uncounted`).
  Stale bytes are there only where a hazard has struck. What a set relies on holds until
  power fails for the first time: live and dropped slices are no more than those counted as
  used (`Undisturbed`), so what `sm_do_gc` believes it can reclaim is there. That its item
  then fits follows from `CopyLeavesRoom`: what has been copied, what is left to copy and the
  item are at most a sector at every step of the collection, which `GcPays` promises when it
  starts and each copied item keeps; and a call that is refused has looked at the dirtiest
  sector, which reclaims no less than any other. After a failure a torn item takes part in
  no count of live slices, a start counts it twice, and recovery collects for no item at all.
  `StoreInvHolds` sums the five invariants up in `StoreInv`, which `TwoFailures` checks with
  TLC.
* `JekvStoreContents!StoreKeepsPromise`: `Spec => KeepsPromise`, the refinement. One lemma
  per action says which step of `KVStore` it takes: `WriteItem`, `WriteItemData`,
  `CheckWriteOld` or `EraseOld` is the moment a set takes effect, according to where the
  old item lies, and whatever else programs flash leaves `Lookup` alone. The argument:
  outside of an overwrite all complete items of a key have one value (`Agreeing`, from
  `Twins`), so a step that leaves one of them where it is cannot change what is read. Copying an
  item does, and so does giving up a sector (`NothingIsErasedAlive`). Within an overwrite the key has at most
  one item besides the new one, so it reads as before or as the call asks (`OldOrNew`), and
  the new value stands once the old item is gone.
* `JekvGroupsProofs!GroupsUseTheStore`: `GroupSpec => Spec`. Only the deletion of a group
  needs an argument: it drops the items a scan over the active sectors comes to, and these
  are the ones a lookup would have found (`DelGroupDeletes`), because between calls a key
  has one live item that the hash tables lead to. So all of the above holds of a store with
  groups, and `GroupsFit`, `GroupSpec => []GroupInv`, builds on it. From `GroupInv` follow
  `ListHoldsTheGroups`, `NoIdTwice` and `NoItemIsOrphaned`, and with the lemmas about what
  is read also `IdsAreForever` and `DeletedGroupIsEmpty`. That ids are never shared is not
  inductive by itself: the list in RAM, from which the next id is taken, must lack no group
  (`ListFollows`), also after a start, where it is rebuilt from a scan (`LoadedAre` says
  that the scan counts each item of group 0 once); the id a call is about to write must stay
  unused until it is written, or lost, when power fails (`OpensUnused`); and an item may be
  written only under an id that is in flash (`WritesOwned`), which an overwrite of a
  group's item, if there were one, would break.
  `GroupsKeepPromise`, `GroupSpec => KeepsGroupPromise`, makes the theorem about the store
  one about names. Besides `GroupInv` it needs that the set being served in the store is the
  one asked for by names, under the id of that group (`RequestFits`). A pair of names reads
  what its key reads (`PairsAreRead`), so each step of the store's map is one of the map of
  pairs (`PairsChange`, `PairsOfDelete`), because two pairs never share a key; the writing
  of a group is none at all, because nothing lies under an id before it is given
  (`IdsInFlash`).
* `JekvIteratorProofs`: `IterationsLeaveTheStore` is `IterSpec => Spec`: all of the above
  holds beside iterators. `CursorsStay` then follows from packed logs: as long as no sector
  leaves the active list, items are neither moved nor taken out of a log (`ItemsStay`), and
  `IterNext` steps by the span of the item it is on, which no other item starts within.
  `NothingIsYieldedTwice` and `WhatStaysIsPolled` follow from `FollowInv`: each key that was
  there and that no call has changed still has the item it had, and has been yielded if and
  only if the iterator is past that item. The store leaves such an item alone even in the
  middle of a call (`StepsLeaveOthers`: what a set erases is an item of its own key, or lies
  in a sector that has been given up), new sectors come behind the others (`ActiveGrows`),
  and a yield passes the item it yields and no other one (`YieldFollows`), so when nothing
  is left to go on to (`ToBeMet`) all have been yielded.
* `JekvBlobProofs!BlobTypesHold`: `BlobSpec => []BlobTypeOK`, from the inductive invariant
  `BlobInv` (`BlobInvariantHolds`). A call on a blob uses the steps of `JekvStore` where it
  writes an item, and steps of its own in between, so at each moment the store is in one of
  three states: as for a single item (`IInv`); in a collection a blob has asked for, which is
  for no item and goes back to the blob (`CollectInv`, what collection needs of `IInv`); or at
  rest between two items (`Resting`). A step that is shared keeps what it keeps for
  `JekvStore`: its lemmas are stated over `CollectInv` where a collection for a blob takes
  it too. That the number of a segment stays below `SegNumMax` needs `BlobSet`: every segment
  written so far but the last has at least `MinSeg` slices, so while there is anything left to
  write, `bl.cnt * MinSeg <= bl.done < BlobSize`.
* `JekvHashProofs`, whichever way `memcpy` copies. `TableIsRight` and `SearchFindsLowest`
  say that the table holds the live items in order, and that a search answers the lowest,
  until a `memcpy` between overlapping regions has left something else than the nodes moved
  by one (`scrambled`): the code has nothing to make it copy forward, and if it does not,
  the table is wrong. `TableNeverFull` and `TableFitsAllocation` hold also then. The
  invariant is `TableInv`. That the table never fills follows by counting: a node put in
  place `m` had at least `m - 1` slices before it, and an erase, scrambled or not, moves none
  of them behind that (`EraseMovesNodes`). `LeastExists` gives the least element the search
  picks.
* `JekvApiProofs`, for any number of threads, partitions, handles and iterators, of an
  application whose `Discipline` holds `"init first"`, `"init"` and `"deinit"`. From
  `DisciplineHolds` follow `CallsOneAtATime`, `MutexAlwaysThere` and `PortStaysWhole`.
  `HandlesStayAttached` and `FreedIsNotRead` state `OneAtATime` besides what they are about,
  since a list that two threads change at once is no list. A listed handle and its storage
  are allocated (`ValidIsReadable`), so what can be read of freed memory is what is followed
  without a look at the list: the handle of `jekv_del_group` and `jekv_get_info`, an iterator
  that is gone, and the storage and sector behind one. The invariant, `DisciplineInv`, says
  what a thread may rely on at each place of its call: that nothing runs beside a
  `jekv_init` or a `jekv_deinit` (`Apart`), what these find of flag, lists and mutex at each
  of their steps (`PortSteps`), and that a thread that waits for the mutex or has it finds
  it there (`HasMutex`). A call that is kept apart is proved to look only at its own
  thread (`AloneStep`), any other to leave the port alone (`SharedStep`). The theorems
  do not extend to applications without the discipline: see the list above.

Assumptions: `SecNum >= 2`, which `jekv_pt_init` enforces; `Slices`, spans and the step
of the hash table are positive; `NorFlash` is a Boolean; `Broken` are partitions, and no
thread, handle, key or value is mistaken for the values that stand for none.

For blobs, `SegNumAssumption`: a blob is no larger than `JEKV_SEG_NUM_MAX` of the smallest
segments (127 times 512 bytes). The code takes larger ones and refuses them when the numbers
run out (`jekv_sector_manager.c:538`, `jekv_storage.c:754`); those refusals are left out of
`JekvBlob`.

Only model-checked: what blobs promise (`BlobsWhole`,
`KeepsBlobPromise`, `StartDropsOrphans`), whose reading and checking add up the sizes of a
number of segments, which takes induction over data, and liveness (`CallsEnd`,
`CallsReturn`, `BlobEnds`). Both are out of the prover's reach.

## Not modelled

Flash drivers that report errors, sectors that cannot be read (`INVALID`), allocation
failures, read-only partitions (`readonly` is always 0), the state `FULL`, which no code
path sets (`jekv_sector.c:368` is dead), and checksums that match by accident. Of blobs,
those in a group that is deleted. Parameter checks of the public calls. `jekv_sm_get_status`
only adds counters up. The easy API is a handful of one-line calls with one global handle;
its `jekv_easy_deinit` has its condition inverted (`jekv_easy.c:28`), which needs no model.
Debug and log print; `dlist.h` is vendored, and the example is one.

## Plan

1. More proofs about blobs: the rest of `StoreInv` (order, layout, contents, counters) on top
   of `BlobInv`, by the lemmas that already serve `JekvGroups` and `JekvIterator`; and the
   refusals of blobs that need more than `JEKV_SEG_NUM_MAX` segments.
2. Allocation failure in `JekvHash` (`jekv_hash.c:31`) and flash drivers that report errors.
