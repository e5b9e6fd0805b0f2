----------------------------- MODULE JekvGroups -----------------------------
(***************************************************************************)
(* Groups: the part of src/jekv_storage.c that gives every group name an   *)
(* id and keeps the items of different groups apart.  A group is an item   *)
(* of the reserved group 0 whose name is the group's and whose value is    *)
(* its id; a list in RAM, rebuilt at every start, holds the same pairs.    *)
(* Items carry the id of their group only, so they belong to a group as    *)
(* long as its name keeps that id and no other name gets it.               *)
(***************************************************************************)
EXTENDS JekvStoreRefines

CONSTANTS
    GroupNames,
    ItemNames,      \* names of items within a group
    GroupIdMax,     \* JEKV_GROUP_ID_MAX, which is JEKV_GROUP_ID_ANY: 63 in the code
    Data            \* the values of items that are no groups

VARIABLES
    groups,     \* jekv_storage_t.group_list
    del,        \* the group a call of jekv_storage_del_group is deleting, or 0
    \* history
    req,        \* the set of an item being served, by the names of its group and itself
    ret         \* how the last one returned

gvars == <<flash, ram, active, idle, serial, pc, op, gc, res, lost, crashes, groups, del, req, ret>>

NoCall == [k |-> NoValue, v |-> NoValue]

Ids == 1 .. GroupIdMax - 1

\* Items are looked up by group id and name; group 0, JEKV_GROUP_ITSELF_ID, holds the groups.
GroupKey == {0} \X GroupNames
DataKey  == Ids \X ItemNames

ASSUME GroupAssumption ==
    /\ GroupIdMax \in Nat /\ GroupIdMax >= 2
    /\ Keys = GroupKey \union DataKey
    /\ Values = Ids \union Data
    /\ \A v \in Values : v \in Ids <=> TypeOf[v] = "u8"
    /\ \A v \in Ids : SpanOf[v] = 1

-----------------------------------------------------------------------------
(* The list of groups *)

ListedIds == {groups[n].id : n \in DOMAIN groups}
Listed(g) == \E n \in DOMAIN groups : groups[n].name = g

\* Mutant: the first group of the list is passed over.
FreeIdPastFirst ==
    LeastOf((Ids \union {GroupIdMax}) \ {groups[n].id : n \in 2 .. Len(groups)})

\* storage_find_group for a name that is not listed: the least id no group has, or
\* GroupIdMax.
FreeId == LeastOf((Ids \union {GroupIdMax}) \ ListedIds)

\* Where the active sectors hold items of a group: position in the active list, position
\* in the log, in the order a scan over the sectors meets them.
ItemsIn(list, id) ==
    {c \in (DOMAIN list) \X (1 .. Slices) :
        /\ c[2] \in LiveAt(flash[list[c[1]]].log)
        /\ flash[list[c[1]]].log[c[2]].key[1] = id}

Before(c, d) == c[1] < d[1] \/ (c[1] = d[1] /\ c[2] <= d[2])

\* Mutant: only the first sector is scanned.
LoadedOfFirst(list) ==
    LET S == {c \in ItemsIn(list, 0) : c[1] = 1}
        it(c) == flash[list[c[1]]].log[c[2]]
    IN  [n \in 1 .. Cardinality(S) |->
            LET c == CHOOSE x \in S : Cardinality({y \in S : Before(y, x)}) = n
            IN  [id |-> it(c).val, name |-> it(c).key[2]]]

\* storage_load_groups
Loaded(list) ==
    LET S == ItemsIn(list, 0)
        it(c) == flash[list[c[1]]].log[c[2]]
    IN  [n \in 1 .. Cardinality(S) |->
            LET c == CHOOSE x \in S : Cardinality({y \in S : Before(y, x)}) = n
            IN  [id |-> it(c).val, name |-> it(c).key[2]]]

-----------------------------------------------------------------------------
(* jekv_storage_open_group *)

\* No call is being served.
Ready == pc = "ready" /\ del = 0

\* A group that is listed is opened without a step; one for which there is no id is refused.
OpenFound(g) == Ready /\ Listed(g) /\ UNCHANGED gvars

OpenFull(g) == Ready /\ ~ Listed(g) /\ FreeId = GroupIdMax /\ UNCHANGED gvars

\* Mutant: the group is listed and not written.
OpenListed(g) ==
    /\ Ready /\ ~ Listed(g) /\ FreeId # GroupIdMax
    /\ groups' = Append(groups, [id |-> FreeId, name |-> g])
    /\ UNCHANGED <<flash, loaded, pc, op, gc, res, lost, crashes, del, req, ret>>

\* A new group is written as an item of group 0.
OpenNew(g) ==
    /\ Ready /\ ~ Listed(g) /\ FreeId # GroupIdMax
    /\ SetBegin(<<0, g>>, FreeId)
    /\ UNCHANGED <<groups, del, req, ret>>

Opening == op.k \in GroupKey

\* Once the item is written the group is listed; if it is not, it is not.
OpenAdd ==
    /\ Opening
    /\ EraseOld
    /\ groups' = Append(groups, [id |-> op.v, name |-> op.k[2]])
    /\ UNCHANGED <<del, req, ret>>

-----------------------------------------------------------------------------
(* jekv_storage_del_group *)

DelGroupBegin(id) ==
    /\ Ready /\ del' = id
    /\ UNCHANGED <<flash, loaded, pc, op, gc, res, lost, crashes, groups, req, ret>>

\* Mutant: the scan stays in the first sector.
ToDeleteFirst == {c \in ItemsIn(active, del) : c[1] = 1}

\* Mutant: the items of group 0 are scanned too.
ToDeleteAny == ItemsIn(active, del) \union ItemsIn(active, 0)

ToDelete == ItemsIn(active, del)

\* Items are erased in the order of a scan over the active sectors; the group stays.
DelGroupItem ==
    /\ del # 0
    /\ \E c \in ToDelete :
          /\ \A d \in ToDelete : Before(c, d)
          /\ LET it == flash[active[c[1]]].log[c[2]] IN DropItem(active[c[1]], it.at, it.span)
    /\ UNCHANGED <<active, idle, serial, pc, op, gc, res, lost, crashes, groups, del, req, ret>>

DelGroupEnd ==
    /\ del # 0 /\ ToDelete = {}
    /\ del' = 0
    /\ UNCHANGED <<flash, loaded, pc, op, gc, res, lost, crashes, groups, req, ret>>

-----------------------------------------------------------------------------
(* Items of the groups, as in JekvStore, through a handle that holds an id *)

ItemCall(g, n) ==
    LET k == <<g.id, n>>
    IN  /\ Ready
        /\ \/ \E d \in Data : SetSame(k, d) /\ ret' = "ok" /\ UNCHANGED req
           \/ \E d \in Data : /\ SetBegin(k, d)
                             /\ req' = [k |-> <<g.name, n>>, v |-> d] /\ ret' = "none"
           \/ Delete(k) /\ UNCHANGED <<req, ret>>
        /\ UNCHANGED <<groups, del>>

\* The steps of a call that has begun and of a start, whose end loads the groups.
StoreStep ==
    /\ ~ (pc = "eraseold" /\ Opening) /\ Step
    /\ groups' = IF pc = "finish" THEN Loaded(active') ELSE groups
    /\ req' = IF pc' = "ready" THEN NoCall ELSE req
    /\ ret' = IF res' # res /\ ~ Opening THEN res' ELSE ret
    /\ UNCHANGED del

GroupPowerOff ==
    /\ PowerOff
    /\ groups' = <<>> /\ del' = 0
    /\ UNCHANGED <<req, ret>>

\* jekv_storage_deinit deletes the list and has the sectors unloaded.
GroupUnload ==
    /\ Ready /\ Unload
    /\ groups' = <<>>
    /\ UNCHANGED <<del, req, ret>>

GroupStep == StoreStep \/ OpenAdd \/ DelGroupItem \/ DelGroupEnd

GroupCall ==
    \/ \E g \in GroupNames : OpenFound(g) \/ OpenFull(g) \/ OpenNew(g)
    \/ \E g \in Range(groups) : DelGroupBegin(g.id) \/ \E n \in ItemNames : ItemCall(g, n)

GroupInit == Init /\ groups = <<>> /\ del = 0 /\ req = NoCall /\ ret = "none"

GroupNext == GroupStep \/ GroupCall \/ GroupUnload \/ GroupPowerOff

GroupSpec == GroupInit /\ [][GroupNext]_gvars

-----------------------------------------------------------------------------
(* Properties *)

NoGroupLost == lost \cap GroupKey = {}

\* The id flash gives a group name.
IdOf(g) == Lookup(<<0, g>>)

\* Whenever calls are served the list of groups in RAM holds the groups of the flash, each
\* once: jekv_storage_open_group, which trusts the list, neither opens a group twice nor
\* gives an id of a group it does not know of to another.
ListIsFlash ==
    Idle /\ NoGroupLost =>
        /\ {<<groups[n].name, groups[n].id>> : n \in DOMAIN groups}
              = {<<g, IdOf(g)>> : g \in {h \in GroupNames : IdOf(h) # NoValue}}
        /\ \A m, n \in DOMAIN groups : m # n => groups[m].name # groups[n].name

\* No two groups ever have the same id, in flash, whatever is being written, collected or
\* recovered.
IdsApart ==
    NoGroupLost => \A g \in GroupNames : IdOf(g) # NoValue =>
                      \A h \in GroupNames \ {g} : IdOf(h) # IdOf(g)

\* A group that is in flash keeps its id in every step, over collections, power failures
\* and starts: handles and items name a group by its id alone.
KeepsId ==
    [][\A g \in GroupNames : IdOf(g) # NoValue /\ NoGroupLost' => (IdOf(g))' = IdOf(g)]_gvars

\* An item under an id was set through a handle of the group that has the id, so there is
\* one: no items are left to the next group that gets the id.
ItemsHaveGroup ==
    NoGroupLost =>
        \A s \in Sector : \A i \in LiveAt(flash[s].log) :
            IsUsed(flash[s].hdr) /\ flash[s].log[i].key[1] # 0
            => \E g \in GroupNames : IdOf(g) = flash[s].log[i].key[1]

\* jekv_del_group returns with the group empty.
DelGroupEmpties ==
    [][\A id \in Ids : del = id /\ del' = 0 /\ pc' = "ready" =>
          \A n \in ItemNames : <<id, n>> \in lost \/ (Lookup(<<id, n>>))' = NoValue]_gvars

-----------------------------------------------------------------------------
(* The inductive invariant behind the properties above *)

\* Group 0 holds ids, a call writes none but ids to it, and no call begins while a group is
\* being deleted.
GroupType ==
    /\ groups \in Seq([id : Ids, name : GroupNames])
    /\ del \in Ids \union {0} /\ (del # 0 => pc = "ready")
    /\ Opening => op.v \in Ids
    /\ \A s \in Sector : \A i \in LiveAt(flash[s].log) :
          Used(s) /\ It(s, i).key \in GroupKey => It(s, i).val \in Ids

\* The id that a group is being opened with, or was when power failed, is no other group's.
OpensUnused ==
    NoGroupLost /\ Opening =>
        /\ IdOf(op.k[2]) \in {NoValue, op.v}
        /\ \A g \in GroupNames \ {op.k[2]} : IdOf(g) # op.v

\* While calls are served the list lacks none of the groups in flash but the one that is
\* being opened, which had no item.
ListFollows ==
    Serving /\ NoGroupLost =>
        /\ \A n \in DOMAIN groups : groups[n].id = IdOf(groups[n].name)
        /\ \A g \in GroupNames : Listed(g) \/ IdOf(g) = NoValue \/ op.k = <<0, g>>
        /\ \A m, n \in DOMAIN groups : m # n => groups[m].name # groups[n].name
        /\ Opening => ~ Listed(op.k[2]) /\ ~ op.found

\* An item is written under the id of a group.
WritesOwned ==
    NoGroupLost /\ op.k \in DataKey => \E g \in GroupNames : IdOf(g) = op.k[1]

GroupInv ==
    /\ GroupType /\ OpensUnused /\ IdsApart
    /\ ListFollows /\ WritesOwned /\ ItemsHaveGroup

-----------------------------------------------------------------------------
(* The groups implement KVStore, with keys that are pairs of names *)

\* A key is not covered if it, or any group, met a hazard.
LostPairs ==
    LET names == {k[2] : k \in lost \cap DataKey}
    IN  {p \in GroupNames \X ItemNames : ~ NoGroupLost \/ p[2] \in names}

\* What flash holds under the ids of the groups.
Held == [k \in DataKey |-> Lookup(k)]

Directory == INSTANCE KVStore WITH
    Keys   <- GroupNames \X ItemNames,
    Values <- Data,
    kv     <- [p \in GroupNames \X ItemNames |->
                  LET id == IdOf(p[1])
                  IN  IF p \in LostPairs \/ id = NoValue THEN NoValue ELSE Held[<<id, p[2]>>]],
    req    <- req,
    up     <- Serving,
    res    <- ret,
    lost   <- LostPairs,
    Errors <- {"toolong", "full", "nospace"}

\* Names of groups and items together are the keys of one map: opening a group changes
\* nothing, what is set in a group is read in that group and in no other, and deleting a
\* group takes its items one by one and no other's.
KeepsGroupPromise == Directory!KVSpec
=============================================================================
