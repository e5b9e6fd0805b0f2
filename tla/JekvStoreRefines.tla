-------------------------- MODULE JekvStoreRefines --------------------------
(* JekvStore implements KVStore. *)
EXTENDS JekvStore

\* Calls are served: the store is loaded and has power.
Serving ==
    \/ pc \in {"ready", "write", "data", "eraseold"}
    \/ pc \in {"gcinit", "gcmark", "gccopy", "gcdata", "gcerase"} /\ ~ gc.rec

Promise == INSTANCE KVStore WITH
    kv     <- [k \in Keys |-> IF k \in lost THEN NoValue ELSE Lookup(k)],
    req    <- [k |-> op.k, v |-> op.v],
    up     <- Serving,
    Errors <- {"toolong", "full", "nospace"}

\* The partition keeps the promise of KVStore: whatever the flash holds between two
\* flash operations of a call, of a collection or of a start reads as the map before
\* the call or after it, an acknowledged set stays, and a refused one leaves no trace.
KeepsPromise == Promise!KVSpec
=============================================================================
