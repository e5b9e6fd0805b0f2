------------------------------ MODULE KVStore ------------------------------
(***************************************************************************)
(* What a jekv partition promises its callers: a map from keys to values.  *)
(* A set takes effect at one moment between its call and its return, once  *)
(* or not at all; it returns "ok" only if it has taken effect and an error *)
(* only if it has not.  Power may fail at any moment: what had been        *)
(* returned stays, and the call that was cut short has either taken effect *)
(* or not by the time the store is up again.  Nothing is promised of the   *)
(* keys in `lost'.                                                         *)
(***************************************************************************)
CONSTANTS Keys, Values, NoValue, Errors

VARIABLES
    kv,     \* the map
    req,    \* the set call being served
    up,     \* the store serves calls
    res,    \* how the last set call returned
    lost    \* keys the promise does not cover

kvars == <<kv, req, up, res, lost>>

NoReq == [k |-> NoValue, v |-> NoValue]

\* The map m, except for the keys that are not covered, which it forgets.
Covered(m) == kv' = [k \in Keys |-> IF k \in lost' THEN NoValue ELSE m[k]]

Applied == IF req = NoReq THEN kv ELSE [kv EXCEPT ![req.k] = req.v]

KVInit ==
    /\ kv = [k \in Keys |-> NoValue] /\ req = NoReq /\ up = FALSE
    /\ res = "none" /\ lost = {}

SetCall(k, v) ==
    /\ up /\ req = NoReq
    /\ req' = [k |-> k, v |-> v] /\ res' = "none"
    /\ UNCHANGED <<up, lost>>
    /\ kv[k] # v /\ UNCHANGED kv

\* The key has the value already.
SetNothing(k, v) ==
    /\ up /\ req = NoReq /\ res' = "ok"
    /\ UNCHANGED <<req, up, lost>>
    /\ kv[k] = v \/ k \in lost
    /\ UNCHANGED kv

\* The call is refused before anything is done.
SetRefused(k, v) ==
    /\ up /\ req = NoReq /\ res' \in Errors
    /\ UNCHANGED <<req, up, lost>>
    /\ k \in lost \/ kv[k] # v
    /\ UNCHANGED kv

\* The call takes effect; after a power failure, during the next start.
Commit ==
    /\ req # NoReq
    /\ UNCHANGED <<req, up, res>>
    /\ lost \subseteq lost' /\ Covered(Applied)

\* It may take effect in the step that returns.
ReturnOk ==
    /\ up /\ req # NoReq
    /\ req' = NoReq /\ res' = "ok"
    /\ UNCHANGED up
    /\ lost \subseteq lost' /\ (Covered(kv) \/ Covered(Applied))
    /\ req.k \in lost' \/ kv'[req.k] = req.v

ReturnError ==
    /\ up /\ req # NoReq
    /\ req' = NoReq /\ res' \in Errors
    /\ UNCHANGED <<up, lost>>
    /\ req.k \in lost \/ kv[req.k] # req.v
    /\ UNCHANGED kv

DeleteCall(k) ==
    /\ up /\ req = NoReq
    /\ UNCHANGED <<req, up, res, lost>>
    /\ kv' = [kv EXCEPT ![k] = NoValue]

\* Power fails, or the partition is deinitialised.
Fail ==
    /\ up' = FALSE
    /\ UNCHANGED <<req, res>>
    /\ lost \subseteq lost' /\ Covered(kv)

Start ==
    /\ ~ up /\ up' = TRUE
    /\ req' = NoReq
    /\ UNCHANGED <<res, lost, kv>>

\* A hazard strikes a key.
Lose ==
    /\ lost' # lost /\ lost \subseteq lost'
    /\ UNCHANGED <<req, up, res>>
    /\ Covered(kv)

KVNext ==
    \/ \E k \in Keys : \/ \E v \in Values : SetCall(k, v) \/ SetNothing(k, v) \/ SetRefused(k, v)
                       \/ DeleteCall(k)
    \/ Commit \/ ReturnOk \/ ReturnError \/ Fail \/ Start \/ Lose

KVSpec == KVInit /\ [][KVNext]_kvars

=============================================================================
