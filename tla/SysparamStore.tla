--------------------------- MODULE SysparamStore ----------------------------
(***************************************************************************)
(* What sysparam.h promises of the parameter store while the power stays   *)
(* on: a map from keys to values, changed by one call at a time.  A call   *)
(* takes effect as a whole when its status is decided: OK means the key    *)
(* now has the value, any other status that nothing has changed.           *)
(***************************************************************************)
CONSTANTS Keys, Values, Nil

VARIABLES
    store,      \* store[k]: the value of k, Nil if it has none
    request,    \* the call in progress; its key is Nil if there is none
    status      \* what the call returns, "none" while that is open

storeVars == <<store, request, status>>

NoRequest == [key |-> Nil, val |-> Nil]
Refusals == {"NOTFOUND", "ERR_FULL"}

Init ==
    /\ store = [k \in Keys |-> Nil]
    /\ request = NoRequest
    /\ status = "none"

Request(k, v) ==
    /\ request = NoRequest
    /\ request' = [key |-> k, val |-> v]
    /\ UNCHANGED <<store, status>>

Accept ==
    /\ request # NoRequest /\ status = "none"
    /\ store' = [store EXCEPT ![request.key] = request.val]
    /\ status' = "OK"
    /\ UNCHANGED request

Refuse ==
    /\ request # NoRequest /\ status = "none"
    /\ status' \in Refusals
    /\ UNCHANGED <<store, request>>

\* A call that need not write anything is decided as it begins.
RequestAtOnce(k, v) ==
    /\ request = NoRequest
    /\ request' = [key |-> k, val |-> v]
    /\ \/ store[k] = v /\ status' = "OK"
       \/ v = Nil /\ store[k] = Nil /\ status' = "NOTFOUND"
    /\ UNCHANGED store

Reply ==
    /\ status # "none"
    /\ request' = NoRequest /\ status' = "none"
    /\ UNCHANGED store

Next ==
    \/ \E k \in Keys, v \in Values \cup {Nil} : Request(k, v) \/ RequestAtOnce(k, v)
    \/ Accept \/ Refuse \/ Reply

Spec == Init /\ [][Next]_storeVars
=============================================================================
