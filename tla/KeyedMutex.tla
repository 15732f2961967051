----------------------------- MODULE KeyedMutex -----------------------------
(***************************************************************************)
(* One mutex per key, as the users of Pool.acquireGate see it: a gate is   *)
(* held by at most one caller.  AccountGate implements it with channels    *)
(* and reference counts; Credentials is built on it.                       *)
(***************************************************************************)
CONSTANTS Keys,     \* account ids
          Callers,  \* goroutines
          Nobody    \* "not held"

ASSUME MutexAssumption == Nobody \notin Callers

VARIABLE owner      \* per key: the caller that holds its gate, or Nobody

MutexTypeOK == owner \in [Keys -> Callers \cup {Nobody}]

MutexInit == owner = [k \in Keys |-> Nobody]

\* (mutant) The gate is not exclusive.
TakeGate_Open(c, k) == owner' = [owner EXCEPT ![k] = c]

\* acquireGate returned without an error.
TakeGate(c, k) ==
    /\ owner[k] = Nobody
    /\ owner' = [owner EXCEPT ![k] = c]

\* The unlock function was called by the holder.
GiveGate(c, k) ==
    /\ owner[k] = c
    /\ owner' = [owner EXCEPT ![k] = Nobody]

MutexNext == \E c \in Callers, k \in Keys : TakeGate(c, k) \/ GiveGate(c, k)

MutexSpec == MutexInit /\ [][MutexNext]_owner
=============================================================================
