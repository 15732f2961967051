---------------------------- MODULE AccountGate ----------------------------
(***************************************************************************)
(* Pool.acquireGate: "cancellable per-account single-flight locks, removed *)
(* when the last waiter leaves".  A gate is a heap object with a channel   *)
(* of capacity one, which holds a token while the gate is free, and a      *)
(* count of the callers that point to it.  The map gates finds the object  *)
(* of a key; the last caller to leave deletes the entry, and a later       *)
(* caller makes a new object.  Two callers of one key that point to        *)
(* different objects would both be inside.                                 *)
(*                                                                         *)
(* One action is one critical section of gateMu or one channel operation.  *)
(***************************************************************************)
EXTENDS Naturals, FiniteSets

CONSTANTS Keys,     \* account ids, and "@scheduler-snapshot"
          Callers,  \* goroutines
          Objects,  \* the heap: accountGate objects
          Nobody    \* no object, no key, no owner

ASSUME GateAssumption ==
    /\ IsFiniteSet(Callers)
    /\ Nobody \notin Keys \cup Callers \cup Objects

VARIABLES
    gates,  \* Pool.gates: key -> object
    token,  \* per object: the number of tokens in its channel
    refs,   \* per object: its field refs
    pc,     \* per caller: its place in acquireGate and in the unlock function
    key,    \* per caller: the id it asked for
    gate    \* per caller: its local variable gate

gateVars == <<gates, token, refs, pc, key, gate>>

Places == {"idle", "select", "inside", "drop"}

TypeOK ==
    /\ DOMAIN gates \subseteq Keys
    /\ gates \in [DOMAIN gates -> Objects]
    /\ token \in [Objects -> 0 .. 1]
    /\ refs \in [Objects -> Nat]
    /\ pc \in [Callers -> Places]
    /\ key \in [Callers -> Keys \cup {Nobody}]
    /\ gate \in [Callers -> Objects \cup {Nobody}]

Init ==
    /\ gates = [k \in {} |-> Nobody]
    /\ token = [g \in Objects |-> 0]
    /\ refs = [g \in Objects |-> 0]
    /\ pc = [c \in Callers |-> "idle"]
    /\ key = [c \in Callers |-> Nobody]
    /\ gate = [c \in Callers |-> Nobody]

\* Objects nothing points to: one of them is what new(accountGate) returns.
Free(g) == /\ \A k \in DOMAIN gates : gates[k] # g
           /\ \A c \in Callers : gate[c] # g

Point(c, k, g) ==
    /\ key' = [key EXCEPT ![c] = k]
    /\ gate' = [gate EXCEPT ![c] = g]
    /\ pc' = [pc EXCEPT ![c] = "select"]

\* The first section of gateMu, when the map has no gate for k.
Create(c, k) ==
    /\ pc[c] = "idle"
    /\ k \notin DOMAIN gates
    /\ \E g \in Objects :
          /\ Free(g)
          /\ gates' = [j \in DOMAIN gates \cup {k} |-> IF j = k THEN g ELSE gates[j]]
          /\ token' = [token EXCEPT ![g] = 1]
          /\ refs' = [refs EXCEPT ![g] = 1]
          /\ Point(c, k, g)

\* The same section, when it has one.
Join(c, k) ==
    /\ pc[c] = "idle"
    /\ k \in DOMAIN gates
    /\ refs' = [refs EXCEPT ![gates[k]] = @ + 1]
    /\ Point(c, k, gates[k])
    /\ UNCHANGED <<gates, token>>

\* The select receives the token.
Receive(c) ==
    /\ pc[c] = "select"
    /\ token[gate[c]] = 1
    /\ token' = [token EXCEPT ![gate[c]] = 0]
    /\ pc' = [pc EXCEPT ![c] = "inside"]
    /\ UNCHANGED <<gates, refs, key, gate>>

\* The select sees that the context is done.
Cancel(c) ==
    /\ pc[c] = "select"
    /\ pc' = [pc EXCEPT ![c] = "drop"]
    /\ UNCHANGED <<gates, token, refs, key, gate>>

\* (mutant) The unlock function only drops the reference.
SendBack_Silent(c) ==
    /\ pc[c] = "inside"
    /\ pc' = [pc EXCEPT ![c] = "drop"]
    /\ UNCHANGED <<gates, token, refs, key, gate>>

\* unlock: the token is sent back first.  The channel has room for one.
SendBack(c) ==
    /\ pc[c] = "inside"
    /\ token[gate[c]] = 0
    /\ token' = [token EXCEPT ![gate[c]] = 1]
    /\ pc' = [pc EXCEPT ![c] = "drop"]
    /\ UNCHANGED <<gates, refs, key, gate>>

\* (mutant) Whoever leaves removes the gate.
Drop_Always(c) ==
    /\ pc[c] = "drop"
    /\ refs' = [refs EXCEPT ![gate[c]] = @ - 1]
    /\ gates' = [k \in DOMAIN gates \ {key[c]} |-> gates[k]]
    /\ pc' = [pc EXCEPT ![c] = "idle"]
    /\ key' = [key EXCEPT ![c] = Nobody]
    /\ gate' = [gate EXCEPT ![c] = Nobody]
    /\ UNCHANGED token

\* (mutant) The last one forgets the entry.
Drop_KeepsEntry(c) ==
    /\ pc[c] = "drop"
    /\ refs' = [refs EXCEPT ![gate[c]] = @ - 1]
    /\ pc' = [pc EXCEPT ![c] = "idle"]
    /\ key' = [key EXCEPT ![c] = Nobody]
    /\ gate' = [gate EXCEPT ![c] = Nobody]
    /\ UNCHANGED <<gates, token>>

\* drop(): the second section of gateMu.
Drop(c) ==
    /\ pc[c] = "drop"
    /\ refs' = [refs EXCEPT ![gate[c]] = @ - 1]
    /\ gates' = IF refs[gate[c]] = 1
                THEN [k \in DOMAIN gates \ {key[c]} |-> gates[k]]
                ELSE gates
    /\ pc' = [pc EXCEPT ![c] = "idle"]
    /\ key' = [key EXCEPT ![c] = Nobody]
    /\ gate' = [gate EXCEPT ![c] = Nobody]
    /\ UNCHANGED token

Next == \E c \in Callers :
    \/ \E k \in Keys : Create(c, k) \/ Join(c, k)
    \/ Receive(c) \/ Cancel(c) \/ SendBack(c) \/ Drop(c)

Spec == Init /\ [][Next]_gateVars

\* Holders leave and drop; the receivers of a channel are served in order.
Fairness == \A c \in Callers : /\ WF_gateVars(SendBack(c) \/ Drop(c))
                               /\ SF_gateVars(Receive(c))

FairSpec == Spec /\ Fairness

-----------------------------------------------------------------------------
(* Properties. *)

Inside(k) == {c \in Callers : pc[c] = "inside" /\ key[c] = k}
Users(k) == {c \in Callers : pc[c] # "idle" /\ key[c] = k}

\* Two callers of acquireGate for one id are never inside together, also when
\* the gate was removed and made again while others came and went.
MutualExclusion == \A k \in Keys : \A c, d \in Inside(k) : c = d

\* A gate is in the map exactly while somebody uses it, with their number in
\* refs: nothing is left behind ("single-flight locks leaked").
GatesAreCounted ==
    /\ DOMAIN gates = {k \in Keys : Users(k) # {}}
    /\ \A k \in DOMAIN gates : refs[gates[k]] = Cardinality(Users(k))

\* The gates implement one mutex per key.
Only(S) == IF S = {} THEN Nobody ELSE CHOOSE c \in S : TRUE
Owner == [k \in Keys |-> Only(Inside(k))]
Mutex == INSTANCE KeyedMutex WITH owner <- Owner
MutexSpec == Mutex!MutexSpec

\* Whoever waits for a gate gets it or is cancelled: the token is not lost
\* when a waiter is cancelled or the gate is made anew.
GateIsReached == \A c \in Callers : pc[c] = "select" ~> pc[c] # "select"
=============================================================================
