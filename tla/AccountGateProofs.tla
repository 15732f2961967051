------------------------- MODULE AccountGateProofs -------------------------
(***************************************************************************)
(* Proofs about AccountGate, for every set of keys, callers and objects.   *)
(***************************************************************************)
EXTENDS AccountGate, FiniteSetTheorems, TLAPS

\* Whoever uses a key points to the object the map has for it.
Pointers ==
    \A c \in Callers :
        IF pc[c] = "idle"
        THEN key[c] = Nobody /\ gate[c] = Nobody
        ELSE /\ key[c] \in DOMAIN gates
             /\ gate[c] = gates[key[c]]

\* No object serves two keys.
OwnObjects == \A j, k \in DOMAIN gates : gates[j] = gates[k] => j = k

\* The count of an object, and that no entry outlives its users.
Counted == \A k \in DOMAIN gates : /\ refs[gates[k]] = Cardinality(Users(k))
                                   /\ Users(k) # {}

\* The token is in the channel unless one caller is inside.
Tokens ==
    /\ MutualExclusion
    /\ \A k \in DOMAIN gates : token[gates[k]] = 1 <=> Inside(k) = {}

GateInv == TypeOK /\ Pointers /\ OwnObjects /\ Counted /\ Tokens

LEMMA UsersFinite == ASSUME NEW k PROVE IsFiniteSet(Users(k))
<1>1. Users(k) \subseteq Callers BY DEF Users
<1> QED BY <1>1, GateAssumption, FS_Subset

LEMMA InitGateInv == Init => GateInv
<1> SUFFICES ASSUME Init PROVE GateInv OBVIOUS
<1> USE DEF Init
<1>1. TypeOK BY DEF TypeOK, Places
<1>2. Pointers BY DEF Pointers
<1>3. OwnObjects /\ Counted BY DEF OwnObjects, Counted
<1>4. Tokens BY DEF Tokens, MutualExclusion, Inside
<1> QED BY <1>1, <1>2, <1>3, <1>4 DEF GateInv

\* An object is free only if no entry and no caller has it.
LEMMA CreateKeeps ==
    ASSUME GateInv, NEW c \in Callers, NEW k \in Keys, Create(c, k) PROVE GateInv'
<1> USE DEF GateInv
<1> PICK g \in Objects :
        /\ Free(g)
        /\ gates' = [j \in DOMAIN gates \cup {k} |-> IF j = k THEN g ELSE gates[j]]
        /\ token' = [token EXCEPT ![g] = 1]
        /\ refs' = [refs EXCEPT ![g] = 1]
        /\ Point(c, k, g)
    BY DEF Create
<1>1. pc[c] = "idle" /\ k \notin DOMAIN gates /\ key[c] = Nobody /\ gate[c] = Nobody
    BY DEF Create, Pointers
<1>2. DOMAIN gates' = DOMAIN gates \cup {k} /\ gates'[k] = g
      /\ \A j \in DOMAIN gates : gates'[j] = gates[j] /\ gates[j] # g /\ j # k
    BY <1>1 DEF Free
<1>3. /\ pc' = [pc EXCEPT ![c] = "select"]
      /\ key' = [key EXCEPT ![c] = k]
      /\ gate' = [gate EXCEPT ![c] = g]
    BY DEF Point
<1>4. TypeOK' BY <1>2, <1>3 DEF TypeOK, Places
<1>5. Pointers' BY <1>2, <1>3, <1>1 DEF Pointers, TypeOK
<1>6. OwnObjects' BY <1>2 DEF OwnObjects
<1>7. \A j \in DOMAIN gates : Users(j)' = Users(j)
    BY <1>1, <1>2, <1>3 DEF Users, TypeOK
<1>8. Users(k)' = {c}
    BY <1>1, <1>3 DEF Users, TypeOK, Pointers
<1>9. Counted'
  <2>1. Cardinality({c}) = 1 BY FS_Singleton
  <2>2. refs'[g] = 1 /\ \A j \in DOMAIN gates : refs'[gates[j]] = refs[gates[j]]
      BY <1>2 DEF TypeOK
  <2> QED BY <1>2, <1>7, <1>8, <2>1, <2>2 DEF Counted
<1>10. \A j : Inside(j)' = Inside(j) BY <1>1, <1>3 DEF Inside, TypeOK
<1>11. Inside(k) = {} BY <1>1, GateAssumption DEF Inside, Pointers
<1>12. Tokens' BY <1>2, <1>10, <1>11 DEF Tokens, MutualExclusion, TypeOK
<1> QED BY <1>4, <1>5, <1>6, <1>9, <1>12

LEMMA JoinKeeps ==
    ASSUME GateInv, NEW c \in Callers, NEW k \in Keys, Join(c, k) PROVE GateInv'
<1> USE DEF GateInv
<1>1. /\ pc[c] = "idle" /\ k \in DOMAIN gates
      /\ refs' = [refs EXCEPT ![gates[k]] = @ + 1]
      /\ pc' = [pc EXCEPT ![c] = "select"]
      /\ key' = [key EXCEPT ![c] = k]
      /\ gate' = [gate EXCEPT ![c] = gates[k]]
      /\ gates' = gates /\ token' = token
    BY DEF Join, Point
<1>4. TypeOK' BY <1>1 DEF TypeOK, Places
<1>5. Pointers' BY <1>1 DEF Pointers, TypeOK
<1>6. OwnObjects' BY <1>1 DEF OwnObjects
<1>7. \A j \in DOMAIN gates \ {k} : Users(j)' = Users(j)
    BY <1>1, GateAssumption DEF Users, TypeOK, Pointers
<1>8. Users(k)' = Users(k) \cup {c} /\ c \notin Users(k)
    BY <1>1 DEF Users, TypeOK
<1>9. Counted'
  <2>1. Cardinality(Users(k) \cup {c}) = Cardinality(Users(k)) + 1
      BY <1>8, UsersFinite, FS_AddElement
  <2>2. refs'[gates[k]] = refs[gates[k]] + 1
      BY <1>1 DEF TypeOK
  <2>3. \A j \in DOMAIN gates \ {k} : refs'[gates[j]] = refs[gates[j]]
      BY <1>1 DEF TypeOK, OwnObjects
  <2> QED BY <1>1, <1>7, <1>8, <2>1, <2>2, <2>3 DEF Counted
<1>10. \A j : Inside(j)' = Inside(j) BY <1>1 DEF Inside, TypeOK
<1>12. Tokens' BY <1>1, <1>10 DEF Tokens, MutualExclusion
<1> QED BY <1>4, <1>5, <1>6, <1>9, <1>12

\* Neither the map, the counts nor the users change at the channel.
LEMMA ChannelKeeps ==
    ASSUME GateInv, NEW c \in Callers, Receive(c) \/ Cancel(c) \/ SendBack(c)
    PROVE  GateInv'
<1> USE DEF GateInv
<1>1. /\ pc[c] # "idle" /\ gates' = gates /\ refs' = refs /\ key' = key /\ gate' = gate
      /\ pc' = [pc EXCEPT ![c] = pc'[c]] /\ pc'[c] \in Places \ {"idle"}
    BY DEF Receive, Cancel, SendBack, TypeOK, Places
<1>2. TypeOK' BY <1>1 DEF TypeOK, Receive, Cancel, SendBack
<1>3. Pointers' /\ OwnObjects' BY <1>1 DEF Pointers, OwnObjects, TypeOK
<1>4. \A j : Users(j)' = Users(j) BY <1>1 DEF Users, TypeOK
<1>5. Counted' BY <1>1, <1>4 DEF Counted
<1>6. key[c] \in DOMAIN gates /\ gate[c] = gates[key[c]] BY <1>1 DEF Pointers
<1>7. \A j : j # key[c] => Inside(j)' = Inside(j) BY <1>1 DEF Inside, TypeOK
<1>8. \A j \in DOMAIN gates : j # key[c] => gates[j] # gate[c]
    BY <1>6 DEF OwnObjects
<1>9. CASE Receive(c)
  <2>1. token[gate[c]] = 1 /\ token' = [token EXCEPT ![gate[c]] = 0] /\ pc[c] = "select"
        /\ pc' = [pc EXCEPT ![c] = "inside"]
      BY <1>9 DEF Receive
  <2>2. Inside(key[c]) = {} BY <1>6, <2>1 DEF Tokens
  <2>3. Inside(key[c])' = {c} BY <1>1, <2>1, <2>2 DEF Inside, TypeOK
  <2>4. token'[gate[c]] = 0 /\ \A j \in DOMAIN gates : j # key[c] => token'[gates[j]] = token[gates[j]]
      BY <1>6, <1>8, <2>1 DEF TypeOK
  <2>5. MutualExclusion' BY <1>1, <1>7, <2>3 DEF MutualExclusion, Tokens
  <2>6. \A k \in DOMAIN gates : token'[gates[k]] = 1 <=> Inside(k)' = {}
      BY <1>1, <1>6, <1>7, <2>3, <2>4 DEF Tokens
  <2> QED BY <1>1, <1>2, <1>3, <1>5, <2>5, <2>6 DEF Tokens
<1>10. CASE Cancel(c)
  <2>1. token' = token /\ pc[c] = "select" /\ pc' = [pc EXCEPT ![c] = "drop"]
      BY <1>10 DEF Cancel
  <2>2. \A j : Inside(j)' = Inside(j) BY <1>1, <2>1 DEF Inside, TypeOK
  <2> QED BY <1>1, <1>2, <1>3, <1>5, <2>1, <2>2 DEF Tokens, MutualExclusion
<1>11. CASE SendBack(c)
  <2>1. token' = [token EXCEPT ![gate[c]] = 1] /\ pc[c] = "inside"
        /\ pc' = [pc EXCEPT ![c] = "drop"]
      BY <1>11 DEF SendBack
  <2>2. Inside(key[c]) = {c} BY <1>6, <2>1 DEF Tokens, MutualExclusion, Inside, TypeOK
  <2>3. Inside(key[c])' = {} BY <1>1, <2>1, <2>2 DEF Inside, TypeOK
  <2>4. token'[gate[c]] = 1 /\ \A j \in DOMAIN gates : j # key[c] => token'[gates[j]] = token[gates[j]]
      BY <1>6, <1>8, <2>1 DEF TypeOK
  <2>5. MutualExclusion' BY <1>1, <1>7, <2>3 DEF MutualExclusion, Tokens
  <2>6. \A k \in DOMAIN gates : token'[gates[k]] = 1 <=> Inside(k)' = {}
      BY <1>1, <1>6, <1>7, <2>3, <2>4 DEF Tokens
  <2> QED BY <1>1, <1>2, <1>3, <1>5, <2>5, <2>6 DEF Tokens
<1> QED BY <1>9, <1>10, <1>11

LEMMA DropKeeps ==
    ASSUME GateInv, NEW c \in Callers, Drop(c) PROVE GateInv'
<1> USE DEF GateInv
<1> PICK k \in Keys : k = key[c] BY DEF Drop, Pointers, TypeOK
<1>1. /\ pc[c] = "drop" /\ token' = token
      /\ refs' = [refs EXCEPT ![gate[c]] = @ - 1]
      /\ pc' = [pc EXCEPT ![c] = "idle"]
      /\ key' = [key EXCEPT ![c] = Nobody]
      /\ gate' = [gate EXCEPT ![c] = Nobody]
      /\ gates' = IF refs[gate[c]] = 1 THEN [j \in DOMAIN gates \ {k} |-> gates[j]] ELSE gates
    BY DEF Drop
<1>2. k \in DOMAIN gates /\ gate[c] = gates[k] /\ c \in Users(k) BY <1>1 DEF Pointers, Users
<1>3. refs[gate[c]] = Cardinality(Users(k)) BY <1>2 DEF Counted
<1>4. /\ IsFiniteSet(Users(k))
      /\ Cardinality(Users(k) \ {c}) = Cardinality(Users(k)) - 1
      /\ Cardinality(Users(k)) \in Nat
    BY <1>2, UsersFinite, FS_RemoveElement, FS_CardinalityType
<1>5. Cardinality(Users(k)) = 1 <=> Users(k) \ {c} = {}
    BY <1>2, <1>4, FS_EmptySet, FS_Singleton, FS_Subset
<1>6. Users(k)' = Users(k) \ {c} /\ \A j : j # k => Users(j)' = Users(j)
    BY <1>1, <1>2 DEF Users, TypeOK
<1>7. \A j : Inside(j)' = Inside(j) BY <1>1 DEF Inside, TypeOK
<1>8. /\ DOMAIN gates' = IF Users(k)' = {} THEN DOMAIN gates \ {k} ELSE DOMAIN gates
      /\ \A j \in DOMAIN gates' : gates'[j] = gates[j]
    BY <1>1, <1>3, <1>5, <1>6
<1>9. TypeOK'
  <2>1. refs[gate[c]] - 1 \in Nat BY <1>3, <1>4, <1>2, FS_EmptySet, FS_CardinalityType
  <2>2. gates' \in [DOMAIN gates' -> Objects] BY <1>1 DEF TypeOK
  <2> QED BY <1>1, <1>8, <2>1, <2>2 DEF TypeOK, Places
<1>10. Pointers'
  <2> SUFFICES ASSUME NEW d \in Callers, pc'[d] # "idle"
               PROVE  key'[d] \in DOMAIN gates' /\ gate'[d] = gates'[key'[d]]
      BY <1>1 DEF Pointers, TypeOK
  <2>1. d # c /\ pc[d] # "idle" /\ key'[d] = key[d] /\ gate'[d] = gate[d]
      BY <1>1 DEF TypeOK
  <2>2. key[d] \in DOMAIN gates /\ gate[d] = gates[key[d]] BY <2>1 DEF Pointers
  <2>3. key[d] = k => d \in Users(k)' BY <1>6, <2>1 DEF Users
  <2> QED BY <1>8, <2>1, <2>2, <2>3
<1>11. OwnObjects' BY <1>8 DEF OwnObjects
<1>12. Counted'
  <2> SUFFICES ASSUME NEW j \in DOMAIN gates'
               PROVE  refs'[gates'[j]] = Cardinality(Users(j)') /\ Users(j)' # {}
      BY DEF Counted
  <2>1. CASE j = k BY <1>1, <1>2, <1>3, <1>4, <1>6, <1>8, <2>1 DEF TypeOK
  <2>2. CASE j # k
    <3>1. j \in DOMAIN gates /\ gates'[j] = gates[j] /\ gates[j] # gate[c]
        BY <1>2, <1>8, <2>2 DEF OwnObjects
    <3>2. refs'[gates[j]] = refs[gates[j]] BY <1>1, <3>1 DEF TypeOK
    <3> QED BY <1>6, <2>2, <3>1, <3>2 DEF Counted
  <2> QED BY <2>1, <2>2
<1>13. Tokens' BY <1>1, <1>7, <1>8 DEF Tokens, MutualExclusion
<1> QED BY <1>9, <1>10, <1>11, <1>12, <1>13

LEMMA NextGateInv == GateInv /\ [Next]_gateVars => GateInv'
<1> SUFFICES ASSUME GateInv, [Next]_gateVars PROVE GateInv' OBVIOUS
<1>1. CASE UNCHANGED gateVars
  BY <1>1 DEF gateVars, GateInv, TypeOK, Pointers, OwnObjects, Counted, Tokens,
              MutualExclusion, Users, Inside
<1>2. CASE Next
  BY <1>2, CreateKeeps, JoinKeeps, ChannelKeeps, DropKeeps DEF Next
<1> QED BY <1>1, <1>2

\* The inductive invariant holds in every reachable state.
THEOREM GateInvariant == Spec => []GateInv
BY InitGateInv, NextGateInv, PTL DEF Spec

\* acquireGate excludes: two callers of one id are never inside together, for
\* any number of callers, keys and generations of gate objects.
THEOREM GatesExclude == Spec => []MutualExclusion
<1>1. GateInv => MutualExclusion BY DEF GateInv, Tokens
<1> QED BY <1>1, GateInvariant, PTL

\* An entry of the map exists exactly while it is in use, and its refs is the
\* number of its users: gates do not leak.
THEOREM GatesDoNotLeak == Spec => []GatesAreCounted
<1>1. GateInv => GatesAreCounted
  <2> SUFFICES ASSUME GateInv PROVE GatesAreCounted OBVIOUS
  <2>1. \A k \in Keys : Users(k) # {} => k \in DOMAIN gates
      BY DEF GateInv, Pointers, Users
  <2>2. \A k \in DOMAIN gates : k \in Keys BY DEF GateInv, TypeOK
  <2> QED BY <2>1, <2>2 DEF GateInv, Counted, GatesAreCounted
<1> QED BY <1>1, GateInvariant, PTL

-----------------------------------------------------------------------------
(* The gates implement KeyedMutex. *)

LEMMA OnlyOne == Only({}) = Nobody /\ \A c : Only({c}) = c
<1>1. \A c : (CHOOSE d \in {c} : TRUE) = c OBVIOUS
<1> QED BY <1>1 DEF Only

LEMMA OwnerMoves ==
    ASSUME NEW CONSTANT k \in Keys, NEW CONSTANT o,
           \A j \in Keys : j # k => Inside(j)' = Inside(j),
           Only(Inside(k)') = o
    PROVE  Owner' = [Owner EXCEPT ![k] = o]
BY DEF Owner

LEMMA InitOwner == Init => Mutex!MutexInit
<1> SUFFICES ASSUME Init PROVE Owner = [k \in Keys |-> Nobody]
    BY DEF Mutex!MutexInit
<1>1. \A k : Inside(k) = {} BY DEF Init, Inside
<1> QED BY <1>1, OnlyOne DEF Owner

LEMMA SameInsideSameOwner ==
    ASSUME \A k \in Keys : Inside(k)' = Inside(k) PROVE Owner' = Owner
BY DEF Owner

LEMMA NextOwner == GateInv /\ [Next]_gateVars => [Mutex!MutexNext]_Owner
<1> SUFFICES ASSUME GateInv, [Next]_gateVars PROVE [Mutex!MutexNext]_Owner OBVIOUS
<1> USE DEF GateInv
<1>0. GateInv' BY NextGateInv
<1>1. CASE UNCHANGED gateVars
  BY <1>1, SameInsideSameOwner DEF gateVars, Inside
<1>2. ASSUME NEW c \in Callers, NEW k \in Keys, Create(c, k) \/ Join(c, k)
      PROVE  Owner' = Owner
  <2>1. pc[c] = "idle" /\ pc' = [pc EXCEPT ![c] = "select"] /\ key' = [key EXCEPT ![c] = k]
      BY <1>2 DEF Create, Join, Point
  <2> QED BY <2>1, SameInsideSameOwner DEF Inside, TypeOK
<1>3. ASSUME NEW c \in Callers, Cancel(c) \/ Drop(c) PROVE Owner' = Owner
  <2>1. pc[c] # "inside" /\ pc' = [pc EXCEPT ![c] = pc'[c]] /\ pc'[c] # "inside"
        /\ \A d \in Callers : d # c => key'[d] = key[d]
      BY <1>3 DEF Cancel, Drop, TypeOK
  <2> QED BY <2>1, SameInsideSameOwner DEF Inside, TypeOK
<1>4. ASSUME NEW c \in Callers, Receive(c) PROVE \E k \in Keys : Mutex!TakeGate(c, k)
  <2>1. pc[c] = "select" /\ pc' = [pc EXCEPT ![c] = "inside"] /\ key' = key /\ token[gate[c]] = 1
      BY <1>4 DEF Receive
  <2>2. key[c] \in DOMAIN gates /\ gate[c] = gates[key[c]] /\ key[c] \in Keys
      BY <2>1 DEF Pointers, TypeOK
  <2>3. Inside(key[c]) = {} BY <2>1, <2>2 DEF Tokens
  <2>4. Inside(key[c])' = {c} /\ \A k : k # key[c] => Inside(k)' = Inside(k)
      BY <2>1, <2>3 DEF Inside, TypeOK
  <2> PICK k \in Keys : k = key[c] BY <2>2
  <2>5. Only(Inside(k)') = c BY <2>1, <2>4, OnlyOne
  <2>6. Owner' = [Owner EXCEPT ![k] = c] BY <2>4, <2>5, OwnerMoves
  <2>7. Owner[k] = Nobody BY <2>3, OnlyOne DEF Owner
  <2> QED BY <2>6, <2>7 DEF Mutex!TakeGate
<1>5. ASSUME NEW c \in Callers, SendBack(c) PROVE \E k \in Keys : Mutex!GiveGate(c, k)
  <2>1. pc[c] = "inside" /\ pc' = [pc EXCEPT ![c] = "drop"] /\ key' = key
      BY <1>5 DEF SendBack
  <2>2. key[c] \in Keys BY <2>1 DEF Pointers, TypeOK
  <2>3. Inside(key[c]) = {c} BY <2>1, <2>2 DEF Tokens, MutualExclusion, Inside
  <2>4. Inside(key[c])' = {} /\ \A k : k # key[c] => Inside(k)' = Inside(k)
      BY <2>1, <2>3 DEF Inside, TypeOK
  <2> PICK k \in Keys : k = key[c] BY <2>2
  <2>5. Only(Inside(k)') = Nobody BY <2>1, <2>4, OnlyOne
  <2>6. Owner' = [Owner EXCEPT ![k] = Nobody] BY <2>4, <2>5, OwnerMoves
  <2>7. Owner[k] = c BY <2>3, OnlyOne DEF Owner
  <2> QED BY <2>6, <2>7 DEF Mutex!GiveGate
<1> QED BY <1>1, <1>2, <1>3, <1>4, <1>5 DEF Next, Mutex!MutexNext

\* The channels, counts and map of acquireGate implement one mutex per key,
\* which is all that the modules built on the gates assume.
THEOREM GatesImplementMutex == Spec => MutexSpec
BY InitOwner, NextOwner, GateInvariant, PTL DEF Spec, MutexSpec, Mutex!MutexSpec
=============================================================================
