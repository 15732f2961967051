----------------------------- MODULE PoolProofs -----------------------------
(***************************************************************************)
(* Proofs about Pool, for any number of requests, accounts, sessions and   *)
(* models, any cap and any clock.  Every step of the scheduler is a step   *)
(* of the snapshot protocol or leaves it alone, so the theorems of         *)
(* AccountSnapshotProofs carry over.  CallInv ties the slot a request      *)
(* holds to its place in Acquire and the proxy; with it, every step takes  *)
(* one slot, gives one back, or touches none.                              *)
(***************************************************************************)
EXTENDS Pool, AccountSnapshotProofs

\* Where a request holds a slot.
Holding == {"ensure", "recheck", "drop", "abort", "granted", "using",
            "forbid", "refused", "rejected"}

\* Where a request still works on its account, slot or not.
Working == Holding \cup {"disable", "cool", "note", "clearAccount",
                         "clearModel", "lateLimit"}

CallInv ==
    \A c \in Callers :
        /\ pc[c] \in Holding => held[c] = acc[c]
        /\ pc[c] \notin Holding => held[c] = Nobody
        /\ pc[c] \in Working => acc[c] \in Accounts
        /\ pc[c] # "idle" => request[c] \in Request
        /\ c \in parked => pc[c] = "wait"

PoolInv ==
    /\ TypeOK
    /\ IInv
    /\ CallInv
    /\ SlotAccounting
    /\ CapRespected
    /\ NoLostWakeup

-----------------------------------------------------------------------------
(* Slots. *)

\* Request c takes a slot of account a, which has one free.
TakeSlot(c, a) ==
    /\ held[c] = Nobody
    /\ active[a] < Cap
    /\ held' = [held EXCEPT ![c] = a]
    /\ active' = [active EXCEPT ![a] = @ + 1]

\* Request c gives its slot back.
GiveSlot(c) ==
    /\ held[c] \in Accounts
    /\ held' = [held EXCEPT ![c] = Nobody]
    /\ active' = [active EXCEPT ![held[c]] = @ - 1]

SlotTypeOK ==
    /\ held \in [Callers -> Accounts \cup {Nobody}]
    /\ active \in [Accounts -> Nat]

HoldersOf(a) == {c \in Callers : held[c] = a}

\* The abstract module counts with the same operator.
LEMMA SameCardinality == \A S : Slots!Cardinality(S) = Cardinality(S)
  BY DEF Slots!Cardinality, Cardinality

\* Taking a free slot keeps the count and the cap, as the abstract Take.
LEMMA TakeSlotLemma ==
  ASSUME NEW c \in Callers, NEW a \in Accounts, TakeSlot(c, a),
         SlotTypeOK, SlotAccounting, CapRespected
  PROVE  /\ SlotTypeOK'
         /\ SlotAccounting'
         /\ CapRespected'
         /\ Slots!Take(c, a)
<1> USE PoolAssumption, SnapshotAssumption
<1>1. SlotTypeOK'
  BY DEF SlotTypeOK, TakeSlot
<1>2. \A b \in Accounts : /\ active[b] = Cardinality(HoldersOf(b))
                          /\ IsFiniteSet(HoldersOf(b))
  BY FS_Subset DEF SlotAccounting, HoldersOf
<1>3. HoldersOf(a)' = HoldersOf(a) \cup {c} /\ c \notin HoldersOf(a)
  BY DEF HoldersOf, TakeSlot, SlotTypeOK
<1>4. \A b \in Accounts \ {a} : HoldersOf(b)' = HoldersOf(b)
  BY DEF HoldersOf, TakeSlot, SlotTypeOK
<1>5. Cardinality(HoldersOf(a)') = active[a] + 1
  BY <1>2, <1>3, FS_AddElement
<1>6. \A b \in Accounts : Cardinality(HoldersOf(b)') = active'[b]
  BY <1>2, <1>4, <1>5 DEF TakeSlot, SlotTypeOK
<1>7. SlotAccounting'
  BY <1>6 DEF SlotAccounting, HoldersOf
<1>8. \A b \in Accounts : active[b] <= Cap
  BY <1>2 DEF CapRespected, HoldersOf
<1>9. \A b \in Accounts : active'[b] <= Cap
  BY <1>8 DEF TakeSlot, SlotTypeOK
<1>10. CapRespected'
  BY <1>6, <1>9 DEF CapRespected, HoldersOf
<1>11. Slots!Take(c, a)
  <2>1. Cardinality(HoldersOf(a)) < Cap
    BY <1>2 DEF TakeSlot
  <2> QED
    BY <2>1, SameCardinality DEF Slots!Take, Slots!Holders, TakeSlot, HoldersOf
<1> QED
  BY <1>1, <1>7, <1>10, <1>11

\* Giving a slot back keeps the count and the cap, as the abstract Give.
LEMMA GiveSlotLemma ==
  ASSUME NEW c \in Callers, GiveSlot(c),
         SlotTypeOK, SlotAccounting, CapRespected
  PROVE  /\ SlotTypeOK'
         /\ SlotAccounting'
         /\ CapRespected'
         /\ Slots!Give(c)
<1> USE PoolAssumption, SnapshotAssumption
<1>0. PICK a \in Accounts : a = held[c] /\ a # Nobody
  BY DEF GiveSlot
<1>2. \A b \in Accounts : /\ active[b] = Cardinality(HoldersOf(b))
                          /\ IsFiniteSet(HoldersOf(b))
  BY FS_Subset DEF SlotAccounting, HoldersOf
<1>3. HoldersOf(a)' = HoldersOf(a) \ {c} /\ c \in HoldersOf(a)
  BY <1>0 DEF HoldersOf, GiveSlot, SlotTypeOK
<1>4. \A b \in Accounts \ {a} : HoldersOf(b)' = HoldersOf(b)
  BY <1>0 DEF HoldersOf, GiveSlot, SlotTypeOK
<1>5. Cardinality(HoldersOf(a)') = active[a] - 1
  <2>1. Cardinality(HoldersOf(a) \ {c}) = Cardinality(HoldersOf(a)) - 1
    BY <1>2, <1>3, FS_RemoveElement
  <2> QED
    BY <1>2, <1>3, <2>1
<1>6. Cardinality(HoldersOf(a)') \in Nat
  BY <1>0, <1>2, <1>3, FS_RemoveElement, FS_CardinalityType
<1>7. SlotTypeOK'
  BY <1>0, <1>5, <1>6 DEF SlotTypeOK, GiveSlot
<1>8. \A b \in Accounts : Cardinality(HoldersOf(b)') = active'[b]
  <2>1. active'[a] = active[a] - 1 /\ \A b \in Accounts \ {a} : active'[b] = active[b]
    BY <1>0 DEF GiveSlot, SlotTypeOK
  <2> QED
    BY <1>2, <1>4, <1>5, <2>1
<1>9. SlotAccounting'
  BY <1>8 DEF SlotAccounting, HoldersOf
<1>10. \A b \in Accounts : active[b] <= Cap
  BY <1>2 DEF CapRespected, HoldersOf
<1>11. \A b \in Accounts : active'[b] <= Cap
  BY <1>0, <1>10 DEF GiveSlot, SlotTypeOK
<1>12. CapRespected'
  BY <1>8, <1>11 DEF CapRespected, HoldersOf
<1>13. Slots!Give(c)
  BY <1>0 DEF Slots!Give, GiveSlot
<1> QED
  BY <1>7, <1>9, <1>12, <1>13

-----------------------------------------------------------------------------
(* What a step does to each part of the state. *)

\* A step of the scheduler is a step of the snapshot protocol, or leaves it.
LEMMA SnapshotStep ==
  ASSUME TypeOK, CallInv, [Next]_vars
  PROVE  [SnapshotNext]_snapshotVars
<1> USE PoolAssumption
<1>1. ASSUME NEW c \in Callers,
             \/ Acquire(c) \/ WakeUp(c) \/ EnsureFails(c) \/ EnsureCancelled(c)
             \/ CoolDown(c) \/ CallerWriteFails(c) \/ Drop(c) \/ Attempt(c)
             \/ HandBack(c) \/ Reject(c) \/ Forbid(c) \/ Deliver(c)
             \/ ClearAccount(c) \/ ClearModel(c) \/ LateLimit(c)
      PROVE  UNCHANGED snapshotVars
  BY <1>1 DEF Acquire, WakeUp, EnsureFails, EnsureCancelled, CoolDown,
     CallerWriteFails, Drop, Attempt, HandBack, Reject, Forbid, Deliver,
     ClearAccount, ClearModel, LateLimit
<1>2. ASSUME NEW c \in Callers,
             \/ Begin(c) \/ GiveUp(c) \/ Pick(c) \/ Park(c) \/ Exhausted(c)
             \/ EnsureOK(c) \/ Recheck(c) \/ RecheckFails(c)
      PROVE  UNCHANGED snapshotVars \/ StartLoad(c) \/ Return(c)
  BY <1>2 DEF Begin, GiveUp, Pick, Park, Exhausted, Selecting, EnsureOK,
     Recheck, RecheckFails
<1>3. ASSUME NEW c \in Callers, CallerCommit(c)
      PROVE  SnapshotNext
  <2>1. acc[c] \in Accounts /\ c \in Writers
    BY <1>3 DEF CallerCommit, CallInv, Working, Holding
  <2>2. WriteOf(c) \in Row \cup {Absent}
    BY <1>3, <2>1, RowAssumption
       DEF CallerCommit, WriteOf, TypeOK, SnapshotTypeOK, Table
  <2> QED
    BY <1>3, <2>1, <2>2 DEF CallerCommit, SnapshotNext
<1>4. ASSUME NEW c \in Callers, CallerBump(c) \/ InstallSnapshot(c) \/ LoadStep(c)
      PROVE  SnapshotNext
  BY <1>4 DEF CallerBump, InstallSnapshot, LoadStep, SnapshotNext, Loading
<1>5. ASSUME NEW w \in Admins, AdminCommit(w) \/ AdminBump(w)
      PROVE  SnapshotNext
  BY <1>5 DEF AdminCommit, AdminBump, SnapshotNext
<1>6. CASE Tick
  BY <1>6 DEF Tick
<1>7. CASE UNCHANGED vars
  BY <1>7 DEF vars
<1> QED
  BY <1>1, <1>2, <1>3, <1>4, <1>5, <1>6, <1>7 DEF Next, CallerStep, SnapshotNext

\* A step takes one slot, gives one back and wakes the waiters, or touches none.
LEMMA SlotStep ==
  ASSUME TypeOK, CallInv, [Next]_vars
  PROVE  \/ \E c \in Callers, a \in Accounts : TakeSlot(c, a)
         \/ \E c \in Callers : GiveSlot(c) /\ parked' = {}
         \/ UNCHANGED <<held, active>>
<1>1. ASSUME NEW c \in Callers, Pick(c)
      PROVE  \E a \in Accounts : TakeSlot(c, a)
  <2>1. PICK a \in Choices(c) : /\ held' = [held EXCEPT ![c] = a]
                                /\ active' = [active EXCEPT ![a] = @ + 1]
    BY <1>1 DEF Pick
  <2>2. a \in Accounts /\ active[a] < Cap
    BY <2>1 DEF Choices, Free, Candidates
  <2>3. held[c] = Nobody
    BY <1>1 DEF Pick, Selecting, CallInv, Holding
  <2> QED
    BY <2>1, <2>2, <2>3 DEF TakeSlot
<1>2. ASSUME NEW c \in Callers,
             \/ EnsureFails(c) \/ EnsureCancelled(c) \/ Drop(c) \/ HandBack(c)
             \/ Deliver(c)
      PROVE  GiveSlot(c) /\ parked' = {}
  <2>1. pc[c] \in Holding /\ Release(c)
    BY <1>2 DEF EnsureFails, EnsureCancelled, Drop, HandBack, Deliver, Holding
  <2> QED
    BY <2>1 DEF Release, GiveSlot, CallInv, Working
<1>3. ASSUME NEW c \in Callers,
             \/ Acquire(c) \/ Begin(c) \/ GiveUp(c) \/ Park(c) \/ Exhausted(c)
             \/ WakeUp(c) \/ EnsureOK(c) \/ CoolDown(c) \/ CallerCommit(c)
             \/ CallerBump(c) \/ CallerWriteFails(c) \/ Recheck(c)
             \/ RecheckFails(c) \/ Attempt(c) \/ Reject(c) \/ Forbid(c)
             \/ ClearAccount(c) \/ ClearModel(c) \/ LateLimit(c)
             \/ InstallSnapshot(c) \/ LoadStep(c)
      PROVE  UNCHANGED <<held, active>>
  BY <1>3 DEF Acquire, Begin, GiveUp, Park, Exhausted, WakeUp, EnsureOK,
     CoolDown, CallerCommit, CallerBump, CallerWriteFails, Recheck,
     RecheckFails, Attempt, Reject, Forbid, ClearAccount, ClearModel,
     LateLimit, InstallSnapshot, LoadStep, poolVars
<1>4. CASE \/ \E w \in Admins : AdminCommit(w) \/ AdminBump(w)
           \/ Tick
           \/ UNCHANGED vars
  BY <1>4 DEF AdminCommit, AdminBump, Tick, vars, poolVars
<1> QED
  BY <1>1, <1>2, <1>3, <1>4 DEF Next, CallerStep

-----------------------------------------------------------------------------
(* The bounded maps. *)

IsSessions(f) == DOMAIN f \subseteq Sessions /\ f \in [DOMAIN f -> Binding]

IsLimits(f) == DOMAIN f \subseteq Accounts \X Scopes /\ f \in [DOMAIN f -> Limit]

\* Making room only removes keys.
LEMMA RoomLemma ==
  ASSUME NEW f, NEW b, NEW kept \in Room(f, b)
  PROVE  kept \subseteq DOMAIN f
BY DEF Room

\* Looking a session up keeps the map's type.
LEMMA LookupLemma ==
  ASSUME IsSessions(sessions), NEW c \in Callers
  PROVE  IsSessions(Lookup(c))
BY DEF IsSessions, Lookup

\* Binding a session keeps the map's type.
LEMMA BindLemma ==
  ASSUME IsSessions(sessions), now \in Nat, NEW c \in Callers, NEW a \in Accounts,
         request[c] \in Request, Bind(c, a)
  PROVE  IsSessions(sessions')
<1> USE PoolAssumption
<1>1. CASE request[c].session = NoSession
  BY <1>1 DEF Bind
<1>2. CASE request[c].session # NoSession
  <2> DEFINE s == request[c].session
             left == Lookup(c)
  <2>1. s \in Sessions
    BY <1>2 DEF Request
  <2>2. PICK kept \in Room([t \in DOMAIN left |-> left[t].expires], MaxSessions) :
            sessions' = [t \in kept \cup {s} |->
                           IF t = s THEN [account |-> a, expires |-> now + SessionTTL]
                                    ELSE sessions[t]]
    BY <1>2 DEF Bind
  <2>3. kept \subseteq DOMAIN left
    BY <2>2, RoomLemma
  <2>4. kept \subseteq DOMAIN sessions
    BY <2>3 DEF Lookup
  <2>5. [account |-> a, expires |-> now + SessionTTL] \in Binding
    BY DEF Binding
  <2> HIDE DEF s, left
  <2> QED
    BY <2>1, <2>2, <2>4, <2>5 DEF IsSessions
<1> QED
  BY <1>1, <1>2

\* Marking a limit keeps both types and wakes the waiters.
LEMMA MarkLimitedLemma ==
  ASSUME IsSessions(sessions), IsLimits(limits), now \in Nat,
         NEW a \in Accounts, NEW scope \in Scopes, NEW until \in Nat,
         MarkLimited(a, scope, until)
  PROVE  IsSessions(sessions') /\ IsLimits(limits') /\ parked' = {}
<1> DEFINE k == <<a, scope>>
           end == IF k \in DOMAIN limits /\ limits[k].until > until
                  THEN limits[k].until ELSE until
<1>1. PICK kept \in Room([j \in DOMAIN limits |-> limits[j].until], MaxLimits) :
          limits' = [j \in kept \cup {k} |->
                       IF j = k THEN [until |-> end, marked |-> now] ELSE limits[j]]
  BY DEF MarkLimited
<1>2. kept \subseteq DOMAIN limits
  BY <1>1, RoomLemma
<1>3. k \in Accounts \X Scopes
  OBVIOUS
<1>4. [until |-> end, marked |-> now] \in Limit
  BY DEF IsLimits, Limit
<1>5. IsLimits(limits')
  <2> HIDE DEF k, end
  <2> QED
    BY <1>1, <1>2, <1>3, <1>4 DEF IsLimits
<1>6. IsSessions(sessions') /\ parked' = {}
  BY DEF MarkLimited, IsSessions
<1> QED
  BY <1>5, <1>6

\* Clearing a limit keeps the map's type.
LEMMA ClearLimitedLemma ==
  ASSUME IsLimits(limits), NEW a, NEW scope, NEW t, ClearLimitedBefore(a, scope, t)
  PROVE  IsLimits(limits') /\ (parked' = {} \/ parked' = parked)
BY DEF ClearLimitedBefore, IsLimits

\* The scopes a request reports on are scopes of the map.
LEMMA ScopesLemma ==
  ASSUME NEW c \in Callers, acc[c] \in Accounts, request[c] \in Request
  PROVE  ScopesOf(c) \subseteq Scopes
BY PoolAssumption DEF ScopesOf, Scopes, Request

\* A step keeps the types of the sticky sessions and the cooldowns.
LEMMA MapStep ==
  ASSUME TypeOK, CallInv, [Next]_vars
  PROVE  IsSessions(sessions') /\ IsLimits(limits')
<1> USE PoolAssumption
<1>0. IsSessions(sessions) /\ IsLimits(limits) /\ now \in Nat
  BY DEF TypeOK, IsSessions, IsLimits
<1>1. ASSUME NEW c \in Callers, Pick(c)
      PROVE  IsSessions(sessions') /\ limits' = limits
  <2>1. PICK a \in Choices(c) : Bind(c, a)
    BY <1>1 DEF Pick
  <2>2. a \in Accounts
    BY <2>1 DEF Choices, Free, Candidates
  <2>3. request[c] \in Request
    BY <1>1 DEF Pick, Selecting, CallInv
  <2> QED
    BY <1>0, <1>1, <2>1, <2>2, <2>3, BindLemma DEF Pick
<1>2. ASSUME NEW c \in Callers, Park(c) \/ Exhausted(c)
      PROVE  IsSessions(sessions') /\ limits' = limits
  BY <1>0, <1>2, LookupLemma DEF Park, Exhausted
<1>3. ASSUME NEW c \in Callers, Reject(c) \/ LateLimit(c)
      PROVE  IsSessions(sessions') /\ IsLimits(limits')
  <2>1. acc[c] \in Accounts /\ request[c] \in Request
    BY <1>3 DEF Reject, LateLimit, CallInv, Working, Holding
  <2>2. PICK scope \in ScopesOf(c), d \in Cooldowns :
            MarkLimited(acc[c], scope, now + d)
    BY <1>3 DEF Reject, LateLimit
  <2>3. scope \in Scopes /\ now + d \in Nat
    BY <1>0, <2>1, <2>2, ScopesLemma
  <2> QED
    BY <1>0, <2>1, <2>2, <2>3, MarkLimitedLemma
<1>4. ASSUME NEW c \in Callers, CoolDown(c)
      PROVE  IsSessions(sessions') /\ IsLimits(limits')
  <2>1. acc[c] \in Accounts
    BY <1>4 DEF CoolDown, CallInv, Working
  <2>2. WholeAccount \in Scopes /\ now + RefreshCooldown \in Nat
    BY <1>0 DEF Scopes
  <2> QED
    BY <1>0, <1>4, <2>1, <2>2, MarkLimitedLemma DEF CoolDown
<1>5. ASSUME NEW c \in Callers, ClearAccount(c) \/ ClearModel(c)
      PROVE  sessions' = sessions /\ IsLimits(limits')
  BY <1>0, <1>5, ClearLimitedLemma DEF ClearAccount, ClearModel
<1>6. ASSUME NEW c \in Callers, InstallSnapshot(c)
      PROVE  IsSessions(sessions') /\ IsLimits(limits')
  <2>1. PICK live \in SUBSET Accounts :
            /\ limits' = [k \in {j \in DOMAIN limits : j[1] \in live} |-> limits[k]]
            /\ sessions' = [s \in {t \in DOMAIN sessions : sessions[t].account \in live}
                              |-> sessions[s]]
    BY <1>6 DEF InstallSnapshot
  <2>2. IsLimits(limits')
    BY <1>0, <2>1 DEF IsLimits
  <2>3. IsSessions(sessions')
    BY <1>0, <2>1 DEF IsSessions
  <2> QED
    BY <2>2, <2>3
<1>7. ASSUME NEW c \in Callers,
             \/ Acquire(c) \/ Begin(c) \/ GiveUp(c) \/ WakeUp(c) \/ EnsureOK(c)
             \/ EnsureFails(c) \/ EnsureCancelled(c) \/ CallerCommit(c)
             \/ CallerBump(c) \/ CallerWriteFails(c) \/ Recheck(c)
             \/ RecheckFails(c) \/ Drop(c) \/ Attempt(c) \/ HandBack(c)
             \/ Forbid(c) \/ Deliver(c) \/ LoadStep(c)
      PROVE  UNCHANGED <<sessions, limits>>
  BY <1>7 DEF Acquire, Begin, GiveUp, WakeUp, EnsureOK, EnsureFails,
     EnsureCancelled, CallerCommit, CallerBump, CallerWriteFails, Recheck,
     RecheckFails, Drop, Attempt, HandBack, Forbid, Deliver, LoadStep, poolVars
<1>8. CASE \/ \E w \in Admins : AdminCommit(w) \/ AdminBump(w)
           \/ Tick
           \/ UNCHANGED vars
  BY <1>0, <1>8 DEF AdminCommit, AdminBump, Tick, vars, poolVars
<1> QED
  BY <1>0, <1>1, <1>2, <1>3, <1>4, <1>5, <1>6, <1>7, <1>8 DEF Next, CallerStep

-----------------------------------------------------------------------------
(* Local variables and recency. *)

\* The variables of each request, and the clock.
LocalTypeOK ==
    /\ now \in Nat
    /\ pc \in [Callers -> Steps]
    /\ request \in [Callers -> Request \cup {Nobody}]
    /\ excluded \in [Callers -> SUBSET Accounts]
    /\ acc \in [Callers -> Accounts \cup {Nobody}]
    /\ started \in [Callers -> Nat]
    /\ calls \in [Callers -> Nat]
    /\ parked \subseteq Callers
    /\ barred \in [Callers -> SUBSET Accounts]

\* A step keeps the type of last: only finitely many accounts are ranked.
LEMMA LastStep ==
  ASSUME last \in [Accounts -> Int], [Next]_vars
  PROVE  last' \in [Accounts -> Int]
<1> USE PoolAssumption
<1>1. \A S \in SUBSET Accounts : Cardinality(S) \in Nat
  BY FS_Subset, FS_CardinalityType
<1>2. ASSUME NEW c \in Callers, Pick(c) PROVE last' \in [Accounts -> Int]
  <2>1. PICK a \in Choices(c) : Touch(a)
    BY <1>2 DEF Pick
  <2>2. a \in Accounts
    BY <2>1 DEF Choices, Free, Candidates
  <2>3. Cardinality({d \in Accounts : last[d] # 0} \cup {a}) \in Nat
    BY <1>1, <2>2
  <2> QED
    BY <2>1, <2>3 DEF Touch
<1>3. ASSUME NEW c \in Callers, InstallSnapshot(c) PROVE last' \in [Accounts -> Int]
  <2> DEFINE live == {a \in Accounts : listed[c][a].row # Absent}
             gone == {a \in Accounts \ live : active[a] = 0 /\ last[a] # 0}
  <2>1. last' = [b \in Accounts |->
                   IF b \in gone THEN 0
                   ELSE last[b] - Cardinality({d \in gone : last[d] < last[b]})]
    BY <1>3 DEF InstallSnapshot
  <2>2. \A b \in Accounts : Cardinality({d \in gone : last[d] < last[b]}) \in Nat
    BY <1>1
  <2> HIDE DEF gone
  <2> QED
    BY <2>1, <2>2
<1>4. ASSUME NEW c \in Callers, CallerStep(c), ~Pick(c), ~InstallSnapshot(c)
      PROVE  last' = last
  BY <1>4 DEF CallerStep, Acquire, Begin, GiveUp, Park, Exhausted, WakeUp,
     EnsureOK, EnsureFails, EnsureCancelled, CoolDown, CallerCommit, CallerBump,
     CallerWriteFails, Recheck, RecheckFails, Drop, Attempt, HandBack, Reject,
     Forbid, Deliver, ClearAccount, ClearModel, LateLimit, LoadStep, poolVars
<1>5. CASE \/ \E w \in Admins : AdminCommit(w) \/ AdminBump(w)
           \/ Tick
           \/ UNCHANGED vars
  BY <1>5 DEF AdminCommit, AdminBump, Tick, vars, poolVars
<1> QED
  BY <1>2, <1>3, <1>4, <1>5 DEF Next

\* A step keeps the types of what each request has.
LEMMA LocalTypeStep ==
  ASSUME LocalTypeOK, CallInv, [Next]_vars
  PROVE  LocalTypeOK'
<1> USE SnapshotAssumption, PoolAssumption DEF LocalTypeOK, Steps
<1>1. ASSUME NEW c \in Callers, Acquire(c) PROVE LocalTypeOK'
  BY <1>1 DEF Acquire, Goto
<1>2. ASSUME NEW c \in Callers, Begin(c) PROVE LocalTypeOK'
  BY <1>2 DEF Begin, Goto
<1>3. ASSUME NEW c \in Callers, GiveUp(c) PROVE LocalTypeOK'
  BY <1>3 DEF GiveUp, Leave, Goto
<1>4. ASSUME NEW c \in Callers, Pick(c) PROVE LocalTypeOK'
  BY <1>4 DEF Pick, Selecting, Goto, Choices, Free, Candidates
<1>5. ASSUME NEW c \in Callers, Park(c) PROVE LocalTypeOK'
  BY <1>5 DEF Park, Selecting, Goto
<1>6. ASSUME NEW c \in Callers, Exhausted(c) PROVE LocalTypeOK'
  BY <1>6 DEF Exhausted, Selecting, Leave, Goto
<1>7. ASSUME NEW c \in Callers, WakeUp(c) PROVE LocalTypeOK'
  BY <1>7 DEF WakeUp, Goto
<1>8. ASSUME NEW c \in Callers, EnsureOK(c) PROVE LocalTypeOK'
  BY <1>8 DEF EnsureOK, Goto
<1>9. ASSUME NEW c \in Callers, EnsureFails(c) PROVE LocalTypeOK'
  BY <1>9 DEF EnsureFails, Release, Goto, CallInv, Working, Holding
<1>10. ASSUME NEW c \in Callers, EnsureCancelled(c) PROVE LocalTypeOK'
  BY <1>10 DEF EnsureCancelled, Release, Leave, Goto
<1>11. ASSUME NEW c \in Callers, CoolDown(c) PROVE LocalTypeOK'
  BY <1>11 DEF CoolDown, Goto, MarkLimited
<1>12. ASSUME NEW c \in Callers, CallerCommit(c) PROVE LocalTypeOK'
  BY <1>12 DEF CallerCommit, Lift, CallInv, Working, Holding
<1>13. ASSUME NEW c \in Callers, CallerBump(c) PROVE LocalTypeOK'
  BY <1>13 DEF CallerBump, AfterWrite, Goto
<1>14. ASSUME NEW c \in Callers, CallerWriteFails(c) PROVE LocalTypeOK'
  BY <1>14 DEF CallerWriteFails, AfterWrite, Goto
<1>15. ASSUME NEW c \in Callers, Recheck(c) PROVE LocalTypeOK'
  BY <1>15 DEF Recheck, Goto, CallInv, Working, Holding
<1>16. ASSUME NEW c \in Callers, RecheckFails(c) PROVE LocalTypeOK'
  BY <1>16 DEF RecheckFails, Goto
<1>17. ASSUME NEW c \in Callers, Drop(c) PROVE LocalTypeOK'
  BY <1>17 DEF Drop, Release, Goto
<1>18. ASSUME NEW c \in Callers, Attempt(c) PROVE LocalTypeOK'
  BY <1>18 DEF Attempt, Goto
<1>19. ASSUME NEW c \in Callers, HandBack(c) PROVE LocalTypeOK'
  BY <1>19 DEF HandBack, Release, Leave, Goto
<1>20. ASSUME NEW c \in Callers, Reject(c) PROVE LocalTypeOK'
  BY <1>20 DEF Reject, Goto, MarkLimited
<1>21. ASSUME NEW c \in Callers, Forbid(c) PROVE LocalTypeOK'
  BY <1>21 DEF Forbid, Goto
<1>22. ASSUME NEW c \in Callers, Deliver(c) PROVE LocalTypeOK'
  BY <1>22 DEF Deliver, Release, Goto
<1>23. ASSUME NEW c \in Callers, ClearAccount(c) PROVE LocalTypeOK'
  BY <1>23 DEF ClearAccount, Goto, ClearLimitedBefore
<1>24. ASSUME NEW c \in Callers, ClearModel(c) PROVE LocalTypeOK'
  BY <1>24 DEF ClearModel, Leave, Goto, ClearLimitedBefore
<1>25. ASSUME NEW c \in Callers, LateLimit(c) PROVE LocalTypeOK'
  BY <1>25 DEF LateLimit, Leave, Goto, MarkLimited
<1>26. ASSUME NEW c \in Callers, InstallSnapshot(c) PROVE LocalTypeOK'
  BY <1>26 DEF InstallSnapshot
<1>27. ASSUME NEW c \in Callers, LoadStep(c) PROVE LocalTypeOK'
  BY <1>27 DEF LoadStep, poolVars
<1>28. ASSUME NEW w \in Admins, AdminCommit(w) \/ AdminBump(w) PROVE LocalTypeOK'
  BY <1>28 DEF AdminCommit, AdminBump, Lift, poolVars
<1>29. CASE Tick \/ UNCHANGED vars
  BY <1>29 DEF Tick, vars, poolVars
<1> QED
  BY <1>1, <1>2, <1>3, <1>4, <1>5, <1>6, <1>7, <1>8, <1>9, <1>10, <1>11,
     <1>12, <1>13, <1>14, <1>15, <1>16, <1>17, <1>18, <1>19, <1>20, <1>21,
     <1>22, <1>23, <1>24, <1>25, <1>26, <1>27, <1>28, <1>29 DEF Next,
     CallerStep

\* A step keeps the slot a request holds in line with its place.
LEMMA CallStep ==
  ASSUME TypeOK, CallInv, [Next]_vars
  PROVE  CallInv'
<1> USE SnapshotAssumption, PoolAssumption DEF CallInv, Holding, Working, TypeOK, Steps
<1>1. ASSUME NEW c \in Callers, Acquire(c) PROVE CallInv'
  BY <1>1 DEF Acquire, Goto
<1>2. ASSUME NEW c \in Callers, Begin(c) PROVE CallInv'
  BY <1>2 DEF Begin, Goto
<1>3. ASSUME NEW c \in Callers, GiveUp(c) PROVE CallInv'
  BY <1>3 DEF GiveUp, Leave, Goto
<1>4. ASSUME NEW c \in Callers, Pick(c) PROVE CallInv'
  BY <1>4 DEF Pick, Selecting, Goto, Choices, Free, Candidates
<1>5. ASSUME NEW c \in Callers, Park(c) PROVE CallInv'
  BY <1>5 DEF Park, Selecting, Goto
<1>6. ASSUME NEW c \in Callers, Exhausted(c) PROVE CallInv'
  BY <1>6 DEF Exhausted, Selecting, Leave, Goto
<1>7. ASSUME NEW c \in Callers, WakeUp(c) PROVE CallInv'
  BY <1>7 DEF WakeUp, Goto
<1>8. ASSUME NEW c \in Callers, EnsureOK(c) PROVE CallInv'
  BY <1>8 DEF EnsureOK, Goto
<1>9. ASSUME NEW c \in Callers, EnsureFails(c) PROVE CallInv'
  BY <1>9 DEF EnsureFails, Release, Goto
<1>10. ASSUME NEW c \in Callers, EnsureCancelled(c) PROVE CallInv'
  BY <1>10 DEF EnsureCancelled, Release, Leave, Goto
<1>11. ASSUME NEW c \in Callers, CoolDown(c) PROVE CallInv'
  BY <1>11 DEF CoolDown, Goto, MarkLimited
<1>12. ASSUME NEW c \in Callers, CallerCommit(c) PROVE CallInv'
  BY <1>12 DEF CallerCommit, Lift
<1>13. ASSUME NEW c \in Callers, CallerBump(c) PROVE CallInv'
  BY <1>13 DEF CallerBump, AfterWrite, Goto
<1>14. ASSUME NEW c \in Callers, CallerWriteFails(c) PROVE CallInv'
  BY <1>14 DEF CallerWriteFails, AfterWrite, Goto
<1>15. ASSUME NEW c \in Callers, Recheck(c) PROVE CallInv'
  BY <1>15 DEF Recheck, Goto
<1>16. ASSUME NEW c \in Callers, RecheckFails(c) PROVE CallInv'
  BY <1>16 DEF RecheckFails, Goto
<1>17. ASSUME NEW c \in Callers, Drop(c) PROVE CallInv'
  BY <1>17 DEF Drop, Release, Goto
<1>18. ASSUME NEW c \in Callers, Attempt(c) PROVE CallInv'
  BY <1>18 DEF Attempt, Goto
<1>19. ASSUME NEW c \in Callers, HandBack(c) PROVE CallInv'
  BY <1>19 DEF HandBack, Release, Leave, Goto
<1>20. ASSUME NEW c \in Callers, Reject(c) PROVE CallInv'
  BY <1>20 DEF Reject, Goto, MarkLimited
<1>21. ASSUME NEW c \in Callers, Forbid(c) PROVE CallInv'
  BY <1>21 DEF Forbid, Goto
<1>22. ASSUME NEW c \in Callers, Deliver(c) PROVE CallInv'
  BY <1>22 DEF Deliver, Release, Goto
<1>23. ASSUME NEW c \in Callers, ClearAccount(c) PROVE CallInv'
  BY <1>23 DEF ClearAccount, Goto, ClearLimitedBefore
<1>24. ASSUME NEW c \in Callers, ClearModel(c) PROVE CallInv'
  BY <1>24 DEF ClearModel, Leave, Goto, ClearLimitedBefore
<1>25. ASSUME NEW c \in Callers, LateLimit(c) PROVE CallInv'
  BY <1>25 DEF LateLimit, Leave, Goto, MarkLimited
<1>26. ASSUME NEW c \in Callers, InstallSnapshot(c) PROVE CallInv'
  BY <1>26 DEF InstallSnapshot
<1>27. ASSUME NEW c \in Callers, LoadStep(c) PROVE CallInv'
  BY <1>27 DEF LoadStep, poolVars
<1>28. ASSUME NEW w \in Admins, AdminCommit(w) \/ AdminBump(w) PROVE CallInv'
  BY <1>28 DEF AdminCommit, AdminBump, Lift, poolVars
<1>29. CASE Tick \/ UNCHANGED vars
  BY <1>29 DEF Tick, vars, poolVars
<1> QED
  BY <1>1, <1>2, <1>3, <1>4, <1>5, <1>6, <1>7, <1>8, <1>9, <1>10, <1>11,
     <1>12, <1>13, <1>14, <1>15, <1>16, <1>17, <1>18, <1>19, <1>20, <1>21,
     <1>22, <1>23, <1>24, <1>25, <1>26, <1>27, <1>28, <1>29 DEF Next,
     CallerStep

-----------------------------------------------------------------------------
(* Waiting requests. *)

\* Whoever waits still has a full account to wait for: releases empty parked,
\* a request parks only behind a full account, and nobody else makes room.
LEMMA WaitStep ==
  ASSUME TypeOK, CallInv, NoLostWakeup, [Next]_vars
  PROVE  NoLostWakeup'
<1> USE PoolAssumption DEF NoLostWakeup
<1>1. ASSUME NEW c \in Callers, Park(c) PROVE NoLostWakeup'
  <2>1. PICK a \in Candidates(c) : a \notin Free(c)
    BY <1>1 DEF Park
  <2>2. a \in Accounts \ excluded[c] /\ active[a] >= Cap
    BY <2>1 DEF Candidates, Free, TypeOK
  <2>3. parked' = parked \cup {c} /\ UNCHANGED <<excluded, active>>
    BY <1>1 DEF Park
  <2> QED
    BY <2>2, <2>3
<1>2. ASSUME NEW c \in Callers, Pick(c) PROVE NoLostWakeup'
  <2>1. PICK a \in Accounts : active' = [active EXCEPT ![a] = @ + 1]
    BY <1>2 DEF Pick, Choices, Free, Candidates
  <2>2. UNCHANGED <<excluded, parked>>
    BY <1>2 DEF Pick
  <2>3. \A b \in Accounts : active'[b] >= active[b] /\ active[b] \in Nat
    BY <2>1 DEF TypeOK
  <2>4. \A b \in Accounts : active[b] >= Cap => active'[b] >= Cap
    BY <2>1 DEF TypeOK
  <2> QED
    BY <2>2, <2>4
<1>3. ASSUME NEW c \in Callers,
             \/ EnsureFails(c) \/ EnsureCancelled(c) \/ Drop(c) \/ HandBack(c)
             \/ Deliver(c) \/ CoolDown(c) \/ Reject(c) \/ LateLimit(c)
      PROVE  NoLostWakeup'
  <2>1. parked' = {}
    BY <1>3 DEF EnsureFails, EnsureCancelled, Drop, HandBack, Deliver, Release,
       CoolDown, Reject, LateLimit, MarkLimited
  <2> QED
    BY <2>1
<1>4. ASSUME NEW c \in Callers, ClearAccount(c) \/ ClearModel(c)
      PROVE  NoLostWakeup'
  <2>1. parked' \in {parked, {}} /\ active' = active
    BY <1>4 DEF ClearAccount, ClearModel, ClearLimitedBefore
  <2>2. c \notin parked /\ \A d \in Callers \ {c} : excluded'[d] = excluded[d]
    BY <1>4 DEF ClearAccount, ClearModel, Leave, CallInv, TypeOK
  <2> QED
    BY <2>1, <2>2 DEF TypeOK
<1>5. ASSUME NEW c \in Callers, Acquire(c) \/ Recheck(c) \/ Exhausted(c)
      PROVE  NoLostWakeup'
  <2>1. UNCHANGED <<parked, active>>
    BY <1>5 DEF Acquire, Recheck, Exhausted
  <2>2. c \notin parked /\ \A d \in Callers \ {c} : excluded'[d] = excluded[d]
    BY <1>5 DEF Acquire, Recheck, Exhausted, Selecting, Leave, CallInv, TypeOK
  <2> QED
    BY <2>1, <2>2 DEF TypeOK
<1>6. ASSUME NEW c \in Callers, GiveUp(c) PROVE NoLostWakeup'
  <2>1. parked' = parked \ {c} /\ active' = active
    BY <1>6 DEF GiveUp
  <2>2. \A d \in Callers \ {c} : excluded'[d] = excluded[d]
    BY <1>6 DEF GiveUp, Leave, TypeOK
  <2> QED
    BY <2>1, <2>2 DEF TypeOK
<1>7. ASSUME NEW c \in Callers,
             \/ Begin(c) \/ WakeUp(c) \/ EnsureOK(c) \/ CallerCommit(c)
             \/ CallerBump(c) \/ CallerWriteFails(c) \/ RecheckFails(c)
             \/ Attempt(c) \/ Forbid(c) \/ InstallSnapshot(c) \/ LoadStep(c)
      PROVE  NoLostWakeup'
  <2>1. parked' \subseteq parked /\ UNCHANGED <<excluded, active>>
    BY <1>7 DEF Begin, WakeUp, EnsureOK, CallerCommit, CallerBump,
       CallerWriteFails, RecheckFails, Attempt, Forbid, InstallSnapshot,
       LoadStep, poolVars
  <2> QED
    BY <2>1
<1>8. CASE \/ \E w \in Admins : AdminCommit(w) \/ AdminBump(w)
           \/ Tick
           \/ UNCHANGED vars
  BY <1>8 DEF AdminCommit, AdminBump, Tick, vars, poolVars
<1> QED
  BY <1>1, <1>2, <1>3, <1>4, <1>5, <1>6, <1>7, <1>8 DEF Next, CallerStep

-----------------------------------------------------------------------------
(* The inductive invariant and the theorems. *)

LEMMA InitPoolInv == Init => PoolInv
<1> SUFFICES ASSUME Init PROVE PoolInv
  OBVIOUS
<1> USE SnapshotAssumption, PoolAssumption
<1>1. IInv
  BY InitIInv DEF Init
<1>2. TypeOK
  BY <1>1 DEF Init, TypeOK, IInv, Steps
<1>3. CallInv
  BY DEF Init, CallInv, Holding, Working
<1>4. \A a \in Accounts : {c \in Callers : held[c] = a} = {}
  BY DEF Init
<1>5. SlotAccounting
  BY <1>4, FS_EmptySet DEF Init, SlotAccounting
<1>6. CapRespected
  <2>1. Cardinality({}) <= Cap
    BY FS_EmptySet
  <2> QED
    BY <1>4, <2>1 DEF CapRespected
<1>7. NoLostWakeup
  BY DEF Init, NoLostWakeup
<1> QED
  BY <1>1, <1>2, <1>3, <1>5, <1>6, <1>7 DEF PoolInv

LEMMA NextPoolInv == PoolInv /\ [Next]_vars => PoolInv'
<1> SUFFICES ASSUME PoolInv, [Next]_vars PROVE PoolInv'
  OBVIOUS
<1>0. /\ TypeOK /\ IInv /\ CallInv /\ SlotAccounting /\ CapRespected
      /\ NoLostWakeup /\ SlotTypeOK /\ LocalTypeOK
      /\ last \in [Accounts -> Int]
  BY DEF PoolInv, TypeOK, SlotTypeOK, LocalTypeOK
<1>1. IInv'
  BY <1>0, SnapshotStep, NextPreserves
<1>2. CallInv' /\ NoLostWakeup'
  BY <1>0, CallStep, WaitStep
<1>3. SlotTypeOK' /\ SlotAccounting' /\ CapRespected'
  <2>1. CASE UNCHANGED <<held, active>>
    BY <1>0, <2>1 DEF SlotTypeOK, SlotAccounting, CapRespected
  <2> QED
    BY <1>0, <2>1, SlotStep, TakeSlotLemma, GiveSlotLemma
<1>4. TypeOK'
  <2>1. LocalTypeOK'
    BY <1>0, LocalTypeStep
  <2>2. last' \in [Accounts -> Int]
    BY <1>0, LastStep
  <2>3. IsSessions(sessions') /\ IsLimits(limits')
    BY <1>0, MapStep
  <2>4. SnapshotTypeOK'
    BY <1>1 DEF IInv
  <2> QED
    BY <1>3, <2>1, <2>2, <2>3, <2>4
       DEF TypeOK, LocalTypeOK, SlotTypeOK, IsSessions, IsLimits
<1> QED
  BY <1>1, <1>2, <1>3, <1>4 DEF PoolInv

THEOREM PoolInvariant == Spec => []PoolInv
<1>1. Init => PoolInv
  BY InitPoolInv
<1>2. PoolInv /\ [Next]_vars => PoolInv'
  BY NextPoolInv
<1> QED
  BY <1>1, <1>2, PTL DEF Spec

\* Every variable keeps its type, whatever the constants.
THEOREM PoolTypeOK == Spec => []TypeOK
<1>1. PoolInv => TypeOK
  BY DEF PoolInv
<1> QED
  BY <1>1, PoolInvariant, PTL

\* No slot leaks and none is returned twice, on any path of any request.
THEOREM SlotsAreAccounted == Spec => []SlotAccounting
<1>1. PoolInv => SlotAccounting
  BY DEF PoolInv
<1> QED
  BY <1>1, PoolInvariant, PTL

\* MAX_CONCURRENT_PER_ACCOUNT holds for any number of requests and accounts.
THEOREM CapIsRespected == Spec => []CapRespected
<1>1. PoolInv => CapRespected
  BY DEF PoolInv
<1> QED
  BY <1>1, PoolInvariant, PTL

\* A waiting request always has a full account whose release will wake it.
THEOREM WakeupsAreNotLost == Spec => []NoLostWakeup
<1>1. PoolInv => NoLostWakeup
  BY DEF PoolInv
<1> QED
  BY <1>1, PoolInvariant, PTL

\* The scheduler implements AccountSlots: initial states map to initial states
\* and every step takes one free slot, gives one back, or stutters.
THEOREM SchedulerImplementsSlots == Spec => SlotsSpec
<1>1. Init => Slots!SlotsInit
  BY DEF Init, Slots!SlotsInit
<1>2. PoolInv /\ [Next]_vars => [Slots!SlotsNext]_held
  <2> SUFFICES ASSUME PoolInv, [Next]_vars PROVE [Slots!SlotsNext]_held
    OBVIOUS
  <2>1. TypeOK /\ CallInv /\ SlotTypeOK /\ SlotAccounting /\ CapRespected
    BY DEF PoolInv, TypeOK, SlotTypeOK
  <2>2. CASE UNCHANGED <<held, active>>
    BY <2>2
  <2> QED
    BY <2>1, <2>2, SlotStep, TakeSlotLemma, GiveSlotLemma DEF Slots!SlotsNext
<1> QED
  BY <1>1, <1>2, PoolInvariant, PTL DEF Spec, SlotsSpec, Slots!SlotsSpec

\* The scheduler runs the snapshot protocol, so its theorems hold of it.
THEOREM SchedulerImplementsSnapshot == Spec => SnapshotSpec
<1>1. Init => SnapshotInit
  BY DEF Init
<1>2. PoolInv /\ [Next]_vars => [SnapshotNext]_snapshotVars
  BY SnapshotStep DEF PoolInv
<1> QED
  BY <1>1, <1>2, PoolInvariant, PTL DEF Spec, SnapshotSpec

\* A request schedules on a copy of the accounts that has every mutation which
\* returned before its load began.
THEOREM SchedulerSeesReturnedWrites == Spec => []LoadSeesReturnedWrites
BY SchedulerImplementsSnapshot, LoadsSeeReturnedWrites, PTL

-----------------------------------------------------------------------------
(* Barred accounts are not handed out. *)

\* The newest commit to an account has returned, or its writer is known.
SettledInv ==
    \A a \in Accounts :
        \/ settled[a] = rows[a].stamp
        \/ \E w \in Writers : writing[w] = [account |-> a, stamp |-> rows[a].stamp]

\* A copy of a row with the row's stamp has the row's contents.
CopyInv ==
    \A a \in Accounts :
        /\ rows[a].stamp >= 1
        /\ accounts[a].stamp = rows[a].stamp => accounts[a].row = rows[a].row
        /\ \A c \in Callers :
              listed[c][a].stamp = rows[a].stamp => listed[c][a].row = rows[a].row

\* During the recheck, a barred account is still barred in the table, and the
\* load under way must see the mutation that barred it.
BarredInv ==
    \A c \in Callers : pc[c] = "recheck" =>
        \A a \in barred[c] : /\ Blocked(rows[a].row)
                             /\ floor[c][a] = rows[a].stamp

GrantInv == SettledInv /\ CopyInv /\ BarredInv /\ NoBarredGrant

\* A step of the snapshot protocol keeps the two facts about stamps.
LEMMA StampStep ==
  ASSUME IInv, SettledInv, CopyInv, [SnapshotNext]_snapshotVars
  PROVE  SettledInv' /\ CopyInv'
<1> USE DEF IInv, SnapshotTypeOK, Table
<1>1. ASSUME NEW w \in Writers, NEW a \in Accounts, NEW r \in Row \cup {Absent},
             Commit(w, a, r)
      PROVE  SettledInv' /\ CopyInv'
  <2>1. /\ writing[w] = Nobody /\ UNCHANGED <<settled, accounts, listed>>
        /\ rows' = [rows EXCEPT ![a] = [row |-> r, stamp |-> rows[a].stamp + 1]]
        /\ writing' = [writing EXCEPT
                         ![w] = [account |-> a, stamp |-> rows[a].stamp + 1]]
    BY <1>1 DEF Commit, loadVars
  <2>2. SettledInv'
    <3> SUFFICES ASSUME NEW b \in Accounts
                 PROVE  \/ settled'[b] = rows'[b].stamp
                        \/ \E v \in Writers :
                              writing'[v] = [account |-> b, stamp |-> rows'[b].stamp]
      BY DEF SettledInv
    <3>1. CASE b = a
      BY <2>1, <3>1
    <3>2. CASE b # a /\ settled[b] = rows[b].stamp
      BY <2>1, <3>2
    <3>3. CASE b # a /\ settled[b] # rows[b].stamp
      <4>1. PICK v \in Writers : writing[v] = [account |-> b, stamp |-> rows[b].stamp]
        BY <3>3 DEF SettledInv
      <4>2. v # w
        BY <2>1, <4>1, SnapshotAssumption
      <4>3. writing'[v] = writing[v] /\ rows'[b] = rows[b]
        BY <2>1, <3>3, <4>2
      <4> QED
        BY <4>1, <4>3
    <3> QED
      BY <3>1, <3>2, <3>3
  <2>3. CopyInv'
    BY <2>1 DEF CopyInv, StampInv
  <2> QED
    BY <2>2, <2>3
<1>2. ASSUME NEW w \in Writers, BumpVersion(w) PROVE SettledInv' /\ CopyInv'
  <2>1. /\ writing[w] # Nobody /\ UNCHANGED <<rows, accounts, listed>>
        /\ writing' = [writing EXCEPT ![w] = Nobody]
        /\ settled' = [settled EXCEPT ![writing[w].account] =
                         IF @ < writing[w].stamp THEN writing[w].stamp ELSE @]
    BY <1>2 DEF BumpVersion, loadVars
  <2>2. SettledInv'
    <3> SUFFICES ASSUME NEW b \in Accounts
                 PROVE  \/ settled'[b] = rows[b].stamp
                        \/ \E v \in Writers :
                              writing'[v] = [account |-> b, stamp |-> rows[b].stamp]
      BY <2>1 DEF SettledInv
    <3>1. writing[w] \in [account : Accounts, stamp : Nat]
      BY <2>1
    <3>2. settled[b] <= rows[b].stamp /\ writing[w].stamp <= rows[writing[w].account].stamp
      BY <2>1 DEF StampInv, Covers
    <3>3. CASE settled[b] = rows[b].stamp
      <4>1. CASE b = writing[w].account
        BY <2>1, <3>1, <3>2, <3>3, <4>1
      <4>2. CASE b # writing[w].account
        BY <2>1, <3>3, <4>2
      <4> QED
        BY <4>1, <4>2
    <3>4. CASE writing[w] = [account |-> b, stamp |-> rows[b].stamp]
      <4>1. writing[w].account = b /\ writing[w].stamp = rows[b].stamp
        BY <3>4
      <4>2. settled[b] \in Nat /\ rows[b].stamp \in Nat
        OBVIOUS
      <4> HIDE DEF SnapshotTypeOK
      <4>3. settled[b] < rows[b].stamp \/ settled[b] = rows[b].stamp
        BY <3>2, <4>2
      <4>4. settled'[b] = IF settled[b] < rows[b].stamp THEN rows[b].stamp
                                                        ELSE settled[b]
        BY <2>1, <4>1 DEF SnapshotTypeOK
      <4> QED
        BY <4>3, <4>4
    <3>5. CASE \E v \in Writers \ {w} :
                  writing[v] = [account |-> b, stamp |-> rows[b].stamp]
      BY <2>1, <3>5
    <3> QED
      BY <3>3, <3>4, <3>5 DEF SettledInv
  <2>3. CopyInv'
    BY <2>1 DEF CopyInv
  <2> QED
    BY <2>2, <2>3
<1>3. ASSUME NEW c \in Callers, StartLoad(c) \/ Loading(c) \/ Return(c)
      PROVE  SettledInv' /\ CopyInv'
  <2>1. UNCHANGED <<rows, settled, writing>>
    BY <1>3 DEF StartLoad, Loading, Return, Compare, EnterGate, Reread,
       ListAccounts, Install, FailLoad, storeVars
  <2>2. /\ accounts' \in {accounts, listed[c]}
        /\ \A d \in Callers : listed'[d] \in {listed[d], rows, EmptyTable}
    BY <1>3 DEF StartLoad, Loading, Return, Compare, EnterGate, Reread,
       ListAccounts, Install, FailLoad
  <2>3. \A a \in Accounts : EmptyTable[a].stamp = 0
    BY DEF EmptyTable
  <2>4. CopyInv'
    <3> SUFFICES ASSUME NEW a \in Accounts
                 PROVE  /\ rows[a].stamp >= 1
                        /\ accounts'[a].stamp = rows[a].stamp
                              => accounts'[a].row = rows[a].row
                        /\ \A d \in Callers :
                              listed'[d][a].stamp = rows[a].stamp
                                 => listed'[d][a].row = rows[a].row
      BY <2>1 DEF CopyInv
    <3>1. rows[a].stamp >= 1
      BY DEF CopyInv
    <3>2. accounts'[a].stamp = rows[a].stamp => accounts'[a].row = rows[a].row
      BY <2>2 DEF CopyInv
    <3>3. ASSUME NEW d \in Callers, listed'[d][a].stamp = rows[a].stamp
          PROVE  listed'[d][a].row = rows[a].row
      <4>1. CASE listed'[d] = EmptyTable
        BY <2>3, <3>1, <3>3, <4>1
      <4>2. CASE listed'[d] = listed[d]
        BY <3>3, <4>2 DEF CopyInv
      <4>3. CASE listed'[d] = rows
        BY <4>3
      <4> QED
        BY <2>2, <4>1, <4>2, <4>3
    <3> QED
      BY <3>1, <3>2, <3>3
  <2>5. SettledInv'
    BY <2>1 DEF SettledInv
  <2> QED
    BY <2>4, <2>5
<1>4. CASE UNCHANGED snapshotVars
  BY <1>4 DEF snapshotVars, SettledInv, CopyInv
<1> QED
  BY <1>1, <1>2, <1>3, <1>4 DEF SnapshotNext

\* A step keeps the bar of every recheck under way: only a commit changes a
\* row, and it lifts the bar of its account.
LEMMA BarStep ==
  ASSUME PoolInv, GrantInv, [Next]_vars
  PROVE  BarredInv'
<1> USE PoolAssumption DEF BarredInv
<1>0. TypeOK /\ SnapshotTypeOK /\ SettledInv /\ BarredInv
  BY DEF PoolInv, TypeOK, GrantInv
<1>1. ASSUME NEW c \in Callers, EnsureOK(c) PROVE BarredInv'
  <2>1. /\ UNCHANGED rows
        /\ floor' = [floor EXCEPT ![c] = settled]
        /\ pc' = [pc EXCEPT ![c] = "recheck"]
        /\ barred' = [barred EXCEPT ![c] =
                        {a \in Accounts : /\ Blocked(rows[a].row)
                                          /\ \A w \in Unsettled : writing[w].account # a}]
    BY <1>1 DEF EnsureOK, StartLoad, Goto, storeVars
  <2>2. ASSUME NEW a \in Accounts, \A w \in Unsettled : writing[w].account # a
        PROVE  settled[a] = rows[a].stamp
    <3> SUFFICES ASSUME NEW w \in Writers,
                        writing[w] = [account |-> a, stamp |-> rows[a].stamp]
                 PROVE  FALSE
      BY <1>0 DEF SettledInv
    <3>1. rows[a].stamp \in Nat
      BY <1>0 DEF SnapshotTypeOK, Table
    <3>2. writing[w] # Nobody /\ writing[w].account = a
      BY <3>1, SnapshotAssumption
    <3> QED
      BY <2>2, <3>2 DEF Unsettled
  <2>3. ASSUME NEW d \in Callers, pc'[d] = "recheck", NEW a \in barred'[d]
        PROVE  Blocked(rows'[a].row) /\ floor'[d][a] = rows'[a].stamp
    <3>1. CASE d = c
      <4>1. a \in Accounts /\ Blocked(rows[a].row) /\ settled[a] = rows[a].stamp
        BY <1>0, <2>1, <2>2, <2>3, <3>1 DEF TypeOK
      <4> QED
        BY <1>0, <2>1, <3>1, <4>1 DEF SnapshotTypeOK, Blocked
    <3>2. CASE d # c
      <4>1. pc[d] = "recheck" /\ a \in barred[d] /\ floor'[d] = floor[d]
        BY <1>0, <2>1, <2>3, <3>2 DEF TypeOK, SnapshotTypeOK
      <4> QED
        BY <1>0, <2>1, <4>1 DEF Blocked
    <3> QED
      BY <3>1, <3>2
  <2> QED
    BY <2>3
<1>2. ASSUME NEW w \in Writers, NEW a \in Accounts, NEW r \in Row \cup {Absent},
             Commit(w, a, r), Lift(a), UNCHANGED pc
      PROVE  BarredInv'
  <2>1. /\ UNCHANGED floor
        /\ \A b \in Accounts \ {a} : rows'[b] = rows[b]
        /\ \A d \in Callers : barred'[d] = barred[d] \ {a}
    BY <1>0, <1>2 DEF Commit, Lift, loadVars, SnapshotTypeOK, Table
  <2>2. \A d \in Callers : barred'[d] \subseteq Accounts \ {a}
    BY <1>0, <2>1 DEF TypeOK
  <2> QED
    BY <1>0, <1>2, <2>1, <2>2 DEF Blocked
<1>3. ASSUME UNCHANGED <<rows, barred>>,
             \A d \in Callers : pc'[d] = "recheck" =>
                 pc[d] = "recheck" /\ floor'[d] = floor[d]
      PROVE  BarredInv'
  BY <1>0, <1>3 DEF Blocked
<1>4. ASSUME NEW c \in Callers,
             \/ Acquire(c) \/ WakeUp(c) \/ EnsureFails(c) \/ CoolDown(c)
             \/ CallerWriteFails(c) \/ Drop(c) \/ Attempt(c) \/ Reject(c)
             \/ Forbid(c) \/ Deliver(c) \/ ClearAccount(c) \/ Begin(c)
             \/ Pick(c) \/ Park(c) \/ Recheck(c) \/ RecheckFails(c)
             \/ CallerBump(c)
      PROVE  BarredInv'
  <2>1. UNCHANGED <<rows, barred>> /\ \E step \in Steps \ {"recheck"} : Goto(c, step)
    BY <1>4 DEF Acquire, WakeUp, EnsureFails, CoolDown, CallerWriteFails, Drop,
       Attempt, Reject, Forbid, Deliver, ClearAccount, Begin, Pick, Park,
       Selecting, Recheck, RecheckFails, CallerBump, AfterWrite, Steps,
       StartLoad, Return, BumpVersion, storeVars, snapshotVars
  <2>2. \A d \in Callers \ {c} : floor'[d] = floor[d]
    BY <1>0, <1>4 DEF Acquire, WakeUp, EnsureFails, CoolDown, CallerWriteFails,
       Drop, Attempt, Reject, Forbid, Deliver, ClearAccount, Begin, Pick, Park,
       Selecting, Recheck, RecheckFails, CallerBump, StartLoad, Return,
       BumpVersion, loadVars, snapshotVars, SnapshotTypeOK
  <2> QED
    BY <1>0, <1>3, <2>1, <2>2 DEF Goto, TypeOK
<1>5. ASSUME NEW c \in Callers,
             \/ GiveUp(c) \/ Exhausted(c) \/ EnsureCancelled(c) \/ HandBack(c)
             \/ ClearModel(c) \/ LateLimit(c)
      PROVE  BarredInv'
  <2>1. UNCHANGED rows /\ Leave(c)
    BY <1>5 DEF GiveUp, Exhausted, Selecting, EnsureCancelled, HandBack,
       ClearModel, LateLimit, Return, storeVars, snapshotVars
  <2>2. \A d \in Callers \ {c} : floor'[d] = floor[d]
    BY <1>0, <1>5 DEF GiveUp, Exhausted, Selecting, EnsureCancelled, HandBack,
       ClearModel, LateLimit, Return, snapshotVars, SnapshotTypeOK
  <2>3. \A d \in Callers : pc'[d] = "recheck" =>
            d # c /\ pc[d] = "recheck" /\ barred'[d] = barred[d]
    BY <1>0, <2>1 DEF Leave, Goto, TypeOK
  <2> QED
    BY <1>0, <2>1, <2>2, <2>3 DEF Blocked
<1>6. ASSUME NEW c \in Callers, InstallSnapshot(c) \/ LoadStep(c)
      PROVE  BarredInv'
  <2>1. UNCHANGED <<rows, barred, pc, floor>>
    BY <1>6 DEF InstallSnapshot, LoadStep, Install, Compare, EnterGate, Reread,
       ListAccounts, FailLoad, storeVars, poolVars
  <2> QED
    BY <1>3, <2>1
<1>7. ASSUME NEW c \in Callers, CallerCommit(c) PROVE BarredInv'
  <2>1. acc[c] \in Accounts /\ c \in Writers
    BY <1>7 DEF CallerCommit, PoolInv, CallInv, Working, Holding
  <2>2. WriteOf(c) \in Row \cup {Absent}
    BY <1>0, <1>7, <2>1, RowAssumption
       DEF CallerCommit, WriteOf, SnapshotTypeOK, Table
  <2> QED
    BY <1>2, <1>7, <2>1, <2>2 DEF CallerCommit
<1>8. ASSUME NEW w \in Admins, AdminCommit(w) PROVE BarredInv'
  BY <1>2, <1>8 DEF AdminCommit
<1>9. CASE \/ \E w \in Admins : AdminBump(w)
           \/ Tick
           \/ UNCHANGED vars
  <2>1. UNCHANGED <<rows, barred, pc, floor>>
    BY <1>9 DEF AdminBump, BumpVersion, loadVars, Tick, vars, poolVars, snapshotVars
  <2> QED
    BY <1>3, <2>1
<1> QED
  BY <1>1, <1>4, <1>5, <1>6, <1>7, <1>8, <1>9 DEF Next, CallerStep

\* A step to "granted" is a recheck that found the account valid in a copy
\* which contains the mutation that barred it: so nothing barred it.
LEMMA GrantStep ==
  ASSUME PoolInv, GrantInv, [Next]_vars
  PROVE  NoBarredGrant'
<1> USE PoolAssumption DEF NoBarredGrant
<1>0. TypeOK /\ SnapshotTypeOK /\ IInv /\ CallInv /\ NoBarredGrant /\ CopyInv /\ BarredInv
  BY DEF PoolInv, TypeOK, GrantInv
<1>1. ASSUME NEW c \in Callers, Recheck(c), pc'[c] = "granted"
      PROVE  acc[c] \notin barred[c]
  <2>1. pc[c] = "recheck" /\ at[c] = "fresh" /\ Valid(c)
    BY <1>0, <1>1 DEF Recheck, Goto, TypeOK
  <2>2. acc[c] \in Accounts
    BY <1>0, <2>1 DEF CallInv, Working, Holding
  <2> SUFFICES ASSUME acc[c] \in barred[c] PROVE FALSE
    OBVIOUS
  <2>3. Blocked(rows[acc[c]].row) /\ floor[c][acc[c]] = rows[acc[c]].stamp
    BY <1>0, <2>1 DEF BarredInv
  <2>4. accounts[acc[c]].stamp >= floor[c][acc[c]]
    BY <1>0, <2>1, <2>2 DEF IInv, LoadSeesReturnedWrites, Covers
  <2>5. accounts[acc[c]].stamp <= rows[acc[c]].stamp
    BY <1>0, <2>2 DEF IInv, StampInv
  <2>6. accounts[acc[c]].stamp \in Nat /\ rows[acc[c]].stamp \in Nat
    BY <1>0, <2>2 DEF SnapshotTypeOK, Table
  <2>7. accounts[acc[c]].stamp = rows[acc[c]].stamp
    BY <2>3, <2>4, <2>5, <2>6
  <2>8. Blocked(accounts[acc[c]].row)
    BY <1>0, <2>2, <2>3, <2>7 DEF CopyInv
  <2> QED
    BY <2>1, <2>8 DEF Valid, Usable, Blocked
<1>2. ASSUME NEW c \in Callers, Recheck(c) PROVE NoBarredGrant'
  <2>1. UNCHANGED <<acc, barred>> /\ \A d \in Callers \ {c} : pc'[d] = pc[d]
    BY <1>0, <1>2 DEF Recheck, Goto, TypeOK
  <2> QED
    BY <1>0, <1>1, <1>2, <2>1
<1>3. ASSUME NEW c \in Callers,
             \/ Acquire(c) \/ Begin(c) \/ Pick(c) \/ Park(c) \/ WakeUp(c)
             \/ EnsureOK(c) \/ EnsureFails(c) \/ CoolDown(c) \/ CallerBump(c)
             \/ CallerWriteFails(c) \/ RecheckFails(c) \/ Drop(c) \/ Attempt(c)
             \/ Reject(c) \/ Forbid(c) \/ Deliver(c) \/ ClearAccount(c)
      PROVE  NoBarredGrant'
  <2>1. \E step \in Steps \ {"granted"} : Goto(c, step)
    BY <1>3 DEF Acquire, Begin, Pick, Park, WakeUp, EnsureOK, EnsureFails,
       CoolDown, CallerBump, CallerWriteFails, AfterWrite, RecheckFails, Drop,
       Attempt, Reject, Forbid, Deliver, ClearAccount, Steps
  <2>2. \A d \in Callers \ {c} : acc'[d] = acc[d] /\ barred'[d] = barred[d]
    BY <1>0, <1>3 DEF Acquire, Begin, Pick, Park, WakeUp, EnsureOK, EnsureFails,
       CoolDown, CallerBump, CallerWriteFails, RecheckFails, Drop, Attempt,
       Reject, Forbid, Deliver, ClearAccount, TypeOK
  <2> QED
    BY <1>0, <2>1, <2>2 DEF Goto, TypeOK
<1>4. ASSUME NEW c \in Callers,
             \/ GiveUp(c) \/ Exhausted(c) \/ EnsureCancelled(c) \/ HandBack(c)
             \/ ClearModel(c) \/ LateLimit(c)
      PROVE  NoBarredGrant'
  <2>1. Leave(c)
    BY <1>4 DEF GiveUp, Exhausted, EnsureCancelled, HandBack, ClearModel, LateLimit
  <2> QED
    BY <1>0, <2>1 DEF Leave, Goto, TypeOK
<1>5. ASSUME UNCHANGED <<pc, acc>>, \A d \in Callers : barred'[d] \subseteq barred[d]
      PROVE  NoBarredGrant'
  BY <1>0, <1>5
<1>6. ASSUME NEW c \in Callers, InstallSnapshot(c) \/ LoadStep(c)
      PROVE  NoBarredGrant'
  BY <1>5, <1>6 DEF InstallSnapshot, LoadStep, poolVars
<1>7. ASSUME NEW c \in Callers, CallerCommit(c) PROVE NoBarredGrant'
  BY <1>5, <1>7 DEF CallerCommit, Lift
<1>8. CASE \/ \E w \in Admins : AdminCommit(w) \/ AdminBump(w)
           \/ Tick
           \/ UNCHANGED vars
  BY <1>5, <1>8 DEF AdminCommit, AdminBump, Lift, Tick, vars, poolVars
<1> QED
  BY <1>2, <1>3, <1>4, <1>6, <1>7, <1>8 DEF Next, CallerStep

\* No account is granted that was disabled, forbidden or deleted by a mutation
\* which returned before the recheck and was the last one.
THEOREM BarredAreNotGranted == Spec => []NoBarredGrant
<1>1. Init => GrantInv
  <2> SUFFICES ASSUME Init PROVE GrantInv
    OBVIOUS
  <2>1. \A a \in Accounts : rows[a].stamp = 1 /\ EmptyTable[a].stamp = 0
    BY DEF Init, SnapshotInit, EmptyTable
  <2>2. SettledInv
    BY <2>1 DEF Init, SnapshotInit, SettledInv
  <2>3. CopyInv
    BY <2>1 DEF Init, SnapshotInit, CopyInv
  <2>4. BarredInv /\ NoBarredGrant
    BY DEF Init, BarredInv, NoBarredGrant
  <2> QED
    BY <2>2, <2>3, <2>4 DEF GrantInv
<1>2. PoolInv /\ GrantInv /\ [Next]_vars => GrantInv'
  BY SnapshotStep, StampStep, BarStep, GrantStep DEF PoolInv, GrantInv
<1>3. GrantInv => NoBarredGrant
  BY DEF GrantInv
<1> QED
  BY <1>1, <1>2, <1>3, PoolInvariant, PTL DEF Spec

-----------------------------------------------------------------------------
(* Cooldowns. *)

CooldownInv ==
    /\ IsFiniteSet(DOMAIN limits)
    /\ \A c \in Callers : started[c] <= now
    /\ NoStickyToLimited
    /\ GrantIsNotOverACooldown

\* No limit is new or changed.
LimitsShrink == \A k \in DOMAIN limits' : k \in DOMAIN limits /\ limits'[k] = limits[k]

\* No binding is new or changed.
SessionsShrink ==
    \A s \in DOMAIN sessions' : s \in DOMAIN sessions /\ sessions'[s] = sessions[s]

\* What runs only leaves a map that is full of what runs, and as the first to end.
LEMMA RoomKeepsLive ==
  ASSUME NEW f, NEW b \in Nat, IsFiniteSet(DOMAIN f), NEW kept \in Room(f, b),
         NEW k \in DOMAIN f, f[k] > now, k \notin kept
  PROVE  LET live == {j \in DOMAIN f : f[j] > now}
         IN  Cardinality(live) >= b /\ \A j \in live : f[k] <= f[j]
<1> DEFINE live == {j \in DOMAIN f : f[j] > now}
<1>1. Cardinality(live) \in Nat
  BY FS_Subset, FS_CardinalityType
<1>2. PICK o \in live : kept = live \ {o} /\ (\A j \in live : f[o] <= f[j]) /\ ~(Cardinality(live) < b)
  BY DEF Room
<1>3. k = o
  BY <1>2
<1> HIDE DEF live
<1>4. Cardinality(live) >= b /\ \A j \in live : f[k] <= f[j]
  BY <1>1, <1>2, <1>3
<1> QED
  BY <1>4 DEF live

\* What MarkLimited does to the limits and to the sticky sessions.
LEMMA MarkLemma ==
  ASSUME IsLimits(limits), IsSessions(sessions), IsFiniteSet(DOMAIN limits), now \in Nat,
         NEW a \in Accounts, NEW scope \in Scopes, NEW until \in Nat,
         MarkLimited(a, scope, until)
  PROVE  /\ IsFiniteSet(DOMAIN limits')
         /\ SessionsShrink
         /\ \A s \in DOMAIN sessions' : sessions'[s].account # a
         /\ \A k \in DOMAIN limits' :
               \/ k \in DOMAIN limits /\ limits'[k] = limits[k]
               \/ k = <<a, scope>> /\ limits'[k].marked = now
         /\ \A k \in DOMAIN limits : limits[k].until > now =>
               \/ k \in DOMAIN limits' /\ limits'[k].until >= limits[k].until
               \/ MakesRoom(k)
<1> DEFINE key == <<a, scope>>
           end == IF key \in DOMAIN limits /\ limits[key].until > until
                  THEN limits[key].until ELSE until
           ends == [j \in DOMAIN limits |-> limits[j].until]
<1>1. PICK kept \in Room(ends, MaxLimits) :
          limits' = [j \in kept \cup {key} |->
                       IF j = key THEN [until |-> end, marked |-> now] ELSE limits[j]]
  BY DEF MarkLimited
<1>2. kept \subseteq DOMAIN limits /\ DOMAIN ends = DOMAIN limits
  BY <1>1, RoomLemma
<1>3. IsFiniteSet(kept \cup {key})
  BY <1>2, FS_Subset, FS_AddElement
<1>4. end \in Nat /\ (key \in DOMAIN limits => end >= limits[key].until)
  BY DEF IsLimits, Limit
<1>5. \A k \in DOMAIN limits : ends[k] = limits[k].until /\ limits[k].until \in Nat
  BY DEF IsLimits, Limit
<1>6. MaxLimits \in Nat
  BY PoolAssumption
<1> HIDE DEF key, end, ends
<1>7. ASSUME NEW k \in DOMAIN limits, limits[k].until > now, k \notin kept
      PROVE  MakesRoom(k)
  <2> DEFINE running == {j \in DOMAIN ends : ends[j] > now}
             live == {j \in DOMAIN limits : limits[j].until > now}
  <2>1. Cardinality(running) >= MaxLimits /\ \A j \in running : ends[k] <= ends[j]
    BY <1>1, <1>2, <1>5, <1>6, <1>7, RoomKeepsLive
  <2>2. running = live
    BY <1>2, <1>5
  <2>3. \A j \in live : ends[k] <= ends[j] /\ ends[k] = limits[k].until /\ ends[j] = limits[j].until
    BY <1>5, <1>7, <2>1, <2>2
  <2> QED
    BY <2>1, <2>2, <2>3 DEF MakesRoom
<1>8. \A k \in DOMAIN limits' :
          \/ k \in DOMAIN limits /\ limits'[k] = limits[k]
          \/ k = key /\ limits'[k].marked = now
  BY <1>1, <1>2
<1>9. \A k \in DOMAIN limits : limits[k].until > now =>
          \/ k \in DOMAIN limits' /\ limits'[k].until >= limits[k].until
          \/ MakesRoom(k)
  BY <1>1, <1>4, <1>5, <1>7
<1>10. sessions' = [s \in {t \in DOMAIN sessions : sessions[t].account # a} |-> sessions[s]]
  BY DEF MarkLimited
<1> QED
  BY <1>1, <1>3, <1>8, <1>9, <1>10 DEF key, SessionsShrink

\* A step that marks a limit, with the account and the scope.
Marks(a, scope) ==
    \E until \in Nat : MarkLimited(a, scope, until) /\ UNCHANGED now

\* A step marks one limit, or only forgets limits.
LEMMA LimitStep ==
  ASSUME TypeOK, CallInv, [Next]_vars
  PROVE  (\E a \in Accounts, scope \in Scopes : Marks(a, scope)) \/ LimitsShrink
<1> USE PoolAssumption DEF LimitsShrink
<1>0. now \in Nat
  BY DEF TypeOK
<1>1. ASSUME NEW c \in Callers, Reject(c) \/ LateLimit(c)
      PROVE  \E a \in Accounts, scope \in Scopes : Marks(a, scope)
  <2>1. acc[c] \in Accounts /\ request[c] \in Request
    BY <1>1 DEF Reject, LateLimit, CallInv, Working, Holding
  <2>2. PICK scope \in ScopesOf(c), d \in Cooldowns :
            MarkLimited(acc[c], scope, now + d)
    BY <1>1 DEF Reject, LateLimit
  <2>3. scope \in Scopes /\ now + d \in Nat /\ now' = now
    BY <1>0, <1>1, <2>1, <2>2, ScopesLemma DEF Reject, LateLimit
  <2> QED
    BY <2>1, <2>2, <2>3 DEF Marks
<1>2. ASSUME NEW c \in Callers, CoolDown(c)
      PROVE  \E a \in Accounts, scope \in Scopes : Marks(a, scope)
  <2>1. acc[c] \in Accounts /\ now' = now
    BY <1>2 DEF CoolDown, CallInv, Working
  <2>2. WholeAccount \in Scopes /\ now + RefreshCooldown \in Nat
    BY <1>0 DEF Scopes
  <2> QED
    BY <1>2, <2>1, <2>2 DEF CoolDown, Marks
<1>3. ASSUME NEW c \in Callers, ClearAccount(c) \/ ClearModel(c) PROVE LimitsShrink
  BY <1>3 DEF ClearAccount, ClearModel, ClearLimitedBefore
<1>4. ASSUME NEW c \in Callers, InstallSnapshot(c) PROVE LimitsShrink
  BY <1>4 DEF InstallSnapshot
<1>5. ASSUME NEW c \in Callers,
             \/ Acquire(c) \/ Begin(c) \/ GiveUp(c) \/ WakeUp(c) \/ EnsureOK(c)
             \/ EnsureFails(c) \/ EnsureCancelled(c) \/ CallerCommit(c)
             \/ CallerBump(c) \/ CallerWriteFails(c) \/ Recheck(c)
             \/ RecheckFails(c) \/ Drop(c) \/ Attempt(c) \/ HandBack(c)
             \/ Forbid(c) \/ Deliver(c) \/ LoadStep(c)
             \/ Pick(c) \/ Park(c) \/ Exhausted(c)
      PROVE  limits' = limits
  BY <1>5 DEF Acquire, Begin, GiveUp, WakeUp, EnsureOK, EnsureFails,
     EnsureCancelled, CallerCommit, CallerBump, CallerWriteFails, Recheck,
     RecheckFails, Drop, Attempt, HandBack, Forbid, Deliver, LoadStep, poolVars,
     Pick, Park, Exhausted
<1>6. CASE \/ \E w \in Admins : AdminCommit(w) \/ AdminBump(w)
           \/ Tick
           \/ UNCHANGED vars
  BY <1>6 DEF AdminCommit, AdminBump, Tick, vars, poolVars
<1> QED
  BY <1>1, <1>2, <1>3, <1>4, <1>5, <1>6 DEF Next, CallerStep

\* Only a pick binds a session.
LEMMA BindingStep ==
  ASSUME TypeOK, CallInv, [Next]_vars
  PROVE  SessionsShrink \/ \E c \in Callers : Pick(c)
<1> USE DEF SessionsShrink
<1>1. ASSUME NEW c \in Callers, Park(c) \/ Exhausted(c) PROVE SessionsShrink
  BY <1>1 DEF Park, Exhausted, Lookup
<1>2. ASSUME NEW c \in Callers, Reject(c) \/ LateLimit(c) \/ CoolDown(c)
      PROVE  SessionsShrink
  BY <1>2 DEF Reject, LateLimit, CoolDown, MarkLimited
<1>3. ASSUME NEW c \in Callers, InstallSnapshot(c) PROVE SessionsShrink
  BY <1>3 DEF InstallSnapshot
<1>4. ASSUME NEW c \in Callers,
             \/ Acquire(c) \/ Begin(c) \/ GiveUp(c) \/ WakeUp(c) \/ EnsureOK(c)
             \/ EnsureFails(c) \/ EnsureCancelled(c) \/ CallerCommit(c)
             \/ CallerBump(c) \/ CallerWriteFails(c) \/ Recheck(c)
             \/ RecheckFails(c) \/ Drop(c) \/ Attempt(c) \/ HandBack(c)
             \/ Forbid(c) \/ Deliver(c) \/ LoadStep(c)
             \/ ClearAccount(c) \/ ClearModel(c)
      PROVE  sessions' = sessions
  BY <1>4 DEF Acquire, Begin, GiveUp, WakeUp, EnsureOK, EnsureFails,
     EnsureCancelled, CallerCommit, CallerBump, CallerWriteFails, Recheck,
     RecheckFails, Drop, Attempt, HandBack, Forbid, Deliver, LoadStep, poolVars,
     ClearAccount, ClearModel
<1>5. CASE \/ \E w \in Admins : AdminCommit(w) \/ AdminBump(w)
           \/ Tick
           \/ UNCHANGED vars
  BY <1>5 DEF AdminCommit, AdminBump, Tick, vars, poolVars
<1> QED
  BY <1>1, <1>2, <1>3, <1>4, <1>5 DEF Next, CallerStep

\* Nobody starts in the future, and time does not go back.
LEMMA ClockStep ==
  ASSUME TypeOK, [Next]_vars, \A c \in Callers : started[c] <= now
  PROVE  now' \in Nat /\ now' >= now /\ \A c \in Callers : started'[c] <= now'
<1>0. now \in Nat /\ started \in [Callers -> Nat]
  BY DEF TypeOK
<1>1. ASSUME NEW c \in Callers,
             \/ Acquire(c) \/ Begin(c) \/ Pick(c) \/ Park(c) \/ WakeUp(c) \/ EnsureOK(c)
             \/ EnsureFails(c) \/ CoolDown(c) \/ CallerCommit(c) \/ CallerBump(c)
             \/ CallerWriteFails(c) \/ RecheckFails(c) \/ Drop(c) \/ Reject(c) \/ Forbid(c)
             \/ Deliver(c) \/ ClearAccount(c) \/ InstallSnapshot(c) \/ LoadStep(c)
      PROVE  UNCHANGED <<now, started>>
  BY <1>1 DEF Acquire, Begin, Pick, Park, WakeUp, EnsureOK, EnsureFails, CoolDown,
     CallerCommit, CallerBump, CallerWriteFails, RecheckFails, Drop, Reject, Forbid,
     Deliver, ClearAccount, InstallSnapshot, LoadStep, poolVars
<1>2. ASSUME NEW c \in Callers,
             \/ GiveUp(c) \/ Exhausted(c) \/ EnsureCancelled(c) \/ HandBack(c)
             \/ ClearModel(c) \/ LateLimit(c)
      PROVE  now' = now /\ started' = [started EXCEPT ![c] = 0]
  BY <1>2 DEF GiveUp, Exhausted, EnsureCancelled, HandBack, ClearModel, LateLimit, Leave
<1>3. ASSUME NEW c \in Callers, Recheck(c) \/ Attempt(c)
      PROVE  now' = now /\ (started' = started \/ started' = [started EXCEPT ![c] = now])
  BY <1>3 DEF Recheck, Attempt
<1>4. CASE \/ \E w \in Admins : AdminCommit(w) \/ AdminBump(w)
           \/ Tick
           \/ UNCHANGED vars
  BY <1>0, <1>4 DEF AdminCommit, AdminBump, Tick, vars, poolVars
<1>5. ASSUME now' = now, NEW c \in Callers, NEW t \in {0, now},
             started' = started \/ started' = [started EXCEPT ![c] = t]
      PROVE  now' \in Nat /\ now' >= now /\ \A d \in Callers : started'[d] <= now'
  BY <1>0, <1>5
<1> QED
  BY <1>1, <1>2, <1>3, <1>4, <1>5 DEF Next, CallerStep

\* A request is granted an account only by its recheck.
LEMMA GrantedStep ==
  ASSUME TypeOK, CallInv, [Next]_vars, NEW d \in Callers, pc'[d] = "granted"
  PROVE  \/ Recheck(d) /\ Valid(d) /\ ~Cooling(d) /\ started'[d] = now
         \/ /\ pc[d] = "granted"
            /\ acc'[d] = acc[d] /\ request'[d] = request[d] /\ started'[d] = started[d]
<1>0. /\ pc \in [Callers -> Steps] /\ acc \in [Callers -> Accounts \cup {Nobody}]
      /\ request \in [Callers -> Request \cup {Nobody}] /\ started \in [Callers -> Nat]
  BY DEF TypeOK
<1>1. ASSUME NEW c \in Callers, \E step \in Steps \ {"granted"} : Goto(c, step)
      PROVE  d # c /\ pc[d] = "granted"
  BY <1>0, <1>1 DEF Goto
<1>2. ASSUME NEW c \in Callers,
             \/ Acquire(c) \/ Begin(c) \/ Pick(c) \/ Park(c) \/ WakeUp(c) \/ EnsureOK(c)
             \/ EnsureFails(c) \/ CoolDown(c) \/ CallerBump(c) \/ CallerWriteFails(c)
             \/ RecheckFails(c) \/ Drop(c) \/ Attempt(c) \/ Reject(c) \/ Forbid(c)
             \/ Deliver(c) \/ ClearAccount(c)
      PROVE  /\ pc[d] = "granted"
             /\ acc'[d] = acc[d] /\ request'[d] = request[d] /\ started'[d] = started[d]
  <2>1. \E step \in Steps \ {"granted"} : Goto(c, step)
    BY <1>2 DEF Acquire, Begin, Pick, Park, WakeUp, EnsureOK, EnsureFails,
       CoolDown, CallerBump, CallerWriteFails, AfterWrite, RecheckFails, Drop,
       Attempt, Reject, Forbid, Deliver, ClearAccount, Steps
  <2>2. \A e \in Callers \ {c} :
            acc'[e] = acc[e] /\ request'[e] = request[e] /\ started'[e] = started[e]
    BY <1>0, <1>2 DEF Acquire, Begin, Pick, Park, WakeUp, EnsureOK, EnsureFails,
       CoolDown, CallerBump, CallerWriteFails, RecheckFails, Drop, Attempt,
       Reject, Forbid, Deliver, ClearAccount
  <2> QED
    BY <1>1, <2>1, <2>2
<1>3. ASSUME NEW c \in Callers,
             \/ GiveUp(c) \/ Exhausted(c) \/ EnsureCancelled(c) \/ HandBack(c)
             \/ ClearModel(c) \/ LateLimit(c)
      PROVE  /\ pc[d] = "granted"
             /\ acc'[d] = acc[d] /\ request'[d] = request[d] /\ started'[d] = started[d]
  <2>1. Leave(c)
    BY <1>3 DEF GiveUp, Exhausted, EnsureCancelled, HandBack, ClearModel, LateLimit
  <2> QED
    BY <1>0, <2>1 DEF Leave, Goto
<1>4. ASSUME NEW c \in Callers, Recheck(c)
      PROVE  \/ Recheck(d) /\ Valid(d) /\ ~Cooling(d) /\ started'[d] = now
             \/ /\ pc[d] = "granted"
                /\ acc'[d] = acc[d] /\ request'[d] = request[d] /\ started'[d] = started[d]
  <2>1. CASE d = c
    <3>1. pc' # [pc EXCEPT ![c] = "drop"]
      BY <1>0, <2>1
    <3> QED
      BY <1>0, <1>4, <2>1, <3>1 DEF Recheck, Goto
  <2>2. CASE d # c
    <3>1. /\ UNCHANGED <<acc, request>>
          /\ pc' = [pc EXCEPT ![c] = "granted"] \/ pc' = [pc EXCEPT ![c] = "drop"]
          /\ started' = started \/ started' = [started EXCEPT ![c] = now]
      BY <1>4 DEF Recheck, Goto
    <3> QED
      BY <1>0, <2>2, <3>1
  <2> QED
    BY <2>1, <2>2
<1>5. ASSUME NEW c \in Callers, CallerCommit(c) \/ InstallSnapshot(c) \/ LoadStep(c)
      PROVE  UNCHANGED <<pc, acc, request, started>>
  BY <1>5 DEF CallerCommit, InstallSnapshot, LoadStep, poolVars
<1>6. CASE \/ \E w \in Admins : AdminCommit(w) \/ AdminBump(w)
           \/ Tick
           \/ UNCHANGED vars
  BY <1>6 DEF AdminCommit, AdminBump, Tick, vars, poolVars
<1> QED
  BY <1>2, <1>3, <1>4, <1>5, <1>6 DEF Next, CallerStep

LEMMA CooldownStep ==
  ASSUME PoolInv, CooldownInv, [Next]_vars
  PROVE  CooldownInv'
<1> USE PoolAssumption
<1>0. /\ TypeOK /\ CallInv /\ IsSessions(sessions) /\ IsLimits(limits) /\ now \in Nat
      /\ IsFiniteSet(DOMAIN limits) /\ NoStickyToLimited /\ GrantIsNotOverACooldown
      /\ \A c \in Callers : started[c] <= now
  BY DEF PoolInv, TypeOK, CooldownInv, IsSessions, IsLimits
<1>1. now' \in Nat /\ now' >= now /\ \A c \in Callers : started'[c] <= now'
  BY <1>0, ClockStep
<1>2. IsLimits(limits') /\ IsSessions(sessions')
  BY <1>0, MapStep
<1>3. IsFiniteSet(DOMAIN limits')
  <2>1. CASE LimitsShrink
    <3>1. DOMAIN limits' \subseteq DOMAIN limits
      BY <2>1 DEF LimitsShrink
    <3> QED
      BY <1>0, <3>1, FS_Subset
  <2>2. ASSUME NEW a \in Accounts, NEW scope \in Scopes, Marks(a, scope)
        PROVE  IsFiniteSet(DOMAIN limits')
    BY <1>0, <2>2, MarkLemma DEF Marks
  <2> QED
    BY <1>0, <2>1, <2>2, LimitStep
<1>4. NoStickyToLimited'
  <2>1. CASE SessionsShrink /\ LimitsShrink
    <3> SUFFICES ASSUME NEW s \in DOMAIN sessions',
                        <<sessions'[s].account, WholeAccount>> \in DOMAIN limits'
                 PROVE  limits'[<<sessions'[s].account, WholeAccount>>].until <= now'
      BY DEF NoStickyToLimited
    <3> DEFINE k == <<sessions[s].account, WholeAccount>>
    <3>1. /\ s \in DOMAIN sessions /\ sessions'[s] = sessions[s]
          /\ k \in DOMAIN limits /\ limits'[k] = limits[k]
      BY <2>1 DEF SessionsShrink, LimitsShrink
    <3>2. limits[k].until <= now
      BY <1>0, <3>1 DEF NoStickyToLimited
    <3>3. limits[k].until \in Nat
      BY <1>0, <3>1 DEF IsLimits, Limit
    <3> QED
      BY <1>0, <1>1, <3>1, <3>2, <3>3
  <2>2. ASSUME NEW a \in Accounts, NEW scope \in Scopes, Marks(a, scope)
        PROVE  NoStickyToLimited'
    <3> SUFFICES ASSUME NEW s \in DOMAIN sessions',
                        <<sessions'[s].account, WholeAccount>> \in DOMAIN limits'
                 PROVE  limits'[<<sessions'[s].account, WholeAccount>>].until <= now'
      BY DEF NoStickyToLimited
    <3> DEFINE k == <<sessions'[s].account, WholeAccount>>
    <3>1. /\ SessionsShrink /\ sessions'[s].account # a /\ now' = now
          /\ \/ k \in DOMAIN limits /\ limits'[k] = limits[k]
             \/ k = <<a, scope>>
      BY <1>0, <2>2, MarkLemma DEF Marks
    <3>2. k \in DOMAIN limits /\ limits'[k] = limits[k]
      BY <3>1
    <3>3. s \in DOMAIN sessions /\ sessions'[s] = sessions[s]
      BY <3>1 DEF SessionsShrink
    <3> QED
      BY <1>0, <3>1, <3>2, <3>3 DEF NoStickyToLimited
  <2>3. ASSUME NEW c \in Callers, Pick(c) PROVE NoStickyToLimited'
    <3>1. PICK a \in Choices(c) : Bind(c, a)
      BY <2>3 DEF Pick
    <3>2. a \in Accounts /\ ~Limited(a, accounts[a].row, request[c].model)
      BY <3>1 DEF Choices, Free, Candidates
    <3>3. UNCHANGED <<now, limits>>
      BY <2>3 DEF Pick
    <3>4. \A s \in DOMAIN sessions' :
              \/ s \in DOMAIN sessions /\ sessions'[s] = sessions[s]
              \/ sessions'[s].account = a
      <4>1. CASE request[c].session = NoSession
        BY <3>1, <4>1 DEF Bind
      <4>2. CASE request[c].session # NoSession
        <5> DEFINE s == request[c].session
                   left == Lookup(c)
        <5>2. PICK kept \in Room([t \in DOMAIN left |-> left[t].expires], MaxSessions) :
                  sessions' = [t \in kept \cup {s} |->
                                 IF t = s THEN [account |-> a, expires |-> now + SessionTTL]
                                          ELSE sessions[t]]
          BY <3>1, <4>2 DEF Bind
        <5>3. kept \subseteq DOMAIN left
          BY <5>2, RoomLemma
        <5>4. kept \subseteq DOMAIN sessions
          BY <5>3 DEF Lookup
        <5> HIDE DEF s, left
        <5> QED
          BY <5>2, <5>4
      <4> QED
        BY <4>1, <4>2
    <3>5. <<a, WholeAccount>> \in DOMAIN limits => ~(limits[<<a, WholeAccount>>].until > now)
      BY <3>2 DEF Limited
    <3>6. <<a, WholeAccount>> \in DOMAIN limits => limits[<<a, WholeAccount>>].until \in Nat
      BY <1>0 DEF IsLimits, Limit
    <3> QED
      BY <1>0, <3>3, <3>4, <3>5, <3>6 DEF NoStickyToLimited
  <2>4. (\E c \in Callers : Pick(c)) \/ SessionsShrink
    BY <1>0, BindingStep
  <2> QED
    BY <1>0, <2>1, <2>2, <2>3, <2>4, LimitStep
<1>5. GrantIsNotOverACooldown'
  <2> SUFFICES ASSUME NEW d \in Callers, pc'[d] = "granted", NEW s \in ScopesOf(d)',
                      <<acc'[d], s>> \in DOMAIN limits',
                      limits'[<<acc'[d], s>>].until > now'
               PROVE  limits'[<<acc'[d], s>>].marked >= started'[d]
    BY DEF GrantIsNotOverACooldown
  <2> DEFINE k == <<acc'[d], s>>
  <2>0. started'[d] \in Nat
    BY <1>0, LocalTypeStep DEF TypeOK, LocalTypeOK
  <2>1. CASE /\ Recheck(d) /\ Valid(d) /\ ~Cooling(d) /\ started'[d] = now
    <3>1. UNCHANGED <<now, acc, request, limits>>
      BY <2>1 DEF Recheck
    <3>2. s \in {WholeAccount, Mapped[acc[d]][request[d].model]}
      BY <3>1 DEF ScopesOf
    <3> QED
      BY <2>1, <3>1, <3>2 DEF Cooling, Limited
  <2>2. CASE /\ pc[d] = "granted"
             /\ acc'[d] = acc[d] /\ request'[d] = request[d] /\ started'[d] = started[d]
    <3>1. s \in ScopesOf(d)
      BY <2>2 DEF ScopesOf
    <3>2. CASE k \in DOMAIN limits /\ limits'[k] = limits[k]
      <4>1. limits[k].until > now
        BY <1>0, <1>1, <3>2 DEF IsLimits, Limit
      <4> QED
        BY <1>0, <2>2, <3>1, <3>2, <4>1 DEF GrantIsNotOverACooldown
    <3>3. CASE limits'[k].marked = now
      BY <1>0, <2>2, <3>3
    <3>4. \/ k \in DOMAIN limits /\ limits'[k] = limits[k]
          \/ limits'[k].marked = now
      <4>1. CASE LimitsShrink
        BY <4>1 DEF LimitsShrink
      <4>2. ASSUME NEW a \in Accounts, NEW scope \in Scopes, Marks(a, scope)
            PROVE  \/ k \in DOMAIN limits /\ limits'[k] = limits[k]
                   \/ limits'[k].marked = now
        BY <1>0, <4>2, MarkLemma DEF Marks
      <4> QED
        BY <1>0, <4>1, <4>2, LimitStep
    <3> QED
      BY <3>2, <3>3, <3>4
  <2> QED
    BY <1>0, <2>1, <2>2, GrantedStep
<1> QED
  BY <1>1, <1>3, <1>4, <1>5 DEF CooldownInv

THEOREM CooldownInvariant == Spec => []CooldownInv
<1>1. Init => CooldownInv
  <2> SUFFICES ASSUME Init PROVE CooldownInv
    OBVIOUS
  <2>1. DOMAIN limits = {} /\ DOMAIN sessions = {} /\ now = 0
    BY DEF Init
  <2>2. \A c \in Callers : started[c] <= now /\ pc[c] # "granted"
    BY <2>1 DEF Init
  <2> QED
    BY <2>1, <2>2, FS_EmptySet DEF CooldownInv, NoStickyToLimited, GrantIsNotOverACooldown
<1>2. PoolInv /\ CooldownInv /\ [Next]_vars => CooldownInv'
  BY CooldownStep
<1> QED
  BY <1>1, <1>2, PoolInvariant, PTL DEF Spec

\* A cooldown recorded before the grant was decided is not overlooked, for any
\* number of requests, models and scopes.
THEOREM CooldownsAreHeeded == Spec => []GrantIsNotOverACooldown
<1>1. CooldownInv => GrantIsNotOverACooldown
  BY DEF CooldownInv
<1> QED
  BY <1>1, CooldownInvariant, PTL

\* A limited account captures no session (MarkLimited, selectAccount).
THEOREM StickySessionsMoveOn == Spec => []NoStickyToLimited
<1>1. CooldownInv => NoStickyToLimited
  BY DEF CooldownInv
<1> QED
  BY <1>1, CooldownInvariant, PTL

\* What CooldownKept says of one limit.
KeptOrAllowed(k) ==
    \/ k \in DOMAIN limits' /\ limits'[k].until >= limits[k].until
    \/ \E c \in Callers : /\ pc[c] \in {"clearAccount", "clearModel"}
                          /\ acc[c] = k[1]
                          /\ started[c] >= limits[k].marked
    \/ accounts'[k[1]].row = Absent
    \/ MakesRoom(k)

\* A step ends a running cooldown only for a reason.
LEMMA KeptStep ==
  ASSUME PoolInv, CooldownInv, [Next]_vars, NEW k \in DOMAIN limits, limits[k].until > now
  PROVE  KeptOrAllowed(k)
<1> USE PoolAssumption DEF KeptOrAllowed
<1>0. /\ TypeOK /\ CallInv /\ IsSessions(sessions) /\ IsLimits(limits) /\ now \in Nat
      /\ IsFiniteSet(DOMAIN limits) /\ k \in Accounts \X Scopes
      /\ limits[k].until \in Nat /\ limits[k].marked \in Nat
  BY DEF PoolInv, TypeOK, CooldownInv, IsSessions, IsLimits, Limit
<1>1. ASSUME NEW a \in Accounts, NEW scope \in Scopes, Marks(a, scope)
      PROVE  KeptOrAllowed(k)
  BY <1>0, <1>1, MarkLemma DEF Marks
<1>2. CASE limits' = limits
  BY <1>0, <1>2
<1>3. ASSUME NEW c \in Callers, NEW scope, pc[c] \in {"clearAccount", "clearModel"},
             ClearLimitedBefore(acc[c], scope, started[c])
      PROVE  KeptOrAllowed(k)
  <2>1. CASE k # <<acc[c], scope>>
    <3>1. k \in DOMAIN limits' /\ limits'[k] = limits[k]
      BY <1>3, <2>1 DEF ClearLimitedBefore
    <3> QED
      BY <1>0, <3>1
  <2>2. CASE k = <<acc[c], scope>>
    <3>1. CASE limits' = limits
      BY <1>0, <3>1
    <3>2. CASE limits[k].marked <= started[c]
      BY <1>3, <2>2, <3>2, <1>0 DEF TypeOK
    <3> QED
      BY <1>3, <2>2, <3>1, <3>2 DEF ClearLimitedBefore
  <2> QED
    BY <2>1, <2>2
<1>4. ASSUME NEW c \in Callers, InstallSnapshot(c) PROVE KeptOrAllowed(k)
  <2> DEFINE live == {a \in Accounts : listed[c][a].row # Absent}
  <2>1. limits' = [j \in {i \in DOMAIN limits : i[1] \in live} |-> limits[j]]
    BY <1>4 DEF InstallSnapshot
  <2>2. accounts' = listed[c] /\ k[1] \in Accounts
    BY <1>0, <1>4 DEF InstallSnapshot, Install
  <2>3. CASE k[1] \in live
    BY <1>0, <2>1, <2>3
  <2>4. CASE k[1] \notin live
    BY <2>2, <2>4
  <2> QED
    BY <2>3, <2>4
<1>5. ASSUME NEW c \in Callers, Reject(c) \/ LateLimit(c) \/ CoolDown(c)
      PROVE  KeptOrAllowed(k)
  <2>1. acc[c] \in Accounts
    BY <1>0, <1>5 DEF Reject, LateLimit, CoolDown, CallInv, Working, Holding
  <2>2. CASE CoolDown(c)
    <3>1. WholeAccount \in Scopes /\ now + RefreshCooldown \in Nat
      BY <1>0 DEF Scopes
    <3> QED
      BY <1>1, <2>1, <2>2, <3>1 DEF CoolDown, Marks
  <2>3. CASE Reject(c) \/ LateLimit(c)
    <3>1. request[c] \in Request /\ now' = now
      BY <1>0, <2>3 DEF Reject, LateLimit, CallInv
    <3>2. PICK scope \in ScopesOf(c), d \in Cooldowns : MarkLimited(acc[c], scope, now + d)
      BY <2>3 DEF Reject, LateLimit
    <3>3. scope \in Scopes
      BY <2>1, <3>1, <3>2, ScopesLemma
    <3>4. now + d \in Nat
      BY <1>0, <3>2
    <3> QED
      BY <1>1, <2>1, <3>1, <3>2, <3>3, <3>4 DEF Marks
  <2> QED
    BY <1>5, <2>2, <2>3
<1> HIDE DEF KeptOrAllowed
<1>6. ASSUME NEW c \in Callers, ClearAccount(c) \/ ClearModel(c) PROVE KeptOrAllowed(k)
  <2>1. PICK scope : /\ pc[c] \in {"clearAccount", "clearModel"}
                     /\ ClearLimitedBefore(acc[c], scope, started[c])
    BY <1>6 DEF ClearAccount, ClearModel
  <2> QED
    BY <1>3, <2>1
<1>7. ASSUME NEW c \in Callers,
             \/ Acquire(c) \/ Begin(c) \/ GiveUp(c) \/ WakeUp(c) \/ EnsureOK(c)
             \/ EnsureFails(c) \/ EnsureCancelled(c) \/ CallerCommit(c)
             \/ CallerBump(c) \/ CallerWriteFails(c) \/ Recheck(c)
             \/ RecheckFails(c) \/ Drop(c) \/ Attempt(c) \/ HandBack(c)
             \/ Forbid(c) \/ Deliver(c) \/ LoadStep(c)
             \/ Pick(c) \/ Park(c) \/ Exhausted(c)
      PROVE  limits' = limits
  BY <1>7 DEF Acquire, Begin, GiveUp, WakeUp, EnsureOK, EnsureFails,
     EnsureCancelled, CallerCommit, CallerBump, CallerWriteFails, Recheck,
     RecheckFails, Drop, Attempt, HandBack, Forbid, Deliver, LoadStep, poolVars,
     Pick, Park, Exhausted
<1>8. ASSUME NEW c \in Callers, CallerStep(c) PROVE KeptOrAllowed(k)
  BY <1>2, <1>4, <1>5, <1>6, <1>7, <1>8 DEF CallerStep
<1>9. CASE \/ \E w \in Admins : AdminCommit(w) \/ AdminBump(w)
           \/ Tick
           \/ UNCHANGED vars
  BY <1>2, <1>9 DEF AdminCommit, AdminBump, Tick, vars, poolVars
<1> QED
  BY <1>8, <1>9 DEF Next

\* A running cooldown ends early only by a success of an attempt that began no
\* earlier, by the removal of its account, or as the first to end of a map full
\* of running ones (MarkLimited).
THEOREM CooldownsAreKept == Spec => CooldownKept
<1>1. PoolInv /\ CooldownInv /\ [Next]_vars =>
        [\A k \in DOMAIN limits : limits[k].until > now => KeptOrAllowed(k)]_vars
  BY KeptStep
<1>2. [\A k \in DOMAIN limits : limits[k].until > now => KeptOrAllowed(k)]_vars
      => [\A k \in DOMAIN limits :
            limits[k].until > now =>
              \/ k \in DOMAIN limits' /\ limits'[k].until >= limits[k].until
              \/ \E c \in Callers : /\ pc[c] \in {"clearAccount", "clearModel"}
                                    /\ acc[c] = k[1]
                                    /\ started[c] >= limits[k].marked
              \/ accounts'[k[1]].row = Absent
              \/ MakesRoom(k)]_vars
  BY DEF KeptOrAllowed
<1> QED
  BY <1>1, <1>2, PoolInvariant, CooldownInvariant, PTL DEF Spec, CooldownKept
=============================================================================
