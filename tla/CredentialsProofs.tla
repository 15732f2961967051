-------------------------- MODULE CredentialsProofs --------------------------
(***************************************************************************)
(* Proofs about Credentials for any number of accounts, callers, permits   *)
(* and tokens.  Everything rests on the gate: its holder (GateInv) is      *)
(* alone with the tokens of the account from the second look at the row to *)
(* the update (RefreshInv), so a refused token stays refused (DeadInv);    *)
(* who was barred while it fetched credentials finds out (BarInv).         *)
(***************************************************************************)
EXTENDS Credentials, FiniteSetTheorems, TLAPS

\* TypeOK without the count of permits, which follows from PermitsAreReturned.
TypeInv ==
    /\ MutexTypeOK
    /\ rows \in [Keys -> Row \cup {Absent}]
    /\ copies \in [Keys -> Row \cup {Absent}]
    /\ failures \in [Keys -> {"none", "old"} \cup Errors]
    /\ valid \in [Keys -> Nat]
    /\ received \in [Keys -> Nat]
    /\ pc \in [Callers -> Places]
    /\ kind \in [Callers -> {"none", "acquire", "rejected", "refresh"}]
    /\ phase \in [Callers -> {"none", "invalidate", "token", "project", "assist", "quota"}]
    /\ target \in [Callers -> Keys \cup {Nobody}]
    /\ acc \in [Callers -> Row \cup {Absent}]
    /\ answer \in [Callers -> [access : Nat, refresh : Nat]]
    /\ result \in [Callers -> Results]
    /\ rejected \in [Callers -> Nat]
    /\ barred \in [Callers -> BOOLEAN]

\* Where a call has not failed yet.
Working == {"idle", "gate", "reread", "invalidate", "permit", "call", "save", "readback"}

\* The function or network call in which a caller can be at each place.
PhaseAt(c) ==
    /\ pc[c] = "invalidate" => phase[c] = "invalidate"
    /\ pc[c] \in {"reread", "readback"} => phase[c] \in {"token", "project"}
    /\ pc[c] \in {"gate", "unlock", "next"} => phase[c] \in {"invalidate", "token", "project"}
    /\ pc[c] \in {"permit", "call"} => phase[c] \in {"token", "project", "assist", "quota"}
    /\ pc[c] = "save" => phase[c] \in {"token", "project", "quota"}
    /\ phase[c] \in {"assist", "quota"} => kind[c] = "refresh"
    /\ phase[c] = "invalidate" => kind[c] = "rejected"

CallInv ==
    \A c \in Callers :
        /\ PhaseAt(c)
        /\ pc[c] # "idle" => target[c] \in Keys
        /\ pc[c] \in Working => result[c] = "ok"
        /\ pc[c] = "autodisable" => result[c] = "invalid_grant"

\* Whose gate a caller has.
HasGate(c) ==
    \/ pc[c] \in {"invalidate", "reread", "readback", "unlock"}
    \/ pc[c] \in {"permit", "call", "save"} /\ phase[c] \in {"token", "project"}

GateInv == \A c \in Callers : HasGate(c) => owner[target[c]] = c

\* Where a caller has read its account.
HasAccount(c) ==
    \/ pc[c] \in {"permit", "call", "save", "readback"}
    \/ /\ pc[c] \in {"unlock", "next"} /\ result[c] = "ok"
       /\ phase[c] \in {"token", "project"}

AccountInv == \A c \in Callers : HasAccount(c) => acc[c] # Absent

\* A refresh works with the stored tokens, and its answer is newer.
RefreshInv ==
    \A c \in Callers : phase[c] = "token" =>
        /\ pc[c] \in {"permit", "call"} => failures[target[c]] \notin Errors
        /\ pc[c] \in {"permit", "call"} /\ rows[target[c]] # Absent =>
              /\ ~rows[target[c]].fresh
              /\ rows[target[c]].refresh = acc[c].refresh
              /\ rows[target[c]].access = acc[c].access
        /\ pc[c] = "save" /\ rows[target[c]] # Absent =>
              /\ answer[c].refresh >= rows[target[c]].refresh
              /\ answer[c].access >= rows[target[c]].access

\* Refresh tokens are numbered from 1.
Numbered(r) == r # Absent => r.refresh >= 1

NumberInv ==
    /\ \A a \in Keys : Numbered(rows[a]) /\ Numbered(copies[a])
    /\ \A c \in Callers : Numbered(acc[c])
    /\ \A c \in Callers : pc[c] = "save" /\ phase[c] = "token" => answer[c].refresh >= 1

\* The server refuses the stored refresh token of a, and no answer is on its way.
Dead(a) ==
    rows[a] # Absent =>
        /\ rows[a].refresh # valid[a]
        /\ \A c \in Callers : ~(pc[c] = "save" /\ phase[c] = "token" /\ target[c] = a)

DeadInv ==
    /\ \A a \in Keys : failures[a] = "invalid_grant" => Dead(a)
    /\ \A c \in Callers : result[c] = "invalid_grant" => Dead(target[c])

\* A barred account is gone, and who reads it will notice.
BarInv ==
    \A c \in Callers : barred[c] =>
        /\ pc[c] # "idle" /\ kind[c] \in {"acquire", "rejected"}
        /\ Gone(rows[target[c]])
        /\ HasAccount(c) /\ pc[c] \in {"unlock", "next"} => acc[c].disabled
        /\ pc[c] = "done" => result[c] # "ok"

-----------------------------------------------------------------------------
(* Rows. *)

\* The admin's switch.
LEMMA SwitchedRow ==
  ASSUME NEW r \in Row, NEW b \in BOOLEAN, NEW s, s = [r EXCEPT !.disabled = b]
  PROVE  /\ s \in Row
         /\ s.access = r.access /\ s.fresh = r.fresh /\ s.refresh = r.refresh
BY DEF Row

\* A row whose token is marked as used up is otherwise the same.
LEMMA StaleRow ==
  ASSUME NEW r \in Row, NEW s, s = [r EXCEPT !.fresh = FALSE]
  PROVE  /\ s \in Row /\ s.disabled = r.disabled
         /\ s.access = r.access /\ r.access \in Nat
         /\ s.refresh = r.refresh /\ r.refresh \in Nat
BY DEF Row

-----------------------------------------------------------------------------
(* Next, action by action. *)

\* What the admin does with a row: nothing that concerns its tokens.
AdminStep(a, r) ==
    /\ AdminWrite(a, r)
    /\ r # Absent => /\ r.access = rows[a].access
                     /\ r.fresh = rows[a].fresh
                     /\ r.refresh = rows[a].refresh

LEMMA NextCases ==
  ASSUME TypeInv, [Next]_vars
  PROVE  \/ \E c \in Callers, a \in Keys :
               BeginAcquire(c, a) \/ BeginRejected(c, a) \/ BeginRefresh(c, a)
         \/ \E c \in Callers :
               \/ EnterGate(c) \/ Invalidate(c) \/ Reread(c) \/ Permit(c)
               \/ RefreshSucceeds(c) \/ RefreshFails(c) \/ CloudCall(c)
               \/ Save(c) \/ SaveFails(c) \/ ReadBack(c) \/ ContextEnds(c)
               \/ Unlock(c) \/ Failed(c) \/ AutoDisable(c) \/ RefreshRejected(c)
               \/ NeedsProject(c) \/ Returns(c) \/ FetchMetadata(c) \/ Leave(c)
         \/ \E a \in Keys, r \in Row \cup {Absent} : AdminStep(a, r)
         \/ \E a \in Keys : TokenAges(a) \/ FailureAges(a) \/ Revoke(a)
         \/ LoadCopies
         \/ UNCHANGED vars
<1>1. ASSUME NEW a \in Keys, AdminDisable(a) \/ AdminEnable(a)
      PROVE  \E r \in Row : AdminStep(a, r)
  <2>1. PICK b \in BOOLEAN : AdminWrite(a, [rows[a] EXCEPT !.disabled = b])
    BY <1>1 DEF AdminDisable, AdminEnable
  <2>2. rows[a] \in Row
    BY <1>1 DEF AdminDisable, AdminEnable, TypeInv
  <2>3. [rows[a] EXCEPT !.disabled = b] \in Row
    BY <2>2, SwitchedRow
  <2>4. AdminStep(a, [rows[a] EXCEPT !.disabled = b])
    BY <2>1, <2>2, SwitchedRow DEF AdminStep
  <2> QED
    BY <2>3, <2>4
<1>2. ASSUME NEW a \in Keys, AdminDelete(a) PROVE AdminStep(a, Absent)
  BY <1>2 DEF AdminDelete, AdminStep
<1> QED
  BY <1>1, <1>2 DEF Next, Proceed

-----------------------------------------------------------------------------
(* What a step keeps. *)

\* What was known to be dead stays dead if no refresh token is stored or
\* accepted and no answer is under way that was not before.
LEMMA DeadKept ==
  ASSUME TypeInv, CallInv, DeadInv, UNCHANGED valid,
         \A a \in Keys : rows'[a] # Absent =>
             rows[a] # Absent /\ rows'[a].refresh = rows[a].refresh,
         \A a \in Keys : failures'[a] = "invalid_grant" => failures[a] = "invalid_grant",
         \A c \in Callers : result'[c] = "invalid_grant" =>
             result[c] = "invalid_grant" /\ target'[c] = target[c],
         \A c \in Callers : pc'[c] = "save" /\ phase'[c] = "token" =>
             pc[c] = "save" /\ phase[c] = "token" /\ target'[c] = target[c]
  PROVE  DeadInv'
<1>1. \A a \in Keys : Dead(a) => Dead(a)'
  BY DEF Dead
<1>2. \A c \in Callers : result[c] = "invalid_grant" => target[c] \in Keys
  BY DEF CallInv, Working
<1> QED
  BY <1>1, <1>2 DEF DeadInv

\* Every variable but slots keeps its type.
LEMMA TypeStep ==
  ASSUME TypeInv, CallInv, AccountInv, [Next]_vars
  PROVE  TypeInv'
<1> USE MutexAssumption DEF TypeInv, MutexTypeOK, Places, Errors, Results
<1>0. \A c \in Callers : pc[c] # "idle" => target[c] \in Keys
  BY DEF CallInv
<1>1. ASSUME NEW c \in Callers, NEW a \in Keys, BeginAcquire(c, a) PROVE TypeInv'
  BY <1>1, <1>0 DEF BeginAcquire, EnsureFresh, Goto, Fails, server
<1>2. ASSUME NEW c \in Callers, NEW a \in Keys, BeginRejected(c, a) PROVE TypeInv'
  <2>1. copies[a] \in Row
    BY <1>2 DEF BeginRejected, Gone
  <2>2. copies[a].access \in Nat
    BY <2>1 DEF Row
  <2>3. rejected' \in [Callers -> Nat]
    BY <1>2, <2>2 DEF BeginRejected
  <2> QED
    BY <1>2, <2>3 DEF BeginRejected, Goto, server
<1>3. ASSUME NEW c \in Callers, NEW a \in Keys, BeginRefresh(c, a) PROVE TypeInv'
  BY <1>3, <1>0 DEF BeginRefresh, EnsureFresh, Goto, Fails, server
<1>4. ASSUME NEW c \in Callers, EnterGate(c) PROVE TypeInv'
  BY <1>4, <1>0 DEF EnterGate, TakeGate, Goto, call, server
<1>5. ASSUME NEW c \in Callers, Invalidate(c) PROVE TypeInv'
  <2>1. target[c] \in Keys
    BY <1>5, <1>0 DEF Invalidate
  <2>2. rows' \in [Keys -> Row \cup {Absent}]
    <3>1. CASE rows[target[c]] = Absent
      BY <1>5, <3>1 DEF Invalidate
    <3>2. CASE rows[target[c]] # Absent
      <4>1. rows[target[c]] \in Row
        BY <2>1, <3>2
      <4>2. [rows[target[c]] EXCEPT !.fresh = FALSE] \in Row
        BY <4>1 DEF Row
      <4> QED
        BY <1>5, <3>2, <4>2 DEF Invalidate
    <3> QED
      BY <3>1, <3>2
  <2>3. /\ failures' \in [Keys -> {"none", "old"} \cup Errors]
        /\ pc' \in [Callers -> Places] /\ result' \in [Callers -> Results]
    BY <1>5 DEF Invalidate, Goto, Fails
  <2> QED
    BY <1>5, <2>2, <2>3 DEF Invalidate, call, server
<1>6. ASSUME NEW c \in Callers, Reread(c) PROVE TypeInv'
  BY <1>6, <1>0 DEF Reread, Goto, Fails, call, Done, server
<1>7. ASSUME NEW c \in Callers, Permit(c) PROVE TypeInv'
  BY <1>7, <1>0 DEF Permit, Goto, call, server
<1>8. ASSUME NEW c \in Callers, RefreshSucceeds(c) PROVE TypeInv'
  <2>1. acc[c] \in Row
    BY <1>8 DEF RefreshSucceeds, AccountInv, HasAccount
  <2>2. acc[c].access + 1 \in Nat
    BY <2>1 DEF Row
  <2>3. PICK new \in {valid[target[c]]} \cup (IF Rotates THEN {valid[target[c]] + 1} ELSE {}) :
              /\ valid' = [valid EXCEPT ![target[c]] = new]
              /\ received' = [received EXCEPT ![target[c]] = new]
              /\ answer' = [answer EXCEPT ![c] =
                              [access |-> acc[c].access + 1, refresh |-> new]]
    BY <1>8 DEF RefreshSucceeds
  <2>4. target[c] \in Keys /\ valid[target[c]] \in Nat
    BY <1>8, <1>0 DEF RefreshSucceeds
  <2>5. new \in Nat
    <3>1. CASE Rotates
      BY <2>3, <2>4, <3>1
    <3>2. CASE ~Rotates
      BY <2>3, <2>4, <3>2
    <3> QED
      BY <3>1, <3>2
  <2>6. [access |-> acc[c].access + 1, refresh |-> new] \in [access : Nat, refresh : Nat]
    BY <2>2, <2>5
  <2>7. /\ answer' \in [Callers -> [access : Nat, refresh : Nat]]
        /\ valid' \in [Keys -> Nat] /\ received' \in [Keys -> Nat]
    BY <2>3, <2>5, <2>6
  <2>8. /\ pc' \in [Callers -> Places]
        /\ failures' \in [Keys -> {"none", "old"} \cup Errors]
    BY <1>8 DEF RefreshSucceeds, Goto
  <2> QED
    BY <1>8, <2>7, <2>8 DEF RefreshSucceeds, call
<1>9. ASSUME NEW c \in Callers, RefreshFails(c) PROVE TypeInv'
  BY <1>9, <1>0 DEF RefreshFails, Goto, Fails, call, Refusals, server
<1>10. ASSUME NEW c \in Callers, CloudCall(c) PROVE TypeInv'
  <2>1. acc[c] \in Row
    BY <1>10 DEF CloudCall, AccountInv, HasAccount
  <2>2. PICK found \in BOOLEAN :
            acc' = [acc EXCEPT ![c].project = @ \/ (found /\ phase[c] # "quota")]
    BY <1>10 DEF CloudCall
  <2>3. [acc[c] EXCEPT !.project = @ \/ (found /\ phase[c] # "quota")] \in Row
    BY <2>1, Zenon DEF Row
  <2>4. acc' \in [Callers -> Row \cup {Absent}]
    BY <2>2, <2>3
  <2>5. pc' \in [Callers -> Places] /\ result' \in [Callers -> Results]
    BY <1>10 DEF CloudCall, Goto, Fails
  <2>6. phase' \in [Callers -> {"none", "invalidate", "token", "project", "assist", "quota"}]
    BY <1>10 DEF CloudCall
  <2> QED
    BY <1>10, <2>4, <2>5, <2>6 DEF CloudCall, call, server
<1>11. ASSUME NEW c \in Callers, Save(c) PROVE TypeInv'
  <2>1. /\ target[c] \in Keys /\ rows[target[c]] \in Row
        /\ answer[c].access \in Nat /\ answer[c].refresh \in Nat
    BY <1>11, <1>0 DEF Save
  <2>2. Stored(c) \in Row
    <3>1. CASE phase[c] = "token"
      BY <2>1, <3>1 DEF Stored, Row
    <3>2. CASE phase[c] # "token"
      <4>1. acc[c] \in Row
        BY <1>11 DEF Save, AccountInv, HasAccount
      <4>2. [rows[target[c]] EXCEPT !.project = @ \/ acc[c].project] \in Row
        BY <2>1, <4>1, Zenon DEF Row
      <4> QED
        BY <3>2, <4>2 DEF Stored
    <3> QED
      BY <3>1, <3>2
  <2>3. rows' \in [Keys -> Row \cup {Absent}]
    BY <1>11, <2>2 DEF Save
  <2>4. answer' \in [Callers -> [access : Nat, refresh : Nat]]
    BY <1>11 DEF Save, NoAnswer
  <2>5. pc' \in [Callers -> Places]
    BY <1>11 DEF Save, Goto, AfterSave
  <2> QED
    BY <1>11, <2>3, <2>4, <2>5 DEF Save, call, server
<1>12. ASSUME NEW c \in Callers, SaveFails(c) PROVE TypeInv'
  BY <1>12, <1>0 DEF SaveFails, Goto, Fails, call, server, NoAnswer
<1>13. ASSUME NEW c \in Callers, ReadBack(c) PROVE TypeInv'
  BY <1>13, <1>0 DEF ReadBack, Goto, Fails, call, server
<1>14. ASSUME NEW c \in Callers, ContextEnds(c) PROVE TypeInv'
  BY <1>14, <1>0 DEF ContextEnds, Goto, Fails, call, PermitOf, server, NoAnswer
<1>15. ASSUME NEW c \in Callers, Unlock(c) PROVE TypeInv'
  BY <1>15, <1>0 DEF Unlock, GiveGate, Goto, call, server
<1>16. ASSUME NEW c \in Callers, Failed(c) PROVE TypeInv'
  BY <1>16, <1>0 DEF Failed, Goto, call, server
<1>17. ASSUME NEW c \in Callers, AutoDisable(c) PROVE TypeInv'
  <2>1. target[c] \in Keys
    BY <1>17, <1>0 DEF AutoDisable
  <2>2. rows' \in [Keys -> Row \cup {Absent}]
    <3>1. CASE UNCHANGED rows
      BY <3>1
    <3>2. CASE rows[target[c]] # Absent /\ rows' = [rows EXCEPT ![target[c]].disabled = TRUE]
      <4>1. rows[target[c]] \in Row
        BY <2>1, <3>2
      <4>2. [rows[target[c]] EXCEPT !.disabled = TRUE] \in Row
        BY <4>1 DEF Row
      <4> QED
        BY <3>2, <4>2
    <3> QED
      BY <1>17, <3>1, <3>2 DEF AutoDisable
  <2>3. pc' \in [Callers -> Places]
    BY <1>17 DEF AutoDisable, Goto
  <2> QED
    BY <1>17, <2>2, <2>3 DEF AutoDisable, call, server
<1>18. ASSUME NEW c \in Callers, RefreshRejected(c) PROVE TypeInv'
  <2>1. target[c] \in Keys /\ Gone(rows[target[c]]) \in BOOLEAN
    BY <1>18, <1>0 DEF RefreshRejected, Gone, Row
  <2>2. barred' \in [Callers -> BOOLEAN]
    BY <1>18, <2>1 DEF RefreshRejected
  <2>3. UNCHANGED <<owner, rows, copies, failures, valid, received, kind, target,
                    answer, rejected>>
    BY <1>18 DEF RefreshRejected, server
  <2>4. CASE rows[target[c]] = Absent
    <3>1. /\ UNCHANGED <<acc, phase>>
          /\ pc' \in [Callers -> Places] /\ result' \in [Callers -> Results]
      BY <1>18, <2>4 DEF RefreshRejected, Goto, Fails
    <3> QED
      BY <2>2, <2>3, <3>1
  <2>5. CASE rows[target[c]] # Absent
    <3>1. EnsureFresh(c, rows[target[c]]) /\ rows[target[c]] \in Row
      BY <1>18, <2>1, <2>5 DEF RefreshRejected
    <3>2. /\ acc' \in [Callers -> Row \cup {Absent}]
          /\ phase' \in [Callers -> {"none", "invalidate", "token", "project", "assist", "quota"}]
          /\ pc' \in [Callers -> Places] /\ result' \in [Callers -> Results]
      BY <3>1 DEF EnsureFresh, Goto, Fails
    <3> QED
      BY <2>2, <2>3, <3>2
  <2> QED
    BY <2>4, <2>5
<1>19. ASSUME NEW c \in Callers, NeedsProject(c) PROVE TypeInv'
  BY <1>19, <1>0 DEF NeedsProject, Goto, call, server
<1>20. ASSUME NEW c \in Callers, Returns(c) PROVE TypeInv'
  BY <1>20, <1>0 DEF Returns, Goto, Fails, call, Verdict, server
<1>21. ASSUME NEW c \in Callers, FetchMetadata(c) PROVE TypeInv'
  BY <1>21, <1>0 DEF FetchMetadata, Goto, call, server
<1>22. ASSUME NEW c \in Callers, Leave(c) PROVE TypeInv'
  BY <1>22, <1>0 DEF Leave, Goto, server
<1>23. ASSUME NEW a \in Keys, NEW r \in Row \cup {Absent}, AdminStep(a, r) PROVE TypeInv'
  BY <1>23, <1>0 DEF AdminStep, AdminWrite, local, server
<1>24. ASSUME NEW a \in Keys, TokenAges(a) PROVE TypeInv'
  <2>1. rows[a] \in Row
    BY <1>24 DEF TokenAges
  <2>2. [rows[a] EXCEPT !.fresh = FALSE] \in Row
    BY <2>1 DEF Row
  <2>3. rows' \in [Keys -> Row \cup {Absent}]
    BY <1>24, <2>2 DEF TokenAges
  <2> QED
    BY <1>24, <2>3 DEF TokenAges, local, server
<1>25. ASSUME NEW a \in Keys, FailureAges(a) PROVE TypeInv'
  BY <1>25, <1>0 DEF FailureAges, local, server
<1>26. ASSUME LoadCopies PROVE TypeInv'
  BY <1>26, <1>0 DEF LoadCopies, local, server
<1>27. ASSUME NEW a \in Keys, Revoke(a) PROVE TypeInv'
  BY <1>27, <1>0 DEF Revoke, local
<1>28. CASE UNCHANGED vars
  BY <1>28 DEF vars, local, server
<1> QED
  BY <1>1, <1>2, <1>3, <1>4, <1>5, <1>6, <1>7, <1>8, <1>9, <1>10, <1>11, <1>12,
     <1>13, <1>14, <1>15, <1>16, <1>17, <1>18, <1>19, <1>20, <1>21, <1>22,
     <1>23, <1>24, <1>25, <1>26, <1>27, <1>28, NextCases

\* Callers are where their function is.
LEMMA CallStep ==
  ASSUME TypeInv, CallInv, [Next]_vars
  PROVE  CallInv'
<1> USE MutexAssumption, CredentialsAssumption DEF TypeInv, CallInv, PhaseAt,
            Working, Errors
<1>1. ASSUME NEW c \in Callers, NEW a \in Keys, BeginAcquire(c, a) PROVE CallInv'
  BY <1>1 DEF BeginAcquire, EnsureFresh, Goto, Fails
<1>2. ASSUME NEW c \in Callers, NEW a \in Keys, BeginRejected(c, a) PROVE CallInv'
  BY <1>2 DEF BeginRejected, Goto
<1>3. ASSUME NEW c \in Callers, NEW a \in Keys, BeginRefresh(c, a) PROVE CallInv'
  BY <1>3 DEF BeginRefresh, EnsureFresh, Goto, Fails
<1>4. ASSUME NEW c \in Callers, EnterGate(c) PROVE CallInv'
  BY <1>4 DEF EnterGate, TakeGate, Goto, call
<1>5. ASSUME NEW c \in Callers, Invalidate(c) PROVE CallInv'
  BY <1>5 DEF Invalidate, Goto, Fails, call
<1>6. ASSUME NEW c \in Callers, Reread(c) PROVE CallInv'
  BY <1>6 DEF Reread, Goto, Fails, call, Done
<1>7. ASSUME NEW c \in Callers, Permit(c) PROVE CallInv'
  BY <1>7 DEF Permit, Goto, call
<1>8. ASSUME NEW c \in Callers, RefreshSucceeds(c) PROVE CallInv'
  BY <1>8 DEF RefreshSucceeds, Goto, call
<1>9. ASSUME NEW c \in Callers, RefreshFails(c) PROVE CallInv'
  BY <1>9 DEF RefreshFails, Goto, Fails, call, Refusals, server
<1>10. ASSUME NEW c \in Callers, CloudCall(c) PROVE CallInv'
  BY <1>10 DEF CloudCall, Goto, Fails, call
<1>11. ASSUME NEW c \in Callers, Save(c) PROVE CallInv'
  BY <1>11 DEF Save, Goto, call, Stored, AfterSave
<1>12. ASSUME NEW c \in Callers, SaveFails(c) PROVE CallInv'
  BY <1>12 DEF SaveFails, Goto, Fails, call
<1>13. ASSUME NEW c \in Callers, ReadBack(c) PROVE CallInv'
  BY <1>13 DEF ReadBack, Goto, Fails, call
<1>14. ASSUME NEW c \in Callers, ContextEnds(c) PROVE CallInv'
  BY <1>14 DEF ContextEnds, Goto, Fails, call, PermitOf
<1>15. ASSUME NEW c \in Callers, Unlock(c) PROVE CallInv'
  BY <1>15 DEF Unlock, GiveGate, Goto, call
<1>16. ASSUME NEW c \in Callers, Failed(c) PROVE CallInv'
  BY <1>16 DEF Failed, Goto, call
<1>17. ASSUME NEW c \in Callers, AutoDisable(c) PROVE CallInv'
  BY <1>17 DEF AutoDisable, Goto, call
<1>18. ASSUME NEW c \in Callers, RefreshRejected(c) PROVE CallInv'
  BY <1>18 DEF RefreshRejected, EnsureFresh, Goto, Fails
<1>19. ASSUME NEW c \in Callers, NeedsProject(c) PROVE CallInv'
  BY <1>19 DEF NeedsProject, Goto, call
<1>20. ASSUME NEW c \in Callers, Returns(c) PROVE CallInv'
  BY <1>20 DEF Returns, Goto, Fails, call, Verdict
<1>21. ASSUME NEW c \in Callers, FetchMetadata(c) PROVE CallInv'
  BY <1>21 DEF FetchMetadata, Goto, call
<1>22. ASSUME NEW c \in Callers, Leave(c) PROVE CallInv'
  BY <1>22 DEF Leave, Goto
<1>23. ASSUME NEW a \in Keys, NEW r \in Row \cup {Absent}, AdminStep(a, r) PROVE CallInv'
  BY <1>23 DEF AdminStep, AdminWrite, local
<1>24. ASSUME NEW a \in Keys, TokenAges(a) PROVE CallInv'
  BY <1>24 DEF TokenAges, local
<1>25. ASSUME NEW a \in Keys, FailureAges(a) PROVE CallInv'
  BY <1>25 DEF FailureAges, local, server
<1>26. ASSUME LoadCopies PROVE CallInv'
  BY <1>26 DEF LoadCopies, local, server
<1>27. ASSUME NEW a \in Keys, Revoke(a) PROVE CallInv'
  BY <1>27 DEF Revoke, local
<1>28. CASE UNCHANGED vars
  BY <1>28 DEF vars, local
<1> QED
  BY <1>1, <1>2, <1>3, <1>4, <1>5, <1>6, <1>7, <1>8, <1>9, <1>10, <1>11, <1>12,
     <1>13, <1>14, <1>15, <1>16, <1>17, <1>18, <1>19, <1>20, <1>21, <1>22,
     <1>23, <1>24, <1>25, <1>26, <1>27, <1>28, NextCases

\* Who is inside keeps the gate.
LEMMA GateStep ==
  ASSUME TypeInv, CallInv, GateInv, [Next]_vars
  PROVE  GateInv'
<1> USE MutexAssumption, CredentialsAssumption DEF TypeInv, MutexTypeOK,
            CallInv, PhaseAt, GateInv, HasGate
<1>1. ASSUME NEW c \in Callers, NEW a \in Keys, BeginAcquire(c, a) PROVE GateInv'
  BY <1>1 DEF BeginAcquire, EnsureFresh, Goto, Fails
<1>2. ASSUME NEW c \in Callers, NEW a \in Keys, BeginRejected(c, a) PROVE GateInv'
  BY <1>2 DEF BeginRejected, Goto
<1>3. ASSUME NEW c \in Callers, NEW a \in Keys, BeginRefresh(c, a) PROVE GateInv'
  BY <1>3 DEF BeginRefresh, EnsureFresh, Goto, Fails
<1>4. ASSUME NEW c \in Callers, EnterGate(c) PROVE GateInv'
  BY <1>4 DEF EnterGate, TakeGate, Goto, call
<1>5. ASSUME NEW c \in Callers, Invalidate(c) PROVE GateInv'
  BY <1>5 DEF Invalidate, Goto, Fails, call
<1>6. ASSUME NEW c \in Callers, Reread(c) PROVE GateInv'
  BY <1>6 DEF Reread, Goto, Fails, call, Done
<1>7. ASSUME NEW c \in Callers, Permit(c) PROVE GateInv'
  BY <1>7 DEF Permit, Goto, call
<1>8. ASSUME NEW c \in Callers, RefreshSucceeds(c) PROVE GateInv'
  BY <1>8 DEF RefreshSucceeds, Goto, call
<1>9. ASSUME NEW c \in Callers, RefreshFails(c) PROVE GateInv'
  BY <1>9 DEF RefreshFails, Goto, Fails, call, Refusals, server
<1>10. ASSUME NEW c \in Callers, CloudCall(c) PROVE GateInv'
  BY <1>10 DEF CloudCall, Goto, Fails, call
<1>11. ASSUME NEW c \in Callers, Save(c) PROVE GateInv'
  BY <1>11 DEF Save, Goto, call, Stored, AfterSave
<1>12. ASSUME NEW c \in Callers, SaveFails(c) PROVE GateInv'
  BY <1>12 DEF SaveFails, Goto, Fails, call
<1>13. ASSUME NEW c \in Callers, ReadBack(c) PROVE GateInv'
  BY <1>13 DEF ReadBack, Goto, Fails, call
<1>14. ASSUME NEW c \in Callers, ContextEnds(c) PROVE GateInv'
  BY <1>14 DEF ContextEnds, Goto, Fails, call, PermitOf
<1>15. ASSUME NEW c \in Callers, Unlock(c) PROVE GateInv'
  BY <1>15 DEF Unlock, GiveGate, Goto, call
<1>16. ASSUME NEW c \in Callers, Failed(c) PROVE GateInv'
  BY <1>16 DEF Failed, Goto, call
<1>17. ASSUME NEW c \in Callers, AutoDisable(c) PROVE GateInv'
  BY <1>17 DEF AutoDisable, Goto, call
<1>18. ASSUME NEW c \in Callers, RefreshRejected(c) PROVE GateInv'
  BY <1>18 DEF RefreshRejected, EnsureFresh, Goto, Fails
<1>19. ASSUME NEW c \in Callers, NeedsProject(c) PROVE GateInv'
  BY <1>19 DEF NeedsProject, Goto, call
<1>20. ASSUME NEW c \in Callers, Returns(c) PROVE GateInv'
  BY <1>20 DEF Returns, Goto, Fails, call, Verdict
<1>21. ASSUME NEW c \in Callers, FetchMetadata(c) PROVE GateInv'
  BY <1>21 DEF FetchMetadata, Goto, call
<1>22. ASSUME NEW c \in Callers, Leave(c) PROVE GateInv'
  BY <1>22 DEF Leave, Goto
<1>23. ASSUME NEW a \in Keys, NEW r \in Row \cup {Absent}, AdminStep(a, r) PROVE GateInv'
  BY <1>23 DEF AdminStep, AdminWrite, local
<1>24. ASSUME NEW a \in Keys, TokenAges(a) PROVE GateInv'
  BY <1>24 DEF TokenAges, local
<1>25. ASSUME NEW a \in Keys, FailureAges(a) PROVE GateInv'
  BY <1>25 DEF FailureAges, local, server
<1>26. ASSUME LoadCopies PROVE GateInv'
  BY <1>26 DEF LoadCopies, local, server
<1>27. ASSUME NEW a \in Keys, Revoke(a) PROVE GateInv'
  BY <1>27 DEF Revoke, local
<1>28. CASE UNCHANGED vars
  BY <1>28 DEF vars, local
<1> QED
  BY <1>1, <1>2, <1>3, <1>4, <1>5, <1>6, <1>7, <1>8, <1>9, <1>10, <1>11, <1>12,
     <1>13, <1>14, <1>15, <1>16, <1>17, <1>18, <1>19, <1>20, <1>21, <1>22,
     <1>23, <1>24, <1>25, <1>26, <1>27, <1>28, NextCases

\* Who went on has an account.
LEMMA AccountStep ==
  ASSUME TypeInv, CallInv, AccountInv, [Next]_vars
  PROVE  AccountInv'
<1> USE MutexAssumption, CredentialsAssumption DEF TypeInv, CallInv, PhaseAt,
            Working, AccountInv, HasAccount, Errors, Gone
<1>1. ASSUME NEW c \in Callers, NEW a \in Keys, BeginAcquire(c, a) PROVE AccountInv'
  BY <1>1 DEF BeginAcquire, EnsureFresh, Goto, Fails
<1>2. ASSUME NEW c \in Callers, NEW a \in Keys, BeginRejected(c, a) PROVE AccountInv'
  BY <1>2 DEF BeginRejected, Goto
<1>3. ASSUME NEW c \in Callers, NEW a \in Keys, BeginRefresh(c, a) PROVE AccountInv'
  BY <1>3 DEF BeginRefresh, EnsureFresh, Goto, Fails
<1>4. ASSUME NEW c \in Callers, EnterGate(c) PROVE AccountInv'
  BY <1>4 DEF EnterGate, TakeGate, Goto, call
<1>5. ASSUME NEW c \in Callers, Invalidate(c) PROVE AccountInv'
  BY <1>5 DEF Invalidate, Goto, Fails, call
<1>6. ASSUME NEW c \in Callers, Reread(c) PROVE AccountInv'
  BY <1>6 DEF Reread, Goto, Fails, call, Done
<1>7. ASSUME NEW c \in Callers, Permit(c) PROVE AccountInv'
  BY <1>7 DEF Permit, Goto, call
<1>8. ASSUME NEW c \in Callers, RefreshSucceeds(c) PROVE AccountInv'
  BY <1>8 DEF RefreshSucceeds, Goto, call
<1>9. ASSUME NEW c \in Callers, RefreshFails(c) PROVE AccountInv'
  BY <1>9 DEF RefreshFails, Goto, Fails, call, Refusals, server
<1>10. ASSUME NEW c \in Callers, CloudCall(c) PROVE AccountInv'
  <2>1. acc[c] \in Row
    BY <1>10 DEF CloudCall
  <2>2. PICK found \in BOOLEAN :
            acc' = [acc EXCEPT ![c].project = @ \/ (found /\ phase[c] # "quota")]
    BY <1>10 DEF CloudCall
  <2>3. [acc[c] EXCEPT !.project = @ \/ (found /\ phase[c] # "quota")] \in Row
    BY <2>1, Zenon DEF Row
  <2>4. acc'[c] \in Row /\ \A d \in Callers \ {c} : acc'[d] = acc[d]
    BY <2>2, <2>3
  <2>5. \A d \in Callers \ {c} : UNCHANGED <<pc[d], phase[d], result[d]>>
    BY <1>10 DEF CloudCall, Goto, Fails
  <2>6. acc'[c] # Absent
    BY <2>4 DEF Row
  <2> QED
    BY <2>4, <2>5, <2>6
<1>11. ASSUME NEW c \in Callers, Save(c) PROVE AccountInv'
  BY <1>11 DEF Save, Goto, call, Stored, AfterSave
<1>12. ASSUME NEW c \in Callers, SaveFails(c) PROVE AccountInv'
  BY <1>12 DEF SaveFails, Goto, Fails, call
<1>13. ASSUME NEW c \in Callers, ReadBack(c) PROVE AccountInv'
  BY <1>13 DEF ReadBack, Goto, Fails, call
<1>14. ASSUME NEW c \in Callers, ContextEnds(c) PROVE AccountInv'
  BY <1>14 DEF ContextEnds, Goto, Fails, call, PermitOf
<1>15. ASSUME NEW c \in Callers, Unlock(c) PROVE AccountInv'
  BY <1>15 DEF Unlock, GiveGate, Goto, call
<1>16. ASSUME NEW c \in Callers, Failed(c) PROVE AccountInv'
  BY <1>16 DEF Failed, Goto, call
<1>17. ASSUME NEW c \in Callers, AutoDisable(c) PROVE AccountInv'
  BY <1>17 DEF AutoDisable, Goto, call
<1>18. ASSUME NEW c \in Callers, RefreshRejected(c) PROVE AccountInv'
  BY <1>18 DEF RefreshRejected, EnsureFresh, Goto, Fails
<1>19. ASSUME NEW c \in Callers, NeedsProject(c) PROVE AccountInv'
  BY <1>19 DEF NeedsProject, Goto, call
<1>20. ASSUME NEW c \in Callers, Returns(c) PROVE AccountInv'
  BY <1>20 DEF Returns, Goto, Fails, call, Verdict
<1>21. ASSUME NEW c \in Callers, FetchMetadata(c) PROVE AccountInv'
  BY <1>21 DEF FetchMetadata, Goto, call
<1>22. ASSUME NEW c \in Callers, Leave(c) PROVE AccountInv'
  BY <1>22 DEF Leave, Goto
<1>23. ASSUME NEW a \in Keys, NEW r \in Row \cup {Absent}, AdminStep(a, r) PROVE AccountInv'
  BY <1>23 DEF AdminStep, AdminWrite, local
<1>24. ASSUME NEW a \in Keys, TokenAges(a) PROVE AccountInv'
  BY <1>24 DEF TokenAges, local
<1>25. ASSUME NEW a \in Keys, FailureAges(a) PROVE AccountInv'
  BY <1>25 DEF FailureAges, local, server
<1>26. ASSUME LoadCopies PROVE AccountInv'
  BY <1>26 DEF LoadCopies, local, server
<1>27. ASSUME NEW a \in Keys, Revoke(a) PROVE AccountInv'
  BY <1>27 DEF Revoke, local
<1>28. CASE UNCHANGED vars
  BY <1>28 DEF vars, local
<1> QED
  BY <1>1, <1>2, <1>3, <1>4, <1>5, <1>6, <1>7, <1>8, <1>9, <1>10, <1>11, <1>12,
     <1>13, <1>14, <1>15, <1>16, <1>17, <1>18, <1>19, <1>20, <1>21, <1>22,
     <1>23, <1>24, <1>25, <1>26, <1>27, <1>28, NextCases

\* Nobody else touches the tokens of the account that is refreshed.
LEMMA RefreshStep ==
  ASSUME TypeInv, CallInv, GateInv, AccountInv, RefreshInv, [Next]_vars
  PROVE  RefreshInv'
<1> USE MutexAssumption, CredentialsAssumption DEF TypeInv, CallInv, PhaseAt,
            GateInv, HasGate, AccountInv, HasAccount, RefreshInv, Row, Errors
<1>1. ASSUME NEW c \in Callers, NEW a \in Keys, BeginAcquire(c, a) PROVE RefreshInv'
  BY <1>1 DEF BeginAcquire, EnsureFresh, Goto, Fails
<1>2. ASSUME NEW c \in Callers, NEW a \in Keys, BeginRejected(c, a) PROVE RefreshInv'
  BY <1>2 DEF BeginRejected, Goto
<1>3. ASSUME NEW c \in Callers, NEW a \in Keys, BeginRefresh(c, a) PROVE RefreshInv'
  BY <1>3 DEF BeginRefresh, EnsureFresh, Goto, Fails
<1>4. ASSUME NEW c \in Callers, EnterGate(c) PROVE RefreshInv'
  BY <1>4 DEF EnterGate, TakeGate, Goto, call
<1>5. ASSUME NEW c \in Callers, Invalidate(c) PROVE RefreshInv'
  BY <1>5 DEF Invalidate, Goto, Fails, call
<1>6. ASSUME NEW c \in Callers, Reread(c) PROVE RefreshInv'
  BY <1>6 DEF Reread, Goto, Fails, call, Done
<1>7. ASSUME NEW c \in Callers, Permit(c) PROVE RefreshInv'
  BY <1>7 DEF Permit, Goto, call
<1>8. ASSUME NEW c \in Callers, RefreshSucceeds(c) PROVE RefreshInv'
  BY <1>8 DEF RefreshSucceeds, Goto, call
<1>9. ASSUME NEW c \in Callers, RefreshFails(c) PROVE RefreshInv'
  <2>1. /\ pc[c] = "call" /\ phase[c] = "token" /\ pc' = [pc EXCEPT ![c] = "unlock"]
        /\ UNCHANGED <<rows, acc, answer, phase, target>>
        /\ \A a \in Keys \ {target[c]} : failures'[a] = failures[a]
    BY <1>9 DEF RefreshFails, Goto, call
  <2>2. \A d \in Callers \ {c} : HasGate(d) => target[d] # target[c]
    BY <2>1
  <2> QED
    BY <2>1, <2>2
<1>10. ASSUME NEW c \in Callers, CloudCall(c) PROVE RefreshInv'
  BY <1>10 DEF CloudCall, Goto, Fails, call
<1>11. ASSUME NEW c \in Callers, Save(c) PROVE RefreshInv'
  BY <1>11 DEF Save, Goto, call, Stored, AfterSave
<1>12. ASSUME NEW c \in Callers, SaveFails(c) PROVE RefreshInv'
  BY <1>12 DEF SaveFails, Goto, Fails, call
<1>13. ASSUME NEW c \in Callers, ReadBack(c) PROVE RefreshInv'
  BY <1>13 DEF ReadBack, Goto, Fails, call
<1>14. ASSUME NEW c \in Callers, ContextEnds(c) PROVE RefreshInv'
  BY <1>14 DEF ContextEnds, Goto, Fails, call, PermitOf
<1>15. ASSUME NEW c \in Callers, Unlock(c) PROVE RefreshInv'
  BY <1>15 DEF Unlock, GiveGate, Goto, call
<1>16. ASSUME NEW c \in Callers, Failed(c) PROVE RefreshInv'
  BY <1>16 DEF Failed, Goto, call
<1>17. ASSUME NEW c \in Callers, AutoDisable(c) PROVE RefreshInv'
  <2>1. /\ target[c] \in Keys /\ pc' = [pc EXCEPT ![c] = "done"]
        /\ UNCHANGED <<acc, answer, phase, target, failures>>
    BY <1>17 DEF AutoDisable, Goto, call
  <2>2. \A b \in Keys : rows'[b] # Absent =>
            /\ rows[b] # Absent /\ rows'[b].access = rows[b].access
            /\ rows'[b].fresh = rows[b].fresh /\ rows'[b].refresh = rows[b].refresh
    <3>1. CASE UNCHANGED rows
      BY <3>1
    <3>2. CASE rows[target[c]] # Absent /\ rows' = [rows EXCEPT ![target[c]].disabled = TRUE]
      <4>1. rows[target[c]] \in Row
        BY <2>1, <3>2
      <4> QED
        BY <2>1, <3>2, <4>1 DEF Row
    <3> QED
      BY <1>17, <3>1, <3>2 DEF AutoDisable
  <2> QED
    BY <2>1, <2>2
<1>18. ASSUME NEW c \in Callers, RefreshRejected(c) PROVE RefreshInv'
  BY <1>18 DEF RefreshRejected, EnsureFresh, Goto, Fails
<1>19. ASSUME NEW c \in Callers, NeedsProject(c) PROVE RefreshInv'
  BY <1>19 DEF NeedsProject, Goto, call
<1>20. ASSUME NEW c \in Callers, Returns(c) PROVE RefreshInv'
  BY <1>20 DEF Returns, Goto, Fails, call, Verdict
<1>21. ASSUME NEW c \in Callers, FetchMetadata(c) PROVE RefreshInv'
  BY <1>21 DEF FetchMetadata, Goto, call
<1>22. ASSUME NEW c \in Callers, Leave(c) PROVE RefreshInv'
  BY <1>22 DEF Leave, Goto
<1>23. ASSUME NEW a \in Keys, NEW r \in Row \cup {Absent}, AdminStep(a, r) PROVE RefreshInv'
  <2>1. \A b \in Keys : rows'[b] # Absent =>
            /\ rows[b] # Absent /\ rows'[b].access = rows[b].access
            /\ rows'[b].fresh = rows[b].fresh /\ rows'[b].refresh = rows[b].refresh
    BY <1>23 DEF AdminStep, AdminWrite
  <2>2. UNCHANGED <<pc, acc, answer, phase, target, failures>>
    BY <1>23 DEF AdminStep, AdminWrite, local
  <2> QED
    BY <2>1, <2>2
<1>24. ASSUME NEW a \in Keys, TokenAges(a) PROVE RefreshInv'
  BY <1>24 DEF TokenAges, local
<1>25. ASSUME NEW a \in Keys, FailureAges(a) PROVE RefreshInv'
  BY <1>25 DEF FailureAges, local, server
<1>26. ASSUME LoadCopies PROVE RefreshInv'
  BY <1>26 DEF LoadCopies, local, server
<1>27. ASSUME NEW a \in Keys, Revoke(a) PROVE RefreshInv'
  BY <1>27 DEF Revoke, local
<1>28. CASE UNCHANGED vars
  BY <1>28 DEF vars, local
<1> QED
  BY <1>1, <1>2, <1>3, <1>4, <1>5, <1>6, <1>7, <1>8, <1>9, <1>10, <1>11, <1>12,
     <1>13, <1>14, <1>15, <1>16, <1>17, <1>18, <1>19, <1>20, <1>21, <1>22,
     <1>23, <1>24, <1>25, <1>26, <1>27, <1>28, NextCases

\* Refresh tokens are numbered from 1.
LEMMA NumberStep ==
  ASSUME TypeInv, CallInv, AccountInv, NumberInv, [Next]_vars
  PROVE  NumberInv'
<1> USE MutexAssumption, CredentialsAssumption DEF TypeInv, CallInv, PhaseAt,
            NumberInv, Numbered, Row
<1>1. ASSUME NEW c \in Callers, NEW a \in Keys, BeginAcquire(c, a) PROVE NumberInv'
  BY <1>1 DEF BeginAcquire, EnsureFresh, Goto, Fails
<1>2. ASSUME NEW c \in Callers, NEW a \in Keys, BeginRejected(c, a) PROVE NumberInv'
  BY <1>2 DEF BeginRejected, Goto
<1>3. ASSUME NEW c \in Callers, NEW a \in Keys, BeginRefresh(c, a) PROVE NumberInv'
  BY <1>3 DEF BeginRefresh, EnsureFresh, Goto, Fails
<1>4. ASSUME NEW c \in Callers, EnterGate(c) PROVE NumberInv'
  BY <1>4 DEF EnterGate, TakeGate, Goto, call
<1>5. ASSUME NEW c \in Callers, Invalidate(c) PROVE NumberInv'
  BY <1>5 DEF Invalidate, Goto, Fails, call
<1>6. ASSUME NEW c \in Callers, Reread(c) PROVE NumberInv'
  BY <1>6 DEF Reread, Goto, Fails, call, Done
<1>7. ASSUME NEW c \in Callers, Permit(c) PROVE NumberInv'
  BY <1>7 DEF Permit, Goto, call
<1>8. ASSUME NEW c \in Callers, RefreshSucceeds(c) PROVE NumberInv'
  <2>1. acc[c] # Absent
    BY <1>8 DEF RefreshSucceeds, AccountInv, HasAccount
  <2>2. valid[target[c]] \in Nat /\ valid[target[c]] >= 1
    BY <1>8, <2>1 DEF RefreshSucceeds
  <2>3. answer'[c].refresh >= 1 /\ \A d \in Callers \ {c} : answer'[d] = answer[d]
    BY <1>8, <2>2 DEF RefreshSucceeds
  <2>4. UNCHANGED <<rows, copies, acc, phase>> /\ pc' = [pc EXCEPT ![c] = "save"]
    BY <1>8 DEF RefreshSucceeds, Goto, call
  <2> QED
    BY <2>3, <2>4
<1>9. ASSUME NEW c \in Callers, RefreshFails(c) PROVE NumberInv'
  BY <1>9 DEF RefreshFails, Goto, Fails, call, Refusals, server
<1>10. ASSUME NEW c \in Callers, CloudCall(c) PROVE NumberInv'
  <2>1. PICK found \in BOOLEAN :
            acc' = [acc EXCEPT ![c].project = @ \/ (found /\ phase[c] # "quota")]
    BY <1>10 DEF CloudCall
  <2>2. acc[c] \in Row
    BY <1>10 DEF CloudCall, AccountInv, HasAccount
  <2>3. \E b \in BOOLEAN : acc' = [acc EXCEPT ![c] = [acc[c] EXCEPT !.project = b]]
    BY <2>1, <2>2
  <2>4. acc'[c].refresh = acc[c].refresh /\ \A d \in Callers \ {c} : acc'[d] = acc[d]
    BY <2>2, <2>3
  <2>5. /\ UNCHANGED <<rows, copies, answer>>
        /\ \A d \in Callers : pc'[d] = "save" /\ phase'[d] = "token" =>
              pc[d] = "save" /\ phase[d] = "token"
    BY <1>10 DEF CloudCall, Goto
  <2> QED
    BY <2>2, <2>4, <2>5
<1>11. ASSUME NEW c \in Callers, Save(c) PROVE NumberInv'
  BY <1>11 DEF Save, Goto, call, Stored, AfterSave
<1>12. ASSUME NEW c \in Callers, SaveFails(c) PROVE NumberInv'
  BY <1>12 DEF SaveFails, Goto, Fails, call
<1>13. ASSUME NEW c \in Callers, ReadBack(c) PROVE NumberInv'
  BY <1>13 DEF ReadBack, Goto, Fails, call
<1>14. ASSUME NEW c \in Callers, ContextEnds(c) PROVE NumberInv'
  BY <1>14 DEF ContextEnds, Goto, Fails, call, PermitOf
<1>15. ASSUME NEW c \in Callers, Unlock(c) PROVE NumberInv'
  BY <1>15 DEF Unlock, GiveGate, Goto, call
<1>16. ASSUME NEW c \in Callers, Failed(c) PROVE NumberInv'
  BY <1>16 DEF Failed, Goto, call
<1>17. ASSUME NEW c \in Callers, AutoDisable(c) PROVE NumberInv'
  <2>1. \A b \in Keys : rows'[b] # Absent => rows[b] # Absent /\ rows'[b].refresh = rows[b].refresh
    BY <1>17 DEF AutoDisable
  <2>2. /\ pc' = [pc EXCEPT ![c] = "done"] /\ UNCHANGED <<acc, answer, phase, copies>>
    BY <1>17 DEF AutoDisable, Goto, call
  <2> QED
    BY <2>1, <2>2
<1>18. ASSUME NEW c \in Callers, RefreshRejected(c) PROVE NumberInv'
  <2>1. target[c] \in Keys /\ acc'[c] \in {acc[c], rows[target[c]], Absent}
    BY <1>18 DEF RefreshRejected, EnsureFresh
  <2>2. /\ UNCHANGED <<rows, copies, answer>> /\ \A d \in Callers \ {c} : acc'[d] = acc[d]
        /\ \A d \in Callers : pc'[d] = "save" /\ phase'[d] = "token" =>
              pc[d] = "save" /\ phase[d] = "token"
    BY <1>18 DEF RefreshRejected, EnsureFresh, Goto
  <2> QED
    BY <2>1, <2>2
<1>19. ASSUME NEW c \in Callers, NeedsProject(c) PROVE NumberInv'
  BY <1>19 DEF NeedsProject, Goto, call
<1>20. ASSUME NEW c \in Callers, Returns(c) PROVE NumberInv'
  BY <1>20 DEF Returns, Goto, Fails, call, Verdict
<1>21. ASSUME NEW c \in Callers, FetchMetadata(c) PROVE NumberInv'
  BY <1>21 DEF FetchMetadata, Goto, call
<1>22. ASSUME NEW c \in Callers, Leave(c) PROVE NumberInv'
  BY <1>22 DEF Leave, Goto
<1>23. ASSUME NEW a \in Keys, NEW r \in Row \cup {Absent}, AdminStep(a, r) PROVE NumberInv'
  <2>1. \A b \in Keys : rows'[b] # Absent => rows[b] # Absent /\ rows'[b].refresh = rows[b].refresh
    BY <1>23 DEF AdminStep, AdminWrite
  <2>2. UNCHANGED <<pc, acc, answer, phase, copies>>
    BY <1>23 DEF AdminStep, AdminWrite, local
  <2> QED
    BY <2>1, <2>2
<1>24. ASSUME NEW a \in Keys, TokenAges(a) PROVE NumberInv'
  BY <1>24 DEF TokenAges, local
<1>25. ASSUME NEW a \in Keys, FailureAges(a) PROVE NumberInv'
  BY <1>25 DEF FailureAges, local, server
<1>26. ASSUME LoadCopies PROVE NumberInv'
  BY <1>26 DEF LoadCopies, local, server
<1>27. ASSUME NEW a \in Keys, Revoke(a) PROVE NumberInv'
  BY <1>27 DEF Revoke, local
<1>28. CASE UNCHANGED vars
  BY <1>28 DEF vars, local
<1> QED
  BY <1>1, <1>2, <1>3, <1>4, <1>5, <1>6, <1>7, <1>8, <1>9, <1>10, <1>11, <1>12,
     <1>13, <1>14, <1>15, <1>16, <1>17, <1>18, <1>19, <1>20, <1>21, <1>22,
     <1>23, <1>24, <1>25, <1>26, <1>27, <1>28, NextCases

\* A refused refresh token stays refused.
LEMMA DeadStep ==
  ASSUME TypeInv, CallInv, GateInv, AccountInv, RefreshInv, NumberInv, DeadInv, [Next]_vars
  PROVE  DeadInv'
<1> USE MutexAssumption, CredentialsAssumption DEF TypeInv
<1>1. ASSUME NEW c \in Callers, NEW a \in Keys, BeginAcquire(c, a) PROVE DeadInv'
  <2>1. UNCHANGED valid /\ \A b \in Keys : rows'[b] # Absent =>
            rows[b] # Absent /\ rows'[b].refresh = rows[b].refresh
    BY <1>1 DEF BeginAcquire, EnsureFresh, Goto, Fails, server
  <2>2. \A b \in Keys : failures'[b] = "invalid_grant" => failures[b] = "invalid_grant"
    BY <1>1 DEF BeginAcquire, EnsureFresh, Goto, Fails
  <2>3. \A d \in Callers : result'[d] = "invalid_grant" =>
            result[d] = "invalid_grant" /\ target'[d] = target[d]
    BY <1>1 DEF BeginAcquire, EnsureFresh, Goto, Fails, CallInv, Working
  <2>4. \A d \in Callers : pc'[d] = "save" /\ phase'[d] = "token" =>
            pc[d] = "save" /\ phase[d] = "token" /\ target'[d] = target[d]
    BY <1>1 DEF BeginAcquire, EnsureFresh, Goto, Fails, CallInv, PhaseAt
  <2> QED
    BY <2>1, <2>2, <2>3, <2>4, DeadKept
<1>2. ASSUME NEW c \in Callers, NEW a \in Keys, BeginRejected(c, a) PROVE DeadInv'
  <2>1. UNCHANGED valid /\ \A b \in Keys : rows'[b] # Absent =>
            rows[b] # Absent /\ rows'[b].refresh = rows[b].refresh
    BY <1>2 DEF BeginRejected, Goto, server
  <2>2. \A b \in Keys : failures'[b] = "invalid_grant" => failures[b] = "invalid_grant"
    BY <1>2 DEF BeginRejected, Goto
  <2>3. \A d \in Callers : result'[d] = "invalid_grant" =>
            result[d] = "invalid_grant" /\ target'[d] = target[d]
    BY <1>2 DEF BeginRejected, Goto, CallInv, Working
  <2>4. \A d \in Callers : pc'[d] = "save" /\ phase'[d] = "token" =>
            pc[d] = "save" /\ phase[d] = "token" /\ target'[d] = target[d]
    BY <1>2 DEF BeginRejected, Goto, CallInv, PhaseAt
  <2> QED
    BY <2>1, <2>2, <2>3, <2>4, DeadKept
<1>3. ASSUME NEW c \in Callers, NEW a \in Keys, BeginRefresh(c, a) PROVE DeadInv'
  <2>1. UNCHANGED valid /\ \A b \in Keys : rows'[b] # Absent =>
            rows[b] # Absent /\ rows'[b].refresh = rows[b].refresh
    BY <1>3 DEF BeginRefresh, EnsureFresh, Goto, Fails, server
  <2>2. \A b \in Keys : failures'[b] = "invalid_grant" => failures[b] = "invalid_grant"
    BY <1>3 DEF BeginRefresh, EnsureFresh, Goto, Fails
  <2>3. \A d \in Callers : result'[d] = "invalid_grant" =>
            result[d] = "invalid_grant" /\ target'[d] = target[d]
    BY <1>3 DEF BeginRefresh, EnsureFresh, Goto, Fails, CallInv, Working
  <2>4. \A d \in Callers : pc'[d] = "save" /\ phase'[d] = "token" =>
            pc[d] = "save" /\ phase[d] = "token" /\ target'[d] = target[d]
    BY <1>3 DEF BeginRefresh, EnsureFresh, Goto, Fails, CallInv, PhaseAt
  <2> QED
    BY <2>1, <2>2, <2>3, <2>4, DeadKept
<1>4. ASSUME NEW c \in Callers, EnterGate(c) PROVE DeadInv'
  <2>1. UNCHANGED valid /\ \A b \in Keys : rows'[b] # Absent =>
            rows[b] # Absent /\ rows'[b].refresh = rows[b].refresh
    BY <1>4 DEF EnterGate, TakeGate, Goto, call, server
  <2>2. \A b \in Keys : failures'[b] = "invalid_grant" => failures[b] = "invalid_grant"
    BY <1>4 DEF EnterGate, TakeGate, Goto, call
  <2>3. \A d \in Callers : result'[d] = "invalid_grant" =>
            result[d] = "invalid_grant" /\ target'[d] = target[d]
    BY <1>4 DEF EnterGate, TakeGate, Goto, call, CallInv, Working
  <2>4. \A d \in Callers : pc'[d] = "save" /\ phase'[d] = "token" =>
            pc[d] = "save" /\ phase[d] = "token" /\ target'[d] = target[d]
    BY <1>4 DEF EnterGate, TakeGate, Goto, call, CallInv, PhaseAt
  <2> QED
    BY <2>1, <2>2, <2>3, <2>4, DeadKept
<1>5. ASSUME NEW c \in Callers, Invalidate(c) PROVE DeadInv'
  <2>1. /\ target[c] \in Keys /\ pc' = [pc EXCEPT ![c] = "unlock"]
        /\ UNCHANGED <<valid, phase, target>>
        /\ failures' = [failures EXCEPT ![target[c]] = "none"]
        /\ \/ UNCHANGED result
           \/ result' = [result EXCEPT ![c] = "error"]
    BY <1>5 DEF Invalidate, Goto, Fails, call, server, CallInv
  <2>2. \A b \in Keys : rows'[b] # Absent =>
            rows[b] # Absent /\ rows'[b].refresh = rows[b].refresh
    <3>1. CASE rows[target[c]] = Absent
      BY <1>5, <3>1 DEF Invalidate
    <3>2. CASE rows[target[c]] # Absent
      <4>1. rows[target[c]] \in Row
        BY <2>1, <3>2
      <4>2. rows' = [rows EXCEPT ![target[c]].fresh = FALSE]
        BY <1>5, <3>2 DEF Invalidate
      <4> QED
        BY <2>1, <3>2, <4>1, <4>2 DEF Row
    <3> QED
      BY <3>1, <3>2
  <2> QED
    BY <2>1, <2>2, DeadKept
<1>6. ASSUME NEW c \in Callers, Reread(c) PROVE DeadInv'
  <2>1. /\ UNCHANGED <<valid, rows, failures, phase, target>>
        /\ pc'[c] # "save" /\ \A d \in Callers \ {c} : pc'[d] = pc[d] /\ result'[d] = result[d]
    BY <1>6 DEF Reread, Goto, Fails, call, server
  <2>2. \A a \in Keys : Dead(a) => Dead(a)'
    BY <2>1 DEF Dead
  <2>3. target[c] \in Keys
    BY <1>6 DEF Reread, CallInv
  <2>4. result'[c] = "invalid_grant" => failures[target[c]] = "invalid_grant"
    BY <1>6 DEF Reread, Fails, CallInv, Working, Errors
  <2>5. \A d \in Callers : result[d] = "invalid_grant" => target[d] \in Keys
    BY DEF CallInv, Working
  <2> QED
    BY <2>1, <2>2, <2>3, <2>4, <2>5 DEF DeadInv
<1>7. ASSUME NEW c \in Callers, Permit(c) PROVE DeadInv'
  <2>1. UNCHANGED valid /\ \A b \in Keys : rows'[b] # Absent =>
            rows[b] # Absent /\ rows'[b].refresh = rows[b].refresh
    BY <1>7 DEF Permit, Goto, call, server
  <2>2. \A b \in Keys : failures'[b] = "invalid_grant" => failures[b] = "invalid_grant"
    BY <1>7 DEF Permit, Goto, call
  <2>3. \A d \in Callers : result'[d] = "invalid_grant" =>
            result[d] = "invalid_grant" /\ target'[d] = target[d]
    BY <1>7 DEF Permit, Goto, call, CallInv, Working
  <2>4. \A d \in Callers : pc'[d] = "save" /\ phase'[d] = "token" =>
            pc[d] = "save" /\ phase[d] = "token" /\ target'[d] = target[d]
    BY <1>7 DEF Permit, Goto, call, CallInv, PhaseAt
  <2> QED
    BY <2>1, <2>2, <2>3, <2>4, DeadKept
<1>8. ASSUME NEW c \in Callers, RefreshSucceeds(c) PROVE DeadInv'
  <2> DEFINE a == target[c]
  <2>1. /\ pc[c] = "call" /\ phase[c] = "token" /\ acc[c].refresh = valid[a]
        /\ UNCHANGED <<rows, result, phase, target>> /\ pc' = [pc EXCEPT ![c] = "save"]
        /\ failures' = [failures EXCEPT ![a] = "none"]
        /\ \A b \in Keys \ {a} : valid'[b] = valid[b]
    BY <1>8 DEF RefreshSucceeds, Goto, call
  <2>2. a \in Keys
    BY <2>1 DEF CallInv
  <2>3. ~Dead(a) \/ rows[a] = Absent
    BY <2>1 DEF Dead, RefreshInv
  <2>4. \A b \in Keys \ {a} : Dead(b) => Dead(b)'
    BY <2>1 DEF Dead
  <2>5. rows[a] = Absent => Dead(a)'
    BY <2>1 DEF Dead
  <2>6. \A d \in Callers : result[d] = "invalid_grant" => target[d] \in Keys
    BY DEF CallInv, Working
  <2> QED
    BY <2>1, <2>2, <2>3, <2>4, <2>5, <2>6 DEF DeadInv
<1>9. ASSUME NEW c \in Callers, RefreshFails(c) PROVE DeadInv'
  <2> DEFINE a == target[c]
  <2>1. /\ pc[c] = "call" /\ phase[c] = "token"
        /\ UNCHANGED <<rows, valid, phase, target>> /\ pc' = [pc EXCEPT ![c] = "unlock"]
        /\ \A d \in Callers \ {c} : result'[d] = result[d]
        /\ \A b \in Keys \ {a} : failures'[b] = failures[b]
    BY <1>9 DEF RefreshFails, Goto, Fails, call, server
  <2>2. a \in Keys /\ owner[a] = c
    BY <2>1 DEF CallInv, GateInv, HasGate
  <2>3. \A b \in Keys : Dead(b) => Dead(b)'
    BY <2>1 DEF Dead
  <2>4. \A d \in Callers : ~(pc[d] = "save" /\ phase[d] = "token" /\ target[d] = a)
    BY <2>1, <2>2 DEF GateInv, HasGate
  <2>5. (result'[c] = "invalid_grant" \/ failures'[a] = "invalid_grant") => acc[c].refresh # valid[a]
    BY <1>9, <2>2 DEF RefreshFails, Fails, Refusals
  <2>6. acc[c].refresh # valid[a] => Dead(a)
    BY <2>1, <2>4 DEF Dead, RefreshInv
  <2>7. \A d \in Callers : result[d] = "invalid_grant" => target[d] \in Keys
    BY DEF CallInv, Working
  <2> QED
    BY <2>1, <2>2, <2>3, <2>5, <2>6, <2>7 DEF DeadInv
<1>10. ASSUME NEW c \in Callers, CloudCall(c) PROVE DeadInv'
  <2>1. UNCHANGED valid /\ \A b \in Keys : rows'[b] # Absent =>
            rows[b] # Absent /\ rows'[b].refresh = rows[b].refresh
    BY <1>10 DEF CloudCall, Goto, Fails, call, server
  <2>2. \A b \in Keys : failures'[b] = "invalid_grant" => failures[b] = "invalid_grant"
    BY <1>10 DEF CloudCall, Goto, Fails, call
  <2>3. \A d \in Callers : result'[d] = "invalid_grant" =>
            result[d] = "invalid_grant" /\ target'[d] = target[d]
    BY <1>10 DEF CloudCall, Goto, Fails, call, CallInv, Working
  <2>4. \A d \in Callers : pc'[d] = "save" /\ phase'[d] = "token" =>
            pc[d] = "save" /\ phase[d] = "token" /\ target'[d] = target[d]
    BY <1>10 DEF CloudCall, Goto, Fails, call, CallInv, PhaseAt
  <2> QED
    BY <2>1, <2>2, <2>3, <2>4, DeadKept
<1>11. ASSUME NEW c \in Callers, Save(c) PROVE DeadInv'
  <2> DEFINE a == target[c]
  <2>1. /\ pc[c] = "save" /\ UNCHANGED <<failures, valid, phase, target, result>>
        /\ pc'[c] # "save" /\ \A d \in Callers \ {c} : pc'[d] = pc[d]
        /\ rows[a] # Absent /\ rows' = [rows EXCEPT ![a] = Stored(c)]
    BY <1>11 DEF Save, Goto, AfterSave, call, server
  <2>2. a \in Keys
    BY <2>1 DEF CallInv
  <2>3. phase[c] = "token" => ~Dead(a)
    BY <2>1 DEF Dead
  <2>4. phase[c] # "token" => Stored(c).refresh = rows[a].refresh
    BY <2>1, <2>2 DEF Stored, Row
  <2>5. \A b \in Keys : Dead(b) => Dead(b)'
    BY <2>1, <2>2, <2>3, <2>4 DEF Dead
  <2>6. \A d \in Callers : result[d] = "invalid_grant" => target[d] \in Keys
    BY DEF CallInv, Working
  <2> QED
    BY <2>1, <2>5, <2>6 DEF DeadInv
<1>12. ASSUME NEW c \in Callers, SaveFails(c) PROVE DeadInv'
  <2>1. UNCHANGED valid /\ \A b \in Keys : rows'[b] # Absent =>
            rows[b] # Absent /\ rows'[b].refresh = rows[b].refresh
    BY <1>12 DEF SaveFails, Goto, Fails, call, server
  <2>2. \A b \in Keys : failures'[b] = "invalid_grant" => failures[b] = "invalid_grant"
    BY <1>12 DEF SaveFails, Goto, Fails, call
  <2>3. \A d \in Callers : result'[d] = "invalid_grant" =>
            result[d] = "invalid_grant" /\ target'[d] = target[d]
    BY <1>12 DEF SaveFails, Goto, Fails, call, CallInv, Working
  <2>4. \A d \in Callers : pc'[d] = "save" /\ phase'[d] = "token" =>
            pc[d] = "save" /\ phase[d] = "token" /\ target'[d] = target[d]
    BY <1>12 DEF SaveFails, Goto, Fails, call, CallInv, PhaseAt
  <2> QED
    BY <2>1, <2>2, <2>3, <2>4, DeadKept
<1>13. ASSUME NEW c \in Callers, ReadBack(c) PROVE DeadInv'
  <2>1. UNCHANGED valid /\ \A b \in Keys : rows'[b] # Absent =>
            rows[b] # Absent /\ rows'[b].refresh = rows[b].refresh
    BY <1>13 DEF ReadBack, Goto, Fails, call, server
  <2>2. \A b \in Keys : failures'[b] = "invalid_grant" => failures[b] = "invalid_grant"
    BY <1>13 DEF ReadBack, Goto, Fails, call
  <2>3. \A d \in Callers : result'[d] = "invalid_grant" =>
            result[d] = "invalid_grant" /\ target'[d] = target[d]
    BY <1>13 DEF ReadBack, Goto, Fails, call, CallInv, Working
  <2>4. \A d \in Callers : pc'[d] = "save" /\ phase'[d] = "token" =>
            pc[d] = "save" /\ phase[d] = "token" /\ target'[d] = target[d]
    BY <1>13 DEF ReadBack, Goto, Fails, call, CallInv, PhaseAt
  <2> QED
    BY <2>1, <2>2, <2>3, <2>4, DeadKept
<1>14. ASSUME NEW c \in Callers, ContextEnds(c) PROVE DeadInv'
  <2>1. UNCHANGED valid /\ \A b \in Keys : rows'[b] # Absent =>
            rows[b] # Absent /\ rows'[b].refresh = rows[b].refresh
    BY <1>14 DEF ContextEnds, Goto, Fails, call, PermitOf, server
  <2>2. \A b \in Keys : failures'[b] = "invalid_grant" => failures[b] = "invalid_grant"
    BY <1>14 DEF ContextEnds, Goto, Fails, call, PermitOf
  <2>3. \A d \in Callers : result'[d] = "invalid_grant" =>
            result[d] = "invalid_grant" /\ target'[d] = target[d]
    BY <1>14 DEF ContextEnds, Goto, Fails, call, PermitOf, CallInv, Working
  <2>4. \A d \in Callers : pc'[d] = "save" /\ phase'[d] = "token" =>
            pc[d] = "save" /\ phase[d] = "token" /\ target'[d] = target[d]
    BY <1>14 DEF ContextEnds, Goto, Fails, call, PermitOf, CallInv, PhaseAt
  <2> QED
    BY <2>1, <2>2, <2>3, <2>4, DeadKept
<1>15. ASSUME NEW c \in Callers, Unlock(c) PROVE DeadInv'
  <2>1. UNCHANGED valid /\ \A b \in Keys : rows'[b] # Absent =>
            rows[b] # Absent /\ rows'[b].refresh = rows[b].refresh
    BY <1>15 DEF Unlock, GiveGate, Goto, call, server
  <2>2. \A b \in Keys : failures'[b] = "invalid_grant" => failures[b] = "invalid_grant"
    BY <1>15 DEF Unlock, GiveGate, Goto, call
  <2>3. \A d \in Callers : result'[d] = "invalid_grant" =>
            result[d] = "invalid_grant" /\ target'[d] = target[d]
    BY <1>15 DEF Unlock, GiveGate, Goto, call, CallInv, Working
  <2>4. \A d \in Callers : pc'[d] = "save" /\ phase'[d] = "token" =>
            pc[d] = "save" /\ phase[d] = "token" /\ target'[d] = target[d]
    BY <1>15 DEF Unlock, GiveGate, Goto, call, CallInv, PhaseAt
  <2> QED
    BY <2>1, <2>2, <2>3, <2>4, DeadKept
<1>16. ASSUME NEW c \in Callers, Failed(c) PROVE DeadInv'
  <2>1. UNCHANGED valid /\ \A b \in Keys : rows'[b] # Absent =>
            rows[b] # Absent /\ rows'[b].refresh = rows[b].refresh
    BY <1>16 DEF Failed, Goto, call, server
  <2>2. \A b \in Keys : failures'[b] = "invalid_grant" => failures[b] = "invalid_grant"
    BY <1>16 DEF Failed, Goto, call
  <2>3. \A d \in Callers : result'[d] = "invalid_grant" =>
            result[d] = "invalid_grant" /\ target'[d] = target[d]
    BY <1>16 DEF Failed, Goto, call, CallInv, Working
  <2>4. \A d \in Callers : pc'[d] = "save" /\ phase'[d] = "token" =>
            pc[d] = "save" /\ phase[d] = "token" /\ target'[d] = target[d]
    BY <1>16 DEF Failed, Goto, call, CallInv, PhaseAt
  <2> QED
    BY <2>1, <2>2, <2>3, <2>4, DeadKept
<1>17. ASSUME NEW c \in Callers, AutoDisable(c) PROVE DeadInv'
  <2>1. /\ target[c] \in Keys /\ pc' = [pc EXCEPT ![c] = "done"]
        /\ UNCHANGED <<valid, result, phase, target, failures>>
    BY <1>17 DEF AutoDisable, Goto, call, server, CallInv
  <2>2. \A b \in Keys : rows'[b] # Absent =>
            /\ rows[b] # Absent /\ rows'[b].access = rows[b].access
            /\ rows'[b].fresh = rows[b].fresh /\ rows'[b].refresh = rows[b].refresh
    <3>1. CASE UNCHANGED rows
      BY <3>1
    <3>2. CASE rows[target[c]] # Absent /\ rows' = [rows EXCEPT ![target[c]].disabled = TRUE]
      <4>1. rows[target[c]] \in Row
        BY <2>1, <3>2
      <4> QED
        BY <2>1, <3>2, <4>1 DEF Row
    <3> QED
      BY <1>17, <3>1, <3>2 DEF AutoDisable
  <2> QED
    BY <2>1, <2>2, DeadKept
<1>18. ASSUME NEW c \in Callers, RefreshRejected(c) PROVE DeadInv'
  <2>1. UNCHANGED valid /\ \A b \in Keys : rows'[b] # Absent =>
            rows[b] # Absent /\ rows'[b].refresh = rows[b].refresh
    BY <1>18 DEF RefreshRejected, EnsureFresh, Goto, Fails, server
  <2>2. \A b \in Keys : failures'[b] = "invalid_grant" => failures[b] = "invalid_grant"
    BY <1>18 DEF RefreshRejected, EnsureFresh, Goto, Fails
  <2>3. \A d \in Callers : result'[d] = "invalid_grant" =>
            result[d] = "invalid_grant" /\ target'[d] = target[d]
    BY <1>18 DEF RefreshRejected, EnsureFresh, Goto, Fails, CallInv, Working
  <2>4. \A d \in Callers : pc'[d] = "save" /\ phase'[d] = "token" =>
            pc[d] = "save" /\ phase[d] = "token" /\ target'[d] = target[d]
    BY <1>18 DEF RefreshRejected, EnsureFresh, Goto, Fails, CallInv, PhaseAt
  <2> QED
    BY <2>1, <2>2, <2>3, <2>4, DeadKept
<1>19. ASSUME NEW c \in Callers, NeedsProject(c) PROVE DeadInv'
  <2>1. UNCHANGED valid /\ \A b \in Keys : rows'[b] # Absent =>
            rows[b] # Absent /\ rows'[b].refresh = rows[b].refresh
    BY <1>19 DEF NeedsProject, Goto, call, server
  <2>2. \A b \in Keys : failures'[b] = "invalid_grant" => failures[b] = "invalid_grant"
    BY <1>19 DEF NeedsProject, Goto, call
  <2>3. \A d \in Callers : result'[d] = "invalid_grant" =>
            result[d] = "invalid_grant" /\ target'[d] = target[d]
    BY <1>19 DEF NeedsProject, Goto, call, CallInv, Working
  <2>4. \A d \in Callers : pc'[d] = "save" /\ phase'[d] = "token" =>
            pc[d] = "save" /\ phase[d] = "token" /\ target'[d] = target[d]
    BY <1>19 DEF NeedsProject, Goto, call, CallInv, PhaseAt
  <2> QED
    BY <2>1, <2>2, <2>3, <2>4, DeadKept
<1>20. ASSUME NEW c \in Callers, Returns(c) PROVE DeadInv'
  <2>1. UNCHANGED valid /\ \A b \in Keys : rows'[b] # Absent =>
            rows[b] # Absent /\ rows'[b].refresh = rows[b].refresh
    BY <1>20 DEF Returns, Goto, Fails, call, Verdict, server
  <2>2. \A b \in Keys : failures'[b] = "invalid_grant" => failures[b] = "invalid_grant"
    BY <1>20 DEF Returns, Goto, Fails, call, Verdict
  <2>3. \A d \in Callers : result'[d] = "invalid_grant" =>
            result[d] = "invalid_grant" /\ target'[d] = target[d]
    BY <1>20 DEF Returns, Goto, Fails, call, Verdict, CallInv, Working
  <2>4. \A d \in Callers : pc'[d] = "save" /\ phase'[d] = "token" =>
            pc[d] = "save" /\ phase[d] = "token" /\ target'[d] = target[d]
    BY <1>20 DEF Returns, Goto, Fails, call, Verdict, CallInv, PhaseAt
  <2> QED
    BY <2>1, <2>2, <2>3, <2>4, DeadKept
<1>21. ASSUME NEW c \in Callers, FetchMetadata(c) PROVE DeadInv'
  <2>1. UNCHANGED valid /\ \A b \in Keys : rows'[b] # Absent =>
            rows[b] # Absent /\ rows'[b].refresh = rows[b].refresh
    BY <1>21 DEF FetchMetadata, Goto, call, server
  <2>2. \A b \in Keys : failures'[b] = "invalid_grant" => failures[b] = "invalid_grant"
    BY <1>21 DEF FetchMetadata, Goto, call
  <2>3. \A d \in Callers : result'[d] = "invalid_grant" =>
            result[d] = "invalid_grant" /\ target'[d] = target[d]
    BY <1>21 DEF FetchMetadata, Goto, call, CallInv, Working
  <2>4. \A d \in Callers : pc'[d] = "save" /\ phase'[d] = "token" =>
            pc[d] = "save" /\ phase[d] = "token" /\ target'[d] = target[d]
    BY <1>21 DEF FetchMetadata, Goto, call, CallInv, PhaseAt
  <2> QED
    BY <2>1, <2>2, <2>3, <2>4, DeadKept
<1>22. ASSUME NEW c \in Callers, Leave(c) PROVE DeadInv'
  <2>1. UNCHANGED valid /\ \A b \in Keys : rows'[b] # Absent =>
            rows[b] # Absent /\ rows'[b].refresh = rows[b].refresh
    BY <1>22 DEF Leave, Goto, server
  <2>2. \A b \in Keys : failures'[b] = "invalid_grant" => failures[b] = "invalid_grant"
    BY <1>22 DEF Leave, Goto
  <2>3. \A d \in Callers : result'[d] = "invalid_grant" =>
            result[d] = "invalid_grant" /\ target'[d] = target[d]
    BY <1>22 DEF Leave, Goto, CallInv, Working
  <2>4. \A d \in Callers : pc'[d] = "save" /\ phase'[d] = "token" =>
            pc[d] = "save" /\ phase[d] = "token" /\ target'[d] = target[d]
    BY <1>22 DEF Leave, Goto, CallInv, PhaseAt
  <2> QED
    BY <2>1, <2>2, <2>3, <2>4, DeadKept
<1>23. ASSUME NEW a \in Keys, NEW r \in Row \cup {Absent}, AdminStep(a, r) PROVE DeadInv'
  <2>1. UNCHANGED valid /\ \A b \in Keys : rows'[b] # Absent =>
            rows[b] # Absent /\ rows'[b].refresh = rows[b].refresh
    BY <1>23 DEF AdminStep, AdminWrite, local, server
  <2>2. \A b \in Keys : failures'[b] = "invalid_grant" => failures[b] = "invalid_grant"
    BY <1>23 DEF AdminStep, AdminWrite, local
  <2>3. \A d \in Callers : result'[d] = "invalid_grant" =>
            result[d] = "invalid_grant" /\ target'[d] = target[d]
    BY <1>23 DEF AdminStep, AdminWrite, local, CallInv, Working
  <2>4. \A d \in Callers : pc'[d] = "save" /\ phase'[d] = "token" =>
            pc[d] = "save" /\ phase[d] = "token" /\ target'[d] = target[d]
    BY <1>23 DEF AdminStep, AdminWrite, local, CallInv, PhaseAt
  <2> QED
    BY <2>1, <2>2, <2>3, <2>4, DeadKept
<1>24. ASSUME NEW a \in Keys, TokenAges(a) PROVE DeadInv'
  <2>1. UNCHANGED valid /\ \A b \in Keys : rows'[b] # Absent =>
            rows[b] # Absent /\ rows'[b].refresh = rows[b].refresh
    BY <1>24 DEF TokenAges, local, server
  <2>2. \A b \in Keys : failures'[b] = "invalid_grant" => failures[b] = "invalid_grant"
    BY <1>24 DEF TokenAges, local
  <2>3. \A d \in Callers : result'[d] = "invalid_grant" =>
            result[d] = "invalid_grant" /\ target'[d] = target[d]
    BY <1>24 DEF TokenAges, local, CallInv, Working
  <2>4. \A d \in Callers : pc'[d] = "save" /\ phase'[d] = "token" =>
            pc[d] = "save" /\ phase[d] = "token" /\ target'[d] = target[d]
    BY <1>24 DEF TokenAges, local, CallInv, PhaseAt
  <2> QED
    BY <2>1, <2>2, <2>3, <2>4, DeadKept
<1>25. ASSUME NEW a \in Keys, FailureAges(a) PROVE DeadInv'
  <2>1. UNCHANGED valid /\ \A b \in Keys : rows'[b] # Absent =>
            rows[b] # Absent /\ rows'[b].refresh = rows[b].refresh
    BY <1>25 DEF FailureAges, local, server
  <2>2. \A b \in Keys : failures'[b] = "invalid_grant" => failures[b] = "invalid_grant"
    BY <1>25 DEF FailureAges, local, server
  <2>3. \A d \in Callers : result'[d] = "invalid_grant" =>
            result[d] = "invalid_grant" /\ target'[d] = target[d]
    BY <1>25 DEF FailureAges, local, server, CallInv, Working
  <2>4. \A d \in Callers : pc'[d] = "save" /\ phase'[d] = "token" =>
            pc[d] = "save" /\ phase[d] = "token" /\ target'[d] = target[d]
    BY <1>25 DEF FailureAges, local, server, CallInv, PhaseAt
  <2> QED
    BY <2>1, <2>2, <2>3, <2>4, DeadKept
<1>26. ASSUME LoadCopies PROVE DeadInv'
  <2>1. UNCHANGED valid /\ \A b \in Keys : rows'[b] # Absent =>
            rows[b] # Absent /\ rows'[b].refresh = rows[b].refresh
    BY <1>26 DEF LoadCopies, local, server
  <2>2. \A b \in Keys : failures'[b] = "invalid_grant" => failures[b] = "invalid_grant"
    BY <1>26 DEF LoadCopies, local, server
  <2>3. \A d \in Callers : result'[d] = "invalid_grant" =>
            result[d] = "invalid_grant" /\ target'[d] = target[d]
    BY <1>26 DEF LoadCopies, local, server, CallInv, Working
  <2>4. \A d \in Callers : pc'[d] = "save" /\ phase'[d] = "token" =>
            pc[d] = "save" /\ phase[d] = "token" /\ target'[d] = target[d]
    BY <1>26 DEF LoadCopies, local, server, CallInv, PhaseAt
  <2> QED
    BY <2>1, <2>2, <2>3, <2>4, DeadKept
<1>27. ASSUME NEW a \in Keys, Revoke(a) PROVE DeadInv'
  <2>1. /\ UNCHANGED <<rows, failures, result, pc, phase, target>>
        /\ valid' = [valid EXCEPT ![a] = 0]
    BY <1>27 DEF Revoke, local
  <2>2. \A b \in Keys : Dead(b) => Dead(b)'
    BY <2>1 DEF Dead, NumberInv, Numbered, Row
  <2>3. \A d \in Callers : result[d] = "invalid_grant" => target[d] \in Keys
    BY DEF CallInv, Working
  <2> QED
    BY <2>1, <2>2, <2>3 DEF DeadInv
<1>28. CASE UNCHANGED vars
  BY <1>28 DEF vars, local, server, DeadInv, Dead
<1> QED
  BY <1>1, <1>2, <1>3, <1>4, <1>5, <1>6, <1>7, <1>8, <1>9, <1>10, <1>11, <1>12,
     <1>13, <1>14, <1>15, <1>16, <1>17, <1>18, <1>19, <1>20, <1>21, <1>22,
     <1>23, <1>24, <1>25, <1>26, <1>27, <1>28, NextCases

\* Who was barred finds out.
LEMMA BarStep ==
  ASSUME TypeInv, CallInv, AccountInv, BarInv, [Next]_vars
  PROVE  BarInv'
<1> USE MutexAssumption, CredentialsAssumption DEF TypeInv, CallInv, PhaseAt,
            Working, AccountInv, HasAccount, BarInv, Errors
<1>1. ASSUME NEW c \in Callers, NEW a \in Keys, BeginAcquire(c, a) PROVE BarInv'
  BY <1>1 DEF BeginAcquire, EnsureFresh, Goto, Fails
<1>2. ASSUME NEW c \in Callers, NEW a \in Keys, BeginRejected(c, a) PROVE BarInv'
  BY <1>2 DEF BeginRejected, Goto
<1>3. ASSUME NEW c \in Callers, NEW a \in Keys, BeginRefresh(c, a) PROVE BarInv'
  BY <1>3 DEF BeginRefresh, EnsureFresh, Goto, Fails
<1>4. ASSUME NEW c \in Callers, EnterGate(c) PROVE BarInv'
  BY <1>4 DEF EnterGate, TakeGate, Goto, call
<1>5. ASSUME NEW c \in Callers, Invalidate(c) PROVE BarInv'
  <2>1. \A a \in Keys : Gone(rows[a]) => Gone(rows'[a])
    BY <1>5 DEF Invalidate, Gone, Row
  <2> QED
    BY <1>5, <2>1 DEF Invalidate, Goto, Fails, call
<1>6. ASSUME NEW c \in Callers, Reread(c) PROVE BarInv'
  BY <1>6 DEF Reread, Goto, Fails, call, Done
<1>7. ASSUME NEW c \in Callers, Permit(c) PROVE BarInv'
  BY <1>7 DEF Permit, Goto, call
<1>8. ASSUME NEW c \in Callers, RefreshSucceeds(c) PROVE BarInv'
  BY <1>8 DEF RefreshSucceeds, Goto, call
<1>9. ASSUME NEW c \in Callers, RefreshFails(c) PROVE BarInv'
  BY <1>9 DEF RefreshFails, Goto, Fails, call, Refusals, server
<1>10. ASSUME NEW c \in Callers, CloudCall(c) PROVE BarInv'
  BY <1>10 DEF CloudCall, Goto, Fails, call
<1>11. ASSUME NEW c \in Callers, Save(c) PROVE BarInv'
  <2>1. \A a \in Keys : Gone(rows[a]) => Gone(rows'[a])
    BY <1>11 DEF Save, Stored, Gone, Row
  <2> QED
    BY <1>11, <2>1 DEF Save, Goto, call, AfterSave
<1>12. ASSUME NEW c \in Callers, SaveFails(c) PROVE BarInv'
  BY <1>12 DEF SaveFails, Goto, Fails, call
<1>13. ASSUME NEW c \in Callers, ReadBack(c) PROVE BarInv'
  <2>1. Gone(rows[target[c]]) /\ rows[target[c]] # Absent => rows[target[c]].disabled
    BY DEF Gone
  <2> QED
    BY <1>13, <2>1 DEF ReadBack, Goto, Fails, call
<1>14. ASSUME NEW c \in Callers, ContextEnds(c) PROVE BarInv'
  BY <1>14 DEF ContextEnds, Goto, Fails, call, PermitOf
<1>15. ASSUME NEW c \in Callers, Unlock(c) PROVE BarInv'
  BY <1>15 DEF Unlock, GiveGate, Goto, call
<1>16. ASSUME NEW c \in Callers, Failed(c) PROVE BarInv'
  BY <1>16 DEF Failed, Goto, call
<1>17. ASSUME NEW c \in Callers, AutoDisable(c) PROVE BarInv'
  <2>1. target[c] \in Keys
    BY <1>17 DEF AutoDisable
  <2>2. \A a \in Keys : Gone(rows[a]) => Gone(rows'[a])
    <3>1. CASE UNCHANGED rows
      BY <3>1
    <3>2. CASE rows[target[c]] # Absent /\ rows' = [rows EXCEPT ![target[c]].disabled = TRUE]
      <4>1. rows[target[c]] \in Row
        BY <2>1, <3>2
      <4> QED
        BY <2>1, <3>2, <4>1 DEF Row, Gone
    <3> QED
      BY <1>17, <3>1, <3>2 DEF AutoDisable
  <2> QED
    BY <1>17, <2>2 DEF AutoDisable, Goto, call
<1>18. ASSUME NEW c \in Callers, RefreshRejected(c) PROVE BarInv'
  <2>1. /\ target[c] \in Keys /\ kind[c] = "rejected" /\ pc[c] = "next"
        /\ barred' = [barred EXCEPT ![c] = Gone(rows[target[c]])]
        /\ UNCHANGED <<rows, kind, target>>
        /\ \A d \in Callers \ {c} : UNCHANGED <<pc[d], acc[d], result[d], phase[d]>>
    BY <1>18 DEF RefreshRejected, EnsureFresh, Goto, Fails
  <2>2. pc'[c] \in {"done", "gate", "next"} /\ kind'[c] = "rejected"
    BY <1>18, <2>1 DEF RefreshRejected, EnsureFresh, Goto, Fails
  <2>3. pc'[c] = "done" => result'[c] = "error"
    BY <1>18, <2>1 DEF RefreshRejected, EnsureFresh, Goto, Fails
  <2>4. pc'[c] = "next" => rows[target[c]] # Absent /\ acc'[c] = rows[target[c]]
    BY <1>18, <2>1 DEF RefreshRejected, EnsureFresh, Goto, Fails
  <2>5. pc'[c] = "next" /\ Gone(rows[target[c]]) => acc'[c].disabled
    BY <2>4 DEF Gone
  <2> QED
    BY <2>1, <2>2, <2>3, <2>5
<1>19. ASSUME NEW c \in Callers, NeedsProject(c) PROVE BarInv'
  BY <1>19 DEF NeedsProject, Goto, call
<1>20. ASSUME NEW c \in Callers, Returns(c) PROVE BarInv'
  BY <1>20 DEF Returns, Goto, Fails, call, Verdict
<1>21. ASSUME NEW c \in Callers, FetchMetadata(c) PROVE BarInv'
  BY <1>21 DEF FetchMetadata, Goto, call
<1>22. ASSUME NEW c \in Callers, Leave(c) PROVE BarInv'
  BY <1>22 DEF Leave, Goto
<1>23. ASSUME NEW a \in Keys, NEW r \in Row \cup {Absent}, AdminStep(a, r) PROVE BarInv'
  <2>1. /\ rows' = [rows EXCEPT ![a] = r] /\ UNCHANGED <<pc, kind, phase, target, acc, result>>
        /\ barred' = [d \in Callers |-> IF target[d] # a THEN barred[d]
                                        ELSE IF Gone(r) THEN barred[d] \/ d \in Reading(a)
                                        ELSE FALSE]
    BY <1>23 DEF AdminStep, AdminWrite, local
  <2>2. ASSUME NEW d \in Callers, barred'[d], target[d] # a
        PROVE  barred[d] /\ rows'[target[d]] = rows[target[d]]
    BY <2>1, <2>2
  <2>3. ASSUME NEW d \in Callers, barred'[d], target[d] = a
        PROVE  Gone(rows'[a]) /\ (barred[d] \/ d \in Reading(a))
    BY <2>1, <2>3
  <2>4. ASSUME NEW d \in Callers, d \in Reading(a)
        PROVE  /\ kind[d] \in {"acquire", "rejected"}
               /\ pc[d] \in {"gate", "reread", "permit", "call", "save", "readback"}
    BY <2>4 DEF Reading
  <2> QED
    BY <2>1, <2>2, <2>3, <2>4
<1>24. ASSUME NEW a \in Keys, TokenAges(a) PROVE BarInv'
  <2>1. \A b \in Keys : Gone(rows[b]) => Gone(rows'[b])
    BY <1>24 DEF TokenAges, Gone, Row
  <2> QED
    BY <1>24, <2>1 DEF TokenAges, local
<1>25. ASSUME NEW a \in Keys, FailureAges(a) PROVE BarInv'
  BY <1>25 DEF FailureAges, local, server
<1>26. ASSUME LoadCopies PROVE BarInv'
  BY <1>26 DEF LoadCopies, local, server
<1>27. ASSUME NEW a \in Keys, Revoke(a) PROVE BarInv'
  BY <1>27 DEF Revoke, local
<1>28. CASE UNCHANGED vars
  BY <1>28 DEF vars, local
<1> QED
  BY <1>1, <1>2, <1>3, <1>4, <1>5, <1>6, <1>7, <1>8, <1>9, <1>10, <1>11, <1>12,
     <1>13, <1>14, <1>15, <1>16, <1>17, <1>18, <1>19, <1>20, <1>21, <1>22,
     <1>23, <1>24, <1>25, <1>26, <1>27, <1>28, NextCases

-----------------------------------------------------------------------------
(* Permits. *)

InCall == {c \in Callers : pc[c] = "call"}

\* A step takes one permit, returns one, or leaves them alone.
PermitStep ==
    \/ UNCHANGED slots /\ InCall' = InCall
    \/ /\ slots < NetworkSlots /\ slots' = slots + 1
       /\ \E c \in Callers \ InCall : InCall' = InCall \cup {c}
    \/ /\ slots' = slots - 1
       /\ \E c \in InCall : InCall' = InCall \ {c}

\* Who takes or returns a permit goes into the call or comes out of it.
LEMMA PermitCases ==
  ASSUME slots \in Nat, TypeInv, CallInv, [Next]_vars
  PROVE  PermitStep
<1> USE CredentialsAssumption DEF TypeInv, CallInv, PhaseAt, PermitStep, InCall
<1>1. ASSUME NEW c \in Callers, NEW a \in Keys, BeginAcquire(c, a) PROVE PermitStep
  BY <1>1 DEF BeginAcquire, EnsureFresh, Goto, Fails
<1>2. ASSUME NEW c \in Callers, NEW a \in Keys, BeginRejected(c, a) PROVE PermitStep
  BY <1>2 DEF BeginRejected, Goto
<1>3. ASSUME NEW c \in Callers, NEW a \in Keys, BeginRefresh(c, a) PROVE PermitStep
  BY <1>3 DEF BeginRefresh, EnsureFresh, Goto, Fails
<1>4. ASSUME NEW c \in Callers, EnterGate(c) PROVE PermitStep
  BY <1>4 DEF EnterGate, TakeGate, Goto, call
<1>5. ASSUME NEW c \in Callers, Invalidate(c) PROVE PermitStep
  BY <1>5 DEF Invalidate, Goto, Fails, call
<1>6. ASSUME NEW c \in Callers, Reread(c) PROVE PermitStep
  BY <1>6 DEF Reread, Goto, Fails, call, Done
<1>7. ASSUME NEW c \in Callers, Permit(c) PROVE PermitStep
  <2>1. /\ pc[c] # "call" /\ pc'[c] = "call" /\ slots < NetworkSlots /\ slots' = slots + 1
        /\ \A d \in Callers \ {c} : pc'[d] = pc[d]
    BY <1>7 DEF Permit, Goto
  <2> QED
    BY <2>1
<1>8. ASSUME NEW c \in Callers, RefreshSucceeds(c) PROVE PermitStep
  <2>1. /\ pc[c] = "call" /\ pc'[c] # "call" /\ slots' = slots - 1
        /\ \A d \in Callers \ {c} : pc'[d] = pc[d]
    BY <1>8 DEF RefreshSucceeds, Goto, call
  <2> QED
    BY <2>1
<1>9. ASSUME NEW c \in Callers, RefreshFails(c) PROVE PermitStep
  <2>1. /\ pc[c] = "call" /\ pc'[c] # "call" /\ slots' = slots - 1
        /\ \A d \in Callers \ {c} : pc'[d] = pc[d]
    BY <1>9 DEF RefreshFails, Goto, Fails, call, Refusals, server
  <2> QED
    BY <2>1
<1>10. ASSUME NEW c \in Callers, CloudCall(c) PROVE PermitStep
  <2>1. /\ pc[c] = "call" /\ pc'[c] # "call" /\ slots' = slots - 1
        /\ \A d \in Callers \ {c} : pc'[d] = pc[d]
    BY <1>10 DEF CloudCall, Goto, Fails, call
  <2> QED
    BY <2>1
<1>11. ASSUME NEW c \in Callers, Save(c) PROVE PermitStep
  BY <1>11 DEF Save, Goto, call, Stored, AfterSave
<1>12. ASSUME NEW c \in Callers, SaveFails(c) PROVE PermitStep
  BY <1>12 DEF SaveFails, Goto, Fails, call
<1>13. ASSUME NEW c \in Callers, ReadBack(c) PROVE PermitStep
  BY <1>13 DEF ReadBack, Goto, Fails, call
<1>14. ASSUME NEW c \in Callers, ContextEnds(c) PROVE PermitStep
  <2>1. CASE pc[c] = "call"
    <3>1. /\ pc'[c] # "call" /\ slots' = slots - 1
          /\ \A d \in Callers \ {c} : pc'[d] = pc[d]
      BY <1>14, <2>1 DEF ContextEnds, Goto, PermitOf
    <3> QED
      BY <2>1, <3>1
  <2>2. CASE pc[c] # "call"
    <3>1. /\ pc'[c] # "call" /\ slots' = slots
          /\ \A d \in Callers \ {c} : pc'[d] = pc[d]
      BY <1>14, <2>2 DEF ContextEnds, Goto, PermitOf
    <3> QED
      BY <2>2, <3>1
  <2> QED
    BY <2>1, <2>2
<1>15. ASSUME NEW c \in Callers, Unlock(c) PROVE PermitStep
  BY <1>15 DEF Unlock, GiveGate, Goto, call
<1>16. ASSUME NEW c \in Callers, Failed(c) PROVE PermitStep
  BY <1>16 DEF Failed, Goto, call
<1>17. ASSUME NEW c \in Callers, AutoDisable(c) PROVE PermitStep
  BY <1>17 DEF AutoDisable, Goto, call
<1>18. ASSUME NEW c \in Callers, RefreshRejected(c) PROVE PermitStep
  BY <1>18 DEF RefreshRejected, EnsureFresh, Goto, Fails
<1>19. ASSUME NEW c \in Callers, NeedsProject(c) PROVE PermitStep
  BY <1>19 DEF NeedsProject, Goto, call
<1>20. ASSUME NEW c \in Callers, Returns(c) PROVE PermitStep
  BY <1>20 DEF Returns, Goto, Fails, call, Verdict
<1>21. ASSUME NEW c \in Callers, FetchMetadata(c) PROVE PermitStep
  BY <1>21 DEF FetchMetadata, Goto, call
<1>22. ASSUME NEW c \in Callers, Leave(c) PROVE PermitStep
  BY <1>22 DEF Leave, Goto
<1>23. ASSUME NEW a \in Keys, NEW r \in Row \cup {Absent}, AdminStep(a, r) PROVE PermitStep
  BY <1>23 DEF AdminStep, AdminWrite, local
<1>24. ASSUME NEW a \in Keys, TokenAges(a) PROVE PermitStep
  BY <1>24 DEF TokenAges, local
<1>25. ASSUME NEW a \in Keys, FailureAges(a) PROVE PermitStep
  BY <1>25 DEF FailureAges, local, server
<1>26. ASSUME LoadCopies PROVE PermitStep
  BY <1>26 DEF LoadCopies, local, server
<1>27. ASSUME NEW a \in Keys, Revoke(a) PROVE PermitStep
  BY <1>27 DEF Revoke, local
<1>28. CASE UNCHANGED vars
  BY <1>28 DEF vars, local
<1> QED
  BY <1>1, <1>2, <1>3, <1>4, <1>5, <1>6, <1>7, <1>8, <1>9, <1>10, <1>11, <1>12,
     <1>13, <1>14, <1>15, <1>16, <1>17, <1>18, <1>19, <1>20, <1>21, <1>22,
     <1>23, <1>24, <1>25, <1>26, <1>27, <1>28, NextCases

\* As many permits are in use as there are calls.
PermitInv == slots \in 0 .. NetworkSlots /\ slots = Cardinality(InCall)

LEMMA PermitCount ==
  ASSUME TypeInv, CallInv, PermitInv, [Next]_vars
  PROVE  PermitInv'
<1>1. IsFiniteSet(InCall) /\ slots \in Nat /\ slots <= NetworkSlots /\ NetworkSlots \in Nat
  <2>1. InCall \in SUBSET Callers
    BY DEF InCall
  <2> QED
    BY <2>1, FS_Subset, CredentialsAssumption DEF PermitInv
<1>2. CASE UNCHANGED slots /\ InCall' = InCall
  BY <1>2 DEF PermitInv
<1>3. CASE /\ slots < NetworkSlots /\ slots' = slots + 1
           /\ \E c \in Callers \ InCall : InCall' = InCall \cup {c}
  <2>1. PICK c \in Callers \ InCall : InCall' = InCall \cup {c}
    BY <1>3
  <2>2. Cardinality(InCall \cup {c}) = Cardinality(InCall) + 1
    BY <1>1, <2>1, FS_AddElement
  <2> QED
    BY <1>1, <1>3, <2>1, <2>2 DEF PermitInv
<1>4. CASE slots' = slots - 1 /\ \E c \in InCall : InCall' = InCall \ {c}
  <2>1. PICK c \in InCall : InCall' = InCall \ {c}
    BY <1>4
  <2>2. Cardinality(InCall \ {c}) = Cardinality(InCall) - 1
    BY <1>1, <2>1, FS_RemoveElement
  <2>3. Cardinality(InCall \ {c}) \in Nat
    BY <1>1, FS_RemoveElement, FS_CardinalityType
  <2> QED
    BY <1>1, <1>4, <2>1, <2>2, <2>3 DEF PermitInv
<1> QED
  BY <1>1, <1>2, <1>3, <1>4, PermitCases DEF PermitStep

-----------------------------------------------------------------------------
(* The inductive invariant and what follows from it. *)

CredentialsInv ==
    /\ TypeInv
    /\ CallInv
    /\ GateInv
    /\ AccountInv
    /\ RefreshInv
    /\ NumberInv
    /\ DeadInv
    /\ BarInv
    /\ PermitInv

LEMMA InitCredentials ==
  ASSUME Init
  PROVE  CredentialsInv
<1>1. \A a \in Keys : rows[a] \in Row /\ rows[a].refresh = 1
  <2>1. \A a \in Keys : rows[a] \in [access : {1}, fresh : BOOLEAN, refresh : {1},
                                    disabled : {FALSE}, project : BOOLEAN]
    BY CredentialsAssumption DEF Init
  <2>2. ASSUME NEW r \in [access : {1}, fresh : BOOLEAN, refresh : {1},
                          disabled : {FALSE}, project : BOOLEAN]
        PROVE  r \in Row /\ r.refresh = 1
    <3>1. {1} \subseteq Nat /\ {FALSE} \subseteq BOOLEAN
      OBVIOUS
    <3>2. r \in Row
      BY <3>1, Zenon DEF Row
    <3> QED
      BY <3>2
  <2> QED
    BY <2>1, <2>2
<1>2. \A a \in Keys : rows[a] # Absent
  BY <1>1, CredentialsAssumption DEF Row
<1>3. TypeInv
  BY <1>1 DEF Init, MutexInit, TypeInv, MutexTypeOK, Places, Results, NoAnswer
<1>4. CallInv /\ GateInv /\ AccountInv /\ RefreshInv /\ BarInv /\ DeadInv
  BY  DEF Init, CallInv, PhaseAt, Working, GateInv, HasGate, AccountInv,
          HasAccount,
         RefreshInv, BarInv, DeadInv
<1>5. NumberInv
  BY <1>1 DEF Init, NumberInv, Numbered
<1>6. PermitInv
  <2>1. InCall = {}
    BY DEF Init, InCall
  <2> QED
    BY <2>1, FS_EmptySet, CredentialsAssumption DEF Init, PermitInv
<1> QED
  BY <1>3, <1>4, <1>5, <1>6 DEF CredentialsInv

\* CredentialsInv holds in every reachable state: the inductive invariant that
\* all the properties below rest on.
THEOREM CredentialsInvariant == Spec => []CredentialsInv
<1>1. ASSUME CredentialsInv, [Next]_vars PROVE CredentialsInv'
  BY <1>1, TypeStep, CallStep, GateStep, AccountStep, RefreshStep, NumberStep,
     DeadStep, BarStep, PermitCount DEF CredentialsInv
<1> QED
  BY <1>1, InitCredentials, PTL DEF Spec

\* Every variable keeps its type; the permits in use stay within their number.
THEOREM CredentialsTypes == Spec => []TypeOK
<1>1. CredentialsInv => TypeOK
  BY DEF CredentialsInv, TypeInv, PermitInv, TypeOK
<1> QED
  BY <1>1, CredentialsInvariant, PTL

\* However many calls are cancelled, fail or succeed, the permits of
\* networkSlots in use are exactly the network calls under way.
THEOREM NoPermitIsLost == Spec => []PermitsAreReturned
<1>1. CredentialsInv => PermitsAreReturned
  BY DEF CredentialsInv, PermitInv, PermitsAreReturned, InCall
<1> QED
  BY <1>1, CredentialsInvariant, PTL

\* ensureFreshContext under the gate: the refreshes of one account are merged.
THEOREM OneRefreshAtATime == Spec => []RefreshesAreMerged
<1>1. ASSUME CredentialsInv PROVE RefreshesAreMerged
  <2>1. ASSUME NEW c \in Callers, Calling(c),
               NEW d \in Callers, Calling(d), target[d] = target[c]
        PROVE  d = c
    BY <1>1, <2>1 DEF CredentialsInv, GateInv, HasGate, Calling
  <2>2. ASSUME NEW c \in Callers, Calling(c)
        PROVE  /\ failures[target[c]] \notin Errors
               /\ rows[target[c]] # Absent =>
                     /\ ~rows[target[c]].fresh
                     /\ rows[target[c]].refresh = acc[c].refresh
    BY <1>1, <2>2 DEF CredentialsInv, RefreshInv, Calling
  <2> QED
    BY <2>1, <2>2 DEF RefreshesAreMerged
<1> QED
  BY <1>1, CredentialsInvariant, PTL

\* An account that the admin disabled or deleted while its credentials were
\* being fetched is not handed out.
THEOREM BarredCallsFail == Spec => []DisabledIsNotReturned
<1>1. CredentialsInv => DisabledIsNotReturned
  BY DEF CredentialsInv, BarInv, DisabledIsNotReturned
<1> QED
  BY <1>1, CredentialsInvariant, PTL

\* The actions that write a row.
LEMMA Writers ==
  ASSUME TypeInv, [Next]_vars
  PROVE  \/ UNCHANGED rows
         \/ \E c \in Callers : Invalidate(c) \/ Save(c) \/ AutoDisable(c)
         \/ \E a \in Keys, r \in Row \cup {Absent} : AdminStep(a, r)
         \/ \E a \in Keys : TokenAges(a)
<1>1. ASSUME NEW c \in Callers, NEW a \in Keys,
             BeginAcquire(c, a) \/ BeginRejected(c, a) \/ BeginRefresh(c, a)
      PROVE  UNCHANGED rows
  BY <1>1 DEF BeginAcquire, BeginRejected, BeginRefresh
<1>2. ASSUME NEW c \in Callers,
             \/ EnterGate(c) \/ Reread(c) \/ Permit(c) \/ RefreshSucceeds(c)
             \/ RefreshFails(c) \/ CloudCall(c) \/ SaveFails(c) \/ ReadBack(c)
             \/ ContextEnds(c) \/ Unlock(c) \/ Failed(c) \/ RefreshRejected(c)
             \/ NeedsProject(c) \/ Returns(c) \/ FetchMetadata(c) \/ Leave(c)
      PROVE  UNCHANGED rows
  BY <1>2 DEF EnterGate, Reread, Permit, RefreshSucceeds, RefreshFails,
              CloudCall,
              SaveFails, ReadBack, ContextEnds, Unlock, Failed, RefreshRejected,
              NeedsProject, Returns, FetchMetadata, Leave
<1>3. ASSUME NEW a \in Keys, FailureAges(a) \/ Revoke(a) \/ LoadCopies
      PROVE  UNCHANGED rows
  BY <1>3 DEF FailureAges, Revoke, LoadCopies
<1>4. ASSUME LoadCopies \/ UNCHANGED vars PROVE UNCHANGED rows
  BY <1>4 DEF LoadCopies, vars
<1> QED
  BY <1>1, <1>2, <1>3, <1>4, NextCases

\* What a caller writes into the row of its account.
LEMMA CallerWrites ==
  ASSUME CredentialsInv, NEW c \in Callers,
         Invalidate(c) \/ Save(c) \/ AutoDisable(c)
  PROVE  /\ target[c] \in Keys
         /\ \A a \in Keys \ {target[c]} : rows'[a] = rows[a]
         /\ rows[target[c]] = Absent => rows'[target[c]] = Absent
         /\ rows[target[c]] # Absent =>
               /\ rows'[target[c]].access >= rows[target[c]].access
               /\ rows'[target[c]].refresh >= rows[target[c]].refresh
               /\ rows'[target[c]] \in Row
               /\ rows[target[c]].disabled => rows'[target[c]].disabled
               /\ rows'[target[c]].disabled /\ ~rows[target[c]].disabled =>
                     AutoDisable(c)
<1> DEFINE a == target[c]
<1>0. /\ a \in Keys
      /\ rows \in [Keys -> Row \cup {Absent}] /\ rows[a] \in Row \cup {Absent}
      /\ TypeInv'
  <2>1. a \in Keys
    BY DEF Invalidate, Save, AutoDisable, CredentialsInv, CallInv
  <2>2. [Next]_vars
    BY DEF Next, Proceed
  <2>3. TypeInv'
    BY <2>2, TypeStep DEF CredentialsInv
  <2> QED
    BY <2>1, <2>3 DEF CredentialsInv, TypeInv
<1>1. \A b \in Keys \ {a} : rows'[b] = rows[b]
  BY <1>0 DEF Invalidate, Save, AutoDisable
<1>2. CASE rows[a] = Absent
  BY <1>0, <1>1, <1>2 DEF Invalidate, Save, AutoDisable
<1>3. CASE rows[a] # Absent /\ Invalidate(c)
  <2>1. rows[a] \in Row /\ rows' = [rows EXCEPT ![a].fresh = FALSE]
    BY <1>0, <1>3 DEF Invalidate
  <2>2. rows'[a] = [rows[a] EXCEPT !.fresh = FALSE]
    BY <1>0, <2>1
  <2>3. /\ rows'[a] \in Row /\ rows'[a].disabled = rows[a].disabled
        /\ rows'[a].access = rows[a].access /\ rows[a].access \in Nat
        /\ rows'[a].refresh = rows[a].refresh /\ rows[a].refresh \in Nat
    BY <2>1, <2>2, StaleRow
  <2> QED
    BY <1>0, <1>1, <1>3, <2>3
<1>4. CASE rows[a] # Absent /\ AutoDisable(c)
  <2>1. rows[a] \in Row
    BY <1>0, <1>4
  <2>2. CASE UNCHANGED rows
    BY <1>0, <1>1, <1>4, <2>1, <2>2 DEF Row
  <2>3. CASE rows' = [rows EXCEPT ![a].disabled = TRUE]
    <3>1. rows'[a] = [rows[a] EXCEPT !.disabled = TRUE]
      BY <1>0, <2>3
    <3>2. /\ rows'[a] \in Row /\ rows'[a].disabled
          /\ rows'[a].access = rows[a].access /\ rows[a].access \in Nat
          /\ rows'[a].refresh = rows[a].refresh /\ rows[a].refresh \in Nat
      BY <2>1, <3>1 DEF Row
    <3> QED
      BY <1>0, <1>1, <1>4, <3>2
  <2> QED
    BY <1>4, <2>2, <2>3 DEF AutoDisable
<1>5. CASE rows[a] # Absent /\ Save(c)
  <2>1. /\ rows[a] \in Row /\ rows' = [rows EXCEPT ![a] = Stored(c)]
        /\ rows'[a] = Stored(c)
    BY <1>0, <1>5 DEF Save
  <2>2. Stored(c) \in Row \cup {Absent}
    BY <1>0, <2>1 DEF TypeInv
  <2>3. CASE phase[c] = "token"
    <3>1. /\ answer[c].refresh >= rows[a].refresh
          /\ answer[c].access >= rows[a].access
      BY <1>5, <2>3 DEF CredentialsInv, RefreshInv, Save
    <3>2. answer[c].refresh \in Nat /\ answer[c].access \in Nat
      BY DEF CredentialsInv, TypeInv
    <3>3. Stored(c) = [rows[a] EXCEPT !.access = answer[c].access, !.fresh = TRUE,
                                      !.refresh = answer[c].refresh]
      BY <2>3 DEF Stored
    <3>4. Stored(c) \in Row /\ Stored(c).disabled = rows[a].disabled
      BY <2>1, <3>2, <3>3 DEF Row
    <3>5. Stored(c).access = answer[c].access /\ Stored(c).refresh = answer[c].refresh
      BY <2>1, <3>3 DEF Row
    <3> QED
      BY <1>0, <1>1, <1>5, <2>1, <3>1, <3>4, <3>5
  <2>4. CASE phase[c] # "token"
    <3>1. Stored(c) = [rows[a] EXCEPT !.project = @ \/ acc[c].project]
      BY <2>4 DEF Stored
    <3>2. /\ Stored(c).access = rows[a].access /\ Stored(c).refresh = rows[a].refresh
          /\ Stored(c).disabled = rows[a].disabled
      BY <2>1, <3>1 DEF Row
    <3>3. Stored(c) \in Row
      <4>1. acc[c] \in Row
        BY <1>5, <2>4 DEF CredentialsInv, TypeInv, AccountInv, HasAccount, Save
      <4> QED
        BY <2>1, <3>1, <4>1, Zenon DEF Row
    <3>4. rows[a].access \in Nat /\ rows[a].refresh \in Nat
      BY <2>1 DEF Row
    <3> QED
      BY <1>0, <1>1, <1>5, <2>1, <3>2, <3>3, <3>4
  <2> QED
    BY <2>3, <2>4
<1> QED
  BY <1>0, <1>1, <1>2, <1>3, <1>4, <1>5

\* What the admin and the clock write into a row.
LEMMA OtherWrites ==
  ASSUME TypeInv, NEW a \in Keys,
         (\E r \in Row \cup {Absent} : AdminStep(a, r)) \/ TokenAges(a)
  PROVE  /\ UNCHANGED pc
         /\ \A b \in Keys : rows[b] # Absent /\ rows'[b] # Absent =>
               /\ rows'[b].access = rows[b].access /\ rows[b].access \in Nat
               /\ rows'[b].refresh = rows[b].refresh /\ rows[b].refresh \in Nat
<1>1. ASSUME NEW r \in Row \cup {Absent}, AdminStep(a, r)
      PROVE  UNCHANGED pc /\ rows' = [rows EXCEPT ![a] = r]
  BY <1>1 DEF AdminStep, AdminWrite, local
<1>2. CASE TokenAges(a)
  <2>1. /\ rows[a] \in Row /\ rows' = [rows EXCEPT ![a].fresh = FALSE] /\ UNCHANGED pc
    BY <1>2 DEF TokenAges, local, TypeInv
  <2> QED
    BY <2>1 DEF TypeInv, Row
<1>3. ASSUME NEW r \in Row \cup {Absent}, AdminStep(a, r)
      PROVE  \A b \in Keys : rows[b] # Absent /\ rows'[b] # Absent =>
               /\ rows'[b].access = rows[b].access /\ rows[b].access \in Nat
               /\ rows'[b].refresh = rows[b].refresh /\ rows[b].refresh \in Nat
  BY <1>1, <1>3 DEF AdminStep, TypeInv, Row
<1> QED
  BY <1>1, <1>2, <1>3

\* An answer never overwrites a newer one: whoever stores tokens has had the
\* gate since it looked at the row.
THEOREM TokensOnlyGetNewer == Spec => CredentialsNeverGoBack
<1> DEFINE P == \A a \in Keys : rows[a] # Absent /\ rows'[a] # Absent =>
                   /\ rows'[a].access >= rows[a].access
                   /\ rows'[a].refresh >= rows[a].refresh
<1>1. ASSUME CredentialsInv, [Next]_vars PROVE P
  <2>1. \A a \in Keys : rows[a] # Absent => rows[a].access \in Nat /\ rows[a].refresh \in Nat
    BY <1>1 DEF CredentialsInv, TypeInv, Row
  <2>2. CASE UNCHANGED rows
    BY <2>1, <2>2
  <2>3. CASE \E c \in Callers : Invalidate(c) \/ Save(c) \/ AutoDisable(c)
    BY <1>1, <2>1, <2>3, CallerWrites
  <2>4. CASE \E a \in Keys : (\E r \in Row \cup {Absent} : AdminStep(a, r)) \/ TokenAges(a)
    <3>1. PICK a \in Keys : (\E r \in Row \cup {Absent} : AdminStep(a, r)) \/ TokenAges(a)
      BY <2>4
    <3> QED
      BY <1>1, <3>1, OtherWrites DEF CredentialsInv
  <2> QED
    BY <1>1, <2>2, <2>3, <2>4, Writers DEF CredentialsInv
<1> QED
  BY <1>1, CredentialsInvariant, PTL DEF Spec, CredentialsNeverGoBack

\* Nothing the program stores re-enables an account that the admin disabled or
\* deleted.
THEOREM OnlyTheAdminEnables == Spec => AdminStateSurvives
<1> DEFINE P == \A a \in Keys : ~Gone(rows'[a]) /\ Gone(rows[a]) => pc' = pc
<1>1. ASSUME CredentialsInv, [Next]_vars PROVE P
  <2>1. CASE UNCHANGED rows
    BY <2>1
  <2>2. ASSUME NEW c \in Callers, Invalidate(c) \/ Save(c) \/ AutoDisable(c)
        PROVE  \A a \in Keys : Gone(rows[a]) => Gone(rows'[a])
    BY <1>1, <2>2, CallerWrites DEF Gone
  <2>3. CASE \E a \in Keys : (\E r \in Row \cup {Absent} : AdminStep(a, r)) \/ TokenAges(a)
    BY <1>1, <2>3, OtherWrites DEF CredentialsInv
  <2> QED
    BY <1>1, <2>1, <2>2, <2>3, Writers DEF CredentialsInv
<1> QED
  BY <1>1, CredentialsInvariant, PTL DEF Spec, AdminStateSurvives

\* An account the program disables is one whose stored refresh token the
\* server refuses, although the refusal was heard some steps before.
THEOREM OnlyTheRefusedAreDisabled == Spec => AutoDisableIsJustified
<1> DEFINE P == \A a \in Keys : ~Gone(rows[a]) /\ Gone(rows'[a]) /\ pc' # pc
                    => valid[a] # rows[a].refresh
<1>1. ASSUME CredentialsInv, [Next]_vars PROVE P
  <2>1. CASE UNCHANGED rows
    BY <2>1
  <2>2. ASSUME NEW c \in Callers, Invalidate(c) \/ Save(c) \/ AutoDisable(c)
        PROVE  P
    <3>1. SUFFICES ASSUME NEW a \in Keys, ~Gone(rows[a]), Gone(rows'[a])
                   PROVE  valid[a] # rows[a].refresh
      OBVIOUS
    <3>2. rows[a] # Absent /\ ~rows[a].disabled
      BY <3>1 DEF Gone
    <3>3. a = target[c] /\ AutoDisable(c)
      <4>1. a = target[c]
        BY <1>1, <2>2, <3>1, CallerWrites
      <4>2. rows'[a] \in Row
        BY <1>1, <2>2, <3>2, <4>1, CallerWrites
      <4>3. rows'[a].disabled
        BY <3>1, <4>2, CredentialsAssumption DEF Gone, Row
      <4> QED
        BY <1>1, <2>2, <3>2, <4>1, <4>3, CallerWrites
    <3>4. result[c] = "invalid_grant"
      BY <1>1, <3>3 DEF AutoDisable, CredentialsInv, CallInv
    <3> QED
      BY <1>1, <3>2, <3>3, <3>4 DEF CredentialsInv, DeadInv, Dead
  <2>3. CASE \E a \in Keys : (\E r \in Row \cup {Absent} : AdminStep(a, r)) \/ TokenAges(a)
    BY <1>1, <2>3, OtherWrites DEF CredentialsInv
  <2> QED
    BY <1>1, <2>1, <2>2, <2>3, Writers DEF CredentialsInv
<1> QED
  BY <1>1, CredentialsInvariant, PTL DEF Spec, AutoDisableIsJustified

=============================================================================
