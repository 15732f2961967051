---------------------------- MODULE Credentials ----------------------------
(***************************************************************************)
(* How access tokens and project ids are obtained: ensureFreshContext,     *)
(* ensureProject, InvalidateTokenContext, RefreshTokenContext and          *)
(* RefreshAccountContext of lifecycle.go, with what Acquire and the proxy  *)
(* do about their errors.  Calls for one account exclude each other by its *)
(* gate (KeyedMutex, implemented by AccountGate); all network calls share  *)
(* the permits of networkSlots.                                            *)
(*                                                                         *)
(* One action is one SQL statement, one section of gateMu, one channel     *)
(* operation or the outcome of one network call.  A call whose context     *)
(* ends fails at its next wait, network call or SQL statement.             *)
(***************************************************************************)
EXTENDS KeyedMutex, Naturals, FiniteSets

CONSTANTS Absent,        \* "no such row"
          NetworkSlots,  \* the capacity of networkSlots
          Rotates,       \* whether the OAuth server may rotate refresh tokens
          Calls,         \* the calls made: "acquire", "rejected", "refresh"
          AdminWrites,   \* what the admin does: "disable", "enable", "delete"
          Imported,      \* the rows of accounts as they were imported
          MaxTokens      \* bound: access tokens issued per account

ASSUME CredentialsAssumption ==
    /\ Nobody \notin Keys
    /\ IsFiniteSet(Callers)
    /\ NetworkSlots \in Nat \ {0}
    /\ Rotates \in BOOLEAN
    /\ Calls \subseteq {"acquire", "rejected", "refresh"}
    /\ AdminWrites \subseteq {"disable", "enable", "delete"}
    /\ Imported \subseteq [access : {1}, fresh : BOOLEAN, refresh : {1},
                           disabled : {FALSE}, project : BOOLEAN]
    /\ MaxTokens \in Nat
    /\ Absent \notin [access : Nat, fresh : BOOLEAN, refresh : Nat,
                      disabled : BOOLEAN, project : BOOLEAN]

VARIABLES
    rows,      \* the accounts table
    copies,    \* Pool.accounts, from which Acquire selects
    failures,  \* Pool.refreshFailures: "none", "old", or a live error
    slots,     \* permits of networkSlots in use
    valid,     \* (server) per account: the refresh token it accepts, 0 if none
    received,  \* (aux) per account: newest refresh token the program was sent
    pc,        \* per caller: where it is
    kind,      \* per caller: "acquire", "rejected" (401) or "refresh"
    phase,     \* per caller: which function or network call it is in
    target,    \* per caller: its account
    acc,       \* per caller: its copy of the account
    answer,    \* per caller: the response to be stored
    result,    \* per caller: nil or the error of the function it is in
    rejected,  \* per caller: the access token the upstream refused
    barred     \* (aux) per caller: its account is disabled or deleted

call == <<kind, target, rejected, barred>>
server == <<valid, received>>
local == <<pc, kind, phase, target, acc, answer, result, rejected>>
vars == <<owner, rows, copies, failures, slots, valid, received, local, barred>>

Row == [access : Nat, fresh : BOOLEAN, refresh : Nat,
        disabled : BOOLEAN, project : BOOLEAN]
Places == {"idle", "gate", "reread", "invalidate", "permit", "call", "save",
           "readback", "unlock", "next", "autodisable", "done"}
Errors == {"invalid_grant", "error"}
Results == {"ok", "ended"} \cup Errors

TypeOK ==
    /\ MutexTypeOK
    /\ rows \in [Keys -> Row \cup {Absent}]
    /\ copies \in [Keys -> Row \cup {Absent}]
    /\ failures \in [Keys -> {"none", "old"} \cup Errors]
    /\ slots \in 0 .. NetworkSlots
    /\ valid \in [Keys -> Nat]
    /\ received \in [Keys -> Nat]
    /\ pc \in [Callers -> Places]
    /\ kind \in [Callers -> {"none", "acquire", "rejected", "refresh"}]
    /\ phase \in [Callers -> {"none", "invalidate", "token", "project", "assist", "quota"}]
    /\ target \in [Callers -> Keys \cup {Nobody}]
    /\ acc \in [Callers -> Row \cup {Absent}]
    /\ answer \in [Callers -> [access : Nat, refresh : Nat]]
    /\ result \in [Callers -> Results]
    /\ rejected \in [Callers -> Nat]
    /\ barred \in [Callers -> BOOLEAN]

NoAnswer == [access |-> 0, refresh |-> 0]

\* An imported account has a refresh token and an access token.
Init ==
    /\ MutexInit
    /\ rows \in [Keys -> Imported]
    /\ copies = rows
    /\ failures = [a \in Keys |-> "none"]
    /\ slots = 0
    /\ valid = [a \in Keys |-> 1]
    /\ received = [a \in Keys |-> 1]
    /\ pc = [c \in Callers |-> "idle"]
    /\ kind = [c \in Callers |-> "none"]
    /\ phase = [c \in Callers |-> "none"]
    /\ target = [c \in Callers |-> Nobody]
    /\ acc = [c \in Callers |-> Absent]
    /\ answer = [c \in Callers |-> NoAnswer]
    /\ result = [c \in Callers |-> "ok"]
    /\ rejected = [c \in Callers |-> 0]
    /\ barred = [c \in Callers |-> FALSE]

-----------------------------------------------------------------------------
(* The three ways in. *)

Goto(c, place) == pc' = [pc EXCEPT ![c] = place]
Fails(c, error) == result' = [result EXCEPT ![c] = error]

Gone(r) == IF r = Absent THEN TRUE ELSE r.disabled

\* ensureFreshContext returns at once when the copy has a fresh token.  If not,
\* the copy is not used before it is read again.
EnsureFresh(c, r) ==
    /\ acc' = [acc EXCEPT ![c] = IF r.fresh THEN r ELSE Absent]
    /\ phase' = [phase EXCEPT ![c] = "token"]
    /\ Fails(c, "ok")
    /\ Goto(c, IF r.fresh THEN "next" ELSE "gate")

\* Acquire has selected account a from the scheduler's copy.
BeginAcquire(c, a) ==
    /\ pc[c] = "idle"
    /\ ~Gone(copies[a])
    /\ "acquire" \in Calls
    /\ kind' = [kind EXCEPT ![c] = "acquire"]
    /\ target' = [target EXCEPT ![c] = a]
    /\ EnsureFresh(c, copies[a])
    /\ UNCHANGED <<owner, rows, copies, failures, slots, server, answer, rejected,
                   barred>>

\* The upstream answered 401 to a request that used the access token of the
\* copy: the proxy calls InvalidateTokenContext.
BeginRejected(c, a) ==
    /\ pc[c] = "idle"
    /\ ~Gone(copies[a])
    /\ "rejected" \in Calls
    /\ kind' = [kind EXCEPT ![c] = "rejected"]
    /\ target' = [target EXCEPT ![c] = a]
    /\ phase' = [phase EXCEPT ![c] = "invalidate"]
    /\ rejected' = [rejected EXCEPT ![c] = copies[a].access]
    /\ Goto(c, "gate")
    /\ UNCHANGED <<owner, rows, copies, failures, slots, server, acc, answer,
                   result, barred>>

\* RefreshAccountContext: by the admin, after an import, or the health loop.
BeginRefresh(c, a) ==
    /\ pc[c] = "idle"
    /\ rows[a] # Absent
    /\ "refresh" \in Calls
    /\ kind' = [kind EXCEPT ![c] = "refresh"]
    /\ target' = [target EXCEPT ![c] = a]
    /\ EnsureFresh(c, rows[a])
    /\ UNCHANGED <<owner, rows, copies, failures, slots, server, answer, rejected,
                   barred>>

-----------------------------------------------------------------------------
(* Under the gate. *)

Inside == {"invalidate", "reread"}

EnterGate(c) ==
    /\ pc[c] = "gate"
    /\ TakeGate(c, target[c])
    /\ Goto(c, IF phase[c] = "invalidate" THEN "invalidate" ELSE "reread")
    /\ UNCHANGED <<rows, copies, failures, slots, server, call, phase, acc, answer,
                   result>>

\* InvalidateTokenContext: the cached failure is dropped and the expiry set
\* to zero; an account that is gone is an error.
Invalidate(c) ==
    LET a == target[c]
    IN  /\ pc[c] = "invalidate"
        /\ failures' = [failures EXCEPT ![a] = "none"]
        /\ IF rows[a] = Absent
           THEN Fails(c, "error") /\ UNCHANGED rows
           ELSE UNCHANGED result /\ rows' = [rows EXCEPT ![a].fresh = FALSE]
        /\ Goto(c, "unlock")
        /\ UNCHANGED <<owner, copies, slots, server, call, phase, acc, answer>>

\* (mutant) The stored token is not looked at again inside the gate.
Done_Unchecked(c, r) == FALSE

Done(c, r) == IF phase[c] = "token" THEN r.fresh ELSE r.project

\* ensureFreshContext and ensureProject read the account again: it may be
\* gone or disabled, another caller may have done the work, or have failed.
Reread(c) ==
    LET a == target[c]
        done == Done(c, rows[a])
        known == phase[c] = "token" /\ failures[a] \in Errors
    IN  /\ pc[c] = "reread"
        /\ acc' = [acc EXCEPT ![c] = rows[a]]
        /\ \/ /\ Gone(rows[a])
              /\ Fails(c, "error")
              /\ Goto(c, "unlock")
           \/ /\ ~Gone(rows[a]) /\ done
              /\ Goto(c, "unlock")
              /\ UNCHANGED result
           \/ /\ ~Gone(rows[a]) /\ ~done /\ known
              /\ Fails(c, failures[a])
              /\ Goto(c, "unlock")
           \/ /\ ~Gone(rows[a]) /\ ~done /\ ~known
              /\ Goto(c, "permit")
              /\ UNCHANGED result
        /\ UNCHANGED <<owner, rows, copies, failures, slots, server, call, phase,
                       answer>>

\* networkPermit.
Permit(c) ==
    /\ pc[c] = "permit"
    /\ slots < NetworkSlots
    /\ slots' = slots + 1
    /\ Goto(c, "call")
    /\ UNCHANGED <<owner, rows, copies, failures, server, call, phase, acc, answer,
                   result>>

\* The OAuth server accepts the refresh token and may rotate it.
RefreshSucceeds(c) ==
    LET a == target[c]
    IN  /\ pc[c] = "call" /\ phase[c] = "token"
        /\ acc[c].refresh = valid[a]
        /\ acc[c].access < MaxTokens
        /\ slots' = slots - 1
        /\ \E new \in {valid[a]} \cup (IF Rotates THEN {valid[a] + 1} ELSE {}) :
              /\ valid' = [valid EXCEPT ![a] = new]
              /\ received' = [received EXCEPT ![a] = new]
              /\ answer' = [answer EXCEPT ![c] =
                              [access |-> acc[c].access + 1, refresh |-> new]]
        /\ failures' = [failures EXCEPT ![a] = "none"]
        /\ Goto(c, "save")
        /\ UNCHANGED <<owner, rows, copies, call, phase, acc, result>>

\* (mutant) Every failure is taken for a revoked token.
Refusals_Always(c) == {"invalid_grant"}

Refusals(c) == {"error"} \cup
               (IF acc[c].refresh # valid[target[c]] THEN {"invalid_grant"} ELSE {})

\* It refuses (invalid_grant), or cannot be reached; the error is shared with
\* those who wait.
RefreshFails(c) ==
    LET a == target[c]
    IN  /\ pc[c] = "call" /\ phase[c] = "token"
        /\ slots' = slots - 1
        /\ \E error \in Refusals(c) :
              /\ Fails(c, error)
              /\ failures' = [failures EXCEPT ![a] = error]
        /\ Goto(c, "unlock")
        /\ UNCHANGED <<owner, rows, copies, server, call, phase, acc, answer>>

\* loadCodeAssist or the quota call returns.  Only ensureProject needs a
\* project; RefreshAccountContext goes on with what it has.
CloudCall(c) ==
    /\ pc[c] = "call" /\ phase[c] \in {"project", "assist", "quota"}
    /\ slots' = slots - 1
    /\ \E found \in BOOLEAN :
          /\ acc' = [acc EXCEPT ![c].project = @ \/ (found /\ phase[c] # "quota")]
          /\ IF phase[c] = "project" /\ ~found
             THEN Fails(c, "error") ELSE UNCHANGED result
          /\ Goto(c, CASE phase[c] = "assist" -> "permit"
                       [] phase[c] = "quota" -> "save"
                       [] phase[c] = "project" -> IF found THEN "save" ELSE "unlock")
    /\ phase' = [phase EXCEPT ![c] = IF @ = "assist" THEN "quota" ELSE @]
    /\ UNCHANGED <<owner, rows, copies, failures, server, call, answer>>

\* (mutant) The whole local copy is written.
Stored_WholeRow(c) ==
    IF phase[c] = "token"
    THEN [acc[c] EXCEPT !.access = answer[c].access, !.fresh = TRUE,
                        !.refresh = answer[c].refresh]
    ELSE acc[c]

\* UpdateTokenContext writes credentials only, UpdateAccountMetadataContext
\* the project unless it is empty.
Stored(c) ==
    LET r == rows[target[c]]
    IN  IF phase[c] = "token"
        THEN [r EXCEPT !.access = answer[c].access, !.fresh = TRUE,
                       !.refresh = answer[c].refresh]
        ELSE [r EXCEPT !.project = @ \/ acc[c].project]

\* (mutant) The account is not read back.
AfterSave_NoReadBack(c) == IF phase[c] = "quota" THEN "done" ELSE "unlock"

AfterSave(c) == IF phase[c] = "quota" THEN "done" ELSE "readback"

Save(c) ==
    LET a == target[c]
    IN  /\ pc[c] = "save"
        /\ rows[a] # Absent
        /\ rows' = [rows EXCEPT ![a] = Stored(c)]
        /\ answer' = [answer EXCEPT ![c] = NoAnswer]
        /\ Goto(c, AfterSave(c))
        /\ UNCHANGED <<owner, copies, failures, slots, server, call, phase, acc,
                       result>>

\* The account was deleted: the update finds no row.
SaveFails(c) ==
    /\ pc[c] = "save"
    /\ rows[target[c]] = Absent
    /\ Fails(c, "error")
    /\ answer' = [answer EXCEPT ![c] = NoAnswer]
    /\ Goto(c, IF phase[c] = "quota" THEN "done" ELSE "unlock")
    /\ UNCHANGED <<owner, rows, copies, failures, slots, server, call, phase, acc>>

ReadBack(c) ==
    LET a == target[c]
    IN  /\ pc[c] = "readback"
        /\ IF rows[a] = Absent
           THEN Fails(c, "error") /\ UNCHANGED acc
           ELSE acc' = [acc EXCEPT ![c] = rows[a]] /\ UNCHANGED result
        /\ Goto(c, "unlock")
        /\ UNCHANGED <<owner, rows, copies, failures, slots, server, call, phase,
                       answer>>

\* (mutant) A call that ends keeps its permit.
PermitOf_Kept(c) == 0

PermitOf(c) == IF pc[c] = "call" THEN 1 ELSE 0

\* The caller's context ends: while it waits for the gate or a permit, during
\* a network call, or so that the next SQL statement fails.
ContextEnds(c) ==
    /\ pc[c] \in {"gate", "reread", "invalidate", "permit", "call", "save", "readback"}
    /\ slots' = slots - PermitOf(c)
    /\ Fails(c, "ended")
    /\ answer' = [answer EXCEPT ![c] = NoAnswer]
    /\ Goto(c, IF pc[c] = "gate" \/ phase[c] \in {"assist", "quota"}
               THEN "done" ELSE "unlock")
    /\ UNCHANGED <<owner, rows, copies, failures, server, call, phase, acc>>

\* The deferred unlock, as the function returns.
Unlock(c) ==
    /\ pc[c] = "unlock"
    /\ GiveGate(c, target[c])
    /\ Goto(c, IF result[c] = "ended" THEN "done" ELSE "next")
    /\ UNCHANGED <<rows, copies, failures, slots, server, call, phase, acc, answer,
                   result>>

-----------------------------------------------------------------------------
(* What the callers do next. *)

\* invalid_grant disables the account, in Acquire and RefreshAccountContext.
Failed(c) ==
    /\ pc[c] = "next"
    /\ result[c] # "ok"
    /\ Goto(c, IF result[c] = "invalid_grant" /\ kind[c] # "rejected"
               THEN "autodisable" ELSE "done")
    /\ UNCHANGED <<owner, rows, copies, failures, slots, server, call, phase, acc,
                   answer, result>>

\* SetDisabledContext; its error is ignored, that the account is gone or that
\* the context ended.
AutoDisable(c) ==
    LET a == target[c]
    IN  /\ pc[c] = "autodisable"
        /\ \/ UNCHANGED rows
           \/ rows[a] # Absent /\ rows' = [rows EXCEPT ![a].disabled = TRUE]
        /\ Goto(c, "done")
        /\ UNCHANGED <<owner, copies, failures, slots, server, call, phase, acc,
                       answer, result>>

\* The proxy goes on from InvalidateTokenContext to RefreshTokenContext, which
\* reads the account first.
RefreshRejected(c) ==
    LET a == target[c]
    IN  /\ pc[c] = "next" /\ result[c] = "ok" /\ phase[c] = "invalidate"
        /\ IF rows[a] = Absent
           THEN Fails(c, "error") /\ Goto(c, "done") /\ UNCHANGED <<acc, phase>>
           ELSE EnsureFresh(c, rows[a])
        /\ barred' = [barred EXCEPT ![c] = Gone(rows[a])]
        /\ UNCHANGED <<owner, rows, copies, failures, slots, server, kind, target,
                       answer, rejected>>

\* Acquire still needs a project: ensureProject.
NeedsProject(c) ==
    /\ pc[c] = "next" /\ result[c] = "ok" /\ phase[c] = "token"
    /\ kind[c] = "acquire" /\ ~acc[c].project
    /\ phase' = [phase EXCEPT ![c] = "project"]
    /\ Goto(c, "gate")
    /\ UNCHANGED <<owner, rows, copies, failures, slots, server, call, acc, answer,
                   result>>

Verdict(c) == IF acc[c].disabled THEN "error" ELSE "ok"

\* RefreshTokenContext and Acquire return the account unless it is disabled.
Returns(c) ==
    /\ pc[c] = "next" /\ result[c] = "ok"
    /\ \/ kind[c] = "rejected" /\ phase[c] = "token"
       \/ kind[c] = "acquire" /\ (phase[c] = "project" \/ acc[c].project)
    /\ Fails(c, Verdict(c))
    /\ Goto(c, "done")
    /\ UNCHANGED <<owner, rows, copies, failures, slots, server, call, phase, acc,
                   answer>>

\* RefreshAccountContext goes on to the project and the quota, without gate.
FetchMetadata(c) ==
    /\ pc[c] = "next" /\ result[c] = "ok" /\ phase[c] = "token"
    /\ kind[c] = "refresh"
    /\ phase' = [phase EXCEPT ![c] = "assist"]
    /\ Goto(c, "permit")
    /\ UNCHANGED <<owner, rows, copies, failures, slots, server, call, acc, answer,
                   result>>

Leave(c) ==
    /\ pc[c] = "done"
    /\ Goto(c, "idle")
    /\ kind' = [kind EXCEPT ![c] = "none"]
    /\ phase' = [phase EXCEPT ![c] = "none"]
    /\ target' = [target EXCEPT ![c] = Nobody]
    /\ acc' = [acc EXCEPT ![c] = Absent]
    /\ result' = [result EXCEPT ![c] = "ok"]
    /\ rejected' = [rejected EXCEPT ![c] = 0]
    /\ barred' = [barred EXCEPT ![c] = FALSE]
    /\ UNCHANGED <<owner, rows, copies, failures, slots, server, answer>>

-----------------------------------------------------------------------------
(* The rest of the world. *)

\* Callers of a that have yet to read the account for the last time.
Reading(a) == {c \in Callers : /\ target[c] = a
                               /\ kind[c] \in {"acquire", "rejected"}
                               /\ phase[c] \in {"token", "project"}
                               /\ pc[c] \in {"gate", "reread", "permit", "call",
                                             "save", "readback"}}

\* The admin disables, enables or deletes an account.
AdminWrite(a, r) ==
    /\ rows[a] # Absent
    /\ rows' = [rows EXCEPT ![a] = r]
    /\ barred' = [c \in Callers |-> IF target[c] # a THEN barred[c]
                                    ELSE IF Gone(r) THEN barred[c] \/ c \in Reading(a)
                                    ELSE FALSE]
    /\ UNCHANGED <<owner, copies, failures, slots, server, local>>

AdminDisable(a) ==
    /\ "disable" \in AdminWrites
    /\ rows[a] # Absent
    /\ AdminWrite(a, [rows[a] EXCEPT !.disabled = TRUE])

AdminEnable(a) ==
    /\ "enable" \in AdminWrites
    /\ rows[a] # Absent
    /\ AdminWrite(a, [rows[a] EXCEPT !.disabled = FALSE])

AdminDelete(a) == "delete" \in AdminWrites /\ AdminWrite(a, Absent)

\* Time passes: the token nears its expiry.
TokenAges(a) ==
    /\ rows[a] # Absent /\ rows[a].fresh
    /\ rows' = [rows EXCEPT ![a].fresh = FALSE]
    /\ UNCHANGED <<owner, copies, failures, slots, server, local, barred>>

\* Time passes: a cached failure is five seconds old.
FailureAges(a) ==
    /\ failures[a] \in Errors
    /\ failures' = [failures EXCEPT ![a] = "old"]
    /\ UNCHANGED <<owner, rows, copies, slots, server, local, barred>>

\* loadSnapshot (AccountSnapshot).
LoadCopies ==
    /\ copies' = rows
    /\ UNCHANGED <<owner, rows, failures, slots, server, local, barred>>

\* The refresh token is revoked for good.
Revoke(a) ==
    /\ valid' = [valid EXCEPT ![a] = 0]
    /\ UNCHANGED <<owner, rows, copies, failures, slots, received, local, barred>>

Proceed(c) ==
    \/ Invalidate(c) \/ Reread(c)
    \/ RefreshFails(c) \/ CloudCall(c)
    \/ Save(c) \/ SaveFails(c) \/ ReadBack(c) \/ Unlock(c)
    \/ Failed(c) \/ AutoDisable(c) \/ RefreshRejected(c) \/ NeedsProject(c)
    \/ Returns(c) \/ FetchMetadata(c) \/ Leave(c)

Next ==
    \/ \E c \in Callers, a \in Keys :
          BeginAcquire(c, a) \/ BeginRejected(c, a) \/ BeginRefresh(c, a)
    \/ \E c \in Callers : \/ EnterGate(c) \/ Permit(c) \/ RefreshSucceeds(c)
                          \/ ContextEnds(c) \/ Proceed(c)
    \/ \E a \in Keys : \/ AdminDisable(a) \/ AdminEnable(a) \/ AdminDelete(a)
                       \/ TokenAges(a) \/ FailureAges(a) \/ Revoke(a)
    \/ LoadCopies

Spec == Init /\ [][Next]_vars

\* Network calls return (the clients have timeouts) and goroutines run; gates
\* and permits are channels, whose waiters are served in order.
Fairness ==
    \A c \in Callers : /\ WF_vars(Proceed(c))
                       /\ SF_vars(EnterGate(c))
                       /\ SF_vars(Permit(c))

FairSpec == Spec /\ Fairness

-----------------------------------------------------------------------------
(* Properties. *)

Calling(c) == pc[c] = "call" /\ phase[c] = "token"

\* Refreshes of one account are merged: while a refresh is under way no other
\* one is, the stored token is still unusable (nobody refreshed it meanwhile),
\* the refresh token that was sent is the stored one, and no failure of the
\* last seconds is known.
RefreshesAreMerged ==
    \A c \in Callers : Calling(c) =>
        /\ \A d \in Callers : Calling(d) /\ target[d] = target[c] => d = c
        /\ failures[target[c]] \notin Errors
        /\ rows[target[c]] # Absent =>
              /\ ~rows[target[c]].fresh
              /\ rows[target[c]].refresh = acc[c].refresh

\* Permits are neither lost nor exceeded, also when calls are cancelled.
PermitsAreReturned == slots = Cardinality({c \in Callers : pc[c] = "call"})

\* An answer never overwrites a newer one.
CredentialsNeverGoBack ==
    [][\A a \in Keys : rows[a] # Absent /\ rows'[a] # Absent =>
          /\ rows'[a].access >= rows[a].access
          /\ rows'[a].refresh >= rows[a].refresh]_vars

\* "Concurrent admin disable cannot be overwritten by a stale account copy":
\* only the admin enables an account.
AdminStateSurvives ==
    [][\A a \in Keys : ~Gone(rows'[a]) /\ Gone(rows[a]) => pc' = pc]_vars

\* Only an account whose stored refresh token the server refuses is disabled
\* by the program; an unreachable server disables nothing.
AutoDisableIsJustified ==
    [][\A a \in Keys : ~Gone(rows[a]) /\ Gone(rows'[a]) /\ pc' # pc
          => valid[a] # rows[a].refresh]_vars

\* An account that was disabled or deleted while its credentials were being
\* fetched, or before RefreshTokenContext began, is not returned.
DisabledIsNotReturned ==
    \A c \in Callers : pc[c] = "done" /\ result[c] = "ok" => ~barred[c]

\* Every call returns: gates and permits, one held while waiting for the
\* other, do not block anyone for ever.
CallReturns == \A c \in Callers : pc[c] # "idle" ~> pc[c] = "idle"

\* (violated) "rotated refresh token lost" must not happen: the refresh token
\* that the server sent last is in the store once nobody is inside the gate.
RotationIsStored ==
    \A a \in Keys : owner[a] = Nobody /\ rows[a] # Absent
                        => rows[a].refresh = received[a]

\* (violated) Refreshes after a 401 are merged: a request invalidates the access
\* token that the upstream refused, not the one another request just obtained.
OnlyRefusedIsInvalidated ==
    [][\A c \in Callers :
          pc[c] = "invalidate" /\ pc'[c] = "unlock" /\ rows' # rows
              => rows[target[c]].access = rejected[c]]_vars
=============================================================================
