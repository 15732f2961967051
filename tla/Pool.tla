-------------------------------- MODULE Pool --------------------------------
(***************************************************************************)
(* The account scheduler: Pool.Acquire with selectAccount, the per-account *)
(* reservations, the cooldowns (limits), sticky sessions and the wake-up   *)
(* of waiting requests, on top of the snapshot protocol of AccountSnapshot.*)
(* Callers are requests of the proxy: after Acquire they talk to the       *)
(* upstream, report the outcome as proxy.go does, and release.             *)
(*                                                                         *)
(* One action is one critical section of Pool.mu, one commit or one        *)
(* version bump of the store, or the outcome of one external call.  What   *)
(* ensureFresh and ensureProject do inside is the subject of Credentials;  *)
(* here they succeed or fail, and the rows they write are among the        *)
(* mutations of Admins.                                                    *)
(***************************************************************************)
EXTENDS AccountSnapshot, Integers

CONSTANTS Admins,          \* the other goroutines that mutate accounts
          Models,          \* requested and official model names
          Sessions,        \* session ids
          NoSession,       \* a request without a session
          WholeAccount,    \* the empty model of a limit key
          Mapped,          \* RewriteToAvailable, per account and model
          InitialRows,     \* rows an account can have when it is created
          Cap,             \* MAX_CONCURRENT_PER_ACCOUNT
          SkipExpired,     \* the skip_expired_accounts setting
          MaxSessions,     \* maxSessions
          MaxLimits,       \* maxLimits
          Cooldowns,       \* the cooldowns retryPolicy can ask for
          RefreshCooldown, \* the cooldown after a failed refresh
          SessionTTL,      \* sessionTTL
          MaxTime,         \* bound: the clock stops there
          MaxCalls         \* bound: calls of Acquire per caller

ASSUME PoolAssumption ==
    /\ Writers = Callers \cup Admins
    /\ Callers \cap Admins = {}
    /\ IsFiniteSet(Callers)
    /\ IsFiniteSet(Accounts)
    /\ InitialRows \subseteq Row \cup {Absent}
    /\ NoSession \notin Sessions
    /\ WholeAccount \notin Models
    /\ Mapped \in [Accounts -> [Models -> Models]]
    /\ Cap \in Nat \ {0}
    /\ SkipExpired \in BOOLEAN
    /\ MaxSessions \in Nat \ {0}
    /\ MaxLimits \in Nat \ {0}
    /\ Cooldowns \subseteq Nat \ {0}
    /\ RefreshCooldown \in Nat \ {0}
    /\ SessionTTL \in Nat \ {0}
    /\ MaxTime \in Nat
    /\ MaxCalls \in Nat

\* What a row has, and that any account can be disabled or set forbidden.
ASSUME RowAssumption ==
    /\ Row \subseteq [disabled : BOOLEAN, forbidden : BOOLEAN,
                      expires : Nat, limited : Nat, ready : [Models -> Nat]]
    /\ \A r \in Row : /\ [r EXCEPT !.disabled = TRUE] \in Row
                      /\ [r EXCEPT !.forbidden = TRUE] \in Row

VARIABLES
    now,        \* the clock
    pc,         \* per caller: its place in Acquire and in the proxy
    request,    \* per caller: the requested model and the session
    excluded,   \* per caller: accounts this call does not select (again)
    acc,        \* per caller: the account it works on
    held,       \* per caller: the account whose slot it holds
    started,    \* per caller: when it was granted (LastUsed), then when its
                \* upstream attempt started
    calls,      \* per caller: calls of Acquire so far
    active,     \* per account: reservation.active
    last,       \* per account: rank of reservation.last, 0 when never picked
    sessions,   \* sticky bindings: session -> account and expiry
    limits,     \* cooldowns: account and scope -> until and markedAt
    parked,     \* callers that wait on the current channel Pool.changed
    barred      \* (aux) per caller: accounts its recheck must reject

poolVars == <<now, pc, request, excluded, acc, held, started, calls, active,
              last, sessions, limits, parked, barred>>
vars == <<snapshotVars, poolVars>>

Scopes == Models \cup {WholeAccount}
Request == [model : Models, session : Sessions \cup {NoSession}]
Limit == [until : Nat, marked : Nat]
Binding == [account : Accounts, expires : Nat]

Steps == {"idle", "retry", "select", "wait", "ensure", "disable", "cool",
          "note", "recheck", "drop", "abort", "granted", "using", "forbid",
          "refused", "rejected", "clearAccount", "clearModel", "lateLimit"}

TypeOK ==
    /\ SnapshotTypeOK
    /\ now \in Nat
    /\ pc \in [Callers -> Steps]
    /\ request \in [Callers -> Request \cup {Nobody}]
    /\ excluded \in [Callers -> SUBSET Accounts]
    /\ acc \in [Callers -> Accounts \cup {Nobody}]
    /\ held \in [Callers -> Accounts \cup {Nobody}]
    /\ started \in [Callers -> Nat]
    /\ calls \in [Callers -> Nat]
    /\ active \in [Accounts -> Nat]
    /\ last \in [Accounts -> Int]
    /\ DOMAIN sessions \subseteq Sessions
    /\ sessions \in [DOMAIN sessions -> Binding]
    /\ DOMAIN limits \subseteq Accounts \X Scopes
    /\ limits \in [DOMAIN limits -> Limit]
    /\ parked \subseteq Callers
    /\ barred \in [Callers -> SUBSET Accounts]

Init ==
    /\ SnapshotInit
    /\ \A a \in Accounts : rows[a].row \in InitialRows
    /\ now = 0
    /\ pc = [c \in Callers |-> "idle"]
    /\ request = [c \in Callers |-> Nobody]
    /\ excluded = [c \in Callers |-> {}]
    /\ acc = [c \in Callers |-> Nobody]
    /\ held = [c \in Callers |-> Nobody]
    /\ started = [c \in Callers |-> 0]
    /\ calls = [c \in Callers |-> 0]
    /\ active = [a \in Accounts |-> 0]
    /\ last = [a \in Accounts |-> 0]
    /\ sessions = [s \in {} |-> Nobody]
    /\ limits = [k \in {} |-> Nobody]
    /\ parked = {}
    /\ barred = [c \in Callers |-> {}]

-----------------------------------------------------------------------------
(* Eligibility of an account, as Pool.mu sees it. *)

\* Not deleted, disabled, forbidden or past the validity of its batch.
Usable(r) ==
    /\ r # Absent
    /\ ~r.disabled
    /\ ~r.forbidden
    /\ SkipExpired => r.expires > now

\* The model is in the account's list with quota left.  ready is the moment
\* from which both hold; a model that never becomes available has one past
\* MaxTime.
Ready(a, r, m) == r.ready[Mapped[a][m]] <= now

\* limitedUntilLocked(a, mapped), or rate_limited_until of the row (limited),
\* is after now.
Limited(a, r, m) ==
    \/ r.limited > now
    \/ \E s \in {WholeAccount, Mapped[a][m]} :
          /\ <<a, s>> \in DOMAIN limits
          /\ limits[<<a, s>>].until > now

\* The accounts selectAccount considers for c, busy ones included.
Candidates(c) ==
    {a \in Accounts \ excluded[c] :
        /\ Usable(accounts[a].row)
        /\ Ready(a, accounts[a].row, request[c].model)
        /\ ~Limited(a, accounts[a].row, request[c].model)}

Free(c) == {a \in Candidates(c) : active[a] < Cap}

\* The live sticky binding of c's session, as a set of at most one account.
Bound(c) ==
    {sessions[s].account : s \in {request[c].session} \cap
                                  {t \in DOMAIN sessions : sessions[t].expires > now}}

\* Least loaded first, least recently picked among those.
Before(a, b) ==
    \/ active[a] < active[b]
    \/ active[a] = active[b] /\ last[a] <= last[b]

\* A free sticky account wins.  Two accounts that were never picked tie; the
\* code then takes the first listed, here either one.
Choices(c) ==
    IF Free(c) \cap Bound(c) # {}
    THEN Free(c) \cap Bound(c)
    ELSE {a \in Free(c) : \A b \in Free(c) : Before(a, b)}

-----------------------------------------------------------------------------
(* The bounded maps. *)

\* The keys that may remain of a map with these expiry times when one more is
\* stored: all, the live ones if it was full, or those without an oldest.
Room(expiry, bound) ==
    LET D == DOMAIN expiry
        live == {k \in D : expiry[k] > now}
        oldest == {k \in live : \A j \in live : expiry[k] <= expiry[j]}
    IN  IF Cardinality(D) < bound THEN {D}
        ELSE IF Cardinality(live) < bound THEN {live}
        ELSE {live \ {k} : k \in oldest}

\* selectAccount deletes the expired binding of the session it looks up.
Lookup(c) ==
    [s \in {t \in DOMAIN sessions : t = request[c].session => sessions[t].expires > now}
        |-> sessions[s]]

Bind(c, a) ==
    LET s == request[c].session
        left == Lookup(c)
    IN  IF s = NoSession
        THEN sessions' = sessions
        ELSE \E kept \in Room([t \in DOMAIN left |-> left[t].expires], MaxSessions) :
                sessions' = [t \in kept \cup {s} |->
                               IF t = s THEN [account |-> a, expires |-> now + SessionTTL]
                                        ELSE sessions[t]]

\* (mutant) Sticky sessions stay on the limited account.
MarkLimited_KeepsSessions(a, scope, until) ==
    LET k == <<a, scope>>
        end == IF k \in DOMAIN limits /\ limits[k].until > until
               THEN limits[k].until ELSE until
    IN  /\ \E kept \in Room([j \in DOMAIN limits |-> limits[j].until], MaxLimits) :
              limits' = [j \in kept \cup {k} |->
                           IF j = k THEN [until |-> end, marked |-> now]
                                    ELSE limits[j]]
        /\ parked' = {}
        /\ UNCHANGED sessions

\* MarkLimited(a, scope, until) with until after now, as every caller passes it.
MarkLimited(a, scope, until) ==
    LET k == <<a, scope>>
        end == IF k \in DOMAIN limits /\ limits[k].until > until
               THEN limits[k].until ELSE until
    IN  /\ \E kept \in Room([j \in DOMAIN limits |-> limits[j].until], MaxLimits) :
              limits' = [j \in kept \cup {k} |->
                           IF j = k THEN [until |-> end, marked |-> now]
                                    ELSE limits[j]]
        /\ sessions' = [s \in {t \in DOMAIN sessions : sessions[t].account # a}
                          |-> sessions[s]]
        /\ parked' = {}

\* (mutant) Any success clears the cooldown.
ClearLimitedBefore_Always(a, scope, t) ==
    /\ limits' = [j \in DOMAIN limits \ {<<a, scope>>} |-> limits[j]]
    /\ parked' = {}

\* ClearLimitedBefore(a, scope, t).
ClearLimitedBefore(a, scope, t) ==
    LET k == <<a, scope>>
    IN  IF k \in DOMAIN limits /\ limits[k].marked <= t
        THEN /\ limits' = [j \in DOMAIN limits \ {k} |-> limits[j]]
             /\ parked' = {}
        ELSE UNCHANGED <<limits, parked>>

-----------------------------------------------------------------------------
(* Acquire. *)

Goto(c, step) == pc' = [pc EXCEPT ![c] = step]

\* The call of c is over; its local variables are gone.
Leave(c) ==
    /\ Goto(c, "idle")
    /\ request' = [request EXCEPT ![c] = Nobody]
    /\ excluded' = [excluded EXCEPT ![c] = {}]
    /\ acc' = [acc EXCEPT ![c] = Nobody]
    /\ started' = [started EXCEPT ![c] = 0]
    /\ barred' = [barred EXCEPT ![c] = {}]

\* (mutant) The waiters are not woken.
Release_Silent(c) ==
    /\ active' = [active EXCEPT ![held[c]] = @ - 1]
    /\ held' = [held EXCEPT ![c] = Nobody]
    /\ UNCHANGED parked

\* release(): the slot is returned and every waiter is woken.
Release(c) ==
    /\ active' = [active EXCEPT ![held[c]] = @ - 1]
    /\ held' = [held EXCEPT ![c] = Nobody]
    /\ parked' = {}

\* Acquire is called; the proxy excludes the accounts it tried before.
Acquire(c) ==
    /\ pc[c] = "idle"
    /\ calls[c] < MaxCalls
    /\ \E r \in Request, tried \in SUBSET Accounts :
          /\ request' = [request EXCEPT ![c] = r]
          /\ excluded' = [excluded EXCEPT ![c] = tried]
    /\ calls' = [calls EXCEPT ![c] = @ + 1]
    /\ Goto(c, "retry")
    /\ UNCHANGED <<snapshotVars, now, acc, held, started, active, last,
                   sessions, limits, parked, barred>>

\* The top of selectAccount's loop: it loads the snapshot.
Begin(c) ==
    /\ pc[c] = "retry"
    /\ StartLoad(c)
    /\ Goto(c, "select")
    /\ UNCHANGED <<now, request, excluded, acc, held, started, calls, active,
                   last, sessions, limits, parked, barred>>

\* The context of the request ends at the top of the loop or while it waits,
\* or the snapshot cannot be loaded.
GiveUp(c) ==
    /\ \/ /\ pc[c] \in {"retry", "wait"}
          /\ UNCHANGED snapshotVars
       \/ /\ pc[c] = "select"
          /\ at[c] = "failed"
          /\ Return(c)
    /\ Leave(c)
    /\ parked' = parked \ {c}
    /\ UNCHANGED <<now, held, calls, active, last, sessions, limits>>

Selecting(c) ==
    /\ pc[c] = "select"
    /\ at[c] = "fresh"
    /\ Return(c)

\* The picked account becomes the most recent one; only the order matters.
Touch(a) ==
    last' = [b \in Accounts |->
               IF b = a THEN Cardinality({d \in Accounts : last[d] # 0} \cup {a})
               ELSE IF last[a] # 0 /\ last[b] > last[a] THEN last[b] - 1
               ELSE last[b]]

\* selectAccount reserves a slot.
Pick(c) ==
    /\ Selecting(c)
    /\ \E a \in Choices(c) :
          /\ acc' = [acc EXCEPT ![c] = a]
          /\ held' = [held EXCEPT ![c] = a]
          /\ active' = [active EXCEPT ![a] = @ + 1]
          /\ Touch(a)
          /\ Bind(c, a)
    /\ Goto(c, "ensure")
    /\ UNCHANGED <<now, request, excluded, started, calls, limits, parked, barred>>

\* Every candidate is at its cap: wait on the current channel.
Park(c) ==
    /\ Selecting(c)
    /\ Free(c) = {}
    /\ Candidates(c) # {}
    /\ Goto(c, "wait")
    /\ parked' = parked \cup {c}
    /\ sessions' = Lookup(c)
    /\ UNCHANGED <<now, request, excluded, acc, held, started, calls, active,
                   last, limits, barred>>

\* No candidate at all: UnavailableError.
Exhausted(c) ==
    /\ Selecting(c)
    /\ Candidates(c) = {}
    /\ Leave(c)
    /\ sessions' = Lookup(c)
    /\ UNCHANGED <<now, held, calls, active, last, limits, parked>>

\* The channel was closed, or (c is still parked) the 100 ms timer fired.
WakeUp(c) ==
    /\ pc[c] = "wait"
    /\ parked' = parked \ {c}
    /\ Goto(c, "retry")
    /\ UNCHANGED <<snapshotVars, now, request, excluded, acc, held, started,
                   calls, active, last, sessions, limits, barred>>

\* A row no request may be given, whatever the time.
Blocked(r) == r = Absent \/ r.disabled \/ r.forbidden

\* Credentials are ready; the snapshot is loaded again for the recheck.
EnsureOK(c) ==
    /\ pc[c] = "ensure"
    /\ StartLoad(c)
    /\ Goto(c, "recheck")
    /\ barred' = [barred EXCEPT ![c] =
                    {a \in Accounts : /\ Blocked(rows[a].row)
                                      /\ \A w \in Unsettled : writing[w].account # a}]
    /\ UNCHANGED <<now, request, excluded, acc, held, started, calls, active,
                   last, sessions, limits, parked>>

\* Refresh or project lookup failed: the slot goes back first.
EnsureFails(c) ==
    /\ pc[c] = "ensure"
    /\ Release(c)
    /\ excluded' = [excluded EXCEPT ![c] = @ \cup {acc[c]}]
    /\ \E step \in {"disable", "cool"} : Goto(c, step)
    /\ UNCHANGED <<snapshotVars, now, request, acc, started, calls, last,
                   sessions, limits, barred>>

\* (mutant) The early return forgets the slot.
EnsureCancelled_Leaks(c) ==
    /\ pc[c] = "ensure"
    /\ held' = [held EXCEPT ![c] = Nobody]
    /\ Leave(c)
    /\ UNCHANGED <<snapshotVars, now, calls, active, last, sessions, limits, parked>>

\* The same, because the request's context ended.
EnsureCancelled(c) ==
    /\ pc[c] = "ensure"
    /\ Release(c)
    /\ Leave(c)
    /\ UNCHANGED <<snapshotVars, now, calls, last, sessions, limits>>

\* Any error but invalid_grant cools the whole account down.
CoolDown(c) ==
    /\ pc[c] = "cool"
    /\ MarkLimited(acc[c], WholeAccount, now + RefreshCooldown)
    /\ Goto(c, "note")
    /\ UNCHANGED <<snapshotVars, now, request, excluded, acc, held, started,
                   calls, active, last, barred>>

\* A store write of c: Acquire disables the account (invalid_grant) and notes
\* the error, the proxy sets an account forbidden (403).  A mutation of a row
\* lifts the bar of that account for rechecks under way.
WriteOf(c) ==
    LET r == rows[acc[c]].row
    IN  CASE pc[c] = "disable" -> [r EXCEPT !.disabled = TRUE]
          [] pc[c] = "forbid"  -> [r EXCEPT !.forbidden = TRUE]
          [] OTHER             -> r

Lift(a) == barred' = [c \in Callers |-> barred[c] \ {a}]

CallerCommit(c) ==
    /\ pc[c] \in {"disable", "note", "forbid"}
    /\ rows[acc[c]].row # Absent
    /\ Commit(c, acc[c], WriteOf(c))
    /\ Lift(acc[c])
    /\ UNCHANGED <<now, pc, request, excluded, acc, held, started, calls,
                   active, last, sessions, limits, parked>>

\* Where c goes on after its write.
AfterWrite(c) ==
    CASE pc[c] = "disable" -> "note"
      [] pc[c] = "note"    -> "retry"
      [] pc[c] = "forbid"  -> "refused"

CallerBump(c) ==
    /\ pc[c] \in {"disable", "note", "forbid"}
    /\ BumpVersion(c)
    /\ Goto(c, AfterWrite(c))
    /\ UNCHANGED <<now, request, excluded, acc, held, started, calls, active,
                   last, sessions, limits, parked, barred>>

\* The write fails or finds no row; its error is ignored.
CallerWriteFails(c) ==
    /\ pc[c] \in {"disable", "note", "forbid"}
    /\ writing[c] = Nobody
    /\ Goto(c, AfterWrite(c))
    /\ UNCHANGED <<snapshotVars, now, request, excluded, acc, held, started,
                   calls, active, last, sessions, limits, parked, barred>>

\* (mutant) The recheck only looks whether the account is still there.
Valid_StillThere(c) == accounts[acc[c]].row # Absent

\* The recheck before credentials are returned.
Valid(c) ==
    LET r == accounts[acc[c]].row
    IN  Usable(r) /\ Ready(acc[c], r, request[c].model)

\* (mutant) The recheck looks at the whole-account scope only.
Cooling_AccountOnly(c) ==
    LET k == <<acc[c], WholeAccount>>
    IN  k \in DOMAIN limits /\ limits[k].until > now

Cooling(c) == Limited(acc[c], accounts[acc[c]].row, request[c].model)

Recheck(c) ==
    /\ pc[c] = "recheck"
    /\ at[c] = "fresh"
    /\ Return(c)
    /\ \/ /\ Valid(c)
          /\ ~Cooling(c)
          /\ Goto(c, "granted")
          /\ started' = [started EXCEPT ![c] = now]
          /\ UNCHANGED excluded
       \/ /\ ~Valid(c)
          /\ Goto(c, "drop")
          /\ excluded' = [excluded EXCEPT ![c] = @ \cup {acc[c]}]
          /\ UNCHANGED started
       \/ /\ Valid(c)
          /\ Cooling(c)
          /\ Goto(c, "drop")
          /\ UNCHANGED <<excluded, started>>
    /\ UNCHANGED <<now, request, acc, held, calls, active, last, sessions,
                   limits, parked, barred>>

RecheckFails(c) ==
    /\ pc[c] = "recheck"
    /\ at[c] = "failed"
    /\ Return(c)
    /\ Goto(c, "abort")
    /\ UNCHANGED <<now, request, excluded, acc, held, started, calls, active,
                   last, sessions, limits, parked, barred>>

\* (mutant) Selection starts over with the slot still reserved.
Drop_KeepsSlot(c) ==
    /\ pc[c] = "drop"
    /\ Goto(c, "retry")
    /\ UNCHANGED <<snapshotVars, now, request, excluded, acc, held, started,
                   calls, active, last, sessions, limits, parked, barred>>

\* A rejected account's slot goes back and selection starts over.
Drop(c) ==
    /\ pc[c] = "drop"
    /\ Release(c)
    /\ Goto(c, "retry")
    /\ UNCHANGED <<snapshotVars, now, request, excluded, acc, started, calls,
                   last, sessions, limits, barred>>

-----------------------------------------------------------------------------
(* The proxy's use of the slot. *)

ScopesOf(c) == {WholeAccount, Mapped[acc[c]][request[c].model]}

\* An upstream attempt starts.  A grace wait (after a limit was recorded), a
\* refreshed token or a stripped parameter repeats it on the same slot.
Attempt(c) ==
    /\ pc[c] \in {"granted", "using", "rejected"}
    /\ started' = [started EXCEPT ![c] = now]
    /\ Goto(c, "using")
    /\ UNCHANGED <<snapshotVars, now, request, excluded, acc, held, calls,
                   active, last, sessions, limits, parked, barred>>

\* The slot goes back with nothing recorded: snapshot error, a context that
\* ended, MarkUsed refused, a request that cannot be built, a final status.
HandBack(c) ==
    /\ pc[c] \in {"abort", "granted", "using", "refused", "rejected"}
    /\ Release(c)
    /\ Leave(c)
    /\ UNCHANGED <<snapshotVars, now, calls, last, sessions, limits>>

\* The upstream rejected the attempt: a cooldown while the slot is held.
Reject(c) ==
    /\ pc[c] \in {"using", "refused"}
    /\ \E scope \in ScopesOf(c), d \in Cooldowns :
          MarkLimited(acc[c], scope, now + d)
    /\ Goto(c, "rejected")
    /\ UNCHANGED <<snapshotVars, now, request, excluded, acc, held, started,
                   calls, active, last, barred>>

\* 403: the account is set forbidden while the slot is held.
Forbid(c) ==
    /\ pc[c] = "using"
    /\ Goto(c, "forbid")
    /\ UNCHANGED <<snapshotVars, now, request, excluded, acc, held, started,
                   calls, active, last, sessions, limits, parked, barred>>

\* The response body was consumed: the slot goes back before the outcome is
\* recorded, success or an error in mid-stream.
Deliver(c) ==
    /\ pc[c] = "using"
    /\ Release(c)
    /\ \E step \in {"clearAccount", "lateLimit"} : Goto(c, step)
    /\ UNCHANGED <<snapshotVars, now, request, excluded, acc, started, calls,
                   last, sessions, limits, barred>>

ClearAccount(c) ==
    /\ pc[c] = "clearAccount"
    /\ ClearLimitedBefore(acc[c], WholeAccount, started[c])
    /\ Goto(c, "clearModel")
    /\ UNCHANGED <<snapshotVars, now, request, excluded, acc, held, started,
                   calls, active, last, sessions, barred>>

ClearModel(c) ==
    /\ pc[c] = "clearModel"
    /\ ClearLimitedBefore(acc[c], Mapped[acc[c]][request[c].model], started[c])
    /\ Leave(c)
    /\ UNCHANGED <<snapshotVars, now, held, calls, active, last, sessions>>

LateLimit(c) ==
    /\ pc[c] = "lateLimit"
    /\ \E scope \in ScopesOf(c), d \in Cooldowns :
          MarkLimited(acc[c], scope, now + d)
    /\ Leave(c)
    /\ UNCHANGED <<snapshotVars, now, held, calls, active, last>>

-----------------------------------------------------------------------------
(* The rest of the process. *)

\* Installing a snapshot also forgets reservations, cooldowns and sessions of
\* accounts that are gone; a reservation in use stays.
InstallSnapshot(c) ==
    /\ Install(c)
    /\ LET live == {a \in Accounts : listed[c][a].row # Absent}
           gone == {a \in Accounts \ live : active[a] = 0 /\ last[a] # 0}
       IN  /\ last' = [b \in Accounts |->
                         IF b \in gone THEN 0
                         ELSE last[b] - Cardinality({d \in gone : last[d] < last[b]})]
           /\ limits' = [k \in {j \in DOMAIN limits : j[1] \in live} |-> limits[k]]
           /\ sessions' = [s \in {t \in DOMAIN sessions : sessions[t].account \in live}
                             |-> sessions[s]]
    /\ UNCHANGED <<now, pc, request, excluded, acc, held, started, calls,
                   active, parked, barred>>

LoadStep(c) ==
    /\ Compare(c) \/ EnterGate(c) \/ Reread(c) \/ ListAccounts(c) \/ FailLoad(c)
    /\ UNCHANGED poolVars

\* Any mutation by the admin API, a refresh or an import.  An id that was
\* deleted never returns.
AdminCommit(w) ==
    /\ \E a \in Accounts, r \in Row \cup {Absent} :
          /\ rows[a].row = Absent =>
                IF rows[a].stamp = 1 THEN r \in InitialRows ELSE r = Absent
          /\ Commit(w, a, r)
          /\ Lift(a)
    /\ UNCHANGED <<now, pc, request, excluded, acc, held, started, calls,
                   active, last, sessions, limits, parked>>

AdminBump(w) ==
    /\ BumpVersion(w)
    /\ UNCHANGED poolVars

Tick ==
    /\ now < MaxTime
    /\ now' = now + 1
    /\ UNCHANGED <<snapshotVars, pc, request, excluded, acc, held, started,
                   calls, active, last, sessions, limits, parked, barred>>

CallerStep(c) ==
    \/ Acquire(c) \/ Begin(c) \/ GiveUp(c)
    \/ Pick(c) \/ Park(c) \/ Exhausted(c) \/ WakeUp(c)
    \/ EnsureOK(c) \/ EnsureFails(c) \/ EnsureCancelled(c) \/ CoolDown(c)
    \/ CallerCommit(c) \/ CallerBump(c) \/ CallerWriteFails(c)
    \/ Recheck(c) \/ RecheckFails(c) \/ Drop(c)
    \/ Attempt(c) \/ HandBack(c) \/ Reject(c) \/ Forbid(c) \/ Deliver(c)
    \/ ClearAccount(c) \/ ClearModel(c) \/ LateLimit(c)
    \/ InstallSnapshot(c) \/ LoadStep(c)

Next ==
    \/ \E c \in Callers : CallerStep(c)
    \/ \E w \in Admins : AdminCommit(w) \/ AdminBump(w)
    \/ Tick

Spec == Init /\ [][Next]_vars

\* What a goroutine does on its own, whatever the outcome: refreshes, store
\* writes and loads end, and a woken waiter runs.  The 100 ms timer of a
\* waiter is left out: a release must be enough to wake it.
Proceed(c) ==
    \/ Begin(c) \/ Pick(c) \/ Park(c) \/ Exhausted(c)
    \/ pc[c] = "select" /\ GiveUp(c)
    \/ c \notin parked /\ WakeUp(c)
    \/ EnsureOK(c) \/ EnsureFails(c) \/ CoolDown(c)
    \/ CallerBump(c) \/ CallerWriteFails(c)
    \/ Recheck(c) \/ RecheckFails(c) \/ Drop(c)
    \/ ClearAccount(c) \/ ClearModel(c) \/ LateLimit(c)
    \/ InstallSnapshot(c) \/ LoadStep(c)

\* The gate is a channel, so its waiters are served in order; RequestTimeout
\* ends every request that keeps trying the upstream.
Fairness ==
    \A c \in Callers : /\ WF_vars(Proceed(c))
                       /\ SF_vars(EnterGate(c) /\ UNCHANGED poolVars)
                       /\ SF_vars(HandBack(c))

FairSpec == Spec /\ Fairness

-----------------------------------------------------------------------------
(* Properties. *)

\* The counter of a reservation is the number of requests that hold the
\* account, on every path through Acquire and the proxy: no slot leaks and
\* none is returned twice.
SlotAccounting ==
    \A a \in Accounts : active[a] = Cardinality({c \in Callers : held[c] = a})

\* MAX_CONCURRENT_PER_ACCOUNT bounds the requests in flight per account.
CapRespected ==
    \A a \in Accounts : Cardinality({c \in Callers : held[c] = a}) <= Cap

\* The scheduler implements the abstract slots.
Slots == INSTANCE AccountSlots
SlotsSpec == Slots!SlotsSpec

\* No lost wake-up: while a request waits on the current channel, an account
\* it may use is still at its cap, so a release that closes the channel comes.
NoLostWakeup ==
    \A c \in parked : \E a \in Accounts \ excluded[c] : active[a] >= Cap

\* An account that was disabled, set forbidden or deleted, by a mutation that
\* returned before the recheck began and was not changed since, is not handed
\* out, although selection and the token refresh worked on older rows.
NoBarredGrant ==
    \A c \in Callers : pc[c] = "granted" => acc[c] \notin barred[c]

\* A cooldown that covers a granted account is newer than the grant: a limit
\* another request recorded while credentials were refreshed is not overlooked.
GrantIsNotOverACooldown ==
    \A c \in Callers : pc[c] = "granted" =>
        \A s \in ScopesOf(c) :
            LET k == <<acc[c], s>>
            IN  k \in DOMAIN limits /\ limits[k].until > now
                    => limits[k].marked >= started[c]

\* A sticky session never points at an account whose whole-account cooldown
\* is running: "a limited sticky account should not keep capturing sessions".
NoStickyToLimited ==
    \A s \in DOMAIN sessions :
        LET k == <<sessions[s].account, WholeAccount>>
        IN  k \in DOMAIN limits => limits[k].until <= now

\* The cooldown that goes when one more is stored in a map full of running ones.
MakesRoom(k) ==
    LET live == {j \in DOMAIN limits : limits[j].until > now}
    IN  Cardinality(live) >= MaxLimits /\ \A j \in live : limits[k].until <= limits[j].until

\* A running cooldown is neither shortened nor dropped, except by a success
\* whose attempt did not start before the mark, by the removal of the account,
\* or to make room: only where all that fill the map are running, and only the
\* one that would have ended first.
CooldownKept ==
    [][\A k \in DOMAIN limits :
          limits[k].until > now =>
            \/ k \in DOMAIN limits' /\ limits'[k].until >= limits[k].until
            \/ \E c \in Callers : /\ pc[c] \in {"clearAccount", "clearModel"}
                                  /\ acc[c] = k[1]
                                  /\ started[c] >= limits[k].marked
            \/ accounts'[k[1]].row = Absent
            \/ MakesRoom(k)]_vars

\* Every call of Acquire returns, with an account or an error, although it may
\* wait for the slot of another request, loop after a failed refresh or start
\* over after the recheck: a slot that leaked would block it for ever.
AcquireReturns ==
    \A c \in Callers : pc[c] = "retry" ~> pc[c] \in {"granted", "idle"}
=============================================================================
