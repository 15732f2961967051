-------------------------- MODULE AccountSnapshot --------------------------
(***************************************************************************)
(* The scheduler never reads the accounts table on its hot path.  It keeps *)
(* a copy of all rows (Pool.accounts) and the value that                   *)
(* Store.AccountsVersion had before the copy was listed (Pool.version).    *)
(* Every account mutation of the store commits its SQL first and adds one  *)
(* to the version afterwards, as two separate steps; loadSnapshot compares *)
(* versions, and reloads under the gate "@scheduler-snapshot".             *)
(*                                                                         *)
(* Each row carries a stamp, one more than the commits to that account.    *)
(* The stamps and the variables settled and floor are auxiliary: no guard  *)
(* reads them.  They say which mutations a copy of the table contains.     *)
(***************************************************************************)
EXTENDS Naturals, FiniteSets

CONSTANTS Accounts,    \* account ids
          Callers,     \* goroutines that call loadSnapshot
          Writers,     \* goroutines that mutate accounts
          Row,         \* the contents a row can have
          Absent,      \* "no such row"
          Nobody,      \* no holder, no caller, no write
          MaxVersion   \* bound: the version never exceeds it

ASSUME SnapshotAssumption ==
    /\ Absent \notin Row
    /\ Nobody \notin Accounts \cup Callers
    /\ Nobody \notin [account : Accounts, stamp : Nat]
    /\ MaxVersion \in Nat

VARIABLES
    rows,         \* the accounts table
    version,      \* Store.accountVersion
    writing,      \* per writer: the commit whose Add(1) is still to come
    settled,      \* (aux) per account: newest stamp whose mutation returned
    accounts,     \* Pool.accounts, the scheduler's copy
    snapVersion,  \* Pool.version
    gate,         \* the caller that holds the gate "@scheduler-snapshot"
    at,           \* per caller: where it is in loadSnapshot
    seen,         \* per caller: its local variable version
    listed,       \* per caller: its local variable accounts
    floor         \* (aux) per caller: settled when its load began

snapshotVars == <<rows, version, writing, settled, accounts, snapVersion,
                  gate, at, seen, listed, floor>>

Table == [Accounts -> [row : Row \cup {Absent}, stamp : Nat]]
EmptyTable == [a \in Accounts |-> [row |-> Absent, stamp |-> 0]]
NoFloor == [a \in Accounts |-> 0]

LoadSteps == {"idle", "compare", "gate", "reread", "list", "install",
              "fresh", "failed"}

SnapshotTypeOK ==
    /\ rows \in Table
    /\ version \in Nat
    /\ writing \in [Writers -> {Nobody} \cup [account : Accounts, stamp : Nat]]
    /\ settled \in [Accounts -> Nat]
    /\ accounts \in Table
    /\ snapVersion \in 0 .. version
    /\ gate \in Callers \cup {Nobody}
    /\ at \in [Callers -> LoadSteps]
    /\ seen \in [Callers -> Nat]
    /\ listed \in [Callers -> Table]
    /\ floor \in [Callers -> [Accounts -> Nat]]

\* Open stores version 1; a new Pool has version 0 and no accounts.
SnapshotInit ==
    /\ rows \in [Accounts -> [row : Row \cup {Absent}, stamp : {1}]]
    /\ version = 1
    /\ writing = [w \in Writers |-> Nobody]
    /\ settled = [a \in Accounts |-> 1]
    /\ accounts = EmptyTable
    /\ snapVersion = 0
    /\ gate = Nobody
    /\ at = [c \in Callers |-> "idle"]
    /\ seen = [c \in Callers |-> 0]
    /\ listed = [c \in Callers |-> EmptyTable]
    /\ floor = [c \in Callers |-> NoFloor]

-----------------------------------------------------------------------------
(* Mutations of the accounts table. *)

loadVars == <<accounts, snapVersion, gate, at, seen, listed, floor>>

Unsettled == {w \in Writers : writing[w] # Nobody}

\* The SQL statement of a mutation takes effect: the single write connection
\* makes it one step.
Commit(w, a, r) ==
    /\ writing[w] = Nobody
    /\ version + Cardinality(Unsettled) < MaxVersion
    /\ rows' = [rows EXCEPT ![a] = [row |-> r, stamp |-> rows[a].stamp + 1]]
    /\ writing' = [writing EXCEPT
                     ![w] = [account |-> a, stamp |-> rows[a].stamp + 1]]
    /\ UNCHANGED <<version, settled, loadVars>>

\* accountVersion.Add(1), after which the mutation returns.
BumpVersion(w) ==
    /\ writing[w] # Nobody
    /\ version' = version + 1
    /\ settled' = LET done == writing[w]
                  IN [settled EXCEPT ![done.account] =
                        IF @ < done.stamp THEN done.stamp ELSE @]
    /\ writing' = [writing EXCEPT ![w] = Nobody]
    /\ UNCHANGED <<rows, loadVars>>

-----------------------------------------------------------------------------
(* loadSnapshot. *)

storeVars == <<rows, version, writing, settled>>

StartLoad(c) ==
    /\ at[c] = "idle"
    /\ seen' = [seen EXCEPT ![c] = version]
    /\ floor' = [floor EXCEPT ![c] = settled]
    /\ at' = [at EXCEPT ![c] = "compare"]
    /\ UNCHANGED <<storeVars, accounts, snapVersion, gate, listed>>

\* (mutant) Any copy is taken for a current one.
Compare_AnyCopy(c) ==
    /\ at[c] = "compare"
    /\ at' = [at EXCEPT ![c] = IF snapVersion # 0 THEN "fresh" ELSE "gate"]
    /\ UNCHANGED <<storeVars, accounts, snapVersion, gate, seen, listed, floor>>

\* The check under p.mu, before the gate.
Compare(c) ==
    /\ at[c] = "compare"
    /\ at' = [at EXCEPT ![c] =
                IF snapVersion = seen[c] THEN "fresh" ELSE "gate"]
    /\ UNCHANGED <<storeVars, accounts, snapVersion, gate, seen, listed, floor>>

\* (mutant) The gate does not exclude.
EnterGate_Open(c) ==
    /\ at[c] = "gate"
    /\ gate' = c
    /\ at' = [at EXCEPT ![c] = "reread"]
    /\ UNCHANGED <<storeVars, accounts, snapVersion, seen, listed, floor>>

EnterGate(c) ==
    /\ at[c] = "gate"
    /\ gate = Nobody
    /\ gate' = c
    /\ at' = [at EXCEPT ![c] = "reread"]
    /\ UNCHANGED <<storeVars, accounts, snapVersion, seen, listed, floor>>

\* The version is read again inside the gate.  Only the holder changes
\* snapVersion, so the read and the comparison are one step.
Reread(c) ==
    /\ at[c] = "reread"
    /\ seen' = [seen EXCEPT ![c] = version]
    /\ \/ /\ snapVersion = version
          /\ at' = [at EXCEPT ![c] = "fresh"]
          /\ gate' = Nobody
       \/ /\ snapVersion # version
          /\ at' = [at EXCEPT ![c] = "list"]
          /\ UNCHANGED gate
    /\ UNCHANGED <<storeVars, accounts, snapVersion, listed, floor>>

\* ListAccountsContext: one SELECT on a read connection.
ListAccounts(c) ==
    /\ at[c] = "list"
    /\ listed' = [listed EXCEPT ![c] = rows]
    /\ at' = [at EXCEPT ![c] = "install"]
    /\ UNCHANGED <<storeVars, accounts, snapVersion, gate, seen, floor>>

\* (mutant) The copy is labelled with the version of now, not of its listing.
Install_LateVersion(c) ==
    /\ at[c] = "install"
    /\ accounts' = listed[c]
    /\ snapVersion' = version
    /\ gate' = Nobody
    /\ listed' = [listed EXCEPT ![c] = EmptyTable]
    /\ at' = [at EXCEPT ![c] = "fresh"]
    /\ UNCHANGED <<storeVars, seen, floor>>

Install(c) ==
    /\ at[c] = "install"
    /\ accounts' = listed[c]
    /\ snapVersion' = seen[c]
    /\ gate' = Nobody
    /\ listed' = [listed EXCEPT ![c] = EmptyTable]
    /\ at' = [at EXCEPT ![c] = "fresh"]
    /\ UNCHANGED <<storeVars, seen, floor>>

\* The caller's context ends while it waits for the gate, or the query fails
\* while it holds it.
FailLoad(c) ==
    /\ at[c] \in {"gate", "list"}
    /\ gate' = IF at[c] = "list" THEN Nobody ELSE gate
    /\ at' = [at EXCEPT ![c] = "failed"]
    /\ UNCHANGED <<storeVars, accounts, snapVersion, seen, listed, floor>>

\* loadSnapshot returns, nil or an error, to whoever called it.
Return(c) ==
    /\ at[c] \in {"fresh", "failed"}
    /\ at' = [at EXCEPT ![c] = "idle"]
    /\ seen' = [seen EXCEPT ![c] = 0]
    /\ floor' = [floor EXCEPT ![c] = NoFloor]
    /\ UNCHANGED <<storeVars, accounts, snapVersion, gate, listed>>

Loading(c) ==
    \/ Compare(c)
    \/ EnterGate(c)
    \/ Reread(c)
    \/ ListAccounts(c)
    \/ Install(c)
    \/ FailLoad(c)

SnapshotNext ==
    \/ \E w \in Writers, a \in Accounts, r \in Row \cup {Absent} : Commit(w, a, r)
    \/ \E w \in Writers : BumpVersion(w)
    \/ \E c \in Callers : StartLoad(c) \/ Loading(c) \/ Return(c)

SnapshotSpec == SnapshotInit /\ [][SnapshotNext]_snapshotVars

-----------------------------------------------------------------------------
(* Properties. *)

\* table t contains every mutation that had returned when f was recorded.
Covers(t, f) == \A a \in Accounts : t[a].stamp >= f[a]

\* loadSnapshot takes a version match as proof that its copy is current: then
\* the copy contains every mutation that has returned (scheduling.go:14).
SnapshotCurrent == snapVersion = version => Covers(accounts, settled)

\* After loadSnapshot returned nil the caller schedules on a copy that has
\* every mutation which returned before the call, whichever path it took and
\* whoever else was loading.
LoadSeesReturnedWrites ==
    \A c \in Callers : at[c] = "fresh" => Covers(accounts, floor[c])

\* An installed copy never goes back: a slow loader cannot put an older copy,
\* or an older version, over a newer one.
SnapshotNeverRegresses ==
    [][ /\ snapVersion' >= snapVersion
        /\ \A a \in Accounts : accounts'[a].stamp >= accounts[a].stamp
      ]_snapshotVars
=============================================================================
