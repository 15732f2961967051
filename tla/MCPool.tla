------------------------------- MODULE MCPool -------------------------------
(* Small instances of Pool for TLC.  Time 9 is past every bound: "never". *)
EXTENDS Pool, TLC

Never == 9
\* A row that is usable unless disabled, forbidden or deleted.
PlainRows == [disabled : BOOLEAN, forbidden : BOOLEAN, expires : {Never},
              limited : {0}, ready : [Models -> {0}]]
PlainInitial == {r \in PlainRows : ~r.disabled /\ ~r.forbidden}

\* Every account calls every model by its own name.
SameName == [a \in Accounts |-> [m \in Models |-> m]]

\* Rows whose quota may return and whose validity ends while the clock runs.
TimedRows == [disabled : BOOLEAN, forbidden : BOOLEAN, expires : {2},
              limited : {0, 1}, ready : [Models -> {0, 1}]]
TimedInitial == {r \in TimedRows : /\ ~r.disabled
                                   /\ ~r.forbidden
                                   /\ \A m \in Models : r.ready[m] = 1}

AllWriters == Callers \cup Admins

PoolSymmetry == Permutations(Callers) \cup Permutations(Accounts)
=============================================================================
