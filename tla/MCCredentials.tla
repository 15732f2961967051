--------------------------- MODULE MCCredentials ---------------------------
(* Small instances of Credentials for TLC. *)
EXTENDS Credentials, TLC

New(f, p) == [access : {1}, fresh : f, refresh : {1}, disabled : {FALSE}, project : p]
\* Accounts with a project: nothing but tokens changes.
WithProject == New(BOOLEAN, {TRUE})
\* An account as it is right after its import.
WithoutProject == New({TRUE}, {FALSE})

CallerSymmetry == Permutations(Callers)
=============================================================================
