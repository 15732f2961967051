---------------------------- MODULE AccountSlots ----------------------------
(***************************************************************************)
(* What the scheduler promises about upstream concurrency, and nothing     *)
(* else: every request holds at most one account, every account is held by *)
(* at most Cap requests (MAX_CONCURRENT_PER_ACCOUNT), and a request gives  *)
(* its account back before it takes another.                               *)
(***************************************************************************)
EXTENDS Naturals, FiniteSets

CONSTANTS Callers,   \* requests, a finite set
          Accounts,  \* account ids
          Cap,       \* concurrent upstream requests per account, at least 1
          Nobody     \* "no account"

VARIABLE held        \* per request: the account it holds, or Nobody

Holders(a) == {c \in Callers : held[c] = a}

SlotsTypeOK == held \in [Callers -> Accounts \cup {Nobody}]

SlotsInit == held = [c \in Callers |-> Nobody]

Take(c, a) ==
    /\ held[c] = Nobody
    /\ Cardinality(Holders(a)) < Cap
    /\ held' = [held EXCEPT ![c] = a]

Give(c) ==
    /\ held[c] # Nobody
    /\ held' = [held EXCEPT ![c] = Nobody]

SlotsNext == \E c \in Callers : Give(c) \/ \E a \in Accounts : Take(c, a)

SlotsSpec == SlotsInit /\ [][SlotsNext]_held
=============================================================================
