----------------------------- MODULE LogOutbox -----------------------------
(***************************************************************************)
(* What the writer of the request log promises: an entry that was accepted *)
(* is stored in the order of acceptance, or its batch is lost as a whole   *)
(* and every entry of it is counted; entries are refused only when that is *)
(* counted too or the store is closing; the store is closed only when      *)
(* nothing is pending.  LogWriter implements it.                           *)
(***************************************************************************)
EXTENDS Naturals, Sequences

CONSTANT Entries

VARIABLES pending,  \* accepted, not yet written
          stored,   \* the table request_logs
          dropped,  \* Store.droppedLogs
          status    \* "open", "closing" or "closed"

outboxVars == <<pending, stored, dropped, status>>

OutboxInit ==
    /\ pending = <<>>
    /\ stored = <<>>
    /\ dropped = 0
    /\ status = "open"

Accept(e) ==
    /\ status = "open"
    /\ pending' = Append(pending, e)
    /\ UNCHANGED <<stored, dropped, status>>

Refuse ==
    /\ status = "open"
    /\ dropped' = dropped + 1
    /\ UNCHANGED <<pending, stored, status>>

\* The oldest n entries leave pending, by a write or by its failure.
Batch(n) == SubSeq(pending, 1, n)
Leave(n) == pending' = SubSeq(pending, n + 1, Len(pending))

Store(n) ==
    /\ Leave(n)
    /\ stored' = stored \o Batch(n)
    /\ UNCHANGED <<dropped, status>>

Lose(n) ==
    /\ Leave(n)
    /\ dropped' = dropped + n
    /\ UNCHANGED <<stored, status>>

Shut ==
    /\ \/ status = "open" /\ status' = "closing"
       \/ status = "closing" /\ pending = <<>> /\ status' = "closed"
    /\ UNCHANGED <<pending, stored, dropped>>

OutboxNext ==
    \/ \E e \in Entries : Accept(e)
    \/ Refuse
    \/ \E n \in 1 .. Len(pending) : Store(n) \/ Lose(n)
    \/ Shut

OutboxSpec == OutboxInit /\ [][OutboxNext]_outboxVars
=============================================================================
