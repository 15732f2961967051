----------------------------- MODULE LogWriter -----------------------------
(***************************************************************************)
(* The buffered writes of the store (writer.go): AddLog queues an entry of *)
(* the request log in a bounded channel, MarkUsed notes when an account    *)
(* was used last, one worker writes both in one transaction, and Close     *)
(* stops them.  Callers hold the read lock of logMu from the test of       *)
(* logClosed until they are done; Close takes the write lock, and as in    *)
(* every Go RWMutex a waiting writer keeps new readers out.                *)
(*                                                                         *)
(* An entry is the number of the call of AddLog.  The database connection, *)
(* which the worker shares with other writers, is left out: a write        *)
(* succeeds or fails as a whole, being one transaction.                    *)
(***************************************************************************)
EXTENDS Naturals, Sequences, FiniteSets

CONSTANTS Callers,     \* goroutines that call AddLog and MarkUsed
          Accounts,
          QueueSize,   \* the capacity of logCh
          BatchSize,   \* logBatchSize
          UsedCap,     \* the bound of the map used
          MaxEntries,  \* bound: calls of AddLog
          MaxTime      \* bound: the clock

ASSUME WriterAssumption ==
    /\ QueueSize \in Nat \ {0}
    /\ BatchSize \in Nat \ {0}
    /\ UsedCap \in Nat
    /\ MaxEntries \in Nat
    /\ MaxTime \in Nat \ {0}

VARIABLES
    queue,     \* logCh
    batch,     \* (worker) the entries to be written next
    stored,    \* the table request_logs
    dropped,   \* Store.droppedLogs
    used,      \* Store.used; 0 for an account without an entry
    taken,     \* (worker) the map it took
    lastUsed,  \* last_used of the rows of accounts
    noted,     \* (aux) per account: newest time that MarkUsed noted
    failed,    \* logErr is set
    closed,    \* logClosed; logCh is closed in the same section of logMu
    pc,        \* per caller: "idle", "locked" or "checked"
    entry,     \* per caller: the entry to be logged; 0 in MarkUsed
    worker,    \* "select", "flush", "write" or "exited"
    final,     \* (worker) the flush is the last one
    closer,    \* "idle", "waiting", "draining" or "closed"
    report,    \* the result of Close: whether it is an error
    issued,    \* calls of AddLog so far
    now        \* the clock

clientVars == <<pc, entry, issued, noted>>
workerVars == <<batch, taken, worker, final, failed>>
tables == <<stored, lastUsed>>
closeVars == <<closed, closer, report>>
shared == <<queue, dropped, used>>
vars == <<shared, clientVars, workerVars, tables, closeVars, now>>

Times == [Accounts -> 0 .. MaxTime]
Nothing == [a \in Accounts |-> 0]
Entry == 1 .. MaxEntries

TypeOK ==
    /\ queue \in Seq(Entry) /\ Len(queue) <= QueueSize
    /\ batch \in Seq(Entry) /\ Len(batch) <= BatchSize
    /\ stored \in Seq(Entry)
    /\ dropped \in Nat
    /\ {used, taken, lastUsed, noted} \subseteq Times
    /\ {failed, closed, final, report} \subseteq BOOLEAN
    /\ pc \in [Callers -> {"idle", "locked", "checked"}]
    /\ entry \in [Callers -> 0 .. MaxEntries]
    /\ worker \in {"select", "flush", "write", "exited"}
    /\ closer \in {"idle", "waiting", "draining", "closed"}
    /\ issued \in 0 .. MaxEntries
    /\ now \in 1 .. MaxTime

Init ==
    /\ queue = <<>> /\ batch = <<>> /\ stored = <<>> /\ dropped = 0
    /\ used = Nothing /\ taken = Nothing /\ lastUsed = Nothing /\ noted = Nothing
    /\ failed = FALSE /\ closed = FALSE /\ final = FALSE /\ report = FALSE
    /\ pc = [c \in Callers |-> "idle"]
    /\ entry = [c \in Callers |-> 0]
    /\ worker = "select" /\ closer = "idle"
    /\ issued = 0 /\ now = 1

-----------------------------------------------------------------------------
(* AddLog and MarkUsed. *)

RLock(c, e) ==
    /\ pc[c] = "idle"
    /\ closer # "waiting"
    /\ pc' = [pc EXCEPT ![c] = "locked"]
    /\ entry' = [entry EXCEPT ![c] = e]
    /\ UNCHANGED <<shared, noted, workerVars, tables, closeVars, now>>

BeginAddLog(c) ==
    /\ issued < MaxEntries
    /\ issued' = issued + 1
    /\ RLock(c, issued + 1)

BeginMarkUsed(c) == RLock(c, 0) /\ UNCHANGED issued

RUnlock(c) ==
    /\ pc' = [pc EXCEPT ![c] = "idle"]
    /\ entry' = [entry EXCEPT ![c] = 0]

\* ErrClosed, or on to the work.
Check(c) ==
    /\ pc[c] = "locked"
    /\ \/ closed /\ RUnlock(c)
       \/ ~closed /\ pc' = [pc EXCEPT ![c] = "checked"] /\ UNCHANGED entry
    /\ UNCHANGED <<shared, issued, noted, workerVars, tables, closeVars, now>>

HasRoom == Len(queue) < QueueSize

\* The select of AddLog: the entry is queued, or dropped when logCh is full.
AddLog(c) ==
    /\ pc[c] = "checked" /\ entry[c] # 0
    /\ \/ /\ HasRoom
          /\ queue' = Append(queue, entry[c])
          /\ UNCHANGED dropped
       \/ /\ ~HasRoom
          /\ dropped' = dropped + 1
          /\ UNCHANGED queue
    /\ RUnlock(c)
    /\ UNCHANGED <<used, issued, noted, workerVars, tables, closeVars, now>>

\* MarkUsed, under usedMu: a new account is not noted when the map is full.
MarkUsed(c, a) ==
    /\ pc[c] = "checked" /\ entry[c] = 0
    /\ IF used[a] # 0 \/ Cardinality({b \in Accounts : used[b] # 0}) < UsedCap
       THEN /\ used' = [used EXCEPT ![a] = now]
            /\ noted' = [noted EXCEPT ![a] = now]
       ELSE UNCHANGED <<used, noted>>
    /\ RUnlock(c)
    /\ UNCHANGED <<queue, dropped, issued, workerVars, tables, closeVars, now>>

-----------------------------------------------------------------------------
(* logWorker. *)

Full == Len(batch) + 1 >= BatchSize

\* An entry is received; a full batch is flushed.
Receive ==
    /\ worker = "select"
    /\ queue # <<>>
    /\ batch' = Append(batch, Head(queue))
    /\ queue' = Tail(queue)
    /\ worker' = IF Full THEN "flush" ELSE "select"
    /\ UNCHANGED <<dropped, used, taken, final, failed, clientVars, tables, closeVars, now>>

\* The ticker fires, or the channel is closed and empty.
Wake ==
    /\ worker = "select"
    /\ worker' = "flush"
    /\ final' \in {FALSE, closed /\ queue = <<>>}
    /\ UNCHANGED <<shared, batch, taken, failed, clientVars, tables, closeVars, now>>

AfterFlush == IF final THEN "exited" ELSE "select"

Idle == batch = <<>> /\ used = Nothing

\* flush takes the map used; there may be nothing to write.
TakeUsed ==
    /\ worker = "flush"
    /\ taken' = used
    /\ used' = Nothing
    /\ worker' = IF Idle THEN AfterFlush ELSE "write"
    /\ UNCHANGED <<queue, dropped, batch, final, failed, clientVars, tables, closeVars, now>>

WriteReturns ==
    /\ worker = "write"
    /\ batch' = <<>>
    /\ taken' = Nothing
    /\ worker' = AfterFlush
    /\ UNCHANGED <<queue, used, final, clientVars, closeVars, now>>

\* writeBatch commits; last_used becomes the later of the two times.
WriteBatch ==
    /\ WriteReturns
    /\ stored' = stored \o batch
    /\ lastUsed' = [a \in Accounts |->
                      IF taken[a] > lastUsed[a] THEN taken[a] ELSE lastUsed[a]]
    /\ UNCHANGED <<dropped, failed>>

\* (mutant) A failure counts as one dropped entry.
Lost_One == 1

Lost == Len(batch)

\* It fails: the entries are counted as dropped, the first error is kept.
WriteFails ==
    /\ WriteReturns
    /\ dropped' = dropped + Lost
    /\ failed' = TRUE
    /\ UNCHANGED tables

-----------------------------------------------------------------------------
(* Close, which closeOnce runs once. *)

StartClose ==
    /\ closer = "idle"
    /\ closer' = "waiting"
    /\ UNCHANGED <<shared, closed, report, clientVars, workerVars, tables, now>>

\* (mutant) Close does not wait for those who are inside.
NobodyInside_Unlocked == TRUE

NobodyInside == \A c \in Callers : pc[c] = "idle"

\* Under the write lock: logClosed is set and logCh is closed.
CloseQueue ==
    /\ closer = "waiting"
    /\ NobodyInside
    /\ closed' = TRUE
    /\ closer' = "draining"
    /\ UNCHANGED <<shared, report, clientVars, workerVars, tables, now>>

\* The worker has closed logDone; the databases are closed.
FinishClose ==
    /\ closer = "draining"
    /\ worker = "exited"
    /\ report' = failed
    /\ closer' = "closed"
    /\ UNCHANGED <<shared, closed, clientVars, workerVars, tables, now>>

ClockTick ==
    /\ now < MaxTime
    /\ now' = now + 1
    /\ UNCHANGED <<shared, clientVars, workerVars, tables, closeVars>>

WorkerStep == Receive \/ Wake \/ TakeUsed \/ WriteBatch \/ WriteFails

Next ==
    \/ \E c \in Callers : \/ BeginAddLog(c) \/ BeginMarkUsed(c)
                          \/ Check(c) \/ AddLog(c)
                          \/ \E a \in Accounts : MarkUsed(c, a)
    \/ WorkerStep
    \/ StartClose \/ CloseQueue \/ FinishClose
    \/ ClockTick

Spec == Init /\ [][Next]_vars

-----------------------------------------------------------------------------
(* Properties. *)

\* Nobody sends on a closed channel (which would panic) or notes a timestamp
\* that no flush will take: who passed the test of logClosed is waited for.
NoUseAfterClose == \A c \in Callers : pc[c] = "checked" => ~closed

\* The writer implements LogOutbox: order, all-or-nothing batches, and every
\* accepted entry is pending, stored or counted.
Outbox == INSTANCE LogOutbox WITH
    Entries <- Entry,
    pending <- batch \o queue,
    status <- IF closer = "closed" THEN "closed" ELSE IF closed THEN "closing" ELSE "open"
OutboxSpec == Outbox!OutboxSpec

\* When Close returns, nothing is left in memory, and it reports an error
\* exactly if some write failed; if none did, every noted time is stored.
CloseDrains ==
    closer = "closed" =>
        /\ queue = <<>> /\ batch = <<>> /\ used = Nothing
        /\ report = failed
        /\ ~failed => lastUsed = noted

\* Timestamps are not lost silently: as long as no write failed the newest time
\* that MarkUsed noted is stored or on its way, also between two flushes.
TimesAreOnTheWay ==
    ~failed => \A a \in Accounts : noted[a] \in {used[a], taken[a], lastUsed[a]}
=============================================================================
