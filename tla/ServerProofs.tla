---------------------------- MODULE ServerProofs ----------------------------
(***************************************************************************)
(* Proofs about LogWriter and about the process around it (Server), for    *)
(* any number of callers, accounts, requests, importers, tokens and        *)
(* workers, and every size of the queue, the batch and the channels.       *)
(* Nothing has to be finite: only finitely many requests are inside and    *)
(* finitely many rows inserted.                                            *)
(***************************************************************************)
EXTENDS Server, SequenceTheorems, FiniteSetTheorems, TLAPS

-----------------------------------------------------------------------------
(* The writer of the log. *)

\* The worker fills its batch only below the limit.
Room == worker = "select" => Len(batch) < BatchSize

\* The channel is closed by Close, and the flush after that is the last.
Phases ==
    /\ closed <=> closer \in {"draining", "closed"}
    /\ final => closed /\ queue = <<>>
    /\ closer = "closed" => worker = "exited" /\ report = failed

\* What the worker holds in each of its places.
Hands ==
    /\ worker # "write" => taken = Nothing
    /\ final /\ worker \in {"write", "exited"} => used = Nothing
    /\ worker = "exited" => final /\ batch = <<>>

\* No time is newer than the newest that was noted.
Order ==
    \A a \in Accounts : /\ used[a] <= noted[a]
                        /\ taken[a] <= noted[a]
                        /\ lastUsed[a] <= noted[a]
                        /\ noted[a] <= now

WriterInv == /\ TypeOK /\ Room /\ Phases /\ Hands /\ Order
             /\ NoUseAfterClose /\ TimesAreOnTheWay

LEMMA InitWriterInv == Init => WriterInv
<1> SUFFICES ASSUME Init PROVE WriterInv OBVIOUS
<1> USE WriterAssumption DEF Init
<1>1. TypeOK /\ Room
  <2>1. <<>> \in Seq(Entry) /\ Len(<<>>) = 0 OBVIOUS
  <2>2. Nothing \in Times BY DEF Nothing, Times
  <2>3. /\ pc \in [Callers -> {"idle", "locked", "checked"}]
        /\ entry \in [Callers -> 0 .. MaxEntries]
      OBVIOUS
  <2>4. 0 \in 0 .. MaxEntries /\ 1 \in 1 .. MaxTime /\ 0 \in Nat OBVIOUS
  <2>5. Len(queue) <= QueueSize /\ Len(batch) < BatchSize BY <2>1
  <2>6. {failed, closed, final, report} \subseteq BOOLEAN OBVIOUS
  <2> QED BY <2>1, <2>2, <2>3, <2>4, <2>5, <2>6 DEF TypeOK, Room
<1>2. Phases /\ Hands BY DEF Phases, Hands
<1>3. Order /\ TimesAreOnTheWay BY DEF Order, TimesAreOnTheWay, Nothing
<1>4. NoUseAfterClose BY DEF NoUseAfterClose
<1> QED BY <1>1, <1>2, <1>3, <1>4 DEF WriterInv

LEMMA BeginKeeps ==
    ASSUME WriterInv, NEW c \in Callers, BeginAddLog(c) \/ BeginMarkUsed(c)
    PROVE  WriterInv'
<1> USE WriterAssumption
        DEF WriterInv, BeginAddLog, BeginMarkUsed, RLock, shared, workerVars,
            tables, closeVars
<1>1. TypeOK' /\ Room'
  <2>0. /\ entry \in [Callers -> 0 .. MaxEntries] /\ issued \in 0 .. MaxEntries
        /\ pc \in [Callers -> {"idle", "locked", "checked"}]
      BY DEF TypeOK
  <2>1. entry' \in [Callers -> 0 .. MaxEntries] BY <2>0
  <2>2. pc' \in [Callers -> {"idle", "locked", "checked"}] BY <2>0
  <2>3. issued' \in 0 .. MaxEntries BY <2>0
  <2> QED BY <2>1, <2>2, <2>3, SMTT(30) DEF TypeOK, Room
<1>2. Phases' /\ Hands' BY DEF Phases, Hands
<1>3. Order' /\ TimesAreOnTheWay' BY DEF Order, TimesAreOnTheWay
<1>4. NoUseAfterClose' BY DEF NoUseAfterClose, TypeOK
<1> QED BY <1>1, <1>2, <1>3, <1>4

LEMMA CheckKeeps ==
    ASSUME WriterInv, NEW c \in Callers, Check(c) PROVE WriterInv'
<1> USE WriterAssumption
        DEF WriterInv, Check, RUnlock, shared, workerVars, tables, closeVars
<1>1. TypeOK' /\ Room'
  <2>0. /\ entry \in [Callers -> 0 .. MaxEntries] /\ issued \in 0 .. MaxEntries
        /\ pc \in [Callers -> {"idle", "locked", "checked"}]
      BY DEF TypeOK
  <2>1. entry' \in [Callers -> 0 .. MaxEntries] BY <2>0
  <2>2. pc' \in [Callers -> {"idle", "locked", "checked"}] BY <2>0
  <2>3. issued' \in 0 .. MaxEntries BY <2>0
  <2> QED BY <2>1, <2>2, <2>3 DEF TypeOK, Room
<1>2. Phases' /\ Hands' BY DEF Phases, Hands
<1>3. Order' /\ TimesAreOnTheWay' BY DEF Order, TimesAreOnTheWay
<1>4. NoUseAfterClose' BY DEF NoUseAfterClose, TypeOK
<1> QED BY <1>1, <1>2, <1>3, <1>4

\* The queue grows while the channel is open, so that it stays empty after the
\* last flush.
LEMMA AddLogKeeps ==
    ASSUME WriterInv, NEW c \in Callers, AddLog(c) PROVE WriterInv'
<1> USE WriterAssumption
        DEF WriterInv, AddLog, HasRoom, RUnlock, workerVars, tables, closeVars
<1>1. TypeOK' /\ Room'
  <2>1. entry[c] \in Entry BY DEF TypeOK, Entry
  <2>a. queue \in Seq(Entry) /\ Len(queue) <= QueueSize BY DEF TypeOK
  <2>b. ASSUME Len(queue) < QueueSize, queue' = Append(queue, entry[c])
        PROVE  queue' \in Seq(Entry) /\ Len(queue') <= QueueSize
    <3>1. queue' \in Seq(Entry) /\ Len(queue') = Len(queue) + 1 BY <2>1, <2>a, <2>b
    <3> QED BY <2>a, <2>b, <3>1
  <2>2. queue' \in Seq(Entry) /\ Len(queue') <= QueueSize BY <2>a, <2>b
  <2>3. entry' \in [Callers -> 0 .. MaxEntries] BY DEF TypeOK
  <2>4. pc' \in [Callers -> {"idle", "locked", "checked"}] BY DEF TypeOK
  <2>5. dropped' \in Nat BY DEF TypeOK
  <2> QED BY <2>2, <2>3, <2>4, <2>5 DEF TypeOK, Room
<1>2. ~closed BY DEF NoUseAfterClose
<1>3. Phases' /\ Hands' BY <1>2 DEF Phases, Hands
<1>4. Order' /\ TimesAreOnTheWay' BY DEF Order, TimesAreOnTheWay
<1>5. NoUseAfterClose' BY <1>2 DEF NoUseAfterClose
<1> QED BY <1>1, <1>3, <1>4, <1>5

\* So do the times.
LEMMA MarkUsedKeeps ==
    ASSUME WriterInv, NEW c \in Callers, NEW a \in Accounts, MarkUsed(c, a)
    PROVE  WriterInv'
<1> USE WriterAssumption
        DEF WriterInv, MarkUsed, RUnlock, workerVars, tables, closeVars
<1>0. \/ used' = used /\ noted' = noted
      \/ used' = [used EXCEPT ![a] = now] /\ noted' = [noted EXCEPT ![a] = now]
    OBVIOUS
<1>a. now \in 1 .. MaxTime /\ now' = now /\ used \in Times /\ noted \in Times
    BY DEF TypeOK
<1>1. TypeOK' /\ Room'
  <2>1. entry' \in [Callers -> 0 .. MaxEntries] BY DEF TypeOK
  <2>2. pc' \in [Callers -> {"idle", "locked", "checked"}] BY DEF TypeOK
  <2>3. used' \in Times /\ noted' \in Times BY <1>0, <1>a DEF Times
  <2> QED BY <2>1, <2>2, <2>3 DEF TypeOK, Room
<1>2. ~closed BY DEF NoUseAfterClose
<1>3. Phases' /\ Hands' BY <1>2 DEF Phases, Hands
<1>4. Order' /\ TimesAreOnTheWay'
  <2> SUFFICES ASSUME NEW b \in Accounts
               PROVE  /\ used'[b] <= noted'[b]
                      /\ taken'[b] <= noted'[b]
                      /\ lastUsed'[b] <= noted'[b]
                      /\ noted'[b] <= now'
                      /\ ~failed' => noted'[b] \in {used'[b], taken'[b], lastUsed'[b]}
      BY DEF Order, TimesAreOnTheWay
  <2>1. /\ used[b] <= noted[b] /\ taken[b] <= noted[b]
        /\ lastUsed[b] <= noted[b] /\ noted[b] <= now
        /\ {used[b], taken[b], lastUsed[b], noted[b]} \subseteq Nat
        /\ ~failed => noted[b] \in {used[b], taken[b], lastUsed[b]}
      BY DEF Order, TypeOK, Times, TimesAreOnTheWay
  <2>2. \/ used'[b] = used[b] /\ noted'[b] = noted[b]
        \/ used'[b] = now /\ noted'[b] = now
      BY <1>0, <1>a DEF Times
  <2>3. taken' = taken /\ lastUsed' = lastUsed /\ failed' = failed OBVIOUS
  <2> QED BY <1>a, <2>1, <2>2, <2>3
<1>5. NoUseAfterClose' BY <1>2 DEF NoUseAfterClose
<1> QED BY <1>1, <1>3, <1>4, <1>5

LEMMA ReceiveKeeps == ASSUME WriterInv, Receive PROVE WriterInv'
<1> USE WriterAssumption DEF WriterInv, Receive, clientVars, tables, closeVars
<1>1. /\ queue \in Seq(Entry) /\ queue # <<>> /\ batch \in Seq(Entry)
      /\ Len(batch) < BatchSize
    BY DEF TypeOK, Room
<1>2. /\ batch' \in Seq(Entry) /\ Len(batch') = Len(batch) + 1
      /\ queue' \in Seq(Entry) /\ Len(queue') = Len(queue) - 1
    BY <1>1
<1>3. TypeOK' /\ Room' BY <1>1, <1>2 DEF TypeOK, Room, Times, Full
<1>4. Phases' /\ Hands' BY <1>1 DEF Phases, Hands
<1>5. Order' /\ TimesAreOnTheWay' BY DEF Order, TimesAreOnTheWay
<1>6. NoUseAfterClose' BY DEF NoUseAfterClose
<1> QED BY <1>3, <1>4, <1>5, <1>6

LEMMA WakeKeeps == ASSUME WriterInv, Wake PROVE WriterInv'
<1> USE WriterAssumption DEF WriterInv, Wake, shared, clientVars, tables, closeVars
<1>1. TypeOK' /\ Room' BY DEF TypeOK, Room, Times
<1>2. Phases' /\ Hands' BY DEF Phases, Hands, TypeOK
<1>3. Order' /\ TimesAreOnTheWay' BY DEF Order, TimesAreOnTheWay
<1>4. NoUseAfterClose' BY DEF NoUseAfterClose
<1> QED BY <1>1, <1>2, <1>3, <1>4

LEMMA TakeUsedKeeps == ASSUME WriterInv, TakeUsed PROVE WriterInv'
<1> USE WriterAssumption DEF WriterInv, TakeUsed, clientVars, tables, closeVars
<1>0. taken = Nothing /\ Nothing \in Times BY DEF Hands, Nothing, Times
<1>1. TypeOK' BY <1>0 DEF TypeOK, Times, AfterFlush
<1>2. Room' BY DEF Room, AfterFlush, Idle
<1>3. Phases' BY DEF Phases
<1>4. Hands' BY DEF Hands, AfterFlush, Idle
<1>5. Order' BY <1>0 DEF Order, TypeOK, Times, Nothing
<1>6. TimesAreOnTheWay'
  <2> SUFFICES ASSUME ~failed', NEW a \in Accounts
               PROVE  noted'[a] \in {used'[a], taken'[a], lastUsed'[a]}
      BY DEF TimesAreOnTheWay
  <2>1. noted[a] \in {used[a], 0, lastUsed[a]}
      BY <1>0 DEF TimesAreOnTheWay, Nothing
  <2>2. lastUsed[a] \in Nat /\ lastUsed[a] <= noted[a]
      BY DEF Order, TypeOK, Times
  <2> QED BY <2>1, <2>2
<1>7. NoUseAfterClose' BY DEF NoUseAfterClose
<1> QED BY <1>1, <1>2, <1>3, <1>4, <1>5, <1>6, <1>7

LEMMA WriteReturnsKeeps ==
    ASSUME WriterInv, WriteReturns,
           \/ WriteBatch
           \/ WriteFails
    PROVE  WriterInv'
<1> USE WriterAssumption DEF WriterInv, WriteReturns, clientVars, closeVars
<1>0. Nothing \in Times BY DEF Nothing, Times
<1>1. TypeOK'
  <2>1. batch' \in Seq(Entry) /\ Len(batch') = 0 OBVIOUS
  <2>2. CASE WriteBatch
    <3>1. stored' \in Seq(Entry) BY <2>2 DEF WriteBatch, TypeOK
    <3>2. lastUsed' \in Times BY <2>2 DEF WriteBatch, TypeOK, Times
    <3> QED BY <1>0, <2>1, <2>2, <3>1, <3>2 DEF WriteBatch, TypeOK, AfterFlush
  <2>3. CASE WriteFails
    <3>1. dropped' \in Nat BY <2>3 DEF WriteFails, Lost, TypeOK
    <3> QED BY <1>0, <2>1, <2>3, <3>1 DEF WriteFails, tables, TypeOK, AfterFlush
  <2> QED BY <2>2, <2>3
<1>2. Room' BY DEF Room
<1>3. Phases' BY DEF Phases, WriteBatch, WriteFails, Hands
<1>4. Hands' BY DEF Hands, AfterFlush
<1>5. Order' /\ TimesAreOnTheWay'
  <2>1. ASSUME NEW a \in Accounts
        PROVE  /\ {used[a], taken[a], lastUsed[a], noted[a]} \subseteq Nat
               /\ used[a] <= noted[a] /\ taken[a] <= noted[a]
               /\ lastUsed[a] <= noted[a] /\ noted[a] <= now
               /\ taken'[a] = 0
      BY DEF Order, TypeOK, Times, Nothing
  <2>2. CASE WriteBatch
    <3>1. ASSUME NEW a \in Accounts
          PROVE  lastUsed'[a] = IF taken[a] > lastUsed[a] THEN taken[a] ELSE lastUsed[a]
        BY <2>2 DEF WriteBatch
    <3>2. Order' BY <2>1, <2>2, <3>1 DEF Order, WriteBatch
    <3>3. TimesAreOnTheWay'
        BY <2>1, <2>2, <3>1 DEF TimesAreOnTheWay, WriteBatch
    <3> QED BY <3>2, <3>3
  <2>3. CASE WriteFails
    <3>1. Order' BY <2>1, <2>3 DEF Order, WriteFails, tables
    <3>2. TimesAreOnTheWay' BY <2>3 DEF TimesAreOnTheWay, WriteFails
    <3> QED BY <3>1, <3>2
  <2> QED BY <2>2, <2>3
<1>6. NoUseAfterClose' BY DEF NoUseAfterClose
<1> QED BY <1>1, <1>2, <1>3, <1>4, <1>5, <1>6

\* Whoever passed the test of logClosed is gone when the channel is closed.
LEMMA CloseKeeps ==
    ASSUME WriterInv, StartClose \/ CloseQueue \/ FinishClose PROVE WriterInv'
<1> USE WriterAssumption
        DEF WriterInv, StartClose, CloseQueue, FinishClose, shared, clientVars,
            workerVars, tables
<1>1. TypeOK' /\ Room' BY DEF TypeOK, Room, Times
<1>2. Phases' BY DEF Phases
<1>3. Hands' BY DEF Hands
<1>4. Order' /\ TimesAreOnTheWay' BY DEF Order, TimesAreOnTheWay
<1>5. NoUseAfterClose' BY DEF NoUseAfterClose, NobodyInside
<1> QED BY <1>1, <1>2, <1>3, <1>4, <1>5

LEMMA ClockKeeps == ASSUME WriterInv, ClockTick \/ UNCHANGED vars PROVE WriterInv'
<1> USE WriterAssumption
        DEF WriterInv, ClockTick, vars, shared, clientVars, workerVars, tables, closeVars
<1>1. TypeOK' /\ Room' BY DEF TypeOK, Room, Times
<1>2. Phases' /\ Hands' BY DEF Phases, Hands
<1>3. Order' BY DEF Order, TypeOK, Times
<1>4. TimesAreOnTheWay' /\ NoUseAfterClose' BY DEF TimesAreOnTheWay, NoUseAfterClose
<1> QED BY <1>1, <1>2, <1>3, <1>4

LEMMA NextKeeps == WriterInv /\ [Next]_vars => WriterInv'
<1> SUFFICES ASSUME WriterInv, [Next]_vars PROVE WriterInv' OBVIOUS
<1>1. CASE \E c \in Callers : BeginAddLog(c) \/ BeginMarkUsed(c) BY <1>1, BeginKeeps
<1>2. CASE \E c \in Callers : Check(c) BY <1>2, CheckKeeps
<1>3. CASE \E c \in Callers : AddLog(c) BY <1>3, AddLogKeeps
<1>4. CASE \E c \in Callers, a \in Accounts : MarkUsed(c, a) BY <1>4, MarkUsedKeeps
<1>5. CASE Receive BY <1>5, ReceiveKeeps
<1>6. CASE Wake BY <1>6, WakeKeeps
<1>7. CASE TakeUsed BY <1>7, TakeUsedKeeps
<1>8. CASE WriteBatch \/ WriteFails
    BY <1>8, WriteReturnsKeeps DEF WriteBatch, WriteFails
<1>9. CASE StartClose \/ CloseQueue \/ FinishClose BY <1>9, CloseKeeps
<1>10. CASE ClockTick \/ UNCHANGED vars BY <1>10, ClockKeeps
<1> QED BY <1>1, <1>2, <1>3, <1>4, <1>5, <1>6, <1>7, <1>8, <1>9, <1>10
        DEF Next, WorkerStep

\* The inductive invariant of the writer.
THEOREM WriterInvariant == Spec => []WriterInv
<1> QED BY InitWriterInv, NextKeeps, PTL DEF Spec

\* Type correctness: in particular queue and batch keep their bounds.
THEOREM WriterTypeOK == Spec => []TypeOK
<1>1. WriterInv => TypeOK BY DEF WriterInv
<1> QED BY <1>1, WriterInvariant, PTL

\* AddLog never sends on the closed channel, and MarkUsed notes nothing that no
\* flush will take.
THEOREM NobodyUsesAfterClose == Spec => []NoUseAfterClose
<1>1. WriterInv => NoUseAfterClose BY DEF WriterInv
<1> QED BY <1>1, WriterInvariant, PTL

\* A noted time is in memory or in the table as long as no write failed.
THEOREM TimesAreKept == Spec => []TimesAreOnTheWay
<1>1. WriterInv => TimesAreOnTheWay BY DEF WriterInv
<1> QED BY <1>1, WriterInvariant, PTL

\* Close leaves nothing in memory and reports failed writes.
THEOREM CloseLeavesNothing == Spec => []CloseDrains
<1>1. WriterInv => CloseDrains
  <2> SUFFICES ASSUME WriterInv, closer = "closed"
               PROVE  /\ queue = <<>> /\ batch = <<>> /\ used = Nothing
                      /\ report = failed
                      /\ ~failed => lastUsed = noted
      BY DEF CloseDrains
  <2>1. /\ worker = "exited" /\ report = failed /\ final /\ queue = <<>>
        /\ batch = <<>> /\ used = Nothing /\ taken = Nothing
      BY DEF WriterInv, Phases, Hands
  <2>2. ASSUME ~failed PROVE lastUsed = noted
    <3>1. ASSUME NEW a \in Accounts PROVE lastUsed[a] = noted[a]
      <4>1. noted[a] \in {0, lastUsed[a]}
          BY <2>1, <2>2 DEF WriterInv, TimesAreOnTheWay, Nothing
      <4>2. lastUsed[a] \in Nat /\ lastUsed[a] <= noted[a]
          BY DEF WriterInv, Order, TypeOK, Times
      <4> QED BY <4>1, <4>2
    <3>2. lastUsed \in Times /\ noted \in Times BY DEF WriterInv, TypeOK
    <3> QED BY <3>1, <3>2 DEF Times
  <2> QED BY <2>1, <2>2
<1> QED BY <1>1, WriterInvariant, PTL

-----------------------------------------------------------------------------
(* The refinement of LogOutbox: pending entries are those of the batch,    *)
(* followed by those of the queue.                                         *)

LEMMA AppendRight ==
    ASSUME NEW S, NEW b \in Seq(S), NEW q \in Seq(S), NEW e \in S
    PROVE  b \o Append(q, e) = Append(b \o q, e)
<1>1. /\ Len(b \o Append(q, e)) = Len(b) + Len(q) + 1
      /\ Len(Append(b \o q, e)) = Len(b) + Len(q) + 1
    OBVIOUS
<1>2. \A i \in 1 .. Len(b) + Len(q) + 1 :
          (b \o Append(q, e))[i] = Append(b \o q, e)[i]
    OBVIOUS
<1> QED BY <1>1, <1>2, SeqEqual

LEMMA MoveHead ==
    ASSUME NEW S, NEW b \in Seq(S), NEW q \in Seq(S), q # <<>>
    PROVE  Append(b, Head(q)) \o Tail(q) = b \o q
<1>1. Len(Append(b, Head(q)) \o Tail(q)) = Len(b \o q) OBVIOUS
<1>2. \A i \in 1 .. Len(b \o q) : (Append(b, Head(q)) \o Tail(q))[i] = (b \o q)[i]
    OBVIOUS
<1> QED BY <1>1, <1>2, SeqEqual

LEMMA Parts ==
    ASSUME NEW S, NEW b \in Seq(S), NEW q \in Seq(S)
    PROVE  /\ SubSeq(b \o q, 1, Len(b)) = b
           /\ SubSeq(b \o q, Len(b) + 1, Len(b \o q)) = q
           /\ Len(b) > 0 => Len(b) \in 1 .. Len(b \o q)
           /\ Len(b) = 0 => b \o q = q
<1>0. b \o q \in Seq(S) /\ Len(b \o q) = Len(b) + Len(q) OBVIOUS
<1>1. SubSeq(b \o q, 1, Len(b)) = b
  <2>1. Len(SubSeq(b \o q, 1, Len(b))) = Len(b) BY <1>0
  <2>2. \A i \in 1 .. Len(b) : SubSeq(b \o q, 1, Len(b))[i] = b[i] BY <1>0
  <2> QED BY <1>0, <2>1, <2>2, SeqEqual
<1>2. SubSeq(b \o q, Len(b) + 1, Len(b \o q)) = q
  <2> DEFINE s == SubSeq(b \o q, Len(b) + 1, Len(b \o q))
  <2>1. s \in Seq(S) /\ Len(s) = Len(q) BY <1>0
  <2>2. \A i \in 1 .. Len(q) : s[i] = q[i] BY <1>0
  <2> QED BY <2>1, <2>2, SeqEqual
<1>3. Len(b) > 0 => Len(b) \in 1 .. Len(b \o q) BY <1>0
<1>4. Len(b) = 0 => b \o q = q OBVIOUS
<1> QED BY <1>1, <1>2, <1>3, <1>4

\* A step of the writer is a step of the outbox or leaves it alone.
LEMMA StepRefines ==
    WriterInv /\ [Next]_vars => [Outbox!OutboxNext]_Outbox!outboxVars
<1> SUFFICES ASSUME WriterInv, [Next]_vars
             PROVE  Outbox!OutboxNext \/ UNCHANGED Outbox!outboxVars
    OBVIOUS
<1> DEFINE Pend == batch \o queue
           Status == IF closer = "closed" THEN "closed"
                     ELSE IF closed THEN "closing" ELSE "open"
<1>0. /\ batch \in Seq(Entry) /\ queue \in Seq(Entry) /\ stored \in Seq(Entry)
      /\ dropped \in Nat
    BY DEF WriterInv, TypeOK
<1>a. ASSUME Pend' = Pend, stored' = stored, dropped' = dropped, Status' = Status
      PROVE  UNCHANGED Outbox!outboxVars
    BY <1>a DEF Outbox!outboxVars
<1>1. CASE \E c \in Callers : AddLog(c)
  <2> PICK c \in Callers : AddLog(c) BY <1>1
  <2>1. entry[c] \in Entry BY DEF WriterInv, TypeOK, Entry, AddLog
  <2>2. ~closed /\ closer # "closed"
      BY DEF WriterInv, NoUseAfterClose, Phases, AddLog
  <2>3. Status = "open" /\ Status' = "open" BY <2>2 DEF AddLog, closeVars
  <2>4. batch' = batch /\ stored' = stored BY DEF AddLog, workerVars, tables
  <2>5. CASE queue' = Append(queue, entry[c]) /\ dropped' = dropped
    <3>1. Pend' = Append(Pend, entry[c]) BY <1>0, <2>1, <2>4, <2>5, AppendRight
    <3>2. Outbox!Accept(entry[c]) BY <2>3, <2>4, <2>5, <3>1 DEF Outbox!Accept
    <3> QED BY <2>1, <3>2 DEF Outbox!OutboxNext
  <2>6. CASE queue' = queue /\ dropped' = dropped + 1
    <3>1. Outbox!Refuse BY <2>3, <2>4, <2>6 DEF Outbox!Refuse
    <3> QED BY <3>1 DEF Outbox!OutboxNext
  <2> QED BY <2>5, <2>6 DEF AddLog, HasRoom
<1>2. CASE Receive
  <2>1. Pend' = Pend BY <1>0, <1>2, MoveHead DEF Receive
  <2> QED BY <1>2, <1>a, <2>1 DEF Receive, tables, closeVars
<1>3. CASE WriteBatch \/ WriteFails
  <2> DEFINE n == Len(batch)
  <2>1. batch' = <<>> /\ queue' = queue /\ Pend' = queue /\ Status' = Status
      BY <1>0, <1>3 DEF WriteBatch, WriteFails, WriteReturns, closeVars
  <2>2. /\ SubSeq(Pend, 1, n) = batch /\ SubSeq(Pend, n + 1, Len(Pend)) = queue
        /\ n > 0 => n \in 1 .. Len(Pend)
        /\ n = 0 => Pend = queue
    <3>1. SubSeq(batch \o queue, 1, Len(batch)) = batch BY <1>0, Parts
    <3>2. SubSeq(batch \o queue, Len(batch) + 1, Len(batch \o queue)) = queue
        BY <1>0, Parts
    <3>3. Len(batch) > 0 => Len(batch) \in 1 .. Len(batch \o queue) BY <1>0
    <3>4. Len(batch) = 0 => batch \o queue = queue BY <1>0
    <3> QED BY <3>1, <3>2, <3>3, <3>4
  <2>3. CASE n = 0
    <3>1. batch = <<>> BY <1>0, <2>3
    <3>2. stored \o batch = stored /\ dropped + n = dropped BY <1>0, <2>3, <3>1
    <3>3. stored' = stored /\ dropped' = dropped
        BY <1>3, <3>2 DEF WriteBatch, WriteFails, Lost, tables
    <3> QED BY <1>a, <2>1, <2>2, <2>3, <3>3
  <2>4. CASE n > 0
    <3>1. CASE WriteBatch
      <4>1. Outbox!Store(n)
          BY <2>1, <2>2, <3>1 DEF WriteBatch, Outbox!Store, Outbox!Leave, Outbox!Batch
      <4> QED BY <2>2, <2>4, <4>1 DEF Outbox!OutboxNext
    <3>2. CASE WriteFails
      <4>1. Outbox!Lose(n)
          BY <2>1, <2>2, <3>2 DEF WriteFails, Lost, tables, Outbox!Lose, Outbox!Leave
      <4> QED BY <2>2, <2>4, <4>1 DEF Outbox!OutboxNext
    <3> QED BY <1>3, <3>1, <3>2
  <2>5. n \in Nat BY <1>0
  <2> QED BY <2>3, <2>4, <2>5
<1>4. CASE CloseQueue
  <2>1. Status = "open" /\ Status' = "closing"
      BY <1>4 DEF CloseQueue, WriterInv, Phases
  <2>2. Outbox!Shut
      BY <1>4, <2>1 DEF CloseQueue, Outbox!Shut, shared, workerVars, tables
  <2> QED BY <2>2 DEF Outbox!OutboxNext
<1>5. CASE FinishClose
  <2>1. closed /\ batch = <<>> /\ queue = <<>>
      BY <1>5 DEF FinishClose, WriterInv, Phases, Hands
  <2>2. Status = "closing" /\ Status' = "closed" /\ Pend = <<>>
      BY <1>5, <2>1 DEF FinishClose
  <2>3. Outbox!Shut
      BY <1>5, <2>2 DEF FinishClose, Outbox!Shut, shared, workerVars, tables
  <2> QED BY <2>3 DEF Outbox!OutboxNext
<1>6. CASE \E c \in Callers : \/ BeginAddLog(c) \/ BeginMarkUsed(c) \/ Check(c)
                               \/ \E a \in Accounts : MarkUsed(c, a)
  <2>1. UNCHANGED <<batch, queue, stored, dropped, closer, closed>>
      BY <1>6 DEF BeginAddLog, BeginMarkUsed, RLock, Check, MarkUsed, shared,
                  workerVars, tables, closeVars
  <2> QED BY <1>a, <2>1
<1>7. CASE Wake \/ TakeUsed \/ StartClose \/ ClockTick \/ UNCHANGED vars
  <2>1. UNCHANGED <<batch, queue, stored, dropped, closed>>
      BY <1>7 DEF Wake, TakeUsed, StartClose, ClockTick, vars, shared, workerVars,
                  tables, closeVars
  <2>2. CASE StartClose
    <3>1. Status' = Status BY <2>1, <2>2 DEF StartClose
    <3> QED BY <1>a, <2>1, <3>1
  <2>3. CASE Wake \/ TakeUsed \/ ClockTick \/ UNCHANGED vars
    <3>1. closer' = closer BY <2>3 DEF Wake, TakeUsed, ClockTick, vars, closeVars
    <3> QED BY <1>a, <2>1, <3>1
  <2> QED BY <1>7, <2>2, <2>3
<1> QED BY <1>1, <1>2, <1>3, <1>4, <1>5, <1>6, <1>7 DEF Next, WorkerStep

\* The writer implements LogOutbox: entries are stored in the order in which they
\* were accepted, batches are stored or lost as a whole, losses are counted.
THEOREM WriterImplementsOutbox == Spec => OutboxSpec
<1>1. Init => Outbox!OutboxInit BY DEF Init, Outbox!OutboxInit
<1> QED BY <1>1, StepRefines, WriterInvariant, PTL DEF Spec, OutboxSpec, Outbox!OutboxSpec

-----------------------------------------------------------------------------
(* The store in the process around it. *)

\* What importing a token leaves alone.
LEMMA ImportTouches ==
    ASSUME NEW i \in Importers, Import(i) PROVE UNCHANGED <<vars, runtime, requests, refresher, health>>
<1>1. PICK t \in Pasted[i] :
        \/ StartToken(i, t) \/ SkipRest(i, t) \/ HydrateFails(i, t) \/ InsertAccount(i, t)
        \/ Mark(i, t) \/ Enqueue(i, t) \/ GiveUp(i, t)
  BY DEF Import
<1>2. \E from, to : Moves(i, t, from, to)
  BY <1>1 DEF StartToken, SkipRest, HydrateFails, InsertAccount, Mark, Enqueue, GiveUp
<1> QED BY <1>2 DEF Moves

LEMMA StepOfWriter == [ServerNext]_all => [Next]_vars
<1> SUFFICES ASSUME [ServerNext]_all PROVE Next \/ UNCHANGED vars OBVIOUS
<1>1. CASE UNCHANGED all BY <1>1 DEF all
<1>2. ASSUME NEW c \in Callers, Request(c) PROVE Next \/ UNCHANGED vars
  <2>1. CASE Admit(c) \/ Reject(c) \/ Leave(c) BY <2>1 DEF Admit, Reject, Leave
  <2>2. CASE Acquires(c) BY <2>2 DEF Acquires, Next
  <2>3. CASE Logs(c) BY <2>3 DEF Logs, Next
  <2>4. CASE Check(c) \/ AddLog(c) \/ \E a \in Accounts : MarkUsed(c, a) BY <2>4 DEF Next
  <2> QED BY <1>2, <2>1, <2>2, <2>3, <2>4 DEF Request
<1>3. CASE \E i \in Importers : Import(i) BY <1>3, ImportTouches
<1>4. CASE \E w \in Workers : Refresher(w)
  BY <1>4 DEF Refresher, StartRefresh, EndRefresh, WorkerExits, Works
<1>5. CASE HealthLoopExits \/ Run \/ Stop
  BY <1>5 DEF HealthLoopExits, Run, Stop, ShutdownReturns, ShutdownTimesOut, StopMaintenance, PoolIsClosed
<1>6. CASE CloseStore BY <1>6 DEF CloseStore, Next
<1>7. CASE StoreWorks BY <1>7 DEF StoreWorks, Next
<1>8. CASE \E c \in Callers : Arrive(c) BY <1>8 DEF Arrive
<1>9. CASE \E i \in Importers : ImporterLeaves(i) BY <1>9 DEF ImporterLeaves
<1> QED BY <1>1, <1>2, <1>3, <1>4, <1>5, <1>6, <1>7, <1>8, <1>9 DEF ServerNext, Progress

\* Whatever the process does around it, the writer of the store goes on as
\* LogWriter says: only the handlers, the worker and the deferred st.Close touch
\* its state.
THEOREM ServerRunsTheWriter == ServerSpec => Spec
<1>1. ServerInit => Init BY DEF ServerInit
<1> QED BY <1>1, StepOfWriter, PTL DEF ServerSpec, Spec

\* Entries of the log are stored in order or counted as lost, also while the
\* process shuts down.
THEOREM ServerImplementsOutbox == ServerSpec => OutboxSpec
<1> QED BY ServerRunsTheWriter, WriterImplementsOutbox, PTL

\* A request that outlives a shutdown that timed out does not send on the closed
\* channel either.
THEOREM ServerUsesNothingClosed == ServerSpec => []NoUseAfterClose
<1> QED BY ServerRunsTheWriter, NobodyUsesAfterClose, PTL

\* The deferred st.Close leaves nothing in memory, wherever the requests are.
THEOREM ServerDrainsTheStore == ServerSpec => []CloseDrains
<1> QED BY ServerRunsTheWriter, CloseLeavesNothing, PTL

-----------------------------------------------------------------------------
(* What the process counts. *)

Places == {"outside", "waiting", "admitted", "acquired", "logged", "gone"}
Inside == {c \in Callers : At(c, {"admitted", "acquired", "logged"})}
Waiting == {c \in Callers : At(c, {"waiting"})}

\* Each place in a channel belongs to one request.
RequestInv ==
    /\ place \in [Callers -> Places]
    /\ IsFiniteSet(Inside) /\ admission = Cardinality(Inside)
    /\ IsFiniteSet(Waiting) /\ pending = admission + Cardinality(Waiting)
    /\ admission <= MaxConcurrent

State(k) == item[k[1]][k[2]]
ItemStates == {"todo", "skipped", "left out", "hydrating", "failed",
               "imported", "marked", "enqueued", "given up"}

ItemsTyped ==
    /\ item = [i \in Importers |-> item[i]]
    /\ \A i \in Importers : item[i] \in [Pasted[i] -> ItemStates]

\* Rows and imported tokens grow together.
RowsInv ==
    /\ IsFiniteSet(rows) /\ IsFiniteSet(Imported)
    /\ Cardinality(rows) = Cardinality(Imported)

\* A mark is where its refresh is: at the importer, in the queue, or at a worker,
\* and in one of them only.
MarkedAreQueued == \A a \in Items : State(a) = "marked" => a \in queued
QueuedAreSomewhere ==
    \A a \in queued : \/ State(a) = "marked"
                      \/ \E n \in DOMAIN refreshQueue : refreshQueue[n] = a
                      \/ \E w \in Workers : refresher[w] = a
InQueueOnce ==
    \A n \in DOMAIN refreshQueue :
        /\ refreshQueue[n] \in queued /\ State(refreshQueue[n]) = "enqueued"
        /\ \A w \in Workers : refresher[w] # refreshQueue[n]
        /\ \A m \in DOMAIN refreshQueue : refreshQueue[n] = refreshQueue[m] => n = m
AtWorkerOnce ==
    \A w \in Workers : refresher[w] \in Items =>
        /\ refresher[w] \in queued /\ State(refresher[w]) = "enqueued"
        /\ \A v \in Workers : refresher[v] = refresher[w] => v = w
RefreshInv ==
    /\ refreshQueue \in Seq(Items) /\ queued \subseteq Items
    /\ refresher \in [Workers -> Items \cup {Ready, Exited}]
    /\ MarkedAreQueued /\ QueuedAreSomewhere /\ InQueueOnce /\ AtWorkerOnce

\* How far the shutdown is.
ShutdownInv ==
    /\ process \in {"serving", "shutdown", "forced", "maintenance", "close", "store", "ended"}
    /\ process \in {"close", "store", "ended"} => ~maintenance
    /\ process \in {"store", "ended"} => BackgroundEnded
    /\ closer # "idle" => process \in {"store", "ended"}

ServerInv == RequestInv /\ ItemsTyped /\ RowsInv /\ RefreshInv /\ ShutdownInv

-----------------------------------------------------------------------------
(* Requests. *)

\* A request that goes from one place to another enters and leaves the two sets.
LEMMA PlaceLemma ==
    ASSUME RequestInv, NEW c \in Callers, NEW p \in Places,
           place' = [place EXCEPT ![c] = p]
    PROVE  /\ place' \in [Callers -> Places]
           /\ IsFiniteSet(Inside') /\ IsFiniteSet(Waiting')
           /\ Inside' = IF p \in {"admitted", "acquired", "logged"}
                        THEN Inside \cup {c} ELSE Inside \ {c}
           /\ Waiting' = IF p = "waiting" THEN Waiting \cup {c} ELSE Waiting \ {c}
           /\ c \in Inside <=> place[c] \in {"admitted", "acquired", "logged"}
           /\ c \in Waiting <=> place[c] = "waiting"
           /\ Cardinality(Inside) \in Nat /\ Cardinality(Waiting) \in Nat
<1>1. place' \in [Callers -> Places] BY DEF RequestInv
<1>2. /\ c \in Inside <=> place[c] \in {"admitted", "acquired", "logged"}
      /\ c \in Waiting <=> place[c] = "waiting"
  BY DEF Inside, Waiting, At
<1>3. Inside' = IF p \in {"admitted", "acquired", "logged"} THEN Inside \cup {c} ELSE Inside \ {c}
  BY DEF RequestInv, Inside, At
<1>4. Waiting' = IF p = "waiting" THEN Waiting \cup {c} ELSE Waiting \ {c}
  BY DEF RequestInv, Waiting, At
<1>5. IsFiniteSet(Inside) /\ IsFiniteSet(Waiting) BY DEF RequestInv
<1>6. IsFiniteSet(Inside') BY <1>3, <1>5, FS_AddElement, FS_RemoveElement
<1>7. IsFiniteSet(Waiting') BY <1>4, <1>5, FS_AddElement, FS_RemoveElement
<1>8. Cardinality(Inside) \in Nat /\ Cardinality(Waiting) \in Nat BY <1>5, FS_CardinalityType
<1> QED BY <1>1, <1>2, <1>3, <1>4, <1>6, <1>7, <1>8

LEMMA RequestStep ==
    ASSUME ServerInv, [ServerNext]_all PROVE RequestInv'
<1> USE ServerAssumption
<1>0. RequestInv /\ MaxConcurrent \in Nat BY DEF ServerInv
<1>1. CASE UNCHANGED requests
  BY <1>0, <1>1 DEF RequestInv, requests, Inside, Waiting, At
<1> DEFINE In(p) == IF p \in {"admitted", "acquired", "logged"} THEN 1 ELSE 0
           On(p) == IF p \in {"waiting", "admitted", "acquired", "logged"} THEN 1 ELSE 0
<1>2. ASSUME NEW c \in Callers, NEW p \in Places, place' = [place EXCEPT ![c] = p],
             admission' = admission + In(p) - In(place[c]),
             pending' = pending + On(p) - On(place[c]),
             admission' <= MaxConcurrent
      PROVE  RequestInv'
  <2>1. /\ place' \in [Callers -> Places] /\ IsFiniteSet(Inside') /\ IsFiniteSet(Waiting')
        /\ Inside' = IF p \in {"admitted", "acquired", "logged"}
                     THEN Inside \cup {c} ELSE Inside \ {c}
        /\ Waiting' = IF p = "waiting" THEN Waiting \cup {c} ELSE Waiting \ {c}
        /\ c \in Inside <=> place[c] \in {"admitted", "acquired", "logged"}
        /\ c \in Waiting <=> place[c] = "waiting"
        /\ Cardinality(Inside) \in Nat /\ Cardinality(Waiting) \in Nat
    BY <1>0, <1>2, PlaceLemma
  <2>2. IsFiniteSet(Inside) /\ IsFiniteSet(Waiting) BY <1>0 DEF RequestInv
  <2>3. Cardinality(Inside') = Cardinality(Inside) + In(p) - In(place[c])
    <3>1. /\ c \in Inside => Cardinality(Inside \cup {c}) = Cardinality(Inside)
          /\ c \notin Inside => Cardinality(Inside \cup {c}) = Cardinality(Inside) + 1
          /\ c \in Inside => Cardinality(Inside \ {c}) = Cardinality(Inside) - 1
          /\ c \notin Inside => Cardinality(Inside \ {c}) = Cardinality(Inside)
      BY <2>2, FS_AddElement, FS_RemoveElement
    <3> QED BY <2>1, <3>1
  <2>w. /\ On(p) - In(p) = IF p = "waiting" THEN 1 ELSE 0
        /\ On(place[c]) - In(place[c]) = IF place[c] = "waiting" THEN 1 ELSE 0
    OBVIOUS
  <2>4. Cardinality(Waiting') = Cardinality(Waiting) + (On(p) - In(p)) - (On(place[c]) - In(place[c]))
    <3> HIDE DEF In, On
    <3>1. /\ c \in Waiting => Cardinality(Waiting \cup {c}) = Cardinality(Waiting)
          /\ c \notin Waiting => Cardinality(Waiting \cup {c}) = Cardinality(Waiting) + 1
          /\ c \in Waiting => Cardinality(Waiting \ {c}) = Cardinality(Waiting) - 1
          /\ c \notin Waiting => Cardinality(Waiting \ {c}) = Cardinality(Waiting)
      BY <2>2, FS_AddElement, FS_RemoveElement
    <3> QED BY <2>1, <2>w, <3>1
  <2>5. In(p) \in {0, 1} /\ On(p) \in {0, 1} /\ In(place[c]) \in {0, 1} /\ On(place[c]) \in {0, 1}
    OBVIOUS
  <2>6. admission = Cardinality(Inside) /\ pending = admission + Cardinality(Waiting)
    BY <1>0 DEF RequestInv
  <2> HIDE DEF In, On
  <2>7. admission' = Cardinality(Inside') /\ pending' = admission' + Cardinality(Waiting')
    BY <1>2, <2>1, <2>3, <2>4, <2>5, <2>6
  <2> QED BY <1>2, <2>1, <2>7 DEF RequestInv
<1>a. admission \in Nat /\ pending \in Nat /\ admission <= MaxConcurrent
  BY <1>0, FS_CardinalityType DEF RequestInv
<1>3. ASSUME NEW c \in Callers, Arrive(c) PROVE RequestInv'
  <2>1. PICK p \in {"waiting", "gone"} :
           /\ place[c] = "outside" /\ place' = [place EXCEPT ![c] = p]
           /\ admission' = admission
           /\ pending' = IF p = "waiting" THEN pending + 1 ELSE pending
    BY <1>3 DEF Arrive
  <2>2. In(p) = 0 /\ In(place[c]) = 0 /\ On(place[c]) = 0 /\ On(p) = (IF p = "waiting" THEN 1 ELSE 0)
    BY <2>1
  <2>3. p \in Places BY DEF Places
  <2> HIDE DEF In, On
  <2>4. /\ admission' = admission + In(p) - In(place[c])
        /\ pending' = pending + On(p) - On(place[c])
        /\ admission' <= MaxConcurrent
    BY <1>a, <2>1, <2>2
  <2> QED BY <1>2, <2>1, <2>3, <2>4
<1>4. ASSUME NEW c \in Callers, Request(c) PROVE RequestInv'
  <2>1. CASE Admit(c)
    <3>1. In("admitted") = 1 /\ On("admitted") = 1 /\ In(place[c]) = 0 /\ On(place[c]) = 1
      BY <2>1 DEF Admit
    <3> HIDE DEF In, On
    <3>2. /\ place' = [place EXCEPT ![c] = "admitted"]
          /\ admission' = admission + In("admitted") - In(place[c])
          /\ pending' = pending + On("admitted") - On(place[c])
          /\ admission' <= MaxConcurrent
      BY <1>0, <1>a, <2>1, <3>1 DEF Admit
    <3> QED BY <1>2, <3>2 DEF Places
  <2>2. CASE Reject(c)
    <3>1. In("gone") = 0 /\ On("gone") = 0 /\ In(place[c]) = 0 /\ On(place[c]) = 1
      BY <2>2 DEF Reject
    <3> HIDE DEF In, On
    <3>2. /\ place' = [place EXCEPT ![c] = "gone"]
          /\ admission' = admission + In("gone") - In(place[c])
          /\ pending' = pending + On("gone") - On(place[c])
          /\ admission' <= MaxConcurrent
      BY <1>a, <2>2, <3>1 DEF Reject
    <3> QED BY <1>2, <3>2 DEF Places
  <2>3. CASE Acquires(c) \/ Logs(c)
    <3>1. PICK p \in {"acquired", "logged"} :
             /\ place[c] \in {"admitted", "acquired"} /\ place' = [place EXCEPT ![c] = p]
             /\ admission' = admission /\ pending' = pending
      BY <2>3 DEF Acquires, Logs
    <3>2. In(p) = 1 /\ On(p) = 1 /\ In(place[c]) = 1 /\ On(place[c]) = 1 /\ p \in Places
      BY <3>1 DEF Places
    <3> HIDE DEF In, On
    <3>3. /\ admission' = admission + In(p) - In(place[c])
          /\ pending' = pending + On(p) - On(place[c])
          /\ admission' <= MaxConcurrent
      BY <1>a, <3>1, <3>2
    <3> QED BY <1>2, <3>1, <3>2, <3>3
  <2>4. CASE Leave(c)
    <3>1. In("gone") = 0 /\ On("gone") = 0 /\ In(place[c]) = 1 /\ On(place[c]) = 1
      BY <2>4 DEF Leave
    <3> HIDE DEF In, On
    <3>2. /\ place' = [place EXCEPT ![c] = "gone"]
          /\ admission' = admission + In("gone") - In(place[c])
          /\ pending' = pending + On("gone") - On(place[c])
          /\ admission' <= MaxConcurrent
      BY <1>0, <1>a, <2>4, <3>1 DEF Leave, PendingLeft
    <3> QED BY <1>2, <3>2 DEF Places
  <2>5. CASE UNCHANGED server BY <1>1, <2>5 DEF server
  <2> QED BY <1>4, <2>1, <2>2, <2>3, <2>4, <2>5 DEF Request
<1>5. CASE \E i \in Importers : Import(i) BY <1>1, <1>5, ImportTouches
<1>6. CASE \E w \in Workers : Refresher(w)
  BY <1>1, <1>6 DEF Refresher, StartRefresh, EndRefresh, WorkerExits, Works
<1>7. CASE HealthLoopExits \/ Run \/ Stop \/ CloseStore
  BY <1>1, <1>7 DEF HealthLoopExits, Run, Stop, ShutdownReturns, ShutdownTimesOut, StopMaintenance,
                    PoolIsClosed, Proceed, CloseStore, server
<1>8. CASE StoreWorks BY <1>1, <1>8 DEF StoreWorks, server
<1>9. CASE \E i \in Importers : ImporterLeaves(i) BY <1>1, <1>9 DEF ImporterLeaves
<1>10. CASE UNCHANGED all BY <1>1, <1>10 DEF all, server
<1> QED BY <1>3, <1>4, <1>5, <1>6, <1>7, <1>8, <1>9, <1>10 DEF ServerNext, Progress

-----------------------------------------------------------------------------
(* Imports. *)

\* One token of one importer takes a step.
LEMMA ItemLemma ==
    ASSUME ItemsTyped, NEW i \in Importers, NEW t \in Pasted[i], NEW to \in ItemStates,
           item' = [item EXCEPT ![i][t] = to]
    PROVE  /\ ItemsTyped'
           /\ <<i, t>> \in Items
           /\ \A k \in Items : State(k)' = IF k = <<i, t>> THEN to ELSE State(k)
<1>1. ItemsTyped' BY DEF ItemsTyped
<1>2. <<i, t>> \in Items BY DEF Items, Tokens
<1>3. ASSUME NEW k \in Items PROVE State(k)' = IF k = <<i, t>> THEN to ELSE State(k)
  <2>1. k = <<k[1], k[2]>> /\ k[1] \in Importers /\ k[2] \in Pasted[k[1]] BY DEF Items
  <2>2. item[k[1]] \in [Pasted[k[1]] -> ItemStates] /\ DOMAIN item = Importers BY <2>1 DEF ItemsTyped
  <2>3. CASE k[1] = i
    <3>1. item'[i] = [item[i] EXCEPT ![t] = to] BY <2>2, <2>3
    <3> QED BY <2>1, <2>2, <2>3, <3>1 DEF State
  <2>4. CASE k[1] # i BY <2>1, <2>2, <2>4 DEF State
  <2> QED BY <2>3, <2>4
<1> QED BY <1>1, <1>2, <1>3

\* What an import changes: one item, and what depends on where it was.
LEMMA ImportLemma ==
    ASSUME ItemsTyped, NEW i \in Importers, Import(i)
    PROVE  \E t \in Pasted[i], to \in ItemStates :
             LET a == <<i, t>>
             IN  /\ item' = [item EXCEPT ![i][t] = to]
                 /\ UNCHANGED <<vars, runtime, requests, refresher, refreshed, health>>
                 /\ \/ /\ State(a) \in {"todo", "hydrating"} /\ to \in {"skipped", "left out", "hydrating", "failed"}
                       /\ UNCHANGED <<rows, refreshQueue, queued>>
                    \/ /\ State(a) = "hydrating" /\ to = IF t \in rows THEN "skipped" ELSE "imported"
                       /\ rows' = rows \cup {t} /\ UNCHANGED <<refreshQueue, queued>>
                    \/ /\ State(a) = "imported" /\ to = IF a \in queued THEN "enqueued" ELSE "marked"
                       /\ queued' = queued \cup {a} /\ UNCHANGED <<rows, refreshQueue>>
                    \/ /\ State(a) = "marked" /\ to = "enqueued"
                       /\ refreshQueue' = Append(refreshQueue, a) /\ UNCHANGED <<rows, queued>>
                    \/ /\ State(a) = "marked" /\ to = "given up"
                       /\ queued' = queued \ {a} /\ UNCHANGED <<rows, refreshQueue>>
                    \/ /\ State(a) = "imported" /\ to = "given up"
                       /\ UNCHANGED <<rows, refreshQueue, queued>>
<1> USE DEF Moves, State, ItemStates
<1> PICK t \in Pasted[i] :
        \/ StartToken(i, t) \/ SkipRest(i, t) \/ HydrateFails(i, t) \/ InsertAccount(i, t)
        \/ Mark(i, t) \/ Enqueue(i, t) \/ GiveUp(i, t)
  BY DEF Import
<1>1. CASE StartToken(i, t) BY <1>1 DEF StartToken
<1>2. CASE SkipRest(i, t) BY <1>2 DEF SkipRest
<1>3. CASE HydrateFails(i, t) BY <1>3 DEF HydrateFails
<1>4. CASE InsertAccount(i, t) BY <1>4 DEF InsertAccount
<1>5. CASE Mark(i, t) BY <1>5 DEF Mark, Account
<1>6. CASE Enqueue(i, t) BY <1>6 DEF Enqueue, Account
<1>7. CASE GiveUp(i, t) BY <1>7 DEF GiveUp, Account
<1> QED BY <1>1, <1>2, <1>3, <1>4, <1>5, <1>6, <1>7

\* The steps that leave imports and their refreshes alone.
LEMMA OtherSteps ==
    ASSUME ServerInv, [ServerNext]_all, ~\E i \in Importers : Import(i),
           ~\E w \in Workers : Refresher(w)
    PROVE  UNCHANGED <<item, rows, refreshQueue, queued, refresher>>
<1> USE DEF imports, background
<1>1. ASSUME NEW c \in Callers, Request(c) \/ Arrive(c) PROVE UNCHANGED <<item, rows, refreshQueue, queued, refresher>>
  BY <1>1 DEF Request, Admit, Reject, Acquires, Logs, Leave, Arrive, server
<1>2. CASE HealthLoopExits BY <1>2 DEF HealthLoopExits
<1>3. CASE Run \/ Stop
  BY <1>3 DEF Run, Stop, ShutdownReturns, ShutdownTimesOut, StopMaintenance, PoolIsClosed, Proceed
<1>4. CASE CloseStore \/ StoreWorks BY <1>4 DEF CloseStore, StoreWorks, server
<1>5. CASE \E i \in Importers : ImporterLeaves(i) BY <1>5 DEF ImporterLeaves
<1>6. CASE UNCHANGED all BY <1>6 DEF all, server
<1> QED BY <1>1, <1>2, <1>3, <1>4, <1>5, <1>6 DEF ServerNext, Progress

LEMMA ItemStep == ASSUME ServerInv, [ServerNext]_all PROVE ItemsTyped'
<1>0. ItemsTyped BY DEF ServerInv
<1>1. ASSUME NEW i \in Importers, Import(i) PROVE ItemsTyped'
  <2> PICK t \in Pasted[i], to \in ItemStates : item' = [item EXCEPT ![i][t] = to]
    BY <1>0, <1>1, ImportLemma
  <2> QED BY <1>0, ItemLemma
<1>2. CASE item' = item BY <1>0, <1>2 DEF ItemsTyped
<1>3. CASE \E w \in Workers : Refresher(w)
  BY <1>2, <1>3 DEF Refresher, StartRefresh, EndRefresh, WorkerExits, Works, imports
<1> QED BY <1>1, <1>2, <1>3, OtherSteps

\* An import adds a row exactly if it counts one more account.
LEMMA RowsStep == ASSUME ServerInv, [ServerNext]_all PROVE RowsInv'
<1>0. ItemsTyped /\ RowsInv BY DEF ServerInv
<1> DEFINE own == {"imported", "marked", "enqueued", "given up"}
<1>a. Imported = {k \in Items : State(k) \in own} BY DEF Imported, State
<1>b. Imported' = {k \in Items : State(k)' \in own} BY DEF Imported, State, Items, Tokens
<1>1. ASSUME NEW i \in Importers, Import(i) PROVE RowsInv'
  <2> DEFINE a(t) == <<i, t>>
  <2> PICK t \in Pasted[i], to \in ItemStates :
          /\ item' = [item EXCEPT ![i][t] = to]
          /\ \/ rows' = rows /\ (State(a(t)) \in own <=> to \in own)
             \/ /\ State(a(t)) = "hydrating" /\ rows' = rows \cup {t}
                /\ to = IF t \in rows THEN "skipped" ELSE "imported"
    BY <1>0, <1>1, ImportLemma, ZenonT(60)
  <2>1. /\ <<i, t>> \in Items
        /\ \A k \in Items : State(k)' = IF k = <<i, t>> THEN to ELSE State(k)
    BY <1>0, ItemLemma
  <2>2. CASE rows' = rows /\ (State(<<i, t>>) \in own <=> to \in own)
    <3>1. Imported' = Imported BY <1>a, <1>b, <2>1, <2>2
    <3> QED BY <1>0, <2>2, <3>1 DEF RowsInv
  <2>3. CASE t \in rows /\ State(<<i, t>>) = "hydrating" /\ rows' = rows \cup {t} /\ to = "skipped"
    <3>1. Imported' = Imported BY <1>a, <1>b, <2>1, <2>3
    <3>2. rows' = rows BY <2>3
    <3> QED BY <1>0, <3>1, <3>2 DEF RowsInv
  <2>4. CASE t \notin rows /\ State(<<i, t>>) = "hydrating" /\ rows' = rows \cup {t} /\ to = "imported"
    <3>1. Imported' = Imported \cup {<<i, t>>} /\ <<i, t>> \notin Imported BY <1>a, <1>b, <2>1, <2>4
    <3>2. /\ IsFiniteSet(rows) /\ IsFiniteSet(Imported) /\ Cardinality(rows) = Cardinality(Imported)
      BY <1>0 DEF RowsInv
    <3>3. /\ IsFiniteSet(rows \cup {t}) /\ Cardinality(rows \cup {t}) = Cardinality(rows) + 1
      BY <2>4, <3>2, FS_AddElement
    <3>4. /\ IsFiniteSet(Imported \cup {<<i, t>>})
          /\ Cardinality(Imported \cup {<<i, t>>}) = Cardinality(Imported) + 1
      BY <3>1, <3>2, FS_AddElement
    <3> HIDE DEF own
    <3> QED BY <2>4, <3>1, <3>2, <3>3, <3>4 DEF RowsInv
  <2> QED BY <2>2, <2>3, <2>4
<1>2. CASE UNCHANGED <<item, rows>> BY <1>0, <1>2 DEF RowsInv, Imported, Items
<1>3. CASE \E w \in Workers : Refresher(w)
  BY <1>2, <1>3 DEF Refresher, StartRefresh, EndRefresh, WorkerExits, Works, imports
<1> QED BY <1>1, <1>2, <1>3, OtherSteps

-----------------------------------------------------------------------------
(* Refreshes. *)

LEMMA ImportRefreshStep ==
    ASSUME ServerInv, NEW i \in Importers, Import(i) PROVE RefreshInv'
<1>0. ItemsTyped /\ RefreshInv BY DEF ServerInv
<1>1. PICK t \in Pasted[i], to \in ItemStates :
         LET a == <<i, t>>
         IN  /\ item' = [item EXCEPT ![i][t] = to]
             /\ refresher' = refresher
             /\ \/ /\ State(a) \in {"todo", "hydrating"} /\ to \notin {"marked", "enqueued"}
                   /\ UNCHANGED <<refreshQueue, queued>>
                \/ /\ State(a) = "imported" /\ to = IF a \in queued THEN "enqueued" ELSE "marked"
                   /\ queued' = queued \cup {a} /\ refreshQueue' = refreshQueue
                \/ /\ State(a) = "marked" /\ to = "enqueued"
                   /\ refreshQueue' = Append(refreshQueue, a) /\ queued' = queued
                \/ /\ State(a) = "marked" /\ to = "given up"
                   /\ queued' = queued \ {a} /\ refreshQueue' = refreshQueue
                \/ /\ State(a) = "imported" /\ to = "given up"
                   /\ UNCHANGED <<refreshQueue, queued>>
  BY <1>0, ImportLemma, ZenonT(60)
<1> DEFINE a == <<i, t>>
<1>2. /\ a \in Items
      /\ \A k \in Items : State(k)' = IF k = a THEN to ELSE State(k)
  BY <1>0, <1>1, ItemLemma
<1>3. Items' = Items BY DEF Items, Tokens
<1>4. State(a) # "enqueued" =>
        /\ \A n \in DOMAIN refreshQueue : refreshQueue[n] # a
        /\ \A w \in Workers : refresher[w] # a
  BY <1>0, <1>2 DEF RefreshInv, InQueueOnce, AtWorkerOnce
<1>5. State(a) \notin {"marked", "enqueued"} => a \notin queued
  BY <1>0, <1>2, <1>4 DEF RefreshInv, QueuedAreSomewhere
<1> HIDE DEF a
<1>6. CASE UNCHANGED <<refreshQueue, queued>> /\ State(a) \notin {"marked", "enqueued"} /\ to # "marked"
  BY <1>0, <1>1, <1>2, <1>3, <1>4, <1>5, <1>6 DEF RefreshInv, MarkedAreQueued, QueuedAreSomewhere, InQueueOnce, AtWorkerOnce
<1>7. CASE /\ State(a) = "imported" /\ to = "marked" /\ queued' = queued \cup {a}
           /\ refreshQueue' = refreshQueue
  BY <1>0, <1>1, <1>2, <1>3, <1>4, <1>5, <1>7 DEF RefreshInv, MarkedAreQueued, QueuedAreSomewhere, InQueueOnce, AtWorkerOnce
<1>8. CASE State(a) = "marked" /\ to = "given up" /\ queued' = queued \ {a} /\ refreshQueue' = refreshQueue
  BY <1>0, <1>1, <1>2, <1>3, <1>4, <1>5, <1>8 DEF RefreshInv, MarkedAreQueued, QueuedAreSomewhere, InQueueOnce, AtWorkerOnce
<1>9. CASE /\ State(a) = "marked" /\ to = "enqueued" /\ queued' = queued
           /\ refreshQueue' = Append(refreshQueue, a)
  <2>1. refreshQueue \in Seq(Items) BY <1>0 DEF RefreshInv
  <2>2. /\ refreshQueue' \in Seq(Items) /\ Len(refreshQueue') = Len(refreshQueue) + 1
        /\ DOMAIN refreshQueue = 1..Len(refreshQueue)
        /\ DOMAIN refreshQueue' = 1..Len(refreshQueue) + 1
        /\ \A n \in DOMAIN refreshQueue : refreshQueue'[n] = refreshQueue[n]
        /\ refreshQueue'[Len(refreshQueue) + 1] = a
    BY <1>2, <1>9, <2>1
  <2>3. /\ MarkedAreQueued /\ QueuedAreSomewhere /\ InQueueOnce /\ AtWorkerOnce
        /\ queued \subseteq Items /\ refresher \in [Workers -> Items \cup {Ready, Exited}]
    BY <1>0 DEF RefreshInv
  <2>4. MarkedAreQueued' BY <1>2, <1>3, <1>9, <2>3 DEF MarkedAreQueued
  <2>5. QueuedAreSomewhere'
    <3> SUFFICES ASSUME NEW b \in queued
                 PROVE  \/ State(b)' = "marked"
                        \/ \E n \in DOMAIN refreshQueue' : refreshQueue'[n] = b
                        \/ \E w \in Workers : refresher'[w] = b
      BY <1>9 DEF QueuedAreSomewhere
    <3>1. CASE b = a
      <4>1. Len(refreshQueue) + 1 \in DOMAIN refreshQueue' BY <2>1, <2>2
      <4> QED BY <2>2, <3>1, <4>1
    <3>2. CASE b # a
      <4>1. \A n \in DOMAIN refreshQueue : n \in DOMAIN refreshQueue' BY <2>1, <2>2
      <4> QED BY <1>1, <1>2, <2>2, <2>3, <3>2, <4>1 DEF QueuedAreSomewhere
    <3> QED BY <3>1, <3>2
  <2>6. InQueueOnce'
    <3>1. ASSUME NEW n \in DOMAIN refreshQueue'
          PROVE  \/ n \in DOMAIN refreshQueue /\ refreshQueue'[n] = refreshQueue[n] /\ refreshQueue[n] # a
                 \/ n \notin DOMAIN refreshQueue /\ n = Len(refreshQueue) + 1 /\ refreshQueue'[n] = a
      BY <1>4, <1>9, <2>1, <2>2
    <3>2. \A n \in DOMAIN refreshQueue : refreshQueue[n] \in Items BY <2>1
    <3>3. a \in queued BY <1>2, <1>9, <2>3 DEF MarkedAreQueued
    <3> QED BY <1>1, <1>2, <1>4, <1>9, <2>3, <3>1, <3>2, <3>3 DEF InQueueOnce
  <2>7. AtWorkerOnce' BY <1>1, <1>2, <1>3, <1>4, <1>9, <2>3 DEF AtWorkerOnce
  <2> QED BY <1>1, <1>3, <1>9, <2>2, <2>3, <2>4, <2>5, <2>6, <2>7 DEF RefreshInv
<1> QED BY <1>1, <1>5, <1>6, <1>7, <1>8, <1>9 DEF a

LEMMA WorkerRefreshStep ==
    ASSUME ServerInv, NEW w \in Workers, Refresher(w) PROVE RefreshInv'
<1>0. RefreshInv /\ Ready \notin Items /\ Exited \notin Items
  BY DEF ServerInv, Items, Ready, Exited
<1>a. item' = item
  BY DEF Refresher, StartRefresh, EndRefresh, WorkerExits, Works, imports
<1>1. Items' = Items /\ \A k : State(k)' = State(k) BY <1>a DEF Items, Tokens, State
<1>2. CASE StartRefresh(w)
  <2>1. refreshQueue \in Seq(Items) /\ refreshQueue # <<>> BY <1>0, <1>2 DEF RefreshInv, StartRefresh
  <2>2. /\ refreshQueue' \in Seq(Items) /\ refreshQueue[1] \in Items
        /\ DOMAIN refreshQueue = 1..Len(refreshQueue) /\ 1 \in DOMAIN refreshQueue
        /\ DOMAIN refreshQueue' = 1..(Len(refreshQueue) - 1)
        /\ \A n \in DOMAIN refreshQueue' : refreshQueue'[n] = refreshQueue[n + 1]
        /\ Len(refreshQueue) \in Nat
    BY <1>2, <2>1 DEF StartRefresh
  <2>3. /\ refresher[w] = Ready /\ queued' = queued
        /\ refresher' = [refresher EXCEPT ![w] = refreshQueue[1]]
    BY <1>2, <2>1 DEF StartRefresh, Works
  <2>4. \A n \in DOMAIN refreshQueue : n = 1 \/ (n - 1 \in DOMAIN refreshQueue' /\ refreshQueue'[n - 1] = refreshQueue[n])
    BY <2>2
  <2>5. \A n \in DOMAIN refreshQueue' : n + 1 \in DOMAIN refreshQueue /\ n + 1 # 1 BY <2>2
  <2> DEFINE h == refreshQueue[1]
  <2>a. /\ MarkedAreQueued /\ QueuedAreSomewhere /\ InQueueOnce /\ AtWorkerOnce
        /\ queued \subseteq Items /\ refresher \in [Workers -> Items \cup {Ready, Exited}]
    BY <1>0 DEF RefreshInv
  <2>6. /\ h \in queued /\ State(h) = "enqueued" /\ \A v \in Workers : refresher[v] # h
        /\ \A n \in DOMAIN refreshQueue' : refreshQueue'[n] # h
    BY <2>2, <2>5, <2>a DEF InQueueOnce
  <2>7. /\ \A v \in Workers : refresher'[v] = IF v = w THEN h ELSE refresher[v]
        /\ refresher' \in [Workers -> Items \cup {Ready, Exited}]
    BY <2>a, <2>2, <2>3
  <2>8. QueuedAreSomewhere'
    <3> SUFFICES ASSUME NEW b \in queued, State(b) # "marked"
                 PROVE  \/ \E n \in DOMAIN refreshQueue' : refreshQueue'[n] = b
                        \/ \E v \in Workers : refresher'[v] = b
      BY <1>1, <2>3 DEF QueuedAreSomewhere
    <3>0. b \in Items BY <2>a
    <3>1. CASE \E n \in DOMAIN refreshQueue : refreshQueue[n] = b
      BY <2>4, <2>7, <3>1
    <3>2. CASE \E v \in Workers : refresher[v] = b
      BY <1>0, <2>3, <2>7, <3>0, <3>2
    <3> QED BY <2>a, <3>1, <3>2 DEF QueuedAreSomewhere
  <2>9. InQueueOnce'
    <3> SUFFICES ASSUME NEW n \in DOMAIN refreshQueue', NEW b, b = refreshQueue'[n]
                 PROVE  /\ b \in queued /\ State(b) = "enqueued"
                        /\ \A v \in Workers : refresher'[v] # b
                        /\ \A m \in DOMAIN refreshQueue' : b = refreshQueue'[m] => n = m
      BY <1>a, <2>3 DEF InQueueOnce, State
    <3>1. n + 1 \in DOMAIN refreshQueue /\ b = refreshQueue[n + 1] BY <2>2, <2>5
    <3>2. b \in queued /\ State(b) = "enqueued" /\ \A v \in Workers : refresher[v] # b
      BY <2>a, <3>1 DEF InQueueOnce
    <3>3. ASSUME NEW v \in Workers PROVE refresher'[v] # b BY <2>6, <2>7, <3>2
    <3>4. ASSUME NEW m \in DOMAIN refreshQueue', b = refreshQueue'[m] PROVE n = m
      <4>1. m + 1 \in DOMAIN refreshQueue /\ b = refreshQueue[m + 1] BY <2>2, <2>5, <3>4
      <4>2. n + 1 = m + 1 BY <2>a, <3>1, <4>1 DEF InQueueOnce
      <4> QED BY <2>2, <4>2
    <3> QED BY <3>2, <3>3, <3>4
  <2>10. AtWorkerOnce'
    <3> SUFFICES ASSUME NEW v \in Workers, NEW b \in Items, b = refresher'[v]
                 PROVE  /\ b \in queued /\ State(b) = "enqueued"
                        /\ \A u \in Workers : refresher'[u] = b => u = v
      BY <1>1, <1>a, <2>3 DEF AtWorkerOnce, State
    <3>1. CASE v = w
      <4>1. b = h BY <2>7, <3>1
      <4> QED BY <2>6, <2>7, <3>1, <4>1
    <3>2. CASE v # w
      <4>1. b = refresher[v] BY <2>7, <3>2
      <4>2. b \in queued /\ State(b) = "enqueued" BY <2>a, <3>2, <4>1 DEF AtWorkerOnce
      <4> QED BY <2>6, <2>7, <2>a, <4>1, <4>2 DEF AtWorkerOnce
    <3> QED BY <3>1, <3>2
  <2>11. MarkedAreQueued' BY <1>1, <2>3, <2>a DEF MarkedAreQueued
  <2>12. queued' \subseteq Items BY <2>3, <2>a
  <2> QED BY <1>1, <2>2, <2>7, <2>8, <2>9, <2>10, <2>11, <2>12 DEF RefreshInv
<1>3. CASE EndRefresh(w)
  <2>1. /\ refresher[w] \in Items /\ queued' = queued \ {refresher[w]} /\ refreshQueue' = refreshQueue
        /\ refresher' = [refresher EXCEPT ![w] = Ready]
    BY <1>0, <1>3 DEF EndRefresh, RefreshInv
  <2> QED BY <1>0, <1>1, <2>1 DEF RefreshInv, MarkedAreQueued, QueuedAreSomewhere, InQueueOnce, AtWorkerOnce
<1>4. CASE WorkerExits(w)
  <2>1. /\ refresher[w] = Ready /\ UNCHANGED <<queued, refreshQueue>>
        /\ refresher' = [refresher EXCEPT ![w] = Exited]
    BY <1>4 DEF WorkerExits, Works
  <2> QED BY <1>0, <1>1, <2>1 DEF RefreshInv, MarkedAreQueued, QueuedAreSomewhere, InQueueOnce, AtWorkerOnce
<1> QED BY <1>2, <1>3, <1>4 DEF Refresher

LEMMA RefreshStep == ASSUME ServerInv, [ServerNext]_all PROVE RefreshInv'
<1>1. CASE UNCHANGED <<item, refreshQueue, queued, refresher>>
  BY <1>1 DEF ServerInv, RefreshInv, MarkedAreQueued, QueuedAreSomewhere, InQueueOnce, AtWorkerOnce, State, Items, Tokens
<1> QED BY <1>1, OtherSteps, ImportRefreshStep, WorkerRefreshStep

\* Who holds the refresh of an account is known and is one.
LEMMA HoldersLemma ==
    ASSUME RefreshInv, NEW a \in Items
    PROVE  Cardinality(Holders(a)) = IF a \in queued THEN 1 ELSE 0
<1>0. /\ MarkedAreQueued /\ QueuedAreSomewhere /\ InQueueOnce /\ AtWorkerOnce
  BY DEF RefreshInv
<1>1. a = <<a[1], a[2]>> /\ a[1] \in Importers /\ a[2] \in Pasted[a[1]] BY DEF Items
<1>2. ASSUME NEW h \in Holders(a)
      PROVE  \/ h = <<"importer", a[1]>> /\ State(a) = "marked"
             \/ \E n \in DOMAIN refreshQueue : refreshQueue[n] = a /\ h = <<"queue", n>>
             \/ \E w \in Workers : refresher[w] = a /\ h = <<"worker", w>>
  BY <1>1 DEF Holders, Account, State
<1>3. ASSUME NEW h \in Holders(a) PROVE a \in queued
  BY <1>0, <1>2, <1>3 DEF MarkedAreQueued, InQueueOnce, AtWorkerOnce
<1>4. ASSUME NEW h \in Holders(a), NEW g \in Holders(a) PROVE h = g
  <2>1. CASE State(a) = "marked" BY <1>0, <1>2, <2>1 DEF InQueueOnce, AtWorkerOnce
  <2>2. CASE State(a) # "marked"
    <3>1. CASE \E n \in DOMAIN refreshQueue : refreshQueue[n] = a
      BY <1>0, <1>2, <2>2, <3>1 DEF InQueueOnce
    <3>2. CASE ~\E n \in DOMAIN refreshQueue : refreshQueue[n] = a
      BY <1>0, <1>2, <2>2, <3>2 DEF AtWorkerOnce
    <3> QED BY <3>1, <3>2
  <2> QED BY <2>1, <2>2
<1>5. ASSUME a \in queued PROVE Holders(a) # {}
  <2>1. CASE State(a) = "marked"
    <3>1. <<"importer", a[1]>> \in Holders(a) BY <1>1, <2>1 DEF Holders, Account, State
    <3> QED BY <3>1
  <2>2. CASE \E n \in DOMAIN refreshQueue : refreshQueue[n] = a BY <2>2 DEF Holders
  <2>3. CASE \E w \in Workers : refresher[w] = a BY <2>3 DEF Holders
  <2> QED BY <1>0, <1>5, <2>1, <2>2, <2>3 DEF QueuedAreSomewhere
<1>6. CASE a \in queued
  <2>1. PICK h : h \in Holders(a) BY <1>5, <1>6
  <2>2. Holders(a) = {h} BY <1>4, <2>1
  <2> QED BY <1>6, <2>2, FS_Singleton
<1>7. CASE a \notin queued
  <2>1. Holders(a) = {} BY <1>3, <1>7
  <2> QED BY <1>7, <2>1, FS_EmptySet
<1> QED BY <1>6, <1>7

-----------------------------------------------------------------------------
(* The shutdown. *)

\* Once the background of the pool ended, no worker starts again.
LEMMA BackgroundStep ==
    ASSUME ServerInv, [ServerNext]_all, BackgroundEnded PROVE BackgroundEnded'
<1> USE DEF BackgroundEnded, background
<1>1. ASSUME NEW c \in Callers, Request(c) \/ Arrive(c) PROVE UNCHANGED <<health, refresher>>
  BY <1>1 DEF Request, Admit, Reject, Acquires, Logs, Leave, Arrive, server
<1>2. CASE HealthLoopExits BY <1>2 DEF HealthLoopExits
<1>3. CASE Run \/ Stop
  BY <1>3 DEF Run, Stop, ShutdownReturns, ShutdownTimesOut, StopMaintenance, PoolIsClosed, Proceed
<1>4. CASE CloseStore \/ StoreWorks BY <1>4 DEF CloseStore, StoreWorks, server
<1>5. CASE \E i \in Importers : ImporterLeaves(i) BY <1>5 DEF ImporterLeaves
<1>6. CASE UNCHANGED all BY <1>6 DEF all, server
<1>7. CASE \E i \in Importers : Import(i) BY <1>7, ImportTouches
<1>8. ASSUME NEW w \in Workers, Refresher(w) PROVE FALSE
  <2>1. refresher[w] = Exited /\ Exited # Ready BY DEF Ready, Exited
  <2>2. ~StartRefresh(w) /\ ~WorkerExits(w) BY <2>1 DEF StartRefresh, WorkerExits, Works
  <2>3. ~EndRefresh(w) BY <2>1 DEF EndRefresh
  <2> QED BY <1>8, <2>2, <2>3 DEF Refresher
<1> QED BY <1>1, <1>2, <1>3, <1>4, <1>5, <1>6, <1>7, <1>8 DEF ServerNext, Progress

LEMMA ShutdownStep == ASSUME ServerInv, [ServerNext]_all PROVE ShutdownInv'
<1>0. ShutdownInv BY DEF ServerInv
<1>1. BackgroundEnded => BackgroundEnded' BY BackgroundStep
<1>2. CASE UNCHANGED <<process, maintenance, closer>> BY <1>0, <1>1, <1>2 DEF ShutdownInv
<1>3. ASSUME NEW c \in Callers, Request(c) \/ Arrive(c) PROVE UNCHANGED <<process, maintenance, closer>>
  BY <1>3 DEF Request, Admit, Reject, Acquires, Logs, Leave, Arrive, server, runtime, vars, closeVars,
              BeginMarkUsed, BeginAddLog, RLock, Check, AddLog, MarkUsed
<1>4. CASE HealthLoopExits \/ \E i \in Importers : ImporterLeaves(i)
  BY <1>2, <1>4 DEF HealthLoopExits, ImporterLeaves, runtime, vars, closeVars
<1>5. CASE \E i \in Importers : Import(i)
  <2>1. UNCHANGED <<process, maintenance, closer>> BY <1>5, ImportTouches DEF runtime, vars, closeVars
  <2> QED BY <1>2, <2>1
<1>6. CASE \E w \in Workers : Refresher(w)
  <2>1. UNCHANGED <<process, maintenance, closer>>
    BY <1>6 DEF Refresher, StartRefresh, EndRefresh, WorkerExits, Works, runtime, vars, closeVars
  <2> QED BY <1>2, <2>1
<1>7. CASE StoreWorks
  <2>1. UNCHANGED <<process, maintenance, closer>>
    BY <1>7 DEF StoreWorks, WorkerStep, Receive, Wake, TakeUsed, WriteBatch, WriteFails, WriteReturns,
                ClockTick, closeVars, server, runtime
  <2> QED BY <1>2, <2>1
<1>8. CASE Run \/ Stop
  BY <1>0, <1>1, <1>8 DEF Run, Stop, ShutdownReturns, ShutdownTimesOut, StopMaintenance, PoolIsClosed,
                          Proceed, ShutdownInv, vars, closeVars, BackgroundEnded
<1>9. CASE CloseStore
  BY <1>0, <1>1, <1>9 DEF CloseStore, StartClose, CloseQueue, FinishClose, ShutdownInv, server, runtime
<1>10. CASE UNCHANGED all BY <1>2, <1>10 DEF all, server, runtime, vars, closeVars
<1> QED BY <1>2, <1>3, <1>4, <1>5, <1>6, <1>7, <1>8, <1>9, <1>10 DEF ServerNext, Progress

-----------------------------------------------------------------------------
LEMMA InitServerInv == ServerInit => ServerInv
<1> SUFFICES ASSUME ServerInit PROVE ServerInv OBVIOUS
<1> USE ServerAssumption DEF ServerInit
<1>1. RequestInv
  <2>1. Inside = {} /\ Waiting = {} BY DEF Inside, Waiting, At
  <2> QED BY <2>1, FS_EmptySet DEF RequestInv, Places
<1>2. ItemsTyped BY DEF ItemsTyped, ItemStates
<1>3. \A k \in Items : State(k) = "todo" BY DEF State, Items
<1>4. RowsInv
  <2>1. Imported = {} BY <1>3 DEF Imported, State
  <2> QED BY <2>1, FS_EmptySet DEF RowsInv
<1>5. RefreshInv
  <2>1. refreshQueue = <<>> /\ DOMAIN refreshQueue = {} /\ <<>> \in Seq(Items) OBVIOUS
  <2>2. \A w \in Workers : refresher[w] = Ready /\ Ready \notin Items BY DEF Items, Ready
  <2> QED BY <1>3, <2>1, <2>2
      DEF RefreshInv, MarkedAreQueued, QueuedAreSomewhere, InQueueOnce, AtWorkerOnce
<1>6. ShutdownInv BY DEF ShutdownInv, Init
<1> QED BY <1>1, <1>2, <1>4, <1>5, <1>6 DEF ServerInv

\* The inductive invariant of the process.
THEOREM ServerInvariant == ServerSpec => []ServerInv
<1>1. ServerInv /\ [ServerNext]_all => ServerInv'
  BY RequestStep, ItemStep, RowsStep, RefreshStep, ShutdownStep DEF ServerInv
<1> QED BY InitServerInv, <1>1, PTL DEF ServerSpec

\* Places of requests come back once, a mark stands for one refresh on its way,
\* an import counts its own rows, and the background ends before the store is
\* closed, for any number of requests, imports and workers.
THEOREM ServerLeaksNothing == ServerSpec => []NothingIsLeaked
<1>1. ServerInv => NothingIsLeaked
  <2> SUFFICES ASSUME ServerInv PROVE NothingIsLeaked OBVIOUS
  <2> USE DEF ServerInv
  <2>1. \A a \in Items : Cardinality(Holders(a)) = IF a \in queued THEN 1 ELSE 0 BY HoldersLemma
  <2>2. closer # "idle" => ~maintenance /\ BackgroundEnded BY DEF ShutdownInv
  <2>3. /\ admission = Cardinality({c \in Callers : At(c, {"admitted", "acquired", "logged"})})
        /\ pending = admission + Cardinality({c \in Callers : At(c, {"waiting"})})
        /\ admission <= MaxConcurrent
    BY DEF RequestInv, Inside, Waiting
  <2> QED BY <2>1, <2>2, <2>3 DEF NothingIsLeaked, RowsInv
<1> QED BY <1>1, ServerInvariant, PTL
=============================================================================
