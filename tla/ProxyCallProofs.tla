-------------------------- MODULE ProxyCallProofs --------------------------
(***************************************************************************)
(* Proofs about the proxy loop (ProxyLoop), the client below it            *)
(* (CloudCodeClient) and the two together (ProxyCall), for every set of    *)
(* accounts, every number of attempts and endpoints, and every failure the *)
(* upstream may give.                                                      *)
(*                                                                         *)
(* The composition implements the loop: whatever the client does, the loop *)
(* only sees what ProxyLoop allows its upstream to answer, so what is      *)
(* proved about ProxyLoop holds for the composition.  And the loop only    *)
(* uses the client as CloudCodeClient allows, so CallIsFaithful holds too. *)
(***************************************************************************)
EXTENDS ProxyCall, FiniteSetTheorems, TLAPS

-----------------------------------------------------------------------------
(* The loop. *)

\* The accounts this request has been given.
Tried == {a \in Accounts : a \in exclude \/ a = acc}

\* Every attempt that counts brings one new account, and what is remembered
\* per account is remembered for these.
TriedInv ==
    /\ IsFiniteSet(Tried)
    /\ Cardinality(Tried) <= attempts
    /\ attempts <= MaxRetryAttempts
    /\ acc # Nobody => attempts > 0
    /\ pc = "acquire" => attempts < MaxRetryAttempts
    /\ graceUsed \subseteq Tried
    /\ refreshed \subseteq Tried
    /\ (pc \in {"acquire", "pause"} \/ (pc = "loop" /\ ~reuse))
          => acc \in exclude \cup {Nobody}
    /\ pc \in {"build", "upstream", "failed", "refresh", "limit", "decide", "grace",
               "stream", "late"} \/ (pc = "loop" /\ reuse) => acc \in Accounts

One(b) == IF b THEN 1 ELSE 0

\* An upstream attempt is paid for and not made yet.
Due == pc \in {"build", "refresh", "grace"} \/ (pc = "loop" /\ reuse)

\* What the upstream attempts are paid from.
CountInv ==
    totalAttempts + One(Due) <=
        attempts + Cardinality(graceUsed) + Cardinality(refreshed) + One(omitPenalties)

\* What the last status says, while the loop goes on and after it.
StatusInv ==
    /\ pc \in {"loop", "acquire", "build", "upstream", "refresh", "limit", "decide",
               "grace", "pause"} =>
          /\ failure = {} => lastStatus = 0
          /\ \A f \in failure : lastStatus = f.status
    /\ pc = "fail" =>
          \/ lastStatus = 400
          \/ ctx # 0 /\ lastStatus = ctx
          \/ failure = {} /\ lastStatus \in {0, 503}
          \/ \E f \in failure : lastStatus = f.status
    /\ lastStatus = 429 => retryAfter > 0
    /\ pc # "answered" => answer = NoAnswer
    /\ pc \in {"failed", "refresh", "limit", "decide", "grace"} => failure # {}

Scope(f) == IF ModelScoped(f) THEN "model" ELSE "account"

\* The limit is recorded when the loop decides, and after the loop a slot is
\* left only when the context ended.
LimitInv ==
    /\ pc = "decide" => \A f \in failure :
          f.status \in {403, 429} => <<acc, Scope(f)>> \in limited
    /\ pc = "fail" /\ held # Nobody => ctx # 0

ProxyInv == TypeOK /\ TriedInv /\ CountInv /\ SlotFollowsAttempt /\ StatusInv
                   /\ LimitInv /\ AnswerIsHonest

-----------------------------------------------------------------------------
LEMMA CooldownFacts ==
    ASSUME NEW f \in Failures, NEW n \in Nat
    PROVE  /\ Cooldown(f, n) \in Nat
           /\ f.status \in {403, 429} => Cooldown(f, n) > 0
<1>1. f \in Failure BY ProxyAssumption
<1>2. f.status = 429 => Delay(f, n) \in Nat
      BY <1>1 DEF Delay, Failure, Smaller
<1>3. CASE f.status = 429 BY <1>1, <1>2, <1>3 DEF Cooldown, Larger, Failure
<1>4. CASE f.status = 403 BY <1>1, <1>4 DEF Cooldown, Failure
<1>5. CASE f.status \notin {403, 429}
  <2>1. Delay(f, n) \in Nat
    <3>1. CASE f.hinted BY <1>1, <3>1 DEF Delay, Failure
    <3>2. CASE ~f.hinted
      <4> DEFINE e == Smaller(n, 4)
      <4>1. e = 0 \/ e = 1 \/ e = 2 \/ e = 3 \/ e = 4 BY DEF Smaller
      <4>2. /\ 2 ^ 0 \in Nat /\ 2 ^ 1 \in Nat /\ 2 ^ 2 \in Nat
            /\ 2 ^ 3 \in Nat /\ 2 ^ 4 \in Nat
            OBVIOUS
      <4> HIDE DEF e
      <4>3. 2 ^ e \in Nat BY <4>1, <4>2
      <4> QED BY <1>1, <1>5, <3>2, <4>3 DEF Delay, Failure, e
    <3> QED BY <1>1, <3>1, <3>2 DEF Failure
  <2> QED BY <1>1, <1>5, <2>1 DEF Cooldown, Failure, Smaller
<1> QED BY <1>3, <1>4, <1>5

LEMMA InitProxyInv == Init => ProxyInv
<1> SUFFICES ASSUME Init PROVE ProxyInv OBVIOUS
<1> USE ProxyAssumption DEF Init
<1>1. TypeOK
  <2>1. {stream, penalties, reuse, omitPenalties} \subseteq BOOLEAN OBVIOUS
  <2>2. {acc, held} \subseteq Accounts \cup {Nobody} OBVIOUS
  <2>3. {exclude, graceUsed, refreshed, forbidden} \subseteq SUBSET Accounts OBVIOUS
  <2>4. {attempts, totalAttempts, lastStatus, retryAfter} \subseteq Nat OBVIOUS
  <2>5. answer \in [status : Nat, retryAfter : Nat, logged : Nat] BY DEF NoAnswer
  <2> QED BY <2>1, <2>2, <2>3, <2>4, <2>5 DEF TypeOK, Places
<1>2. Tried = {} BY DEF Tried
<1>3. TriedInv BY <1>2, FS_EmptySet DEF TriedInv
<1>4. CountInv
  <2>1. Cardinality(graceUsed) = 0 /\ Cardinality(refreshed) = 0 BY FS_EmptySet
  <2> QED BY <2>1 DEF CountInv, Due, One
<1>5. SlotFollowsAttempt /\ StatusInv /\ LimitInv /\ AnswerIsHonest
  BY DEF SlotFollowsAttempt, StatusInv, LimitInv, AnswerIsHonest, NoAnswer
<1> QED BY <1>1, <1>3, <1>4, <1>5 DEF ProxyInv

\* During an attempt there is an account, and an attempt that counts.
CurrentAccount ==
    /\ attempts \in Nat /\ Cardinality(Tried) \in Nat
    /\ pc \in {"build", "upstream", "failed", "refresh", "limit", "decide", "grace",
               "stream", "late"} \/ (pc = "loop" /\ reuse) =>
          acc \in Accounts /\ acc \in Tried /\ attempts - 1 \in Nat
    /\ pc \in {"acquire", "pause"} \/ (pc = "loop" /\ ~reuse) =>
          Tried = exclude /\ acc \in exclude \cup {Nobody}

LEMMA AccountFacts == ProxyInv => CurrentAccount
<1> SUFFICES ASSUME ProxyInv PROVE CurrentAccount OBVIOUS
<1>0. TypeOK /\ TriedInv BY DEF ProxyInv
<1>1. attempts \in Nat /\ exclude \subseteq Accounts BY <1>0 DEF TypeOK
<1>2. Cardinality(Tried) \in Nat BY <1>0, FS_CardinalityType DEF TriedInv
<1> QED BY <1>0, <1>1, <1>2, ProxyAssumption DEF TriedInv, Tried, CurrentAccount

\* The steps by what they change.  Most leave the accounts and the counts
\* alone and only move the request on.
LEMMA TypeStep == ASSUME ProxyInv, [Next]_vars PROVE TypeOK'
<1>0. TypeOK /\ TriedInv BY DEF ProxyInv
<1>a. CurrentAccount BY AccountFacts
<1> USE <1>0, ProxyAssumption DEF TypeOK, Places, plan, account, memory, counts, status, reports
<1>1. CASE Loop
  <2>1. reuse' \in BOOLEAN BY <1>1 DEF Loop
  <2>2. /\ pc' \in Places /\ {lastStatus', retryAfter'} \subseteq Nat
        /\ UNCHANGED <<ctx, plan, acc, held, failure, memory, counts, reports, answer>>
    BY <1>1 DEF Loop, Goto, ContextFailure
  <2> QED BY <2>1, <2>2
<1>2. CASE \E a \in Accounts : Acquire(a) BY <1>2 DEF Acquire, Goto
<1>3. CASE AcquireFails BY <1>3 DEF AcquireFails, Goto, ContextFailure, Unavailable
<1>4. CASE BuildFails \/ SendUpstream \/ UpstreamSucceeds
  BY <1>4 DEF BuildFails, SendUpstream, UpstreamSucceeds, Goto, Release
<1>5. CASE \E f \in Failures : UpstreamFails(f) BY <1>5 DEF UpstreamFails, Goto
<1>6. CASE FailedByContext \/ WaitCancelled
  BY <1>6 DEF FailedByContext, WaitCancelled, Goto, Release, ContextFailure
<1>7. CASE RefreshToken \/ Elapse
  <2>1. reuse' \in BOOLEAN
    <3>1. CASE RefreshToken BY <3>1 DEF RefreshToken
    <3>2. CASE Elapse
      <4>1. reuse' = (pc = "grace") BY <3>2 DEF Elapse
      <4> QED BY <4>1
    <3> QED BY <1>7, <3>1, <3>2
  <2>2. /\ pc' \in Places
        /\ UNCHANGED <<ctx, plan, acc, held, failure, memory, counts, status, reports,
                       answer>>
    BY <1>7 DEF RefreshToken, Elapse, Goto
  <2> QED BY <2>1, <2>2
<1>8. CASE \E f \in failure : \/ RejectedPenalty(f) \/ Failed(f) \/ MarkLimited(f)
                            \/ Decide(f) \/ LateLimit(f)
  <2> PICK f \in failure : \/ RejectedPenalty(f) \/ Failed(f) \/ MarkLimited(f)
                          \/ Decide(f) \/ LateLimit(f)
      BY <1>8
  <2>1. f \in Failures /\ f.status \in Nat BY DEF Failure
  <2>2. CASE RejectedPenalty(f) BY <2>1, <2>2 DEF RejectedPenalty, Goto
  <2>3. CASE Failed(f)
    <3>1. acc \in Accounts /\ attempts - 1 \in Nat BY <1>a, <2>3 DEF CurrentAccount, Failed
    <3>2. Cooldown(f, attempts - 1) \in Nat BY <2>1, <3>1, CooldownFacts
    <3> QED BY <2>1, <2>3, <3>1, <3>2 DEF Failed, Goto
  <2>4. CASE MarkLimited(f)
    <3>1. acc \in Accounts BY <1>a, <2>4 DEF CurrentAccount, MarkLimited
    <3> QED BY <2>4, <3>1 DEF MarkLimited, Mark, Scopes, Goto
  <2>5. CASE Decide(f)
    <3>1. acc \in Accounts BY <1>a, <2>5 DEF CurrentAccount, Decide
    <3> QED BY <2>5, <3>1 DEF Decide, Release, HeldAfterTry, Goto
  <2>6. CASE LateLimit(f)
    <3>1. acc \in Accounts BY <1>a, <2>6 DEF CurrentAccount, LateLimit
    <3> QED BY <2>1, <2>6, <3>1 DEF LateLimit, Mark, Scopes, Answer, Goto
  <2> QED BY <2>2, <2>3, <2>4, <2>5, <2>6
<1>9. CASE Respond \/ StreamEnds \/ Fail \/ Panic
  BY <1>9 DEF Respond, StreamEnds, Fail, Panic, Release, Clear, Broken, Answer, Goto
<1>10. CASE \E f \in Failures : StreamFails(f) BY <1>10 DEF StreamFails, Release, Goto
<1>11. CASE ContextEnds \/ UNCHANGED vars BY <1>11 DEF ContextEnds, vars
<1> QED
  BY <1>1, <1>2, <1>3, <1>4, <1>5, <1>6, <1>7, <1>8, <1>9, <1>10, <1>11 DEF Next, Step

\* A new account makes one more; giving one up makes none.
LEMMA TriedStep == ASSUME ProxyInv, [Next]_vars PROVE TriedInv'
<1>0. TypeOK /\ TriedInv BY DEF ProxyInv
<1>a. CurrentAccount BY AccountFacts
<1> USE <1>0, ProxyAssumption DEF TypeOK, TriedInv, plan, account, memory, counts, status, reports
<1>1. CASE \E a \in Accounts : Acquire(a)
  <2> PICK a \in Accounts : Acquire(a) BY <1>1
  <2>1. Tried = exclude /\ a \notin exclude BY <1>a DEF CurrentAccount, Acquire
  <2>4. Tried' = Tried \cup {a} /\ a \notin Tried BY <2>1 DEF Acquire, Tried
  <2>2. IsFiniteSet(Tried') /\ Cardinality(Tried') = Cardinality(Tried) + 1
    BY <2>1, <2>4, FS_AddElement
  <2>3. Cardinality(Tried) \in Nat BY FS_CardinalityType
  <2> QED BY <2>1, <2>2, <2>3, <2>4 DEF Acquire, Goto
<1>2. ASSUME Tried' = Tried, attempts' = attempts
      PROVE  /\ IsFiniteSet(Tried)' /\ (Cardinality(Tried) <= attempts)'
             /\ (attempts <= MaxRetryAttempts)'
  BY <1>2
<1>3. CASE \E f \in failure : \/ RejectedPenalty(f) \/ Failed(f) \/ MarkLimited(f)
                            \/ Decide(f) \/ LateLimit(f)
  <2> PICK f \in failure : \/ RejectedPenalty(f) \/ Failed(f) \/ MarkLimited(f)
                          \/ Decide(f) \/ LateLimit(f)
      BY <1>3
  <2>1. acc \in Tried
    BY <1>a DEF CurrentAccount, RejectedPenalty, Failed, MarkLimited, Decide, LateLimit
  <2>2. CASE RejectedPenalty(f) \/ MarkLimited(f) \/ LateLimit(f)
    <3>1. Tried' = Tried BY <2>2 DEF Tried, RejectedPenalty, MarkLimited, LateLimit
    <3> QED BY <1>2, <2>1, <2>2, <3>1 DEF RejectedPenalty, MarkLimited, LateLimit, Goto, Answer
  <2>3. CASE Failed(f)
    <3>1. Tried' = Tried BY <2>3 DEF Tried, Failed
    <3> QED BY <1>2, <2>1, <2>3, <3>1 DEF Failed, Goto
  <2>4. CASE Decide(f)
    <3>1. Tried' = Tried BY <2>1, <2>4 DEF Tried, Decide
    <3> QED BY <1>2, <2>1, <2>4, <3>1 DEF Decide, Release, HeldAfterTry, Goto
  <2> QED BY <2>2, <2>3, <2>4
<1>4. CASE Loop \/ RefreshToken \/ Elapse
  <2>1. Tried' = Tried BY <1>4 DEF Tried, Loop, RefreshToken, Elapse
  <2>2. UNCHANGED <<acc, exclude, attempts, graceUsed, refreshed>>
    BY <1>4 DEF Loop, RefreshToken, Elapse
  <2>3. \/ pc' = "acquire" /\ attempts < MaxRetryAttempts
             /\ acc \in exclude \cup {Nobody}
        \/ pc' \in {"build", "limit"} /\ acc \in Accounts
        \/ pc' = "loop" /\ reuse' /\ acc \in Accounts
        \/ pc' = "loop" /\ ~reuse' /\ acc \in exclude \cup {Nobody}
        \/ pc' = "fail"
    <3>1. CASE Loop BY <1>a, <3>1 DEF CurrentAccount, Loop, Goto
    <3>2. CASE RefreshToken BY <1>a, <3>2 DEF CurrentAccount, RefreshToken, Goto
    <3>3. CASE Elapse
      <4>1. CASE pc = "grace" BY <1>a, <3>3, <4>1 DEF CurrentAccount, Elapse, Goto
      <4>2. CASE pc = "pause" BY <1>a, <3>3, <4>2 DEF CurrentAccount, Elapse, Goto
      <4> QED BY <3>3, <4>1, <4>2 DEF Elapse, Elapsed
    <3> QED BY <1>4, <3>1, <3>2, <3>3
  <2> QED BY <1>2, <2>1, <2>2, <2>3
<1>5. CASE \/ AcquireFails \/ BuildFails \/ SendUpstream \/ UpstreamSucceeds
           \/ FailedByContext \/ WaitCancelled \/ Respond \/ StreamEnds \/ Fail \/ Panic
           \/ ContextEnds \/ UNCHANGED vars
           \/ \E f \in Failures : UpstreamFails(f) \/ StreamFails(f)
  <2>1. UNCHANGED <<acc, exclude, attempts, graceUsed, refreshed>>
    BY <1>5 DEF AcquireFails, BuildFails, SendUpstream, UpstreamSucceeds, FailedByContext,
          WaitCancelled, Respond, StreamEnds, Fail, Panic, ContextEnds, vars, UpstreamFails,
          StreamFails
  <2>2. Tried' = Tried BY <2>1 DEF Tried
  <2>3. \/ pc' = pc /\ reuse' = reuse
        \/ pc' \in {"fail", "answered", "respond"}
        \/ pc' \in {"upstream", "stream", "failed", "late"} /\ acc \in Accounts
    BY <1>5 DEF AcquireFails, BuildFails, SendUpstream, UpstreamSucceeds, FailedByContext,
          WaitCancelled, Respond, StreamEnds, Fail, Panic, ContextEnds, vars, UpstreamFails,
          StreamFails, Goto, Answer
  <2> QED BY <1>2, <2>1, <2>2, <2>3
<1> QED BY <1>1, <1>3, <1>4, <1>5 DEF Next, Step

\* The counts are what they were, up to one more, and paid for.
LEMMA CountStep == ASSUME ProxyInv, [Next]_vars PROVE CountInv'
<1>0. TypeOK /\ TriedInv /\ CountInv BY DEF ProxyInv
<1>a. CurrentAccount BY AccountFacts
<1>b. /\ IsFiniteSet(graceUsed) /\ Cardinality(graceUsed) \in Nat
      /\ IsFiniteSet(refreshed) /\ Cardinality(refreshed) \in Nat
      /\ attempts \in Nat /\ totalAttempts \in Nat
  BY <1>0, FS_Subset, FS_CardinalityType DEF TriedInv, TypeOK
<1>c. One(TRUE) = 1 /\ One(FALSE) = 0 BY DEF One
<1>d. \A b : One(b) \in {0, 1} BY DEF One
<1>1. CASE \E a \in Accounts : Acquire(a)
  <2>1. /\ ~Due /\ Due' /\ attempts' = attempts + 1
        /\ UNCHANGED <<totalAttempts, graceUsed, refreshed, omitPenalties>>
    BY <1>1 DEF Acquire, Goto, Due, counts, memory
  <2> QED BY <1>0, <1>b, <1>d, <2>1 DEF CountInv, One
<1>2. CASE SendUpstream
  <2>1. /\ Due /\ ~Due' /\ totalAttempts' = totalAttempts + 1
        /\ UNCHANGED <<attempts, graceUsed, refreshed, omitPenalties>>
    BY <1>2 DEF SendUpstream, Goto, Due, memory
  <2> QED BY <1>0, <1>b, <1>d, <2>1 DEF CountInv, One
<1>3. CASE \E f \in failure : RejectedPenalty(f)
  <2>1. /\ ~Due /\ ~omitPenalties /\ omitPenalties'
        /\ UNCHANGED <<totalAttempts, attempts, graceUsed, refreshed>>
    BY <1>3 DEF RejectedPenalty, Rejects, Goto, Due, counts
  <2> QED BY <1>0, <1>b, <2>1 DEF CountInv, One
<1>4. CASE \E f \in failure : Failed(f)
  <2> PICK f \in failure : Failed(f) BY <1>4
  <2>1. UNCHANGED <<totalAttempts, attempts, graceUsed, omitPenalties>> /\ ~Due
    BY DEF Failed, counts, Due
  <2>2. CASE MayRefresh(f)
    <3>1. Due' /\ refreshed' = refreshed \cup {acc} /\ acc \notin refreshed
      BY <2>2 DEF Failed, MayRefresh, Goto, Due
    <3>2. Cardinality(refreshed') = Cardinality(refreshed) + 1
      BY <1>b, <3>1, FS_AddElement
    <3> QED BY <1>0, <1>b, <1>d, <2>1, <3>1, <3>2 DEF CountInv, One
  <2>3. CASE ~MayRefresh(f)
    <3>1. ~Due' /\ refreshed' = refreshed BY <2>3 DEF Failed, Goto, Due
    <3> QED BY <1>0, <1>b, <1>d, <2>1, <3>1 DEF CountInv, One
  <2> QED BY <2>2, <2>3
<1>5. CASE \E f \in failure : Decide(f)
  <2> PICK f \in failure : Decide(f) BY <1>5
  <2>1. UNCHANGED <<totalAttempts, attempts, refreshed, omitPenalties>> /\ ~Due
    BY DEF Decide, counts, Due
  <2>2. CASE graceUsed' = graceUsed /\ ~Due'
    BY <1>0, <1>b, <1>d, <2>1, <2>2 DEF CountInv, One
  <2>3. CASE graceUsed' = graceUsed \cup {acc} /\ acc \notin graceUsed
    <3>2. Cardinality(graceUsed') = Cardinality(graceUsed) + 1
      BY <1>b, <2>3, FS_AddElement
    <3> QED BY <1>0, <1>b, <1>d, <2>1, <3>2 DEF CountInv, One
  <2> QED BY <2>2, <2>3 DEF Decide, Goto, Due
<1>6. CASE Loop \/ RefreshToken \/ Elapse
  <2>1. UNCHANGED <<totalAttempts, attempts, graceUsed, refreshed, omitPenalties>>
    BY <1>6 DEF Loop, RefreshToken, Elapse, counts, memory
  <2>2. Due' => Due
    <3>1. CASE Loop BY <3>1 DEF Loop, Goto, Due
    <3>2. CASE RefreshToken BY <3>2 DEF RefreshToken, Goto, Due
    <3>3. CASE Elapse
      <4>1. CASE pc = "grace" BY <4>1 DEF Due
      <4>2. CASE pc = "pause" BY <3>3, <4>2 DEF Elapse, Goto, Due
      <4> QED BY <3>3, <4>1, <4>2 DEF Elapse, Elapsed
    <3> QED BY <1>6, <3>1, <3>2, <3>3
  <2> QED BY <1>0, <1>b, <1>d, <2>1, <2>2 DEF CountInv, One
<1>7. CASE \/ AcquireFails \/ BuildFails \/ UpstreamSucceeds
           \/ FailedByContext \/ WaitCancelled \/ Respond \/ StreamEnds \/ Fail \/ Panic
           \/ ContextEnds \/ UNCHANGED vars
           \/ \E f \in Failures : UpstreamFails(f) \/ StreamFails(f)
           \/ \E f \in failure : MarkLimited(f) \/ LateLimit(f)
  <2>1. UNCHANGED <<totalAttempts, attempts, graceUsed, refreshed, omitPenalties>>
    BY <1>7 DEF AcquireFails, BuildFails, UpstreamSucceeds, FailedByContext,
          WaitCancelled, Respond, StreamEnds, Fail, Panic, ContextEnds, vars, UpstreamFails,
          StreamFails, MarkLimited, LateLimit, counts, memory
  <2>2. Due' => Due
    BY <1>7 DEF AcquireFails, BuildFails, UpstreamSucceeds, FailedByContext,
          WaitCancelled, Respond, StreamEnds, Fail, Panic, ContextEnds, vars, UpstreamFails,
          StreamFails, MarkLimited, LateLimit, Goto, Answer, Due, account
  <2> QED BY <1>0, <1>b, <1>d, <2>1, <2>2 DEF CountInv, One
<1> QED BY <1>1, <1>2, <1>3, <1>4, <1>5, <1>6, <1>7 DEF Next, Step

\* The slot is taken with the account and returned with it.
LEMMA SlotStep == ASSUME ProxyInv, [Next]_vars PROVE SlotFollowsAttempt'
<1>0. TypeOK /\ SlotFollowsAttempt BY DEF ProxyInv
<1>1. CASE Loop BY <1>0, <1>1 DEF Loop, Goto, SlotFollowsAttempt
<1>2. CASE \E a \in Accounts : Acquire(a) BY <1>2 DEF Acquire, Goto, SlotFollowsAttempt
<1>3. CASE \E f \in failure : RejectedPenalty(f) \/ Failed(f) \/ MarkLimited(f)
  BY <1>0, <1>3 DEF RejectedPenalty, Failed, MarkLimited, Goto, SlotFollowsAttempt, account
<1>4. CASE \E f \in failure : Decide(f)
  BY <1>0, <1>4 DEF Decide, Release, HeldAfterTry, Goto, SlotFollowsAttempt
<1>5. CASE RefreshToken BY <1>0, <1>5 DEF RefreshToken, Goto, SlotFollowsAttempt
<1>6. CASE Elapse
  <2>1. CASE pc = "grace" BY <1>0, <1>6, <2>1 DEF Elapse, Goto, SlotFollowsAttempt
  <2>2. CASE pc = "pause" BY <1>0, <1>6, <2>2 DEF Elapse, Goto, SlotFollowsAttempt
  <2> QED BY <1>6, <2>1, <2>2 DEF Elapse, Elapsed
<1>7. CASE \/ AcquireFails \/ BuildFails \/ FailedByContext \/ WaitCancelled
           \/ Respond \/ StreamEnds \/ Fail \/ Panic
           \/ \E f \in Failures : StreamFails(f)
  <2>1. pc' = "fail" \/ (pc' \in {"late", "answered"} /\ held' = Nobody)
    BY <1>7 DEF AcquireFails, BuildFails, FailedByContext, WaitCancelled, Respond,
          StreamEnds, Fail, Panic, StreamFails, Goto, Answer, Release
  <2> QED BY <2>1 DEF SlotFollowsAttempt
<1>8. CASE \/ SendUpstream \/ UpstreamSucceeds \/ ContextEnds \/ UNCHANGED vars
           \/ (\E f \in Failures : UpstreamFails(f)) \/ (\E f \in failure : LateLimit(f))
  BY <1>0, <1>8 DEF SendUpstream, UpstreamSucceeds, ContextEnds, vars, UpstreamFails,
        LateLimit, Goto, Answer, SlotFollowsAttempt, account
<1> QED BY <1>1, <1>2, <1>3, <1>4, <1>5, <1>6, <1>7, <1>8 DEF Next, Step

\* The last status is what the last answer said, or what the context made it.
LEMMA StatusStep == ASSUME ProxyInv, [Next]_vars PROVE StatusInv'
<1>0. TypeOK /\ TriedInv /\ StatusInv BY DEF ProxyInv
<1>a. CurrentAccount BY AccountFacts
<1>b. failure = {} \/ \E f \in Failures : failure = {f} BY <1>0 DEF TypeOK
<1>c. \A f \in Failures : f.status \in Nat /\ f.status >= 300 BY ProxyAssumption DEF Failure
<1>d. ctx \in {0, 499, 504} /\ lastStatus \in Nat /\ retryAfter \in Nat BY <1>0 DEF TypeOK
<1>1. CASE Loop BY <1>0, <1>1, <1>b, <1>d DEF Loop, Goto, ContextFailure, StatusInv, status
<1>2. CASE \E a \in Accounts : Acquire(a) BY <1>0, <1>2 DEF Acquire, Goto, StatusInv, status
<1>3. CASE AcquireFails
  BY <1>0, <1>3, <1>b, <1>c, <1>d DEF AcquireFails, Goto, ContextFailure, Unavailable, StatusInv
<1>4. CASE FailedByContext \/ WaitCancelled
  BY <1>0, <1>4, <1>d DEF FailedByContext, WaitCancelled, Goto, ContextFailure, StatusInv
<1>5. CASE \E f \in failure : RejectedPenalty(f)
  BY <1>0, <1>5, <1>b DEF RejectedPenalty, Rejects, Goto, StatusInv
<1>6. CASE \E f \in failure : Failed(f)
  <2> PICK f \in failure : Failed(f) BY <1>6
  <2>1. f \in Failures /\ failure = {f} BY <1>b
  <2>2. f.status = 429 => Cooldown(f, attempts - 1) > 0
    BY <1>a, <2>1, CooldownFacts DEF CurrentAccount, Failed
  <2>3. lastStatus' = f.status /\ retryAfter' = Cooldown(f, attempts - 1)
        /\ failure' = failure /\ answer' = answer /\ pc = "failed"
        /\ pc' \in {"refresh", "limit"}
    BY DEF Failed, Goto
  <2> QED BY <1>0, <2>1, <2>2, <2>3 DEF StatusInv
<1>7. CASE RefreshToken \/ Elapse
  BY <1>0, <1>7 DEF RefreshToken, Elapse, Elapsed, Goto, StatusInv, status
<1>8. CASE \E f \in failure : MarkLimited(f) BY <1>0, <1>8 DEF MarkLimited, Goto, StatusInv, status
<1>9. CASE \E f \in failure : Decide(f)
  BY <1>0, <1>b, <1>9 DEF Decide, Goto, StatusInv, status
<1>10. CASE BuildFails \/ SendUpstream \/ UpstreamSucceeds
  BY <1>0, <1>10 DEF BuildFails, SendUpstream, UpstreamSucceeds, Goto, StatusInv, status
<1>11. CASE \E f \in Failures : UpstreamFails(f) \/ StreamFails(f)
  BY <1>0, <1>11 DEF UpstreamFails, StreamFails, Goto, StatusInv, status
<1>12. CASE Respond \/ StreamEnds \/ Fail \/ Panic \/ (\E f \in failure : LateLimit(f))
  <2>1. pc' = "answered" /\ UNCHANGED status
    BY <1>12 DEF Respond, StreamEnds, Fail, Panic, LateLimit, Answer, Goto
  <2> QED BY <1>0, <2>1 DEF StatusInv, status
<1>13. CASE ContextEnds
  BY <1>0, <1>13 DEF ContextEnds, StatusInv, status
<1>14. CASE UNCHANGED vars BY <1>0, <1>14 DEF vars, StatusInv, status
<1> QED BY <1>1, <1>2, <1>3, <1>4, <1>5, <1>6, <1>7, <1>8, <1>9, <1>10, <1>11, <1>12, <1>13,
        <1>14 DEF Next, Step

\* Before the loop decides, the limit is recorded.
LEMMA LimitStep == ASSUME ProxyInv, [Next]_vars PROVE LimitInv'
<1>0. TypeOK /\ SlotFollowsAttempt /\ LimitInv BY DEF ProxyInv
<1>a. CurrentAccount BY AccountFacts
<1>1. CASE Loop BY <1>0, <1>1 DEF Loop, Goto, LimitInv, SlotFollowsAttempt
<1>2. CASE \E f \in failure : MarkLimited(f)
  <2> PICK f \in failure : MarkLimited(f) BY <1>2
  <2>1. f \in Failures /\ failure = {f} BY <1>0 DEF TypeOK
  <2>2. f.status \in {403, 429} => Cooldown(f, attempts - 1) > 0
    BY <1>a, <2>1, CooldownFacts DEF CurrentAccount, MarkLimited
  <2>3. f.status \in {403, 429} => <<acc, Scope(f)>> \in limited'
    BY <2>2 DEF MarkLimited, Mark, Scope
  <2>4. pc' = "decide" /\ failure' = failure /\ acc' = acc
    BY DEF MarkLimited, Goto, account
  <2> QED BY <2>1, <2>3, <2>4 DEF LimitInv
<1>3. CASE \E f \in failure : Decide(f)
  <2>1. pc' # "decide" /\ (pc' = "fail" => held' = Nobody)
    BY <1>3 DEF Decide, Goto, Release, HeldAfterTry
  <2> QED BY <2>1 DEF LimitInv
<1>4. CASE AcquireFails
  <2>1. pc' = "fail" /\ held' = Nobody
    BY <1>0, <1>4 DEF AcquireFails, Goto, account, SlotFollowsAttempt
  <2> QED BY <2>1 DEF LimitInv
<1>5. CASE \/ BuildFails \/ FailedByContext \/ WaitCancelled \/ Respond \/ StreamEnds \/ Fail
           \/ Panic \/ \E f \in Failures : StreamFails(f)
  <2>1. pc' # "decide" /\ held' = Nobody
    BY <1>5 DEF BuildFails, FailedByContext, WaitCancelled, Respond, StreamEnds, Fail, Panic,
          StreamFails, Goto, Answer, Release
  <2> QED BY <2>1 DEF LimitInv
<1>6. CASE \/ SendUpstream \/ UpstreamSucceeds \/ RefreshToken \/ Elapse
           \/ (\E a \in Accounts : Acquire(a)) \/ (\E f \in Failures : UpstreamFails(f))
           \/ \E f \in failure : RejectedPenalty(f) \/ Failed(f) \/ LateLimit(f)
  <2>1. pc' \notin {"decide", "fail"}
    BY <1>6 DEF SendUpstream, UpstreamSucceeds, RefreshToken, Elapse, Acquire, UpstreamFails,
          RejectedPenalty, Failed, LateLimit, Goto, Answer
  <2> QED BY <2>1 DEF LimitInv
<1>7. CASE ContextEnds \/ UNCHANGED vars
  <2>1. /\ UNCHANGED <<pc, failure, acc, held, limited>>
        /\ ctx' = ctx \/ ctx' # 0
    BY <1>7 DEF ContextEnds, vars, account, reports
  <2> QED BY <1>0, <2>1 DEF LimitInv
<1> QED BY <1>1, <1>2, <1>3, <1>4, <1>5, <1>6, <1>7 DEF Next, Step

\* Only Fail answers with what was noted, and after the answer nothing moves.
LEMMA AnswerStep == ASSUME ProxyInv, [Next]_vars PROVE AnswerIsHonest'
<1>0. TypeOK /\ StatusInv /\ AnswerIsHonest BY DEF ProxyInv
<1>1. CASE Fail
  <2>1. /\ lastStatus \in Nat /\ retryAfter \in Nat /\ ctx \in {0, 499, 504}
        /\ \A f \in failure : f.status \in Nat
    BY <1>0, ProxyAssumption DEF TypeOK, Failure
  <2>2. /\ answer'.status = IF lastStatus < 400 THEN 503 ELSE lastStatus
        /\ answer'.retryAfter = retryAfter /\ failure' = failure /\ ctx' = ctx
        /\ pc = "fail"
    BY <1>1 DEF Fail, Answer
  <2> QED BY <1>0, <2>1, <2>2 DEF StatusInv, AnswerIsHonest
<1>2. CASE Panic
  <2>1. answer'.status \in {200, 500} /\ answer'.logged = 0 BY <1>2 DEF Panic, Answer
  <2> QED BY <2>1 DEF AnswerIsHonest
<1>3. CASE Respond \/ StreamEnds \/ (\E f \in failure : LateLimit(f))
  <2>1. answer'.status = 200 BY <1>3 DEF Respond, StreamEnds, LateLimit, Answer
  <2> QED BY <2>1 DEF AnswerIsHonest
<1>4. CASE pc # "answered" /\ answer' = answer
  <2>1. answer'.status = 0 BY <1>0, <1>4 DEF StatusInv, NoAnswer
  <2> QED BY <2>1 DEF AnswerIsHonest
<1>5. CASE UNCHANGED vars BY <1>0, <1>5 DEF vars, AnswerIsHonest
<1>6. Next => Fail \/ Panic \/ Respond \/ StreamEnds \/ (\E f \in failure : LateLimit(f))
              \/ (pc # "answered" /\ answer' = answer)
  BY DEF Next, Step, ContextEnds, Loop, Acquire, AcquireFails, BuildFails, SendUpstream,
        UpstreamSucceeds, UpstreamFails, FailedByContext, RefreshToken, Elapse, Elapsed,
        WaitCancelled, RejectedPenalty, Failed, MarkLimited, Decide, StreamFails
<1> QED BY <1>1, <1>2, <1>3, <1>4, <1>5, <1>6

-----------------------------------------------------------------------------
\* The inductive invariant: accounts tried, attempts paid for, the slot of the
\* current attempt, and the last answer in the last status.
THEOREM ProxyInvariant == Spec => []ProxyInv
<1>1. ProxyInv /\ [Next]_vars => ProxyInv'
  BY TypeStep, TriedStep, CountStep, SlotStep, StatusStep, LimitStep, AnswerStep DEF ProxyInv
<1> QED BY InitProxyInv, <1>1, PTL DEF Spec

\* An upstream is called at most once per attempt, grace retry and refresh,
\* and once more without the penalty parameters; grace and refresh are per
\* account, and there are no more accounts than attempts.
THEOREM RetriesAreBounded == Spec => []AttemptsAreBounded
<1>1. ProxyInv => AttemptsAreBounded
  <2> SUFFICES ASSUME ProxyInv PROVE AttemptsAreBounded OBVIOUS
  <2>0. TypeOK /\ TriedInv /\ CountInv BY DEF ProxyInv
  <2>1. /\ Cardinality(graceUsed) \in Nat /\ Cardinality(refreshed) \in Nat
        /\ Cardinality(graceUsed) <= Cardinality(Tried)
        /\ Cardinality(refreshed) <= Cardinality(Tried)
        /\ Cardinality(Tried) \in Nat
    BY <2>0, FS_Subset, FS_CardinalityType DEF TriedInv
  <2>2. attempts \in Nat /\ totalAttempts \in Nat BY <2>0 DEF TypeOK
  <2>3. One(Due) \in {0, 1} /\ One(omitPenalties) \in {0, 1} BY DEF One
  <2> QED BY <2>0, <2>1, <2>2, <2>3, ProxyAssumption DEF TriedInv, CountInv, AttemptsAreBounded
<1> QED BY ProxyInvariant, <1>1, PTL

\* On every way through the loop the slot is held exactly during an attempt.
THEOREM SlotsFollowAttempts == Spec => []SlotFollowsAttempt
BY ProxyInvariant, PTL DEF ProxyInv

\* What the client is told is what the upstream said last.
THEOREM AnswersAreHonest == Spec => []AnswerIsHonest
BY ProxyInvariant, PTL DEF ProxyInv

\* A live request records a limit before it gives the slot back.
THEOREM LimitsBeforeRelease == Spec => LimitsComeFirst
<1>1. ProxyInv /\ [Next]_vars =>
        (/\ held # Nobody /\ held' = Nobody /\ ctx = 0
         /\ pc \in {"failed", "limit", "decide", "fail"}
         => \A f \in failure : f.status \in {403, 429} =>
               <<held, IF ModelScoped(f) THEN "model" ELSE "account">> \in limited)
  <2> SUFFICES ASSUME ProxyInv, [Next]_vars, held # Nobody, held' = Nobody, ctx = 0,
                      pc \in {"failed", "limit", "decide", "fail"}
               PROVE  \A f \in failure : f.status \in {403, 429} => <<held, Scope(f)>> \in limited
      BY DEF Scope
  <2>0. SlotFollowsAttempt /\ LimitInv BY DEF ProxyInv
  <2>1. CASE pc = "decide" BY <2>0, <2>1 DEF SlotFollowsAttempt, LimitInv
  <2>2. pc # "fail" BY <2>0 DEF LimitInv
  <2>3. pc \in {"failed", "limit"} => held' = held
    BY DEF Next, Step, ContextEnds, Loop, Acquire, AcquireFails, BuildFails, SendUpstream,
          UpstreamSucceeds, UpstreamFails, FailedByContext, RefreshToken, Elapse, Elapsed,
          WaitCancelled, RejectedPenalty, Failed, MarkLimited, Decide, StreamFails, Respond,
          StreamEnds, LateLimit, Fail, Panic, vars, account
  <2> QED BY <2>1, <2>2, <2>3
<1> QED BY ProxyInvariant, <1>1, PTL DEF Spec, LimitsComeFirst

-----------------------------------------------------------------------------
(* The client: CallIsFaithful for any number of endpoints and any answers. *)

Request == [endpoint : Nat, project : BOOLEAN, status : Nat, disabled : BOOLEAN]

ClientTypeOK ==
    /\ over \in BOOLEAN /\ strip \in BOOLEAN /\ forbidden403 \in BOOLEAN
    /\ call \in {"none", "ask", "peek", "read", "done", "returned"}
    /\ endpoint \in 1 .. Endpoints + 1
    /\ asked \in Seq(Request)
    /\ reply \in [error : BOOLEAN, status : Nat]

\* Where the next request goes: to the first endpoint, or to the one after an
\* endpoint that could not answer.
NextIsDue ==
    call = "ask" =>
        \/ asked = <<>> /\ endpoint = 1
        \/ /\ asked # <<>> /\ strip /\ endpoint = 1
           /\ Latest.disabled /\ Latest.project
        \/ /\ asked # <<>> /\ endpoint = Latest.endpoint + 1
           /\ Latest.status = 0 \/ (Retryable(Latest.status) /\ Latest.endpoint < Endpoints)

\* A refusal of the project that was acted on has set stripProject.
DisabledIsStripped ==
    \A i \in 1 .. Len(asked) :
        asked[i].disabled /\ asked[i].project /\ (i < Len(asked) \/ call = "ask") => strip

AnswerIsLast ==
    /\ call = "peek" => asked # <<>> /\ Answered403
    /\ call = "read" =>
          /\ asked # <<>> /\ ~reply.error
          /\ reply.status # 0 /\ reply.status = Latest.status
          /\ Retryable(reply.status) => Latest.endpoint = Endpoints

ForbiddenIsReturned == forbidden403 => call = "returned"

ClientInv ==
    /\ ClientTypeOK /\ NextIsDue /\ DisabledIsStripped /\ AnswerIsLast
    /\ ForbiddenIsReturned /\ CallIsFaithful

\* The client before an operation, and at the start of a call.
Fresh ==
    /\ over \in BOOLEAN /\ strip = FALSE /\ forbidden403 = FALSE
    /\ call \in {"none", "ask"}
    /\ endpoint = 1 /\ asked = <<>> /\ reply = NoReply

LEMMA FreshInv == Fresh => ClientInv
<1> SUFFICES ASSUME Fresh PROVE ClientInv
    OBVIOUS
<1>1. ClientTypeOK
      <2>1. NoReply \in [error : BOOLEAN, status : Nat]
            BY DEF NoReply
      <2>2. <<>> \in Seq(Request)
            OBVIOUS
      <2>3. 1 \in 1 .. Endpoints + 1
            BY ClientAssumption
      <2>4. /\ over \in BOOLEAN /\ strip \in BOOLEAN /\ forbidden403 \in BOOLEAN
            /\ call \in {"none", "ask", "peek", "read", "done", "returned"}
            BY DEF Fresh
      <2>5. endpoint = 1 /\ asked = <<>> /\ reply = NoReply
            BY DEF Fresh
      <2>6. asked \in Seq(Request) /\ reply \in [error : BOOLEAN, status : Nat]
            BY <2>1, <2>2, <2>5
      <2> QED
          BY <2>3, <2>4, <2>5, <2>6 DEF ClientTypeOK
<1>2. Len(asked) = 0
      BY DEF Fresh
<1>3. NextIsDue /\ AnswerIsLast /\ ForbiddenIsReturned /\ LastAnswerIsTold /\ ForbiddenIsReal
      BY DEF Fresh, NextIsDue, AnswerIsLast, ForbiddenIsReturned, LastAnswerIsTold,
             OverToCaller, ForbiddenIsReal
<1>4. DisabledIsStripped /\ NothingIsRepeated
      BY <1>2 DEF DisabledIsStripped, NothingIsRepeated
<1> QED
    BY <1>1, <1>3, <1>4 DEF ClientInv, CallIsFaithful

LEMMA CallStarts == ASSUME NEW m, NEW p, Call(m, p), over' \in BOOLEAN, ~forbidden403',
                           forbidden403' \in BOOLEAN
                    PROVE  ClientInv'
<1>1. Fresh'
      BY DEF Call, Fresh, NoReply
<1> QED
    BY <1>1, FreshInv, PTL

\* One endpoint more is asked.
LEMMA AskPreserves ==
    ASSUME ClientInv, NEW s \in Statuses, NEW disabled \in BOOLEAN, Ask(s, disabled)
    PROVE  ClientInv'
<1> DEFINE new == [endpoint |-> endpoint, project |-> SendsProject,
                   status |-> s, disabled |-> disabled]
           n == Len(asked)
<1>1. /\ call = "ask" /\ ~over /\ endpoint <= Endpoints /\ (disabled => s = 403)
      /\ asked' = Append(asked, new)
      /\ UNCHANGED <<request, over, strip, forbidden403>>
      BY DEF Ask
<1>2. new \in Request /\ s \in Nat /\ n \in Nat /\ asked \in Seq(Request) /\ endpoint \in Nat
      BY ClientAssumption DEF ClientInv, ClientTypeOK, Request, SendsProject
<1>3. /\ asked' \in Seq(Request) /\ Len(asked') = n + 1 /\ asked'[n + 1] = new
      /\ asked' # <<>> /\ Latest' = new
      /\ \A i \in 1 .. n : asked'[i] = asked[i]
      BY <1>1, <1>2 DEF Latest
<1>4. ~forbidden403 /\ ~forbidden403'
      BY <1>1 DEF ClientInv, ForbiddenIsReturned
<1>5. NothingIsRepeated'
      <2> SUFFICES ASSUME NEW i \in 1 .. n PROVE (Restarted(i) \/ FellBack(i))'
          BY <1>3 DEF NothingIsRepeated
      <2>1. asked'[i] = asked[i] /\ asked'[n + 1] = new
            BY <1>3
      <2>2. strip => ~new.project
            BY DEF SendsProject
      <2>3. CASE i < n
            <3>1. asked'[i + 1] = asked[i + 1]
                  BY <1>2, <1>3, <2>3
            <3>2. Restarted(i) \/ FellBack(i)
                  BY <1>2, <2>3 DEF ClientInv, CallIsFaithful, NothingIsRepeated
            <3>3. CASE FellBack(i)
                  BY <3>1, <3>3, <2>1 DEF FellBack, Retryable
            <3>4. CASE Restarted(i)
                  <4>1. ~new.project
                        BY <1>1, <1>2, <2>2, <2>3, <3>4 DEF ClientInv, DisabledIsStripped, Restarted
                  <4>2. \A j \in i + 1 .. n + 1 : ~asked'[j].project
                        BY <4>1, <1>2, <1>3, <3>4 DEF Restarted
                  <4> QED
                      BY <4>2, <3>1, <3>4, <2>1, <1>3 DEF Restarted
            <3> QED
                BY <3>2, <3>3, <3>4
      <2>4. CASE i = n
            <3>1. asked # <<>> /\ Latest = asked[i]
                  BY <1>2, <2>4 DEF Latest
            <3>2. CASE strip /\ endpoint = 1 /\ Latest.disabled /\ Latest.project
                  BY <3>1, <3>2, <2>1, <2>2, <2>4, <1>2, <1>3 DEF Restarted
            <3>3. CASE endpoint = Latest.endpoint + 1 /\ (Latest.status = 0 \/ Retryable(Latest.status))
                  BY <3>1, <3>3, <2>1, <2>4 DEF FellBack, Retryable
            <3> QED
                BY <3>1, <3>2, <3>3, <1>1 DEF ClientInv, NextIsDue
      <2> QED
          BY <1>2, <2>3, <2>4
<1>6. CASE s = 0 \/ FallsBack(s)
      <2>1. endpoint' = endpoint + 1 /\ call' = "ask" /\ reply' = reply
            BY <1>6, <1>1, <1>2 DEF Ask, FallsBack
      <2>2. ClientTypeOK'
            BY <2>1, <1>1, <1>3, ClientAssumption DEF ClientInv, ClientTypeOK
      <2>3. NextIsDue' /\ AnswerIsLast' /\ ForbiddenIsReturned'
            BY <2>1, <1>1, <1>2, <1>3, <1>4, <1>6
            DEF NextIsDue, AnswerIsLast, ForbiddenIsReturned, FallsBack, Retryable
      <2>4. ~(new.disabled /\ new.project)
            BY <1>1, <1>6 DEF FallsBack, Retryable
      <2>5. DisabledIsStripped'
            <3> SUFFICES ASSUME NEW i \in 1 .. n + 1, asked'[i].disabled /\ asked'[i].project
                         PROVE  strip
                BY <1>1, <1>3 DEF DisabledIsStripped
            <3>1. i # n + 1
                  BY <2>4, <1>3
            <3> QED
                BY <3>1, <1>1, <1>2, <1>3 DEF ClientInv, DisabledIsStripped
      <2>6. LastAnswerIsTold' /\ ForbiddenIsReal'
            BY <2>1, <1>4 DEF LastAnswerIsTold, OverToCaller, ForbiddenIsReal
      <2> QED
          BY <1>5, <2>2, <2>3, <2>5, <2>6 DEF ClientInv, CallIsFaithful
<1>7. CASE s # 0 /\ ~FallsBack(s)
      <2>1. /\ endpoint' = endpoint
            /\ \/ s = 403 /\ SendsProject /\ call' = "peek" /\ reply' = reply
               \/ call' = "read" /\ reply' = [error |-> FALSE, status |-> s]
            BY <1>7, <1>1 DEF Ask, Returns
      <2>2. ClientTypeOK'
            <3>1. reply' \in [error : BOOLEAN, status : Nat]
                  <4>1. CASE reply' = reply
                        BY <4>1 DEF ClientInv, ClientTypeOK
                  <4>2. CASE reply' = [error |-> FALSE, status |-> s]
                        BY <4>2, <1>2
                  <4> QED
                      BY <4>1, <4>2, <2>1
            <3>2. call' \in {"none", "ask", "peek", "read", "done", "returned"}
                  BY <2>1
            <3>3. /\ over' \in BOOLEAN /\ strip' \in BOOLEAN /\ forbidden403' \in BOOLEAN
                  /\ endpoint' \in 1 .. Endpoints + 1
                  BY <2>1, <1>1 DEF ClientInv, ClientTypeOK
            <3> QED
                BY <3>1, <3>2, <3>3, <1>3 DEF ClientTypeOK
      <2>3. NextIsDue' /\ ForbiddenIsReturned' /\ LastAnswerIsTold' /\ ForbiddenIsReal'
            BY <2>1, <1>4 DEF NextIsDue, ForbiddenIsReturned, LastAnswerIsTold, OverToCaller,
                              ForbiddenIsReal
      <2>4. AnswerIsLast'
            <3>1. Retryable(s) => endpoint = Endpoints
                  BY <1>1, <1>2, <1>7, ClientAssumption DEF FallsBack
            <3> QED
                BY <3>1, <2>1, <1>3, <1>7 DEF AnswerIsLast, Answered403, Retryable
      <2>5. DisabledIsStripped'
            <3> SUFFICES ASSUME NEW i \in 1 .. n, asked'[i].disabled /\ asked'[i].project
                         PROVE  strip
                BY <2>1, <1>1, <1>2, <1>3 DEF DisabledIsStripped
            <3> QED
                BY <1>1, <1>2, <1>3 DEF ClientInv, DisabledIsStripped
      <2> QED
          BY <1>5, <2>2, <2>3, <2>4, <2>5 DEF ClientInv, CallIsFaithful
<1> QED
    BY <1>6, <1>7

\* The steps that ask nothing: their conjuncts about asked stay.
LEMMA AskedStays ==
    ASSUME ClientInv, UNCHANGED asked, ~(call' = "ask" /\ call # "ask"),
           strip' \in BOOLEAN, strip => strip'
    PROVE  NothingIsRepeated' /\ DisabledIsStripped'
BY DEF ClientInv, CallIsFaithful, NothingIsRepeated, Restarted, FellBack, Retryable,
       DisabledIsStripped

LEMMA GiveUpPreserves == ClientInv /\ GiveUp => ClientInv'
<1> SUFFICES ASSUME ClientInv, GiveUp PROVE ClientInv'
    OBVIOUS
<1>1. /\ call = "ask" /\ (over \/ endpoint > Endpoints)
      /\ reply' = [error |-> TRUE, status |-> 0] /\ call' = Done
      /\ UNCHANGED <<request, over, strip, endpoint, asked, forbidden403>>
      BY DEF GiveUp, Returns
<1>2. Done \in {"done", "returned"} /\ ~forbidden403
      BY <1>1 DEF Done, ClientInv, ForbiddenIsReturned
<1>3. ClientTypeOK'
      <2>1. reply' \in [error : BOOLEAN, status : Nat]
            BY <1>1
      <2> QED
          BY <2>1, <1>1, <1>2 DEF ClientInv, ClientTypeOK
<1>4. NothingIsRepeated' /\ DisabledIsStripped'
      BY <1>1, <1>2, AskedStays DEF ClientInv, ClientTypeOK
<1>5. NextIsDue' /\ AnswerIsLast' /\ ForbiddenIsReturned' /\ ForbiddenIsReal'
      BY <1>1, <1>2 DEF NextIsDue, AnswerIsLast, ForbiddenIsReturned, ForbiddenIsReal
<1>6. over \/ (Latest.status = 0 /\ Latest.endpoint = Endpoints)
      <2> SUFFICES ASSUME ~over PROVE Latest.status = 0 /\ Latest.endpoint = Endpoints
          OBVIOUS
      <2>1. endpoint = Endpoints + 1 /\ endpoint # 1
            BY <1>1, ClientAssumption DEF ClientInv, ClientTypeOK
      <2>2. asked # <<>> /\ endpoint = Latest.endpoint + 1
            /\ (Latest.status = 0 \/ (Retryable(Latest.status) /\ Latest.endpoint < Endpoints))
            BY <2>1, <1>1 DEF ClientInv, NextIsDue
      <2>3. Len(asked) \in 1 .. Len(asked)
            BY <2>2 DEF ClientInv, ClientTypeOK
      <2>4. Latest.endpoint \in Nat
            <3>1. asked[Len(asked)] \in Request
                  BY <2>3 DEF ClientInv, ClientTypeOK
            <3> QED
                BY <3>1 DEF Latest, Request
      <2> QED
          BY <2>1, <2>2, <2>4, ClientAssumption
<1>7. LastAnswerIsTold'
      BY <1>1, <1>6 DEF LastAnswerIsTold, Latest
<1> QED
    BY <1>3, <1>4, <1>5, <1>7 DEF ClientInv, CallIsFaithful

\* The body of a 403 is looked into.
LEMMA PeekPreserves ==
    ASSUME ClientInv, NEW readable \in BOOLEAN, Peek(readable)
    PROVE  ClientInv'
<1>1. call = "peek" /\ UNCHANGED <<request, over, asked, forbidden403>> /\ ~forbidden403
      BY DEF Peek, ClientInv, ForbiddenIsReturned
<1>2. asked # <<>> /\ Latest.status = 403 /\ Latest.project /\ Latest' = Latest
      BY <1>1 DEF ClientInv, AnswerIsLast, Answered403, Latest
<1>3. CASE ~readable
      <2>1. /\ reply' = [error |-> TRUE, status |-> 0] /\ call' = Done
            /\ UNCHANGED <<strip, endpoint>> /\ Done \in {"done", "returned"}
            BY <1>3 DEF Peek, Returns, Done
      <2>2. ClientTypeOK'
            <3>1. reply' \in [error : BOOLEAN, status : Nat]
                  BY <2>1
            <3> QED
                BY <3>1, <2>1, <1>1 DEF ClientInv, ClientTypeOK
      <2>3. NothingIsRepeated' /\ DisabledIsStripped'
            BY <1>1, <2>1, AskedStays DEF ClientInv, ClientTypeOK
      <2>4. NextIsDue' /\ AnswerIsLast' /\ ForbiddenIsReturned' /\ ForbiddenIsReal'
            BY <1>1, <2>1 DEF NextIsDue, AnswerIsLast, ForbiddenIsReturned, ForbiddenIsReal
      <2>5. LastAnswerIsTold'
            BY <1>2, <2>1 DEF LastAnswerIsTold, Answered403
      <2> QED
          BY <2>2, <2>3, <2>4, <2>5 DEF ClientInv, CallIsFaithful
<1>4. CASE readable /\ Latest.disabled
      <2>1. strip' = TRUE /\ endpoint' = 1 /\ call' = "ask" /\ reply' = reply
            BY <1>4 DEF Peek
      <2>2. ClientTypeOK'
            BY <2>1, <1>1, ClientAssumption DEF ClientInv, ClientTypeOK
      <2>3. NothingIsRepeated' /\ DisabledIsStripped'
            BY <1>1, <2>1 DEF ClientInv, CallIsFaithful, NothingIsRepeated, Restarted, FellBack,
                              Retryable, DisabledIsStripped
      <2>4. NextIsDue' /\ AnswerIsLast' /\ ForbiddenIsReturned' /\ ForbiddenIsReal'
            BY <1>1, <1>2, <1>4, <2>1
            DEF NextIsDue, AnswerIsLast, ForbiddenIsReturned, ForbiddenIsReal
      <2>5. LastAnswerIsTold'
            BY <2>1 DEF LastAnswerIsTold, OverToCaller
      <2> QED
          BY <2>2, <2>3, <2>4, <2>5 DEF ClientInv, CallIsFaithful
<1>5. CASE readable /\ ~Latest.disabled
      <2>1. /\ reply' = [error |-> FALSE, status |-> 403] /\ call' = "read"
            /\ UNCHANGED <<strip, endpoint>>
            BY <1>5 DEF Peek, Returns
      <2>2. ClientTypeOK'
            <3>1. reply' \in [error : BOOLEAN, status : Nat]
                  BY <2>1
            <3> QED
                BY <3>1, <2>1, <1>1 DEF ClientInv, ClientTypeOK
      <2>3. NothingIsRepeated' /\ DisabledIsStripped'
            BY <1>1, <2>1, AskedStays DEF ClientInv, ClientTypeOK
      <2>4. NextIsDue' /\ AnswerIsLast' /\ ForbiddenIsReturned' /\ ForbiddenIsReal'
            BY <1>1, <1>2, <2>1
            DEF NextIsDue, AnswerIsLast, ForbiddenIsReturned, ForbiddenIsReal, Retryable
      <2>5. LastAnswerIsTold'
            BY <2>1 DEF LastAnswerIsTold, OverToCaller
      <2> QED
          BY <2>2, <2>3, <2>4, <2>5 DEF ClientInv, CallIsFaithful
<1> QED
    BY <1>3, <1>4, <1>5

\* The body of the answer is read, or handed on.
LEMMA ReadPreserves ==
    ASSUME ClientInv, NEW readable \in BOOLEAN, Read(readable)
    PROVE  ClientInv'
<1>1. /\ call = "read" /\ call' = Done /\ reply' = [reply EXCEPT !.error = ~readable]
      /\ UNCHANGED <<request, over, strip, endpoint, asked, forbidden403>>
      /\ Done \in {"done", "returned"} /\ ~forbidden403
      BY DEF Read, Done, ClientInv, ForbiddenIsReturned
<1>2. /\ reply' \in [error : BOOLEAN, status : Nat] /\ reply'.status = reply.status
      BY <1>1 DEF ClientInv, ClientTypeOK
<1>3. ClientTypeOK'
      BY <1>1, <1>2 DEF ClientInv, ClientTypeOK
<1>4. NothingIsRepeated' /\ DisabledIsStripped'
      BY <1>1, AskedStays DEF ClientInv, ClientTypeOK
<1>5. NextIsDue' /\ AnswerIsLast' /\ ForbiddenIsReturned' /\ ForbiddenIsReal'
      BY <1>1 DEF NextIsDue, AnswerIsLast, ForbiddenIsReturned, ForbiddenIsReal
<1>6. LastAnswerIsTold'
      <2>1. /\ reply.status # 0 /\ reply.status = Latest.status
            /\ Retryable(reply.status) => Latest.endpoint = Endpoints
            BY <1>1 DEF ClientInv, AnswerIsLast
      <2>2. Latest' = Latest
            BY <1>1 DEF Latest
      <2>3. reply' # [error |-> TRUE, status |-> 0]
            BY <2>1, <1>2
      <2> QED
          BY <2>1, <2>2, <2>3, <1>2 DEF LastAnswerIsTold
<1> QED
    BY <1>3, <1>4, <1>5, <1>6 DEF ClientInv, CallIsFaithful

LEMMA ExpiresPreserves == ClientInv /\ Expires => ClientInv'
<1> SUFFICES ASSUME ClientInv, Expires PROVE ClientInv'
    OBVIOUS
<1>1. /\ over' = TRUE /\ call # "returned" /\ call # "done"
      /\ UNCHANGED <<request, call, strip, endpoint, asked, reply, forbidden403>>
      BY DEF Expires
<1>2. UNCHANGED <<Latest, op>>
      BY <1>1 DEF Latest, request
<1>3. ClientTypeOK' /\ NextIsDue' /\ DisabledIsStripped' /\ AnswerIsLast' /\ ForbiddenIsReturned'
      BY <1>1, <1>2 DEF ClientInv, ClientTypeOK, NextIsDue, DisabledIsStripped, AnswerIsLast,
                        Answered403, ForbiddenIsReturned
<1>4. NothingIsRepeated' /\ LastAnswerIsTold' /\ ForbiddenIsReal'
      BY <1>1, <1>2 DEF ClientInv, CallIsFaithful, NothingIsRepeated, Restarted, FellBack,
            Retryable, LastAnswerIsTold, OverToCaller, HandsOn, ForbiddenIsReal,
            ForbiddenIsReturned
<1> QED
    BY <1>3, <1>4 DEF ClientInv, CallIsFaithful

\* The next call of an operation on quotas starts as the first one does.
LEMMA CallAgainPreserves ==
    ASSUME ClientInv, NEW m, NEW p, CallAgain(m, p), call = "done", UNCHANGED forbidden403
    PROVE  ClientInv'
<1>1. over' \in BOOLEAN
      BY DEF CallAgain, ClientInv, ClientTypeOK
<1>2. ~forbidden403' /\ forbidden403' \in BOOLEAN
      BY DEF ClientInv, ForbiddenIsReturned, ClientTypeOK
<1>3. Call(m, p)
      BY DEF CallAgain
<1> QED
    BY <1>1, <1>2, <1>3, CallStarts

\* The operation returns something else than its last call did.
LEMMA OperationReturns ==
    ASSUME ClientInv, call = "done", call' = "returned", ~HandsOn,
           UNCHANGED <<request, over, strip, endpoint, asked>>,
           reply' \in [error : BOOLEAN, status : Nat], forbidden403' \in BOOLEAN,
           forbidden403' => project = "none" /\ Latest.status = 403
    PROVE  ClientInv'
<1>1. ClientTypeOK' /\ NextIsDue' /\ AnswerIsLast' /\ ForbiddenIsReturned'
      BY DEF ClientInv, ClientTypeOK, NextIsDue, AnswerIsLast, ForbiddenIsReturned
<1>2. NothingIsRepeated' /\ DisabledIsStripped'
      BY AskedStays DEF ClientInv, ClientTypeOK
<1>3. LastAnswerIsTold'
      BY DEF LastAnswerIsTold, OverToCaller, HandsOn, request
<1>4. ForbiddenIsReal'
      BY DEF ForbiddenIsReal, Latest, request
<1> QED
    BY <1>1, <1>2, <1>3, <1>4 DEF ClientInv, CallIsFaithful

\* What fetchAvailableModels answered.
LEMMA ModelsPreserve ==
    ASSUME ClientInv, NEW parsed \in BOOLEAN, ModelsFetched(parsed)
    PROVE  ClientInv'
<1>1. call = "done" /\ op = "FetchQuota" /\ ~HandsOn
      BY DEF ModelsFetched, Answered, HandsOn
<1>2. CASE CallAgain("retrieveUserQuotaSummary", owner) /\ UNCHANGED forbidden403
      BY <1>1, <1>2, CallAgainPreserves
<1>3. CASE /\ forbidden403' = (~reply.error /\ reply.status = 403)
           /\ reply' = [reply EXCEPT !.error = ~forbidden403']
           /\ call' = "returned"
           /\ UNCHANGED <<request, over, strip, endpoint, asked>>
      <2>1. forbidden403' \in BOOLEAN
            BY <1>3
      <2>2. reply' \in [error : BOOLEAN, status : Nat]
            BY <1>3, <2>1 DEF ClientInv, ClientTypeOK
      <2>3. forbidden403' => project = "none" /\ Latest.status = 403
            <3>1. ~(~reply.error /\ Refetches)
                  BY DEF ModelsFetched
            <3>2. reply.status = 403 => Latest.status = 403
                  BY <1>1 DEF ClientInv, CallIsFaithful, LastAnswerIsTold, OverToCaller
            <3> QED
                BY <3>1, <3>2, <1>3 DEF Refetches
      <2> QED
          BY <1>1, <1>3, <2>1, <2>2, <2>3, OperationReturns
<1> QED
    BY <1>2, <1>3 DEF ModelsFetched

\* What retrieveUserQuotaSummary answered.
LEMMA SummaryPreserves ==
    ASSUME ClientInv, NEW groups \in BOOLEAN, SummaryFetched(groups)
    PROVE  ClientInv'
<1>1. call = "done" /\ op = "FetchQuota" /\ ~HandsOn /\ UNCHANGED forbidden403
      BY DEF SummaryFetched, Answered, HandsOn
<1>2. CASE CallAgain(method, "none")
      BY <1>1, <1>2, CallAgainPreserves
<1>3. CASE /\ reply' = [error |-> FALSE, status |-> 200] /\ call' = "returned"
           /\ UNCHANGED <<request, over, strip, endpoint, asked>>
      <2>1. ~forbidden403' /\ forbidden403' \in BOOLEAN
            BY <1>1 DEF ClientInv, ForbiddenIsReturned, ClientTypeOK
      <2>2. reply' \in [error : BOOLEAN, status : Nat]
            BY <1>3
      <2> QED
          BY <1>1, <1>3, <2>1, <2>2, OperationReturns
<1> QED
    BY <1>2, <1>3 DEF SummaryFetched

\* What loadCodeAssist answered.
LEMMA AssistPreserves ==
    ASSUME ClientInv, NEW parsed \in BOOLEAN, AssistLoaded(parsed)
    PROVE  ClientInv'
<1>1. /\ call = "done" /\ ~HandsOn /\ call' = "returned"
      /\ reply' = [reply EXCEPT !.error = @ \/ reply.status >= 400 \/ ~parsed]
      /\ UNCHANGED <<request, over, strip, endpoint, asked, forbidden403>>
      BY DEF AssistLoaded, HandsOn
<1>2. ~forbidden403' /\ forbidden403' \in BOOLEAN
      BY <1>1 DEF ClientInv, ForbiddenIsReturned, ClientTypeOK
<1>3. reply' \in [error : BOOLEAN, status : Nat]
      BY <1>1 DEF ClientInv, ClientTypeOK
<1> QED
    BY <1>1, <1>2, <1>3, OperationReturns

\* A new operation, and the caller that has taken its result.
LEMMA BeginPreserves ==
    ASSUME NEW o, NEW p, NEW ended \in BOOLEAN, Begin(o, p, ended)
    PROVE  ClientInv'
<1>1. Call(MethodOf(o), IF o \in {"CountTokens", "LoadCodeAssist"} THEN "none" ELSE p)
      BY DEF Begin
<1>2. over' \in BOOLEAN /\ ~forbidden403' /\ forbidden403' \in BOOLEAN
      BY DEF Begin
<1> QED
    BY <1>1, <1>2, CallStarts

LEMMA ForgetPreserves == Forget => ClientInv'
<1>1. Forget => Fresh'
      BY DEF Forget, Fresh, NoReply
<1> QED
    BY <1>1, FreshInv, PTL

LEMMA StutterPreserves == ClientInv /\ UNCHANGED client => ClientInv'
<1> SUFFICES ASSUME ClientInv, UNCHANGED client PROVE ClientInv'
    OBVIOUS
<1>1. UNCHANGED <<op, project, over, call, strip, endpoint, asked, reply, forbidden403>>
      BY DEF client, request
<1>2. ClientTypeOK' /\ NextIsDue' /\ DisabledIsStripped' /\ AnswerIsLast' /\ ForbiddenIsReturned'
      BY <1>1 DEF ClientInv, ClientTypeOK, NextIsDue, DisabledIsStripped, AnswerIsLast,
                  Answered403, ForbiddenIsReturned, Latest
<1>3. NothingIsRepeated' /\ LastAnswerIsTold' /\ ForbiddenIsReal'
      BY <1>1 DEF ClientInv, CallIsFaithful, NothingIsRepeated, Restarted, FellBack, Retryable,
                  LastAnswerIsTold, OverToCaller, HandsOn, ForbiddenIsReal, Answered403, Latest
<1> QED
    BY <1>2, <1>3 DEF ClientInv, CallIsFaithful

LEMMA ClientStepPreserves == ClientInv /\ ClientStep => ClientInv'
<1> SUFFICES ASSUME ClientInv, ClientStep PROVE ClientInv'
    OBVIOUS
<1>1. CASE \E s \in Statuses, disabled \in BOOLEAN : Ask(s, disabled)
      BY <1>1, AskPreserves
<1>2. CASE GiveUp
      BY <1>2, GiveUpPreserves
<1>3. CASE \E readable \in BOOLEAN : Peek(readable) \/ Read(readable)
      BY <1>3, PeekPreserves, ReadPreserves
<1>4. CASE RefetchQuota
      <2>1. call = "done" /\ CallAgain(method, "none") /\ UNCHANGED forbidden403
            BY <1>4 DEF RefetchQuota, Answered
      <2> QED
          BY <2>1, CallAgainPreserves
<1>5. CASE \E fine \in BOOLEAN : ModelsFetched(fine) \/ SummaryFetched(fine) \/ AssistLoaded(fine)
      BY <1>5, ModelsPreserve, SummaryPreserves, AssistPreserves
<1> QED
    BY <1>1, <1>2, <1>3, <1>4, <1>5 DEF ClientStep

LEMMA ClientNextPreserves == ClientInv /\ [ClientNext]_client => ClientInv'
<1> SUFFICES ASSUME ClientInv, [ClientNext]_client PROVE ClientInv'
    OBVIOUS
<1>1. CASE \E o \in Operations, p \in Projects, ended \in BOOLEAN : Begin(o, p, ended)
      BY <1>1, BeginPreserves
<1> QED
    BY <1>1, ClientStepPreserves, ExpiresPreserves, ForgetPreserves, StutterPreserves
    DEF ClientNext

\* Client.call, LoadCodeAssist and FetchQuota, whoever uses them and whatever
\* the endpoints answer: no endpoint is asked again that accepted or refused,
\* the caller is told what the last one said, and only a refusal without a
\* project is a forbidden account.
THEOREM CallsAreFaithful == ClientInit /\ [][ClientNext]_client => []CallIsFaithful
<1>1. ClientInit => ClientInv
      <2>1. ClientInit => Fresh
            BY DEF ClientInit, Fresh
      <2> QED
          BY <2>1, FreshInv
<1>2. ClientInv => CallIsFaithful
      BY DEF ClientInv
<1> QED
    BY <1>1, <1>2, ClientNextPreserves, PTL

-----------------------------------------------------------------------------
(* The loop and the client. *)

\* Every step of the composition is one of the loop, or not a step of it.
LEMMA CallStepIsLoopStep == CallNext => [Next]_vars
<1> SUFFICES ASSUME CallNext PROVE [Next]_vars
    OBVIOUS
<1>1. CASE OtherStep
      BY <1>1 DEF OtherStep, Next, Step
<1>2. CASE BeginUpstream
      BY <1>2 DEF BeginUpstream, Next, Step
<1>3. CASE Succeeds
      BY <1>3 DEF Succeeds, Next, Step
<1>4. CASE \E f \in Failures : Fails(f)
      BY <1>4 DEF Fails, Next, Step
<1>5. CASE ClientWorks \/ AccountCallEnds \/ BeginAccountCall \/ ClientExpires
      BY <1>5 DEF ClientWorks, AccountCallEnds, BeginAccountCall, ClientExpires
<1>6. CASE RequestContextEnds
      BY <1>6 DEF RequestContextEnds, Next
<1> QED
      BY <1>1, <1>2, <1>3, <1>4, <1>5, <1>6 DEF CallNext, CallStep

\* The loop on top of the Cloud Code client (Server.proxy with Client.call)
\* behaves as the loop with any upstream.
THEOREM CallImplementsLoop == CallSpec => Spec
<1>1. CallInit => Init
      BY DEF CallInit
<1>2. [CallNext]_<<vars, client, operation, begun>> => [Next]_vars
      BY CallStepIsLoopStep DEF vars, plan, account, memory, counts, status, reports
<1> QED
      BY <1>1, <1>2, PTL DEF CallSpec, Spec

\* With the client below it, a request calls the upstream at most
\* 3 * MAX_RETRY_ATTEMPTS + 1 times.
COROLLARY CallRetriesAreBounded == CallSpec => []AttemptsAreBounded
      BY CallImplementsLoop, RetriesAreBounded, PTL

\* With the client below it, the status of a failed request is the last one of
\* the upstream.
COROLLARY CallAnswersAreHonest == CallSpec => []AnswerIsHonest
      BY CallImplementsLoop, AnswersAreHonest, PTL

OperationOK == operation \in Operations

LEMMA OperationStays == OperationOK /\ [CallNext]_<<vars, client, operation, begun>> => OperationOK'
BY DEF OperationOK, CallNext, CallStep, OtherStep, BeginUpstream, Succeeds, Fails, ClientWorks,
       AccountCallEnds, BeginAccountCall, ClientExpires, RequestContextEnds

\* Every step of the composition is one of the client, or not a step of it.
LEMMA CallStepIsClientStep == OperationOK /\ CallNext => [ClientNext]_client
<1> SUFFICES ASSUME OperationOK, CallNext PROVE [ClientNext]_client
    OBVIOUS
<1>1. CASE OtherStep
      <2>1. Forget \/ UNCHANGED client
            BY <1>1 DEF OtherStep
      <2> QED
          BY <2>1 DEF ClientNext
<1>2. CASE BeginUpstream
      <2>1. Begin(operation, "real", ctx # 0)
            BY <1>2 DEF BeginUpstream
      <2> QED
          BY <2>1 DEF ClientNext, Operations, Projects, OperationOK
<1>3. CASE Succeeds \/ (\E f \in Failures : Fails(f)) \/ AccountCallEnds
      <2>1. Forget
            BY <1>3 DEF Succeeds, Fails, AccountCallEnds
      <2> QED
          BY <2>1 DEF ClientNext
<1>4. CASE ClientWorks
      BY <1>4 DEF ClientWorks, ClientNext
<1>5. CASE BeginAccountCall
      <2>1. \E o \in {"LoadCodeAssist", "FetchQuota"}, p \in Projects : Begin(o, p, FALSE)
            BY <1>5 DEF BeginAccountCall
      <2> QED
          BY <2>1 DEF ClientNext, Operations
<1>6. CASE ClientExpires
      BY <1>6 DEF ClientExpires, ClientNext
<1>7. CASE RequestContextEnds
      BY <1>7 DEF RequestContextEnds, ClientNext
<1> QED
    BY <1>1, <1>2, <1>3, <1>4, <1>5, <1>6, <1>7 DEF CallNext, CallStep

\* However the proxy loop and the pool use the client, its calls are faithful.
THEOREM LoopCallsAreFaithful == CallSpec => []CallIsFaithful
<1>1. CallInit => ClientInit /\ OperationOK
      BY DEF CallInit, OperationOK, Operations
<1>2. OperationOK /\ [CallNext]_<<vars, client, operation, begun>> => [ClientNext]_client
      BY CallStepIsClientStep
<1> QED
    BY <1>1, <1>2, OperationStays, CallsAreFaithful, PTL DEF CallSpec
=============================================================================
