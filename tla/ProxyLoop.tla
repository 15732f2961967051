----------------------------- MODULE ProxyLoop -----------------------------
(***************************************************************************)
(* One request in Server.proxy: the loop over accounts with the grace      *)
(* retry after a short limit, the single refresh after a 401, the single   *)
(* retry without penalty parameters, and the retry policy.  Pool.Acquire,  *)
(* the upstream, the client and the timers are the environment; what       *)
(* concurrent requests do to each other is the subject of Pool.            *)
(*                                                                         *)
(* Durations are in whole seconds and the random margin of a delay is left *)
(* out.  The context ends at any time, with the status that contextFailure *)
(* gives it.                                                               *)
(***************************************************************************)
EXTENDS Naturals, FiniteSets

CONSTANTS Accounts,
          Nobody,            \* "no account"
          MaxRetryAttempts,  \* MAX_RETRY_ATTEMPTS
          Failures           \* the failed answers the upstream may give

Categories == {"quota_exhausted", "rate_limit", "model_capacity_exhausted",
               "resource_exhausted", "unknown_rate_limit",
               "penalty", "denied", "other"}

\* A failed answer: its status (502 for a transport error or an answer that
\* cannot be decoded), the delay it asks for, and what its body says.
Failure == [status : Nat, hinted : BOOLEAN, delay : Nat, category : Categories]

ASSUME ProxyAssumption ==
    /\ Nobody \notin Accounts
    /\ MaxRetryAttempts \in Nat \ {0}
    /\ Failures \subseteq Failure
    /\ \A f \in Failures : f.status >= 300

VARIABLES
    pc,             \* place in the function
    ctx,            \* 0, or the status of a context that ended: 499 or 504
    stream,         \* plan.stream
    penalties,      \* the payload has penalty parameters
    acc,            \* the account of the current attempt
    held,           \* whose slot the request holds
    reuse,          \* reuse # nil: the next attempt keeps account and slot
    failure,        \* the last failed answer; {} or a set of one
    exclude, graceUsed, refreshed,  \* as in the code, sets of accounts
    omitPenalties,
    attempts, totalAttempts,
    lastStatus, retryAfter,
    limited,        \* (aux) limits that this request recorded
    forbidden,      \* (aux) accounts it set forbidden
    answer          \* status, Retry-After and logged status of the response

memory == <<exclude, graceUsed, refreshed, omitPenalties>>
counts == <<attempts, totalAttempts>>
reports == <<limited, forbidden>>
plan == <<stream, penalties>>
account == <<acc, held, reuse>>
status == <<lastStatus, retryAfter>>
vars == <<pc, ctx, plan, account, failure, memory, counts, status, reports, answer>>

Places == {"loop", "acquire", "build", "upstream", "failed", "refresh", "limit",
           "decide", "grace", "pause", "stream", "late", "respond", "fail",
           "answered"}
NoAnswer == [status |-> 0, retryAfter |-> 0, logged |-> 0]
Scopes == Accounts \X {"account", "model"}

TypeOK ==
    /\ pc \in Places
    /\ ctx \in {0, 499, 504}
    /\ {stream, penalties, reuse, omitPenalties} \subseteq BOOLEAN
    /\ {acc, held} \subseteq Accounts \cup {Nobody}
    /\ failure \in {{}} \cup {{f} : f \in Failures}
    /\ {exclude, graceUsed, refreshed, forbidden} \subseteq SUBSET Accounts
    /\ {attempts, totalAttempts, lastStatus, retryAfter} \subseteq Nat
    /\ limited \subseteq Scopes
    /\ answer \in [status : Nat, retryAfter : Nat, logged : Nat]

Init ==
    /\ pc = "loop" /\ ctx = 0
    /\ stream \in BOOLEAN /\ penalties \in BOOLEAN
    /\ acc = Nobody /\ held = Nobody /\ reuse = FALSE
    /\ failure = {}
    /\ exclude = {} /\ graceUsed = {} /\ refreshed = {} /\ omitPenalties = FALSE
    /\ attempts = 0 /\ totalAttempts = 0
    /\ lastStatus = 0 /\ retryAfter = 0
    /\ limited = {} /\ forbidden = {}
    /\ answer = NoAnswer

-----------------------------------------------------------------------------
(* retryPolicy. *)

Smaller(a, b) == IF a < b THEN a ELSE b
Larger(a, b) == IF a < b THEN b ELSE a

\* The delay that is hinted, or the backoff of attempt n (from 0).
Delay(f, n) ==
    IF f.hinted THEN f.delay
    ELSE IF f.status = 429 THEN 5 * Smaller(n + 1, 6)
    ELSE 2 ^ Smaller(n, 4)

Retries(f) == f.status \in {401, 403, 404, 408, 429} \/ f.status >= 500

ModelScoped(f) == f.status = 429 /\ f.category = "quota_exhausted"

\* (mutant) A limit without a hint is not a cooldown.
Cooldown_HintedOnly(f, n) == IF f.hinted THEN f.delay ELSE 0

Cooldown(f, n) ==
    CASE f.status = 429 /\ ~f.hinted
              /\ f.category \in {"quota_exhausted", "unknown_rate_limit"} -> 60
      [] f.status = 429 /\ ~f.hinted /\ f.category = "resource_exhausted" -> 30
      [] f.status = 429 /\ (f.hinted \/ f.category \notin
              {"quota_exhausted", "unknown_rate_limit", "resource_exhausted"}) ->
              Larger(Delay(f, n), 1)
      [] f.status = 403 -> 600
      [] f.status >= 500 -> Smaller(Delay(f, n), 30)
      [] OTHER -> 0

Grace(f) == f.status = 429 /\ f.hinted /\ f.delay <= 5 /\ ~ModelScoped(f)

-----------------------------------------------------------------------------
(* The loop. *)

Goto(place) == pc' = place
Release == held' = Nobody

\* The context ended: 499 or 504 is the last status.
ContextFailure == lastStatus' = ctx /\ UNCHANGED retryAfter

Loop ==
    /\ pc = "loop"
    /\ \/ /\ ~reuse /\ attempts >= MaxRetryAttempts
          /\ Goto("fail")
          /\ UNCHANGED <<reuse, status>>
       \/ /\ reuse \/ attempts < MaxRetryAttempts
          /\ ctx # 0
          /\ ContextFailure
          /\ Goto("fail")
          /\ UNCHANGED reuse
       \/ /\ reuse \/ attempts < MaxRetryAttempts
          /\ ctx = 0
          /\ Goto(IF reuse THEN "build" ELSE "acquire")
          /\ reuse' = FALSE
          /\ UNCHANGED status
    /\ UNCHANGED <<ctx, plan, acc, held, failure, memory, counts, reports, answer>>

\* Pool.Acquire returns an account it was not told to exclude.
Acquire(a) ==
    /\ pc = "acquire"
    /\ a \notin exclude
    /\ acc' = a /\ held' = a
    /\ attempts' = attempts + 1
    /\ Goto("build")
    /\ UNCHANGED <<ctx, plan, reuse, failure, memory, totalAttempts, status, reports,
                   answer>>

\* (mutant) Exhaustion hides what the upstream said.
Unavailable_Always == 503

Unavailable == IF lastStatus = 0 THEN 503 ELSE lastStatus

\* The context ended, or no account is available; the error may say for how
\* long (1 stands for any time).
AcquireFails ==
    /\ pc = "acquire"
    /\ \/ ctx # 0 /\ ContextFailure
       \/ /\ ctx = 0
          /\ lastStatus' = Unavailable
          /\ retryAfter' \in {retryAfter, 1}
    /\ Goto("fail")
    /\ UNCHANGED <<ctx, plan, account, failure, memory, counts, reports, answer>>

BuildFails ==
    /\ pc = "build"
    /\ Release
    /\ lastStatus' = 400
    /\ Goto("fail")
    /\ UNCHANGED <<ctx, plan, acc, reuse, failure, memory, counts, retryAfter, reports,
                   answer>>

\* (What is sent to count tokens has the form that the code insists on.)
SendUpstream ==
    /\ pc = "build"
    /\ totalAttempts' = totalAttempts + 1
    /\ Goto("upstream")
    /\ UNCHANGED <<ctx, plan, account, failure, memory, attempts, status, reports, answer>>

\* 2xx, and its first event or its body can be decoded.
UpstreamSucceeds ==
    /\ pc = "upstream"
    /\ Goto(IF stream THEN "stream" ELSE "respond")
    /\ UNCHANGED <<ctx, plan, account, failure, memory, counts, status, reports, answer>>

UpstreamFails(f) ==
    /\ pc = "upstream"
    /\ failure' = {f}
    /\ Goto("failed")
    /\ UNCHANGED <<ctx, plan, account, memory, counts, status, reports, answer>>

-----------------------------------------------------------------------------
(* After a failed attempt. *)

\* The context is looked at before the answer is.
FailedByContext ==
    /\ pc = "failed"
    /\ ctx # 0
    /\ Release
    /\ ContextFailure
    /\ Goto("fail")
    /\ UNCHANGED <<ctx, plan, acc, reuse, failure, memory, counts, reports, answer>>

Rejects(f) == f.status = 400 /\ f.category = "penalty" /\ penalties /\ ~omitPenalties

\* The parameters are stripped and the account is used again.
RejectedPenalty(f) ==
    /\ pc = "failed" /\ ctx = 0
    /\ Rejects(f)
    /\ lastStatus' = f.status
    /\ omitPenalties' = TRUE
    /\ reuse' = TRUE
    /\ Goto("loop")
    /\ UNCHANGED <<ctx, plan, acc, held, failure, exclude, graceUsed, refreshed, counts,
                   retryAfter, reports, answer>>

\* (mutant) A refused token is refreshed again and again.
MayRefresh_Again(f) == f.status = 401

MayRefresh(f) == f.status = 401 /\ acc \notin refreshed

\* The answer is noted, a 403 that denies permission is stored, and a refused
\* token is about to be refreshed.
Failed(f) ==
    /\ pc = "failed" /\ ctx = 0
    /\ ~Rejects(f)
    /\ lastStatus' = f.status
    /\ retryAfter' = Cooldown(f, attempts - 1)
    /\ forbidden' = IF f.status = 403 /\ f.category = "denied"
                    THEN forbidden \cup {acc} ELSE forbidden
    /\ refreshed' = IF MayRefresh(f) THEN refreshed \cup {acc} ELSE refreshed
    /\ Goto(IF MayRefresh(f) THEN "refresh" ELSE "limit")
    /\ UNCHANGED <<ctx, plan, account, failure, exclude, graceUsed, omitPenalties, counts,
                   limited, answer>>

\* InvalidateTokenContext and RefreshTokenContext (Credentials).
RefreshToken ==
    /\ pc = "refresh"
    /\ reuse' \in BOOLEAN
    /\ Goto(IF reuse' THEN "loop" ELSE "limit")
    /\ UNCHANGED <<ctx, plan, acc, held, failure, memory, counts, status, reports, answer>>

Mark(f) == IF Cooldown(f, attempts - 1) > 0
           THEN limited \cup {<<acc, IF ModelScoped(f) THEN "model" ELSE "account">>}
           ELSE limited

MarkLimited(f) ==
    /\ pc = "limit"
    /\ limited' = Mark(f)
    /\ Goto("decide")
    /\ UNCHANGED <<ctx, plan, account, failure, memory, counts, status, forbidden, answer>>

\* (mutant) The next account is acquired on top of the last one.
HeldAfterTry_Kept == held

HeldAfterTry == Nobody

\* Not worth a retry; on the same account after a short wait; or on another
\* account, if attempts are left.
Decide(f) ==
    /\ pc = "decide"
    /\ \/ /\ ~Retries(f)
          /\ Release
          /\ Goto("fail")
          /\ UNCHANGED <<graceUsed, exclude>>
       \/ /\ Retries(f) /\ Grace(f) /\ acc \notin graceUsed
          /\ graceUsed' = graceUsed \cup {acc}
          /\ Goto("grace")
          /\ UNCHANGED <<held, exclude>>
       \/ /\ Retries(f) /\ ~(Grace(f) /\ acc \notin graceUsed)
          /\ exclude' = exclude \cup {acc}
          /\ held' = HeldAfterTry
          /\ Goto(IF attempts >= MaxRetryAttempts THEN "fail" ELSE "pause")
          /\ UNCHANGED graceUsed
    /\ UNCHANGED <<ctx, plan, acc, reuse, failure, refreshed, omitPenalties, counts, status,
                   reports, answer>>

\* (mutant) The wait only ends when the context does.
Elapsed_Never == FALSE

Elapsed == pc \in {"grace", "pause"}

\* s.wait returns nil.
Elapse ==
    /\ Elapsed
    /\ reuse' = (pc = "grace")
    /\ Goto("loop")
    /\ UNCHANGED <<ctx, plan, acc, held, failure, memory, counts, status, reports, answer>>

WaitCancelled ==
    /\ pc \in {"grace", "pause"}
    /\ ctx # 0
    /\ Release
    /\ ContextFailure
    /\ Goto("fail")
    /\ UNCHANGED <<ctx, plan, acc, reuse, failure, memory, counts, reports, answer>>

-----------------------------------------------------------------------------
(* The response. *)

Answer(s, retry, logged) ==
    /\ answer' = [status |-> s, retryAfter |-> retry, logged |-> logged]
    /\ Goto("answered")

\* ClearLimitedBefore: the limits of this request are older than its attempt.
Clear == limited' = limited \ ({acc} \X {"account", "model"})

\* What is logged when writing to the client fails.
Broken == {IF ctx # 0 THEN ctx ELSE 502}

\* The JSON response is written after the slot is returned.
Respond ==
    /\ pc = "respond"
    /\ Release
    /\ Clear
    /\ \E logged \in {200} \cup Broken : Answer(200, 0, logged)
    /\ UNCHANGED <<ctx, plan, acc, reuse, failure, memory, counts, status, forbidden>>

\* The stream ends, completely or because the client or the upstream broke it
\* off.  The HTTP status was sent with the first event.
StreamEnds ==
    /\ pc = "stream"
    /\ Release
    /\ \/ Clear /\ Answer(200, 0, 200)
       \/ UNCHANGED limited /\ \E logged \in Broken : Answer(200, 0, logged)
    /\ UNCHANGED <<ctx, plan, acc, reuse, failure, memory, counts, status, forbidden>>

\* An error event of the upstream in mid-stream.
StreamFails(f) ==
    /\ pc = "stream"
    /\ f.status >= 400
    /\ Release
    /\ failure' = {f}
    /\ Goto("late")
    /\ UNCHANGED <<ctx, plan, acc, reuse, memory, counts, status, reports, answer>>

LateLimit(f) ==
    /\ pc = "late"
    /\ limited' = Mark(f)
    /\ Answer(200, 0, IF ctx # 0 THEN ctx ELSE f.status)
    /\ UNCHANGED <<ctx, plan, account, failure, memory, counts, status, forbidden>>

\* After the loop: a slot that was to be reused is returned.
Fail ==
    LET s == IF lastStatus < 400 THEN 503 ELSE lastStatus
    IN  /\ pc = "fail"
        /\ Release
        /\ Answer(s, retryAfter, s)
        /\ UNCHANGED <<ctx, plan, acc, reuse, failure, memory, counts, status, reports>>

\* A converter panics: the deferred function releases, Recoverer answers.
Panic ==
    /\ pc \in {"build", "upstream", "stream"}
    /\ Release
    /\ Answer(IF pc = "stream" THEN 200 ELSE 500, 0, 0)
    /\ UNCHANGED <<ctx, plan, acc, reuse, failure, memory, counts, status, reports>>

-----------------------------------------------------------------------------
\* The client leaves, the server closes, or RequestTimeout is over.
ContextEnds ==
    /\ ctx = 0 /\ pc # "answered"
    /\ ctx' \in {499, 504}
    /\ UNCHANGED <<pc, plan, account, failure, memory, counts, status, reports, answer>>

Step ==
    \/ Loop \/ (\E a \in Accounts : Acquire(a)) \/ AcquireFails
    \/ BuildFails \/ SendUpstream \/ UpstreamSucceeds
    \/ \E f \in Failures : UpstreamFails(f)
    \/ FailedByContext \/ RefreshToken \/ Elapse \/ WaitCancelled
    \/ \E f \in failure : RejectedPenalty(f) \/ Failed(f) \/ MarkLimited(f) \/ Decide(f)
    \/ Respond \/ StreamEnds \/ (\E f \in Failures : StreamFails(f))
    \/ (\E f \in failure : LateLimit(f))
    \/ Fail \/ Panic

Next == Step \/ ContextEnds

Spec == Init /\ [][Next]_vars

\* Acquire returns (Pool), network calls, writes and timers end.
FairSpec == Spec /\ WF_vars(Step)

-----------------------------------------------------------------------------
(* Properties. *)

\* The retries that do not use up attempts are bounded too: an account gets
\* one grace retry and one refresh per request, the request one retry without
\* penalties, and no account is tried again after it was given up.
AttemptsAreBounded == totalAttempts <= 3 * MaxRetryAttempts + 1

\* Between two accounts and after the answer the request holds no slot, on
\* every way through the loop, also when a converter panics or a wait is
\* cancelled; during an attempt it holds the slot of that account.
SlotFollowsAttempt ==
    LET free == \/ pc \in {"acquire", "pause", "late", "answered"}
                \/ pc = "loop" /\ ~reuse
    IN  /\ free => held = Nobody
        /\ ~free /\ pc # "fail" => held = acc

\* "Keep the last upstream status and error; return Retry-After": the client
\* is told what the upstream said last, never that no account is available
\* after some account answered, and a 429 comes with Retry-After.
AnswerIsHonest ==
    answer.status >= 400 =>
        /\ \/ answer.status \in {ctx, 400}
           \/ answer.status = 500 /\ answer.logged = 0
           \/ failure = {} /\ answer.status = 503
           \/ \E f \in failure : answer.status = IF f.status < 400 THEN 503 ELSE f.status
        /\ answer.status = 429 => answer.retryAfter > 0

\* While the context lives, the slot of an account that is limited is not
\* passed on before the limit is recorded; only an error in mid-stream is
\* recorded after the release.
LimitsComeFirst ==
    [][/\ held # Nobody /\ held' = Nobody /\ ctx = 0
       /\ pc \in {"failed", "limit", "decide", "fail"}
       => \A f \in failure : f.status \in {403, 429} =>
             <<held, IF ModelScoped(f) THEN "model" ELSE "account">> \in limited]_vars

\* Every request is answered.
RequestEnds == <>(pc = "answered")
=============================================================================
