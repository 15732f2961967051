------------------------------ MODULE ProxyCall ------------------------------
(***************************************************************************)
(* The proxy loop with the Cloud Code client below it: what UpstreamFails  *)
(* and UpstreamSucceeds of ProxyLoop assume about the upstream is what an  *)
(* operation of CloudCodeClient returned, under the context of the request. *)
(* Before the request, the pool may have used the client for the account.  *)
(***************************************************************************)
EXTENDS ProxyLoop, CloudCodeClient

CONSTANT Plans  \* the plans of the handlers: stream, penalties, operation

ASSUME PlansAssumption ==
    Plans \subseteq BOOLEAN \X BOOLEAN \X {"Generate", "GenerateDirect", "CountTokens"}

VARIABLES
    operation,  \* of the plan: plan.count, plan.direct, or Generate
    begun       \* (bound) no account call once the request, or a call, began

NoCall == op = "none"

BeginUpstream ==
    /\ SendUpstream
    /\ Begin(operation, "real", ctx # 0)
    /\ UNCHANGED <<operation, begun>>

Returned == pc = "upstream" /\ call = "returned"

\* 2xx, and a body that the converter understands.
Succeeds ==
    /\ Returned /\ ~reply.error /\ reply.status \in 200 .. 299
    /\ UpstreamSucceeds
    /\ Forget
    /\ UNCHANGED <<operation, begun>>

\* The status of the answer, 502 if there is none or it cannot be converted.
Fails(f) ==
    /\ Returned
    /\ f.status = IF reply.error \/ reply.status \in 200 .. 299 THEN 502 ELSE reply.status
    /\ UpstreamFails(f)
    /\ Forget
    /\ UNCHANGED <<operation, begun>>

\* Hydration and refresh of accounts (LoadCodeAssist, FetchQuota).
BeginAccountCall ==
    /\ pc = "loop" /\ attempts = 0 /\ ctx = 0
    /\ ~begun /\ begun' = TRUE
    /\ \E o \in {"LoadCodeAssist", "FetchQuota"}, p \in Projects : Begin(o, p, FALSE)
    /\ UNCHANGED <<vars, operation>>

AccountCallEnds ==
    /\ call = "returned" /\ pc # "upstream"
    /\ Forget
    /\ UNCHANGED <<vars, operation, begun>>

ClientWorks ==
    /\ ClientStep
    /\ pc = "upstream" /\ stream /\ call = "read" => ~reply'.error
    /\ UNCHANGED <<vars, operation, begun>>

\* doJSON gives up after 20 seconds; a generation has the time of the request.
ClientExpires ==
    /\ Expires
    /\ op \in {"CountTokens", "LoadCodeAssist", "FetchQuota"}
    /\ UNCHANGED <<vars, operation, begun>>

\* The context of the request is the one of the call.
RequestContextEnds ==
    /\ ContextEnds
    /\ IF pc = "upstream" /\ call \in {"ask", "peek", "read"} /\ ~over
       THEN Expires ELSE UNCHANGED client
    /\ UNCHANGED <<operation, begun>>

\* (A panic of the converter happens in "upstream" after the call.)
OtherStep ==
    /\ \/ Loop \/ (\E a \in Accounts : Acquire(a)) \/ AcquireFails
       \/ BuildFails \/ FailedByContext \/ RefreshToken \/ Elapse \/ WaitCancelled
       \/ \E f \in failure : RejectedPenalty(f) \/ Failed(f) \/ MarkLimited(f) \/ Decide(f)
       \/ Respond \/ StreamEnds \/ (\E f \in Failures : StreamFails(f))
       \/ (\E f \in failure : LateLimit(f))
       \/ Fail \/ Panic
    /\ pc = "upstream" => call = "returned"
    /\ IF pc = "upstream" THEN Forget ELSE NoCall /\ UNCHANGED client
    /\ begun' = TRUE /\ UNCHANGED operation

CallStep ==
    \/ OtherStep \/ BeginUpstream \/ Succeeds \/ (\E f \in Failures : Fails(f))
    \/ ClientWorks \/ AccountCallEnds

CallInit ==
    /\ Init /\ ClientInit
    /\ operation \in {"Generate", "GenerateDirect", "CountTokens"}
    /\ <<stream, penalties, operation>> \in Plans
    /\ begun = FALSE

CallNext == CallStep \/ BeginAccountCall \/ ClientExpires \/ RequestContextEnds

\* The fairness of ProxyLoop, and network calls end.
CallSpec == CallInit /\ [][CallNext]_<<vars, client, operation, begun>> /\ WF_<<vars, client, operation, begun>>(CallStep)
=============================================================================
