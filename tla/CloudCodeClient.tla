--------------------------- MODULE CloudCodeClient ---------------------------
(***************************************************************************)
(* One operation of the Cloud Code client: every call goes through the     *)
(* list of endpoints until one of them answers, once more from the first   *)
(* without the project header if the project has the service disabled; an  *)
(* operation on quotas makes up to four such calls.                        *)
(*                                                                         *)
(* The client keeps no state between operations.  Bodies are left out but  *)
(* for what decides the next call.  A payload names a project that exists, *)
(* one of the placeholders, or none.                                       *)
(***************************************************************************)
EXTENDS Naturals, Sequences

CONSTANTS Endpoints,  \* how many endpoints there are
          Statuses    \* what the upstream may answer; 0 for no answer

ASSUME ClientAssumption ==
    /\ Endpoints \in Nat \ {0}
    /\ Statuses \subseteq Nat

Projects == {"real", "placeholder", "none"}
Operations == {"Generate", "GenerateDirect", "CountTokens", "LoadCodeAssist", "FetchQuota"}

VARIABLES
    op, method, project,  \* the operation, its current call, project of the payload
    over,       \* the context ended, or the 20 seconds of doJSON are over
    call,       \* "none", "ask", "peek", "read" or "done"
    strip,      \* stripProject
    endpoint,   \* the next one
    asked,      \* every request of this call, with its answer
    reply,      \* what the call, and in the end the operation, returns
    owner,      \* the project the operation was asked about
    forbidden403  \* QuotaData.IsForbidden

request == <<op, method, project, owner>>
client == <<request, over, call, strip, endpoint, asked, reply, forbidden403>>

NoReply == [error |-> FALSE, status |-> 0]

ClientInit ==
    /\ op = "none" /\ method = "none" /\ project = "none" /\ owner = "none"
    /\ over = FALSE /\ call = "none" /\ strip = FALSE /\ endpoint = 1
    /\ asked = <<>> /\ reply = NoReply /\ forbidden403 = FALSE

-----------------------------------------------------------------------------
(* call. *)

Call(m, p) ==
    /\ method' = m /\ project' = p
    /\ call' = "ask" /\ strip' = FALSE /\ endpoint' = 1
    /\ asked' = <<>> /\ reply' = NoReply

\* applyHeaders with payloadProject: generation never sends the project as a
\* header, and a placeholder is not a project.
SendsProject ==
    /\ method \notin {"generateContent", "streamGenerateContent"}
    /\ project = "real"
    /\ ~strip

Retryable(s) == s \in {404, 408} \/ s >= 500

\* (mutant) The last endpoint falls back on nothing.
FallsBack_Always(s) == Retryable(s)

FallsBack(s) == Retryable(s) /\ endpoint < Endpoints

\* The generating operations and CountTokens hand the answer on.
HandsOn == op \in {"Generate", "GenerateDirect", "CountTokens"}

Done == IF HandsOn THEN "returned" ELSE "done"

Latest == asked[Len(asked)]

Returns(error, status) ==
    /\ reply' = [error |-> error, status |-> status]
    /\ call' = IF error THEN Done ELSE "read"

\* One endpoint is asked: no answer, an answer for which the next one is asked,
\* a 403 that is looked into, or the answer of the call.
Ask(s, disabled) ==
    /\ call = "ask" /\ ~over /\ endpoint <= Endpoints
    /\ disabled => s = 403
    /\ asked' = Append(asked, [endpoint |-> endpoint, project |-> SendsProject,
                               status |-> s, disabled |-> disabled])
    /\ \/ /\ s = 0 \/ FallsBack(s)
          /\ endpoint' = endpoint + 1
          /\ UNCHANGED <<call, reply>>
       \/ /\ s # 0 /\ ~FallsBack(s)
          /\ IF s = 403 /\ SendsProject
             THEN call' = "peek" /\ UNCHANGED reply
             ELSE Returns(FALSE, s)
          /\ UNCHANGED endpoint
    /\ UNCHANGED <<request, over, strip, forbidden403>>

\* The context is looked at before every request; after the last endpoint the
\* last error is returned.
GiveUp ==
    /\ call = "ask"
    /\ over \/ endpoint > Endpoints
    /\ Returns(TRUE, 0)
    /\ UNCHANGED <<request, over, strip, endpoint, asked, forbidden403>>

\* The body of the 403: it cannot be read, it says that the service is disabled
\* for the project, or it is handed on.
Peek(readable) ==
    /\ call = "peek"
    /\ \/ ~readable /\ Returns(TRUE, 0) /\ UNCHANGED <<strip, endpoint>>
       \/ /\ readable /\ Latest.disabled
          /\ strip' = TRUE /\ endpoint' = 1
          /\ call' = "ask"
          /\ UNCHANGED reply
       \/ /\ readable /\ ~Latest.disabled
          /\ Returns(FALSE, 403)
          /\ UNCHANGED <<strip, endpoint>>
    /\ UNCHANGED <<request, over, asked, forbidden403>>

\* readBounded or CollectGeminiJSON; a stream is handed on unread (and so is
\* always readable here).
Read(readable) ==
    /\ call = "read"
    /\ call' = Done
    /\ reply' = [reply EXCEPT !.error = ~readable]
    /\ UNCHANGED <<request, over, strip, endpoint, asked, forbidden403>>

Expires ==
    /\ call \in {"ask", "peek", "read"} /\ ~over
    /\ over' = TRUE
    /\ UNCHANGED <<request, call, strip, endpoint, asked, reply, forbidden403>>

-----------------------------------------------------------------------------
(* The operations. *)

MethodOf(o) ==
    CASE o = "Generate" -> "streamGenerateContent"
      [] o = "GenerateDirect" -> "generateContent"
      [] o = "CountTokens" -> "countTokens"
      [] o = "LoadCodeAssist" -> "loadCodeAssist"
      [] o = "FetchQuota" -> "fetchAvailableModels"

\* Only the payloads of generation and of quotas name the project.
Begin(o, p, ended) ==
    /\ op = "none"
    /\ op' = o /\ owner' = p
    /\ over' = ended
    /\ forbidden403' = FALSE
    /\ Call(MethodOf(o), IF o \in {"CountTokens", "LoadCodeAssist"} THEN "none" ELSE p)

Answered == call = "done" /\ op = "FetchQuota"

\* Each doJSON has its own timeout; what ended the context of the caller stays.
CallAgain(m, p) ==
    /\ Call(m, p)
    /\ over' \in {FALSE, over}
    /\ UNCHANGED <<op, owner>>

Refetches == reply.status = 403 /\ project # "none"

\* fetchAvailableModels was forbidden for the project: once more without it.
RefetchQuota ==
    /\ Answered /\ method = "fetchAvailableModels"
    /\ ~reply.error /\ Refetches
    /\ CallAgain(method, "none")
    /\ UNCHANGED forbidden403

\* A 403 is a result, not an error; other failures and bodies that are not JSON
\* are errors; else the summary of the quota groups is fetched.
ModelsFetched(parsed) ==
    /\ Answered /\ method = "fetchAvailableModels"
    /\ ~(~reply.error /\ Refetches)
    /\ \/ /\ ~reply.error /\ reply.status < 400 /\ parsed
          /\ CallAgain("retrieveUserQuotaSummary", owner)
          /\ UNCHANGED forbidden403
       \/ /\ reply.error \/ reply.status >= 400 \/ ~parsed
          /\ forbidden403' = (~reply.error /\ reply.status = 403)
          /\ reply' = [reply EXCEPT !.error = ~forbidden403']
          /\ call' = "returned"
          /\ UNCHANGED <<request, over, strip, endpoint, asked>>

\* The summary may fail or be empty, also without the project: nobody is told.
SummaryFetched(groups) ==
    /\ Answered /\ method = "retrieveUserQuotaSummary"
    /\ groups => ~reply.error /\ reply.status < 400
    /\ IF ~groups /\ project # "none"
       THEN CallAgain(method, "none")
       ELSE /\ reply' = [error |-> FALSE, status |-> 200]
            /\ call' = "returned"
            /\ UNCHANGED <<request, over, strip, endpoint, asked>>
    /\ UNCHANGED forbidden403

\* LoadCodeAssist: what is not a success, or not JSON, is an error.
AssistLoaded(parsed) ==
    /\ call = "done" /\ op = "LoadCodeAssist"
    /\ reply' = [reply EXCEPT !.error = @ \/ reply.status >= 400 \/ ~parsed]
    /\ call' = "returned"
    /\ UNCHANGED <<request, over, strip, endpoint, asked, forbidden403>>

ClientStep ==
    \/ \E s \in Statuses, disabled \in BOOLEAN : Ask(s, disabled)
    \/ GiveUp
    \/ \E readable \in BOOLEAN : Peek(readable) \/ Read(readable)
    \/ RefetchQuota
    \/ \E fine \in BOOLEAN : ModelsFetched(fine) \/ SummaryFetched(fine) \/ AssistLoaded(fine)

\* The caller has taken the result.
Forget ==
    /\ op' = "none" /\ method' = "none" /\ project' = "none" /\ owner' = "none"
    /\ over' = FALSE /\ call' = "none" /\ strip' = FALSE /\ endpoint' = 1
    /\ asked' = <<>> /\ reply' = NoReply /\ forbidden403' = FALSE

\* What may happen to the client, whoever uses it.
ClientNext ==
    \/ ClientStep \/ Expires \/ Forget
    \/ \E o \in Operations, p \in Projects, ended \in BOOLEAN : Begin(o, p, ended)

-----------------------------------------------------------------------------
(* Properties. *)

Answered403 == Latest.status = 403 /\ Latest.project

OverToCaller == call = "done" \/ (call = "returned" /\ HandsOn)

Restarted(i) ==
    /\ asked[i].disabled /\ asked[i].project
    /\ asked[i + 1].endpoint = 1
    /\ \A j \in i + 1 .. Len(asked) : ~asked[j].project

FellBack(i) ==
    /\ asked[i].status = 0 \/ Retryable(asked[i].status)
    /\ asked[i + 1].endpoint = asked[i].endpoint + 1

NothingIsRepeated == \A i \in 1 .. Len(asked) - 1 : Restarted(i) \/ FellBack(i)

LastAnswerIsTold ==
    OverToCaller =>
        /\ reply.status # 0 =>
              /\ reply.status = Latest.status
              /\ Retryable(reply.status) => Latest.endpoint = Endpoints
        /\ reply = [error |-> TRUE, status |-> 0] =>
              \/ over \/ Answered403
              \/ Latest.status = 0 /\ Latest.endpoint = Endpoints

ForbiddenIsReal == forbidden403 => project = "none" /\ Latest.status = 403

\* Nothing is repeated that an endpoint accepted or refused for good: before
\* the last request of a call there are only endpoints that could not answer,
\* each asked in its turn, and at most one 403 that told us to leave the
\* project header out.  The caller is told what the last endpoint said, and
\* gets an error instead of an answer only if that one gave no answer, the
\* context ended, or the body could not be read.  And an account is only
\* reported as forbidden if it was refused without naming a project.
CallIsFaithful == NothingIsRepeated /\ LastAnswerIsTold /\ ForbiddenIsReal
=============================================================================
