---------------------------- MODULE MCProxyLoop ----------------------------
(* A small instance of ProxyCall for TLC: one failure per way through. *)
EXTENDS ProxyCall

Plain(s, c) == [status |-> s, hinted |-> FALSE, delay |-> 0, category |-> c]
Hinted(s, d, c) == [status |-> s, hinted |-> TRUE, delay |-> d, category |-> c]

SomeFailures ==
    {Hinted(429, 0, "rate_limit"), Hinted(429, 6, "rate_limit"),
     Hinted(429, 1, "quota_exhausted"), Plain(429, "unknown_rate_limit"),
     Plain(429, "resource_exhausted"), Plain(429, "rate_limit"),
     Plain(400, "penalty"), Plain(302, "other"),
     Plain(401, "other"), Plain(403, "denied"), Plain(404, "other"),
     Plain(502, "other"), Hinted(503, 0, "other")}

\* 502 is also the status of an error.
SomeStatuses == ({0, 200} \cup {f.status : f \in SomeFailures}) \ {502}

\* (Direct generation differs from the second one in nothing that is modelled.)
SomePlans == {<<TRUE, TRUE, "Generate">>, <<FALSE, TRUE, "Generate">>,
              <<FALSE, FALSE, "CountTokens">>}
=============================================================================
