------------------------------ MODULE MCExchange ------------------------------
(* Exchange with the frames of a small upstream and one client. *)
EXTENDS Exchange

Part(kind, body, sig, id, call) == [kind |-> kind, body |-> body, sig |-> sig, id |-> id, call |-> call]
Text == Part("text", TRUE, None, None, None)
LateSig == Part("text", FALSE, "s1", None, None)
Thought == Part("thought", TRUE, None, None, None)
Tool == Part("tool", FALSE, None, 1, <<"fs", "read">>)

Parts == { Text, LateSig, Thought, Tool,
           Part("thought", TRUE, "s1", None, None),
           Part("thought", FALSE, "s2", None, None),
           Part("thought", FALSE, None, None, None),
           Part("tool", FALSE, "s1", 1, <<"fs", "read">>),      \* repeats Tool
           Part("tool", FALSE, None, 1, <<"fs", "write">>),      \* its id with other arguments
           Part("tool", FALSE, None, None, <<"fs", "write">>),   \* no id
           Part("tool", FALSE, None, None, None) } \* no name

Candidate(idx, parts, reason) == [index |-> idx, parts |-> parts, finish |-> reason]

MCFrames ==
  {<<Candidate(0, <<p>>, None)>> : p \in Parts}
  \cup {<<Candidate(0, <<>>, f)>> : f \in {"STOP", "MAX_TOKENS", "SAFETY"}}
  \cup { <<>>,
         <<Candidate(0, <<Text>>, "STOP")>>,
         <<Candidate(0, <<Thought, Text>>, None)>>,
         <<Candidate(0, <<Text, LateSig>>, None)>>,
         <<Candidate(0, <<Thought, Tool>>, None)>>,
         <<Candidate(2, <<Text>>, None)>>,
         <<Candidate(1, <<Tool>>, "STOP"), Candidate(0, <<Text>>, None)>>,
         <<Candidate(0, <<Text>>, "STOP"), Candidate(1, <<Text>>, "STOP")>> }

MCTools == << [ns |-> <<"fs">>, name |-> <<"read">>], [ns |-> <<"mail">>, name |-> <<"read">>],
              [ns |-> <<>>, name |-> <<"fs", "write">>] >>

MCNames == {"gpt-4o", "gemini-3.1-pro", "claude-sonnet-4-6"}

Rule(from, to, percent, enabled) == [from |-> from, to |-> to, percent |-> percent, enabled |-> enabled]
MCRules == << Rule("claude-opus-4-5", "gpt-4o", 100, FALSE), Rule("gemini-3.1-pro-low", "gemini-3.7-flash", 50, TRUE) >>
CrossingRules == << Rule("claude-sonnet-4-6-thinking", "gemini-3.1-pro", 50, TRUE) >>

Asks(thinking, budget, effort, max) ==
  [thinking |-> thinking, budget |-> budget, effort |-> effort, max |-> max, choice |-> [mode |-> "AUTO", name |-> None]]
MCSettings == { Asks(None, None, None, None),
                Asks("disabled", None, "high", 0),
                Asks("enabled", 60000, None, 70000),
                Asks("adaptive", None, "low", 100),
                Asks("", 1000, None, 1000),
                [Asks(None, None, "none", 100) EXCEPT !.choice.name = <<"read">>] }
FewSettings == {Asks(None, None, None, None)}

Offer(m, forwarding) == [models |-> m, forwarding |-> forwarding]
MCOffers == { Offer(Models, <<>>),
              Offer({"gemini-3.1-pro-low", "gemini-3-pro-image"},
                    [m \in {"gemini-2.5-flash", "gemini-3.7-flash-low"} |-> "gemini-3-pro-image"]) }

MCLimit == [entries |-> 2, bytes |-> 3, single |-> 2]
=============================================================================
