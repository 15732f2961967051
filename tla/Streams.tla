------------------------------- MODULE Streams -------------------------------
(***************************************************************************)
(* One answer of the upstream, written by any of the writers: the walk of  *)
(* GeminiStream composed with each protocol, and what every answer must    *)
(* satisfy whatever the upstream sends and wherever the client breaks off. *)
(***************************************************************************)
EXTENDS ClaudeStream, ResponsesStream, OpenAIStream, CollectedAnswer

vars == <<walkVars, claudeVars, responsesVars, states, saved>>

StreamsInit == Init /\ ClaudeInit /\ ResponsesInit /\ OpenAIInit /\ CollectInit

ClaudeStep == protocol = "claude" /\ ClaudeNext /\ UNCHANGED <<responsesVars, states, saved>>
ResponsesStep == protocol = "responses" /\ ResponsesNext /\ UNCHANGED <<claudeVars, states, saved>>
OpenAIStep == protocol = "openai" /\ OpenAINext /\ UNCHANGED <<claudeVars, responsesVars, saved>>
CollectStep == protocol = "json" /\ CollectNext /\ UNCHANGED <<claudeVars, responsesVars, states>>

Finished == Over /\ UNCHANGED vars

Next == ClaudeStep \/ ResponsesStep \/ OpenAIStep \/ CollectStep \/ Finished

Spec == StreamsInit /\ [][Next]_vars

-----------------------------------------------------------------------------
(* The order of the events of each protocol, told of any events s *)

Before(s, i, ev) == Cardinality({j \in 1..(i - 1) : s[j].ev = ev})

IsLast(s, i) == i = Len(s)

\* message_start, then blocks that are numbered, filled while open and stopped
\* before the next one, then message_delta and message_stop; or an error.
ClaudeOrder(s, i) ==
  LET e == s[i]
      opened == Before(s, i, "content_block_start")
      stopped == Before(s, i, "content_block_stop")
      Fills(b) == e.kind = b.kind \/ (e.kind = "signature" /\ b.kind = "thinking")
  IN  CASE e.ev = "message_start" -> i = 1
        [] e.ev = "content_block_start" -> i > 1 /\ opened = stopped /\ e.index = opened
        [] e.ev = "content_block_delta" ->
             /\ opened = stopped + 1 /\ e.index = stopped
             /\ \E j \in 1..(i - 1) : s[j].ev = "content_block_start" /\ s[j].index = e.index /\ Fills(s[j])
        [] e.ev = "content_block_stop" -> opened = stopped + 1 /\ e.index = stopped
        [] e.ev = "message_delta" -> opened = stopped /\ i > 1
        [] e.ev = "message_stop" -> IsLast(s, i) /\ Before(s, i, "message_delta") = 1
        [] OTHER -> IsLast(s, i)

\* The items that are done.
Done(s) == LET dones == Among(s, {j \in DOMAIN s : s[j].ev = "output_item.done"})
           IN  [k \in DOMAIN dones |-> dones[k].item]

\* Items are added and done one at a time, each with its texts in between; the
\* terminal event repeats exactly the items that were done.
ResponsesOrder(s, i) ==
  LET e == s[i]
      added == Before(s, i, "output_item.added")
      done == Before(s, i, "output_item.done")
  IN  CASE e.ev = "response.created" -> i = 1
        [] e.ev = "response.in_progress" -> i = 2
        [] e.ev = "output_item.added" -> i > 2 /\ added = done /\ e.index = added + 1
        [] e.ev \in {"content_part.added", "delta", "done", "content_part.done"} ->
             added = done + 1 /\ e.index = added
        [] e.ev = "output_item.done" -> /\ added = done + 1 /\ e.index = added
                                        /\ e.item.type # "function_call" =>
                                             e.item.text = s[i - 1].what /\ e.item.text = s[i - 2].what
        [] OTHER -> IsLast(s, i) /\ added = done /\ e.output = Done(s)

\* The role of a candidate comes first and once, its calls are numbered, and
\* nothing follows the finish reasons but [DONE].
OpenAIOrder(s, i) ==
  LET e == s[i]
      earlier(kind) == {j \in 1..(i - 1) : s[j].ev = "chunk" /\ s[j].index = e.index /\ s[j].kind = kind}
  IN  IF e.ev # "chunk" THEN IsLast(s, i)
      ELSE /\ e.kind = "role" <=> earlier("role") = {}
           /\ e.kind = "tool_calls" => e.place = Cardinality(earlier("tool_calls"))
           /\ e.kind # "finish" => \A j \in 1..(i - 1) : s[j].kind # "finish"
           /\ e.kind = "finish" => earlier("finish") = {}

\* Whatever the order in which text, thinking, signatures and tool calls come,
\* and wherever the stream breaks, the events of each protocol are well nested
\* and numbered, and nothing follows a terminal event (closeBlock, startBlock,
\* closeItem, startText and their callers).
EventsAreInOrder ==
  \A i \in DOMAIN out : CASE protocol = "claude" -> ClaudeOrder(out, i)
                          [] protocol = "responses" -> ResponsesOrder(out, i)
                          [] protocol = "openai" -> OpenAIOrder(out, i)
                          [] OTHER -> IsLast(out, i)

-----------------------------------------------------------------------------
(* What the events say *)

Intact == cause # "write"

\* What the events of s at the places K say.
Said(s, K) == LET said == Among(s, K) IN [k \in DOMAIN said |-> said[k].what]

\* The places of the parts K, in their order.
Places(K) == Among([k \in DOMAIN given |-> k], K)

IsProse(k) == given[k].kind \in {"text", "thought"} /\ given[k].body

Tells(e) == /\ e.ev \in {"content_block_delta", "delta", "chunk"}
            /\ e.kind \in {"text", "thinking", "message", "reasoning", "content", "reasoning_content"}

Prose(s) == Said(s, {i \in DOMAIN s : Tells(s[i])})

\* The texts and thoughts of one candidate that are of these kinds.
ProseOf(kinds, index_) == {k \in DOMAIN given : IsProse(k) /\ given[k].kind \in kinds /\ given[k].index = index_}

\* What blocks of these types tell.
BlockTexts(blocks, types) ==
  FlattenSeq([b \in DOMAIN blocks |-> IF blocks[b].type \in types THEN blocks[b].text ELSE <<>>])

\* Every text and every thought reaches the client exactly once and in its
\* order: in the events, in the items that repeat them, in the messages of the
\* choices and in the blocks of the collected Claude message.
TextIsTold ==
  /\ Intact /\ protocol # "json" => Prose(out) = Places({k \in DOMAIN given : IsProse(k)})
  /\ protocol = "responses" /\ Over /\ Intact /\ out # <<>> =>
       FlattenSeq([k \in DOMAIN outputs |-> outputs[k].text]) = Places({k \in DOMAIN given : IsProse(k)})
  /\ protocol = "json" /\ phase = "done" =>
       LET choices == out[1].choices
       IN  /\ \A m \in Range(choices) : /\ m.content = Places(ProseOf({"text"}, m.index))
                                       /\ m.reasoning = Places(ProseOf({"thought"}, m.index))
           /\ \A kinds \in SUBSET {"text", "thought"} :
                BlockTexts(out[1].message.content, kinds) = Places(ProseOf(kinds, choices[1].index))

\* What an event or an item of this kind tells of the part k is what it is.
IsToldAs(kind, k) == given[k].kind = IF kind \in {"text", "message", "content"} THEN "text" ELSE "thought"

\* A delta is of the kind of the part it tells, and a chunk of its candidate;
\* an item has the type of all the parts it tells, also where it is repeated.
TextIsToldAsItWas ==
  Intact =>
    /\ \A e \in ToSet(out) :
         /\ Tells(e) => IsToldAs(e.kind, e.what) /\ (e.ev = "chunk" => given[e.what].index = e.index)
         /\ e.ev = "output_item.done" => \A n \in ToSet(e.item.text) : IsToldAs(e.item.type, n)
    /\ \A item \in ToSet(outputs) : \A n \in ToSet(item.text) : IsToldAs(item.type, n)

\* Every text and every thought the upstream sent reaches the client exactly
\* once, in its order and as what it was, a text never as a thought nor a
\* thought as a text: in the deltas of each protocol, in the items and choices
\* that repeat them and in the blocks of the collected Claude message (the
\* visit functions of stream.go and responses.go, GeminiToOpenAI,
\* GeminiToClaude).
TextIsKept == TextIsTold /\ TextIsToldAsItWas

\* The calls that are not a repetition under an id of their candidate.
IsNewCall(k) ==
  /\ given[k].kind = "tool"
  /\ given[k].id # None => \A j \in 1..(k - 1) : given[j].kind = "tool" => CallKey(given[j]) # CallKey(given[k])

IsCall(e) == \/ e.ev \in {"content_block_delta", "chunk"} /\ e.kind \in {"tool_use", "tool_calls"}
             \/ e.ev = "output_item.done" /\ e.item.type = "function_call"

\* The ids of the calls that are delivered, by their places.
CallIds ==
  IF protocol = "json"
  THEN LET choices == IF out = <<>> THEN <<>> ELSE out[1].choices
           places == UNION {{k} \X DOMAIN choices[k].calls : k \in DOMAIN choices}
       IN  [c \in places |-> choices[c[1]].calls[c[2]].id]
  ELSE [i \in {i \in DOMAIN out : IsCall(out[i])} |->
          IF protocol = "responses" THEN out[i].item.call.id ELSE out[i].what.id]

\* A call the upstream repeats under its id is delivered once; calls without an
\* id are all delivered; no two calls of an answer carry the same id, also when
\* two candidates use the same one (streamToolRegistry.prepare).
CallsAreOnce ==
  /\ IsInjective(CallIds)
  /\ Intact /\ (protocol # "json" \/ phase = "done") =>
       Cardinality(DOMAIN CallIds) = Cardinality({k \in DOMAIN given : IsNewCall(k)})

\* Parts k and l > k are in one thinking block: nothing that closes it between.
SameBlock(k, l) ==
  \A j \in (k + 1)..l : ~(IsNewCall(j) \/ (given[j].kind = "text" /\ given[j].body))

OpensThinking(k) == given[k].kind = "thought" /\ (given[k].body \/ given[k].sig # None)

\* The signatures that must reach the client: the last one of each thinking block.
LastSignature(l) ==
  /\ given[l].kind \in {"text", "thought"} /\ given[l].sig # None
  /\ ~(given[l].kind = "text" /\ given[l].body)
  /\ \E k \in 1..l : OpensThinking(k) /\ SameBlock(k, l)
  /\ \A j \in (l + 1)..Len(given) :
       SameBlock(l, j) => given[j].kind \notin {"text", "thought"} \/ given[j].sig = None

\* The signature of a thinking block is written once, in that block and after
\* all of its text, also when it comes with a later part that has no text of
\* its own (pendingSig): the client must send it back with the thinking.
SignaturesAreKept ==
  protocol = "claude" /\ phase = "done" =>
    LET IsSignature(e) == e.ev = "content_block_delta" /\ e.kind = "signature"
        signed == Among(given, {l \in DOMAIN given : LastSignature(l)})
    IN  /\ Said(out, {i \in DOMAIN out : IsSignature(out[i])}) = [k \in DOMAIN signed |-> signed[k].sig]
        /\ \A i \in DOMAIN out : IsSignature(out[i]) => out[i + 1].ev = "content_block_stop"

-----------------------------------------------------------------------------
(* How it ends *)

Claims(e) == \/ e.ev \in {"message_stop", "[DONE]", "json", "response.completed"}
             \/ e.ev = "response.incomplete" /\ e.error = None

Fails(e) == e.ev = "error" \/ (e.ev = "response.incomplete" /\ e.error # None)

\* Nothing is written before the first frame is known to be good.  A writer
\* that returns nil has written all of an answer whose every candidate ended
\* with a finish reason, and says so; one that returns an error has never
\* claimed success, and unless the client is gone it has told it.
EndIsHonest ==
  /\ phase \in {"prepare", "refused"} => out = <<>>
  /\ \A i \in DOMAIN out : Claims(out[i]) => phase = "done"
  /\ phase = "done" =>
       /\ Claims(Last(out)) /\ cause = None
       /\ DOMAIN seen # {} /\ \A idx \in DOMAIN seen : seen[idx].finish # None
  /\ phase = "done" /\ protocol = "responses" /\ Last(out).ev = "response.completed" =>
       \E k \in DOMAIN outputs : outputs[k].type \in {"message", "function_call"} /\ outputs[k].status = "completed"
  /\ phase = "failed" /\ Intact /\ protocol # "json" => Fails(Last(out))
=============================================================================
