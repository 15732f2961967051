---------------------------- MODULE OpenAIStream ----------------------------
(***************************************************************************)
(* WriteOpenAISSE (convert/stream.go): one chunk per part, all candidates  *)
(* side by side.  Each candidate begins with its role; the finish reasons  *)
(* and [DONE] are written only after the whole upstream stream was walked. *)
(***************************************************************************)
EXTENDS GeminiStream

VARIABLE states   \* candidate index -> [toolIndex, finish]

OpenAIInit == states = <<>>

Chunk(idx, field, what) == [ev |-> "chunk", index |-> idx, kind |-> field, what |-> what]

OpenAICandidate ==
  LET c == Head(todo)
      new == c.index \notin DOMAIN states
      events == IF new THEN <<Chunk(c.index, "role", None)>> ELSE <<>>
      old == IF new THEN [toolIndex |-> 0, finish |-> None] ELSE states[c.index]
  IN  /\ Visiting("candidate")
      /\ \/ /\ Delivered(events) /\ Visited /\ Goes
            /\ states' = [i \in DOMAIN states \cup {c.index} |->
                            IF i # c.index THEN states[i]
                            ELSE [old EXCEPT !.finish = IF c.finish # None THEN c.finish ELSE @]]
            /\ UNCHANGED <<calls, used>>
         \/ Broken(events) /\ UNCHANGED states

OpenAITool ==
  LET p == Head(todo)
      events == <<[ev |-> "chunk", index |-> p.index, kind |-> "tool_calls", what |-> CallOf(p),
                   place |-> states[p.index].toolIndex]>>
  IN  /\ NewTool
      /\ \/ /\ Delivered(events) /\ Visited /\ Goes /\ Register(p)
            /\ states' = [states EXCEPT ![p.index].toolIndex = @ + 1]
         \/ Broken(events) /\ UNCHANGED states

OpenAIText ==
  LET p == Head(todo)
      events == (IF p.body
                 THEN <<Chunk(p.index, IF p.kind = "thought" THEN "reasoning_content" ELSE "content", This)>>
                 ELSE <<>>)
                \o (IF p.sig # None THEN <<Chunk(p.index, "reasoning_signature", p.sig)>> ELSE <<>>)
  IN  /\ Visiting("text") \/ Visiting("thought")
      /\ \/ Delivered(events) /\ Visited /\ Goes /\ UNCHANGED <<calls, used>>
         \/ Broken(events)
      /\ UNCHANGED states

OpenAIEnd ==
  LET order == Ascending(DOMAIN states)
      finishes == [k \in DOMAIN order |->
                     Chunk(order[k], "finish",
                           FinishReason(states[order[k]].finish, states[order[k]].toolIndex > 0))]
      events == IF cause # None THEN <<[ev |-> "error"]>> ELSE finishes \o <<[ev |-> "[DONE]"]>>
  IN  /\ phase = "closing"
      /\ \/ /\ Delivered(events)
            /\ phase' = IF cause = None THEN "done" ELSE "failed"
            /\ UNCHANGED <<protocol, prelude, read, cause, seen, todo, given, calls, used>>
         \/ Broken(events)
      /\ UNCHANGED states

OpenAINext == \/ WalkNext /\ UNCHANGED states
              \/ OpenAICandidate \/ OpenAITool \/ OpenAIText \/ OpenAIEnd
=============================================================================
