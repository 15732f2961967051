--------------------------- MODULE CollectedAnswer ---------------------------
(***************************************************************************)
(* The answer of a call that is not streamed: CollectGeminiJSON            *)
(* (convert/stream.go) joins the frames into one response, which           *)
(* GeminiToOpenAI (convert/openai.go) and GeminiToClaude (convert/claude.go)*)
(* turn into messages.                                                     *)
(***************************************************************************)
EXTENDS GeminiStream

VARIABLE saved   \* candidate index -> [parts, finish]

CollectInit == saved = <<>>

SavedPart(p, id) ==
  [kind |-> p.kind, text |-> IF p.body THEN <<This>> ELSE <<>>, sig |-> p.sig, id |-> id, name |-> p.call]

\* Two unsigned texts of the same kind become one part.
Joins(parts, p) ==
  /\ parts # <<>> /\ p.kind # "tool" /\ p.body /\ p.sig = None
  /\ LET last == Last(parts) IN last.kind = p.kind /\ last.text # <<>> /\ last.sig = None

WithPart(parts, p, id) ==
  IF Joins(parts, p) THEN [parts EXCEPT ![Len(parts)].text = Append(@, This)]
  ELSE Append(parts, SavedPart(p, id))

CollectCandidate ==
  LET c == Head(todo)
      old == IF c.index \in DOMAIN saved THEN saved[c.index] ELSE [parts |-> <<>>, finish |-> None]
  IN  /\ Visiting("candidate") /\ Visited /\ Goes
      /\ saved' = [i \in DOMAIN saved \cup {c.index} |->
                     IF i # c.index THEN saved[i]
                     ELSE [old EXCEPT !.finish = IF c.finish # None THEN c.finish ELSE @]]
      /\ UNCHANGED <<calls, used, out>>

CollectPart ==
  LET p == Head(todo)
      id == IF p.kind = "tool" THEN CallId(p) ELSE None
  IN  /\ NewTool \/ Visiting("text") \/ Visiting("thought")
      /\ saved' = [saved EXCEPT ![p.index].parts = WithPart(@, p, id)]
      /\ IF p.kind = "tool" THEN Register(p) ELSE UNCHANGED <<calls, used>>
      /\ Visited /\ Goes /\ UNCHANGED out

\* The part of a call that was seen before is retained: a signature that comes
\* with the repetition is added to it.
CollectRepeated ==
  LET p == Head(todo)
      Resigned(q) == IF q.kind = "tool" /\ q.id = CallId(p) /\ p.sig # None
                     THEN [q EXCEPT !.sig = p.sig] ELSE q
  IN  /\ ToolRepeated
      /\ saved' = [saved EXCEPT ![p.index].parts = [k \in DOMAIN @ |-> Resigned(@[k])]]

-----------------------------------------------------------------------------
(* The two conversions *)

TextsOf(parts, kind) == FlattenSeq([k \in DOMAIN parts |-> IF parts[k].kind = kind THEN parts[k].text ELSE <<>>])

CallsOf(parts) == LET tools == Among(parts, {k \in DOMAIN parts : parts[k].kind = "tool"})
                  IN  [k \in DOMAIN tools |-> [id |-> tools[k].id, name |-> tools[k].name, sig |-> tools[k].sig]]

Message(idx) ==
  LET parts == saved[idx].parts
  IN  [index |-> idx, content |-> TextsOf(parts, "text"), reasoning |-> TextsOf(parts, "thought"),
       sig |-> LET signed == Among(parts, {k \in DOMAIN parts : parts[k].kind # "tool" /\ parts[k].sig # None})
               IN  IF signed = <<>> THEN None ELSE Last(signed).sig,
       calls |-> CallsOf(parts), finish |-> FinishReason(saved[idx].finish, CallsOf(parts) # <<>>)]

\* The blocks of the first candidate; a signature goes to the thinking block
\* before it unless text or a tool call came between.
Blocks(parts) ==
  LET Step(acc, q) ==
        LET lastThinking == acc # <<>> /\ Last(acc).type = "thought"
        IN  CASE q.kind = "tool" \/ q.text # <<>> ->
                   Append(acc, [type |-> q.kind, text |-> q.text, id |-> q.id, name |-> q.name,
                                sig |-> IF q.kind = "text" THEN None ELSE q.sig])
              [] OTHER -> IF lastThinking /\ q.sig # None THEN [acc EXCEPT ![Len(acc)].sig = q.sig] ELSE acc
  IN  FoldLeft(Step, <<>>, parts)

ClaudeMessage(idx) ==
  LET answer == saved[idx]
  IN  [content |-> Blocks(answer.parts),
       stop |-> CASE answer.finish = "MAX_TOKENS" -> "max_tokens"
                  [] answer.finish = "SAFETY" -> "refusal"
                  [] OTHER -> IF CallsOf(answer.parts) # <<>> THEN "tool_use" ELSE "end_turn"]

\* The collected response is sorted by index; the answer is written as a whole.
CollectEnd ==
  LET order == Ascending(DOMAIN saved)
      answer == [ev |-> "json", choices |-> [k \in DOMAIN order |-> Message(order[k])],
                 message |-> ClaudeMessage(order[1])]
  IN  /\ phase = "closing"
      /\ phase' = IF cause = None THEN "done" ELSE "failed"
      /\ out' = IF cause = None THEN <<answer>> ELSE <<>>
      /\ UNCHANGED <<protocol, prelude, read, cause, seen, todo, given, calls, used, saved>>

CollectNext ==
  \/ \E f \in Frames : ReadFrame(f) /\ UNCHANGED saved
  \/ (WalkEnds \/ WalkFails \/ ToolRefused) /\ UNCHANGED saved
  \/ CollectRepeated \/ CollectCandidate \/ CollectPart \/ CollectEnd
=============================================================================
