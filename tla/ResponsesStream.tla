-------------------------- MODULE ResponsesStream --------------------------
(***************************************************************************)
(* WriteResponsesSSEWithTools (convert/responses.go): the answer is a list *)
(* of output items.  Text and reasoning of one candidate share an item     *)
(* until something else comes; a tool call is an item of its own.  Unlike  *)
(* the other protocols this one ends with a terminal event that carries    *)
(* the partial output even when the upstream fails.  A custom tool call    *)
(* differs from a function call in the names of its events only.           *)
(***************************************************************************)
EXTENDS GeminiStream

VARIABLES outputs,     \* items: [type, status, text, sig, call]
          active,      \* place of the open item in outputs, or 0
          activeCand,  \* the candidate it belongs to
          text,        \* what was written to it: places in "given"
          kept,        \* the finishReason that counts (finish)
          actionable   \* an answer or a tool call was written

responsesVars == <<outputs, active, activeCand, text, kept, actionable>>

ResponsesInit ==
  /\ outputs = <<>> /\ active = 0 /\ activeCand = 0
  /\ text = <<>> /\ kept = None /\ actionable = FALSE

Prologue == <<[ev |-> "response.created"], [ev |-> "response.in_progress"]>>

-----------------------------------------------------------------------------
Item(type, call) == [type |-> type, status |-> "in_progress", text |-> <<>>, sig |-> None, call |-> call]

Added(i, type) == [ev |-> "output_item.added", index |-> i, kind |-> type]
PartAdded(i) == [ev |-> "content_part.added", index |-> i]
TextDelta(i, type) == [ev |-> "delta", index |-> i, kind |-> type, what |-> This]
TextDone(i, body) == [ev |-> "done", index |-> i, what |-> body]
PartDone(i, body) == [ev |-> "content_part.done", index |-> i, what |-> body]
ItemDone(i, item) == [ev |-> "output_item.done", index |-> i, item |-> item]

ClosedItem(status) == [outputs[active] EXCEPT !.text = text, !.status = status]

\* closeItem: the events that close the open item, and the outputs after it.
ClosingItem(status) ==
  IF active = 0 THEN <<>>
  ELSE <<TextDone(active, text), PartDone(active, text), ItemDone(active, ClosedItem(status))>>

OutputsClosed(status) == IF active = 0 THEN outputs ELSE [outputs EXCEPT ![active] = ClosedItem(status)]

Signed(items, i, sig) == IF sig = None THEN items ELSE [items EXCEPT ![i].sig = sig]

-----------------------------------------------------------------------------
(* The two events before the first frame is read *)
ResponsesBegins ==
  /\ phase = "walk" /\ out = <<>>
  /\ \/ /\ Delivered(Prologue)
        /\ UNCHANGED <<protocol, prelude, read, phase, cause, seen, todo, given, calls, used>>
     \/ Broken(Prologue)
  /\ UNCHANGED responsesVars

\* MAX_TOKENS or a refusal is not forgotten for a later STOP.
ResponsesCandidate ==
  LET f == Head(todo).finish
  IN  /\ Visiting("candidate")
      /\ kept' = IF f # None /\ kept \in {None, "STOP"} THEN f ELSE kept
      /\ Visited /\ Goes
      /\ UNCHANGED <<calls, used, out, outputs, active, activeCand, text, actionable>>

ResponsesTool ==
  LET p == Head(todo)
      i == Len(outputs) + 1
      item == [Item("function_call", CallOf(p)) EXCEPT !.status = "completed"]
      events == ClosingItem("completed")
                \o <<Added(i, "function_call"),
                     [ev |-> "delta", index |-> i, kind |-> "function_call", what |-> CallOf(p)],
                     [ev |-> "done", index |-> i, what |-> CallOf(p)], ItemDone(i, item)>>
  IN  /\ NewTool
      /\ \/ /\ Delivered(events) /\ Visited /\ Goes /\ Register(p)
            /\ outputs' = Append(OutputsClosed("completed"), item)
            /\ active' = 0 /\ text' = <<>> /\ actionable' = TRUE
            /\ UNCHANGED <<activeCand, kept>>
         \/ Broken(events) /\ UNCHANGED responsesVars

\* (mutant) Thoughts are sent as the answer.
TypeOf_Message(kind) == "message"

TypeOf(kind) == IF kind = "thought" THEN "reasoning" ELSE "message"

Continues(p) == active # 0 /\ outputs[active].type = TypeOf(p.kind) /\ activeCand = p.index

\* A chunk goes to the open item of its type and candidate (startText).
ResponsesText ==
  LET p == Head(todo)
      type == TypeOf(p.kind)
      i == IF Continues(p) THEN active ELSE Len(outputs) + 1
      items == IF Continues(p) THEN outputs ELSE Append(OutputsClosed("completed"), Item(type, None))
      events == (IF Continues(p) THEN <<>>
                 ELSE ClosingItem("completed") \o <<Added(i, type), PartAdded(i)>>) \o <<TextDelta(i, type)>>
  IN  /\ Visiting("text") \/ Visiting("thought")
      /\ p.body
      /\ \/ /\ Delivered(events) /\ Visited /\ Goes
            /\ outputs' = Signed(items, i, p.sig)
            /\ active' = i /\ activeCand' = p.index
            /\ text' = Append(IF Continues(p) THEN text ELSE <<>>, This)
            /\ actionable' = (actionable \/ type = "message")
            /\ UNCHANGED <<calls, used, kept>>
         \/ Broken(events) /\ UNCHANGED responsesVars

\* A part without text only brings its signature to the open item.
ResponsesSignature ==
  /\ Visiting("text") \/ Visiting("thought")
  /\ ~Head(todo).body
  /\ outputs' = IF active = 0 THEN outputs ELSE Signed(outputs, active, Head(todo).sig)
  /\ Visited /\ Goes
  /\ UNCHANGED <<calls, used, out, active, activeCand, text, kept, actionable>>

-----------------------------------------------------------------------------
Reasons == {"max_output_tokens", "content_filter", "interrupted"}

ASSUME ReasonsAssumption == None \notin Reasons

\* What the finish reason makes of an answer that arrived.
Reason ==
  CASE kept = "MAX_TOKENS" -> "max_output_tokens"
    [] kept = "SAFETY" -> "content_filter"
    [] OTHER -> None

EndReason == IF cause # None THEN "interrupted"
             ELSE IF ~actionable /\ Reason = None THEN "interrupted" ELSE Reason

\* The error the writer returns: an answer without text or tool call is one.
EndCause == IF cause = None /\ ~actionable /\ Reason = None THEN "empty_response" ELSE cause

EndStatus == IF EndReason = None THEN "completed" ELSE "incomplete"

EndEvent == IF EndReason = None THEN "response.completed" ELSE "response.incomplete"

ResponsesEnd ==
  LET final == OutputsClosed(EndStatus)
      events == ClosingItem(EndStatus)
                \o <<[ev |-> EndEvent, output |-> final, reason |-> EndReason, error |-> EndCause]>>
  IN  /\ phase = "closing"
      /\ \/ /\ Delivered(events)
            /\ outputs' = final /\ active' = 0 /\ text' = <<>>
            /\ phase' = IF EndCause = None THEN "done" ELSE "failed"
            /\ cause' = EndCause
            /\ UNCHANGED <<protocol, prelude, read, seen, todo, given, calls, used, activeCand, kept, actionable>>
         \/ Broken(events) /\ UNCHANGED responsesVars

ResponsesNext == \/ (phase = "prepare" \/ out # <<>>) /\ WalkNext /\ UNCHANGED responsesVars
                 \/ ResponsesBegins \/ ResponsesCandidate \/ ResponsesTool
                 \/ ResponsesText \/ ResponsesSignature \/ ResponsesEnd
=============================================================================
