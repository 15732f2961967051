---------------------------- MODULE ClaudeStream ----------------------------
(***************************************************************************)
(* WriteClaudeSSE (convert/stream.go): the parts of the first candidate    *)
(* become content blocks, each started, filled and stopped before the next *)
(* one starts.  Tool calls are blocks of their own; text and thinking      *)
(* parts of one kind share a block; the signature of a thinking block is   *)
(* held back until the block closes.                                       *)
(***************************************************************************)
EXTENDS GeminiStream

VARIABLES started,     \* message_start was written
          index,       \* of the open or the next block
          block,       \* kind of the open block, or None
          pendingSig,  \* signature held back for the thinking block
          usedTool,    \* a tool call was written
          finish       \* the last finishReason

claudeVars == <<started, index, block, pendingSig, usedTool, finish>>

ClaudeInit ==
  /\ started = FALSE /\ index = 0 /\ block = None
  /\ pendingSig = None /\ usedTool = FALSE /\ finish = None

-----------------------------------------------------------------------------
\* None stands for no block at all.
ASSUME BlocksAssumption == None \notin {"text", "thinking", "tool_use"}

Start(i, kind) == [ev |-> "content_block_start", index |-> i, kind |-> kind]
Delta(i, kind, what) == [ev |-> "content_block_delta", index |-> i, kind |-> kind, what |-> what]
Stop(i) == [ev |-> "content_block_stop", index |-> i]

HoldsSignature == block = "thinking" /\ pendingSig # None

\* closeBlock: the events that close the open block, if there is one.
Closing ==
  IF block = None THEN <<>>
  ELSE (IF HoldsSignature THEN <<Delta(index, "signature", pendingSig)>> ELSE <<>>) \o <<Stop(index)>>

AfterClose == IF block = None THEN index ELSE index + 1

\* (mutant) The signature is not cleared when its block closes.
SigAfterClose_Kept == pendingSig

SigAfterClose == IF HoldsSignature THEN None ELSE pendingSig

\* (mutant) A block of another kind starts while one is open.
Opening_NoClose(kind) == IF block = kind THEN <<>> ELSE <<Start(AfterClose, kind)>>

\* startBlock, unless a block of that kind is open and may be continued.
Opening(kind) == IF block = kind THEN <<>> ELSE Closing \o <<Start(AfterClose, kind)>>

IndexIn(kind) == IF block = kind THEN index ELSE AfterClose

SigIn(kind) == IF block = kind THEN pendingSig ELSE SigAfterClose

-----------------------------------------------------------------------------
ClaudeCandidate ==
  LET c == Head(todo)
      events == IF started THEN <<>> ELSE <<[ev |-> "message_start"]>>
  IN  /\ Visiting("candidate")
      /\ \/ /\ Delivered(events) /\ Visited /\ Goes
            /\ started' = TRUE
            /\ finish' = IF c.finish # None THEN c.finish ELSE finish
            /\ UNCHANGED <<calls, used, index, block, pendingSig, usedTool>>
         \/ Broken(events) /\ UNCHANGED claudeVars

ClaudeTool ==
  LET p == Head(todo)
      i == AfterClose
      events == Closing \o <<Start(i, "tool_use"), Delta(i, "tool_use", CallOf(p)), Stop(i)>>
  IN  /\ NewTool
      /\ \/ /\ Delivered(events) /\ Visited /\ Goes /\ Register(p)
            /\ index' = i + 1 /\ block' = None /\ usedTool' = TRUE
            /\ pendingSig' = SigAfterClose
            /\ UNCHANGED <<started, finish>>
         \/ Broken(events) /\ UNCHANGED claudeVars

\* A thought that has neither text nor a signature leaves no trace.
ClaudeThought ==
  LET p == Head(todo)
      events == Opening("thinking")
                \o (IF p.body THEN <<Delta(IndexIn("thinking"), "thinking", This)>> ELSE <<>>)
  IN  /\ Visiting("thought")
      /\ IF ~p.body /\ p.sig = None
         THEN Visited /\ Goes /\ UNCHANGED <<calls, used, out, claudeVars>>
         ELSE \/ /\ Delivered(events) /\ Visited /\ Goes
                 /\ block' = "thinking" /\ index' = IndexIn("thinking")
                 /\ pendingSig' = IF p.sig # None THEN p.sig ELSE SigIn("thinking")
                 /\ UNCHANGED <<calls, used, started, usedTool, finish>>
              \/ Broken(events) /\ UNCHANGED claudeVars

\* A part without text may bring the signature of the thinking before it.
ClaudeText ==
  LET p == Head(todo)
      events == Opening("text") \o <<Delta(IndexIn("text"), "text", This)>>
  IN  /\ Visiting("text")
      /\ IF ~p.body
         THEN /\ Visited /\ Goes
              /\ pendingSig' = IF p.sig # None /\ block = "thinking" THEN p.sig ELSE pendingSig
              /\ UNCHANGED <<calls, used, out, started, index, block, usedTool, finish>>
         ELSE \/ /\ Delivered(events) /\ Visited /\ Goes
                 /\ block' = "text" /\ index' = IndexIn("text") /\ pendingSig' = SigIn("text")
                 /\ UNCHANGED <<calls, used, started, usedTool, finish>>
              \/ Broken(events) /\ UNCHANGED claudeVars

StopReason == IF usedTool THEN "tool_use" ELSE IF finish = "MAX_TOKENS" THEN "max_tokens" ELSE "end_turn"

\* After an error the open block stays open and no terminal event is written.
ClaudeEnd ==
  LET events == IF cause # None THEN <<[ev |-> "error"]>>
                ELSE Closing \o <<[ev |-> "message_delta", stop |-> StopReason], [ev |-> "message_stop"]>>
  IN  /\ phase = "closing"
      /\ \/ /\ Delivered(events)
            /\ phase' = IF cause = None THEN "done" ELSE "failed"
            /\ UNCHANGED <<protocol, prelude, read, cause, seen, todo, given, calls, used>>
         \/ Broken(events)
      /\ UNCHANGED claudeVars

ClaudeNext == \/ WalkNext /\ UNCHANGED claudeVars
              \/ ClaudeCandidate \/ ClaudeTool \/ ClaudeThought \/ ClaudeText
              \/ ClaudeEnd
=============================================================================
