---------------------------- MODULE GeminiStream ----------------------------
(***************************************************************************)
(* The upstream side of a streamed answer (convert/stream.go): the frames  *)
(* of the Gemini stream are checked once before the answer is committed    *)
(* (PrepareGeminiStream) and then walked one by one (walkGeminiStream); a  *)
(* writer turns the parts of each frame into the events of its protocol.   *)
(* The writers extend this module: ClaudeStream, ResponsesStream,          *)
(* OpenAIStream and CollectedAnswer.                                       *)
(*                                                                         *)
(* A frame is a sequence of candidates [index, parts, finish], a part is   *)
(* [kind, body, sig, id, call]: its kind, whether it has any text, its     *)
(* thought signature, the id of a tool call and what is called.  What      *)
(* identifies the text of a part is its place in "given".                  *)
(***************************************************************************)
EXTENDS Selection, Absent

CONSTANTS Frames,          \* the frames the upstream may send
          MaxFrames,       \* bound: frames of one answer
          MaxCandidates,   \* maxStreamCandidates
          MaxToolCalls     \* maxStreamToolCalls

\* A frame is decoded into lists of candidates and of their parts.  The ids the
\* upstream gives are numbers, so that the negative ones stand for new uuids.
ASSUME FramesAssumption ==
  /\ MaxCandidates \in Nat
  /\ \A f \in Frames :
       /\ f \in Seq(ToSet(f))
       /\ \A c \in ToSet(f) :
            /\ c.parts \in Seq(ToSet(c.parts))
            /\ \A p \in ToSet(c.parts) : /\ p.kind \in {"text", "thought", "tool"}
                                         /\ p.id = None \/ p.id \in Nat

\* The errors of an answer; None stands for none of them.
Errors == { "transport", "invalid_response", "empty_response", "upstream_interrupted",
            "response_too_large", "invalid_tool_call", "write" }

ASSUME ErrorsAssumption == None \notin Errors

VARIABLES protocol,   \* who writes this answer
          prelude,    \* frames read before the answer was committed
          read,       \* how many frames were read from the upstream
          phase,      \* prepare, walk, closing, then done (nil), failed (error)
                      \* or refused (an error before any writer was called)
          cause,      \* the error the walk ends with
          seen,       \* candidate index -> [finish, content] (seen)
          todo,       \* what the writer has not visited of the current frame
          given,      \* history: the parts visited so far
          calls,      \* <<index, upstream id>> -> [call, id] (registry.seen)
          used,       \* id given to a tool call (usedIDs) -> the signature remembered for it
          out         \* the events written to the client

walkVars == <<protocol, prelude, read, phase, cause, seen, todo, given, calls, used, out>>

Streamed == {"claude", "responses", "openai"}
Protocols == Streamed \cup {"json"}

Init ==
  /\ protocol \in Protocols
  /\ phase = IF protocol \in Streamed THEN "prepare" ELSE "walk"
  /\ prelude = <<>> /\ read = 0 /\ cause = None
  /\ seen = <<>> /\ todo = <<>> /\ given = <<>>
  /\ calls = <<>> /\ used = <<>> /\ out = <<>>

-----------------------------------------------------------------------------
(* Judging frames *)

HasOutput(c) == \E i \in DOMAIN c.parts : c.parts[i].kind = "tool" \/ c.parts[i].body

Decisive(c) == HasOutput(c) \/ c.finish # None

\* The first candidate that says anything decides whether the stream may start.
Verdict(f) ==
  IF \A i \in DOMAIN f : ~Decisive(f[i]) THEN "prepare"
  ELSE LET c == f[CHOOSE i \in DOMAIN f : /\ Decisive(f[i])
                                          /\ \A j \in 1..(i - 1) : ~Decisive(f[j])]
       IN  IF ~HasOutput(c) /\ c.finish = "STOP" THEN "refused" ELSE "walk"

Upstream(f) == f \in Frames /\ read < MaxFrames /\ read' = read + 1

PrepareFrame(f) ==
  /\ phase = "prepare" /\ Upstream(f)
  /\ prelude' = Append(prelude, f)
  /\ phase' = Verdict(f)
  /\ cause' = IF phase' = "refused" THEN "empty_response" ELSE None
  /\ UNCHANGED <<protocol, seen, todo, given, calls, used, out>>

PrepareFails ==
  /\ phase = "prepare"
  /\ phase' = "refused"
  /\ cause' \in {"empty_response", "transport"}
  /\ UNCHANGED <<protocol, prelude, read, seen, todo, given, calls, used, out>>

-----------------------------------------------------------------------------
(* Walking frames *)

ValidIndices(f) == \A i \in DOMAIN f : f[i].index \in 0..(MaxCandidates - 1)

IndicesOf(f) == {f[i].index : i \in DOMAIN f}

\* What is known of a candidate after the frame: the last finishReason counts.
Noted(f, idx) ==
  LET old == IF idx \in DOMAIN seen THEN seen[idx] ELSE [finish |-> None, content |-> FALSE]
      of == {i \in DOMAIN f : f[i].index = idx}
      said == {i \in of : f[i].finish # None}
  IN  [finish  |-> IF said = {} THEN old.finish
                   ELSE f[CHOOSE i \in said : \A j \in said : j <= i].finish,
       content |-> old.content \/ \E i \in of : HasOutput(f[i])]

\* The visits a frame asks for: each candidate, then its parts, in order; the
\* Claude writer looks at the first candidate only.
Visits(f) ==
  LET Of(i) == <<[index |-> f[i].index, finish |-> f[i].finish, kind |-> "candidate"]>>
               \o [j \in DOMAIN f[i].parts |->
                     LET p == f[i].parts[j]
                     IN  [index |-> f[i].index, kind |-> p.kind, body |-> p.body, sig |-> p.sig,
                          id |-> p.id, call |-> p.call]]
  IN  IF protocol = "claude" /\ f # <<>> THEN Of(1) ELSE FlattenSeq([i \in DOMAIN f |-> Of(i)])

ReadFrame(f) ==
  /\ phase = "walk" /\ todo = <<>>
  /\ IF prelude # <<>> THEN f = Head(prelude) /\ prelude' = Tail(prelude) /\ read' = read
                       ELSE Upstream(f) /\ UNCHANGED prelude
  /\ IF ValidIndices(f)
     THEN /\ seen' = [idx \in DOMAIN seen \cup IndicesOf(f) |->
                        IF idx \in IndicesOf(f) THEN Noted(f, idx) ELSE seen[idx]]
          /\ todo' = Visits(f)
          /\ UNCHANGED <<phase, cause>>
     ELSE phase' = "closing" /\ cause' = "invalid_response" /\ UNCHANGED <<seen, todo>>
  /\ UNCHANGED <<protocol, given, calls, used, out>>

\* (mutant) A stream that breaks off without a finishReason is accepted.
Complaints_NoFinish == IF DOMAIN seen = {} THEN {"empty_response"} ELSE {}

\* What is wrong with the stream at its end; seen is a map, so any complaint
\* may be the one that is returned.
Complaints ==
  LET Wrong(idx) == IF seen[idx].finish = None THEN {"upstream_interrupted"}
                    ELSE IF ~seen[idx].content /\ seen[idx].finish = "STOP" THEN {"empty_response"}
                    ELSE {}
  IN  IF DOMAIN seen = {} THEN {"empty_response"} ELSE UNION {Wrong(idx) : idx \in DOMAIN seen}

WalkEnds ==
  /\ phase = "walk" /\ todo = <<>> /\ prelude = <<>>
  /\ phase' = "closing"
  /\ IF Complaints = {} THEN cause' = None ELSE cause' \in Complaints
  /\ UNCHANGED <<protocol, prelude, read, seen, todo, given, calls, used, out>>

\* The connection breaks, the decoder refuses an event or the context ends; the
\* writers that keep the answer also refuse one over MaxCollectedResponseBytes.
WalkFails ==
  /\ phase = "walk" /\ todo = <<>>
  /\ phase' = "closing"
  /\ cause' \in {"transport"} \cup (IF protocol \in {"responses", "json"} THEN {"response_too_large"} ELSE {})
  /\ UNCHANGED <<protocol, prelude, read, seen, todo, given, calls, used, out>>

-----------------------------------------------------------------------------
(* What the writers share *)

Visiting(kind) == phase = "walk" /\ todo # <<>> /\ Head(todo).kind = kind

Visited == todo' = Tail(todo) /\ given' = Append(given, Head(todo))

This == Len(given) + 1   \* the place of the part being visited

\* The events reach the client and the writer goes on.
Delivered(events) == out' = out \o events

\* A write fails: the writer returns, and what it still tries to write to the
\* broken connection is lost.
Broken(events) ==
  /\ \E n \in 0..(Len(events) - 1) : out' = out \o SubSeq(events, 1, n)
  /\ phase' = "failed" /\ cause' = "write"
  /\ UNCHANGED <<protocol, prelude, read, seen, todo, given, calls, used>>

Goes == UNCHANGED <<protocol, prelude, read, phase, cause, seen>>

-----------------------------------------------------------------------------
(* Tool calls: one registry per answer (streamToolRegistry) *)

CallKey(p) == <<IF protocol = "claude" THEN 0 ELSE p.index, p.id>>

Repeats(p) == p.id # None /\ CallKey(p) \in DOMAIN calls

OneTooMany(p) == p.call # None /\ ~Repeats(p) /\ Cardinality(DOMAIN used) >= MaxToolCalls

Unusable(p) == \/ p.call = None
               \/ Repeats(p) /\ calls[CallKey(p)].call # p.call
               \/ OneTooMany(p)

FreshId == -(1 + Cardinality(DOMAIN used))   \* uuid.NewString

\* (mutant) An id that another candidate already used is kept.
CallId_Reused(p) == IF Repeats(p) THEN calls[CallKey(p)].id
                    ELSE IF p.id = None THEN FreshId ELSE p.id

CallId(p) == IF Repeats(p) THEN calls[CallKey(p)].id
             ELSE IF p.id = None \/ p.id \in DOMAIN used THEN FreshId ELSE p.id

\* What a client gets of a call.
CallOf(p) == [id |-> CallId(p), name |-> p.call, sig |-> p.sig]

\* RememberToolSignature, also for a call that is only repeated.
Remembered(p) ==
  used' = [id \in DOMAIN used \cup {CallId(p)} |->
             IF id = CallId(p) /\ (p.sig # None \/ id \notin DOMAIN used) THEN p.sig ELSE used[id]]

\* A new call is known by the id the upstream gave it, if any.
Register(p) ==
  /\ Remembered(p)
  /\ calls' = IF p.id = None THEN calls
              ELSE [k \in DOMAIN calls \cup {CallKey(p)} |->
                      IF k = CallKey(p) THEN [call |-> p.call, id |-> CallId(p)] ELSE calls[k]]

ToolRefused ==
  /\ Visiting("tool") /\ Unusable(Head(todo))
  /\ phase' = "closing"
  /\ cause' = IF OneTooMany(Head(todo)) THEN "response_too_large" ELSE "invalid_tool_call"
  /\ todo' = <<>>
  /\ UNCHANGED <<protocol, prelude, read, seen, given, calls, used, out>>

ToolRepeated ==
  /\ Visiting("tool") /\ ~Unusable(Head(todo)) /\ Repeats(Head(todo))
  /\ Remembered(Head(todo))
  /\ Visited /\ Goes /\ UNCHANGED <<calls, out>>

NewTool == Visiting("tool") /\ ~Unusable(Head(todo)) /\ ~Repeats(Head(todo))

\* openaiFinish: tool calls hide any finish reason but a limit or a refusal; one
\* that is not known is passed on.
FinishReason(reason, hasTools) ==
  CASE reason = "MAX_TOKENS" -> "length"
    [] reason = "SAFETY" -> "content_filter"
    [] reason \notin {"MAX_TOKENS", "SAFETY"} /\ hasTools -> "tool_calls"
    [] OTHER -> IF reason \in {"STOP", None} THEN "stop" ELSE reason

Over == phase \in {"done", "failed", "refused"}

WalkNext ==
  \/ \E f \in Frames : PrepareFrame(f) \/ ReadFrame(f)
  \/ PrepareFails \/ WalkEnds \/ WalkFails
  \/ ToolRefused \/ ToolRepeated
=============================================================================
