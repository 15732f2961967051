--------------------------- MODULE ExchangeProofs ---------------------------
(***************************************************************************)
(* Proofs about Exchange, for every set of frames, every conversation and  *)
(* all sizes of the caches.  The folds the model uses are unrolled, as the *)
(* recursive functions are in StreamsProofs.  The kinds of what is told    *)
(* come first: they complete what StreamsProofs proves of Streams.         *)
(***************************************************************************)
EXTENDS Exchange, StreamsProofs

-----------------------------------------------------------------------------
(* What is told is told as what it is. *)

\* The part k of the list g is what something of this kind tells.
Apt(kind, g, k) ==
  k \in DOMAIN g /\ g[k].kind = IF kind \in {"text", "message", "content"} THEN "text" ELSE "thought"

AptItem(x, g) == \A n \in ToSet(x.text) : Apt(x.type, g, n)

AptEvent(e, g) ==
  /\ Tells(e) => Apt(e.kind, g, e.what) /\ (e.ev = "chunk" => g[e.what].index = e.index)
  /\ e.ev = "output_item.done" => AptItem(e.item, g)

\* What is kept of the items, the open one among them.
Suits(items, open, body, g) ==
  /\ \A x \in ToSet(items) : AptItem(x, g)
  /\ IsSeq(body) /\ (open # 0 => \A n \in ToSet(body) : Apt(items[open].type, g, n))

KindsInv ==
  Running \/ Intact => (\A e \in ToSet(out) : AptEvent(e, given)) /\ Suits(outputs, active, text, given)

LEMMA KindsTell == ASSUME KindsInv PROVE TextIsToldAsItWas
<1> SUFFICES ASSUME Intact PROVE TextIsToldAsItWas BY DEF TextIsToldAsItWas
<1>1. (\A e \in ToSet(out) : AptEvent(e, given)) /\ \A x \in ToSet(outputs) : AptItem(x, given)
  BY DEF KindsInv, Suits
<1>2. ASSUME NEW kind, NEW k, Apt(kind, given, k) PROVE IsToldAs(kind, k) BY <1>2 DEF Apt, IsToldAs
<1>3. ASSUME NEW e \in ToSet(out)
      PROVE  /\ Tells(e) => IsToldAs(e.kind, e.what) /\ (e.ev = "chunk" => given[e.what].index = e.index)
             /\ e.ev = "output_item.done" => \A n \in ToSet(e.item.text) : IsToldAs(e.item.type, n)
  <2>1. AptEvent(e, given) BY <1>1
  <2> QED BY <1>2, <2>1 DEF AptEvent, AptItem
<1>4. \A x \in ToSet(outputs) : \A n \in ToSet(x.text) : IsToldAs(x.type, n) BY <1>1, <1>2 DEF AptItem
<1> QED BY <1>3, <1>4 DEF TextIsToldAsItWas

\* One more part, and what is said of it.
LEMMA AptMore ==
    ASSUME NEW g, IsSeq(g), NEW h, NEW t, t = Append(g, h)
    PROVE  /\ \A kind, k : Apt(kind, g, k) => Apt(kind, t, k) /\ t[k] = g[k]
           /\ \A x : AptItem(x, g) => AptItem(x, t)
           /\ \A e : AptEvent(e, g) => AptEvent(e, t)
           /\ \A items, open, body : Suits(items, open, body, g) => Suits(items, open, body, t)
           /\ Len(g) + 1 \in DOMAIN t /\ t[Len(g) + 1] = h
<1>1. Grown(t, g, h) BY GrownAppend
<1>2. PICK n \in Nat : n = Len(g) BY <1>1 DEF Grown
<1>3. DOMAIN g = 1..n /\ DOMAIN t = 1..(n + 1) /\ t[n + 1] = h /\ \A i \in 1..n : t[i] = g[i] BY <1>1, <1>2 DEF Grown
<1>4. n + 1 \in DOMAIN t /\ \A k \in DOMAIN g : k \in DOMAIN t /\ t[k] = g[k] BY <1>3
<1>5. ASSUME NEW kind, NEW k, Apt(kind, g, k) PROVE Apt(kind, t, k) /\ t[k] = g[k] BY <1>4, <1>5 DEF Apt
<1>6. ASSUME NEW x, AptItem(x, g) PROVE AptItem(x, t) BY <1>5, <1>6 DEF AptItem
<1>7. ASSUME NEW e, AptEvent(e, g) PROVE AptEvent(e, t) BY <1>5, <1>6, <1>7 DEF AptEvent
<1>8. ASSUME NEW items, NEW open, NEW body, Suits(items, open, body, g) PROVE Suits(items, open, body, t)
  BY <1>5, <1>6, <1>8 DEF Suits
<1> QED BY <1>2, <1>3, <1>4, <1>5, <1>6, <1>7, <1>8

\* The parts that were visited stay, and one may be added to them.
Onward == given' = given \/ \E h : given' = Append(given, h)

LEMMA KindsStay ==
    ASSUME KindsInv, Running, IsSeq(given), Onward
    PROVE  /\ \A e \in ToSet(out) : AptEvent(e, given')
           /\ Suits(outputs, active, text, given')
<1>1. (\A e \in ToSet(out) : AptEvent(e, given)) /\ Suits(outputs, active, text, given) BY DEF KindsInv
<1>2. CASE given' = given BY <1>1, <1>2
<1>3. CASE \E h : given' = Append(given, h)
  <2>1. PICK h : given' = Append(given, h) BY <1>3
  <2>2. PICK t : t = given' OBVIOUS
  <2>3. t = Append(given, h) BY <2>1, <2>2
  <2>4. /\ \A e : AptEvent(e, given) => AptEvent(e, t)
        /\ \A items, open, body : Suits(items, open, body, given) => Suits(items, open, body, t)
    BY <2>3, AptMore
  <2>5. (\A e \in ToSet(out) : AptEvent(e, t)) /\ Suits(outputs, active, text, t) BY <1>1, <2>4
  <2> QED BY <2>2, <2>5
<1> QED BY <1>2, <1>3 DEF Onward

LEMMA KindsNext ==
    ASSUME KindsInv, Running, IsSeq(given), Onward,
           \A e \in ToSet(out') : e \in ToSet(out) \/ AptEvent(e, given'),
           Suits(outputs', active', text', given')
    PROVE  KindsInv'
<1>1. \A e \in ToSet(out') : AptEvent(e, given') BY KindsStay
<1>2. (\A e \in ToSet(out) : AptEvent(e, given))' BY <1>1 DEF AptEvent, AptItem, Apt, Tells, ToSet
<1>3. Suits(outputs, active, text, given)' BY DEF Suits, AptItem, Apt, ToSet, IsSeq
<1> QED BY <1>2, <1>3 DEF KindsInv

\* Events that are right.
Right(s, g) == IsSeq(s) /\ \A e \in ToSet(s) : AptEvent(e, g)

LEMMA RightConcat == ASSUME NEW s, NEW t, NEW g, Right(s, g), Right(t, g) PROVE Right(s \o t, g)
  BY ConcatLemma DEF Right
LEMMA RightNone == ASSUME NEW g PROVE Right(<<>>, g)
  BY EmptyIsSeq DEF Right
LEMMA RightOne == ASSUME NEW g, NEW a, AptEvent(a, g) PROVE Right(<<a>>, g)
  BY OneElement DEF Right
LEMMA RightTwo == ASSUME NEW g, NEW a, NEW b, AptEvent(a, g), AptEvent(b, g) PROVE Right(<<a, b>>, g)
  BY TwoElements DEF Right
LEMMA RightThree ==
    ASSUME NEW g, NEW a, NEW b, NEW c, AptEvent(a, g), AptEvent(b, g), AptEvent(c, g) PROVE Right(<<a, b, c>>, g)
  BY ThreeElements DEF Right

\* A writer writes, or the client is gone.
LEMMA KindsWrite ==
    ASSUME KindsInv, Running, IsSeq(given), IsSeq(out), NEW s,
           \/ Broken(s)
           \/ /\ Onward /\ Right(s, given') /\ Delivered(s)
              /\ Suits(outputs, active, text, given') => Suits(outputs', active', text', given')
    PROVE  KindsInv'
<1>1. CASE Broken(s) BY <1>1 DEF Broken, KindsInv, Running, Intact
<1>2. CASE ~Broken(s)
  <2>1. ToSet(out') = ToSet(out) \cup ToSet(s) BY <1>2, ConcatLemma DEF Right, Delivered
  <2>2. Suits(outputs', active', text', given') BY <1>2, KindsStay
  <2> QED BY <1>2, <2>1, <2>2, KindsNext DEF Right
<1> QED BY <1>1, <1>2

\* Nothing is written.
LEMMA KindsIdle ==
    ASSUME KindsInv, Running, IsSeq(given), Onward, UNCHANGED <<out, outputs, active, text>> PROVE KindsInv'
<1>1. Suits(outputs', active', text', given') BY KindsStay
<1> QED BY <1>1, KindsNext

LEMMA WalkOnward == ASSUME WalkNext PROVE Onward /\ out' = out
  BY DEF WalkNext, PrepareFrame, ReadFrame, PrepareFails, WalkEnds, WalkFails, ToolRefused, ToolRepeated, Visited, Onward


-----------------------------------------------------------------------------
LEMMA KindsClosing == ASSUME NEW g PROVE Right(Closing, g)
<1>1. AptEvent(Delta(index, "signature", pendingSig), g) /\ AptEvent(Stop(index), g)
  BY DEF AptEvent, Tells, Delta, Stop
<1>2. Right(<<Delta(index, "signature", pendingSig)>>, g) /\ Right(<<Stop(index)>>, g) /\ Right(<<>>, g)
  BY <1>1, RightOne, RightNone
<1> QED BY <1>2, RightConcat DEF Closing

LEMMA KindsOpening == ASSUME NEW g, NEW kind PROVE Right(Opening(kind), g)
<1>1. AptEvent(Start(AfterClose, kind), g) BY DEF AptEvent, Tells, Start
<1>2. Right(<<Start(AfterClose, kind)>>, g) /\ Right(Closing, g) /\ Right(<<>>, g)
  BY <1>1, RightOne, RightNone, KindsClosing
<1> QED BY <1>2, RightConcat DEF Opening

\* The part that is visited is the last one, and as it came.
LEMMA VisitedIsThis ==
    ASSUME IsSeq(given), Visited
    PROVE  /\ Onward /\ This \in DOMAIN given' /\ given'[This] = Head(todo)
           /\ \A kind : Apt(kind, given', This) <=>
                          Head(todo).kind = IF kind \in {"text", "message", "content"} THEN "text" ELSE "thought"
<1>1. PICK t, h : t = given' /\ h = Head(todo) /\ t = Append(given, h) BY DEF Visited
<1>2. Len(given) + 1 \in DOMAIN t /\ t[Len(given) + 1] = h BY <1>1, AptMore
<1> QED BY <1>1, <1>2 DEF Onward, This, Apt

LEMMA KindsClaude ==
    ASSUME KindsInv, Running, IsSeq(given), IsSeq(out), UNCHANGED responsesVars, ClaudeNext PROVE KindsInv'
<1>0. UNCHANGED <<outputs, active, text>> BY DEF responsesVars
<1>1. CASE WalkNext BY <1>0, <1>1, WalkOnward, KindsIdle
<1>2. CASE ClaudeCandidate
  <2>1. PICK s : s = IF started THEN <<>> ELSE <<[ev |-> "message_start"]>> OBVIOUS
  <2>2. AptEvent([ev |-> "message_start"], given') BY DEF AptEvent, Tells
  <2>3. Right(s, given') BY <2>1, <2>2, RightOne, RightNone
  <2>4. Broken(s) \/ (Onward /\ Delivered(s)) BY <1>2, <2>1, VisitedIsThis DEF ClaudeCandidate
  <2> QED BY <1>0, <2>3, <2>4, KindsWrite
<1>3. CASE ClaudeTool
  <2>1. PICK p, i, u : /\ p = Head(todo) /\ i = AfterClose
                       /\ u = <<Start(i, "tool_use"), Delta(i, "tool_use", CallOf(p)), Stop(i)>>
    OBVIOUS
  <2>2. PICK s : s = Closing \o u OBVIOUS
  <2>3. /\ AptEvent(Start(i, "tool_use"), given') /\ AptEvent(Delta(i, "tool_use", CallOf(p)), given')
        /\ AptEvent(Stop(i), given')
    BY DEF AptEvent, Tells, Start, Delta, Stop
  <2>4. Right(u, given') BY <2>1, <2>3, RightThree
  <2>5. Right(s, given') BY <2>2, <2>4, RightConcat, KindsClosing
  <2>6. Broken(s) \/ (Onward /\ Delivered(s)) BY <1>3, <2>1, <2>2, VisitedIsThis DEF ClaudeTool
  <2> QED BY <1>0, <2>5, <2>6, KindsWrite
<1>4. CASE ClaudeThought
  <2>1. PICK p, d, u : /\ p = Head(todo) /\ d = Delta(IndexIn("thinking"), "thinking", This)
                       /\ u = IF p.body THEN <<d>> ELSE <<>>
    OBVIOUS
  <2>2. PICK s : s = Opening("thinking") \o u OBVIOUS
  <2>3. CASE Broken(s) BY <1>0, <2>3, KindsWrite
  <2>4. CASE Visited /\ Delivered(s)
    <3>1. p.kind = "thought" BY <1>4, <2>1 DEF ClaudeThought, Visiting
    <3>2. Onward /\ Apt("thinking", given', This) BY <2>1, <2>4, <3>1, VisitedIsThis
    <3>3. AptEvent(d, given') BY <2>1, <3>2 DEF AptEvent, Delta
    <3>4. Right(u, given') BY <2>1, <3>3, RightOne, RightNone
    <3>5. Right(s, given') BY <2>2, <3>4, RightConcat, KindsOpening
    <3> QED BY <1>0, <2>4, <3>2, <3>5, KindsWrite
  <2>5. CASE Visited /\ UNCHANGED out BY <1>0, <2>5, VisitedIsThis, KindsIdle
  <2> QED BY <1>4, <2>1, <2>2, <2>3, <2>4, <2>5 DEF ClaudeThought
<1>5. CASE ClaudeText
  <2>1. PICK d : d = Delta(IndexIn("text"), "text", This) OBVIOUS
  <2>2. PICK s : s = Opening("text") \o <<d>> OBVIOUS
  <2>3. CASE Broken(s) BY <1>0, <2>3, KindsWrite
  <2>4. CASE Visited /\ Delivered(s)
    <3>1. Head(todo).kind = "text" BY <1>5 DEF ClaudeText, Visiting
    <3>2. Onward /\ Apt("text", given', This) BY <2>4, <3>1, VisitedIsThis
    <3>3. AptEvent(d, given') BY <2>1, <3>2 DEF AptEvent, Delta
    <3>4. Right(<<d>>, given') BY <3>3, RightOne
    <3>5. Right(s, given') BY <2>2, <3>4, RightConcat, KindsOpening
    <3> QED BY <1>0, <2>4, <3>2, <3>5, KindsWrite
  <2>5. CASE Visited /\ UNCHANGED out BY <1>0, <2>5, VisitedIsThis, KindsIdle
  <2> QED BY <1>5, <2>1, <2>2, <2>3, <2>4, <2>5 DEF ClaudeText
<1>6. CASE ClaudeEnd
  <2>1. PICK u, v : /\ u = <<[ev |-> "error"]>>
                    /\ v = <<[ev |-> "message_delta", stop |-> StopReason], [ev |-> "message_stop"]>>
    OBVIOUS
  <2>2. PICK s : s = IF cause # None THEN u ELSE Closing \o v OBVIOUS
  <2>3. /\ AptEvent([ev |-> "error"], given') /\ AptEvent([ev |-> "message_stop"], given')
        /\ AptEvent([ev |-> "message_delta", stop |-> StopReason], given')
    BY DEF AptEvent, Tells
  <2>4. Right(u, given') /\ Right(v, given') BY <2>1, <2>3, RightOne, RightTwo
  <2>5. Right(s, given') BY <2>2, <2>4, RightConcat, KindsClosing
  <2>6. Broken(s) \/ (Onward /\ Delivered(s)) BY <1>6, <2>1, <2>2 DEF ClaudeEnd, Onward
  <2> QED BY <1>0, <2>5, <2>6, KindsWrite
<1> QED BY <1>1, <1>2, <1>3, <1>4, <1>5, <1>6 DEF ClaudeNext

LEMMA KindsOpenAI ==
    ASSUME KindsInv, Running, IsSeq(given), IsSeq(out), IsFiniteSet(DOMAIN states), UNCHANGED responsesVars, OpenAINext
    PROVE  KindsInv'
<1>0. UNCHANGED <<outputs, active, text>> BY DEF responsesVars
<1>1. CASE WalkNext BY <1>0, <1>1, WalkOnward, KindsIdle
<1>2. CASE OpenAICandidate
  <2>1. PICK c, d, s : /\ c = Head(todo) /\ d = Chunk(c.index, "role", None)
                       /\ s = IF c.index \notin DOMAIN states THEN <<d>> ELSE <<>>
    OBVIOUS
  <2>2. AptEvent(d, given') BY <2>1 DEF AptEvent, Tells, Chunk
  <2>3. Right(s, given') BY <2>1, <2>2, RightOne, RightNone
  <2>4. Broken(s) \/ (Onward /\ Delivered(s)) BY <1>2, <2>1, VisitedIsThis DEF OpenAICandidate
  <2> QED BY <1>0, <2>3, <2>4, KindsWrite
<1>3. CASE OpenAITool
  <2>1. PICK p, d, s : /\ p = Head(todo) /\ s = <<d>>
                       /\ d = [ev |-> "chunk", index |-> p.index, kind |-> "tool_calls", what |-> CallOf(p),
                               place |-> states[p.index].toolIndex]
    OBVIOUS
  <2>2. AptEvent(d, given') BY <2>1 DEF AptEvent, Tells
  <2>3. Right(s, given') BY <2>1, <2>2, RightOne
  <2>4. Broken(s) \/ (Onward /\ Delivered(s)) BY <1>3, <2>1, VisitedIsThis DEF OpenAITool
  <2> QED BY <1>0, <2>3, <2>4, KindsWrite
<1>4. CASE OpenAIText
  <2>1. PICK p, d, e, u, v :
          /\ p = Head(todo) /\ d = Chunk(p.index, IF p.kind = "thought" THEN "reasoning_content" ELSE "content", This)
          /\ e = Chunk(p.index, "reasoning_signature", p.sig)
          /\ u = (IF p.body THEN <<d>> ELSE <<>>) /\ v = IF p.sig # None THEN <<e>> ELSE <<>>
    OBVIOUS
  <2>2. PICK s : s = u \o v OBVIOUS
  <2>3. CASE Broken(s) BY <1>0, <2>3, KindsWrite
  <2>4. CASE Visited /\ Delivered(s)
    <3>1. p.kind \in {"text", "thought"} BY <1>4, <2>1 DEF OpenAIText, Visiting
    <3>2. /\ Onward /\ given'[This].index = p.index
          /\ Apt(IF p.kind = "thought" THEN "reasoning_content" ELSE "content", given', This)
      BY <2>1, <2>4, <3>1, VisitedIsThis
    <3>3. AptEvent(d, given') BY <2>1, <3>2 DEF AptEvent, Chunk
    <3>4. AptEvent(e, given') BY <2>1 DEF AptEvent, Tells, Chunk
    <3>5. Right(u, given') /\ Right(v, given') BY <2>1, <3>3, <3>4, RightOne, RightNone
    <3>6. Right(s, given') BY <2>2, <3>5, RightConcat
    <3> QED BY <1>0, <2>4, <3>2, <3>6, KindsWrite
  <2> QED BY <1>4, <2>1, <2>2, <2>3, <2>4 DEF OpenAIText
<1>5. CASE OpenAIEnd
  <2>1. PICK order : order = Ascending(DOMAIN states) OBVIOUS
  <2>2. PICK u, v : /\ u = [k \in DOMAIN order |->
                              Chunk(order[k], "finish",
                                    FinishReason(states[order[k]].finish, states[order[k]].toolIndex > 0))]
                    /\ v = <<[ev |-> "error"]>>
    OBVIOUS
  <2>3. PICK s : s = IF cause # None THEN v ELSE u \o <<[ev |-> "[DONE]"]>> OBVIOUS
  <2>4. Right(u, given')
    <3>1. DOMAIN order = 1..Cardinality(DOMAIN states) /\ Cardinality(DOMAIN states) \in Nat
      BY <2>1, FS_CardinalityType DEF Ascending
    <3>2. /\ u = [k \in 1..Cardinality(DOMAIN states) |-> u[k]] /\ DOMAIN u = 1..Cardinality(DOMAIN states)
          /\ \A k \in DOMAIN u : AptEvent(u[k], given')
      BY <2>2, <3>1 DEF AptEvent, Tells, Chunk
    <3> QED BY <3>1, <3>2, FunctionSeq DEF Right, ToSet
  <2>5. AptEvent([ev |-> "error"], given') /\ AptEvent([ev |-> "[DONE]"], given') BY DEF AptEvent, Tells
  <2>6. Right(v, given') /\ Right(<<[ev |-> "[DONE]"]>>, given') BY <2>2, <2>5, RightOne
  <2>7. Right(s, given') BY <2>3, <2>4, <2>6, RightConcat
  <2>8. Broken(s) \/ (Onward /\ Delivered(s)) BY <1>5, <2>1, <2>2, <2>3 DEF OpenAIEnd, Onward
  <2> QED BY <1>0, <2>7, <2>8, KindsWrite
<1> QED BY <1>1, <1>2, <1>3, <1>4, <1>5 DEF OpenAINext

LEMMA KindsCollect ==
    ASSUME KindsInv, Running, IsSeq(given), UNCHANGED responsesVars, CollectNext PROVE KindsInv'
<1>0. UNCHANGED <<outputs, active, text>> BY DEF responsesVars
<1>1. CASE CollectEnd
  <2>1. PICK e, s : /\ out' = (IF cause = None THEN s ELSE <<>>) /\ s = <<e>> /\ e.ev = "json"
    <3>1. AnswerJson.ev = "json" BY DEF AnswerJson
    <3>2. out' = IF cause = None THEN <<AnswerJson>> ELSE <<>> BY <1>1 DEF CollectEnd, AnswerJson
    <3> QED BY <3>1, <3>2
  <2>2. Right(s, given') /\ Right(<<>>, given')
    <3>1. AptEvent(e, given') BY <2>1 DEF AptEvent, Tells
    <3> QED BY <2>1, <3>1, RightOne, RightNone
  <2>3. \A x \in ToSet(out') : AptEvent(x, given') BY <2>1, <2>2 DEF Right
  <2>4. Onward BY <1>1 DEF CollectEnd, Onward
  <2>5. Suits(outputs', active', text', given') BY <1>0, <2>4, KindsStay
  <2> QED BY <2>3, <2>4, <2>5, KindsNext
<1>2. CASE CollectRepeated \/ CollectCandidate \/ CollectPart
  <2>1. Onward /\ out' = out
    BY <1>2, VisitedIsThis DEF CollectRepeated, ToolRepeated, CollectCandidate, CollectPart
  <2> QED BY <1>0, <2>1, KindsIdle
<1>3. CASE (\E f \in Frames : ReadFrame(f)) \/ WalkEnds \/ WalkFails \/ ToolRefused
  <2>1. WalkNext BY <1>3 DEF WalkNext
  <2> QED BY <1>0, <2>1, WalkOnward, KindsIdle
<1> QED BY <1>1, <1>2, <1>3 DEF CollectNext

-----------------------------------------------------------------------------
\* The items after the open one was closed, and after one was signed.
LEMMA FitsItems ==
    ASSUME ItemsInv, NEW g, Suits(outputs, active, text, g), NEW status
    PROVE  /\ IsSeq(OutputsClosed(status)) /\ \A x \in ToSet(OutputsClosed(status)) : AptItem(x, g)
           /\ Right(ClosingItem(status), g)
<1>1. IsSeq(outputs) /\ active \in 0..Len(outputs) /\ \A k \in DOMAIN outputs : IsItem(outputs[k]) BY DEF ItemsInv
<1>2. DOMAIN outputs = 1..Len(outputs) BY <1>1, SeqFacts
<1>3. CASE active = 0 BY <1>1, <1>3, RightNone DEF OutputsClosed, ClosingItem, Suits
<1>4. CASE active # 0
  <2>1. active \in DOMAIN outputs BY <1>1, <1>2, <1>4
  <2>2. PICK y : y = ClosedItem(status) OBVIOUS
  <2>3. y.type = outputs[active].type /\ y.text = text BY <1>1, <2>1, <2>2 DEF ClosedItem, IsItem
  <2>4. AptItem(y, g) BY <1>4, <2>3 DEF Suits, AptItem
  <2>5. PICK items : items = OutputsClosed(status) /\ items = [outputs EXCEPT ![active] = y]
    BY <1>4, <2>2 DEF OutputsClosed
  <2>6. IsSeq(items) BY <2>5, ClosedItems
  <2>7. \A x \in ToSet(items) : x = y \/ x \in ToSet(outputs) BY <2>5 DEF ToSet
  <2>8. \A x \in ToSet(items) : AptItem(x, g) BY <2>4, <2>7 DEF Suits
  <2>9. /\ AptEvent(TextDone(active, text), g) /\ AptEvent(PartDone(active, text), g)
        /\ AptEvent(ItemDone(active, y), g)
    BY <2>4 DEF AptEvent, Tells, TextDone, PartDone, ItemDone
  <2>10. Right(ClosingItem(status), g) BY <1>4, <2>2, <2>9, RightThree DEF ClosingItem
  <2> QED BY <2>5, <2>6, <2>8, <2>10
<1> QED BY <1>3, <1>4

LEMMA FitsAppend ==
    ASSUME NEW items, IsSeq(items), NEW g, \A x \in ToSet(items) : AptItem(x, g), NEW y, AptItem(y, g)
    PROVE  \A x \in ToSet(Append(items, y)) : AptItem(x, g)
<1>1. PICK t : t = Append(items, y) /\ Grown(t, items, y) BY GrownAppend
<1>2. ASSUME NEW x \in ToSet(t) PROVE x = y \/ x \in ToSet(items) BY <1>1 DEF Grown, ToSet
<1> QED BY <1>1, <1>2

LEMMA FitsSigned ==
    ASSUME NEW items, IsSeq(items), \A k \in DOMAIN items : IsItem(items[k]), NEW i \in DOMAIN items, NEW sig,
           NEW g, \A x \in ToSet(items) : AptItem(x, g)
    PROVE  /\ \A x \in ToSet(Signed(items, i, sig)) : AptItem(x, g)
           /\ Signed(items, i, sig)[i].type = items[i].type
<1>1. CASE sig = None BY <1>1 DEF Signed
<1>2. CASE sig # None
  <2>1. PICK y : y = [items[i] EXCEPT !.sig = sig] OBVIOUS
  <2>2. y.type = items[i].type /\ y.text = items[i].text BY <2>1 DEF IsItem
  <2>3. items[i] \in ToSet(items) BY DEF ToSet
  <2>4. AptItem(y, g) BY <2>2, <2>3 DEF AptItem
  <2>5. PICK t : t = Signed(items, i, sig) /\ t = [items EXCEPT ![i] = y] BY <1>2, <2>1 DEF Signed
  <2>6. \A x \in ToSet(t) : x = y \/ x \in ToSet(items) BY <2>5 DEF ToSet
  <2>7. t[i] = y BY <2>5
  <2> QED BY <2>2, <2>4, <2>5, <2>6, <2>7
<1> QED BY <1>1, <1>2

LEMMA KindsResponses ==
    ASSUME KindsInv, Running, IsSeq(given), IsSeq(out), ItemsInv, ResponsesNext PROVE KindsInv'
<1>a. /\ IsSeq(outputs) /\ active \in 0..Len(outputs) /\ (\A k \in DOMAIN outputs : IsItem(outputs[k]))
      /\ Len(outputs) \in Nat /\ DOMAIN outputs = 1..Len(outputs)
  BY SeqFacts DEF ItemsInv
<1>1. CASE WalkNext /\ UNCHANGED responsesVars BY <1>1, WalkOnward, KindsIdle DEF responsesVars
<1>2. CASE ResponsesBegins
  <2>1. AptEvent([ev |-> "response.created"], given') /\ AptEvent([ev |-> "response.in_progress"], given')
    BY DEF AptEvent, Tells
  <2>2. Right(Prologue, given') BY <2>1, RightTwo DEF Prologue
  <2>3. Broken(Prologue) \/ (Onward /\ Delivered(Prologue)) BY <1>2 DEF ResponsesBegins, Onward
  <2>4. UNCHANGED <<outputs, active, text>> BY <1>2 DEF ResponsesBegins, responsesVars
  <2> QED BY <2>2, <2>3, <2>4, KindsWrite
<1>3. CASE ResponsesCandidate BY <1>3, VisitedIsThis, KindsIdle DEF ResponsesCandidate
<1>4. CASE ResponsesTool
  <2>1. PICK p, i, item : /\ p = Head(todo) /\ i = Len(outputs) + 1
                          /\ item = [Item("function_call", CallOf(p)) EXCEPT !.status = "completed"]
    OBVIOUS
  <2>2. PICK a, b, c, d : /\ a = Added(i, "function_call") /\ d = ItemDone(i, item)
                          /\ b = [ev |-> "delta", index |-> i, kind |-> "function_call", what |-> CallOf(p)]
                          /\ c = [ev |-> "done", index |-> i, what |-> CallOf(p)]
    OBVIOUS
  <2>3. PICK s : s = ClosingItem("completed") \o <<a, b, c, d>> OBVIOUS
  <2>4. CASE Broken(s) BY <2>4 DEF Broken, KindsInv, Running, Intact
  <2>5. CASE /\ Visited /\ Delivered(s) /\ outputs' = Append(OutputsClosed("completed"), item)
             /\ active' = 0 /\ text' = <<>>
    <3>1. Onward BY <2>5, VisitedIsThis
    <3>2. Suits(outputs, active, text, given') BY <3>1, KindsStay
    <3>3. item.text = <<>> BY <2>1 DEF Item
    <3>4. AptItem(item, given') BY <3>3, EmptyIsSeq DEF AptItem, ToSet
    <3>5. AptEvent(a, given') /\ AptEvent(b, given') /\ AptEvent(c, given') /\ AptEvent(d, given')
      BY <2>2, <3>4 DEF AptEvent, Tells, Added, ItemDone
    <3>6. Right(<<a, b, c, d>>, given') BY <3>5, FourElements DEF Right
    <3>7. PICK closed : /\ closed = OutputsClosed("completed") /\ IsSeq(closed)
                        /\ \A x \in ToSet(closed) : AptItem(x, given')
      BY <3>2, FitsItems
    <3>8. \A x \in ToSet(Append(closed, item)) : AptItem(x, given') BY <3>4, <3>7, FitsAppend
    <3>9. Suits(outputs', active', text', given') BY <2>5, <3>7, <3>8, EmptyIsSeq DEF Suits
    <3>10. Right(s, given') BY <2>3, <3>2, <3>6, FitsItems, RightConcat
    <3> QED BY <2>5, <3>1, <3>9, <3>10, KindsWrite
  <2> QED BY <1>4, <2>1, <2>2, <2>3, <2>4, <2>5 DEF ResponsesTool
<1>5. CASE ResponsesText
  <2>1. PICK p, type, i : /\ p = Head(todo) /\ type = TypeOf(p.kind)
                          /\ i = IF Continues(p) THEN active ELSE Len(outputs) + 1
    OBVIOUS
  <2>2. PICK new, items, a, b, d :
          /\ new = Item(type, None) /\ a = Added(i, type) /\ b = PartAdded(i) /\ d = TextDelta(i, type)
          /\ items = IF Continues(p) THEN outputs ELSE Append(OutputsClosed("completed"), new)
    OBVIOUS
  <2>3. PICK s : s = (IF Continues(p) THEN <<>> ELSE ClosingItem("completed") \o <<a, b>>) \o <<d>> OBVIOUS
  <2>4. CASE Broken(s) BY <2>4 DEF Broken, KindsInv, Running, Intact
  <2>5. CASE /\ Visited /\ Delivered(s) /\ outputs' = Signed(items, i, p.sig) /\ active' = i
             /\ text' = Append(IF Continues(p) THEN text ELSE <<>>, This)
    <3>1. p.kind \in {"text", "thought"} BY <1>5, <2>1 DEF ResponsesText, Visiting
    <3>2. Onward /\ Apt(type, given', This) BY <2>1, <2>5, <3>1, VisitedIsThis DEF TypeOf
    <3>3. Suits(outputs, active, text, given') BY <3>2, KindsStay
    <3>4. AptEvent(a, given') /\ AptEvent(b, given') /\ AptEvent(d, given')
      BY <2>2, <3>2 DEF AptEvent, Tells, Added, PartAdded, TextDelta
    <3>5. Right(<<a, b>>, given') /\ Right(<<d>>, given') /\ Right(<<>>, given')
      BY <3>4, RightOne, RightTwo, RightNone
    <3>6. Right(ClosingItem("completed") \o <<a, b>>, given') BY <3>3, <3>5, FitsItems, RightConcat
    <3>7. Right(s, given') BY <2>3, <3>5, <3>6, RightConcat
    <3>8. /\ IsSeq(items) /\ (\A k \in DOMAIN items : IsItem(items[k])) /\ i \in DOMAIN items /\ i # 0
          /\ items[i].type = type /\ \A x \in ToSet(items) : AptItem(x, given')
      <4>1. CASE Continues(p)
        <5>1. items = outputs /\ i = active /\ active # 0 /\ outputs[active].type = type
          BY <2>1, <2>2, <4>1 DEF Continues
        <5> QED BY <1>a, <3>3, <5>1 DEF Suits
      <4>2. CASE ~Continues(p)
        <5>1. PICK closed : closed = OutputsClosed("completed") OBVIOUS
        <5>2. /\ IsSeq(closed) /\ Len(closed) = Len(outputs)
              /\ \A x \in ToSet(closed) : AptItem(x, given')
              /\ \A k \in DOMAIN outputs : IsItem(closed[k])
          BY <3>3, <5>1, FitsItems, ClosedItems
        <5>3. items = Append(closed, new) /\ i = Len(closed) + 1 BY <2>1, <2>2, <4>2, <5>1, <5>2
        <5>4. IsItem(new) /\ new.type = type /\ new.text = <<>> BY <2>2 DEF Item, IsItem
        <5>5. AptItem(new, given') BY <5>4, EmptyIsSeq DEF AptItem, ToSet
        <5>6. \A x \in ToSet(items) : AptItem(x, given') BY <5>2, <5>3, <5>5, FitsAppend
        <5>7. Grown(items, closed, new) BY <5>2, <5>3, GrownAppend
        <5>8. /\ IsSeq(items) /\ DOMAIN items = 1..(Len(outputs) + 1) /\ items[Len(outputs) + 1] = new
              /\ \A k \in 1..Len(outputs) : items[k] = closed[k]
          BY <5>2, <5>7 DEF Grown
        <5>9. \A k \in DOMAIN items : IsItem(items[k])
          <6>1. \A k \in DOMAIN items : k = Len(outputs) + 1 \/ k \in DOMAIN outputs BY <1>a, <5>8
          <6> QED BY <1>a, <5>2, <5>4, <5>8, <6>1
        <5>10. i \in DOMAIN items /\ i # 0 BY <1>a, <5>2, <5>3, <5>8
        <5> QED BY <5>2, <5>3, <5>4, <5>6, <5>8, <5>9, <5>10
      <4> QED BY <4>1, <4>2
    <3>9. /\ \A x \in ToSet(Signed(items, i, p.sig)) : AptItem(x, given')
          /\ Signed(items, i, p.sig)[i].type = type
      BY <3>8, FitsSigned
    <3>10. PICK body : body = IF Continues(p) THEN text ELSE <<>> OBVIOUS
    <3>11. IsSeq(body) /\ \A n \in ToSet(body) : Apt(type, given', n)
      <4>1. CASE Continues(p)
        <5>1. active # 0 /\ outputs[active].type = type BY <2>1, <4>1 DEF Continues
        <5> QED BY <3>3, <3>10, <4>1, <5>1 DEF Suits
      <4>2. CASE ~Continues(p) BY <3>10, <4>2, EmptyIsSeq DEF ToSet
      <4> QED BY <4>1, <4>2
    <3>12. PICK n : n = This OBVIOUS
    <3>13. PICK t : t = Append(body, n) /\ Grown(t, body, n) BY <3>11, GrownAppend
    <3>14. IsSeq(t) /\ \A m \in ToSet(t) : m = n \/ m \in ToSet(body) BY <3>13 DEF Grown, ToSet
    <3>15. \A m \in ToSet(t) : Apt(type, given', m) BY <3>2, <3>11, <3>12, <3>14
    <3>16. text' = t BY <2>5, <3>10, <3>12, <3>13
    <3>17. Suits(outputs', active', text', given') BY <2>5, <3>9, <3>14, <3>15, <3>16 DEF Suits
    <3> QED BY <2>5, <3>2, <3>7, <3>17, KindsWrite
  <2> QED BY <1>5, <2>1, <2>2, <2>3, <2>4, <2>5 DEF ResponsesText
<1>6. CASE ResponsesSignature
  <2>1. Onward /\ UNCHANGED <<out, active, text>> BY <1>6, VisitedIsThis DEF ResponsesSignature
  <2>2. Suits(outputs, active, text, given') BY <2>1, KindsStay
  <2>3. CASE active = 0
    <3>1. outputs' = outputs BY <1>6, <2>3 DEF ResponsesSignature
    <3> QED BY <2>1, <3>1, KindsIdle
  <2>4. CASE active # 0
    <3>1. PICK sig : outputs' = Signed(outputs, active, sig) BY <1>6, <2>4 DEF ResponsesSignature
    <3>2. active \in DOMAIN outputs BY <1>a, <2>4
    <3>3. \A x \in ToSet(outputs) : AptItem(x, given') BY <2>2 DEF Suits
    <3>4. /\ \A x \in ToSet(Signed(outputs, active, sig)) : AptItem(x, given')
          /\ Signed(outputs, active, sig)[active].type = outputs[active].type
      BY <1>a, <3>2, <3>3, FitsSigned
    <3>5. Suits(outputs', active', text', given') BY <2>1, <2>2, <3>1, <3>4 DEF Suits
    <3> QED BY <2>1, <3>5, KindsNext
  <2> QED BY <2>3, <2>4
<1>7. CASE ResponsesEnd
  <2>1. PICK e, s : /\ e = [ev |-> EndEvent, output |-> OutputsClosed(EndStatus), reason |-> EndReason, error |-> EndCause]
                    /\ s = ClosingItem(EndStatus) \o <<e>>
    OBVIOUS
  <2>2. CASE Broken(s) BY <2>2 DEF Broken, KindsInv, Running, Intact
  <2>3. CASE Delivered(s) /\ outputs' = OutputsClosed(EndStatus) /\ active' = 0 /\ text' = <<>> /\ given' = given
    <3>1. Onward BY <2>3 DEF Onward
    <3>2. Suits(outputs, active, text, given') BY <3>1, KindsStay
    <3>3. AptEvent(e, given') BY <2>1 DEF AptEvent, Tells, EndEvent
    <3>4. Right(s, given') BY <2>1, <3>2, <3>3, RightOne, FitsItems, RightConcat
    <3>5. \A x \in ToSet(OutputsClosed(EndStatus)) : AptItem(x, given') BY <3>2, FitsItems
    <3>6. Suits(outputs', active', text', given') BY <2>3, <3>5, EmptyIsSeq DEF Suits
    <3> QED BY <2>3, <3>1, <3>4, <3>6, KindsWrite
  <2> QED BY <1>7, <2>1, <2>2, <2>3 DEF ResponsesEnd
<1> QED BY <1>1, <1>2, <1>3, <1>4, <1>5, <1>6, <1>7 DEF ResponsesNext

LEMMA KindsSame ==
    ASSUME KindsInv, UNCHANGED <<out, given, outputs, active, text>>, Running' \/ Intact' => Running \/ Intact
    PROVE  KindsInv'
<1>1. CASE ~(Running' \/ Intact') BY <1>1 DEF KindsInv
<1>2. CASE Running' \/ Intact'
  <2>1. (\A e \in ToSet(out) : AptEvent(e, given)) /\ Suits(outputs, active, text, given) BY <1>2 DEF KindsInv
  <2> QED BY <2>1 DEF KindsInv, AptEvent, AptItem, Apt, Suits, Tells, ToSet, IsSeq
<1> QED BY <1>1, <1>2

LEMMA KindsStep == ASSUME KindsInv, EndInv, WalkInv, [Next]_vars PROVE KindsInv'
<1>1. CASE UNCHANGED vars
  <2>1. UNCHANGED <<out, given, outputs, active, text, phase, cause>> BY <1>1 DEF vars, walkVars, responsesVars
  <2> QED BY <2>1, KindsSame DEF Running, Intact
<1>2. CASE ClaudeStep \/ ResponsesStep \/ OpenAIStep \/ CollectStep
  <2>1. Running BY <1>2, StepsRun
  <2>2. IsSeq(given) /\ IsSeq(out) /\ ItemsInv /\ IsFiniteSet(DOMAIN states) BY DEF EndInv, Flow, WalkInv
  <2> QED BY <1>2, <2>1, <2>2, KindsClaude, KindsResponses, KindsOpenAI, KindsCollect
          DEF ClaudeStep, ResponsesStep, OpenAIStep, CollectStep
<1> QED BY <1>1, <1>2 DEF Next, Finished

LEMMA KindsNothing == ASSUME out = <<>>, outputs = <<>>, active = 0, text = <<>> PROVE KindsInv
  BY EmptyIsSeq DEF KindsInv, Suits, ToSet

LEMMA KindsStart == ASSUME StreamsInit PROVE KindsInv
  BY KindsNothing DEF StreamsInit, Init, ResponsesInit

\* Whatever the upstream sends: the texts and thoughts written to the client are
\* those that were visited, each once, in its order and as the kind it is, in
\* the deltas, in the items the Responses protocol repeats, in every choice of an
\* answer that is collected, where unsigned texts were joined, and in the blocks
\* of its Claude message (CollectGeminiJSON, GeminiToOpenAI, GeminiToClaude).
THEOREM NoTextIsLost == Spec => []TextIsKept
<1>1. StreamsInit => ToldInv /\ KindsInv BY ToldStart, KindsStart
<1>2. ToldInv /\ KindsInv /\ [Next]_vars => ToldInv' /\ KindsInv'
  <2>1. ToldInv => EndInv /\ WalkInv BY DEF ToldInv
  <2> QED BY <2>1, ToldStep, KindsStep
<1>3. ToldInv /\ KindsInv => TextIsKept
  <2>1. ToldInv => TextIsTold BY AnswerKept DEF AnswerIsKept
  <2> QED BY <2>1, KindsTell DEF TextIsKept
<1> QED BY <1>1, <1>2, <1>3, PTL DEF Spec

-----------------------------------------------------------------------------
(* The bytes of some entries. *)

Sized(s) == IsSeq(s) /\ \A i \in DOMAIN s : s[i].size \in Nat

LEMMA SizeUnrolled ==
    ASSUME NEW s, Sized(s)
    PROVE  \E f \in [0..Len(s) -> Nat] :
             /\ f[0] = 0 /\ SizeOfAll(s) = f[Len(s)]
             /\ \A i \in 1..Len(s) : f[i] = f[i - 1] + s[i].size
<1> DEFINE n == Len(s)
           F == [w \in Nat \X (1..n) |-> w[1] + s[w[2]].size]
           Solves(h) == h = [T \in SUBSET (1..n) |->
                               IF T = {} THEN 0 ELSE h[T \ {Max(T)}] + s[Max(T)].size]
<1>1. n \in Nat /\ DOMAIN s = 1..n /\ \A i \in 1..n : s[i].size \in Nat BY SeqFacts DEF Sized
<1>2. F \in [Nat \X (1..n) -> Nat] BY <1>1
<1>3. \A v \in Nat, i \in 1..n : F[<<v, i>>] = v + s[i].size OBVIOUS
<1>4. \A T \in SUBSET (1..n) : T # {} => Max(T) \in T
  <2> SUFFICES ASSUME NEW T \in SUBSET (1..n), T # {} PROVE Max(T) \in T OBVIOUS
  <2> QED BY <1>1, MaxIn
<1> HIDE DEF F
<1>5. \E h : Solves(h)
  <2>1. PICK g \in [SUBSET (1..n) -> Nat] : Folds(g, n, 0, F)
    <3> HIDE DEF n
    <3> QED BY <1>1, <1>2, FoldIter
  <2>2. \A T \in SUBSET (1..n) : g[T] = IF T = {} THEN 0 ELSE g[T \ {Max(T)}] + s[Max(T)].size
    <3> SUFFICES ASSUME NEW T \in SUBSET (1..n), T # {} PROVE g[T] = g[T \ {Max(T)}] + s[Max(T)].size
      BY <2>1 DEF Folds
    <3>1. Max(T) \in 1..n /\ T \ {Max(T)} \in SUBSET (1..n) BY <1>4
    <3>2. g[T \ {Max(T)}] \in Nat BY <3>1
    <3>3. g[T] = F[<<g[T \ {Max(T)}], Max(T)>>] BY <2>1 DEF Folds
    <3> QED BY <1>3, <3>1, <3>2, <3>3
  <2>3. g = [T \in SUBSET (1..n) |-> g[T]] OBVIOUS
  <2> QED BY <2>2, <2>3
<1> DEFINE h == CHOOSE h : Solves(h)
<1>6. Solves(h) BY <1>5
<1>7. SizeOfAll(s) = h[1..n] BY <1>1 DEF SizeOfAll, FoldLeft, MapThenFoldSet
<1> HIDE DEF h
<1>8. Follows(h, n, Nat, 0, F)
  <2>1. h[{}] = 0 BY <1>6
  <2>2. ASSUME NEW T \in SUBSET (1..n), T # {}, h[T \ {Max(T)}] \in Nat
        PROVE  h[T] = F[<<h[T \ {Max(T)}], Max(T)>>]
    <3>1. Max(T) \in 1..n BY <1>4, <2>2
    <3>2. h[T] = h[T \ {Max(T)}] + s[Max(T)].size BY <1>6, <2>2
    <3> QED BY <1>3, <2>2, <3>1, <3>2
  <2> HIDE DEF Solves
  <2> QED BY <2>1, <2>2 DEF Follows
<1>9. PICK f \in [0..n -> Nat] : Recurs(f, n, 0, F) /\ f[n] = h[1..n]
  <2>1. 0 \in Nat OBVIOUS
  <2> HIDE DEF n, Solves
  <2>2. \E f \in [0..n -> Nat] : Reaches(f, n, 0, F, h[1..n]) BY <1>1, <1>2, <1>8, <2>1, FoldSteps
  <2> QED BY <2>2 DEF Reaches
<1>10. f[0] = 0
  <2>1. 0 \in 0..n BY <1>1
  <2> HIDE DEF n
  <2> QED BY <1>9, <2>1 DEF Recurs
<1>11. ASSUME NEW i \in 1..n PROVE f[i] = f[i - 1] + s[i].size
  <2>1. i \in 0..n /\ i - 1 \in 0..n /\ i # 0 BY <1>1
  <2>2. f[i] = F[<<f[i - 1], i>>] BY <1>9, <2>1 DEF Recurs
  <2> QED BY <1>3, <2>1, <2>2
<1> QED BY <1>7, <1>9, <1>10, <1>11

LEMMA SizeUnique ==
    ASSUME NEW s, Sized(s), NEW g, g[0] = 0, \A i \in 1..Len(s) : g[i] = g[i - 1] + s[i].size
    PROVE  SizeOfAll(s) = g[Len(s)] /\ SizeOfAll(s) \in Nat
<1> DEFINE n == Len(s)
<1>1. n \in Nat BY SeqFacts DEF Sized
<1>2. PICK f \in [0..n -> Nat] : /\ f[0] = 0 /\ SizeOfAll(s) = f[n]
                                 /\ \A i \in 1..n : f[i] = f[i - 1] + s[i].size
  BY SizeUnrolled
<1> DEFINE S == {i \in 0..n : f[i] = g[i]}
<1>3. n \in S
  <2>1. 0 \in S BY <1>1, <1>2
  <2>2. ASSUME NEW k \in 0..(n - 1), k \in S PROVE k + 1 \in S
    <3>1. k + 1 \in 1..n /\ k + 1 \in 0..n /\ (k + 1) - 1 = k BY <1>1
    <3>2. f[k + 1] = f[k] + s[k + 1].size /\ g[k + 1] = g[k] + s[k + 1].size BY <1>2, <3>1
    <3> QED BY <2>2, <3>1, <3>2
  <2> HIDE DEF S
  <2>3. \A k \in 0..n : k \in S BY <1>1, <2>1, <2>2, BoundedInduction
  <2> QED BY <1>1, <2>3
<1>4. n \in 0..n BY <1>1
<1> QED BY <1>2, <1>3, <1>4

LEMMA SizeIsNat == ASSUME NEW s, Sized(s) PROVE SizeOfAll(s) \in Nat
<1>1. PICK f : f[0] = 0 /\ \A i \in 1..Len(s) : f[i] = f[i - 1] + s[i].size BY SizeUnrolled
<1> QED BY <1>1, SizeUnique

\* Two lists with the same sizes, and a list that is part of another.
Sums(f, s) == f \in [0..Len(s) -> Nat] /\ \A i \in 1..Len(s) : f[i] = f[i - 1] + s[i].size

WithinAt(t, s, d) == d \in Nat /\ d + Len(t) <= Len(s) /\ \A i \in 1..Len(t) : t[i].size = s[d + i].size

LEMMA SizeOfPart ==
    ASSUME NEW s, Sized(s), NEW t, Sized(t), NEW d, WithinAt(t, s, d), NEW f, Sums(f, s)
    PROVE  SizeOfAll(t) = f[d + Len(t)] - f[d]
<1> DEFINE n == Len(s)
           m == Len(t)
           g == [i \in 0..m |-> f[d + i] - f[d]]
<1>1. n \in Nat /\ m \in Nat /\ d \in Nat /\ d + m <= n BY SeqFacts DEF Sized, WithinAt
<1>a. f \in [0..n -> Nat] BY DEF Sums
<1>b. \A i \in 1..n : f[i] = f[i - 1] + s[i].size BY DEF Sums
<1>c. \A i \in 1..m : t[i].size = s[d + i].size BY DEF WithinAt
<1> HIDE DEF n, m
<1>2. \A i \in 0..m : d + i \in 0..n /\ f[d + i] \in Nat
  <2>1. \A i \in 0..m : d + i \in 0..n BY <1>1
  <2> QED BY <1>a, <2>1
<1>3. g[0] = 0
  <2>1. 0 \in 0..m /\ d + 0 = d BY <1>1
  <2>2. g[0] = f[d] - f[d] /\ f[d] \in Nat BY <1>2, <2>1
  <2> QED BY <2>2
<1>4. ASSUME NEW i \in 1..m PROVE g[i] = g[i - 1] + t[i].size
  <2>1. i \in 0..m /\ i - 1 \in 0..m /\ d + i \in 1..n /\ d + (i - 1) = (d + i) - 1 BY <1>1
  <2>2. f[d + i] = f[d + (i - 1)] + s[d + i].size BY <1>b, <2>1
  <2>3. f[d + i] \in Nat /\ f[d + (i - 1)] \in Nat /\ f[d] \in Nat
    <3>1. d \in 0..n BY <1>1
    <3> QED BY <1>2, <1>a, <2>1, <3>1
  <2>4. t[i].size = s[d + i].size /\ t[i].size \in Nat
    <3>1. DOMAIN t = 1..m BY SeqFacts DEF Sized, m
    <3> QED BY <1>c, <3>1 DEF Sized
  <2>5. g[i] = f[d + i] - f[d] /\ g[i - 1] = f[d + (i - 1)] - f[d] BY <2>1
  <2> HIDE DEF g
  <2> QED BY <2>2, <2>3, <2>4, <2>5
<1>5. g[m] = f[d + m] - f[d] BY <1>1
<1> HIDE DEF g
<1>6. SizeOfAll(t) = g[m] BY <1>3, <1>4, SizeUnique DEF m
<1> QED BY <1>5, <1>6 DEF m

LEMMA SizeSame ==
    ASSUME NEW s, Sized(s), NEW t, Sized(t), Len(t) = Len(s), \A i \in 1..Len(s) : t[i].size = s[i].size
    PROVE  SizeOfAll(t) = SizeOfAll(s)
<1>1. PICK f \in [0..Len(s) -> Nat] : /\ f[0] = 0 /\ SizeOfAll(s) = f[Len(s)]
                                      /\ \A i \in 1..Len(s) : f[i] = f[i - 1] + s[i].size
  BY SizeUnrolled
<1>2. \A i \in 1..Len(t) : t[i].size = s[i].size /\ f[i] = f[i - 1] + t[i].size BY <1>1
<1> QED BY <1>1, <1>2, SizeUnique

LEMMA SizeEmpty == Sized(<<>>) /\ SizeOfAll(<<>>) = 0
<1>1. Sized(<<>>) /\ Len(<<>>) = 0 BY EmptyIsSeq DEF Sized
<1>2. PICK f : f[0] = 0 /\ SizeOfAll(<<>>) = f[Len(<<>>)] BY <1>1, SizeUnrolled
<1> QED BY <1>1, <1>2

LEMMA SizeAppend ==
    ASSUME NEW s, Sized(s), NEW e, e.size \in Nat
    PROVE  Sized(Append(s, e)) /\ SizeOfAll(Append(s, e)) = SizeOfAll(s) + e.size
<1> DEFINE n == Len(s)
           t == Append(s, e)
<1>1. n \in Nat /\ DOMAIN s = 1..n /\ s \in Seq(ToSet(s)) /\ \A i \in 1..n : s[i].size \in Nat
  BY SeqFacts DEF Sized, IsSeq
<1>2. /\ IsSeq(t) /\ Len(t) = n + 1 /\ DOMAIN t = 1..(n + 1)
      /\ t[n + 1] = e /\ \A i \in 1..n : t[i] = s[i]
  <2>1. t \in Seq(ToSet(s) \cup {e}) BY <1>1
  <2>2. IsSeq(t) BY <2>1, TypedIsSeq
  <2>3. Len(t) = n + 1 /\ t[n + 1] = e /\ \A i \in 1..n : t[i] = s[i] BY <1>1
  <2> QED BY <1>1, <2>2, <2>3, SeqFacts
<1> HIDE DEF t
<1>3. Sized(t) BY <1>1, <1>2 DEF Sized
<1>4. PICK f \in [0..(n + 1) -> Nat] : /\ f[0] = 0 /\ SizeOfAll(t) = f[n + 1]
                                       /\ \A i \in 1..(n + 1) : f[i] = f[i - 1] + t[i].size
  <2>1. PICK f \in [0..Len(t) -> Nat] : /\ f[0] = 0 /\ SizeOfAll(t) = f[Len(t)]
                                        /\ \A i \in 1..Len(t) : f[i] = f[i - 1] + t[i].size
    BY <1>3, SizeUnrolled
  <2> QED BY <1>2, <2>1
<1>5. SizeOfAll(s) = f[n]
  <2>1. \A i \in 1..n : f[i] = f[i - 1] + s[i].size BY <1>1, <1>2, <1>4
  <2> QED BY <1>4, <2>1, SizeUnique
<1>6. f[n + 1] = f[n] + e.size
  <2>1. n + 1 \in 1..(n + 1) /\ (n + 1) - 1 = n BY <1>1
  <2> QED BY <1>2, <1>4, <2>1
<1> QED BY <1>3, <1>4, <1>5, <1>6 DEF t

\* An entry put in front, and the last entries of a list.
Fronted(s, e) ==
  LET t == <<e>> \o s
  IN  /\ Sized(t) /\ SizeOfAll(t) = e.size + SizeOfAll(s) /\ Len(t) = Len(s) + 1
      /\ t[1] = e /\ \A i \in 1..Len(s) : t[i + 1] = s[i]

LEMMA SizeFront == ASSUME NEW s, Sized(s), NEW e, e.size \in Nat PROVE Fronted(s, e)
<1> DEFINE n == Len(s)
           u == <<e>>
           t == u \o s
<1>1. n \in Nat /\ DOMAIN s = 1..n /\ \A i \in 1..n : s[i].size \in Nat BY SeqFacts DEF Sized
<1>2. IsSeq(u) /\ Len(u) = 1 /\ u[1] = e BY OneElement
<1> HIDE DEF u
<1>3. /\ IsSeq(t) /\ Len(t) = 1 + n /\ t[1] = e
      /\ \A i \in 1..n : t[1 + i] = s[i]
  <2>1. IsSeq(s) BY DEF Sized
  <2>2. 1 \in 1..Len(u) BY <1>2
  <2>3. /\ IsSeq(u \o s) /\ Len(u \o s) = Len(u) + Len(s)
        /\ \A i \in 1..Len(u) : (u \o s)[i] = u[i]
        /\ \A i \in 1..Len(s) : (u \o s)[Len(u) + i] = s[i]
    BY <1>2, <2>1, ConcatLemma, SMTT(30)
  <2> QED BY <1>2, <2>2, <2>3
<1>4. DOMAIN t = 1..(1 + n) BY <1>3, SeqFacts
<1> HIDE DEF t
<1>5. Sized(t)
  <2>1. ASSUME NEW i \in 1..(1 + n) PROVE t[i].size \in Nat
    <3>1. CASE i = 1 BY <1>3, <3>1
    <3>2. CASE i # 1
      <4>1. i - 1 \in 1..n /\ i = 1 + (i - 1) BY <1>1, <3>2
      <4> QED BY <1>1, <1>3, <4>1
    <3> QED BY <3>1, <3>2
  <2> QED BY <1>3, <1>4, <2>1 DEF Sized
<1>6. PICK f \in [0..(1 + n) -> Nat] : /\ f[0] = 0 /\ SizeOfAll(t) = f[1 + n]
                                       /\ \A i \in 1..(1 + n) : f[i] = f[i - 1] + t[i].size
  <2>1. PICK f \in [0..Len(t) -> Nat] : /\ f[0] = 0 /\ SizeOfAll(t) = f[Len(t)]
                                        /\ \A i \in 1..Len(t) : f[i] = f[i - 1] + t[i].size
    BY <1>5, SizeUnrolled
  <2> QED BY <1>3, <2>1
<1>7. f[1] = e.size
  <2>1. 1 \in 1..(1 + n) /\ 1 - 1 = 0 BY <1>1
  <2> QED BY <1>3, <1>6, <2>1
<1>8. SizeOfAll(s) = f[1 + n] - f[1]
  <2>1. \A i \in 1..n : s[i].size = t[1 + i].size BY <1>3
  <2>2. Sums(f, t) BY <1>3, <1>6 DEF Sums
  <2>3. WithinAt(s, t, 1) BY <1>1, <1>3, <2>1 DEF WithinAt
  <2>4. SizeOfAll(s) = f[1 + Len(s)] - f[1] BY <1>5, <2>2, <2>3, SizeOfPart
  <2> QED BY <2>4
<1>9. f[1 + n] \in Nat /\ f[1] \in Nat BY <1>1, <1>6
<1>10. \A i \in 1..n : t[i + 1] = s[i] BY <1>1, <1>3
<1>11. SizeOfAll(t) = e.size + SizeOfAll(s) /\ Len(t) = n + 1 BY <1>1, <1>3, <1>6, <1>7, <1>8, <1>9
<1>12. Fronted(s, e) <=>
         /\ Sized(t) /\ SizeOfAll(t) = e.size + SizeOfAll(s) /\ Len(t) = Len(s) + 1
         /\ t[1] = e /\ \A i \in 1..Len(s) : t[i + 1] = s[i]
  BY DEF Fronted, t, u
<1> QED BY <1>3, <1>5, <1>10, <1>11, <1>12

LEMMA SizeSplit ==
    ASSUME NEW s, Sized(s), NEW k \in 0..Len(s)
    PROVE  /\ Sized(SubSeq(s, 1, k)) /\ Sized(SubSeq(s, k + 1, Len(s)))
           /\ SizeOfAll(SubSeq(s, 1, k)) + SizeOfAll(SubSeq(s, k + 1, Len(s))) = SizeOfAll(s)
<1> DEFINE n == Len(s)
           a == SubSeq(s, 1, k)
           b == SubSeq(s, k + 1, n)
<1>1. n \in Nat /\ DOMAIN s = 1..n /\ s \in Seq(ToSet(s)) /\ \A i \in 1..n : s[i].size \in Nat
  BY SeqFacts DEF Sized, IsSeq
<1>2. IsSeq(a) /\ Len(a) = k /\ \A i \in 1..k : a[i] = s[i]
  <2>1. IsSeq(s) BY DEF Sized
  <2> QED BY <2>1, PrefixLemma
<1>3. IsSeq(b) /\ Len(b) = n - k /\ \A i \in 1..(n - k) : b[i] = s[k + i]
  <2>1. k + 1 \in 1..(n + 1) /\ n - (k + 1) + 1 = n - k /\ k \in 0..n BY <1>1
  <2>3. k + 1 \in Int /\ n \in Int /\ \A i \in (k + 1)..n : s[i] \in ToSet(s)
    <3>1. \A i \in (k + 1)..n : i \in 1..n BY <1>1, <2>1
    <3> QED BY <1>1, <2>1, <3>1
  <2>a. b \in Seq(ToSet(s)) BY <1>1, <2>1
  <2>b. Len(b) = n - k
    <3>1. Len(b) = IF k + 1 <= n THEN n - (k + 1) + 1 ELSE 0
      <4> HIDE DEF n
      <4> QED BY <2>3, SubSeqProperties
    <3> DEFINE l == Len(b)
    <3>2. l = IF k + 1 <= n THEN n - (k + 1) + 1 ELSE 0 BY <3>1
    <3>3. n \in Nat /\ k \in Nat /\ k <= n BY <1>1
    <3> HIDE DEF l, n
    <3>4. l = n - k BY <3>2, <3>3
    <3> QED BY <3>4 DEF l
  <2>2. \A i \in 1..(n - k) : b[i] = s[k + i] BY <1>1, <2>1
  <2> QED BY <2>1, <2>a, <2>b, <2>2, TypedIsSeq
<1> HIDE DEF a, b
<1>4. Sized(a)
  <2>1. DOMAIN a = 1..k BY <1>2, SeqFacts
  <2> QED BY <1>1, <1>2, <2>1 DEF Sized
<1>5. Sized(b)
  <2>1. DOMAIN b = 1..(n - k) BY <1>3, SeqFacts
  <2>2. \A i \in 1..(n - k) : k + i \in 1..n BY <1>1
  <2> QED BY <1>1, <1>3, <2>1, <2>2 DEF Sized
<1>6. PICK f \in [0..n -> Nat] : /\ f[0] = 0 /\ SizeOfAll(s) = f[n]
                                 /\ \A i \in 1..n : f[i] = f[i - 1] + s[i].size
  BY SizeUnrolled
<1>a. Sums(f, s) BY <1>6 DEF Sums
<1>7. SizeOfAll(a) = f[k] - f[0]
  <2>1. \A i \in 1..Len(a) : a[i].size = s[0 + i].size BY <1>1, <1>2
  <2>2. 0 + Len(a) <= Len(s) /\ 0 + Len(a) = k BY <1>1, <1>2
  <2>3. WithinAt(a, s, 0) BY <2>1, <2>2 DEF WithinAt
  <2>4. SizeOfAll(a) = f[0 + Len(a)] - f[0] BY <1>4, <1>a, <2>3, SizeOfPart
  <2> QED BY <2>2, <2>4
<1>8. SizeOfAll(b) = f[n] - f[k]
  <2>1. \A i \in 1..Len(b) : b[i].size = s[k + i].size BY <1>1, <1>3
  <2>2. k + Len(b) <= Len(s) /\ k + Len(b) = n /\ k \in Nat BY <1>1, <1>3
  <2>3. WithinAt(b, s, k) BY <2>1, <2>2 DEF WithinAt
  <2>4. SizeOfAll(b) = f[k + Len(b)] - f[k] BY <1>5, <1>a, <2>3, SizeOfPart
  <2> QED BY <2>2, <2>4
<1>9. f[k] \in Nat /\ f[n] \in Nat BY <1>1, <1>6
<1> QED BY <1>4, <1>5, <1>6, <1>7, <1>8, <1>9 DEF a, b

\* A list taken apart.
LEMMA SizeAmong ==
    ASSUME NEW s, Sized(s), NEW K, NEW J, J = DOMAIN s \ K
    PROVE  /\ Sized(Among(s, K)) /\ Sized(Among(s, J))
           /\ SizeOfAll(Among(s, J)) = SizeOfAll(s) - SizeOfAll(Among(s, K))
           /\ Len(Among(s, J)) = Len(s) - Len(Among(s, K))
<1> DEFINE n == Len(s)
<1>1. n \in Nat /\ DOMAIN s = 1..n /\ IsSeq(s) /\ \A i \in 1..n : s[i].size \in Nat
  BY SeqFacts DEF Sized
<1>2. PICK a \in [0..n -> Seq(ToSet(s))] :
        /\ a[0] = <<>> /\ Among(s, K) = a[n]
        /\ \A i \in 1..n : a[i] = IF i \in K THEN Append(a[i - 1], s[i]) ELSE a[i - 1]
  <2>1. \E a \in [0..Len(s) -> Seq(ToSet(s))] : Chosen(a, s, K) BY <1>1, AmongUnrolled
  <2> QED BY <2>1 DEF Chosen
<1>3. PICK b \in [0..n -> Seq(ToSet(s))] :
        /\ b[0] = <<>> /\ Among(s, J) = b[n]
        /\ \A i \in 1..n : b[i] = IF i \in J THEN Append(b[i - 1], s[i]) ELSE b[i - 1]
  <2>1. \E b \in [0..Len(s) -> Seq(ToSet(s))] : Chosen(b, s, J) BY <1>1, AmongUnrolled
  <2> QED BY <2>1 DEF Chosen
<1>4. PICK f \in [0..n -> Nat] : /\ f[0] = 0 /\ SizeOfAll(s) = f[n]
                                 /\ \A i \in 1..n : f[i] = f[i - 1] + s[i].size
  BY SizeUnrolled
<1> DEFINE Split(i) == Sized(a[i]) /\ Sized(b[i]) /\ SizeOfAll(a[i]) + SizeOfAll(b[i]) = f[i]
                       /\ Len(a[i]) + Len(b[i]) = i
           S == {i \in 0..n : Split(i)}
<1>5. 0 \in S
  <2>1. Split(0) BY <1>2, <1>3, <1>4, SizeEmpty, EmptyIsSeq
  <2> QED BY <1>1, <2>1
<1>6. ASSUME NEW k \in 0..(n - 1), k \in S PROVE k + 1 \in S
  <2>1. k + 1 \in 1..n /\ k + 1 \in 0..n /\ (k + 1) - 1 = k BY <1>1
  <2>2. /\ a[k + 1] = IF k + 1 \in K THEN Append(a[k], s[k + 1]) ELSE a[k]
        /\ b[k + 1] = IF k + 1 \in J THEN Append(b[k], s[k + 1]) ELSE b[k]
        /\ f[k + 1] = f[k] + s[k + 1].size
    BY <1>2, <1>3, <1>4, <2>1
  <2>3. k + 1 \in J <=> k + 1 \notin K BY <1>1, <2>1
  <2>4. s[k + 1].size \in Nat BY <1>1, <2>1
  <2>5. SizeOfAll(a[k]) \in Nat /\ SizeOfAll(b[k]) \in Nat BY <1>6, SizeIsNat
  <2>a. k \in 0..n BY <2>1
  <2>b. a[k] \in Seq(ToSet(s)) /\ b[k] \in Seq(ToSet(s)) /\ s[k + 1] \in ToSet(s)
    BY <1>1, <1>2, <1>3, <2>1, <2>a, SeqFacts
  <2>c. /\ Len(Append(a[k], s[k + 1])) = Len(a[k]) + 1 /\ Len(a[k]) \in Nat
        /\ Len(Append(b[k], s[k + 1])) = Len(b[k]) + 1 /\ Len(b[k]) \in Nat
    BY <2>b
  <2>6. CASE k + 1 \in K
    <3>1. Sized(a[k + 1]) /\ SizeOfAll(a[k + 1]) = SizeOfAll(a[k]) + s[k + 1].size
      BY <1>6, <2>2, <2>4, <2>6, SizeAppend
    <3>2. b[k + 1] = b[k] BY <2>2, <2>3, <2>6
    <3>3. /\ Sized(a[k]) /\ Sized(b[k]) /\ SizeOfAll(a[k]) + SizeOfAll(b[k]) = f[k]
          /\ Len(a[k]) + Len(b[k]) = k
      BY <1>6
    <3>4. SizeOfAll(a[k + 1]) + SizeOfAll(b[k + 1]) = f[k + 1] BY <2>2, <2>4, <2>5, <3>1, <3>2, <3>3
    <3>5. Len(a[k + 1]) + Len(b[k + 1]) = k + 1 BY <2>1, <2>2, <2>6, <2>c, <3>2, <3>3
    <3>6. Split(k + 1) BY <3>1, <3>2, <3>3, <3>4, <3>5
    <3> QED BY <2>1, <3>6
  <2>7. CASE k + 1 \notin K
    <3>1. Sized(b[k + 1]) /\ SizeOfAll(b[k + 1]) = SizeOfAll(b[k]) + s[k + 1].size
      BY <1>6, <2>2, <2>3, <2>4, <2>7, SizeAppend
    <3>2. a[k + 1] = a[k] BY <2>2, <2>7
    <3>a. b[k + 1] = Append(b[k], s[k + 1]) BY <2>2, <2>3, <2>7
    <3>b. Len(a[k + 1]) + Len(b[k + 1]) = k + 1
      <4> DEFINE x == Len(a[k])
                 y == Len(b[k])
      <4>1. x + y = k /\ x \in Nat /\ y \in Nat BY <1>6, <2>c
      <4>2. Len(a[k + 1]) = x /\ Len(b[k + 1]) = y + 1 BY <2>c, <3>2, <3>a
      <4> HIDE DEF x, y
      <4>3. x + (y + 1) = k + 1 BY <4>1
      <4> QED BY <4>2, <4>3
    <3>c. SizeOfAll(a[k + 1]) + SizeOfAll(b[k + 1]) = f[k + 1]
      BY <1>6, <2>2, <2>4, <2>5, <3>1, <3>2
    <3>3. Split(k + 1) BY <1>6, <3>1, <3>2, <3>b, <3>c
    <3> QED BY <2>1, <3>3
  <2> QED BY <2>6, <2>7
<1>7. n \in S
  <2> HIDE DEF S
  <2>1. \A k \in 0..n : k \in S BY <1>1, <1>5, <1>6, BoundedInduction
  <2> QED BY <1>1, <2>1
<1>8. SizeOfAll(a[n]) \in Nat /\ SizeOfAll(b[n]) \in Nat BY <1>7, SizeIsNat
<1>9. Len(a[n]) \in Nat /\ Len(b[n]) \in Nat
  <2>1. n \in 0..n BY <1>1
  <2>2. a[n] \in Seq(ToSet(s)) /\ b[n] \in Seq(ToSet(s)) BY <1>2, <1>3, <2>1
  <2> QED BY <2>2
<1> QED BY <1>2, <1>3, <1>4, <1>7, <1>8, <1>9

LEMMA AmongOne ==
    ASSUME NEW s, IsSeq(s), NEW k \in 1..Len(s)
    PROVE  Among(s, {k}) = <<s[k]>>
<1> DEFINE n == Len(s)
<1>1. n \in Nat BY SeqFacts
<1>2. PICK f \in [0..n -> Seq(ToSet(s))] :
        /\ f[0] = <<>> /\ Among(s, {k}) = f[n]
        /\ \A i \in 1..n : f[i] = IF i \in {k} THEN Append(f[i - 1], s[i]) ELSE f[i - 1]
  <2>1. \E f \in [0..Len(s) -> Seq(ToSet(s))] : Chosen(f, s, {k}) BY AmongUnrolled
  <2> QED BY <2>1 DEF Chosen
<1> DEFINE S == {i \in 0..n : f[i] = IF i < k THEN <<>> ELSE <<s[k]>>}
<1>3. 0 \in S BY <1>1, <1>2
<1>4. ASSUME NEW i \in 0..(n - 1), i \in S PROVE i + 1 \in S
  <2>1. i + 1 \in 1..n /\ i + 1 \in 0..n /\ (i + 1) - 1 = i BY <1>1
  <2>2. f[i + 1] = IF i + 1 \in {k} THEN Append(f[i], s[i + 1]) ELSE f[i] BY <1>2, <2>1
  <2>3. CASE i + 1 < k
    <3>1. i < k BY <2>3
    <3> QED BY <1>4, <2>1, <2>2, <2>3, <3>1
  <2>4. CASE i + 1 = k
    <3>1. i < k BY <2>4
    <3>2. f[i + 1] = Append(<<>>, s[k]) BY <1>4, <2>2, <2>4, <3>1
    <3>3. Append(<<>>, s[k]) = <<s[k]>> OBVIOUS
    <3> QED BY <2>1, <2>4, <3>2, <3>3
  <2>5. CASE i + 1 > k
    <3>1. ~(i < k) /\ i + 1 # k /\ ~(i + 1 < k) BY <2>5
    <3> QED BY <1>4, <2>1, <2>2, <3>1
  <2> QED BY <2>3, <2>4, <2>5
<1>5. n \in S
  <2> HIDE DEF S
  <2>1. \A i \in 0..n : i \in S BY <1>1, <1>3, <1>4, BoundedInduction
  <2> QED BY <1>1, <2>1
<1>6. ~(n < k) BY <1>1
<1> QED BY <1>2, <1>5, <1>6

-----------------------------------------------------------------------------
(* Caches. *)

IsLimit(limit) == limit.entries \in Nat /\ limit.bytes \in Nat

IsEntry(e) == e = [key |-> e.key, value |-> e.value, size |-> e.size, old |-> e.old] /\ e.size \in Nat

\* The inductive invariant of a cache.
CacheInv(c, limit) ==
  /\ c = [entries |-> c.entries, bytes |-> c.bytes]
  /\ IsSeq(c.entries) /\ \A i \in DOMAIN c.entries : IsEntry(c.entries[i])
  /\ IsExact(c, limit)

LEMMA CacheFacts ==
    ASSUME NEW c, NEW limit, IsLimit(limit), CacheInv(c, limit)
    PROVE  /\ Sized(c.entries) /\ c.bytes \in Nat /\ c.bytes = SizeOfAll(c.entries)
           /\ IsSeq(c.entries) /\ Len(c.entries) \in Nat /\ DOMAIN c.entries = 1..Len(c.entries)
           /\ Len(c.entries) <= limit.entries /\ c.bytes <= limit.bytes
           /\ \A i \in DOMAIN c.entries : IsEntry(c.entries[i])
           /\ \A i, j \in DOMAIN c.entries : c.entries[i].key = c.entries[j].key => i = j
<1>1. Sized(c.entries) BY DEF CacheInv, Sized, IsEntry
<1> QED BY <1>1, SizeIsNat, SeqFacts DEF CacheInv, IsExact

\* Some of the entries of an exact cache, with their bytes.
LEMMA PartOfCache ==
    ASSUME NEW c, NEW limit, IsLimit(limit), CacheInv(c, limit),
           NEW r, IsSeq(r), Len(r) <= Len(c.entries), NEW b \in Int, b <= c.bytes, b = SizeOfAll(r),
           NEW p \in [1..Len(r) -> 1..Len(c.entries)],
           \A j \in 1..Len(r) : r[j] = c.entries[p[j]],
           \A j, k \in 1..Len(r) : p[j] = p[k] => j = k
    PROVE  CacheInv([entries |-> r, bytes |-> b], limit)
<1> DEFINE d == [entries |-> r, bytes |-> b]
<1>1. Len(r) \in Nat /\ DOMAIN r = 1..Len(r) BY SeqFacts
<1>2. \A i \in DOMAIN r : IsEntry(r[i]) BY <1>1, CacheFacts
<1>3. \A i, j \in DOMAIN r : r[i].key = r[j].key => i = j
  <2> SUFFICES ASSUME NEW i \in DOMAIN r, NEW j \in DOMAIN r, r[i].key = r[j].key PROVE i = j OBVIOUS
  <2>1. /\ p[i] \in DOMAIN c.entries /\ p[j] \in DOMAIN c.entries
        /\ c.entries[p[i]].key = c.entries[p[j]].key
    BY <1>1, CacheFacts
  <2>2. p[i] = p[j] BY <2>1, CacheFacts
  <2> QED BY <1>1, <2>2
<1>4. Len(r) <= limit.entries /\ b <= limit.bytes
  <2>1. Len(c.entries) \in Nat /\ Len(c.entries) <= limit.entries /\ c.bytes <= limit.bytes /\ c.bytes \in Nat
    BY CacheFacts
  <2> QED BY <1>1, <2>1 DEF IsLimit
<1>5. d.entries = r /\ d.bytes = b OBVIOUS
<1>6. d = [entries |-> d.entries, bytes |-> d.bytes] OBVIOUS
<1> HIDE DEF d
<1>7. CacheInv(d, limit) BY <1>2, <1>3, <1>4, <1>5, <1>6 DEF CacheInv, IsExact
<1> QED BY <1>7 DEF d

LEMMA WithoutLemma ==
    ASSUME NEW c, NEW limit, IsLimit(limit), CacheInv(c, limit), NEW gone
    PROVE  /\ CacheInv(Without(c, gone), limit)
           /\ \A e \in ToSet(Without(c, gone).entries) :
                \E i \in DOMAIN c.entries : i \notin gone /\ e = c.entries[i]
<1> DEFINE s == c.entries
           J == DOMAIN s \ gone
           r == Among(s, J)
           b == c.bytes - SizeOfAll(Among(s, gone))
<1>1. Sized(s) /\ IsSeq(s) /\ c.bytes = SizeOfAll(s) /\ c.bytes \in Nat /\ DOMAIN s = 1..Len(s) /\ Len(s) \in Nat
  BY CacheFacts
<1>2. Sized(r) /\ Sized(Among(s, gone)) /\ SizeOfAll(r) = SizeOfAll(s) - SizeOfAll(Among(s, gone))
  <2> HIDE DEF s
  <2> QED BY <1>1, SizeAmong
<1>3. b = SizeOfAll(r) /\ b \in Int /\ b <= c.bytes
  <2>1. SizeOfAll(Among(s, gone)) \in Nat /\ SizeOfAll(r) \in Nat BY <1>2, SizeIsNat
  <2> QED BY <1>1, <1>2, <2>1
<1>4. IsSeq(r) /\ Len(r) <= Len(s) /\ \E p : Picks(p, r, s, Len(s), J)
  <2> HIDE DEF s, J
  <2> QED BY <1>1, AmongLemma
<1>5. PICK p : Picks(p, r, s, Len(s), J) BY <1>4
<1>6. Len(r) \in Nat /\ DOMAIN r = 1..Len(r) BY <1>4, SeqFacts
<1>7. Without(c, gone) = [entries |-> r, bytes |-> b] BY DEF Without
<1> HIDE DEF r, b
<1>8. /\ p \in [1..Len(r) -> 1..Len(s)]
      /\ \A j \in 1..Len(r) : r[j] = s[p[j]] /\ p[j] \in J
      /\ \A j, k \in 1..Len(r) : p[j] = p[k] => j = k
  <2>1. p \in [1..Len(r) -> 1..Len(s)] /\ \A j, k \in 1..Len(r) : j < k => p[j] < p[k]
    BY <1>5 DEF Picks
  <2>2. \A j, k \in 1..Len(r) : p[j] = p[k] => j = k
    <3> SUFFICES ASSUME NEW j \in 1..Len(r), NEW k \in 1..Len(r), p[j] = p[k], j # k PROVE FALSE
      OBVIOUS
    <3>1. p[j] < p[k] \/ p[k] < p[j] BY <1>6, <2>1
    <3>2. p[j] \in Int /\ p[k] \in Int BY <1>1, <2>1
    <3> QED BY <3>1, <3>2
  <2> QED BY <1>5, <2>1, <2>2 DEF Picks
<1>9. CacheInv([entries |-> r, bytes |-> b], limit) BY <1>3, <1>4, <1>8, PartOfCache
<1>10. ASSUME NEW e \in ToSet(r) PROVE \E i \in DOMAIN s : i \notin gone /\ e = s[i]
  <2>1. PICK j \in 1..Len(r) : e = r[j] BY <1>6 DEF ToSet
  <2> QED BY <1>8, <2>1
<1> QED BY <1>7, <1>9, <1>10

LEMMA WithRoomLemma ==
    ASSUME NEW c, NEW limit, IsLimit(limit), CacheInv(c, limit), NEW size
    PROVE  /\ CacheInv(WithRoom(c, size, limit), limit)
           /\ ToSet(WithRoom(c, size, limit).entries) \subseteq ToSet(c.entries)
<1> DEFINE s == c.entries
           n == Len(s)
           keep == {k \in 0..n : Fits(c, k, size, limit)}
           most == IF keep = {} THEN 0 ELSE CHOOSE k \in keep : \A m \in keep : m <= k
           r == SubSeq(s, 1, most)
           b == c.bytes - SizeOfAll(SubSeq(s, most + 1, n))
<1>1. Sized(s) /\ IsSeq(s) /\ c.bytes = SizeOfAll(s) /\ c.bytes \in Nat /\ DOMAIN s = 1..n /\ n \in Nat
  BY CacheFacts
<1>2. most \in 0..n
  <2>1. CASE keep = {} BY <1>1, <2>1
  <2>2. CASE keep # {}
    <3> DEFINE U == {n - k : k \in keep}
    <3>1. U \in SUBSET Nat /\ U # {}
      <4>1. \A k \in keep : n - k \in Nat BY <1>1
      <4> HIDE DEF keep
      <4> QED BY <2>2, <4>1
    <3> HIDE DEF U
    <3>2. PICK u \in U : \A v \in U : u <= v BY <3>1, Least
    <3>3. PICK k \in keep : u = n - k BY DEF U
    <3>4. \A m \in keep : n - m \in U BY DEF U
    <3>5. \A m \in keep : m <= k BY <1>1, <3>2, <3>3, <3>4
    <3> HIDE DEF keep
    <3>6. most \in keep BY <2>2, <3>5
    <3> QED BY <3>6 DEF keep
  <2> QED BY <2>1, <2>2
<1> HIDE DEF most
<1>3. WithRoom(c, size, limit) = [entries |-> r, bytes |-> b] BY DEF WithRoom, most
<1>4. Sized(r) /\ SizeOfAll(r) + SizeOfAll(SubSeq(s, most + 1, n)) = SizeOfAll(s)
      /\ Sized(SubSeq(s, most + 1, n))
  <2> HIDE DEF s
  <2> QED BY <1>1, <1>2, SizeSplit
<1>5. b = SizeOfAll(r) /\ b \in Int /\ b <= c.bytes
  <2>1. SizeOfAll(SubSeq(s, most + 1, n)) \in Nat /\ SizeOfAll(r) \in Nat BY <1>4, SizeIsNat
  <2> QED BY <1>1, <1>4, <2>1
<1>6. IsSeq(r) /\ Len(r) = most /\ \A i \in 1..most : r[i] = s[i]
  <2> HIDE DEF s
  <2> QED BY <1>1, <1>2, PrefixLemma
<1> HIDE DEF r, b
<1>7. ToSet(r) \subseteq ToSet(s)
  <2>1. DOMAIN r = 1..most BY <1>6, SeqFacts
  <2>2. \A i \in 1..most : i \in DOMAIN s BY <1>1, <1>2
  <2> QED BY <1>6, <2>1, <2>2 DEF ToSet
<1>8. CacheInv([entries |-> r, bytes |-> b], limit)
  <2> DEFINE p == [i \in 1..Len(r) |-> i]
  <2>1. /\ p \in [1..Len(r) -> 1..Len(c.entries)] /\ \A j \in 1..Len(r) : r[j] = c.entries[p[j]]
        /\ \A j, k \in 1..Len(r) : p[j] = p[k] => j = k
        /\ Len(r) <= Len(c.entries)
    BY <1>1, <1>2, <1>6
  <2> HIDE DEF p, s, n, keep
  <2> QED BY <1>5, <1>6, <2>1, PartOfCache
<1> QED BY <1>3, <1>7, <1>8

LEMMA InFrontLemma ==
    ASSUME NEW c, NEW limit, IsLimit(limit), CacheInv(c, limit), NEW e, IsEntry(e),
           \A x \in ToSet(c.entries) : x.key # e.key
    PROVE  /\ CacheInv(InFront(c, e, limit), limit)
           /\ ToSet(InFront(c, e, limit).entries) \subseteq ToSet(c.entries) \cup {e}
<1> DEFINE s == c.entries
           n == Len(s)
<1>1. /\ Sized(s) /\ IsSeq(s) /\ c.bytes = SizeOfAll(s) /\ c.bytes \in Nat /\ DOMAIN s = 1..n /\ n \in Nat
      /\ e.size \in Nat /\ \A i \in 1..n : IsEntry(s[i]) /\ s[i] \in ToSet(s)
  BY CacheFacts, SeqFacts DEF IsEntry
<1>2. CASE ~Fits(c, n, e.size, limit) BY <1>2 DEF InFront
<1>3. CASE Fits(c, n, e.size, limit)
  <2> DEFINE r == <<e>> \o s
             b == c.bytes + e.size
             d == [entries |-> r, bytes |-> b]
  <2>1. InFront(c, e, limit) = d BY <1>3 DEF InFront
  <2>2. /\ Sized(r) /\ SizeOfAll(r) = e.size + SizeOfAll(s) /\ Len(r) = n + 1 /\ r[1] = e
        /\ \A i \in 1..n : r[i + 1] = s[i]
    <3>1. Fronted(s, e) BY <1>1, SizeFront
    <3> QED BY <3>1 DEF Fronted
  <2>3. IsSeq(r) /\ DOMAIN r = 1..(n + 1) /\ ToSet(r) = {e} \cup ToSet(s)
    <3>1. IsSeq(r) BY <2>2 DEF Sized
    <3>2. ToSet(r) = {e} \cup ToSet(s) BY <1>1, OneElement, ConcatLemma
    <3> QED BY <2>2, <3>1, <3>2, SeqFacts
  <2>4. n + 1 <= limit.entries /\ b <= limit.bytes /\ b = SizeOfAll(r)
    <3>1. SubSeq(s, n + 1, n) = <<>>
      <4>1. s \in Seq(ToSet(s)) BY <1>1 DEF IsSeq
      <4> QED BY <1>1, <4>1
    <3>2. n < limit.entries /\ c.bytes - 0 + e.size <= limit.bytes BY <1>3, <3>1, SizeEmpty DEF Fits
    <3> QED BY <1>1, <2>2, <3>2 DEF IsLimit
  <2> HIDE DEF r, b
  <2>5. ASSUME NEW i \in 1..(n + 1), i # 1 PROVE i - 1 \in 1..n /\ r[i] = s[i - 1]
    <3>1. i - 1 \in 1..n /\ i = (i - 1) + 1 BY <1>1, <2>5
    <3> QED BY <2>2, <3>1
  <2>6. \A i \in DOMAIN r : IsEntry(r[i])
    <3> SUFFICES ASSUME NEW i \in 1..(n + 1) PROVE IsEntry(r[i]) BY <2>3
    <3> QED BY <1>1, <2>2, <2>5
  <2>7. \A i, j \in DOMAIN r : r[i].key = r[j].key => i = j
    <3> SUFFICES ASSUME NEW i \in 1..(n + 1), NEW j \in 1..(n + 1), r[i].key = r[j].key PROVE i = j
      BY <2>3
    <3>1. CASE i = 1 /\ j # 1 BY <1>1, <2>2, <2>5, <3>1
    <3>2. CASE j = 1 /\ i # 1 BY <1>1, <2>2, <2>5, <3>2
    <3>3. CASE i # 1 /\ j # 1
      <4>1. i - 1 \in DOMAIN s /\ j - 1 \in DOMAIN s /\ s[i - 1].key = s[j - 1].key BY <1>1, <2>5, <3>3
      <4>2. i - 1 = j - 1 BY <4>1, CacheFacts
      <4> QED BY <4>2
    <3> QED BY <3>1, <3>2, <3>3
  <2>8. d.entries = r /\ d.bytes = b /\ d = [entries |-> d.entries, bytes |-> d.bytes] OBVIOUS
  <2> HIDE DEF d
  <2>9. CacheInv(d, limit) BY <2>2, <2>3, <2>4, <2>6, <2>7, <2>8 DEF CacheInv, IsExact
  <2> QED BY <2>1, <2>3, <2>8, <2>9
<1> QED BY <1>2, <1>3

LEMMA TouchedLemma ==
    ASSUME NEW c, NEW limit, IsLimit(limit), CacheInv(c, limit), NEW k
    PROVE  /\ CacheInv(Touched(c, k), limit)
           /\ ToSet(Touched(c, k).entries) \subseteq ToSet(c.entries)
<1> DEFINE s == c.entries
           n == Len(s)
<1>1. /\ Sized(s) /\ IsSeq(s) /\ c.bytes = SizeOfAll(s) /\ c.bytes \in Nat /\ DOMAIN s = 1..n /\ n \in Nat
      /\ \A i \in 1..n : IsEntry(s[i]) /\ s[i] \in ToSet(s)
      /\ n <= limit.entries /\ c.bytes <= limit.bytes
  BY CacheFacts, SeqFacts
<1>2. CASE ~Holds(c, k) BY <1>2 DEF Touched
<1>3. CASE Holds(c, k) /\ EntryOf(c, k).old
  <2>1. Touched(c, k) = Without(c, Under(c, k)) BY <1>3 DEF Touched
  <2>2. \A i \in DOMAIN s : s[i] \in ToSet(s) BY <1>1
  <2> QED BY <2>1, <2>2, WithoutLemma
<1>4. CASE Holds(c, k) /\ ~EntryOf(c, k).old
  <2>1. PICK i \in DOMAIN s : s[i].key = k /\ EntryOf(c, k) = s[i] BY <1>4 DEF Holds, EntryOf
  <2>2. Under(c, k) = {i}
    <3>1. \A j \in DOMAIN s : s[j].key = k => j = i BY <2>1, CacheFacts
    <3> QED BY <2>1, <3>1 DEF Under
  <2> DEFINE e == s[i]
             J == DOMAIN s \ {i}
             q == Among(s, J)
             r == <<e>> \o q
             d == [entries |-> r, bytes |-> c.bytes]
  <2>3. c = [entries |-> c.entries, bytes |-> c.bytes] BY DEF CacheInv
  <2>4. Touched(c, k) = d
    <3>1. Touched(c, k) = [c EXCEPT !.entries = r] BY <1>4, <2>1, <2>2 DEF Touched
    <3> HIDE DEF r
    <3> QED BY <2>3, <3>1
  <2>5. IsEntry(e) /\ e.size \in Nat /\ i \in 1..n /\ e.key = k BY <1>1, <2>1 DEF IsEntry
  <2>6. Without(c, {i}) = [entries |-> q, bytes |-> c.bytes - SizeOfAll(Among(s, {i}))] BY DEF Without
  <2>7. Without(c, {i}).entries = q BY <2>6
  <2>8. /\ \A x \in ToSet(q) : x \in ToSet(s) /\ x.key # k
        /\ \A j \in DOMAIN q : IsEntry(q[j])
        /\ \A j, l \in DOMAIN q : q[j].key = q[l].key => j = l
    <3>1. CacheInv(Without(c, {i}), limit)
          /\ \A x \in ToSet(q) : \E j \in DOMAIN s : j \notin {i} /\ x = s[j]
      BY <2>7, WithoutLemma
    <3>2. \A j \in DOMAIN s : j # i => s[j].key # k BY <2>1, CacheFacts
    <3>3. \A x \in ToSet(q) : x \in ToSet(s) /\ x.key # k BY <1>1, <3>1, <3>2
    <3> HIDE DEF q
    <3> QED BY <2>7, <3>1, <3>3, CacheFacts
  <2>9. /\ Sized(q) /\ SizeOfAll(q) = SizeOfAll(s) - SizeOfAll(Among(s, {i}))
        /\ Len(q) = n - Len(Among(s, {i})) /\ Among(s, {i}) = <<e>>
    <3> HIDE DEF s
    <3>1. IsSeq(s) /\ i \in 1..Len(s) BY <1>1, <2>5
    <3> QED BY <1>1, <3>1, SizeAmong, AmongOne
  <2>10. SizeOfAll(<<e>>) = e.size /\ Len(<<e>>) = 1
    <3>1. Append(<<>>, e) = <<e>> OBVIOUS
    <3>2. SizeOfAll(Append(<<>>, e)) = SizeOfAll(<<>>) + e.size BY <2>5, SizeEmpty, SizeAppend
    <3> QED BY <2>5, <3>1, <3>2, SizeEmpty, OneElement
  <2> HIDE DEF e, q
  <2>11. /\ Sized(r) /\ SizeOfAll(r) = e.size + SizeOfAll(q) /\ Len(r) = Len(q) + 1 /\ r[1] = e
         /\ \A j \in 1..Len(q) : r[j + 1] = q[j]
    <3>1. Sized(q) /\ e.size \in Nat BY <2>5, <2>9
    <3>2. Fronted(q, e) BY <3>1, SizeFront
    <3> QED BY <3>2 DEF Fronted
  <2>12. SizeOfAll(r) = c.bytes /\ Len(r) = n
    <3>1. SizeOfAll(q) \in Nat /\ SizeOfAll(s) \in Nat BY <1>1, <2>9, SizeIsNat
    <3>2. /\ SizeOfAll(q) = SizeOfAll(s) - e.size /\ c.bytes = SizeOfAll(s) /\ e.size \in Nat
          /\ Len(q) = n - 1 /\ n \in Nat
      BY <1>1, <2>5, <2>9, <2>10
    <3>3. SizeOfAll(r) = e.size + SizeOfAll(q) /\ Len(r) = Len(q) + 1 BY <2>11
    <3> HIDE DEF r, s, n
    <3> QED BY <3>1, <3>2, <3>3
  <2>13. IsSeq(r) /\ DOMAIN r = 1..n /\ ToSet(r) = {e} \cup ToSet(q) /\ DOMAIN q = 1..(n - 1) /\ Len(q) = n - 1
    <3>1. IsSeq(r) /\ IsSeq(q) BY <2>9, <2>11 DEF Sized
    <3>2. ToSet(r) = {e} \cup ToSet(q) BY <3>1, OneElement, ConcatLemma
    <3> QED BY <1>1, <2>9, <2>10, <2>12, <3>1, <3>2, SeqFacts
  <2> HIDE DEF r
  <2>14. ASSUME NEW j \in 1..n, j # 1 PROVE j - 1 \in DOMAIN q /\ r[j] = q[j - 1]
    <3>1. j - 1 \in 1..(n - 1) /\ j = (j - 1) + 1 BY <1>1, <2>14
    <3> QED BY <2>11, <2>13, <3>1
  <2>15. \A j \in DOMAIN r : IsEntry(r[j])
    <3> SUFFICES ASSUME NEW j \in 1..n PROVE IsEntry(r[j]) BY <2>13
    <3> QED BY <2>5, <2>8, <2>11, <2>14
  <2>16. \A j, l \in DOMAIN r : r[j].key = r[l].key => j = l
    <3> SUFFICES ASSUME NEW j \in 1..n, NEW l \in 1..n, r[j].key = r[l].key PROVE j = l
      BY <2>13
    <3>1. \A x \in DOMAIN q : q[x].key # k
      <4>1. \A x \in DOMAIN q : q[x] \in ToSet(q) BY DEF ToSet
      <4> QED BY <2>8, <4>1
    <3>2. CASE j = 1 /\ l # 1 BY <2>5, <2>11, <2>14, <3>1, <3>2
    <3>3. CASE l = 1 /\ j # 1 BY <2>5, <2>11, <2>14, <3>1, <3>3
    <3>4. CASE j # 1 /\ l # 1
      <4>1. j - 1 = l - 1 BY <2>8, <2>14, <3>4
      <4> QED BY <4>1
    <3> QED BY <3>2, <3>3, <3>4
  <2>17. ToSet(r) \subseteq ToSet(s)
    <3>1. e \in ToSet(s) BY <1>1, <2>5 DEF e
    <3> QED BY <2>8, <2>13, <3>1
  <2>18. d.entries = r /\ d.bytes = c.bytes /\ d = [entries |-> d.entries, bytes |-> d.bytes] OBVIOUS
  <2> HIDE DEF d
  <2>19. CacheInv(d, limit) BY <1>1, <2>12, <2>13, <2>15, <2>16, <2>18 DEF CacheInv, IsExact
  <2> QED BY <2>4, <2>17, <2>18, <2>19
<1> QED BY <1>2, <1>3, <1>4

\* Entries of that key are out.
LEMMA ReplacedLemma ==
    ASSUME NEW c, NEW limit, IsLimit(limit), CacheInv(c, limit), NEW k
    PROVE  /\ CacheInv(Replaced(c, k), limit)
           /\ ToSet(Replaced(c, k).entries) \subseteq ToSet(c.entries)
           /\ \A x \in ToSet(Replaced(c, k).entries) : x.key # k
<1>1. \A i \in DOMAIN c.entries : c.entries[i] \in ToSet(c.entries) BY DEF ToSet
<1>2. \A i \in DOMAIN c.entries : i \notin Under(c, k) => c.entries[i].key # k BY DEF Under
<1> QED BY <1>1, <1>2, WithoutLemma DEF Replaced

LEMMA RememberLemma ==
    ASSUME NEW c, NEW limit, IsLimit(limit), CacheInv(c, limit), NEW k, NEW value, NEW size \in Nat
    PROVE  /\ CacheInv(Remember(c, k, value, size, limit), limit)
           /\ ToSet(Remember(c, k, value, size, limit).entries)
                \subseteq ToSet(c.entries) \cup {Entry(k, value, size)}
<1> DEFINE a == Replaced(c, k)
           b == WithRoom(a, size, limit)
           e == Entry(k, value, size)
<1>1. CacheInv(a, limit) /\ ToSet(a.entries) \subseteq ToSet(c.entries) /\ \A x \in ToSet(a.entries) : x.key # k
  BY ReplacedLemma
<1>2. IsEntry(e) /\ e.key = k BY DEF Entry, IsEntry
<1> HIDE DEF a, e
<1>3. CacheInv(b, limit) /\ ToSet(b.entries) \subseteq ToSet(a.entries) BY <1>1, WithRoomLemma
<1> HIDE DEF b
<1>4. /\ CacheInv(InFront(b, e, limit), limit)
      /\ ToSet(InFront(b, e, limit).entries) \subseteq ToSet(b.entries) \cup {e}
  BY <1>1, <1>2, <1>3, InFrontLemma
<1>5. Remember(c, k, value, size, limit) = c \/ Remember(c, k, value, size, limit) = InFront(b, e, limit)
  BY DEF Remember, a, b, e
<1> QED BY <1>1, <1>3, <1>4, <1>5 DEF e

LEMMA PutLemma ==
    ASSUME NEW c, NEW limit, IsLimit(limit), CacheInv(c, limit), NEW k, NEW value, NEW size \in Nat
    PROVE  /\ CacheInv(Put(c, k, value, size, limit), limit)
           /\ ToSet(Put(c, k, value, size, limit).entries)
                \subseteq ToSet(c.entries) \cup {Entry(k, value, size)}
<1> DEFINE r == Replaced(c, k)
           gone == {i \in DOMAIN r.entries : r.entries[i].old}
           a == Without(r, gone)
           b == WithRoom(a, size, limit)
           e == Entry(k, value, size)
<1>1. CacheInv(r, limit) /\ ToSet(r.entries) \subseteq ToSet(c.entries) /\ \A x \in ToSet(r.entries) : x.key # k
  BY ReplacedLemma
<1>2. IsEntry(e) /\ e.key = k BY DEF Entry, IsEntry
<1> HIDE DEF r, e
<1>3. CacheInv(a, limit) /\ ToSet(a.entries) \subseteq ToSet(r.entries)
  <2>1. \A i \in DOMAIN r.entries : r.entries[i] \in ToSet(r.entries) BY DEF ToSet
  <2> HIDE DEF gone
  <2> QED BY <1>1, <2>1, WithoutLemma
<1> HIDE DEF a
<1>4. CacheInv(b, limit) /\ ToSet(b.entries) \subseteq ToSet(a.entries) BY <1>3, WithRoomLemma
<1> HIDE DEF b
<1>5. /\ CacheInv(InFront(b, e, limit), limit)
      /\ ToSet(InFront(b, e, limit).entries) \subseteq ToSet(b.entries) \cup {e}
  BY <1>1, <1>2, <1>3, <1>4, InFrontLemma
<1>6. Put(c, k, value, size, limit) = c \/ Put(c, k, value, size, limit) = InFront(b, e, limit)
  BY DEF Put, a, b, e, r, gone
<1> QED BY <1>1, <1>3, <1>4, <1>5, <1>6 DEF e

\* Only whether they are over changes in the entries of an expired key.
LEMMA ExpiredLemma ==
    ASSUME NEW c, NEW limit, IsLimit(limit), CacheInv(c, limit), NEW k
    PROVE  /\ CacheInv(Expired(c, k), limit)
           /\ \A e \in ToSet(Expired(c, k).entries) :
                \E x \in ToSet(c.entries) : e.key = x.key /\ e.value = x.value
<1> DEFINE s == c.entries
           n == Len(s)
           r == [i \in DOMAIN s |-> [s[i] EXCEPT !.old = s[i].old \/ s[i].key = k]]
           d == [entries |-> r, bytes |-> c.bytes]
<1>1. /\ Sized(s) /\ IsSeq(s) /\ c.bytes = SizeOfAll(s) /\ c.bytes \in Nat /\ DOMAIN s = 1..n /\ n \in Nat
      /\ \A i \in 1..n : IsEntry(s[i]) /\ s[i] \in ToSet(s)
      /\ n <= limit.entries /\ c.bytes <= limit.bytes
  BY CacheFacts, SeqFacts
<1>2. c = [entries |-> c.entries, bytes |-> c.bytes] BY DEF CacheInv
<1>3. Expired(c, k) = d
  <2>1. Expired(c, k) = [c EXCEPT !.entries = r] BY DEF Expired
  <2> HIDE DEF r
  <2> QED BY <1>2, <2>1
<1>4. ASSUME NEW i \in 1..n
      PROVE  IsEntry(r[i]) /\ r[i].key = s[i].key /\ r[i].value = s[i].value /\ r[i].size = s[i].size
  <2> DEFINE x == s[i]
  <2>1. x = [key |-> x.key, value |-> x.value, size |-> x.size, old |-> x.old] /\ x.size \in Nat
    BY <1>1 DEF IsEntry
  <2> DEFINE old == x.old \/ x.key = k
             e == r[i]
  <2>2. e = [x EXCEPT !.old = old] BY <1>1
  <2> HIDE DEF x, old, e
  <2>3. e = [key |-> x.key, value |-> x.value, size |-> x.size, old |-> old] BY <2>1, <2>2
  <2>4. e.key = x.key /\ e.value = x.value /\ e.size = x.size /\ IsEntry(e) BY <2>1, <2>3 DEF IsEntry
  <2> QED BY <2>4 DEF x, e
<1>5. IsSeq(r) /\ Len(r) = n /\ DOMAIN r = 1..n
  <2>1. r = [i \in 1..n |-> r[i]] BY <1>1
  <2> HIDE DEF r
  <2> QED BY <1>1, <2>1, FunctionSeq, SeqFacts
<1> HIDE DEF r
<1>6. Sized(r) /\ SizeOfAll(r) = SizeOfAll(s)
  <2>1. Sized(r) BY <1>4, <1>5 DEF Sized, IsEntry
  <2> QED BY <1>1, <1>4, <1>5, <2>1, SizeSame
<1>7. \A i, j \in DOMAIN r : r[i].key = r[j].key => i = j
  <2>1. \A i, j \in 1..n : s[i].key = s[j].key => i = j BY <1>1, CacheFacts
  <2> QED BY <1>4, <1>5, <2>1
<1>8. d.entries = r /\ d.bytes = c.bytes /\ d = [entries |-> d.entries, bytes |-> d.bytes] OBVIOUS
<1>9. \A e \in ToSet(r) : \E x \in ToSet(s) : e.key = x.key /\ e.value = x.value
  BY <1>1, <1>4, <1>5 DEF ToSet
<1> HIDE DEF d
<1>10. CacheInv(d, limit) BY <1>1, <1>4, <1>5, <1>6, <1>7, <1>8 DEF CacheInv, IsExact
<1> QED BY <1>3, <1>8, <1>9, <1>10

\* The caches that hold entries of E.
Caches(E, limit) == {c \in [entries : Seq(E), bytes : Nat] : CacheInv(c, limit)}

LEMMA InCaches ==
    ASSUME NEW c, NEW limit, IsLimit(limit), CacheInv(c, limit), NEW E, ToSet(c.entries) \subseteq E
    PROVE  c \in Caches(E, limit)
<1>1. c.bytes \in Nat /\ c.entries \in Seq(ToSet(c.entries)) BY CacheFacts DEF IsSeq
<1>2. c.entries \in Seq(E) BY <1>1
<1>3. c = [entries |-> c.entries, bytes |-> c.bytes] BY DEF CacheInv
<1> QED BY <1>1, <1>2, <1>3 DEF Caches

LEMMA OfCaches ==
    ASSUME NEW E, NEW limit, NEW c \in Caches(E, limit)
    PROVE  CacheInv(c, limit) /\ ToSet(c.entries) \subseteq E
<1>1. CacheInv(c, limit) /\ c.entries \in Seq(E) BY DEF Caches
<1>2. \A i \in DOMAIN c.entries : c.entries[i] \in E BY <1>1
<1> QED BY <1>1, <1>2 DEF ToSet

LEMMA FiledLemma ==
    ASSUME IsLimit(SignatureLimit), IsFiniteSet(DOMAIN used), CacheInv(signatures, SignatureLimit), NEW name
    PROVE  CacheInv(Filed(name), SignatureLimit)
<1> DEFINE L == SignatureLimit
           a == Ascending(DOMAIN used)
           n == Cardinality(DOMAIN used)
           E == ToSet(signatures.entries) \cup {Entry(<<Family(name), a[i]>>, used[a[i]], 1) : i \in 1..n}
           V == Caches(E, L)
           Op(c, id) == IF used[id] = None THEN c
                        ELSE Remember(c, <<Family(name), id>>, used[id], 1, L)
           F == [w \in V \X (1..n) |-> Op(w[1], a[w[2]])]
           base == signatures
           Solves(h) == h = [T \in SUBSET (1..n) |->
                               IF T = {} THEN base ELSE Op(h[T \ {Max(T)}], a[Max(T)])]
<1>1. n \in Nat /\ DOMAIN a = 1..n BY FS_CardinalityType DEF Ascending
<1>2. base \in V BY InCaches
<1>3. \A c \in V, i \in 1..n : Op(c, a[i]) \in V
  <2> SUFFICES ASSUME NEW c \in V, NEW i \in 1..n PROVE Op(c, a[i]) \in V OBVIOUS
  <2>1. CacheInv(c, L) /\ ToSet(c.entries) \subseteq E BY OfCaches
  <2>2. CASE used[a[i]] = None BY <2>2
  <2>3. CASE used[a[i]] # None
    <3> DEFINE k == <<Family(name), a[i]>>
               v == used[a[i]]
               r == Remember(c, k, v, 1, L)
    <3>1. Entry(k, v, 1) \in E OBVIOUS
    <3>2. Op(c, a[i]) = r BY <2>3
    <3> HIDE DEF E, a, k, v, Op
    <3>3. CacheInv(r, L) /\ ToSet(r.entries) \subseteq ToSet(c.entries) \cup {Entry(k, v, 1)}
      BY <2>1, RememberLemma
    <3> HIDE DEF r
    <3>4. r \in V BY <2>1, <3>1, <3>3, InCaches
    <3> QED BY <3>2, <3>4
  <2> QED BY <2>2, <2>3
<1> HIDE DEF V, Op
<1>4. F \in [V \X (1..n) -> V] BY <1>3
<1>5. \A c \in V, i \in 1..n : F[<<c, i>>] = Op(c, a[i]) OBVIOUS
<1>6. \A T \in SUBSET (1..n) : T # {} => Max(T) \in T
  <2> SUFFICES ASSUME NEW T \in SUBSET (1..n), T # {} PROVE Max(T) \in T OBVIOUS
  <2> HIDE DEF n
  <2> QED BY <1>1, MaxIn
<1> HIDE DEF F, a, n, base
<1>7. \E h : Solves(h)
  <2>1. PICK g \in [SUBSET (1..n) -> V] : Folds(g, n, base, F)
    <3> QED BY <1>1, <1>2, <1>4, FoldIter
  <2>2. \A T \in SUBSET (1..n) : g[T] = IF T = {} THEN base ELSE Op(g[T \ {Max(T)}], a[Max(T)])
    <3> SUFFICES ASSUME NEW T \in SUBSET (1..n), T # {} PROVE g[T] = Op(g[T \ {Max(T)}], a[Max(T)])
      BY <2>1 DEF Folds
    <3>1. Max(T) \in 1..n /\ T \ {Max(T)} \in SUBSET (1..n) BY <1>6
    <3>2. g[T \ {Max(T)}] \in V BY <3>1
    <3>3. g[T] = F[<<g[T \ {Max(T)}], Max(T)>>] BY <2>1 DEF Folds
    <3> QED BY <1>5, <3>1, <3>2, <3>3
  <2>3. g = [T \in SUBSET (1..n) |-> g[T]] OBVIOUS
  <2> QED BY <2>2, <2>3
<1> DEFINE h == CHOOSE h : Solves(h)
<1>8. Solves(h) BY <1>7
<1>9. Filed(name) = h[1..n] BY <1>1 DEF Filed, FoldLeft, MapThenFoldSet, Op, base, a
<1> HIDE DEF h
<1>10. Follows(h, n, V, base, F)
  <2>1. h[{}] = base BY <1>8
  <2>2. ASSUME NEW T \in SUBSET (1..n), T # {}, h[T \ {Max(T)}] \in V
        PROVE  h[T] = F[<<h[T \ {Max(T)}], Max(T)>>]
    <3>1. Max(T) \in 1..n BY <1>6, <2>2
    <3>2. h[T] = Op(h[T \ {Max(T)}], a[Max(T)]) BY <1>8, <2>2
    <3> QED BY <1>5, <2>2, <3>1, <3>2
  <2> HIDE DEF Solves
  <2> QED BY <2>1, <2>2 DEF Follows
<1>11. \E f \in [0..n -> V] : Reaches(f, n, base, F, h[1..n])
  <2> HIDE DEF Solves
  <2> QED BY <1>1, <1>2, <1>4, <1>10, FoldSteps
<1>12. h[1..n] \in V
  <2>1. n \in 0..n BY <1>1
  <2> QED BY <1>11, <2>1 DEF Reaches
<1> QED BY <1>9, <1>12, OfCaches DEF V

-----------------------------------------------------------------------------
(* What a client holds. *)

\* Only calls and thoughts carry a signature of their own.
IsBlock(b) ==
  /\ b = [kind |-> b.kind, what |-> b.what, id |-> b.id, name |-> b.name, sig |-> b.sig, media |-> b.media]
  /\ b.kind \notin {"call", "thought"} => b.sig = None

AreBlocks(s) == IsSeq(s) /\ \A b \in ToSet(s) : IsBlock(b)

IsMessage(m) == m = [role |-> m.role, sig |-> m.sig, blocks |-> m.blocks] /\ AreBlocks(m.blocks)

IsConversation(s) == IsSeq(s) /\ \A m \in ToSet(s) : IsMessage(m)

LEMMA MadeBlock ==
    ASSUME NEW kind, NEW what, NEW id, NEW name, NEW sig, kind \notin {"call", "thought"} => sig = None
    PROVE  IsBlock(Block(kind, what, id, name, sig))
  BY DEF Block, IsBlock

LEMMA SpokenBlocks ==
    ASSUME NEW kind, NEW what, NEW sig, kind \notin {"call", "thought"} => sig = None
    PROVE  AreBlocks(Spoken(kind, what, sig))
<1> DEFINE b == Block(kind, what, None, None, sig)
<1>1. IsBlock(b) BY MadeBlock
<1> HIDE DEF b
<1>2. AreBlocks(<<b>>) BY <1>1, OneElement DEF AreBlocks
<1>3. AreBlocks(<<>>) BY EmptyIsSeq DEF AreBlocks
<1> QED BY <1>2, <1>3 DEF Spoken, b

LEMMA BlocksConcat ==
    ASSUME NEW s, NEW t, AreBlocks(s), AreBlocks(t) PROVE AreBlocks(s \o t)
  BY ConcatLemma DEF AreBlocks

LEMMA ConversationConcat ==
    ASSUME NEW s, NEW t, IsConversation(s), IsConversation(t)
    PROVE  IsConversation(s \o t) /\ Len(s \o t) = Len(s) + Len(t)
  BY ConcatLemma DEF IsConversation

LEMMA OneMessage == ASSUME NEW m, IsMessage(m) PROVE IsConversation(<<m>>)
  BY OneElement DEF IsConversation

LEMMA AssistantMessage ==
    ASSUME NEW sig, NEW blocks, AreBlocks(blocks) PROVE IsMessage(Assistant(sig, blocks))
  BY DEF Assistant, IsMessage

LEMMA UserMessage == ASSUME NEW blocks, AreBlocks(blocks) PROVE IsMessage(User(blocks))
  BY DEF User, IsMessage

LEMMA CallBlockIs == ASSUME NEW c PROVE IsBlock(CallBlock(c)) BY MadeBlock DEF CallBlock

\* A list of blocks, one for each element of another.
LEMMA MapBlocks ==
    ASSUME NEW s, IsSeq(s), NEW t, t = [k \in DOMAIN s |-> t[k]], \A k \in DOMAIN s : IsBlock(t[k])
    PROVE  AreBlocks(t)
<1>1. IsSeq(t) /\ ToSet(t) = {t[k] : k \in DOMAIN s} BY MapSeq
<1> QED BY <1>1 DEF AreBlocks

LEMMA MapMessages ==
    ASSUME NEW s, IsSeq(s), NEW t, t = [k \in DOMAIN s |-> t[k]], \A k \in DOMAIN s : IsMessage(t[k])
    PROVE  IsConversation(t) /\ Len(t) = Len(s) /\ DOMAIN t = DOMAIN s
<1>1. IsSeq(t) /\ ToSet(t) = {t[k] : k \in DOMAIN s} /\ Len(t) = Len(s) /\ DOMAIN t = DOMAIN s BY MapSeq
<1> QED BY <1>1 DEF IsConversation

LEMMA OpenAIAnswer ==
    ASSUME NEW thoughts, NEW texts, NEW called, IsSeq(called), NEW sig
    PROVE  IsConversation(OpenAIMessage(thoughts, texts, called, sig))
<1> DEFINE a == Spoken("thought", thoughts, None)
           b == Spoken("text", texts, None)
           c == [k \in DOMAIN called |-> CallBlock(called[k])]
<1>1. AreBlocks(a) /\ AreBlocks(b) BY SpokenBlocks
<1>2. AreBlocks(c)
  <2>1. \A k \in DOMAIN called : IsBlock(c[k]) BY CallBlockIs
  <2>2. c = [k \in DOMAIN called |-> c[k]] OBVIOUS
  <2> HIDE DEF c
  <2> QED BY <2>1, <2>2, MapBlocks
<1>3. OpenAIMessage(thoughts, texts, called, sig) = <<Assistant(sig, a \o b \o c)>> BY DEF OpenAIMessage
<1> HIDE DEF a, b, c
<1>4. AreBlocks(a \o b \o c) BY <1>1, <1>2, BlocksConcat
<1> QED BY <1>3, <1>4, AssistantMessage, OneMessage

LEMMA SaidIsSeq == ASSUME IsSeq(out), NEW K, NEW t, t = [k \in DOMAIN Among(out, K) |-> t[k]] PROVE IsSeq(t)
<1>1. IsSeq(Among(out, K)) BY AmongLemma
<1> QED BY <1>1, MapSeq

\* What the events of an answer bring is a list of messages, and the two
\* conversions of a collected answer bring the same calls.
DoneTyped ==
  phase = "done" =>
    /\ protocol = "responses" => out # <<>> /\ IsSeq(Last(out).output)
    /\ protocol = "json" =>
         /\ out # <<>> /\ 1 \in DOMAIN out[1].choices
         /\ IsSeq(out[1].message.content) /\ IsSeq(out[1].choices[1].calls)
         /\ \A b \in ToSet(out[1].message.content) :
              b.type = "tool" => \E c \in ToSet(out[1].choices[1].calls) : c.id = b.id /\ c.name = b.name

LEMMA AnswerIsConversation ==
    ASSUME IsSeq(out), DoneTyped, phase = "done", protocol \in Protocols, NEW d \in DialectsOf(protocol)
    PROVE  IsConversation(Answer(d))
<1>1. CASE protocol = "claude"
  <2> DEFINE starts == Among(out, {i \in DOMAIN out : out[i].ev = "content_block_start"})
             Deltas(i, kind) == Said(out, {n \in DOMAIN out :
                                      out[n].ev = "content_block_delta" /\ out[n].index = i /\ out[n].kind = kind})
             Of(e) == CASE e.kind = "tool_use" -> CallBlock(Deltas(e.index, "tool_use")[1])
                        [] e.kind = "thinking" ->
                             LET sig == Deltas(e.index, "signature")
                             IN  Block("thought", Deltas(e.index, "thinking"), None, None,
                                       IF sig = <<>> THEN None ELSE sig[1])
                        [] OTHER -> Block("text", Deltas(e.index, "text"), None, None, None)
             t == [k \in DOMAIN starts |-> Of(starts[k])]
  <2>1. IsSeq(starts) BY AmongLemma
  <2>2. \A e : IsBlock(Of(e))
    <3> SUFFICES ASSUME NEW e PROVE IsBlock(Of(e)) OBVIOUS
    <3> DEFINE x == Deltas(e.index, "tool_use")[1]
               y == Deltas(e.index, "thinking")
               sig == Deltas(e.index, "signature")
               w == IF sig = <<>> THEN None ELSE sig[1]
               z == Deltas(e.index, "text")
    <3>1. IsBlock(CallBlock(x)) BY CallBlockIs
    <3>2. IsBlock(Block("thought", y, None, None, w)) BY MadeBlock
    <3>3. IsBlock(Block("text", z, None, None, None)) BY MadeBlock
    <3> HIDE DEF x, y, w, z
    <3>4. CASE e.kind = "tool_use"
      <4>1. Of(e) = CallBlock(x) BY <3>4 DEF x
      <4> HIDE DEF Of
      <4> QED BY <3>1, <4>1
    <3>5. CASE e.kind = "thinking"
      <4>1. Of(e) = Block("thought", y, None, None, w) BY <3>5 DEF y, w
      <4> HIDE DEF Of
      <4> QED BY <3>2, <4>1
    <3>6. CASE e.kind \notin {"tool_use", "thinking"}
      <4>1. Of(e) = Block("text", z, None, None, None) BY <3>6 DEF z
      <4> HIDE DEF Of
      <4> QED BY <3>3, <4>1
    <3> QED BY <3>4, <3>5, <3>6
  <2>3. Answer(d) = <<Assistant(None, t)>> BY <1>1 DEF Answer, FromClaudeEvents
  <2> HIDE DEF Of, starts
  <2>4. \A k \in DOMAIN starts : IsBlock(t[k]) BY <2>2
  <2>5. t = [k \in DOMAIN starts |-> t[k]] OBVIOUS
  <2> HIDE DEF t
  <2>6. AreBlocks(t) BY <2>1, <2>4, <2>5, MapBlocks
  <2> QED BY <2>3, <2>6, AssistantMessage, OneMessage
<1>2. CASE protocol = "openai"
  <2> DEFINE Field(kind) == Said(out, {n \in DOMAIN out : out[n].ev = "chunk" /\ out[n].index = 0 /\ out[n].kind = kind})
             a == Field("reasoning_content")
             b == Field("content")
             c == Field("tool_calls")
             sigs == Field("reasoning_signature")
             sig == IF sigs = <<>> THEN None ELSE Last(sigs)
  <2>1. Answer(d) = OpenAIMessage(a, b, c, sig) BY <1>2 DEF Answer, FromChunks
  <2>2. IsSeq(c)
    <3> DEFINE K == {i \in DOMAIN out : out[i].ev = "chunk" /\ out[i].index = 0 /\ out[i].kind = "tool_calls"}
    <3>1. c = [k \in DOMAIN Among(out, K) |-> Among(out, K)[k].what] BY DEF Said
    <3>2. c = [k \in DOMAIN Among(out, K) |-> c[k]] BY <3>1
    <3> HIDE DEF c, K
    <3> QED BY <3>2, SaidIsSeq
  <2> HIDE DEF a, b, c, sig
  <2> QED BY <2>1, <2>2, OpenAIAnswer
<1>3. CASE protocol = "responses"
  <2> DEFINE items == Last(out).output
             Of(item) == CASE item.type = "function_call" -> Assistant(None, <<CallBlock(item.call)>>)
                           [] item.type = "reasoning" -> Assistant(item.sig, Spoken("thought", item.text, None))
                           [] OTHER -> Assistant(None, Spoken("text", item.text, None))
             t == [k \in DOMAIN items |-> Of(items[k])]
  <2>1. IsSeq(items) BY <1>3 DEF DoneTyped
  <2>2. \A item : IsMessage(Of(item))
    <3> SUFFICES ASSUME NEW item PROVE IsMessage(Of(item)) OBVIOUS
    <3>1. AreBlocks(<<CallBlock(item.call)>>) BY CallBlockIs, OneElement DEF AreBlocks
    <3>2. AreBlocks(Spoken("thought", item.text, None)) /\ AreBlocks(Spoken("text", item.text, None))
      BY SpokenBlocks
    <3> QED BY <3>1, <3>2, AssistantMessage
  <2>3. Answer(d) = t BY <1>3 DEF Answer, FromItems
  <2> HIDE DEF Of, items
  <2>4. \A k \in DOMAIN items : IsMessage(t[k]) BY <2>2
  <2>5. t = [k \in DOMAIN items |-> t[k]] OBVIOUS
  <2> HIDE DEF t
  <2> QED BY <2>1, <2>3, <2>4, <2>5, MapMessages
<1>4. CASE protocol = "json" /\ d = "claude"
  <2> DEFINE blocks == out[1].message.content
             Of(b) == CASE b.type = "tool" -> CallBlock(b)
                        [] b.type = "thought" -> Block("thought", b.text, None, None, b.sig)
                        [] OTHER -> Block("text", b.text, None, None, None)
             t == [k \in DOMAIN blocks |-> Of(blocks[k])]
  <2>1. IsSeq(blocks) BY <1>4 DEF DoneTyped
  <2>2. \A b : IsBlock(Of(b)) BY CallBlockIs, MadeBlock
  <2>3. Answer(d) = <<Assistant(None, t)>> BY <1>4 DEF Answer, FromClaudeMessage
  <2> HIDE DEF Of, blocks
  <2>4. \A k \in DOMAIN blocks : IsBlock(t[k]) BY <2>2
  <2>5. t = [k \in DOMAIN blocks |-> t[k]] OBVIOUS
  <2> HIDE DEF t
  <2>6. AreBlocks(t) BY <2>1, <2>4, <2>5, MapBlocks
  <2> QED BY <2>3, <2>6, AssistantMessage, OneMessage
<1>5. CASE protocol = "json" /\ d # "claude"
  <2> DEFINE choice == out[1].choices[1]
  <2>1. Answer(d) = OpenAIMessage(choice.reasoning, choice.content, choice.calls, choice.sig)
    BY <1>5 DEF Answer, FromChoice
  <2>2. IsSeq(choice.calls) BY <1>5 DEF DoneTyped
  <2> HIDE DEF choice
  <2> QED BY <2>1, <2>2, OpenAIAnswer
<1> QED BY <1>1, <1>2, <1>3, <1>4, <1>5 DEF Protocols, Streamed

LEMMA KeptMessage ==
    ASSUME NEW msg, IsMessage(msg), NEW way PROVE IsMessage(Kept(msg, way))
<1> DEFINE Of(b) == IF b.kind # "call" THEN b
                    ELSE CASE way \in {"unsigned", "bare"} -> [b EXCEPT !.sig = None]
                           [] way = "sentinel" -> [b EXCEPT !.sig = Sentinel]
                           [] way = "short" -> [b EXCEPT !.name = <<Last(@)>>]
                           [] OTHER -> b
           blocks == IF way = "bare"
                     THEN Among(msg.blocks, {i \in DOMAIN msg.blocks : msg.blocks[i].kind # "thought"})
                     ELSE msg.blocks
           t == [k \in DOMAIN blocks |-> Of(blocks[k])]
           sig == IF way = "bare" THEN None ELSE msg.sig
<1>1. IsSeq(msg.blocks) /\ \A b \in ToSet(msg.blocks) : IsBlock(b) BY DEF IsMessage, AreBlocks
<1>2. IsSeq(blocks) /\ \A k \in DOMAIN blocks : IsBlock(blocks[k])
  <2>1. IsSeq(blocks) /\ blocks \in Seq(ToSet(msg.blocks)) BY <1>1, AmongLemma DEF IsSeq
  <2>2. \A k \in DOMAIN blocks : blocks[k] \in ToSet(msg.blocks) BY <2>1
  <2> QED BY <1>1, <2>1, <2>2
<1> HIDE DEF blocks
<1>3. \A b : IsBlock(b) => IsBlock(Of(b))
  <2> SUFFICES ASSUME NEW b, IsBlock(b) PROVE IsBlock(Of(b)) OBVIOUS
  <2>1. b = [kind |-> b.kind, what |-> b.what, id |-> b.id, name |-> b.name, sig |-> b.sig, media |-> b.media]
        /\ (b.kind \notin {"call", "thought"} => b.sig = None)
    BY DEF IsBlock
  <2>2. CASE b.kind # "call"
    <3>1. Of(b) = b BY <2>2
    <3> HIDE DEF Of
    <3> QED BY <3>1
  <2>3. CASE b.kind = "call"
    <3> DEFINE x == [b EXCEPT !.sig = None]
               y == [b EXCEPT !.sig = Sentinel]
               z == [b EXCEPT !.name = <<Last(b.name)>>]
    <3>1. IsBlock(x) BY <2>1, <2>3 DEF IsBlock
    <3>2. IsBlock(y) BY <2>1, <2>3 DEF IsBlock
    <3>3. IsBlock(z) BY <2>1, <2>3 DEF IsBlock
    <3>4. Of(b) = b \/ Of(b) = x \/ Of(b) = y \/ Of(b) = z OBVIOUS
    <3> HIDE DEF Of, x, y, z
    <3> QED BY <3>1, <3>2, <3>3, <3>4
  <2> QED BY <2>2, <2>3
<1> HIDE DEF Of
<1>4. AreBlocks(t)
  <2>1. \A k \in DOMAIN blocks : IsBlock(t[k]) BY <1>2, <1>3
  <2>2. t = [k \in DOMAIN blocks |-> t[k]] OBVIOUS
  <2> HIDE DEF t
  <2> QED BY <1>2, <2>1, <2>2, MapBlocks
<1>5. Kept(msg, way) = [msg EXCEPT !.blocks = t, !.sig = sig] BY DEF Kept, blocks, Of
<1> HIDE DEF t, sig
<1>6. Kept(msg, way) = [role |-> msg.role, sig |-> sig, blocks |-> t] BY <1>5 DEF IsMessage
<1> HIDE <1>5
<1> QED BY <1>4, <1>6 DEF IsMessage

LEMMA QuestionIsConversation == IsConversation(Question)
<1>1. AreBlocks(Spoken("text", <<0>>, None)) BY SpokenBlocks
<1> DEFINE a == [role |-> "system", sig |-> None, blocks |-> Spoken("text", <<0>>, None)]
           b == User(Spoken("text", <<0>>, None))
<1>2. IsMessage(a) /\ IsMessage(b) BY <1>1, UserMessage DEF IsMessage
<1>3. Question = <<a, b>> BY DEF Question
<1> HIDE DEF a, b
<1> QED BY <1>2, <1>3, TwoElements DEF IsConversation

\* The blocks of all messages.
LEMMA AllBlocks ==
    ASSUME NEW msgs, IsConversation(msgs)
    PROVE  AreBlocks(FlattenSeq([i \in DOMAIN msgs |-> msgs[i].blocks]))
<1> DEFINE ss == [i \in DOMAIN msgs |-> msgs[i].blocks]
<1>1. IsSeq(msgs) /\ \A i \in DOMAIN msgs : IsMessage(msgs[i]) BY DEF IsConversation, ToSet
<1>2. ss = [i \in DOMAIN msgs |-> ss[i]] /\ \A i \in DOMAIN msgs : AreBlocks(ss[i]) BY <1>1 DEF IsMessage
<1> HIDE DEF ss
<1>3. IsSeq(ss) /\ DOMAIN ss = DOMAIN msgs BY <1>1, <1>2, MapSeq
<1>4. IsSeq(FlattenSeq(ss)) /\ ToSet(FlattenSeq(ss)) = UNION {ToSet(ss[i]) : i \in DOMAIN ss}
  BY <1>2, <1>3, FlattenLemma DEF AreBlocks
<1>5. AreBlocks(FlattenSeq(ss)) BY <1>2, <1>3, <1>4 DEF AreBlocks
<1> QED BY <1>5 DEF ss

\* Some of them.
LEMMA SomeBlocks == ASSUME NEW s, AreBlocks(s), NEW K PROVE AreBlocks(Among(s, K))
<1>1. IsSeq(Among(s, K)) /\ Among(s, K) \in Seq(ToSet(s)) BY AmongLemma DEF AreBlocks
<1>2. \A k \in DOMAIN Among(s, K) : Among(s, K)[k] \in ToSet(s) BY <1>1
<1>3. ToSet(Among(s, K)) \subseteq ToSet(s) BY <1>2 DEF ToSet
<1> QED BY <1>1, <1>3 DEF AreBlocks

LEMMA ResultsAreConversation ==
    ASSUME NEW msgs, IsConversation(msgs) PROVE IsConversation(Results(msgs))
<1> DEFINE blocks == FlattenSeq([i \in DOMAIN msgs |-> msgs[i].blocks])
           called == Among(blocks, {i \in DOMAIN blocks : blocks[i].kind = "call"})
           R(k) == [called[k] EXCEPT !.kind = "result", !.name = <<Last(@)>>, !.sig = None, !.media = k = 1]
           t == [k \in DOMAIN called |-> User(<<R(k)>>)]
           u == User(Spoken("text", <<-1>>, None))
<1>1. AreBlocks(blocks) BY AllBlocks
<1> HIDE DEF blocks
<1>2. AreBlocks(called) BY <1>1, SomeBlocks
<1>3. IsMessage(u) BY SpokenBlocks, UserMessage
<1>4. Results(msgs) = t \o <<u>> BY DEF Results, blocks
<1> HIDE DEF called, u
<1>5. ASSUME NEW k \in DOMAIN called PROVE IsMessage(t[k])
  <2> DEFINE b == called[k]
             r == R(k)
  <2>1. IsBlock(b) BY <1>2 DEF AreBlocks, ToSet
  <2>2. r = [b EXCEPT !.kind = "result", !.name = <<Last(b.name)>>, !.sig = None, !.media = k = 1] OBVIOUS
  <2>3. t[k] = User(<<r>>) OBVIOUS
  <2> HIDE DEF b, r, t
  <2>4. r = [kind |-> "result", what |-> b.what, id |-> b.id, name |-> <<Last(b.name)>>, sig |-> None, media |-> k = 1]
    BY <2>1, <2>2 DEF IsBlock
  <2>5. IsBlock(r) BY <2>4 DEF IsBlock
  <2>6. AreBlocks(<<r>>) BY <2>5, OneElement DEF AreBlocks
  <2> QED BY <2>3, <2>6, UserMessage
<1>6. IsConversation(t)
  <2>1. t = [k \in DOMAIN called |-> t[k]] OBVIOUS
  <2>2. IsSeq(called) BY <1>2 DEF AreBlocks
  <2> HIDE DEF t
  <2> QED BY <1>5, <2>1, <2>2, MapMessages
<1> HIDE DEF t
<1>7. IsConversation(<<u>>) BY <1>3, OneMessage
<1> QED BY <1>4, <1>6, <1>7, ConversationConcat

LEMMA LastMessages ==
    ASSUME NEW s, IsConversation(s), NEW k \in 0..Len(s)
    PROVE  IsConversation(SubSeq(s, Len(s) - k + 1, Len(s)))
<1> DEFINE n == Len(s)
           t == SubSeq(s, n - k + 1, n)
<1>1. IsSeq(s) /\ s \in Seq(ToSet(s)) /\ n \in Nat /\ DOMAIN s = 1..n BY SeqFacts DEF IsConversation, IsSeq
<1>2. t \in Seq(ToSet(s))
  <2>1. n - k + 1 \in 1..(n + 1) BY <1>1
  <2> QED BY <1>1, <2>1
<1>3. IsSeq(t) BY <1>2, TypedIsSeq
<1>4. ToSet(t) \subseteq ToSet(s)
  <2>1. \A i \in DOMAIN t : t[i] \in ToSet(s) BY <1>2
  <2> QED BY <2>1 DEF ToSet
<1> QED BY <1>3, <1>4 DEF IsConversation

LEMMA CacheAfterLemma ==
    ASSUME NEW L, IsLimit(L), NEW base, CacheInv(base, L), NEW msgs, IsConversation(msgs), NEW model
    PROVE  CacheInv(CacheAfter(msgs, model, base), L)
<1> DEFINE blocks == FlattenSeq([i \in DOMAIN msgs |-> msgs[i].blocks])
           a == Among(blocks, {i \in DOMAIN blocks : blocks[i].kind = "call"})
           n == Len(a)
           V == Caches(ToSet(base.entries), L)
           Op(c, b) == Touched(c, <<Family(model), b.id>>)
           F == [w \in V \X (1..n) |-> Op(w[1], a[w[2]])]
           Solves(h) == h = [T \in SUBSET (1..n) |->
                               IF T = {} THEN base ELSE Op(h[T \ {Max(T)}], a[Max(T)])]
<1>a. CacheAfter(msgs, model, base) = FoldLeft(LAMBDA c, b : Touched(c, <<Family(model), b.id>>), base, a)
  BY DEF CacheAfter
<1>b. AreBlocks(blocks) BY AllBlocks
<1> HIDE DEF blocks
<1>c. AreBlocks(a) BY <1>b, SomeBlocks
<1> HIDE DEF a
<1>1. n \in Nat /\ DOMAIN a = 1..n BY <1>c, SeqFacts DEF AreBlocks
<1>2. base \in V BY InCaches
<1>3. \A c \in V, i \in 1..n : Op(c, a[i]) \in V
  <2> SUFFICES ASSUME NEW c \in V, NEW k PROVE Touched(c, k) \in V OBVIOUS
  <2>1. CacheInv(c, L) /\ ToSet(c.entries) \subseteq ToSet(base.entries) BY OfCaches
  <2> DEFINE r == Touched(c, k)
  <2>2. CacheInv(r, L) /\ ToSet(r.entries) \subseteq ToSet(base.entries) BY <2>1, TouchedLemma
  <2> HIDE DEF r
  <2>3. r \in V BY <2>2, InCaches
  <2> QED BY <2>3 DEF r
<1> HIDE DEF V, Op
<1>4. F \in [V \X (1..n) -> V] BY <1>3
<1>5. \A c \in V, i \in 1..n : F[<<c, i>>] = Op(c, a[i]) OBVIOUS
<1>6. \A T \in SUBSET (1..n) : T # {} => Max(T) \in T
  <2> SUFFICES ASSUME NEW T \in SUBSET (1..n), T # {} PROVE Max(T) \in T OBVIOUS
  <2> HIDE DEF n
  <2> QED BY <1>1, MaxIn
<1> HIDE DEF F, n
<1>7. \E h : Solves(h)
  <2>1. PICK g \in [SUBSET (1..n) -> V] : Folds(g, n, base, F) BY <1>1, <1>2, <1>4, FoldIter
  <2>2. \A T \in SUBSET (1..n) : g[T] = IF T = {} THEN base ELSE Op(g[T \ {Max(T)}], a[Max(T)])
    <3> SUFFICES ASSUME NEW T \in SUBSET (1..n), T # {} PROVE g[T] = Op(g[T \ {Max(T)}], a[Max(T)])
      BY <2>1 DEF Folds
    <3>1. Max(T) \in 1..n /\ T \ {Max(T)} \in SUBSET (1..n) BY <1>6
    <3>2. g[T \ {Max(T)}] \in V BY <3>1
    <3>3. g[T] = F[<<g[T \ {Max(T)}], Max(T)>>] BY <2>1 DEF Folds
    <3> QED BY <1>5, <3>1, <3>2, <3>3
  <2>3. g = [T \in SUBSET (1..n) |-> g[T]] OBVIOUS
  <2> QED BY <2>2, <2>3
<1> DEFINE h == CHOOSE h : Solves(h)
<1>8. Solves(h) BY <1>7
<1>9. CacheAfter(msgs, model, base) = h[1..n] BY <1>a, <1>1 DEF FoldLeft, MapThenFoldSet, Op
<1> HIDE DEF h
<1>10. Follows(h, n, V, base, F)
  <2>1. h[{}] = base BY <1>8
  <2>2. ASSUME NEW T \in SUBSET (1..n), T # {}, h[T \ {Max(T)}] \in V
        PROVE  h[T] = F[<<h[T \ {Max(T)}], Max(T)>>]
    <3>1. Max(T) \in 1..n BY <1>6, <2>2
    <3>2. h[T] = Op(h[T \ {Max(T)}], a[Max(T)]) BY <1>8, <2>2
    <3> QED BY <1>5, <2>2, <3>1, <3>2
  <2> HIDE DEF Solves
  <2> QED BY <2>1, <2>2 DEF Follows
<1>11. \E f \in [0..n -> V] : Reaches(f, n, base, F, h[1..n])
  <2> HIDE DEF Solves
  <2> QED BY <1>1, <1>2, <1>4, <1>10, FoldSteps
<1>12. h[1..n] \in V
  <2>1. n \in 0..n BY <1>1
  <2> QED BY <1>11, <2>1 DEF Reaches
<1> QED BY <1>9, <1>12, OfCaches DEF V

-----------------------------------------------------------------------------
(* The answer that is not streamed, while it is collected. *)

Candidates(s) == {s[k].index : k \in {k \in DOMAIN s : s[k].kind = "candidate"}}

IsSaved(x) == x = [parts |-> x.parts, finish |-> x.finish] /\ IsSeq(x.parts)

SavedInv ==
  protocol = "json" =>
    /\ IsFiniteSet(DOMAIN saved) /\ DOMAIN saved \subseteq Nat
    /\ \A i \in DOMAIN saved : IsSaved(saved[i])
    /\ IsSeq(todo) /\ Candidates(todo) \subseteq Nat
    /\ phase = "walk" => DOMAIN seen \subseteq DOMAIN saved \cup Candidates(todo)
    /\ phase = "closing" /\ cause = None => DOMAIN seen \subseteq DOMAIN saved

\* What a frame asks to visit: its candidates are those it names.
LEMMA VisitsLemma ==
    ASSUME NEW f \in Frames, ValidIndices(f), protocol = "json"
    PROVE  IsSeq(Visits(f)) /\ Candidates(Visits(f)) = IndicesOf(f) /\ IndicesOf(f) \subseteq Nat
<1> DEFINE C(i) == [index |-> f[i].index, finish |-> f[i].finish, kind |-> "candidate"]
           Visit(i, p) == [index |-> f[i].index, kind |-> p.kind, body |-> p.body, sig |-> p.sig,
                           id |-> p.id, call |-> p.call]
           P(i) == [j \in DOMAIN f[i].parts |-> Visit(i, f[i].parts[j])]
           Of(i) == <<C(i)>> \o P(i)
           ss == [i \in DOMAIN f |-> Of(i)]
<1>1. IsSeq(f) /\ \A i \in DOMAIN f :
        /\ IsSeq(f[i].parts)
        /\ \A j \in DOMAIN f[i].parts : f[i].parts[j].kind \in {"text", "thought", "tool"}
  BY FramesAssumption DEF IsSeq, ToSet
<1>2. ASSUME NEW i \in DOMAIN f
      PROVE  IsSeq(Of(i)) /\ \A x \in ToSet(Of(i)) : x.kind = "candidate" => x.index = f[i].index
  <2>1. IsSeq(P(i)) /\ ToSet(P(i)) = {P(i)[j] : j \in DOMAIN f[i].parts}
    <3> DEFINE t == P(i)
               s == f[i].parts
    <3>1. t = [j \in DOMAIN s |-> t[j]] /\ IsSeq(s) BY <1>1
    <3> HIDE DEF t, s
    <3>2. IsSeq(t) /\ ToSet(t) = {t[j] : j \in DOMAIN s} BY <3>1, MapSeq
    <3> QED BY <3>2 DEF t, s
  <2>2. \A j \in DOMAIN f[i].parts : P(i)[j].kind # "candidate"
    <3> SUFFICES ASSUME NEW j \in DOMAIN f[i].parts PROVE P(i)[j].kind # "candidate" OBVIOUS
    <3>1. P(i)[j].kind = f[i].parts[j].kind OBVIOUS
    <3> QED BY <1>1, <3>1
  <2>3. C(i).index = f[i].index /\ ToSet(<<C(i)>>) = {C(i)} /\ IsSeq(<<C(i)>>) BY OneElement
  <2> HIDE DEF P, C
  <2>4. IsSeq(Of(i)) /\ ToSet(Of(i)) = {C(i)} \cup ToSet(P(i)) BY <2>1, <2>3, ConcatLemma
  <2> QED BY <2>1, <2>2, <2>3, <2>4
<1>3. \A i \in DOMAIN f : \E x \in ToSet(Of(i)) : x.kind = "candidate" /\ x.index = f[i].index
  <2> SUFFICES ASSUME NEW i \in DOMAIN f PROVE \E x \in ToSet(Of(i)) : x.kind = "candidate" /\ x.index = f[i].index
    OBVIOUS
  <2>1. C(i).kind = "candidate" /\ C(i).index = f[i].index OBVIOUS
  <2>2. IsSeq(P(i))
    <3> DEFINE t == P(i)
    <3>1. t = [j \in DOMAIN f[i].parts |-> t[j]] OBVIOUS
    <3> HIDE DEF t
    <3>2. IsSeq(t) BY <1>1, <3>1, MapSeq
    <3> QED BY <3>2 DEF t
  <2> HIDE DEF P, C
  <2>3. C(i) \in ToSet(Of(i)) BY <2>2, OneElement, ConcatLemma
  <2> QED BY <2>1, <2>3
<1>4. Visits(f) = FlattenSeq(ss)
  <2>1. protocol # "claude" OBVIOUS
  <2> QED BY <2>1 DEF Visits
<1>5. ss = [i \in DOMAIN f |-> ss[i]] /\ \A i \in DOMAIN f : ss[i] = Of(i) OBVIOUS
<1> HIDE DEF Of, ss
<1>6. IsSeq(ss) /\ DOMAIN ss = DOMAIN f BY <1>1, <1>5, MapSeq
<1>7. IsSeq(Visits(f)) /\ ToSet(Visits(f)) = UNION {ToSet(Of(i)) : i \in DOMAIN f}
  <2>1. \A i \in DOMAIN ss : IsSeq(ss[i]) BY <1>2, <1>5, <1>6
  <2>2. IsSeq(FlattenSeq(ss)) /\ ToSet(FlattenSeq(ss)) = UNION {ToSet(ss[i]) : i \in DOMAIN ss}
    BY <1>6, <2>1, FlattenLemma
  <2> QED BY <1>4, <1>5, <1>6, <2>2
<1>8. Candidates(Visits(f)) = {x.index : x \in {x \in ToSet(Visits(f)) : x.kind = "candidate"}}
  BY DEF Candidates, ToSet
<1>9. Candidates(Visits(f)) = IndicesOf(f)
  <2>1. ASSUME NEW y \in Candidates(Visits(f)) PROVE y \in IndicesOf(f)
    <3>1. PICK x \in ToSet(Visits(f)) : x.kind = "candidate" /\ y = x.index BY <1>8, <2>1
    <3>2. PICK i \in DOMAIN f : x \in ToSet(Of(i)) BY <1>7, <3>1
    <3> QED BY <1>2, <3>1, <3>2 DEF IndicesOf
  <2>2. ASSUME NEW y \in IndicesOf(f) PROVE y \in Candidates(Visits(f))
    <3>1. PICK i \in DOMAIN f : y = f[i].index BY <2>2 DEF IndicesOf
    <3>2. PICK x \in ToSet(Of(i)) : x.kind = "candidate" /\ x.index = f[i].index BY <1>3
    <3> QED BY <1>7, <1>8, <3>1, <3>2
  <2> QED BY <2>1, <2>2
<1>10. IndicesOf(f) \subseteq Nat BY FramesAssumption DEF ValidIndices, IndicesOf
<1> QED BY <1>7, <1>9, <1>10

LEMMA CandidatesLemma ==
    ASSUME NEW s, IsSeq(s), s # <<>>
    PROVE  IF Head(s).kind = "candidate" THEN Candidates(s) = {Head(s).index} \cup Candidates(Tail(s))
           ELSE Candidates(s) = Candidates(Tail(s))
<1>1. \A t : Candidates(t) = {x.index : x \in {x \in ToSet(t) : x.kind = "candidate"}} BY DEF Candidates, ToSet
<1>2. ToSet(s) = {Head(s)} \cup ToSet(Tail(s)) BY HeadTail
<1> QED BY <1>1, <1>2

LEMMA AppendOne == ASSUME NEW s, IsSeq(s), NEW x PROVE IsSeq(Append(s, x))
  BY AppendItem

LEMMA WithPartIsSeq == ASSUME NEW parts, IsSeq(parts), NEW p, NEW id PROVE IsSeq(WithPart(parts, p, id))
<1>1. CASE Joins(parts, p)
  <2> DEFINE x == [parts[Len(parts)] EXCEPT !.text = Append(@, This)]
  <2>1. WithPart(parts, p, id) = [parts EXCEPT ![Len(parts)] = x] BY <1>1 DEF WithPart
  <2>2. Len(parts) \in DOMAIN parts BY <1>1, SeqFacts DEF Joins
  <2> HIDE DEF x
  <2> DEFINE r == [parts EXCEPT ![Len(parts)] = x]
  <2>3. r \in Seq(ToSet(parts) \cup {x}) BY <2>2 DEF IsSeq
  <2>4. IsSeq(r) BY <2>3, TypedIsSeq
  <2> HIDE DEF r
  <2> QED BY <2>1, <2>4 DEF r
<1>2. CASE ~Joins(parts, p)
  <2>1. WithPart(parts, p, id) = Append(parts, SavedPart(p, id)) BY <1>2 DEF WithPart
  <2> QED BY <2>1, AppendOne
<1> QED BY <1>1, <1>2

\* The collected parts after a step, from what it says of each candidate.
LEMMA SavedNext ==
    ASSUME protocol' = "json", IsFiniteSet(DOMAIN saved'), DOMAIN saved' \subseteq Nat,
           \A i \in DOMAIN saved' : IsSaved(saved'[i]), IsSeq(todo'), Candidates(todo') \subseteq Nat,
           phase' = "walk" => DOMAIN seen' \subseteq DOMAIN saved' \cup Candidates(todo'),
           phase' = "closing" /\ cause' = None => DOMAIN seen' \subseteq DOMAIN saved'
    PROVE  SavedInv'
<1>1. (\A i \in DOMAIN saved : IsSaved(saved[i]))' BY DEF IsSaved, IsSeq
<1>2. (IsSeq(todo) /\ Candidates(todo) \subseteq Nat)' BY DEF IsSeq, Candidates
<1>3. (phase = "walk" => DOMAIN seen \subseteq DOMAIN saved \cup Candidates(todo))' BY DEF Candidates
<1> QED BY <1>1, <1>2, <1>3 DEF SavedInv

LEMMA CollectStepSaved == ASSUME SavedInv, CollectStep PROVE SavedInv'
<1>0. CollectNext /\ protocol = "json" BY DEF CollectStep
<1>a. /\ IsFiniteSet(DOMAIN saved) /\ DOMAIN saved \subseteq Nat
      /\ \A i \in DOMAIN saved : IsSaved(saved[i])
      /\ IsSeq(todo) /\ Candidates(todo) \subseteq Nat
      /\ phase = "walk" => DOMAIN seen \subseteq DOMAIN saved \cup Candidates(todo)
      /\ phase = "closing" /\ cause = None => DOMAIN seen \subseteq DOMAIN saved
  BY <1>0 DEF SavedInv
<1>b. IsSeq(<<>>) /\ Candidates(<<>>) = {}
  <2>1. DOMAIN <<>> = {} BY EmptyIsSeq
  <2> QED BY <2>1, EmptyIsSeq DEF Candidates
<1>c. None # "invalid_response" /\ None # "transport" /\ None # "response_too_large" /\ None # "invalid_tool_call"
  BY ErrorsAssumption DEF Errors
<1>1. ASSUME NEW f \in Frames, ReadFrame(f), UNCHANGED saved PROVE SavedInv'
  <2>1. protocol' = "json" /\ saved' = saved /\ phase = "walk" /\ todo = <<>> BY <1>0, <1>1 DEF ReadFrame
  <2>2. CASE ValidIndices(f)
    <3>1. /\ DOMAIN seen' = DOMAIN seen \cup IndicesOf(f) /\ todo' = Visits(f) /\ phase' = "walk"
      BY <1>1, <2>2 DEF ReadFrame
    <3>2. IsSeq(Visits(f)) /\ Candidates(Visits(f)) = IndicesOf(f) /\ IndicesOf(f) \subseteq Nat
      BY <1>0, <2>2, VisitsLemma
    <3>3. DOMAIN seen \subseteq DOMAIN saved BY <1>a, <1>b, <2>1
    <3>4. DOMAIN seen' \subseteq DOMAIN saved' \cup Candidates(todo') BY <2>1, <3>1, <3>2, <3>3
    <3>5. IsSeq(todo') /\ Candidates(todo') \subseteq Nat BY <3>1, <3>2
    <3> QED BY <1>a, <2>1, <3>1, <3>4, <3>5, SavedNext
  <2>3. CASE ~ValidIndices(f)
    <3>1. phase' = "closing" /\ cause' # None /\ todo' = todo BY <1>1, <1>c, <2>3 DEF ReadFrame
    <3> QED BY <1>a, <2>1, <3>1, SavedNext
  <2> QED BY <2>2, <2>3
<1>2. CASE WalkEnds /\ UNCHANGED saved
  <2>1. protocol' = "json" /\ saved' = saved /\ phase = "walk" /\ phase' = "closing" /\ todo = <<>>
        /\ todo' = todo /\ seen' = seen
    BY <1>0, <1>2 DEF WalkEnds
  <2>2. DOMAIN seen' \subseteq DOMAIN saved' BY <1>a, <1>b, <2>1
  <2> QED BY <1>a, <2>1, <2>2, SavedNext
<1>3. CASE WalkFails /\ UNCHANGED saved
  <2>1. protocol' = "json" /\ saved' = saved /\ phase' = "closing" /\ cause' \in {"transport", "response_too_large"}
        /\ todo' = todo
    BY <1>0, <1>3 DEF WalkFails
  <2> QED BY <1>a, <1>c, <2>1, SavedNext
<1>4. CASE ToolRefused /\ UNCHANGED saved
  <2>1. /\ protocol' = "json" /\ saved' = saved /\ phase' = "closing" /\ todo' = <<>>
        /\ cause' \in {"invalid_tool_call", "response_too_large"}
    BY <1>0, <1>4 DEF ToolRefused
  <2> QED BY <1>a, <1>b, <1>c, <2>1, SavedNext
<1>5. CASE CollectRepeated
  <2> DEFINE p == Head(todo)
             Resigned(q) == IF q.kind = "tool" /\ q.id = CallId(p) /\ p.sig # None
                            THEN [q EXCEPT !.sig = p.sig] ELSE q
             x == saved[p.index]
             t == [k \in DOMAIN x.parts |-> Resigned(x.parts[k])]
  <2>1. protocol' = "json" /\ phase' = phase /\ phase = "walk" /\ cause' = cause /\ seen' = seen
        /\ todo # <<>> /\ todo' = Tail(todo) /\ Head(todo).kind = "tool"
        /\ saved' = [saved EXCEPT ![p.index] = [x EXCEPT !.parts = t]]
    BY <1>0, <1>5 DEF CollectRepeated, ToolRepeated, Visiting, Visited, Goes
  <2>2. IsSeq(todo') /\ Candidates(todo') = Candidates(todo) BY <1>a, <2>1, HeadTail, CandidatesLemma
  <2>3. DOMAIN saved' = DOMAIN saved BY <2>1
  <2>4. p.index \in DOMAIN saved => IsSaved([x EXCEPT !.parts = t])
    <3> SUFFICES ASSUME p.index \in DOMAIN saved PROVE IsSaved([x EXCEPT !.parts = t]) OBVIOUS
    <3>1. IsSaved(x) BY <1>a
    <3>2. t = [k \in DOMAIN x.parts |-> t[k]] OBVIOUS
    <3> HIDE DEF t, x
    <3>3. IsSeq(t) BY <3>1, <3>2, MapSeq DEF IsSaved
    <3> QED BY <3>1, <3>3 DEF IsSaved
  <2> HIDE DEF t, x, p
  <2>5. \A i \in DOMAIN saved' : IsSaved(saved'[i]) BY <1>a, <2>1, <2>4
  <2> QED BY <1>a, <2>1, <2>2, <2>3, <2>5, SavedNext
<1>6. CASE CollectCandidate
  <2> DEFINE c == Head(todo)
             old == IF c.index \in DOMAIN saved THEN saved[c.index] ELSE [parts |-> <<>>, finish |-> None]
             fin == IF c.finish # None THEN c.finish ELSE old.finish
             x == [old EXCEPT !.finish = fin]
  <2>1. protocol' = "json" /\ phase' = phase /\ phase = "walk" /\ cause' = cause /\ seen' = seen
        /\ todo # <<>> /\ todo' = Tail(todo) /\ c.kind = "candidate"
        /\ saved' = [i \in DOMAIN saved \cup {c.index} |-> IF i # c.index THEN saved[i] ELSE x]
    BY <1>0, <1>6 DEF CollectCandidate, Visiting, Visited, Goes
  <2>2. IsSeq(todo') /\ Candidates(todo) = {c.index} \cup Candidates(todo')
    BY <1>a, <2>1, HeadTail, CandidatesLemma
  <2>3. IsSaved(x)
    <3>1. IsSaved([parts |-> <<>>, finish |-> None]) BY <1>b DEF IsSaved
    <3>2. IsSaved(old) BY <1>a, <3>1
    <3> HIDE DEF old, fin
    <3>3. x = [parts |-> old.parts, finish |-> fin] BY <3>2 DEF IsSaved
    <3> QED BY <3>2, <3>3 DEF IsSaved
  <2> HIDE DEF x, c
  <2>4. DOMAIN saved' = DOMAIN saved \cup {c.index} /\ \A i \in DOMAIN saved' : IsSaved(saved'[i])
    BY <1>a, <2>1, <2>3
  <2>5. IsFiniteSet(DOMAIN saved') BY <1>a, <2>4, FS_AddElement
  <2>6. DOMAIN saved' \subseteq Nat /\ Candidates(todo') \subseteq Nat BY <1>a, <2>2, <2>4
  <2>7. DOMAIN seen' \subseteq DOMAIN saved' \cup Candidates(todo') BY <1>a, <2>1, <2>2, <2>4
  <2> QED BY <2>1, <2>2, <2>4, <2>5, <2>6, <2>7, SavedNext
<1>7. CASE CollectPart
  <2> DEFINE p == Head(todo)
             id == IF p.kind = "tool" THEN CallId(p) ELSE None
             x == saved[p.index]
             t == WithPart(x.parts, p, id)
  <2>1. protocol' = "json" /\ phase' = phase /\ phase = "walk" /\ cause' = cause /\ seen' = seen
        /\ todo # <<>> /\ todo' = Tail(todo) /\ Head(todo).kind # "candidate"
        /\ saved' = [saved EXCEPT ![p.index] = [x EXCEPT !.parts = t]]
    BY <1>0, <1>7 DEF CollectPart, NewTool, Visiting, Visited, Goes
  <2>2. IsSeq(todo') /\ Candidates(todo') = Candidates(todo) BY <1>a, <2>1, HeadTail, CandidatesLemma
  <2>3. DOMAIN saved' = DOMAIN saved BY <2>1
  <2>4. p.index \in DOMAIN saved => IsSaved([x EXCEPT !.parts = t])
    <3> SUFFICES ASSUME p.index \in DOMAIN saved PROVE IsSaved([x EXCEPT !.parts = t]) OBVIOUS
    <3>1. IsSaved(x) BY <1>a
    <3> HIDE DEF x, p, id
    <3>2. IsSeq(t) BY <3>1, WithPartIsSeq DEF IsSaved
    <3> QED BY <3>1, <3>2 DEF IsSaved
  <2> HIDE DEF t, x, p
  <2>5. \A i \in DOMAIN saved' : IsSaved(saved'[i]) BY <1>a, <2>1, <2>4
  <2> QED BY <1>a, <2>1, <2>2, <2>3, <2>5, SavedNext
<1>8. CASE CollectEnd
  <2>1. protocol' = "json" /\ saved' = saved /\ phase' \in {"done", "failed"} /\ todo' = todo
    BY <1>0, <1>8 DEF CollectEnd
  <2> QED BY <1>a, <2>1, SavedNext
<1> QED BY <1>0, <1>1, <1>2, <1>3, <1>4, <1>5, <1>6, <1>7, <1>8 DEF CollectNext

\* No step changes who writes the answer.
LEMMA ProtocolStep == ASSUME [Next]_vars PROVE protocol' = protocol
<1>1. WalkNext => protocol' = protocol
  BY DEF WalkNext, PrepareFrame, PrepareFails, ReadFrame, WalkEnds, WalkFails, ToolRefused, ToolRepeated, Goes
<1>2. ClaudeNext => protocol' = protocol
  BY <1>1 DEF ClaudeNext, ClaudeCandidate, ClaudeTool, ClaudeThought, ClaudeText, ClaudeEnd, Goes, Broken
<1>3. ResponsesNext => protocol' = protocol
  BY <1>1 DEF ResponsesNext, ResponsesBegins, ResponsesCandidate, ResponsesTool, ResponsesText,
              ResponsesSignature, ResponsesEnd, Goes, Broken
<1>4. OpenAINext => protocol' = protocol
  BY <1>1 DEF OpenAINext, OpenAICandidate, OpenAITool, OpenAIText, OpenAIEnd, Goes, Broken
<1>5. CollectNext => protocol' = protocol
  BY DEF CollectNext, CollectRepeated, ReadFrame, WalkEnds, WalkFails, ToolRefused,
         ToolRepeated, CollectCandidate, CollectPart, CollectEnd, Goes
<1> QED BY <1>2, <1>3, <1>4, <1>5
        DEF Next, ClaudeStep, ResponsesStep, OpenAIStep, CollectStep, Finished, vars, walkVars

LEMMA SavedStep == ASSUME SavedInv, [Next]_vars PROVE SavedInv'
<1>1. CASE protocol' # "json" BY <1>1 DEF SavedInv
<1>2. CASE UNCHANGED vars
  BY <1>2 DEF SavedInv, vars, walkVars, IsSaved, IsSeq, Candidates
<1>3. CASE CollectStep BY <1>3, CollectStepSaved
<1>4. protocol' = protocol BY ProtocolStep
<1> QED BY <1>1, <1>2, <1>3, <1>4 DEF Next, ClaudeStep, ResponsesStep, OpenAIStep, Finished

-----------------------------------------------------------------------------
(* What is given with an answer that is done. *)

\* A step remembers at most the tool call it visits.
LEMMA UsedStep == ASSUME IsFiniteSet(DOMAIN used), [Next]_vars PROVE IsFiniteSet(DOMAIN used)'
<1>1. WalkNext => used' = used \/ Remembered(Head(todo))
  BY DEF WalkNext, PrepareFrame, PrepareFails, ReadFrame, WalkEnds, WalkFails, ToolRefused, ToolRepeated
<1>2. ClaudeNext => used' = used \/ Remembered(Head(todo))
  BY <1>1 DEF ClaudeNext, ClaudeCandidate, ClaudeTool, ClaudeThought, ClaudeText, ClaudeEnd, Broken, Register
<1>3. ResponsesNext => used' = used \/ Remembered(Head(todo))
  BY <1>1 DEF ResponsesNext, ResponsesBegins, ResponsesCandidate, ResponsesTool, ResponsesText,
              ResponsesSignature, ResponsesEnd, Broken, Register
<1>4. OpenAINext => used' = used \/ Remembered(Head(todo))
  BY <1>1 DEF OpenAINext, OpenAICandidate, OpenAITool, OpenAIText, OpenAIEnd, Broken, Register
<1>5. CollectNext => used' = used \/ Remembered(Head(todo))
  BY DEF CollectNext, CollectRepeated, ReadFrame, WalkEnds, WalkFails, ToolRefused,
         ToolRepeated, CollectCandidate, CollectPart, CollectEnd, Register
<1>6. used' = used \/ Remembered(Head(todo))
  BY <1>2, <1>3, <1>4, <1>5 DEF Next, ClaudeStep, ResponsesStep, OpenAIStep, CollectStep, Finished, vars, walkVars
<1>7. CASE Remembered(Head(todo))
  <2>1. DOMAIN used' = DOMAIN used \cup {CallId(Head(todo))} BY <1>7 DEF Remembered
  <2> QED BY <2>1, FS_AddElement
<1> QED BY <1>6, <1>7

\* The first of some numbers is one of them.
LEMMA FirstOfSome ==
    ASSUME NEW S \in SUBSET Nat, S # {}, IsFiniteSet(S)
    PROVE  1 \in DOMAIN Ascending(S) /\ Ascending(S)[1] \in S
<1>1. Cardinality(S) \in Nat /\ Cardinality(S) # 0 BY FS_CardinalityType, FS_EmptySet
<1>2. 1 \in 1..Cardinality(S) BY <1>1
<1>3. PICK n \in S : \A m \in S : n <= m BY Least
<1>4. {m \in S : m < n} = {}
  <2> SUFFICES ASSUME NEW m \in S, m < n PROVE FALSE OBVIOUS
  <2>1. m \in Nat /\ n \in Nat /\ n <= m BY <1>3
  <2> QED BY <2>1
<1>5. Cardinality({m \in S : m < n}) = 1 - 1 BY <1>4, FS_EmptySet
<1>6. Ascending(S)[1] = CHOOSE x \in S : Cardinality({m \in S : m < x}) = 1 - 1 BY <1>2 DEF Ascending
<1> QED BY <1>2, <1>5, <1>6 DEF Ascending

LEMMA CallsAreSeq == ASSUME NEW parts, IsSeq(parts) PROVE IsSeq(CallsOf(parts))
<1> DEFINE tools == Among(parts, {k \in DOMAIN parts : parts[k].kind = "tool"})
           t == [k \in DOMAIN tools |-> [id |-> tools[k].id, name |-> tools[k].name, sig |-> tools[k].sig]]
<1>1. IsSeq(tools) BY AmongLemma
<1>2. CallsOf(parts) = t BY DEF CallsOf
<1> HIDE DEF tools
<1>3. t = [k \in DOMAIN tools |-> t[k]] OBVIOUS
<1> HIDE DEF t
<1> QED BY <1>1, <1>2, <1>3, MapSeq

\* The calls of some parts are those of their tools.
LEMMA CallsOfTools ==
    ASSUME NEW parts, IsSeq(parts), NEW q \in ToSet(parts), q.kind = "tool"
    PROVE  \E c \in ToSet(CallsOf(parts)) : c.id = q.id /\ c.name = q.name
<1>1. PICK K : K = {k \in DOMAIN parts : parts[k].kind = "tool"} OBVIOUS
<1>2. PICK tools : tools = Among(parts, K) OBVIOUS
<1>3. PICK t : t = [k \in DOMAIN tools |-> [id |-> tools[k].id, name |-> tools[k].name, sig |-> tools[k].sig]] OBVIOUS
<1>4. CallsOf(parts) = t BY <1>1, <1>2, <1>3 DEF CallsOf
<1>5. IsSeq(tools) /\ \E p : Picks(p, tools, parts, Len(parts), K) BY <1>2, AmongLemma
<1>6. PICK i \in 1..Len(parts) : parts[i] = q BY SeqFacts DEF ToSet
<1>7. i \in K BY <1>1, <1>6, SeqFacts
<1>8. PICK j \in 1..Len(tools) : tools[j] = q BY <1>5, <1>6, <1>7 DEF Picks
<1>9. j \in DOMAIN tools BY <1>5, <1>8, SeqFacts
<1>10. t[j].id = q.id /\ t[j].name = q.name /\ j \in DOMAIN t BY <1>3, <1>8, <1>9
<1> QED BY <1>4, <1>10 DEF ToSet

-----------------------------------------------------------------------------
(* A client of the Claude protocol finds a call in every block of one. *)

OpensCall(e) == e.ev = "content_block_start" /\ e.kind = "tool_use"

BringsCall(e, i) == e.ev = "content_block_delta" /\ e.kind = "tool_use" /\ e.index = i

Filled(s) == IsSeq(s) /\ \A e \in ToSet(s) : OpensCall(e) => \E f \in ToSet(s) : BringsCall(f, e.index)

FilledInv == protocol = "claude" /\ phase # "failed" => Filled(out)

LEMMA FilledConcat == ASSUME NEW s, Filled(s), NEW t, Filled(t) PROVE Filled(s \o t)
<1>1. IsSeq(s \o t) /\ ToSet(s \o t) = ToSet(s) \cup ToSet(t) BY ConcatLemma DEF Filled
<1> QED BY <1>1 DEF Filled

LEMMA FilledNone == Filled(<<>>) BY EmptyIsSeq DEF Filled

LEMMA FilledOne == ASSUME NEW e, ~OpensCall(e) PROVE Filled(<<e>>) BY OneElement DEF Filled

LEMMA FilledClosing == Filled(Closing)
<1>1. ~OpensCall(Delta(index, "signature", pendingSig)) /\ ~OpensCall(Stop(index)) BY DEF OpensCall, Delta, Stop
<1> QED BY <1>1, FilledOne, FilledNone, FilledConcat DEF Closing

LEMMA FilledOpening == ASSUME NEW kind, kind # "tool_use" PROVE Filled(Opening(kind))
<1>1. ~OpensCall(Start(AfterClose, kind)) BY DEF OpensCall, Start
<1> QED BY <1>1, FilledOne, FilledNone, FilledConcat, FilledClosing DEF Opening

LEMMA FilledStep == ASSUME FilledInv, IsSeq(out), [Next]_vars PROVE FilledInv'
<1>1. CASE phase' = "failed" \/ protocol' # "claude" BY <1>1 DEF FilledInv
<1>2. CASE phase' # "failed" /\ out' = out /\ protocol' = protocol /\ (phase = "failed" => phase' = "failed")
  BY <1>2 DEF FilledInv, Filled, IsSeq, ToSet, OpensCall, BringsCall
<1>3. ASSUME NEW events, Filled(events), Delivered(events), protocol = "claude", phase # "failed" PROVE FilledInv'
  <2>1. Filled(out) BY <1>3 DEF FilledInv
  <2>2. out' = out \o events BY <1>3 DEF Delivered
  <2>3. Filled(out') BY <1>3, <2>1, <2>2, FilledConcat
  <2> QED BY <2>3 DEF FilledInv, Filled, IsSeq, ToSet, OpensCall, BringsCall
<1>4. ASSUME ClaudeStep, phase' # "failed" PROVE FilledInv'
  <2>1. ClaudeNext /\ protocol = "claude" /\ protocol' = protocol BY <1>4, ProtocolStep DEF ClaudeStep
  <2>2. phase # "failed" BY <1>4, StepsRun DEF Running
  <2>3. CASE WalkNext
    <3>1. out' = out
      BY <2>3 DEF WalkNext, PrepareFrame, PrepareFails, ReadFrame, WalkEnds, WalkFails, ToolRefused, ToolRepeated
    <3> QED BY <1>2, <1>4, <2>1, <2>2, <3>1
  <2>4. CASE ClaudeCandidate
    <3>1. PICK events : events = IF started THEN <<>> ELSE <<[ev |-> "message_start"]>> OBVIOUS
    <3>2. Delivered(events) BY <1>4, <2>4, <3>1 DEF ClaudeCandidate, Broken
    <3>3. ~OpensCall([ev |-> "message_start"]) BY DEF OpensCall
    <3>4. Filled(<<[ev |-> "message_start"]>>) BY <3>3, FilledOne
    <3>5. Filled(events) BY <3>1, <3>4, FilledNone
    <3> QED BY <1>3, <2>1, <2>2, <3>2, <3>5
  <2>5. CASE ClaudeTool
    <3>1. PICK a, b, c : /\ a = Start(AfterClose, "tool_use")
                         /\ b = Delta(AfterClose, "tool_use", CallOf(Head(todo))) /\ c = Stop(AfterClose)
      OBVIOUS
    <3>2. Delivered(Closing \o <<a, b, c>>) BY <1>4, <2>5, <3>1 DEF ClaudeTool, Broken
    <3>3. a.index = AfterClose /\ BringsCall(b, AfterClose) /\ ~OpensCall(b) /\ ~OpensCall(c)
      BY <3>1 DEF Start, Delta, Stop, BringsCall, OpensCall
    <3>4. Filled(<<a, b, c>>) BY <3>3, ThreeElements DEF Filled
    <3>5. Filled(Closing \o <<a, b, c>>) BY <3>4, FilledClosing, FilledConcat
    <3> QED BY <1>3, <2>1, <2>2, <3>2, <3>5
  <2>6. CASE ClaudeThought
    <3>1. PICK e, delta : /\ e = Delta(IndexIn("thinking"), "thinking", This)
                          /\ delta = IF Head(todo).body THEN <<e>> ELSE <<>>
      OBVIOUS
    <3>2. out' = out \/ Delivered(Opening("thinking") \o delta) BY <1>4, <2>6, <3>1 DEF ClaudeThought, Broken
    <3>3. ~OpensCall(e) BY <3>1 DEF Delta, OpensCall
    <3>4. Filled(delta) BY <3>1, <3>3, FilledOne, FilledNone
    <3>5. Filled(Opening("thinking") \o delta) BY <3>4, FilledOpening, FilledConcat
    <3> QED BY <1>2, <1>3, <1>4, <2>1, <2>2, <3>2, <3>5
  <2>7. CASE ClaudeText
    <3>1. PICK e : e = Delta(IndexIn("text"), "text", This) OBVIOUS
    <3>2. out' = out \/ Delivered(Opening("text") \o <<e>>) BY <1>4, <2>7, <3>1 DEF ClaudeText, Broken
    <3>3. ~OpensCall(e) BY <3>1 DEF Delta, OpensCall
    <3>4. Filled(Opening("text") \o <<e>>) BY <3>3, FilledOne, FilledOpening, FilledConcat
    <3> QED BY <1>2, <1>3, <1>4, <2>1, <2>2, <3>2, <3>4
  <2>8. CASE ClaudeEnd
    <3>1. PICK d, e, f : /\ d = [ev |-> "message_delta", stop |-> StopReason] /\ e = [ev |-> "message_stop"]
                         /\ f = [ev |-> "error"]
      OBVIOUS
    <3>2. Delivered(<<f>>) \/ Delivered(Closing \o <<d, e>>) BY <1>4, <2>8, <3>1 DEF ClaudeEnd, Broken
    <3>3. ~OpensCall(d) /\ ~OpensCall(e) /\ ~OpensCall(f) BY <3>1 DEF OpensCall
    <3>4. Filled(<<f>>) /\ Filled(<<d, e>>) BY <3>3, FilledOne, TwoElements DEF Filled
    <3>5. Filled(Closing \o <<d, e>>) BY <3>4, FilledClosing, FilledConcat
    <3> QED BY <1>3, <2>1, <2>2, <3>2, <3>4, <3>5
  <2> QED BY <2>1, <2>3, <2>4, <2>5, <2>6, <2>7, <2>8 DEF ClaudeNext
<1>5. CASE UNCHANGED vars \/ Finished
  BY <1>1, <1>2, <1>5 DEF vars, walkVars, Finished
<1>6. protocol' = protocol BY ProtocolStep
<1> QED BY <1>1, <1>4, <1>5, <1>6 DEF Next, ResponsesStep, OpenAIStep, CollectStep

-----------------------------------------------------------------------------
DoneInv == phase = "done" => DoneTyped

LEMMA DoneStep == ASSUME Flow, ItemsInv, SavedInv, DoneInv, [Next]_vars PROVE DoneInv'
<1>1. CASE UNCHANGED vars BY <1>1 DEF DoneInv, DoneTyped, vars, walkVars, IsSeq, ToSet, Last
<1>2. CASE phase' # "done" BY <1>2 DEF DoneInv
<1>3. CASE ResponsesEnd /\ protocol = "responses" /\ phase' = "done"
  <2> DEFINE final == OutputsClosed(EndStatus)
             e == [ev |-> EndEvent, output |-> final, reason |-> EndReason, error |-> EndCause]
             s == ClosingItem(EndStatus)
  <2>1. protocol' = "responses" /\ out' = out \o (s \o <<e>>)
    BY <1>3 DEF ResponsesEnd, Delivered, Broken
  <2>2. IsSeq(final) BY ClosedItems
  <2>3. e.output = final OBVIOUS
  <2>4. IsSeq(out) BY DEF Flow
  <2>5. Quiet(s) BY QuietClosingItem
  <2> HIDE DEF final, s, e
  <2>6. IsSeq(s \o <<e>>) /\ Len(s \o <<e>>) = Len(s) + 1 /\ (s \o <<e>>)[Len(s) + 1] = e /\ Len(s) \in Nat
    BY <2>5, QuietThenOne, OneElement, ConcatLemma, SeqFacts DEF Quiet
  <2>7. Len(out') = Len(out) + (Len(s) + 1) /\ out'[Len(out) + (Len(s) + 1)] = e
    <3>1. Len(s) + 1 \in 1..Len(s \o <<e>>) BY <2>6
    <3> QED BY <2>1, <2>4, <2>6, <3>1, ConcatLemma
  <2>8. Last(out') = e BY <2>7 DEF Last
  <2>9. IsSeq(Last(out').output) BY <2>2, <2>3, <2>8
  <2>10. out' # <<>>
    <3>1. Len(out) \in Nat BY <2>4, SeqFacts
    <3>2. Len(out') # Len(<<>>) BY <2>6, <2>7, <3>1, EmptyIsSeq
    <3> QED BY <3>2
  <2> QED BY <2>1, <2>9, <2>10 DEF DoneInv, DoneTyped, IsSeq, Last
<1>4. CASE CollectEnd /\ protocol = "json" /\ phase' = "done"
  <2> DEFINE order == Ascending(DOMAIN saved)
             first == order[1]
             choices == [k \in DOMAIN order |-> Message(order[k])]
             answer == [ev |-> "json", choices |-> choices, message |-> ClaudeMessage(first)]
  <2>1. cause = None /\ phase = "closing" /\ out' = <<answer>> /\ protocol' = "json" BY <1>4 DEF CollectEnd
  <2>2. DOMAIN seen # {} BY <2>1 DEF Flow, Complete
  <2>3. /\ DOMAIN saved # {} /\ DOMAIN saved \in SUBSET Nat /\ IsFiniteSet(DOMAIN saved)
        /\ \A i \in DOMAIN saved : IsSaved(saved[i])
    BY <1>4, <2>1, <2>2 DEF SavedInv
  <2>4. 1 \in DOMAIN order /\ first \in DOMAIN saved BY <2>3, FirstOfSome
  <2> HIDE DEF order
  <2>5. choices[1] = Message(first) BY <2>4
  <2> DEFINE parts == saved[first].parts
  <2>6. IsSeq(parts) BY <2>3, <2>4 DEF IsSaved
  <2>7. Message(first).calls = CallsOf(parts) BY DEF Message
  <2>8. ClaudeMessage(first).content = Blocks(parts) BY DEF ClaudeMessage
  <2> HIDE DEF first, parts
  <2>9. answer.message = ClaudeMessage(first) /\ answer.choices = choices OBVIOUS
  <2> HIDE DEF answer, choices
  <2>10. out'[1] = answer BY <2>1
  <2>11. IsSeq(out'[1].message.content) /\ IsSeq(out'[1].choices[1].calls)
    BY <2>5, <2>6, <2>7, <2>8, <2>9, <2>10, CallsAreSeq, BlocksAreSeq
  <2>12. out'[1].message.content = Blocks(parts) /\ out'[1].choices[1].calls = CallsOf(parts)
    BY <2>5, <2>7, <2>8, <2>9, <2>10
  <2>13. ASSUME NEW b \in ToSet(Blocks(parts)), b.type = "tool"
         PROVE  \E c \in ToSet(CallsOf(parts)) : c.id = b.id /\ c.name = b.name
    <3>1. PICK q \in ToSet(parts) : b.type = q.kind /\ b.id = q.id /\ b.name = q.name
      BY <2>6, <2>13, BlocksAreSeq
    <3>2. PICK c \in ToSet(CallsOf(parts)) : c.id = q.id /\ c.name = q.name BY <2>6, <2>13, <3>1, CallsOfTools
    <3> QED BY <3>1, <3>2
  <2>14. 1 \in DOMAIN out'[1].choices /\ out' # <<>>
    <3>1. DOMAIN choices = DOMAIN order BY DEF choices
    <3>2. Len(out') # Len(<<>>) BY <2>1, OneElement, EmptyIsSeq
    <3> QED BY <2>4, <2>9, <2>10, <3>1, <3>2
  <2>15. \A b \in ToSet(out'[1].message.content) :
           b.type = "tool" => \E c \in ToSet(out'[1].choices[1].calls) : c.id = b.id /\ c.name = b.name
    BY <2>12, <2>13
  <2> QED BY <2>1, <2>11, <2>14, <2>15 DEF DoneInv, DoneTyped, IsSeq
<1>5. [Next]_vars /\ phase' = "done" =>
        \/ UNCHANGED vars
        \/ ResponsesEnd /\ protocol = "responses"
        \/ CollectEnd /\ protocol = "json"
        \/ protocol' \in {"claude", "openai"}
  <2>1. protocol' = protocol BY ProtocolStep
  <2>2. WalkNext => phase' # "done"
    BY DEF WalkNext, PrepareFrame, PrepareFails, ReadFrame, WalkEnds, WalkFails, ToolRefused, ToolRepeated,
           Goes, Visiting, Verdict
  <2>3. ResponsesNext /\ phase' = "done" => ResponsesEnd
    BY <2>2 DEF ResponsesNext, ResponsesBegins, ResponsesCandidate, ResponsesTool, ResponsesText,
                ResponsesSignature, Goes, Broken, NewTool, Visiting
  <2>4. CollectNext /\ phase' = "done" => CollectEnd
    BY <2>2 DEF CollectNext, CollectRepeated, ReadFrame, WalkEnds, WalkFails, ToolRefused,
                ToolRepeated, CollectCandidate, CollectPart, Goes, NewTool, Visiting
  <2> QED BY <2>1, <2>3, <2>4 DEF Next, ClaudeStep, ResponsesStep, OpenAIStep, CollectStep, Finished
<1>6. CASE protocol' \in {"claude", "openai"} BY <1>6 DEF DoneInv, DoneTyped
<1> QED BY <1>1, <1>2, <1>3, <1>4, <1>5, <1>6

-----------------------------------------------------------------------------
(* The whole exchange. *)

Stored(c) == \A e \in ToSet(c.entries) : IsConversation(e.value)

CachesInv == /\ CacheInv(signatures, SignatureLimit)
             /\ CacheInv(responses, ResponseLimit) /\ Stored(responses)

TalkInv == IsConversation(history) /\ fresh \in 0..Len(history)

AnswerInv == EndInv /\ SavedInv /\ DoneInv /\ FilledInv /\ protocol \in Protocols /\ IsFiniteSet(DOMAIN used)

ExchangeInv == AnswerInv /\ TalkInv /\ CachesInv

LEMMA CachesNext ==
    ASSUME CacheInv(signatures', SignatureLimit), CacheInv(responses', ResponseLimit), Stored(responses')
    PROVE  CachesInv'
  BY DEF CachesInv

LEMMA TalkNext == ASSUME IsConversation(history'), fresh' \in 0..Len(history') PROVE TalkInv'
  BY DEF TalkInv

LEMMA Limits == IsLimit(SignatureLimit) /\ IsLimit(ResponseLimit) BY LimitsAssumption DEF IsLimit

LEMMA EmptyCacheInv ==
    ASSUME NEW limit, IsLimit(limit) PROVE CacheInv(EmptyCache, limit) /\ Stored(EmptyCache)
<1> DEFINE c == EmptyCache
<1>1. c.entries = <<>> /\ c.bytes = 0 /\ c = [entries |-> c.entries, bytes |-> c.bytes] BY DEF EmptyCache
<1> HIDE DEF c
<1>2. IsSeq(<<>>) /\ ToSet(<<>>) = {} /\ Len(<<>>) = 0 /\ DOMAIN <<>> = {} BY EmptyIsSeq
<1>3. SizeOfAll(<<>>) = 0 BY SizeEmpty
<1> QED BY <1>1, <1>2, <1>3 DEF CacheInv, IsExact, Stored, IsLimit, c

\* A step of the answer, and one that leaves it alone.
LEMMA AnswerStep == ASSUME AnswerInv, [Next]_vars PROVE AnswerInv'
<1>1. EndInv' /\ SavedInv' BY EndInvStep, SavedStep DEF AnswerInv
<1>2. DoneInv' BY DoneStep DEF AnswerInv, EndInv
<1>3. protocol' \in Protocols BY ProtocolStep DEF AnswerInv
<1>4. IsFiniteSet(DOMAIN used)' BY UsedStep DEF AnswerInv
<1>5. (protocol \in Protocols)' BY <1>3 DEF Protocols, Streamed
<1>6. FilledInv' BY FilledStep DEF AnswerInv, EndInv, Flow
<1> QED BY <1>1, <1>2, <1>4, <1>5, <1>6 DEF AnswerInv

\* The state in which the next answer would start.
LEMMA AnswerRests == ASSUME Rests PROVE AnswerInv'
<1>1. IsSeq(<<>>) /\ ToSet(<<>>) = {} /\ Len(<<>>) = 0 /\ DOMAIN <<>> = {} BY EmptyIsSeq
<1>2. /\ protocol' = "json" /\ phase' = "read" /\ out' = <<>> /\ outputs' = <<>> /\ active' = 0
      /\ states' = <<>> /\ saved' = <<>> /\ todo' = <<>> /\ used' = <<>>
  BY DEF Rests
<1>3. Flow' BY <1>1, <1>2 DEF Flow, EndIsHonest, Phases, IsSeq
<1>4. ItemsInv' BY <1>1, <1>2 DEF ItemsInv, Actionable, Running, IsSeq
<1>5. SavedInv'
  <2>1. Candidates(<<>>) = {} BY <1>1 DEF Candidates
  <2>2. IsFiniteSet(DOMAIN saved') /\ DOMAIN saved' = {} BY <1>1, <1>2, FS_EmptySet
  <2> QED BY <1>1, <1>2, <2>1, <2>2, SavedNext
<1>6. DoneInv' BY <1>2 DEF DoneInv
<1>7. IsFiniteSet(DOMAIN used') /\ IsFiniteSet(DOMAIN states') BY <1>1, <1>2, FS_EmptySet
<1>8. (protocol \in Protocols)' BY <1>2 DEF Protocols
<1>9. FilledInv' BY <1>2 DEF FilledInv
<1> QED BY <1>3, <1>4, <1>5, <1>6, <1>7, <1>8, <1>9 DEF AnswerInv, EndInv

LEMMA AnswerStart == ASSUME StreamsInit PROVE AnswerInv
<1>1. EndInv BY EndInvStart
<1>2. IsSeq(<<>>) /\ DOMAIN <<>> = {} BY EmptyIsSeq
<1>3. /\ protocol \in Protocols /\ phase \in {"prepare", "walk"} /\ seen = <<>> /\ todo = <<>>
      /\ used = <<>> /\ saved = <<>>
  BY DEF StreamsInit, Init, CollectInit
<1>4. SavedInv
  <2>1. Candidates(<<>>) = {} BY <1>2 DEF Candidates
  <2> QED BY <1>2, <1>3, <2>1, FS_EmptySet DEF SavedInv
<1>5. DoneInv BY <1>3 DEF DoneInv
<1>6. FilledInv
  <2>1. out = <<>> BY DEF StreamsInit, Init
  <2> QED BY <2>1, FilledNone DEF FilledInv
<1> QED BY <1>1, <1>2, <1>3, <1>4, <1>5, <1>6, FS_EmptySet DEF AnswerInv

LEMMA ExchangeStart == ExchangeInit => ExchangeInv
<1> SUFFICES ASSUME ExchangeInit PROVE ExchangeInv OBVIOUS
<1>1. AnswerInv BY AnswerStart DEF ExchangeInit
<1>2. CachesInv BY Limits, EmptyCacheInv DEF CachesInv, ExchangeInit
<1>3. TalkInv
  <2>1. IsSeq(<<>>) /\ ToSet(<<>>) = {} /\ Len(<<>>) = 0 BY EmptyIsSeq
  <2>2. history = <<>> /\ fresh = 0 BY DEF ExchangeInit
  <2> QED BY <2>1, <2>2 DEF TalkInv, IsConversation
<1> QED BY <1>1, <1>2, <1>3 DEF ExchangeInv

-----------------------------------------------------------------------------
(* One lemma for each step. *)

LEMMA ReplyStep == ASSUME ExchangeInv, Reply PROVE ExchangeInv'
<1>1. AnswerInv' BY AnswerRests DEF Reply
<1>2. PICK d \in DialectsOf(protocol), way \in Ways, name \in Names, s \in Settings, roll \in Rolls, offer \in Offers :
        LET answer == Answer(d)
            msgs == [k \in DOMAIN answer |-> Kept(answer[k], way)]
        IN  /\ history' = Question \o msgs \o Results(msgs)
            /\ fresh' = Len(Results(msgs))
            /\ signatures' = Filed(name)
            /\ responses' = IF d = "responses" /\ Last(out).ev = "response.completed"
                            THEN Put(responses, MyResponse, Question \o answer, 1, ResponseLimit) ELSE responses
  BY ZenonT(60) DEF Reply
<1> DEFINE answer == Answer(d)
           msgs == [k \in DOMAIN answer |-> Kept(answer[k], way)]
           results == Results(msgs)
           whole == Question \o answer
<1>3. IsConversation(answer)
  <2>1. IsSeq(out) /\ phase = "done" /\ DoneTyped /\ protocol \in Protocols
    BY DEF ExchangeInv, AnswerInv, EndInv, Flow, DoneInv, Reply
  <2> QED BY <2>1, AnswerIsConversation
<1>4. /\ history' = (Question \o msgs) \o results /\ fresh' = Len(results) /\ signatures' = Filed(name)
      /\ responses' = responses \/ responses' = Put(responses, MyResponse, whole, 1, ResponseLimit)
  BY <1>2
<1> HIDE DEF answer
<1>5. IsConversation(msgs)
  <2>1. IsSeq(answer) /\ \A k \in DOMAIN answer : IsMessage(answer[k]) BY <1>3 DEF IsConversation, ToSet
  <2>2. \A k \in DOMAIN answer : IsMessage(msgs[k]) BY <2>1, KeptMessage
  <2>3. msgs = [k \in DOMAIN answer |-> msgs[k]] OBVIOUS
  <2> HIDE DEF msgs
  <2> QED BY <2>1, <2>2, <2>3, MapMessages
<1> HIDE DEF msgs
<1>6. IsConversation(results) BY <1>5, ResultsAreConversation
<1> HIDE DEF results
<1>7. IsConversation(whole) BY <1>3, QuestionIsConversation, ConversationConcat
<1> HIDE DEF whole
<1>8. TalkInv'
  <2> DEFINE a == Question \o msgs
  <2>1. IsConversation(a) BY <1>5, QuestionIsConversation, ConversationConcat
  <2> HIDE DEF a
  <2>2. IsConversation(a \o results) /\ Len(a \o results) = Len(a) + Len(results)
    BY <1>6, <2>1, ConversationConcat
  <2>3. Len(a) \in Nat /\ Len(results) \in Nat BY <1>6, <2>1, SeqFacts DEF IsConversation
  <2>4. history' = a \o results BY <1>4 DEF a
  <2>5. fresh' \in 0..Len(history') BY <1>4, <2>2, <2>3, <2>4
  <2> QED BY <2>2, <2>4, <2>5, TalkNext
<1>9. CachesInv'
  <2>1. CacheInv(signatures', SignatureLimit)
    BY <1>4, Limits, FiledLemma DEF ExchangeInv, CachesInv, AnswerInv
  <2>2. CacheInv(responses, ResponseLimit) /\ Stored(responses) BY DEF ExchangeInv, CachesInv
  <2>3. CASE responses' = responses BY <2>1, <2>2, <2>3, CachesNext
  <2>4. CASE responses' = Put(responses, MyResponse, whole, 1, ResponseLimit)
    <3> DEFINE c == Put(responses, MyResponse, whole, 1, ResponseLimit)
               e == Entry(MyResponse, whole, 1)
    <3>1. CacheInv(c, ResponseLimit) /\ ToSet(c.entries) \subseteq ToSet(responses.entries) \cup {e}
      <4> HIDE DEF c
      <4> QED BY <2>2, Limits, PutLemma DEF c
    <3>2. IsConversation(e.value) BY <1>7 DEF Entry
    <3> HIDE DEF c, e
    <3>3. Stored(c) BY <2>2, <3>1, <3>2 DEF Stored
    <3> QED BY <2>1, <2>4, <3>1, <3>3, CachesNext DEF c
  <2> QED BY <1>4, <2>3, <2>4
<1> QED BY <1>1, <1>8, <1>9 DEF ExchangeInv

LEMMA Unspoken == ASSUME ExchangeInv, UNCHANGED <<vars, turnVars>> PROVE AnswerInv' /\ TalkInv'
<1>1. AnswerInv' BY AnswerStep DEF ExchangeInv
<1>2. history' = history /\ fresh' = fresh BY DEF turnVars
<1> QED BY <1>1, <1>2, TalkNext DEF ExchangeInv, TalkInv

LEMMA OtherStep == ASSUME ExchangeInv, OtherConversation PROVE ExchangeInv'
<1>1. AnswerInv' /\ TalkInv' BY Unspoken DEF OtherConversation
<1>2. /\ CacheInv(signatures, SignatureLimit) /\ CacheInv(responses, ResponseLimit) /\ Stored(responses)
  BY DEF ExchangeInv, CachesInv
<1>3. PICK size \in {1, 2} :
        \/ /\ signatures' = Remember(signatures, <<Family(requested), 0>>, "other", size, SignatureLimit)
           /\ responses' = responses
        \/ /\ responses' = Put(responses, "other", <<>>, size, ResponseLimit)
           /\ signatures' = signatures
  BY DEF OtherConversation
<1>4. size \in Nat OBVIOUS
<1>5. CASE /\ signatures' = Remember(signatures, <<Family(requested), 0>>, "other", size, SignatureLimit)
           /\ responses' = responses
  <2>1. CacheInv(signatures', SignatureLimit) BY <1>2, <1>4, <1>5, Limits, RememberLemma
  <2> QED BY <1>1, <1>2, <1>5, <2>1, CachesNext DEF ExchangeInv
<1>6. CASE /\ responses' = Put(responses, "other", <<>>, size, ResponseLimit)
           /\ signatures' = signatures
  <2> DEFINE c == Put(responses, "other", <<>>, size, ResponseLimit)
             e == Entry("other", <<>>, size)
  <2>1. CacheInv(c, ResponseLimit) /\ ToSet(c.entries) \subseteq ToSet(responses.entries) \cup {e}
    BY <1>2, <1>4, Limits, PutLemma
  <2>2. IsConversation(e.value)
    <3>1. e.value = <<>> BY DEF Entry
    <3> HIDE DEF e
    <3> QED BY <3>1, EmptyIsSeq DEF IsConversation
  <2>3. responses' = c BY <1>6
  <2> HIDE DEF c, e
  <2>4. Stored(c) BY <1>2, <2>1, <2>2 DEF Stored
  <2> QED BY <1>1, <1>2, <1>6, <2>1, <2>3, <2>4, CachesNext DEF ExchangeInv
<1> QED BY <1>3, <1>5, <1>6

LEMMA TimeStep == ASSUME ExchangeInv, TimePasses PROVE ExchangeInv'
<1>1. AnswerInv' /\ TalkInv' BY Unspoken DEF TimePasses
<1>2. /\ CacheInv(signatures, SignatureLimit) /\ CacheInv(responses, ResponseLimit) /\ Stored(responses)
  BY DEF ExchangeInv, CachesInv
<1>3. CASE \E k \in DOMAIN signatures.entries :
             signatures' = Expired(signatures, signatures.entries[k].key) /\ UNCHANGED responses
  <2>1. PICK k : signatures' = Expired(signatures, k) /\ responses' = responses BY <1>3
  <2>2. CacheInv(signatures', SignatureLimit) BY <1>2, <2>1, Limits, ExpiredLemma
  <2> QED BY <1>1, <1>2, <2>1, <2>2, CachesNext DEF ExchangeInv
<1>4. CASE responses' = Expired(responses, MyResponse) /\ UNCHANGED signatures
  <2> DEFINE c == Expired(responses, MyResponse)
  <2>1. /\ CacheInv(c, ResponseLimit)
        /\ \A e \in ToSet(c.entries) : \E x \in ToSet(responses.entries) : e.key = x.key /\ e.value = x.value
    BY <1>2, Limits, ExpiredLemma
  <2>2. responses' = c /\ signatures' = signatures BY <1>4
  <2> HIDE DEF c
  <2>3. Stored(c) BY <1>2, <2>1 DEF Stored
  <2> QED BY <1>1, <1>2, <2>1, <2>2, <2>3, CachesNext DEF ExchangeInv
<1> QED BY <1>3, <1>4 DEF TimePasses

LEMMA TouchedResponses ==
    ASSUME CachesInv, NEW k
    PROVE  CacheInv(Touched(responses, k), ResponseLimit) /\ Stored(Touched(responses, k))
<1> DEFINE c == Touched(responses, k)
<1>1. CacheInv(c, ResponseLimit) /\ ToSet(c.entries) \subseteq ToSet(responses.entries)
  BY Limits, TouchedLemma DEF CachesInv
<1> HIDE DEF c
<1>2. Stored(c) BY <1>1 DEF CachesInv, Stored
<1> QED BY <1>1, <1>2 DEF c

LEMMA SendsCaches ==
    ASSUME CachesInv, NEW msgs, IsConversation(msgs), Sends(msgs)
    PROVE  CacheInv(signatures', SignatureLimit)
<1>1. PICK m : signatures' = CacheAfter(msgs, m, signatures) BY DEF Sends
<1> QED BY <1>1, Limits, CacheAfterLemma DEF CachesInv

LEMMA SendStep == ASSUME ExchangeInv, Send PROVE ExchangeInv'
<1>1. AnswerInv' /\ TalkInv' BY Unspoken DEF Send
<1>2. CacheInv(signatures', SignatureLimit) BY SendsCaches DEF Send, ExchangeInv, TalkInv
<1>3. responses' = responses BY DEF Send
<1> QED BY <1>1, <1>2, <1>3, CachesNext DEF ExchangeInv, CachesInv

\* What was stored and what is new are a conversation.
LEMMA ChainedIsConversation ==
    ASSUME CachesInv, TalkInv, Finds(responses, MyResponse)
    PROVE  IsConversation(EntryOf(responses, MyResponse).value
                          \o SubSeq(history, Len(history) - fresh + 1, Len(history)))
<1> DEFINE stored == EntryOf(responses, MyResponse).value
           new == SubSeq(history, Len(history) - fresh + 1, Len(history))
<1>1. IsConversation(stored)
  <2>1. \E i \in DOMAIN responses.entries : EntryOf(responses, MyResponse) = responses.entries[i]
    BY DEF Finds, Holds, EntryOf
  <2> QED BY <2>1 DEF CachesInv, Stored, ToSet
<1>2. IsConversation(new) BY LastMessages DEF TalkInv
<1> HIDE DEF stored, new
<1>3. IsConversation(stored \o new) BY <1>1, <1>2, ConversationConcat
<1> QED BY <1>3 DEF stored, new

LEMMA SendChainedStep == ASSUME ExchangeInv, SendChained PROVE ExchangeInv'
<1> DEFINE msgs == EntryOf(responses, MyResponse).value
                   \o SubSeq(history, Len(history) - fresh + 1, Len(history))
<1>1. AnswerInv' /\ TalkInv' BY Unspoken DEF SendChained
<1>2. Finds(responses, MyResponse) /\ Sends(msgs) /\ responses' = Touched(responses, MyResponse)
  BY DEF SendChained
<1>3. IsConversation(msgs) BY <1>2, ChainedIsConversation DEF ExchangeInv
<1> HIDE DEF msgs
<1>4. CacheInv(signatures', SignatureLimit) BY <1>2, <1>3, SendsCaches DEF ExchangeInv
<1>5. CacheInv(responses', ResponseLimit) /\ Stored(responses') BY <1>2, TouchedResponses DEF ExchangeInv
<1> QED BY <1>1, <1>4, <1>5, CachesNext DEF ExchangeInv

LEMMA ChainBrokenStep == ASSUME ExchangeInv, ChainBroken PROVE ExchangeInv'
<1>1. AnswerInv' /\ TalkInv' BY Unspoken DEF ChainBroken
<1>2. responses' = Touched(responses, MyResponse) /\ signatures' = signatures BY DEF ChainBroken
<1>3. CacheInv(responses', ResponseLimit) /\ Stored(responses') BY <1>2, TouchedResponses DEF ExchangeInv
<1> QED BY <1>1, <1>2, <1>3, CachesNext DEF ExchangeInv, CachesInv

LEMMA ExchangeStep == ExchangeInv /\ [ExchangeNext]_<<vars, exchangeVars>> => ExchangeInv'
<1> SUFFICES ASSUME ExchangeInv, [ExchangeNext]_<<vars, exchangeVars>> PROVE ExchangeInv' OBVIOUS
<1>1. ASSUME [Next]_vars, UNCHANGED exchangeVars PROVE ExchangeInv'
  <2>1. /\ signatures' = signatures /\ responses' = responses /\ history' = history /\ fresh' = fresh
    BY <1>1 DEF exchangeVars, turnVars
  <2>2. AnswerInv' BY <1>1, AnswerStep DEF ExchangeInv
  <2>3. TalkInv' BY <2>1, TalkNext DEF ExchangeInv, TalkInv
  <2>4. CachesInv' BY <2>1, CachesNext DEF ExchangeInv, CachesInv
  <2> QED BY <2>2, <2>3, <2>4 DEF ExchangeInv
<1>2. CASE ExchangeOver BY <1>1, <1>2 DEF ExchangeOver
<1> QED BY <1>1, <1>2, ReplyStep, OtherStep, TimeStep, SendStep, SendChainedStep, ChainBrokenStep DEF ExchangeNext

\* An answer of an exchange ends as honestly as one alone: Exchange takes its
\* answers from the writers as they are (convert/stream.go).
THEOREM ExchangeEndsHonestly == ExchangeSpec => []EndIsHonest
<1>1. ExchangeInv => EndIsHonest BY DEF ExchangeInv, AnswerInv, EndInv, Flow
<1> QED BY <1>1, ExchangeStart, ExchangeStep, PTL DEF ExchangeSpec

\* Whatever is answered, remembered, replaced, evicted, expired and looked up,
\* the count of bytes of both caches is that of their entries, no key is there
\* twice, and both bounds hold (signature_cache.go, responseHistory).
THEOREM CountsAreExact == ExchangeSpec => []CachesAreExact
<1>1. ExchangeInv => CachesAreExact BY DEF ExchangeInv, CachesInv, CacheInv, CachesAreExact
<1> QED BY <1>1, ExchangeStart, ExchangeStep, PTL DEF ExchangeSpec

\* Once the client has read its answer nothing is walked and nothing is told.
LEMMA RestTold == ASSUME EndInv', Rests PROVE ToldInv'
<1>1. /\ protocol' = "json" /\ phase' = "read" /\ out' = <<>> /\ seen' = <<>> /\ todo' = <<>>
      /\ given' = <<>> /\ calls' = <<>> /\ used' = <<>>
  BY DEF Rests
<1>2. WalkInv'
  <2>1. (given = <<>> /\ todo = <<>> /\ DOMAIN seen = {})' BY <1>1, EmptyIsSeq
  <2>2. (given = <<>> /\ todo = <<>> /\ DOMAIN seen = {} => WalkInv)' BY WalkInvStart, PTL
  <2> QED BY <2>1, <2>2
<1>3. Registry'
  <2>1. (given = <<>> /\ calls = <<>> /\ used = <<>> => Registry)' BY RegistryStart, PTL
  <2> QED BY <1>1, <2>1
<1>4. AnswerIsKept'
  <2>1. (protocol = "json" /\ out = <<>> /\ phase # "done" => AnswerIsKept)' BY JsonNothing, PTL
  <2> QED BY <1>1, <2>1
<1>5. ~Running' /\ (protocol \in Protocols)' BY <1>1 DEF Running, Protocols
<1> QED BY <1>2, <1>3, <1>4, <1>5 DEF ToldInv

LEMMA ToldInExchange ==
    ASSUME ExchangeInv, ToldInv, [ExchangeNext]_<<vars, exchangeVars>> PROVE ToldInv'
<1>1. CASE [Next]_vars BY <1>1, ToldStep
<1>2. CASE Reply
  <2>1. EndInv' BY <1>2, ReplyStep DEF ExchangeInv, AnswerInv
  <2> QED BY <1>2, <2>1, RestTold DEF Reply
<1>3. CASE UNCHANGED vars BY <1>3, ToldSame
<1> QED BY <1>1, <1>2, <1>3
  DEF ExchangeNext, OtherConversation, TimePasses, Send, SendChained, ChainBroken, ExchangeOver

LEMMA KindsInExchange ==
    ASSUME KindsInv, ToldInv, [ExchangeNext]_<<vars, exchangeVars>> PROVE KindsInv'
<1>1. CASE [Next]_vars
  <2>1. EndInv /\ WalkInv BY DEF ToldInv
  <2> QED BY <1>1, <2>1, KindsStep
<1>2. CASE Reply
  <2>1. (out = <<>> /\ outputs = <<>> /\ active = 0 /\ text = <<>>)' BY <1>2 DEF Reply, Rests
  <2>2. (out = <<>> /\ outputs = <<>> /\ active = 0 /\ text = <<>> => KindsInv)' BY KindsNothing, PTL
  <2> QED BY <2>1, <2>2
<1> QED BY <1>1, <1>2
  DEF ExchangeNext, OtherConversation, TimePasses, Send, SendChained, ChainBroken, ExchangeOver

LEMMA ExchangeAlways == ExchangeSpec => [](AnswerIsKept /\ KindsInv)
<1>1. ExchangeInit => ExchangeInv /\ ToldInv /\ KindsInv
  BY ExchangeStart, ToldStart, KindsStart DEF ExchangeInit
<1>2. ExchangeInv /\ ToldInv /\ KindsInv /\ [ExchangeNext]_<<vars, exchangeVars>>
      => ExchangeInv' /\ ToldInv' /\ KindsInv'
  BY ExchangeStep, ToldInExchange, KindsInExchange
<1>3. ToldInv => AnswerIsKept BY AnswerKept
<1> QED BY <1>1, <1>2, <1>3, PTL DEF ExchangeSpec

\* The answer of an exchange keeps the order of its protocol until the client
\* takes it (the writers of convert/stream.go and responses.go).
THEOREM ExchangeComesInOrder == ExchangeSpec => []EventsAreInOrder
<1>1. AnswerIsKept => EventsAreInOrder BY DEF AnswerIsKept
<1> QED BY <1>1, ExchangeAlways, PTL

\* What an exchange brings to the client is all the upstream said, once, its
\* texts as texts and its thoughts as thoughts, also in a collected message (the
\* writers of convert/stream.go and responses.go, CollectGeminiJSON).
THEOREM ExchangeLosesNoText == ExchangeSpec => []TextIsKept
<1>1. AnswerIsKept /\ KindsInv => TextIsKept BY KindsTell DEF AnswerIsKept, TextIsKept
<1> QED BY <1>1, ExchangeAlways, PTL

\* The calls a client sends back carry ids of their own: those of the answer of
\* an exchange are delivered once, under ids that differ (streamToolRegistry).
THEOREM ExchangeCallsComeOnce == ExchangeSpec => []CallsAreOnce
<1>1. AnswerIsKept => CallsAreOnce BY DEF AnswerIsKept
<1> QED BY <1>1, ExchangeAlways, PTL

\* The thinking blocks a client of the Claude protocol sends back are signed as
\* the upstream signed them (pendingSig, signature_delta of convert/stream.go).
THEOREM ExchangeLosesNoSignature == ExchangeSpec => []SignaturesAreKept
<1>1. AnswerIsKept => SignaturesAreKept BY DEF AnswerIsKept
<1> QED BY <1>1, ExchangeAlways, PTL

-----------------------------------------------------------------------------
(* The contents that are sent. *)

IsContent(c) == c = [role |-> c.role, parts |-> c.parts] /\ IsSeq(c.parts)

AreContents(s) == IsSeq(s) /\ \A i \in DOMAIN s : IsContent(s[i])

PartsIn(s) == UNION {ToSet(s[i].parts) : i \in DOMAIN s}

\* Contents whose roles are in R and whose parts are in P.
LEMMA ContentsTyped ==
    ASSUME NEW s, AreContents(s), NEW R, NEW P, PartsIn(s) \subseteq P, \A i \in DOMAIN s : s[i].role \in R
    PROVE  s \in Seq([role : R, parts : Seq(P)])
<1> DEFINE C == [role : R, parts : Seq(P)]
<1>1. \A i \in DOMAIN s : s[i] \in C
  <2> SUFFICES ASSUME NEW i \in DOMAIN s PROVE s[i] \in C OBVIOUS
  <2> DEFINE c == s[i]
  <2>1. c = [role |-> c.role, parts |-> c.parts] /\ IsSeq(c.parts) BY DEF AreContents, IsContent
  <2>2. ToSet(c.parts) \subseteq P BY DEF PartsIn
  <2>3. c.parts \in Seq(P) BY <2>1, <2>2 DEF IsSeq
  <2>4. c.role \in R OBVIOUS
  <2> HIDE DEF c
  <2>5. c \in C BY <2>1, <2>3, <2>4
  <2> QED BY <2>5 DEF c
<1>2. IsSeq(s) BY DEF AreContents
<1> HIDE DEF C
<1>3. ToSet(s) \subseteq C BY <1>1 DEF ToSet
<1>4. s \in Seq(C) BY <1>2, <1>3 DEF IsSeq
<1> QED BY <1>4 DEF C

LEMMA TypedContents ==
    ASSUME NEW R, NEW P, NEW s \in Seq([role : R, parts : Seq(P)])
    PROVE  AreContents(s) /\ PartsIn(s) \subseteq P /\ \A i \in DOMAIN s : s[i].role \in R
<1> DEFINE C == [role : R, parts : Seq(P)]
<1>1. IsSeq(s) BY TypedIsSeq
<1>2. \A i \in DOMAIN s : s[i] \in C
  <2>1. s \in Seq(C) OBVIOUS
  <2> HIDE DEF C
  <2> QED BY <2>1
<1>3. ASSUME NEW c \in C PROVE IsContent(c) /\ ToSet(c.parts) \subseteq P /\ c.role \in R
  <2>1. c = [role |-> c.role, parts |-> c.parts] /\ c.parts \in Seq(P) /\ c.role \in R OBVIOUS
  <2>2. IsSeq(c.parts) BY <2>1, TypedIsSeq
  <2>3. ToSet(c.parts) \subseteq P BY <2>1 DEF ToSet
  <2> QED BY <2>1, <2>2, <2>3 DEF IsContent
<1> HIDE DEF C
<1> QED BY <1>1, <1>2, <1>3 DEF AreContents, PartsIn

\* Contents that grow by one more.
MergedWith(acc, c) ==
  IF c.parts = <<>> THEN acc
  ELSE IF acc # <<>> /\ Last(acc).role = c.role
       THEN [acc EXCEPT ![Len(acc)].parts = @ \o c.parts]
       ELSE Append(acc, c)

\* The steps of a merge.
Merging(f, s) ==
  /\ f[0] = <<>> /\ f[Len(s)] = MergeContents(s)
  /\ \A i \in 1..Len(s) : f[i] = MergedWith(f[i - 1], s[i])
  /\ \A i \in 0..Len(s) : AreContents(f[i]) /\ PartsIn(f[i]) \subseteq PartsIn(s)

LEMMA MergeUnrolled ==
    ASSUME NEW s, AreContents(s)
    PROVE  \E f : Merging(f, s)
<1> DEFINE n == Len(s)
           P == PartsIn(s)
           R == {s[i].role : i \in DOMAIN s}
           C == [role : R, parts : Seq(P)]
           V == Seq(C)
           Op(acc, c) == MergedWith(acc, c)
           F == [w \in V \X (1..n) |-> Op(w[1], s[w[2]])]
           Solves(h) == h = [T \in SUBSET (1..n) |->
                               IF T = {} THEN <<>> ELSE Op(h[T \ {Max(T)}], s[Max(T)])]
<1>a. MergeContents(s) = FoldLeft(LAMBDA acc, c : Op(acc, c), <<>>, s)
  BY DEF MergeContents, MergedWith
<1>b. s \in V
  <2> HIDE DEF P, R
  <2>1. PartsIn(s) \subseteq P /\ \A i \in DOMAIN s : s[i].role \in R BY DEF P, R
  <2> QED BY <2>1, ContentsTyped
<1>1. n \in Nat /\ DOMAIN s = 1..n /\ \A i \in 1..n : s[i] \in C
  <2> HIDE DEF C
  <2> QED BY <1>b
<1>2. <<>> \in V OBVIOUS
<1>c. ASSUME NEW acc \in V, NEW c \in C PROVE Op(acc, c) \in V
  <2> HIDE DEF P, R
  <2>1. Append(acc, c) \in V
    <3> HIDE DEF C
    <3> QED OBVIOUS
  <2>2. ASSUME acc # <<>> PROVE [acc EXCEPT ![Len(acc)].parts = @ \o c.parts] \in V
    <3> DEFINE k == Len(acc)
               x == [acc[k] EXCEPT !.parts = @ \o c.parts]
    <3>1. k \in DOMAIN acc /\ acc[k] \in C
      <4> HIDE DEF C
      <4> QED BY <2>2
    <3>2. acc[k].parts \o c.parts \in Seq(P) BY <3>1
    <3>3. x \in C BY <3>1, <3>2
    <3> HIDE DEF C, x
    <3> QED BY <3>1, <3>3 DEF x
  <2> HIDE DEF V
  <2> QED BY <2>1, <2>2 DEF MergedWith
<1> HIDE DEF V, Op, C
<1>3. \A acc \in V, i \in 1..n : Op(acc, s[i]) \in V BY <1>1, <1>c
<1>4. F \in [V \X (1..n) -> V] BY <1>3
<1>5. \A acc \in V, i \in 1..n : F[<<acc, i>>] = Op(acc, s[i]) OBVIOUS
<1>6. \A T \in SUBSET (1..n) : T # {} => Max(T) \in T
  <2> SUFFICES ASSUME NEW T \in SUBSET (1..n), T # {} PROVE Max(T) \in T OBVIOUS
  <2> HIDE DEF n
  <2> QED BY <1>1, MaxIn
<1> HIDE DEF F, n
<1>7. \E h : Solves(h)
  <2>1. PICK g \in [SUBSET (1..n) -> V] : Folds(g, n, <<>>, F) BY <1>1, <1>2, <1>4, FoldIter
  <2>2. \A T \in SUBSET (1..n) : g[T] = IF T = {} THEN <<>> ELSE Op(g[T \ {Max(T)}], s[Max(T)])
    <3> SUFFICES ASSUME NEW T \in SUBSET (1..n), T # {} PROVE g[T] = Op(g[T \ {Max(T)}], s[Max(T)])
      BY <2>1 DEF Folds
    <3>1. Max(T) \in 1..n /\ T \ {Max(T)} \in SUBSET (1..n) BY <1>6
    <3>2. g[T \ {Max(T)}] \in V BY <3>1
    <3>3. g[T] = F[<<g[T \ {Max(T)}], Max(T)>>] BY <2>1 DEF Folds
    <3> QED BY <1>5, <3>1, <3>2, <3>3
  <2>3. g = [T \in SUBSET (1..n) |-> g[T]] OBVIOUS
  <2> QED BY <2>2, <2>3
<1> DEFINE h == CHOOSE h : Solves(h)
<1>8. Solves(h) BY <1>7
<1>9. MergeContents(s) = h[1..n] BY <1>a, <1>1 DEF FoldLeft, MapThenFoldSet, Op
<1> HIDE DEF h
<1>10. Follows(h, n, V, <<>>, F)
  <2>1. h[{}] = <<>> BY <1>8
  <2>2. ASSUME NEW T \in SUBSET (1..n), T # {}, h[T \ {Max(T)}] \in V
        PROVE  h[T] = F[<<h[T \ {Max(T)}], Max(T)>>]
    <3>1. Max(T) \in 1..n BY <1>6, <2>2
    <3>2. h[T] = Op(h[T \ {Max(T)}], s[Max(T)]) BY <1>8, <2>2
    <3> QED BY <1>5, <2>2, <3>1, <3>2
  <2> HIDE DEF Solves
  <2> QED BY <2>1, <2>2 DEF Follows
<1>11. \E f \in [0..n -> V] : Reaches(f, n, <<>>, F, h[1..n])
  <2> HIDE DEF Solves
  <2> QED BY <1>1, <1>2, <1>4, <1>10, FoldSteps
<1>12. PICK f \in [0..n -> V] : Reaches(f, n, <<>>, F, h[1..n]) BY <1>11
<1>13. f[0] = <<>> /\ f[n] = MergeContents(s)
  <2>1. 0 \in 0..n BY <1>1
  <2> QED BY <1>9, <1>12, <2>1 DEF Reaches, Recurs
<1>14. ASSUME NEW i \in 1..n PROVE f[i] = MergedWith(f[i - 1], s[i])
  <2>1. i \in 0..n /\ i - 1 \in 0..n /\ i # 0 BY <1>1
  <2>2. f[i] = F[<<f[i - 1], i>>] BY <1>12, <2>1 DEF Reaches, Recurs
  <2>3. f[i - 1] \in V BY <2>1
  <2> QED BY <1>5, <2>2, <2>3 DEF Op
<1>15. ASSUME NEW i \in 0..n PROVE AreContents(f[i]) /\ PartsIn(f[i]) \subseteq P
  <2>1. f[i] \in Seq([role : R, parts : Seq(P)]) BY DEF V, C
  <2> HIDE DEF P, R
  <2> QED BY <2>1, TypedContents
<1>16. Merging(f, s) BY <1>13, <1>14, <1>15 DEF Merging, n, P
<1> QED BY <1>16

\* Merged contents have no other parts.
LEMMA MergeLemma ==
    ASSUME NEW s, AreContents(s)
    PROVE  AreContents(MergeContents(s)) /\ PartsIn(MergeContents(s)) \subseteq PartsIn(s)
<1>1. PICK f : Merging(f, s) BY MergeUnrolled
<1>2. Len(s) \in 0..Len(s) BY SeqFacts DEF AreContents
<1> QED BY <1>1, <1>2 DEF Merging

\* What a list of contents holds, part by part.
LEMMA PartsLemma ==
    ASSUME NEW s, AreContents(s) PROVE ToSet(FlattenSeq([i \in DOMAIN s |-> s[i].parts])) = PartsIn(s)
<1> DEFINE t == [i \in DOMAIN s |-> s[i].parts]
<1>1. t = [i \in DOMAIN s |-> t[i]] /\ DOMAIN t = DOMAIN s /\ \A i \in DOMAIN s : t[i] = s[i].parts OBVIOUS
<1> HIDE DEF t
<1>2. IsSeq(t) BY <1>1, MapSeq DEF AreContents
<1>3. \A i \in DOMAIN t : IsSeq(t[i]) BY <1>1 DEF AreContents, IsContent
<1>4. ToSet(FlattenSeq(t)) = UNION {ToSet(t[i]) : i \in DOMAIN t} BY <1>2, <1>3, FlattenLemma
<1> QED BY <1>1, <1>4 DEF PartsIn, t

-----------------------------------------------------------------------------
(* Messages to contents. *)

LEMMA FlatBlocks ==
    ASSUME NEW s, IsSeq(s), NEW t, t = [k \in DOMAIN s |-> t[k]], \A k \in DOMAIN s : AreBlocks(t[k])
    PROVE  AreBlocks(FlattenSeq(t))
<1>1. IsSeq(t) /\ DOMAIN t = DOMAIN s BY MapSeq
<1>2. \A k \in DOMAIN t : IsSeq(t[k]) BY <1>1 DEF AreBlocks
<1>3. IsSeq(FlattenSeq(t)) /\ ToSet(FlattenSeq(t)) = UNION {ToSet(t[k]) : k \in DOMAIN t}
  BY <1>1, <1>2, FlattenLemma
<1> QED BY <1>1, <1>3 DEF AreBlocks

LEMMA OneBlock == ASSUME NEW b, IsBlock(b) PROVE AreBlocks(<<b>>)
  BY OneElement DEF AreBlocks

LEMMA NoBlocks == AreBlocks(<<>>) BY EmptyIsSeq DEF AreBlocks

LEMMA CallPartIs ==
    ASSUME NEW b, IsBlock(b), b.kind = "call", NEW fallback, NEW model, NEW declared, NEW cache
    PROVE  AreBlocks(<<CallPart(b, fallback, model, declared, cache)>>)
<1> DEFINE name == ResolveDeclaredToolName(b.name, declared)
           sig == Or(Or(b.sig, fallback), Recalled(cache, model, b.id))
           r == CallPart(b, fallback, model, declared, cache)
<1>1. r = [b EXCEPT !.name = name, !.sig = sig] BY DEF CallPart
<1>2. b = [kind |-> b.kind, what |-> b.what, id |-> b.id, name |-> b.name, sig |-> b.sig, media |-> b.media]
  BY DEF IsBlock
<1> HIDE DEF name, sig, r
<1>3. r = [kind |-> b.kind, what |-> b.what, id |-> b.id, name |-> name, sig |-> sig, media |-> b.media]
  BY <1>1, <1>2
<1>4. IsBlock(r) BY <1>3 DEF IsBlock
<1> QED BY <1>4, OneBlock DEF r

LEMMA ResultPartsAre ==
    ASSUME NEW b, IsBlock(b), b.kind = "result", NEW msgs, NEW declared
    PROVE  AreBlocks(ResultParts(b, msgs, declared))
<1> DEFINE name == ResultName(b, msgs, declared)
           result == [b EXCEPT !.name = name, !.media = FALSE]
           media == [result EXCEPT !.kind = "media"]
<1>1. b = [kind |-> b.kind, what |-> b.what, id |-> b.id, name |-> b.name, sig |-> b.sig, media |-> b.media]
      /\ b.sig = None
  BY DEF IsBlock
<1>2. ResultParts(b, msgs, declared) = IF b.media THEN <<result, media>> ELSE <<result>> BY DEF ResultParts
<1> HIDE DEF name
<1>3. result = [kind |-> b.kind, what |-> b.what, id |-> b.id, name |-> name, sig |-> b.sig, media |-> FALSE]
  <2> DEFINE named == [b EXCEPT !.name = name]
  <2>1. named = [kind |-> b.kind, what |-> b.what, id |-> b.id, name |-> name, sig |-> b.sig, media |-> b.media]
    BY <1>1
  <2>2. result = [named EXCEPT !.media = FALSE] OBVIOUS
  <2> HIDE DEF named, result
  <2> QED BY <2>1, <2>2
<1> HIDE DEF result
<1>4. media = [kind |-> "media", what |-> b.what, id |-> b.id, name |-> name, sig |-> b.sig, media |-> FALSE]
  <2> DEFINE off == FALSE
  <2>1. result = [kind |-> b.kind, what |-> b.what, id |-> b.id, name |-> name, sig |-> b.sig, media |-> off]
    BY <1>3
  <2> HIDE DEF off
  <2>2. media = [kind |-> "media", what |-> b.what, id |-> b.id, name |-> name, sig |-> b.sig, media |-> off]
    BY <2>1
  <2> HIDE DEF media
  <2> QED BY <2>2 DEF off
<1> HIDE DEF media
<1>5. IsBlock(result) /\ IsBlock(media) BY <1>1, <1>3, <1>4 DEF IsBlock
<1>6. AreBlocks(<<result, media>>) BY <1>5, TwoElements DEF AreBlocks
<1> QED BY <1>2, <1>5, <1>6, OneBlock

LEMMA OpenAIPartsAre ==
    ASSUME NEW m, AreBlocks(m.blocks), NEW msgs, NEW model, NEW declared, NEW cache
    PROVE  AreBlocks(OpenAIParts(m, msgs, model, declared, cache))
<1> DEFINE Of(b) == CASE b.kind = "call" -> <<CallPart(b, m.sig, model, declared, cache)>>
                      [] b.kind = "result" -> ResultParts(b, msgs, declared)
                      [] b.kind = "thought" -> <<[b EXCEPT !.sig = m.sig]>>
                      [] OTHER -> <<b>>
           t == [i \in DOMAIN m.blocks |-> Of(m.blocks[i])]
<1>1. IsSeq(m.blocks) /\ \A i \in DOMAIN m.blocks : IsBlock(m.blocks[i]) BY DEF AreBlocks, ToSet
<1>2. ASSUME NEW b, IsBlock(b) PROVE AreBlocks(Of(b))
  <2> DEFINE x == [b EXCEPT !.sig = m.sig]
  <2>1. CASE b.kind = "call"
    <3>1. Of(b) = <<CallPart(b, m.sig, model, declared, cache)>> BY <2>1
    <3> HIDE DEF Of
    <3> QED BY <1>2, <2>1, <3>1, CallPartIs
  <2>2. CASE b.kind = "result"
    <3>1. Of(b) = ResultParts(b, msgs, declared) BY <2>2
    <3> HIDE DEF Of
    <3> QED BY <1>2, <2>2, <3>1, ResultPartsAre
  <2>3. CASE b.kind = "thought"
    <3>1. Of(b) = <<x>> BY <2>3
    <3>2. IsBlock(x) BY <1>2, <2>3 DEF IsBlock
    <3> HIDE DEF Of, x
    <3> QED BY <3>1, <3>2, OneBlock
  <2>4. CASE b.kind \notin {"call", "result", "thought"}
    <3>1. Of(b) = <<b>> BY <2>4
    <3> HIDE DEF Of
    <3> QED BY <1>2, <3>1, OneBlock
  <2> QED BY <2>1, <2>2, <2>3, <2>4
<1>3. OpenAIParts(m, msgs, model, declared, cache) = FlattenSeq(t) BY DEF OpenAIParts
<1> HIDE DEF Of
<1>4. t = [i \in DOMAIN m.blocks |-> t[i]] /\ \A i \in DOMAIN m.blocks : AreBlocks(t[i]) BY <1>1, <1>2
<1> HIDE DEF t
<1> QED BY <1>1, <1>3, <1>4, FlatBlocks

LEMMA ClaudePartsAre ==
    ASSUME NEW m, AreBlocks(m.blocks), NEW msgs, NEW model, NEW declared, NEW cache
    PROVE  AreBlocks(ClaudeParts(m, msgs, model, declared, cache))
<1> DEFINE Before_(i) == {j \in 1..(i - 1) : m.blocks[j].kind = "thought"}
           Last_(i) == IF Before_(i) = {} THEN None
                       ELSE m.blocks[CHOOSE j \in Before_(i) : \A k \in Before_(i) : k <= j].sig
           Of(i) == LET b == m.blocks[i]
                    IN  CASE b.kind = "call" -> <<CallPart(b, Last_(i), model, declared, cache)>>
                          [] b.kind = "result" -> ResultParts(b, msgs, declared)
                          [] b.kind = "thought" /\ b.what = <<>> -> <<>>
                          [] OTHER -> <<b>>
           t == [i \in DOMAIN m.blocks |-> Of(i)]
<1>1. IsSeq(m.blocks) /\ \A i \in DOMAIN m.blocks : IsBlock(m.blocks[i]) BY DEF AreBlocks, ToSet
<1>2. ASSUME NEW i \in DOMAIN m.blocks PROVE AreBlocks(Of(i))
  <2> DEFINE b == m.blocks[i]
             last == Last_(i)
  <2>1. IsBlock(b) BY <1>1
  <2>2. CASE b.kind = "call"
    <3> HIDE DEF Last_
    <3>1. Of(i) = <<CallPart(b, last, model, declared, cache)>> BY <2>2
    <3> HIDE DEF Of, b, last
    <3> QED BY <2>1, <2>2, <3>1, CallPartIs
  <2>3. CASE b.kind = "result"
    <3> HIDE DEF Last_
    <3>1. Of(i) = ResultParts(b, msgs, declared) BY <2>3
    <3> HIDE DEF Of, b
    <3> QED BY <2>1, <2>3, <3>1, ResultPartsAre
  <2>4. CASE b.kind = "thought" /\ b.what = <<>>
    <3> HIDE DEF Last_
    <3>1. Of(i) = <<>> BY <2>4
    <3> HIDE DEF Of
    <3> QED BY <3>1, NoBlocks
  <2>5. CASE b.kind \notin {"call", "result"} /\ ~(b.kind = "thought" /\ b.what = <<>>)
    <3> HIDE DEF Last_
    <3>1. Of(i) = <<b>> BY <2>5
    <3> HIDE DEF Of, b
    <3> QED BY <2>1, <3>1, OneBlock
  <2> QED BY <2>2, <2>3, <2>4, <2>5
<1>3. ClaudeParts(m, msgs, model, declared, cache) = FlattenSeq(t) BY DEF ClaudeParts
<1> HIDE DEF Of
<1>4. t = [i \in DOMAIN m.blocks |-> t[i]] /\ \A i \in DOMAIN m.blocks : AreBlocks(t[i]) BY <1>2
<1> HIDE DEF t
<1> QED BY <1>1, <1>3, <1>4, FlatBlocks

\* What is sent of a conversation, before it is adapted to its model.
LEMMA ContentsAre ==
    ASSUME NEW msgs, IsConversation(msgs), NEW d, NEW model, NEW declared, NEW cache
    PROVE  /\ AreContents(Contents(d, msgs, model, declared, cache))
           /\ \A p \in PartsIn(Contents(d, msgs, model, declared, cache)) : IsBlock(p)
<1> DEFINE Of(m) == IF IsSystem(m) THEN <<>>
                    ELSE IF d = "claude" THEN ClaudeParts(m, msgs, model, declared, cache)
                    ELSE OpenAIParts(IF d = "responses" THEN ItemMessage(m) ELSE m, msgs, model, declared, cache)
           Role(m) == IF m.role = "assistant" THEN "model" ELSE "user"
           t == [i \in DOMAIN msgs |-> [role |-> Role(msgs[i]), parts |-> Of(msgs[i])]]
           merged == MergeContents(t)
           b == Block("text", <<>>, None, None, None)
<1>1. Contents(d, msgs, model, declared, cache) = IF merged = <<>> THEN <<Blank>> ELSE merged
  BY DEF Contents
<1>2. IsSeq(msgs) /\ \A i \in DOMAIN msgs : IsMessage(msgs[i]) BY DEF IsConversation, ToSet
<1>3. ASSUME NEW m, IsMessage(m) PROVE AreBlocks(Of(m))
  <2> DEFINE x == IF d = "responses" THEN ItemMessage(m) ELSE m
  <2>1. AreBlocks(m.blocks) BY <1>3 DEF IsMessage
  <2>2. AreBlocks(x.blocks)
    <3>1. m = [role |-> m.role, sig |-> m.sig, blocks |-> m.blocks] BY <1>3 DEF IsMessage
    <3>2. ItemMessage(m).blocks = m.blocks BY <3>1 DEF ItemMessage
    <3> QED BY <2>1, <3>2
  <2> HIDE DEF x
  <2>3. AreBlocks(ClaudeParts(m, msgs, model, declared, cache)) BY <2>1, ClaudePartsAre
  <2>4. AreBlocks(OpenAIParts(x, msgs, model, declared, cache)) BY <2>2, OpenAIPartsAre
  <2>5. Of(m) \in {<<>>, ClaudeParts(m, msgs, model, declared, cache),
                   OpenAIParts(x, msgs, model, declared, cache)}
    BY DEF x
  <2> HIDE DEF Of
  <2> QED BY <2>3, <2>4, <2>5, NoBlocks
<1> HIDE DEF Of, Role
<1>4. t = [i \in DOMAIN msgs |-> t[i]] /\ DOMAIN t = DOMAIN msgs OBVIOUS
<1>5. \A i \in DOMAIN t : IsContent(t[i]) /\ \A p \in ToSet(t[i].parts) : IsBlock(p)
  <2> SUFFICES ASSUME NEW i \in DOMAIN msgs
               PROVE  IsContent(t[i]) /\ \A p \in ToSet(t[i].parts) : IsBlock(p)
    BY <1>4
  <2> DEFINE c == t[i]
             q == Of(msgs[i])
             r == Role(msgs[i])
  <2>1. c = [role |-> r, parts |-> q] OBVIOUS
  <2>2. AreBlocks(q) BY <1>2, <1>3
  <2> HIDE DEF c, q, r
  <2>3. IsContent(c) /\ \A p \in ToSet(c.parts) : IsBlock(p) BY <2>1, <2>2 DEF IsContent, AreBlocks
  <2> QED BY <2>3 DEF c
<1> HIDE DEF t
<1>6. AreContents(t) BY <1>2, <1>4, <1>5, MapSeq DEF AreContents
<1>7. AreContents(merged) /\ \A p \in PartsIn(merged) : IsBlock(p)
  <2>1. PartsIn(merged) \subseteq PartsIn(t) /\ AreContents(merged) BY <1>6, MergeLemma
  <2> QED BY <1>5, <2>1 DEF PartsIn
<1>8. AreContents(<<Blank>>) /\ \A p \in PartsIn(<<Blank>>) : IsBlock(p)
  <2> DEFINE c == Blank
             q == <<b>>
  <2>1. c = [role |-> "user", parts |-> q] BY DEF Blank
  <2>2. AreBlocks(q) BY MadeBlock, OneBlock
  <2> HIDE DEF c, q
  <2>3. IsContent(c) /\ \A p \in ToSet(c.parts) : IsBlock(p) BY <2>1, <2>2 DEF IsContent, AreBlocks
  <2>4. DOMAIN <<c>> = {1} /\ <<c>>[1] = c OBVIOUS
  <2>5. AreContents(<<c>>) BY <2>3, <2>4, OneElement DEF AreContents
  <2>6. PartsIn(<<c>>) = ToSet(c.parts) BY <2>4 DEF PartsIn
  <2> QED BY <2>3, <2>5, <2>6 DEF c
<1> HIDE DEF merged
<1> QED BY <1>1, <1>7, <1>8

\* The contents with each part sanitized.
IsCleaned(t, s, m, thinking) ==
  /\ t = [i \in DOMAIN s |-> t[i]]
  /\ \A i \in DOMAIN s : t[i] = [s[i] EXCEPT !.parts =
                                   [k \in DOMAIN s[i].parts |-> Sanitized(s[i].parts[k], m, thinking)]]

LEMMA CleanedAre ==
    ASSUME NEW s, AreContents(s), NEW m, NEW thinking, NEW t, IsCleaned(t, s, m, thinking)
    PROVE  AreContents(t) /\ \A p \in PartsIn(t) : \E q \in PartsIn(s) : p = Sanitized(q, m, thinking)
<1>1. IsSeq(s) /\ \A i \in DOMAIN s : IsContent(s[i]) BY DEF AreContents
<1>2. IsSeq(t) /\ DOMAIN t = DOMAIN s BY <1>1, MapSeq DEF IsCleaned
<1>3. ASSUME NEW i \in DOMAIN s
      PROVE  IsContent(t[i]) /\ \A p \in ToSet(t[i].parts) : \E q \in ToSet(s[i].parts) : p = Sanitized(q, m, thinking)
  <2> DEFINE c == s[i]
             ps == c.parts
             r == [k \in DOMAIN ps |-> Sanitized(ps[k], m, thinking)]
  <2>1. c = [role |-> c.role, parts |-> ps] /\ IsSeq(ps) BY <1>1 DEF IsContent
  <2>2. t[i] = [c EXCEPT !.parts = r] BY DEF IsCleaned
  <2>3. r = [k \in DOMAIN ps |-> r[k]] /\ \A k \in DOMAIN ps : r[k] = Sanitized(ps[k], m, thinking) OBVIOUS
  <2>4. \A k \in DOMAIN ps : ps[k] \in ToSet(ps) BY DEF ToSet
  <2> HIDE DEF r, ps
  <2>5. IsSeq(r) /\ ToSet(r) = {r[k] : k \in DOMAIN ps} BY <2>1, <2>3, MapSeq
  <2>6. \A p \in ToSet(r) : \E q \in ToSet(ps) : p = Sanitized(q, m, thinking) BY <2>3, <2>4, <2>5
  <2>7. t[i] = [role |-> c.role, parts |-> r] BY <2>1, <2>2
  <2> HIDE DEF c
  <2>8. t[i].parts = r /\ t[i] = [role |-> t[i].role, parts |-> t[i].parts] BY <2>7
  <2>9. IsContent(t[i]) BY <2>5, <2>8 DEF IsContent
  <2>10. \A p \in ToSet(t[i].parts) : \E q \in ToSet(ps) : p = Sanitized(q, m, thinking) BY <2>6, <2>8
  <2> QED BY <2>9, <2>10 DEF ps, c
<1>4. AreContents(t) BY <1>2, <1>3 DEF AreContents
<1>5. ASSUME NEW p \in PartsIn(t) PROVE \E q \in PartsIn(s) : p = Sanitized(q, m, thinking)
  <2>1. PICK i \in DOMAIN s : p \in ToSet(t[i].parts) BY <1>2 DEF PartsIn
  <2>2. PICK q \in ToSet(s[i].parts) : p = Sanitized(q, m, thinking) BY <1>3, <2>1
  <2> QED BY <2>2 DEF PartsIn
<1> QED BY <1>4, <1>5

-----------------------------------------------------------------------------
(* What is asked of thinking and of tokens. *)

LEMMA Budgets ==
    ASSUME NEW m
    PROVE  /\ DefaultThinkingBudget(m) \in Nat /\ BudgetCap(m) \in Nat
           /\ MaxOutputTokens(m) \in Nat /\ MaxOutputTokens(m) > 0
           /\ \A level : ThinkingBudgetFromLevel(m, level) \in Int
<1>1. DefaultThinkingBudget(m) \in Nat BY DEF DefaultThinkingBudget
<1>2. MaxOutputTokens(m) \in Nat /\ MaxOutputTokens(m) > 0 BY DEF MaxOutputTokens
<1>3. BudgetCap(m) \in Nat BY <1>1 DEF BudgetCap
<1>4. \A level : ThinkingBudgetFromLevel(m, level) \in Int
  BY <1>1 DEF ThinkingBudgetFromLevel, Larger
<1> QED BY <1>1, <1>2, <1>3, <1>4

\* Whether a thinkingConfig does what was asked.
Thinks(t, s, m) ==
  /\ t \in ThinkingConfigs \cup {None}
  /\ s.thinking = "disabled" \/ s.effort = "none" => t = None \/ (~t.on /\ t.budget = 0 /\ t.level = None)
  /\ s.thinking \in {"enabled", "adaptive"} /\ s.effort # "none" /\ m \in Gemini /\ ~IsImageModel(m) =>
       t # None /\ t.on

LEMMA ThinksAtFirst == ASSUME NEW s \in Settings, NEW m PROVE Thinks(ThinkingConfig(m, s), s, m)
<1> DEFINE t == ThinkingConfig(m, s)
           enabled == /\ s.effort # "none"
                      /\ s.effort # None \/ s.thinking \in {"enabled", "adaptive"} \/ IsThinkingModel(m)
           budget == IF s.effort # None THEN ThinkingBudgetFromLevel(m, s.effort)
                     ELSE Or(s.budget, DefaultThinkingBudget(m))
           level == IF s.effort \in {None, "max"} THEN "high" ELSE s.effort
           adaptive == [on |-> TRUE, budget |-> None, level |-> level]
<1>1. None \notin ThinkingConfigs BY SettingsAssumption
<1>2. s.budget \in Int \cup {None} BY SettingsAssumption
<1>3. budget \in Int \cup {None} BY <1>2, Budgets DEF Or
<1>4. level \in {r.effort : r \in Settings} \cup {"high", None} OBVIOUS
<1>5. t = IF s.thinking = "disabled" THEN ThinkingOff
          ELSE IF IsImageModel(m) THEN None
          ELSE IF ~enabled THEN IF s.thinking # None \/ s.effort # None THEN ThinkingOff ELSE None
          ELSE IF s.thinking = "adaptive" /\ m \in Claude THEN adaptive
          ELSE ThinkingOn(budget)
  BY DEF ThinkingConfig
<1>6. enabled => s.effort # "none" OBVIOUS
<1>7. s.thinking \in {"enabled", "adaptive"} /\ s.effort # "none" => enabled OBVIOUS
<1> HIDE DEF t, enabled, budget, level
<1>8. ThinkingOff \in ThinkingConfigs /\ ~ThinkingOff.on /\ ThinkingOff.budget = 0 /\ ThinkingOff.level = None
  BY DEF ThinkingOff, ThinkingConfigs
<1>9. ThinkingOn(budget) \in ThinkingConfigs /\ ThinkingOn(budget).on
  BY <1>3 DEF ThinkingOn, ThinkingConfigs
<1>10. adaptive \in ThinkingConfigs /\ adaptive.on BY <1>4 DEF ThinkingConfigs
<1> HIDE DEF adaptive
<1>11. t \in ThinkingConfigs \cup {None} BY <1>5, <1>8, <1>9, <1>10
<1>12. ASSUME s.thinking = "disabled" \/ s.effort = "none" PROVE t = None \/ t = ThinkingOff
  BY <1>5, <1>6, <1>12
<1>13. ASSUME s.thinking \in {"enabled", "adaptive"}, s.effort # "none", ~IsImageModel(m)
       PROVE  t = adaptive \/ t = ThinkingOn(budget)
  BY <1>5, <1>7, <1>13
<1> QED BY <1>1, <1>8, <1>9, <1>10, <1>11, <1>12, <1>13 DEF Thinks, t

\* A thinkingConfig that is off is not enabled, one that is on is.
LEMMA ThinksEnabled ==
    ASSUME NEW t, NEW s, NEW m, Thinks(t, s, m)
    PROVE  /\ s.thinking = "disabled" \/ s.effort = "none" => ~Enabled(t)
           /\ s.thinking \in {"enabled", "adaptive"} /\ s.effort # "none" /\ m \in Gemini /\ ~IsImageModel(m) =>
                Enabled(t)
<1>1. t = None \/ (~t.on /\ t.budget = 0 /\ t.level = None) => ~Enabled(t) BY DEF Enabled
<1>2. t # None /\ t.on => Enabled(t) BY DEF Enabled
<1> QED BY <1>1, <1>2 DEF Thinks

\* Variants think as their tier does, if they think at all.
LEMMA CalibrateThinks ==
    ASSUME NEW s, NEW m, NEW gen, Thinks(gen.thinking, s, m), gen = [max |-> gen.max, thinking |-> gen.thinking],
           gen.max \in Int \cup {None}, NEW name
    PROVE  LET g == Calibrate(gen, name, m)
           IN  /\ g = [max |-> g.max, thinking |-> g.thinking] /\ g.max \in Int \cup {None}
               /\ Thinks(g.thinking, s, m)
<1> DEFINE on == ThinkingOn(DefaultThinkingBudget(m))
           c == [max |-> MaxOutputTokens(m), thinking |-> on]
           g == Calibrate(gen, name, m)
<1>1. CASE ~Enabled(gen.thinking) BY <1>1 DEF Calibrate
<1>2. CASE Enabled(gen.thinking)
  <2>1. g = gen \/ g = c BY DEF Calibrate
  <2>2. on \in ThinkingConfigs /\ on.on BY Budgets DEF ThinkingOn, ThinkingConfigs
  <2>3. on # None BY <2>2, SettingsAssumption
  <2>4. ~(s.thinking = "disabled" \/ s.effort = "none") BY <1>2, ThinksEnabled
  <2> HIDE DEF on
  <2>5. Thinks(on, s, m) BY <2>2, <2>3, <2>4 DEF Thinks
  <2>6. c.max \in Int /\ c.thinking = on /\ c = [max |-> c.max, thinking |-> c.thinking] BY Budgets
  <2> HIDE DEF c, g
  <2> QED BY <2>1, <2>5, <2>6 DEF g
<1> QED BY <1>1, <1>2

\* Another budget, if thinking is not off.
LEMMA BudgetThinks ==
    ASSUME NEW s, NEW m, NEW t, Thinks(t, s, m), t # None, NEW x \in Int,
           s.thinking = "disabled" \/ s.effort = "none" => x = 0
    PROVE  /\ Thinks([t EXCEPT !.budget = x], s, m)
           /\ [t EXCEPT !.budget = x].budget = x
<1> DEFINE r == [t EXCEPT !.budget = x]
<1>1. t \in ThinkingConfigs BY DEF Thinks
<1>2. r \in ThinkingConfigs /\ r.on = t.on /\ r.budget = x /\ r.level = t.level BY <1>1 DEF ThinkingConfigs
<1> HIDE DEF r
<1>3. r # None BY <1>2, SettingsAssumption
<1>4. s.thinking = "disabled" \/ s.effort = "none" => ~r.on /\ r.budget = 0 /\ r.level = None
  BY <1>2 DEF Thinks
<1>5. s.thinking \in {"enabled", "adaptive"} /\ s.effort # "none" /\ m \in Gemini /\ ~IsImageModel(m) =>
         r # None /\ r.on
  BY <1>2, <1>3 DEF Thinks
<1>6. Thinks(r, s, m) BY <1>2, <1>4, <1>5 DEF Thinks
<1> QED BY <1>2, <1>6 DEF r

\* A level that becomes a budget.
LEMMA LevelThinks == ASSUME NEW s, NEW m, NEW t, Thinks(t, s, m) PROVE Thinks(Levelled(m, t), s, m)
<1>1. CASE t = None \/ t.level = None \/ m \in Claude BY <1>1 DEF Levelled
<1>2. CASE ~(t = None \/ t.level = None \/ m \in Claude)
  <2> DEFINE x == Or(t.budget, ThinkingBudgetFromLevel(m, t.level))
             level == None
             r == [t EXCEPT !.level = level, !.budget = x]
  <2>1. Levelled(m, t) = r BY <1>2 DEF Levelled
  <2>2. t \in ThinkingConfigs BY <1>2 DEF Thinks
  <2>3. x \in Int \cup {None}
    <3>1. t.budget \in Int \cup {None} BY <2>2 DEF ThinkingConfigs
    <3> QED BY <3>1, Budgets DEF Or
  <2>4. level \in {p.effort : p \in Settings} \cup {"high", None} OBVIOUS
  <2> HIDE DEF x, level
  <2>5. r \in ThinkingConfigs /\ r.on = t.on BY <2>2, <2>3, <2>4 DEF ThinkingConfigs
  <2> HIDE DEF r
  <2>6. r # None BY <2>5, SettingsAssumption
  <2>7. ~(s.thinking = "disabled" \/ s.effort = "none") BY <1>2 DEF Thinks
  <2>8. Thinks(r, s, m) BY <2>5, <2>6, <2>7 DEF Thinks
  <2> QED BY <2>1, <2>8
<1> QED BY <1>1, <1>2

\* What is asked upstream of thinking and tokens does what a client asked for,
\* and leaves room for the answer.
Generates(g, s, m) ==
  /\ g = [max |-> g.max, thinking |-> g.thinking]
  /\ Thinks(g.thinking, s, m)
  /\ ~IsImageModel(m) => /\ g.max \in Int /\ 0 < g.max /\ g.max <= MaxOutputTokens(m)
                         /\ g.thinking # None /\ g.thinking.budget # None => g.thinking.budget < g.max

LEMMA NormalGenerates ==
    ASSUME NEW s, NEW m, NEW gen, Thinks(gen.thinking, s, m), gen = [max |-> gen.max, thinking |-> gen.thinking],
           gen.max \in Int \cup {None}
    PROVE  Generates(NormalizeGeneration(m, gen), s, m)
<1>1. CASE IsImageModel(m)
  <2>1. NormalizeGeneration(m, gen) = gen BY <1>1 DEF NormalizeGeneration
  <2> QED BY <1>1, <2>1 DEF Generates
<1>2. CASE ~IsImageModel(m)
  <2> DEFINE most == MaxOutputTokens(m)
             asked_ == IF gen.max = None \/ gen.max <= 0 \/ gen.max > most THEN most ELSE gen.max
             t == Levelled(m, gen.thinking)
             cap == BudgetCap(m)
             capped == IF t.budget > cap /\ cap > 0 THEN cap ELSE t.budget
             raised == capped + 8192
             g == NormalizeGeneration(m, gen)
             With(n, x) == [max |-> n, thinking |-> [t EXCEPT !.budget = x]]
             plain == [max |-> asked_, thinking |-> t]
  <2>1. most \in Nat /\ most > 0 /\ cap \in Nat BY Budgets
  <2> HIDE DEF most, cap
  <2>2. asked_ \in Int /\ asked_ > 0 /\ asked_ <= most BY <2>1
  <2>3. Thinks(t, s, m) BY LevelThinks
  <2>4. g = IF t = None \/ t.budget = None THEN plain
            ELSE IF capped < asked_ THEN With(asked_, capped)
            ELSE IF raised <= most THEN With(raised, capped)
            ELSE With(most, most - 8192)
    BY <1>2 DEF NormalizeGeneration, most, cap
  <2> HIDE DEF t, asked_, g
  <2>5. CASE t = None \/ t.budget = None
    <3>1. g = plain BY <2>4, <2>5
    <3>2. plain.max = asked_ /\ plain.thinking = t /\ plain = [max |-> plain.max, thinking |-> plain.thinking]
      OBVIOUS
    <3> HIDE DEF plain
    <3>3. Generates(g, s, m) BY <2>2, <2>3, <2>5, <3>1, <3>2 DEF Generates, most
    <3> QED BY <3>3 DEF g
  <2>6. CASE t # None /\ t.budget # None
    <3>1. t.budget \in Int BY <2>3, <2>6 DEF Thinks, ThinkingConfigs
    <3>2. capped \in Int BY <2>1, <3>1
    <3>3. s.thinking = "disabled" \/ s.effort = "none" => capped = 0
      <4>1. s.thinking = "disabled" \/ s.effort = "none" => t.budget = 0 BY <2>3, <2>6 DEF Thinks
      <4> QED BY <2>1, <4>1
    <3> HIDE DEF capped
    <3>4. ASSUME NEW n \in Int, NEW x \in Int, x < n, 0 < n, n <= most,
                 s.thinking = "disabled" \/ s.effort = "none" => x = 0
          PROVE  Generates(With(n, x), s, m)
      <4> DEFINE r == [t EXCEPT !.budget = x]
                 w == With(n, x)
      <4>1. Thinks(r, s, m) /\ r.budget = x BY <2>3, <2>6, <3>4, BudgetThinks
      <4>2. w.max = n /\ w.thinking = r /\ w = [max |-> w.max, thinking |-> w.thinking] OBVIOUS
      <4> HIDE DEF w, r
      <4>3. Generates(w, s, m) BY <3>4, <4>1, <4>2 DEF Generates, most
      <4> QED BY <4>3 DEF w
    <3> HIDE DEF With
    <3>5. CASE capped < asked_
      <4>1. g = With(asked_, capped) BY <2>4, <2>6, <3>5
      <4>2. Generates(With(asked_, capped), s, m) BY <2>2, <3>2, <3>3, <3>4, <3>5
      <4> QED BY <4>1, <4>2 DEF g
    <3>6. CASE ~(capped < asked_)
      <4>1. capped > 0 BY <2>2, <3>2, <3>6
      <4>2. ~(s.thinking = "disabled" \/ s.effort = "none") BY <3>2, <3>3, <4>1
      <4>3. CASE raised <= most
        <5>1. g = With(raised, capped) BY <2>4, <2>6, <3>6, <4>3
        <5>2. raised \in Int /\ 0 < raised /\ capped < raised BY <3>2, <4>1
        <5>3. Generates(With(raised, capped), s, m) BY <3>2, <3>4, <4>2, <4>3, <5>2
        <5> QED BY <5>1, <5>3 DEF g
      <4>4. CASE ~(raised <= most)
        <5>1. g = With(most, most - 8192) BY <2>4, <2>6, <3>6, <4>4
        <5>2. most - 8192 \in Int /\ most - 8192 < most /\ most <= most BY <2>1
        <5>3. Generates(With(most, most - 8192), s, m) BY <2>1, <3>4, <4>2, <5>2
        <5> QED BY <5>1, <5>3 DEF g
      <4> QED BY <4>3, <4>4
    <3> QED BY <3>5, <3>6
  <2> QED BY <2>5, <2>6
<1> QED BY <1>1, <1>2

\* Thinking turned off, for a history that lacks signatures.
LEMMA OffGenerates ==
    ASSUME NEW g, NEW s, NEW m, Generates(g, s, m), m \notin Gemini
    PROVE  Thinks(ThinkingOff, s, m)
<1>1. ThinkingOff \in ThinkingConfigs /\ ~ThinkingOff.on /\ ThinkingOff.budget = 0 /\ ThinkingOff.level = None
  BY DEF ThinkingOff, ThinkingConfigs
<1> QED BY <1>1 DEF Thinks

-----------------------------------------------------------------------------
(* The request that is sent. *)

\* A part that a model which does or does not think accepts.
IsAuthentic(p, m, thinks) ==
  /\ m \in Claude => /\ p.sig # Sentinel
                     /\ p.kind = "thought" => IsReal(p.sig)
                     /\ p.kind = "call" /\ thinks => IsReal(p.sig)
  /\ m \in Gemini /\ p.kind = "call" => p.sig # None

LEMMA Disjoint == Claude \cap Gemini = {} BY DEF Claude, Gemini

LEMMA SanitizedIs ==
    ASSUME NEW q, IsBlock(q), NEW m, NEW thinks \in BOOLEAN, NEW on \in BOOLEAN, on => thinks,
           m \in Claude /\ thinks /\ q.kind = "call" => IsReal(q.sig)
    PROVE  /\ IsAuthentic(Sanitized(q, m, on), m, thinks)
           /\ ~on => Sanitized(q, m, on).kind # "thought"
<1> DEFINE p == Sanitized(q, m, on)
           prose == q.kind = "thought" /\ (~on \/ (m \notin Gemini /\ ~IsReal(q.sig)))
           signed == q.kind \in {"thought", "call"} /\ m \in Gemini
           bared == q.kind = "call" /\ q.sig = Sentinel
           Changed(kind, sig) == [kind |-> kind, what |-> q.what, id |-> q.id, name |-> q.name,
                                  sig |-> sig, media |-> q.media]
<1>1. q = Changed(q.kind, q.sig) BY DEF IsBlock
<1>2. p = IF prose THEN [q EXCEPT !.kind = "text", !.sig = None]
          ELSE IF signed THEN [q EXCEPT !.sig = Or(q.sig, Sentinel)]
          ELSE IF bared THEN [q EXCEPT !.sig = None]
          ELSE q
  BY DEF Sanitized
<1> HIDE DEF p
<1>3. CASE prose
  <2>1. p.kind = "text" /\ p.sig = None BY <1>1, <1>2, <1>3
  <2>2. p.sig # Sentinel BY <2>1, SentinelAssumption
  <2>3. IsAuthentic(p, m, thinks) BY <2>1, <2>2 DEF IsAuthentic
  <2> QED BY <2>1, <2>3 DEF p
<1>4. CASE ~prose /\ signed
  <2>1. p.kind = q.kind /\ p.sig = Or(q.sig, Sentinel) BY <1>1, <1>2, <1>4
  <2>2. p.sig # None BY <2>1, SentinelAssumption DEF Or
  <2>3. m \notin Claude BY <1>4, Disjoint
  <2>4. IsAuthentic(p, m, thinks) BY <2>2, <2>3 DEF IsAuthentic
  <2>5. ~on => p.kind # "thought" BY <1>4, <2>1
  <2> QED BY <2>4, <2>5 DEF p
<1>5. CASE ~prose /\ ~signed /\ bared
  <2>1. p.kind = "call" /\ p.sig = None BY <1>1, <1>2, <1>5
  <2>2. p.sig # Sentinel BY <2>1, SentinelAssumption
  <2>3. m \notin Gemini BY <1>5
  <2>4. ~(m \in Claude /\ thinks) BY <1>5 DEF IsReal
  <2>5. IsAuthentic(p, m, thinks) BY <2>1, <2>2, <2>3, <2>4 DEF IsAuthentic
  <2> QED BY <2>1, <2>5 DEF p
<1>6. CASE ~prose /\ ~signed /\ ~bared
  <2>1. p = q BY <1>2, <1>6
  <2>2. q.kind = "thought" => on /\ IsReal(q.sig) BY <1>6
  <2>3. q.sig # Sentinel
    <3>1. q.kind = "call" => q.sig # Sentinel BY <1>6
    <3>2. q.kind \notin {"call", "thought"} => q.sig = None BY DEF IsBlock
    <3> QED BY <2>2, <3>1, <3>2, SentinelAssumption DEF IsReal
  <2>4. q.kind = "call" => m \notin Gemini BY <1>6
  <2>5. IsAuthentic(q, m, thinks) BY <2>2, <2>3, <2>4 DEF IsAuthentic
  <2> QED BY <2>1, <2>2, <2>5 DEF p
<1> QED BY <1>3, <1>4, <1>5, <1>6

\* A request upstream that its model accepts, and that asks of thinking what
\* its client, in the settings s, asked for.
IsSound(r, s) ==
  /\ AreContents(r.contents)
  /\ \A p \in PartsIn(r.contents) : /\ IsAuthentic(p, r.model, Enabled(r.gen.thinking))
                                    /\ ~Enabled(r.gen.thinking) => p.kind # "thought"
  /\ Generates(r.gen, s, r.model)

\* Whatever the conversation is, what is sent of it is sound.
LEMMA ConvertIsSound ==
    ASSUME NEW d, NEW msgs, IsConversation(msgs), NEW name, NEW s \in Settings, NEW m, NEW cache
    PROVE  IsSound(Convert(d, msgs, name, s, Tools, m, cache), s)
<1> DEFINE contents == Contents(d, msgs, m, FlattenTools(Tools), cache)
           first == [max |-> s.max, thinking |-> ThinkingConfig(m, s)]
           tiered == Calibrate(first, name, m)
           gen == NormalizeGeneration(m, tiered)
           disabled == m \in Claude /\ Enabled(gen.thinking) /\ Unsigned(contents)
           thinking == IF disabled THEN ThinkingOff ELSE gen.thinking
           on == Enabled(thinking) /\ ~IsImageModel(m)
           t == [i \in DOMAIN contents |->
                   [contents[i] EXCEPT !.parts = [k \in DOMAIN contents[i].parts |-> Sanitized(contents[i].parts[k], m, on)]]]
           r == Convert(d, msgs, name, s, Tools, m, cache)
<1>1. r.model = m /\ r.contents = MergeContents(t) /\ r.gen = [gen EXCEPT !.thinking = thinking]
  BY DEF Convert
<1>2. AreContents(contents) /\ \A p \in PartsIn(contents) : IsBlock(p) BY ContentsAre
<1> HIDE DEF r, contents
<1>3. Generates(gen, s, m)
  <2>1. /\ first = [max |-> first.max, thinking |-> first.thinking]
        /\ first.max = s.max /\ first.thinking = ThinkingConfig(m, s)
    OBVIOUS
  <2>2. first.max \in Int \cup {None} BY <2>1, SettingsAssumption
  <2>3. Thinks(first.thinking, s, m) BY <2>1, ThinksAtFirst
  <2> HIDE DEF first
  <2>4. /\ tiered = [max |-> tiered.max, thinking |-> tiered.thinking] /\ tiered.max \in Int \cup {None}
        /\ Thinks(tiered.thinking, s, m)
    BY <2>1, <2>2, <2>3, CalibrateThinks
  <2> HIDE DEF tiered
  <2> QED BY <2>4, NormalGenerates
<1> HIDE DEF gen, first, tiered
<1>4. r.gen.thinking = thinking /\ r.gen.max = gen.max /\ r.gen = [max |-> r.gen.max, thinking |-> r.gen.thinking]
  BY <1>1, <1>3 DEF Generates
<1>5. Generates(r.gen, s, m)
  <2>1. CASE disabled
    <3>1. Thinks(ThinkingOff, s, m) BY <1>3, <2>1, Disjoint, OffGenerates
    <3>2. r.gen.thinking = ThinkingOff BY <1>4, <2>1
    <3>3. ThinkingOff.budget = 0 BY DEF ThinkingOff
    <3> QED BY <1>3, <1>4, <3>1, <3>2, <3>3 DEF Generates
  <2>2. CASE ~disabled
    <3>1. r.gen.thinking = gen.thinking BY <1>4, <2>2
    <3> QED BY <1>3, <1>4, <3>1 DEF Generates
  <2> QED BY <2>1, <2>2
<1>6. m \in Claude /\ Enabled(thinking) => \A q \in PartsIn(contents) : q.kind = "call" => IsReal(q.sig)
  <2> SUFFICES ASSUME m \in Claude, Enabled(thinking), NEW q \in PartsIn(contents), q.kind = "call"
               PROVE  IsReal(q.sig)
    OBVIOUS
  <2>1. ~Enabled(ThinkingOff) BY DEF Enabled, ThinkingOff
  <2>2. ~disabled BY <2>1
  <2>3. ~Unsigned(contents) BY <2>2
  <2>4. PICK i \in DOMAIN contents : q \in ToSet(contents[i].parts) BY DEF PartsIn
  <2> HIDE DEF thinking
  <2> QED BY <2>3, <2>4 DEF Unsigned
<1>7. Enabled(thinking) \in BOOLEAN /\ on \in BOOLEAN /\ (on => Enabled(thinking)) BY DEF Enabled
<1> HIDE DEF thinking, on
<1>8. IsCleaned(t, contents, m, on)
  <2>1. t = [i \in DOMAIN contents |-> t[i]] OBVIOUS
  <2>2. \A i \in DOMAIN contents :
          t[i] = [contents[i] EXCEPT !.parts =
                    [k \in DOMAIN contents[i].parts |-> Sanitized(contents[i].parts[k], m, on)]]
    OBVIOUS
  <2> HIDE DEF t
  <2> QED BY <2>1, <2>2 DEF IsCleaned
<1> HIDE DEF t
<1>9. AreContents(t) /\ \A p \in PartsIn(t) : \E q \in PartsIn(contents) : p = Sanitized(q, m, on)
  BY <1>2, <1>8, CleanedAre
<1>10. AreContents(r.contents) /\ PartsIn(r.contents) \subseteq PartsIn(t) BY <1>1, <1>9, MergeLemma
<1>11. ASSUME NEW p \in PartsIn(r.contents)
       PROVE  /\ IsAuthentic(p, r.model, Enabled(r.gen.thinking))
              /\ ~Enabled(r.gen.thinking) => p.kind # "thought"
  <2>1. PICK q \in PartsIn(contents) : p = Sanitized(q, m, on) BY <1>9, <1>10
  <2>2. IsBlock(q) /\ (m \in Claude /\ Enabled(thinking) /\ q.kind = "call" => IsReal(q.sig)) BY <1>2, <1>6
  <2>3. IsAuthentic(p, m, Enabled(thinking)) /\ (~on => p.kind # "thought") BY <1>7, <2>1, <2>2, SanitizedIs
  <2> QED BY <1>1, <1>4, <1>7, <2>3
<1>12. Generates(r.gen, s, r.model) BY <1>1, <1>5
<1>13. IsSound(r, s) BY <1>10, <1>11, <1>12 DEF IsSound
<1> QED BY <1>13 DEF r

SentInv == Sent => asked \in Settings /\ IsSound(request, asked)

\* What a request that is sound says of the two properties.
LEMMA SoundRequests ==
    ASSUME SentInv PROVE CallsAreAuthentic /\ ThinkingIsAsAsked
<1> SUFFICES ASSUME Sent PROVE CallsAreAuthentic /\ ThinkingIsAsAsked
  BY DEF CallsAreAuthentic, ThinkingIsAsAsked
<1> DEFINE r == request
<1>1. IsSound(r, asked) BY DEF SentInv
<1>2. ToSet(PartsSent) = PartsIn(r.contents) BY <1>1, PartsLemma DEF PartsSent, IsSound
<1>3. \A p \in ToSet(PartsSent) : /\ IsAuthentic(p, r.model, Enabled(r.gen.thinking))
                                  /\ ~Enabled(r.gen.thinking) => p.kind # "thought"
  BY <1>1, <1>2 DEF IsSound
<1>4. CallsAreAuthentic BY <1>3 DEF IsAuthentic, CallsAreAuthentic
<1>5. Generates(r.gen, asked, r.model) /\ Thinks(r.gen.thinking, asked, r.model)
  BY <1>1 DEF IsSound, Generates
<1>6. ThinkingIsAsAsked
  BY <1>3, <1>5, ThinksEnabled DEF ThinkingIsAsAsked, Generates
<1> QED BY <1>4, <1>6

LEMMA SendsSound == ASSUME NEW msgs, IsConversation(msgs), Sends(msgs) PROVE SentInv'
<1>1. PICK s \in Settings, roll \in Rolls, offer \in Offers :
        /\ request' = Convert(dialect, msgs, Used(requested, roll), s, Tools,
                              Route(Used(requested, roll), s, offer), signatures)
        /\ asked' = s
  BY DEF Sends
<1>2. IsSound(request', asked') BY <1>1, ConvertIsSound
<1> QED BY <1>1, <1>2 DEF SentInv

LEMMA SentSame == ASSUME SentInv, UNCHANGED sentVars PROVE SentInv'
  BY DEF SentInv, sentVars, Sent

LEMMA SentStep == ExchangeInv /\ SentInv /\ [ExchangeNext]_<<vars, exchangeVars>> => SentInv'
<1> SUFFICES ASSUME ExchangeInv, SentInv, [ExchangeNext]_<<vars, exchangeVars>> PROVE SentInv' OBVIOUS
<1>1. CASE UNCHANGED exchangeVars BY <1>1, SentSame DEF exchangeVars
<1>2. CASE Reply BY <1>2, SentSame DEF Reply
<1>3. CASE OtherConversation BY <1>3, SentSame DEF OtherConversation
<1>4. CASE TimePasses BY <1>4, SentSame DEF TimePasses
<1>5. CASE Send BY <1>5, SendsSound DEF Send, ExchangeInv, TalkInv
<1>6. CASE SendChained
  <2> DEFINE msgs == EntryOf(responses, MyResponse).value
                     \o SubSeq(history, Len(history) - fresh + 1, Len(history))
  <2>1. Sends(msgs) /\ Finds(responses, MyResponse) BY <1>6 DEF SendChained
  <2>2. IsConversation(msgs) BY <2>1, ChainedIsConversation DEF ExchangeInv
  <2> HIDE DEF msgs
  <2> QED BY <2>1, <2>2, SendsSound
<1>7. CASE ChainBroken BY <1>7, SentSame DEF ChainBroken
<1>8. CASE ExchangeOver BY <1>1, <1>8 DEF ExchangeOver
<1> QED BY <1>1, <1>2, <1>3, <1>4, <1>5, <1>6, <1>7, <1>8 DEF ExchangeNext

LEMMA SoundInvariant == ExchangeSpec => []SentInv
<1>1. ExchangeInit => SentInv BY DEF ExchangeInit, SentInv, Sent
<1> QED BY <1>1, ExchangeStart, ExchangeStep, SentStep, PTL DEF ExchangeSpec

\* Whatever was said, lost, cached and recalled, and whichever model serves the
\* second turn: Claude gets no thinking that is not really signed, and while it
\* thinks no call that is not, and Gemini gets no call without a signature or
\* the sentinel (normalizeInner, sanitizeContents).
THEOREM SignedAsDemanded == ExchangeSpec => []CallsAreAuthentic
  BY SoundInvariant, SoundRequests, PTL

\* Whatever a client asks of thinking and tokens, for every model, variant, mix
\* and account: refused thinking is off and no thought is sent, demanded
\* thinking of Gemini is on, and the budget leaves room for the answer within
\* what the model can give (applyThinking, applyVariantGeneration,
\* normalizeGenerationConfig).
THEOREM ThinksAsDemanded == ExchangeSpec => []ThinkingIsAsAsked
  BY SoundInvariant, SoundRequests, PTL

-----------------------------------------------------------------------------
(* The history on its way back. A request carries a conversation when its  *)
(* parts, told without what the conversion may change, are the blocks of   *)
(* the messages in their order. Concatenation is respected by both ways of *)
(* telling, so this is shown block by block and message by message.        *)

\* What a request carries, told without what the conversion may change.
Bares(s) == [k \in DOMAIN s |-> Bare(s[k])]

\* What a block of a client must become.
Shown(b) == CASE b.kind = "thought" /\ b.what = <<>> -> <<>>
              [] b.media -> <<Bare(b), [Bare(b) EXCEPT !.kind = "media"]>>
              [] OTHER -> <<Bare(b)>>

Shows(s) == FlattenSeq([k \in DOMAIN s |-> Shown(s[k])])

LEMMA SameSeq ==
    ASSUME NEW s, IsSeq(s), NEW t, IsSeq(t), Len(s) = Len(t), \A i \in 1..Len(s) : s[i] = t[i] PROVE s = t
<1>1. s \in Seq(ToSet(s)) /\ t \in Seq(ToSet(t)) /\ DOMAIN s = 1..Len(s) /\ DOMAIN t = 1..Len(t)
  BY SeqFacts DEF IsSeq
<1>2. s = [i \in 1..Len(s) |-> s[i]] /\ t = [i \in 1..Len(t) |-> t[i]]
  <2>1. s \in [1..Len(s) -> ToSet(s)] /\ t \in [1..Len(t) -> ToSet(t)] BY <1>1
  <2> QED BY <2>1
<1> QED BY <1>2

\* Whatever turns concatenation into concatenation turns that of all lists
\* into that of all their images.
LEMMA Homomorphism ==
    ASSUME NEW tt, AreLists(tt), NEW h, h[0] = <<>>, \A i \in 1..Len(tt) : h[i] = h[i - 1] \o tt[i]
    PROVE  h[Len(tt)] = FlattenSeq(tt)
<1> DEFINE n == Len(tt)
<1>1. n \in Nat BY SeqFacts DEF AreLists
<1>2. PICK f : Joined(f, tt) BY FlattenUnrolled DEF AreLists
<1>3. f[0] = <<>> /\ f[n] = FlattenSeq(tt) /\ \A i \in 1..n : f[i] = f[i - 1] \o tt[i] BY <1>2 DEF Joined
<1>4. \A i \in 1..n : h[i] = h[i - 1] \o tt[i] OBVIOUS
<1> HIDE DEF n
<1> DEFINE S == {i \in 0..n : h[i] = f[i]}
<1>5. 0 \in S BY <1>1, <1>3
<1>6. ASSUME NEW k \in 0..(n - 1), k \in S PROVE k + 1 \in S
  <2>1. k + 1 \in 1..n /\ k + 1 \in 0..n /\ (k + 1) - 1 = k BY <1>1
  <2>2. h[k] = f[k] BY <1>6
  <2> HIDE DEF S
  <2>3. h[k + 1] = f[k + 1] BY <1>3, <1>4, <2>1, <2>2
  <2> QED BY <2>1, <2>3 DEF S
<1> HIDE DEF S
<1>7. \A i \in 0..n : i \in S BY <1>1, <1>5, <1>6, BoundedInduction
<1>8. n \in S BY <1>1, <1>7
<1>9. h[n] = f[n] BY <1>8 DEF S
<1> QED BY <1>3, <1>9 DEF n

LEMMA BaresConcat ==
    ASSUME NEW s, IsSeq(s), NEW t, IsSeq(t)
    PROVE  /\ Bares(s \o t) = Bares(s) \o Bares(t)
           /\ IsSeq(Bares(s)) /\ Len(Bares(s)) = Len(s) /\ DOMAIN Bares(s) = DOMAIN s
<1> DEFINE a == Bares(s)
           b == Bares(t)
           u == s \o t
           c == Bares(u)
<1>1. /\ IsSeq(u) /\ Len(u) = Len(s) + Len(t) /\ \A i \in 1..Len(s) : u[i] = s[i]
      /\ \A i \in 1..Len(t) : u[Len(s) + i] = t[i]
  BY ConcatLemma
<1>2. /\ a = [k \in DOMAIN s |-> a[k]] /\ \A k \in DOMAIN s : a[k] = Bare(s[k])
      /\ b = [k \in DOMAIN t |-> b[k]] /\ \A k \in DOMAIN t : b[k] = Bare(t[k])
      /\ c = [k \in DOMAIN u |-> c[k]] /\ \A k \in DOMAIN u : c[k] = Bare(u[k])
  BY DEF Bares
<1> HIDE DEF a, b, c, u
<1>3. IsSeq(a) /\ IsSeq(b) /\ IsSeq(c) /\ Len(a) = Len(s) /\ Len(b) = Len(t) /\ Len(c) = Len(u) /\ DOMAIN a = DOMAIN s
  BY <1>1, <1>2, MapSeq
<1>4. /\ DOMAIN s = 1..Len(s) /\ DOMAIN t = 1..Len(t) /\ DOMAIN u = 1..Len(u) /\ Len(s) \in Nat /\ Len(t) \in Nat
  BY <1>1, SeqFacts
<1> DEFINE r == a \o b
<1>5. /\ IsSeq(r) /\ Len(r) = Len(s) + Len(t) /\ \A i \in 1..Len(s) : r[i] = a[i]
      /\ \A i \in 1..Len(t) : r[Len(s) + i] = b[i]
  BY <1>3, ConcatLemma
<1> HIDE DEF r
<1>6. ASSUME NEW i \in 1..Len(c) PROVE c[i] = r[i]
  <2>1. i \in DOMAIN u /\ c[i] = Bare(u[i]) BY <1>2, <1>3, <1>4
  <2>2. CASE i \in 1..Len(s) BY <1>1, <1>2, <1>4, <1>5, <2>1, <2>2
  <2>3. CASE i \notin 1..Len(s)
    <3>1. PICK j \in 1..Len(t) : i = Len(s) + j
      <4>1. i - Len(s) \in 1..Len(t) /\ i = Len(s) + (i - Len(s)) BY <1>1, <1>3, <1>4, <2>3
      <4> QED BY <4>1
    <3>2. u[i] = t[j] /\ r[i] = b[j] BY <1>1, <1>5, <3>1
    <3> QED BY <1>2, <1>4, <2>1, <3>2
  <2> QED BY <2>2, <2>3
<1>7. c = r BY <1>1, <1>3, <1>5, <1>6, SameSeq
<1> QED BY <1>3, <1>7 DEF a, b, c, r, u

LEMMA NothingBare == Bares(<<>>) = <<>>
<1> DEFINE c == Bares(<<>>)
<1>1. c = [k \in DOMAIN <<>> |-> c[k]] BY DEF Bares
<1> HIDE DEF c
<1>2. IsSeq(c) /\ Len(c) = 0 BY <1>1, EmptyIsSeq, MapSeq
<1>3. c = <<>> BY <1>2, EmptyIsSeq, SameSeq
<1> QED BY <1>3 DEF c

\* Told of all lists at once, and list by list.
LEMMA FlattenBares ==
    ASSUME NEW ss, AreLists(ss), NEW tt, tt = [i \in DOMAIN ss |-> tt[i]], \A i \in DOMAIN ss : tt[i] = Bares(ss[i])
    PROVE  Bares(FlattenSeq(ss)) = FlattenSeq(tt) /\ AreLists(tt)
<1>1. IsSeq(tt) /\ Len(tt) = Len(ss) /\ DOMAIN tt = DOMAIN ss BY MapSeq DEF AreLists
<1>2. DOMAIN ss = 1..Len(ss) /\ Len(ss) \in Nat BY SeqFacts DEF AreLists
<1>3. \A i \in DOMAIN tt : IsSeq(tt[i]) BY <1>1, BaresConcat DEF AreLists
<1>4. PICK f : Joined(f, ss) BY FlattenUnrolled DEF AreLists
<1> DEFINE h == [i \in 0..Len(ss) |-> Bares(f[i])]
<1>5. h[0] = <<>> BY <1>2, <1>4, NothingBare DEF Joined
<1>6. ASSUME NEW i \in 1..Len(tt) PROVE h[i] = h[i - 1] \o tt[i]
  <2>1. i - 1 \in 0..Len(ss) /\ i \in 0..Len(ss) /\ i \in DOMAIN ss BY <1>1, <1>2
  <2>2. f[i] = f[i - 1] \o ss[i] /\ IsSeq(f[i - 1]) /\ IsSeq(ss[i]) BY <1>1, <1>4, <2>1 DEF Joined, AreLists
  <2>3. Bares(f[i]) = Bares(f[i - 1]) \o Bares(ss[i])
    <3>1. PICK a, b : a = f[i - 1] /\ b = ss[i] OBVIOUS
    <3>2. Bares(a \o b) = Bares(a) \o Bares(b) BY <2>2, <3>1, BaresConcat
    <3> QED BY <2>2, <3>1, <3>2
  <2> QED BY <2>1, <2>3
<1>7. h[Len(ss)] = Bares(FlattenSeq(ss)) BY <1>2, <1>4 DEF Joined
<1> HIDE DEF h
<1>8. AreLists(tt) BY <1>1, <1>3 DEF AreLists
<1>9. h[Len(tt)] = FlattenSeq(tt) BY <1>5, <1>6, <1>8, Homomorphism
<1> QED BY <1>1, <1>7, <1>8, <1>9

\* The lists of two lists of lists.
LEMMA FlattenConcat ==
    ASSUME NEW ss, AreLists(ss), NEW tt, AreLists(tt)
    PROVE  FlattenSeq(ss \o tt) = FlattenSeq(ss) \o FlattenSeq(tt) /\ AreLists(ss \o tt)
<1> DEFINE uu == ss \o tt
           m == Len(ss)
           n == Len(tt)
<1>1. m \in Nat /\ n \in Nat /\ DOMAIN ss = 1..m /\ DOMAIN tt = 1..n BY SeqFacts DEF AreLists
<1>2. /\ IsSeq(uu) /\ Len(uu) = m + n /\ \A i \in 1..m : uu[i] = ss[i]
      /\ \A i \in 1..n : uu[m + i] = tt[i]
  BY ConcatLemma DEF AreLists
<1> HIDE DEF uu
<1>3. AreLists(uu)
  <2>1. DOMAIN uu = 1..(m + n) BY <1>2, SeqFacts
  <2>2. ASSUME NEW i \in DOMAIN uu PROVE IsSeq(uu[i])
    <3>1. CASE i \in 1..m BY <1>1, <1>2, <3>1 DEF AreLists
    <3>2. CASE i \notin 1..m
      <4>1. i - m \in 1..n /\ i = m + (i - m) BY <1>1, <2>1, <3>2
      <4>2. uu[i] = tt[i - m] BY <1>2, <4>1
      <4> QED BY <1>1, <4>1, <4>2 DEF AreLists
    <3> QED BY <3>1, <3>2
  <2> QED BY <1>2, <2>2 DEF AreLists
<1>4. PICK f : Joined(f, ss) BY FlattenUnrolled DEF AreLists
<1>5. PICK g : Joined(g, tt) BY FlattenUnrolled DEF AreLists
<1>6. PICK e : Joined(e, uu) BY <1>3, FlattenUnrolled DEF AreLists
<1>7. m <= Len(ss) /\ m <= Len(uu) /\ \A i \in 1..m : ss[i] = uu[i] BY <1>1, <1>2
<1>8. f[m] = e[m] BY <1>1, <1>3, <1>4, <1>6, <1>7, JoinedAgree DEF AreLists
<1>9. f[m] = FlattenSeq(ss) /\ IsSeq(f[m]) BY <1>1, <1>4 DEF Joined
<1>10. e[m + n] = FlattenSeq(uu) /\ \A i \in 1..(m + n) : e[i] = e[i - 1] \o uu[i] BY <1>2, <1>6 DEF Joined
<1>11. /\ g[n] = FlattenSeq(tt) /\ g[0] = <<>> /\ \A i \in 0..n : IsSeq(g[i])
       /\ \A i \in 1..n : g[i] = g[i - 1] \o tt[i]
  BY <1>5 DEF Joined
<1> HIDE DEF m, n
<1> DEFINE S == {i \in 0..n : e[m + i] = f[m] \o g[i]}
<1>12. 0 \in S
  <2>1. m + 0 = m BY <1>1
  <2>2. f[m] \o <<>> = f[m] BY <1>9, NothingMore
  <2>3. e[m + 0] = f[m] \o g[0] BY <1>8, <1>11, <2>1, <2>2
  <2>4. 0 \in 0..n BY <1>1
  <2> QED BY <2>3, <2>4
<1>13. ASSUME NEW k \in 0..(n - 1), k \in S PROVE k + 1 \in S
  <2>1. /\ k + 1 \in 1..n /\ k + 1 \in 0..n /\ k \in 0..n /\ (k + 1) - 1 = k /\ m + (k + 1) \in 1..(m + n)
        /\ (m + (k + 1)) - 1 = m + k
    BY <1>1
  <2>2. e[m + k] = f[m] \o g[k] BY <1>13
  <2> HIDE DEF S
  <2>3. e[m + (k + 1)] = e[m + k] \o tt[k + 1] BY <1>2, <1>10, <2>1
  <2>4. g[k + 1] = g[k] \o tt[k + 1] BY <1>11, <2>1
  <2>5. PICK a, b, c : a = f[m] /\ b = g[k] /\ c = tt[k + 1] OBVIOUS
  <2>6. IsSeq(a) /\ IsSeq(b) /\ IsSeq(c) BY <1>1, <1>9, <1>11, <2>1, <2>5 DEF AreLists
  <2>7. a \o (b \o c) = (a \o b) \o c BY <2>6, ConcatTwice
  <2>8. e[m + (k + 1)] = f[m] \o g[k + 1] BY <2>2, <2>3, <2>4, <2>5, <2>7
  <2> QED BY <2>1, <2>8 DEF S
<1> HIDE DEF S
<1>14. \A i \in 0..n : i \in S BY <1>1, <1>12, <1>13, BoundedInduction
<1>15. n \in S BY <1>1, <1>14
<1>16. e[m + n] = f[m] \o g[n] BY <1>15 DEF S
<1> QED BY <1>3, <1>9, <1>10, <1>11, <1>16 DEF uu

LEMMA ShownIsSeq == ASSUME NEW b PROVE IsSeq(Shown(b))
<1>1. IsSeq(<<Bare(b)>>) /\ IsSeq(<<Bare(b), [Bare(b) EXCEPT !.kind = "media"]>>) /\ IsSeq(<<>>)
  BY OneElement, TwoElements, EmptyIsSeq
<1> QED BY <1>1 DEF Shown

LEMMA ShownLists ==
    ASSUME NEW s, IsSeq(s), NEW t, t = [k \in DOMAIN s |-> Shown(s[k])]
    PROVE  /\ AreLists(t) /\ Len(t) = Len(s) /\ DOMAIN t = DOMAIN s /\ \A k \in DOMAIN s : t[k] = Shown(s[k])
           /\ Shows(s) = FlattenSeq(t) /\ IsSeq(Shows(s))
<1>1. t = [k \in DOMAIN s |-> t[k]] /\ \A k \in DOMAIN s : t[k] = Shown(s[k]) OBVIOUS
<1>2. Shows(s) = FlattenSeq(t) BY DEF Shows
<1>3. IsSeq(t) /\ Len(t) = Len(s) /\ DOMAIN t = DOMAIN s BY <1>1, MapSeq
<1>4. AreLists(t) BY <1>1, <1>3, ShownIsSeq DEF AreLists
<1>5. IsSeq(FlattenSeq(t)) BY <1>4, FlattenLemma DEF AreLists
<1> QED BY <1>1, <1>2, <1>3, <1>4, <1>5

LEMMA ShowsConcat ==
    ASSUME NEW s, IsSeq(s), NEW t, IsSeq(t) PROVE Shows(s \o t) = Shows(s) \o Shows(t)
<1>1. PICK u : u = s \o t OBVIOUS
<1>2. /\ IsSeq(u) /\ Len(u) = Len(s) + Len(t) /\ \A i \in 1..Len(s) : u[i] = s[i]
      /\ \A i \in 1..Len(t) : u[Len(s) + i] = t[i]
  BY <1>1, ConcatLemma
<1>3. PICK a : a = [k \in DOMAIN s |-> Shown(s[k])] OBVIOUS
<1>4. PICK b : b = [k \in DOMAIN t |-> Shown(t[k])] OBVIOUS
<1>5. PICK c : c = [k \in DOMAIN u |-> Shown(u[k])] OBVIOUS
<1>6. /\ AreLists(a) /\ Len(a) = Len(s) /\ DOMAIN a = DOMAIN s /\ \A k \in DOMAIN s : a[k] = Shown(s[k])
      /\ Shows(s) = FlattenSeq(a)
  BY <1>3, ShownLists
<1>7. /\ AreLists(b) /\ Len(b) = Len(t) /\ DOMAIN b = DOMAIN t /\ \A k \in DOMAIN t : b[k] = Shown(t[k])
      /\ Shows(t) = FlattenSeq(b)
  BY <1>4, ShownLists
<1>8. /\ AreLists(c) /\ Len(c) = Len(u) /\ DOMAIN c = DOMAIN u /\ \A k \in DOMAIN u : c[k] = Shown(u[k])
      /\ Shows(u) = FlattenSeq(c)
  BY <1>2, <1>5, ShownLists
<1>9. DOMAIN s = 1..Len(s) /\ DOMAIN t = 1..Len(t) /\ DOMAIN u = 1..Len(u) /\ Len(s) \in Nat /\ Len(t) \in Nat
  BY <1>2, SeqFacts
<1>10. PICK r : r = a \o b OBVIOUS
<1>11. /\ IsSeq(r) /\ Len(r) = Len(s) + Len(t) /\ \A i \in 1..Len(s) : r[i] = a[i]
       /\ \A i \in 1..Len(t) : r[Len(s) + i] = b[i]
  <2>1. IsSeq(a) /\ IsSeq(b) BY <1>6, <1>7 DEF AreLists
  <2>2. /\ IsSeq(a \o b) /\ Len(a \o b) = Len(a) + Len(b) /\ \A i \in 1..Len(a) : (a \o b)[i] = a[i]
        /\ \A i \in 1..Len(b) : (a \o b)[Len(a) + i] = b[i]
    BY <2>1, ConcatLemma
  <2>3. Len(a) = Len(s) /\ Len(b) = Len(t) BY <1>6, <1>7
  <2> QED BY <1>10, <2>2, <2>3
<1>12. ASSUME NEW i \in 1..Len(c) PROVE c[i] = r[i]
  <2>1. i \in DOMAIN u /\ c[i] = Shown(u[i]) BY <1>8, <1>9
  <2>2. CASE i \in 1..Len(s) BY <1>2, <1>6, <1>9, <1>11, <2>1, <2>2
  <2>3. CASE i \notin 1..Len(s)
    <3>1. PICK j \in 1..Len(t) : i = Len(s) + j
      <4>1. i - Len(s) \in 1..Len(t) /\ i = Len(s) + (i - Len(s)) BY <1>2, <1>8, <1>9, <2>3
      <4> QED BY <4>1
    <3>2. u[i] = t[j] /\ r[i] = b[j] BY <1>2, <1>11, <3>1
    <3> QED BY <1>7, <1>9, <2>1, <3>2
  <2> QED BY <2>2, <2>3
<1>13. c = r BY <1>2, <1>8, <1>11, <1>12, SameSeq DEF AreLists
<1>14. FlattenSeq(r) = FlattenSeq(a) \o FlattenSeq(b) BY <1>6, <1>7, <1>10, FlattenConcat
<1> QED BY <1>1, <1>6, <1>7, <1>8, <1>13, <1>14

LEMMA NothingShown == Shows(<<>>) = <<>>
<1>1. PICK t : t = [k \in DOMAIN <<>> |-> Shown(<<>>[k])] OBVIOUS
<1>2. AreLists(t) /\ Len(t) = 0 /\ Shows(<<>>) = FlattenSeq(t) BY <1>1, EmptyIsSeq, ShownLists
<1>3. t = <<>> BY <1>2, EmptyIsSeq, SameSeq DEF AreLists
<1> QED BY <1>2, <1>3 DEF FlattenSeq

LEMMA FlattenShows ==
    ASSUME NEW ss, AreLists(ss), NEW tt, tt = [i \in DOMAIN ss |-> tt[i]], \A i \in DOMAIN ss : tt[i] = Shows(ss[i])
    PROVE  Shows(FlattenSeq(ss)) = FlattenSeq(tt)
<1>1. IsSeq(tt) /\ Len(tt) = Len(ss) /\ DOMAIN tt = DOMAIN ss BY MapSeq DEF AreLists
<1>2. DOMAIN ss = 1..Len(ss) /\ Len(ss) \in Nat BY SeqFacts DEF AreLists
<1>3. \A i \in DOMAIN tt : IsSeq(tt[i])
  <2> SUFFICES ASSUME NEW i \in DOMAIN ss PROVE IsSeq(Shows(ss[i])) BY <1>1
  <2>1. IsSeq(ss[i]) BY DEF AreLists
  <2> QED BY <2>1, ShownLists
<1>4. PICK f : Joined(f, ss) BY FlattenUnrolled DEF AreLists
<1> DEFINE h == [i \in 0..Len(ss) |-> Shows(f[i])]
<1>5. h[0] = <<>> BY <1>2, <1>4, NothingShown DEF Joined
<1>6. ASSUME NEW i \in 1..Len(tt) PROVE h[i] = h[i - 1] \o tt[i]
  <2>1. i - 1 \in 0..Len(ss) /\ i \in 0..Len(ss) /\ i \in DOMAIN ss BY <1>1, <1>2
  <2>2. f[i] = f[i - 1] \o ss[i] /\ IsSeq(f[i - 1]) /\ IsSeq(ss[i]) BY <1>1, <1>4, <2>1 DEF Joined, AreLists
  <2>3. Shows(f[i]) = Shows(f[i - 1]) \o Shows(ss[i])
    <3>1. PICK a, b : a = f[i - 1] /\ b = ss[i] OBVIOUS
    <3>2. Shows(a \o b) = Shows(a) \o Shows(b) BY <2>2, <3>1, ShowsConcat
    <3> QED BY <2>2, <3>1, <3>2
  <2> QED BY <2>1, <2>3
<1>7. h[Len(ss)] = Shows(FlattenSeq(ss)) BY <1>2, <1>4 DEF Joined
<1> HIDE DEF h
<1>8. AreLists(tt) BY <1>1, <1>3 DEF AreLists
<1>9. h[Len(tt)] = FlattenSeq(tt) BY <1>5, <1>6, <1>8, Homomorphism
<1> QED BY <1>1, <1>7, <1>9

-----------------------------------------------------------------------------
(* One block, one message. *)

\* A block that a client of the protocol d may hold: only results have media,
\* and only Claude sends thoughts that say nothing.
Holdable(b, d) ==
  /\ IsBlock(b) /\ b.media \in BOOLEAN /\ (b.media => b.kind = "result")
  /\ d # "claude" /\ b.kind = "thought" => b.what # <<>>

LEMMA BaresOne == ASSUME NEW p PROVE Bares(<<p>>) = <<Bare(p)>>
<1>1. DOMAIN <<p>> = {1} /\ <<p>>[1] = p OBVIOUS
<1>2. Bares(<<p>>) = [k \in {1} |-> Bare(p)] BY <1>1 DEF Bares
<1>3. PICK x : x = Bare(p) OBVIOUS
<1>4. IsSeq(<<x>>) /\ Len(<<x>>) = 1 /\ <<x>>[1] = x BY OneElement
<1>5. IsSeq(Bares(<<p>>)) /\ Len(Bares(<<p>>)) = 1 BY BaresConcat, OneElement
<1>6. Bares(<<p>>)[1] = x BY <1>2, <1>3
<1>7. Bares(<<p>>) = <<x>> BY <1>4, <1>5, <1>6, SameSeq
<1> QED BY <1>3, <1>7

LEMMA TwoTogether == ASSUME NEW p, NEW q PROVE <<p, q>> = <<p>> \o <<q>>
<1>1. PICK r : r = <<p>> \o <<q>> OBVIOUS
<1>2. IsSeq(<<p>>) /\ IsSeq(<<q>>) /\ Len(<<p>>) = 1 /\ Len(<<q>>) = 1 /\ <<p>>[1] = p /\ <<q>>[1] = q BY OneElement
<1>3. IsSeq(r) /\ Len(r) = 2 /\ r[1] = p /\ r[2] = q
  <2>1. PICK a, b : a = <<p>> /\ b = <<q>> OBVIOUS
  <2>2. /\ IsSeq(a \o b) /\ Len(a \o b) = Len(a) + Len(b) /\ \A i \in 1..Len(a) : (a \o b)[i] = a[i]
        /\ \A i \in 1..Len(b) : (a \o b)[Len(a) + i] = b[i]
    BY <1>2, <2>1, ConcatLemma
  <2> QED BY <1>1, <1>2, <2>1, <2>2
<1>4. IsSeq(<<p, q>>) /\ Len(<<p, q>>) = 2 /\ <<p, q>>[1] = p /\ <<p, q>>[2] = q BY TwoElements
<1>5. \A i \in 1..2 : i = 1 \/ i = 2 OBVIOUS
<1>6. <<p, q>> = r BY <1>3, <1>4, <1>5, SameSeq
<1> QED BY <1>1, <1>6

LEMMA BaresTwo == ASSUME NEW p, NEW q PROVE Bares(<<p, q>>) = <<Bare(p), Bare(q)>>
<1>1. <<p, q>> = <<p>> \o <<q>> BY TwoTogether
<1>2. PICK x, y : x = Bare(p) /\ y = Bare(q) OBVIOUS
<1>3. <<x, y>> = <<x>> \o <<y>> BY TwoTogether
<1>4. Bares(<<p>> \o <<q>>) = Bares(<<p>>) \o Bares(<<q>>) BY OneElement, BaresConcat
<1>5. Bares(<<p>>) = <<x>> /\ Bares(<<q>>) = <<y>> BY <1>2, BaresOne
<1> QED BY <1>1, <1>2, <1>3, <1>4, <1>5

LEMMA CallIsKept ==
    ASSUME NEW b, NEW d, Holdable(b, d), b.kind = "call", NEW fallback, NEW model, NEW declared, NEW cache
    PROVE  Bares(<<CallPart(b, fallback, model, declared, cache)>>) = Shown(b)
<1>1. PICK name : name = ResolveDeclaredToolName(b.name, declared) OBVIOUS
<1>2. PICK sig : sig = Or(Or(b.sig, fallback), Recalled(cache, model, b.id)) OBVIOUS
<1>3. PICK r : r = CallPart(b, fallback, model, declared, cache) OBVIOUS
<1>4. b = [kind |-> b.kind, what |-> b.what, id |-> b.id, name |-> b.name, sig |-> b.sig, media |-> b.media]
      /\ ~b.media
  BY DEF Holdable, IsBlock
<1>5. r = [b EXCEPT !.name = name, !.sig = sig] BY <1>1, <1>2, <1>3 DEF CallPart
<1>6. r.kind = b.kind /\ r.what = b.what /\ r.id = b.id BY <1>4, <1>5
<1>7. Bare(r) = Bare(b) BY <1>6 DEF Bare
<1>8. Shown(b) = <<Bare(b)>> BY <1>4 DEF Shown
<1> QED BY <1>3, <1>7, <1>8, BaresOne

LEMMA ResultIsKept ==
    ASSUME NEW b, NEW d, Holdable(b, d), b.kind = "result", NEW msgs, NEW declared
    PROVE  Bares(ResultParts(b, msgs, declared)) = Shown(b)
<1>1. PICK name : name = ResultName(b, msgs, declared) OBVIOUS
<1>2. PICK result : result = [b EXCEPT !.name = name, !.media = FALSE] OBVIOUS
<1>3. PICK media : media = [result EXCEPT !.kind = "media"] OBVIOUS
<1>4. ResultParts(b, msgs, declared) = IF b.media THEN <<result, media>> ELSE <<result>>
  BY <1>1, <1>2, <1>3 DEF ResultParts
<1>5. b = [kind |-> b.kind, what |-> b.what, id |-> b.id, name |-> b.name, sig |-> b.sig, media |-> b.media]
  BY DEF Holdable, IsBlock
<1>6. result = [kind |-> b.kind, what |-> b.what, id |-> b.id, name |-> name, sig |-> b.sig, media |-> FALSE]
  <2>1. PICK off : off = FALSE OBVIOUS
  <2>2. result = [b EXCEPT !.name = name, !.media = off] BY <1>2, <2>1
  <2>3. result = [kind |-> b.kind, what |-> b.what, id |-> b.id, name |-> name, sig |-> b.sig, media |-> off]
    BY <1>5, <2>2
  <2> QED BY <2>1, <2>3
<1>7. result.kind = "result" /\ result.what = b.what /\ result.id = b.id BY <1>6
<1>8. media.kind = "media" /\ media.what = b.what /\ media.id = b.id BY <1>3, <1>6
<1>9. Bare(result) = Bare(b) /\ Bare(media) = [Bare(b) EXCEPT !.kind = "media"] BY <1>7, <1>8 DEF Bare
<1>10. Shown(b) = IF b.media THEN <<Bare(b), [Bare(b) EXCEPT !.kind = "media"]>> ELSE <<Bare(b)>> BY DEF Shown
<1>11. Bares(<<result>>) = <<Bare(b)>> BY <1>9, BaresOne
<1>12. Bares(<<result, media>>) = <<Bare(b), [Bare(b) EXCEPT !.kind = "media"]>> BY <1>9, BaresTwo
<1> QED BY <1>4, <1>10, <1>11, <1>12

\* One message, as the OpenAI protocols send it.
LEMMA OpenAIKept ==
    ASSUME NEW m, IsSeq(m.blocks), NEW d, d # "claude", \A b \in ToSet(m.blocks) : Holdable(b, d),
           NEW msgs, NEW model, NEW declared, NEW cache
    PROVE  Bares(OpenAIParts(m, msgs, model, declared, cache)) = Shows(m.blocks)
<1> DEFINE Of(b) == CASE b.kind = "call" -> <<CallPart(b, m.sig, model, declared, cache)>>
                      [] b.kind = "result" -> ResultParts(b, msgs, declared)
                      [] b.kind = "thought" -> <<[b EXCEPT !.sig = m.sig]>>
                      [] OTHER -> <<b>>
           t == [i \in DOMAIN m.blocks |-> Of(m.blocks[i])]
           u == [i \in DOMAIN m.blocks |-> Shown(m.blocks[i])]
<1>1. \A i \in DOMAIN m.blocks : Holdable(m.blocks[i], d) BY DEF ToSet
<1>2. ASSUME NEW b, Holdable(b, d) PROVE IsSeq(Of(b)) /\ Bares(Of(b)) = Shown(b)
  <2>0. IsBlock(b) /\ b.media \in BOOLEAN /\ (b.media => b.kind = "result") /\ (b.kind = "thought" => b.what # <<>>)
    BY <1>2 DEF Holdable
  <2>1. CASE b.kind = "call"
    <3>1. PICK r : r = CallPart(b, m.sig, model, declared, cache) OBVIOUS
    <3>2. Of(b) = <<r>> BY <2>1, <3>1
    <3>3. Bares(<<r>>) = Shown(b) BY <1>2, <2>1, <3>1, CallIsKept
    <3> HIDE DEF Of
    <3> QED BY <3>2, <3>3, OneElement
  <2>2. CASE b.kind = "result"
    <3>1. Of(b) = ResultParts(b, msgs, declared) BY <2>2
    <3>2. Bares(Of(b)) = Shown(b) BY <1>2, <2>2, <3>1, ResultIsKept
    <3>3. IsSeq(Of(b)) BY <2>0, <2>2, <3>1, ResultPartsAre DEF AreBlocks
    <3> QED BY <3>2, <3>3
  <2>3. CASE b.kind = "thought"
    <3>1. PICK x : x = [b EXCEPT !.sig = m.sig] OBVIOUS
    <3>2. Of(b) = <<x>> BY <2>3, <3>1
    <3>3. x.kind = b.kind /\ x.what = b.what /\ x.id = b.id BY <2>0, <3>1 DEF IsBlock
    <3>4. Bare(x) = Bare(b) BY <3>3 DEF Bare
    <3>5. Shown(b) = <<Bare(b)>> BY <2>0, <2>3 DEF Shown
    <3> HIDE DEF Of
    <3> QED BY <3>2, <3>4, <3>5, BaresOne, OneElement
  <2>4. CASE b.kind \notin {"call", "result", "thought"}
    <3>1. Of(b) = <<b>> BY <2>4
    <3>2. Shown(b) = <<Bare(b)>> BY <2>0, <2>4 DEF Shown
    <3> HIDE DEF Of
    <3> QED BY <3>1, <3>2, BaresOne, OneElement
  <2> QED BY <2>1, <2>2, <2>3, <2>4
<1>3. OpenAIParts(m, msgs, model, declared, cache) = FlattenSeq(t) BY DEF OpenAIParts
<1> HIDE DEF Of
<1>4. t = [i \in DOMAIN m.blocks |-> t[i]] /\ \A i \in DOMAIN m.blocks : IsSeq(t[i]) /\ Bares(t[i]) = Shown(m.blocks[i])
  BY <1>1, <1>2
<1>5. Shows(m.blocks) = FlattenSeq(u) BY DEF Shows
<1>6. u = [i \in DOMAIN m.blocks |-> u[i]] /\ \A i \in DOMAIN m.blocks : u[i] = Shown(m.blocks[i]) OBVIOUS
<1> HIDE DEF t, u
<1>7. IsSeq(t) /\ DOMAIN t = DOMAIN m.blocks BY <1>4, MapSeq
<1>8. AreLists(t) BY <1>4, <1>7 DEF AreLists
<1>9. u = [i \in DOMAIN t |-> u[i]] /\ \A i \in DOMAIN t : u[i] = Bares(t[i]) BY <1>4, <1>6, <1>7
<1>10. Bares(FlattenSeq(t)) = FlattenSeq(u) BY <1>8, <1>9, FlattenBares
<1> QED BY <1>3, <1>5, <1>10

\* One message of the Claude protocol.
LEMMA ClaudeKept ==
    ASSUME NEW m, IsSeq(m.blocks), NEW d, \A b \in ToSet(m.blocks) : Holdable(b, d),
           NEW msgs, NEW model, NEW declared, NEW cache
    PROVE  Bares(ClaudeParts(m, msgs, model, declared, cache)) = Shows(m.blocks)
<1> DEFINE Before_(i) == {j \in 1..(i - 1) : m.blocks[j].kind = "thought"}
           Last_(i) == IF Before_(i) = {} THEN None
                       ELSE m.blocks[CHOOSE j \in Before_(i) : \A k \in Before_(i) : k <= j].sig
           Of(i) == LET b == m.blocks[i]
                    IN  CASE b.kind = "call" -> <<CallPart(b, Last_(i), model, declared, cache)>>
                          [] b.kind = "result" -> ResultParts(b, msgs, declared)
                          [] b.kind = "thought" /\ b.what = <<>> -> <<>>
                          [] OTHER -> <<b>>
           t == [i \in DOMAIN m.blocks |-> Of(i)]
           u == [i \in DOMAIN m.blocks |-> Shown(m.blocks[i])]
<1>1. \A i \in DOMAIN m.blocks : Holdable(m.blocks[i], d) BY DEF ToSet
<1>2. ASSUME NEW i \in DOMAIN m.blocks PROVE IsSeq(Of(i)) /\ Bares(Of(i)) = Shown(m.blocks[i])
  <2>1. PICK b : b = m.blocks[i] OBVIOUS
  <2>2. Holdable(b, d) BY <1>1, <2>1
  <2>3. IsBlock(b) /\ b.media \in BOOLEAN /\ (b.media => b.kind = "result") BY <2>2 DEF Holdable
  <2>4. CASE b.kind = "call"
    <3> HIDE DEF Last_
    <3>1. PICK last : last = Last_(i) OBVIOUS
    <3>2. PICK r : r = CallPart(b, last, model, declared, cache) OBVIOUS
    <3>3. Of(i) = <<r>> BY <2>1, <2>4, <3>1, <3>2
    <3>4. Bares(<<r>>) = Shown(b) BY <2>2, <2>4, <3>2, CallIsKept
    <3> HIDE DEF Of
    <3> QED BY <2>1, <3>3, <3>4, OneElement
  <2>5. CASE b.kind = "result"
    <3> HIDE DEF Last_
    <3>1. Of(i) = ResultParts(b, msgs, declared) BY <2>1, <2>5
    <3> HIDE DEF Of
    <3>2. Bares(Of(i)) = Shown(b) BY <2>2, <2>5, <3>1, ResultIsKept
    <3>3. IsSeq(Of(i)) BY <2>3, <2>5, <3>1, ResultPartsAre DEF AreBlocks
    <3> QED BY <2>1, <3>2, <3>3
  <2>6. CASE b.kind = "thought" /\ b.what = <<>>
    <3> HIDE DEF Last_
    <3>1. Of(i) = <<>> BY <2>1, <2>6
    <3>2. Shown(b) = <<>> BY <2>3, <2>6 DEF Shown
    <3> HIDE DEF Of
    <3> QED BY <2>1, <3>1, <3>2, NothingBare, EmptyIsSeq
  <2>7. CASE b.kind \notin {"call", "result"} /\ ~(b.kind = "thought" /\ b.what = <<>>)
    <3> HIDE DEF Last_
    <3>1. Of(i) = <<b>> BY <2>1, <2>7
    <3>2. Shown(b) = <<Bare(b)>> BY <2>3, <2>7 DEF Shown
    <3> HIDE DEF Of
    <3> QED BY <2>1, <3>1, <3>2, BaresOne, OneElement
  <2> QED BY <2>4, <2>5, <2>6, <2>7
<1>3. ClaudeParts(m, msgs, model, declared, cache) = FlattenSeq(t) BY DEF ClaudeParts
<1> HIDE DEF Of
<1>4. t = [i \in DOMAIN m.blocks |-> t[i]] /\ \A i \in DOMAIN m.blocks : IsSeq(t[i]) /\ Bares(t[i]) = Shown(m.blocks[i])
  BY <1>2
<1>5. Shows(m.blocks) = FlattenSeq(u) BY DEF Shows
<1>6. u = [i \in DOMAIN m.blocks |-> u[i]] /\ \A i \in DOMAIN m.blocks : u[i] = Shown(m.blocks[i]) OBVIOUS
<1> HIDE DEF t, u
<1>7. IsSeq(t) /\ DOMAIN t = DOMAIN m.blocks BY <1>4, MapSeq
<1>8. AreLists(t) BY <1>4, <1>7 DEF AreLists
<1>9. u = [i \in DOMAIN t |-> u[i]] /\ \A i \in DOMAIN t : u[i] = Bares(t[i]) BY <1>4, <1>6, <1>7
<1>10. Bares(FlattenSeq(t)) = FlattenSeq(u) BY <1>8, <1>9, FlattenBares
<1> QED BY <1>3, <1>5, <1>10

-----------------------------------------------------------------------------
(* Merging contents of one role keeps their parts. *)

PartLists(s) == [i \in DOMAIN s |-> s[i].parts]

Alternates(s) == \A i \in 1..(Len(s) - 1) : s[i].role # s[i + 1].role

LEMMA PartListsAre ==
    ASSUME NEW s, AreContents(s), NEW t, t = PartLists(s)
    PROVE  AreLists(t) /\ Len(t) = Len(s) /\ DOMAIN t = DOMAIN s /\ \A i \in DOMAIN s : t[i] = s[i].parts
<1>1. t = [i \in DOMAIN s |-> t[i]] /\ \A i \in DOMAIN s : t[i] = s[i].parts BY DEF PartLists
<1>2. IsSeq(t) /\ Len(t) = Len(s) /\ DOMAIN t = DOMAIN s BY <1>1, MapSeq DEF AreContents
<1>3. \A i \in DOMAIN t : IsSeq(t[i]) BY <1>1, <1>2 DEF AreContents, IsContent
<1> QED BY <1>1, <1>2, <1>3 DEF AreLists

\* Contents that grow keep their parts, and their roles alternate.
LEMMA MergeOne ==
    ASSUME NEW acc, AreContents(acc), Alternates(acc), NEW c, IsContent(c), NEW r, r = MergedWith(acc, c),
           AreContents(r)
    PROVE  Alternates(r) /\ FlattenSeq(PartLists(r)) = FlattenSeq(PartLists(acc)) \o c.parts
<1> DEFINE n == Len(acc)
<1>1. n \in Nat /\ DOMAIN acc = 1..n BY SeqFacts DEF AreContents
<1>2. PICK a : a = PartLists(acc) OBVIOUS
<1>3. PICK b : b = PartLists(r) OBVIOUS
<1>4. AreLists(a) /\ Len(a) = n /\ DOMAIN a = 1..n /\ \A i \in 1..n : a[i] = acc[i].parts
  BY <1>1, <1>2, PartListsAre
<1>5. AreLists(b) /\ Len(b) = Len(r) /\ DOMAIN b = DOMAIN r /\ \A i \in DOMAIN r : b[i] = r[i].parts
  BY <1>3, PartListsAre
<1>6. PICK x : x = c.parts OBVIOUS
<1>7. IsSeq(x) BY <1>6 DEF IsContent
<1>8. IsSeq(FlattenSeq(a)) BY <1>4, FlattenLemma DEF AreLists
<1>9. CASE x = <<>>
  <2>1. r = acc BY <1>6, <1>9 DEF MergedWith
  <2>2. FlattenSeq(a) \o <<>> = FlattenSeq(a) BY <1>8, NothingMore
  <2> QED BY <1>2, <1>6, <1>9, <2>1, <2>2
<1>10. CASE x # <<>> /\ acc # <<>> /\ Last(acc).role = c.role
  <2>1. r = [acc EXCEPT ![n].parts = @ \o x] BY <1>6, <1>10 DEF MergedWith
  <2>2. n \in 1..n /\ Last(acc) = acc[n] BY <1>10, SeqFacts DEF AreContents
  <2>3. IsContent(acc[n]) BY <1>1, <2>2 DEF AreContents
  <2>4. PICK y : y = acc[n] OBVIOUS
  <2>5. y = [role |-> y.role, parts |-> y.parts] BY <2>3, <2>4 DEF IsContent
  <2>6. PICK z : z = [y EXCEPT !.parts = y.parts \o x] OBVIOUS
  <2>7. z.role = y.role /\ z.parts = y.parts \o x BY <2>5, <2>6
  <2>8. r = [acc EXCEPT ![n] = z] BY <2>1, <2>4, <2>6
  <2>9. DOMAIN r = 1..n /\ r[n] = z /\ \A i \in 1..n : i # n => r[i] = acc[i] BY <1>1, <2>2, <2>8
  <2>10. Len(r) = n
    <3>1. DOMAIN r = 1..Len(r) /\ Len(r) \in Nat BY SeqFacts DEF AreContents
    <3>2. PICK k : k = Len(r) OBVIOUS
    <3>3. k \in Nat /\ 1..k = 1..n BY <2>9, <3>1, <3>2
    <3> HIDE DEF n
    <3>4. n \in 1..k /\ n <= k BY <1>1, <2>2, <3>3
    <3>5. k \in 1..n BY <1>1, <2>2, <3>3, <3>4
    <3> QED BY <1>1, <3>2, <3>3, <3>4, <3>5
  <2> HIDE DEF n
  <2>11. \A i \in 1..n : r[i].role = acc[i].role BY <2>4, <2>7, <2>9
  <2>12. Alternates(r)
    <3> SUFFICES ASSUME NEW i \in 1..(n - 1) PROVE r[i].role # r[i + 1].role BY <2>10 DEF Alternates
    <3>1. i \in 1..n /\ i + 1 \in 1..n BY <1>1
    <3>2. acc[i].role # acc[i + 1].role BY DEF Alternates, n
    <3> QED BY <2>11, <3>1, <3>2
  <2>13. FlattenSeq(b) = FlattenSeq(a) \o x
    <3>1. PICK k \in Nat : n = k + 1
      <4>1. n - 1 \in Nat /\ n = (n - 1) + 1 BY <1>1, <2>2
      <4> QED BY <4>1
    <3>2. \A i \in 1..k : i \in 1..n /\ i # n BY <3>1
    <3>3. \A i \in 1..k : b[i] = a[i] BY <1>4, <1>5, <2>9, <3>2
    <3>4. b[k + 1] = a[k + 1] \o x BY <1>4, <1>5, <2>2, <2>4, <2>7, <2>9, <3>1
    <3>5. Len(a) = k + 1 /\ Len(b) = k + 1 /\ k + 1 # k BY <1>4, <1>5, <2>10, <3>1
    <3>6. Len(a) \in {k, k + 1} /\ b[k + 1] = IF Len(a) = k THEN x ELSE a[k + 1] \o x BY <3>4, <3>5
    <3>7. AreLists(a) /\ AreLists(b) BY <1>4, <1>5
    <3> QED BY <1>7, <3>3, <3>5, <3>6, <3>7, FlattenMore
  <2> QED BY <1>2, <1>3, <1>6, <2>12, <2>13
<1>11. CASE x # <<>> /\ ~(acc # <<>> /\ Last(acc).role = c.role)
  <2>1. r = Append(acc, c) BY <1>6, <1>11 DEF MergedWith
  <2>2. Len(r) = n + 1 /\ r[n + 1] = c /\ \A i \in 1..n : r[i] = acc[i] BY <1>1, <2>1, AppendItem DEF AreContents
  <2>3. acc = <<>> \/ (n \in 1..n /\ acc[n].role # c.role) BY <1>11, SeqFacts DEF AreContents
  <2>4. acc = <<>> => n = 0 BY EmptyIsSeq
  <2> HIDE DEF n
  <2>5. Alternates(r)
    <3> SUFFICES ASSUME NEW i \in 1..n PROVE r[i].role # r[i + 1].role BY <1>1, <2>2 DEF Alternates
    <3>1. CASE i = n BY <1>1, <2>2, <2>3, <2>4, <3>1
    <3>2. CASE i # n
      <4>1. i \in 1..(n - 1) /\ i + 1 \in 1..n BY <1>1, <3>2
      <4>2. acc[i].role # acc[i + 1].role BY <4>1 DEF Alternates, n
      <4> QED BY <2>2, <4>1, <4>2
    <3> QED BY <3>1, <3>2
  <2>6. DOMAIN r = 1..(n + 1) BY <2>2, SeqFacts DEF AreContents
  <2>7. FlattenSeq(b) = FlattenSeq(a) \o x
    <3>1. \A i \in 1..n : i \in 1..(n + 1) BY <1>1
    <3>2. \A i \in 1..n : b[i] = a[i] BY <1>4, <1>5, <2>2, <2>6, <3>1
    <3>3. b[n + 1] = x
      <4>1. n + 1 \in 1..(n + 1) BY <1>1
      <4> QED BY <1>5, <1>6, <2>2, <2>6, <4>1
    <3> QED BY <1>1, <1>4, <1>5, <1>7, <2>2, <3>2, <3>3, FlattenMore
  <2> QED BY <1>2, <1>3, <1>6, <2>5, <2>7
<1> QED BY <1>9, <1>10, <1>11

\* Merged contents have the same parts in the same order, and their roles alternate.
LEMMA MergeKept ==
    ASSUME NEW s, AreContents(s)
    PROVE  /\ FlattenSeq(PartLists(MergeContents(s))) = FlattenSeq(PartLists(s))
           /\ Alternates(MergeContents(s))
<1> DEFINE n == Len(s)
<1>1. n \in Nat /\ DOMAIN s = 1..n BY SeqFacts DEF AreContents
<1>2. PICK f : Merging(f, s) BY MergeUnrolled
<1>3. PICK t : t = PartLists(s) OBVIOUS
<1>4. AreLists(t) /\ Len(t) = n /\ \A i \in 1..n : t[i] = s[i].parts BY <1>1, <1>3, PartListsAre
<1>5. PICK g : Joined(g, t) BY <1>4, FlattenUnrolled DEF AreLists
<1>6. /\ f[0] = <<>> /\ f[n] = MergeContents(s) /\ \A i \in 1..n : f[i] = MergedWith(f[i - 1], s[i])
      /\ \A i \in 0..n : AreContents(f[i])
  BY <1>2 DEF Merging
<1>7. g[0] = <<>> /\ g[n] = FlattenSeq(t) /\ \A i \in 1..n : g[i] = g[i - 1] \o t[i] BY <1>4, <1>5 DEF Joined
<1>8. \A i \in 1..n : IsContent(s[i]) BY <1>1 DEF AreContents
<1> HIDE DEF n
<1> DEFINE S == {i \in 0..n : Alternates(f[i]) /\ FlattenSeq(PartLists(f[i])) = g[i]}
<1>9. 0 \in S
  <2>1. Alternates(<<>>) BY EmptyIsSeq DEF Alternates
  <2>2. PICK a : a = PartLists(<<>>) OBVIOUS
  <2>3. AreContents(<<>>) BY EmptyIsSeq DEF AreContents
  <2>4. AreLists(a) /\ Len(a) = 0 BY <2>2, <2>3, EmptyIsSeq, PartListsAre
  <2>5. a = <<>> BY <2>4, EmptyIsSeq, SameSeq DEF AreLists
  <2>6. FlattenSeq(PartLists(<<>>)) = <<>> BY <2>2, <2>5 DEF FlattenSeq
  <2> QED BY <1>1, <1>6, <1>7, <2>1, <2>6
<1>10. ASSUME NEW k \in 0..(n - 1), k \in S PROVE k + 1 \in S
  <2>1. k + 1 \in 1..n /\ k + 1 \in 0..n /\ k \in 0..n /\ (k + 1) - 1 = k BY <1>1
  <2>2. Alternates(f[k]) /\ FlattenSeq(PartLists(f[k])) = g[k] BY <1>10
  <2> HIDE DEF S
  <2>3. PICK acc, c, r : acc = f[k] /\ c = s[k + 1] /\ r = f[k + 1] OBVIOUS
  <2>4. r = MergedWith(acc, c) /\ AreContents(acc) /\ AreContents(r) /\ IsContent(c) BY <1>6, <1>8, <2>1, <2>3
  <2>5. Alternates(r) /\ FlattenSeq(PartLists(r)) = FlattenSeq(PartLists(acc)) \o c.parts
    BY <2>2, <2>3, <2>4, MergeOne
  <2>6. g[k + 1] = g[k] \o s[k + 1].parts BY <1>4, <1>7, <2>1
  <2> QED BY <2>1, <2>2, <2>3, <2>5, <2>6 DEF S
<1> HIDE DEF S
<1>11. \A i \in 0..n : i \in S BY <1>1, <1>9, <1>10, BoundedInduction
<1>12. n \in S BY <1>1, <1>11
<1>13. Alternates(f[n]) /\ FlattenSeq(PartLists(f[n])) = g[n] BY <1>12 DEF S
<1> QED BY <1>3, <1>6, <1>7, <1>13

-----------------------------------------------------------------------------
(* A request holds what its messages hold. *)

Heard(m) == IF IsSystem(m) THEN <<>> ELSE m.blocks

PartsOf(d, m, msgs, model, declared, cache) ==
  IF IsSystem(m) THEN <<>>
  ELSE IF d = "claude" THEN ClaudeParts(m, msgs, model, declared, cache)
  ELSE OpenAIParts(IF d = "responses" THEN ItemMessage(m) ELSE m, msgs, model, declared, cache)

Unmerged(d, msgs, model, declared, cache) ==
  [i \in DOMAIN msgs |-> [role |-> IF msgs[i].role = "assistant" THEN "model" ELSE "user",
                          parts |-> PartsOf(d, msgs[i], msgs, model, declared, cache)]]

\* All blocks of a message may be held by a client of d.
MayHold(m, d) == IsMessage(m) /\ \A b \in ToSet(m.blocks) : Holdable(b, d)

LEMMA PartsOfKept ==
    ASSUME NEW d, NEW m, MayHold(m, d), NEW msgs, NEW model, NEW declared, NEW cache
    PROVE  /\ AreBlocks(PartsOf(d, m, msgs, model, declared, cache))
           /\ Bares(PartsOf(d, m, msgs, model, declared, cache)) = Shows(Heard(m))
<1>1. m = [role |-> m.role, sig |-> m.sig, blocks |-> m.blocks] /\ AreBlocks(m.blocks) /\ IsSeq(m.blocks)
  BY DEF MayHold, IsMessage, AreBlocks
<1>2. PICK x : x = IF d = "responses" THEN ItemMessage(m) ELSE m OBVIOUS
<1>3. x.blocks = m.blocks
  <2>1. PICK y : y = ItemMessage(m) OBVIOUS
  <2>2. y.blocks = m.blocks BY <1>1, <2>1 DEF ItemMessage
  <2> QED BY <1>2, <2>1, <2>2
<1>4. PICK p : p = PartsOf(d, m, msgs, model, declared, cache) OBVIOUS
<1>5. CASE IsSystem(m)
  <2>1. p = <<>> /\ Heard(m) = <<>> BY <1>4, <1>5 DEF PartsOf, Heard
  <2> QED BY <1>4, <2>1, NoBlocks, NothingBare, NothingShown
<1>6. CASE ~IsSystem(m) /\ d = "claude"
  <2>1. p = ClaudeParts(m, msgs, model, declared, cache) /\ Heard(m) = m.blocks BY <1>4, <1>6 DEF PartsOf, Heard
  <2>2. AreBlocks(p) BY <1>1, <2>1, ClaudePartsAre
  <2>3. Bares(p) = Shows(m.blocks) BY <1>1, <2>1, ClaudeKept DEF MayHold
  <2> QED BY <1>4, <2>1, <2>2, <2>3
<1>7. CASE ~IsSystem(m) /\ d # "claude"
  <2>1. p = OpenAIParts(x, msgs, model, declared, cache) /\ Heard(m) = m.blocks BY <1>2, <1>4, <1>7 DEF PartsOf, Heard
  <2>2. AreBlocks(p) BY <1>1, <1>3, <2>1, OpenAIPartsAre
  <2>3. \A b \in ToSet(x.blocks) : Holdable(b, d) BY <1>3 DEF MayHold
  <2>4. IsSeq(x.blocks) BY <1>1, <1>3
  <2>5. Bares(p) = Shows(x.blocks) BY <1>7, <2>1, <2>3, <2>4, OpenAIKept
  <2> QED BY <1>3, <1>4, <2>1, <2>2, <2>5
<1> QED BY <1>5, <1>6, <1>7

LEMMA UnmergedKept ==
    ASSUME NEW d, NEW msgs, IsSeq(msgs), \A i \in DOMAIN msgs : MayHold(msgs[i], d),
           NEW model, NEW declared, NEW cache, NEW raw, raw = Unmerged(d, msgs, model, declared, cache),
           NEW heard, heard = [i \in DOMAIN msgs |-> Heard(msgs[i])]
    PROVE  /\ AreContents(raw) /\ \A p \in PartsIn(raw) : IsBlock(p)
           /\ AreLists(heard)
           /\ Bares(FlattenSeq(PartLists(raw))) = Shows(FlattenSeq(heard))
           /\ (\E i \in DOMAIN msgs : Shows(Heard(msgs[i])) # <<>>) => PartsIn(raw) # {}
<1>1. raw = [i \in DOMAIN msgs |-> raw[i]] /\ DOMAIN raw = DOMAIN msgs BY DEF Unmerged
<1>2. ASSUME NEW i \in DOMAIN msgs
      PROVE  IsContent(raw[i]) /\ AreBlocks(raw[i].parts) /\ Bares(raw[i].parts) = Shows(Heard(msgs[i]))
  <2>1. PICK q : q = PartsOf(d, msgs[i], msgs, model, declared, cache) OBVIOUS
  <2>2. AreBlocks(q) /\ Bares(q) = Shows(Heard(msgs[i])) BY <2>1, PartsOfKept
  <2>3. PICK role : role = IF msgs[i].role = "assistant" THEN "model" ELSE "user" OBVIOUS
  <2>4. PICK c : c = raw[i] OBVIOUS
  <2>5. c = [role |-> role, parts |-> q] BY <2>1, <2>3, <2>4 DEF Unmerged
  <2>6. c.parts = q /\ c = [role |-> c.role, parts |-> c.parts] BY <2>5
  <2> QED BY <2>2, <2>4, <2>6 DEF IsContent, AreBlocks
<1>3. IsSeq(raw) /\ Len(raw) = Len(msgs) BY <1>1, MapSeq
<1>4. AreContents(raw) BY <1>1, <1>2, <1>3 DEF AreContents
<1>5. \A p \in PartsIn(raw) : IsBlock(p) BY <1>1, <1>2 DEF PartsIn, AreBlocks
<1>6. PICK t : t = PartLists(raw) OBVIOUS
<1>7. AreLists(t) /\ DOMAIN t = DOMAIN msgs /\ \A i \in DOMAIN msgs : t[i] = raw[i].parts
  <2>1. DOMAIN raw = DOMAIN msgs BY <1>1
  <2>2. AreLists(t) /\ DOMAIN t = DOMAIN raw /\ \A i \in DOMAIN raw : t[i] = raw[i].parts
    BY <1>4, <1>6, PartListsAre
  <2> QED BY <2>1, <2>2
<1>8. PICK u : u = [i \in DOMAIN msgs |-> Bares(t[i])] OBVIOUS
<1>9. Bares(FlattenSeq(t)) = FlattenSeq(u)
  <2>1. u = [i \in DOMAIN t |-> u[i]] /\ \A i \in DOMAIN t : u[i] = Bares(t[i]) BY <1>7, <1>8
  <2> QED BY <1>7, <2>1, FlattenBares
<1>10. AreLists(heard) /\ DOMAIN heard = DOMAIN msgs
  <2>1. heard = [i \in DOMAIN msgs |-> heard[i]] OBVIOUS
  <2>2. IsSeq(heard) /\ DOMAIN heard = DOMAIN msgs BY <2>1, MapSeq
  <2>3. \A i \in DOMAIN msgs : IsSeq(heard[i]) BY EmptyIsSeq DEF Heard, MayHold, IsMessage, AreBlocks
  <2> QED BY <2>2, <2>3 DEF AreLists
<1>11. Shows(FlattenSeq(heard)) = FlattenSeq(u)
  <2>1. u = [i \in DOMAIN heard |-> u[i]] BY <1>8, <1>10
  <2>2. \A i \in DOMAIN heard : u[i] = Shows(heard[i]) BY <1>2, <1>7, <1>8, <1>10
  <2> QED BY <1>10, <2>1, <2>2, FlattenShows
<1>12. ASSUME NEW i \in DOMAIN msgs, Shows(Heard(msgs[i])) # <<>> PROVE PartsIn(raw) # {}
  <2>1. PICK q : q = raw[i].parts OBVIOUS
  <2>2. IsSeq(q) /\ Bares(q) # <<>> BY <1>2, <1>12, <2>1 DEF AreBlocks
  <2>3. q # <<>> BY <2>2, NothingBare
  <2>4. ToSet(q) # {} BY <2>2, <2>3, SeqFacts
  <2> QED BY <1>1, <2>1, <2>4 DEF PartsIn
<1> QED BY <1>4, <1>5, <1>6, <1>9, <1>10, <1>11, <1>12

LEMMA BareSanitized ==
    ASSUME NEW q, IsBlock(q), NEW m, NEW on
    PROVE  Bare(Sanitized(q, m, on)) = Bare(q)
<1>1. q = [kind |-> q.kind, what |-> q.what, id |-> q.id, name |-> q.name, sig |-> q.sig, media |-> q.media]
  BY DEF IsBlock
<1>2. PICK p : p = Sanitized(q, m, on) OBVIOUS
<1>3. PICK other : other = Or(q.sig, Sentinel) OBVIOUS
<1>4. \/ q.kind = "thought" /\ p = [q EXCEPT !.kind = "text", !.sig = None]
      \/ p = [q EXCEPT !.sig = other] \/ p = [q EXCEPT !.sig = None] \/ p = q
  BY <1>2, <1>3 DEF Sanitized
<1>5. p.what = q.what /\ p.id = q.id /\ (p.kind = q.kind \/ (q.kind = "thought" /\ p.kind = "text"))
  BY <1>1, <1>4
<1>6. Bare(p) = Bare(q) BY <1>5 DEF Bare
<1> QED BY <1>2, <1>6

\* Sanitized contents carry the same.
LEMMA CleanedKept ==
    ASSUME NEW s, AreContents(s), \A p \in PartsIn(s) : IsBlock(p), NEW m, NEW on, NEW t, IsCleaned(t, s, m, on)
    PROVE  Bares(FlattenSeq(PartLists(t))) = Bares(FlattenSeq(PartLists(s)))
<1>1. AreContents(t) BY CleanedAre
<1>2. PICK a : a = PartLists(s) OBVIOUS
<1>3. PICK b : b = PartLists(t) OBVIOUS
<1>4. DOMAIN t = DOMAIN s BY DEF IsCleaned
<1>5. AreLists(a) /\ DOMAIN a = DOMAIN s /\ \A i \in DOMAIN s : a[i] = s[i].parts BY <1>2, PartListsAre
<1>6. AreLists(b) /\ DOMAIN b = DOMAIN s /\ \A i \in DOMAIN s : b[i] = t[i].parts BY <1>1, <1>3, <1>4, PartListsAre
<1>7. ASSUME NEW i \in DOMAIN s PROVE Bares(b[i]) = Bares(a[i])
  <2>1. PICK c : c = s[i] OBVIOUS
  <2>2. c = [role |-> c.role, parts |-> c.parts] BY <2>1 DEF AreContents, IsContent
  <2>3. PICK r : r = [k \in DOMAIN c.parts |-> Sanitized(c.parts[k], m, on)] OBVIOUS
  <2>4. t[i] = [c EXCEPT !.parts = r] BY <2>1, <2>3 DEF IsCleaned
  <2>5. t[i].parts = r BY <2>2, <2>4
  <2>6. \A k \in DOMAIN c.parts : IsBlock(c.parts[k]) BY <2>1 DEF PartsIn, ToSet
  <2>7. DOMAIN r = DOMAIN c.parts /\ \A k \in DOMAIN c.parts : Bare(r[k]) = Bare(c.parts[k])
    BY <2>3, <2>6, BareSanitized
  <2>8. Bares(r) = Bares(c.parts) BY <2>7 DEF Bares
  <2> QED BY <1>5, <1>6, <2>1, <2>5, <2>8
<1>8. PICK u : u = [i \in DOMAIN s |-> Bares(a[i])] OBVIOUS
<1>9. Bares(FlattenSeq(a)) = FlattenSeq(u)
  <2>1. u = [i \in DOMAIN a |-> u[i]] /\ \A i \in DOMAIN a : u[i] = Bares(a[i]) BY <1>5, <1>8
  <2> QED BY <1>5, <2>1, FlattenBares
<1>10. Bares(FlattenSeq(b)) = FlattenSeq(u)
  <2>1. u = [i \in DOMAIN b |-> u[i]] /\ \A i \in DOMAIN b : u[i] = Bares(b[i]) BY <1>6, <1>7, <1>8
  <2> QED BY <1>6, <2>1, FlattenBares
<1> QED BY <1>2, <1>3, <1>9, <1>10

-----------------------------------------------------------------------------
(* The names of tools. *)

\* A name that is resolved names one tool.
LEMMA ResolvedName ==
    ASSUME NEW name PROVE NamesOneTool(ResolveDeclaredToolName(name, FlattenTools(Tools)))
<1>1. PICK declared : declared = FlattenTools(Tools) OBVIOUS
<1>2. PICK r : r = ResolveDeclaredToolName(name, declared) OBVIOUS
<1>3. PICK ends : ends = {i \in DOMAIN declared : IsStrictSuffix(name, declared[i])} OBVIOUS
<1>4. PICK meant : meant = {i \in DOMAIN declared : IsSuffix(r, declared[i])} OBVIOUS
<1>5. r = IF name \in ToSet(declared) \/ Cardinality(ends) # 1 THEN name ELSE declared[CHOOSE i \in ends : TRUE]
  BY <1>2, <1>3 DEF ResolveDeclaredToolName
<1>6. Declarations(Tools) = ToSet(declared) BY <1>1 DEF Declarations
<1>7. Cardinality(meant) = 1 => r \in ToSet(declared)
  <2>1. CASE name \in ToSet(declared) BY <1>5, <2>1
  <2>2. CASE name \notin ToSet(declared) /\ Cardinality(ends) # 1
    <3>1. r = name BY <1>5, <2>2
    <3>2. \A i \in DOMAIN declared : declared[i] # name BY <2>2 DEF ToSet
    <3>3. meant = ends BY <1>3, <1>4, <3>1, <3>2 DEF IsStrictSuffix
    <3> QED BY <2>2, <3>3
  <2>3. CASE name \notin ToSet(declared) /\ Cardinality(ends) = 1
    <3>1. ends # {} BY <2>3, FS_EmptySet
    <3>2. (CHOOSE i \in ends : TRUE) \in DOMAIN declared BY <1>3, <3>1
    <3>3. r = declared[CHOOSE i \in ends : TRUE] BY <1>5, <2>3
    <3> QED BY <3>2, <3>3 DEF ToSet
  <2> QED BY <2>1, <2>2, <2>3
<1>8. NamesOneTool(r) BY <1>1, <1>4, <1>6, <1>7 DEF NamesOneTool
<1> QED BY <1>1, <1>2, <1>8

LEMMA InsistedName ==
    ASSUME NEW choice, NEW tools \in {<<>>, Tools}, FunctionCalling(choice, tools).allowed # None
    PROVE  NamesOneTool(FunctionCalling(choice, tools).allowed)
<1>1. PICK c : c = FunctionCalling(choice, tools) OBVIOUS
<1>2. PICK r : r = ResolveDeclaredToolName(choice.name, FlattenTools(tools)) OBVIOUS
<1>3. c = IF tools = <<>> THEN [mode |-> None, allowed |-> None]
          ELSE IF choice.name = None THEN [mode |-> choice.mode, allowed |-> None]
          ELSE [mode |-> "ANY", allowed |-> r]
  BY <1>1, <1>2 DEF FunctionCalling
<1>4. tools # <<>> /\ c.allowed = r BY <1>1, <1>3
<1>5. tools = Tools BY <1>4
<1>6. NamesOneTool(r) BY <1>2, <1>5, ResolvedName
<1> QED BY <1>1, <1>4, <1>6

\* A part whose name is that of a call of the conversation, in full.
Named(p, msgs, declared) ==
  /\ p.kind = "call" =>
       \E c \in CallsIn(msgs) : c.id = p.id /\ p.name = ResolveDeclaredToolName(c.name, declared)
  /\ p.kind = "result" /\ (\E c \in CallsIn(msgs) : c.id = p.id) =>
       p.name = ResolveDeclaredToolName((CHOOSE c \in CallsIn(msgs) : c.id = p.id).name, declared)

AreNamed(s, msgs, declared) == IsSeq(s) /\ \A p \in ToSet(s) : Named(p, msgs, declared)

LEMMA OneNamed == ASSUME NEW p, NEW msgs, NEW declared, Named(p, msgs, declared) PROVE AreNamed(<<p>>, msgs, declared)
  BY OneElement DEF AreNamed

LEMMA CallIsNamed ==
    ASSUME NEW b, IsBlock(b), NEW msgs, b \in CallsIn(msgs), NEW fallback, NEW model, NEW declared, NEW cache
    PROVE  AreNamed(<<CallPart(b, fallback, model, declared, cache)>>, msgs, declared)
<1>1. PICK name : name = ResolveDeclaredToolName(b.name, declared) OBVIOUS
<1>2. PICK sig : sig = Or(Or(b.sig, fallback), Recalled(cache, model, b.id)) OBVIOUS
<1>3. PICK r : r = CallPart(b, fallback, model, declared, cache) OBVIOUS
<1>4. b = [kind |-> b.kind, what |-> b.what, id |-> b.id, name |-> b.name, sig |-> b.sig, media |-> b.media]
  BY DEF IsBlock
<1>5. r = [b EXCEPT !.name = name, !.sig = sig] BY <1>1, <1>2, <1>3 DEF CallPart
<1>6. r.kind = b.kind /\ r.id = b.id /\ r.name = name BY <1>4, <1>5
<1>7. b.kind = "call" BY DEF CallsIn
<1>8. Named(r, msgs, declared) BY <1>1, <1>6, <1>7 DEF Named
<1> QED BY <1>3, <1>8, OneNamed

LEMMA ResultIsNamed ==
    ASSUME NEW b, IsBlock(b), b.kind = "result", NEW msgs, NEW declared
    PROVE  AreNamed(ResultParts(b, msgs, declared), msgs, declared)
<1>1. PICK name : name = ResultName(b, msgs, declared) OBVIOUS
<1>2. PICK result : result = [b EXCEPT !.name = name, !.media = FALSE] OBVIOUS
<1>3. PICK media : media = [result EXCEPT !.kind = "media"] OBVIOUS
<1>4. ResultParts(b, msgs, declared) = IF b.media THEN <<result, media>> ELSE <<result>>
  BY <1>1, <1>2, <1>3 DEF ResultParts
<1>5. b = [kind |-> b.kind, what |-> b.what, id |-> b.id, name |-> b.name, sig |-> b.sig, media |-> b.media]
  BY DEF IsBlock
<1>6. result = [kind |-> b.kind, what |-> b.what, id |-> b.id, name |-> name, sig |-> b.sig, media |-> FALSE]
  <2>1. PICK off : off = FALSE OBVIOUS
  <2>2. result = [b EXCEPT !.name = name, !.media = off] BY <1>2, <2>1
  <2>3. result = [kind |-> b.kind, what |-> b.what, id |-> b.id, name |-> name, sig |-> b.sig, media |-> off]
    BY <1>5, <2>2
  <2> QED BY <2>1, <2>3
<1>7. result.kind = "result" /\ result.id = b.id /\ result.name = name BY <1>6
<1>8. media.kind = "media" BY <1>3, <1>6
<1>9. Named(result, msgs, declared) BY <1>1, <1>7 DEF Named, ResultName
<1>10. Named(media, msgs, declared) BY <1>8 DEF Named
<1>11. AreNamed(<<result>>, msgs, declared) BY <1>9, OneNamed
<1>12. AreNamed(<<result, media>>, msgs, declared) BY <1>9, <1>10, TwoElements DEF AreNamed
<1> QED BY <1>4, <1>11, <1>12

\* Blocks of a conversation: their calls are among its calls.
BelongTo(blocks, msgs) ==
  IsSeq(blocks) /\ \A b \in ToSet(blocks) : IsBlock(b) /\ (b.kind = "call" => b \in CallsIn(msgs))

LEMMA FlatNamed ==
    ASSUME NEW s, IsSeq(s), NEW t, t = [i \in DOMAIN s |-> t[i]], NEW msgs, NEW declared,
           \A i \in DOMAIN s : AreNamed(t[i], msgs, declared)
    PROVE  AreNamed(FlattenSeq(t), msgs, declared)
<1>1. IsSeq(t) /\ DOMAIN t = DOMAIN s BY MapSeq
<1>2. IsSeq(FlattenSeq(t)) /\ ToSet(FlattenSeq(t)) = UNION {ToSet(t[i]) : i \in DOMAIN t}
  BY <1>1, FlattenLemma DEF AreNamed
<1> QED BY <1>1, <1>2 DEF AreNamed

LEMMA OpenAINamed ==
    ASSUME NEW m, NEW msgs, BelongTo(m.blocks, msgs), NEW model, NEW declared, NEW cache
    PROVE  AreNamed(OpenAIParts(m, msgs, model, declared, cache), msgs, declared)
<1> DEFINE Of(b) == CASE b.kind = "call" -> <<CallPart(b, m.sig, model, declared, cache)>>
                      [] b.kind = "result" -> ResultParts(b, msgs, declared)
                      [] b.kind = "thought" -> <<[b EXCEPT !.sig = m.sig]>>
                      [] OTHER -> <<b>>
           t == [i \in DOMAIN m.blocks |-> Of(m.blocks[i])]
<1>1. IsSeq(m.blocks) /\ \A i \in DOMAIN m.blocks : m.blocks[i] \in ToSet(m.blocks) BY DEF BelongTo, ToSet
<1>2. ASSUME NEW b \in ToSet(m.blocks) PROVE AreNamed(Of(b), msgs, declared)
  <2>1. IsBlock(b) /\ (b.kind = "call" => b \in CallsIn(msgs)) BY DEF BelongTo
  <2>2. CASE b.kind = "call"
    <3>1. PICK q : q = <<CallPart(b, m.sig, model, declared, cache)>> OBVIOUS
    <3>2. Of(b) = q BY <2>2, <3>1
    <3>3. AreNamed(q, msgs, declared) BY <2>1, <2>2, <3>1, CallIsNamed
    <3> QED BY <3>2, <3>3
  <2>3. CASE b.kind = "result"
    <3>1. Of(b) = ResultParts(b, msgs, declared) BY <2>3
    <3> HIDE DEF Of
    <3> QED BY <2>1, <2>3, <3>1, ResultIsNamed
  <2>4. CASE b.kind = "thought"
    <3>1. PICK x : x = [b EXCEPT !.sig = m.sig] OBVIOUS
    <3>2. Of(b) = <<x>> BY <2>4, <3>1
    <3>3. x.kind = "thought" BY <2>1, <2>4, <3>1 DEF IsBlock
    <3>4. Named(x, msgs, declared) BY <3>3 DEF Named
    <3> HIDE DEF Of
    <3> QED BY <3>2, <3>4, OneNamed
  <2>5. CASE b.kind \notin {"call", "result", "thought"}
    <3>1. Of(b) = <<b>> BY <2>5
    <3>2. Named(b, msgs, declared) BY <2>5 DEF Named
    <3> HIDE DEF Of
    <3> QED BY <3>1, <3>2, OneNamed
  <2> QED BY <2>2, <2>3, <2>4, <2>5
<1>3. OpenAIParts(m, msgs, model, declared, cache) = FlattenSeq(t) BY DEF OpenAIParts
<1> HIDE DEF Of
<1>4. t = [i \in DOMAIN m.blocks |-> t[i]] /\ \A i \in DOMAIN m.blocks : AreNamed(t[i], msgs, declared)
  BY <1>1, <1>2
<1> HIDE DEF t
<1> QED BY <1>1, <1>3, <1>4, FlatNamed

LEMMA ClaudeNamed ==
    ASSUME NEW m, NEW msgs, BelongTo(m.blocks, msgs), NEW model, NEW declared, NEW cache
    PROVE  AreNamed(ClaudeParts(m, msgs, model, declared, cache), msgs, declared)
<1> DEFINE Before_(i) == {j \in 1..(i - 1) : m.blocks[j].kind = "thought"}
           Last_(i) == IF Before_(i) = {} THEN None
                       ELSE m.blocks[CHOOSE j \in Before_(i) : \A k \in Before_(i) : k <= j].sig
           Of(i) == LET b == m.blocks[i]
                    IN  CASE b.kind = "call" -> <<CallPart(b, Last_(i), model, declared, cache)>>
                          [] b.kind = "result" -> ResultParts(b, msgs, declared)
                          [] b.kind = "thought" /\ b.what = <<>> -> <<>>
                          [] OTHER -> <<b>>
           t == [i \in DOMAIN m.blocks |-> Of(i)]
<1>1. IsSeq(m.blocks) /\ \A i \in DOMAIN m.blocks : m.blocks[i] \in ToSet(m.blocks) BY DEF BelongTo, ToSet
<1>2. ASSUME NEW i \in DOMAIN m.blocks PROVE AreNamed(Of(i), msgs, declared)
  <2> HIDE DEF Last_
  <2>1. PICK b : b = m.blocks[i] OBVIOUS
  <2>2. IsBlock(b) /\ (b.kind = "call" => b \in CallsIn(msgs)) BY <1>1, <2>1 DEF BelongTo
  <2>3. CASE b.kind = "call"
    <3>1. PICK last : last = Last_(i) OBVIOUS
    <3>2. PICK q : q = <<CallPart(b, last, model, declared, cache)>> OBVIOUS
    <3>3. Of(i) = q BY <2>1, <2>3, <3>1, <3>2
    <3>4. AreNamed(q, msgs, declared) BY <2>2, <2>3, <3>2, CallIsNamed
    <3> QED BY <3>3, <3>4
  <2>4. CASE b.kind = "result"
    <3>1. Of(i) = ResultParts(b, msgs, declared) BY <2>1, <2>4
    <3> HIDE DEF Of
    <3> QED BY <2>2, <2>4, <3>1, ResultIsNamed
  <2>5. CASE b.kind = "thought" /\ b.what = <<>>
    <3>1. Of(i) = <<>> BY <2>1, <2>5
    <3> HIDE DEF Of
    <3> QED BY <3>1, EmptyIsSeq DEF AreNamed
  <2>6. CASE b.kind \notin {"call", "result"} /\ ~(b.kind = "thought" /\ b.what = <<>>)
    <3>1. Of(i) = <<b>> BY <2>1, <2>6
    <3>2. Named(b, msgs, declared) BY <2>6 DEF Named
    <3> HIDE DEF Of
    <3> QED BY <3>1, <3>2, OneNamed
  <2> QED BY <2>3, <2>4, <2>5, <2>6
<1>3. ClaudeParts(m, msgs, model, declared, cache) = FlattenSeq(t) BY DEF ClaudeParts
<1> HIDE DEF Of
<1>4. t = [i \in DOMAIN m.blocks |-> t[i]] /\ \A i \in DOMAIN m.blocks : AreNamed(t[i], msgs, declared)
  BY <1>1, <1>2
<1> HIDE DEF t
<1> QED BY <1>1, <1>3, <1>4, FlatNamed

LEMMA PartsOfNamed ==
    ASSUME NEW msgs, IsConversation(msgs), NEW i \in DOMAIN msgs, NEW d, NEW model, NEW declared, NEW cache
    PROVE  AreNamed(PartsOf(d, msgs[i], msgs, model, declared, cache), msgs, declared)
<1>1. PICK m : m = msgs[i] OBVIOUS
<1>2. IsMessage(m) BY <1>1 DEF IsConversation, ToSet
<1>3. m = [role |-> m.role, sig |-> m.sig, blocks |-> m.blocks] BY <1>2 DEF IsMessage
<1>4. \A b \in ToSet(m.blocks) : b.kind = "call" => b \in CallsIn(msgs) BY <1>1 DEF CallsIn
<1>5. BelongTo(m.blocks, msgs) BY <1>2, <1>4 DEF IsMessage, AreBlocks, BelongTo
<1>6. PICK x : x = IF d = "responses" THEN ItemMessage(m) ELSE m OBVIOUS
<1>7. x.blocks = m.blocks
  <2>1. PICK y : y = ItemMessage(m) OBVIOUS
  <2>2. y.blocks = m.blocks BY <1>3, <2>1 DEF ItemMessage
  <2> QED BY <1>6, <2>1, <2>2
<1>8. AreNamed(ClaudeParts(m, msgs, model, declared, cache), msgs, declared) BY <1>5, ClaudeNamed
<1>9. AreNamed(OpenAIParts(x, msgs, model, declared, cache), msgs, declared) BY <1>5, <1>7, OpenAINamed
<1>10. AreNamed(<<>>, msgs, declared) BY EmptyIsSeq DEF AreNamed
<1> QED BY <1>1, <1>6, <1>8, <1>9, <1>10 DEF PartsOf

LEMMA SanitizedNamed ==
    ASSUME NEW q, IsBlock(q), NEW m, NEW on, NEW msgs, NEW declared, Named(q, msgs, declared)
    PROVE  Named(Sanitized(q, m, on), msgs, declared)
<1>1. q = [kind |-> q.kind, what |-> q.what, id |-> q.id, name |-> q.name, sig |-> q.sig, media |-> q.media]
  BY DEF IsBlock
<1>2. PICK p : p = Sanitized(q, m, on) OBVIOUS
<1>3. PICK other : other = Or(q.sig, Sentinel) OBVIOUS
<1>4. \/ q.kind = "thought" /\ p = [q EXCEPT !.kind = "text", !.sig = None]
      \/ p = [q EXCEPT !.sig = other] \/ p = [q EXCEPT !.sig = None] \/ p = q
  BY <1>2, <1>3 DEF Sanitized
<1>5. p.id = q.id /\ p.name = q.name /\ (p.kind = q.kind \/ p.kind = "text")
  BY <1>1, <1>4
<1>6. Named(p, msgs, declared) BY <1>5 DEF Named
<1> QED BY <1>2, <1>6

-----------------------------------------------------------------------------
(* The whole conversion. *)

\* What the request r carries of the conversation msgs.
Carries(r, msgs) ==
  /\ AreContents(r.contents) /\ Alternates(r.contents)
  /\ Bares(FlattenSeq(PartLists(r.contents))) = Shows(FlattenSeq([i \in DOMAIN msgs |-> Heard(msgs[i])]))
  /\ \A p \in PartsIn(r.contents) : Named(p, msgs, FlattenTools(Tools))
  /\ r.calling.allowed # None => NamesOneTool(r.calling.allowed)

\* Messages a client of d may hold, of which one says something.
Sayable(msgs, d) ==
  /\ IsSeq(msgs) /\ \A i \in DOMAIN msgs : MayHold(msgs[i], d)
  /\ \E i \in DOMAIN msgs : Shows(Heard(msgs[i])) # <<>>

LEMMA ContentsKept ==
    ASSUME NEW d, NEW msgs, Sayable(msgs, d), NEW model, NEW declared, NEW cache,
           NEW contents, contents = Contents(d, msgs, model, declared, cache),
           NEW heard, heard = [i \in DOMAIN msgs |-> Heard(msgs[i])]
    PROVE  /\ AreContents(contents) /\ \A p \in PartsIn(contents) : IsBlock(p) /\ Named(p, msgs, declared)
           /\ Bares(FlattenSeq(PartLists(contents))) = Shows(FlattenSeq(heard))
<1>1. PICK raw : raw = Unmerged(d, msgs, model, declared, cache) OBVIOUS
<1>2. PICK merged : merged = MergeContents(raw) OBVIOUS
<1>3. contents = IF merged = <<>> THEN <<Blank>> ELSE merged
  BY <1>1, <1>2 DEF Contents, Unmerged, PartsOf
<1>4. /\ AreContents(raw) /\ \A p \in PartsIn(raw) : IsBlock(p)
      /\ Bares(FlattenSeq(PartLists(raw))) = Shows(FlattenSeq(heard))
      /\ PartsIn(raw) # {}
  BY <1>1, UnmergedKept DEF Sayable
<1>5. FlattenSeq(PartLists(merged)) = FlattenSeq(PartLists(raw)) BY <1>2, <1>4, MergeKept
<1>6. AreContents(merged) /\ PartsIn(merged) \subseteq PartsIn(raw) BY <1>2, <1>4, MergeLemma
<1>7. ToSet(FlattenSeq(PartLists(merged))) = PartsIn(merged) BY <1>6, PartsLemma DEF PartLists
<1>8. ToSet(FlattenSeq(PartLists(raw))) = PartsIn(raw) BY <1>4, PartsLemma DEF PartLists
<1>9. PartsIn(merged) # {} BY <1>4, <1>5, <1>7, <1>8
<1>10. merged # <<>>
  <2>1. DOMAIN <<>> = {} BY EmptyIsSeq
  <2>2. PartsIn(<<>>) = {} BY <2>1 DEF PartsIn
  <2> QED BY <1>9, <2>2
<1>11. contents = merged BY <1>3, <1>10
<1>12. \A p \in PartsIn(raw) : Named(p, msgs, declared)
  <2>1. DOMAIN raw = DOMAIN msgs BY <1>1 DEF Unmerged
  <2>2. IsConversation(msgs) BY DEF Sayable, MayHold, IsConversation, ToSet
  <2>3. ASSUME NEW i \in DOMAIN msgs PROVE AreNamed(raw[i].parts, msgs, declared)
    <3>1. PICK q : q = PartsOf(d, msgs[i], msgs, model, declared, cache) OBVIOUS
    <3>2. raw[i].parts = q BY <1>1, <3>1 DEF Unmerged
    <3> QED BY <2>2, <3>1, <3>2, PartsOfNamed
  <2> QED BY <2>1, <2>3 DEF PartsIn, AreNamed
<1> QED BY <1>4, <1>5, <1>6, <1>11, <1>12

LEMMA ConvertCarries ==
    ASSUME NEW d, NEW msgs, Sayable(msgs, d), NEW name, NEW s, NEW m, NEW cache
    PROVE  Carries(Convert(d, msgs, name, s, Tools, m, cache), msgs)
<1>1. PICK declared : declared = FlattenTools(Tools) OBVIOUS
<1>2. PICK contents : contents = Contents(d, msgs, m, declared, cache) OBVIOUS
<1>3. PICK gen : gen = NormalizeGeneration(m, Calibrate([max |-> s.max, thinking |-> ThinkingConfig(m, s)], name, m))
  OBVIOUS
<1>4. PICK thinking : thinking = IF m \in Claude /\ Enabled(gen.thinking) /\ Unsigned(contents)
                                 THEN ThinkingOff ELSE gen.thinking
  OBVIOUS
<1>5. PICK on : on = (Enabled(thinking) /\ ~IsImageModel(m)) OBVIOUS
<1>6. PICK t : t = [i \in DOMAIN contents |->
                      [contents[i] EXCEPT !.parts =
                         [k \in DOMAIN contents[i].parts |-> Sanitized(contents[i].parts[k], m, on)]]]
  OBVIOUS
<1>7. PICK tools : tools = IF IsImageModel(m) THEN <<>> ELSE Tools OBVIOUS
<1>8. PICK r : r = Convert(d, msgs, name, s, Tools, m, cache) OBVIOUS
<1>9. r.contents = MergeContents(t) /\ r.calling = FunctionCalling(s.choice, tools)
  BY <1>1, <1>2, <1>3, <1>4, <1>5, <1>6, <1>7, <1>8 DEF Convert
<1>10. PICK heard : heard = [i \in DOMAIN msgs |-> Heard(msgs[i])] OBVIOUS
<1>11. /\ AreContents(contents) /\ \A p \in PartsIn(contents) : IsBlock(p) /\ Named(p, msgs, declared)
       /\ Bares(FlattenSeq(PartLists(contents))) = Shows(FlattenSeq(heard))
  BY <1>2, <1>10, ContentsKept
<1>12. IsCleaned(t, contents, m, on) BY <1>6 DEF IsCleaned
<1>13. AreContents(t) /\ \A p \in PartsIn(t) : \E q \in PartsIn(contents) : p = Sanitized(q, m, on)
  BY <1>11, <1>12, CleanedAre
<1>14. Bares(FlattenSeq(PartLists(t))) = Shows(FlattenSeq(heard)) BY <1>11, <1>12, CleanedKept
<1>15. AreContents(r.contents) /\ PartsIn(r.contents) \subseteq PartsIn(t) BY <1>9, <1>13, MergeLemma
<1>16. FlattenSeq(PartLists(r.contents)) = FlattenSeq(PartLists(t)) /\ Alternates(r.contents)
  BY <1>9, <1>13, MergeKept
<1>17. ASSUME NEW p \in PartsIn(r.contents) PROVE Named(p, msgs, declared)
  <2>1. PICK q \in PartsIn(contents) : p = Sanitized(q, m, on) BY <1>13, <1>15
  <2> QED BY <1>11, <2>1, SanitizedNamed
<1>18. r.calling.allowed # None => NamesOneTool(r.calling.allowed) BY <1>7, <1>9, InsistedName
<1>19. Carries(r, msgs) BY <1>1, <1>10, <1>14, <1>15, <1>16, <1>17, <1>18 DEF Carries
<1> QED BY <1>8, <1>19

\* Calls of one id are calls of one tool.
SameNames(msgs) == \A b, c \in CallsIn(msgs) : b.id = c.id => b.name = c.name

LEMMA CarriedIsKept ==
    ASSUME Sent, Carries(request, history), SameNames(history) PROVE HistoryIsKept
<1>1. PICK declared : declared = FlattenTools(Tools) OBVIOUS
<1>2. PICK contents : contents = request.contents OBVIOUS
<1>3. PICK sent : sent = FlattenSeq(PartLists(contents)) OBVIOUS
<1>4. PICK allowed : allowed = request.calling.allowed OBVIOUS
<1>5. PartsSent = sent BY <1>2, <1>3 DEF PartsSent, PartLists
<1>6. HistoryBlocks = Shows(FlattenSeq([i \in DOMAIN history |-> Heard(history[i])]))
  BY DEF HistoryBlocks, Shows, Shown, Heard
<1>7. /\ AreContents(contents) /\ Alternates(contents) /\ Bares(sent) = HistoryBlocks
      /\ \A p \in PartsIn(contents) : Named(p, history, declared)
      /\ allowed # None => NamesOneTool(allowed)
  BY <1>1, <1>2, <1>3, <1>4, <1>6 DEF Carries
<1>8. ToSet(sent) = PartsIn(contents) BY <1>3, <1>7, PartsLemma DEF PartLists
<1>9. ASSUME NEW p \in ToSet(sent), NEW q \in ToSet(sent), p.kind = "call", q.kind = "result", p.id = q.id
      PROVE  p.name = q.name
  <2>1. PICK calls_ : calls_ = CallsIn(history) OBVIOUS
  <2>2. PICK c \in calls_ : c.id = p.id /\ p.name = ResolveDeclaredToolName(c.name, declared)
    BY <1>7, <1>8, <1>9, <2>1 DEF Named
  <2>3. PICK x : x = CHOOSE y \in calls_ : y.id = q.id OBVIOUS
  <2>4. x \in calls_ /\ x.id = q.id BY <1>9, <2>2, <2>3
  <2>5. \E y \in calls_ : y.id = q.id BY <2>4
  <2>6. q.name = ResolveDeclaredToolName(x.name, declared) BY <1>7, <1>8, <1>9, <2>1, <2>3, <2>5 DEF Named
  <2>7. c.name = x.name BY <1>9, <2>1, <2>2, <2>4 DEF SameNames
  <2> QED BY <2>2, <2>6, <2>7
<1>10. ASSUME NEW p \in ToSet(sent), p.kind = "call" PROVE NamesOneTool(p.name)
  <2>1. PICK c : p.name = ResolveDeclaredToolName(c.name, declared) BY <1>7, <1>8, <1>10 DEF Named
  <2>2. PICK name : name = c.name OBVIOUS
  <2> QED BY <1>1, <2>1, <2>2, ResolvedName
<1>11. HistoryBlocks = [k \in DOMAIN PartsSent |-> Bare(PartsSent[k])] BY <1>5, <1>7 DEF Bares
<1>12. \A i \in 1..(Len(request.contents) - 1) : request.contents[i].role # request.contents[i + 1].role
  BY <1>2, <1>7 DEF Alternates
<1> QED BY <1>4, <1>5, <1>7, <1>9, <1>10, <1>11, <1>12 DEF HistoryIsKept

-----------------------------------------------------------------------------
(* What a client holds names each call as the answer did: C are the calls  *)
(* of the answer, and every call that is told is one of them.              *)

\* No two tools are called under one id.
Distinct(C) == \A x, y \in C : x.id = y.id => x.name = y.name

Tellable(b, d, C) == Holdable(b, d) /\ (b.kind = "call" => \E c \in C : b.id = c.id /\ b.name = c.name)

AreTellable(s, d, C) == IsSeq(s) /\ \A b \in ToSet(s) : Tellable(b, d, C)

IsTelling(m, d, C) == m = [role |-> m.role, sig |-> m.sig, blocks |-> m.blocks] /\ AreTellable(m.blocks, d, C)

AreTelling(msgs, d, C) == IsSeq(msgs) /\ \A m \in ToSet(msgs) : IsTelling(m, d, C)

LEMMA TellingHolds ==
    ASSUME NEW msgs, NEW d, NEW C, AreTelling(msgs, d, C), Distinct(C)
    PROVE  SameNames(msgs) /\ \A i \in DOMAIN msgs : MayHold(msgs[i], d)
<1>1. \A i \in DOMAIN msgs : IsTelling(msgs[i], d, C) BY DEF AreTelling, ToSet
<1>2. \A i \in DOMAIN msgs : MayHold(msgs[i], d)
  BY <1>1 DEF MayHold, IsMessage, AreBlocks, IsTelling, AreTellable, Tellable, Holdable
<1>3. \A b \in CallsIn(msgs) : \E c \in C : b.id = c.id /\ b.name = c.name
  BY <1>1 DEF CallsIn, IsTelling, AreTellable, Tellable
<1>4. SameNames(msgs) BY <1>3 DEF SameNames, Distinct
<1> QED BY <1>2, <1>4

LEMMA TellableBlock ==
    ASSUME NEW kind, NEW what, NEW id, NEW name, NEW sig, NEW d, NEW C, kind # "call",
           kind # "thought" => sig = None, d # "claude" /\ kind = "thought" => what # <<>>
    PROVE  Tellable(Block(kind, what, id, name, sig), d, C)
<1>1. PICK off : off = FALSE OBVIOUS
<1>2. PICK b : b = Block(kind, what, id, name, sig) OBVIOUS
<1>3. b = [kind |-> kind, what |-> what, id |-> id, name |-> name, sig |-> sig, media |-> off]
  BY <1>1, <1>2 DEF Block
<1>4. b.kind = kind /\ b.what = what /\ b.media = off /\ b.sig = sig BY <1>3
<1>5. b.media = FALSE /\ b.media \in BOOLEAN BY <1>1, <1>4
<1>6. IsBlock(b) BY <1>2, MadeBlock
<1>7. Tellable(b, d, C) BY <1>4, <1>5, <1>6 DEF Tellable, Holdable
<1> QED BY <1>2, <1>7

LEMMA TellableCall ==
    ASSUME NEW x, NEW d, NEW C, \E c \in C : x.id = c.id /\ x.name = c.name
    PROVE  Tellable(CallBlock(x), d, C)
<1>1. PICK off : off = FALSE OBVIOUS
<1>2. PICK b : b = CallBlock(x) OBVIOUS
<1>3. b = [kind |-> "call", what |-> <<>>, id |-> x.id, name |-> x.name, sig |-> x.sig, media |-> off]
  BY <1>1, <1>2 DEF CallBlock, Block
<1>4. b.kind = "call" /\ b.id = x.id /\ b.name = x.name /\ b.media = off BY <1>3
<1>5. b.media = FALSE /\ b.media \in BOOLEAN BY <1>1, <1>4
<1>6. IsBlock(b) BY <1>2, CallBlockIs
<1>7. Tellable(b, d, C) BY <1>4, <1>5, <1>6 DEF Tellable, Holdable
<1> QED BY <1>2, <1>7

LEMMA NothingTellable == ASSUME NEW d, NEW C PROVE AreTellable(<<>>, d, C)
  BY EmptyIsSeq DEF AreTellable

LEMMA OneTellable == ASSUME NEW b, NEW d, NEW C, Tellable(b, d, C) PROVE AreTellable(<<b>>, d, C)
  BY OneElement DEF AreTellable

LEMMA TellableConcat ==
    ASSUME NEW d, NEW C, NEW s, AreTellable(s, d, C), NEW t, AreTellable(t, d, C)
    PROVE  AreTellable(s \o t, d, C)
<1>1. IsSeq(s) /\ IsSeq(t) BY DEF AreTellable
<1>2. IsSeq(s \o t) /\ ToSet(s \o t) = ToSet(s) \cup ToSet(t) BY <1>1, ConcatLemma
<1> QED BY <1>2 DEF AreTellable

LEMMA TellableMap ==
    ASSUME NEW d, NEW C, NEW s, IsSeq(s), NEW t, t = [k \in DOMAIN s |-> t[k]],
           \A k \in DOMAIN s : Tellable(t[k], d, C)
    PROVE  AreTellable(t, d, C)
<1>1. IsSeq(t) /\ ToSet(t) = {t[k] : k \in DOMAIN s} BY MapSeq
<1> QED BY <1>1 DEF AreTellable

LEMMA SpokenTellable ==
    ASSUME NEW kind, NEW what, NEW sig, NEW d, NEW C, kind # "call", kind # "thought" => sig = None
    PROVE  AreTellable(Spoken(kind, what, sig), d, C)
<1>1. PICK b : b = Block(kind, what, None, None, sig) OBVIOUS
<1>2. CASE what = <<>>
  <2>1. Spoken(kind, what, sig) = <<>> BY <1>2 DEF Spoken
  <2> QED BY <2>1, NothingTellable
<1>3. CASE what # <<>>
  <2>1. Spoken(kind, what, sig) = <<b>> BY <1>1, <1>3 DEF Spoken
  <2>2. Tellable(b, d, C) BY <1>1, <1>3, TellableBlock
  <2> QED BY <2>1, <2>2, OneTellable
<1> QED BY <1>2, <1>3

LEMMA TellingMessages ==
    ASSUME NEW d, NEW C, NEW blocks, AreTellable(blocks, d, C), NEW sig
    PROVE  IsTelling(Assistant(sig, blocks), d, C) /\ IsTelling(User(blocks), d, C)
  BY DEF Assistant, User, IsTelling

LEMMA OneTelling == ASSUME NEW d, NEW C, NEW m, IsTelling(m, d, C) PROVE AreTelling(<<m>>, d, C)
  BY OneElement DEF AreTelling

LEMMA TellingMap ==
    ASSUME NEW d, NEW C, NEW s, IsSeq(s), NEW t, t = [k \in DOMAIN s |-> t[k]],
           \A k \in DOMAIN s : IsTelling(t[k], d, C)
    PROVE  AreTelling(t, d, C)
<1>1. IsSeq(t) /\ ToSet(t) = {t[k] : k \in DOMAIN s} BY MapSeq
<1> QED BY <1>1 DEF AreTelling

LEMMA TellingConcat ==
    ASSUME NEW d, NEW C, NEW s, AreTelling(s, d, C), NEW t, AreTelling(t, d, C)
    PROVE  AreTelling(s \o t, d, C)
<1>1. IsSeq(s) /\ IsSeq(t) BY DEF AreTelling
<1>2. IsSeq(s \o t) /\ ToSet(s \o t) = ToSet(s) \cup ToSet(t) BY <1>1, ConcatLemma
<1> QED BY <1>2 DEF AreTelling

LEMMA QuestionTells == ASSUME NEW d, NEW C PROVE AreTelling(Question, d, C)
<1>1. PICK blocks : blocks = Spoken("text", <<0>>, None) OBVIOUS
<1>2. AreTellable(blocks, d, C) BY <1>1, SpokenTellable
<1>3. PICK a : a = [role |-> "system", sig |-> None, blocks |-> blocks] OBVIOUS
<1>4. PICK b : b = User(blocks) OBVIOUS
<1>5. IsTelling(a, d, C)
  <2>1. a.blocks = blocks /\ a = [role |-> a.role, sig |-> a.sig, blocks |-> a.blocks] BY <1>3
  <2> QED BY <1>2, <2>1 DEF IsTelling
<1>6. IsTelling(b, d, C) BY <1>2, <1>4, TellingMessages
<1>7. Question = <<a, b>> BY <1>1, <1>3, <1>4 DEF Question
<1> QED BY <1>5, <1>6, <1>7, TwoElements DEF AreTelling

LEMMA ResultsTell ==
    ASSUME NEW msgs, IsConversation(msgs), NEW d, NEW C PROVE AreTelling(Results(msgs), d, C)
<1> DEFINE blocks == FlattenSeq([i \in DOMAIN msgs |-> msgs[i].blocks])
           called == Among(blocks, {i \in DOMAIN blocks : blocks[i].kind = "call"})
           R(k) == [called[k] EXCEPT !.kind = "result", !.name = <<Last(@)>>, !.sig = None, !.media = k = 1]
           t == [k \in DOMAIN called |-> User(<<R(k)>>)]
           u == User(Spoken("text", <<-1>>, None))
<1>1. AreBlocks(blocks) BY AllBlocks
<1> HIDE DEF blocks
<1>2. AreBlocks(called) BY <1>1, SomeBlocks
<1>3. IsTelling(u, d, C) BY SpokenTellable, TellingMessages
<1>4. Results(msgs) = t \o <<u>> BY DEF Results, blocks
<1> HIDE DEF called, u
<1>5. ASSUME NEW k \in DOMAIN called PROVE IsTelling(t[k], d, C)
  <2>1. PICK b : b = called[k] OBVIOUS
  <2>2. PICK r : r = R(k) OBVIOUS
  <2>3. PICK name : name = <<Last(b.name)>> OBVIOUS
  <2>4. PICK first : first = (k = 1) /\ first \in BOOLEAN OBVIOUS
  <2>5. IsBlock(b) BY <1>2, <2>1 DEF AreBlocks, ToSet
  <2>6. r = [b EXCEPT !.kind = "result", !.name = name, !.sig = None, !.media = first] BY <2>1, <2>2, <2>3, <2>4
  <2>7. b = [kind |-> b.kind, what |-> b.what, id |-> b.id, name |-> b.name, sig |-> b.sig, media |-> b.media]
    BY <2>5 DEF IsBlock
  <2>8. r = [kind |-> "result", what |-> b.what, id |-> b.id, name |-> name, sig |-> None, media |-> first]
    BY <2>6, <2>7
  <2>9. /\ r.kind = "result" /\ r.sig = None /\ r.media = first
        /\ r = [kind |-> r.kind, what |-> r.what, id |-> r.id, name |-> r.name, sig |-> r.sig, media |-> r.media]
    BY <2>8
  <2>10. Tellable(r, d, C) BY <2>4, <2>9 DEF Tellable, Holdable, IsBlock
  <2>11. IsTelling(User(<<r>>), d, C) BY <2>10, OneTellable, TellingMessages
  <2>12. t[k] = User(<<r>>) BY <2>2
  <2> HIDE DEF t
  <2> QED BY <2>11, <2>12
<1>6. AreTelling(t, d, C)
  <2>1. t = [k \in DOMAIN called |-> t[k]] OBVIOUS
  <2>2. IsSeq(called) BY <1>2 DEF AreBlocks
  <2> HIDE DEF t
  <2> QED BY <1>5, <2>1, <2>2, TellingMap
<1> HIDE DEF t
<1>7. AreTelling(<<u>>, d, C) BY <1>3, OneTelling
<1> QED BY <1>4, <1>6, <1>7, TellingConcat

\* The calls of C as a client names them that lost something in its way.
KeptCalls(C, way) == {[id |-> c.id, name |-> IF way = "short" THEN <<Last(c.name)>> ELSE c.name] : c \in C}

LEMMA KeptDistinct == ASSUME NEW C, Distinct(C), NEW way PROVE Distinct(KeptCalls(C, way))
<1>1. ASSUME NEW x \in KeptCalls(C, way), NEW y \in KeptCalls(C, way), x.id = y.id PROVE x.name = y.name
  <2>1. PICK a \in C : x = [id |-> a.id, name |-> IF way = "short" THEN <<Last(a.name)>> ELSE a.name]
    BY DEF KeptCalls
  <2>2. PICK b \in C : y = [id |-> b.id, name |-> IF way = "short" THEN <<Last(b.name)>> ELSE b.name]
    BY DEF KeptCalls
  <2>3. a.id = b.id BY <1>1, <2>1, <2>2
  <2>4. a.name = b.name BY <2>3 DEF Distinct
  <2> QED BY <2>1, <2>2, <2>4
<1> QED BY <1>1 DEF Distinct

LEMMA KeptCall ==
    ASSUME NEW C, NEW way, NEW c \in C
    PROVE  \E x \in KeptCalls(C, way) : x.id = c.id /\ x.name = IF way = "short" THEN <<Last(c.name)>> ELSE c.name
<1>1. PICK name : name = IF way = "short" THEN <<Last(c.name)>> ELSE c.name OBVIOUS
<1>2. PICK x : x = [id |-> c.id, name |-> name] OBVIOUS
<1>3. x \in KeptCalls(C, way) BY <1>1, <1>2 DEF KeptCalls
<1>4. x.id = c.id /\ x.name = name BY <1>2
<1> QED BY <1>1, <1>3, <1>4

LEMMA KeptTells ==
    ASSUME NEW d, NEW C, NEW msg, IsTelling(msg, d, C), NEW way
    PROVE  IsTelling(Kept(msg, way), d, KeptCalls(C, way))
<1> DEFINE Of(b) == IF b.kind # "call" THEN b
                    ELSE CASE way \in {"unsigned", "bare"} -> [b EXCEPT !.sig = None]
                           [] way = "sentinel" -> [b EXCEPT !.sig = Sentinel]
                           [] way = "short" -> [b EXCEPT !.name = <<Last(@)>>]
                           [] OTHER -> b
           blocks == IF way = "bare"
                     THEN Among(msg.blocks, {i \in DOMAIN msg.blocks : msg.blocks[i].kind # "thought"})
                     ELSE msg.blocks
           t == [k \in DOMAIN blocks |-> Of(blocks[k])]
           sig == IF way = "bare" THEN None ELSE msg.sig
           D == KeptCalls(C, way)
<1>1. IsSeq(msg.blocks) /\ \A b \in ToSet(msg.blocks) : Tellable(b, d, C) BY DEF IsTelling, AreTellable
<1>2. IsSeq(blocks) /\ \A k \in DOMAIN blocks : Tellable(blocks[k], d, C)
  <2>1. IsSeq(blocks) /\ blocks \in Seq(ToSet(msg.blocks)) BY <1>1, AmongLemma DEF IsSeq
  <2>2. \A k \in DOMAIN blocks : blocks[k] \in ToSet(msg.blocks) BY <2>1
  <2> QED BY <1>1, <2>1, <2>2
<1> HIDE DEF blocks
<1>3. ASSUME NEW b, Tellable(b, d, C) PROVE Tellable(Of(b), d, D)
  <2>1. /\ b = [kind |-> b.kind, what |-> b.what, id |-> b.id, name |-> b.name, sig |-> b.sig, media |-> b.media]
        /\ b.kind \notin {"call", "thought"} => b.sig = None
    BY <1>3 DEF Tellable, Holdable, IsBlock
  <2>2. CASE b.kind # "call"
    <3>1. Of(b) = b BY <2>2
    <3> HIDE DEF Of, D
    <3> QED BY <1>3, <2>2, <3>1 DEF Tellable
  <2>3. CASE b.kind = "call"
    <3>1. PICK short : short = <<Last(b.name)>> OBVIOUS
    <3>2. PICK name : name = IF way = "short" THEN short ELSE b.name OBVIOUS
    <3>3. PICK x : x = Of(b) OBVIOUS
    <3>4. \/ way # "short" /\ x = [b EXCEPT !.sig = None]
          \/ way # "short" /\ x = [b EXCEPT !.sig = Sentinel]
          \/ way = "short" /\ x = [b EXCEPT !.name = short]
          \/ way # "short" /\ x = b
      <4>1. CASE way \in {"unsigned", "bare"} BY <2>3, <3>3, <4>1
      <4>2. CASE way = "sentinel" BY <2>3, <3>3, <4>2
      <4>3. CASE way = "short"
        <5>1. Of(b) = [b EXCEPT !.name = <<Last(b.name)>>] BY <2>3, <4>3
        <5> HIDE DEF Of
        <5> QED BY <3>1, <3>3, <4>3, <5>1
      <4>4. CASE way \notin {"unsigned", "bare", "sentinel", "short"} BY <2>3, <3>3, <4>4
      <4> QED BY <4>1, <4>2, <4>3, <4>4
    <3> HIDE DEF Of, D
    <3>5. /\ x = [kind |-> x.kind, what |-> x.what, id |-> x.id, name |-> x.name, sig |-> x.sig, media |-> x.media]
          /\ x.kind = "call" /\ x.id = b.id /\ x.name = name /\ x.media = b.media
      BY <2>1, <2>3, <3>2, <3>4
    <3>6. IsBlock(x) BY <3>5 DEF IsBlock
    <3>7. Holdable(x, d) BY <1>3, <2>3, <3>5, <3>6 DEF Tellable, Holdable
    <3>8. PICK c \in C : b.id = c.id /\ b.name = c.name BY <1>3, <2>3 DEF Tellable
    <3>9. PICK y \in D : y.id = c.id /\ y.name = IF way = "short" THEN <<Last(c.name)>> ELSE c.name
      BY KeptCall DEF D
    <3>10. y.name = name BY <3>1, <3>2, <3>8, <3>9
    <3>11. Tellable(x, d, D) BY <3>5, <3>7, <3>8, <3>9, <3>10 DEF Tellable
    <3> QED BY <3>3, <3>11
  <2> QED BY <2>2, <2>3
<1> HIDE DEF Of, D
<1>4. AreTellable(t, d, D)
  <2>1. \A k \in DOMAIN blocks : Tellable(t[k], d, D) BY <1>2, <1>3
  <2>2. t = [k \in DOMAIN blocks |-> t[k]] OBVIOUS
  <2> HIDE DEF t
  <2> QED BY <1>2, <2>1, <2>2, TellableMap
<1>5. Kept(msg, way) = [msg EXCEPT !.blocks = t, !.sig = sig] BY DEF Kept, blocks, Of
<1> HIDE DEF t, sig
<1>6. msg = [role |-> msg.role, sig |-> msg.sig, blocks |-> msg.blocks] BY DEF IsTelling
<1>7. PICK m : m = Kept(msg, way) OBVIOUS
<1>8. m = [role |-> msg.role, sig |-> sig, blocks |-> t] BY <1>5, <1>6, <1>7
<1>9. m.blocks = t /\ m = [role |-> m.role, sig |-> m.sig, blocks |-> m.blocks] BY <1>8
<1>10. IsTelling(m, d, D) BY <1>4, <1>9 DEF IsTelling
<1> QED BY <1>7, <1>10 DEF D

-----------------------------------------------------------------------------
(* The conversation a client holds once it read its answer. *)

\* A list of which one block shows.
LEMMA TextShows ==
    ASSUME NEW what, what # <<>>, NEW m, m = User(Spoken("text", what, None)) PROVE Shows(Heard(m)) # <<>>
<1>1. PICK b : b = Block("text", what, None, None, None) OBVIOUS
<1>2. m.role = "user" /\ m.blocks = <<b>> BY <1>1 DEF User, Spoken
<1>3. Heard(m) = <<b>> BY <1>2 DEF Heard, IsSystem
<1>4. PICK t : t = [k \in DOMAIN <<b>> |-> Shown(<<b>>[k])] OBVIOUS
<1>5. /\ AreLists(t) /\ DOMAIN t = DOMAIN <<b>> /\ \A k \in DOMAIN <<b>> : t[k] = Shown(<<b>>[k])
      /\ Shows(<<b>>) = FlattenSeq(t)
  BY <1>4, OneElement, ShownLists
<1>6. DOMAIN <<b>> = {1} /\ <<b>>[1] = b OBVIOUS
<1>7. ToSet(FlattenSeq(t)) = UNION {ToSet(t[i]) : i \in DOMAIN t} BY <1>5, FlattenLemma DEF AreLists
<1>8. t[1] = Shown(b) /\ 1 \in DOMAIN t BY <1>5, <1>6
<1>9. ToSet(Shown(b)) # {}
  <2>1. PICK x, y : x = Bare(b) /\ y = [Bare(b) EXCEPT !.kind = "media"] OBVIOUS
  <2>2. b.kind = "text" BY <1>1 DEF Block
  <2>3. Shown(b) = <<x, y>> \/ Shown(b) = <<x>> BY <2>1, <2>2 DEF Shown
  <2>4. ToSet(<<x, y>>) # {} /\ ToSet(<<x>>) # {} BY OneElement, TwoElements
  <2> QED BY <2>3, <2>4
<1>10. ToSet(FlattenSeq(t)) # {} BY <1>7, <1>8, <1>9
<1>11. FlattenSeq(t) # <<>> BY <1>10, EmptyIsSeq
<1> QED BY <1>3, <1>5, <1>11

\* What a client that read an answer holds.
LEMMA HistoryTells ==
    ASSUME NEW d, NEW C, Distinct(C), NEW answer, AreTelling(answer, d, C), NEW way,
           NEW msgs, msgs = [k \in DOMAIN answer |-> Kept(answer[k], way)],
           NEW whole, whole = (Question \o msgs) \o Results(msgs)
    PROVE  Sayable(whole, d) /\ SameNames(whole)
<1>1. PICK D : D = KeptCalls(C, way) OBVIOUS
<1>2. Distinct(D) BY <1>1, KeptDistinct
<1>3. IsSeq(answer) /\ \A k \in DOMAIN answer : IsTelling(answer[k], d, C) BY DEF AreTelling, ToSet
<1>4. \A k \in DOMAIN answer : IsTelling(msgs[k], d, D) BY <1>1, <1>3, KeptTells
<1>5. msgs = [k \in DOMAIN answer |-> msgs[k]] OBVIOUS
<1>6. AreTelling(msgs, d, D) BY <1>3, <1>4, <1>5, TellingMap
<1>7. IsConversation(msgs)
  BY <1>6 DEF AreTelling, IsTelling, AreTellable, Tellable, Holdable, IsConversation, IsMessage, AreBlocks
<1>8. PICK first, results : first = Question \o msgs /\ results = Results(msgs) OBVIOUS
<1>9. AreTelling(Question, d, D) BY QuestionTells
<1>10. AreTelling(first, d, D) BY <1>6, <1>8, <1>9, TellingConcat
<1>11. AreTelling(results, d, D) BY <1>7, <1>8, ResultsTell
<1>12. AreTelling(whole, d, D) BY <1>8, <1>10, <1>11, TellingConcat
<1>13. SameNames(whole) /\ \A i \in DOMAIN whole : MayHold(whole[i], d) BY <1>2, <1>12, TellingHolds
<1>14. 2 \in DOMAIN whole /\ Shows(Heard(whole[2])) # <<>>
  <2>1. PICK a, b : b = User(Spoken("text", <<0>>, None)) /\ Question = <<a, b>> BY DEF Question
  <2>2. IsSeq(Question) /\ IsSeq(msgs) /\ IsSeq(first) /\ IsSeq(results) /\ IsSeq(whole)
    BY <1>6, <1>9, <1>10, <1>11, <1>12 DEF AreTelling
  <2>3. Len(Question) = 2 /\ Question[2] = b BY <2>1, TwoElements
  <2>4. Len(first) = Len(Question) + Len(msgs) /\ \A i \in 1..Len(Question) : first[i] = Question[i]
    BY <1>8, <2>2, ConcatLemma
  <2>5. Len(whole) = Len(first) + Len(results) /\ \A i \in 1..Len(first) : whole[i] = first[i]
    BY <1>8, <2>2, ConcatLemma
  <2>6. Len(msgs) \in Nat /\ Len(results) \in Nat /\ DOMAIN whole = 1..Len(whole) BY <2>2, SeqFacts
  <2>7. 2 \in 1..Len(first) /\ 2 \in 1..Len(whole) BY <2>3, <2>4, <2>5, <2>6
  <2>8. whole[2] = b BY <2>3, <2>4, <2>5, <2>7
  <2>9. Len(<<0>>) = 1 /\ Len(<<>>) = 0 BY OneElement, EmptyIsSeq
  <2>10. <<0>> # <<>> BY <2>9
  <2>11. Shows(Heard(b)) # <<>> BY <2>1, <2>10, TextShows
  <2> QED BY <2>6, <2>7, <2>8, <2>11
<1>15. IsSeq(whole) BY <1>12 DEF AreTelling
<1> QED BY <1>13, <1>14, <1>15 DEF Sayable

-----------------------------------------------------------------------------
(* Every answer, as its client puts it together, tells of its calls. *)

\* What is said at some places is what the events there say.
LEMMA SaidFrom ==
    ASSUME NEW s, IsSeq(s), NEW K, K \subseteq DOMAIN s
    PROVE  /\ IsSeq(Said(s, K)) /\ \A j \in DOMAIN Said(s, K) : \E i \in K : Said(s, K)[j] = s[i].what
           /\ K # {} => 1 \in DOMAIN Said(s, K)
<1>1. PICK some : some = Among(s, K) OBVIOUS
<1>2. PICK t : t = [k \in DOMAIN some |-> some[k].what] OBVIOUS
<1>3. Said(s, K) = t BY <1>1, <1>2 DEF Said
<1>4. IsSeq(some) /\ \E p : Picks(p, some, s, Len(s), K) BY <1>1, AmongLemma
<1>5. PICK p : Picks(p, some, s, Len(s), K) BY <1>4
<1>6. t = [k \in DOMAIN some |-> t[k]] BY <1>2
<1>7. IsSeq(t) /\ DOMAIN t = DOMAIN some BY <1>4, <1>6, MapSeq
<1>8. DOMAIN some = 1..Len(some) /\ Len(some) \in Nat /\ DOMAIN s = 1..Len(s) BY <1>4, SeqFacts
<1>9. ASSUME NEW j \in DOMAIN t PROVE \E i \in K : t[j] = s[i].what
  <2>1. some[j] = s[p[j]] /\ p[j] \in K BY <1>5, <1>7, <1>8 DEF Picks
  <2>2. t[j] = some[j].what BY <1>2, <1>7
  <2> QED BY <2>1, <2>2
<1>10. ASSUME K # {} PROVE 1 \in DOMAIN t
  <2>1. PICK i \in K : i \in 1..Len(s) BY <1>8, <1>10
  <2>2. PICK j \in 1..Len(some) : p[j] = i BY <1>5, <2>1 DEF Picks
  <2> QED BY <1>7, <1>8, <2>2
<1> QED BY <1>3, <1>7, <1>9, <1>10

\* The calls of a stream.
CallAt(e) == IF protocol = "responses" THEN e.item.call ELSE e.what

StreamCalls == {CallAt(out[i]) : i \in {n \in DOMAIN out : IsCall(out[n])}}

LEMMA StreamDistinct == ASSUME CallsAreOnce, protocol # "json" PROVE Distinct(StreamCalls)
<1>1. PICK K : K = {n \in DOMAIN out : IsCall(out[n])} OBVIOUS
<1>2. PICK f : f = [i \in K |-> IF protocol = "responses" THEN out[i].item.call.id ELSE out[i].what.id] OBVIOUS
<1>3. CallIds = f BY <1>1, <1>2 DEF CallIds
<1>4. \A a, b \in K : f[a] = f[b] => a = b BY <1>2, <1>3 DEF CallsAreOnce, IsInjective
<1>5. \A i \in K : f[i] = CallAt(out[i]).id BY <1>2 DEF CallAt
<1>6. StreamCalls = {CallAt(out[i]) : i \in K} BY <1>1 DEF StreamCalls
<1>7. ASSUME NEW x \in StreamCalls, NEW y \in StreamCalls, x.id = y.id PROVE x.name = y.name
  <2>1. PICK i \in K : x = CallAt(out[i]) BY <1>6
  <2>2. PICK j \in K : y = CallAt(out[j]) BY <1>6
  <2>3. i = j BY <1>4, <1>5, <1>7, <2>1, <2>2
  <2> QED BY <2>1, <2>2, <2>3
<1> QED BY <1>7 DEF Distinct

LEMMA OpenAITells ==
    ASSUME NEW d, NEW C, NEW thoughts, NEW texts, NEW called, IsSeq(called), NEW sig,
           \A k \in DOMAIN called : called[k] \in C
    PROVE  AreTelling(OpenAIMessage(thoughts, texts, called, sig), d, C)
<1>1. PICK a, b : a = Spoken("thought", thoughts, None) /\ b = Spoken("text", texts, None) OBVIOUS
<1>2. PICK c : c = [k \in DOMAIN called |-> CallBlock(called[k])] OBVIOUS
<1>3. AreTellable(a, d, C) /\ AreTellable(b, d, C) BY <1>1, SpokenTellable
<1>4. AreTellable(c, d, C)
  <2>1. c = [k \in DOMAIN called |-> c[k]] BY <1>2
  <2>2. ASSUME NEW k \in DOMAIN called PROVE Tellable(c[k], d, C)
    <3>1. PICK x : x = called[k] OBVIOUS
    <3>2. Tellable(CallBlock(x), d, C) BY <3>1, TellableCall
    <3> QED BY <1>2, <3>1, <3>2
  <2> QED BY <2>1, <2>2, TellableMap
<1>5. AreTellable((a \o b) \o c, d, C) BY <1>3, <1>4, TellableConcat
<1>6. OpenAIMessage(thoughts, texts, called, sig) = <<Assistant(sig, (a \o b) \o c)>>
  BY <1>1, <1>2 DEF OpenAIMessage
<1> QED BY <1>5, <1>6, TellingMessages, OneTelling

LEMMA ClaudeTells ==
    ASSUME IsSeq(out), Filled(out), protocol = "claude" PROVE AreTelling(FromClaudeEvents, "claude", StreamCalls)
<1> DEFINE S == {i \in DOMAIN out : out[i].ev = "content_block_start"}
           starts == Among(out, S)
           At(i, kind) == {n \in DOMAIN out :
                             out[n].ev = "content_block_delta" /\ out[n].index = i /\ out[n].kind = kind}
           Deltas(i, kind) == Said(out, At(i, kind))
           Of(e) == CASE e.kind = "tool_use" -> CallBlock(Deltas(e.index, "tool_use")[1])
                      [] e.kind = "thinking" ->
                           LET sig == Deltas(e.index, "signature")
                           IN  Block("thought", Deltas(e.index, "thinking"), None, None,
                                     IF sig = <<>> THEN None ELSE sig[1])
                      [] OTHER -> Block("text", Deltas(e.index, "text"), None, None, None)
           t == [k \in DOMAIN starts |-> Of(starts[k])]
<1>1. IsSeq(starts) /\ \A k \in DOMAIN starts : \E i \in S : starts[k] = out[i]
  <2>1. PICK some : some = starts OBVIOUS
  <2>2. IsSeq(some) /\ \E p : Picks(p, some, out, Len(out), S) BY <2>1, AmongLemma
  <2>3. PICK p : Picks(p, some, out, Len(out), S) BY <2>2
  <2>4. DOMAIN some = 1..Len(some) BY <2>2, SeqFacts
  <2> HIDE DEF starts, S
  <2> QED BY <2>1, <2>2, <2>3, <2>4 DEF Picks
<1>2. FromClaudeEvents = <<Assistant(None, t)>> BY DEF FromClaudeEvents
<1>3. ASSUME NEW i \in S PROVE Tellable(Of(out[i]), "claude", StreamCalls)
  <2>1. PICK e : e = out[i] OBVIOUS
  <2>2. CASE e.kind = "tool_use"
    <3>1. PICK K : K = At(e.index, "tool_use") OBVIOUS
    <3>2. PICK f \in ToSet(out) : BringsCall(f, e.index)
      <4>1. e \in ToSet(out) /\ OpensCall(e) BY <2>1, <2>2 DEF ToSet, OpensCall
      <4> QED BY <4>1 DEF Filled
    <3>3. PICK n \in DOMAIN out : out[n] = f BY <3>2 DEF ToSet
    <3>4. n \in K /\ K \subseteq DOMAIN out BY <3>1, <3>2, <3>3 DEF BringsCall
    <3>5. PICK x : x = Said(out, K)[1] OBVIOUS
    <3>6. PICK m \in K : x = out[m].what BY <3>4, <3>5, SaidFrom
    <3>7. IsCall(out[m]) /\ m \in DOMAIN out BY <3>1, <3>6 DEF IsCall
    <3>8. x \in StreamCalls BY <3>6, <3>7 DEF StreamCalls, CallAt
    <3>9. Of(e) = CallBlock(x) BY <2>2, <3>1, <3>5
    <3>10. Tellable(CallBlock(x), "claude", StreamCalls) BY <3>8, TellableCall
    <3> HIDE DEF Of
    <3> QED BY <2>1, <3>9, <3>10
  <2>3. CASE e.kind = "thinking"
    <3>1. PICK y, sig : y = Deltas(e.index, "thinking") /\ sig = Deltas(e.index, "signature") OBVIOUS
    <3>2. PICK w : w = IF sig = <<>> THEN None ELSE sig[1] OBVIOUS
    <3>3. PICK b : b = Block("thought", y, None, None, w) OBVIOUS
    <3>4. Of(e) = b BY <2>3, <3>1, <3>2, <3>3
    <3>5. Tellable(b, "claude", StreamCalls) BY <3>3, TellableBlock
    <3> HIDE DEF Of
    <3> QED BY <2>1, <3>4, <3>5
  <2>4. CASE e.kind \notin {"tool_use", "thinking"}
    <3>1. PICK z : z = Deltas(e.index, "text") OBVIOUS
    <3>2. PICK b : b = Block("text", z, None, None, None) OBVIOUS
    <3>3. Of(e) = b BY <2>4, <3>1, <3>2
    <3>4. Tellable(b, "claude", StreamCalls) BY <3>2, TellableBlock
    <3> HIDE DEF Of
    <3> QED BY <2>1, <3>3, <3>4
  <2> QED BY <2>2, <2>3, <2>4
<1> HIDE DEF Of, starts, S
<1>4. \A k \in DOMAIN starts : Tellable(t[k], "claude", StreamCalls) BY <1>1, <1>3
<1>5. t = [k \in DOMAIN starts |-> t[k]] OBVIOUS
<1> HIDE DEF t
<1>6. AreTellable(t, "claude", StreamCalls) BY <1>1, <1>4, <1>5, TellableMap
<1> QED BY <1>2, <1>6, TellingMessages, OneTelling

LEMMA ChunksTell ==
    ASSUME IsSeq(out), protocol = "openai", NEW d PROVE AreTelling(FromChunks, d, StreamCalls)
<1> DEFINE At(kind) == {n \in DOMAIN out : out[n].ev = "chunk" /\ out[n].index = 0 /\ out[n].kind = kind}
           Field(kind) == Said(out, At(kind))
           sigs == Field("reasoning_signature")
<1>1. PICK a, b, sig : /\ a = Field("reasoning_content") /\ b = Field("content")
                       /\ sig = IF sigs = <<>> THEN None ELSE Last(sigs)
  OBVIOUS
<1>2. PICK K : K = At("tool_calls") OBVIOUS
<1>3. PICK c : c = Said(out, K) OBVIOUS
<1>4. FromChunks = OpenAIMessage(a, b, c, sig) BY <1>1, <1>2, <1>3 DEF FromChunks
<1>5. K \subseteq DOMAIN out BY <1>2
<1>6. IsSeq(c) /\ \A j \in DOMAIN c : \E i \in K : c[j] = out[i].what BY <1>3, <1>5, SaidFrom
<1>7. \A i \in K : IsCall(out[i]) /\ i \in DOMAIN out BY <1>2 DEF IsCall
<1>8. \A i \in K : out[i].what \in StreamCalls BY <1>7 DEF StreamCalls, CallAt
<1>9. \A j \in DOMAIN c : c[j] \in StreamCalls BY <1>6, <1>8
<1> QED BY <1>4, <1>6, <1>9, OpenAITells

LEMMA ItemsTell ==
    ASSUME IsSeq(out), out # <<>>, Claims(Last(out)), EventsAreInOrder, protocol = "responses", NEW d
    PROVE  AreTelling(FromItems, d, StreamCalls)
<1> DEFINE items == Last(out).output
           Of(item) == CASE item.type = "function_call" -> Assistant(None, <<CallBlock(item.call)>>)
                         [] item.type = "reasoning" -> Assistant(item.sig, Spoken("thought", item.text, None))
                         [] OTHER -> Assistant(None, Spoken("text", item.text, None))
           t == [k \in DOMAIN items |-> Of(items[k])]
           K == {j \in DOMAIN out : out[j].ev = "output_item.done"}
<1>1. items = Done(out)
  <2>1. PICK n : n = Len(out) OBVIOUS
  <2>2. PICK e : e = out[n] OBVIOUS
  <2>3. n \in DOMAIN out /\ Last(out) = e BY <2>1, <2>2, SeqFacts
  <2>4. ResponsesOrder(out, n) BY <2>3 DEF EventsAreInOrder
  <2>5. e.ev \in {"message_stop", "[DONE]", "json", "response.completed", "response.incomplete"}
    BY <2>3 DEF Claims
  <2>6. e.output = Done(out) BY <2>2, <2>4, <2>5 DEF ResponsesOrder
  <2> QED BY <2>3, <2>6
<1>2. IsSeq(items) /\ \A k \in DOMAIN items : \E i \in K : items[k] = out[i].item
  <2>1. PICK dones : dones = Among(out, K) OBVIOUS
  <2>2. PICK its : its = [k \in DOMAIN dones |-> dones[k].item] OBVIOUS
  <2>3. Done(out) = its BY <2>1, <2>2 DEF Done
  <2>4. IsSeq(dones) /\ \E p : Picks(p, dones, out, Len(out), K) BY <2>1, AmongLemma
  <2>5. PICK p : Picks(p, dones, out, Len(out), K) BY <2>4
  <2>6. its = [k \in DOMAIN dones |-> its[k]] BY <2>2
  <2>7. IsSeq(its) /\ DOMAIN its = DOMAIN dones BY <2>4, <2>6, MapSeq
  <2>8. DOMAIN dones = 1..Len(dones) BY <2>4, SeqFacts
  <2>9. ASSUME NEW k \in DOMAIN its PROVE \E i \in K : its[k] = out[i].item
    <3>1. dones[k] = out[p[k]] /\ p[k] \in K BY <2>5, <2>7, <2>8 DEF Picks
    <3>2. its[k] = dones[k].item BY <2>2, <2>7
    <3> QED BY <3>1, <3>2
  <2> HIDE DEF items, K
  <2> QED BY <1>1, <2>3, <2>7, <2>9
<1>3. ASSUME NEW i \in K PROVE IsTelling(Of(out[i].item), d, StreamCalls)
  <2>1. PICK item : item = out[i].item OBVIOUS
  <2>2. PICK body : body = item.text OBVIOUS
  <2>3. CASE item.type = "function_call"
    <3>1. PICK x : x = item.call OBVIOUS
    <3>2. IsCall(out[i]) BY <2>1, <2>3 DEF IsCall
    <3>3. x \in StreamCalls BY <2>1, <3>1, <3>2 DEF StreamCalls, CallAt
    <3>4. AreTellable(<<CallBlock(x)>>, d, StreamCalls) BY <3>3, TellableCall, OneTellable
    <3>5. PICK s : s = <<CallBlock(x)>> OBVIOUS
    <3>6. IsTelling(Assistant(None, s), d, StreamCalls) BY <3>4, <3>5, TellingMessages
    <3>7. Of(item) = Assistant(None, s) BY <2>3, <3>1, <3>5
    <3> HIDE DEF Of
    <3> QED BY <2>1, <3>6, <3>7
  <2>4. CASE item.type = "reasoning"
    <3>1. PICK s, sig : s = Spoken("thought", body, None) /\ sig = item.sig OBVIOUS
    <3>2. AreTellable(s, d, StreamCalls) BY <3>1, SpokenTellable
    <3>3. Of(item) = Assistant(sig, s) BY <2>2, <2>4, <3>1
    <3>4. IsTelling(Assistant(sig, s), d, StreamCalls) BY <3>2, TellingMessages
    <3> HIDE DEF Of
    <3> QED BY <2>1, <3>3, <3>4
  <2>5. CASE item.type \notin {"function_call", "reasoning"}
    <3>1. PICK s : s = Spoken("text", body, None) OBVIOUS
    <3>2. AreTellable(s, d, StreamCalls) BY <3>1, SpokenTellable
    <3>3. Of(item) = Assistant(None, s) BY <2>2, <2>5, <3>1
    <3>4. IsTelling(Assistant(None, s), d, StreamCalls) BY <3>2, TellingMessages
    <3> HIDE DEF Of
    <3> QED BY <2>1, <3>3, <3>4
  <2> QED BY <2>3, <2>4, <2>5
<1>4. FromItems = t BY DEF FromItems
<1> HIDE DEF Of, items, K
<1>5. \A k \in DOMAIN items : IsTelling(t[k], d, StreamCalls) BY <1>2, <1>3
<1>6. t = [k \in DOMAIN items |-> t[k]] OBVIOUS
<1> HIDE DEF t
<1> QED BY <1>2, <1>4, <1>5, <1>6, TellingMap

\* The calls of the first choice of a collected answer.
FirstCalls == ToSet(out[1].choices[1].calls)

LEMMA CollectedDistinct ==
    ASSUME CallsAreOnce, protocol = "json", out # <<>>, 1 \in DOMAIN out[1].choices PROVE Distinct(FirstCalls)
<1>1. PICK choices : choices = out[1].choices OBVIOUS
<1>2. PICK called : called = choices[1].calls OBVIOUS
<1>3. PICK places : places = UNION {{k} \X DOMAIN choices[k].calls : k \in DOMAIN choices} OBVIOUS
<1>4. PICK f : f = [c \in places |-> choices[c[1]].calls[c[2]].id] OBVIOUS
<1>5. CallIds = f BY <1>1, <1>3, <1>4 DEF CallIds
<1>6. \A a, b \in places : f[a] = f[b] => a = b BY <1>4, <1>5 DEF CallsAreOnce, IsInjective
<1>7. ASSUME NEW i \in DOMAIN called PROVE <<1, i>> \in places /\ f[<<1, i>>] = called[i].id
  <2>1. <<1, i>> \in {1} \X DOMAIN choices[1].calls BY <1>2
  <2>2. <<1, i>> \in places BY <1>1, <1>3, <2>1
  <2>3. f[<<1, i>>] = choices[1].calls[i].id BY <1>4, <2>2
  <2> QED BY <1>2, <2>2, <2>3
<1>8. FirstCalls = {called[i] : i \in DOMAIN called} BY <1>1, <1>2 DEF FirstCalls, ToSet
<1>9. ASSUME NEW x \in FirstCalls, NEW y \in FirstCalls, x.id = y.id PROVE x.name = y.name
  <2>1. PICK i \in DOMAIN called : x = called[i] BY <1>8
  <2>2. PICK j \in DOMAIN called : y = called[j] BY <1>8
  <2>3. <<1, i>> = <<1, j>> BY <1>6, <1>7, <1>9, <2>1, <2>2
  <2>4. i = j BY <2>3
  <2> QED BY <2>1, <2>2, <2>4
<1> QED BY <1>9 DEF Distinct

LEMMA MessageTells ==
    ASSUME DoneTyped, phase = "done", protocol = "json" PROVE AreTelling(FromClaudeMessage, "claude", FirstCalls)
<1> DEFINE blocks == out[1].message.content
           Of(b) == CASE b.type = "tool" -> CallBlock(b)
                      [] b.type = "thought" -> Block("thought", b.text, None, None, b.sig)
                      [] OTHER -> Block("text", b.text, None, None, None)
           t == [k \in DOMAIN blocks |-> Of(blocks[k])]
<1>1. IsSeq(blocks) /\ \A b \in ToSet(blocks) : b.type = "tool" => \E c \in FirstCalls : c.id = b.id /\ c.name = b.name
  BY DEF DoneTyped, FirstCalls
<1>2. ASSUME NEW b \in ToSet(blocks) PROVE Tellable(Of(b), "claude", FirstCalls)
  <2>1. CASE b.type = "tool"
    <3>1. Tellable(CallBlock(b), "claude", FirstCalls) BY <1>1, <2>1, TellableCall
    <3>2. Of(b) = CallBlock(b) BY <2>1
    <3> HIDE DEF Of
    <3> QED BY <3>1, <3>2
  <2>2. CASE b.type = "thought"
    <3>1. PICK what, sig : what = b.text /\ sig = b.sig OBVIOUS
    <3>2. PICK x : x = Block("thought", what, None, None, sig) OBVIOUS
    <3>3. Tellable(x, "claude", FirstCalls) BY <3>2, TellableBlock
    <3>4. Of(b) = x BY <2>2, <3>1, <3>2
    <3> HIDE DEF Of
    <3> QED BY <3>3, <3>4
  <2>3. CASE b.type \notin {"tool", "thought"}
    <3>1. PICK what : what = b.text OBVIOUS
    <3>2. PICK x : x = Block("text", what, None, None, None) OBVIOUS
    <3>3. Tellable(x, "claude", FirstCalls) BY <3>2, TellableBlock
    <3>4. Of(b) = x BY <2>3, <3>1, <3>2
    <3> HIDE DEF Of
    <3> QED BY <3>3, <3>4
  <2> QED BY <2>1, <2>2, <2>3
<1>3. FromClaudeMessage = <<Assistant(None, t)>> BY DEF FromClaudeMessage
<1>4. \A k \in DOMAIN blocks : blocks[k] \in ToSet(blocks) BY DEF ToSet
<1> HIDE DEF Of, blocks
<1>5. \A k \in DOMAIN blocks : Tellable(t[k], "claude", FirstCalls) BY <1>2, <1>4
<1>6. t = [k \in DOMAIN blocks |-> t[k]] OBVIOUS
<1> HIDE DEF t
<1>7. AreTellable(t, "claude", FirstCalls) BY <1>1, <1>5, <1>6, TellableMap
<1> QED BY <1>3, <1>7, TellingMessages, OneTelling

LEMMA ChoiceTells ==
    ASSUME DoneTyped, phase = "done", protocol = "json", NEW d PROVE AreTelling(FromChoice, d, FirstCalls)
<1>1. PICK a, b, called, sig : FromChoice = OpenAIMessage(a, b, called, sig) /\ called = out[1].choices[1].calls
  BY DEF FromChoice
<1>2. IsSeq(called) /\ FirstCalls = ToSet(called) BY <1>1 DEF DoneTyped, FirstCalls
<1>3. \A k \in DOMAIN called : called[k] \in FirstCalls BY <1>2 DEF ToSet
<1> QED BY <1>1, <1>2, <1>3, OpenAITells

\* An answer that is done tells of its calls what was delivered.
LEMMA AnswerTells ==
    ASSUME AnswerInv, EventsAreInOrder, CallsAreOnce, phase = "done", NEW d \in DialectsOf(protocol)
    PROVE  \E C : Distinct(C) /\ AreTelling(Answer(d), d, C)
<1>1. /\ IsSeq(out) /\ DoneTyped /\ protocol \in Protocols /\ Claims(Last(out))
      /\ protocol = "claude" => Filled(out)
  BY DEF AnswerInv, EndInv, Flow, EndIsHonest, DoneInv, FilledInv
<1>2. CASE protocol = "claude"
  <2>1. d = "claude" /\ Answer(d) = FromClaudeEvents BY <1>2 DEF DialectsOf, Answer
  <2>2. Distinct(StreamCalls) /\ AreTelling(FromClaudeEvents, "claude", StreamCalls)
    BY <1>1, <1>2, StreamDistinct, ClaudeTells
  <2> QED BY <2>1, <2>2
<1>3. CASE protocol = "openai"
  <2>1. Answer(d) = FromChunks BY <1>3 DEF Answer
  <2>2. Distinct(StreamCalls) /\ AreTelling(FromChunks, d, StreamCalls) BY <1>1, <1>3, StreamDistinct, ChunksTell
  <2> QED BY <2>1, <2>2
<1>4. CASE protocol = "responses"
  <2>1. Answer(d) = FromItems BY <1>4 DEF Answer
  <2>2. out # <<>> BY <1>1, <1>4 DEF DoneTyped
  <2>3. Distinct(StreamCalls) /\ AreTelling(FromItems, d, StreamCalls)
    BY <1>1, <1>4, <2>2, StreamDistinct, ItemsTell
  <2> QED BY <2>1, <2>3
<1>5. CASE protocol = "json"
  <2>1. Distinct(FirstCalls) BY <1>1, <1>5, CollectedDistinct DEF DoneTyped
  <2>2. CASE d = "claude"
    <3>1. Answer(d) = FromClaudeMessage BY <1>5, <2>2 DEF Answer
    <3>2. AreTelling(FromClaudeMessage, "claude", FirstCalls) BY <1>1, <1>5, MessageTells
    <3> QED BY <2>1, <2>2, <3>1, <3>2
  <2>3. CASE d # "claude"
    <3>1. Answer(d) = FromChoice BY <1>5, <2>3 DEF Answer
    <3>2. AreTelling(FromChoice, d, FirstCalls) BY <1>1, <1>5, ChoiceTells
    <3> QED BY <2>1, <3>1, <3>2
  <2> QED BY <2>2, <2>3
<1> QED BY <1>1, <1>2, <1>3, <1>4, <1>5 DEF Protocols, Streamed

-----------------------------------------------------------------------------
(* The invariants: what a client holds can be sent, one name for each      *)
(* call, and what was sent is what it holds.                               *)

HistInv == dialect # None => Sayable(history, dialect) /\ SameNames(history)

KeptInv == Sent => dialect # None /\ Carries(request, history)

\* What was stored and what is new after it are the whole history.
LEMMA ChainedIsWhole ==
    ASSUME NEW s, IsSeq(s), NEW k \in 0..Len(s), NEW t, IsSeq(t), Len(t) + k = Len(s), IsPrefix(t, s)
    PROVE  t \o SubSeq(s, Len(s) - k + 1, Len(s)) = s
<1> DEFINE n == Len(s)
           new == SubSeq(s, n - k + 1, n)
<1>1. s \in Seq(ToSet(s)) /\ n \in Nat /\ Len(t) \in Nat /\ DOMAIN s = 1..n BY SeqFacts DEF IsSeq
<1>2. new \in Seq(ToSet(s)) /\ Len(new) = k /\ \A i \in 1..k : new[i] = s[n - k + i]
  <2>1. n - k + 1 \in 1..(n + 1) BY <1>1
  <2>2. new \in Seq(ToSet(s)) BY <1>1, <2>1
  <2>3. Len(new) = k BY <1>1, <2>1
  <2>4. \A i \in 1..k : new[i] = s[n - k + i] BY <1>1, <2>1
  <2> QED BY <2>2, <2>3, <2>4
<1>3. IsSeq(new) BY <1>2, TypedIsSeq
<1>4. \A i \in 1..Len(t) : t[i] = s[i]
  <2>1. Len(t) \in 0..n BY <1>1
  <2>2. SubSeq(t, 1, Len(t)) = SubSeq(s, 1, Len(t)) BY DEF IsPrefix
  <2>3. \A i \in 1..Len(t) : SubSeq(s, 1, Len(t))[i] = s[i] BY <2>1, PrefixLemma
  <2>4. Len(t) \in 0..Len(t) BY <1>1
  <2>5. \A i \in 1..Len(t) : SubSeq(t, 1, Len(t))[i] = t[i] BY <2>4, PrefixLemma
  <2> QED BY <2>2, <2>3, <2>5
<1> HIDE DEF new
<1> DEFINE u == t \o new
<1>5. /\ IsSeq(u) /\ Len(u) = Len(t) + Len(new)
      /\ \A i \in 1..Len(t) : u[i] = t[i]
      /\ \A i \in 1..Len(new) : u[Len(t) + i] = new[i]
  BY <1>3, ConcatLemma
<1> HIDE DEF u
<1>6. Len(u) = n BY <1>1, <1>2, <1>5
<1>7. ASSUME NEW i \in 1..n PROVE u[i] = s[i]
  <2>1. CASE i \in 1..Len(t) BY <1>4, <1>5, <2>1
  <2>2. CASE i \notin 1..Len(t)
    <3>1. i - Len(t) \in 1..k BY <1>1, <2>2
    <3>2. n - k + (i - Len(t)) = i /\ Len(t) + (i - Len(t)) = i BY <1>1
    <3>3. new[i - Len(t)] = s[n - k + (i - Len(t))] BY <1>2, <3>1
    <3>4. u[Len(t) + (i - Len(t))] = new[i - Len(t)] BY <1>2, <1>5, <3>1
    <3> QED BY <3>2, <3>3, <3>4
  <2> QED BY <2>1, <2>2
<1>8. u = s BY <1>5, <1>6, <1>7, SameSeq
<1> QED BY <1>8 DEF u, new

\* The answer a client took was in order and called each tool once.
LEMMA Replies == ASSUME ExchangeInv, AnswerIsKept, Reply PROVE HistInv'
<1>1. PICK d \in DialectsOf(protocol), way \in Ways, name \in Names, s \in Settings, roll \in Rolls, offer \in Offers :
        LET answer == Answer(d)
            msgs == [k \in DOMAIN answer |-> Kept(answer[k], way)]
        IN  /\ dialect' = d
            /\ history' = Question \o msgs \o Results(msgs)
  BY ZenonT(60) DEF Reply
<1>2. PICK C : Distinct(C) /\ AreTelling(Answer(d), d, C)
  BY AnswerTells DEF ExchangeInv, AnswerIsKept, Reply
<1> DEFINE answer == Answer(d)
           msgs == [k \in DOMAIN answer |-> Kept(answer[k], way)]
           whole == (Question \o msgs) \o Results(msgs)
<1>3. dialect' = d /\ history' = whole BY <1>1
<1>4. AreTelling(answer, d, C) BY <1>2
<1> HIDE DEF answer
<1>5. msgs = [k \in DOMAIN answer |-> Kept(answer[k], way)] OBVIOUS
<1> HIDE DEF msgs
<1>6. whole = (Question \o msgs) \o Results(msgs) OBVIOUS
<1> HIDE DEF whole
<1>7. Sayable(whole, d) /\ SameNames(whole) BY <1>2, <1>4, <1>5, <1>6, HistoryTells
<1> QED BY <1>3, <1>7 DEF HistInv

LEMMA SendsCarries ==
    ASSUME NEW msgs, msgs = history, HistInv, dialect # None, Sends(msgs), UNCHANGED turnVars PROVE KeptInv'
<1>1. PICK s \in Settings, roll \in Rolls, offer \in Offers :
        request' = Convert(dialect, msgs, Used(requested, roll), s, Tools,
                           Route(Used(requested, roll), s, offer), signatures)
  BY DEF Sends
<1>2. Sayable(msgs, dialect) BY DEF HistInv
<1>3. Carries(request', msgs) BY <1>1, <1>2, ConvertCarries
<1>4. dialect' = dialect /\ history' = history BY DEF turnVars
<1> QED BY <1>3, <1>4 DEF KeptInv

LEMMA HistorySame == ASSUME HistInv, UNCHANGED turnVars PROVE HistInv'
<1>1. dialect' = dialect /\ history' = history BY DEF turnVars
<1> QED BY <1>1 DEF HistInv

LEMMA CarriedSame == ASSUME KeptInv, UNCHANGED <<turnVars, sentVars>> PROVE KeptInv'
<1>1. dialect' = dialect /\ history' = history BY DEF turnVars
<1>2. request' = request BY DEF sentVars
<1> QED BY <1>1, <1>2 DEF KeptInv, Sent

LEMMA CarryStep ==
    ASSUME ExchangeInv, AnswerIsKept, HistInv, KeptInv, [ExchangeNext]_<<vars, exchangeVars>>
    PROVE  HistInv' /\ KeptInv'
<1>1. CASE UNCHANGED exchangeVars BY <1>1, HistorySame, CarriedSame DEF exchangeVars
<1>2. CASE Reply
  <2>1. ~Sent /\ request' = request BY <1>2 DEF Reply, KeptInv, sentVars
  <2>2. KeptInv' BY <2>1 DEF KeptInv, Sent
  <2> QED BY <1>2, <2>2, Replies
<1>3. CASE OtherConversation BY <1>3, HistorySame, CarriedSame DEF OtherConversation
<1>4. CASE TimePasses BY <1>4, HistorySame, CarriedSame DEF TimePasses
<1>5. CASE Send BY <1>5, HistorySame, SendsCarries DEF Send, Held
<1>6. CASE SendChained
  <2> DEFINE stored == EntryOf(responses, MyResponse).value
             msgs == stored \o SubSeq(history, Len(history) - fresh + 1, Len(history))
  <2>1. /\ dialect # None /\ Finds(responses, MyResponse) /\ Len(stored) + fresh = Len(history)
        /\ IsPrefix(stored, history) /\ Sends(msgs) /\ UNCHANGED turnVars
    BY <1>6 DEF SendChained, Held
  <2>2. IsConversation(stored)
    <3>1. \E i \in DOMAIN responses.entries : EntryOf(responses, MyResponse) = responses.entries[i]
      BY <2>1 DEF Finds, Holds, EntryOf
    <3> QED BY <3>1 DEF ExchangeInv, CachesInv, Stored, ToSet
  <2>3. IsSeq(stored) /\ IsSeq(history) /\ fresh \in 0..Len(history)
    BY <2>2 DEF ExchangeInv, TalkInv, IsConversation
  <2> HIDE DEF stored
  <2>4. msgs = history BY <2>1, <2>3, ChainedIsWhole
  <2> HIDE DEF msgs
  <2> QED BY <2>1, <2>4, HistorySame, SendsCarries
<1>7. CASE ChainBroken BY <1>7, HistorySame, CarriedSame DEF ChainBroken
<1>8. CASE ExchangeOver BY <1>1, <1>8 DEF ExchangeOver
<1> QED BY <1>1, <1>2, <1>3, <1>4, <1>5, <1>6, <1>7, <1>8 DEF ExchangeNext

\* Whatever was answered, in whatever protocol, whatever the client lost of it
\* or the gateway stored of it, and whichever model serves the second turn:
\* nothing of the conversation is lost, doubled or reordered on its way back,
\* the roles alternate, a result is named like its call and a tool named in
\* short goes by the name of the one declaration it can mean
\* (responsesToMessages, claudeParts, mergeContents, resolveDeclaredToolName).
THEOREM HistoryComesBack == ExchangeSpec => []HistoryIsKept
<1>1. ExchangeInit => ExchangeInv /\ ToldInv BY ExchangeStart, ToldStart DEF ExchangeInit
<1>2. ExchangeInit => HistInv /\ KeptInv BY DEF ExchangeInit, HistInv, KeptInv, Sent
<1>3. ExchangeInv /\ ToldInv /\ [ExchangeNext]_<<vars, exchangeVars>> => ExchangeInv' /\ ToldInv'
  BY ExchangeStep, ToldInExchange
<1>4. ExchangeInv /\ ToldInv /\ HistInv /\ KeptInv /\ [ExchangeNext]_<<vars, exchangeVars>> => HistInv' /\ KeptInv'
  BY CarryStep, AnswerKept
<1>5. HistInv /\ KeptInv => HistoryIsKept
  <2> SUFFICES ASSUME HistInv, KeptInv, Sent PROVE HistoryIsKept BY DEF HistoryIsKept
  <2> QED BY CarriedIsKept DEF HistInv, KeptInv
<1> QED BY <1>1, <1>2, <1>3, <1>4, <1>5, PTL DEF ExchangeSpec
=============================================================================
