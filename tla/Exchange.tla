------------------------------ MODULE Exchange ------------------------------
(***************************************************************************)
(* A conversation of two turns: the answer of the first turn (Streams),    *)
(* what the client makes of it, what the gateway remembers of it (the      *)
(* signatures of its tool calls, convert/signature_cache.go, and the       *)
(* history of responses, httpapi/responses.go), and the request of the     *)
(* second turn, converted for the model that then serves it (Conversion).  *)
(***************************************************************************)
EXTENDS Streams, Conversion

CONSTANTS Tools,           \* the tools a client declares: a sequence of [ns, name]
          Names,           \* the models it may ask for
          Rules,           \* the mix rules
          Settings,        \* what it may ask of thinking, tokens and tools
          Offers,          \* what the account of the second turn serves: [models, forwarding]
          SignatureLimit,  \* bounds of the cache of signatures: [entries, bytes, single]
          ResponseLimit,   \* and of the response history
          MaxReadBack,     \* bound: frames of an answer that is sent back
          MaxOthers        \* bound: entries of other conversations

\* thinkingConfig: whether it is on, its budget of tokens, its level.
ThinkingConfigs ==
  [on : BOOLEAN, budget : Int \cup {None}, level : {s.effort : s \in Settings} \cup {"high", None}]

\* A client's numbers are whole, or it gives none; no thinkingConfig is none.
ASSUME SettingsAssumption ==
  /\ \A s \in Settings : {s.max, s.budget} \subseteq Int \cup {None}
  /\ None \notin ThinkingConfigs

\* The bounds of both caches are numbers of entries and of bytes.
ASSUME LimitsAssumption ==
  \A limit \in {SignatureLimit, ResponseLimit} : limit.entries \in Nat /\ limit.bytes \in Nat

VARIABLES dialect,     \* the protocol of the client, None before the answer
          requested,   \* the model it asks for
          origin,      \* history: the family of the model that gave the answer
          history,     \* the messages the client holds
          fresh,       \* how many of them, from the end, the gateway has not seen
          signatures,  \* toolSignatureCache
          responses,   \* responseHistory
          others,      \* how many entries other conversations have made
          request,     \* what was sent upstream, or None
          asked        \* history: the settings it was asked with

turnVars == <<dialect, requested, origin, history, fresh>>
sentVars == <<request, asked>>
exchangeVars == <<turnVars, signatures, responses, others, sentVars>>

ExchangeInit ==
  /\ StreamsInit
  /\ dialect = None /\ requested = None /\ origin = None
  /\ history = <<>> /\ fresh = 0
  /\ signatures = EmptyCache /\ responses = EmptyCache
  /\ others = 0 /\ request = None /\ asked = None

-----------------------------------------------------------------------------
(* The answer as the client holds it *)

CallBlock(c) == Block("call", <<>>, c.id, c.name, c.sig)

Assistant(sig, blocks) == [role |-> "assistant", sig |-> sig, blocks |-> blocks]

Spoken(kind, what, sig) == IF what = <<>> THEN <<>> ELSE <<Block(kind, what, None, None, sig)>>

FromClaudeEvents ==
  LET starts == Among(out, {i \in DOMAIN out : out[i].ev = "content_block_start"})
      Deltas(i, kind) == Said(out, {n \in DOMAIN out :
                               out[n].ev = "content_block_delta" /\ out[n].index = i /\ out[n].kind = kind})
      Of(e) == CASE e.kind = "tool_use" -> CallBlock(Deltas(e.index, "tool_use")[1])
                 [] e.kind = "thinking" ->
                      LET sig == Deltas(e.index, "signature")
                      IN  Block("thought", Deltas(e.index, "thinking"), None, None, IF sig = <<>> THEN None ELSE sig[1])
                 [] OTHER -> Block("text", Deltas(e.index, "text"), None, None, None)
  IN  <<Assistant(None, [k \in DOMAIN starts |-> Of(starts[k])])>>

FromClaudeMessage ==
  LET blocks == out[1].message.content
      Of(b) == CASE b.type = "tool" -> CallBlock(b)
                 [] b.type = "thought" -> Block("thought", b.text, None, None, b.sig)
                 [] OTHER -> Block("text", b.text, None, None, None)
  IN  <<Assistant(None, [k \in DOMAIN blocks |-> Of(blocks[k])])>>

OpenAIMessage(thoughts, texts, called, sig) ==
  <<Assistant(sig, Spoken("thought", thoughts, None) \o Spoken("text", texts, None)
                   \o [k \in DOMAIN called |-> CallBlock(called[k])])>>

\* The first choice; the last signature it brings is kept.
FromChunks ==
  LET Field(kind) == Said(out, {n \in DOMAIN out : out[n].ev = "chunk" /\ out[n].index = 0 /\ out[n].kind = kind})
      sigs == Field("reasoning_signature")
  IN  OpenAIMessage(Field("reasoning_content"), Field("content"), Field("tool_calls"),
                    IF sigs = <<>> THEN None ELSE Last(sigs))

FromChoice ==
  LET choice == out[1].choices[1]
  IN  OpenAIMessage(choice.reasoning, choice.content, choice.calls, choice.sig)

\* Every item becomes a message of its own.
FromItems ==
  LET items == Last(out).output
      Of(item) == CASE item.type = "function_call" -> Assistant(None, <<CallBlock(item.call)>>)
                    [] item.type = "reasoning" -> Assistant(item.sig, Spoken("thought", item.text, None))
                    [] OTHER -> Assistant(None, Spoken("text", item.text, None))
  IN  [k \in DOMAIN items |-> Of(items[k])]

Answer(d) ==
  CASE protocol = "claude" -> FromClaudeEvents
    [] protocol = "openai" -> FromChunks
    [] protocol = "responses" -> FromItems
    [] OTHER -> IF d = "claude" THEN FromClaudeMessage ELSE FromChoice

\* What a client may lose of an answer before it sends it back: nothing, the
\* signatures of the calls, the thoughts as well; or it puts the sentinel for
\* what it lost, or calls the tools by their last names.
Ways == {"all", "unsigned", "bare", "sentinel", "short"}

Kept(msg, way) ==
  LET Of(b) == IF b.kind # "call" THEN b
               ELSE CASE way \in {"unsigned", "bare"} -> [b EXCEPT !.sig = None]
                      [] way = "sentinel" -> [b EXCEPT !.sig = Sentinel]
                      [] way = "short" -> [b EXCEPT !.name = <<Last(@)>>]
                      [] OTHER -> b
      blocks == IF way = "bare" THEN Among(msg.blocks, {i \in DOMAIN msg.blocks : msg.blocks[i].kind # "thought"})
                ELSE msg.blocks
  IN  [msg EXCEPT !.blocks = [k \in DOMAIN blocks |-> Of(blocks[k])],
                  !.sig = IF way = "bare" THEN None ELSE @]

User(blocks) == [role |-> "user", sig |-> None, blocks |-> blocks]

Question == <<[role |-> "system", sig |-> None, blocks |-> Spoken("text", <<0>>, None)],
              User(Spoken("text", <<0>>, None))>>

\* One result for each call, the first with a picture, and the next question.
Results(msgs) ==
  LET blocks == FlattenSeq([i \in DOMAIN msgs |-> msgs[i].blocks])
      called == Among(blocks, {i \in DOMAIN blocks : blocks[i].kind = "call"})
  IN  [k \in DOMAIN called |->
         User(<<[called[k] EXCEPT !.kind = "result", !.name = <<Last(@)>>, !.sig = None, !.media = k = 1]>>)]
      \o <<User(Spoken("text", <<-1>>, None))>>

-----------------------------------------------------------------------------
(* Routes *)

\* serveOpenAI, serveClaude: the name that is used and the model that serves.
Used(name, roll) == ApplyMix(name, Rules, roll)

Route(used_, s, offer) ==
  RewriteToAvailable(ResolveModel(used_, s.budget, s.effort), offer.models, offer.forwarding)

Rolls == {0, 99}

-----------------------------------------------------------------------------
(* The end of the first turn *)

MyResponse == "mine"

\* The signatures are filed under the name the client asked for (plan.model).
Filed(name) ==
  FoldLeft(LAMBDA c, id : IF used[id] = None THEN c
                          ELSE Remember(c, <<Family(name), id>>, used[id], 1, SignatureLimit),
           signatures, Ascending(DOMAIN used))

\* What was walked is not needed any more.
Rests ==
  /\ protocol' = "json" /\ phase' = "read" /\ prelude' = <<>> /\ read' = 0 /\ cause' = None
  /\ seen' = <<>> /\ todo' = <<>> /\ given' = <<>> /\ calls' = <<>> /\ used' = <<>> /\ out' = <<>>
  /\ started' = FALSE /\ index' = 0 /\ block' = None /\ pendingSig' = None /\ usedTool' = FALSE /\ finish' = None
  /\ outputs' = <<>> /\ active' = 0 /\ activeCand' = 0 /\ text' = <<>> /\ kept' = None /\ actionable' = FALSE
  /\ states' = <<>> /\ saved' = <<>>

DialectsOf(p) == IF p = "json" THEN {"openai", "claude"} ELSE {p}

Reply ==
  /\ phase = "done" /\ read <= MaxReadBack /\ dialect = None
  /\ \E d \in DialectsOf(protocol), way \in Ways, name \in Names, s \in Settings, roll \in Rolls, offer \in Offers :
       LET answer == Answer(d)
           msgs == [k \in DOMAIN answer |-> Kept(answer[k], way)]
       IN  /\ dialect' = d /\ requested' = name
           /\ origin' = Family(Route(Used(name, roll), s, offer))
           /\ history' = Question \o msgs \o Results(msgs)
           /\ fresh' = Len(Results(msgs))
           /\ signatures' = Filed(name)
           /\ responses' = IF d = "responses" /\ Last(out).ev = "response.completed"
                           THEN Put(responses, MyResponse, Question \o answer, 1, ResponseLimit) ELSE responses
  /\ Rests
  /\ UNCHANGED <<others, sentVars>>

-----------------------------------------------------------------------------
(* What happens to the caches between the turns *)

Held == dialect # None /\ request = None

\* Others' entries, where one of this conversation is at stake.
OtherConversation ==
  /\ Held /\ others < MaxOthers /\ others' = others + 1
  /\ \E size \in {1, 2} :
       \/ /\ signatures.entries # <<>>
          /\ signatures' = Remember(signatures, <<Family(requested), 0>>, "other", size, SignatureLimit)
          /\ UNCHANGED responses
       \/ /\ responses.entries # <<>>
          /\ responses' = Put(responses, "other", <<>>, size, ResponseLimit)
          /\ UNCHANGED signatures
  /\ UNCHANGED <<vars, turnVars, sentVars>>

\* The time of the client's own entries passes.
TimePasses ==
  /\ Held
  /\ \/ \E k \in DOMAIN signatures.entries :
          signatures' = Expired(signatures, signatures.entries[k].key) /\ UNCHANGED responses
     \/ Holds(responses, MyResponse) /\ responses' = Expired(responses, MyResponse) /\ UNCHANGED signatures
  /\ UNCHANGED <<vars, turnVars, others, sentVars>>

-----------------------------------------------------------------------------
(* The second turn *)

Sends(msgs) ==
  \E s \in Settings, roll \in Rolls, offer \in Offers :
    LET name == Used(requested, roll)
        m == Route(name, s, offer)
    IN  /\ request' = Convert(dialect, msgs, name, s, Tools, m, signatures) /\ asked' = s
        /\ signatures' = CacheAfter(msgs, m, signatures)

\* The whole conversation.
Send ==
  /\ Held /\ Sends(history)
  /\ UNCHANGED <<vars, turnVars, responses, others>>

\* Only what is new, after previous_response_id, by a client that lost nothing.
SendChained ==
  LET stored == EntryOf(responses, MyResponse).value
      new == SubSeq(history, Len(history) - fresh + 1, Len(history))
  IN  /\ Held /\ dialect = "responses" /\ Finds(responses, MyResponse)
      /\ Len(stored) + fresh = Len(history) /\ IsPrefix(stored, history)
      /\ Sends(stored \o new)
      /\ responses' = Touched(responses, MyResponse)
      /\ UNCHANGED <<vars, turnVars, others>>

\* 404: the client has to send the whole conversation.
ChainBroken ==
  /\ Held /\ dialect = "responses" /\ Holds(responses, MyResponse) /\ ~Finds(responses, MyResponse)
  /\ responses' = Touched(responses, MyResponse)
  /\ UNCHANGED <<vars, turnVars, signatures, others, sentVars>>

ExchangeOver == request # None /\ UNCHANGED <<vars, exchangeVars>>

ExchangeNext ==
  \/ dialect = None /\ Next /\ UNCHANGED exchangeVars
  \/ Reply \/ OtherConversation \/ TimePasses \/ Send \/ SendChained \/ ChainBroken \/ ExchangeOver

ExchangeSpec == ExchangeInit /\ [][ExchangeNext]_<<vars, exchangeVars>>

-----------------------------------------------------------------------------
(* What arrives upstream *)

Sent == request # None

PartsSent == FlattenSeq([i \in DOMAIN request.contents |-> request.contents[i].parts])

\* A part without what the conversion may change: prose may turn from thought
\* to text, a call may be signed and its tool be named in full.
Bare(b) == [kind |-> IF b.kind = "thought" THEN "text" ELSE b.kind, what |-> b.what, id |-> b.id]

HistoryBlocks ==
  LET blocks == FlattenSeq([i \in DOMAIN history |-> IF IsSystem(history[i]) THEN <<>> ELSE history[i].blocks])
      Of(b) == CASE b.kind = "thought" /\ b.what = <<>> -> <<>>
                 [] b.media -> <<Bare(b), [Bare(b) EXCEPT !.kind = "media"]>>
                 [] OTHER -> <<Bare(b)>>
  IN  FlattenSeq([k \in DOMAIN blocks |-> Of(blocks[k])])

\* The name of a tool, in full wherever one declaration alone can be meant.
NamesOneTool(name) ==
  LET declared == FlattenTools(Tools)
      meant == {i \in DOMAIN declared : IsSuffix(name, declared[i])}
  IN  Cardinality(meant) = 1 => name \in Declarations(Tools)

\* Nothing of a conversation is lost, doubled or reordered on its way back,
\* whatever the protocol, also when the gateway itself kept the first turn: the
\* roles alternate as the upstream demands, a result is named like its call,
\* and a tool named in short goes by the name of the one declaration it can mean
\* (responsesToMessages, claudeParts, mergeContents, resolveDeclaredToolName).
HistoryIsKept ==
  Sent =>
    /\ HistoryBlocks = [k \in DOMAIN PartsSent |-> Bare(PartsSent[k])]
    /\ \A i \in 1..(Len(request.contents) - 1) : request.contents[i].role # request.contents[i + 1].role
    /\ \A p, q \in ToSet(PartsSent) : p.kind = "call" /\ q.kind = "result" /\ p.id = q.id => p.name = q.name
    /\ \A p \in ToSet(PartsSent) : p.kind = "call" => NamesOneTool(p.name)
    /\ request.calling.allowed # None => NamesOneTool(request.calling.allowed)

\* Claude gets no thinking that is not really signed, and while it thinks no
\* call that is not; Gemini gets no call without a signature or the sentinel
\* (normalizeInner, sanitizeContents).
CallsAreAuthentic ==
  Sent =>
    \A p \in ToSet(PartsSent) :
      /\ request.model \in Claude => /\ p.sig # Sentinel
                                     /\ p.kind = "thought" => IsReal(p.sig)
                                     /\ p.kind = "call" /\ Enabled(request.gen.thinking) => IsReal(p.sig)
      /\ request.model \in Gemini /\ p.kind = "call" => p.sig # None

\* Thinking that was refused is off, whatever model and variant the request is
\* routed to, and then no part is a thought; it is on where it was asked for,
\* unless the history of a Claude model forbids it; and the thinking leaves
\* room for the answer (applyThinking, applyVariantGeneration,
\* normalizeGenerationConfig).
ThinkingIsAsAsked ==
  Sent =>
    LET s == asked
        t == request.gen.thinking
    IN  /\ s.thinking = "disabled" \/ s.effort = "none" => ~Enabled(t)
        /\ ~Enabled(t) => \A p \in ToSet(PartsSent) : p.kind # "thought"
        /\ s.thinking \in {"enabled", "adaptive"} /\ s.effort # "none" /\ request.model \in Gemini
             /\ ~IsImageModel(request.model) => Enabled(t)
        /\ ~IsImageModel(request.model) /\ t # None /\ t.budget # None =>
             t.budget < request.gen.max /\ request.gen.max <= MaxOutputTokens(request.model)

\* Replaced, evicted and expired entries leave the count of bytes they entered,
\* exactly once (signature_cache.go, responseHistory).
CachesAreExact == IsExact(signatures, SignatureLimit) /\ IsExact(responses, ResponseLimit)

\* A signature the gateway adds to a call was given by a model of the family
\* that is asked now (RecallToolSignature;
\* src/server/internal/convert/response_parity_test.go:76).
SignaturesStayInFamily ==
  Sent => \A p \in ToSet(PartsSent) :
            p.kind = "call" /\ IsReal(p.sig) /\ Family(request.model) # origin =>
              \E i \in DOMAIN history : history[i].sig = p.sig \/ \E b \in ToSet(history[i].blocks) : b.sig = p.sig
=============================================================================
