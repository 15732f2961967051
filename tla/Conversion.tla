----------------------------- MODULE Conversion -----------------------------
(***************************************************************************)
(* What the gateway sends upstream for a conversation a client holds       *)
(* (convert/openai.go, convert/claude.go, convert/request_helpers.go,      *)
(* convert/wrap.go).                                                       *)
(*                                                                         *)
(* A message of a client is [role, sig, blocks]; its blocks, and the parts *)
(* of the contents they become, are [kind, what, id, name, sig, media]:    *)
(* text, thought, call, result or media, what they say (places of what the *)
(* upstream said), the id and name of a tool call and its thought          *)
(* signature.  A name is a sequence of the segments that "__" separates.   *)
(***************************************************************************)
EXTENDS ModelNames, FiniteSets, LruCache

CONSTANT Sentinel   \* "skip_thought_signature_validator"

ASSUME SentinelAssumption == Sentinel # None /\ None \notin Int

Block(kind, what, id, name, sig) ==
  [kind |-> kind, what |-> what, id |-> id, name |-> name, sig |-> sig, media |-> FALSE]

Or(a, b) == IF a # None THEN a ELSE b   \* firstNonEmpty

-----------------------------------------------------------------------------
(* Names of tools *)

\* Without its namespace only if the name has it already.
QualifyTool(ns, name) ==
  IF ns = <<>> \/ name[1] = "mcp" \/ IsStrictPrefix(ns, name) THEN name ELSE ns \o name

FlattenTools(tools) == [i \in DOMAIN tools |-> QualifyTool(tools[i].ns, tools[i].name)]

\* A short name stands for the one declared name that ends in it.
ResolveDeclaredToolName(name, declared) ==
  LET ends == {i \in DOMAIN declared : IsStrictSuffix(name, declared[i])}
  IN  IF name \in ToSet(declared) \/ Cardinality(ends) # 1 THEN name
      ELSE declared[CHOOSE i \in ends : TRUE]

\* attachTools: each name is declared once; the tool a client insists on.
Declarations(tools) == ToSet(FlattenTools(tools))

FunctionCalling(choice, tools) ==
  IF tools = <<>> THEN [mode |-> None, allowed |-> None]
  ELSE IF choice.name = None THEN [mode |-> choice.mode, allowed |-> None]
  ELSE [mode |-> "ANY", allowed |-> ResolveDeclaredToolName(choice.name, FlattenTools(tools))]

-----------------------------------------------------------------------------
(* Messages to contents *)

CallsIn(msgs) == UNION {{b \in ToSet(msgs[i].blocks) : b.kind = "call"} : i \in DOMAIN msgs}

\* (mutant) A result goes by the name its client gives it.
ResultName_Own(b, msgs, declared) == b.name

\* The name of a result is that of the call with its id.
ResultName(b, msgs, declared) ==
  IF \E c \in CallsIn(msgs) : c.id = b.id
  THEN ResolveDeclaredToolName((CHOOSE c \in CallsIn(msgs) : c.id = b.id).name, declared)
  ELSE ResolveDeclaredToolName(b.name, declared)

\* partsTextAndMedia: the media of a result follow it as parts of their own.
ResultParts(b, msgs, declared) ==
  LET result == [b EXCEPT !.name = ResultName(b, msgs, declared), !.media = FALSE]
  IN  IF b.media THEN <<result, [result EXCEPT !.kind = "media"]>> ELSE <<result>>

\* The signature a tool call was given, from the cache if its client lost it.
Recalled(cache, model, id) ==
  LET k == <<Family(model), id>> IN IF Finds(cache, k) THEN EntryOf(cache, k).value ELSE None

CallPart(b, fallback, model, declared, cache) ==
  [b EXCEPT !.name = ResolveDeclaredToolName(b.name, declared),
            !.sig = Or(Or(b.sig, fallback), Recalled(cache, model, b.id))]

\* OpenAIToGeminiWithModel: one message.  Reasoning carries the signature of
\* its message, and calls without one of their own do too.
OpenAIParts(m, msgs, model, declared, cache) ==
  LET Of(b) == CASE b.kind = "call" -> <<CallPart(b, m.sig, model, declared, cache)>>
                 [] b.kind = "result" -> ResultParts(b, msgs, declared)
                 [] b.kind = "thought" -> <<[b EXCEPT !.sig = m.sig]>>
                 [] OTHER -> <<b>>
  IN  FlattenSeq([i \in DOMAIN m.blocks |-> Of(m.blocks[i])])

\* claudeParts: the signature of the thinking before it serves a call without
\* one.
ClaudeParts(m, msgs, model, declared, cache) ==
  LET Before(i) == {j \in 1..(i - 1) : m.blocks[j].kind = "thought"}
      LastSignature(i) == IF Before(i) = {} THEN None
                          ELSE m.blocks[CHOOSE j \in Before(i) : \A k \in Before(i) : k <= j].sig
      Of(i) == LET b == m.blocks[i]
               IN  CASE b.kind = "call" -> <<CallPart(b, LastSignature(i), model, declared, cache)>>
                     [] b.kind = "result" -> ResultParts(b, msgs, declared)
                     [] b.kind = "thought" /\ b.what = <<>> -> <<>>
                     [] OTHER -> <<b>>
  IN  FlattenSeq([i \in DOMAIN m.blocks |-> Of(i)])

\* responsesToMessages: an item is a message; what a reasoning item holds as
\* encrypted_content is not read.
ItemMessage(m) == [m EXCEPT !.sig = None]

\* mergeContents: no empty contents, and no two of one role in a row.
MergeContents(contents) ==
  FoldLeft(LAMBDA acc, c :
             IF c.parts = <<>> THEN acc
             ELSE IF acc # <<>> /\ Last(acc).role = c.role
                  THEN [acc EXCEPT ![Len(acc)].parts = @ \o c.parts]
                  ELSE Append(acc, c),
           <<>>, contents)

Blank == [role |-> "user", parts |-> <<Block("text", <<>>, None, None, None)>>]

IsSystem(m) == m.role \in {"system", "developer"}

Contents(dialect, msgs, model, declared, cache) ==
  LET Parts(m) == IF IsSystem(m) THEN <<>>
                  ELSE IF dialect = "claude" THEN ClaudeParts(m, msgs, model, declared, cache)
                  ELSE OpenAIParts(IF dialect = "responses" THEN ItemMessage(m) ELSE m, msgs, model, declared, cache)
      merged == MergeContents([i \in DOMAIN msgs |->
                                 [role |-> IF msgs[i].role = "assistant" THEN "model" ELSE "user",
                                  parts |-> Parts(msgs[i])]])
  IN  IF merged = <<>> THEN <<Blank>> ELSE merged

\* Every call is looked up in the cache, also one that has its signature.
CacheAfter(msgs, model, cache) ==
  LET blocks == FlattenSeq([i \in DOMAIN msgs |-> msgs[i].blocks])
      calls == Among(blocks, {i \in DOMAIN blocks : blocks[i].kind = "call"})
  IN  FoldLeft(LAMBDA c, b : Touched(c, <<Family(model), b.id>>), cache, calls)

-----------------------------------------------------------------------------
(* Thinking and the budget of tokens *)

Larger(a, b) == IF a < b THEN b ELSE a

ThinkingBudgetFromLevel(m, level) ==
  LET cap == DefaultThinkingBudget(m)
  IN  CASE level = "none" -> 0
        [] level = "low" -> Larger(cap \div 4, 4096)
        [] level = "high" -> cap
        [] OTHER -> Larger(cap \div 2, 8192)

ThinkingOff == [on |-> FALSE, budget |-> 0, level |-> None]
ThinkingOn(budget) == [on |-> TRUE, budget |-> budget, level |-> None]

\* applyThinking: what a client asks for, [thinking, budget, effort], is the
\* thinkingConfig, or none.
ThinkingConfig(m, s) ==
  LET enabled == /\ s.effort # "none"
                 /\ s.effort # None \/ s.thinking \in {"enabled", "adaptive"} \/ IsThinkingModel(m)
  IN  IF s.thinking = "disabled" THEN ThinkingOff
      ELSE IF IsImageModel(m) THEN None
      ELSE IF ~enabled THEN IF s.thinking # None \/ s.effort # None THEN ThinkingOff ELSE None
      ELSE IF s.thinking = "adaptive" /\ m \in Claude
      THEN [on |-> TRUE, budget |-> None, level |-> IF s.effort \in {None, "max"} THEN "high" ELSE s.effort]
      ELSE ThinkingOn(IF s.effort # None THEN ThinkingBudgetFromLevel(m, s.effort)
                      ELSE Or(s.budget, DefaultThinkingBudget(m)))

\* thinkingConfigEnabled
Enabled(t) == t # None /\ (t.on \/ (t.budget # None /\ (t.budget > 0 \/ t.budget = -1)))

\* (mutant) A variant thinks whatever its client asked for.
Calibrate_Always(gen, requested, m) ==
  IF requested \in Variants /\ m \in Calibrated
  THEN [max |-> MaxOutputTokens(m), thinking |-> ThinkingOn(DefaultThinkingBudget(m))] ELSE gen

\* applyVariantGeneration: the budget of a variant was the hint of its tier.
Calibrate(gen, requested, m) ==
  IF requested \in Variants /\ m \in Calibrated /\ Enabled(gen.thinking)
  THEN [max |-> MaxOutputTokens(m), thinking |-> ThinkingOn(DefaultThinkingBudget(m))] ELSE gen

\* The largest budget a client may choose.
BudgetCap(m) ==
  IF m \in {"claude-sonnet-4-6", "claude-sonnet-4-6-thinking"} THEN 32768 ELSE DefaultThinkingBudget(m)

\* The level of a model that knows budgets only becomes one.
Levelled(m, t) ==
  IF t = None \/ t.level = None \/ m \in Claude THEN t
  ELSE [t EXCEPT !.level = None, !.budget = Or(t.budget, ThinkingBudgetFromLevel(m, t.level))]

\* normalizeGenerationConfig: the answer has room beside the thinking.
NormalizeGeneration(m, gen) ==
  LET asked == IF gen.max = None \/ gen.max <= 0 \/ gen.max > MaxOutputTokens(m)
               THEN MaxOutputTokens(m) ELSE gen.max
      t == Levelled(m, gen.thinking)
      capped == IF t.budget > BudgetCap(m) /\ BudgetCap(m) > 0 THEN BudgetCap(m) ELSE t.budget
      raised == capped + 8192
  IN  IF IsImageModel(m) THEN gen
      ELSE IF t = None \/ t.budget = None THEN [max |-> asked, thinking |-> t]
      ELSE IF capped < asked THEN [max |-> asked, thinking |-> [t EXCEPT !.budget = capped]]
      ELSE IF raised <= MaxOutputTokens(m) THEN [max |-> raised, thinking |-> [t EXCEPT !.budget = capped]]
      ELSE [max |-> MaxOutputTokens(m), thinking |-> [t EXCEPT !.budget = MaxOutputTokens(m) - 8192]]

-----------------------------------------------------------------------------
(* normalizeInner: what the model accepts of a history *)

IsReal(sig) == sig \notin {None, Sentinel}

\* (mutant) The sentinel passes for a signature.
Unsigned_SentinelPasses(contents) ==
  \E i \in DOMAIN contents : \E p \in ToSet(contents[i].parts) : p.kind = "call" /\ p.sig = None

Unsigned(contents) ==
  \E i \in DOMAIN contents : \E p \in ToSet(contents[i].parts) : p.kind = "call" /\ ~IsReal(p.sig)

\* sanitizeContents: one part.
Sanitized(p, m, thinking) ==
  IF p.kind = "thought" /\ (~thinking \/ (m \notin Gemini /\ ~IsReal(p.sig)))
  THEN [p EXCEPT !.kind = "text", !.sig = None]
  ELSE IF p.kind \in {"thought", "call"} /\ m \in Gemini THEN [p EXCEPT !.sig = Or(@, Sentinel)]
  ELSE IF p.kind = "call" /\ p.sig = Sentinel THEN [p EXCEPT !.sig = None]
  ELSE p

\* OpenAIToGeminiWithModel, ClaudeToGeminiWithModel, Wrap: the request for the
\* model that the account serves; s is what the client asks for.
Convert(dialect, msgs, used, s, tools, m, cache) ==
  LET contents == Contents(dialect, msgs, m, FlattenTools(tools), cache)
      gen == NormalizeGeneration(m, Calibrate([max |-> s.max, thinking |-> ThinkingConfig(m, s)], used, m))
      disabled == m \in Claude /\ Enabled(gen.thinking) /\ Unsigned(contents)
      thinking == IF disabled THEN ThinkingOff ELSE gen.thinking
      Clean(c) == [c EXCEPT !.parts = [i \in DOMAIN @ |->
                      Sanitized(@[i], m, Enabled(thinking) /\ ~IsImageModel(m))]]
  IN  [model    |-> m,
       contents |-> MergeContents([i \in DOMAIN contents |-> Clean(contents[i])]),
       systems  |-> IF IsImageModel(m) THEN 0 ELSE Cardinality({i \in DOMAIN msgs : IsSystem(msgs[i])}),
       gen      |-> [gen EXCEPT !.thinking = thinking],
       calling  |-> FunctionCalling(s.choice, IF IsImageModel(m) THEN <<>> ELSE tools)]
=============================================================================
