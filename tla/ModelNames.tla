----------------------------- MODULE ModelNames -----------------------------
(***************************************************************************)
(* Model names and what follows from them (convert/models.go,              *)
(* convert/variants.go): which model a client's name and budget stand for, *)
(* which model of the selected account serves it, and the limits of that   *)
(* model.  The code looks for parts of names; here they are tables over    *)
(* one name, at least, for every branch of that code.                      *)
(***************************************************************************)
EXTENDS Integers, Sequences, SequencesExt, Absent

Gemini ==
  { "gemini-3.7-flash-low", "gemini-3.7-flash-medium", "gemini-3.7-flash-high",
    "gemini-3-flash-agent", "gemini-3.5-flash-low", "gemini-3.5-flash-extra-low",
    "gemini-3.1-pro-low", "gemini-3.1-pro-high", "gemini-pro-agent",
    "gemini-2.5-flash", "gemini-2.5-flash-lite", "gemini-3-pro-image" }
Claude == {"claude-sonnet-4-6", "claude-sonnet-4-6-thinking", "claude-opus-4-6-thinking"}
\* The models whose name stands for a family of tiers.
Variants == {"gemini-3-flash", "gemini-3.5-flash-medium", "gemini-3.5-flash-low", "gemini-3.7-flash",
             "gemini-3.7-flash-high", "gemini-3.7-flash-medium", "gemini-3.7-flash-low",
             "gemini-3.1-pro", "gemini-3.1-pro-high", "gemini-3.1-pro-low"}

Models == Gemini \cup Claude \cup {"gpt-oss-120b"}

IsImageModel(m) == m = "gemini-3-pro-image"

IsThinkingModel(m) ==
  m \in Claude \/ (m \in Gemini /\ ~IsImageModel(m) /\ m # "gemini-2.5-flash-lite")

DefaultThinkingBudget(m) ==
  CASE m \in {"gemini-3.7-flash-low", "gemini-3.5-flash-extra-low"} -> 1000
    [] m \in {"gemini-3.7-flash-medium", "gemini-3.5-flash-low"} -> 4000
    [] m \in {"gemini-3.7-flash-high", "gemini-3-flash-agent"} -> 10000
    [] m = "gemini-3.1-pro-low" -> 1001
    [] m = "gemini-pro-agent" -> 10001
    [] m = "claude-sonnet-4-6" -> 1024
    [] m = "gemini-2.5-flash-lite" -> 0
    [] m = "claude-opus-4-6-thinking" -> 24576
    [] m = "gemini-3.1-pro-high" -> 49152
    [] m \in {"gemini-2.5-flash", "gemini-3-pro-image", "claude-sonnet-4-6-thinking"} -> 32768
    [] OTHER -> 8192

MaxOutputTokens(m) ==
  CASE m = "gemini-2.5-flash-lite" -> 16384
    [] m = "claude-opus-4-6-thinking" -> 57344
    [] m \in {"gemini-pro-agent", "gemini-3.1-pro-low"} -> 65535
    [] m \in Claude \ {"claude-opus-4-6-thinking"} -> 64000
    [] OTHER -> 65536

\* signatureCacheKey: what signatures of a model are filed under.
Family(m) == IF m \in Claude THEN "claude" ELSE IF m \in Gemini \cup Variants THEN "gemini" ELSE m

-----------------------------------------------------------------------------
\* The models whose parameters are calibrated.
Calibrated == Gemini \ {"gemini-3.1-pro-high", "gemini-2.5-flash", "gemini-2.5-flash-lite",
                        "gemini-3-pro-image"}

\* A budget is the hint of a tier, an effort is one by itself.
Tier(budget, effort) ==
  IF effort \in {"low", "medium", "high"} THEN effort
  ELSE IF budget = None THEN "high"
  ELSE IF budget < 2000 THEN "low" ELSE IF budget < 7000 THEN "medium" ELSE "high"

MapModel(name) == CASE name \in {"gpt-4o", "gemini-2.5-flash-lite"} -> "gemini-2.5-flash"
                    [] name = "claude-opus-4-5" -> "claude-opus-4-6-thinking"
                    [] OTHER -> name

ResolveModel(name, budget, effort) ==
  LET tier == Tier(budget, effort)
  IN  CASE name = "gemini-3-flash" ->
             [low |-> "gemini-3.5-flash-extra-low", medium |-> "gemini-3.5-flash-low",
              high |-> "gemini-3-flash-agent"][tier]
        [] name = "gemini-3.5-flash-medium" -> "gemini-3.5-flash-low"
        [] name = "gemini-3.5-flash-low" -> "gemini-3.5-flash-extra-low"
        [] name \in {"gemini-3.7-flash", "gemini-3.7-flash-high"} ->
             [low |-> "gemini-3.7-flash-low", medium |-> "gemini-3.7-flash-medium",
              high |-> "gemini-3.7-flash-high"][tier]
        [] name \in {"gemini-3.1-pro", "gemini-3.1-pro-high"} ->
             IF tier = "low" THEN "gemini-3.1-pro-low" ELSE "gemini-pro-agent"
        [] OTHER -> MapModel(name)

\* The names that may stand for one another, best first.
ProFamily == <<"gemini-pro-agent", "gemini-3.1-pro-high", "gemini-3.1-pro-low">>

MatchAvailable(m, available) ==
  LET relatives == SelectSeq(IF m \in ToSet(ProFamily) THEN ProFamily ELSE <<>>, LAMBDA x : x \in available)
  IN  IF m \in available THEN m ELSE IF relatives = <<>> THEN None ELSE relatives[1]

\* The forwarding rule of a deprecated model, then what the account has of it.
RewriteToAvailable(target, available, forwarding) ==
  LET m == IF target \in DOMAIN forwarding THEN forwarding[target] ELSE target
      found == MatchAvailable(m, available)
  IN  IF found = None THEN m ELSE found

-----------------------------------------------------------------------------
(* The mix rules of the administrator: [from, to, percent, enabled] *)

\* Names that differ in their tier only.
CanonMix(name) ==
  CASE name \in {"gemini-3.1-pro-low", "gemini-3.1-pro-high"} -> "gemini-3.1-pro"
    [] name \in {"gemini-3.7-flash-low", "gemini-3.7-flash-high"} -> "gemini-3.7-flash"
    [] name = "gemini-3.5-flash-low" -> "gemini-3.5-flash"
    [] name = "gemini-3.5-flash-extra-low" -> "gemini-3.5-flash-extra"
    [] name = "gemini-3-flash-agent" -> "gemini-3-flash"
    [] name = "gemini-pro-agent" -> "gemini-pro"
    [] name = "claude-sonnet-4-6-thinking" -> "claude-sonnet-4-6"
    [] name = "claude-opus-4-6-thinking" -> "claude-opus-4-6"
    [] OTHER -> name

MatchMixSource(from, name) ==
  \/ CanonMix(from) \in {CanonMix(name), CanonMix(MapModel(name))}
  \/ CanonMix(MapModel(CanonMix(from))) = CanonMix(MapModel(name))

\* ApplyMix with a roll of 0..99: the first rule that matches decides.
ApplyMix(name, rules, roll) ==
  LET matching == SelectSeq(rules, LAMBDA r : r.enabled /\ r.to # None /\ MatchMixSource(r.from, name))
  IN  IF matching # <<>> /\ roll < matching[1].percent THEN matching[1].to ELSE name
=============================================================================
