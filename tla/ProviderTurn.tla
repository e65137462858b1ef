---------------------------- MODULE ProviderTurn ----------------------------
(* What each provider makes of one answer of its API (ai/openai.go,            *)
(* anthropic.go, gemini.go): an error that is worth a retry or a permanent one, *)
(* or a turn with text, with calls of tools, with both or with neither.        *)

(* No answer within the timeout, the statuses 429, 5xx and 4xx, a body that is  *)
(* no JSON; or an answer without any content, with an empty text, with calls   *)
(* of tools only, with text before such calls, with text only.                 *)
Unanswered == {"unreachable", "limited", "broken", "refused", "garbled"}
Reply == Unanswered \cup {"void", "blank", "tools", "both", "text"}

Fault(error) == [error |-> error, text |-> FALSE, tools |-> FALSE]

(* parseOpenAIOutputItems, parseGeminiContent, the loop over Anthropic's blocks *)
Content(reply) == [error |-> "none", text |-> reply \in {"both", "text"},
                   tools |-> reply \in {"both", "tools"}]

(* openaiStatusError: asking again does not help a refused request. *)
OpenAIError(reply) == Fault(IF reply = "refused" THEN "permanent" ELSE "retry")

-----------------------------------------------------------------------------
(* GenerateTurn *)
OpenAITurn(reply) == IF reply \in Unanswered THEN OpenAIError(reply) ELSE Content(reply)

AnthropicTurn(reply) == IF reply \in Unanswered THEN Fault("retry") ELSE Content(reply)

GeminiTurn(reply) == IF reply \in Unanswered \cup {"void"} THEN Fault("retry") ELSE Content(reply)

(* Generate: calls of tools are overlooked, and a text must be there, which    *)
(* Anthropic looks for in the first block, and which it lets be empty.         *)
OpenAIGenerate(reply) ==
  IF reply \in Unanswered \cup {"void", "blank", "tools"} THEN OpenAIError(reply)
  ELSE [Content(reply) EXCEPT !.tools = FALSE]

AnthropicGenerate(reply) ==
  IF reply \in Unanswered \cup {"void", "tools"} THEN Fault("retry")
  ELSE [Content(reply) EXCEPT !.tools = FALSE]

GeminiGenerate(reply) ==
  IF reply \in Unanswered \cup {"void", "blank", "tools"} THEN Fault("retry")
  ELSE [Content(reply) EXCEPT !.tools = FALSE]

Turn(provider, reply) ==
  CASE provider = "openai" -> OpenAITurn(reply)
    [] provider = "anthropic" -> AnthropicTurn(reply)
    [] OTHER -> GeminiTurn(reply)

Generate(provider, reply) ==
  CASE provider = "openai" -> OpenAIGenerate(reply)
    [] provider = "anthropic" -> AnthropicGenerate(reply)
    [] OTHER -> GeminiGenerate(reply)
=============================================================================
