-------------------------------- MODULE Nova --------------------------------
(***************************************************************************)
(* cmd/relay-core/aws_bedrock.go: the conversion of an OpenAI chat request *)
(* to a Nova request, and of Nova's answer back.  A text is a sequence of  *)
(* the pieces it was put together from.  The state is that of the loop     *)
(* over the messages.                                                      *)
(***************************************************************************)
EXTENDS Integers, Sequences

VARIABLES
  converted,  \* messages the loop is done with
  system,     \* output.System
  turns       \* output.Messages

novaVars == <<converted, system, turns>>

NovaInit == converted = 0 /\ system = <<>> /\ turns = <<>>

\* A content part that is not text, or is empty.
NoText == ""

MaxTokensLimit == 1073741823

Instruction == {"system", "developer"}

Turn == {"user", "assistant"}

\* content.form: a JSON string (or null), an array of parts, or anything else.
Message == [role : STRING,
            content : [form : {"string", "parts", "other"}, parts : Seq(STRING)]]

Pieces(content) == SelectSeq(content.parts, LAMBDA p : p # NoText)

\* openAIMessageText: a string may be empty, an array of parts may not.
HasText(content) ==
  \/ content.form = "string"
  \/ content.form = "parts" /\ Pieces(content) # <<>>

\* Mutant: a role Nova does not know is passed over.
AddMessageSkipping(m) ==
  /\ HasText(m.content)
  /\ \/ /\ m.role \in Instruction
        /\ system' = Append(system, Pieces(m.content))
        /\ UNCHANGED turns
     \/ /\ m.role \in Turn
        /\ turns' = Append(turns, [role |-> m.role, text |-> Pieces(m.content)])
        /\ UNCHANGED system
     \/ /\ m.role \notin Instruction \cup Turn
        /\ UNCHANGED <<system, turns>>

AddMessage(m) ==
  /\ HasText(m.content)
  /\ \/ /\ m.role \in Instruction
        /\ system' = Append(system, Pieces(m.content))
        /\ UNCHANGED turns
     \/ /\ m.role \in Turn
        /\ turns' = Append(turns, [role |-> m.role, text |-> Pieces(m.content)])
        /\ UNCHANGED system

\* One turn of the loop over the messages.
ConvertMessage(said) ==
  /\ converted < Len(said)
  /\ AddMessage(said[converted + 1])
  /\ converted' = converted + 1

\* The loop returns an error: no text, or a role Nova does not know.
CannotConvert(said) ==
  /\ converted < Len(said)
  /\ LET m == said[converted + 1]
     IN  ~HasText(m.content) \/ m.role \notin Instruction \cup Turn

\* An optional number is a set with at most one element.
InRange(maxTokens) == \A n \in maxTokens : n \in 0 .. MaxTokensLimit

\* parseNovaStop: stop is absent, a string, an array of strings, or neither.
StopSequences(stop) == SelectSeq(stop.sequences, LAMBDA s : stop.form = "array" \/ s # NoText)

\* What convertOpenAIRequestToNova asks of a request before the loop over its
\* messages, and after it.
IsConvertible(chat) == chat.decodes /\ chat.messages # <<>> /\ InRange(chat.maxTokens)

IsConverted(chat) ==
  converted = Len(chat.messages) /\ turns # <<>> /\ chat.stop.form # "other"

ConvertOpenAIRequestToNova(chat) ==
  [system |-> system, messages |-> turns, maxTokens |-> chat.maxTokens,
   sampling |-> chat.sampling, stop |-> StopSequences(chat.stop)]

-----------------------------------------------------------------------------
(* The way back *)

FinishReason(reason) == IF reason \in {"max_tokens", "maxTokens"} THEN "length" ELSE "stop"

NovaUsage(u) ==
  [prompt |-> u.input, completion |-> u.output,
   total |-> IF u.total = 0 THEN u.input + u.output ELSE u.total]

ConvertNovaResponseToOpenAI(answer, model) ==
  [model |-> model, text |-> answer.blocks, finish |-> FinishReason(answer.reason),
   usage |-> NovaUsage(answer.usage)]
=============================================================================
