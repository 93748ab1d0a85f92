----------------------------- MODULE RelayWire -----------------------------
(***************************************************************************)
(* pkg/relaycontrol/wire.go: the scalars the relay reads out of requests   *)
(* and responses.  A body or a stream frame is reduced to its billing      *)
(* blocks (a Chunk); a JSON number that is absent is 0, as in Go.          *)
(***************************************************************************)
EXTENDS Integers

MaxImageN == 128

Usage == [prompt : Nat, completion : Nat, total : Nat, images : Nat]

ZeroUsage == [prompt |-> 0, completion |-> 0, total |-> 0, images |-> 0]

\* usagePeek: the OpenAI/Anthropic top-level block, Anthropic's
\* message_start, the Responses API's response.completed and Gemini's
\* usageMetadata; images is the length of the data array.
Chunk == [usage    : [prompt : Nat, completion : Nat, total : Nat, input : Nat, output : Nat],
          message  : [input : Nat, output : Nat],
          response : [input : Nat, output : Nat, total : Nat],
          metadata : [prompt : Nat, candidates : Nat, total : Nat, tool : Nat, thoughts : Nat],
          images   : Nat]

Content ==
  [usage    |-> [prompt |-> 0, completion |-> 0, total |-> 0, input |-> 0, output |-> 0],
   message  |-> [input |-> 0, output |-> 0],
   response |-> [input |-> 0, output |-> 0, total |-> 0],
   metadata |-> [prompt |-> 0, candidates |-> 0, total |-> 0, tool |-> 0, thoughts |-> 0],
   images   |-> 0]

\* The Go code's "if x == 0 { x = y }".
OrElse(x, y) == IF x = 0 THEN y ELSE x

PeekPrompt(k) ==
  OrElse(k.usage.prompt,
  OrElse(k.usage.input,
  OrElse(k.message.input,
  OrElse(k.response.input, k.metadata.prompt + k.metadata.tool))))

PeekCompletion(k) ==
  OrElse(k.usage.completion,
  OrElse(k.usage.output,
  OrElse(k.message.output,
  OrElse(k.response.output, k.metadata.candidates + k.metadata.thoughts))))

PeekTotal(k) ==
  OrElse(k.usage.total, OrElse(k.response.total, k.metadata.total))

\* PeekUsage; a chunk without counts yields ZeroUsage (ok = false).
PeekUsage(k) ==
  [prompt     |-> PeekPrompt(k),
   completion |-> PeekCompletion(k),
   total      |-> OrElse(PeekTotal(k), PeekPrompt(k) + PeekCompletion(k)),
   images     |-> 0]

\* Mutant: the count is not clamped.
PeekImageCountRaw(k) == k.images

PeekImageCount(k) == IF k.images > MaxImageN THEN MaxImageN ELSE k.images

\* PeekImageParams; 0 stands for a missing or malformed n.
PeekImageN(n) ==
  IF n > MaxImageN THEN MaxImageN ELSE IF n >= 1 THEN n ELSE 1

\* Mutant: a frame replaces what was counted before it.
MergeUsageReplace(acc, u) == IF u = ZeroUsage THEN acc ELSE u

\* streamThrough's per-field merge: the last non-zero value wins.
MergeUsage(acc, u) ==
  [prompt     |-> OrElse(u.prompt, acc.prompt),
   completion |-> OrElse(u.completion, acc.completion),
   total      |-> OrElse(u.total, acc.total),
   images     |-> acc.images]

FinalizeUsage(u) ==
  [u EXCEPT !.total = OrElse(u.total, u.prompt + u.completion)]
=============================================================================
