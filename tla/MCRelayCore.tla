---------------------------- MODULE MCRelayCore ----------------------------
(* Small instances of RelayCore. *)
EXTENDS RelayCore, TLC

CONSTANTS c1, c2, r1, r2, r3

OneCall == {c1}
TwoCalls == {c1, c2}

Ids == {r1, r2, r3}
OwnIds == [c \in Call |-> IF c = c1 THEN r1 ELSE r2]
SharedId == [c \in Call |-> r1]

\* Calls that share their id are interchangeable.
SameId == Permutations(TwoCalls)

-----------------------------------------------------------------------------
(* Request shapes *)

Ask(path, stream, n) ==
  [path |-> path, modelAt |-> "body", stream |-> stream, sse |-> FALSE, options |-> "none",
   n |-> n]

ChatStream == Ask("chat", TRUE, 0)
Chat == Ask("chat", FALSE, 0)
Messages == Ask("messages", TRUE, 0)
Rerank == Ask("rerank", FALSE, 0)
Images == Ask("images", FALSE, 2)

\* A native Gemini client names the model in the path and asks for events.
GeminiStream == [Ask("gemini-stream", FALSE, 0) EXCEPT !.modelAt = "path", !.sse = TRUE]

\* Every endpoint, with and without a stream, with the model in the body, in
\* the path or nowhere, and image counts at and beyond both bounds.
AllRequests ==
  {Ask(p, s, 0) : p \in Path \ {"images"}, s \in BOOLEAN}
    \cup {Ask("images", s, n) : s \in BOOLEAN, n \in {-1, 1, 128, 129}}
    \cup {[Ask(p, FALSE, 0) EXCEPT !.modelAt = a] :
            p \in {"chat", "gemini", "gemini-stream"}, a \in {"path", "nowhere"}}
    \cup {[Ask(p, s, 0) EXCEPT !.options = o] :
            p \in {"chat", "responses"}, s \in BOOLEAN, o \in {"usage", "null"}}
    \cup {GeminiStream, [GeminiStream EXCEPT !.modelAt = "body"]}

BillingRequests == {ChatStream, Messages, Rerank, Images}
PairRequests == {ChatStream, Chat}
GeminiRequests == {GeminiStream, [GeminiStream EXCEPT !.path = "gemini"]}

-----------------------------------------------------------------------------
(* Control-plane answers *)

Channel(t, base) ==
  [error |-> FALSE, type |-> t, official |-> TRUE, base |-> base, key |-> TRUE]

Denied == [error |-> TRUE, type |-> 0, official |-> FALSE, base |-> NoBase, key |-> FALSE]

Secure(host) == [scheme |-> "https", port |-> "default", host |-> host]

Workspace == [zone |-> "azuredatabricks.net", joint |-> "dot"]

PairReplies == {Channel(1, NoBase)}
BillingReplies == {Channel(1, NoBase), Channel(33, NoBase), Denied}
GeminiReplies == {Channel(24, NoBase)}
WorkspaceReplies == {Channel(59, [Secure(Workspace) EXCEPT !.scheme = s]) : s \in {"https", "http"}}

\* Every channel type there is and some beyond, with and without a key, with
\* every claim of the host, and for Databricks every kind of host and, of one
\* of them, every kind of base URL.
AllReplies ==
  {[Channel(t, NoBase) EXCEPT !.official = o, !.key = k] :
     t \in {-1, ChannelTypeCount} \cup (DOMAIN BaseURLs), o \in BOOLEAN, k \in BOOLEAN}
    \cup {Channel(59, Secure(h)) : h \in Host}
    \cup {Channel(59, base) : base \in {b \in BaseURL : b.host = Workspace}}
    \cup {Channel(1, Secure(Workspace)), Denied}

-----------------------------------------------------------------------------
(* Upstream answers *)

\* One object, sent over several lines; events; an array of objects.
Body(at, code, k, p, c, n) ==
  [at |-> at, status |-> code, framing |-> "body", compact |-> FALSE, frames |-> <<k>>,
   onRequest |-> FALSE, cost |-> [prompt |-> p, completion |-> c, images |-> n]]

Events(at, frames, p, c) ==
  [Body(at, 200, Content, p, c, 0) EXCEPT !.framing = "events", !.frames = frames]

Chunks(at, frames, p, c) == [Events(at, frames, p, c) EXCEPT !.framing = "array"]

Compact(a) == [a EXCEPT !.compact = TRUE]

ChatFrame(p, c) == [Content EXCEPT !.usage = ChatCount(p, c)]

TokenFrame(p, c, total) == [Content EXCEPT !.usage = TokenCount(p, c, total)]

StreamAnswer == [Events({"chat"}, <<Content, ChatFrame(3, 2)>>, 3, 2) EXCEPT !.onRequest = TRUE]

\* message_start counts the input and a first output token, message_delta the
\* whole output.
MessagesAnswer ==
  Events({"messages"}, <<[Content EXCEPT !.message = [input |-> 3, output |-> 1]],
                         TokenFrame(0, 2, 0)>>, 3, 2)

ResponsesAnswer ==
  Events({"responses"}, <<Content, [Content EXCEPT !.response = [input |-> 3, output |-> 2, total |-> 5]]>>, 3, 2)

\* Tool prompts and thoughts are counted apart, and grow along a stream.
Metadata(tool, candidates, thoughts) ==
  [Content EXCEPT !.metadata =
     [prompt |-> 2, tool |-> tool, candidates |-> candidates, thoughts |-> thoughts,
      total |-> 2 + tool + candidates + thoughts]]

GeminiChunks == Chunks({"gemini-stream"}, <<Metadata(0, 1, 0), Metadata(1, 1, 1)>>, 3, 2)

\* What the same stream looks like to a client that gets events.
GeminiEvents == [GeminiChunks EXCEPT !.framing = "events"]

GeminiBody == Body({"gemini"}, 200, Metadata(1, 1, 1), 3, 2, 0)

PlainBodies ==
  {Body({"chat", "embeddings"}, 200, ChatFrame(3, 2), 3, 2, 0),
   Body({"messages"}, 200, TokenFrame(3, 2, 0), 3, 2, 0),
   Body({"responses"}, 200, TokenFrame(3, 2, 5), 3, 2, 0),
   GeminiBody}

RerankAnswer == Body({"rerank"}, 200, TokenFrame(0, 0, 4), 4, 0, 0)

ImagesAnswer(n) == Body({"images"}, 200, [Content EXCEPT !.images = n], 0, 0, n)

NovaAnswer == Body({"bedrock"}, 200, TokenFrame(3, 2, 5), 3, 2, 0)

Limited == Body(Path \cup {"bedrock"}, 429, Content, 0, 0, 0)

BillingAnswers == {StreamAnswer, MessagesAnswer, RerankAnswer, ImagesAnswer(1), NovaAnswer, Limited}
PairAnswers == {StreamAnswer, Limited}
GeminiAnswers == {GeminiChunks, GeminiEvents, GeminiBody}
AllAnswers ==
  BillingAnswers \cup PlainBodies \cup {Compact(a) : a \in PlainBodies \cup {RerankAnswer}}
    \cup {ResponsesAnswer, GeminiChunks, GeminiEvents, ImagesAnswer(0), ImagesAnswer(500)}

BothOutcomes == {TRUE, FALSE}

\* Every answer of the instances states its cost where the theorem about
\* ChargedAtCost expects it.
ASSUME CostAssumption == \A a \in Answer : StatesCost(a)
=============================================================================
