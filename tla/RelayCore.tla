----------------------------- MODULE RelayCore -----------------------------
(***************************************************************************)
(* cmd/relay-core: concurrent client calls through serveRelay, from the    *)
(* client's request to the settlement with the control plane.              *)
(*                                                                         *)
(* One Call is one run of the handler in its own goroutine.  A handler     *)
(* shares nothing with the others inside the process; calls meet in the    *)
(* control plane's ledger, which the model keeps as an external component  *)
(* that deduplicates on the request id.  A step of a handler ends where it *)
(* waits for somebody else: the client, the control plane or the upstream. *)
(***************************************************************************)
EXTENDS OfficialUrls, RelayWire, Sequences

CONSTANTS
  Call,       \* client calls
  RequestId,  \* values of the X-Request-Id header
  IdOf,       \* IdOf[c]: the header of call c
  Request,    \* request shapes a client may send
  Reply,      \* answers the control plane may give to SelectChannel
  Answer,     \* answers an upstream may give
  Held        \* outcomes of UpstreamKeyStore.KeyFor: TRUE a key, FALSE an error

Path == {"chat", "messages", "responses", "embeddings", "rerank", "images",
         "gemini", "gemini-stream"}

\* modelAt: where a model name is found; stream: the body's stream flag; sse:
\* the query asks for ?alt=sse; options: the body's stream_options, which may
\* ask for a usage frame or be a JSON null; n: the image count, 0 if unreadable.
RequestShape == [path : Path, modelAt : {"body", "path", "nowhere"}, stream : BOOLEAN,
                 sse : BOOLEAN, options : {"none", "usage", "null"}, n : Int]

\* official is the host's own claim, which the handler does not read.
ReplyShape == [error : BOOLEAN, type : Int, official : BOOLEAN,
               base : BaseURL \cup {NoBase}, key : BOOLEAN]

\* What the handler sends upstream: to a compiled-in URL or to a base URL.
TargetShape == [type : Int, url : Int, base : BaseURL \cup {NoBase},
                header : Header, rewrite : Rewrite]

NoTarget == [type |-> 0, url |-> NoURL, base |-> NoBase, header |-> "none",
             rewrite |-> "verbatim"]

\* at: the endpoints that answer in this way.
\* framing: one JSON object, SSE data lines of one object each, or the JSON
\* array of objects that a Gemini stream is without ?alt=sse.
\* compact: a single object is sent on one line.
\* frames: the objects, up to the last one that counts anything.
\* onRequest: the last event is only sent when include_usage is set.
\* cost: what the upstream itself counts for the call.
AnswerShape == [at : SUBSET (Path \cup {"bedrock"}), status : Nat,
                framing : {"body", "events", "array"}, compact : BOOLEAN,
                frames : Seq(Chunk), onRequest : BOOLEAN,
                cost : [prompt : Nat, completion : Nat, images : Nat]]

NoAnswer == [at |-> {}, status |-> 0, framing |-> "body", compact |-> FALSE,
             frames |-> <<>>, onRequest |-> FALSE,
             cost |-> [prompt |-> 0, completion |-> 0, images |-> 0]]

Bill == [kind : {"tokens", "image"}, prompt : Nat, completion : Nat, total : Nat,
         images : Nat, status : Nat]

NoBill == [kind |-> "none", prompt |-> 0, completion |-> 0, total |-> 0,
           images |-> 0, status |-> 0]

MaxAttempts == 3

ASSUME IdAssumption == IdOf \in [Call -> RequestId]
ASSUME RequestAssumption == Request \subseteq RequestShape
ASSUME ReplyAssumption == Reply \subseteq ReplyShape
ASSUME AnswerAssumption ==
  Answer \subseteq {a \in AnswerShape : a.status > 0 /\ (a.framing = "body" => Len(a.frames) = 1)}
ASSUME HeldAssumption == Held \subseteq BOOLEAN

VARIABLES
  pc,       \* control point of the handler
  client,   \* "here", or "gone": the request context is cancelled
  req,      \* the request
  dial,     \* the upstream request
  ans,      \* what the upstream sends on this call, as the handler reads it
  status,   \* statusTrackingWriter: status line written, 0 for none
  relayed,  \* frames of ans written to the client
  partial,  \* a part of one more was written before a write failed
  errBody,  \* the relay's own JSON error object was written
  usage,    \* acc in streamThrough, usage in forwardAWSBedrock and serveRelay
  bill,     \* settle in serveRelay
  attempt,  \* failed attempts of Settle so far
  reply,    \* answer to the outstanding settle POST
  logged,   \* "[settle] failed" was printed
  wire,     \* settle POSTs on the way to the control plane
  ledger    \* external: settlements the control plane has charged

vars == <<pc, client, req, dial, ans, status, relayed, partial, errBody, usage, bill,
          attempt, reply, logged, wire, ledger>>

handling == <<req, dial, ans>>
writing == <<status, relayed, partial, errBody>>
settling == <<bill, attempt, reply, logged, wire, ledger>>

Control == {"idle", "reading", "select", "upstream", "bedrock", "stream", "buffer",
            "settle", "settling", "done", "panicked", "lost"}

Over == {"done", "panicked", "lost"}

Finished == Over \cup {"idle"}

Message == [call : Call, attempt : 0 .. MaxAttempts, id : RequestId, bill : Bill]

-----------------------------------------------------------------------------
(* The request *)

Streams(r) == IF r.modelAt = "body" THEN r.stream ELSE r.path = "gemini-stream"

\* PeekRequest, with the native Gemini path as the only fallback.
HasModel(r) ==
  \/ r.modelAt = "body"
  \/ r.modelAt = "path" /\ r.path \in {"gemini", "gemini-stream"}

IsImage(r) == r.path = "images"

Readable(r) == HasModel(r) /\ ~(IsImage(r) /\ Streams(r))

RelayFormat(r) ==
  CASE r.path = "messages"                    -> "claude"
    [] r.path \in {"gemini", "gemini-stream"} -> "gemini"
    [] r.path = "images"                      -> "image"
    [] r.path = "rerank"                      -> "rerank"
    [] OTHER                                  -> "openai"

UnderV1(r) == r.path \notin {"gemini", "gemini-stream"}

InjectsUsage(r) == r.path = "chat" /\ Streams(r)

\* Decoding a JSON null leaves a nil map, and writing to that one panics.
WritesNilMap(r) == InjectsUsage(r) /\ r.options = "null"

-----------------------------------------------------------------------------
(* Admission: what the handler makes of the control plane's answer *)

\* suffixHostUpstreamURL looks at the host name of the base URL and keeps the
\* whole of it; officialUpstreamURL has the URLs of the table.
HasUpstreamURL(s) ==
  IF SuffixHost(s.type) THEN IsOfficialHostSuffix(s.type, NormalizeHost(s.base))
  ELSE HasOfficial(s.type)

\* Mutant: the host's claim instead of the enclave's own tables.
VerdictTrustsHost(r, s, held) ==
  IF s.error THEN 403
  ELSE IF ~s.official THEN 400
  ELSE IF ~s.key /\ ~held THEN 500
  ELSE IF s.type = 33 THEN (IF Streams(r) THEN 400 ELSE 0)
  ELSE IF ~HasUpstreamURL(s) THEN 500
  ELSE 0

\* The status the call is refused with, 0 when it goes upstream.
Verdict(r, s, held) ==
  IF s.error THEN 403
  ELSE IF ~SupportsOfficial(s.type) THEN 400
  ELSE IF ~s.key /\ ~held THEN 500
  ELSE IF s.type = 33 THEN (IF Streams(r) THEN 400 ELSE 0)
  ELSE IF ~ResolveRoute(s.type, RelayFormat(r), UnderV1(r)).ok THEN 400
  ELSE IF ~HasUpstreamURL(s) THEN 500
  ELSE 0

BedrockBase ==
  [scheme |-> "https", port |-> "default",
   host   |-> [zone |-> "amazonaws.com", joint |-> "bedrock-runtime"]]

\* forwardAWSBedrock derives its host from the region and signs the request;
\* every other provider gets the key in the header of its route.
Target(r, s) ==
  IF s.type = 33
  THEN [type |-> 33, url |-> NoURL, base |-> BedrockBase, header |-> "none",
        rewrite |-> "verbatim"]
  ELSE LET route == ResolveRoute(s.type, RelayFormat(r), UnderV1(r))
       IN  [type    |-> s.type,
            url     |-> IF SuffixHost(s.type) THEN NoURL ELSE For(s.type),
            base    |-> IF SuffixHost(s.type) THEN s.base ELSE NoBase,
            header  |-> route.header,
            rewrite |-> route.rewrite]

\* The scheme that the HTTP client is asked to speak.
DialScheme(d) == IF d.url # NoURL THEN SchemeOf(d.url) ELSE d.base.scheme

-----------------------------------------------------------------------------
(* Billing *)

\* What the handler makes of one frame or body.
Accumulate(r, acc, k) ==
  IF Streams(r) THEN MergeUsage(acc, PeekUsage(k))
  ELSE [PeekUsage(k) EXCEPT !.images = IF IsImage(r) THEN PeekImageCount(k) ELSE 0]

\* convertNovaResponseToOpenAI reads Nova's own usage block.
NovaUsage(k) ==
  FinalizeUsage([prompt |-> k.usage.input, completion |-> k.usage.output,
                 total |-> k.usage.total, images |-> 0])

\* A rerank upstream reports a total only; it is billed as prompt tokens.
RerankUsage(r, u) ==
  IF r.path = "rerank" /\ u.prompt = 0 /\ u.completion = 0
  THEN [u EXCEPT !.prompt = u.total] ELSE u

SettleRequest(r, u, code) ==
  IF IsImage(r)
  THEN [kind |-> "image", prompt |-> 0, completion |-> 0, total |-> 0,
        images |-> OrElse(u.images, PeekImageN(r.n)), status |-> code]
  ELSE LET v == RerankUsage(r, u)
       IN  [kind |-> "tokens", prompt |-> v.prompt, completion |-> v.completion,
            total |-> v.total, images |-> 0, status |-> code]

OK2xx(code) == code \in 200 .. 299

-----------------------------------------------------------------------------
(* Steps shared by several actions *)

Goto(c, there) == pc' = [pc EXCEPT ![c] = there]

\* writeError through statusTrackingWriter: the first status line stands.
WriteError(c, code) ==
  /\ status' = [status EXCEPT ![c] = OrElse(status[c], code)]
  /\ errBody' = [errBody EXCEPT ![c] = TRUE]
  /\ UNCHANGED relayed

Refuse(c, code) ==
  /\ WriteError(c, code)
  /\ Goto(c, "done")
  /\ UNCHANGED <<client, handling, partial, usage, settling>>

\* The write that failed may have let a part of the data through.
BreaksOff(c, cut) == partial' = [partial EXCEPT ![c] = cut]

\* Mutant: the error object is written whether or not headers are out.
RelayErrorAlways(c) ==
  /\ WriteError(c, 502)
  /\ Goto(c, "done")
  /\ UNCHANGED <<client, handling, usage, settling>>

\* Mutant: the error object is written only if headers are out.
RelayErrorInverted(c) ==
  /\ IF status[c] # 0 THEN WriteError(c, 502) ELSE UNCHANGED <<status, relayed, errBody>>
  /\ Goto(c, "done")
  /\ UNCHANGED <<client, handling, usage, settling>>

\* serveRelay's error exit after the dispatch: no settlement, no log line,
\* and an error status only if no header has been written.
RelayError(c) ==
  /\ IF status[c] = 0 THEN WriteError(c, 502) ELSE UNCHANGED <<status, relayed, errBody>>
  /\ Goto(c, "done")
  /\ UNCHANGED <<client, handling, usage, settling>>

\* The successful exit of forward or forwardAWSBedrock with usage u.
Complete(c, u, code) ==
  /\ usage' = [usage EXCEPT ![c] = u]
  /\ bill' = [bill EXCEPT ![c] = SettleRequest(req[c], u, code)]
  /\ Goto(c, "settle")
  /\ UNCHANGED <<client, attempt, reply, logged, wire, ledger>>

\* Mutants of AttemptFails: one attempt too many, no log line, no counting.
AttemptFailsLate(c) ==
  /\ attempt' = [attempt EXCEPT ![c] = @ + 1]
  /\ reply' = [reply EXCEPT ![c] = "none"]
  /\ Goto(c, IF attempt[c] < MaxAttempts THEN "settle" ELSE "done")
  /\ logged' = [logged EXCEPT ![c] = attempt[c] >= MaxAttempts]

AttemptFailsSilently(c) ==
  /\ attempt' = [attempt EXCEPT ![c] = @ + 1]
  /\ reply' = [reply EXCEPT ![c] = "none"]
  /\ Goto(c, IF attempt[c] + 1 < MaxAttempts THEN "settle" ELSE "done")
  /\ UNCHANGED logged

AttemptFailsUncounted(c) ==
  /\ reply' = [reply EXCEPT ![c] = "none"]
  /\ Goto(c, "settle")
  /\ UNCHANGED <<attempt, logged>>

\* Settle gives up on an attempt, and after the third one on the settlement.
AttemptFails(c) ==
  /\ attempt' = [attempt EXCEPT ![c] = @ + 1]
  /\ reply' = [reply EXCEPT ![c] = "none"]
  /\ Goto(c, IF attempt[c] + 1 < MaxAttempts THEN "settle" ELSE "done")
  /\ logged' = [logged EXCEPT ![c] = attempt[c] + 1 >= MaxAttempts]

-----------------------------------------------------------------------------
(* Reading the request *)

Arrive(c) ==
  /\ pc[c] = "idle"
  /\ \E r \in Request : req' = [req EXCEPT ![c] = r]
  /\ Goto(c, "reading")
  /\ UNCHANGED <<client, dial, ans, writing, usage, settling>>

ReadBodyFails(c) == pc[c] = "reading" /\ Refuse(c, 400)

RefuseRequest(c) == pc[c] = "reading" /\ ~Readable(req[c]) /\ Refuse(c, 400)

\* net/http recovers a panic of the handler and closes the connection.
PanicOnOptions(c) ==
  /\ pc[c] = "reading"
  /\ Readable(req[c]) /\ WritesNilMap(req[c])
  /\ Goto(c, "panicked")
  /\ UNCHANGED <<client, handling, writing, usage, settling>>

AskControlPlane(c) ==
  /\ pc[c] = "reading"
  /\ Readable(req[c]) /\ ~WritesNilMap(req[c])
  /\ Goto(c, "select")
  /\ UNCHANGED <<client, handling, writing, usage, settling>>

-----------------------------------------------------------------------------
(* SelectChannel and admission *)

\* Unreachable, undecodable answer, the 15 s timeout or a cancelled context.
SelectFails(c) == pc[c] = "select" /\ Refuse(c, 502)

RefuseChannel(c) ==
  /\ pc[c] = "select"
  /\ \E s \in Reply, held \in Held :
       Verdict(req[c], s, held) # 0 /\ Refuse(c, Verdict(req[c], s, held))

Dispatch(c) ==
  /\ pc[c] = "select"
  /\ \E s \in Reply, held \in Held :
       /\ Verdict(req[c], s, held) = 0
       /\ dial' = [dial EXCEPT ![c] = Target(req[c], s)]
       /\ Goto(c, IF s.type = 33 THEN "bedrock" ELSE "upstream")
  /\ UNCHANGED <<client, req, ans, writing, usage, settling>>

-----------------------------------------------------------------------------
(* forward, streamThrough and bufferThrough *)

\* Mutant: an upstream request that does not carry the request context.
UpstreamFailsDetached(c) ==
  pc[c] = "upstream" /\ client[c] = "here" /\ RelayError(c) /\ UNCHANGED partial

\* The client's Do fails: dial, TLS, reset or a cancelled context.
UpstreamFails(c) == pc[c] = "upstream" /\ RelayError(c) /\ UNCHANGED partial

\* The body of a chat stream asks for a usage frame, every other is unchanged.
EnsureStreamUsage(r) == [r EXCEPT !.options = IF InjectsUsage(r) THEN "usage" ELSE @]

\* What an upstream gets of a request: the path and the body, but no query.
Forwarded(r) == [EnsureStreamUsage(r) EXCEPT !.sse = FALSE]

\* External: how an upstream frames its success, by the request f it got.  A
\* native Gemini path says itself that it streams, whatever the body says.
Framing(f) ==
  CASE f.path = "gemini-stream" -> IF f.sse THEN "events" ELSE "array"
    [] f.path \in {"chat", "messages", "responses"} /\ f.stream -> "events"
    [] OTHER -> "body"

FramedFor(f, a) == a.framing = IF OK2xx(a.status) THEN Framing(f) ELSE "body"

\* External: the frames an upstream sends for the request f it got.
Emitted(f, a) ==
  IF a.framing = "events" /\ a.onRequest /\ f.options # "usage"
  THEN [a EXCEPT !.frames = SubSeq(a.frames, 1, Len(a.frames) - 1)] ELSE a

\* PeekUsage decodes a line at a time of what the handler takes for a stream
\* and the whole of anything else: whether that is one JSON object each.
Legible(r, a) ==
  \/ Streams(r) /\ a.framing = "events"
  \/ Streams(r) /\ a.framing = "body" /\ a.compact
  \/ ~Streams(r) /\ a.framing = "body"

\* Text that is no object counts nothing: the lines of an array or of an
\* object spread over them, or an array as a whole.
AsRead(r, a) ==
  IF Legible(r, a) THEN a
  ELSE [a EXCEPT !.frames = IF Streams(r) THEN [i \in 1 .. Len(a.frames) + 1 |-> Content]
                            ELSE <<Content>>]

\* The status line goes out before the body is read.
UpstreamAnswers(c) ==
  /\ pc[c] = "upstream"
  /\ DialScheme(dial[c]) \in {"https", "http"}
  /\ \E a \in Answer :
       /\ req[c].path \in a.at
       /\ FramedFor(Forwarded(req[c]), a)
       /\ ans' = [ans EXCEPT ![c] = AsRead(req[c], Emitted(Forwarded(req[c]), a))]
       /\ status' = [status EXCEPT ![c] = OrElse(status[c], a.status)]
  /\ Goto(c, IF Streams(req[c]) THEN "stream" ELSE "buffer")
  /\ UNCHANGED <<client, req, dial, relayed, partial, errBody, usage, settling>>

RelayFrame(c) ==
  /\ pc[c] = "stream"
  /\ relayed[c] < Len(ans[c].frames)
  /\ relayed' = [relayed EXCEPT ![c] = @ + 1]
  /\ usage' = [usage EXCEPT ![c] = Accumulate(req[c], @, ans[c].frames[relayed[c] + 1])]
  /\ UNCHANGED <<pc, client, handling, status, partial, errBody, settling>>

StreamEnds(c) ==
  /\ pc[c] = "stream"
  /\ relayed[c] = Len(ans[c].frames)
  /\ Complete(c, FinalizeUsage(usage[c]), ans[c].status)
  /\ UNCHANGED <<handling, writing>>

\* The body is read to its end before any of it is written.
RelayBody(c) ==
  /\ pc[c] = "buffer"
  /\ relayed' = [relayed EXCEPT ![c] = 1]
  /\ Complete(c, Accumulate(req[c], ZeroUsage, ans[c].frames[1]), ans[c].status)
  /\ UNCHANGED <<handling, status, partial, errBody>>

\* Mutant: the usage counted so far is settled although the relay broke off.
RelayBreaksAndSettles(c) ==
  /\ pc[c] \in {"stream", "buffer"}
  /\ Complete(c, FinalizeUsage(usage[c]), ans[c].status)
  /\ UNCHANGED <<handling, writing>>

\* A read from the upstream or a write to the client fails, the latter maybe
\* half way: the usage counted so far is returned with the error, and the
\* caller drops it.
RelayBreaks(c) ==
  /\ pc[c] \in {"stream", "buffer"}
  /\ \E cut \in BOOLEAN : BreaksOff(c, cut /\ relayed[c] < Len(ans[c].frames))
  /\ RelayError(c)

-----------------------------------------------------------------------------
(* forwardAWSBedrock: the whole answer is read before a header is written *)

\* Credentials, conversion, signing, Do, reading or decoding fails.
BedrockFails(c) == pc[c] = "bedrock" /\ RelayError(c) /\ UNCHANGED partial

\* A status outside 2xx is passed on with the relay's own error object.
BedrockRejects(c) ==
  /\ pc[c] = "bedrock"
  /\ \E a \in Answer :
       /\ "bedrock" \in a.at /\ a.framing = "body" /\ ~OK2xx(a.status)
       /\ ans' = [ans EXCEPT ![c] = a]
       /\ WriteError(c, a.status)
       /\ Complete(c, ZeroUsage, a.status)
  /\ UNCHANGED <<req, dial, partial>>

BedrockAnswers(c) ==
  /\ pc[c] = "bedrock"
  /\ \E a \in Answer :
       /\ "bedrock" \in a.at /\ a.framing = "body" /\ OK2xx(a.status)
       /\ ans' = [ans EXCEPT ![c] = a]
       /\ status' = [status EXCEPT ![c] = OrElse(status[c], a.status)]
       /\ relayed' = [relayed EXCEPT ![c] = 1]
       /\ Complete(c, NovaUsage(a.frames[1]), a.status)
  /\ UNCHANGED <<req, dial, partial, errBody>>

\* The answer is converted and counted, and then writing it fails, maybe half
\* way: forwardAWSBedrock returns the error without its count.
BedrockWriteFails(c) ==
  /\ pc[c] = "bedrock"
  /\ \E a \in Answer :
       /\ "bedrock" \in a.at /\ a.framing = "body" /\ OK2xx(a.status)
       /\ ans' = [ans EXCEPT ![c] = a]
       /\ status' = [status EXCEPT ![c] = OrElse(status[c], a.status)]
       /\ usage' = [usage EXCEPT ![c] = NovaUsage(a.frames[1])]
  /\ \E cut \in BOOLEAN : BreaksOff(c, cut)
  /\ Goto(c, "done")
  /\ UNCHANGED <<client, req, dial, relayed, errBody, settling>>

-----------------------------------------------------------------------------
(* httpControlPlane.Settle *)

\* Mutant: a retry under a request id of its own.
SettlePostRenamed(c) ==
  [call |-> c, attempt |-> attempt[c], bill |-> bill[c],
   id |-> IF attempt[c] = 0 THEN IdOf[c] ELSE CHOOSE i \in RequestId : i # IdOf[c]]

SettlePost(c) == [call |-> c, attempt |-> attempt[c], id |-> IdOf[c], bill |-> bill[c]]

\* A request with a cancelled context is not sent at all.
PostSettle(c) ==
  /\ pc[c] = "settle"
  /\ client[c] = "here"
  /\ wire' = wire \cup {SettlePost(c)}
  /\ Goto(c, "settling")
  /\ UNCHANGED <<client, handling, writing, usage, bill, attempt, reply, logged, ledger>>

SettleUnreachable(c) ==
  /\ pc[c] = "settle"
  /\ AttemptFails(c)
  /\ UNCHANGED <<client, handling, writing, usage, bill, wire, ledger>>

\* The POST went out and no answer came back: connection lost, the 15 s
\* timeout or a cancelled context.  The POST may still be processed.
SettleUnanswered(c) ==
  /\ pc[c] = "settling"
  /\ AttemptFails(c)
  /\ UNCHANGED <<client, handling, writing, usage, bill, wire, ledger>>

SettleReturns(c) ==
  /\ pc[c] = "settling"
  /\ \/ /\ reply[c] = "ok"
        /\ Goto(c, "done")
        /\ UNCHANGED <<attempt, reply, logged>>
     \/ /\ reply[c] = "rejected"
        /\ Goto(c, "done")
        /\ logged' = [logged EXCEPT ![c] = TRUE]
        /\ UNCHANGED <<attempt, reply>>
     \/ /\ reply[c] = "failed"
        /\ AttemptFails(c)
  /\ UNCHANGED <<client, handling, writing, usage, bill, wire, ledger>>

-----------------------------------------------------------------------------
(* The control plane's settle endpoint, external *)

Recorded(id) == \E e \in ledger : e.id = id

\* The answer reaches the handler only while that attempt waits for it.
Respond(m, verdict) ==
  reply' = IF pc[m.call] = "settling" /\ attempt[m.call] = m.attempt
           THEN [reply EXCEPT ![m.call] = verdict] ELSE reply

\* An id seen before is acknowledged and not charged again; only a 2xx call
\* is charged.  A refusal and a server error charge nothing.
ChargeCall(m) ==
  /\ ~Recorded(m.id) /\ OK2xx(m.bill.status)
  /\ ledger' = ledger \cup {m}
  /\ Respond(m, "ok")

AcknowledgeCall(m) ==
  /\ Recorded(m.id) \/ ~OK2xx(m.bill.status)
  /\ Respond(m, "ok")
  /\ UNCHANGED ledger

TurnDownCall(m) ==
  /\ ~Recorded(m.id)
  /\ \E verdict \in {"rejected", "failed"} : Respond(m, verdict)
  /\ UNCHANGED ledger

ReceiveSettle(m) ==
  /\ wire' = wire \ {m}
  /\ ChargeCall(m) \/ AcknowledgeCall(m) \/ TurnDownCall(m)
  /\ UNCHANGED <<pc, client, handling, writing, usage, bill, attempt, logged>>

LoseSettle(m) ==
  /\ wire' = wire \ {m}
  /\ UNCHANGED <<pc, client, handling, writing, usage, bill, attempt, reply, logged, ledger>>

-----------------------------------------------------------------------------
(* The client and the process *)

ClientGone(c) ==
  /\ pc[c] \notin Finished
  /\ client[c] = "here"
  /\ client' = [client EXCEPT ![c] = "gone"]
  /\ UNCHANGED <<pc, handling, writing, usage, settling>>

\* The enclave process dies: every handler with it, nothing is persisted.
Crash ==
  /\ \E c \in Call : pc[c] \notin Finished
  /\ pc' = [c \in Call |-> IF pc[c] \in Finished THEN pc[c] ELSE "lost"]
  /\ UNCHANGED <<client, handling, writing, usage, settling>>

\* Every call has ended and no POST is left: the instance is over.
Stop ==
  /\ \A c \in Call : pc[c] \in Over
  /\ wire = {}
  /\ UNCHANGED vars

-----------------------------------------------------------------------------
NoRequest == [path |-> "chat", modelAt |-> "nowhere", stream |-> FALSE, sse |-> FALSE,
              options |-> "none", n |-> 0]

Init ==
  /\ pc = [c \in Call |-> "idle"]
  /\ client = [c \in Call |-> "here"]
  /\ req = [c \in Call |-> NoRequest]
  /\ dial = [c \in Call |-> NoTarget]
  /\ ans = [c \in Call |-> NoAnswer]
  /\ status = [c \in Call |-> 0]
  /\ relayed = [c \in Call |-> 0]
  /\ partial = [c \in Call |-> FALSE]
  /\ errBody = [c \in Call |-> FALSE]
  /\ usage = [c \in Call |-> ZeroUsage]
  /\ bill = [c \in Call |-> NoBill]
  /\ attempt = [c \in Call |-> 0]
  /\ reply = [c \in Call |-> "none"]
  /\ logged = [c \in Call |-> FALSE]
  /\ wire = {}
  /\ ledger = {}

Serve(c) ==
  \/ Arrive(c) \/ ReadBodyFails(c) \/ RefuseRequest(c) \/ PanicOnOptions(c)
  \/ AskControlPlane(c)
  \/ SelectFails(c) \/ RefuseChannel(c) \/ Dispatch(c)
  \/ UpstreamFails(c) \/ UpstreamAnswers(c)
  \/ RelayFrame(c) \/ StreamEnds(c) \/ RelayBody(c) \/ RelayBreaks(c)
  \/ BedrockFails(c) \/ BedrockRejects(c) \/ BedrockAnswers(c) \/ BedrockWriteFails(c)
  \/ PostSettle(c) \/ SettleUnreachable(c) \/ SettleUnanswered(c) \/ SettleReturns(c)

Next ==
  \/ \E c \in Call : Serve(c) \/ ClientGone(c)
  \/ \E m \in wire : ReceiveSettle(m) \/ LoseSettle(m)
  \/ Crash
  \/ Stop

Spec == Init /\ [][Next]_vars

\* What the process guarantees without help from anybody: the 15 s timeout of
\* the control-plane client, its own next step between two settle attempts,
\* and that a cancelled request context ends a pending read, Do or write.
\* Nothing obliges an upstream to answer or a client to go on.
Fairness ==
  \A c \in Call :
    /\ WF_vars(SelectFails(c))
    /\ WF_vars(PostSettle(c) \/ SettleUnreachable(c))
    /\ WF_vars(SettleUnanswered(c))
    /\ WF_vars(/\ client[c] = "gone"
               /\ ReadBodyFails(c) \/ UpstreamFails(c) \/ RelayBreaks(c) \/ BedrockFails(c))

FairSpec == Spec /\ Fairness

-----------------------------------------------------------------------------
(* External: what an upstream says about its cost, by the form of its API *)

\* The usage object of a chat completion, and the one that calls them input and
\* output.
ChatCount(p, q) ==
  [prompt |-> p, completion |-> q, total |-> p + q, input |-> 0, output |-> 0]

TokenCount(p, q, total) ==
  [prompt |-> 0, completion |-> 0, total |-> total, input |-> p, output |-> q]

\* Frame k states p prompt and q completion tokens.
States(api, framing, k, p, q) ==
  CASE api \in {"chat", "embeddings"} ->
         k = [Content EXCEPT !.usage = ChatCount(p, q)]
    [] api = "responses" /\ framing = "events" ->
         k = [Content EXCEPT !.response = [input |-> p, output |-> q, total |-> p + q]]
    [] api = "responses" /\ framing # "events" ->
         k = [Content EXCEPT !.usage = TokenCount(p, q, p + q)]
    [] api = "messages" ->
         k = [Content EXCEPT !.usage = TokenCount(p, q, 0)]
    [] api = "bedrock" ->
         \E total \in {0, p + q} : k = [Content EXCEPT !.usage = TokenCount(p, q, total)]
    [] api \in {"gemini", "gemini-stream"} ->
         \E tool \in 0 .. p, thoughts \in 0 .. q :
           k = [Content EXCEPT !.metadata =
                  [prompt |-> p - tool, candidates |-> q - thoughts, total |-> p + q,
                   tool |-> tool, thoughts |-> thoughts]]
    [] OTHER -> k = [Content EXCEPT !.usage = TokenCount(0, 0, p)] /\ q = 0

\* The last frame states the cost, frames before it at most a part of it.
StatesAtEnd(api, a) ==
  /\ a.frames # <<>>
  /\ \A i \in 1 .. Len(a.frames) :
       \E p \in 0 .. a.cost.prompt, q \in 0 .. a.cost.completion :
         States(api, a.framing, a.frames[i], p, q)
  /\ States(api, a.framing, a.frames[Len(a.frames)], a.cost.prompt, a.cost.completion)

\* A message stream states the input when it starts, with a first part of the
\* output, and the output so far from then on.
StatesInParts(a) ==
  /\ Len(a.frames) > 1
  /\ \E o \in 0 .. a.cost.completion :
       a.frames[1] = [Content EXCEPT !.message = [input |-> a.cost.prompt, output |-> o]]
  /\ \A i \in 2 .. Len(a.frames) :
       \E o \in 0 .. a.cost.completion : a.frames[i] = [Content EXCEPT !.usage = TokenCount(0, o, 0)]
  /\ a.frames[Len(a.frames)] = [Content EXCEPT !.usage = TokenCount(0, a.cost.completion, 0)]

StatesCostAs(api, a) ==
  CASE api = "images"                              -> a.frames[1].images = a.cost.images
    [] api = "messages" /\ a.framing = "events"    -> StatesInParts(a)
    [] api = "bedrock"                             -> StatesAtEnd(api, a) /\ a.cost.images = 0
    [] OTHER                                       -> StatesAtEnd(api, a)

\* A success states its cost in the form of every API it stands for; only a
\* chat completion withholds the frame with it until asked.
StatesCost(a) ==
  OK2xx(a.status) =>
    /\ a.onRequest => a.at \subseteq {"chat"}
    /\ \A api \in a.at : StatesCostAs(api, a)

-----------------------------------------------------------------------------
(* Properties *)

HandlingOK ==
  /\ req \in [Call -> RequestShape]
  /\ dial \in [Call -> TargetShape]
  /\ ans \in [Call -> AnswerShape]

WritingOK ==
  /\ status \in [Call -> Nat]
  /\ relayed \in [Call -> Nat]
  /\ partial \in [Call -> BOOLEAN]
  /\ errBody \in [Call -> BOOLEAN]

SettlingOK ==
  /\ bill \in [Call -> Bill \cup {NoBill}]
  /\ attempt \in [Call -> 0 .. MaxAttempts]
  /\ reply \in [Call -> {"none", "ok", "rejected", "failed"}]
  /\ logged \in [Call -> BOOLEAN]
  /\ wire \subseteq Message
  /\ ledger \subseteq Message

\* Every variable has its type; in particular Settle makes at most three
\* attempts and only complete settlements are posted and charged.
TypeOK ==
  /\ pc \in [Call -> Control]
  /\ client \in [Call -> {"here", "gone"}]
  /\ usage \in [Call -> Usage]
  /\ HandlingOK
  /\ WritingOK
  /\ SettlingOK

\* A charge in the ledger is for a call whose answer reached the client in
\* full: the upstream's own 2xx status line, every frame, nothing broken off
\* half way, no error object of the relay.  (Settle only after a complete relay;
\* the status in the settlement is the status the client saw.)
ChargedIsServed ==
  \A e \in ledger :
    /\ OK2xx(status[e.call])
    /\ status[e.call] = ans[e.call].status
    /\ e.bill.status = status[e.call]
    /\ relayed[e.call] = Len(ans[e.call].frames)
    /\ ~partial[e.call] /\ ~errBody[e.call]

\* Bill b of request r against the upstream's own count: prompt and completion
\* tokens, or the number of images within the bounds, for which the request's
\* count stands in when the answer lists none.
AtCost(r, cost, b) ==
  IF IsImage(r)
  THEN /\ <<b.kind, b.prompt, b.completion>> = <<"image", 0, 0>>
       /\ b.images = PeekImageN(IF cost.images > 0 THEN cost.images ELSE r.n)
  ELSE <<b.kind, b.prompt, b.completion>> = <<"tokens", cost.prompt, cost.completion>>

\* Nothing was counted.
Uncounted(b) == <<b.kind, b.prompt, b.completion, b.total>> = <<"tokens", 0, 0, 0>>

IsDue(r, a, b) == IF Legible(r, a) THEN AtCost(r, a.cost, b) ELSE Uncounted(b)

\* The amount charged is what the upstream itself counts for the call, when it
\* answers in frames the handler can tell apart; otherwise it is 0, never a
\* part or another amount.  (Usage injection, per-field merge over frames,
\* rerank and image rules together.)
ChargedAtCost == \A e \in ledger : IsDue(req[e.call], ans[e.call], e.bill)

\* wire.go, usagePeek: the counts of Gemini's native answers and of the final
\* chunk of a native stream are read, so that such calls are not billed free.
GeminiIsCharged ==
  \A e \in ledger :
    req[e.call].path \in {"gemini", "gemini-stream"} /\ ans[e.call].cost.prompt > 0
    => e.bill.prompt > 0

\* Retries, late POSTs and client retries under one X-Request-Id never charge
\* it twice.  (Every attempt of Settle carries the same request id.)
ChargedOnce ==
  \A e, f \in ledger : IdOf[e.call] = IdOf[f.call] => e = f

Charged(c) == \E e \in ledger : IdOf[e.call] = IdOf[c]

\* No free request goes unnoticed: when the handler of a fully relayed 2xx
\* call has returned, its request id is charged or its settlement failure is in
\* the log.  (A call under an id already charged is not charged again.)
ServedIsAccounted ==
  \A c \in Call :
    pc[c] = "done" /\ bill[c] # NoBill /\ OK2xx(bill[c].status) => Charged(c) \/ logged[c]

\* The relay's JSON error object never follows upstream content and never
\* goes out under a success status.  (headersSent before writeError.)
ErrorStandsAlone ==
  \A c \in Call : errBody[c] => relayed[c] = 0 /\ ~partial[c] /\ ~OK2xx(status[c])

\* Target d of request r: a vetted provider, at its own https URL or in its own
\* host family, on a surface it serves, with the credential in the header of
\* that surface.  Of the host family the name alone is settled here.
Vetted(r, d) ==
  \/ /\ d.type \in {1, 20} /\ d.url = d.type
     /\ d.header = "Authorization" /\ d.rewrite = "verbatim"
  \/ /\ d.type = 14 /\ d.url = 14
     /\ d.header = "x-api-key" /\ d.rewrite = "verbatim"
  \/ /\ d.type = 24 /\ d.url = 24
     /\ \/ /\ r.path \in {"chat", "responses", "embeddings"}
           /\ d.header = "Authorization" /\ d.rewrite = "/v1beta/openai"
        \/ /\ r.path \in {"gemini", "gemini-stream"}
           /\ d.header = "x-goog-api-key" /\ d.rewrite = "verbatim"
  \/ d.type = 33 /\ d.url = NoURL /\ d.base = BedrockBase /\ ~Streams(r)
  \/ /\ d.type = 59 /\ d.url = NoURL /\ d.header = "Authorization"
     /\ d.base.host.zone \in {"azuredatabricks.net", "cloud.databricks.com", "gcp.databricks.com"}
     /\ d.base.host.joint \notin {"apex", "hyphen"}
     /\ \/ r.path \in {"chat", "responses", "embeddings"} /\ d.rewrite = "verbatim"
        \/ r.path = "messages" /\ d.rewrite = "/anthropic"

\* Whatever the control plane answers, a dispatched call goes to a vetted
\* provider and to nobody else, over https where the enclave has the URL.
DialsOnlyOfficial ==
  \A c \in Call :
    dial[c] # NoTarget =>
      /\ Vetted(req[c], dial[c])
      /\ ~SuffixHost(dial[c].type) => DialScheme(dial[c]) = "https"

\* main.go, package comment, and newStrictUpstreamClient: what an official
\* channel dials is dialed over strict TLS.  So an answer came over TLS.
SpokenOverTLS ==
  \A c \in Call : ans[c] # NoAnswer => DialScheme(dial[c]) = "https"

\* An image settlement multiplies by a count between 1 and MaxImageN, whatever
\* the client asked for and the upstream returned.
ImageCountBounded ==
  \A c \in Call : bill[c].kind = "image" => bill[c].images \in 1 .. MaxImageN

\* docs/01-relay-core-architecture.md, 2.4: on completion, success or error,
\* streaming or not, the enclave calls Settle.  Here only for the calls for
\* which the relay has already counted tokens.
CountedIsSettled ==
  \A c \in Call : pc[c] = "done" /\ usage[c] # ZeroUsage => bill[c] # NoBill

\* dispatch.go, finalizeUsage: when the upstream only reports the split counts
\* (as Anthropic does), the total is prompt plus completion.
SplitCountsAreSummed ==
  \A c \in Call :
    /\ bill[c].kind = "tokens"
    /\ \A i \in 1 .. Len(ans[c].frames) : PeekTotal(ans[c].frames[i]) = 0
    => bill[c].total = bill[c].prompt + bill[c].completion

\* Whatever fails and whoever is gone, a handler that returns has written a
\* status line.  It panics before that for one request alone: a chat stream
\* with null stream options.
HandlerResponds ==
  \A c \in Call :
    /\ pc[c] = "done" => status[c] # 0
    /\ pc[c] = "panicked" => WritesNilMap(req[c])

\* A call whose client has gone ends, wherever it is waiting: no upstream and
\* no control plane can hold it.
GoneEnds ==
  \A c \in Call : client[c] = "gone" ~> pc[c] \in Over

\* Settling ends, with or without a control plane that answers.
SettlingEnds ==
  \A c \in Call : pc[c] = "settle" ~> pc[c] \in Over

\* The billing promise: a call is owed once it is served and charged at most
\* once, for what is owed.  A charge is told apart by the attempt it came with.
Account(c) == {[receipt |-> e.attempt, bill |-> e.bill] : e \in {f \in ledger : f.call = c}}

Ledger == INSTANCE Billing WITH
  Bills <- Bill, None <- NoBill, Receipts <- 0 .. MaxAttempts,
  owed <- bill, account <- [c \in Call |-> Account(c)]

BillingSpec == Ledger!Spec
=============================================================================
