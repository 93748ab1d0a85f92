-------------------------- MODULE RelayCallProofs --------------------------
(***************************************************************************)
(* Further proofs about RelayCore, on what one call can come to whatever   *)
(* the host, the client and the upstream say: where it may go, how many    *)
(* images it may be billed for, what it is charged, and that it is         *)
(* answered.                                                               *)
(***************************************************************************)
EXTENDS RelayCoreProofs

\* The request of a call is fixed before its target is.
DialInv(c) ==
  /\ pc[c] = "idle" => dial[c] = NoTarget
  /\ dial[c] # NoTarget => Vetted(req[c], dial[c])

\* A count of images is clamped when it is read and again when it is billed.
ImageInv(c) ==
  /\ usage[c].images <= MaxImageN
  /\ bill[c].kind = "image" => bill[c].images \in 1 .. MaxImageN

SpotInv == \A c \in Call : DialInv(c) /\ ImageInv(c)

-----------------------------------------------------------------------------
(* Lemmas about targets and image counts *)

\* A provider that is supported is one of six.
LEMMA SupportedTypes ==
  ASSUME NEW t \in Int, SupportsOfficial(t)
  PROVE  t \in {1, 14, 20, 24, 33, 59}
BY DEF SupportsOfficial, Profiled

\* The entries of the four providers with a fixed URL are their own.
LEMMA FixedURLs ==
  ASSUME NEW t \in {1, 14, 20, 24}
  PROVE  For(t) = t
<1>1. t \in 0 .. ChannelTypeCount - 1
  BY DEF ChannelTypeCount
<1>2. t \notin WithoutDefault /\ t \notin DOMAIN SameURLAs
  BY DEF WithoutDefault, SameURLAs
<1>3. BaseURLs[t] = t /\ t \in DOMAIN BaseURLs
  BY <1>1, <1>2 DEF BaseURLs
<1>. QED BY <1>3 DEF For

\* The relay format follows from the path.
LEMMA Formats ==
  ASSUME NEW r \in RequestShape
  PROVE  /\ RelayFormat(r) = "openai" <=> r.path \in {"chat", "responses", "embeddings"}
         /\ RelayFormat(r) = "gemini" <=> r.path \in {"gemini", "gemini-stream"}
         /\ RelayFormat(r) = "claude" <=> r.path = "messages"
BY DEF RequestShape, Path, RelayFormat

\* A call that is not refused goes to a vetted target.
LEMMA AdmittedIsVetted ==
  ASSUME NEW r \in RequestShape, NEW s \in ReplyShape, NEW held, Verdict(r, s, held) = 0
  PROVE  Vetted(r, Target(r, s)) /\ (s.type = 33 => ~Streams(r))
<1>1. s.type \in Int /\ SupportsOfficial(s.type)
  BY DEF Verdict, ReplyShape
<1>2. s.type \in {1, 14, 20, 24, 33, 59}
  BY <1>1, SupportedTypes
<1>3. CASE s.type = 33
  BY <1>3 DEF Verdict, Target, Vetted
<1>4. ASSUME s.type # 33
      PROVE  /\ Serves(s.type, RelayFormat(r))
             /\ HasUpstreamURL(s)
             /\ Target(r, s) =
                  [type    |-> s.type,
                   url     |-> IF s.type = 59 THEN NoURL ELSE For(s.type),
                   base    |-> IF s.type = 59 THEN s.base ELSE NoBase,
                   header  |-> AuthHeader(s.type, RelayFormat(r)),
                   rewrite |-> PathRewrite(s.type, RelayFormat(r), UnderV1(r))]
  BY <1>4 DEF Verdict, Target, ResolveRoute, SuffixHost
<1>5. CASE s.type \in {1, 14, 20}
  BY <1>4, <1>5, FixedURLs DEF Vetted, AuthHeader, PathRewrite
<1>6. CASE s.type = 24
  <2>1. RelayFormat(r) \in {"openai", "gemini"}
    BY <1>4, <1>6 DEF Serves
  <2>2. RelayFormat(r) = "openai" => UnderV1(r)
    BY Formats DEF UnderV1
  <2>. QED BY <1>4, <1>6, <2>1, <2>2, FixedURLs, Formats DEF Vetted, AuthHeader, PathRewrite
<1>7. CASE s.type = 59
  <2>1. RelayFormat(r) \in {"openai", "claude"}
    BY <1>4, <1>7 DEF Serves
  <2>2. IsOfficialHostSuffix(59, s.base.host)
    BY <1>4, <1>7 DEF HasUpstreamURL, SuffixHost, NormalizeHost
  <2>3. /\ s.base.host.zone \in {"azuredatabricks.net", "cloud.databricks.com", "gcp.databricks.com"}
        /\ s.base.host.joint \in {"dot", "bedrock-runtime"}
    BY <2>2 DEF IsOfficialHostSuffix, UnderZone
  <2>. QED BY <1>4, <1>7, <2>1, <2>3, Formats DEF Vetted, AuthHeader, PathRewrite
<1>. QED BY <1>2, <1>3, <1>5, <1>6, <1>7

\* A target whose URL is the enclave's own is spoken to over https.
LEMMA VettedIsSecure ==
  ASSUME NEW r, NEW d, Vetted(r, d), ~SuffixHost(d.type)
  PROVE  DialScheme(d) = "https"
BY DEF Vetted, SuffixHost, DialScheme, SchemeOf, NoURL, BedrockBase

\* What is billed for a clamped count is a clamped count, and never none.
LEMMA BilledImages ==
  ASSUME NEW r \in RequestShape, NEW u \in Usage, NEW code, u.images <= MaxImageN
  PROVE  SettleRequest(r, u, code).kind = "image" =>
           SettleRequest(r, u, code).images \in 1 .. MaxImageN
<1>1. r.n \in Int /\ u.images \in Nat
  BY DEF RequestShape, Usage
<1>2. PeekImageN(r.n) \in 1 .. MaxImageN
  BY <1>1 DEF PeekImageN, MaxImageN
<1>3. OrElse(u.images, PeekImageN(r.n)) \in 1 .. MaxImageN
  BY <1>1, <1>2 DEF OrElse, MaxImageN
<1>4. CASE IsImage(r)
  BY <1>3, <1>4 DEF SettleRequest
<1>5. CASE ~IsImage(r)
  BY <1>5 DEF SettleRequest
<1>. QED BY <1>4, <1>5

\* No frame and no body makes a count exceed the clamp.
LEMMA ReadImages ==
  ASSUME NEW r \in RequestShape, NEW u \in Usage, NEW k \in Chunk, u.images <= MaxImageN
  PROVE  /\ Accumulate(r, u, k).images <= MaxImageN
         /\ NovaUsage(k).images <= MaxImageN
         /\ FinalizeUsage(u).images <= MaxImageN
<1>1. PeekImageCount(k) <= MaxImageN
  BY DEF PeekImageCount, MaxImageN, Chunk
<1>2. MergeUsage(u, PeekUsage(k)).images = u.images
  BY DEF MergeUsage
<1>3. [PeekUsage(k) EXCEPT !.images = IF IsImage(r) THEN PeekImageCount(k) ELSE 0].images <= MaxImageN
  BY <1>1 DEF PeekUsage, MaxImageN
<1>4. NovaUsage(k).images = 0 /\ FinalizeUsage(u).images = u.images
  BY DEF NovaUsage, FinalizeUsage, Usage
<1>. QED BY <1>2, <1>3, <1>4 DEF Accumulate, MaxImageN

-----------------------------------------------------------------------------
(* The invariant of targets and image counts *)

\* The invariant holds initially.
LEMMA SpotInit == Init => SpotInv
BY DEF Init, SpotInv, DialInv, ImageInv, ZeroUsage, NoBill, MaxImageN

\* No handler goes back to where it started.
LEMMA NeverIdleAgain ==
  ASSUME IInv, [Next]_vars, NEW d \in Call, pc'[d] = "idle"
  PROVE  pc[d] = "idle"
<1>1. ASSUME NEW c \in Call, Serve(c)
      PROVE  pc[d] = "idle"
  <2>. USE DEF IInv, TypeOK, Goto
  <2>1. PICK there \in Control \ {"idle"} : Goto(c, there) \/ UNCHANGED pc
    BY <1>1 DEF Control, Serve, Arrive, ReadBodyFails, RefuseRequest, PanicOnOptions,
      AskControlPlane, SelectFails, RefuseChannel, Dispatch, UpstreamFails, UpstreamAnswers,
      RelayFrame, StreamEnds, RelayBody, RelayBreaks, BedrockFails, BedrockRejects,
      BedrockAnswers, BedrockWriteFails, PostSettle, SettleUnreachable, SettleUnanswered,
      SettleReturns, Refuse, RelayError, Complete, AttemptFails
  <2>. QED BY <2>1
<1>2. CASE Crash
  BY <1>2 DEF Crash
<1>3. ASSUME UNCHANGED pc
      PROVE  pc[d] = "idle"
  BY <1>3
<1>. QED BY <1>1, <1>2, <1>3 DEF Next, ClientGone, ReceiveSettle, LoseSettle, Stop, vars

\* A call is dialled only where Dispatch has found a vetted target.
LEMMA DialStep ==
  ASSUME IInv, SpotInv, [Next]_vars
  PROVE  \A d \in Call : DialInv(d)'
<1>1. ASSUME NEW c \in Call, Arrive(c), NEW d \in Call
      PROVE  DialInv(d)'
  BY <1>1 DEF Arrive, Goto, IInv, TypeOK, HandlingOK, SpotInv, DialInv
<1>2. ASSUME NEW c \in Call, Dispatch(c), NEW d \in Call
      PROVE  DialInv(d)'
  <2>1. PICK s \in Reply, held \in Held :
          Verdict(req[c], s, held) = 0 /\ dial' = [dial EXCEPT ![c] = Target(req[c], s)]
    BY <1>2 DEF Dispatch
  <2>2. Vetted(req[c], Target(req[c], s))
    BY <2>1, AdmittedIsVetted, ReplyAssumption DEF IInv, TypeOK, HandlingOK
  <2>3. req' = req /\ pc[c] = "select"
    BY <1>2 DEF Dispatch
  <2>4. pc'[c] # "idle" /\ (d # c => pc'[d] = pc[d])
    BY <1>2 DEF Dispatch, Goto, IInv, TypeOK
  <2>5. CASE d = c
    BY <2>1, <2>2, <2>3, <2>4, <2>5 DEF DialInv, IInv, TypeOK, HandlingOK
  <2>6. CASE d # c
    BY <2>1, <2>3, <2>4, <2>6 DEF SpotInv, DialInv, IInv, TypeOK, HandlingOK
  <2>. QED BY <2>5, <2>6
<1>3. ASSUME UNCHANGED <<req, dial>>, NEW d \in Call
      PROVE  DialInv(d)'
  BY <1>3, NeverIdleAgain DEF SpotInv, DialInv
<1>4. ASSUME NEW c \in Call, Serve(c), ~Arrive(c), ~Dispatch(c)
      PROVE  UNCHANGED <<req, dial>>
  BY <1>4 DEF handling, Serve, ReadBodyFails, RefuseRequest, PanicOnOptions, AskControlPlane,
    SelectFails, RefuseChannel, UpstreamFails, UpstreamAnswers, RelayFrame, StreamEnds, RelayBody,
    RelayBreaks, BedrockFails, BedrockRejects, BedrockAnswers, BedrockWriteFails, PostSettle,
    SettleUnreachable, SettleUnanswered, SettleReturns, Refuse, RelayError
<1>5. ASSUME ~(\E c \in Call : Serve(c))
      PROVE  UNCHANGED <<req, dial>>
  BY <1>5 DEF handling, Next, ClientGone, ReceiveSettle, LoseSettle, Crash, Stop, vars
<1>. QED BY <1>1, <1>2, <1>3, <1>4, <1>5

\* The successful exit of a relay bills no more images than may be.
LEMMA CompleteImages ==
  ASSUME IInv, SpotInv, NEW c \in Call, NEW u \in Usage, NEW code \in Nat,
         u.images <= MaxImageN, Complete(c, u, code), NEW d \in Call
  PROVE  ImageInv(d)'
<1>1. req[c] \in RequestShape
  BY DEF IInv, TypeOK, HandlingOK
<1>2. /\ usage' = [usage EXCEPT ![c] = u]
      /\ bill' = [bill EXCEPT ![c] = SettleRequest(req[c], u, code)]
  BY DEF Complete
<1>3. usage'[c] = u /\ bill'[c] = SettleRequest(req[c], u, code)
  BY <1>2 DEF IInv, TypeOK, SettlingOK
<1>4. d # c => usage'[d] = usage[d] /\ bill'[d] = bill[d]
  BY <1>2 DEF IInv, TypeOK, SettlingOK
<1>5. CASE d = c
  BY <1>1, <1>3, <1>5, BilledImages DEF ImageInv
<1>6. CASE d # c
  BY <1>4, <1>6 DEF ImageInv, SpotInv
<1>. QED BY <1>5, <1>6

\* Every step keeps the counts of images within their bounds.
LEMMA ImageStep ==
  ASSUME IInv, SpotInv, [Next]_vars
  PROVE  \A d \in Call : ImageInv(d)'
<1>1. ASSUME NEW c \in Call, RelayFrame(c), NEW d \in Call
      PROVE  ImageInv(d)'
  <2>1. ans[c].frames[relayed[c] + 1] \in Chunk
    BY <1>1 DEF RelayFrame, IInv, TypeOK, HandlingOK, WritingOK, AnswerShape
  <2>2. Accumulate(req[c], usage[c], ans[c].frames[relayed[c] + 1]).images <= MaxImageN
    BY <2>1, ReadImages DEF IInv, TypeOK, HandlingOK, SpotInv, ImageInv
  <2>. QED BY <1>1, <2>2 DEF RelayFrame, settling, IInv, TypeOK, SpotInv, ImageInv
<1>2. ASSUME NEW c \in Call, StreamEnds(c), NEW d \in Call
      PROVE  ImageInv(d)'
  <2>1. /\ FinalizeUsage(usage[c]) \in Usage /\ ans[c].status \in Nat
        /\ FinalizeUsage(usage[c]).images <= MaxImageN
    BY MergeUsageType DEF FinalizeUsage, Usage, IInv, TypeOK, HandlingOK, AnswerShape, SpotInv, ImageInv
  <2>. QED BY <1>2, <2>1, CompleteImages DEF StreamEnds
<1>3. ASSUME NEW c \in Call, RelayBody(c), NEW d \in Call
      PROVE  ImageInv(d)'
  <2>1. /\ ans[c].frames[1] \in Chunk /\ ans[c].status \in Nat
        /\ ZeroUsage \in Usage /\ ZeroUsage.images <= MaxImageN /\ req[c] \in RequestShape
    <3>1. ans[c] \in AnswerShape /\ req[c] \in RequestShape
      BY DEF IInv, TypeOK, HandlingOK
    <3>2. Len(ans[c].frames) = 1
      BY <1>3 DEF RelayBody, IInv, SafetyInv, RelayInv
    <3>3. ZeroUsage \in Usage /\ ZeroUsage.images <= MaxImageN
      BY DEF ZeroUsage, Usage, MaxImageN
    <3>. QED BY <3>1, <3>2, <3>3 DEF AnswerShape
  <2>2. /\ Accumulate(req[c], ZeroUsage, ans[c].frames[1]) \in Usage
        /\ Accumulate(req[c], ZeroUsage, ans[c].frames[1]).images <= MaxImageN
    BY <2>1, AccumulateType, ReadImages
  <2>. QED BY <1>3, <2>1, <2>2, CompleteImages DEF RelayBody
<1>4. ASSUME NEW c \in Call, BedrockRejects(c), NEW d \in Call
      PROVE  ImageInv(d)'
  <2>1. PICK a \in Answer : Complete(c, ZeroUsage, a.status)
    BY <1>4 DEF BedrockRejects
  <2>2. a.status \in Nat /\ ZeroUsage \in Usage /\ ZeroUsage.images <= MaxImageN
    BY AnswerAssumption DEF AnswerShape, ZeroUsage, Usage, MaxImageN
  <2>. QED BY <2>1, <2>2, CompleteImages
<1>5. ASSUME NEW c \in Call, BedrockAnswers(c), NEW d \in Call
      PROVE  ImageInv(d)'
  <2>1. PICK a \in Answer : a.framing = "body" /\ Complete(c, NovaUsage(a.frames[1]), a.status)
    BY <1>5 DEF BedrockAnswers
  <2>2. a.status \in Nat /\ a.frames[1] \in Chunk
    BY <2>1, OneBody
  <2>3. NovaUsage(a.frames[1]) \in Usage /\ NovaUsage(a.frames[1]).images <= MaxImageN
    BY <2>2, PeekUsageType, ReadImages DEF SpotInv, ImageInv, IInv, TypeOK, HandlingOK
  <2>. QED BY <2>1, <2>2, <2>3, CompleteImages
<1>9. ASSUME NEW c \in Call, BedrockWriteFails(c), NEW d \in Call
      PROVE  ImageInv(d)'
  <2>1. PICK a \in Answer :
          a.framing = "body" /\ usage' = [usage EXCEPT ![c] = NovaUsage(a.frames[1])]
    BY <1>9 DEF BedrockWriteFails
  <2>2. NovaUsage(a.frames[1]).images <= MaxImageN
    BY <2>1, OneBody, ReadImages DEF SpotInv, ImageInv, IInv, TypeOK, HandlingOK
  <2>3. bill' = bill
    BY <1>9 DEF BedrockWriteFails, settling
  <2>. QED BY <2>1, <2>2, <2>3 DEF SpotInv, ImageInv, IInv, TypeOK
<1>6. ASSUME UNCHANGED <<usage, bill>>, NEW d \in Call
      PROVE  ImageInv(d)'
  BY <1>6 DEF SpotInv, ImageInv
<1>7. ASSUME NEW c \in Call, Serve(c), ~RelayFrame(c), ~StreamEnds(c), ~RelayBody(c),
             ~BedrockRejects(c), ~BedrockAnswers(c), ~BedrockWriteFails(c)
      PROVE  UNCHANGED <<usage, bill>>
  BY <1>7 DEF settling, Serve, Arrive, ReadBodyFails, RefuseRequest, PanicOnOptions,
    AskControlPlane, SelectFails, RefuseChannel, Dispatch, UpstreamFails, UpstreamAnswers,
    RelayBreaks, BedrockFails, PostSettle, SettleUnreachable,
    SettleUnanswered, SettleReturns, Refuse, RelayError
<1>8. ASSUME ~(\E c \in Call : Serve(c))
      PROVE  UNCHANGED <<usage, bill>>
  BY <1>8 DEF settling, Next, ClientGone, ReceiveSettle, LoseSettle, Crash, Stop, vars
<1>. QED BY <1>1, <1>2, <1>3, <1>4, <1>5, <1>6, <1>7, <1>8, <1>9

-----------------------------------------------------------------------------
(* Targets and images *)

\* Both invariants hold in every reachable state.
THEOREM SpotInvariance == Spec => []SpotInv
<1>1. IInv /\ SpotInv /\ [Next]_vars => SpotInv'
  BY DialStep, ImageStep DEF SpotInv
<1>. QED BY <1>1, SpotInit, Invariance, PTL DEF Spec

\* Whatever the control plane answers, nobody but a vetted provider is dialled,
\* over https wherever the URL is the enclave's own.  Of a base URL that the
\* control plane gives, the host name is vetted, and no more: SpokenOverTLS
\* fails for it.
THEOREM DialsAreVetted == Spec => []DialsOnlyOfficial
<1>1. SpotInv => DialsOnlyOfficial
  BY VettedIsSecure DEF SpotInv, DialInv, DialsOnlyOfficial
<1>. QED BY <1>1, SpotInvariance, PTL

\* Whatever is asked for and returned, no more images are billed than the
\* limit, and never none.
THEOREM ImagesAreBounded == Spec => []ImageCountBounded
<1>1. SpotInv => ImageCountBounded
  BY DEF SpotInv, ImageInv, ImageCountBounded
<1>. QED BY <1>1, SpotInvariance, PTL

-----------------------------------------------------------------------------
(* A charge is what the upstream counts *)

\* What the handler reads in each frame.
Prompts(frames) == [i \in 1 .. Len(frames) |-> PeekPrompt(frames[i])]
Completions(frames) == [i \in 1 .. Len(frames) |-> PeekCompletion(frames[i])]
Totals(frames) == [i \in 1 .. Len(frames) |-> PeekTotal(frames[i])]

\* v is the last count among the first n that is not 0, or 0 if all are.
LastOf(counts, n, v) ==
  \/ v = 0 /\ \A i \in 1 .. n : counts[i] = 0
  \/ v # 0 /\ \E i \in 1 .. n : counts[i] = v /\ \A j \in i + 1 .. n : counts[j] = 0

\* The first n frames say nothing but totals, if that.
TotalsOnly(frames, n) ==
  \A i \in 1 .. n : Prompts(frames)[i] = 0 /\ Completions(frames)[i] = 0

\* u is what frames 1 to n say about tokens.  Their total counts only when
\* they say nothing else.
Counted(frames, n, u) ==
  /\ LastOf(Prompts(frames), n, u.prompt)
  /\ LastOf(Completions(frames), n, u.completion)
  /\ TotalsOnly(frames, n) => LastOf(Totals(frames), n, u.total)

\* Answer a of request r, as the handler reads it.
IsWhole(r, a) ==
  /\ r.path \in a.at
  /\ IF Legible(r, a) THEN StatesCost(a)
     ELSE ~IsImage(r) /\ \A i \in 1 .. Len(a.frames) : a.frames[i] = Content

\* During a relay the handler has counted what it has relayed of an answer:
\* the upstream's whole answer if it can tell its frames apart, and text that
\* counts nothing if not.  From then on the bill is what is due.
CostInv(c) ==
  /\ pc[c] \in {"select", "upstream", "bedrock", "stream", "buffer"} =>
       Readable(req[c])
  /\ pc[c] \in {"idle", "reading", "select", "upstream", "bedrock"} => usage[c] = ZeroUsage
  /\ pc[c] = "bedrock" => ~Streams(req[c])
  /\ pc[c] \in {"stream", "buffer"} =>
       /\ Streams(req[c]) <=> pc[c] = "stream"
       /\ IsWhole(req[c], ans[c])
  /\ pc[c] = "stream" => Counted(ans[c].frames, relayed[c], usage[c])
  /\ bill[c] # NoBill /\ OK2xx(bill[c].status) => IsDue(req[c], ans[c], bill[c])

AllAtCost == \A c \in Call : CostInv(c)

\* One more count replaces the last one, unless it is 0.
LEMMA LastStep ==
  ASSUME NEW n \in Nat, NEW counts, NEW v, LastOf(counts, n, v)
  PROVE  LastOf(counts, n + 1, OrElse(counts[n + 1], v))
<1>1. \A i \in 1 .. n + 1 : i \in 1 .. n \/ i = n + 1
  OBVIOUS
<1>2. CASE counts[n + 1] # 0
  BY <1>2 DEF LastOf, OrElse
<1>3. CASE counts[n + 1] = 0 /\ v = 0
  BY <1>1, <1>3 DEF LastOf, OrElse
<1>4. CASE counts[n + 1] = 0 /\ v # 0
  <2>1. PICK i \in 1 .. n : counts[i] = v /\ \A j \in i + 1 .. n : counts[j] = 0
    BY <1>4 DEF LastOf
  <2>2. \A j \in i + 1 .. n + 1 : counts[j] = 0
    BY <1>4, <2>1
  <2>. QED BY <1>4, <2>1, <2>2 DEF LastOf, OrElse
<1>. QED BY <1>2, <1>3, <1>4

\* There is one last count.
LEMMA LastUnique ==
  ASSUME NEW n \in Nat, NEW counts, NEW v, NEW w, LastOf(counts, n, v), LastOf(counts, n, w)
  PROVE  v = w
<1>1. CASE v = 0 \/ w = 0
  BY <1>1 DEF LastOf
<1>2. CASE v # 0 /\ w # 0
  <2>1. PICK i \in 1 .. n : counts[i] = v /\ \A j \in i + 1 .. n : counts[j] = 0
    BY <1>2 DEF LastOf
  <2>2. PICK k \in 1 .. n : counts[k] = w /\ \A j \in k + 1 .. n : counts[j] = 0
    BY <1>2 DEF LastOf
  <2>3. i = k \/ i \in k + 1 .. n \/ k \in i + 1 .. n
    OBVIOUS
  <2>. QED BY <1>2, <2>1, <2>2, <2>3
<1>. QED BY <1>1, <1>2

\* Before the first frame nothing has been counted.
LEMMA NothingCounted ==
  ASSUME NEW frames
  PROVE  Counted(frames, 0, ZeroUsage)
BY DEF Counted, LastOf, ZeroUsage

\* The merge of one more frame counts one frame more.
LEMMA FrameCounted ==
  ASSUME NEW r \in RequestShape, Streams(r), NEW frames \in Seq(Chunk), NEW n \in Nat,
         n < Len(frames), NEW u \in Usage, Counted(frames, n, u)
  PROVE  Counted(frames, n + 1, Accumulate(r, u, frames[n + 1]))
<1>. DEFINE k == frames[n + 1]
            w == Accumulate(r, u, k)
<1>1. /\ Prompts(frames)[n + 1] = PeekPrompt(k)
      /\ Completions(frames)[n + 1] = PeekCompletion(k)
      /\ Totals(frames)[n + 1] = PeekTotal(k)
  BY DEF Prompts, Completions, Totals
<1>2. /\ w.prompt = OrElse(PeekPrompt(k), u.prompt)
      /\ w.completion = OrElse(PeekCompletion(k), u.completion)
      /\ w.total = OrElse(OrElse(PeekTotal(k), PeekPrompt(k) + PeekCompletion(k)), u.total)
  BY DEF Accumulate, MergeUsage, PeekUsage
<1>3. ASSUME TotalsOnly(frames, n + 1)
      PROVE  TotalsOnly(frames, n) /\ w.total = OrElse(PeekTotal(k), u.total)
  <2>1. PeekPrompt(k) = 0 /\ PeekCompletion(k) = 0
    BY <1>1, <1>3 DEF TotalsOnly
  <2>2. w.total = OrElse(PeekTotal(k), u.total)
    BY <1>2, <2>1 DEF OrElse
  <2>3. TotalsOnly(frames, n)
    BY <1>3 DEF TotalsOnly
  <2>. QED BY <2>2, <2>3
<1>. QED BY <1>1, <1>2, <1>3, LastStep DEF Counted

\* A buffered body is counted like a stream of one frame.
LEMMA BodyCounted ==
  ASSUME NEW r \in RequestShape, ~Streams(r), NEW frames \in Seq(Chunk), Len(frames) = 1
  PROVE  Counted(frames, 1, Accumulate(r, ZeroUsage, frames[1]))
<1>. DEFINE k == frames[1]
            w == Accumulate(r, ZeroUsage, k)
<1>1. /\ Prompts(frames)[1] = PeekPrompt(k)
      /\ Completions(frames)[1] = PeekCompletion(k)
      /\ Totals(frames)[1] = PeekTotal(k)
  BY DEF Prompts, Completions, Totals
<1>2. /\ w.prompt = PeekPrompt(k) /\ w.completion = PeekCompletion(k)
      /\ w.total = OrElse(PeekTotal(k), PeekPrompt(k) + PeekCompletion(k))
  BY DEF Accumulate, PeekUsage
<1>3. TotalsOnly(frames, 1) => w.total = PeekTotal(k)
  BY <1>1, <1>2 DEF TotalsOnly, OrElse
<1>4. \A counts, v : counts[1] = v => LastOf(counts, 1, v)
  BY DEF LastOf
<1>. QED BY <1>1, <1>2, <1>3, <1>4 DEF Counted

\* Finalizing only adds a total where there are split counts.
LEMMA FinalizeCounted ==
  ASSUME NEW frames, NEW n \in Nat, NEW u \in Usage, Counted(frames, n, u)
  PROVE  Counted(frames, n, FinalizeUsage(u))
<1>1. /\ FinalizeUsage(u).prompt = u.prompt /\ FinalizeUsage(u).completion = u.completion
      /\ FinalizeUsage(u).total = OrElse(u.total, u.prompt + u.completion)
  BY DEF FinalizeUsage, Usage
<1>2. TotalsOnly(frames, n) => u.prompt = 0 /\ u.completion = 0
  BY DEF Counted, TotalsOnly, LastOf
<1>. QED BY <1>1, <1>2 DEF Counted, OrElse

\* A frame in the form of an API is read as what it states.
LEMMA StatedFrame ==
  ASSUME NEW api \in Path \ {"images"}, NEW fr, NEW k, NEW p \in Nat, NEW q \in Nat,
         States(api, fr, k, p, q)
  PROVE  IF api = "rerank"
         THEN PeekPrompt(k) = 0 /\ PeekCompletion(k) = 0 /\ PeekTotal(k) = p /\ q = 0
         ELSE PeekPrompt(k) = p /\ PeekCompletion(k) = q
<1>. USE DEF PeekPrompt, PeekCompletion, PeekTotal, OrElse, Content, ChatCount, TokenCount
<1>1. CASE api \in {"chat", "embeddings"}
  <2>1. k = [Content EXCEPT !.usage = ChatCount(p, q)]
    BY <1>1 DEF States
  <2>. QED BY <1>1, <2>1
<1>2. CASE api = "responses" /\ fr = "events"
  BY <1>2 DEF States
<1>3. CASE api = "responses" /\ fr # "events"
  BY <1>3 DEF States
<1>4. CASE api = "messages"
  BY <1>4 DEF States
<1>5. CASE api \in {"gemini", "gemini-stream"}
  <2>1. PICK tool \in 0 .. p, thoughts \in 0 .. q :
          k = [Content EXCEPT !.metadata =
                 [prompt |-> p - tool, candidates |-> q - thoughts, total |-> p + q,
                  tool |-> tool, thoughts |-> thoughts]]
    BY <1>5 DEF States
  <2>2. (p - tool) + tool = p /\ (q - thoughts) + thoughts = q
    OBVIOUS
  <2>. QED BY <1>5, <2>1, <2>2
<1>6. CASE api = "rerank"
  BY <1>6 DEF States
<1>. QED BY <1>1, <1>2, <1>3, <1>4, <1>5, <1>6 DEF Path

\* A last count that is the greatest is the last that is not 0.
LEMMA GreatestIsLast ==
  ASSUME NEW n \in Nat \ {0}, NEW v \in Nat, NEW counts,
         \A i \in 1 .. n : counts[i] \in 0 .. v, counts[n] = v
  PROVE  LastOf(counts, n, v)
<1>1. CASE v = 0
  BY <1>1 DEF LastOf
<1>2. CASE v # 0
  <2>1. n \in 1 .. n /\ \A j \in n + 1 .. n : counts[j] = 0
    OBVIOUS
  <2>. QED BY <1>2, <2>1 DEF LastOf
<1>. QED BY <1>1, <1>2

\* What the handler can read off an answer in the form of an API.
ReadsAs(api, a) ==
  LET n == Len(a.frames)
  IN  IF api = "rerank"
      THEN /\ TotalsOnly(a.frames, n)
           /\ LastOf(Totals(a.frames), n, a.cost.prompt) /\ a.cost.completion = 0
      ELSE /\ LastOf(Prompts(a.frames), n, a.cost.prompt)
           /\ LastOf(Completions(a.frames), n, a.cost.completion)

\* Every API states its costs in a form the handler reads.
LEMMA StatedIsRead ==
  ASSUME NEW api \in Path \ {"images"}, NEW a \in AnswerShape, StatesCostAs(api, a)
  PROVE  ReadsAs(api, a)
<1>. DEFINE n == Len(a.frames)
            p == a.cost.prompt
            q == a.cost.completion
            k == a.frames[n]
<1>1. /\ n \in Nat /\ p \in Nat /\ q \in Nat /\ a.frames \in Seq(Chunk)
      /\ \A i \in 1 .. n : /\ Prompts(a.frames)[i] = PeekPrompt(a.frames[i])
                          /\ Completions(a.frames)[i] = PeekCompletion(a.frames[i])
                          /\ Totals(a.frames)[i] = PeekTotal(a.frames[i])
  BY DEF AnswerShape, Prompts, Completions, Totals
<1>2. CASE api = "messages" /\ a.framing = "events"
  <2>1. StatesInParts(a)
    BY <1>2 DEF StatesCostAs
  <2>2. n > 1 /\ PeekPrompt(a.frames[1]) = p /\ PeekCompletion(a.frames[1]) \in 0 .. q
    <3>1. PICK o \in 0 .. q : a.frames[1] = [Content EXCEPT !.message = [input |-> p, output |-> o]]
      BY <2>1 DEF StatesInParts
    <3>. QED BY <1>1, <2>1, <3>1 DEF StatesInParts, Content, PeekPrompt, PeekCompletion, OrElse
  <2>3. \A i \in 2 .. n : PeekPrompt(a.frames[i]) = 0 /\ PeekCompletion(a.frames[i]) \in 0 .. q
    <3>1. TAKE i \in 2 .. n
    <3>2. PICK o \in 0 .. q : a.frames[i] = [Content EXCEPT !.usage = TokenCount(0, o, 0)]
      BY <2>1 DEF StatesInParts
    <3>3. PeekPrompt(a.frames[i]) = 0 /\ PeekCompletion(a.frames[i]) = o
      BY <3>2 DEF TokenCount, Content, PeekPrompt, PeekCompletion, OrElse
    <3>. QED BY <3>3
  <2>4. PeekCompletion(k) = q
    BY <1>1, <2>1 DEF StatesInParts, TokenCount, Content, PeekCompletion, OrElse
  <2>5. \A i \in 1 .. n : i = 1 \/ i \in 2 .. n
    BY <1>1
  <2>6. LastOf(Completions(a.frames), n, q)
    <3>. HIDE DEF n, p, q, k
    <3>1. \A i \in 1 .. n : Completions(a.frames)[i] \in 0 .. q
      BY <1>1, <2>2, <2>3, <2>5
    <3>2. Completions(a.frames)[n] = q
      BY <1>1, <2>2, <2>4 DEF k
    <3>. QED BY <1>1, <2>2, <3>1, <3>2, GreatestIsLast
  <2>7. LastOf(Prompts(a.frames), n, p)
    <3>1. \A j \in 2 .. n : Prompts(a.frames)[j] = 0
      BY <1>1, <2>3
    <3>2. 1 \in 1 .. n /\ Prompts(a.frames)[1] = p
      BY <1>1, <2>2
    <3>. HIDE DEF n, p
    <3>. QED BY <2>5, <3>1, <3>2 DEF LastOf
  <2>. QED BY <1>2, <2>6, <2>7 DEF ReadsAs
<1>3. CASE ~(api = "messages" /\ a.framing = "events")
  <2>1. StatesAtEnd(api, a)
    BY <1>3 DEF StatesCostAs, Path
  <2>2. n \in Nat \ {0}
    BY <1>1, <2>1 DEF StatesAtEnd
  <2>3. ASSUME NEW i \in 1 .. n
        PROVE  IF api = "rerank"
               THEN /\ PeekPrompt(a.frames[i]) = 0 /\ PeekCompletion(a.frames[i]) = 0
                    /\ PeekTotal(a.frames[i]) \in 0 .. p
               ELSE PeekPrompt(a.frames[i]) \in 0 .. p /\ PeekCompletion(a.frames[i]) \in 0 .. q
    <3>1. PICK x \in 0 .. p, y \in 0 .. q : States(api, a.framing, a.frames[i], x, y)
      BY <2>1 DEF StatesAtEnd
    <3>. QED BY <1>1, <3>1, StatedFrame
  <2>4. IF api = "rerank" THEN PeekTotal(k) = p /\ q = 0
        ELSE PeekPrompt(k) = p /\ PeekCompletion(k) = q
    BY <1>1, <2>1, StatedFrame DEF StatesAtEnd
  <2>. HIDE DEF n, p, q
  <2>5. CASE api = "rerank"
    <3>1. TotalsOnly(a.frames, n)
      BY <1>1, <2>3, <2>5 DEF TotalsOnly
    <3>2. LastOf(Totals(a.frames), n, p)
      BY <1>1, <2>2, <2>3, <2>4, <2>5, GreatestIsLast
    <3>. QED BY <2>4, <2>5, <3>1, <3>2 DEF ReadsAs, n, p, q
  <2>6. CASE api # "rerank"
    <3>1. /\ \A i \in 1 .. n : /\ Prompts(a.frames)[i] \in 0 .. p
                             /\ Completions(a.frames)[i] \in 0 .. q
          /\ Prompts(a.frames)[n] = p /\ Completions(a.frames)[n] = q
      <4>1. \A i \in 1 .. n : /\ Prompts(a.frames)[i] \in 0 .. p
                            /\ Completions(a.frames)[i] \in 0 .. q
        BY <1>1, <2>3, <2>6
      <4>2. Prompts(a.frames)[n] = p /\ Completions(a.frames)[n] = q
        BY <1>1, <2>2, <2>4, <2>6
      <4>. QED BY <4>1, <4>2
    <3>2. LastOf(Prompts(a.frames), n, p) /\ LastOf(Completions(a.frames), n, q)
      BY <1>1, <2>2, <3>1, GreatestIsLast
    <3>. QED BY <2>6, <3>2 DEF ReadsAs, n, p, q
  <2>. QED BY <2>5, <2>6
<1>. QED BY <1>2, <1>3

\* What has been counted of a whole 2xx answer is billed at its cost.
LEMMA CountedAtCost ==
  ASSUME NEW r \in RequestShape, ~IsImage(r), NEW a \in AnswerShape, r.path \in a.at,
         StatesCost(a), OK2xx(a.status), NEW u \in Usage, Counted(a.frames, Len(a.frames), u)
  PROVE  AtCost(r, a.cost, SettleRequest(r, u, a.status))
<1>. DEFINE n == Len(a.frames)
<1>0. n \in Nat /\ r.path \in Path \ {"images"} /\ a.cost.prompt \in Nat
  BY DEF AnswerShape, RequestShape, IsImage
<1>1. ReadsAs(r.path, a)
  BY <1>0, StatedIsRead DEF StatesCost
<1>2. SettleRequest(r, u, a.status).kind = "tokens"
  BY DEF SettleRequest
<1>3. CASE r.path # "rerank"
  <2>1. u.prompt = a.cost.prompt /\ u.completion = a.cost.completion
    BY <1>0, <1>1, <1>3, LastUnique DEF ReadsAs, Counted
  <2>2. RerankUsage(r, u) = u
    BY <1>3 DEF RerankUsage
  <2>. QED BY <2>1, <2>2 DEF SettleRequest, AtCost
<1>4. CASE r.path = "rerank"
  <2>1. u.total = a.cost.prompt /\ a.cost.completion = 0
    BY <1>0, <1>1, <1>4, LastUnique DEF ReadsAs, Counted
  <2>2. u.prompt = 0 /\ u.completion = 0
    BY <1>1, <1>4 DEF ReadsAs, Counted, TotalsOnly, LastOf
  <2>3. RerankUsage(r, u) = [u EXCEPT !.prompt = u.total]
    BY <1>4, <2>2 DEF RerankUsage
  <2>. QED BY <2>1, <2>2, <2>3 DEF SettleRequest, AtCost, Usage
<1>. QED BY <1>3, <1>4

\* What has been counted of text that is no object is billed as nothing.
LEMMA ContentIsFree ==
  ASSUME NEW r \in RequestShape, ~IsImage(r), NEW frames, NEW n \in Nat, n = Len(frames),
         \A i \in 1 .. n : frames[i] = Content,
         NEW u \in Usage, NEW code, Counted(frames, n, u)
  PROVE  Uncounted(SettleRequest(r, u, code))
<1>1. \A i \in 1 .. n : Prompts(frames)[i] = 0 /\ Completions(frames)[i] = 0 /\ Totals(frames)[i] = 0
  BY DEF Prompts, Completions, Totals, Content, PeekPrompt, PeekCompletion, PeekTotal, OrElse
<1>2. TotalsOnly(frames, n)
  BY <1>1 DEF TotalsOnly
<1>3. u.prompt = 0 /\ u.completion = 0 /\ u.total = 0
  BY <1>1, <1>2 DEF Counted, LastOf
<1>4. /\ RerankUsage(r, u).prompt = 0 /\ RerankUsage(r, u).completion = 0
      /\ RerankUsage(r, u).total = 0
  BY <1>3 DEF RerankUsage, Usage
<1>. QED BY <1>4 DEF SettleRequest, Uncounted

\* What has been counted of an answer as it was read is billed as is due.
LEMMA CountedIsDue ==
  ASSUME NEW r \in RequestShape, ~IsImage(r), NEW a \in AnswerShape, IsWhole(r, a),
         OK2xx(a.status), NEW u \in Usage, Counted(a.frames, Len(a.frames), u)
  PROVE  IsDue(r, a, SettleRequest(r, u, a.status))
<1>0. Len(a.frames) \in Nat
  BY DEF AnswerShape
<1>1. CASE Legible(r, a)
  BY <1>1, CountedAtCost DEF IsWhole, IsDue
<1>2. CASE ~Legible(r, a)
  BY <1>0, <1>2, ContentIsFree DEF IsWhole, IsDue
<1>. QED BY <1>1, <1>2

\* The images of a whole 2xx answer are billed at their number.
LEMMA ImagesAtCost ==
  ASSUME NEW r \in RequestShape, IsImage(r), ~Streams(r), NEW a \in AnswerShape, IsWhole(r, a),
         OK2xx(a.status), Len(a.frames) = 1
  PROVE  IsDue(r, a, SettleRequest(r, Accumulate(r, ZeroUsage, a.frames[1]), a.status))
<1>0. Legible(r, a) /\ StatesCostAs("images", a)
  BY DEF IsWhole, IsImage, StatesCost
<1>1. a.frames[1].images = a.cost.images /\ a.cost.images \in Nat /\ r.n \in Int
  BY <1>0 DEF StatesCostAs, AnswerShape, RequestShape
<1>2. Accumulate(r, ZeroUsage, a.frames[1]).images = PeekImageCount(a.frames[1])
  BY DEF Accumulate, PeekUsage
<1>3. OrElse(PeekImageCount(a.frames[1]), PeekImageN(r.n)) =
        PeekImageN(IF a.cost.images > 0 THEN a.cost.images ELSE r.n)
  BY <1>1 DEF OrElse, PeekImageCount, PeekImageN, MaxImageN
<1>4. AtCost(r, a.cost, SettleRequest(r, Accumulate(r, ZeroUsage, a.frames[1]), a.status))
  BY <1>2, <1>3 DEF SettleRequest, AtCost
<1>. QED BY <1>0, <1>4 DEF IsDue

\* A converted Nova answer is billed at its cost, whichever the endpoint.
LEMMA NovaAtCost ==
  ASSUME NEW r \in RequestShape, ~Streams(r), NEW a \in AnswerShape, a.framing = "body",
         "bedrock" \in a.at, StatesCost(a), OK2xx(a.status), Len(a.frames) = 1
  PROVE  IsDue(r, a, SettleRequest(r, NovaUsage(a.frames[1]), a.status))
<1>. DEFINE k == a.frames[1]
            u == NovaUsage(k)
            p == a.cost.prompt
            q == a.cost.completion
<1>0. p \in Nat /\ q \in Nat
  BY DEF AnswerShape
<1>1. StatesCostAs("bedrock", a)
  BY DEF StatesCost
<1>2. States("bedrock", "body", k, p, q) /\ a.cost.images = 0
  BY <1>1 DEF StatesCostAs, StatesAtEnd
<1>3. PICK total \in {0, p + q} :
        k = [Content EXCEPT !.usage = TokenCount(p, q, total)]
  BY <1>2 DEF States
<1>4. u.prompt = p /\ u.completion = q /\ u.images = 0 /\ u.total = p + q
  BY <1>0, <1>3 DEF NovaUsage, FinalizeUsage, TokenCount, Content, OrElse
<1>5. CASE IsImage(r)
  BY <1>2, <1>4, <1>5 DEF SettleRequest, AtCost, OrElse, IsDue, Legible
<1>6. CASE ~IsImage(r)
  <2>1. RerankUsage(r, u).prompt = u.prompt /\ RerankUsage(r, u).completion = u.completion
    BY <1>0, <1>4 DEF RerankUsage
  <2>. QED BY <1>4, <1>6, <2>1 DEF SettleRequest, AtCost, IsDue, Legible
<1>. QED BY <1>5, <1>6

\* A call keeps its invariant when a step at most moves it past the relay.
LEMMA CostKept ==
  ASSUME NEW d, CostInv(d), req'[d] = req[d], ans'[d] = ans[d], bill'[d] = bill[d],
         \/ pc'[d] = pc[d] /\ usage'[d] = usage[d] /\ relayed'[d] = relayed[d]
         \/ pc'[d] \in {"settle", "settling", "done", "panicked", "lost"}
  PROVE  CostInv(d)'
BY DEF CostInv, OK2xx

\* A call that is completed at cost, and the others as they were.
LEMMA CompleteAtCost ==
  ASSUME IInv, AllAtCost, NEW c \in Call, NEW u \in Usage, NEW code \in Nat,
         Complete(c, u, code), req' = req,
         \A d \in Call \ {c} : ans'[d] = ans[d] /\ relayed'[d] = relayed[d],
         OK2xx(code) => IsDue(req[c], ans'[c], SettleRequest(req[c], u, code))
  PROVE  AllAtCost'
<1>1. /\ pc'[c] = "settle"
      /\ bill'[c] = SettleRequest(req[c], u, code)
      /\ \A d \in Call \ {c} : pc'[d] = pc[d] /\ usage'[d] = usage[d] /\ bill'[d] = bill[d]
  BY DEF Complete, Goto, IInv, TypeOK, SettlingOK
<1>2. bill'[c].status = code
  BY <1>1, SettleRequestType DEF IInv, TypeOK, HandlingOK
<1>3. CostInv(c)'
  BY <1>1, <1>2 DEF CostInv
<1>4. \A d \in Call \ {c} : CostInv(d)'
  BY <1>1, CostKept DEF AllAtCost
<1>. QED BY <1>3, <1>4 DEF AllAtCost

\* An upstream that is asked to count sends its whole answer, and the handler
\* reads all of it or nothing.
LEMMA WholeAnswer ==
  ASSUME NEW r \in RequestShape, Readable(r), NEW a \in Answer, r.path \in a.at,
         FramedFor(Forwarded(r), a), StatesCost(a)
  PROVE  IsWhole(r, AsRead(r, Emitted(Forwarded(r), a)))
<1>. DEFINE e == Emitted(Forwarded(r), a)
            x == AsRead(r, e)
<1>1. a \in AnswerShape
  BY AnswerAssumption
<1>2. /\ e.at = a.at /\ e.framing = a.framing /\ e.compact = a.compact
      /\ x.at = e.at /\ x.framing = e.framing /\ x.compact = e.compact
  BY <1>1 DEF Emitted, AsRead, AnswerShape
<1>3. Legible(r, x) <=> Legible(r, e)
  BY <1>2 DEF Legible
<1>4. CASE Legible(r, e)
  <2>1. x = e
    BY <1>4 DEF AsRead
  <2>2. ASSUME a.framing = "events", a.onRequest
        PROVE  Forwarded(r).options = "usage"
    <3>1. OK2xx(a.status)
      BY <2>2 DEF FramedFor
    <3>2. r.path = "chat"
      BY <2>2, <3>1 DEF StatesCost
    <3>3. Streams(r)
      BY <1>2, <1>4, <2>2 DEF Legible
    <3>. QED BY <3>2, <3>3 DEF Forwarded, EnsureStreamUsage, InjectsUsage, RequestShape
  <2>3. e = a
    BY <2>2 DEF Emitted
  <2>. QED BY <1>3, <1>4, <2>1, <2>3 DEF IsWhole
<1>5. CASE ~Legible(r, e)
  <2>1. ~IsImage(r)
    <3>1. ASSUME IsImage(r)
          PROVE  Framing(Forwarded(r)) = "body"
      <4>1. Forwarded(r).path = "images"
        BY <3>1 DEF IsImage, Forwarded, EnsureStreamUsage, RequestShape
      <4>. QED BY <4>1 DEF Framing
    <3>2. IsImage(r) => a.framing = "body" /\ ~Streams(r)
      BY <3>1 DEF FramedFor, Readable
    <3>. QED BY <1>2, <1>5, <3>2 DEF Legible
  <2>2. \A i \in 1 .. Len(x.frames) : x.frames[i] = Content
    <3>1. Len(e.frames) \in Nat /\ e \in AnswerShape
      BY <1>1, EmittedType DEF AnswerShape
    <3>. HIDE DEF e
    <3>2. CASE Streams(r)
      <4>1. x.frames = [i \in 1 .. Len(e.frames) + 1 |-> Content]
        BY <1>5, <3>1, <3>2 DEF AsRead, AnswerShape
      <4>. QED BY <3>1, <4>1
    <3>3. CASE ~Streams(r)
      <4>1. x.frames = <<Content>>
        BY <1>5, <3>1, <3>3 DEF AsRead, AnswerShape
      <4>. QED BY <4>1
    <3>. QED BY <3>2, <3>3
  <2>. QED BY <1>2, <1>3, <1>5, <2>1, <2>2 DEF IsWhole
<1>. QED BY <1>4, <1>5

\* Every step keeps the bills at cost, if the upstreams say what it is.
LEMMA CostStep ==
  ASSUME IInv, AllAtCost, [Next]_vars, \A a \in Answer : StatesCost(a)
  PROVE  AllAtCost'
<1>1. ASSUME NEW c \in Call, Arrive(c)
      PROVE  AllAtCost'
  <2>1. /\ pc[c] = "idle" /\ pc'[c] = "reading" /\ bill[c] = NoBill
        /\ \A d \in Call \ {c} : req'[d] = req[d] /\ pc'[d] = pc[d]
    BY <1>1 DEF Arrive, Goto, IInv, SafetyInv, BillInv, TypeOK, HandlingOK
  <2>2. UNCHANGED <<ans, usage, relayed, bill>>
    BY <1>1 DEF Arrive, writing, settling
  <2>. QED BY <2>1, <2>2, CostKept DEF AllAtCost, CostInv
<1>2. ASSUME NEW c \in Call, AskControlPlane(c)
      PROVE  AllAtCost'
  <2>1. /\ Readable(req[c]) /\ pc[c] = "reading" /\ pc'[c] = "select"
        /\ \A d \in Call \ {c} : pc'[d] = pc[d]
    BY <1>2 DEF AskControlPlane, Goto, IInv, TypeOK
  <2>2. UNCHANGED <<req, ans, usage, relayed, bill>>
    BY <1>2 DEF AskControlPlane, handling, writing, settling
  <2>. QED BY <2>1, <2>2, CostKept DEF AllAtCost, CostInv
<1>3. ASSUME NEW c \in Call, Dispatch(c)
      PROVE  AllAtCost'
  <2>1. PICK s \in Reply, held \in Held :
          Verdict(req[c], s, held) = 0 /\ Goto(c, IF s.type = 33 THEN "bedrock" ELSE "upstream")
    BY <1>3 DEF Dispatch
  <2>3. /\ pc[c] = "select" /\ pc'[c] \in {"bedrock", "upstream"}
        /\ pc'[c] = "bedrock" => ~Streams(req[c])
        /\ \A d \in Call \ {c} : pc'[d] = pc[d]
    BY <1>3, <2>1, AdmittedIsVetted, ReplyAssumption DEF Dispatch, Goto, IInv, TypeOK, HandlingOK
  <2>2. UNCHANGED <<req, ans, usage, relayed, bill>>
    BY <1>3 DEF Dispatch, writing, settling
  <2>. QED BY <2>2, <2>3, CostKept DEF AllAtCost, CostInv
<1>4. ASSUME NEW c \in Call, UpstreamAnswers(c)
      PROVE  AllAtCost'
  <2>1. PICK a \in Answer : /\ req[c].path \in a.at
                            /\ FramedFor(Forwarded(req[c]), a)
                            /\ ans' = [ans EXCEPT ![c] = AsRead(req[c], Emitted(Forwarded(req[c]), a))]
    BY <1>4 DEF UpstreamAnswers
  <2>2. /\ pc[c] = "upstream" /\ pc'[c] = (IF Streams(req[c]) THEN "stream" ELSE "buffer")
        /\ ans'[c] = AsRead(req[c], Emitted(Forwarded(req[c]), a))
        /\ \A d \in Call \ {c} : pc'[d] = pc[d] /\ ans'[d] = ans[d]
    BY <1>4, <2>1 DEF UpstreamAnswers, Goto, IInv, TypeOK, HandlingOK
  <2>3. UNCHANGED <<req, usage, relayed, bill>>
    BY <1>4 DEF UpstreamAnswers, settling
  <2>4. bill[c] = NoBill /\ relayed[c] = 0 /\ usage[c] = ZeroUsage /\ Readable(req[c])
    BY <2>2 DEF IInv, SafetyInv, BillInv, RelayInv, Waiting, AllAtCost, CostInv
  <2>5. IsWhole(req[c], ans'[c])
    BY <2>1, <2>2, <2>4, WholeAnswer DEF IInv, TypeOK, HandlingOK
  <2>6. Counted(ans'[c].frames, 0, ZeroUsage)
    BY NothingCounted
  <2>7. CostInv(c)'
    BY <2>2, <2>3, <2>4, <2>5, <2>6 DEF CostInv
  <2>. QED BY <2>2, <2>3, <2>7, CostKept DEF AllAtCost
<1>5. ASSUME NEW c \in Call, RelayFrame(c)
      PROVE  AllAtCost'
  <2>1. /\ pc[c] = "stream" /\ relayed'[c] = relayed[c] + 1
        /\ relayed[c] < Len(ans[c].frames)
        /\ usage'[c] = Accumulate(req[c], usage[c], ans[c].frames[relayed[c] + 1])
        /\ \A d \in Call \ {c} : usage'[d] = usage[d] /\ relayed'[d] = relayed[d]
    BY <1>5 DEF RelayFrame, IInv, TypeOK, WritingOK
  <2>2. UNCHANGED <<pc, req, ans, bill>>
    BY <1>5 DEF RelayFrame, handling, settling
  <2>3. /\ req[c] \in RequestShape /\ ans[c].frames \in Seq(Chunk)
        /\ relayed[c] \in Nat /\ usage[c] \in Usage
    BY DEF IInv, TypeOK, HandlingOK, WritingOK, AnswerShape
  <2>4. Counted(ans[c].frames, relayed[c] + 1, usage'[c])
    BY <2>1, <2>3, FrameCounted DEF AllAtCost, CostInv
  <2>5. CostInv(c)'
    BY <2>1, <2>2, <2>4 DEF AllAtCost, CostInv
  <2>. QED BY <2>1, <2>2, <2>5, CostKept DEF AllAtCost
<1>6. ASSUME NEW c \in Call, StreamEnds(c)
      PROVE  AllAtCost'
  <2>1. req[c] \in RequestShape /\ ans[c] \in AnswerShape /\ usage[c] \in Usage
    BY DEF IInv, TypeOK, HandlingOK
  <2>2. FinalizeUsage(usage[c]) \in Usage
    BY <2>1, MergeUsageType
  <2>3. ans[c].status \in Nat /\ Len(ans[c].frames) \in Nat
    BY <2>1 DEF AnswerShape
  <2>4. /\ pc[c] = "stream" /\ relayed[c] = Len(ans[c].frames)
        /\ Complete(c, FinalizeUsage(usage[c]), ans[c].status)
        /\ UNCHANGED <<req, ans, relayed>>
    BY <1>6 DEF StreamEnds, handling, writing
  <2>5. /\ IsWhole(req[c], ans[c]) /\ ~IsImage(req[c])
        /\ Counted(ans[c].frames, Len(ans[c].frames), usage[c])
    BY <2>4 DEF AllAtCost, CostInv, Readable
  <2>6. OK2xx(ans[c].status) =>
          IsDue(req[c], ans[c], SettleRequest(req[c], FinalizeUsage(usage[c]), ans[c].status))
    BY <2>1, <2>2, <2>5, <2>3, FinalizeCounted, CountedIsDue
  <2>. QED BY <2>2, <2>4, <2>6, <2>3, CompleteAtCost
<1>7. ASSUME NEW c \in Call, RelayBody(c)
      PROVE  AllAtCost'
  <2>. DEFINE u == Accumulate(req[c], ZeroUsage, ans[c].frames[1])
  <2>1. /\ pc[c] = "buffer" /\ Complete(c, u, ans[c].status)
        /\ UNCHANGED <<req, ans>> /\ \A d \in Call \ {c} : relayed'[d] = relayed[d]
    BY <1>7 DEF RelayBody, handling, IInv, TypeOK, WritingOK
  <2>2. /\ req[c] \in RequestShape /\ ans[c] \in AnswerShape /\ ans[c].status \in Nat
        /\ ans[c].frames \in Seq(Chunk) /\ Len(ans[c].frames) = 1 /\ ZeroUsage \in Usage
    BY <2>1 DEF IInv, SafetyInv, RelayInv, TypeOK, HandlingOK, AnswerShape, ZeroUsage, Usage
  <2>3. u \in Usage
    BY <2>2, AccumulateType
  <2>4. IsWhole(req[c], ans[c]) /\ ~Streams(req[c])
    BY <2>1 DEF AllAtCost, CostInv
  <2>5. OK2xx(ans[c].status) => IsDue(req[c], ans[c], SettleRequest(req[c], u, ans[c].status))
    <3>1. CASE IsImage(req[c])
      BY <2>2, <2>4, <3>1, ImagesAtCost
    <3>2. CASE ~IsImage(req[c])
      BY <2>2, <2>3, <2>4, <3>2, BodyCounted, CountedIsDue
    <3>. QED BY <3>1, <3>2
  <2>. HIDE DEF u
  <2>. QED BY <2>1, <2>2, <2>3, <2>5, CompleteAtCost
<1>8. ASSUME NEW c \in Call, BedrockRejects(c)
      PROVE  AllAtCost'
  <2>1. PICK a \in Answer : /\ ~OK2xx(a.status) /\ Complete(c, ZeroUsage, a.status)
                            /\ ans' = [ans EXCEPT ![c] = a]
    BY <1>8 DEF BedrockRejects
  <2>2. a.status \in Nat /\ ZeroUsage \in Usage /\ req' = req
    BY <1>8, AnswerAssumption DEF BedrockRejects, AnswerShape, ZeroUsage, Usage
  <2>3. \A d \in Call \ {c} : ans'[d] = ans[d] /\ relayed'[d] = relayed[d]
    BY <1>8, <2>1 DEF BedrockRejects, WriteError, IInv, TypeOK, HandlingOK
  <2>. QED BY <2>1, <2>2, <2>3, CompleteAtCost
<1>9. ASSUME NEW c \in Call, BedrockAnswers(c)
      PROVE  AllAtCost'
  <2>1. PICK a \in Answer : /\ "bedrock" \in a.at /\ a.framing = "body"
                            /\ Complete(c, NovaUsage(a.frames[1]), a.status)
                            /\ ans' = [ans EXCEPT ![c] = a]
    BY <1>9 DEF BedrockAnswers
  <2>2. /\ a \in AnswerShape /\ a.status \in Nat /\ Len(a.frames) = 1 /\ a.frames[1] \in Chunk
        /\ ~Streams(req[c])
    BY <1>9, <2>1, OneBody DEF BedrockAnswers, AllAtCost, CostInv
  <2>3. /\ ans'[c] = a /\ req' = req /\ req[c] \in RequestShape
        /\ \A d \in Call \ {c} : ans'[d] = ans[d] /\ relayed'[d] = relayed[d]
    BY <1>9, <2>1 DEF BedrockAnswers, IInv, TypeOK, HandlingOK, WritingOK
  <2>4. NovaUsage(a.frames[1]) \in Usage
    BY <2>2, PeekUsageType
  <2>5. OK2xx(a.status) => IsDue(req[c], a, SettleRequest(req[c], NovaUsage(a.frames[1]), a.status))
    BY <2>1, <2>2, <2>3, NovaAtCost
  <2>. QED BY <2>1, <2>2, <2>3, <2>4, <2>5, CompleteAtCost
<1>10. ASSUME NEW c \in Call, BedrockWriteFails(c)
       PROVE  AllAtCost'
  <2>1. /\ bill[c] = NoBill /\ pc'[c] = "done"
        /\ \A d \in Call \ {c} : pc'[d] = pc[d] /\ ans'[d] = ans[d] /\ usage'[d] = usage[d]
    BY <1>10 DEF BedrockWriteFails, Goto, IInv, SafetyInv, BillInv, TypeOK, HandlingOK
  <2>2. UNCHANGED <<req, relayed, bill>>
    BY <1>10 DEF BedrockWriteFails, settling
  <2>. QED BY <2>1, <2>2, CostKept DEF AllAtCost, CostInv
<1>11. ASSUME NEW c \in Call,
              \/ ReadBodyFails(c) \/ RefuseRequest(c) \/ PanicOnOptions(c)
              \/ SelectFails(c) \/ RefuseChannel(c) \/ UpstreamFails(c)
              \/ RelayBreaks(c) \/ BedrockFails(c)
              \/ PostSettle(c) \/ SettleUnreachable(c) \/ SettleUnanswered(c) \/ SettleReturns(c)
       PROVE  AllAtCost'
  <2>1. UNCHANGED <<req, ans, usage, bill>>
    BY <1>11 DEF handling, settling, ReadBodyFails, RefuseRequest, PanicOnOptions, SelectFails,
      RefuseChannel, UpstreamFails, RelayBreaks, BedrockFails, PostSettle, SettleUnreachable,
      SettleUnanswered, SettleReturns, Refuse, RelayError
  <2>2. UNCHANGED relayed
    BY <1>11 DEF writing, ReadBodyFails, RefuseRequest, PanicOnOptions, SelectFails,
      RefuseChannel, UpstreamFails, RelayBreaks, BedrockFails, PostSettle, SettleUnreachable,
      SettleUnanswered, SettleReturns, Refuse, RelayError, WriteError
  <2>3. PICK there \in {"settle", "settling", "done", "panicked"} : Goto(c, there)
    BY <1>11 DEF ReadBodyFails, RefuseRequest, PanicOnOptions, SelectFails,
      RefuseChannel, UpstreamFails, RelayBreaks, BedrockFails, PostSettle, SettleUnreachable,
      SettleUnanswered, SettleReturns, Refuse, RelayError, AttemptFails
  <2>4. pc'[c] = there /\ \A d \in Call \ {c} : pc'[d] = pc[d]
    BY <2>3 DEF Goto, IInv, TypeOK
  <2>. QED BY <2>1, <2>2, <2>4, CostKept DEF AllAtCost
<1>12. CASE Crash
  <2>1. /\ UNCHANGED <<req, ans, usage, relayed, bill>>
        /\ \A d \in Call : pc'[d] = pc[d] \/ pc'[d] = "lost"
    BY <1>12 DEF Crash, handling, writing, settling
  <2>. QED BY <2>1, CostKept DEF AllAtCost
<1>13. CASE UNCHANGED <<pc, req, ans, usage, relayed, bill>>
  BY <1>13, CostKept DEF AllAtCost
<1>14. ASSUME ~(\E c \in Call : Serve(c)), ~Crash
       PROVE  UNCHANGED <<pc, req, ans, usage, relayed, bill>>
  BY <1>14 DEF handling, writing, settling, Next, ClientGone, ReceiveSettle, LoseSettle, Stop, vars
<1>. QED BY <1>1, <1>2, <1>3, <1>4, <1>5, <1>6, <1>7, <1>8, <1>9, <1>10, <1>11, <1>12, <1>13, <1>14
         DEF Serve

\* If the upstreams state their costs in the form of their APIs, every charge
\* is for that cost where the handler can tell the frames of the answer apart,
\* and for nothing where it cannot: never for a part of a stream, a sum over
\* its frames, a retry, or what the host or the client claims.
THEOREM ChargesAreAtCost ==
  ASSUME \A a \in Answer : StatesCost(a)
  PROVE  Spec => []ChargedAtCost
<1>1. Init => AllAtCost
  BY DEF Init, AllAtCost, CostInv
<1>2. IInv /\ AllAtCost /\ [Next]_vars => AllAtCost'
  BY CostStep
<1>3. IInv /\ AllAtCost => ChargedAtCost
  BY DEF IInv, TypeOK, SettlingOK, Message, SafetyInv, PostInv, LedgerInv, AllAtCost, CostInv, ChargedAtCost
<1>. QED BY <1>1, <1>2, <1>3, Invariance, PTL DEF Spec

-----------------------------------------------------------------------------
(* Every handler that returns has answered *)

\* A status line is out from the first byte of an answer on, and a handler
\* panics only where it decodes a JSON null into a map.
AnsweredInv(c) ==
  /\ pc[c] \in {"settle", "settling", "done"} => status[c] # 0
  /\ pc[c] = "panicked" => WritesNilMap(req[c])

AllAnswered == \A c \in Call : AnsweredInv(c)

\* The first status line stands: no step takes back or replaces one.
LEMMA StatusStands ==
  ASSUME IInv, [Next]_vars, NEW d \in Call, status[d] # 0
  PROVE  status'[d] = status[d]
<1>. USE DEF IInv, TypeOK, WritingOK
<1>1. ASSUME NEW c \in Call, Serve(c)
      PROVE  status'[d] = status[d]
  <2>1. UNCHANGED status \/ \E code : status' = [status EXCEPT ![c] = OrElse(status[c], code)]
    BY <1>1 DEF writing, Serve, Arrive, ReadBodyFails, RefuseRequest, PanicOnOptions,
      AskControlPlane, SelectFails, RefuseChannel, Dispatch, UpstreamFails, UpstreamAnswers,
      RelayFrame, StreamEnds, RelayBody, RelayBreaks, BedrockFails, BedrockRejects,
      BedrockAnswers, BedrockWriteFails, PostSettle, SettleUnreachable, SettleUnanswered,
      SettleReturns, Refuse, RelayError, WriteError
  <2>. QED BY <2>1 DEF OrElse
<1>2. ASSUME ~(\E c \in Call : Serve(c))
      PROVE  UNCHANGED status
  BY <1>2 DEF writing, Next, ClientGone, ReceiveSettle, LoseSettle, Crash, Stop, vars
<1>. QED BY <1>1, <1>2

\* A call keeps its invariant when its handler goes on from a point where a
\* status line is out, or ends with the process.
LEMMA AnsweredKept ==
  ASSUME IInv, [Next]_vars, NEW d \in Call, AnsweredInv(d), req'[d] = req[d],
         \/ pc'[d] = pc[d]
         \/ pc'[d] \notin {"settle", "settling", "done", "panicked"}
         \/ pc'[d] # "panicked" /\ status'[d] # 0
         \/ pc'[d] # "panicked" /\ pc[d] \in {"stream", "buffer", "settle", "settling"}
  PROVE  AnsweredInv(d)'
<1>1. pc[d] \in {"stream", "buffer", "settle", "settling"} => status[d] # 0
  BY DEF AnsweredInv, IInv, SafetyInv, RelayInv, TypeOK, WritingOK
<1>2. status[d] # 0 => status'[d] # 0
  BY StatusStands
<1>. QED BY <1>1, <1>2 DEF AnsweredInv, WritesNilMap, InjectsUsage, Streams

\* Every step keeps the invariant of every call.
LEMMA AnsweredStep ==
  ASSUME IInv, AllAnswered, [Next]_vars
  PROVE  AllAnswered'
<1>1. ASSUME NEW c \in Call, Serve(c)
      PROVE  AllAnswered'
  <2>1. ASSUME NEW d \in Call \ {c}
        PROVE  pc'[d] = pc[d] /\ req'[d] = req[d]
    BY <1>1 DEF handling, Goto, IInv, TypeOK, HandlingOK, Serve, Arrive, ReadBodyFails,
      RefuseRequest, PanicOnOptions, AskControlPlane, SelectFails, RefuseChannel, Dispatch,
      UpstreamFails, UpstreamAnswers, RelayFrame, StreamEnds, RelayBody, RelayBreaks,
      BedrockFails, BedrockRejects, BedrockAnswers, BedrockWriteFails, PostSettle,
      SettleUnreachable, SettleUnanswered, SettleReturns, Refuse, RelayError, Complete,
      AttemptFails
  <2>2. AnsweredInv(c)'
    <3>. USE DEF Goto, OrElse
    <3>0. AnsweredInv(c) /\ pc \in [Call -> Control] /\ status \in [Call -> Nat]
      BY DEF AllAnswered, IInv, TypeOK, WritingOK
    <3>1. CASE Arrive(c)
      BY <3>0, <3>1 DEF Arrive, AnsweredInv
    <3>2. CASE PanicOnOptions(c)
      BY <3>0, <3>2 DEF PanicOnOptions, handling, AnsweredInv, WritesNilMap, InjectsUsage, Streams
    <3>3. CASE AskControlPlane(c) \/ Dispatch(c) \/ UpstreamAnswers(c)
      BY <3>0, <3>3 DEF AskControlPlane, Dispatch, UpstreamAnswers, AnsweredInv
    <3>4. ASSUME NEW code \in Nat \ {0}, Refuse(c, code)
          PROVE  AnsweredInv(c)'
      BY <3>0, <3>4 DEF Refuse, WriteError, AnsweredInv
    <3>5. CASE ReadBodyFails(c) \/ RefuseRequest(c) \/ SelectFails(c)
      BY <3>4, <3>5 DEF ReadBodyFails, RefuseRequest, SelectFails
    <3>6. CASE RefuseChannel(c)
      <4>1. PICK s \in Reply, held \in Held :
              Verdict(req[c], s, held) # 0 /\ Refuse(c, Verdict(req[c], s, held))
        BY <3>6 DEF RefuseChannel
      <4>. QED BY <3>4, <4>1, VerdictRange
    <3>7. CASE RelayError(c)
      BY <3>0, <3>7 DEF RelayError, WriteError, writing, AnsweredInv
    <3>8. CASE UpstreamFails(c) \/ RelayBreaks(c) \/ BedrockFails(c)
      BY <3>7, <3>8 DEF UpstreamFails, RelayBreaks, BedrockFails
    <3>9. CASE BedrockRejects(c) \/ BedrockAnswers(c) \/ BedrockWriteFails(c)
      <4>1. PICK a \in Answer : status' = [status EXCEPT ![c] = OrElse(status[c], a.status)]
        BY <3>9 DEF BedrockRejects, BedrockAnswers, BedrockWriteFails, WriteError
      <4>2. status'[c] # 0
        BY <3>0, <4>1, AnswerAssumption DEF AnswerShape
      <4>3. pc'[c] # "panicked"
        BY <3>0, <3>9 DEF BedrockRejects, BedrockAnswers, BedrockWriteFails, Complete
      <4>. QED BY <4>2, <4>3 DEF AnsweredInv
    <3>10. CASE \/ RelayFrame(c) \/ StreamEnds(c) \/ RelayBody(c)
                \/ PostSettle(c) \/ SettleUnreachable(c) \/ SettleUnanswered(c) \/ SettleReturns(c)
      <4>1. req' = req /\ pc[c] \in {"stream", "buffer", "settle", "settling"} /\ pc'[c] # "panicked"
        BY <3>0, <3>10 DEF handling, RelayFrame, StreamEnds, RelayBody, PostSettle,
          SettleUnreachable, SettleUnanswered, SettleReturns, Complete, AttemptFails
      <4>. QED BY <3>0, <4>1, AnsweredKept
    <3>. QED BY <1>1, <3>1, <3>2, <3>3, <3>5, <3>6, <3>8, <3>9, <3>10 DEF Serve
  <2>. QED BY <2>1, <2>2, AnsweredKept DEF AllAnswered
<1>2. ASSUME ~(\E c \in Call : Serve(c)), NEW d \in Call
      PROVE  AnsweredInv(d)'
  <2>1. req' = req /\ (pc'[d] = pc[d] \/ pc'[d] = "lost")
    BY <1>2 DEF handling, Next, ClientGone, ReceiveSettle, LoseSettle, Crash, Stop, vars
  <2>. QED BY <2>1, AnsweredKept DEF AllAnswered
<1>. QED BY <1>1, <1>2 DEF AllAnswered

\* A handler that has returned has written a status line, whatever failed and
\* whoever was gone, and none panics but over null stream options.
THEOREM HandlersRespond == Spec => []HandlerResponds
<1>1. Init => AllAnswered
  BY DEF Init, AllAnswered, AnsweredInv
<1>2. IInv /\ AllAnswered /\ [Next]_vars => AllAnswered'
  BY AnsweredStep
<1>3. AllAnswered => HandlerResponds
  BY DEF AllAnswered, AnsweredInv, HandlerResponds
<1>. QED BY <1>1, <1>2, <1>3, Invariance, PTL DEF Spec

-----------------------------------------------------------------------------
(* An answer without a stream is settled with the sum of what it splits *)

\* The total of a call without a stream is what the body reports, or the sum
\* of what it splits.
BufferedInv(c) ==
  /\ pc[c] = "stream" => Streams(req[c])
  /\ /\ ~Streams(req[c]) /\ bill[c].kind = "tokens"
     /\ \A i \in 1 .. Len(ans[c].frames) : PeekTotal(ans[c].frames[i]) = 0
     => bill[c].total = bill[c].prompt + bill[c].completion

AllBuffered == \A c \in Call : BufferedInv(c)

\* A usage whose total is its sum is billed with the sum.
LEMMA SumIsBilled ==
  ASSUME NEW r, NEW u \in Usage, u.total = u.prompt + u.completion, NEW code,
         SettleRequest(r, u, code).kind = "tokens"
  PROVE  LET b == SettleRequest(r, u, code) IN b.total = b.prompt + b.completion
<1>. DEFINE v == RerankUsage(r, u)
<1>1. v.total = v.prompt + v.completion
  BY DEF RerankUsage, Usage
<1>2. ~IsImage(r)
  BY DEF SettleRequest
<1>. QED BY <1>1, <1>2 DEF SettleRequest

\* One body that reports no total gets one that is its sum.
LEMMA BodySum ==
  ASSUME NEW r, ~Streams(r), NEW k \in Chunk, PeekTotal(k) = 0
  PROVE  /\ LET u == Accumulate(r, ZeroUsage, k) IN u.total = u.prompt + u.completion
         /\ LET u == NovaUsage(k) IN u.total = u.prompt + u.completion
<1>1. k.usage.total = 0
  BY DEF PeekTotal, OrElse, Chunk
<1>2. NovaUsage(k).total = NovaUsage(k).prompt + NovaUsage(k).completion
  BY <1>1 DEF NovaUsage, FinalizeUsage, OrElse
<1>3. Accumulate(r, ZeroUsage, k).total =
        Accumulate(r, ZeroUsage, k).prompt + Accumulate(r, ZeroUsage, k).completion
  BY DEF Accumulate, PeekUsage, OrElse
<1>. QED BY <1>2, <1>3

\* A call keeps its invariant when nothing is billed.
LEMMA BufferedKept ==
  ASSUME NEW d, BufferedInv(d), req'[d] = req[d], bill'[d] = bill[d],
         ans'[d] = ans[d] \/ bill[d] = NoBill,
         \/ pc'[d] = pc[d]
         \/ pc'[d] # "stream"
         \/ pc'[d] = "stream" /\ Streams(req[d])
  PROVE  BufferedInv(d)'
<1>1. bill[d] = NoBill => bill[d].kind # "tokens"
  BY DEF NoBill
<1>. QED BY <1>1 DEF BufferedInv, Streams

\* A call without a stream that is completed, and the others as they were.
LEMMA CompleteBuffered ==
  ASSUME IInv, AllBuffered, NEW c \in Call, NEW u \in Usage, NEW code \in Nat,
         Complete(c, u, code), req' = req,
         \A d \in Call \ {c} : ans'[d] = ans[d],
         \/ Streams(req[c])
         \/ u.total = u.prompt + u.completion
         \/ \E i \in 1 .. Len(ans'[c].frames) : PeekTotal(ans'[c].frames[i]) # 0
  PROVE  AllBuffered'
<1>1. /\ pc'[c] = "settle"
      /\ bill'[c] = SettleRequest(req[c], u, code)
      /\ \A d \in Call \ {c} : pc'[d] = pc[d] /\ usage'[d] = usage[d] /\ bill'[d] = bill[d]
  BY DEF Complete, Goto, IInv, TypeOK, SettlingOK
<1>2. bill'[c] # NoBill
  BY <1>1, SettleRequestType DEF IInv, TypeOK, HandlingOK
<1>3. BufferedInv(c)'
  BY <1>1, <1>2, SumIsBilled DEF BufferedInv, Streams
<1>4. \A d \in Call \ {c} : BufferedInv(d)'
  BY <1>1, BufferedKept DEF AllBuffered
<1>. QED BY <1>3, <1>4 DEF AllBuffered

\* Every step keeps the invariant of every call.
LEMMA BufferedStep ==
  ASSUME IInv, AllBuffered, [Next]_vars
  PROVE  AllBuffered'
<1>1. ASSUME NEW c \in Call, Arrive(c)
      PROVE  AllBuffered'
  <2>1. /\ pc[c] = "idle" /\ pc'[c] = "reading" /\ bill[c] = NoBill
        /\ \A d \in Call \ {c} : req'[d] = req[d] /\ pc'[d] = pc[d]
    BY <1>1 DEF Arrive, Goto, IInv, SafetyInv, BillInv, TypeOK, HandlingOK
  <2>2. UNCHANGED <<ans, bill>>
    BY <1>1 DEF Arrive, settling
  <2>3. BufferedInv(c)'
    BY <2>1, <2>2 DEF AllBuffered, BufferedInv, NoBill
  <2>. QED BY <2>1, <2>2, <2>3, BufferedKept DEF AllBuffered
<1>2. ASSUME NEW c \in Call, UpstreamAnswers(c) \/ BedrockWriteFails(c)
      PROVE  AllBuffered'
  <2>1. /\ UNCHANGED <<req, bill>>
        /\ pc[c] \in {"upstream", "bedrock"}
    BY <1>2 DEF UpstreamAnswers, BedrockWriteFails, settling
  <2>2. /\ \/ pc'[c] \in {"buffer", "done"}
           \/ pc'[c] = "stream" /\ Streams(req[c])
        /\ \A d \in Call \ {c} : pc'[d] = pc[d]
    BY <1>2 DEF UpstreamAnswers, BedrockWriteFails, Goto, IInv, TypeOK
  <2>3. \A d \in Call \ {c} : ans'[d] = ans[d]
    BY <1>2 DEF UpstreamAnswers, BedrockWriteFails, IInv, TypeOK, HandlingOK
  <2>4. bill[c] = NoBill
    BY <2>1 DEF IInv, SafetyInv, BillInv
  <2>. QED BY <2>1, <2>2, <2>3, <2>4, BufferedKept DEF AllBuffered
<1>3. ASSUME NEW c \in Call, RelayFrame(c)
      PROVE  AllBuffered'
  <2>1. /\ pc[c] = "stream" /\ UNCHANGED <<pc, req, ans, bill>>
        /\ \A d \in Call \ {c} : usage'[d] = usage[d] /\ relayed'[d] = relayed[d]
    BY <1>3 DEF RelayFrame, handling, settling, IInv, TypeOK, WritingOK
  <2>2. BufferedInv(c)'
    BY <2>1 DEF AllBuffered, BufferedInv, Streams
  <2>. QED BY <2>1, <2>2, BufferedKept DEF AllBuffered
<1>4. ASSUME NEW c \in Call, StreamEnds(c)
      PROVE  AllBuffered'
  <2>1. FinalizeUsage(usage[c]) \in Usage /\ ans[c].status \in Nat /\ Streams(req[c])
    BY <1>4, MergeUsageType DEF StreamEnds, IInv, TypeOK, HandlingOK, AnswerShape, AllBuffered, BufferedInv
  <2>. QED BY <1>4, <2>1, CompleteBuffered DEF StreamEnds, handling, writing
<1>5. ASSUME NEW c \in Call, RelayBody(c)
      PROVE  AllBuffered'
  <2>. DEFINE u == Accumulate(req[c], ZeroUsage, ans[c].frames[1])
  <2>1. /\ pc[c] = "buffer" /\ Complete(c, u, ans[c].status)
        /\ UNCHANGED <<req, ans>> /\ \A d \in Call \ {c} : relayed'[d] = relayed[d]
    BY <1>5 DEF RelayBody, handling, IInv, TypeOK, WritingOK
  <2>2. /\ req[c] \in RequestShape /\ ans[c].status \in Nat
        /\ ans[c].frames \in Seq(Chunk) /\ Len(ans[c].frames) = 1 /\ ZeroUsage \in Usage
    BY <2>1 DEF IInv, SafetyInv, RelayInv, TypeOK, HandlingOK, AnswerShape, ZeroUsage, Usage
  <2>3. u \in Usage /\ ans[c].frames[1] \in Chunk
    BY <2>2, AccumulateType
  <2>4. \/ Streams(req[c]) \/ u.total = u.prompt + u.completion
        \/ PeekTotal(ans[c].frames[1]) # 0
    BY <2>3, BodySum
  <2>. HIDE DEF u
  <2>. QED BY <2>1, <2>2, <2>3, <2>4, CompleteBuffered
<1>6. ASSUME NEW c \in Call, BedrockRejects(c)
      PROVE  AllBuffered'
  <2>1. PICK a \in Answer : Complete(c, ZeroUsage, a.status) /\ ans' = [ans EXCEPT ![c] = a]
    BY <1>6 DEF BedrockRejects
  <2>2. a.status \in Nat /\ ZeroUsage \in Usage /\ req' = req
    BY <1>6, AnswerAssumption DEF BedrockRejects, AnswerShape, ZeroUsage, Usage
  <2>3. \A d \in Call \ {c} : ans'[d] = ans[d] /\ relayed'[d] = relayed[d]
    BY <1>6, <2>1 DEF BedrockRejects, WriteError, IInv, TypeOK, HandlingOK
  <2>4. ZeroUsage.total = ZeroUsage.prompt + ZeroUsage.completion
    BY DEF ZeroUsage
  <2>. QED BY <2>1, <2>2, <2>3, <2>4, CompleteBuffered
<1>7. ASSUME NEW c \in Call, BedrockAnswers(c)
      PROVE  AllBuffered'
  <2>1. PICK a \in Answer : /\ a.framing = "body"
                            /\ Complete(c, NovaUsage(a.frames[1]), a.status)
                            /\ ans' = [ans EXCEPT ![c] = a]
    BY <1>7 DEF BedrockAnswers
  <2>2. a.status \in Nat /\ Len(a.frames) = 1 /\ a.frames[1] \in Chunk
    BY <2>1, OneBody
  <2>3. /\ ans'[c] = a /\ req' = req
        /\ \A d \in Call \ {c} : ans'[d] = ans[d] /\ relayed'[d] = relayed[d]
    BY <1>7, <2>1 DEF BedrockAnswers, IInv, TypeOK, HandlingOK, WritingOK
  <2>4. NovaUsage(a.frames[1]) \in Usage
    BY <2>2, PeekUsageType
  <2>5. \/ Streams(req[c])
        \/ NovaUsage(a.frames[1]).total = NovaUsage(a.frames[1]).prompt + NovaUsage(a.frames[1]).completion
        \/ PeekTotal(a.frames[1]) # 0
    BY <2>2, BodySum
  <2>. QED BY <2>1, <2>2, <2>3, <2>4, <2>5, CompleteBuffered
<1>8. ASSUME NEW c \in Call,
             \/ ReadBodyFails(c) \/ RefuseRequest(c) \/ PanicOnOptions(c) \/ AskControlPlane(c)
             \/ SelectFails(c) \/ RefuseChannel(c) \/ Dispatch(c) \/ UpstreamFails(c)
             \/ RelayBreaks(c) \/ BedrockFails(c)
             \/ PostSettle(c) \/ SettleUnreachable(c) \/ SettleUnanswered(c) \/ SettleReturns(c)
      PROVE  AllBuffered'
  <2>1. UNCHANGED <<req, ans, usage, bill>>
    BY <1>8 DEF handling, settling, ReadBodyFails, RefuseRequest, PanicOnOptions, AskControlPlane,
      SelectFails, RefuseChannel, Dispatch, UpstreamFails, RelayBreaks, BedrockFails, PostSettle,
      SettleUnreachable, SettleUnanswered, SettleReturns, Refuse, RelayError
  <2>2. UNCHANGED relayed
    BY <1>8 DEF writing, ReadBodyFails, RefuseRequest, PanicOnOptions, AskControlPlane,
      SelectFails, RefuseChannel, Dispatch, UpstreamFails, RelayBreaks, BedrockFails, PostSettle,
      SettleUnreachable, SettleUnanswered, SettleReturns, Refuse, RelayError, WriteError
  <2>3. PICK there \in Control \ {"idle", "stream"} : Goto(c, there)
    BY <1>8 DEF ReadBodyFails, RefuseRequest, PanicOnOptions, AskControlPlane, SelectFails,
      RefuseChannel, Dispatch, UpstreamFails, RelayBreaks, BedrockFails, PostSettle,
      SettleUnreachable, SettleUnanswered, SettleReturns, Refuse, RelayError, AttemptFails, Control
  <2>4. pc'[c] = there /\ \A d \in Call \ {c} : pc'[d] = pc[d]
    BY <2>3 DEF Goto, IInv, TypeOK
  <2>. QED BY <2>1, <2>2, <2>4, BufferedKept DEF AllBuffered
<1>9. ASSUME ~(\E c \in Call : Serve(c))
      PROVE  AllBuffered'
  <2>1. /\ UNCHANGED <<req, ans, usage, relayed, bill>>
        /\ \A d \in Call : pc'[d] = pc[d] \/ pc'[d] = "lost"
    BY <1>9 DEF handling, writing, settling, Next, ClientGone, ReceiveSettle, LoseSettle, Crash,
      Stop, vars
  <2>. QED BY <2>1, BufferedKept DEF AllBuffered
<1>. QED BY <1>1, <1>2, <1>3, <1>4, <1>5, <1>6, <1>7, <1>8, <1>9 DEF Serve

\* The invariant holds in every reachable state.
LEMMA BufferedInvariance == Spec => []AllBuffered
<1>1. Init => AllBuffered
  BY DEF Init, AllBuffered, BufferedInv, NoBill
<1>2. IInv /\ AllBuffered /\ [Next]_vars => AllBuffered'
  BY BufferedStep
<1>. QED BY <1>1, <1>2, Invariance, PTL DEF Spec

\* How far the promise of SplitCountsAreSummed holds (dispatch.go,
\* finalizeUsage): without a stream, counts that an upstream splits are
\* settled with their sum.
THEOREM BufferedAreSummed ==
  Spec => [](\A c \in Call :
               /\ ~Streams(req[c]) /\ bill[c].kind = "tokens"
               /\ \A i \in 1 .. Len(ans[c].frames) : PeekTotal(ans[c].frames[i]) = 0
               => bill[c].total = bill[c].prompt + bill[c].completion)
<1>. DEFINE Summed ==
       \A c \in Call :
         /\ ~Streams(req[c]) /\ bill[c].kind = "tokens"
         /\ \A i \in 1 .. Len(ans[c].frames) : PeekTotal(ans[c].frames[i]) = 0
         => bill[c].total = bill[c].prompt + bill[c].completion
<1>1. AllBuffered => Summed
  BY DEF AllBuffered, BufferedInv
<1>. HIDE DEF Summed
<1>2. Spec => []Summed
  BY <1>1, BufferedInvariance, PTL
<1>. QED BY <1>2 DEF Summed

-----------------------------------------------------------------------------
(* A handler runs out of steps *)

\* Stages a call still has before it; no handler goes back in them.
Stage(p) ==
  CASE p = "idle" -> 6
    [] p = "reading" -> 5
    [] p = "select" -> 4
    [] p \in {"upstream", "bedrock"} -> 3
    [] p \in {"stream", "buffer"} -> 2
    [] p \in {"settle", "settling"} -> 1
    [] p \in Over -> 0

\* Steps left within a stage: a stream has its frames, and a settlement two
\* steps per attempt, to post and to hear.
Left(c) ==
  CASE pc[c] = "stream" -> Len(ans[c].frames) - relayed[c]
    [] pc[c] \in {"settle", "settling"} ->
         2 * (MaxAttempts - attempt[c]) + (IF pc[c] = "settle" THEN 1 ELSE 0)
    [] OTHER -> 0

\* A step of the handler ends a stage or takes a step off it; nobody else moves
\* the call, short of ending its process.
Advances(c) ==
  IF Serve(c)
  THEN \/ Stage(pc'[c]) < Stage(pc[c])
       \/ Stage(pc'[c]) = Stage(pc[c]) /\ Left(c)' < Left(c)
  ELSE pc'[c] = "lost" \/ (pc'[c] = pc[c] /\ Left(c)' = Left(c))

\* The steps left are a number at any time.
LEMMA LeftIsNat ==
  ASSUME IInv, NEW c \in Call
  PROVE  Left(c) \in Nat
<1>1. /\ attempt[c] \in 0 .. MaxAttempts /\ relayed[c] \in Nat
      /\ pc[c] = "stream" => relayed[c] <= Len(ans[c].frames)
      /\ Len(ans[c].frames) \in Nat
  BY DEF IInv, TypeOK, SettlingOK, WritingOK, HandlingOK, AnswerShape, SafetyInv, RelayInv
<1>2. CASE pc[c] = "stream"
  BY <1>1, <1>2 DEF Left
<1>3. CASE pc[c] \in {"settle", "settling"}
  BY <1>1, <1>3 DEF Left, MaxAttempts
<1>4. CASE pc[c] \notin {"stream", "settle", "settling"}
  BY <1>4 DEF Left
<1>. QED BY <1>2, <1>3, <1>4

\* Giving up on an attempt uses up its steps.
LEMMA AttemptAdvances ==
  ASSUME IInv, NEW c \in Call, pc[c] \in {"settle", "settling"}, AttemptFails(c)
  PROVE  \/ Stage(pc'[c]) < Stage(pc[c])
         \/ Stage(pc'[c]) = Stage(pc[c]) /\ Left(c)' < Left(c)
<1>1. /\ attempt[c] \in 0 .. MaxAttempts /\ attempt'[c] = attempt[c] + 1
      /\ attempt[c] < MaxAttempts
      /\ pc'[c] \in {"settle", "done"}
  BY DEF AttemptFails, Goto, IInv, TypeOK, SettlingOK, SafetyInv, BillInv
<1>2. CASE pc'[c] = "settle"
  <2>1. Stage(pc'[c]) = 1 /\ Stage(pc[c]) = 1
    BY <1>2 DEF Stage, Over
  <2>2. Left(c)' = 2 * (MaxAttempts - (attempt[c] + 1)) + 1
    BY <1>1, <1>2 DEF Left
  <2>3. pc[c] = "settle" => Left(c) = 2 * (MaxAttempts - attempt[c]) + 1
    BY DEF Left
  <2>4. pc[c] = "settling" => Left(c) = 2 * (MaxAttempts - attempt[c]) + 0
    BY DEF Left
  <2>. QED BY <1>1, <2>1, <2>2, <2>3, <2>4 DEF MaxAttempts
<1>3. CASE pc'[c] = "done"
  BY <1>3 DEF Stage, Over
<1>. QED BY <1>1, <1>2, <1>3

\* Why calls end, short of fairness (GoneEnds, SettlingEnds): whatever the
\* control plane, the upstream and the client do, each step of the handler ends
\* a stage of the call or takes at least one off the steps left in it, which
\* are a number.
THEOREM HandlersAdvance ==
  Spec => [][\A c \in Call : Left(c) \in Nat /\ Advances(c)]_vars
<1>1. ASSUME IInv, [Next]_vars, NEW d \in Call
      PROVE  Advances(d)
  <2>. USE <1>1
  <2>0. pc \in [Call -> Control]
    BY DEF IInv, TypeOK
  <2>1. ASSUME Serve(d)
        PROVE  \/ Stage(pc'[d]) < Stage(pc[d])
               \/ Stage(pc'[d]) = Stage(pc[d]) /\ Left(d)' < Left(d)
    <3>1. CASE Arrive(d)
      <4>1. pc[d] = "idle" /\ pc'[d] = "reading"
        BY <2>0, <3>1 DEF Arrive, Goto
      <4>. QED BY <4>1 DEF Stage, Over
    <3>2. CASE ReadBodyFails(d) \/ RefuseRequest(d) \/ PanicOnOptions(d) \/ AskControlPlane(d)
      <4>1. pc[d] = "reading" /\ pc'[d] \in {"done", "panicked", "select"}
        BY <2>0, <3>2 DEF ReadBodyFails, RefuseRequest, PanicOnOptions, AskControlPlane, Refuse,
          Goto
      <4>. QED BY <4>1 DEF Stage, Over
    <3>3. CASE SelectFails(d) \/ RefuseChannel(d) \/ Dispatch(d)
      <4>1. pc[d] = "select" /\ pc'[d] \in {"done", "bedrock", "upstream"}
        BY <2>0, <3>3 DEF SelectFails, RefuseChannel, Dispatch, Refuse, Goto
      <4>. QED BY <4>1 DEF Stage, Over
    <3>4. CASE UpstreamFails(d) \/ UpstreamAnswers(d)
      <4>1. pc[d] = "upstream" /\ pc'[d] \in {"done", "stream", "buffer"}
        BY <2>0, <3>4 DEF UpstreamFails, UpstreamAnswers, RelayError, Goto
      <4>. QED BY <4>1 DEF Stage, Over
    <3>5. CASE RelayFrame(d)
      <4>1. /\ pc[d] = "stream" /\ pc' = pc /\ ans' = ans
            /\ relayed[d] < Len(ans[d].frames)
            /\ relayed[d] \in Nat /\ relayed'[d] = relayed[d] + 1
            /\ Len(ans[d].frames) \in Nat
        BY <3>5 DEF RelayFrame, handling, IInv, TypeOK, WritingOK, HandlingOK, AnswerShape
      <4>. QED BY <4>1 DEF Left
    <3>6. CASE StreamEnds(d) \/ RelayBody(d) \/ RelayBreaks(d)
      <4>1. /\ pc[d] \in {"stream", "buffer"}
            /\ pc'[d] \in {"done", "settle"}
        BY <2>0, <3>6 DEF StreamEnds, RelayBody, RelayBreaks, Complete, RelayError, Goto
      <4>. QED BY <4>1 DEF Stage, Over
    <3>7. CASE BedrockFails(d) \/ BedrockRejects(d) \/ BedrockAnswers(d) \/ BedrockWriteFails(d)
      <4>1. pc[d] = "bedrock" /\ pc'[d] \in {"done", "settle"}
        BY <2>0, <3>7 DEF BedrockFails, BedrockRejects, BedrockAnswers, BedrockWriteFails,
          Complete, RelayError, Goto
      <4>. QED BY <4>1 DEF Stage, Over
    <3>8. CASE PostSettle(d)
      <4>1. /\ pc[d] = "settle" /\ pc'[d] = "settling" /\ attempt' = attempt
            /\ attempt[d] \in 0 .. MaxAttempts
        BY <2>0, <3>8 DEF PostSettle, Goto, IInv, TypeOK, SettlingOK
      <4>. QED BY <4>1 DEF Stage, Left, MaxAttempts
    <3>9. CASE SettleUnreachable(d) \/ SettleUnanswered(d) \/ SettleReturns(d)
      <4>1. /\ pc[d] \in {"settle", "settling"}
            /\ AttemptFails(d) \/ pc'[d] = "done"
        BY <2>0, <3>9 DEF SettleUnreachable, SettleUnanswered, SettleReturns, Goto
      <4>2. CASE pc'[d] = "done"
        BY <4>1, <4>2 DEF Stage, Over
      <4>. QED BY <4>1, <4>2, AttemptAdvances
    <3>. QED BY <2>1, <3>1, <3>2, <3>3, <3>4, <3>5, <3>6, <3>7, <3>8, <3>9 DEF Serve
  <2>2. ASSUME NEW c \in Call, c # d, Serve(c)
        PROVE  pc'[d] = pc[d] /\ Left(d)' = Left(d)
    <3>1. pc'[d] = pc[d] /\ attempt'[d] = attempt[d]
      BY <2>2 DEF settling, Goto, IInv, TypeOK, SettlingOK, Serve, Arrive, ReadBodyFails,
        RefuseRequest, PanicOnOptions, AskControlPlane, SelectFails, RefuseChannel, Dispatch,
        UpstreamFails, UpstreamAnswers, RelayFrame, StreamEnds, RelayBody, RelayBreaks,
        BedrockFails, BedrockRejects, BedrockAnswers, BedrockWriteFails, PostSettle,
        SettleUnreachable, SettleUnanswered, SettleReturns, Refuse, RelayError, Complete,
        AttemptFails
    <3>2. ans'[d] = ans[d] /\ relayed'[d] = relayed[d]
      BY <2>2 DEF handling, writing, IInv, TypeOK, WritingOK, HandlingOK, Serve, Arrive,
        ReadBodyFails, RefuseRequest, PanicOnOptions, AskControlPlane, SelectFails,
        RefuseChannel, Dispatch, UpstreamFails, UpstreamAnswers, RelayFrame, StreamEnds,
        RelayBody, RelayBreaks, BedrockFails, BedrockRejects, BedrockAnswers,
        BedrockWriteFails, PostSettle, SettleUnreachable, SettleUnanswered, SettleReturns,
        Refuse, RelayError, WriteError, Complete, AttemptFails
    <3>. QED BY <3>1, <3>2 DEF Left
  <2>3. ASSUME Crash
        PROVE  \/ pc'[d] = "lost"
               \/ pc'[d] = pc[d] /\ Left(d)' = Left(d)
    <3>1. /\ pc'[d] = pc[d] \/ pc'[d] = "lost"
          /\ ans' = ans /\ relayed' = relayed /\ attempt' = attempt
      BY <2>3 DEF Crash, handling, writing, settling
    <3>. QED BY <3>1 DEF Left
  <2>4. ASSUME ~(\E c \in Call : Serve(c)), ~Crash
        PROVE  pc'[d] = pc[d] /\ Left(d)' = Left(d)
    <3>1. pc' = pc /\ ans' = ans /\ relayed' = relayed /\ attempt' = attempt
      BY <2>4 DEF handling, writing, settling, Next, ClientGone, ReceiveSettle, LoseSettle, Stop,
        vars
    <3>. QED BY <3>1 DEF Left
  <2>. QED BY <2>1, <2>2, <2>3, <2>4 DEF Advances
<1>2. IInv /\ [Next]_vars => [\A c \in Call : Left(c) \in Nat /\ Advances(c)]_vars
  BY <1>1, LeftIsNat
<1>. QED BY <1>2, Invariance, PTL DEF Spec
=============================================================================
