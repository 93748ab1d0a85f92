# A TLA+ model of the official-channel enclave relay

This directory models the relay that runs inside the SGX enclave
(`cmd/relay-core` with `pkg/officialurls`, `pkg/relaycontrol` and
`pkg/raenclave`): what it does with a client call, whom it dials, what it
settles with the host's control plane, how it converts, signs and routes a call
to AWS Bedrock, how it caches Vertex tokens, how it keeps its upstream key over
restarts, and what its two verifying clients (`client/verify_enclave.py` and
`cmd/relay-verify`) learn about it. Paths below are relative to `src/`.

## The system and its parts

A client sends an OpenAI-, Anthropic- or Gemini-shaped request over RA-TLS to
the enclave. `serveRelay` reads a few scalars from it, asks the host's control
plane over loopback which channel to use, checks the answer against tables that
are compiled into the enclave, forwards the body to the official upstream,
copies the answer to the client while it reads the token counts out of it, and
finally settles with the control plane, which deducts quota and deduplicates on
the request id.

| Part | State | Operations | Talks to | What is hard |
|---|---|---|---|---|
| Request handling (`main.go`, `dispatch.go`) | none shared: locals of one goroutine per call, the response writer | admit, dispatch, relay a stream or a body, settle | client, control plane, upstream | failure after headers are out, cancellation, usage spread over frames |
| Control-plane client (`control_client.go`) | attempts of a settlement | `SelectChannel`, `Settle` | host, by HTTP | lost, late and repeated POSTs, timeouts |
| Wire scalars (`wire.go`) | none | `PeekRequest`, `PeekUsage`, image counts, `EnsureStreamUsage`, model mapping | called by the handler | absent fields, boundaries, JSON null, text that does not decode |
| Official tables (`officialurls.go`, `profiles.go`) | none | `For`, `IsOfficialHostSuffix`, `SupportsOfficial`, `ResolveRoute` | called by the handler | arbitrary control-plane answers |
| Bedrock (`aws_bedrock.go`, `sigv4.go`) | none | convert, sign, forward, convert back | host (model mapping), upstream | two-way conversion, the region of host and signature, the path that is signed and the one that is sent |
| Vertex token cache (`vertexoauth.go`) | a process-wide map behind a mutex | `CachedVertexToken` | token endpoint | a clock read before a wait, expiry, concurrent misses |
| Key store and bootstrap (`server.go`, `raenclave.go`) | a sealed file, the environment | seal once, `KeyFor` | the operator, the disk | crashes between creating and filling the file |
| RA-TLS certificate (`raenclave.go`) | one certificate per process | `BuildCert`, `fetchQuote` | the attestation device | write-then-read of device files |
| Python client (`client/verify_enclave.py`) | the quote and the binding, during a run | fetch, pin, check the binding, re-pin, send a prompt | enclave | four connections, restarts between them, a check that is skipped |
| Go verifier (`cmd/relay-verify`) | the certificate and a library verdict, during a run | fetch, check the chain, pin, check the binding, verdict | enclave or any other server, DCAP library | options that drop or weaken a check; copied and forged quotes; agreement with the other client |
| Demo, scripts, build, host integration text | none of their own | | | not part of the relay |

What makes each part correct:

* handling and settling: only what was served is charged, at its cost and once;
  what was served is charged or its failure is visible; a handler ends when its
  client has gone; an error object never lands in the middle of an answer;
* official tables: every call that leaves the enclave goes to a vetted
  provider's own host name, on a surface it serves, with the right header, and
  over TLS;
* token cache: a token outlives the caller that got it; callers that arrive
  together share one mint;
* key store: a key reported as provisioned stays the key that is served;
* certificate and Python client: what was attested on one connection still
  holds on the next, or the client refuses; it never refuses without a reason;
* Go verifier: a pass is for a genuine quote of the pinned build and the process
  at the other end, whatever is presented, and the two clients do not contradict
  each other about one process;
* Bedrock: the request goes to the region it is signed for and AWS can recompute
  the signature; only a region moves it; no message of the client vanishes; the
  client is told the model it called and the usage that is settled;
* model mapping: it ends, and its result is what the mapping defines.

## Modules and how they correspond to the code

| Module | Models | Correspondence |
|---|---|---|
| `OfficialUrls` | `pkg/officialurls/officialurls.go`, `profiles.go` | One operator per function. A URL is named by the lowest channel type carrying it; a host name by its provider zone and how it joins that zone (dot, hyphen, apex), which is what the suffix rules tell apart. A base URL of the host is a scheme, a port and a host name; `NormalizeHost` keeps the last of these, as the code does. |
| `RelayWire` | the scalars of `pkg/relaycontrol/wire.go`, the merge of `dispatch.go` | A body or frame is reduced to its billing blocks. Text that does not decode is `Content`, which has none. |
| `RelayCore` | `serveRelay`, `forward`, `streamThrough`, `bufferThrough`, `forwardAWSBedrock`, `SelectChannel`, `Settle` | `pc[c]` is where the handler of call `c` waits; each action runs from one wait to the next and includes every write on the way. |
| `Billing` | nothing by itself: the abstract promise | A call comes to owe a bill, and is charged at most once and only as owed. |
| `RelayCoreProofs` | | the invariants and the refinement, proved |
| `VertexTokenCache`, `VertexTokenCacheProofs` | `CachedVertexToken` | The clock reading, the queue for the mutex, the hit, the mint with the mutex held, and its failure are separate steps; the clock may advance between any two. |
| `KeyStore`, `KeyStoreProofs` | the bootstrap in `main`, `SealKeyFile`, `fileKeyStore.KeyFor` | Creating the file and filling it are two steps with a crash possible between them. |
| `Attestation`, `AttestationProofs` | `BuildCert`, `fetchQuote`, the `/attestation` endpoint, `client/verify_enclave.py` | `pc` is the script's next step; each step that opens a connection is one action and meets the process that serves at that moment. Processes may exit and new ones, of any build, start between any two steps. A process and its key have one name; `report_data` is the key that was hashed into it. |
| `RelayVerify`, `RelayVerifyProofs` | `cmd/relay-verify` (`main`, `fetchLeafCert`, `extractQuote`, `classifyQVResult`, both builds of `verifyQuoteChain`) | Extends `Attestation`: both clients look at one deployment. `stage` is relay-verify's next step. `FetchLeafCert` meets a process of the relay, `FetchForeignCert` any other server, which has a key of its own and shows no quote, one that is too short, a copy of a process's, one of another build, or one made up. The rest works on the certificate in `leaf`. The library answers any result code, or fails, but accepts no quote that no enclave has signed. |
| `ModelMapping`, `ModelMappingProofs` | `ResolveModelMapping` | One step is one turn of the loop; `outcome` says how it returned. |
| `SigV4` | `pkg/officialurls/sigv4.go` | A signature is the record of what went into it; a path counts how often its name has been percent-encoded. `AWSAccepts` is the other side: it recomputes the signature from what arrives. |
| `Nova` | the conversions of `aws_bedrock.go` | One step is one turn of the loop over the messages; `system` and `turns` are what it has collected. A text is the sequence of the pieces it is put together from; an optional number is a set of at most one. |
| `Bedrock`, `BedrockProofs` | `prepareAWSBedrockRequest`, `forwardAWSBedrock`, `parseAWSBedrockCredentials`, `SplitModelRegion` | Composes the three above with `OfficialUrls`: the host's loop (`HostMaps`), its choice, then the enclave's checks, its own loop over the messages (`EnclaveConverts`), the request and the answer. A name is the sequence of its parts between `@`. |
| `RelayCallProofs` | | what one call of `RelayCore` can come to, proved: its target, its images, its cost, its answer, its total, its end |
| `MCRelayCore`, `MCVertexTokenCache`, `MCKeyStore`, `MCAttestation`, `MCRelayVerify`, `MCBedrock` | | small instances for TLC |

`RelayCore` and `Bedrock` both contain `forwardAWSBedrock`, at two levels. The
first has its exits among all other exits of a call (failed write, settlement,
crash) and one Bedrock host; the second has what those exits depend on: the
names, the key, the request and its signature.

In `RelayCore` the variables are the handler's locals (`req`, `usage`, `bill`
for `settle`, `attempt`), the writer (`status` for `statusTrackingWriter`,
`relayed`, `partial` for a write that broke half way, `errBody`), the request
context (`client`), the log line (`logged`), the request that leaves the enclave
(`dial`), and three things outside it: `ans`, what the upstream sends, as the
handler reads it; `wire`, settle POSTs under way; `ledger`, what the control plane
has charged. The control plane's settle endpoint is external and does what
`control_client.go:89-93` relies on: it deduplicates on the request id and
answers ok, an error, or neither; a call whose upstream status is outside 2xx is
acknowledged without a charge (`aws_bedrock.go:343`). Its select endpoint
answers anything in `Reply`, whether or not that makes sense.

An upstream gets `Forwarded` of the request: the path and the body, without the
query (`main.go:233` passes `r.URL.Path` on). It frames a success by what it got
(`Framing`, external): one object, events, or, for a native Gemini stream without
`?alt=sse`, an array. The handler goes by its own notion of a stream (`Streams`,
`main.go:114-123`). Where the two differ, `AsRead` says what `PeekUsage` makes of
it: nothing, unless an object happens to stand on one line (`compact`). Both
notions vary independently in the runs.

Failures in the model: an unreadable body; an unreachable, silent or
incoherent control plane; a host that lies about officiality; a missing key; an
upstream that cannot be dialled, breaks off, answers with an error or never; a
client that leaves at any moment, which cancels the context that the upstream
request and the settlement run on; settle POSTs that are lost, or processed
after their attempt was given up; a panic in the handler; the death of the
process with all its handlers; a write that fails half way, also after the usage
of a Bedrock answer has been counted.

## Runs

The longest run, `relay_pair`, takes about a minute on two workers.

| Run | Question | Instance |
|---|---|---|
| `relay_calls` | Whatever is asked and answered, whom does the relay dial, what does it write, is what is charged served in full, at the upstream's own count, and does the handler answer, and end without help from upstream or control plane? | 1 call, all endpoints, all 60 channel types and 2 outside, all hosts, all schemes and ports of a base URL, an answer of each API in each of its framings, image counts -1 to 500; 215,159 states; `FairSpec` |
| `relay_pair` | Do two interleaved calls account for what they served, is their id charged once, and does the system implement `Billing`? | 2 calls under 1 request id, 1 streaming and 1 buffered shape; 342,741 states |
| `vertex_cache` | Are tokens alive for their caller, and mints shared? | 3 calls, 2 accounts, clock 0..4, lifetime 3, skew 1; 806,378 states |
| `key_store` | Is a provisioned key kept, and when is a later boot without one? | 3 keys, unbounded restarts |
| `attestation` | What do the two clients refuse and accept when the relay is restarted or redeployed under them, what is a verdict of relay-verify worth, whoever answers, do the two agree, and when does a prompt leave? | 3 processes, 2 builds, 1 foreign server, 5 command lines; 396,454 states |
| `bedrock` | Where does a Bedrock call go and under whose signature, what is Nova told, and what does the client hear? | 7 names, 129 mappings and a malformed one, 8 keys, 17 requests, 5 answers; 182,238 states; `FairSpec` |

Six runs are expected to fail. Each checks one sentence of the repository's own
documentation or comments that the code does not keep.

| Run | Sentence | What TLC shows |
|---|---|---|
| `relay_error_settle` | `docs/01-relay-core-architecture.md:250`: Settle is called on success or error | a stream that breaks after its usage frame is neither settled nor logged (`main.go:256`) |
| `relay_stream_total` | `dispatch.go:153-154`: the total is filled in from the split counts | `PeekUsage` fills one in per frame and the last one wins, so a messages stream settles with the output count as its total (`wire.go:254`) |
| `relay_gemini_stream` | `wire.go:175-177`: the counts of native Gemini answers, the final chunk of a stream included, are read, so that such calls are not billed free | the query is dropped (`main.go:233`), the stream comes as an array, no line of it decodes, and the call settles at 0 tokens |
| `relay_plain_http` | `main.go:5-6`, `dispatch.go:17-21`: an official upstream is dialled over strict TLS | the host names `http://` and an official Databricks workspace; only the host name is checked (`main.go:74-77`) |
| `attest_prompt` | `verify_enclave.py:150-153`: the key is read on this connection, so the prompt is only sent to the attested enclave | the key is read on a connection of its own; a restart before the prompt's connection puts another process at its end |
| `key_drop_env` | `server.go:213-216`: after the first boot the env can be dropped | a crash inside the sealing write leaves an empty file, which later boots take for sealed |

How far most of these sentences do hold is stated too. `ChargedIsServed` keeps what
was counted before a failure from being charged as if it had been served.
`BufferedAreSummed` is a theorem below: without a stream, split counts are settled
with their sum. `ChargedAtCost` (run `relay_calls`) has the Gemini stream settle at
0 exactly because it cannot be read: whatever can be read is charged in full.
`DialsOnlyOfficial` has https where the URL is the enclave's own, and the official
host name where it is not. `OnlyEmptyFileLosesKey` (run `key_store`): only a file
that was created and never filled leaves a later boot without a key.

Other divergences need no run of their own:

* `wire.go:62-63` speaks of a store keyed by channel, and `fileKeyStore.KeyFor`
  ignores its argument. `KeyFor` in `KeyStore` therefore has none.
* `wire.go:383-389` says that `EnsureStreamUsage` returns the body, with the option
  set or unchanged. A streaming chat body with `"stream_options": null` panics on
  a nil map instead (`wire.go:407`); net/http recovers and closes the connection.
  `PanicOnOptions` models it, and `HandlerResponds` says that this is the only
  request a handler leaves unanswered.
* `vertexoauth.go:55-57` says that no token is handed out that dies mid-flight. The
  clock is read before the wait for the mutex (line 237), so a caller that waited
  longer than the skew for somebody else's mint can be handed a token that is dead
  by then. `LiveWhenAsked` speaks of the clock reading the caller came with.
* With `-allow-unbound` the verdict of relay-verify still says "channel-binding"
  and "bound to this TLS channel" (`cmd/relay-verify/main.go:138-144`), although
  line 127 skips that check: a server that shows a copy of a genuine quote gets it
  too. `PassIsEarned` promises the binding without the option only.
* The Bedrock branch (`main.go:217-226`) does not look at the relay format,
  although `profiles.go:141-146` describes channel type 33 as OpenAI chat. A body
  without messages is refused by the conversion; a `/v1/messages` body is
  converted, without its `system` field, and answered in the OpenAI shape.
* Content parts that are not text are passed over without an error if a text
  remains (`aws_bedrock.go:163-166`). `TurnsAreKept` speaks of the text pieces.
* The select handler in `docs/integration` registers no settle endpoint; in the
  model that is an endpoint that never acknowledges.

### Bounds, and why they are enough

* Calls. Handlers share no state in the process. They meet only in the control
  plane's ledger, and there only through equal ids, so two calls show every
  interference; they share their id, because calls with different ids do not
  meet at all. The proofs lift the bound for all safety properties, and treat
  ids of any kind.
* Frames. Streams have at most two frames: one to set a field and one to leave,
  set or correct it, which is what the per-field merge can get wrong.
* Framings. Each API answers in the form it documents, as one object (spread over
  lines or compact), as events, or as an array. Requests range over both values of
  the body's stream flag on every endpoint, and for Gemini over the model's two
  places, so the handler's guess and the upstream's framing meet in every way.
* Base URLs. For one workspace all schemes and ports, for https all hosts: the
  host rules read the name alone, and the dial reads the scheme alone.
* Numbers. Token counts are small and distinct so that a mixed-up field shows.
  `MaxImageN` is 128 as in the code; `n` is taken at -1, 1, 128 and 129, and an
  answer may list 500 images. The model has no overflow: `n` is clamped before
  it is used, and token counts are summed at most twice. Upstreams are assumed
  to report counts that are not negative.
* `MaxAttempts` is the code's constant. At most three POSTs of a call are under
  way at once, so `wire` needs no bound.
* Vertex: `Lifetime = 3`, `Skew = 1` stand for 3600 and 60 seconds; only their
  order matters. Grants are longer than the skew, equal to it, and unreported.
  `MaxNow` bounds the clock, and is past the death of the longest token minted
  at the start. A behaviour ends when all calls have returned and the clock is
  at its bound, so deadlock is not checked there.
* Key store: three keys make the sealed key, the one in the environment and a
  third distinguishable.
* Attestation: three processes are one for the script's quote, one for the
  certificate of relay-verify's single connection, and a third that can come in
  between or whose quote can be copied; every property relates two connections, so
  no more are needed to tell them apart. Two builds are the pinned one and another.
  `attest_prompt`, which does without relay-verify, has a process for each of the
  script's four connections and a spare. One foreign key stands for all servers
  that are no process of the relay: there is one connection. Its extension is
  missing, short, copied, of another build, or forged with any content. The command
  lines are: no chain wanted, with and without the binding; one wanted with and
  without the concessions; one wanted from a binary that cannot verify it. When all
  have exited or both clients have ended the behaviour ends, so deadlock is not
  checked there.
* Bedrock: all partial mappings of three names among themselves and to the empty
  name show tails and cycles of every length up to three; four odd names (a
  suffix of another shape, no model before it, two suffixes, a slash) are one
  hop away. Of the keys two are issued, two are not (a secret and a missing
  token) and four do not parse. Requests differ in one respect at a time, except
  that every key meets a plain one: the checks of `prepareAWSBedrockRequest` are
  conjuncts that share no data. A call ends, so deadlock is not checked.
* Symmetry: calls that share an id, Vertex calls and accounts, and processes are
  interchangeable; only safety is checked under symmetry.

### Fairness

In `bedrock`, `MappingEnds` assumes that the mapping's loop keeps running: it is
local computation that waits for nobody. `relay_calls` assumes only what the
process does by itself: the 15 s timeout
of the control-plane client ends a pending select or settle
(`control_client.go:29`); between two attempts the handler takes its next step;
once the client has gone, the request context ends a pending read, `Do` or
write. There is no fairness of any answer, of the client or of a delivery. The
upstream client has no timeout (`dispatch.go:22`), so a call whose client stays
may wait for ever and no property says otherwise.

## Proofs

`tlapm` checks them from nothing. They hold for every set of calls, request
ids, request shapes, control-plane answers and upstream answers, under the named
assumptions of `RelayCore` (the constants have their types; an answer has a
positive status).

**Relay.** `TypeOK` is not inductive: an attempt count of three must not be
increased, a bill must exist before it is posted, and a buffered answer must
have a body to read. So types and safety are proved together as
`IInv == TypeOK /\ SafetyInv`, whose parts are

* `RelayInv`: before an answer nothing has been written; during a relay the
  client has the upstream's status line and a prefix of the frames; the relay's
  error object excludes both content and a success status;
* `BillInv`: a bill exists only after a complete relay and says what the client
  saw; a handler that settles has attempts left;
* `PostInv`: each message under way or charged carries the call's own id and
  the call's bill, which is frozen from then on. This is what makes a late POST
  harmless;
* `LedgerInv`: entries have distinct ids and billable statuses;
* `SettledInv`: an acknowledged or finished call is recorded, not billable, or
  logged. With shared ids the record may be another call's, so
  `ServedIsAccounted` speaks of the id; `OwnIdsAreCharged` adds that with
  distinct ids the record is the call's own.

One lemma states what a step may do that touches a single call (`StepInv`); each
action then has one case. From `IInv` follow `TypeCorrect`, `ChargesAreServed`,
`ChargesAreUnique`, `ErrorsStandAlone`, `ServedAreAccounted` and, assuming
distinct ids, `OwnIdsAreCharged`. `ImplementsBilling` maps `bill` to what is owed
and the ledger to accounts, and shows that a handler's step makes at most one call owe,
a receipt of a POST charges at most one, and everything else stutters.

**Token cache.** `Inv` adds to the types that a minting call holds the mutex and
began no earlier than it read the clock, that a minter could not have used the
entry it is about to replace, and that each entry expires at most when its token
is still alive by the skew. From it follow `TypeCorrect`, `TokensLiveWhenAsked`
and `MintsAreNeeded`, for any callers, keys, lifetimes and skew under
`GrantAssumption` (a token lives as long as reported; unreported, at least as
long as the assertion asked for) and `ClockAssumption` (skew below lifetime).

**Key store.** `Inv` adds that sealing starts from an absent file, that a
reported key is the file's content, and that after an attested boot which had a
key and warned of nothing the file exists. `TypeCorrect`, `ProvisionedStays` and
`OnlyEmptyFilesLoseKeys` follow: what is left of the promise that a later boot
needs no environment is lost only through a file that was created and never
filled.

**Attestation.** The properties are about whom the script has met, and the
script only compares keys. `Inv` bridges the two: `CertInv` says that a
certificate never changes once its process has started and that its quote names
its own process and build; `HeardInv` says at each step which connections have
met the process of the quote. `BindingTellsRestarts`, `BoundIsPinned` and
`PromptsFollowRepin` follow for any number of processes and builds, under
`NoneAssumption` (the null value is neither).

**Both clients.** `BothImplementScript` shows that relay-verify disturbs neither
the script nor the deployment, so `AttestationProofs` carries over. `BothInv` adds
that a certificate is never replaced while anybody holds it (`StartedInv`); that a
genuine quote of the pinned build is one of a process of the relay, whoever
presents it (`LeafInv`); how far relay-verify has come with the checks it was
asked for (`StageInv`); and that the script only ever drops a quote for a reason
(`RefusalInv`). `PassesAreEarned` joins the three checks: the chain makes the quote
genuine, the pin and `LeafInv` make it a process's, and the binding makes that
process the holder of the key presented. None of the three can be left out: the
states with a forged, a foreign and a copied quote are all reachable. It is for
any processes, builds, command lines and foreign servers, under
`ForeignAssumption` (a foreign key is nobody's in the relay) and two external
facts that are definitions: an enclave signs quotes only as `BuildCert` asks it
to, or of another build (`ForeignCerts`), and Intel's library accepts no signature
that no enclave has made (`VerifiesAs`). `ClientsNeverDiffer` follows from the same
invariant.

**Mapping and Bedrock.** `MappingInv` says that the walk has only met names of
the orbit of the name asked for, and that every name it has left leads to
another one it has met; hence a walk that ends stands on a fixed point, and one
that meets a name again has met the whole orbit without finding any
(`WalkMeansMapping`). The names may be infinite in number. With finitely many,
`WalkAdvances` shows that a turn which does not return leaves fewer to visit,
which is why the walk ends. `BedrockMaps` carries `WalkMeansMapping` into the
call. `CallInv` says that what is sent is `Prepared` of the input and the
resolved name; the rest is facts about `Prepared`: `RequestsAreAuthentic`,
`OnlyRegions`, `AnswersFit`, under assumptions on the shapes of names, regions and
keys (`NameAssumption`, `RegionAssumption`, `InputAssumption`), and with hashes taken as
injective. `TurnsReachNova` says that no message of the client is dropped, merged
or moved on its way to Nova. Its invariant is `LoopInv`: after `converted` turns of
the loop, `turns` and `system` hold the first `converted` messages, each at a
position, and the positions rise. The loop is part of the state for that reason,
since what a fold computes for every list needs induction over the list; and the
order is stated by positions, since what a filter selects would need it again.
`IsPrepared` carries the result into the request that is sent.

**Destinations and images.** `SpotInv` in `RelayCallProofs` says that a target is
one the tables vet for the request, fixed before it is used, and that an image
count is clamped wherever it is kept. `DialsAreVetted` and `ImagesAreBounded` follow for
every answer of the control plane and of the upstream. What is vetted is the host
name; https follows only where the URL stands in the table (`VettedIsSecure`),
since the scheme of a Databricks base URL is the host's (`relay_plain_http`).

**Cost.** `ChargesAreAtCost`: a call whose answer the handler can read is charged
what its upstream says it cost, any other nothing. That the upstream says so at
all is not the code's doing, so it is the theorem's one hypothesis: every answer
satisfies `StatesCost`. That operator is written for each API in the field names
and stream conventions of that API, without the code's own reading: `ChatCount` and
`TokenCount` are the two usage objects, `States` adds the Responses and Gemini
blocks, a Gemini count with its tool prompts and thoughts apart, `StatesInParts`
a message stream that spreads its counts over frames. Every relay instance
evaluates it on its answers (`CostAssumption`). That the code reads each of them
right is `StatedIsRead`. Which answers can be read is `Legible`, on the handler's
notion of a stream and the upstream's framing, which are independent: the theorem
covers illegible answers too, and says that they are billed 0 (`relay_gemini_stream`
shows one that should not be). The invariant, `CostInv`, says that during a relay
the handler has counted exactly the frames it has relayed (`Counted`: per field the
last count that is not zero), and that this is the upstream's whole answer because
the handler asked for its usage. `LastStep` and `LastUnique` carry the merge of a
frame; a bill is at cost from the step that makes it.

**Answers.** `HandlersRespond`: a handler that has returned has written a status
line, and none panics but over the null. `AnsweredInv` is inductive beside `IInv`:
settling comes after the status line too. `StatusStands` says that no step takes a
status line back.

**Totals.** `BufferedInv` says that a call without a stream is billed with the total
its body reports, or the sum of what it splits. From it follows
`BufferedAreSummed`, the half of a documented promise that holds for every answer;
the other half is what `relay_stream_total` refutes. There is no such half of
`CountedIsSettled`: a write can fail after the count with or without a stream
(`dispatch.go:120`, `aws_bedrock.go:361`).

**Termination.** `HandlersAdvance` gives a call a variant, in lexicographic order: no
handler goes back in its stages (`Stage`), and each step ends a stage or takes at
least one off what is left in it (`Left`): the frames of a stream, or the steps of
the three settlement attempts. Nobody else moves the call, short of ending its process.

Only model-checked are the liveness properties `GoneEnds`, `SettlingEnds`
and `MappingEnds`: fairness and ENABLED are out of the prover's
reach. The variants under them are proved (`HandlersAdvance`, `WalkAdvances`); what TLC
adds is that the steps which fairness speaks of are possible and suffice. Every
invariant and every action property that a passing run checks is stated by a theorem.

## What is not modelled

* Bytes: JSON, SSE framing, X.509, quotes and JWTs; the layout of a canonical
  request, and `canonicalQueryString`, since no caller signs a query. Hashes and
  HMACs are injective.
* What AWS does with a path that is not a plain one is external:
  `SentIsAuthentic` assumes that it encodes the path once more as it arrived,
  which is what `sigv4.go:145-149` names as out of the signer's scope.
* Latency and log wording; redirects, which net/http follows for the upstream
  client; a client that is connected but never reads (the write is one step).
* Ports, userinfo and paths that a host puts into a Databricks base URL, beyond
  their presence: the code dials them as they are (`main.go:77`).
* The `tool_calls` of an assistant message, which `openAIToNovaMessage` does not read
  (`aws_bedrock.go:69-72`), are dropped. A message of nothing else goes out as an empty
  turn if its content is null, and stops the call if it has no content.
  `TurnsAreKept` speaks of texts.
* Of the key file: a write that stops half way (a truncated key is a key), an error
  of close, and a file of nothing but white space, which `KeyFor` treats like an
  empty one.
* The 24 h of the certificate (`raenclave.go:86`): neither client of the
  repository reads `NotAfter`, so it changes no behaviour of this code.
* The collateral's expiry status (`dcap_cgo.go:66`), which is received and
  dropped, and the DCAP library itself, which may return anything.
* The JWT that a mint assembles and signs: nothing about it is stateful.
* The demo's static control plane and `demo/`: each answers from constants.
* `scripts/repro_verify.sh` and the build: the outcome is a comparison of two
  hashes from a build that is outside of any model; `enclave_no_leak_check.sh`
  is a search through the source.
* The durability of the key file beyond a process: no power loss or fsync.
* How the host prices a settlement, and its select handler
  (`docs/integration/relaycore_control.go.txt`), which calls into a database that is
  not in the repository. `RelayCore` lets it answer anything.
* A call lost in a crash is not charged and not logged; the code promises
  nothing about it and no property does. A mint without an answer holds the
  mutex of the token cache for ever: the HTTP client and its timeout are the
  caller's, and the repository has no caller.

## Plan

Written, in the order of importance: the relay with its tables and scalars, its
billing promise and proofs, the token cache, the key store, attestation by both
clients, the model mapping and the Bedrock call. What is left, in order:

1. Power loss in `KeyStore`, should the code come to fsync the key file.
2. The host's select handler, should its model layer join the repository.
3. `ReproVerify`: which comparisons the verdict of `repro_verify.sh` rests on.
