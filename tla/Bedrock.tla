------------------------------ MODULE Bedrock ------------------------------
(***************************************************************************)
(* One chat call over an AWS Bedrock channel, from the model name the      *)
(* client asks for to the answer it gets: the host follows the channel's   *)
(* mapping (ModelMapping), the enclave picks the region, converts the      *)
(* request (Nova), signs it (SigV4) and converts the answer back           *)
(* (cmd/relay-core/aws_bedrock.go, forwardAWSBedrock).                     *)
(*                                                                         *)
(* A model name is the sequence of its parts between '@' characters.       *)
(***************************************************************************)
EXTENDS ModelMapping, Nova, SigV4, OfficialUrls, SequencesExt

CONSTANTS
  Region,    \* strings of the shape of an AWS region
  Reserved,  \* name parts with a byte that url.PathEscape encodes
  Input,     \* calls: [key, chat], the key in fields between '|' characters
  Reply,     \* answers of a Bedrock endpoint to a request it takes
  Nothing    \* no request, no answer

Service == "bedrock"

Today == "now"

\* A field of a key, or a part of a name, without a character.
NoPart == ""

ASSUME NameAssumption == Name \subseteq Seq(STRING) \ {<<>>} /\ Blank = <<NoPart>>
ASSUME RegionAssumption == Region \subseteq STRING \ {NoPart}
ASSUME InputAssumption ==
  \A i \in Input : i.key \in Seq(STRING) /\ i.chat.messages \in Seq(Message)

VARIABLES
  pc,      \* "select", "prepare", "convert", "sent", or how the call ended
  name,    \* upstreamModel
  input,   \* the request body and the channel's key
  sent,    \* what goes out to AWS
  answer,  \* what AWS answered with
  output,  \* what the client gets in the end, with the usage that is settled
  status   \* the upstream status forwardAWSBedrock returns

callVars == <<pc, name, input, sent, answer, output, status>>

vars == <<mappingVars, novaVars, callVars>>

Init ==
  /\ MappingInit
  /\ NovaInit
  /\ pc = "select"
  /\ name = Blank
  /\ input \in Input
  /\ sent = Nothing /\ answer = Nothing /\ output = Nothing
  /\ status = 0

-----------------------------------------------------------------------------
(* Names, credentials and regions *)

\* Mutant: whatever follows the last '@' is a region.
IsPinnedAnywhere(n) == Len(n) > 1 /\ Front(n) # Blank

\* SplitModelRegion: at the last '@', if a name is left before it.
IsPinned(n) == Len(n) > 1 /\ Front(n) # Blank /\ Last(n) \in Region

CleanModel(n) == IF IsPinned(n) THEN Front(n) ELSE n

\* parseAWSBedrockCredentials, on fields that are already trimmed.
IsCredential(key) ==
  /\ Len(key) \in {3, 4}
  /\ \A i \in DOMAIN key : key[i] # NoPart
  /\ key[3] \in Region

Credentials(key) ==
  [access |-> key[1], secret |-> key[2], region |-> key[3],
   token  |-> IF Len(key) = 4 THEN key[4] ELSE Absent]

RegionOf(key, n) == IF IsPinned(n) THEN Last(n) ELSE Credentials(key).region

\* The host "bedrock-runtime.<region>.amazonaws.com" is named by its region.
RuntimeHost == [zone |-> "amazonaws.com", joint |-> "bedrock-runtime"]

\* url.PathEscape changes a name only if a part has such a byte; '@' is none.
NeedsEscape(n) == \E i \in DOMAIN n : n[i] \in Reserved

EscapedPath(n) == Path(n, IF NeedsEscape(n) THEN 1 ELSE 0)

Unsigned(n, region, body) ==
  [host |-> region, path |-> EscapedPath(n), body |-> body,
   headers |-> [h \in {"content-type", "accept", "x-amz-date", "x-amz-security-token"} |->
                  IF h \in {"content-type", "accept"} THEN "application/json" ELSE Absent]]

\* Mutant: the signature keeps the region of the credential.
PreparedInOwnRegion(key, n, body) ==
  SignSigV4(Unsigned(CleanModel(n), RegionOf(key, n), body),
            Credentials(key), Credentials(key).region, Service, Today)

Prepared(key, n, body) ==
  SignSigV4(Unsigned(CleanModel(n), RegionOf(key, n), body),
            Credentials(key), RegionOf(key, n), Service, Today)

-----------------------------------------------------------------------------
(* The host *)

\* The loop of ResolveModelMapping, on behalf of the select endpoint.
HostMaps ==
  /\ pc = "select"
  /\ ResolveModelMapping
  /\ UNCHANGED <<novaVars, callVars>>

\* Before the mapping came, a control plane left upstream_model_name empty.
HostSelects ==
  /\ pc = "select"
  /\ outcome = "resolved"
  /\ name' \in {current, asked}
  /\ pc' = "prepare"
  /\ UNCHANGED <<mappingVars, novaVars, input, sent, answer, output, status>>

HostRefuses ==
  /\ pc = "select"
  /\ outcome \in {"cycle", "invalid"}
  /\ pc' = "refused"
  /\ UNCHANGED <<mappingVars, novaVars, name, input, sent, answer, output, status>>

-----------------------------------------------------------------------------
(* The enclave *)

\* A stream, a malformed key or a request out of range; nothing leaves.
CannotPrepare ==
  /\ pc = "prepare"
  /\ input.chat.stream \/ ~IsCredential(input.key) \/ ~IsConvertible(input.chat)
  /\ pc' = "failed"
  /\ UNCHANGED <<mappingVars, novaVars, name, input, sent, answer, output, status>>

ParseAWSBedrockCredentials ==
  /\ pc = "prepare"
  /\ ~input.chat.stream /\ IsCredential(input.key) /\ IsConvertible(input.chat)
  /\ pc' = "convert"
  /\ UNCHANGED <<mappingVars, novaVars, name, input, sent, answer, output, status>>

\* The loop of convertOpenAIRequestToNova.
EnclaveConverts ==
  /\ pc = "convert"
  /\ ConvertMessage(input.chat.messages)
  /\ UNCHANGED <<mappingVars, callVars>>

\* A message, or the request as a whole, is nothing for Nova; nothing leaves.
CannotSend ==
  /\ pc = "convert"
  /\ \/ CannotConvert(input.chat.messages)
     \/ /\ converted = Len(input.chat.messages)
        /\ ~IsConverted(input.chat) \/ ~IsOfficialHostSuffix(33, RuntimeHost)
  /\ pc' = "failed"
  /\ UNCHANGED <<mappingVars, novaVars, name, input, sent, answer, output, status>>

PrepareAWSBedrockRequest ==
  /\ pc = "convert"
  /\ IsConverted(input.chat) /\ IsOfficialHostSuffix(33, RuntimeHost)
  /\ sent' = Prepared(input.key, name, ConvertOpenAIRequestToNova(input.chat))
  /\ pc' = "sent"
  /\ UNCHANGED <<mappingVars, novaVars, name, input, answer, output, status>>

\* The dial or the read of the body fails.
BedrockUnreachable ==
  /\ pc = "sent"
  /\ pc' = "failed"
  /\ UNCHANGED <<mappingVars, novaVars, name, input, sent, answer, output, status>>

\* AWS refuses the signature, or takes it and answers with an error; the body
\* is not passed on.
BedrockRefuses ==
  /\ pc = "sent"
  /\ status' \in IF AWSAccepts(sent, sent.host, Service) THEN {429} ELSE {403}
  /\ pc' = "rejected"
  /\ UNCHANGED <<mappingVars, novaVars, name, input, sent, answer, output>>

\* Mutant: the client is told the name it is routed by.
RespondedModelAsRouted(n) == n

RespondedModel(n) == CleanModel(n)

ASSUME NothingAssumption ==
  \A a \in Reply, n \in Name : ConvertNovaResponseToOpenAI(a, RespondedModel(n)) # Nothing

\* Mutant: the error of the conversion is dropped.
BedrockAnswersAnyway ==
  /\ pc = "sent"
  /\ AWSAccepts(sent, sent.host, Service)
  /\ status' = 200
  /\ answer' \in Reply
  /\ output' = IF answer'.decodes
               THEN ConvertNovaResponseToOpenAI(answer', RespondedModel(name))
               ELSE output
  /\ pc' = "answered"
  /\ UNCHANGED <<mappingVars, novaVars, name, input, sent>>

BedrockAnswers ==
  /\ pc = "sent"
  /\ AWSAccepts(sent, sent.host, Service)
  /\ status' = 200
  /\ answer' \in Reply
  /\ IF answer'.decodes
     THEN /\ output' = ConvertNovaResponseToOpenAI(answer', RespondedModel(name))
          /\ pc' = "answered"
     ELSE output' = output /\ pc' = "failed"
  /\ UNCHANGED <<mappingVars, novaVars, name, input, sent>>

Next ==
  \/ HostMaps \/ HostSelects \/ HostRefuses
  \/ CannotPrepare \/ ParseAWSBedrockCredentials
  \/ EnclaveConverts \/ CannotSend \/ PrepareAWSBedrockRequest
  \/ BedrockUnreachable \/ BedrockRefuses \/ BedrockAnswers

Spec == Init /\ [][Next]_vars

\* The loop of ResolveModelMapping runs without waiting for anybody.
FairSpec == Spec /\ WF_vars(HostMaps)

-----------------------------------------------------------------------------
(* Properties *)

\* Every variable has its type, and what has been sent or answered fits pc.
TypeOK ==
  /\ MappingTypeOK
  /\ pc \in {"select", "refused", "prepare", "convert", "failed", "sent", "rejected",
             "answered"}
  /\ name \in Name \cup {Blank}
  /\ input \in Input
  /\ converted \in 0 .. Len(input.chat.messages)
  /\ pc \in {"select", "refused", "prepare", "convert"} => sent = Nothing
  /\ pc \in {"sent", "rejected", "answered"} =>
       sent = Prepared(input.key, name, ConvertOpenAIRequestToNova(input.chat))
  /\ pc = "answered" => answer \in Reply /\ output # Nothing
  /\ status \in {0, 200, 403, 429}

\* The walk of a mapping ends, however its names lead into each other.
MappingEnds == <>(outcome # "walking")

\* The region that the request is sent to is the one it is signed for, be it
\* named by the model or by the key, and the endpoint there can recompute the
\* signature: it takes the request if, and only if, the key is one that AWS
\* has issued and the model name arrives as it was signed, unescaped.
SentIsAuthentic ==
  sent # Nothing =>
    (AWSAccepts(sent, sent.host, Service) <=>
       /\ \E k \in Issued : /\ k.access = Credentials(input.key).access
                            /\ k.secret = Credentials(input.key).secret
                            /\ k.token = Credentials(input.key).token
       /\ ~NeedsEscape(CleanModel(name)))

\* Only a region moves a call: a suffix of another shape stays part of the
\* model name, and an endless mapping or an empty key sends nothing at all.
OnlyRegionsAreDialled ==
  sent # Nothing =>
    /\ outcome = "resolved" /\ name \in {asked, current}
    /\ sent.host \in {Last(name), input.key[3]} \cap Region
    /\ \/ sent.path.id = name /\ sent.host = input.key[3]
       \/ sent.path.id \o <<sent.host>> = name
    /\ sent.path.id # Blank

\* The ways to pick k of the first n positions in their order.
Rising(k, n) ==
  {at \in [1 .. k -> 1 .. n] : \A i, j \in 1 .. k : i < j => at[i] < at[j]}

\* The first n messages said, each of them once and in order, under its role.
KeepsTurns(said, n, messages, blocks) ==
  \E t \in Rising(Len(messages), n), b \in Rising(Len(blocks), n) :
    /\ \A p \in 1 .. n : \/ \E i \in 1 .. Len(messages) : p = t[i]
                       \/ \E i \in 1 .. Len(blocks) : p = b[i]
    /\ \A i \in 1 .. Len(messages) :
         /\ said[t[i]].role \in Turn
         /\ messages[i] = [role |-> said[t[i]].role, text |-> Pieces(said[t[i]].content)]
    /\ \A i \in 1 .. Len(blocks) :
         /\ said[b[i]].role \in Instruction
         /\ blocks[i] = Pieces(said[b[i]].content)

\* Every message of the client reaches Nova once, in order and under a role
\* Nova knows, or nothing does; limits go along within their range.
TurnsAreKept ==
  sent # Nothing =>
    LET said == input.chat.messages
    IN  /\ KeepsTurns(said, Len(said), sent.body.messages, sent.body.system)
        /\ sent.body.messages # <<>>
        /\ sent.body.maxTokens \subseteq 0 .. MaxTokensLimit
        /\ sent.body.maxTokens = input.chat.maxTokens

\* The client is answered in the name of the model that was called, and what
\* is settled for the answer is what Nova counted.
AnswerFitsCall ==
  output # Nothing =>
    /\ pc = "answered" /\ status = 200
    /\ output.model = sent.path.id
    /\ output.usage.prompt = answer.usage.input
    /\ output.usage.completion = answer.usage.output
    /\ \/ output.usage.total = output.usage.prompt + output.usage.completion
       \/ output.usage.total = answer.usage.total
    /\ (output.finish = "length") = (answer.reason \in {"max_tokens", "maxTokens"})
=============================================================================
