--------------------------- MODULE BedrockProofs ---------------------------
(***************************************************************************)
(* Proofs about Bedrock, for any names, mappings, regions, keys, requests  *)
(* and answers.  What a call sends is a function of its input and of the   *)
(* name the host has resolved, so the properties of the request are those  *)
(* of Prepared.                                                            *)
(***************************************************************************)
EXTENDS Bedrock, ModelMappingProofs, SequenceTheorems

\* A step of the call is a turn of the mapping's loop or leaves it alone.
THEOREM BedrockMaps == Spec => MappingSpec
<1>1. Init => MappingInit
  BY DEF Init
<1>2. [Next]_vars => [ResolveModelMapping]_mappingVars
  BY DEF Next, vars, HostMaps, HostSelects, HostRefuses, CannotPrepare,
         ParseAWSBedrockCredentials, EnclaveConverts, CannotSend, PrepareAWSBedrockRequest,
         BedrockUnreachable, BedrockRefuses, BedrockAnswers
<1>. QED BY <1>1, <1>2, PTL DEF Spec, MappingSpec

\* What the loop of the conversion has put together so far.
LoopInv ==
  /\ converted \in 0 .. Len(input.chat.messages)
  /\ turns \in Seq({[role |-> m.role, text |-> Pieces(m.content)] : m \in Message})
  /\ system \in Seq({Pieces(m.content) : m \in Message})
  /\ KeepsTurns(input.chat.messages, converted, turns, system)

\* The request that is prepared, or has been, from a whole conversation.
IsPrepared ==
  /\ sent = Prepared(input.key, name, ConvertOpenAIRequestToNova(input.chat))
  /\ IsCredential(input.key)
  /\ IsConvertible(input.chat)
  /\ IsConverted(input.chat)

\* What each stage of a call rests on.
CallInv ==
  /\ pc \in {"select", "refused", "prepare", "convert", "failed", "sent", "rejected", "answered"}
  /\ input \in Input
  /\ name \in Name \cup {Blank}
  /\ LoopInv
  /\ pc \notin {"select", "refused"} => outcome = "resolved" /\ name \in {asked, current}
  /\ pc = "convert" => IsCredential(input.key) /\ IsConvertible(input.chat)
  /\ pc \in {"select", "refused", "prepare", "convert"} => sent = Nothing
  /\ sent # Nothing => IsPrepared
  /\ pc \in {"sent", "rejected", "answered"} => IsPrepared
  /\ pc # "answered" => output = Nothing
  /\ pc = "answered" =>
       /\ answer \in Reply /\ status = 200
       /\ output = ConvertNovaResponseToOpenAI(answer, RespondedModel(name))
  /\ status \in {0, 200, 403, 429}

-----------------------------------------------------------------------------
(* The loop of the conversion *)

\* Positions that rise among the first n rise among the first n + 1, on their
\* own and with n + 1 after them.
LEMMA RisingOn ==
  ASSUME NEW k \in Nat, NEW n \in Nat, NEW at \in Rising(k, n)
  PROVE  /\ at \in Rising(k, n + 1)
         /\ [i \in 1 .. k + 1 |-> IF i = k + 1 THEN n + 1 ELSE at[i]] \in Rising(k + 1, n + 1)
<1>1. /\ at \in [1 .. k -> 1 .. n]
      /\ \A i, j \in 1 .. k : i < j => at[i] < at[j]
  BY DEF Rising
<1>2. at \in [1 .. k -> 1 .. n + 1]
  BY <1>1
<1>3. \A i \in 1 .. k + 1 : i = k + 1 \/ i \in 1 .. k
  OBVIOUS
<1> DEFINE on == [i \in 1 .. k + 1 |-> IF i = k + 1 THEN n + 1 ELSE at[i]]
<1>4. on \in [1 .. k + 1 -> 1 .. n + 1]
  BY <1>1, <1>3
<1>5. ASSUME NEW i \in 1 .. k + 1, NEW j \in 1 .. k + 1, i < j
      PROVE  on[i] < on[j]
  BY <1>1, <1>3, <1>5
<1>. QED BY <1>1, <1>2, <1>4, <1>5 DEF Rising

\* One more turn keeps what has been said.
LEMMA TurnKept ==
  ASSUME NEW S, NEW T, NEW said, NEW n \in Nat, NEW messages \in Seq(S), NEW blocks \in Seq(T),
         KeepsTurns(said, n, messages, blocks), said[n + 1].role \in Turn,
         NEW new \in S, new = [role |-> said[n + 1].role, text |-> Pieces(said[n + 1].content)]
  PROVE  KeepsTurns(said, n + 1, Append(messages, new), blocks)
<1>1. PICK t \in Rising(Len(messages), n), b \in Rising(Len(blocks), n) :
        /\ \A p \in 1 .. n : \/ \E i \in 1 .. Len(messages) : p = t[i]
                           \/ \E i \in 1 .. Len(blocks) : p = b[i]
        /\ \A i \in 1 .. Len(messages) :
             /\ said[t[i]].role \in Turn
             /\ messages[i] = [role |-> said[t[i]].role, text |-> Pieces(said[t[i]].content)]
        /\ \A i \in 1 .. Len(blocks) :
             /\ said[b[i]].role \in Instruction
             /\ blocks[i] = Pieces(said[b[i]].content)
  BY DEF KeepsTurns
<1> DEFINE k == Len(messages)
           on == [i \in 1 .. k + 1 |-> IF i = k + 1 THEN n + 1 ELSE t[i]]
           longer == Append(messages, new)
<1>0. k \in Nat /\ Len(blocks) \in Nat
  OBVIOUS
<1>2. on \in Rising(k + 1, n + 1) /\ b \in Rising(Len(blocks), n + 1)
  BY <1>0, <1>1, RisingOn
<1>3. /\ k \in Nat /\ Len(longer) = k + 1 /\ longer[k + 1] = new
      /\ \A i \in 1 .. k : longer[i] = messages[i]
  OBVIOUS
<1>4. /\ on[k + 1] = n + 1
      /\ \A i \in 1 .. k : on[i] = t[i]
      /\ \A i \in 1 .. k + 1 : i = k + 1 \/ i \in 1 .. k
  BY <1>3
<1>5. ASSUME NEW p \in 1 .. n + 1
      PROVE  \/ \E i \in 1 .. k + 1 : p = on[i]
             \/ \E i \in 1 .. Len(blocks) : p = b[i]
  <2>1. CASE p = n + 1
    BY <1>3, <1>4, <2>1
  <2>2. CASE \E i \in 1 .. k : p = t[i]
    BY <1>3, <1>4, <2>2
  <2>3. p = n + 1 \/ p \in 1 .. n
    OBVIOUS
  <2>. QED BY <1>1, <2>1, <2>2, <2>3
<1>6. ASSUME NEW i \in 1 .. k + 1
      PROVE  /\ said[on[i]].role \in Turn
             /\ longer[i] = [role |-> said[on[i]].role, text |-> Pieces(said[on[i]].content)]
  BY <1>1, <1>3, <1>4
<1>7. Len(longer) = k + 1
  BY <1>3
<1>. HIDE DEF on, longer, k
<1>. SUFFICES \E at \in Rising(Len(longer), n + 1), bt \in Rising(Len(blocks), n + 1) :
       /\ \A p \in 1 .. n + 1 : \/ \E i \in 1 .. Len(longer) : p = at[i]
                              \/ \E i \in 1 .. Len(blocks) : p = bt[i]
       /\ \A i \in 1 .. Len(longer) :
            /\ said[at[i]].role \in Turn
            /\ longer[i] = [role |-> said[at[i]].role, text |-> Pieces(said[at[i]].content)]
       /\ \A i \in 1 .. Len(blocks) :
            /\ said[bt[i]].role \in Instruction
            /\ blocks[i] = Pieces(said[bt[i]].content)
  BY DEF KeepsTurns, longer
<1>8. on \in Rising(Len(longer), n + 1)
  BY <1>2, <1>7
<1>. USE <1>2, <1>8
<1>. WITNESS on \in Rising(Len(longer), n + 1), b \in Rising(Len(blocks), n + 1)
<1>. QED BY <1>1, <1>5, <1>6, <1>7

\* One more system block keeps what has been said.
LEMMA BlockKept ==
  ASSUME NEW S, NEW T, NEW said, NEW n \in Nat, NEW messages \in Seq(S), NEW blocks \in Seq(T),
         KeepsTurns(said, n, messages, blocks), said[n + 1].role \in Instruction,
         NEW new \in T, new = Pieces(said[n + 1].content)
  PROVE  KeepsTurns(said, n + 1, messages, Append(blocks, new))
<1>1. PICK t \in Rising(Len(messages), n), b \in Rising(Len(blocks), n) :
        /\ \A p \in 1 .. n : \/ \E i \in 1 .. Len(messages) : p = t[i]
                           \/ \E i \in 1 .. Len(blocks) : p = b[i]
        /\ \A i \in 1 .. Len(messages) :
             /\ said[t[i]].role \in Turn
             /\ messages[i] = [role |-> said[t[i]].role, text |-> Pieces(said[t[i]].content)]
        /\ \A i \in 1 .. Len(blocks) :
             /\ said[b[i]].role \in Instruction
             /\ blocks[i] = Pieces(said[b[i]].content)
  BY DEF KeepsTurns
<1> DEFINE k == Len(blocks)
           on == [i \in 1 .. k + 1 |-> IF i = k + 1 THEN n + 1 ELSE b[i]]
           longer == Append(blocks, new)
<1>0. k \in Nat /\ Len(messages) \in Nat
  OBVIOUS
<1>2. on \in Rising(k + 1, n + 1) /\ t \in Rising(Len(messages), n + 1)
  BY <1>0, <1>1, RisingOn
<1>3. /\ k \in Nat /\ Len(longer) = k + 1 /\ longer[k + 1] = new
      /\ \A i \in 1 .. k : longer[i] = blocks[i]
  OBVIOUS
<1>4. /\ on[k + 1] = n + 1
      /\ \A i \in 1 .. k : on[i] = b[i]
      /\ \A i \in 1 .. k + 1 : i = k + 1 \/ i \in 1 .. k
  BY <1>3
<1>5. ASSUME NEW p \in 1 .. n + 1
      PROVE  \/ \E i \in 1 .. Len(messages) : p = t[i]
             \/ \E i \in 1 .. k + 1 : p = on[i]
  <2>1. CASE p = n + 1
    BY <1>3, <1>4, <2>1
  <2>2. CASE \E i \in 1 .. k : p = b[i]
    BY <1>3, <1>4, <2>2
  <2>3. p = n + 1 \/ p \in 1 .. n
    OBVIOUS
  <2>. QED BY <1>1, <2>1, <2>2, <2>3
<1>6. ASSUME NEW i \in 1 .. k + 1
      PROVE  /\ said[on[i]].role \in Instruction
             /\ longer[i] = Pieces(said[on[i]].content)
  BY <1>1, <1>3, <1>4
<1>7. Len(longer) = k + 1
  BY <1>3
<1>. HIDE DEF on, longer, k
<1>. SUFFICES \E tt \in Rising(Len(messages), n + 1), at \in Rising(Len(longer), n + 1) :
       /\ \A p \in 1 .. n + 1 : \/ \E i \in 1 .. Len(messages) : p = tt[i]
                              \/ \E i \in 1 .. Len(longer) : p = at[i]
       /\ \A i \in 1 .. Len(messages) :
            /\ said[tt[i]].role \in Turn
            /\ messages[i] = [role |-> said[tt[i]].role, text |-> Pieces(said[tt[i]].content)]
       /\ \A i \in 1 .. Len(longer) :
            /\ said[at[i]].role \in Instruction
            /\ longer[i] = Pieces(said[at[i]].content)
  BY DEF KeepsTurns, longer
<1>8. on \in Rising(Len(longer), n + 1)
  BY <1>2, <1>7
<1>. USE <1>2, <1>8
<1>. WITNESS t \in Rising(Len(messages), n + 1), on \in Rising(Len(longer), n + 1)
<1>. QED BY <1>1, <1>5, <1>6, <1>7

\* A turn of the loop keeps what it is about: no message is left out, doubled
\* or moved, and none is passed on under a role Nova does not know.
LEMMA LoopStep ==
  ASSUME LoopInv, input \in Input, ConvertMessage(input.chat.messages), UNCHANGED input
  PROVE  LoopInv'
<1> DEFINE said == input.chat.messages
           m == said[converted + 1]
<1>1. said \in Seq(Message)
  BY InputAssumption
<1>2. /\ converted \in Nat /\ converted + 1 \in 1 .. Len(said)
      /\ converted' = converted + 1
  BY <1>1 DEF LoopInv, ConvertMessage
<1>3. m \in Message
  BY <1>1, <1>2
<1>4. converted' \in 0 .. Len(said)
  BY <1>2
<1>5. CASE m.role \in Instruction /\ system' = Append(system, Pieces(m.content)) /\ turns' = turns
  <2>1. Pieces(m.content) \in {Pieces(x.content) : x \in Message}
    BY <1>3
  <2>2. system' \in Seq({Pieces(x.content) : x \in Message})
    BY <1>5, <2>1 DEF LoopInv
  <2>3. KeepsTurns(said, converted + 1, turns, Append(system, Pieces(m.content)))
    BY <1>2, <1>5, <2>1, BlockKept DEF LoopInv
  <2>. QED BY <1>2, <1>4, <1>5, <2>2, <2>3 DEF LoopInv
<1>6. CASE /\ m.role \in Turn /\ system' = system
           /\ turns' = Append(turns, [role |-> m.role, text |-> Pieces(m.content)])
  <2> DEFINE new == [role |-> m.role, text |-> Pieces(m.content)]
             S == {[role |-> x.role, text |-> Pieces(x.content)] : x \in Message}
             T == {Pieces(x.content) : x \in Message}
  <2>1. turns \in Seq(S) /\ system \in Seq(T) /\ new \in S
    BY <1>3 DEF LoopInv
  <2>2. turns' \in Seq(S)
    <3>. HIDE DEF S
    <3>. QED BY <1>6, <2>1
  <2>3. KeepsTurns(said, converted + 1, Append(turns, new), system)
    <3>1. new = [role |-> m.role, text |-> Pieces(m.content)] /\ m.role \in Turn
      BY <1>6
    <3>2. KeepsTurns(said, converted, turns, system)
      BY DEF LoopInv
    <3>. HIDE DEF S, T, new, said
    <3>. QED BY <1>2, <2>1, <3>1, <3>2, TurnKept
  <2>. QED BY <1>2, <1>4, <1>6, <2>2, <2>3 DEF LoopInv
<1>. QED BY <1>5, <1>6 DEF ConvertMessage, AddMessage

-----------------------------------------------------------------------------
(* The invariant *)

\* The invariant holds initially.
LEMMA CallInvInit == Init => CallInv
<1>. SUFFICES ASSUME Init
              PROVE  CallInv
  OBVIOUS
<1>1. input.chat.messages \in Seq(Message)
  BY InputAssumption DEF Init
<1>2. KeepsTurns(input.chat.messages, 0, <<>>, <<>>)
  <2>1. \E at : at \in Rising(0, 0)
    <3>1. [i \in 1 .. 0 |-> i] \in Rising(0, 0)
      BY DEF Rising
    <3>. QED BY <3>1
  <2>. QED BY <2>1 DEF KeepsTurns
<1>3. LoopInv
  BY <1>1, <1>2 DEF Init, NovaInit, LoopInv
<1>. QED BY <1>3 DEF Init, CallInv

\* A step that leaves the loop and the input alone leaves its invariant alone.
LEMMA LoopKept ==
  ASSUME LoopInv, UNCHANGED <<novaVars, input>>
  PROVE  LoopInv'
BY DEF LoopInv, novaVars

\* A call that has been prepared stays so.
LEMMA PreparedKept ==
  ASSUME IsPrepared, UNCHANGED <<novaVars, input, sent, name>>
  PROVE  IsPrepared'
<1>1. ConvertOpenAIRequestToNova(input.chat)' = ConvertOpenAIRequestToNova(input.chat)
  BY DEF novaVars, ConvertOpenAIRequestToNova
<1>2. IsConverted(input.chat)' = IsConverted(input.chat)
  BY DEF novaVars, IsConverted
<1>. QED BY <1>1, <1>2 DEF IsPrepared

\* Every step keeps the invariant.
LEMMA StepKeeps ==
  ASSUME MappingInv, CallInv, Next
  PROVE  CallInv'
<1>1. CASE HostMaps
  BY <1>1, LoopKept DEF HostMaps, callVars, CallInv
<1>2. CASE HostSelects
  <2>1. name' \in Name
    BY <1>2 DEF HostSelects, MappingInv, MappingTypeOK
  <2>. QED BY <1>2, <2>1, LoopKept DEF HostSelects, mappingVars, CallInv
<1>3. CASE HostRefuses
  BY <1>3, LoopKept DEF HostRefuses, mappingVars, CallInv
<1>4. CASE CannotPrepare
  BY <1>4, LoopKept DEF CannotPrepare, mappingVars, CallInv
<1>5. CASE ParseAWSBedrockCredentials
  BY <1>5, LoopKept DEF ParseAWSBedrockCredentials, mappingVars, CallInv
<1>6. CASE EnclaveConverts
  BY <1>6, LoopStep DEF EnclaveConverts, mappingVars, callVars, CallInv
<1>7. CASE CannotSend
  BY <1>7, LoopKept DEF CannotSend, mappingVars, CallInv
<1>8. CASE PrepareAWSBedrockRequest
  <2>1. IsPrepared'
    <3>1. UNCHANGED <<novaVars, input, name>>
      BY <1>8 DEF PrepareAWSBedrockRequest
    <3>2. ConvertOpenAIRequestToNova(input.chat)' = ConvertOpenAIRequestToNova(input.chat)
      BY <3>1 DEF novaVars, ConvertOpenAIRequestToNova
    <3>3. IsConverted(input.chat)' = IsConverted(input.chat)
      BY <3>1 DEF novaVars, IsConverted
    <3>. QED BY <1>8, <3>1, <3>2, <3>3 DEF PrepareAWSBedrockRequest, CallInv, IsPrepared
  <2>. QED BY <1>8, <2>1, LoopKept DEF PrepareAWSBedrockRequest, mappingVars, CallInv
<1>9. CASE BedrockUnreachable
  BY <1>9, LoopKept, PreparedKept DEF BedrockUnreachable, mappingVars, CallInv
<1>10. CASE BedrockRefuses
  BY <1>10, LoopKept, PreparedKept DEF BedrockRefuses, mappingVars, CallInv
<1>11. CASE BedrockAnswers
  BY <1>11, LoopKept, PreparedKept DEF BedrockAnswers, mappingVars, CallInv
<1>. QED BY <1>1, <1>2, <1>3, <1>4, <1>5, <1>6, <1>7, <1>8, <1>9, <1>10, <1>11 DEF Next

\* Every reachable state satisfies both invariants.
THEOREM CallInvariance == Spec => [](MappingInv /\ CallInv)
<1>1. MappingInv /\ CallInv /\ [Next]_vars => CallInv'
  <2>1. ASSUME CallInv, UNCHANGED vars
        PROVE  CallInv'
    BY <2>1, LoopKept, PreparedKept DEF vars, mappingVars, callVars, CallInv
  <2>. QED BY <2>1, StepKeeps
<1>2. Spec => []MappingInv
  BY BedrockMaps, MappingInvariance, PTL
<1>. QED BY <1>1, <1>2, CallInvInit, PTL DEF Spec

-----------------------------------------------------------------------------
(* The request *)

\* The endpoint takes a prepared request exactly if it has issued its key and
\* the path arrives as it was signed.
LEMMA PreparedIsAuthentic ==
  ASSUME NEW key, NEW n, NEW body
  PROVE  LET r == Prepared(key, n, body)
             c == Credentials(key)
         IN  AWSAccepts(r, r.host, Service) <=>
               /\ \E k \in Issued : k.access = c.access /\ k.secret = c.secret /\ k.token = c.token
               /\ ~NeedsEscape(CleanModel(n))
<1> DEFINE c == Credentials(key)
           clean == CleanModel(n)
           region == RegionOf(key, n)
           u == Unsigned(clean, region, body)
           headers == SetSigningHeaders(u.headers, c, Today)
           signed == SignedHeaders(headers)
           r == Prepared(key, n, body)
           a == r.authorization
<1>1. /\ r.host = region /\ r.path = EscapedPath(clean)
      /\ r.digest = r.body /\ r.body = u.body /\ r.headers = headers
      /\ a.access = c.access /\ a.scope = Scope(Today, region, Service) /\ a.signed = signed
      /\ a.signature = Signature(c.secret, a.scope, Today, Path(clean, 1),
                                 CanonicalHeaders(signed, headers, region), u.body)
  BY DEF Prepared, SignSigV4, Unsigned, CanonicalURIPath, EscapedPath, Path
<1>2. /\ DOMAIN headers = {"content-type", "accept", "x-amz-date", "x-amz-security-token"}
      /\ headers["x-amz-date"] = Today
      /\ headers["x-amz-security-token"] = c.token
  BY DEF SetSigningHeaders, Unsigned
<1>3. /\ {"host", "x-amz-date"} \subseteq signed
      /\ headers["x-amz-security-token"] # Absent => "x-amz-security-token" \in signed
  BY <1>2 DEF SignedHeaders, Today, Absent
<1>4. Path(r.path.id, r.path.times + 1) = Path(clean, 1) <=> ~NeedsEscape(clean)
  BY <1>1 DEF EscapedPath, Path
<1>5. ASSUME NEW k \in Issued
      PROVE  a.signature = Signature(k.secret, a.scope, Today,
                                     Path(r.path.id, r.path.times + 1),
                                     CanonicalHeaders(signed, headers, region), r.body)
               <=> k.secret = c.secret /\ ~NeedsEscape(clean)
  BY <1>1, <1>4 DEF Signature
<1>. QED BY <1>1, <1>2, <1>3, <1>5 DEF AWSAccepts

\* A call is signed for the region it is sent to, and is taken there if and
\* only if its key is one of AWS's and its name needs no escape.
THEOREM RequestsAreAuthentic == Spec => []SentIsAuthentic
<1>1. CallInv => SentIsAuthentic
  BY PreparedIsAuthentic DEF CallInv, IsPrepared, SentIsAuthentic
<1>. QED BY <1>1, CallInvariance, PTL

\* A pinned name is its model followed by its region.
LEMMA FrontAndLast ==
  ASSUME NEW n \in Seq(STRING), n # <<>>
  PROVE  Front(n) \o <<Last(n)>> = n
<1>1. Len(n) \in Nat /\ 1 <= Len(n)
  OBVIOUS
<1>2. SubSeq(n, 1, Len(n)) = SubSeq(n, 1, Len(n) - 1) \o <<n[Len(n)]>>
  BY <1>1, SubSeqRecursiveSecond
<1>3. SubSeq(n, 1, Len(n)) = n
  BY SubSeqFull
<1>. QED BY <1>2, <1>3 DEF Front, Last

\* Every call that sends anything has a resolved name and goes to the region
\* of that name's suffix or of its key.
THEOREM OnlyRegions == Spec => []OnlyRegionsAreDialled
<1>1. ASSUME MappingInv, CallInv, sent # Nothing
      PROVE  /\ outcome = "resolved" /\ name \in {asked, current}
             /\ sent.host \in {Last(name), input.key[3]} \cap Region
             /\ \/ sent.path.id = name /\ sent.host = input.key[3]
                \/ sent.path.id \o <<sent.host>> = name
             /\ sent.path.id # Blank
  <2>1. /\ outcome = "resolved" /\ name \in {asked, current}
        /\ IsCredential(input.key)
        /\ sent = Prepared(input.key, name, ConvertOpenAIRequestToNova(input.chat))
    BY <1>1 DEF CallInv, IsPrepared
  <2>2. name \in Name /\ name # Blank /\ name \in Seq(STRING) /\ name # <<>>
    BY <1>1, <2>1, BlankAssumption, NameAssumption DEF MappingInv, MappingTypeOK
  <2>3. sent.host = RegionOf(input.key, name) /\ sent.path.id = CleanModel(name)
    BY <2>1 DEF Prepared, SignSigV4, Unsigned, EscapedPath, Path
  <2>4. CASE IsPinned(name)
    <3>1. sent.host = Last(name) /\ sent.path.id = Front(name)
      BY <2>3, <2>4 DEF RegionOf, CleanModel
    <3>2. Last(name) \in Region /\ Front(name) # Blank
      BY <2>4 DEF IsPinned
    <3>. QED BY <2>1, <2>2, <3>1, <3>2, FrontAndLast
  <2>5. CASE ~IsPinned(name)
    <3>1. sent.host = input.key[3] /\ sent.path.id = name
      BY <2>3, <2>5 DEF RegionOf, CleanModel, Credentials
    <3>2. input.key[3] \in Region
      BY <2>1 DEF IsCredential
    <3>. QED BY <2>1, <2>2, <3>1, <3>2
  <2>. QED BY <2>4, <2>5
<1>2. MappingInv /\ CallInv => OnlyRegionsAreDialled
  BY <1>1 DEF OnlyRegionsAreDialled
<1>. QED BY <1>2, CallInvariance, PTL

\* What Nova is told is what the client said: every message once, in order
\* and under its role, within the limits, or nothing is sent.
THEOREM TurnsReachNova == Spec => []TurnsAreKept
<1>1. ASSUME CallInv, sent # Nothing
      PROVE  /\ KeepsTurns(input.chat.messages, Len(input.chat.messages), sent.body.messages,
                           sent.body.system)
             /\ sent.body.messages # <<>>
             /\ sent.body.maxTokens \subseteq 0 .. MaxTokensLimit
             /\ sent.body.maxTokens = input.chat.maxTokens
  <2>1. IsPrepared /\ LoopInv
    BY <1>1 DEF CallInv
  <2>2. sent.body = ConvertOpenAIRequestToNova(input.chat)
    BY <2>1 DEF IsPrepared, Prepared, SignSigV4, Unsigned
  <2>3. /\ sent.body.messages = turns /\ sent.body.system = system
        /\ sent.body.maxTokens = input.chat.maxTokens
    BY <2>2 DEF ConvertOpenAIRequestToNova
  <2>4. converted = Len(input.chat.messages) /\ turns # <<>> /\ InRange(input.chat.maxTokens)
    BY <2>1 DEF IsPrepared, IsConverted, IsConvertible
  <2>. QED BY <2>1, <2>3, <2>4 DEF LoopInv, InRange
<1>2. CallInv => TurnsAreKept
  BY <1>1 DEF TurnsAreKept
<1>. QED BY <1>2, CallInvariance, PTL

-----------------------------------------------------------------------------
(* The answer *)

\* An answered call has been called by a name.
LEMMA AnsweredByName ==
  ASSUME MappingInv, CallInv, pc = "answered"
  PROVE  name \in Name
BY DEF CallInv, MappingInv, MappingTypeOK

\* The client is told the model that was called and billed what Nova counted.
THEOREM AnswersFit == Spec => []AnswerFitsCall
<1>1. ASSUME CallInv, output # Nothing
      PROVE  /\ pc = "answered" /\ status = 200
             /\ output.model = sent.path.id
             /\ output.usage.prompt = answer.usage.input
             /\ output.usage.completion = answer.usage.output
             /\ \/ output.usage.total = output.usage.prompt + output.usage.completion
                \/ output.usage.total = answer.usage.total
             /\ (output.finish = "length") = (answer.reason \in {"max_tokens", "maxTokens"})
  <2>1. /\ pc = "answered" /\ status = 200
        /\ output = ConvertNovaResponseToOpenAI(answer, RespondedModel(name))
        /\ sent = Prepared(input.key, name, ConvertOpenAIRequestToNova(input.chat))
    BY <1>1 DEF CallInv, IsPrepared
  <2>2. output.model = CleanModel(name) /\ sent.path.id = CleanModel(name)
    BY <2>1 DEF ConvertNovaResponseToOpenAI, RespondedModel, Prepared, SignSigV4, Unsigned,
                EscapedPath, Path
  <2>3. /\ output.usage = NovaUsage(answer.usage)
        /\ output.finish = FinishReason(answer.reason)
    BY <2>1 DEF ConvertNovaResponseToOpenAI
  <2>. QED BY <2>1, <2>2, <2>3 DEF NovaUsage, FinishReason
<1>2. CallInv => AnswerFitsCall
  BY <1>1 DEF AnswerFitsCall
<1>. QED BY <1>2, CallInvariance, PTL

\* Types; what has been sent or answered fits the stage of the call.
THEOREM TypeCorrect == Spec => []TypeOK
<1>1. ASSUME MappingInv, CallInv
      PROVE  TypeOK
  <2>1. pc = "answered" => answer \in Reply /\ output # Nothing
    BY <1>1, AnsweredByName, NothingAssumption DEF CallInv
  <2>. QED BY <1>1, <2>1 DEF TypeOK, CallInv, LoopInv, IsPrepared, MappingInv
<1>. QED BY <1>1, CallInvariance, PTL

\* The mapping means what the call makes of it.
THEOREM ResolvedIsDefined == Spec => []ResolvesAsDefined
BY BedrockMaps, WalkMeansMapping, PTL
=============================================================================
