-------------------------- MODULE RelayCoreProofs --------------------------
(***************************************************************************)
(* Proofs about RelayCore, for any set of calls, requests, control-plane   *)
(* answers and upstream answers.                                           *)
(***************************************************************************)
EXTENDS RelayCore, SequenceTheorems, TLAPS

-----------------------------------------------------------------------------
(* The inductive invariant *)

Waiting == {"idle", "reading", "select", "upstream", "bedrock"}

\* Before an answer nothing has been written; during a relay the client has
\* seen the upstream's status line and a prefix of its frames.
RelayInv(c) ==
  /\ pc[c] \in Waiting => status[c] = 0 /\ relayed[c] = 0 /\ ~partial[c] /\ ~errBody[c]
  /\ pc[c] \in {"stream", "buffer"} =>
       status[c] = ans[c].status /\ status[c] > 0 /\ ~partial[c] /\ ~errBody[c]
  /\ pc[c] = "stream" => relayed[c] <= Len(ans[c].frames)
  /\ pc[c] = "buffer" => relayed[c] = 0 /\ Len(ans[c].frames) = 1
  /\ errBody[c] => relayed[c] = 0 /\ ~partial[c] /\ ~OK2xx(status[c])

\* A bill exists from the end of a complete relay on, and says what the
\* client has seen.
BillInv(c) ==
  /\ pc[c] \in {"settle", "settling"} => bill[c] # NoBill /\ attempt[c] < MaxAttempts
  /\ bill[c] # NoBill =>
       /\ pc[c] \in {"settle", "settling", "done", "panicked", "lost"}
       /\ bill[c].status = status[c]
       /\ status[c] = ans[c].status
       /\ OK2xx(status[c]) => relayed[c] = Len(ans[c].frames) /\ ~partial[c] /\ ~errBody[c]
  /\ bill[c] = NoBill => attempt[c] = 0 /\ reply[c] = "none"

\* A POST carries the frozen bill of its call and the call's own id.
PostInv ==
  \A m \in wire \cup ledger :
    bill[m.call] # NoBill /\ m.bill = bill[m.call] /\ m.id = IdOf[m.call]

LedgerInv ==
  /\ \A e \in ledger : OK2xx(e.bill.status)
  /\ \A e, f \in ledger : e.id = f.id => e = f

\* An acknowledged call is recorded or not billable; a settled call is that,
\* or its failure is in the log.
SettledInv(c) ==
  /\ reply[c] = "ok" => Recorded(IdOf[c]) \/ ~OK2xx(bill[c].status)
  /\ pc[c] = "done" /\ bill[c] # NoBill /\ OK2xx(bill[c].status) =>
       Recorded(IdOf[c]) \/ logged[c]

SafetyInv ==
  /\ \A c \in Call : RelayInv(c) /\ BillInv(c) /\ SettledInv(c)
  /\ PostInv
  /\ LedgerInv

IInv == TypeOK /\ SafetyInv
-----------------------------------------------------------------------------
(* Lemmas about the data *)

\* What is read from a chunk is a usage record.
LEMMA PeekUsageType ==
  ASSUME NEW k \in Chunk
  PROVE  PeekUsage(k) \in Usage /\ NovaUsage(k) \in Usage
<1>1. /\ PeekPrompt(k) \in Nat
      /\ PeekCompletion(k) \in Nat
      /\ PeekTotal(k) \in Nat
  BY DEF Chunk, PeekPrompt, PeekCompletion, PeekTotal, OrElse
<1>2. PeekUsage(k) \in Usage
  BY <1>1 DEF PeekUsage, Usage, OrElse
<1>3. NovaUsage(k) \in Usage
  BY DEF Chunk, NovaUsage, FinalizeUsage, Usage, OrElse
<1>. QED BY <1>2, <1>3

\* Merging and finalizing keep a usage record one.
LEMMA MergeUsageType ==
  ASSUME NEW u \in Usage, NEW v \in Usage
  PROVE  MergeUsage(u, v) \in Usage /\ FinalizeUsage(u) \in Usage
BY DEF MergeUsage, FinalizeUsage, Usage, OrElse

\* The usage after one more frame or body.
LEMMA AccumulateType ==
  ASSUME NEW r \in RequestShape, NEW u \in Usage, NEW k \in Chunk
  PROVE  Accumulate(r, u, k) \in Usage
<1>1. PeekImageCount(k) \in Nat
  BY DEF PeekImageCount, Chunk, MaxImageN
<1>2. [PeekUsage(k) EXCEPT !.images = IF IsImage(r) THEN PeekImageCount(k) ELSE 0] \in Usage
  BY <1>1, PeekUsageType DEF Usage
<1>. QED BY <1>2, PeekUsageType, MergeUsageType DEF Accumulate

\* A settlement is a bill that carries the status it is given.
LEMMA SettleRequestType ==
  ASSUME NEW r \in RequestShape, NEW u \in Usage, NEW code \in Nat
  PROVE  /\ SettleRequest(r, u, code) \in Bill
         /\ SettleRequest(r, u, code) # NoBill
         /\ SettleRequest(r, u, code).status = code
<1>1. OrElse(u.images, PeekImageN(r.n)) \in Nat
  BY DEF OrElse, PeekImageN, MaxImageN, Usage, RequestShape
<1>2. RerankUsage(r, u) \in Usage
  BY DEF RerankUsage, Usage
<1>3. CASE IsImage(r)
  BY <1>1, <1>3 DEF SettleRequest, Bill, NoBill
<1>4. CASE ~IsImage(r)
  BY <1>2, <1>4 DEF SettleRequest, Bill, NoBill, Usage
<1>. QED BY <1>3, <1>4

\* A refusal has one of three statuses.
LEMMA VerdictRange ==
  ASSUME NEW r, NEW s, NEW held
  PROVE  Verdict(r, s, held) \in {0, 400, 403, 500}
BY DEF Verdict

\* What is dialed is a target.
LEMMA TargetType ==
  ASSUME NEW r \in RequestShape, NEW s \in ReplyShape
  PROVE  Target(r, s) \in TargetShape
<1>1. For(s.type) \in Int
  BY DEF For, BaseURLs, ReplyShape, SameURLAs, NoURL, ChannelTypeCount
<1>2. BedrockBase \in BaseURL
  BY DEF BedrockBase, BaseURL, Host, Zone, Joint
<1>3. /\ AuthHeader(s.type, RelayFormat(r)) \in Header
      /\ PathRewrite(s.type, RelayFormat(r), UnderV1(r)) \in Rewrite
  BY DEF AuthHeader, PathRewrite, Header, Rewrite
<1>4. CASE s.type = 33
  BY <1>2, <1>4 DEF Target, TargetShape, Header, Rewrite, NoURL
<1>5. CASE s.type # 33
  BY <1>1, <1>3, <1>5 DEF Target, TargetShape, ResolveRoute, ReplyShape, NoURL
<1>. QED BY <1>4, <1>5

\* Dropping the usage frame leaves an answer an answer, with its status; what
\* is no stream of events is sent as it is.
LEMMA EmittedType ==
  ASSUME NEW f, NEW a \in AnswerShape
  PROVE  /\ Emitted(f, a) \in AnswerShape
         /\ Emitted(f, a).status = a.status /\ Emitted(f, a).framing = a.framing
         /\ a.framing # "events" => Emitted(f, a) = a
<1>1. a.frames \in Seq(Chunk)
  BY DEF AnswerShape
<1>2. SubSeq(a.frames, 1, Len(a.frames) - 1) \in Seq(Chunk)
  <2>1. \A i \in 1 .. Len(a.frames) - 1 : a.frames[i] \in Chunk
    BY <1>1
  <2>. QED BY <1>1, <2>1, SubSeqProperties, LenProperties
<1>. QED BY <1>2 DEF Emitted, AnswerShape

\* What the handler makes of an answer is one, with its status, and a single
\* frame for a handler that reads a body.
LEMMA AsReadType ==
  ASSUME NEW r, NEW a \in AnswerShape
  PROVE  /\ AsRead(r, a) \in AnswerShape /\ AsRead(r, a).status = a.status
         /\ ~Streams(r) /\ (a.framing = "body" => Len(a.frames) = 1) => Len(AsRead(r, a).frames) = 1
<1>1. Content \in Chunk /\ Len(a.frames) \in Nat
  BY DEF Content, Chunk, AnswerShape
<1>2. [i \in 1 .. Len(a.frames) + 1 |-> Content] \in Seq(Chunk)
  BY <1>1
<1>3. <<Content>> \in Seq(Chunk) /\ Len(<<Content>>) = 1
  BY <1>1
<1>4. CASE Legible(r, a)
  BY <1>4 DEF AsRead, Legible
<1>5. CASE ~Legible(r, a)
  BY <1>2, <1>3, <1>5 DEF AsRead, AnswerShape
<1>. QED BY <1>4, <1>5

\* The answer of an upstream as the handler reads it.
LEMMA ReadAnswer ==
  ASSUME NEW r, NEW a \in Answer
  PROVE  LET x == AsRead(r, Emitted(Forwarded(r), a))
         IN  /\ x \in AnswerShape /\ x.status = a.status /\ a.status \in Nat \ {0}
             /\ ~Streams(r) => Len(x.frames) = 1
<1>. DEFINE e == Emitted(Forwarded(r), a)
<1>1. a \in AnswerShape /\ a.status \in Nat \ {0} /\ (a.framing = "body" => Len(a.frames) = 1)
  BY AnswerAssumption DEF AnswerShape
<1>2. /\ e \in AnswerShape /\ e.status = a.status
      /\ e.framing = "body" => Len(e.frames) = 1
  BY <1>1, EmittedType
<1>. HIDE DEF e
<1>. QED BY <1>1, <1>2, AsReadType DEF e

\* The one body of an answer that is a body.
LEMMA OneBody ==
  ASSUME NEW a \in Answer, a.framing = "body"
  PROVE  /\ a \in AnswerShape /\ a.status \in Nat \ {0}
         /\ Len(a.frames) = 1 /\ a.frames[1] \in Chunk
BY AnswerAssumption DEF AnswerShape

-----------------------------------------------------------------------------
(* Type correctness *)

\* A group of variables that a step leaves alone keeps its types.
LEMMA Kept ==
  /\ HandlingOK /\ UNCHANGED handling => HandlingOK'
  /\ WritingOK /\ UNCHANGED writing => WritingOK'
  /\ SettlingOK /\ UNCHANGED settling => SettlingOK'
BY DEF HandlingOK, WritingOK, SettlingOK, handling, writing, settling

LEMMA WriteErrorType ==
  ASSUME WritingOK, NEW c \in Call, NEW code \in Nat, WriteError(c, code),
         partial' \in [Call -> BOOLEAN]
  PROVE  WritingOK'
BY DEF WritingOK, WriteError, OrElse

LEMMA RefuseType ==
  ASSUME TypeOK, NEW c \in Call, NEW code \in Nat, Refuse(c, code)
  PROVE  TypeOK'
<1>1. WritingOK'
  BY WriteErrorType DEF TypeOK, Refuse, WritingOK
<1>. QED BY <1>1, Kept DEF TypeOK, Refuse, Goto, Control

LEMMA RelayErrorType ==
  ASSUME TypeOK, NEW c \in Call, RelayError(c), partial' \in [Call -> BOOLEAN]
  PROVE  TypeOK'
<1>1. WritingOK'
  <2>1. CASE status[c] = 0
    BY <2>1, WriteErrorType DEF TypeOK, RelayError
  <2>2. CASE status[c] # 0
    BY <2>2 DEF TypeOK, RelayError, WritingOK
  <2>. QED BY <2>1, <2>2
<1>. QED BY <1>1, Kept DEF TypeOK, RelayError, Goto, Control

LEMMA CompleteType ==
  ASSUME TypeOK, NEW c \in Call, NEW u \in Usage, NEW code \in Nat,
         Complete(c, u, code), HandlingOK', WritingOK'
  PROVE  TypeOK'
<1>1. SettleRequest(req[c], u, code) \in Bill
  BY SettleRequestType DEF TypeOK, HandlingOK
<1>2. SettlingOK'
  BY <1>1 DEF TypeOK, SettlingOK, Complete
<1>. QED BY <1>2 DEF TypeOK, Complete, Goto, Control

LEMMA AttemptFailsType ==
  ASSUME TypeOK, NEW c \in Call, attempt[c] < MaxAttempts, AttemptFails(c),
         UNCHANGED <<client, handling, writing, usage, bill, wire, ledger>>
  PROVE  TypeOK'
<1>1. attempt[c] + 1 \in 0 .. MaxAttempts
  BY DEF TypeOK, SettlingOK, MaxAttempts
<1>2. SettlingOK'
  BY <1>1 DEF TypeOK, SettlingOK, AttemptFails, MaxAttempts
<1>3. pc' \in [Call -> Control]
  BY DEF TypeOK, AttemptFails, Goto, Control
<1>. QED BY <1>2, <1>3, Kept DEF TypeOK

\* Every step keeps the types, given the safety invariant: it bounds the
\* attempts and guarantees the one body of a buffered answer.
LEMMA TypeStep ==
  ASSUME TypeOK, SafetyInv, [Next]_vars
  PROVE  TypeOK'
<1>1. ASSUME NEW c \in Call, Serve(c) \/ ClientGone(c)
      PROVE  TypeOK'
  <2>. USE DEF TypeOK, Goto, Control
  <2>1. CASE Arrive(c)
    BY <2>1, Kept, RequestAssumption DEF Arrive, HandlingOK
  <2>2. CASE ReadBodyFails(c)
    BY <2>2, RefuseType DEF ReadBodyFails
  <2>3. CASE RefuseRequest(c)
    BY <2>3, RefuseType DEF RefuseRequest
  <2>4. CASE AskControlPlane(c)
    BY <2>4, Kept DEF AskControlPlane
  <2>23. CASE PanicOnOptions(c)
    BY <2>23, Kept DEF PanicOnOptions
  <2>5. CASE SelectFails(c)
    BY <2>5, RefuseType DEF SelectFails
  <2>6. CASE RefuseChannel(c)
    BY <2>6, RefuseType, VerdictRange DEF RefuseChannel
  <2>7. CASE Dispatch(c)
    <3>1. PICK s \in Reply : dial' = [dial EXCEPT ![c] = Target(req[c], s)]
      BY <2>7 DEF Dispatch
    <3>2. HandlingOK'
      BY <2>7, <3>1, TargetType, ReplyAssumption DEF Dispatch, HandlingOK
    <3>. QED BY <2>7, <3>2, Kept DEF Dispatch
  <2>8. CASE UpstreamFails(c)
    BY <2>8, RelayErrorType DEF UpstreamFails, WritingOK
  <2>9. CASE UpstreamAnswers(c)
    <3>1. PICK a \in Answer :
            /\ ans' = [ans EXCEPT ![c] = AsRead(req[c], Emitted(Forwarded(req[c]), a))]
            /\ status' = [status EXCEPT ![c] = OrElse(status[c], a.status)]
      BY <2>9 DEF UpstreamAnswers
    <3>2. a.status \in Nat /\ AsRead(req[c], Emitted(Forwarded(req[c]), a)) \in AnswerShape
      BY ReadAnswer
    <3>3. HandlingOK'
      BY <2>9, <3>1, <3>2 DEF UpstreamAnswers, HandlingOK
    <3>4. WritingOK'
      BY <2>9, <3>1, <3>2 DEF UpstreamAnswers, WritingOK, OrElse
    <3>. QED BY <2>9, <3>3, <3>4, Kept DEF UpstreamAnswers
  <2>10. CASE RelayFrame(c)
    <3>1. ans[c].frames[relayed[c] + 1] \in Chunk
      BY <2>10 DEF RelayFrame, HandlingOK, WritingOK, AnswerShape
    <3>2. Accumulate(req[c], usage[c], ans[c].frames[relayed[c] + 1]) \in Usage
      BY <3>1, AccumulateType DEF HandlingOK
    <3>3. WritingOK'
      BY <2>10 DEF RelayFrame, WritingOK
    <3>. QED BY <2>10, <3>2, <3>3, Kept DEF RelayFrame
  <2>11. CASE StreamEnds(c)
    <3>1. FinalizeUsage(usage[c]) \in Usage /\ ans[c].status \in Nat
      BY MergeUsageType DEF HandlingOK, AnswerShape
    <3>. QED BY <2>11, <3>1, CompleteType, Kept DEF StreamEnds
  <2>12. CASE RelayBody(c)
    <3>1. ans[c].frames[1] \in Chunk /\ ans[c].status \in Nat
      BY <2>12 DEF RelayBody, SafetyInv, RelayInv, HandlingOK, AnswerShape
    <3>2. ZeroUsage \in Usage
      BY DEF ZeroUsage, Usage
    <3>3. Accumulate(req[c], ZeroUsage, ans[c].frames[1]) \in Usage
      BY <3>1, <3>2, AccumulateType DEF HandlingOK
    <3>4. HandlingOK' /\ WritingOK'
      BY <2>12, Kept DEF RelayBody, WritingOK
    <3>. QED BY <2>12, <3>1, <3>3, <3>4, CompleteType DEF RelayBody
  <2>13. CASE RelayBreaks(c)
    BY <2>13, RelayErrorType DEF RelayBreaks, BreaksOff, WritingOK
  <2>14. CASE BedrockFails(c)
    BY <2>14, RelayErrorType DEF BedrockFails, WritingOK
  <2>15. CASE BedrockRejects(c)
    <3>1. PICK a \in Answer :
            /\ ans' = [ans EXCEPT ![c] = a]
            /\ WriteError(c, a.status)
            /\ Complete(c, ZeroUsage, a.status)
      BY <2>15 DEF BedrockRejects
    <3>2. a \in AnswerShape /\ a.status \in Nat /\ ZeroUsage \in Usage
      BY AnswerAssumption DEF AnswerShape, ZeroUsage, Usage
    <3>3. HandlingOK' /\ WritingOK'
      BY <2>15, <3>1, <3>2, WriteErrorType DEF BedrockRejects, HandlingOK, WritingOK
    <3>. QED BY <3>1, <3>2, <3>3, CompleteType
  <2>16. CASE BedrockAnswers(c)
    <3>1. PICK a \in Answer :
            /\ a.framing = "body" /\ OK2xx(a.status)
            /\ ans' = [ans EXCEPT ![c] = a]
            /\ status' = [status EXCEPT ![c] = OrElse(status[c], a.status)]
            /\ relayed' = [relayed EXCEPT ![c] = 1]
            /\ Complete(c, NovaUsage(a.frames[1]), a.status)
      BY <2>16 DEF BedrockAnswers
    <3>2. a \in AnswerShape /\ a.status \in Nat /\ a.frames[1] \in Chunk
      BY <3>1, OneBody DEF AnswerShape
    <3>3. HandlingOK'
      BY <2>16, <3>1, <3>2 DEF BedrockAnswers, HandlingOK
    <3>4. WritingOK'
      BY <2>16, <3>1, <3>2 DEF BedrockAnswers, WritingOK, OrElse
    <3>. QED BY <3>1, <3>2, <3>3, <3>4, PeekUsageType, CompleteType
  <2>17. CASE BedrockWriteFails(c)
    <3>1. PICK a \in Answer :
            /\ a.framing = "body"
            /\ ans' = [ans EXCEPT ![c] = a]
            /\ status' = [status EXCEPT ![c] = OrElse(status[c], a.status)]
            /\ usage' = [usage EXCEPT ![c] = NovaUsage(a.frames[1])]
      BY <2>17 DEF BedrockWriteFails
    <3>2. a \in AnswerShape /\ a.status \in Nat /\ NovaUsage(a.frames[1]) \in Usage
      BY <3>1, OneBody, PeekUsageType DEF AnswerShape
    <3>3. HandlingOK'
      BY <2>17, <3>1, <3>2 DEF BedrockWriteFails, HandlingOK
    <3>4. WritingOK'
      BY <2>17, <3>1, <3>2 DEF BedrockWriteFails, BreaksOff, WritingOK, OrElse
    <3>. QED BY <2>17, <3>1, <3>2, <3>3, <3>4, Kept DEF BedrockWriteFails
  <2>18. CASE PostSettle(c)
    <3>1. bill[c] \in Bill
      BY <2>18 DEF PostSettle, SafetyInv, BillInv, SettlingOK
    <3>2. SettlePost(c) \in Message
      BY <3>1, IdAssumption DEF SettlePost, Message, SettlingOK
    <3>3. SettlingOK'
      BY <2>18, <3>2 DEF PostSettle, SettlingOK
    <3>. QED BY <2>18, <3>3, Kept DEF PostSettle
  <2>19. CASE SettleUnreachable(c)
    BY <2>19, AttemptFailsType DEF SettleUnreachable, SafetyInv, BillInv
  <2>20. CASE SettleUnanswered(c)
    BY <2>20, AttemptFailsType DEF SettleUnanswered, SafetyInv, BillInv
  <2>21. CASE SettleReturns(c)
    <3>1. CASE AttemptFails(c)
      BY <2>21, <3>1, AttemptFailsType DEF SettleReturns, SafetyInv, BillInv
    <3>2. CASE ~AttemptFails(c)
      <4>1. SettlingOK' /\ pc' \in [Call -> Control]
        BY <2>21, <3>2 DEF SettleReturns, SettlingOK
      <4>. QED BY <2>21, <4>1, Kept DEF SettleReturns
    <3>. QED BY <3>1, <3>2
  <2>22. CASE ClientGone(c)
    BY <2>22, Kept DEF ClientGone
  <2>. QED BY <1>1, <2>1, <2>2, <2>3, <2>4, <2>5, <2>6, <2>7, <2>8, <2>9, <2>10,
              <2>11, <2>12, <2>13, <2>14, <2>15, <2>16, <2>17, <2>18, <2>19,
              <2>20, <2>21, <2>22, <2>23 DEF Serve
<1>2. ASSUME NEW m \in wire, ReceiveSettle(m) \/ LoseSettle(m)
      PROVE  TypeOK'
  <2>1. m \in Message
    BY DEF TypeOK, SettlingOK
  <2>2. SettlingOK'
    BY <1>2, <2>1 DEF ReceiveSettle, LoseSettle, ChargeCall, AcknowledgeCall,
                      TurnDownCall, Respond, TypeOK, SettlingOK, Message
  <2>. QED BY <1>2, <2>2, Kept DEF ReceiveSettle, LoseSettle, TypeOK
<1>3. CASE Crash
  BY <1>3, Kept DEF Crash, TypeOK, Control
<1>4. CASE Stop \/ UNCHANGED vars
  <2>1. UNCHANGED <<pc, client, usage, handling, writing, settling>>
    BY <1>4 DEF Stop, vars, handling, writing, settling
  <2>. QED BY <2>1, Kept DEF TypeOK
<1>. QED BY <1>1, <1>2, <1>3, <1>4 DEF Next
-----------------------------------------------------------------------------
(* Safety *)

CallInv(c) == RelayInv(c) /\ BillInv(c) /\ SettledInv(c)

\* What the invariant of call d is about, apart from the ledger.
Untouched(d) ==
  /\ pc'[d] = pc[d]
  /\ ans'[d] = ans[d]
  /\ status'[d] = status[d] /\ relayed'[d] = relayed[d]
  /\ partial'[d] = partial[d] /\ errBody'[d] = errBody[d]
  /\ bill'[d] = bill[d] /\ attempt'[d] = attempt[d]
  /\ reply'[d] = reply[d] /\ logged'[d] = logged[d]

\* A call that a step does not touch keeps its invariant when no charge is
\* taken out of the ledger.
LEMMA UntouchedInv ==
  ASSUME NEW d, CallInv(d), Untouched(d), ledger \subseteq ledger'
  PROVE  CallInv(d)'
<1>1. RelayInv(d)'
  BY DEF CallInv, Untouched, RelayInv, Waiting, OK2xx
<1>2. BillInv(d)'
  BY DEF CallInv, Untouched, BillInv, OK2xx
<1>3. SettledInv(d)'
  BY DEF CallInv, Untouched, SettledInv, Recorded, OK2xx
<1>. QED BY <1>1, <1>2, <1>3 DEF CallInv

\* A step of one handler that posts and charges nothing.
LEMMA StepInv ==
  ASSUME TypeOK, SafetyInv, NEW c \in Call,
         \A d \in Call \ {c} : Untouched(d),
         CallInv(c)',
         bill'[c] = bill[c] \/ bill[c] = NoBill,
         wire' = wire, ledger' = ledger
  PROVE  SafetyInv'
<1>1. \A d \in Call : CallInv(d)'
  BY UntouchedInv DEF SafetyInv, CallInv
<1>2. \A m \in wire \cup ledger : bill'[m.call] = bill[m.call]
  BY DEF SafetyInv, PostInv, Untouched, TypeOK, SettlingOK, Message
<1>3. PostInv'
  BY <1>2 DEF SafetyInv, PostInv
<1>4. LedgerInv'
  BY DEF SafetyInv, LedgerInv
<1>. QED BY <1>1, <1>3, <1>4 DEF SafetyInv, CallInv

LEMMA RefuseSafe ==
  ASSUME TypeOK, SafetyInv, NEW c \in Call, pc[c] \in Waiting,
         NEW code \in Nat \ {0}, ~OK2xx(code), Refuse(c, code)
  PROVE  SafetyInv'
<1>. USE DEF Refuse, WriteError, Goto, OrElse, handling, settling
<1>1. \A d \in Call \ {c} : Untouched(d)
  BY DEF Untouched, TypeOK, WritingOK
<1>2. bill[c] = NoBill
  BY DEF SafetyInv, BillInv, Waiting
<1>3. /\ pc'[c] = "done" /\ status'[c] = code /\ relayed'[c] = 0
      /\ bill'[c] = NoBill /\ attempt'[c] = attempt[c] /\ reply' = reply /\ ledger' = ledger
  BY <1>2 DEF TypeOK, WritingOK, SafetyInv, RelayInv
<1>4. CallInv(c)'
  BY <1>2, <1>3 DEF CallInv, RelayInv, BillInv, SettledInv, Recorded, SafetyInv, Waiting, OK2xx
<1>. QED BY <1>1, <1>2, <1>4, StepInv

LEMMA RelayErrorSafe ==
  ASSUME TypeOK, SafetyInv, NEW c \in Call,
         pc[c] \in {"upstream", "bedrock", "stream", "buffer"}, RelayError(c),
         pc[c] \in {"upstream", "bedrock"} => partial' = partial,
         \A d \in Call \ {c} : partial'[d] = partial[d]
  PROVE  SafetyInv'
<1>. USE DEF RelayError, WriteError, Goto, OrElse, handling, settling
<1>1. \A d \in Call \ {c} : Untouched(d)
  BY DEF Untouched, TypeOK, WritingOK
<1>2. bill[c] = NoBill
  BY DEF SafetyInv, BillInv
<1>3. /\ pc'[c] = "done" /\ bill'[c] = NoBill
      /\ attempt'[c] = attempt[c] /\ reply' = reply /\ ledger' = ledger
  BY <1>2 DEF TypeOK
<1>4. errBody'[c] => relayed'[c] = 0 /\ ~partial'[c] /\ ~OK2xx(status'[c])
  <2>1. RelayInv(c) /\ status[c] \in Nat
    BY DEF SafetyInv, TypeOK, WritingOK
  <2>2. CASE status[c] = 0
    <3>1. pc[c] \in {"upstream", "bedrock"}
      BY <2>1, <2>2 DEF RelayInv
    <3>2. relayed'[c] = 0 /\ ~partial'[c] /\ status'[c] = 502
      BY <2>1, <2>2, <3>1 DEF RelayInv, Waiting, TypeOK, WritingOK
    <3>. QED BY <3>2 DEF OK2xx
  <2>3. CASE status[c] # 0
    BY <2>1, <2>3 DEF RelayInv
  <2>. QED BY <2>2, <2>3
<1>5. CallInv(c)'
  BY <1>2, <1>3, <1>4 DEF CallInv, RelayInv, BillInv, SettledInv, Recorded, SafetyInv, Waiting
<1>. QED BY <1>1, <1>2, <1>5, StepInv

\* A call is completed with the status line the client has seen and, unless
\* that is an error, with every frame of the answer.
LEMMA CompleteSafe ==
  ASSUME TypeOK, SafetyInv, NEW c \in Call,
         pc[c] \in {"bedrock", "stream", "buffer"},
         NEW u \in Usage, NEW code \in Nat \ {0}, Complete(c, u, code),
         status'[c] = code, ans'[c].status = code,
         OK2xx(code) => relayed'[c] = Len(ans'[c].frames) /\ ~errBody'[c],
         errBody'[c] => relayed'[c] = 0 /\ ~OK2xx(code),
         partial' = partial,
         \A d \in Call \ {c} :
           /\ ans'[d] = ans[d]
           /\ status'[d] = status[d] /\ relayed'[d] = relayed[d] /\ errBody'[d] = errBody[d]
  PROVE  SafetyInv'
<1>. USE DEF Complete, Goto
<1>1. \A d \in Call \ {c} : Untouched(d)
  BY DEF Untouched, TypeOK, SettlingOK
<1>2. bill[c] = NoBill
  BY DEF SafetyInv, BillInv
<1>3. /\ bill'[c] # NoBill
      /\ bill'[c].status = code
  BY SettleRequestType DEF TypeOK, HandlingOK, SettlingOK
<1>4. attempt'[c] = 0
  BY <1>2 DEF SafetyInv, BillInv
<1>5. reply'[c] = "none"
  BY <1>2 DEF SafetyInv, BillInv
<1>6. pc'[c] = "settle" /\ ~partial'[c]
  BY DEF TypeOK, SafetyInv, RelayInv, Waiting
<1>7. CallInv(c)'
  BY <1>3, <1>4, <1>5, <1>6 DEF CallInv, RelayInv, BillInv, SettledInv, Waiting, MaxAttempts
<1>. QED BY <1>1, <1>2, <1>7, StepInv

\* Giving up on an attempt keeps the bill; the third time it is logged.
LEMMA AttemptFailsSafe ==
  ASSUME TypeOK, SafetyInv, NEW c \in Call, pc[c] \in {"settle", "settling"},
         AttemptFails(c),
         UNCHANGED <<client, handling, writing, usage, bill, wire, ledger>>
  PROVE  SafetyInv'
<1>. USE DEF AttemptFails, Goto, handling, writing
<1>1. \A d \in Call \ {c} : Untouched(d)
  BY DEF Untouched, TypeOK, SettlingOK
<1>2. bill[c] # NoBill /\ attempt[c] < MaxAttempts /\ attempt[c] \in Nat
  BY DEF SafetyInv, BillInv, TypeOK, SettlingOK
<1>3. /\ attempt'[c] = attempt[c] + 1
      /\ reply'[c] = "none"
      /\ pc'[c] = IF attempt[c] + 1 < MaxAttempts THEN "settle" ELSE "done"
      /\ attempt[c] + 1 >= MaxAttempts => logged'[c]
  BY DEF TypeOK, SettlingOK
<1>4. /\ RelayInv(c)'
      /\ BillInv(c)'
      /\ SettledInv(c)'
  <2>1. RelayInv(c)'
    BY <1>3 DEF SafetyInv, RelayInv, Waiting, OK2xx
  <2>2. BillInv(c)'
    <3>1. BillInv(c)
      BY DEF SafetyInv
    <3>2. /\ bill'[c] = bill[c] /\ status'[c] = status[c] /\ ans'[c] = ans[c]
          /\ relayed'[c] = relayed[c] /\ partial'[c] = partial[c] /\ errBody'[c] = errBody[c]
      OBVIOUS
    <3>3. \/ pc'[c] = "settle" /\ attempt'[c] < MaxAttempts
          \/ pc'[c] = "done"
      BY <1>3
    <3>. HIDE DEF AttemptFails, Goto, handling, writing
    <3>. QED BY <1>2, <3>1, <3>2, <3>3 DEF BillInv, OK2xx
  <2>3. SettledInv(c)'
    <3>1. pc'[c] = "done" => logged'[c]
      BY <1>2, <1>3 DEF MaxAttempts
    <3>. HIDE DEF AttemptFails, Goto, handling, writing
    <3>. QED BY <1>3, <3>1 DEF SettledInv
  <2>. QED BY <2>1, <2>2, <2>3
<1>. QED BY <1>1, <1>4, StepInv DEF CallInv

\* Every step keeps the safety invariant.
LEMMA SafetyStep ==
  ASSUME TypeOK, SafetyInv, [Next]_vars
  PROVE  SafetyInv'
<1>1. ASSUME NEW c \in Call, Serve(c) \/ ClientGone(c)
      PROVE  SafetyInv'
  <2>. USE DEF Goto, Waiting
  <2>0. CallInv(c)
    BY DEF SafetyInv, CallInv
  <2>1. CASE Arrive(c)
    <3>1. \A d \in Call \ {c} : Untouched(d)
      BY <2>1 DEF Arrive, Untouched, TypeOK, writing, settling
    <3>2. CallInv(c)'
      BY <2>0, <2>1 DEF Arrive, CallInv, RelayInv, BillInv, SettledInv, Recorded, TypeOK, writing, settling
    <3>. QED BY <2>1, <3>1, <3>2, StepInv DEF Arrive, settling
  <2>2. CASE ReadBodyFails(c)
    BY <2>2, RefuseSafe DEF ReadBodyFails, OK2xx
  <2>3. CASE RefuseRequest(c)
    BY <2>3, RefuseSafe DEF RefuseRequest, OK2xx
  <2>4. CASE AskControlPlane(c)
    <3>1. \A d \in Call \ {c} : Untouched(d)
      BY <2>4 DEF AskControlPlane, Untouched, TypeOK, handling, writing, settling
    <3>2. CallInv(c)'
      BY <2>0, <2>4 DEF AskControlPlane, CallInv, RelayInv, BillInv, SettledInv, Recorded, TypeOK,
                        handling, writing, settling
    <3>. QED BY <2>4, <3>1, <3>2, StepInv DEF AskControlPlane, settling
  <2>23. CASE PanicOnOptions(c)
    <3>1. \A d \in Call \ {c} : Untouched(d)
      BY <2>23 DEF PanicOnOptions, Untouched, TypeOK, handling, writing, settling
    <3>2. CallInv(c)'
      BY <2>0, <2>23 DEF PanicOnOptions, CallInv, RelayInv, BillInv, SettledInv, Recorded, TypeOK,
                         handling, writing, settling
    <3>. QED BY <2>23, <3>1, <3>2, StepInv DEF PanicOnOptions, settling
  <2>5. CASE SelectFails(c)
    BY <2>5, RefuseSafe DEF SelectFails, OK2xx
  <2>6. CASE RefuseChannel(c)
    <3>1. PICK s \in Reply, held \in Held :
            Verdict(req[c], s, held) # 0 /\ Refuse(c, Verdict(req[c], s, held))
      BY <2>6 DEF RefuseChannel
    <3>2. /\ Verdict(req[c], s, held) \in Nat \ {0}
          /\ ~OK2xx(Verdict(req[c], s, held))
      BY <3>1, VerdictRange DEF OK2xx
    <3>. QED BY <2>6, <3>1, <3>2, RefuseSafe DEF RefuseChannel
  <2>7. CASE Dispatch(c)
    <3>1. \A d \in Call \ {c} : Untouched(d)
      BY <2>7 DEF Dispatch, Untouched, TypeOK, writing, settling
    <3>2. pc'[c] \in {"upstream", "bedrock"}
      BY <2>7 DEF Dispatch, TypeOK
    <3>3. CallInv(c)'
      BY <2>0, <2>7, <3>2 DEF Dispatch, CallInv, RelayInv, BillInv, SettledInv, Recorded,
                              TypeOK, writing, settling
    <3>. QED BY <2>7, <3>1, <3>3, StepInv DEF Dispatch, settling
  <2>8. CASE UpstreamFails(c)
    BY <2>8, RelayErrorSafe DEF UpstreamFails
  <2>9. CASE UpstreamAnswers(c)
    <3>1. PICK a \in Answer :
            /\ ans' = [ans EXCEPT ![c] = AsRead(req[c], Emitted(Forwarded(req[c]), a))]
            /\ status' = [status EXCEPT ![c] = OrElse(status[c], a.status)]
      BY <2>9 DEF UpstreamAnswers
    <3>2. a.status \in Nat /\ a.status > 0
      BY ReadAnswer
    <3>3. \A d \in Call \ {c} : Untouched(d)
      BY <2>9, <3>1 DEF UpstreamAnswers, Untouched, TypeOK, HandlingOK, WritingOK, settling
    <3>4. /\ status'[c] = a.status /\ ans'[c] = AsRead(req[c], Emitted(Forwarded(req[c]), a))
          /\ relayed'[c] = 0 /\ ~partial'[c] /\ ~errBody'[c] /\ bill[c] = NoBill
          /\ pc'[c] = IF Streams(req[c]) THEN "stream" ELSE "buffer"
      BY <2>0, <2>9, <3>1 DEF UpstreamAnswers, CallInv, RelayInv, BillInv, TypeOK,
                              HandlingOK, WritingOK, OrElse, settling
    <3>5. /\ ans'[c].status = a.status
          /\ ~Streams(req[c]) => Len(ans'[c].frames) = 1
          /\ Len(ans'[c].frames) \in Nat
      <4>1. ans'[c] \in AnswerShape
        BY <3>4, ReadAnswer
      <4>2. Len(ans'[c].frames) \in Nat
        BY <4>1 DEF AnswerShape
      <4>. QED BY <3>4, <4>2, ReadAnswer
    <3>6. CallInv(c)'
      BY <2>0, <2>9, <3>2, <3>4, <3>5 DEF UpstreamAnswers, CallInv, RelayInv, BillInv, SettledInv,
                                    Recorded, settling
    <3>. QED BY <2>9, <3>3, <3>4, <3>6, StepInv DEF UpstreamAnswers, settling
  <2>10. CASE RelayFrame(c)
    <3>1. \A d \in Call \ {c} : Untouched(d)
      BY <2>10 DEF RelayFrame, Untouched, TypeOK, WritingOK, handling, settling
    <3>2. relayed'[c] = relayed[c] + 1 /\ relayed[c] \in Nat /\ Len(ans[c].frames) \in Nat
      BY <2>10 DEF RelayFrame, TypeOK, WritingOK, HandlingOK, AnswerShape
    <3>3. CallInv(c)'
      BY <2>0, <2>10, <3>2 DEF RelayFrame, CallInv, RelayInv, BillInv, SettledInv, Recorded,
                               handling, settling
    <3>. QED BY <2>10, <3>1, <3>3, StepInv DEF RelayFrame, settling
  <2>11. CASE StreamEnds(c)
    <3>1. FinalizeUsage(usage[c]) \in Usage
      BY MergeUsageType DEF TypeOK
    <3>2. ans[c].status \in Nat \ {0}
      BY <2>0, <2>11 DEF StreamEnds, CallInv, RelayInv, TypeOK, WritingOK
    <3>. QED BY <2>0, <2>11, <3>1, <3>2, CompleteSafe DEF StreamEnds, CallInv, RelayInv, handling, writing
  <2>12. CASE RelayBody(c)
    <3>1. ans[c].frames[1] \in Chunk /\ ans[c].status \in Nat \ {0} /\ Len(ans[c].frames) = 1
      BY <2>0, <2>12 DEF RelayBody, CallInv, RelayInv, TypeOK, HandlingOK, AnswerShape
    <3>2. ZeroUsage \in Usage
      BY DEF ZeroUsage, Usage
    <3>3. Accumulate(req[c], ZeroUsage, ans[c].frames[1]) \in Usage
      BY <3>1, <3>2, AccumulateType DEF TypeOK, HandlingOK
    <3>4. /\ relayed'[c] = 1 /\ ~errBody'[c] /\ status'[c] = ans[c].status /\ ans' = ans
          /\ \A d \in Call \ {c} : relayed'[d] = relayed[d]
      BY <2>0, <2>12 DEF RelayBody, CallInv, RelayInv, TypeOK, WritingOK, handling
    <3>. QED BY <2>12, <3>1, <3>3, <3>4, CompleteSafe DEF RelayBody
  <2>13. CASE RelayBreaks(c)
    <3>1. \A d \in Call \ {c} : partial'[d] = partial[d]
      BY <2>13 DEF RelayBreaks, BreaksOff, TypeOK, WritingOK
    <3>. QED BY <2>13, <3>1, RelayErrorSafe DEF RelayBreaks
  <2>14. CASE BedrockFails(c)
    BY <2>14, RelayErrorSafe DEF BedrockFails
  <2>15. CASE BedrockRejects(c)
    <3>1. PICK a \in Answer :
            /\ ~OK2xx(a.status)
            /\ ans' = [ans EXCEPT ![c] = a]
            /\ WriteError(c, a.status)
            /\ Complete(c, ZeroUsage, a.status)
      BY <2>15 DEF BedrockRejects
    <3>2. a \in AnswerShape /\ a.status \in Nat \ {0} /\ ZeroUsage \in Usage
      BY AnswerAssumption DEF AnswerShape, ZeroUsage, Usage
    <3>3. /\ status'[c] = a.status /\ ans'[c] = a /\ relayed'[c] = 0
          /\ \A d \in Call \ {c} :
               /\ ans'[d] = ans[d]
               /\ status'[d] = status[d] /\ relayed'[d] = relayed[d] /\ errBody'[d] = errBody[d]
      BY <2>0, <2>15, <3>1 DEF BedrockRejects, WriteError, CallInv, RelayInv, TypeOK, WritingOK,
                               HandlingOK, OrElse
    <3>. QED BY <2>15, <3>1, <3>2, <3>3, CompleteSafe DEF BedrockRejects
  <2>16. CASE BedrockAnswers(c)
    <3>1. PICK a \in Answer :
            /\ a.framing = "body" /\ OK2xx(a.status)
            /\ ans' = [ans EXCEPT ![c] = a]
            /\ status' = [status EXCEPT ![c] = OrElse(status[c], a.status)]
            /\ relayed' = [relayed EXCEPT ![c] = 1]
            /\ Complete(c, NovaUsage(a.frames[1]), a.status)
      BY <2>16 DEF BedrockAnswers
    <3>2. /\ a \in AnswerShape /\ a.status \in Nat \ {0}
          /\ Len(a.frames) = 1 /\ a.frames[1] \in Chunk
      BY <3>1, OneBody
    <3>3. /\ status'[c] = a.status /\ ans'[c] = a /\ relayed'[c] = 1 /\ ~errBody'[c]
          /\ \A d \in Call \ {c} :
               /\ ans'[d] = ans[d]
               /\ status'[d] = status[d] /\ relayed'[d] = relayed[d] /\ errBody'[d] = errBody[d]
      BY <2>0, <2>16, <3>1 DEF BedrockAnswers, CallInv, RelayInv, TypeOK, WritingOK, HandlingOK, OrElse
    <3>4. NovaUsage(a.frames[1]) \in Usage
      BY <3>2, PeekUsageType
    <3>5. relayed'[c] = Len(ans'[c].frames)
      BY <3>2, <3>3
    <3>6. pc[c] = "bedrock" /\ partial' = partial
      BY <2>16 DEF BedrockAnswers
    <3>. QED BY <3>1, <3>2, <3>3, <3>4, <3>5, <3>6, CompleteSafe
  <2>17. CASE BedrockWriteFails(c)
    <3>1. \A d \in Call \ {c} : Untouched(d)
      BY <2>17 DEF BedrockWriteFails, BreaksOff, Untouched, TypeOK, HandlingOK, WritingOK, settling
    <3>2. /\ pc'[c] = "done" /\ ~errBody'[c] /\ bill[c] = NoBill
      BY <2>0, <2>17 DEF BedrockWriteFails, CallInv, RelayInv, BillInv, TypeOK
    <3>3. CallInv(c)'
      BY <2>0, <2>17, <3>2 DEF BedrockWriteFails, CallInv, RelayInv, BillInv, SettledInv,
                               Recorded, settling
    <3>. QED BY <2>17, <3>1, <3>2, <3>3, StepInv DEF BedrockWriteFails, settling
  <2>18. CASE PostSettle(c)
    <3>1. \A d \in Call \ {c} : Untouched(d)
      BY <2>18 DEF PostSettle, Untouched, TypeOK, handling, writing
    <3>2. pc'[c] = "settling"
      BY <2>18 DEF PostSettle, TypeOK
    <3>3. CallInv(c)'
      BY <2>0, <2>18, <3>2 DEF PostSettle, CallInv, RelayInv, BillInv, SettledInv, Recorded,
                               handling, writing
    <3>4. \A d \in Call : CallInv(d)'
      BY <2>18, <3>1, <3>3, UntouchedInv DEF PostSettle, SafetyInv, CallInv
    <3>5. PostInv'
      BY <2>0, <2>18 DEF PostSettle, SettlePost, SafetyInv, PostInv, CallInv, BillInv
    <3>6. LedgerInv'
      BY <2>18 DEF PostSettle, SafetyInv, LedgerInv
    <3>. QED BY <3>4, <3>5, <3>6 DEF SafetyInv, CallInv
  <2>19. CASE SettleUnreachable(c)
    BY <2>19, AttemptFailsSafe DEF SettleUnreachable
  <2>20. CASE SettleUnanswered(c)
    BY <2>20, AttemptFailsSafe DEF SettleUnanswered
  <2>21. CASE SettleReturns(c)
    <3>1. CASE AttemptFails(c)
      BY <2>21, <3>1, AttemptFailsSafe DEF SettleReturns
    <3>2. CASE ~AttemptFails(c)
      <4>1. \A d \in Call \ {c} : Untouched(d)
        BY <2>21, <3>2 DEF SettleReturns, Untouched, TypeOK, SettlingOK, handling, writing
      <4>2. /\ pc'[c] = "done"
            /\ \/ reply[c] = "ok" /\ logged'[c] = logged[c]
               \/ reply[c] = "rejected" /\ logged'[c]
        BY <2>21, <3>2 DEF SettleReturns, TypeOK, SettlingOK
      <4>3. CallInv(c)'
        BY <2>0, <2>21, <3>2, <4>2 DEF SettleReturns, CallInv, RelayInv, BillInv, SettledInv,
                                       Recorded, handling, writing
      <4>. QED BY <2>21, <3>2, <4>1, <4>3, StepInv DEF SettleReturns
    <3>. QED BY <3>1, <3>2
  <2>22. CASE ClientGone(c)
    <3>1. \A d \in Call : Untouched(d)
      BY <2>22 DEF ClientGone, Untouched, handling, writing, settling
    <3>2. CallInv(c)'
      BY <2>0, <2>22, <3>1, UntouchedInv DEF ClientGone, settling
    <3>. QED BY <2>22, <3>1, <3>2, StepInv DEF ClientGone, settling
  <2>. QED BY <1>1, <2>1, <2>2, <2>3, <2>4, <2>5, <2>6, <2>7, <2>8, <2>9, <2>10,
              <2>11, <2>12, <2>13, <2>14, <2>15, <2>16, <2>17, <2>18, <2>19,
              <2>20, <2>21, <2>22, <2>23 DEF Serve
<1>2. ASSUME NEW m \in wire, ReceiveSettle(m)
      PROVE  SafetyInv'
  <2>. USE DEF handling, writing
  <2>1. /\ m \in Message /\ bill[m.call] # NoBill
        /\ m.bill = bill[m.call] /\ m.id = IdOf[m.call] /\ m.call \in Call
    BY DEF TypeOK, SettlingOK, SafetyInv, PostInv, Message
  <2>2. /\ ledger' = ledger \/ (~Recorded(m.id) /\ OK2xx(m.bill.status) /\ ledger' = ledger \cup {m})
        /\ UNCHANGED <<pc, ans, status, relayed, partial, errBody, bill, attempt, logged>>
    BY <1>2 DEF ReceiveSettle, ChargeCall, AcknowledgeCall, TurnDownCall
  <2>3. \A d \in Call :
          \/ reply'[d] = reply[d]
          \/ d = m.call /\ reply'[d] \in {"rejected", "failed"}
          \/ d = m.call /\ reply'[d] = "ok" /\ (Recorded(m.id)' \/ ~OK2xx(m.bill.status))
    BY <1>2, <2>1 DEF ReceiveSettle, ChargeCall, AcknowledgeCall, TurnDownCall, Respond, Recorded,
                      TypeOK, SettlingOK
  <2>4. ASSUME NEW d \in Call
        PROVE  RelayInv(d)' /\ BillInv(d)' /\ SettledInv(d)'
    <3>1. RelayInv(d) /\ BillInv(d) /\ SettledInv(d)
      BY DEF SafetyInv
    <3>2. RelayInv(d)'
      BY <2>2, <3>1 DEF RelayInv, Waiting, OK2xx
    <3>3. BillInv(d)'
      <4>1. bill[d] = NoBill => reply'[d] = reply[d]
        BY <2>1, <2>3
      <4>. QED BY <2>2, <3>1, <4>1 DEF BillInv, OK2xx
    <3>4. Recorded(IdOf[d]) => Recorded(IdOf[d])'
      BY <2>2 DEF Recorded
    <3>5. SettledInv(d)'
      BY <2>1, <2>2, <2>3, <3>1, <3>4 DEF SettledInv, OK2xx
    <3>. QED BY <3>2, <3>3, <3>5
  <2>5. PostInv'
    BY <1>2, <2>1, <2>2 DEF ReceiveSettle, SafetyInv, PostInv
  <2>6. LedgerInv'
    BY <2>2 DEF SafetyInv, LedgerInv, Recorded, OK2xx
  <2>. QED BY <2>4, <2>5, <2>6 DEF SafetyInv
<1>3. ASSUME NEW m \in wire, LoseSettle(m)
      PROVE  SafetyInv'
  <2>1. \A d \in Call : Untouched(d)
    BY <1>3 DEF LoseSettle, Untouched, handling, writing
  <2>2. \A d \in Call : CallInv(d)'
    BY <1>3, <2>1, UntouchedInv DEF LoseSettle, SafetyInv, CallInv
  <2>3. PostInv' /\ LedgerInv'
    BY <1>3 DEF LoseSettle, SafetyInv, PostInv, LedgerInv
  <2>. QED BY <2>2, <2>3 DEF SafetyInv, CallInv
<1>4. CASE Crash
  <2>. USE DEF handling, writing, settling
  <2>1. UNCHANGED <<ans, status, relayed, partial, errBody, bill, attempt, reply, logged, wire, ledger>>
    BY <1>4 DEF Crash
  <2>2. ASSUME NEW d \in Call
        PROVE  RelayInv(d)' /\ BillInv(d)' /\ SettledInv(d)'
    <3>1. RelayInv(d) /\ BillInv(d) /\ SettledInv(d)
      BY DEF SafetyInv
    <3>2. \/ pc'[d] = "lost"
          \/ pc'[d] = pc[d]
      BY <1>4 DEF Crash
    <3>3. RelayInv(d)'
      BY <2>1, <3>1, <3>2 DEF RelayInv, Waiting, OK2xx
    <3>4. BillInv(d)'
      BY <2>1, <3>1, <3>2 DEF BillInv, OK2xx
    <3>5. SettledInv(d)'
      BY <2>1, <3>1, <3>2 DEF SettledInv, Recorded, OK2xx
    <3>. QED BY <3>3, <3>4, <3>5
  <2>3. PostInv' /\ LedgerInv'
    BY <2>1 DEF SafetyInv, PostInv, LedgerInv
  <2>. QED BY <2>2, <2>3 DEF SafetyInv
<1>5. CASE Stop \/ UNCHANGED vars
  <2>1. /\ UNCHANGED <<pc, ans, status, relayed, partial, errBody, bill, attempt, reply, logged>>
        /\ UNCHANGED <<wire, ledger>>
    BY <1>5 DEF Stop, vars
  <2>2. \A d \in Call : CallInv(d)'
    BY <2>1, UntouchedInv DEF Untouched, SafetyInv, CallInv
  <2>3. PostInv' /\ LedgerInv'
    BY <2>1 DEF SafetyInv, PostInv, LedgerInv
  <2>. QED BY <2>2, <2>3 DEF SafetyInv, CallInv
<1>. QED BY <1>1, <1>2, <1>3, <1>4, <1>5 DEF Next

-----------------------------------------------------------------------------
(* Theorems *)

LEMMA InvInit ==
  ASSUME Init
  PROVE  IInv
<1>1. TypeOK
  <2>1. /\ NoRequest \in RequestShape
        /\ NoTarget \in TargetShape
        /\ NoAnswer \in AnswerShape
        /\ ZeroUsage \in Usage
    BY DEF NoRequest, RequestShape, Path, NoTarget, TargetShape, NoURL, NoBase, Header, Rewrite,
           NoAnswer, AnswerShape, ZeroUsage, Usage
  <2>. QED BY <2>1 DEF Init, TypeOK, HandlingOK, WritingOK, SettlingOK, Control, MaxAttempts
<1>2. SafetyInv
  BY DEF Init, SafetyInv, RelayInv, BillInv, SettledInv, PostInv, LedgerInv, Recorded, Waiting
<1>. QED BY <1>1, <1>2 DEF IInv

\* The inductive invariant holds in every reachable state.
THEOREM Invariance == Spec => []IInv
<1>1. IInv /\ [Next]_vars => IInv'
  BY TypeStep, SafetyStep DEF IInv
<1>. QED BY <1>1, InvInit, PTL DEF Spec

\* Every reachable state is well typed: no settlement is attempted more than
\* MaxAttempts times, and only complete bills are posted or charged.
THEOREM TypeCorrect == Spec => []TypeOK
BY Invariance, PTL DEF IInv

\* A charged call was served in full, whatever the client, the upstream, the
\* network and the control plane do, and across crashes.
THEOREM ChargesAreServed == Spec => []ChargedIsServed
<1>1. IInv => ChargedIsServed
  BY DEF IInv, SafetyInv, PostInv, LedgerInv, BillInv, ChargedIsServed, TypeOK, SettlingOK, Message
<1>. QED BY <1>1, Invariance, PTL

\* No X-Request-Id is ever charged twice.
THEOREM ChargesAreUnique == Spec => []ChargedOnce
<1>1. IInv => ChargedOnce
  BY DEF IInv, SafetyInv, PostInv, LedgerInv, ChargedOnce
<1>. QED BY <1>1, Invariance, PTL

\* The relay's error object never mixes with upstream content.
THEOREM ErrorsStandAlone == Spec => []ErrorStandsAlone
<1>1. IInv => ErrorStandsAlone
  BY DEF IInv, SafetyInv, RelayInv, ErrorStandsAlone
<1>. QED BY <1>1, Invariance, PTL

\* The request id of a served call is charged, or its failed settlement is in
\* the log.
THEOREM ServedAreAccounted == Spec => []ServedIsAccounted
<1>1. IInv => ServedIsAccounted
  BY DEF IInv, SafetyInv, PostInv, SettledInv, Recorded, ServedIsAccounted, Charged,
         TypeOK, SettlingOK, Message
<1>. QED BY <1>1, Invariance, PTL

DistinctIds == \A c, d \in Call : IdOf[c] = IdOf[d] => c = d

\* When no two calls share a request id, the charge is for that very call.
THEOREM OwnIdsAreCharged ==
  ASSUME DistinctIds
  PROVE  Spec => [](\A c \in Call :
           pc[c] = "done" /\ bill[c] # NoBill /\ OK2xx(bill[c].status)
           => (\E e \in ledger : e.call = c) \/ logged[c])
<1> DEFINE OwnIsAccounted ==
      \A c \in Call :
        pc[c] = "done" /\ bill[c] # NoBill /\ OK2xx(bill[c].status)
        => (\E e \in ledger : e.call = c) \/ logged[c]
<1>1. IInv /\ ServedIsAccounted => OwnIsAccounted
  <2>. SUFFICES ASSUME IInv, ServedIsAccounted
                PROVE  OwnIsAccounted
    OBVIOUS
  <2>1. \A e \in ledger : e.call \in Call
    BY DEF IInv, TypeOK, SettlingOK, Message
  <2>. QED BY <2>1 DEF ServedIsAccounted, Charged, DistinctIds
<1>. HIDE DEF OwnIsAccounted
<1>2. Spec => []OwnIsAccounted
  BY <1>1, Invariance, ServedAreAccounted, PTL
<1>. QED BY <1>2 DEF OwnIsAccounted

-----------------------------------------------------------------------------
(* The relay and the control plane implement Billing *)

\* The accounts of the ledger.
Accounts == [c \in Call |-> Account(c)]

\* A handler fixes the bill of its own call once, and never charges it.
LEMMA HandlerOwes ==
  ASSUME IInv, NEW c \in Call, Serve(c) \/ ClientGone(c)
  PROVE  /\ ledger' = ledger
         /\ bill' = bill \/ Ledger!Owe(c)
<1>. USE DEF handling, writing, settling, Refuse, RelayError, AttemptFails
<1>1. ASSUME NEW u \in Usage, NEW code \in Nat, Complete(c, u, code),
             pc[c] \in {"bedrock", "stream", "buffer"}
      PROVE  ledger' = ledger /\ Ledger!Owe(c)
  <2>1. bill[c] = NoBill /\ bill \in [Call -> Bill \cup {NoBill}]
    BY <1>1 DEF IInv, TypeOK, SettlingOK, SafetyInv, BillInv
  <2>2. SettleRequest(req[c], u, code) \in Bill
    BY <1>1, SettleRequestType DEF IInv, TypeOK, HandlingOK
  <2>3. /\ ledger' = ledger
        /\ bill' = [bill EXCEPT ![c] = SettleRequest(req[c], u, code)]
    BY <1>1 DEF Complete
  <2>4. bill'[c] \in Bill /\ bill' = [bill EXCEPT ![c] = bill'[c]]
    BY <2>1, <2>2, <2>3
  <2>5. Accounts' = Accounts
    BY <2>3 DEF Accounts, Account
  <2>. QED BY <2>1, <2>3, <2>4, <2>5 DEF Ledger!Owe, Accounts
<1>2. CASE StreamEnds(c)
  <2>1. FinalizeUsage(usage[c]) \in Usage /\ ans[c].status \in Nat
    BY MergeUsageType DEF IInv, TypeOK, HandlingOK, AnswerShape
  <2>. QED BY <1>1, <1>2, <2>1 DEF StreamEnds
<1>3. CASE RelayBody(c)
  <2>1. /\ ans[c].frames[1] \in Chunk /\ ans[c].status \in Nat
        /\ ZeroUsage \in Usage /\ req[c] \in RequestShape
    BY <1>3 DEF RelayBody, IInv, SafetyInv, RelayInv, TypeOK, HandlingOK, AnswerShape, ZeroUsage, Usage
  <2>2. Accumulate(req[c], ZeroUsage, ans[c].frames[1]) \in Usage
    BY <2>1, AccumulateType
  <2>. QED BY <1>1, <1>3, <2>1, <2>2 DEF RelayBody
<1>4. CASE BedrockRejects(c)
  <2>1. PICK a \in Answer : Complete(c, ZeroUsage, a.status)
    BY <1>4 DEF BedrockRejects
  <2>2. a.status \in Nat /\ ZeroUsage \in Usage
    BY AnswerAssumption DEF AnswerShape, ZeroUsage, Usage
  <2>. QED BY <1>1, <1>4, <2>1, <2>2 DEF BedrockRejects
<1>5. CASE BedrockAnswers(c)
  <2>1. PICK a \in Answer : a.framing = "body" /\ Complete(c, NovaUsage(a.frames[1]), a.status)
    BY <1>5 DEF BedrockAnswers
  <2>2. a.status \in Nat /\ a.frames[1] \in Chunk
    BY <2>1, OneBody
  <2>3. NovaUsage(a.frames[1]) \in Usage
    BY <2>2, PeekUsageType
  <2>. QED BY <1>1, <1>5, <2>1, <2>2, <2>3 DEF BedrockAnswers
<1>6. CASE ~(StreamEnds(c) \/ RelayBody(c) \/ BedrockRejects(c) \/ BedrockAnswers(c))
  BY <1>6 DEF Serve, Arrive, ReadBodyFails, RefuseRequest, PanicOnOptions, AskControlPlane, SelectFails,
              RefuseChannel, Dispatch, UpstreamFails, UpstreamAnswers, RelayFrame, RelayBreaks,
              BedrockFails, BedrockWriteFails, PostSettle, SettleUnreachable,
              SettleUnanswered, SettleReturns, ClientGone
<1>. QED BY <1>2, <1>3, <1>4, <1>5, <1>6

\* The control plane charges what is owed, on an account still empty.
LEMMA ReceiptCharges ==
  ASSUME IInv, NEW m \in wire, ReceiveSettle(m)
  PROVE  bill' = bill /\ (ledger' = ledger \/ Ledger!Charge(m.call))
<1>1. bill' = bill
  BY DEF ReceiveSettle
<1>2. /\ m.call \in Call /\ m.attempt \in 0 .. MaxAttempts
      /\ bill[m.call] # NoBill /\ m.bill = bill[m.call] /\ m.id = IdOf[m.call]
  BY DEF IInv, TypeOK, SettlingOK, SafetyInv, PostInv, Message
<1>3. ASSUME ledger' # ledger
      PROVE  Ledger!Charge(m.call)
  <2>1. ~Recorded(m.id) /\ ledger' = ledger \cup {m}
    BY <1>3 DEF ReceiveSettle, ChargeCall, AcknowledgeCall, TurnDownCall
  <2>2. \A e \in ledger : e.call # m.call
    BY <1>2, <2>1 DEF Recorded, IInv, SafetyInv, PostInv
  <2>3. Account(m.call) = {}
    BY <2>2 DEF Account
  <2>4. Account(m.call)' = {[receipt |-> m.attempt, bill |-> bill[m.call]]}
    BY <1>2, <2>1, <2>2 DEF Account
  <2>5. \A d \in Call \ {m.call} : Account(d)' = Account(d)
    BY <2>1 DEF Account
  <2>6. Accounts' = [Accounts EXCEPT ![m.call] = {[receipt |-> m.attempt, bill |-> bill[m.call]]}]
    BY <1>2, <2>4, <2>5 DEF Accounts
  <2>7. Accounts[m.call] = {}
    BY <1>2, <2>3 DEF Accounts
  <2>. QED BY <1>1, <1>2, <2>6, <2>7 DEF Ledger!Charge, Accounts
<1>. QED BY <1>1, <1>3

\* The relay and the control plane together keep the billing promise: a bill
\* is fixed once, and charged at most once, for the amount it was fixed at.
THEOREM ImplementsBilling == Spec => BillingSpec
<1>1. Init => Ledger!Init
  BY DEF Init, Ledger!Init, Account
<1>2. IInv /\ [Next]_vars => [Ledger!Next]_<<bill, Accounts>>
  <2>. SUFFICES ASSUME IInv, [Next]_vars
                PROVE  [Ledger!Next]_<<bill, Accounts>>
    OBVIOUS
  <2>1. ASSUME bill' = bill, ledger' = ledger
        PROVE  UNCHANGED <<bill, Accounts>>
    BY <2>1 DEF Accounts, Account
  <2>2. ASSUME NEW c \in Call, Serve(c) \/ ClientGone(c)
        PROVE  [Ledger!Next]_<<bill, Accounts>>
    BY <2>1, <2>2, HandlerOwes DEF Ledger!Next
  <2>3. ASSUME NEW m \in wire, ReceiveSettle(m)
        PROVE  [Ledger!Next]_<<bill, Accounts>>
    <3>1. m.call \in Call
      BY DEF IInv, TypeOK, SettlingOK, Message
    <3>. QED BY <2>1, <2>3, <3>1, ReceiptCharges DEF Ledger!Next
  <2>4. ASSUME NEW m \in wire, LoseSettle(m)
        PROVE  [Ledger!Next]_<<bill, Accounts>>
    BY <2>1, <2>4 DEF LoseSettle
  <2>5. CASE Crash \/ Stop \/ UNCHANGED vars
    BY <2>1, <2>5 DEF Crash, Stop, vars, settling
  <2>. QED BY <2>2, <2>3, <2>4, <2>5 DEF Next
<1>. QED BY <1>1, <1>2, Invariance, PTL DEF Spec, BillingSpec, Ledger!Spec, Accounts
=============================================================================
