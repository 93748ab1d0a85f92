------------------------- MODULE AttestationProofs -------------------------
(***************************************************************************)
(* Proofs about Attestation, for any set of builds and any set of          *)
(* processes: however often the relay is restarted between connections.    *)
(***************************************************************************)
EXTENDS Attestation, TLAPS

\* A process keeps its certificate, whose quote names the process's own key
\* and build.
CertInv ==
  /\ serving # None => certs[serving] # NoCert
  /\ \A p \in Process : certs[p].quote # NoQuote => certs[p].quote = QuoteOf(p, certs[p].build)

\* What the script knows at each point about whom it has heard.
HeardInv ==
  /\ quote # NoQuote =>
       /\ heard["quote"] \in Process
       /\ quote = certs[heard["quote"]].quote
       /\ quote.mrenclave = Pinned
  /\ pc = "fetch" => quote = NoQuote
  /\ quote = NoQuote => binding = "none" /\ pc \in {"fetch", "failed"}
  /\ pc \in {"fetch", "bind"} => heard["bind"] = None /\ binding = "none"
  /\ binding = "ok" => heard["bind"] = heard["quote"] /\ quote # NoQuote
  /\ binding = "none" => heard["bind"] = None /\ heard["repin"] = None
  /\ binding = "failed" => pc = "refused" /\ heard["bind"] \notin {None, heard["quote"]}
  /\ pc \in {"fetch", "bind", "verdict", "repin"} => heard["repin"] = None
  /\ heard["repin"] # None /\ pc # "refused" => heard["repin"] = heard["quote"]
  /\ pc \in {"repin", "post"} => binding = "ok"
  /\ pc = "post" => heard["repin"] = heard["quote"]
  /\ pc = "refused" => heard["prompt"] = None
  /\ heard["prompt"] # None => binding = "ok" /\ heard["repin"] = heard["quote"]
  /\ pc = "refused" =>
       \E k \in {"bind", "repin"} : heard[k] \notin {None, heard["quote"]}

Inv == TypeOK /\ CertInv /\ HeardInv

\* The invariant holds initially.
LEMMA InvInit == Init => Inv
BY NoneAssumption DEF Init, Inv, TypeOK, CertInv, HeardInv, Connection, NoQuote, NoCert, Cert

\* A quote is not the absence of one.
LEMMA QuoteIsSome ==
  ASSUME NEW p \in Process, NEW b \in Build
  PROVE  QuoteOf(p, b) \in Quote /\ QuoteOf(p, b) # NoQuote
BY NoneAssumption DEF QuoteOf, Quote, NoQuote

\* Restarts leave alone what the script has heard: a process that has been
\* heard has its certificate, and only unused ones get a new one.
LEMMA DeploymentKeeps ==
  ASSUME Inv, (\E p \in Process : BuildCert(p)) \/ ProcessExits
  PROVE  Inv'
<1>1. ASSUME NEW p \in Process, BuildCert(p)
      PROVE  Inv'
  <2>1. PICK b \in Build : \E q \in {QuoteOf(p, b), NoQuote} :
          certs' = [certs EXCEPT ![p] = [build |-> b, quote |-> q]]
    BY <1>1 DEF BuildCert
  <2>2. PICK q \in {QuoteOf(p, b), NoQuote} :
          certs' = [certs EXCEPT ![p] = [build |-> b, quote |-> q]]
    BY <2>1
  <2>3. [build |-> b, quote |-> q] \in Cert
    BY <2>2, QuoteIsSome DEF Cert
  <2>4. TypeOK'
    BY <1>1, <2>2, <2>3 DEF BuildCert, Inv, TypeOK
  <2>5. CertInv'
    <3>1. certs'[p] = [build |-> b, quote |-> q] /\ serving' = p
      BY <1>1, <2>2 DEF BuildCert, Inv, TypeOK
    <3>2. certs'[p] # NoCert
      BY <3>1, NoneAssumption DEF NoCert
    <3>3. certs'[p].quote # NoQuote => certs'[p].quote = QuoteOf(p, certs'[p].build)
      BY <3>1
    <3>4. ASSUME NEW r \in Process, r # p
          PROVE  certs'[r] = certs[r]
      BY <2>2, <3>4 DEF Inv, TypeOK
    <3>5. ASSUME NEW r \in Process, certs'[r].quote # NoQuote
          PROVE  certs'[r].quote = QuoteOf(r, certs'[r].build)
      BY <3>3, <3>4, <3>5 DEF Inv, CertInv
    <3>. QED BY <3>1, <3>2, <3>5 DEF CertInv
  <2>6. quote # NoQuote => heard["quote"] # p
    BY <1>1 DEF BuildCert, Inv, HeardInv, NoCert
  <2>7. quote # NoQuote => certs'[heard["quote"]] = certs[heard["quote"]]
    <3>. SUFFICES ASSUME quote # NoQuote
                  PROVE  certs'[heard["quote"]] = certs[heard["quote"]]
      OBVIOUS
    <3>1. heard["quote"] \in Process
      BY DEF Inv, HeardInv
    <3>. QED BY <2>2, <2>6, <3>1 DEF Inv, TypeOK
  <2>8. HeardInv'
    BY <1>1, <2>7 DEF BuildCert, Inv, HeardInv
  <2>. QED BY <2>4, <2>5, <2>8 DEF Inv
<1>2. CASE ProcessExits
  BY <1>2 DEF ProcessExits, Inv, TypeOK, CertInv, HeardInv
<1>. QED BY <1>1, <1>2

\* The quote the script holds is of a process it has heard, that runs the
\* pinned build.
LEMMA AttestedProcess ==
  ASSUME Inv, quote # NoQuote
  PROVE  /\ heard["quote"] \in Process /\ heard["quote"] # None
         /\ quote.reportData = heard["quote"]
         /\ certs[heard["quote"]].build = Pinned
<1>1. /\ heard["quote"] \in Process
      /\ quote = certs[heard["quote"]].quote
      /\ quote.mrenclave = Pinned
  BY DEF Inv, HeardInv
<1>2. quote = QuoteOf(heard["quote"], certs[heard["quote"]].build)
  BY <1>1 DEF Inv, CertInv
<1>3. /\ quote.reportData = heard["quote"]
      /\ quote.mrenclave = certs[heard["quote"]].build
  BY <1>2, Zenon DEF QuoteOf
<1>. QED BY <1>1, <1>3, NoneAssumption

\* A comparison of keys compares processes.
LEMMA KeysAreProcesses ==
  ASSUME Inv, quote # NoQuote
  PROVE  KeyMatches <=> serving = heard["quote"]
BY AttestedProcess DEF KeyMatches

\* Every step of the script keeps the invariant.
LEMMA ScriptKeeps ==
  ASSUME Inv,
         \/ ConnectionFails \/ FetchAttestation \/ CheckBinding \/ SkipBinding
         \/ Finish \/ StartPrompt \/ Repin \/ PostPrompt
  PROVE  Inv'
<1>1. CASE ConnectionFails
  BY <1>1 DEF ConnectionFails, Inv, TypeOK, CertInv, HeardInv
<1>2. CASE FetchAttestation
  <2>1. serving \in Process /\ certs[serving] \in Cert
    BY <1>2 DEF FetchAttestation, Inv, TypeOK, CertInv
  <2>2. certs[serving].quote \in Quote \cup {NoQuote}
    BY <2>1 DEF Cert
  <2>3. TypeOK'
    BY <1>2, <2>1, <2>2 DEF FetchAttestation, Hear, Inv, TypeOK, Connection
  <2>4. CertInv'
    BY <1>2 DEF FetchAttestation, Inv, CertInv
  <2>5. HeardInv'
    BY <1>2, <2>1 DEF FetchAttestation, Hear, PinMatches, Inv, TypeOK, HeardInv, Connection
  <2>. QED BY <2>3, <2>4, <2>5 DEF Inv
<1>3. CASE CheckBinding
  <2>1. quote # NoQuote
    BY <1>3 DEF CheckBinding, Inv, HeardInv
  <2>2. TypeOK' /\ CertInv'
    BY <1>3, <2>1 DEF CheckBinding, Hear, Inv, TypeOK, CertInv, Connection
  <2>3. HeardInv'
    BY <1>3, <2>1, KeysAreProcesses, AttestedProcess DEF CheckBinding, Hear, Inv, TypeOK, HeardInv, Connection
  <2>. QED BY <2>2, <2>3 DEF Inv
<1>4. CASE SkipBinding \/ Finish \/ StartPrompt
  BY <1>4 DEF SkipBinding, Finish, StartPrompt, Inv, TypeOK, CertInv, HeardInv
<1>5. CASE Repin
  <2>1. quote # NoQuote
    BY <1>5 DEF Repin, Inv, HeardInv
  <2>2. TypeOK' /\ CertInv'
    BY <1>5, <2>1 DEF Repin, Hear, Inv, TypeOK, CertInv, Connection
  <2>3. HeardInv'
    BY <1>5, <2>1, KeysAreProcesses, AttestedProcess DEF Repin, Hear, Inv, TypeOK, HeardInv, Connection
  <2>. QED BY <2>2, <2>3 DEF Inv
<1>6. CASE PostPrompt
  BY <1>6 DEF PostPrompt, Hear, Inv, TypeOK, CertInv, HeardInv, Connection
<1>. QED BY <1>1, <1>2, <1>3, <1>4, <1>5, <1>6

\* Every reachable state satisfies the invariant.
THEOREM Invariance == Spec => []Inv
<1>1. Inv /\ [Next]_vars => Inv'
  <2>1. ASSUME Inv, UNCHANGED vars
        PROVE  Inv'
    BY <2>1 DEF vars, Inv, TypeOK, CertInv, HeardInv
  <2>. QED BY <2>1, DeploymentKeeps, ScriptKeeps DEF Next
<1>. QED BY <1>1, InvInit, PTL DEF Spec

\* Types, and a quote of the pinned build past check 2.
THEOREM TypeCorrect == Spec => []TypeOK
<1>1. Inv => TypeOK
  BY DEF Inv
<1>. QED BY <1>1, Invariance, PTL

\* Check 3 and the re-pin refuse exactly when a restart came between.
THEOREM BindingTellsRestarts == Spec => []BindingIsExact
<1>1. ASSUME Inv
      PROVE  BindingIsExact
  <2>1. pc = "refused" =>
          \E k \in {"bind", "repin"} : heard[k] \notin {None, heard["quote"]}
    BY <1>1 DEF Inv, HeardInv
  <2>2. ASSUME heard["bind"] \notin {None, heard["quote"]}
        PROVE  pc = "refused"
    <3>1. binding # "none" /\ binding # "ok"
      BY <1>1, <2>2 DEF Inv, HeardInv
    <3>2. binding = "failed"
      BY <1>1, <3>1 DEF Inv, TypeOK
    <3>. QED BY <1>1, <3>2 DEF Inv, HeardInv
  <2>3. ASSUME heard["repin"] \notin {None, heard["quote"]}
        PROVE  pc = "refused"
    BY <1>1, <2>3 DEF Inv, HeardInv
  <2>. QED BY <2>1, <2>2, <2>3 DEF BindingIsExact
<1>. QED BY <1>1, Invariance, PTL

\* The process that passed check 3 runs the build that was asked for.
THEOREM BoundIsPinned == Spec => []BoundRunsPinned
<1>1. ASSUME Inv
      PROVE  BoundRunsPinned
  <2>. SUFFICES ASSUME binding = "ok"
                PROVE  certs[heard["bind"]].build = Pinned
    BY DEF BoundRunsPinned
  <2>1. heard["bind"] = heard["quote"] /\ quote # NoQuote
    BY <1>1 DEF Inv, HeardInv
  <2>. QED BY <1>1, <2>1, AttestedProcess
<1>. QED BY <1>1, Invariance, PTL

\* A prompt is sent only after the re-pin has met the attested process.
THEOREM PromptsFollowRepin == Spec => []PromptAfterRepin
<1>1. ASSUME Inv
      PROVE  PromptAfterRepin
  <2>. SUFFICES ASSUME heard["prompt"] # None
                PROVE  /\ binding = "ok"
                       /\ heard["repin"] = heard["quote"]
                       /\ heard["bind"] = heard["quote"]
                       /\ certs[heard["repin"]].build = Pinned
    BY DEF PromptAfterRepin
  <2>1. binding = "ok" /\ heard["repin"] = heard["quote"]
    BY <1>1 DEF Inv, HeardInv
  <2>2. heard["bind"] = heard["quote"] /\ quote # NoQuote
    BY <1>1, <2>1 DEF Inv, HeardInv
  <2>. QED BY <1>1, <2>1, <2>2, AttestedProcess
<1>. QED BY <1>1, Invariance, PTL
=============================================================================
