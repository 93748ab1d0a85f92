------------------------- MODULE RelayVerifyProofs -------------------------
(***************************************************************************)
(* Proofs about RelayVerify, for any set of processes, builds and command  *)
(* lines.  The script and the deployment keep the invariant that           *)
(* AttestationProofs has shown; relay-verify reads their state and leaves  *)
(* it alone.                                                               *)
(***************************************************************************)
EXTENDS RelayVerify, AttestationProofs

\* What the script refused by its checks 1 and 2 was no quote of the pinned
\* build.
RefusalInv ==
  heard["quote"] # None /\ quote = NoQuote =>
    LET q == certs[heard["quote"]].quote IN q = NoQuote \/ ~PinMatches(q)

\* A process that has been heard or looked at has a certificate, which it
\* keeps.
StartedInv ==
  /\ heard["quote"] # None => heard["quote"] \in Process /\ certs[heard["quote"]] # NoCert
  /\ leaf.key \in Process => certs[leaf.key] # NoCert

\* The quote is that of a process that has started.
OfProcess(q) ==
  \E p \in Process : certs[p] # NoCert /\ q = QuoteOf(p, certs[p].build)

\* A process presents its own certificate; a genuine quote that names the
\* pinned build is one of a process.
LeafInv ==
  /\ leaf.key \in Process => leaf = CertOf(leaf.key)
  /\ leaf = NoLeaf <=> stage \in {"dial", "unreachable"}
  /\ leaf.key = None => leaf = NoLeaf
  /\ leaf.kind \in {"genuine", "forged"} <=> leaf.quote # NoQuote
  /\ leaf.kind = "genuine" => leaf.quote.mrenclave # Pinned \/ OfProcess(leaf.quote)

\* relay-verify has come as far as its checks allow.
StageInv ==
  /\ stage = "dial" => chain = "unchecked"
  /\ stage = "noQuote" => ~Extracted(leaf)
  /\ stage = "chain" => options.dcapVerify /\ chain = "unchecked"
  /\ chain # "unchecked" => chain \in VerifiesAs(leaf)
  /\ stage \in {"judge", "passed"} => chain = "unchecked" \/ ChainAccepted(chain)
  /\ stage = "judge" /\ chain = "unchecked" => ~options.dcapVerify
  /\ stage = "malformed" => ~Parsed(leaf)
  /\ stage = "mismatch" => ~Measured(leaf)
  /\ stage = "unbound" => ~Bound(leaf)
  /\ stage \in {"mismatch", "unbound", "partial", "passed"} => Parsed(leaf)
  /\ stage \in {"passed", "partial"} => Measured(leaf) /\ Bound(leaf)
  /\ stage = "passed" => chain # "unchecked"
  /\ stage = "partial" => chain = "unchecked" /\ ~options.dcapVerify

BothInv == Inv /\ VerifierTypeOK /\ RefusalInv /\ StartedInv /\ LeafInv /\ StageInv

\* The invariant holds initially.
LEMMA BothInvInit == BothInit => BothInv
<1>. SUFFICES ASSUME BothInit PROVE BothInv
  OBVIOUS
<1>1. Inv
  BY InvInit DEF BothInit
<1>2. leaf.key = None /\ leaf.kind = "none" /\ leaf.quote = NoQuote
  BY DEF BothInit, VerifierInit, NoLeaf, Leaf
<1>3. VerifierTypeOK
  BY DEF BothInit, VerifierInit, VerifierTypeOK, NoLeaf, Leaf, Kind
<1>4. RefusalInv /\ StartedInv /\ LeafInv /\ StageInv
  BY <1>2, NoneAssumption DEF BothInit, Init, VerifierInit, RefusalInv, StartedInv, LeafInv, StageInv,
     Connection
<1>. QED BY <1>1, <1>3, <1>4 DEF BothInv

\* A certificate, once built, is never replaced.
LEMMA CertsAreKept ==
  ASSUME Inv, Next, NEW p \in Process, certs[p] # NoCert
  PROVE  certs'[p] = certs[p]
<1>1. CASE \E r \in Process : BuildCert(r)
  <2>1. PICK r \in Process : BuildCert(r)
    BY <1>1
  <2>2. p # r
    BY <2>1 DEF BuildCert
  <2>. QED BY <2>1, <2>2 DEF BuildCert, Inv, TypeOK
<1>2. CASE UNCHANGED certs
  BY <1>2
<1>. QED BY <1>1, <1>2 DEF Next, ProcessExits, ConnectionFails, FetchAttestation, CheckBinding,
       SkipBinding, Finish, StartPrompt, Repin, PostPrompt

\* A step of the deployment or the script keeps the invariant.
LEMMA OthersKeep ==
  ASSUME BothInv, Next, UNCHANGED verifierVars
  PROVE  BothInv'
<1>1. Inv'
  BY DeploymentKeeps, ScriptKeeps DEF BothInv, Next
<1>2. VerifierTypeOK'
  BY DEF BothInv, VerifierTypeOK, verifierVars
<1>3. ASSUME NEW p \in Process, certs[p] # NoCert
      PROVE  certs'[p] = certs[p]
  BY <1>3, CertsAreKept DEF BothInv
<1>4. LeafInv' /\ StageInv'
  <2>1. leaf.key \in Process => CertOf(leaf.key)' = CertOf(leaf.key)
    BY <1>3 DEF BothInv, StartedInv, verifierVars, CertOf, Leaf
  <2>2. OfProcess(leaf.quote) => OfProcess(leaf.quote)'
    BY <1>3 DEF OfProcess, verifierVars
  <2>3. LeafInv'
    BY <2>1, <2>2 DEF BothInv, LeafInv, verifierVars
  <2>4. StageInv'
    BY DEF BothInv, StageInv, verifierVars, ChainAccepted, VerifiesAs, Extracted, Parsed, Measured,
           Bound
  <2>. QED BY <2>3, <2>4
<1>5. CASE FetchAttestation
  <2>1. serving \in Process /\ certs[serving] # NoCert /\ serving # None
    BY <1>5 DEF FetchAttestation, BothInv, Inv, TypeOK, CertInv
  <2>2. heard'["quote"] = serving /\ certs' = certs
    BY <1>5 DEF FetchAttestation, Hear, BothInv, Inv, TypeOK, Connection
  <2>3. RefusalInv'
    BY <1>5, <2>2 DEF FetchAttestation, RefusalInv, PinMatches, BothInv, Inv, HeardInv
  <2>4. StartedInv'
    BY <2>1, <2>2 DEF StartedInv, BothInv, verifierVars
  <2>. QED BY <1>1, <1>2, <1>4, <2>3, <2>4 DEF BothInv
<1>6. CASE ~FetchAttestation
  <2>1. heard'["quote"] = heard["quote"] /\ quote' = quote
    BY <1>6 DEF Next, BuildCert, ProcessExits, ConnectionFails, CheckBinding, SkipBinding, Finish,
         StartPrompt, Repin, PostPrompt, Hear, BothInv, Inv, TypeOK, Connection
  <2>2. RefusalInv'
    BY <1>3, <2>1 DEF RefusalInv, StartedInv, BothInv, PinMatches
  <2>3. StartedInv'
    BY <1>3, <2>1 DEF StartedInv, BothInv, verifierVars
  <2>. QED BY <1>1, <1>2, <1>4, <2>2, <2>3 DEF BothInv
<1>. QED BY <1>5, <1>6

\* A process with a quote shows one that names its key and its build.
LEMMA ProcessShowsItself ==
  ASSUME BothInv, leaf.key \in Process, leaf.quote # NoQuote
  PROVE  /\ leaf.quote = certs[leaf.key].quote
         /\ leaf.quote.reportData = leaf.key
<1>1. leaf.quote = certs[leaf.key].quote
  BY DEF BothInv, LeafInv, CertOf, Leaf
<1>2. leaf.quote = QuoteOf(leaf.key, certs[leaf.key].build)
  BY <1>1 DEF BothInv, Inv, CertInv
<1>. QED BY <1>1, <1>2 DEF QuoteOf

\* Whatever is presented is a certificate of one kind, a process's own or, if
\* genuine and of the pinned build, with the quote of a process.
LEMMA Presented ==
  ASSUME BothInv, NEW l, (serving # None /\ l = CertOf(serving)) \/ l \in ForeignCerts
  PROVE  /\ l \in [key : Process \cup {Foreign}, kind : Kind, quote : Evidence \cup {NoQuote}]
         /\ l.key \in Process => l = CertOf(l.key) /\ certs[l.key] # NoCert
         /\ l.kind \in {"genuine", "forged"} <=> l.quote # NoQuote
         /\ l.kind = "genuine" => l.quote.mrenclave # Pinned \/ OfProcess(l.quote)
<1>1. ASSUME NEW p \in Process, certs[p].quote # NoQuote
      PROVE  certs[p].quote \in Evidence /\ OfProcess(certs[p].quote)
  <2>1. certs[p].quote = QuoteOf(p, certs[p].build)
    BY <1>1 DEF BothInv, Inv, CertInv
  <2>2. certs[p] # NoCert /\ certs[p] \in Cert
    BY <1>1 DEF BothInv, Inv, TypeOK, NoCert
  <2>3. certs[p].quote \in Evidence
    BY <1>1, <2>2 DEF Cert, Quote, Evidence
  <2>. QED BY <2>1, <2>2, <2>3 DEF OfProcess
<1>2. \A q \in Evidence : q # NoQuote
  BY NoneAssumption DEF Evidence, NoQuote
<1>3. CASE serving # None /\ l = CertOf(serving)
  <2>1. serving \in Process /\ certs[serving] # NoCert
    BY <1>3 DEF BothInv, Inv, TypeOK, CertInv
  <2>2. l = [key |-> serving, kind |-> IF certs[serving].quote = NoQuote THEN "none" ELSE "genuine",
             quote |-> certs[serving].quote]
    BY <1>3 DEF CertOf, Leaf
  <2>3. l.key = serving /\ l.quote = certs[serving].quote
    BY <2>2
  <2>4. CASE certs[serving].quote = NoQuote
    <3>1. l.kind = "none" /\ l.quote = NoQuote
      BY <2>2, <2>4
    <3>2. l \in [key : Process \cup {Foreign}, kind : Kind, quote : Evidence \cup {NoQuote}]
      BY <2>1, <2>2, <2>4 DEF Kind
    <3>. QED BY <1>3, <2>1, <2>3, <3>1, <3>2
  <2>5. CASE certs[serving].quote # NoQuote
    <3>1. l.quote \in Evidence /\ OfProcess(l.quote) /\ l.kind = "genuine"
      BY <1>1, <2>1, <2>2, <2>3, <2>5
    <3>2. l \in [key : Process \cup {Foreign}, kind : Kind, quote : Evidence \cup {NoQuote}]
      BY <2>1, <2>2, <2>3, <2>5, <3>1 DEF Kind
    <3>. QED BY <1>3, <2>1, <2>3, <2>5, <3>1, <3>2
  <2>. QED BY <2>4, <2>5
<1>4. CASE l \in ForeignCerts
  <2>1. Foreign \notin Process
    BY ForeignAssumption
  <2>2. CASE \E kind \in {"none", "short"} : l = Leaf(Foreign, kind, NoQuote)
    BY <2>1, <2>2 DEF Leaf, Kind
  <2>3. CASE \E p \in Process : certs[p].quote # NoQuote /\ l = Leaf(Foreign, "genuine", certs[p].quote)
    BY <1>1, <2>1, <2>3 DEF Leaf, Kind
  <2>4. CASE \E b \in Build \ {Pinned} :
               l = Leaf(Foreign, "genuine", [mrenclave |-> b, reportData |-> Foreign])
    <3>1. PICK b \in Build \ {Pinned} :
                 l = Leaf(Foreign, "genuine", [mrenclave |-> b, reportData |-> Foreign])
      BY <2>4
    <3>2. l.quote.mrenclave = b /\ l.quote \in Evidence
      BY <3>1 DEF Leaf, Evidence
    <3>. QED BY <1>2, <2>1, <3>1, <3>2 DEF Leaf, Kind
  <2>5. CASE \E q \in Evidence : l = Leaf(Foreign, "forged", q)
    BY <1>2, <2>1, <2>5 DEF Leaf, Kind
  <2>. QED BY <1>4, <2>2, <2>3, <2>4, <2>5 DEF ForeignCerts
<1>. QED BY <1>3, <1>4

\* Fetching any certificate keeps the invariant.
LEMMA FetchKeeps ==
  ASSUME BothInv, stage = "dial", UNCHANGED <<vars, options, chain>>, NEW l, Fetch(l),
         (serving # None /\ l = CertOf(serving)) \/ l \in ForeignCerts
  PROVE  VerifierTypeOK' /\ StartedInv' /\ LeafInv' /\ StageInv'
<1>1. leaf' = l /\ UNCHANGED certs /\ UNCHANGED heard
  BY DEF Fetch, vars
<1>2. /\ l \in [key : Process \cup {Foreign}, kind : Kind, quote : Evidence \cup {NoQuote}]
      /\ l.key \in Process => l = CertOf(l.key) /\ certs[l.key] # NoCert
      /\ l.kind \in {"genuine", "forged"} <=> l.quote # NoQuote
      /\ l.kind = "genuine" => l.quote.mrenclave # Pinned \/ OfProcess(l.quote)
  BY Presented
<1>3. leaf' # NoLeaf /\ l.key # None
  BY <1>1, <1>2, NoneAssumption, ForeignAssumption DEF NoLeaf, Leaf
<1>4. stage' = IF l.kind = "none" THEN "noQuote" ELSE IF options.dcapVerify THEN "chain" ELSE "judge"
  BY DEF Fetch, Extracted
<1>5. chain' = "unchecked" /\ options' = options
  BY DEF BothInv, StageInv
<1>6. VerifierTypeOK'
  BY <1>1, <1>2, <1>4, <1>5 DEF BothInv, VerifierTypeOK
<1>7. StartedInv'
  BY <1>1, <1>2 DEF BothInv, StartedInv
<1>8. LeafInv'
  <2>1. l.key \in Process => CertOf(l.key)' = CertOf(l.key)
    BY <1>1 DEF CertOf, Leaf
  <2>2. OfProcess(l.quote) => OfProcess(l.quote)'
    BY <1>1 DEF OfProcess
  <2>. QED BY <1>1, <1>2, <1>3, <1>4, <2>1, <2>2 DEF LeafInv
<1>9. StageInv'
  BY <1>1, <1>4, <1>5 DEF StageInv, Extracted
<1>. QED BY <1>6, <1>7, <1>8, <1>9

\* A step of relay-verify keeps the invariant.
LEMMA VerifierKeeps ==
  ASSUME BothInv, Verifier
  PROVE  BothInv'
<1>1. UNCHANGED vars
  BY DEF Verifier, DialFails, FetchLeafCert, FetchForeignCert, ChainNotVerified, VerifyQuoteChain, Judge
<1>2. Inv' /\ RefusalInv'
  BY <1>1 DEF vars, BothInv, Inv, TypeOK, CertInv, HeardInv, RefusalInv, PinMatches
<1>3. ASSUME UNCHANGED leaf,
             stage' \in {"dial", "unreachable"} <=> stage \in {"dial", "unreachable"}
      PROVE  StartedInv' /\ LeafInv'
  <2>1. StartedInv'
    BY <1>1, <1>3 DEF vars, BothInv, StartedInv
  <2>2. certs' = certs
    BY <1>1 DEF vars
  <2>3. CertOf(leaf.key)' = CertOf(leaf.key) /\ (OfProcess(leaf.quote) => OfProcess(leaf.quote)')
    BY <1>3, <2>2 DEF CertOf, OfProcess, Leaf
  <2>4. leaf = NoLeaf <=> stage' \in {"dial", "unreachable"}
    BY <1>3 DEF BothInv, LeafInv
  <2>5. LeafInv'
    <3>1. (leaf.key \in Process => leaf = CertOf(leaf.key))'
      <4>1. leaf.key \in Process => leaf = CertOf(leaf.key)
        BY DEF BothInv, LeafInv
      <4>2. leaf' = leaf
        BY <1>3
      <4>. QED BY <2>2, <4>1, <4>2 DEF CertOf, Leaf
    <3>2. (leaf.kind = "genuine" => leaf.quote.mrenclave # Pinned \/ OfProcess(leaf.quote))'
      BY <1>3, <2>3 DEF BothInv, LeafInv
    <3>. QED BY <1>3, <2>4, <3>1, <3>2 DEF BothInv, LeafInv
  <2>. QED BY <2>1, <2>5
<1>4. CASE DialFails
  <2>1. VerifierTypeOK'
    BY <1>4 DEF DialFails, BothInv, VerifierTypeOK
  <2>2. StageInv'
    BY <1>4 DEF DialFails, BothInv, StageInv, VerifiesAs
  <2>3. StartedInv' /\ LeafInv'
    BY <1>3, <1>4 DEF DialFails
  <2>. QED BY <1>2, <2>1, <2>2, <2>3 DEF BothInv
<1>5. CASE FetchLeafCert \/ FetchForeignCert
  <2>1. stage = "dial" /\ UNCHANGED <<vars, options, chain>>
    BY <1>5 DEF FetchLeafCert, FetchForeignCert
  <2>2. \E l : Fetch(l) /\ ((serving # None /\ l = CertOf(serving)) \/ l \in ForeignCerts)
    BY <1>5 DEF FetchLeafCert, FetchForeignCert
  <2>. QED BY <1>2, <2>1, <2>2, FetchKeeps DEF BothInv
<1>6. CASE ChainNotVerified
  <2>1. VerifierTypeOK'
    BY <1>6 DEF ChainNotVerified, BothInv, VerifierTypeOK
  <2>2. StageInv'
    BY <1>6 DEF ChainNotVerified, BothInv, StageInv, VerifiesAs
  <2>3. StartedInv' /\ LeafInv'
    BY <1>3, <1>6 DEF ChainNotVerified
  <2>. QED BY <1>2, <2>1, <2>2, <2>3 DEF BothInv
<1>7. CASE VerifyQuoteChain
  <2>1. chain' \in QVResult /\ chain' # "unchecked"
    BY <1>7 DEF VerifyQuoteChain, VerifiesAs, QVResult
  <2>2. VerifierTypeOK'
    BY <1>7, <2>1 DEF VerifyQuoteChain, BothInv, VerifierTypeOK
  <2>3. ChainAccepted(chain)' <=> ChainAccepted(chain')
    BY <1>7 DEF VerifyQuoteChain, ChainAccepted
  <2>4. chain' \in VerifiesAs(leaf)'
    BY <1>7 DEF VerifyQuoteChain, VerifiesAs
  <2>5. StageInv'
    BY <1>7, <2>1, <2>3, <2>4 DEF VerifyQuoteChain, BothInv, StageInv
  <2>6. StartedInv' /\ LeafInv'
    BY <1>3, <1>7 DEF VerifyQuoteChain
  <2>. QED BY <1>2, <2>2, <2>5, <2>6 DEF BothInv
<1>8. CASE Judge
  <2>1. /\ stage = "judge" /\ leaf' = leaf /\ chain' = chain /\ options' = options
        /\ leaf.kind # "none"
    BY <1>8 DEF Judge, BothInv, VerifierTypeOK
  <2>2. stage' = IF ~Parsed(leaf) THEN "malformed"
                 ELSE IF ~Measured(leaf) THEN "mismatch"
                 ELSE IF ~Bound(leaf) THEN "unbound"
                 ELSE IF chain = "unchecked" THEN "partial" ELSE "passed"
    BY <1>8 DEF Judge
  <2>3. Parsed(leaf) => leaf.quote # NoQuote
    BY <2>1 DEF BothInv, VerifierTypeOK, LeafInv, Parsed, Kind
  <2>4. VerifierTypeOK'
    BY <2>1, <2>2, <2>3 DEF BothInv, VerifierTypeOK
  <2>5. /\ Parsed(leaf)' <=> Parsed(leaf)
        /\ Measured(leaf)' <=> Measured(leaf)
        /\ Bound(leaf)' <=> Bound(leaf)
        /\ ChainAccepted(chain)' <=> ChainAccepted(chain)
        /\ VerifiesAs(leaf)' = VerifiesAs(leaf)
    BY <2>1 DEF Parsed, Measured, Bound, ChainAccepted, VerifiesAs
  <2>6. StageInv'
    BY <2>1, <2>2, <2>5 DEF BothInv, StageInv
  <2>7. StartedInv' /\ LeafInv'
    BY <1>3, <2>1, <2>2
  <2>. QED BY <1>2, <2>4, <2>6, <2>7 DEF BothInv
<1>. QED BY <1>4, <1>5, <1>6, <1>7, <1>8 DEF Verifier

-----------------------------------------------------------------------------
(* Theorems *)

\* Every reachable state of the two clients satisfies the invariant.
THEOREM BothInvariance == BothSpec => []BothInv
<1>1. BothInv /\ [BothNext]_<<vars, verifierVars>> => BothInv'
  <2>1. ASSUME BothInv, UNCHANGED <<vars, verifierVars>>
        PROVE  BothInv'
    BY <2>1 DEF vars, verifierVars, BothInv, Inv, TypeOK, CertInv, HeardInv, VerifierTypeOK,
                RefusalInv, StartedInv, LeafInv, StageInv, PinMatches, ChainAccepted, VerifiesAs,
                Extracted, Parsed, Measured, Bound, CertOf, Leaf, OfProcess
  <2>. QED BY <2>1, OthersKeep, VerifierKeeps DEF BothNext
<1>. QED BY <1>1, BothInvInit, PTL DEF BothSpec

\* The composition is one more run of the script against its deployment, so
\* that every theorem of AttestationProofs holds of it.
THEOREM BothImplementScript == BothSpec => Spec
<1>1. BothInit => Init
  BY DEF BothInit
<1>2. [BothNext]_<<vars, verifierVars>> => [Next]_vars
  BY DEF BothNext, Verifier, DialFails, FetchLeafCert, FetchForeignCert, ChainNotVerified,
         VerifyQuoteChain, Judge
<1>. QED BY <1>1, <1>2, PTL DEF BothSpec, Spec

\* Types, and only certificates with an extension are judged.
THEOREM VerifierTypeCorrect == BothSpec => []VerifierTypeOK
<1>1. BothInv => VerifierTypeOK
  BY DEF BothInv
<1>. QED BY <1>1, BothInvariance, PTL

\* Whatever the command line, whatever is presented, and if Intel's library
\* accepts no signature but an enclave's: a full pass is for a genuine quote of
\* the pinned build and, with the binding, for the process that made it.
THEOREM PassesAreEarned == BothSpec => []PassIsEarned
<1>1. ASSUME BothInv
      PROVE  PassIsEarned
  <2>1. ASSUME stage = "passed"
        PROVE  /\ \/ chain \in {"OK", "ConfigNeeded", "SWHardening", "ConfigSWHard"}
                  \/ chain \in {"OutOfDate", "OutOfDateConfig"} /\ options.allowOutdated
               /\ leaf.kind = "genuine" /\ leaf.quote.mrenclave = Pinned
    <3>1. chain \in QVResult /\ ChainAccepted(chain) /\ chain \in VerifiesAs(leaf)
      BY <1>1, <2>1 DEF BothInv, VerifierTypeOK, StageInv, QVResult
    <3>2. leaf.kind = "genuine"
      BY <3>1 DEF ChainAccepted, classifyQVResult, VerifiesAs
    <3>3. leaf.quote.mrenclave = Pinned
      BY <1>1, <2>1 DEF BothInv, StageInv, Measured
    <3>. QED BY <3>1, <3>2, <3>3 DEF QVResult, ChainAccepted, classifyQVResult
  <2>2. ASSUME stage = "passed", ~options.allowUnbound
        PROVE  leaf.key \in Process /\ certs[leaf.key].build = Pinned
    <3>1. leaf.quote.reportData = leaf.key
      BY <1>1, <2>2 DEF BothInv, StageInv, Bound
    <3>2. PICK p \in Process : leaf.quote = QuoteOf(p, certs[p].build)
      BY <1>1, <2>1, <2>2 DEF BothInv, LeafInv, OfProcess
    <3>. QED BY <2>1, <2>2, <3>1, <3>2 DEF QuoteOf
  <2>3. ASSUME stage = "partial"
        PROVE  /\ ~options.dcapVerify /\ chain = "unchecked"
               /\ leaf.quote.mrenclave = Pinned
               /\ ~options.allowUnbound => leaf.quote.reportData = leaf.key
    BY <1>1, <2>3 DEF BothInv, StageInv, Measured, Bound
  <2>. QED BY <2>1, <2>2, <2>3 DEF PassIsEarned
<1>. QED BY <1>1, BothInvariance, PTL

\* The two clients never contradict each other about a process.
THEOREM ClientsNeverDiffer == BothSpec => []ClientsAgree
<1>1. ASSUME BothInv
      PROVE  ClientsAgree
  <2>. SUFFICES ASSUME leaf # NoLeaf, heard["quote"] = leaf.key
                PROVE  /\ stage \in {"passed", "partial"} => quote # NoQuote
                       /\ stage \in {"noQuote", "malformed", "mismatch", "unbound"} => quote = NoQuote
    BY DEF ClientsAgree
  <2>1. heard["quote"] \in Process \cup {None} /\ heard["quote"] # Foreign
    BY <1>1, ForeignAssumption DEF BothInv, Inv, TypeOK, Connection
  <2>2. ASSUME stage \in {"passed", "partial"}, quote = NoQuote
        PROVE  FALSE
    <3>1. leaf.quote # NoQuote /\ leaf.quote.mrenclave = Pinned
      BY <1>1, <2>2 DEF BothInv, VerifierTypeOK, StageInv, Measured
    <3>2. leaf.key # None
      BY <1>1, <2>2 DEF BothInv, LeafInv
    <3>3. leaf.quote = certs[heard["quote"]].quote
      BY <1>1, <2>1, <3>1, <3>2, ProcessShowsItself
    <3>. QED BY <1>1, <2>1, <2>2, <3>1, <3>2, <3>3 DEF BothInv, RefusalInv, PinMatches
  <2>3. ASSUME stage \in {"noQuote", "malformed", "mismatch", "unbound"}, quote # NoQuote
        PROVE  FALSE
    <3>1. /\ heard["quote"] \in Process /\ quote = certs[heard["quote"]].quote
          /\ quote.mrenclave = Pinned
      BY <1>1, <2>3 DEF BothInv, Inv, HeardInv
    <3>2. leaf = Leaf(leaf.key, "genuine", quote)
      BY <1>1, <2>3, <3>1 DEF BothInv, LeafInv, CertOf
    <3>3. leaf.kind = "genuine" /\ leaf.quote = quote
      BY <3>2 DEF Leaf
    <3>4. leaf.quote.reportData = leaf.key
      BY <1>1, <2>3, <3>1, <3>3, ProcessShowsItself
    <3>. QED BY <1>1, <2>3, <3>1, <3>3, <3>4 DEF BothInv, StageInv, Extracted, Parsed, Measured, Bound
  <2>. QED BY <2>2, <2>3
<1>. QED BY <1>1, BothInvariance, PTL
=============================================================================
