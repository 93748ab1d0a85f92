---------------------------- MODULE RelayVerify ----------------------------
(***************************************************************************)
(* cmd/relay-verify beside client/verify_enclave.py: the two clients of    *)
(* the repository judge one deployment, which may be restarted under them. *)
(* relay-verify makes a single connection and reads the quote off the      *)
(* certificate presented there; after that it only works on what it has.   *)
(* The tool "treats the gateway as untrusted": what answers may be another *)
(* server, with a certificate of its own making.                           *)
(***************************************************************************)
EXTENDS Attestation

CONSTANTS
  Options,  \* command lines, with the build tag of the binary
  Foreign   \* the key of a server that is no process of the relay

ASSUME OptionsAssumption ==
  Options \subseteq [dcapVerify : BOOLEAN, allowOutdated : BOOLEAN,
                     allowUnbound : BOOLEAN, dcapVerifyAvailable : BOOLEAN]
ASSUME ForeignAssumption == Foreign \notin Process \cup Build \cup {None}

\* sgx_ql_qv_result_t; "other" is a code qvresult.go does not know.
QVResult == {"OK", "ConfigNeeded", "OutOfDate", "OutOfDateConfig", "InvalidSig",
             "Revoked", "Unspecified", "SWHardening", "ConfigSWHard", "other"}

\* What the bytes of an RA-TLS extension can say: of a forged quote, anything.
Evidence == [mrenclave : Build, reportData : Process \cup {Foreign, None}]

\* The extension is absent (or empty), too short to be a quote, signed by an
\* enclave, or made to look like a quote.
Kind == {"none", "short", "genuine", "forged"}

Leaf(key, kind, q) == [key |-> key, kind |-> kind, quote |-> q]

NoLeaf == Leaf(None, "none", NoQuote)

VARIABLES
  options,
  stage,  \* what relay-verify does next, or how it ended
  leaf,   \* the certificate: its key and the extension with the quote
  chain   \* what verifyQuoteChain returned, "unchecked" before

verifierVars == <<options, stage, leaf, chain>>

VerifierInit ==
  /\ options \in Options
  /\ stage = "dial"
  /\ leaf = NoLeaf
  /\ chain = "unchecked"

-----------------------------------------------------------------------------
(* The checks *)

\* Mutant: a certificate without the extension is judged all the same.
ExtractedAnyway(l) == TRUE

\* extractQuote.
Extracted(l) == l.kind # "none"

\* parseQuote.
Parsed(l) == l.kind # "short"

classifyQVResult(r) ==
  CASE r \in {"OK", "ConfigNeeded", "SWHardening", "ConfigSWHard"} -> "pass"
    [] r \in {"OutOfDate", "OutOfDateConfig"}                      -> "outdated"
    [] OTHER                                                       -> "fail"

ChainAccepted(r) ==
  \/ classifyQVResult(r) = "pass"
  \/ classifyQVResult(r) = "outdated" /\ options.allowOutdated

\* Mutant: check 2 stands for check 1 as well.
MeasuredByBinding(l) == l.quote.reportData = l.key

\* Check 1.
Measured(l) == l.quote.mrenclave = Pinned

\* Mutant: check 2 is left out.
BoundToAnything(l) == TRUE

\* Check 2.
Bound(l) == options.allowUnbound \/ l.quote.reportData = l.key

-----------------------------------------------------------------------------
(* External: what can be presented, and what Intel's library makes of it *)

\* A process of the relay presents what BuildCert made.
CertOf(p) ==
  Leaf(p, IF certs[p].quote = NoQuote THEN "none" ELSE "genuine", certs[p].quote)

\* Another server has a key of its own.  Its extension is empty or no quote, or
\* a copy of a quote that a process has shown, or signed by an enclave that is
\* not the pinned build, or made up.
ForeignCerts ==
  {Leaf(Foreign, kind, NoQuote) : kind \in {"none", "short"}}
    \cup {Leaf(Foreign, "genuine", q) : q \in {certs[p].quote : p \in Process} \ {NoQuote}}
    \cup {Leaf(Foreign, "genuine", [mrenclave |-> b, reportData |-> Foreign]) :
            b \in Build \ {Pinned}}
    \cup {Leaf(Foreign, "forged", q) : q \in Evidence}

\* sgx_qv_verify_quote verifies no signature that no enclave has made.
VerifiesAs(l) ==
  IF l.kind = "genuine" THEN QVResult ELSE {"InvalidSig", "Revoked", "Unspecified", "other"}

-----------------------------------------------------------------------------
(* relay-verify *)

DialFails ==
  /\ stage = "dial"
  /\ stage' = "unreachable"
  /\ UNCHANGED <<vars, options, leaf, chain>>

\* fetchLeafCert and extractQuote, on the certificate presented.
Fetch(l) ==
  /\ leaf' = l
  /\ stage' = IF ~Extracted(l) THEN "noQuote"
              ELSE IF options.dcapVerify THEN "chain"
              ELSE "judge"

FetchLeafCert ==
  /\ stage = "dial" /\ serving # None
  /\ Fetch(CertOf(serving))
  /\ UNCHANGED <<vars, options, chain>>

FetchForeignCert ==
  /\ stage = "dial"
  /\ \E l \in ForeignCerts : Fetch(l)
  /\ UNCHANGED <<vars, options, chain>>

\* Check 0: the binary has no DCAP support, or the library call fails.
ChainNotVerified ==
  /\ stage = "chain"
  /\ stage' = IF options.dcapVerifyAvailable THEN "libraryError" ELSE "noSupport"
  /\ UNCHANGED <<vars, options, leaf, chain>>

VerifyQuoteChain ==
  /\ stage = "chain" /\ options.dcapVerifyAvailable
  /\ chain' \in VerifiesAs(leaf)
  /\ stage' = IF ChainAccepted(chain') THEN "judge" ELSE "chainRefused"
  /\ UNCHANGED <<vars, options, leaf>>

Judge ==
  /\ stage = "judge"
  /\ stage' = IF ~Parsed(leaf) THEN "malformed"
              ELSE IF ~Measured(leaf) THEN "mismatch"
              ELSE IF ~Bound(leaf) THEN "unbound"
              ELSE IF chain = "unchecked" THEN "partial"
              ELSE "passed"
  /\ UNCHANGED <<vars, options, leaf, chain>>

Verifier ==
  \/ DialFails \/ FetchLeafCert \/ FetchForeignCert
  \/ ChainNotVerified \/ VerifyQuoteChain \/ Judge

BothInit == Init /\ VerifierInit

BothNext == Verifier \/ (Next /\ UNCHANGED verifierVars)

BothSpec == BothInit /\ [][BothNext]_<<vars, verifierVars>>

-----------------------------------------------------------------------------
(* Properties *)

\* Every variable has its type; only a certificate with an extension is
\* judged, and a verdict is about one that is a quote.
VerifierTypeOK ==
  /\ options \in Options
  /\ stage \in {"dial", "unreachable", "noQuote", "chain", "noSupport", "libraryError",
               "chainRefused", "judge", "malformed", "mismatch", "unbound", "partial", "passed"}
  /\ leaf \in [key : Process \cup {Foreign, None}, kind : Kind, quote : Evidence \cup {NoQuote}]
  /\ chain \in QVResult \cup {"unchecked"}
  /\ stage \notin {"dial", "unreachable", "noQuote"} => leaf.kind # "none"
  /\ stage \in {"mismatch", "unbound", "partial", "passed"} => leaf.quote # NoQuote

\* A full pass is for a quote that an enclave of the pinned build has signed,
\* on a platform that is up to date unless the user allows another, and, unless
\* the user gives up the binding, for the very process that holds the key
\* presented: a copy or a forgery gets none.  A partial pass never follows a
\* chain that was looked at, and rests on the checks that remain.
PassIsEarned ==
  /\ stage = "passed" =>
       /\ leaf.kind = "genuine" /\ leaf.quote.mrenclave = Pinned
       /\ \/ chain \in {"OK", "ConfigNeeded", "SWHardening", "ConfigSWHard"}
          \/ chain \in {"OutOfDate", "OutOfDateConfig"} /\ options.allowOutdated
       /\ ~options.allowUnbound => leaf.key \in Process /\ certs[leaf.key].build = Pinned
  /\ stage = "partial" =>
       /\ ~options.dcapVerify /\ chain = "unchecked"
       /\ leaf.quote.mrenclave = Pinned
       /\ ~options.allowUnbound => leaf.quote.reportData = leaf.key

\* About one and the same process the two clients never differ, although one
\* reads the quote off the certificate and the other off the endpoint, and
\* each on connections of its own: what relay-verify accepts the script has not
\* refused by its checks 1 and 2, and the other way round.
ClientsAgree ==
  leaf # NoLeaf /\ heard["quote"] = leaf.key =>
    /\ stage \in {"passed", "partial"} => quote # NoQuote
    /\ stage \in {"noQuote", "malformed", "mismatch", "unbound"} => quote = NoQuote
=============================================================================
