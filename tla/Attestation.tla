---------------------------- MODULE Attestation ----------------------------
(***************************************************************************)
(* A run of client/verify_enclave.py against an address behind which the   *)
(* relay may be restarted or redeployed.  Each process builds a key and a  *)
(* certificate of its own (raenclave.BuildCert) and serves its quote under *)
(* /attestation.  The script opens four connections, one after the other:  *)
(* for the quote, for check 3, for the re-pin and for the prompt.          *)
(***************************************************************************)
CONSTANTS
  Process,  \* processes of the relay, in any order of start
  Build,    \* builds, told apart by their MRENCLAVE
  Pinned,   \* --mrenclave
  None      \* no process, no key, no certificate

ASSUME PinAssumption == Pinned \in Build
ASSUME NoneAssumption == None \notin Process \cup Build

\* A process and the key it generates have the same name.
Quote == [mrenclave : Build, reportData : Process \cup {None}]

NoQuote == [mrenclave |-> None, reportData |-> None]

Cert == [build : Build, quote : Quote \cup {NoQuote}]

NoCert == [build |-> None, quote |-> NoQuote]

VARIABLES
  serving,  \* the process behind the address
  certs,    \* certs[p]: raCert of process p, once it has started
  pc,       \* what the script does next, or how it ended
  quote,    \* the quote of check 1
  binding,  \* binding_ok: "none", "ok" or "failed"
  heard     \* the process at the other end of each connection (history)

vars == <<serving, certs, pc, quote, binding, heard>>

Connection == {"quote", "bind", "repin", "prompt"}

Init ==
  /\ serving = None
  /\ certs = [p \in Process |-> NoCert]
  /\ pc = "fetch"
  /\ quote = NoQuote
  /\ binding = "none"
  /\ heard = [k \in Connection |-> None]

-----------------------------------------------------------------------------
(* The deployment *)

\* Mutant: the quote is read before the report data is written.
QuoteBeforeReport(p, b) == [mrenclave |-> b, reportData |-> None]

\* fetchQuote: the device binds the report data written last.
QuoteOf(p, b) == [mrenclave |-> b, reportData |-> p]

\* main builds the certificate before it listens, with a quote if the
\* attestation device is there; if that fails, the process exits.
BuildCert(p) ==
  /\ serving = None
  /\ certs[p] = NoCert
  /\ serving' = p
  /\ \E b \in Build : \E q \in {QuoteOf(p, b), NoQuote} :
       certs' = [certs EXCEPT ![p] = [build |-> b, quote |-> q]]
  /\ UNCHANGED <<pc, quote, binding, heard>>

ProcessExits ==
  /\ serving # None
  /\ serving' = None
  /\ UNCHANGED <<certs, pc, quote, binding, heard>>

-----------------------------------------------------------------------------
(* The script *)

Hear(k) == heard' = [heard EXCEPT ![k] = serving]

\* Exit with a message: no answer, or a library that is missing.
ConnectionFails ==
  /\ pc \in {"fetch", "repin", "post"}
  /\ pc' = "failed"
  /\ UNCHANGED <<serving, certs, quote, binding, heard>>

\* Mutant: a mismatch is reported and not acted on.
PinMatchesAny(q) == q.mrenclave \in Build

PinMatches(q) == q.mrenclave = Pinned

\* Mutant: attested=false is not looked at.
FetchUnattested ==
  /\ pc = "fetch" /\ serving # None
  /\ Hear("quote")
  /\ quote' = certs[serving].quote
  /\ pc' = "bind"
  /\ UNCHANGED <<serving, certs, binding>>

\* Checks 1 and 2.
FetchAttestation ==
  /\ pc = "fetch" /\ serving # None
  /\ Hear("quote")
  /\ LET q == certs[serving].quote
     IN  IF q # NoQuote /\ PinMatches(q)
         THEN quote' = q /\ pc' = "bind"
         ELSE quote' = quote /\ pc' = "failed"
  /\ UNCHANGED <<serving, certs, binding>>

\* The key of the certificate presented now, against the quote of check 1.
KeyMatches == serving = quote.reportData

\* Check 3.
CheckBinding ==
  /\ pc = "bind" /\ serving # None
  /\ Hear("bind")
  /\ IF KeyMatches
     THEN binding' = "ok" /\ pc' = "verdict"
     ELSE binding' = "failed" /\ pc' = "refused"
  /\ UNCHANGED <<serving, certs, quote>>

\* The certificate cannot be read, or cryptography is not installed: the
\* check is skipped and the script goes on.
SkipBinding ==
  /\ pc = "bind"
  /\ pc' = "verdict"
  /\ UNCHANGED <<serving, certs, quote, binding, heard>>

\* The verdict is printed; without --send-prompt and --token that is all.
Finish ==
  /\ pc = "verdict"
  /\ pc' = "finished"
  /\ UNCHANGED <<serving, certs, quote, binding, heard>>

\* Mutant: a prompt is sent without channel binding.
StartUnbound ==
  /\ pc = "verdict"
  /\ pc' = IF binding = "ok" THEN "repin" ELSE "post"
  /\ UNCHANGED <<serving, certs, quote, binding, heard>>

\* send_prompt refuses without a binding to re-pin.
StartPrompt ==
  /\ pc = "verdict"
  /\ pc' = IF binding = "ok" THEN "repin" ELSE "failed"
  /\ UNCHANGED <<serving, certs, quote, binding, heard>>

Repin ==
  /\ pc = "repin" /\ serving # None
  /\ Hear("repin")
  /\ pc' = IF KeyMatches THEN "post" ELSE "refused"
  /\ UNCHANGED <<serving, certs, quote, binding>>

\* urlopen makes a connection of its own for the prompt.
PostPrompt ==
  /\ pc = "post" /\ serving # None
  /\ Hear("prompt")
  /\ pc' = "finished"
  /\ UNCHANGED <<serving, certs, quote, binding>>

Next ==
  \/ \E p \in Process : BuildCert(p)
  \/ ProcessExits
  \/ ConnectionFails \/ FetchAttestation \/ CheckBinding \/ SkipBinding
  \/ Finish \/ StartPrompt \/ Repin \/ PostPrompt

Spec == Init /\ [][Next]_vars

-----------------------------------------------------------------------------
(* Properties *)

\* Every variable has its type; past check 2 the script holds a quote of the
\* pinned build.
TypeOK ==
  /\ serving \in Process \cup {None}
  /\ certs \in [Process -> Cert \cup {NoCert}]
  /\ pc \in {"fetch", "bind", "verdict", "repin", "post", "finished", "failed",
            "refused"}
  /\ quote \in Quote \cup {NoQuote}
  /\ binding \in {"none", "ok", "failed"}
  /\ heard \in [Connection -> Process \cup {None}]
  /\ pc \notin {"fetch", "failed"} => quote # NoQuote

\* The script refuses the key it is shown if, and only if, a restart has put
\* another process behind the address since the quote was fetched: check 3 and
\* the re-pin raise no false alarm and overlook no restart.
BindingIsExact ==
  pc = "refused" <=>
    \E k \in {"bind", "repin"} : heard[k] \notin {None, heard["quote"]}

\* The process that passed check 3 runs the pinned build, although check 2
\* looked at what another connection had returned.
BoundRunsPinned ==
  binding = "ok" => certs[heard["bind"]].build = Pinned

\* No prompt leaves before the process that answered the re-pin has been
\* identified as the one that was attested and bound.
PromptAfterRepin ==
  heard["prompt"] # None =>
    /\ binding = "ok"
    /\ heard["repin"] = heard["quote"] /\ heard["bind"] = heard["quote"]
    /\ certs[heard["repin"]].build = Pinned

\* verify_enclave.py:150-154, send_prompt: the key is read off THIS connection,
\* so that the prompt is only ever sent to the attested enclave.
PromptToAttested ==
  heard["prompt"] # None => heard["prompt"] = heard["quote"]
=============================================================================
