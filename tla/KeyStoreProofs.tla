--------------------------- MODULE KeyStoreProofs ---------------------------
(***************************************************************************)
(* Proofs about KeyStore, for any set of keys and any number of restarts.  *)
(***************************************************************************)
EXTENDS KeyStore, TLAPS

\* A reported key is in the file, and no boot is on its way to overwrite it:
\* sealing is only entered while the file is absent, which it no longer is
\* after a boot that had a key to seal and warned of nothing.
Inv ==
  /\ TypeOK
  /\ pc = "sealing" => keyFile = "absent"
  /\ pc = "writing" => keyFile = "empty"
  /\ promised # NoKey => keyFile = promised
  /\ settled => keyFile # "absent"

\* The invariant holds initially.
LEMMA InvInit == Init => Inv
BY KeyAssumption DEF Init, Inv, TypeOK

\* Every step keeps the invariant.
LEMMA InvStep == Inv /\ [Next]_vars => Inv'
<1>. SUFFICES ASSUME Inv, [Next]_vars PROVE Inv'
  OBVIOUS
<1>. USE KeyAssumption DEF Inv, TypeOK
<1>1. CASE SetEnv
  BY <1>1 DEF SetEnv
<1>2. CASE Boot
  BY <1>2 DEF Boot
<1>3. CASE Stat
  BY <1>3 DEF Stat, MustSeal, ComeUp
<1>4. CASE CreateFile
  BY <1>4 DEF CreateFile
<1>5. CASE WriteKey
  BY <1>5 DEF WriteKey, ComeUp
<1>6. CASE SealFails
  BY <1>6 DEF SealFails, ComeUp
<1>7. CASE Crash
  BY <1>7 DEF Crash
<1>8. CASE UNCHANGED vars
  BY <1>8 DEF vars
<1>. QED BY <1>1, <1>2, <1>3, <1>4, <1>5, <1>6, <1>7, <1>8 DEF Next

\* Every reachable state satisfies the invariant.
THEOREM Invariance == Spec => []Inv
BY InvInit, InvStep, PTL DEF Spec

\* The variables keep their types, and nothing is sealed without a key.
THEOREM TypeCorrect == Spec => []TypeOK
<1>1. Inv => TypeOK
  BY DEF Inv
<1>. QED BY <1>1, Invariance, PTL

\* A key once reported as provisioned (server.go, main) is what
\* fileKeyStore.KeyFor returns from then on.
THEOREM ProvisionedStays == Spec => []ProvisionedIsKept
<1>1. Inv => ProvisionedIsKept
  BY DEF Inv, TypeOK, ProvisionedIsKept, KeyFor
<1>. QED BY <1>1, Invariance, PTL

\* After an attested boot that had the key and warned of nothing, a later boot
\* can do without the environment (server.go:213-216), unless the file was
\* created and never filled: KeyFor finds a key in a file that has one,
\* whatever has become of the environment.
THEOREM OnlyEmptyFilesLoseKeys == Spec => []OnlyEmptyFileLosesKey
<1>1. Inv => OnlyEmptyFileLosesKey
  BY KeyAssumption DEF Inv, TypeOK, OnlyEmptyFileLosesKey, KeyFor
<1>. QED BY <1>1, Invariance, PTL
=============================================================================
