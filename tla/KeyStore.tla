------------------------------ MODULE KeyStore ------------------------------
(***************************************************************************)
(* The upstream key over restarts of one enclave: main's bootstrap of the  *)
(* sealed key file (cmd/relay-core/server.go, raenclave.SealKeyFile) and   *)
(* fileKeyStore.KeyFor, which reads it for every call.  The file outlives  *)
(* the process; the environment is the operator's and changes only while   *)
(* the process is down.                                                    *)
(***************************************************************************)
CONSTANTS
  Key,   \* upstream keys
  NoKey  \* unset, or os.ErrNotExist

ASSUME KeyAssumption == NoKey \notin Key /\ {"absent", "empty"} \cap Key = {}

VARIABLES
  pc,        \* "down", "stat", "sealing", "writing" or "up"
  attested,  \* raCert.Attested; the same in every boot of a deployment
  env,       \* RELAY_CORE_UPSTREAM_KEY
  keyFile,   \* the sealed file: "absent", "empty" or a key
  printed,   \* what this boot printed about sealing
  promised,  \* the key last reported as provisioned (history)
  settled    \* an attested boot with a bootstrap key came up unwarned (history)

vars == <<pc, attested, env, keyFile, printed, promised, settled>>

Init ==
  /\ pc = "down"
  /\ attested \in BOOLEAN
  /\ env = NoKey
  /\ keyFile = "absent"
  /\ printed = "nothing"
  /\ promised = NoKey
  /\ settled = FALSE

\* The operator edits the environment of the next boot.
SetEnv ==
  /\ pc = "down"
  /\ env' \in Key \cup {NoKey}
  /\ UNCHANGED <<pc, attested, keyFile, printed, promised, settled>>

Boot ==
  /\ pc = "down"
  /\ pc' = "stat"
  /\ printed' = "nothing"
  /\ UNCHANGED <<attested, env, keyFile, promised, settled>>

\* main starts to listen, whether or not there is a key.
ComeUp(line) ==
  /\ pc' = "up"
  /\ printed' = line
  /\ settled' = (settled \/ (attested /\ env # NoKey /\ line # "warn"))

\* Mutant: the environment is not looked at first.
MustSealAnyway == keyFile = "absent" /\ attested

MustSeal == env # NoKey /\ keyFile = "absent" /\ attested

Stat ==
  /\ pc = "stat"
  /\ \/ MustSeal /\ pc' = "sealing" /\ UNCHANGED <<printed, settled>>
     \/ ~MustSeal /\ ComeUp(printed)
  /\ UNCHANGED <<attested, env, keyFile, promised>>

\* os.WriteFile creates and truncates the file before it writes to it.
CreateFile ==
  /\ pc = "sealing"
  /\ pc' = "writing"
  /\ keyFile' = "empty"
  /\ UNCHANGED <<attested, env, printed, promised, settled>>

WriteKey ==
  /\ pc = "writing"
  /\ keyFile' = env
  /\ promised' = env
  /\ ComeUp("provisioned")
  /\ UNCHANGED <<attested, env>>

\* Mutant: the error of SealKeyFile is dropped.
SealFailsSilently ==
  /\ pc \in {"sealing", "writing"}
  /\ ComeUp(printed)
  /\ UNCHANGED <<attested, env, keyFile, promised>>

\* Creating, writing or closing fails: a warning, and main goes on.
SealFails ==
  /\ pc \in {"sealing", "writing"}
  /\ ComeUp("warn")
  /\ UNCHANGED <<attested, env, keyFile, promised>>

Crash ==
  /\ pc # "down"
  /\ pc' = "down"
  /\ UNCHANGED <<attested, env, keyFile, printed, promised, settled>>

Next == SetEnv \/ Boot \/ Stat \/ CreateFile \/ WriteKey \/ SealFails \/ Crash

Spec == Init /\ [][Next]_vars

\* Mutant: the environment wins over the file.
KeyForEnvFirst ==
  IF env # NoKey THEN env ELSE IF keyFile \in Key THEN keyFile ELSE NoKey

\* fileKeyStore.KeyFor: the file when it holds a key, else the environment,
\* for every channel alike.
KeyFor == IF keyFile \in Key THEN keyFile ELSE env

-----------------------------------------------------------------------------
(* Properties *)

\* Every variable has its type, and no boot gets as far as sealing without a
\* key to seal.
TypeOK ==
  /\ pc \in {"down", "stat", "sealing", "writing", "up"}
  /\ attested \in BOOLEAN
  /\ env \in Key \cup {NoKey}
  /\ keyFile \in Key \cup {"absent", "empty"}
  /\ printed \in {"nothing", "provisioned", "warn"}
  /\ promised \in Key \cup {NoKey}
  /\ settled \in BOOLEAN
  /\ pc \in {"sealing", "writing"} => env # NoKey

\* Once the relay has reported a key as provisioned, every later boot serves
\* that key, whatever crashes and whatever is in the environment by then.
\* (Seal only into an absent file; file before environment.)
ProvisionedIsKept ==
  pc = "up" /\ promised # NoKey => KeyFor = promised

\* server.go:213-216: on first boot the key is sealed once; after that the env
\* can be dropped.  Here for a boot that had the key and warned of nothing.
EnvCanBeDropped ==
  pc = "up" /\ settled => KeyFor # NoKey

\* How far that goes: of the boots after such a one, only those that find the
\* file created and never filled are left without a key.
OnlyEmptyFileLosesKey ==
  pc = "up" /\ settled /\ KeyFor = NoKey => keyFile = "empty"
=============================================================================
