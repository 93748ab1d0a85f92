-------------------------- MODULE VertexTokenCache --------------------------
(***************************************************************************)
(* pkg/officialurls/vertexoauth.go: the process-wide cache of Vertex       *)
(* access tokens.  Each Caller is one call of CachedVertexToken.  It reads *)
(* the clock before it waits for the mutex, and keeps the mutex while the  *)
(* token endpoint, for which there is no timeout, makes it wait.           *)
(***************************************************************************)
EXTENDS Integers

CONSTANTS
  Caller,    \* calls of CachedVertexToken
  Key,       \* client_email and scope
  Lifetime,  \* tokenLifetimeSeconds
  Skew,      \* cacheSkewSeconds
  Grant,     \* answers of the token endpoint: what it reports and what it means
  MaxNow     \* bound of the clock

\* A token endpoint that does not report a lifetime grants at least the one
\* the assertion asks for; otherwise it reports what it grants.
ASSUME GrantAssumption ==
  /\ Grant \subseteq [reported : Int, life : Nat \ {0}]
  /\ \A g \in Grant : IF g.reported <= 0 THEN g.life >= Lifetime ELSE g.life = g.reported

ASSUME ClockAssumption == Lifetime \in Nat /\ Skew \in Nat /\ MaxNow \in Nat /\ Skew < Lifetime

Token == [key : Key, born : Nat, life : Nat \ {0}]

NoToken == [born |-> -1]

Dies(t) == t.born + t.life

Entry == [token : Token, expiresAt : Nat]

NoEntry == [expiresAt |-> -1]

VARIABLES
  now,        \* the clock, in seconds
  pc,         \* control point of a call
  key,        \* the cache key of a call
  nowUnix,    \* the clock as the caller read it
  began,      \* when a call started to mint
  got,        \* the token a call returns
  holders,    \* tokenCacheMu: the call that holds it, if any
  tokenCache  \* the cache

vars == <<now, pc, key, nowUnix, began, got, holders, tokenCache>>

Init ==
  /\ now = 0
  /\ pc = [p \in Caller |-> "idle"]
  /\ key \in [Caller -> Key]
  /\ nowUnix = [p \in Caller |-> 0]
  /\ began = [p \in Caller |-> 0]
  /\ got = [p \in Caller |-> NoToken]
  /\ holders = {}
  /\ tokenCache = [k \in Key |-> NoEntry]

Tick ==
  /\ now < MaxNow
  /\ now' = now + 1
  /\ UNCHANGED <<pc, key, nowUnix, began, got, holders, tokenCache>>

\* The caller takes the time, calls, and queues for the mutex.
Call(p) ==
  /\ pc[p] = "idle"
  /\ pc' = [pc EXCEPT ![p] = "waiting"]
  /\ nowUnix' = [nowUnix EXCEPT ![p] = now]
  /\ UNCHANGED <<now, key, began, got, holders, tokenCache>>

\* The service-account JSON does not parse or names no client_email.
BadAccount(p) ==
  /\ pc[p] = "idle"
  /\ pc' = [pc EXCEPT ![p] = "failed"]
  /\ UNCHANGED <<now, key, nowUnix, began, got, holders, tokenCache>>

Return(p, t) ==
  /\ pc' = [pc EXCEPT ![p] = "returned"]
  /\ got' = [got EXCEPT ![p] = t]
  /\ UNCHANGED <<now, key, nowUnix, began>>

\* The caller's own reading of the clock decides.
Usable(p) ==
  /\ tokenCache[key[p]] # NoEntry
  /\ nowUnix[p] < tokenCache[key[p]].expiresAt

\* Mutex taken and released around a cache hit.
Hit(p) ==
  /\ pc[p] = "waiting" /\ holders = {}
  /\ Usable(p)
  /\ Return(p, tokenCache[key[p]].token)
  /\ UNCHANGED <<holders, tokenCache>>

\* Mutant: the mutex is released while the token endpoint is asked.
StartMintUnlocked(p) ==
  /\ pc[p] = "waiting" /\ holders = {}
  /\ ~Usable(p)
  /\ pc' = [pc EXCEPT ![p] = "minting"]
  /\ began' = [began EXCEPT ![p] = now]
  /\ UNCHANGED <<now, key, nowUnix, got, holders, tokenCache>>

\* The mutex stays taken while the token endpoint is asked.
StartMint(p) ==
  /\ pc[p] = "waiting" /\ holders = {}
  /\ ~Usable(p)
  /\ pc' = [pc EXCEPT ![p] = "minting"]
  /\ began' = [began EXCEPT ![p] = now]
  /\ holders' = {p}
  /\ UNCHANGED <<now, key, nowUnix, got, tokenCache>>

\* Mutant: the entry lasts as long as the token.
ExpiresAtDeath(asked, reported) ==
  asked + (IF reported <= 0 THEN Lifetime ELSE reported)

\* expiresAt of the new entry, never before the caller's own time.
ExpiresAt(asked, reported) ==
  LET granted == IF reported <= 0 THEN Lifetime ELSE reported
      at == asked + granted - Skew
  IN  IF at <= asked THEN asked ELSE at

\* The endpoint issued the token at some time since it was asked.
MintSucceeds(p) ==
  /\ pc[p] = "minting"
  /\ \E g \in Grant, born \in began[p] .. now :
       LET t == [key |-> key[p], born |-> born, life |-> g.life]
           e == [token |-> t, expiresAt |-> ExpiresAt(nowUnix[p], g.reported)]
       IN  tokenCache' = [tokenCache EXCEPT ![key[p]] = e] /\ Return(p, t)
  /\ holders' = holders \ {p}

\* Signing, the exchange or decoding its answer fails; nothing is cached.
MintFails(p) ==
  /\ pc[p] = "minting"
  /\ pc' = [pc EXCEPT ![p] = "failed"]
  /\ holders' = holders \ {p}
  /\ UNCHANGED <<now, key, nowUnix, began, got, tokenCache>>

Next ==
  \/ Tick
  \/ \E p \in Caller :
       Call(p) \/ BadAccount(p) \/ Hit(p) \/ StartMint(p) \/ MintSucceeds(p) \/ MintFails(p)

Spec == Init /\ [][Next]_vars

-----------------------------------------------------------------------------
(* Properties *)

\* Every variable has its type, and the mutex has at most one holder, the
\* call that mints.
TypeOK ==
  /\ now \in Nat
  /\ pc \in [Caller -> {"idle", "waiting", "minting", "returned", "failed"}]
  /\ key \in [Caller -> Key]
  /\ nowUnix \in [Caller -> Nat]
  /\ began \in [Caller -> Nat]
  /\ got \in [Caller -> Token \cup {NoToken}]
  /\ holders \in SUBSET Caller
  /\ \A p \in Caller : pc[p] = "minting" <=> holders = {p}
  /\ tokenCache \in [Key -> Entry \cup {NoEntry}]

\* A returned token was minted for the caller's own account and scope and
\* outlives the caller's clock, however long ago that was read and whichever
\* call minted it: by more than Skew seconds, unless it never had as many.
\* (nowUnix against expiresAt, the skew and the clamp of a short lifetime.)
LiveWhenAsked ==
  \A p \in Caller : pc[p] = "returned" =>
    /\ got[p].key = key[p]
    /\ Dies(got[p]) > nowUnix[p]
    /\ got[p].life > Skew => Dies(got[p]) > nowUnix[p] + Skew

\* Callers that arrive together share one mint: a token enters the cache only
\* for a caller to whom the one it replaces is of no use, although other
\* callers may have looked, waited and minted since the clock was read.
MintsDoNotOverlap ==
  [][\A p \in Caller : pc[p] = "minting" /\ pc'[p] = "returned" =>
       ~Usable(p)]_vars
=============================================================================
