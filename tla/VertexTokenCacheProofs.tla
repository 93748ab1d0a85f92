----------------------- MODULE VertexTokenCacheProofs -----------------------
(***************************************************************************)
(* Proofs about VertexTokenCache, for any callers, accounts, lifetimes and *)
(* clock readings.                                                         *)
(***************************************************************************)
EXTENDS VertexTokenCache, TLAPS

\* A cached token belongs to its key and dies no earlier than its entry, and
\* Skew seconds after it unless it never had as many.
EntryInv ==
  \A k \in Key : tokenCache[k] # NoEntry =>
    LET e == tokenCache[k]
    IN  /\ e.token.key = k
        /\ Dies(e.token) >= e.expiresAt
        /\ e.token.life > Skew => Dies(e.token) >= e.expiresAt + Skew

\* While a call mints, what it found when it took the mutex stays true.
MinterInv ==
  \A p \in Caller :
    /\ nowUnix[p] <= now
    /\ pc[p] = "minting" => ~Usable(p) /\ nowUnix[p] <= began[p] /\ began[p] <= now

ReturnedInv == \A p \in Caller : pc[p] = "returned" => got[p] \in Token

Inv == TypeOK /\ EntryInv /\ MinterInv /\ ReturnedInv /\ LiveWhenAsked

-----------------------------------------------------------------------------
\* What a successful mint caches: an entry that is safe to use.
LEMMA EntryOutlived ==
  ASSUME NEW asked \in Nat, NEW born \in Nat, asked <= born, NEW g \in Grant
  PROVE  /\ ExpiresAt(asked, g.reported) \in Nat
         /\ g.life \in Nat \ {0}
         /\ born + g.life >= ExpiresAt(asked, g.reported)
         /\ g.life > Skew => born + g.life >= ExpiresAt(asked, g.reported) + Skew
<1>1. /\ g.reported \in Int /\ g.life \in Nat \ {0}
      /\ IF g.reported <= 0 THEN g.life >= Lifetime ELSE g.life = g.reported
      /\ Lifetime \in Nat /\ Skew \in Nat /\ Skew < Lifetime
  BY GrantAssumption, ClockAssumption
<1>2. CASE g.reported <= 0
  BY <1>1, <1>2 DEF ExpiresAt
<1>3. CASE ~(g.reported <= 0)
  BY <1>1, <1>3 DEF ExpiresAt
<1>. QED BY <1>2, <1>3

LEMMA InvInit == Init => Inv
BY DEF Init, Inv, TypeOK, EntryInv, MinterInv, ReturnedInv, LiveWhenAsked, Usable

\* A cache hit hands out a token that is live by the caller's clock.
LEMMA HitKeeps ==
  ASSUME Inv, NEW p \in Caller, Hit(p)
  PROVE  Inv'
<1>. USE DEF Inv, Hit, Return
<1>1. /\ tokenCache[key[p]] \in Entry
      /\ got'[p] = tokenCache[key[p]].token
      /\ got'[p] \in Token
  BY DEF TypeOK, Usable, Entry
<1>2. TypeOK'
  BY <1>1 DEF TypeOK, Usable
<1>3. EntryInv' /\ MinterInv'
  BY DEF EntryInv, MinterInv, Usable, TypeOK
<1>4. ReturnedInv'
  BY <1>1 DEF ReturnedInv, TypeOK
<1>5. LiveWhenAsked'
  <2>1. /\ got'[p].key = key[p]
        /\ Dies(got'[p]) > nowUnix[p]
        /\ got'[p].life > Skew => Dies(got'[p]) > nowUnix[p] + Skew
    BY <1>1, ClockAssumption DEF EntryInv, Usable, TypeOK, Entry, Token, Dies
  <2>. QED BY <2>1 DEF LiveWhenAsked, TypeOK, Dies
<1>. QED BY <1>2, <1>3, <1>4, <1>5

\* A mint stores and hands out a token that is live by the caller's clock.
LEMMA MintKeeps ==
  ASSUME Inv, NEW p \in Caller, MintSucceeds(p)
  PROVE  Inv'
<1>. USE DEF Inv, Return
<1>1. PICK g \in Grant, born \in began[p] .. now :
        LET t == [key |-> key[p], born |-> born, life |-> g.life]
            e == [token |-> t, expiresAt |-> ExpiresAt(nowUnix[p], g.reported)]
        IN  tokenCache' = [tokenCache EXCEPT ![key[p]] = e] /\ Return(p, t)
  BY DEF MintSucceeds
<1>. DEFINE t == [key |-> key[p], born |-> born, life |-> g.life]
            e == [token |-> t, expiresAt |-> ExpiresAt(nowUnix[p], g.reported)]
<1>2. /\ pc[p] = "minting" /\ holders = {p} /\ holders' = {}
      /\ nowUnix[p] \in Nat /\ born \in Nat /\ nowUnix[p] <= born /\ key[p] \in Key
  BY <1>1 DEF MintSucceeds, TypeOK, MinterInv
<1>3. /\ t \in Token /\ e \in Entry /\ Dies(t) = born + g.life
      /\ Dies(t) >= e.expiresAt
      /\ t.life > Skew => Dies(t) >= e.expiresAt + Skew
  BY <1>2, EntryOutlived DEF Token, Entry, Dies
<1>4. /\ tokenCache' = [tokenCache EXCEPT ![key[p]] = e]
      /\ got' = [got EXCEPT ![p] = t]
      /\ pc' = [pc EXCEPT ![p] = "returned"]
      /\ UNCHANGED <<now, key, nowUnix, began>>
  BY <1>1
<1>. HIDE DEF t, e
<1>5. TypeOK'
  BY <1>2, <1>3, <1>4 DEF TypeOK
<1>6. EntryInv'
  <2>1. e.token = t /\ t.key = key[p]
    BY DEF e, t
  <2>. QED BY <1>2, <1>3, <1>4, <2>1 DEF EntryInv, TypeOK, Dies
<1>7. MinterInv'
  <2>1. \A q \in Caller : pc'[q] # "minting"
    BY <1>2, <1>4 DEF TypeOK
  <2>. QED BY <1>4, <2>1 DEF MinterInv
<1>8. ReturnedInv'
  BY <1>3, <1>4 DEF ReturnedInv, TypeOK
<1>9. LiveWhenAsked'
  <2>1. /\ t.key = key[p]
        /\ Dies(t) > nowUnix[p]
        /\ t.life > Skew => Dies(t) > nowUnix[p] + Skew
    BY <1>1, <1>2, <1>3, GrantAssumption, ClockAssumption DEF t
  <2>. QED BY <1>4, <2>1 DEF LiveWhenAsked, TypeOK, Dies
<1>. QED BY <1>5, <1>6, <1>7, <1>8, <1>9

\* A call that ends without a token, or only gets ready to mint.
LEMMA OtherKeeps ==
  ASSUME Inv, NEW p \in Caller,
         Call(p) \/ BadAccount(p) \/ StartMint(p) \/ MintFails(p)
  PROVE  Inv'
<1>. USE DEF Inv
<1>1. CASE Call(p)
  BY <1>1 DEF Call, TypeOK, EntryInv, MinterInv, ReturnedInv, LiveWhenAsked, Usable
<1>2. CASE BadAccount(p)
  BY <1>2 DEF BadAccount, TypeOK, EntryInv, MinterInv, ReturnedInv, LiveWhenAsked, Usable
<1>3. CASE StartMint(p)
  <2>1. TypeOK'
    BY <1>3 DEF StartMint, TypeOK
  <2>2. EntryInv' /\ ReturnedInv' /\ LiveWhenAsked'
    BY <1>3 DEF StartMint, EntryInv, ReturnedInv, LiveWhenAsked, TypeOK
  <2>3. MinterInv'
    BY <1>3 DEF StartMint, MinterInv, Usable, TypeOK
  <2>. QED BY <2>1, <2>2, <2>3
<1>4. CASE MintFails(p)
  <2>1. TypeOK'
    BY <1>4 DEF MintFails, TypeOK
  <2>2. EntryInv' /\ ReturnedInv' /\ LiveWhenAsked'
    BY <1>4 DEF MintFails, EntryInv, ReturnedInv, LiveWhenAsked, TypeOK
  <2>3. MinterInv'
    BY <1>4 DEF MintFails, MinterInv, Usable, TypeOK
  <2>. QED BY <2>1, <2>2, <2>3
<1>. QED BY <1>1, <1>2, <1>3, <1>4

LEMMA InvStep == Inv /\ [Next]_vars => Inv'
<1>. SUFFICES ASSUME Inv, [Next]_vars PROVE Inv'
  OBVIOUS
<1>1. CASE Tick
  BY <1>1 DEF Tick, Inv, TypeOK, EntryInv, MinterInv, ReturnedInv, LiveWhenAsked, Usable
<1>2. CASE UNCHANGED vars
  BY <1>2 DEF vars, Inv, TypeOK, EntryInv, MinterInv, ReturnedInv, LiveWhenAsked, Usable
<1>. QED BY <1>1, <1>2, HitKeeps, MintKeeps, OtherKeeps DEF Next

THEOREM Invariance == Spec => []Inv
BY InvInit, InvStep, PTL DEF Spec

\* The mutex has one holder at most, whatever the callers do.
THEOREM TypeCorrect == Spec => []TypeOK
BY Invariance, PTL DEF Inv

\* No call returns a token that is dead, or within the skew of its death, by
\* the clock the call was made with.
THEOREM TokensLiveWhenAsked == Spec => []LiveWhenAsked
BY Invariance, PTL DEF Inv

\* A token is only minted over one that its caller could not have used.
THEOREM MintsAreNeeded == Spec => MintsDoNotOverlap
<1>1. Inv => \A p \in Caller : pc[p] = "minting" /\ pc'[p] = "returned" => ~Usable(p)
  BY DEF Inv, MinterInv
<1>. QED BY <1>1, Invariance, PTL DEF MintsDoNotOverlap
=============================================================================
