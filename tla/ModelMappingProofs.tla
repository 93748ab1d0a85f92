------------------------- MODULE ModelMappingProofs -------------------------
(***************************************************************************)
(* Proofs about ModelMapping, for any names and any mappings, infinite     *)
(* ones included: what a walk returns is what the mapping means.           *)
(***************************************************************************)
EXTENDS ModelMapping, Integers, FiniteSets, FiniteSetTheorems, TLAPS

\* The walk has only met names of the orbit, and each one it has left leads on
\* to another name it has met.
WalkInv ==
  /\ visited \subseteq Orbit
  /\ \A n \in visited \ {current} : Hop(n) # n /\ Hop(n) \in visited
  /\ outcome = "resolved" => Hop(current) = current
  /\ outcome = "cycle" => Hop(current) # current /\ Hop(current) \in visited

MappingInv == MappingTypeOK /\ WalkInv

\* A hop leads from a name to a name.
LEMMA HopInName ==
  ASSUME mapping \in Mapping, NEW n \in Name
  PROVE  Hop(n) \in Name
BY MappingAssumption DEF IsMapping, Hop

\* The orbit holds the name asked for.
LEMMA AskedInOrbit == asked \in Name => asked \in Orbit
BY DEF Orbit

\* The orbit is closed under the mapping.
LEMMA OrbitIsClosed ==
  ASSUME mapping \in Mapping, NEW n \in Orbit
  PROVE  Hop(n) \in Orbit
<1>1. n \in Name
  BY DEF Orbit
<1>2. ASSUME NEW S \in SUBSET Name, asked \in S, \A m \in S : Hop(m) \in S
      PROVE  Hop(n) \in S
  BY <1>2 DEF Orbit
<1>. QED BY <1>1, <1>2, HopInName DEF Orbit

\* The invariant holds initially.
LEMMA MappingInvInit == MappingInit => MappingInv
BY AskedInOrbit DEF MappingInit, MappingInv, MappingTypeOK, WalkInv

\* Every turn of the loop keeps the invariant.
LEMMA ResolveKeeps ==
  ASSUME MappingInv, ResolveModelMapping
  PROVE  MappingInv'
<1>1. asked' = asked /\ mapping' = mapping
  BY DEF ResolveModelMapping, RejectMapping, ReturnCurrent, ReportCycle, FollowMapping, Ends
<1>2. Orbit' = Orbit
  BY <1>1 DEF Orbit, Hop
<1>3. \A n : Hop(n)' = Hop(n)
  BY <1>1 DEF Hop
<1>4. CASE RejectMapping \/ ReturnCurrent \/ ReportCycle
  <2>1. current' = current /\ visited' = visited
    BY <1>4 DEF RejectMapping, ReturnCurrent, ReportCycle, Ends
  <2>2. MappingTypeOK'
    BY <1>1, <1>4, <2>1 DEF RejectMapping, ReturnCurrent, ReportCycle, Ends, MappingInv, MappingTypeOK
  <2>3. WalkInv'
    BY <1>1, <1>2, <1>4, <2>1
       DEF RejectMapping, ReturnCurrent, ReportCycle, Ends, MappingInv, WalkInv, Hop
  <2>. QED BY <2>2, <2>3 DEF MappingInv
<1>5. CASE FollowMapping
  <2>1. /\ mapping \in Mapping
        /\ current \in visited /\ visited \subseteq Name
        /\ outcome = "walking" /\ outcome' = outcome
        /\ current' = Hop(current)
        /\ visited' = visited \cup {Hop(current)}
        /\ Hop(current) \notin visited
    BY <1>5 DEF FollowMapping, Walking, MappingInv, MappingTypeOK
  <2>2. current \in Orbit
    BY <2>1 DEF MappingInv, WalkInv
  <2>3. Hop(current) \in Orbit /\ Hop(current) \in Name
    BY <2>1, <2>2, OrbitIsClosed, HopInName
  <2>4. MappingTypeOK'
    BY <1>1, <2>1, <2>3 DEF MappingInv, MappingTypeOK
  <2>5. visited' \subseteq Orbit'
    BY <1>2, <2>1, <2>3 DEF MappingInv, WalkInv
  <2>6. ASSUME NEW n \in visited
        PROVE  Hop(n) # n /\ Hop(n) \in visited'
    BY <2>1 DEF MappingInv, WalkInv
  <2>7. \A n \in visited' \ {current'} : Hop(n)' # n /\ Hop(n)' \in visited'
    BY <2>1, <2>6, <1>1 DEF Hop
  <2>8. WalkInv'
    BY <2>1, <2>5, <2>7 DEF WalkInv
  <2>. QED BY <2>4, <2>8 DEF MappingInv
<1>. QED BY <1>4, <1>5 DEF ResolveModelMapping

\* Every reachable state satisfies the invariant.
THEOREM MappingInvariance == MappingSpec => []MappingInv
<1>1. MappingInv /\ [ResolveModelMapping]_mappingVars => MappingInv'
  <2>1. ASSUME MappingInv, UNCHANGED mappingVars
        PROVE  MappingInv'
    BY <2>1 DEF mappingVars, MappingInv, MappingTypeOK, WalkInv, Orbit, Hop
  <2>. QED BY <2>1, ResolveKeeps
<1>. QED BY <1>1, MappingInvInit, PTL DEF MappingSpec

\* A resolved name is the mapping's own end of the chain, and a cycle is
\* reported only of a chain without an end: all names the chain can meet are
\* among those visited, because these are closed under the mapping.
THEOREM WalkMeansMapping == MappingSpec => []ResolvesAsDefined
<1>1. ASSUME MappingInv
      PROVE  ResolvesAsDefined
  <2>1. current \in visited /\ visited \subseteq Name /\ asked \in visited
    BY <1>1 DEF MappingInv, MappingTypeOK
  <2>2. outcome = "resolved" => current \in Orbit /\ Hop(current) = current
    BY <1>1, <2>1 DEF MappingInv, WalkInv
  <2>3. ASSUME outcome = "cycle", NEW n \in Orbit
        PROVE  Hop(n) # n
    <3>1. \A m \in visited : Hop(m) # m /\ Hop(m) \in visited
      BY <1>1, <2>3 DEF MappingInv, WalkInv
    <3>2. n \in visited
      BY <2>1, <3>1 DEF Orbit
    <3>. QED BY <3>1, <3>2
  <2>. QED BY <2>2, <2>3 DEF ResolvesAsDefined
<1>. QED BY <1>1, MappingInvariance, PTL

\* Why the walk ends, short of fairness: a turn of the loop that does not
\* return leaves fewer names to visit.  With finitely many names it returns
\* after no more turns than there are names.
THEOREM WalkAdvances ==
  ASSUME IsFiniteSet(Name)
  PROVE  MappingSpec => [][outcome' = "walking" =>
           Cardinality(Name \ visited') < Cardinality(Name \ visited)]_mappingVars
<1>1. ASSUME MappingInv, ResolveModelMapping, outcome' = "walking"
      PROVE  Cardinality(Name \ visited') < Cardinality(Name \ visited)
  <2>1. FollowMapping
    BY <1>1 DEF ResolveModelMapping, RejectMapping, ReturnCurrent, ReportCycle, Ends
  <2>2. /\ visited' = visited \cup {Hop(current)}
        /\ Hop(current) \notin visited
        /\ Hop(current) \in Name
    BY <1>1, <2>1, HopInName DEF FollowMapping, Walking, MappingInv, MappingTypeOK
  <2>3. IsFiniteSet(Name \ visited)
    BY FS_Subset
  <2>4. /\ Name \ visited' = (Name \ visited) \ {Hop(current)}
        /\ Hop(current) \in Name \ visited
    BY <2>2
  <2>5. /\ Cardinality(Name \ visited') = Cardinality(Name \ visited) - 1
        /\ Cardinality(Name \ visited) \in Nat
    BY <2>3, <2>4, FS_RemoveElement, FS_CardinalityType
  <2>. QED BY <2>5
<1>2. MappingInv /\ [ResolveModelMapping]_mappingVars =>
        [outcome' = "walking" =>
           Cardinality(Name \ visited') < Cardinality(Name \ visited)]_mappingVars
  BY <1>1
<1>. QED BY <1>2, MappingInvariance, PTL DEF MappingSpec
=============================================================================
