---------------------------- MODULE ModelMapping ----------------------------
(***************************************************************************)
(* pkg/relaycontrol/wire.go, ResolveModelMapping: a channel's JSON mapping *)
(* is followed from the model that was asked for to the name the upstream  *)
(* knows it by.  One step is one turn of the loop.                         *)
(***************************************************************************)
CONSTANTS
  Name,      \* model names
  Blank,     \* the empty name
  Mapping,   \* decoded mappings: partial functions on names
  Malformed  \* a mapping that is not a JSON object of strings

IsMapping(f) == /\ DOMAIN f \subseteq Name
                /\ f \in [DOMAIN f -> Name \cup {Blank}]

ASSUME BlankAssumption == Blank \notin Name
ASSUME MappingAssumption == Malformed \notin Mapping /\ \A f \in Mapping : IsMapping(f)

VARIABLES
  asked,    \* model
  mapping,  \* mappingJSON, decoded
  current,
  visited,
  outcome   \* "walking", or how ResolveModelMapping returns

mappingVars == <<asked, mapping, current, visited, outcome>>

\* An absent mapping and "{}" are the function without arguments.
MappingInit ==
  /\ asked \in Name
  /\ mapping \in Mapping \cup {Malformed}
  /\ current = asked
  /\ visited = {asked}
  /\ outcome = "walking"

\* next; a name that is not mapped, or mapped to "", stays.
Hop(n) == IF n \in DOMAIN mapping /\ mapping[n] # Blank THEN mapping[n] ELSE n

Ends(how) ==
  /\ outcome' = how
  /\ UNCHANGED <<asked, mapping, current, visited>>

Walking == outcome = "walking" /\ mapping # Malformed

RejectMapping == outcome = "walking" /\ mapping = Malformed /\ Ends("invalid")

\* Mutant: a chain is followed for one hop only.
ReturnFirstHop ==
  /\ Walking
  /\ outcome' = "resolved"
  /\ current' = Hop(current)
  /\ visited' = visited \cup {Hop(current)}
  /\ UNCHANGED <<asked, mapping>>

ReturnCurrent == Walking /\ Hop(current) = current /\ Ends("resolved")

ReportCycle ==
  /\ Walking
  /\ Hop(current) # current /\ Hop(current) \in visited
  /\ Ends("cycle")

\* Mutant: only a return to the first name is taken for a cycle.
FollowUnlessBack ==
  /\ Walking
  /\ Hop(current) \notin {current, asked}
  /\ current' = Hop(current)
  /\ visited' = visited \cup {Hop(current)}
  /\ UNCHANGED <<asked, mapping, outcome>>

FollowMapping ==
  /\ Walking
  /\ Hop(current) \notin visited
  /\ current' = Hop(current)
  /\ visited' = visited \cup {Hop(current)}
  /\ UNCHANGED <<asked, mapping, outcome>>

ResolveModelMapping == RejectMapping \/ ReturnCurrent \/ ReportCycle \/ FollowMapping

MappingSpec == MappingInit /\ [][ResolveModelMapping]_mappingVars

-----------------------------------------------------------------------------
(* Properties *)

\* Every variable has its type; the walk stands on a name it has visited.
MappingTypeOK ==
  /\ asked \in Name
  /\ mapping \in Mapping \cup {Malformed}
  /\ visited \subseteq Name
  /\ {asked, current} \subseteq visited
  /\ outcome \in {"walking", "resolved", "cycle", "invalid"}

\* The names a walk of any length can meet: the least set that holds the
\* name asked for and is closed under the mapping.
Orbit ==
  {n \in Name : \A S \in SUBSET Name :
                  asked \in S /\ (\A m \in S : Hop(m) \in S) => n \in S}

\* A resolved name is one the mapping leads to and leaves alone; a cycle is
\* reported only when the mapping leads to no such name at all, whatever the
\* length of the tail before the cycle and of the cycle.
ResolvesAsDefined ==
  /\ outcome = "resolved" => current \in Orbit /\ Hop(current) = current
  /\ outcome = "cycle" => \A n \in Orbit : Hop(n) # n
=============================================================================
