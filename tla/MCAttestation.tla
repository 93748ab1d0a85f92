--------------------------- MODULE MCAttestation ---------------------------
(* A small instance of Attestation: a process for each connection and a spare. *)
EXTENDS Attestation, TLC

CONSTANTS p1, p2, p3, p4, p5, audited, other

Processes == {p1, p2, p3, p4, p5}
Builds == {audited, other}

\* Only the processes are interchangeable.
Symmetry == Permutations(Processes)
=============================================================================
