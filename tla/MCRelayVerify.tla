--------------------------- MODULE MCRelayVerify ---------------------------
(* A small instance of RelayVerify: a process for the quote of the script, one *)
(* for the certificate of relay-verify and a spare.                            *)
EXTENDS RelayVerify, TLC

CONSTANTS p1, p2, p3, audited, other

Processes == {p1, p2, p3}
Builds == {audited, other}

Option(dcap, outdated, unbound, tag) ==
  [dcapVerify |-> dcap, allowOutdated |-> outdated, allowUnbound |-> unbound,
   dcapVerifyAvailable |-> tag]

\* No chain wanted, with and without the binding; one wanted with and without
\* the concessions; one wanted from a binary that cannot verify it.
CommandLines ==
  {Option(FALSE, FALSE, FALSE, FALSE), Option(FALSE, FALSE, TRUE, FALSE),
   Option(TRUE, FALSE, FALSE, TRUE), Option(TRUE, TRUE, TRUE, TRUE),
   Option(TRUE, FALSE, FALSE, FALSE)}

\* Only the processes are interchangeable.
Symmetry == Permutations(Processes)
=============================================================================
