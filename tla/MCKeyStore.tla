----------------------------- MODULE MCKeyStore -----------------------------
(* A small instance of KeyStore: a key to seal and two to replace it with. *)
EXTENDS KeyStore

CONSTANTS k1, k2, k3

Keys == {k1, k2, k3}
=============================================================================
