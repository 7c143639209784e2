------------------------------ MODULE MCEnforce ------------------------------
(* Small instances of MsshdEnforce for TLC. *)
EXTENDS MsshdEnforce, TLC

CONSTANTS MaxUserSeq, MaxBypassSeq   \* bounds: the length of each CRL log

MCMaxSeq == [i \in Issuer |-> IF i = UserMint THEN MaxUserSeq ELSE MaxBypassSeq]

\* Principals and handlers are interchangeable in every safety property.
MCSymmetry == Permutations(Principal) \cup Permutations(Conn)
=============================================================================
