---------------------------- MODULE MCCertificates ----------------------------
(***************************************************************************)
(* Instances of Certificates: two names, one of them also spelled in upper *)
(* case, and an address, which is not a name.                              *)
(***************************************************************************)
EXTENDS Certificates, TLC

MCNames == {"a.com", "b.com"}
MCSpellings == MCNames \cup {"A.com", "10.0.0.1"}
MCCanon == ("a.com" :> "a.com") @@ ("A.com" :> "a.com") @@ ("b.com" :> "b.com")
           @@ ("10.0.0.1" :> None)

Symmetric == Permutations(Processes) \cup Permutations(Roots) \cup Permutations(Handshakers)
=============================================================================
