---------------------------- MODULE MC_CertStore ----------------------------
(* Instances of CertStore for TLC: two identities, three keys, two cache  *)
(* files.                                                                  *)
EXTENDS CertStoreFaults, TLC

CONSTANTS i1, i2, f1, f2

(* djb2 hashes of two Common Names that differ.                           *)
DistinctHashes == (i1 :> f1) @@ (i2 :> f2)

=============================================================================
