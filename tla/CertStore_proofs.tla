-------------------------- MODULE CertStore_proofs --------------------------
(***************************************************************************)
(* Proofs about CertStore: the type invariant for every instance, and     *)
(* trust on first use for one rdesktop process whose cache file names do  *)
(* not collide.  CertStore_twoclients shows that the first hypothesis     *)
(* cannot be dropped; a CacheFile that maps two identities to one file    *)
(* breaks the second the same way.                                         *)
(***************************************************************************)
EXTENDS CertStore, TLAPS

(* One process uses the certificate cache.                                 *)
SingleProcess == \E c0 \in Clients : Clients = {c0}

(* cert_store_cache_filename gives distinct identities distinct files.     *)
InjectiveHash == \A i, j \in Identities : CacheFile[i] = CacheFile[j] => i = j

(* Identity i's file is being rewritten by process c.                      *)
WritingFor(c, i) == pc[c] \in {"store_open", "store_write"} /\ id[c] = i

(* The strengthening of TrustOnFirstUse that one step preserves: a key on *)
(* disk is a trusted key of the identity the file belongs to; a file that *)
(* pins no key belongs to an identity not yet trusted, unless it is being *)
(* rewritten; a key being written is trusted or is the identity's first.  *)
IInv ==
    /\ TypeOK
    /\ TrustOnFirstUse
    /\ \A i \in Identities :
          store[CacheFile[i]] \in Keys => store[CacheFile[i]] \in trusted[i]
    /\ \A i \in Identities :
          /\ store[CacheFile[i]] \notin Keys
          /\ \A c \in Clients : ~WritingFor(c, i)
          => trusted[i] = {}
    /\ \A c \in Clients :
          pc[c] \in {"store_open", "store_write"}
          => key[c] \in trusted[id[c]] \/ trusted[id[c]] = {}

USE CertStoreAssumption

-----------------------------------------------------------------------------
(* The type invariant holds in every state, for every instance.           *)
LEMMA TypeCorrect == Spec => []TypeOK
<1>1. Init => TypeOK
  BY DEF Init, TypeOK, PinOf, Contents, PCs
<1>2. TypeOK /\ [Next]_vars => TypeOK'
  <2> SUFFICES ASSUME TypeOK, [Next]_vars PROVE TypeOK'
    OBVIOUS
  <2>1. ASSUME NEW c \in Clients, NEW i \in Identities, NEW k \in Keys,
               HandshakeDone(c, i, k)
        PROVE TypeOK'
    BY <2>1 DEF HandshakeDone, TypeOK, PCs
  <2>2. ASSUME NEW c \in Clients, check_cert_dir(c) PROVE TypeOK'
    BY <2>2 DEF check_cert_dir, Reject, TypeOK, PCs
  <2>3. ASSUME NEW c \in Clients, cert_tdb_verify(c) PROVE TypeOK'
    BY <2>3 DEF cert_tdb_verify, Accept, FileOf, TypeOK, PCs, Contents
  <2>4. ASSUME NEW c \in Clients, NEW r \in Responses, MismatchPrompt(c, r)
        PROVE TypeOK'
    BY <2>4 DEF MismatchPrompt, Reject, TypeOK, PCs
  <2>5. ASSUME NEW c \in Clients, cert_tdb_store_open(c) PROVE TypeOK'
    BY <2>5 DEF cert_tdb_store_open, FileOf, TypeOK, PCs, Contents
  <2>6. ASSUME NEW c \in Clients, cert_tdb_store_write(c) PROVE TypeOK'
    BY <2>6 DEF cert_tdb_store_write, Accept, FileOf, TypeOK, PCs, Contents
  <2>7. ASSUME NEW c \in Clients, Finish(c) PROVE TypeOK'
    BY <2>7 DEF Finish, TypeOK, PCs
  <2>8. CASE UNCHANGED vars
    BY <2>8 DEF vars, TypeOK
  <2>9. QED
    BY <2>1, <2>2, <2>3, <2>4, <2>5, <2>6, <2>7, <2>8 DEF Next
<1>3. QED
  BY <1>1, <1>2, PTL DEF Spec

-----------------------------------------------------------------------------
(* The strengthening holds initially: the operator trusts exactly the key *)
(* each file holds when the model starts.                                  *)
LEMMA InitIInv == ASSUME InjectiveHash PROVE Init => IInv
  BY DEF Init, IInv, TypeOK, TrustOnFirstUse, WritingFor, PinOf, Contents, PCs,
         InjectiveHash

(* Every step of the single process preserves the strengthening.          *)
LEMMA NextIInv == ASSUME SingleProcess, InjectiveHash
                  PROVE IInv /\ [Next]_vars => IInv'
<1> SUFFICES ASSUME IInv, [Next]_vars PROVE IInv'
  OBVIOUS
<1> PICK c0 \in Clients : Clients = {c0}
  BY DEF SingleProcess
<1> USE DEF IInv, TypeOK, TrustOnFirstUse, WritingFor, FileOf, Contents, PCs,
            InjectiveHash
<1>1. ASSUME NEW c \in Clients, NEW i \in Identities, NEW k \in Keys,
             HandshakeDone(c, i, k)
      PROVE IInv'
  BY <1>1 DEF HandshakeDone
<1>2. ASSUME NEW c \in Clients, check_cert_dir(c) PROVE IInv'
  BY <1>2 DEF check_cert_dir, Reject
<1>3. ASSUME NEW c \in Clients, cert_tdb_verify(c) PROVE IInv'
  BY <1>3 DEF cert_tdb_verify, Accept
<1>4. ASSUME NEW c \in Clients, NEW r \in Responses, MismatchPrompt(c, r)
      PROVE IInv'
  BY <1>4 DEF MismatchPrompt, Reject
<1>5. ASSUME NEW c \in Clients, cert_tdb_store_open(c) PROVE IInv'
  BY <1>5 DEF cert_tdb_store_open
<1>6. ASSUME NEW c \in Clients, cert_tdb_store_write(c) PROVE IInv'
  BY <1>6 DEF cert_tdb_store_write, Accept
<1>7. ASSUME NEW c \in Clients, Finish(c) PROVE IInv'
  BY <1>7 DEF Finish
<1>8. CASE UNCHANGED vars
  BY <1>8 DEF vars
<1>9. QED
  BY <1>1, <1>2, <1>3, <1>4, <1>5, <1>6, <1>7, <1>8 DEF Next

(* Trust on first use holds in every state of one process whose cache    *)
(* file names do not collide: check_cert goes on only with a key the      *)
(* operator trusts, silently on first use and otherwise by "yes".         *)
THEOREM TrustOnFirstUseSingle ==
  ASSUME SingleProcess, InjectiveHash
  PROVE Spec => []TrustOnFirstUse
<1>1. Init => IInv
  BY InitIInv
<1>2. IInv /\ [Next]_vars => IInv'
  BY NextIInv
<1>3. IInv => TrustOnFirstUse
  BY DEF IInv
<1>4. QED
  BY <1>1, <1>2, <1>3, PTL DEF Spec

-----------------------------------------------------------------------------
(* The strengthening of StoreHoldsPin: trust and the pin move together,   *)
(* and a store in progress for an identity already trusted writes the key *)
(* the operator pinned last.                                               *)
PinInv ==
    /\ IInv
    /\ StoreHoldsPin
    /\ \A i \in Identities : pinned[i] = None <=> trusted[i] = {}
    /\ \A c \in Clients, i \in Identities :
          WritingFor(c, i) => trusted[i] = {} \/ pinned[i] = key[c]

(* The strengthening holds initially: each identity's pin is what its     *)
(* file holds, and nothing is being written.                               *)
LEMMA InitPinInv == ASSUME InjectiveHash PROVE Init => PinInv
<1> SUFFICES ASSUME Init PROVE PinInv
  OBVIOUS
<1>1. IInv
  BY InitIInv
<1>2. StoreHoldsPin
  BY DEF Init, StoreHoldsPin, PinOf, InjectiveHash
<1>3. \A i \in Identities : pinned[i] = None <=> trusted[i] = {}
  BY DEF Init, PinOf
<1>4. \A c \in Clients, i \in Identities :
         WritingFor(c, i) => trusted[i] = {} \/ pinned[i] = key[c]
  BY DEF Init, WritingFor
<1>5. QED
  BY <1>1, <1>2, <1>3, <1>4 DEF PinInv

(* Every step of the single process preserves it.                          *)
LEMMA NextPinInv == ASSUME SingleProcess, InjectiveHash
                    PROVE PinInv /\ [Next]_vars => PinInv'
<1> SUFFICES ASSUME PinInv, [Next]_vars PROVE PinInv'
  OBVIOUS
<1>0. IInv'
  BY NextIInv DEF PinInv
<1> PICK c0 \in Clients : Clients = {c0}
  BY DEF SingleProcess
<1> USE DEF PinInv, IInv, TypeOK, StoreHoldsPin, Writing, WritingFor, FileOf,
            PinOf, Contents, PCs, InjectiveHash
<1>1. ASSUME NEW c \in Clients, NEW i \in Identities, NEW k \in Keys,
             HandshakeDone(c, i, k)
      PROVE PinInv'
  BY <1>0, <1>1 DEF HandshakeDone
<1>2. ASSUME NEW c \in Clients, check_cert_dir(c) PROVE PinInv'
  BY <1>0, <1>2 DEF check_cert_dir, Reject
<1>3. ASSUME NEW c \in Clients, cert_tdb_verify(c) PROVE PinInv'
  BY <1>0, <1>3 DEF cert_tdb_verify, Accept
<1>4. ASSUME NEW c \in Clients, NEW r \in Responses, MismatchPrompt(c, r)
      PROVE PinInv'
  BY <1>0, <1>4 DEF MismatchPrompt, Reject
<1>5. ASSUME NEW c \in Clients, cert_tdb_store_open(c) PROVE PinInv'
  BY <1>0, <1>5 DEF cert_tdb_store_open
<1>6. ASSUME NEW c \in Clients, cert_tdb_store_write(c) PROVE PinInv'
  BY <1>0, <1>6 DEF cert_tdb_store_write, Accept
<1>7. ASSUME NEW c \in Clients, Finish(c) PROVE PinInv'
  BY <1>0, <1>7 DEF Finish
<1>8. CASE UNCHANGED vars
  BY <1>0, <1>8 DEF vars
<1>9. QED
  BY <1>1, <1>2, <1>3, <1>4, <1>5, <1>6, <1>7, <1>8 DEF Next

(* The store remembers the operator's decisions (spec section 8), for one *)
(* process whose cache file names do not collide: whenever no store is in *)
(* progress, an identity's file pins exactly the key last trusted for it, *)
(* however many identities, keys and garbled files there are.             *)
THEOREM StoreHoldsPinSingle ==
  ASSUME SingleProcess, InjectiveHash
  PROVE  Spec => []StoreHoldsPin
<1>1. Init => PinInv
  BY InitPinInv
<1>2. PinInv /\ [Next]_vars => PinInv'
  BY NextPinInv
<1>3. PinInv => StoreHoldsPin
  BY DEF PinInv
<1>4. QED
  BY <1>1, <1>2, <1>3, PTL DEF Spec

=============================================================================
