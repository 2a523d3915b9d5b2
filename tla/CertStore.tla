----------------------------- MODULE CertStore -----------------------------
(***************************************************************************)
(* The trust-on-first-use store of peer public keys (src/tcp.c, lines     *)
(* 89-235) and the certificate check that consults it once per TLS        *)
(* handshake (check_cert, lines 432-589).                                  *)
(*                                                                         *)
(* The store is one file per identity under ~/.local/share/rdesktop/certs, *)
(* named by the djb2 hash of the certificate's Common Name.  The files     *)
(* outlive the process, so several rdesktop processes (Clients) may share  *)
(* them.  CertStoreFaults adds a process started without HOME and a       *)
(* process that dies between two of its steps.                             *)
(*                                                                         *)
(* Data is abstracted to what the checks tell apart: a key is a model      *)
(* value, a file holds NoFile (absent), Empty (fewer than two lines: what  *)
(* fopen("w+") leaves before the write), Garbage (two lines whose second   *)
(* is not base64) or the key its base64 line decodes to.                   *)
(***************************************************************************)
EXTENDS Naturals, FiniteSets

CONSTANTS
    Clients,        \* rdesktop processes sharing one certificate cache
    Identities,     \* Common Names a server's certificate may carry
    Keys,           \* public keys a server may present
    Files,          \* cache file names (hex djb2 hashes)
    CacheFile,      \* cert_store_cache_filename: Identities -> Files
    NoFile, Empty, Garbage, \* file contents other than a decodable key
    None,           \* no key pinned yet
    InitContents,   \* what a cache file may hold when the model starts
    InitDirs        \* what the cache directory may be when the model starts

ASSUME CertStoreAssumption ==
    /\ Clients # {} /\ Identities # {} /\ Keys # {}
    /\ CacheFile \in [Identities -> Files]
    /\ {NoFile, Empty, Garbage, None} \cap Keys = {}
    /\ Cardinality({NoFile, Empty, Garbage, None}) = 4
    /\ InitContents \subseteq ({NoFile, Empty, Garbage} \cup Keys)
    /\ NoFile \in InitContents
    /\ InitDirs \subseteq {"dir", "missing", "notdir"} /\ InitDirs # {}

Contents == {NoFile, Empty, Garbage} \cup Keys

(* The answers util_dialog_choice(message, "no", "yes", NULL) may give.    *)
Responses == {"yes", "no", "null"}

(* Control points of one process: idle between connections, then the     *)
(* steps of check_cert, ending in accepted (check_cert returned 0 and     *)
(* tcp_tls_connect returns True) or rejected (it returned 1 and            *)
(* tcp_tls_connect calls exit(1)).                                         *)
PCs == {"idle", "check", "verify", "prompt", "store_open", "store_write",
        "accepted", "rejected"}

VARIABLES
    store,   \* store[f]: content of cache file f
    dir,     \* the cache directory: "dir", "missing" or "notdir"
    pc,      \* pc[c]: control point of process c
    id,      \* id[c]: Common Name of the certificate c is checking
    key,     \* key[c]: public key of that certificate
    trusted, \* history: trusted[i], the keys the operator has trusted for
             \* identity i, silently on its first use or by answering "yes"
    pinned   \* history: pinned[i], the last of them (None before the first)

vars == <<store, dir, pc, id, key, trusted, pinned>>

TypeOK ==
    /\ store \in [Files -> Contents]
    /\ dir \in {"dir", "missing", "notdir"}
    /\ pc \in [Clients -> PCs]
    /\ id \in [Clients -> Identities]
    /\ key \in [Clients -> Keys]
    /\ trusted \in [Identities -> SUBSET Keys]
    /\ pinned \in [Identities -> Keys \cup {None}]

(* The key a file's content pins, or None when it pins none.               *)
PinOf(content) == IF content \in Keys THEN content ELSE None

Init ==
    /\ store \in [Files -> InitContents]
    /\ dir \in InitDirs
    /\ pc = [c \in Clients |-> "idle"]
    /\ id = [c \in Clients |-> CHOOSE i \in Identities : TRUE]
    /\ key = [c \in Clients |-> CHOOSE k \in Keys : TRUE]
    /\ pinned = [i \in Identities |-> PinOf(store[CacheFile[i]])]
    /\ trusted = [i \in Identities |->
                    IF pinned[i] = None THEN {} ELSE {pinned[i]}]

-----------------------------------------------------------------------------
(* The file client c's check reads and writes.                            *)
FileOf(c) == CacheFile[id[c]]

(* check_cert returns 0: the session goes on with key[c].  On the first   *)
(* use of an identity the operator's trust goes to that key.              *)
Accept(c) ==
    /\ pc' = [pc EXCEPT ![c] = "accepted"]
    /\ IF trusted[id[c]] = {}
         THEN /\ trusted' = [trusted EXCEPT ![id[c]] = {key[c]}]
              /\ pinned' = [pinned EXCEPT ![id[c]] = key[c]]
         ELSE UNCHANGED <<trusted, pinned>>

(* check_cert jumps to bail and returns 1.                                 *)
Reject(c) == pc' = [pc EXCEPT ![c] = "rejected"]

(* tcp_tls_connect: the handshake with a server presenting a certificate  *)
(* for identity i with key k has succeeded and check_cert is called.      *)
HandshakeDone(c, i, k) ==
    /\ pc[c] = "idle"
    /\ pc' = [pc EXCEPT ![c] = "check"]
    /\ id' = [id EXCEPT ![c] = i]
    /\ key' = [key EXCEPT ![c] = k]
    /\ UNCHANGED <<store, dir, trusted, pinned>>

(* check_cert with HOME set: the cache directory.  A missing directory is *)
(* created by rd_certcache_mkdir, which may fail; a path that exists but  *)
(* is not a directory bails out.  (HOME unset is check_cert_no_home, in   *)
(* CertStoreFaults.)                                                       *)
check_cert_dir(c) ==
    /\ pc[c] = "check"
    /\ \/ /\ dir = "dir"
          /\ pc' = [pc EXCEPT ![c] = "verify"]
          /\ UNCHANGED dir
       \/ /\ dir = "missing"
          /\ dir' = "dir"
          /\ pc' = [pc EXCEPT ![c] = "verify"]
       \/ /\ dir \in {"missing", "notdir"}
          /\ Reject(c)
          /\ UNCHANGED dir
    /\ UNCHANGED <<store, id, key, trusted, pinned>>

(* A plausible bug of cert_tdb_verify: a stored key of another size or    *)
(* content reported as "no certificate found" instead of a mismatch.      *)
cert_tdb_verify_mismatch_as_unknown(c) ==
    LET f == FileOf(c) IN
    /\ pc[c] = "verify"
    /\ \/ /\ store[f] \in {NoFile, Empty} \cup (Keys \ {key[c]})
          /\ store' = [store EXCEPT ![f] = NoFile]
          /\ pc' = [pc EXCEPT ![c] = "store_open"]
          /\ UNCHANGED <<trusted, pinned>>
       \/ /\ store[f] = Garbage
          /\ store' = [store EXCEPT ![f] = NoFile]
          /\ pc' = [pc EXCEPT ![c] = "prompt"]
          /\ UNCHANGED <<trusted, pinned>>
       \/ /\ store[f] = key[c]
          /\ Accept(c)
          /\ UNCHANGED store
    /\ UNCHANGED <<dir, id, key>>

(* gnutls_verify_stored_pubkey with the cert_tdb_verify callback, and the *)
(* branch check_cert takes on its result.  A missing or short file is     *)
(* unlinked and reported as GNUTLS_E_NO_CERTIFICATE_FOUND: the key is     *)
(* stored.  A second line that does not decode is unlinked and reported   *)
(* as GNUTLS_E_CERTIFICATE_KEY_MISMATCH, as is a decoded key that differs *)
(* in size or bytes: the operator is asked.  An equal key is accepted.    *)
cert_tdb_verify(c) ==
    LET f == FileOf(c) IN
    /\ pc[c] = "verify"
    /\ \/ /\ store[f] \in {NoFile, Empty}
          /\ store' = [store EXCEPT ![f] = NoFile]
          /\ pc' = [pc EXCEPT ![c] = "store_open"]
          /\ UNCHANGED <<trusted, pinned>>
       \/ /\ store[f] = Garbage
          /\ store' = [store EXCEPT ![f] = NoFile]
          /\ pc' = [pc EXCEPT ![c] = "prompt"]
          /\ UNCHANGED <<trusted, pinned>>
       \/ /\ store[f] \in Keys \ {key[c]}
          /\ pc' = [pc EXCEPT ![c] = "prompt"]
          /\ UNCHANGED <<store, trusted, pinned>>
       \/ /\ store[f] = key[c]
          /\ Accept(c)
          /\ UNCHANGED store
    /\ UNCHANGED <<dir, id, key>>

(* A plausible bug of the mismatch branch: any answer but "no" taken as   *)
(* consent, without recording it.                                         *)
MismatchPrompt_no_pin(c, r) ==
    /\ pc[c] = "prompt"
    /\ \/ /\ r = "no"
          /\ Reject(c)
       \/ /\ r # "no"
          /\ pc' = [pc EXCEPT ![c] = "store_open"]
    /\ UNCHANGED <<store, dir, id, key, trusted, pinned>>

(* The mismatch branch of check_cert: util_dialog_choice blocks for the   *)
(* operator's answer.  "no" bails out.  NULL is passed to strcmp before   *)
(* it is tested, so the process dies.  "yes" goes on to store the key;    *)
(* from here on the operator trusts key[c] for id[c].                      *)
MismatchPrompt(c, r) ==
    /\ pc[c] = "prompt"
    /\ \/ /\ r = "no"
          /\ Reject(c)
          /\ UNCHANGED <<trusted, pinned>>
       \/ /\ r = "null"
          /\ pc' = [pc EXCEPT ![c] = "idle"]
          /\ UNCHANGED <<trusted, pinned>>
       \/ /\ r = "yes"
          /\ pc' = [pc EXCEPT ![c] = "store_open"]
          /\ trusted' = [trusted EXCEPT ![id[c]] = @ \cup {key[c]}]
          /\ pinned' = [pinned EXCEPT ![id[c]] = key[c]]
    /\ UNCHANGED <<store, dir, id, key>>

(* cert_tdb_store, first half: fopen(filename, "w+") truncates the file.  *)
(* stdio buffers the two lines until fclose, so until then the file holds *)
(* nothing.                                                                *)
cert_tdb_store_open(c) ==
    /\ pc[c] = "store_open"
    /\ store' = [store EXCEPT ![FileOf(c)] = Empty]
    /\ pc' = [pc EXCEPT ![c] = "store_write"]
    /\ UNCHANGED <<dir, id, key, trusted, pinned>>

(* A plausible bug of cert_tdb_store: the host name written where the    *)
(* key belongs (the two are adjacent const char * / datum arguments).     *)
cert_tdb_store_write_host(c) ==
    /\ pc[c] = "store_write"
    /\ store' = [store EXCEPT ![FileOf(c)] = id[c]]
    /\ Accept(c)
    /\ UNCHANGED <<dir, id, key>>

(* cert_tdb_store, second half: fclose writes the expiration line and the *)
(* base64 key line; the store returns GNUTLS_E_SUCCESS and check_cert     *)
(* returns 0.                                                              *)
cert_tdb_store_write(c) ==
    /\ pc[c] = "store_write"
    /\ store' = [store EXCEPT ![FileOf(c)] = key[c]]
    /\ Accept(c)
    /\ UNCHANGED <<dir, id, key>>

(* The session ends (tcp_disconnect) or the process exits after a         *)
(* rejection; the next connection starts from idle.                       *)
Finish(c) ==
    /\ pc[c] \in {"accepted", "rejected"}
    /\ pc' = [pc EXCEPT ![c] = "idle"]
    /\ UNCHANGED <<store, dir, id, key, trusted, pinned>>

Next ==
    \E c \in Clients :
        \/ \E i \in Identities, k \in Keys : HandshakeDone(c, i, k)
        \/ check_cert_dir(c)
        \/ cert_tdb_verify(c)
        \/ \E r \in Responses : MismatchPrompt(c, r)
        \/ cert_tdb_store_open(c)
        \/ cert_tdb_store_write(c)
        \/ Finish(c)

Spec == Init /\ [][Next]_vars

-----------------------------------------------------------------------------
(* Properties.                                                             *)

(* Trust on first use (spec section 8): a session goes on with a key only *)
(* if the operator has trusted it for that identity, trust being given    *)
(* silently on the first use of an identity and otherwise only by         *)
(* answering "yes" to the mismatch prompt of check_cert.  A key change    *)
(* that never reaches the prompt breaks it.                                *)
TrustOnFirstUse ==
    \A c \in Clients : pc[c] = "accepted" => key[c] \in trusted[id[c]]

(* The store remembers the operator's decisions (spec section 8: "yes"    *)
(* persists the new key, "no" leaves the old one): whenever no process is *)
(* writing an identity's file, that file pins exactly the key the         *)
(* operator trusts for the identity, or none when it trusts none yet.     *)
Writing(f) ==
    \E c \in Clients : pc[c] \in {"store_open", "store_write"} /\ FileOf(c) = f

StoreHoldsPin ==
    \A i \in Identities :
        ~Writing(CacheFile[i]) => PinOf(store[CacheFile[i]]) = pinned[i]

(* Spec section 4.5: the mismatch prompt is reachable only from a record  *)
(* that parsed; a malformed record is treated as unknown.  So while a     *)
(* process waits for the operator, the file it read holds a well-formed   *)
(* key other than the presented one.                                       *)
PromptOnlyOnMismatch ==
    \A c \in Clients : pc[c] = "prompt" => store[FileOf(c)] \in Keys \ {key[c]}

=============================================================================
