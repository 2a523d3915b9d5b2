-------------------------- MODULE CertStoreFaults --------------------------
(***************************************************************************)
(* CertStore with the two ways a process can leave the normal path of     *)
(* check_cert: it runs without HOME in its environment, or it dies (is    *)
(* killed, or crashes) between two of its steps while the cache files     *)
(* stay on disk.                                                           *)
(***************************************************************************)
EXTENDS CertStore

(* check_cert, lines 451-454: getenv("HOME") returns NULL and the         *)
(* function returns False.  False is 0, the value tcp_tls_connect reads   *)
(* as "certificate checked", so the session goes on without the store     *)
(* being consulted.                                                        *)
check_cert_no_home(c) ==
    /\ pc[c] = "check"
    /\ Accept(c)
    /\ UNCHANGED <<store, dir, id, key>>

(* The process dies between two of its steps; the files stay as they are. *)
Crash(c) ==
    /\ pc[c] \notin {"idle", "accepted", "rejected"}
    /\ pc' = [pc EXCEPT ![c] = "idle"]
    /\ UNCHANGED <<store, dir, id, key, trusted, pinned>>

(* Processes of which some are started without HOME.                       *)
NextNoHome == Next \/ \E c \in Clients : check_cert_no_home(c)

SpecNoHome == Init /\ [][NextNoHome]_vars

(* Processes that may die at any point of check_cert.                      *)
NextCrash == Next \/ \E c \in Clients : Crash(c)

SpecCrash == Init /\ [][NextCrash]_vars
=============================================================================
