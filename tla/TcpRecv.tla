------------------------------ MODULE TcpRecv ------------------------------
(***************************************************************************)
(* The inbound path of the TCP layer (src/tcp.c, tcp_recv, lines          *)
(* 338-430): the inbound stream g_in and its growth, the read loop over   *)
(* the plain socket or the TLS record layer, the wait in ui_select with   *)
(* its cancellation by g_exit_mainloop, and the process-wide              *)
(* g_network_error flag.  Only the main thread receives.                   *)
(*                                                                         *)
(* Bytes are counted, not named.  The peer is the environment: it sends   *)
(* bytes, closes the connection (FIN) or resets it (RST); the socket is   *)
(* blocking, so a read waits until one of these has happened.              *)
(***************************************************************************)
EXTENDS Naturals

CONSTANTS
    SSL,        \* g_ssl_initialized for the whole run: TLS (TRUE) or plain
    InitSize,   \* g_in.size after tcp_connect (4096 in the code)
    Lengths,    \* lengths a caller asks tcp_recv for
    MaxCalls,   \* bound on the calls of tcp_recv
    MaxAvail    \* bound on the bytes the peer has sent and nobody read

ASSUME TcpRecvAssumption ==
    /\ SSL \in BOOLEAN
    /\ InitSize \in Nat \ {0}
    /\ Lengths \subseteq Nat \ {0} /\ Lengths # {}
    /\ MaxCalls \in Nat \ {0}
    /\ MaxAvail \in Nat \ {0}

VARIABLES
    rpc,       \* "idle", "loop" (top of the while), "read" (after ui_select)
    size,      \* s->size of the stream being filled
    end,       \* s->end - s->data
    want,      \* length: bytes still to read in this call
    calls,     \* calls of tcp_recv so far
    last,      \* outcome of the last call: "none", "ok", "cancelled", "failed"
    net_err,   \* g_network_error
    run_ui,    \* g_run_ui
    exit_ml,   \* g_exit_mainloop
    avail,     \* bytes the peer has sent that are not read yet
    peer       \* "open", "closed" (FIN) or "reset" (RST)

vars == <<rpc, size, end, want, calls, last, net_err, run_ui, exit_ml, avail, peer>>

MaxLen == CHOOSE m \in Lengths : \A l \in Lengths : l <= m

TypeOK ==
    /\ rpc \in {"idle", "loop", "read"}
    /\ size \in Nat /\ end \in Nat /\ want \in Nat
    /\ calls \in 0 .. MaxCalls
    /\ last \in {"none", "ok", "cancelled", "failed"}
    /\ net_err \in BOOLEAN /\ run_ui \in BOOLEAN /\ exit_ml \in BOOLEAN
    /\ avail \in 0 .. MaxAvail
    /\ peer \in {"open", "closed", "reset"}

(* Right after tcp_connect: g_in allocated with InitSize bytes.            *)
Init ==
    /\ rpc = "idle"
    /\ size = InitSize /\ end = 0 /\ want = 0
    /\ calls = 0
    /\ last = "none"
    /\ net_err = FALSE
    /\ run_ui \in BOOLEAN
    /\ exit_ml = FALSE
    /\ avail = 0
    /\ peer = "open"

(* The socket has something to report: data, end of stream or an error.   *)
Readable == avail > 0 \/ peer # "open"

(* Line 377: the loop waits in ui_select unless TLS already holds         *)
(* decrypted data (gnutls_record_check_pending > 0), and only when the UI *)
(* loop runs.                                                              *)
MustSelect == (~SSL \/ avail = 0) /\ run_ui

(* The call ends: rpc back to idle with outcome r.                         *)
Return(r) == rpc' = "idle" /\ last' = r

-----------------------------------------------------------------------------
(* A plausible bug of the append branch: the new size computed from the   *)
(* requested length alone, forgetting what the stream already holds.      *)
tcp_recv_enter_no_end(l, append) ==
    /\ rpc = "idle"
    /\ calls < MaxCalls
    /\ calls' = calls + 1
    /\ \/ /\ net_err
          /\ Return("failed")
          /\ UNCHANGED <<size, end, want>>
       \/ /\ ~net_err
          /\ ~append
          /\ size' = IF l > size THEN l ELSE size
          /\ end' = 0
          /\ want' = l
          /\ rpc' = "loop" /\ UNCHANGED last
       \/ /\ ~net_err
          /\ append
          /\ size' = IF l > size THEN l ELSE size
          /\ want' = l
          /\ rpc' = "loop" /\ UNCHANGED <<end, last>>
    /\ UNCHANGED <<net_err, run_ui, exit_ml, avail, peer>>

(* tcp_recv, lines 345-372.  With g_network_error set it returns NULL at  *)
(* once.  Otherwise, without a stream (append = FALSE) g_in is grown to   *)
(* the length if smaller and emptied; with one, the stream is grown to    *)
(* hold what it has plus the length, keeping its offsets.                  *)
tcp_recv_enter(l, append) ==
    /\ rpc = "idle"
    /\ calls < MaxCalls
    /\ calls' = calls + 1
    /\ \/ /\ net_err
          /\ Return("failed")
          /\ UNCHANGED <<size, end, want>>
       \/ /\ ~net_err
          /\ ~append
          /\ size' = IF l > size THEN l ELSE size
          /\ end' = 0
          /\ want' = l
          /\ rpc' = "loop" /\ UNCHANGED last
       \/ /\ ~net_err
          /\ append
          /\ size' = IF end + l > size THEN end + l ELSE size
          /\ want' = l
          /\ rpc' = "loop" /\ UNCHANGED <<end, last>>
    /\ UNCHANGED <<net_err, run_ui, exit_ml, avail, peer>>

(* The loop has read all it was asked for: return s.                       *)
tcp_recv_done ==
    /\ rpc = "loop"
    /\ want = 0
    /\ Return("ok")
    /\ UNCHANGED <<size, end, want, calls, net_err, run_ui, exit_ml, avail, peer>>

(* A plausible bug of the wait: the g_exit_mainloop test after ui_select *)
(* left out, so only a readable socket wakes the loop.                     *)
tcp_recv_select_no_exit ==
    /\ rpc = "loop"
    /\ want > 0
    /\ MustSelect
    /\ Readable
    /\ rpc' = "read" /\ UNCHANGED last
    /\ UNCHANGED <<size, end, want, calls, net_err, run_ui, exit_ml, avail, peer>>

(* Lines 377-385: ui_select(g_sock) returns when the socket is readable   *)
(* or the UI has asked the main loop to exit; in the second case tcp_recv *)
(* returns NULL.                                                           *)
tcp_recv_select ==
    /\ rpc = "loop"
    /\ want > 0
    /\ MustSelect
    /\ Readable \/ exit_ml
    /\ IF exit_ml THEN Return("cancelled") ELSE rpc' = "read" /\ UNCHANGED last
    /\ UNCHANGED <<size, end, want, calls, net_err, run_ui, exit_ml, avail, peer>>

(* A read that is allowed now: after ui_select, or at the top of the loop *)
(* when no wait is due.                                                    *)
CanRead == rpc = "read" \/ (rpc = "loop" /\ want > 0 /\ ~MustSelect)

(* A plausible bug of the read: recv() asked for more than is still       *)
(* missing (any length up to the largest a caller requests), as if the    *)
(* length passed were not decremented after each read.                    *)
tcp_recv_data_full_length(n) ==
    /\ CanRead
    /\ avail > 0
    /\ n \in 1 .. MaxLen /\ n <= avail
    /\ end' = end + n
    /\ want' = want - n
    /\ avail' = avail - n
    /\ rpc' = "loop"
    /\ UNCHANGED <<size, calls, last, net_err, run_ui, exit_ml, peer>>

(* Lines 387-426, bytes arrive: n of them are appended at s->end.          *)
tcp_recv_data(n) ==
    /\ CanRead
    /\ avail > 0
    /\ n \in 1 .. want /\ n <= avail
    /\ end' = end + n
    /\ want' = want - n
    /\ avail' = avail - n
    /\ rpc' = "loop"
    /\ UNCHANGED <<size, calls, last, net_err, run_ui, exit_ml, peer>>

(* A plausible bug of the plain branch: the rcvd == 0 test left out, as   *)
(* in the TLS branch.                                                      *)
tcp_recv_eof_no_return ==
    /\ CanRead
    /\ avail = 0
    /\ peer = "closed"
    /\ rpc' = "loop"
    /\ UNCHANGED <<size, end, want, calls, last, net_err, run_ui, exit_ml, avail, peer>>

(* The peer has closed and everything it sent is read.  recv() returns 0: *)
(* "connection closed by peer", NULL, and g_network_error is left alone   *)
(* (lines 418-422).  gnutls_record_recv returns 0 too, which the TLS      *)
(* branch does not test: rcvd = 0 and the loop goes round (lines 388-398).*)
tcp_recv_eof ==
    /\ CanRead
    /\ avail = 0
    /\ peer = "closed"
    /\ IF SSL THEN rpc' = "loop" /\ UNCHANGED last ELSE Return("failed")
    /\ UNCHANGED <<size, end, want, calls, net_err, run_ui, exit_ml, avail, peer>>

(* A plausible bug of the fatal branches: NULL returned, flag not set.     *)
tcp_recv_error_no_flag ==
    /\ CanRead
    /\ avail = 0
    /\ peer = "reset"
    /\ Return("failed")
    /\ UNCHANGED <<size, end, want, calls, net_err, run_ui, exit_ml, avail, peer>>

(* The connection is reset: a fatal error of gnutls_record_recv or recv;  *)
(* g_network_error is set and NULL returned (lines 391-394, 410-416).      *)
tcp_recv_error ==
    /\ CanRead
    /\ avail = 0
    /\ peer = "reset"
    /\ net_err' = TRUE
    /\ Return("failed")
    /\ UNCHANGED <<size, end, want, calls, run_ui, exit_ml, avail, peer>>

(* A plausible bug of the TLS branch: a fatal error of a broken           *)
(* connection taken for a non-fatal one, so the loop goes round.           *)
tcp_recv_retry_after_reset ==
    /\ SSL
    /\ CanRead
    /\ avail > 0 \/ peer = "reset"
    /\ rpc' = "loop"
    /\ UNCHANGED <<size, end, want, calls, last, net_err, run_ui, exit_ml, avail, peer>>

(* A non-fatal TLS result (a record with no application data, an          *)
(* interrupted call) while the connection is up: rcvd = 0 and the loop    *)
(* goes round (lines 395-397).                                             *)
tcp_recv_retry ==
    /\ SSL
    /\ CanRead
    /\ peer = "open" /\ avail > 0
    /\ rpc' = "loop"
    /\ UNCHANGED <<size, end, want, calls, last, net_err, run_ui, exit_ml, avail, peer>>

(* tcp_run_ui, lines 1024-1028, called by the main thread between calls.   *)
tcp_run_ui(b) ==
    /\ rpc = "idle"
    /\ run_ui' = b
    /\ UNCHANGED <<rpc, size, end, want, calls, last, net_err, exit_ml, avail, peer>>

(* The environment: the UI asks the main loop to exit; the peer sends a   *)
(* byte, closes or resets the connection.                                  *)
ExitMainloop ==
    /\ ~exit_ml
    /\ exit_ml' = TRUE
    /\ UNCHANGED <<rpc, size, end, want, calls, last, net_err, run_ui, avail, peer>>

PeerSend ==
    /\ peer = "open"
    /\ avail < MaxAvail
    /\ avail' = avail + 1
    /\ UNCHANGED <<rpc, size, end, want, calls, last, net_err, run_ui, exit_ml, peer>>

PeerClose(how) ==
    /\ peer = "open"
    /\ peer' = how
    /\ UNCHANGED <<rpc, size, end, want, calls, last, net_err, run_ui, exit_ml, avail>>

(* The steps tcp_recv takes once called.                                   *)
RecvStep ==
    \/ tcp_recv_done
    \/ tcp_recv_select
    \/ \E n \in 1 .. MaxLen : tcp_recv_data(n)
    \/ tcp_recv_eof
    \/ tcp_recv_error
    \/ tcp_recv_retry

Next ==
    \/ \E l \in Lengths, append \in BOOLEAN : tcp_recv_enter(l, append)
    \/ RecvStep
    \/ \E b \in BOOLEAN : tcp_run_ui(b)
    \/ ExitMainloop
    \/ PeerSend
    \/ \E how \in {"closed", "reset"} : PeerClose(how)

Spec == Init /\ [][Next]_vars

(* The main thread runs: once in tcp_recv, it keeps taking steps of it    *)
(* while one is possible.  Nothing is assumed of the peer or the user.    *)
FairSpec == Spec /\ WF_vars(RecvStep)

-----------------------------------------------------------------------------
(* Properties.                                                             *)

(* Every read lands inside the stream (spec section 8 on growth): while   *)
(* tcp_recv runs, what it still has to read fits between s->end and the   *)
(* end of the allocation.                                                  *)
NoOverflow == rpc # "idle" => end + want <= size

(* Spec sections 4.2 and 7: a transport failure of tcp_recv, the peer's   *)
(* close included, sets g_network_error, so that later calls fail fast.   *)
RecvFailureSetsError == last = "failed" => net_err

(* Once the peer has closed or reset the connection, a call of tcp_recv   *)
(* in progress returns (with what it read, or NULL) instead of waiting or *)
(* spinning for ever.                                                      *)
RecvReturnsAfterClose == (rpc # "idle" /\ peer # "open") ~> rpc = "idle"

(* Spec section 5, cancellation: with the UI loop running, once the main  *)
(* loop is asked to exit a call of tcp_recv in progress returns, even if   *)
(* the peer never sends another byte.  (With g_run_ui clear there is no    *)
(* wait and no check: a blocking read is not cancelled.)                   *)
CancelEndsRecv == (rpc # "idle" /\ exit_ml /\ run_ui) ~> rpc = "idle"

(* Once the connection is reset, a call of tcp_recv in progress returns:  *)
(* the TLS loop retries only non-fatal results, and reads what the record *)
(* layer still holds before it meets the fatal error.                      *)
RecvReturnsAfterReset == (rpc # "idle" /\ peer = "reset") ~> rpc = "idle"

=============================================================================
