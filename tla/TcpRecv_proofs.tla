--------------------------- MODULE TcpRecv_proofs ---------------------------
(***************************************************************************)
(* Proofs about TcpRecv for every value of the constants: the type         *)
(* invariant and that every read tcp_recv makes lands inside g_in.  The    *)
(* liveness property RecvReturnsAfterClose stays with TLC.                  *)
(***************************************************************************)
EXTENDS TcpRecv, TLAPS

USE TcpRecvAssumption DEF TcpRecvAssumption

(* The type invariant and the bound on the stream, one inductive pair:    *)
(* the bound needs the counters to be naturals, and nothing else.         *)
RecvInv == TypeOK /\ NoOverflow

(* Right after tcp_connect the stream is empty and no call runs.          *)
LEMMA RecvInitInv == Init => RecvInv
<1> SUFFICES ASSUME Init PROVE RecvInv
  OBVIOUS
<1>1. rpc \in {"idle", "loop", "read"} /\ size \in Nat /\ end \in Nat /\ want \in Nat
  BY DEF Init
<1>2. calls \in 0 .. MaxCalls /\ avail \in 0 .. MaxAvail
  BY DEF Init
<1>3. /\ last \in {"none", "ok", "cancelled", "failed"}
      /\ net_err \in BOOLEAN /\ run_ui \in BOOLEAN /\ exit_ml \in BOOLEAN
      /\ peer \in {"open", "closed", "reset"}
  BY DEF Init
<1>4. NoOverflow
  BY DEF Init, NoOverflow
<1>5. QED
  BY <1>1, <1>2, <1>3, <1>4 DEF RecvInv, TypeOK

(* Every step keeps the types and keeps s->end + length within s->size:   *)
(* tcp_recv_enter grows the stream to hold what is asked, tcp_recv_data   *)
(* moves n bytes from length to s->end, and no other step touches them.   *)
LEMMA RecvNextInv == RecvInv /\ [Next]_vars => RecvInv'
<1> SUFFICES ASSUME RecvInv, [Next]_vars PROVE RecvInv'
  OBVIOUS
<1> USE DEF RecvInv, TypeOK, NoOverflow
<1>1. ASSUME NEW l \in Lengths, NEW append \in BOOLEAN, tcp_recv_enter(l, append)
      PROVE RecvInv'
  BY <1>1 DEF tcp_recv_enter, Return
<1>2. CASE tcp_recv_done
  BY <1>2 DEF tcp_recv_done, Return
<1>3. CASE tcp_recv_select
  BY <1>3 DEF tcp_recv_select, Return
<1>4. ASSUME NEW n \in 1 .. MaxLen, tcp_recv_data(n) PROVE RecvInv'
  BY <1>4 DEF tcp_recv_data, CanRead
<1>5. CASE tcp_recv_eof
  BY <1>5 DEF tcp_recv_eof, CanRead, Return
<1>6. CASE tcp_recv_error
  BY <1>6 DEF tcp_recv_error, Return
<1>7. CASE tcp_recv_retry
  BY <1>7 DEF tcp_recv_retry, CanRead
<1>8. ASSUME NEW b \in BOOLEAN, tcp_run_ui(b) PROVE RecvInv'
  BY <1>8 DEF tcp_run_ui
<1>9. CASE ExitMainloop
  BY <1>9 DEF ExitMainloop
<1>10. CASE PeerSend
  BY <1>10 DEF PeerSend
<1>11. ASSUME NEW how \in {"closed", "reset"}, PeerClose(how) PROVE RecvInv'
  BY <1>11 DEF PeerClose
<1>12. CASE UNCHANGED vars
  BY <1>12 DEF vars
<1>13. QED
  BY <1>1, <1>2, <1>3, <1>4, <1>5, <1>6, <1>7, <1>8, <1>9, <1>10, <1>11, <1>12
  DEF Next, RecvStep

(* The variables keep their types in every reachable state.               *)
THEOREM RecvTypeCorrect == Spec => []TypeOK
<1>1. RecvInv => TypeOK
  BY DEF RecvInv
<1>2. QED
  BY RecvInitInv, RecvNextInv, <1>1, PTL DEF Spec

(* The growth arithmetic of tcp_recv (lines 352-372) is right for every   *)
(* initial size, every requested length and every way the socket splits  *)
(* the data: while a call runs, s->end plus what is still to be read      *)
(* never exceeds s->size, so no read writes past the buffer.               *)
THEOREM RecvNoOverflow == Spec => []NoOverflow
<1>1. RecvInv => NoOverflow
  BY DEF RecvInv
<1>2. QED
  BY RecvInitInv, RecvNextInv, <1>1, PTL DEF Spec

=============================================================================
