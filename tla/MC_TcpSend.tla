----------------------------- MODULE MC_TcpSend -----------------------------
(* Instances of TcpSend for TLC.                                            *)
EXTENDS TcpSend, TLC
=============================================================================
