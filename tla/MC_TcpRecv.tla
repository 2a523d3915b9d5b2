----------------------------- MODULE MC_TcpRecv -----------------------------
(* Model-checking instance of TcpRecv; the constants are given in the cfgs. *)
EXTENDS TcpRecv, TLC
=============================================================================
