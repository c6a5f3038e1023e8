---------------------------- MODULE MCNetworkThread ----------------------------
(* Instances of NetworkThread for TLC. *)
EXTENDS NetworkThread

CONSTANT c1

Load(clients, pieces, tls, shutdown, bandwidth) ==
  [clients |-> clients, pieces |-> pieces, tls |-> tls, shutdown |-> shutdown, MaxBandwidth |-> bandwidth]

\* Two clients that send, or three that come and go without a request, with a shutdown.
SafetyLoads == {Load(2, 1, {}, FALSE, 3), Load(3, 0, {}, TRUE, 0)}

\* Two clients while the program goes on: one of HTTPS and one of HTTP without a limit, and
\* two of HTTP with a limit that they exceed.
LivenessLoads == {Load(2, 1, {c1}, FALSE, 0), Load(2, 1, {}, FALSE, 1)}

ConnectionSymmetry == Permutations(Connection) \cup Permutations(Fd)
================================================================================
