-------------------------------- MODULE MCServer -------------------------------
(* Server with two network threads and a few clients. *)
EXTENDS Server, TLC

\* The threads are interchangeable, and so are the clients.
ServerSymmetry == Permutations(Thread) \cup Permutations(Connection)
================================================================================
