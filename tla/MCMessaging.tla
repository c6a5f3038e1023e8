------------------------------ MODULE MCMessaging ------------------------------
(* Messaging with a few messengers, one channel and a few messages. *)
EXTENDS Messaging, TLC

\* The messengers that may come and go are interchangeable.
Symmetry == Permutations(Address)
================================================================================
