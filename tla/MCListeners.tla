------------------------------ MODULE MCListeners ------------------------------
(* Listeners with a few command lines. *)
EXTENDS Listeners

Given(name, value) == [name |-> name, given |-> TRUE, value |-> value]
Bare(name) == [name |-> name, given |-> FALSE, value |-> 0]

\* No listener option, two of one port, one of a port that is none, and the others.
MCCommandLines ==
  {<<>>,
   <<Given("-ipv6", 80), Given("-ipv4", 80)>>,
   <<Given("-ipv4s", 80), Bare("-background"), Given("-ipv4", 80), Given("-setuid", 7)>>,
   <<Given("-backlog", 1), Given("-ipv4", 80), Given("-ipv4s", 443)>>,
   <<Given("-ipv4", 80), Given("-ipv6", 65536)>>,
   <<Bare("-ipv4")>>, <<Given("-ipv4", 0)>>, <<Bare("-backlog")>>, <<Given("-chroot", 0)>>}

MCUnavailables == {{}, {[family |-> "IPv4", port |-> 2000]}}

MCDefaultPorts == [http |-> 2000, https |-> 2001]
================================================================================
