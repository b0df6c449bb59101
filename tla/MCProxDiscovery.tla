-------------------------- MODULE MCProxDiscovery --------------------------
(* ProxDiscovery for TLC: a VM and a container, so that a guest has a disk   *)
(* on either side of the border of --dataset.                                *)
EXTENDS ProxDiscovery

CONSTANTS v1, c1, va, vb, ca, cb

OwnerOf == [d \in {va, vb, ca, cb} |-> IF d \in {va, vb} THEN v1 ELSE c1]
=============================================================================
