----------------------------- MODULE MCMemSnaps -----------------------------
(* MemSnaps for TLC: the names of the VM snapshots as numbers.             *)
EXTENDS MemSnaps

OwnNames == [r \in Run |-> r]

\* Two ZFS snapshots whose names differ in a character that pveSnapName
\* replaces, or before the 35 characters it keeps.
ClashingNames == [r \in Run |-> IF r = 2 THEN 1 ELSE r]
=============================================================================
