--------------------------- MODULE MCAddressSpace ----------------------------
(* The address spaces of two processes, for TLC.                           *)
EXTENDS AddressSpace, TLC

Symmetry == Permutations(Processes)

=============================================================================
