-------------------------- MODULE MCContainerStack --------------------------
(* The container stack on a small instance.  No action and no property     *)
(* tells the data sources apart.                                           *)
EXTENDS ContainerStack, TLC

SourceSymmetry == Permutations(Sources)

=============================================================================
