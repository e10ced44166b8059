-------------------------- MODULE MCFactoryMetadata --------------------------
(* Model-checking instance of FactoryMetadata. *)
EXTENDS FactoryMetadata, TLC
=============================================================================
