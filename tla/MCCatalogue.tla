---------------------------- MODULE MCCatalogue ----------------------------
(* Instances of Catalogue for TLC. *)
EXTENDS Catalogue, TLC

\* A bound: executions are followed up to the first write that is not checked, or
\* on an outdated check.
UntilOverlap == ~overlapped
=============================================================================
