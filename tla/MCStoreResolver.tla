-------------------------- MODULE MCStoreResolver --------------------------
(* Instances of StoreResolver: all four sources, two of them downloads.        *)
EXTENDS StoreResolver

CONSTANTS c1, c2, c3

Every == <<"path", "package", "baked", "artifact">>
ThreeCallers == {c1, c2, c3}
=============================================================================
