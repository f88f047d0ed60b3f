-------------------------- MODULE MCThreadLifecycle --------------------------
(* Small instances of ThreadLifecycle: the entry thread and a few workers.  *)
EXTENDS ThreadLifecycle

CONSTANTS b1, b2, b3
TwoBlocks   == {b1, b2}
ThreeBlocks == {b1, b2, b3}
=============================================================================
