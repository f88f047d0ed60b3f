--------------------------- MODULE MCActivityLaunch ---------------------------
(* One launch alone, whose constructors may allocate as much as they like.  *)
EXTENDS ActivityLaunch
===============================================================================
