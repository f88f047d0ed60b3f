----------------------------- MODULE MCGuestInput -----------------------------
(* The input ring and the pipe alone: the application and the main thread.  *)
EXTENDS GuestInput
===============================================================================
