------------------------------- MODULE MCGuest -------------------------------
(* Two parts of the guest runtime that share no state, explored side by     *)
(* side: the initial state says which one moves.                            *)
(*   dispatch  the owner and one pthread, two activations deep              *)
(*   input     the application thread, its ring of two, its pipe of three   *)
EXTENDS GuestDispatch, GuestInput

VARIABLE part

GuestInit == part \in {"dispatch", "input"} /\ DispatchInit /\ InputInit

Moves(p) == part = p /\ UNCHANGED part

InDispatch(A) == Moves("dispatch") /\ A /\ UNCHANGED inputVars
InInput(A) == Moves("input") /\ A /\ UNCHANGED dispatchVars

GuestNext ==
    \/ Moves("dispatch") /\ DispatchNext /\ UNCHANGED inputVars
    \/ Moves("input") /\ InputNext /\ UNCHANGED dispatchVars

all == <<part, dispatchVars, inputVars>>

(* DispatchFairness and InputFairness, of the part that moves. *)
GuestFairness ==
    /\ \A t \in Threads : WF_all(InDispatch(Step(t)))
    /\ WF_all(InDispatch(CancelWaits))
    /\ WF_all(InInput(AppStep)) /\ WF_all(InInput(AppendByte))

GuestSpec ==
    /\ GuestInit
    /\ [][GuestNext]_all
    /\ GuestFairness
=============================================================================
