-------------------------------- MODULE MCDex --------------------------------
(* Two views of the DEX virtual machine that share no state, explored side  *)
(* by side: the initial state says which one moves.                         *)
(*   heap    three objects with one field each; a minor collection at two   *)
(*           young objects, a major one at three live ones, which is also   *)
(*           the limit; every fourth minor collection is a major one        *)
(*   launch  the objects of one Activity and its window                     *)
EXTENDS DexHeap, ActivityLaunch, TLC

CONSTANTS o1, o2, o3
VARIABLE part

ThreeObjects == {o1, o2, o3}
OneSlot == {1}
OneString == {"text"}
TwoRegisters == {"v0", "v1"}
FrameResults == {"result"}
StaticFields == {"static"}
PlainKinds == {"plain"}

Addresses == Permutations(ThreeObjects)

Moves(p) == part = p /\ UNCHANGED part

DexInit == part \in {"heap", "launch"} /\ Init /\ LaunchInit

DexNext ==
    \/ Moves("heap") /\ Next /\ UNCHANGED launchVars
    \/ Moves("launch") /\ LaunchNext /\ UNCHANGED vars

DexSpec == DexInit /\ [][DexNext]_<<part, vars, launchVars>>
==============================================================================
