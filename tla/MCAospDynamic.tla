---------------------------- MODULE MCAospDynamic ----------------------------
(* A small instance of AospDynamic: a game library with a dependency, both  *)
(* over libc, and two libraries that need each other.                       *)
EXTENDS AospDynamic

GameLibraries == {"game", "engine", "first", "second"}
HostLibraries == {"libc"}
GameNeeds == [game   |-> <<"libc", "engine">>,
              engine |-> <<"libc">>,
              first  |-> <<"engine", "second">>,
              second |-> <<"first">>]
=============================================================================
