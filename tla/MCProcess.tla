------------------------------ MODULE MCProcess ------------------------------
(* Three parts of the guest process that share no state, explored side by   *)
(* side: the initial state says which one moves.                            *)
(*   tls     two threads, two stacks, two keys                              *)
(*   memory  four pages, three protections, an array first full at two      *)
(*   linker  a game library with a dependency, both over libc, and two      *)
(*           libraries that need each other                                 *)
EXTENDS BionicTls, GuestMemory, AospDynamic

CONSTANTS t1, t2, b1, b2
VARIABLE part

TwoThreads == {t1, t2}
TwoBases   == {b1, b2}
FirstKey   == {1}

Protections == {"none", "rw", "rwx"}

GameLibraries == {"game", "engine", "first", "second"}
HostLibraries == {"libc"}
GameNeeds == [game   |-> <<"libc", "engine">>,
              engine |-> <<"libc">>,
              first  |-> <<"engine", "second">>,
              second |-> <<"first">>]

(* The calls are bounded, and a search that meets a deleted entry ends.     *)
LinkerEnds == UNCHANGED linkerVars

Moves(p) == part = p /\ UNCHANGED part

ProcessInit == part \in {"tls", "memory", "linker"} /\ TlsInit /\ Init /\ LinkerInit

ProcessNext ==
    \/ Moves("tls") /\ TlsNext /\ UNCHANGED <<vars, linkerVars>>
    \/ Moves("memory") /\ Next /\ UNCHANGED <<tlsVars, linkerVars>>
    \/ Moves("linker") /\ (LinkerNext \/ LinkerEnds) /\ UNCHANGED <<tlsVars, vars>>

ProcessSpec == ProcessInit /\ [][ProcessNext]_<<part, tlsVars, vars, linkerVars>>
=============================================================================
