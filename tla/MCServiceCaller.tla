---------------------------- MODULE MCServiceCaller ----------------------------
(* Finite instances of ServiceCaller: alice and bob call one service, so    *)
(* their calls share a client; alice may also call another one.             *)
EXTENDS ServiceCaller

CONSTANTS alice, bob, first, second, other, lamp, map

MCRequester == [c \in Calls |-> IF c = other THEN bob ELSE alice]
MCService == [c \in Calls |-> IF c = second THEN map ELSE lamp]
=============================================================================
