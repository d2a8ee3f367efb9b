----------------------------- MODULE MCPayRoute -----------------------------
EXTENDS PayRoute, TLC

CONSTANTS Own   \* the proxy's own stream

(* Two streams from a source over channel 1 to a proxy and on over channel  *)
(* 2; the proxy has a stream of its own over channel 2.                     *)
SharedRoute == [s \in Stream |-> IF s = Own THEN <<2>> ELSE <<1, 2>>]
SharedSymmetry == Permutations(Request) \cup Permutations(Stream \ {Own})

(* Three nodes in a circle, each paying the next but one.                   *)
CircleRoute == [s \in Stream |-> <<s, (s % 3) + 1>>]

(* A proxy adds a surcharge for every two units.                            *)
ProxyTerms == [s \in Stream |-> IF Len(Route[s]) = 1 THEN <<Free>>
                                ELSE <<[ppp |-> 1, period |-> 2], Free>>]

AnyStream == [q \in Request |-> Stream]
OwnStream == [q \in Request |-> {q}]
=============================================================================
