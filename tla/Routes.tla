------------------------------- MODULE Routes -------------------------------
(***************************************************************************)
(* The routes every node knows (routestore) and how they spread from node   *)
(* to node (routeproto), for one currency.                                  *)
(*                                                                         *)
(* A node has a direct link to each node it has a payment channel to.  It   *)
(* publishes to its subscribers, the nodes with a channel to it, the links  *)
(* it serves and the routes it has stored behind them.  A subscriber stores *)
(* what it receives, with the publisher in front, until it expires.         *)
(*                                                                         *)
(* Which links are served and who has subscribed is kept by other stores    *)
(* (PservMgr, SubStore): here a node may publish any of its links to any     *)
(* node with a channel to it.  Every operation on the store checks under a  *)
(* read lock and again under a write lock: it is one step, the second.      *)
(***************************************************************************)
EXTENDS Integers, Sequences, FiniteSets, SequencesExt

CONSTANTS Node,
          Edge,       \* the payment channels there may be, from payer to recipient
          MaxHop,     \* the most nodes in a route
          Expiry,     \* how long a route is kept, in ticks
          Limit,      \* a publication of more routes is cut short
          Watched,    \* one of the channels
          LongGone,   \* bound: ticks counted since Watched has been removed
          AtOnce      \* bound: publications at a time

ASSUME RoutesAssumption ==
    /\ Edge \subseteq Node \X Node /\ Watched \in Edge
    /\ {MaxHop, Expiry, Limit, LongGone, AtOnce} \subseteq Nat \ {0}

VARIABLES link,     \* the direct links of each node
          routes,   \* the routes of each node, with the ticks they have left
          outbox,   \* the publications under way
          held,     \* direct links of a node that stay locked for reading
          gone      \* ticks since Watched was a direct link (history)

routesVars == <<link, routes, outbox, held, gone>>

Neighbours(n) == {x \in Node : <<n, x>> \in Edge}

Nothing == [todo |-> {}, listed |-> {}, step |-> "none"]

RoutesInit ==
    /\ link = [n \in Node |-> Neighbours(n)]
    /\ routes = [n \in Node |-> <<>>]
    /\ outbox = [e \in Edge |-> Nothing]
    /\ held = [n \in Node |-> {}]
    /\ gone = 0

-----------------------------------------------------------------------------
(* The route store of a node n.  Its routes are kept by their first node,   *)
(* which is a direct link of n.                                             *)
Via(n, x) == {r \in DOMAIN routes[n] : Head(r) = x}

Without(table, rs) == [r \in DOMAIN table \ rs |-> table[r]]
With(table, rs) == [r \in DOMAIN table \cup rs |-> IF r \in rs THEN Expiry ELSE table[r]]

(* cleanup: the routes behind a direct link that have run out.              *)
RunOut(n, x) == {r \in Via(n, x) : routes[n][r] = 0}

(* Mutant: the route is checked before it is trimmed, without this node.    *)
TrimUnrooted(n, r) == IF Len(r) # 1 /\ IsInjective(r)
                      THEN {SubSeq(r, 1, IF Len(r) > MaxHop THEN MaxHop ELSE Len(r))} ELSE {}

(* trimRoute: the route cut to MaxHop nodes, unless it is a single node or   *)
(* then visits a node twice or this node.                                   *)
TrimRoute(n, r) ==
    LET trimmed == SubSeq(r, 1, IF Len(r) > MaxHop THEN MaxHop ELSE Len(r)) IN
    IF Len(r) # 1 /\ IsInjective(<<n>> \o trimmed) THEN {trimmed} ELSE {}

MayWriteVia(n, x) == x \notin held[n]

(* A write lock of the currency waits for every reader.                     *)
MayWriteAll(n) == held[n] = {}

AddDirectLink(n, x) ==
    /\ x \in Neighbours(n) \ link[n]
    /\ MayWriteVia(n, x)
    /\ link' = [link EXCEPT ![n] = @ \cup {x}]
    /\ gone' = IF <<n, x>> = Watched THEN 0 ELSE gone
    /\ UNCHANGED <<routes, outbox, held>>

RemoveDirectLink(n, x) ==
    /\ x \in link[n]
    /\ MayWriteAll(n)
    /\ link' = [link EXCEPT ![n] = @ \ {x}]
    /\ routes' = [routes EXCEPT ![n] = Without(@, Via(n, x))]
    /\ UNCHANGED <<outbox, held, gone>>

(* AddRoute of each of rs, which all start with x: the route is stored with  *)
(* every part of it that ends earlier.                                      *)
Stored(n, rs) ==
    {p \in UNION {Prefixes(t) : t \in UNION {TrimRoute(n, r) : r \in rs}} : Len(p) > 1}

AddRoute(n, x, rs) ==
    routes' = IF x \in link[n] /\ MayWriteVia(n, x) /\ Stored(n, rs) # {}
              THEN [routes EXCEPT ![n] = With(Without(@, RunOut(n, x)), Stored(n, rs))]
              ELSE routes

RemoveRoute(n, r) ==
    /\ r \in DOMAIN routes[n]
    /\ MayWriteVia(n, Head(r))
    /\ routes' = [routes EXCEPT ![n] = Without(@, {r} \cup RunOut(n, Head(r)))]
    /\ UNCHANGED <<link, outbox, held, gone>>

(* cleanRoutine, for one direct link.                                       *)
Clean(n, x) ==
    /\ RunOut(n, x) # {}
    /\ MayWriteVia(n, x)
    /\ routes' = [routes EXCEPT ![n] = Without(@, RunOut(n, x))]
    /\ UNCHANGED <<link, outbox, held, gone>>

(* Mutant: what has run out is listed until the routine removes it.         *)
RoutesFromUncleaned(n, x) == IF x \in link[n] THEN {<<x>>} \cup Via(n, x) ELSE {}

(* ListRoutesFrom: the direct link and what is still valid behind it.       *)
RoutesFrom(n, x) ==
    IF x \in link[n] THEN {<<x>>} \cup (Via(n, x) \ RunOut(n, x)) ELSE {}

(* ListRoutesTo.                                                            *)
RoutesTo(n, x) == {r \in DOMAIN routes[n] : Last(r) = x /\ routes[n][r] > 0}

-----------------------------------------------------------------------------
(* The route protocol: e = <<m, n>> is a channel from the subscriber m to   *)
(* the publisher n.                                                         *)
(* publishRoutine goes through the subscribers, and starts over only when it *)
(* is through with all of them.                                             *)
Due(e) == /\ outbox[e] = Nothing
          /\ Cardinality({f \in Edge : outbox[f] # Nothing}) < AtOnce

Publish(e) ==
    /\ Due(e)
    /\ \E xs \in SUBSET link[e[2]] :
          /\ xs # {}
          /\ outbox' = [outbox EXCEPT ![e] = [@ EXCEPT !.todo = xs, !.step = "listing"]]
    /\ UNCHANGED <<link, routes, held, gone>>

(* The routes behind one of the links are listed.  Above the limit the      *)
(* context is cancelled, and the next listing may find that out before it   *)
(* has listed anything: it then returns with its read lock.                 *)
List(e) ==
    LET n == e[2]  cut == Cardinality(outbox[e].listed) > Limit IN
    /\ outbox[e].step = "listing"
    /\ \E x \in outbox[e].todo :
          \/ /\ ~cut
             /\ outbox' = [outbox EXCEPT ![e].todo = @ \ {x},
                                         ![e].listed = @ \cup RoutesFrom(n, x)]
             /\ held' = held
          \/ /\ cut /\ x \in link[n]
             /\ outbox' = [outbox EXCEPT ![e].todo = @ \ {x}]
             /\ held' = [held EXCEPT ![n] = @ \cup {x}]
          \/ /\ cut
             /\ \E some \in SUBSET RoutesFrom(n, x) :
                   /\ outbox' = [outbox EXCEPT ![e].todo = @ \ {x},
                                               ![e].listed = @ \cup some]
             /\ held' = held
    /\ UNCHANGED <<link, routes, gone>>

(* handlePublish: each route is added by a goroutine of its own, and any of *)
(* them may run out of time; or the whole publication is lost.              *)
HandlePublish(e) ==
    LET m == e[1]  n == e[2] IN
    /\ outbox[e].step = "listing" /\ outbox[e].todo = {}
    /\ \E some \in SUBSET outbox[e].listed : AddRoute(m, n, {<<n>> \o r : r \in some})
    /\ outbox' = [outbox EXCEPT ![e] = Nothing]
    /\ UNCHANGED <<link, held, gone>>

(* A publication is over within its timeouts, which are short of a tick.    *)
Tick ==
    /\ \A e \in Edge : outbox[e] = Nothing
    /\ routes' = [n \in Node |-> [r \in DOMAIN routes[n] |->
                     IF routes[n][r] > 0 THEN routes[n][r] - 1 ELSE 0]]
    /\ gone' = IF Watched[2] \in link[Watched[1]] THEN 0
               ELSE IF gone < LongGone THEN gone + 1 ELSE gone
    /\ UNCHANGED <<link, outbox, held>>

RoutesNext ==
    \/ \E n \in Node, x \in Node :
          AddDirectLink(n, x) \/ RemoveDirectLink(n, x) \/ Clean(n, x)
    \/ \E n \in Node : \E r \in DOMAIN routes[n] : RemoveRoute(n, r)
    \/ \E e \in Edge : Publish(e) \/ List(e) \/ HandlePublish(e)
    \/ Tick

RoutesSpec == RoutesInit /\ [][RoutesNext]_routesVars

-----------------------------------------------------------------------------
(* Whatever is published, trimmed, removed and linked again: a route that   *)
(* can be found starts with a direct link, visits no node twice and not the *)
(* node itself, and has at most MaxHop nodes, each linked by a channel.     *)
RoutesUsable ==
    \A n, x \in Node : \A r \in RoutesTo(n, x) :
        /\ Head(r) \in link[n]
        /\ IsInjective(<<n>> \o r)
        /\ Len(r) \in 2 .. MaxHop
        /\ \A i \in 1 .. Len(r) - 1 : <<r[i], r[i + 1]>> \in Edge

(* A route over a channel that has been removed runs out, however often it  *)
(* is published again by nodes that have not noticed: it is never older     *)
(* than one expiry for each node it has come through.                       *)
RoutesRunOut ==
    \A n \in Node : \A r \in DOMAIN routes[n] : \A i \in 1 .. Len(r) - 1 :
        <<r[i], r[i + 1]>> = Watched /\ routes[n][r] > 0
        => gone + routes[n][r] <= i * Expiry
=============================================================================
