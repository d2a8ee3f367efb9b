------------------------------ MODULE SubStore ------------------------------
(***************************************************************************)
(* The subscribers a node publishes its routes to (substore).               *)
(***************************************************************************)
EXTENDS KeyStore

CONSTANTS Currency, Peer

Subscriber(c, from) == <<c, from>>

Init == /\ store = New /\ emptied = {} /\ cache = {}

(* To add one that is there already changes nothing.                        *)
AddSubscriber(c, from) ==
    /\ ~Has(Subscriber(c, from))
    /\ SetKey("subscribed", Subscriber(c, from))

RemoveSubscriber(c, from) == RemoveKey(Subscriber(c, from))

ListCurrencyIDs == Under({Root})
ListSubscribers == Under(ListCurrencyIDs)

Next ==
    /\ \E c \in Currency, from \in Peer : AddSubscriber(c, from) \/ RemoveSubscriber(c, from)
    /\ UNCHANGED cache

Entries == [k \in ListSubscribers |-> Get(k)]
=============================================================================
