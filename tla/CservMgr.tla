------------------------------ MODULE CservMgr ------------------------------
(***************************************************************************)
(* The pieces a node serves, and at what price per byte in each currency    *)
(* (cservmgr).  The hook Serve calls, to publish the piece, changes nothing    *)
(* here.                                                                    *)
(***************************************************************************)
EXTENDS KeyStore

CONSTANTS Piece, Currency,
          Price

Serving(id, c) == <<id, c>>

Inner == {<<id>> : id \in Piece}

Init == /\ store = New /\ emptied = {} /\ cache = {}

Serve(id, c, ppb) ==
    /\ ~Has(Serving(id, c))
    /\ SetKey(ppb, Serving(id, c))

Stop(id, c) == RemoveAndNote(Serving(id, c))

PrunePiece(id) == PruneKey(<<id>>)

Start == StartClean({q \in DOMAIN store : Len(q) = 1})

Inspect(id, c) == FirstOf(<<Serving(id, c)>>)

ListPieceIDs == Under({Root})
ListCurrencyIDs == Under(ListPieceIDs)

Next ==
    /\ \/ \E id \in Piece :
             \/ \E c \in Currency : (\E ppb \in Price : Serve(id, c, ppb)) \/ Stop(id, c)
             \/ PrunePiece(id)
       \/ Start
    /\ UNCHANGED cache

-----------------------------------------------------------------------------
Entries == [k \in ListCurrencyIDs |-> Get(k)]

ListedApplies ==
    \A id \in Piece, c \in Currency :
        Inspect(id, c) = Resolved(Entries, <<Serving(id, c)>>)
=============================================================================
