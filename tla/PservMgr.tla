------------------------------ MODULE PservMgr ------------------------------
(***************************************************************************)
(* The payment channels a node serves to others, and on which terms         *)
(* (pservmgr).  The store has a copy in memory, a map of currencies of maps *)
(* of recipients of maps of channels: here the paths that are in it, with   *)
(* NoValue for a map.  Everything that is asked is answered from memory.    *)
(***************************************************************************)
EXTENDS KeyStore

CONSTANTS Currency, Peer, Paych,
          Terms     \* price per period and period, both 0 or both positive

Recipient(c, to) == <<c, to>>
Serving(c, to, ch) == <<c, to, ch>>

Inner == {Recipient(c, to) : c \in Currency, to \in Peer}

Loaded(s) == [k \in DOMAIN s \ {Root} |-> s[k].value]

Init == /\ store = New /\ emptied = {} /\ cache = Loaded(New)

Cached(k) == k \in DOMAIN cache
CachedIn(k) == {x \in DOMAIN cache : Len(x) = Len(k) + 1 /\ SubSeq(x, 1, Len(k)) = k}

Serve(c, to, ch, terms) ==
    LET k == Serving(c, to, ch) IN
    /\ ~Cached(k)
    /\ SetKey(terms, k)
    /\ cache' = [x \in DOMAIN cache \cup {<<c>>, Recipient(c, to), k} |->
                   IF x = k THEN terms ELSE IF Cached(x) THEN cache[x] ELSE NoValue]

Stop(c, to, ch) ==
    LET k == Serving(c, to, ch) IN
    /\ Cached(k)
    /\ store' = Delete(store, {k})
    /\ cache' = [x \in DOMAIN cache \ {k} |-> cache[x]]
    /\ emptied' = IF CachedIn(Recipient(c, to)) = {k}
                  THEN emptied \cup {Recipient(c, to)} ELSE emptied

(* Mutant: the map in memory is dropped, whatever it has got meanwhile.     *)
PruneCacheAnyway(c, to) ==
    LET k == Recipient(c, to) IN
    /\ PruneKey(k)
    /\ cache' = [x \in DOMAIN cache \ ({k} \cup CachedIn(k)) |-> cache[x]]

(* The map in memory is dropped even when the key cannot be deleted.        *)
PruneRecipient(c, to) ==
    LET k == Recipient(c, to) IN
    /\ k \in emptied
    /\ emptied' = emptied \ {k}
    /\ IF CachedIn(k) = {}
       THEN /\ cache' = [x \in DOMAIN cache \ {k} |-> cache[x]]
            /\ store' \in {Delete(store, {k}), store}
       ELSE UNCHANGED <<store, cache>>

Start == StartClean(Inner) /\ cache' = Loaded(store')

Inspect(c, to, ch) ==
    LET k == Serving(c, to, ch) IN IF Cached(k) THEN cache[k] ELSE NoValue

ListCurrencyIDs == CachedIn(Root)
ListRecipients == UNION {CachedIn(k) : k \in ListCurrencyIDs}
ListServings == UNION {CachedIn(k) : k \in ListRecipients}

Next ==
    \/ \E c \in Currency, to \in Peer :
          \/ \E ch \in Paych :
                (\E terms \in Terms : Serve(c, to, ch, terms)) \/ Stop(c, to, ch)
          \/ PruneRecipient(c, to)
    \/ Start

-----------------------------------------------------------------------------
Entries == [k \in ListServings |-> Inspect(k[1], k[2], k[3])]

(* What is in memory is what the next start will find in the store.         *)
CacheIsStore ==
    LET stored == Under(Under(Under({Root}))) IN Entries = [k \in stored |-> Get(k)]
=============================================================================
