------------------------------ MODULE PeerMgr -------------------------------
(***************************************************************************)
(* The peers a node knows (peermgr): whether a peer is blocked, where it    *)
(* is, and the records of what has happened with it.                        *)
(*                                                                         *)
(* A record is a key below that of its peer.  Put makes the key of the peer *)
(* forget its children, so that the records are found by a query over all   *)
(* the keys and not by the list.  Removing a peer skips the records whose   *)
(* Delete fails: they stay, out of sight until the peer is added again.     *)
(***************************************************************************)
EXTENDS KeyStore, FiniteSets

CONSTANTS Currency, Peer, Addr,
          MaxRecords        \* bound: the last record id of a peer

VARIABLE left               \* history: the records that were skipped, and are still there

PeerKey(c, to) == <<c, to>>
RecordKey(c, to, recID) == <<c, to, recID>>

(* Mutant: the records are found by the list of the children.               *)
RecordsByList(c, to) == Under({PeerKey(c, to)})

(* Query: the records below a peer, which may not exist.                    *)
Records(c, to) == {q \in DOMAIN store : Len(q) = 3 /\ SubSeq(q, 1, 2) = PeerKey(c, to)}

Init == /\ store = New /\ emptied = {} /\ cache = {} /\ left = {}

PeerAddr(c, to) == Get(PeerKey(c, to)).addr
IsBlocked(c, to) == Get(PeerKey(c, to)).blocked
HasPeer(c, to) == Has(PeerKey(c, to))

AddPeer(c, to, pi) ==
    /\ HasPeer(c, to) => PeerAddr(c, to) # pi
    /\ SetKey(IF HasPeer(c, to) THEN [Get(PeerKey(c, to)) EXCEPT !.addr = pi]
              ELSE [blocked |-> FALSE, addr |-> pi, recID |-> 0],
              PeerKey(c, to))

(* The key of the peer goes with the records that could be deleted, in one  *)
(* transaction.                                                             *)
RemovePeer(c, to) ==
    \E skipped \in SUBSET Records(c, to) :
        /\ HasPeer(c, to)
        /\ store' = Delete(store, (Records(c, to) \ skipped) \cup {PeerKey(c, to)})
        /\ left' = (left \ Records(c, to)) \cup skipped
        /\ UNCHANGED emptied

BlockPeer(c, to) ==
    /\ HasPeer(c, to) /\ ~IsBlocked(c, to)
    /\ SetKey([Get(PeerKey(c, to)) EXCEPT !.blocked = TRUE], PeerKey(c, to))

UnblockPeer(c, to) ==
    /\ HasPeer(c, to) /\ IsBlocked(c, to)
    /\ SetKey([Get(PeerKey(c, to)) EXCEPT !.blocked = FALSE], PeerKey(c, to))

(* The peer and the record are put in one transaction.                      *)
AddToHistory(c, to, rec) ==
    LET recID == Get(PeerKey(c, to)).recID + 1 IN
    /\ HasPeer(c, to) /\ recID <= MaxRecords
    /\ store' = Put(Put(store, [Get(PeerKey(c, to)) EXCEPT !.recID = recID], PeerKey(c, to)),
                    rec, RecordKey(c, to, recID))
    /\ left' = left \ {RecordKey(c, to, recID)}
    /\ UNCHANGED emptied

(* Delete fails where there is no parent: without the peer, a record that   *)
(* was skipped cannot be removed.                                           *)
RemoveRecord(c, to, recID) ==
    /\ HasPeer(c, to)
    /\ RemoveKey(RecordKey(c, to, recID))
    /\ left' = left \ {RecordKey(c, to, recID)}

SetRecID(c, to, recID) ==
    /\ HasPeer(c, to)
    /\ SetKey([Get(PeerKey(c, to)) EXCEPT !.recID = recID], PeerKey(c, to))

ListCurrencyIDs == Under({Root})
ListPeers == Under(ListCurrencyIDs)
ListHistory == UNION {Records(k[1], k[2]) : k \in {k \in ListPeers : Has(k)}}

Next ==
    /\ \E c \in Currency, to \in Peer :
          \/ /\ \/ \E pi \in Addr : AddPeer(c, to, pi)
                \/ BlockPeer(c, to) \/ UnblockPeer(c, to)
                \/ \E recID \in 0 .. MaxRecords : SetRecID(c, to, recID)
             /\ UNCHANGED left
          \/ RemovePeer(c, to)
          \/ AddToHistory(c, to, "record")
          \/ \E recID \in 0 .. MaxRecords : RemoveRecord(c, to, recID)
    /\ UNCHANGED cache

-----------------------------------------------------------------------------
(* What is listed, but for the records that a removal has skipped.          *)
Entries ==
    [k \in (ListPeers \cup ListHistory) \ left |->
       IF Len(k) = 2 THEN [blocked |-> IsBlocked(k[1], k[2]), addr |-> PeerAddr(k[1], k[2])]
       ELSE Get(k)]
=============================================================================
