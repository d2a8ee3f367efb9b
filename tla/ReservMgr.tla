------------------------------ MODULE ReservMgr ------------------------------
(***************************************************************************)
(* The reservation policies (reservmgr): how much a peer may reserve in a   *)
(* payment channel at most.  There is a default for a currency, one for a   *)
(* channel and one for a peer in a channel; the most specific applies.      *)
(***************************************************************************)
EXTENDS KeyStore

CONSTANTS Currency, Paych, Peer,
          Max               \* "unlimited", or the most that may be reserved

DefaultPolicyID == "default"

ForCurrency(c) == <<c, DefaultPolicyID>>
ForPaych(c, ch) == <<c, ch, DefaultPolicyID>>
ForPeer(c, ch, p) == <<c, ch, p>>

Inner == {<<c, ch>> : c \in Currency, ch \in Paych}

Init == /\ store = New /\ emptied = {} /\ cache = {}

SetDefaultPolicy(c, max) == SetKey(max, ForCurrency(c))
RemoveDefaultPolicy(c) == RemoveKey(ForCurrency(c))
GetDefaultPolicy(c) == FirstOf(<<ForCurrency(c)>>)

SetPaychPolicy(c, ch, max) == SetKey(max, ForPaych(c, ch))
RemovePaychPolicy(c, ch) == RemoveAndNote(ForPaych(c, ch))
GetPaychPolicy(c, ch) == FirstOf(<<ForPaych(c, ch), ForCurrency(c)>>)

SetPeerPolicy(c, ch, p, max) == SetKey(max, ForPeer(c, ch, p))
RemovePeerPolicy(c, ch, p) == RemoveAndNote(ForPeer(c, ch, p))

GetPeerPolicy(c, ch, p) ==
    FirstOf(<<ForPeer(c, ch, p), ForPaych(c, ch), ForCurrency(c)>>)

PrunePaych(c, ch) == PruneKey(<<c, ch>>)

Start == StartClean(Inner)

(* The lists, of everything that is listed itself one level up.             *)
ListCurrencyIDs == Under({Root})
ListPaychs == Under(ListCurrencyIDs)
ListPeers == Under({q \in ListPaychs : q[2] # DefaultPolicyID})

Next ==
    /\ \E c \in Currency :
          \/ \E max \in Max : SetDefaultPolicy(c, max)
          \/ RemoveDefaultPolicy(c)
          \/ \E ch \in Paych :
                \/ \E max \in Max : SetPaychPolicy(c, ch, max)
                \/ RemovePaychPolicy(c, ch)
                \/ PrunePaych(c, ch)
                \/ \E p \in Peer :
                      \/ \E max \in Max : SetPeerPolicy(c, ch, p, max)
                      \/ RemovePeerPolicy(c, ch, p)
       \/ Start
    /\ UNCHANGED cache

-----------------------------------------------------------------------------
(* The policies there are, as they are listed.                              *)
Entries ==
    [k \in {q \in ListPaychs : q[2] = DefaultPolicyID} \cup ListPeers |-> Get(k)]

(* What applies to a peer or to a channel is the most specific policy that  *)
(* is listed.                                                               *)
ListedApplies ==
    \A c \in Currency, ch \in Paych :
        /\ GetDefaultPolicy(c) = Resolved(Entries, <<ForCurrency(c)>>)
        /\ GetPaychPolicy(c, ch) = Resolved(Entries, <<ForPaych(c, ch), ForCurrency(c)>>)
        /\ \A p \in Peer : GetPeerPolicy(c, ch, p) =
              Resolved(Entries, <<ForPeer(c, ch, p), ForPaych(c, ch), ForCurrency(c)>>)
=============================================================================
