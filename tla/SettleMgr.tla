------------------------------ MODULE SettleMgr ------------------------------
(***************************************************************************)
(* The settlement policies (settlemgr): how long a new channel may last.    *)
(* There is a default for a currency and one for a sender.                  *)
(***************************************************************************)
EXTENDS KeyStore

CONSTANTS Currency, Peer,
          Duration

DefaultPolicyID == "default"

ForCurrency(c) == <<c, DefaultPolicyID>>
ForSender(c, from) == <<c, from>>

Init == /\ store = New /\ emptied = {} /\ cache = {}

SetDefaultPolicy(c, d) == SetKey(d, ForCurrency(c))
RemoveDefaultPolicy(c) == RemoveKey(ForCurrency(c))
GetDefaultPolicy(c) == FirstOf(<<ForCurrency(c)>>)

SetSenderPolicy(c, from, d) == SetKey(d, ForSender(c, from))
RemoveSenderPolicy(c, from) == RemoveKey(ForSender(c, from))
GetSenderPolicy(c, from) == FirstOf(<<ForSender(c, from), ForCurrency(c)>>)

ListCurrencyIDs == Under({Root})
ListSenders == Under(ListCurrencyIDs)

Next ==
    /\ \E c \in Currency :
          \/ \E d \in Duration : SetDefaultPolicy(c, d)
          \/ RemoveDefaultPolicy(c)
          \/ \E from \in Peer :
                \/ \E d \in Duration : SetSenderPolicy(c, from, d)
                \/ RemoveSenderPolicy(c, from)
    /\ UNCHANGED cache

-----------------------------------------------------------------------------
Entries == [k \in ListSenders |-> Get(k)]

ListedApplies ==
    \A c \in Currency :
        /\ GetDefaultPolicy(c) = Resolved(Entries, <<ForCurrency(c)>>)
        /\ \A from \in Peer : GetSenderPolicy(c, from) =
              Resolved(Entries, <<ForSender(c, from), ForCurrency(c)>>)
=============================================================================
