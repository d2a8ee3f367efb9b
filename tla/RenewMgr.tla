------------------------------ MODULE RenewMgr -------------------------------
(***************************************************************************)
(* The renewal policies (renewmgr): how long a channel may last after a     *)
(* renewal.  There is a default for a currency, one for the channels of a   *)
(* sender and one for a channel; the most specific applies.                 *)
(***************************************************************************)
EXTENDS KeyStore

CONSTANTS Currency, Peer, Paych,
          Duration

DefaultPolicyID == "default"

ForCurrency(c) == <<c, DefaultPolicyID>>
ForSender(c, from) == <<c, from, DefaultPolicyID>>
ForPaych(c, from, ch) == <<c, from, ch>>

Inner == {<<c, from>> : c \in Currency, from \in Peer}

Init == /\ store = New /\ emptied = {} /\ cache = {}

SetDefaultPolicy(c, d) == SetKey(d, ForCurrency(c))
RemoveDefaultPolicy(c) == RemoveKey(ForCurrency(c))
GetDefaultPolicy(c) == FirstOf(<<ForCurrency(c)>>)

SetSenderPolicy(c, from, d) == SetKey(d, ForSender(c, from))
RemoveSenderPolicy(c, from) == RemoveAndNote(ForSender(c, from))
GetSenderPolicy(c, from) == FirstOf(<<ForSender(c, from), ForCurrency(c)>>)

SetPaychPolicy(c, from, ch, d) == SetKey(d, ForPaych(c, from, ch))
RemovePaychPolicy(c, from, ch) == RemoveAndNote(ForPaych(c, from, ch))
GetPaychPolicy(c, from, ch) ==
    FirstOf(<<ForPaych(c, from, ch), ForSender(c, from), ForCurrency(c)>>)

PruneSender(c, from) == PruneKey(<<c, from>>)

Start == StartClean(Inner)

(* The lists, of everything that is listed itself one level up.             *)
ListCurrencyIDs == Under({Root})
ListSenders == Under(ListCurrencyIDs)
ListPaychs == Under({q \in ListSenders : q[2] # DefaultPolicyID})

Next ==
    /\ \E c \in Currency :
          \/ \E d \in Duration : SetDefaultPolicy(c, d)
          \/ RemoveDefaultPolicy(c)
          \/ \E from \in Peer :
                \/ \E d \in Duration : SetSenderPolicy(c, from, d)
                \/ RemoveSenderPolicy(c, from)
                \/ PruneSender(c, from)
                \/ \E ch \in Paych :
                      \/ \E d \in Duration : SetPaychPolicy(c, from, ch, d)
                      \/ RemovePaychPolicy(c, from, ch)
       \/ Start
    /\ UNCHANGED cache

-----------------------------------------------------------------------------
(* The policies there are, as they are listed.                              *)
Entries ==
    [k \in {q \in ListSenders : q[2] = DefaultPolicyID} \cup ListPaychs |-> Get(k)]

(* What applies to a channel or to a sender is the most specific policy     *)
(* that is listed.                                                          *)
ListedApplies ==
    \A c \in Currency, from \in Peer :
        /\ GetDefaultPolicy(c) = Resolved(Entries, <<ForCurrency(c)>>)
        /\ GetSenderPolicy(c, from) =
              Resolved(Entries, <<ForSender(c, from), ForCurrency(c)>>)
        /\ \A ch \in Paych : GetPaychPolicy(c, from, ch) =
              Resolved(Entries, <<ForPaych(c, from, ch), ForSender(c, from), ForCurrency(c)>>)
=============================================================================
