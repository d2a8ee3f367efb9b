----------------------------- MODULE Retrieval -----------------------------
(***************************************************************************)
(* The paid transfer of pieces (retmgr) between one payer and one provider, *)
(* with the credit the payment protocol keeps for the payer at the provider *)
(* (payproto Receive).                                                     *)
(*                                                                         *)
(* A call of Retrieve transfers the blocks of one offer by one graphsync   *)
(* request.  The provider sends a block that has not been paid and pauses; *)
(* the payer pays when a block comes in and tells the provider, which takes *)
(* all the credit of that payer and resumes.  Both ends keep a state per    *)
(* offer, so that a later request may resume a transfer that has failed.    *)
(* Any time may pass between two steps, so that a state may have become too *)
(* old whenever its age is looked at.                                       *)
(***************************************************************************)
EXTENDS Integers, Sequences, FiniteSets, Functions

CONSTANTS Offer, Call,
          Requests,    \* what the calls may be for
          PPB,         \* the price of an offer, per byte
          Size,        \* the bytes of a block on the wire, 0 for one sent before
          NoState,     \* no state for the offer
          NoCredit     \* no entry for the payer in the received amounts

Last == Len(Size)

ASSUME OffersAssumption == /\ Requests \subseteq [Call -> Offer]
                           /\ PPB \in [Offer -> Nat] /\ Size \in Seq(Nat)

(* No entry is not an entry of zero.                                        *)
ASSUME NoCreditAssumption == NoCredit \notin Nat

VARIABLES offerOf,   \* the offer each call of Retrieve is for
          call,      \* the calls of Retrieve, up to the end of their request
          out,       \* the payer's states: activeOutOfferID
          known,     \* the requests that have one: activeOutReqID
          cache,     \* the payer's retrieval cache
          serving,   \* the requests as graphsync serves them at the provider
          wire,      \* blocks on their way
          update,    \* payment messages on their way, as the index of a block
          incoming,  \* the provider's states: activeInOfferID
          credit,    \* what the provider has received from the payer
          doomed,    \* the clean routine has found a credit of zero
          owed,      \* all that was credited less all that was taken (history)
          confirmed  \* the last block each request was paid up to (history)

payer == <<offerOf, call, out, known, cache>>
network == <<wire, update>>
provider == <<serving, incoming>>
received == <<credit, doomed>>
vars == <<payer, network, provider, received, owed, confirmed>>

Block == 1 .. Last
Priced(o) == PPB[o] > 0
Price(o, b) == PPB[o] * Size[b]

Ended == {"failed", "saved"}
Running(o) == out[o] # NoState /\ call[out[o]] \notin Ended
Served == {"running", "paused"}

(* onIncomingBlock holds the read lock of the active states and the write   *)
(* lock of its own until the payment is through.                            *)
Paying == {c \in Call : call[c] = "paying"}
MayWriteOut == Paying = {}
MayWriteState(o) == \A c \in Paying : offerOf[c] # o

(* Mutant: the lock is given up with the request, before the file is there. *)
CacheFreeEarly == \A c \in Call : call[c] \notin {"open", "paying"}

(* csLock: read by a transfer until its file is written.                    *)
MayWriteCache == \A c \in Call : call[c] \notin {"open", "paying", "saving"}

Init ==
    /\ offerOf \in Requests
    /\ call = [c \in Call |-> "idle"]
    /\ out = [o \in Offer |-> NoState]
    /\ known = {}
    /\ cache = {}
    /\ serving = [c \in Call |-> [at |-> "none", sent |-> 0]]
    /\ wire = [c \in Call |-> <<>>]
    /\ update = [c \in Call |-> <<>>]
    /\ incoming = [o \in Offer |-> NoState]
    /\ credit = NoCredit
    /\ doomed = FALSE
    /\ owed = 0
    /\ confirmed = [c \in Call |-> 0]

-----------------------------------------------------------------------------
(* The payer.                                                               *)
Go(c, step) == call' = [call EXCEPT ![c] = step]

(* A state expires with its offer, and once a block has come in when nothing *)
(* has for a while: cleanActiveOut removes any of them from both maps.      *)
HaveOut == {o \in Offer : out[o] # NoState}
OutOf(kept) == [o \in Offer |-> IF o \in kept THEN out[o] ELSE NoState]
KnownOf(kept) == {c \in known : offerOf[c] \in kept}

(* Retrieve finds a state whose call has ended and takes it over.           *)
Resume(c) ==
    LET o == offerOf[c] IN
    /\ call[c] = "idle"
    /\ out[o] # NoState /\ ~Running(o)
    /\ MayWriteState(o)
    /\ out' = [out EXCEPT ![o] = c]
    /\ Go(c, "connecting")
    /\ UNCHANGED <<offerOf, known, cache, network, provider, received, owed, confirmed>>

(* It finds none, and asks for the write lock.                              *)
Look(c) ==
    /\ call[c] = "idle"
    /\ out[offerOf[c]] = NoState
    /\ Go(c, "starting")
    /\ UNCHANGED <<offerOf, out, known, cache, network, provider, received, owed, confirmed>>

(* Under the write lock: clean, look again, start or fail.                  *)
Start(c) ==
    LET o == offerOf[c] IN
    /\ call[c] = "starting"
    /\ MayWriteOut
    /\ \E kept \in SUBSET HaveOut :
          /\ known' = KnownOf(kept)
          /\ \/ /\ o \notin kept
                /\ out' = [OutOf(kept) EXCEPT ![o] = c]
                /\ Go(c, "connecting")
             \/ /\ o \in kept
                /\ out' = OutOf(kept)
                /\ Go(c, "failed")
    /\ UNCHANGED <<offerOf, cache, network, provider, received, owed, confirmed>>

(* Peer blocked, connection failed, no lock in time, offer in use or too old. *)
Refused(c) ==
    /\ call[c] \in {"starting", "connecting"}
    /\ Go(c, "failed")
    /\ UNCHANGED <<offerOf, out, known, cache, network, provider, received, owed, confirmed>>

(* The request is sent, with the read lock of the cache; onOutgoingRequest  *)
(* registers it, if the state is still there.                               *)
Request(c) ==
    /\ call[c] = "connecting"
    /\ MayWriteOut
    /\ \E kept \in SUBSET HaveOut :
          /\ out' = OutOf(kept)
          /\ known' = KnownOf(kept) \cup {k \in {c} : offerOf[c] \in kept}
    /\ serving' = [serving EXCEPT ![c].at = "asked"]
    /\ Go(c, "open")
    /\ UNCHANGED <<offerOf, cache, network, incoming, received, owed, confirmed>>

(* A request that ends takes with it what is on its way to its ends.         *)
Serve(c, step) ==
    /\ serving' = [serving EXCEPT ![c] =
                      [at |-> step, sent |-> IF step \in Served THEN @.sent ELSE 0]]
    /\ update' = IF step \in Served THEN update ELSE [update EXCEPT ![c] = <<>>]

(* The payer ends a request, and the provider is told if it is under way.   *)
(* Its entry among the known ones has no use any more.                      *)
GiveUp(c) ==
    /\ Go(c, "failed")
    /\ wire' = [wire EXCEPT ![c] = <<>>]
    /\ known' = known \ {c}
    /\ IF serving[c].at \in Served \cup {"asked"} THEN Serve(c, "ending")
                                               ELSE UNCHANGED <<serving, update>>

(* Mutant: a block without a price is not confirmed to the provider.        *)
ReceiveSilently(c) ==
    /\ call[c] = "open" /\ wire[c] # <<>> /\ c \in known
    /\ MayWriteState(offerOf[c])
    /\ cache' = cache \cup {Head(wire[c])}
    /\ IF Price(offerOf[c], Head(wire[c])) > 0
       THEN Go(c, "paying") /\ UNCHANGED wire
       ELSE wire' = [wire EXCEPT ![c] = Tail(@)] /\ UNCHANGED call
    /\ UNCHANGED <<offerOf, out, known, update, provider, received, owed, confirmed>>

(* onIncomingBlock, up to the payment.                                      *)
Receive(c) ==
    LET o == offerOf[c]  b == Head(wire[c]) IN
    /\ call[c] = "open" /\ wire[c] # <<>>
    /\ cache' = cache \cup {b}
    /\ \/ /\ c \notin known
          /\ GiveUp(c)
       \/ /\ c \in known /\ MayWriteState(o)
          /\ Price(o, b) > 0
          /\ Go(c, "paying")
          /\ UNCHANGED <<known, network, serving>>
       \/ /\ c \in known /\ MayWriteState(o)
          /\ Price(o, b) = 0
          /\ wire' = [wire EXCEPT ![c] = Tail(@)]
          /\ update' = [update EXCEPT ![c] = IF Priced(o) THEN Append(@, b) ELSE @]
          /\ UNCHANGED <<call, known, serving>>
    /\ UNCHANGED <<offerOf, out, incoming, received, owed, confirmed>>

(* The provider's half of the payment: handleDirectPay credits the amount.  *)
Credited(amount) == /\ credit' = (IF credit = NoCredit THEN 0 ELSE credit) + amount
                    /\ owed' = owed + amount

(* The payment succeeds: the provider is told which block it was for.       *)
Pay(c) ==
    LET b == Head(wire[c]) IN
    /\ call[c] = "paying"
    /\ Credited(Price(offerOf[c], b))
    /\ wire' = [wire EXCEPT ![c] = Tail(@)]
    /\ update' = [update EXCEPT ![c] = Append(@, b)]
    /\ Go(c, "open")
    /\ UNCHANGED <<offerOf, out, known, cache, provider, doomed, confirmed>>

(* It fails, or its response is lost: then it has been credited.            *)
PayFails(c) ==
    /\ call[c] = "paying"
    /\ \/ UNCHANGED <<credit, owed>>
       \/ Credited(Price(offerOf[c], Head(wire[c])))
    /\ GiveUp(c)
    /\ UNCHANGED <<offerOf, out, cache, incoming, doomed, confirmed>>

(* The provider has ended the request with an error, or was restarted.      *)
Broken(c) ==
    /\ call[c] = "open" /\ serving[c].at \in {"ending", "over"}
    /\ GiveUp(c)
    /\ UNCHANGED <<offerOf, out, cache, incoming, received, owed, confirmed>>

(* The caller's context ends, or the connection breaks.                     *)
Cancel(c) ==
    /\ call[c] = "open" /\ serving[c].at \notin {"ending", "over"}
    /\ GiveUp(c)
    /\ UNCHANGED <<offerOf, out, cache, incoming, received, owed, confirmed>>

(* All blocks have come in and the provider has completed.                  *)
Completed(c) ==
    /\ call[c] = "open" /\ serving[c].at \in {"completing", "completed"}
    /\ wire[c] = <<>>
    /\ Go(c, "saving")
    /\ UNCHANGED <<offerOf, out, known, cache, network, provider, received, owed, confirmed>>

(* The file is written from the cache.                                      *)
Save(c) ==
    /\ call[c] = "saving"
    /\ Go(c, "saved")
    /\ known' = known \ {c}
    /\ UNCHANGED <<offerOf, out, cache, network, provider, received, owed, confirmed>>

(* CleanRetrievalCache.                                                     *)
CleanRetrievalCache ==
    /\ cache # {}
    /\ MayWriteCache
    /\ cache' = {}
    /\ UNCHANGED <<offerOf, call, out, known, network, provider, received, owed, confirmed>>

CleanOutgoingProcesses ==
    /\ MayWriteOut
    /\ \E kept \in SUBSET HaveOut :
          out' = OutOf(kept) /\ known' = KnownOf(kept)
    /\ UNCHANGED <<offerOf, call, cache, network, provider, received, owed, confirmed>>

-----------------------------------------------------------------------------
(* The provider.                                                            *)
(* cleanActiveIn: any state may not have been touched for its inactivity.   *)
InOf(kept) == [o \in Offer |-> IF o \in kept THEN incoming[o] ELSE NoState]

(* onIncomingRequest accepts: a new offer after a cleaning, or one whose    *)
(* transfer has ended before it became too old, from its first block on.    *)
Accept(c) ==
    LET o == offerOf[c] IN
    /\ serving[c].at = "asked"
    /\ \/ /\ incoming[o] = NoState
          /\ \E kept \in SUBSET Offer : incoming' =
                [InOf(kept) EXCEPT ![o] = [index |-> 0, required |-> 0, processed |-> TRUE]]
       \/ /\ incoming[o] # NoState
          /\ ~incoming[o].processed
          /\ incoming' = [incoming EXCEPT ![o].processed = TRUE, ![o].index = 0]
    /\ Serve(c, "running")
    /\ UNCHANGED <<payer, wire, received, owed, confirmed>>

(* It terminates the request with an error: the peer is blocked, the offer  *)
(* is in process or its state too old.  This ends a request like any other. *)
Reject(c) ==
    /\ serving[c].at = "asked"
    /\ Serve(c, "ending")
    /\ UNCHANGED <<payer, wire, incoming, received, owed, confirmed>>

(* Mutant: a block is sent without waiting for its payment.                 *)
SendBlockUnpaused(c) ==
    /\ serving[c].at = "running" /\ serving[c].sent < Last
    /\ incoming[offerOf[c]] # NoState
    /\ serving' = [serving EXCEPT ![c].sent = @ + 1]
    /\ wire' = [wire EXCEPT ![c] = Append(@, serving[c].sent + 1)]
    /\ UNCHANGED <<payer, update, incoming, received, owed, confirmed>>

(* onOutgoingBlock: the block goes out, and the response pauses if it has   *)
(* not been paid.                                                           *)
SendBlock(c) ==
    LET o == offerOf[c]  b == serving[c].sent + 1  st == incoming[o] IN
    /\ serving[c].at = "running" /\ b <= Last
    /\ \/ /\ st = NoState
          /\ Serve(c, "ending")
          /\ UNCHANGED <<wire, incoming>>
       \/ /\ st # NoState
          /\ UNCHANGED update
          /\ wire' = [wire EXCEPT ![c] = Append(@, b)]
          /\ \/ /\ Priced(o) /\ b > st.index
                /\ incoming' = [incoming EXCEPT ![o].required = Price(o, b)]
                /\ serving' = [serving EXCEPT ![c].at = "paused", ![c].sent = b]
             \/ /\ ~Priced(o) \/ b <= st.index
                /\ incoming' = incoming
                /\ serving' = [serving EXCEPT ![c].sent = b]
    /\ UNCHANGED <<payer, received, owed, confirmed>>

(* payproto Receive takes all there is for the payer.                       *)
Taken == IF credit = NoCredit THEN 0 ELSE credit

(* Mutant: the amount is left in place.                                     *)
TakeCreditTwice == owed' = owed - Taken /\ credit' = credit

TakeCredit == /\ owed' = owed - Taken
              /\ credit' = IF credit = NoCredit THEN credit ELSE 0

Confirm(c, b) ==
    /\ incoming' = [incoming EXCEPT ![offerOf[c]] =
                       [@ EXCEPT !.index = b, !.required = 0]]
    /\ serving' = [serving EXCEPT ![c].at = "running"]
    /\ confirmed' = [confirmed EXCEPT ![c] = b]
    /\ update' = [update EXCEPT ![c] = Tail(@)]

(* onUpdatedRequest: a block without a price is confirmed; otherwise the    *)
(* credit is taken, and has to cover what is required.  When it cannot be   *)
(* taken the provider continues.                                            *)
UpdatedRequest(c) ==
    LET o == offerOf[c]  b == Head(update[c]) IN
    /\ serving[c].at \in Served /\ update[c] # <<>>
    /\ \/ /\ incoming[o] = NoState
          /\ Serve(c, "ending")
          /\ UNCHANGED <<incoming, credit, owed, confirmed>>
       \/ /\ incoming[o] # NoState /\ Price(o, b) > 0
          /\ Taken < incoming[o].required
          /\ TakeCredit
          /\ Serve(c, "ending")
          /\ UNCHANGED <<incoming, confirmed>>
       \/ /\ incoming[o] # NoState /\ Price(o, b) > 0
          /\ Taken >= incoming[o].required
          /\ TakeCredit
          /\ Confirm(c, b)
       \/ /\ incoming[o] # NoState
          /\ Confirm(c, b)
          /\ UNCHANGED <<credit, owed>>
    /\ UNCHANGED <<payer, wire, doomed>>

(* Graphsync has sent the last block.                                       *)
Finish(c) ==
    /\ serving[c].at = "running" /\ serving[c].sent = Last
    /\ Serve(c, "completing")
    /\ UNCHANGED <<payer, wire, incoming, received, owed, confirmed>>

(* The provider notices a network error.                                    *)
NetworkError(c) ==
    /\ serving[c].at \in Served \cup {"completing"}
    /\ Serve(c, "ending")
    /\ UNCHANGED <<payer, wire, incoming, received, owed, confirmed>>

(* A listener that a request has not been completed gives the state free.   *)
GiveFree(o) == incoming' = IF incoming[o] = NoState THEN incoming
                           ELSE [incoming EXCEPT ![o].processed = FALSE]

(* onComplete with a failure, OnRequestorCancelledListener and              *)
(* OnNetworkErrorListener.                                                  *)
Failed(c) ==
    /\ serving[c].at = "ending"
    /\ GiveFree(offerOf[c])
    /\ Serve(c, "over")
    /\ UNCHANGED <<payer, wire, received, owed, confirmed>>

(* onComplete with success.                                                 *)
Complete(c) ==
    /\ serving[c].at = "completing"
    /\ \E kept \in SUBSET (Offer \ {offerOf[c]}) : incoming' = InOf(kept)
    /\ Serve(c, "completed")
    /\ UNCHANGED <<payer, wire, received, owed, confirmed>>

CleanIncomingProcesses ==
    /\ \E kept \in SUBSET Offer : incoming' = InOf(kept)
    /\ UNCHANGED <<payer, network, serving, received, owed, confirmed>>

(* The clean routine of the payment protocol looks for credits of zero      *)
(* under read locks, and removes what it has found under a write lock.      *)
CleanLook ==
    /\ ~doomed /\ credit = 0
    /\ doomed' = TRUE
    /\ UNCHANGED <<payer, network, provider, credit, owed, confirmed>>

CleanCredit ==
    /\ doomed
    /\ doomed' = FALSE
    /\ credit' = IF credit = 0 THEN NoCredit ELSE credit
    /\ UNCHANGED <<payer, network, provider, owed, confirmed>>

(* An index beyond the last block is like that of the last.                 *)
Capped(index) == IF index > Last THEN Last ELSE index

(* Shutdown saves what is not too old, and the next start loads it with a   *)
(* new expiration; the received amounts are saved as they are.  Requests    *)
(* under way end without a notification.                                    *)
Restart ==
    /\ \E kept \in SUBSET {o \in Offer : incoming[o] # NoState} :
          incoming' = [o \in Offer |->
             IF o \in kept
             THEN [incoming[o] EXCEPT !.index = Capped(@ + 1), !.required = 0, !.processed = FALSE]
             ELSE NoState]
    /\ serving' = [c \in Call |->
                     [at |-> IF serving[c].at \in {"none", "completed"}
                             THEN serving[c].at ELSE "over", sent |-> 0]]
    /\ update' = [c \in Call |-> <<>>]
    /\ doomed' = FALSE
    /\ UNCHANGED <<payer, wire, credit, owed, confirmed>>

-----------------------------------------------------------------------------
PayerStep(c) == \/ Resume(c) \/ Look(c) \/ Start(c) \/ Refused(c) \/ Request(c)
                \/ Receive(c) \/ Pay(c) \/ PayFails(c) \/ Broken(c) \/ Cancel(c)
                \/ Completed(c) \/ Save(c)
ProviderStep(c) == \/ Accept(c) \/ Reject(c) \/ SendBlock(c) \/ UpdatedRequest(c)
                   \/ Finish(c) \/ NetworkError(c) \/ Failed(c) \/ Complete(c)

Next ==
    \/ \E c \in Call : PayerStep(c) \/ ProviderStep(c)
    \/ CleanRetrievalCache \/ CleanOutgoingProcesses \/ CleanIncomingProcesses
    \/ CleanLook \/ CleanCredit \/ Restart

Spec == Init /\ [][Next]_vars

-----------------------------------------------------------------------------
(* Whatever the interleaving of payments, of transfers that take the credit *)
(* and of the clean routine: what was credited to a payer is there or has   *)
(* been taken, once.                                                        *)
CreditIsKept == owed = Taken

(* The provider is never more than one block ahead of the payments: of the  *)
(* blocks that a request for a priced offer has been sent, all but the last *)
(* have been confirmed, by the request itself or, when the state of the     *)
(* offer was shared, by another one for the same offer, whatever is resumed, *)
(* cleaned or restarted in between.                                         *)
OneBlockAhead ==
    \A c \in Call : Priced(offerOf[c]) =>
        \/ serving[c].sent <= confirmed[c] + 1
        \/ \E k \in Call \ {c} :
              /\ offerOf[k] = offerOf[c]
              /\ serving[c].sent <= confirmed[c] + confirmed[k] + 1

(* A payer that writes the file of a completed transfer finds all its       *)
(* blocks in the cache, although the cache may be cleaned at any time.       *)
FileIsWhole ==
    \A c \in Call : call[c] = "saving" => cache = Block

(* The two ends never wait for each other: while the provider has paused a  *)
(* request that its payer still follows, the block to pay or the message    *)
(* that it has been paid is on its way.                                     *)
NoMutualWait ==
    \A c \in Call : /\ call[c] \in {"open", "paying"}
                    /\ serving[c].at = "paused"
                    => wire[c] # <<>> \/ update[c] # <<>>
=============================================================================
