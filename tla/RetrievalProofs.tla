-------------------------- MODULE RetrievalProofs --------------------------
(***************************************************************************)
(* Proofs about Retrieval, for any offers, calls, prices and sizes of      *)
(* blocks: what was credited is kept, the two ends do not wait for each    *)
(* other, a file is written from a whole cache, and the provider is at     *)
(* most one block ahead of the payments.                                   *)
(***************************************************************************)
EXTENDS Retrieval, SequenceTheorems, TLAPS

Step == {"idle", "starting", "connecting", "open", "paying"} \cup
        {"saving"} \cup Ended
Stage == {"none", "asked", "completing", "completed", "ending", "over"} \cup Served

State == [index : 0 .. Last, required : Nat, processed : BOOLEAN]

TypeOK ==
    /\ offerOf \in [Call -> Offer]
    /\ call \in [Call -> Step]
    /\ out \in [Offer -> Call \cup {NoState}]
    /\ known \subseteq Call
    /\ cache \subseteq Block
    /\ serving \in [Call -> [at : Stage, sent : 0 .. Last]]
    /\ wire \in [Call -> Seq(Block)]
    /\ update \in [Call -> Seq(Block)]
    /\ incoming \in [Offer -> State \cup {NoState}]
    /\ credit \in Nat \cup {NoCredit}
    /\ doomed \in BOOLEAN
    /\ owed \in Int
    /\ confirmed \in [Call -> 0 .. Last]

(* A payment is under way for the block that came in last.                  *)
PayingInv == \A c \in Call : call[c] = "paying" => wire[c] # <<>>

-----------------------------------------------------------------------------
(* Blocks and prices are natural numbers.                                   *)
LEMMA Lengths == /\ Last \in Nat
                 /\ \A o \in Offer : PPB[o] \in Nat
                 /\ \A o \in Offer, b \in Block : Price(o, b) \in Nat
                 /\ \A o \in Offer, b \in Block : Price(o, b) > 0 => Priced(o)
<1>1. Last \in Nat /\ \A b \in Block : Size[b] \in Nat
  BY OffersAssumption, LenProperties DEF Last, Block
<1>2. \A o \in Offer : PPB[o] \in Nat
  BY OffersAssumption
<1>3. ASSUME NEW o \in Offer, NEW b \in Block, ~Priced(o)
      PROVE  Price(o, b) = 0
  <2>1. PPB[o] = 0
    BY <1>2, <1>3 DEF Priced
  <2> QED BY <1>1, <2>1 DEF Price
<1>4. \A o \in Offer, b \in Block : Price(o, b) \in Nat
  BY <1>1, <1>2 DEF Price
<1> QED BY <1>1, <1>2, <1>3, <1>4

(* What the operations on the queues between the two ends give.             *)
LEMMA Queues ==
  ASSUME NEW q \in [Call -> Seq(Block)], NEW c \in Call
  PROVE  /\ \A b \in Block : [q EXCEPT ![c] = Append(@, b)] \in [Call -> Seq(Block)]
         /\ [q EXCEPT ![c] = <<>>] \in [Call -> Seq(Block)]
         /\ q[c] # <<>> => /\ Head(q[c]) \in Block
                           /\ [q EXCEPT ![c] = Tail(@)] \in [Call -> Seq(Block)]
<1>1. q[c] \in Seq(Block) /\ <<>> \in Seq(Block)
  BY EmptySeq
<1>2. q[c] # <<>> => Head(q[c]) \in Block /\ Tail(q[c]) \in Seq(Block)
  BY <1>1, HeadTailProperties
<1>3. \A b \in Block : Append(q[c], b) \in Seq(Block)
  BY <1>1, AppendProperties
<1> QED BY <1>1, <1>2, <1>3

(* A state is forgotten or kept as it is.                                   *)
LEMMA Forgetting ==
  ASSUME TypeOK, NEW kept
  PROVE  /\ OutOf(kept) \in [Offer -> Call \cup {NoState}]
         /\ KnownOf(kept) \subseteq Call
         /\ InOf(kept) \in [Offer -> State \cup {NoState}]
BY DEF TypeOK, OutOf, KnownOf, InOf

(* What the provider does next with a request changes that request only.    *)
LEMMA Serving ==
  ASSUME TypeOK, NEW c \in Call, NEW step \in Stage, Serve(c, step)
  PROVE  /\ serving' \in [Call -> [at : Stage, sent : 0 .. Last]]
         /\ update' \in [Call -> Seq(Block)]
         /\ serving'[c].at = step
         /\ serving'[c].sent = IF step \in Served THEN serving[c].sent ELSE 0
         /\ \A d \in Call \ {c} : serving'[d] = serving[d] /\ update'[d] = update[d]
         /\ update'[c] = IF step \in Served THEN update[c] ELSE <<>>
<1>1. serving[c].sent \in 0 .. Last /\ 0 \in 0 .. Last
  BY Lengths DEF TypeOK
<1>2. [update EXCEPT ![c] = <<>>] \in [Call -> Seq(Block)]
  BY Queues DEF TypeOK
<1> QED BY <1>1, <1>2 DEF Serve, TypeOK

(* A call that gives up leaves the provider to end the request, if it has   *)
(* one.                                                                     *)
LEMMA GivingUp ==
  ASSUME TypeOK, NEW c \in Call, GiveUp(c)
  PROVE  /\ call' = [call EXCEPT ![c] = "failed"] /\ call' \in [Call -> Step]
         /\ known' \subseteq Call
         /\ wire' = [wire EXCEPT ![c] = <<>>] /\ wire' \in [Call -> Seq(Block)]
         /\ update' \in [Call -> Seq(Block)]
         /\ serving' \in [Call -> [at : Stage, sent : 0 .. Last]]
         /\ serving[c].at \in Served \cup {"asked"} => serving'[c].at = "ending"
         /\ serving[c].at \notin Served \cup {"asked"} => serving'[c].at = serving[c].at
         /\ serving[c].at \in Served \cup {"asked"} => serving'[c].sent = 0
         /\ serving[c].at \notin Served \cup {"asked"} => serving'[c].sent = serving[c].sent
         /\ \A d \in Call \ {c} : serving'[d] = serving[d] /\ update'[d] = update[d]
<1>1. call' = [call EXCEPT ![c] = "failed"] /\ wire' = [wire EXCEPT ![c] = <<>>]
      /\ known' \subseteq Call
  BY DEF GiveUp, Go, TypeOK
<1>2. call' \in [Call -> Step]
  BY <1>1 DEF TypeOK, Step, Ended
<1>3. wire' \in [Call -> Seq(Block)]
  BY <1>1, Queues DEF TypeOK
<1>4. CASE serving[c].at \in Served \cup {"asked"}
  <2>1. Serve(c, "ending") /\ "ending" \in Stage /\ "ending" \notin Served
    BY <1>4 DEF GiveUp, Stage, Served
  <2>2. /\ serving' \in [Call -> [at : Stage, sent : 0 .. Last]]
        /\ update' \in [Call -> Seq(Block)]
        /\ serving'[c].at = "ending" /\ serving'[c].sent = 0
        /\ \A d \in Call \ {c} : serving'[d] = serving[d] /\ update'[d] = update[d]
    <3> DEFINE step == "ending"
    <3>1. step \in Stage /\ Serve(c, step) /\ step \notin Served
      BY <2>1
    <3> HIDE DEF step
    <3>2. /\ serving' \in [Call -> [at : Stage, sent : 0 .. Last]]
          /\ update' \in [Call -> Seq(Block)]
          /\ serving'[c].at = step /\ serving'[c].sent = 0
          /\ \A d \in Call \ {c} : serving'[d] = serving[d] /\ update'[d] = update[d]
      BY <3>1, Serving
    <3> QED BY <3>2 DEF step
  <2> QED BY <1>1, <1>2, <1>3, <1>4, <2>2
<1>5. CASE serving[c].at \notin Served \cup {"asked"}
  <2>1. serving' = serving /\ update' = update
    BY <1>5 DEF GiveUp
  <2> QED BY <1>1, <1>2, <1>3, <1>5, <2>1 DEF TypeOK
<1> QED BY <1>4, <1>5

(* An amount is added to the credit of the payer, which it may open.        *)
LEMMA Crediting ==
  ASSUME TypeOK, NEW amount \in Nat, Credited(amount)
  PROVE  credit' \in Nat \cup {NoCredit} /\ owed' \in Int
<1>1. credit \in Nat \cup {NoCredit} /\ owed \in Int
  BY DEF TypeOK
<1>2. (IF credit = NoCredit THEN 0 ELSE credit) \in Nat
  BY <1>1
<1> QED BY <1>1, <1>2 DEF Credited

(* Every step of a call of Retrieve keeps the types.                        *)
LEMMA PayerTypes ==
  ASSUME TypeOK, PayingInv, NEW c \in Call, PayerStep(c)
  PROVE  TypeOK'
<1> USE DEF Go, payer, network, provider, received
<1>1. CASE Resume(c)
  BY <1>1 DEF Resume, TypeOK, Step
<1>2. CASE Look(c)
  BY <1>2 DEF Look, TypeOK, Step
<1>3. CASE Start(c)
  <2>1. PICK kept \in SUBSET HaveOut :
          /\ known' = KnownOf(kept)
          /\ \/ out' = [OutOf(kept) EXCEPT ![offerOf[c]] = c] /\ call' = [call EXCEPT ![c] = "connecting"]
             \/ out' = OutOf(kept) /\ call' = [call EXCEPT ![c] = "failed"]
    BY <1>3 DEF Start
  <2>2. offerOf[c] \in Offer
    BY DEF TypeOK
  <2>3. out' \in [Offer -> Call \cup {NoState}] /\ known' \subseteq Call
    BY <2>1, <2>2, Forgetting
  <2> QED BY <1>3, <2>1, <2>3 DEF Start, TypeOK, Step, Ended
<1>4. CASE Refused(c)
  BY <1>4 DEF Refused, TypeOK, Step, Ended
<1>5. CASE Request(c)
  <2>1. PICK kept \in SUBSET HaveOut :
          /\ out' = OutOf(kept)
          /\ known' = KnownOf(kept) \cup {k \in {c} : offerOf[c] \in kept}
    BY <1>5 DEF Request
  <2>2. out' \in [Offer -> Call \cup {NoState}] /\ known' \subseteq Call
    BY <2>1, Forgetting
  <2>3. serving' \in [Call -> [at : Stage, sent : 0 .. Last]]
    BY <1>5 DEF Request, TypeOK, Stage
  <2> QED BY <1>5, <2>2, <2>3 DEF Request, TypeOK, Step
<1>6. CASE Receive(c)
  <2>1. Head(wire[c]) \in Block /\ offerOf[c] \in Offer
    BY <1>6, Queues DEF Receive, TypeOK
  <2>2. cache' \subseteq Block
    BY <1>6, <2>1 DEF Receive, TypeOK
  <2>3. /\ call' \in [Call -> Step] /\ known' \subseteq Call
        /\ wire' \in [Call -> Seq(Block)] /\ update' \in [Call -> Seq(Block)]
        /\ serving' \in [Call -> [at : Stage, sent : 0 .. Last]]
    <3>1. CASE GiveUp(c)
      BY <3>1, GivingUp
    <3>2. CASE call' = [call EXCEPT ![c] = "paying"] /\ UNCHANGED <<known, network, serving>>
      BY <3>2 DEF TypeOK, Step
    <3>3. CASE /\ wire' = [wire EXCEPT ![c] = Tail(@)]
               /\ update' = [update EXCEPT ![c] = IF Priced(offerOf[c]) THEN Append(@, Head(wire[c])) ELSE @]
               /\ UNCHANGED <<call, known, serving>>
      <4>1. wire' \in [Call -> Seq(Block)]
        BY <1>6, <3>3, Queues DEF Receive, TypeOK
      <4>2. update' \in [Call -> Seq(Block)]
        BY <2>1, <3>3, Queues DEF TypeOK
      <4> QED BY <3>3, <4>1, <4>2 DEF TypeOK
    <3> QED BY <1>6, <3>1, <3>2, <3>3 DEF Receive
  <2> QED BY <1>6, <2>2, <2>3 DEF Receive, TypeOK
<1>7. CASE Pay(c)
  <2>1. Head(wire[c]) \in Block /\ offerOf[c] \in Offer /\ wire[c] # <<>>
    BY <1>7, Queues DEF Pay, PayingInv, TypeOK
  <2>2. wire' \in [Call -> Seq(Block)] /\ update' \in [Call -> Seq(Block)]
    BY <1>7, <2>1, Queues DEF Pay, TypeOK
  <2>3. credit' \in Nat \cup {NoCredit} /\ owed' \in Int
    <3>1. Price(offerOf[c], Head(wire[c])) \in Nat
      BY <2>1, Lengths
    <3> QED BY <1>7, <3>1, Crediting DEF Pay
  <2> QED BY <1>7, <2>2, <2>3 DEF Pay, TypeOK, Step
<1>8. CASE PayFails(c)
  <2>1. Head(wire[c]) \in Block /\ offerOf[c] \in Offer
    BY <1>8, Queues DEF PayFails, PayingInv, TypeOK
  <2>2. credit' \in Nat \cup {NoCredit} /\ owed' \in Int
    <3>1. Price(offerOf[c], Head(wire[c])) \in Nat
      BY <2>1, Lengths
    <3>2. CASE UNCHANGED <<credit, owed>>
      BY <3>2 DEF TypeOK
    <3>3. CASE Credited(Price(offerOf[c], Head(wire[c])))
      BY <3>1, <3>3, Crediting
    <3> QED BY <1>8, <3>2, <3>3 DEF PayFails
  <2>3. GiveUp(c)
    BY <1>8 DEF PayFails
  <2> QED BY <1>8, <2>2, <2>3, GivingUp DEF PayFails, TypeOK
<1>9. CASE Broken(c)
  BY <1>9, GivingUp DEF Broken, TypeOK
<1>10. CASE Cancel(c)
  BY <1>10, GivingUp DEF Cancel, TypeOK
<1>11. CASE Completed(c)
  BY <1>11 DEF Completed, TypeOK, Step
<1>12. CASE Save(c)
  BY <1>12 DEF Save, TypeOK, Step, Ended
<1> QED BY <1>1, <1>2, <1>3, <1>4, <1>5, <1>6, <1>7, <1>8, <1>9, <1>10, <1>11, <1>12 DEF PayerStep

(* The state of an offer after an index or a field has been set.            *)
LEMMA Kept ==
  ASSUME TypeOK, NEW o \in Offer, incoming[o] # NoState
  PROVE  /\ incoming[o] \in State
         /\ incoming[o].index \in 0 .. Last /\ incoming[o].required \in Nat
BY DEF TypeOK, State

(* The stage and the number of blocks of a request are set one by one.      *)
LEMMA Stages ==
  ASSUME TypeOK, NEW c \in Call, NEW step \in Stage, NEW n \in 0 .. Last
  PROVE  /\ [serving EXCEPT ![c].at = step] \in [Call -> [at : Stage, sent : 0 .. Last]]
         /\ [serving EXCEPT ![c].at = step, ![c].sent = n]
              \in [Call -> [at : Stage, sent : 0 .. Last]]
<1>1. serving[c] \in [at : Stage, sent : 0 .. Last]
  BY DEF TypeOK
<1>2. [serving[c] EXCEPT !.at = step] \in [at : Stage, sent : 0 .. Last]
  BY <1>1
<1>3. [[serving[c] EXCEPT !.at = step] EXCEPT !.sent = n] \in [at : Stage, sent : 0 .. Last]
  BY <1>2
<1> QED BY <1>2, <1>3 DEF TypeOK

(* A confirmation sets the index of the offer and lets the response go on.  *)
LEMMA Confirming ==
  ASSUME TypeOK, NEW c \in Call, NEW b \in Block, incoming[offerOf[c]] # NoState,
         update[c] # <<>>, Confirm(c, b)
  PROVE  /\ incoming' \in [Offer -> State \cup {NoState}]
         /\ serving' \in [Call -> [at : Stage, sent : 0 .. Last]]
         /\ confirmed' \in [Call -> 0 .. Last]
         /\ update' \in [Call -> Seq(Block)]
<1>1. offerOf[c] \in Offer /\ incoming[offerOf[c]] \in State
  BY Kept DEF TypeOK
<1>2. b \in 0 .. Last /\ 0 \in Nat
  BY Lengths DEF Block
<1>3. [incoming[offerOf[c]] EXCEPT !.index = b, !.required = 0] \in State
  BY <1>1, <1>2 DEF State
<1>4. incoming' \in [Offer -> State \cup {NoState}]
  BY <1>1, <1>3 DEF Confirm, TypeOK
<1>5. update' \in [Call -> Seq(Block)]
  BY Queues DEF Confirm, TypeOK
<1>6. serving' \in [Call -> [at : Stage, sent : 0 .. Last]]
  <2> DEFINE step == "running"
  <2>1. step \in Stage /\ serving' = [serving EXCEPT ![c].at = step]
    BY DEF Confirm, Stage, Served
  <2> HIDE DEF step
  <2> QED BY <1>2, <2>1, Stages
<1> QED BY <1>2, <1>4, <1>5, <1>6 DEF Confirm, TypeOK

(* Every step of the provider for a request keeps the types.                *)
LEMMA ProviderTypes ==
  ASSUME TypeOK, NEW c \in Call, ProviderStep(c)
  PROVE  TypeOK'
<1> USE DEF Go, payer, network, provider, received
<1>0. offerOf[c] \in Offer /\ 0 \in 0 .. Last /\ Last \in Nat
  BY Lengths DEF TypeOK
<1>a. ASSUME NEW step \in Stage, Serve(c, step)
      PROVE  serving' \in [Call -> [at : Stage, sent : 0 .. Last]] /\ update' \in [Call -> Seq(Block)]
  BY <1>a, Serving
<1>b. {"running", "ending", "completing", "completed", "over"} \subseteq Stage
  BY DEF Stage, Served
<1>1. CASE Accept(c)
  <2>1. incoming' \in [Offer -> State \cup {NoState}]
    <3>1. CASE /\ incoming[offerOf[c]] = NoState
               /\ \E kept \in SUBSET Offer : incoming' =
                    [InOf(kept) EXCEPT ![offerOf[c]] = [index |-> 0, required |-> 0, processed |-> TRUE]]
      <4>1. [index |-> 0, required |-> 0, processed |-> TRUE] \in State
        BY <1>0 DEF State
      <4> QED BY <1>0, <3>1, <4>1, Forgetting
    <3>2. CASE /\ incoming[offerOf[c]] # NoState
               /\ incoming' = [incoming EXCEPT ![offerOf[c]].processed = TRUE, ![offerOf[c]].index = 0]
      <4>1. incoming[offerOf[c]] \in State
        BY <1>0, <3>2, Kept
      <4>2. [[incoming[offerOf[c]] EXCEPT !.processed = TRUE] EXCEPT !.index = 0] \in State
        BY <1>0, <4>1 DEF State
      <4> QED BY <1>0, <3>2, <4>2 DEF TypeOK
    <3> QED BY <1>1, <3>1, <3>2 DEF Accept
  <2> QED BY <1>1, <1>a, <1>b, <2>1 DEF Accept, TypeOK
<1>2. CASE Reject(c)
  BY <1>2, <1>a, <1>b DEF Reject, TypeOK
<1>3. CASE SendBlock(c)
  <2> DEFINE b == serving[c].sent + 1
  <2>1. serving[c].sent \in 0 .. Last /\ b \in Block /\ b \in 0 .. Last
    BY <1>0, <1>3 DEF SendBlock, TypeOK, Block
  <2>2. CASE Serve(c, "ending") /\ UNCHANGED <<wire, incoming>>
    BY <1>3, <1>a, <1>b, <2>2 DEF SendBlock, TypeOK
  <2>3. CASE /\ incoming[offerOf[c]] # NoState
             /\ UNCHANGED update
             /\ wire' = [wire EXCEPT ![c] = Append(@, b)]
             /\ incoming' = [incoming EXCEPT ![offerOf[c]].required = Price(offerOf[c], b)]
             /\ serving' = [serving EXCEPT ![c].at = "paused", ![c].sent = b]
    <3>1. wire' \in [Call -> Seq(Block)]
      BY <2>1, <2>3, Queues DEF TypeOK
    <3>2. Price(offerOf[c], b) \in Nat
      BY <1>0, <2>1, Lengths
    <3>3. incoming[offerOf[c]] \in State
      BY <1>0, <2>3, Kept
    <3>4. [incoming[offerOf[c]] EXCEPT !.required = Price(offerOf[c], b)] \in State
      BY <3>2, <3>3 DEF State
    <3>5. incoming' \in [Offer -> State \cup {NoState}]
      BY <1>0, <2>3, <3>4 DEF TypeOK
    <3>6. serving' \in [Call -> [at : Stage, sent : 0 .. Last]]
      <4> DEFINE step == "paused"
      <4>1. step \in Stage /\ serving' = [serving EXCEPT ![c].at = step, ![c].sent = b]
        BY <2>3 DEF Stage, Served
      <4> HIDE DEF step, b
      <4> QED BY <2>1, <4>1, Stages
    <3> QED BY <1>3, <2>3, <3>1, <3>5, <3>6 DEF SendBlock, TypeOK
  <2>4. CASE /\ UNCHANGED update
             /\ wire' = [wire EXCEPT ![c] = Append(@, b)]
             /\ incoming' = incoming
             /\ serving' = [serving EXCEPT ![c].sent = b]
    <3>1. wire' \in [Call -> Seq(Block)]
      BY <2>1, <2>4, Queues DEF TypeOK
    <3>6. serving' \in [Call -> [at : Stage, sent : 0 .. Last]]
      BY <2>1, <2>4 DEF TypeOK
    <3> QED BY <1>3, <2>4, <3>1, <3>6 DEF SendBlock, TypeOK
  <2> QED BY <1>3, <2>2, <2>3, <2>4 DEF SendBlock
<1>4. CASE UpdatedRequest(c)
  <2>1. update[c] # <<>> /\ Head(update[c]) \in Block
    BY <1>4, Queues DEF UpdatedRequest, TypeOK
  <2>2. TakeCredit \/ UNCHANGED <<credit, owed>>
    BY <1>4 DEF UpdatedRequest
  <2>3. credit' \in Nat \cup {NoCredit} /\ owed' \in Int
    BY <2>2 DEF TakeCredit, Taken, TypeOK
  <2>4. CASE Serve(c, "ending") /\ UNCHANGED <<incoming, confirmed>>
    BY <1>4, <1>a, <1>b, <2>3, <2>4 DEF UpdatedRequest, TypeOK
  <2>5. CASE incoming[offerOf[c]] # NoState /\ Confirm(c, Head(update[c]))
    <3>1. /\ incoming' \in [Offer -> State \cup {NoState}]
          /\ serving' \in [Call -> [at : Stage, sent : 0 .. Last]]
          /\ confirmed' \in [Call -> 0 .. Last]
          /\ update' \in [Call -> Seq(Block)]
      BY <2>1, <2>5, Confirming
    <3> QED BY <1>4, <2>3, <3>1 DEF UpdatedRequest, TypeOK
  <2> QED BY <1>4, <2>4, <2>5 DEF UpdatedRequest
<1>5. CASE Finish(c)
  BY <1>5, <1>a, <1>b DEF Finish, TypeOK
<1>6. CASE NetworkError(c)
  BY <1>6, <1>a, <1>b DEF NetworkError, TypeOK
<1>7. CASE Failed(c)
  <2>1. incoming' \in [Offer -> State \cup {NoState}]
    BY <1>0, <1>7, Kept DEF Failed, GiveFree, TypeOK, State
  <2> QED BY <1>7, <1>a, <1>b, <2>1 DEF Failed, TypeOK
<1>8. CASE Complete(c)
  BY <1>8, <1>a, <1>b, Forgetting DEF Complete, TypeOK
<1> QED BY <1>1, <1>2, <1>3, <1>4, <1>5, <1>6, <1>7, <1>8 DEF ProviderStep

(* So does what either end does on its own.                                 *)
LEMMA OtherTypes ==
  ASSUME TypeOK,
         \/ CleanRetrievalCache \/ CleanOutgoingProcesses \/ CleanIncomingProcesses
         \/ CleanLook \/ CleanCredit \/ Restart
  PROVE  TypeOK'
<1> USE DEF payer, network, provider, received
<1>1. CASE CleanRetrievalCache
  BY <1>1 DEF CleanRetrievalCache, TypeOK
<1>2. CASE CleanOutgoingProcesses
  BY <1>2, Forgetting DEF CleanOutgoingProcesses, TypeOK
<1>3. CASE CleanIncomingProcesses
  BY <1>3, Forgetting DEF CleanIncomingProcesses, TypeOK
<1>4. CASE CleanLook
  BY <1>4 DEF CleanLook, TypeOK
<1>5. CASE CleanCredit
  BY <1>5 DEF CleanCredit, TypeOK
<1>6. CASE Restart
  <2>1. ASSUME NEW o \in Offer, incoming[o] # NoState
        PROVE  [incoming[o] EXCEPT !.index = Capped(@ + 1), !.required = 0, !.processed = FALSE] \in State
    <3>1. incoming[o] \in State /\ incoming[o].index \in 0 .. Last /\ Last \in Nat
      BY <2>1, Kept, Lengths
    <3>2. Capped(incoming[o].index + 1) \in 0 .. Last
      BY <3>1 DEF Capped
    <3> QED BY <3>1, <3>2 DEF State
  <2>2. incoming' \in [Offer -> State \cup {NoState}]
    <3>1. PICK kept \in SUBSET {o \in Offer : incoming[o] # NoState} :
            incoming' = [o \in Offer |->
              IF o \in kept
              THEN [incoming[o] EXCEPT !.index = Capped(@ + 1), !.required = 0, !.processed = FALSE]
              ELSE NoState]
      BY <1>6 DEF Restart
    <3> QED BY <2>1, <3>1
  <2>3. serving' \in [Call -> [at : Stage, sent : 0 .. Last]]
    <3> DEFINE step(c) == IF serving[c].at \in {"none", "completed"}
                          THEN serving[c].at ELSE "over"
    <3>1. \A c \in Call : step(c) \in Stage /\ 0 \in 0 .. Last
      BY Lengths DEF TypeOK, Stage
    <3>2. serving' = [c \in Call |-> [at |-> step(c), sent |-> 0]]
      BY <1>6 DEF Restart
    <3> HIDE DEF step
    <3> QED BY <3>1, <3>2
  <2>4. update' \in [Call -> Seq(Block)]
    BY <1>6, EmptySeq DEF Restart
  <2> QED BY <1>6, <2>2, <2>3, <2>4 DEF Restart, TypeOK
<1> QED BY <1>1, <1>2, <1>3, <1>4, <1>5, <1>6

-----------------------------------------------------------------------------
(* The blocks that a response has sent by now: all of them once it is       *)
(* complete, although a request that has ended no longer counts them.       *)
Gone(c) == IF serving[c].at \in Served THEN serving[c].sent ELSE Last

(* Where a request is, what of it is under way, and what has come in.       *)
StartInv(c) ==
    /\ call[c] \in {"idle", "starting", "connecting"} => serving[c].at = "none"
    /\ serving[c].at \in {"none", "asked"} =>
          wire[c] = <<>> /\ update[c] = <<>> /\ confirmed[c] = 0
    /\ serving[c].at \notin Served => serving[c].sent = 0
    /\ serving[c].at \in Served \cup {"asked"} => call[c] \in {"open", "paying"}
    /\ call[c] = "paying" =>
          wire[c] # <<>> /\ Head(wire[c]) \in cache /\ Priced(offerOf[c])

(* The blocks on their way are the last ones sent, and those before them    *)
(* are in the cache.                                                        *)
WireInv(c) ==
    /\ call[c] \in {"open", "paying"} /\ serving[c].at \in Served \cup {"completing", "completed"} =>
          /\ Len(wire[c]) <= Gone(c)
          /\ \A i \in 1 .. Len(wire[c]) : wire[c][i] = Gone(c) - Len(wire[c]) + i
          /\ 1 .. (Gone(c) - Len(wire[c])) \subseteq cache
    /\ call[c] = "saving" => cache = Block

(* Each block of a priced offer is confirmed, or its message is on its way, *)
(* or it is itself; and what a paused response waits for is one of these.   *)
UpdateInv(c) ==
    /\ Priced(offerOf[c]) /\ serving[c].at \in Served =>
          /\ confirmed[c] + Len(update[c]) + Len(wire[c]) = serving[c].sent
          /\ \A i \in 1 .. Len(update[c]) : update[c][i] = confirmed[c] + i
    /\ serving[c].at = "paused" =>
          Priced(offerOf[c]) /\ (wire[c] # <<>> \/ update[c] # <<>>)

FlowInv == \A c \in Call : StartInv(c) /\ WireInv(c) /\ UpdateInv(c)

(* How far a request may have got: the index that lets blocks pass has been *)
(* confirmed by one of the requests for the offer, this one or another.     *)
Covered(c, n) == \/ n <= confirmed[c]
                 \/ \E k \in Call \ {c} : /\ offerOf[k] = offerOf[c]
                                          /\ n <= confirmed[c] + confirmed[k]

AheadInv(c) ==
    Priced(offerOf[c]) /\ serving[c].at \in Served =>
       /\ incoming[offerOf[c]] # NoState =>
             \E k \in Call : /\ offerOf[k] = offerOf[c]
                             /\ incoming[offerOf[c]].index <= confirmed[k]
       /\ serving[c].at = "running" => Covered(c, serving[c].sent)
       /\ serving[c].at = "paused" => Covered(c, serving[c].sent - 1)

IInv == TypeOK /\ FlowInv /\ \A c \in Call : AheadInv(c)

-----------------------------------------------------------------------------
(* Lengths and elements of a queue that has been appended to or advanced.   *)
LEMMA QueueSteps ==
  ASSUME NEW q \in Seq(Block)
  PROVE  /\ Len(q) \in Nat /\ (q = <<>> <=> Len(q) = 0)
         /\ \A i \in 1 .. Len(q) : q[i] \in Block
         /\ \A b \in Block : /\ Len(Append(q, b)) = Len(q) + 1
                             /\ Append(q, b) # <<>>
                             /\ \A i \in 1 .. Len(q) : Append(q, b)[i] = q[i]
                             /\ Append(q, b)[Len(q) + 1] = b
         /\ q # <<>> => /\ Len(Tail(q)) = Len(q) - 1
                        /\ Head(q) = q[1] /\ Head(q) \in Block
                        /\ \A i \in 1 .. Len(q) - 1 : Tail(q)[i] = q[i + 1]
<1>1. Len(q) \in Nat /\ (q = <<>> <=> Len(q) = 0)
  BY LenProperties, EmptySeq
<1>2. \A i \in 1 .. Len(q) : q[i] \in Block
  BY LenProperties, ElementOfSeq
<1>3. ASSUME NEW b \in Block
      PROVE  /\ Len(Append(q, b)) = Len(q) + 1 /\ Append(q, b) # <<>>
             /\ \A i \in 1 .. Len(q) : Append(q, b)[i] = q[i]
             /\ Append(q, b)[Len(q) + 1] = b
  BY AppendProperties
<1>4. ASSUME q # <<>>
      PROVE  /\ Len(Tail(q)) = Len(q) - 1 /\ Head(q) = q[1] /\ Head(q) \in Block
             /\ \A i \in 1 .. Len(q) - 1 : Tail(q)[i] = q[i + 1]
  BY <1>4, <1>1, HeadTailProperties
<1> QED BY <1>1, <1>2, <1>3, <1>4

(* The types of what the invariants of a call are about.                    *)
LEMMA CallTypes ==
  ASSUME TypeOK, NEW c \in Call
  PROVE  /\ offerOf[c] \in Offer /\ call[c] \in Step
         /\ serving[c].at \in Stage /\ serving[c].sent \in 0 .. Last
         /\ wire[c] \in Seq(Block) /\ update[c] \in Seq(Block)
         /\ confirmed[c] \in 0 .. Last /\ confirmed[c] \in Nat
         /\ serving[c].sent \in Nat /\ Last \in Nat
         /\ cache \subseteq Block
<1>1. /\ serving[c].at \in Stage /\ serving[c].sent \in 0 .. Last /\ confirmed[c] \in 0 .. Last
  BY DEF TypeOK
<1> QED BY <1>1, Lengths DEF TypeOK

Same(d) == /\ call'[d] = call[d] /\ serving'[d] = serving[d]
           /\ wire'[d] = wire[d] /\ update'[d] = update[d]
           /\ confirmed'[d] = confirmed[d] /\ offerOf' = offerOf

(* A call that a step leaves alone keeps its invariant, unless the cache    *)
(* is cleaned.                                                              *)
LEMMA Untouched ==
  ASSUME TypeOK', NEW d \in Call, Same(d), cache \subseteq cache',
         StartInv(d), WireInv(d), UpdateInv(d)
  PROVE  StartInv(d)' /\ WireInv(d)' /\ UpdateInv(d)'
<1>1. cache' \subseteq Block
  BY DEF TypeOK
<1>2. Gone(d)' = Gone(d)
  BY DEF Gone, Same
<1>3. StartInv(d)'
  BY DEF Same, StartInv, Priced
<1>4. WireInv(d)'
  BY <1>1, <1>2 DEF Same, WireInv
<1>5. UpdateInv(d)'
  BY DEF Same, UpdateInv, Priced
<1> QED BY <1>3, <1>4, <1>5

(* The payer ends a request.                                                *)
LEMMA GivingUpFlow ==
  ASSUME TypeOK, TypeOK', NEW c \in Call, StartInv(c), GiveUp(c),
         call[c] \in {"open", "paying"}, UNCHANGED <<offerOf, confirmed>>
  PROVE  /\ StartInv(c)' /\ WireInv(c)' /\ UpdateInv(c)'
         /\ \A d \in Call \ {c} : Same(d)
         /\ serving'[c].at \notin Served
<1>a. /\ call' = [call EXCEPT ![c] = "failed"] /\ wire' = [wire EXCEPT ![c] = <<>>]
      /\ serving[c].at \in Served \cup {"asked"} => serving'[c].at = "ending"
      /\ serving[c].at \notin Served \cup {"asked"} => serving'[c].at = serving[c].at
      /\ serving[c].at \in Served \cup {"asked"} => serving'[c].sent = 0
      /\ serving[c].at \notin Served \cup {"asked"} => serving'[c].sent = serving[c].sent
      /\ \A d \in Call \ {c} : serving'[d] = serving[d] /\ update'[d] = update[d]
  BY GivingUp
<1>b. serving[c].at \notin Served \cup {"asked"} => UNCHANGED <<serving, update>>
  BY DEF GiveUp
<1>c. call'[c] = "failed" /\ wire'[c] = <<>>
  BY <1>a DEF TypeOK
<1>1. /\ call'[c] = "failed" /\ wire'[c] = <<>>
      /\ serving'[c].at \notin Served \cup {"asked"}
      /\ serving'[c].at = "none" => serving[c].at = "none" /\ UNCHANGED <<serving, update>>
      /\ serving'[c].sent = 0
  <2>1. CASE serving[c].at \in Served \cup {"asked"}
    BY <1>a, <1>c, <2>1 DEF Served
  <2>2. CASE serving[c].at \notin Served \cup {"asked"}
    BY <1>a, <1>b, <1>c, <2>2 DEF StartInv
  <2> QED BY <2>1, <2>2
<1>2. StartInv(c)'
  BY <1>1 DEF StartInv
<1>3. WireInv(c)'
  BY <1>1 DEF WireInv
<1>4. UpdateInv(c)'
  BY <1>1 DEF UpdateInv, Served
<1>5. \A d \in Call \ {c} : Same(d)
  BY <1>a DEF Same, TypeOK
<1> QED BY <1>1, <1>2, <1>3, <1>4, <1>5

(* A request goes out: nothing of it has been sent or paid.                 *)
LEMMA RequestFlow ==
  ASSUME TypeOK, TypeOK', NEW c \in Call, StartInv(c), Request(c)
  PROVE  StartInv(c)' /\ WireInv(c)' /\ UpdateInv(c)'
<1>1. /\ call[c] = "connecting" /\ call'[c] = "open" /\ serving'[c].at = "asked"
      /\ serving'[c].sent = serving[c].sent
      /\ wire' = wire /\ update' = update /\ confirmed' = confirmed
  BY DEF Request, Go, TypeOK, network
<1>2. serving[c].at = "none" /\ serving[c].sent = 0
      /\ wire[c] = <<>> /\ update[c] = <<>> /\ confirmed[c] = 0
  BY <1>1 DEF StartInv, Served
<1>3. StartInv(c)'
  BY <1>1, <1>2 DEF StartInv, Served
<1>4. WireInv(c)'
  BY <1>1 DEF WireInv, Served
<1>5. UpdateInv(c)'
  BY <1>1 DEF UpdateInv, Served
<1> QED BY <1>3, <1>4, <1>5

(* Sums, with a block moved from one term to the next.                  *)
LEMMA Sums == \A x, y, z \in Int : /\ x - y + (z + 1) = x - (y - 1) + z
                                   /\ x + (y + 1) + (z - 1) = x + y + z
                                   /\ (x + 1) + (y - 1) + z = x + y + z
                                   /\ x + (y + 1) = (x + 1) + y
OBVIOUS

(* The first block under way reaches the cache and leaves the queue, and if *)
(* its offer is priced a message for it is sent.                            *)
LEMMA DeliveredFlow ==
  ASSUME TypeOK, TypeOK', NEW c \in Call, StartInv(c), WireInv(c), UpdateInv(c),
         call[c] \in {"open", "paying"}, call'[c] = "open", wire[c] # <<>>,
         wire' = [wire EXCEPT ![c] = Tail(@)],
         update' = [update EXCEPT ![c] = IF Priced(offerOf[c]) THEN Append(@, Head(wire[c])) ELSE @],
         cache' = cache \cup {Head(wire[c])},
         UNCHANGED <<offerOf, serving, confirmed>>
  PROVE  StartInv(c)' /\ WireInv(c)' /\ UpdateInv(c)'
<1> DEFINE w == wire[c]
           n == Len(w)
           u == update[c]
           b == Head(w)
           w1 == Tail(w)
           u1 == Append(u, b)
<1>1. w \in Seq(Block) /\ u \in Seq(Block) /\ w # <<>>
      /\ confirmed[c] \in Nat /\ serving[c].sent \in Nat /\ Last \in Nat
  BY CallTypes
<1>2. /\ n \in Nat /\ n > 0 /\ n = Len(w) /\ Len(w1) = n - 1 /\ b = w[1] /\ b \in Block
      /\ \A i \in 1 .. n - 1 : w1[i] = w[i + 1]
      /\ \A i \in 1 .. n : w[i] \in Block
  BY <1>1, QueueSteps
<1>3. /\ Len(u) \in Nat /\ Len(u1) = Len(u) + 1 /\ u1 # <<>>
      /\ \A i \in 1 .. Len(u) : u1[i] = u[i]
      /\ u1[Len(u) + 1] = b
  BY <1>1, <1>2, QueueSteps
<1>4. /\ wire'[c] = w1
      /\ update'[c] = IF Priced(offerOf[c]) THEN u1 ELSE u
      /\ Gone(c)' = Gone(c) /\ Gone(c) \in Nat
      /\ Priced(offerOf[c])' = Priced(offerOf[c])
  BY <1>1 DEF TypeOK, Gone, Priced
<1> HIDE DEF w, n, u, b, w1, u1
<1>5. StartInv(c)'
  <2>1. serving[c].at \notin {"none", "asked"}
    BY <1>1 DEF StartInv, w
  <2> QED BY <2>1 DEF StartInv
<1>6. WireInv(c)'
  <2>1. SUFFICES ASSUME serving[c].at \in Served \cup {"completing", "completed"}
                 PROVE  /\ Len(wire'[c]) <= Gone(c)
                        /\ \A i \in 1 .. Len(wire'[c]) : wire'[c][i] = Gone(c) - Len(wire'[c]) + i
                        /\ 1 .. (Gone(c) - Len(wire'[c])) \subseteq cache'
    BY <1>4 DEF WireInv
  <2>2. /\ n <= Gone(c) /\ 1 .. (Gone(c) - n) \subseteq cache
        /\ \A i \in 1 .. n : w[i] = Gone(c) - n + i
    BY <2>1 DEF WireInv, w, n
  <2>3. Len(wire'[c]) = n - 1 /\ n - 1 <= Gone(c)
    BY <1>2, <1>4, <2>2
  <2>4. ASSUME NEW i \in 1 .. n - 1
        PROVE  wire'[c][i] = Gone(c) - (n - 1) + i
    <3>1. i + 1 \in 1 .. n /\ w1[i] = w[i + 1]
      BY <1>2, <2>4
    <3>2. w[i + 1] = Gone(c) - n + (i + 1)
      BY <2>2, <3>1
    <3>3. wire'[c][i] = w[i + 1]
      BY <1>4, <3>1
    <3>4. Gone(c) - n + (i + 1) = Gone(c) - (n - 1) + i
      BY <1>2, <1>4, Sums
    <3> QED BY <3>2, <3>3, <3>4
  <2>5. b = Gone(c) - n + 1
    BY <1>2, <2>2, <1>4
  <2>6. 1 .. (Gone(c) - (n - 1)) \subseteq cache'
    <3>1. \A j \in 1 .. (Gone(c) - (n - 1)) : j \in 1 .. (Gone(c) - n) \/ j = b
      BY <1>2, <1>4, <2>2, <2>5
    <3> QED BY <2>2, <3>1 DEF b, w
  <2> QED BY <2>3, <2>4, <2>6
<1>7. UpdateInv(c)'
  <2>1. ASSUME Priced(offerOf[c]), serving[c].at \in Served
        PROVE  /\ confirmed[c] + Len(update'[c]) + Len(wire'[c]) = serving[c].sent
               /\ \A i \in 1 .. Len(update'[c]) : update'[c][i] = confirmed[c] + i
    <3>1. /\ confirmed[c] + Len(u) + n = serving[c].sent
          /\ \A i \in 1 .. Len(u) : u[i] = confirmed[c] + i
      BY <2>1 DEF UpdateInv, u, n, w
    <3>2. b = serving[c].sent - n + 1
      <4>1. w[1] = Gone(c) - n + 1 /\ Gone(c) = serving[c].sent
        BY <1>2, <2>1 DEF WireInv, Gone, w, n
      <4> QED BY <1>2, <4>1
    <3>3. update'[c] = u1 /\ wire'[c] = w1
      BY <1>4, <2>1
    <3>4. confirmed[c] + Len(update'[c]) + Len(wire'[c]) = serving[c].sent
      <4>1. Len(update'[c]) = Len(u) + 1 /\ Len(wire'[c]) = n - 1
        BY <1>2, <1>3, <3>3
      <4>2. confirmed[c] + (Len(u) + 1) + (n - 1) = confirmed[c] + Len(u) + n
        <5>1. confirmed[c] \in Int /\ Len(u) \in Int /\ n \in Int
          BY <1>1, <1>2, <1>3
        <5> QED BY <5>1, Sums
      <4> QED BY <3>1, <4>1, <4>2
    <3>5. ASSUME NEW i \in 1 .. Len(u) + 1
          PROVE  u1[i] = confirmed[c] + i
      <4>1. CASE i \in 1 .. Len(u)
        BY <1>3, <3>1, <4>1
      <4>2. CASE i = Len(u) + 1
        <5>1. u1[i] = b
          BY <1>3, <4>2
        <5>2. b = (confirmed[c] + Len(u) + n) - n + 1
          BY <3>1, <3>2
        <5> QED BY <1>1, <1>2, <1>3, <4>2, <5>1, <5>2
      <4> QED BY <1>3, <4>1, <4>2
    <3> QED BY <1>3, <3>3, <3>4, <3>5
  <2>2. ASSUME serving[c].at = "paused"
        PROVE  Priced(offerOf[c]) /\ update'[c] # <<>>
    BY <1>3, <1>4, <2>2 DEF UpdateInv
  <2> QED BY <1>4, <2>1, <2>2 DEF UpdateInv
<1> QED BY <1>5, <1>6, <1>7

(* Every step of a call of Retrieve keeps what is known of its blocks.      *)
LEMMA PayerFlow ==
  ASSUME TypeOK, TypeOK', FlowInv, NEW c \in Call, PayerStep(c)
  PROVE  FlowInv'
<1> USE DEF Go, payer, network, provider, received
<1>0. \A d \in Call : StartInv(d) /\ WireInv(d) /\ UpdateInv(d)
  BY DEF FlowInv
<1>a. ASSUME \A d \in Call \ {c} : Same(d), cache \subseteq cache',
             StartInv(c)' /\ WireInv(c)' /\ UpdateInv(c)'
      PROVE  FlowInv'
  <2>1. \A d \in Call \ {c} : StartInv(d)' /\ WireInv(d)' /\ UpdateInv(d)'
    BY <1>0, <1>a, Untouched
  <2> QED BY <1>a, <2>1 DEF FlowInv
<1>b. ASSUME NEW step \in {"starting", "connecting", "failed"},
             call[c] \in {"idle", "starting", "connecting"}, call' = [call EXCEPT ![c] = step],
             UNCHANGED <<offerOf, cache, serving, wire, update, confirmed>>
      PROVE  FlowInv'
  <2>1. serving[c].at = "none" /\ call'[c] = step
    BY <1>0, <1>b DEF StartInv, TypeOK
  <2>2. StartInv(c)'
    BY <1>0, <1>b, <2>1 DEF StartInv, Served
  <2>3. WireInv(c)'
    BY <1>b, <2>1 DEF WireInv, Served
  <2>4. UpdateInv(c)'
    BY <1>b, <2>1 DEF UpdateInv, Served
  <2>5. \A d \in Call \ {c} : Same(d)
    BY <1>b DEF Same, TypeOK
  <2> QED BY <1>a, <1>b, <2>2, <2>3, <2>4, <2>5
<1>c. ASSUME GiveUp(c), call[c] \in {"open", "paying"}, cache \subseteq cache',
             UNCHANGED <<offerOf, confirmed>>
      PROVE  FlowInv'
  BY <1>0, <1>a, <1>c, GivingUpFlow
<1>1. CASE Resume(c)
  BY <1>1, <1>b DEF Resume
<1>2. CASE Look(c)
  BY <1>2, <1>b DEF Look
<1>3. CASE Start(c)
  BY <1>3, <1>b DEF Start
<1>4. CASE Refused(c)
  BY <1>4, <1>b DEF Refused
<1>5. CASE Request(c)
  <2>1. \A d \in Call \ {c} : Same(d)
    BY <1>5 DEF Request, Same, TypeOK
  <2>2. StartInv(c)' /\ WireInv(c)' /\ UpdateInv(c)'
    BY <1>0, <1>5, RequestFlow
  <2>3. cache' = cache
    BY <1>5 DEF Request
  <2> QED BY <1>a, <2>1, <2>2, <2>3
<1>6. CASE Receive(c)
  <2> DEFINE b == Head(wire[c])
             o == offerOf[c]
  <2>1. /\ call[c] = "open" /\ wire[c] # <<>> /\ cache' = cache \cup {b}
        /\ UNCHANGED <<offerOf, confirmed>>
    BY <1>6 DEF Receive
  <2>2. CASE GiveUp(c)
    BY <1>c, <2>1, <2>2
  <2>3. CASE call' = [call EXCEPT ![c] = "paying"] /\ UNCHANGED <<known, network, serving>>
    <3>1. \A d \in Call \ {c} : Same(d)
      BY <2>1, <2>3 DEF Same, TypeOK
    <3>2. call'[c] = "paying" /\ Gone(c)' = Gone(c)
      BY <2>3 DEF TypeOK, Gone
    <3>3. StartInv(c)'
      <4>1. Priced(o) => Priced(o)'
        BY <2>1 DEF Priced
      <4>2. Price(o, b) > 0 => Priced(o)
        <5>1. wire[c] \in Seq(Block) /\ wire[c] # <<>> /\ o \in Offer
          BY <2>1, CallTypes
        <5>2. b \in Block
          BY <5>1, QueueSteps
        <5> QED BY <5>1, <5>2, Lengths
      <4>3. Price(o, b) > 0
        BY <1>6, <2>1, <2>3, <3>2 DEF Receive, GiveUp
      <4> QED BY <1>0, <2>1, <2>3, <3>2, <4>1, <4>2, <4>3 DEF StartInv
    <3>4. WireInv(c)'
      BY <1>0, <2>1, <2>3, <3>2 DEF WireInv
    <3>5. UpdateInv(c)'
      BY <1>0, <2>1, <2>3, <3>2 DEF UpdateInv, Priced
    <3> QED BY <1>a, <2>1, <3>1, <3>3, <3>4, <3>5
  <2>4. CASE /\ wire' = [wire EXCEPT ![c] = Tail(@)]
             /\ update' = [update EXCEPT ![c] = IF Priced(o) THEN Append(@, b) ELSE @]
             /\ UNCHANGED <<call, known, serving>>
    <3>1. \A d \in Call \ {c} : Same(d)
      BY <2>1, <2>4 DEF Same, TypeOK
    <3>2. StartInv(c)' /\ WireInv(c)' /\ UpdateInv(c)'
      BY <1>0, <2>1, <2>4, DeliveredFlow
    <3> QED BY <1>a, <2>1, <3>1, <3>2
  <2> QED BY <1>6, <2>2, <2>3, <2>4 DEF Receive
<1>7. CASE Pay(c)
  <2> DEFINE b == Head(wire[c])
  <2>1. /\ call[c] = "paying" /\ wire[c] # <<>> /\ call'[c] = "open"
        /\ b \in cache /\ Priced(offerOf[c])
        /\ UNCHANGED <<offerOf, cache, serving, confirmed>>
    BY <1>0, <1>7 DEF Pay, StartInv, TypeOK
  <2>2. /\ wire' = [wire EXCEPT ![c] = Tail(@)]
        /\ update' = [update EXCEPT ![c] = IF Priced(offerOf[c]) THEN Append(@, b) ELSE @]
        /\ cache' = cache \cup {b}
    BY <1>7, <2>1 DEF Pay, TypeOK
  <2>3. \A d \in Call \ {c} : Same(d)
    BY <1>7 DEF Pay, Same, TypeOK
  <2>4. StartInv(c)' /\ WireInv(c)' /\ UpdateInv(c)'
    BY <1>0, <2>1, <2>2, DeliveredFlow
  <2> QED BY <1>a, <2>1, <2>3, <2>4
<1>8. CASE PayFails(c)
  BY <1>8, <1>c DEF PayFails
<1>9. CASE Broken(c)
  BY <1>9, <1>c DEF Broken
<1>10. CASE Cancel(c)
  BY <1>10, <1>c DEF Cancel
<1>11. CASE Completed(c)
  <2>1. /\ call[c] = "open" /\ serving[c].at \in {"completing", "completed"} /\ wire[c] = <<>>
        /\ call'[c] = "saving"
        /\ UNCHANGED <<offerOf, cache, serving, wire, update, confirmed>>
    BY <1>11 DEF Completed, TypeOK
  <2>2. cache = Block
    <3>1. Gone(c) = Last /\ Len(wire[c]) = 0 /\ Last \in Nat
      BY <2>1, CallTypes, QueueSteps DEF Gone, Served
    <3>2. 1 .. (Gone(c) - Len(wire[c])) \subseteq cache /\ cache \subseteq Block
      BY <1>0, <2>1, CallTypes DEF WireInv
    <3>3. Gone(c) - Len(wire[c]) = Last
      BY <3>1
    <3> QED BY <3>2, <3>3 DEF Block
  <2>3. StartInv(c)'
    BY <1>0, <2>1 DEF StartInv, Served
  <2>4. WireInv(c)'
    BY <2>1, <2>2 DEF WireInv
  <2>5. UpdateInv(c)'
    BY <2>1 DEF UpdateInv, Served
  <2>6. \A d \in Call \ {c} : Same(d)
    BY <1>11 DEF Completed, Same, TypeOK
  <2> QED BY <1>a, <2>1, <2>3, <2>4, <2>5, <2>6
<1>12. CASE Save(c)
  <2>1. /\ call[c] = "saving" /\ call'[c] = "saved"
        /\ UNCHANGED <<offerOf, cache, serving, wire, update, confirmed>>
    BY <1>12 DEF Save, TypeOK
  <2>2. serving[c].at \notin Served \cup {"asked"}
    BY <1>0, <2>1 DEF StartInv
  <2>3. StartInv(c)'
    BY <1>0, <2>1, <2>2 DEF StartInv
  <2>4. WireInv(c)'
    BY <2>1 DEF WireInv
  <2>5. UpdateInv(c)'
    BY <2>1, <2>2 DEF UpdateInv, Served
  <2>6. \A d \in Call \ {c} : Same(d)
    BY <1>12 DEF Save, Same, TypeOK
  <2> QED BY <1>a, <2>1, <2>3, <2>4, <2>5, <2>6
<1> QED BY <1>1, <1>2, <1>3, <1>4, <1>5, <1>6, <1>7, <1>8, <1>9, <1>10, <1>11, <1>12 DEF PayerStep

(* A request ends at the provider, or nears its end there.                  *)
LEMMA EndingFlow ==
  ASSUME TypeOK, NEW c \in Call, StartInv(c), WireInv(c),
         NEW step \in {"ending", "over", "completing", "completed"}, Serve(c, step),
         serving[c].at # "none",
         step \in {"completing", "completed"} =>
            Gone(c) = Last /\ serving[c].at \in Served \cup {"completing"},
         UNCHANGED <<offerOf, call, cache, wire, confirmed>>
  PROVE  /\ StartInv(c)' /\ WireInv(c)' /\ UpdateInv(c)'
         /\ \A d \in Call \ {c} : Same(d)
         /\ serving'[c].at \notin Served
<1>1. step \in Stage /\ step \notin Served
  BY DEF Stage, Served
<1>2. /\ serving'[c].at = step /\ serving'[c].sent = 0
      /\ \A d \in Call \ {c} : serving'[d] = serving[d] /\ update'[d] = update[d]
  BY <1>1, Serving
<1>3. StartInv(c)'
  BY <1>1, <1>2 DEF StartInv
<1>4. Gone(c)' = Last
  BY <1>1, <1>2 DEF Gone
<1>5. WireInv(c)'
  BY <1>1, <1>2, <1>4 DEF WireInv
<1>6. UpdateInv(c)'
  BY <1>1, <1>2 DEF UpdateInv, Served
<1> QED BY <1>1, <1>2, <1>3, <1>5, <1>6 DEF Same

(* A block goes out behind those on their way.                              *)
LEMMA SentFlow ==
  ASSUME TypeOK, NEW c \in Call, StartInv(c), WireInv(c), UpdateInv(c),
         serving[c].at = "running", serving[c].sent < Last,
         wire' = [wire EXCEPT ![c] = Append(@, serving[c].sent + 1)],
         serving'[c].sent = serving[c].sent + 1,
         \/ serving'[c].at = "running"
         \/ serving'[c].at = "paused" /\ Priced(offerOf[c]),
         UNCHANGED <<offerOf, call, cache, update, confirmed>>
  PROVE  StartInv(c)' /\ WireInv(c)' /\ UpdateInv(c)'
<1> DEFINE w == wire[c]
           s == serving[c].sent
           w1 == Append(w, s + 1)
           n == Len(w)
<1>1. /\ w \in Seq(Block) /\ s \in Nat /\ s + 1 \in Block
      /\ confirmed[c] \in Nat /\ update[c] \in Seq(Block)
  BY CallTypes DEF Block
<1>2. /\ n \in Nat /\ n = Len(w) /\ (w = <<>> <=> n = 0)
      /\ Len(w1) = n + 1 /\ w1 # <<>>
      /\ \A i \in 1 .. n : w1[i] = w[i]
      /\ w1[n + 1] = s + 1
  BY <1>1, QueueSteps
<1>3. wire'[c] = w1 /\ serving'[c].sent = s + 1
  BY DEF TypeOK
<1>4. w # <<>> => Head(w) = w[1] /\ Head(w1) = w1[1]
  <2>1. w1 \in Seq(Block)
    BY <1>1, AppendProperties
  <2> QED BY <1>1, <1>2, <2>1, QueueSteps
<1>5. Gone(c) = s /\ Gone(c)' = s + 1 /\ call[c] \in {"open", "paying"}
  BY DEF Gone, Served, StartInv
<1>6. /\ n <= s /\ 1 .. (s - n) \subseteq cache
      /\ \A i \in 1 .. n : w[i] = s - n + i
  BY <1>5 DEF WireInv, Served
<1>7. Len(update[c]) \in Nat
  BY <1>1, QueueSteps
<1> HIDE DEF w, s, w1, n
<1>8. StartInv(c)'
  <2>1. call[c] = "paying" => w # <<>> /\ Head(w1) = Head(w)
    BY <1>2, <1>4 DEF StartInv, w
  <2>2. /\ call[c] \notin {"idle", "starting", "connecting"}
        /\ serving'[c].at \in Served
    BY <1>5 DEF Served
  <2>3. serving'[c].at \notin {"none", "asked"}
    BY <2>2 DEF Served
  <2>4. call'[c] = "paying" => wire'[c] # <<>> /\ Head(wire'[c]) \in cache' /\ Priced(offerOf[c])'
    BY <1>2, <1>3, <2>1 DEF StartInv, w, Priced
  <2> QED BY <1>5, <2>2, <2>3, <2>4 DEF StartInv
<1>9. WireInv(c)'
  <2>1. Len(wire'[c]) = n + 1 /\ n + 1 <= s + 1 /\ (s + 1) - (n + 1) = s - n
    BY <1>1, <1>2, <1>3, <1>6
  <2>2. ASSUME NEW i \in 1 .. n + 1
        PROVE  wire'[c][i] = (s + 1) - (n + 1) + i
    <3>1. CASE i \in 1 .. n
      <4>1. wire'[c][i] = s - n + i
        BY <1>2, <1>3, <1>6, <3>1
      <4> QED BY <2>1, <4>1
    <3>2. CASE i = n + 1
      <4>1. wire'[c][i] = s + 1
        BY <1>2, <1>3, <3>2
      <4>2. s - n + (n + 1) = s + 1
        BY <1>1, <1>2
      <4> QED BY <2>1, <3>2, <4>1, <4>2
    <3>3. i \in 1 .. n \/ i = n + 1
      BY <1>2
    <3> QED BY <3>1, <3>2, <3>3
  <2>3. call'[c] # "saving"
    BY <1>5
  <2> QED BY <1>5, <1>6, <2>1, <2>2, <2>3 DEF WireInv
<1>10. UpdateInv(c)'
  <2>1. wire'[c] # <<>>
    BY <1>2, <1>3
  <2>2. ASSUME Priced(offerOf[c])
        PROVE  /\ confirmed[c] + Len(update[c]) + Len(wire'[c]) = s + 1
               /\ \A i \in 1 .. Len(update[c]) : update[c][i] = confirmed[c] + i
    <3>1. /\ confirmed[c] + Len(update[c]) + n = s
          /\ \A i \in 1 .. Len(update[c]) : update[c][i] = confirmed[c] + i
      BY <2>2 DEF UpdateInv, Served, n, w, s
    <3>2. Len(wire'[c]) = n + 1
      BY <1>2, <1>3
    <3> QED BY <1>1, <1>2, <1>7, <3>1, <3>2
  <2>3. Priced(offerOf[c])' <=> Priced(offerOf[c])
    BY DEF Priced
  <2> QED BY <1>3, <2>1, <2>2, <2>3 DEF UpdateInv
<1> QED BY <1>8, <1>9, <1>10

(* A message arrives: the block it confirms is the next one.                *)
LEMMA ConfirmFlow ==
  ASSUME TypeOK, NEW c \in Call, StartInv(c), WireInv(c), UpdateInv(c),
         serving[c].at \in Served, update[c] # <<>>, Confirm(c, Head(update[c])),
         UNCHANGED <<offerOf, call, cache, wire>>
  PROVE  /\ StartInv(c)' /\ WireInv(c)' /\ UpdateInv(c)'
         /\ \A d \in Call \ {c} : Same(d)
         /\ serving'[c].at = "running" /\ serving'[c].sent = serving[c].sent
         /\ Priced(offerOf[c]) => confirmed'[c] = confirmed[c] + 1
         /\ confirmed'[c] = Head(update[c])
<1> DEFINE u == update[c]
           u1 == Tail(u)
           n == Len(u)
           b == Head(u)
<1>1. /\ u \in Seq(Block) /\ wire[c] \in Seq(Block)
      /\ confirmed[c] \in Nat /\ serving[c].sent \in Nat
  BY CallTypes
<1>2. /\ n \in Nat /\ n > 0 /\ n = Len(u) /\ Len(u1) = n - 1 /\ b = u[1]
      /\ \A i \in 1 .. n - 1 : u1[i] = u[i + 1]
      /\ Len(wire[c]) \in Nat
  BY <1>1, QueueSteps
<1>3. /\ update'[c] = u1 /\ confirmed'[c] = b
      /\ serving'[c].at = "running" /\ serving'[c].sent = serving[c].sent
      /\ \A d \in Call \ {c} : Same(d)
  BY DEF Confirm, TypeOK, Same
<1>4. call[c] \in {"open", "paying"}
  BY DEF StartInv
<1>5. Gone(c)' = Gone(c)
  BY <1>3 DEF Gone, Served
<1> HIDE DEF u, u1, n, b
<1>6. Priced(offerOf[c]) => b = confirmed[c] + 1
  BY <1>2 DEF UpdateInv, u, n, b
<1>7. StartInv(c)'
  BY <1>3, <1>4 DEF StartInv, Served, Priced
<1>8. WireInv(c)'
  BY <1>3, <1>4, <1>5 DEF WireInv
<1>9. UpdateInv(c)'
  <2>1. ASSUME Priced(offerOf[c])
        PROVE  /\ confirmed'[c] + Len(update'[c]) + Len(wire'[c]) = serving'[c].sent
               /\ \A i \in 1 .. Len(update'[c]) : update'[c][i] = confirmed'[c] + i
    <3>1. /\ confirmed[c] + n + Len(wire[c]) = serving[c].sent
          /\ \A i \in 1 .. n : u[i] = confirmed[c] + i
      BY <2>1 DEF UpdateInv, u, n
    <3>2. confirmed'[c] = confirmed[c] + 1 /\ Len(update'[c]) = n - 1
      BY <1>2, <1>3, <1>6, <2>1
    <3>3. (confirmed[c] + 1) + (n - 1) + Len(wire[c]) = confirmed[c] + n + Len(wire[c])
      <4>1. confirmed[c] \in Int /\ n \in Int /\ Len(wire[c]) \in Int
        BY <1>1, <1>2
      <4> QED BY <4>1, Sums
    <3>4. ASSUME NEW i \in 1 .. n - 1
          PROVE  u1[i] = (confirmed[c] + 1) + i
      <4>1. i + 1 \in 1 .. n /\ u1[i] = u[i + 1]
        BY <1>2
      <4>2. u[i + 1] = confirmed[c] + (i + 1) /\ i \in Nat
        BY <3>1, <4>1
      <4>3. confirmed[c] + (i + 1) = (confirmed[c] + 1) + i
        <5>1. confirmed[c] \in Int /\ i \in Int
          BY <1>1
        <5> QED BY <5>1, Sums
      <4> QED BY <4>1, <4>2, <4>3
    <3> QED BY <1>3, <3>1, <3>2, <3>3, <3>4
  <2>2. Priced(offerOf[c])' <=> Priced(offerOf[c])
    BY DEF Priced
  <2> QED BY <1>3, <2>1, <2>2 DEF UpdateInv
<1> QED BY <1>3, <1>6, <1>7, <1>8, <1>9 DEF b, u

(* The provider accepts a request: nothing of it has been sent yet.         *)
LEMMA AcceptFlow ==
  ASSUME TypeOK, NEW c \in Call, StartInv(c), WireInv(c), UpdateInv(c),
         serving[c].at = "asked", Serve(c, "running"),
         UNCHANGED <<offerOf, call, cache, wire, confirmed>>
  PROVE  /\ StartInv(c)' /\ WireInv(c)' /\ UpdateInv(c)'
         /\ \A d \in Call \ {c} : Same(d)
         /\ serving'[c].at = "running" /\ serving'[c].sent = 0
<1>1. /\ wire[c] = <<>> /\ update[c] = <<>> /\ confirmed[c] = 0
      /\ serving[c].sent = 0 /\ call[c] \in {"open", "paying"}
  BY DEF StartInv, Served
<1>2. /\ serving' = [serving EXCEPT ![c] = [at |-> "running", sent |-> serving[c].sent]]
      /\ update' = update
  BY DEF Serve, Served
<1>3. /\ serving'[c].at = "running" /\ serving'[c].sent = 0
      /\ \A d \in Call \ {c} : Same(d)
  BY <1>1, <1>2 DEF TypeOK, Same
<1>4. Gone(c)' = 0 /\ Len(wire[c]) = 0 /\ Len(update[c]) = 0
  BY <1>1, <1>3, CallTypes, QueueSteps DEF Gone, Served
<1>5. StartInv(c)'
  BY <1>1, <1>2, <1>3 DEF StartInv, Served
<1>6. WireInv(c)'
  BY <1>1, <1>3, <1>4 DEF WireInv
<1>7. UpdateInv(c)'
  BY <1>1, <1>2, <1>3, <1>4 DEF UpdateInv
<1> QED BY <1>3, <1>5, <1>6, <1>7

(* Every step of the provider for a request keeps what is known of it.      *)
LEMMA ProviderFlow ==
  ASSUME TypeOK, TypeOK', FlowInv, NEW c \in Call, ProviderStep(c)
  PROVE  FlowInv'
<1> USE DEF payer, network, provider, received
<1>0. StartInv(c) /\ WireInv(c) /\ UpdateInv(c)
  BY DEF FlowInv
<1>a. ASSUME \A d \in Call \ {c} : Same(d), cache' = cache,
             StartInv(c)' /\ WireInv(c)' /\ UpdateInv(c)'
      PROVE  FlowInv'
  <2>1. \A d \in Call \ {c} : StartInv(d)' /\ WireInv(d)' /\ UpdateInv(d)'
    BY <1>a, Untouched DEF FlowInv
  <2> QED BY <1>a, <2>1 DEF FlowInv
<1>b. ASSUME NEW step \in {"ending", "over"}, Serve(c, step), serving[c].at # "none",
             UNCHANGED <<offerOf, call, cache, wire, confirmed>>
      PROVE  FlowInv'
  BY <1>0, <1>a, <1>b, EndingFlow
<1>c. ASSUME NEW step \in {"completing", "completed"}, Serve(c, step), serving[c].at # "none",
             Gone(c) = Last /\ serving[c].at \in Served \cup {"completing"},
             UNCHANGED <<offerOf, call, cache, wire, confirmed>>
      PROVE  FlowInv'
  BY <1>0, <1>a, <1>c, EndingFlow
<1>1. CASE Accept(c)
  BY <1>1, <1>0, <1>a, AcceptFlow DEF Accept
<1>2. CASE Reject(c)
  BY <1>2, <1>b DEF Reject
<1>3. CASE SendBlock(c)
  <2> DEFINE b == serving[c].sent + 1
             o == offerOf[c]
  <2>1. serving[c].at = "running" /\ b <= Last /\ UNCHANGED <<payer, received, owed, confirmed>>
    BY <1>3 DEF SendBlock
  <2>2. CASE Serve(c, "ending") /\ UNCHANGED <<wire, incoming>>
    BY <1>b, <2>1, <2>2
  <2>3. CASE /\ UNCHANGED update
             /\ wire' = [wire EXCEPT ![c] = Append(@, b)]
             /\ \/ Priced(o) /\ serving' = [serving EXCEPT ![c].at = "paused", ![c].sent = b]
                \/ serving' = [serving EXCEPT ![c].sent = b]
    <3>1. \A d \in Call \ {c} : Same(d)
      BY <2>1, <2>3 DEF Same, TypeOK
    <3>2. /\ serving'[c].sent = b
          /\ serving'[c].at = "running" \/ (serving'[c].at = "paused" /\ Priced(o))
      BY <2>1, <2>3 DEF TypeOK
    <3>3. serving[c].sent < Last
      BY <2>1, CallTypes
    <3>4. StartInv(c)' /\ WireInv(c)' /\ UpdateInv(c)'
      BY <1>0, <2>1, <2>3, <3>2, <3>3, SentFlow
    <3> QED BY <1>a, <2>1, <3>1, <3>4
  <2> QED BY <1>3, <2>2, <2>3 DEF SendBlock
<1>4. CASE UpdatedRequest(c)
  <2>1. /\ serving[c].at \in Served /\ update[c] # <<>>
        /\ UNCHANGED <<offerOf, call, cache, wire>>
    BY <1>4 DEF UpdatedRequest
  <2>2. CASE Serve(c, "ending") /\ UNCHANGED confirmed
    BY <1>b, <2>1, <2>2 DEF Served
  <2>3. CASE Confirm(c, Head(update[c]))
    BY <1>0, <1>a, <2>1, <2>3, ConfirmFlow
  <2> QED BY <1>4, <2>2, <2>3 DEF UpdatedRequest
<1>5. CASE Finish(c)
  BY <1>5, <1>c DEF Finish, Gone, Served
<1>6. CASE NetworkError(c)
  BY <1>6, <1>b DEF NetworkError, Served
<1>7. CASE Failed(c)
  BY <1>7, <1>b DEF Failed
<1>8. CASE Complete(c)
  BY <1>8, <1>c DEF Complete, Gone, Served
<1> QED BY <1>1, <1>2, <1>3, <1>4, <1>5, <1>6, <1>7, <1>8 DEF ProviderStep

(* So does what either end does on its own.                                 *)
LEMMA OtherFlow ==
  ASSUME TypeOK, TypeOK', FlowInv,
         \/ CleanRetrievalCache \/ CleanOutgoingProcesses \/ CleanIncomingProcesses
         \/ CleanLook \/ CleanCredit \/ Restart
  PROVE  FlowInv'
<1> USE DEF payer, network, provider, received
<1>a. ASSUME UNCHANGED <<offerOf, call, cache, serving, wire, update, confirmed>>
      PROVE  FlowInv'
  BY <1>a, Untouched DEF FlowInv, Same
<1>1. CASE CleanRetrievalCache
  <2>1. /\ \A c \in Call : call[c] \notin {"open", "paying", "saving"}
        /\ UNCHANGED <<offerOf, call, serving, wire, update, confirmed>>
    BY <1>1 DEF CleanRetrievalCache, MayWriteCache
  <2>2. ASSUME NEW c \in Call
        PROVE  StartInv(c)' /\ WireInv(c)' /\ UpdateInv(c)'
    <3>1. StartInv(c) /\ UpdateInv(c)
      BY DEF FlowInv
    <3>2. StartInv(c)'
      BY <2>1, <3>1 DEF StartInv
    <3>3. WireInv(c)'
      BY <2>1 DEF WireInv
    <3>4. UpdateInv(c)'
      BY <2>1, <3>1 DEF UpdateInv, Priced
    <3> QED BY <3>2, <3>3, <3>4
  <2> QED BY <2>2 DEF FlowInv
<1>2. CASE CleanOutgoingProcesses
  BY <1>2, <1>a DEF CleanOutgoingProcesses
<1>3. CASE CleanIncomingProcesses
  BY <1>3, <1>a DEF CleanIncomingProcesses
<1>4. CASE CleanLook
  BY <1>4, <1>a DEF CleanLook
<1>5. CASE CleanCredit
  BY <1>5, <1>a DEF CleanCredit
<1>6. CASE Restart
  <2>1. ASSUME NEW c \in Call
        PROVE  StartInv(c)' /\ WireInv(c)' /\ UpdateInv(c)'
    <3>1. StartInv(c) /\ WireInv(c)
      BY DEF FlowInv
    <3>2. /\ serving'[c].at = IF serving[c].at \in {"none", "completed"} THEN serving[c].at ELSE "over"
          /\ serving'[c].sent = 0 /\ update'[c] = <<>>
          /\ UNCHANGED <<offerOf, call, cache, wire, confirmed>>
      BY <1>6 DEF Restart
    <3>3. serving'[c].at \notin Served \cup {"asked"}
      BY <3>2 DEF Served
    <3>4. StartInv(c)'
      BY <3>1, <3>2, <3>3 DEF StartInv, Served, Priced
    <3>5. Gone(c)' = Last /\ (serving[c].at = "completed" => Gone(c) = Last)
      BY <3>3 DEF Gone, Served
    <3>6. WireInv(c)'
      BY <3>1, <3>2, <3>3, <3>5 DEF WireInv, Served
    <3>7. UpdateInv(c)'
      BY <3>3 DEF UpdateInv, Served
    <3> QED BY <3>4, <3>6, <3>7
  <2> QED BY <2>1 DEF FlowInv
<1> QED BY <1>1, <1>2, <1>3, <1>4, <1>5, <1>6

-----------------------------------------------------------------------------
(* Every step of the specification keeps the types and the flow.            *)
LEMMA FlowStep == TypeOK /\ FlowInv /\ [Next]_vars => (TypeOK /\ FlowInv)'
<1> SUFFICES ASSUME TypeOK, FlowInv, [Next]_vars
             PROVE  TypeOK' /\ FlowInv'
  OBVIOUS
<1>1. PayingInv
  BY DEF FlowInv, StartInv, PayingInv
<1>2. CASE \E c \in Call : PayerStep(c)
  BY <1>1, <1>2, PayerTypes, PayerFlow
<1>3. CASE \E c \in Call : ProviderStep(c)
  BY <1>3, ProviderTypes, ProviderFlow
<1>4. CASE \/ CleanRetrievalCache \/ CleanOutgoingProcesses \/ CleanIncomingProcesses
           \/ CleanLook \/ CleanCredit \/ Restart
  BY <1>4, OtherTypes, OtherFlow
<1>5. CASE UNCHANGED vars
  <2>1. UNCHANGED <<offerOf, call, out, known, cache, wire, update, serving, incoming,
                    credit, doomed, owed, confirmed>>
    BY <1>5 DEF vars, payer, network, provider, received
  <2>2. TypeOK'
    BY <2>1 DEF TypeOK
  <2>3. \A c \in Call : StartInv(c)' /\ WireInv(c)' /\ UpdateInv(c)'
    BY <2>1, <2>2, Untouched DEF FlowInv, Same
  <2> QED BY <2>2, <2>3 DEF FlowInv
<1> QED BY <1>2, <1>3, <1>4, <1>5 DEF Next

(* In the beginning nothing is called, served or under way.                 *)
LEMMA FlowStart == Init => TypeOK /\ FlowInv
<1> SUFFICES ASSUME Init
             PROVE  TypeOK /\ FlowInv
  OBVIOUS
<1>1. TypeOK
  <2>1. offerOf \in [Call -> Offer] /\ call \in [Call -> Step]
    BY OffersAssumption DEF Init, Step
  <2>2. serving \in [Call -> [at : Stage, sent : 0 .. Last]]
    <3>1. "none" \in Stage /\ 0 \in 0 .. Last
      BY Lengths DEF Stage
    <3>2. serving = [c \in Call |-> [at |-> "none", sent |-> 0]]
      BY DEF Init
    <3> QED BY <3>1, <3>2
  <2>3. /\ wire \in [Call -> Seq(Block)] /\ update \in [Call -> Seq(Block)]
        /\ confirmed \in [Call -> 0 .. Last]
    BY EmptySeq, Lengths DEF Init
  <2>4. /\ out \in [Offer -> Call \cup {NoState}] /\ known \subseteq Call /\ cache \subseteq Block
    BY DEF Init
  <2>5. incoming \in [Offer -> State \cup {NoState}]
    <3>1. incoming = [o \in Offer |-> NoState]
      BY DEF Init
    <3> QED BY <3>1
  <2>6. credit \in Nat \cup {NoCredit} /\ owed \in Int
    BY DEF Init
  <2>7. doomed \in BOOLEAN
    BY DEF Init
  <2> QED BY <2>1, <2>2, <2>3, <2>4, <2>5, <2>6, <2>7 DEF TypeOK
<1>2. ASSUME NEW c \in Call
      PROVE  StartInv(c) /\ WireInv(c) /\ UpdateInv(c)
  BY <1>2 DEF Init, StartInv, WireInv, UpdateInv, Served
<1> QED BY <1>1, <1>2 DEF FlowInv

(* The model is type-correct, and of each call of Retrieve the blocks that  *)
(* have been sent are in the cache or on their way, in order, and each of   *)
(* them is confirmed to the provider or its confirmation is on its way.     *)
THEOREM FlowInvariant == Spec => [](TypeOK /\ FlowInv)
BY FlowStart, FlowStep, PTL DEF Spec

(* A payer that writes the file of a completed transfer finds all its       *)
(* blocks in the cache, for pieces of any length.                           *)
THEOREM FileIsWholeHolds == Spec => []FileIsWhole
<1>1. FlowInv => FileIsWhole
  BY DEF FlowInv, WireInv, FileIsWhole
<1> QED BY <1>1, FlowInvariant, PTL

(* The provider never waits for a payment, or a message about one, that is  *)
(* not on its way to it, nor the payer for a block: no two ends of a        *)
(* transfer wait for each other.                                            *)
THEOREM NoMutualWaitHolds == Spec => []NoMutualWait
<1>1. FlowInv => NoMutualWait
  BY DEF FlowInv, UpdateInv, NoMutualWait
<1> QED BY <1>1, FlowInvariant, PTL

-----------------------------------------------------------------------------
(* The credit of a payer: the history tells what is there.                  *)
LEMMA CreditStep == TypeOK /\ FlowInv /\ CreditIsKept /\ [Next]_vars => CreditIsKept'
<1> SUFFICES ASSUME TypeOK, FlowInv, CreditIsKept, [Next]_vars
             PROVE  CreditIsKept'
  OBVIOUS
<1> USE DEF payer, network, provider, received
<1>1. NoCredit \notin Nat /\ credit \in Nat \cup {NoCredit} /\ owed = Taken
  BY NoCreditAssumption DEF TypeOK, CreditIsKept
<1>2. ASSUME UNCHANGED <<credit, owed>>
      PROVE  CreditIsKept'
  BY <1>1, <1>2 DEF CreditIsKept, Taken
<1>3. ASSUME NEW amount \in Nat, Credited(amount)
      PROVE  CreditIsKept'
  BY <1>1, <1>3 DEF CreditIsKept, Taken, Credited
<1>4. ASSUME TakeCredit
      PROVE  CreditIsKept'
  BY <1>1, <1>4 DEF CreditIsKept, Taken, TakeCredit
<1>5. ASSUME NEW c \in Call, PayerStep(c)
      PROVE  CreditIsKept'
  <2>1. CASE Pay(c) \/ PayFails(c)
    <3>1. call[c] = "paying"
      BY <2>1 DEF Pay, PayFails
    <3>2. wire[c] # <<>> /\ wire[c] \in Seq(Block) /\ offerOf[c] \in Offer
      BY <3>1, CallTypes DEF FlowInv, StartInv
    <3>3. Price(offerOf[c], Head(wire[c])) \in Nat
      BY <3>2, QueueSteps, Lengths
    <3>4. UNCHANGED <<credit, owed>> \/ Credited(Price(offerOf[c], Head(wire[c])))
      BY <2>1 DEF Pay, PayFails
    <3> QED BY <1>2, <1>3, <3>3, <3>4
  <2>2. CASE ~(Pay(c) \/ PayFails(c))
    <3>1. UNCHANGED <<credit, owed>>
      BY <1>5, <2>2 DEF PayerStep, Resume, Look, Start, Refused, Request, Receive, Broken,
                        Cancel, Completed, Save
    <3> QED BY <1>2, <3>1
  <2> QED BY <2>1, <2>2
<1>6. ASSUME NEW c \in Call, ProviderStep(c)
      PROVE  CreditIsKept'
  <2>1. TakeCredit \/ UNCHANGED <<credit, owed>>
    BY <1>6 DEF ProviderStep, Accept, Reject, SendBlock, UpdatedRequest, Finish, NetworkError,
                Failed, Complete
  <2> QED BY <1>2, <1>4, <2>1
<1>7. CASE CleanCredit
  BY <1>1, <1>7 DEF CleanCredit, CreditIsKept, Taken
<1>8. CASE \/ CleanRetrievalCache \/ CleanOutgoingProcesses \/ CleanIncomingProcesses
           \/ CleanLook \/ Restart
  <2>1. UNCHANGED <<credit, owed>>
    BY <1>8 DEF CleanRetrievalCache, CleanOutgoingProcesses, CleanIncomingProcesses,
                CleanLook, Restart
  <2> QED BY <1>2, <2>1
<1>9. CASE UNCHANGED vars
  BY <1>2, <1>9 DEF vars
<1> QED BY <1>5, <1>6, <1>7, <1>8, <1>9 DEF Next

(* What was credited to a payer is there or has been taken, once, whatever  *)
(* the interleaving of payments, transfers and the clean routine.           *)
THEOREM CreditIsKeptHolds == Spec => []CreditIsKept
<1>1. Init => CreditIsKept
  BY NoCreditAssumption DEF Init, CreditIsKept, Taken
<1> QED BY <1>1, CreditStep, FlowInvariant, PTL DEF Spec

-----------------------------------------------------------------------------
(* A request that a step leaves alone is as far as it was, while what has   *)
(* been confirmed grows and the index of the offer stays confirmed.         *)
LEMMA AheadKept ==
  ASSUME TypeOK, TypeOK', NEW d \in Call, AheadInv(d),
         offerOf' = offerOf, serving'[d] = serving[d],
         \A k \in Call : offerOf[k] = offerOf[d] => confirmed[k] <= confirmed'[k],
         incoming'[offerOf[d]] # NoState =>
            \/ /\ incoming[offerOf[d]] # NoState
               /\ incoming'[offerOf[d]].index = incoming[offerOf[d]].index
            \/ \E k \in Call : /\ offerOf[k] = offerOf[d]
                               /\ incoming'[offerOf[d]].index <= confirmed'[k]
  PROVE  AheadInv(d)'
<1> SUFFICES ASSUME Priced(offerOf[d]), serving[d].at \in Served
             PROVE  /\ incoming'[offerOf[d]] # NoState =>
                         \E k \in Call : /\ offerOf[k] = offerOf[d]
                                         /\ incoming'[offerOf[d]].index <= confirmed'[k]
                    /\ serving[d].at = "running" => Covered(d, serving[d].sent)'
                    /\ serving[d].at = "paused" => Covered(d, serving[d].sent - 1)'
  BY DEF AheadInv, Priced, Covered
<1>1. \A k \in Call : confirmed[k] \in Nat /\ confirmed'[k] \in Nat
  BY Lengths DEF TypeOK
<1>2. serving[d].sent \in Nat
  BY CallTypes
<1>3. ASSUME NEW n \in Int, Covered(d, n)
      PROVE  Covered(d, n)'
  BY <1>1, <1>3 DEF Covered
<1>4. ASSUME incoming'[offerOf[d]] # NoState
      PROVE  \E k \in Call : /\ offerOf[k] = offerOf[d]
                             /\ incoming'[offerOf[d]].index <= confirmed'[k]
  <2>1. CASE /\ incoming[offerOf[d]] # NoState
             /\ incoming'[offerOf[d]].index = incoming[offerOf[d]].index
    <3>1. PICK k \in Call : /\ offerOf[k] = offerOf[d]
                            /\ incoming[offerOf[d]].index <= confirmed[k]
      BY <2>1 DEF AheadInv
    <3>2. incoming[offerOf[d]].index \in Nat
      BY <2>1, Kept, CallTypes, Lengths
    <3> QED BY <1>1, <2>1, <3>1, <3>2
  <2> QED BY <1>4, <2>1
<1>5. serving[d].at = "running" => Covered(d, serving[d].sent)
  BY DEF AheadInv
<1>6. serving[d].at = "paused" => Covered(d, serving[d].sent - 1)
  BY DEF AheadInv
<1>7. serving[d].sent \in Int /\ serving[d].sent - 1 \in Int
  BY <1>2
<1> QED BY <1>3, <1>4, <1>5, <1>6, <1>7

(* No step of a call of Retrieve gets a response further.                   *)
LEMMA PayerAhead ==
  ASSUME TypeOK, TypeOK', FlowInv, \A d \in Call : AheadInv(d), NEW c \in Call, PayerStep(c)
  PROVE  \A d \in Call : AheadInv(d)'
<1> USE DEF Go, payer, network, provider, received
<1>1. UNCHANGED <<offerOf, incoming, confirmed>>
  BY DEF PayerStep, Resume, Look, Start, Refused, Request, Receive, Pay, PayFails, Broken,
         Cancel, Completed, Save
<1>2. \A k \in Call : confirmed[k] <= confirmed'[k]
  BY <1>1, CallTypes
<1>3. ASSUME NEW d \in Call, serving'[d] = serving[d]
      PROVE  AheadInv(d)'
  BY <1>1, <1>2, <1>3, AheadKept
<1>4. ASSUME serving'[c].at \notin Served, \A d \in Call \ {c} : serving'[d] = serving[d]
      PROVE  \A d \in Call : AheadInv(d)'
  <2>1. AheadInv(c)'
    BY <1>4 DEF AheadInv
  <2> QED BY <1>3, <1>4, <2>1
<1>5. ASSUME UNCHANGED serving
      PROVE  \A d \in Call : AheadInv(d)'
  BY <1>3, <1>5
<1>6. ASSUME GiveUp(c), call[c] \in {"open", "paying"}
      PROVE  \A d \in Call : AheadInv(d)'
  <2>1. /\ serving'[c].at \notin Served
        /\ \A d \in Call \ {c} : Same(d)
    BY <1>1, <1>6, GivingUpFlow DEF FlowInv
  <2> QED BY <1>4, <2>1 DEF Same
<1>7. CASE Request(c)
  <2>1. serving'[c].at = "asked" /\ \A d \in Call \ {c} : serving'[d] = serving[d]
    BY <1>7 DEF Request, TypeOK
  <2> QED BY <1>4, <2>1 DEF Served
<1>8. CASE Receive(c)
  BY <1>5, <1>6, <1>8 DEF Receive
<1>9. CASE PayFails(c)
  BY <1>6, <1>9 DEF PayFails
<1>10. CASE Broken(c) \/ Cancel(c)
  BY <1>6, <1>10 DEF Broken, Cancel
<1>11. CASE Resume(c) \/ Look(c) \/ Start(c) \/ Refused(c) \/ Pay(c) \/ Completed(c) \/ Save(c)
  BY <1>5, <1>11 DEF Resume, Look, Start, Refused, Pay, Completed, Save
<1> QED BY <1>7, <1>8, <1>9, <1>10, <1>11 DEF PayerStep

(* A block that goes out unpaused has been confirmed, by this request or by *)
(* another one; one that has not been confirmed is the last before a pause. *)
LEMMA SendAhead ==
  ASSUME TypeOK, TypeOK', FlowInv, \A d \in Call : AheadInv(d), NEW c \in Call, SendBlock(c)
  PROVE  \A d \in Call : AheadInv(d)'
<1> DEFINE o == offerOf[c]
<1> PICK s \in Nat : s = serving[c].sent
  BY CallTypes
<1> USE DEF payer, received
<1>0. /\ serving[c].at = "running" /\ UNCHANGED <<offerOf, confirmed>>
      /\ s \in Nat /\ o \in Offer
      /\ \A k \in Call : confirmed[k] \in Nat
  BY CallTypes DEF SendBlock
<1>1. \A k \in Call : confirmed[k] <= confirmed'[k]
  BY <1>0
<1>2. CASE Serve(c, "ending") /\ UNCHANGED incoming
  <2>1. serving'[c].at = "ending" /\ \A d \in Call \ {c} : serving'[d] = serving[d]
    BY <1>2 DEF Serve, TypeOK
  <2>2. AheadInv(c)'
    BY <2>1 DEF AheadInv, Served
  <2>3. \A d \in Call \ {c} : AheadInv(d)'
    BY <1>0, <1>1, <1>2, <2>1, AheadKept
  <2> QED BY <2>2, <2>3
<1>3. CASE /\ incoming[o] # NoState
           /\ Priced(o) /\ s + 1 > incoming[o].index
           /\ incoming' = [incoming EXCEPT ![o].required = Price(o, s + 1)]
           /\ serving' = [serving EXCEPT ![c].at = "paused", ![c].sent = s + 1]
  <2>1. /\ serving'[c].at = "paused" /\ serving'[c].sent = s + 1
        /\ \A d \in Call \ {c} : serving'[d] = serving[d]
    BY <1>3 DEF TypeOK
  <2>2. \A p \in Offer : /\ incoming'[p] # NoState => incoming[p] # NoState
                         /\ incoming[p] # NoState => incoming'[p].index = incoming[p].index
    BY <1>0, <1>3, Kept DEF TypeOK, State
  <2>3. \A d \in Call \ {c} : AheadInv(d)'
    BY <1>0, <1>1, <2>1, <2>2, AheadKept, CallTypes
  <2>4. AheadInv(c)'
    <3>1. Covered(c, s)
      BY <1>0, <1>3 DEF AheadInv, Served
    <3>2. Covered(c, s)' /\ (s + 1) - 1 = s
      BY <1>0, <3>1 DEF Covered
    <3>3. incoming'[o] # NoState =>
             \E k \in Call : offerOf[k] = o /\ incoming'[o].index <= confirmed[k]
      BY <1>0, <1>3, <2>2 DEF AheadInv, Served
    <3> QED BY <1>0, <2>1, <3>2, <3>3 DEF AheadInv, Served, Covered
  <2> QED BY <2>3, <2>4
<1>4. CASE /\ incoming[o] # NoState
           /\ ~Priced(o) \/ s + 1 <= incoming[o].index
           /\ incoming' = incoming
           /\ serving' = [serving EXCEPT ![c].sent = s + 1]
  <2>1. /\ serving'[c].at = "running" /\ serving'[c].sent = s + 1
        /\ \A d \in Call \ {c} : serving'[d] = serving[d]
    BY <1>0, <1>4 DEF TypeOK
  <2>2. \A d \in Call \ {c} : AheadInv(d)'
    BY <1>0, <1>1, <1>4, <2>1, AheadKept
  <2>3. ASSUME Priced(o)
        PROVE  AheadInv(c)'
    <3>1. PICK k \in Call : offerOf[k] = o /\ incoming[o].index <= confirmed[k]
      BY <1>0, <1>4, <2>3 DEF AheadInv, Served
    <3>2. incoming[o].index \in Nat
      BY <1>0, <1>4, Kept, Lengths
    <3>3. s + 1 <= confirmed[k]
      BY <1>0, <1>4, <2>3, <3>1, <3>2
    <3>4. s + 1 <= confirmed[c] + confirmed[k]
      BY <1>0, <3>3
    <3>5. Covered(c, s + 1)
      BY <3>1, <3>3, <3>4 DEF Covered
    <3>6. Covered(c, s + 1)'
      BY <1>0, <3>5 DEF Covered
    <3> QED BY <1>0, <1>4, <2>1, <3>1, <3>6 DEF AheadInv, Covered
  <2>4. ~Priced(o) => AheadInv(c)'
    BY <1>0 DEF AheadInv, Priced
  <2> QED BY <2>2, <2>3, <2>4
<1> QED BY <1>2, <1>3, <1>4 DEF SendBlock

(* A message confirms the next block of its request; the other requests for *)
(* the offer may pass up to there.                                          *)
LEMMA UpdateAhead ==
  ASSUME TypeOK, TypeOK', FlowInv, \A d \in Call : AheadInv(d), NEW c \in Call,
         UpdatedRequest(c)
  PROVE  \A d \in Call : AheadInv(d)'
<1> DEFINE o == offerOf[c]
           b == Head(update[c])
<1> USE DEF payer
<1>0. /\ serving[c].at \in Served /\ update[c] # <<>>
      /\ UNCHANGED <<offerOf, call, cache, wire>>
      /\ o \in Offer /\ \A k \in Call : confirmed[k] \in Nat
  BY CallTypes DEF UpdatedRequest
<1>1. CASE Serve(c, "ending") /\ UNCHANGED <<incoming, confirmed>>
  <2>1. serving'[c].at = "ending" /\ \A d \in Call \ {c} : serving'[d] = serving[d]
    BY <1>1 DEF Serve, TypeOK
  <2>2. AheadInv(c)'
    BY <2>1 DEF AheadInv, Served
  <2>3. \A d \in Call \ {c} : AheadInv(d)'
    BY <1>0, <1>1, <2>1, AheadKept
  <2> QED BY <2>2, <2>3
<1>2. CASE incoming[o] # NoState /\ Confirm(c, b)
  <2>1. /\ \A d \in Call \ {c} : Same(d)
        /\ serving'[c].at = "running" /\ serving'[c].sent = serving[c].sent
        /\ Priced(o) => confirmed'[c] = confirmed[c] + 1
        /\ confirmed'[c] = b
    BY <1>0, <1>2, ConfirmFlow DEF FlowInv
  <2>2. b \in Nat
    <3>1. update[c] \in Seq(Block)
      BY CallTypes
    <3> QED BY <1>0, <3>1, QueueSteps DEF Block
  <2>3. /\ incoming'[o].index = b
        /\ \A p \in Offer \ {o} : incoming'[p] = incoming[p]
    BY <1>0, <1>2, Kept DEF Confirm, TypeOK, State
  <2>4. Priced(o) => \A k \in Call : confirmed[k] <= confirmed'[k]
    BY <1>0, <2>1 DEF Same
  <2>5. ASSUME NEW d \in Call \ {c}
        PROVE  AheadInv(d)'
    <3>1. CASE Priced(offerOf[d])
      <4>1. \A k \in Call : offerOf[k] = offerOf[d] => confirmed[k] <= confirmed'[k]
        BY <1>0, <2>1, <2>4, <3>1 DEF Same
      <4>2. offerOf[d] = o => incoming'[offerOf[d]].index <= confirmed'[c]
        BY <2>1, <2>2, <2>3
      <4>3. offerOf[d] \in Offer /\ serving'[d] = serving[d]
        BY <2>1, CallTypes DEF Same
      <4>4. offerOf[d] # o => incoming'[offerOf[d]] = incoming[offerOf[d]]
        BY <2>3, <4>3
      <4> QED BY <1>0, <4>1, <4>2, <4>3, <4>4, AheadKept
    <3>2. CASE ~Priced(offerOf[d])
      BY <1>0, <3>2 DEF AheadInv, Priced
    <3> QED BY <3>1, <3>2
  <2>6. ASSUME Priced(o)
        PROVE  AheadInv(c)'
    <3> PICK s \in Nat : s = serving[c].sent
      BY CallTypes
    <3>1. s \in Nat /\ (Covered(c, s) \/ Covered(c, s - 1))
      BY <1>0, <2>6, CallTypes DEF AheadInv, Served
    <3>2. /\ confirmed'[c] = confirmed[c] + 1
          /\ \A k \in Call \ {c} : confirmed'[k] = confirmed[k]
      BY <2>1, <2>6 DEF Same
    <3>3. ASSUME s <= confirmed[c] + 1
          PROVE  Covered(c, s)'
      BY <3>2, <3>3 DEF Covered
    <3>4. ASSUME NEW k \in Call \ {c}, offerOf[k] = o, s <= confirmed[c] + confirmed[k] + 1
          PROVE  Covered(c, s)'
      <4>1. s <= (confirmed[c] + 1) + confirmed[k]
        BY <1>0, <3>4
      <4> QED BY <1>0, <3>2, <3>4, <4>1 DEF Covered
    <3>5. Covered(c, s)'
      <4>1. CASE s <= confirmed[c] \/ s - 1 <= confirmed[c]
        BY <1>0, <3>3, <4>1
      <4>2. CASE \E k \in Call \ {c} : /\ offerOf[k] = o
                                       /\ \/ s <= confirmed[c] + confirmed[k]
                                          \/ s - 1 <= confirmed[c] + confirmed[k]
        <5> PICK k \in Call \ {c} : /\ offerOf[k] = o
                                    /\ \/ s <= confirmed[c] + confirmed[k]
                                       \/ s - 1 <= confirmed[c] + confirmed[k]
          BY <4>2
        <5>1. s <= confirmed[c] + confirmed[k] + 1
          BY <1>0
        <5> QED BY <3>4, <5>1
      <4> QED BY <3>1, <4>1, <4>2 DEF Covered
    <3> QED BY <1>0, <2>1, <2>2, <2>3, <3>5 DEF AheadInv, Covered
  <2>7. ~Priced(o) => AheadInv(c)'
    BY <1>0 DEF AheadInv, Priced
  <2> QED BY <2>5, <2>6, <2>7
<1> QED BY <1>1, <1>2 DEF UpdatedRequest

(* Whatever the provider does for a request, no response gets too far.      *)
LEMMA ProviderAhead ==
  ASSUME TypeOK, TypeOK', FlowInv, \A d \in Call : AheadInv(d), NEW c \in Call, ProviderStep(c)
  PROVE  \A d \in Call : AheadInv(d)'
<1> USE DEF payer, network, provider, received
<1>0. /\ offerOf[c] \in Offer /\ \A d \in Call : offerOf[d] \in Offer
      /\ \A k \in Call : confirmed[k] \in Nat
  BY CallTypes
<1>a. ASSUME UNCHANGED <<offerOf, confirmed>>, NEW d \in Call, serving'[d] = serving[d],
             \A o \in Offer : incoming'[o] # NoState =>
                \/ incoming'[o].index = 0
                \/ incoming[o] # NoState /\ incoming'[o].index = incoming[o].index
      PROVE  AheadInv(d)'
  BY <1>0, <1>a, AheadKept
<1>b. ASSUME UNCHANGED <<offerOf, confirmed>>,
             NEW step \in {"ending", "over", "completing", "completed"}, Serve(c, step),
             \A o \in Offer : incoming'[o] # NoState =>
                incoming[o] # NoState /\ incoming'[o].index = incoming[o].index
      PROVE  \A d \in Call : AheadInv(d)'
  <2>1. serving'[c].at = step /\ \A d \in Call \ {c} : serving'[d] = serving[d]
    BY <1>b DEF Serve, TypeOK
  <2>2. AheadInv(c)'
    BY <2>1 DEF AheadInv, Served
  <2>3. \A d \in Call \ {c} : AheadInv(d)'
    BY <1>a, <1>b, <2>1
  <2> QED BY <2>2, <2>3
<1>1. CASE Accept(c)
  <2>1. /\ \A d \in Call \ {c} : Same(d)
        /\ serving'[c].at = "running" /\ serving'[c].sent = 0
    BY <1>1, AcceptFlow DEF Accept, FlowInv
  <2>2. UNCHANGED <<offerOf, confirmed>>
    BY <1>1 DEF Accept
  <2>3. \A o \in Offer : incoming'[o] # NoState =>
                \/ incoming'[o].index = 0
                \/ incoming[o] # NoState /\ incoming'[o].index = incoming[o].index
    <3>1. ASSUME NEW kept \in SUBSET Offer, incoming' =
                   [InOf(kept) EXCEPT ![offerOf[c]] = [index |-> 0, required |-> 0, processed |-> TRUE]]
          PROVE  \A o \in Offer : incoming'[o] # NoState =>
                   \/ incoming'[o].index = 0
                   \/ incoming[o] # NoState /\ incoming'[o].index = incoming[o].index
      BY <1>0, <3>1 DEF InOf
    <3>2. ASSUME incoming[offerOf[c]] # NoState,
                 incoming' = [incoming EXCEPT ![offerOf[c]].processed = TRUE, ![offerOf[c]].index = 0]
          PROVE  \A o \in Offer : incoming'[o] # NoState =>
                   \/ incoming'[o].index = 0
                   \/ incoming[o] # NoState /\ incoming'[o].index = incoming[o].index
      <4>1. incoming[offerOf[c]] \in State
        BY <1>0, <3>2, Kept
      <4> QED BY <1>0, <3>2, <4>1 DEF TypeOK, State
    <3> QED BY <1>1, <3>1, <3>2 DEF Accept
  <2>4. \A d \in Call \ {c} : AheadInv(d)'
    BY <1>a, <2>1, <2>2, <2>3 DEF Same
  <2>5. AheadInv(c)'
    <3>1. incoming'[offerOf[c]].index = 0
      <4>1. CASE \E kept \in SUBSET Offer : incoming' =
                   [InOf(kept) EXCEPT ![offerOf[c]] = [index |-> 0, required |-> 0, processed |-> TRUE]]
        BY <1>0, <4>1 DEF InOf
      <4>2. CASE /\ incoming[offerOf[c]] # NoState
                 /\ incoming' = [incoming EXCEPT ![offerOf[c]].processed = TRUE, ![offerOf[c]].index = 0]
        <5>1. incoming[offerOf[c]] \in State
          BY <1>0, <4>2, Kept
        <5> QED BY <1>0, <4>2, <5>1 DEF TypeOK, State
      <4> QED BY <1>1, <4>1, <4>2 DEF Accept
    <3> QED BY <1>0, <2>1, <2>2, <3>1 DEF AheadInv, Covered
  <2> QED BY <2>4, <2>5
<1>2. CASE Reject(c)
  BY <1>2, <1>b DEF Reject
<1>3. CASE SendBlock(c)
  BY <1>3, SendAhead
<1>4. CASE UpdatedRequest(c)
  BY <1>4, UpdateAhead
<1>5. CASE Finish(c)
  BY <1>5, <1>b DEF Finish
<1>6. CASE NetworkError(c)
  BY <1>6, <1>b DEF NetworkError
<1>7. CASE Failed(c)
  <2>1. \A o \in Offer : incoming'[o] # NoState =>
                incoming[o] # NoState /\ incoming'[o].index = incoming[o].index
    BY <1>0, <1>7, Kept DEF Failed, GiveFree, TypeOK, State
  <2> QED BY <1>7, <1>b, <2>1 DEF Failed
<1>8. CASE Complete(c)
  <2>1. \A o \in Offer : incoming'[o] # NoState =>
                incoming[o] # NoState /\ incoming'[o].index = incoming[o].index
    BY <1>8 DEF Complete, InOf
  <2> QED BY <1>8, <1>b, <2>1 DEF Complete
<1> QED BY <1>1, <1>2, <1>3, <1>4, <1>5, <1>6, <1>7, <1>8 DEF ProviderStep

(* Nor does a clean-up or a restart let one get too far.                    *)
LEMMA OtherAhead ==
  ASSUME TypeOK, TypeOK', \A d \in Call : AheadInv(d),
         \/ CleanRetrievalCache \/ CleanOutgoingProcesses \/ CleanIncomingProcesses
         \/ CleanLook \/ CleanCredit \/ Restart \/ UNCHANGED vars
  PROVE  \A d \in Call : AheadInv(d)'
<1> USE DEF payer, network, provider, received
<1>1. CASE Restart
  <2>1. \A d \in Call : serving'[d].at \notin Served
    BY <1>1 DEF Restart, Served
  <2> QED BY <2>1 DEF AheadInv
<1>2. CASE ~Restart
  <2>1. UNCHANGED <<offerOf, serving, confirmed>>
    BY <1>2 DEF CleanRetrievalCache, CleanOutgoingProcesses, CleanIncomingProcesses,
                CleanLook, CleanCredit, vars
  <2>2. \A o \in Offer : incoming'[o] # NoState => incoming'[o] = incoming[o]
    BY <1>2 DEF CleanRetrievalCache, CleanOutgoingProcesses, CleanIncomingProcesses,
                CleanLook, CleanCredit, vars, InOf
  <2>3. \A k \in Call : confirmed[k] <= confirmed'[k] /\ offerOf[k] \in Offer
    BY <2>1, CallTypes
  <2> QED BY <2>1, <2>2, <2>3, AheadKept
<1> QED BY <1>1, <1>2

-----------------------------------------------------------------------------
(* The invariant as a whole: the flow of the blocks, and how far a response *)
(* may have got by what has been confirmed for its offer.                   *)
THEOREM RetrievalInvariant == Spec => []IInv
<1>1. Init => IInv
  <2>1. Init => \A c \in Call : AheadInv(c)
    BY DEF Init, AheadInv, Served
  <2> QED BY <2>1, FlowStart DEF IInv
<1>2. IInv /\ [Next]_vars => IInv'
  <2> SUFFICES ASSUME IInv, [Next]_vars
               PROVE  IInv'
    OBVIOUS
  <2>1. TypeOK' /\ FlowInv'
    BY FlowStep DEF IInv
  <2>2. \A c \in Call : AheadInv(c)'
    BY <2>1, PayerAhead, ProviderAhead, OtherAhead DEF IInv, Next
  <2> QED BY <2>1, <2>2 DEF IInv
<1> QED BY <1>1, <1>2, PTL DEF Spec

(* The provider is never more than one block ahead of what the request, and *)
(* at most one other request for the same offer, have been confirmed to     *)
(* have paid, for pieces of any length and any number of calls.             *)
THEOREM OneBlockAheadHolds == Spec => []OneBlockAhead
<1>1. IInv => OneBlockAhead
  <2> SUFFICES ASSUME IInv, NEW c \in Call, Priced(offerOf[c])
               PROVE  \/ serving[c].sent <= confirmed[c] + 1
                      \/ \E k \in Call \ {c} :
                            /\ offerOf[k] = offerOf[c]
                            /\ serving[c].sent <= confirmed[c] + confirmed[k] + 1
    BY DEF OneBlockAhead
  <2>1. /\ serving[c].sent \in Nat /\ \A k \in Call : confirmed[k] \in Nat
    BY CallTypes DEF IInv
  <2>2. CASE serving[c].at \notin Served
    <3>1. serving[c].sent = 0
      BY <2>2 DEF IInv, FlowInv, StartInv
    <3> QED BY <2>1, <3>1
  <2>3. CASE serving[c].at \in Served
    <3>1. Covered(c, serving[c].sent) \/ Covered(c, serving[c].sent - 1)
      BY <2>3 DEF IInv, AheadInv, Served
    <3>2. CASE serving[c].sent <= confirmed[c] \/ serving[c].sent - 1 <= confirmed[c]
      BY <2>1, <3>2
    <3>3. CASE \E k \in Call \ {c} :
                  /\ offerOf[k] = offerOf[c]
                  /\ \/ serving[c].sent <= confirmed[c] + confirmed[k]
                     \/ serving[c].sent - 1 <= confirmed[c] + confirmed[k]
      BY <2>1, <3>3
    <3> QED BY <3>1, <3>2, <3>3 DEF Covered
  <2> QED BY <2>2, <2>3
<1> QED BY <1>1, RetrievalInvariant, PTL
=============================================================================
