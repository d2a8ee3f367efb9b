------------------------------- MODULE MpStore -------------------------------
(***************************************************************************)
(* The proofs that a node's address belongs to a miner, one a currency      *)
(* (mpstore).                                                               *)
(***************************************************************************)
EXTENDS KeyStore

CONSTANTS Currency,
          Proof       \* the proofs that verify

Init == /\ store = New /\ emptied = {} /\ cache = {}

UpsertMinerProof(c, proof) == SetKey(proof, <<c>>)

GetMinerProof(c) == FirstOf(<<<<c>>>>)

Next ==
    /\ \E c \in Currency, proof \in Proof : UpsertMinerProof(c, proof)
    /\ UNCHANGED cache

Entries == [k \in {<<c>> : c \in {c \in Currency : GetMinerProof(c) # NoValue}} |->
              GetMinerProof(k[1])]
=============================================================================
