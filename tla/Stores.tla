------------------------------- MODULE Stores --------------------------------
(***************************************************************************)
(* The managers that keep tables in a store of keys, and the piece manager, *)
(* which keeps its list in a store of its own.  They never meet: a behaviour *)
(* is one of one of them, its part.                                         *)
(***************************************************************************)
EXTENDS KeyStore

CONSTANTS Currency, Peer, Paych, Piece,
          Priced,      \* the currencies pieces are sold for
          Max, Duration, Terms, Price, Addr, Proof,
          MaxRecords, Links, Importer, Retirement, User

VARIABLES part,
          left,                                   \* of the peer manager
          pieces, blocks, refs, sector, locked,   \* of the piece manager
          retiring, retirement, user, stopped        \* of the signer

(* The name of a default is nobody's; what stands for no value is none.     *)
ASSUME DefaultAssumption == "default" \notin Peer \cup Paych
ASSUME NoValueAssumption ==
    NoValue \notin Proof \cup Addr \cup Terms \cup Retirement

Reserv == INSTANCE ReservMgr
Renew == INSTANCE RenewMgr
Settle == INSTANCE SettleMgr
Pserv == INSTANCE PservMgr
Cserv == INSTANCE CservMgr WITH Currency <- Priced
Sub == INSTANCE SubStore
Mp == INSTANCE MpStore
PeerM == INSTANCE PeerMgr
Sign == INSTANCE Signer
PieceM == INSTANCE PieceMgr

keyVars == <<store, emptied, cache>>
pieceVars == <<pieces, blocks, refs, sector, locked>>
signerVars == <<retiring, retirement, user, stopped>>
vars == <<part, keyVars, left, pieceVars, signerVars>>

Init ==
    /\ \/ part = "reservmgr" /\ Reserv!Init
       \/ part = "renewmgr" /\ Renew!Init
       \/ part = "settlemgr" /\ Settle!Init
       \/ part = "pservmgr" /\ Pserv!Init
       \/ part = "cservmgr" /\ Cserv!Init
       \/ part = "substore" /\ Sub!Init
       \/ part = "mpstore" /\ Mp!Init
       \/ part = "peermgr" /\ PeerM!Init
       \/ part = "signer" /\ Sign!Init
       \/ part = "piecemgr" /\ store = New /\ emptied = {} /\ cache = {}
    /\ PieceM!Init
    /\ Sign!NothingRetires
    /\ left = {}

Next ==
    /\ \/ /\ \/ part = "reservmgr" /\ Reserv!Next
             \/ part = "renewmgr" /\ Renew!Next
             \/ part = "settlemgr" /\ Settle!Next
             \/ part = "pservmgr" /\ Pserv!Next
             \/ part = "cservmgr" /\ Cserv!Next
             \/ part = "substore" /\ Sub!Next
             \/ part = "mpstore" /\ Mp!Next
          /\ UNCHANGED <<left, pieceVars, signerVars>>
       \/ part = "peermgr" /\ PeerM!Next /\ UNCHANGED <<pieceVars, signerVars>>
       \/ part = "signer" /\ Sign!Next /\ UNCHANGED <<left, pieceVars>>
       \/ part = "piecemgr" /\ PieceM!Next /\ UNCHANGED <<keyVars, left, signerVars>>
    /\ UNCHANGED part

Spec == Init /\ [][Next]_vars

-----------------------------------------------------------------------------
(* What a manager lists and answers.                                        *)
Entries ==
    CASE part = "reservmgr" -> Reserv!Entries
      [] part = "renewmgr" -> Renew!Entries
      [] part = "settlemgr" -> Settle!Entries
      [] part = "pservmgr" -> Pserv!Entries
      [] part = "cservmgr" -> Cserv!Entries
      [] part = "substore" -> Sub!Entries
      [] part = "mpstore" -> Mp!Entries
      [] part = "peermgr" -> PeerM!Entries
      [] part = "signer" -> Sign!Entries
      [] part = "piecemgr" -> [k \in {<<p>> : p \in DOMAIN pieces} |-> pieces[k[1]]]

Promised == INSTANCE Table WITH table <- Entries

(* Every manager is a table: a call sets or removes the one entry it names. *)
(* No entry is lost to the pruning of keys that were empty a moment ago, to *)
(* a key written again above it, or to a restart, and none comes back with  *)
(* a key that is created again, except for what a failing call has left     *)
(* behind (PeerMgr).                                                        *)
ImplementsTable == Promised!Spec

(* What answers is what is listed: a policy or a price that applies can be  *)
(* found by listing, so that it can be removed, and one that is not listed  *)
(* does not apply.                                                          *)
ListedApplies ==
    /\ part = "reservmgr" => Reserv!ListedApplies
    /\ part = "renewmgr" => Renew!ListedApplies
    /\ part = "settlemgr" => Settle!ListedApplies
    /\ part = "cservmgr" => Cserv!ListedApplies

(* The channels served and the addresses known from memory are those the    *)
(* next start will find.                                                    *)
CacheIsStore ==
    /\ part = "pservmgr" => Pserv!CacheIsStore
    /\ part = "signer" => Sign!CacheIsStore

(* A use of a key reaches the routine that waits to retire it (Signer).     *)
TouchReaches == part = "signer" => Sign!TouchReaches

(* A piece that is listed can be read (PieceMgr).                           *)
PieceReadable == part = "piecemgr" => PieceM!PieceReadable
=============================================================================
