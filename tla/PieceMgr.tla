------------------------------ MODULE PieceMgr ------------------------------
(***************************************************************************)
(* The pieces a node has imported (piecemgr).  The list of the pieces, the  *)
(* store of their blocks and the store of references to blocks in sector    *)
(* files are three stores that are written one after the other, all under   *)
(* one lock.  A piece is named by its root block.                           *)
(***************************************************************************)
EXTENDS Sequences, FiniteSets

CONSTANTS Piece,
          Links,      \* the other blocks of each piece
          Importer    \* callers of ImportSector at a time

VARIABLES pieces,     \* the list: how each piece was imported,
                      \* and whether its sector was read to its end
          blocks,     \* the block store
          refs,       \* the block reference store
          sector,     \* the calls of ImportSector, each at one of its pieces
          locked      \* the write lock

Block == Piece \cup UNION {Links[p] : p \in Piece}
BlocksOf(p) == {p} \cup Links[p]

Away == [at |-> "away", piece |-> CHOOSE p \in Piece : TRUE, copy |-> TRUE]

Init == /\ pieces = <<>> /\ blocks = {} /\ refs = {}
        /\ sector = [i \in Importer |-> Away]
        /\ locked = FALSE

Listed(p) == p \in DOMAIN pieces
With(p, how) == [x \in DOMAIN pieces \cup {p} |-> IF x = p THEN how ELSE pieces[x]]

(* The blocks are put first, then the piece.  Anything may fail on the way. *)
Import(p) ==
    /\ ~locked
    /\ \/ /\ ~Listed(p)
          /\ blocks' = blocks \cup BlocksOf(p)
          /\ pieces' = With(p, "file")
       \/ /\ \E some \in SUBSET BlocksOf(p) : blocks' = blocks \cup some
          /\ UNCHANGED pieces
    /\ UNCHANGED <<refs, sector, locked>>

(* Of a CAR file every block is put but the root.                           *)
ImportCar(p) ==
    /\ ~locked /\ ~Listed(p)
    /\ \/ /\ blocks' = blocks \cup Links[p]
          /\ pieces' = With(p, "car")
       \/ /\ \E some \in SUBSET Links[p] : blocks' = blocks \cup some
          /\ UNCHANGED pieces
    /\ UNCHANGED <<refs, sector, locked>>

(* The list is read under a read lock, for the next piece of the sector.    *)
ImportSector(i, p, copy) ==
    /\ sector[i].at = "away"
    /\ ~locked /\ ~Listed(p)
    /\ sector' = [sector EXCEPT ![i] = [at |-> "waiting", piece |-> p, copy |-> copy]]
    /\ UNCHANGED <<pieces, blocks, refs, locked>>

(* The list is read again under the write lock.  If the piece has come      *)
(* meanwhile the lock is released, and the call goes on as if it had not:   *)
(* the second answer is in a variable of the inner block.                   *)
SectorAgain(i) ==
    /\ sector[i].at = "waiting" /\ ~locked
    /\ sector' = [sector EXCEPT ![i].at = "putting"]
    /\ locked' = ~Listed(sector[i].piece)
    /\ UNCHANGED <<pieces, blocks, refs>>

(* To release a lock that nobody holds is a panic, which ends the call or    *)
(* the whole program.  One that somebody else holds is simply released.     *)
Unlock(i) ==
    /\ locked' = FALSE
    /\ \/ sector' = [sector EXCEPT ![i] = Away]
       \/ ~locked /\ sector' = [j \in Importer |-> Away]

PutBlocks(bs, copy) ==
    /\ blocks' = IF copy THEN blocks \cup bs ELSE blocks
    /\ refs' = IF copy THEN refs ELSE refs \cup bs

(* Mutant: the piece is put although one of its blocks could not be.        *)
SectorPutIncomplete(i) ==
    LET p == sector[i].piece  copy == sector[i].copy IN
    /\ sector[i].at = "putting"
    /\ \E some \in SUBSET BlocksOf(p) : PutBlocks(some, copy)
    /\ pieces' = With(p, IF copy THEN "copy" ELSE "reference")
    /\ Unlock(i)

(* Every error in reading the next block is taken for the end of the piece:  *)
(* one that is cut short is listed all the same.                            *)
SectorPut(i) ==
    LET p == sector[i].piece  copy == sector[i].copy IN
    /\ sector[i].at = "putting"
    /\ \/ /\ PutBlocks(BlocksOf(p), copy)
          /\ pieces' = With(p, IF copy THEN "copy" ELSE "reference")
       \/ /\ \E some \in SUBSET BlocksOf(p) : PutBlocks(some, copy)
          /\ pieces' = With(p, "cut short")
       \/ /\ \E some \in SUBSET BlocksOf(p) : PutBlocks(some, copy)
          /\ UNCHANGED pieces
    /\ Unlock(i)

Remove(p) ==
    /\ ~locked /\ Listed(p)
    /\ pieces' = [x \in DOMAIN pieces \ {p} |-> pieces[x]]
    /\ UNCHANGED <<blocks, refs, sector, locked>>

(* A crash: what has been put stays.                                        *)
Restart ==
    /\ sector' = [i \in Importer |-> Away]
    /\ locked' = FALSE
    /\ UNCHANGED <<pieces, blocks, refs>>

Next ==
    \/ \E p \in Piece : Import(p) \/ ImportCar(p) \/ Remove(p)
    \/ \E i \in Importer :
          \/ \E p \in Piece, copy \in BOOLEAN : ImportSector(i, p, copy)
          \/ SectorAgain(i) \/ SectorPut(i)
    \/ Restart

-----------------------------------------------------------------------------
(* LinkSystem: a block is found in either store.                            *)
Found(b) == b \in blocks \cup refs

(* A piece that is listed can be read from its root down, whatever failed   *)
(* or stopped while it was imported, by whomever.  (Not one from a CAR      *)
(* file, whose root is left out, nor one the sector file has only in part.) *)
PieceReadable ==
    \A p \in DOMAIN pieces : pieces[p] \notin {"car", "cut short"} =>
        \A b \in BlocksOf(p) : Found(b)
=============================================================================
