---------------------------- MODULE MCRetrieval ----------------------------
EXTENDS Retrieval, TLC

CONSTANTS o1, o2, c1, c2

(* Two transfers of one offer, or of two offers of the same provider.       *)
MCRequests == {c1 :> o1 @@ c2 :> o1, c1 :> o1 @@ c2 :> o2}
MCPPB == o1 :> 1 @@ o2 :> 1
MCSize == <<1, 0, 1>>
=============================================================================
