---------------------------- MODULE StoresProofs ----------------------------
(***************************************************************************)
(* What is proved of the managers that keep tables in a store of keys, for  *)
(* any currencies, peers, channels and pieces.                              *)
(***************************************************************************)
EXTENDS Stores, WellFoundedInduction, SequenceTheorems, TLAPS

-----------------------------------------------------------------------------
(* The piece manager: neither blocks nor references ever leave their store, *)
(* so a piece that was complete when it was listed stays so.                *)
LEMMA PieceStep ==
    ASSUME PieceM!PieceReadable, [PieceM!Next]_pieceVars
    PROVE  PieceM!PieceReadable'
<1> USE DEF PieceM!PieceReadable, PieceM!Found, pieceVars
<1>0. CASE UNCHANGED pieceVars
  BY <1>0
<1>1. ASSUME NEW p \in Piece, PieceM!Import(p) PROVE PieceM!PieceReadable'
  BY <1>1 DEF PieceM!Import, PieceM!With, PieceM!Listed
<1>2. ASSUME NEW p \in Piece, PieceM!ImportCar(p) PROVE PieceM!PieceReadable'
  BY <1>2 DEF PieceM!ImportCar, PieceM!With, PieceM!Listed
<1>3. ASSUME NEW p \in Piece, PieceM!Remove(p) PROVE PieceM!PieceReadable'
  <2>1. /\ DOMAIN pieces' \subseteq DOMAIN pieces
        /\ \A x \in DOMAIN pieces' : pieces'[x] = pieces[x]
        /\ blocks' = blocks /\ refs' = refs
    <3> HIDE DEF PieceM!PieceReadable
    <3>1. /\ pieces' = [x \in DOMAIN pieces \ {p} |-> pieces[x]]
          /\ blocks' = blocks /\ refs' = refs
      BY <1>3 DEF PieceM!Remove
    <3> QED
      BY <3>1
  <2> QED
    BY <2>1
<1>4. ASSUME NEW i \in Importer, NEW p \in Piece, NEW copy \in BOOLEAN,
             PieceM!ImportSector(i, p, copy)
      PROVE  PieceM!PieceReadable'
  BY <1>4 DEF PieceM!ImportSector
<1>5. ASSUME NEW i \in Importer, PieceM!SectorAgain(i) PROVE PieceM!PieceReadable'
  BY <1>5 DEF PieceM!SectorAgain
<1>6. ASSUME NEW i \in Importer, PieceM!SectorPut(i) PROVE PieceM!PieceReadable'
  <2> DEFINE q == sector[i].piece
  <2>1. blocks \subseteq blocks' /\ refs \subseteq refs'
    BY <1>6 DEF PieceM!SectorPut, PieceM!PutBlocks
  <2>2. \A x \in DOMAIN pieces' : x # q => x \in DOMAIN pieces /\ pieces'[x] = pieces[x]
    BY <1>6 DEF PieceM!SectorPut, PieceM!With
  <2>3. \/ pieces' = pieces
        \/ pieces'[q] = "cut short"
        \/ PieceM!BlocksOf(q) \subseteq blocks' \cup refs'
    BY <1>6 DEF PieceM!SectorPut, PieceM!With, PieceM!PutBlocks
  <2> QED
    BY <2>1, <2>2, <2>3
<1>7. CASE PieceM!Restart
  BY <1>7 DEF PieceM!Restart
<1> QED
  BY <1>0, <1>1, <1>2, <1>3, <1>4, <1>5, <1>6, <1>7 DEF PieceM!Next

(* A piece that is listed can be read from its root down, whatever failed   *)
(* or stopped while it was imported (piecemgr.Import, ImportSector).        *)
THEOREM PieceReadableHolds == Spec => []PieceReadable
<1>1. Init => PieceReadable
  <2>1. Init => pieces = <<>>
    BY DEF Init, PieceM!Init
  <2>2. pieces = <<>> => DOMAIN pieces = {}
    OBVIOUS
  <2> QED
    BY <2>1, <2>2 DEF PieceReadable, PieceM!PieceReadable
<1>2. PieceReadable /\ [Next]_vars => PieceReadable'
  <2> SUFFICES ASSUME PieceReadable, [Next]_vars PROVE PieceReadable'
    OBVIOUS
  <2>1. part' = part
    BY DEF Next, vars
  <2>2. part = "piecemgr" => [PieceM!Next]_pieceVars
    BY DEF Next, vars, pieceVars
  <2> QED
    BY <2>1, <2>2, PieceStep DEF PieceReadable
<1> QED
  BY <1>1, <1>2, PTL DEF Spec

-----------------------------------------------------------------------------
(* The signer: a routine that waits to retire a key, or has not yet left    *)
(* the list, is the one listed, unless somebody has called StopRetire.      *)
ListedRoutine ==
    /\ retiring \in [Currency -> Retirement \cup {NoValue}]
    /\ DOMAIN retirement = Retirement
    /\ \A r \in Retirement :
          /\ {"at", "currency", "touched"} \subseteq DOMAIN retirement[r]
          /\ retirement[r].at # "away" => retirement[r].currency \in Currency
          /\ /\ retirement[r].at \in {"waiting", "removing", "leaving"}
             /\ retirement[r].currency \notin stopped
             => retiring[retirement[r].currency] = r

StoppersKnown ==
    /\ DOMAIN user = User
    /\ \A u \in User :
          /\ DOMAIN user[u] = {"at", "currency", "stops", "trigger"}
          /\ user[u].at \in {"idle", "sending", "deleting"}
          /\ user[u].at = "sending" => user[u].trigger \in Retirement
          /\ user[u].at = "deleting" \/ (user[u].at = "sending" /\ user[u].stops)
             => user[u].currency \in stopped

SignerInv == ListedRoutine /\ StoppersKnown

(* What a call that has sent becomes.                                       *)
LEMMA AfterSending ==
    ASSUME NEW call, DOMAIN call = {"at", "currency", "stops", "trigger"},
           call.stops => call.currency \in stopped'
    PROVE  LET after == Sign!Sent(call) IN
             /\ DOMAIN after = {"at", "currency", "stops", "trigger"}
             /\ after.at \in {"idle", "deleting"}
             /\ after.at = "deleting" => after.currency \in stopped'
<1>1. CASE call.stops
  <2>1. Sign!Sent(call) = [call EXCEPT !.at = "deleting"]
    BY <1>1 DEF Sign!Sent
  <2> QED
    BY <1>1, <2>1
<1>2. CASE ~call.stops
  BY <1>2 DEF Sign!Sent, Sign!Idle
<1> QED
  BY <1>1, <1>2

(* The routines that only move on, and leave the list as it is.             *)
LEMMA RoutineMoves ==
    ASSUME ListedRoutine, NEW r \in Retirement, NEW step,
           step \in {"removing", "leaving", "gone"},
           retirement[r].at \in {"waiting", "removing", "leaving"},
           \/ retirement' = [retirement EXCEPT ![r].at = step]
           \/ retirement' = [retirement EXCEPT ![r].at = step, ![r].touched = FALSE],
           retiring' = retiring, stopped' = stopped
    PROVE  ListedRoutine'
<1>1. \A x \in Retirement :
        /\ DOMAIN retirement'[x] = DOMAIN retirement[x]
        /\ retirement'[x].currency = retirement[x].currency
        /\ x # r => retirement'[x].at = retirement[x].at
        /\ x = r => retirement'[x].at = step
  BY DEF ListedRoutine
<1>2. DOMAIN retirement' = Retirement
  BY DEF ListedRoutine
<1> QED
  BY <1>1, <1>2 DEF ListedRoutine

(* Every step of the signer keeps it.                                       *)
LEMMA SignerStep ==
    ASSUME SignerInv, [Sign!Next]_signerVars
    PROVE  SignerInv'
<1>0. CASE UNCHANGED signerVars
  BY <1>0 DEF SignerInv, ListedRoutine, StoppersKnown, signerVars
<1>1. ASSUME NEW c \in Currency, NEW addr \in Addr, Sign!SetPrivateKey(c, addr)
      PROVE  SignerInv'
  <2>1. UNCHANGED signerVars
    BY <1>1 DEF Sign!SetPrivateKey, signerVars
  <2> QED
    BY <2>1 DEF SignerInv, ListedRoutine, StoppersKnown, signerVars
<1>2. ASSUME NEW c \in Currency, NEW r \in Retirement, Sign!RetireKey(r, c)
      PROVE  SignerInv'
  <2>1. ListedRoutine'
    BY <1>2 DEF SignerInv, ListedRoutine, Sign!RetireKey
  <2>2. StoppersKnown'
    BY <1>2 DEF SignerInv, StoppersKnown, Sign!RetireKey
  <2> QED
    BY <2>1, <2>2 DEF SignerInv
<1>3. ASSUME NEW c \in Currency, NEW u \in User, NEW stops \in BOOLEAN, Sign!Touch(u, c, stops)
      PROVE  SignerInv'
  <2> DEFINE r == retiring[c]
             call == [at |-> "sending", currency |-> c, stops |-> stops, trigger |-> r]
  <2>0. DOMAIN call = {"at", "currency", "stops", "trigger"} /\ call.at = "sending"
        /\ call.currency = c /\ call.stops = stops /\ call.trigger = r
    OBVIOUS
  <2>1. /\ stopped' = IF stops THEN stopped \cup {c} ELSE stopped
        /\ UNCHANGED retiring
        /\ \/ user' = [user EXCEPT ![u] = Sign!Sent(call)] /\ UNCHANGED retirement
           \/ /\ user' = [user EXCEPT ![u] = Sign!Sent(call)] /\ r # NoValue
              /\ retirement' = [retirement EXCEPT ![r].touched = TRUE]
           \/ user' = [user EXCEPT ![u] = call] /\ UNCHANGED retirement /\ r # NoValue
    BY <1>3 DEF Sign!Touch
  <2>2. r # NoValue => r \in Retirement
    BY DEF SignerInv, ListedRoutine
  <2> HIDE DEF call, r
  <2>3. stopped \subseteq stopped' /\ (stops => c \in stopped')
    BY <2>1
  <2>4. /\ DOMAIN retirement' = DOMAIN retirement
        /\ \A x \in Retirement :
             /\ DOMAIN retirement'[x] = DOMAIN retirement[x]
             /\ retirement'[x].at = retirement[x].at
             /\ retirement'[x].currency = retirement[x].currency
    BY <2>1, <2>2 DEF SignerInv, ListedRoutine
  <2>5. ListedRoutine'
    BY <2>1, <2>3, <2>4 DEF SignerInv, ListedRoutine
  <2>6. StoppersKnown'
    <3>1. LET after == Sign!Sent(call) IN
             /\ DOMAIN after = {"at", "currency", "stops", "trigger"}
             /\ after.at \in {"idle", "deleting"}
             /\ after.at = "deleting" => after.currency \in stopped'
      BY <2>0, <2>3, AfterSending
    <3>2. PICK next : /\ user' = [user EXCEPT ![u] = next]
                      /\ next = Sign!Sent(call) \/ (next = call /\ r # NoValue)
      BY <2>1
    <3>3. DOMAIN user' = User /\ user'[u] = next /\ \A x \in User : x # u => user'[x] = user[x]
      BY <3>2 DEF SignerInv, StoppersKnown
    <3> QED
      BY <2>0, <2>2, <2>3, <3>1, <3>2, <3>3 DEF SignerInv, StoppersKnown
  <2> QED
    BY <2>5, <2>6 DEF SignerInv
<1>4. ASSUME NEW r \in Retirement, Sign!Watch(r) PROVE SignerInv'
  <2>1. ListedRoutine'
    BY <1>4, NoValueAssumption DEF SignerInv, ListedRoutine, Sign!Watch, Sign!Go
  <2>2. StoppersKnown'
    BY <1>4 DEF SignerInv, StoppersKnown, Sign!Watch
  <2> QED
    BY <2>1, <2>2 DEF SignerInv
<1>5. ASSUME NEW r \in Retirement, Sign!NotWatched(r) PROVE SignerInv'
  <2>1. ListedRoutine'
    BY <1>5 DEF SignerInv, ListedRoutine, Sign!NotWatched, Sign!Away
  <2>2. StoppersKnown'
    BY <1>5 DEF SignerInv, StoppersKnown, Sign!NotWatched
  <2> QED
    BY <2>1, <2>2 DEF SignerInv
<1>6. ASSUME NEW r \in Retirement, Sign!TimedOut(r) \/ Sign!Cancelled(r) PROVE SignerInv'
  <2>1. ListedRoutine'
    BY <1>6, RoutineMoves DEF SignerInv, Sign!TimedOut, Sign!Cancelled, Sign!Go
  <2>2. StoppersKnown'
    BY <1>6 DEF SignerInv, StoppersKnown, Sign!TimedOut, Sign!Cancelled
  <2> QED
    BY <2>1, <2>2 DEF SignerInv
<1>7. ASSUME NEW r \in Retirement, Sign!Triggered(r) PROVE SignerInv'
  <2>1. ListedRoutine'
    BY <1>7, RoutineMoves DEF SignerInv, Sign!Triggered, Sign!Go
  <2>2. StoppersKnown'
    <3>1. stopped' = stopped
      BY <1>7 DEF Sign!Triggered
    <3>2. CASE UNCHANGED user
      BY <3>1, <3>2 DEF SignerInv, StoppersKnown
    <3>3. CASE \E u \in Sign!Sending : user' = [user EXCEPT ![u] = Sign!Sent(@)]
      <4>1. PICK u \in User : user[u].at = "sending" /\ user' = [user EXCEPT ![u] = Sign!Sent(user[u])]
        BY <3>3 DEF Sign!Sending
      <4>2. LET after == Sign!Sent(user[u]) IN
             /\ DOMAIN after = {"at", "currency", "stops", "trigger"}
             /\ after.at \in {"idle", "deleting"}
             /\ after.at = "deleting" => after.currency \in stopped'
        BY <3>1, <4>1, AfterSending DEF SignerInv, StoppersKnown
      <4>3. DOMAIN user' = User /\ (\A x \in User : x # u => user'[x] = user[x])
            /\ user'[u] = Sign!Sent(user[u])
        BY <4>1 DEF SignerInv, StoppersKnown
      <4> QED
        BY <3>1, <4>2, <4>3 DEF SignerInv, StoppersKnown
    <3> QED
      BY <1>7, <3>2, <3>3 DEF Sign!Triggered
  <2> QED
    BY <2>1, <2>2 DEF SignerInv
<1>8. ASSUME NEW r \in Retirement, Sign!Remove(r) PROVE SignerInv'
  <2>1. ListedRoutine'
    BY <1>8, RoutineMoves DEF SignerInv, Sign!Remove, Sign!Go
  <2>2. StoppersKnown'
    BY <1>8 DEF SignerInv, StoppersKnown, Sign!Remove
  <2> QED
    BY <2>1, <2>2 DEF SignerInv
<1>9. ASSUME NEW r \in Retirement, Sign!Leave(r) PROVE SignerInv'
  <2>1. ListedRoutine'
    <3>1. CASE retirement' = [retirement EXCEPT ![r] = Sign!Away]
               /\ retiring' = [retiring EXCEPT ![retirement[r].currency] = NoValue]
      <4>1. retirement[r].at = "leaving" /\ stopped' = stopped
            /\ retirement[r].currency \in Currency
        BY <1>9 DEF Sign!Leave, SignerInv, ListedRoutine
      <4>2. \A x \in Retirement : x # r => retirement'[x] = retirement[x]
        BY <3>1 DEF SignerInv, ListedRoutine
      <4>3. retirement'[r] = Sign!Away /\ DOMAIN retirement' = Retirement
        BY <3>1 DEF SignerInv, ListedRoutine
      <4>4. \A x \in Retirement :
              /\ x # r
              /\ retirement[x].at \in {"waiting", "removing", "leaving"}
              /\ retirement[x].currency \notin stopped
              => retirement[x].currency # retirement[r].currency
        BY <4>1 DEF SignerInv, ListedRoutine
      <4>5. /\ retiring' \in [Currency -> Retirement \cup {NoValue}]
            /\ \A c \in Currency : c # retirement[r].currency => retiring'[c] = retiring[c]
        BY <3>1 DEF SignerInv, ListedRoutine
      <4>6. \A x \in Retirement :
              /\ {"at", "currency", "touched"} \subseteq DOMAIN retirement'[x]
              /\ retirement'[x].at # "away" => retirement'[x].currency \in Currency
        BY <4>2, <4>3 DEF SignerInv, ListedRoutine, Sign!Away
      <4>7. ASSUME NEW x \in Retirement, retirement'[x].at \in {"waiting", "removing", "leaving"},
                   retirement'[x].currency \notin stopped'
            PROVE  retiring'[retirement'[x].currency] = x
        <5>1. x # r
          BY <4>3, <4>7 DEF Sign!Away
        <5> QED
          BY <5>1, <4>1, <4>2, <4>4, <4>5, <4>7 DEF SignerInv, ListedRoutine
      <4> QED
        BY <4>3, <4>5, <4>6, <4>7 DEF ListedRoutine
    <3>2. CASE Sign!Go(r, "gone") /\ UNCHANGED retiring
      BY <1>9, <3>2, RoutineMoves DEF SignerInv, Sign!Leave, Sign!Go
    <3> QED
      BY <1>9, <3>1, <3>2 DEF Sign!Leave
  <2>2. StoppersKnown'
    BY <1>9 DEF SignerInv, StoppersKnown, Sign!Leave
  <2> QED
    BY <2>1, <2>2 DEF SignerInv
<1>10. ASSUME NEW u \in User, Sign!StopRetire(u) PROVE SignerInv'
  <2>1. ListedRoutine'
    <3>1. retirement' = retirement /\ stopped' = stopped /\ user[u].currency \in stopped
      BY <1>10 DEF SignerInv, StoppersKnown, Sign!StopRetire
    <3>2. \A c \in Currency : c # user[u].currency => retiring'[c] = retiring[c]
      BY <1>10 DEF SignerInv, ListedRoutine, Sign!StopRetire
    <3>3. retiring' \in [Currency -> Retirement \cup {NoValue}]
      BY <1>10 DEF SignerInv, ListedRoutine, Sign!StopRetire
    <3> QED
      BY <3>1, <3>2, <3>3 DEF SignerInv, ListedRoutine
  <2>2. StoppersKnown'
    BY <1>10 DEF SignerInv, StoppersKnown, Sign!StopRetire, Sign!Idle
  <2> QED
    BY <2>1, <2>2 DEF SignerInv
<1>11. CASE Sign!Start
  BY <1>11 DEF Sign!Start, Sign!NoneListed, Sign!AllAway, Sign!AllIdle, Sign!Away, Sign!Idle,
     SignerInv, ListedRoutine, StoppersKnown
<1> QED
  BY <1>0, <1>1, <1>2, <1>3, <1>4, <1>5, <1>6, <1>7, <1>8, <1>9, <1>10, <1>11 DEF Sign!Next

(* A use of a key reaches the routine that waits to retire it, unless       *)
(* somebody has called StopRetire (crypto/signer_impl.go: RetireKey and      *)
(* touchKey).                                                               *)
THEOREM TouchReachesHolds == Spec => []TouchReaches
<1>1. Init => SignerInv
  BY DEF Init, Sign!NothingRetires, Sign!NoneListed, Sign!AllAway, Sign!AllIdle, Sign!Away,
     Sign!Idle, SignerInv, ListedRoutine, StoppersKnown
<1>2. SignerInv /\ [Next]_vars => SignerInv'
  <2> SUFFICES ASSUME SignerInv, [Next]_vars PROVE SignerInv'
    OBVIOUS
  <2>1. [Sign!Next]_signerVars
    BY DEF Next, vars, signerVars
  <2> QED
    BY <2>1, SignerStep
<1>3. SignerInv => TouchReaches
  BY DEF SignerInv, ListedRoutine, TouchReaches, Sign!TouchReaches
<1> QED
  BY <1>1, <1>2, <1>3, PTL DEF Spec

-----------------------------------------------------------------------------
(* A set of naturals that is not empty has a least member.                  *)
LEMMA LessIsWellFounded ==
    \E R : IsWellFoundedOn(R, Nat) /\ \A x, y \in Nat : <<x, y>> \in R <=> x < y
<1>1. \A x, y \in Nat : <<x, y>> \in OpToRel(<, Nat) <=> x < y
  BY DEF OpToRel
<1> QED
  BY <1>1, NatLessThanWellFounded, Zenon

(* A set of natural numbers has a least one.                                *)
LEMMA LeastNatural ==
    ASSUME NEW T, T \subseteq Nat, T # {}
    PROVE  \E x \in T : \A y \in T : x <= y
<1>1. PICK R : IsWellFoundedOn(R, Nat) /\ \A x, y \in Nat : <<x, y>> \in R <=> x < y
  BY LessIsWellFounded
<1>2. \A x, y \in Nat : <<x, y>> \in R <=> x < y
  BY <1>1
<1>3. \E x \in T : \A y \in T : ~ (<<y, x>> \in R)
  <2>1. IsWellFoundedOn(R, Nat)
    BY <1>1
  <2> QED
    BY <2>1, WFMin, Zenon
<1>4. PICK x \in T : \A y \in T : ~ (<<y, x>> \in R)
  BY <1>3
<1>5. \A y \in T : ~ (y < x)
  BY <1>2, <1>4, Zenon
<1>6. \A y \in T : x <= y
  BY <1>5
<1> QED
  BY <1>6

-----------------------------------------------------------------------------
(* Paths, and what is above them.                                           *)
Name == Currency \cup Priced \cup Peer \cup Paych \cup Piece \cup {"default"} \cup Nat
Path == Seq(Name)
Cut(path, i) == SubSeq(path, 1, i)
Above(path) == {Cut(path, i) : i \in 0 .. Len(path) - 1}

(* A cut of a path is a path that agrees with it.                           *)
LEMMA CutFacts ==
    ASSUME NEW p \in Path, NEW i \in 0 .. Len(p)
    PROVE  /\ Cut(p, i) \in Path
           /\ Len(Cut(p, i)) = i
           /\ \A j \in 1 .. i : Cut(p, i)[j] = p[j]
<1>1. \A j \in 1 .. i : p[j] \in Name
  BY DEF Path
<1>2. i \in Int /\ 1 \in Int /\ Len(p) \in Nat
  BY DEF Path
<1>3. /\ Cut(p, i) \in Seq(Name)
      /\ Len(Cut(p, i)) = IF 1 <= i THEN i - 1 + 1 ELSE 0
      /\ \A j \in 1 .. i - 1 + 1 : Cut(p, i)[j] = p[1 + j - 1]
  <2> DEFINE c == Cut(p, i)
  <2> QED
    BY <1>1, <1>2, SubSeqProperties DEF Cut
<1>4. \A j \in 1 .. i : Cut(p, i)[j] = p[j]
  <2> TAKE j \in 1 .. i
  <2>1. j \in 1 .. i - 1 + 1 /\ 1 + j - 1 = j
    BY <1>2
  <2> QED
    BY <1>3, <2>1
<1>5. Len(Cut(p, i)) = i
  BY <1>3, <1>2
<1> QED
  BY <1>3, <1>4, <1>5 DEF Path

(* Two paths of one length that agree everywhere are the same.              *)
LEMMA SamePath ==
    ASSUME NEW p \in Path, NEW q \in Path, Len(p) = Len(q), \A j \in 1 .. Len(p) : p[j] = q[j]
    PROVE  p = q
BY SeqEqual DEF Path

(* A cut of a cut; a whole path; the empty cut.                             *)
LEMMA CutOfCut ==
    ASSUME NEW p \in Path, NEW i \in 0 .. Len(p), NEW j \in 0 .. i
    PROVE  Cut(Cut(p, i), j) = Cut(p, j)
<1>1. Len(p) \in Nat /\ i \in Nat /\ j \in Nat /\ j \in 0 .. Len(p) /\ \A x \in 1 .. j : x \in 1 .. i
  BY DEF Path
<1>2. Cut(p, i) \in Path /\ Len(Cut(p, i)) = i /\ \A x \in 1 .. i : Cut(p, i)[x] = p[x]
  BY CutFacts
<1>3. PICK c \in Path : c = Cut(p, i)
  BY <1>2
<1>4. Cut(c, j) \in Path /\ Len(Cut(c, j)) = j /\ \A x \in 1 .. j : Cut(c, j)[x] = c[x]
  BY <1>2, <1>3, CutFacts
<1>5. Cut(p, j) \in Path /\ Len(Cut(p, j)) = j /\ \A x \in 1 .. j : Cut(p, j)[x] = p[x]
  BY <1>1, CutFacts
<1>6. \A x \in 1 .. j : Cut(c, j)[x] = Cut(p, j)[x]
  BY <1>1, <1>2, <1>3, <1>4, <1>5
<1>7. Cut(c, j) = Cut(p, j)
  BY <1>4, <1>5, <1>6, SamePath
<1> QED
  BY <1>3, <1>7

(* The whole of a path, and none of it.                                     *)
LEMMA CutEnds ==
    ASSUME NEW p \in Path
    PROVE  Cut(p, Len(p)) = p /\ Cut(p, 0) = <<>>
<1>1. Cut(p, Len(p)) = p
  BY SubSeqFull DEF Path, Cut
<1>2. Cut(p, 0) = <<>>
  BY SubSeqEmpty DEF Cut
<1> QED
  BY <1>1, <1>2

(* Appending a name to a path.                                              *)
LEMMA AppendFacts ==
    ASSUME NEW p \in Path, NEW k \in Name
    PROVE  /\ Append(p, k) \in Path
           /\ Len(Append(p, k)) = Len(p) + 1
           /\ \A j \in 1 .. Len(p) : Append(p, k)[j] = p[j]
           /\ Append(p, k)[Len(p) + 1] = k
           /\ Cut(Append(p, k), Len(p)) = p
<1>1. /\ Append(p, k) \in Path
      /\ Len(Append(p, k)) = Len(p) + 1
      /\ \A j \in 1 .. Len(p) : Append(p, k)[j] = p[j]
      /\ Append(p, k)[Len(p) + 1] = k
  BY AppendProperties DEF Path
<1>2. PICK a \in Path : a = Append(p, k)
  BY <1>1
<1>3. Len(p) \in Nat
  BY DEF Path
<1>4. Cut(a, Len(p)) = p
  <2>1. Len(p) \in 0 .. Len(a)
    BY <1>1, <1>2, <1>3
  <2>2. /\ Cut(a, Len(p)) \in Path /\ Len(Cut(a, Len(p))) = Len(p)
        /\ \A j \in 1 .. Len(p) : Cut(a, Len(p))[j] = a[j]
    BY <2>1, CutFacts
  <2>3. \A j \in 1 .. Len(p) : Cut(a, Len(p))[j] = p[j]
    BY <1>1, <1>2, <2>2
  <2> QED
    BY <2>2, <2>3, SamePath
<1> QED
  BY <1>1, <1>2, <1>4

(* A cut that is not empty is the one before with a name appended.          *)
LEMMA CutIsAppend ==
    ASSUME NEW p \in Path, NEW i \in 1 .. Len(p)
    PROVE  p[i] \in Name /\ Cut(p, i) = Append(Cut(p, i - 1), p[i])
<1>1. Len(p) \in Nat /\ i \in Nat /\ i - 1 \in 0 .. Len(p) /\ i \in 0 .. Len(p) /\ i - 1 + 1 = i
  BY DEF Path
<1>2. p[i] \in Name
  BY DEF Path
<1>3. PICK b \in Path : b = Cut(p, i - 1)
  BY <1>1, CutFacts
<1>4. Len(b) = i - 1 /\ \A j \in 1 .. i - 1 : b[j] = p[j]
  BY <1>1, <1>3, CutFacts
<1>5. /\ Append(b, p[i]) \in Path /\ Len(Append(b, p[i])) = i
      /\ \A j \in 1 .. i - 1 : Append(b, p[i])[j] = b[j]
      /\ Append(b, p[i])[i] = p[i]
  BY <1>1, <1>2, <1>4, AppendFacts
<1>6. Cut(p, i) \in Path /\ Len(Cut(p, i)) = i /\ \A j \in 1 .. i : Cut(p, i)[j] = p[j]
  BY <1>1, CutFacts
<1>7. \A j \in 1 .. i : j = i \/ j \in 1 .. i - 1
  BY <1>1
<1>8. \A j \in 1 .. i : Cut(p, i)[j] = Append(b, p[i])[j]
  BY <1>4, <1>5, <1>6, <1>7
<1>9. Cut(p, i) = Append(b, p[i])
  BY <1>5, <1>6, <1>8, SamePath
<1> QED
  BY <1>2, <1>3, <1>9

-----------------------------------------------------------------------------
(* A store of keys is a tree: what is above a key is there.  The list of a  *)
(* key is exact when it names what is below and nothing else.               *)
Tree(s) ==
    /\ DOMAIN s \subseteq Path /\ <<>> \in DOMAIN s
    /\ \A q \in DOMAIN s : {"value", "kids"} \subseteq DOMAIN s[q]
    /\ \A q \in DOMAIN s : \A i \in 0 .. Len(q) : Cut(q, i) \in DOMAIN s

Exact(s, q) == s[q].kids = {k \in Name : Append(q, k) \in DOMAIN s}

(* The root is there, and of the keys above a path none without those above *)
(* it.                                                                      *)
Reached(s, path) ==
    /\ <<>> \in DOMAIN s
    /\ \A i \in 0 .. Len(path) - 1 : Cut(path, i) \in DOMAIN s =>
          \A j \in 0 .. i : Cut(path, j) \in DOMAIN s

(* So it is in a tree.                                                      *)
LEMMA TreeReached ==
    ASSUME NEW s, Tree(s), NEW path \in Path
    PROVE  Reached(s, path)
<1>1. Len(path) \in Nat
  BY DEF Path
<1>2. ASSUME NEW i \in 0 .. Len(path) - 1, Cut(path, i) \in DOMAIN s, NEW j \in 0 .. i
      PROVE  Cut(path, j) \in DOMAIN s
  <2>1. i \in 0 .. Len(path)
    BY <1>1
  <2>2. PICK q \in Path : q = Cut(path, i) /\ Len(q) = i
    BY <2>1, CutFacts
  <2>3. Cut(q, j) = Cut(path, j)
    BY <2>1, <2>2, CutOfCut
  <2> QED
    BY <1>2, <2>2, <2>3 DEF Tree
<1> QED
  BY <1>2 DEF Reached, Tree

(* A key is found from the root down, by the lists, exactly when it is      *)
(* there.                                                                   *)
LEMMA FoundByLists ==
    ASSUME NEW s, NEW path \in Path, Reached(s, path), NEW i \in 0 .. Len(path) - 1,
           \A j \in 0 .. i - 1 : Cut(path, j) \in DOMAIN s => Exact(s, Cut(path, j))
    PROVE  (\A j \in 1 .. i : path[j] \in s[Cut(path, j - 1)].kids) <=> Cut(path, i) \in DOMAIN s
<1>0. Len(path) \in Nat /\ i \in Nat /\ i \in 0 .. Len(path)
  BY DEF Path
<1>1. ASSUME Cut(path, i) \in DOMAIN s, NEW j \in 1 .. i
      PROVE  path[j] \in s[Cut(path, j - 1)].kids
  <2>1. j - 1 \in 0 .. i - 1 /\ j - 1 \in 0 .. i /\ j \in 0 .. i /\ j \in 1 .. Len(path)
    BY <1>0
  <2>2. Cut(path, j) \in DOMAIN s /\ Cut(path, j - 1) \in DOMAIN s
    BY <1>1, <2>1 DEF Reached
  <2>3. path[j] \in Name /\ Cut(path, j) = Append(Cut(path, j - 1), path[j])
    BY <2>1, CutIsAppend
  <2> QED
    BY <2>1, <2>2, <2>3 DEF Exact
<1>2. ASSUME Cut(path, i) \notin DOMAIN s, \A j \in 1 .. i : path[j] \in s[Cut(path, j - 1)].kids
      PROVE  FALSE
  <2> DEFINE T == {j \in 0 .. i : Cut(path, j) \notin DOMAIN s}
  <2>1. T \subseteq Nat /\ T # {}
    BY <1>0, <1>2
  <2>2. PICK j \in T : \A x \in T : j <= x
    BY <2>1, LeastNatural
  <2>3. Cut(path, 0) \in DOMAIN s
    BY CutEnds DEF Reached
  <2>4. j \in 0 .. i /\ Cut(path, j) \notin DOMAIN s /\ j # 0
    BY <2>2, <2>3
  <2>5. j \in 1 .. i /\ j - 1 \in 0 .. i - 1 /\ j - 1 \in 0 .. i /\ ~(j <= j - 1) /\ j \in 1 .. Len(path)
    BY <1>0, <2>4
  <2>6. Cut(path, j - 1) \in DOMAIN s
    BY <2>2, <2>5
  <2>7. path[j] \in Name /\ Cut(path, j) = Append(Cut(path, j - 1), path[j])
    BY <2>5, CutIsAppend
  <2>8. path[j] \in s[Cut(path, j - 1)].kids /\ Exact(s, Cut(path, j - 1))
    BY <1>2, <2>5, <2>6
  <2> QED
    BY <2>4, <2>7, <2>8 DEF Exact
<1> QED
  BY <1>1, <1>2

(* What Put makes of the keys, when the lists above the parent are exact.   *)
PutMakes(s, v, path, t) ==
    /\ DOMAIN t = DOMAIN s \cup Above(path) \cup {path}
    /\ t[path] = [value |-> v, kids |-> {}]
    /\ \A q \in DOMAIN s : q \notin Above(path) \cup {path} => t[q] = s[q]
    /\ \A i \in 0 .. Len(path) - 1 :
         LET q == Cut(path, i) IN
           t[q] = IF q \in DOMAIN s THEN [s[q] EXCEPT !.kids = @ \cup {path[i + 1]}]
                  ELSE [value |-> NoValue, kids |-> {path[i + 1]}]

(* Put makes what PutMakes says of it.                                      *)
LEMMA PutReaches ==
    ASSUME NEW s, NEW v, NEW path \in Path, Reached(s, path),
           \A j \in 0 .. Len(path) - 2 : Cut(path, j) \in DOMAIN s => Exact(s, Cut(path, j))
    PROVE  PutMakes(s, v, path, Put(s, v, path))
<1> DEFINE known(q) == \A i \in 1 .. Len(q) : q[i] \in s[SubSeq(q, 1, i - 1)].kids
           old(q) == IF known(q) THEN s[q] ELSE Blank
           t == Put(s, v, path)
<1>0. Len(path) \in Nat
  BY DEF Path
<1>1. t = [q \in DOMAIN s \cup Above(path) \cup {path} |->
             IF q = path THEN [value |-> v, kids |-> {}]
             ELSE IF q \in Above(path) THEN [old(q) EXCEPT !.kids = @ \cup {path[Len(q) + 1]}]
             ELSE s[q]]
  BY DEF Put, Above, Cut
<1>2. ASSUME NEW i \in 0 .. Len(path) - 1
      PROVE  /\ Cut(path, i) # path /\ Len(Cut(path, i)) = i /\ Cut(path, i) \in Above(path)
             /\ known(Cut(path, i)) <=> Cut(path, i) \in DOMAIN s
  <2>1. i \in 0 .. Len(path) /\ i # Len(path) /\ \A j \in 0 .. i - 1 : j \in 0 .. Len(path) - 2
    BY <1>0
  <2>2. PICK q \in Path : q = Cut(path, i) /\ Len(q) = i /\ \A j \in 1 .. i : q[j] = path[j]
    BY <2>1, CutFacts
  <2>3. \A j \in 1 .. i : SubSeq(q, 1, j - 1) = Cut(path, j - 1)
    <3> TAKE j \in 1 .. i
    <3>1. j - 1 \in 0 .. i
      BY <1>0
    <3> QED
      BY <2>1, <2>2, <3>1, CutOfCut DEF Cut
  <2>4. known(q) <=> \A j \in 1 .. i : path[j] \in s[Cut(path, j - 1)].kids
    BY <2>2, <2>3
  <2>5. known(q) <=> q \in DOMAIN s
    <3> HIDE DEF known
    <3> QED
      BY <2>1, <2>2, <2>4, FoundByLists
  <2> QED
    BY <2>1, <2>2, <2>5 DEF Above
<1> HIDE DEF known
<1>3. ASSUME NEW i \in 0 .. Len(path) - 1
      PROVE  t[Cut(path, i)] =
               IF Cut(path, i) \in DOMAIN s THEN [s[Cut(path, i)] EXCEPT !.kids = @ \cup {path[i + 1]}]
               ELSE [value |-> NoValue, kids |-> {path[i + 1]}]
  <2>1. t[Cut(path, i)] = [old(Cut(path, i)) EXCEPT !.kids = @ \cup {path[i + 1]}]
    BY <1>1, <1>2
  <2>2. CASE Cut(path, i) \in DOMAIN s
    BY <1>2, <2>1, <2>2
  <2>3. CASE Cut(path, i) \notin DOMAIN s
    BY <1>2, <2>1, <2>3 DEF Blank
  <2> QED
    BY <2>2, <2>3
<1> HIDE DEF old
<1>4. DOMAIN t = DOMAIN s \cup Above(path) \cup {path}
  BY <1>1
<1>5. t[path] = [value |-> v, kids |-> {}]
  BY <1>1
<1>6. \A q \in DOMAIN s : q \notin Above(path) \cup {path} => t[q] = s[q]
  BY <1>1
<1> HIDE DEF t
<1> QED
  BY <1>3, <1>4, <1>5, <1>6 DEF t, PutMakes

(* In a tree it does.                                                       *)
LEMMA PutFacts ==
    ASSUME NEW s, Tree(s), NEW v, NEW path \in Path, path # <<>>,
           \A j \in 0 .. Len(path) - 2 : Cut(path, j) \in DOMAIN s => Exact(s, Cut(path, j))
    PROVE  PutMakes(s, v, path, Put(s, v, path))
BY TreeReached, PutReaches

(* Put leaves a tree ...                                                    *)
LEMMA PutTree ==
    ASSUME NEW s, Tree(s), NEW v, NEW path \in Path, path # <<>>,
           \A j \in 0 .. Len(path) - 2 : Cut(path, j) \in DOMAIN s => Exact(s, Cut(path, j))
    PROVE  Tree(Put(s, v, path))
<1>0. Len(path) \in Nat
  BY DEF Path
<1>1. PICK t : t = Put(s, v, path)
  OBVIOUS
<1>2. /\ DOMAIN t = DOMAIN s \cup Above(path) \cup {path}
      /\ t[path] = [value |-> v, kids |-> {}]
      /\ \A q \in DOMAIN s : q \notin Above(path) \cup {path} => t[q] = s[q]
      /\ \A i \in 0 .. Len(path) - 1 :
           LET q == Cut(path, i) IN
             t[q] = IF q \in DOMAIN s THEN [s[q] EXCEPT !.kids = @ \cup {path[i + 1]}]
                    ELSE [value |-> NoValue, kids |-> {path[i + 1]}]
  <2>1. PutMakes(s, v, path, t)
    BY <1>1, PutFacts
  <2> QED
    BY <2>1 DEF PutMakes
<1>3. \A q \in Above(path) : q \in Path
  BY <1>0, CutFacts DEF Above
<1>4. DOMAIN t \subseteq Path /\ <<>> \in DOMAIN t
  BY <1>2, <1>3 DEF Tree
<1>5. ASSUME NEW q \in DOMAIN t PROVE {"value", "kids"} \subseteq DOMAIN t[q]
  <2>1. CASE q = path
    BY <1>2, <2>1
  <2>2. CASE q \notin Above(path) \cup {path}
    BY <1>2, <2>2 DEF Tree
  <2>3. CASE q \in Above(path)
    <3>1. PICK i \in 0 .. Len(path) - 1 : q = Cut(path, i)
      BY <2>3 DEF Above
    <3>2. CASE q \in DOMAIN s
      <4>1. t[q] = [s[q] EXCEPT !.kids = @ \cup {path[i + 1]}]
        BY <1>2, <3>1, <3>2
      <4> QED
        BY <4>1, <3>2 DEF Tree
    <3>3. CASE q \notin DOMAIN s
      <4>1. t[q] = [value |-> NoValue, kids |-> {path[i + 1]}]
        BY <1>2, <3>1, <3>3
      <4> QED
        BY <4>1
    <3> QED
      BY <3>2, <3>3
  <2> QED
    BY <2>1, <2>2, <2>3
<1>6. ASSUME NEW i \in 0 .. Len(path), NEW j \in 0 .. i PROVE Cut(Cut(path, i), j) \in DOMAIN t
  <2>1. Cut(Cut(path, i), j) = Cut(path, j)
    BY CutOfCut
  <2>2. j = Len(path) \/ j \in 0 .. Len(path) - 1
    BY <1>0
  <2> QED
    BY <1>2, <2>1, <2>2, CutEnds DEF Above
<1>7. ASSUME NEW q \in DOMAIN t, NEW j \in 0 .. Len(q) PROVE Cut(q, j) \in DOMAIN t
  <2>1. CASE q \in DOMAIN s
    BY <1>2, <2>1 DEF Tree
  <2>2. CASE q \notin DOMAIN s
    <3>1. PICK i \in 0 .. Len(path) : q = Cut(path, i)
      <4>1. q = path \/ q \in Above(path)
        BY <1>2, <2>2
      <4>2. Len(path) \in 0 .. Len(path) /\ \A i \in 0 .. Len(path) - 1 : i \in 0 .. Len(path)
        BY <1>0
      <4> QED
        BY <4>1, <4>2, CutEnds DEF Above
    <3>2. Len(q) = i
      BY <3>1, CutFacts
    <3> QED
      BY <1>6, <3>1, <3>2
  <2> QED
    BY <2>1, <2>2
<1> QED
  BY <1>1, <1>4, <1>5, <1>7 DEF Tree

(* ... and exact lists: unless it puts a key again that has some below it.  *)
LEMMA PutExact ==
    ASSUME NEW s, Tree(s), NEW v, NEW path \in Path, path # <<>>,
           \A j \in 0 .. Len(path) - 2 : Cut(path, j) \in DOMAIN s => Exact(s, Cut(path, j)),
           NEW q \in DOMAIN Put(s, v, path), q \in DOMAIN s => Exact(s, q),
           q = path => \A k \in Name : Append(path, k) \notin DOMAIN s
    PROVE  Exact(Put(s, v, path), q)
<1>0. Len(path) \in Nat
  BY DEF Path
<1>1. PICK t : t = Put(s, v, path)
  OBVIOUS
<1>2. /\ DOMAIN t = DOMAIN s \cup Above(path) \cup {path}
      /\ t[path] = [value |-> v, kids |-> {}]
      /\ \A x \in DOMAIN s : x \notin Above(path) \cup {path} => t[x] = s[x]
      /\ \A i \in 0 .. Len(path) - 1 :
           LET x == Cut(path, i) IN
             t[x] = IF x \in DOMAIN s THEN [s[x] EXCEPT !.kids = @ \cup {path[i + 1]}]
                    ELSE [value |-> NoValue, kids |-> {path[i + 1]}]
  <2>1. PutMakes(s, v, path, t)
    BY <1>1, PutFacts
  <2> QED
    BY <2>1 DEF PutMakes
<1>3. Tree(t) /\ q \in DOMAIN t /\ q \in Path
  BY <1>1, PutTree DEF Tree
<1>4. ASSUME NEW k \in Name, NEW i \in 0 .. Len(path), Append(q, k) = Cut(path, i)
      PROVE  i = Len(q) + 1 /\ q = Cut(path, Len(q)) /\ Len(q) \in 0 .. Len(path) - 1
             /\ k = path[Len(q) + 1]
  <2>1. Len(q) \in Nat /\ Len(Append(q, k)) = Len(q) + 1 /\ Append(q, k)[Len(q) + 1] = k
        /\ Cut(Append(q, k), Len(q)) = q
    BY <1>3, AppendFacts DEF Path
  <2>2. Len(Cut(path, i)) = i /\ \A j \in 1 .. i : Cut(path, i)[j] = path[j]
    BY CutFacts
  <2>3. i = Len(q) + 1
    BY <1>4, <2>1, <2>2
  <2>4. Len(q) \in 0 .. i /\ i \in 1 .. i /\ Len(q) \in 0 .. Len(path) - 1
    BY <1>0, <2>1, <2>3
  <2>5. Cut(Cut(path, i), Len(q)) = Cut(path, Len(q))
    BY <2>4, CutOfCut
  <2>6. Cut(path, i)[i] = path[i]
    BY <2>2, <2>4
  <2> QED
    BY <1>4, <2>1, <2>3, <2>4, <2>5, <2>6
<1>5. \A x \in Above(path) \cup {path} : \E i \in 0 .. Len(path) : x = Cut(path, i)
  <2>1. Len(path) \in 0 .. Len(path) /\ \A i \in 0 .. Len(path) - 1 : i \in 0 .. Len(path)
    BY <1>0
  <2> QED
    BY <2>1, CutEnds DEF Above
<1>6. CASE q \notin Above(path)
  <2>1. \A k \in Name : Append(q, k) \notin Above(path) \cup {path}
    BY <1>4, <1>5, <1>6 DEF Above
  <2>2. \A k \in Name : Append(q, k) \in DOMAIN t <=> Append(q, k) \in DOMAIN s
    BY <1>2, <2>1
  <2>3. CASE q = path
    BY <1>1, <1>2, <2>2, <2>3 DEF Exact
  <2>4. CASE q # path
    <3>1. q \in DOMAIN s /\ t[q] = s[q]
      BY <1>2, <1>3, <1>6, <2>4
    <3> QED
      BY <1>1, <2>2, <3>1 DEF Exact
  <2> QED
    BY <2>3, <2>4
<1>7. CASE q \in Above(path)
  <2>1. PICK i \in 0 .. Len(path) - 1 : q = Cut(path, i)
    BY <1>7 DEF Above
  <2>2. Len(q) = i /\ i + 1 \in 1 .. Len(path) /\ i + 1 - 1 = i /\ i + 1 \in 0 .. Len(path)
    BY <1>0, <2>1, CutFacts
  <2>3. path[i + 1] \in Name /\ Append(q, path[i + 1]) = Cut(path, i + 1)
    BY <2>1, <2>2, CutIsAppend
  <2>4. Append(q, path[i + 1]) \in DOMAIN t
    <3>1. i + 1 = Len(path) \/ i + 1 \in 0 .. Len(path) - 1
      BY <1>0, <2>2
    <3> QED
      BY <1>2, <2>3, <3>1, CutEnds DEF Above
  <2>5. \A k \in Name : Append(q, k) \in DOMAIN t => k = path[i + 1] \/ Append(q, k) \in DOMAIN s
    BY <1>2, <1>4, <1>5, <2>2
  <2>6. \A k \in Name : Append(q, k) \in DOMAIN s => Append(q, k) \in DOMAIN t
    BY <1>2
  <2>7. CASE q \in DOMAIN s
    <3>1. t[q] = [s[q] EXCEPT !.kids = @ \cup {path[i + 1]}]
      BY <1>2, <2>1, <2>7
    <3>2. t[q].kids = s[q].kids \cup {path[i + 1]}
      BY <3>1, <2>7 DEF Tree
    <3> QED
      BY <1>1, <2>3, <2>4, <2>5, <2>6, <2>7, <3>2 DEF Exact
  <2>8. CASE q \notin DOMAIN s
    <3>0. t[q] = [value |-> NoValue, kids |-> {path[i + 1]}]
      BY <1>2, <2>1, <2>8
    <3>1. t[q].kids = {path[i + 1]}
      BY <3>0
    <3>2. ASSUME NEW k \in Name, Append(q, k) \in DOMAIN s PROVE FALSE
      <4>1. PICK a : a = Append(q, k)
        OBVIOUS
      <4>2. Len(q) \in 0 .. Len(a) /\ Cut(a, Len(q)) = q
        BY <1>3, <4>1, AppendFacts DEF Path
      <4> QED
        BY <2>8, <3>2, <4>1, <4>2 DEF Tree
    <3> QED
      BY <1>1, <2>3, <2>4, <2>5, <3>1, <3>2 DEF Exact
  <2> QED
    BY <2>7, <2>8
<1> QED
  BY <1>6, <1>7

(* What Delete makes of the keys, when it leaves nothing below one it       *)
(* deletes.                                                                 *)
LEMMA DeleteFacts ==
    ASSUME NEW s, Tree(s), NEW D, <<>> \notin D,
           \A q \in DOMAIN s \ D : \A i \in 0 .. Len(q) : Cut(q, i) \notin D
    PROVE  /\ Tree(Delete(s, D))
           /\ DOMAIN Delete(s, D) = DOMAIN s \ D
           /\ \A q \in DOMAIN s \ D : Delete(s, D)[q].value = s[q].value
           /\ \A q \in DOMAIN s \ D : Exact(s, q) => Exact(Delete(s, D), q)
<1>1. PICK t : t = Delete(s, D)
  OBVIOUS
<1>2. DOMAIN t = DOMAIN s \ D
  BY <1>1 DEF Delete
<1>3. \A q \in DOMAIN s \ D : t[q] = [s[q] EXCEPT !.kids = {k \in @ : Append(q, k) \notin D}]
  BY <1>1 DEF Delete
<1>4. ASSUME NEW q \in DOMAIN s \ D
      PROVE  /\ {"value", "kids"} \subseteq DOMAIN t[q]
             /\ t[q].value = s[q].value
             /\ t[q].kids = {k \in s[q].kids : Append(q, k) \notin D}
  <2>1. t[q] = [s[q] EXCEPT !.kids = {k \in @ : Append(q, k) \notin D}]
    BY <1>3
  <2>2. {"value", "kids"} \subseteq DOMAIN s[q]
    BY DEF Tree
  <2> QED
    BY <2>1, <2>2
<1>5. Tree(t)
  <2>1. DOMAIN t \subseteq Path /\ <<>> \in DOMAIN t
    BY <1>2 DEF Tree
  <2>2. ASSUME NEW q \in DOMAIN t, NEW i \in 0 .. Len(q) PROVE Cut(q, i) \in DOMAIN t
    BY <1>2 DEF Tree
  <2> QED
    BY <1>2, <1>4, <2>1, <2>2 DEF Tree
<1>6. \A q \in DOMAIN s \ D : Exact(s, q) => Exact(t, q)
  BY <1>2, <1>4 DEF Exact
<1> QED
  BY <1>1, <1>2, <1>4, <1>5, <1>6

(* A key with an exact list that is empty has nothing below it.             *)
LEMMA NothingBelow ==
    ASSUME NEW s, Tree(s), NEW p \in DOMAIN s, Exact(s, p), s[p].kids = {},
           NEW q \in DOMAIN s, NEW i \in 0 .. Len(q), Cut(q, i) = p
    PROVE  q = p
<1>1. q \in Path /\ Len(q) \in Nat /\ i \in Nat
  BY DEF Tree, Path
<1>2. CASE i = Len(q)
  BY <1>1, <1>2, CutEnds
<1>3. CASE i # Len(q)
  <2>1. i + 1 \in 1 .. Len(q) /\ i + 1 - 1 = i /\ i + 1 \in 0 .. Len(q)
    BY <1>1, <1>3
  <2>2. q[i + 1] \in Name /\ Cut(q, i + 1) = Append(p, q[i + 1])
    BY <1>1, <2>1, CutIsAppend
  <2>3. Cut(q, i + 1) \in DOMAIN s
    BY <2>1 DEF Tree
  <2> QED
    BY <2>2, <2>3 DEF Exact
<1> QED
  BY <1>2, <1>3

-----------------------------------------------------------------------------
(* Keys with values, and keys that are there for what is below them only.   *)
Layout(leaves, inner) ==
    /\ leaves \subseteq Path /\ inner \subseteq Path /\ <<>> \in inner
    /\ leaves \cap inner = {}
    /\ \A q \in leaves \cup inner : Above(q) \subseteq inner

(* A store of such keys, with every list exact.                             *)
Keyed(s, leaves, inner) ==
    /\ Tree(s)
    /\ DOMAIN s \subseteq leaves \cup inner
    /\ \A q \in DOMAIN s : Exact(s, q)

TableOf(s, leaves) == [k \in DOMAIN s \cap leaves |-> s[k].value]

Entered(e, k, v) == [x \in DOMAIN e \cup {k} |-> IF x = k THEN v ELSE e[x]]
Dropped(e, k) == [x \in DOMAIN e \ {k} |-> e[x]]

(* No key with a value is above another key.                                *)
LEMMA LeafIsLast ==
    ASSUME NEW leaves, NEW inner, Layout(leaves, inner), NEW p \in leaves,
           NEW q \in leaves \cup inner, NEW i \in 0 .. Len(q), Cut(q, i) = p
    PROVE  q = p
<1>1. q \in Path /\ Len(q) \in Nat
  BY DEF Layout, Path
<1>2. CASE i = Len(q)
  BY <1>1, <1>2, CutEnds
<1>3. CASE i # Len(q)
  <2>1. i \in 0 .. Len(q) - 1
    BY <1>1, <1>3
  <2>2. p \in Above(q)
    BY <2>1 DEF Above
  <2> QED
    BY <2>2 DEF Layout
<1> QED
  BY <1>2, <1>3

(* To put a value under a key changes this entry of the table.              *)
LEMMA PutEnters ==
    ASSUME NEW leaves, NEW inner, Layout(leaves, inner), NEW s, Keyed(s, leaves, inner),
           NEW path \in leaves, NEW v
    PROVE  /\ Keyed(Put(s, v, path), leaves, inner)
           /\ TableOf(Put(s, v, path), leaves) = Entered(TableOf(s, leaves), path, v)
<1>1. /\ Tree(s) /\ path \in Path /\ path # <<>>
      /\ \A j \in 0 .. Len(path) - 2 : Cut(path, j) \in DOMAIN s => Exact(s, Cut(path, j))
  BY DEF Layout, Keyed
<1>2. PICK t : t = Put(s, v, path)
  OBVIOUS
<1>3. Tree(t) /\ PutMakes(s, v, path, t)
  BY <1>1, <1>2, PutTree, PutFacts
<1>4. DOMAIN t = DOMAIN s \cup Above(path) \cup {path}
  BY <1>3 DEF PutMakes
<1>5. Above(path) \subseteq inner /\ path \notin Above(path)
  BY DEF Layout
<1>6. DOMAIN t \subseteq leaves \cup inner
  BY <1>4, <1>5 DEF Keyed
<1>7. ASSUME NEW k \in Name, Append(path, k) \in DOMAIN s PROVE FALSE
  <2>1. PICK a : a = Append(path, k)
    OBVIOUS
  <2>2. Len(path) \in 0 .. Len(a) /\ Cut(a, Len(path)) = path /\ a # path
    BY <1>1, <2>1, AppendFacts DEF Path
  <2>3. a \in leaves \cup inner
    BY <1>7, <2>1 DEF Keyed
  <2> QED
    BY <2>2, <2>3, LeafIsLast
<1>8. ASSUME NEW q \in DOMAIN t PROVE Exact(t, q)
  BY <1>1, <1>2, <1>7, PutExact DEF Keyed
<1>9. DOMAIN t \cap leaves = (DOMAIN s \cap leaves) \cup {path}
  BY <1>4, <1>5 DEF Layout
<1>10. t[path].value = v
  <2>1. t[path] = [value |-> v, kids |-> {}]
    BY <1>3, Zenon DEF PutMakes
  <2> QED
    BY <2>1
<1>11. \A k \in DOMAIN s \cap leaves : k # path => t[k] = s[k]
  BY <1>3, <1>5 DEF PutMakes, Layout
<1>12. TableOf(t, leaves) = Entered(TableOf(s, leaves), path, v)
  BY <1>9, <1>10, <1>11 DEF TableOf, Entered
<1> QED
  BY <1>2, <1>3, <1>6, <1>8, <1>12 DEF Keyed

(* To delete a key with a value drops its entry.                            *)
LEMMA DeleteDrops ==
    ASSUME NEW leaves, NEW inner, Layout(leaves, inner), NEW s, Keyed(s, leaves, inner),
           NEW path \in leaves
    PROVE  /\ Keyed(Delete(s, {path}), leaves, inner)
           /\ TableOf(Delete(s, {path}), leaves) = Dropped(TableOf(s, leaves), path)
<1>1. Tree(s) /\ <<>> \notin {path}
  BY DEF Layout, Keyed
<1>2. \A q \in DOMAIN s \ {path} : \A i \in 0 .. Len(q) : Cut(q, i) \notin {path}
  BY LeafIsLast DEF Keyed
<1>3. PICK t : t = Delete(s, {path})
  OBVIOUS
<1>4. /\ Tree(t) /\ DOMAIN t = DOMAIN s \ {path}
      /\ \A q \in DOMAIN t : t[q].value = s[q].value
      /\ \A q \in DOMAIN t : Exact(s, q) => Exact(t, q)
  BY <1>1, <1>2, <1>3, DeleteFacts
<1>5. Keyed(t, leaves, inner)
  BY <1>4 DEF Keyed
<1>6. TableOf(t, leaves) = Dropped(TableOf(s, leaves), path)
  BY <1>4 DEF TableOf, Dropped
<1> QED
  BY <1>3, <1>5, <1>6

(* To prune keys without children leaves the table as it is.                *)
LEMMA PruneKeeps ==
    ASSUME NEW leaves, NEW inner, Layout(leaves, inner), NEW s, Keyed(s, leaves, inner),
           NEW D, D \subseteq inner, <<>> \notin D, \A q \in D : q \in DOMAIN s => s[q].kids = {}
    PROVE  /\ Keyed(Delete(s, D), leaves, inner)
           /\ TableOf(Delete(s, D), leaves) = TableOf(s, leaves)
<1>1. Tree(s)
  BY DEF Keyed
<1>2. ASSUME NEW q \in DOMAIN s \ D, NEW i \in 0 .. Len(q), Cut(q, i) \in D PROVE FALSE
  <2>1. Cut(q, i) \in DOMAIN s
    BY <1>1 DEF Tree
  <2>2. q = Cut(q, i)
    BY <1>1, <1>2, <2>1, NothingBelow DEF Keyed
  <2> QED
    BY <1>2, <2>2
<1>3. PICK t : t = Delete(s, D)
  OBVIOUS
<1>4. /\ Tree(t) /\ DOMAIN t = DOMAIN s \ D
      /\ \A q \in DOMAIN t : t[q].value = s[q].value
      /\ \A q \in DOMAIN t : Exact(s, q) => Exact(t, q)
  BY <1>1, <1>2, <1>3, DeleteFacts
<1>5. Keyed(t, leaves, inner)
  BY <1>4 DEF Keyed
<1>6. DOMAIN t \cap leaves = DOMAIN s \cap leaves
  BY <1>4 DEF Layout
<1>7. TableOf(t, leaves) = TableOf(s, leaves)
  BY <1>4, <1>6 DEF TableOf
<1> QED
  BY <1>3, <1>5, <1>7

(* The empty store, and its table.                                          *)
LEMMA NewIsKeyed ==
    ASSUME NEW leaves, NEW inner, Layout(leaves, inner), store = New
    PROVE  Keyed(store, leaves, inner) /\ TableOf(store, leaves) = <<>>
<1>1. DOMAIN store = {<<>>} /\ store[<<>>] = Blank /\ <<>> \in Path /\ Len(<<>>) = 0
  BY DEF New, Root, Path
<1>2. Cut(<<>>, 0) = <<>>
  BY <1>1, CutEnds
<1>3. \A k \in Name : Append(<<>>, k) # <<>>
  BY <1>1, AppendProperties DEF Path
<1>4. Blank.kids = {} /\ {"value", "kids"} \subseteq DOMAIN Blank
  BY DEF Blank
<1>5. Tree(store)
  <2>1. \A i \in 0 .. 0 : Cut(<<>>, i) = <<>>
    BY <1>2
  <2> QED
    BY <1>1, <1>4, <2>1 DEF Tree
<1>6. Exact(store, <<>>)
  BY <1>1, <1>3, <1>4 DEF Exact
<1>7. DOMAIN store \cap leaves = {} /\ DOMAIN store \subseteq leaves \cup inner
  BY <1>1 DEF Layout
<1>8. TableOf(store, leaves) = <<>>
  BY <1>7 DEF TableOf
<1> QED
  BY <1>1, <1>5, <1>6, <1>7, <1>8 DEF Keyed

-----------------------------------------------------------------------------
(* What a step of a manager may make of its table.                          *)
TableStep(e, e1, leaves) ==
    \/ e1 = e
    \/ \E k \in leaves : \E v : e1 = Entered(e, k, v)
    \/ \E k \in DOMAIN e : e1 = Dropped(e, k)

(* The changes the managers have in common (KeyStore) are such steps.       *)
KeptKeyed(leaves, inner) ==
    /\ Keyed(store', leaves, inner)
    /\ TableStep(TableOf(store, leaves), TableOf(store', leaves), leaves)

(* A call that sets a key keeps the tree and enters one leaf.               *)
LEMMA SetKeyKeeps ==
    ASSUME NEW leaves, NEW inner, Layout(leaves, inner), Keyed(store, leaves, inner),
           NEW path \in leaves, NEW v, SetKey(v, path)
    PROVE  KeptKeyed(leaves, inner)
<1>1. store' = Put(store, v, path)
  BY DEF SetKey
<1> QED
  BY <1>1, PutEnters DEF KeptKeyed, TableStep

(* Deleting a key that is there drops one leaf.                             *)
LEMMA DeleteKeeps ==
    ASSUME NEW leaves, NEW inner, Layout(leaves, inner), Keyed(store, leaves, inner),
           NEW path \in leaves, Has(path), store' = Delete(store, {path})
    PROVE  KeptKeyed(leaves, inner)
<1>1. path \in DOMAIN TableOf(store, leaves)
  BY DEF Has, TableOf
<1> QED
  BY <1>1, DeleteDrops DEF KeptKeyed, TableStep

(* So do the calls that remove a key, whether they note its parent or not.  *)
LEMMA RemoveKeeps ==
    ASSUME NEW leaves, NEW inner, Layout(leaves, inner), Keyed(store, leaves, inner),
           NEW path \in leaves, RemoveKey(path) \/ RemoveAndNote(path)
    PROVE  KeptKeyed(leaves, inner)
BY DeleteKeeps DEF RemoveKey, RemoveAndNote

(* Pruning an emptied key drops no leaf.                                    *)
LEMMA PruneKeyKeeps ==
    ASSUME NEW leaves, NEW inner, Layout(leaves, inner), Keyed(store, leaves, inner),
           NEW path \in inner, path # <<>>, PruneKey(path)
    PROVE  KeptKeyed(leaves, inner)
<1>1. CASE store' = store
  BY <1>1 DEF KeptKeyed, TableStep
<1>2. CASE Has(path) /\ Kids(path) = {}
  <2>1. store' = Delete(store, {path}) /\ store[path].kids = {}
    BY <1>2 DEF PruneKey, Kids
  <2>2. {path} \subseteq inner /\ <<>> \notin {path}
        /\ \A q \in {path} : q \in DOMAIN store => store[q].kids = {}
    BY <2>1
  <2> QED
    BY <2>1, <2>2, PruneKeeps DEF KeptKeyed, TableStep
<1> QED
  BY <1>1, <1>2 DEF PruneKey

(* Nor does cleaning emptied keys when a manager starts.                    *)
LEMMA StartCleanKeeps ==
    ASSUME NEW leaves, NEW inner, Layout(leaves, inner), Keyed(store, leaves, inner),
           NEW some, \A q \in some : q \in DOMAIN store => q \in inner /\ q # <<>>, StartClean(some)
    PROVE  KeptKeyed(leaves, inner)
<1>1. PICK D : D = {q \in some : Has(q) /\ Kids(q) = {}}
  OBVIOUS
<1>2. store' = Delete(store, D)
  BY <1>1 DEF StartClean
<1>3. D \subseteq inner /\ <<>> \notin D /\ \A q \in D : q \in DOMAIN store => store[q].kids = {}
  BY <1>1 DEF Has, Kids
<1> QED
  BY <1>2, <1>3, PruneKeeps DEF KeptKeyed, TableStep

(* What is at a key or below it, and the table without that.                *)
Below(e, k) == {x \in DOMAIN e : Len(k) <= Len(x) /\ Cut(x, Len(k)) = k}
Cleared(e, k) == [x \in DOMAIN e \ Below(e, k) |-> e[x]]

(* What a call may make of a table, where keys may be above others.         *)
Changed(e, e1) ==
    \/ e1 = e
    \/ \E k, v : e1 = Entered(e, k, v)
    \/ \E k \in DOMAIN e : e1 = Cleared(e, k)

(* Where no key with a value is above another, nothing more is dropped than *)
(* the key itself.                                                          *)
LEMMA StepIsChange ==
    ASSUME NEW leaves, NEW inner, Layout(leaves, inner),
           NEW e, DOMAIN e \subseteq leaves, NEW e1, TableStep(e, e1, leaves)
    PROVE  Changed(e, e1) /\ \A k \in DOMAIN e : Cut(k, Len(k)) = k
<1>1. ASSUME NEW k \in DOMAIN e
      PROVE  Cut(k, Len(k)) = k /\ k \in Path /\ Len(k) \in Nat
  <2>1. k \in Path
    BY DEF Layout
  <2> QED
    BY <2>1, CutEnds DEF Path
<1>2. ASSUME NEW k \in DOMAIN e PROVE Below(e, k) = {k}
  <2>1. ASSUME NEW x \in DOMAIN e, Len(k) <= Len(x), Cut(x, Len(k)) = k PROVE x = k
    <3>1. Len(k) \in 0 .. Len(x)
      BY <1>1, <2>1
    <3> QED
      BY <2>1, <3>1, LeafIsLast
  <2>2. Len(k) <= Len(k) /\ Cut(k, Len(k)) = k
    BY <1>1
  <2> QED
    BY <2>1, <2>2 DEF Below
<1>3. \A k \in DOMAIN e : Dropped(e, k) = Cleared(e, k)
  BY <1>2 DEF Dropped, Cleared
<1> QED
  BY <1>1, <1>3 DEF TableStep, Changed

(* A step of this kind is one of the table that is promised.                *)
LEMMA ChangeIsPromised ==
    ASSUME \A k \in DOMAIN Entries : Cut(k, Len(k)) = k, Changed(Entries, Entries')
    PROVE  [Promised!Next]_Entries
<1>1. PICK e : e = Entries
  OBVIOUS
<1>2. PICK e1 : e1 = Entries'
  OBVIOUS
<1>3. Changed(e, e1) /\ \A k \in DOMAIN e : Cut(k, Len(k)) = k
  BY <1>1, <1>2
<1>4. ASSUME NEW k, NEW v, e1 = Entered(e, k, v) PROVE Promised!Set(e1)
  <2>1. k \in DOMAIN e1
    BY <1>4 DEF Entered
  <2>2. ASSUME NEW x \in DOMAIN e \cup DOMAIN e1, x # k
        PROVE  x \in DOMAIN e /\ x \in DOMAIN e1 /\ e1[x] = e[x]
    BY <1>4, <2>2 DEF Entered
  <2> QED
    BY <1>1, <2>1, <2>2 DEF Promised!Set
<1>5. ASSUME NEW k \in DOMAIN e, e1 = Cleared(e, k) PROVE Promised!Drop(e1)
  <2>1. Cut(k, Len(k)) = k
    BY <1>3
  <2>2. ASSUME NEW x \in DOMAIN e PROVE Promised!Seqs!IsPrefix(k, x) <=> x \in Below(e, k)
    BY <2>1 DEF Promised!Seqs!IsPrefix, Cut, Below
  <2>3. {x \in DOMAIN e : ~Promised!Seqs!IsPrefix(k, x)} = DOMAIN e \ Below(e, k)
    BY <2>2
  <2>4. e1 = Promised!Seqs!Restrict(e, {x \in DOMAIN e : ~Promised!Seqs!IsPrefix(k, x)})
    BY <1>5, <2>3 DEF Cleared, Promised!Seqs!Restrict
  <2> QED
    BY <1>1, <2>4 DEF Promised!Drop
<1> QED
  BY <1>1, <1>2, <1>3, <1>4, <1>5 DEF Changed, Promised!Next

-----------------------------------------------------------------------------
(* The paths of the managers, and what is above them.                       *)
LEMMA ShortPaths ==
    ASSUME NEW a \in Name, NEW b \in Name, NEW c \in Name
    PROVE  /\ <<>> \in Path /\ <<a>> \in Path /\ <<a, b>> \in Path /\ <<a, b, c>> \in Path
           /\ Cut(<<a>>, 0) = <<>> /\ Cut(<<a, b>>, 0) = <<>> /\ Cut(<<a, b, c>>, 0) = <<>>
           /\ Cut(<<a, b>>, 1) = <<a>> /\ Cut(<<a, b, c>>, 1) = <<a>>
           /\ Cut(<<a, b, c>>, 2) = <<a, b>>
<1>1. <<>> \in Path /\ <<a>> \in Path /\ <<a, b>> \in Path /\ <<a, b, c>> \in Path
  BY DEF Path
<1>2. Cut(<<a>>, 0) = <<>> /\ Cut(<<a, b>>, 0) = <<>> /\ Cut(<<a, b, c>>, 0) = <<>>
  BY <1>1, CutEnds
<1>3. Cut(<<a, b>>, 1) = <<a>>
  <2>1. PICK p \in Path : p = <<a, b>>
    BY <1>1
  <2>2. Len(p) = 2 /\ p[1] = a /\ 1 \in 0 .. Len(p)
    BY <2>1
  <2>3. Cut(p, 1) \in Path /\ Len(Cut(p, 1)) = 1 /\ \A j \in 1 .. 1 : Cut(p, 1)[j] = p[j]
    BY <2>2, CutFacts
  <2>4. \A j \in 1 .. 1 : Cut(p, 1)[j] = <<a>>[j]
    BY <2>2, <2>3
  <2>5. <<a>> \in Path /\ Len(<<a>>) = 1
    BY <1>1
  <2> QED
    BY <2>1, <2>3, <2>4, <2>5, SamePath
<1>4. Cut(<<a, b, c>>, 1) = <<a>> /\ Cut(<<a, b, c>>, 2) = <<a, b>>
  <2>1. PICK p \in Path : p = <<a, b, c>>
    BY <1>1
  <2>2. Len(p) = 3 /\ p[1] = a /\ p[2] = b /\ 1 \in 0 .. Len(p) /\ 2 \in 0 .. Len(p)
    BY <2>1
  <2>3. Cut(p, 1) \in Path /\ Len(Cut(p, 1)) = 1 /\ \A j \in 1 .. 1 : Cut(p, 1)[j] = p[j]
    BY <2>2, CutFacts
  <2>4. Cut(p, 2) \in Path /\ Len(Cut(p, 2)) = 2 /\ \A j \in 1 .. 2 : Cut(p, 2)[j] = p[j]
    BY <2>2, CutFacts
  <2>5. \A j \in 1 .. 1 : Cut(p, 1)[j] = <<a>>[j]
    BY <2>2, <2>3
  <2>6. \A j \in 1 .. 2 : Cut(p, 2)[j] = <<a, b>>[j]
    <3>1. <<a, b>>[1] = a /\ <<a, b>>[2] = b /\ \A j \in 1 .. 2 : j = 1 \/ j = 2
      OBVIOUS
    <3> QED
      BY <2>2, <2>4, <3>1
  <2>7. <<a>> \in Path /\ Len(<<a>>) = 1 /\ <<a, b>> \in Path /\ Len(<<a, b>>) = 2
    BY <1>1
  <2>8. Cut(p, 1) = <<a>>
    BY <2>3, <2>5, <2>7, SamePath
  <2>9. Cut(p, 2) = <<a, b>>
    BY <2>4, <2>6, <2>7, SamePath
  <2> QED
    BY <2>1, <2>8, <2>9
<1> QED
  BY <1>1, <1>2, <1>3, <1>4

(* What is above a path of at most three names.                             *)
LEMMA AboveShort ==
    ASSUME NEW a \in Name, NEW b \in Name, NEW c \in Name
    PROVE  /\ Above(<<>>) = {}
           /\ Above(<<a>>) = {<<>>}
           /\ Above(<<a, b>>) = {<<>>, <<a>>}
           /\ Above(<<a, b, c>>) = {<<>>, <<a>>, <<a, b>>}
<1>0. /\ Cut(<<a>>, 0) = <<>> /\ Cut(<<a, b>>, 0) = <<>> /\ Cut(<<a, b, c>>, 0) = <<>>
      /\ Cut(<<a, b>>, 1) = <<a>> /\ Cut(<<a, b, c>>, 1) = <<a>>
      /\ Cut(<<a, b, c>>, 2) = <<a, b>>
  BY ShortPaths
<1>1. Above(<<>>) = {}
  <2>1. Len(<<>>) = 0 /\ 0 .. 0 - 1 = {}
    OBVIOUS
  <2> QED
    BY <2>1 DEF Above
<1>2. Above(<<a>>) = {<<>>}
  <2>1. PICK p : p = <<a>>
    OBVIOUS
  <2>2. Len(p) = 1 /\ 0 .. 1 - 1 = {0}
    BY <2>1
  <2>3. Above(p) = {Cut(p, i) : i \in {0}}
    BY <2>2 DEF Above
  <2>4. Above(p) = {Cut(p, 0)}
    BY <2>3
  <2> QED
    BY <1>0, <2>1, <2>4
<1>3. Above(<<a, b>>) = {<<>>, <<a>>}
  <2>1. PICK p : p = <<a, b>>
    OBVIOUS
  <2>2. Len(p) = 2 /\ 0 .. 2 - 1 = {0, 1}
    BY <2>1
  <2>3. Above(p) = {Cut(p, i) : i \in {0, 1}}
    BY <2>2 DEF Above
  <2>4. Above(p) = {Cut(p, 0), Cut(p, 1)}
    BY <2>3
  <2> QED
    BY <1>0, <2>1, <2>4
<1>4. Above(<<a, b, c>>) = {<<>>, <<a>>, <<a, b>>}
  <2>1. PICK p : p = <<a, b, c>>
    OBVIOUS
  <2>2. Len(p) = 3 /\ 0 .. 3 - 1 = {0, 1, 2}
    BY <2>1
  <2>3. Above(p) = {Cut(p, i) : i \in {0, 1, 2}}
    BY <2>2 DEF Above
  <2>4. Above(p) = {Cut(p, 0), Cut(p, 1), Cut(p, 2)}
    BY <2>3
  <2> QED
    BY <1>0, <2>1, <2>4
<1> QED
  BY <1>1, <1>2, <1>3, <1>4

(* Such paths are paths of the store.                                       *)
LEMMA PathShapes ==
    /\ <<>> \in Path /\ Above(<<>>) = {}
    /\ \A a \in Name : <<a>> \in Path /\ Above(<<a>>) = {<<>>}
    /\ \A a, b \in Name : <<a, b>> \in Path /\ Above(<<a, b>>) = {<<>>, <<a>>}
    /\ \A a, b, c \in Name :
         <<a, b, c>> \in Path /\ Above(<<a, b, c>>) = {<<>>, <<a>>, <<a, b>>}
<1>1. "default" \in Name
  BY DEF Name
<1>2. <<>> \in Path /\ Above(<<>>) = {}
  BY <1>1, ShortPaths, AboveShort
<1>3. ASSUME NEW a \in Name PROVE <<a>> \in Path /\ Above(<<a>>) = {<<>>}
  BY <1>1, ShortPaths, AboveShort
<1>4. ASSUME NEW a \in Name, NEW b \in Name
      PROVE  <<a, b>> \in Path /\ Above(<<a, b>>) = {<<>>, <<a>>}
  BY <1>1, ShortPaths, AboveShort
<1>5. ASSUME NEW a \in Name, NEW b \in Name, NEW c \in Name
      PROVE  <<a, b, c>> \in Path /\ Above(<<a, b, c>>) = {<<>>, <<a>>, <<a, b>>}
  BY ShortPaths, AboveShort
<1> QED
  BY <1>2, <1>3, <1>4, <1>5

-----------------------------------------------------------------------------
(* The calls that list children find every key one level below, of a tree   *)
(* that is part of the store.                                               *)
LEMMA UnderIn ==
    ASSUME NEW s, Tree(s), \A q \in DOMAIN s : q \in DOMAIN store /\ store[q] = s[q],
           NEW P, NEW n \in Nat, \A q \in P : q \in DOMAIN s /\ Len(q) = n /\ Exact(s, q)
    PROVE  Under(P) = {q \in DOMAIN s : Len(q) = n + 1 /\ Cut(q, n) \in P}
<1>1. \A x : x \in Under(P) <=> \E q \in P : \E k \in s[q].kids : x = Append(q, k)
  BY DEF Under, Kids, Has
<1>2. ASSUME NEW q \in P, NEW k \in s[q].kids
      PROVE  /\ Append(q, k) \in DOMAIN s /\ Len(Append(q, k)) = n + 1
             /\ Cut(Append(q, k), n) \in P
  <2>1. k \in Name /\ Append(q, k) \in DOMAIN s /\ q \in Path /\ Len(q) = n
    BY DEF Exact, Tree
  <2> QED
    BY <2>1, AppendFacts
<1>3. ASSUME NEW x \in DOMAIN s, Len(x) = n + 1, Cut(x, n) \in P
      PROVE  \E q \in P : \E k \in s[q].kids : x = Append(q, k)
  <2>1. x \in Path /\ n + 1 \in 1 .. Len(x) /\ n + 1 - 1 = n
    BY <1>3 DEF Tree
  <2>2. x[n + 1] \in Name /\ Cut(x, n + 1) = Append(Cut(x, n), x[n + 1])
    BY <2>1, CutIsAppend
  <2>3. Cut(x, n + 1) = x
    BY <1>3, <2>1, CutEnds
  <2>4. x[n + 1] \in s[Cut(x, n)].kids
    BY <1>3, <2>2, <2>3 DEF Exact
  <2> QED
    BY <1>3, <2>2, <2>3, <2>4
<1>4. \A x : x \in Under(P) <=> x \in DOMAIN s /\ Len(x) = n + 1 /\ Cut(x, n) \in P
  <2> TAKE x
  <2>1. ASSUME x \in Under(P) PROVE x \in DOMAIN s /\ Len(x) = n + 1 /\ Cut(x, n) \in P
    <3>1. PICK q \in P : \E k \in s[q].kids : x = Append(q, k)
      BY <1>1, <2>1
    <3>2. PICK k \in s[q].kids : x = Append(q, k)
      BY <3>1
    <3> QED
      BY <1>2, <3>2
  <2>2. ASSUME x \in DOMAIN s, Len(x) = n + 1, Cut(x, n) \in P PROVE x \in Under(P)
    BY <1>1, <1>3, <2>2
  <2> QED
    BY <2>1, <2>2
<1> QED
  BY <1>4

(* The same of the store itself.                                            *)
LEMMA UnderLevel ==
    ASSUME Tree(store), NEW P, NEW n \in Nat,
           \A q \in P : q \in DOMAIN store /\ Len(q) = n /\ Exact(store, q)
    PROVE  Under(P) = {q \in DOMAIN store : Len(q) = n + 1 /\ Cut(q, n) \in P}
BY UnderIn

(* What the managers list level by level are the keys of that length.       *)
LEMMA Levels ==
    ASSUME NEW leaves, NEW inner, Keyed(store, leaves, inner)
    PROVE  /\ Under({Root}) = {q \in DOMAIN store : Len(q) = 1}
           /\ Under({q \in DOMAIN store : Len(q) = 1}) = {q \in DOMAIN store : Len(q) = 2}
           /\ Under({q \in DOMAIN store : Len(q) = 2}) = {q \in DOMAIN store : Len(q) = 3}
<1>1. Tree(store) /\ DOMAIN store \subseteq Path /\ \A q \in DOMAIN store : Exact(store, q)
  BY DEF Keyed, Tree
<1>2. ASSUME NEW q \in DOMAIN store, NEW n \in Nat, Len(q) = n + 1
      PROVE  Cut(q, n) \in DOMAIN store /\ Len(Cut(q, n)) = n
  <2>1. n \in 0 .. Len(q)
    BY <1>2
  <2> QED
    BY <1>1, <2>1, CutFacts DEF Tree
<1>3. ASSUME NEW n \in Nat
      PROVE  Under({q \in DOMAIN store : Len(q) = n}) = {q \in DOMAIN store : Len(q) = n + 1}
  <2> DEFINE P == {q \in DOMAIN store : Len(q) = n}
  <2>1. Under(P) = {q \in DOMAIN store : Len(q) = n + 1 /\ Cut(q, n) \in P}
    <3>1. \A q \in P : q \in DOMAIN store /\ Len(q) = n /\ Exact(store, q)
      BY <1>1
    <3> HIDE DEF P
    <3> QED
      BY <1>1, <3>1, UnderLevel
  <2> QED
    BY <1>2, <2>1
<1>4. {Root} = {q \in DOMAIN store : Len(q) = 0}
  <2>1. <<>> \in DOMAIN store /\ Len(<<>>) = 0
    BY <1>1 DEF Tree
  <2>2. \A q \in DOMAIN store : Len(q) = 0 => q = <<>>
    BY <1>1 DEF Path
  <2> QED
    BY <2>1, <2>2 DEF Root
<1> DEFINE level(n) == {q \in DOMAIN store : Len(q) = n}
<1>5. \A n \in Nat : Under(level(n)) = level(n + 1)
  BY <1>3
<1> HIDE DEF level
<1>6. Under(level(0)) = level(1) /\ Under(level(1)) = level(2) /\ Under(level(2)) = level(3)
  <2>1. 0 + 1 = 1 /\ 1 + 1 = 2 /\ 2 + 1 = 3 /\ 0 \in Nat /\ 1 \in Nat /\ 2 \in Nat
    OBVIOUS
  <2> QED
    BY <1>5, <2>1
<1>7. {Root} = level(0)
  BY <1>4 DEF level
<1> QED
  BY <1>6, <1>7 DEF level

(* The first of some keys with values that is there is the first of some    *)
(* entries that is there.                                                   *)
LEMMA FirstIsResolved ==
    ASSUME NEW leaves, NEW paths \in Seq(leaves)
    PROVE  FirstOf(paths) = Resolved(TableOf(store, leaves), paths)
<1> DEFINE e == TableOf(store, leaves)
           found == {i \in 1 .. Len(paths) : Has(paths[i])}
           first(T) == CHOOSE i \in T : \A j \in T : i <= j
<1>1. \A i \in 1 .. Len(paths) : /\ paths[i] \in DOMAIN e <=> Has(paths[i])
                                 /\ paths[i] \in DOMAIN e => e[paths[i]] = Get(paths[i])
  BY DEF TableOf, Has, Get
<1> HIDE DEF e
<1>2. {i \in 1 .. Len(paths) : paths[i] \in DOMAIN e} = found
  BY <1>1
<1>3. FirstOf(paths) = IF found = {} THEN NoValue ELSE Get(paths[first(found)])
  BY DEF FirstOf
<1>4. \A T : T = {i \in 1 .. Len(paths) : paths[i] \in DOMAIN e}
        => Resolved(e, paths) = IF T = {} THEN NoValue ELSE e[paths[first(T)]]
  BY DEF Resolved
<1>5. found # {} => first(found) \in found
  <2>1. found \subseteq Nat
    OBVIOUS
  <2>2. found # {} => \E i \in found : \A j \in found : i <= j
    BY <2>1, LeastNatural
  <2> QED
    BY <2>2
<1> HIDE DEF first
<1>6. found # {} => e[paths[first(found)]] = Get(paths[first(found)])
  BY <1>1, <1>5
<1>7. Resolved(e, paths) = IF found = {} THEN NoValue ELSE e[paths[first(found)]]
  BY <1>2, <1>4
<1> QED
  BY <1>3, <1>6, <1>7 DEF e

-----------------------------------------------------------------------------
(* The reservation and the renewal policies: a default of a currency, a     *)
(* default of a channel (of a sender), and one of a peer in the channel (of *)
(* a channel from the sender).                                              *)
PolicyLeaves(A, B) ==
    {<<c, "default">> : c \in Currency}
    \cup {<<c, a, "default">> : c \in Currency, a \in A}
    \cup {<<c, a, b>> : c \in Currency, a \in A, b \in B}

PolicyInner(A) ==
    {<<>>} \cup {<<c>> : c \in Currency} \cup {<<c, a>> : c \in Currency, a \in A}

(* The leaves of a policy table.                                            *)
LEMMA PolicyLeaf ==
    ASSUME NEW A, NEW B, NEW q
    PROVE  q \in PolicyLeaves(A, B) <=>
             \/ \E c \in Currency : q = <<c, "default">>
             \/ \E c \in Currency, a \in A : q = <<c, a, "default">>
             \/ \E c \in Currency, a \in A, b \in B : q = <<c, a, b>>
BY DEF PolicyLeaves

(* The keys above them.                                                     *)
LEMMA PolicyNode ==
    ASSUME NEW A, NEW q
    PROVE  q \in PolicyInner(A) <=>
             \/ q = <<>>
             \/ \E c \in Currency : q = <<c>>
             \/ \E c \in Currency, a \in A : q = <<c, a>>
BY DEF PolicyInner

(* They form a layout.                                                      *)
LEMMA PolicyLayout ==
    ASSUME NEW A, NEW B, A \subseteq Name, B \subseteq Name, "default" \notin A
    PROVE  Layout(PolicyLeaves(A, B), PolicyInner(A))
<1>0. Currency \subseteq Name /\ "default" \in Name
  BY DEF Name
<1>1. ASSUME NEW q \in PolicyLeaves(A, B)
      PROVE  q \in Path /\ q \notin PolicyInner(A) /\ Above(q) \subseteq PolicyInner(A)
  <2>1. ASSUME NEW c \in Currency, q = <<c, "default">>
        PROVE  q \in Path /\ q \notin PolicyInner(A) /\ Above(q) \subseteq PolicyInner(A)
    <3>1. q \in Path /\ Above(q) = {<<>>, <<c>>} /\ Len(q) = 2 /\ q[2] = "default"
      BY <1>0, <2>1, PathShapes
    <3>2. <<>> \in PolicyInner(A) /\ <<c>> \in PolicyInner(A)
      BY PolicyNode
    <3>3. q \notin PolicyInner(A)
      BY <3>1, PolicyNode
    <3> QED
      BY <3>1, <3>2, <3>3
  <2>2. ASSUME NEW c \in Currency, NEW a \in A, NEW b \in Name, q = <<c, a, b>>
        PROVE  q \in Path /\ q \notin PolicyInner(A) /\ Above(q) \subseteq PolicyInner(A)
    <3>1. q \in Path /\ Above(q) = {<<>>, <<c>>, <<c, a>>} /\ Len(q) = 3
      BY <1>0, <2>2, PathShapes
    <3>2. <<>> \in PolicyInner(A) /\ <<c>> \in PolicyInner(A) /\ <<c, a>> \in PolicyInner(A)
      BY PolicyNode
    <3>3. q \notin PolicyInner(A)
      BY <3>1, PolicyNode
    <3> QED
      BY <3>1, <3>2, <3>3
  <2> QED
    BY <1>0, <2>1, <2>2, PolicyLeaf
<1>2. ASSUME NEW q \in PolicyInner(A)
      PROVE  q \in Path /\ Above(q) \subseteq PolicyInner(A)
  <2>1. CASE q = <<>>
    BY <2>1, PathShapes
  <2>2. ASSUME NEW c \in Currency, q = <<c>>
        PROVE  q \in Path /\ Above(q) \subseteq PolicyInner(A)
    BY <1>0, <2>2, PathShapes, PolicyNode
  <2>3. ASSUME NEW c \in Currency, NEW a \in A, q = <<c, a>>
        PROVE  q \in Path /\ Above(q) \subseteq PolicyInner(A)
    <3>1. q \in Path /\ Above(q) = {<<>>, <<c>>}
      BY <1>0, <2>3, PathShapes
    <3>2. <<>> \in PolicyInner(A) /\ <<c>> \in PolicyInner(A)
      BY PolicyNode
    <3> QED
      BY <3>1, <3>2
  <2> QED
    <3>1. \/ q = <<>> \/ (\E c \in Currency : q = <<c>>)
          \/ \E c \in Currency, a \in A : q = <<c, a>>
      BY PolicyNode
    <3> QED
      BY <2>1, <2>2, <2>3, <3>1
<1>3. <<>> \in PolicyInner(A)
  BY PolicyNode
<1> QED
  BY <1>1, <1>2, <1>3 DEF Layout

(* Every policy is listed, and nothing else is.                             *)
LEMMA PoliciesListed ==
    ASSUME NEW A, NEW B, A \subseteq Name, B \subseteq Name, "default" \notin A,
           Keyed(store, PolicyLeaves(A, B), PolicyInner(A))
    PROVE  LET two == Under(Under({Root})) IN
           {q \in two : q[2] = "default"} \cup Under({q \in two : q[2] # "default"})
             = DOMAIN store \cap PolicyLeaves(A, B)
<1> DEFINE two == Under(Under({Root}))
           P == {q \in two : q[2] # "default"}
<1>0. Currency \subseteq Name /\ "default" \in Name /\ Tree(store)
      /\ \A q \in DOMAIN store : Exact(store, q)
  BY DEF Name, Keyed
<1>1. two = {q \in DOMAIN store : Len(q) = 2}
  BY Levels
<1>2. DOMAIN store \subseteq PolicyLeaves(A, B) \cup PolicyInner(A)
  BY DEF Keyed
<1> HIDE DEF two
<1>3. Under(P) = {q \in DOMAIN store : Len(q) = 2 + 1 /\ Cut(q, 2) \in P}
  <2>1. \A q \in P : q \in DOMAIN store /\ Len(q) = 2 /\ Exact(store, q)
    BY <1>0, <1>1
  <2> HIDE DEF P
  <2> QED
    BY <1>0, <2>1, UnderLevel
<1>4. ASSUME NEW q \in DOMAIN store, Len(q) = 2
      PROVE  q[2] = "default" <=> q \in PolicyLeaves(A, B)
  <2>1. ASSUME q \in PolicyLeaves(A, B) PROVE q[2] = "default"
    <3>1. \/ \E c \in Currency : q = <<c, "default">>
          \/ \E c \in Currency, a \in A : q = <<c, a, "default">>
          \/ \E c \in Currency, a \in A, b \in B : q = <<c, a, b>>
      BY <2>1, PolicyLeaf
    <3> QED
      BY <1>4, <3>1
  <2>2. ASSUME q \in PolicyInner(A) PROVE q[2] # "default"
    <3>1. \/ q = <<>> \/ (\E c \in Currency : q = <<c>>)
          \/ \E c \in Currency, a \in A : q = <<c, a>>
      BY <2>2, PolicyNode
    <3> QED
      BY <1>4, <3>1
  <2> QED
    BY <1>2, <2>1, <2>2
<1>5. ASSUME NEW q \in DOMAIN store, Len(q) = 3
      PROVE  q \in PolicyLeaves(A, B) /\ Cut(q, 2) \in P
  <2>0. q \in PolicyLeaves(A, B)
    <3>1. ASSUME q \in PolicyInner(A) PROVE FALSE
      <4>1. \/ q = <<>> \/ (\E c \in Currency : q = <<c>>)
            \/ \E c \in Currency, a \in A : q = <<c, a>>
        BY <3>1, PolicyNode
      <4>2. q # <<>>
        BY <1>5
      <4>3. \A c : q # <<c>>
        BY <1>5
      <4>4. \A c, a : q # <<c, a>>
        BY <1>5
      <4> QED
        BY <4>1, <4>2, <4>3, <4>4
    <3> QED
      BY <1>2, <3>1
  <2>1. PICK c \in Currency, a \in A, b \in Name : q = <<c, a, b>>
    <3>1. \/ \E c \in Currency : q = <<c, "default">>
          \/ \E c \in Currency, a \in A : q = <<c, a, "default">>
          \/ \E c \in Currency, a \in A, b \in B : q = <<c, a, b>>
      BY <2>0, PolicyLeaf
    <3>2. ~ \E c \in Currency : q = <<c, "default">>
      BY <1>5
    <3> QED
      BY <1>0, <3>1, <3>2
  <2>2. Cut(q, 2) = <<c, a>>
    BY <1>0, <2>1, ShortPaths
  <2>3. Cut(q, 2) \in DOMAIN store
    <3>1. 2 \in 0 .. Len(q)
      BY <1>5
    <3> QED
      BY <1>0, <3>1 DEF Tree
  <2>4. Cut(q, 2) \in two /\ Cut(q, 2)[2] = a /\ a # "default"
    BY <1>1, <2>2, <2>3
  <2> QED
    BY <2>0, <2>4
<1>6. \A q \in DOMAIN store \cap PolicyLeaves(A, B) : Len(q) = 2 \/ Len(q) = 3
  BY PolicyLeaf
<1>7. Under(P) = {q \in DOMAIN store : Len(q) = 3}
  BY <1>3, <1>5
<1> HIDE DEF P
<1>8. {q \in two : q[2] = "default"} \cup Under(P) = DOMAIN store \cap PolicyLeaves(A, B)
  BY <1>1, <1>4, <1>5, <1>6, <1>7
<1> QED
  BY <1>8 DEF P, two

-----------------------------------------------------------------------------
(* The reservation policies.                                                *)
ReservLeaves == PolicyLeaves(Paych, Peer)
ReservInner == PolicyInner(Paych)

(* The reservation policies: their keys form a layout.                      *)
LEMMA ReservLayout ==
    /\ Layout(ReservLeaves, ReservInner)
    /\ \A c \in Currency : Reserv!ForCurrency(c) \in ReservLeaves
    /\ \A c \in Currency, ch \in Paych : Reserv!ForPaych(c, ch) \in ReservLeaves
    /\ \A c \in Currency, ch \in Paych, p \in Peer : Reserv!ForPeer(c, ch, p) \in ReservLeaves
    /\ \A c \in Currency, ch \in Paych : <<c, ch>> \in ReservInner /\ <<c, ch>> # <<>>
<1>1. Paych \subseteq Name /\ Peer \subseteq Name /\ "default" \notin Paych
  BY DefaultAssumption DEF Name
<1>2. Layout(ReservLeaves, ReservInner)
  BY <1>1, PolicyLayout DEF ReservLeaves, ReservInner
<1> QED
  BY <1>2, PolicyLeaf, PolicyNode DEF ReservLeaves, ReservInner, Reserv!ForCurrency,
     Reserv!ForPaych, Reserv!ForPeer, Reserv!DefaultPolicyID

(* Every step of them is one on their table.                                *)
LEMMA ReservStep ==
    ASSUME Keyed(store, ReservLeaves, ReservInner), Reserv!Next
    PROVE  KeptKeyed(ReservLeaves, ReservInner)
<1>1. ASSUME NEW path \in ReservLeaves, NEW v, Reserv!SetKey(v, path)
      PROVE  KeptKeyed(ReservLeaves, ReservInner)
  <2>1. SetKey(v, path)
    BY <1>1 DEF Reserv!SetKey, Reserv!Put, SetKey, Put, Reserv!Blank, Blank
  <2> QED
    BY <2>1, SetKeyKeeps, ReservLayout
<1>2. ASSUME NEW path \in ReservLeaves, Reserv!RemoveKey(path) \/ Reserv!RemoveAndNote(path)
      PROVE  KeptKeyed(ReservLeaves, ReservInner)
  <2>1. Has(path) /\ store' = Delete(store, {path})
    BY <1>2 DEF Reserv!RemoveKey, Reserv!RemoveAndNote, Reserv!Has, Has, Reserv!Delete, Delete
  <2> QED
    BY <2>1, DeleteKeeps, ReservLayout
<1>3. ASSUME NEW path \in ReservInner, path # <<>>, Reserv!PruneKey(path)
      PROVE  KeptKeyed(ReservLeaves, ReservInner)
  <2>1. PruneKey(path)
    BY <1>3 DEF Reserv!PruneKey, PruneKey, Reserv!Has, Has, Reserv!Kids, Kids, Reserv!Delete, Delete
  <2> QED
    BY <1>3, <2>1, PruneKeyKeeps, ReservLayout
<1>4. CASE Reserv!Start
  <2>1. StartClean(Reserv!Inner)
    BY <1>4 DEF Reserv!Start, Reserv!StartClean, StartClean, Reserv!Has, Has, Reserv!Kids, Kids,
       Reserv!Delete, Delete
  <2>2. \A q \in Reserv!Inner : q \in ReservInner /\ q # <<>>
    BY ReservLayout DEF Reserv!Inner
  <2> QED
    BY <2>1, <2>2, StartCleanKeeps, ReservLayout
<1> QED
  <2>1. CASE \E c \in Currency, max \in Max : Reserv!SetDefaultPolicy(c, max)
    BY <1>1, <2>1, ReservLayout DEF Reserv!SetDefaultPolicy
  <2>2. CASE \E c \in Currency : Reserv!RemoveDefaultPolicy(c)
    BY <1>2, <2>2, ReservLayout DEF Reserv!RemoveDefaultPolicy
  <2>3. ASSUME NEW c \in Currency, NEW ch \in Paych, NEW max \in Max,
               Reserv!SetPaychPolicy(c, ch, max)
        PROVE  KeptKeyed(ReservLeaves, ReservInner)
    BY <1>1, <2>3, ReservLayout DEF Reserv!SetPaychPolicy
  <2>4. ASSUME NEW c \in Currency, NEW ch \in Paych,
               Reserv!RemovePaychPolicy(c, ch) \/ Reserv!PrunePaych(c, ch)
        PROVE  KeptKeyed(ReservLeaves, ReservInner)
    BY <1>2, <1>3, <2>4, ReservLayout DEF Reserv!RemovePaychPolicy, Reserv!PrunePaych
  <2>5. ASSUME NEW c \in Currency, NEW ch \in Paych, NEW p \in Peer, NEW max \in Max,
               Reserv!SetPeerPolicy(c, ch, p, max)
        PROVE  KeptKeyed(ReservLeaves, ReservInner)
    BY <1>1, <2>5, ReservLayout DEF Reserv!SetPeerPolicy
  <2>6. ASSUME NEW c \in Currency, NEW ch \in Paych, NEW p \in Peer,
               Reserv!RemovePeerPolicy(c, ch, p)
        PROVE  KeptKeyed(ReservLeaves, ReservInner)
    BY <1>2, <2>6, ReservLayout DEF Reserv!RemovePeerPolicy
  <2> QED
    BY <1>4, <2>1, <2>2, <2>3, <2>4, <2>5, <2>6 DEF Reserv!Next

(* What they list is their table.                                           *)
LEMMA ReservEntries ==
    ASSUME Keyed(store, ReservLeaves, ReservInner)
    PROVE  Reserv!Entries = TableOf(store, ReservLeaves)
<1>1. Paych \subseteq Name /\ Peer \subseteq Name /\ "default" \notin Paych
  BY DefaultAssumption DEF Name
<1> DEFINE two == Under(Under({Root}))
<1>2. {q \in two : q[2] = "default"} \cup Under({q \in two : q[2] # "default"})
        = DOMAIN store \cap ReservLeaves
  BY <1>1, PoliciesListed DEF ReservLeaves, ReservInner
<1>3. Reserv!ListPaychs = two
  BY DEF Reserv!ListPaychs, Reserv!ListCurrencyIDs, Reserv!Under, Under, Reserv!Kids, Kids,
     Reserv!Has, Has, Reserv!Root, Root
<1>4. \A P : Reserv!Under(P) = Under(P)
  BY DEF Reserv!Under, Under, Reserv!Kids, Kids, Reserv!Has, Has
<1>5. {q \in Reserv!ListPaychs : q[2] = "default"} \cup Reserv!ListPeers
        = DOMAIN store \cap ReservLeaves
  BY <1>2, <1>3, <1>4 DEF Reserv!ListPeers, Reserv!DefaultPolicyID
<1> QED
  BY <1>5 DEF Reserv!Entries, Reserv!Get, TableOf, Reserv!DefaultPolicyID

(* What applies is what is listed.                                          *)
LEMMA ReservApplies ==
    ASSUME Keyed(store, ReservLeaves, ReservInner)
    PROVE  Reserv!ListedApplies
<1>1. \A paths : paths \in Seq(ReservLeaves) =>
        Reserv!FirstOf(paths) = Reserv!Resolved(Reserv!Entries, paths)
  <2>1. \A paths \in Seq(ReservLeaves) : FirstOf(paths) = Resolved(Reserv!Entries, paths)
    BY FirstIsResolved, ReservEntries
  <2>2. \A paths : Reserv!FirstOf(paths) = FirstOf(paths)
    BY DEF Reserv!FirstOf, FirstOf, Reserv!Has, Has, Reserv!Get, Get
  <2>3. \A e, paths : Reserv!Resolved(e, paths) = Resolved(e, paths)
    BY DEF Reserv!Resolved, Resolved
  <2> QED
    BY <2>1, <2>2, <2>3
<1>2. \A a, b, c \in ReservLeaves : /\ <<a>> \in Seq(ReservLeaves) /\ <<a, b>> \in Seq(ReservLeaves)
                                    /\ <<a, b, c>> \in Seq(ReservLeaves)
  OBVIOUS
<1> QED
  BY <1>1, <1>2, ReservLayout DEF Reserv!ListedApplies, Reserv!GetDefaultPolicy,
     Reserv!GetPaychPolicy, Reserv!GetPeerPolicy

-----------------------------------------------------------------------------
(* The renewal policies.                                                    *)
RenewLeaves == PolicyLeaves(Peer, Paych)
RenewInner == PolicyInner(Peer)

(* The renewal policies: their keys form a layout.                          *)
LEMMA RenewLayout ==
    /\ Layout(RenewLeaves, RenewInner)
    /\ \A c \in Currency : Renew!ForCurrency(c) \in RenewLeaves
    /\ \A c \in Currency, from \in Peer : Renew!ForSender(c, from) \in RenewLeaves
    /\ \A c \in Currency, from \in Peer, ch \in Paych : Renew!ForPaych(c, from, ch) \in RenewLeaves
    /\ \A c \in Currency, from \in Peer : <<c, from>> \in RenewInner /\ <<c, from>> # <<>>
<1>1. Paych \subseteq Name /\ Peer \subseteq Name /\ "default" \notin Peer
  BY DefaultAssumption DEF Name
<1>2. Layout(RenewLeaves, RenewInner)
  BY <1>1, PolicyLayout DEF RenewLeaves, RenewInner
<1> QED
  BY <1>2, PolicyLeaf, PolicyNode DEF RenewLeaves, RenewInner, Renew!ForCurrency,
     Renew!ForSender, Renew!ForPaych, Renew!DefaultPolicyID

(* Every step of them is one on their table.                                *)
LEMMA RenewStep ==
    ASSUME Keyed(store, RenewLeaves, RenewInner), Renew!Next
    PROVE  KeptKeyed(RenewLeaves, RenewInner)
<1>1. ASSUME NEW path \in RenewLeaves, NEW v, Renew!SetKey(v, path)
      PROVE  KeptKeyed(RenewLeaves, RenewInner)
  <2>1. SetKey(v, path)
    BY <1>1 DEF Renew!SetKey, Renew!Put, SetKey, Put, Renew!Blank, Blank
  <2> QED
    BY <2>1, SetKeyKeeps, RenewLayout
<1>2. ASSUME NEW path \in RenewLeaves, Renew!RemoveKey(path) \/ Renew!RemoveAndNote(path)
      PROVE  KeptKeyed(RenewLeaves, RenewInner)
  <2>1. Has(path) /\ store' = Delete(store, {path})
    BY <1>2 DEF Renew!RemoveKey, Renew!RemoveAndNote, Renew!Has, Has, Renew!Delete, Delete
  <2> QED
    BY <2>1, DeleteKeeps, RenewLayout
<1>3. ASSUME NEW path \in RenewInner, path # <<>>, Renew!PruneKey(path)
      PROVE  KeptKeyed(RenewLeaves, RenewInner)
  <2>1. PruneKey(path)
    BY <1>3 DEF Renew!PruneKey, PruneKey, Renew!Has, Has, Renew!Kids, Kids, Renew!Delete, Delete
  <2> QED
    BY <1>3, <2>1, PruneKeyKeeps, RenewLayout
<1>4. CASE Renew!Start
  <2>1. StartClean(Renew!Inner)
    BY <1>4 DEF Renew!Start, Renew!StartClean, StartClean, Renew!Has, Has, Renew!Kids, Kids,
       Renew!Delete, Delete
  <2>2. \A q \in Renew!Inner : q \in RenewInner /\ q # <<>>
    BY RenewLayout DEF Renew!Inner
  <2> QED
    BY <2>1, <2>2, StartCleanKeeps, RenewLayout
<1> QED
  <2>1. CASE \E c \in Currency, d \in Duration : Renew!SetDefaultPolicy(c, d)
    BY <1>1, <2>1, RenewLayout DEF Renew!SetDefaultPolicy
  <2>2. CASE \E c \in Currency : Renew!RemoveDefaultPolicy(c)
    BY <1>2, <2>2, RenewLayout DEF Renew!RemoveDefaultPolicy
  <2>3. ASSUME NEW c \in Currency, NEW from \in Peer, NEW d \in Duration,
               Renew!SetSenderPolicy(c, from, d)
        PROVE  KeptKeyed(RenewLeaves, RenewInner)
    BY <1>1, <2>3, RenewLayout DEF Renew!SetSenderPolicy
  <2>4. ASSUME NEW c \in Currency, NEW from \in Peer,
               Renew!RemoveSenderPolicy(c, from) \/ Renew!PruneSender(c, from)
        PROVE  KeptKeyed(RenewLeaves, RenewInner)
    BY <1>2, <1>3, <2>4, RenewLayout DEF Renew!RemoveSenderPolicy, Renew!PruneSender
  <2>5. ASSUME NEW c \in Currency, NEW from \in Peer, NEW ch \in Paych, NEW d \in Duration,
               Renew!SetPaychPolicy(c, from, ch, d)
        PROVE  KeptKeyed(RenewLeaves, RenewInner)
    BY <1>1, <2>5, RenewLayout DEF Renew!SetPaychPolicy
  <2>6. ASSUME NEW c \in Currency, NEW from \in Peer, NEW ch \in Paych,
               Renew!RemovePaychPolicy(c, from, ch)
        PROVE  KeptKeyed(RenewLeaves, RenewInner)
    BY <1>2, <2>6, RenewLayout DEF Renew!RemovePaychPolicy
  <2> QED
    BY <1>4, <2>1, <2>2, <2>3, <2>4, <2>5, <2>6 DEF Renew!Next

(* What they list is their table.                                           *)
LEMMA RenewEntries ==
    ASSUME Keyed(store, RenewLeaves, RenewInner)
    PROVE  Renew!Entries = TableOf(store, RenewLeaves)
<1>1. Paych \subseteq Name /\ Peer \subseteq Name /\ "default" \notin Peer
  BY DefaultAssumption DEF Name
<1> DEFINE two == Under(Under({Root}))
<1>2. {q \in two : q[2] = "default"} \cup Under({q \in two : q[2] # "default"})
        = DOMAIN store \cap RenewLeaves
  BY <1>1, PoliciesListed DEF RenewLeaves, RenewInner
<1>3. Renew!ListSenders = two
  BY DEF Renew!ListSenders, Renew!ListCurrencyIDs, Renew!Under, Under, Renew!Kids, Kids,
     Renew!Has, Has, Renew!Root, Root
<1>4. \A P : Renew!Under(P) = Under(P)
  BY DEF Renew!Under, Under, Renew!Kids, Kids, Renew!Has, Has
<1>5. {q \in Renew!ListSenders : q[2] = "default"} \cup Renew!ListPaychs
        = DOMAIN store \cap RenewLeaves
  BY <1>2, <1>3, <1>4 DEF Renew!ListPaychs, Renew!DefaultPolicyID
<1> QED
  BY <1>5 DEF Renew!Entries, Renew!Get, TableOf, Renew!DefaultPolicyID

(* What applies is what is listed.                                          *)
LEMMA RenewApplies ==
    ASSUME Keyed(store, RenewLeaves, RenewInner)
    PROVE  Renew!ListedApplies
<1>1. \A paths : paths \in Seq(RenewLeaves) =>
        Renew!FirstOf(paths) = Renew!Resolved(Renew!Entries, paths)
  <2>1. \A paths \in Seq(RenewLeaves) : FirstOf(paths) = Resolved(Renew!Entries, paths)
    BY FirstIsResolved, RenewEntries
  <2>2. \A paths : Renew!FirstOf(paths) = FirstOf(paths)
    BY DEF Renew!FirstOf, FirstOf, Renew!Has, Has, Renew!Get, Get
  <2>3. \A e, paths : Renew!Resolved(e, paths) = Resolved(e, paths)
    BY DEF Renew!Resolved, Resolved
  <2> QED
    BY <2>1, <2>2, <2>3
<1>2. \A a, b, c \in RenewLeaves : /\ <<a>> \in Seq(RenewLeaves) /\ <<a, b>> \in Seq(RenewLeaves)
                                    /\ <<a, b, c>> \in Seq(RenewLeaves)
  OBVIOUS
<1> QED
  BY <1>1, <1>2, RenewLayout DEF Renew!ListedApplies, Renew!GetDefaultPolicy,
     Renew!GetSenderPolicy, Renew!GetPaychPolicy

-----------------------------------------------------------------------------
(* Keys with values one level below others: the settlement policies, the    *)
(* pieces served and the subscribers.                                       *)
PairLeaves(A, B) == {<<a, b>> : a \in A, b \in B}
PairInner(A) == {<<>>} \cup {<<a>> : a \in A}

(* The keys of a table of pairs.                                            *)
LEMMA PairKeys ==
    ASSUME NEW A, NEW B, NEW q
    PROVE  /\ q \in PairLeaves(A, B) <=> \E a \in A, b \in B : q = <<a, b>>
           /\ q \in PairInner(A) <=> q = <<>> \/ \E a \in A : q = <<a>>
BY DEF PairLeaves, PairInner

(* They form a layout.                                                      *)
LEMMA PairLayout ==
    ASSUME NEW A, NEW B, A \subseteq Name, B \subseteq Name
    PROVE  Layout(PairLeaves(A, B), PairInner(A))
<1>1. ASSUME NEW q \in PairLeaves(A, B)
      PROVE  q \in Path /\ q \notin PairInner(A) /\ Above(q) \subseteq PairInner(A)
  <2>1. PICK a \in A, b \in B : q = <<a, b>>
    BY PairKeys
  <2>2. q \in Path /\ Above(q) = {<<>>, <<a>>} /\ Len(q) = 2
    BY <2>1, PathShapes
  <2>3. <<>> \in PairInner(A) /\ <<a>> \in PairInner(A)
    BY DEF PairInner
  <2>4. q # <<>> /\ \A x : q # <<x>>
    <3>1. Len(q) = 2
      BY <2>2
    <3>2. q # <<>>
      BY <3>1
    <3>3. ASSUME NEW x, q = <<x>> PROVE FALSE
      BY <3>1, <3>3
    <3> QED
      BY <3>2, <3>3
  <2>5. q \notin PairInner(A)
    BY <2>4, PairKeys
  <2> QED
    BY <2>2, <2>3, <2>5
<1>2. ASSUME NEW q \in PairInner(A) PROVE q \in Path /\ Above(q) \subseteq PairInner(A)
  <2>1. q = <<>> \/ \E a \in A : q = <<a>>
    BY PairKeys
  <2>2. <<>> \in PairInner(A)
    BY DEF PairInner
  <2> QED
    BY <2>1, <2>2, PathShapes
<1>3. <<>> \in PairInner(A)
  BY DEF PairInner
<1> QED
  BY <1>1, <1>2, <1>3 DEF Layout

(* A listing of two levels finds the pairs there are.                       *)
LEMMA PairsListed ==
    ASSUME NEW A, NEW B, A \subseteq Name, B \subseteq Name,
           Keyed(store, PairLeaves(A, B), PairInner(A))
    PROVE  /\ Under(Under({Root})) = DOMAIN store \cap PairLeaves(A, B)
           /\ \A q \in DOMAIN store : Len(q) = 1 => q \in PairInner(A) /\ q # <<>>
<1>1. Under(Under({Root})) = {q \in DOMAIN store : Len(q) = 2}
  BY Levels
<1>2. \A q \in PairLeaves(A, B) : Len(q) = 2
  BY PairKeys
<1>3. ASSUME NEW q \in PairInner(A) PROVE Len(q) # 2
  <2>1. q = <<>> \/ \E a \in A : q = <<a>>
    BY PairKeys
  <2> QED
    BY <2>1
<1>4. DOMAIN store \subseteq PairLeaves(A, B) \cup PairInner(A)
  BY DEF Keyed
<1>5. \A q \in DOMAIN store : Len(q) = 1 => q \in PairInner(A) /\ q # <<>>
  BY <1>2, <1>4
<1> QED
  BY <1>1, <1>2, <1>3, <1>4, <1>5

-----------------------------------------------------------------------------
(* The settlement policies.                                                 *)
SettleLeaves == PairLeaves(Currency, Peer \cup {"default"})
SettleInner == PairInner(Currency)

(* The settlement policies: their keys form a layout.                       *)
LEMMA SettleLayout ==
    /\ Layout(SettleLeaves, SettleInner)
    /\ \A c \in Currency : Settle!ForCurrency(c) \in SettleLeaves
    /\ \A c \in Currency, from \in Peer : Settle!ForSender(c, from) \in SettleLeaves
<1>1. Currency \subseteq Name /\ Peer \cup {"default"} \subseteq Name
  BY DEF Name
<1>2. Layout(SettleLeaves, SettleInner)
  BY <1>1, PairLayout DEF SettleLeaves, SettleInner
<1> QED
  BY <1>2, PairKeys DEF SettleLeaves, SettleInner, Settle!ForCurrency, Settle!ForSender,
     Settle!DefaultPolicyID

(* Every step of them is one on their table.                                *)
LEMMA SettleStep ==
    ASSUME Keyed(store, SettleLeaves, SettleInner), Settle!Next
    PROVE  KeptKeyed(SettleLeaves, SettleInner)
<1>1. ASSUME NEW path \in SettleLeaves, NEW v, Settle!SetKey(v, path)
      PROVE  KeptKeyed(SettleLeaves, SettleInner)
  <2>1. SetKey(v, path)
    BY <1>1 DEF Settle!SetKey, Settle!Put, SetKey, Put, Settle!Blank, Blank
  <2> QED
    BY <2>1, SetKeyKeeps, SettleLayout
<1>2. ASSUME NEW path \in SettleLeaves, Settle!RemoveKey(path)
      PROVE  KeptKeyed(SettleLeaves, SettleInner)
  <2>1. Has(path) /\ store' = Delete(store, {path})
    BY <1>2 DEF Settle!RemoveKey, Settle!Has, Has, Settle!Delete, Delete
  <2> QED
    BY <2>1, DeleteKeeps, SettleLayout
<1>3. ASSUME NEW c \in Currency, NEW d \in Duration,
             Settle!SetDefaultPolicy(c, d)
      PROVE  KeptKeyed(SettleLeaves, SettleInner)
  BY <1>1, <1>3, SettleLayout DEF Settle!SetDefaultPolicy
<1>4. ASSUME NEW c \in Currency, Settle!RemoveDefaultPolicy(c)
      PROVE  KeptKeyed(SettleLeaves, SettleInner)
  BY <1>2, <1>4, SettleLayout DEF Settle!RemoveDefaultPolicy
<1>5. ASSUME NEW c \in Currency, NEW from \in Peer, NEW d \in Duration,
             Settle!SetSenderPolicy(c, from, d)
      PROVE  KeptKeyed(SettleLeaves, SettleInner)
  BY <1>1, <1>5, SettleLayout DEF Settle!SetSenderPolicy
<1>6. ASSUME NEW c \in Currency, NEW from \in Peer, Settle!RemoveSenderPolicy(c, from)
      PROVE  KeptKeyed(SettleLeaves, SettleInner)
  BY <1>2, <1>6, SettleLayout DEF Settle!RemoveSenderPolicy
<1> QED
  BY <1>3, <1>4, <1>5, <1>6 DEF Settle!Next

(* What they list is their table.                                           *)
LEMMA SettleEntries ==
    ASSUME Keyed(store, SettleLeaves, SettleInner)
    PROVE  Settle!Entries = TableOf(store, SettleLeaves)
<1>1. Currency \subseteq Name /\ Peer \cup {"default"} \subseteq Name
  BY DEF Name
<1>2. Under(Under({Root})) = DOMAIN store \cap SettleLeaves
  BY <1>1, PairsListed DEF SettleLeaves, SettleInner
<1>3. Settle!ListSenders = Under(Under({Root}))
  BY DEF Settle!ListSenders, Settle!ListCurrencyIDs, Settle!Under, Under, Settle!Kids, Kids,
     Settle!Has, Has, Settle!Root, Root
<1> QED
  BY <1>2, <1>3 DEF Settle!Entries, Settle!Get, TableOf

(* What applies is what is listed.                                          *)
LEMMA SettleApplies ==
    ASSUME Keyed(store, SettleLeaves, SettleInner)
    PROVE  Settle!ListedApplies
<1>1. \A paths : paths \in Seq(SettleLeaves) =>
        Settle!FirstOf(paths) = Settle!Resolved(Settle!Entries, paths)
  <2>1. \A paths \in Seq(SettleLeaves) : FirstOf(paths) = Resolved(Settle!Entries, paths)
    BY FirstIsResolved, SettleEntries
  <2>2. \A paths : Settle!FirstOf(paths) = FirstOf(paths)
    BY DEF Settle!FirstOf, FirstOf, Settle!Has, Has, Settle!Get, Get
  <2>3. \A e, paths : Settle!Resolved(e, paths) = Resolved(e, paths)
    BY DEF Settle!Resolved, Resolved
  <2> QED
    BY <2>1, <2>2, <2>3
<1>2. \A a, b \in SettleLeaves : <<a>> \in Seq(SettleLeaves) /\ <<a, b>> \in Seq(SettleLeaves)
  OBVIOUS
<1> QED
  BY <1>1, <1>2, SettleLayout DEF Settle!ListedApplies, Settle!GetDefaultPolicy,
     Settle!GetSenderPolicy

-----------------------------------------------------------------------------
(* The pieces served.                                                       *)
CservLeaves == PairLeaves(Piece, Priced)
CservInner == PairInner(Piece)

(* The served pieces: their keys form a layout.                             *)
LEMMA CservLayout ==
    /\ Layout(CservLeaves, CservInner)
    /\ \A id \in Piece, c \in Priced : Cserv!Serving(id, c) \in CservLeaves
    /\ \A id \in Piece : <<id>> \in CservInner /\ <<id>> # <<>>
<1>1. Piece \subseteq Name /\ Priced \subseteq Name
  BY DEF Name
<1>2. Layout(CservLeaves, CservInner)
  BY <1>1, PairLayout DEF CservLeaves, CservInner
<1> QED
  BY <1>2, PairKeys DEF CservLeaves, CservInner, Cserv!Serving

(* Every step of them is one on their table.                                *)
LEMMA CservStep ==
    ASSUME Keyed(store, CservLeaves, CservInner), Cserv!Next
    PROVE  KeptKeyed(CservLeaves, CservInner)
<1>1. ASSUME NEW id \in Piece, NEW c \in Priced, NEW ppb, Cserv!Serve(id, c, ppb)
      PROVE  KeptKeyed(CservLeaves, CservInner)
  <2>1. SetKey(ppb, Cserv!Serving(id, c))
    BY <1>1 DEF Cserv!Serve, Cserv!SetKey, Cserv!Put, SetKey, Put, Cserv!Blank, Blank
  <2> QED
    BY <2>1, SetKeyKeeps, CservLayout
<1>2. ASSUME NEW id \in Piece, NEW c \in Priced, Cserv!Stop(id, c)
      PROVE  KeptKeyed(CservLeaves, CservInner)
  <2>1. Has(Cserv!Serving(id, c)) /\ store' = Delete(store, {Cserv!Serving(id, c)})
    BY <1>2 DEF Cserv!Stop, Cserv!RemoveAndNote, Cserv!Has, Has, Cserv!Delete, Delete
  <2> QED
    BY <2>1, DeleteKeeps, CservLayout
<1>3. ASSUME NEW id \in Piece, Cserv!PrunePiece(id)
      PROVE  KeptKeyed(CservLeaves, CservInner)
  <2>1. PruneKey(<<id>>)
    BY <1>3 DEF Cserv!PrunePiece, Cserv!PruneKey, PruneKey, Cserv!Has, Has, Cserv!Kids, Kids,
       Cserv!Delete, Delete
  <2> QED
    BY <2>1, PruneKeyKeeps, CservLayout
<1>4. CASE Cserv!Start
  <2> DEFINE some == {q \in DOMAIN store : Len(q) = 1}
  <2>1. StartClean(some)
    BY <1>4 DEF Cserv!Start, Cserv!StartClean, StartClean, Cserv!Has, Has, Cserv!Kids, Kids,
       Cserv!Delete, Delete
  <2>2. Piece \subseteq Name /\ Priced \subseteq Name
    BY DEF Name
  <2>3. \A q \in some : q \in CservInner /\ q # <<>>
    BY <2>2, PairsListed DEF CservLeaves, CservInner
  <2> HIDE DEF some
  <2> QED
    BY <2>1, <2>3, StartCleanKeeps, CservLayout
<1> QED
  BY <1>1, <1>2, <1>3, <1>4 DEF Cserv!Next

(* What they list is their table.                                           *)
LEMMA CservEntries ==
    ASSUME Keyed(store, CservLeaves, CservInner)
    PROVE  Cserv!Entries = TableOf(store, CservLeaves)
<1>1. Piece \subseteq Name /\ Priced \subseteq Name
  BY DEF Name
<1>2. Under(Under({Root})) = DOMAIN store \cap CservLeaves
  BY <1>1, PairsListed DEF CservLeaves, CservInner
<1>3. Cserv!ListCurrencyIDs = Under(Under({Root}))
  BY DEF Cserv!ListPieceIDs, Cserv!ListCurrencyIDs, Cserv!Under, Under, Cserv!Kids, Kids,
     Cserv!Has, Has, Cserv!Root, Root
<1> QED
  BY <1>2, <1>3 DEF Cserv!Entries, Cserv!Get, TableOf

(* What applies is what is listed.                                          *)
LEMMA CservApplies ==
    ASSUME Keyed(store, CservLeaves, CservInner)
    PROVE  Cserv!ListedApplies
<1>1. \A paths : paths \in Seq(CservLeaves) =>
        Cserv!FirstOf(paths) = Cserv!Resolved(Cserv!Entries, paths)
  <2>1. \A paths \in Seq(CservLeaves) : FirstOf(paths) = Resolved(Cserv!Entries, paths)
    BY FirstIsResolved, CservEntries
  <2>2. \A paths : Cserv!FirstOf(paths) = FirstOf(paths)
    BY DEF Cserv!FirstOf, FirstOf, Cserv!Has, Has, Cserv!Get, Get
  <2>3. \A e, paths : Cserv!Resolved(e, paths) = Resolved(e, paths)
    BY DEF Cserv!Resolved, Resolved
  <2> QED
    BY <2>1, <2>2, <2>3
<1>2. \A a \in CservLeaves : <<a>> \in Seq(CservLeaves)
  OBVIOUS
<1> QED
  BY <1>1, <1>2, CservLayout DEF Cserv!ListedApplies, Cserv!Inspect

-----------------------------------------------------------------------------
(* The subscribers.                                                         *)
SubLeaves == PairLeaves(Currency, Peer)
SubInner == PairInner(Currency)

(* The subscribers: their keys form a layout.                               *)
LEMMA SubLayout ==
    /\ Layout(SubLeaves, SubInner)
    /\ \A c \in Currency, from \in Peer : Sub!Subscriber(c, from) \in SubLeaves
<1>1. Currency \subseteq Name /\ Peer \subseteq Name
  BY DEF Name
<1>2. Layout(SubLeaves, SubInner)
  BY <1>1, PairLayout DEF SubLeaves, SubInner
<1> QED
  BY <1>2, PairKeys DEF SubLeaves, SubInner, Sub!Subscriber

(* Every step of them is one on their table.                                *)
LEMMA SubStep ==
    ASSUME Keyed(store, SubLeaves, SubInner), Sub!Next
    PROVE  KeptKeyed(SubLeaves, SubInner)
<1>1. ASSUME NEW c \in Currency, NEW from \in Peer, Sub!AddSubscriber(c, from)
      PROVE  KeptKeyed(SubLeaves, SubInner)
  <2>1. SetKey("subscribed", Sub!Subscriber(c, from))
    BY <1>1 DEF Sub!AddSubscriber, Sub!SetKey, Sub!Put, SetKey, Put, Sub!Blank, Blank
  <2> QED
    BY <2>1, SetKeyKeeps, SubLayout
<1>2. ASSUME NEW c \in Currency, NEW from \in Peer, Sub!RemoveSubscriber(c, from)
      PROVE  KeptKeyed(SubLeaves, SubInner)
  <2>1. Has(Sub!Subscriber(c, from)) /\ store' = Delete(store, {Sub!Subscriber(c, from)})
    BY <1>2 DEF Sub!RemoveSubscriber, Sub!RemoveKey, Sub!Has, Has, Sub!Delete, Delete
  <2> QED
    BY <2>1, DeleteKeeps, SubLayout
<1> QED
  BY <1>1, <1>2 DEF Sub!Next

(* What they list is their table.                                           *)
LEMMA SubEntries ==
    ASSUME Keyed(store, SubLeaves, SubInner)
    PROVE  Sub!Entries = TableOf(store, SubLeaves)
<1>1. Currency \subseteq Name /\ Peer \subseteq Name
  BY DEF Name
<1>2. Under(Under({Root})) = DOMAIN store \cap SubLeaves
  BY <1>1, PairsListed DEF SubLeaves, SubInner
<1>3. Sub!ListSubscribers = Under(Under({Root}))
  BY DEF Sub!ListSubscribers, Sub!ListCurrencyIDs, Sub!Under, Under, Sub!Kids, Kids,
     Sub!Has, Has, Sub!Root, Root
<1> QED
  BY <1>2, <1>3 DEF Sub!Entries, Sub!Get, TableOf

-----------------------------------------------------------------------------
(* One key a currency: the miner proofs and the keys of the signer.         *)
SingleLeaves == {<<c>> : c \in Currency}
SingleInner == {<<>>}

(* The keys of a table by currency form a layout.                           *)
LEMMA SingleLayout == Layout(SingleLeaves, SingleInner)
<1>1. Currency \subseteq Name
  BY DEF Name
<1>2. ASSUME NEW q \in SingleLeaves
      PROVE  q \in Path /\ q # <<>> /\ Above(q) = {<<>>}
  <2>1. PICK c \in Currency : q = <<c>>
    BY DEF SingleLeaves
  <2> QED
    BY <1>1, <2>1, PathShapes
<1> QED
  BY <1>2, PathShapes DEF Layout, SingleInner

(* A listing of one level finds them.                                       *)
LEMMA SinglesListed ==
    ASSUME Keyed(store, SingleLeaves, SingleInner)
    PROVE  /\ DOMAIN store \ {Root} = DOMAIN store \cap SingleLeaves
           /\ Under({Root}) = DOMAIN store \cap SingleLeaves
<1>1. Under({Root}) = {q \in DOMAIN store : Len(q) = 1}
  BY Levels
<1>2. ASSUME NEW q \in SingleLeaves PROVE Len(q) = 1 /\ q # Root
  <2>1. PICK c \in Currency : q = <<c>>
    BY DEF SingleLeaves
  <2> QED
    BY <2>1 DEF Root
<1>3. DOMAIN store \subseteq SingleLeaves \cup SingleInner
  BY DEF Keyed
<1>4. Len(Root) # 1
  BY DEF Root
<1> QED
  BY <1>1, <1>2, <1>3, <1>4 DEF SingleInner, Root

-----------------------------------------------------------------------------
(* The miner proofs.                                                        *)
MpInv ==
    /\ Keyed(store, SingleLeaves, SingleInner)
    /\ \A k \in DOMAIN TableOf(store, SingleLeaves) :
          TableOf(store, SingleLeaves)[k] \in Proof

(* The miner proofs: every step of their store enters one.                  *)
LEMMA MpStep ==
    ASSUME MpInv, Mp!Next
    PROVE  MpInv' /\ KeptKeyed(SingleLeaves, SingleInner)
<1>1. PICK c \in Currency, proof \in Proof : Mp!UpsertMinerProof(c, proof)
  BY DEF Mp!Next
<1>2. <<c>> \in SingleLeaves
  BY DEF SingleLeaves
<1>3. SetKey(proof, <<c>>)
  BY <1>1 DEF Mp!UpsertMinerProof, Mp!SetKey, Mp!Put, SetKey, Put, Mp!Blank, Blank
<1>4. KeptKeyed(SingleLeaves, SingleInner)
  BY <1>2, <1>3, SetKeyKeeps, SingleLayout DEF MpInv
<1>5. TableOf(store', SingleLeaves) = Entered(TableOf(store, SingleLeaves), <<c>>, proof)
  BY <1>2, <1>3, PutEnters, SingleLayout DEF MpInv, SetKey
<1>6. \A k \in DOMAIN TableOf(store', SingleLeaves) : TableOf(store', SingleLeaves)[k] \in Proof
  BY <1>5 DEF MpInv, Entered
<1> QED
  BY <1>4, <1>6 DEF MpInv, KeptKeyed

(* What their store answers is its table.                                   *)
LEMMA MpEntries ==
    ASSUME MpInv
    PROVE  Mp!Entries = TableOf(store, SingleLeaves)
<1>1. ASSUME NEW p
      PROVE  Mp!FirstOf(<<p>>) = IF p \in DOMAIN store THEN store[p].value ELSE NoValue
  <2> DEFINE found == {i \in 1 .. Len(<<p>>) : Has(<<p>>[i])}
  <2>1. Mp!FirstOf(<<p>>) =
          IF found = {} THEN NoValue
          ELSE Get(<<p>>[CHOOSE i \in found : \A j \in found : i <= j])
    BY DEF Mp!FirstOf, Mp!Has, Has, Mp!Get, Get
  <2>2. CASE p \in DOMAIN store
    <3>1. found = {1}
      BY <2>2 DEF Has
    <3>2. (CHOOSE i \in found : \A j \in found : i <= j) = 1
      BY <3>1
    <3> HIDE DEF found
    <3> QED
      BY <2>1, <2>2, <3>1, <3>2 DEF Get
  <2>3. CASE p \notin DOMAIN store
    <3>1. found = {}
      BY <2>3 DEF Has
    <3> HIDE DEF found
    <3> QED
      BY <2>1, <2>3, <3>1
  <2> QED
    BY <2>2, <2>3
<1>2. \A c \in Currency : Mp!GetMinerProof(c) =
        IF <<c>> \in DOMAIN store THEN store[<<c>>].value ELSE NoValue
  BY <1>1 DEF Mp!GetMinerProof
<1>3. ASSUME NEW c \in Currency, <<c>> \in DOMAIN store
      PROVE  store[<<c>>].value # NoValue
  <2>1. <<c>> \in DOMAIN TableOf(store, SingleLeaves)
        /\ TableOf(store, SingleLeaves)[<<c>>] = store[<<c>>].value
    BY <1>3 DEF TableOf, SingleLeaves
  <2> QED
    BY <2>1, NoValueAssumption DEF MpInv
<1>4. {<<c>> : c \in {c \in Currency : Mp!GetMinerProof(c) # NoValue}} = DOMAIN store \cap SingleLeaves
  <2>1. {c \in Currency : Mp!GetMinerProof(c) # NoValue} = {c \in Currency : <<c>> \in DOMAIN store}
    BY <1>2, <1>3
  <2> QED
    BY <2>1 DEF SingleLeaves
<1>5. \A k \in DOMAIN store \cap SingleLeaves : Mp!GetMinerProof(k[1]) = store[k].value
  BY <1>2 DEF SingleLeaves
<1> QED
  BY <1>4, <1>5 DEF Mp!Entries, TableOf

-----------------------------------------------------------------------------
(* The keys of the signer: what is in memory is the table in the store.     *)
KeysInv ==
    /\ Keyed(store, SingleLeaves, SingleInner)
    /\ cache = TableOf(store, SingleLeaves)

(* The signer loads the table its store holds.                              *)
LEMMA LoadedIsTable ==
    ASSUME Keyed(store, SingleLeaves, SingleInner)
    PROVE  Sign!Loaded(store) = TableOf(store, SingleLeaves)
BY SinglesListed DEF Sign!Loaded, Sign!Root, Root, TableOf

(* Every step of the signer on its keys is one on its table, and the cache  *)
(* goes with the store.                                                     *)
LEMMA KeysStep ==
    ASSUME KeysInv, Sign!Next
    PROVE  KeysInv' /\ KeptKeyed(SingleLeaves, SingleInner)
<1>1. ASSUME UNCHANGED <<store, cache>> PROVE KeysInv' /\ KeptKeyed(SingleLeaves, SingleInner)
  BY <1>1 DEF KeysInv, KeptKeyed, TableStep
<1>2. ASSUME NEW c \in Currency, NEW addr \in Addr, Sign!SetPrivateKey(c, addr)
      PROVE  KeysInv' /\ KeptKeyed(SingleLeaves, SingleInner)
  <2>1. <<c>> \in SingleLeaves
    BY DEF SingleLeaves
  <2>2. SetKey(addr, <<c>>)
    BY <1>2 DEF Sign!SetPrivateKey, Sign!Key, Sign!SetKey, Sign!Put, SetKey, Put, Sign!Blank, Blank
  <2>3. KeptKeyed(SingleLeaves, SingleInner)
    BY <2>1, <2>2, SetKeyKeeps, SingleLayout DEF KeysInv
  <2>4. TableOf(store', SingleLeaves) = Entered(TableOf(store, SingleLeaves), <<c>>, addr)
    BY <2>1, <2>2, PutEnters, SingleLayout DEF KeysInv, SetKey
  <2>5. cache' = Entered(cache, <<c>>, addr)
    BY <1>2 DEF Sign!SetPrivateKey, Sign!Key, Entered
  <2> QED
    BY <2>3, <2>4, <2>5 DEF KeysInv, KeptKeyed
<1>3. ASSUME NEW r \in Retirement, Sign!Remove(r)
      PROVE  KeysInv' /\ KeptKeyed(SingleLeaves, SingleInner)
  <2> DEFINE k == <<retirement[r].currency>>
  <2>1. CASE UNCHANGED <<store, cache>>
    BY <1>1, <2>1
  <2>2. CASE /\ k \in DOMAIN cache
             /\ store' = Delete(store, {k}) /\ Has(k)
             /\ cache' = [x \in DOMAIN cache \ {k} |-> cache[x]]
    <3>1. k \in SingleLeaves
      BY <2>2 DEF KeysInv, TableOf
    <3> HIDE DEF k
    <3>2. KeptKeyed(SingleLeaves, SingleInner)
      BY <2>2, <3>1, DeleteKeeps, SingleLayout DEF KeysInv
    <3>3. TableOf(store', SingleLeaves) = Dropped(TableOf(store, SingleLeaves), k)
      BY <2>2, <3>1, DeleteDrops, SingleLayout DEF KeysInv
    <3>4. cache' = Dropped(cache, k)
      BY <2>2 DEF Dropped
    <3> QED
      BY <3>2, <3>3, <3>4 DEF KeysInv, KeptKeyed
  <2> QED
    BY <1>3, <2>1, <2>2 DEF Sign!Remove, Sign!Key, Sign!RemoveKey, Sign!Has, Has, Sign!Delete,
       Delete, Sign!keys
<1>4. CASE Sign!Start
  <2>1. store' = store /\ cache' = TableOf(store, SingleLeaves)
    BY <1>4, LoadedIsTable DEF Sign!Start, KeysInv
  <2> QED
    BY <2>1 DEF KeysInv, KeptKeyed, TableStep
<1> QED
  <2>1. ASSUME NEW r \in Retirement,
               \/ Sign!Watch(r) \/ Sign!NotWatched(r) \/ Sign!TimedOut(r) \/ Sign!Cancelled(r)
               \/ Sign!Triggered(r) \/ Sign!Leave(r)
        PROVE  UNCHANGED <<store, cache>>
    BY <2>1 DEF Sign!Watch, Sign!NotWatched, Sign!TimedOut, Sign!Cancelled, Sign!Triggered,
       Sign!Leave, Sign!keys
  <2>2. ASSUME NEW c \in Currency, NEW r \in Retirement, Sign!RetireKey(r, c)
        PROVE  UNCHANGED <<store, cache>>
    BY <2>2 DEF Sign!RetireKey, Sign!keys
  <2>3. ASSUME NEW c \in Currency, NEW u \in User, NEW stops \in BOOLEAN, Sign!Touch(u, c, stops)
        PROVE  UNCHANGED <<store, cache>>
    BY <2>3 DEF Sign!Touch, Sign!keys
  <2>4. ASSUME NEW u \in User, Sign!StopRetire(u)
        PROVE  UNCHANGED <<store, cache>>
    BY <2>4 DEF Sign!StopRetire, Sign!keys
  <2> QED
    BY <1>1, <1>2, <1>3, <1>4, <2>1, <2>2, <2>3, <2>4 DEF Sign!Next

(* What the cache says is what the store holds.                             *)
LEMMA KeysCached ==
    ASSUME KeysInv
    PROVE  Sign!CacheIsStore
<1>1. Sign!ListCurrencyIDs = Under({Root})
  BY DEF Sign!ListCurrencyIDs, Sign!Under, Under, Sign!Kids, Kids, Sign!Has, Has, Sign!Root, Root
<1> QED
  BY <1>1, SinglesListed DEF KeysInv, Sign!CacheIsStore, Sign!Get, TableOf

-----------------------------------------------------------------------------
(* The channels served: the same entries are in memory and in the store,    *)
(* and in memory what is above an entry is there too.                       *)
ServLeaves == {<<c, to, ch>> : c \in Currency, to \in Peer, ch \in Paych}
ServInner == PolicyInner(Peer)

ServInv ==
    /\ Keyed(store, ServLeaves, ServInner)
    /\ DOMAIN cache \subseteq ServLeaves \cup ServInner
    /\ \A k \in DOMAIN cache : \A i \in 1 .. Len(k) : Cut(k, i) \in DOMAIN cache
    /\ \A k \in ServLeaves : k \in DOMAIN cache <=> k \in DOMAIN store
    /\ \A k \in ServLeaves : k \in DOMAIN store => cache[k] = store[k].value

(* The keys of the piece serving policies form a layout.                    *)
LEMMA ServLayout ==
    /\ Layout(ServLeaves, ServInner)
    /\ \A c \in Currency, to \in Peer, ch \in Paych : <<c, to, ch>> \in ServLeaves
    /\ \A c \in Currency, to \in Peer : /\ <<c, to>> \in ServInner /\ <<c, to>> # <<>>
                                        /\ <<c>> \in ServInner
    /\ \A k \in ServLeaves : Len(k) = 3 /\ k = <<k[1], k[2], k[3]>>
    /\ \A k \in ServInner : Len(k) \in {0, 1, 2}
<1>1. Paych \subseteq Name /\ Peer \subseteq Name /\ "default" \notin Peer
  BY DefaultAssumption DEF Name
<1>2. ServLeaves \subseteq PolicyLeaves(Peer, Paych)
  BY DEF ServLeaves, PolicyLeaves
<1>3. Layout(PolicyLeaves(Peer, Paych), ServInner)
  BY <1>1, PolicyLayout DEF ServInner
<1>4. Layout(ServLeaves, ServInner)
  BY <1>2, <1>3 DEF Layout
<1>5. \A c \in Currency, to \in Peer : /\ <<c, to>> \in ServInner /\ <<c, to>> # <<>>
                                       /\ <<c>> \in ServInner
  BY PolicyNode DEF ServInner
<1>6. \A k \in ServLeaves : Len(k) = 3 /\ k = <<k[1], k[2], k[3]>>
  BY DEF ServLeaves
<1>7. ASSUME NEW k \in ServInner PROVE Len(k) \in {0, 1, 2}
  <2>1. \/ k = <<>> \/ (\E c \in Currency : k = <<c>>)
        \/ \E c \in Currency, a \in Peer : k = <<c, a>>
    BY PolicyNode DEF ServInner
  <2> QED
    BY <2>1
<1> QED
  BY <1>4, <1>5, <1>6, <1>7 DEF ServLeaves

(* What is listed from memory are the entries in memory.                    *)
LEMMA ServCached ==
    ASSUME ServInv
    PROVE  Pserv!ListServings = DOMAIN cache \cap ServLeaves
<1>1. DOMAIN cache \subseteq Path
  BY ServLayout DEF ServInv, Layout
<1>2. Pserv!ListCurrencyIDs = {x \in DOMAIN cache : Len(x) = 1}
  <2>1. \A x \in DOMAIN cache : SubSeq(x, 1, 0) = <<>>
    BY <1>1, CutEnds DEF Cut
  <2>2. Len(Pserv!Root) = 0 /\ Pserv!Root = <<>>
    BY DEF Pserv!Root
  <2> QED
    BY <2>1, <2>2 DEF Pserv!ListCurrencyIDs, Pserv!CachedIn
<1>3. ASSUME NEW n \in {1, 2}, NEW P, P = {x \in DOMAIN cache : Len(x) = n}
      PROVE  UNION {Pserv!CachedIn(k) : k \in P} = {x \in DOMAIN cache : Len(x) = n + 1}
  <2>1. ASSUME NEW x \in DOMAIN cache, Len(x) = n + 1
        PROVE  SubSeq(x, 1, n) \in P
    <3>1. n \in 1 .. Len(x) /\ n \in 0 .. Len(x)
      BY <2>1
    <3>2. Cut(x, n) \in DOMAIN cache /\ Len(Cut(x, n)) = n
      BY <1>1, <3>1, CutFacts DEF ServInv
    <3> QED
      BY <1>3, <3>2 DEF Cut
  <2>2. \A k \in P : Pserv!CachedIn(k) = {x \in DOMAIN cache : Len(x) = n + 1 /\ SubSeq(x, 1, n) = k}
    BY <1>3 DEF Pserv!CachedIn
  <2>3. \A x : x \in UNION {Pserv!CachedIn(k) : k \in P} <=> \E k \in P : x \in Pserv!CachedIn(k)
    OBVIOUS
  <2>4. \A x : (\E k \in P : x \in Pserv!CachedIn(k)) <=> x \in DOMAIN cache /\ Len(x) = n + 1
    BY <2>1, <2>2
  <2> QED
    BY <2>3, <2>4
<1>4. Pserv!ListRecipients = {x \in DOMAIN cache : Len(x) = 1 + 1}
  BY <1>2, <1>3 DEF Pserv!ListRecipients
<1>5. Pserv!ListServings = {x \in DOMAIN cache : Len(x) = 2 + 1}
  <2>1. Pserv!ListRecipients = {x \in DOMAIN cache : Len(x) = 2}
    BY <1>4
  <2> QED
    BY <2>1, <1>3 DEF Pserv!ListServings
<1>6. \A x \in DOMAIN cache : Len(x) = 3 <=> x \in ServLeaves
  BY ServLayout DEF ServInv
<1> QED
  BY <1>5, <1>6

(* Its table is what the store holds, and what the cache says.              *)
LEMMA ServEntries ==
    ASSUME ServInv
    PROVE  Pserv!Entries = TableOf(store, ServLeaves) /\ Pserv!CacheIsStore
<1>1. Pserv!ListServings = DOMAIN store \cap ServLeaves
  BY ServCached DEF ServInv
<1>2. ASSUME NEW k \in DOMAIN store \cap ServLeaves
      PROVE  Pserv!Inspect(k[1], k[2], k[3]) = store[k].value
  BY ServLayout DEF ServInv, Pserv!Inspect, Pserv!Serving, Pserv!Cached
<1>3. Pserv!Entries = TableOf(store, ServLeaves)
  BY <1>1, <1>2 DEF Pserv!Entries, TableOf
<1>4. Under(Under(Under({Root}))) = {q \in DOMAIN store : Len(q) = 3}
  BY Levels DEF ServInv
<1>5. \A q \in DOMAIN store : Len(q) = 3 <=> q \in ServLeaves
  BY ServLayout DEF ServInv, Keyed
<1>6. Under(Under(Under({Root}))) = DOMAIN store \cap ServLeaves
  BY <1>4, <1>5
<1>7. Pserv!Under(Pserv!Under(Pserv!Under({Pserv!Root}))) = DOMAIN store \cap ServLeaves
  <2>1. \A P : Pserv!Under(P) = Under(P)
    BY DEF Pserv!Under, Under, Pserv!Kids, Kids, Pserv!Has, Has
  <2> QED
    BY <1>6, <2>1 DEF Pserv!Root, Root
<1>8. Pserv!CacheIsStore
  BY <1>3, <1>7 DEF Pserv!CacheIsStore, Pserv!Get, TableOf
<1> QED
  BY <1>3, <1>8

(* Every step of it changes one entry in the store and in the cache alike.  *)
LEMMA ServStep ==
    ASSUME ServInv, Pserv!Next
    PROVE  ServInv' /\ KeptKeyed(ServLeaves, ServInner)
<1>1. ASSUME NEW c \in Currency, NEW to \in Peer, NEW ch \in Paych, NEW terms,
             Pserv!Serve(c, to, ch, terms)
      PROVE  ServInv' /\ KeptKeyed(ServLeaves, ServInner)
  <2>1. PICK k : k = <<c, to, ch>>
    OBVIOUS
  <2>2. k \in ServLeaves /\ Len(k) = 3
    BY <2>1, ServLayout
  <2>3. SetKey(terms, k)
    BY <1>1, <2>1 DEF Pserv!Serve, Pserv!Serving, Pserv!SetKey, Pserv!Put, SetKey, Put,
       Pserv!Blank, Blank
  <2>4. KeptKeyed(ServLeaves, ServInner)
    BY <2>2, <2>3, SetKeyKeeps, ServLayout DEF ServInv
  <2>5. TableOf(store', ServLeaves) = Entered(TableOf(store, ServLeaves), k, terms)
    BY <2>2, <2>3, PutEnters, ServLayout DEF ServInv, SetKey
  <2>6. \A x \in ServLeaves : /\ x \in DOMAIN store' <=> x = k \/ x \in DOMAIN store
                              /\ x = k => store'[x].value = terms
                              /\ x # k /\ x \in DOMAIN store => store'[x].value = store[x].value
    BY <2>5, <2>2 DEF TableOf, Entered
  <2>7. cache' = [x \in DOMAIN cache \cup {<<c>>, <<c, to>>, k} |->
                    IF x = k THEN terms ELSE IF x \in DOMAIN cache THEN cache[x] ELSE NoValue]
    BY <1>1, <2>1 DEF Pserv!Serve, Pserv!Serving, Pserv!Recipient, Pserv!Cached
  <2>8. DOMAIN cache' = DOMAIN cache \cup {<<c>>, <<c, to>>, k} /\ cache'[k] = terms
        /\ \A x \in DOMAIN cache : x # k => cache'[x] = cache[x]
    BY <2>7
  <2>9. <<c>> \in ServInner /\ <<c, to>> \in ServInner /\ <<c>> \notin ServLeaves
        /\ <<c, to>> \notin ServLeaves
    BY ServLayout DEF Layout
  <2>10. DOMAIN cache' \subseteq ServLeaves \cup ServInner
    BY <2>2, <2>8, <2>9 DEF ServInv
  <2>11. ASSUME NEW x \in DOMAIN cache', NEW i \in 1 .. Len(x) PROVE Cut(x, i) \in DOMAIN cache'
    <3>0. c \in Name /\ to \in Name /\ ch \in Name
      BY DEF Name
    <3>1. CASE x \in DOMAIN cache
      BY <2>8, <3>1 DEF ServInv
    <3>2. CASE x = k
      <4>1. i \in {1, 2, 3}
        <5>1. Len(x) = 3
          BY <2>2, <3>2
        <5>2. i \in 1 .. 3
          BY <5>1
        <5> QED
          BY <5>2
      <4>2. Cut(k, 1) = <<c>> /\ Cut(k, 2) = <<c, to>> /\ Cut(k, 3) = k
        <5>1. Cut(k, 1) = <<c>> /\ Cut(k, 2) = <<c, to>> /\ k \in Path
          BY <2>1, <3>0, ShortPaths
        <5> QED
          BY <2>2, <5>1, CutEnds
      <4> QED
        BY <2>8, <3>2, <4>1, <4>2
    <3>3. CASE x = <<c, to>>
      <4>1. i \in {1, 2}
        BY <3>3
      <4>2. Cut(x, 1) = <<c>> /\ Cut(x, 2) = <<c, to>>
        <5>1. Cut(x, 1) = <<c>> /\ x \in Path /\ Len(x) = 2
          BY <3>0, <3>3, ShortPaths
        <5> QED
          BY <3>3, <5>1, CutEnds
      <4> QED
        BY <2>8, <4>1, <4>2
    <3>4. CASE x = <<c>>
      <4>1. i = 1 /\ Len(x) = 1
        BY <3>4
      <4>2. Cut(x, 1) = x
        BY <3>0, <3>4, <4>1, ShortPaths, CutEnds
      <4> QED
        BY <4>1, <4>2
    <3> QED
      BY <2>8, <3>1, <3>2, <3>3, <3>4
  <2>12. \A x \in ServLeaves : x \in DOMAIN cache' <=> x \in DOMAIN store'
    BY <2>6, <2>8, <2>9 DEF ServInv
  <2>13. \A x \in ServLeaves : x \in DOMAIN store' => cache'[x] = store'[x].value
    BY <2>6, <2>8 DEF ServInv
  <2> QED
    BY <2>4, <2>10, <2>11, <2>12, <2>13 DEF ServInv, KeptKeyed
<1>2. ASSUME NEW c \in Currency, NEW to \in Peer, NEW ch \in Paych, Pserv!Stop(c, to, ch)
      PROVE  ServInv' /\ KeptKeyed(ServLeaves, ServInner)
  <2>1. PICK k : k = <<c, to, ch>>
    OBVIOUS
  <2>2. k \in ServLeaves /\ Len(k) = 3
    BY <2>1, ServLayout
  <2>3. k \in DOMAIN cache /\ store' = Delete(store, {k})
        /\ cache' = [x \in DOMAIN cache \ {k} |-> cache[x]]
    BY <1>2, <2>1 DEF Pserv!Stop, Pserv!Serving, Pserv!Cached, Pserv!Delete, Delete
  <2>4. Has(k)
    BY <2>2, <2>3 DEF ServInv, Has
  <2>5. KeptKeyed(ServLeaves, ServInner)
    BY <2>2, <2>3, <2>4, DeleteKeeps, ServLayout DEF ServInv
  <2>6. TableOf(store', ServLeaves) = Dropped(TableOf(store, ServLeaves), k)
    BY <2>2, <2>3, DeleteDrops, ServLayout DEF ServInv
  <2>7. \A x \in ServLeaves : /\ x \in DOMAIN store' <=> x # k /\ x \in DOMAIN store
                              /\ x \in DOMAIN store' => store'[x].value = store[x].value
    BY <2>6, <2>2 DEF TableOf, Dropped
  <2>8. DOMAIN cache' = DOMAIN cache \ {k} /\ \A x \in DOMAIN cache' : cache'[x] = cache[x]
    BY <2>3
  <2>9. \A x \in DOMAIN cache' : \A i \in 1 .. Len(x) : Cut(x, i) \in DOMAIN cache'
    <3>1. ASSUME NEW x \in DOMAIN cache', NEW i \in 1 .. Len(x), Cut(x, i) = k PROVE FALSE
      <4>1. x \in ServLeaves \cup ServInner /\ i \in 0 .. Len(x)
        BY <2>8 DEF ServInv
      <4> QED
        BY <2>2, <2>8, <3>1, <4>1, LeafIsLast, ServLayout
    <3> QED
      BY <2>8, <3>1 DEF ServInv
  <2> QED
    BY <2>5, <2>7, <2>8, <2>9 DEF ServInv, KeptKeyed
<1>3. ASSUME NEW c \in Currency, NEW to \in Peer, Pserv!PruneRecipient(c, to)
      PROVE  ServInv' /\ KeptKeyed(ServLeaves, ServInner)
  <2>1. PICK k : k = <<c, to>>
    OBVIOUS
  <2>2. k \in ServInner /\ k # <<>> /\ Len(k) = 2 /\ k \notin ServLeaves
    BY <2>1, ServLayout DEF Layout
  <2>3. CASE UNCHANGED <<store, cache>>
    BY <2>3 DEF ServInv, KeptKeyed, TableStep
  <2>4. CASE /\ Pserv!CachedIn(k) = {}
             /\ cache' = [x \in DOMAIN cache \ {k} |-> cache[x]]
             /\ store' \in {Delete(store, {k}), store}
    <3>1. ASSUME NEW x \in ServLeaves, Cut(x, 2) = k PROVE x \notin DOMAIN store /\ x \notin DOMAIN cache
      <4>1. Len(x) = 3
        BY ServLayout
      <4> QED
        BY <2>2, <2>4, <3>1, <4>1 DEF Pserv!CachedIn, Cut, ServInv
    <3>2. k \in DOMAIN store => store[k].kids = {}
      <4>1. SUFFICES ASSUME k \in DOMAIN store, NEW n \in Name, Append(k, n) \in DOMAIN store PROVE FALSE
        BY DEF ServInv, Keyed, Exact
      <4>2. k \in Path
        BY <2>2, ServLayout DEF Layout
      <4>3. PICK x : x = Append(k, n)
        OBVIOUS
      <4>4. Len(x) = 3 /\ Cut(x, 2) = k
        <5>1. Len(x) = Len(k) + 1 /\ Cut(x, Len(k)) = k
          BY <4>2, <4>3, AppendFacts
        <5> QED
          BY <2>2, <5>1
      <4>5. x \in ServLeaves
        <5>1. x \in ServLeaves \cup ServInner
          BY <4>1, <4>3 DEF ServInv, Keyed
        <5>2. x \notin ServInner
          <6>1. Len(x) \notin {0, 1, 2}
            BY <4>4
          <6> QED
            BY <6>1, ServLayout
        <5> QED
          BY <5>1, <5>2
      <4> QED
        BY <3>1, <4>1, <4>3, <4>4, <4>5
    <3>3. Keyed(store', ServLeaves, ServInner)
          /\ TableOf(store', ServLeaves) = TableOf(store, ServLeaves)
      <4>1. CASE store' = store
        BY <4>1 DEF ServInv
      <4>2. CASE store' = Delete(store, {k})
        BY <2>2, <3>2, <4>2, PruneKeeps, ServLayout DEF ServInv
      <4> QED
        BY <2>4, <4>1, <4>2
    <3>4. \A x \in ServLeaves : /\ x \in DOMAIN store' <=> x \in DOMAIN store
                                /\ x \in DOMAIN store' => store'[x].value = store[x].value
      BY <3>3 DEF TableOf
    <3>5. DOMAIN cache' = DOMAIN cache \ {k} /\ \A x \in DOMAIN cache' : cache'[x] = cache[x]
      BY <2>4
    <3>6. \A x \in DOMAIN cache' : \A i \in 1 .. Len(x) : Cut(x, i) \in DOMAIN cache'
      <4>1. ASSUME NEW x \in DOMAIN cache', NEW i \in 1 .. Len(x), Cut(x, i) = k PROVE FALSE
        <5>1. x \in ServLeaves \cup ServInner /\ x # k /\ x \in DOMAIN cache /\ x \in Path
          BY <3>5, ServLayout DEF ServInv, Layout
        <5>2. i \in 0 .. Len(x)
          OBVIOUS
        <5>3. i = 2
          BY <2>2, <4>1, <5>1, <5>2, CutFacts
        <5>4. Len(x) # 2
          BY <4>1, <5>1, <5>3, CutEnds
        <5>5. Len(x) \in Nat /\ Len(x) >= 2
          BY <5>1, <5>3 DEF Path
        <5>6. x \in ServLeaves
          <6>1. PICK n \in Nat : n = Len(x)
            BY <5>5
          <6>2. n >= 2 /\ n # 2
            BY <5>4, <5>5, <6>1
          <6>3. n \notin {0, 1, 2}
            BY <6>2
          <6> QED
            BY <5>1, <6>1, <6>3, ServLayout
        <5> QED
          BY <3>1, <4>1, <5>1, <5>3, <5>6
      <4> QED
        BY <3>5, <4>1 DEF ServInv
    <3>7. \A x \in ServLeaves : x \in DOMAIN cache' <=> x \in DOMAIN store'
      BY <2>2, <3>4, <3>5 DEF ServInv
    <3>8. \A x \in ServLeaves : x \in DOMAIN store' => cache'[x] = store'[x].value
      BY <3>4, <3>5, <3>7 DEF ServInv
    <3>9. DOMAIN cache' \subseteq ServLeaves \cup ServInner
      BY <3>5 DEF ServInv
    <3> QED
      BY <3>3, <3>6, <3>7, <3>8, <3>9 DEF ServInv, KeptKeyed, TableStep
  <2> QED
    BY <1>3, <2>1, <2>3, <2>4 DEF Pserv!PruneRecipient, Pserv!Recipient, Pserv!Delete, Delete
<1>4. CASE Pserv!Start
  <2>1. StartClean(Pserv!Inner) /\ cache' = Pserv!Loaded(store')
    BY <1>4 DEF Pserv!Start, Pserv!StartClean, StartClean, Pserv!Has, Has, Pserv!Kids, Kids,
       Pserv!Delete, Delete
  <2>2. \A q \in Pserv!Inner : q \in ServInner /\ q # <<>>
    <3>1. \A c \in Currency, to \in Peer : /\ Pserv!Recipient(c, to) \in ServInner
                                            /\ Pserv!Recipient(c, to) # <<>>
      BY ServLayout DEF Pserv!Recipient
    <3> QED
      BY <3>1 DEF Pserv!Inner
  <2>3. KeptKeyed(ServLeaves, ServInner)
    BY <2>1, <2>2, StartCleanKeeps, ServLayout DEF ServInv
  <2>4. Keyed(store', ServLeaves, ServInner)
    BY <2>3 DEF KeptKeyed
  <2>5. DOMAIN cache' = DOMAIN store' \ {<<>>} /\ \A k \in DOMAIN cache' : cache'[k] = store'[k].value
    BY <2>1 DEF Pserv!Loaded, Pserv!Root
  <2>6. ASSUME NEW k \in DOMAIN cache', NEW i \in 1 .. Len(k) PROVE Cut(k, i) \in DOMAIN cache'
    <3>1. k \in DOMAIN store' /\ k \in Path /\ i \in 0 .. Len(k) /\ i # 0
      BY <2>4, <2>5 DEF Keyed, Tree
    <3>2. Cut(k, i) \in DOMAIN store' /\ Len(Cut(k, i)) = i
      BY <2>4, <3>1, CutFacts DEF Keyed, Tree
    <3>3. Cut(k, i) # <<>>
      BY <3>1, <3>2
    <3> QED
      BY <2>5, <3>2, <3>3
  <2>7. \A k \in ServLeaves : k # <<>>
    BY ServLayout
  <2> QED
    BY <2>3, <2>4, <2>5, <2>6, <2>7 DEF ServInv, Keyed
<1> QED
  BY <1>1, <1>2, <1>3, <1>4 DEF Pserv!Next

-----------------------------------------------------------------------------
(* The peers.  The list of a peer is not exact: only those above it are.    *)
PeerKeys == PairLeaves(Currency, Peer)
PeerNodes == PairInner(Currency)
RecordKeys == {<<c, to, recID>> : c \in Currency, to \in Peer, recID \in Nat}

(* The key of a record.                                                     *)
LEMMA RecordKeyForm ==
    ASSUME NEW q
    PROVE  q \in RecordKeys <=> \E c \in Currency, to \in Peer, recID \in Nat : q = <<c, to, recID>>
BY DEF RecordKeys

(* How long the keys of currencies, peers and records are, and what is      *)
(* above them.                                                              *)
LEMMA PeerShapes ==
    /\ PeerKeys \subseteq Path /\ PeerNodes \subseteq Path /\ RecordKeys \subseteq Path
    /\ \A q \in PeerNodes : Len(q) \in {0, 1}
    /\ \A q \in PeerKeys : Len(q) = 2 /\ q = <<q[1], q[2]>> /\ Above(q) \subseteq PeerNodes
    /\ \A q \in RecordKeys : /\ Len(q) = 3 /\ Cut(q, 2) = <<q[1], q[2]>> /\ Cut(q, 2) \in PeerKeys
                             /\ Above(q) \subseteq PeerNodes \cup {Cut(q, 2)}
    /\ \A c \in Currency, to \in Peer : <<c, to>> \in PeerKeys
    /\ \A c \in Currency, to \in Peer, recID \in Nat : <<c, to, recID>> \in RecordKeys
<1>0. Currency \subseteq Name /\ Peer \subseteq Name /\ Nat \subseteq Name
  BY DEF Name
<1>1. Layout(PeerKeys, PeerNodes)
  BY <1>0, PairLayout DEF PeerKeys, PeerNodes
<1>2. ASSUME NEW q \in PeerNodes PROVE Len(q) \in {0, 1}
  <2>1. q = <<>> \/ \E c \in Currency : q = <<c>>
    BY PairKeys DEF PeerNodes
  <2> QED
    BY <2>1
<1>3. ASSUME NEW q \in PeerKeys
      PROVE  Len(q) = 2 /\ q = <<q[1], q[2]>> /\ Above(q) \subseteq PeerNodes
  <2>1. PICK c \in Currency, to \in Peer : q = <<c, to>>
    BY PairKeys DEF PeerKeys
  <2> QED
    BY <1>1, <2>1 DEF Layout
<1>4. \A c \in Currency, to \in Peer : <<c, to>> \in PeerKeys
  BY PairKeys DEF PeerKeys
<1>5. ASSUME NEW q \in RecordKeys
      PROVE  /\ q \in Path /\ Len(q) = 3 /\ Cut(q, 2) = <<q[1], q[2]>> /\ Cut(q, 2) \in PeerKeys
             /\ Above(q) \subseteq PeerNodes \cup {Cut(q, 2)}
  <2>1. PICK c \in Currency, to \in Peer, recID \in Nat : q = <<c, to, recID>>
    BY RecordKeyForm
  <2>2. c \in Name /\ to \in Name /\ recID \in Name
    BY <1>0
  <2>3. q \in Path /\ Above(q) = {<<>>, <<c>>, <<c, to>>}
    BY <2>1, <2>2, PathShapes
  <2>4. Cut(q, 2) = <<c, to>>
    BY <2>1, <2>2, ShortPaths
  <2>5. Len(q) = 3 /\ q[1] = c /\ q[2] = to
    BY <2>1
  <2>6. <<>> \in PeerNodes /\ <<c>> \in PeerNodes
    BY PairKeys DEF PeerNodes
  <2> QED
    BY <1>4, <2>3, <2>4, <2>5, <2>6
<1>6. \A c \in Currency, to \in Peer, recID \in Nat : <<c, to, recID>> \in RecordKeys
  BY RecordKeyForm
<1> QED
  BY <1>1, <1>2, <1>3, <1>4, <1>5, <1>6 DEF Layout

PeerRecord(v) == {"blocked", "addr", "recID"} \subseteq DOMAIN v /\ v.recID \in Nat
Shown(v) == [blocked |-> v.blocked, addr |-> v.addr]

PeerInv(s) ==
    /\ Tree(s)
    /\ DOMAIN s \subseteq PeerNodes \cup PeerKeys \cup RecordKeys
    /\ \A q \in DOMAIN s \cap PeerNodes : Exact(s, q)
    /\ \A q \in DOMAIN s \cap PeerKeys : PeerRecord(s[q].value)

PeerTable(s) ==
    [k \in DOMAIN s \cap (PeerKeys \cup RecordKeys) |->
       IF k \in PeerKeys THEN Shown(s[k].value) ELSE s[k].value]

(* No key is of two of these kinds.                                         *)
LEMMA PeerKinds ==
    /\ PeerNodes \cap PeerKeys = {} /\ PeerNodes \cap RecordKeys = {} /\ PeerKeys \cap RecordKeys = {}
<1>1. ASSUME NEW q \in PeerNodes PROVE q \notin PeerKeys /\ q \notin RecordKeys
  <2>1. Len(q) \in {0, 1}
    BY PeerShapes
  <2>2. Len(q) # 2 /\ Len(q) # 3
    BY <2>1
  <2> QED
    BY <2>2, PeerShapes
<1>2. ASSUME NEW q \in PeerKeys PROVE q \notin RecordKeys
  <2>1. Len(q) # 3
    BY PeerShapes
  <2> QED
    BY <2>1, PeerShapes
<1> QED
  BY <1>1, <1>2

(* To put a peer.                                                           *)
LEMMA PutPeer ==
    ASSUME NEW s, PeerInv(s), NEW path \in PeerKeys, NEW v, PeerRecord(v)
    PROVE  /\ PeerInv(Put(s, v, path))
           /\ PeerTable(Put(s, v, path)) = Entered(PeerTable(s), path, Shown(v))
           /\ \A q \in DOMAIN s \cap PeerKeys : q # path => Put(s, v, path)[q] = s[q]
           /\ path \in DOMAIN Put(s, v, path) /\ Put(s, v, path)[path].value = v
<1>1. Tree(s) /\ path \in Path /\ Len(path) = 2 /\ path # <<>> /\ Above(path) \subseteq PeerNodes
  BY PeerShapes DEF PeerInv
<1>2. \A j \in 0 .. Len(path) - 2 : Cut(path, j) \in DOMAIN s => Exact(s, Cut(path, j))
  <2>1. \A j \in 0 .. Len(path) - 2 : j = 0
    BY <1>1
  <2>2. Cut(path, 0) = <<>> /\ <<>> \in PeerNodes
    BY <1>1, CutEnds, PairKeys DEF PeerNodes
  <2> QED
    BY <2>1, <2>2 DEF PeerInv
<1>3. PICK t : t = Put(s, v, path)
  OBVIOUS
<1>4. Tree(t) /\ PutMakes(s, v, path, t)
  BY <1>1, <1>2, <1>3, PutTree, PutFacts
<1>5. /\ DOMAIN t = DOMAIN s \cup Above(path) \cup {path}
      /\ t[path] = [value |-> v, kids |-> {}]
      /\ \A q \in DOMAIN s : q \notin Above(path) \cup {path} => t[q] = s[q]
  BY <1>4 DEF PutMakes
<1>6. DOMAIN t \subseteq PeerNodes \cup PeerKeys \cup RecordKeys
  BY <1>1, <1>5 DEF PeerInv
<1>7. ASSUME NEW q \in DOMAIN t \cap PeerNodes PROVE Exact(t, q)
  <2>1. q # path
    BY PeerKinds
  <2>2. q \in DOMAIN s => Exact(s, q)
    BY DEF PeerInv
  <2> QED
    BY <1>1, <1>2, <1>3, <2>1, <2>2, PutExact
<1>8. \A q \in DOMAIN s : q \in PeerKeys \cup RecordKeys /\ q # path => t[q] = s[q]
  BY <1>1, <1>5, PeerKinds
<1>9. DOMAIN t \cap (PeerKeys \cup RecordKeys) = (DOMAIN s \cap (PeerKeys \cup RecordKeys)) \cup {path}
  BY <1>1, <1>5, PeerKinds
<1>10. t[path].value = v
  BY <1>5
<1>11. \A q \in DOMAIN t \cap PeerKeys : PeerRecord(t[q].value)
  BY <1>8, <1>9, <1>10 DEF PeerInv
<1>12. PeerTable(t) = Entered(PeerTable(s), path, Shown(v))
  BY <1>8, <1>9, <1>10 DEF PeerTable, Entered
<1> QED
  BY <1>3, <1>4, <1>5, <1>6, <1>7, <1>8, <1>10, <1>11, <1>12 DEF PeerInv

(* To put a record of a peer that is there.                                 *)
LEMMA PutRecord ==
    ASSUME NEW s, PeerInv(s), NEW path \in RecordKeys, Cut(path, 2) \in DOMAIN s, NEW rec
    PROVE  /\ PeerInv(Put(s, rec, path))
           /\ PeerTable(Put(s, rec, path)) = Entered(PeerTable(s), path, rec)
<1>1. /\ Tree(s) /\ path \in Path /\ Len(path) = 3 /\ path # <<>>
      /\ Above(path) \subseteq PeerNodes \cup {Cut(path, 2)} /\ Cut(path, 2) \in PeerKeys
  BY PeerShapes DEF PeerInv
<1>2. \A j \in 0 .. Len(path) - 2 : Cut(path, j) \in DOMAIN s => Exact(s, Cut(path, j))
  <2>1. ASSUME NEW j \in 0 .. Len(path) - 2 PROVE Cut(path, j) \in PeerNodes
    <3>1. j \in 0 .. Len(path) - 1 /\ j \in 0 .. Len(path) /\ j # 2
      BY <1>1
    <3>2. Cut(path, j) \in Above(path)
      BY <3>1 DEF Above
    <3>3. Len(Cut(path, j)) # 2
      BY <1>1, <3>1, CutFacts
    <3> QED
      BY <1>1, <3>2, <3>3, PeerShapes
  <2> QED
    BY <2>1 DEF PeerInv
<1>3. PICK t : t = Put(s, rec, path)
  OBVIOUS
<1>4. Tree(t) /\ PutMakes(s, rec, path, t)
  BY <1>1, <1>2, <1>3, PutTree, PutFacts
<1>5. /\ DOMAIN t = DOMAIN s \cup Above(path) \cup {path}
      /\ t[path] = [value |-> rec, kids |-> {}]
      /\ \A q \in DOMAIN s : q \notin Above(path) \cup {path} => t[q] = s[q]
  BY <1>4 DEF PutMakes
<1>6. t[Cut(path, 2)].value = s[Cut(path, 2)].value
  <2>1. 2 \in 0 .. Len(path) - 1
    BY <1>1
  <2>2. t[Cut(path, 2)] = [s[Cut(path, 2)] EXCEPT !.kids = @ \cup {path[2 + 1]}]
    BY <1>4, <2>1 DEF PutMakes
  <2> QED
    BY <1>1, <2>2 DEF Tree
<1>7. DOMAIN t \subseteq PeerNodes \cup PeerKeys \cup RecordKeys
  BY <1>1, <1>5 DEF PeerInv
<1>8. ASSUME NEW q \in DOMAIN t \cap PeerNodes PROVE Exact(t, q)
  <2>1. q # path
    BY PeerKinds
  <2>2. q \in DOMAIN s => Exact(s, q)
    BY DEF PeerInv
  <2> QED
    BY <1>1, <1>2, <1>3, <2>1, <2>2, PutExact
<1>9. \A q \in DOMAIN s : q \in PeerKeys \cup RecordKeys /\ q # path => t[q].value = s[q].value
  BY <1>1, <1>5, <1>6, PeerKinds
<1>10. DOMAIN t \cap (PeerKeys \cup RecordKeys) = (DOMAIN s \cap (PeerKeys \cup RecordKeys)) \cup {path}
  BY <1>1, <1>5, PeerKinds
<1>11. t[path].value = rec /\ path \notin PeerKeys
  BY <1>5, PeerKinds
<1>12. \A q \in DOMAIN t \cap PeerKeys : PeerRecord(t[q].value)
  BY <1>9, <1>10, <1>11 DEF PeerInv
<1>13. PeerTable(t) = Entered(PeerTable(s), path, rec)
  BY <1>9, <1>10, <1>11 DEF PeerTable, Entered
<1> QED
  BY <1>3, <1>4, <1>7, <1>8, <1>12, <1>13 DEF PeerInv

(* To delete some keys that have a value, with what is below them.          *)
LEMMA DeleteOfPeers ==
    ASSUME NEW s, PeerInv(s), NEW D, D \subseteq PeerKeys \cup RecordKeys,
           \A q \in DOMAIN s \cap RecordKeys : Cut(q, 2) \in D => q \in D
    PROVE  /\ PeerInv(Delete(s, D))
           /\ PeerTable(Delete(s, D)) = [x \in DOMAIN PeerTable(s) \ D |-> PeerTable(s)[x]]
<1>1. Tree(s) /\ DOMAIN s \subseteq PeerNodes \cup PeerKeys \cup RecordKeys
  BY DEF PeerInv
<1>2. <<>> \notin D
  <2>1. <<>> \in PeerNodes
    BY PairKeys DEF PeerNodes
  <2> QED
    BY <2>1, PeerKinds
<1>3. ASSUME NEW q \in DOMAIN s \ D, NEW i \in 0 .. Len(q), Cut(q, i) \in D PROVE FALSE
  <2>1. q \in Path /\ Len(q) \in Nat
    BY <1>1 DEF Tree, Path
  <2>2. i # Len(q) /\ i \in 0 .. Len(q) - 1
    BY <1>3, <2>1, CutEnds
  <2>3. Cut(q, i) \in Above(q) /\ Cut(q, i) \in PeerKeys \cup RecordKeys /\ Cut(q, i) \notin PeerNodes
    BY <1>3, <2>2, PeerKinds DEF Above
  <2>4. CASE q \in PeerNodes
    <3>1. Len(q) = 0 \/ Len(q) = 1
      BY <2>4, PeerShapes
    <3>2. \A n \in Nat : \A j \in 0 .. n - 1 : n = 0 \/ n = 1 => j = 0
      OBVIOUS
    <3>3. i = 0
      BY <2>1, <2>2, <3>1, <3>2
    <3> QED
      BY <1>2, <1>3, <2>1, <3>3, CutEnds
  <2>5. CASE q \in PeerKeys
    BY <2>3, <2>5, PeerShapes
  <2>6. CASE q \in RecordKeys
    <3>1. Cut(q, i) = Cut(q, 2)
      BY <2>3, <2>6, PeerShapes
    <3> QED
      BY <1>3, <2>6, <3>1
  <2> QED
    BY <1>1, <2>4, <2>5, <2>6
<1>4. PICK t : t = Delete(s, D)
  OBVIOUS
<1>5. /\ Tree(t) /\ DOMAIN t = DOMAIN s \ D
      /\ \A q \in DOMAIN t : t[q].value = s[q].value
      /\ \A q \in DOMAIN t : Exact(s, q) => Exact(t, q)
  BY <1>1, <1>2, <1>3, <1>4, DeleteFacts
<1>6. PeerInv(t)
  BY <1>1, <1>5 DEF PeerInv
<1>7. PeerTable(t) = [x \in DOMAIN PeerTable(s) \ D |-> PeerTable(s)[x]]
  BY <1>5 DEF PeerTable
<1> QED
  BY <1>4, <1>6, <1>7

(* The records of a peer.                                                   *)
RecordsOf(s, k) == {q \in DOMAIN s : Len(q) = 3 /\ Cut(q, 2) = k}

(* To delete a peer with its records, and to delete one record.             *)
LEMMA DeletePeer ==
    ASSUME NEW s, PeerInv(s), NEW path \in PeerKeys,
           NEW D, D = RecordsOf(s, path) \cup {path}
    PROVE  PeerInv(Delete(s, D)) /\ PeerTable(Delete(s, D)) = Cleared(PeerTable(s), path)
<1>0. D = {q \in DOMAIN s : Len(q) = 3 /\ Cut(q, 2) = path} \cup {path}
  BY DEF RecordsOf
<1>1. DOMAIN s \subseteq PeerNodes \cup PeerKeys \cup RecordKeys /\ Len(path) = 2
  BY PeerShapes DEF PeerInv
<1>2. ASSUME NEW q \in D PROVE q \in PeerKeys \cup RecordKeys
  <2>1. CASE q \in DOMAIN s /\ Len(q) = 3
    <3>1. ~(Len(q) \in {0, 1}) /\ ~(Len(q) = 2)
      BY <2>1
    <3> QED
      BY <1>1, <2>1, <3>1, PeerShapes
  <2> QED
    BY <1>0, <1>2, <2>1
<1>3. ASSUME NEW q \in DOMAIN s \cap RecordKeys, Cut(q, 2) \in D PROVE q \in D
  <2>1. Cut(q, 2) \in PeerKeys /\ Len(q) = 3
    BY PeerShapes
  <2>2. Len(Cut(q, 2)) # 3
    BY <2>1, PeerShapes
  <2>3. Cut(q, 2) = path
    BY <1>0, <1>3, <2>2
  <2> QED
    BY <1>0, <2>1, <2>3
<1>4. PeerInv(Delete(s, D)) /\ PeerTable(Delete(s, D)) = [x \in DOMAIN PeerTable(s) \ D |-> PeerTable(s)[x]]
  BY <1>2, <1>3, DeleteOfPeers
<1>5. PICK e : e = PeerTable(s)
  OBVIOUS
<1>6. DOMAIN e = DOMAIN s \cap (PeerKeys \cup RecordKeys)
  BY <1>5 DEF PeerTable
<1>7. ASSUME NEW x \in DOMAIN e PROVE x \in D <=> x \in Below(e, path)
  <2>1. x \in DOMAIN s
    BY <1>6
  <2>2. CASE x \in PeerKeys
    <3>1. Len(x) = 2 /\ Len(x) # 3 /\ x \in Path
      BY <2>2, PeerShapes
    <3>2. Cut(x, 2) = x
      BY <3>1, CutEnds
    <3> QED
      BY <1>0, <1>1, <3>1, <3>2 DEF Below
  <2>3. CASE x \in RecordKeys
    <3>1. Len(x) = 3 /\ x # path
      BY <2>3, PeerShapes, PeerKinds
    <3>2. 2 <= 3
      OBVIOUS
    <3> QED
      BY <1>0, <1>1, <2>1, <3>1, <3>2 DEF Below
  <2> QED
    BY <1>6, <2>2, <2>3
<1>8. DOMAIN e \ D = DOMAIN e \ Below(e, path)
  BY <1>7
<1> QED
  BY <1>4, <1>5, <1>8 DEF Cleared

(* Deleting a record clears its entry and no other.                         *)
LEMMA DeleteRecord ==
    ASSUME NEW s, PeerInv(s), NEW path \in RecordKeys
    PROVE  PeerInv(Delete(s, {path})) /\ PeerTable(Delete(s, {path})) = Cleared(PeerTable(s), path)
<1>1. Len(path) = 3
  BY PeerShapes
<1>2. \A q \in RecordKeys : Cut(q, 2) # path
  BY PeerShapes, PeerKinds
<1>3. /\ PeerInv(Delete(s, {path}))
      /\ PeerTable(Delete(s, {path})) = [x \in DOMAIN PeerTable(s) \ {path} |-> PeerTable(s)[x]]
  BY <1>2, DeleteOfPeers
<1>4. PICK e : e = PeerTable(s)
  OBVIOUS
<1>5. DOMAIN e = DOMAIN s \cap (PeerKeys \cup RecordKeys)
  BY <1>4 DEF PeerTable
<1>6. ASSUME NEW x \in DOMAIN e PROVE x = path <=> x \in Below(e, path)
  <2>1. CASE x \in PeerKeys
    <3>1. Len(x) = 2 /\ x # path /\ ~(3 <= 2)
      BY <2>1, PeerShapes, PeerKinds
    <3> QED
      BY <1>1, <3>1 DEF Below
  <2>2. CASE x \in RecordKeys
    <3>1. Len(x) = 3 /\ x \in Path /\ 3 <= 3
      BY <2>2, PeerShapes
    <3>2. Cut(x, 3) = x
      BY <3>1, CutEnds
    <3> QED
      BY <1>1, <3>1, <3>2 DEF Below
  <2> QED
    BY <1>5, <2>1, <2>2
<1>7. DOMAIN e \ {path} = DOMAIN e \ Below(e, path)
  BY <1>6
<1> QED
  BY <1>3, <1>4, <1>7 DEF Cleared

(* The keys of a store of peers, told by their length.                      *)
LEMMA PeerLengths ==
    ASSUME NEW s, PeerInv(s), NEW q \in DOMAIN s
    PROVE  /\ q \in PeerNodes <=> Len(q) = 0 \/ Len(q) = 1
           /\ q \in PeerKeys <=> Len(q) = 2
           /\ q \in RecordKeys <=> Len(q) = 3
<1>1. q \in PeerNodes \/ q \in PeerKeys \/ q \in RecordKeys
  BY DEF PeerInv
<1>2. CASE q \in PeerNodes
  <2>1. Len(q) = 0 \/ Len(q) = 1
    BY <1>2, PeerShapes
  <2>2. Len(q) # 2 /\ Len(q) # 3
    BY <2>1
  <2> QED
    BY <1>2, <2>1, <2>2, PeerKinds
<1>3. CASE q \in PeerKeys
  <2>1. Len(q) = 2
    BY <1>3, PeerShapes
  <2>2. Len(q) # 0 /\ Len(q) # 1 /\ Len(q) # 3
    BY <2>1
  <2> QED
    BY <1>3, <2>1, <2>2, PeerKinds
<1>4. CASE q \in RecordKeys
  <2>1. Len(q) = 3
    BY <1>4, PeerShapes
  <2>2. Len(q) # 0 /\ Len(q) # 1 /\ Len(q) # 2
    BY <2>1
  <2> QED
    BY <1>4, <2>1, <2>2, PeerKinds
<1> QED
  BY <1>1, <1>2, <1>3, <1>4

-----------------------------------------------------------------------------
(* A store without some of its keys, and the store of the peers without the *)
(* records that have been left behind.                                      *)
Without(s, l) == [q \in DOMAIN s \ l |-> s[q]]
Rest == Without(store, left)

PeersInv == left \subseteq RecordKeys /\ PeerInv(Rest)

(* To put a key makes the same of the rest, unless it is below one that is  *)
(* left behind; the key itself is left behind no more.                      *)
LEMMA PutWithout ==
    ASSUME NEW s, NEW l, l \subseteq RecordKeys, PeerInv(Without(s, l)), NEW v,
           NEW path \in PeerKeys \cup RecordKeys
    PROVE  Without(Put(s, v, path), l \ {path}) = Put(Without(s, l), v, path)
<1>1. PICK r : r = Without(s, l)
  OBVIOUS
<1>2. DOMAIN r = DOMAIN s \ l /\ \A q \in DOMAIN r : r[q] = s[q]
  BY <1>1 DEF Without
<1>3. /\ Tree(r) /\ path \in Path /\ Len(path) \in {2, 3}
      /\ Above(path) \subseteq PeerNodes \cup PeerKeys
  BY <1>1, PeerShapes DEF PeerInv
<1>4. ASSUME NEW i \in 0 .. Len(path) - 1
      PROVE  /\ Cut(path, i) \in Above(path) /\ Cut(path, i) \in Path
             /\ Len(Cut(path, i)) = i /\ Cut(path, i) \notin l
  <2>1. i \in 0 .. Len(path) /\ Cut(path, i) \in Above(path)
    BY <1>3 DEF Above
  <2> QED
    BY <1>3, <2>1, CutFacts, PeerKinds
<1>5. path # <<>> /\ Len(path) \in Nat
  <2>1. Len(<<>>) = 0
    OBVIOUS
  <2> QED
    BY <1>3, <2>1
<1>6. ASSUME NEW j \in 0 .. Len(path) - 2, Cut(path, j) \in DOMAIN r
      PROVE  Exact(r, Cut(path, j)) /\ Exact(s, Cut(path, j))
  <2>1. j \in 0 .. Len(path) - 1 /\ (j = 0 \/ j = 1)
    <3>1. \A n \in Nat : \A i \in 0 .. n - 2 :
            n = 2 \/ n = 3 => i \in 0 .. n - 1 /\ (i = 0 \/ i = 1)
      OBVIOUS
    <3>2. Len(path) = 2 \/ Len(path) = 3
      BY <1>3
    <3> QED
      BY <1>5, <3>1, <3>2
  <2>2. Cut(path, j) \in PeerNodes
    <3>1. Len(Cut(path, j)) = j /\ j # 2
      BY <1>4, <2>1
    <3> QED
      BY <1>3, <1>4, <2>1, <3>1, PeerShapes
  <2>3. Exact(r, Cut(path, j))
    BY <1>1, <1>6, <2>2 DEF PeerInv
  <2>4. \A k \in Name : Append(Cut(path, j), k) \notin l
    <3> TAKE k \in Name
    <3>1. Len(Append(Cut(path, j), k)) = j + 1 /\ j + 1 # 3
      BY <1>4, <2>1, AppendFacts
    <3> QED
      BY <3>1, PeerShapes
  <2>5. Exact(s, Cut(path, j))
    BY <1>2, <1>6, <2>3, <2>4 DEF Exact
  <2> QED
    BY <2>3, <2>5
<1>7. \A i \in 0 .. Len(path) - 1 : Cut(path, i) \in DOMAIN r <=> Cut(path, i) \in DOMAIN s
  BY <1>2, <1>4
<1>8. Reached(r, path)
  BY <1>3, TreeReached
<1>9. Reached(s, path)
  BY <1>2, <1>7, <1>8 DEF Reached
<1>10. \A j \in 0 .. Len(path) - 2 : j \in 0 .. Len(path) - 1
  BY <1>5
<1>11. PICK t : t = Put(s, v, path)
  OBVIOUS
<1>12. PICK u : u = Put(r, v, path)
  OBVIOUS
<1>13. PutMakes(s, v, path, t)
  BY <1>3, <1>6, <1>7, <1>9, <1>10, <1>11, PutReaches
<1>14. PutMakes(r, v, path, u)
  BY <1>3, <1>6, <1>8, <1>12, PutReaches
<1>15. Above(path) \cap l = {}
  BY <1>4 DEF Above
<1>16. DOMAIN t \ (l \ {path}) = DOMAIN u
  BY <1>2, <1>13, <1>14, <1>15 DEF PutMakes
<1>17. ASSUME NEW q \in DOMAIN u PROVE t[q] = u[q]
  <2>1. CASE q = path
    BY <1>13, <1>14, <2>1 DEF PutMakes
  <2>2. CASE q \in Above(path)
    <3>1. PICK i \in 0 .. Len(path) - 1 : q = Cut(path, i)
      BY <2>2 DEF Above
    <3> QED
      BY <1>2, <1>7, <1>13, <1>14, <3>1 DEF PutMakes
  <2>3. CASE q \notin Above(path) \cup {path}
    <3>1. q \in DOMAIN r /\ q \in DOMAIN s
      BY <1>2, <1>14, <2>3 DEF PutMakes
    <3> QED
      BY <1>2, <1>13, <1>14, <2>3, <3>1 DEF PutMakes
  <2> QED
    BY <2>1, <2>2, <2>3
<1>18. u = [q \in DOMAIN u |-> u[q]]
  BY <1>12 DEF Put
<1>19. Without(t, l \ {path}) = u
  BY <1>16, <1>17, <1>18 DEF Without
<1> QED
  BY <1>1, <1>11, <1>12, <1>19

(* To delete records makes the same of the rest.                            *)
LEMMA DeleteWithout ==
    ASSUME NEW s, NEW l, NEW D, NEW t, t = Delete(s, D), NEW l1, l1 = l \ D
    PROVE  Without(t, l1) = Delete(Without(s, l), D)
BY DEF Without, Delete

(* What is appended to a path can be told, and the path.                    *)
LEMMA AppendAny ==
    ASSUME NEW p \in Path, NEW k, Append(p, k) \in Path
    PROVE  Len(Append(p, k)) = Len(p) + 1 /\ Cut(Append(p, k), Len(p)) = p
<1>1. p \in Seq(Name \cup {k}) /\ Len(p) \in Nat
  BY DEF Path
<1>2. Append(p, k)[Len(p) + 1] = k /\ Len(Append(p, k)) = Len(p) + 1
  BY <1>1, AppendProperties
<1>3. PICK a \in Path : a = Append(p, k)
  OBVIOUS
<1>4. Len(p) + 1 \in 1 .. Len(a)
  BY <1>1, <1>2, <1>3
<1>5. k \in Name
  BY <1>2, <1>3, <1>4 DEF Path
<1> QED
  BY <1>5, AppendFacts

(* To remove a peer with some of its records, and to leave the others       *)
(* behind ...                                                               *)
Leaves(s, l, path, skipped, t, l1) ==
    /\ skipped \subseteq RecordsOf(s, path)
    /\ t = Delete(s, (RecordsOf(s, path) \ skipped) \cup {path})
    /\ l1 = (l \ RecordsOf(s, path)) \cup skipped

(* ... makes of the rest what it would make if all of them were deleted.    *)
LEMMA RemoveWithout ==
    ASSUME NEW s, NEW l, l \subseteq RecordKeys, PeerInv(Without(s, l)), NEW path \in PeerKeys,
           NEW skipped, NEW t, NEW l1, Leaves(s, l, path, skipped, t, l1)
    PROVE  Without(t, l1)
             = Delete(Without(s, l), RecordsOf(Without(s, l), path) \cup {path})
<1> DEFINE R == RecordsOf(s, path)
           C == (R \ skipped) \cup {path}
<1>0. /\ R = {q \in DOMAIN s : Len(q) = 3 /\ Cut(q, 2) = path} /\ skipped \subseteq R
      /\ t = Delete(s, C) /\ l1 = (l \ R) \cup skipped
  BY DEF Leaves, RecordsOf
<1> HIDE DEF R
<1>1. PICK r : r = Without(s, l)
  OBVIOUS
<1>2. DOMAIN r = DOMAIN s \ l /\ \A q \in DOMAIN r : r[q] = s[q]
  BY <1>1 DEF Without
<1>3. DOMAIN r \subseteq Path /\ DOMAIN s \subseteq Path /\ Len(path) = 2
  BY <1>1, <1>2, PeerShapes DEF PeerInv, Tree
<1>4. PICK D : D = RecordsOf(r, path) \cup {path} /\ D = (R \ l) \cup {path}
  BY <1>0, <1>2 DEF RecordsOf
<1>5. ASSUME NEW q \in DOMAIN r \ D, NEW k PROVE Append(q, k) \in C <=> Append(q, k) \in D
  <2>1. ASSUME Append(q, k) \in R PROVE FALSE
    <3>1. Len(Append(q, k)) = Len(q) + 1 /\ Cut(Append(q, k), Len(q)) = q
      BY <1>0, <1>3, <2>1, AppendAny
    <3>2. Len(q) \in Nat
      BY <1>3 DEF Path
    <3>3. \A n \in Nat : n + 1 = 3 => n = 2
      OBVIOUS
    <3>4. Len(q) = 2
      BY <1>0, <2>1, <3>1, <3>2, <3>3
    <3> QED
      BY <1>0, <1>4, <2>1, <3>1, <3>4
  <2> QED
    BY <1>4, <2>1
<1>6. path \notin R
  BY <1>0, <1>3
<1>7. (DOMAIN s \ C) \ l1 = DOMAIN r \ D
  BY <1>0, <1>2, <1>4, <1>6
<1> HIDE DEF C
<1>8. PICK u : u = Delete(r, D)
  OBVIOUS
<1>9. DOMAIN t = DOMAIN s \ C /\ u = [q \in DOMAIN r \ D |-> u[q]]
  BY <1>0, <1>8 DEF Delete
<1>10. ASSUME NEW q \in DOMAIN r \ D PROVE t[q] = u[q]
  <2>1. q \in DOMAIN s \ C /\ r[q] = s[q]
    BY <1>2, <1>7
  <2>2. {k \in s[q].kids : Append(q, k) \notin C} = {k \in s[q].kids : Append(q, k) \notin D}
    BY <1>5
  <2> QED
    BY <1>0, <1>8, <2>1, <2>2 DEF Delete
<1>11. Without(t, l1) = u
  BY <1>7, <1>9, <1>10 DEF Without
<1> QED
  BY <1>1, <1>4, <1>8, <1>11

(* All the peers and all the records are listed, but for some of those that *)
(* are left behind.                                                         *)
LEMMA PeersListed ==
    ASSUME PeersInv
    PROVE  /\ PeerM!ListPeers = DOMAIN Rest \cap PeerKeys
           /\ PeerM!ListHistory \ left = DOMAIN Rest \cap RecordKeys
<1>1. PICK s : s = Rest
  OBVIOUS
<1>2. DOMAIN s = DOMAIN store \ left /\ \A q \in DOMAIN s : q \in DOMAIN store /\ store[q] = s[q]
  BY <1>1 DEF Rest, Without
<1>3. PeerInv(s) /\ Tree(s) /\ <<>> \in DOMAIN s /\ DOMAIN s \subseteq Path
  BY <1>1 DEF PeersInv, PeerInv, Tree
<1>4. Len(<<>>) = 0 /\ <<>> \in PeerNodes
  BY PairKeys DEF PeerNodes
<1> DEFINE P == {q \in DOMAIN s : Len(q) = 1}
<1>5. Under({Root}) = P
  <2>1. \A q \in {Root} : q \in DOMAIN s /\ Len(q) = 0 /\ Exact(s, q)
    BY <1>3, <1>4 DEF Root, PeerInv
  <2>2. Under({Root}) = {q \in DOMAIN s : Len(q) = 0 + 1 /\ Cut(q, 0) \in {Root}}
    BY <1>2, <1>3, <2>1, UnderIn
  <2>3. \A q \in DOMAIN s : Cut(q, 0) \in {Root}
    BY <1>3, CutEnds DEF Root
  <2> QED
    BY <2>2, <2>3
<1>6. Under(P) = {q \in DOMAIN s : Len(q) = 2}
  <2>1. \A q \in P : q \in DOMAIN s /\ Len(q) = 1 /\ Exact(s, q)
    BY <1>3, PeerLengths DEF PeerInv
  <2>2. ASSUME NEW q \in DOMAIN s, Len(q) = 2 PROVE Cut(q, 1) \in P
    <3>1. q \in Path /\ 1 \in 0 .. Len(q)
      BY <1>3, <2>2
    <3>2. Cut(q, 1) \in DOMAIN s /\ Len(Cut(q, 1)) = 1
      BY <1>3, <3>1, CutFacts DEF Tree
    <3> QED
      BY <3>2
  <2> HIDE DEF P
  <2>3. Under(P) = {q \in DOMAIN s : Len(q) = 1 + 1 /\ Cut(q, 1) \in P}
    BY <1>2, <1>3, <2>1, UnderIn
  <2> QED
    BY <2>2, <2>3
<1>7. PeerM!ListPeers = {q \in DOMAIN s : Len(q) = 2}
  BY <1>5, <1>6 DEF PeerM!ListPeers, PeerM!ListCurrencyIDs, Under, Root, Has, Kids,
                    PeerM!Under, PeerM!Root, PeerM!Has, PeerM!Kids
<1>8. PeerM!ListPeers = DOMAIN s \cap PeerKeys
  BY <1>3, <1>7, PeerLengths
<1>9. \A x : x \in PeerM!ListHistory <=> \E k \in PeerM!ListPeers :
        PeerM!Has(k) /\ x \in PeerM!Records(k[1], k[2])
  BY DEF PeerM!ListHistory
<1>10. ASSUME NEW k \in DOMAIN s \cap PeerKeys, NEW x
       PROVE  x \in PeerM!Records(k[1], k[2]) <=> x \in DOMAIN store /\ Len(x) = 3 /\ Cut(x, 2) = k
  <2>1. k = <<k[1], k[2]>>
    BY PeerShapes
  <2> QED
    BY <2>1 DEF PeerM!Records, PeerM!PeerKey, Cut
<1>11. ASSUME NEW x \in DOMAIN s, Len(x) = 3
       PROVE  Cut(x, 2) \in DOMAIN s \cap PeerKeys
  <2>1. 2 \in 0 .. Len(x) /\ x \in RecordKeys
    BY <1>3, <1>11, PeerLengths
  <2> QED
    BY <1>3, <2>1, PeerShapes DEF Tree
<1>12. \A x : x \in PeerM!ListHistory \ left <=> x \in DOMAIN s /\ Len(x) = 3
  <2> TAKE x
  <2>1. ASSUME x \in PeerM!ListHistory \ left PROVE x \in DOMAIN s /\ Len(x) = 3
    BY <1>2, <1>8, <1>9, <1>10, <2>1
  <2>2. ASSUME x \in DOMAIN s, Len(x) = 3 PROVE x \in PeerM!ListHistory \ left
    <3>1. PICK k \in DOMAIN s \cap PeerKeys : k = Cut(x, 2)
      BY <1>11, <2>2
    <3>2. x \in DOMAIN store /\ x \notin left /\ k \in DOMAIN store
      BY <1>2, <2>2
    <3>3. x \in PeerM!Records(k[1], k[2]) /\ PeerM!Has(k)
      BY <1>10, <2>2, <3>1, <3>2 DEF PeerM!Has
    <3> QED
      BY <1>8, <1>9, <3>2, <3>3
  <2> QED
    BY <2>1, <2>2
<1>13. PeerM!ListHistory \ left = DOMAIN s \cap RecordKeys
  BY <1>3, <1>12, PeerLengths
<1> QED
  BY <1>1, <1>8, <1>13

(* What the peer manager lists is the table its store holds, without what   *)
(* is left behind.                                                          *)
LEMMA PeerEntries ==
    ASSUME PeersInv
    PROVE  PeerM!Entries = PeerTable(Rest)
<1>1. PICK s : s = Rest
  OBVIOUS
<1>2. PeerInv(s) /\ left \cap PeerKeys = {} /\ \A q \in DOMAIN s : store[q] = s[q]
  BY <1>1, PeerKinds DEF PeersInv, Rest, Without
<1>3. /\ PeerM!ListPeers = DOMAIN s \cap PeerKeys
      /\ PeerM!ListHistory \ left = DOMAIN s \cap RecordKeys
  BY <1>1, PeersListed
<1>4. (PeerM!ListPeers \cup PeerM!ListHistory) \ left = DOMAIN s \cap (PeerKeys \cup RecordKeys)
  BY <1>2, <1>3
<1>5. ASSUME NEW k \in DOMAIN s \cap (PeerKeys \cup RecordKeys)
      PROVE  (IF Len(k) = 2
              THEN [blocked |-> PeerM!IsBlocked(k[1], k[2]), addr |-> PeerM!PeerAddr(k[1], k[2])]
              ELSE PeerM!Get(k))
             = IF k \in PeerKeys THEN Shown(s[k].value) ELSE s[k].value
  <2>1. k \in PeerKeys <=> Len(k) = 2
    BY <1>2, PeerLengths
  <2>2. PeerM!Get(k) = s[k].value
    BY <1>2 DEF PeerM!Get
  <2>3. ASSUME k \in PeerKeys
        PROVE  [blocked |-> PeerM!IsBlocked(k[1], k[2]), addr |-> PeerM!PeerAddr(k[1], k[2])]
               = Shown(s[k].value)
    <3>1. k = <<k[1], k[2]>> /\ store[k] = s[k]
      BY <1>2, <2>3, PeerShapes
    <3> QED
      BY <3>1 DEF PeerM!IsBlocked, PeerM!PeerAddr, PeerM!Get, PeerM!PeerKey, Shown
  <2> QED
    BY <2>1, <2>2, <2>3
<1> QED
  BY <1>1, <1>4, <1>5 DEF PeerM!Entries, PeerTable

(* What a step makes of the store, and of what is left behind.              *)
PeerStepOf(t, l) ==
    /\ l \subseteq RecordKeys
    /\ PeerInv(Without(t, l))
    /\ Changed(PeerTable(Rest), PeerTable(Without(t, l)))

(* To put a peer, and to remove a record, are such steps.                   *)
LEMMA PeerIsPut ==
    ASSUME PeersInv, NEW path \in PeerKeys, NEW v, PeerRecord(v), PeerM!SetKey(v, path),
           left' = left
    PROVE  PeerStepOf(store', left')
<1>1. store' = Put(store, v, path)
  BY DEF PeerM!SetKey, PeerM!Put, Put, PeerM!Blank, Blank
<1>2. left \ {path} = left
  BY PeerKinds DEF PeersInv
<1>3. Without(store', left') = Put(Rest, v, path)
  BY <1>1, <1>2, PutWithout DEF PeersInv, Rest
<1> QED
  BY <1>3, PutPeer DEF PeersInv, PeerStepOf, Changed

(* Removing a record is a step of the table; one that is left behind is in  *)
(* no table.                                                                *)
LEMMA RecordIsRemoved ==
    ASSUME PeersInv, NEW path \in RecordKeys, PeerM!RemoveKey(path), left' = left \ {path}
    PROVE  PeerStepOf(store', left')
<1>1. store' = Delete(store, {path})
  BY DEF PeerM!RemoveKey, PeerM!Delete, Delete
<1>2. PICK s : s = Rest
  OBVIOUS
<1>3. PeerInv(s) /\ left' \subseteq RecordKeys
  BY <1>2 DEF PeersInv
<1>4. Without(store', left') = Delete(s, {path})
  <2>1. PICK D : D = {path}
    OBVIOUS
  <2>2. store' = Delete(store, D) /\ left' = left \ D
    BY <1>1, <2>1
  <2>3. Without(store', left') = Delete(Rest, D)
    BY <2>2, DeleteWithout DEF Rest
  <2> QED
    BY <1>2, <2>1, <2>3
<1>5. PeerInv(Delete(s, {path})) /\ PeerTable(Delete(s, {path})) = Cleared(PeerTable(s), path)
  BY <1>3, DeleteRecord
<1>6. CASE path \in DOMAIN s
  <2>1. path \in DOMAIN PeerTable(s)
    BY <1>6 DEF PeerTable
  <2> QED
    BY <1>2, <1>3, <1>4, <1>5, <2>1 DEF PeerStepOf, Changed
<1>7. CASE path \notin DOMAIN s
  <2>1. \A q \in RecordKeys : Cut(q, 2) # path
    BY PeerShapes, PeerKinds
  <2>2. PeerTable(Delete(s, {path})) = [x \in DOMAIN PeerTable(s) \ {path} |-> PeerTable(s)[x]]
    BY <1>3, <2>1, DeleteOfPeers
  <2>3. PICK e : e = PeerTable(s)
    OBVIOUS
  <2>4. DOMAIN e \ {path} = DOMAIN e /\ e = [x \in DOMAIN e |-> e[x]]
    BY <1>7, <2>3 DEF PeerTable
  <2>5. PeerTable(Delete(s, {path})) = PeerTable(s)
    BY <2>2, <2>3, <2>4
  <2> QED
    BY <1>2, <1>3, <1>4, <1>5, <2>5 DEF PeerStepOf, Changed
<1> QED
  BY <1>6, <1>7

(* To add a record puts the peer, with the next record id, and the record;  *)
(* what is told of the peer does not change.                                *)
LEMMA RecordIsAdded ==
    ASSUME PeersInv, NEW c \in Currency, NEW to \in Peer, NEW rec,
           PeerM!AddToHistory(c, to, rec)
    PROVE  PeerStepOf(store', left')
<1>1. PICK k \in PeerKeys : k = <<c, to>>
  BY PeerShapes
<1>2. PICK v : v = store[k].value
  OBVIOUS
<1>3. PICK v1 : v1 = [v EXCEPT !.recID = v.recID + 1]
  OBVIOUS
<1>4. PICK r : r = <<c, to, v.recID + 1>>
  OBVIOUS
<1>5. PICK s0 : s0 = Rest
  OBVIOUS
<1>6. PeerInv(s0) /\ k \notin left /\ left \ {k} = left
  BY <1>5, PeerKinds DEF PeersInv
<1>7. k \in DOMAIN s0 /\ s0[k] = store[k]
  BY <1>1, <1>5, <1>6 DEF PeerM!AddToHistory, PeerM!HasPeer, PeerM!Has, PeerM!PeerKey, Rest, Without
<1>8. store' = Put(Put(store, v1, k), rec, r) /\ left' = left \ {r}
  <2>1. store' = PeerM!Put(PeerM!Put(store, v1, k), rec, r) /\ left' = left \ {r}
    BY <1>1, <1>2, <1>3, <1>4 DEF PeerM!AddToHistory, PeerM!PeerKey, PeerM!RecordKey, PeerM!Get
  <2>2. PeerM!Put(store, v1, k) = Put(store, v1, k)
    BY DEF PeerM!Put, Put, PeerM!Blank, Blank
  <2>3. PeerM!Put(Put(store, v1, k), rec, r) = Put(Put(store, v1, k), rec, r)
    BY DEF PeerM!Put, Put, PeerM!Blank, Blank
  <2> QED
    BY <2>1, <2>2, <2>3
<1>9. PeerRecord(v)
  BY <1>2, <1>6, <1>7 DEF PeerInv
<1>10. PeerRecord(v1) /\ Shown(v1) = Shown(v)
  BY <1>3, <1>9 DEF PeerRecord, Shown
<1>11. PICK s : s = Put(s0, v1, k)
  OBVIOUS
<1>12. PeerInv(s) /\ PeerTable(s) = Entered(PeerTable(s0), k, Shown(v1)) /\ k \in DOMAIN s
  BY <1>6, <1>10, <1>11, PutPeer
<1>13. PeerTable(s) = PeerTable(s0)
  <2>1. k \in DOMAIN PeerTable(s0) /\ PeerTable(s0)[k] = Shown(v)
    BY <1>2, <1>7 DEF PeerTable
  <2>2. PICK e : e = PeerTable(s0)
    OBVIOUS
  <2>3. e = [x \in DOMAIN e |-> e[x]]
    BY <2>2 DEF PeerTable
  <2>4. Entered(e, k, Shown(v)) = e
    BY <2>1, <2>2, <2>3 DEF Entered
  <2> QED
    BY <1>10, <1>12, <2>2, <2>4
<1>14. r \in RecordKeys /\ r[1] = c /\ r[2] = to
  BY <1>4, <1>9, PeerShapes DEF PeerRecord
<1>15. Cut(r, 2) = k
  BY <1>1, <1>14, PeerShapes
<1>16. PICK m : m = Put(store, v1, k)
  OBVIOUS
<1>17. Without(m, left) = s
  BY <1>5, <1>6, <1>11, <1>16, PutWithout DEF PeersInv, Rest
<1>18. Without(store', left') = Put(s, rec, r)
  <2>1. store' = Put(m, rec, r)
    BY <1>8, <1>16
  <2> QED
    BY <1>8, <1>12, <1>14, <1>17, <2>1, PutWithout DEF PeersInv
<1>19. PeerInv(Put(s, rec, r)) /\ PeerTable(Put(s, rec, r)) = Entered(PeerTable(s), r, rec)
  BY <1>12, <1>14, <1>15, PutRecord
<1>20. left' \subseteq RecordKeys
  BY <1>8 DEF PeersInv
<1> QED
  BY <1>5, <1>13, <1>18, <1>19, <1>20 DEF PeerStepOf, Changed

(* To remove a peer removes its records from the table: those that are not  *)
(* deleted are left behind.                                                 *)
LEMMA PeerIsRemoved ==
    ASSUME PeersInv, NEW c \in Currency, NEW to \in Peer, PeerM!RemovePeer(c, to)
    PROVE  PeerStepOf(store', left')
<1>1. PICK k \in PeerKeys : k = <<c, to>>
  BY PeerShapes
<1>2. PICK R : R = RecordsOf(store, k)
  OBVIOUS
<1>3. R = PeerM!Records(c, to)
  BY <1>1, <1>2 DEF PeerM!Records, PeerM!PeerKey, RecordsOf, Cut
<1>4. PICK skipped :
        /\ skipped \subseteq R
        /\ store' = Delete(store, (R \ skipped) \cup {k}) /\ k \in DOMAIN store
        /\ left' = (left \ R) \cup skipped
  BY <1>1, <1>3 DEF PeerM!RemovePeer, PeerM!HasPeer, PeerM!Has, PeerM!PeerKey,
     PeerM!Delete, Delete
<1>5. PICK s : s = Rest
  OBVIOUS
<1>6. PeerInv(s) /\ left \subseteq RecordKeys /\ DOMAIN s = DOMAIN store \ left
  BY <1>5 DEF PeersInv, Rest, Without
<1>7. left' \subseteq RecordKeys
  <2>1. ASSUME NEW q \in R PROVE q \in RecordKeys
    <3>1. q \in left \/ (q \in DOMAIN s /\ Len(q) = 3)
      BY <1>2, <1>6 DEF RecordsOf
    <3> QED
      BY <1>6, <3>1, PeerLengths
  <2> QED
    BY <1>4, <1>6, <2>1
<1>8. PICK D : D = RecordsOf(s, k) \cup {k}
  OBVIOUS
<1>9. Without(store', left') = Delete(s, D)
  <2>1. PeerInv(Without(store, left)) /\ D = RecordsOf(Without(store, left), k) \cup {k}
    BY <1>5, <1>6, <1>8 DEF Rest
  <2>2. Leaves(store, left, k, skipped, store', left')
    BY <1>2, <1>4 DEF Leaves
  <2> QED
    BY <1>5, <1>6, <2>1, <2>2, RemoveWithout DEF Rest
<1>10. k \in DOMAIN PeerTable(s)
  <2>1. k \in DOMAIN s
    BY <1>4, <1>6, PeerKinds
  <2> QED
    BY <2>1 DEF PeerTable
<1>11. PeerInv(Delete(s, D)) /\ PeerTable(Delete(s, D)) = Cleared(PeerTable(s), k)
  BY <1>6, <1>8, DeletePeer
<1> QED
  BY <1>5, <1>7, <1>9, <1>10, <1>11 DEF PeerStepOf, Changed

(* So is every step of the peer manager.                                    *)
LEMMA PeerStep ==
    ASSUME PeersInv, PeerM!Next
    PROVE  PeerStepOf(store', left')
<1>1. ASSUME NEW c \in Currency, NEW to \in Peer, PeerM!HasPeer(c, to)
      PROVE  /\ PeerRecord(PeerM!Get(PeerM!PeerKey(c, to)))
             /\ PeerM!PeerKey(c, to) \in PeerKeys
  <2>1. PICK k \in PeerKeys : k = PeerM!PeerKey(c, to)
    BY PeerShapes DEF PeerM!PeerKey
  <2> QED
    <3>1. k \in DOMAIN Rest /\ Rest[k] = store[k]
      BY <1>1, <2>1, PeerKinds DEF PeerM!HasPeer, PeerM!Has, PeersInv, Rest, Without
    <3> QED
      BY <2>1, <3>1 DEF PeerM!Get, PeersInv, PeerInv
<1>2. ASSUME NEW c \in Currency, NEW to \in Peer, NEW pi, PeerM!AddPeer(c, to, pi), left' = left
      PROVE  PeerStepOf(store', left')
  <2>1. PeerM!PeerKey(c, to) \in PeerKeys
    BY PeerShapes DEF PeerM!PeerKey
  <2>2. PICK v : v = IF PeerM!HasPeer(c, to)
                     THEN [PeerM!Get(PeerM!PeerKey(c, to)) EXCEPT !.addr = pi]
                     ELSE [blocked |-> FALSE, addr |-> pi, recID |-> 0]
    OBVIOUS
  <2>3. PeerRecord(v)
    BY <1>1, <2>2 DEF PeerRecord
  <2>4. PeerM!SetKey(v, PeerM!PeerKey(c, to))
    BY <1>2, <2>2 DEF PeerM!AddPeer
  <2> QED
    BY <1>2, <2>1, <2>3, <2>4, PeerIsPut
<1>3. ASSUME NEW c \in Currency, NEW to \in Peer, PeerM!BlockPeer(c, to), left' = left
      PROVE  PeerStepOf(store', left')
  <2>1. PeerRecord([PeerM!Get(PeerM!PeerKey(c, to)) EXCEPT !.blocked = TRUE])
        /\ PeerM!PeerKey(c, to) \in PeerKeys
    BY <1>1, <1>3 DEF PeerM!BlockPeer, PeerRecord
  <2> QED
    BY <1>3, <2>1, PeerIsPut DEF PeerM!BlockPeer
<1>4. ASSUME NEW c \in Currency, NEW to \in Peer, PeerM!UnblockPeer(c, to), left' = left
      PROVE  PeerStepOf(store', left')
  <2>1. PeerRecord([PeerM!Get(PeerM!PeerKey(c, to)) EXCEPT !.blocked = FALSE])
        /\ PeerM!PeerKey(c, to) \in PeerKeys
    BY <1>1, <1>4 DEF PeerM!UnblockPeer, PeerRecord
  <2> QED
    BY <1>4, <2>1, PeerIsPut DEF PeerM!UnblockPeer
<1>5. ASSUME NEW c \in Currency, NEW to \in Peer, NEW recID \in Nat, PeerM!SetRecID(c, to, recID), left' = left
      PROVE  PeerStepOf(store', left')
  <2>1. PeerRecord([PeerM!Get(PeerM!PeerKey(c, to)) EXCEPT !.recID = recID])
        /\ PeerM!PeerKey(c, to) \in PeerKeys
    BY <1>1, <1>5 DEF PeerM!SetRecID, PeerRecord
  <2> QED
    BY <1>5, <2>1, PeerIsPut DEF PeerM!SetRecID
<1>6. ASSUME NEW c \in Currency, NEW to \in Peer, NEW recID \in Nat, PeerM!RemoveRecord(c, to, recID)
      PROVE  PeerStepOf(store', left')
  <2>1. PeerM!RecordKey(c, to, recID) \in RecordKeys
    BY PeerShapes DEF PeerM!RecordKey
  <2> QED
    BY <1>6, <2>1, RecordIsRemoved DEF PeerM!RemoveRecord
<1>7. \A recID \in 0 .. MaxRecords : recID \in Nat
  OBVIOUS
<1> QED
  BY <1>2, <1>3, <1>4, <1>5, <1>6, <1>7, RecordIsAdded, PeerIsRemoved DEF PeerM!Next

-----------------------------------------------------------------------------
(* The pieces: the list is the table.                                       *)
PieceTable(list) == [k \in {<<p>> : p \in DOMAIN list} |-> list[k[1]]]

(* A key of one name is itself, whole.                                      *)
LEMMA OneName ==
    ASSUME NEW p
    PROVE  Len(<<p>>) = 1 /\ Cut(<<p>>, 1) = <<p>>
<1>1. <<p>> \in Seq({p}) /\ Len(<<p>>) = 1
  OBVIOUS
<1> QED
  BY <1>1, SubSeqFull DEF Cut

(* To list a piece sets its entry, to remove it drops its entry.            *)
LEMMA PieceListed ==
    ASSUME NEW p, NEW how, pieces' = PieceM!With(p, how)
    PROVE  Changed(PieceTable(pieces), PieceTable(pieces'))
<1>1. PICK e : e = PieceTable(pieces)
  OBVIOUS
<1>2. PICK e1 : e1 = PieceTable(pieces')
  OBVIOUS
<1>3. DOMAIN pieces' = DOMAIN pieces \cup {p}
  BY DEF PieceM!With
<1>4. \A x \in DOMAIN pieces' : pieces'[x] = IF x = p THEN how ELSE pieces[x]
  BY DEF PieceM!With
<1>5. DOMAIN e = {<<x>> : x \in DOMAIN pieces} /\ DOMAIN e1 = {<<x>> : x \in DOMAIN pieces'}
  BY <1>1, <1>2 DEF PieceTable
<1>6. \A x \in DOMAIN pieces : <<x>> \in DOMAIN e /\ e[<<x>>] = pieces[x]
  BY <1>1 DEF PieceTable
<1>7. \A x \in DOMAIN pieces' : <<x>> \in DOMAIN e1 /\ e1[<<x>>] = pieces'[x]
  BY <1>2 DEF PieceTable
<1>8. DOMAIN e1 = DOMAIN e \cup {<<p>>}
  BY <1>3, <1>5
<1>9. ASSUME NEW k \in DOMAIN e1 PROVE e1[k] = IF k = <<p>> THEN how ELSE e[k]
  <2>1. PICK x \in DOMAIN pieces' : k = <<x>>
    BY <1>5
  <2>2. CASE x = p
    BY <1>4, <1>7, <2>1, <2>2
  <2>3. CASE x # p
    <3>1. x \in DOMAIN pieces /\ <<x>> # <<p>>
      BY <1>3, <2>3
    <3> QED
      BY <1>4, <1>6, <1>7, <2>1, <2>3, <3>1
  <2> QED
    BY <2>2, <2>3
<1>10. e1 = [x \in DOMAIN e1 |-> e1[x]]
  BY <1>2 DEF PieceTable
<1>11. e1 = Entered(e, <<p>>, how)
  BY <1>8, <1>9, <1>10 DEF Entered
<1> QED
  BY <1>1, <1>2, <1>11 DEF Changed

(* A piece that is dropped is one entry less.                               *)
LEMMA PieceDropped ==
    ASSUME NEW p \in DOMAIN pieces, pieces' = [x \in DOMAIN pieces \ {p} |-> pieces[x]]
    PROVE  Changed(PieceTable(pieces), PieceTable(pieces'))
<1>1. PICK e : e = PieceTable(pieces)
  OBVIOUS
<1>2. PICK e1 : e1 = PieceTable(pieces')
  OBVIOUS
<1>3. DOMAIN e = {<<x>> : x \in DOMAIN pieces} /\ DOMAIN e1 = {<<x>> : x \in DOMAIN pieces \ {p}}
  BY <1>1, <1>2 DEF PieceTable
<1>4. \A x \in DOMAIN pieces : e[<<x>>] = pieces[x]
  BY <1>1 DEF PieceTable
<1>5. \A x \in DOMAIN pieces \ {p} : e1[<<x>>] = pieces[x]
  BY <1>2 DEF PieceTable
<1>6. ASSUME NEW k \in DOMAIN e PROVE k \in Below(e, <<p>>) <=> k = <<p>>
  <2>1. PICK x \in DOMAIN pieces : k = <<x>>
    BY <1>3
  <2>2. Len(k) = 1 /\ Len(<<p>>) = 1 /\ Cut(k, 1) = k /\ 1 <= 1
    BY <2>1, OneName
  <2> QED
    BY <2>2 DEF Below
<1>7. <<p>> \in DOMAIN e
  BY <1>3
<1>8. \A x : <<x>> = <<p>> => x = p
  OBVIOUS
<1>9. DOMAIN e1 = DOMAIN e \ Below(e, <<p>>)
  <2>1. \A k : k \in DOMAIN e1 <=> k \in DOMAIN e /\ k # <<p>>
    BY <1>3, <1>8
  <2>2. Below(e, <<p>>) \subseteq DOMAIN e
    BY DEF Below
  <2> QED
    BY <1>6, <2>1, <2>2
<1>10. \A k \in DOMAIN e1 : e1[k] = e[k]
  BY <1>3, <1>4, <1>5
<1>11. e1 = [x \in DOMAIN e1 |-> e1[x]]
  BY <1>2 DEF PieceTable
<1>12. e1 = Cleared(e, <<p>>)
  BY <1>9, <1>10, <1>11 DEF Cleared
<1> QED
  BY <1>1, <1>2, <1>7, <1>12 DEF Changed

(* Every step of the piece manager changes one entry at most.               *)
LEMMA PieceTableStep ==
    ASSUME PieceM!Next
    PROVE  Changed(PieceTable(pieces), PieceTable(pieces'))
<1>1. ASSUME UNCHANGED pieces PROVE Changed(PieceTable(pieces), PieceTable(pieces'))
  BY <1>1 DEF Changed
<1>2. ASSUME NEW p \in Piece, PieceM!Import(p) \/ PieceM!ImportCar(p)
      PROVE  Changed(PieceTable(pieces), PieceTable(pieces'))
  <2>1. pieces' = pieces \/ \E how : pieces' = PieceM!With(p, how)
    BY <1>2 DEF PieceM!Import, PieceM!ImportCar
  <2> QED
    BY <1>1, <2>1, PieceListed
<1>3. ASSUME NEW p \in Piece, PieceM!Remove(p)
      PROVE  Changed(PieceTable(pieces), PieceTable(pieces'))
  BY <1>3, PieceDropped DEF PieceM!Remove, PieceM!Listed
<1>4. ASSUME NEW i \in Importer, PieceM!SectorPut(i)
      PROVE  Changed(PieceTable(pieces), PieceTable(pieces'))
  <2>1. pieces' = pieces \/ \E p, how : pieces' = PieceM!With(p, how)
    BY <1>4 DEF PieceM!SectorPut
  <2> QED
    BY <1>1, <2>1, PieceListed
<1>5. ASSUME NEW i \in Importer, NEW p, NEW copy,
             PieceM!ImportSector(i, p, copy) \/ PieceM!SectorAgain(i)
      PROVE  UNCHANGED pieces
  BY <1>5 DEF PieceM!ImportSector, PieceM!SectorAgain
<1>6. ASSUME PieceM!Restart PROVE UNCHANGED pieces
  BY <1>6 DEF PieceM!Restart
<1> QED
  BY <1>1, <1>2, <1>3, <1>4, <1>5, <1>6 DEF PieceM!Next

-----------------------------------------------------------------------------
(* All of them together.                                                    *)
Parts == {"reservmgr", "renewmgr", "settlemgr", "pservmgr", "cservmgr", "substore",
          "mpstore", "peermgr", "signer", "piecemgr"}

StoresInv ==
    /\ part \in Parts
    /\ part = "reservmgr" => Keyed(store, ReservLeaves, ReservInner)
    /\ part = "renewmgr" => Keyed(store, RenewLeaves, RenewInner)
    /\ part = "settlemgr" => Keyed(store, SettleLeaves, SettleInner)
    /\ part = "pservmgr" => ServInv
    /\ part = "cservmgr" => Keyed(store, CservLeaves, CservInner)
    /\ part = "substore" => Keyed(store, SubLeaves, SubInner)
    /\ part = "mpstore" => MpInv
    /\ part = "peermgr" => PeersInv
    /\ part = "signer" => KeysInv

(* The table each of them keeps.                                            *)
Kept ==
    CASE part = "reservmgr" -> TableOf(store, ReservLeaves)
      [] part = "renewmgr" -> TableOf(store, RenewLeaves)
      [] part = "settlemgr" -> TableOf(store, SettleLeaves)
      [] part = "pservmgr" -> TableOf(store, ServLeaves)
      [] part = "cservmgr" -> TableOf(store, CservLeaves)
      [] part = "substore" -> TableOf(store, SubLeaves)
      [] part = "mpstore" -> TableOf(store, SingleLeaves)
      [] part = "peermgr" -> PeerTable(Rest)
      [] part = "signer" -> TableOf(store, SingleLeaves)
      [] part = "piecemgr" -> PieceTable(pieces)

(* What is told is the table that is kept.                                  *)
LEMMA KeptIsTold == StoresInv => Entries = Kept
<1> SUFFICES ASSUME StoresInv PROVE Entries = Kept
  OBVIOUS
<1>1. CASE part = "reservmgr"
  BY <1>1, ReservEntries DEF StoresInv, Entries, Kept
<1>2. CASE part = "renewmgr"
  BY <1>2, RenewEntries DEF StoresInv, Entries, Kept
<1>3. CASE part = "settlemgr"
  BY <1>3, SettleEntries DEF StoresInv, Entries, Kept
<1>4. CASE part = "pservmgr"
  BY <1>4, ServEntries DEF StoresInv, Entries, Kept
<1>5. CASE part = "cservmgr"
  BY <1>5, CservEntries DEF StoresInv, Entries, Kept
<1>6. CASE part = "substore"
  BY <1>6, SubEntries DEF StoresInv, Entries, Kept
<1>7. CASE part = "mpstore"
  BY <1>7, MpEntries DEF StoresInv, Entries, Kept
<1>8. CASE part = "peermgr"
  BY <1>8, PeerEntries DEF StoresInv, Entries, Kept
<1>9. CASE part = "signer"
  BY <1>9 DEF StoresInv, KeysInv, Sign!Entries, Entries, Kept
<1>10. CASE part = "piecemgr"
  BY <1>10 DEF Entries, Kept, PieceTable
<1> QED
  BY <1>1, <1>2, <1>3, <1>4, <1>5, <1>6, <1>7, <1>8, <1>9, <1>10 DEF StoresInv, Parts

(* A step keeps the lists exact, and changes one entry at most.             *)
LEMMA KeptStep ==
    ASSUME StoresInv, Next
    PROVE  /\ StoresInv' /\ Changed(Kept, Kept')
           /\ \A k \in DOMAIN Kept : Cut(k, Len(k)) = k
<1>0. part' = part
  BY DEF Next
<1>k. ASSUME NEW leaves, NEW inner, Layout(leaves, inner), KeptKeyed(leaves, inner)
      PROVE  /\ Keyed(store', leaves, inner)
             /\ Changed(TableOf(store, leaves), TableOf(store', leaves))
             /\ \A k \in DOMAIN TableOf(store, leaves) : Cut(k, Len(k)) = k
  <2>1. DOMAIN TableOf(store, leaves) \subseteq leaves
    BY DEF TableOf
  <2> QED
    BY <1>k, <2>1, StepIsChange DEF KeptKeyed
<1>1. CASE part = "reservmgr"
  <2>1. Keyed(store, ReservLeaves, ReservInner) /\ Reserv!Next
    BY <1>1 DEF StoresInv, Next
  <2>2. KeptKeyed(ReservLeaves, ReservInner)
    BY <2>1, ReservStep
  <2>3. Kept = TableOf(store, ReservLeaves) /\ Kept' = TableOf(store', ReservLeaves)
    BY <1>0, <1>1 DEF Kept, ReservLeaves, PolicyLeaves
  <2> QED
    BY <1>0, <1>1, <1>k, <2>2, <2>3, ReservLayout DEF StoresInv
<1>2. CASE part = "renewmgr"
  <2>1. Keyed(store, RenewLeaves, RenewInner) /\ Renew!Next
    BY <1>2 DEF StoresInv, Next
  <2>2. KeptKeyed(RenewLeaves, RenewInner)
    BY <2>1, RenewStep
  <2>3. Kept = TableOf(store, RenewLeaves) /\ Kept' = TableOf(store', RenewLeaves)
    BY <1>0, <1>2 DEF Kept, RenewLeaves, PolicyLeaves
  <2> QED
    BY <1>0, <1>2, <1>k, <2>2, <2>3, RenewLayout DEF StoresInv
<1>3. CASE part = "settlemgr"
  <2>1. Keyed(store, SettleLeaves, SettleInner) /\ Settle!Next
    BY <1>3 DEF StoresInv, Next
  <2>2. KeptKeyed(SettleLeaves, SettleInner)
    BY <2>1, SettleStep
  <2>3. Kept = TableOf(store, SettleLeaves) /\ Kept' = TableOf(store', SettleLeaves)
    BY <1>0, <1>3 DEF Kept, SettleLeaves, PairLeaves
  <2> QED
    BY <1>0, <1>3, <1>k, <2>2, <2>3, SettleLayout DEF StoresInv
<1>4. CASE part = "cservmgr"
  <2>1. Keyed(store, CservLeaves, CservInner) /\ Cserv!Next
    BY <1>4 DEF StoresInv, Next
  <2>2. KeptKeyed(CservLeaves, CservInner)
    BY <2>1, CservStep
  <2>3. Kept = TableOf(store, CservLeaves) /\ Kept' = TableOf(store', CservLeaves)
    BY <1>0, <1>4 DEF Kept, CservLeaves, PairLeaves
  <2> QED
    BY <1>0, <1>4, <1>k, <2>2, <2>3, CservLayout DEF StoresInv
<1>5. CASE part = "substore"
  <2>1. Keyed(store, SubLeaves, SubInner) /\ Sub!Next
    BY <1>5 DEF StoresInv, Next
  <2>2. KeptKeyed(SubLeaves, SubInner)
    BY <2>1, SubStep
  <2>3. Kept = TableOf(store, SubLeaves) /\ Kept' = TableOf(store', SubLeaves)
    BY <1>0, <1>5 DEF Kept, SubLeaves, PairLeaves
  <2> QED
    BY <1>0, <1>5, <1>k, <2>2, <2>3, SubLayout DEF StoresInv
<1>6. CASE part = "pservmgr"
  <2>1. ServInv /\ Pserv!Next
    BY <1>6 DEF StoresInv, Next
  <2>2. ServInv' /\ KeptKeyed(ServLeaves, ServInner)
    BY <2>1, ServStep
  <2>3. Kept = TableOf(store, ServLeaves) /\ Kept' = TableOf(store', ServLeaves)
    BY <1>0, <1>6 DEF Kept, ServLeaves
  <2> QED
    BY <1>0, <1>6, <1>k, <2>2, <2>3, ServLayout DEF StoresInv
<1>7. CASE part = "mpstore"
  <2>1. MpInv /\ Mp!Next
    BY <1>7 DEF StoresInv, Next
  <2>2. MpInv' /\ KeptKeyed(SingleLeaves, SingleInner)
    BY <2>1, MpStep
  <2>3. Kept = TableOf(store, SingleLeaves) /\ Kept' = TableOf(store', SingleLeaves)
    BY <1>0, <1>7 DEF Kept, SingleLeaves
  <2> QED
    BY <1>0, <1>7, <1>k, <2>2, <2>3, SingleLayout DEF StoresInv
<1>8. CASE part = "signer"
  <2>1. KeysInv /\ Sign!Next
    BY <1>8 DEF StoresInv, Next
  <2>2. KeysInv' /\ KeptKeyed(SingleLeaves, SingleInner)
    BY <2>1, KeysStep
  <2>3. Kept = TableOf(store, SingleLeaves) /\ Kept' = TableOf(store', SingleLeaves)
    BY <1>0, <1>8 DEF Kept, SingleLeaves
  <2> QED
    BY <1>0, <1>8, <1>k, <2>2, <2>3, SingleLayout DEF StoresInv
<1>9. CASE part = "peermgr"
  <2>1. PeersInv /\ PeerM!Next
    BY <1>9 DEF StoresInv, Next
  <2>2. PeersInv' /\ Changed(PeerTable(Rest), PeerTable(Rest'))
    <3>1. PeerStepOf(store', left')
      BY <2>1, PeerStep
    <3>2. Rest' = Without(store', left')
      BY DEF Rest, Without
    <3>3. PeersInv' <=> left' \subseteq RecordKeys /\ PeerInv(Rest')
      BY DEF PeersInv, PeerInv, Tree, Exact, Path, Name, Cut, PeerKeys, PeerNodes, RecordKeys,
             PairLeaves, PairInner, PeerRecord
    <3> QED
      BY <3>1, <3>2, <3>3 DEF PeerStepOf
  <2>3. \A k \in DOMAIN PeerTable(Rest) : Cut(k, Len(k)) = k
    BY PeerShapes, CutEnds DEF PeerTable
  <2>4. Kept = PeerTable(Rest) /\ Kept' = PeerTable(Rest')
    BY <1>0, <1>9 DEF Kept, PeerTable, PeerKeys, RecordKeys, PairLeaves
  <2> QED
    BY <1>0, <1>9, <2>2, <2>3, <2>4 DEF StoresInv
<1>10. CASE part = "piecemgr"
  <2>1. PieceM!Next
    BY <1>10 DEF Next
  <2>2. Changed(PieceTable(pieces), PieceTable(pieces'))
    BY <2>1, PieceTableStep
  <2>3. \A k \in DOMAIN PieceTable(pieces) : Cut(k, Len(k)) = k
    BY OneName DEF PieceTable
  <2>4. Kept = PieceTable(pieces) /\ Kept' = PieceTable(pieces')
    BY <1>0, <1>10 DEF Kept, PieceTable
  <2> QED
    BY <1>0, <1>10, <2>2, <2>3, <2>4 DEF StoresInv, Parts
<1> QED
  BY <1>1, <1>2, <1>3, <1>4, <1>5, <1>6, <1>7, <1>8, <1>9, <1>10 DEF StoresInv, Parts

(* In the beginning there is nothing.                                       *)
LEMMA KeptAtFirst == Init => StoresInv /\ Kept = <<>>
<1> SUFFICES ASSUME Init PROVE StoresInv /\ Kept = <<>>
  OBVIOUS
<1>1. part \in Parts /\ store = New
  BY DEF Init, Parts, Reserv!Init, Renew!Init, Settle!Init, Pserv!Init, Cserv!Init, Sub!Init,
         Mp!Init, PeerM!Init, Sign!Init, Reserv!New, Renew!New, Settle!New, Pserv!New, Cserv!New,
         Sub!New, Mp!New, PeerM!New, Sign!New, New, Reserv!Blank, Renew!Blank, Settle!Blank,
         Pserv!Blank, Cserv!Blank, Sub!Blank, Mp!Blank, PeerM!Blank, Sign!Blank, Blank,
         Reserv!Root, Renew!Root, Settle!Root, Pserv!Root, Cserv!Root, Sub!Root, Mp!Root,
         PeerM!Root, Sign!Root, Root
<1>2. DOMAIN store = {<<>>}
  BY <1>1 DEF New, Root
<1>3. pieces = <<>>
  BY DEF Init, PieceM!Init
<1>4. part = "pservmgr" => cache = Pserv!Loaded(Pserv!New)
  BY DEF Init, Pserv!Init
<1>5. part = "signer" => cache = Sign!Loaded(Sign!New)
  BY DEF Init, Sign!Init
<1>6. Layout(PeerKeys, PeerNodes)
  <2>1. Currency \subseteq Name /\ Peer \subseteq Name
    BY DEF Name
  <2> QED
    BY <2>1, PairLayout DEF PeerKeys, PeerNodes
<1>7. Keyed(store, ServLeaves, ServInner) /\ TableOf(store, ServLeaves) = <<>>
  BY <1>1, NewIsKeyed, ServLayout
<1>8. Keyed(store, SingleLeaves, SingleInner) /\ TableOf(store, SingleLeaves) = <<>>
  BY <1>1, NewIsKeyed, SingleLayout
<1>9. Keyed(store, PeerKeys, PeerNodes) /\ TableOf(store, PeerKeys) = <<>>
  BY <1>1, <1>6, NewIsKeyed
<1>10. DOMAIN <<>> = {}
  OBVIOUS
<1>11. part = "pservmgr" => ServInv
  <2>1. DOMAIN store \cap ServLeaves = {}
    BY <1>2, ServLayout DEF Layout
  <2>2. DOMAIN Pserv!Loaded(Pserv!New) = {}
    BY DEF Pserv!Loaded, Pserv!New
  <2> QED
    BY <1>4, <1>7, <2>1, <2>2 DEF ServInv
<1>12. MpInv
  BY <1>8, <1>10 DEF MpInv
<1>13. part = "signer" => KeysInv
  <2>1. Sign!New = store
    BY <1>1 DEF Sign!New, New, Sign!Root, Root, Sign!Blank, Blank
  <2> QED
    BY <1>5, <1>8, <2>1, LoadedIsTable DEF KeysInv
<1>14. DOMAIN store \cap PeerKeys = {} /\ DOMAIN store \cap RecordKeys = {}
  <2>1. <<>> \in PeerNodes
    BY PairKeys DEF PeerNodes
  <2> QED
    BY <1>2, <2>1, PeerKinds
<1>15. PeersInv /\ PeerTable(Rest) = <<>>
  <2>1. left = {}
    BY DEF Init
  <2>2. store = [q \in DOMAIN store |-> store[q]]
    BY <1>1 DEF New
  <2>3. Rest = store
    BY <2>1, <2>2 DEF Rest, Without
  <2>4. PeerInv(store)
    BY <1>9, <1>14 DEF Keyed, PeerInv
  <2>5. PeerTable(store) = <<>>
    BY <1>14 DEF PeerTable
  <2> QED
    BY <2>1, <2>3, <2>4, <2>5 DEF PeersInv
<1>16. PieceTable(pieces) = <<>>
  BY <1>3, <1>10 DEF PieceTable
<1>17. /\ Keyed(store, ReservLeaves, ReservInner) /\ TableOf(store, ReservLeaves) = <<>>
       /\ Keyed(store, RenewLeaves, RenewInner) /\ TableOf(store, RenewLeaves) = <<>>
       /\ Keyed(store, SettleLeaves, SettleInner) /\ TableOf(store, SettleLeaves) = <<>>
       /\ Keyed(store, CservLeaves, CservInner) /\ TableOf(store, CservLeaves) = <<>>
       /\ Keyed(store, SubLeaves, SubInner) /\ TableOf(store, SubLeaves) = <<>>
  BY <1>1, NewIsKeyed, ReservLayout, RenewLayout, SettleLayout, CservLayout, SubLayout
<1>18. StoresInv
  BY <1>1, <1>11, <1>12, <1>13, <1>15, <1>17 DEF StoresInv
<1>19. Kept = <<>>
  BY <1>1, <1>7, <1>8, <1>15, <1>16, <1>17 DEF Kept, Parts
<1> QED
  BY <1>18, <1>19

(* The invariant: whoever keeps a store, its lists are exact above every    *)
(* key that has a value, and what is in memory besides is what is in it.    *)
LEMMA StoresInvHolds == Spec => []StoresInv
<1>1. Init => StoresInv
  BY KeptAtFirst
<1>2. StoresInv /\ [Next]_vars => StoresInv'
  <2> SUFFICES ASSUME StoresInv, [Next]_vars PROVE StoresInv'
    OBVIOUS
  <2>1. CASE Next
    BY <2>1, KeptStep
  <2>2. CASE UNCHANGED vars
    BY <2>2 DEF vars, keyVars, StoresInv, ServInv, MpInv, KeysInv, PeersInv, Rest, Without
  <2> QED
    BY <2>1, <2>2
<1> QED
  BY <1>1, <1>2, PTL DEF Spec

(* What the calls that list tell is what applies, and the other way round.  *)
THEOREM ListedAppliesHolds == Spec => []ListedApplies
<1>1. StoresInv => ListedApplies
  BY ReservApplies, RenewApplies, SettleApplies, CservApplies DEF StoresInv, ListedApplies
<1> QED
  BY <1>1, StoresInvHolds, PTL

(* The channels served and the addresses known from memory are those that   *)
(* the next start finds in the store (pservmgr, crypto.Signer).             *)
THEOREM CacheIsStoreHolds == Spec => []CacheIsStore
<1>1. StoresInv => CacheIsStore
  BY ServEntries, KeysCached DEF StoresInv, CacheIsStore
<1> QED
  BY <1>1, StoresInvHolds, PTL

(* Every manager implements the table: its lists start empty, and a call, a *)
(* pruning or a restart sets one entry, drops one entry with what is below  *)
(* it, or changes nothing that is listed, where a record that the peer      *)
(* manager could not delete with its peer (RemovePeer) counts for nothing.  *)
THEOREM ImplementsTableHolds == Spec => ImplementsTable
<1>1. Init => Promised!Init
  <2>1. Init => Entries = <<>>
    BY KeptAtFirst, KeptIsTold
  <2> QED
    BY <2>1 DEF Promised!Init
<1>2. StoresInv => Entries = Kept
  BY KeptIsTold
<1>3. (StoresInv => Entries = Kept)'
  BY <1>2, PTL
<1>4. StoresInv /\ StoresInv' /\ [Next]_vars => [Promised!Next]_Entries
  <2> SUFFICES ASSUME StoresInv, StoresInv', [Next]_vars PROVE [Promised!Next]_Entries
    OBVIOUS
  <2>1. Entries = Kept /\ Entries' = Kept'
    BY <1>2, <1>3
  <2>2. CASE Next
    BY <2>1, <2>2, KeptStep, ChangeIsPromised
  <2>3. CASE UNCHANGED vars
    <3>1. Kept' = Kept
      BY <2>3 DEF vars, keyVars, pieceVars, Kept, Rest, Without
    <3> QED
      BY <2>1, <3>1
  <2> QED
    BY <2>2, <2>3
<1> QED
  BY <1>1, <1>4, StoresInvHolds, PTL DEF Spec, ImplementsTable, Promised!Spec
=============================================================================
