------------------------------- MODULE Signer -------------------------------
(***************************************************************************)
(* The keys a node signs with, one a currency (crypto/signer_impl.go).  The *)
(* store has a copy of their addresses in memory.                           *)
(*                                                                         *)
(* A key is retired by a routine that waits until nobody has used the key   *)
(* for some time.  Every use of a key touches it: it sends into the Go      *)
(* channel, of capacity one, of the routine that is listed for the          *)
(* currency, and has a read lock of the list meanwhile.                     *)
(***************************************************************************)
EXTENDS KeyStore

CONSTANTS Currency, Addr,
          Retirement,    \* calls of RetireKey at a time
          User           \* calls that touch a key at a time

VARIABLES retiring,      \* the list: the retirement of each currency, or NoValue
          retirement,    \* where each call of RetireKey is
          user,          \* where each call that touches a key is
          stopped        \* currencies StopRetire was called for (history)

Away == [at |-> "away", currency |-> NoValue, addr |-> NoValue, touched |-> FALSE]
Idle == [at |-> "idle", currency |-> NoValue, stops |-> FALSE, trigger |-> NoValue]

Loaded(s) == [k \in DOMAIN s \ {Root} |-> s[k].value]

NoneListed == [c \in Currency |-> NoValue]
AllAway == [r \in Retirement |-> Away]
AllIdle == [u \in User |-> Idle]

NothingRetires ==
    retiring = NoneListed /\ retirement = AllAway /\ user = AllIdle /\ stopped = {}

Init == /\ store = New /\ emptied = {} /\ cache = Loaded(New)
        /\ NothingRetires

keys == <<store, emptied, cache>>

Key(c) == <<c>>
Known(c) == Key(c) \in DOMAIN cache

SetPrivateKey(c, addr) ==
    /\ ~Known(c)
    /\ SetKey(addr, Key(c))
    /\ cache' = [k \in DOMAIN cache \cup {Key(c)} |-> IF k = Key(c) THEN addr ELSE cache[k]]
    /\ UNCHANGED <<retiring, retirement, user, stopped>>

ListCurrencyIDs == Under({Root})

-----------------------------------------------------------------------------
(* retiringLock: only who waits for room in a Go channel has it for long.   *)
Sending == {u \in User : user[u].at = "sending"}
MayWriteList == Sending = {}

Go(r, step) == retirement' = [retirement EXCEPT ![r].at = step]

RetireKey(r, c) ==
    /\ retirement[r] = Away /\ Known(c)
    /\ retirement' = [retirement EXCEPT
                        ![r] = [at |-> "asking", currency |-> c, addr |-> cache[Key(c)],
                                touched |-> FALSE]]
    /\ UNCHANGED <<keys, retiring, user, stopped>>

(* Mutant: the list is not looked at again under its write lock.            *)
WatchUnchecked(r) ==
    /\ retirement[r].at = "asking" /\ MayWriteList
    /\ retiring' = [retiring EXCEPT ![retirement[r].currency] = r]
    /\ Go(r, "waiting")
    /\ UNCHANGED <<keys, user, stopped>>

Watch(r) ==
    /\ retirement[r].at = "asking" /\ MayWriteList
    /\ retiring[retirement[r].currency] = NoValue
    /\ retiring' = [retiring EXCEPT ![retirement[r].currency] = r]
    /\ Go(r, "waiting")
    /\ UNCHANGED <<keys, user, stopped>>

(* Another one is listed, or the context has ended.                         *)
NotWatched(r) ==
    /\ retirement[r].at = "asking"
    /\ retirement' = [retirement EXCEPT ![r] = Away]
    /\ UNCHANGED <<keys, retiring, user, stopped>>

(* Of the timer, the trigger and the context any one that is ready is taken. *)
TimedOut(r) ==
    /\ retirement[r].at = "waiting"
    /\ Go(r, "removing")
    /\ UNCHANGED <<keys, retiring, user, stopped>>

Cancelled(r) ==
    /\ retirement[r].at = "waiting"
    /\ Go(r, "leaving")
    /\ UNCHANGED <<keys, retiring, user, stopped>>

Sent(call) == IF call.stops THEN [call EXCEPT !.at = "deleting"] ELSE Idle

(* Who has waited to send next does so as soon as there is room.            *)
Triggered(r) ==
    /\ retirement[r].at = "waiting" /\ retirement[r].touched
    /\ LET senders == {u \in Sending : user[u].trigger = r} IN
         \/ /\ senders = {}
            /\ retirement' = [retirement EXCEPT ![r].at = "leaving", ![r].touched = FALSE]
            /\ UNCHANGED user
         \/ \E u \in senders :
               /\ Go(r, "leaving")
               /\ user' = [user EXCEPT ![u] = Sent(@)]
    /\ UNCHANGED <<keys, retiring, stopped>>

(* Under the lock of all the keys: the key must still be the one that was   *)
(* to be retired.                                                           *)
Remove(r) ==
    LET k == Key(retirement[r].currency) IN
    /\ retirement[r].at = "removing"
    /\ \/ /\ k \in DOMAIN cache /\ cache[k] = retirement[r].addr
          /\ RemoveKey(k)
          /\ cache' = [x \in DOMAIN cache \ {k} |-> cache[x]]
       \/ UNCHANGED keys
    /\ Go(r, "leaving")
    /\ UNCHANGED <<retiring, user, stopped>>

(* The deferred clean-up takes whatever is listed for the currency off the  *)
(* list, or gives up with the context and leaves its own on it, where       *)
(* nobody receives any more.                                                *)
Leave(r) ==
    /\ retirement[r].at = "leaving"
    /\ \/ /\ MayWriteList
          /\ retiring' = [retiring EXCEPT ![retirement[r].currency] = NoValue]
          /\ retirement' = [retirement EXCEPT ![r] = Away]
       \/ /\ Go(r, "gone")
          /\ UNCHANGED retiring
    /\ UNCHANGED <<keys, user, stopped>>

-----------------------------------------------------------------------------
(* touchKey, of SetKey, GetAddr and Sign in a goroutine, and of StopRetire. *)
Touch(u, c, stops) ==
    LET r == retiring[c]
        call == [at |-> "sending", currency |-> c, stops |-> stops, trigger |-> r]
    IN
    /\ user[u] = Idle
    /\ stopped' = IF stops THEN stopped \cup {c} ELSE stopped
    /\ \/ /\ r = NoValue
          /\ user' = [user EXCEPT ![u] = Sent(call)]
          /\ UNCHANGED retirement
       \/ /\ r # NoValue /\ ~retirement[r].touched
          /\ user' = [user EXCEPT ![u] = Sent(call)]
          /\ retirement' = [retirement EXCEPT ![r].touched = TRUE]
       \/ /\ r # NoValue /\ retirement[r].touched
          /\ user' = [user EXCEPT ![u] = call]
          /\ UNCHANGED retirement
    /\ UNCHANGED <<keys, retiring>>

(* StopRetire, once it has touched the key.                                 *)
StopRetire(u) ==
    /\ user[u].at = "deleting"
    /\ \/ MayWriteList /\ retiring' = [retiring EXCEPT ![user[u].currency] = NoValue]
       \/ UNCHANGED retiring
    /\ user' = [user EXCEPT ![u] = Idle]
    /\ UNCHANGED <<keys, retirement, stopped>>

(* The next start, after a shutdown or a crash.                             *)
Start ==
    /\ cache' = Loaded(store)
    /\ retiring' = NoneListed /\ retirement' = AllAway /\ user' = AllIdle
    /\ stopped' = {}
    /\ UNCHANGED <<store, emptied>>

Next ==
    \/ \E c \in Currency :
          \/ \E addr \in Addr : SetPrivateKey(c, addr)
          \/ \E r \in Retirement : RetireKey(r, c)
          \/ \E u \in User, stops \in BOOLEAN : Touch(u, c, stops)
    \/ \E r \in Retirement :
          \/ Watch(r) \/ NotWatched(r) \/ TimedOut(r) \/ Cancelled(r) \/ Triggered(r)
          \/ Remove(r) \/ Leave(r)
    \/ \E u \in User : StopRetire(u)
    \/ Start

-----------------------------------------------------------------------------
Entries == cache

(* The addresses in memory are those of the keys in the store.              *)
CacheIsStore == cache = [k \in ListCurrencyIDs |-> Get(k)]

(* A use of a key reaches the routine that waits to retire it, unless       *)
(* somebody has called StopRetire: the routine stopped then takes the next  *)
(* one off the list, and a key that is used is retired all the same.        *)
TouchReaches ==
    \A r \in Retirement :
        /\ retirement[r].at = "waiting"
        /\ retirement[r].currency \notin stopped
        => retiring[retirement[r].currency] = r
=============================================================================
