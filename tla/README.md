# A verification development for fcr

fcr is a node of a retrieval network: nodes keep payment channels to one
another, sell each other routes over those channels (pay offers), and stream
small payments along a route while data is transferred. This directory holds
TLA+ modules that model the parts of the program that carry its logic, TLC
configurations that check them on small instances, and TLAPS proofs about them.
Everything refers to the sources under `src/`; `PROJECT.json` maps every
definition to the lines it models.

## 1. The system

| part | state | operations | hard about it |
|---|---|---|---|
| payment manager `paymgr/` | cache of active channels by direction, currency, peer and address; per outbound channel a reserved amount, a reservation nonce, a table of reservations; the lock tree; temporary datastore of reservations | Reserve, Pay (with commit and revert), Receive (with commit and revert), Add/Retire inbound/outbound, update balance, bear network loss; routines that sync the cache, clean reservations, clean peers | checks under a read lock repeated under a write lock; a write lock held across a network round trip; a goroutine per channel in Reserve; running totals next to the table they sum up; restart |
| locking `locking/` | a tree of mutexes with a map of children each | RLock, Lock of a path; Insert, Remove | hand-over-hand read locks, switching from a read to a write lock, nodes that are removed while somebody waits for them |
| lockable store `mdlstore/` | a tree of values in a database; the lock tree next to it | transactions Get, Put, Delete, Query, Commit, Discard | the lock tree follows at commit, in hooks |
| channel store `paychstore/` | channel states on disk, a queue of operations | Upsert, Remove, reads, Shutdown | operations are queued by goroutines, in any order; retries; shutdown |
| payment protocol `paynet/protos/payproto` | credit received per original payer | pay directly, pay with an offer, forward a payment, receive | lost responses, network loss vouchers, receipts, partial failure along a route |
| offer protocol `paynet/protos/offerproto` | none of its own (reservations in the payment manager) | query an offer along a route | reservation made before the answer is delivered |
| channel protocol `paynet/protos/paychproto` | none of its own | query, add, renew | two nodes add the same channel one after the other; renewals with a lost response |
| channel monitor `paychmon/` | settlement time of every tracked channel, a routine each | track, check, renew, retire | signals to the routine under locks, store operations in goroutines |
| retrieval manager `retmgr/` | active outgoing and incoming transfers by offer and by request, a cache of blocks | Retrieve, six graphsync hooks, clean-up of states and cache, start and shutdown | block by block payment and delivery; credit shared between transfers; resume after a failure |
| route store and protocol `routestore/`, `routeproto` | direct links, routes behind them with an expiry; publications on their way | add and remove links and routes, list, clean; publish, receive a publication | follows the channels; nodes that have not noticed publish what is gone; no cycles |
| policy managers `settlemgr/`, `renewmgr/`, `reservmgr/`, `pservmgr/`, `cservmgr/` | tables with defaults and exceptions, in a lockable store; `pservmgr` a copy in memory | set or serve, get, remove or stop, list | a key that is emptied is pruned under another lock than it was emptied under |
| `substore/`, `mpstore/` | subscribers; proofs of miners | add, remove, list; upsert, get | |
| peer manager `peermgr/` | peers, their address, whether they are blocked, the records of what happened with them | add, remove, block, records | records are not in the list of children of their peer |
| piece manager `piecemgr/` | the list of imported pieces, a block store, a store of references into sector files | three ways to import, remove, look up | three stores written one after the other, importers at a time |
| signer `crypto/signer_impl.go` | a key per currency on disk, its address in memory, the list of keys that are being retired | set, sign, retire, stop retiring | every use of a key signals the routine that would retire it |
| `offermgr/` | a nonce | next nonce | nonce across a crash |
| `comms/`, `io/`, `cidnet/`, `peernet/`, `trans/`, `fcroffer/`, `node/`, `daemon/`, `config/`, `api/`, `cli/` | | I/O, encoding, wiring | |

The payment manager is called by the offer protocol (reserve), the payment
protocol (pay, receive, commit, revert), the channel protocol (add), the monitor
(retire) and the user's API (update balance, bear loss). It calls the policy
managers (read only), the transactor (chain and vouchers), the route store
(direct links) and the channel stores. All of them guard their maps by a lock
tree, their own or that of a lockable store.

What makes each part correct:

* *payment manager*: the reserved amount is the sum of the reservations; what is
  reserved and redeemed fits the balance; no voucher exceeds the balance on
  chain; a payment commits to the state it was computed from; a channel with a
  network loss stands still; a request makes one reservation; expired
  reservations are released; states only move forward.
* *surcharges along a route*: both ends of a hop agree on what was bought, however
  the stream is split; proxies neither refuse honest payments nor lose money;
  all reservations of a stream end together.
* *locking*: a write lock of a path excludes everybody at or below it; the tree
  itself is never changed while it is read; lock requests do not deadlock.
* *store*: it never goes back to an older state, never leads the cache, and
  catches up with it; a shutdown should keep what it was given, and what is removed
  should stay so (neither does, section 6).
* *retrieval*: credit is neither lost nor taken twice; the provider is never more
  than a block ahead of the payments; a payer that has everything can write its
  file; the two ends do not wait for one another.
* *routes*: what is found can be used (a direct link first, no node twice, a length
  within the limit); a route over a channel that is gone runs out.
* *tables* (policies, served channels and pieces, subscribers, proofs, peers, keys):
  a call changes the one entry it names and nothing else does; what applies is what
  is listed; memory and disk agree.
* *pieces*: what is listed can be read.
* *keys*: a key in use is not retired.
* *payment protocol*: what the two ends of a channel have recorded differs by at
  most one voucher, and bearing a network loss brings them together; no node
  passes on or credits more than it has been paid; what a source has recorded as
  paid has arrived; no channel stays locked.

## 2. Modules

| module | models | role |
|---|---|---|
| `Surcharge` | `paymgr/utils.go` 25-138, the arithmetic of `Reserve` | operators on terms and ledgers; no state |
| `PaymentStream` | offers and payments along a route | one reservation per hop, composed by quoting backwards and paying forwards |
| `PayMgr` | the outbound half of `paymgr/` | the concurrent core; extends `Surcharge` |
| `PayRoute` | `paynet/protos/payproto`, and `Receive` of `paymgr/` | requests that travel along routes over a lossy network, both halves of every hop; extends `Surcharge` |
| `PayLedger` | what the payment protocol promises of one channel | abstract specification that `PayRoute` implements (`ImplementsLedger`) |
| `LockNode` | `locking/locknode.go` | the tree of mutexes, one step per operation on a mutex or map |
| `PathLock` | what `locking/` promises | abstract specification that `LockNode` implements (`ImplementsPathLock`) |
| `PaychStore` | `paychstore/`, and start, sync and shutdown of `paymgr/` | cache, queue, disk |
| `PaychMon` | `paychmon/` and `paynet/protos/paychproto` | the life of a payment channel at one of its ends |
| `Retrieval` | `retmgr/`, and the received amounts of `payproto` | the two ends of paid transfers between a payer and a provider, with the messages between them |
| `Routes` | `routestore/` and `paynet/protos/routeproto` | a network of nodes that publish their routes to one another |
| `KeyStore` | keys, values and children of `mdlstore/`, and what its users have in common | the variables `store`, `emptied` and `cache`, and the operations the managers are built from |
| `ReservMgr`, `RenewMgr`, `SettleMgr`, `PservMgr`, `CservMgr`, `SubStore`, `MpStore`, `PeerMgr`, `Signer` | the component of that name | one manager each; extend `KeyStore` |
| `PieceMgr` | `piecemgr/` | importers, three stores, one lock |
| `Table` | what each of these managers promises | abstract specification that all of them implement (`ImplementsTable`) |
| `Stores` | all managers that keep tables | their sum: a behaviour is one of one of them (`part`) |
| `SurchargeProofs`, `PayMgrProofs`, `PayRouteProofs`, `PaymentStreamProofs`, `RetrievalProofs`, `LockNodeProofs`, `StoresProofs` | | lemmas and theorems about the module of that name |
| `ChannelProofs` | | lemmas and theorems about `PaychStore`, `PaychMon` and `Routes`, which it extends; that is why the last two call their behaviours `MonSpec` and `RoutesSpec` |
| `MC*` | | instances for TLC |

How state and actions correspond to the code:

* `PayMgr`: one currency and one recipient, whose channels are `Chan`; `state`,
  `reservedAmt`, `reservedNonce` and `reservations` are the fields of
  `cachedPaychState`, `active` the keys of the recipient's map, `link` the direct
  link in the route store. `caller[t]` is a call of `Reserve` or `Pay` with its
  local variables. A write lock that is taken and released within one step of the
  code is that step; the lock `Pay` returns with is visible as the state
  "pending", and ends with `Commit`, `Revert` or `RevertWithLoss`. Every other
  action waits for it (`Locked`), and adding or retiring a channel waits for all
  calls (`PeerUnlocked`), because they hold the recipient's read lock. `Reserve`
  is a set of goroutines: `todo` before the provisional check, `ready` after it.
  Serving and reservation policies, which only ever refuse, are the action
  `ReserveQuit`. `chain` and `signed` are the world outside: what is on chain
  and which vouchers exist. `AddBegin` is a call that reads the chain, which it does
  before it has any lock and without a look at the cache; what it has read waits in
  `adding` until `AddLocked` inserts it, if the channel is not there then.
* `PaymentStream`: `res[i]` is the reservation of the payer of hop i.
  `ReserveFinal`, `ReserveIntermediate` and `ReserveSelf` are the three entry
  points of `Reserve`; `Pay` is a payment that reaches the destination or is
  reverted by every hop.
* `PayRoute`: a stream `s` is one reservation at the payer of every hop of
  `Route[s]`, with what it has paid and, at a proxy, received (`book`); `out[c]` and
  `inb[c]` are the channel states at the two ends of `c`. A request `q` has a leg
  for every hop it has reached. The payer's half of a leg (`sender`) is one of the
  four functions of `requesters.go` from `Pay` to commit or revert; they differ in
  whose money and which receipt it is, and share `Confirm`, `Lose` and `GiveUp`.
  The payee's half is a handler: `Probe` and `Hold` are the two checks of
  `Receive`, `Settle` the rest of `handleDirectPay`, `Forward` and `Collect` that of
  `handleProxyPay`, `Refuse` all error paths. A lost or late message needs no
  action of its own: a request that is never probed, or an answer its payer has not
  waited for. The remaining amount, expiry and clean-up of a reservation belong to
  `PayMgr`; here they are among the reasons to refuse. One route may cross
  another, share channels with it, or form a circle with others.
* `LockNode`: `children` is the tree, `call[p]` the progress of a call of `RLock`
  or `Lock` and the mutexes it holds. Nodes have an identity beyond their path, so
  that a removed node somebody still waits for is not its successor.
  `RemoveUnder` says how callers remove a path: under the lock of its parent
  (payment manager, stores) or of the path itself (peer manager).
* `PaychStore`: a channel state is its life and its version. A retired channel may be
  added again (`Add` checks no more than the code: that it is not in the cache), which
  begins a life with version 0; the store compares versions only. `Upsert` and `Remove` put an
  operation into a bag (`spawned`, the goroutines), from where it enters `queue`
  in any order; `Process` is the routine that works the queue off. `Stop` is the
  payment manager's shutdown, `StoreShutdown` the store's, `Crash` the end of the
  process, `Start` what reads the store back.
* `PaychMon`: one channel at its payee or, with `Outbound`, at its payer. `control`
  is the entry in the monitor's cache together with the state of its routine: the
  timer (`deadline`), the two Go channels of capacity one (`renew`, `retire`), and
  how far the routine has got since it left its loop (`phase`). `stored` lags behind
  by the operations in `pending`, a bag because a goroutine queues each. A call
  that waits for room in a Go channel is at the step "sending" and holds the lock
  of the payment channel (`Senders`).
* `Retrieval`: `call[c]` is a call of `Retrieve`, `out` and `known` are the maps
  `activeOutOfferID` and `activeOutReqID`, `incoming` is `activeInOfferID`; `serving[c]` is
  what graphsync does with the request, `wire` and `update` are the blocks and the
  messages on their way. The age of a state is abstracted: a state may have become too
  old whenever its age is looked at. `owed` and `confirmed` are history: what was
  credited less what was taken, and the last block each request has paid for.
* `Routes`: `link[n]` are the keys of the node's route store, `routes[n]` the routes
  behind them with the ticks they have left, `outbox[e]` the publication under way over
  channel `e`. `List` is one direct link of a publication, and may be cut short;
  `HandlePublish` adds any part of what has arrived, because every route is added by a
  goroutine that may run out of time. `held` are direct links whose read lock a cut
  publication has kept for good.
* `KeyStore`: a key is a path, `store` gives its value and children. `Put` creates
  what is missing above a key, and starts the key itself without children, as the code
  does. A caller that removes the last child of a key notes it (`emptied`), and prunes
  the key in a step of its own (`PruneKey`), because it gives up its lock in between;
  it may never come to that. Everything else a call does is under one lock and one
  transaction, and is one step; what the locks exclude is the subject of `LockNode`.
* `PeerMgr`: removing a peer skips any set of its records, because a `Delete` that fails
  is only logged; `left` is history, the skipped records that are still there. They
  cannot be listed without their peer, and are listed again with the next one.
* the managers: an action per call that changes state, with the name it has in the
  code; an operator per call that answers or lists; `Start` where the constructor
  cleans up or loads. A crash is the next `Start` coming early.
* `Signer`: `retiring` is the list of Go channels by currency, `retirement[r]` a call of
  `RetireKey` with the value in its channel (`touched`), `user[u]` a call of `touchKey`,
  by itself or from `StopRetire`. A user at the step "sending" has the read lock of
  the list. The timer may fire at any time.
* `PieceMgr`: a piece is its root and the blocks it links to. `sector[i]` is a call of
  `ImportSector` at one of its pieces. Any write may fail, after any part of the blocks.

## 3. Runs

| run | instance | shows |
|---|---|---|
| `stream` | 4 hops, 3 proxies, every price 1..2 over every period 1..3 or free, up to 6 units in any split | the six properties of `PaymentStream` |
| `paymgr` | 2 callers, 1 channel, balances 1 and 2 on chain, one reading of the chain under way, petty amounts 1..2, 2 reservations, 2 vouchers, one tick | the safety properties of `PayMgr`, two action properties |
| `paymgr_race` | 1 caller with a goroutine per channel, 2 channels, 2 readings of the chain under way | one reservation per request; the link follows the channels; expired reservations are released |
| `pay_route` | 2 streams through a proxy and 1 of the proxy's own over the second channel; 3 requests, petty amounts 1..2, a surcharge of 1 for every 2 units at the proxy | the safety properties of `PayRoute` and the refinement of `PayLedger` |
| `pay_circle` | 3 channels in a circle, 3 streams of two hops that follow one another, 3 requests | no channel stays locked |
| `lock` | 3 callers, the paths of a peer and its two channels | no racing access to a map, no circular wait, refinement of `PathLock` |
| `store` | 1 channel that is added twice, 2 changes in each life, 3 operations in flight, 1 failure | safety and catching up of `PaychStore` |
| `paych_mon` | the payee's end; 2 callers, an offer that settles at time 1, renewals of 1 unit at half of the time, times 0..3 | a routine is there for whoever signals it; what is tracked is retired |
| `retrieval` | 2 calls for one offer or for two of one provider, pieces of 3 blocks | the four properties of `Retrieval`: credit, one block ahead of what the requests for the offer have confirmed together, whole files, no mutual wait |
| `routes` | 4 nodes, 5 channels with a circle in them, routes of at most 3 nodes, expiry after 1 tick | what is found is usable; what is gone runs out |
| `stores` | each manager with one currency (pieces with two), two peers or addresses, two channels, two values; two concurrent sector imports, retirements and users of a key | the refinement of `Table` by every manager; what applies is listed; memory is disk; touches reach retirements; listed pieces can be read |
| `paych_left` | as `paych_mon`, with 3 callers and times 0..2 | a disagreement, see section 6 |

Bounds. The stream's amounts exceed two periods of the longest kind, so that a
payment can start, complete and cross a period at every hop, and three proxies
are the fewest where one has a proxy on either side. In `paymgr` two callers are
enough for every pairwise race (a third only repeats one); the balance of 2 holds
two reservations of the smallest amount but not two of the larger, so that
the check of `Reserve` decides, and 1 is what an insertion may still have read before
the top-up to 2 (`Funds`). The offers of both runs have no surcharge: which price a
payment has is the subject of `PaymentStream` and `PayRoute`, and the theorems hold for
all offers. Two vouchers allow a commit after a revert and a
loss after either; one tick separates "not expired" from "expired" (`Expiry` and
`Inactivity` are 0, which loses nothing, as only the comparison with the clock
matters). One reading of the chain may be inserted any number of times (`AddEnds`),
so that `MaxAdding` 1 only excludes two different readings of one channel at a time;
in `paymgr_race` each channel can have one. `MaxRes` bounds the reservations made on a channel until it is retired.
In `pay_route` three requests on one channel are a payment whose receipt is lost,
one that is answered with the loss, and one made after the loss has been borne or
delayed until then; `MaxPetty` 2 gives repeated nonces different amounts. A circle
of two channels is two requests on one another's channel; three is the first that
is not symmetric. Three lock callers are the fewest that wait in a circle which no
two of them form, and two channels under one peer give siblings, parent and child.
`Incarnations` is 1 where removal needs the parent's lock (nobody can then hold or
wait below) and 2 where it does not. In `retrieval` two calls suffice for every race over a state or a credit; a piece of three
blocks has a first, a last and one between, and is the shortest in which one request
can pass a block on the index of another and still have one to send. In `routes` a circle of four lets a route come back to its publisher both
within and beyond the limit of 3 nodes; one publication at a time (`AtOnce`) is listed while links, routes and clean-ups
change around it; `LongGone` exceeds the expiry of a
route that has come through every node. In `stores` one currency suffices because no
operation looks at two; two peers and two channels give a key siblings at each level
and let one caller prune what another fills; two records and removal give a peer that
comes back, with or without what its removal has skipped. Three or more importers, users or retirements repeat pairwise races.
In `store` three operations in flight are the
fewest that allow an older state, a newer one and a removal at once, and `Word` is
larger than any version, so that the state nonce does not wrap around; two lives of
two changes each let a state of the first be stored with a nonce below, equal to or
above that of the second (`MaxLives`). In
`paych_mon` two callers fill a Go channel of capacity one and wait for it, and the
times 0 to 3 allow two renewals one after the other; `MaxPending` 2 leaves room for
a renewal that overtakes the first Put, and the removal is queued beyond it.

Deadlock is not checked where the model's bounds on time, versions or amounts
or requests let it stop (all but the runs of `LockNode`, `Routes` and `Stores`).

## 4. Fairness

* `PayMgr`: weak fairness of the clean-up of each channel (a periodic routine whose
  lock requests are repeated every round) and of `Commit \/ Revert` of each caller:
  a request over the network is answered or times out, and every path of
  `payproto/requesters.go` from `Pay` calls one of the two. `Tick` and the calls
  themselves are not fair.
* `PaychStore`: weak fairness of `Sync`, of each goroutine and of the queue's
  routine. The number of operations that are given up is bounded by
  `MaxFailures`: catching up is claimed for a disk that works again eventually.
* `PayRoute`: weak fairness, for each channel, of whoever holds it at either end.
  Both hold it under a deadline: the payer's wait for an answer ends with it or
  after `ioTimeout`, a handler's calls end at its contexts' deadlines, and both then
  commit or revert. Nothing is assumed of the network: a request that is sent may
  never arrive, so `Probe` and `Hold` are not fair.
* `PaychMon`: weak fairness of the clock and of the routine's own steps. A renewal
  that reaches the routine just when its timer fires may be lost (`select` chooses
  at random). Calls are not fair, and those that wait to send may wait for good.
* `Retrieval`, `Routes` and `Stores` claim no liveness. `NoMutualWait` is its safety
  part: when the network loses nothing, somebody can go on.
* `LockNode` claims no liveness: the mutex is not fair, and contexts end.

## 5. Proofs

TLAPS checks every theorem below for all values of the constants that satisfy the
named assumptions of its module. An assumption either gives a constant its type,
or says that a value that stands for "nothing" is none of the values it is
compared with (`NoneAssumption`, `AbsentAssumption`, `ControlAssumption`,
`NoCreditAssumption`, `NoValueAssumption`); `DefaultAssumption` says that no peer
or channel is called "default", and `PathAssumption` that the paths locked contain
what is above them. The theorems about `LockNode` and `StoreNeverBackHolds` have a
hypothesis on top of that, named below.

Where a proof needs induction over numbers (the levels of a tree of mutexes, the
hops of a route, the callers that wait), it takes the least member of a set of
naturals (`LeastNatural`, from the library's well-founded orders) or shows that
a set contains 0 and successors; what a recursive definition over data computes
remains out of reach.

`SurchargeProofs`: the gross amount of a reservation is at least the petty amount; a
payment's price is the growth of an exact ledger; and the payee that reads the
surcharge off a voucher and its own ledger finds the petty amount the payer paid
(`PayeeReadsPrice`).

`PayMgrProofs`: all safety and action properties of both runs of `PayMgr`. Sums over
reservations are cardinalities of the set of reserved units (`Units`), so that no
recursion is needed (and so is the sum in `NothingForNothing`, below). The invariant `IInv` consists of

* `TypeOK`;
* for every channel (`ChanInv`): the reserved amount is the sum of the table;
  as long as anything is reserved, reserved and redeemed fit the cached balance (an
  insertion may have read it before a top-up); the cached balance does not
  exceed the one on chain; every ledger of a reservation is exact (`LedgerExact`,
  without which the price of a payment need not be positive); every signed voucher
  is covered by the chain; a network loss is a voucher that was signed, and comes
  with an empty table; what an ongoing add has read is covered too;
* for every call (`CallInv`): the channels it looks at are there, and a pending
  payment is fresh;
* `OneHolder`: a channel's write lock has one holder.

The properties are not inductive by themselves: that a commit preserves the sum
needs freshness of what it writes, freshness needs the exclusion of the others, and
that a price fits the balance needs the exactness of the ledger. There is one lemma
per action (or group of actions with the same footprint), all used by `NextIInv`.

`PaymentStreamProofs`: all properties of the run `stream`, for routes of any length.
`QuoteInv` says how far the quote has come and that neighbours agree on its terms,
`BooksInv` that every hop has paid the same petty amount, at its own price, and set
the rest aside. With these, no payment that the source can make is refused, which
is itself part of the invariant.

`PayRouteProofs`: `ChannelInv` follows the two records of a channel: the payee's is at
most one voucher ahead, and every voucher under way is tied to the record it was
signed on top of (`Current`); legs that hold a channel at the same end, or have a
receipt for the same voucher, are one (`Alone`). It gives `LossIsCurrent`, the
refinement of `PayLedger` (`ImplementsLedgerHolds`), and with it what the ledger
promises of the protocol (`OneApartHolds`). `RouteInv` adds the reservations: a leg is
*due* when its payment has been made onward and its payer has yet to record it; the
ledgers at both ends of a hop say the same, unless a leg is due, and then what they
will say. It gives `ProxyMatches` and `PaidIsCredited`. `GivenInv` counts, over all
streams of a channel, the units its payee has passed on or credited (`UnitsGiven`): they
are finitely many even where the streams are not, and never more than what has come in,
since on any channel at most one handler is between its two commits (`GivenIs`), and what
that proxy notes down for its payment is what the voucher it holds brings in
(`ProxyReads`). It gives `NothingForNothing`.

`RetrievalProofs`: `FlowInv` accounts for every block between the provider that has
sent it and the message that confirms it, `AheadInv` for the request whose
confirmation let a block pass. All four properties of the run follow.

`LockNodeProofs`: the tree is the least set closed under children (`TreeShape`), and
its nodes are ordered as their paths are. A caller holds the read locks of what it
has passed and the lock of where it is (`LocksInv`), and has gone as far as the tree
goes (`ArrivedInv`); writers exclude (`Mutex`). The hypothesis
`RemoveUnder = "parent"` is the discipline of all callers except the peer manager,
for which `NoRacingAccess` fails (section 6). The refinement of `PathLock`
(`ImplementsPathLockHolds`) carries its `Exclusion` over to the tree
(`ExclusionHolds`).

`ChannelProofs`:

* `PaychStore`: what is on its way to the store is a state the channel has been in,
  in this life or an earlier one (`ChanInv`), so the store is never ahead of the cache.
  States are ordered by life and then by version. That the stored nonce never goes back
  needs the hypothesis `MaxVersion + Window < Word`: no nonce comes near the end of
  its word, where the one-sided check for an overflow may take an old state for a
  new one.
* `PaychMon`: who has got as far as to send holds the channel's lock, and the
  control is only forgotten under it (`MonInv`).
* `Routes`: what is stored or listed is a chain of channels (`RouteInv`), and how
  long a channel may have been gone grows by one expiry for each node a route has
  come through, counting one that is listed but not stored yet (`AgeInv`).

`StoresProofs`: all properties of the run `stores`. The tree of keys is exact: the list
of every key names the children it has and no others (`Keyed`); a manager's keys are
its leaves and what is above them (`Layout`). From this, `Put`, `Delete`, pruning and
a start each change one entry of the manager's table or none (`KeptKeyed`), what is
found level by level is the table, and the refinement of `Table`
(`ImplementsTableHolds`) and `ListedApplies` follow manager by manager. The peer
manager writes a peer's record again above its records, which cuts their list short;
its invariant (`PeerInv`) demands exact lists above peers only. It holds of the store
without the records that a removal has skipped (`Rest`), since nothing is above those
any more: putting and deleting commute with leaving them out (`PutWithout`,
`RemoveWithout`), and the table is that of the rest. The signer's
invariant says which retirement is listed, the piece manager's that blocks and
references only ever grow.

The types of the variables are part of each invariant, as far as the proofs need them;
`PayMgr` and `PayRoute` have a theorem of their own for them (`TypeCorrect`).

Only model-checked is what needs fairness, which is out of the prover's reach:
`ExpiredReleased`, `CatchesUp`, `ChannelsComeFree`, `TrackedRetires`.
No operator is declared recursive; the reachable nodes of `LockNode` are a recursive
function of the level.

## 6. Where code and documentation disagree

`paych_left` is a run that TLC finds violated, listed under "findings": a channel whose
tracking fails after it has been added, or that is added again while the routine that
has just retired it is still in the cache, stays active and is never retired.

Others can be seen with a small change of a run:

* `INVARIANT QuotedTermsLegal` in `MCPaymentStream.cfg`: a proxy serving for free behind a
  surcharge quotes a price per period of 0 (`paymgr/paymentmgr_impl.go:503`), although
  499 asks for "either both 0 or both positive", and everybody rejects it.
* `RemoveUnder = "path"` and `Incarnations = 2` in `MCLockNode.cfg`: `locking/locknode.go:148`
  asks for the lock of the path that is removed; the map that changes is the
  parent's. The peer manager follows the note (`peermgr/peermgr_impl.go:267` and 828),
  and `NoRacingAccess` fails.
* `INVARIANT ShutdownKeepsStates` in `MCPaychStore.cfg`: the store's shutdown waits for a
  WaitGroup nobody adds to (it was copied, `paychstore/paychstore_impl.go:149`), and the
  states pushed by the shutdown of the payment manager may be lost.
* `Entries` of `PeerMgr` without `\ left`: `ImplementsTable` fails, because `RemovePeer`
  skips a record whose `Delete` fails and commits the removal of the peer all the same
  (`peermgr/peermgr_impl.go:314-327`); the record is in the history of the next peer of
  that address. Nor can it be removed before, as `RemoveRecord` fails without a parent.
* `NoOverbooking` without `reservedAmt[c] > 0`: a channel inserted with a balance read
  before a top-up (`paymgr/paymentmgr_impl.go:1185`), and then borne a network loss with a
  voucher of an earlier life, has redeemed more than it thinks it holds. Nothing is
  reserved or paid on it until its balance is updated.
* `s \preceq t` for states of one life only in `StoreNeverAhead`, or `CatchesUp` with the
  life it was reached in: an upsert worked off after the removal of a channel
  (`paychstore/paychstore_impl.go:181`) leaves a state of a higher nonce, and when the
  channel is added again, with nonce 0, all its states are discarded as old until its
  nonce has passed the stored one; the sync routine takes an equal nonce for stored
  (`paymgr/routines.go:154`). A start in between brings the earlier life back.
* `TouchReaches` without its exception for `stopped`: "If within timeout the key is touched
  it will return error" (`crypto/signer.go:54`). A retirement that is stopped takes the next
  one of that currency off the list (`signer_impl.go:346`); that one is told of no use any
  more and removes a key that is in use.

Seen while modelling, by reading:

* payment manager and store: `paymgr/types.go:49` claims that the remaining amount of a
  reservation is at least what it has paid, which no code relies on. The wrap-around
  check of the state nonce (`paychstore/paychstore_impl.go:249`) is one-sided, so that
  `StoreNeverBack` fails once `Word` is smaller than the number of versions.
* monitor: of two renewals at a time the earlier may win and move the timer back
  (`paychproto/handlers.go:393`); a caller that sends a second signal to a routine that
  has left its loop waits for good, holding the lock the routine needs
  (`paychmon/paychmon_impl.go:493`).
* retrieval: an insufficient payment is refused and gone (`retmgr/handlers.go:363`), and one
  request takes what pays another of the same payer, since the index of the last paid
  block belongs to the offer (280): what one request has confirmed lets another go on, which
  may so be more than one block ahead of its own payments; the block that `saveStates` adds in
  favour of the user is undone when a request resumes at index 0; shutdown locks the map
  of outgoing states where it saves the incoming ones; the expiration of an offer is not
  looked at by its provider.
* routes: a listing that is cut short returns without releasing the read lock of its
  direct link (`routestore/routestore_impl.go:700-704`), which is why `held` only grows;
  the goroutines of `handlePublish` share one variable `err` (`routeproto/handlers.go:116`).
* stores: a currency that has lost everything stays listed, since only one level is
  pruned; several getters do not discard their transaction; `SetRecID` of the peer
  manager can make later records replace earlier ones.
* pieces: a CAR file is imported without its root block (`piecemgr/piecemgr_impl.go:315`), so
  that it cannot be read from the root; an error in reading a sector is taken for the end
  of the piece (431), which is then listed cut short; both are excepted from `PieceReadable`.
  The second of two importers of one sector goes on without the lock (417) and releases
  one it does not have.
* signer: `touchKey` sends under the read lock of the list (488) into a Go channel that may
  be full and have no receiver any more; that user, the clean-up of the retirement and a
  shutdown then wait for good.

## 7. Not modelled, and the plan

Not modelled within the modules that exist: adding and retiring inbound channels,
`peerCleanRoutine`, restarts in `PayMgr`, `PayRoute`, `PaychMon` and `Routes`, two concurrent
adds of one channel, the pruning of empty peers in the channel stores, start and
shutdown of the monitor, the hook of `cservmgr` that publishes a piece. `offermgr` keeps a
counter nothing else is related to. Left out for good: encoding, cryptography, the DHT
networks, API, command line and configuration; they keep no protocol state.

Plan, in the order of importance:

1. `PaychLife`: two instances of `PaychMon` as the two ends of a channel, with the
   messages between them, and restarts of the monitor.
2. Restarts: shutdown, crash and the saved reservations in `PayMgr`, and what a
   payee that has lost a voucher means for `PayRoute`; `peerCleanRoutine`.
