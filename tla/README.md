# venn in TLA+

venn is a JSON-RPC proxy for Ethereum chains: a cluster of nodes that balances
requests over remotes of several priorities, caches blocks at the head, and
serves `eth_subscribe`. The nodes share one redis; one of them is elected and
"stalks" the heads of the chains for the others. This directory models the
concurrent and fault-prone parts of it, checks them with TLC on small instances
and proves the most important properties with TLAPS for all instances.

Contents: [inventory](#inventory), [modules](#modules), [runs](#runs-and-bounds),
[fairness](#fairness), [proofs](#proofs), [refuted claims](#refuted-claims),
[not modelled](#what-is-not-modelled), [plan](#plan).

## Inventory

| Component | Keeps | Does | Hard about it | Correct means |
|---|---|---|---|---|
| Election, `lib/election/redsync.go` | in redis: leader key (no expiry), redsync lock, a health key per node; locally: `isLeader` | `Join`, `loop` once a second, `discoverLeader`, `attempt_promotion`, `mutiny`, `overthrow` | each redis command is a step of its own; crashes, late ticks, lost connections | one promotion at a time, a live leader stays, a dead one goes, somebody leads |
| Leases, `redsync.go` + `svc/node/atoms/election` | the registered contexts, a mutex, an atomic flag stored outside it | `AcquireLease`, `updateSubs`, `RunWithLease` | two kinds of goroutine run `updateSubs`, with a flag that may be stale | a lease is held only while leading, once, and is withdrawn |
| Head store, `redihead` | a redis stream for all chains; local heads, subscribers | `Put`, `run` (reader), `setHead`, `On`, `Get` | store and announcement under different mutexes, reconnects that replay | heads only rise; announcements are news |
| Subscriptions, `subcenter` | per session `current` | `newHeads`, `logs` | Get and On are two steps; a channel with one place; failing fetches | no block left out, repeated or out of order |
| Stalker | a delay tracker per chain | `stalk`, `tick` | goroutines of old and new leases overlap; waits computed from two clocks | heads are published, remotes are not flooded |
| Cluster, `lib/callcenter/cluster.go` | remotes by priority, a round-robin counter per priority | `Add`, `ServeRPC` | concurrent requests share the counter; errors of several kinds | every remote is tried, best first, load is spread |
| Backer | `happy`, `timeout`, a timer | `ok`, `limit`, `error`, the callback | the callback races with answers for the mutex | every backoff ends, and not early |
| Validator | the remote's head and its time | `updateHead` | answers overtake each other | heads let through do not fall back, a stuck remote is refused |
| Doctor | health, interval, a timer | `check`, `loop`, `CanUse` | users of the remote move the timer of the checks | callers get a verdict, recovery and failure are seen |
| Block cache: `cacher`, `SingleFlight`, `CompoundStore`, `LruStore`, `rediblock`, `chainblock` | blocks, receipts and logs by number and hash, in memory and in redis | `Get`, `Put`, purge on a reorganisation | shared flights, pipelines that are no transactions, evictions, partial failure, reorganisations seen by one node only | answers fit their queries and have no hole, nobody is forgotten, abandoned blocks are not kept alive |
| Head replacement, look-back, forger, log filters | nothing | rewrite, refuse, split and filter requests | the head moves between two reads; signed and unsigned arithmetic; one query filtered here or by a remote | what `latest` stands for does not fall back, old blocks stay out, the filters agree |
| Gateway: middlewares, abuse limits, hybrid proxy, telemetry | counters in redis, a pool of websockets under a mutex, a queue of futures | origin check, limits, retried subscriptions | a mutex held while dialing, connections that break under several handlers, a bounded queue, an identity made of headers and ports | one budget per client, one connection per slot, a subscription is kept and undone |
| Node API | a wait group | routing, drain at shutdown | the order of the middlewares | (see Routing) |
| Proxier | one connection per remote | (re)connect, call, subscribe | shared without a lock | one connection, closed once |

How they interact. A request passes, from the outside in: method validation,
metrics, rate limit and waiter, `Subcenter`, `Forger`, `HeadReplacer`, `Cacher`,
`Clusters`. A cluster calls its remotes, each wrapped, from the outside in, by
(look-back), filter, rate limit, `Doctor`, `Validator`, `Backer`, logger,
collector, input data, `Proxier`; the doctor's own checks go through `Validator`
and `Backer`. The stalker runs on the node that holds the lease of the election;
it calls the cluster directly and `Put`s heads into the redis stream, which the
head store of every node reads; `Subcenter` and `HeadReplacer` read the head
store. The dashboard calls `CanUse`, so it counts as a user of the doctor.

`PROJECT.json` lists all components, and under `hazards` what is hard to test in
them, at its line.

## Modules

State variables keep the names of the source where there is one; the header of
each module says what a step is. A definition whose comment begins with "Variant"
is a plausible bug, used to show that a property can fail; it is not part of any
specification.

**Election**. A step of a node is one redis command,
or the assignment of `isLeader`. `pc` is the command a node is about to issue;
`Exists`, `TryLock`, `SetLeader`, `Unlock` and `Get` are `discoverLeader` with
`attempt_promotion`, on behalf of `Join` or of `loop` (`joined`); `Health`,
`Store`, `Extend`, `HealthAgain` are `loop`; `Mutiny`, `Outlaw`, `Delete` are
`mutiny` and `overthrow`. `Tick` is the period of the ticker and ages the keys.
`Crash`, `Cut` and `Heal` are faults, and `lates` counts ticks that find a node
behind. A failed command of a cut node may still have taken effect; a lock taken
that way is an `Orphan`, which only its expiry removes. An orderly shutdown is a
crash to redis, because the deferred unlock uses the cancelled context. Left out:
a leader key that does not parse (nobody writes one), the nil leader and the
error branch of `attempt_promotion`, which returns no error. A restarted process
draws a new uuid and is another node.

**Lease** and **LeaseContract**. `LoopStore` is the store of `isLeader`, outside
the mutex; `UpdateBegin`, `UpdateVisit` and `UpdateEnd` are `updateSubs`, one
context per step, run by the loop or by the goroutine of `AcquireLease`;
`Acquire`, `Select`, `Await`, `Check`, `Lead`, `LeaseDone` are `RunWithLease`.
`LeaseContract` is the comment on `Strategy` as a specification: a lease is
granted during a term, at most once per request, and ends with the parent or with
the term. `Lease` implements it with `term <- isLeader \/ loop = "update"`: a
term lasts until the loop has finished the `updateSubs` after the loss.

**HeadStore**. `stream` is shared by all chains and all nodes, the rest belongs to
one node. `Range`, `Connect`, `Consume`, `Disconnect` are `run`; `StoreHead` and
`Announce` are the two critical sections of `setHead`. `Put` appends any number
of any chain: two stalkers, or a remote that lags, do just that.

**Subscription** composes HeadStore with sessions: `GetCurrent`, `Register`
(`On`), `TakeHead`, then `NotifyBlock`/`BlocksDone` for `newHeads` or `GetLogs`
for `logs`. Fetches and notifications may fail at any step. A session that reads
an unknown head starts from 0, as in the code.

**Stalker**. `Answer` fixes the block and `now`, `Put` is `headstore.Put` with all
that `tick` does after it, `Wake` and `End` are the select of `stalk`. A tick is
250 ms. The tracker's running mean is any value between the least and the
greatest delay it was ever given (`Mean`), which covers its window of 128; the
drift by integer division, below a nanosecond per block, is left out. `Publish`
keeps the highest number of the stream, which is what a reader's head comes to.
The update of the tracker is one step.

**Cluster**. `Add` has both binary searches (`Search` is what they return);
`Enter`, `Group`, `Try` and `FallThrough` are `ServeRPC`, one remote per step.
`Outcome` is what a remote may answer: a result, nil, a user error, an error, an
old head (with data), or the refusal of a filter; a remote whose filter refuses the
method may also refuse the block before that (`BlockLookBack`), which is an error. The counter's wrap at 2^63 is
ignored.

**Backer**. `Admit` and the three answers (`Ok`, `Limited`, `Failed`) are the
middleware; `Fire` is the runtime that starts the callback, `Callback` the moment
it has the mutex. `TimeoutBound` cuts the doubling off where int64 would.

**Validator**. `Ask`, `Serve`, `Fail`, `UpdateHead` are a request for the latest
block; `Advance`, `Reorg` and `Tick` are the chain and the clock. Timestamps are
kept as ages, which saturate beyond `Old`, where the code stops telling them
apart.

**Doctor** composes the doctor with Backer, as `svc/node/quarks/cluster` does:
checks and requests share one backoff and one clock. `CheckCall` is a call of
`check` at the backer, `CheckBlock` and `CheckChain` are its two answers with the
verdict, `FirstDone` and `Wake` the rest of the goroutine; `Use`, `Block` and
`Unblock` are `CanUse`, `Enter` and `Answer` a request. What is in flight when the
remote changes (`late`) is answered as before the change or as after it. `ErrorOf` is the order in
which the backer asks `IsUserError`, `IsTimeoutError` and `IsNodeError`, over the
kinds of errors these tell apart (`Error`). `Reset` drops a tick that was not
received, as timers do since Go 1.23 (`go.mod` says 1.25). `Close` is never called.

**BlockCache** (`MCBlockCache` gives the queries). Several nodes over one redis. `Ask` and
`Finish` are `SingleFlight`: a flight belongs to the caller who started it and has
its context. `LruGet`, `RedisGet`, `ChainGet`, `Fill` are `CompoundStore.Get`, one
store per step; `Fill` puts what one of them had into those before it (`Earlier`); `RedisGet` reads one number of a range at
a time, `Check`, `Keys`, `Del`, `Add` are the scripts and commands of
`Rediblock.Put`; `RedisGetFails`, `RedisPutFails`, `ChainFails` are their errors.
`LruPut` is `LruStore.Put` with its purge. The environment mines, reorganises
(`Reorg`) and has remotes that still answer from before (`lag`); by its hash a block
is known for ever (`abandoned`). The field `remote` of a flight is history: what a
remote answered to it, which `StaleIsNotRevived` compares with what is written. `Tag` is the
path of `Cacher` for a block that is asked for by a tag: it bypasses the stores and
puts what it gets into them: a block of any height (`safe`, `finalized`), a null, a
block under construction. A hash
is a height and a fork; what is cached is determined by type and hash, so an entry
is its own value. Left out: the encoding of entries; exact times to live (`Expire`
may come at any time); the two keys of one number of a redis range are read
together; the two indexes of the LRU lose any entries when they are full. A range that
is upside down, which `CompoundStore.Get` answers with nothing (`compound.go:53`), is
not among the queries; that `latest` never turns one around is `LatestRangeIsOrdered`
of Routing.

**LogFilter**. `ParseTopics`, `CompileFilter` and `Check` on sets; `Documented` is
the comment on `FilterQueryTopics` and what a remote does.

**Routing** (`MCRouting` gives parameters, filters and logs). One request on its
way through the middlewares of a node, and the two of the forger; a step is one
middleware or one read of the head. `Parse`, `Unsigned` and `Marshal` are `BlockNumber`, with
`2 * Half` numbers in place of 2^64 so that the wrap-around of `TooOld` and of the
range of logs is met by small numbers. `Store` stands for BlockCache: what is there
(`Cached`) is answered, or the request goes on to the remotes. Logs of one tag are
cached under the number of the tag, and are then of any block it once stood for. A
range whose slice `LruStore.Get` cannot allocate (`Oversized`) panics in a goroutine of
`singleflight` and ends the process (`Crash`): nothing follows, since a restarted node
begins with `Init` again. `Endless` is a range of which `Rediblock.Get` does not find
the end. `Chain` and `Remote` are the two look-backs and read the head; `Upstream` is a
step of its own after them, since filter, rate limit, doctor, backoff and the network
come in between. A remote answers as of any block up to the tip: it may be behind
(`behind`), or behind what another remote or the cache has answered. `InRange` is what
`Chainblock.getLogs` keeps of an answer: logs outside of the range, as unsigned numbers,
are dropped. Blocks are numbers, so two answers about one block do not differ in
anything but its absence; reorganisations are in BlockCache only. All remotes have one
limit. The head of a node only rises (proved in SubscriptionProofs), hence `Learn`.

**Gateway** (`MCGateway` gives requests and patterns). `Admitted` is what the
middlewares let through without state: origin, size, method, whitelist, with
`origin.Match` on labels. `Allow` is one limit of the rate limiter, one per step,
counted under `Slug`. `Loop`, `Lock`, `Dial`, `Subscribe`, `End`, `Unsubscribe` and
`Retry` are `handleEthSubscription` with `socketPool.get`. `End` may come at any time:
`sub.Err()` and a failed `Notify` need neither a lost connection nor a lost client.
`Unsubscribe` may fail, which the code ignores; what venn then goes on with, and what
it accepts from a client that has gone, is `left`, while `subs` is what handlers know
of. `Publish` waits for a place in the queue, `PublishFails` and `Drain` are the rest of
the telemetry. The environment breaks connections (`Break`), loses venn (`UpDown`) and
clients (`Leave`). `passed` is history, by who a client really is. Left out: what
is in the answers, metrics, and requests to venn over HTTP, which keep no state.

## Runs and bounds

| Run | Instance | Shows |
|---|---|---|
| `election_faults` | 2 nodes, 1 late tick, 1 crash, 1 cut that heals | `LeaderOnScheduleLooksAlive`, `PromotionOverwritesNobody` (both up to the first late tick or cut), `VacuumEnds`, `DeadLeaderIsReplaced`, `BeliefsFollowKey` |
| `lease` | 2 clients, 2 pending goroutines | `LeaseIsBacked`, `NoSpuriousLoss`, `LeaseArrives`, `LeaseIsWithdrawn`, `ImplementsContract` |
| `headstore` | 2 chains, 3 heights, 3 messages, 1 subscriber | `AnnouncedIsNewAndStored`, `MessageReachesHead` |
| `subscription` | 1 chain, 3 heights, 3 messages, a `newHeads` and a `logs` session | `HeadsHaveNoGap`, `LogsHaveNoGap`, `HeadsAscend` |
| `remote` | a doctor and 2 callers over one backer; intervals of 2 to 4 ticks, backoffs of 1 to 4 | `WakeUpsMatch`, `BackoffIsServed`, `CallersAreAnswered`, `RecoveryIsSeen`, `QuietFailureIsSeen` |
| `validator` | 2 requests, 3 heights, old after 2 ticks | `HeadNeverFallsBack`, `StuckRemoteIsRefused` |
| `cluster` | 3 remotes of 2 priorities, 3 requests | `Balanced`, `TriesEachByPriority` |
| `stalker` | 2 goroutines, block time of 3 ticks, 1 tick of skew, 2 heights | `WaitIsBounded`, `HeadIsPublished` |
| `blockcache` | 2 nodes, 2 callers, 2 requests of 7 kinds, 3 heights, 1 fork, LRUs of 2 | `AnswerFits`, `NoHoleInLogs`, `NobodyIsForgotten`, `StaleIsNotRevived` |
| `routing` | 4 heights, numbers of 5 bits, 11 parameters, 6 filters, look-backs of 2 and 1 | `LatestRangeIsOrdered`, `ForgedIsWhole`, `FiltersAgree`, `ToldNeverRetreats`, `OldBlocksStayOut` |
| `gateway` | 2 handlers, 9 kinds of requests, a pool of 2, 1 break, a queue of 1, two limits of 1 | `BudgetIsKept`, `PoolIsBounded`, `OnlyListedOrigins`, `SubscriptionIsKept`, `UpstreamIsReleased` |
| `routing_range` | as `routing` | **violation** of `LogRangeIsBounded` |

The type invariants are not listed with the runs: those the proofs start from are
proved, and each of the others holds on the instance of its run when it is added to
the configuration. Why the bounds are enough for what they show:

- Election: the times to live are 2 and 3 periods instead of 5 and 8. What matters
  is that the health key outlives one period and the lock outlives a promotion;
  the proofs cover all values and any number of nodes. With late ticks and cuts two
  nodes suffice for every pair of a holder and a challenger.
- Lease: a client's entry meets the loop and one more `updateSubs`; a second
  client is there to be registered during the walk over the first.
- Head store and subscriptions: three messages are the fewest with one stored, one
  in the channel and one dropped; three heights are the fewest with a jump and a
  number that goes back.
- Doctor and Backer: one request starts a backoff, one answers late from before it,
  the check starts the next one; 2 and 4 are the interval and its double, at the
  cap. The error timeouts reach the cut-off of 4 by doubling twice.
- Validator: two answers overtake each other; three heights have a head below and
  one above the stored one.
- Cluster: a priority with two remotes (the counter is used) and one with a single
  remote (it is not); three requests wrap the counter of two.
- Stalker: three ticks of block time lie between the floor of two ticks and the
  cap, and a skew of one makes a block due later than the cap.
- BlockCache: two heights above the genesis are a block and the child that proves a
  reorganisation; an LRU of 2 holds a range of logs and loses one of it to any third
  entry; two callers share a flight on one node or race on two; redis may start with
  entries that others left there.
- Routing: 5 bits have room for the tags, four heights and parameters beyond the
  largest number and beyond the width; the look-backs are such that head minus limit
  is negative, zero and positive. Blocks of odd height have logs. A remote that lags is
  at any of the heights below the tip.
- Gateway: one break takes a connection from a handler, or from both, while the other
  slot is empty or lives on, and the slot is dialed again; the proof of `PoolIsBounded`
  has any number of breaks. Two limits of one request are the fewest where the second refuses what the first has counted; a queue of one
  place fills after the single future that is taken from it.

Named bounds: `MaxLate`, `MaxCrash`, `MaxCut`, `MaxBackground`, `MaxHead`,
`MaxStream`, `TimeoutBound`, `MaxBlock`, `MaxHeight`, `MaxFork`, `MaxAsks`, `MaxTip`,
`Half`, `MaxArrivals`, `MaxBreak`. `CHECK_DEADLOCK FALSE` is used where the system
may stop: an election whose nodes are all dead, a cluster or a cache whose requests
are all answered, and a request that is lost in an endless range or ends the process.

## Fairness

- Time passes and goroutines are scheduled: weak fairness of `Tick` and of the
  steps of a process that is up. Nobody has to send a request, publish a head,
  crash or lose a connection.
- `HealingSpec` of Election restores lost connections; `FairSpec` does not, and
  the difference is what refutes `DeposedStepsDown`.
- A `sync.Mutex` does not starve a waiter (since Go 1.9), hence strong fairness of
  `UpdateBegin` and `Acquire` in Lease.
- The stalker assumes that a cluster asked again and again answers now and then,
  and that redis does: strong fairness of `Answer` and `Put`. Without it nothing
  can be published.
- `MessageReachesHead` allows any finite number of reconnects, because each
  replays from the start and drops that never end may outrun the replay.
- Doctor: the goroutine, the timers and the callers that were let through run; a
  check ends, because it has a deadline of 15 seconds. Requests need not come and
  need not be answered.
- Gateway: handlers run, and get the mutex of the pool in their turn (strong
  fairness of `Lock`, again because `sync.Mutex` does not starve). A dial that is
  not answered ends only when its client leaves: `SubscriptionIsKept` holds because
  it asks for venn to be up for good. A subscription has to end only when its client
  has gone or its connection is lost (`Over`). A call of `Unsubscribe` ends, with an
  error or without: that is assumed of the websocket library.
- BlockCache and Routing state safety only and assume no fairness.

## Proofs

Eight modules, checked by `tlapm`, without assumptions beyond the named ones on the
constants (`ASSUME` in the module that declares them, evaluated by TLC in every run).
Each proof has the same shape: a type invariant and an inductive invariant, one lemma
per action that keeps them, a theorem that combines them, and the properties of the
runs as its consequences. The inductive invariants are defined in the modules they are
about, so that TLC can check them as they stand.

- **ElectionProofs.** `TypeCorrect`, `PromotionSafety` and `LeaderHealth`. The two
  properties speak of behaviours up to the first late tick or lost connection
  (`SoFarOnSchedule`), and neither is inductive.
  `ScheduleInv` adds why: from `TryLock` to `SET` a node holds the lock and the key
  is absent, and a node about to `TryLock` finds the key absent or the lock taken.
  `LeaderPathInv` follows the leader from its SET back to the select and says that
  every way back renews its health key, with two periods left, or one if the tick
  has come. Any number of nodes and crashes, any times to live above their
  assumptions.
- **LeaseProofs.** `LeaseInv` says what one `updateSubs` can know of the other: a
  stale TRUE means that the loop still owes its own run, a stale FALSE finds
  nothing to revoke. From it `LeaseSafety`, `LossIsReal` (`NoSpuriousLoss`) and
  `Implementation`: every step of `Lease` is a step or a stutter of
  `LeaseContract`.
- **SubscriptionProofs**, of HeadStore and of Subscription. `StoreInv`: what is being
  announced is the head and news to every subscriber of its chain, because only one
  goroutine raises the head (`HeadsOnlyRise`, `AnnouncementsAscend`). `SessionInv` on
  top of it: what is registered listens, and `current` stays at or below whatever may
  still arrive. `NoBlockIsLost`, `NoLogIsLost`, `SessionsNeverBehind`,
  `HeadersInOrder`. A step of the whole is a step of the store or leaves it alone
  (`StepsOfStore`), so the store's lemmas are used as they are.
- **BackerProofs.** `WakeUpsMatch` is inductive with `TypeOK`: the number of
  callbacks to come matches `happy`. `WakeUpsAlwaysMatch`, `BackoffsAreServed`. A step
  of Doctor is, for the backoff, a step of Backer or none (`DoctorKeepsBacker`), so
  that both hold of the remote with its health checks too.
- **ClusterProofs.** `ClusterInv` puts the remotes of a group on a ring: those begun
  with once more than the others are the last few up to where the counter points
  (`SpreadInv`), those a request has tried are the last few up to its own number
  (`RequestInv`), and the groups are sorted and share no remote (`GroupsInv`). One
  lemma about the remainder (`RingStep`) moves both along. `RequestsAreSpread`
  (`Balanced`) and `RemotesAreTriedByPriority` hold for any number of remotes,
  priorities and requests in flight; `Balanced` alone is not inductive, since it does
  not say who is ahead.
- **GatewayProofs.** `PoolInv`: whoever dials has the mutex alone, and the slot that it
  dials for holds no open connection; without it `PoolIsBounded` is lost when a
  connection is replaced. `BudgetInv`: a limit counts a request under the address of
  its client, whichever way it came. `ReleaseInv`: what venn holds for a handler is what
  the handler forwards or is about to release, over that very connection; from it
  `OneSubscription`, that rounds of one handler do not overlap. `PoolDoesNotLeak`,
  `SubscriptionsAreHeldOnce`, `ClientsKeepTheirBudget`, `OriginsAreListed`. The budget rests on the assumption that
  a trusted proxy puts the client into its first header and that everybody else comes
  for itself: that is what the option means.
- **BlockCacheProofs.** `CacheInv`: an index has one entry per type and number and an
  entry's hash has its number; what a flight has found is part of the answer to its
  query at every step, and from redis the blocks from the first on, without a gap; it
  goes on to redis only with what a remote answered to it, which is what
  `NothingStaleComesBack` rests on; who waits for a flight asked for the same. `AnswersFit`, `LogsAreWhole`,
  `EveryWaiterHasAFlight`, `NothingStaleComesBack`. Assumed of a query: a range goes from
  low to high, is of one block unless it is of logs, as `Cacher` asks, and has fewer
  blocks than the LRU has places (`maxLogRange` is 10, the LRU has 2048).
- **RoutingProofs.** `RoutingInv`: whatever `latest` was replaced by is a head that was
  known when the request came and at least as high as anything told before; what has
  passed a look-back was within its limit of the head when the request came (`Within`);
  and both requests of the forger ask for the block that the client asked for
  (`ForgeInv`, `SubInv`). `RangesAreOrdered`, `LatestNeverRetreats`, and `LookbackHolds`,
  where the unsigned subtraction of the code is shown to be the signed one once the head
  is above the limit, for any width of the numbers above the height of the chain; that
  the head has moved on since the request came only makes the check stricter, and that
  it moves between the check and the answer does not matter to what was true when the
  request came. `ReceiptsAreWhole` is about receipts by number, and excludes a remote
  that is asked for the logs of a block it does not have. `CacheFiltersAsRemotes` is
  about answers: the two filters agree for all filters that do not end with a wildcard
  and all logs, and `Chainblock` drops nothing of a range unless it goes from one tag to
  another.

Only model-checked:

- everything that holds under fairness (the leads-to and `<>[]` properties, such as
  `UpstreamIsReleased`), which is out of the prover's reach;
- `HeadNeverFallsBack` of Validator and `WaitIsBounded` of Stalker, which are next in
  the plan;
- that `origin.Match` treats a wildcard as the documentation says
  (`SubdomainsMatch`, refuted): `OriginsAreListed` is about the search through the
  list, and takes what matches from the code (`origin.go:120`).

## Refuted claims

One claim of the documentation has a run that refutes it:

- `routing_range`: "maxLogRange is the max range for logs before they are ignored
  from the cache" (`cacher.go:43`). Tags are negative numbers, so a range from a
  number, or from earliest, to a tag has a negative difference and passes the bound
  (`cacher.go:403`); the store is asked for all numbers up to 2^64 - 1. HeadReplacer
  replaces a tag only if both ends are `latest`.

The following are stated at the end of their modules; put in place of the
properties of the named configuration, TLC refutes each of them within a minute or
two:

- `DeposedStepsDown` (`election_faults`, with `FairSpec`): "the context will close if
  ... leadership is lost" (`strategy.go:32`). A leader cut off from redis leaves
  `loop` at its first command, so `isLeader` and its leases stay while the others
  elect a new leader.
- `ChecksArePeriodic` (`remote`): "Doctor runs periodic health checks"
  (`doctor.go:28`). Every request to a healthy remote resets the timer, and a busy
  remote is never checked again. `QuietFailureIsSeen` is what is left of the claim.
- `VerdictIsHonest` (`remote`): a remote that answers every check is found unhealthy
  when a request has earned a backoff, which refuses the check.
- `EmptyMeansError` (`blockcache`): "the only reason blk should be nil is if merr is
  not nil" (`compound.go:74`). `Chainblock` answers with no entries and no error for
  blocks that are not there or have no logs.
- `ReorgIsNoticed` (`blockcache`): entries that come back from redis carry no parent,
  and the check looks only at the stored predecessor of a block that is put, so that
  a node may have a block of the new fork next to its abandoned parent.
- `OnlyOldIsRefused` (`routing`): "prevents requests for blocks that are too old"
  (`blockLookBack.go:17`). While the head is below the limit, or unknown, head minus
  limit wraps around and every number is too old.
- `InvalidIsRefused` (`routing`): "an invalid block number error", "an out of range
  error" (`rpc.go:58-60`). A word is taken for 0, a number beyond 64 bits for its low
  bits.
- `FiltersAlwaysAgree` (`routing`): a filter that ends with a wildcard asks for a log
  with so many topics (`filter.go:13`); `Check` does not, so the answer depends on
  whether the cache has it.
- `TagRangesAgree` (`routing`): for `safe` to `pending` the store is asked with numbers
  near 2^64, and `Chainblock` drops every log that the remote answers, because its block
  is not in that range (`chainblock/module.go:280`): the client gets none.
- `ForgedIsAlwaysWhole` (`routing`): a remote that does not have the block yet answers
  the forger's query for logs with none, next to a block from the cache or from another
  remote, and the receipts have no logs.
- `ForgedLatestIsWhole` (`routing`): the block and the logs of forged receipts for
  `latest` may be of two heads.
- `HandlersEnd` (`gateway`): a handler whose client has gone may wait for the mutex of
  the pool, for as long as another one dials (`hybridproxy.go:180`); this is what TLC
  finds with the configuration as it is. With one handler and `MaxArrivals = 3` it finds
  the other reason: the goroutine that empties the queue of telemetry takes one future
  and ends (`telemetry/component.go:84`), and when the queue is full `Publish` waits for
  ever (`telemetry/component.go:121`).
- `NothingIsLeft` (`gateway`): "this will call the deferr handler which will call
  unsubscribe" (`hybridproxy.go:77`). A client that goes away during `Subscribe`
  leaves a subscription that venn has accepted on a connection shared with others; so
  does an `Unsubscribe` that fails (`hybridproxy.go:119`).
- `SubdomainsMatch` (`gateway`): "any subdomain of example.com" (`origin.go:151`). A
  wildcard stands for one label only.
- `OverthrowsOnlyAbsentLeader` (`election_faults`): the health check and the DEL
  are separate commands, so an overthrow may remove the key of a healthy leader
  that took over in between (`redsync.go:224`, `:297`).
- `StartKnowsEveryHead` (`headstore`): a starting node reads one message of the
  stream that all chains share (`redihead/module.go:124`).
- `BackoffWithinBounds` (`remote`): `max(errorMaxTimeout, timeout*2)` and
  `min(errorMinTimeout, timeout/2)` make the maximum a floor and the minimum a
  ceiling (`backer.go:83`, `:63`).
- `OldHeadIsRefused` (`validator`): the age of a block is looked at only when its
  number equals the last one (`validator.go:46`).
- `NoFalseAccusation` (`validator`): two answers of an honest remote that overtake
  each other yield "head jumped backwards" (`validator.go:42`).
- `RefusalFallsBack` (`cluster`): the refusal of a filter is a user error and ends
  the request although the next remote takes the method (`cluster.go:95`).

Seen while reading, without a model: the API of the nodes tests the error of
`SplitHostPort` the wrong way round, so that its limit counts a client once per port
(`svc/app/node/api.go:119`; the variant `SlugInverted` of Gateway is this code, and
breaks `BudgetIsKept`); a pattern of origins without a scheme makes the parser panic
(`origin.go:81`), one that does not parse ends the search before later ones
(`gateway/api.go:338`), and a request without an Origin header is refused; a request
whose telemetry fails is answered twice (`gateway/api.go:279`); `validation.go:11`
says 1024 characters where the code says 256; the head store in memory writes to a
map that is never made (`headstore/atomic.go:50`); `Close` of a remote that was never
asked dereferences nil (`proxier.go:93`), and its connection is read and replaced
without a lock (`proxier.go:41`); after a reorganisation that two nodes purge at the
same time one of them sends a DEL without keys, an error that its caller gets
(`rediblock/module.go:208`, part of BlockCache); `AlwaysLeader.AcquireLease` sends on an
unbuffered channel before it returns it and never ends (`strategy.go:73`); the
stalker takes the time until the next block for the propagation delay, so that
punctual blocks make it wait up to 1.9 block times (`stalker.go:153`); the comment
at `redsync.go:156` says 10 seconds where the code says 5; `redsync.go:204` says
"immediately" where the loop waits for its ticker. After the death of a leader the
lock may live for 8 seconds, so there may be no leader for as long.

## What is not modelled

`PROJECT.json` has the reason for every component. In short: formatting, metrics,
logs and the dashboard decide nothing; redis, redsync, timers, nats and the remotes
are external and modelled from how the code uses them; the token buckets are
libraries; configuration is read once. Without a behaviour to explore are
`AlwaysLeader` (every call blocks) and the head store in memory (the first `Put`
panics); `jrpcutil/subscribe.go` and `BlockNumberOrHash` are not used by the program.
`Proxier` is a race on a plain field, of which a model could only enumerate torn
reads; the drain of the node API at shutdown is a wait group of a library. Of the
modelled parts, the torn update of the stalker's delay tracker, and the order in
which an LRU evicts, are left out.

## Plan

Done, in this order: Election, Lease with its contract, HeadStore, Subscription,
Backer, Cluster, Validator, Stalker and their first proofs; BlockCache, Doctor over
Backer, LogFilter and Routing, Gateway; then the proofs of Subscription (logs), of
Backer under the doctor, of Gateway, BlockCache, Routing and Cluster. What is left is to
prove more:

1. **Validator**: `HeadNeverFallsBack`, from an invariant on the head that is stored
   and on the answers that are on their way.
2. **Stalker**: `WaitIsBounded`, from bounds on the mean of the tracker.
3. **Doctor**: its type invariant, and that a verdict is never withdrawn without a
   check.
