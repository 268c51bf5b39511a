------------------------------ MODULE Routing -------------------------------
(***************************************************************************)
(* The way of a request through a node (svc/app/node/api.go), from the     *)
(* outside in: Forger, HeadReplacer, Cacher, the look-back of the chain,   *)
(* the look-back of a remote, the remote.  The head moves between any two  *)
(* of them, remotes lag behind the chain, each of the middlewares parses   *)
(* the block parameters anew, as BlockNumber (lib/ethtypes/rpc.go), a      *)
(* signed integer of 64 bits - here one of -Half..Half - 1 - whose         *)
(* negative values are tags.  Blocks are their numbers: BlockCache has the *)
(* reorganisations.                                                        *)
(***************************************************************************)
EXTENDS Integers, FiniteSets, LogFilter

CONSTANTS
    Half,                      \* of the values of a BlockNumber or hexutil.Uint64; 2^63 in the code
    MaxTip, MaxLogRange,
    ChainLookback, RemoteLookback,   \* MaxBlockLookback; 0 is no limit
    ForgeBlockReceipts,
    Param,                     \* block parameters as clients send them
    Filter, LogsOf(_)          \* filters of clients; the logs of a block

ASSUME RoutingAssumption ==
    /\ {Half, MaxTip, MaxLogRange, ChainLookback, RemoteLookback} \subseteq Nat
    /\ MaxTip \in 1..Half - 1 /\ Half > 5
    /\ ForgeBlockReceipts \in BOOLEAN
    /\ \A p \in Param : p.tag = "number" => p.value \in Int
    /\ \A f \in Filter : IsTopics(f.topics)
    /\ \A n \in 0..MaxTip : \A log \in LogsOf(n) : IsTopics(log.topics)

LatestExecuted == -5
Finalized == -4
Safe == -3
Pending == -2
Latest == -1
Earliest == 0

MaxInt == Half - 1
Uint(n) == n % (2 * Half)
Signed(n) == IF Uint(n) > MaxInt THEN Uint(n) - 2 * Half ELSE Uint(n)

VARIABLES
    head,   \* of the head store; 0 while it is unknown
    tip,    \* of the chain; a remote may still be at any block before it
    job,    \* the request of a client, and the two of the forger
    told    \* history: the greatest number that `latest' has stood for

vars == <<head, tip, job, told>>

Slot == {"main", "logs", "block"}
Idle == [pc |-> "idle"]
Crashed == [pc |-> "crashed"]

Init ==
    /\ head = 0 /\ tip = 1 /\ told = 0
    /\ job = [s \in Slot |-> Idle]

-----------------------------------------------------------------------------
(* Parameters *)

Absent == [tag |-> "absent"]
Number(n) == [tag |-> "number", value |-> n]

Tags == [latest |-> Latest, pending |-> Pending, safe |-> Safe, finalized |-> Finalized,
         latestExecuted |-> LatestExecuted, earliest |-> Earliest]

\* BlockNumber.UnmarshalJSON.  What is no number for ParseUint is one for big.Int,
\* of which the low bits of the magnitude are taken; what is none for that
\* either (a word, an object with a block hash) is 0.
Unsigned(p) ==
    IF p.tag # "number" THEN 0 ELSE Uint(IF p.value < 0 THEN -p.value ELSE p.value)

Parses(p) == Unsigned(p) <= MaxInt
Parse(p) ==
    CASE p.tag \in DOMAIN Tags -> Tags[p.tag] [] p.tag = "null" -> Latest [] OTHER -> Unsigned(p)

\* BlockNumber.MarshalJSON.
Marshal(n) ==
    IF n > 0 THEN Number(n) ELSE [tag |-> CHOOSE t \in DOMAIN Tags : Tags[t] = n]

\* In a filter, a null is a nil pointer.
Nil(p) == p.tag \in {"absent", "null"}

NoFilter == [addresses |-> {}, topics |-> <<>>]

\* A job by its stage: none, on its way or at the end of it without an answer, answered.
BlockParam == Param \cup [tag : {"number"}, value : 1..MaxInt]
                    \cup [tag : {"absent"} \cup DOMAIN Tags]
Routed == {"cache", "store", "chain", "remote", "upstream"}
Active ==
    [pc : Routed \cup {"forge", "gather", "replace", "replaceTo", "refused", "lost"},
     method : {"getBlock", "receipts", "call", "balance", "logs", "blockNumber"},
     from : BlockParam, to : BlockParam, filter : Filter \cup {NoFilter},
     seen : 0..MaxTip, came : 0..MaxTip]

TypeOK ==
    /\ tip \in 1..MaxTip /\ head \in 0..tip /\ told \in 0..head
    /\ DOMAIN job = Slot
    /\ \A s \in Slot : job[s] \in {Idle, Crashed} \cup Active \/ job[s].pc = "answered"

-----------------------------------------------------------------------------
(* The client and the chain *)

Arrive(method, from, to, filter) ==
    /\ job["main"] = Idle
    /\ job' = [s \in Slot |->
           IF s # "main" THEN Idle
           ELSE [pc |-> IF method = "receipts" THEN "forge" ELSE "replace",
                 method |-> method, from |-> from, to |-> to, filter |-> filter,
                 seen |-> 0, came |-> head]]
    /\ UNCHANGED <<head, tip, told>>

\* The client has its answer, or gives up.
Done ==
    /\ \E s \in Slot : job[s].pc = "lost" \/ (s = "main" /\ job[s].pc \in {"answered", "refused"})
    /\ job' = [s \in Slot |-> Idle] /\ UNCHANGED <<head, tip, told>>

Grow == tip < MaxTip /\ tip' = tip + 1 /\ UNCHANGED <<head, job, told>>

\* The head store learns of a block: HeadStore says how.
Learn == \E n \in head + 1..tip : head' = n /\ UNCHANGED <<tip, job, told>>

Put(s, j) == job' = [job EXCEPT ![s] = j]
Go(s, pc) == Put(s, [job[s] EXCEPT !.pc = pc]) /\ UNCHANGED told

MaxOf(S) == CHOOSE n \in S : \A m \in S : m <= n

\* Of the methods that HeadReplacer knows.
AsksLatest(j) ==
    /\ j.method # "balance" /\ j.from.tag = "latest"
    /\ j.method = "logs" => j.to.tag = "latest" \/ Nil(j.to)

\* An answer is about some blocks, and has some logs of them; it is `behind' if who
\* gave it did not have all the blocks that it was asked for.
Answer(s, blocks, logs, behind) ==
    /\ Put(s, [pc |-> "answered", method |-> job[s].method, from |-> job[s].from, to |-> job[s].to,
               filter |-> job[s].filter, came |-> job[s].came,
               latest |-> AsksLatest(job[s]) \/ job[s].seen > 0,
               blocks |-> blocks, logs |-> logs, behind |-> behind])
    /\ told' = IF s = "main" /\ job'[s].latest /\ job[s].came > 0 /\ blocks # {}
               THEN MaxOf({told} \cup blocks) ELSE told

-----------------------------------------------------------------------------
(* Forger *)

Forged(fromOfLogs) ==
    LET Sub(method, from, to) ==
            [job["main"] EXCEPT !.pc = "replace", !.method = method, !.from = from, !.to = to]
        number == Marshal(Parse(job["main"].from))
    IN  [main |-> [job["main"] EXCEPT !.pc = "gather"],
         logs |-> Sub("logs", IF fromOfLogs THEN number ELSE Absent, number),
         block |-> Sub("getBlock", number, Absent)]

\* Variant: the query for the logs has no lower end.
ForgeOpen ==
    /\ job["main"].pc = "forge"
    /\ IF ~ForgeBlockReceipts THEN Go("main", "replace")
       ELSE IF ~Parses(job["main"].from) THEN Go("main", "refused")
       ELSE job' = Forged(FALSE) /\ UNCHANGED told
    /\ UNCHANGED <<head, tip>>

\* The logs and the block are asked for at the same time, as requests of their own.
Forge ==
    /\ job["main"].pc = "forge"
    /\ IF ~ForgeBlockReceipts THEN Go("main", "replace")
       ELSE IF ~Parses(job["main"].from) THEN Go("main", "refused")
       ELSE job' = Forged(TRUE) /\ UNCHANGED told
    /\ UNCHANGED <<head, tip>>

\* The receipts are those of the block, with the logs of its transactions.
Gather ==
    /\ job["main"].pc = "gather"
    /\ \A s \in {"logs", "block"} : job[s].pc \in {"answered", "refused"}
    /\ IF \E s \in {"logs", "block"} : job[s].pc = "refused" THEN Go("main", "refused")
       ELSE Answer("main", job["block"].blocks, job["logs"].blocks \cap job["block"].blocks,
                   job["logs"].behind)
    /\ UNCHANGED <<head, tip>>

-----------------------------------------------------------------------------
(* HeadReplacer *)

\* ReplaceBlockNumberInRequest, for the methods that have it; all the others pass.
ReplaceBlockNumber(s) ==
    LET j == job[s]
        known == j.method \in {"getBlock", "receipts", "call"}
    IN  /\ j.pc = "replace" /\ j.method # "logs"
        /\ IF known /\ (j.from = Absent \/ ~Parses(j.from)) THEN Go(s, "refused")
           ELSE IF known /\ Parse(j.from) = Latest /\ head > 0
           THEN Put(s, [j EXCEPT !.pc = "cache", !.from = Number(head), !.seen = head])
                /\ UNCHANGED told
           ELSE Go(s, "cache")
        /\ UNCHANGED <<head, tip>>

\* Variant: eth_blockNumber is left to the remotes.
ReplaceRemoteNumber(s) == ReplaceBlockNumber(s)

\* Middleware, but for eth_getLogs.
Replace(s) ==
    IF job[s].pc = "replace" /\ job[s].method = "blockNumber"
    THEN Answer(s, {head} \ {0}, {}, FALSE) /\ UNCHANGED <<head, tip>>
    ELSE ReplaceBlockNumber(s)

IsLatest(p) == Nil(p) \/ Parse(p) = Latest

\* eth_getLogs reads the head twice, once for each end.
ReplaceFrom(s) ==
    LET j == job[s]
    IN  /\ j.pc = "replace" /\ j.method = "logs"
        /\ IF ~Parses(j.from) \/ ~Parses(j.to) THEN Go(s, "refused")
           ELSE Put(s, [j EXCEPT !.pc = "replaceTo", !.seen = IF IsLatest(j.from) THEN head ELSE 0])
                /\ UNCHANGED told
        /\ UNCHANGED <<head, tip>>

\* Variant: the lower end is taken from the second read.
ReplaceToSwapped(s) ==
    LET j == job[s]
    IN  /\ j.pc = "replaceTo"
        /\ IF j.seen > 0 /\ IsLatest(j.to)
           THEN Put(s, [j EXCEPT !.pc = "cache", !.from = Number(head), !.to = Number(j.seen)])
                /\ UNCHANGED told
           ELSE Go(s, "cache")
        /\ UNCHANGED <<head, tip>>

\* Only when both ends are the latest block they are replaced.
ReplaceTo(s) ==
    LET j == job[s]
    IN  /\ j.pc = "replaceTo"
        /\ IF j.seen > 0 /\ IsLatest(j.to)
           THEN Put(s, [j EXCEPT !.pc = "cache", !.from = Number(j.seen), !.to = Number(head)])
           ELSE Put(s, [j EXCEPT !.pc = "cache", !.seen = 0])
        /\ UNCHANGED <<head, tip, told>>

-----------------------------------------------------------------------------
(* Cacher *)

Start(j) == Uint(Parse(j.from))
End(j) == Uint(Parse(IF j.method = "logs" THEN j.to ELSE j.from))

\* Cacher.Middleware: what the store is asked for; the rest goes to the remotes.
Cacheable(j) ==
    \/ j.method \in {"getBlock", "receipts"} /\ Parse(j.from) >= 0
    \/ /\ j.method = "logs" /\ ~Nil(j.from) /\ ~Nil(j.to)
       /\ Signed(Parse(j.to) - Parse(j.from)) <= MaxLogRange

Cache(s) ==
    /\ job[s].pc = "cache"
    /\ Go(s, IF Cacheable(job[s]) THEN "store" ELSE "chain")
    /\ UNCHANGED <<head, tip>>

Filtered(j, blocks) ==
    IF j.method = "logs" THEN FilterLogs(j.filter, UNION {LogsOf(n) : n \in blocks}) ELSE {}

\* store.Get: BlockCache says how.  LruStore.Get cannot allocate a slice for most of
\* the numbers there are; Rediblock.Get does not come to the end of a range that
\* ends with the greatest.
Oversized(j) == Start(j) <= End(j) /\ Uint(End(j) - Start(j) + 1) > MaxInt
Endless(j) == Start(j) <= End(j) /\ End(j) = Uint(-1)

\* What a remote at block t makes of a number or tag, and of a request.
Resolve(n, t) == IF n >= 0 THEN n ELSE IF n \in {Safe, Finalized} THEN t \div 2 ELSE t
ResolveParam(p, t) == Resolve(IF Nil(p) THEN Latest ELSE Parse(p), t)

Asked(j, t) == IF j.method = "logs" THEN ResolveParam(j.from, t)..ResolveParam(j.to, t)
               ELSE {ResolveParam(j.from, t)}

\* Without the remotes, blocks that exist are found by number.  But the logs of one
\* block are kept under the number they were asked for by, which may be a tag, and
\* then are of a block that the tag once stood for.  No logs are not kept.
Cached(j) ==
    {blocks \in {Start(j)..End(j)} \cup
         IF Start(j) = End(j) /\ Parse(j.from) < 0 THEN {Asked(j, t) : t \in 1..tip} ELSE {} :
        blocks \subseteq 0..tip /\ (j.method = "logs" => \A n \in blocks : LogsOf(n) # {})}

\* The panic of a slice that cannot be allocated is one of singleflight.DoChan, which
\* nobody recovers: the process dies.
Crash == job' = [s \in Slot |-> Crashed] /\ UNCHANGED told

Store(s) ==
    LET j == job[s]
    IN  /\ j.pc = "store"
        /\ \/ Oversized(j) /\ Crash
           \/ ~Oversized(j) /\ Endless(j) /\ Go(s, "lost")
           \/ /\ ~Oversized(j) /\ ~Endless(j)
              /\ \/ \E blocks \in Cached(j) : Answer(s, blocks, Filtered(j, blocks), FALSE)
                 \/ Start(j) <= End(j) /\ Go(s, "chain")
        /\ UNCHANGED <<head, tip>>

-----------------------------------------------------------------------------
(* BlockLookBack, of the chain and of the remote, and the remote *)

\* Variant: the wider of two limits.
EffectiveWide(chain, remote) == IF chain >= remote THEN chain ELSE remote

\* getEffectiveLookBack.
Effective(chain, remote) ==
    IF chain = 0 THEN remote ELSE IF remote = 0 \/ chain < remote THEN chain ELSE remote

\* The difference is one of unsigned numbers.
TooOld(n, limit) == n = Earliest \/ (n > 0 /\ n < Uint(head - limit))

\* Middleware, which there is only with a limit: which parameter is looked at, if
\* any.  Of a range, the lower end.
Refused(j, limit) ==
    /\ limit > 0
    /\ j.method # "blockNumber" /\ ~(j.method = "logs" /\ Nil(j.from)) /\ j.from # Absent
    /\ ~Parses(j.from) \/ TooOld(Parse(j.from), limit)

\* Clusters.Middleware.
Chain(s) ==
    /\ job[s].pc = "chain"
    /\ Go(s, IF Refused(job[s], ChainLookback) THEN "refused" ELSE "remote")
    /\ UNCHANGED <<head, tip>>

\* The remote's own look-back, only if it has a limit.
Remote(s) ==
    LET limit == IF RemoteLookback = 0 THEN 0 ELSE Effective(ChainLookback, RemoteLookback)
    IN  /\ job[s].pc = "remote"
        /\ Go(s, IF Refused(job[s], limit) THEN "refused" ELSE "upstream")
        /\ UNCHANGED <<head, tip>>

\* Chainblock.getLogs: logs of one block are taken as they are, those of a range are
\* put in their places, and dropped where they have none.
InRange(j, n) == Start(j) = End(j) \/ Uint(n - Start(j)) <= End(j) - Start(j)

\* Filter, rate limit, doctor, backoff and network: any of them may fail.  Else the
\* answer is that of a remote at some block.  On behalf of the store the logs are
\* asked for without the filter.
Upstream(s) ==
    LET j == job[s]
    IN  /\ j.pc = "upstream"
        /\ \/ Go(s, "refused")
           \/ \E t \in 1..tip :
                LET blocks == Asked(j, t) \cap 0..t
                IN  Answer(s, blocks,
                        IF j.method # "logs" \/ Cacheable(j)
                        THEN Filtered(j, {n \in blocks : InRange(j, n)})
                        ELSE {log \in UNION {LogsOf(n) : n \in blocks} : Documented(j.filter, log)},
                        blocks # Asked(j, t))
        /\ UNCHANGED <<head, tip>>

Next ==
    \/ Grow \/ Learn \/ Done \/ Forge \/ Gather
    \/ \E m \in {"getBlock", "receipts", "call", "balance"}, p \in Param : Arrive(m, p, Absent, NoFilter)
    \/ \E from \in Param, to \in Param, f \in Filter : Arrive("logs", from, to, f)
    \/ Arrive("blockNumber", [tag |-> "latest"], Absent, NoFilter)
    \/ \E s \in Slot : \/ Replace(s) \/ ReplaceFrom(s) \/ ReplaceTo(s) \/ Cache(s) \/ Store(s)
                       \/ Chain(s) \/ Remote(s) \/ Upstream(s)

Spec == Init /\ [][Next]_vars

-----------------------------------------------------------------------------
(* Properties *)

Answered(s) == job[s].pc = "answered"

\* The two reads of the head that turn `latest' to `latest' into a range may give
\* two heads, but the range is never upside down, which CompoundStore.Get would
\* answer with no logs at all.
LatestRangeIsOrdered ==
    \A s \in Slot : job[s].pc = "store" /\ job[s].seen > 0 => Start(job[s]) <= End(job[s])

\* Receipts that are forged from two independent answers have the logs of the block
\* they are of, if it is asked for by its number, though each answer may come from
\* the cache or from any remote, and the head moves between them - unless the remote
\* that answered for the logs did not have the block.
ForgedIsWhole ==
    LET j == job["main"]
    IN  (Answered("main") /\ j.method = "receipts" /\ ForgeBlockReceipts
          /\ Parse(j.from) >= 0 /\ ~j.behind)
        => j.logs = j.blocks

\* Once the head is known, whatever a client is told by `latest' - the number, the
\* block, the logs, the result of a call - is never older than what it was told
\* before, though the remotes are ahead of the head store, or pass it on the way.
ToldNeverRetreats ==
    [][(~Answered("main") /\ Answered("main")'
         /\ job'["main"].latest /\ job'["main"].came > 0 /\ job'["main"].blocks # {})
       => MaxOf(job'["main"].blocks) >= told]_vars

\* No remote serves, by number or in a range of numbers, a block that was further
\* behind the head than either limit allows when the request came: however long it
\* waits on its way, and though the limits are applied to a difference of unsigned
\* numbers.  Tags are the remotes' own affair.
OldBlocksStayOut ==
    [][\A s \in Slot :
          (job[s].pc = "upstream" /\ Answered(s)' /\ job[s].from.tag \in {"number", "earliest"})
          => \A n \in job'[s].blocks, limit \in {ChainLookback, RemoteLookback} \ {0} :
                n >= job[s].came - limit]_vars

\* The inductive invariants behind these: whatever `latest' was replaced by is a head
\* that was known when the request came, at least as high as anything told before;
\* what has passed a look-back was within its limit; and both requests of the forger
\* ask for the block that the client asked for.
Within(j, limit) ==
    limit > 0 /\ j.from.tag \in {"number", "earliest"} => Parse(j.from) >= j.came - limit

JobInv(j) ==
    /\ j.came \in 0..head
    /\ j.pc \in {"forge", "gather", "replace"} => j.seen = 0
    /\ j.pc \in {"forge", "gather"} => j.method = "receipts"
    /\ j.method = "blockNumber" => j.pc \in {"replace", "answered"}
    /\ j.pc \in Routed \cup {"replaceTo"} /\ j.seen > 0 => j.seen \in told..head
    /\ j.pc = "replaceTo" => j.method = "logs" /\ (j.came > 0 /\ IsLatest(j.from) => j.seen > 0)
    /\ j.pc \in Routed /\ j.seen > 0 =>
         /\ j.from = Number(j.seen)
         /\ j.method = "logs" => \E n \in j.seen..head : j.to = Number(n)
    /\ j.pc \in Routed /\ j.seen = 0 /\ j.came > 0 => ~AsksLatest(j)
    /\ j.pc \in {"remote", "upstream"} => Within(j, ChainLookback)
    /\ j.pc = "upstream" => Within(j, RemoteLookback)

SubInv(main, s, j) ==
    LET n == Parse(main.from)
    IN  /\ j.pc \notin {"idle", "crashed", "forge", "gather"} /\ j.came = main.came
        /\ j.method = IF s = "logs" THEN "logs" ELSE "getBlock"
        /\ n >= 0 =>
             IF j.pc = "answered" THEN j.blocks \subseteq {n} /\ (~j.behind => j.blocks = {n})
             ELSE j.from = Marshal(n) /\ j.seen = 0 /\ (s = "logs" => j.to = Marshal(n))
        /\ s = "block" /\ n = Latest /\ main.came > 0 =>
             IF j.pc = "answered" THEN \E m \in told..head : j.blocks \subseteq {m}
             ELSE /\ j.pc = "replace" => j.from = Marshal(Latest)
                  /\ j.pc \in Routed => j.seen > 0

ForgeInv ==
    LET main == job["main"]
    IN  /\ main.pc # "gather" =>
             \A s \in {"logs", "block"} : job[s].pc \in {"idle", "crashed", "answered", "refused"}
        /\ main \notin {Idle, Crashed} /\ main.method = "receipts" /\ ForgeBlockReceipts =>
             main.pc \in {"forge", "gather", "answered", "refused"}
        /\ main.pc = "gather" => Parses(main.from) /\ \A s \in {"logs", "block"} : SubInv(main, s, job[s])

RoutingInv == ForgeInv /\ \A s \in Slot : job[s] \notin {Idle, Crashed} => JobInv(job[s])

\* Logs are the same whether they come from the cache, filtered by this code and put
\* together by Chainblock, or from a remote - for filters that do not end with a
\* wildcard, and ranges that do not go from one tag to another.
FiltersAgree ==
    \A s \in Slot :
        LET j == job[s]
            topics == j.filter.topics
        IN  Answered(s) /\ j.method = "logs"
              /\ (Parse(j.from) >= 0 \/ Parse(j.from) = Parse(j.to))
              /\ (topics # <<>> => topics[Len(topics)] # {} /\ Null \notin topics[Len(topics)])
            => j.logs = {log \in UNION {LogsOf(n) : n \in j.blocks} : Documented(j.filter, log)}

-----------------------------------------------------------------------------
(* Claims that do not hold: README, "Refuted claims" *)

\* "maxLogRange is the max range for logs before they are ignored from the cache"
\* (cacher.go:43).
LogRangeIsBounded ==
    \A s \in Slot : job[s].pc = "store" => End(job[s]) - Start(job[s]) <= MaxLogRange

\* "prevents requests for blocks that are too old" (blockLookBack.go:17).
OnlyOldIsRefused ==
    [][\A s \in Slot : job[s].pc = "chain" /\ job'[s].pc = "refused" =>
          Parse(job[s].from) \in {Earliest} \cup 0..head - ChainLookback - 1]_vars

\* The same for `safe' to `pending', whose logs Chainblock drops.
TagRangesAgree ==
    \A s \in Slot : Answered(s) /\ job[s].method = "logs" /\ job[s].filter = NoFilter =>
        job[s].logs = UNION {LogsOf(n) : n \in job[s].blocks}

\* "Topics matches a prefix of that list" (filter.go:13), whatever the filter.
FiltersAlwaysAgree ==
    \A s \in Slot :
        Answered(s) /\ job[s].method = "logs" /\ Parse(job[s].from) >= 0 =>
        job[s].logs = {log \in UNION {LogsOf(n) : n \in job[s].blocks} : Documented(job[s].filter, log)}

\* Forged receipts of a block that one remote has and another does not.
ForgedIsAlwaysWhole ==
    Answered("main") /\ job["main"].method = "receipts" /\ ForgeBlockReceipts
      /\ Parse(job["main"].from) >= 0
    => job["main"].logs = job["main"].blocks

\* Receipts of the latest block, forged from two reads of the head.
ForgedLatestIsWhole ==
    Answered("main") /\ job["main"].method = "receipts" /\ ForgeBlockReceipts
      /\ job["main"].from.tag = "latest" /\ job["main"].came > 0 /\ ~job["main"].behind
    => job["main"].logs = job["main"].blocks

\* "Returned errors: - an invalid block number error when the given argument isn't
\* a known strings - an out of range error when the given block number is either
\* too little or too large" (rpc.go:58-60).
Valid(p) == p.tag \notin {"number", "other"} \/ (p.tag = "number" /\ p.value \in 0..MaxInt)
InvalidIsRefused == \A s \in Slot : Answered(s) => Valid(job[s].from)
=============================================================================
