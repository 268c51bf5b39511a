----------------------------- MODULE BlockCache -----------------------------
(***************************************************************************)
(* The block cache of the nodes: Cacher (svc/node/atoms/cacher) over       *)
(* SingleFlight over CompoundStore of LruStore (lib/stores/blockstore),    *)
(* Rediblock and Chainblock (svc/node/stores/vennstores).  A step is one   *)
(* redis command or script, one critical section of the LRU, or one call   *)
(* of the chain; flights of one node and of several interleave.            *)
(*                                                                         *)
(* A chain is the sequence of the forks its blocks belong to, from height  *)
(* 0: the hash of a block is <<height, fork>>.  Cached values are fixed by *)
(* type and hash, so an entry is what it is found by.                      *)
(***************************************************************************)
EXTENDS Naturals, Sequences, FiniteSets

CONSTANTS
    Node, Caller,
    Query,      \* what callers ask for: see ByNumber, ByHash, Tag
    MaxHeight, MaxFork,
    Quiet,      \* heights whose blocks have no logs and no receipts
    LruSize,
    MaxAsks     \* requests in one behaviour

ByNumber(typ, from, to) == [kind |-> "range", typ |-> typ, from |-> from, to |-> to]
ByHash(typ, hash) == [kind |-> "hash", typ |-> typ, hash |-> hash]
Tag == [kind |-> "tag", typ |-> "header"]

\* The fork of the blocks that are announced as pending and never mined.
Building == MaxFork + 1

\* The zero hash: that of a null block, and of the entries without a parent.
None == <<>>

\* Cacher asks for headers and receipts one number at a time, and never for
\* receipts by hash.  A range is not reversed, and fits in the LRU.
ASSUME BlockCacheAssumption ==
    /\ MaxHeight \in Nat \ {0} /\ MaxFork \in Nat
    /\ LruSize \in Nat /\ MaxAsks \in Nat
    /\ \A q \in Query :
         \/ q = Tag
         \/ /\ q.kind = "range" /\ q.typ \in {"header", "receipts", "logs"}
            /\ q.from \in Nat /\ q.to \in Nat /\ q.from <= q.to
            /\ q.typ # "logs" => q.from = q.to
            /\ q.to - q.from < LruSize
         \/ q.kind = "hash" /\ q.typ \in {"header", "logs"}

VARIABLES
    canon, lag,     \* the chain, and the one that remotes behind still answer from
    abandoned,      \* chains of earlier forks: their blocks are still known by hash
    lru,            \* per node: byNumber and byHash, sets of entries
    redis,          \* the same, shared
    call,           \* per caller: what it asked, whose flight it waits for, its answer
    flight,         \* per caller that started one: its flight
    asks            \* requests so far

chains == <<canon, lag, abandoned>>
vars == <<chains, lru, redis, call, flight, asks>>

Types == {"header", "receipts", "logs"}
BlockHash == ((0..MaxHeight) \X (0..MaxFork + 1)) \cup {None}
Entry == [typ : Types, number : 0..MaxHeight, hash : BlockHash]
Store == [byNumber : SUBSET Entry, byHash : SUBSET Entry]

\* An entry with what Put compares: its parent, if it is known.
Linked == [typ : Types, number : 0..MaxHeight, hash : BlockHash, parent : BlockHash]

Chain == {c \in Seq(0..MaxFork) : Len(c) \in 1..MaxHeight + 1}
Call == [at : {"idle", "error"}] \cup [at : {"wait"}, query : Query, lead : Caller]
            \cup [at : {"done"}, query : Query, answer : SUBSET Entry]
Landed == [pc : {"none"}]
Airborne == [pc : {"lru", "redis", "chain", "fill", "check", "keys", "del", "add"},
             node : Node, query : Query, found : SUBSET Linked,
             store : 0..2,              \* the one that had it: LRU, redis, chain
             remote : SUBSET Entry,     \* history: what a remote answered
             keys : SUBSET (Types \X (0..MaxHeight))]

TypeOK ==
    /\ canon \in Chain /\ lag \in Chain /\ abandoned \subseteq Chain
    /\ lru \in [Node -> Store] /\ redis \in Store
    /\ call \in [Caller -> Call] /\ flight \in [Caller -> Landed \cup Airborne]
    /\ asks \in 0..MaxAsks

-----------------------------------------------------------------------------
(* The chain *)

Mine ==
    /\ Len(canon) <= MaxHeight
    /\ lag' = canon /\ canon' = Append(canon, canon[Len(canon)])
    /\ UNCHANGED <<abandoned, lru, redis, call, flight, asks>>

\* All blocks from height k on are replaced by those of a new fork.
Reorg(k) ==
    LET fork == canon[Len(canon)] + 1
    IN  /\ fork <= MaxFork /\ k \in 1..Len(canon) - 1
        /\ lag' = canon /\ abandoned' = abandoned \cup {canon}
        /\ canon' = [i \in DOMAIN canon |-> IF i <= k THEN canon[i] ELSE fork]
        /\ UNCHANGED <<lru, redis, call, flight, asks>>

\* The last remote catches up.
Settle ==
    /\ lag # canon /\ lag' = canon
    /\ UNCHANGED <<canon, abandoned, lru, redis, call, flight, asks>>

Hash(chain, n) == <<n, chain[n + 1]>>
Parent(chain, n) == IF n = 0 THEN None ELSE Hash(chain, n - 1)
Heights(chain) == 0..Len(chain) - 1

Found(typ, chain, n) ==
    [typ |-> typ, number |-> n, hash |-> Hash(chain, n),
     parent |-> IF typ = "header" THEN Parent(chain, n) ELSE None]

\* getReceipts: of a block without transactions there is nothing to take the hash
\* from; nor of one without logs.
Empty(typ, n) == typ # "header" /\ n \in Quiet

\* Chainblock.Get: getBlockHeaders, getReceipts, getLogs.  What is not there is
\* no entries and no error; blocks without logs are left out of the answer.
Fetch(q, chain) ==
    LET numbers == IF q.kind = "range" THEN q.from..q.to
                   ELSE {n \in Heights(chain) : Hash(chain, n) = q.hash}
    IN  {Found(q.typ, chain, n) : n \in {m \in numbers \cap Heights(chain) : ~Empty(q.typ, m)}}

\* What a remote answers for a tag: the block at the top or one further down (safe,
\* finalized), nothing, or a block it is still building.
TagAnswer(chain) ==
    LET top == Len(chain) - 1
    IN  {Found("header", chain, n) : n \in Heights(chain)}
        \cup {[typ |-> "header", number |-> 0, hash |-> None, parent |-> None]}
        \cup IF top = MaxHeight THEN {}
             ELSE {[typ |-> "header", number |-> top + 1, hash |-> <<top + 1, Building>>,
                    parent |-> Hash(chain, top)]}

-----------------------------------------------------------------------------
(* LruStore, and the reading of Rediblock *)

Plain(e) == [typ |-> e.typ, number |-> e.number, hash |-> e.hash]

\* Variants: numbers that are missing are skipped; the range is off by one.
HitPartial(store, q) ==
    IF q.kind = "range"
    THEN {e \in store.byNumber : e.typ = q.typ /\ e.number \in q.from..q.to}
    ELSE {e \in store.byHash : e.typ = q.typ /\ e.hash = q.hash}

HitOff(store, q) ==
    IF q.kind = "range"
    THEN LET in == {e \in store.byNumber : e.typ = q.typ /\ e.number + 1 \in q.from..q.to}
         IN  IF Cardinality(in) = 1 + q.to - q.from THEN in ELSE {}
    ELSE {e \in store.byHash : e.typ = q.typ /\ e.hash = q.hash}

\* Get of LruStore: a range is found as a whole or not at all.
Hit(store, q) ==
    IF q.kind = "range"
    THEN LET in == {e \in store.byNumber : e.typ = q.typ /\ e.number \in q.from..q.to}
         IN  IF Cardinality(in) = 1 + q.to - q.from THEN in ELSE {}
    ELSE {e \in store.byHash : e.typ = q.typ /\ e.hash = q.hash}

\* The stored predecessor has another hash than the entry's parent.
Reorganised(store, entries) ==
    \E e \in entries : e.parent # None /\ \E p \in store.byNumber :
        p.typ = e.typ /\ p.number + 1 = e.number /\ p.hash # e.parent

Indexed(index, entries) ==
    {o \in index : \A e \in entries : o.typ # e.typ \/ o.number # e.number}
        \cup {Plain(e) : e \in entries}

\* An LRU of LruSize places; which of the old entries have to go is left open.
Trimmed(index, entries) ==
    {kept \in SUBSET index :
        /\ {Plain(e) : e \in entries} \subseteq kept
        /\ Cardinality(kept) = IF Cardinality(index) <= LruSize THEN Cardinality(index)
                               ELSE LruSize}

\* LruStore.Put.  A purge hits the entries of all types.
LruPut(node, entries) ==
    LET old == lru[node]
        kept == IF Reorganised(old, entries) THEN {} ELSE old.byNumber
    IN  \E number \in Trimmed(Indexed(kept, entries), entries),
           hash \in Trimmed(old.byHash \cup {Plain(e) : e \in entries}, entries) :
            lru' = [lru EXCEPT ![node] = [byNumber |-> number, byHash |-> hash]]

-----------------------------------------------------------------------------
(* Callers and flights *)

Flying(c) == flight[c].pc # "none"
Go(c, pc) == flight' = [flight EXCEPT ![c].pc = pc]

\* SingleFlight.Get: a caller starts a flight or joins the one of the same
\* query; a tag is no concern of the store before it is answered.
Ask(c, node, q) ==
    /\ asks < MaxAsks /\ asks' = asks + 1
    /\ call[c].at # "wait" /\ ~Flying(c)
    /\ LET same == {l \in Caller : Flying(l) /\ q # Tag /\ flight[l].node = node /\ flight[l].query = q}
           lead == IF same = {} THEN c ELSE CHOOSE l \in same : TRUE
       IN  /\ call' = [call EXCEPT ![c] = [at |-> "wait", query |-> q, lead |-> lead]]
           /\ IF lead # c THEN UNCHANGED flight
              ELSE flight' = [flight EXCEPT ![c] =
                       [pc |-> IF q = Tag THEN "chain" ELSE "lru", node |-> node, query |-> q,
                        found |-> {}, store |-> 0, remote |-> {}, keys |-> {}]]
    /\ UNCHANGED <<chains, lru, redis>>

\* The client goes away.  The flight it started lives on without a context.
Leave(c) ==
    /\ call[c].at = "wait"
    /\ call' = [call EXCEPT ![c] = [at |-> "idle"]]
    /\ UNCHANGED <<chains, lru, redis, flight, asks>>

\* A flight has the context of the caller who started it, whoever else waits.
Cancelled(c) == Flying(c) /\ call[c].at # "wait"

Receive(d, ok, entries) ==
    IF ok THEN [at |-> "done", query |-> call[d].query, answer |-> {Plain(e) : e \in entries}]
    ELSE [at |-> "error"]

\* Variant: those who joined a flight that fails are forgotten.
FinishLeader(c, ok, entries) ==
    /\ flight' = [flight EXCEPT ![c] = [pc |-> "none"]]
    /\ call' = [d \in Caller |->
           IF call[d].at = "wait" /\ call[d].lead = c /\ (ok \/ d = c)
           THEN Receive(d, ok, entries) ELSE call[d]]

\* The flight lands: all who wait for it get the entries, or the error.
Finish(c, ok, entries) ==
    /\ flight' = [flight EXCEPT ![c] = [pc |-> "none"]]
    /\ call' = [d \in Caller |->
           IF call[d].at = "wait" /\ call[d].lead = c
           THEN Receive(d, ok, entries) ELSE call[d]]

-----------------------------------------------------------------------------
(* CompoundStore.Get, step by step *)

LruGet(c) ==
    /\ flight[c].pc = "lru"
    /\ LET hit == Hit(lru[flight[c].node], flight[c].query)
       IN  IF hit # {} THEN Finish(c, TRUE, hit) ELSE Go(c, "redis") /\ UNCHANGED call
    /\ UNCHANGED <<chains, lru, redis, asks>>

\* Rediblock.Get: a pipeline is no transaction, others come in between two of its
\* numbers (the two keys of one number are read together here).  Entries from
\* redis have no parent.
RedisGet(c) ==
    LET q == flight[c].query
        n == q.from + Cardinality(flight[c].found)
        hit == Hit(redis, IF q.kind = "range" THEN ByNumber(q.typ, n, n) ELSE q)
        more == q.kind = "range" /\ n < q.to
    IN  /\ flight[c].pc = "redis" /\ ~Cancelled(c)
        /\ flight' = [flight EXCEPT
               ![c].pc = IF hit = {} THEN "chain" ELSE IF more THEN "redis" ELSE "fill",
               ![c].store = 1,
               ![c].found = IF hit = {} THEN {}
                            ELSE @ \cup {[typ |-> e.typ, number |-> e.number, hash |-> e.hash,
                                          parent |-> None] : e \in hit}]
        /\ UNCHANGED <<chains, lru, redis, call, asks>>

\* An error of redis, or of the context, is a miss.
RedisGetFails(c) ==
    /\ flight[c].pc = "redis"
    /\ flight' = [flight EXCEPT ![c].pc = "chain", ![c].found = {}]
    /\ UNCHANGED <<chains, lru, redis, call, asks>>

\* A remote has the chain or is behind, and knows abandoned blocks by their hashes.
Answering(q) == {canon, lag} \cup IF q.kind = "hash" THEN abandoned ELSE {}

ChainGet(c) ==
    /\ flight[c].pc = "chain" /\ ~Cancelled(c)
    /\ \E chain \in Answering(flight[c].query) : \E found \in
           IF flight[c].query = Tag THEN {{e} : e \in TagAnswer(chain)}
           ELSE {Fetch(flight[c].query, chain)} :
           flight' = [flight EXCEPT ![c].pc = "fill", ![c].store = 2, ![c].found = found,
                                    ![c].remote = {Plain(e) : e \in found}]
    /\ UNCHANGED <<chains, lru, redis, call, asks>>

ChainFails(c) ==
    /\ flight[c].pc = "chain" /\ Finish(c, FALSE, {})
    /\ UNCHANGED <<chains, lru, redis, asks>>

\* Variant: the bound of the loop is <=.
EarlierOrSame(i) == {j \in 0..2 : j <= i}

\* What a store had goes to those before it.
Earlier(i) == {j \in 0..2 : j < i}

\* Put in the LRU comes first, then in redis.
Fill(c) ==
    LET entries == flight[c].found
    IN  /\ flight[c].pc = "fill"
        /\ LruPut(flight[c].node, entries)
        /\ IF 1 \in Earlier(flight[c].store)
           THEN /\ Go(c, IF \E e \in entries : e.typ = "header" THEN "check" ELSE "add")
                /\ UNCHANGED call
           ELSE Finish(c, TRUE, entries)
        /\ UNCHANGED <<chains, redis, asks>>

\* Rediblock.Put: the scripts and the two commands of reorg.
Check(c) ==
    /\ flight[c].pc = "check" /\ ~Cancelled(c)
    /\ Go(c, IF Reorganised(redis, flight[c].found) THEN "keys" ELSE "add")
    /\ UNCHANGED <<chains, lru, redis, call, asks>>

Keys(c) ==
    /\ flight[c].pc = "keys" /\ ~Cancelled(c)
    /\ flight' = [flight EXCEPT ![c].pc = "del",
           ![c].keys = {<<e.typ, e.number>> : e \in redis.byNumber}]
    /\ UNCHANGED <<chains, lru, redis, call, asks>>

\* DEL without keys is an error.
Del(c) ==
    /\ flight[c].pc = "del" /\ ~Cancelled(c)
    /\ IF flight[c].keys = {}
       THEN Finish(c, FALSE, {}) /\ UNCHANGED redis
       ELSE /\ redis' = [redis EXCEPT !.byNumber =
                    {e \in @ : <<e.typ, e.number>> \notin flight[c].keys}]
            /\ Go(c, "add") /\ UNCHANGED call
    /\ UNCHANGED <<chains, lru, asks>>

\* The answer may be lost on its way.
Add(c) ==
    /\ flight[c].pc = "add" /\ ~Cancelled(c)
    /\ redis' = [byNumber |-> Indexed(redis.byNumber, flight[c].found),
                 byHash |-> redis.byHash \cup {Plain(e) : e \in flight[c].found}]
    /\ \E ok \in BOOLEAN : Finish(c, ok, IF ok THEN flight[c].found ELSE {})
    /\ UNCHANGED <<chains, lru, asks>>

\* What was found is not answered when a store fails to keep it.
RedisPutFails(c) ==
    /\ flight[c].pc \in {"check", "keys", "del", "add"}
    /\ Finish(c, FALSE, {})
    /\ UNCHANGED <<chains, lru, redis, asks>>

\* The keys of an entry are set with one time to live, of a second to an hour;
\* nothing here depends on how long exactly.
Expire ==
    /\ \E e \in redis.byHash :
           redis' = [byNumber |-> redis.byNumber \ {e}, byHash |-> redis.byHash \ {e}]
    /\ UNCHANGED <<chains, lru, call, flight, asks>>

Step(c) ==
    \/ LruGet(c) \/ RedisGet(c) \/ RedisGetFails(c)
    \/ ChainGet(c) \/ ChainFails(c) \/ Fill(c)
    \/ Check(c) \/ Keys(c) \/ Del(c) \/ Add(c) \/ RedisPutFails(c)

\* Nodes start empty, redis with what others may have left there.
Init ==
    /\ canon = <<0, 0>> /\ lag = <<0, 0>> /\ abandoned = {}
    /\ lru = [n \in Node |-> [byNumber |-> {}, byHash |-> {}]]
    /\ \E kept \in SUBSET {Plain(Found(typ, canon, 1)) : typ \in {"header", "logs"}} :
           redis = [byNumber |-> kept, byHash |-> kept]
    /\ call = [c \in Caller |-> [at |-> "idle"]]
    /\ flight = [c \in Caller |-> [pc |-> "none"]]
    /\ asks = 0

Next ==
    \/ Mine \/ Settle \/ Expire \/ \E k \in 1..MaxHeight : Reorg(k)
    \/ \E c \in Caller :
         Leave(c) \/ Step(c) \/ \E n \in Node, q \in Query : Ask(c, n, q)

Spec == Init /\ [][Next]_vars

-----------------------------------------------------------------------------
(* Properties *)

Done(c) == call[c].at = "done"

\* Whatever flight a caller joined and whichever store had the entries, they are
\* the ones it asked for: of its heights, or with its hash, and one per height
\* (keys of redis carry the number or the hash, the other half of an entry comes
\* from its own key or from the position in the answer).
AnswerFits ==
    \A c \in Caller : Done(c) => \A e \in call[c].answer :
        /\ call[c].query.kind = "range" => e.number \in call[c].query.from..call[c].query.to
        /\ call[c].query.kind = "hash" => e.hash = call[c].query.hash
        /\ e.hash # None => e.hash[1] = e.number
        /\ \A f \in call[c].answer : f.number = e.number => f = e

\* Logs of a range have no hole: blocks without logs are never cached, entries of
\* one range are evicted and expire one by one, and still a cache that has only
\* some of the blocks does not answer for the range (LruStore.Get, Rediblock.Get).
NoHoleInLogs ==
    \A c \in Caller :
        Done(c) /\ call[c].query.kind = "range" /\ call[c].query.typ = "logs" =>
            \A e \in call[c].answer : \A n \in call[c].query.from..e.number :
                n \in Quiet \/ \E f \in call[c].answer : f.number = n

\* Nobody waits for a flight that is over: one that fails, or whose first caller
\* has gone, lands for all who joined it (SingleFlight.Get).
NobodyIsForgotten == \A c \in Caller : call[c].at = "wait" => Flying(call[c].lead)

\* The inductive invariant behind these.  An index has one entry per type and number,
\* and a hash is of its number; what a flight has found is part of the answer to its
\* query at every step, from redis the blocks from the first on without a gap; it goes
\* on to redis only with what a remote has answered; and who waits for a flight asked
\* for the same.
Sound(e) == IF e.hash = None THEN e.number = 0 ELSE e.hash[1] = e.number

StoreInv(store) ==
    /\ \A e \in store.byNumber \cup store.byHash : Sound(e)
    /\ \A e, f \in store.byNumber :
         e.typ = f.typ /\ e.number = f.number => e.hash = f.hash

Fits(q, entries) ==
    /\ \A e \in entries :
         /\ e.typ = q.typ /\ Sound(e)
         /\ q.kind = "range" => e.number \in q.from..q.to
         /\ q.kind = "hash" => e.hash = q.hash
    /\ \A e, f \in entries : e.number = f.number => e.hash = f.hash

NoHole(q, entries) ==
    q.kind = "range" => \A e \in entries : \A n \in q.from..e.number :
        n \in Quiet \/ \E f \in entries : f.number = n

Numbers(entries) == {e.number : e \in entries}

FlightInv(f) ==
    /\ Fits(f.query, f.found) /\ NoHole(f.query, f.found)
    /\ f.query.kind = "tag" => f.pc \in {"chain", "fill", "check", "keys", "del", "add"}
    /\ f.pc = "lru" => f.found = {}
    /\ f.pc = "fill" => f.store \in {1, 2}
    /\ f.pc \in {"check", "keys", "del", "add"} => f.store = 2
    /\ f.pc \in {"fill", "check", "keys", "del", "add"} /\ f.store = 2 =>
         f.remote = {Plain(e) : e \in f.found}
    /\ f.pc = "redis" /\ f.query.kind = "range" =>
         /\ IsFiniteSet(f.found) /\ f.query.from + Cardinality(f.found) <= f.query.to
         /\ Numbers(f.found) = f.query.from..f.query.from + Cardinality(f.found) - 1

StoresInv == StoreInv(redis) /\ \A n \in Node : StoreInv(lru[n])

CallersInv ==
    \A c \in Caller :
        /\ Flying(c) => FlightInv(flight[c])
        /\ Done(c) => Fits(call[c].query, call[c].answer) /\ NoHole(call[c].query, call[c].answer)
        /\ call[c].at = "wait" => /\ Flying(call[c].lead)
                                  /\ flight[call[c].lead].query = call[c].query

CacheInv == StoresInv /\ CallersInv

OnChain(chain) == {Hash(chain, n) : n \in Heights(chain)}

\* Only remotes bring entries to redis: what appears there, in either index, a remote
\* has answered to a flight that is still under way.  What nodes read from redis, and
\* keep in their LRUs, they never write back, so that an abandoned block which was
\* deleted, or has expired, while they had it does not come back by them (the bound
\* of the back-fill loop of CompoundStore.Get).
StaleIsNotRevived ==
    [][\A e \in (redis'.byNumber \ redis.byNumber) \cup (redis'.byHash \ redis.byHash) :
          \E c \in Caller : Flying(c) /\ e \in flight[c].remote]_vars

-----------------------------------------------------------------------------
(* Claims that do not hold: README, "Refuted claims" *)

\* "the only reason blk should be nil is if merr is not nil" (compound.go:74).
EmptyMeansError == \A c \in Caller : Done(c) => call[c].answer # {}

\* A node that knows a block of the new fork has forgotten the abandoned parent.
ReorgIsNoticed ==
    \A n \in Node : \A p, e \in lru[n].byNumber :
        /\ p.typ = "header" /\ e.typ = "header" /\ p.number + 1 = e.number
        /\ e.hash \in OnChain(canon)
        => p.hash \in OnChain(canon)
=============================================================================
