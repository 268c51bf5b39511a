-------------------------- MODULE BlockCacheProofs --------------------------
(***************************************************************************)
(* Proofs about BlockCache, for any nodes, callers, queries, forks and     *)
(* sizes: an answer is what was asked for, logs of a range have no hole,   *)
(* every caller is answered, and stale blocks do not come back.            *)
(***************************************************************************)
EXTENDS BlockCache, FiniteSetTheorems, TLAPS

USE BlockCacheAssumption

LEMMA PairIsNotNone == \A a, b : <<a, b>> # None
<1> SUFFICES ASSUME NEW a, NEW b, <<a, b>> = <<>> PROVE FALSE
  BY DEF None
<1>1. DOMAIN <<a, b>> = 1..2
  OBVIOUS
<1> QED
  BY <1>1

\* A query for a range has its bounds; what is no range and no tag is for a hash.
LEMMA QueryKinds ==
  ASSUME NEW q \in Query
  PROVE  /\ q.kind \in {"range", "hash", "tag"} /\ q.typ \in Types
         /\ q.kind = "range" => q.from \in Nat /\ q.to \in Nat /\ q.from <= q.to
         /\ q.kind = "tag" <=> q = Tag
BY DEF Tag, Types

\* What a remote has on its chain is typed, and carries the hash of its height.
LEMMA FoundIsSound ==
  ASSUME NEW chain \in Chain, NEW typ \in Types, NEW n \in Heights(chain)
  PROVE  Found(typ, chain, n) \in Linked /\ Sound(Found(typ, chain, n))
<1>1. n \in 0..MaxHeight /\ n + 1 \in 1..Len(chain) /\ chain[n + 1] \in 0..MaxFork
  BY DEF Heights, Chain
<1>2. Hash(chain, n) \in BlockHash
  BY <1>1 DEF Hash, BlockHash
<1>3. Parent(chain, n) \in BlockHash
  <2>1. CASE n = 0
    BY <2>1 DEF Parent, BlockHash
  <2>2. CASE n # 0
    <3>1. n - 1 \in 0..MaxHeight /\ (n - 1) + 1 = n /\ n \in 1..Len(chain)
      BY <1>1, <2>2 DEF Chain
    <3>2. chain[n] \in 0..MaxFork
      BY <3>1 DEF Chain
    <3> QED
      BY <2>2, <3>1, <3>2 DEF Parent, Hash, BlockHash
  <2> QED
    BY <2>1, <2>2
<1>4. None \in BlockHash
  BY DEF BlockHash
<1> QED
  BY <1>1, <1>2, <1>3, <1>4, PairIsNotNone DEF Found, Linked, Sound, Hash

\* The answer of a remote to a query fits it, and leaves out quiet blocks only.
LEMMA FetchFits ==
  ASSUME NEW chain \in Chain, NEW q \in Query, q # Tag
  PROVE  /\ Fetch(q, chain) \subseteq Linked
         /\ Fits(q, Fetch(q, chain)) /\ NoHole(q, Fetch(q, chain))
<1> DEFINE numbers == IF q.kind = "range" THEN q.from..q.to
                      ELSE {n \in Heights(chain) : Hash(chain, n) = q.hash}
           there == {m \in numbers \cap Heights(chain) : ~Empty(q.typ, m)}
<1>1. Fetch(q, chain) = {Found(q.typ, chain, n) : n \in there}
  BY DEF Fetch
<1>2. ASSUME NEW n \in there
      PROVE  /\ Found(q.typ, chain, n) \in Linked /\ Sound(Found(q.typ, chain, n))
             /\ Found(q.typ, chain, n).typ = q.typ
             /\ Found(q.typ, chain, n).number = n
             /\ Found(q.typ, chain, n).hash = Hash(chain, n)
  BY QueryKinds, FoundIsSound DEF Found
<1>3. Fits(q, Fetch(q, chain))
  <2>1. q.kind \in {"range", "hash"}
    BY QueryKinds
  <2> SUFFICES /\ \A n \in there : /\ q.kind = "range" => n \in q.from..q.to
                                   /\ q.kind = "hash" => Hash(chain, n) = q.hash
    BY <1>1, <1>2 DEF Fits
  <2> QED
    BY <2>1
<1>4. NoHole(q, Fetch(q, chain))
  <2> SUFFICES ASSUME q.kind = "range", NEW m \in there, NEW n \in q.from..m, n \notin Quiet
               PROVE  n \in there
    BY <1>1, <1>2 DEF NoHole
  <2>1. m \in q.from..q.to /\ m \in Heights(chain) /\ q.from \in Nat /\ q.to \in Nat
    BY QueryKinds
  <2>2. n \in q.from..q.to /\ n \in Heights(chain)
    BY <2>1 DEF Heights, Chain
  <2> QED
    BY <2>2 DEF Empty
<1> QED
  BY <1>1, <1>2, <1>3, <1>4

LEMMA TagFits ==
  ASSUME NEW chain \in Chain, NEW e \in TagAnswer(chain)
  PROVE  {e} \subseteq Linked /\ Fits(Tag, {e}) /\ NoHole(Tag, {e})
<1> DEFINE top == Len(chain) - 1
<1>1. top \in 0..MaxHeight /\ top \in Heights(chain) /\ chain[top + 1] \in 0..MaxFork
  BY DEF Chain, Heights
<1>2. "header" \in Types /\ None \in BlockHash
  BY DEF Types, BlockHash
<1>3. e \in Linked /\ Sound(e) /\ e.typ = "header"
  <2>1. ASSUME NEW n \in Heights(chain), e = Found("header", chain, n)
        PROVE  e \in Linked /\ Sound(e) /\ e.typ = "header"
    BY <1>2, <2>1, FoundIsSound DEF Found
  <2>2. CASE e = [typ |-> "header", number |-> 0, hash |-> None, parent |-> None]
    BY <1>2, <2>2 DEF Linked, Sound
  <2>3. CASE top # MaxHeight /\ e = [typ |-> "header", number |-> top + 1,
                                     hash |-> <<top + 1, Building>>, parent |-> Hash(chain, top)]
    <3>1. top + 1 \in 0..MaxHeight /\ Building \in 0..MaxFork + 1
      BY <1>1, <2>3 DEF Building
    <3>2. <<top + 1, Building>> \in BlockHash /\ Hash(chain, top) \in BlockHash
      BY <1>1, <3>1 DEF BlockHash, Hash
    <3> QED
      BY <1>2, <2>3, <3>1, <3>2, PairIsNotNone DEF Linked, Sound
  <2> QED
    BY <2>1, <2>2, <2>3 DEF TagAnswer
<1> QED
  BY <1>3 DEF Fits, NoHole, Tag

\* An index has at most one entry per number, so that it has as many entries of a
\* range as the range has numbers only if it has one of each.
LEMMA HitIsWhole ==
  ASSUME NEW store \in Store, StoreInv(store), NEW q, q.kind = "range",
         q.from \in Nat, q.to \in Nat, q.from <= q.to, Hit(store, q) # {}
  PROVE  Numbers(Hit(store, q)) = q.from..q.to
<1> DEFINE in == {e \in store.byNumber : e.typ = q.typ /\ e.number \in q.from..q.to}
           f == [e \in in |-> e.number]
<1>1. Hit(store, q) = in /\ Cardinality(in) = 1 + q.to - q.from
  BY DEF Hit
<1>2. ASSUME NEW d \in in, NEW e \in in, d.number = e.number PROVE d = e
  <2>1. d \in Entry /\ e \in Entry /\ d.hash = e.hash /\ d.typ = e.typ
    BY <1>2 DEF Store, StoreInv
  <2> QED
    BY <1>2, <2>1 DEF Entry
<1>3. f \in Injection(in, q.from..q.to)
  BY <1>2 DEF Injection, IsInjective
<1>4. IsFiniteSet(q.from..q.to) /\ Cardinality(q.from..q.to) = q.to - q.from + 1
  <2>1. ASSUME NEW a \in Nat, NEW b \in Nat, a <= b
        PROVE  IsFiniteSet(a..b) /\ Cardinality(a..b) = b - a + 1
    <3>1. a \in Int /\ b \in Int /\ ~(a > b)
      BY <2>1
    <3> QED
      BY <3>1, FS_Interval
  <2> QED
    BY <2>1
<1>5. Cardinality(in) = Cardinality(q.from..q.to)
  BY <1>1, <1>4
<1> HIDE DEF f, in
<1>6. f \in Surjection(in, q.from..q.to)
  BY <1>3, <1>4, <1>5, FS_Injection
<1>7. /\ \A e \in in : e.number \in q.from..q.to
      /\ \A n \in q.from..q.to : \E e \in in : e.number = n
  BY <1>6 DEF f, in, Surjection
<1> QED
  BY <1>1, <1>7 DEF Numbers

\* What a store answers fits the query.
LEMMA HitFits ==
  ASSUME NEW store \in Store, StoreInv(store), NEW q,
         \/ q.kind = "hash"
         \/ q.kind = "range" /\ q.from \in Nat /\ q.to \in Nat /\ q.from <= q.to
  PROVE  /\ Hit(store, q) \subseteq Entry
         /\ Fits(q, Hit(store, q)) /\ NoHole(q, Hit(store, q))
<1>1. Hit(store, q) \subseteq Entry
  BY DEF Hit, Store
<1>2. Fits(q, Hit(store, q))
  BY DEF Fits, Hit, StoreInv
<1>3. ASSUME q.kind = "range", Hit(store, q) # {} PROVE NoHole(q, Hit(store, q))
  <2> SUFFICES ASSUME NEW e \in Hit(store, q), NEW n \in q.from..e.number
               PROVE  \E f \in Hit(store, q) : f.number = n
    BY DEF NoHole
  <2>1. e.number \in q.from..q.to
    BY <1>2, <1>3 DEF Fits
  <2>2. n \in q.from..q.to
    BY <1>3, <2>1
  <2> QED
    BY <1>3, <2>2, HitIsWhole DEF Numbers
<1> QED
  BY <1>1, <1>2, <1>3 DEF NoHole

\* What an index is after entries that fit a query were put in it.
LEMMA IndexedIsSound ==
  ASSUME NEW index \in SUBSET Entry, \A e \in index : Sound(e),
         \A e, f \in index : e.typ = f.typ /\ e.number = f.number => e.hash = f.hash,
         NEW q, NEW entries \in SUBSET Linked, Fits(q, entries)
  PROVE  /\ Indexed(index, entries) \subseteq Entry
         /\ \A e \in Indexed(index, entries) : Sound(e)
         /\ \A e, f \in Indexed(index, entries) :
              e.typ = f.typ /\ e.number = f.number => e.hash = f.hash
<1>1. ASSUME NEW e \in entries
      PROVE  /\ Plain(e) \in Entry /\ Sound(Plain(e))
             /\ Plain(e).typ = e.typ /\ Plain(e).number = e.number /\ Plain(e).hash = e.hash
  <2>1. Sound(e) /\ e \in Linked
    BY DEF Fits
  <2> QED
    BY <2>1 DEF Plain, Entry, Linked, Sound
<1>2. \A e, f \in entries : e.number = f.number => e.hash = f.hash
  BY DEF Fits
<1> QED
  BY <1>1, <1>2 DEF Indexed

\* The stores after LruPut, and after the script of Rediblock.Put.
LEMMA LruPutKeeps ==
  ASSUME lru \in [Node -> Store], StoresInv, NEW node \in Node, NEW q,
         NEW entries \in SUBSET Linked, Fits(q, entries), LruPut(node, entries)
  PROVE  lru' \in [Node -> Store] /\ \A n \in Node : StoreInv(lru'[n])
<1> DEFINE old == lru[node]
           kept == IF Reorganised(old, entries) THEN {} ELSE old.byNumber
           plain == {Plain(e) : e \in entries}
<1>1. old \in Store /\ StoreInv(old)
  BY DEF StoresInv
<1>2. PICK number \in Trimmed(Indexed(kept, entries), entries),
           hash \in Trimmed(old.byHash \cup plain, entries) :
             lru' = [lru EXCEPT ![node] = [byNumber |-> number, byHash |-> hash]]
  BY DEF LruPut
<1>3. number \subseteq Indexed(kept, entries) /\ hash \subseteq old.byHash \cup plain
  BY DEF Trimmed
<1>4. /\ kept \subseteq Entry /\ \A e \in kept : Sound(e)
      /\ \A e, f \in kept : e.typ = f.typ /\ e.number = f.number => e.hash = f.hash
  BY <1>1 DEF Store, StoreInv
<1>5. /\ number \subseteq Entry /\ \A e \in number : Sound(e)
      /\ \A e, f \in number : e.typ = f.typ /\ e.number = f.number => e.hash = f.hash
  <2> HIDE DEF kept
  <2> QED
    BY <1>3, <1>4, IndexedIsSound
<1>6. plain \subseteq Entry /\ \A e \in plain : Sound(e)
  BY DEF Fits, Plain, Entry, Linked, Sound
<1>7. hash \subseteq Entry /\ \A e \in hash : Sound(e)
  <2> HIDE DEF plain
  <2> QED
    BY <1>1, <1>3, <1>6 DEF Store, StoreInv
<1>8. [byNumber |-> number, byHash |-> hash] \in Store
      /\ StoreInv([byNumber |-> number, byHash |-> hash])
  BY <1>5, <1>7 DEF Store, StoreInv
<1> QED
  BY <1>2, <1>8 DEF StoresInv

\* A flight that goes on, with what fits its query, forgets nobody.
LEMMA FlightMoves ==
  ASSUME TypeOK, CallersInv, NEW c \in Caller, NEW f \in Airborne, Flying(c),
         FlightInv(f), f.query = flight[c].query,
         flight' = [flight EXCEPT ![c] = f], UNCHANGED call
  PROVE  flight' \in [Caller -> Landed \cup Airborne] /\ CallersInv'
<1>1. f.pc # "none"
  BY DEF Airborne
<1>2. flight'[c] = f /\ \A d \in Caller \ {c} : flight'[d] = flight[d]
  BY DEF TypeOK
<1>3. \A d \in Caller : call[d].at = "wait" => call[d].lead \in Caller
  BY DEF TypeOK, Call
<1>4. ASSUME NEW d \in Caller
      PROVE  /\ Flying(d)' => FlightInv(flight'[d])
             /\ Done(d)' => Fits(call'[d].query, call'[d].answer) /\ NoHole(call'[d].query, call'[d].answer)
             /\ call'[d].at = "wait" => /\ Flying(call[d].lead)'
                                        /\ flight'[call[d].lead].query = call[d].query
  BY <1>1, <1>2, <1>3 DEF CallersInv, Flying, Done
<1> QED
  BY <1>4 DEF TypeOK, CallersInv

\* A flight that lands answers those who wait for it with what it found.
LEMMA FlightLands ==
  ASSUME TypeOK, CallersInv, NEW c \in Caller, Flying(c), NEW ok \in BOOLEAN, NEW entries,
         ok => /\ entries \subseteq Entry \/ entries \subseteq Linked
               /\ Fits(flight[c].query, entries) /\ NoHole(flight[c].query, entries),
         Finish(c, ok, entries)
  PROVE  /\ flight' \in [Caller -> Landed \cup Airborne] /\ call' \in [Caller -> Call]
         /\ CallersInv'
<1> DEFINE plain == {Plain(e) : e \in entries}
<1>1. /\ flight'[c] = [pc |-> "none"] /\ \A d \in Caller \ {c} : flight'[d] = flight[d]
      /\ flight' \in [Caller -> Landed \cup Airborne]
  BY DEF TypeOK, Finish, Landed
<1>2. ASSUME ok
      PROVE  /\ plain \subseteq Entry
             /\ Fits(flight[c].query, plain) /\ NoHole(flight[c].query, plain)
  <2>1. ASSUME NEW e \in entries
        PROVE  /\ Plain(e) \in Entry /\ Plain(e).typ = e.typ
               /\ Plain(e).number = e.number /\ Plain(e).hash = e.hash
    BY <1>2 DEF Plain, Entry, Linked
  <2>2. plain \subseteq Entry
    BY <2>1
  <2>3. Fits(flight[c].query, plain)
    BY <1>2, <2>1 DEF Fits, Sound
  <2>4. NoHole(flight[c].query, plain)
    BY <1>2, <2>1 DEF NoHole
  <2> QED
    BY <2>2, <2>3, <2>4
<1> HIDE DEF plain
<1>3. ASSUME NEW d \in Caller, call[d].at = "wait", call[d].lead = c
      PROVE  /\ call'[d] \in Call /\ call'[d].at # "wait"
             /\ Done(d)' => Fits(call'[d].query, call'[d].answer) /\ NoHole(call'[d].query, call'[d].answer)
  <2>1. call[d].query \in Query /\ call[d].query = flight[c].query
    BY <1>3 DEF TypeOK, Call, CallersInv
  <2>2. call'[d] = IF ok THEN [at |-> "done", query |-> call[d].query, answer |-> plain]
                   ELSE [at |-> "error"]
    BY <1>3 DEF Finish, Receive, plain
  <2> QED
    BY <1>2, <2>1, <2>2 DEF Call, Done
<1>4. ASSUME NEW d \in Caller, ~(call[d].at = "wait" /\ call[d].lead = c)
      PROVE  /\ call'[d] = call[d] /\ call'[d] \in Call
             /\ call[d].at = "wait" => call[d].lead \in Caller \ {c}
  BY <1>4 DEF Finish, TypeOK, Call
<1>5. call' \in [Caller -> Call]
  BY <1>3, <1>4 DEF Finish
<1>6. ASSUME NEW d \in Caller
      PROVE  /\ Flying(d)' => FlightInv(flight'[d])
             /\ Done(d)' => Fits(call'[d].query, call'[d].answer) /\ NoHole(call'[d].query, call'[d].answer)
             /\ call'[d].at = "wait" => /\ Flying(call[d].lead)'
                                        /\ flight'[call'[d].lead].query = call'[d].query
  <2>1. Flying(d)' => FlightInv(flight'[d])
    BY <1>1 DEF CallersInv, Flying
  <2>2. CASE call[d].at = "wait" /\ call[d].lead = c
    BY <1>3, <2>1, <2>2
  <2>3. CASE ~(call[d].at = "wait" /\ call[d].lead = c)
    BY <1>1, <1>4, <2>1, <2>3 DEF CallersInv, Flying, Done
  <2> QED
    BY <2>2, <2>3
<1> QED
  BY <1>1, <1>5, <1>6 DEF CallersInv

\* The label of a flight, and what the invariant says of one.
LEMMA FlightOf ==
  ASSUME TypeOK, CallersInv, NEW c \in Caller, flight[c].pc # "none"
  PROVE  /\ flight[c] \in Airborne /\ Flying(c) /\ FlightInv(flight[c])
         /\ flight[c].node \in Node /\ flight[c].query \in Query
         /\ flight[c].found \subseteq Linked
BY DEF TypeOK, Landed, Airborne, CallersInv, Flying

\* A flight that only changes its label, beyond the lookup in redis.
LEMMA FlightGoes ==
  ASSUME TypeOK, CallersInv, NEW c \in Caller, Flying(c), UNCHANGED call,
         NEW pc \in {"check", "keys", "del", "add"}, Go(c, pc),
         flight[c].pc \in {"fill", "check", "keys", "del", "add"}, flight[c].store = 2
  PROVE  flight' \in [Caller -> Landed \cup Airborne] /\ CallersInv'
<1> DEFINE f == [flight[c] EXCEPT !.pc = pc]
<1>1. flight[c] \in Airborne /\ FlightInv(flight[c])
  BY FlightOf DEF Flying
<1>2. /\ f \in Airborne /\ f.query = flight[c].query /\ f.found = flight[c].found /\ f.pc = pc
      /\ f.store = 2 /\ f.remote = flight[c].remote
  BY <1>1 DEF Airborne
<1>3. flight' = [flight EXCEPT ![c] = f]
  BY DEF Go
<1> HIDE DEF f
<1>4. FlightInv(f)
  BY <1>1, <1>2 DEF FlightInv
<1> QED
  BY <1>2, <1>3, <1>4, FlightMoves

\* A flight with what a store had, or a remote answered.
Has(g, pc, store, found) == [g EXCEPT !.pc = pc, !.store = store, !.found = found]
Answered(g, found, remote) == [Has(g, "fill", 2, found) EXCEPT !.remote = remote]

LEMMA FlightHas ==
  ASSUME NEW g \in Airborne, NEW pc \in {"redis", "chain", "fill"}, NEW found \in SUBSET Linked,
         NEW store \in 0..2
  PROVE  LET f == Has(g, pc, store, found)
         IN  /\ f \in Airborne /\ f.pc = pc /\ f.found = found /\ f.store = store
             /\ f.query = g.query
<1> DEFINE f1 == [g EXCEPT !.pc = pc]
           f2 == [f1 EXCEPT !.store = store]
           f3 == [f2 EXCEPT !.found = found]
<1>1. f1 \in Airborne /\ f1.pc = pc /\ f1.query = g.query
  BY DEF Airborne
<1> HIDE DEF f1
<1>2. f2 \in Airborne /\ f2.pc = pc /\ f2.query = g.query /\ f2.store = store
  BY <1>1 DEF Airborne
<1> HIDE DEF f2
<1>3. f3 \in Airborne /\ f3.pc = pc /\ f3.query = g.query /\ f3.store = store /\ f3.found = found
  BY <1>2 DEF Airborne
<1>4. f3 = Has(g, pc, store, found)
  BY DEF f1, f2, Has
<1> HIDE DEF f3
<1> QED
  BY <1>3, <1>4

LEMMA FlightAnswered ==
  ASSUME NEW g \in Airborne, NEW found \in SUBSET Linked, NEW remote \in SUBSET Entry
  PROVE  LET f == Answered(g, found, remote)
         IN  /\ f \in Airborne /\ f.pc = "fill" /\ f.found = found /\ f.store = 2
             /\ f.query = g.query /\ f.remote = remote
<1> DEFINE h == Has(g, "fill", 2, found)
           f == [h EXCEPT !.remote = remote]
<1>1. 2 \in 0..2 /\ "fill" \in {"redis", "chain", "fill"}
  OBVIOUS
<1>2. /\ h \in Airborne /\ h.pc = "fill" /\ h.found = found /\ h.store = 2
      /\ h.query = g.query
  BY <1>1, FlightHas
<1> HIDE DEF h
<1>3. /\ f \in Airborne /\ f.pc = "fill" /\ f.found = found /\ f.store = 2
      /\ f.query = g.query /\ f.remote = remote
  BY <1>2 DEF Airborne
<1>4. f = Answered(g, found, remote)
  BY DEF Answered, h
<1> HIDE DEF f
<1> QED
  BY <1>3, <1>4

\* One number, or one hash, from redis.
LEMMA RedisGetKeeps ==
  ASSUME TypeOK, CacheInv, NEW c \in Caller, RedisGet(c)
  PROVE  flight' \in [Caller -> Landed \cup Airborne] /\ CallersInv'
<1> DEFINE q == flight[c].query
           n == q.from + Cardinality(flight[c].found)
           hit == Hit(redis, IF q.kind = "range" THEN ByNumber(q.typ, n, n) ELSE q)
           more == q.kind = "range" /\ n < q.to
           read == {[typ |-> e.typ, number |-> e.number, hash |-> e.hash, parent |-> None] : e \in hit}
           pc == IF hit = {} THEN "chain" ELSE IF more THEN "redis" ELSE "fill"
           found == IF hit = {} THEN {} ELSE flight[c].found \cup read
           f == Has(flight[c], pc, 1, found)
<1>1. flight[c] \in Airborne /\ Flying(c) /\ FlightInv(flight[c]) /\ q \in Query
      /\ flight[c].pc = "redis"
  BY FlightOf DEF RedisGet, CacheInv
<1>2. flight' = [flight EXCEPT ![c] = f] /\ UNCHANGED call
  BY DEF RedisGet, Has
<1>3. q.kind \in {"range", "hash"}
  BY <1>1, QueryKinds DEF FlightInv
<1>4. redis \in Store /\ StoreInv(redis)
  BY DEF TypeOK, CacheInv, StoresInv
<1>5. q.kind = "range" =>
        /\ q.from \in Nat /\ q.to \in Nat /\ IsFiniteSet(flight[c].found)
        /\ Cardinality(flight[c].found) \in Nat /\ n \in Nat /\ n <= q.to
        /\ Numbers(flight[c].found) = q.from..n - 1
  BY <1>1, QueryKinds, FS_CardinalityType DEF FlightInv
<1>6. hit \subseteq Entry
  BY <1>4 DEF Hit, Store
<1> HIDE DEF hit
<1>7. ASSUME NEW e \in hit
      PROVE  [typ |-> e.typ, number |-> e.number, hash |-> e.hash, parent |-> None] \in Linked
  BY <1>6 DEF Entry, Linked, BlockHash
<1>8. read \subseteq Linked
  BY <1>7
<1>9. ASSUME hit = {} PROVE FlightInv(f) /\ f \in Airborne /\ f.query = flight[c].query
  <2>2. f = Has(flight[c], "chain", 1, {}) /\ 1 \in 0..2 /\ {} \in SUBSET Linked
    BY <1>9
  <2> HIDE DEF f
  <2>1. f \in Airborne /\ f.query = q /\ f.pc = "chain" /\ f.found = {}
    BY <1>1, <2>2, FlightHas
  <2> QED
    BY <2>1 DEF FlightInv, Fits, NoHole
<1>10. ASSUME hit # {} PROVE /\ f \in Airborne /\ f.query = q /\ f.pc = IF more THEN "redis" ELSE "fill"
                             /\ f.found = flight[c].found \cup read /\ f.store = 1
  <2>1. found \in SUBSET Linked /\ found = flight[c].found \cup read
    BY <1>1, <1>8, <1>10 DEF Airborne
  <2>2. pc = (IF more THEN "redis" ELSE "fill") /\ pc \in {"redis", "fill"}
    BY <1>10
  <2>3. 1 \in 0..2 /\ pc \in {"redis", "chain", "fill"}
    BY <2>2
  <2> HIDE DEF found, pc
  <2> QED
    BY <1>1, <2>1, <2>2, <2>3, FlightHas
<1>11. ASSUME NEW r \in read
       PROVE  \E e \in hit : r.typ = e.typ /\ r.number = e.number /\ r.hash = e.hash
  <2>1. PICK e \in hit :
          r = [typ |-> e.typ, number |-> e.number, hash |-> e.hash, parent |-> None]
    BY <1>11
  <2> QED
    BY <2>1
<1>12. ASSUME hit # {}, q.kind = "hash" PROVE FlightInv(f)
  <2>1. Fits(q, hit)
    BY <1>4, <1>12, HitFits DEF hit
  <2>2. Fits(q, flight[c].found)
    BY <1>1 DEF FlightInv
  <2>3. Fits(q, f.found)
    <3> HIDE DEF f, read
    <3> QED
      BY <1>10, <1>11, <1>12, <2>1, <2>2 DEF Fits, Sound
  <2> HIDE DEF f
  <2> QED
    BY <1>10, <1>12, <2>3 DEF FlightInv, NoHole
<1>13. ASSUME hit # {}, q.kind = "range" PROVE FlightInv(f)
  <2> DEFINE one == ByNumber(q.typ, n, n)
  <2>1. one.kind = "range" /\ one.from = n /\ one.to = n /\ one.typ = q.typ /\ hit = Hit(redis, one)
    BY <1>13 DEF ByNumber, hit
  <2>2. Fits(one, hit) /\ Numbers(hit) = n..n
    <3> HIDE DEF one, n
    <3> QED
      BY <1>4, <1>5, <1>13, <2>1, HitFits, HitIsWhole
  <2>3. \A e \in hit : e.number = n /\ e.typ = q.typ /\ Sound(e)
    <3> HIDE DEF one, n
    <3> QED
      BY <1>5, <1>13, <2>1, <2>2 DEF Fits
  <2>4. PICK e \in hit : TRUE
    BY <1>13
  <2>5. hit = {e}
    <3>1. \A d \in hit : d.hash = e.hash
      BY <2>2, <2>3, <2>4 DEF Fits
    <3> QED
      BY <1>6, <2>3, <2>4, <3>1 DEF Entry
  <2> DEFINE x == [typ |-> e.typ, number |-> e.number, hash |-> e.hash, parent |-> None]
  <2>6. read = {x} /\ x.number = n /\ x.typ = q.typ /\ x.hash = e.hash /\ Sound(x)
    BY <2>3, <2>4, <2>5 DEF Sound
  <2> HIDE DEF x, read, f, n
  <2>7. f.found = flight[c].found \cup {x}
    BY <1>10, <1>13, <2>6
  <2>8. Numbers(f.found) = q.from..n
    <3>1. Numbers(f.found) = Numbers(flight[c].found) \cup {n}
      BY <2>6, <2>7 DEF Numbers
    <3>2. q.from..n = (q.from..n - 1) \cup {n}
      BY <1>5, <1>13 DEF n
    <3> QED
      BY <1>5, <1>13, <3>1, <3>2
  <2>9. \A d \in flight[c].found : d.number # n
    BY <1>5, <1>13 DEF Numbers
  <2>10. Fits(q, f.found)
    <3>1. Fits(q, flight[c].found)
      BY <1>1 DEF FlightInv
    <3>2. n \in q.from..q.to
      BY <1>5, <1>13 DEF n
    <3> QED
      BY <1>13, <2>6, <2>7, <2>9, <3>1, <3>2 DEF Fits
  <2>11. NoHole(q, f.found)
    <3> SUFFICES ASSUME NEW d \in f.found, NEW m \in q.from..d.number
                 PROVE  \E g \in f.found : g.number = m
      BY DEF NoHole
    <3>1. d.number \in q.from..n
      BY <2>8 DEF Numbers
    <3>2. m \in q.from..n
      BY <1>5, <1>13, <3>1
    <3> QED
      BY <2>8, <3>2 DEF Numbers
  <2>12. /\ IsFiniteSet(f.found)
         /\ Cardinality(f.found) = Cardinality(flight[c].found) + 1
    <3>1. x \notin flight[c].found
      BY <2>6, <2>9
    <3> QED
      BY <1>5, <1>13, <2>7, <3>1, FS_AddElement
  <2>13. more => /\ q.from + Cardinality(f.found) <= q.to
                 /\ n = q.from + Cardinality(f.found) - 1
    BY <1>5, <1>13, <2>12, SMTT(30) DEF n
  <2> HIDE DEF more
  <2> QED
    BY <1>10, <1>13, <2>8, <2>10, <2>11, <2>12, <2>13 DEF FlightInv
<1> HIDE DEF f
<1>14. FlightInv(f) /\ f \in Airborne /\ f.query = flight[c].query
  BY <1>3, <1>9, <1>10, <1>12, <1>13
<1> QED
  BY <1>1, <1>2, <1>14, FlightMoves DEF CacheInv

\* A caller starts a flight, or joins one of the same query.
LEMMA AskKeeps ==
  ASSUME TypeOK, CallersInv, NEW c \in Caller, NEW node \in Node, NEW q \in Query, Ask(c, node, q)
  PROVE  /\ flight' \in [Caller -> Landed \cup Airborne] /\ call' \in [Caller -> Call]
         /\ CallersInv'
<1> DEFINE same == {l \in Caller : Flying(l) /\ q # Tag /\ flight[l].node = node /\ flight[l].query = q}
           lead == IF same = {} THEN c ELSE CHOOSE l \in same : TRUE
           f == [pc |-> IF q = Tag THEN "chain" ELSE "lru", node |-> node, query |-> q,
                 found |-> {}, store |-> 0, remote |-> {}, keys |-> {}]
           j == [at |-> "wait", query |-> q, lead |-> lead]
<1>1. /\ call' = [call EXCEPT ![c] = j] /\ ~Flying(c)
      /\ IF lead # c THEN UNCHANGED flight ELSE flight' = [flight EXCEPT ![c] = f]
  BY DEF Ask
<1>2. /\ lead \in Caller
      /\ lead # c => Flying(lead) /\ flight[lead].query = q
  OBVIOUS
<1>3. f \in Airborne /\ FlightInv(f) /\ f.pc # "none" /\ f.query = q
  <2>1. f \in Airborne /\ f.pc # "none" /\ f.query = q /\ f.found = {}
    BY DEF Airborne
  <2>2. f.pc = "lru" \/ (q = Tag /\ f.pc = "chain")
    OBVIOUS
  <2>3. q.kind = "tag" => q = Tag
    BY QueryKinds
  <2>4. Tag.kind = "tag"
    BY DEF Tag
  <2> HIDE DEF f
  <2>5. f.query.kind = "tag" => f.pc = "chain"
    BY <2>1, <2>2, <2>3 DEF f
  <2> QED
    BY <2>1, <2>2, <2>5 DEF FlightInv, Fits, NoHole
<1> HIDE DEF lead, f
<1>4. j \in Call /\ j.at = "wait" /\ j.lead = lead /\ j.query = q
  BY <1>2 DEF Call
<1> HIDE DEF j
<1>5. flight' \in [Caller -> Landed \cup Airborne] /\ call' \in [Caller -> Call]
  BY <1>1, <1>3, <1>4 DEF TypeOK
<1>6. call'[c] = j /\ \A d \in Caller \ {c} : call'[d] = call[d] /\ flight'[d] = flight[d]
  BY <1>1 DEF TypeOK
<1>7. flight'[c] = flight[c] \/ (flight'[c] = f /\ lead = c)
  BY <1>1 DEF TypeOK
<1>8. flight'[lead].pc # "none" /\ flight'[lead].query = q
  <2>1. CASE lead = c
    BY <1>1, <1>3, <2>1 DEF TypeOK
  <2>2. CASE lead # c
    BY <1>2, <1>6, <2>2 DEF Flying
  <2> QED
    BY <2>1, <2>2
<1>9. \A d \in Caller : flight'[d].pc # "none" => FlightInv(flight'[d])
  BY <1>3, <1>6, <1>7 DEF CallersInv, Flying
<1>10. \A d \in Caller \ {c} : call[d].at = "wait" => call[d].lead \in Caller \ {c}
  BY <1>1 DEF CallersInv, TypeOK, Call
<1>11. ASSUME NEW d \in Caller \ {c}
       PROVE  /\ call'[d].at = "done" => /\ Fits(call'[d].query, call'[d].answer)
                                         /\ NoHole(call'[d].query, call'[d].answer)
              /\ call'[d].at = "wait" => /\ flight'[call'[d].lead].pc # "none"
                                         /\ flight'[call'[d].lead].query = call'[d].query
  BY <1>6, <1>10 DEF CallersInv, Flying, Done
<1> QED
  BY <1>4, <1>5, <1>6, <1>8, <1>9, <1>11 DEF CallersInv, Flying, Done

\* Every step keeps the types and the invariant.
LEMMA CacheStep == TypeOK /\ CacheInv /\ [Next]_vars => TypeOK' /\ CacheInv'
<1> SUFFICES ASSUME TypeOK, CacheInv, [Next]_vars PROVE TypeOK' /\ CacheInv'
  OBVIOUS
<1> USE DEF chains
<1>0. StoresInv /\ CallersInv
  BY DEF CacheInv
<1>1. ASSUME UNCHANGED <<lru, redis>> PROVE StoresInv'
  BY <1>0, <1>1 DEF StoresInv
<1>2. ASSUME UNCHANGED <<call, flight>> PROVE CallersInv'
  BY <1>0, <1>2 DEF CallersInv, Flying, Done
<1>3. CASE Mine
  <2>1. canon' \in Chain
    BY <1>3 DEF Mine, TypeOK, Chain
  <2> QED
    BY <1>1, <1>2, <1>3, <2>1 DEF Mine, TypeOK, CacheInv
<1>4. ASSUME NEW k \in 1..MaxHeight, Reorg(k) PROVE TypeOK' /\ CacheInv'
  <2> DEFINE fork == canon[Len(canon)] + 1
  <2>1. Len(canon) \in 1..MaxHeight + 1 /\ canon \in Seq(0..MaxFork)
    BY DEF TypeOK, Chain
  <2>2. fork \in 0..MaxFork
    BY <1>4, <2>1 DEF Reorg
  <2>3. canon' \in Seq(0..MaxFork) /\ Len(canon') = Len(canon)
    <3>1. canon' = [i \in 1..Len(canon) |-> IF i <= k THEN canon[i] ELSE fork]
      BY <1>4, <2>1 DEF Reorg
    <3> QED
      BY <2>1, <2>2, <3>1
  <2> QED
    BY <1>1, <1>2, <1>4, <2>1, <2>3 DEF Reorg, TypeOK, CacheInv, Chain
<1>5. CASE Settle
  BY <1>1, <1>2, <1>5 DEF Settle, TypeOK, CacheInv
<1>6. CASE Expire
  <2>1. PICK e \in redis.byHash :
          redis' = [byNumber |-> redis.byNumber \ {e}, byHash |-> redis.byHash \ {e}]
    BY <1>6 DEF Expire
  <2>2. redis' \in Store /\ StoreInv(redis')
    BY <1>0, <2>1 DEF TypeOK, Store, StoresInv, StoreInv
  <2> QED
    BY <1>0, <1>2, <1>6, <2>2 DEF Expire, TypeOK, CacheInv, StoresInv
<1>7. ASSUME NEW c \in Caller, NEW node \in Node, NEW q \in Query, Ask(c, node, q)
      PROVE  TypeOK' /\ CacheInv'
  <2>1. asks' \in 0..MaxAsks
    BY <1>7 DEF Ask, TypeOK
  <2> QED
    BY <1>0, <1>1, <1>7, <2>1, AskKeeps DEF Ask, TypeOK, CacheInv
<1>8. ASSUME NEW c \in Caller, Leave(c) PROVE TypeOK' /\ CacheInv'
  <2>1. call' \in [Caller -> Call]
    BY <1>8 DEF Leave, TypeOK, Call
  <2>2. call'[c].at = "idle" /\ \A d \in Caller \ {c} : call'[d] = call[d]
    BY <1>8 DEF Leave, TypeOK
  <2>3. CallersInv'
    BY <1>0, <1>8, <2>2 DEF Leave, CallersInv, Flying, Done
  <2> QED
    BY <1>1, <1>8, <2>1, <2>3 DEF Leave, TypeOK, CacheInv
\* A flight that lands without touching the stores.
<1>9. ASSUME NEW c \in Caller, Flying(c), Finish(c, FALSE, {}),
             UNCHANGED <<chains, lru, redis, asks>>
      PROVE  TypeOK' /\ CacheInv'
  <2>1. /\ flight' \in [Caller -> Landed \cup Airborne] /\ call' \in [Caller -> Call]
        /\ CallersInv'
    BY <1>0, <1>9, FlightLands
  <2> QED
    BY <1>1, <1>9, <2>1 DEF TypeOK, CacheInv
<1>10. ASSUME NEW c \in Caller, LruGet(c) PROVE TypeOK' /\ CacheInv'
  <2> DEFINE hit == Hit(lru[flight[c].node], flight[c].query)
  <2>1. /\ flight[c] \in Airborne /\ Flying(c) /\ FlightInv(flight[c])
        /\ flight[c].query \in Query /\ flight[c].node \in Node /\ flight[c].pc = "lru"
    BY <1>0, <1>10, FlightOf DEF LruGet
  <2>2. lru[flight[c].node] \in Store /\ StoreInv(lru[flight[c].node])
    BY <1>0, <2>1 DEF TypeOK, StoresInv
  <2>3. flight[c].query.kind # "tag"
    BY <2>1 DEF FlightInv
  <2>4. flight' \in [Caller -> Landed \cup Airborne] /\ call' \in [Caller -> Call] /\ CallersInv'
    <3>1. CASE hit # {} /\ Finish(c, TRUE, hit)
      <4>1. hit \subseteq Entry /\ Fits(flight[c].query, hit) /\ NoHole(flight[c].query, hit)
        BY <2>1, <2>2, <2>3, QueryKinds, HitFits
      <4> HIDE DEF hit
      <4> QED
        BY <1>0, <2>1, <3>1, <4>1, FlightLands
    <3>2. CASE Go(c, "redis") /\ UNCHANGED call
      <4> DEFINE f == [flight[c] EXCEPT !.pc = "redis"]
      <4>1. f \in Airborne /\ f.query = flight[c].query /\ f.found = {} /\ f.pc = "redis"
        BY <2>1 DEF Airborne, FlightInv
      <4>2. flight' = [flight EXCEPT ![c] = f]
        BY <3>2 DEF Go
      <4> HIDE DEF f
      <4>3. f.query.kind = "range" => f.query.from \in Nat /\ f.query.to \in Nat
                                      /\ f.query.from <= f.query.to
        BY <2>1, <4>1, QueryKinds
      <4>4. Cardinality(f.found) = 0 /\ IsFiniteSet(f.found) /\ Numbers(f.found) = {}
        BY <4>1, FS_EmptySet DEF Numbers
      <4>5. f.query.kind = "range" =>
              /\ f.query.from + Cardinality(f.found) <= f.query.to
              /\ Numbers(f.found) = f.query.from..f.query.from + Cardinality(f.found) - 1
        BY <4>3, <4>4
      <4>6. FlightInv(f)
        BY <2>3, <4>1, <4>4, <4>5 DEF FlightInv, Fits, NoHole
      <4> QED
        BY <1>0, <2>1, <3>2, <4>1, <4>2, <4>6, FlightMoves DEF TypeOK
    <3> QED
      BY <1>10, <3>1, <3>2 DEF LruGet
  <2> QED
    BY <1>1, <1>10, <2>4 DEF LruGet, TypeOK, CacheInv
<1>11. ASSUME NEW c \in Caller, RedisGet(c) PROVE TypeOK' /\ CacheInv'
  BY <1>0, <1>1, <1>11, RedisGetKeeps, ZenonT(40) DEF RedisGet, TypeOK, CacheInv
<1>12. ASSUME NEW c \in Caller, RedisGetFails(c) PROVE TypeOK' /\ CacheInv'
  <2> DEFINE f == [flight[c] EXCEPT !.pc = "chain", !.found = {}]
  <2>1. flight[c] \in Airborne /\ Flying(c)
    BY <1>0, <1>12, FlightOf DEF RedisGetFails
  <2>2. f \in Airborne /\ f.query = flight[c].query /\ f.found = {} /\ f.pc = "chain"
    BY <2>1 DEF Airborne
  <2>3. flight' = [flight EXCEPT ![c] = f] /\ UNCHANGED call
    BY <1>12 DEF RedisGetFails
  <2> HIDE DEF f
  <2>4. FlightInv(f)
    BY <2>2 DEF FlightInv, Fits, NoHole
  <2>5. flight' \in [Caller -> Landed \cup Airborne] /\ CallersInv'
    BY <1>0, <2>1, <2>2, <2>3, <2>4, FlightMoves
  <2> QED
    BY <1>1, <1>12, <2>5 DEF RedisGetFails, TypeOK, CacheInv
<1>14. ASSUME NEW c \in Caller, ChainGet(c) PROVE TypeOK' /\ CacheInv'
  <2>1. /\ flight[c] \in Airborne /\ Flying(c) /\ flight[c].query \in Query
    BY <1>0, <1>14, FlightOf DEF ChainGet
  <2>10. PICK chain \in Answering(flight[c].query) : \E found \in
          IF flight[c].query = Tag THEN {{e} : e \in TagAnswer(chain)}
          ELSE {Fetch(flight[c].query, chain)} :
          flight' = [flight EXCEPT ![c].pc = "fill", ![c].store = 2, ![c].found = found,
                                   ![c].remote = {Plain(e) : e \in found}]
    BY <1>14 DEF ChainGet
  <2>2. PICK found \in IF flight[c].query = Tag THEN {{e} : e \in TagAnswer(chain)}
                       ELSE {Fetch(flight[c].query, chain)} :
          flight' = [flight EXCEPT ![c].pc = "fill", ![c].store = 2, ![c].found = found,
                                   ![c].remote = {Plain(e) : e \in found}]
    BY <2>10
  <2>4. chain \in Chain
    BY DEF TypeOK, Answering
  <2>5. found \subseteq Linked /\ Fits(flight[c].query, found) /\ NoHole(flight[c].query, found)
    BY <2>1, <2>2, <2>4, TagFits, FetchFits
  <2> DEFINE remote == {Plain(e) : e \in found}
             f == Answered(flight[c], found, remote)
  <2>3. remote \subseteq Entry
    BY <2>5 DEF Plain, Entry, Linked
  <2>7. flight' = [flight EXCEPT ![c] = f] /\ UNCHANGED call
    BY <1>14, <2>2 DEF ChainGet, Answered, Has
  <2> HIDE DEF remote
  <2>6. /\ f \in Airborne /\ f.query = flight[c].query /\ f.found = found /\ f.pc = "fill"
        /\ f.store = 2 /\ f.remote = remote
    BY <2>1, <2>3, <2>5, FlightAnswered
  <2> HIDE DEF f
  <2>8. FlightInv(f)
    BY <2>5, <2>6 DEF FlightInv, remote
  <2>9. flight' \in [Caller -> Landed \cup Airborne] /\ CallersInv'
    BY <1>0, <2>1, <2>6, <2>7, <2>8, FlightMoves
  <2> QED
    BY <1>1, <1>14, <2>9 DEF ChainGet, TypeOK, CacheInv
<1>15. ASSUME NEW c \in Caller, ChainFails(c) \/ RedisPutFails(c) PROVE TypeOK' /\ CacheInv'
  BY <1>9, <1>15 DEF ChainFails, RedisPutFails, Flying
<1>16. ASSUME NEW c \in Caller, Fill(c) PROVE TypeOK' /\ CacheInv'
  <2>1. /\ Flying(c) /\ FlightInv(flight[c]) /\ flight[c].node \in Node
        /\ flight[c].found \subseteq Linked
    BY <1>0, <1>16, FlightOf DEF Fill
  <2>2. /\ Fits(flight[c].query, flight[c].found) /\ NoHole(flight[c].query, flight[c].found)
        /\ flight[c].pc = "fill" /\ flight[c].store \in {1, 2}
    BY <1>16, <2>1 DEF Fill, FlightInv
  <2>3. lru' \in [Node -> Store] /\ \A n \in Node : StoreInv(lru'[n])
    BY <1>0, <1>16, <2>1, <2>2, LruPutKeeps DEF Fill, TypeOK
  <2>4. /\ flight' \in [Caller -> Landed \cup Airborne] /\ call' \in [Caller -> Call]
        /\ CallersInv'
    <3>1. CASE flight[c].store = 1
      <4>1. 1 \notin Earlier(flight[c].store)
        BY <3>1 DEF Earlier
      <4>2. Finish(c, TRUE, flight[c].found)
        BY <1>16, <4>1 DEF Fill
      <4> QED
        BY <1>0, <2>1, <2>2, <4>2, FlightLands
    <3>2. CASE flight[c].store = 2
      <4>1. 1 \in Earlier(flight[c].store)
        BY <3>2 DEF Earlier
      <4>2. UNCHANGED call /\ (Go(c, "check") \/ Go(c, "add"))
        BY <1>16, <4>1 DEF Fill
      <4> QED
        BY <1>0, <2>1, <2>2, <3>2, <4>2, FlightGoes DEF TypeOK
    <3> QED
      BY <2>2, <3>1, <3>2
  <2> QED
    BY <1>0, <1>16, <2>3, <2>4 DEF Fill, TypeOK, CacheInv, StoresInv
<1>17. ASSUME NEW c \in Caller, Check(c) PROVE TypeOK' /\ CacheInv'
  <2>2. Flying(c) /\ flight[c].pc = "check" /\ flight[c].store = 2
    BY <1>0, <1>17, FlightOf DEF Check, FlightInv
  <2>1. flight' \in [Caller -> Landed \cup Airborne] /\ CallersInv'
    BY <1>0, <1>17, <2>2, FlightGoes DEF Check
  <2> QED
    BY <1>1, <1>17, <2>1 DEF Check, TypeOK, CacheInv
<1>18. ASSUME NEW c \in Caller, Keys(c) PROVE TypeOK' /\ CacheInv'
  <2> DEFINE keys == {<<e.typ, e.number>> : e \in redis.byNumber}
             f == [flight[c] EXCEPT !.pc = "del", !.keys = keys]
  <2>1. flight[c] \in Airborne /\ Flying(c) /\ FlightInv(flight[c])
    BY <1>0, <1>18, FlightOf DEF Keys
  <2>2. keys \subseteq Types \X (0..MaxHeight)
    BY DEF TypeOK, Store, Entry
  <2>3. flight' = [flight EXCEPT ![c] = f] /\ UNCHANGED call
    BY <1>18 DEF Keys
  <2> HIDE DEF keys
  <2>4. /\ f \in Airborne /\ f.query = flight[c].query /\ f.found = flight[c].found /\ f.pc = "del"
        /\ f.store = flight[c].store /\ f.remote = flight[c].remote
    BY <2>1, <2>2 DEF Airborne
  <2> HIDE DEF f
  <2>5. FlightInv(f)
    BY <1>18, <2>1, <2>4 DEF FlightInv, Keys
  <2>6. flight' \in [Caller -> Landed \cup Airborne] /\ CallersInv'
    BY <1>0, <2>1, <2>3, <2>4, <2>5, FlightMoves
  <2> QED
    BY <1>1, <1>18, <2>6 DEF Keys, TypeOK, CacheInv
<1>19. ASSUME NEW c \in Caller, Del(c) PROVE TypeOK' /\ CacheInv'
  <2>1. Flying(c) /\ flight[c].pc = "del" /\ flight[c].store = 2
    BY <1>0, <1>19, FlightOf DEF Del, FlightInv
  <2>2. CASE Finish(c, FALSE, {}) /\ UNCHANGED redis
    BY <1>9, <1>19, <2>1, <2>2 DEF Del
  <2>3. CASE /\ Go(c, "add") /\ UNCHANGED call
             /\ redis' = [redis EXCEPT !.byNumber =
                             {e \in @ : <<e.typ, e.number>> \notin flight[c].keys}]
    <3>1. redis' \in Store /\ StoreInv(redis')
      <4>1. /\ redis'.byNumber \subseteq redis.byNumber /\ redis'.byHash = redis.byHash
            /\ redis' \in Store
        BY <2>3 DEF TypeOK, Store
      <4> QED
        BY <1>0, <4>1 DEF StoresInv, StoreInv
    <3>2. flight' \in [Caller -> Landed \cup Airborne] /\ CallersInv'
      BY <1>0, <2>1, <2>3, FlightGoes
    <3> QED
      BY <1>0, <1>19, <2>3, <3>1, <3>2 DEF Del, TypeOK, CacheInv, StoresInv
  <2> QED
    BY <1>19, <2>2, <2>3 DEF Del
<1>20. ASSUME NEW c \in Caller, Add(c) PROVE TypeOK' /\ CacheInv'
  <2>1. Flying(c) /\ FlightInv(flight[c]) /\ flight[c].found \subseteq Linked
    BY <1>0, <1>20, FlightOf DEF Add
  <2>2. Fits(flight[c].query, flight[c].found) /\ NoHole(flight[c].query, flight[c].found)
    BY <2>1 DEF FlightInv
  <2> DEFINE number == Indexed(redis.byNumber, flight[c].found)
             plain == {Plain(e) : e \in flight[c].found}
  <2>3. redis' = [byNumber |-> number, byHash |-> redis.byHash \cup plain]
    BY <1>20 DEF Add
  <2>4. /\ number \subseteq Entry /\ \A e \in number : Sound(e)
        /\ \A e, f \in number : e.typ = f.typ /\ e.number = f.number => e.hash = f.hash
    <3>1. /\ redis.byNumber \subseteq Entry /\ \A e \in redis.byNumber : Sound(e)
          /\ \A e, f \in redis.byNumber : e.typ = f.typ /\ e.number = f.number => e.hash = f.hash
      BY <1>0 DEF TypeOK, Store, StoresInv, StoreInv
    <3> QED
      BY <2>1, <2>2, <3>1, IndexedIsSound
  <2>5. plain \subseteq Entry /\ \A e \in plain : Sound(e)
    BY <2>1, <2>2 DEF Fits, Plain, Entry, Linked, Sound
  <2> HIDE DEF number, plain
  <2>6. redis' \in Store /\ StoreInv(redis')
    BY <1>0, <2>3, <2>4, <2>5 DEF TypeOK, Store, StoresInv, StoreInv
  <2>7. PICK ok \in BOOLEAN : Finish(c, ok, IF ok THEN flight[c].found ELSE {})
    BY <1>20 DEF Add
  <2>8. /\ flight' \in [Caller -> Landed \cup Airborne] /\ call' \in [Caller -> Call]
        /\ CallersInv'
    <3>1. CASE ok
      BY <1>0, <2>1, <2>2, <2>7, <3>1, FlightLands
    <3>2. CASE ~ok
      BY <1>0, <2>1, <2>7, <3>2, FlightLands
    <3> QED
      BY <3>1, <3>2
  <2> QED
    BY <1>0, <1>20, <2>6, <2>8 DEF Add, TypeOK, CacheInv, StoresInv
<1>21. CASE UNCHANGED vars
  BY <1>1, <1>2, <1>21 DEF vars, TypeOK, CacheInv
<1> QED
  BY <1>3, <1>4, <1>5, <1>6, <1>7, <1>8, <1>10, <1>11, <1>12, <1>14, <1>15, <1>16,
     <1>17, <1>18, <1>19, <1>20, <1>21 DEF Next, Step

LEMMA CacheInit == Init => TypeOK /\ CacheInv
<1> SUFFICES ASSUME Init PROVE TypeOK /\ CacheInv
  OBVIOUS
<1>1. <<0, 0>> \in Chain /\ Len(<<0, 0>>) = 2
  BY DEF Chain
<1>2. 1 \in Heights(canon) /\ canon \in Chain
  BY <1>1 DEF Init, Heights
<1>3. PICK kept \in SUBSET {Plain(Found(typ, canon, 1)) : typ \in {"header", "logs"}} :
        redis = [byNumber |-> kept, byHash |-> kept]
  BY DEF Init
<1>4. ASSUME NEW typ \in {"header", "logs"}
      PROVE  /\ Plain(Found(typ, canon, 1)) \in Entry /\ Sound(Plain(Found(typ, canon, 1)))
             /\ Plain(Found(typ, canon, 1)).hash = Hash(canon, 1)
  <2>1. Found(typ, canon, 1) \in Linked /\ Sound(Found(typ, canon, 1))
    BY <1>2, FoundIsSound DEF Types
  <2> QED
    BY <2>1 DEF Plain, Entry, Linked, Sound, Found
<1>5. redis \in Store /\ StoreInv(redis)
  BY <1>3, <1>4 DEF Store, StoreInv
<1>6. lru \in [Node -> Store] /\ \A n \in Node : StoreInv(lru[n])
  BY DEF Init, Store, StoreInv
<1>7. call \in [Caller -> Call] /\ flight \in [Caller -> Landed \cup Airborne] /\ CallersInv
  BY DEF Init, Call, Landed, CallersInv, Flying, Done
<1> QED
  BY <1>2, <1>5, <1>6, <1>7 DEF Init, TypeOK, CacheInv, StoresInv

\* The types and the invariant of the caches hold throughout.
THEOREM CachesAreSound == Spec => [](TypeOK /\ CacheInv)
BY CacheInit, CacheStep, PTL DEF Spec

\* Whatever flight a caller joined, and whichever store answered, it gets what it
\* asked for, and one entry per height.
THEOREM AnswersFit == Spec => []AnswerFits
<1>1. TypeOK /\ CacheInv => AnswerFits
  <2> SUFFICES ASSUME TypeOK, CacheInv, NEW c \in Caller, Done(c), NEW e \in call[c].answer
               PROVE  /\ call[c].query.kind = "range" => e.number \in call[c].query.from..call[c].query.to
                      /\ call[c].query.kind = "hash" => e.hash = call[c].query.hash
                      /\ e.hash # None => e.hash[1] = e.number
                      /\ \A f \in call[c].answer : f.number = e.number => f = e
    BY DEF AnswerFits
  <2>1. Fits(call[c].query, call[c].answer)
    BY DEF CacheInv, CallersInv
  <2>2. call[c].answer \subseteq Entry
    BY DEF TypeOK, Call, Done
  <2>3. \A f \in call[c].answer : f.number = e.number => f = e
    BY <2>1, <2>2 DEF Fits, Entry
  <2> QED
    BY <2>1, <2>3 DEF Fits, Sound
<1> QED
  BY CachesAreSound, <1>1, PTL

\* A cache that has some of the blocks of a range does not answer for the range.
THEOREM LogsAreWhole == Spec => []NoHoleInLogs
<1>1. TypeOK /\ CacheInv => NoHoleInLogs
  BY DEF CacheInv, CallersInv, NoHole, NoHoleInLogs
<1> QED
  BY CachesAreSound, <1>1, PTL

\* Whoever waits, waits for a flight that is under way.
THEOREM EveryWaiterHasAFlight == Spec => []NobodyIsForgotten
<1>1. TypeOK /\ CacheInv => NobodyIsForgotten
  BY SMTT(30) DEF CacheInv, CallersInv, NobodyIsForgotten
<1> QED
  BY CachesAreSound, <1>1, PTL

\* Only Add puts entries in redis, and a flight gets that far only with what a remote
\* has answered to it: what was found in redis itself, or in an LRU, stays out.
THEOREM NothingStaleComesBack == Spec => StaleIsNotRevived
<1> DEFINE New == (redis'.byNumber \ redis.byNumber) \cup (redis'.byHash \ redis.byHash)
           Fresh == \A e \in New : \E c \in Caller : Flying(c) /\ e \in flight[c].remote
<1>1. TypeOK /\ CacheInv /\ [Next]_vars => [Fresh]_vars
  <2> SUFFICES ASSUME TypeOK, CacheInv, Next PROVE Fresh \/ UNCHANGED redis
    <3>1. UNCHANGED redis => Fresh
      OBVIOUS
    <3> QED
      BY <3>1
  <2>1. ASSUME NEW c \in Caller, Add(c) PROVE Fresh
    <3>1. New \subseteq {Plain(e) : e \in flight[c].found}
      BY <2>1 DEF Add, Indexed
    <3>2. Flying(c) /\ FlightInv(flight[c]) /\ flight[c].pc = "add"
      BY <2>1, FlightOf DEF Add, CacheInv
    <3>3. flight[c].remote = {Plain(e) : e \in flight[c].found}
      BY <3>2 DEF FlightInv
    <3> QED
      BY <3>1, <3>2, <3>3
  <2>2. ASSUME NEW c \in Caller, Del(c) PROVE Fresh \/ UNCHANGED redis
    <3>1. New = {} \/ UNCHANGED redis
      BY <2>2 DEF Del, TypeOK, Store
    <3> QED
      BY <3>1
  <2>3. CASE Expire
    BY <2>3 DEF Expire
  <2> HIDE DEF Fresh
  <2> QED
    BY <2>1, <2>2, <2>3, ZenonT(40) DEF Next, Step, Mine, Settle, Reorg, Leave, Ask, LruGet, RedisGet,
       RedisGetFails, ChainGet, ChainFails, Fill, Check, Keys, RedisPutFails
<1>2. StaleIsNotRevived <=> [][Fresh]_vars
  BY DEF StaleIsNotRevived
<1> QED
  BY CachesAreSound, <1>1, <1>2, PTL DEF Spec
=============================================================================
