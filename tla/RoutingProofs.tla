--------------------------- MODULE RoutingProofs ----------------------------
(***************************************************************************)
(* Proofs about Routing, for any width of the numbers, height of the chain,*)
(* limits, parameters, filters and logs: what a client is told by `latest' *)
(* does not go back, ranges are not turned around, old blocks stay out,    *)
(* forged receipts have their logs, and the cache filters as the remotes   *)
(* do.                                                                     *)
(***************************************************************************)
EXTENDS Routing, TLAPS

USE RoutingAssumption

-----------------------------------------------------------------------------
(* Numbers and parameters *)

LEMMA UintRange ==
  /\ \A n \in Int : Uint(n) \in 0..2 * Half - 1
  /\ \A n \in 0..2 * Half - 1 : Uint(n) = n
  /\ MaxInt \in Nat /\ MaxTip <= MaxInt /\ MaxInt < 2 * Half
BY DEF Uint, MaxInt

LEMMA TagValues ==
  /\ DOMAIN Tags = {"latest", "pending", "safe", "finalized", "latestExecuted", "earliest"}
  /\ Tags["latest"] = -1 /\ Tags["earliest"] = 0
  /\ \A t \in DOMAIN Tags : Tags[t] \in -5..0
  /\ \A t \in DOMAIN Tags : (Tags[t] = -1 => t = "latest") /\ (Tags[t] = 0 => t = "earliest")
BY DEF Tags, Latest, Pending, Safe, Finalized, LatestExecuted, Earliest

\* A parameter is a number that fits its type, or a tag.
LEMMA ParseRange ==
  ASSUME NEW p \in BlockParam
  PROVE  /\ Unsigned(p) \in 0..2 * Half - 1
         /\ Parse(p) \in Int
         /\ Parse(p) >= 0 => Parse(p) = Unsigned(p) \/ Parse(p) = 0
         /\ Parse(p) < 0 => Parse(p) \in -5..-1
<1>1. p.tag = "number" => p.value \in Int
  BY UintRange, TagValues DEF BlockParam
<1>2. Unsigned(p) \in 0..2 * Half - 1
  <2>1. ASSUME p.tag = "number" PROVE (IF p.value < 0 THEN -p.value ELSE p.value) \in Int
    BY <1>1, <2>1
  <2> QED
    BY <2>1, UintRange DEF Unsigned
<1> QED
  BY <1>2, TagValues DEF Parse, Latest

\* Number(n) is read as n.
LEMMA ParseNumber ==
  ASSUME NEW n \in 0..MaxInt
  PROVE  /\ Parse(Number(n)) = n /\ Parses(Number(n)) /\ ~Nil(Number(n)) /\ Number(n) # Absent
         /\ Number(n).tag = "number" /\ Number(n).value = n
<1>1. Number(n).tag = "number" /\ Number(n).value = n
  BY DEF Number
<1>2. Uint(n) = n
  BY UintRange DEF MaxInt
<1>3. Unsigned(Number(n)) = n
  BY <1>1, <1>2 DEF Unsigned, MaxInt
<1>4. Parse(Number(n)) = n
  BY <1>1, <1>3, TagValues DEF Parse
<1>5. Number(n) # Absent
  BY <1>1 DEF Absent
<1> QED
  BY <1>1, <1>3, <1>4, <1>5 DEF Parses, Nil, MaxInt

\* What MarshalJSON writes is read as what it was.
LEMMA ParseMarshal ==
  ASSUME NEW n \in -1..MaxInt
  PROVE  /\ Parse(Marshal(n)) = n /\ Parses(Marshal(n)) /\ Marshal(n) \in BlockParam
         /\ ~Nil(Marshal(n)) /\ Marshal(n) # Absent
         /\ n = -1 => Marshal(n).tag = "latest"
<1>1. CASE n > 0
  <2>1. Marshal(n) = Number(n) /\ n \in 0..MaxInt /\ n \in 1..MaxInt
    BY <1>1 DEF Marshal, MaxInt
  <2>2. Number(n) \in BlockParam
    BY <2>1 DEF Number, BlockParam
  <2> QED
    BY <1>1, <2>1, <2>2, ParseNumber
<1>2. CASE n \in {-1, 0}
  <2> DEFINE t == CHOOSE t \in DOMAIN Tags : Tags[t] = n
  <2>1. t \in DOMAIN Tags /\ Tags[t] = n
    BY <1>2, TagValues
  <2>2. Marshal(n) = [tag |-> t]
    BY <1>2 DEF Marshal
  <2>3. n = -1 => t = "latest"
    BY <2>1, TagValues
  <2> HIDE DEF t
  <2>4. [tag |-> t] \in BlockParam /\ [tag |-> t].tag = t
    BY <2>1 DEF BlockParam
  <2>5. t # "number" /\ t # "absent" /\ t # "null"
    BY <2>1, TagValues
  <2>6. Parse([tag |-> t]) = n /\ Unsigned([tag |-> t]) = 0
    BY <2>1, <2>4, <2>5 DEF Parse, Unsigned
  <2>7. [tag |-> t] # Absent
    BY <2>4, <2>5 DEF Absent
  <2>8. Parses([tag |-> t])
    BY <2>6, UintRange DEF Parses
  <2> QED
    BY <2>2, <2>3, <2>4, <2>5, <2>6, <2>7, <2>8 DEF Nil
<1> QED
  BY <1>1, <1>2 DEF MaxInt

\* The greatest element, where there is one.
LEMMA MaxOfIs ==
  ASSUME NEW S \in SUBSET Int, NEW m \in S, \A n \in S : n <= m
  PROVE  MaxOf(S) = m
<1>1. \A n \in S : (\A k \in S : k <= n) => n = m
  OBVIOUS
<1> QED
  BY <1>1 DEF MaxOf

-----------------------------------------------------------------------------
(* Filters *)

\* The compiled filter lets the logs pass that the documentation describes, unless
\* the filter ends with a wildcard.
LEMMA CheckIsDocumented ==
  ASSUME NEW filter, IsTopics(filter.topics), NEW log, IsTopics(log.topics),
         filter.topics # <<>> => /\ filter.topics[Len(filter.topics)] # {}
                                 /\ Null \notin filter.topics[Len(filter.topics)]
  PROVE  Check(CompileFilter(filter), log) <=> Documented(filter, log)
<1> DEFINE raw == filter.topics
           len == Len(filter.topics)
           c == CompileFilter(filter)
<1>1. c.addrMap = filter.addresses /\ c.topicMap = ParseTopics(raw)
  BY DEF CompileFilter
<1>2. /\ DOMAIN c.topicMap = DOMAIN raw
      /\ \A i \in DOMAIN raw : c.topicMap[i] = IF Null \in raw[i] THEN {} ELSE raw[i]
  BY <1>1 DEF ParseTopics
<1>3. len \in Nat /\ DOMAIN raw = 1..len /\ Len(log.topics) \in Nat /\ DOMAIN log.topics = 1..Len(log.topics)
  BY DEF IsTopics
<1> HIDE DEF c
<1>4. ASSUME Check(c, log) PROVE Documented(filter, log)
  <2>1. /\ c.addrMap = {} \/ log.address \in c.addrMap
        /\ \A i \in DOMAIN c.topicMap :
             \/ c.topicMap[i] = {}
             \/ i \in DOMAIN log.topics /\ log.topics[i] \in c.topicMap[i]
    BY <1>4 DEF Check
  <2>2. len <= Len(log.topics)
    <3>1. CASE len = 0
      BY <1>3, <3>1
    <3>2. CASE len # 0
      <4>1. len \in DOMAIN raw /\ raw # <<>>
        BY <1>3, <3>2
      <4>2. c.topicMap[len] # {}
        BY <1>2, <4>1
      <4>3. len \in DOMAIN log.topics
        BY <1>2, <2>1, <4>1, <4>2
      <4> QED
        BY <1>3, <4>3
    <3> QED
      BY <3>1, <3>2
  <2> QED
    BY <1>1, <1>2, <2>1, <2>2 DEF Documented
<1>5. ASSUME Documented(filter, log) PROVE Check(c, log)
  <2>1. \A i \in DOMAIN raw : i \in DOMAIN log.topics
    BY <1>3, <1>5 DEF Documented
  <2> QED
    BY <1>1, <1>2, <1>5, <2>1 DEF Documented, Check
<1> QED
  BY <1>4, <1>5 DEF c

-----------------------------------------------------------------------------
(* Blocks *)

\* A request for a number, or for a range of numbers, is for those blocks: in the
\* store, and at any remote, whatever block it is at.
LEMMA ExactBlocks ==
  ASSUME NEW j, NEW a \in 0..MaxInt, NEW b \in a..MaxInt,
         ~Nil(j.from), Parse(j.from) = a,
         IF j.method = "logs" THEN ~Nil(j.to) /\ Parse(j.to) = b ELSE a = b
  PROVE  Start(j) = a /\ End(j) = b /\ \A t : Asked(j, t) = a..b
<1>1. a \in Nat /\ b \in Nat /\ a <= b /\ b <= MaxInt /\ MaxInt < 2 * Half
  BY UintRange
<1>2. Uint(a) = a /\ Uint(b) = b
  BY <1>1, UintRange
<1>3. Start(j) = a /\ End(j) = b
  BY <1>2 DEF Start, End
<1>4. \A t : ResolveParam(j.from, t) = a
  BY <1>1 DEF ResolveParam, Resolve
<1>5. j.method = "logs" => \A t : ResolveParam(j.to, t) = b
  BY <1>1 DEF ResolveParam, Resolve
<1>6. \A t : Asked(j, t) = a..b
  <2>1. CASE j.method = "logs"
    BY <1>4, <1>5, <2>1 DEF Asked
  <2>2. CASE j.method # "logs"
    <3>1. {a} = a..b
      BY <1>1, <2>2
    <3> QED
      BY <1>4, <2>2, <3>1 DEF Asked
  <2> QED
    BY <2>1, <2>2
<1> QED
  BY <1>3, <1>6

\* What `latest' was replaced by.
LEMMA SeenBlocks ==
  ASSUME TypeOK, NEW j \in Active, JobInv(j), j.pc \in Routed, j.seen > 0
  PROVE  \E b \in j.seen..head :
           /\ Start(j) = j.seen /\ End(j) = b /\ \A t : Asked(j, t) = j.seen..b
           /\ j.method # "logs" => b = j.seen
<1>1. j.seen \in 0..head /\ j.seen \in Nat /\ j.from = Number(j.seen)
  BY DEF JobInv, Active, TypeOK
<1>2. PICK b \in j.seen..head : IF j.method = "logs" THEN j.to = Number(b) ELSE b = j.seen
  BY <1>1 DEF JobInv, TypeOK
<1>3. j.seen \in 0..MaxInt /\ b \in 0..MaxInt /\ b \in j.seen..MaxInt
  BY <1>1, UintRange DEF TypeOK
<1>4. /\ ~Nil(j.from) /\ Parse(j.from) = j.seen
      /\ IF j.method = "logs" THEN ~Nil(j.to) /\ Parse(j.to) = b ELSE j.seen = b
  BY <1>1, <1>2, <1>3, ParseNumber
<1>5. Start(j) = j.seen /\ End(j) = b /\ \A t : Asked(j, t) = j.seen..b
  BY <1>3, <1>4, ExactBlocks
<1> QED
  BY <1>2, <1>5

\* What the forger asks for by number.
LEMMA ForgedBlocks ==
  ASSUME NEW n \in 0..MaxInt, NEW j, j.from = Marshal(n), j.method = "logs" => j.to = Marshal(n)
  PROVE  Start(j)..End(j) = {n} /\ \A t : Asked(j, t) = {n}
<1>1. n \in -1..MaxInt /\ n \in n..MaxInt /\ n..n = {n}
  BY UintRange
<1>2. Start(j) = n /\ End(j) = n /\ \A t : Asked(j, t) = n..n
  BY <1>1, ParseMarshal, ExactBlocks
<1> QED
  BY <1>1, <1>2

\* An answer: all that is asked for, or as much of it as a remote at block t has.
Serves(j, blocks, behind) ==
    \E t \in Nat : \E asked \in {Start(j)..End(j), Asked(j, t)} :
        /\ blocks = asked \/ blocks = asked \cap 0..t
        /\ ~behind => blocks = asked

-----------------------------------------------------------------------------
(* The invariant *)

LEMMA JobsOf ==
  ASSUME TypeOK, RoutingInv, NEW s \in Slot, job[s].pc \notin {"idle", "crashed", "answered"}
  PROVE  job[s] \in Active /\ JobInv(job[s])
<1>1. job[s] \notin {Idle, Crashed}
  BY DEF Idle, Crashed
<1> QED
  BY <1>1 DEF TypeOK, RoutingInv

\* A job that goes on: what the parts of the invariant need of it.
LEMMA PutKeeps ==
  ASSUME TypeOK, RoutingInv, NEW s \in Slot,
         job[s].pc \in Routed \cup {"replace", "replaceTo"},
         NEW j \in Active, j.pc \in Routed \cup {"replaceTo", "refused", "lost"},
         j.method = job[s].method, JobInv(j),
         s # "main" /\ job["main"].pc = "gather" => SubInv(job["main"], s, j),
         job' = [job EXCEPT ![s] = j], UNCHANGED <<head, tip, told>>
  PROVE  TypeOK' /\ RoutingInv'
<1>1. job'[s] = j /\ DOMAIN job' = Slot /\ \A t \in Slot \ {s} : job'[t] = job[t]
  BY DEF TypeOK
<1>2. TypeOK'
  BY <1>1 DEF TypeOK
<1>3. \A i : JobInv(i)' <=> JobInv(i)
  BY DEF JobInv
<1>4. \A m, t, i : SubInv(m, t, i)' <=> SubInv(m, t, i)
  BY DEF SubInv
<1>5. \A t \in Slot : job'[t] \notin {Idle, Crashed} => JobInv(job'[t])
  BY <1>1 DEF RoutingInv
<1>6. ForgeInv'
  <2>1. job[s] \notin {Idle, Crashed}
    BY DEF Idle, Crashed, Routed
  <2>2. CASE s = "main"
    <3>1. job["main"].pc # "gather" /\ job'["main"].pc # "gather"
      BY <1>1, <2>2 DEF Routed
    <3>2. job["main"].pc \notin {"forge", "gather", "answered", "refused"}
      BY <2>2 DEF Routed
    <3> QED
      BY <1>1, <2>1, <2>2, <3>1, <3>2 DEF RoutingInv, ForgeInv, Slot
  <2>3. CASE s # "main"
    <3>1. s \in {"logs", "block"} /\ job'["main"] = job["main"]
      BY <1>1, <2>3 DEF Slot
    <3>2. job["main"].pc = "gather"
      BY <3>1 DEF RoutingInv, ForgeInv, Routed
    <3>3. \A t \in {"logs", "block"} : SubInv(job["main"], t, job'[t])
      BY <1>1, <2>3, <3>2 DEF RoutingInv, ForgeInv, Slot
    <3> QED
      BY <1>4, <3>1, <3>2, <3>3 DEF RoutingInv, ForgeInv
  <2> QED
    BY <2>2, <2>3
<1> QED
  BY <1>2, <1>3, <1>5, <1>6 DEF RoutingInv

\* A job that only changes its label.
LEMMA GoKeeps ==
  ASSUME TypeOK, RoutingInv, NEW s \in Slot, NEW pc,
         \/ job[s].pc \in Routed /\ pc \in Routed
         \/ job[s].pc \in Routed \cup {"replace", "replaceTo"} /\ pc \in {"refused", "lost"},
         job[s].method # "blockNumber",
         pc \in {"remote", "upstream"} => Within(job[s], ChainLookback),
         pc = "upstream" => Within(job[s], RemoteLookback),
         Go(s, pc), UNCHANGED <<head, tip>>
  PROVE  TypeOK' /\ RoutingInv'
<1> DEFINE j == [job[s] EXCEPT !.pc = pc]
<1>1. job[s] \in Active /\ JobInv(job[s])
  BY JobsOf DEF Routed
<1>2. /\ j \in Active /\ j.pc = pc /\ j.method = job[s].method /\ j.from = job[s].from
      /\ j.to = job[s].to /\ j.seen = job[s].seen /\ j.came = job[s].came
  BY <1>1 DEF Active, Routed
<1>3. job' = [job EXCEPT ![s] = j] /\ UNCHANGED told
  BY DEF Go, Put
<1> HIDE DEF j
<1>4. AsksLatest(j) <=> AsksLatest(job[s])
  BY <1>2 DEF AsksLatest
<1>5. JobInv(j)
  <2>1. /\ pc \in {"remote", "upstream"} => Within(j, ChainLookback)
        /\ pc = "upstream" => Within(j, RemoteLookback)
    BY <1>2 DEF Within
  <2> QED
    BY <1>1, <1>2, <1>4, <2>1 DEF JobInv, Routed
<1>6. s # "main" /\ job["main"].pc = "gather" => SubInv(job["main"], s, j)
  <2> SUFFICES ASSUME s # "main", job["main"].pc = "gather" PROVE SubInv(job["main"], s, j)
    OBVIOUS
  <2>1. SubInv(job["main"], s, job[s])
    BY DEF RoutingInv, ForgeInv, Slot
  <2> QED
    BY <1>2, <2>1 DEF SubInv, Routed
<1>7. j.pc \in Routed \cup {"replaceTo", "refused", "lost"} /\ job[s].pc \in Routed \cup {"replace", "replaceTo"}
  BY <1>2
<1> QED
  BY <1>2, <1>3, <1>5, <1>6, <1>7, PutKeeps

LEMMA LatestTag == Parse([tag |-> "latest"]) = Latest /\ \A p : p.tag = "latest" => Parse(p) = Latest
BY TagValues DEF Parse, Latest

\* The number of a known head is a parameter.
LEMMA HeadIsParam ==
  ASSUME TypeOK, NEW n \in 1..head PROVE Number(n) \in BlockParam /\ n \in 0..MaxTip
<1>1. n \in 1..MaxInt /\ n \in 0..MaxTip
  BY UintRange DEF TypeOK
<1> QED
  BY <1>1 DEF Number, BlockParam

\* HeadReplacer, for the methods with one block.
LEMMA ReplaceKeeps ==
  ASSUME TypeOK, RoutingInv, NEW s \in Slot, ReplaceBlockNumber(s), job[s].method # "blockNumber"
  PROVE  TypeOK' /\ RoutingInv'
<1> DEFINE known == job[s].method \in {"getBlock", "receipts", "call"}
<1>1. /\ job[s] \in Active /\ JobInv(job[s]) /\ job[s].pc = "replace" /\ job[s].method # "logs"
      /\ job[s].seen = 0 /\ UNCHANGED <<head, tip>>
  <2>1. job[s].pc = "replace" /\ job[s].method # "logs" /\ UNCHANGED <<head, tip>>
    BY DEF ReplaceBlockNumber
  <2>2. job[s] \in Active /\ JobInv(job[s])
    BY <2>1, JobsOf
  <2> QED
    BY <2>1, <2>2 DEF JobInv
<1>2. s # "main" /\ job["main"].pc = "gather" => s = "block" /\ SubInv(job["main"], s, job[s])
  BY <1>1 DEF RoutingInv, ForgeInv, SubInv, Slot
<1>3. CASE Go(s, "refused")
  BY <1>1, <1>3, GoKeeps
<1>4. CASE /\ known /\ Parse(job[s].from) = Latest /\ head > 0
           /\ Put(s, [job[s] EXCEPT !.pc = "cache", !.from = Number(head), !.seen = head])
           /\ UNCHANGED told
  <2> DEFINE j == [job[s] EXCEPT !.pc = "cache", !.from = Number(head), !.seen = head]
  <2>1. Number(head) \in BlockParam /\ head \in 0..MaxTip /\ told <= head /\ head \in Nat /\ told \in Nat
    BY <1>4, HeadIsParam DEF TypeOK
  <2>2. /\ j \in Active /\ j.pc = "cache" /\ j.method = job[s].method /\ j.from = Number(head)
        /\ j.seen = head /\ j.came = job[s].came
    BY <1>1, <2>1 DEF Active, Routed
  <2>3. job' = [job EXCEPT ![s] = j] /\ UNCHANGED told
    BY <1>4 DEF Put
  <2> HIDE DEF j
  <2>4. JobInv(j)
    BY <1>1, <1>4, <2>1, <2>2 DEF JobInv, Routed
  <2>5. s # "main" /\ job["main"].pc = "gather" => SubInv(job["main"], s, j)
    <3> SUFFICES ASSUME s # "main", job["main"].pc = "gather" PROVE SubInv(job["main"], s, j)
      OBVIOUS
    <3> DEFINE n == Parse(job["main"].from)
    <3>1. ~(n >= 0)
      <4> SUFFICES ASSUME n >= 0 PROVE FALSE
        OBVIOUS
      <4>1. job["main"] \in Active /\ Parses(job["main"].from)
        BY JobsOf DEF RoutingInv, ForgeInv, Slot
      <4>2. n \in 0..MaxInt
        BY <4>1, ParseRange, UintRange DEF Active, Parses
      <4>3. job[s].from = Marshal(n)
        BY <1>1, <1>2 DEF SubInv
      <4> QED
        BY <1>4, <4>2, <4>3, ParseMarshal, UintRange DEF Latest
    <3> QED
      BY <1>1, <1>2, <1>4, <2>2, <3>1 DEF SubInv, Routed
  <2> QED
    BY <1>1, <2>2, <2>3, <2>4, <2>5, PutKeeps DEF Routed
<1>5. CASE /\ ~(known /\ Parse(job[s].from) = Latest /\ head > 0) /\ Go(s, "cache")
           /\ ~(known /\ (job[s].from = Absent \/ ~Parses(job[s].from)))
  <2> DEFINE j == [job[s] EXCEPT !.pc = "cache"]
  <2>1. /\ j \in Active /\ j.pc = "cache" /\ j.method = job[s].method /\ j.from = job[s].from
        /\ j.seen = 0 /\ j.came = job[s].came
    BY <1>1 DEF Active, Routed
  <2>2. job' = [job EXCEPT ![s] = j] /\ UNCHANGED told
    BY <1>5 DEF Go, Put
  <2> HIDE DEF j
  <2>3. j.came > 0 => ~AsksLatest(j)
    <3>1. j.came > 0 => head > 0
      BY <1>1, <2>1 DEF JobInv, TypeOK
    <3>2. known \/ j.method = "balance"
      BY <1>1, <2>1 DEF Active
    <3> QED
      BY <1>5, <2>1, <3>1, <3>2, LatestTag DEF AsksLatest
  <2>4. JobInv(j)
    BY <1>1, <2>1, <2>3 DEF JobInv, Routed
  <2>5. s # "main" /\ job["main"].pc = "gather" => SubInv(job["main"], s, j)
    <3> SUFFICES ASSUME s # "main", job["main"].pc = "gather" PROVE SubInv(job["main"], s, j)
      OBVIOUS
    <3>1. SubInv(job["main"], s, job[s]) /\ s = "block" /\ job[s].method = "getBlock"
      BY <1>2 DEF SubInv
    <3>2. Parse(job["main"].from) = Latest /\ job["main"].came > 0 => FALSE
      <4> SUFFICES ASSUME Parse(job["main"].from) = Latest, job["main"].came > 0 PROVE FALSE
        OBVIOUS
      <4>1. job[s].from = Marshal(Latest) /\ job[s].came > 0
        BY <1>1, <3>1 DEF SubInv
      <4>2. Parse(job[s].from) = Latest
        BY <4>1, ParseMarshal, UintRange DEF Latest
      <4> QED
        BY <1>1, <1>5, <3>1, <4>1, <4>2 DEF JobInv, TypeOK
    <3> QED
      BY <1>1, <2>1, <3>1, <3>2 DEF SubInv, Routed
  <2> QED
    BY <1>1, <2>1, <2>2, <2>4, <2>5, PutKeeps DEF Routed
<1> QED
  BY <1>3, <1>4, <1>5 DEF ReplaceBlockNumber

\* HeadReplacer for eth_getLogs: the first read of the head.
LEMMA ReplaceFromKeeps ==
  ASSUME TypeOK, RoutingInv, NEW s \in Slot, ReplaceFrom(s) PROVE TypeOK' /\ RoutingInv'
<1>1. /\ job[s] \in Active /\ JobInv(job[s]) /\ job[s].pc = "replace" /\ job[s].method = "logs"
      /\ UNCHANGED <<head, tip>>
  BY JobsOf DEF ReplaceFrom
<1>2. CASE Go(s, "refused")
  BY <1>1, <1>2, GoKeeps
<1>3. CASE /\ Put(s, [job[s] EXCEPT !.pc = "replaceTo", !.seen = IF IsLatest(job[s].from) THEN head ELSE 0])
           /\ UNCHANGED told
  <2> DEFINE seen == IF IsLatest(job[s].from) THEN head ELSE 0
             j == [job[s] EXCEPT !.pc = "replaceTo", !.seen = seen]
  <2>1. seen \in 0..MaxTip /\ (seen > 0 => seen \in told..head)
    BY DEF TypeOK
  <2>2. /\ j \in Active /\ j.pc = "replaceTo" /\ j.method = "logs" /\ j.from = job[s].from
        /\ j.to = job[s].to /\ j.seen = seen /\ j.came = job[s].came
    BY <1>1, <2>1 DEF Active
  <2>3. job' = [job EXCEPT ![s] = j] /\ UNCHANGED told
    BY <1>3 DEF Put
  <2> HIDE DEF j
  <2>4. JobInv(j)
    BY <1>1, <2>1, <2>2 DEF JobInv, Routed
  <2>5. s # "main" /\ job["main"].pc = "gather" => SubInv(job["main"], s, j)
    <3> SUFFICES ASSUME s # "main", job["main"].pc = "gather" PROVE SubInv(job["main"], s, j)
      OBVIOUS
    <3> DEFINE n == Parse(job["main"].from)
    <3>1. s = "logs" /\ SubInv(job["main"], s, job[s])
      BY <1>1 DEF RoutingInv, ForgeInv, SubInv, Slot
    <3>2. ASSUME n >= 0 PROVE seen = 0
      <4>1. job["main"] \in Active /\ Parses(job["main"].from)
        BY JobsOf DEF RoutingInv, ForgeInv, Slot
      <4>2. n \in 0..MaxInt
        BY <3>2, <4>1, ParseRange, UintRange DEF Active, Parses
      <4>3. job[s].from = Marshal(n)
        BY <1>1, <3>1, <3>2 DEF SubInv
      <4>4. n \in -1..MaxInt /\ n # -1
        BY <4>2, UintRange
      <4>5. ~IsLatest(job[s].from)
        BY <4>3, <4>4, ParseMarshal DEF IsLatest, Latest
      <4> QED
        BY <4>5
    <3> QED
      BY <1>1, <2>2, <3>1, <3>2 DEF SubInv, Routed
  <2> QED
    BY <1>1, <2>2, <2>3, <2>4, <2>5, PutKeeps
<1> QED
  BY <1>2, <1>3 DEF ReplaceFrom

\* The second read.
LEMMA ReplaceToKeeps ==
  ASSUME TypeOK, RoutingInv, NEW s \in Slot, ReplaceTo(s) PROVE TypeOK' /\ RoutingInv'
<1>1. /\ job[s] \in Active /\ JobInv(job[s]) /\ job[s].pc = "replaceTo"
      /\ UNCHANGED <<head, tip, told>>
  BY JobsOf DEF ReplaceTo
<1>2. /\ job[s].method = "logs" /\ job[s].seen \in Nat
      /\ job[s].seen > 0 => job[s].seen \in told..head
      /\ job[s].came > 0 /\ IsLatest(job[s].from) => job[s].seen > 0
  BY <1>1 DEF JobInv, Active
<1>3. s # "main" /\ job["main"].pc = "gather" => s = "logs" /\ SubInv(job["main"], s, job[s])
  BY <1>2 DEF RoutingInv, ForgeInv, SubInv, Slot
<1>4. CASE /\ job[s].seen > 0 /\ IsLatest(job[s].to)
           /\ Put(s, [job[s] EXCEPT !.pc = "cache", !.from = Number(job[s].seen), !.to = Number(head)])
  <2> DEFINE j == [job[s] EXCEPT !.pc = "cache", !.from = Number(job[s].seen), !.to = Number(head)]
  <2>1. job[s].seen \in 1..head /\ head \in 1..head /\ head \in job[s].seen..head
    BY <1>2, <1>4 DEF TypeOK
  <2>2. Number(job[s].seen) \in BlockParam /\ Number(head) \in BlockParam
    BY <2>1, HeadIsParam
  <2>3. /\ j \in Active /\ j.pc = "cache" /\ j.method = "logs" /\ j.from = Number(job[s].seen)
        /\ j.to = Number(head) /\ j.seen = job[s].seen /\ j.came = job[s].came
    BY <1>1, <1>2, <2>2 DEF Active, Routed
  <2>4. job' = [job EXCEPT ![s] = j]
    BY <1>4 DEF Put
  <2> HIDE DEF j
  <2>5. JobInv(j)
    BY <1>1, <1>2, <1>4, <2>1, <2>3 DEF JobInv, Routed
  <2>6. s # "main" /\ job["main"].pc = "gather" => SubInv(job["main"], s, j)
    BY <1>1, <1>2, <1>3, <1>4, <2>3 DEF SubInv, Routed
  <2> QED
    BY <1>1, <1>2, <2>3, <2>4, <2>5, <2>6, PutKeeps DEF Routed
<1>5. CASE /\ ~(job[s].seen > 0 /\ IsLatest(job[s].to))
           /\ Put(s, [job[s] EXCEPT !.pc = "cache", !.seen = 0])
  <2> DEFINE j == [job[s] EXCEPT !.pc = "cache", !.seen = 0]
  <2>1. /\ j \in Active /\ j.pc = "cache" /\ j.method = "logs" /\ j.from = job[s].from
        /\ j.to = job[s].to /\ j.seen = 0 /\ j.came = job[s].came
    <3>1. 0 \in 0..MaxTip
      OBVIOUS
    <3> QED
      BY <1>1, <1>2, <3>1 DEF Active, Routed
  <2>2. job' = [job EXCEPT ![s] = j]
    BY <1>5 DEF Put
  <2> HIDE DEF j
  <2>3. j.came > 0 => ~AsksLatest(j)
    BY <1>2, <1>5, <2>1, LatestTag DEF AsksLatest, IsLatest
  <2>4. JobInv(j)
    BY <1>1, <2>1, <2>3 DEF JobInv, Routed
  <2>5. s # "main" /\ job["main"].pc = "gather" => SubInv(job["main"], s, j)
    BY <1>1, <1>2, <1>3, <2>1 DEF SubInv, Routed
  <2> QED
    BY <1>1, <1>2, <2>1, <2>2, <2>4, <2>5, PutKeeps DEF Routed
<1> QED
  BY <1>4, <1>5 DEF ReplaceTo

LEMMA AnswerEffect ==
  ASSUME TypeOK, NEW s \in Slot, NEW blocks, NEW logs, NEW behind,
         Answer(s, blocks, logs, behind)
  PROVE  /\ DOMAIN job' = Slot /\ \A t \in Slot \ {s} : job'[t] = job[t]
         /\ job'[s].pc = "answered" /\ job'[s].method = job[s].method
         /\ job'[s].from = job[s].from /\ job'[s].to = job[s].to /\ job'[s].filter = job[s].filter
         /\ job'[s].came = job[s].came
         /\ job'[s].blocks = blocks /\ job'[s].logs = logs /\ job'[s].behind = behind
         /\ job'[s].latest <=> (AsksLatest(job[s]) \/ job[s].seen > 0)
         /\ told' = IF s = "main" /\ job'[s].latest /\ job[s].came > 0 /\ blocks # {}
                    THEN MaxOf({told} \cup blocks) ELSE told
<1>1. /\ job' = [job EXCEPT ![s] =
           [pc |-> "answered", method |-> job[s].method, from |-> job[s].from, to |-> job[s].to,
            filter |-> job[s].filter, came |-> job[s].came,
            latest |-> AsksLatest(job[s]) \/ job[s].seen > 0,
            blocks |-> blocks, logs |-> logs, behind |-> behind]]
      /\ told' = IF s = "main" /\ job'[s].latest /\ job[s].came > 0 /\ blocks # {}
                 THEN MaxOf({told} \cup blocks) ELSE told
  BY DEF Answer, Put
<1>2. DOMAIN job = Slot
  BY DEF TypeOK
<1>3. job'[s].latest <=> (AsksLatest(job[s]) \/ job[s].seen > 0)
  BY <1>1, <1>2, Zenon
<1> QED
  BY <1>1, <1>2, <1>3

LEMMA AnswerFields ==
  ASSUME TypeOK, NEW s \in Slot, NEW blocks, NEW logs, NEW behind,
         Answer(s, blocks, logs, behind)
  PROVE  /\ job'[s].method = job[s].method /\ job'[s].from = job[s].from
         /\ job'[s].to = job[s].to /\ job'[s].filter = job[s].filter
         /\ job'[s].blocks = blocks /\ job'[s].logs = logs /\ job'[s].behind = behind
BY DEF Answer, Put, TypeOK

\* A job that is answered: by the store, by a remote, or with the number of the head.
LEMMA AnswerKeeps ==
  ASSUME TypeOK, RoutingInv, NEW s \in Slot, NEW blocks, NEW logs, NEW behind,
         \/ job[s].pc \in Routed /\ Serves(job[s], blocks, behind)
         \/ job[s].pc = "replace" /\ job[s].method = "blockNumber" /\ blocks = {head} \ {0},
         Answer(s, blocks, logs, behind), UNCHANGED <<head, tip>>
  PROVE  /\ TypeOK' /\ RoutingInv'
         /\ s = "main" /\ job'[s].latest /\ job'[s].came > 0 /\ blocks # {} => MaxOf(blocks) >= told
<1>0. /\ DOMAIN job' = Slot /\ \A t \in Slot \ {s} : job'[t] = job[t]
      /\ job'[s].pc = "answered" /\ job'[s].method = job[s].method
      /\ job'[s].came = job[s].came /\ job'[s].blocks = blocks /\ job'[s].behind = behind
  BY AnswerEffect
<1>1. job[s] \in Active /\ JobInv(job[s])
  BY JobsOf DEF Routed
<1>2. job[s].seen \in Nat /\ told \in Nat /\ head \in Nat
  BY <1>1 DEF Active, TypeOK
<1>3. job[s].pc \in Routed /\ job[s].seen > 0 =>
        \E b \in job[s].seen..head :
          (blocks = {} \/ blocks = job[s].seen..b) /\ (job[s].method # "logs" => b = job[s].seen)
  <2> SUFFICES ASSUME job[s].pc \in Routed, job[s].seen > 0
               PROVE  \E b \in job[s].seen..head :
                        (blocks = {} \/ blocks = job[s].seen..b) /\ (job[s].method # "logs" => b = job[s].seen)
    OBVIOUS
  <2>1. PICK b \in job[s].seen..head :
          /\ Start(job[s]) = job[s].seen /\ End(job[s]) = b /\ \A t : Asked(job[s], t) = job[s].seen..b
          /\ job[s].method # "logs" => b = job[s].seen
    BY <1>1, SeenBlocks
  <2>2. PICK t \in Nat : blocks = job[s].seen..b \/ blocks = (job[s].seen..b) \cap 0..t
    BY <2>1 DEF Serves, Routed
  <2>3. CASE blocks = job[s].seen..b
    BY <2>1, <2>3
  <2>4. CASE blocks = (job[s].seen..b) \cap 0..t
    <3>1. CASE t < job[s].seen
      <4>1. blocks = {}
        BY <1>2, <2>4, <3>1
      <4> QED
        BY <2>1, <4>1
    <3>2. CASE t >= job[s].seen /\ t <= b
      <4>1. blocks = job[s].seen..t /\ t \in job[s].seen..head /\ (job[s].method # "logs" => t = job[s].seen)
        BY <1>2, <2>1, <2>4, <3>2
      <4> QED
        BY <4>1
    <3>3. CASE t > b
      <4>1. blocks = job[s].seen..b
        BY <1>2, <2>1, <2>4, <3>3
      <4> QED
        BY <2>1, <4>1
    <3> QED
      BY <1>2, <2>1, <3>1, <3>2, <3>3
  <2> QED
    BY <2>2, <2>3, <2>4
<1>4. ASSUME job'[s].latest, job[s].came > 0, blocks # {}
      PROVE  \E b \in told..head : MaxOf(blocks) = b /\ MaxOf({told} \cup blocks) = b
  <2>1. CASE job[s].pc \in Routed
    <3>0. AsksLatest(job[s]) \/ job[s].seen > 0
      BY <1>4, AnswerEffect
    <3>1. job[s].seen > 0
      BY <1>1, <1>2, <1>4, <2>1, <3>0 DEF JobInv
    <3>2. PICK b \in job[s].seen..head : blocks = job[s].seen..b
      BY <1>3, <1>4, <2>1, <3>1
    <3>3. job[s].seen \in told..head
      BY <1>1, <2>1, <3>1 DEF JobInv
    <3>4. b \in told..head /\ b \in blocks /\ blocks \subseteq Int /\ \A n \in blocks : n <= b
      BY <1>2, <3>2, <3>3
    <3>5. /\ {told} \cup blocks \subseteq Int /\ b \in {told} \cup blocks
          /\ \A n \in {told} \cup blocks : n <= b
      BY <1>2, <3>4
    <3> QED
      BY <3>4, <3>5, MaxOfIs
  <2>2. CASE blocks = {head} \ {0}
    <3>1. blocks = {head} /\ head \in told..head
      BY <1>2, <1>4, <2>2 DEF TypeOK
    <3>2. /\ blocks \subseteq Int /\ head \in blocks /\ \A n \in blocks : n <= head
          /\ {told} \cup blocks \subseteq Int /\ head \in {told} \cup blocks
          /\ \A n \in {told} \cup blocks : n <= head
      BY <1>2, <3>1
    <3> QED
      BY <3>1, <3>2, MaxOfIs
  <2> QED
    BY <2>1, <2>2
<1>5. told' \in 0..head /\ (s # "main" => told' = told)
  <2>1. told \in 0..head
    BY DEF TypeOK
  <2>2. CASE s = "main" /\ job'[s].latest /\ job[s].came > 0 /\ blocks # {}
    BY <1>2, <1>4, <2>2, AnswerEffect
  <2>3. CASE ~(s = "main" /\ job'[s].latest /\ job[s].came > 0 /\ blocks # {})
    <3>1. told' = told
      BY <2>3, AnswerEffect
    <3> QED
      BY <2>1, <3>1
  <2> QED
    BY <2>2, <2>3, AnswerEffect
<1>6. TypeOK'
  BY <1>0, <1>5 DEF TypeOK
<1>7. JobInv(job[s])'
  <2>1. job'[s].came \in 0..head'
    BY <1>0, <1>1 DEF JobInv
  <2> QED
    BY <1>0, <2>1 DEF JobInv, Routed
<1>8. CASE s = "main"
  <2>1. \A t \in {"logs", "block"} : job[t].pc \in {"idle", "crashed", "answered", "refused"} /\ job'[t] = job[t]
    BY <1>8, AnswerEffect, ZenonT(40) DEF RoutingInv, ForgeInv, Routed, Slot
  <2>2. \A t \in {"logs", "block"} : job[t] \notin {Idle, Crashed} => JobInv(job[t])'
    <3> SUFFICES ASSUME NEW t \in {"logs", "block"}, job[t] \notin {Idle, Crashed} PROVE JobInv(job[t])'
      OBVIOUS
    <3>1. JobInv(job[t])
      BY DEF RoutingInv, Slot
    <3> QED
      BY <2>1, <3>1 DEF JobInv, Routed
  <2>3. ForgeInv'
    BY <1>8, <2>1, AnswerEffect DEF ForgeInv
  <2> QED
    <3>1. RoutingInv'
      BY <1>7, <1>8, <2>1, <2>2, <2>3 DEF RoutingInv, Slot
    <3>2. job'[s].latest /\ job'[s].came > 0 /\ blocks # {} => MaxOf(blocks) >= told
      <4> SUFFICES ASSUME job'[s].latest, job'[s].came > 0, blocks # {} PROVE MaxOf(blocks) >= told
        OBVIOUS
      <4>1. PICK b \in told..head : MaxOf(blocks) = b
        BY <1>0, <1>4
      <4> QED
        BY <1>2, <4>1
    <3> QED
      BY <1>6, <3>1, <3>2
<1>9. CASE s # "main"
  <2>1. s \in {"logs", "block"} /\ job'["main"] = job["main"] /\ UNCHANGED told
    BY <1>5, <1>9, AnswerEffect DEF Slot
  <2>2. job["main"].pc = "gather" /\ SubInv(job["main"], s, job[s])
    BY <2>1 DEF RoutingInv, ForgeInv, Routed
  <2>3. job[s].pc \in Routed
    BY <2>2 DEF SubInv
  <2>4. job["main"] \in Active /\ JobInv(job["main"])
    BY <2>2, JobsOf DEF Slot
  <2> DEFINE n == Parse(job["main"].from)
  <2>5. n >= 0 => blocks \subseteq {n} /\ (~behind => blocks = {n})
    <3> SUFFICES ASSUME n >= 0 PROVE blocks \subseteq {n} /\ (~behind => blocks = {n})
      OBVIOUS
    <3>1. n \in 0..MaxInt
      BY <2>2, <2>4, ParseRange, UintRange DEF Active, Parses, RoutingInv, ForgeInv
    <3>2. job[s].from = Marshal(n) /\ (job[s].method = "logs" => job[s].to = Marshal(n))
      BY <2>1, <2>2, <2>3 DEF SubInv, Routed
    <3> HIDE DEF n
    <3>3. Start(job[s])..End(job[s]) = {n} /\ \A t : Asked(job[s], t) = {n}
      BY <3>1, <3>2, ForgedBlocks
    <3> QED
      BY <2>3, <3>3 DEF Serves, Routed
  <2>6. s = "block" /\ n = Latest /\ job["main"].came > 0 => \E m \in told..head : blocks \subseteq {m}
    <3> SUFFICES ASSUME s = "block", n = Latest, job["main"].came > 0
                 PROVE  \E m \in told..head : blocks \subseteq {m}
      OBVIOUS
    <3>1. job[s].seen > 0 /\ job[s].method = "getBlock"
      BY <2>2, <2>3 DEF SubInv, Routed
    <3>2. job[s].seen \in told..head /\ (blocks = {} \/ blocks = job[s].seen..job[s].seen)
      BY <1>1, <1>3, <2>3, <3>1 DEF JobInv
    <3> QED
      BY <1>2, <3>2
  <2>7. \A m, t, i : SubInv(m, t, i)' <=> SubInv(m, t, i)
    BY <2>1 DEF SubInv
  <2>8. SubInv(job["main"], s, job'[s])
    <3>1. /\ job[s].came = job["main"].came
          /\ job[s].method = IF s = "logs" THEN "logs" ELSE "getBlock"
      BY <2>2 DEF SubInv
    <3> QED
      BY <1>0, <2>5, <2>6, <3>1 DEF SubInv
  <2>9. ForgeInv'
    BY <1>9, <2>1, <2>2, <2>7, <2>8, AnswerEffect DEF RoutingInv, ForgeInv, Slot
  <2>10. \A i : JobInv(i)' <=> JobInv(i)
    BY <2>1 DEF JobInv
  <2>11. \A t \in Slot : job'[t] \notin {Idle, Crashed} => JobInv(job'[t])
    <3> SUFFICES ASSUME NEW t \in Slot, job'[t] \notin {Idle, Crashed} PROVE JobInv(job'[t])
      OBVIOUS
    <3>1. CASE t = s
      BY <1>7, <2>1, <3>1 DEF JobInv
    <3>2. CASE t # s
      BY <1>0, <3>2 DEF RoutingInv
    <3> QED
      BY <3>1, <3>2
  <2>12. \A t \in Slot : (job[t] \notin {Idle, Crashed} => JobInv(job[t]))'
    BY <2>1, <2>11 DEF JobInv
  <2> QED
    BY <1>6, <1>9, <2>9, <2>12 DEF RoutingInv
<1> QED
  BY <1>8, <1>9

\* The receipts of the forger.
LEMMA GatherKeeps ==
  ASSUME TypeOK, RoutingInv, Gather
  PROVE  /\ TypeOK' /\ RoutingInv'
         /\ (Answered("main")' /\ job'["main"].latest /\ job'["main"].came > 0
              /\ job'["main"].blocks # {}) => MaxOf(job'["main"].blocks) >= told
<1> DEFINE main == job["main"]
<1>1. /\ main.pc = "gather" /\ UNCHANGED <<head, tip>>
      /\ \A s \in {"logs", "block"} : job[s].pc \in {"answered", "refused"}
  BY DEF Gather
<1>2. main \in Active /\ JobInv(main)
  BY <1>1, JobsOf DEF Slot
<1>3. \A s \in {"logs", "block"} : SubInv(main, s, job[s]) /\ JobInv(job[s])
  BY <1>1 DEF RoutingInv, ForgeInv, Idle, Crashed, Slot
<1>4. main.method = "receipts" /\ main.seen = 0
  BY <1>1, <1>2 DEF JobInv
<1>5. ASSUME UNCHANGED <<head, tip>>, told' \in 0..head,
             DOMAIN job' = Slot, \A t \in Slot \ {"main"} : job'[t] = job[t],
             job'["main"] \in Active \/ job'["main"].pc = "answered",
             job'["main"].pc \in {"answered", "refused"}, job'["main"].method = main.method,
             job'["main"].came = main.came
      PROVE  TypeOK' /\ RoutingInv'
  <2>1. TypeOK'
    BY <1>5 DEF TypeOK
  <2>2. \A t \in {"logs", "block"} : job'[t] = job[t] /\ job'[t].pc \in {"answered", "refused"}
    BY <1>1, <1>5 DEF Slot
  <2>3. ForgeInv'
    BY <1>5, <2>2 DEF ForgeInv
  <2>4. \A t \in {"logs", "block"} : JobInv(job[t])'
    <3> SUFFICES ASSUME NEW t \in {"logs", "block"} PROVE JobInv(job[t])'
      OBVIOUS
    <3>1. job[t].came \in 0..head /\ job[t].method # "blockNumber"
      BY <1>3 DEF JobInv, SubInv
    <3> QED
      BY <1>5, <2>2, <3>1 DEF JobInv, Routed
  <2>5. JobInv(job["main"])'
    <3>1. main.came \in 0..head
      BY <1>2 DEF JobInv
    <3> QED
      BY <1>4, <1>5, <3>1 DEF JobInv, Routed
  <2> QED
    BY <2>1, <2>3, <2>4, <2>5 DEF RoutingInv, Slot
<1>6. CASE Go("main", "refused")
  <2>1. job' = [job EXCEPT !["main"] = [main EXCEPT !.pc = "refused"]] /\ told' = told
    BY <1>6 DEF Go, Put
  <2>2. DOMAIN job' = Slot /\ (\A t \in Slot \ {"main"} : job'[t] = job[t])
        /\ job'["main"] = [main EXCEPT !.pc = "refused"]
    BY <2>1 DEF TypeOK, Slot
  <2>3. /\ job'["main"] \in Active /\ job'["main"].pc = "refused"
        /\ job'["main"].method = main.method
        /\ job'["main"].came = main.came
    BY <1>2, <2>2 DEF Active
  <2>4. told' \in 0..head
    BY <2>1 DEF TypeOK
  <2> QED
    BY <1>1, <1>5, <2>2, <2>3, <2>4 DEF Answered
<1>7. CASE /\ Answer("main", job["block"].blocks, job["logs"].blocks \cap job["block"].blocks,
                     job["logs"].behind)
           /\ job["block"].pc = "answered"
  <2> DEFINE blocks == job["block"].blocks
  <2>1. /\ DOMAIN job' = Slot /\ \A t \in Slot \ {"main"} : job'[t] = job[t]
        /\ job'["main"].pc = "answered" /\ job'["main"].method = main.method
        /\ job'["main"].came = main.came
        /\ job'["main"].blocks = blocks
        /\ job'["main"].latest <=> (AsksLatest(main) \/ main.seen > 0)
        /\ told' = IF job'["main"].latest /\ main.came > 0 /\ blocks # {}
                   THEN MaxOf({told} \cup blocks) ELSE told
    <3>1. "main" \in Slot
      BY DEF Slot
    <3>2. told' = IF "main" = "main" /\ job'["main"].latest /\ main.came > 0 /\ blocks # {}
                  THEN MaxOf({told} \cup blocks) ELSE told
      BY <1>7, <3>1, AnswerEffect, ZenonT(40)
    <3>3. job'["main"].latest <=> (AsksLatest(main) \/ main.seen > 0)
      BY <1>7, <3>1, AnswerEffect
    <3>4. /\ DOMAIN job' = Slot /\ \A t \in Slot \ {"main"} : job'[t] = job[t]
          /\ job'["main"].pc = "answered" /\ job'["main"].method = main.method
          /\ job'["main"].came = main.came
          /\ job'["main"].blocks = blocks
      BY <1>7, <3>1, AnswerEffect
    <3> QED
      BY <3>2, <3>3, <3>4
  <2>2. told \in 0..head /\ head \in Nat /\ told \in Nat
    BY DEF TypeOK
  <2>3. ASSUME job'["main"].latest, main.came > 0, blocks # {}
        PROVE  \E b \in told..head : MaxOf(blocks) = b /\ MaxOf({told} \cup blocks) = b
    <3>1. Parse(main.from) = Latest
      BY <1>4, <2>1, <2>3, LatestTag DEF AsksLatest
    <3>2. PICK m \in told..head : blocks = {m}
      <4>1. PICK m \in told..head : blocks \subseteq {m}
        BY <1>3, <1>7, <2>3, <3>1 DEF SubInv
      <4> QED
        BY <2>3, <4>1
    <3>3. /\ blocks \subseteq Int /\ m \in blocks /\ \A n \in blocks : n <= m
          /\ {told} \cup blocks \subseteq Int /\ m \in {told} \cup blocks
          /\ \A n \in {told} \cup blocks : n <= m
      BY <2>2, <3>2
    <3> QED
      BY <3>3, MaxOfIs
  <2>4. told' \in 0..head
    <3>1. CASE job'["main"].latest /\ main.came > 0 /\ blocks # {}
      <4>1. PICK b \in told..head : MaxOf({told} \cup blocks) = b
        BY <2>3, <3>1
      <4> QED
        BY <2>1, <2>2, <3>1, <4>1
    <3>2. CASE ~(job'["main"].latest /\ main.came > 0 /\ blocks # {})
      BY <2>1, <2>2, <3>2
    <3> QED
      BY <3>1, <3>2
  <2>5. job'["main"].latest /\ job'["main"].came > 0 /\ blocks # {} => MaxOf(blocks) >= told
    BY <2>1, <2>2, <2>3
  <2>6. TypeOK' /\ RoutingInv'
    BY <1>1, <1>5, <2>1, <2>4
  <2> QED
    BY <2>1, <2>5, <2>6
<1> QED
  BY <1>1, <1>6, <1>7 DEF Gather

\* What MarshalJSON writes is a parameter.
LEMMA MarshalIsParam ==
  ASSUME NEW n \in -5..MaxInt PROVE Marshal(n) \in BlockParam
<1>1. CASE n > 0
  BY <1>1 DEF Marshal, Number, BlockParam
<1>2. CASE ~(n > 0)
  <2>1. n \in {-5, -4, -3, -2, -1, 0}
    BY <1>2, UintRange
  <2>2. \E t \in DOMAIN Tags : Tags[t] = n
    BY <2>1 DEF Tags, Latest, Pending, Safe, Finalized, LatestExecuted, Earliest
  <2>3. (CHOOSE t \in DOMAIN Tags : Tags[t] = n) \in DOMAIN Tags
    BY <2>2
  <2> QED
    BY <1>2, <2>3 DEF Marshal, BlockParam
<1> QED
  BY <1>1, <1>2

\* The forger splits a request into two, or passes it on.
LEMMA ForgeKeeps ==
  ASSUME TypeOK, RoutingInv, Forge PROVE TypeOK' /\ RoutingInv'
<1> DEFINE main == job["main"]
<1>1. main.pc = "forge" /\ UNCHANGED <<head, tip, told>>
  BY DEF Forge, Go
<1>2. main \in Active /\ JobInv(main)
  BY <1>1, JobsOf DEF Slot
<1>3. main.seen = 0 /\ main.method = "receipts" /\ main \notin {Idle, Crashed}
  BY <1>1, <1>2 DEF JobInv, Idle, Crashed
<1>4. \A t \in {"logs", "block"} : job[t].pc \in {"idle", "crashed", "answered", "refused"}
  BY <1>1 DEF RoutingInv, ForgeInv
<1>5. \A i : JobInv(i)' <=> JobInv(i)
  BY <1>1 DEF JobInv
<1>6. \A m, t, i : SubInv(m, t, i)' <=> SubInv(m, t, i)
  BY <1>1 DEF SubInv
<1>7. ASSUME NEW pc \in {"replace", "refused"}, Go("main", pc),
             pc = "replace" => ~ForgeBlockReceipts
      PROVE  TypeOK' /\ RoutingInv'
  <2> DEFINE j == [main EXCEPT !.pc = pc]
  <2>1. job' = [job EXCEPT !["main"] = j]
    BY <1>7 DEF Go, Put
  <2>2. /\ j \in Active /\ j.pc = pc /\ j.method = "receipts" /\ j.seen = 0 /\ j.came = main.came
    BY <1>2, <1>3 DEF Active
  <2>3. job'["main"] = j /\ DOMAIN job' = Slot /\ \A t \in Slot \ {"main"} : job'[t] = job[t]
    BY <2>1 DEF TypeOK, Slot
  <2> HIDE DEF j
  <2>4. TypeOK'
    BY <1>1, <2>2, <2>3 DEF TypeOK
  <2>5. JobInv(j)
    BY <1>2, <2>2 DEF JobInv, Routed
  <2>6. \A t \in Slot : job'[t] \notin {Idle, Crashed} => JobInv(job'[t])
    BY <2>3, <2>5 DEF RoutingInv
  <2>7. ForgeInv'
    BY <1>4, <1>7, <2>2, <2>3 DEF ForgeInv, Slot
  <2> QED
    BY <1>5, <2>4, <2>6, <2>7 DEF RoutingInv
<1>8. CASE Parses(main.from) /\ job' = Forged(TRUE)
  <2> DEFINE n == Parse(main.from)
             logs == [main EXCEPT !.pc = "replace", !.method = "logs", !.from = Marshal(n), !.to = Marshal(n)]
             block == [main EXCEPT !.pc = "replace", !.method = "getBlock", !.from = Marshal(n), !.to = Absent]
             gather == [main EXCEPT !.pc = "gather"]
  <2>1. job' = [main |-> gather, logs |-> logs, block |-> block]
    BY <1>8 DEF Forged
  <2>2. Marshal(n) \in BlockParam /\ Absent \in BlockParam
    <3>1. n \in -5..MaxInt
      BY <1>2, <1>8, ParseRange, UintRange DEF Active, Parses
    <3> HIDE DEF n
    <3> QED
      BY <3>1, MarshalIsParam DEF Absent, BlockParam
  <2>3. /\ gather \in Active /\ gather.pc = "gather" /\ gather.method = "receipts" /\ gather.seen = 0
        /\ gather.came = main.came /\ gather.from = main.from
    BY <1>2, <1>3 DEF Active
  <2>4. /\ logs \in Active /\ logs.pc = "replace" /\ logs.method = "logs" /\ logs.seen = 0
        /\ logs.came = main.came /\ logs.from = Marshal(n) /\ logs.to = Marshal(n)
    BY <1>2, <1>3, <2>2 DEF Active
  <2>5. /\ block \in Active /\ block.pc = "replace" /\ block.method = "getBlock" /\ block.seen = 0
        /\ block.came = main.came /\ block.from = Marshal(n)
    BY <1>2, <1>3, <2>2 DEF Active
  <2>6. DOMAIN job' = Slot /\ job'["main"] = gather /\ job'["logs"] = logs /\ job'["block"] = block
    BY <2>1 DEF Slot
  <2> HIDE DEF logs, block, gather
  <2>7. TypeOK'
    BY <1>1, <2>3, <2>4, <2>5, <2>6 DEF TypeOK, Slot
  <2>8. JobInv(gather) /\ JobInv(logs) /\ JobInv(block)
    <3>1. main.came \in 0..head
      BY <1>2 DEF JobInv
    <3>2. JobInv(gather)
      BY <2>3, <3>1 DEF JobInv, Routed
    <3>3. JobInv(logs)
      BY <2>4, <3>1 DEF JobInv, Routed
    <3>4. JobInv(block)
      BY <2>5, <3>1 DEF JobInv, Routed
    <3> QED
      BY <3>2, <3>3, <3>4
  <2>9. SubInv(gather, "logs", logs) /\ SubInv(gather, "block", block)
    BY <2>3, <2>4, <2>5 DEF SubInv, Routed
  <2>10. ForgeInv'
    BY <1>6, <1>8, <2>3, <2>6, <2>9 DEF ForgeInv
  <2>11. \A t \in Slot : JobInv(job'[t])
    BY <2>6, <2>8 DEF Slot
  <2> QED
    BY <1>5, <2>7, <2>10, <2>11 DEF RoutingInv
<1> QED
  BY <1>1, <1>7, <1>8 DEF Forge

\* The chain grows, and the head store learns of it, between any two steps of a job.
LEMMA HeadsMove ==
  ASSUME TypeOK, RoutingInv, Grow \/ Learn PROVE TypeOK' /\ RoutingInv'
<1>1. UNCHANGED <<job, told>> /\ head' >= head /\ tip' >= tip
  BY DEF Grow, Learn, TypeOK
<1>2. TypeOK'
  BY DEF Grow, Learn, TypeOK
<1>3. told \in Nat /\ head \in Nat /\ head' \in Nat /\ tip \in Nat /\ tip' \in Nat
  BY <1>1, <1>2 DEF TypeOK
<1>4. ASSUME NEW j, JobInv(j), j \in Active \/ j.pc = "answered" PROVE JobInv(j)'
  <2>1. CASE j \in Active
    <3>1. j.came \in Nat /\ j.seen \in Nat
      BY <2>1 DEF Active
    <3>2. \A n \in j.seen..head : n \in j.seen..head'
      BY <1>1, <1>3, <3>1
    <3>3. j.came \in 0..head'
      BY <1>1, <1>3, <1>4, <3>1 DEF JobInv
    <3>4. j.pc \in Routed \cup {"replaceTo"} /\ j.seen > 0 => j.seen \in told..head'
      BY <1>1, <1>3, <1>4, <3>1 DEF JobInv
    <3>5. j.pc \in Routed /\ j.seen > 0 =>
            /\ j.from = Number(j.seen)
            /\ j.method = "logs" => \E n \in j.seen..head' : j.to = Number(n)
      BY <1>4, <3>2 DEF JobInv
    <3>6. \A l : Within(j, l)' <=> Within(j, l)
      BY DEF Within
    <3> QED
      BY <1>1, <1>4, <3>3, <3>4, <3>5, <3>6 DEF JobInv
  <2>2. CASE j.pc = "answered"
    <3>1. j.came \in 0..head'
      BY <1>1, <1>3, <1>4, <2>2 DEF JobInv
    <3> QED
      BY <2>2, <3>1 DEF JobInv, Routed
  <2> QED
    BY <1>4, <2>1, <2>2
<1>5. ForgeInv'
  <2>1. \A m, t, i : SubInv(m, t, i) => SubInv(m, t, i)'
    BY <1>1, <1>3 DEF SubInv
  <2> QED
    BY <1>1, <2>1 DEF RoutingInv, ForgeInv
<1>6. \A s \in Slot : job[s] \notin {Idle, Crashed} => JobInv(job[s])'
  BY <1>1, <1>4 DEF RoutingInv, TypeOK
<1> QED
  BY <1>1, <1>2, <1>5, <1>6 DEF RoutingInv

LEMMA ArriveKeeps ==
  ASSUME TypeOK, RoutingInv,
         NEW method \in {"getBlock", "receipts", "call", "balance", "logs", "blockNumber"},
         NEW from \in BlockParam, NEW to \in BlockParam, NEW filter \in Filter \cup {NoFilter},
         Arrive(method, from, to, filter)
  PROVE  TypeOK' /\ RoutingInv'
<1> DEFINE j == [pc |-> IF method = "receipts" THEN "forge" ELSE "replace",
                 method |-> method, from |-> from, to |-> to, filter |-> filter,
                 seen |-> 0, came |-> head]
<1>1. /\ job' = [s \in Slot |-> IF s # "main" THEN Idle ELSE j] /\ UNCHANGED <<head, tip, told>>
  BY DEF Arrive
<1>2. /\ j \in Active /\ j.pc = (IF method = "receipts" THEN "forge" ELSE "replace")
      /\ j.method = method /\ j.seen = 0 /\ j.came = head
  <2>1. head \in 0..MaxTip /\ 0 \in 0..MaxTip
    BY DEF TypeOK
  <2> QED
    BY <2>1 DEF Active
<1>4. /\ DOMAIN job' = Slot /\ job'["main"] = j /\ job'["logs"] = Idle /\ job'["block"] = Idle
  BY <1>1 DEF Slot
<1> HIDE DEF j
<1>5. TypeOK'
  BY <1>1, <1>2, <1>4 DEF TypeOK, Slot
<1>6. JobInv(j)
  <2>1. head \in 0..head
    BY DEF TypeOK
  <2> QED
    BY <1>2, <2>1 DEF JobInv, Routed
<1>7. JobInv(job["main"])'
  BY <1>1, <1>4, <1>6 DEF JobInv
<1>8. ForgeInv'
  BY <1>2, <1>4 DEF ForgeInv, Idle
<1> QED
  BY <1>4, <1>5, <1>7, <1>8 DEF RoutingInv, Slot

\* The stricter of the two limits is the one that is applied.
LEMMA EffectiveIsStrict ==
  ASSUME RemoteLookback > 0
  PROVE  LET limit == Effective(ChainLookback, RemoteLookback)
         IN  /\ limit \in Nat /\ limit > 0
             /\ \A l \in {ChainLookback, RemoteLookback} \ {0} : limit <= l
BY DEF Effective

\* A number that is not too old is within the limit, whatever the difference of
\* unsigned numbers does when the limit is greater than the head.
LEMMA NotTooOld ==
  ASSUME TypeOK, NEW n \in Nat, NEW limit \in Nat, ~TooOld(n, limit)
  PROVE  n >= head - limit
<1>1. n > 0 /\ n >= Uint(head - limit)
  <2>1. head - limit \in Int
    BY DEF TypeOK
  <2>2. Uint(head - limit) \in Int
    BY <2>1, UintRange
  <2> QED
    BY <2>2 DEF TooOld, Earliest
<1>2. CASE head - limit >= 0
  <2>1. head - limit \in 0..2 * Half - 1
    BY <1>2, UintRange DEF TypeOK
  <2>2. Uint(head - limit) = head - limit
    BY <2>1, UintRange
  <2> QED
    BY <1>1, <2>2
<1>3. CASE ~(head - limit >= 0)
  BY <1>3 DEF TypeOK
<1> QED
  BY <1>2, <1>3

\* What a look-back lets pass is within its limit, of the head when the request came.
LEMMA PassedIsWithin ==
  ASSUME TypeOK, RoutingInv, NEW s \in Slot, job[s].pc \in {"chain", "remote"}, NEW limit \in Nat,
         ~Refused(job[s], limit)
  PROVE  Within(job[s], limit)
<1> DEFINE j == job[s]
           n == Parse(j.from)
<1>1. j \in Active /\ JobInv(j)
  BY JobsOf
<1> SUFFICES ASSUME limit > 0, j.from.tag \in {"number", "earliest"} PROVE n >= j.came - limit
  BY DEF Within
<1>2. n \in Nat
  <2>1. j.from \in BlockParam /\ j.from.tag # "null"
    BY <1>1 DEF Active
  <2>2. j.from.tag = "number" => n = Unsigned(j.from)
    BY TagValues DEF Parse
  <2>3. j.from.tag = "earliest" => n = 0
    BY TagValues DEF Parse
  <2> QED
    BY <2>1, <2>2, <2>3, ParseRange
<1>3. ~Nil(j.from) /\ j.from # Absent /\ j.method # "blockNumber"
  BY <1>1 DEF Nil, Absent, JobInv
<1>4. ~TooOld(n, limit)
  BY <1>3 DEF Refused
<1>5. n >= head - limit
  BY <1>2, <1>4, NotTooOld
<1>6. j.came \in 0..head /\ head \in Nat
  BY <1>1 DEF JobInv, TypeOK
<1> HIDE DEF n, j
<1> QED
  BY <1>2, <1>5, <1>6

\* What the store has is all that was asked for.
LEMMA CachedServes ==
  ASSUME TypeOK, NEW j, NEW blocks \in Cached(j)
  PROVE  Serves(j, blocks, FALSE) /\ blocks \subseteq 0..tip
<1>1. blocks \subseteq 0..tip /\ (blocks = Start(j)..End(j) \/ \E t \in 1..tip : blocks = Asked(j, t))
  BY DEF Cached
<1>2. \A t \in 1..tip : t \in Nat
  BY DEF TypeOK
<1> QED
  BY <1>1, <1>2 DEF Serves

\* One step of the node, the chain or the client.
LEMMA NextKeeps ==
  ASSUME TypeOK, RoutingInv, [Next]_vars PROVE TypeOK' /\ RoutingInv'
<1>1. CASE Grow \/ Learn
  BY <1>1, HeadsMove
<1>2. CASE Forge
  BY <1>2, ForgeKeeps
<1>3. CASE Gather
  BY <1>3, GatherKeeps
<1>4. CASE Done
  <2>1. job' = [s \in Slot |-> Idle] /\ UNCHANGED <<head, tip, told>>
    BY <1>4 DEF Done
  <2>2. DOMAIN job' = Slot /\ \A s \in Slot : job'[s] = Idle
    BY <2>1
  <2> QED
    BY <2>1, <2>2 DEF TypeOK, RoutingInv, ForgeInv, Idle, Crashed, Slot
<1>5. CASE \E m \in {"getBlock", "receipts", "call", "balance"}, p \in Param : Arrive(m, p, Absent, NoFilter)
  <2>1. Param \subseteq BlockParam /\ Absent \in BlockParam
    BY DEF BlockParam, Absent
  <2> QED
    BY <1>5, <2>1, ArriveKeeps
<1>6. CASE \E from \in Param, to \in Param, f \in Filter : Arrive("logs", from, to, f)
  <2>1. Param \subseteq BlockParam
    BY DEF BlockParam
  <2> QED
    BY <1>6, <2>1, ArriveKeeps
<1>7. CASE Arrive("blockNumber", [tag |-> "latest"], Absent, NoFilter)
  <2>1. [tag |-> "latest"] \in BlockParam /\ Absent \in BlockParam
    BY TagValues DEF BlockParam, Absent
  <2> QED
    BY <1>7, <2>1, ArriveKeeps
<1>8. ASSUME NEW s \in Slot,
             \/ Replace(s) \/ ReplaceFrom(s) \/ ReplaceTo(s) \/ Cache(s) \/ Store(s)
             \/ Chain(s) \/ Remote(s) \/ Upstream(s)
      PROVE  TypeOK' /\ RoutingInv'
  <2>1. CASE Replace(s)
    <3>1. CASE job[s].pc = "replace" /\ job[s].method = "blockNumber"
      <4>1. Answer(s, {head} \ {0}, {}, FALSE) /\ UNCHANGED <<head, tip>>
        BY <2>1, <3>1 DEF Replace
      <4> QED
        BY <3>1, <4>1, AnswerKeeps
    <3>2. CASE ~(job[s].pc = "replace" /\ job[s].method = "blockNumber")
      <4>1. ReplaceBlockNumber(s) /\ job[s].method # "blockNumber"
        BY <2>1, <3>2 DEF Replace, ReplaceBlockNumber
      <4> QED
        BY <4>1, ReplaceKeeps
    <3> QED
      BY <3>1, <3>2
  <2>2. CASE ReplaceFrom(s)
    BY <2>2, ReplaceFromKeeps
  <2>3. CASE ReplaceTo(s)
    BY <2>3, ReplaceToKeeps
  <2>4. ASSUME job[s].pc \in Routed PROVE job[s].method # "blockNumber"
    BY <2>4, JobsOf DEF JobInv, Routed
  <2>5. CASE Cache(s)
    <3>1. job[s].pc \in Routed /\ UNCHANGED <<head, tip>> /\ \E pc \in {"store", "chain"} : Go(s, pc)
      BY <2>5 DEF Cache, Routed
    <3> QED
      BY <2>4, <3>1, GoKeeps DEF Routed
  <2>6. CASE Store(s)
    <3>1. job[s].pc \in Routed /\ UNCHANGED <<head, tip>>
      BY <2>6 DEF Store, Routed
    <3>2. CASE \E pc \in {"lost", "chain"} : Go(s, pc)
      BY <2>4, <3>1, <3>2, GoKeeps DEF Routed
    <3>3. ASSUME NEW blocks \in Cached(job[s]), NEW logs, Answer(s, blocks, logs, FALSE)
          PROVE  TypeOK' /\ RoutingInv'
      <4>1. Serves(job[s], blocks, FALSE)
        BY <3>3, CachedServes
      <4> QED
        BY <3>1, <3>3, <4>1, AnswerKeeps
    <3>4. CASE Crash
      <4>1. job' = [t \in Slot |-> Crashed] /\ UNCHANGED <<head, tip, told>>
        BY <3>1, <3>4 DEF Crash
      <4>2. DOMAIN job' = Slot /\ \A t \in Slot : job'[t] = Crashed
        BY <4>1
      <4> QED
        BY <4>1, <4>2 DEF TypeOK, RoutingInv, ForgeInv, Idle, Crashed, Slot
    <3> QED
      BY <2>6, <3>2, <3>3, <3>4 DEF Store
  <2>7. CASE Chain(s)
    <3>1. job[s].pc = "chain" /\ job[s].pc \in Routed /\ UNCHANGED <<head, tip>>
      BY <2>7 DEF Chain, Routed
    <3>2. CASE Go(s, "refused")
      BY <2>4, <3>1, <3>2, GoKeeps DEF Routed
    <3>3. CASE ~Refused(job[s], ChainLookback) /\ Go(s, "remote")
      <4>1. Within(job[s], ChainLookback)
        BY <3>1, <3>3, PassedIsWithin
      <4> QED
        BY <2>4, <3>1, <3>3, <4>1, GoKeeps DEF Routed
    <3> QED
      BY <2>7, <3>2, <3>3 DEF Chain
  <2>8. CASE Remote(s)
    <3> DEFINE limit == IF RemoteLookback = 0 THEN 0 ELSE Effective(ChainLookback, RemoteLookback)
    <3>1. job[s].pc = "remote" /\ job[s].pc \in Routed /\ UNCHANGED <<head, tip>>
      BY <2>8 DEF Remote, Routed
    <3>2. CASE Go(s, "refused")
      BY <2>4, <3>1, <3>2, GoKeeps DEF Routed
    <3>3. CASE ~Refused(job[s], limit) /\ Go(s, "upstream")
      <4>1. Within(job[s], ChainLookback)
        BY <3>1, JobsOf DEF JobInv
      <4>2. Within(job[s], RemoteLookback)
        <5>1. CASE RemoteLookback = 0
          BY <5>1 DEF Within
        <5>2. CASE RemoteLookback > 0
          <6>1. limit \in Nat /\ limit > 0 /\ limit <= RemoteLookback
            BY <5>2, EffectiveIsStrict
          <6>2. Within(job[s], limit)
            BY <3>1, <3>3, <6>1, PassedIsWithin
          <6>3. job[s] \in Active
            BY <3>1, JobsOf
          <6>4. job[s].came \in Nat /\ Parse(job[s].from) \in Int
            BY <6>3, ParseRange DEF Active
          <6> HIDE DEF limit
          <6> QED
            BY <6>1, <6>2, <6>4 DEF Within
        <5> QED
          BY <5>1, <5>2
      <4> QED
        BY <2>4, <3>1, <3>3, <4>1, <4>2, GoKeeps DEF Routed
    <3> QED
      BY <2>8, <3>2, <3>3 DEF Remote
  <2>9. CASE Upstream(s)
    <3>1. job[s].pc \in Routed /\ UNCHANGED <<head, tip>>
      BY <2>9 DEF Upstream, Routed
    <3>2. CASE Go(s, "refused")
      BY <2>4, <3>1, <3>2, GoKeeps DEF Routed
    <3>3. ASSUME NEW t \in 1..tip, NEW logs,
                 Answer(s, Asked(job[s], t) \cap 0..t, logs, Asked(job[s], t) \cap 0..t # Asked(job[s], t))
          PROVE  TypeOK' /\ RoutingInv'
      <4>1. t \in Nat
        BY DEF TypeOK
      <4>2. Serves(job[s], Asked(job[s], t) \cap 0..t, Asked(job[s], t) \cap 0..t # Asked(job[s], t))
        BY <4>1 DEF Serves
      <4> QED
        BY <3>1, <3>3, <4>2, AnswerKeeps
    <3> QED
      BY <2>9, <3>2, <3>3 DEF Upstream
  <2> QED
    BY <1>8, <2>1, <2>2, <2>3, <2>5, <2>6, <2>7, <2>8, <2>9
<1>9. CASE UNCHANGED vars
  <2>1. UNCHANGED <<head, tip, job, told>>
    BY <1>9 DEF vars
  <2>2. \A i : JobInv(i)' <=> JobInv(i)
    BY <2>1 DEF JobInv
  <2>3. \A m, t, i : SubInv(m, t, i)' <=> SubInv(m, t, i)
    BY <2>1 DEF SubInv
  <2> QED
    BY <2>1, <2>2, <2>3 DEF TypeOK, RoutingInv, ForgeInv
<1> QED
  BY <1>1, <1>2, <1>3, <1>4, <1>5, <1>6, <1>7, <1>8, <1>9 DEF Next

\* Every job is well typed, what `latest' was replaced by is a known head that is at
\* least as high as anything told before, and the forger's two requests are for the
\* block that the client asked for.
THEOREM RoutesAreSound == Spec => [](TypeOK /\ RoutingInv)
<1>1. Init => TypeOK /\ RoutingInv
  BY DEF Init, TypeOK, RoutingInv, ForgeInv, Idle, Crashed, Slot
<1>2. (TypeOK /\ RoutingInv) /\ [Next]_vars => (TypeOK /\ RoutingInv)'
  BY NextKeeps
<1> QED
  BY <1>1, <1>2, PTL DEF Spec

-----------------------------------------------------------------------------
(* What clients see *)

\* The range that `latest' to `latest' becomes is not upside down (headreplacer,
\* eth_getLogs), though the head moves between its two reads.
THEOREM RangesAreOrdered == Spec => []LatestRangeIsOrdered
<1>1. TypeOK /\ RoutingInv => LatestRangeIsOrdered
  <2> SUFFICES ASSUME TypeOK, RoutingInv, NEW s \in Slot, job[s].pc = "store", job[s].seen > 0
               PROVE  Start(job[s]) <= End(job[s])
    BY DEF LatestRangeIsOrdered
  <2>1. job[s] \in Active /\ JobInv(job[s]) /\ job[s].pc \in Routed
    BY JobsOf DEF Routed
  <2>2. PICK b \in job[s].seen..head : Start(job[s]) = job[s].seen /\ End(job[s]) = b
    BY <2>1, SeenBlocks
  <2>3. job[s].seen \in Int /\ head \in Int
    BY <2>1 DEF Active, TypeOK
  <2> QED
    BY <2>2, <2>3
<1> QED
  BY <1>1, RoutesAreSound, PTL

\* The four places that answer a job.
AnswersNumber(s) ==
    /\ job[s].pc = "replace" /\ job[s].method = "blockNumber"
    /\ Answer(s, {head} \ {0}, {}, FALSE) /\ UNCHANGED <<head, tip>>

AnswersFromStore(s) ==
    /\ job[s].pc = "store" /\ UNCHANGED <<head, tip>>
    /\ \E blocks \in Cached(job[s]) : Answer(s, blocks, Filtered(job[s], blocks), FALSE)

LogsFrom(j, blocks) ==
    IF j.method # "logs" \/ Cacheable(j) THEN Filtered(j, {n \in blocks : InRange(j, n)})
    ELSE {log \in UNION {LogsOf(n) : n \in blocks} : Documented(j.filter, log)}

AnswersRemotely(s) ==
    /\ job[s].pc = "upstream" /\ UNCHANGED <<head, tip>>
    /\ \E t \in 1..tip :
         LET blocks == Asked(job[s], t) \cap 0..t
         IN  Answer(s, blocks, LogsFrom(job[s], blocks), blocks # Asked(job[s], t))

LEMMA NewAnswers ==
  ASSUME TypeOK, RoutingInv, [Next]_vars, NEW s \in Slot, job'[s].pc = "answered"
  PROVE  \/ job'[s] = job[s]
         \/ s = "main" /\ Gather
         \/ AnswersNumber(s) \/ AnswersFromStore(s) \/ AnswersRemotely(s)
<1>1. CASE Grow \/ Learn \/ UNCHANGED vars
  BY <1>1 DEF Grow, Learn, vars
<1>2. CASE Done
  BY <1>2 DEF Done, Idle
<1>3. ASSUME NEW m, NEW from, NEW to, NEW f, Arrive(m, from, to, f) PROVE FALSE
  BY <1>3 DEF Arrive, Idle
<1>4. ASSUME NEW t \in Slot, NEW j, Put(t, j), j.pc # "answered" PROVE job'[s] = job[s]
  BY <1>4 DEF Put, TypeOK
<1>5. ASSUME NEW t \in Slot, NEW pc, pc # "answered", Go(t, pc),
             job[t].pc \in Routed \cup {"forge", "gather", "replace", "replaceTo"}
      PROVE  job'[s] = job[s]
  <2>1. job[t] \in Active
    BY <1>5, JobsOf DEF Routed
  <2>2. [job[t] EXCEPT !.pc = pc].pc # "answered"
    BY <1>5, <2>1 DEF Active
  <2> QED
    BY <1>4, <1>5, <2>2 DEF Go
<1>6. CASE Forge
  <2>1. job["main"] \in Active
    BY <1>6, JobsOf DEF Forge, Slot
  <2>2. CASE job' = Forged(TRUE)
    <3> DEFINE main == job["main"]
               n == Marshal(Parse(main.from))
               logs == [main EXCEPT !.pc = "replace", !.method = "logs", !.from = n, !.to = n]
               block == [main EXCEPT !.pc = "replace", !.method = "getBlock", !.from = n, !.to = Absent]
               gather == [main EXCEPT !.pc = "gather"]
    <3>1. job' = [main |-> gather, logs |-> logs, block |-> block]
      BY <2>2 DEF Forged
    <3>2. gather.pc = "gather" /\ logs.pc = "replace" /\ block.pc = "replace"
      BY <2>1 DEF Active
    <3> HIDE DEF gather, logs, block
    <3>3. job'["main"] = gather /\ job'["logs"] = logs /\ job'["block"] = block
      BY <3>1
    <3> QED
      BY <3>2, <3>3 DEF Slot
  <2>3. CASE \E pc \in {"replace", "refused"} : Go("main", pc)
    BY <1>5, <1>6, <2>3 DEF Forge, Slot
  <2> QED
    BY <1>6, <2>2, <2>3 DEF Forge
<1>7. CASE Gather
  <2>1. CASE Go("main", "refused")
    BY <1>5, <1>7, <2>1 DEF Gather, Slot
  <2>2. CASE \E blocks, logs, behind : Answer("main", blocks, logs, behind)
    <3>1. PICK blocks, logs, behind : Answer("main", blocks, logs, behind)
      BY <2>2
    <3>2. "main" \in Slot /\ (s # "main" => s \in Slot \ {"main"})
      BY DEF Slot
    <3>3. s # "main" => job'[s] = job[s]
      BY <3>1, <3>2, AnswerEffect
    <3> QED
      BY <1>7, <3>3
  <2> QED
    BY <1>7, <2>1, <2>2 DEF Gather
<1>8. ASSUME NEW t \in Slot, NEW blocks, NEW logs, NEW behind, Answer(t, blocks, logs, behind), s # t
      PROVE  job'[s] = job[s]
  <2>1. \A u \in Slot \ {t} : job'[u] = job[u]
    BY <1>8, AnswerEffect
  <2> QED
    BY <1>8, <2>1
<1>9. ASSUME NEW t \in Slot, Replace(t) PROVE job'[s] = job[s] \/ AnswersNumber(s)
  <2>1. CASE job[t].pc = "replace" /\ job[t].method = "blockNumber"
    BY <1>8, <1>9, <2>1 DEF Replace, AnswersNumber
  <2>2. CASE ~(job[t].pc = "replace" /\ job[t].method = "blockNumber")
    <3>1. ReplaceBlockNumber(t) /\ job[t].pc = "replace"
      BY <1>9, <2>2 DEF Replace, ReplaceBlockNumber
    <3>2. job[t] \in Active
      BY <3>1, JobsOf
    <3>3. CASE \E pc \in {"cache", "refused"} : Go(t, pc)
      BY <1>5, <3>1, <3>3
    <3>4. CASE Put(t, [job[t] EXCEPT !.pc = "cache", !.from = Number(head), !.seen = head])
      <4>1. [job[t] EXCEPT !.pc = "cache", !.from = Number(head), !.seen = head].pc # "answered"
        BY <3>2 DEF Active
      <4> QED
        BY <1>4, <3>4, <4>1
    <3> QED
      BY <3>1, <3>3, <3>4 DEF ReplaceBlockNumber
  <2> QED
    BY <2>1, <2>2
<1>10. ASSUME NEW t \in Slot, ReplaceFrom(t) PROVE job'[s] = job[s]
  <2>1. job[t].pc = "replace" /\ job[t] \in Active
    BY <1>10, JobsOf DEF ReplaceFrom
  <2>2. [job[t] EXCEPT !.pc = "replaceTo", !.seen = IF IsLatest(job[t].from) THEN head ELSE 0].pc # "answered"
    BY <2>1 DEF Active
  <2>3. CASE Go(t, "refused")
    BY <1>5, <2>1, <2>3
  <2> QED
    BY <1>4, <1>10, <2>2, <2>3 DEF ReplaceFrom
<1>11. ASSUME NEW t \in Slot, ReplaceTo(t) PROVE job'[s] = job[s]
  <2>1. job[t].pc = "replaceTo" /\ job[t] \in Active
    BY <1>11, JobsOf DEF ReplaceTo
  <2>2. /\ [job[t] EXCEPT !.pc = "cache", !.from = Number(job[t].seen), !.to = Number(head)].pc # "answered"
        /\ [job[t] EXCEPT !.pc = "cache", !.seen = 0].pc # "answered"
    BY <2>1 DEF Active
  <2> QED
    BY <1>4, <1>11, <2>2 DEF ReplaceTo
<1>12. ASSUME NEW t \in Slot, Cache(t) \/ Chain(t) \/ Remote(t) PROVE job'[s] = job[s]
  <2>1. job[t].pc \in Routed /\ \E pc \in {"store", "chain", "refused", "remote", "upstream"} : Go(t, pc)
    BY <1>12 DEF Cache, Chain, Remote, Routed
  <2> QED
    BY <1>5, <2>1
<1>13. ASSUME NEW t \in Slot, Store(t) PROVE job'[s] = job[s] \/ AnswersFromStore(s)
  <2>1. job[t].pc \in Routed
    BY <1>13 DEF Store, Routed
  <2>2. CASE \E pc \in {"lost", "chain"} : Go(t, pc)
    BY <1>5, <2>1, <2>2
  <2>3. CASE AnswersFromStore(t)
    BY <1>8, <2>3 DEF AnswersFromStore
  <2>4. CASE Crash
    BY <2>4 DEF Crash, Crashed
  <2> QED
    BY <1>13, <2>2, <2>3, <2>4 DEF Store, AnswersFromStore
<1>14. ASSUME NEW t \in Slot, Upstream(t) PROVE job'[s] = job[s] \/ AnswersRemotely(s)
  <2>1. job[t].pc \in Routed
    BY <1>14 DEF Upstream, Routed
  <2>2. CASE Go(t, "refused")
    BY <1>5, <2>1, <2>2
  <2>3. CASE AnswersRemotely(t)
    BY <1>8, <2>3 DEF AnswersRemotely
  <2> QED
    BY <1>14, <2>2, <2>3 DEF Upstream, AnswersRemotely, LogsFrom
<1> QED
  BY <1>1, <1>2, <1>3, <1>6, <1>7, <1>9, <1>10, <1>11, <1>12, <1>13, <1>14 DEF Next

\* FilterLogs is what the documentation describes, for logs of existing blocks and
\* filters that do not end with a wildcard.
LEMMA FilterIsDocumented ==
  ASSUME NEW filter \in Filter \cup {NoFilter}, NEW blocks, blocks \subseteq 0..MaxTip,
         filter.topics # <<>> => /\ filter.topics[Len(filter.topics)] # {}
                                 /\ Null \notin filter.topics[Len(filter.topics)]
  PROVE  FilterLogs(filter, UNION {LogsOf(n) : n \in blocks})
         = {log \in UNION {LogsOf(n) : n \in blocks} : Documented(filter, log)}
<1>1. IsTopics(filter.topics)
  <2>1. IsTopics(NoFilter.topics)
    BY DEF NoFilter, IsTopics
  <2> QED
    BY <2>1
<1>2. \A log \in UNION {LogsOf(n) : n \in blocks} : IsTopics(log.topics)
  OBVIOUS
<1>3. \A log \in UNION {LogsOf(n) : n \in blocks} :
        Check(CompileFilter(filter), log) <=> Documented(filter, log)
  BY <1>1, <1>2, CheckIsDocumented
<1> QED
  BY <1>3, Zenon DEF FilterLogs

\* Of a range that starts with a number, Chainblock has a place for the logs of every
\* block that a remote answers with.
LEMMA NothingIsDropped ==
  ASSUME TypeOK, NEW j \in Active, j.method = "logs", Cacheable(j), NEW t \in 1..tip,
         Parse(j.from) >= 0 \/ Parse(j.from) = Parse(j.to)
  PROVE  \A n \in Asked(j, t) \cap 0..t : InRange(j, n)
<1>1. CASE Parse(j.from) = Parse(j.to)
  BY <1>1 DEF InRange, Start, End
<1>2. CASE Parse(j.from) >= 0
  <2> SUFFICES ASSUME NEW n \in Asked(j, t) \cap 0..t PROVE Uint(n - Start(j)) <= End(j) - Start(j)
    BY DEF InRange
  <2> DEFINE a == Parse(j.from)
             b == Parse(j.to)
  <2>1. ~Nil(j.from) /\ ~Nil(j.to)
    BY DEF Cacheable
  <2>2. j.from \in BlockParam /\ j.to \in BlockParam
    BY DEF Active
  <2>3. /\ a \in 0..2 * Half - 1 /\ b \in Int
        /\ b >= 0 => b \in 0..2 * Half - 1
        /\ b < 0 => b \in -5..-1
    BY <1>2, <2>2, ParseRange
  <2>4. n \in a..Resolve(b, t) /\ n \in 0..t /\ t \in 1..MaxInt
    <3>1. ResolveParam(j.from, t) = a
      BY <1>2, <2>1 DEF ResolveParam, Resolve
    <3>2. ResolveParam(j.to, t) = Resolve(b, t)
      BY <2>1 DEF ResolveParam
    <3>3. Asked(j, t) = a..Resolve(b, t)
      BY <3>1, <3>2 DEF Asked
    <3>4. tip \in 0..MaxTip
      BY DEF TypeOK
    <3>5. t \in 1..MaxInt
      BY <3>4, UintRange
    <3> QED
      BY <3>3, <3>5
  <2>5. Start(j) = a
    BY <2>3, UintRange DEF Start
  <2>6. End(j) = IF b >= 0 THEN b ELSE 2 * Half + b
    <3>1. End(j) = Uint(b)
      BY DEF End
    <3>2. \A i \in -5..-1 : Uint(i) = 2 * Half + i
      BY RoutingAssumption DEF Uint
    <3> QED
      BY <2>3, <3>1, <3>2, UintRange
  <2> HIDE DEF a, b
  <2>7. t \div 2 \in Int
    BY <2>4
  <2>8. n \in Nat /\ a <= n /\ (b >= 0 => n <= b) /\ n <= MaxInt
    <3>1. Resolve(b, t) \in Int /\ (b >= 0 => Resolve(b, t) = b)
      BY <2>3, <2>4, <2>7 DEF Resolve
    <3>2. n \in Nat /\ n <= t /\ t <= MaxInt /\ MaxInt \in Nat /\ t \in Nat
      BY <2>4, UintRange
    <3>3. a <= n /\ n <= Resolve(b, t)
      BY <2>3, <2>4, <3>1
    <3> HIDE DEF MaxInt
    <3> QED
      BY <3>1, <3>2, <3>3
  <2>9. n <= End(j)
    BY <2>3, <2>6, <2>8 DEF MaxInt
  <2>10. n - a \in 0..2 * Half - 1
    BY <2>3, <2>8, UintRange
  <2>11. Uint(n - a) = n - a
    BY <2>10, UintRange
  <2>12. End(j) \in Int
    BY <2>3, <2>6
  <2> QED
    BY <2>3, <2>5, <2>8, <2>9, <2>11, <2>12
<1> QED
  BY <1>1, <1>2

\* The logs that this code filters and puts together are those that a remote would
\* have answered with (cacher.go, filterLogs; filter.go, Check; Chainblock.getLogs).
THEOREM CacheFiltersAsRemotes == Spec => []FiltersAgree
<1> DEFINE Plain(j) ==
             /\ j.method = "logs" /\ (Parse(j.from) >= 0 \/ Parse(j.from) = Parse(j.to))
             /\ j.filter.topics # <<>> => /\ j.filter.topics[Len(j.filter.topics)] # {}
                                          /\ Null \notin j.filter.topics[Len(j.filter.topics)]
           Right(j, blocks) == {log \in UNION {LogsOf(n) : n \in blocks} : Documented(j.filter, log)}
           Fits(j) == j.pc = "answered" /\ Plain(j) => j.logs = Right(j, j.blocks)
<1>1. FiltersAgree <=> \A s \in Slot : Fits(job[s])
  BY DEF FiltersAgree, Answered
<1>2. Init => FiltersAgree
  BY DEF Init, FiltersAgree, Answered, Idle
<1>3. ASSUME TypeOK, RoutingInv, FiltersAgree, [Next]_vars, NEW s \in Slot PROVE Fits(job'[s])
  <2> SUFFICES ASSUME job'[s].pc = "answered", Plain(job'[s])
               PROVE  job'[s].logs = Right(job'[s], job'[s].blocks)
    OBVIOUS
  <2>1. CASE job'[s] = job[s]
    <3>1. Fits(job[s])
      BY <1>1, <1>3
    <3> QED
      BY <2>1, <3>1
  <2>2. ASSUME NEW blocks, NEW logs, NEW behind, Answer(s, blocks, logs, behind), blocks \subseteq 0..tip,
               job[s].pc \in Routed,
               Plain(job[s]) => logs = Filtered(job[s], blocks) \/ logs = Right(job[s], blocks)
        PROVE  job'[s].logs = Right(job'[s], job'[s].blocks)
    <3>1. /\ job'[s].method = job[s].method /\ job'[s].filter = job[s].filter
          /\ job'[s].from = job[s].from /\ job'[s].to = job[s].to
          /\ job'[s].blocks = blocks /\ job'[s].logs = logs
      <4>1. Answer(s, blocks, logs, behind)
        BY <2>2
      <4> QED
        BY <1>3, <4>1, AnswerFields
    <3>2. Plain(job[s])
      BY <3>1
    <3>3. job[s].filter \in Filter \cup {NoFilter}
      BY <1>3, <2>2, JobsOf DEF Routed, Active
    <3>4. blocks \subseteq 0..MaxTip
      BY <1>3, <2>2 DEF TypeOK
    <3>5. FilterLogs(job[s].filter, UNION {LogsOf(n) : n \in blocks}) = Right(job[s], blocks)
      BY <3>2, <3>3, <3>4, FilterIsDocumented
    <3>6. Filtered(job[s], blocks) = FilterLogs(job[s].filter, UNION {LogsOf(n) : n \in blocks})
      BY <3>2 DEF Filtered
    <3> QED
      BY <2>2, <3>1, <3>2, <3>5, <3>6
  <2>3. CASE s = "main" /\ Gather
    <3>1. CASE Go("main", "refused")
      <4>1. job["main"] \in Active
        BY <1>3, <2>3, JobsOf DEF Gather, Slot
      <4>2. [job["main"] EXCEPT !.pc = "refused"].pc = "refused"
        BY <4>1 DEF Active
      <4>3. job'["main"] = [job["main"] EXCEPT !.pc = "refused"]
        BY <1>3, <3>1 DEF Go, Put, TypeOK, Slot
      <4> QED
        BY <2>3, <4>2, <4>3
    <3>2. CASE \E blocks, logs, behind : Answer("main", blocks, logs, behind)
      <4>1. job["main"].method = "receipts"
        <5>1. JobInv(job["main"]) /\ job["main"].pc = "gather"
          BY <1>3, <2>3, JobsOf DEF Gather, Slot
        <5> QED
          BY <5>1 DEF JobInv
      <4>2. job'[s].method = job[s].method
        BY <1>3, <2>3, <3>2, AnswerEffect
      <4> QED
        BY <2>3, <4>1, <4>2
    <3> QED
      BY <2>3, <3>1, <3>2 DEF Gather
  <2>4. CASE AnswersNumber(s)
    <3>1. job'[s].method = job[s].method /\ job[s].method = "blockNumber"
      BY <1>3, <2>4, AnswerEffect DEF AnswersNumber
    <3> QED
      BY <3>1
  <2>5. CASE AnswersFromStore(s)
    <3>1. PICK blocks \in Cached(job[s]) : Answer(s, blocks, Filtered(job[s], blocks), FALSE)
      BY <2>5 DEF AnswersFromStore
    <3>2. blocks \subseteq 0..tip /\ job[s].pc \in Routed
      BY <1>3, <2>5, CachedServes DEF AnswersFromStore, Routed
    <3> QED
      BY <2>2, <3>1, <3>2
  <2>6. CASE AnswersRemotely(s)
    <3>1. PICK t \in 1..tip :
            Answer(s, Asked(job[s], t) \cap 0..t, LogsFrom(job[s], Asked(job[s], t) \cap 0..t),
                   Asked(job[s], t) \cap 0..t # Asked(job[s], t))
      BY <2>6 DEF AnswersRemotely
    <3> DEFINE blocks == Asked(job[s], t) \cap 0..t
    <3>2. job[s].pc \in Routed /\ job[s].pc = "upstream" /\ blocks \subseteq 0..tip
      BY <1>3, <2>6 DEF AnswersRemotely, Routed, TypeOK
    <3>3. job[s] \in Active
      BY <1>3, <3>2, JobsOf
    <3>4. ASSUME Plain(job[s])
          PROVE  LogsFrom(job[s], blocks) = Filtered(job[s], blocks) \/ LogsFrom(job[s], blocks) = Right(job[s], blocks)
      <4>1. CASE Cacheable(job[s])
        <5>1. \A n \in blocks : InRange(job[s], n)
          BY <1>3, <3>3, <3>4, <4>1, NothingIsDropped
        <5>2. {n \in blocks : InRange(job[s], n)} = blocks
          BY <5>1
        <5> HIDE DEF blocks
        <5> QED
          BY <4>1, <5>2 DEF LogsFrom
      <4>2. CASE ~Cacheable(job[s])
        BY <3>4, <4>2 DEF LogsFrom
      <4> QED
        BY <4>1, <4>2
    <3> HIDE DEF blocks
    <3>5. Answer(s, blocks, LogsFrom(job[s], blocks), blocks # Asked(job[s], t))
      BY <3>1 DEF blocks
    <3> HIDE DEF Plain, Right
    <3> QED
      BY <2>2, <3>2, <3>4, <3>5
  <2> QED
    BY <1>3, <2>1, <2>3, <2>4, <2>5, <2>6, NewAnswers
<1>4. TypeOK /\ RoutingInv /\ FiltersAgree /\ [Next]_vars => FiltersAgree'
  <2> SUFFICES ASSUME TypeOK, RoutingInv, FiltersAgree, [Next]_vars PROVE FiltersAgree'
    OBVIOUS
  <2>1. \A s \in Slot : Fits(job'[s])
    BY <1>3
  <2> QED
    BY <2>1 DEF FiltersAgree, Answered
<1> QED
  BY <1>2, <1>4, RoutesAreSound, PTL DEF Spec

\* The receipts that the forger puts together from two answers have the logs of their
\* block, if who answered for the logs had the block (forger.go).
THEOREM ReceiptsAreWhole == Spec => []ForgedIsWhole
<1>1. Init => ForgedIsWhole
  BY DEF Init, ForgedIsWhole, Answered, Idle, Slot
<1>2. TypeOK /\ RoutingInv /\ ForgedIsWhole /\ [Next]_vars => ForgedIsWhole'
  <2> SUFFICES ASSUME TypeOK, RoutingInv, ForgedIsWhole, [Next]_vars,
                      job'["main"].pc = "answered", job'["main"].method = "receipts", ForgeBlockReceipts,
                      Parse(job'["main"].from) >= 0, ~job'["main"].behind
               PROVE  job'["main"].logs = job'["main"].blocks
    BY DEF ForgedIsWhole, Answered
  <2>0. "main" \in Slot
    BY DEF Slot
  <2>1. CASE job'["main"] = job["main"]
    BY <2>1 DEF ForgedIsWhole, Answered
  <2>2. ASSUME NEW blocks, NEW logs, NEW behind, Answer("main", blocks, logs, behind),
               job["main"].pc \in Routed \cup {"replace"}
        PROVE  FALSE
    <3>1. job["main"].method = "receipts"
      BY <2>0, <2>2, AnswerEffect
    <3>2. job["main"] \notin {Idle, Crashed}
      BY <2>2 DEF Idle, Crashed, Routed
    <3> QED
      BY <2>2, <3>1, <3>2 DEF RoutingInv, ForgeInv, Routed
  <2>3. CASE AnswersNumber("main")
    BY <2>2, <2>3 DEF AnswersNumber
  <2>4. CASE AnswersFromStore("main")
    BY <2>2, <2>4 DEF AnswersFromStore, Routed
  <2>5. CASE AnswersRemotely("main")
    BY <2>2, <2>5 DEF AnswersRemotely, Routed
  <2>6. ASSUME Go("main", "refused"), job["main"].pc = "gather" PROVE FALSE
    <3>1. job["main"] \in Active
      BY <2>0, <2>6, JobsOf
    <3>2. [job["main"] EXCEPT !.pc = "refused"].pc = "refused"
      BY <3>1 DEF Active
    <3>3. job'["main"] = [job["main"] EXCEPT !.pc = "refused"]
      BY <2>0, <2>6 DEF Go, Put, TypeOK
    <3> QED
      BY <3>2, <3>3
  <2>7. CASE Gather
    <3> DEFINE n == Parse(job["main"].from)
    <3>1. /\ job["main"].pc = "gather" /\ job["logs"].pc = "answered" /\ job["block"].pc = "answered"
          /\ Answer("main", job["block"].blocks, job["logs"].blocks \cap job["block"].blocks,
                     job["logs"].behind)
      BY <2>6, <2>7 DEF Gather
    <3>2. /\ job'["main"].from = job["main"].from /\ job'["main"].behind = job["logs"].behind
          /\ job'["main"].blocks = job["block"].blocks
          /\ job'["main"].logs = job["logs"].blocks \cap job["block"].blocks
      <4> DEFINE logs == job["logs"].blocks \cap job["block"].blocks
      <4>1. Answer("main", job["block"].blocks, logs, job["logs"].behind)
        BY <3>1
      <4> HIDE DEF logs
      <4>2. /\ job'["main"].from = job["main"].from /\ job'["main"].behind = job["logs"].behind
            /\ job'["main"].blocks = job["block"].blocks /\ job'["main"].logs = logs
        BY <2>0, <4>1, AnswerFields
      <4> QED
        BY <4>2 DEF logs
    <3>3. SubInv(job["main"], "logs", job["logs"]) /\ SubInv(job["main"], "block", job["block"])
      BY <3>1 DEF RoutingInv, ForgeInv
    <3>4. job["logs"].blocks = {n} /\ job["block"].blocks \subseteq {n}
      BY <3>1, <3>2, <3>3 DEF SubInv
    <3> QED
      BY <3>2, <3>4
  <2> QED
    BY <2>0, <2>1, <2>3, <2>4, <2>5, <2>7, NewAnswers
<1> QED
  BY <1>1, <1>2, RoutesAreSound, PTL DEF Spec

\* What a client is told by `latest' is never older than what was told before
\* (headreplacer), though the remotes and the head store move on their own.
THEOREM LatestNeverRetreats == Spec => ToldNeverRetreats
<1>1. ASSUME TypeOK, RoutingInv, [Next]_vars,
             ~Answered("main"), Answered("main")',
             job'["main"].latest, job'["main"].came > 0, job'["main"].blocks # {}
      PROVE  MaxOf(job'["main"].blocks) >= told
  <2>0. "main" \in Slot /\ job["main"].pc # "answered" /\ job'["main"].pc = "answered"
    BY <1>1 DEF Slot, Answered
  <2>1. CASE Gather
    BY <1>1, <2>1, GatherKeeps
  <2>2. ASSUME NEW blocks, NEW logs, NEW behind, Answer("main", blocks, logs, behind), UNCHANGED <<head, tip>>,
               \/ job["main"].pc \in Routed /\ Serves(job["main"], blocks, behind)
               \/ job["main"].pc = "replace" /\ job["main"].method = "blockNumber" /\ blocks = {head} \ {0}
        PROVE  MaxOf(job'["main"].blocks) >= told
    <3>1. job'["main"].blocks = blocks
      BY <1>1, <2>0, <2>2, AnswerFields
    <3>2. "main" = "main" /\ job'["main"].latest /\ job'["main"].came > 0 /\ blocks # {} => MaxOf(blocks) >= told
      BY <1>1, <2>0, <2>2, AnswerKeeps
    <3> QED
      BY <1>1, <3>1, <3>2
  <2>3. CASE AnswersNumber("main")
    BY <2>2, <2>3 DEF AnswersNumber
  <2>4. CASE AnswersFromStore("main")
    <3>1. PICK blocks \in Cached(job["main"]) : Answer("main", blocks, Filtered(job["main"], blocks), FALSE)
      BY <2>4 DEF AnswersFromStore
    <3>2. Serves(job["main"], blocks, FALSE)
      BY <1>1, CachedServes
    <3> QED
      BY <2>2, <2>4, <3>1, <3>2 DEF AnswersFromStore, Routed
  <2>5. CASE AnswersRemotely("main")
    <3>1. PICK t \in 1..tip :
            Answer("main", Asked(job["main"], t) \cap 0..t, LogsFrom(job["main"], Asked(job["main"], t) \cap 0..t),
                   Asked(job["main"], t) \cap 0..t # Asked(job["main"], t))
      BY <2>5 DEF AnswersRemotely
    <3>2. t \in Nat
      BY <1>1 DEF TypeOK
    <3>3. Serves(job["main"], Asked(job["main"], t) \cap 0..t, Asked(job["main"], t) \cap 0..t # Asked(job["main"], t))
      BY <3>2 DEF Serves
    <3> QED
      BY <2>2, <2>5, <3>1, <3>3 DEF AnswersRemotely, Routed
  <2>6. job'["main"] # job["main"]
    BY <2>0
  <2> QED
    BY <1>1, <2>0, <2>1, <2>3, <2>4, <2>5, <2>6, NewAnswers
<1>2. TypeOK /\ RoutingInv /\ [Next]_vars =>
        [(~Answered("main") /\ Answered("main")'
           /\ job'["main"].latest /\ job'["main"].came > 0 /\ job'["main"].blocks # {})
         => MaxOf(job'["main"].blocks) >= told]_vars
  BY <1>1
<1> QED
  BY <1>2, RoutesAreSound, PTL DEF Spec, ToldNeverRetreats

\* No remote serves by number what was further behind the head, when the request came,
\* than the limits of the chain and of the remote allow (blockLookBack.go).
THEOREM LookbackHolds == Spec => OldBlocksStayOut
<1>1. ASSUME TypeOK, RoutingInv, [Next]_vars, NEW s \in Slot,
             job[s].pc = "upstream", Answered(s)', job[s].from.tag \in {"number", "earliest"},
             NEW m \in job'[s].blocks, NEW l \in {ChainLookback, RemoteLookback} \ {0}
      PROVE  m >= job[s].came - l
  <2> DEFINE j == job[s]
             n == Parse(j.from)
  <2>1. j \in Active /\ JobInv(j)
    BY <1>1, JobsOf
  <2>2. job'[s].pc = "answered" /\ job'[s] # j
    BY <1>1 DEF Answered
  <2>3. AnswersRemotely(s)
    BY <1>1, <2>2, NewAnswers DEF Gather, AnswersNumber, AnswersFromStore
  <2>4. PICK t \in 1..tip : job'[s].blocks = Asked(j, t) \cap 0..t
    <3>1. PICK t \in 1..tip :
            Answer(s, Asked(j, t) \cap 0..t, LogsFrom(j, Asked(j, t) \cap 0..t), Asked(j, t) \cap 0..t # Asked(j, t))
      BY <2>3 DEF AnswersRemotely
    <3> QED
      BY <1>1, <3>1, AnswerFields
  <2>5. n >= j.came - l /\ l \in Nat /\ j.came \in Nat
    BY <1>1, <2>1 DEF JobInv, Within, Active
  <2>6. n \in Nat /\ ~Nil(j.from)
    <3>1. j.from \in BlockParam /\ j.from.tag # "null"
      BY <1>1, <2>1 DEF Active
    <3>2. j.from.tag = "number" => n = Unsigned(j.from)
      BY TagValues DEF Parse
    <3>3. j.from.tag = "earliest" => n = 0
      BY TagValues DEF Parse
    <3> QED
      BY <1>1, <3>1, <3>2, <3>3, ParseRange DEF Nil
  <2>7. m \in Int /\ m >= n
    <3>1. ResolveParam(j.from, t) = n
      BY <2>6 DEF ResolveParam, Resolve
    <3>2. m \in 0..t /\ (m \in n..ResolveParam(j.to, t) \/ m = n)
      BY <1>1, <2>4, <3>1 DEF Asked
    <3>3. ResolveParam(j.to, t) \in Int
      <4>1. j.to \in BlockParam
        BY <2>1 DEF Active
      <4>2. Parse(j.to) \in Int /\ t \in Nat /\ t \div 2 \in Int
        BY <1>1, <4>1, ParseRange DEF TypeOK
      <4> QED
        BY <4>2 DEF ResolveParam, Resolve, Latest
    <3> HIDE DEF n
    <3> QED
      BY <2>6, <3>2, <3>3
  <2> HIDE DEF n
  <2> QED
    BY <2>5, <2>6, <2>7
<1>2. TypeOK /\ RoutingInv /\ [Next]_vars =>
        [\A s \in Slot :
           (job[s].pc = "upstream" /\ Answered(s)' /\ job[s].from.tag \in {"number", "earliest"})
           => \A n \in job'[s].blocks, limit \in {ChainLookback, RemoteLookback} \ {0} :
                 n >= job[s].came - limit]_vars
  BY <1>1
<1> QED
  BY <1>2, RoutesAreSound, PTL DEF Spec, OldBlocksStayOut
=============================================================================
