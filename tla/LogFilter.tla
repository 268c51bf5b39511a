----------------------------- MODULE LogFilter ------------------------------
(***************************************************************************)
(* The filters of eth_getLogs and of log subscriptions                     *)
(* (lib/ethtypes/filter.go, logs.go).  A log is [address, topics], topics  *)
(* a sequence; a filter is [addresses, topics] as the client sent it:      *)
(* each element of its topics is a set that may contain Null.              *)
(***************************************************************************)
EXTENDS Naturals, Sequences

CONSTANT Null

IsTopics(t) == Len(t) \in Nat /\ DOMAIN t = 1..Len(t)

\* FilterQueryTopics.UnmarshalJSON: a null, or a list with one, is no condition; a
\* single topic is the list of it.
ParseTopics(raw) == [i \in DOMAIN raw |-> IF Null \in raw[i] THEN {} ELSE raw[i]]

\* CompileFilter: the maps of a CompiledFilter are the sets they are used as.
CompileFilter(filter) ==
    [addrMap |-> filter.addresses, topicMap |-> ParseTopics(filter.topics)]

\* Variant: an empty set of topics is a condition that no topic meets.
CheckNoWildcard(c, log) ==
    /\ c.addrMap = {} \/ log.address \in c.addrMap
    /\ \A i \in DOMAIN c.topicMap : i \in DOMAIN log.topics /\ log.topics[i] \in c.topicMap[i]

\* CompiledFilter.Check; the filter without any condition is nil in the code.
Check(c, log) ==
    /\ c.addrMap = {} \/ log.address \in c.addrMap
    /\ \A i \in DOMAIN c.topicMap :
         \/ c.topicMap[i] = {}
         \/ i \in DOMAIN log.topics /\ log.topics[i] \in c.topicMap[i]

\* Cacher.filterLogs and CompiledFilter.Filter.
FilterLogs(filter, logs) == {log \in logs : Check(CompileFilter(filter), log)}

\* The comment on FilterQueryTopics, and what a remote does: the filter matches a
\* prefix of the topics of a log, so it is not longer than they are.
Documented(filter, log) ==
    /\ filter.addresses = {} \/ log.address \in filter.addresses
    /\ Len(filter.topics) <= Len(log.topics)
    /\ \A i \in DOMAIN filter.topics :
         \/ Null \in filter.topics[i] \/ filter.topics[i] = {}
         \/ log.topics[i] \in filter.topics[i]
=============================================================================
