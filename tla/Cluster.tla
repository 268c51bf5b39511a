------------------------------- MODULE Cluster -------------------------------
(***************************************************************************)
(* Cluster (lib/callcenter/cluster.go): the remotes of one chain, tried by *)
(* priority, with a round robin counter per priority that the requests     *)
(* in flight share.  A request holds the read lock from beginning to end;  *)
(* Add takes the write lock.  What a remote answers is the choice of the   *)
(* environment, except that its Filterer refuses some methods              *)
(* (filterer.go).                                                          *)
(***************************************************************************)
EXTENDS Integers, SequencesExt

CONSTANTS
    Remote, Priority,  \* Priority[r] is what Add is called with
    Request, Allowed   \* Allowed[q]: the remotes whose filter lets q through

ASSUME ClusterAssumption ==
    /\ Priority \in [Remote -> Int]
    /\ Allowed \in [Request -> SUBSET Remote]

VARIABLES
    priorities,  \* T.priorities: groups [priority, remotes, round]
    remotes,     \* T.remotes (with T.remotePriority, which is Priority of each)
    req,         \* per request: where ServeRPC is
    starts       \* history: how often the round robin began at each remote

vars == <<priorities, remotes, req, starts>>

Added == ToSet(remotes)

\* "nothing" is the answer of a request that ends without Send.
Answer == {"result", "user", "refused", "data", "error", "nothing"}

GroupOf == [priority : Int, remotes : Seq(Remote), round : Nat]
Progress == [pc : {"idle", "group", "try", "done"}, i : Nat, j : Nat, k : Nat,
             tried : Seq(Remote), answer : Answer]

TypeOK ==
    /\ priorities \in Seq(GroupOf) /\ remotes \in Seq(Remote)
    /\ req \in [Request -> Progress]
    /\ starts \in [Remote -> Nat]

Init ==
    /\ priorities = <<>> /\ remotes = <<>>
    /\ req = [q \in Request |-> [pc |-> "idle", i |-> 1, j |-> 0, k |-> 0,
                                 tried |-> <<>>, answer |-> "nothing"]]
    /\ starts = [r \in Remote |-> 0]

-----------------------------------------------------------------------------

\* The index slices.BinarySearch returns: the first that is not below p.
Search(keys, p) ==
    CHOOSE i \in 1..Len(keys) + 1 :
        /\ i <= Len(keys) => keys[i] >= p
        /\ \A j \in 1..i - 1 : keys[j] < p

SearchRemote(p) == Search([i \in DOMAIN remotes |-> Priority[remotes[i]]], p)
SearchGroup(p) == Search([i \in DOMAIN priorities |-> priorities[i].priority], p)

Add(r) ==
    LET p == Priority[r]
        idx == SearchGroup(p)
        found == idx <= Len(priorities) /\ priorities[idx].priority = p
    IN  /\ \A q \in Request : req[q].pc \in {"idle", "done"}  \* mu.Lock
        /\ r \notin Added
        /\ remotes' = InsertAt(remotes, SearchRemote(p), r)
        /\ priorities' =
             IF found
             THEN [priorities EXCEPT ![idx].remotes = Append(@, r)]
             ELSE InsertAt(priorities, idx,
                           [priority |-> p, remotes |-> <<r>>, round |-> 0])
        /\ starts' = [s \in Remote |-> 0]
        /\ UNCHANGED req

-----------------------------------------------------------------------------
(* ServeRPC *)

Enter(q) ==
    /\ req[q].pc = "idle"
    /\ req' = [req EXCEPT ![q].pc = "group"]
    /\ UNCHANGED <<priorities, remotes, starts>>

\* Variant: every attempt takes the first remote of the priority.
PickFirst(g, j) == g.remotes[1]

\* p.remotes[j % len(p.remotes)] after j++.
Pick(g, j) == g.remotes[((j + 1) % Len(g.remotes)) + 1]

\* Variant: the counter is read but not advanced.
TakeSame(g) == g.round

\* p.round.Add(1)
Take(g) == g.round + 1

\* The outer loop: enter the next priority and take a number.
Group(q) ==
    LET i == req[q].i
        g == priorities[i]
        n == Len(g.remotes)
        round == Take(g)
        j == IF n > 1 THEN round ELSE 0
    IN  /\ req[q].pc = "group" /\ i <= Len(priorities)
        /\ req' = [req EXCEPT ![q].pc = "try", ![q].j = j, ![q].k = 0]
        /\ IF n > 1
           THEN /\ priorities' = [priorities EXCEPT ![i].round = round]
                /\ starts' = [starts EXCEPT ![Pick(g, j)] = @ + 1]
           ELSE UNCHANGED <<priorities, starts>>
        /\ UNCHANGED remotes

\* The loops are over and nothing has been sent.
FallThrough(q) ==
    /\ req[q].pc = "group" /\ req[q].i > Len(priorities)
    /\ req' = [req EXCEPT ![q].pc = "done"]
    /\ UNCHANGED <<priorities, remotes, starts>>

\* What the handler of r leaves in the interceptor for q: a result, a nil
\* result, a user error, ErrMethodNotAllowed, ErrHeadOld or another error, that of
\* its own BlockLookBack, which comes before the filter, among them.
Outcome(q, r) ==
    IF r \in Allowed[q] THEN {"result", "nil", "user", "old", "error"}
                        ELSE {"refused", "error"}

\* IsUserError: the code of ErrMethodNotAllowed, -32600, counts as the user's.
IsUserError(outcome) == outcome \in {"user", "refused"}

\* "check if last possible remote"
LastRemote(me) ==
    me.i = Len(priorities) /\ me.k = Len(priorities[me.i].remotes) - 1

\* The inner loop's body, up to the end of the call of the remote.
Try(q) ==
    LET me == req[q]
        g == priorities[me.i]
        n == Len(g.remotes)
        rem == Pick(g, me.j)
        last == LastRemote(me)
        tried == [me EXCEPT !.tried = Append(@, rem)]
        Send(a) == [tried EXCEPT !.pc = "done", !.answer = a]
        continue == IF me.k = n - 1
                    THEN [tried EXCEPT !.pc = "group", !.i = @ + 1]
                    ELSE [tried EXCEPT !.j = @ + 1, !.k = @ + 1]
    IN  /\ me.pc = "try"
        /\ \E outcome \in Outcome(q, rem) :
             req' = [req EXCEPT ![q] =
               CASE outcome = "result"                    -> Send("result")
                 [] IsUserError(outcome)                  -> Send(outcome)
                 [] outcome \in {"old", "error"} /\ ~last -> continue
                 [] outcome = "old" /\ last               -> Send("data")
                 [] outcome = "error" /\ last             -> Send("error")
                 [] outcome = "nil"                       -> continue]
        /\ UNCHANGED <<priorities, remotes, starts>>

Next ==
    \/ \E r \in Remote : Add(r)
    \/ \E q \in Request : Enter(q) \/ Group(q) \/ Try(q) \/ FallThrough(q)

Spec == Init /\ [][Next]_vars

-----------------------------------------------------------------------------
(* Properties *)

Ends(q) == req[q].pc # "done" /\ req'[q].pc = "done"

\* "attempts each by priority": however the requests share the counters, none
\* tries a remote twice, nor one while a better one is still untried; and one that
\* ends without a result and without a user error has tried every remote of the
\* cluster that it began with.
TriesEachByPriority ==
    [][\A q \in Request :
         LET before == ToSet(req[q].tried)
             tried == req'[q].tried
         IN  /\ tried # req[q].tried =>
                  /\ Last(tried) \notin before
                  /\ \A r \in Added : Priority[r] < Priority[Last(tried)] => r \in before
             /\ Ends(q) /\ req'[q].answer \in {"data", "error", "nothing"}
                  => ToSet(tried) = Added]_vars

\* The shared counter spreads the requests in flight evenly over the remotes of
\* a priority.
Balanced ==
    \A g \in ToSet(priorities) :
      Len(g.remotes) > 1 =>
        \A r, s \in ToSet(g.remotes) : starts[r] <= starts[s] + 1

\* The inductive invariant behind these.  The groups are sorted, none is empty, and
\* they hold every remote once; on the ring of a group's remotes, those that were
\* begun with once more than the others, and those that a request has tried, are
\* the last ones up to where the counter of the group, or of the request, points.
At(j, n) == (j % n) + 1
Behind(p, x, n) == IF x <= p THEN p - x ELSE p - x + n

GroupInv(g) ==
    /\ g.remotes # <<>>
    /\ \A x \in DOMAIN g.remotes : Priority[g.remotes[x]] = g.priority
    /\ \A x, y \in DOMAIN g.remotes : g.remotes[x] = g.remotes[y] => x = y

GroupsInv ==
    /\ \A i \in DOMAIN priorities : GroupInv(priorities[i])
    /\ \A h, i \in DOMAIN priorities : h < i => priorities[h].priority < priorities[i].priority
    /\ Added = UNION {ToSet(priorities[i].remotes) : i \in DOMAIN priorities}

SpreadInv(g) ==
    LET n == Len(g.remotes)
    IN  n > 1 => \E ahead \in 0..n - 1, y \in 1..n : \A x \in 1..n :
            starts[g.remotes[x]] = starts[g.remotes[y]]
                + IF Behind(At(g.round + 1, n), x, n) < ahead THEN 1 ELSE 0

\* Where a request is, and whether it has tried the x-th remote of group h.
HasTried(me, h, x) ==
    \/ h < me.i
    \/ /\ h = me.i /\ me.pc = "try"
       /\ LET n == Len(priorities[h].remotes) IN Behind(At(me.j, n), x, n) < me.k

RequestInv(me) ==
    /\ me.pc = "idle" => me.i = 1 /\ me.tried = <<>>
    /\ me.pc \in {"group", "try"} =>
         /\ me.i \in 1..Len(priorities) + 1 /\ ToSet(me.tried) \subseteq Added
         /\ \A h \in DOMAIN priorities : \A x \in DOMAIN priorities[h].remotes :
              priorities[h].remotes[x] \in ToSet(me.tried) <=> HasTried(me, h, x)
    /\ me.pc = "try" => me.i <= Len(priorities) /\ me.k < Len(priorities[me.i].remotes)

ClusterInv ==
    /\ GroupsInv
    /\ \A i \in DOMAIN priorities : SpreadInv(priorities[i])
    /\ \A q \in Request : RequestInv(req[q])

-----------------------------------------------------------------------------
(* Claims of the documentation that do not hold: README, "Refuted claims" *)

\* "check if last possible remote. if not, try the other ones" (cluster.go): a
\* remote whose filter refuses the method is passed over while another takes it.
RefusalFallsBack ==
    [][\A q \in Request :
         Ends(q) /\ req'[q].answer = "refused"
           => Added \cap Allowed[q] \subseteq ToSet(req'[q].tried)]_vars
=============================================================================
