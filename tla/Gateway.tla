------------------------------ MODULE Gateway -------------------------------
(***************************************************************************)
(* The gateway: the HTTP and JSON-RPC middlewares of one endpoint          *)
(* (svc/app/gateway/api.go), the abuse limits (lib/ratelimit), the proxy   *)
(* to venn with its pool of websockets (lib/callcenter/hybridproxy.go) and *)
(* the telemetry (svc/gateway/quarks/telemetry).  A handler is the         *)
(* goroutine of one request; subscriptions share the connections of the    *)
(* pool, which is guarded by a mutex that is held while dialing.           *)
(***************************************************************************)
EXTENDS Naturals, Sequences, FiniteSets

CONSTANTS
    Handler,
    Address,            \* of clients and proxies
    TrustedOrigins,     \* the proxies among them
    AllowedOrigins,     \* a sequence of patterns: see Splits
    Request,            \* [client, peer, port, headers, origin, large, method, ws]
    Whitelist,          \* methods; empty: all
    Total,              \* per abuse limit, the requests of a window
    PoolSize,           \* 8 in the code
    PendingSize,        \* 128 in the code
    TelemetryEnabled, CorsEnabled,
    MaxArrivals, MaxBreak

Nobody == "nobody"

\* An Origin header, or a pattern for it: see Splits.
Origin == [scheme : STRING, host : Seq(STRING), port : STRING]

ASSUME GatewayAssumption ==
    /\ Nobody \notin Handler
    /\ TrustedOrigins \subseteq Address /\ AllowedOrigins \in Seq(Origin)
    /\ Total \in Seq(Nat)
    /\ PoolSize \in Nat \ {0} /\ PendingSize \in Nat \ {0}
    /\ MaxArrivals \in Nat /\ MaxBreak \in Nat
    /\ TelemetryEnabled \in BOOLEAN /\ CorsEnabled \in BOOLEAN
    /\ \A r \in Request :
         /\ r.client \in Address /\ r.peer \in Address /\ r.origin \in Origin
         /\ r.headers \in Seq(Address \cup STRING)
         \* A trusted proxy sets the first header, truthfully; others come for themselves.
         /\ IF r.peer \in TrustedOrigins
            THEN r.headers # <<>> /\ Head(r.headers) = r.client ELSE r.client = r.peer

Conn == 1..PoolSize + MaxBreak
NoConn == 0
Key == Address \cup (Address \X {r.port : r \in Request})

VARIABLES
    handler,    \* per handler: see Idle
    tokens,     \* redis: per limit and key, the requests of this window
    passed,     \* history: per limit and client, the requests let through
    pool, nextId, mutex,    \* socketPool
    open,       \* connections that are not closed
    subs,       \* the subscriptions that venn holds, as <<handler, connection>>
    left,       \* history: one was left to venn that no handler knows of
    up,         \* venn can be reached
    pending, drainer,       \* Telemetry: the channel, and the goroutine of New
    arrivals, breaks

socket == <<pool, nextId, mutex, open, subs, left>>
limits == <<tokens, passed>>
telemetry == <<pending, drainer>>
faults == <<up, arrivals, breaks>>
vars == <<handler, limits, socket, telemetry, faults>>

Idle == [pc |-> "idle", gone |-> FALSE]

\* A handler by its stage: between requests or at the end of one, at the limits, at
\* the proxy, in a subscription.
Resting == [pc : {"idle", "publish"}, gone : BOOLEAN]
Limiting == [pc : {"limit"}, gone : BOOLEAN, request : Request, limit : 1..Len(Total) + 1]
Serving == [pc : {"serve"}, gone : BOOLEAN, method : {r.method : r \in Request},
            ws : {r.ws : r \in Request}]
Subscribing == [pc : {"loop", "lock", "dial", "subscribe", "live", "release"},
                gone : BOOLEAN, first : BOOLEAN, conn : Conn \cup {NoConn}]
Stage == Resting \cup Limiting \cup Serving \cup Subscribing

TypeOK ==
    /\ handler \in [Handler -> Stage]
    /\ tokens \in [DOMAIN Total -> [Key -> Nat]]
    /\ passed \in [DOMAIN Total -> [Address -> Nat]]
    /\ pool \in [0..PoolSize - 1 -> Conn \cup {NoConn}]
    /\ nextId \in 0..PoolSize /\ mutex \in Handler \cup {Nobody}
    /\ open \subseteq Conn /\ subs \subseteq Handler \X Conn /\ left \in BOOLEAN
    /\ up \in BOOLEAN /\ arrivals \in 0..MaxArrivals /\ breaks \in 0..MaxBreak
    /\ pending \in 0..PendingSize /\ drainer \in {"take", "ack", "over"}

Init ==
    /\ handler = [h \in Handler |-> Idle]
    /\ tokens = [i \in DOMAIN Total |-> [k \in Key |-> 0]]
    /\ passed = [i \in DOMAIN Total |-> [a \in Address |-> 0]]
    /\ pool = [s \in 0..PoolSize - 1 |-> NoConn] /\ nextId = 0 /\ mutex = Nobody
    /\ open = {} /\ subs = {} /\ left = FALSE
    /\ up = TRUE /\ pending = 0 /\ drainer = "take"
    /\ arrivals = 0 /\ breaks = 0

-----------------------------------------------------------------------------
(* The middlewares *)

\* What is an IP address for net.ParseIP.
Valid(header) == header \in Address

\* The trusted headers are believed if they come from a trusted peer, the first of
\* them that has an address; that has no port.
RemoteAddr(r) ==
    LET valid == {i \in DOMAIN r.headers : Valid(r.headers[i])}
    IN  IF r.peer \in TrustedOrigins /\ valid # {}
        THEN [host |-> r.headers[CHOOSE i \in valid : \A j \in valid : i <= j]]
        ELSE [host |-> r.peer, port |-> r.port]

\* Variant: as in the api of the nodes, the port is dropped where there is none.
SlugInverted(r) ==
    LET addr == RemoteAddr(r)
    IN  IF "port" \in DOMAIN addr THEN <<addr.host, addr.port>> ELSE addr.host

\* WithIdentifier: net.SplitHostPort, or the address as it is.
Slug(r) == RemoteAddr(r).host

\* origin.Split and splitPattern: an origin and a pattern are [scheme, host, port],
\* the host a sequence of labels; what is missing is empty.
Any == "*"
AnyOrigin == [scheme |-> Any, host |-> <<Any>>, port |-> Any]
KnownPorts == [https |-> "443", wss |-> "443", http |-> "80", ws |-> "80",
               ftp |-> "23", gopher |-> "70"]

Splits(o) == o.scheme # "" /\ (o.port # "" \/ o.scheme \in DOMAIN KnownPorts)
PortOf(o) == IF o.port # "" THEN o.port ELSE KnownPorts[o.scheme]

\* Variant: labels beyond those of the pattern do not matter.
MatchHostnamePrefix(o, p) ==
    \A i \in DOMAIN p : i \in DOMAIN o /\ (p[i] = Any \/ o[i] = Any \/ o[i] = p[i])

MatchHostname(o, p) ==
    Len(o) = Len(p) /\ \A i \in DOMAIN p : p[i] = Any \/ o[i] = Any \/ o[i] = p[i]

MatchString(o, p) == o # "" /\ (p = Any \/ o = p)

\* A pattern that does not split fails every request (without a scheme: by a panic).
MatchFails(o, p) == ~Splits(o) \/ (p # AnyOrigin /\ ~Splits(p))
Match(o, p) ==
    /\ ~MatchFails(o, p)
    /\ \/ p = AnyOrigin
       \/ /\ MatchString(o.scheme, p.scheme) /\ MatchHostname(o.host, p.host)
          /\ MatchString(PortOf(o), PortOf(p))

\* The patterns in their order: an error ends the search like a match.  With CORS, a
\* preflight is answered at once.
OriginAllowed(r) ==
    \/ AllowedOrigins = <<>>
    \/ /\ ~(CorsEnabled /\ r.method = "OPTIONS")
       /\ \E i \in DOMAIN AllowedOrigins :
            /\ Match(r.origin, AllowedOrigins[i])
            /\ \A j \in 1..i - 1 : ~MatchFails(r.origin, AllowedOrigins[j])

\* The body, and the parameters in it, are not above 5 MB.
SizeAllowed(r) == ~r.large

\* MethodValidationMiddleware: no overlong and no internal method.
ValidMethod(r) == r.method # "_internal"

Whitelisted(r) == Whitelist = {} \/ r.method \in Whitelist

\* What fails one of the checks is answered there and then.
Admitted(r) == OriginAllowed(r) /\ SizeAllowed(r) /\ ValidMethod(r) /\ Whitelisted(r)

Go(h, pc) == handler' = [handler EXCEPT ![h].pc = pc]

Arrive(h, r) ==
    /\ handler[h].pc = "idle" /\ arrivals < MaxArrivals
    /\ arrivals' = arrivals + 1
    /\ handler' = [handler EXCEPT ![h] =
           IF ~Admitted(r) THEN Idle
           ELSE [pc |-> "limit", gone |-> FALSE, request |-> r, limit |-> 1]]
    /\ UNCHANGED <<limits, socket, telemetry, up, breaks>>

\* The client of a request, or of a subscription, goes away.
Leave(h) ==
    /\ handler[h].pc # "idle" /\ ~handler[h].gone
    /\ handler' = [handler EXCEPT ![h].gone = TRUE]
    /\ UNCHANGED <<limits, socket, telemetry, faults>>

\* RuedisRatelimiter, one limit after the other.  A request that a later limit
\* refuses has used up the earlier ones; so does redis when it fails.
Allow(h) ==
    LET j == handler[h]
        key == Slug(j.request)
    IN  /\ j.pc = "limit"
        /\ \/ /\ j.limit <= Len(Total) /\ tokens[j.limit][key] < Total[j.limit]
              /\ tokens' = [tokens EXCEPT ![j.limit][key] = @ + 1]
              /\ passed' = [passed EXCEPT ![j.limit][j.request.client] = @ + 1]
              /\ handler' = [handler EXCEPT ![h].limit = @ + 1]
           \/ /\ j.limit <= Len(Total)
              /\ handler' = [handler EXCEPT ![h] = Idle] /\ UNCHANGED limits
           \/ /\ j.limit > Len(Total)
              /\ handler' = [handler EXCEPT ![h] =
                     [pc |-> "serve", gone |-> j.gone, method |-> j.request.method,
                      ws |-> j.request.ws]]
              /\ UNCHANGED limits
        /\ UNCHANGED <<socket, telemetry, faults>>

\* A window of limit i is over.
Window(i) ==
    /\ tokens' = [tokens EXCEPT ![i] = [k \in Key |-> 0]]
    /\ passed' = [passed EXCEPT ![i] = [a \in Address |-> 0]]
    /\ UNCHANGED <<handler, socket, telemetry, faults>>

Publishing(h) == [pc |-> "publish", gone |-> handler[h].gone]

\* handleHttp, and where eth_subscribe goes: it needs a websocket.
Serve(h) ==
    /\ handler[h].pc = "serve"
    /\ handler' = [handler EXCEPT ![h] =
           IF handler[h].method = "eth_subscribe" /\ handler[h].ws
           THEN [pc |-> "loop", gone |-> @.gone, first |-> TRUE, conn |-> NoConn]
           ELSE Publishing(h)]
    /\ UNCHANGED <<limits, socket, telemetry, faults>>

-----------------------------------------------------------------------------
(* Telemetry *)

\* Publish, after the answer: while the channel is full the handler waits.
Publish(h) ==
    /\ handler[h].pc = "publish"
    /\ IF TelemetryEnabled THEN pending < PendingSize /\ pending' = pending + 1
       ELSE UNCHANGED pending
    /\ handler' = [handler EXCEPT ![h] = Idle]
    /\ UNCHANGED <<limits, socket, drainer, faults>>

\* PublishAsync fails: the request is answered again.
PublishFails(h) ==
    /\ handler[h].pc = "publish" /\ TelemetryEnabled
    /\ handler' = [handler EXCEPT ![h] = Idle]
    /\ UNCHANGED <<limits, socket, telemetry, faults>>

\* The goroutine of New takes one future, waits for it, and ends.
Drain ==
    /\ \/ drainer = "take" /\ pending > 0 /\ pending' = pending - 1 /\ drainer' = "ack"
       \/ drainer = "ack" /\ drainer' = "over" /\ UNCHANGED pending
    /\ UNCHANGED <<handler, limits, socket, faults>>

-----------------------------------------------------------------------------
(* handleEthSubscription *)

\* The top of the loop; a retry comes a second later, whatever happens meanwhile.
Loop(h) ==
    /\ handler[h].pc = "loop"
    /\ handler' = [handler EXCEPT ![h] =
           IF @.gone THEN Publishing(h) ELSE [@ EXCEPT !.pc = "lock"]]
    /\ UNCHANGED <<limits, socket, telemetry, faults>>

Slot == IF nextId >= PoolSize THEN 0 ELSE nextId

\* Variant: the next slot is dialed whatever it holds.
LockDialAlways(h) ==
    /\ handler[h].pc = "lock" /\ mutex = Nobody
    /\ nextId' = Slot /\ mutex' = h /\ Go(h, "dial")
    /\ UNCHANGED <<limits, pool, open, subs, left, telemetry, faults>>

\* socketPool.get: round robin; a slot that is empty, or whose connection is
\* closed, is dialed under the mutex.
Lock(h) ==
    /\ handler[h].pc = "lock" /\ mutex = Nobody
    /\ IF pool[Slot] \in open
       THEN /\ handler' = [handler EXCEPT ![h].pc = "subscribe", ![h].conn = pool[Slot]]
            /\ nextId' = Slot + 1 /\ UNCHANGED mutex
       ELSE nextId' = Slot /\ mutex' = h /\ Go(h, "dial")
    /\ UNCHANGED <<limits, pool, open, subs, left, telemetry, faults>>

Unused == Conn \ (open \cup {pool[s] : s \in DOMAIN pool}
                       \cup {handler[h].conn : h \in {g \in Handler : "conn" \in DOMAIN handler[g]}})

Dial(h) ==
    /\ handler[h].pc = "dial" /\ up
    /\ \E c \in Unused :
         /\ \A d \in Unused : c <= d
         /\ open' = open \cup {c} /\ pool' = [pool EXCEPT ![nextId] = c]
         /\ handler' = [handler EXCEPT ![h].pc = "subscribe", ![h].conn = c]
    /\ nextId' = nextId + 1 /\ mutex' = Nobody
    /\ UNCHANGED <<limits, subs, left, telemetry, faults>>

\* Variant: a later failure ends the subscription like the first.
RetryNever(h) == [handler EXCEPT ![h] = Publishing(h)]

\* A failure is the client's if it is the first, else there is another round.
Retry(h) ==
    [handler EXCEPT ![h] =
        IF @.first THEN Publishing(h) ELSE [@ EXCEPT !.pc = "loop", !.conn = NoConn]]

DialFails(h) ==
    /\ handler[h].pc = "dial" /\ (~up \/ handler[h].gone)
    /\ handler' = Retry(h) /\ mutex' = Nobody
    /\ UNCHANGED <<limits, pool, nextId, open, subs, left, telemetry, faults>>

Subscribe(h) ==
    /\ handler[h].pc = "subscribe" /\ handler[h].conn \in open
    /\ subs' = subs \cup {<<h, handler[h].conn>>}
    /\ handler' = [handler EXCEPT ![h].pc = "live", ![h].first = FALSE]
    /\ UNCHANGED <<limits, pool, nextId, mutex, open, left, telemetry, faults>>

\* Venn refuses, the connection is lost, or the client goes away, in which case
\* venn may have accepted all the same.
SubscribeFails(h) ==
    LET j == handler[h]
    IN  /\ j.pc = "subscribe"
        /\ j.first \/ ~up \/ j.gone \/ j.conn \notin open
        /\ handler' = Retry(h)
        /\ UNCHANGED left \/ (j.gone /\ j.conn \in open /\ left' = TRUE)
        /\ UNCHANGED <<limits, pool, nextId, mutex, open, subs, telemetry, faults>>

\* Variant: without the deferred Unsubscribe.
EndKeeps(h) ==
    /\ handler[h].pc = "live"
    /\ handler' = [handler EXCEPT ![h].pc = "loop", ![h].conn = NoConn]
    /\ UNCHANGED <<limits, socket, telemetry, faults>>

\* The inner function: notifications are forwarded until something dies, which is the
\* client, the connection, the subscription (sub.Err) or a single Notify.
End(h) ==
    /\ handler[h].pc = "live"
    /\ Go(h, "release")
    /\ UNCHANGED <<limits, socket, telemetry, faults>>

\* What the inner function defers.  It may fail, which goes unnoticed: then venn goes
\* on with a subscription that nobody reads.
Unsubscribe(h) ==
    LET conn == handler[h].conn
    IN  /\ handler[h].pc = "release"
        /\ subs' = subs \ {<<h, conn>>}
        /\ UNCHANGED left \/ (conn \in open /\ left' = TRUE)
        /\ handler' = [handler EXCEPT ![h].pc = "loop", ![h].conn = NoConn]
        /\ UNCHANGED <<limits, pool, nextId, mutex, open, telemetry, faults>>

-----------------------------------------------------------------------------
(* Venn *)

\* A connection is lost, and what it carried.
Break(c) ==
    /\ c \in open /\ breaks < MaxBreak /\ breaks' = breaks + 1
    /\ open' = open \ {c} /\ subs' = {s \in subs : s[2] # c}
    /\ UNCHANGED <<handler, limits, pool, nextId, mutex, left, telemetry, up, arrivals>>

UpDown == up' = ~up /\ UNCHANGED <<handler, limits, socket, telemetry, arrivals, breaks>>

Step(h) ==
    \/ Allow(h) \/ Serve(h) \/ Publish(h) \/ Loop(h)
    \/ Dial(h) \/ Subscribe(h) \/ Unsubscribe(h)

\* What ends a subscription for certain.
Over(h) == handler[h].gone \/ handler[h].conn \notin open

Next ==
    \/ \E h \in Handler : \/ Step(h) \/ Lock(h) \/ DialFails(h) \/ SubscribeFails(h)
                          \/ End(h) \/ PublishFails(h) \/ Leave(h) \/ \E r \in Request : Arrive(h, r)
    \/ \E i \in DOMAIN Total : Window(i)
    \/ \E c \in Conn : Break(c)
    \/ Drain \/ UpDown

\* Handlers run and get the mutex in their turn; a dial that is not answered ends
\* only with the context of its client, a subscription with that or its connection.
Spec ==
    /\ Init /\ [][Next]_vars
    /\ WF_vars(Drain)
    /\ \A h \in Handler : /\ WF_vars(Step(h)) /\ SF_vars(Lock(h))
                          /\ WF_vars(handler[h].gone /\ DialFails(h))
                          /\ WF_vars(SubscribeFails(h)) /\ WF_vars(End(h) /\ Over(h))

-----------------------------------------------------------------------------
(* Properties *)

\* A client has one budget: whatever connections and proxies its requests come
\* through, and whatever headers they carry, no limit lets more than its total
\* pass in a window (the trusted headers, WithIdentifier and the limiter together).
BudgetIsKept ==
    \A i \in DOMAIN Total : \A a \in Address : passed[i][a] <= Total[i]

\* The connections over which venn holds a subscription of h.
Held(h) == {c \in Conn : <<h, c>> \in subs}

\* However the connections are lost, and handlers race to replace them, there are
\* never more of them open than the pool has slots, and each of them is in a slot:
\* none is forgotten while it is open (socketPool.get).
PoolIsBounded == open \subseteq {pool[s] : s \in DOMAIN pool} \ {NoConn}

\* Venn does not go on for a client that has left: whatever its handler was doing, and
\* though the connection lives on for others, what venn holds for it is released - if
\* not before the call that subscribes has been answered (handleEthSubscription).
\* (A call that fails leaves something behind: NothingIsLeft.)
UpstreamIsReleased ==
    \A h \in Handler : handler[h].gone /\ Held(h) # {} ~> Held(h) = {}

\* Of all the rounds of a handler venn holds at most one, and none once the handler
\* subscribes again or has ended: a retry, over the same connection or another, does
\* not get its notifications twice.
OneSubscription ==
    \A h \in Handler : /\ Cardinality(Held(h)) <= 1
                       /\ handler[h].pc \in {"subscribe", "publish", "idle"} => Held(h) = {}

\* The inductive invariants behind these: whoever dials has the mutex, nobody else
\* does, and the slot it dials for holds no open connection; what venn holds for a
\* handler is what it forwards or is about to release; and a limit counts a request
\* under the address of its client, whichever way it came.
PoolInv ==
    /\ \A h \in Handler : handler[h].pc = "dial" <=> mutex = h
    /\ mutex # Nobody => nextId < PoolSize /\ pool[nextId] \notin open
    /\ PoolIsBounded

ReleaseInv ==
    \A h \in Handler : \A c \in Held(h) :
        handler[h].pc \in {"live", "release"} /\ handler[h].conn = c

BudgetInv ==
    \A i \in DOMAIN Total :
        /\ \A k \in Key : tokens[i][k] <= Total[i]
        /\ \A a \in Address : passed[i][a] <= tokens[i][a]

\* Who gets as far as the limits comes from an origin that the configuration lists:
\* some pattern has its host label for label from the right, "*" for one of them or,
\* in front, for any subdomain (the comments on origin.Match), and a port that is
\* left out is the one of the scheme - whatever was said of the patterns before it.
\* (Of origins that are host names: the code takes a "*" in them for a wildcard, too.)
Listed(o, p) ==
    LET extra == Len(o.host) - Len(p.host)
    IN  \/ p = AnyOrigin
        \/ /\ p.scheme \in {Any, o.scheme} /\ PortOf(p) \in {Any, PortOf(o)}
           /\ extra = 0 \/ (extra > 0 /\ Head(p.host) = Any)
           /\ \A i \in DOMAIN p.host : p.host[i] \in {Any, o.host[i + extra]}

OnlyListedOrigins ==
    \A h \in Handler : handler[h].pc = "limit" /\ AllowedOrigins # <<>> =>
        LET o == handler[h].request.origin
        IN  \/ \E i \in DOMAIN o.host : o.host[i] = Any
            \/ \E i \in DOMAIN AllowedOrigins :
                 Splits(AllowedOrigins[i]) /\ Listed(o, AllowedOrigins[i])

Established(h) == "first" \in DOMAIN handler[h] /\ ~handler[h].first
Forwarded(h) == handler[h].pc = "live" /\ handler[h].conn \in open

\* A subscription that was established survives the loss of its connection and an
\* absence of venn: once venn is back it is forwarded again, unless its client has
\* gone - though all subscriptions dial under one mutex.
SubscriptionIsKept ==
    <>[]up => \A h \in Handler : Established(h) ~> (Forwarded(h) \/ handler[h].gone)

-----------------------------------------------------------------------------
(* Claims that do not hold: README, "Refuted claims" *)

\* A handler whose client has gone ends: it may wait for the mutex while another
\* dials, and for a place in the channel of the telemetry for ever.
HandlersEnd == \A h \in Handler : handler[h].gone ~> handler[h].pc = "idle"

\* "this will call the deferr handler which will call unsubscribe"
\* (hybridproxy.go:77): a client that goes away leaves nothing behind.
NothingIsLeft == ~left

\* "any subdomain of example.com" (origin.go:151): one of two labels is refused.
SubdomainsMatch ==
    \A r \in Request, i \in DOMAIN AllowedOrigins :
        Splits(r.origin) /\ Splits(AllowedOrigins[i]) /\ Listed(r.origin, AllowedOrigins[i])
            => Match(r.origin, AllowedOrigins[i])
=============================================================================
