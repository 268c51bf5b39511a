--------------------------- MODULE LeaseContract ----------------------------
(***************************************************************************)
(* What AcquireLease promises (the doc comment of Strategy in              *)
(* lib/election/strategy.go), without channels, locks or goroutines: a     *)
(* lease is sent at most once per request and only during a term of        *)
(* leadership, it closes when its parent closes or the term ends, and a    *)
(* term is not over while one of its leases is open.                       *)
(***************************************************************************)
CONSTANT Client

VARIABLES
    term,     \* leadership is held, or is being handed back
    leading,  \* leadership is held
    lease     \* the lease of each client's current request

vars == <<term, leading, lease>>

Init ==
    /\ term = FALSE /\ leading = FALSE
    /\ lease = [c \in Client |-> "none"]

Request(c) ==
    /\ lease[c] # "live"
    /\ lease' = [lease EXCEPT ![c] = "none"]
    /\ UNCHANGED <<term, leading>>

\* "the channel will send and then close once leadership is acquired"
Grant(c) ==
    /\ term /\ lease[c] = "none"
    /\ lease' = [lease EXCEPT ![c] = "live"]
    /\ UNCHANGED <<term, leading>>

\* A request whose parent is already cancelled is answered with a closed context.
GrantClosed(c) ==
    /\ term /\ lease[c] = "none"
    /\ lease' = [lease EXCEPT ![c] = "done"]
    /\ UNCHANGED <<term, leading>>

\* "if leadership is lost, context should error with ErrLostLeadership"
Lose(c) ==
    /\ ~leading /\ lease[c] = "live"
    /\ lease' = [lease EXCEPT ![c] = "lost"]
    /\ UNCHANGED <<term, leading>>

\* "the context will close if ... the parent context is cancelled"
ParentDone(c) ==
    /\ lease[c] = "live"
    /\ lease' = [lease EXCEPT ![c] = "done"]
    /\ UNCHANGED <<term, leading>>

Learn ==
    /\ term' = TRUE /\ leading' \in BOOLEAN
    /\ UNCHANGED lease

EndTerm ==
    /\ ~leading /\ \A c \in Client : lease[c] # "live"
    /\ term' = FALSE
    /\ UNCHANGED <<leading, lease>>

Next ==
    \/ Learn \/ EndTerm
    \/ \E c \in Client :
          Request(c) \/ Grant(c) \/ GrantClosed(c) \/ Lose(c) \/ ParentDone(c)

Spec == Init /\ [][Next]_vars
=============================================================================
