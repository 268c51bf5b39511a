----------------------------- MODULE Validator ------------------------------
(***************************************************************************)
(* Validator (lib/callcenter/validator.go): what one remote says of its    *)
(* head (eth_getBlockByNumber "latest", eth_blockNumber) is compared with  *)
(* what it said before.  Requests are in flight together and their answers *)
(* reach updateHead in any order.  A timestamp is kept as its age, up to   *)
(* Old + 1, which stands for everything that is too old.  The remote is    *)
(* honest: its head only rises, or is replaced by a sibling.               *)
(***************************************************************************)
EXTENDS Naturals

CONSTANTS
    Request,
    Old,       \* the duration after which a head that does not move is old
    MaxBlock   \* bound on the remote's head

ASSUME ValidatorAssumption == Old \in Nat /\ MaxBlock \in Nat \ {0}

VARIABLES
    head, updated,  \* T.head, T.updated
    remote,         \* environment: the remote's head
    req,            \* per request: where it is ...
    block,          \* ... and the block it brings back
    said,           \* history: what Middleware made of a request's last block
    best            \* history: the highest head let through

vars == <<head, updated, remote, req, block, said, best>>

Age == 0..(Old + 1)
Block == [number : 0..MaxBlock, age : Age]
None == [number |-> 0, age |-> Old + 1]

TypeOK ==
    /\ head \in 0..MaxBlock /\ updated \in Age
    /\ remote \in Block
    /\ req \in [Request -> {"idle", "asked", "answered"}]
    /\ block \in [Request -> Block]
    /\ said \in [Request -> {"nothing", "ok", "backwards", "old"}]
    /\ best \in 0..MaxBlock

\* NewValidator: head 0, updated at the zero time.
Init ==
    /\ head = 0 /\ updated = Old + 1
    /\ remote \in {b \in Block : b.number = 1}
    /\ req = [q \in Request |-> "idle"]
    /\ block = [q \in Request |-> None]
    /\ said = [q \in Request |-> "nothing"]
    /\ best = 0

-----------------------------------------------------------------------------

Ask(q) ==
    /\ req[q] = "idle"
    /\ req' = [req EXCEPT ![q] = "asked"]
    /\ UNCHANGED <<head, updated, remote, block, said, best>>

\* The remote answers with its head, of which the number and the timestamp are read.
Serve(q) ==
    /\ req[q] = "asked"
    /\ req' = [req EXCEPT ![q] = "answered"]
    /\ block' = [block EXCEPT ![q] = remote]
    /\ UNCHANGED <<head, updated, remote, said, best>>

\* An error, null, something that is no block, or 15 seconds without an answer:
\* the validator's state is not touched.
Fail(q) ==
    /\ req[q] = "asked"
    /\ req' = [req EXCEPT ![q] = "idle"]
    /\ said' = [said EXCEPT ![q] = "nothing"]
    /\ UNCHANGED <<head, updated, remote, block, best>>

\* Variants: the later of the two moments counts; a lower head is let through.
Later(age) == IF age < updated THEN age ELSE updated
VerdictAny(b) == "ok"

\* updateHead: the moment since when the head has stood still.
Earlier(age) == IF age > updated THEN age ELSE updated

NewHead(b) == IF b.number > head THEN b.number ELSE head

NewUpdated(b) ==
    CASE b.number < head -> updated
      [] b.number > head -> b.age
      [] b.number = head -> Earlier(b.age)

Verdict(b) ==
    CASE b.number < head -> "backwards"
      [] b.number > head -> "ok"
      [] b.number = head -> IF Earlier(b.age) > Old THEN "old" ELSE "ok"

UpdateHead(q) ==
    LET b == block[q]
    IN  /\ req[q] = "answered"
        /\ head' = NewHead(b) /\ updated' = NewUpdated(b)
        /\ said' = [said EXCEPT ![q] = Verdict(b)]
        /\ best' = IF Verdict(b) = "ok" /\ b.number > best THEN b.number ELSE best
        /\ req' = [req EXCEPT ![q] = "idle"]
        /\ block' = [block EXCEPT ![q] = None]
        /\ UNCHANGED remote

-----------------------------------------------------------------------------
(* The remote's chain and the clock *)

\* A child may be late, but not older than its parent.
Advance ==
    /\ remote.number < MaxBlock
    /\ \E age \in 0..remote.age :
         remote' = [number |-> remote.number + 1, age |-> age]
    /\ UNCHANGED <<head, updated, req, block, said, best>>

Reorg ==
    /\ \E age \in Age \ {remote.age} : remote' = [remote EXCEPT !.age = age]
    /\ UNCHANGED <<head, updated, req, block, said, best>>

Older(age) == IF age > Old THEN age ELSE age + 1

Tick ==
    /\ updated' = Older(updated)
    /\ remote' = [remote EXCEPT !.age = Older(@)]
    /\ block' = [q \in Request |-> [block[q] EXCEPT !.age = Older(@)]]
    /\ UNCHANGED <<head, req, said, best>>

Next ==
    \/ \E q \in Request : Ask(q) \/ Serve(q) \/ Fail(q) \/ UpdateHead(q)
    \/ Advance \/ Reorg \/ Tick

Spec == Init /\ [][Next]_vars

\* Requests end and time passes; nobody has to ask.
FairSpec ==
    /\ Spec
    /\ WF_vars(Tick)
    /\ \A q \in Request : WF_vars(Serve(q) \/ Fail(q)) /\ WF_vars(UpdateHead(q))

-----------------------------------------------------------------------------
(* Properties *)

LetThrough(q) == UpdateHead(q) /\ said'[q] = "ok"

\* Whatever the order of the answers, a head that is let through is not below one
\* that was let through before.
HeadNeverFallsBack ==
    [][\A q \in Request : LetThrough(q) => block[q].number >= best]_vars

\* A remote that stays at one height is refused in the end, for good, even if it
\* keeps replacing the block there by a younger one.
StuckRemoteIsRefused ==
    <>[][remote'.number = remote.number]_vars
        => <>[][\A q \in Request : ~LetThrough(q)]_vars

-----------------------------------------------------------------------------
(* Claims of the documentation that do not hold: README, "Refuted claims" *)

\* "fallback when rpcs fell behind" (readme.md): no head that is too old is let
\* through.
OldHeadIsRefused ==
    [][\A q \in Request : LetThrough(q) => block[q].age <= Old]_vars

\* "head jumped backwards" (errors.go): the remote is told so only if its head
\* did; the remote of this model never does that.
NoFalseAccusation == \A q \in Request : said[q] # "backwards"
=============================================================================
