----------------------------- MODULE MCRouting ------------------------------
EXTENDS Routing

CONSTANTS A, B, X, Y

MCParam == {Absent, [tag |-> "null"], [tag |-> "other"], [tag |-> "latest"], [tag |-> "pending"],
            [tag |-> "safe"], [tag |-> "earliest"], Number(1), Number(4),
            Number(2 * Half - 1), Number(2 * Half + 2)}

\* The examples of the comment on FilterQueryTopics, and a trailing wildcard.
F(addresses, topics) == [addresses |-> addresses, topics |-> topics]
MCFilter == {F({}, <<>>), F({X}, <<{A}>>), F({}, <<{}, {B}>>), F({}, <<{Null, A}, {B}>>),
             F({X, Y}, <<{A, B}, {B}>>), F({}, <<{A}, {}>>)}

MCLogsOf(n) ==
    IF n % 2 = 0 THEN {} ELSE
    {[address |-> X, topics |-> <<A>>], [address |-> Y, topics |-> <<A, B>>],
     [address |-> X, topics |-> <<B, B>>], [address |-> Y, topics |-> <<>>]}
=============================================================================
