--------------------------- MODULE MCRoutedQuery ---------------------------
(* RoutedQuery for TLC: the tasks' settings.                               *)
EXTENDS RoutedQuery

Unset == [maxTokens |-> 1, in |-> Nil, out |-> Nil, map |-> Nil, loopback |-> FALSE]

Local   == [Unset EXCEPT !.loopback = TRUE]
Mapped  == [Unset EXCEPT !.map = [in |-> 1, out |-> 1]]
HalfSet == [Unset EXCEPT !.in = 1]

\* The settings of the tasks, their output ceilings but for routing's alike.
Setup(catalog, route, routeTokens, extract, synthesize) ==
    [catalog    |-> [catalog EXCEPT !.maxTokens = 2],
     route      |-> [route EXCEPT !.maxTokens = routeTokens],
     extract    |-> extract,
     synthesize |-> synthesize]

\* Routing local, its shards bounded by the cards going in; both local and the
\* shards bounded by the decisions coming out; extraction priced on one side.
Setups == {Setup(Mapped, Local, 5, Mapped, Mapped),
           Setup(Local, Local, 3, Mapped, Mapped),
           Setup(Local, Local, 5, HalfSet, Local)}
=============================================================================
