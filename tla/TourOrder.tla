------------------------------- MODULE TourOrder -------------------------------
(***************************************************************************)
(* The order of the stops of a tour (services/routing.py): the legs of the *)
(* simulated network and ExactRouteOrderOptimizer, which tries every order *)
(* up to three stops and uses Held and Karp's algorithm beyond.            *)
(*                                                                         *)
(* A layout gives each agency its place on a grid; the origin, stop 0, is  *)
(* at <<0, 0>>.  The agencies are numbers in the order of their keys.      *)
(***************************************************************************)
EXTENDS Integers, Sequences, FiniteSets, SequencesExt

\* Python's comparison of two tuples, neither a prefix of the other.
Before(s, t) ==
    \E i \in DOMAIN s : (\A j \in 1..(i - 1) : s[j] = t[j]) /\ s[i] < t[i]

\* min(S, key=...): the key of each member of S is given by a function.
Least(key) == CHOOSE x \in DOMAIN key : \A y \in DOMAIN key : ~ Before(key[y], key[x])

\* sorted(S, key=...), where no two keys are equal.
Sorted(key) ==
    CHOOSE s \in SetToSeqs(DOMAIN key) :
        \A i, j \in DOMAIN s : i < j => Before(key[s[i]], key[s[j]])

Absolute(n) == IF n < 0 THEN - n ELSE n

Place(layout, i) == IF i = 0 THEN <<0, 0>> ELSE layout[i]

\* Three minutes a kilometre and two for a leg that goes somewhere.
Leg(layout, i, j) ==
    LET from == Place(layout, i)
        to == Place(layout, j)
        distance == Absolute(to[1] - from[1]) + Absolute(to[2] - from[2])
    IN  [distance |-> distance,
         time |-> 3 * distance + (IF distance = 0 THEN 0 ELSE 2)]

\* route: the legs of the order given, the return to the origin included.
Tour(layout, order) ==
    LET points == <<0>> \o order \o <<0>>
        legs == [i \in 1..(Len(points) - 1) |->
                    Leg(layout, points[i], points[i + 1])]
    IN  [order |-> order,
         time |-> SumFunction([i \in DOMAIN legs |-> legs[i].time]),
         distance |-> SumFunction([i \in DOMAIN legs |-> legs[i].distance])]

TourRank(tour) == <<tour.time, tour.distance>> \o tour.order

\* The least of some tours or paths.
Shortest(tours) == Least([tour \in tours |-> TourRank(tour)])

Exhaustive(layout, stops) ==
    Shortest({Tour(layout, order) : order \in SetToSeqs(stops)})

Longer(layout, path, from, to) ==
    LET leg == Leg(layout, from, to)
    IN  [time |-> path.time + leg.time, distance |-> path.distance + leg.distance,
         order |-> Append(path.order, to)]

NoPath == [time |-> 0, distance |-> 0, order |-> <<>>]

\* states: the best path from the origin through all of visited, its last one last.
Path(layout, stops) ==
    LET path[visited \in SUBSET stops] ==
            [last \in visited |->
                IF visited = {last} THEN Longer(layout, NoPath, 0, last)
                ELSE Shortest({Longer(layout, path[visited \ {last}][k], k, last) :
                                  k \in visited \ {last}})]
    IN  path

\* The return is added before the least is taken.
HeldKarp(layout, stops) ==
    LET best == Shortest({Longer(layout, Path(layout, stops)[stops][last], last, 0) :
                             last \in stops})
    IN  Tour(layout, Front(best.order))

ShortestTour(layout, stops) ==
    IF Cardinality(stops) <= 3
    THEN Exhaustive(layout, stops)
    ELSE HeldKarp(layout, stops)
===============================================================================
