-------------------------------- MODULE Lists --------------------------------
(***************************************************************************)
(* What sorted(), a comprehension with a test, a set of what was seen and  *)
(* extend() make of a list, written over the places of its elements.       *)
(***************************************************************************)
EXTENDS Integers, Sequences, FiniteSets

IsList(s) == s \in Seq({ s[k] : k \in DOMAIN s })

\* The ranks of some places in a strict order of them, a set of pairs.
Ranks(places, before) ==
    [ k \in places |-> Cardinality({ j \in places : j = k \/ << j, k >> \in before }) ]

\* A list sorted by a strict order of its places: each goes to its rank.
Sorted(list, before) ==
    LET rank == Ranks(DOMAIN list, before)
    IN  [ p \in DOMAIN list |-> list[CHOOSE k \in DOMAIN list : rank[k] = p] ]

\* The elements at some places, in their order.
Picked(list, places) ==
    LET upto[n \in 0..Len(list)] ==
            IF n = 0 THEN << >>
            ELSE IF n \in places THEN Append(upto[n - 1], list[n]) ELSE upto[n - 1]
    IN  upto[Len(list)]

\* The use of a value, computed once: TLC keeps no value of an argument inside ENABLED.
Once(value, Use(_)) == CHOOSE used \in { Use(x) : x \in {value} } : TRUE

\* What a comprehension makes of each element and its place.
Mapped(items, Item(_, _)) == Once(items, LAMBDA s : [ k \in DOMAIN s |-> Item(k, s[k]) ])

\* The elements that pass a test.
Filter(list, Test(_)) == Once(list, LAMBDA s : Picked(s, { k \in DOMAIN s : Test(s[k]) }))

\* The elements, each at its first place.
FirstPlaces(list) == { k \in DOMAIN list : \A j \in DOMAIN list : list[j] = list[k] => k <= j }
Distinct(list) == Once(list, LAMBDA s : Picked(s, FirstPlaces(s)))

\* The elements of each list of a list, one list after the other.
Joined(lists) ==
    LET upto[n \in 0..Len(lists)] == IF n = 0 THEN << >> ELSE upto[n - 1] \o lists[n]
    IN  upto[Len(lists)]
Flatten(lists) == Once(lists, Joined)

\* The sum of a list of numbers.
Total(list) ==
    LET upto[n \in 0..Len(list)] == IF n = 0 THEN 0 ELSE upto[n - 1] + list[n]
    IN  upto[Len(list)]

\* What some number of each element adds up to.
SumOf(list, Amount(_)) == Total(Mapped(list, LAMBDA k, x : Amount(x)))
=============================================================================
