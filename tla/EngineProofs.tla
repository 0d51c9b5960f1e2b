---------------------------- MODULE EngineProofs ----------------------------
(***************************************************************************)
(* What holds of the reading of any exports, of the snapshots made of      *)
(* them and of the reports on them: no date is guessed, the orders are     *)
(* those of the file, no unique key is broken, a dataset comes back as it  *)
(* was stored; a report leaves few costs out, bounds the refunds of the    *)
(* products, tells every unwelcome change and counts nothing twice over    *)
(* the periods it looks back on.                                           *)
(***************************************************************************)
EXTENDS Engine, FiniteSetTheorems, WellFoundedInduction, TLAPS

-----------------------------------------------------------------------------
(* Lists *)

\* A list is a sequence of its elements.
LEMMA ListIs == \A s : IsList(s) <=> s \in Seq(ToSet(s))
BY DEF IsList, ToSet

\* What is known of a list.
LEMMA ListFacts ==
    ASSUME NEW s, IsList(s)
    PROVE  /\ Len(s) \in Nat /\ DOMAIN s = 1 .. Len(s)
           /\ s = [i \in 1 .. Len(s) |-> s[i]]
           /\ \A i \in 1 .. Len(s) : s[i] \in ToSet(s)
           /\ \A x \in ToSet(s) : \E i \in 1 .. Len(s) : x = s[i]
BY DEF IsList, ToSet

\* A function on the first numbers is a list.
LEMMA FunctionIsList ==
    ASSUME NEW n \in Nat, NEW s, DOMAIN s = 1 .. n, s = [i \in 1 .. n |-> s[i]]
    PROVE  IsList(s) /\ Len(s) = n
<1> DEFINE S == ToSet(s)
<1>1. \A i \in 1 .. n : s[i] \in S
  BY DEF ToSet
<1> HIDE DEF S
<1>2. s \in [1 .. n -> S]
  BY <1>1
<1>3. s \in Seq(S) /\ Len(s) = n
  BY <1>2
<1>4. QED
  BY <1>3 DEF IsList, S

\* The empty list.
LEMMA EmptyList == IsList(<< >>) /\ Len(<< >>) = 0 /\ DOMAIN << >> = {} /\ ToSet(<< >>) = {}
<1>1. Len(<< >>) = 0 /\ DOMAIN << >> = {} /\ ToSet(<< >>) = {}
  BY DEF ToSet
<1>2. << >> \in Seq({})
  OBVIOUS
<1>3. QED
  BY <1>1, <1>2 DEF IsList

\* One element more.
LEMMA Longer ==
    ASSUME NEW s, IsList(s), NEW x
    PROVE  LET t == Append(s, x)
           IN  /\ IsList(t) /\ Len(t) = Len(s) + 1 /\ Len(s) \in Nat
               /\ DOMAIN s = 1 .. Len(s) /\ DOMAIN t = 1 .. Len(s) + 1
               /\ \A i \in 1 .. Len(s) : t[i] = s[i]
               /\ t[Len(s) + 1] = x
               /\ ToSet(t) = ToSet(s) \cup {x}
<1> DEFINE t == Append(s, x)
           S == ToSet(s) \cup {x}
           n == Len(s)
<1>1. s \in Seq(S) /\ x \in S
  <2>1. /\ Len(s) \in Nat /\ s = [i \in 1 .. Len(s) |-> s[i]]
        /\ \A i \in 1 .. Len(s) : s[i] \in ToSet(s)
    BY ListFacts
  <2>2. ToSet(s) \subseteq S /\ x \in S
    OBVIOUS
  <2> HIDE DEF S
  <2>3. s \in [1 .. Len(s) -> S]
    BY <2>1, <2>2
  <2>4. QED
    BY <2>1, <2>2, <2>3
<1>2. /\ t \in Seq(S) /\ Len(t) = n + 1 /\ n \in Nat
      /\ DOMAIN s = 1 .. n /\ DOMAIN t = 1 .. n + 1
      /\ \A i \in 1 .. n : t[i] = s[i]
      /\ t[n + 1] = x
  BY <1>1
<1> HIDE DEF t, n
<1>3. ToSet(t) = ToSet(s) \cup {x}
  <2>1. ASSUME NEW y \in ToSet(t) PROVE y \in ToSet(s) \cup {x}
    <3>1. PICK i \in 1 .. n + 1 : y = t[i]
      BY <1>2 DEF ToSet
    <3>2. CASE i = n + 1
      BY <1>2, <3>1, <3>2
    <3>3. CASE i # n + 1
      <4>1. i \in 1 .. n
        BY <1>2, <3>1, <3>3
      <4>2. QED
        BY <1>2, <3>1, <4>1 DEF ToSet
    <3>4. QED
      BY <3>2, <3>3
  <2>2. ASSUME NEW y \in ToSet(s) PROVE y \in ToSet(t)
    <3>1. PICK i \in 1 .. n : y = s[i]
      BY <1>2 DEF ToSet
    <3>2. i \in 1 .. n + 1 /\ t[i] = y
      BY <1>2, <3>1
    <3>3. QED
      BY <1>2, <3>2 DEF ToSet
  <2>3. x \in ToSet(t)
    <3>1. n + 1 \in 1 .. n + 1
      BY <1>2
    <3>2. QED
      BY <1>2, <3>1 DEF ToSet
  <2>4. QED
    BY <2>1, <2>2, <2>3
<1>4. IsList(t)
  BY <1>2, <1>3 DEF IsList, S
<1>5. QED
  BY <1>2, <1>3, <1>4 DEF t, n

-----------------------------------------------------------------------------
(* Sorted lists *)

\* The elements of a list, each once, in another order.
Permuted(s, t) ==
    \E places \in Bijection(DOMAIN s, DOMAIN s) : t = [p \in DOMAIN s |-> s[places[p]]]

\* A permuted list has the same elements, as often.
LEMMA PermutedFacts ==
    ASSUME NEW s, IsList(s), NEW t, Permuted(s, t)
    PROVE  /\ IsList(t) /\ Len(t) = Len(s) /\ DOMAIN t = DOMAIN s
           /\ ToSet(t) = ToSet(s)
           /\ \A i, j \in DOMAIN t : i # j => \E k, l \in DOMAIN s : k # l /\ t[i] = s[k] /\ t[j] = s[l]
<1>1. PICK places \in Bijection(DOMAIN s, DOMAIN s) : t = [p \in DOMAIN s |-> s[places[p]]]
  BY DEF Permuted
<1>2. Len(s) \in Nat /\ DOMAIN s = 1 .. Len(s)
  BY ListFacts
<1>3. /\ DOMAIN t = DOMAIN s
      /\ \A p \in DOMAIN s : t[p] = s[places[p]] /\ places[p] \in DOMAIN s
      /\ \A p, q \in DOMAIN s : p # q => places[p] # places[q]
      /\ \A k \in DOMAIN s : \E p \in DOMAIN s : places[p] = k
  BY <1>1 DEF Bijection, Injection, Surjection, IsInjective
<1>4. IsList(t) /\ Len(t) = Len(s)
  <2> DEFINE n == Len(s)
  <2>1. n \in Nat /\ DOMAIN t = 1 .. n
    BY <1>2, <1>3
  <2>2. t = [i \in DOMAIN t |-> t[i]]
    BY <1>1
  <2> HIDE DEF n
  <2>3. IsList(t) /\ Len(t) = n
    BY <2>1, <2>2, FunctionIsList
  <2>4. QED
    BY <2>3 DEF n
<1>5. ToSet(t) = ToSet(s)
  <2>1. ASSUME NEW x \in ToSet(t) PROVE x \in ToSet(s)
    <3>1. PICK p \in DOMAIN t : x = t[p]
      BY <2>1 DEF ToSet
    <3>2. p \in DOMAIN s /\ t[p] = s[places[p]] /\ places[p] \in DOMAIN s
      BY <1>3, <3>1
    <3>3. QED
      BY <3>1, <3>2 DEF ToSet
  <2>2. ASSUME NEW x \in ToSet(s) PROVE x \in ToSet(t)
    <3>1. PICK k \in DOMAIN s : x = s[k]
      BY DEF ToSet
    <3>2. PICK p \in DOMAIN s : places[p] = k
      BY <1>3, <3>1
    <3>3. p \in DOMAIN t /\ t[p] = s[places[p]]
      BY <1>3, <3>2
    <3>4. t[p] = x
      BY <3>1, <3>2, <3>3
    <3>5. QED
      BY <3>3, <3>4 DEF ToSet
  <2>3. QED
    BY <2>1, <2>2
<1>6. ASSUME NEW i \in DOMAIN t, NEW j \in DOMAIN t, i # j
      PROVE  \E k, l \in DOMAIN s : k # l /\ t[i] = s[k] /\ t[j] = s[l]
  <2>1. /\ places[i] \in DOMAIN s /\ places[j] \in DOMAIN s /\ places[i] # places[j]
        /\ t[i] = s[places[i]] /\ t[j] = s[places[j]]
    BY <1>3, <1>6
  <2>2. QED
    BY <2>1
<1>7. QED
  BY <1>3, <1>4, <1>5, <1>6

\* In a strict order of the first n numbers, each has a rank, and no two the same.
LEMMA RanksArePlaces ==
    ASSUME NEW n \in Nat, NEW R,
           \A i \in 1 .. n : <<i, i>> \notin R,
           \A i, j, k \in 1 .. n : <<i, j>> \in R /\ <<j, k>> \in R => <<i, k>> \in R,
           \A i, j \in 1 .. n : i = j \/ <<i, j>> \in R \/ <<j, i>> \in R
    PROVE  Ranks(1 .. n, R) \in Bijection(1 .. n, 1 .. n)
<1> DEFINE N == 1 .. n
           rank == Ranks(1 .. n, R)
           Upto(k) == {j \in N : j = k \/ <<j, k>> \in R}
<1>1. IsFiniteSet(N) /\ Cardinality(N) = n
  <2>1. IsFiniteSet(N) /\ Cardinality(N) = IF 1 > n THEN 0 ELSE n - 1 + 1
    BY FS_Interval
  <2>2. (IF 1 > n THEN 0 ELSE n - 1 + 1) = n
    OBVIOUS
  <2>3. QED
    BY <2>1, <2>2
<1>2. ASSUME NEW k \in N
      PROVE  IsFiniteSet(Upto(k)) /\ rank[k] = Cardinality(Upto(k)) /\ rank[k] \in N
  <2>1. Upto(k) \in SUBSET N /\ k \in Upto(k)
    OBVIOUS
  <2>2. IsFiniteSet(Upto(k)) /\ Cardinality(Upto(k)) <= n
    <3>1. \A T \in SUBSET N : IsFiniteSet(T) /\ Cardinality(T) <= Cardinality(N)
      BY <1>1, FS_Subset
    <3> HIDE DEF N, Upto
    <3>2. QED
      BY <1>1, <2>1, <3>1
  <2>3. Cardinality(Upto(k)) # 0 /\ Cardinality(Upto(k)) \in Nat
    BY <2>1, <2>2, FS_EmptySet, FS_CardinalityType
  <2>4. rank[k] = Cardinality(Upto(k))
    BY DEF Ranks
  <2> HIDE DEF Upto
  <2>5. QED
    BY <2>2, <2>3, <2>4
<1>3. ASSUME NEW k \in N, NEW l \in N, <<k, l>> \in R PROVE rank[k] # rank[l]
  <2>1. Upto(k) \in SUBSET Upto(l) /\ l \in Upto(l) /\ l \notin Upto(k)
    <3>1. l \notin Upto(k)
      <4>1. ~(<<l, k>> \in R)
        BY <1>3
      <4>2. l # k
        BY <1>3
      <4>3. QED
        BY <4>1, <4>2
    <3>2. QED
      BY <1>3, <3>1
  <2>2. Upto(k) # Upto(l)
    BY <2>1
  <2> HIDE DEF Upto
  <2>3. Cardinality(Upto(l)) # Cardinality(Upto(k))
    BY <1>2, <2>1, <2>2, FS_Subset
  <2>4. QED
    BY <1>2, <2>3
<1>4. rank \in Injection(N, N)
  <2>1. rank \in [N -> N]
    BY <1>2 DEF Ranks
  <2>2. \A k, l \in N : rank[k] = rank[l] => k = l
    BY <1>3
  <2>3. QED
    BY <2>1, <2>2 DEF Injection, IsInjective
<1>5. rank \in Surjection(N, N)
  BY <1>1, <1>4, FS_Injection
<1>6. QED
  BY <1>4, <1>5 DEF Bijection

\* To put each element at its rank permutes a list.
LEMMA SortingPermutes ==
    ASSUME NEW s, NEW rank \in Bijection(DOMAIN s, DOMAIN s), NEW t,
           t = [p \in DOMAIN s |-> s[CHOOSE k \in DOMAIN s : rank[k] = p]]
    PROVE  Permuted(s, t)
<1> DEFINE D == DOMAIN s
           places == [p \in D |-> CHOOSE k \in D : rank[k] = p]
<1>1. /\ rank \in [D -> D]
      /\ \A k, l \in D : rank[k] = rank[l] => k = l
      /\ \A p \in D : \E k \in D : rank[k] = p
  BY DEF Bijection, Injection, Surjection, IsInjective
<1>2. \A p \in D : places[p] \in D /\ rank[places[p]] = p
  BY <1>1
<1>3. places \in Bijection(D, D)
  <2>1. places \in [D -> D]
    BY <1>2
  <2>2. \A p, q \in D : places[p] = places[q] => p = q
    BY <1>2
  <2>3. \A k \in D : \E p \in D : places[p] = k
    <3> TAKE k \in D
    <3>1. rank[k] \in D
      BY <1>1
    <3>2. rank[places[rank[k]]] = rank[k] /\ places[rank[k]] \in D
      BY <1>2, <3>1
    <3>3. places[rank[k]] = k
      BY <1>1, <3>2
    <3>4. QED
      BY <3>1, <3>3
  <2> HIDE DEF places
  <2>4. QED
    BY <2>1, <2>2, <2>3 DEF Bijection, Injection, Surjection, IsInjective
<1>4. t = [p \in D |-> s[places[p]]]
  OBVIOUS
<1> HIDE DEF places
<1>5. QED
  BY <1>3, <1>4 DEF Permuted

\* A list sorted by a strict order of its places is permuted.
LEMMA SortedIsPermuted ==
    ASSUME NEW s, IsList(s), NEW R,
           \A i \in DOMAIN s : <<i, i>> \notin R,
           \A i, j, k \in DOMAIN s : <<i, j>> \in R /\ <<j, k>> \in R => <<i, k>> \in R,
           \A i, j \in DOMAIN s : i = j \/ <<i, j>> \in R \/ <<j, i>> \in R
    PROVE  Permuted(s, Sorted(s, R))
<1> DEFINE n == Len(s)
           rank == Ranks(DOMAIN s, R)
<1>1. Sorted(s, R) = [p \in DOMAIN s |-> s[CHOOSE k \in DOMAIN s : rank[k] = p]]
  BY Zenon DEF Sorted
<1>2. n \in Nat /\ DOMAIN s = 1 .. n
  BY ListFacts
<1> HIDE DEF n
<1>3. rank \in Bijection(DOMAIN s, DOMAIN s)
  <2>1. /\ \A i \in 1 .. n : <<i, i>> \notin R
        /\ \A i, j, k \in 1 .. n : <<i, j>> \in R /\ <<j, k>> \in R => <<i, k>> \in R
        /\ \A i, j \in 1 .. n : i = j \/ <<i, j>> \in R \/ <<j, i>> \in R
    BY <1>2
  <2>2. Ranks(1 .. n, R) \in Bijection(1 .. n, 1 .. n)
    BY <1>2, <2>1, RanksArePlaces
  <2>3. QED
    BY <1>2, <2>2
<1> HIDE DEF rank
<1>4. QED
  BY <1>1, <1>3, SortingPermutes

\* The orders by their day, and those of one day as they come.
LEMMA OrdersArePermuted ==
    ASSUME NEW s, IsList(s), \A i \in DOMAIN s : s[i].day \in Int
    PROVE  Permuted(s, ByDay(s))
<1> DEFINE D == DOMAIN s
           R == { p \in D \X D : \/ s[p[1]].day < s[p[2]].day
                                 \/ s[p[1]].day = s[p[2]].day /\ p[1] < p[2] }
<1>1. D = 1 .. Len(s) /\ Len(s) \in Nat
  BY ListFacts
<1>2. ASSUME NEW i \in D, NEW j \in D
      PROVE  <<i, j>> \in R <=> (s[i].day < s[j].day \/ (s[i].day = s[j].day /\ i < j))
  OBVIOUS
<1>3. \A i \in D : i \in Int /\ s[i].day \in Int
  BY <1>1
<1>4. ByDay(s) = Sorted(s, R)
  BY Zenon DEF ByDay
<1> HIDE DEF R, D
<1>5. \A i \in D : <<i, i>> \notin R
  BY <1>2, <1>3
<1>6. ASSUME NEW i \in D, NEW j \in D, NEW k \in D, <<i, j>> \in R, <<j, k>> \in R
      PROVE  <<i, k>> \in R
  <2>1. s[i].day < s[j].day \/ (s[i].day = s[j].day /\ i < j)
    BY <1>2, <1>6
  <2>2. s[j].day < s[k].day \/ (s[j].day = s[k].day /\ j < k)
    BY <1>2, <1>6
  <2>3. s[i].day < s[k].day \/ (s[i].day = s[k].day /\ i < k)
    BY <1>3, <2>1, <2>2
  <2>4. QED
    BY <1>2, <2>3
<1>7. ASSUME NEW i \in D, NEW j \in D PROVE i = j \/ <<i, j>> \in R \/ <<j, i>> \in R
  <2>1. \/ i = j \/ s[i].day < s[j].day \/ (s[i].day = s[j].day /\ i < j)
        \/ s[j].day < s[i].day \/ (s[j].day = s[i].day /\ j < i)
    BY <1>3
  <2>2. QED
    BY <1>2, <2>1
<1>8. QED
  BY <1>4, <1>5, <1>6, <1>7, SortedIsPermuted DEF D

\* The advertising by its day and campaign, when no two rows share both.
LEMMA AdsArePermuted ==
    ASSUME NEW s, IsList(s), \A i \in DOMAIN s : s[i].day \in Int /\ s[i].campaign \in Int,
           \A i, j \in DOMAIN s : i # j => ~(s[i].day = s[j].day /\ s[i].campaign = s[j].campaign)
    PROVE  Permuted(s, ByDayAndCampaign(s))
<1> DEFINE D == DOMAIN s
           R == { p \in D \X D : \/ s[p[1]].day < s[p[2]].day
                                 \/ s[p[1]].day = s[p[2]].day /\ s[p[1]].campaign < s[p[2]].campaign }
<1>2. ASSUME NEW i \in D, NEW j \in D
      PROVE  <<i, j>> \in R <=> (s[i].day < s[j].day \/ (s[i].day = s[j].day /\ s[i].campaign < s[j].campaign))
  OBVIOUS
<1>3. \A i \in D : s[i].day \in Int /\ s[i].campaign \in Int
  OBVIOUS
<1>4. ByDayAndCampaign(s) = Sorted(s, R)
  BY Zenon DEF ByDayAndCampaign
<1>9. \A i, j \in D : i # j => ~(s[i].day = s[j].day /\ s[i].campaign = s[j].campaign)
  OBVIOUS
<1> HIDE DEF R, D
<1>5. \A i \in D : <<i, i>> \notin R
  BY <1>2, <1>3
<1>6. ASSUME NEW i \in D, NEW j \in D, NEW k \in D, <<i, j>> \in R, <<j, k>> \in R
      PROVE  <<i, k>> \in R
  <2>1. s[i].day < s[j].day \/ (s[i].day = s[j].day /\ s[i].campaign < s[j].campaign)
    BY <1>2, <1>6
  <2>2. s[j].day < s[k].day \/ (s[j].day = s[k].day /\ s[j].campaign < s[k].campaign)
    BY <1>2, <1>6
  <2>3. s[i].day < s[k].day \/ (s[i].day = s[k].day /\ s[i].campaign < s[k].campaign)
    BY <1>3, <2>1, <2>2
  <2>4. QED
    BY <1>2, <2>3
<1>7. ASSUME NEW i \in D, NEW j \in D PROVE i = j \/ <<i, j>> \in R \/ <<j, i>> \in R
  <2>1. \/ i = j \/ s[i].day < s[j].day \/ (s[i].day = s[j].day /\ s[i].campaign < s[j].campaign)
        \/ s[j].day < s[i].day \/ (s[j].day = s[i].day /\ s[j].campaign < s[i].campaign)
    BY <1>3, <1>9
  <2>2. QED
    BY <1>2, <2>1
<1>8. QED
  BY <1>4, <1>5, <1>6, <1>7, SortedIsPermuted DEF D

-----------------------------------------------------------------------------
(* Dates *)

\* The months start on days.
LEMMA MonthDays == \A m \in 1 .. 12 : MonthStarts[m + 24] \in Int
<1> SUFFICES ASSUME NEW m \in 1 .. 12 PROVE MonthStarts[m + 24] \in Int
  OBVIOUS
<1>1. \/ m = 1 \/ m = 2 \/ m = 3 \/ m = 4 \/ m = 5 \/ m = 6
      \/ m = 7 \/ m = 8 \/ m = 9 \/ m = 10 \/ m = 11 \/ m = 12
  OBVIOUS
<1>2. QED
  BY <1>1 DEF MonthStarts

\* What a cell may say of the order of day and month.
Conventions == {"silent", "invalid", "ambiguous", DAY_FIRST, MONTH_FIRST}

\* What a cell shows is one of the conventions.
LEMMA SlashSays == \A cell : SlashDateOrder(cell) \in Conventions
BY DEF SlashDateOrder, Conventions

\* The day that is read is what the cell says under every convention of its column.
LEMMA ReadSays ==
    ASSUME NEW column, NEW i \in DOMAIN column, column[i] \in DateCells,
           NEW day \in ReadDate(column[i], DetectDateOrder(column))
    PROVE  Says(column[i], column, day) /\ day \in Int
<1> DEFINE cell == column[i]
           own == SlashDateOrder(cell)
           order == DetectDateOrder(column)
           said == {SlashDateOrder(column[k]) : k \in DOMAIN column}
           used == IF own = "ambiguous" THEN order ELSE own
           d == IF used = DAY_FIRST THEN cell.first ELSE cell.second
           m == IF used = DAY_FIRST THEN cell.second ELSE cell.first
<1>1. CASE cell.form = "iso"
  <2>1. day = cell.day
    BY <1>1 DEF ReadDate
  <2>2. cell.day \in Int
    BY <1>1 DEF DateCells
  <2>3. QED
    BY <1>1, <2>1, <2>2 DEF Says
<1>2. CASE cell.form # "iso"
  <2>1. /\ cell.form = "slash" /\ order # REJECT_SLASH_DATES
        /\ used \in {DAY_FIRST, MONTH_FIRST}
        /\ own \in {"ambiguous", order} \/ order = "none"
        /\ IsDate(d, m) /\ day = DayOf(d, m)
    BY <1>2 DEF ReadDate
  <2>2. day \in Int
    <3>1. m \in 1 .. 12 /\ MonthStarts[m + 24] \in Int
      BY <2>1, MonthDays DEF IsDate
    <3>2. d \in Int
      <4>1. cell.first \in Int /\ cell.second \in Int
        BY <2>1 DEF DateCells
      <4>2. QED
        BY <4>1
    <3> HIDE DEF d, m
    <3>3. QED
      BY <2>1, <3>1, <3>2 DEF DayOf
  <2>3. own \in said /\ \A k \in DOMAIN column : SlashDateOrder(column[k]) \in said
    OBVIOUS
  <2>4. \A x \in said : x \in Conventions
    BY SlashSays
  <2>5. /\ {DAY_FIRST, MONTH_FIRST} \subseteq said => order = REJECT_SLASH_DATES
        /\ DAY_FIRST \in said /\ MONTH_FIRST \notin said => order = DAY_FIRST
        /\ MONTH_FIRST \in said /\ DAY_FIRST \notin said => order = MONTH_FIRST
        /\ DAY_FIRST \notin said /\ MONTH_FIRST \notin said => order = "none"
    BY DEF DetectDateOrder, DAY_FIRST, MONTH_FIRST, REJECT_SLASH_DATES
  <2> DEFINE other == IF used = DAY_FIRST THEN MONTH_FIRST ELSE DAY_FIRST
  <2>6. used \in said /\ other \notin said /\ used # other /\ {used, other} = {DAY_FIRST, MONTH_FIRST}
    <3> HIDE DEF said, own, order
    <3>1. used \in said
      BY <2>1, <2>3, <2>5 DEF DAY_FIRST, MONTH_FIRST, REJECT_SLASH_DATES
    <3>2. other \notin said
      BY <2>1, <2>3, <2>5, <3>1 DEF DAY_FIRST, MONTH_FIRST, REJECT_SLASH_DATES
    <3>3. QED
      BY <2>1, <3>1, <3>2 DEF DAY_FIRST, MONTH_FIRST
  <2> HIDE DEF own, order, used, other
  <2>7. Consistent(column) = {used}
    <3>1. used \in Consistent(column)
      <4>1. \A k \in DOMAIN column : SlashDateOrder(column[k]) \in {used, "ambiguous", "silent", "invalid"}
        BY <2>3, <2>4, <2>6 DEF Conventions
      <4>2. QED
        BY <2>1, <4>1 DEF Consistent
    <3>2. other \notin Consistent(column)
      <4>1. PICK k \in DOMAIN column : SlashDateOrder(column[k]) = used
        BY <2>6
      <4>2. used \notin {other, "ambiguous", "silent", "invalid"}
        BY <2>1, <2>6 DEF DAY_FIRST, MONTH_FIRST
      <4>3. QED
        BY <4>1, <4>2 DEF Consistent
    <3>3. Consistent(column) \subseteq {DAY_FIRST, MONTH_FIRST}
      BY DEF Consistent
    <3>4. QED
      BY <2>6, <3>1, <3>2, <3>3
  <2>8. QED
    BY <2>1, <2>2, <2>7 DEF Says
<1>3. QED
  BY <1>1, <1>2

-----------------------------------------------------------------------------
(* The book *)

IsRecord(r, fields) == DOMAIN r = fields /\ r = [f \in fields |-> r[f]]

BookFields ==
    {"products", "orders", "refunds", "payments", "campaigns", "ads", "currency", "withTotal", "cancelled",
     "drafts", "identified", "invalid", "accepted", "priced", "withFee", "paid", "spent"}

OrderFields ==
    {"id", "day", "currency", "customer", "subtotal", "discount", "shipping", "tax", "total", "settled", "items"}

Dates(lines) == [i \in DOMAIN lines |-> lines[i].date]

\* A line says a day: its cell does, under every convention its column allows.
LineSays(lines, i, day) == Says(Dates(lines)[i], Dates(lines), day)

\* The orders: each once, with the day a line that names it says.
OrdersKept(b, lines) ==
    /\ IsList(b.orders)
    /\ \A k \in DOMAIN b.orders :
          /\ IsRecord(b.orders[k], OrderFields) /\ IsList(b.orders[k].items)
          /\ b.orders[k].day \in Int
          /\ \E i \in DOMAIN lines : lines[i].order = b.orders[k].id /\ LineSays(lines, i, b.orders[k].day)
    /\ \A k, l \in DOMAIN b.orders : k # l => b.orders[k].id # b.orders[l].id

\* The payments: each once.
PaymentsKept(b, lines) ==
    /\ IsList(b.payments)
    /\ \A k \in DOMAIN b.payments :
          /\ b.payments[k].id \in b.paid
          /\ \E i \in DOMAIN lines : lines[i].id = b.payments[k].id /\ LineSays(lines, i, b.payments[k].day)
    /\ \A k, l \in DOMAIN b.payments : k # l => b.payments[k].id # b.payments[l].id

\* The refunds: one for an order or for a payment.
RefundsKept(b) ==
    /\ IsList(b.refunds)
    /\ \A k \in DOMAIN b.refunds :
          \/ b.refunds[k].source = "shopify" /\ HasOrder(b.orders, b.refunds[k].id)
          \/ b.refunds[k].source = "stripe" /\ b.refunds[k].id \in b.paid
    /\ \A k, l \in DOMAIN b.refunds :
          k # l => b.refunds[k].source # b.refunds[l].source \/ b.refunds[k].id # b.refunds[l].id

\* The advertising: one row for a campaign and a day.
AdsKept(b, lines) ==
    /\ IsList(b.ads)
    /\ \A k \in DOMAIN b.ads :
          /\ <<b.ads[k].campaign, b.ads[k].day>> \in b.spent
          /\ b.ads[k].day \in Int /\ b.ads[k].campaign \in Int
          /\ \E i \in DOMAIN lines : lines[i].campaign = b.ads[k].campaign /\ LineSays(lines, i, b.ads[k].day)
    /\ \A k, l \in DOMAIN b.ads :
          k # l => ~(b.ads[k].campaign = b.ads[l].campaign /\ b.ads[k].day = b.ads[l].day)

IsFunction(f) == f = [k \in DOMAIN f |-> f[k]]

BookKept(b, e) ==
    /\ DOMAIN b = BookFields
    /\ IsFunction(b.products) /\ IsFiniteSet(DOMAIN b.products)
    /\ OrdersKept(b, e.shopify_orders)
    /\ PaymentsKept(b, e.stripe)
    /\ RefundsKept(b)
    /\ AdsKept(b, e.google_ads)

\* An empty book.
LEMMA EmptyBookKept == ASSUME NEW e PROVE BookKept(EmptyBook, e)
<1>1. DOMAIN EmptyBook = BookFields
  BY DEF IsRecord, EmptyBook, BookFields
<1>2. /\ EmptyBook.products = << >> /\ EmptyBook.orders = << >> /\ EmptyBook.refunds = << >>
      /\ EmptyBook.payments = << >> /\ EmptyBook.ads = << >>
  BY DEF EmptyBook
<1>3. IsFunction(<< >>) /\ IsFiniteSet(DOMAIN << >>)
  BY EmptyList, FS_EmptySet DEF IsFunction
<1>4. QED
  BY <1>1, <1>2, <1>3, EmptyList DEF BookKept, OrdersKept, PaymentsKept, RefundsKept, AdsKept

\* What an opened order changes.
LEMMA OpenedFields ==
    ASSUME NEW b, DOMAIN b = BookFields, NEW row, NEW day
    PROVE  LET c == Opened(b, row, day)
           IN  /\ DOMAIN c = BookFields
               /\ c.orders = Append(b.orders, OpenedOrder(row, day))
               /\ c.refunds = b.refunds
                  \/ c.refunds = Append(b.refunds, [id |-> row.order, order |-> row.order, day |-> day,
                                                    amount |-> row.refunded, source |-> "shopify"])
               /\ c.products = b.products /\ c.payments = b.payments /\ c.ads = b.ads
               /\ c.paid = b.paid /\ c.spent = b.spent /\ c.campaigns = b.campaigns
<1> DEFINE c == Opened(b, row, day)
<1>1. DOMAIN b = BookFields
  OBVIOUS
<1>2. DOMAIN c = BookFields
  BY <1>1 DEF Opened
<1>3. c.orders = Append(b.orders, OpenedOrder(row, day))
  BY <1>1 DEF BookFields, Opened
<1>4. \/ c.refunds = b.refunds
      \/ c.refunds = Append(b.refunds, [id |-> row.order, order |-> row.order, day |-> day,
                                        amount |-> row.refunded, source |-> "shopify"])
  BY <1>1 DEF BookFields, Opened
<1>5. /\ c.products = b.products /\ c.payments = b.payments /\ c.ads = b.ads
      /\ c.paid = b.paid /\ c.spent = b.spent /\ c.campaigns = b.campaigns
  BY <1>1 DEF BookFields, Opened
<1>6. QED
  BY <1>2, <1>3, <1>4, <1>5

\* What the article of a line changes.
LEMMA ItemisedFields ==
    ASSUME NEW b, DOMAIN b = BookFields, NEW row
    PROVE  LET c == Itemised(b, row)
               place == PlaceOf(b.orders, row.order)
           IN  /\ DOMAIN c = BookFields
               /\ IF OrZero(row.quantity) <= 0 \/ IsDuplicate(b, row) THEN c.orders = b.orders
                  ELSE c.orders = [b.orders EXCEPT ![place].items = Append(@, Article(row))]
               /\ c.refunds = b.refunds
               /\ c.products = b.products /\ c.payments = b.payments /\ c.ads = b.ads
               /\ c.paid = b.paid /\ c.spent = b.spent /\ c.campaigns = b.campaigns
BY DEF IsRecord, BookFields, Itemised

\* Books with the same lists.
LEMMA QuietKept ==
    ASSUME NEW b, NEW c, NEW e, BookKept(b, e), DOMAIN c = BookFields,
           IsFunction(c.products), IsFiniteSet(DOMAIN c.products),
           c.orders = b.orders, c.refunds = b.refunds, c.payments = b.payments, c.ads = b.ads,
           b.paid \subseteq c.paid, b.spent \subseteq c.spent
    PROVE  BookKept(c, e)
<1>1. OrdersKept(c, e.shopify_orders)
  BY DEF BookKept, OrdersKept
<1>2. PaymentsKept(c, e.stripe)
  BY DEF BookKept, PaymentsKept
<1>3. RefundsKept(c)
  BY DEF BookKept, RefundsKept
<1>4. AdsKept(c, e.google_ads)
  BY DEF BookKept, AdsKept
<1>5. QED
  BY <1>1, <1>2, <1>3, <1>4 DEF BookKept

\* A line that opens an order keeps the book.
LEMMA OpenedKept ==
    ASSUME NEW b, NEW e, BookKept(b, e), NEW i \in DOMAIN e.shopify_orders,
           ~HasOrder(b.orders, e.shopify_orders[i].order),
           NEW day \in Int, LineSays(e.shopify_orders, i, day)
    PROVE  LET c == Opened(b, e.shopify_orders[i], day)
           IN  BookKept(c, e) /\ HasOrder(c.orders, e.shopify_orders[i].order)
<1> DEFINE lines == e.shopify_orders
           row == lines[i]
           c == Opened(b, row, day)
           o == OpenedOrder(row, day)
           r == [id |-> row.order, order |-> row.order, day |-> day, amount |-> row.refunded,
                 source |-> "shopify"]
           n == Len(b.orders)
           m == Len(b.refunds)
<1>1. /\ DOMAIN c = BookFields
      /\ c.orders = Append(b.orders, o)
      /\ c.refunds = b.refunds \/ c.refunds = Append(b.refunds, r)
      /\ c.products = b.products /\ c.payments = b.payments /\ c.ads = b.ads
      /\ c.paid = b.paid /\ c.spent = b.spent
  BY OpenedFields DEF BookKept
<1>2. /\ IsRecord(o, OrderFields) /\ IsList(o.items) /\ o.day = day /\ o.id = row.order
  BY EmptyList DEF OpenedOrder, IsRecord, OrderFields
<1>3. IsList(b.orders) /\ IsList(b.refunds)
  BY DEF BookKept, OrdersKept, RefundsKept
<1> HIDE DEF c, o, r
<1>4. /\ IsList(c.orders) /\ n \in Nat /\ DOMAIN b.orders = 1 .. n /\ DOMAIN c.orders = 1 .. n + 1
      /\ \A k \in 1 .. n : c.orders[k] = b.orders[k]
      /\ c.orders[n + 1] = o
  BY <1>1, <1>3, Longer
<1> HIDE DEF n
<1>5. \A k \in 1 .. n : b.orders[k].id # row.order
  BY <1>4 DEF HasOrder
<1>6. HasOrder(c.orders, row.order)
  <2>1. n + 1 \in DOMAIN c.orders
    BY <1>4
  <2>2. QED
    BY <1>2, <1>4, <2>1 DEF HasOrder
<1>7. \A k \in DOMAIN c.orders : k = n + 1 \/ k \in 1 .. n
  BY <1>4
<1>8. OrdersKept(c, lines)
  <2>1. ASSUME NEW k \in DOMAIN c.orders
        PROVE  /\ IsRecord(c.orders[k], OrderFields) /\ IsList(c.orders[k].items)
               /\ c.orders[k].day \in Int
               /\ \E j \in DOMAIN lines : lines[j].order = c.orders[k].id /\ LineSays(lines, j, c.orders[k].day)
    <3>1. CASE k = n + 1
      BY <1>2, <1>4, <3>1
    <3>2. CASE k \in 1 .. n
      BY <1>4, <3>2 DEF BookKept, OrdersKept
    <3>3. QED
      BY <1>7, <3>1, <3>2
  <2>2. ASSUME NEW k \in DOMAIN c.orders, NEW l \in DOMAIN c.orders, k # l
        PROVE  c.orders[k].id # c.orders[l].id
    <3>1. \A p, q \in 1 .. n : p # q => b.orders[p].id # b.orders[q].id
      BY <1>4 DEF BookKept, OrdersKept
    <3>2. QED
      BY <1>2, <1>4, <1>5, <1>7, <2>2, <3>1
  <2>3. QED
    BY <1>4, <2>1, <2>2 DEF OrdersKept
<1>9. RefundsKept(c)
  <2>1. \A id : HasOrder(b.orders, id) => HasOrder(c.orders, id)
    <3>1. \A k \in DOMAIN b.orders : k \in DOMAIN c.orders /\ c.orders[k] = b.orders[k]
      BY <1>4
    <3>2. QED
      BY <3>1 DEF HasOrder
  <2>2. /\ \A k \in DOMAIN b.refunds :
             \/ b.refunds[k].source = "shopify" /\ HasOrder(b.orders, b.refunds[k].id)
             \/ b.refunds[k].source = "stripe" /\ b.refunds[k].id \in b.paid
        /\ \A k, l \in DOMAIN b.refunds :
             k # l => b.refunds[k].source # b.refunds[l].source \/ b.refunds[k].id # b.refunds[l].id
    BY DEF BookKept, RefundsKept
  <2>3. CASE c.refunds = b.refunds
    BY <1>1, <1>3, <2>1, <2>2, <2>3 DEF RefundsKept
  <2>4. CASE c.refunds = Append(b.refunds, r)
    <3>1. /\ IsList(c.refunds) /\ m \in Nat /\ DOMAIN b.refunds = 1 .. m /\ DOMAIN c.refunds = 1 .. m + 1
          /\ \A k \in 1 .. m : c.refunds[k] = b.refunds[k]
          /\ c.refunds[m + 1] = r
      BY <1>3, <2>4, Longer
    <3> HIDE DEF m
    <3>2. r.source = "shopify" /\ r.id = row.order
      BY DEF r
    <3>3. \A k \in DOMAIN c.refunds : k = m + 1 \/ k \in 1 .. m
      BY <3>1
    <3>4. \A k \in 1 .. m : b.refunds[k].source # "shopify" \/ b.refunds[k].id # row.order
      BY <2>2, <3>1
    <3>5. ASSUME NEW k \in DOMAIN c.refunds
          PROVE  \/ c.refunds[k].source = "shopify" /\ HasOrder(c.orders, c.refunds[k].id)
                 \/ c.refunds[k].source = "stripe" /\ c.refunds[k].id \in c.paid
      BY <1>1, <1>6, <2>1, <2>2, <3>1, <3>2, <3>3
    <3>6. ASSUME NEW k \in DOMAIN c.refunds, NEW l \in DOMAIN c.refunds, k # l
          PROVE  c.refunds[k].source # c.refunds[l].source \/ c.refunds[k].id # c.refunds[l].id
      <4>1. CASE k \in 1 .. m /\ l \in 1 .. m
        <5>1. k \in DOMAIN b.refunds /\ l \in DOMAIN b.refunds
          BY <3>1, <4>1
        <5>2. b.refunds[k].source # b.refunds[l].source \/ b.refunds[k].id # b.refunds[l].id
          BY <2>2, <3>6, <5>1
        <5>3. QED
          BY <3>1, <4>1, <5>2
      <4>2. CASE k = m + 1 /\ l \in 1 .. m
        BY <3>1, <3>2, <3>4, <4>2
      <4>3. CASE l = m + 1 /\ k \in 1 .. m
        BY <3>1, <3>2, <3>4, <4>3
      <4>4. QED
        BY <3>3, <3>6, <4>1, <4>2, <4>3
    <3>7. QED
      BY <3>1, <3>5, <3>6 DEF RefundsKept
  <2>5. QED
    BY <1>1, <2>3, <2>4
<1>10. PaymentsKept(c, e.stripe)
  BY <1>1 DEF BookKept, PaymentsKept
<1>11. AdsKept(c, e.google_ads)
  <2>1. AdsKept(b, e.google_ads) /\ c.ads = b.ads /\ c.spent = b.spent
    BY <1>1 DEF BookKept
  <2>2. QED
    BY <2>1 DEF AdsKept
<1>12. BookKept(c, e)
  BY <1>1, <1>8, <1>9, <1>10, <1>11 DEF BookKept
<1>13. QED
  BY <1>6, <1>12 DEF c

\* The place of an order.
LEMMA Placed ==
    ASSUME NEW orders, NEW id, HasOrder(orders, id)
    PROVE  PlaceOf(orders, id) \in DOMAIN orders /\ orders[PlaceOf(orders, id)].id = id
BY DEF HasOrder, PlaceOf

\* An article of an order that is there keeps the book.
LEMMA ItemisedKept ==
    ASSUME NEW b, NEW e, BookKept(b, e), NEW row, HasOrder(b.orders, row.order)
    PROVE  BookKept(Itemised(b, row), e)
<1> DEFINE c == Itemised(b, row)
           place == PlaceOf(b.orders, row.order)
           n == Len(b.orders)
<1>1. /\ DOMAIN c = BookFields
      /\ c.orders = b.orders \/ c.orders = [b.orders EXCEPT ![place].items = Append(@, Article(row))]
      /\ c.refunds = b.refunds
      /\ c.products = b.products /\ c.payments = b.payments /\ c.ads = b.ads
      /\ c.paid = b.paid /\ c.spent = b.spent
  BY ItemisedFields DEF BookKept
<1> HIDE DEF c
<1>2. place \in DOMAIN b.orders
  BY Placed
<1>3. ASSUME c.orders = b.orders PROVE BookKept(c, e)
  <2>1. IsFunction(c.products) /\ IsFiniteSet(DOMAIN c.products)
    BY <1>1 DEF BookKept
  <2>2. QED
    BY <1>1, <1>3, <2>1, QuietKept
<1>4. ASSUME c.orders = [b.orders EXCEPT ![place].items = Append(@, Article(row))] PROVE BookKept(c, e)
  <2>1. /\ IsList(b.orders)
        /\ \A k \in DOMAIN b.orders :
             /\ IsRecord(b.orders[k], OrderFields) /\ IsList(b.orders[k].items)
             /\ b.orders[k].day \in Int
    BY DEF BookKept, OrdersKept
  <2>2. n \in Nat /\ DOMAIN b.orders = 1 .. n /\ b.orders = [k \in 1 .. n |-> b.orders[k]]
    BY <2>1, ListFacts
  <2> HIDE DEF n, place
  <2>3. DOMAIN c.orders = 1 .. n /\ c.orders = [k \in 1 .. n |-> c.orders[k]]
    BY <1>4, <2>2
  <2>4. IsList(c.orders)
    BY <2>2, <2>3, FunctionIsList
  <2>5. ASSUME NEW k \in DOMAIN b.orders
        PROVE  /\ c.orders[k].id = b.orders[k].id /\ c.orders[k].day = b.orders[k].day
               /\ IsRecord(c.orders[k], OrderFields) /\ IsList(c.orders[k].items)
    <3>1. CASE k # place
      BY <1>4, <2>1, <2>2, <3>1
    <3>2. CASE k = place
      <4>1. c.orders[k] = [b.orders[k] EXCEPT !.items = Append(@, Article(row))]
        BY <1>4, <2>2, <3>2
      <4>2. DOMAIN b.orders[k] = OrderFields
        BY <2>1 DEF IsRecord
      <4>3. c.orders[k].id = b.orders[k].id /\ c.orders[k].day = b.orders[k].day
        BY <4>1, <4>2 DEF OrderFields
      <4>4. IsRecord(c.orders[k], OrderFields)
        BY <4>1, <4>2 DEF IsRecord
      <4>5. c.orders[k].items = Append(b.orders[k].items, Article(row))
        BY <4>1, <4>2 DEF OrderFields
      <4>6. IsList(c.orders[k].items)
        BY <2>1, <4>5, Longer
      <4>7. QED
        BY <4>3, <4>4, <4>6
    <3>3. QED
      BY <3>1, <3>2
  <2>6. OrdersKept(c, e.shopify_orders)
    <3>1. DOMAIN c.orders = DOMAIN b.orders
      BY <2>2, <2>3
    <3>2. /\ \A k \in DOMAIN b.orders : \E i \in DOMAIN e.shopify_orders :
               e.shopify_orders[i].order = b.orders[k].id /\ LineSays(e.shopify_orders, i, b.orders[k].day)
          /\ \A k, l \in DOMAIN b.orders : k # l => b.orders[k].id # b.orders[l].id
      BY DEF BookKept, OrdersKept
    <3>3. QED
      BY <2>1, <2>4, <2>5, <3>1, <3>2 DEF OrdersKept
  <2>7. RefundsKept(c)
    <3>1. \A id : HasOrder(b.orders, id) => HasOrder(c.orders, id)
      BY <2>2, <2>3, <2>5 DEF HasOrder
    <3>2. QED
      BY <1>1, <3>1 DEF BookKept, RefundsKept
  <2>8. PaymentsKept(c, e.stripe)
    BY <1>1 DEF BookKept, PaymentsKept
  <2>9. AdsKept(c, e.google_ads)
    BY <1>1 DEF BookKept, AdsKept
  <2>10. QED
    BY <1>1, <2>6, <2>7, <2>8, <2>9 DEF BookKept
<1>5. BookKept(c, e)
  BY <1>1, <1>3, <1>4
<1>6. QED
  BY <1>5 DEF c

\* Sorting the orders keeps the book.
LEMMA SortedOrdersKept ==
    ASSUME NEW b, NEW e, BookKept(b, e), NEW c, DOMAIN c = BookFields, c.orders = ByDay(b.orders),
           c.refunds = b.refunds, c.products = b.products, c.payments = b.payments, c.ads = b.ads,
           c.paid = b.paid, c.spent = b.spent
    PROVE  BookKept(c, e)
<1>1. IsList(b.orders) /\ \A k \in DOMAIN b.orders : b.orders[k].day \in Int
  BY DEF BookKept, OrdersKept
<1>2. Permuted(b.orders, c.orders)
  BY <1>1, OrdersArePermuted
<1>3. PICK places \in Bijection(DOMAIN b.orders, DOMAIN b.orders) :
          c.orders = [p \in DOMAIN b.orders |-> b.orders[places[p]]]
  BY <1>2 DEF Permuted
<1>4. /\ DOMAIN c.orders = DOMAIN b.orders
      /\ \A p \in DOMAIN b.orders : c.orders[p] = b.orders[places[p]] /\ places[p] \in DOMAIN b.orders
      /\ \A p, q \in DOMAIN b.orders : p # q => places[p] # places[q]
      /\ \A k \in DOMAIN b.orders : \E p \in DOMAIN b.orders : places[p] = k
  BY <1>3 DEF Bijection, Injection, Surjection, IsInjective
<1>5. IsList(c.orders)
  BY <1>1, <1>2, PermutedFacts
<1>6. OrdersKept(c, e.shopify_orders)
  <2>1. /\ \A k \in DOMAIN b.orders :
             /\ IsRecord(b.orders[k], OrderFields) /\ IsList(b.orders[k].items)
             /\ b.orders[k].day \in Int
             /\ \E i \in DOMAIN e.shopify_orders : e.shopify_orders[i].order = b.orders[k].id
                                                   /\ LineSays(e.shopify_orders, i, b.orders[k].day)
        /\ \A k, l \in DOMAIN b.orders : k # l => b.orders[k].id # b.orders[l].id
    BY DEF BookKept, OrdersKept
  <2>2. ASSUME NEW p \in DOMAIN c.orders
        PROVE  /\ IsRecord(c.orders[p], OrderFields) /\ IsList(c.orders[p].items)
               /\ c.orders[p].day \in Int
               /\ \E i \in DOMAIN e.shopify_orders : e.shopify_orders[i].order = c.orders[p].id
                                                     /\ LineSays(e.shopify_orders, i, c.orders[p].day)
    <3>1. places[p] \in DOMAIN b.orders /\ c.orders[p] = b.orders[places[p]]
      BY <1>4
    <3>2. QED
      BY <2>1, <3>1, Zenon
  <2>3. ASSUME NEW p \in DOMAIN c.orders, NEW q \in DOMAIN c.orders, p # q
        PROVE  c.orders[p].id # c.orders[q].id
    <3>1. /\ places[p] \in DOMAIN b.orders /\ places[q] \in DOMAIN b.orders /\ places[p] # places[q]
          /\ c.orders[p] = b.orders[places[p]] /\ c.orders[q] = b.orders[places[q]]
      BY <1>4, <2>3
    <3>2. QED
      BY <2>1, <3>1, Zenon
  <2>4. QED
    BY <1>5, <2>2, <2>3 DEF OrdersKept
<1>7. RefundsKept(c)
  <2>1. ASSUME NEW id, HasOrder(b.orders, id) PROVE HasOrder(c.orders, id)
    <3>1. PICK k \in DOMAIN b.orders : b.orders[k].id = id
      BY <2>1 DEF HasOrder
    <3>2. PICK p \in DOMAIN b.orders : places[p] = k
      BY <1>4
    <3>3. p \in DOMAIN c.orders /\ c.orders[p].id = id
      BY <1>4, <3>1, <3>2
    <3>4. QED
      BY <3>3 DEF HasOrder
  <2>2. QED
    BY <2>1 DEF BookKept, RefundsKept
<1>8. PaymentsKept(c, e.stripe)
  BY DEF BookKept, PaymentsKept
<1>9. AdsKept(c, e.google_ads)
  BY DEF BookKept, AdsKept
<1>10. QED
  BY <1>6, <1>7, <1>8, <1>9 DEF BookKept

\* A new payment keeps the payments.
LEMMA PaidKept ==
    ASSUME NEW b, NEW lines, PaymentsKept(b, lines), NEW i \in DOMAIN lines, lines[i].id \notin b.paid,
           NEW p, p.id = lines[i].id, LineSays(lines, i, p.day),
           NEW c, c.paid = b.paid \cup {lines[i].id}, c.payments = Append(b.payments, p)
    PROVE  PaymentsKept(c, lines)
<1> DEFINE n == Len(b.payments)
<1>1. IsList(b.payments)
  BY DEF PaymentsKept
<1>2. /\ IsList(c.payments) /\ n \in Nat /\ DOMAIN b.payments = 1 .. n /\ DOMAIN c.payments = 1 .. n + 1
      /\ \A k \in 1 .. n : c.payments[k] = b.payments[k]
      /\ c.payments[n + 1] = p
  BY <1>1, Longer
<1> HIDE DEF n
<1>3. \A k \in DOMAIN c.payments : k = n + 1 \/ k \in 1 .. n
  BY <1>2
<1>4. /\ \A k \in 1 .. n :
             /\ b.payments[k].id \in b.paid
             /\ \E j \in DOMAIN lines : lines[j].id = b.payments[k].id /\ LineSays(lines, j, b.payments[k].day)
      /\ \A k, l \in 1 .. n : k # l => b.payments[k].id # b.payments[l].id
  BY <1>2 DEF PaymentsKept
<1>5. PaymentsKept(c, lines)
  <2>1. ASSUME NEW k \in DOMAIN c.payments
        PROVE  /\ c.payments[k].id \in c.paid
               /\ \E j \in DOMAIN lines : lines[j].id = c.payments[k].id /\ LineSays(lines, j, c.payments[k].day)
    <3>1. CASE k = n + 1
      BY <1>2, <3>1
    <3>2. CASE k \in 1 .. n
      BY <1>2, <1>4, <3>2
    <3>3. QED
      BY <1>3, <3>1, <3>2
  <2>2. ASSUME NEW k \in DOMAIN c.payments, NEW l \in DOMAIN c.payments, k # l
        PROVE  c.payments[k].id # c.payments[l].id
    <3>1. CASE k \in 1 .. n /\ l \in 1 .. n
      BY <1>2, <1>4, <2>2, <3>1
    <3>2. CASE k = n + 1 /\ l \in 1 .. n
      BY <1>2, <1>4, <3>2
    <3>3. CASE l = n + 1 /\ k \in 1 .. n
      BY <1>2, <1>4, <3>3
    <3>4. QED
      BY <1>3, <2>2, <3>1, <3>2, <3>3
  <2>3. QED
    BY <1>2, <2>1, <2>2 DEF PaymentsKept
<1>6. QED
  BY <1>5

\* A new payment keeps the refunds, with its own or without one.
LEMMA RefundedKept ==
    ASSUME NEW b, RefundsKept(b), NEW r, r.id \notin b.paid, r.source = "stripe",
           NEW c, c.orders = b.orders, c.paid = b.paid \cup {r.id},
           c.refunds = b.refunds \/ c.refunds = Append(b.refunds, r)
    PROVE  RefundsKept(c)
<1> DEFINE m == Len(b.refunds)
<1>0. IsList(b.refunds)
  BY DEF RefundsKept
<1>1. /\ \A k \in DOMAIN b.refunds :
           \/ b.refunds[k].source = "shopify" /\ HasOrder(b.orders, b.refunds[k].id)
           \/ b.refunds[k].source = "stripe" /\ b.refunds[k].id \in b.paid
      /\ \A k, l \in DOMAIN b.refunds :
           k # l => b.refunds[k].source # b.refunds[l].source \/ b.refunds[k].id # b.refunds[l].id
  BY DEF RefundsKept
<1>2. CASE c.refunds = b.refunds
  BY <1>0, <1>1, <1>2 DEF RefundsKept
<1>3. CASE c.refunds = Append(b.refunds, r)
  <2>1. /\ IsList(c.refunds) /\ m \in Nat /\ DOMAIN b.refunds = 1 .. m /\ DOMAIN c.refunds = 1 .. m + 1
        /\ \A k \in 1 .. m : c.refunds[k] = b.refunds[k]
        /\ c.refunds[m + 1] = r
    BY <1>0, <1>3, Longer
  <2> HIDE DEF m
  <2>2. \A k \in DOMAIN c.refunds : k = m + 1 \/ k \in 1 .. m
    BY <2>1
  <2>3. \A k \in 1 .. m : b.refunds[k].source # "stripe" \/ b.refunds[k].id # r.id
    BY <1>1, <2>1
  <2>4. ASSUME NEW k \in DOMAIN c.refunds
        PROVE  \/ c.refunds[k].source = "shopify" /\ HasOrder(c.orders, c.refunds[k].id)
               \/ c.refunds[k].source = "stripe" /\ c.refunds[k].id \in c.paid
    BY <1>1, <2>1, <2>2
  <2>5. ASSUME NEW k \in DOMAIN c.refunds, NEW l \in DOMAIN c.refunds, k # l
        PROVE  c.refunds[k].source # c.refunds[l].source \/ c.refunds[k].id # c.refunds[l].id
    <3>1. CASE k \in 1 .. m /\ l \in 1 .. m
      <4>1. k \in DOMAIN b.refunds /\ l \in DOMAIN b.refunds
        BY <2>1, <3>1
      <4>2. b.refunds[k].source # b.refunds[l].source \/ b.refunds[k].id # b.refunds[l].id
        BY <1>1, <2>5, <4>1
      <4>3. QED
        BY <2>1, <3>1, <4>2
    <3>2. CASE k = m + 1 /\ l \in 1 .. m
      BY <2>1, <2>3, <3>2
    <3>3. CASE l = m + 1 /\ k \in 1 .. m
      BY <2>1, <2>3, <3>3
    <3>4. QED
      BY <2>2, <2>5, <3>1, <3>2, <3>3
  <2>6. QED
    BY <2>1, <2>4, <2>5 DEF RefundsKept
<1>4. QED
  BY <1>2, <1>3

\* The spend of a day joins the book: a is what line i of the file says of that day, which
\* the campaign has not spent yet.
AdJoins(b, e, i, day, a, c) ==
    /\ BookKept(b, e)
    /\ i \in DOMAIN e.google_ads /\ day \in Int /\ LineSays(e.google_ads, i, day)
    /\ e.google_ads[i].campaign \in Int /\ <<e.google_ads[i].campaign, day>> \notin b.spent
    /\ a.campaign = e.google_ads[i].campaign /\ a.day = day
    /\ DOMAIN c = BookFields /\ c.orders = b.orders /\ c.products = b.products
    /\ c.payments = b.payments /\ c.refunds = b.refunds /\ c.paid = b.paid
    /\ c.ads = Append(b.ads, a) /\ c.spent = b.spent \cup {<<e.google_ads[i].campaign, day>>}

\* A new row of the advertising keeps the book.
LEMMA AdKept ==
    ASSUME NEW b, NEW e, NEW i, NEW day, NEW a, NEW c, AdJoins(b, e, i, day, a, c)
    PROVE  BookKept(c, e)
<1> USE DEF AdJoins
<1> DEFINE lines == e.google_ads
           n == Len(b.ads)
<1>1. IsList(b.ads)
  BY DEF BookKept, AdsKept
<1>2. /\ IsList(c.ads) /\ n \in Nat /\ DOMAIN b.ads = 1 .. n /\ DOMAIN c.ads = 1 .. n + 1
      /\ \A k \in 1 .. n : c.ads[k] = b.ads[k]
      /\ c.ads[n + 1] = a
  BY <1>1, Longer
<1> HIDE DEF n
<1>3. \A k \in DOMAIN c.ads : k = n + 1 \/ k \in 1 .. n
  BY <1>2
<1>4. /\ \A k \in 1 .. n :
             /\ <<b.ads[k].campaign, b.ads[k].day>> \in b.spent
             /\ b.ads[k].day \in Int /\ b.ads[k].campaign \in Int
             /\ \E j \in DOMAIN lines : lines[j].campaign = b.ads[k].campaign /\ LineSays(lines, j, b.ads[k].day)
      /\ \A k, l \in 1 .. n : k # l => ~(b.ads[k].campaign = b.ads[l].campaign /\ b.ads[k].day = b.ads[l].day)
  BY <1>2 DEF BookKept, AdsKept
<1>5. \A k \in 1 .. n : ~(b.ads[k].campaign = a.campaign /\ b.ads[k].day = a.day)
  BY <1>4
<1>6. AdsKept(c, lines)
  <2>1. ASSUME NEW k \in DOMAIN c.ads
        PROVE  /\ <<c.ads[k].campaign, c.ads[k].day>> \in c.spent
               /\ c.ads[k].day \in Int /\ c.ads[k].campaign \in Int
               /\ \E j \in DOMAIN lines : lines[j].campaign = c.ads[k].campaign /\ LineSays(lines, j, c.ads[k].day)
    <3>1. CASE k = n + 1
      BY <1>2, <3>1
    <3>2. CASE k \in 1 .. n
      BY <1>2, <1>4, <3>2
    <3>3. QED
      BY <1>3, <3>1, <3>2
  <2>2. ASSUME NEW k \in DOMAIN c.ads, NEW l \in DOMAIN c.ads, k # l
        PROVE  ~(c.ads[k].campaign = c.ads[l].campaign /\ c.ads[k].day = c.ads[l].day)
    <3>1. CASE k \in 1 .. n /\ l \in 1 .. n
      BY <1>2, <1>4, <2>2, <3>1
    <3>2. CASE k = n + 1 /\ l \in 1 .. n
      BY <1>2, <1>5, <3>2
    <3>3. CASE l = n + 1 /\ k \in 1 .. n
      BY <1>2, <1>5, <3>3
    <3>4. QED
      BY <1>3, <2>2, <3>1, <3>2, <3>3
  <2>3. QED
    BY <1>2, <2>1, <2>2 DEF AdsKept
<1>7. OrdersKept(c, e.shopify_orders)
  BY DEF BookKept, OrdersKept
<1>8. PaymentsKept(c, e.stripe)
  BY DEF BookKept, PaymentsKept
<1>9. RefundsKept(c)
  BY DEF BookKept, RefundsKept
<1>10. QED
  BY <1>6, <1>7, <1>8, <1>9 DEF BookKept

\* Sorting the advertising keeps the book.
LEMMA SortedAdsKept ==
    ASSUME NEW b, NEW e, BookKept(b, e), NEW c, DOMAIN c = BookFields, c.ads = ByDayAndCampaign(b.ads),
           c.refunds = b.refunds, c.products = b.products, c.payments = b.payments, c.orders = b.orders,
           c.paid = b.paid, c.spent = b.spent
    PROVE  BookKept(c, e)
<1> DEFINE lines == e.google_ads
<1>1. /\ IsList(b.ads)
      /\ \A k \in DOMAIN b.ads :
             /\ <<b.ads[k].campaign, b.ads[k].day>> \in b.spent
             /\ b.ads[k].day \in Int /\ b.ads[k].campaign \in Int
             /\ \E j \in DOMAIN lines : lines[j].campaign = b.ads[k].campaign /\ LineSays(lines, j, b.ads[k].day)
      /\ \A k, l \in DOMAIN b.ads :
             k # l => ~(b.ads[k].campaign = b.ads[l].campaign /\ b.ads[k].day = b.ads[l].day)
  BY DEF BookKept, AdsKept
<1>2. Permuted(b.ads, c.ads)
  BY <1>1, AdsArePermuted
<1>3. PICK places \in Bijection(DOMAIN b.ads, DOMAIN b.ads) :
          c.ads = [p \in DOMAIN b.ads |-> b.ads[places[p]]]
  BY <1>2 DEF Permuted
<1>4. /\ DOMAIN c.ads = DOMAIN b.ads
      /\ \A p \in DOMAIN b.ads : c.ads[p] = b.ads[places[p]] /\ places[p] \in DOMAIN b.ads
      /\ \A p, q \in DOMAIN b.ads : p # q => places[p] # places[q]
  BY <1>3 DEF Bijection, Injection, IsInjective
<1>5. IsList(c.ads)
  BY <1>1, <1>2, PermutedFacts
<1>6. AdsKept(c, lines)
  <2>1. ASSUME NEW p \in DOMAIN c.ads
        PROVE  /\ <<c.ads[p].campaign, c.ads[p].day>> \in c.spent
               /\ c.ads[p].day \in Int /\ c.ads[p].campaign \in Int
               /\ \E j \in DOMAIN lines : lines[j].campaign = c.ads[p].campaign /\ LineSays(lines, j, c.ads[p].day)
    <3>1. places[p] \in DOMAIN b.ads /\ c.ads[p] = b.ads[places[p]] /\ c.spent = b.spent
      BY <1>4
    <3>2. QED
      BY <1>1, <3>1, Zenon
  <2>2. ASSUME NEW p \in DOMAIN c.ads, NEW q \in DOMAIN c.ads, p # q
        PROVE  ~(c.ads[p].campaign = c.ads[q].campaign /\ c.ads[p].day = c.ads[q].day)
    <3>1. /\ places[p] \in DOMAIN b.ads /\ places[q] \in DOMAIN b.ads /\ places[p] # places[q]
          /\ c.ads[p] = b.ads[places[p]] /\ c.ads[q] = b.ads[places[q]]
      BY <1>4, <2>2
    <3>2. QED
      BY <1>1, <3>1, Zenon
  <2>3. QED
    BY <1>5, <2>1, <2>2 DEF AdsKept
<1>7. OrdersKept(c, e.shopify_orders)
  BY DEF BookKept, OrdersKept
<1>8. PaymentsKept(c, e.stripe)
  BY DEF BookKept, PaymentsKept
<1>9. RefundsKept(c)
  BY DEF BookKept, RefundsKept
<1>10. QED
  BY <1>6, <1>7, <1>8, <1>9 DEF BookKept

-----------------------------------------------------------------------------
(* Reading keeps the book *)

Place == export \in Exports /\ source \in Nat /\ line \in Nat \ {0}

\* The four sources.
LEMMA SourceNames == ToSet(Sources) = {"shopify_products", "shopify_orders", "stripe", "google_ads"}
<1>1. DOMAIN Sources = 1 .. 4
  BY DEF Sources
<1>2. \A i \in 1 .. 4 : i = 1 \/ i = 2 \/ i = 3 \/ i = 4
  OBVIOUS
<1>3. /\ Sources[1] = "shopify_products" /\ Sources[2] = "shopify_orders"
      /\ Sources[3] = "stripe" /\ Sources[4] = "google_ads"
  BY DEF Sources
<1>4. QED
  BY <1>1, <1>2, <1>3 DEF ToSet

\* The row being read is a line of its file.
LEMMA RowFacts ==
    ASSUME Place, NEW name \in {"shopify_products", "shopify_orders", "stripe", "google_ads"}, AtRow(name)
    PROVE  /\ line \in DOMAIN export[name] /\ Row = export[name][line]
           /\ line \in 1 .. Len(export[name]) /\ Len(export[name]) \in Nat
           /\ name = "shopify_orders" => Row.quantity \in Int \cup {None, Broken}
           /\ name = "google_ads" => Row.campaign \in Int \cup {None}
<1>1. Lines = export[name] /\ export[name] # None /\ line <= Len(export[name]) /\ line \in Nat \ {0}
  BY DEF AtRow, Reading, Lines, Place
<1>2. /\ export[name] \in Seq(ToSet(export[name]))
      /\ \A i \in DOMAIN export[name] :
            /\ name = "shopify_orders" => export[name][i].quantity \in Int \cup {None, Broken}
            /\ name = "google_ads" => export[name][i].campaign \in Int \cup {None}
  BY <1>1, IngestionAssumption, SourceNames DEF Place
<1>3. Len(export[name]) \in Nat /\ DOMAIN export[name] = 1 .. Len(export[name])
  BY <1>2, ListFacts DEF IsList
<1> DEFINE n == Len(export[name])
<1>4. line \in 1 .. n
  <2> HIDE DEF n
  <2>1. line \in Nat \ {0} /\ line <= n /\ n \in Nat
    BY <1>1, <1>3 DEF n
  <2>2. QED
    BY <2>1
<1>5. Row = export[name][line]
  BY <1>1 DEF Row
<1>6. QED
  BY <1>2, <1>3, <1>4, <1>5

\* The day read on a row is what its line says.
LEMMA RowSays ==
    ASSUME Place, NEW name \in {"shopify_orders", "stripe", "google_ads"}, AtRow(name),
           NEW day \in ReadDate(Row.date, DateOrder)
    PROVE  LineSays(export[name], line, day) /\ day \in Int
<1> DEFINE lines == export[name]
           column == Dates(lines)
<1>1. line \in DOMAIN lines /\ Row = lines[line]
  BY RowFacts
<1>2. Lines = lines /\ lines # None
  BY DEF AtRow, Reading, Lines
<1>3. \A i \in DOMAIN lines : lines[i].date \in DateCells
  BY <1>2, IngestionAssumption, SourceNames DEF Place
<1>4. DateOrder = DetectDateOrder(column)
  BY <1>2 DEF DateOrder, Dates
<1>5. line \in DOMAIN column /\ column[line] = Row.date /\ column[line] \in DateCells
  BY <1>1, <1>3 DEF Dates
<1> HIDE DEF column
<1>6. Says(column[line], column, day) /\ day \in Int
  BY <1>4, <1>5, ReadSays
<1>7. QED
  BY <1>6 DEF LineSays, column

ReadInv == Place /\ BookKept(book, export)

\* The steps that leave the lists of the book alone.
LEMMA QuietSteps ==
    ASSUME ReadInv, export' = export,
           \/ UNCHANGED book
           \/ book' = [book EXCEPT !.invalid = @ + 1]
           \/ \E x : book' = [book EXCEPT !.paid = @ \cup {x}]
           \/ \E x, y : book' = [book EXCEPT !.campaigns = @ \cup {x}, !.spent = @ \cup {y}]
    PROVE  BookKept(book', export')
<1>1. BookKept(book, export) /\ DOMAIN book = BookFields
  BY DEF ReadInv, BookKept
<1>2. IsFunction(book.products) /\ IsFiniteSet(DOMAIN book.products)
  BY <1>1 DEF BookKept
<1>3. /\ DOMAIN book' = BookFields
      /\ book'.products = book.products /\ book'.orders = book.orders /\ book'.refunds = book.refunds
      /\ book'.payments = book.payments /\ book'.ads = book.ads
      /\ book.paid \subseteq book'.paid /\ book.spent \subseteq book'.spent
  <2>1. CASE UNCHANGED book
    BY <1>1, <2>1
  <2>2. CASE book' = [book EXCEPT !.invalid = @ + 1]
    BY <1>1, <2>2 DEF BookFields
  <2>3. CASE \E x : book' = [book EXCEPT !.paid = @ \cup {x}]
    BY <1>1, <2>3 DEF BookFields
  <2>4. CASE \E x, y : book' = [book EXCEPT !.campaigns = @ \cup {x}, !.spent = @ \cup {y}]
    BY <1>1, <2>4 DEF BookFields
  <2>5. QED
    BY <2>1, <2>2, <2>3, <2>4
<1>4. QED
  BY <1>1, <1>2, <1>3, QuietKept

\* A cost is set.
LEMMA ProductStep ==
    ASSUME ReadInv, export' = export,
           NEW sku, NEW cost, NEW priced,
           book' = [book EXCEPT !.products = With(@, sku, cost), !.priced = priced]
    PROVE  BookKept(book', export')
<1>1. BookKept(book, export) /\ DOMAIN book = BookFields
  BY DEF ReadInv, BookKept
<1>2. /\ DOMAIN book' = BookFields
      /\ book'.products = With(book.products, sku, cost)
      /\ book'.orders = book.orders /\ book'.refunds = book.refunds
      /\ book'.payments = book.payments /\ book'.ads = book.ads
      /\ book'.paid = book.paid /\ book'.spent = book.spent
  BY <1>1 DEF BookFields
<1>3. IsFunction(book'.products) /\ DOMAIN book'.products = DOMAIN book.products \cup {sku}
  BY <1>2 DEF IsFunction, With
<1>4. IsFiniteSet(DOMAIN book'.products)
  BY <1>1, <1>3, FS_AddElement DEF BookKept
<1>5. QED
  BY <1>1, <1>2, <1>3, <1>4, QuietKept

\* An order is opened.
LEMMA OpenStep == ASSUME ReadInv, OpenOrder PROVE BookKept(book', export')
<1>1. /\ AtRow("shopify_orders") /\ ~HasOrder(book.orders, Row.order)
  BY DEF OpenOrder
<1>2. PICK day \in ReadDate(Row.date, DateOrder) :
          IF Broken \in { Row[c] : c \in Amounts \cup {"quantity", "price"} } THEN RejectReading
          ELSE LET opened == Opened(book, Row, day)
               IN  /\ book' = Itemised(opened, Row)
                   /\ quality' = ItemIssues(OpeningIssues(quality, Row), opened, Row)
                   /\ NextLine
  BY DEF OpenOrder
<1>3. CASE RejectReading
  BY <1>3, QuietSteps DEF RejectReading
<1>4. CASE book' = Itemised(Opened(book, Row, day), Row) /\ NextLine
  <2>1. line \in DOMAIN export.shopify_orders /\ Row = export.shopify_orders[line]
    BY <1>1, RowFacts DEF ReadInv
  <2>2. LineSays(export.shopify_orders, line, day) /\ day \in Int
    BY <1>1, RowSays DEF ReadInv
  <2> DEFINE opened == Opened(book, Row, day)
  <2>3. BookKept(opened, export) /\ HasOrder(opened.orders, Row.order)
    BY <1>1, <2>1, <2>2, OpenedKept DEF ReadInv
  <2> HIDE DEF opened
  <2>4. BookKept(Itemised(opened, Row), export)
    BY <2>3, ItemisedKept
  <2>5. QED
    BY <1>4, <2>4 DEF NextLine, opened
<1>5. QED
  BY <1>2, <1>3, <1>4

\* An order is continued.
LEMMA ContinueStep == ASSUME ReadInv, ContinueOrder PROVE BookKept(book', export')
<1>1. CASE RejectReading
  BY <1>1, QuietSteps DEF RejectReading
<1>2. CASE book' = Itemised(book, Row) /\ NextLine
  BY <1>2, ItemisedKept DEF ContinueOrder, NextLine, ReadInv
<1>3. QED
  BY <1>1, <1>2 DEF ContinueOrder

\* The orders are sorted.
LEMMA EndOrdersStep == ASSUME ReadInv, EndOrders PROVE BookKept(book', export')
<1>1. book' = [book EXCEPT !.orders = ByDay(@)] /\ export' = export
  BY DEF EndOrders, NextFile
<1>2. BookKept(book, export) /\ DOMAIN book = BookFields
  BY DEF ReadInv, BookKept
<1>3. /\ DOMAIN book' = BookFields
      /\ book'.orders = ByDay(book.orders) /\ book'.products = book.products
      /\ book'.refunds = book.refunds /\ book'.payments = book.payments /\ book'.ads = book.ads
      /\ book'.paid = book.paid /\ book'.spent = book.spent
  BY <1>1, <1>2 DEF BookFields
<1>4. QED
  BY <1>1, <1>2, <1>3, SortedOrdersKept

\* A payment is read.
LEMMA PaymentStep == ASSUME ReadInv, ReadPayment PROVE BookKept(book', export')
<1>1. AtRow("stripe") /\ Row.id \notin book.paid
  BY DEF ReadPayment
<1>2. BookKept(book, export) /\ DOMAIN book = BookFields
  BY DEF ReadInv, BookKept
<1>3. line \in DOMAIN export.stripe /\ Row = export.stripe[line]
  BY <1>1, RowFacts DEF ReadInv
<1>4. \/ RejectReading
      \/ \E day \in ReadDate(Row.date, DateOrder) : \E fee, refunded, withFee :
           /\ book' = [book EXCEPT
                        !.paid = @ \cup {Row.id},
                        !.payments = Append(@, [ id |-> Row.id, day |-> day, fee |-> fee ]),
                        !.refunds = IF refunded <= 0 THEN @
                                    ELSE Append(@, [ id |-> Row.id, order |-> Row.order, day |-> day,
                                                     amount |-> refunded, source |-> "stripe" ]),
                        !.withFee = withFee]
           /\ NextLine
  BY Zenon DEF ReadPayment
<1>5. CASE RejectReading
  BY <1>5, QuietSteps DEF RejectReading
<1>6. ASSUME NEW day \in ReadDate(Row.date, DateOrder), NEW fee, NEW refunded, NEW withFee, NextLine,
             book' = [book EXCEPT
                        !.paid = @ \cup {Row.id},
                        !.payments = Append(@, [ id |-> Row.id, day |-> day, fee |-> fee ]),
                        !.refunds = IF refunded <= 0 THEN @
                                    ELSE Append(@, [ id |-> Row.id, order |-> Row.order, day |-> day,
                                                     amount |-> refunded, source |-> "stripe" ]),
                        !.withFee = withFee]
      PROVE  BookKept(book', export')
  <2> DEFINE p == [ id |-> Row.id, day |-> day, fee |-> fee ]
             r == [ id |-> Row.id, order |-> Row.order, day |-> day, amount |-> refunded, source |-> "stripe" ]
  <2>1. LineSays(export.stripe, line, day)
    BY <1>1, RowSays DEF ReadInv
  <2>2. /\ DOMAIN book' = BookFields
        /\ book'.orders = book.orders /\ book'.products = book.products /\ book'.ads = book.ads
        /\ book'.spent = book.spent /\ book'.paid = book.paid \cup {Row.id}
        /\ book'.payments = Append(book.payments, p)
        /\ book'.refunds = book.refunds \/ book'.refunds = Append(book.refunds, r)
    BY <1>2, <1>6 DEF BookFields
  <2>3. p.id = Row.id /\ p.day = day /\ r.id = Row.id /\ r.source = "stripe"
    OBVIOUS
  <2> HIDE DEF p, r
  <2>4. export' = export
    BY <1>6 DEF NextLine
  <2>5. BookKept(book', export)
    <3>1. PaymentsKept(book', export.stripe)
      <4>1. /\ export.stripe[line].id \notin book.paid
            /\ p.id = export.stripe[line].id /\ LineSays(export.stripe, line, p.day)
            /\ book'.paid = book.paid \cup {export.stripe[line].id}
        BY <1>1, <1>3, <2>1, <2>2, <2>3, Zenon
      <4>2. QED
        BY <1>2, <1>3, <2>2, <4>1, PaidKept DEF BookKept
    <3>2. RefundsKept(book')
      <4>1. r.id \notin book.paid /\ book'.paid = book.paid \cup {r.id}
        BY <1>1, <2>2, <2>3, Zenon
      <4>2. QED
        BY <1>2, <2>2, <2>3, <4>1, RefundedKept DEF BookKept
    <3>3. OrdersKept(book', export.shopify_orders)
      BY <1>2, <2>2 DEF BookKept, OrdersKept
    <3>4. AdsKept(book', export.google_ads)
      BY <1>2, <2>2 DEF BookKept, AdsKept
    <3>5. QED
      BY <1>2, <2>2, <3>1, <3>2, <3>3, <3>4 DEF BookKept
  <2>6. QED
    BY <2>4, <2>5
<1>7. QED
  BY <1>4, <1>5, <1>6

\* What a row of the advertising does to the book.
LEMMA AdBooks ==
    ASSUME ReadAd
    PROVE  \/ RejectReading
           \/ NextLine /\ UNCHANGED book
           \/ \E day \in ReadDate(Row.date, DateOrder) :
                /\ NextLine
                /\ book' = [book EXCEPT !.campaigns = @ \cup {Row.campaign}, !.spent = @ \cup {<< Row.campaign, day >>}]
           \/ \E day \in ReadDate(Row.date, DateOrder) : \E spend, clicks, conversions :
                /\ NextLine
                /\ Row.campaign # None /\ << Row.campaign, day >> \notin book.spent
                /\ book' = [[book EXCEPT !.campaigns = @ \cup {Row.campaign}, !.spent = @ \cup {<< Row.campaign, day >>}]
                              EXCEPT !.ads = Append(@, [ day |-> day, campaign |-> Row.campaign, spend |-> spend,
                                                         clicks |-> clicks, conversions |-> conversions ])]
<1>1. PICK day \in ReadDate(Row.date, DateOrder) :
        LET key == << Row.campaign, day >>
            spend == OrZero(Row.spend)
            Refuse(kind, severity) ==
                quality' = AddIssue(quality, "google_ads", kind, severity) /\ NextLine
        IN  CASE Row.campaign = None ->
                   Refuse("missing_campaign", "error") /\ UNCHANGED book
              [] Row.campaign # None /\ key \in book.spent ->
                   Refuse("duplicate_ad_row", "warning") /\ UNCHANGED book
              [] /\ Row.campaign # None /\ key \notin book.spent
                 /\ Row.spend = Broken \/ (spend >= 0 /\ Broken \in {Row.clicks, Row.conversions}) ->
                   RejectReading
              [] OTHER ->
                   LET named == [book EXCEPT !.campaigns = @ \cup {Row.campaign},
                                             !.spent = @ \cup {key}]
                   IN  IF spend < 0
                       THEN Refuse("negative_spend", "error") /\ book' = named
                       ELSE /\ book' = [named EXCEPT !.ads = Append(@,
                                  [ day |-> day, campaign |-> Row.campaign, spend |-> spend,
                                    clicks |-> OrZero(Row.clicks), conversions |-> OrZero(Row.conversions) ])]
                            /\ NextLine
                            /\ UNCHANGED quality
  BY DEF ReadAd
<1> DEFINE key == << Row.campaign, day >>
<1>2. CASE Row.campaign = None
  BY <1>1, <1>2
<1>3. CASE Row.campaign # None /\ key \in book.spent
  BY <1>1, <1>3
<1>4. CASE Row.campaign # None /\ key \notin book.spent
  <2>1. CASE Row.spend = Broken \/ (OrZero(Row.spend) >= 0 /\ Broken \in {Row.clicks, Row.conversions})
    BY <1>1, <1>4, <2>1
  <2>2. CASE ~(Row.spend = Broken \/ (OrZero(Row.spend) >= 0 /\ Broken \in {Row.clicks, Row.conversions}))
    <3>1. CASE OrZero(Row.spend) < 0
      BY <1>1, <1>4, <2>2, <3>1
    <3>2. CASE ~(OrZero(Row.spend) < 0)
      BY <1>1, <1>4, <2>2, <3>2
    <3>3. QED
      BY <3>1, <3>2
  <2>3. QED
    BY <2>1, <2>2
<1>5. QED
  BY <1>2, <1>3, <1>4

\* A row of the advertising is read.
LEMMA AdStep == ASSUME ReadInv, ReadAd PROVE BookKept(book', export')
<1>1. AtRow("google_ads")
  BY DEF ReadAd
<1>2. BookKept(book, export) /\ DOMAIN book = BookFields
  BY DEF ReadInv, BookKept
<1>3. line \in DOMAIN export.google_ads /\ Row = export.google_ads[line] /\ Row.campaign \in Int \cup {None}
  BY <1>1, RowFacts DEF ReadInv
<1>4. \/ RejectReading
      \/ NextLine /\ UNCHANGED book
      \/ \E day \in ReadDate(Row.date, DateOrder) :
           /\ NextLine
           /\ book' = [book EXCEPT !.campaigns = @ \cup {Row.campaign}, !.spent = @ \cup {<< Row.campaign, day >>}]
      \/ \E day \in ReadDate(Row.date, DateOrder) : \E spend, clicks, conversions :
           /\ NextLine
           /\ Row.campaign # None /\ << Row.campaign, day >> \notin book.spent
           /\ book' = [[book EXCEPT !.campaigns = @ \cup {Row.campaign}, !.spent = @ \cup {<< Row.campaign, day >>}]
                         EXCEPT !.ads = Append(@, [ day |-> day, campaign |-> Row.campaign, spend |-> spend,
                                                    clicks |-> clicks, conversions |-> conversions ])]
  BY AdBooks
<1>5. CASE RejectReading
  BY <1>5, QuietSteps DEF RejectReading
<1>6. CASE NextLine /\ UNCHANGED book
  BY <1>6, QuietSteps DEF NextLine
<1>7. ASSUME NEW day, NextLine,
             book' = [book EXCEPT !.campaigns = @ \cup {Row.campaign}, !.spent = @ \cup {<< Row.campaign, day >>}]
      PROVE  BookKept(book', export')
  BY <1>7, QuietSteps DEF NextLine
<1>8. ASSUME NEW day \in ReadDate(Row.date, DateOrder), NEW spend, NEW clicks, NEW conversions, NextLine,
             Row.campaign # None, << Row.campaign, day >> \notin book.spent,
             book' = [[book EXCEPT !.campaigns = @ \cup {Row.campaign}, !.spent = @ \cup {<< Row.campaign, day >>}]
                         EXCEPT !.ads = Append(@, [ day |-> day, campaign |-> Row.campaign, spend |-> spend,
                                                    clicks |-> clicks, conversions |-> conversions ])]
      PROVE  BookKept(book', export')
  <2> DEFINE a == [ day |-> day, campaign |-> Row.campaign, spend |-> spend,
                    clicks |-> clicks, conversions |-> conversions ]
  <2>1. LineSays(export.google_ads, line, day) /\ day \in Int
    BY <1>1, RowSays DEF ReadInv
  <2>2. /\ DOMAIN book' = BookFields
        /\ book'.orders = book.orders /\ book'.products = book.products /\ book'.payments = book.payments
        /\ book'.refunds = book.refunds /\ book'.paid = book.paid
        /\ book'.spent = book.spent \cup {<< Row.campaign, day >>}
        /\ book'.ads = Append(book.ads, a)
    BY <1>2, <1>8 DEF BookFields
  <2>3. a.campaign = Row.campaign /\ a.day = day /\ Row.campaign \in Int
    BY <1>3, <1>8
  <2> HIDE DEF a
  <2>4. export' = export
    BY <1>8 DEF NextLine
  <2>5. BookKept(book', export)
    <3>1. /\ export.google_ads[line].campaign \in Int
          /\ << export.google_ads[line].campaign, day >> \notin book.spent
          /\ a.campaign = export.google_ads[line].campaign /\ a.day = day
          /\ book'.spent = book.spent \cup {<< export.google_ads[line].campaign, day >>}
      BY <1>3, <1>8, <2>2, <2>3, Zenon
    <3>2. QED
      <4>1. /\ BookKept(book, export) /\ line \in DOMAIN export.google_ads /\ day \in Int
            /\ LineSays(export.google_ads, line, day)
        BY <1>2, <1>3, <2>1
      <4>2. AdJoins(book, export, line, day, a, book')
        BY <2>2, <3>1, <4>1 DEF AdJoins
      <4>3. QED
        BY <4>2, AdKept
  <2>6. QED
    BY <2>4, <2>5
<1>9. QED
  BY <1>4, <1>5, <1>6, <1>7, <1>8

\* The advertising is sorted.
LEMMA EndAdsStep == ASSUME ReadInv, EndAds PROVE BookKept(book', export')
<1>1. book' = [book EXCEPT !.ads = ByDayAndCampaign(@)] /\ export' = export
  BY DEF EndAds, NextFile
<1>2. BookKept(book, export) /\ DOMAIN book = BookFields
  BY DEF ReadInv, BookKept
<1>3. /\ DOMAIN book' = BookFields
      /\ book'.ads = ByDayAndCampaign(book.ads) /\ book'.products = book.products
      /\ book'.refunds = book.refunds /\ book'.payments = book.payments /\ book'.orders = book.orders
      /\ book'.paid = book.paid /\ book'.spent = book.spent
  BY <1>1, <1>2 DEF BookFields
<1>4. QED
  BY <1>1, <1>2, <1>3, SortedAdsKept

\* A product is read.
LEMMA ReadProductStep == ASSUME ReadInv, ReadProduct PROVE BookKept(book', export')
<1>1. CASE RejectReading
  BY <1>1, QuietSteps DEF RejectReading
<1>2. CASE ~RejectReading
  <2>1. \E cost, priced :
           book' = [book EXCEPT !.products = With(@, Row.sku, cost), !.priced = priced]
    BY <1>2 DEF ReadProduct
  <2>2. export' = export
    BY <1>2 DEF ReadProduct, NextLine
  <2>3. QED
    BY <2>1, <2>2, ProductStep
<1>3. QED
  BY <1>1, <1>2

\* The files, the row and the book.
LEMMA PlaceStep == ASSUME Place, Next PROVE Place'
<1>1. \/ UNCHANGED << export, source, line >> \/ NextLine \/ NextFile
  BY Zenon DEF Next, Read, Store, Load, AnalyseFiles, Analyse, ReadNext, EmptyFile, SkipSource,
       SkipUnnamedProduct, ReadProduct, EndProducts, RefuseUnnamedLine, RefuseUndatedOrder, OpenOrder,
       ContinueOrder, EndOrders, SkipUnnamedPayment, SkipRepeatedPayment, RefuseUndatedPayment, ReadPayment,
       EndPayments, RefuseUndatedAd, ReadAd, EndAds, CloseReading, RejectReading
<1>2. QED
  BY <1>1 DEF Place, NextLine, NextFile

\* No step of the engine spoils the book.
LEMMA ReadStep == ASSUME ReadInv, Next PROVE ReadInv'
<1>1. Place'
  BY PlaceStep DEF ReadInv
<1>2. CASE /\ UNCHANGED << export, book >>
  BY <1>1, <1>2 DEF ReadInv
<1>3. CASE Read
  <2>1. CASE EmptyFile \/ SkipSource \/ SkipUnnamedProduct \/ EndProducts \/ SkipUnnamedPayment
             \/ SkipRepeatedPayment \/ EndPayments \/ RefuseUndatedAd \/ CloseReading
    <3>1. UNCHANGED << export, book >>
      BY <2>1, Zenon DEF EmptyFile, SkipSource, SkipUnnamedProduct, EndProducts, SkipUnnamedPayment,
           SkipRepeatedPayment, EndPayments, RefuseUndatedAd, CloseReading, RejectReading, NextLine, NextFile
    <3>2. QED
      BY <1>2, <3>1
  <2>2. CASE RefuseUnnamedLine \/ RefuseUndatedOrder
    <3>1. book' = [book EXCEPT !.invalid = @ + 1] /\ export' = export
      BY <2>2 DEF RefuseUnnamedLine, RefuseUndatedOrder, NextLine
    <3>2. QED
      BY <1>1, <3>1, QuietSteps DEF ReadInv
  <2>3. CASE RefuseUndatedPayment
    <3>1. book' = [book EXCEPT !.paid = @ \cup {Row.id}] /\ export' = export
      BY <2>3 DEF RefuseUndatedPayment, NextLine
    <3>2. QED
      BY <1>1, <3>1, QuietSteps DEF ReadInv
  <2>4. CASE ReadProduct
    BY <1>1, <2>4, ReadProductStep DEF ReadInv
  <2>5. CASE OpenOrder
    BY <1>1, <2>5, OpenStep DEF ReadInv
  <2>6. CASE ContinueOrder
    BY <1>1, <2>6, ContinueStep DEF ReadInv
  <2>7. CASE EndOrders
    BY <1>1, <2>7, EndOrdersStep DEF ReadInv
  <2>8. CASE ReadPayment
    BY <1>1, <2>8, PaymentStep DEF ReadInv
  <2>9. CASE ReadAd
    BY <1>1, <2>9, AdStep DEF ReadInv
  <2>10. CASE EndAds
    BY <1>1, <2>10, EndAdsStep DEF ReadInv
  <2>11. QED
    BY <1>3, <2>1, <2>2, <2>3, <2>4, <2>5, <2>6, <2>7, <2>8, <2>9, <2>10 DEF Read, ReadNext
<1>4. CASE Store \/ Load \/ AnalyseFiles \/ Analyse
  BY <1>2, <1>4 DEF Store, Load, AnalyseFiles, Analyse
<1>5. QED
  BY <1>3, <1>4 DEF Next

\* The book that is read, at any moment: each order, payment, refund and row of the advertising
\* is there once, and every day is one a line of its file says.
THEOREM BookOnce == Spec => []ReadInv
<1>1. Init => ReadInv
  BY EmptyBookKept DEF Init, ReadInit, ReadInv, Place
<1>2. ReadInv /\ [Next]_engineVars => ReadInv'
  <2>1. ReadInv /\ Next => ReadInv'
    BY ReadStep
  <2>2. ReadInv /\ UNCHANGED engineVars => ReadInv'
    BY DEF ReadInv, Place, engineVars
  <2>3. QED
    BY <2>1, <2>2
<1>3. QED
  BY <1>1, <1>2, PTL DEF Spec

\* No date is guessed (ingestion/base.py resolve_date_order, parse_datetime): whatever is kept
\* of any files carries a day that some line of its file says under every convention its
\* column allows.
THEOREM Dated == Spec => []DatesAreNeverGuessed
<1>1. ReadInv => DatesAreNeverGuessed
  <2> SUFFICES ASSUME ReadInv PROVE DatesAreNeverGuessed
    OBVIOUS
  <2>1. /\ OrdersKept(book, export.shopify_orders) /\ PaymentsKept(book, export.stripe)
        /\ AdsKept(book, export.google_ads)
    BY DEF ReadInv, BookKept
  <2>2. \A name : Column(name) = Dates(export[name])
    BY DEF Column, Dates
  <2>3. ASSUME NEW o \in ToSet(book.orders)
        PROVE  \E i \in DOMAIN export.shopify_orders :
                  /\ export.shopify_orders[i].order = o.id
                  /\ Says(Column("shopify_orders")[i], Column("shopify_orders"), o.day)
    <3>1. PICK k \in DOMAIN book.orders : o = book.orders[k]
      BY DEF ToSet
    <3>2. QED
      BY <2>1, <2>2, <3>1 DEF OrdersKept, LineSays
  <2>4. ASSUME NEW p \in ToSet(book.payments)
        PROVE  \E i \in DOMAIN export.stripe :
                  export.stripe[i].id = p.id /\ Says(Column("stripe")[i], Column("stripe"), p.day)
    <3>1. PICK k \in DOMAIN book.payments : p = book.payments[k]
      BY DEF ToSet
    <3>2. QED
      BY <2>1, <2>2, <3>1 DEF PaymentsKept, LineSays
  <2>5. ASSUME NEW a \in ToSet(book.ads)
        PROVE  \E i \in DOMAIN export.google_ads :
                  /\ export.google_ads[i].campaign = a.campaign
                  /\ Says(Column("google_ads")[i], Column("google_ads"), a.day)
    <3>1. PICK k \in DOMAIN book.ads : a = book.ads[k]
      BY DEF ToSet
    <3>2. QED
      BY <2>1, <2>2, <3>1 DEF AdsKept, LineSays
  <2>6. QED
    BY <2>3, <2>4, <2>5 DEF DatesAreNeverGuessed
<1>2. QED
  BY <1>1, BookOnce, PTL

-----------------------------------------------------------------------------
(* The quality report *)

QualityFields == {"issues", "fields", "rows", "currencies"}

QualityKept(q) ==
    /\ IsRecord(q, QualityFields)
    /\ IsFunction(q.fields) /\ IsFunction(q.rows) /\ IsFunction(q.currencies)

\* An empty report.
LEMMA EmptyQualityKept == QualityKept(EmptyQuality)
<1>1. IsRecord(EmptyQuality, QualityFields)
  BY DEF IsRecord, EmptyQuality, QualityFields
<1>2. EmptyQuality.fields = << >> /\ EmptyQuality.rows = << >> /\ EmptyQuality.currencies = << >>
  BY DEF EmptyQuality
<1>3. IsFunction(<< >>)
  BY EmptyList DEF IsFunction
<1>4. QED
  BY <1>1, <1>2, <1>3 DEF QualityKept

\* A function with one value set is a function.
LEMMA WithIsFunction == \A f, key, value : IsFunction(With(f, key, value))
BY DEF IsFunction, With

\* More issues.
LEMMA IssuesKept ==
    ASSUME NEW q, QualityKept(q), NEW more
    PROVE  QualityKept([q EXCEPT !.issues = @ \cup more])
BY DEF QualityKept, IsRecord, QualityFields

\* One issue more.
LEMMA AddIssueKept ==
    ASSUME NEW q, QualityKept(q), NEW from, NEW kind, NEW severity
    PROVE  QualityKept(AddIssue(q, from, kind, severity))
BY IssuesKept DEF AddIssue

\* A field, the rows or the currencies of a source are set.
LEMMA SettersKept ==
    ASSUME NEW q, QualityKept(q), NEW key
    PROVE  /\ \A status : QualityKept(SetStatus(q, key, status))
           /\ \A total, accepted : QualityKept(SetRows(q, key, total, accepted))
           /\ \A currency : QualityKept(ObserveCurrency(q, key, currency))
<1>1. ASSUME NEW value PROVE QualityKept([q EXCEPT !.fields = With(@, key, value)])
  BY WithIsFunction DEF QualityKept, IsRecord, QualityFields
<1>2. ASSUME NEW value PROVE QualityKept([q EXCEPT !.rows = With(@, key, value)])
  BY WithIsFunction DEF QualityKept, IsRecord, QualityFields
<1>3. ASSUME NEW value PROVE QualityKept([q EXCEPT !.currencies = With(@, key, value)])
  BY WithIsFunction DEF QualityKept, IsRecord, QualityFields
<1>4. ASSUME NEW currency PROVE QualityKept(ObserveCurrency(q, key, currency))
  BY <1>3 DEF ObserveCurrency
<1>5. QED
  BY <1>1, <1>2, <1>4 DEF SetStatus, SetRows

\* The issues told on a line of the orders.
LEMMA OrderIssuesKept ==
    ASSUME NEW q, QualityKept(q), NEW b, NEW row
    PROVE  /\ QualityKept(OpeningIssues(q, row))
           /\ QualityKept(ItemIssues(q, b, row))
<1>1. QualityKept(OpeningIssues(q, row))
  BY IssuesKept, SettersKept DEF OpeningIssues
<1>2. QualityKept(ItemIssues(q, b, row))
  BY AddIssueKept DEF ItemIssues
<1>3. QED
  BY <1>1, <1>2

\* What a step does to the quality report.
LEMMA QualityStep == ASSUME QualityKept(quality), Next PROVE QualityKept(quality')
<1>1. CASE UNCHANGED quality
  BY <1>1
<1>2. CASE \E from, kind, severity : quality' = AddIssue(quality, from, kind, severity)
  BY <1>2, AddIssueKept
<1>3. CASE Read
  <2>1. CASE EmptyFile
    BY <1>1, <2>1 DEF EmptyFile, RejectReading
  <2>2. CASE SkipSource
    BY <1>1, <2>2, AddIssueKept, SettersKept DEF SkipSource, RejectReading
  <2>3. CASE SkipUnnamedProduct \/ RefuseUnnamedLine \/ RefuseUndatedOrder \/ SkipUnnamedPayment
             \/ SkipRepeatedPayment \/ RefuseUndatedPayment \/ RefuseUndatedAd
    BY <1>2, <2>3, Zenon DEF SkipUnnamedProduct, RefuseUnnamedLine, RefuseUndatedOrder, SkipUnnamedPayment,
       SkipRepeatedPayment, RefuseUndatedPayment, RefuseUndatedAd
  <2>4. CASE ReadProduct
    BY <1>1, <1>2, <2>4 DEF ReadProduct, RejectReading
  <2>5. CASE EndProducts
    BY <2>5, SettersKept DEF EndProducts
  <2>6. CASE OpenOrder
    <3>1. \/ UNCHANGED quality
          \/ \E b : quality' = ItemIssues(OpeningIssues(quality, Row), b, Row)
      BY <2>6 DEF OpenOrder, RejectReading
    <3>2. QED
      BY <1>1, <3>1, OrderIssuesKept
  <2>7. CASE ContinueOrder
    BY <1>1, <2>7, OrderIssuesKept DEF ContinueOrder, RejectReading
  <2>8. CASE EndOrders
    <3>1. \E total, accepted, more, s, t :
            quality' = SetStatus(SetStatus([SetRows(quality, "shopify_orders", total, accepted)
                                              EXCEPT !.issues = @ \cup more],
                                           "order_revenue", s),
                                 "customer_identity", t)
      <4> DEFINE told == { << "shopify", k, IF k = "date_order_inferred" THEN "info" ELSE "error" >> :
                             k \in DateOrderIssues([ i \in DOMAIN Lines |-> Lines[i].date ]) }
                 more == told \cup SubtotalIssues(book) \cup SemanticIssues(book)
                 counted == SetRows(quality, "shopify_orders", Len(Lines), book.accepted)
      <4>1. quality' = SetStatus(SetStatus([counted EXCEPT !.issues = @ \cup told \cup SubtotalIssues(book)
                                                                          \cup SemanticIssues(book)],
                                           "order_revenue", Coverage(Len(book.orders), Len(book.orders) + book.invalid)),
                                 "customer_identity", Coverage(book.identified, Len(book.orders)))
        BY <2>8 DEF EndOrders
      <4>2. [counted EXCEPT !.issues = @ \cup told \cup SubtotalIssues(book) \cup SemanticIssues(book)]
              = [counted EXCEPT !.issues = @ \cup more]
        <5> HIDE DEF told, counted
        <5>1. QED
          OBVIOUS
      <4> HIDE DEF more, told
      <4>3. QED
        BY <4>1, <4>2
    <3>2. PICK total, accepted, more, s, t :
            quality' = SetStatus(SetStatus([SetRows(quality, "shopify_orders", total, accepted)
                                              EXCEPT !.issues = @ \cup more],
                                           "order_revenue", s),
                                 "customer_identity", t)
      BY <3>1
    <3> DEFINE counted == SetRows(quality, "shopify_orders", total, accepted)
               checked == [counted EXCEPT !.issues = @ \cup more]
               valued == SetStatus(checked, "order_revenue", s)
    <3>3. QualityKept(counted)
      BY <1>1, SettersKept
    <3> HIDE DEF counted
    <3>4. QualityKept(checked)
      BY <3>3, IssuesKept
    <3> HIDE DEF checked
    <3>5. QualityKept(valued)
      BY <3>4, SettersKept
    <3> HIDE DEF valued
    <3>6. QualityKept(SetStatus(valued, "customer_identity", t))
      BY <3>5, SettersKept
    <3>7. QED
      BY <3>2, <3>6 DEF counted, checked, valued
  <2>9. CASE EndPayments
    <3>1. \E total, accepted, more, s :
            quality' = SetStatus([SetRows(quality, "stripe", total, accepted) EXCEPT !.issues = @ \cup more],
                                 "payment_fees", s)
      BY <2>9, Zenon DEF EndPayments
    <3>2. QED
      BY <3>1, SettersKept, IssuesKept
  <2>10. CASE EndAds
    <3>1. \E total, accepted, more, s :
            quality' = SetStatus([SetRows(quality, "google_ads", total, accepted) EXCEPT !.issues = @ \cup more],
                                 "ad_spend", s)
      BY <2>10, Zenon DEF EndAds
    <3>2. QED
      BY <3>1, SettersKept, IssuesKept
  <2>11. CASE ReadPayment
    <3>1. PICK day \in ReadDate(Row.date, DateOrder) :
            IF Broken \in {Row.amount, Row.fee, Row.net, Row.refunded} THEN RejectReading
            ELSE LET fee == IF Row.fee # None /\ Row.fee < 0 THEN None ELSE Row.fee
                     refunded == OrZero(Row.refunded)
                     told == { << "stripe", "negative_fee", "error" >> : x \in {Row.fee} \ {fee} }
                             \cup { << "stripe", "negative_refund", "error" >> : x \in { a \in {refunded} : a < 0 } }
                 IN  quality' = ObserveCurrency([quality EXCEPT !.issues = @ \cup told], "stripe", Row.currency)
      BY <2>11, Zenon DEF ReadPayment
    <3> DEFINE fee == IF Row.fee # None /\ Row.fee < 0 THEN None ELSE Row.fee
               refunded == OrZero(Row.refunded)
               told == { << "stripe", "negative_fee", "error" >> : x \in {Row.fee} \ {fee} }
                       \cup { << "stripe", "negative_refund", "error" >> : x \in { a \in {refunded} : a < 0 } }
    <3>2. RejectReading \/ quality' = ObserveCurrency([quality EXCEPT !.issues = @ \cup told], "stripe", Row.currency)
      BY <3>1, Zenon
    <3> HIDE DEF told
    <3>3. CASE RejectReading
      BY <1>1, <3>3 DEF RejectReading
    <3>4. CASE quality' = ObserveCurrency([quality EXCEPT !.issues = @ \cup told], "stripe", Row.currency)
      BY <3>4, SettersKept, IssuesKept
    <3>5. QED
      BY <3>2, <3>3, <3>4
  <2>12. CASE ReadAd
    <3>1. UNCHANGED quality \/ \E kind, severity : quality' = AddIssue(quality, "google_ads", kind, severity)
      BY <2>12 DEF ReadAd, RejectReading
    <3>2. QED
      BY <1>1, <1>2, <3>1
  <2>13. CASE CloseReading
    BY <2>13, AddIssueKept, SettersKept DEF CloseReading
  <2>14. QED
    BY <1>3, <2>1, <2>2, <2>3, <2>4, <2>5, <2>6, <2>7, <2>8, <2>9, <2>10, <2>11, <2>12, <2>13 DEF Read, ReadNext
<1>4. CASE Store \/ Load \/ AnalyseFiles \/ Analyse
  BY <1>1, <1>4 DEF Store, Load, AnalyseFiles, Analyse
<1>5. QED
  BY <1>3, <1>4 DEF Next

-----------------------------------------------------------------------------
(* Tables *)

\* Pairs give back the function they were made of.
LEMMA PairsBack ==
    ASSUME NEW f, IsFunction(f)
    PROVE  FromPairs({<< k, f[k] >> : k \in DOMAIN f}) = f
<1> DEFINE pairs == {<< k, f[k] >> : k \in DOMAIN f}
<1>1. {p[1] : p \in pairs} = DOMAIN f
  <2>1. \A p \in pairs : p[1] \in DOMAIN f
    OBVIOUS
  <2>2. ASSUME NEW k \in DOMAIN f PROVE \E p \in pairs : p[1] = k
    <3>1. << k, f[k] >> \in pairs /\ << k, f[k] >>[1] = k
      OBVIOUS
    <3> HIDE DEF pairs
    <3>2. QED
      BY <3>1
  <2> HIDE DEF pairs
  <2>3. QED
    BY <2>1, <2>2
<1>2. ASSUME NEW k \in DOMAIN f PROVE (CHOOSE p \in pairs : p[1] = k)[2] = f[k]
  <2>1. << k, f[k] >> \in pairs /\ << k, f[k] >>[1] = k
    OBVIOUS
  <2>2. \A p \in pairs : p[1] = k => p[2] = f[k]
    OBVIOUS
  <2> HIDE DEF pairs
  <2>3. QED
    BY <2>1, <2>2
<1>3. FromPairs(pairs) = [k \in {p[1] : p \in pairs} |-> (CHOOSE p \in pairs : p[1] = k)[2]]
  BY DEF FromPairs
<1> HIDE DEF pairs
<1>4. FromPairs(pairs) = [k \in DOMAIN f |-> f[k]]
  BY <1>1, <1>2, <1>3
<1>5. QED
  BY <1>4 DEF IsFunction, pairs

\* A report comes back from its document.
LEMMA QualityBack ==
    ASSUME NEW q, QualityKept(q)
    PROVE  QualityFromDocument(QualityDocument(q)) = q
<1> DEFINE doc == QualityDocument(q)
<1>1. /\ FromPairs(doc.fields) = q.fields /\ FromPairs(doc.row_counts) = q.rows
      /\ FromPairs(doc.observed_currencies) = q.currencies /\ doc.issues = q.issues
  BY PairsBack DEF QualityDocument, QualityKept
<1> HIDE DEF doc
<1>2. QualityFromDocument(doc)
        = [issues |-> q.issues, fields |-> q.fields, rows |-> q.rows, currencies |-> q.currencies]
  BY <1>1 DEF QualityFromDocument
<1>3. q = [issues |-> q.issues, fields |-> q.fields, rows |-> q.rows, currencies |-> q.currencies]
  BY DEF QualityKept, IsRecord, QualityFields
<1>4. QED
  BY <1>2, <1>3 DEF doc

Numbered(n, f) == {f[k] : k \in 1 .. n}

\* Rows that carry their rank come back in order.
LEMMA InOrderBack ==
    ASSUME NEW n \in Nat, NEW f, \A k \in 1 .. n : f[k].position = k - 1
    PROVE  /\ IsFiniteSet(Numbered(n, f)) /\ Cardinality(Numbered(n, f)) = n
           /\ InOrder(Numbered(n, f)) = [k \in 1 .. n |-> f[k].row]
<1> DEFINE N == 1 .. n
           rows == {f[k] : k \in N}
           g == [k \in N |-> f[k]]
<1>1. IsFiniteSet(N) /\ Cardinality(N) = n
  <2>1. IsFiniteSet(N) /\ Cardinality(N) = IF 1 > n THEN 0 ELSE n - 1 + 1
    BY FS_Interval
  <2>2. (IF 1 > n THEN 0 ELSE n - 1 + 1) = n
    OBVIOUS
  <2>3. QED
    BY <2>1, <2>2
<1>2. \A k, l \in N : f[k].position = f[l].position => k = l
  OBVIOUS
<1>3. g \in Bijection(N, rows)
  <2>1. g \in [N -> rows]
    OBVIOUS
  <2>2. \A k, l \in N : g[k] = g[l] => k = l
    BY <1>2
  <2>3. \A r \in rows : \E k \in N : g[k] = r
    OBVIOUS
  <2> HIDE DEF g, N, rows
  <2>4. QED
    BY <2>1, <2>2, <2>3 DEF Bijection, Injection, Surjection, IsInjective
<1>4. IsFiniteSet(rows) /\ Cardinality(rows) = n
  <2> HIDE DEF g, N, rows
  <2>1. QED
    BY <1>1, <1>3, FS_Bijection DEF ExistsBijection
<1>5. ASSUME NEW k \in N PROVE (CHOOSE r \in rows : r.position = k - 1).row = f[k].row
  <2>1. f[k] \in rows /\ f[k].position = k - 1
    OBVIOUS
  <2>2. \A r \in rows : r.position = k - 1 => r = f[k]
    <3> SUFFICES ASSUME NEW r \in rows, r.position = k - 1 PROVE r = f[k]
      OBVIOUS
    <3>1. PICK l \in N : r = f[l]
      OBVIOUS
    <3>2. QED
      BY <1>2, <3>1
  <2>3. (CHOOSE r \in rows : r.position = k - 1) = f[k]
    BY <2>1, <2>2
  <2>4. QED
    BY <2>3
<1>6. InOrder(rows) = [k \in N |-> (CHOOSE r \in rows : r.position = k - 1).row]
  BY <1>4 DEF InOrder
<1> HIDE DEF N, rows
<1>7. InOrder(rows) = [k \in N |-> f[k].row]
  BY <1>5, <1>6
<1>8. QED
  BY <1>4, <1>7 DEF Numbered, N, rows

\* A list comes back from its rows, which are numbered.
LEMMA RankedBack ==
    ASSUME NEW s, IsList(s)
    PROVE  /\ IsFiniteSet(Ranked(s)) /\ InOrder(Ranked(s)) = s
           /\ \A r \in Ranked(s) : \E k \in DOMAIN s : r = [position |-> k - 1, row |-> s[k]]
<1> DEFINE n == Len(s)
           f == [k \in 1 .. n |-> [position |-> k - 1, row |-> s[k]]]
<1>1. n \in Nat /\ DOMAIN s = 1 .. n /\ s = [k \in 1 .. n |-> s[k]]
  BY ListFacts
<1> HIDE DEF n
<1>2. Ranked(s) = Numbered(n, f)
  <2>1. Ranked(s) = {[position |-> k - 1, row |-> s[k]] : k \in 1 .. n}
    BY <1>1, Zenon DEF Ranked
  <2>2. QED
    BY <2>1 DEF Numbered
<1>3. \A k \in 1 .. n : f[k].position = k - 1 /\ f[k].row = s[k]
  OBVIOUS
<1> HIDE DEF f
<1>4. IsFiniteSet(Ranked(s)) /\ InOrder(Ranked(s)) = [k \in 1 .. n |-> f[k].row]
  BY <1>1, <1>2, <1>3, InOrderBack
<1>5. InOrder(Ranked(s)) = s
  BY <1>1, <1>3, <1>4
<1>6. QED
  BY <1>1, <1>4, <1>5 DEF Ranked

Shaped(orders) ==
    IsList(orders) /\ \A k \in DOMAIN orders : IsRecord(orders[k], OrderFields) /\ IsList(orders[k].items)

Heads(orders) == [i \in DOMAIN orders |-> [orders[i] EXCEPT !.items = << >>]]

\* The row of each order.
LEMMA HeadsFacts ==
    ASSUME NEW orders, Shaped(orders)
    PROVE  /\ IsList(Heads(orders)) /\ DOMAIN Heads(orders) = DOMAIN orders
           /\ \A i \in DOMAIN orders :
                /\ Heads(orders)[i].id = orders[i].id
                /\ [Heads(orders)[i] EXCEPT !.items = orders[i].items] = orders[i]
<1> DEFINE n == Len(orders)
           heads == Heads(orders)
<1>1. n \in Nat /\ DOMAIN orders = 1 .. n
  BY ListFacts DEF Shaped
<1> HIDE DEF n
<1>2. DOMAIN heads = 1 .. n /\ heads = [i \in 1 .. n |-> heads[i]]
  BY <1>1 DEF Heads
<1> HIDE DEF heads
<1>3. IsList(heads)
  BY <1>1, <1>2, FunctionIsList
<1>4. ASSUME NEW i \in DOMAIN orders
      PROVE  /\ heads[i].id = orders[i].id
             /\ [heads[i] EXCEPT !.items = orders[i].items] = orders[i]
  <2> DEFINE o == orders[i]
  <2>1. heads[i] = [o EXCEPT !.items = << >>]
    BY DEF Heads, heads
  <2>2. DOMAIN o = OrderFields /\ o = [f \in OrderFields |-> o[f]]
    BY DEF Shaped, IsRecord
  <2> HIDE DEF o
  <2>3. heads[i].id = o.id
    BY <2>1, <2>2 DEF OrderFields
  <2>4. [heads[i] EXCEPT !.items = o.items] = o
    <3>1. [heads[i] EXCEPT !.items = o.items] = [f \in OrderFields |-> IF f = "items" THEN o.items ELSE heads[i][f]]
      BY <2>1, <2>2
    <3>2. \A f \in OrderFields : (IF f = "items" THEN o.items ELSE heads[i][f]) = o[f]
      BY <2>1, <2>2
    <3>3. QED
      BY <2>2, <3>1, <3>2
  <2>5. QED
    BY <2>3, <2>4 DEF o
<1>5. QED
  BY <1>1, <1>2, <1>3, <1>4 DEF heads

\* The lines of one order come back in order.
LEMMA LinesBack ==
    ASSUME NEW orders, Shaped(orders), NEW i \in DOMAIN orders
    PROVE  InOrder({l \in OrderLines(orders) : l.order_position = i - 1}) = orders[i].items
<1> DEFINE items == orders[i].items
           m == Len(items)
           f == [k \in 1 .. m |-> [order_position |-> i - 1, position |-> k - 1, row |-> items[k]]]
           of == {l \in OrderLines(orders) : l.order_position = i - 1}
<1>1. IsList(items) /\ DOMAIN orders = 1 .. Len(orders) /\ Len(orders) \in Nat
  BY ListFacts DEF Shaped
<1>2. m \in Nat /\ DOMAIN items = 1 .. m /\ items = [k \in 1 .. m |-> items[k]]
  BY <1>1, ListFacts
<1>3. of = {f[k] : k \in 1 .. m}
  <2>1. ASSUME NEW l \in of PROVE l \in {f[k] : k \in 1 .. m}
    <3>1. PICK j \in DOMAIN orders : l \in { [order_position |-> j - 1, position |-> k - 1, row |-> orders[j].items[k]] :
                                               k \in DOMAIN orders[j].items }
      BY DEF OrderLines
    <3>2. PICK k \in DOMAIN orders[j].items :
            l = [order_position |-> j - 1, position |-> k - 1, row |-> orders[j].items[k]]
      BY <3>1
    <3>3. j = i
      <4>1. j - 1 = i - 1 /\ i \in Int /\ j \in Int
        BY <1>1, <3>2
      <4>2. QED
        BY <4>1
    <3>4. k \in 1 .. m /\ l = f[k]
      BY <1>2, <3>2, <3>3
    <3>5. QED
      BY <3>4
  <2>2. ASSUME NEW k \in 1 .. m PROVE f[k] \in of
    <3>1. f[k] = [order_position |-> i - 1, position |-> k - 1, row |-> orders[i].items[k]] /\ k \in DOMAIN orders[i].items
      BY <1>2
    <3> HIDE DEF f
    <3>2. f[k] \in OrderLines(orders)
      BY <3>1 DEF OrderLines
    <3>3. QED
      BY <3>1, <3>2
  <2> HIDE DEF f, of
  <2>3. QED
    BY <2>1, <2>2
<1>4. \A k \in 1 .. m : f[k].position = k - 1 /\ f[k].row = items[k]
  OBVIOUS
<1> HIDE DEF f, of, m, items
<1>5. InOrder(of) = [k \in 1 .. m |-> f[k].row]
  BY <1>2, <1>3, <1>4, InOrderBack DEF Numbered
<1>6. InOrder(of) = items
  BY <1>2, <1>4, <1>5
<1>7. QED
  BY <1>6 DEF of, items

\* The orders come back from their rows and those of their articles.
LEMMA OrdersBack ==
    ASSUME NEW orders, Shaped(orders), NEW t,
           t.orders = Ranked(Heads(orders)), t.order_lines = OrderLines(orders)
    PROVE  OrdersOf(t) = orders
<1> DEFINE heads == Heads(orders)
           of(i) == {l \in t.order_lines : l.order_position = i - 1}
<1>1. InOrder(t.orders) = heads /\ DOMAIN heads = DOMAIN orders
  BY HeadsFacts, RankedBack
<1>2. OrdersOf(t) = [i \in DOMAIN heads |-> [heads[i] EXCEPT !.items = InOrder(of(i))]]
  BY <1>1, Zenon DEF OrdersOf
<1>3. \A i \in DOMAIN orders : InOrder(of(i)) = orders[i].items
  BY LinesBack
<1>4. \A i \in DOMAIN orders : [heads[i] EXCEPT !.items = orders[i].items] = orders[i]
  BY HeadsFacts
<1> HIDE DEF heads, of
<1>5. OrdersOf(t) = [i \in DOMAIN orders |-> orders[i]]
  BY <1>1, <1>2, <1>3, <1>4
<1>6. orders = [i \in DOMAIN orders |-> orders[i]]
  BY ListFacts DEF Shaped
<1>7. QED
  BY <1>5, <1>6

\* A dataset comes back from its tables.
LEMMA DatasetBack ==
    ASSUME NEW b, NEW e, BookKept(b, e), NEW q
    PROVE  /\ ReadTables(Tables(DatasetOf(b), q)) = DatasetOf(b)
           /\ Tables(DatasetOf(b), q).counts = RecordCounts(DatasetOf(b))
           /\ Tables(DatasetOf(b), q).quality = QualityDocument(q)
<1> DEFINE ds == DatasetOf(b)
           t == Tables(ds, q)
<1>1. /\ Shaped(b.orders) /\ IsList(b.refunds) /\ IsList(b.payments) /\ IsList(b.ads) /\ IsFunction(b.products)
  BY DEF BookKept, OrdersKept, RefundsKept, PaymentsKept, AdsKept, Shaped
<1>2. /\ ds.products = b.products /\ ds.orders = b.orders /\ ds.refunds = b.refunds /\ ds.payments = b.payments
      /\ ds.campaigns = b.campaigns /\ ds.ads = b.ads /\ ds.currency = b.currency
  BY DEF DatasetOf
<1>3. ds = [ products |-> b.products, orders |-> b.orders, refunds |-> b.refunds, payments |-> b.payments,
             campaigns |-> b.campaigns, ads |-> b.ads, currency |-> b.currency,
             customer_first_order |-> CustomerIndex(b.orders) ]
  BY DEF DatasetOf
<1> HIDE DEF ds
<1>4. /\ t.products = {<< sku, ds.products[sku] >> : sku \in DOMAIN ds.products}
      /\ t.orders = Ranked([ i \in DOMAIN ds.orders |-> [ds.orders[i] EXCEPT !.items = << >>] ])
      /\ t.order_lines = OrderLines(ds.orders)
      /\ t.payments = Ranked(ds.payments) /\ t.refunds = Ranked(ds.refunds)
      /\ t.campaigns = ds.campaigns /\ t.ads = Ranked(ds.ads)
      /\ t.currency = ds.currency /\ t.quality = QualityDocument(q)
      /\ t.counts = RecordCounts(ds)
  BY DEF Tables
<1> HIDE DEF t
<1>5. /\ t.products = {<< sku, b.products[sku] >> : sku \in DOMAIN b.products}
      /\ t.orders = Ranked(Heads(b.orders)) /\ t.order_lines = OrderLines(b.orders)
      /\ t.payments = Ranked(b.payments) /\ t.refunds = Ranked(b.refunds)
      /\ t.campaigns = b.campaigns /\ t.ads = Ranked(b.ads) /\ t.currency = b.currency
  BY <1>2, <1>4, Zenon DEF Heads
<1>6. FromPairs(t.products) = b.products
  BY <1>1, <1>5, PairsBack
<1>7. OrdersOf(t) = b.orders
  BY <1>1, <1>5, OrdersBack
<1>8. InOrder(t.refunds) = b.refunds /\ InOrder(t.payments) = b.payments /\ InOrder(t.ads) = b.ads
  BY <1>1, <1>5, RankedBack
<1>9. ReadTables(t) = ds
  BY <1>3, <1>5, <1>6, <1>7, <1>8, Zenon DEF ReadTables
<1>10. QED
  BY <1>4, <1>9 DEF t, ds

\* Rows that no two of which share a key hold it once.
LEMMA OnceByKey ==
    ASSUME NEW rows, IsFiniteSet(rows), NEW key, \A r, s \in rows : key[r] = key[s] => r = s
    PROVE  OncePerKey({key[r] : r \in rows}, rows)
<1> DEFINE keys == {key[r] : r \in rows}
           g == [r \in rows |-> key[r]]
<1>1. g \in Bijection(rows, keys)
  <2>1. g \in [rows -> keys] /\ \A r \in rows : g[r] = key[r]
    OBVIOUS
  <2>2. \A k \in keys : \E r \in rows : g[r] = k
    OBVIOUS
  <2> HIDE DEF g, keys
  <2>3. QED
    BY <2>1, <2>2 DEF Bijection, Injection, Surjection, IsInjective
<1> HIDE DEF g, keys
<1>2. Cardinality(keys) = Cardinality(rows)
  BY <1>1, FS_Bijection DEF ExistsBijection
<1>3. QED
  BY <1>2 DEF OncePerKey, keys

\* The rows of a list have their ranks for keys, and what tells its elements apart.
LEMMA RankedKeys ==
    ASSUME NEW s, IsList(s)
    PROVE  /\ OncePerKey({r.position : r \in Ranked(s)}, Ranked(s))
           /\ (\A k, l \in DOMAIN s : k # l => s[k].id # s[l].id)
                => OncePerKey({r.row.id : r \in Ranked(s)}, Ranked(s))
           /\ (\A k, l \in DOMAIN s : k # l => s[k].source # s[l].source \/ s[k].id # s[l].id)
                => OncePerKey({<< r.row.source, r.row.id >> : r \in Ranked(s)}, Ranked(s))
           /\ (\A k, l \in DOMAIN s : k # l => ~(s[k].campaign = s[l].campaign /\ s[k].day = s[l].day))
                => OncePerKey({<< r.row.campaign, r.row.day >> : r \in Ranked(s)}, Ranked(s))
<1> DEFINE rows == Ranked(s)
<1>1. IsFiniteSet(rows) /\ \A r \in rows : \E k \in DOMAIN s : r = [position |-> k - 1, row |-> s[k]]
  BY RankedBack
<1>2. \A k \in DOMAIN s : k \in Int
  BY ListFacts
<1> HIDE DEF rows
<1>3. OncePerKey({r.position : r \in rows}, rows)
  <2> DEFINE key == [r \in rows |-> r.position]
  <2>1. \A r, t \in rows : key[r] = key[t] => r = t
    <3> SUFFICES ASSUME NEW r \in rows, NEW t \in rows, r.position = t.position PROVE r = t
      OBVIOUS
    <3>1. PICK k \in DOMAIN s : r = [position |-> k - 1, row |-> s[k]]
      BY <1>1
    <3>2. PICK l \in DOMAIN s : t = [position |-> l - 1, row |-> s[l]]
      BY <1>1
    <3>3. k = l
      <4>1. k - 1 = l - 1 /\ k \in Int /\ l \in Int
        BY <1>2, <3>1, <3>2
      <4>2. QED
        BY <4>1
    <3>4. QED
      BY <3>1, <3>2, <3>3
  <2>2. {key[r] : r \in rows} = {r.position : r \in rows}
    OBVIOUS
  <2> HIDE DEF key
  <2>3. OncePerKey({key[r] : r \in rows}, rows)
    BY <1>1, <2>1, OnceByKey
  <2>4. QED
    BY <2>2, <2>3
<1>4. ASSUME \A k, l \in DOMAIN s : k # l => s[k].id # s[l].id
      PROVE  OncePerKey({r.row.id : r \in rows}, rows)
  <2> DEFINE key == [r \in rows |-> r.row.id]
  <2>1. \A r, t \in rows : key[r] = key[t] => r = t
    <3> SUFFICES ASSUME NEW r \in rows, NEW t \in rows, r.row.id = t.row.id PROVE r = t
      OBVIOUS
    <3>1. PICK k \in DOMAIN s : r = [position |-> k - 1, row |-> s[k]]
      BY <1>1
    <3>2. PICK l \in DOMAIN s : t = [position |-> l - 1, row |-> s[l]]
      BY <1>1
    <3>3. s[k].id = s[l].id
      BY <3>1, <3>2
    <3>4. QED
      BY <1>4, <3>1, <3>2, <3>3
  <2>2. {key[r] : r \in rows} = {r.row.id : r \in rows}
    OBVIOUS
  <2> HIDE DEF key
  <2>3. OncePerKey({key[r] : r \in rows}, rows)
    BY <1>1, <2>1, OnceByKey
  <2>4. QED
    BY <2>2, <2>3
<1>5. ASSUME \A k, l \in DOMAIN s : k # l => s[k].source # s[l].source \/ s[k].id # s[l].id
      PROVE  OncePerKey({<< r.row.source, r.row.id >> : r \in rows}, rows)
  <2> DEFINE key == [r \in rows |-> << r.row.source, r.row.id >>]
  <2>1. \A r, t \in rows : key[r] = key[t] => r = t
    <3> SUFFICES ASSUME NEW r \in rows, NEW t \in rows,
                        << r.row.source, r.row.id >> = << t.row.source, t.row.id >>
                 PROVE  r = t
      OBVIOUS
    <3>1. PICK k \in DOMAIN s : r = [position |-> k - 1, row |-> s[k]]
      BY <1>1
    <3>2. PICK l \in DOMAIN s : t = [position |-> l - 1, row |-> s[l]]
      BY <1>1
    <3>3. s[k].source = s[l].source /\ s[k].id = s[l].id
      BY <3>1, <3>2
    <3>4. QED
      BY <1>5, <3>1, <3>2, <3>3
  <2>2. {key[r] : r \in rows} = {<< r.row.source, r.row.id >> : r \in rows}
    OBVIOUS
  <2> HIDE DEF key
  <2>3. OncePerKey({key[r] : r \in rows}, rows)
    BY <1>1, <2>1, OnceByKey
  <2>4. QED
    BY <2>2, <2>3
<1>6. ASSUME \A k, l \in DOMAIN s : k # l => ~(s[k].campaign = s[l].campaign /\ s[k].day = s[l].day)
      PROVE  OncePerKey({<< r.row.campaign, r.row.day >> : r \in rows}, rows)
  <2> DEFINE key == [r \in rows |-> << r.row.campaign, r.row.day >>]
  <2>1. \A r, t \in rows : key[r] = key[t] => r = t
    <3> SUFFICES ASSUME NEW r \in rows, NEW t \in rows,
                        << r.row.campaign, r.row.day >> = << t.row.campaign, t.row.day >>
                 PROVE  r = t
      OBVIOUS
    <3>1. PICK k \in DOMAIN s : r = [position |-> k - 1, row |-> s[k]]
      BY <1>1
    <3>2. PICK l \in DOMAIN s : t = [position |-> l - 1, row |-> s[l]]
      BY <1>1
    <3>3. s[k].campaign = s[l].campaign /\ s[k].day = s[l].day
      BY <3>1, <3>2
    <3>4. QED
      BY <1>6, <3>1, <3>2, <3>3
  <2>2. {key[r] : r \in rows} = {<< r.row.campaign, r.row.day >> : r \in rows}
    OBVIOUS
  <2> HIDE DEF key
  <2>3. OncePerKey({key[r] : r \in rows}, rows)
    BY <1>1, <2>1, OnceByKey
  <2>4. QED
    BY <2>2, <2>3
<1>7. QED
  BY <1>3, <1>4, <1>5, <1>6 DEF rows

\* The places of the articles.
LEMMA LineShape ==
    ASSUME NEW orders, NEW r \in OrderLines(orders)
    PROVE  \E i \in DOMAIN orders : \E k \in DOMAIN orders[i].items :
              r = [order_position |-> i - 1, position |-> k - 1, row |-> orders[i].items[k]]
<1>1. PICK i \in DOMAIN orders : r \in { [order_position |-> i - 1, position |-> k - 1, row |-> orders[i].items[k]] :
                                           k \in DOMAIN orders[i].items }
  BY DEF OrderLines
<1>2. QED
  BY <1>1

\* The lines of the orders are finitely many.
LEMMA LinesAreFinite == ASSUME NEW orders, Shaped(orders) PROVE IsFiniteSet(OrderLines(orders))
<1> DEFINE of(i) == { [order_position |-> i - 1, position |-> k - 1, row |-> orders[i].items[k]] :
                        k \in DOMAIN orders[i].items }
           all == { of(i) : i \in DOMAIN orders }
<1>1. ASSUME NEW i \in DOMAIN orders PROVE IsFiniteSet(DOMAIN orders[i].items)
  <2> DEFINE items == orders[i].items
             m == Len(items)
  <2>1. IsList(items)
    BY DEF Shaped
  <2>2. m \in Nat /\ DOMAIN items = 1 .. m
    BY <2>1, ListFacts
  <2> HIDE DEF m, items
  <2>3. IsFiniteSet(1 .. m)
    BY <2>2, FS_Interval
  <2>4. QED
    BY <2>2, <2>3 DEF items
<1>2. ASSUME NEW i \in DOMAIN orders PROVE IsFiniteSet(of(i))
  <2> DEFINE D == DOMAIN orders[i].items
             g == [k \in D |-> [order_position |-> i - 1, position |-> k - 1, row |-> orders[i].items[k]]]
  <2>1. g \in Surjection(D, of(i))
    <3>1. g \in [D -> of(i)] /\ \A r \in of(i) : \E k \in D : g[k] = r
      OBVIOUS
    <3> HIDE DEF g, of, D
    <3>2. QED
      BY <3>1 DEF Surjection
  <2> HIDE DEF g, of
  <2>2. QED
    BY <1>1, <2>1, FS_Surjection
<1>3. IsFiniteSet(all)
  <2> DEFINE D == DOMAIN orders
             g == [i \in D |-> of(i)]
  <2>1. IsFiniteSet(D)
    BY ListFacts, FS_Interval DEF Shaped
  <2>2. g \in [D -> all] /\ \A s \in all : \E i \in D : g[i] = s
    <3> HIDE DEF of
    <3>1. QED
      OBVIOUS
  <2> HIDE DEF g, all, D
  <2>3. g \in Surjection(D, all)
    BY <2>2 DEF Surjection
  <2>4. QED
    BY <2>1, <2>3, FS_Surjection
<1>4. OrderLines(orders) = UNION all
  BY DEF OrderLines
<1>5. \A s \in all : IsFiniteSet(s)
  <2> HIDE DEF of
  <2>1. QED
    BY <1>2
<1> HIDE DEF all
<1>6. QED
  BY <1>3, <1>4, <1>5, FS_UNION

\* A line has its order's rank and its own for key, and refers to an order that is there.
LEMMA LineKeys ==
    ASSUME NEW orders, Shaped(orders), NEW heads, IsList(heads), DOMAIN heads = DOMAIN orders,
           NEW t, t.order_lines = OrderLines(orders), t.orders = Ranked(heads)
    PROVE  /\ OncePerKey({<< r.order_position, r.position >> : r \in t.order_lines}, t.order_lines)
           /\ {r.order_position : r \in t.order_lines} \subseteq {r.position : r \in t.orders}
<1> DEFINE lines == t.order_lines
           rows == t.orders
<1>0. lines = OrderLines(orders) /\ rows = Ranked(heads)
  OBVIOUS
<1> HIDE DEF lines, rows
<1>1. IsFiniteSet(lines)
  BY <1>0, LinesAreFinite
<1>2. /\ \A i \in DOMAIN orders : i \in Int
      /\ \A i \in DOMAIN orders : \A k \in DOMAIN orders[i].items : k \in Int
  BY ListFacts DEF Shaped
<1>3. OncePerKey({<< r.order_position, r.position >> : r \in lines}, lines)
  <2> DEFINE key == [r \in lines |-> << r.order_position, r.position >>]
  <2>1. \A r, s \in lines : key[r] = key[s] => r = s
    <3> SUFFICES ASSUME NEW r \in lines, NEW s \in lines,
                        << r.order_position, r.position >> = << s.order_position, s.position >>
                 PROVE  r = s
      OBVIOUS
    <3>1. PICK i \in DOMAIN orders : \E k \in DOMAIN orders[i].items :
            r = [order_position |-> i - 1, position |-> k - 1, row |-> orders[i].items[k]]
      BY <1>0, LineShape
    <3>2. PICK k \in DOMAIN orders[i].items :
            r = [order_position |-> i - 1, position |-> k - 1, row |-> orders[i].items[k]]
      BY <3>1
    <3>3. PICK j \in DOMAIN orders : \E l \in DOMAIN orders[j].items :
            s = [order_position |-> j - 1, position |-> l - 1, row |-> orders[j].items[l]]
      BY <1>0, LineShape
    <3>4. PICK l \in DOMAIN orders[j].items :
            s = [order_position |-> j - 1, position |-> l - 1, row |-> orders[j].items[l]]
      BY <3>3
    <3>5. i = j
      <4>1. i - 1 = j - 1 /\ i \in Int /\ j \in Int
        BY <1>2, <3>2, <3>4
      <4>2. QED
        BY <4>1
    <3>6. k = l
      <4>1. k - 1 = l - 1 /\ k \in Int /\ l \in Int
        BY <1>2, <3>2, <3>4
      <4>2. QED
        BY <4>1
    <3>7. QED
      BY <3>2, <3>4, <3>5, <3>6
  <2>2. {key[r] : r \in lines} = {<< r.order_position, r.position >> : r \in lines}
    OBVIOUS
  <2> HIDE DEF key
  <2>3. OncePerKey({key[r] : r \in lines}, lines)
    BY <1>1, <2>1, OnceByKey
  <2>4. QED
    BY <2>2, <2>3
<1>4. ASSUME NEW r \in lines PROVE r.order_position \in {x.position : x \in rows}
  <2>1. PICK i \in DOMAIN orders : r.order_position = i - 1
    BY <1>0, LineShape
  <2>2. [position |-> i - 1, row |-> heads[i]] \in rows
    BY <1>0 DEF Ranked
  <2>3. QED
    BY <2>1, <2>2
<1>5. QED
  BY <1>3, <1>4 DEF lines, rows

\* The tables of what was read hold every key once.
LEMMA KeysAreOnce ==
    ASSUME NEW b, NEW e, BookKept(b, e), NEW q
    PROVE  KeysHold(Tables(DatasetOf(b), q))
<1> DEFINE ds == DatasetOf(b)
           t == Tables(ds, q)
           heads == Heads(b.orders)
<1>1. /\ Shaped(b.orders) /\ IsList(b.refunds) /\ IsList(b.payments) /\ IsList(b.ads)
      /\ IsFunction(b.products) /\ IsFiniteSet(DOMAIN b.products)
      /\ \A k, l \in DOMAIN b.orders : k # l => b.orders[k].id # b.orders[l].id
      /\ \A k, l \in DOMAIN b.payments : k # l => b.payments[k].id # b.payments[l].id
      /\ \A k, l \in DOMAIN b.refunds :
            k # l => b.refunds[k].source # b.refunds[l].source \/ b.refunds[k].id # b.refunds[l].id
      /\ \A k, l \in DOMAIN b.ads :
            k # l => ~(b.ads[k].campaign = b.ads[l].campaign /\ b.ads[k].day = b.ads[l].day)
  BY DEF BookKept, OrdersKept, RefundsKept, PaymentsKept, AdsKept, Shaped
<1>2. /\ t.products = {<< sku, b.products[sku] >> : sku \in DOMAIN b.products}
      /\ t.orders = Ranked(heads) /\ t.order_lines = OrderLines(b.orders)
      /\ t.payments = Ranked(b.payments) /\ t.refunds = Ranked(b.refunds) /\ t.ads = Ranked(b.ads)
  <2>1. /\ ds.products = b.products /\ ds.orders = b.orders /\ ds.refunds = b.refunds
        /\ ds.payments = b.payments /\ ds.ads = b.ads
    BY DEF DatasetOf
  <2> HIDE DEF ds
  <2>2. /\ t.products = {<< sku, ds.products[sku] >> : sku \in DOMAIN ds.products}
        /\ t.orders = Ranked([ i \in DOMAIN ds.orders |-> [ds.orders[i] EXCEPT !.items = << >>] ])
        /\ t.order_lines = OrderLines(ds.orders)
        /\ t.payments = Ranked(ds.payments) /\ t.refunds = Ranked(ds.refunds) /\ t.ads = Ranked(ds.ads)
    BY DEF Tables
  <2> HIDE DEF t
  <2>3. QED
    BY <2>1, <2>2, Zenon DEF Heads
<1> HIDE DEF t, ds
<1>3. IsList(heads) /\ DOMAIN heads = DOMAIN b.orders /\ \A i \in DOMAIN b.orders : heads[i].id = b.orders[i].id
  BY <1>1, HeadsFacts
<1> HIDE DEF heads
<1>4. /\ OncePerKey({r.position : r \in t.orders}, t.orders) /\ OncePerKey({r.position : r \in t.payments}, t.payments)
      /\ OncePerKey({r.position : r \in t.refunds}, t.refunds) /\ OncePerKey({r.position : r \in t.ads}, t.ads)
  <2>1. \A s : IsList(s) => OncePerKey({r.position : r \in Ranked(s)}, Ranked(s))
    BY RankedKeys
  <2>2. QED
    BY <1>1, <1>2, <1>3, <2>1
<1>5. OncePerKey({r.row.id : r \in t.orders}, t.orders)
  <2>1. \A k, l \in DOMAIN heads : k # l => heads[k].id # heads[l].id
    BY <1>1, <1>3
  <2>2. QED
    BY <1>2, <1>3, <2>1, RankedKeys
<1>6. OncePerKey({r.row.id : r \in t.payments}, t.payments)
  BY <1>1, <1>2, RankedKeys
<1>7. OncePerKey({<< r.row.source, r.row.id >> : r \in t.refunds}, t.refunds)
  BY <1>1, <1>2, RankedKeys
<1>8. OncePerKey({<< r.row.campaign, r.row.day >> : r \in t.ads}, t.ads)
  BY <1>1, <1>2, RankedKeys
<1>9. OncePerKey({r[1] : r \in t.products}, t.products)
  <2> DEFINE f == b.products
             pairs == {<< sku, f[sku] >> : sku \in DOMAIN f}
             g == [sku \in DOMAIN f |-> << sku, f[sku] >>]
             key == [r \in pairs |-> r[1]]
  <2>1. g \in Bijection(DOMAIN f, pairs)
    <3>1. g \in [DOMAIN f -> pairs] /\ \A k, l \in DOMAIN f : g[k] = g[l] => k = l
      OBVIOUS
    <3>2. \A p \in pairs : \E k \in DOMAIN f : g[k] = p
      OBVIOUS
    <3> HIDE DEF g, pairs, f
    <3>3. QED
      BY <3>1, <3>2 DEF Bijection, Injection, Surjection, IsInjective
  <2>2. \A r, s \in pairs : key[r] = key[s] => r = s
    OBVIOUS
  <2>3. {key[r] : r \in pairs} = {r[1] : r \in pairs}
    OBVIOUS
  <2> HIDE DEF g, pairs, key
  <2>4. IsFiniteSet(pairs)
    BY <1>1, <2>1, FS_Bijection DEF ExistsBijection
  <2>5. OncePerKey({key[r] : r \in pairs}, pairs)
    BY <2>2, <2>4, OnceByKey
  <2>6. QED
    BY <1>2, <2>3, <2>5 DEF pairs
<1>10. /\ OncePerKey({<< r.order_position, r.position >> : r \in t.order_lines}, t.order_lines)
       /\ {r.order_position : r \in t.order_lines} \subseteq {r.position : r \in t.orders}
  BY <1>1, <1>2, <1>3, LineKeys
<1>11. KeysHold(t)
  BY <1>4, <1>5, <1>6, <1>7, <1>8, <1>9, <1>10 DEF KeysHold
<1>12. QED
  BY <1>11 DEF t, ds

-----------------------------------------------------------------------------
(* Snapshots *)

SnapshotInv ==
    /\ ReadInv
    /\ QualityKept(quality)
    /\ stage \in {"reading", "rejected", "read", "unstorable", "stored", "loaded", "reported", "failed"}
    /\ stage = "stored" => tables = Tables(DatasetOf(book), quality)
    /\ dataset # << >> =>
          /\ stage \in {"loaded", "reported", "failed"}
          /\ dataset = [read |-> DatasetOf(book), quality |-> quality]

\* Reading goes on until the files are read or refused.
LEMMA ReadingStages == ReadNext => stage = "reading" /\ stage' \in {"reading", "rejected", "read"}
<1>1. ASSUME EmptyFile \/ SkipSource PROVE stage = "reading" /\ stage' \in {"reading", "rejected"}
  BY <1>1, Zenon DEF EmptyFile, SkipSource, Reading, RejectReading
<1>2. ASSUME SkipUnnamedProduct \/ ReadProduct \/ EndProducts
      PROVE  stage = "reading" /\ stage' \in {"reading", "rejected"}
  BY <1>2, Zenon DEF SkipUnnamedProduct, ReadProduct, EndProducts, AtRow, AtEnd, Reading, RejectReading, NextLine
<1>3. ASSUME RefuseUnnamedLine \/ RefuseUndatedOrder \/ ContinueOrder \/ EndOrders
      PROVE  stage = "reading" /\ stage' \in {"reading", "rejected"}
  BY <1>3, Zenon DEF RefuseUnnamedLine, RefuseUndatedOrder, ContinueOrder, EndOrders, AtRow, AtEnd, Reading,
       RejectReading, NextLine
<1>4. ASSUME OpenOrder PROVE stage = "reading" /\ stage' \in {"reading", "rejected"}
  BY <1>4, Zenon DEF OpenOrder, AtRow, Reading, RejectReading, NextLine
<1>5. ASSUME SkipUnnamedPayment \/ SkipRepeatedPayment \/ RefuseUndatedPayment \/ EndPayments
      PROVE  stage = "reading" /\ stage' \in {"reading", "rejected"}
  BY <1>5, Zenon DEF SkipUnnamedPayment, SkipRepeatedPayment, RefuseUndatedPayment, EndPayments, AtRow, AtEnd,
       Reading, NextLine
<1>6. ASSUME ReadPayment PROVE stage = "reading" /\ stage' \in {"reading", "rejected"}
  BY <1>6, Zenon DEF ReadPayment, AtRow, Reading, RejectReading, NextLine
<1>7. ASSUME RefuseUndatedAd \/ EndAds PROVE stage = "reading" /\ stage' \in {"reading", "rejected"}
  BY <1>7, Zenon DEF RefuseUndatedAd, EndAds, AtRow, AtEnd, Reading, NextLine
<1>8. ASSUME ReadAd PROVE stage = "reading" /\ stage' \in {"reading", "rejected"}
  BY <1>8 DEF ReadAd, AtRow, Reading, RejectReading, NextLine
<1>9. ASSUME CloseReading PROVE stage = "reading" /\ stage' = "read"
  BY <1>9 DEF CloseReading
<1>10. QED
  BY <1>1, <1>2, <1>3, <1>4, <1>5, <1>6, <1>7, <1>8, <1>9 DEF ReadNext

\* A snapshot is written once the dataset is read, and read back as it is.
LEMMA SnapshotStep == ASSUME SnapshotInv, Next PROVE SnapshotInv'
<1>1. ReadInv' /\ QualityKept(quality')
  BY ReadStep, QualityStep DEF SnapshotInv
<1>2. CASE Read
  <2>1. /\ stage = "reading" /\ stage' \in {"reading", "rejected", "read"} /\ dataset' = dataset
    BY <1>2, ReadingStages DEF Read
  <2>2. dataset = << >>
    BY <2>1 DEF SnapshotInv
  <2>3. QED
    BY <1>1, <2>1, <2>2 DEF SnapshotInv
<1>3. CASE Store
  <2>1. stage = "read" /\ UNCHANGED << book, quality, dataset >>
    BY <1>3 DEF Store
  <2>2. KeysHold(Tables(DatasetOf(book), quality))
    BY KeysAreOnce DEF SnapshotInv, ReadInv
  <2>3. stage' = "unstorable" \/ (stage' = "stored" /\ tables' = Tables(DatasetOf(book), quality))
    BY <1>3, <2>2 DEF Store
  <2>4. dataset = << >>
    BY <2>1 DEF SnapshotInv
  <2>5. QED
    BY <1>1, <2>1, <2>3, <2>4 DEF SnapshotInv
<1>4. CASE Load
  <2>1. stage = "stored" /\ UNCHANGED << book, quality, tables >>
    BY <1>4 DEF Load
  <2>2. tables = Tables(DatasetOf(book), quality)
    BY <2>1 DEF SnapshotInv
  <2>3. /\ ReadTables(tables) = DatasetOf(book) /\ tables.counts = RecordCounts(DatasetOf(book))
        /\ tables.quality = QualityDocument(quality)
    BY <2>2, DatasetBack DEF SnapshotInv, ReadInv
  <2>4. QualityFromDocument(tables.quality) = quality
    BY <2>3, QualityBack DEF SnapshotInv
  <2>5. dataset' = [read |-> DatasetOf(book), quality |-> quality] /\ stage' = "loaded"
    BY <1>4, <2>3, <2>4 DEF Load
  <2>6. QED
    BY <1>1, <2>1, <2>5 DEF SnapshotInv
<1>5. CASE AnalyseFiles
  <2>1. /\ dataset' = [read |-> DatasetOf(book), quality |-> quality] /\ stage' = "loaded"
        /\ UNCHANGED << book, quality >>
    BY <1>5 DEF AnalyseFiles
  <2>2. QED
    BY <1>1, <2>1 DEF SnapshotInv
<1>6. CASE Analyse
  <2>1. stage = "loaded" /\ stage' \in {"reported", "failed"} /\ UNCHANGED << book, quality, dataset >>
    BY <1>6, Zenon DEF Analyse
  <2>2. QED
    BY <1>1, <2>1 DEF SnapshotInv
<1>7. QED
  BY <1>2, <1>3, <1>4, <1>5, <1>6 DEF Next

\* Whatever the files repeat, no dataset that was read is refused by the unique keys of the
\* tables (persistence/snapshots.py write_dataset), and a snapshot gives back the dataset and
\* the quality report it was sealed with (load_dataset): it is never found corrupt.
THEOREM Snapshots == Spec => []SnapshotsComeBack
<1>1. Init => SnapshotInv
  <2>1. Init => ReadInv /\ QualityKept(quality)
    BY EmptyBookKept, EmptyQualityKept DEF Init, ReadInit, ReadInv, Place
  <2>2. QED
    BY <2>1 DEF Init, ReadInit, SnapshotInv
<1>2. SnapshotInv /\ [Next]_engineVars => SnapshotInv'
  <2>1. SnapshotInv /\ Next => SnapshotInv'
    BY SnapshotStep
  <2>2. SnapshotInv /\ UNCHANGED engineVars => SnapshotInv'
    BY DEF SnapshotInv, ReadInv, Place, engineVars
  <2>3. QED
    BY <2>1, <2>2
<1>3. SnapshotInv => SnapshotsComeBack
  BY DEF SnapshotInv, SnapshotsComeBack
<1>4. QED
  BY <1>1, <1>2, <1>3, PTL DEF Spec

-----------------------------------------------------------------------------
(* The orders and the lines read so far *)

Opens(lines, i) == lines[i].order # None /\ ReadDate(lines[i].date, DetectDateOrder(Dates(lines))) # {}

\* The line f is the first that opens an order.
FirstOf(lines, id, f) ==
    /\ f \in DOMAIN lines /\ lines[f].order = id /\ Opens(lines, f)
    /\ \A j \in DOMAIN lines : j < f => ~(lines[j].order = id /\ Opens(lines, j))

\* The articles of an order on the lines from f to n.
ArticlesTo(lines, id, f, n) ==
    { Article(lines[j]) : j \in { k \in DOMAIN lines :
                                    f <= k /\ k <= n /\ lines[k].order = id /\ OrZero(lines[k].quantity) > 0 } }

\* An order told by the lines up to n: opened by one of the first m, with its subtotal, and with the
\* distinct articles of those from there to n.
OrderTold(o, lines, m, n) ==
    \E f \in DOMAIN lines :
        /\ f <= m /\ FirstOf(lines, o.id, f)
        /\ o.subtotal = OrZero(lines[f].subtotal)
        /\ ToSet(o.items) = ArticlesTo(lines, o.id, f, n)
        /\ \A p, q \in DOMAIN o.items : p # q => o.items[p] # o.items[q]

\* The orders told by the lines: opened by the first m, with the articles of the first n.
OrdersTold(orders, lines, m, n) ==
    /\ \A i \in DOMAIN lines : i <= m /\ Opens(lines, i) => HasOrder(orders, lines[i].order)
    /\ \A k \in DOMAIN orders : OrderTold(orders[k], lines, m, n)

\* Nothing is told by no line.
LEMMA NothingTold ==
    ASSUME NEW lines, IsList(lines)
    PROVE  OrdersTold(<< >>, lines, 0, 0)
<1>1. DOMAIN lines = 1 .. Len(lines) /\ Len(lines) \in Nat
  BY ListFacts
<1>2. \A i \in DOMAIN lines : ~(i <= 0)
  BY <1>1
<1>3. QED
  BY <1>2, EmptyList DEF OrdersTold

\* Past the last line there is nothing more.
LEMMA AllTold ==
    ASSUME NEW lines, IsList(lines), NEW orders, NEW n \in Nat, Len(lines) <= n, OrdersTold(orders, lines, n, n)
    PROVE  OrdersTold(orders, lines, Len(lines), Len(lines))
<1> DEFINE m == Len(lines)
<1>1. DOMAIN lines = 1 .. m /\ m \in Nat
  BY ListFacts
<1>2. m <= n
  OBVIOUS
<1> HIDE DEF m
<1>3. \A i \in DOMAIN lines : i <= m /\ i <= n
  BY <1>1, <1>2
<1>4. ASSUME NEW id, NEW f PROVE ArticlesTo(lines, id, f, n) = ArticlesTo(lines, id, f, m)
  <2>1. { k \in DOMAIN lines : f <= k /\ k <= n /\ lines[k].order = id /\ OrZero(lines[k].quantity) > 0 }
          = { k \in DOMAIN lines : f <= k /\ k <= m /\ lines[k].order = id /\ OrZero(lines[k].quantity) > 0 }
    BY <1>3
  <2>2. QED
    BY <2>1, Zenon DEF ArticlesTo
<1>5. ASSUME NEW o, OrderTold(o, lines, n, n) PROVE OrderTold(o, lines, m, m)
  BY <1>3, <1>4, <1>5 DEF OrderTold
<1>6. QED
  BY <1>3, <1>5 DEF OrdersTold, m

\* The same orders in another place.
LEMMA PermutedTold ==
    ASSUME NEW lines, NEW m, NEW n, NEW orders, OrdersTold(orders, lines, m, n), NEW sorted, Permuted(orders, sorted)
    PROVE  OrdersTold(sorted, lines, m, n)
<1>1. PICK places \in Bijection(DOMAIN orders, DOMAIN orders) : sorted = [p \in DOMAIN orders |-> orders[places[p]]]
  BY DEF Permuted
<1>2. /\ DOMAIN sorted = DOMAIN orders
      /\ \A p \in DOMAIN orders : sorted[p] = orders[places[p]] /\ places[p] \in DOMAIN orders
      /\ \A k \in DOMAIN orders : \E p \in DOMAIN orders : places[p] = k
  BY <1>1 DEF Bijection, Injection, Surjection
<1>3. ASSUME NEW id, HasOrder(orders, id) PROVE HasOrder(sorted, id)
  <2>1. PICK k \in DOMAIN orders : orders[k].id = id
    BY <1>3 DEF HasOrder
  <2>2. PICK p \in DOMAIN orders : places[p] = k
    BY <1>2
  <2>3. p \in DOMAIN sorted /\ sorted[p].id = id
    BY <1>2, <2>1, <2>2
  <2>4. QED
    BY <2>3 DEF HasOrder
<1>4. ASSUME NEW p \in DOMAIN sorted PROVE OrderTold(sorted[p], lines, m, n)
  <2>1. places[p] \in DOMAIN orders /\ sorted[p] = orders[places[p]]
    BY <1>2
  <2>2. OrderTold(orders[places[p]], lines, m, n)
    BY <2>1 DEF OrdersTold
  <2>3. QED
    BY <2>1, <2>2
<1>5. QED
  BY <1>3, <1>4 DEF OrdersTold

\* A line whose order is not there and that opens none tells nothing.
LEMMA SilentLine ==
    ASSUME NEW lines, IsList(lines), NEW orders, NEW n \in DOMAIN lines, OrdersTold(orders, lines, n - 1, n - 1),
           ~Opens(lines, n), lines[n].order = None \/ ~HasOrder(orders, lines[n].order)
    PROVE  OrdersTold(orders, lines, n, n)
<1>1. DOMAIN lines = 1 .. Len(lines) /\ Len(lines) \in Nat
  BY ListFacts
<1>2. \A i \in DOMAIN lines : i <= n => i <= n - 1 \/ i = n
  BY <1>1
<1>3. ASSUME NEW k \in DOMAIN orders PROVE OrderTold(orders[k], lines, n, n)
  <2> DEFINE o == orders[k]
  <2>1. PICK f \in DOMAIN lines :
        /\ f <= n - 1 /\ FirstOf(lines, o.id, f)
        /\ o.subtotal = OrZero(lines[f].subtotal)
        /\ ToSet(o.items) = ArticlesTo(lines, o.id, f, n - 1)
        /\ \A p, q \in DOMAIN o.items : p # q => o.items[p] # o.items[q]
    BY DEF OrdersTold, OrderTold
  <2>2. o.id # None /\ HasOrder(orders, o.id)
    BY <2>1 DEF FirstOf, Opens, HasOrder
  <2>3. lines[n].order # o.id
    BY <2>2
  <2>4. f <= n
    BY <1>1, <2>1
  <2> HIDE DEF o
  <2>5. { j \in DOMAIN lines : f <= j /\ j <= n - 1 /\ lines[j].order = o.id /\ OrZero(lines[j].quantity) > 0 }
          = { j \in DOMAIN lines : f <= j /\ j <= n /\ lines[j].order = o.id /\ OrZero(lines[j].quantity) > 0 }
    <3>1. \A j \in DOMAIN lines : j <= n - 1 => j <= n
      BY <1>1
    <3>2. QED
      BY <1>2, <2>3, <3>1
  <2>6. ArticlesTo(lines, o.id, f, n - 1) = ArticlesTo(lines, o.id, f, n)
    BY <2>5, Zenon DEF ArticlesTo
  <2>7. QED
    BY <2>1, <2>4, <2>6 DEF OrderTold, o
<1>4. QED
  BY <1>2, <1>3 DEF OrdersTold

\* A line that opens an order: the order is there, with no article of it yet.
LEMMA OpenedTold ==
    ASSUME NEW lines, IsList(lines), NEW orders, IsList(orders), NEW n \in DOMAIN lines,
           OrdersTold(orders, lines, n - 1, n - 1),
           Opens(lines, n), ~HasOrder(orders, lines[n].order),
           NEW o, o.id = lines[n].order, o.subtotal = OrZero(lines[n].subtotal), o.items = << >>
    PROVE  OrdersTold(Append(orders, o), lines, n, n - 1)
<1> DEFINE all == Append(orders, o)
           m == Len(orders)
<1>1. DOMAIN lines = 1 .. Len(lines) /\ Len(lines) \in Nat
  BY ListFacts
<1>2. /\ m \in Nat /\ DOMAIN orders = 1 .. m /\ DOMAIN all = 1 .. m + 1
      /\ \A k \in 1 .. m : all[k] = orders[k]
      /\ all[m + 1] = o
  BY Longer
<1> HIDE DEF all, m
<1>3. \A k \in DOMAIN all : k = m + 1 \/ k \in 1 .. m
  BY <1>2
<1>4. HasOrder(all, o.id)
  <2>1. m + 1 \in DOMAIN all
    BY <1>2
  <2>2. QED
    BY <1>2, <2>1 DEF HasOrder
<1>5. \A id : HasOrder(orders, id) => HasOrder(all, id)
  <2>1. \A k \in DOMAIN orders : k \in DOMAIN all /\ all[k] = orders[k]
    BY <1>2
  <2>2. QED
    BY <2>1 DEF HasOrder
<1>6. \A i \in DOMAIN lines : i < n => i <= n - 1
  BY <1>1
<1>7. ASSUME NEW i \in DOMAIN lines, i <= n, Opens(lines, i) PROVE HasOrder(all, lines[i].order)
  <2>1. CASE i = n
    BY <1>4, <2>1
  <2>2. CASE i # n
    <3>1. i <= n - 1
      BY <1>1, <1>7, <2>2
    <3>2. QED
      BY <1>5, <1>7, <3>1 DEF OrdersTold
  <2>3. QED
    BY <2>1, <2>2
<1>8. OrderTold(o, lines, n, n - 1)
  <2>1. FirstOf(lines, o.id, n)
    BY <1>6 DEF FirstOf, OrdersTold
  <2>2. n <= n
    BY <1>1
  <2>3. ArticlesTo(lines, o.id, n, n - 1) = {}
    <3>1. \A j \in DOMAIN lines : ~(n <= j /\ j <= n - 1)
      BY <1>1
    <3>2. QED
      BY <3>1 DEF ArticlesTo
  <2>4. ToSet(o.items) = {} /\ DOMAIN o.items = {}
    BY EmptyList
  <2>5. QED
    BY <2>1, <2>2, <2>3, <2>4 DEF OrderTold
<1>9. ASSUME NEW k \in 1 .. m PROVE OrderTold(orders[k], lines, n, n - 1)
  <2>1. OrderTold(orders[k], lines, n - 1, n - 1)
    BY <1>2 DEF OrdersTold
  <2>2. \A f \in DOMAIN lines : f <= n - 1 => f <= n
    BY <1>1
  <2>3. QED
    BY <2>1, <2>2 DEF OrderTold
<1>10. \A k \in DOMAIN all : OrderTold(all[k], lines, n, n - 1)
  BY <1>2, <1>3, <1>8, <1>9
<1>11. QED
  BY <1>7, <1>10 DEF OrdersTold, all

\* A line that continues an order.
LEMMA ContinuedTold ==
    ASSUME NEW lines, IsList(lines), NEW orders, NEW n \in DOMAIN lines,
           OrdersTold(orders, lines, n - 1, n - 1), HasOrder(orders, lines[n].order)
    PROVE  OrdersTold(orders, lines, n, n - 1)
<1>1. DOMAIN lines = 1 .. Len(lines) /\ Len(lines) \in Nat
  BY ListFacts
<1>2. \A i \in DOMAIN lines : i <= n => i <= n - 1 \/ i = n
  BY <1>1
<1>3. \A f \in DOMAIN lines : f <= n - 1 => f <= n
  BY <1>1
<1>4. ASSUME NEW k \in DOMAIN orders PROVE OrderTold(orders[k], lines, n, n - 1)
  BY <1>3 DEF OrdersTold, OrderTold
<1>5. QED
  BY <1>2, <1>4 DEF OrdersTold

\* The articles of one line more.
LEMMA MoreArticles ==
    ASSUME NEW lines, IsList(lines), NEW n \in DOMAIN lines, NEW id, NEW f \in DOMAIN lines, f <= n
    PROVE  IF lines[n].order = id /\ OrZero(lines[n].quantity) > 0
           THEN ArticlesTo(lines, id, f, n) = ArticlesTo(lines, id, f, n - 1) \cup {Article(lines[n])}
           ELSE ArticlesTo(lines, id, f, n) = ArticlesTo(lines, id, f, n - 1)
<1> DEFINE Counts(j) == lines[j].order = id /\ OrZero(lines[j].quantity) > 0
           old == { j \in DOMAIN lines : f <= j /\ j <= n - 1 /\ lines[j].order = id /\ OrZero(lines[j].quantity) > 0 }
           new == { j \in DOMAIN lines : f <= j /\ j <= n /\ lines[j].order = id /\ OrZero(lines[j].quantity) > 0 }
<1>1. DOMAIN lines = 1 .. Len(lines) /\ Len(lines) \in Nat
  BY ListFacts
<1>2. /\ \A j \in DOMAIN lines : j <= n <=> j <= n - 1 \/ j = n
      /\ f <= n
  BY <1>1
<1>3. new = IF Counts(n) THEN old \cup {n} ELSE old
  BY <1>2
<1>4. /\ ArticlesTo(lines, id, f, n) = { Article(lines[j]) : j \in new }
      /\ ArticlesTo(lines, id, f, n - 1) = { Article(lines[j]) : j \in old }
  BY Zenon DEF ArticlesTo
<1> HIDE DEF old, new
<1>5. CASE Counts(n)
  <2>1. new = old \cup {n}
    BY <1>3, <1>5
  <2>2. { Article(lines[j]) : j \in new } = { Article(lines[j]) : j \in old } \cup { Article(lines[n]) }
    BY <2>1
  <2>3. QED
    BY <1>4, <1>5, <2>2
<1>6. CASE ~Counts(n)
  BY <1>3, <1>4, <1>6
<1>7. QED
  BY <1>5, <1>6

\* The article of a line joins its order.
LEMMA ItemisedTold ==
    ASSUME NEW b, DOMAIN b = BookFields, Shaped(b.orders),
           \A k, l \in DOMAIN b.orders : k # l => b.orders[k].id # b.orders[l].id,
           NEW lines, IsList(lines), NEW n \in DOMAIN lines,
           OrZero(lines[n].quantity) \in Int,
           OrdersTold(b.orders, lines, n, n - 1), HasOrder(b.orders, lines[n].order)
    PROVE  OrdersTold(Itemised(b, lines[n]).orders, lines, n, n)
<1> DEFINE row == lines[n]
           c == Itemised(b, row)
           place == PlaceOf(b.orders, row.order)
<1>1. /\ IF OrZero(row.quantity) <= 0 \/ IsDuplicate(b, row) THEN c.orders = b.orders
         ELSE c.orders = [b.orders EXCEPT ![place].items = Append(@, Article(row))]
  <2> HIDE DEF row
  <2>1. QED
    BY DEF BookFields, Itemised
<1>2. place \in DOMAIN b.orders /\ b.orders[place].id = row.order
  BY Placed
<1>3. IsDuplicate(b, row) <=> \E k \in DOMAIN b.orders[place].items : b.orders[place].items[k] = Article(row)
  BY DEF IsDuplicate
<1>4. OrZero(row.quantity) <= 0 <=> ~(OrZero(row.quantity) > 0)
  OBVIOUS
<1> HIDE DEF c, place
<1>5. \A k \in DOMAIN b.orders : k # place => b.orders[k].id # row.order
  BY <1>2
<1>6. \A k \in DOMAIN b.orders : IsRecord(b.orders[k], OrderFields) /\ IsList(b.orders[k].items)
  BY DEF Shaped
<1>7. /\ DOMAIN c.orders = DOMAIN b.orders
      /\ \A k \in DOMAIN b.orders : k # place => c.orders[k] = b.orders[k]
      /\ c.orders[place].id = b.orders[place].id /\ c.orders[place].subtotal = b.orders[place].subtotal
      /\ IF OrZero(row.quantity) <= 0 \/ IsDuplicate(b, row)
         THEN c.orders[place].items = b.orders[place].items
         ELSE c.orders[place].items = Append(b.orders[place].items, Article(row))
  <2>1. CASE OrZero(row.quantity) <= 0 \/ IsDuplicate(b, row)
    BY <1>1, <2>1
  <2>2. CASE ~(OrZero(row.quantity) <= 0 \/ IsDuplicate(b, row))
    <3>1. c.orders = [b.orders EXCEPT ![place].items = Append(@, Article(row))]
      BY <1>1, <2>2
    <3>2. c.orders[place] = [b.orders[place] EXCEPT !.items = Append(@, Article(row))]
      BY <1>2, <3>1
    <3>3. DOMAIN b.orders[place] = OrderFields
      BY <1>2, <1>6 DEF IsRecord
    <3>4. /\ c.orders[place].id = b.orders[place].id /\ c.orders[place].subtotal = b.orders[place].subtotal
          /\ c.orders[place].items = Append(b.orders[place].items, Article(row))
      BY <3>2, <3>3 DEF OrderFields
    <3>5. QED
      BY <2>2, <3>1, <3>4
  <2>3. QED
    BY <2>1, <2>2
<1>8. ASSUME NEW k \in DOMAIN c.orders PROVE OrderTold(c.orders[k], lines, n, n)
  <2> DEFINE o == b.orders[k]
             new == c.orders[k]
  <2>1. PICK f \in DOMAIN lines :
        /\ f <= n /\ FirstOf(lines, o.id, f)
        /\ o.subtotal = OrZero(lines[f].subtotal)
        /\ ToSet(o.items) = ArticlesTo(lines, o.id, f, n - 1)
        /\ \A p, q \in DOMAIN o.items : p # q => o.items[p] # o.items[q]
    BY <1>7 DEF OrdersTold, OrderTold
  <2>2. IF row.order = o.id /\ OrZero(row.quantity) > 0
        THEN ArticlesTo(lines, o.id, f, n) = ArticlesTo(lines, o.id, f, n - 1) \cup {Article(row)}
        ELSE ArticlesTo(lines, o.id, f, n) = ArticlesTo(lines, o.id, f, n - 1)
    BY <2>1, MoreArticles
  <2>3. CASE k # place
    <3>1. new = o /\ o.id # row.order
      BY <1>5, <1>7, <2>3
    <3> HIDE DEF o, new
    <3>2. OrderTold(new, lines, n, n)
      BY <2>1, <2>2, <3>1 DEF OrderTold
    <3>3. QED
      BY <3>2 DEF new
  <2>4. CASE k = place
    <3>1. new.id = o.id /\ new.subtotal = o.subtotal /\ o.id = row.order /\ IsList(o.items)
      BY <1>2, <1>6, <1>7, <2>4
    <3>2. CASE OrZero(row.quantity) <= 0
      <4>1. new.items = o.items
        BY <1>7, <2>4, <3>2
      <4>2. ArticlesTo(lines, o.id, f, n) = ArticlesTo(lines, o.id, f, n - 1)
        BY <1>4, <2>2, <3>2
      <4> HIDE DEF o, new
      <4>3. OrderTold(new, lines, n, n)
        BY <2>1, <3>1, <4>1, <4>2 DEF OrderTold
      <4>4. QED
        BY <4>3 DEF new
    <3>3. CASE ~(OrZero(row.quantity) <= 0) /\ IsDuplicate(b, row)
      <4>1. new.items = o.items
        BY <1>7, <2>4, <3>3
      <4>2. Article(row) \in ToSet(o.items)
        BY <1>3, <2>4, <3>3 DEF ToSet
      <4>3. ArticlesTo(lines, o.id, f, n) = ArticlesTo(lines, o.id, f, n - 1) \cup {Article(row)}
        BY <1>4, <2>2, <3>1, <3>3
      <4> HIDE DEF o, new
      <4>4. ToSet(new.items) = ArticlesTo(lines, o.id, f, n)
        BY <2>1, <4>1, <4>2, <4>3
      <4>5. OrderTold(new, lines, n, n)
        BY <2>1, <3>1, <4>1, <4>4 DEF OrderTold
      <4>6. QED
        BY <4>5 DEF new
    <3>4. CASE ~(OrZero(row.quantity) <= 0) /\ ~IsDuplicate(b, row)
      <4> DEFINE m == Len(o.items)
      <4>1. new.items = Append(o.items, Article(row))
        BY <1>7, <2>4, <3>4
      <4>2. \A p \in DOMAIN o.items : o.items[p] # Article(row)
        BY <1>3, <2>4, <3>4
      <4>3. ArticlesTo(lines, o.id, f, n) = ArticlesTo(lines, o.id, f, n - 1) \cup {Article(row)}
        BY <1>4, <2>2, <3>1, <3>4
      <4> HIDE DEF o, new
      <4>4. /\ m \in Nat /\ DOMAIN o.items = 1 .. m /\ DOMAIN new.items = 1 .. m + 1
            /\ \A p \in 1 .. m : new.items[p] = o.items[p]
            /\ new.items[m + 1] = Article(row)
            /\ ToSet(new.items) = ToSet(o.items) \cup {Article(row)}
        BY <3>1, <4>1, Longer
      <4> HIDE DEF m
      <4>5. ASSUME NEW p \in DOMAIN new.items, NEW q \in DOMAIN new.items, p # q
            PROVE  new.items[p] # new.items[q]
        <5>1. \A x \in DOMAIN new.items : x = m + 1 \/ x \in 1 .. m
          BY <4>4
        <5>2. CASE p \in 1 .. m /\ q \in 1 .. m
          BY <2>1, <4>4, <4>5, <5>2
        <5>3. CASE p = m + 1 /\ q \in 1 .. m
          BY <4>2, <4>4, <5>3
        <5>4. CASE q = m + 1 /\ p \in 1 .. m
          BY <4>2, <4>4, <5>4
        <5>5. QED
          BY <4>5, <5>1, <5>2, <5>3, <5>4
      <4>6. ToSet(new.items) = ArticlesTo(lines, o.id, f, n)
        BY <2>1, <4>3, <4>4
      <4>7. OrderTold(new, lines, n, n)
        BY <2>1, <3>1, <4>5, <4>6 DEF OrderTold
      <4>8. QED
        BY <4>7 DEF new
    <3>5. QED
      BY <3>2, <3>3, <3>4
  <2>5. QED
    BY <2>3, <2>4
<1>9. ASSUME NEW id, HasOrder(b.orders, id) PROVE HasOrder(c.orders, id)
  BY <1>7, <1>9 DEF HasOrder
<1>10. OrdersTold(c.orders, lines, n, n)
  BY <1>8, <1>9 DEF OrdersTold
<1>11. QED
  BY <1>10 DEF c

-----------------------------------------------------------------------------
(* The orders are those of their file *)

\* The orders at any moment of a reading that is not refused: none before their file, those of the
\* lines read so far while it is read, and those of all its lines once it is read.
OrdersInv ==
    stage # "rejected" =>
      /\ source \in 1 .. 5
      /\ stage # "reading" => source = 5
      /\ source = 1 => book.orders = << >>
      /\ source = 2 /\ export.shopify_orders # None =>
            OrdersTold(book.orders, export.shopify_orders, line - 1, line - 1)
      /\ source > 2 =>
            /\ export.shopify_orders # None
            /\ OrdersTold(book.orders, export.shopify_orders,
                          Len(export.shopify_orders), Len(export.shopify_orders))

\* The place of each source in the order of reading.
LEMMA SourcePlaces ==
    ASSUME NEW name, Reading(name), source \in Nat \ {0}
    PROVE  /\ stage = "reading" /\ source \in 1 .. 4 /\ export[name] # None /\ Lines = export[name]
           /\ name = "shopify_products" => source = 1
           /\ name = "shopify_orders" => source = 2
           /\ name \in {"stripe", "google_ads"} => source \in 3 .. 4
<1>1. source \in 1 .. 4
  BY DEF Reading, Sources
<1>2. source = 1 \/ source = 2 \/ source = 3 \/ source = 4
  BY <1>1
<1>3. /\ Sources[1] = "shopify_products" /\ Sources[2] = "shopify_orders"
      /\ Sources[3] = "stripe" /\ Sources[4] = "google_ads"
  BY DEF Sources
<1>4. QED
  BY <1>1, <1>2, <1>3 DEF Reading, Lines

\* The file of the orders is a list, with numbers or marks as quantities.
LEMMA OrderLinesAreAList ==
    ASSUME Place, export.shopify_orders # None
    PROVE  IsList(export.shopify_orders)
<1>1. export.shopify_orders \in Seq(ToSet(export.shopify_orders))
  BY IngestionAssumption, SourceNames DEF Place
<1>2. QED
  BY <1>1 DEF IsList

\* A step before the file of the orders.
LEMMA EarlyStep ==
    ASSUME Place, OrdersInv, stage = "reading", source = 1, export' = export, book'.orders = book.orders,
           stage' \in {"reading", "rejected"}, (source' = 1 \/ (source' = 2 /\ line' = 1))
    PROVE  OrdersInv'
<1>1. book.orders = << >>
  BY DEF OrdersInv
<1>2. CASE source' = 1
  BY <1>1, <1>2 DEF OrdersInv
<1>3. CASE source' = 2 /\ line' = 1
  <2>1. export.shopify_orders # None => OrdersTold(<< >>, export.shopify_orders, 0, 0)
    BY OrderLinesAreAList, NothingTold
  <2>2. line' - 1 = 0
    BY <1>3
  <2>3. export'.shopify_orders # None => OrdersTold(book'.orders, export'.shopify_orders, line' - 1, line' - 1)
    BY <1>1, <2>1, <2>2
  <2>4. source' \in 1 .. 5 /\ source' # 1 /\ ~(source' > 2)
    BY <1>3
  <2>5. QED
    BY <2>3, <2>4 DEF OrdersInv
<1>4. QED
  BY <1>2, <1>3

\* A step after the file of the orders.
LEMMA LateStep ==
    ASSUME OrdersInv, stage = "reading", source > 2, source \in 1 .. 5, export' = export,
           book'.orders = book.orders, stage' = "reading" => source' \in 1 .. 5 /\ source' >= source,
           stage' # "reading" => source' = 5 \/ stage' = "rejected"
    PROVE  OrdersInv'
<1>1. stage' # "rejected" => source' \in 1 .. 5 /\ source' > 2 /\ source' # 1 /\ source' # 2
  OBVIOUS
<1>2. QED
  BY <1>1 DEF OrdersInv

\* The steps of the products.
LEMMA ProductsInv ==
    ASSUME Place, ReadInv, OrdersInv, SkipUnnamedProduct \/ ReadProduct \/ EndProducts
    PROVE  OrdersInv'
<1>1. Reading("shopify_products")
  BY Zenon DEF SkipUnnamedProduct, ReadProduct, EndProducts, AtRow, AtEnd
<1>2. CASE stage' = "rejected"
  BY <1>2 DEF OrdersInv
<1>3. CASE stage' # "rejected"
  <2>1. source \in Nat \ {0}
    BY <1>1, <1>3 DEF OrdersInv, Reading
  <2>2. stage = "reading" /\ source = 1
    BY <1>1, <2>1, SourcePlaces
  <2>3. ASSUME NextLine \/ (NextFile /\ stage' = stage)
        PROVE  export' = export /\ stage' = "reading" /\ (source' = 1 \/ (source' = 2 /\ line' = 1))
    BY <2>2, <2>3 DEF NextLine, NextFile
  <2>4. CASE SkipUnnamedProduct \/ EndProducts
    <3>1. UNCHANGED book /\ (NextLine \/ (NextFile /\ stage' = stage))
      BY <2>4, Zenon DEF SkipUnnamedProduct, EndProducts
    <3>2. QED
      BY <2>2, <2>3, <3>1, EarlyStep
  <2>5. CASE ReadProduct
    <3>1. \E cost, priced : book' = [book EXCEPT !.products = With(@, Row.sku, cost), !.priced = priced]
      BY <1>3, <2>5 DEF ReadProduct, RejectReading
    <3>2. NextLine
      BY <1>3, <2>5, Zenon DEF ReadProduct, RejectReading
    <3>3. DOMAIN book = BookFields
      BY DEF ReadInv, BookKept
    <3>4. book'.orders = book.orders
      BY <3>1, <3>3 DEF BookFields
    <3>5. QED
      BY <2>2, <2>3, <3>2, <3>4, EarlyStep
  <2>6. QED
    BY <2>4, <2>5
<1>4. QED
  BY <1>2, <1>3

\* A file that is not there, or that is empty.
LEMMA AbsentInv ==
    ASSUME Place, OrdersInv, EmptyFile \/ SkipSource
    PROVE  OrdersInv'
<1>1. CASE stage' = "rejected"
  BY <1>1 DEF OrdersInv
<1>2. CASE stage' # "rejected"
  <2>1. SkipSource /\ Sources[source] # "shopify_orders" /\ NextFile /\ UNCHANGED << book, stage >>
    BY <1>2 DEF EmptyFile, SkipSource, RejectReading
  <2>2. stage = "reading" /\ source <= 4
    BY <2>1 DEF SkipSource, Sources
  <2>3. source \in 1 .. 4
    BY <1>2, <2>1, <2>2 DEF OrdersInv
  <2>4. source # 2
    BY <2>1 DEF Sources
  <2>5. source' = source + 1 /\ line' = 1 /\ export' = export
    BY <2>1 DEF NextFile
  <2>6. CASE source = 1
    BY <2>1, <2>2, <2>5, <2>6, EarlyStep
  <2>7. CASE source > 2
    <3>1. source' \in 1 .. 5 /\ source' >= source /\ source \in 1 .. 5
      BY <2>3, <2>5
    <3>2. stage' = "reading" /\ book'.orders = book.orders
      BY <2>1, <2>2
    <3>3. QED
      BY <1>2, <2>2, <2>5, <2>7, <3>1, <3>2, LateStep
  <2>8. QED
    BY <2>3, <2>4, <2>6, <2>7
<1>3. QED
  BY <1>1, <1>2

\* The steps of the payments and of the advertising, and the end of the reading.
LEMMA LaterInv ==
    ASSUME ReadInv, OrdersInv,
           \/ SkipUnnamedPayment \/ SkipRepeatedPayment \/ RefuseUndatedPayment \/ ReadPayment \/ EndPayments
           \/ RefuseUndatedAd \/ ReadAd \/ EndAds \/ CloseReading
    PROVE  OrdersInv'
<1> DEFINE Payments == \/ SkipUnnamedPayment \/ SkipRepeatedPayment \/ RefuseUndatedPayment \/ ReadPayment
                       \/ EndPayments
           Ads == RefuseUndatedAd \/ ReadAd \/ EndAds
<1>1. DOMAIN book = BookFields
  BY DEF ReadInv, BookKept
<1>2. ASSUME Payments \/ Ads
      PROVE  /\ stage = "reading" /\ source \in 3 .. 4
             /\ Sources[source] \in {"stripe", "google_ads"}
  <2>1. Reading("stripe") \/ Reading("google_ads")
    BY <1>2, Zenon DEF SkipUnnamedPayment, SkipRepeatedPayment, RefuseUndatedPayment, ReadPayment, EndPayments,
         RefuseUndatedAd, ReadAd, EndAds, AtRow, AtEnd
  <2>2. stage = "reading" /\ source \in Nat \ {0}
    BY <2>1 DEF Reading, OrdersInv
  <2>3. QED
    BY <2>1, <2>2, SourcePlaces DEF Reading
<1>3. ASSUME Payments \/ Ads
      PROVE  \/ stage' = "rejected"
             \/ /\ stage' = stage /\ export' = export /\ source' \in {source, source + 1}
                /\ book'.orders = book.orders
  <2>1. CASE SkipUnnamedPayment \/ SkipRepeatedPayment \/ EndPayments \/ RefuseUndatedAd
    <3>1. UNCHANGED book /\ (NextLine \/ (NextFile /\ UNCHANGED stage))
      BY <2>1, Zenon DEF SkipUnnamedPayment, SkipRepeatedPayment, EndPayments, RefuseUndatedAd
    <3>2. QED
      BY <3>1 DEF NextLine, NextFile
  <2>2. CASE RefuseUndatedPayment
    BY <1>1, <2>2 DEF RefuseUndatedPayment, NextLine, BookFields
  <2>3. CASE EndAds
    <3>1. book' = [book EXCEPT !.ads = ByDayAndCampaign(@)] /\ NextFile /\ UNCHANGED stage
      BY <2>3, Zenon DEF EndAds
    <3>2. QED
      BY <1>1, <3>1 DEF NextFile, BookFields
  <2>4. CASE ReadPayment
    <3>1. \/ RejectReading
          \/ /\ NextLine
             /\ \E paid, payments, refunds, withFee :
                   book' = [book EXCEPT !.paid = paid, !.payments = payments, !.refunds = refunds, !.withFee = withFee]
      BY <2>4 DEF ReadPayment
    <3>2. QED
      BY <1>1, <3>1 DEF RejectReading, NextLine, BookFields
  <2>5. CASE ReadAd
    <3>1. RejectReading \/ (NextLine /\ book'.orders = book.orders)
      <4>1. \/ RejectReading
            \/ NextLine /\ UNCHANGED book
            \/ NextLine /\ \E names, spent : book' = [book EXCEPT !.campaigns = names, !.spent = spent]
            \/ NextLine /\ \E names, spent, ads :
                  book' = [[book EXCEPT !.campaigns = names, !.spent = spent] EXCEPT !.ads = ads]
        BY <2>5, AdBooks
      <4>2. QED
        BY <1>1, <4>1 DEF BookFields
    <3>2. CASE RejectReading
      BY <3>2 DEF RejectReading
    <3>3. CASE NextLine /\ book'.orders = book.orders
      BY <3>3 DEF NextLine
    <3>4. QED
      BY <3>1, <3>2, <3>3
  <2>6. QED
    BY <1>3, <2>1, <2>2, <2>3, <2>4, <2>5
<1>4. CASE Payments \/ Ads
  <2>1. CASE stage' = "rejected"
    BY <2>1 DEF OrdersInv
  <2>2. CASE /\ stage' = stage /\ export' = export /\ source' \in {source, source + 1}
             /\ book'.orders = book.orders
    <3>1. stage = "reading" /\ source \in 1 .. 5 /\ source > 2 /\ source' \in 1 .. 5 /\ source' >= source
      BY <1>2, <1>4, <2>2
    <3>2. QED
      BY <2>2, <3>1, LateStep
  <2>3. QED
    BY <1>3, <1>4, <2>1, <2>2
<1>5. CASE CloseReading
  <2>1. /\ stage = "reading" /\ source > 4 /\ stage' = "read" /\ UNCHANGED << export, source, line, book >>
    BY <1>5 DEF CloseReading, Sources
  <2>2. source = 5
    BY <2>1 DEF OrdersInv
  <2>3. QED
    BY <2>1, <2>2, LateStep
<1>6. QED
  BY <1>4, <1>5

\* What an order line that can be read holds.
LEMMA OrderRow ==
    ASSUME Place, OrdersInv, AtRow("shopify_orders")
    PROVE  /\ IsList(export.shopify_orders) /\ export.shopify_orders # None
           /\ line \in DOMAIN export.shopify_orders /\ line \in Nat \ {0}
           /\ Row = export.shopify_orders[line] /\ stage = "reading" /\ source = 2
           /\ Opens(export.shopify_orders, line)
                <=> Row.order # None /\ ReadDate(Row.date, DateOrder) # {}
           /\ Row.quantity # Broken => OrZero(Row.quantity) \in Int
<1>1. Reading("shopify_orders")
  BY DEF AtRow
<1>2. source \in Nat \ {0}
  BY <1>1 DEF Reading, OrdersInv
<1>3. stage = "reading" /\ source = 2 /\ export.shopify_orders # None /\ Lines = export.shopify_orders
  BY <1>1, <1>2, SourcePlaces
<1>4. /\ line \in DOMAIN export.shopify_orders /\ Row = export.shopify_orders[line]
      /\ Row.quantity \in Int \cup {None, Broken}
  BY RowFacts
<1>5. DateOrder = DetectDateOrder(Dates(export.shopify_orders))
  BY <1>3 DEF DateOrder, Dates
<1>6. Row.quantity # Broken => OrZero(Row.quantity) \in Int
  BY <1>4 DEF OrZero
<1>7. QED
  BY <1>3, <1>4, <1>5, <1>6, OrderLinesAreAList DEF Opens, Place

\* The next line of the file of the orders.
LEMMA NextOrderLine ==
    ASSUME Place, source = 2, stage = "reading", NextLine, export.shopify_orders # None,
           OrdersTold(book'.orders, export.shopify_orders, line, line)
    PROVE  OrdersInv'
<1>1. line' - 1 = line /\ export' = export /\ source' = 2 /\ stage' = "reading"
  BY DEF NextLine, Place
<1>2. OrdersTold(book'.orders, export'.shopify_orders, line' - 1, line' - 1)
  BY <1>1
<1>3. source' \in 1 .. 5 /\ source' # 1 /\ ~(source' > 2)
  BY <1>1
<1>4. QED
  BY <1>1, <1>2, <1>3 DEF OrdersInv

\* A line that is refused.
LEMMA RefusedLineInv ==
    ASSUME ReadInv, OrdersInv, RefuseUnnamedLine \/ RefuseUndatedOrder
    PROVE  OrdersInv'
<1> DEFINE lines == export.shopify_orders
<1>1. /\ AtRow("shopify_orders") /\ NextLine /\ book' = [book EXCEPT !.invalid = @ + 1]
      /\ \/ Row.order = None
         \/ ~HasOrder(book.orders, Row.order) /\ ReadDate(Row.date, DateOrder) = {}
  BY Zenon DEF RefuseUnnamedLine, RefuseUndatedOrder
<1>2. /\ IsList(lines) /\ lines # None /\ line \in DOMAIN lines
      /\ Row = lines[line] /\ stage = "reading" /\ source = 2
      /\ ~Opens(lines, line)
      /\ lines[line].order = None \/ ~HasOrder(book.orders, lines[line].order)
  BY <1>1, OrderRow DEF ReadInv
<1>3. OrdersTold(book.orders, lines, line - 1, line - 1)
  BY <1>2 DEF OrdersInv
<1>4. OrdersTold(book.orders, lines, line, line)
  BY <1>2, <1>3, SilentLine
<1>5. book'.orders = book.orders
  <2>1. DOMAIN book = BookFields
    BY DEF ReadInv, BookKept
  <2>2. QED
    BY <1>1, <2>1 DEF BookFields
<1>6. QED
  BY <1>1, <1>2, <1>4, <1>5, NextOrderLine DEF ReadInv

\* A line that opens an order.
LEMMA OpenOrderInv ==
    ASSUME ReadInv, OrdersInv, OpenOrder
    PROVE  OrdersInv'
<1> DEFINE lines == export.shopify_orders
<1>1. /\ AtRow("shopify_orders") /\ Row.order # None /\ ~HasOrder(book.orders, Row.order)
  BY DEF OpenOrder
<1>2. PICK day \in ReadDate(Row.date, DateOrder) :
          \/ RejectReading
          \/ /\ Row.quantity # Broken
             /\ book' = Itemised(Opened(book, Row, day), Row)
             /\ NextLine
  BY DEF OpenOrder
<1>3. CASE RejectReading
  BY <1>3 DEF RejectReading, OrdersInv
<1>4. CASE Row.quantity # Broken /\ book' = Itemised(Opened(book, Row, day), Row) /\ NextLine
  <2> DEFINE opened == Opened(book, Row, day)
             o == OpenedOrder(Row, day)
  <2>1. /\ IsList(lines) /\ lines # None /\ line \in DOMAIN lines
        /\ Row = lines[line] /\ stage = "reading" /\ source = 2
        /\ Opens(lines, line) /\ OrZero(lines[line].quantity) \in Int
    BY <1>1, <1>2, <1>4, OrderRow DEF ReadInv
  <2>2. LineSays(lines, line, day) /\ day \in Int
    BY <1>1, RowSays DEF ReadInv
  <2>3. BookKept(book, export)
    BY DEF ReadInv
  <2>4. BookKept(opened, export) /\ HasOrder(opened.orders, lines[line].order)
    BY <1>1, <2>1, <2>2, <2>3, OpenedKept
  <2>5. opened.orders = Append(book.orders, o)
    <3>1. DOMAIN book = BookFields
      BY <2>3 DEF BookKept
    <3>2. Opened(book, Row, day).orders = Append(book.orders, OpenedOrder(Row, day))
      BY <3>1 DEF Opened, BookFields
    <3>3. QED
      BY <3>2
  <2>6. o.id = lines[line].order /\ o.subtotal = OrZero(lines[line].subtotal) /\ o.items = << >>
    BY <2>1 DEF OpenedOrder
  <2> HIDE DEF opened, o
  <2>7. OrdersTold(book.orders, lines, line - 1, line - 1)
    BY <2>1 DEF OrdersInv
  <2>8. IsList(book.orders) /\ ~HasOrder(book.orders, lines[line].order)
    BY <1>1, <2>1, <2>3 DEF BookKept, OrdersKept
  <2>9. OrdersTold(opened.orders, lines, line, line - 1)
    BY <2>1, <2>5, <2>6, <2>7, <2>8, OpenedTold
  <2>10. /\ DOMAIN opened = BookFields /\ Shaped(opened.orders)
         /\ \A k, l \in DOMAIN opened.orders : k # l => opened.orders[k].id # opened.orders[l].id
    BY <2>4 DEF BookKept, OrdersKept, Shaped
  <2>11. OrdersTold(Itemised(opened, lines[line]).orders, lines, line, line)
    BY <2>1, <2>4, <2>9, <2>10, ItemisedTold
  <2>12. OrdersTold(book'.orders, lines, line, line)
    BY <1>4, <2>1, <2>11 DEF opened
  <2>13. QED
    BY <1>4, <2>1, <2>12, NextOrderLine DEF ReadInv
<1>5. QED
  BY <1>2, <1>3, <1>4

\* A line that continues an order.
LEMMA ContinueOrderInv ==
    ASSUME ReadInv, OrdersInv, ContinueOrder
    PROVE  OrdersInv'
<1> DEFINE lines == export.shopify_orders
<1>1. /\ AtRow("shopify_orders") /\ HasOrder(book.orders, Row.order)
      /\ \/ RejectReading
         \/ Row.quantity # Broken /\ book' = Itemised(book, Row) /\ NextLine
  BY DEF ContinueOrder
<1>2. CASE RejectReading
  BY <1>2 DEF RejectReading, OrdersInv
<1>3. CASE Row.quantity # Broken /\ book' = Itemised(book, Row) /\ NextLine
  <2>1. /\ IsList(lines) /\ lines # None /\ line \in DOMAIN lines
        /\ Row = lines[line] /\ stage = "reading" /\ source = 2
        /\ OrZero(lines[line].quantity) \in Int
    BY <1>1, <1>3, OrderRow DEF ReadInv
  <2>2. OrdersTold(book.orders, lines, line - 1, line - 1)
    BY <2>1 DEF OrdersInv
  <2>3. HasOrder(book.orders, lines[line].order)
    BY <1>1, <2>1
  <2>4. OrdersTold(book.orders, lines, line, line - 1)
    BY <2>1, <2>2, <2>3, ContinuedTold
  <2>5. /\ DOMAIN book = BookFields /\ Shaped(book.orders)
        /\ \A k, l \in DOMAIN book.orders : k # l => book.orders[k].id # book.orders[l].id
    BY DEF ReadInv, BookKept, OrdersKept, Shaped
  <2>6. OrdersTold(Itemised(book, lines[line]).orders, lines, line, line)
    BY <2>1, <2>3, <2>4, <2>5, ItemisedTold
  <2>7. OrdersTold(book'.orders, lines, line, line)
    BY <1>3, <2>1, <2>6
  <2>8. QED
    BY <1>3, <2>1, <2>7, NextOrderLine DEF ReadInv
<1>4. QED
  BY <1>1, <1>2, <1>3

\* The end of the file of the orders.
LEMMA EndOrdersInv ==
    ASSUME ReadInv, OrdersInv, EndOrders
    PROVE  OrdersInv'
<1> DEFINE lines == export.shopify_orders
           n == Len(lines)
<1>1. AtEnd("shopify_orders") /\ book' = [book EXCEPT !.orders = ByDay(@)]
  BY DEF EndOrders
<1>2. stage' = "rejected" \/ (NextFile /\ stage' = stage)
  BY DEF EndOrders
<1>3. CASE stage' = "rejected"
  BY <1>3 DEF OrdersInv
<1>4. CASE NextFile /\ stage' = stage
  <2>1. stage = "reading" /\ source = 2 /\ lines # None /\ Lines = lines /\ line > n
    <3>1. Reading("shopify_orders") /\ line > Len(Lines)
      BY <1>1 DEF AtEnd
    <3>2. source \in Nat \ {0}
      BY <3>1 DEF OrdersInv, Reading
    <3>3. QED
      BY <3>1, <3>2, SourcePlaces
  <2>2. IsList(lines) /\ n \in Nat
    BY <2>1, OrderLinesAreAList, ListFacts DEF ReadInv
  <2>3. OrdersTold(book.orders, lines, line - 1, line - 1)
    BY <2>1 DEF OrdersInv
  <2>4. /\ DOMAIN book = BookFields /\ IsList(book.orders)
        /\ \A k \in DOMAIN book.orders : book.orders[k].day \in Int
    BY DEF ReadInv, BookKept, OrdersKept
  <2>5. book'.orders = ByDay(book.orders)
    BY <1>1, <2>4 DEF BookFields
  <2>6. OrdersTold(book'.orders, lines, line - 1, line - 1)
    BY <2>3, <2>4, <2>5, OrdersArePermuted, PermutedTold
  <2> HIDE DEF n
  <2>7. line - 1 \in Nat /\ n <= line - 1
    BY <2>1, <2>2 DEF ReadInv, Place
  <2>8. OrdersTold(book'.orders, lines, n, n)
    BY <2>2, <2>6, <2>7, AllTold DEF n
  <2>9. export' = export /\ source' = 3 /\ stage' = "reading"
    BY <1>4, <2>1 DEF NextFile
  <2>10. source' \in 1 .. 5 /\ source' # 1 /\ source' # 2
    BY <2>9
  <2>11. QED
    BY <2>1, <2>8, <2>9, <2>10 DEF OrdersInv, n
<1>5. QED
  BY <1>2, <1>3, <1>4

\* Every step keeps the orders those of the lines read so far.
LEMMA OrdersStep == ASSUME ReadInv, OrdersInv, Next PROVE OrdersInv'
<1>1. CASE Read
  <2>1. CASE EmptyFile \/ SkipSource
    BY <2>1, AbsentInv DEF ReadInv
  <2>2. CASE SkipUnnamedProduct \/ ReadProduct \/ EndProducts
    BY <2>2, ProductsInv DEF ReadInv
  <2>3. CASE RefuseUnnamedLine \/ RefuseUndatedOrder
    BY <2>3, RefusedLineInv
  <2>4. CASE OpenOrder
    BY <2>4, OpenOrderInv
  <2>5. CASE ContinueOrder
    BY <2>5, ContinueOrderInv
  <2>6. CASE EndOrders
    BY <2>6, EndOrdersInv
  <2>7. CASE \/ SkipUnnamedPayment \/ SkipRepeatedPayment \/ RefuseUndatedPayment \/ ReadPayment \/ EndPayments
             \/ RefuseUndatedAd \/ ReadAd \/ EndAds \/ CloseReading
    BY <2>7, LaterInv
  <2>8. QED
    BY <1>1, <2>1, <2>2, <2>3, <2>4, <2>5, <2>6, <2>7, Zenon DEF Read, ReadNext
<1>2. CASE Store \/ Load \/ AnalyseFiles \/ Analyse
  <2>1. /\ UNCHANGED << export, source, line, book >>
        /\ stage \notin {"reading", "rejected"} /\ stage' \notin {"reading", "rejected"}
    BY <1>2 DEF Store, Load, AnalyseFiles, Analyse
  <2>2. QED
    BY <2>1 DEF OrdersInv
<1>3. QED
  BY <1>1, <1>2 DEF Next

\* The elements of a list without repetition are counted by its length.
LEMMA DistinctAreCounted ==
    ASSUME NEW n \in Nat, NEW s, NEW S,
           \A i \in 1 .. n : s[i] \in S,
           \A x \in S : \E i \in 1 .. n : s[i] = x,
           \A i, j \in 1 .. n : i # j => s[i] # s[j]
    PROVE  Cardinality(S) = n
<1> DEFINE f == [i \in 1 .. n |-> s[i]]
<1>1. /\ f \in [1 .. n -> S]
      /\ \A x \in S : \E i \in 1 .. n : f[i] = x
      /\ \A i, j \in 1 .. n : f[i] = f[j] => i = j
  <2>1. \A i \in 1 .. n : f[i] = s[i]
    OBVIOUS
  <2>2. f \in [1 .. n -> S]
    OBVIOUS
  <2> HIDE DEF f
  <2>3. QED
    BY <2>1, <2>2
<1> HIDE DEF f
<1>2. ExistsBijection(1 .. n, S)
  BY <1>1 DEF ExistsBijection, Bijection, Injection, Surjection, IsInjective
<1>3. QED
  BY <1>2, FS_CountingElements

\* The first line that opens an order is the least of those that open it.
LEMMA FirstIsLeast ==
    ASSUME NEW lines, IsList(lines), NEW id, NEW f, FirstOf(lines, id, f)
    PROVE  Min({ i \in DOMAIN lines : lines[i].order = id /\ Opens(lines, i) }) = f
<1> DEFINE S == { i \in DOMAIN lines : lines[i].order = id /\ Opens(lines, i) }
<1>1. DOMAIN lines = 1 .. Len(lines) /\ Len(lines) \in Nat
  BY ListFacts
<1>2. f \in S /\ \A j \in S : ~(j < f)
  BY DEF FirstOf
<1>3. S \subseteq Nat
  BY <1>1
<1> HIDE DEF S
<1>4. f \in Nat /\ \A y \in S : f =< y
  BY <1>2, <1>3
<1>5. \A x \in S : (\A y \in S : x =< y) => x = f
  BY <1>2, <1>3, <1>4
<1>6. Min(S) = f
  BY <1>2, <1>4, <1>5 DEF Min
<1>7. QED
  BY <1>6 DEF S

\* The articles of an order, in the words of the property.
LEMMA ArticlesOfAll ==
    ASSUME NEW lines, IsList(lines), NEW id, NEW f \in DOMAIN lines
    PROVE  ArticlesTo(lines, id, f, Len(lines))
             = { Article(lines[i]) : i \in { j \in DOMAIN lines :
                    j >= f /\ lines[j].order = id /\ OrZero(lines[j].quantity) > 0 } }
<1> DEFINE n == Len(lines)
           A == { k \in DOMAIN lines : f <= k /\ k <= n /\ lines[k].order = id /\ OrZero(lines[k].quantity) > 0 }
           B == { j \in DOMAIN lines : j >= f /\ lines[j].order = id /\ OrZero(lines[j].quantity) > 0 }
<1>1. DOMAIN lines = 1 .. n /\ n \in Nat
  BY ListFacts
<1> HIDE DEF n
<1>2. \A k \in DOMAIN lines : (f <= k /\ k <= n) <=> k >= f
  BY <1>1
<1>3. A = B
  BY <1>2
<1>4. ArticlesTo(lines, id, f, n) = { Article(lines[j]) : j \in A }
  BY Zenon DEF ArticlesTo
<1> HIDE DEF A, B
<1>5. ArticlesTo(lines, id, f, n) = { Article(lines[i]) : i \in B }
  BY <1>3, <1>4
<1>6. QED
  BY <1>5 DEF B, n

\* The orders that are opened, those that are there.
LEMMA OrdersAreOpened ==
    ASSUME NEW lines, IsList(lines), NEW orders, IsList(orders),
           OrdersTold(orders, lines, Len(lines), Len(lines))
    PROVE  { o.id : o \in ToSet(orders) } = { lines[i].order : i \in { j \in DOMAIN lines : Opens(lines, j) } }
<1> DEFINE ids == { lines[i].order : i \in { j \in DOMAIN lines : Opens(lines, j) } }
<1>1. \A i \in DOMAIN lines : i <= Len(lines)
  <2> DEFINE n == Len(lines)
  <2>1. DOMAIN lines = 1 .. n /\ n \in Nat
    BY ListFacts
  <2> HIDE DEF n
  <2>2. \A i \in DOMAIN lines : i <= n
    BY <2>1
  <2>3. QED
    BY <2>2 DEF n
<1>2. ASSUME NEW o \in ToSet(orders) PROVE o.id \in ids
  <2>1. PICK k \in DOMAIN orders : o = orders[k]
    BY DEF ToSet
  <2>2. PICK f \in DOMAIN lines : FirstOf(lines, o.id, f)
    BY <2>1 DEF OrdersTold, OrderTold
  <2>3. QED
    BY <2>2 DEF FirstOf
<1>3. ASSUME NEW i \in DOMAIN lines, Opens(lines, i)
      PROVE  \E o \in ToSet(orders) : o.id = lines[i].order
  <2>1. PICK k \in DOMAIN orders : orders[k].id = lines[i].order
    BY <1>1, <1>3 DEF OrdersTold, HasOrder
  <2>2. orders[k] \in ToSet(orders)
    BY DEF ToSet
  <2>3. QED
    BY <2>1, <2>2
<1>4. QED
  BY <1>2, <1>3

\* Once the files are read, the orders are what the property says.
LEMMA FilesTell ==
    ASSUME ReadInv, OrdersInv
    PROVE  OrdersAreTheFiles
<1> DEFINE lines == export.shopify_orders
           n == Len(lines)
           orders == book.orders
           ids == { lines[i].order : i \in { j \in DOMAIN lines : Opens(lines, j) } }
           First(id) == Min({ i \in DOMAIN lines : lines[i].order = id /\ Opens(lines, i) })
           Articles(id) == { Article(lines[i]) : i \in { j \in DOMAIN lines :
                                j >= First(id) /\ lines[j].order = id /\ OrZero(lines[j].quantity) > 0 } }
<1>1. SUFFICES ASSUME stage \notin {"reading", "rejected"}
               PROVE  /\ Len(orders) = Cardinality(ids)
                      /\ { o.id : o \in ToSet(orders) } = ids
                      /\ \A o \in ToSet(orders) :
                           /\ o.subtotal = OrZero(lines[First(o.id)].subtotal)
                           /\ ToSet(o.items) = Articles(o.id)
                           /\ Len(o.items) = Cardinality(Articles(o.id))
  BY Zenon DEF OrdersAreTheFiles, Opens, Column, Dates
<1>2. OrdersTold(orders, lines, n, n) /\ IsList(lines)
  <2>1. source = 5
    BY <1>1 DEF OrdersInv
  <2>2. lines # None /\ OrdersTold(orders, lines, n, n)
    BY <1>1, <2>1 DEF OrdersInv
  <2>3. QED
    BY <2>2, OrderLinesAreAList DEF ReadInv
<1>3. /\ IsList(orders)
      /\ \A k \in DOMAIN orders : IsList(orders[k].items)
      /\ \A k, l \in DOMAIN orders : k # l => orders[k].id # orders[l].id
  BY DEF ReadInv, BookKept, OrdersKept
<1> HIDE DEF orders, lines, n
<1>4. { o.id : o \in ToSet(orders) } = ids
  BY <1>2, <1>3, OrdersAreOpened DEF n
<1>5. Len(orders) = Cardinality(ids)
  <2> DEFINE m == Len(orders)
             s == [k \in 1 .. m |-> orders[k].id]
  <2>1. m \in Nat /\ DOMAIN orders = 1 .. m /\ ToSet(orders) = { orders[k] : k \in 1 .. m }
    BY <1>3, ListFacts DEF ToSet
  <2> HIDE DEF m, ids
  <2>2. /\ \A k \in 1 .. m : s[k] \in ids
        /\ \A x \in ids : \E k \in 1 .. m : s[k] = x
        /\ \A k, l \in 1 .. m : k # l => s[k] # s[l]
    BY <1>3, <1>4, <2>1
  <2> HIDE DEF s
  <2>3. Cardinality(ids) = m
    <3>1. m \in Nat
      BY <2>1
    <3>2. QED
      BY <2>2, <3>1, DistinctAreCounted, Zenon
  <2>4. QED
    BY <2>3 DEF m
<1>6. ASSUME NEW o \in ToSet(orders)
      PROVE  /\ o.subtotal = OrZero(lines[First(o.id)].subtotal)
             /\ ToSet(o.items) = Articles(o.id)
             /\ Len(o.items) = Cardinality(Articles(o.id))
  <2>1. PICK k \in DOMAIN orders : o = orders[k]
    BY DEF ToSet
  <2>2. PICK f \in DOMAIN lines :
        /\ FirstOf(lines, o.id, f)
        /\ o.subtotal = OrZero(lines[f].subtotal)
        /\ ToSet(o.items) = ArticlesTo(lines, o.id, f, n)
        /\ \A p, q \in DOMAIN o.items : p # q => o.items[p] # o.items[q]
    BY <1>2, <2>1 DEF OrdersTold, OrderTold
  <2>3. First(o.id) = f
    BY <1>2, <2>2, FirstIsLeast
  <2> HIDE DEF First
  <2>4. ToSet(o.items) = Articles(o.id)
    BY <1>2, <2>2, <2>3, ArticlesOfAll DEF n
  <2> HIDE DEF Articles
  <2>5. Len(o.items) = Cardinality(Articles(o.id))
    <3> DEFINE m == Len(o.items)
               S == Articles(o.id)
    <3>1. IsList(o.items)
      BY <1>3, <2>1
    <3>2. m \in Nat /\ DOMAIN o.items = 1 .. m /\ ToSet(o.items) = { o.items[p] : p \in 1 .. m }
      BY <3>1, ListFacts DEF ToSet
    <3>3. ToSet(o.items) = S
      BY <2>4
    <3> HIDE DEF m, S
    <3>4. /\ \A p \in 1 .. m : o.items[p] \in S
          /\ \A x \in S : \E p \in 1 .. m : o.items[p] = x
          /\ \A p, q \in 1 .. m : p # q => o.items[p] # o.items[q]
      BY <2>2, <3>2, <3>3
    <3>5. Cardinality(S) = m
      <4>1. m \in Nat
        BY <3>2
      <4>2. QED
        BY <3>4, <4>1, DistinctAreCounted, Zenon
    <3>6. QED
      BY <3>5 DEF m, S
  <2>6. QED
    BY <2>2, <2>3, <2>4, <2>5
<1>7. QED
  BY <1>4, <1>5, <1>6

\* Reading the file of the orders line by line gives what the file says as a whole
\* (ingestion/shopify.py load_shopify_orders): of any files, each order that a line with a readable
\* date names is there once, with the subtotal of the first such line, and its articles are the
\* distinct ones of the lines from there on.
THEOREM Files == Spec => []OrdersAreTheFiles
<1>1. Init => OrdersInv
  BY DEF Init, ReadInit, OrdersInv, EmptyBook
<1>2. ReadInv /\ OrdersInv /\ [Next]_engineVars => OrdersInv'
  <2>1. ReadInv /\ OrdersInv /\ Next => OrdersInv'
    BY OrdersStep
  <2>2. OrdersInv /\ UNCHANGED engineVars => OrdersInv'
    BY DEF OrdersInv, engineVars
  <2>3. QED
    BY <2>1, <2>2
<1>3. ReadInv /\ OrdersInv => OrdersAreTheFiles
  BY FilesTell
<1>4. QED
  BY <1>1, <1>2, <1>3, BookOnce, PTL DEF Spec

-----------------------------------------------------------------------------
(* Lists of any length *)

\* The least number of a set of them.
LEMMA Least ==
    ASSUME NEW T, T \subseteq Nat, T # {}
    PROVE  \E x \in T : \A y \in T : x <= y
<1> DEFINE R == OpToRel(<, Nat)
<1>1. IsWellFoundedOn(R, Nat)
  BY NatLessThanWellFounded, Zenon
<1>2. ASSUME NEW x \in Nat, NEW y \in Nat, y < x PROVE << y, x >> \in R
  BY <1>2 DEF OpToRel
<1> HIDE DEF R
<1>3. PICK x \in T : \A y \in T : ~(<< y, x >> \in R)
  BY <1>1, WFMin
<1>4. ASSUME NEW y \in T PROVE x <= y
  <2>1. x \in Nat /\ y \in Nat
    OBVIOUS
  <2>2. ~(y < x)
    BY <1>2, <1>3, <2>1, Zenon
  <2>3. QED
    BY <2>1, <2>2
<1>5. QED
  BY <1>4

\* What holds of 0, and of a number after another, holds of all.
LEMMA SetInduction ==
    ASSUME NEW S, 0 \in S, \A n \in Nat : n \in S => n + 1 \in S
    PROVE  \A n \in Nat : n \in S
<1> SUFFICES ASSUME {n \in Nat : n \notin S} # {} PROVE FALSE
  OBVIOUS
<1> DEFINE T == {n \in Nat : n \notin S}
<1>1. T \subseteq Nat /\ T # {}
  OBVIOUS
<1> HIDE DEF T
<1>2. PICK x \in T : \A y \in T : x <= y
  BY <1>1, Least
<1>3. x \in Nat /\ x \notin S /\ x # 0
  BY <1>2 DEF T
<1>4. x - 1 \in Nat /\ x - 1 \notin T
  BY <1>2, <1>3
<1>5. x - 1 \in S /\ (x - 1) + 1 = x
  BY <1>3, <1>4 DEF T
<1>6. QED
  BY <1>3, <1>4, <1>5

\* A first value and a step that stay among some values; a function that they make.
Steps(V, first, n, step) == n \in Nat /\ first \in V /\ \A v \in V : \A k \in 1 .. n : step[<<v, k>>] \in V
Follows(V, first, n, step) ==
    \E f \in [0 .. n -> V] : f[0] = first /\ \A k \in 1 .. n : f[k] = step[<<f[k - 1], k>>]

\* A function may be defined by its first value and by the step from one to the next.
LEMMA Recursion ==
    ASSUME NEW V, NEW v0, NEW N, NEW step, Steps(V, v0, N, step)
    PROVE  Follows(V, v0, N, step)
<1> USE DEF Steps
<1> DEFINE Defined(n, f) == f[0] = v0 /\ \A k \in 1 .. n : f[k] = step[<<f[k - 1], k>>]
           S == {n \in Nat : n <= N => \E f \in [0 .. n -> V] : Defined(n, f)}
<1>1. 0 \in S
  <2>1. [k \in 0 .. 0 |-> v0] \in [0 .. 0 -> V] /\ Defined(0, [k \in 0 .. 0 |-> v0])
    OBVIOUS
  <2>2. QED
    BY <2>1
<1>2. ASSUME NEW n \in Nat, n \in S PROVE n + 1 \in S
  <2> SUFFICES ASSUME n + 1 <= N PROVE \E f \in [0 .. n + 1 -> V] : Defined(n + 1, f)
    OBVIOUS
  <2>1. PICK f \in [0 .. n -> V] : Defined(n, f)
    BY <1>2
  <2> DEFINE g == [k \in 0 .. n + 1 |-> IF k = n + 1 THEN step[<<f[n], n + 1>>] ELSE f[k]]
  <2>2. f[n] \in V /\ n + 1 \in 1 .. N /\ step[<<f[n], n + 1>>] \in V
    OBVIOUS
  <2>3. g \in [0 .. n + 1 -> V]
    BY <2>2
  <2>4. g[0] = v0 /\ g[n + 1] = step[<<f[n], n + 1>>] /\ g[n] = f[n]
    BY <2>1
  <2>5. ASSUME NEW k \in 1 .. n + 1 PROVE g[k] = step[<<g[k - 1], k>>]
    <3>1. CASE k = n + 1
      <4>1. k - 1 = n
        BY <3>1
      <4>2. QED
        BY <2>4, <3>1, <4>1
    <3>2. CASE k # n + 1
      <4>1. k \in 1 .. n /\ k - 1 \in 0 .. n /\ k - 1 # n + 1
        BY <3>2
      <4>2. f[k] = step[<<f[k - 1], k>>] /\ g[k] = f[k] /\ g[k - 1] = f[k - 1]
        BY <2>1, <4>1
      <4>3. QED
        BY <4>2
    <3>3. QED
      BY <3>1, <3>2
  <2> HIDE DEF g
  <2>6. QED
    BY <2>3, <2>4, <2>5
<1>3. N \in S
  <2> HIDE DEF S
  <2>1. QED
    BY <1>1, <1>2, SetInduction
<1>4. QED
  BY <1>3 DEF Follows

\* A list of some elements.
LEMMA SeqIsList ==
    ASSUME NEW S, NEW s \in Seq(S)
    PROVE  IsList(s)
<1>1. Len(s) \in Nat /\ DOMAIN s = 1 .. Len(s) /\ s = [i \in 1 .. Len(s) |-> s[i]]
  OBVIOUS
<1>2. QED
  BY <1>1, FunctionIsList

-----------------------------------------------------------------------------
\* The loop that picks elements.
LEMMA PickedSteps ==
    ASSUME NEW list, IsList(list), NEW places
    PROVE  \E u \in [0 .. Len(list) -> Seq(ToSet(list))] :
              /\ u[0] = << >>
              /\ \A n \in 1 .. Len(list) :
                    u[n] = IF n \in places THEN Append(u[n - 1], list[n]) ELSE u[n - 1]
              /\ Picked(list, places) = u[Len(list)]
<1> DEFINE N == Len(list)
           V == Seq(ToSet(list))
           Step(g, n) == IF n = 0 THEN << >>
                         ELSE IF n \in places THEN Append(g[n - 1], list[n]) ELSE g[n - 1]
           step == [x \in V \X Nat |-> IF x[2] \in places /\ x[2] \in 1 .. N THEN Append(x[1], list[x[2]]) ELSE x[1]]
           u == CHOOSE g : g = [n \in 0 .. N |-> Step(g, n)]
<1>1. N \in Nat /\ \A n \in 1 .. N : list[n] \in ToSet(list)
  BY ListFacts
<1>2. << >> \in V
  OBVIOUS
<1>3. \A v \in V : \A k \in 1 .. N : step[<<v, k>>] \in V
  <2>1. ASSUME NEW v \in V, NEW n \in 1 .. N PROVE Append(v, list[n]) \in V
    BY <1>1
  <2> SUFFICES ASSUME NEW v \in V, NEW k \in 1 .. N PROVE step[<<v, k>>] \in V
    OBVIOUS
  <2>2. << v, k >> \in V \X Nat
    BY <1>1
  <2> HIDE DEF V, N
  <2>3. step[<<v, k>>] = IF k \in places /\ k \in 1 .. N THEN Append(v, list[k]) ELSE v
    BY <2>2
  <2>4. QED
    BY <2>1, <2>3
<1>4. PICK f \in [0 .. N -> V] : f[0] = << >> /\ \A k \in 1 .. N : f[k] = step[<<f[k - 1], k>>]
  <2>1. Steps(V, << >>, N, step)
    BY <1>1, <1>2, <1>3 DEF Steps
  <2> HIDE DEF V, N, step
  <2>2. Follows(V, << >>, N, step)
    BY <2>1, Recursion
  <2>3. QED
    BY <2>2 DEF Follows
<1>5. ASSUME NEW k \in 1 .. N
      PROVE  f[k] = IF k \in places THEN Append(f[k - 1], list[k]) ELSE f[k - 1]
  <2>1. f[k - 1] \in V /\ k \in Nat
    BY <1>1
  <2>2. f[k] = step[<<f[k - 1], k>>]
    BY <1>4
  <2>3. step[<<f[k - 1], k>>] = IF k \in places /\ k \in 1 .. N THEN Append(f[k - 1], list[k]) ELSE f[k - 1]
    <3> HIDE DEF V, N
    <3>1. <<f[k - 1], k>> \in V \X Nat
      BY <2>1
    <3>2. QED
      BY <3>1
  <2>4. QED
    BY <2>2, <2>3
<1>6. f = [n \in 0 .. N |-> Step(f, n)]
  <2>1. ASSUME NEW n \in 0 .. N PROVE f[n] = Step(f, n)
    <3>1. CASE n = 0
      BY <1>4, <3>1
    <3>2. CASE n # 0
      <4>1. n \in 1 .. N
        BY <1>1, <3>2
      <4>2. f[n] = IF n \in places THEN Append(f[n - 1], list[n]) ELSE f[n - 1]
        BY <1>5, <4>1
      <4>3. QED
        BY <4>2, <3>2
    <3>3. QED
      BY <3>1, <3>2
  <2> HIDE DEF Step, V
  <2>2. QED
    BY <2>1
<1>7. u = [n \in 0 .. N |-> Step(u, n)]
  <2> HIDE DEF Step, N
  <2>1. QED
    BY <1>6
<1>8. ASSUME NEW n \in 0 .. N PROVE u[n] = Step(u, n)
  <2> HIDE DEF Step, u, N
  <2>1. QED
    BY <1>7
<1>9. Picked(list, places) = u[N]
  BY DEF Picked
<1> HIDE DEF u
<1>10. \A n \in 0 .. N : u[n] \in V
  <2> DEFINE S == {n \in Nat : n \in 0 .. N => u[n] \in V}
  <2>1. 0 \in S
    BY <1>1, <1>2, <1>8
  <2>2. ASSUME NEW n \in Nat, n \in S PROVE n + 1 \in S
    <3>1. SUFFICES ASSUME n + 1 \in 0 .. N PROVE u[n + 1] \in V
      BY <2>2
    <3>2. n \in 0 .. N /\ n + 1 \in 1 .. N /\ (n + 1) - 1 = n /\ n + 1 # 0
      BY <1>1, <3>1
    <3>3. u[n] \in V /\ list[n + 1] \in ToSet(list)
      BY <1>1, <2>2, <3>2
    <3>4. u[n + 1] = IF n + 1 \in places THEN Append(u[n], list[n + 1]) ELSE u[n]
      BY <1>8, <3>1, <3>2
    <3>5. Append(u[n], list[n + 1]) \in V
      BY <3>3
    <3>6. QED
      BY <3>3, <3>4, <3>5
  <2>3. \A n \in Nat : n \in S
    <3> HIDE DEF S
    <3>1. QED
      BY <2>1, <2>2, SetInduction
  <2>4. QED
    BY <1>1, <2>3
<1>11. u \in [0 .. N -> V]
  <2> HIDE DEF V, N, Step
  <2>1. QED
    BY <1>7, <1>10
<1>12. u[0] = << >>
  BY <1>1, <1>8
<1>13. \A n \in 1 .. N : u[n] = IF n \in places THEN Append(u[n - 1], list[n]) ELSE u[n - 1]
  BY <1>1, <1>8
<1>14. QED
  BY <1>9, <1>11, <1>12, <1>13

\* What was picked is at these places of the list, in their order.
PlacedBy(at, picked, list, places) ==
    /\ at \in [1 .. Len(picked) -> places]
    /\ \A i, j \in 1 .. Len(picked) : i < j => at[i] < at[j]
    /\ \A k \in places : \E i \in 1 .. Len(picked) : at[i] = k
    /\ \A i \in 1 .. Len(picked) : picked[i] = list[at[i]]

\* One more place.
LEMMA PlacedStep ==
    ASSUME NEW list, IsList(list), NEW places, NEW n \in Nat, n + 1 \in 1 .. Len(list),
           NEW p \in Seq(ToSet(list)), NEW at, PlacedBy(at, p, list, places \cap (1 .. n)), n + 1 \in places
    PROVE  \E a : PlacedBy(a, Append(p, list[n + 1]), list, places \cap (1 .. n + 1))
<1> DEFINE L == Len(p)
           q == Append(p, list[n + 1])
           a == [i \in 1 .. L + 1 |-> IF i = L + 1 THEN n + 1 ELSE at[i]]
           here == places \cap (1 .. n)
           next == places \cap (1 .. n + 1)
<1>1. L \in Nat /\ Len(q) = L + 1 /\ list[n + 1] \in ToSet(list)
  BY ListFacts
<1>2. at \in [1 .. L -> here] /\ (\A i, j \in 1 .. L : i < j => at[i] < at[j])
      /\ (\A k \in here : \E i \in 1 .. L : at[i] = k) /\ (\A i \in 1 .. L : p[i] = list[at[i]])
  BY DEF PlacedBy
<1>3. \A i \in 1 .. L : q[i] = p[i] /\ i \in 1 .. L + 1 /\ i # L + 1
  BY <1>1
<1>4. q[L + 1] = list[n + 1] /\ L + 1 \in 1 .. L + 1
  BY <1>1
<1>5. \A i \in 1 .. L : a[i] = at[i] /\ at[i] \in here
  BY <1>2, <1>3
<1>6. a[L + 1] = n + 1
  BY <1>4
<1>7. \A k \in here : k \in next /\ k \in Nat /\ k <= n
  OBVIOUS
<1>8. n + 1 \in next
  OBVIOUS
<1>9. \A i \in 1 .. L + 1 : i = L + 1 \/ i \in 1 .. L
  BY <1>1
<1> HIDE DEF here, q, L
<1>10. \A i \in 1 .. L + 1 : a[i] \in next
  <2> HIDE DEF a, next
  <2>1. QED
    BY <1>5, <1>6, <1>7, <1>8, <1>9
<1>11. a \in [1 .. L + 1 -> next]
  <2> HIDE DEF next
  <2>1. QED
    BY <1>10
<1> HIDE DEF a
<1>12. ASSUME NEW i \in 1 .. L + 1, NEW j \in 1 .. L + 1, i < j PROVE a[i] < a[j]
  <2>1. i \in 1 .. L
    BY <1>1, <1>12, <1>9
  <2>2. CASE j \in 1 .. L
    BY <1>2, <1>5, <1>12, <2>1, <2>2
  <2>3. CASE j = L + 1
    BY <1>5, <1>6, <1>7, <2>1, <2>3
  <2>4. QED
    BY <1>9, <2>2, <2>3
<1>13. \A k \in next : k \in here \/ k = n + 1
  BY DEF next, here
<1>14. ASSUME NEW k \in next PROVE \E i \in 1 .. L + 1 : a[i] = k
  BY <1>2, <1>3, <1>4, <1>5, <1>6, <1>13
<1>15. \A i \in 1 .. L + 1 : q[i] = list[a[i]]
  BY <1>2, <1>3, <1>4, <1>5, <1>6, <1>9
<1>16. PlacedBy(a, q, list, next)
  BY <1>1, <1>11, <1>12, <1>14, <1>15 DEF PlacedBy
<1>17. QED
  BY <1>16 DEF q, next

\* What is picked from a list: its elements at these places, in their order.
LEMMA PickedFacts ==
    ASSUME NEW list, IsList(list), NEW places, places \subseteq DOMAIN list
    PROVE  /\ Picked(list, places) \in Seq(ToSet(list))
           /\ \E at : PlacedBy(at, Picked(list, places), list, places)
<1> DEFINE N == Len(list)
<1>1. PICK u \in [0 .. N -> Seq(ToSet(list))] :
              /\ u[0] = << >>
              /\ \A n \in 1 .. N : u[n] = IF n \in places THEN Append(u[n - 1], list[n]) ELSE u[n - 1]
              /\ Picked(list, places) = u[N]
  BY PickedSteps
<1>2. N \in Nat /\ DOMAIN list = 1 .. N
  BY ListFacts
<1> DEFINE PutBy(n) == \E at : PlacedBy(at, u[n], list, places \cap (1 .. n))
           S == {n \in Nat : n <= N => PutBy(n)}
<1>3. 0 \in S
  <2>1. u[0] = << >> /\ Len(u[0]) = 0 /\ 1 .. 0 = {}
    BY <1>1
  <2>2. PlacedBy(<< >>, u[0], list, places \cap (1 .. 0))
    BY <2>1 DEF PlacedBy
  <2>3. QED
    BY <2>2
<1>4. ASSUME NEW n \in Nat, n + 1 <= N, PutBy(n) PROVE PutBy(n + 1)
  <2>1. n + 1 \in 1 .. N /\ n \in 0 .. N /\ (n + 1) - 1 = n
    BY <1>2, <1>4
  <2>2. PICK at : PlacedBy(at, u[n], list, places \cap (1 .. n))
    BY <1>4
  <2>3. u[n] \in Seq(ToSet(list))
    BY <2>1
  <2>4. u[n + 1] = IF n + 1 \in places THEN Append(u[n], list[n + 1]) ELSE u[n]
    BY <1>1, <2>1
  <2>5. CASE n + 1 \in places
    <3>1. u[n + 1] = Append(u[n], list[n + 1])
      BY <2>4, <2>5
    <3>2. \E a : PlacedBy(a, Append(u[n], list[n + 1]), list, places \cap (1 .. n + 1))
      BY <2>1, <2>2, <2>3, <2>5, PlacedStep
    <3>3. QED
      BY <3>1, <3>2
  <2>6. CASE n + 1 \notin places
    <3>1. places \cap (1 .. n + 1) = places \cap (1 .. n)
      BY <2>6
    <3>2. QED
      BY <2>2, <2>4, <2>6, <3>1
  <2>7. QED
    BY <2>5, <2>6
<1>5. PutBy(N)
  <2> HIDE DEF PutBy
  <2>1. \A n \in Nat : n \in S => n + 1 \in S
    BY <1>2, <1>4
  <2> HIDE DEF S
  <2>2. \A n \in Nat : n \in S
    BY <1>3, <2>1, SetInduction
  <2>3. QED
    BY <1>2, <2>2 DEF S
<1>6. places \cap (1 .. N) = places
  BY <1>2
<1>7. \E at : PlacedBy(at, u[N], list, places)
  BY <1>5, <1>6
<1>8. u[N] \in Seq(ToSet(list))
  BY <1>2
<1>9. QED
  BY <1>1, <1>7, <1>8

\* The elements picked, and how many they are.
LEMMA PickedElements ==
    ASSUME NEW list, IsList(list), NEW places, places \subseteq DOMAIN list
    PROVE  /\ IsList(Picked(list, places))
           /\ \A k \in places : list[k] \in ToSet(Picked(list, places))
           /\ \A i \in DOMAIN Picked(list, places) : \E k \in places : Picked(list, places)[i] = list[k]
           /\ IsFiniteSet(places) /\ Len(Picked(list, places)) = Cardinality(places)
<1> DEFINE p == Picked(list, places)
           L == Len(p)
<1>1. p \in Seq(ToSet(list)) /\ \E at : PlacedBy(at, p, list, places)
  BY PickedFacts
<1>2. IsList(p)
  BY <1>1, SeqIsList
<1>3. L \in Nat /\ DOMAIN p = 1 .. L
  BY <1>2, ListFacts
<1>4. PICK at : PlacedBy(at, p, list, places)
  BY <1>1
<1> HIDE DEF p
<1>5. at \in [1 .. L -> places] /\ (\A i, j \in 1 .. L : i < j => at[i] < at[j])
      /\ (\A k \in places : \E i \in 1 .. L : at[i] = k) /\ (\A i \in 1 .. L : p[i] = list[at[i]])
  BY <1>4 DEF PlacedBy
<1>6. places \subseteq Nat
  BY ListFacts
<1>7. ASSUME NEW k \in places PROVE list[k] \in ToSet(p)
  BY <1>3, <1>5 DEF ToSet
<1>8. ASSUME NEW i \in DOMAIN p PROVE \E k \in places : p[i] = list[k]
  BY <1>3, <1>5
<1> HIDE DEF L
<1>9. \A i, j \in 1 .. L : at[i] = at[j] => i = j
  <2> SUFFICES ASSUME NEW i \in 1 .. L, NEW j \in 1 .. L, at[i] = at[j], i # j PROVE FALSE
    OBVIOUS
  <2>1. i < j \/ j < i
    BY <1>3
  <2>2. at[i] \in Nat /\ at[j] \in Nat
    BY <1>5, <1>6
  <2>3. QED
    BY <1>5, <2>1, <2>2
<1>10. IsFiniteSet(1 .. L) /\ Cardinality(1 .. L) = L
  <2>1. IsFiniteSet(1 .. L) /\ Cardinality(1 .. L) = IF 1 > L THEN 0 ELSE L - 1 + 1
    BY <1>3, FS_Interval
  <2>2. (IF 1 > L THEN 0 ELSE L - 1 + 1) = L
    BY <1>3
  <2>3. QED
    BY <2>1, <2>2
<1>11. at \in Bijection(1 .. L, places)
  BY <1>5, <1>9 DEF Bijection, Injection, Surjection, IsInjective
<1>12. ExistsBijection(1 .. L, places)
  BY <1>11 DEF ExistsBijection
<1>13. IsFiniteSet(places) /\ Cardinality(places) = Cardinality(1 .. L)
  BY <1>10, <1>12, FS_Bijection
<1>14. QED
  BY <1>2, <1>7, <1>8, <1>10, <1>13 DEF p, L

\* Each place of the lists that were joined, once: its list, and its place in that list.
JoinedBy(row, col, joined, lists, n) ==
    /\ DOMAIN row = 1 .. Len(joined) /\ DOMAIN col = 1 .. Len(joined)
    /\ \A i \in 1 .. Len(joined) : /\ row[i] \in 1 .. n /\ col[i] \in 1 .. Len(lists[row[i]])
                                   /\ joined[i] = lists[row[i]][col[i]]
    /\ \A i, j \in 1 .. Len(joined) : row[i] = row[j] /\ col[i] = col[j] => i = j
    /\ \A c \in 1 .. n : \A k \in 1 .. Len(lists[c]) : \E i \in 1 .. Len(joined) : row[i] = c /\ col[i] = k

\* One more list.
LEMMA JoinedStep ==
    ASSUME NEW lists, NEW n \in Nat, NEW V, NEW p \in Seq(V), NEW q \in Seq(V), lists[n + 1] = q,
           NEW row, NEW col, JoinedBy(row, col, p, lists, n)
    PROVE  \E r, c : JoinedBy(r, c, p \o q, lists, n + 1)
<1> DEFINE L == Len(p)
           K == Len(q)
           s == p \o q
           r == [i \in 1 .. L + K |-> IF i <= L THEN row[i] ELSE n + 1]
           c == [i \in 1 .. L + K |-> IF i <= L THEN col[i] ELSE i - L]
<1>1. L \in Nat /\ K \in Nat /\ Len(s) = L + K
  OBVIOUS
<1>2. \A i \in 1 .. L : s[i] = p[i] /\ i \in 1 .. L + K /\ i <= L
  OBVIOUS
<1>3. \A k \in 1 .. K : s[L + k] = q[k] /\ L + k \in 1 .. L + K /\ ~(L + k <= L) /\ (L + k) - L = k
  OBVIOUS
<1>4. \A i \in 1 .. L + K : i \in 1 .. L \/ (i - L \in 1 .. K /\ L + (i - L) = i /\ i \notin 1 .. L)
  BY <1>1
<1>5. /\ \A i \in 1 .. L : row[i] \in 1 .. n /\ col[i] \in 1 .. Len(lists[row[i]]) /\ p[i] = lists[row[i]][col[i]]
      /\ \A i, j \in 1 .. L : row[i] = row[j] /\ col[i] = col[j] => i = j
      /\ \A d \in 1 .. n : \A k \in 1 .. Len(lists[d]) : \E i \in 1 .. L : row[i] = d /\ col[i] = k
  BY DEF JoinedBy
<1>6. \A i \in 1 .. L : r[i] = row[i] /\ c[i] = col[i]
  BY <1>2
<1>7. \A k \in 1 .. K : r[L + k] = n + 1 /\ c[L + k] = k
  BY <1>3
<1>8. DOMAIN r = 1 .. L + K /\ DOMAIN c = 1 .. L + K
  OBVIOUS
<1>9. \A i \in 1 .. n : i \in 1 .. n + 1 /\ i # n + 1
  OBVIOUS
<1>10. n + 1 \in 1 .. n + 1 /\ \A i \in 1 .. n + 1 : i = n + 1 \/ i \in 1 .. n
  OBVIOUS
<1> HIDE DEF r, c, s, L, K
<1>11. ASSUME NEW i \in 1 .. L + K
       PROVE  r[i] \in 1 .. n + 1 /\ c[i] \in 1 .. Len(lists[r[i]]) /\ s[i] = lists[r[i]][c[i]]
  <2>1. CASE i \in 1 .. L
    BY <1>2, <1>5, <1>6, <1>9, <2>1
  <2>2. CASE i \notin 1 .. L
    <3>1. PICK k \in 1 .. K : i = L + k
      BY <1>4, <2>2
    <3>2. lists[r[i]] = q /\ c[i] = k /\ r[i] = n + 1
      BY <1>7, <3>1
    <3>3. QED
      BY <1>3, <1>10, <3>1, <3>2 DEF K
  <2>3. QED
    BY <2>1, <2>2
<1>12. ASSUME NEW i \in 1 .. L + K, NEW j \in 1 .. L + K, r[i] = r[j], c[i] = c[j]
       PROVE  i = j
  <2>1. \A x \in 1 .. L + K : x \in 1 .. L \/ r[x] = n + 1
    <3> TAKE x \in 1 .. L + K
    <3>1. CASE x \notin 1 .. L
      <4>1. PICK k \in 1 .. K : x = L + k
        BY <1>4, <3>1
      <4>2. QED
        BY <1>7, <4>1
    <3>2. QED
      BY <3>1
  <2>2. CASE i \in 1 .. L
    <3>1. r[i] # n + 1
      BY <1>5, <1>6, <1>9, <2>2
    <3>2. j \in 1 .. L
      BY <1>12, <2>1, <3>1
    <3>3. QED
      BY <1>5, <1>6, <1>12, <2>2, <3>2
  <2>3. CASE i \notin 1 .. L
    <3>1. r[i] = n + 1
      BY <2>1, <2>3
    <3>2. j \notin 1 .. L
      BY <1>5, <1>6, <1>9, <1>12, <3>1
    <3>3. PICK k \in 1 .. K : i = L + k
      BY <1>4, <2>3
    <3>4. PICK l \in 1 .. K : j = L + l
      BY <1>4, <3>2
    <3>5. c[i] = k /\ c[j] = l
      BY <1>7, <3>3, <3>4
    <3>6. QED
      BY <1>12, <3>3, <3>4, <3>5
  <2>4. QED
    BY <2>2, <2>3
<1>13. ASSUME NEW d \in 1 .. n + 1, NEW k \in 1 .. Len(lists[d])
       PROVE  \E i \in 1 .. L + K : r[i] = d /\ c[i] = k
  <2>1. CASE d \in 1 .. n
    <3>1. PICK i \in 1 .. L : row[i] = d /\ col[i] = k
      BY <1>5, <2>1
    <3>2. QED
      BY <1>2, <1>6, <3>1
  <2>2. CASE d = n + 1
    <3>1. k \in 1 .. K
      BY <2>2 DEF K
    <3>2. QED
      BY <1>3, <1>7, <2>2, <3>1
  <2>3. QED
    BY <1>10, <2>1, <2>2
<1>14. JoinedBy(r, c, s, lists, n + 1)
  <2> DEFINE T == 1 .. Len(s)
  <2>1. T = 1 .. L + K
    BY <1>1
  <2> HIDE DEF T
  <2>2. DOMAIN r = T /\ DOMAIN c = T
    BY <1>8, <2>1
  <2>3. \A i \in T : r[i] \in 1 .. n + 1 /\ c[i] \in 1 .. Len(lists[r[i]]) /\ s[i] = lists[r[i]][c[i]]
    BY <1>11, <2>1, Zenon
  <2>4. \A i, j \in T : r[i] = r[j] /\ c[i] = c[j] => i = j
    BY <1>12, <2>1, Zenon
  <2>5. \A d \in 1 .. n + 1 : \A k \in 1 .. Len(lists[d]) : \E i \in T : r[i] = d /\ c[i] = k
    BY <1>13, <2>1, Zenon
  <2>6. QED
    BY <2>2, <2>3, <2>4, <2>5, Zenon DEF JoinedBy, T
<1>15. QED
  BY <1>14 DEF s

\* The loop that joins lists.
LEMMA JoinedSteps ==
    ASSUME NEW V, NEW lists, IsList(lists), \A c \in DOMAIN lists : lists[c] \in Seq(V)
    PROVE  \E u \in [0 .. Len(lists) -> Seq(V)] :
              /\ u[0] = << >>
              /\ \A n \in 1 .. Len(lists) : u[n] = u[n - 1] \o lists[n]
              /\ Joined(lists) = u[Len(lists)]
<1> DEFINE N == Len(lists)
           W == Seq(V)
           Step(g, n) == IF n = 0 THEN << >> ELSE g[n - 1] \o lists[n]
           step == [x \in W \X Nat |-> IF x[2] \in 1 .. N THEN x[1] \o lists[x[2]] ELSE x[1]]
           u == CHOOSE g : g = [n \in 0 .. N |-> Step(g, n)]
<1>1. N \in Nat /\ \A n \in 1 .. N : lists[n] \in W
  BY ListFacts
<1>2. << >> \in W
  OBVIOUS
<1>3. \A v \in W : \A k \in 1 .. N : step[<<v, k>>] = v \o lists[k] /\ step[<<v, k>>] \in W
  <2> SUFFICES ASSUME NEW v \in W, NEW k \in 1 .. N
               PROVE  step[<<v, k>>] = v \o lists[k] /\ step[<<v, k>>] \in W
    OBVIOUS
  <2>1. v \o lists[k] \in W
    BY <1>1
  <2>2. << v, k >> \in W \X Nat
    BY <1>1
  <2> HIDE DEF W, N
  <2>3. step[<<v, k>>] = v \o lists[k]
    BY <2>2
  <2>4. QED
    BY <2>1, <2>3
<1>4. PICK f \in [0 .. N -> W] : f[0] = << >> /\ \A k \in 1 .. N : f[k] = step[<<f[k - 1], k>>]
  <2>1. Steps(W, << >>, N, step)
    BY <1>1, <1>2, <1>3 DEF Steps
  <2> HIDE DEF W, N, step
  <2>2. Follows(W, << >>, N, step)
    BY <2>1, Recursion
  <2>3. QED
    BY <2>2 DEF Follows
<1> HIDE DEF step
<1>5. ASSUME NEW k \in 1 .. N PROVE f[k] = f[k - 1] \o lists[k] /\ k # 0 /\ k - 1 \in 0 .. N
  <2> HIDE DEF W, N
  <2>1. k # 0 /\ k - 1 \in 0 .. N
    BY <1>1
  <2>2. f[k - 1] \in W
    BY <2>1
  <2>3. f[k] = step[<<f[k - 1], k>>]
    BY <1>4
  <2>4. QED
    BY <1>3, <2>1, <2>2, <2>3
<1>6. f = [n \in 0 .. N |-> Step(f, n)]
  <2>1. ASSUME NEW n \in 0 .. N PROVE f[n] = Step(f, n)
    <3>1. CASE n = 0
      BY <1>4, <3>1
    <3>2. CASE n # 0
      <4>1. n \in 1 .. N
        BY <1>1, <3>2
      <4>2. f[n] = f[n - 1] \o lists[n]
        BY <1>5, <4>1
      <4>3. QED
        BY <4>2, <3>2
    <3>3. QED
      BY <3>1, <3>2
  <2> HIDE DEF Step, W
  <2>2. QED
    BY <2>1
<1>7. u = [n \in 0 .. N |-> Step(u, n)]
  <2> HIDE DEF Step, N
  <2>1. QED
    BY <1>6
<1>8. ASSUME NEW n \in 0 .. N PROVE u[n] = Step(u, n)
  <2> HIDE DEF Step, u, N
  <2>1. QED
    BY <1>7
<1>9. Joined(lists) = u[N]
  BY DEF Joined
<1> HIDE DEF u
<1>10. u[0] = << >> /\ \A n \in 1 .. N : u[n] = u[n - 1] \o lists[n]
  <2>1. u[0] = << >>
    BY <1>1, <1>8
  <2>2. ASSUME NEW n \in 1 .. N PROVE u[n] = u[n - 1] \o lists[n]
    <3>1. n \in 0 .. N /\ n # 0
      BY <1>1
    <3>2. u[n] = Step(u, n)
      BY <1>8, <3>1
    <3>3. QED
      BY <3>1, <3>2
  <2>3. QED
    BY <2>1, <2>2
<1>11. \A n \in 0 .. N : u[n] \in W
  <2> DEFINE S == {n \in Nat : n \in 0 .. N => u[n] \in W}
  <2>1. 0 \in S
    BY <1>1, <1>2, <1>10
  <2>2. ASSUME NEW n \in Nat, n \in S PROVE n + 1 \in S
    <3>1. SUFFICES ASSUME n + 1 \in 0 .. N PROVE u[n + 1] \in W
      BY <2>2
    <3>2. n \in 0 .. N /\ n + 1 \in 1 .. N /\ (n + 1) - 1 = n
      BY <1>1, <3>1
    <3>3. u[n] \in W /\ lists[n + 1] \in W
      BY <1>1, <2>2, <3>2
    <3>4. u[n + 1] = u[n] \o lists[n + 1]
      BY <1>10, <3>2
    <3>5. u[n] \o lists[n + 1] \in W
      BY <3>3
    <3>6. QED
      BY <3>4, <3>5
  <2>3. \A n \in Nat : n \in S
    <3> HIDE DEF S
    <3>1. QED
      BY <2>1, <2>2, SetInduction
  <2>4. QED
    BY <1>1, <2>3
<1>12. u \in [0 .. N -> W]
  <2> HIDE DEF W, N, Step
  <2>1. QED
    BY <1>7, <1>11
<1>13. QED
  BY <1>9, <1>10, <1>12

\* What lists become that are joined: their elements.
LEMMA JoinedFacts ==
    ASSUME NEW V, NEW lists, IsList(lists), \A c \in DOMAIN lists : lists[c] \in Seq(V)
    PROVE  /\ Joined(lists) \in Seq(V) /\ IsList(Joined(lists))
           /\ \A c \in DOMAIN lists : \A k \in DOMAIN lists[c] : lists[c][k] \in ToSet(Joined(lists))
           /\ \A i \in DOMAIN Joined(lists) :
                 \E c \in DOMAIN lists : \E k \in DOMAIN lists[c] : Joined(lists)[i] = lists[c][k]
<1> DEFINE N == Len(lists)
<1>1. PICK u \in [0 .. N -> Seq(V)] :
              /\ u[0] = << >>
              /\ \A n \in 1 .. N : u[n] = u[n - 1] \o lists[n]
              /\ Joined(lists) = u[N]
  BY JoinedSteps
<1>2. N \in Nat /\ DOMAIN lists = 1 .. N
  BY ListFacts
<1> DEFINE By(n) == \E r, c : JoinedBy(r, c, u[n], lists, n)
           S == {n \in Nat : n <= N => By(n)}
<1>3. 0 \in S
  <2>1. u[0] = << >> /\ Len(u[0]) = 0 /\ 1 .. 0 = {}
    BY <1>1
  <2>2. JoinedBy(<< >>, << >>, u[0], lists, 0)
    BY <2>1 DEF JoinedBy
  <2>3. QED
    BY <2>2
<1>4. ASSUME NEW n \in Nat, n + 1 <= N, By(n) PROVE By(n + 1)
  <2>1. n + 1 \in 1 .. N /\ n \in 0 .. N /\ (n + 1) - 1 = n
    BY <1>2, <1>4
  <2>2. PICK r, c : JoinedBy(r, c, u[n], lists, n)
    BY <1>4
  <2>3. u[n] \in Seq(V) /\ lists[n + 1] \in Seq(V)
    BY <1>2, <2>1
  <2>4. u[n + 1] = u[n] \o lists[n + 1]
    BY <1>1, <2>1
  <2>5. \E a, b : JoinedBy(a, b, u[n] \o lists[n + 1], lists, n + 1)
    BY <2>2, <2>3, JoinedStep
  <2>6. QED
    BY <2>4, <2>5
<1>5. By(N)
  <2> HIDE DEF By
  <2>1. \A n \in Nat : n \in S => n + 1 \in S
    BY <1>2, <1>4
  <2> HIDE DEF S
  <2>2. \A n \in Nat : n \in S
    BY <1>3, <2>1, SetInduction
  <2>3. QED
    BY <1>2, <2>2 DEF S
<1> DEFINE j == u[N]
           L == Len(j)
<1>6. j \in Seq(V) /\ Joined(lists) = j
  BY <1>1, <1>2
<1>7. PICK row, col : JoinedBy(row, col, j, lists, N)
  BY <1>5
<1> HIDE DEF j
<1>8. L \in Nat /\ DOMAIN j = 1 .. L
  BY <1>6
<1> HIDE DEF N
<1>9. /\ \A i \in 1 .. L : row[i] \in 1 .. N /\ col[i] \in 1 .. Len(lists[row[i]]) /\ j[i] = lists[row[i]][col[i]]
      /\ \A i, k \in 1 .. L : row[i] = row[k] /\ col[i] = col[k] => i = k
      /\ \A c \in 1 .. N : \A k \in 1 .. Len(lists[c]) : \E i \in 1 .. L : row[i] = c /\ col[i] = k
  BY <1>7 DEF JoinedBy
<1>10. \A c \in 1 .. N : DOMAIN lists[c] = 1 .. Len(lists[c])
  BY <1>2
<1>11. ASSUME NEW c \in DOMAIN lists, NEW k \in DOMAIN lists[c] PROVE lists[c][k] \in ToSet(j)
  <2>1. c \in 1 .. N /\ k \in 1 .. Len(lists[c])
    BY <1>2, <1>10
  <2>2. PICK i \in 1 .. L : row[i] = c /\ col[i] = k
    <3>1. \A m \in 1 .. Len(lists[c]) : \E i \in 1 .. L : row[i] = c /\ col[i] = m
      BY <1>9, <2>1, Zenon
    <3>2. QED
      BY <2>1, <3>1, Zenon
  <2>3. j[i] = lists[c][k] /\ i \in DOMAIN j
    BY <1>8, <1>9, <2>2
  <2>4. QED
    BY <2>3 DEF ToSet
<1>12. ASSUME NEW i \in DOMAIN j PROVE \E c \in DOMAIN lists : \E k \in DOMAIN lists[c] : j[i] = lists[c][k]
  <2>1. i \in 1 .. L
    BY <1>8
  <2>2. row[i] \in DOMAIN lists /\ row[i] \in 1 .. N
    BY <1>2, <1>9, <2>1
  <2>3. col[i] \in DOMAIN lists[row[i]]
    BY <1>9, <1>10, <2>1, <2>2
  <2>4. QED
    BY <1>9, <2>1, <2>2, <2>3
<1>19. IsList(j)
  BY <1>6, SeqIsList
<1>20. QED
  BY <1>6, <1>11, <1>12, <1>19 DEF L

\* One list after another.
LEMMA ConcatFacts ==
    ASSUME NEW s, IsList(s), NEW t, IsList(t)
    PROVE  /\ IsList(s \o t) /\ Len(s \o t) = Len(s) + Len(t) /\ Len(s) \in Nat /\ Len(t) \in Nat
           /\ \A k \in DOMAIN (s \o t) : \/ k \in DOMAIN s /\ (s \o t)[k] = s[k]
                                         \/ k - Len(s) \in DOMAIN t /\ (s \o t)[k] = t[k - Len(s)]
           /\ \A k \in DOMAIN s : s[k] \in ToSet(s \o t)
           /\ \A k \in DOMAIN t : t[k] \in ToSet(s \o t)
<1> DEFINE V == ToSet(s) \cup ToSet(t)
           u == s \o t
<1>1. /\ Len(s) \in Nat /\ DOMAIN s = 1 .. Len(s) /\ Len(t) \in Nat /\ DOMAIN t = 1 .. Len(t)
  BY ListFacts
<1>2. s \in Seq(V) /\ t \in Seq(V)
  <2>1. s \in Seq(ToSet(s)) /\ t \in Seq(ToSet(t))
    BY ListFacts
  <2> DEFINE A == ToSet(s)
             B == ToSet(t)
  <2> HIDE DEF A, B
  <2>2. A \subseteq A \cup B /\ B \subseteq A \cup B
    OBVIOUS
  <2>3. s \in Seq(A \cup B) /\ t \in Seq(A \cup B)
    BY <2>1, <2>2 DEF A, B
  <2>4. QED
    BY <2>3 DEF A, B
<1> HIDE DEF V
<1>3. u \in Seq(V) /\ Len(u) = Len(s) + Len(t) /\ DOMAIN u = 1 .. Len(s) + Len(t)
  BY <1>2
<1>4. \A k \in 1 .. Len(s) : u[k] = s[k] /\ k \in DOMAIN u
  BY <1>1, <1>2, <1>3
<1>5. \A k \in 1 .. Len(t) : u[Len(s) + k] = t[k] /\ Len(s) + k \in DOMAIN u
  BY <1>1, <1>2, <1>3
<1>6. IsList(u)
  BY <1>3, SeqIsList
<1> HIDE DEF u
<1>7. ASSUME NEW k \in DOMAIN u
      PROVE  (k \in DOMAIN s /\ u[k] = s[k]) \/ (k - Len(s) \in DOMAIN t /\ u[k] = t[k - Len(s)])
  <2>1. CASE k <= Len(s)
    BY <1>1, <1>3, <1>4, <2>1
  <2>2. CASE ~(k <= Len(s))
    <3>1. k - Len(s) \in 1 .. Len(t) /\ Len(s) + (k - Len(s)) = k
      BY <1>1, <1>3, <2>2
    <3>2. QED
      BY <1>1, <1>5, <3>1
  <2>3. QED
    BY <2>1, <2>2
<1>8. \A k \in DOMAIN s : s[k] \in ToSet(u)
  BY <1>1, <1>4 DEF ToSet
<1>9. \A k \in DOMAIN t : t[k] \in ToSet(u)
  BY <1>1, <1>5 DEF ToSet
<1>10. QED
  BY <1>1, <1>3, <1>6, <1>7, <1>8, <1>9 DEF u

-----------------------------------------------------------------------------
(* Sums *)

\* The numbers of a list.
Numbers(list) == IsList(list) /\ \A k \in DOMAIN list : list[k] \in Int

\* What a list adds up to, place after place.
Summed(f, list) == f[0] = 0 /\ \A n \in 1 .. Len(list) : f[n] = f[n - 1] + list[n]

\* The loop that adds up a list.
LEMMA TotalSteps ==
    ASSUME NEW list, Numbers(list)
    PROVE  \E f \in [0 .. Len(list) -> Int] : Summed(f, list) /\ Total(list) = f[Len(list)]
<1> DEFINE N == Len(list)
           Step(g, n) == IF n = 0 THEN 0 ELSE g[n - 1] + list[n]
           step == [x \in Int \X (1 .. N) |-> x[1] + list[x[2]]]
           u == CHOOSE g : g = [n \in 0 .. N |-> Step(g, n)]
<1>1. N \in Nat /\ \A n \in 1 .. N : list[n] \in Int
  BY ListFacts DEF Numbers
<1> HIDE DEF N
<1>2. \A v \in Int : \A k \in 1 .. N : step[<<v, k>>] = v + list[k] /\ step[<<v, k>>] \in Int
  BY <1>1
<1> HIDE DEF step
<1>3. Steps(Int, 0, N, step)
  BY <1>1, <1>2 DEF Steps
<1>4. PICK f \in [0 .. N -> Int] : f[0] = 0 /\ \A k \in 1 .. N : f[k] = step[<<f[k - 1], k>>]
  BY <1>3, Recursion DEF Follows
<1>5. \A k \in 1 .. N : f[k - 1] \in Int /\ f[k] = f[k - 1] + list[k]
  <2>1. \A k \in 1 .. N : k - 1 \in 0 .. N
    BY <1>1
  <2>2. QED
    BY <1>2, <1>4, <2>1
<1>6. f = [n \in 0 .. N |-> Step(f, n)]
  <2>1. ASSUME NEW n \in 0 .. N PROVE f[n] = Step(f, n)
    <3>1. CASE n = 0
      BY <1>4, <3>1
    <3>2. CASE n # 0
      <4>1. n \in 1 .. N
        BY <1>1, <3>2
      <4>2. QED
        BY <1>5, <3>2, <4>1
    <3>3. QED
      BY <3>1, <3>2
  <2> HIDE DEF Step
  <2>2. QED
    BY <2>1
<1>7. u = [n \in 0 .. N |-> Step(u, n)]
  <2> HIDE DEF Step
  <2>1. QED
    BY <1>6
<1>8. ASSUME NEW n \in 0 .. N PROVE u[n] = Step(u, n)
  <2> HIDE DEF Step, u
  <2>1. QED
    BY <1>7
<1>9. Total(list) = u[N]
  BY DEF Total, N
<1> HIDE DEF u
<1>10. u[0] = 0 /\ \A n \in 1 .. N : u[n] = u[n - 1] + list[n]
  BY <1>1, <1>8
<1>11. \A n \in 0 .. N : u[n] \in Int
  <2> DEFINE S == {n \in Nat : n \in 0 .. N => u[n] \in Int}
  <2>1. 0 \in S
    BY <1>10
  <2>2. ASSUME NEW n \in Nat, n \in S PROVE n + 1 \in S
    <3>1. SUFFICES ASSUME n + 1 \in 0 .. N PROVE u[n + 1] \in Int
      BY <2>2
    <3>2. n \in 0 .. N /\ n + 1 \in 1 .. N /\ (n + 1) - 1 = n
      BY <1>1, <3>1
    <3>3. u[n] \in Int
      BY <2>2, <3>2
    <3>4. u[n + 1] = u[n] + list[n + 1] /\ list[n + 1] \in Int
      BY <1>1, <1>10, <3>2
    <3>5. QED
      BY <3>3, <3>4
  <2> HIDE DEF S
  <2>3. \A n \in Nat : n \in S
    BY <2>1, <2>2, SetInduction
  <2>4. QED
    BY <1>1, <2>3 DEF S
<1>12. u \in [0 .. N -> Int]
  <2> HIDE DEF Step
  <2>1. QED
    BY <1>7, <1>11
<1>13. QED
  BY <1>9, <1>10, <1>12 DEF Summed, N

\* There is one sum: whatever adds up a list gives it.
LEMMA TotalIs ==
    ASSUME NEW list, Numbers(list), NEW f, Summed(f, list)
    PROVE  Total(list) = f[Len(list)] /\ Total(list) \in Int
<1> DEFINE N == Len(list)
<1>1. PICK g \in [0 .. N -> Int] : Summed(g, list) /\ Total(list) = g[N]
  BY TotalSteps
<1>2. N \in Nat
  BY ListFacts DEF Numbers
<1> HIDE DEF N
<1>3. \A n \in 0 .. N : f[n] = g[n]
  <2> DEFINE S == {n \in Nat : n \in 0 .. N => f[n] = g[n]}
  <2>1. 0 \in S
    BY <1>1 DEF Summed
  <2>2. ASSUME NEW n \in Nat, n \in S PROVE n + 1 \in S
    <3>1. SUFFICES ASSUME n + 1 \in 0 .. N PROVE f[n + 1] = g[n + 1]
      BY <2>2
    <3>2. n \in 0 .. N /\ n + 1 \in 1 .. N /\ (n + 1) - 1 = n
      BY <1>2, <3>1
    <3>3. QED
      BY <1>1, <2>2, <3>2 DEF Summed, N
  <2> HIDE DEF S
  <2>3. \A n \in Nat : n \in S
    BY <2>1, <2>2, SetInduction
  <2>4. QED
    BY <1>2, <2>3 DEF S
<1>4. QED
  BY <1>1, <1>2, <1>3 DEF N

\* A list whose numbers are sums of two: it adds up to their sums.
LEMMA TotalAdds ==
    ASSUME NEW a, Numbers(a), NEW b, Numbers(b), NEW c, Numbers(c), Len(a) = Len(c), Len(b) = Len(c),
           \A k \in DOMAIN c : c[k] = a[k] + b[k]
    PROVE  Total(c) = Total(a) + Total(b)
<1> DEFINE N == Len(c)
<1>1. N \in Nat /\ DOMAIN c = 1 .. N
  BY ListFacts DEF Numbers
<1>2. PICK f \in [0 .. N -> Int] : Summed(f, a) /\ Total(a) = f[N]
  BY TotalSteps
<1>3. PICK g \in [0 .. N -> Int] : Summed(g, b) /\ Total(b) = g[N]
  BY TotalSteps
<1> HIDE DEF N
<1> DEFINE h == [n \in 0 .. N |-> f[n] + g[n]]
<1>4. h[0] = 0
  BY <1>1, <1>2, <1>3 DEF Summed
<1>5. ASSUME NEW n \in 1 .. N PROVE h[n] = h[n - 1] + c[n]
  <2>1. n - 1 \in 0 .. N /\ n \in 0 .. N
    BY <1>1
  <2>2. f[n] = f[n - 1] + a[n] /\ g[n] = g[n - 1] + b[n] /\ c[n] = a[n] + b[n]
    BY <1>1, <1>2, <1>3 DEF Summed, N
  <2>3. f[n - 1] \in Int /\ g[n - 1] \in Int /\ a[n] \in Int /\ b[n] \in Int
    <3>1. Len(a) = N /\ Len(b) = N
      BY DEF N
    <3>2. DOMAIN a = 1 .. N /\ DOMAIN b = 1 .. N
      BY <3>1, ListFacts DEF Numbers
    <3>3. QED
      BY <1>2, <1>3, <2>1, <3>2 DEF Numbers
  <2>4. QED
    BY <2>1, <2>2, <2>3
<1>6. Summed(h, c)
  <2> HIDE DEF h
  <2>1. QED
    BY <1>4, <1>5 DEF Summed, N
<1>7. Total(c) = h[N]
  <2> HIDE DEF h
  <2>1. QED
    BY <1>6, TotalIs DEF N
<1>8. QED
  BY <1>1, <1>2, <1>3, <1>7

\* Numbers that exceed those of another list by no more than t each.
LEMMA TotalBound ==
    ASSUME NEW a, Numbers(a), NEW b, Numbers(b), Len(a) = Len(b), NEW t \in Int,
           \A k \in DOMAIN b : a[k] <= b[k] + t
    PROVE  Total(a) <= Total(b) + Len(b) * t
<1> DEFINE N == Len(b)
<1>1. N \in Nat /\ DOMAIN b = 1 .. N /\ DOMAIN a = 1 .. N
  BY ListFacts DEF Numbers
<1>2. PICK f \in [0 .. N -> Int] : Summed(f, a) /\ Total(a) = f[N]
  BY TotalSteps
<1>3. PICK g \in [0 .. N -> Int] : Summed(g, b) /\ Total(b) = g[N]
  BY TotalSteps
<1>4. /\ f[0] = 0 /\ \A n \in 1 .. N : f[n] = f[n - 1] + a[n]
      /\ g[0] = 0 /\ \A n \in 1 .. N : g[n] = g[n - 1] + b[n]
      /\ \A n \in 1 .. N : a[n] \in Int /\ b[n] \in Int /\ a[n] <= b[n] + t
  BY <1>1, <1>2, <1>3 DEF Summed, Numbers
<1> HIDE DEF N
<1> DEFINE S == {n \in Nat : n \in 0 .. N => f[n] <= g[n] + n * t}
<1>5. 0 \in S
  BY <1>4
<1>6. ASSUME NEW n \in Nat, n \in S PROVE n + 1 \in S
  <2>1. SUFFICES ASSUME n + 1 \in 0 .. N PROVE f[n + 1] <= g[n + 1] + (n + 1) * t
    BY <1>6
  <2>2. n \in 0 .. N /\ n + 1 \in 1 .. N /\ (n + 1) - 1 = n
    BY <1>1, <2>1
  <2>3. /\ f[n + 1] = f[n] + a[n + 1] /\ g[n + 1] = g[n] + b[n + 1] /\ a[n + 1] <= b[n + 1] + t
        /\ f[n] <= g[n] + n * t
        /\ f[n] \in Int /\ g[n] \in Int /\ a[n + 1] \in Int /\ b[n + 1] \in Int
    BY <1>4, <1>6, <2>2
  <2>4. (n + 1) * t = n * t + t /\ n * t \in Int /\ t \in Int
    OBVIOUS
  <2> DEFINE p == n * t
             q == (n + 1) * t
  <2>5. q = p + t /\ p \in Int /\ f[n] <= g[n] + p
    BY <2>3, <2>4
  <2> HIDE DEF p, q
  <2>6. f[n + 1] <= g[n + 1] + q
    <3> DEFINE fn == f[n]
               gn == g[n]
               an == a[n + 1]
               bn == b[n + 1]
    <3>1. /\ fn \in Int /\ gn \in Int /\ an \in Int /\ bn \in Int /\ p \in Int /\ t \in Int
          /\ an <= bn + t /\ fn <= gn + p /\ q = p + t
      BY <2>3, <2>4, <2>5
    <3>2. f[n + 1] = fn + an /\ g[n + 1] = gn + bn
      BY <2>3
    <3> HIDE DEF fn, gn, an, bn
    <3>3. fn + an <= (gn + bn) + q
      BY <3>1
    <3>4. QED
      BY <3>2, <3>3
  <2>7. QED
    BY <2>6 DEF q
<1> HIDE DEF S
<1>7. \A n \in Nat : n \in S
  BY <1>5, <1>6, SetInduction
<1>8. f[N] <= g[N] + N * t
  BY <1>1, <1>7 DEF S
<1>9. QED
  BY <1>2, <1>3, <1>8 DEF N

\* The numbers of a function of the places of a list.
LEMMA NumbersOf ==
    ASSUME NEW list, IsList(list), NEW f, DOMAIN f = DOMAIN list, f = [k \in DOMAIN f |-> f[k]],
           \A k \in DOMAIN list : f[k] \in Int
    PROVE  Numbers(f) /\ Len(f) = Len(list)
<1>1. Len(list) \in Nat /\ DOMAIN list = 1 .. Len(list)
  BY ListFacts
<1>2. QED
  BY <1>1, FunctionIsList DEF Numbers

\* The amounts of the elements of a list.
AmountsOf(s, amount) == [i \in DOMAIN s |-> amount[s[i]]]

\* The amounts of a list of things that have one.
LEMMA AmountsAreNumbers ==
    ASSUME NEW V, NEW amount \in [V -> Int], NEW s \in Seq(V)
    PROVE  Numbers(AmountsOf(s, amount)) /\ Len(AmountsOf(s, amount)) = Len(s)
<1> DEFINE a == AmountsOf(s, amount)
<1>1. IsList(s)
  BY SeqIsList
<1>2. \A i \in DOMAIN s : s[i] \in V
  OBVIOUS
<1>3. DOMAIN a = DOMAIN s /\ a = [k \in DOMAIN a |-> a[k]] /\ \A k \in DOMAIN s : a[k] \in Int
  BY <1>2 DEF AmountsOf
<1> HIDE DEF a
<1>4. QED
  BY <1>1, <1>3, NumbersOf DEF a

\* An element more adds its amount.
LEMMA TotalAppended ==
    ASSUME NEW V, NEW amount \in [V -> Int], NEW s \in Seq(V), NEW x \in V
    PROVE  Total(AmountsOf(Append(s, x), amount)) = Total(AmountsOf(s, amount)) + amount[x]
<1> DEFINE t == Append(s, x)
           a == AmountsOf(s, amount)
           b == AmountsOf(t, amount)
           n == Len(s)
<1>1. /\ t \in Seq(V) /\ n \in Nat /\ Len(t) = n + 1 /\ DOMAIN s = 1 .. n /\ DOMAIN t = 1 .. n + 1
      /\ t[n + 1] = x /\ \A k \in 1 .. n : t[k] = s[k]
  OBVIOUS
<1> HIDE DEF t, n
<1>2. Numbers(a) /\ Len(a) = n /\ Numbers(b) /\ Len(b) = n + 1
  BY <1>1, AmountsAreNumbers DEF n
<1>3. b[n + 1] = amount[x] /\ \A k \in 1 .. n : b[k] = a[k]
  <2>1. n + 1 \in 1 .. n + 1 /\ \A k \in 1 .. n : k \in 1 .. n + 1
    BY <1>1
  <2>2. QED
    BY <1>1, <2>1 DEF AmountsOf
<1> HIDE DEF a, b
<1>4. PICK f \in [0 .. n -> Int] : Summed(f, a) /\ Total(a) = f[n]
  BY <1>2, TotalSteps
<1> DEFINE h == [m \in 0 .. n + 1 |-> IF m = n + 1 THEN f[n] + amount[x] ELSE f[m]]
<1>5. h[n + 1] = f[n] + amount[x] /\ \A m \in 0 .. n : h[m] = f[m]
  BY <1>1
<1> HIDE DEF h
<1>6. h[0] = 0
  <2>1. 0 \in 0 .. n /\ f[0] = 0
    BY <1>1, <1>4 DEF Summed
  <2>2. QED
    BY <1>5, <2>1
<1>7. ASSUME NEW m \in 1 .. n + 1 PROVE h[m] = h[m - 1] + b[m]
  <2>1. CASE m = n + 1
    <3>1. m - 1 = n /\ n \in 0 .. n
      BY <1>1, <2>1
    <3>2. QED
      BY <1>3, <1>5, <2>1, <3>1
  <2>2. CASE m # n + 1
    <3>1. m \in 1 .. n /\ m \in 0 .. n /\ m - 1 \in 0 .. n
      BY <1>1, <2>2
    <3>2. f[m] = f[m - 1] + a[m]
      BY <1>2, <1>4, <3>1 DEF Summed
    <3>3. QED
      BY <1>3, <1>5, <3>1, <3>2
  <2>3. QED
    BY <2>1, <2>2
<1>8. Summed(h, b)
  BY <1>2, <1>6, <1>7 DEF Summed
<1>9. Total(b) = h[n + 1]
  BY <1>2, <1>8, TotalIs
<1>10. QED
  BY <1>4, <1>5, <1>9 DEF a, b, t

\* Nothing adds up to nothing.
LEMMA TotalOfNone == ASSUME NEW amount PROVE Total(AmountsOf(<< >>, amount)) = 0
<1> DEFINE a == AmountsOf(<< >>, amount)
           f == [m \in {0} |-> 0]
<1>1. a = << >>
  BY DEF AmountsOf
<1> HIDE DEF a
<1>2. Numbers(a) /\ Len(a) = 0
  BY <1>1, EmptyList DEF Numbers
<1>3. Summed(f, a) /\ f[0] = 0
  BY <1>2 DEF Summed
<1> HIDE DEF f
<1>4. QED
  BY <1>2, <1>3, TotalIs DEF a

\* The amounts that count among those of a list.
Counted(list, places, amount) == [k \in DOMAIN list |-> IF k \in places THEN amount[list[k]] ELSE 0]

\* The elements picked add up to the amounts that count.
LEMMA TotalPicked ==
    ASSUME NEW list, IsList(list), NEW places, NEW amount \in [ToSet(list) -> Int]
    PROVE  /\ Numbers(Counted(list, places, amount)) /\ Len(Counted(list, places, amount)) = Len(list)
           /\ Total(AmountsOf(Picked(list, places), amount)) = Total(Counted(list, places, amount))
<1> DEFINE N == Len(list)
           V == ToSet(list)
           c == Counted(list, places, amount)
<1>1. PICK u \in [0 .. N -> Seq(V)] :
              /\ u[0] = << >>
              /\ \A n \in 1 .. N : u[n] = IF n \in places THEN Append(u[n - 1], list[n]) ELSE u[n - 1]
              /\ Picked(list, places) = u[N]
  BY PickedSteps
<1>2. N \in Nat /\ DOMAIN list = 1 .. N /\ \A n \in 1 .. N : list[n] \in V
  BY ListFacts
<1> HIDE DEF N, V
<1>3. DOMAIN c = 1 .. N /\ \A k \in 1 .. N : c[k] = IF k \in places THEN amount[list[k]] ELSE 0
  BY <1>2 DEF Counted
<1>4. Numbers(c) /\ Len(c) = N
  <2>1. \A x \in V : amount[x] \in Int
    BY DEF V
  <2>2. ASSUME NEW k \in DOMAIN list PROVE c[k] \in Int
    <3>1. list[k] \in V /\ c[k] = IF k \in places THEN amount[list[k]] ELSE 0
      BY <1>2, <1>3
    <3>2. amount[list[k]] \in Int
      BY <2>1, <3>1
    <3>3. QED
      BY <3>1, <3>2
  <2>3. DOMAIN c = DOMAIN list /\ c = [k \in DOMAIN c |-> c[k]]
    BY DEF Counted
  <2> HIDE DEF c
  <2>4. QED
    BY <2>2, <2>3, NumbersOf DEF N
<1> HIDE DEF c
<1> DEFINE f == [n \in 0 .. N |-> Total(AmountsOf(u[n], amount))]
<1>5. f[0] = 0
  BY <1>1, <1>2, TotalOfNone
<1>6. ASSUME NEW n \in 1 .. N PROVE f[n] = f[n - 1] + c[n]
  <2>1. n - 1 \in 0 .. N /\ n \in 0 .. N
    BY <1>2
  <2>2. u[n - 1] \in Seq(V) /\ list[n] \in V
    BY <1>1, <1>2, <2>1
  <2>3. f[n] = Total(AmountsOf(u[n], amount)) /\ f[n - 1] = Total(AmountsOf(u[n - 1], amount))
    BY <2>1
  <2>4. CASE n \in places
    <3>1. u[n] = Append(u[n - 1], list[n]) /\ c[n] = amount[list[n]]
      BY <1>1, <1>3, <2>4
    <3>2. Total(AmountsOf(Append(u[n - 1], list[n]), amount)) = Total(AmountsOf(u[n - 1], amount)) + amount[list[n]]
      BY <2>2, TotalAppended DEF V
    <3>3. QED
      BY <2>3, <3>1, <3>2, Zenon
  <2>5. CASE n \notin places
    <3>1. u[n] = u[n - 1] /\ c[n] = 0
      BY <1>1, <1>3, <2>5
    <3>2. Numbers(AmountsOf(u[n - 1], amount))
      BY <2>2, AmountsAreNumbers DEF V
    <3>3. Total(AmountsOf(u[n - 1], amount)) \in Int
      <4>1. \E g \in [0 .. Len(AmountsOf(u[n - 1], amount)) -> Int] :
               Summed(g, AmountsOf(u[n - 1], amount))
        BY <3>2, TotalSteps
      <4>2. QED
        BY <3>2, <4>1, TotalIs
    <3>4. QED
      BY <2>3, <3>1, <3>3
  <2>6. QED
    BY <2>4, <2>5
<1> HIDE DEF f
<1>7. Summed(f, c)
  BY <1>4, <1>5, <1>6 DEF Summed
<1>8. Total(c) = f[N]
  BY <1>4, <1>7, TotalIs
<1>9. f[N] = Total(AmountsOf(Picked(list, places), amount))
  BY <1>1, <1>2 DEF f
<1>10. QED
  BY <1>4, <1>8, <1>9 DEF c, N

-----------------------------------------------------------------------------
(* The amounts *)

\* The amounts of an order and of its articles are numbers.
OrderAmounts(o) ==
    /\ o.subtotal \in Int /\ o.total \in Int
    /\ \A x \in ToSet(o.items) : x.quantity \in Int /\ x.price \in Int

\* The amounts of the book are numbers.
AmountsKept(b) ==
    /\ \A o \in ToSet(b.orders) : OrderAmounts(o)
    /\ \A r \in ToSet(b.refunds) : r.amount \in Int

\* The cells of a line of the orders.
LEMMA AmountCellsOf ==
    ASSUME Place, AtRow("shopify_orders")
    PROVE  \A c \in Amounts \cup {"quantity", "price"} : Row[c] \in AmountCells
<1>1. line \in DOMAIN export.shopify_orders /\ Row = export.shopify_orders[line]
  BY RowFacts
<1>2. export.shopify_orders # None
  BY DEF AtRow, Reading, Lines
<1>3. QED
  BY <1>1, <1>2, AmountAssumption, Zenon DEF Place

\* A cell that is not broken is a number, or counts as one.
LEMMA CellIsAmount ==
    ASSUME NEW cell \in AmountCells, cell # Broken
    PROVE  OrZero(cell) \in Int /\ (OrZero(cell) > 0 => cell \in Int)
BY DEF AmountCells, OrZero

\* An order that opens.
LEMMA OpenedAmounts ==
    ASSUME NEW b, DOMAIN b = BookFields, IsList(b.orders), IsList(b.refunds), AmountsKept(b), NEW row, NEW day,
           \A c \in Amounts \cup {"quantity", "price"} : row[c] \in AmountCells /\ row[c] # Broken
    PROVE  AmountsKept(Opened(b, row, day))
<1> DEFINE c == Opened(b, row, day)
           o == OpenedOrder(row, day)
           r == [id |-> row.order, order |-> row.order, day |-> day, amount |-> row.refunded, source |-> "shopify"]
<1>1. /\ row.subtotal \in AmountCells /\ row.subtotal # Broken
      /\ row.total \in AmountCells /\ row.total # Broken
      /\ row.refunded \in AmountCells /\ row.refunded # Broken
  BY DEF Amounts
<1>2. c.orders = Append(b.orders, o)
  BY DEF Opened, BookFields
<1>3. c.refunds = IF OrZero(row.refunded) > 0 THEN Append(b.refunds, r) ELSE b.refunds
  BY DEF Opened, BookFields
<1>4. o.subtotal = OrZero(row.subtotal) /\ o.total = OrZero(row.total) /\ o.items = << >>
  BY DEF OpenedOrder
<1>5. r.amount = row.refunded
  OBVIOUS
<1> HIDE DEF c, o, r
<1>6. OrderAmounts(o)
  BY <1>1, <1>4, CellIsAmount, EmptyList DEF OrderAmounts
<1>7. \A x \in ToSet(c.orders) : OrderAmounts(x)
  <2>1. ToSet(c.orders) = ToSet(b.orders) \cup {o}
    BY <1>2, Longer
  <2>2. QED
    BY <1>6, <2>1 DEF AmountsKept
<1>8. \A x \in ToSet(c.refunds) : x.amount \in Int
  <2>1. CASE OrZero(row.refunded) > 0
    <3>1. c.refunds = Append(b.refunds, r) /\ r.amount \in Int
      BY <1>1, <1>3, <1>5, <2>1, CellIsAmount
    <3>2. ToSet(c.refunds) = ToSet(b.refunds) \cup {r}
      BY <3>1, Longer
    <3>3. QED
      BY <3>1, <3>2 DEF AmountsKept
  <2>2. CASE ~(OrZero(row.refunded) > 0)
    BY <1>3, <2>2 DEF AmountsKept
  <2>3. QED
    BY <2>1, <2>2
<1>9. QED
  BY <1>7, <1>8 DEF AmountsKept, c

\* An article of a line.
LEMMA ItemisedAmounts ==
    ASSUME NEW b, NEW e, BookKept(b, e), AmountsKept(b), NEW row, HasOrder(b.orders, row.order),
           row.quantity \in AmountCells, row.quantity # Broken, row.price \in AmountCells, row.price # Broken
    PROVE  AmountsKept(Itemised(b, row))
<1> DEFINE c == Itemised(b, row)
           place == PlaceOf(b.orders, row.order)
           a == Article(row)
<1>1. /\ c.orders = b.orders \/ c.orders = [b.orders EXCEPT ![place].items = Append(@, a)]
      /\ c.refunds = b.refunds
  BY ItemisedFields DEF BookKept
<1>2. a.quantity \in Int /\ a.price \in Int
  BY CellIsAmount DEF Article
<1>3. place \in DOMAIN b.orders
  BY Placed
<1> HIDE DEF c, a, place
<1>4. CASE c.orders = b.orders
  BY <1>1, <1>4 DEF AmountsKept, c
<1>5. CASE c.orders = [b.orders EXCEPT ![place].items = Append(@, a)]
  <2>1. /\ DOMAIN b.orders[place] = OrderFields /\ IsList(b.orders[place].items)
    BY <1>3 DEF BookKept, OrdersKept, IsRecord
  <2>2. /\ DOMAIN c.orders = DOMAIN b.orders
        /\ c.orders[place] = [b.orders[place] EXCEPT !.items = Append(@, a)]
        /\ \A k \in DOMAIN b.orders : k # place => c.orders[k] = b.orders[k]
    BY <1>3, <1>5
  <2> DEFINE p == b.orders[place]
             q == c.orders[place]
  <2>3. q.subtotal = p.subtotal /\ q.total = p.total /\ q.items = Append(p.items, a)
    BY <2>1, <2>2 DEF OrderFields
  <2>4. ToSet(q.items) = ToSet(p.items) \cup {a}
    BY <2>1, <2>3, Longer
  <2>5. \A k \in DOMAIN b.orders : OrderAmounts(b.orders[k])
    BY DEF AmountsKept, ToSet
  <2>6. OrderAmounts(q)
    BY <1>2, <1>3, <2>3, <2>4, <2>5 DEF OrderAmounts
  <2>7. \A k \in DOMAIN c.orders : OrderAmounts(c.orders[k])
    BY <2>2, <2>5, <2>6
  <2>8. QED
    BY <1>1, <2>7 DEF AmountsKept, ToSet, c
<1>6. QED
  BY <1>1, <1>4, <1>5

\* No step of the reading makes an amount that is not a number.
LEMMA AmountStep ==
    ASSUME ReadInv, AmountsKept(book), Next
    PROVE  AmountsKept(book')
<1>1. BookKept(book, export) /\ DOMAIN book = BookFields /\ IsList(book.orders) /\ IsList(book.refunds)
  BY DEF ReadInv, BookKept, OrdersKept, RefundsKept
<1>2. ASSUME book'.orders = book.orders, book'.refunds = book.refunds PROVE AmountsKept(book')
  BY <1>2 DEF AmountsKept
<1>3. CASE OpenOrder
  <2>1. AtRow("shopify_orders") /\ ~HasOrder(book.orders, Row.order)
    BY <1>3 DEF OpenOrder
  <2>2. PICK day \in ReadDate(Row.date, DateOrder) :
          IF Broken \in { Row[c] : c \in Amounts \cup {"quantity", "price"} } THEN RejectReading
          ELSE LET opened == Opened(book, Row, day)
               IN  /\ book' = Itemised(opened, Row)
                   /\ quality' = ItemIssues(OpeningIssues(quality, Row), opened, Row)
                   /\ NextLine
    BY <1>3 DEF OpenOrder
  <2>3. CASE RejectReading
    BY <1>2, <2>3 DEF RejectReading
  <2>4. CASE Broken \notin { Row[c] : c \in Amounts \cup {"quantity", "price"} }
    <3> DEFINE opened == Opened(book, Row, day)
    <3>1. book' = Itemised(opened, Row)
      BY <2>2, <2>4
    <3>2. \A c \in Amounts \cup {"quantity", "price"} : Row[c] \in AmountCells /\ Row[c] # Broken
      BY <2>1, <2>4, AmountCellsOf DEF ReadInv
    <3>3. AmountsKept(opened)
      BY <1>1, <3>2, OpenedAmounts
    <3>4. line \in DOMAIN export.shopify_orders /\ Row = export.shopify_orders[line]
      BY <2>1, RowFacts DEF ReadInv
    <3>5. LineSays(export.shopify_orders, line, day) /\ day \in Int
      BY <2>1, RowSays DEF ReadInv
    <3>6. BookKept(opened, export) /\ HasOrder(opened.orders, Row.order)
      BY <1>1, <2>1, <3>4, <3>5, OpenedKept
    <3>7. /\ Row.quantity \in AmountCells /\ Row.quantity # Broken
          /\ Row.price \in AmountCells /\ Row.price # Broken
      BY <3>2
    <3> HIDE DEF opened
    <3>8. QED
      BY <3>1, <3>3, <3>6, <3>7, ItemisedAmounts
  <2>5. QED
    BY <2>2, <2>3, <2>4
<1>4. CASE ContinueOrder
  <2>1. AtRow("shopify_orders") /\ HasOrder(book.orders, Row.order)
    BY <1>4 DEF ContinueOrder
  <2>2. CASE RejectReading
    BY <1>2, <2>2 DEF RejectReading
  <2>3. CASE Broken \notin {Row.quantity, Row.price} /\ book' = Itemised(book, Row)
    <3>1. Row.quantity \in AmountCells /\ Row.price \in AmountCells
      BY <2>1, AmountCellsOf DEF ReadInv
    <3>2. QED
      BY <1>1, <2>1, <2>3, <3>1, ItemisedAmounts
  <2>4. QED
    BY <1>4, <2>2, <2>3 DEF ContinueOrder
<1>5. CASE EndOrders
  <2>1. book' = [book EXCEPT !.orders = ByDay(@)]
    BY <1>5 DEF EndOrders
  <2>2. book'.orders = ByDay(book.orders) /\ book'.refunds = book.refunds
    BY <1>1, <2>1 DEF BookFields
  <2>3. \A k \in DOMAIN book.orders : book.orders[k].day \in Int
    BY <1>1 DEF BookKept, OrdersKept
  <2>4. ToSet(book'.orders) = ToSet(book.orders)
    BY <1>1, <2>2, <2>3, OrdersArePermuted, PermutedFacts
  <2>5. QED
    BY <2>2, <2>4 DEF AmountsKept
<1>6. CASE ReadPayment
  <2>1. AtRow("stripe")
    BY <1>6 DEF ReadPayment
  <2>2. \/ RejectReading
        \/ /\ Row.refunded # Broken
           /\ \E day, fee, withFee :
                book' = [book EXCEPT
                        !.paid = @ \cup {Row.id},
                        !.payments = Append(@, [ id |-> Row.id, day |-> day, fee |-> fee ]),
                        !.refunds = IF OrZero(Row.refunded) <= 0 THEN @
                                    ELSE Append(@, [ id |-> Row.id, order |-> Row.order, day |-> day,
                                                     amount |-> OrZero(Row.refunded), source |-> "stripe" ]),
                        !.withFee = withFee]
    <3>1. PICK day \in ReadDate(Row.date, DateOrder) :
            \/ RejectReading
            \/ Broken \notin {Row.amount, Row.fee, Row.net, Row.refunded} /\ \E fee, withFee :
                book' = [book EXCEPT
                        !.paid = @ \cup {Row.id},
                        !.payments = Append(@, [ id |-> Row.id, day |-> day, fee |-> fee ]),
                        !.refunds = IF OrZero(Row.refunded) <= 0 THEN @
                                    ELSE Append(@, [ id |-> Row.id, order |-> Row.order, day |-> day,
                                                     amount |-> OrZero(Row.refunded), source |-> "stripe" ]),
                        !.withFee = withFee]
      BY <1>6, Zenon DEF ReadPayment
    <3>2. QED
      BY <3>1, Zenon
  <2>3. CASE RejectReading
    BY <1>2, <2>3 DEF RejectReading
  <2>4. ASSUME Row.refunded # Broken, NEW day, NEW fee, NEW withFee,
               book' = [book EXCEPT
                        !.paid = @ \cup {Row.id},
                        !.payments = Append(@, [ id |-> Row.id, day |-> day, fee |-> fee ]),
                        !.refunds = IF OrZero(Row.refunded) <= 0 THEN @
                                    ELSE Append(@, [ id |-> Row.id, order |-> Row.order, day |-> day,
                                                     amount |-> OrZero(Row.refunded), source |-> "stripe" ]),
                        !.withFee = withFee]
        PROVE  AmountsKept(book')
    <3> DEFINE r == [ id |-> Row.id, order |-> Row.order, day |-> day, amount |-> OrZero(Row.refunded),
                      source |-> "stripe" ]
    <3>1. /\ book'.orders = book.orders
          /\ book'.refunds = book.refunds \/ book'.refunds = Append(book.refunds, r)
      BY <1>1, <2>4 DEF BookFields
    <3>2. Row.refunded \in AmountCells
      <4>1. line \in DOMAIN export.stripe /\ Row = export.stripe[line]
        BY <2>1, RowFacts DEF ReadInv
      <4>2. export.stripe # None
        BY <2>1 DEF AtRow, Reading, Lines
      <4>3. QED
        BY <4>1, <4>2, AmountAssumption, Zenon DEF ReadInv, Place
    <3>3. r.amount \in Int
      BY <2>4, <3>2, CellIsAmount
    <3> HIDE DEF r
    <3>4. CASE book'.refunds = Append(book.refunds, r)
      <4>1. ToSet(book'.refunds) = ToSet(book.refunds) \cup {r}
        BY <1>1, <3>4, Longer
      <4>2. QED
        BY <3>1, <3>3, <4>1 DEF AmountsKept
    <3>5. QED
      BY <1>2, <3>1, <3>4
  <2>5. QED
    BY <2>2, <2>3, <2>4
<1>7. CASE Read /\ ~(OpenOrder \/ ContinueOrder \/ EndOrders \/ ReadPayment)
  <2>1. CASE EmptyFile \/ SkipSource \/ SkipUnnamedProduct \/ EndProducts \/ SkipUnnamedPayment
             \/ SkipRepeatedPayment \/ EndPayments \/ RefuseUndatedAd \/ CloseReading
    <3>1. UNCHANGED book
      BY <2>1, Zenon DEF EmptyFile, SkipSource, SkipUnnamedProduct, EndProducts, SkipUnnamedPayment,
           SkipRepeatedPayment, EndPayments, RefuseUndatedAd, CloseReading, RejectReading, NextLine, NextFile
    <3>2. QED
      BY <1>2, <3>1
  <2>2. CASE RefuseUnnamedLine \/ RefuseUndatedOrder
    <3>1. book' = [book EXCEPT !.invalid = @ + 1]
      BY <2>2 DEF RefuseUnnamedLine, RefuseUndatedOrder
    <3>2. QED
      BY <1>1, <1>2, <3>1 DEF BookFields
  <2>3. CASE RefuseUndatedPayment
    <3>1. book' = [book EXCEPT !.paid = @ \cup {Row.id}]
      BY <2>3 DEF RefuseUndatedPayment
    <3>2. QED
      BY <1>1, <1>2, <3>1 DEF BookFields
  <2>4. CASE ReadProduct
    <3>1. UNCHANGED book \/ \E cost, priced :
             book' = [book EXCEPT !.products = With(@, Row.sku, cost), !.priced = priced]
      BY <2>4 DEF ReadProduct, RejectReading
    <3>2. QED
      BY <1>1, <1>2, <3>1 DEF BookFields
  <2>5. CASE ReadAd
    BY <1>1, <1>2, <2>5, AdBooks DEF BookFields, RejectReading
  <2>6. CASE EndAds
    <3>1. book' = [book EXCEPT !.ads = ByDayAndCampaign(@)]
      BY <2>6 DEF EndAds
    <3>2. QED
      BY <1>1, <1>2, <3>1 DEF BookFields
  <2>7. QED
    BY <1>7, <2>1, <2>2, <2>3, <2>4, <2>5, <2>6 DEF Read, ReadNext
<1>8. CASE Store \/ Load \/ AnalyseFiles \/ Analyse
  BY <1>2, <1>8 DEF Store, Load, AnalyseFiles, Analyse
<1>9. QED
  BY <1>3, <1>4, <1>5, <1>6, <1>7, <1>8 DEF Next

-----------------------------------------------------------------------------
(* The report *)

\* The period of an analysis.
PeriodOf(ds, grain, reference) ==
    LastCompletePeriod(LatestDay(ds), IF reference = None THEN LatestDay(ds) ELSE reference, grain)

\* What a report says of the dataset in a period.
ReportSays(r, ds, q, period) ==
    LET facts == FactsOf(ds, q, period, Window(ds, period))
        insights == Insights(facts.kpis, Anomalies(ds, period), RootCause(ds, period),
                             Profitability(Window(ds, period)), ProductPerformance(Window(ds, period)))
    IN  /\ r.period = period
        /\ r.profitability = Profitability(Window(ds, period))
        /\ r.anomalies = Anomalies(ds, period)
        /\ r.critical_issues = InCategory(insights, "critical_issue")
        /\ r.warnings = InCategory(insights, "warning")
        /\ r.health.dimensions.profitability =
              ScoreOf(ProfitabilityValue(Profitability(Window(ds, period))), "profitability")

\* A report says it of its period.
LEMMA ReportIs ==
    ASSUME NEW ds, NEW q, NEW grain, NEW reference
    PROVE  ReportSays(Report(ds, q, grain, reference), ds, q, PeriodOf(ds, grain, reference))
<1> DEFINE period == PeriodOf(ds, grain, reference)
           window == Window(ds, period)
           profit == Profitability(window)
           products == ProductPerformance(window)
           anomalies == Anomalies(ds, period)
           cause == RootCause(ds, period)
           facts == FactsOf(ds, q, period, window)
           told == AnalysedQuality(ds, q, period)
           r == Report(ds, q, grain, reference)
<1>1. r = ReportFor(ds, q, period)
  BY DEF Report, ReportSeen, PeriodOf
<1>2. ReportFor(ds, q, period) = ReportOn(period, told, facts)
  BY DEF ReportFor
<1>3. /\ facts.profit = profit /\ facts.products = products /\ facts.anomalies = anomalies
      /\ facts.cause = cause
  <2> HIDE DEF window, profit, products, anomalies, cause, period
  <2>1. facts = [ kpis |-> Kpis(window, q, period), profit |-> profit,
                  products |-> products, campaigns |-> CampaignPerformance(window),
                  anomalies |-> anomalies, cause |-> cause, growth |-> Growth(ds, period) ]
    BY DEF FactsOf, profit, products, anomalies, cause
  <2> HIDE DEF facts
  <2>2. QED
    BY <2>1
<1> DEFINE kpis == facts.kpis
           growth == facts.growth
<1> HIDE DEF facts, told, r, period, window, profit, products, anomalies, cause
<1> DEFINE insights == Insights(kpis, anomalies, cause, profit, products)
           dims == Dimensions(kpis, growth, profit, products, told)
<1>4. r = Assembled(period, told, facts, insights, dims)
  BY <1>1, <1>2, <1>3 DEF ReportOn
<1>5. dims.profitability = ScoreOf(ProfitabilityValue(profit), "profitability")
  BY DEF Dimensions
<1> HIDE DEF dims, insights, kpis
<1>6. /\ r.period = period /\ r.profitability = facts.profit /\ r.anomalies = facts.anomalies
      /\ r.critical_issues = InCategory(insights, "critical_issue")
      /\ r.warnings = InCategory(insights, "warning")
      /\ r.health = Health(dims)
  BY <1>4 DEF Assembled
<1>7. r.health.dimensions = dims
  <2>1. PICK excluded, score : Health(dims) = [dimensions |-> dims, excluded |-> excluded, score |-> score]
    BY Zenon DEF Health
  <2>2. QED
    BY <1>6, <2>1
<1>8. /\ r.profitability = profit /\ r.anomalies = anomalies
      /\ r.health.dimensions.profitability = ScoreOf(ProfitabilityValue(profit), "profitability")
  BY <1>3, <1>5, <1>6, <1>7
<1>9. ReportSays(r, ds, q, period)
  BY <1>6, <1>8 DEF ReportSays, window, profit, products, anomalies, cause, facts, kpis, insights
<1>10. QED
  BY <1>9 DEF r, period

\* A dataset is analysed as it was read, and the report is what the analysis says.
ReportInv ==
    /\ SnapshotInv
    /\ AmountsKept(book)
    /\ stage \in {"loaded", "reported"} => dataset # << >>
    /\ stage = "reported" =>
          \E grain \in Grains, reference \in References :
              ReportSays(report, dataset.read, dataset.quality, PeriodOf(dataset.read, grain, reference))

\* The analysis keeps it.
LEMMA ReportStep == ASSUME ReportInv, Next PROVE ReportInv'
<1>1. SnapshotInv' /\ AmountsKept(book')
  BY SnapshotStep, AmountStep DEF ReportInv, SnapshotInv
<1>2. CASE Read
  <2>1. stage' \in {"reading", "rejected", "read"}
    BY <1>2, ReadingStages DEF Read
  <2>2. QED
    BY <1>1, <2>1 DEF ReportInv
<1>3. CASE Store
  <2>1. stage' \in {"unstorable", "refused", "stored"}
    BY <1>3 DEF Store
  <2>2. QED
    BY <1>1, <2>1 DEF ReportInv
<1>4. CASE Load
  <2>1. stage' = "corrupt" \/ (stage' = "loaded" /\ dataset' # << >>)
    BY <1>4 DEF Load
  <2>2. QED
    BY <1>1, <2>1 DEF ReportInv
<1>5. CASE AnalyseFiles
  <2>1. stage' = "loaded" /\ dataset' # << >>
    BY <1>5 DEF AnalyseFiles
  <2>2. QED
    BY <1>1, <2>1 DEF ReportInv
<1>6. CASE Analyse
  <2>1. /\ stage = "loaded" /\ stage' \in {"reported", "failed"} /\ dataset' = dataset
        /\ stage' = "reported" => \E grain \in Grains, reference \in References :
              report' = Report(dataset.read, dataset.quality, grain, reference)
    BY <1>6 DEF Analyse
  <2>2. CASE stage' = "failed"
    BY <1>1, <2>1, <2>2 DEF ReportInv
  <2>3. CASE stage' = "reported"
    <3>1. PICK grain \in Grains, reference \in References :
              report' = Report(dataset.read, dataset.quality, grain, reference)
      BY <2>1, <2>3
    <3>2. ReportSays(report', dataset.read, dataset.quality, PeriodOf(dataset.read, grain, reference))
      BY <3>1, ReportIs
    <3>3. QED
      BY <1>1, <2>1, <2>3, <3>2, Zenon DEF ReportInv
  <2>4. QED
    BY <2>1, <2>2, <2>3
<1>7. QED
  BY <1>2, <1>3, <1>4, <1>5, <1>6 DEF Next

\* The files analysed are those read, and their amounts are numbers.
LEMMA Reports == Spec => []ReportInv
<1>1. Init => ReportInv
  <2>1. Init => ReadInv /\ QualityKept(quality)
    BY EmptyBookKept, EmptyQualityKept DEF Init, ReadInit, ReadInv, Place
  <2>2. Init => SnapshotInv
    BY <2>1 DEF Init, ReadInit, SnapshotInv
  <2>3. Init => AmountsKept(book)
    <3>1. EmptyBook.orders = << >> /\ EmptyBook.refunds = << >>
      BY DEF EmptyBook
    <3>2. QED
      BY <3>1, EmptyList DEF Init, ReadInit, AmountsKept
  <2>4. QED
    BY <2>2, <2>3 DEF Init, ReadInit, ReportInv
<1>2. ReportInv /\ [Next]_engineVars => ReportInv'
  <2>1. ReportInv /\ Next => ReportInv'
    BY ReportStep
  <2>2. ReportInv /\ UNCHANGED engineVars => ReportInv'
    BY Zenon DEF ReportInv, SnapshotInv, ReadInv, Place, engineVars
  <2>3. QED
    BY <2>1, <2>2
<1>3. QED
  BY <1>1, <1>2, PTL DEF Spec

-----------------------------------------------------------------------------
(* The window of a period *)

\* A value used once is that value.
LEMMA OnceIs == \A v : (CHOOSE x \in {v} : TRUE) = v
OBVIOUS

\* The places of the events of a period.
PlacesIn(list, period) == {k \in DOMAIN list : InPeriod(list[k].day, period)}

DatasetFields == {"products", "orders", "refunds", "payments", "campaigns", "ads", "currency", "customer_first_order"}

\* The window picks the events of the period, and leaves the rest.
LEMMA WindowIs ==
    ASSUME NEW ds, DOMAIN ds = DatasetFields, NEW period
    PROVE  LET window == Window(ds, period)
           IN  /\ window.orders = Picked(ds.orders, PlacesIn(ds.orders, period))
               /\ window.refunds = Picked(ds.refunds, PlacesIn(ds.refunds, period))
               /\ window.payments = Picked(ds.payments, PlacesIn(ds.payments, period))
               /\ window.ads = Picked(ds.ads, PlacesIn(ds.ads, period))
               /\ window.products = ds.products
               /\ window.customer_first_order = ds.customer_first_order
               /\ DOMAIN window = DatasetFields
<1> DEFINE Of(list) == Filter(list, LAMBDA e : InPeriod(e.day, period))
<1>1. ASSUME NEW list PROVE Of(list) = Picked(list, PlacesIn(list, period))
  BY OnceIs, Zenon DEF Filter, Once, PlacesIn
<1>2. Window(ds, period) = [ds EXCEPT !.orders = Of(ds.orders), !.payments = Of(ds.payments),
                                      !.refunds = Of(ds.refunds), !.ads = Of(ds.ads)]
  BY Zenon DEF Window
<1> HIDE DEF Of
<1>3. QED
  BY <1>1, <1>2 DEF DatasetFields

\* The fields of the dataset.
LEMMA DatasetIs ==
    ASSUME NEW b
    PROVE  /\ DOMAIN DatasetOf(b) = DatasetFields
           /\ DatasetOf(b).orders = b.orders /\ DatasetOf(b).refunds = b.refunds
           /\ DatasetOf(b).payments = b.payments /\ DatasetOf(b).ads = b.ads
           /\ DatasetOf(b).products = b.products
           /\ DatasetOf(b).customer_first_order = CustomerIndex(b.orders)
BY DEF DatasetOf, DatasetFields

\* The dataset that is analysed.
LEMMA AnalysedIs ==
    ASSUME ReportInv, Reported
    PROVE  Analysed = DatasetOf(book)
<1>1. dataset # << >> /\ dataset = [read |-> DatasetOf(book), quality |-> quality]
  BY DEF ReportInv, SnapshotInv, Reported
<1>2. QED
  BY <1>1 DEF Analysed

-----------------------------------------------------------------------------
(* The articles sold *)

\* The orders of a period, and the articles they sold.
LEMMA WindowOrders ==
    ASSUME NEW b, NEW e, BookKept(b, e), AmountsKept(b), NEW period
    PROVE  LET window == Window(DatasetOf(b), period)
           IN  /\ IsList(window.orders) /\ ToSet(window.orders) \subseteq ToSet(b.orders)
               /\ \A o \in ToSet(window.orders) : IsList(o.items) /\ OrderAmounts(o)
<1> DEFINE places == PlacesIn(b.orders, period)
           window == Window(DatasetOf(b), period)
<1>1. window.orders = Picked(b.orders, places)
  BY WindowIs, DatasetIs
<1>2. places \subseteq DOMAIN b.orders /\ IsList(b.orders)
  BY DEF PlacesIn, BookKept, OrdersKept
<1> HIDE DEF places, window
<1>3. /\ IsList(window.orders)
      /\ \A i \in DOMAIN window.orders : \E k \in places : window.orders[i] = b.orders[k]
  BY <1>1, <1>2, PickedElements
<1>4. \A o \in ToSet(window.orders) : \E k \in DOMAIN b.orders : o = b.orders[k]
  BY <1>2, <1>3 DEF ToSet
<1>5. ToSet(window.orders) \subseteq ToSet(b.orders)
  BY <1>4 DEF ToSet
<1>6. \A o \in ToSet(window.orders) : IsList(o.items)
  BY <1>4 DEF BookKept, OrdersKept
<1>7. QED
  BY <1>3, <1>5, <1>6 DEF AmountsKept, window

\* The articles sold are those of the orders, and their amounts are numbers.
LEMMA SoldFacts ==
    ASSUME NEW ds, IsList(ds.orders), \A o \in ToSet(ds.orders) : IsList(o.items) /\ OrderAmounts(o)
    PROVE  /\ IsList(Sold(ds))
           /\ \A x \in ToSet(Sold(ds)) : x.quantity \in Int /\ x.price \in Int
           /\ \A x \in ToSet(Sold(ds)) : \E o \in ToSet(ds.orders) : x \in ToSet(o.items)
<1> DEFINE lists == [i \in DOMAIN ds.orders |-> ds.orders[i].items]
           V == UNION {ToSet(o.items) : o \in ToSet(ds.orders)}
<1>1. Sold(ds) = Joined(lists)
  BY OnceIs, Zenon DEF Sold, Flatten, Once
<1>2. Len(ds.orders) \in Nat /\ DOMAIN ds.orders = 1 .. Len(ds.orders)
  BY ListFacts
<1>3. \A i \in DOMAIN ds.orders : ds.orders[i] \in ToSet(ds.orders)
  BY DEF ToSet
<1>4. ASSUME NEW i \in DOMAIN ds.orders PROVE ds.orders[i].items \in Seq(V)
  <2> DEFINE items == ds.orders[i].items
  <2>1. IsList(items) /\ ToSet(items) \subseteq V
    BY <1>3
  <2> HIDE DEF V, items
  <2>2. items \in Seq(ToSet(items))
    BY <2>1, ListIs
  <2>3. items \in Seq(V)
    BY <2>1, <2>2
  <2>4. QED
    BY <2>3 DEF items
<1>5. IsList(lists)
  <2> DEFINE n == Len(ds.orders)
  <2>1. n \in Nat /\ DOMAIN lists = 1 .. n
    BY <1>2
  <2>2. lists = [i \in 1 .. n |-> lists[i]]
    BY <1>2
  <2> HIDE DEF lists, n
  <2>3. QED
    BY <2>1, <2>2, FunctionIsList
<1>6. DOMAIN lists = DOMAIN ds.orders /\ \A c \in DOMAIN lists : lists[c] = ds.orders[c].items
  OBVIOUS
<1> HIDE DEF lists, V
<1>7. \A c \in DOMAIN lists : lists[c] \in Seq(V)
  BY <1>4, <1>6
<1>8. /\ Joined(lists) \in Seq(V) /\ IsList(Joined(lists))
      /\ \A i \in DOMAIN Joined(lists) :
            \E c \in DOMAIN lists : \E k \in DOMAIN lists[c] : Joined(lists)[i] = lists[c][k]
  BY <1>5, <1>7, JoinedFacts
<1>9. ASSUME NEW x \in ToSet(Sold(ds)) PROVE \E o \in ToSet(ds.orders) : x \in ToSet(o.items)
  <2>1. PICK i \in DOMAIN Joined(lists) : x = Joined(lists)[i]
    BY <1>1 DEF ToSet
  <2>2. PICK c \in DOMAIN lists : \E k \in DOMAIN lists[c] : x = lists[c][k]
    BY <1>8, <2>1
  <2>3. x \in ToSet(ds.orders[c].items) /\ ds.orders[c] \in ToSet(ds.orders)
    BY <1>3, <1>6, <2>2 DEF ToSet
  <2>4. QED
    BY <2>3
<1>10. QED
  BY <1>1, <1>8, <1>9 DEF OrderAmounts

\* A sum over the places picked and one over the others add up to the sum over all.
LEMMA TotalSplits ==
    ASSUME NEW list, IsList(list), NEW amount \in [ToSet(list) -> Int], NEW places, places \subseteq DOMAIN list
    PROVE  LET others == DOMAIN list \ places
           IN  /\ Total(AmountsOf(list, amount)) =
                    Total(AmountsOf(Picked(list, places), amount)) + Total(AmountsOf(Picked(list, others), amount))
               /\ Total(AmountsOf(Picked(list, places), amount)) \in Int
               /\ Total(AmountsOf(Picked(list, others), amount)) \in Int
<1> DEFINE others == DOMAIN list \ places
           a == Counted(list, places, amount)
           b == Counted(list, others, amount)
           c == AmountsOf(list, amount)
<1>1. Numbers(a) /\ Len(a) = Len(list) /\ Total(AmountsOf(Picked(list, places), amount)) = Total(a)
  BY TotalPicked
<1>2. Numbers(b) /\ Len(b) = Len(list) /\ Total(AmountsOf(Picked(list, others), amount)) = Total(b)
  BY TotalPicked
<1>3. Numbers(c) /\ Len(c) = Len(list)
  BY ListIs, AmountsAreNumbers
<1>4. ASSUME NEW k \in DOMAIN c PROVE c[k] = a[k] + b[k]
  <2>1. k \in DOMAIN list /\ list[k] \in ToSet(list)
    BY DEF AmountsOf, ToSet
  <2>2. amount[list[k]] \in Int
    BY <2>1
  <2>3. QED
    BY <2>1, <2>2 DEF AmountsOf, Counted
<1> HIDE DEF a, b, c, others
<1>5. Total(c) = Total(a) + Total(b)
  BY <1>1, <1>2, <1>3, <1>4, TotalAdds
<1>6. Total(a) \in Int /\ Total(b) \in Int
  BY <1>1, <1>2, TotalIs, TotalSteps
<1>7. QED
  BY <1>1, <1>2, <1>5, <1>6 DEF others, c

-----------------------------------------------------------------------------
(* The costs *)

\* A sum over a list of articles is that of their revenues.
LEMMA RevenuesOf ==
    ASSUME NEW list, NEW amount, \A k \in DOMAIN list : amount[list[k]] = LineRevenue(list[k])
    PROVE  SumOf(list, LineRevenue) = Total(AmountsOf(list, amount))
<1>1. SumOf(list, LineRevenue) = Total([k \in DOMAIN list |-> LineRevenue(list[k])])
  BY OnceIs, Zenon DEF SumOf, Mapped, Once
<1>2. [k \in DOMAIN list |-> LineRevenue(list[k])] = AmountsOf(list, amount)
  BY DEF AmountsOf
<1>3. QED
  BY <1>1, <1>2

\* The articles without a known cost.
Unpriced(ds) == Filter(Sold(ds), LAMBDA item : ~HasCost(ds, item))

\* The revenue of all articles is that of those with a cost and of those without.
LEMMA RevenueSplits ==
    ASSUME NEW ds, IsList(ds.orders), \A o \in ToSet(ds.orders) : IsList(o.items) /\ OrderAmounts(o)
    PROVE  /\ KnownCogs(ds).total = KnownCogs(ds).covered + SumOf(Unpriced(ds), LineRevenue)
           /\ KnownCogs(ds).total = SumOf(Sold(ds), LineRevenue)
           /\ KnownCogs(ds).covered \in Int /\ SumOf(Unpriced(ds), LineRevenue) \in Int
<1> DEFINE list == Sold(ds)
           places == {k \in DOMAIN list : HasCost(ds, list[k])}
           others == DOMAIN list \ places
           amount == [x \in ToSet(list) |-> LineRevenue(x)]
<1>1. IsList(list) /\ \A x \in ToSet(list) : x.quantity \in Int /\ x.price \in Int
  BY SoldFacts
<1>2. /\ KnownCogs(ds).covered = SumOf(WithCost(ds, list), LineRevenue)
      /\ KnownCogs(ds).total = SumOf(list, LineRevenue)
  <2>1. PICK cogs, covered, total : /\ KnownCogs(ds) = [cogs |-> cogs, covered |-> covered, total |-> total]
                                    /\ covered = SumOf(WithCost(ds, list), LineRevenue)
                                    /\ total = SumOf(list, LineRevenue)
    BY Zenon DEF KnownCogs
  <2>2. QED
    BY <2>1
<1>3. WithCost(ds, list) = Picked(list, places)
  BY OnceIs, Zenon DEF WithCost, Filter, Once
<1>4. Unpriced(ds) = Picked(list, others)
  <2>1. Unpriced(ds) = Picked(list, {k \in DOMAIN list : ~HasCost(ds, list[k])})
    BY OnceIs, Zenon DEF Unpriced, Filter, Once
  <2>2. {k \in DOMAIN list : ~HasCost(ds, list[k])} = others
    OBVIOUS
  <2>3. QED
    BY <2>1, <2>2
<1>5. amount \in [ToSet(list) -> Int]
  <2>1. \A x \in ToSet(list) : LineRevenue(x) \in Int
    BY <1>1 DEF LineRevenue
  <2>2. QED
    BY <2>1
<1>6. \A x \in ToSet(list) : amount[x] = LineRevenue(x)
  OBVIOUS
<1>7. places \subseteq DOMAIN list /\ others \subseteq DOMAIN list
  OBVIOUS
<1> HIDE DEF list, amount, places
<1>8. ASSUME NEW here, here \subseteq DOMAIN list
      PROVE  SumOf(Picked(list, here), LineRevenue) = Total(AmountsOf(Picked(list, here), amount))
  <2> DEFINE p == Picked(list, here)
  <2>1. \A i \in DOMAIN p : \E k \in here : p[i] = list[k]
    BY <1>1, <1>8, PickedElements
  <2>2. \A i \in DOMAIN p : p[i] \in ToSet(list)
    BY <1>8, <2>1 DEF ToSet
  <2> HIDE DEF p
  <2>3. \A i \in DOMAIN p : amount[p[i]] = LineRevenue(p[i])
    BY <1>6, <2>2
  <2>4. SumOf(p, LineRevenue) = Total(AmountsOf(p, amount))
    BY <2>3, RevenuesOf, Zenon
  <2>5. QED
    BY <2>4 DEF p
<1>9. SumOf(list, LineRevenue) = Total(AmountsOf(list, amount))
  <2>1. \A k \in DOMAIN list : amount[list[k]] = LineRevenue(list[k])
    BY <1>6 DEF ToSet
  <2>2. QED
    BY <2>1, RevenuesOf, Zenon
<1> DEFINE x == SumOf(Picked(list, places), LineRevenue)
           y == SumOf(Picked(list, others), LineRevenue)
           z == SumOf(list, LineRevenue)
<1>10. z = x + y /\ x \in Int /\ y \in Int
  <2>1. x = Total(AmountsOf(Picked(list, places), amount)) /\ y = Total(AmountsOf(Picked(list, others), amount))
    BY <1>7, <1>8, Zenon
  <2>2. z = Total(AmountsOf(list, amount))
    BY <1>9, Zenon
  <2> HIDE DEF x, y, z
  <2>3. QED
    BY <1>1, <1>5, <1>7, <2>1, <2>2, TotalSplits
<1>11. /\ KnownCogs(ds).covered = x /\ SumOf(Unpriced(ds), LineRevenue) = y
       /\ KnownCogs(ds).total = z /\ SumOf(Sold(ds), LineRevenue) = z
  BY <1>2, <1>3, <1>4, Zenon DEF list, x, y, z
<1> HIDE DEF x, y, z, others
<1>12. QED
  BY <1>10, <1>11

\* The cost of the goods is given only when the articles it leaves out are a thousandth at
\* most of the revenue of all of them, whatever its sign.
LEMMA CogsAreWhole ==
    ASSUME NEW ds, IsList(ds.orders), \A o \in ToSet(ds.orders) : IsList(o.items) /\ OrderAmounts(o),
           Costs(ds).cogs # None
    PROVE  AtMostAThousandth(SumOf(Unpriced(ds), LineRevenue), SumOf(Sold(ds), LineRevenue))
<1> DEFINE x == KnownCogs(ds).covered
           y == SumOf(Unpriced(ds), LineRevenue)
           z == KnownCogs(ds).total
<1>1. z = x + y /\ x \in Int /\ y \in Int /\ z = SumOf(Sold(ds), LineRevenue)
  BY RevenueSplits
<1>2. Costs(ds).cogs = CogsComponent(KnownCogs(ds))
  BY DEF Costs
<1>3. Reaches(x, z, 999)
  BY <1>2 DEF CogsComponent
<1> HIDE DEF x, y, z
<1>4. AtMostAThousandth(y, z)
  BY <1>1, <1>3 DEF Reaches, AtMostAThousandth
<1>5. QED
  BY <1>1, <1>4, Zenon DEF y

\* The fees and the advertising are given only when the files say some.
LEMMA OtherCosts ==
    ASSUME NEW ds
    PROVE  /\ Costs(ds).payment_fees # None => \E p \in ToSet(ds.payments) : p.fee # None
           /\ Costs(ds).advertising # None => ds.ads # << >>
<1>1. Costs(ds).payment_fees = PaymentFees(ds)
  BY DEF Costs
<1>2. Costs(ds).advertising = IF ds.ads = << >> THEN None ELSE TotalSpend(ds)
  BY DEF Costs
<1>3. PaymentFees(ds) # None => ~(\A i \in DOMAIN ds.payments : ds.payments[i].fee = None)
  BY Zenon DEF PaymentFees
<1>4. QED
  BY <1>1, <1>2, <1>3 DEF ToSet

\* The profitability is scored only with the cost of the goods and the split of the refunds.
LEMMA ScoredOnAll ==
    ASSUME NEW ds, ScoreOf(ProfitabilityValue(Profitability(ds)), "profitability") # None
    PROVE  Profitability(ds).costs.cogs # None /\ Profitability(ds).costs.refunds # None
<1> DEFINE costs == Costs(ds)
           revenue == TotalRevenue(ds)
           included == Known(costs)
           profit == Profitability(ds)
<1>1. profit = ProfitabilityFrom(revenue, costs, included)
  BY DEF Profitability, ProfitabilityOf
<1>2. costs.shipping_cost = None
  BY DEF Costs
<1> HIDE DEF revenue, costs, profit
<1>3. "shipping_cost" \in Components /\ "shipping_cost" \notin included
  BY <1>2 DEF Known, Components
<1>4. included # Components
  BY <1>3
<1>5. PICK margin : /\ profit = [ costs |-> costs, missing |-> Components \ included,
                                  data_available |-> (included = Components /\ revenue # 0),
                                  contribution_margin |-> IF included = Components /\ revenue # 0 THEN margin ELSE None,
                                  partial_margin |-> margin ]
  BY <1>1, Zenon DEF ProfitabilityFrom
<1>6. profit.costs = costs /\ profit.missing = Components \ included /\ profit.contribution_margin = None
  BY <1>4, <1>5
<1>7. ProfitabilityValue(profit) # None
  BY DEF ScoreOf, profit
<1>8. profit.missing \cap {"cogs", "refunds"} = {}
  BY <1>6, <1>7 DEF ProfitabilityValue
<1>9. "cogs" \in included /\ "refunds" \in included
  BY <1>6, <1>8 DEF Components
<1>10. costs.cogs # None /\ costs.refunds # None
  BY <1>9 DEF Known
<1>11. QED
  BY <1>6, <1>10 DEF profit

\* A cost is given only when it is whole (analytics/profitability.py compute_profitability,
\* analytics/kpi.py known_cogs): the articles sold without a known cost are a thousandth at
\* most of the net revenue of all articles, of whatever sign, whatever the files say of costs
\* and prices, and the profitability is scored (analytics/health.py) on nothing less than the
\* cost of the goods and the refunds.
THEOREM Costed == Spec => []CostsAreWhole
<1>1. ReportInv => CostsAreWhole
  <2> SUFFICES ASSUME ReportInv, Reported
               PROVE  LET window == Window(Analysed, report.period)
                          costs == report.profitability.costs
                      IN  /\ costs.cogs # None =>
                                AtMostAThousandth(SumOf(Unpriced(window), LineRevenue),
                                                  SumOf(Sold(window), LineRevenue))
                          /\ costs.payment_fees # None => \E p \in ToSet(window.payments) : p.fee # None
                          /\ costs.advertising # None => window.ads # << >>
                          /\ report.health.dimensions.profitability # None =>
                                costs.cogs # None /\ costs.refunds # None
    BY Zenon DEF CostsAreWhole, Unpriced
  <2> DEFINE window == Window(Analysed, report.period)
  <2>1. BookKept(book, export) /\ AmountsKept(book)
    BY DEF ReportInv, SnapshotInv, ReadInv
  <2>2. window = Window(DatasetOf(book), report.period)
    BY AnalysedIs
  <2>3. IsList(window.orders) /\ \A o \in ToSet(window.orders) : IsList(o.items) /\ OrderAmounts(o)
    BY <2>1, <2>2, WindowOrders
  <2>4. /\ report.profitability = Profitability(window)
        /\ report.health.dimensions.profitability = ScoreOf(ProfitabilityValue(Profitability(window)), "profitability")
    <3>1. PICK period : ReportSays(report, Analysed, dataset.quality, period)
      BY DEF ReportInv, Reported, Analysed
    <3>2. report.period = period
      BY <3>1, Zenon DEF ReportSays
    <3>3. QED
      BY <3>1, <3>2, Zenon DEF ReportSays
  <2> HIDE DEF window
  <2>5. Profitability(window).costs = Costs(window)
    <3>1. PICK margin, complete, whole, missing :
            Profitability(window) = [ costs |-> Costs(window), missing |-> missing, data_available |-> complete,
                                      contribution_margin |-> whole, partial_margin |-> margin ]
      BY Zenon DEF Profitability, ProfitabilityOf, ProfitabilityFrom
    <3>2. QED
      BY <3>1
  <2>6. QED
    BY <2>3, <2>4, <2>5, CogsAreWhole, OtherCosts, ScoredOnAll DEF window
<1>2. QED
  BY <1>1, Reports, PTL

-----------------------------------------------------------------------------
(* The first of a list *)

\* What comes before all the rest leads the sorted list.
LEMMA SortedFirst ==
    ASSUME NEW s, IsList(s), NEW R,
           \A i \in DOMAIN s : <<i, i>> \notin R,
           \A i, j, k \in DOMAIN s : <<i, j>> \in R /\ <<j, k>> \in R => <<i, k>> \in R,
           \A i, j \in DOMAIN s : i = j \/ <<i, j>> \in R \/ <<j, i>> \in R,
           NEW lead, lead \subseteq DOMAIN s, lead # {},
           \A i \in lead, j \in DOMAIN s \ lead : <<i, j>> \in R
    PROVE  1 \in DOMAIN s /\ \E k \in lead : Sorted(s, R)[1] = s[k]
<1> DEFINE n == Len(s)
           D == DOMAIN s
           rank == Ranks(D, R)
           Upto(k) == {j \in D : j = k \/ <<j, k>> \in R}
           first == CHOOSE k \in D : rank[k] = 1
<1>1. n \in Nat /\ D = 1 .. n
  BY ListFacts
<1>2. rank \in Bijection(D, D)
  <2>1. /\ \A i \in 1 .. n : <<i, i>> \notin R
        /\ \A i, j, k \in 1 .. n : <<i, j>> \in R /\ <<j, k>> \in R => <<i, k>> \in R
        /\ \A i, j \in 1 .. n : i = j \/ <<i, j>> \in R \/ <<j, i>> \in R
    BY <1>1
  <2>2. Ranks(1 .. n, R) \in Bijection(1 .. n, 1 .. n)
    BY <1>1, <2>1, RanksArePlaces
  <2>3. QED
    BY <1>1, <2>2
<1>3. 1 \in D
  <2>1. PICK k \in lead : k \in D
    OBVIOUS
  <2> HIDE DEF n
  <2>2. QED
    BY <1>1, <2>1
<1>4. Sorted(s, R)[1] = s[first]
  BY <1>3 DEF Sorted
<1>5. first \in D /\ rank[first] = 1
  <2>1. \E k \in D : rank[k] = 1
    BY <1>2, <1>3 DEF Bijection, Surjection
  <2>2. QED
    BY <2>1
<1>6. rank[first] = Cardinality(Upto(first))
  BY <1>5 DEF Ranks
<1> HIDE DEF first, rank
<1>7. IsFiniteSet(Upto(first))
  <2>1. IsFiniteSet(D)
    BY <1>1, FS_Interval
  <2>2. Upto(first) \in SUBSET D
    OBVIOUS
  <2> HIDE DEF D, Upto
  <2>3. QED
    BY <2>1, <2>2, FS_Subset
<1>8. PICK x : Upto(first) = {x}
  BY <1>5, <1>6, <1>7, FS_Singleton
<1>9. first \in Upto(first)
  BY <1>5
<1>10. \A j \in D : <<j, first>> \in R => j = first
  BY <1>8, <1>9
<1>11. first \in lead
  <2> SUFFICES ASSUME first \notin lead PROVE FALSE
    OBVIOUS
  <2>1. PICK k \in lead : k \in D
    OBVIOUS
  <2>2. <<k, first>> \in R
    BY <1>5, <2>1
  <2>3. QED
    BY <1>10, <2>1, <2>2
<1>12. QED
  BY <1>3, <1>4, <1>11

\* What is picked starts with the first of the list when that is picked.
LEMMA PickedFirst ==
    ASSUME NEW list, IsList(list), NEW places, places \subseteq DOMAIN list, 1 \in places
    PROVE  1 \in DOMAIN Picked(list, places) /\ Picked(list, places)[1] = list[1]
<1> DEFINE p == Picked(list, places)
           n == Len(p)
<1>1. PICK at : PlacedBy(at, p, list, places)
  BY PickedFacts
<1>2. IsList(p)
  BY PickedElements
<1>3. n \in Nat /\ DOMAIN p = 1 .. n /\ Len(list) \in Nat /\ DOMAIN list = 1 .. Len(list)
  BY <1>2, ListFacts
<1>4. /\ at \in [1 .. n -> places]
      /\ \A i, j \in 1 .. n : i < j => at[i] < at[j]
      /\ \A i \in 1 .. n : p[i] = list[at[i]]
      /\ \E i \in 1 .. n : at[i] = 1
  BY <1>1 DEF PlacedBy
<1> HIDE DEF p, n
<1>5. PICK i \in 1 .. n : at[i] = 1
  BY <1>4
<1>6. 1 \in 1 .. n
  BY <1>3, <1>5
<1>7. at[1] \in 1 .. Len(list)
  BY <1>3, <1>4, <1>6
<1>8. i = 1
  BY <1>3, <1>4, <1>5, <1>6, <1>7
<1>9. QED
  BY <1>3, <1>4, <1>5, <1>6, <1>8 DEF p

-----------------------------------------------------------------------------
(* The anomalies *)

\* An anomaly says which way its metric went, and whether that is welcome.
IsAnomaly(a) ==
    /\ a.direction \in {"up", "down"} /\ a.severity \in {"high", "medium"}
    /\ a.assessment = Assessment(a.metric, a.direction)

\* What is found of a metric.
FoundOf(ds, period, w) == AnomalyOf(Series(ds, period, Lookback, Watched[w]))

\* A metric has one anomaly at most, large enough or not.
LEMMA FoundIs ==
    ASSUME NEW values
    PROVE  \/ AnomalyAmong(values) = << >>
           \/ \E direction \in {"up", "down"}, severity \in {"high", "medium"} :
                 AnomalyAmong(values) = << [direction |-> direction, severity |-> severity] >>
<1>1. ASSUME NEW delta, NEW expected, NEW variance
      PROVE  \/ Rated(delta, expected, variance) = << >>
             \/ \E direction \in {"up", "down"}, severity \in {"high", "medium"} :
                   Rated(delta, expected, variance) = << [direction |-> direction, severity |-> severity] >>
  <2>1. \E large \in BOOLEAN : \E direction, severity :
          /\ direction = "down" \/ direction = "up"
          /\ severity = "high" \/ severity = "medium"
          /\ Rated(delta, expected, variance) =
               IF large THEN << [direction |-> direction, severity |-> severity] >> ELSE << >>
    BY Zenon DEF Rated
  <2>2. QED
    BY <2>1
<1>2. \/ AnomalyAmong(values) = << >>
      \/ \E delta, expected, variance : AnomalyAmong(values) = Rated(delta, expected, variance)
  BY Zenon DEF AnomalyAmong, LastAgainst, Against
<1>3. ASSUME AnomalyAmong(values) # << >>
      PROVE  \E direction \in {"up", "down"}, severity \in {"high", "medium"} :
                 AnomalyAmong(values) = << [direction |-> direction, severity |-> severity] >>
  <2>1. PICK delta, expected, variance : AnomalyAmong(values) = Rated(delta, expected, variance)
    BY <1>2, <1>3
  <2>2. PICK direction \in {"up", "down"}, severity \in {"high", "medium"} :
          Rated(delta, expected, variance) = << [direction |-> direction, severity |-> severity] >>
    BY <1>1, <1>3, <2>1
  <2>3. QED
    BY <2>1, <2>2
<1>4. QED
  BY <1>3

\* The anomalies of each metric, one at most.
LEMMA AnomalyIs ==
    ASSUME NEW metric, NEW values
    PROVE  LET list == Anomaly(metric, AnomalyAmong(values))
           IN  \/ list = << >>
               \/ \E a : list = << a >> /\ a.metric = metric /\ IsAnomaly(a)
<1> DEFINE found == AnomalyAmong(values)
           Rating(a) == [ metric |-> metric, direction |-> a.direction, severity |-> a.severity,
                        assessment |-> Assessment(metric, a.direction) ]
<1>1. Anomaly(metric, found) = [k \in DOMAIN found |-> Rating(found[k])]
  BY OnceIs, Zenon DEF Anomaly, Mapped, Once
<1>2. CASE found = << >>
  <2> HIDE DEF found, Rating
  <2>1. Anomaly(metric, found) = [k \in {} |-> Rating(found[k])]
    BY <1>1, <1>2
  <2>2. QED
    BY <2>1 DEF found
<1>3. ASSUME NEW direction \in {"up", "down"}, NEW severity \in {"high", "medium"},
             found = << [direction |-> direction, severity |-> severity] >>
      PROVE  \E a : Anomaly(metric, found) = << a >> /\ a.metric = metric /\ IsAnomaly(a)
  <2> DEFINE a == Rating(found[1])
  <2> HIDE DEF found
  <2>1. found[1].direction = direction /\ found[1].severity = severity /\ DOMAIN found = {1}
    BY <1>3
  <2>2. Anomaly(metric, found) = << a >>
    <3> HIDE DEF Rating
    <3>1. Anomaly(metric, found) = [k \in {1} |-> Rating(found[k])]
      BY <1>1, <2>1
    <3>2. QED
      BY <3>1
  <2>3. a = [ metric |-> metric, direction |-> direction, severity |-> severity,
              assessment |-> Assessment(metric, direction) ]
    BY <2>1, Zenon
  <2> HIDE DEF a
  <2>4. a.metric = metric /\ IsAnomaly(a)
    BY <2>3 DEF IsAnomaly
  <2>5. QED
    BY <2>2, <2>4
<1>4. QED
  BY <1>2, <1>3, FoundIs

\* The anomalies of a period: a list, and that of the revenue is there once.
LEMMA AnomaliesAre ==
    ASSUME NEW ds, NEW period
    PROVE  LET anomalies == Anomalies(ds, period)
           IN  /\ IsList(anomalies)
               /\ \A a \in ToSet(anomalies) : IsAnomaly(a)
               /\ \A a, b \in ToSet(anomalies) : a.metric = "revenue" /\ b.metric = "revenue" => a = b
<1> DEFINE Of(w) == Anomaly(Watched[w], AnomalyOf(Series(ds, period, Lookback, Watched[w])))
           lists == [w \in DOMAIN Watched |-> Of(w)]
           V == UNION {ToSet(Of(w)) : w \in DOMAIN Watched}
           anomalies == Anomalies(ds, period)
<1>1. anomalies = Joined(lists)
  BY OnceIs, Zenon DEF Anomalies, Flatten, Once
<1>2. DOMAIN Watched = 1 .. 8 /\ \A w \in DOMAIN Watched : Watched[w] = "revenue" => w = 1
  BY DEF Watched
<1>3. ASSUME NEW w \in DOMAIN Watched
      PROVE  \/ Of(w) = << >>
             \/ \E a : Of(w) = << a >> /\ a.metric = Watched[w] /\ IsAnomaly(a)
  BY AnomalyIs, Zenon DEF AnomalyOf
<1>4. DOMAIN lists = DOMAIN Watched /\ \A w \in DOMAIN Watched : lists[w] = Of(w)
  OBVIOUS
<1>5. IsList(lists)
  <2>1. DOMAIN lists = 1 .. 8 /\ lists = [w \in 1 .. 8 |-> lists[w]]
    BY <1>2
  <2> HIDE DEF lists
  <2>2. 8 \in Nat
    OBVIOUS
  <2>3. QED
    BY <2>1, <2>2, FunctionIsList
<1> HIDE DEF Of
<1>6. ASSUME NEW w \in DOMAIN Watched PROVE Of(w) \in Seq(V)
  <2>1. ToSet(Of(w)) \subseteq V
    OBVIOUS
  <2> HIDE DEF V
  <2>2. CASE Of(w) = << >>
    BY <2>2
  <2>3. ASSUME NEW a, Of(w) = << a >> PROVE Of(w) \in Seq(V)
    <3>1. a \in ToSet(Of(w))
      <4>1. 1 \in DOMAIN Of(w) /\ Of(w)[1] = a
        BY <2>3
      <4>2. QED
        BY <4>1 DEF ToSet
    <3>2. a \in V
      BY <2>1, <3>1
    <3>3. QED
      BY <2>3, <3>2
  <2>4. QED
    BY <1>3, <2>2, <2>3
<1> HIDE DEF lists, V
<1>7. /\ IsList(Joined(lists))
      /\ \A i \in DOMAIN Joined(lists) :
            \E c \in DOMAIN lists : \E k \in DOMAIN lists[c] : Joined(lists)[i] = lists[c][k]
  BY <1>4, <1>5, <1>6, JoinedFacts
<1> HIDE DEF anomalies
<1>8. ASSUME NEW a \in ToSet(anomalies)
      PROVE  \E w \in DOMAIN Watched : Of(w) = << a >> /\ a.metric = Watched[w] /\ IsAnomaly(a)
  <2>1. PICK i \in DOMAIN Joined(lists) : a = Joined(lists)[i]
    BY <1>1 DEF ToSet
  <2>2. PICK w \in DOMAIN Watched : \E k \in DOMAIN Of(w) : a = Of(w)[k]
    BY <1>4, <1>7, <2>1
  <2>3. PICK k \in DOMAIN Of(w) : a = Of(w)[k]
    BY <2>2
  <2>4. Of(w) # << >>
    BY <2>3
  <2>5. PICK x : Of(w) = << x >> /\ x.metric = Watched[w] /\ IsAnomaly(x)
    BY <1>3, <2>4
  <2>6. a = x
    BY <2>3, <2>5
  <2>7. QED
    BY <2>5, <2>6
<1>9. ASSUME NEW a \in ToSet(anomalies), NEW b \in ToSet(anomalies), a.metric = "revenue", b.metric = "revenue"
      PROVE  a = b
  <2>1. Of(1) = << a >>
    BY <1>2, <1>8, <1>9
  <2>2. Of(1) = << b >>
    BY <1>2, <1>8, <1>9
  <2>3. QED
    BY <2>1, <2>2
<1>10. QED
  BY <1>1, <1>7, <1>8, <1>9 DEF anomalies

-----------------------------------------------------------------------------
(* The insights *)

\* An insight is ranked by its severity and its confidence.
IsInsight(x) == x.severity \in {"high", "medium", "low", "info"} /\ x.confidence \in 0 .. 100

DeclinePlaces(anomalies) ==
    {k \in DOMAIN anomalies : anomalies[k].metric = "revenue" /\ anomalies[k].direction = "down"}
EvidenceOf(anomalies, cause) ==
    {"revenue"} \cup {anomalies[i].metric : i \in Attached(anomalies)} \cup ({cause.primary} \ {"none"})
OwnPlaces(anomalies) == {i \in DOMAIN anomalies : i \notin Attached(anomalies) /\ anomalies[i].metric # "revenue"}
DeclineOf(a, evidence) == Insight(<< "revenue_decline", "" >>, a.severity, "critical_issue", evidence, 40)

\* What is made of each element of what is picked.
LEMMA MadeOf ==
    ASSUME NEW list, IsList(list), NEW places, places \subseteq DOMAIN list,
           NEW made, DOMAIN made = DOMAIN Picked(list, places), made = [k \in DOMAIN made |-> made[k]],
           NEW item, \A k \in DOMAIN made : made[k] = item[Picked(list, places)[k]]
    PROVE  /\ IsList(made)
           /\ \A x \in ToSet(made) : \E k \in places : x = item[list[k]]
           /\ \A k \in places : item[list[k]] \in ToSet(made)
<1> DEFINE p == Picked(list, places)
<1>1. /\ IsList(p) /\ \A k \in places : list[k] \in ToSet(p)
      /\ \A i \in DOMAIN p : \E k \in places : p[i] = list[k]
  BY PickedElements
<1> HIDE DEF p
<1>2. Len(p) \in Nat /\ DOMAIN p = 1 .. Len(p)
  BY <1>1, ListFacts
<1>3. DOMAIN made = DOMAIN p /\ \A k \in DOMAIN made : made[k] = item[p[k]]
  BY DEF p
<1>4. IsList(made)
  BY <1>2, <1>3, FunctionIsList
<1>5. QED
  BY <1>1, <1>3, <1>4 DEF ToSet

\* The declines of the revenue become one insight each, that takes the attached metrics as evidence.
LEMMA RevenueInsightsAre ==
    ASSUME NEW anomalies, IsList(anomalies), NEW cause
    PROVE  LET list == RevenueInsights(anomalies, cause)
               evidence == EvidenceOf(anomalies, cause)
           IN  /\ IsList(list)
               /\ \A x \in ToSet(list) : \E k \in DeclinePlaces(anomalies) : x = DeclineOf(anomalies[k], evidence)
               /\ \A k \in DeclinePlaces(anomalies) : DeclineOf(anomalies[k], evidence) \in ToSet(list)
<1> DEFINE places == DeclinePlaces(anomalies)
           p == Picked(anomalies, places)
           evidence == EvidenceOf(anomalies, cause)
           list == RevenueInsights(anomalies, cause)
           item == [a \in ToSet(anomalies) |-> DeclineOf(a, evidence)]
<1>1. Filter(anomalies, LAMBDA a : a.metric = "revenue" /\ a.direction = "down") = p
  BY OnceIs, Zenon DEF Filter, Once, DeclinePlaces
<1>2. list = [k \in DOMAIN p |-> DeclineOf(p[k], evidence)]
  <2>1. list = Mapped(Filter(anomalies, LAMBDA a : a.metric = "revenue" /\ a.direction = "down"),
                      LAMBDA i, a : DeclineOf(a, evidence))
    BY Zenon DEF RevenueInsights, EvidenceOf, DeclineOf
  <2> HIDE DEF p, list, evidence
  <2>2. list = Mapped(p, LAMBDA i, a : DeclineOf(a, evidence))
    BY <1>1, <2>1, Zenon
  <2>3. QED
    BY <2>2, OnceIs, Zenon DEF Mapped, Once
<1>3. places \subseteq DOMAIN anomalies
  BY DEF DeclinePlaces
<1>4. \A a \in ToSet(anomalies) : item[a] = DeclineOf(a, evidence)
  OBVIOUS
<1>5. \A k \in DOMAIN p : p[k] \in ToSet(anomalies)
  <2>1. \A i \in DOMAIN p : \E k \in places : p[i] = anomalies[k]
    BY <1>3, PickedElements
  <2> HIDE DEF p, places
  <2>2. QED
    BY <1>3, <2>1 DEF ToSet
<1>6. \A k \in places : anomalies[k] \in ToSet(anomalies)
  BY <1>3 DEF ToSet
<1> HIDE DEF places, evidence, item
<1>7. /\ DOMAIN list = DOMAIN p /\ list = [k \in DOMAIN list |-> list[k]]
      /\ \A k \in DOMAIN list : list[k] = item[p[k]]
  <2> HIDE DEF p, list
  <2>1. QED
    BY <1>2, <1>4, <1>5
<1> HIDE DEF list
<1>8. /\ IsList(list)
      /\ \A x \in ToSet(list) : \E k \in places : x = item[anomalies[k]]
      /\ \A k \in places : item[anomalies[k]] \in ToSet(list)
  BY <1>3, <1>7, MadeOf
<1>9. /\ \A x \in ToSet(list) : \E k \in places : x = DeclineOf(anomalies[k], evidence)
      /\ \A k \in places : DeclineOf(anomalies[k], evidence) \in ToSet(list)
  BY <1>4, <1>6, <1>8
<1>10. QED
  BY <1>8, <1>9 DEF list, places, evidence

\* The other anomalies become one insight each.
LEMMA OtherInsightsAre ==
    ASSUME NEW anomalies, IsList(anomalies)
    PROVE  LET list == OtherInsights(anomalies)
           IN  /\ IsList(list)
               /\ \A x \in ToSet(list) : \E k \in OwnPlaces(anomalies) : x = OwnInsight(anomalies[k])
               /\ \A k \in OwnPlaces(anomalies) : OwnInsight(anomalies[k]) \in ToSet(list)
<1> DEFINE places == OwnPlaces(anomalies)
           p == Picked(anomalies, places)
           list == OtherInsights(anomalies)
           item == [a \in ToSet(anomalies) |-> OwnInsight(a)]
<1>1. list = [k \in DOMAIN p |-> OwnInsight(p[k])]
  <2>1. list = Mapped(p, LAMBDA i, a : OwnInsight(a))
    BY Zenon DEF OtherInsights, OwnPlaces
  <2> HIDE DEF p, list
  <2>2. QED
    BY <2>1, OnceIs, Zenon DEF Mapped, Once
<1>3. places \subseteq DOMAIN anomalies
  BY DEF OwnPlaces
<1>4. \A a \in ToSet(anomalies) : item[a] = OwnInsight(a)
  OBVIOUS
<1>5. \A k \in DOMAIN p : p[k] \in ToSet(anomalies)
  <2>1. \A i \in DOMAIN p : \E k \in places : p[i] = anomalies[k]
    BY <1>3, PickedElements
  <2> HIDE DEF p, places
  <2>2. QED
    BY <1>3, <2>1 DEF ToSet
<1>6. \A k \in places : anomalies[k] \in ToSet(anomalies)
  BY <1>3 DEF ToSet
<1> HIDE DEF places, item
<1>7. /\ DOMAIN list = DOMAIN p /\ list = [k \in DOMAIN list |-> list[k]]
      /\ \A k \in DOMAIN list : list[k] = item[p[k]]
  <2> HIDE DEF p, list
  <2>1. QED
    BY <1>1, <1>4, <1>5
<1> HIDE DEF list
<1>8. /\ IsList(list)
      /\ \A x \in ToSet(list) : \E k \in places : x = item[anomalies[k]]
      /\ \A k \in places : item[anomalies[k]] \in ToSet(list)
  BY <1>3, <1>7, MadeOf
<1>9. /\ \A x \in ToSet(list) : \E k \in places : x = OwnInsight(anomalies[k])
      /\ \A k \in places : OwnInsight(anomalies[k]) \in ToSet(list)
  BY <1>4, <1>6, <1>8
<1>10. QED
  BY <1>8, <1>9 DEF list, places

\* The products of a period are finitely many.
LEMMA ProductsAreFinite ==
    ASSUME NEW ds, IsList(Sold(ds))
    PROVE  IsFiniteSet(DOMAIN ProductPerformance(ds))
<1> DEFINE items == Sold(ds)
           T == {SkuOf(item) : item \in ToSet(items)}
           f == [k \in DOMAIN items |-> SkuOf(items[k])]
<1>1. DOMAIN ProductPerformance(ds) = T
  BY Zenon DEF ProductPerformance
<1>2. IsFiniteSet(DOMAIN items)
  <2>1. Len(items) \in Nat /\ DOMAIN items = 1 .. Len(items)
    BY ListFacts
  <2>2. IsFiniteSet(1 .. Len(items))
    BY <2>1, FS_Interval
  <2>3. QED
    BY <2>1, <2>2
<1>3. f \in Surjection(DOMAIN items, T)
  <2>1. \A k \in DOMAIN items : items[k] \in ToSet(items)
    BY DEF ToSet
  <2>2. \A item \in ToSet(items) : \E k \in DOMAIN items : item = items[k]
    BY DEF ToSet
  <2> HIDE DEF items
  <2>3. f \in [DOMAIN items -> T]
    BY <2>1
  <2>4. \A t \in T : \E k \in DOMAIN items : f[k] = t
    BY <2>2
  <2>5. QED
    BY <2>3, <2>4 DEF Surjection
<1> HIDE DEF T, f, items
<1>4. QED
  BY <1>1, <1>2, <1>3, FS_Surjection

\* What the figures say is ranked as the rest, and is no decline of the revenue.
LEMMA FigureInsightsAre ==
    ASSUME NEW kpis, NEW profit, NEW products, IsFiniteSet(DOMAIN products), NEW cause
    PROVE  LET list == FigureInsights(kpis, profit, products, cause)
           IN  IsList(list) /\ \A x \in ToSet(list) : IsInsight(x) /\ x.type[1] # "revenue_decline"
<1> DEFINE thin == { sku \in DOMAIN products :
                       /\ products[sku].gross_margin # None
                       /\ Below(products[sku].gross_margin, Percent(20))
                       /\ products[sku].revenue > 0 }
           margins == [ i \in 1..Cardinality(thin) |-> Insight(<< "low_margin_product", "" >>, "medium", "warning", {}, 70) ]
           Fine(x) == IsInsight(x) /\ x.type[1] # "revenue_decline"
           FineList(s) == IsList(s) /\ \A x \in ToSet(s) : Fine(x)
           ia == Insight(<< "profitability_unavailable", "" >>, "medium", "warning", profit.missing, 90)
           ib == Insight(<< "customer_concentration", "" >>, "medium", "warning", {}, 60)
           ic == Insight(<< "campaign_opportunity", "" >>, "info", "opportunity", {}, 40)
           concentration == kpis.customer_concentration_top5.value
           rising == { k \in DOMAIN cause.campaigns : cause.campaigns[k] > 0 }
           a == IF ~profit.data_available THEN << ia >> ELSE << >>
           b == IF (IF concentration = None THEN FALSE ELSE AtMost(Percent(40), concentration)) THEN << ib >> ELSE << >>
           c == IF rising # {} THEN << ic >> ELSE << >>
<1>1. /\ FigureInsights(kpis, profit, products, cause) = a \o margins \o b \o c
      /\ (a = << >> \/ a = << ia >>) /\ (b = << >> \/ b = << ib >>) /\ (c = << >> \/ c = << ic >>)
  <2>1. FigureInsights(kpis, profit, products, cause) = a \o margins \o b \o c
    BY Zenon DEF FigureInsights
  <2> HIDE DEF ia, ib, ic, concentration, rising
  <2>2. (a = << >> \/ a = << ia >>) /\ (b = << >> \/ b = << ib >>) /\ (c = << >> \/ c = << ic >>)
    BY Zenon
  <2>3. QED
    BY <2>1, <2>2, Zenon
<1> HIDE DEF a, b, c
<1>2. ASSUME NEW x, Fine(x) PROVE FineList(<< x >>)
  <2> HIDE DEF Fine
  <2>1. << x >> \in Seq({x}) /\ DOMAIN << x >> = {1} /\ << x >>[1] = x
    OBVIOUS
  <2>2. IsList(<< x >>)
    BY <2>1, SeqIsList
  <2>3. QED
    BY <1>2, <2>1, <2>2 DEF ToSet
<1>3. FineList(<< >>)
  BY EmptyList
<1>4. Fine(ia) /\ Fine(ib) /\ Fine(ic)
  BY DEF Insight, IsInsight
<1>5. FineList(margins)
  <2>1. Cardinality(thin) \in Nat
    <3>1. thin \in SUBSET (DOMAIN products)
      OBVIOUS
    <3> HIDE DEF thin
    <3>2. QED
      BY <3>1, FS_Subset, FS_CardinalityType
  <2> DEFINE n == Cardinality(thin)
             x == Insight(<< "low_margin_product", "" >>, "medium", "warning", {}, 70)
  <2>2. Fine(x)
    BY DEF Insight, IsInsight
  <2> HIDE DEF Fine, thin
  <2>6. margins = [i \in 1 .. n |-> x]
    OBVIOUS
  <2> HIDE DEF n, x, margins
  <2>3. DOMAIN margins = 1 .. n /\ margins = [i \in 1 .. n |-> margins[i]] /\ \A i \in 1 .. n : margins[i] = x
    BY <2>6
  <2>4. IsList(margins)
    BY <2>1, <2>3, FunctionIsList DEF n
  <2>5. QED
    BY <2>2, <2>3, <2>4 DEF ToSet
<1>6. ASSUME NEW s, NEW t, FineList(s), FineList(t) PROVE FineList(s \o t)
  <2> HIDE DEF Fine
  <2> DEFINE u == s \o t
  <2>1. /\ IsList(u)
        /\ \A k \in DOMAIN u : \/ k \in DOMAIN s /\ u[k] = s[k]
                               \/ k - Len(s) \in DOMAIN t /\ u[k] = t[k - Len(s)]
    BY <1>6, ConcatFacts
  <2> HIDE DEF u
  <2>2. \A k \in DOMAIN u : u[k] \in ToSet(s) \/ u[k] \in ToSet(t)
    BY <2>1 DEF ToSet
  <2>3. \A x \in ToSet(u) : Fine(x)
    BY <1>6, <2>2 DEF ToSet
  <2>4. QED
    BY <2>1, <2>3 DEF u
<1> HIDE DEF Fine, margins
<1>7. FineList(a) /\ FineList(b) /\ FineList(c)
  <2> HIDE DEF FineList, ia, ib, ic
  <2>1. FineList(<< ia >>) /\ FineList(<< ib >>) /\ FineList(<< ic >>)
    BY <1>2, <1>4
  <2>2. QED
    BY <1>1, <1>3, <2>1
<1> HIDE DEF FineList
<1>8. FineList(a \o margins \o b \o c)
  BY <1>5, <1>6, <1>7
<1>9. QED
  BY <1>1, <1>8 DEF FineList, Fine

-----------------------------------------------------------------------------
(* The order of the insights *)

\* The declines lead, then severity, then confidence.
KeyOf(x) ==
    (IF x.type[1] = "revenue_decline" THEN 0 ELSE 100000) + 10000 * SeverityRank(x) + 10 * (100 - x.confidence)
InsightOrder(all) ==
    {p \in (DOMAIN all) \X (DOMAIN all) :
        KeyOf(all[p[1]]) < KeyOf(all[p[2]]) \/ (KeyOf(all[p[1]]) = KeyOf(all[p[2]]) /\ p[1] < p[2])}

\* A decline has a lower key than any other.
LEMMA KeysAre ==
    ASSUME NEW x, IsInsight(x)
    PROVE  KeyOf(x) \in Nat /\ (x.type[1] = "revenue_decline" <=> KeyOf(x) < 100000)
<1>1. SeverityRank(x) \in 0 .. 3
  BY DEF SeverityRank
<1>2. x.confidence \in 0 .. 100
  BY DEF IsInsight
<1>3. QED
  BY <1>1, <1>2 DEF KeyOf

\* The order of a list of insights is strict and total.
LEMMA OrderIsStrict ==
    ASSUME NEW all, IsList(all), \A x \in ToSet(all) : IsInsight(x)
    PROVE  LET R == InsightOrder(all)
           IN  /\ \A i \in DOMAIN all : <<i, i>> \notin R
               /\ \A i, j, k \in DOMAIN all : <<i, j>> \in R /\ <<j, k>> \in R => <<i, k>> \in R
               /\ \A i, j \in DOMAIN all : i = j \/ <<i, j>> \in R \/ <<j, i>> \in R
               /\ \A i, j \in DOMAIN all : KeyOf(all[i]) < KeyOf(all[j]) => <<i, j>> \in R
<1> DEFINE key == [i \in DOMAIN all |-> KeyOf(all[i])]
           R == InsightOrder(all)
<1>1. Len(all) \in Nat /\ DOMAIN all = 1 .. Len(all)
  BY ListFacts
<1>2. \A i \in DOMAIN all : key[i] \in Nat /\ key[i] = KeyOf(all[i])
  BY KeysAre DEF ToSet
<1> HIDE DEF key
<1>3. \A i, j \in DOMAIN all : <<i, j>> \in R <=> (key[i] < key[j] \/ (key[i] = key[j] /\ i < j))
  <2>1. \A i, j \in DOMAIN all :
          <<i, j>> \in R <=> (KeyOf(all[i]) < KeyOf(all[j]) \/ (KeyOf(all[i]) = KeyOf(all[j]) /\ i < j))
    BY DEF InsightOrder
  <2> HIDE DEF R
  <2>2. ASSUME NEW i \in DOMAIN all, NEW j \in DOMAIN all
        PROVE  <<i, j>> \in R <=> (key[i] < key[j] \/ (key[i] = key[j] /\ i < j))
    <3>1. key[i] = KeyOf(all[i]) /\ key[j] = KeyOf(all[j])
      BY <1>2
    <3>2. <<i, j>> \in R <=> (KeyOf(all[i]) < KeyOf(all[j]) \/ (KeyOf(all[i]) = KeyOf(all[j]) /\ i < j))
      BY <2>1
    <3>3. QED
      BY <3>1, <3>2
  <2>3. QED
    BY <2>2, Zenon
<1> HIDE DEF R
<1>4. \A i \in DOMAIN all : i \in Nat
  BY <1>1
<1>5. \A i \in DOMAIN all : <<i, i>> \notin R
  BY <1>2, <1>3, <1>4
<1>6. \A i, j, k \in DOMAIN all : <<i, j>> \in R /\ <<j, k>> \in R => <<i, k>> \in R
  BY <1>2, <1>3, <1>4
<1>7. ASSUME NEW i \in DOMAIN all, NEW j \in DOMAIN all PROVE i = j \/ <<i, j>> \in R \/ <<j, i>> \in R
  <2>1. i \in Nat /\ j \in Nat /\ key[i] \in Nat /\ key[j] \in Nat
    BY <1>2, <1>4
  <2>2. key[i] < key[j] \/ key[j] < key[i] \/ (key[i] = key[j] /\ (i < j \/ j < i \/ i = j))
    BY <2>1
  <2>3. QED
    BY <1>3, <2>2
<1>8. \A i, j \in DOMAIN all : KeyOf(all[i]) < KeyOf(all[j]) => <<i, j>> \in R
  BY <1>2, <1>3
<1>9. QED
  BY <1>5, <1>6, <1>7, <1>8 DEF R

\* The insights of a report are those of the three lists, declines first.
LEMMA InsightsAre ==
    ASSUME NEW kpis, NEW anomalies, IsList(anomalies), \A a \in ToSet(anomalies) : IsAnomaly(a),
           NEW cause, NEW profit, NEW products, IsFiniteSet(DOMAIN products)
    PROVE  LET insights == Insights(kpis, anomalies, cause, profit, products)
               evidence == EvidenceOf(anomalies, cause)
           IN  /\ IsList(insights)
               /\ \A k \in DeclinePlaces(anomalies) : DeclineOf(anomalies[k], evidence) \in ToSet(insights)
               /\ \A k \in OwnPlaces(anomalies) : OwnInsight(anomalies[k]) \in ToSet(insights)
               /\ DeclinePlaces(anomalies) # {} =>
                     /\ 1 \in DOMAIN insights
                     /\ \E k \in DeclinePlaces(anomalies) : insights[1] = DeclineOf(anomalies[k], evidence)
<1> DEFINE evidence == EvidenceOf(anomalies, cause)
           declines == DeclinePlaces(anomalies)
           own == OwnPlaces(anomalies)
           r == RevenueInsights(anomalies, cause)
           o == OtherInsights(anomalies)
           f == FigureInsights(kpis, profit, products, cause)
           all == r \o o \o f
           R == InsightOrder(all)
           insights == Insights(kpis, anomalies, cause, profit, products)
<1>1. insights = Sorted(all, R)
  <2> DEFINE Key(i) == (IF all[i].type[1] = "revenue_decline" THEN 0 ELSE 100000)
                       + 10000 * SeverityRank(all[i]) + 10 * (100 - all[i].confidence)
             Q == { p \in (DOMAIN all) \X (DOMAIN all) :
                        Key(p[1]) < Key(p[2]) \/ (Key(p[1]) = Key(p[2]) /\ p[1] < p[2]) }
  <2>1. insights = Sorted(all, Q)
    BY DEF Insights
  <2>2. \A i : Key(i) = KeyOf(all[i])
    BY DEF KeyOf
  <2> HIDE DEF Key, all, insights
  <2>3. Q = R
    BY <2>2, Zenon DEF InsightOrder
  <2>4. QED
    BY <2>1, <2>3
<1>2. /\ IsList(r)
      /\ \A x \in ToSet(r) : \E k \in declines : x = DeclineOf(anomalies[k], evidence)
      /\ \A k \in declines : DeclineOf(anomalies[k], evidence) \in ToSet(r)
  BY RevenueInsightsAre
<1>3. /\ IsList(o)
      /\ \A x \in ToSet(o) : \E k \in own : x = OwnInsight(anomalies[k])
      /\ \A k \in own : OwnInsight(anomalies[k]) \in ToSet(o)
  BY OtherInsightsAre
<1>4. IsList(f) /\ \A x \in ToSet(f) : IsInsight(x) /\ x.type[1] # "revenue_decline"
  BY FigureInsightsAre
<1>5. \A k \in declines \cup own : k \in DOMAIN anomalies /\ IsAnomaly(anomalies[k])
  BY DEF DeclinePlaces, OwnPlaces, ToSet
<1> HIDE DEF r, o, f, declines, own, evidence
<1>6. ASSUME NEW a, IsAnomaly(a)
      PROVE  /\ IsInsight(DeclineOf(a, evidence)) /\ DeclineOf(a, evidence).type[1] = "revenue_decline"
             /\ IsInsight(OwnInsight(a)) /\ OwnInsight(a).type[1] = "anomaly"
  BY <1>6 DEF IsAnomaly, IsInsight, DeclineOf, OwnInsight, Insight
<1>7. \A x \in ToSet(r) : IsInsight(x) /\ x.type[1] = "revenue_decline"
  BY <1>2, <1>5, <1>6
<1>8. \A x \in ToSet(o) : IsInsight(x) /\ x.type[1] # "revenue_decline"
  <2>1. \A k \in own : IsInsight(OwnInsight(anomalies[k])) /\ OwnInsight(anomalies[k]).type[1] = "anomaly"
    BY <1>5, <1>6
  <2>2. QED
    BY <1>3, <2>1
<1> DEFINE ro == r \o o
<1>9. /\ IsList(ro)
      /\ \A k \in DOMAIN ro : ro[k] \in ToSet(r) \/ ro[k] \in ToSet(o)
      /\ \A x \in ToSet(r) \cup ToSet(o) : x \in ToSet(ro)
  <2>1. /\ IsList(ro)
        /\ \A k \in DOMAIN ro : \/ k \in DOMAIN r /\ ro[k] = r[k]
                                \/ k - Len(r) \in DOMAIN o /\ ro[k] = o[k - Len(r)]
        /\ \A k \in DOMAIN r : r[k] \in ToSet(ro)
        /\ \A k \in DOMAIN o : o[k] \in ToSet(ro)
    BY <1>2, <1>3, ConcatFacts
  <2> HIDE DEF ro
  <2>2. QED
    BY <2>1 DEF ToSet
<1>10. /\ IsList(all)
       /\ \A k \in DOMAIN all : all[k] \in ToSet(ro) \/ all[k] \in ToSet(f)
       /\ \A x \in ToSet(ro) \cup ToSet(f) : x \in ToSet(all)
  <2> HIDE DEF ro
  <2>1. all = ro \o f
    BY DEF ro
  <2> HIDE DEF all
  <2>2. /\ IsList(all)
        /\ \A k \in DOMAIN all : \/ k \in DOMAIN ro /\ all[k] = ro[k]
                                 \/ k - Len(ro) \in DOMAIN f /\ all[k] = f[k - Len(ro)]
        /\ \A k \in DOMAIN ro : ro[k] \in ToSet(all)
        /\ \A k \in DOMAIN f : f[k] \in ToSet(all)
    BY <1>4, <1>9, <2>1, ConcatFacts
  <2>3. QED
    BY <2>2 DEF ToSet
<1> HIDE DEF all, ro
<1>11. \A k \in DOMAIN all : all[k] \in ToSet(r) \/ all[k] \in ToSet(o) \/ all[k] \in ToSet(f)
  BY <1>9, <1>10 DEF ToSet
<1>12. \A x \in ToSet(all) : IsInsight(x)
  BY <1>4, <1>7, <1>8, <1>11 DEF ToSet
<1>13. /\ \A i \in DOMAIN all : <<i, i>> \notin R
       /\ \A i, j, k \in DOMAIN all : <<i, j>> \in R /\ <<j, k>> \in R => <<i, k>> \in R
       /\ \A i, j \in DOMAIN all : i = j \/ <<i, j>> \in R \/ <<j, i>> \in R
       /\ \A i, j \in DOMAIN all : KeyOf(all[i]) < KeyOf(all[j]) => <<i, j>> \in R
  BY <1>10, <1>12, OrderIsStrict
<1> HIDE DEF R
<1>14. Permuted(all, insights)
  BY <1>1, <1>10, <1>13, SortedIsPermuted
<1>15. IsList(insights) /\ ToSet(insights) = ToSet(all)
  BY <1>10, <1>14, PermutedFacts
<1> HIDE DEF insights
<1>16. ASSUME declines # {}
       PROVE  1 \in DOMAIN insights /\ \E k \in declines : insights[1] = DeclineOf(anomalies[k], evidence)
  <2> DEFINE lead == {k \in DOMAIN all : all[k] \in ToSet(r)}
  <2>1. lead # {}
    <3>1. PICK k \in declines : DeclineOf(anomalies[k], evidence) \in ToSet(r)
      BY <1>2, <1>16
    <3>2. DeclineOf(anomalies[k], evidence) \in ToSet(all)
      BY <1>9, <1>10, <3>1
    <3>3. QED
      BY <3>1, <3>2 DEF ToSet
  <2>2. ASSUME NEW i \in lead, NEW j \in DOMAIN all \ lead PROVE <<i, j>> \in R
    <3>1. i \in DOMAIN all /\ IsInsight(all[i]) /\ all[i].type[1] = "revenue_decline"
      BY <1>7, <2>2
    <3>2. j \in DOMAIN all /\ IsInsight(all[j]) /\ all[j].type[1] # "revenue_decline"
      BY <1>4, <1>8, <1>11, <2>2
    <3>3. KeyOf(all[i]) \in Nat /\ KeyOf(all[i]) < 100000 /\ KeyOf(all[j]) \in Nat /\ ~(KeyOf(all[j]) < 100000)
      BY <3>1, <3>2, KeysAre
    <3>4. KeyOf(all[i]) < KeyOf(all[j])
      BY <3>3
    <3>5. QED
      BY <1>13, <3>1, <3>2, <3>4
  <2>3. lead \subseteq DOMAIN all
    OBVIOUS
  <2>4. 1 \in DOMAIN all /\ \E k \in lead : Sorted(all, R)[1] = all[k]
    <3> HIDE DEF lead
    <3>1. QED
      BY <1>10, <1>13, <2>1, <2>2, <2>3, SortedFirst
  <2>5. insights[1] \in ToSet(r)
    BY <1>1, <2>4
  <2>6. DOMAIN insights = DOMAIN all
    BY <1>10, <1>14, PermutedFacts
  <2>7. QED
    BY <1>2, <2>4, <2>5, <2>6
<1>17. QED
  BY <1>2, <1>3, <1>9, <1>10, <1>15, <1>16 DEF insights, evidence, declines, own

\* The insights of a category are some of the insights.
LEMMA CategoryIs ==
    ASSUME NEW insights, IsList(insights), NEW category
    PROVE  LET list == InCategory(insights, category)
           IN  /\ \A x \in ToSet(insights) : x.category = category => x \in ToSet(list)
               /\ 1 \in DOMAIN insights /\ insights[1].category = category =>
                     1 \in DOMAIN list /\ list[1] = insights[1]
<1> DEFINE places == {k \in DOMAIN insights : insights[k].category = category}
           list == InCategory(insights, category)
<1>1. list = Picked(insights, places)
  BY OnceIs, Zenon DEF InCategory, Filter, Once
<1>2. places \subseteq DOMAIN insights
  OBVIOUS
<1>3. \A x \in ToSet(insights) : x.category = category => \E k \in places : x = insights[k]
  BY DEF ToSet
<1>4. 1 \in DOMAIN insights /\ insights[1].category = category => 1 \in places
  OBVIOUS
<1> HIDE DEF places, list
<1>5. \A k \in places : insights[k] \in ToSet(list)
  BY <1>1, <1>2, PickedElements
<1>6. 1 \in places => 1 \in DOMAIN list /\ list[1] = insights[1]
  BY <1>1, <1>2, PickedFirst
<1>7. QED
  BY <1>3, <1>4, <1>5, <1>6 DEF list

\* What is unwelcome is told by an alarm of its own, or by that of the revenue.
LEMMA UnwelcomeIsTold ==
    ASSUME NEW anomalies, IsList(anomalies), \A a \in ToSet(anomalies) : IsAnomaly(a),
           \A a, b \in ToSet(anomalies) : a.metric = "revenue" /\ b.metric = "revenue" => a = b,
           NEW cause, NEW insights, IsList(insights),
           \A k \in DeclinePlaces(anomalies) : DeclineOf(anomalies[k], EvidenceOf(anomalies, cause)) \in ToSet(insights),
           \A k \in OwnPlaces(anomalies) : OwnInsight(anomalies[k]) \in ToSet(insights),
           DeclinePlaces(anomalies) # {} =>
              /\ 1 \in DOMAIN insights
              /\ \E k \in DeclinePlaces(anomalies) :
                    insights[1] = DeclineOf(anomalies[k], EvidenceOf(anomalies, cause)),
           NEW a \in ToSet(anomalies), a.assessment = "unfavorable"
    PROVE  LET critical == InCategory(insights, "critical_issue")
               warnings == InCategory(insights, "warning")
           IN  \E i \in ToSet(critical) \cup ToSet(warnings) :
                  /\ a.metric \in i.evidence
                  /\ i.type[1] = "revenue_decline" => critical[1] = i
<1> DEFINE evidence == EvidenceOf(anomalies, cause)
           declines == DeclinePlaces(anomalies)
           critical == InCategory(insights, "critical_issue")
           warnings == InCategory(insights, "warning")
           Alarm == \E i \in ToSet(critical) \cup ToSet(warnings) :
                       /\ a.metric \in i.evidence
                       /\ i.type[1] = "revenue_decline" => critical[1] = i
<1>1. /\ \A x \in ToSet(insights) : x.category = "critical_issue" => x \in ToSet(critical)
      /\ \A x \in ToSet(insights) : x.category = "warning" => x \in ToSet(warnings)
      /\ 1 \in DOMAIN insights /\ insights[1].category = "critical_issue" => critical[1] = insights[1]
  BY CategoryIs
<1>2. PICK place \in DOMAIN anomalies : a = anomalies[place]
  BY DEF ToSet
<1>3. IsAnomaly(a)
  OBVIOUS
<1> HIDE DEF critical, warnings
<1>4. ASSUME NEW k \in declines, a.metric \in evidence
      PROVE  Alarm
  <2> DEFINE i == DeclineOf(anomalies[k], evidence)
  <2>1. i.category = "critical_issue" /\ i.evidence = evidence
    BY DEF DeclineOf, Insight
  <2>2. i \in ToSet(insights)
    OBVIOUS
  <2>3. 1 \in DOMAIN insights /\ insights[1] = i
    <3>1. PICK l \in declines : 1 \in DOMAIN insights /\ insights[1] = DeclineOf(anomalies[l], evidence)
      BY <1>4
    <3>2. anomalies[k] = anomalies[l]
      BY DEF DeclinePlaces, ToSet
    <3>3. QED
      BY <3>1, <3>2
  <2> HIDE DEF i
  <2>4. QED
    BY <1>1, <1>4, <2>1, <2>2, <2>3
<1> HIDE DEF declines, evidence
<1>5. ASSUME a.metric = "revenue" PROVE Alarm
  <2>1. a.direction = "down"
    BY <1>3, <1>5 DEF IsAnomaly, Assessment
  <2>2. place \in declines /\ a.metric \in evidence
    BY <1>2, <1>5, <2>1 DEF declines, evidence, DeclinePlaces, EvidenceOf
  <2>3. QED
    BY <1>4, <2>2
<1>6. ASSUME place \in Attached(anomalies) PROVE Alarm
  <2>1. \E j \in DOMAIN anomalies : anomalies[j].metric = "revenue" /\ anomalies[j].direction = "down"
    BY <1>6 DEF Attached
  <2>2. PICK j \in declines : TRUE
    BY <2>1 DEF declines, DeclinePlaces
  <2>3. a.metric \in evidence
    BY <1>2, <1>6 DEF evidence, EvidenceOf
  <2>4. QED
    BY <1>4, <2>2, <2>3
<1>7. ASSUME a.metric # "revenue", place \notin Attached(anomalies) PROVE Alarm
  <2> DEFINE i == OwnInsight(a)
  <2>1. i \in ToSet(insights)
    BY <1>2, <1>7 DEF OwnPlaces
  <2>2. /\ i.type[1] = "anomaly" /\ i.evidence = {a.metric}
        /\ i.category = "critical_issue" \/ i.category = "warning"
    BY <1>3 DEF IsAnomaly, Assessment, OwnInsight, Insight
  <2> HIDE DEF i
  <2>3. i \in ToSet(critical) \cup ToSet(warnings)
    BY <1>1, <2>1, <2>2
  <2>4. QED
    BY <2>2, <2>3
<1>8. QED
  BY <1>5, <1>6, <1>7 DEF critical, warnings

\* No unwelcome anomaly is silent (analytics/insights.py build_insights): it is an alarm of its
\* own, or evidence of the decline of the revenue, which is then the first critical issue of the
\* report, whatever else the figures say.
THEOREM Alarmed == Spec => []AlarmsAreTold
<1>1. ReportInv => AlarmsAreTold
  <2> SUFFICES ASSUME ReportInv, Reported PROVE AlarmsAreTold
    BY Zenon DEF AlarmsAreTold
  <2>1. BookKept(book, export) /\ AmountsKept(book)
    BY DEF ReportInv, SnapshotInv, ReadInv
  <2>2. PICK period : ReportSays(report, Analysed, dataset.quality, period)
    BY DEF ReportInv, Reported, Analysed
  <2> DEFINE window == Window(Analysed, period)
             facts == FactsOf(Analysed, dataset.quality, period, window)
             kpis == facts.kpis
             profit == Profitability(window)
             products == ProductPerformance(window)
             anomalies == Anomalies(Analysed, period)
             cause == RootCause(Analysed, period)
             insights == Insights(kpis, anomalies, cause, profit, products)
  <2>3. /\ report.anomalies = anomalies
        /\ report.critical_issues = InCategory(insights, "critical_issue")
        /\ report.warnings = InCategory(insights, "warning")
    BY <2>2, Zenon DEF ReportSays
  <2>4. IsFiniteSet(DOMAIN products)
    <3>1. window = Window(DatasetOf(book), period)
      BY AnalysedIs
    <3> HIDE DEF window
    <3>2. IsList(window.orders) /\ \A o \in ToSet(window.orders) : IsList(o.items) /\ OrderAmounts(o)
      BY <2>1, <3>1, WindowOrders
    <3>3. IsList(Sold(window))
      BY <3>2, SoldFacts
    <3>4. QED
      BY <3>3, ProductsAreFinite
  <2>5. /\ IsList(anomalies)
        /\ \A a \in ToSet(anomalies) : IsAnomaly(a)
        /\ \A a, b \in ToSet(anomalies) : a.metric = "revenue" /\ b.metric = "revenue" => a = b
    BY AnomaliesAre
  <2> HIDE DEF kpis, profit, products, anomalies, cause, window, facts
  <2>6. /\ IsList(insights)
        /\ \A k \in DeclinePlaces(anomalies) : DeclineOf(anomalies[k], EvidenceOf(anomalies, cause)) \in ToSet(insights)
        /\ \A k \in OwnPlaces(anomalies) : OwnInsight(anomalies[k]) \in ToSet(insights)
        /\ DeclinePlaces(anomalies) # {} =>
              /\ 1 \in DOMAIN insights
              /\ \E k \in DeclinePlaces(anomalies) :
                    insights[1] = DeclineOf(anomalies[k], EvidenceOf(anomalies, cause))
    BY <2>4, <2>5, InsightsAre
  <2> HIDE DEF insights
  <2>7. ASSUME NEW a \in ToSet(anomalies), a.assessment = "unfavorable"
        PROVE  \E i \in ToSet(report.critical_issues) \cup ToSet(report.warnings) :
                  /\ a.metric \in i.evidence
                  /\ i.type[1] = "revenue_decline" => report.critical_issues[1] = i
    <3>1. \E i \in ToSet(InCategory(insights, "critical_issue")) \cup ToSet(InCategory(insights, "warning")) :
                  /\ a.metric \in i.evidence
                  /\ i.type[1] = "revenue_decline" => InCategory(insights, "critical_issue")[1] = i
      BY <2>5, <2>6, <2>7, UnwelcomeIsTold
    <3>2. QED
      BY <2>3, <3>1
  <2>8. QED
    BY <2>3, <2>7, Zenon DEF AlarmsAreTold
<1>2. QED
  BY <1>1, Reports, PTL

-----------------------------------------------------------------------------
(* The refunds *)

\* The order of a refund.
OrderFor(ds, r) == CHOOSE o \in ToSet(ds.orders) : o.id = r.order

\* A part of a refund that its order allows: the products are not refunded more than they were
\* paid, nor the rest.
Possible(ds, r, part) ==
    part <= OrderFor(ds, r).subtotal /\ r.amount - part <= OrderFor(ds, r).total - OrderFor(ds, r).subtotal

\* The part of a refund lies within its bounds, and near the higher when they meet.
LEMMA PartIsBounded ==
    ASSUME NEW ds, \A o \in ToSet(ds.orders) : OrderAmounts(o),
           \A o, p \in ToSet(ds.orders) : o.id = p.id => o = p,
           NEW r, r.amount \in Int, NEW part \in Int, 0 <= part, part <= r.amount, Possible(ds, r, part)
    PROVE  LET bounds == RefundPart(ds, r)
           IN  /\ bounds.low \in Int /\ bounds.high \in Int
               /\ bounds.low <= part /\ part <= bounds.high
               /\ ~bounds.open => bounds.high <= part + Tolerance
<1> DEFINE orders == {o \in ToSet(ds.orders) : o.id = r.order}
           order == CHOOSE o \in orders : TRUE
           low == PartLow(r.amount, order.subtotal, order.total)
           high == PartHigh(r.amount, order.subtotal)
           bounds == RefundPart(ds, r)
           wide == [low |-> 0, high |-> r.amount, open |-> TRUE]
           near == [low |-> IF low < high THEN low ELSE high, high |-> high, open |-> high - low > Tolerance]
<1>1. bounds = IF orders = {} THEN wide
               ELSE IF Incoherent(r.amount, order.subtotal, order.total) THEN wide ELSE near
  BY Zenon DEF RefundPart
<1>2. Tolerance \in Nat
  BY AmountAssumption
<1>3. ASSUME bounds = wide
      PROVE  /\ bounds.low \in Int /\ bounds.high \in Int
             /\ bounds.low <= part /\ part <= bounds.high
             /\ ~bounds.open => bounds.high <= part + Tolerance
  <2> HIDE DEF bounds
  <2>1. bounds.low = 0 /\ bounds.high = r.amount /\ bounds.open = TRUE
    BY <1>3
  <2>2. QED
    BY <2>1
<1>4. ASSUME orders # {}, bounds = near
      PROVE  /\ bounds.low \in Int /\ bounds.high \in Int
             /\ bounds.low <= part /\ part <= bounds.high
             /\ ~bounds.open => bounds.high <= part + Tolerance
  <2>1. order \in ToSet(ds.orders) /\ order.id = r.order
    BY <1>4
  <2>2. OrderFor(ds, r) = order
    <3> HIDE DEF order
    <3>1. QED
      BY <2>1 DEF OrderFor
  <2> HIDE DEF order
  <2>3. order.subtotal \in Int /\ order.total \in Int
    BY <2>1 DEF OrderAmounts
  <2> DEFINE s == order.subtotal
             t == order.total
             a == r.amount
  <2>4. s \in Int /\ t \in Int /\ a \in Int /\ part <= s /\ a - part <= t - s
    BY <2>2, <2>3 DEF Possible
  <2>5. low = (IF a - (t - s) > 0 THEN a - (t - s) ELSE 0) /\ high = (IF a < s THEN a ELSE s)
    BY DEF PartLow, PartHigh
  <2> HIDE DEF s, t, a, low, high, bounds
  <2>6. part <= a
    BY DEF a
  <2>7. low \in Int /\ high \in Int /\ low <= part /\ part <= high
    BY <2>4, <2>5, <2>6
  <2>8. /\ bounds.low = (IF low < high THEN low ELSE high) /\ bounds.high = high
        /\ bounds.open = (high - low > Tolerance)
    BY <1>4
  <2>9. /\ bounds.low \in Int /\ bounds.high \in Int
        /\ bounds.low <= part /\ part <= bounds.high
    BY <2>7, <2>8
  <2>10. high - low > Tolerance \/ high <= part + Tolerance
    BY <1>2, <2>7
  <2>11. QED
    BY <2>8, <2>9, <2>10
<1>5. QED
  BY <1>1, <1>3, <1>4

\* The orders of a dataset, each once, and what is a split of some refunds.
OrdersOnce(ds) ==
    /\ \A o \in ToSet(ds.orders) : OrderAmounts(o)
    /\ \A o, p \in ToSet(ds.orders) : o.id = p.id => o = p
AreRefunds(refunds) == IsList(refunds) /\ \A r \in ToSet(refunds) : r.amount \in Int
IsSplit(ds, refunds, split) ==
    /\ DOMAIN split = DOMAIN refunds /\ split = [k \in DOMAIN split |-> split[k]]
    /\ \A k \in DOMAIN refunds : /\ split[k] \in Int /\ 0 <= split[k] /\ split[k] <= refunds[k].amount
                                  /\ Possible(ds, refunds[k], split[k])
AreBounds(ds, refunds, lows, highs) ==
    /\ DOMAIN lows = DOMAIN refunds /\ lows = [k \in DOMAIN lows |-> lows[k]]
    /\ \A k \in DOMAIN refunds : lows[k] = RefundPart(ds, refunds[k]).low
    /\ DOMAIN highs = DOMAIN refunds /\ highs = [k \in DOMAIN highs |-> highs[k]]
    /\ \A k \in DOMAIN refunds : highs[k] = RefundPart(ds, refunds[k]).high
NoneIsOpen(ds, refunds) == \A k \in DOMAIN refunds : ~RefundPart(ds, refunds[k]).open

\* The sums of the parts of some refunds lie within the sums of the bounds.
LEMMA PartsAreBounded ==
    ASSUME NEW ds, OrdersOnce(ds), NEW refunds, AreRefunds(refunds), NEW split, IsSplit(ds, refunds, split),
           NEW lows, NEW highs, AreBounds(ds, refunds, lows, highs)
    PROVE  /\ Total(lows) <= Total(split) /\ Total(split) <= Total(highs)
           /\ NoneIsOpen(ds, refunds) => Total(highs) - Total(split) <= Len(split) * Tolerance
<1> USE DEF OrdersOnce, AreRefunds, IsSplit, AreBounds, NoneIsOpen
<1>1. \A k \in DOMAIN refunds :
        /\ lows[k] \in Int /\ highs[k] \in Int
        /\ lows[k] <= split[k] /\ split[k] <= highs[k]
        /\ ~RefundPart(ds, refunds[k]).open => highs[k] <= split[k] + Tolerance
  <2> TAKE k \in DOMAIN refunds
  <2>1. refunds[k] \in ToSet(refunds)
    BY DEF ToSet
  <2>2. lows[k] = RefundPart(ds, refunds[k]).low /\ highs[k] = RefundPart(ds, refunds[k]).high
    OBVIOUS
  <2>3. QED
    BY <2>1, <2>2, PartIsBounded
<1>4. Numbers(lows) /\ Len(lows) = Len(refunds)
  BY <1>1, NumbersOf
<1>5. Numbers(highs) /\ Len(highs) = Len(refunds)
  BY <1>1, NumbersOf
<1>6. Numbers(split) /\ Len(split) = Len(refunds)
  BY NumbersOf
<1>7. 0 \in Int /\ Tolerance \in Int /\ Len(refunds) \in Nat
  BY AmountAssumption, ListFacts
<1>8. \A k \in DOMAIN split : lows[k] <= split[k] + 0
  BY <1>1
<1>9. \A k \in DOMAIN highs : split[k] <= highs[k] + 0
  BY <1>1
<1>10. Total(lows) \in Int /\ Total(highs) \in Int /\ Total(split) \in Int
  BY <1>4, <1>5, <1>6, TotalIs, TotalSteps
<1>11. Total(lows) <= Total(split) + Len(split) * 0
  BY <1>4, <1>6, <1>7, <1>8, TotalBound
<1>12. Total(split) <= Total(highs) + Len(highs) * 0
  BY <1>5, <1>6, <1>7, <1>9, TotalBound
<1>13. ASSUME \A k \in DOMAIN refunds : ~RefundPart(ds, refunds[k]).open
       PROVE  Total(highs) - Total(split) <= Len(split) * Tolerance
  <2>1. \A k \in DOMAIN split : highs[k] <= split[k] + Tolerance
    BY <1>1, <1>13
  <2>2. Total(highs) <= Total(split) + Len(split) * Tolerance
    BY <1>5, <1>6, <1>7, <2>1, TotalBound
  <2> DEFINE m == Len(split) * Tolerance
  <2>3. m \in Int
    BY <1>6, <1>7
  <2> HIDE DEF m
  <2>4. Total(highs) - Total(split) <= m
    BY <1>10, <2>2, <2>3 DEF m
  <2>5. QED
    BY <2>4 DEF m
<1>14. Len(split) * 0 = 0 /\ Len(highs) * 0 = 0
  BY <1>5, <1>6, <1>7
<1>15. QED
  BY <1>10, <1>11, <1>12, <1>13, <1>14

\* The refunds of a period.
ShopRefunds(ds) == Filter(ds.refunds, LAMBDA r : r.source = "shopify")

\* They are a list, and their amounts are numbers.
LEMMA WindowRefunds ==
    ASSUME NEW b, NEW e, BookKept(b, e), AmountsKept(b), NEW period
    PROVE  LET refunds == ShopRefunds(Window(DatasetOf(b), period))
           IN  AreRefunds(refunds)
<1> DEFINE window == Window(DatasetOf(b), period)
           places == PlacesIn(b.refunds, period)
           shop == {k \in DOMAIN window.refunds : window.refunds[k].source = "shopify"}
           refunds == ShopRefunds(window)
<1>1. window.refunds = Picked(b.refunds, places)
  BY WindowIs, DatasetIs
<1>2. refunds = Picked(window.refunds, shop)
  BY OnceIs, Zenon DEF ShopRefunds, Filter, Once
<1>3. places \subseteq DOMAIN b.refunds /\ IsList(b.refunds) /\ shop \subseteq DOMAIN window.refunds
  BY DEF PlacesIn, BookKept, RefundsKept
<1> HIDE DEF places, window, shop, refunds
<1>4. /\ IsList(window.refunds)
      /\ \A i \in DOMAIN window.refunds : \E k \in places : window.refunds[i] = b.refunds[k]
  BY <1>1, <1>3, PickedElements
<1>5. IsList(refunds) /\ \A i \in DOMAIN refunds : \E k \in shop : refunds[i] = window.refunds[k]
  BY <1>2, <1>3, <1>4, PickedElements
<1>6. \A i \in DOMAIN refunds : \E k \in DOMAIN b.refunds : refunds[i] = b.refunds[k]
  BY <1>3, <1>4, <1>5
<1>7. \A r \in ToSet(refunds) : r \in ToSet(b.refunds)
  BY <1>6 DEF ToSet
<1>8. QED
  BY <1>5, <1>7 DEF AmountsKept, AreRefunds, refunds, window

\* Whatever the split of the refunds of a period between the products and the rest
\* (analytics/profitability.py refunds_on_revenue_basis), the product part lies within the bounds
\* that are announced, and the part announced as known is above it by the rounding of each refund
\* at most.
THEOREM Refunded == Spec => []RefundPartIsBounded
<1>1. ReportInv => RefundPartIsBounded
  <2> SUFFICES ASSUME ReportInv, Reported PROVE RefundPartIsBounded
    BY Zenon DEF RefundPartIsBounded
  <2> DEFINE window == Window(Analysed, report.period)
             refunds == ShopRefunds(window)
             part == RefundsOnRevenueBasis(window)
  <2>1. BookKept(book, export) /\ AmountsKept(book)
    BY DEF ReportInv, SnapshotInv, ReadInv
  <2>2. window = Window(DatasetOf(book), report.period)
    BY AnalysedIs
  <2>3. AreRefunds(refunds)
    BY <2>1, <2>2, WindowRefunds
  <2>4. ToSet(window.orders) \subseteq ToSet(book.orders) /\ \A o \in ToSet(window.orders) : OrderAmounts(o)
    <3> HIDE DEF window
    <3>1. QED
      BY <2>1, <2>2, WindowOrders
  <2>5. OrdersOnce(window)
    <3>1. \A o, p \in ToSet(book.orders) : o.id = p.id => o = p
      BY <2>1 DEF BookKept, OrdersKept, ToSet
    <3> HIDE DEF window
    <3>2. QED
      BY <2>4, <3>1 DEF OrdersOnce
  <2> HIDE DEF window
  <2> DEFINE lows == [k \in DOMAIN refunds |-> RefundPart(window, refunds[k]).low]
             highs == [k \in DOMAIN refunds |-> RefundPart(window, refunds[k]).high]
             open == {k \in DOMAIN refunds : RefundPart(window, refunds[k]).open}
  <2>6. part.low = Total(lows) /\ part.high = Total(highs) /\ part.value = (IF open = {} THEN Total(highs) ELSE None)
    <3>1. PICK low, high : /\ part = [value |-> IF open = {} THEN high ELSE None, low |-> low, high |-> high]
                           /\ low = SumOf(refunds, LAMBDA r : RefundPart(window, r).low)
                           /\ high = SumOf(refunds, LAMBDA r : RefundPart(window, r).high)
      BY Zenon DEF RefundsOnRevenueBasis, ShopRefunds
    <3> HIDE DEF refunds, part
    <3>2. low = Total(lows)
      BY <3>1, OnceIs, Zenon DEF SumOf, Mapped, Once
    <3>3. high = Total(highs)
      BY <3>1, OnceIs, Zenon DEF SumOf, Mapped, Once
    <3> HIDE DEF lows, highs, open
    <3>4. QED
      BY <3>1, <3>2, <3>3
  <2>7. ASSUME NEW split \in Splits(window)
        PROVE  /\ part.low <= Total(split) /\ Total(split) <= part.high
               /\ part.value # None => part.value - Total(split) <= Len(split) * Tolerance
    <3>1. \E max : /\ split \in [DOMAIN refunds -> 0 .. max]
                   /\ \A k \in DOMAIN refunds : split[k] <= refunds[k].amount /\ Possible(window, refunds[k], split[k])
      BY Zenon DEF Splits, ShopRefunds, Possible, OrderFor
    <3> HIDE DEF refunds, part
    <3>2. PICK max : /\ split \in [DOMAIN refunds -> 0 .. max]
                     /\ \A k \in DOMAIN refunds : split[k] <= refunds[k].amount /\ Possible(window, refunds[k], split[k])
      BY <3>1
    <3>3. IsSplit(window, refunds, split)
      <4>1. DOMAIN split = DOMAIN refunds /\ split = [k \in DOMAIN split |-> split[k]]
        BY <3>2
      <4>2. \A k \in DOMAIN refunds : /\ split[k] \in Int /\ 0 <= split[k] /\ split[k] <= refunds[k].amount
                                      /\ Possible(window, refunds[k], split[k])
        BY <3>2
      <4>3. QED
        BY <4>1, <4>2 DEF IsSplit
    <3>4. AreBounds(window, refunds, lows, highs)
      BY DEF AreBounds
    <3>5. part.value # None => part.value = part.high /\ NoneIsOpen(window, refunds)
      BY <2>6 DEF NoneIsOpen
    <3> HIDE DEF lows, highs, open
    <3>6. /\ Total(lows) <= Total(split) /\ Total(split) <= Total(highs)
          /\ NoneIsOpen(window, refunds) => Total(highs) - Total(split) <= Len(split) * Tolerance
      BY <2>3, <2>5, <3>3, <3>4, PartsAreBounded
    <3>7. QED
      BY <2>6, <3>5, <3>6
  <2>8. QED
    BY <2>7, Zenon DEF RefundPartIsBounded, window
<1>2. QED
  BY <1>1, Reports, PTL

-----------------------------------------------------------------------------
(* The calendar *)

\* The periods of a grain are numbered: where one starts.
PeriodNumbers(grain) == IF grain = "week" THEN Int ELSE 1 .. 36
StartOf(grain, j) == IF grain = "week" THEN 7 * j ELSE MonthStarts[j]
PeriodAt(grain, j) == [grain |-> grain, start |-> StartOf(grain, j), end |-> StartOf(grain, j + 1)]

\* A month starts some days after the one before it.
LEMMA MonthsAre == /\ \A m \in 1 .. 37 : MonthStarts[m] \in Int
                   /\ \A m \in 1 .. 36 : MonthStarts[m] < MonthStarts[m + 1]
                   /\ MonthStarts[13] = -365 /\ MonthStarts[25] = 0 /\ MonthStarts[37] = 366
<1> DEFINE s == MonthStarts
<1>1. /\ s[1] = -730 /\ s[2] = -699 /\ s[3] = -671 /\ s[4] = -640 /\ s[5] = -610 /\ s[6] = -579
      /\ s[7] = -549 /\ s[8] = -518 /\ s[9] = -487 /\ s[10] = -457 /\ s[11] = -426 /\ s[12] = -396
  BY DEF MonthStarts
<1>2. /\ s[13] = -365 /\ s[14] = -334 /\ s[15] = -306 /\ s[16] = -275 /\ s[17] = -245 /\ s[18] = -214
      /\ s[19] = -184 /\ s[20] = -153 /\ s[21] = -122 /\ s[22] = -92 /\ s[23] = -61 /\ s[24] = -31
  BY DEF MonthStarts
<1>3. /\ s[25] = 0 /\ s[26] = 31 /\ s[27] = 60 /\ s[28] = 91 /\ s[29] = 121 /\ s[30] = 152
      /\ s[31] = 182 /\ s[32] = 213 /\ s[33] = 244 /\ s[34] = 274 /\ s[35] = 305 /\ s[36] = 335
      /\ s[37] = 366
  BY DEF MonthStarts
<1> HIDE DEF s
<1>4. \A m \in 1 .. 37 : s[m] \in Int
  BY <1>1, <1>2, <1>3
<1>5. \A m \in 1 .. 36 : s[m] < s[m + 1]
  BY <1>1, <1>2, <1>3
<1>6. QED
  BY <1>2, <1>3, <1>4, <1>5 DEF s

\* Later months start later.
LEMMA MonthsIncrease == \A m, n \in 1 .. 37 : m < n => MonthStarts[m] < MonthStarts[n]
<1> SUFFICES ASSUME NEW m \in 1 .. 37, NEW n \in 1 .. 37, m < n
             PROVE  MonthStarts[m] < MonthStarts[n]
  OBVIOUS
<1> DEFINE S == {k \in Nat : m + 1 + k <= 37 => MonthStarts[m] < MonthStarts[m + 1 + k]}
<1>1. 0 \in S
  BY MonthsAre
<1>2. ASSUME NEW k \in Nat, k \in S PROVE k + 1 \in S
  <2>1. SUFFICES ASSUME m + 1 + (k + 1) <= 37 PROVE MonthStarts[m] < MonthStarts[m + 1 + (k + 1)]
    OBVIOUS
  <2> DEFINE p == m + 1 + k
  <2>2. /\ p \in 1 .. 36 /\ p \in 1 .. 37 /\ p + 1 \in 1 .. 37 /\ p + 1 = m + 1 + (k + 1)
        /\ MonthStarts[m] < MonthStarts[p]
    BY <1>2, <2>1
  <2>3. MonthStarts[p] < MonthStarts[p + 1]
    BY <2>2, MonthsAre
  <2> HIDE DEF p
  <2>4. MonthStarts[m] < MonthStarts[p + 1]
    BY <2>2, <2>3, MonthsAre
  <2>5. QED
    BY <2>2, <2>4
<1> HIDE DEF S
<1>3. n - (m + 1) \in Nat /\ m + 1 + (n - (m + 1)) = n
  OBVIOUS
<1>4. n - (m + 1) \in S
  BY <1>1, <1>2, <1>3, SetInduction
<1>5. QED
  BY <1>3, <1>4 DEF S

\* A period ends where the next one starts.
LEMMA StartsIncrease ==
    ASSUME NEW grain, NEW j \in PeriodNumbers(grain)
    PROVE  StartOf(grain, j) \in Int /\ StartOf(grain, j + 1) \in Int /\ StartOf(grain, j) < StartOf(grain, j + 1)
<1>1. CASE grain = "week"
  BY <1>1 DEF PeriodNumbers, StartOf
<1>2. CASE grain # "week"
  <2>1. j \in 1 .. 36 /\ j \in 1 .. 37 /\ j + 1 \in 1 .. 37
    BY <1>2 DEF PeriodNumbers
  <2>2. QED
    BY <1>2, <2>1, MonthsAre DEF StartOf
<1>3. QED
  BY <1>1, <1>2

\* The period of a day is the one it falls in.
LEMMA PeriodOfDay ==
    ASSUME NEW grain, NEW j \in PeriodNumbers(grain), NEW day \in Int,
           StartOf(grain, j) <= day, day < StartOf(grain, j + 1)
    PROVE  MakePeriod(day, grain) = PeriodAt(grain, j)
<1>1. CASE grain = "week"
  <2>1. j \in Int /\ 7 * j <= day /\ day < 7 * (j + 1)
    BY <1>1 DEF PeriodNumbers, StartOf
  <2>2. day - (day % 7) = 7 * j
    BY <2>1
  <2>3. day - (day % 7) + 7 = 7 * (j + 1)
    BY <2>1, <2>2
  <2>4. QED
    BY <1>1, <2>2, <2>3 DEF MakePeriod, PeriodAt, StartOf
<1>2. CASE grain # "week"
  <2>1. j \in 1 .. 36 /\ MonthStarts[j] <= day /\ day < MonthStarts[j + 1]
    BY <1>2 DEF PeriodNumbers, StartOf
  <2>2. ASSUME NEW m \in 1 .. 36, MonthStarts[m] <= day, day < MonthStarts[m + 1] PROVE m = j
    <3>1. /\ m \in 1 .. 37 /\ j \in 1 .. 37 /\ m + 1 \in 1 .. 37 /\ j + 1 \in 1 .. 37
          /\ \A k \in 1 .. 37 : MonthStarts[k] \in Int
      BY <2>1, MonthsAre
    <3>2. CASE m < j
      <4>1. MonthStarts[m + 1] <= MonthStarts[j]
        BY <3>1, <3>2, MonthsIncrease
      <4>2. QED
        BY <2>1, <2>2, <3>1, <4>1
    <3>3. CASE j < m
      <4>1. MonthStarts[j + 1] <= MonthStarts[m]
        BY <3>1, <3>3, MonthsIncrease
      <4>2. QED
        BY <2>1, <2>2, <3>1, <4>1
    <3>4. QED
      BY <2>1, <3>2, <3>3
  <2>3. MonthOf(day) = j
    BY <2>1, <2>2, Zenon DEF MonthOf
  <2>4. QED
    BY <1>2, <2>3 DEF MakePeriod, PeriodAt, StartOf
<1>3. QED
  BY <1>1, <1>2

\* The period before one is the one numbered before it.
LEMMA PeriodBefore ==
    ASSUME NEW grain, NEW j \in PeriodNumbers(grain), j - 1 \in PeriodNumbers(grain)
    PROVE  PreviousPeriod(PeriodAt(grain, j)) = PeriodAt(grain, j - 1)
<1> DEFINE start == StartOf(grain, j)
<1>1. j \in Int /\ (j - 1) + 1 = j
  BY DEF PeriodNumbers
<1>2. start \in Int /\ StartOf(grain, j - 1) \in Int /\ StartOf(grain, j - 1) < start
  BY <1>1, StartsIncrease
<1>3. PeriodAt(grain, j).start = start /\ PeriodAt(grain, j).grain = grain
  BY DEF PeriodAt
<1> HIDE DEF start
<1>4. /\ start - 1 \in Int /\ StartOf(grain, j - 1) <= start - 1 /\ start - 1 < start
  BY <1>2
<1>5. MakePeriod(start - 1, grain) = PeriodAt(grain, j - 1)
  BY <1>1, <1>4, PeriodOfDay DEF start
<1>6. QED
  BY <1>3, <1>5 DEF PreviousPeriod

\* A date falls in a period.
LEMMA DayHasPeriod ==
    ASSUME NEW grain, NEW day \in Days
    PROVE  \E j \in PeriodNumbers(grain) : /\ StartOf(grain, j) <= day /\ day < StartOf(grain, j + 1)
                                           /\ grain # "week" => j >= 13
<1>0. day \in Int /\ -365 <= day /\ day <= 365
  BY DEF Days
<1>1. CASE grain = "week"
  <2> DEFINE j == day \div 7
  <2>1. j \in Int /\ 7 * j <= day /\ day < 7 * (j + 1)
    BY <1>0
  <2> HIDE DEF j
  <2>2. QED
    BY <1>1, <2>1 DEF PeriodNumbers, StartOf
<1>2. CASE grain # "week"
  <2> DEFINE T == {m \in Nat : m \in 14 .. 37 /\ day < MonthStarts[m]}
  <2>1. 37 \in T
    BY <1>0, MonthsAre
  <2>2. PICK m \in T : \A n \in T : m <= n
    <3> HIDE DEF T
    <3>1. T \subseteq Nat
      BY DEF T
    <3>2. QED
      BY <2>1, <3>1, Least
  <2>3. m \in 14 .. 37 /\ day < MonthStarts[m]
    OBVIOUS
  <2>4. MonthStarts[m - 1] <= day
    <3>1. CASE m = 14
      BY <1>0, <3>1, MonthsAre
    <3>2. CASE m # 14
      <4>1. m - 1 \in 14 .. 37 /\ m - 1 \in 1 .. 37 /\ m - 1 \notin T
        BY <2>2, <2>3, <3>2
      <4>2. ~(day < MonthStarts[m - 1])
        BY <4>1
      <4>3. QED
        BY <1>0, <4>1, <4>2, MonthsAre
    <3>3. QED
      BY <3>1, <3>2
  <2>5. m - 1 \in 1 .. 36 /\ (m - 1) + 1 = m /\ m - 1 >= 13
    BY <2>3
  <2> HIDE DEF T
  <2>6. QED
    BY <1>2, <2>3, <2>4, <2>5 DEF PeriodNumbers, StartOf
<1>3. QED
  BY <1>1, <1>2

\* The period analysed is a period, with a year before it.
LEMMA LastPeriodIs ==
    ASSUME NEW grain, NEW latest \in Days, NEW reference
    PROVE  \E j \in PeriodNumbers(grain) : /\ LastCompletePeriod(latest, reference, grain) = PeriodAt(grain, j)
                                           /\ grain # "week" => j >= 12
<1> DEFINE last == LastCompletePeriod(latest, reference, grain)
<1>1. PICK j \in PeriodNumbers(grain) : /\ StartOf(grain, j) <= latest /\ latest < StartOf(grain, j + 1)
                                        /\ grain # "week" => j >= 13
  BY DayHasPeriod
<1>2. MakePeriod(latest, grain) = PeriodAt(grain, j)
  <2>1. latest \in Int
    BY DEF Days
  <2>2. QED
    BY <1>1, <2>1, PeriodOfDay
<1>3. j \in Int /\ j - 1 \in PeriodNumbers(grain) /\ (grain # "week" => j - 1 >= 12 /\ j >= 12)
  <2>1. CASE grain = "week"
    BY <2>1 DEF PeriodNumbers
  <2>2. CASE grain # "week"
    <3>1. j \in 1 .. 36 /\ j >= 13
      BY <1>1, <2>2 DEF PeriodNumbers
    <3>2. QED
      BY <2>2, <3>1 DEF PeriodNumbers
  <2>3. QED
    BY <2>1, <2>2
<1>4. last = PeriodAt(grain, j) \/ last = PreviousPeriod(PeriodAt(grain, j))
  BY <1>2 DEF LastCompletePeriod
<1>5. PreviousPeriod(PeriodAt(grain, j)) = PeriodAt(grain, j - 1)
  BY <1>3, PeriodBefore
<1>6. QED
  BY <1>3, <1>4, <1>5

\* The series of periods before one: each starts where the one before it ends.
LEMMA SeriesIs ==
    ASSUME NEW grain, NEW j \in PeriodNumbers(grain), NEW n \in Nat \ {0}, j - n + 1 \in PeriodNumbers(grain)
    PROVE  PeriodSeries(PeriodAt(grain, j), n) = [i \in 1 .. n |-> PeriodAt(grain, j - n + i)]
<1> DEFINE latest == PeriodAt(grain, j)
           Step(g, k) == IF k = 0 THEN latest ELSE PreviousPeriod(g[k - 1])
           u == CHOOSE g : g = [k \in 0 .. n - 1 |-> Step(g, k)]
           f == [k \in 0 .. n - 1 |-> PeriodAt(grain, j - k)]
<1>1. j \in Int /\ n - 1 \in Nat /\ \A k \in 0 .. n - 1 : j - k \in PeriodNumbers(grain)
  BY DEF PeriodNumbers
<1>2. ASSUME NEW k \in 0 .. n - 1, k # 0 PROVE PreviousPeriod(PeriodAt(grain, j - (k - 1))) = PeriodAt(grain, j - k)
  <2>1. k - 1 \in 0 .. n - 1 /\ (j - (k - 1)) - 1 = j - k
    BY <1>1, <1>2
  <2>2. j - (k - 1) \in PeriodNumbers(grain) /\ j - k \in PeriodNumbers(grain)
    BY <1>1, <2>1
  <2>3. QED
    BY <2>1, <2>2, PeriodBefore
<1>3. f = [k \in 0 .. n - 1 |-> Step(f, k)]
  <2>1. ASSUME NEW k \in 0 .. n - 1 PROVE PeriodAt(grain, j - k) = Step(f, k)
    <3>1. CASE k = 0
      BY <1>1, <3>1
    <3>2. CASE k # 0
      <4>1. k - 1 \in 0 .. n - 1
        BY <3>2
      <4>2. f[k - 1] = PeriodAt(grain, j - (k - 1))
        BY <4>1
      <4> HIDE DEF f
      <4>3. QED
        BY <1>2, <3>2, <4>2
    <3>3. QED
      BY <3>1, <3>2
  <2> HIDE DEF Step
  <2>2. QED
    BY <2>1
<1>4. u = [k \in 0 .. n - 1 |-> Step(u, k)]
  <2> HIDE DEF Step, f
  <2>1. QED
    BY <1>3
<1>5. ASSUME NEW k \in 0 .. n - 1 PROVE u[k] = Step(u, k)
  <2> HIDE DEF Step, u
  <2>1. QED
    BY <1>4
<1> HIDE DEF u, f
<1>6. \A k \in 0 .. n - 1 : u[k] = PeriodAt(grain, j - k)
  <2> DEFINE S == {k \in Nat : k \in 0 .. n - 1 => u[k] = PeriodAt(grain, j - k)}
  <2>1. 0 \in S
    BY <1>1, <1>5
  <2>2. ASSUME NEW k \in Nat, k \in S PROVE k + 1 \in S
    <3>1. SUFFICES ASSUME k + 1 \in 0 .. n - 1 PROVE u[k + 1] = PeriodAt(grain, j - (k + 1))
      OBVIOUS
    <3>2. k \in 0 .. n - 1 /\ (k + 1) - 1 = k /\ k + 1 # 0
      BY <3>1
    <3>3. u[k + 1] = PreviousPeriod(u[k])
      BY <1>5, <3>1, <3>2
    <3>4. u[k] = PeriodAt(grain, j - ((k + 1) - 1))
      BY <2>2, <3>2
    <3>5. QED
      BY <1>2, <3>1, <3>2, <3>3, <3>4
  <2> HIDE DEF S
  <2>3. \A k \in Nat : k \in S
    BY <2>1, <2>2, SetInduction
  <2>4. QED
    BY <2>3 DEF S
<1>7. PeriodSeries(latest, n) = [i \in 1 .. n |-> u[n - i]]
  BY DEF PeriodSeries, u
<1>8. ASSUME NEW i \in 1 .. n PROVE u[n - i] = PeriodAt(grain, j - n + i)
  <2>1. n - i \in 0 .. n - 1 /\ j - (n - i) = j - n + i
    BY <1>1
  <2>2. QED
    BY <1>6, <2>1
<1>9. QED
  BY <1>7, <1>8

-----------------------------------------------------------------------------
(* The days *)

\* What a line says is a date.
LEMMA SaysADate ==
    ASSUME NEW cell \in DateCells, NEW column, NEW day, Says(cell, column, day),
           cell.form = "iso" => cell.day \in Days
    PROVE  day \in Days
<1>1. CASE cell.form = "iso"
  BY <1>1 DEF Says
<1>2. CASE cell.form # "iso"
  <2>1. \E d, m : IsDate(d, m) /\ DayOf(d, m) = day
    <3>1. PICK order \in Consistent(column) : TRUE
      BY <1>2 DEF Says
    <3> DEFINE d == IF order = DAY_FIRST THEN cell.first ELSE cell.second
               m == IF order = DAY_FIRST THEN cell.second ELSE cell.first
    <3>2. IsDate(d, m) /\ DayOf(d, m) = day
      BY <1>2, <3>1 DEF Says
    <3> HIDE DEF d, m
    <3>3. QED
      BY <3>2
  <2>2. PICK d, m : IsDate(d, m) /\ DayOf(d, m) = day
    BY <2>1
  <2>3. /\ m \in 1 .. 12 /\ m + 24 \in 1 .. 37 /\ m + 25 \in 1 .. 37
        /\ d \in 1 .. (MonthStarts[m + 25] - MonthStarts[m + 24]) /\ day = MonthStarts[m + 24] + d - 1
    BY <2>2 DEF IsDate, DayOf
  <2>4. 0 <= MonthStarts[m + 24]
    <3>1. CASE m + 24 = 25
      BY <3>1, MonthsAre
    <3>2. CASE m + 24 # 25
      <4>1. 25 \in 1 .. 37 /\ 25 < m + 24
        BY <2>3, <3>2
      <4>2. MonthStarts[25] < MonthStarts[m + 24]
        BY <2>3, <4>1, MonthsIncrease
      <4>3. QED
        BY <2>3, <4>2, MonthsAre
    <3>3. QED
      BY <3>1, <3>2
  <2>5. MonthStarts[m + 25] <= 366
    <3>1. CASE m + 25 = 37
      BY <3>1, MonthsAre
    <3>2. CASE m + 25 # 37
      <4>1. 37 \in 1 .. 37 /\ m + 25 < 37
        BY <2>3, <3>2
      <4>2. MonthStarts[m + 25] < MonthStarts[37]
        BY <2>3, <4>1, MonthsIncrease
      <4>3. QED
        BY <2>3, <4>2, MonthsAre
    <3>3. QED
      BY <3>1, <3>2
  <2> DEFINE x == MonthStarts[m + 24]
             y == MonthStarts[m + 25]
  <2>6. x \in Int /\ y \in Int
    BY <2>3, MonthsAre
  <2>7. d \in 1 .. (y - x) /\ day = x + d - 1 /\ 0 <= x /\ y <= 366
    BY <2>3, <2>4, <2>5
  <2> HIDE DEF x, y
  <2>8. day \in Int /\ -365 <= day /\ day <= 365
    BY <2>6, <2>7
  <2>9. QED
    BY <2>8 DEF Days
<1>3. QED
  BY <1>1, <1>2

\* The orders and the advertising come of files.
OfFiles ==
    /\ export.shopify_orders = None => book.orders = << >>
    /\ export.google_ads = None => book.ads = << >>

\* Only the lines of a file change its list.
LEMMA ListsChange ==
    ASSUME ReadInv, Next
    PROVE  /\ export.shopify_orders # None \/ book'.orders = book.orders
           /\ export.google_ads # None \/ book'.ads = book.ads
           /\ export' = export
<1>1. DOMAIN book = BookFields
  BY DEF ReadInv, BookKept
<1>2. ASSUME NEW name, Reading(name) PROVE export[name] # None
  BY <1>2 DEF Reading, Lines
<1>3. CASE OpenOrder
  <2>1. export.shopify_orders # None
    BY <1>2, <1>3 DEF OpenOrder, AtRow
  <2>2. RejectReading \/ \E day : book' = Itemised(Opened(book, Row, day), Row) /\ NextLine
    BY <1>3 DEF OpenOrder
  <2>3. CASE RejectReading
    BY <2>3 DEF RejectReading
  <2>4. ASSUME NEW day, book' = Itemised(Opened(book, Row, day), Row), NextLine
        PROVE  book'.ads = book.ads /\ export' = export
    <3> DEFINE opened == Opened(book, Row, day)
    <3>1. DOMAIN opened = BookFields /\ opened.ads = book.ads
      BY <1>1 DEF Opened, BookFields
    <3> HIDE DEF opened
    <3>2. Itemised(opened, Row).ads = opened.ads
      BY <3>1, ItemisedFields
    <3>3. QED
      BY <2>4, <3>1, <3>2 DEF NextLine, opened
  <2>5. QED
    BY <2>1, <2>2, <2>3, <2>4
<1>4. CASE ContinueOrder
  <2>1. export.shopify_orders # None
    BY <1>2, <1>4 DEF ContinueOrder, AtRow
  <2>2. RejectReading \/ (book' = Itemised(book, Row) /\ NextLine)
    BY <1>4 DEF ContinueOrder
  <2>3. Itemised(book, Row).ads = book.ads
    BY <1>1, ItemisedFields
  <2>4. QED
    BY <2>1, <2>2, <2>3 DEF RejectReading, NextLine
<1>5. CASE EndOrders
  <2>1. export.shopify_orders # None
    BY <1>2, <1>5 DEF EndOrders, AtEnd
  <2>2. book' = [book EXCEPT !.orders = ByDay(@)] /\ export' = export
    BY <1>5 DEF EndOrders, NextFile
  <2>3. QED
    BY <1>1, <2>1, <2>2 DEF BookFields
<1>6. CASE ReadAd
  <2>1. export.google_ads # None
    BY <1>2, <1>6 DEF ReadAd, AtRow
  <2>2. export' = export /\ book'.orders = book.orders
    BY <1>1, <1>6, AdBooks DEF BookFields, RejectReading, NextLine
  <2>3. QED
    BY <2>1, <2>2
<1>7. CASE EndAds
  <2>1. export.google_ads # None
    BY <1>2, <1>7 DEF EndAds, AtEnd
  <2>2. book' = [book EXCEPT !.ads = ByDayAndCampaign(@)] /\ export' = export
    BY <1>7 DEF EndAds, NextFile
  <2>3. QED
    BY <1>1, <2>1, <2>2 DEF BookFields
<1>8. CASE Read /\ ~(OpenOrder \/ ContinueOrder \/ EndOrders \/ ReadAd \/ EndAds)
  <2>1. CASE EmptyFile \/ SkipSource \/ SkipUnnamedProduct \/ EndProducts \/ SkipUnnamedPayment
             \/ SkipRepeatedPayment \/ EndPayments \/ RefuseUndatedAd \/ CloseReading
    <3>1. UNCHANGED << export, book >>
      BY <2>1, Zenon DEF EmptyFile, SkipSource, SkipUnnamedProduct, EndProducts, SkipUnnamedPayment,
           SkipRepeatedPayment, EndPayments, RefuseUndatedAd, CloseReading, RejectReading, NextLine, NextFile
    <3>2. QED
      BY <3>1
  <2>2. CASE RefuseUnnamedLine \/ RefuseUndatedOrder
    <3>1. book' = [book EXCEPT !.invalid = @ + 1] /\ export' = export
      BY <2>2 DEF RefuseUnnamedLine, RefuseUndatedOrder, NextLine
    <3>2. QED
      BY <1>1, <3>1 DEF BookFields
  <2>3. CASE RefuseUndatedPayment
    <3>1. book' = [book EXCEPT !.paid = @ \cup {Row.id}] /\ export' = export
      BY <2>3 DEF RefuseUndatedPayment, NextLine
    <3>2. QED
      BY <1>1, <3>1 DEF BookFields
  <2>4. CASE ReadProduct
    <3>1. /\ export' = export
          /\ \/ UNCHANGED book
             \/ \E cost, priced : book' = [book EXCEPT !.products = With(@, Row.sku, cost), !.priced = priced]
      BY <2>4 DEF ReadProduct, RejectReading, NextLine
    <3>2. QED
      BY <1>1, <3>1 DEF BookFields
  <2>5. CASE ReadPayment
    <3>1. \/ RejectReading
          \/ NextLine /\ \E day, fee, withFee, refunds :
                book' = [book EXCEPT
                        !.paid = @ \cup {Row.id},
                        !.payments = Append(@, [ id |-> Row.id, day |-> day, fee |-> fee ]),
                        !.refunds = refunds,
                        !.withFee = withFee]
      BY <2>5, Zenon DEF ReadPayment
    <3>2. QED
      BY <1>1, <3>1 DEF BookFields, RejectReading, NextLine
  <2>6. QED
    BY <1>8, <2>1, <2>2, <2>3, <2>4, <2>5 DEF Read, ReadNext
<1>9. CASE Store \/ Load \/ AnalyseFiles \/ Analyse
  BY <1>9 DEF Store, Load, AnalyseFiles, Analyse
<1>10. QED
  BY <1>3, <1>4, <1>5, <1>6, <1>7, <1>8, <1>9 DEF Next

\* What the analysis rests on: a report on what was read of the files that were supplied.
CountInv == ReportInv /\ OfFiles

\* The lists come of files at every step.
LEMMA Counts == Spec => []CountInv
<1>1. Init => OfFiles
  <2>1. EmptyBook.orders = << >> /\ EmptyBook.ads = << >>
    BY DEF EmptyBook
  <2>2. QED
    BY <2>1 DEF Init, ReadInit, OfFiles
<1>2. ReportInv /\ OfFiles /\ [Next]_engineVars => OfFiles'
  <2>1. ReportInv /\ OfFiles /\ Next => OfFiles'
    BY ListsChange DEF ReportInv, SnapshotInv, OfFiles
  <2>2. OfFiles /\ UNCHANGED engineVars => OfFiles'
    BY DEF OfFiles, engineVars
  <2>3. QED
    BY <2>1, <2>2
<1>3. QED
  BY <1>1, <1>2, Reports, PTL DEF Spec, CountInv

\* The days of the orders and of the advertising are dates.
LEMMA DaysAreDates ==
    ASSUME CountInv
    PROVE  /\ \A k \in DOMAIN book.orders : book.orders[k].day \in Days
           /\ \A k \in DOMAIN book.ads : book.ads[k].day \in Days
<1>1. export \in Exports /\ BookKept(book, export) /\ OfFiles
  BY DEF CountInv, ReportInv, SnapshotInv, ReadInv, Place
<1>2. ASSUME NEW name \in {"shopify_orders", "google_ads"}, export[name] # None,
             NEW i \in DOMAIN export[name], NEW day, LineSays(export[name], i, day)
      PROVE  day \in Days
  <2> DEFINE lines == export[name]
             cell == lines[i].date
  <2>1. cell \in DateCells
    BY <1>1, <1>2, IngestionAssumption, SourceNames
  <2>2. cell.form = "iso" => cell.day \in Days
    BY <1>1, <1>2, CalendarAssumption
  <2>3. Says(cell, Dates(lines), day)
    BY <1>2 DEF LineSays, Dates
  <2> HIDE DEF cell
  <2>4. QED
    BY <2>1, <2>2, <2>3, SaysADate
<1>3. ASSUME NEW k \in DOMAIN book.orders PROVE book.orders[k].day \in Days
  <2>1. book.orders # << >>
    BY EmptyList
  <2>2. export.shopify_orders # None
    BY <1>1, <2>1 DEF OfFiles
  <2>3. PICK i \in DOMAIN export.shopify_orders : LineSays(export.shopify_orders, i, book.orders[k].day)
    BY <1>1 DEF BookKept, OrdersKept
  <2>4. QED
    BY <1>2, <2>2, <2>3
<1>4. ASSUME NEW k \in DOMAIN book.ads PROVE book.ads[k].day \in Days
  <2>1. book.ads # << >>
    BY EmptyList
  <2>2. export.google_ads # None
    BY <1>1, <2>1 DEF OfFiles
  <2>3. PICK i \in DOMAIN export.google_ads : LineSays(export.google_ads, i, book.ads[k].day)
    BY <1>1 DEF BookKept, AdsKept
  <2>4. QED
    BY <1>2, <2>2, <2>3
<1>5. QED
  BY <1>3, <1>4

\* The greatest of some dates is one of them, and so is the least.
LEMMA GreatestDate ==
    ASSUME NEW S, S \subseteq Days, S # {}
    PROVE  Max(S) \in S /\ Min(S) \in S /\ \A x \in S : Min(S) <= x /\ x <= Max(S)
<1>1. \E x \in S : \A y \in S : x >= y
  <2> DEFINE T == {n \in Nat : 365 - n \in S}
  <2>1. T # {}
    <3>1. PICK x \in S : TRUE
      OBVIOUS
    <3>2. 365 - x \in Nat /\ 365 - (365 - x) = x
      BY <3>1 DEF Days
    <3>3. QED
      BY <3>1, <3>2
  <2>2. PICK n \in T : \A m \in T : n <= m
    <3>1. T \subseteq Nat
      OBVIOUS
    <3> HIDE DEF T
    <3>2. QED
      BY <2>1, <3>1, Least
  <2>3. ASSUME NEW y \in S PROVE 365 - n >= y
    <3>1. 365 - y \in Nat /\ 365 - (365 - y) = y /\ y \in Int
      BY DEF Days
    <3>2. n <= 365 - y
      BY <2>2, <3>1
    <3>3. QED
      BY <3>1, <3>2
  <2>4. QED
    BY <2>3
<1>2. \E x \in S : \A y \in S : x <= y
  <2> DEFINE T == {n \in Nat : n - 365 \in S}
  <2>1. T # {}
    <3>1. PICK x \in S : TRUE
      OBVIOUS
    <3>2. x + 365 \in Nat /\ (x + 365) - 365 = x
      BY <3>1 DEF Days
    <3>3. QED
      BY <3>1, <3>2
  <2>2. PICK n \in T : \A m \in T : n <= m
    <3>1. T \subseteq Nat
      OBVIOUS
    <3> HIDE DEF T
    <3>2. QED
      BY <2>1, <3>1, Least
  <2>3. ASSUME NEW y \in S PROVE n - 365 <= y
    <3>1. y + 365 \in Nat /\ (y + 365) - 365 = y /\ y \in Int
      BY DEF Days
    <3>2. n <= y + 365
      BY <2>2, <3>1
    <3>3. QED
      BY <3>1, <3>2
  <2>4. QED
    BY <2>3
<1>3. S \subseteq Int
  BY DEF Days
<1>4. Max(S) \in S /\ \A y \in S : Max(S) >= y
  BY <1>1, Zenon DEF Max
<1>5. Min(S) \in S /\ \A y \in S : Min(S) <= y
  BY <1>2, Zenon DEF Min
<1>6. QED
  BY <1>3, <1>4, <1>5

-----------------------------------------------------------------------------
(* Windows side by side *)

\* The orders of a dataset: their days are dates and their subtotals numbers.
PlainOrders(orders) ==
    /\ IsList(orders)
    /\ \A k \in DOMAIN orders : orders[k].day \in Days /\ orders[k].subtotal \in Int

Span(a, b) == [start |-> a, end |-> b]
SubtotalsOf(orders) == [o \in ToSet(orders) |-> o.subtotal]

\* The revenue from one day to another.
Earned(orders, a, b) == Total(Counted(orders, PlacesIn(orders, Span(a, b)), SubtotalsOf(orders)))

\* The customers whose first order is from one day to another.
Customers(orders) == {orders[i].customer : i \in DOMAIN orders}
Newcomers(orders, a, b) == {c \in Customers(orders) : InPeriod(CustomerIndex(orders)[c], Span(a, b))}

\* The places of a period are those between its ends.
LEMMA PlacesSpan == \A orders, period : PlacesIn(orders, period) = PlacesIn(orders, Span(period.start, period.end))
BY DEF PlacesIn, InPeriod, Span

\* The revenue of a window is that of its days.
LEMMA RevenueIs ==
    ASSUME NEW b, PlainOrders(b.orders), NEW period
    PROVE  TotalRevenue(Window(DatasetOf(b), period)) = Earned(b.orders, period.start, period.end)
<1> DEFINE orders == b.orders
           places == PlacesIn(orders, period)
           window == Window(DatasetOf(b), period)
           p == Picked(orders, places)
           amount == SubtotalsOf(orders)
<1>1. window.orders = p
  BY WindowIs, DatasetIs
<1>2. places \subseteq DOMAIN orders /\ IsList(orders)
  BY DEF PlacesIn, PlainOrders
<1>3. TotalRevenue(window) = Total([k \in DOMAIN p |-> p[k].subtotal])
  <2> HIDE DEF window, p
  <2>1. TotalRevenue(window) = Total([k \in DOMAIN window.orders |-> window.orders[k].subtotal])
    BY OnceIs, Zenon DEF TotalRevenue, SumOf, Mapped, Once
  <2>2. QED
    BY <1>1, <2>1
<1>4. amount \in [ToSet(orders) -> Int]
  BY DEF SubtotalsOf, PlainOrders, ToSet
<1>5. \A k \in DOMAIN p : p[k] \in ToSet(orders)
  BY <1>2, PickedElements DEF ToSet
<1>6. [k \in DOMAIN p |-> p[k].subtotal] = AmountsOf(p, amount)
  <2> HIDE DEF p
  <2>1. \A k \in DOMAIN p : amount[p[k]] = p[k].subtotal
    BY <1>5 DEF SubtotalsOf
  <2> HIDE DEF amount
  <2>2. QED
    BY <2>1 DEF AmountsOf
<1>7. Total(AmountsOf(p, amount)) = Total(Counted(orders, places, amount))
  BY <1>2, <1>4, TotalPicked
<1>8. places = PlacesIn(orders, Span(period.start, period.end))
  BY PlacesSpan
<1> HIDE DEF p, places, amount, window
<1>9. TotalRevenue(window) = Total(Counted(orders, places, amount))
  BY <1>3, <1>6, <1>7
<1>10. QED
  BY <1>8, <1>9 DEF Earned, amount, window

\* The revenues of two spans side by side are that of both.
LEMMA EarnedAdds ==
    ASSUME NEW orders, PlainOrders(orders), NEW a \in Int, NEW b \in Int, NEW c \in Int, a <= b, b <= c
    PROVE  /\ Earned(orders, a, c) = Earned(orders, a, b) + Earned(orders, b, c)
           /\ Earned(orders, a, c) \in Int /\ Earned(orders, a, b) \in Int /\ Earned(orders, b, c) \in Int
<1> DEFINE amount == SubtotalsOf(orders)
           Places(x, y) == PlacesIn(orders, Span(x, y))
           left == Counted(orders, Places(a, b), amount)
           right == Counted(orders, Places(b, c), amount)
           both == Counted(orders, Places(a, c), amount)
<1>1. IsList(orders) /\ amount \in [ToSet(orders) -> Int]
  BY DEF SubtotalsOf, PlainOrders, ToSet
<1>2. \A places : Numbers(Counted(orders, places, amount)) /\ Len(Counted(orders, places, amount)) = Len(orders)
  BY <1>1, TotalPicked
<1>3. DOMAIN both = DOMAIN orders
  BY DEF Counted
<1>4. ASSUME NEW k \in DOMAIN both PROVE both[k] = left[k] + right[k]
  <2> DEFINE day == orders[k].day
             n == amount[orders[k]]
  <2>1. k \in DOMAIN orders /\ day \in Int /\ n \in Int
    <3> HIDE DEF amount, left, right, both, Places
    <3>1. k \in DOMAIN orders
      BY <1>3
    <3>2. orders[k] \in ToSet(orders) /\ orders[k].day \in Days
      BY <3>1 DEF PlainOrders, ToSet
    <3>3. amount[orders[k]] \in Int
      BY <1>1, <3>2
    <3>4. QED
      BY <3>1, <3>2, <3>3 DEF Days
  <2>2. /\ k \in Places(a, b) <=> a <= day /\ day < b
        /\ k \in Places(b, c) <=> b <= day /\ day < c
        /\ k \in Places(a, c) <=> a <= day /\ day < c
    BY <2>1 DEF PlacesIn, InPeriod, Span
  <2>3. /\ left[k] = IF k \in Places(a, b) THEN n ELSE 0
        /\ right[k] = IF k \in Places(b, c) THEN n ELSE 0
        /\ both[k] = IF k \in Places(a, c) THEN n ELSE 0
    BY <2>1 DEF Counted
  <2> HIDE DEF day, n, left, right, both, Places
  <2>4. /\ left[k] = IF a <= day /\ day < b THEN n ELSE 0
        /\ right[k] = IF b <= day /\ day < c THEN n ELSE 0
        /\ both[k] = IF a <= day /\ day < c THEN n ELSE 0
    BY <2>2, <2>3
  <2>5. QED
    BY <2>1, <2>4
<1>5. /\ Numbers(left) /\ Numbers(right) /\ Numbers(both)
      /\ Len(left) = Len(both) /\ Len(right) = Len(both)
  BY <1>2
<1>6. Earned(orders, a, b) = Total(left) /\ Earned(orders, b, c) = Total(right) /\ Earned(orders, a, c) = Total(both)
  BY DEF Earned
<1> HIDE DEF left, right, both
<1>7. Total(both) = Total(left) + Total(right)
  BY <1>4, <1>5, TotalAdds
<1>8. Total(both) \in Int /\ Total(left) \in Int /\ Total(right) \in Int
  BY <1>5, TotalIs, TotalSteps
<1>9. QED
  BY <1>6, <1>7, <1>8

\* The day of the first order of a customer.
LEMMA FirstOrder ==
    ASSUME NEW orders, PlainOrders(orders), NEW c \in Customers(orders)
    PROVE  \E k \in DOMAIN orders : orders[k].customer = c /\ CustomerIndex(orders)[c] = orders[k].day
<1> DEFINE places == {j \in DOMAIN orders : orders[j].customer = c}
           days == {orders[i].day : i \in places}
<1>1. CustomerIndex(orders)[c] = Min(days)
  BY DEF CustomerIndex, Customers
<1>2. days \subseteq Days /\ days # {}
  BY DEF Customers, PlainOrders
<1> HIDE DEF days
<1>3. Min(days) \in days
  BY <1>2, GreatestDate
<1>4. QED
  BY <1>1, <1>3 DEF days

\* The new customers of a window are those of its days.
LEMMA NewcomersAre ==
    ASSUME NEW b, PlainOrders(b.orders), NEW period
    PROVE  NewCustomers(Window(DatasetOf(b), period), period)
             = Cardinality(Newcomers(b.orders, period.start, period.end))
<1> DEFINE orders == b.orders
           places == PlacesIn(orders, period)
           window == Window(DatasetOf(b), period)
           first == CustomerIndex(orders)
           here == {c \in CustomersOf(window) : InPeriod(window.customer_first_order[c], period)}
           there == Newcomers(orders, period.start, period.end)
<1>1. window.orders = Picked(orders, places) /\ window.customer_first_order = first
  BY WindowIs, DatasetIs
<1>2. places \subseteq DOMAIN orders /\ IsList(orders)
  BY DEF PlacesIn, PlainOrders
<1>3. /\ \A k \in places : orders[k] \in ToSet(window.orders)
      /\ \A i \in DOMAIN window.orders : \E k \in places : window.orders[i] = orders[k]
  BY <1>1, <1>2, PickedElements
<1> HIDE DEF window, first
<1>4. CustomersOf(window) = {orders[k].customer : k \in places}
  <2>1. ASSUME NEW c \in CustomersOf(window) PROVE c \in {orders[k].customer : k \in places}
    <3>1. PICK i \in DOMAIN window.orders : c = window.orders[i].customer
      BY DEF CustomersOf, ToSet
    <3>2. QED
      BY <1>3, <3>1
  <2>2. ASSUME NEW k \in places PROVE orders[k].customer \in CustomersOf(window)
    BY <1>3 DEF CustomersOf
  <2>3. QED
    BY <2>1, <2>2
<1>5. \A day : InPeriod(day, period) <=> InPeriod(day, Span(period.start, period.end))
  BY DEF InPeriod, Span
<1>6. here \subseteq there
  <2>1. ASSUME NEW c \in here PROVE c \in there
    <3>1. c \in CustomersOf(window) /\ InPeriod(first[c], period)
      BY <1>1
    <3>2. c \in Customers(orders)
      BY <1>2, <1>4, <3>1 DEF Customers
    <3>3. QED
      BY <1>5, <3>1, <3>2 DEF Newcomers, first
  <2>2. QED
    BY <2>1
<1>7. there \subseteq here
  <2>1. ASSUME NEW c \in there PROVE c \in here
    <3>1. c \in Customers(orders) /\ InPeriod(first[c], period)
      BY <1>5 DEF Newcomers, first
    <3>2. PICK k \in DOMAIN orders : orders[k].customer = c /\ first[c] = orders[k].day
      BY <3>1, FirstOrder DEF first
    <3>3. k \in places
      BY <3>1, <3>2 DEF PlacesIn
    <3>4. QED
      BY <1>1, <1>4, <3>1, <3>2, <3>3
  <2>2. QED
    BY <2>1
<1>8. NewCustomers(window, period) = Cardinality(here)
  BY DEF NewCustomers
<1>9. QED
  BY <1>6, <1>7, <1>8 DEF window

\* The new customers of two spans side by side are those of both.
LEMMA NewcomersAdd ==
    ASSUME NEW orders, PlainOrders(orders), NEW a \in Int, NEW b \in Int, NEW c \in Int, a <= b, b <= c
    PROVE  /\ Cardinality(Newcomers(orders, a, c))
                = Cardinality(Newcomers(orders, a, b)) + Cardinality(Newcomers(orders, b, c))
           /\ Cardinality(Newcomers(orders, a, c)) \in Nat
           /\ Cardinality(Newcomers(orders, a, b)) \in Nat
           /\ Cardinality(Newcomers(orders, b, c)) \in Nat
<1> DEFINE all == Customers(orders)
           first == CustomerIndex(orders)
           left == Newcomers(orders, a, b)
           right == Newcomers(orders, b, c)
           both == Newcomers(orders, a, c)
<1>1. IsFiniteSet(all)
  <2> DEFINE n == Len(orders)
             of == [i \in 1 .. n |-> orders[i].customer]
  <2>1. n \in Nat /\ DOMAIN orders = 1 .. n
    BY ListFacts DEF PlainOrders
  <2>2. of \in Surjection(1 .. n, all)
    BY <2>1 DEF Surjection, Customers
  <2>3. IsFiniteSet(1 .. n)
    BY <2>1, FS_Interval
  <2> HIDE DEF of, n
  <2>4. QED
    BY <2>2, <2>3, FS_Surjection
<1>2. \A x \in all : first[x] \in Int
  <2> TAKE x \in all
  <2>1. PICK k \in DOMAIN orders : first[x] = orders[k].day
    BY FirstOrder
  <2>2. QED
    BY <2>1 DEF PlainOrders, Days
<1>3. \A x \in all : /\ x \in left <=> a <= first[x] /\ first[x] < b
                     /\ x \in right <=> b <= first[x] /\ first[x] < c
                     /\ x \in both <=> a <= first[x] /\ first[x] < c
  BY DEF Newcomers, InPeriod, Span
<1>4. left \subseteq all /\ right \subseteq all /\ both \subseteq all
  BY DEF Newcomers
<1> HIDE DEF all, first, left, right, both
<1>5. both = left \cup right /\ left \cap right = {}
  BY <1>2, <1>3, <1>4
<1>6. IsFiniteSet(left) /\ IsFiniteSet(right) /\ IsFiniteSet(both)
  BY <1>1, <1>4, FS_Subset
<1>7. Cardinality(left \cup right) = Cardinality(left) + Cardinality(right) - Cardinality({})
  BY <1>5, <1>6, FS_Union
<1>8. Cardinality(left) \in Nat /\ Cardinality(right) \in Nat /\ Cardinality(both) \in Nat /\ Cardinality({}) = 0
  BY <1>6, FS_CardinalityType, FS_EmptySet
<1>9. QED
  BY <1>5, <1>7, <1>8 DEF left, right, both

\* What adds up span by span adds up to that of the whole span.
LEMMA Telescope ==
    ASSUME NEW n \in Nat, NEW f, f[0] = 0, NEW list, DOMAIN list = 1 .. n, list = [k \in DOMAIN list |-> list[k]],
           \A k \in 1 .. n : list[k] \in Int /\ f[k] = f[k - 1] + list[k]
    PROVE  Total(list) = f[n]
<1>1. IsList(list) /\ Len(list) = n
  BY FunctionIsList
<1>2. Numbers(list)
  BY <1>1 DEF Numbers
<1>3. Summed(f, list)
  BY <1>1 DEF Summed
<1>4. QED
  BY <1>1, <1>2, <1>3, TotalIs

\* Later periods start later.
LEMMA StartsAreOrdered ==
    ASSUME NEW grain, NEW j \in PeriodNumbers(grain), NEW n \in Nat, n = 0 \/ j + n - 1 \in PeriodNumbers(grain)
    PROVE  /\ StartOf(grain, j) \in Int /\ StartOf(grain, j + n) \in Int
           /\ StartOf(grain, j) <= StartOf(grain, j + n)
<1>1. CASE grain = "week"
  <2>1. j \in Int /\ 7 * j <= 7 * (j + n)
    BY <1>1 DEF PeriodNumbers
  <2>2. QED
    BY <1>1, <2>1 DEF StartOf
<1>2. CASE grain # "week"
  <2>1. j \in 1 .. 37 /\ j + n \in 1 .. 37
    BY <1>2 DEF PeriodNumbers
  <2>2. MonthStarts[j] <= MonthStarts[j + n]
    <3>1. CASE n = 0
      BY <2>1, <3>1, MonthsAre
    <3>2. CASE n # 0
      <4>1. j < j + n
        BY <2>1, <3>2
      <4>2. MonthStarts[j] < MonthStarts[j + n]
        BY <2>1, <4>1, MonthsIncrease
      <4>3. QED
        BY <2>1, <4>2, MonthsAre
    <3>3. QED
      BY <3>1, <3>2
  <2>3. QED
    BY <1>2, <2>1, <2>2, MonthsAre DEF StartOf
<1>3. QED
  BY <1>1, <1>2

\* What the orders bring in over each of n periods from the j-th one on, and how many customers.
Takings(orders, grain, j, n) ==
    [k \in 1 .. n |-> Earned(orders, StartOf(grain, j + k - 1), StartOf(grain, j + k))]
Arriving(orders, grain, j, n) ==
    [k \in 1 .. n |-> Cardinality(Newcomers(orders, StartOf(grain, j + k - 1), StartOf(grain, j + k)))]

\* Over the periods from one to another, each side by side with the next, the revenues add up to
\* that of their span, and so do the new customers.
LEMMA PeriodsAddUp ==
    ASSUME NEW orders, PlainOrders(orders), NEW grain, NEW j \in PeriodNumbers(grain), NEW n \in Nat \ {0},
           j + n - 1 \in PeriodNumbers(grain)
    PROVE  /\ Total(Takings(orders, grain, j, n)) = Earned(orders, StartOf(grain, j), StartOf(grain, j + n))
           /\ Total(Arriving(orders, grain, j, n))
                = Cardinality(Newcomers(orders, StartOf(grain, j), StartOf(grain, j + n)))
<1> DEFINE revenues == Takings(orders, grain, j, n)
           newcomers == Arriving(orders, grain, j, n)
           at == [k \in 0 .. n |-> StartOf(grain, j + k)]
           f == [k \in 0 .. n |-> Earned(orders, at[0], at[k])]
           g == [k \in 0 .. n |-> Cardinality(Newcomers(orders, at[0], at[k]))]
<1>1. j \in Int /\ j + 0 = j
  BY DEF PeriodNumbers
<1>2. \A k \in 0 .. n : at[k] = StartOf(grain, j + k)
  OBVIOUS
<1>3. \A k \in 1 .. n : k - 1 \in 0 .. n /\ k \in 0 .. n /\ j + (k - 1) = j + k - 1 /\ j + k - 1 \in PeriodNumbers(grain)
  <2> TAKE k \in 1 .. n
  <2>1. CASE grain = "week"
    BY <1>1, <2>1 DEF PeriodNumbers
  <2>2. CASE grain # "week"
    BY <1>1, <2>2 DEF PeriodNumbers
  <2>3. QED
    BY <2>1, <2>2
<1>4. 0 \in 0 .. n /\ n \in 0 .. n /\ at[0] = StartOf(grain, j) /\ at[n] = StartOf(grain, j + n)
  BY <1>1, <1>2
<1>5. \A k \in 0 .. n : at[k] \in Int /\ at[0] \in Int /\ at[0] <= at[k]
  <2> TAKE k \in 0 .. n
  <2>1. k \in Nat /\ (k = 0 \/ j + k - 1 \in PeriodNumbers(grain))
    BY <1>3
  <2>2. /\ StartOf(grain, j) \in Int /\ StartOf(grain, j + k) \in Int
        /\ StartOf(grain, j) <= StartOf(grain, j + k)
    BY <2>1, StartsAreOrdered
  <2>3. QED
    BY <1>2, <1>4, <2>2
<1>6. \A k \in 1 .. n : at[k - 1] = StartOf(grain, j + k - 1) /\ at[k] = StartOf(grain, j + k) /\ at[k - 1] <= at[k]
  <2> TAKE k \in 1 .. n
  <2>1. at[k - 1] = StartOf(grain, j + k - 1) /\ at[k] = StartOf(grain, j + k)
    BY <1>2, <1>3
  <2>2. (j + k - 1) + 1 = j + k
    BY <1>1
  <2>3. StartOf(grain, j + k - 1) <= StartOf(grain, j + k)
    BY <1>3, <2>2, StartsIncrease
  <2>4. QED
    BY <2>1, <2>3
<1> HIDE DEF at
<1>7. \A k \in 1 .. n : /\ revenues[k] = Earned(orders, at[k - 1], at[k])
                        /\ newcomers[k] = Cardinality(Newcomers(orders, at[k - 1], at[k]))
  BY <1>6 DEF Takings, Arriving
<1>8. /\ \A k \in 0 .. n : f[k] = Earned(orders, at[0], at[k])
      /\ \A k \in 0 .. n : g[k] = Cardinality(Newcomers(orders, at[0], at[k]))
  OBVIOUS
<1>9. DOMAIN revenues = 1 .. n /\ revenues = [k \in DOMAIN revenues |-> revenues[k]]
  BY DEF Takings
<1>10. DOMAIN newcomers = 1 .. n /\ newcomers = [k \in DOMAIN newcomers |-> newcomers[k]]
  BY DEF Arriving
<1> HIDE DEF f, g, revenues, newcomers
<1>11. \A k \in 1 .. n : revenues[k] \in Int /\ f[k] = f[k - 1] + revenues[k]
  <2> TAKE k \in 1 .. n
  <2>1. at[0] \in Int /\ at[k - 1] \in Int /\ at[k] \in Int /\ at[0] <= at[k - 1] /\ at[k - 1] <= at[k]
    BY <1>3, <1>5, <1>6
  <2>2. /\ Earned(orders, at[0], at[k]) = Earned(orders, at[0], at[k - 1]) + Earned(orders, at[k - 1], at[k])
        /\ Earned(orders, at[k - 1], at[k]) \in Int
    BY <2>1, EarnedAdds
  <2>3. QED
    BY <1>3, <1>7, <1>8, <2>2
<1>12. \A k \in 1 .. n : newcomers[k] \in Int /\ g[k] = g[k - 1] + newcomers[k]
  <2> TAKE k \in 1 .. n
  <2>1. at[0] \in Int /\ at[k - 1] \in Int /\ at[k] \in Int /\ at[0] <= at[k - 1] /\ at[k - 1] <= at[k]
    BY <1>3, <1>5, <1>6
  <2>2. /\ Cardinality(Newcomers(orders, at[0], at[k])) = Cardinality(Newcomers(orders, at[0], at[k - 1]))
                                                       + Cardinality(Newcomers(orders, at[k - 1], at[k]))
        /\ Cardinality(Newcomers(orders, at[k - 1], at[k])) \in Int
    BY <2>1, NewcomersAdd
  <2>3. QED
    BY <1>3, <1>7, <1>8, <2>2
<1>13. f[0] = 0 /\ g[0] = 0
  <2>1. at[0] \in Int /\ at[0] <= at[0]
    BY <1>4, <1>5
  <2> DEFINE x == Earned(orders, at[0], at[0])
             y == Cardinality(Newcomers(orders, at[0], at[0]))
  <2>2. x \in Int /\ x = x + x
    BY <2>1, EarnedAdds
  <2>3. y \in Nat /\ y = y + y
    BY <2>1, NewcomersAdd
  <2>4. f[0] = x /\ g[0] = y
    BY <1>4, <1>8
  <2> HIDE DEF x, y
  <2>5. QED
    BY <2>2, <2>3, <2>4
<1>14. Total(revenues) = f[n]
  BY <1>9, <1>11, <1>13, Telescope
<1>15. Total(newcomers) = g[n]
  BY <1>10, <1>12, <1>13, Telescope
<1>16. QED
  BY <1>4, <1>8, <1>14, <1>15 DEF revenues, newcomers

\* Without orders there is no revenue and no customer.
LEMMA NothingAddsUp ==
    ASSUME NEW orders, orders = << >>, NEW a, NEW b
    PROVE  Earned(orders, a, b) = 0 /\ Cardinality(Newcomers(orders, a, b)) = 0
<1> DEFINE c == Counted(orders, PlacesIn(orders, Span(a, b)), SubtotalsOf(orders))
           f == [k \in {0} |-> 0]
<1>1. c = << >>
  BY EmptyList DEF Counted
<1>2. f[0] = 0
  OBVIOUS
<1> HIDE DEF c, f
<1>3. IsList(c) /\ Len(c) = 0 /\ DOMAIN c = {}
  BY <1>1, EmptyList
<1>4. Numbers(c) /\ Summed(f, c)
  BY <1>2, <1>3 DEF Numbers, Summed
<1>5. Total(c) = 0
  BY <1>2, <1>3, <1>4, TotalIs
<1>6. Newcomers(orders, a, b) = {}
  BY EmptyList DEF Newcomers, Customers
<1>7. QED
  BY <1>5, <1>6, FS_EmptySet DEF Earned, c

\* The days of a dataset that has orders end on a date.
LEMMA LatestIsADate ==
    ASSUME CountInv, book.orders # << >>
    PROVE  LatestDay(DatasetOf(book)) \in Days
<1> DEFINE ds == DatasetOf(book)
           S == { o.day : o \in ToSet(ds.orders) } \cup { a.day : a \in ToSet(ds.ads) }
<1>1. ds.orders = book.orders /\ ds.ads = book.ads
  BY DatasetIs
<1>2. IsList(book.orders)
  BY DEF CountInv, ReportInv, SnapshotInv, ReadInv, BookKept, OrdersKept
<1>3. S \subseteq Days
  BY <1>1, DaysAreDates DEF ToSet
<1>4. DOMAIN book.orders # {}
  <2>1. Len(book.orders) \in Nat /\ DOMAIN book.orders = 1 .. Len(book.orders)
        /\ book.orders = [i \in 1 .. Len(book.orders) |-> book.orders[i]]
    BY <1>2, ListFacts
  <2>2. book.orders \in Seq(ToSet(book.orders))
    BY <1>2, ListIs
  <2>3. QED
    BY <2>2
<1>5. S # {}
  BY <1>1, <1>4 DEF ToSet
<1>6. LatestDay(ds) = Max(S)
  BY DEF LatestDay
<1> HIDE DEF S, ds
<1>7. Max(S) \in S
  BY <1>3, <1>5, GreatestDate
<1>8. QED
  BY <1>3, <1>6, <1>7 DEF ds

\* Over the periods that a report looks back on (analytics/periods.py build_period_series, the
\* windows of domain/models.py), no order and no new customer is counted twice nor lost: the
\* revenues of the periods add up to that of the orders they span, and so do their new customers.
THEOREM Added == Spec => []NothingCountsTwice
<1>1. CountInv => NothingCountsTwice
  <2> SUFFICES ASSUME CountInv, Reported PROVE NothingCountsTwice
    BY Zenon DEF NothingCountsTwice
  <2> DEFINE orders == book.orders
             period == report.period
             periods == PeriodSeries(period, Lookback)
             span == [start |-> periods[1].start, end |-> period.end]
             n == Lookback
             Revenues == [k \in DOMAIN periods |-> TotalRevenue(Window(Analysed, periods[k]))]
             Arrivals == [k \in DOMAIN periods |-> NewCustomers(Window(Analysed, periods[k]), periods[k])]
             total == TotalRevenue(Window(Analysed, span))
             arrived == NewCustomers(Window(Analysed, span), span)
  <2>1. Analysed = DatasetOf(book)
    BY AnalysedIs DEF CountInv
  <2>2. PlainOrders(orders)
    <3>1. IsList(orders) /\ \A k \in DOMAIN orders : orders[k].day \in Days
      BY DaysAreDates DEF CountInv, ReportInv, SnapshotInv, ReadInv, BookKept, OrdersKept
    <3>2. \A k \in DOMAIN orders : orders[k].subtotal \in Int
      BY DEF CountInv, ReportInv, AmountsKept, OrderAmounts, ToSet
    <3>3. QED
      BY <3>1, <3>2 DEF PlainOrders
  <2>3. n \in 1 .. 12
    BY LookbackAssumption
  <2>4. DOMAIN periods = 1 .. n
    BY DEF PeriodSeries
  <2>5. \A p : TotalRevenue(Window(Analysed, p)) = Earned(orders, p.start, p.end)
    BY <2>1, <2>2, RevenueIs
  <2>6. \A p : NewCustomers(Window(Analysed, p), p) = Cardinality(Newcomers(orders, p.start, p.end))
    BY <2>1, <2>2, NewcomersAre
  <2>7. /\ NothingCountsTwice <=> /\ SumOf(periods, LAMBDA p : TotalRevenue(Window(Analysed, p))) = total
                                  /\ SumOf(periods, LAMBDA p : NewCustomers(Window(Analysed, p), p)) = arrived
    BY Zenon DEF NothingCountsTwice
  <2>8. NothingCountsTwice <=> Total(Revenues) = total /\ Total(Arrivals) = arrived
    <3> HIDE DEF periods, total, arrived
    <3>1. SumOf(periods, LAMBDA p : TotalRevenue(Window(Analysed, p))) = Total(Revenues)
      BY OnceIs, Zenon DEF SumOf, Mapped, Once
    <3>2. SumOf(periods, LAMBDA p : NewCustomers(Window(Analysed, p), p)) = Total(Arrivals)
      BY OnceIs, Zenon DEF SumOf, Mapped, Once
    <3>3. QED
      BY <2>7, <3>1, <3>2, Zenon
  <2>9. /\ total = Earned(orders, periods[1].start, period.end)
        /\ arrived = Cardinality(Newcomers(orders, periods[1].start, period.end))
    <3>1. span.start = periods[1].start /\ span.end = period.end
      OBVIOUS
    <3> HIDE DEF span
    <3>2. QED
      BY <2>5, <2>6, <3>1
  <2>10. /\ Revenues = [k \in 1 .. n |-> Earned(orders, periods[k].start, periods[k].end)]
         /\ Arrivals = [k \in 1 .. n |-> Cardinality(Newcomers(orders, periods[k].start, periods[k].end))]
    <3> HIDE DEF periods
    <3>1. QED
      BY <2>4, <2>5, <2>6
  <2> HIDE DEF span, Revenues, Arrivals, total, arrived
  <2>11. CASE orders = << >>
    <3> DEFINE zeros == [k \in 1 .. n |-> 0]
               f == [k \in 0 .. n |-> 0]
    <3>1. total = 0 /\ arrived = 0
      BY <2>9, <2>11, NothingAddsUp
    <3>2. Revenues = zeros /\ Arrivals = zeros
      <4> HIDE DEF periods, orders
      <4>1. QED
        BY <2>10, <2>11, NothingAddsUp
    <3>3. \A k \in 1 .. n : zeros[k] \in Int /\ f[k] = f[k - 1] + zeros[k]
      BY <2>3
    <3>4. DOMAIN zeros = 1 .. n /\ zeros = [k \in DOMAIN zeros |-> zeros[k]] /\ f[0] = 0 /\ f[n] = 0 /\ n \in Nat
      BY <2>3
    <3> HIDE DEF zeros, f
    <3>5. Total(zeros) = 0
      BY <3>3, <3>4, Telescope
    <3>6. QED
      BY <2>8, <3>1, <3>2, <3>5
  <2>12. CASE orders # << >>
    <3>1. PICK grain \in Grains, reference \in References :
                period = LastCompletePeriod(LatestDay(DatasetOf(book)),
                             IF reference = None THEN LatestDay(DatasetOf(book)) ELSE reference, grain)
      <4>1. PICK grain \in Grains, reference \in References :
                    ReportSays(report, dataset.read, dataset.quality, PeriodOf(dataset.read, grain, reference))
        BY DEF CountInv, ReportInv, Reported
      <4>2. report.period = PeriodOf(dataset.read, grain, reference)
        BY <4>1, Zenon DEF ReportSays
      <4>3. QED
        BY <2>1, <4>2 DEF PeriodOf, Analysed
    <3>2. LatestDay(DatasetOf(book)) \in Days
      BY <2>12, LatestIsADate
    <3>3. PICK j \in PeriodNumbers(grain) : period = PeriodAt(grain, j) /\ (grain # "week" => j >= 12)
      BY <3>1, <3>2, LastPeriodIs
    <3> DEFINE i == j - n + 1
    <3>4. i \in PeriodNumbers(grain) /\ j \in Int /\ i \in Int
      <4>1. CASE grain = "week"
        BY <2>3, <4>1 DEF PeriodNumbers
      <4>2. CASE grain # "week"
        <5>1. j \in 1 .. 36 /\ j >= 12
          BY <3>3, <4>2 DEF PeriodNumbers
        <5>2. j - n + 1 \in 1 .. 36
          BY <2>3, <5>1
        <5>3. QED
          BY <4>2, <5>1, <5>2 DEF PeriodNumbers
      <4>3. QED
        BY <4>1, <4>2
    <3>5. n \in Nat \ {0} /\ i + n - 1 = j /\ i + n = j + 1
      BY <2>3, <3>4
    <3>6. periods = [k \in 1 .. n |-> PeriodAt(grain, j - n + k)]
      BY <3>3, <3>4, <3>5, SeriesIs
    <3> HIDE DEF periods
    <3>7. \A k \in 1 .. n : periods[k].start = StartOf(grain, i + k - 1) /\ periods[k].end = StartOf(grain, i + k)
      <4> TAKE k \in 1 .. n
      <4>1. periods[k] = PeriodAt(grain, j - n + k) /\ j - n + k = i + k - 1 /\ (j - n + k) + 1 = i + k
        BY <2>3, <3>4, <3>6
      <4> HIDE DEF i
      <4>2. QED
        BY <4>1 DEF PeriodAt
    <3>8. period.end = StartOf(grain, i + n) /\ periods[1].start = StartOf(grain, i)
      <4>1. period.end = StartOf(grain, i + n)
        BY <3>3, <3>5 DEF PeriodAt
      <4>2. 1 \in 1 .. n /\ i + 1 - 1 = i
        BY <2>3, <3>4
      <4>3. QED
        BY <3>7, <4>1, <4>2
    <3> HIDE DEF i
    <3>9. Revenues = Takings(orders, grain, i, n) /\ Arrivals = Arriving(orders, grain, i, n)
      BY <2>10, <3>7 DEF Takings, Arriving
    <3>10. i + n - 1 \in PeriodNumbers(grain)
      BY <3>3, <3>5
    <3> HIDE DEF orders, n, period
    <3>11. /\ Total(Takings(orders, grain, i, n)) = Earned(orders, StartOf(grain, i), StartOf(grain, i + n))
           /\ Total(Arriving(orders, grain, i, n))
                = Cardinality(Newcomers(orders, StartOf(grain, i), StartOf(grain, i + n)))
      BY <2>2, <3>4, <3>5, <3>10, PeriodsAddUp
    <3>12. QED
      BY <2>8, <2>9, <3>8, <3>9, <3>11
  <2>13. QED
    BY <2>11, <2>12
<1>2. QED
  BY <1>1, Counts, PTL
=============================================================================
