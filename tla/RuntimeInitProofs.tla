------------------------- MODULE RuntimeInitProofs -------------------------
(***************************************************************************)
(* Theorems about RuntimeInit, for all initial sizes of the pools, all     *)
(* names a host registers and whatever allocations fail.                   *)
(***************************************************************************)
EXTENDS RuntimeInit, SequenceTheorems, WellFoundedInduction, TLAPS

-----------------------------------------------------------------------------
(* One registration.                                                       *)

Sane(t) == t \in Table /\ DistinctNames(t)

Bounded(t) == t.pool_size > 0 => WithinPool(t)

Bindings(t, u) == \A n : Find(u, n) = Find(t, n)

BindingAdded(t, u, name, object) ==
  \A n : Find(u, n) = IF n = name THEN object ELSE Find(t, n)

(* What n_register_named_object may come to: an entry more under a new name, *)
(* or the entries as they were.                                             *)
Outcome(t, name, object, r) ==
  /\ Sane(r.table)
  /\ r.table.pool_size > 0 <=> t.pool_size > 0
  /\ Bounded(t) => Bounded(r.table)
  /\ \/ /\ r.status = "SUCCESS" /\ Find(t, name) = NULL
        /\ BindingAdded(t, r.table, name, object)
     \/ /\ r.status # "SUCCESS" /\ r.table.pool = t.pool
        /\ Bindings(t, r.table)

LEMMA FindEntry ==
  ASSUME NEW t, Sane(t), NEW i \in DOMAIN t.pool
  PROVE  /\ Find(t, t.pool[i].name) = t.pool[i].object
         /\ Find(t, t.pool[i].name) # NULL
<1>1. t.pool \in Seq(Entry) /\ t.pool[i] \in Entry /\ DOMAIN t.pool \subseteq Nat
  BY DEF Sane, Table
<1>2. Hits(t, t.pool[i].name) = {i}
  BY <1>1 DEF Hits, Sane, DistinctNames
<1>3. (CHOOSE k \in Hits(t, t.pool[i].name) :
         \A j \in Hits(t, t.pool[i].name) : k <= j) = i
  BY <1>1, <1>2
<1> QED
  BY <1>1, <1>2, <1>3, NameTableAssumption DEF Find, Entry

LEMMA FindNothing ==
  ASSUME NEW t, NEW name, \A i \in DOMAIN t.pool : t.pool[i].name # name
  PROVE  Find(t, name) = NULL
BY DEF Find, Hits

LEMMA FindDepends ==
  ASSUME NEW t, NEW u, u.pool = t.pool
  PROVE  Bindings(t, u)
BY DEF Bindings, Find, Hits

LEMMA GrownTable ==
  ASSUME NEW t, Sane(t)
  PROVE  /\ Sane(Grown(t)) /\ Grown(t).pool = t.pool
         /\ Grown(t).pool_size > 0 <=> t.pool_size > 0
         /\ Bounded(t) /\ t.pool_size > 0 => Len(t.pool) + 1 <= Grown(t).pool_size
<1>1. t.pool \in Seq(Entry) /\ Len(t.pool) \in Nat /\ t.pool_size \in Nat
  BY DEF Sane, Table
<1> DEFINE n == Len(t.pool)
<1> HIDE DEF n
<1>2. n \in Nat /\ n = Len(t.pool)
  BY <1>1 DEF n
<1>3. CASE MustGrow(t)
  <2>1. Grown(t) = [pool_size |-> 2 * t.pool_size, pool |-> t.pool]
    BY <1>1, <1>3 DEF Grown, Sane, Table
  <2>2. Bounded(t) /\ t.pool_size > 0 => n + 1 <= 2 * t.pool_size
    BY <1>1, <1>2 DEF Bounded, WithinPool
  <2> QED BY <1>1, <1>2, <2>1, <2>2 DEF Sane, Table, DistinctNames
<1>4. CASE ~MustGrow(t)
  BY <1>1, <1>2, <1>4 DEF Grown, MustGrow, Bounded, WithinPool
<1> QED BY <1>3, <1>4

(* Appending an entry under a new name. *)
LEMMA AppendEntry ==
  ASSUME NEW g, Sane(g), NEW name \in Names, NEW object \in Objects,
         Find(g, name) = NULL, NEW h,
         h = [pool_size |-> g.pool_size,
              pool |-> Append(g.pool, [name |-> name, object |-> object])]
  PROVE  /\ Sane(h) /\ h.pool_size = g.pool_size
         /\ Len(h.pool) = Len(g.pool) + 1
         /\ BindingAdded(g, h, name, object)
<1> DEFINE e == [name |-> name, object |-> object]
           n == Len(g.pool)
<1>1. g.pool \in Seq(Entry) /\ g.pool_size \in Nat /\ n \in Nat /\ DOMAIN g.pool = 1 .. n
  BY DEF Sane, Table
<1>2. e \in Entry /\ e.name = name /\ e.object = object
  BY DEF Entry
<1> HIDE DEF e, n
<1>3. /\ h.pool = Append(g.pool, e) /\ h.pool_size = g.pool_size
      /\ h.pool \in Seq(Entry) /\ Len(h.pool) = n + 1 /\ DOMAIN h.pool = 1 .. n + 1
      /\ \A i \in 1 .. n : h.pool[i] = g.pool[i]
      /\ h.pool[n + 1] = e
  BY <1>1, <1>2 DEF n, e
<1>4. h \in Table
  BY <1>1, <1>3 DEF Table
<1>5. \A i \in 1 .. n : g.pool[i].name # name
  BY <1>1, FindEntry
<1>6. ASSUME NEW i \in 1 .. n + 1, NEW j \in 1 .. n + 1, h.pool[i].name = h.pool[j].name
      PROVE  i = j
  <2>1. i \in 1 .. n \/ i = n + 1
    BY <1>1
  <2>2. j \in 1 .. n \/ j = n + 1
    BY <1>1
  <2>3. CASE i \in 1 .. n /\ j \in 1 .. n
    BY <1>1, <1>3, <1>6, <2>3 DEF Sane, DistinctNames
  <2> QED BY <1>2, <1>3, <1>5, <1>6, <2>1, <2>2, <2>3
<1>7. Sane(h)
  BY <1>3, <1>4, <1>6 DEF Sane, DistinctNames
<1>8. ASSUME NEW m
      PROVE  Find(h, m) = IF m = name THEN object ELSE Find(g, m)
  <2>1. CASE m = name
    BY <1>1, <1>2, <1>3, <1>7, <2>1, FindEntry, n + 1 \in 1 .. n + 1
  <2>2. CASE m # name /\ \E i \in 1 .. n : g.pool[i].name = m
    <3>1. PICK i \in 1 .. n : g.pool[i].name = m
      BY <2>2
    <3>2. i \in 1 .. n + 1 /\ h.pool[i].name = m
      BY <1>1, <1>3, <3>1
    <3>3. Find(h, m) = h.pool[i].object
      BY <1>3, <1>7, <3>2, FindEntry
    <3>4. Find(g, m) = g.pool[i].object
      BY <1>1, <3>1, FindEntry
    <3> QED BY <1>3, <2>2, <3>3, <3>4
  <2>3. CASE m # name /\ \A i \in 1 .. n : g.pool[i].name # m
    <3>1. Find(g, m) = NULL
      BY <1>1, <2>3, FindNothing
    <3>2. \A i \in 1 .. n + 1 : h.pool[i].name # m
      <4>1. ASSUME NEW i \in 1 .. n + 1 PROVE h.pool[i].name # m
        <5>1. i \in 1 .. n \/ i = n + 1
          BY <1>1
        <5> QED BY <1>2, <1>3, <2>3, <5>1
      <4> QED BY <4>1
    <3>3. Find(h, m) = NULL
      BY <1>3, <3>2, FindNothing
    <3> QED BY <2>3, <3>1, <3>3
  <2> QED BY <2>1, <2>2, <2>3
<1> QED BY <1>3, <1>7, <1>8 DEF BindingAdded, n

LEMMA RegisterOutcome ==
  ASSUME NEW t, Sane(t), NEW name \in Names, NEW object \in Objects,
         NEW mem \in BOOLEAN
  PROVE  Outcome(t, name, object, Register(t, name, object, mem))
<1> DEFINE r == Register(t, name, object, mem)
           g == Grown(t)
           h == [pool_size |-> g.pool_size,
                 pool |-> Append(g.pool, [name |-> name, object |-> object])]
<1>1. /\ Sane(g) /\ g.pool = t.pool
      /\ g.pool_size > 0 <=> t.pool_size > 0
      /\ Bounded(t) /\ t.pool_size > 0 => Len(t.pool) + 1 <= g.pool_size
  BY GrownTable
<1>2. Bindings(t, t) /\ Bindings(t, g)
  BY <1>1, FindDepends
<1>3. t.pool_size \in Nat /\ g.pool_size \in Nat /\ Len(t.pool) \in Nat
  BY <1>1 DEF Sane, Table
<1>4. object # NULL
  BY NameTableAssumption
<1>5. CASE r = [status |-> "BAD_ALLOCATION", table |-> t]
  BY <1>2, <1>5 DEF Outcome
<1>6. CASE r = [status |-> "REPEATED_NAME", table |-> g]
  <2>1. Bounded(t) => Bounded(g)
    <3> DEFINE m == Len(t.pool)
    <3>1. m \in Nat /\ m = Len(g.pool)
      BY <1>1, <1>3
    <3> HIDE DEF m
    <3>2. Bounded(t) /\ t.pool_size > 0 => m + 1 <= g.pool_size
      BY <1>1 DEF m
    <3> QED BY <1>1, <1>3, <3>1, <3>2 DEF Bounded, WithinPool
  <2> QED BY <1>1, <1>2, <1>6, <2>1 DEF Outcome
<1>7. CASE Find(g, name) = NULL
           /\ r = [status |-> "SUCCESS",
                   table |-> [g EXCEPT !.pool = Append(@, [name |-> name, object |-> object])]]
  <2>1. r.status = "SUCCESS" /\ r.table = h
    <3> HIDE DEF g, r
    <3> QED BY <1>1, <1>7 DEF Sane, Table
  <2>2. /\ Sane(h) /\ h.pool_size = g.pool_size /\ Len(h.pool) = Len(g.pool) + 1
        /\ BindingAdded(g, h, name, object)
    <3> HIDE DEF g
    <3> QED BY <1>1, <1>7, AppendEntry
  <2> HIDE DEF g, h
  <2>3. Bounded(t) => Bounded(h)
    BY <1>1, <1>3, <2>2 DEF Bounded, WithinPool
  <2>4. Find(t, name) = NULL /\ BindingAdded(t, h, name, object)
    BY <1>2, <1>7, <2>2 DEF Bindings, BindingAdded
  <2> QED BY <1>1, <2>1, <2>2, <2>3, <2>4 DEF Outcome
<1>8. \/ r = [status |-> "BAD_ALLOCATION", table |-> t]
      \/ r = [status |-> "REPEATED_NAME", table |-> g]
      \/ /\ Find(g, name) = NULL
         /\ r = [status |-> "SUCCESS",
                 table |-> [g EXCEPT !.pool = Append(@, [name |-> name, object |-> object])]]
  BY <1>4, Zenon DEF Register
<1> HIDE DEF g, h, r
<1> QED BY <1>5, <1>6, <1>7, <1>8

-----------------------------------------------------------------------------
(* Induction over numbers, from the well-foundedness of their order.       *)

Less == { pair \in Nat \X Nat : pair[1] < pair[2] }

LEMMA LeastNumber ==
  ASSUME NEW T, T \subseteq Nat, T # { }
  PROVE  \E m \in T : \A k \in T : m <= k
<1>1. Less = OpToRel(<, Nat)
  BY DEF Less, OpToRel
<1>2. PICK m \in T : \A k \in T : ~(<< k, m >> \in Less)
  <2>1. IsWellFoundedOn(Less, Nat)
    BY <1>1, NatLessThanWellFounded
  <2> QED BY <2>1, WFMin, Zenon
<1>3. ASSUME NEW k \in T PROVE m <= k
  <2>1. k \in Nat /\ m \in Nat
    OBVIOUS
  <2>2. ~(k < m)
    BY <1>2, <2>1 DEF Less
  <2> QED BY <2>1, <2>2
<1> QED BY <1>3

LEMMA Induction ==
  ASSUME NEW n \in Nat, NEW S,
         0 \in S, \A k \in 0 .. n - 1 : k \in S => k + 1 \in S
  PROVE  \A k \in 0 .. n : k \in S
<1> DEFINE T == (0 .. n) \ S
<1>1. SUFFICES ASSUME T # { } PROVE FALSE
  OBVIOUS
<1>2. PICK m \in T : \A k \in T : m <= k
  <2>1. T \subseteq Nat
    OBVIOUS
  <2> HIDE DEF T
  <2> QED BY <1>1, <2>1, LeastNumber
<1>3. m # 0 /\ m - 1 \in 0 .. n - 1 /\ m - 1 \notin T
  BY <1>2
<1> QED BY <1>2, <1>3

-----------------------------------------------------------------------------
(* A series of registrations.                                              *)

Started(table) == [table |-> table, failed |-> 0]

(* The states g after each of the first n registrations of a series.       *)
IsSeries(kind, table, names, failing, g, n) ==
  g = [ i \in 0 .. n |->
          IF i = 0 THEN Started(table)
          ELSE RegisterUnlessFailed(kind, g[i - 1], names, i, failing) ]

LEMMA SeriesExists ==
  ASSUME NEW kind, NEW table, NEW names, NEW failing, NEW n \in Nat
  PROVE  \E g : IsSeries(kind, table, names, failing, g, n)
<1> DEFINE S == { k \in Nat : \E g : IsSeries(kind, table, names, failing, g, k) }
           At(g, i) == IF i = 0 THEN Started(table)
                       ELSE RegisterUnlessFailed(kind, g[i - 1], names, i, failing)
<1>1. 0 \in S
  <2> DEFINE g == [ i \in 0 .. 0 |-> Started(table) ]
  <2>1. IsSeries(kind, table, names, failing, g, 0)
    BY DEF IsSeries
  <2> QED BY <2>1
<1>2. ASSUME NEW k \in 0 .. n - 1, k \in S PROVE k + 1 \in S
  <2>1. PICK g : IsSeries(kind, table, names, failing, g, k)
    BY <1>2
  <2> DEFINE h == [ i \in 0 .. k + 1 |-> IF i <= k THEN g[i] ELSE At(g, k + 1) ]
  <2>2. ASSUME NEW i \in 0 .. k + 1 PROVE h[i] = At(h, i)
    <3>1. h[i] = At(g, i)
      <4>1. i <= k => g[i] = At(g, i)
        BY <2>1 DEF IsSeries
      <4>2. i > k => i = k + 1
        OBVIOUS
      <4> HIDE DEF At
      <4> QED BY <4>1, <4>2
    <3>2. i # 0 => h[i - 1] = g[i - 1]
      OBVIOUS
    <3> HIDE DEF h
    <3>3. At(h, i) = At(g, i)
      BY <3>2
    <3> QED BY <3>1, <3>3
  <2>3. h = [ i \in 0 .. k + 1 |-> At(h, i) ]
    <3> HIDE DEF At
    <3> QED BY <2>2
  <2>4. IsSeries(kind, table, names, failing, h, k + 1)
    BY <2>3, Zenon DEF IsSeries
  <2> QED BY <2>4
<1>3. n \in S
  <2> HIDE DEF S
  <2> QED BY <1>1, <1>2, Induction, n \in 0 .. n
<1> QED BY <1>3

(* What a series has come to after i registrations.  A name that is there   *)
(* already ends it, at the latest when it is the first of the series.       *)
Progress(table, names, i, r) ==
  /\ Sane(r.table)
  /\ r.table.pool_size > 0 <=> table.pool_size > 0
  /\ Bounded(table) => Bounded(r.table)
  /\ r.failed \in 0 .. i
  /\ \A n : Find(table, n) # NULL => Find(r.table, n) = Find(table, n)
  /\ r.failed = 0 =>
       \A j \in 1 .. i : /\ Find(r.table, names[j]) = names[j]
                         /\ Find(table, names[j]) = NULL
  /\ Find(table, names[1]) # NULL =>
       /\ r.table.pool = table.pool
       /\ i > 0 => r.failed = 1

LEMMA ProgressMade ==
  ASSUME NEW kind, NEW failing, NEW table, NEW names \in Seq(Names \cap Objects),
         NEW i \in 0 .. Len(names) - 1, NEW r, Progress(table, names, i, r)
  PROVE  Progress(table, names, i + 1,
                  RegisterUnlessFailed(kind, r, names, i + 1, failing))
<1> DEFINE name == names[i + 1]
           o == RegisterNext(kind, r, name, failing)
           s == RegisterUnlessFailed(kind, r, names, i + 1, failing)
<1>1. i \in Nat /\ i + 1 \in 1 .. Len(names) /\ name \in Names /\ name \in Objects
  <2>1. Len(names) \in Nat
    OBVIOUS
  <2>2. i \in Nat /\ i + 1 \in 1 .. Len(names)
    BY <2>1
  <2> QED BY <2>2, ElementOfSeq
<1>2. CASE r.failed # 0
  <2>1. s = r
    BY <1>2 DEF RegisterUnlessFailed
  <2> HIDE DEF s
  <2>2. i > 0
    BY <1>1, <1>2 DEF Progress
  <2> QED BY <1>1, <1>2, <2>1, <2>2 DEF Progress, s
<1>3. CASE r.failed = 0
  <2>1. Outcome(r.table, name, name, o)
    <3>1. Sane(r.table)
      BY DEF Progress
    <3> HIDE DEF name
    <3>2. \A mem \in BOOLEAN : Outcome(r.table, name, name, Register(r.table, name, name, mem))
      BY <1>1, <3>1, RegisterOutcome
    <3> QED BY <3>2 DEF RegisterNext
  <2>2. s.table = o.table /\ s.failed = IF o.status = "SUCCESS" THEN 0 ELSE i + 1
    BY <1>3 DEF RegisterUnlessFailed, RegisterAt
  <2> HIDE DEF o, s, name
  <2>3. /\ Sane(s.table)
        /\ s.table.pool_size > 0 <=> table.pool_size > 0
        /\ Bounded(table) => Bounded(s.table)
        /\ s.failed \in 0 .. i + 1
    BY <1>1, <2>1, <2>2 DEF Progress, Outcome
  <2>4. CASE o.status = "SUCCESS" /\ Find(r.table, name) = NULL
             /\ BindingAdded(r.table, o.table, name, name)
    <3>1. Find(table, name) = NULL
      BY <2>4 DEF Progress
    <3>2. \A n : Find(table, n) # NULL => Find(s.table, n) = Find(table, n)
      BY <2>2, <2>4, <3>1 DEF Progress, BindingAdded
    <3>3. ASSUME NEW j \in 1 .. i + 1
          PROVE  Find(s.table, names[j]) = names[j] /\ Find(table, names[j]) = NULL
      <4>1. CASE j \in 1 .. i
        <5>1. Find(r.table, names[j]) = names[j] /\ Find(table, names[j]) = NULL
          BY <1>3, <4>1 DEF Progress
        <5> QED BY <2>2, <2>4, <5>1 DEF BindingAdded
      <4>2. CASE j = i + 1
        BY <2>2, <2>4, <3>1, <4>2 DEF BindingAdded, name
      <4> QED BY <1>1, <4>1, <4>2
    <3>4. Find(table, names[1]) = NULL
      <4>1. 1 \in 1 .. i + 1
        BY <1>1
      <4> QED BY <3>3, <4>1
    <3> QED BY <2>3, <3>2, <3>3, <3>4 DEF Progress, s
  <2>5. CASE o.status # "SUCCESS" /\ o.table.pool = r.table.pool
             /\ Bindings(r.table, o.table)
    <3>1. \A n : Find(table, n) # NULL => Find(s.table, n) = Find(table, n)
      BY <2>2, <2>5 DEF Progress, Bindings
    <3>2. s.failed = i + 1 /\ s.failed # 0
      BY <1>1, <2>2, <2>5
    <3>3. Find(table, names[1]) # NULL => s.table.pool = table.pool /\ s.failed = 1
      <4>1. Find(table, names[1]) # NULL => i = 0
        BY <1>1, <1>3 DEF Progress
      <4> QED BY <2>2, <2>5, <3>2, <4>1 DEF Progress
    <3> QED BY <2>3, <3>1, <3>2, <3>3 DEF Progress, s
  <2> QED BY <2>1, <2>4, <2>5 DEF Outcome
<1>4. r.failed \in 0 .. i
  BY DEF Progress
<1> QED BY <1>2, <1>3, Zenon

LEMMA SeriesOutcome ==
  ASSUME NEW kind, NEW failing, NEW table, Sane(table),
         NEW names \in Seq(Names \cap Objects)
  PROVE  Progress(table, names, Len(names), RegisterAll(kind, table, names, failing))
<1> DEFINE n == Len(names)
           g == CHOOSE f : IsSeries(kind, table, names, failing, f, n)
           S == { i \in Nat : i \in 0 .. n => Progress(table, names, i, g[i]) }
<1>1. n \in Nat
  OBVIOUS
<1>2. RegisterAll(kind, table, names, failing) = g[n]
  BY Zenon DEF RegisterAll, IsSeries, Started
<1>3. IsSeries(kind, table, names, failing, g, n)
  <2> HIDE DEF n
  <2> QED BY <1>1, SeriesExists, Zenon
<1> HIDE DEF g
<1>4. g[0] = Started(table)
  <2> HIDE DEF n
  <2> QED BY <1>1, <1>3 DEF IsSeries
<1>5. ASSUME NEW i \in 0 .. n - 1
      PROVE  g[i + 1] = RegisterUnlessFailed(kind, g[i], names, i + 1, failing)
  <2> HIDE DEF n
  <2>1. i + 1 \in 0 .. n /\ i + 1 # 0 /\ (i + 1) - 1 = i
    BY <1>1
  <2> QED BY <1>3, <2>1 DEF IsSeries
<1>6. 0 \in S
  <2>1. Started(table).table = table /\ Started(table).failed = 0
    BY DEF Started
  <2>2. Progress(table, names, 0, Started(table))
    <3> HIDE DEF n
    <3> QED BY <2>1 DEF Progress
  <2> QED BY <1>4, <2>2
<1>7. ASSUME NEW i \in 0 .. n - 1, i \in S PROVE i + 1 \in S
  <2>1. Progress(table, names, i, g[i])
    <3> HIDE DEF n
    <3> QED BY <1>1, <1>7
  <2>2. Progress(table, names, i + 1, g[i + 1])
    BY <1>5, <2>1, ProgressMade
  <2> QED BY <2>2
<1>8. n \in S
  <2> HIDE DEF S, n
  <2> QED BY <1>1, <1>6, <1>7, Induction, n \in 0 .. n
<1> QED BY <1>1, <1>2, <1>8

-----------------------------------------------------------------------------
(* The runtime's lists of names.                                           *)

LEMMA ThreeNames ==
  ASSUME NEW X, NEW a \in X, NEW b \in X, NEW c \in X
  PROVE  << a, b, c >> \in Seq(X) /\ Len(<< a, b, c >>) = 3
OBVIOUS

LEMMA FiveNames ==
  ASSUME NEW X, NEW s, s = << s[1], s[2], s[3], s[4], s[5] >>,
         s[1] \in X, s[2] \in X, s[3] \in X, s[4] \in X, s[5] \in X
  PROVE  s \in Seq(X) /\ Len(s) = 5
<1> DEFINE a == s[1] b == s[2] c == s[3] d == s[4] e == s[5]
<1> HIDE DEF a, b, c, d, e
<1>1. a \in X /\ b \in X /\ c \in X /\ d \in X /\ e \in X
  BY DEF a, b, c, d, e
<1>2. << a, b, c, d, e >> \in Seq(X) /\ Len(<< a, b, c, d, e >>) = 5
  BY <1>1
<1>3. s = << a, b, c, d, e >>
  BY DEF a, b, c, d, e
<1> QED BY <1>2, <1>3

LEMMA NameLists ==
  /\ CoreErrors \in Seq(Names \cap Objects) /\ Len(CoreErrors) = 5
  /\ TypeErrors \in Seq(Names \cap Objects) /\ Len(TypeErrors) = 3
  /\ ValueTypes \in Seq(Names \cap Objects) /\ Len(ValueTypes) = 3
  /\ EvaluatorErrors \in Seq(Names \cap Objects) /\ Len(EvaluatorErrors) = 3
<1> DEFINE X == Names \cap Objects
<1>1. RuntimeNames \subseteq X
  BY RuntimeAssumption
<1>2. /\ NamesOf(CoreErrors) \subseteq X /\ NamesOf(TypeErrors) \subseteq X
      /\ NamesOf(ValueTypes) \subseteq X /\ NamesOf(EvaluatorErrors) \subseteq X
  BY <1>1 DEF RuntimeNames
<1> HIDE DEF X
<1>3. CoreErrors \in Seq(X) /\ Len(CoreErrors) = 5
  <2>1. DOMAIN CoreErrors = 1 .. 5
    BY DEF CoreErrors
  <2>2. /\ CoreErrors[1] \in X /\ CoreErrors[2] \in X /\ CoreErrors[3] \in X
        /\ CoreErrors[4] \in X /\ CoreErrors[5] \in X
    BY <1>2, <2>1 DEF NamesOf
  <2>3. CoreErrors = << CoreErrors[1], CoreErrors[2], CoreErrors[3], CoreErrors[4],
                        CoreErrors[5] >>
    BY DEF CoreErrors
  <2> QED BY <2>2, <2>3, FiveNames
<1>4. TypeErrors \in Seq(X) /\ Len(TypeErrors) = 3
  <2>1. DOMAIN TypeErrors = 1 .. 3
    BY DEF TypeErrors
  <2>2. TypeErrors[1] \in X /\ TypeErrors[2] \in X /\ TypeErrors[3] \in X
    BY <1>2, <2>1 DEF NamesOf
  <2>3. TypeErrors = << TypeErrors[1], TypeErrors[2], TypeErrors[3] >>
    BY DEF TypeErrors
  <2> QED BY <2>2, <2>3, ThreeNames, Zenon
<1>5. ValueTypes \in Seq(X) /\ Len(ValueTypes) = 3
  <2>1. DOMAIN ValueTypes = 1 .. 3
    BY DEF ValueTypes
  <2>2. ValueTypes[1] \in X /\ ValueTypes[2] \in X /\ ValueTypes[3] \in X
    BY <1>2, <2>1 DEF NamesOf
  <2>3. ValueTypes = << ValueTypes[1], ValueTypes[2], ValueTypes[3] >>
    BY DEF ValueTypes
  <2> QED BY <2>2, <2>3, ThreeNames, Zenon
<1>6. EvaluatorErrors \in Seq(X) /\ Len(EvaluatorErrors) = 3
  <2>1. DOMAIN EvaluatorErrors = 1 .. 3
    BY DEF EvaluatorErrors
  <2>2. /\ EvaluatorErrors[1] \in X /\ EvaluatorErrors[2] \in X
        /\ EvaluatorErrors[3] \in X
    BY <1>2, <2>1 DEF NamesOf
  <2>3. EvaluatorErrors = << EvaluatorErrors[1], EvaluatorErrors[2], EvaluatorErrors[3] >>
    BY DEF EvaluatorErrors
  <2> QED BY <2>2, <2>3, ThreeNames, Zenon
<1> QED BY <1>3, <1>4, <1>5, <1>6 DEF X

LEMMA OwnOfBoth ==
  ASSUME NEW t, NEW a \in Seq(Names \cap Objects), NEW b \in Seq(Names \cap Objects)
  PROVE  HasOwn(t, a \o b) <=> HasOwn(t, a) /\ HasOwn(t, b)
<1>1. NamesOf(a \o b) = NamesOf(a) \cup NamesOf(b)
  <2> DEFINE m == Len(a)
             n == Len(b)
  <2>1. /\ m \in Nat /\ n \in Nat
        /\ DOMAIN a = 1 .. m /\ DOMAIN b = 1 .. n /\ DOMAIN (a \o b) = 1 .. m + n
        /\ \A i \in 1 .. m + n : (a \o b)[i] = IF i <= m THEN a[i] ELSE b[i - m]
    OBVIOUS
  <2> DEFINE c == a \o b
  <2> HIDE DEF m, n, c
  <2>2. /\ DOMAIN c = 1 .. m + n
        /\ \A i \in 1 .. m + n : c[i] = IF i <= m THEN a[i] ELSE b[i - m]
    BY <2>1 DEF c
  <2>3. \A i \in 1 .. m + n : c[i] \in NamesOf(a) \cup NamesOf(b)
    <3>1. ASSUME NEW i \in 1 .. m + n PROVE c[i] \in NamesOf(a) \cup NamesOf(b)
      <4>1. CASE i <= m
        BY <2>1, <2>2, <4>1 DEF NamesOf
      <4>2. CASE i > m
        <5>1. i - m \in 1 .. n /\ c[i] = b[i - m]
          BY <2>1, <2>2, <4>2
        <5> QED BY <2>1, <5>1 DEF NamesOf
      <4> QED BY <2>1, <4>1, <4>2
    <3> QED BY <3>1
  <2>4. ASSUME NEW i \in 1 .. m PROVE a[i] \in NamesOf(c)
    <3>1. i \in 1 .. m + n /\ i <= m
      BY <2>1
    <3>2. c[i] = a[i]
      BY <2>2, <3>1
    <3> QED BY <2>2, <3>1, <3>2 DEF NamesOf
  <2>5. ASSUME NEW i \in 1 .. n PROVE b[i] \in NamesOf(c)
    <3>1. i + m \in 1 .. m + n /\ ~(i + m <= m) /\ (i + m) - m = i
      BY <2>1
    <3>2. c[i + m] = b[i]
      BY <2>2, <3>1
    <3> QED BY <2>2, <3>1, <3>2 DEF NamesOf
  <2>6. NamesOf(c) \subseteq NamesOf(a) \cup NamesOf(b)
    BY <2>2, <2>3 DEF NamesOf
  <2>7. NamesOf(a) \subseteq NamesOf(c) /\ NamesOf(b) \subseteq NamesOf(c)
    BY <2>1, <2>4, <2>5 DEF NamesOf
  <2> QED BY <2>6, <2>7 DEF c
<1> QED BY <1>1 DEF HasOwn

(* What a table keeps of another.                                          *)
Grows(t, u) ==
  /\ Sane(u)
  /\ u.pool_size > 0 <=> t.pool_size > 0
  /\ Bounded(t) => Bounded(u)
  /\ \A n : Find(t, n) # NULL => Find(u, n) = Find(t, n)

LEMMA OwnKept ==
  ASSUME NEW t, NEW u, \A n : Find(t, n) # NULL => Find(u, n) = Find(t, n),
         NEW names \in Seq(Names \cap Objects), HasOwn(t, names)
  PROVE  HasOwn(u, names)
<1>1. ASSUME NEW name \in NamesOf(names) PROVE Find(u, name) = name
  <2>1. name \in Objects /\ name # NULL
    <3>1. PICK i \in DOMAIN names : name = names[i]
      BY DEF NamesOf
    <3> QED BY <3>1, NameTableAssumption
  <2>2. Find(t, name) = name
    BY DEF HasOwn
  <2> QED BY <2>1, <2>2
<1> QED BY <1>1 DEF HasOwn

(* A series as a whole: it keeps what was there and ends without an error  *)
(* only if none of its names was.                                          *)
Ended(t, names, r) ==
  /\ Grows(t, r.table)
  /\ r.failed \in 0 .. Len(names)
  /\ r.failed = 0 => HasOwn(r.table, names)
  /\ r.failed = 0 => \A name \in NamesOf(names) : Find(t, name) = NULL
  /\ HasOwn(t, names) => r.failed # 0 /\ r.table.pool = t.pool

LEMMA SeriesKeeps ==
  ASSUME NEW kind, NEW failing, NEW t, Sane(t),
         NEW names \in Seq(Names \cap Objects), Len(names) > 0,
         NEW r, r = RegisterAll(kind, t, names, failing)
  PROVE  Ended(t, names, r)
<1>1. Progress(t, names, Len(names), r)
  BY SeriesOutcome
<1>2. DOMAIN names = 1 .. Len(names) /\ Len(names) \in Nat
  OBVIOUS
<1>3. r.failed = 0 => /\ HasOwn(r.table, names)
                      /\ \A name \in NamesOf(names) : Find(t, name) = NULL
  BY <1>1, <1>2 DEF Progress, HasOwn, NamesOf
<1>4. ASSUME HasOwn(t, names) PROVE r.failed # 0 /\ r.table.pool = t.pool
  <2>1. 1 \in DOMAIN names /\ names[1] \in Names \cap Objects
    BY <1>2, ElementOfSeq
  <2>2. Find(t, names[1]) # NULL
    BY <1>4, <2>1, NameTableAssumption DEF HasOwn, NamesOf
  <2> QED BY <1>1, <2>2 DEF Progress
<1> QED BY <1>1, <1>3, <1>4 DEF Progress, Grows, Ended

-----------------------------------------------------------------------------
(* The registries with their flags.                                        *)

Registries == [errors : Table, errors_ready : BOOLEAN,
               types : Table, types_ready : BOOLEAN]

SaneState(s) ==
  /\ s \in Registries
  /\ DistinctNames(s.errors) /\ DistinctNames(s.types)
  /\ WithinPool(s.errors) /\ Bounded(s.types)
  /\ s.errors_ready => s.errors.pool_size > 0 /\ HasOwn(s.errors, CoreErrors)
  /\ s.types_ready => s.errors_ready /\ HasOwn(s.errors, TypeErrors)

HalfDone(s) ==
  /\ s.errors_ready /\ ~s.types_ready
  /\ \E name \in NamesOf(TypeErrors) : Find(s.errors, name) # NULL

ErrorsKept(s, u) ==
  s.errors_ready =>
    /\ u.errors_ready
    /\ \A n : Find(s.errors, n) # NULL => Find(u.errors, n) = Find(s.errors, n)

TypesKept(s, u) ==
  s.types_ready =>
    /\ u.types_ready
    /\ \A n : Find(s.types, n) # NULL => Find(u.types, n) = Find(s.types, n)

Kept(s, u) ==
  /\ ErrorsKept(s, u)
  /\ TypesKept(s, u)
  /\ HalfDone(s) => ~u.types_ready

LEMMA KeptBySteps ==
  ASSUME NEW s \in Registries, NEW u \in Registries, NEW v, Kept(s, u), Kept(u, v)
  PROVE  Kept(s, v)
<1>1. ErrorsKept(s, v)
  BY DEF Kept, ErrorsKept
<1>2. TypesKept(s, v)
  BY DEF Kept, TypesKept
<1>3. HalfDone(s) => HalfDone(u)
  BY DEF Kept, ErrorsKept, HalfDone
<1> QED BY <1>1, <1>2, <1>3 DEF Kept

LEMMA KeptAsIs ==
  ASSUME NEW s \in Registries
  PROVE  Kept(s, s)
BY DEF Kept, ErrorsKept, TypesKept, HalfDone

(* Registrations in the error registry, once it is initialized.            *)
LEMMA ErrorsGrow ==
  ASSUME NEW s, SaneState(s), s.errors_ready, NEW t, Grows(s.errors, t), NEW u,
         u = [s EXCEPT !.errors = t]
  PROVE  SaneState(u) /\ Kept(s, u)
<1>1. /\ s \in Registries /\ t \in Table
      /\ u = [errors |-> t, errors_ready |-> s.errors_ready,
              types |-> s.types, types_ready |-> s.types_ready]
  BY DEF SaneState, Registries, Grows, Sane
<1>2. /\ u \in Registries /\ u.errors = t /\ u.types = s.types
      /\ u.errors_ready = s.errors_ready /\ u.types_ready = s.types_ready
  BY <1>1 DEF Registries
<1>3. Kept(s, u)
  BY <1>2 DEF Kept, ErrorsKept, TypesKept, HalfDone, Grows
<1>4. HasOwn(t, CoreErrors)
  BY NameLists, OwnKept DEF SaneState, Grows
<1>5. s.types_ready => HasOwn(t, TypeErrors)
  BY NameLists, OwnKept DEF SaneState, Grows
<1>6. t.pool_size > 0 /\ WithinPool(t)
  BY DEF SaneState, Grows, Bounded
<1>7. DistinctNames(t)
  BY DEF Grows, Sane
<1> QED BY <1>2, <1>3, <1>4, <1>5, <1>6, <1>7 DEF SaneState

(* And in the type registry.                                               *)
LEMMA TypesGrow ==
  ASSUME NEW s, SaneState(s), s.types_ready, NEW t, Grows(s.types, t), NEW u,
         u = [s EXCEPT !.types = t]
  PROVE  SaneState(u) /\ Kept(s, u)
<1>1. /\ s \in Registries /\ t \in Table
      /\ u = [errors |-> s.errors, errors_ready |-> s.errors_ready,
              types |-> t, types_ready |-> s.types_ready]
  BY DEF SaneState, Registries, Grows, Sane
<1>2. /\ u \in Registries /\ u.errors = s.errors /\ u.types = t
      /\ u.errors_ready = s.errors_ready /\ u.types_ready = s.types_ready
  BY <1>1 DEF Registries
<1>3. Kept(s, u)
  BY <1>2 DEF Kept, ErrorsKept, TypesKept, HalfDone, Grows
<1>4. DistinctNames(t) /\ Bounded(t)
  BY DEF Grows, Sane, SaneState
<1> QED BY <1>2, <1>3, <1>4 DEF SaneState

-----------------------------------------------------------------------------
(* The init functions, each as what its callers rely on.                   *)

LEMMA ErrorsReplaced ==
  ASSUME NEW s \in Registries, NEW t, NEW b
  PROVE  [s EXCEPT !.errors = t, !.errors_ready = b] =
           [errors |-> t, errors_ready |-> b,
            types |-> s.types, types_ready |-> s.types_ready]
<1>1. PICK e, f, g, h : s = [errors |-> e, errors_ready |-> f, types |-> g, types_ready |-> h]
  BY DEF Registries
<1>2. [s EXCEPT !.errors = t] = [errors |-> t, errors_ready |-> f, types |-> g, types_ready |-> h]
  BY <1>1
<1>3. [s EXCEPT !.errors = t, !.errors_ready = b] =
        [[errors |-> t, errors_ready |-> f, types |-> g, types_ready |-> h]
           EXCEPT !.errors_ready = b]
  BY <1>2
<1> QED BY <1>1, <1>3

LEMMA TablesReplaced ==
  ASSUME NEW s \in Registries, NEW t, NEW m
  PROVE  [s EXCEPT !.types = m, !.errors = t] =
           [errors |-> t, errors_ready |-> s.errors_ready,
            types |-> m, types_ready |-> s.types_ready]
<1>1. PICK e, f, g, h : s = [errors |-> e, errors_ready |-> f, types |-> g, types_ready |-> h]
  BY DEF Registries
<1>2. [s EXCEPT !.types = m] = [errors |-> e, errors_ready |-> f, types |-> m, types_ready |-> h]
  BY <1>1
<1>3. [s EXCEPT !.types = m, !.errors = t] =
        [[errors |-> e, errors_ready |-> f, types |-> m, types_ready |-> h]
           EXCEPT !.errors = t]
  BY <1>2
<1> QED BY <1>1, <1>3

NewTable(size) == [pool_size |-> size, pool |-> << >>]

LEMMA NewTableIsSane ==
  ASSUME NEW size \in Nat \ {0}
  PROVE  /\ Sane(NewTable(size)) /\ Bounded(NewTable(size))
         /\ NewTable(size).pool_size > 0
BY DEF NewTable, Sane, Table, DistinctNames, Bounded, WithinPool

LEMMA InitErrorsOutcome ==
  ASSUME NEW s, SaneState(s), NEW failing, NEW r, r = InitErrors(s, failing)
  PROVE  /\ SaneState(r.s) /\ Kept(s, r.s)
         /\ r.ret \in -7 .. 0
         /\ r.ret = 0 => r.s.errors_ready
         /\ s.errors_ready => r.ret = 0 /\ r.s = s
         /\ r.s.types_ready = s.types_ready
<1> DEFINE mem == << "errors", -1 >> \notin failing
           filled == RegisterAll("errors", NewTable(ErrorPoolSize), CoreErrors, failing)
           good == filled.failed = 0
           u == [s EXCEPT !.errors = filled.table, !.errors_ready = good]
<1>1. s \in Registries /\ s.errors_ready \in BOOLEAN
  BY DEF SaneState, Registries
<1>2. CASE s.errors_ready
  <2>1. r = [ret |-> 0, s |-> s]
    BY <1>2 DEF InitErrors
  <2> QED BY <1>1, <1>2, <2>1, KeptAsIs
<1>3. CASE ~s.errors_ready /\ ~mem
  <2>1. r = [ret |-> -2, s |-> s]
    BY <1>3, RuntimeAssumption DEF InitErrors, Construct
  <2> QED BY <1>1, <1>3, <2>1, KeptAsIs
<1>4. CASE ~s.errors_ready /\ mem
  <2>1. r = [ret |-> IF filled.failed = 0 THEN 0 ELSE -2 - filled.failed, s |-> u]
    <3>1. Construct(s.errors, ErrorPoolSize, mem) =
            [status |-> "SUCCESS", table |-> NewTable(ErrorPoolSize)]
      BY <1>4, RuntimeAssumption DEF Construct, NewTable
    <3> DEFINE made == Construct(s.errors, ErrorPoolSize, mem)
    <3>2. made.status = "SUCCESS" /\ made.table = NewTable(ErrorPoolSize)
      BY <3>1
    <3> HIDE DEF made
    <3>3. InitErrors(s, failing) =
            LET filled2 == RegisterAll("errors", made.table, CoreErrors, failing)
            IN  [ret |-> IF filled2.failed = 0 THEN 0 ELSE -2 - filled2.failed,
                 s   |-> [s EXCEPT !.errors = filled2.table,
                                   !.errors_ready = filled2.failed = 0]]
      BY <1>4, <3>2, Zenon DEF InitErrors, made
    <3> QED BY <3>2, <3>3
  <2> DEFINE t == NewTable(ErrorPoolSize)
  <2>2. Sane(t) /\ Bounded(t) /\ t.pool_size > 0
    BY RuntimeAssumption, NewTableIsSane
  <2> HIDE DEF t, filled, good, u
  <2>3. /\ Grows(t, filled.table) /\ filled.failed \in 0 .. 5
        /\ filled.failed = 0 => HasOwn(filled.table, CoreErrors)
    <3>1. filled = RegisterAll("errors", t, CoreErrors, failing)
      BY Zenon DEF filled, t
    <3>2. CoreErrors \in Seq(Names \cap Objects) /\ Len(CoreErrors) = 5 /\ Len(CoreErrors) > 0
      BY NameLists
    <3>3. /\ Grows(t, filled.table) /\ filled.failed \in 0 .. Len(CoreErrors)
          /\ filled.failed = 0 => HasOwn(filled.table, CoreErrors)
      BY <2>2, <3>1, <3>2, SeriesKeeps DEF Ended
    <3> QED BY <3>2, <3>3
  <2>4. /\ u = [errors |-> filled.table, errors_ready |-> good,
                types |-> s.types, types_ready |-> s.types_ready]
        /\ filled.table \in Table
    <3>1. filled.table \in Table
      BY <2>3 DEF Grows, Sane
    <3> QED BY <1>1, <3>1, ErrorsReplaced, Zenon DEF u
  <2>5. /\ u \in Registries /\ u.errors = filled.table /\ u.types = s.types
        /\ u.errors_ready = (filled.failed = 0) /\ u.types_ready = s.types_ready
    <3>1. good \in BOOLEAN /\ good = (filled.failed = 0)
      BY DEF good
    <3> QED BY <1>1, <2>4, <3>1 DEF Registries
  <2>6. ~s.types_ready
    BY <1>4 DEF SaneState
  <2>7. Kept(s, u)
    BY <1>4, <2>5, <2>6 DEF Kept, ErrorsKept, TypesKept
  <2>8. /\ DistinctNames(filled.table) /\ WithinPool(filled.table)
        /\ filled.table.pool_size > 0
    BY <2>2, <2>3 DEF Grows, Sane, Bounded
  <2>9. SaneState(u)
    BY <2>3, <2>5, <2>6, <2>8 DEF SaneState
  <2>10. (IF filled.failed = 0 THEN 0 ELSE -2 - filled.failed) \in -7 .. 0
    BY <2>3
  <2>11. r.s = u /\ r.ret = IF filled.failed = 0 THEN 0 ELSE -2 - filled.failed
    BY <2>1
  <2>12. r.ret = 0 => filled.failed = 0
    BY <2>3, <2>11
  <2> QED BY <1>4, <2>5, <2>7, <2>9, <2>10, <2>11, <2>12
<1> QED BY <1>2, <1>3, <1>4

LEMMA TypesFilled ==
  ASSUME NEW b, SaneState(b), b.errors_ready, ~b.types_ready,
         NEW made, Sane(made), Bounded(made), NEW t, Grows(b.errors, t),
         NEW u, u = [b EXCEPT !.types = made, !.errors = t]
  PROVE  /\ SaneState(u) /\ Kept(b, u)
         /\ u.errors = t /\ u.errors_ready /\ ~u.types_ready
<1>1. b \in Registries /\ made \in Table /\ t \in Table
  BY DEF SaneState, Grows, Sane
<1>2. u = [errors |-> t, errors_ready |-> b.errors_ready,
           types |-> made, types_ready |-> b.types_ready]
  BY <1>1, TablesReplaced
<1>5. /\ u \in Registries /\ u.errors = t /\ u.types = made
      /\ u.errors_ready = b.errors_ready /\ u.types_ready = b.types_ready
  BY <1>1, <1>2 DEF Registries
<1>6. Kept(b, u)
  BY <1>5 DEF Kept, ErrorsKept, TypesKept, Grows
<1>7. HasOwn(t, CoreErrors)
  BY NameLists, OwnKept DEF SaneState, Grows
<1>8. t.pool_size > 0 /\ WithinPool(t) /\ DistinctNames(t) /\ DistinctNames(made)
  BY DEF SaneState, Grows, Bounded, Sane
<1> QED BY <1>5, <1>6, <1>7, <1>8 DEF SaneState

LEMMA TypesDone ==
  ASSUME NEW b, SaneState(b), b.errors_ready, HasOwn(b.errors, TypeErrors),
         NEW u, u = [b EXCEPT !.types_ready = TRUE]
  PROVE  /\ SaneState(u) /\ u.types_ready /\ u.errors_ready
         /\ u.errors = b.errors
<1>1. /\ b \in Registries
      /\ u = [errors |-> b.errors, errors_ready |-> b.errors_ready,
              types |-> b.types, types_ready |-> TRUE]
  BY DEF SaneState, Registries
<1>2. /\ u \in Registries /\ u.errors = b.errors /\ u.types = b.types
      /\ u.errors_ready = b.errors_ready /\ u.types_ready = TRUE
  BY <1>1 DEF Registries
<1> QED BY <1>2 DEF SaneState

LEMMA InitTypesOutcome ==
  ASSUME NEW s, SaneState(s), NEW failing, NEW r, r = InitTypes(s, failing)
  PROVE  /\ SaneState(r.s) /\ Kept(s, r.s)
         /\ r.ret \in -7 .. 0
         /\ r.ret = 0 => r.s.types_ready
         /\ s.types_ready => r.ret = 0 /\ r.s = s
<1> DEFINE below == InitErrors(s, failing)
           b == below.s
           filled == RegisterAll("errors", b.errors, TypeErrors, failing)
           made == Construct(b.types, TypePoolSize, << "types", -1 >> \notin failing).table
           u == [b EXCEPT !.types = made, !.errors = filled.table]
           v == [u EXCEPT !.types_ready = TRUE]
<1>1. s \in Registries /\ s.types_ready \in BOOLEAN
  BY DEF SaneState, Registries
<1>2. CASE s.types_ready
  <2>1. r = [ret |-> 0, s |-> s]
    BY <1>2 DEF InitTypes
  <2> QED BY <1>1, <1>2, <2>1, KeptAsIs
<1>3. CASE ~s.types_ready
  <2>1. /\ SaneState(b) /\ Kept(s, b) /\ below.ret \in -7 .. 0
        /\ below.ret = 0 => b.errors_ready
        /\ ~b.types_ready
    <3> HIDE DEF below
    <3>1. /\ SaneState(b) /\ Kept(s, b) /\ below.ret \in -7 .. 0
          /\ below.ret = 0 => b.errors_ready
          /\ b.types_ready = s.types_ready
      BY InitErrorsOutcome DEF below
    <3> QED BY <1>3, <3>1
  <2>2. r = IF below.ret < 0 THEN [ret |-> -1, s |-> b]
            ELSE IF filled.failed # 0 THEN [ret |-> -4, s |-> u]
            ELSE IF Find(u.errors, "nuvm.IllegalArgument") = NULL
            THEN [ret |-> -5, s |-> u]
            ELSE IF Find(u.errors, "nuvm.BadAllocation") = NULL
            THEN [ret |-> -6, s |-> u]
            ELSE [ret |-> 0, s |-> v]
    BY <1>3, Zenon DEF InitTypes
  <2> HIDE DEF below, v
  <2>3. CASE below.ret < 0
    <3> HIDE DEF b, u
    <3>1. r = [ret |-> -1, s |-> b]
      BY <2>2, <2>3
    <3> QED BY <1>3, <2>1, <3>1
  <2>4. CASE ~(below.ret < 0)
    <3>1. b.errors_ready
      <4> HIDE DEF b
      <4> QED BY <2>1, <2>4
    <3>2. Sane(made) /\ Bounded(made)
      <4>1. made = b.types \/ made = NewTable(TypePoolSize)
        <5> HIDE DEF b
        <5> QED BY DEF Construct, NewTable
      <4>2. Sane(b.types) /\ Bounded(b.types)
        <5> HIDE DEF b
        <5> QED BY <2>1 DEF SaneState, Registries, Sane
      <4> QED BY <4>1, <4>2, NewTableIsSane, RuntimeAssumption
    <3> HIDE DEF made
    <3>3. /\ Grows(b.errors, filled.table)
          /\ filled.failed = 0 => HasOwn(filled.table, TypeErrors)
          /\ filled.failed = 0 => \A name \in NamesOf(TypeErrors) : Find(b.errors, name) = NULL
      <4> HIDE DEF b
      <4>1. Sane(b.errors)
        BY <2>1 DEF SaneState, Registries, Sane
      <4>2. TypeErrors \in Seq(Names \cap Objects) /\ Len(TypeErrors) > 0
        BY NameLists
      <4>3. filled = RegisterAll("errors", b.errors, TypeErrors, failing)
        OBVIOUS
      <4> HIDE DEF filled
      <4>4. Ended(b.errors, TypeErrors, filled)
        BY <4>1, <4>2, <4>3, SeriesKeeps
      <4> QED BY <4>4 DEF Ended
    <3> HIDE DEF filled, b
    <3>4. /\ SaneState(u) /\ Kept(b, u)
          /\ u.errors = filled.table /\ u.errors_ready /\ ~u.types_ready
      <4> HIDE DEF u
      <4> QED BY <2>1, <3>1, <3>2, <3>3, TypesFilled DEF u
    <3> HIDE DEF u
    <3>5. Kept(s, u)
      BY <1>1, <2>1, <3>4, KeptBySteps DEF SaneState
    <3>6. CASE r.s = u /\ r.ret \in -7 .. -1
      BY <1>3, <3>4, <3>5, <3>6
    <3>7. CASE filled.failed = 0 /\ r.ret = 0 /\ r.s = v
      <4>1. /\ SaneState(v) /\ v.types_ready /\ v.errors_ready
            /\ v.errors = u.errors
        BY <3>3, <3>4, <3>7, TypesDone DEF v
      <4>2. ~HalfDone(b)
        BY <3>3, <3>7 DEF HalfDone
      <4>3. ~HalfDone(s)
        BY <2>1, <4>2 DEF HalfDone, Kept, ErrorsKept
      <4>4. Kept(s, v)
        BY <1>3, <3>5, <4>1, <4>3 DEF Kept, ErrorsKept, TypesKept
      <4> QED BY <1>3, <3>7, <4>1, <4>4
    <3>8. (r.s = u /\ r.ret \in -7 .. -1) \/ (filled.failed = 0 /\ r.ret = 0 /\ r.s = v)
      BY <2>2, <2>4
    <3> QED BY <3>6, <3>7, <3>8
  <2> QED BY <2>3, <2>4
<1> QED BY <1>2, <1>3

ValuesReady(s) == s.types_ready /\ HasOwn(s.types, ValueTypes)

PoolsAsBefore(s, u) == u.errors.pool = s.errors.pool /\ u.types.pool = s.types.pool

LEMMA InitValuesOutcome ==
  ASSUME NEW s, SaneState(s), NEW failing, NEW r, r = InitValues(s, failing)
  PROVE  /\ SaneState(r.s) /\ Kept(s, r.s)
         /\ r.ret \in -7 .. 0
         /\ r.ret = 0 => ValuesReady(r.s)
         /\ ValuesReady(s) => r.ret < 0 /\ PoolsAsBefore(s, r.s)
<1> DEFINE below == InitTypes(s, failing)
           b == below.s
           filled == RegisterAll("types", b.types, ValueTypes, failing)
           u == [b EXCEPT !.types = filled.table]
<1>1. /\ SaneState(b) /\ Kept(s, b) /\ below.ret \in -7 .. 0
      /\ below.ret = 0 => b.types_ready
      /\ s.types_ready => below.ret = 0 /\ b = s
  <2> HIDE DEF below
  <2> QED BY InitTypesOutcome DEF below
<1>2. r = IF below.ret < 0 THEN [ret |-> -1, s |-> b]
          ELSE [ret |-> IF filled.failed # 0 THEN -2 ELSE 0, s |-> u]
  BY Zenon DEF InitValues
<1>3. s \in Registries /\ b \in Registries
  <2> HIDE DEF b
  <2> QED BY <1>1 DEF SaneState
<1> HIDE DEF below
<1>4. CASE below.ret < 0
  <2> HIDE DEF b, u
  <2>1. r = [ret |-> -1, s |-> b]
    BY <1>2, <1>4
  <2>2. ~s.types_ready
    BY <1>1, <1>4
  <2> QED BY <1>1, <2>1, <2>2 DEF ValuesReady
<1>5. CASE ~(below.ret < 0)
  <2>1. b.types_ready
    <3> HIDE DEF b
    <3> QED BY <1>1, <1>5
  <2> HIDE DEF b
  <2>2. Ended(b.types, ValueTypes, filled)
    <3>1. Sane(b.types)
      BY <1>1 DEF SaneState, Registries, Sane
    <3>2. ValueTypes \in Seq(Names \cap Objects) /\ Len(ValueTypes) > 0
      BY NameLists
    <3>3. filled = RegisterAll("types", b.types, ValueTypes, failing)
      OBVIOUS
    <3> HIDE DEF filled
    <3> QED BY <3>1, <3>2, <3>3, SeriesKeeps
  <2> HIDE DEF filled
  <2>3. SaneState(u) /\ Kept(b, u)
    <3>1. Grows(b.types, filled.table)
      BY <2>2 DEF Ended
    <3> HIDE DEF u
    <3> QED BY <1>1, <2>1, <3>1, TypesGrow DEF u
  <2>4. u.types_ready /\ u.types = filled.table /\ u.errors = b.errors
    BY <1>3, <2>1 DEF Registries
  <2> HIDE DEF u
  <2>5. r.s = u /\ r.ret = IF filled.failed # 0 THEN -2 ELSE 0
    BY <1>2, <1>5
  <2>6. Kept(s, u)
    BY <1>1, <1>3, <2>3, KeptBySteps DEF SaneState
  <2>7. r.ret \in -7 .. 0
    BY <2>5
  <2>8. r.ret = 0 => ValuesReady(u)
    BY <2>2, <2>4, <2>5 DEF ValuesReady, Ended
  <2>9. ASSUME ValuesReady(s) PROVE r.ret < 0 /\ PoolsAsBefore(s, u)
    <3>1. b = s /\ HasOwn(b.types, ValueTypes)
      BY <1>1, <2>9 DEF ValuesReady
    <3>2. filled.failed # 0 /\ filled.table.pool = b.types.pool
      BY <2>2, <3>1 DEF Ended
    <3> QED BY <2>4, <2>5, <3>1, <3>2 DEF PoolsAsBefore
  <2> QED BY <2>3, <2>5, <2>6, <2>7, <2>8, <2>9
<1> QED BY <1>4, <1>5

LEMMA EvaluatorErrorsOutcome ==
  ASSUME NEW s, SaneState(s), s.errors_ready, NEW failing,
         NEW r, r = RegisterEvaluatorErrors(s, failing)
  PROVE  /\ SaneState(r.s) /\ Kept(s, r.s)
         /\ r.ret \in -7 .. 0
         /\ r.ret = 0 => HasOwn(r.s.errors, EvaluatorErrors)
         /\ r.s.types = s.types /\ r.s.types_ready = s.types_ready
<1> DEFINE filled == RegisterAll("errors", s.errors, EvaluatorErrors, failing)
           u == [s EXCEPT !.errors = filled.table]
<1>1. r = [ret |-> IF filled.failed # 0 THEN -2 ELSE 0, s |-> u]
  BY Zenon DEF RegisterEvaluatorErrors
<1>2. Ended(s.errors, EvaluatorErrors, filled)
  <2>1. Sane(s.errors)
    BY DEF SaneState, Registries, Sane
  <2>2. EvaluatorErrors \in Seq(Names \cap Objects) /\ Len(EvaluatorErrors) > 0
    BY NameLists
  <2>3. filled = RegisterAll("errors", s.errors, EvaluatorErrors, failing)
    OBVIOUS
  <2> HIDE DEF filled
  <2> QED BY <2>1, <2>2, <2>3, SeriesKeeps
<1> HIDE DEF filled
<1>3. SaneState(u) /\ Kept(s, u)
  <2>1. Grows(s.errors, filled.table)
    BY <1>2 DEF Ended
  <2> HIDE DEF u
  <2> QED BY <2>1, ErrorsGrow DEF u
<1>4. u.types_ready = s.types_ready /\ u.types = s.types /\ u.errors = filled.table
  BY DEF SaneState, Registries
<1> HIDE DEF u
<1>5. r.s = u /\ r.ret = IF filled.failed # 0 THEN -2 ELSE 0
  BY <1>1
<1>6. r.ret \in -7 .. 0
  BY <1>5
<1>7. r.ret = 0 => HasOwn(u.errors, EvaluatorErrors)
  BY <1>2, <1>4, <1>5 DEF Ended
<1> QED BY <1>3, <1>4, <1>5, <1>6, <1>7

LEMMA InitEvaluatorOutcome ==
  ASSUME NEW s, SaneState(s), NEW failing, NEW r, r = InitEvaluator(s, failing)
  PROVE  /\ SaneState(r.s) /\ Kept(s, r.s)
         /\ r.ret \in -7 .. 0
         /\ r.ret = 0 => ValuesReady(r.s) /\ HasOwn(r.s.errors, EvaluatorErrors)
         /\ ValuesReady(s) => r.ret = -3 /\ PoolsAsBefore(s, r.s)
<1> DEFINE below == InitErrors(s, failing)
           values == InitValues(below.s, failing)
           last_step == RegisterEvaluatorErrors(values.s, failing)
<1>1. r = IF below.ret < 0 THEN [ret |-> -1, s |-> below.s]
          ELSE IF values.ret < 0 THEN [ret |-> -3, s |-> values.s]
          ELSE last_step
  BY Zenon DEF InitEvaluator
<1>2. /\ SaneState(below.s) /\ Kept(s, below.s) /\ below.ret \in -7 .. 0
      /\ s.errors_ready => below.ret = 0 /\ below.s = s
  <2> HIDE DEF below
  <2> QED BY InitErrorsOutcome DEF below
<1> HIDE DEF below
<1>3. /\ SaneState(values.s) /\ Kept(below.s, values.s) /\ values.ret \in -7 .. 0
      /\ values.ret = 0 => ValuesReady(values.s)
      /\ ValuesReady(below.s) => values.ret < 0 /\ PoolsAsBefore(below.s, values.s)
  <2> HIDE DEF values
  <2> QED BY <1>2, InitValuesOutcome DEF values
<1> HIDE DEF values, last_step
<1>4. Kept(s, values.s)
  BY <1>2, <1>3, KeptBySteps DEF SaneState
<1>5. ASSUME ValuesReady(s)
      PROVE  /\ below.ret = 0 /\ below.s = s
             /\ values.ret < 0 /\ PoolsAsBefore(s, values.s)
  BY <1>2, <1>3, <1>5 DEF ValuesReady, SaneState
<1>6. CASE below.ret < 0
  <2>1. r.ret = -1 /\ r.s = below.s
    BY <1>1, <1>6
  <2> QED BY <1>2, <1>5, <1>6, <2>1
<1>7. CASE ~(below.ret < 0) /\ values.ret < 0
  <2>1. r.ret = -3 /\ r.s = values.s
    BY <1>1, <1>7
  <2> QED BY <1>3, <1>4, <1>5, <2>1
<1>8. CASE ~(below.ret < 0) /\ ~(values.ret < 0)
  <2>1. r = last_step
    BY <1>1, <1>8
  <2>2. ValuesReady(values.s) /\ values.s.errors_ready
    BY <1>3, <1>8 DEF ValuesReady, SaneState
  <2>3. /\ SaneState(r.s) /\ Kept(values.s, r.s) /\ r.ret \in -7 .. 0
        /\ r.ret = 0 => HasOwn(r.s.errors, EvaluatorErrors)
        /\ r.s.types = values.s.types /\ r.s.types_ready = values.s.types_ready
    BY <1>3, <2>1, <2>2, EvaluatorErrorsOutcome DEF last_step
  <2>4. Kept(s, r.s)
    BY <1>3, <1>4, <2>3, KeptBySteps DEF SaneState
  <2>5. ValuesReady(r.s)
    BY <2>2, <2>3 DEF ValuesReady
  <2>6. ~ValuesReady(s)
    BY <1>5, <1>8
  <2> QED BY <2>3, <2>4, <2>5, <2>6
<1> QED BY <1>6, <1>7, <1>8

-----------------------------------------------------------------------------
(* The invariant: what a success has promised is still there, because each  *)
(* call keeps what was registered in an initialized registry.               *)

RuntimeInv ==
  /\ SaneState(rt)
  /\ last \in [call : Calls \cup {"none", "host"}, ret : -7 .. 0]
  /\ done \subseteq Calls
  /\ "values" \in done => ValuesReady(rt)
  /\ "evaluator" \in done => ValuesReady(rt) /\ HasOwn(rt.errors, EvaluatorErrors)

LEMMA RuntimeInvInit == Init => RuntimeInv
<1> SUFFICES ASSUME Init PROVE RuntimeInv
  OBVIOUS
<1>1. /\ Sane(ZeroedTable) /\ WithinPool(ZeroedTable) /\ Bounded(ZeroedTable)
  BY DEF ZeroedTable, Sane, Table, DistinctNames, WithinPool, Bounded
<1>2. SaneState(rt)
  BY <1>1 DEF Init, SaneState, Registries, Sane
<1> QED BY <1>2 DEF Init, RuntimeInv

LEMMA ReadyKept ==
  ASSUME NEW s, SaneState(s), NEW u, Kept(s, u)
  PROVE  /\ ValuesReady(s) => ValuesReady(u)
         /\ s.errors_ready /\ HasOwn(s.errors, EvaluatorErrors) =>
              HasOwn(u.errors, EvaluatorErrors)
<1>1. ASSUME ValuesReady(s) PROVE ValuesReady(u)
  BY <1>1, NameLists, OwnKept DEF ValuesReady, Kept, TypesKept
<1>2. ASSUME s.errors_ready, HasOwn(s.errors, EvaluatorErrors)
      PROVE  HasOwn(u.errors, EvaluatorErrors)
  BY <1>2, NameLists, OwnKept DEF Kept, ErrorsKept
<1> QED BY <1>1, <1>2

(* Whatever leaves sane registries that keep what was there keeps what      *)
(* earlier successes promised.                                              *)
LEMMA PromisesKept ==
  ASSUME RuntimeInv, NEW u, SaneState(u), Kept(rt, u)
  PROVE  /\ "values" \in done => ValuesReady(u)
         /\ "evaluator" \in done => ValuesReady(u) /\ HasOwn(u.errors, EvaluatorErrors)
<1>1. ValuesReady(rt) => rt.errors_ready
  BY DEF RuntimeInv, SaneState, ValuesReady
<1> QED BY <1>1, ReadyKept DEF RuntimeInv

LEMMA ReturnKeeps ==
  ASSUME RuntimeInv, NEW call \in Calls, NEW result, Return(call, result),
         SaneState(result.s), Kept(rt, result.s), result.ret \in -7 .. 0,
         call = "values" /\ result.ret = 0 => ValuesReady(result.s),
         call = "evaluator" /\ result.ret = 0 =>
           ValuesReady(result.s) /\ HasOwn(result.s.errors, EvaluatorErrors)
  PROVE  RuntimeInv' /\ Kept(rt, rt') /\ last'.call = call /\ last'.ret = result.ret
<1>1. rt' = result.s /\ last' = [call |-> call, ret |-> result.ret]
  BY DEF Return
<1>2. done' = IF result.ret = 0 THEN done \cup {call} ELSE done
  BY DEF Return
<1>3. /\ "values" \in done => ValuesReady(result.s)
      /\ "evaluator" \in done =>
           ValuesReady(result.s) /\ HasOwn(result.s.errors, EvaluatorErrors)
  BY PromisesKept
<1>4. done' \subseteq Calls
  BY <1>2 DEF RuntimeInv
<1>5. "values" \in done' => ValuesReady(result.s)
  BY <1>2, <1>3
<1>6. "evaluator" \in done' =>
        ValuesReady(result.s) /\ HasOwn(result.s.errors, EvaluatorErrors)
  BY <1>2, <1>3
<1>7. last' \in [call : Calls \cup {"none", "host"}, ret : -7 .. 0]
  BY <1>1
<1>8. /\ SaneState(rt)' = SaneState(result.s)
      /\ ValuesReady(rt)' = ValuesReady(result.s)
      /\ HasOwn(rt.errors, EvaluatorErrors)' = HasOwn(result.s.errors, EvaluatorErrors)
  BY <1>1
<1> QED BY <1>1, <1>4, <1>5, <1>6, <1>7, <1>8 DEF RuntimeInv

LEMMA HostKeeps ==
  ASSUME RuntimeInv, NEW u, SaneState(u), Kept(rt, u), rt' = u,
         last' = [call |-> "host", ret |-> 0], done' = done
  PROVE  RuntimeInv' /\ Kept(rt, rt') /\ last'.call = "host"
<1>1. /\ "values" \in done => ValuesReady(u)
      /\ "evaluator" \in done => ValuesReady(u) /\ HasOwn(u.errors, EvaluatorErrors)
  BY PromisesKept
<1>2. last' \in [call : Calls \cup {"none", "host"}, ret : -7 .. 0]
  OBVIOUS
<1>3. /\ SaneState(rt)' = SaneState(u)
      /\ ValuesReady(rt)' = ValuesReady(u)
      /\ HasOwn(rt.errors, EvaluatorErrors)' = HasOwn(u.errors, EvaluatorErrors)
  OBVIOUS
<1> QED BY <1>1, <1>2, <1>3 DEF RuntimeInv

(* A registration by the host adds a name or leaves the entries.            *)
LEMMA HostRegistrationGrows ==
  ASSUME NEW t, Sane(t), NEW name \in Names, NEW mem \in BOOLEAN
  PROVE  Grows(t, Register(t, name, "host", mem).table)
<1> DEFINE r == Register(t, name, "host", mem)
<1>1. Outcome(t, name, "host", r)
  BY RegisterOutcome, RuntimeAssumption
<1> HIDE DEF r
<1>2. \A n : Find(t, n) # NULL => Find(r.table, n) = Find(t, n)
  BY <1>1 DEF Outcome, Bindings, BindingAdded
<1>3. Grows(t, r.table)
  BY <1>1, <1>2 DEF Outcome, Grows
<1> QED BY <1>3 DEF r

Step ==
  /\ RuntimeInv'
  /\ Kept(rt, rt')
  /\ "evaluator" \in done /\ last'.call = "evaluator" =>
       last'.ret = -3 /\ PoolsAsBefore(rt, rt')

LEMMA NextKeeps ==
  ASSUME RuntimeInv, Next
  PROVE  Step
<1>1. SaneState(rt) /\ rt \in Registries
  BY DEF RuntimeInv, SaneState
<1>2. CASE CallInitErrors
  <2>1. PICK failing \in FailingSites : Return("errors", InitErrors(rt, failing))
    BY <1>2 DEF CallInitErrors
  <2> DEFINE r == InitErrors(rt, failing)
  <2>2. SaneState(r.s) /\ Kept(rt, r.s) /\ r.ret \in -7 .. 0
    BY <1>1, InitErrorsOutcome
  <2> HIDE DEF r
  <2>3. Return("errors", r) /\ "errors" \in Calls
    BY <2>1 DEF r, Calls
  <2>4. RuntimeInv' /\ Kept(rt, rt') /\ last'.call = "errors"
    BY <2>2, <2>3, ReturnKeeps
  <2> QED BY <2>4 DEF Step
<1>3. CASE CallInitTypes
  <2>1. PICK failing \in FailingSites : Return("types", InitTypes(rt, failing))
    BY <1>3 DEF CallInitTypes
  <2> DEFINE r == InitTypes(rt, failing)
  <2>2. SaneState(r.s) /\ Kept(rt, r.s) /\ r.ret \in -7 .. 0
    BY <1>1, InitTypesOutcome
  <2> HIDE DEF r
  <2>3. Return("types", r) /\ "types" \in Calls
    BY <2>1 DEF r, Calls
  <2>4. RuntimeInv' /\ Kept(rt, rt') /\ last'.call = "types"
    BY <2>2, <2>3, ReturnKeeps
  <2> QED BY <2>4 DEF Step
<1>4. CASE CallInitValues
  <2>1. PICK failing \in FailingSites : Return("values", InitValues(rt, failing))
    BY <1>4 DEF CallInitValues
  <2> DEFINE r == InitValues(rt, failing)
  <2>2. /\ SaneState(r.s) /\ Kept(rt, r.s) /\ r.ret \in -7 .. 0
        /\ r.ret = 0 => ValuesReady(r.s)
    BY <1>1, InitValuesOutcome
  <2> HIDE DEF r
  <2>3. Return("values", r) /\ "values" \in Calls
    BY <2>1 DEF r, Calls
  <2>4. RuntimeInv' /\ Kept(rt, rt') /\ last'.call = "values"
    BY <2>2, <2>3, ReturnKeeps
  <2> QED BY <2>4 DEF Step
<1>5. CASE CallInitEvaluator
  <2>1. PICK failing \in FailingSites : Return("evaluator", InitEvaluator(rt, failing))
    BY <1>5 DEF CallInitEvaluator
  <2> DEFINE r == InitEvaluator(rt, failing)
  <2>2. /\ SaneState(r.s) /\ Kept(rt, r.s) /\ r.ret \in -7 .. 0
        /\ r.ret = 0 => ValuesReady(r.s) /\ HasOwn(r.s.errors, EvaluatorErrors)
        /\ ValuesReady(rt) => r.ret = -3 /\ PoolsAsBefore(rt, r.s)
    BY <1>1, InitEvaluatorOutcome
  <2> HIDE DEF r
  <2>3. Return("evaluator", r) /\ "evaluator" \in Calls
    BY <2>1 DEF r, Calls
  <2>4. RuntimeInv' /\ Kept(rt, rt') /\ last'.call = "evaluator" /\ last'.ret = r.ret
    BY <2>2, <2>3, ReturnKeeps
  <2>5. rt' = r.s
    BY <2>3 DEF Return
  <2>6. "evaluator" \in done => r.ret = -3 /\ PoolsAsBefore(rt, rt')
    BY <2>2, <2>5 DEF RuntimeInv
  <2> QED BY <2>4, <2>6 DEF Step
<1>6. CASE HostRegistersError
  <2>1. PICK name \in HostErrors, mem \in BOOLEAN :
          /\ rt.errors_ready
          /\ rt' = [rt EXCEPT !.errors = Register(rt.errors, name, "host", mem).table]
          /\ last' = [call |-> "host", ret |-> 0]
          /\ UNCHANGED done
    BY <1>6 DEF HostRegistersError
  <2> DEFINE t == Register(rt.errors, name, "host", mem).table
             u == [rt EXCEPT !.errors = t]
  <2>2. Grows(rt.errors, t)
    <3>1. Sane(rt.errors) /\ name \in Names
      BY <1>1, RuntimeAssumption DEF SaneState, Registries, Sane
    <3> QED BY <3>1, HostRegistrationGrows
  <2> HIDE DEF t
  <2>3. SaneState(u) /\ Kept(rt, u)
    <3> HIDE DEF u
    <3> QED BY <1>1, <2>1, <2>2, ErrorsGrow DEF u
  <2>4. rt' = u
    BY <2>1 DEF t
  <2> HIDE DEF u
  <2>5. RuntimeInv' /\ Kept(rt, rt') /\ last'.call = "host"
    BY <2>1, <2>3, <2>4, HostKeeps
  <2> QED BY <2>5 DEF Step
<1>7. CASE HostRegistersType
  <2>1. PICK name \in HostTypes, mem \in BOOLEAN :
          /\ rt.types_ready
          /\ rt' = [rt EXCEPT !.types = Register(rt.types, name, "host", mem).table]
          /\ last' = [call |-> "host", ret |-> 0]
          /\ UNCHANGED done
    BY <1>7 DEF HostRegistersType
  <2> DEFINE t == Register(rt.types, name, "host", mem).table
             u == [rt EXCEPT !.types = t]
  <2>2. Grows(rt.types, t)
    <3>1. Sane(rt.types) /\ name \in Names
      BY <1>1, RuntimeAssumption DEF SaneState, Registries, Sane
    <3> QED BY <3>1, HostRegistrationGrows
  <2> HIDE DEF t
  <2>3. SaneState(u) /\ Kept(rt, u)
    <3> HIDE DEF u
    <3> QED BY <1>1, <2>1, <2>2, TypesGrow DEF u
  <2>4. rt' = u
    BY <2>1 DEF t
  <2> HIDE DEF u
  <2>5. RuntimeInv' /\ Kept(rt, rt') /\ last'.call = "host"
    BY <2>1, <2>3, <2>4, HostKeeps
  <2> QED BY <2>5 DEF Step
<1> QED BY <1>2, <1>3, <1>4, <1>5, <1>6, <1>7 DEF Next

LEMMA RuntimeInvNext == RuntimeInv /\ [Next]_vars => RuntimeInv'
<1>1. CASE Next
  BY <1>1, NextKeeps DEF Step
<1>2. CASE UNCHANGED vars
  BY <1>2 DEF vars, RuntimeInv
<1> QED BY <1>1, <1>2

(* The inductive invariant holds whatever is called and whatever fails.     *)
THEOREM RuntimeInvariant == Spec => []RuntimeInv
BY RuntimeInvInit, RuntimeInvNext, PTL DEF Spec

(* The registries, the flags and the returned values keep their types.      *)
THEOREM RuntimeIsTyped == Spec => []TypeOK
<1>1. RuntimeInv => TypeOK
  BY DEF RuntimeInv, SaneState, Registries, TypeOK
<1> QED BY <1>1, RuntimeInvariant, PTL

(* A success of an init function means that every object it stands for is   *)
(* registered under its name, and stays so (ni_init_errors, ni_init_types,  *)
(* ni_init_values, ni_init_evaluator).                                      *)
THEOREM InitializedIsRegistered == Spec => []InitializedMeansRegistered
<1>1. RuntimeInv => InitializedMeansRegistered
  <2> SUFFICES ASSUME RuntimeInv PROVE InitializedMeansRegistered
    OBVIOUS
  <2>1. HasOwn(rt.errors, CoreErrors \o TypeErrors) <=>
          HasOwn(rt.errors, CoreErrors) /\ HasOwn(rt.errors, TypeErrors)
    BY NameLists, OwnOfBoth
  <2>2. CoreErrors \o TypeErrors \in Seq(Names \cap Objects)
    BY NameLists
  <2>3. HasOwn(rt.errors, (CoreErrors \o TypeErrors) \o EvaluatorErrors) <=>
          HasOwn(rt.errors, CoreErrors \o TypeErrors) /\ HasOwn(rt.errors, EvaluatorErrors)
    BY <2>2, NameLists, OwnOfBoth
  <2> QED BY <2>1, <2>3
             DEF RuntimeInv, SaneState, ValuesReady, InitializedMeansRegistered
<1> QED BY <1>1, RuntimeInvariant, PTL

(* No registration is written past the end of its pool, however often the   *)
(* pools grew or failed to.                                                 *)
THEOREM RegistriesStayInBounds == Spec => []RegistriesInBounds
<1>1. RuntimeInv => RegistriesInBounds
  BY DEF RuntimeInv, SaneState, Bounded, RegistriesInBounds
<1> QED BY <1>1, RuntimeInvariant, PTL

(* Calling any init function again keeps what an initialized registry has.  *)
THEOREM NothingIsLost == Spec => ReinitKeepsRegistered
<1>1. RuntimeInv /\ [Next]_vars =>
        [ /\ rt.errors_ready =>
               \A name \in Names : Find(rt.errors, name) # NULL =>
                 Find(rt'.errors, name) = Find(rt.errors, name)
          /\ rt.types_ready =>
               \A name \in Names : Find(rt.types, name) # NULL =>
                 Find(rt'.types, name) = Find(rt.types, name) ]_vars
  <2>1. ASSUME RuntimeInv, Next
        PROVE  /\ rt.errors_ready =>
                    \A name \in Names : Find(rt.errors, name) # NULL =>
                      Find(rt'.errors, name) = Find(rt.errors, name)
               /\ rt.types_ready =>
                    \A name \in Names : Find(rt.types, name) # NULL =>
                      Find(rt'.types, name) = Find(rt.types, name)
    BY <2>1, NextKeeps DEF Step, Kept, ErrorsKept, TypesKept
  <2> QED BY <2>1
<1> QED BY <1>1, RuntimeInvariant, PTL DEF Spec, ReinitKeepsRegistered

(* A start of the types that stopped half-way is never completed.           *)
THEOREM HalfDoneForever == Spec => HalfInitializedForever
<1>1. RuntimeInv /\ [Next]_vars =>
        [ /\ rt.errors_ready /\ ~rt.types_ready
          /\ \E name \in NamesOf(TypeErrors) : Find(rt.errors, name) # NULL
          => ~rt'.types_ready ]_vars
  <2>1. ASSUME RuntimeInv, Next
        PROVE  /\ rt.errors_ready /\ ~rt.types_ready
               /\ \E name \in NamesOf(TypeErrors) : Find(rt.errors, name) # NULL
               => ~rt'.types_ready
    BY <2>1, NextKeeps DEF Step, Kept, HalfDone
  <2> QED BY <2>1
<1> QED BY <1>1, RuntimeInvariant, PTL DEF Spec, HalfInitializedForever

(* A second ni_init_evaluator is refused by the value types and adds        *)
(* nothing.                                                                 *)
THEOREM EvaluatorOnce == Spec => EvaluatorInitializesOnce
<1>1. RuntimeInv /\ [Next]_vars =>
        [ "evaluator" \in done /\ last'.call = "evaluator" =>
            /\ last'.ret = -3
            /\ rt'.errors.pool = rt.errors.pool
            /\ rt'.types.pool = rt.types.pool ]_vars
  <2>1. ASSUME RuntimeInv, Next
        PROVE  "evaluator" \in done /\ last'.call = "evaluator" =>
                 /\ last'.ret = -3
                 /\ rt'.errors.pool = rt.errors.pool
                 /\ rt'.types.pool = rt.types.pool
    BY <2>1, NextKeeps DEF Step, PoolsAsBefore
  <2> QED BY <2>1
<1> QED BY <1>1, RuntimeInvariant, PTL DEF Spec, EvaluatorInitializesOnce
=============================================================================
