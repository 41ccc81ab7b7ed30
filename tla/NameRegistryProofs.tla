------------------------- MODULE NameRegistryProofs -------------------------
(***************************************************************************)
(* Proofs about NameRegistry for every set of names, objects and initial   *)
(* sizes.  The inductive invariant adds to the checked invariants that a   *)
(* live registry has a pool of at least one entry: doubling a pool of none *)
(* would make no room.                                                     *)
(***************************************************************************)
EXTENDS NameRegistry, TLAPS

TableInv(t) ==
  /\ t \in Table
  /\ t.pool_size > 0
  /\ WithinPool(t)
  /\ DistinctNames(t)

RegistryInv ==
  /\ TypeOK
  /\ live => TableInv(registry)
  /\ NoRunawayGrowth

(* With distinct names the scan returns the object of whichever entry has  *)
(* the name, and NULL only when none has (ni_find_named_object).           *)
LEMMA FindEntry ==
  ASSUME NEW t \in Table, DistinctNames(t), NEW i \in DOMAIN t.pool
  PROVE  /\ Find(t, t.pool[i].name) = t.pool[i].object
         /\ Find(t, t.pool[i].name) \in Objects
         /\ Find(t, t.pool[i].name) # NULL
<1>1. t.pool \in Seq(Entry) /\ t.pool[i] \in Entry /\ DOMAIN t.pool \subseteq Nat
  BY DEF Table
<1>2. Hits(t, t.pool[i].name) = {i}
  BY <1>1 DEF Hits, DistinctNames
<1>3. (CHOOSE k \in Hits(t, t.pool[i].name) :
         \A j \in Hits(t, t.pool[i].name) : k <= j) = i
  BY <1>1, <1>2
<1>4. t.pool[i].object \in Objects
  BY <1>1 DEF Entry
<1> QED
  BY <1>2, <1>3, <1>4, NameTableAssumption DEF Find

(* Without an entry of the name the scan falls off the end of the pool. *)
LEMMA FindNothing ==
  ASSUME NEW t, NEW name, \A i \in DOMAIN t.pool : t.pool[i].name # name
  PROVE  Find(t, name) = NULL
BY DEF Find, Hits

(* grow_pool keeps the entries and leaves room for one more. *)
LEMMA GrownTable ==
  ASSUME NEW t, TableInv(t)
  PROVE  /\ Grown(t) \in Table
         /\ Grown(t).pool = t.pool
         /\ Len(t.pool) + 1 <= Grown(t).pool_size
         /\ Grown(t).pool_size > 0
         /\ \/ Grown(t).pool_size = t.pool_size
            \/ Grown(t).pool_size <= 2 * Len(t.pool)
         /\ DistinctNames(Grown(t))
         /\ \A name : Find(Grown(t), name) = Find(t, name)
<1>1. t \in Table /\ Len(t.pool) \in Nat /\ t.pool_size \in Nat
  BY DEF TableInv, Table
<1>2. CASE MustGrow(t)
  <2>1. Grown(t) = [pool_size |-> 2 * t.pool_size, pool |-> t.pool]
    BY <1>1, <1>2 DEF Grown, Table
  <2>2. Len(t.pool) = t.pool_size
    BY <1>1, <1>2 DEF MustGrow, TableInv, WithinPool
  <2> QED
    BY <1>1, <2>1, <2>2 DEF TableInv, Table, DistinctNames, Find, Hits
<1>3. CASE ~MustGrow(t)
  BY <1>1, <1>3 DEF Grown, MustGrow, TableInv
<1> QED
  BY <1>2, <1>3

(* Appending an entry with a new name to a table with room for it. *)
LEMMA AppendEntry ==
  ASSUME NEW g \in Table, NEW e \in Entry,
         Len(g.pool) + 1 <= g.pool_size, DistinctNames(g),
         \A i \in DOMAIN g.pool : g.pool[i].name # e.name
  PROVE  LET h == [g EXCEPT !.pool = Append(@, e)]
         IN  /\ TableInv(h)
             /\ h.pool = Append(g.pool, e)
             /\ h.pool_size = g.pool_size
<1> DEFINE h == [g EXCEPT !.pool = Append(@, e)]
           p == Append(g.pool, e)
<1>1. /\ g.pool \in Seq(Entry) /\ g.pool_size \in Nat
      /\ Len(g.pool) \in Nat /\ DOMAIN g.pool = 1 .. Len(g.pool)
  BY DEF Table
<1>2. /\ p \in Seq(Entry)
      /\ Len(p) = Len(g.pool) + 1
      /\ DOMAIN p = 1 .. (Len(g.pool) + 1)
      /\ \A i \in 1 .. Len(g.pool) : p[i] = g.pool[i]
      /\ p[Len(g.pool) + 1] = e
  BY <1>1
<1> HIDE DEF p
<1>3. h = [pool_size |-> g.pool_size, pool |-> p]
  BY DEF Table, p
<1>4. h \in Table /\ h.pool = p /\ h.pool_size = g.pool_size
  BY <1>1, <1>2, <1>3 DEF Table
<1> HIDE DEF h
<1>5. h.pool_size > 0 /\ WithinPool(h)
  BY <1>1, <1>2, <1>4 DEF WithinPool
<1>6. ASSUME NEW i \in 1 .. (Len(g.pool) + 1), NEW j \in 1 .. (Len(g.pool) + 1),
             p[i].name = p[j].name
      PROVE  i = j
  <2>1. CASE i \in 1 .. Len(g.pool) /\ j \in 1 .. Len(g.pool)
    BY <1>1, <1>2, <1>6, <2>1 DEF DistinctNames
  <2>2. CASE i = Len(g.pool) + 1 /\ j \in 1 .. Len(g.pool)
    BY <1>1, <1>2, <1>6, <2>2
  <2>3. CASE j = Len(g.pool) + 1 /\ i \in 1 .. Len(g.pool)
    BY <1>1, <1>2, <1>6, <2>3
  <2>4. CASE i = Len(g.pool) + 1 /\ j = Len(g.pool) + 1
    BY <2>4
  <2>5. i \in 1 .. Len(g.pool) \/ i = Len(g.pool) + 1
    BY <1>1
  <2>6. j \in 1 .. Len(g.pool) \/ j = Len(g.pool) + 1
    BY <1>1
  <2> QED
    BY <2>1, <2>2, <2>3, <2>4, <2>5, <2>6
<1>7. DistinctNames(h)
  BY <1>2, <1>4, <1>6 DEF DistinctNames
<1> QED
  BY <1>4, <1>5, <1>7 DEF TableInv, h, p

(* Every outcome of a register call on a sound table leaves a sound table. *)
LEMMA RegisterTable ==
  ASSUME NEW t, TableInv(t), NEW name, NEW object \in Objects \cup {NULL},
         NEW mem \in BOOLEAN
  PROVE  LET r == Register(t, name, object, mem)
         IN  /\ r.status \in Status
             /\ TableInv(r.table)
             /\ \/ r.table.pool_size = t.pool_size
                \/ r.table.pool_size <= 2 * Len(t.pool)
             /\ Len(r.table.pool) >= Len(t.pool)
<1> DEFINE r == Register(t, name, object, mem)
           g == Grown(t)
           e == [name |-> name, object |-> object]
<1>1. t \in Table /\ t.pool \in Seq(Entry)
  BY DEF TableInv, Table
<1>2. CASE r = [status |-> "INVALID_NAME", table |-> t]
             \/ r = [status |-> "INVALID_OBJECT", table |-> t]
             \/ r = [status |-> "BAD_ALLOCATION", table |-> t]
  BY <1>1, <1>2 DEF Status
<1>3. TableInv(g) /\ g.pool = t.pool
  BY <1>1, GrownTable DEF TableInv, WithinPool, Table
<1>4. CASE r = [status |-> "REPEATED_NAME", table |-> g]
  BY <1>1, <1>3, <1>4, GrownTable DEF Status
<1>5. CASE /\ name \in Names /\ object # NULL /\ Find(g, name) = NULL
           /\ r = [status |-> "SUCCESS",
                   table |-> [g EXCEPT !.pool = Append(@, e)]]
  <2>1. e \in Entry /\ g \in Table /\ Len(g.pool) + 1 <= g.pool_size
    BY <1>5, <1>3, GrownTable DEF Entry, TableInv
  <2>2. \A i \in DOMAIN g.pool : g.pool[i].name # e.name
    <3> SUFFICES ASSUME NEW i \in DOMAIN g.pool, g.pool[i].name = e.name
                 PROVE  FALSE
      OBVIOUS
    <3> QED
      BY <1>3, <1>5, FindEntry DEF TableInv
  <2>3. DistinctNames(g)
    BY <1>3 DEF TableInv
  <2>4. /\ r.status = "SUCCESS" /\ TableInv(r.table)
        /\ r.table.pool = Append(t.pool, e)
        /\ r.table.pool_size = g.pool_size
    <3> DEFINE h == [g EXCEPT !.pool = Append(@, e)]
    <3> HIDE DEF g, e
    <3>1. /\ TableInv(h) /\ h.pool = Append(g.pool, e)
          /\ h.pool_size = g.pool_size
      BY <2>1, <2>2, <2>3, AppendEntry
    <3> HIDE DEF h, r
    <3>2. r = [status |-> "SUCCESS", table |-> h]
      BY <1>5 DEF h
    <3> QED
      BY <1>3, <3>1, <3>2
  <2>5. Len(r.table.pool) >= Len(t.pool)
    BY <1>1, <2>1, <2>4
  <2> QED
    BY <2>4, <2>5, GrownTable DEF Status
<1> QED
  BY <1>2, <1>4, <1>5 DEF Register

-----------------------------------------------------------------------------
(* A registry in zeroed storage is not live, which is all that is asked. *)
LEMMA RegistryInvInit == Init => RegistryInv
<1> SUFFICES ASSUME Init PROVE RegistryInv
  OBVIOUS
<1>1. ZeroedTable \in Table
  BY DEF ZeroedTable, Table
<1> QED
  BY <1>1 DEF Init, RegistryInv, TypeOK, NoRunawayGrowth, Status

(* Construction makes a table, registration keeps it one, destruction ends   *)
(* what is asked of it.                                                     *)
LEMMA RegistryInvNext == RegistryInv /\ [Next]_vars => RegistryInv'
<1> SUFFICES ASSUME RegistryInv, [Next]_vars
             PROVE  RegistryInv'
  OBVIOUS
<1>1. ASSUME NEW size \in InitialSizes, NEW mem \in BOOLEAN,
             ConstructRegistry(size, mem)
      PROVE  RegistryInv'
  <2>1. size \in Int
    BY InitialSizesAssumption
  <2>2. CASE size <= 0 \/ ~mem
    BY <1>1, <2>1, <2>2 DEF ConstructRegistry, Construct, RegistryInv, TypeOK,
       NoRunawayGrowth, Status
  <2>3. CASE size > 0 /\ mem
    <3>1. /\ registry' = [pool_size |-> size, pool |-> << >>]
          /\ status' = "SUCCESS" /\ live' = TRUE /\ initial_size' = size
      <4>1. Construct(registry, size, mem) =
              [status |-> "SUCCESS",
               table  |-> [pool_size |-> size, pool |-> << >>]]
        BY <2>1, <2>3 DEF Construct
      <4>2. /\ registry' = Construct(registry, size, mem).table
            /\ status' = Construct(registry, size, mem).status
            /\ live' = (Construct(registry, size, mem).status = "SUCCESS")
            /\ initial_size' = IF live' THEN size ELSE initial_size
        BY <1>1 DEF ConstructRegistry
      <4>3. Construct(registry, size, mem).status = "SUCCESS"
        BY <4>1
      <4>4. live' = TRUE
        BY <4>2, <4>3, Zenon
      <4> QED
        BY <4>1, <4>2, <4>4
    <3>2. TableInv(registry')
      BY <2>1, <2>3, <3>1 DEF TableInv, Table, WithinPool, DistinctNames
    <3> QED
      BY <2>1, <2>3, <3>1, <3>2
         DEF RegistryInv, TypeOK, NoRunawayGrowth, Status, TableInv
  <2> QED
    BY <2>1, <2>2, <2>3
<1>2. ASSUME NEW name \in Names \cup BadNames,
             NEW object \in Objects \cup {NULL}, NEW mem \in BOOLEAN,
             RegisterNamedObject(name, object, mem)
      PROVE  RegistryInv'
  <2>1. live /\ live' /\ initial_size' = initial_size
    BY <1>2 DEF RegisterNamedObject, RegistryInv, TypeOK
  <2>2. TableInv(registry)
    BY <2>1 DEF RegistryInv
  <2>3. /\ status' \in Status
        /\ TableInv(registry')
        /\ \/ registry'.pool_size = registry.pool_size
           \/ registry'.pool_size <= 2 * Len(registry.pool)
        /\ Len(registry'.pool) >= Len(registry.pool)
    BY <1>2, <2>2, RegisterTable DEF RegisterNamedObject
  <2>4. registry \in Table /\ registry' \in Table
    BY <2>2, <2>3 DEF TableInv
  <2>5. /\ registry.pool_size \in Nat /\ registry'.pool_size \in Nat
        /\ Len(registry.pool) \in Nat /\ Len(registry'.pool) \in Nat
    BY <2>4 DEF Table
  <2>6. NoRunawayGrowth'
    BY <2>1, <2>3, <2>5 DEF NoRunawayGrowth, RegistryInv
  <2> QED
    BY <1>2, <2>1, <2>3, <2>4, <2>6 DEF RegistryInv, TypeOK, RegisterNamedObject
<1>3. CASE DestructRegistry
  BY <1>3 DEF DestructRegistry, RegistryInv, TypeOK, NoRunawayGrowth
<1>4. CASE UNCHANGED vars
  BY <1>4 DEF vars, RegistryInv, TypeOK, NoRunawayGrowth, TableInv, Table,
     WithinPool, DistinctNames
<1> QED
  BY <1>1, <1>2, <1>3, <1>4 DEF Next

(* The inductive invariant holds in every state a client can bring about. *)
THEOREM RegistryInvariant == Spec => []RegistryInv
BY RegistryInvInit, RegistryInvNext, PTL DEF Spec

(* The pool is never written beyond its memory, no name is registered      *)
(* twice, and the pool stays within twice what it holds.                   *)
THEOREM RegistrySafe ==
  Spec => [](TypeOK /\ PoolInBounds /\ NamesUnique /\ NoRunawayGrowth)
<1>1. RegistryInv => TypeOK /\ PoolInBounds /\ NamesUnique /\ NoRunawayGrowth
  BY DEF RegistryInv, TableInv, PoolInBounds, NamesUnique
<1> QED
  BY <1>1, RegistryInvariant, PTL

-----------------------------------------------------------------------------
(* After an append the new name is found with its object, and every other  *)
(* name exactly as before.                                                 *)
LEMMA FindAfterAppend ==
  ASSUME NEW g, NEW h, TableInv(h), DistinctNames(g), g \in Table,
         NEW e \in Entry, h.pool = Append(g.pool, e), NEW name
  PROVE  Find(h, name) = IF name = e.name THEN e.object ELSE Find(g, name)
<1> DEFINE n == Len(g.pool)
<1>1. /\ n \in Nat /\ g.pool \in Seq(Entry) /\ DOMAIN g.pool = 1 .. n
      /\ DOMAIN h.pool = 1 .. (n + 1)
      /\ \A i \in 1 .. n : h.pool[i] = g.pool[i]
      /\ h.pool[n + 1] = e
      /\ DistinctNames(h) /\ h \in Table
  BY DEF Table, TableInv
<1> HIDE DEF n
<1>2. CASE name = e.name
  BY <1>1, <1>2, FindEntry
<1>3. CASE name # e.name /\ \E i \in 1 .. n : g.pool[i].name = name
  <2>1. PICK i \in 1 .. n : g.pool[i].name = name
    BY <1>3
  <2>2. Find(g, name) = g.pool[i].object
    BY <1>1, <2>1, FindEntry
  <2>3. i \in DOMAIN h.pool /\ h.pool[i] = g.pool[i]
    BY <1>1, <2>1
  <2>4. Find(h, name) = h.pool[i].object
    BY <1>1, <2>1, <2>3, FindEntry
  <2> QED
    BY <1>3, <2>2, <2>3, <2>4
<1>4. CASE name # e.name /\ \A i \in 1 .. n : g.pool[i].name # name
  <2>1. Find(g, name) = NULL
    BY <1>1, <1>4, FindNothing
  <2>2. ASSUME NEW i \in DOMAIN h.pool
        PROVE  h.pool[i].name # name
    <3>1. i \in 1 .. n \/ i = n + 1
      BY <1>1
    <3> QED
      BY <3>1, <1>1, <1>4
  <2>3. Find(h, name) = NULL
    BY <2>2, FindNothing
  <2> QED
    BY <1>4, <2>1, <2>3
<1> QED
  BY <1>2, <1>3, <1>4

(* What each outcome of a register call means for the bindings. *)
LEMMA RegisterBindings ==
  ASSUME NEW t, TableInv(t), NEW name, NEW object \in Objects \cup {NULL},
         NEW mem \in BOOLEAN
  PROVE  LET r == Register(t, name, object, mem)
         IN  \/ /\ r.status \in Map!Failures
                /\ \A n : Find(r.table, n) = Find(t, n)
             \/ /\ r.status = "REPEATED_NAME"
                /\ name \in Names /\ Find(t, name) # NULL
                /\ \A n : Find(r.table, n) = Find(t, n)
             \/ /\ r.status = "SUCCESS"
                /\ name \in Names /\ object \in Objects /\ Find(t, name) = NULL
                /\ \A n : Find(r.table, n) =
                             IF n = name THEN object ELSE Find(t, n)
<1> DEFINE r == Register(t, name, object, mem)
           g == Grown(t)
           e == [name |-> name, object |-> object]
           h == [g EXCEPT !.pool = Append(@, e)]
<1>1. CASE r = [status |-> "INVALID_NAME", table |-> t]
             \/ r = [status |-> "INVALID_OBJECT", table |-> t]
             \/ r = [status |-> "BAD_ALLOCATION", table |-> t]
  BY <1>1 DEF Map!Failures
<1>2. \A n : Find(g, n) = Find(t, n)
  BY GrownTable
<1>3. CASE /\ name \in Names /\ Find(g, name) # NULL
           /\ r = [status |-> "REPEATED_NAME", table |-> g]
  BY <1>2, <1>3
<1>4. CASE /\ name \in Names /\ object # NULL /\ Find(g, name) = NULL
           /\ r = [status |-> "SUCCESS", table |-> h]
  <2>1. e \in Entry /\ object \in Objects /\ e.name = name /\ e.object = object
    BY <1>4 DEF Entry
  <2>2. TableInv(r.table)
    BY RegisterTable
  <2>3. r.table.pool = Append(g.pool, e)
    <3>1. g \in Table
      BY GrownTable
    <3> HIDE DEF g, e
    <3>2. h.pool = Append(g.pool, e)
      BY <3>1 DEF Table
    <3> HIDE DEF h, r
    <3> QED
      BY <1>4, <3>2
  <2>4. g \in Table /\ DistinctNames(g)
    BY GrownTable
  <2>5. \A n : Find(r.table, n) = IF n = name THEN object ELSE Find(g, n)
    <3> HIDE DEF g, e, r
    <3> QED
      BY <2>1, <2>2, <2>3, <2>4, FindAfterAppend
  <2>6. r.status = "SUCCESS"
    <3> HIDE DEF h, r
    <3> QED
      BY <1>4
  <2>7. /\ r.status = "SUCCESS" /\ name \in Names /\ object \in Objects
        /\ Find(t, name) = NULL
        /\ \A n : Find(r.table, n) = IF n = name THEN object ELSE Find(t, n)
    <3> HIDE DEF h, e, r
    <3> QED
      BY <1>2, <1>4, <2>1, <2>5, <2>6
  <2> QED
    BY <2>7
<1> QED
  BY <1>1, <1>3, <1>4 DEF Register

(* Every call of the registry is one of the map or cannot be seen in it. *)
LEMMA MapStep ==
  RegistryInv /\ RegistryInv' /\ [Next]_vars => [Map!MapNext]_(Map!mapVars)
<1> DEFINE b == [ n \in (IF live THEN Found ELSE {}) |-> Find(registry, n) ]
<1> SUFFICES ASSUME RegistryInv, RegistryInv', [Next]_vars
             PROVE  Map!MapNext \/ (b' = b /\ live' = live /\ status' = status)
  BY DEF Map!mapVars
<1>1. ASSUME NEW size \in InitialSizes, NEW mem \in BOOLEAN,
             ConstructRegistry(size, mem)
      PROVE  Map!MapNext
  <2>1. ~live /\ size \in Int
    BY <1>1, InitialSizesAssumption DEF ConstructRegistry
  <2>2. /\ registry' = Construct(registry, size, mem).table
        /\ status' = Construct(registry, size, mem).status
        /\ live' = (Construct(registry, size, mem).status = "SUCCESS")
    BY <1>1 DEF ConstructRegistry
  <2>3. CASE size <= 0 \/ ~mem
    <3>1. Construct(registry, size, mem).status \in Map!Failures
      BY <2>1, <2>3 DEF Construct, Map!Failures
    <3>2. Construct(registry, size, mem).status # "SUCCESS"
      BY <3>1 DEF Map!Failures
    <3>3. live' = FALSE
      BY <2>2, <3>2, Zenon
    <3> QED
      BY <2>1, <2>2, <3>1, <3>3 DEF Map!MapNext, Map!Fail, RegistryInv, TypeOK
  <2>4. CASE size > 0 /\ mem
    <3>1. Construct(registry, size, mem) =
            [status |-> "SUCCESS", table |-> [pool_size |-> size, pool |-> << >>]]
      BY <2>1, <2>4 DEF Construct
    <3>2. Construct(registry, size, mem).status = "SUCCESS"
      BY <3>1
    <3>3. live' = TRUE
      BY <2>2, <3>2, Zenon
    <3>4. \A n : Find(registry', n) = NULL
      BY <2>2, <3>1 DEF Find, Hits
    <3>5. Found' = {}
      BY <3>4 DEF Found
    <3>6. b' = << >>
      BY <3>3, <3>5
    <3> QED
      BY <2>1, <2>2, <3>2, <3>3, <3>6 DEF Map!MapNext, Map!Open
  <2> QED
    BY <2>1, <2>3, <2>4
<1>2. ASSUME NEW name \in Names \cup BadNames,
             NEW object \in Objects \cup {NULL}, NEW mem \in BOOLEAN,
             RegisterNamedObject(name, object, mem)
      PROVE  Map!MapNext
  <2> DEFINE r == Register(registry, name, object, mem)
  <2>1. /\ live /\ live' = live
        /\ registry' = r.table /\ status' = r.status
    BY <1>2 DEF RegisterNamedObject
  <2>2. TableInv(registry)
    BY <2>1 DEF RegistryInv
  <2>3. live' = TRUE /\ live = TRUE
    BY <2>1 DEF RegistryInv, TypeOK
  <2>4. b = [n \in Found |-> Find(registry, n)]
    BY <2>3
  <2>5. b' = [n \in Found' |-> Find(registry', n)]
    BY <2>3
  <2> HIDE DEF r, b
  <2>6. CASE /\ status' \in Map!Failures
             /\ \A n : Find(registry', n) = Find(registry, n)
    <3>1. b' = b
      BY <2>4, <2>5, <2>6 DEF Found
    <3> QED
      BY <2>3, <2>6, <3>1 DEF Map!MapNext, Map!Fail, b
  <2>7. CASE /\ status' = "REPEATED_NAME"
             /\ name \in Names /\ Find(registry, name) # NULL
             /\ \A n : Find(registry', n) = Find(registry, n)
    <3>1. b' = b
      BY <2>4, <2>5, <2>7 DEF Found
    <3>2. name \in DOMAIN b
      BY <2>4, <2>7 DEF Found
    <3> QED
      BY <2>3, <2>7, <3>1, <3>2 DEF Map!MapNext, Map!Refuse, b
  <2>8. CASE /\ status' = "SUCCESS"
             /\ name \in Names /\ object \in Objects
             /\ Find(registry, name) = NULL
             /\ \A n : Find(registry', n) =
                          IF n = name THEN object ELSE Find(registry, n)
    <3>1. object # NULL
      BY <2>8, NameTableAssumption
    <3>2. Found' = Found \cup {name} /\ name \notin Found
      BY <2>8, <3>1 DEF Found
    <3>3. b' = [n \in Found \cup {name} |->
                  IF n = name THEN object ELSE Find(registry, n)]
      BY <2>5, <2>8, <3>2
    <3>4. DOMAIN b = Found
      BY <2>4
    <3>5. b' = [n \in DOMAIN b \cup {name} |-> IF n = name THEN object ELSE b[n]]
      BY <2>4, <3>3, <3>4
    <3>6. Map!Bind(name, object)
      BY <2>3, <2>8, <3>2, <3>4, <3>5 DEF Map!Bind, b
    <3> QED
      BY <2>8, <3>6 DEF Map!MapNext
  <2> QED
    BY <2>1, <2>2, <2>6, <2>7, <2>8, RegisterBindings DEF r
<1>3. CASE DestructRegistry
  <2>1. live /\ live' = FALSE /\ status' = status
    BY <1>3 DEF DestructRegistry
  <2>2. b' = << >>
    BY <2>1
  <2> QED
    BY <2>1, <2>2 DEF Map!MapNext, Map!Close
<1>4. CASE UNCHANGED vars
  BY <1>4 DEF vars, Found, Find, Hits
<1> QED
  BY <1>1, <1>2, <1>3, <1>4 DEF Next

(* The registry implements NameMap: what its clients see is a map that only *)
(* grows between construction and destruction, whatever allocation fails.   *)
THEOREM RegistryImplementsMap == Spec => ImplementsNameMap
<1>1. Init => Map!MapInit
  <2> SUFFICES ASSUME Init PROVE Map!MapInit
    OBVIOUS
  <2>1. [ n \in (IF live THEN Found ELSE {}) |-> Find(registry, n) ] = << >>
    BY DEF Init
  <2> QED
    BY <2>1 DEF Init, Map!MapInit
<1> QED
  BY <1>1, RegistryInvariant, MapStep, PTL
     DEF Spec, ImplementsNameMap, Map!MapSpec
=============================================================================
