---------------------------- MODULE BundlesProofs ----------------------------
(* Theorems about Bundles, for all symbols, values and sizes: what holds if *)
(* memory that was never written holds no symbol.                           *)
EXTENDS Bundles, SequenceTheorems, TLAPS

(* The slots in use are the first ones, each of another symbol, with the    *)
(* values that were set; the search finds nothing in the others.            *)
Arrays ==
  /\ Len(mapper) = Len(slots)
  /\ next_slot \in 0 .. Len(slots)
  /\ \A i \in 1 .. Len(slots) : mapper[i] \in Symbols <=> i <= next_slot
  /\ \A i, j \in 1 .. next_slot : mapper[i] = mapper[j] => i = j

Types ==
  /\ slots \in Seq(Values \cup Garbage)
  /\ mapper \in Seq(Symbols \cup Garbage)
  /\ record \in [Symbols -> Values \cup { Undefined }]

Faithful ==
  /\ \A i \in 1 .. next_slot : slots[i] = record[mapper[i]]
  /\ \A symbol \in Symbols :
       (\A i \in 1 .. next_slot : mapper[i] # symbol) => record[symbol] = Undefined

BundleInv == Types /\ Arrays /\ Faithful /\ (asked = NoSymbol \/ asked \in Symbols)

CleanMemory == Garbage \cap Symbols = { } /\ NoSymbol \notin Symbols /\ Sizes \subseteq Nat

(* Where a symbol is found there is no choice. *)
LEMMA FirstIsTheOnlyOne ==
  ASSUME BundleInv, NEW symbol \in Symbols, Places(symbol) # { }
  PROVE  /\ First(Places(symbol)) \in 1 .. next_slot
         /\ mapper[First(Places(symbol))] = symbol
<1>1. PICK i \in 1 .. Len(slots) : mapper[i] = symbol
  BY DEF Places
<1>2. i \in 1 .. next_slot
  BY <1>1 DEF BundleInv, Types, Arrays
<1>3. Places(symbol) = { i }
  <2>1. ASSUME NEW j \in Places(symbol) PROVE j = i
    <3>1. j \in 1 .. Len(slots) /\ mapper[j] = symbol
      BY <2>1 DEF Places
    <3>2. j \in 1 .. next_slot
      BY <3>1 DEF BundleInv, Types, Arrays
    <3> QED BY <3>1, <3>2, <1>1, <1>2 DEF BundleInv, Arrays
  <2> QED BY <2>1, <1>1 DEF Places
<1>4. \A j \in { i } : i <= j
  BY <1>2 DEF BundleInv, Types, Arrays
<1>5. First(Places(symbol)) = i
  BY <1>3, <1>4 DEF First
<1> QED BY <1>5, <1>2, <1>1

(* Whatever a symbol had, storing a value for it in its slot, or in the     *)
(* next one if it has none, is what the record says.                        *)
LEMMA StoreKeeps ==
  ASSUME BundleInv, NEW symbol \in Symbols, NEW value \in Values,
         NEW slot \in 1 .. Len(slots), Store(slot, symbol, value),
         \/ Places(symbol) # { } /\ slot = First(Places(symbol))
            /\ next_slot' = next_slot
         \/ Places(symbol) = { } /\ slot = next_slot + 1 /\ next_slot' = next_slot + 1,
         asked' = NoSymbol
  PROVE  BundleInv'
<1> USE DEF BundleInv, Types
<1>1. Types'
  <2>1. slots' \in Seq(Values \cup Garbage)
    BY ExceptSeq DEF Store
  <2>2. mapper' \in Seq(Symbols \cup Garbage)
    BY ExceptSeq DEF Store, Arrays
  <2>3. record' \in [Symbols -> Values \cup { Undefined }]
    BY DEF Store
  <2> QED BY <2>1, <2>2, <2>3
<1>2. /\ Len(slots') = Len(slots) /\ Len(mapper') = Len(mapper)
      /\ \A i \in 1 .. Len(slots) :
           /\ mapper'[i] = IF i = slot THEN symbol ELSE mapper[i]
           /\ slots'[i] = IF i = slot THEN value ELSE slots[i]
      /\ \A other \in Symbols :
           record'[other] = IF other = symbol THEN value ELSE record[other]
  BY DEF Store, Arrays
<1>3. CASE Places(symbol) # { } /\ slot = First(Places(symbol))
             /\ next_slot' = next_slot
  <2>1. slot \in 1 .. next_slot /\ mapper[slot] = symbol
    BY <1>3, FirstIsTheOnlyOne
  <2>2. \A i \in 1 .. Len(slots) : mapper'[i] = mapper[i]
    BY <1>2, <2>1
  <2>3. Arrays'
    BY <1>2, <1>3, <2>2 DEF Arrays
  <2>4. \A i \in 1 .. next_slot : i # slot => mapper[i] # symbol
    BY <2>1 DEF Arrays
  <2>5. \A i \in 1 .. next_slot : mapper[i] \in Symbols /\ i \in 1 .. Len(slots)
    BY DEF Arrays
  <2>6. ASSUME NEW i \in 1 .. next_slot PROVE slots'[i] = record'[mapper'[i]]
    BY <1>2, <2>1, <2>2, <2>4, <2>5 DEF Faithful
  <2>7. ASSUME NEW other \in Symbols, \A i \in 1 .. next_slot : mapper'[i] # other
        PROVE  record'[other] = Undefined
    <3>1. other # symbol
      BY <2>1, <2>2, <2>5, <2>7
    <3>2. \A i \in 1 .. next_slot : mapper[i] # other
      BY <2>2, <2>5, <2>7
    <3> QED BY <1>2, <3>1, <3>2 DEF Faithful
  <2> QED BY <1>1, <1>3, <2>3, <2>6, <2>7 DEF Faithful
<1>4. CASE Places(symbol) = { } /\ slot = next_slot + 1 /\ next_slot' = next_slot + 1
  <2>1. \A i \in 1 .. Len(slots) : mapper[i] # symbol
    BY <1>4 DEF Places
  <2>2. next_slot \in Nat /\ next_slot < Len(slots)
    BY <1>4 DEF Arrays
  <2>3. Arrays'
    BY <1>2, <1>4, <2>1, <2>2 DEF Arrays
  <2>4. ASSUME NEW i \in 1 .. next_slot + 1 PROVE slots'[i] = record'[mapper'[i]]
    <3>1. CASE i = slot
      BY <3>1, <1>2
    <3>2. CASE i # slot
      <4>1. i \in 1 .. next_slot /\ i \in 1 .. Len(slots)
        BY <3>2, <1>4, <2>2
      <4>2. mapper[i] \in Symbols /\ mapper[i] # symbol
        BY <4>1, <2>1 DEF Arrays
      <4> QED BY <4>1, <4>2, <3>2, <1>2 DEF Faithful
    <3> QED BY <3>1, <3>2
  <2>5. ASSUME NEW other \in Symbols, \A i \in 1 .. next_slot + 1 : mapper'[i] # other
        PROVE  record'[other] = Undefined
    <3>1. other # symbol
      BY <1>2, <1>4, <2>2, <2>5
    <3>2. \A i \in 1 .. next_slot : mapper[i] # other
      <4>1. SUFFICES ASSUME NEW i \in 1 .. next_slot PROVE mapper[i] # other
        OBVIOUS
      <4>2. i \in 1 .. next_slot + 1 /\ i \in 1 .. Len(slots) /\ i # slot
        BY <1>4, <2>2
      <4> QED BY <4>2, <1>2, <2>5
    <3> QED BY <1>2, <3>1, <3>2 DEF Faithful
  <2> QED BY <1>1, <1>4, <2>3, <2>4, <2>5 DEF Faithful
<1> QED BY <1>3, <1>4

(* The bundle of any new memory is empty. *)
LEMMA NewKeeps ==
  ASSUME BundleInv, CleanMemory, New
  PROVE  BundleInv'
<1>1. PICK size \in Sizes :
        /\ next_slot' = 0 /\ asked' = NoSymbol /\ record' = Empty
        /\ \/ slots' \in [1 .. size -> Garbage] /\ mapper' \in [1 .. size -> Garbage]
           \/ slots' = << >> /\ mapper' = << >>
  BY DEF New
<1>2. size \in Nat
  BY DEF CleanMemory
<1>3. slots' \in Seq(Garbage) /\ mapper' \in Seq(Garbage) /\ Len(slots') = Len(mapper')
  <2>1. CASE slots' \in [1 .. size -> Garbage] /\ mapper' \in [1 .. size -> Garbage]
    BY <1>2, <2>1, IsASeq
  <2>2. CASE slots' = << >> /\ mapper' = << >>
    BY <2>2
  <2> QED BY <1>1, <2>1, <2>2
<1>4. \A i \in 1 .. Len(slots') : mapper'[i] \notin Symbols
  BY <1>3 DEF CleanMemory
<1> QED BY <1>1, <1>3, <1>4 DEF BundleInv, Types, Arrays, Faithful, Empty

(* What is got is what was set, and getting changes nothing else. *)
LEMMA GetReads ==
  ASSUME BundleInv, NEW symbol \in Symbols, Get(symbol)
  PROVE  BundleInv' /\ ReadsRecord'
<1>1. BundleInv'
  BY DEF Get, BundleInv, Types, Arrays, Faithful
<1>2. CASE asked' = NoSymbol
  BY <1>1, <1>2 DEF ReadsRecord
<1>3. CASE asked' = symbol /\ Places(symbol) = { } /\ answer' = Undefined
  <2>1. \A i \in 1 .. next_slot : mapper[i] # symbol
    BY <1>3 DEF Places, BundleInv, Types, Arrays
  <2>2. record[symbol] = Undefined
    BY <2>1 DEF BundleInv, Faithful
  <2> QED BY <1>1, <1>3, <2>2 DEF ReadsRecord, Get
<1>4. CASE asked' = symbol /\ Places(symbol) # { }
             /\ answer' = slots[First(Places(symbol))]
  <2>1. slots[First(Places(symbol))] = record[symbol]
    BY <1>4, FirstIsTheOnlyOne DEF BundleInv, Faithful
  <2> QED BY <1>1, <1>4, <2>1 DEF ReadsRecord, Get
<1> QED BY <1>2, <1>3, <1>4 DEF Get

(* As long as the memory holds no symbols, for any number of slots, symbols *)
(* and values, a closed bundle is the record of what was set.               *)
THEOREM CleanBundlesAreRecords ==
  ASSUME CleanMemory
  PROVE  Spec => []ReadsRecord /\ []GetsWhatWasSet
<1>1. Init => BundleInv /\ ReadsRecord
  BY DEF Init, Empty, BundleInv, Types, Arrays, Faithful, ReadsRecord
<1>2. BundleInv /\ ReadsRecord /\ [Next]_vars => BundleInv' /\ ReadsRecord'
  <2> SUFFICES ASSUME BundleInv, ReadsRecord, [Next]_vars
               PROVE  BundleInv' /\ ReadsRecord'
    OBVIOUS
  <2>1. CASE New
    BY <2>1, NewKeeps DEF ReadsRecord, New
  <2>2. CASE Close
    BY <2>2 DEF Close, BundleInv, Types, Arrays, Faithful, ReadsRecord
  <2>3. ASSUME NEW symbol \in Symbols, Get(symbol) PROVE BundleInv' /\ ReadsRecord'
    BY <2>3, GetReads
  <2>4. ASSUME NEW symbol \in Symbols, NEW value \in Values, Set(symbol, value)
        PROVE  BundleInv' /\ ReadsRecord'
    <3>1. asked' = NoSymbol
      BY <2>4 DEF Set
    <3>2. CASE Places(symbol) # { } /\ Store(First(Places(symbol)), symbol, value)
                 /\ next_slot' = next_slot
      <4>1. First(Places(symbol)) \in 1 .. Len(slots)
        BY <3>2, FirstIsTheOnlyOne DEF BundleInv, Types, Arrays
      <4> QED BY <3>1, <3>2, <4>1, StoreKeeps DEF ReadsRecord
    <3>3. CASE Places(symbol) = { } /\ next_slot < Len(slots)
                 /\ Store(next_slot + 1, symbol, value) /\ next_slot' = next_slot + 1
      <4>1. next_slot + 1 \in 1 .. Len(slots)
        BY <3>3 DEF BundleInv, Types, Arrays
      <4> QED BY <3>1, <3>3, <4>1, StoreKeeps DEF ReadsRecord
    <3>4. CASE UNCHANGED << next_slot, slots, mapper, record >>
      BY <3>1, <3>4 DEF BundleInv, Types, Arrays, Faithful, ReadsRecord
    <3> QED BY <2>4, <3>2, <3>3, <3>4 DEF Set
  <2>5. CASE UNCHANGED vars
    BY <2>5 DEF vars, BundleInv, Types, Arrays, Faithful, ReadsRecord
  <2> QED BY <2>1, <2>2, <2>3, <2>4, <2>5 DEF Next
<1>3. ReadsRecord => GetsWhatWasSet
  BY DEF ReadsRecord, GetsWhatWasSet
<1> QED BY <1>1, <1>2, <1>3, PTL DEF Spec
=============================================================================
