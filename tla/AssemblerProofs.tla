--------------------------- MODULE AssemblerProofs ---------------------------
(* Theorems about Assembler, for every set of names, every width of the     *)
(* numbers and texts of any length.                                         *)
EXTENDS Assembler, SequenceTheorems, FiniteSetTheorems, TLAPS

LabelRecords == [name : Names, definition : 0 .. Undefined]

Descriptors ==
  [kind : ConstantKinds, args : Seq(Numbers), label_id : Nat,
   definition : 0 .. Undefined]

Instructions ==
  [opcode : Opcodes, args : Seq(Numbers), label : Names \cup { NoLabel },
   label_id : Nat, definition : 0 .. Undefined, offset : Int, freed : 0 .. 2]

LabelUses == Names \cup { NoLabel }

-----------------------------------------------------------------------------
(* The width of the numbers. *)

LEMMA SmallModulo ==
  ASSUME NEW n \in Nat, NEW m \in Nat, n <= m
  PROVE  n % (m + 1) = n
OBVIOUS

LEMMA NegativeModulo ==
  ASSUME NEW n \in Int, NEW m \in Nat, m > 0, 0 - m <= n, n < 0
  PROVE  n % m = n + m
OBVIOUS

LEMMA ModuloBounds ==
  ASSUME NEW n \in Int, NEW m \in Nat, m > 0
  PROVE  n % m \in 0 .. m - 1
OBVIOUS

LEMMA HalfWord ==
  /\ Word \div 2 \in Nat /\ Word = 2 * (Word \div 2)
  /\ Max16 < Word \div 2 /\ Max16 \in Nat /\ Max8 \in Nat /\ MaxItems \in Nat
  /\ MaxItems < Word \div 2 /\ Max16 > 0 /\ Undefined = Word - 1 /\ Undefined \in Nat
BY AssemblerAssumption DEF Undefined

LEMMA Int32Exact ==
  ASSUME NEW n \in Int, 0 - Word \div 2 <= n, n < Word \div 2
  PROVE  Int32(n) = n
<1> DEFINE h == Word \div 2
<1>1. h \in Nat /\ h > 0 /\ Word = 2 * h /\ 0 - h <= n /\ n < h /\ Word \in Nat
  BY HalfWord, AssemblerAssumption
<1> HIDE DEF h
<1>2. CASE n >= 0
  <2>1. n % ((Word - 1) + 1) = n
    BY <1>1, <1>2, SmallModulo
  <2>2. n % Word = n
    BY <1>1, <2>1
  <2> QED BY <1>1, <2>2 DEF Int32, h
<1>3. CASE n < 0
  <2>1. n % Word = n + Word
    BY <1>1, <1>3, NegativeModulo
  <2> QED BY <1>1, <2>1 DEF Int32, h
<1> QED BY <1>1, <1>2, <1>3

LEMMA Int32IsNumber ==
  ASSUME NEW n \in Int
  PROVE  Int32(n) \in Numbers /\ Int32(n) \in Int
<1> DEFINE h == Word \div 2
<1>1. h \in Nat /\ h > 0 /\ Word = 2 * h /\ Word \in Nat
  BY HalfWord, AssemblerAssumption
<1>2. Numbers = (0 - h) .. (h - 1)
  BY <1>1, Int32Exact DEF Numbers
<1>3. n % Word \in 0 .. Word - 1
  BY <1>1, ModuloBounds
<1> HIDE DEF h
<1>4. Int32(n) = IF n % Word < h THEN n % Word ELSE (n % Word) - Word
  BY DEF Int32, h
<1> QED BY <1>1, <1>2, <1>3, <1>4

(* What is left of the offset to a label that was never defined. *)
LEMMA OffsetOfUndefined ==
  ASSUME NEW i \in Nat, i > 0, i < Word \div 2
  PROVE  Int32(i - 1 - Undefined) = i
<1> DEFINE h == Word \div 2
<1>1. h \in Nat /\ h > 0 /\ Word = 2 * h /\ Word \in Nat /\ i < h
  BY HalfWord, AssemblerAssumption
<1>2. i - 1 - Undefined = i - Word
  BY <1>1 DEF Undefined
<1>3. (i - Word) % Word = i
  BY <1>1, NegativeModulo
<1> QED BY <1>1, <1>2, <1>3 DEF Int32

-----------------------------------------------------------------------------
(* The label manager. *)

Distinct(pool) ==
  \A i, j \in 1 .. Len(pool) : Same(pool[i].name, pool[j].name) => i = j

(* Names that differ in more than case are few enough to be numbered. *)
LEMMA FewLabels ==
  ASSUME NEW pool \in Seq(LabelRecords), Distinct(pool)
  PROVE  Len(pool) <= Max16
<1> DEFINE f == [i \in 1 .. Len(pool) |-> pool[i].name]
           S == { pool[i].name : i \in 1 .. Len(pool) }
<1>1. \A i \in 1 .. Len(pool) : pool[i].name \in Names
  <2>1. \A i \in 1 .. Len(pool) : pool[i] \in LabelRecords
    BY ElementOfSeq
  <2> QED BY <2>1 DEF LabelRecords
<1>2. f \in [1 .. Len(pool) -> S]
  OBVIOUS
<1>3. \A i, j \in 1 .. Len(pool) : f[i] = f[j] => i = j
  BY DEF Distinct, Same
<1>4. \A name \in S : \E i \in 1 .. Len(pool) : f[i] = name
  OBVIOUS
<1>5. f \in Bijection(1 .. Len(pool), S)
  BY <1>2, <1>3, <1>4 DEF Bijection, Injection, Surjection, IsInjective
<1>6. Len(pool) \in Nat
  BY EmptySeq
<1>7. Cardinality(S) = Len(pool)
  BY <1>5, <1>6, FS_CountingElements DEF ExistsBijection
<1>8. S \in SUBSET Names
  BY <1>1
<1>9. \A a, b \in S : Fold[a] = Fold[b] => a = b
  BY DEF Distinct, Same
<1> QED BY <1>7, <1>8, <1>9, AssemblerAssumption

(* A label that is asked for has one number, and no other label loses its   *)
(* own; if it is new it has no definition.                                  *)
LEMMA GetNumbers ==
  ASSUME labels \in Seq(LabelRecords), Distinct(labels), NEW name \in Names
  PROVE  /\ Get(labels, name).pool \in Seq(LabelRecords)
         /\ Distinct(Get(labels, name).pool)
         /\ Get(labels, name).id \in 1 .. Len(Get(labels, name).pool)
         /\ Same(Get(labels, name).pool[Get(labels, name).id].name, name)
         /\ \/ Get(labels, name).pool = labels
            \/ /\ Get(labels, name).pool =
                    Append(labels, [name |-> name, definition |-> Undefined])
               /\ Places(labels, name) = { }
<1> DEFINE new == [name |-> name, definition |-> Undefined]
<1>1. Len(labels) \in Nat /\ Max16 \in Nat /\ Undefined \in Nat
  BY EmptySeq, AssemblerAssumption DEF Undefined
<1>2. CASE Places(labels, name) = { }
  <2>1. new \in LabelRecords
    BY <1>1 DEF LabelRecords
  <2>2. /\ Append(labels, new) \in Seq(LabelRecords)
        /\ Len(Append(labels, new)) = Len(labels) + 1
        /\ \A i \in 1 .. Len(labels) : Append(labels, new)[i] = labels[i]
        /\ Append(labels, new)[Len(labels) + 1] = new
    BY <2>1, AppendProperties
  <2>3. \A i \in 1 .. Len(labels) : ~Same(labels[i].name, name)
    BY <1>2 DEF Places
  <2>4. Distinct(Append(labels, new))
    BY <1>1, <2>2, <2>3 DEF Distinct, Same
  <2>5. Len(labels) + 1 <= Max16
    BY <2>2, <2>4, FewLabels
  <2>6. Get(labels, name).pool = Append(labels, new)
          /\ Get(labels, name).id = Len(labels) + 1
    BY <1>1, <1>2, <2>5, SmallModulo DEF Get
  <2>7. Same(new.name, name)
    BY DEF Same
  <2> QED BY <1>1, <1>2, <2>2, <2>4, <2>6, <2>7
<1>3. CASE Places(labels, name) # { }
  <2>1. PICK i \in Places(labels, name) : TRUE
    BY <1>3
  <2>2. i \in 1 .. Len(labels) /\ Same(labels[i].name, name)
    BY <2>1 DEF Places
  <2>3. Places(labels, name) = { i }
    BY <2>1, <2>2 DEF Places, Distinct, Same
  <2>4. (CHOOSE k \in Places(labels, name) :
           \A j \in Places(labels, name) : k <= j) = i
    BY <1>1, <2>2, <2>3
  <2>5. i <= Max16 /\ i \in Nat
    BY <1>1, <2>2, FewLabels
  <2>6. Get(labels, name).pool = labels /\ Get(labels, name).id = i
    BY <1>1, <1>3, <2>4, <2>5, SmallModulo DEF Get
  <2> QED BY <2>2, <2>6
<1> QED BY <1>2, <1>3

-----------------------------------------------------------------------------
(* What a name means. *)

DefinitionRecords == [name : Names, place : Nat]

(* If a name has definitions one of them is the last. *)
HasLast ==
  \A name \in Names :
    Definitions(name) # { } =>
      \E i \in Definitions(name) : \A j \in Definitions(name) : j <= i

LEMMA SameNamesMeanTheSame ==
  ASSUME NEW name \in Names, NEW other \in Names, Same(name, other)
  PROVE  Meaning(name) = Meaning(other)
<1>1. Definitions(name) = Definitions(other)
  BY DEF Definitions, Same
<1> QED BY <1>1 DEF Meaning

(* A definition takes the place of those before it, for its name in any     *)
(* case, and of no other.                                                   *)
LEMMA MeaningAfter ==
  ASSUME defined \in Seq(DefinitionRecords), HasLast, NEW name \in Names, NEW place \in Nat,
         defined' = Append(defined, [name |-> name, place |-> place])
  PROVE  /\ HasLast'
         /\ \A other \in Names :
              Meaning(other)' = IF Same(other, name) THEN place ELSE Meaning(other)
<1> DEFINE n == Len(defined)
           new == [name |-> name, place |-> place]
<1>1. n \in Nat
  BY EmptySeq
<1>2. /\ Len(defined') = n + 1
      /\ \A i \in 1 .. n : defined'[i] = defined[i]
      /\ defined'[n + 1] = new
  <2>1. new \in DefinitionRecords
    BY DEF DefinitionRecords
  <2> QED BY <2>1, AppendProperties
<1> HIDE DEF n
<1>3. \A other \in Names : Definitions(other) \subseteq 1 .. n
  BY DEF Definitions, n
<1>4. ASSUME NEW other \in Names, Same(other, name)
      PROVE  /\ n + 1 \in Definitions(other)'
             /\ \A j \in Definitions(other)' : j <= n + 1
             /\ Meaning(other)' = place
  <2>1. n + 1 \in Definitions(other)'
    BY <1>1, <1>2, <1>4 DEF Definitions, Same
  <2>2. \A j \in Definitions(other)' : j \in 1 .. n + 1
    BY <1>2 DEF Definitions
  <2>3. \A j \in Definitions(other)' : j <= n + 1
    BY <1>1, <2>2
  <2>4. (CHOOSE i \in Definitions(other)' : \A j \in Definitions(other)' : j <= i) = n + 1
    <3>1. ASSUME NEW i \in Definitions(other)', \A j \in Definitions(other)' : j <= i
          PROVE  i = n + 1
      BY <1>1, <2>1, <2>2, <3>1
    <3> QED BY <2>1, <2>3, <3>1
  <2>5. Meaning(other)' = defined'[n + 1].place
    BY <2>1, <2>4 DEF Meaning
  <2> QED BY <1>2, <2>1, <2>3, <2>5
<1>5. ASSUME NEW other \in Names, ~Same(other, name)
      PROVE  /\ Definitions(other)' = Definitions(other)
             /\ Meaning(other)' = Meaning(other)
  <2>1. Definitions(other)' = Definitions(other)
    BY <1>1, <1>2, <1>5 DEF Definitions, Same, n
  <2>2. CASE Definitions(other) = { }
    BY <2>1, <2>2 DEF Meaning
  <2>3. CASE Definitions(other) # { }
    <3> DEFINE last == CHOOSE i \in Definitions(other) : \A j \in Definitions(other) : j <= i
    <3>1. last \in Definitions(other)
      BY <2>3 DEF HasLast
    <3>2. last \in 1 .. n
      BY <1>3, <3>1
    <3>3. Meaning(other) = defined[last].place /\ Meaning(other)' = defined'[last].place
      BY <2>1, <2>3 DEF Meaning
    <3> QED BY <1>2, <2>1, <3>2, <3>3
  <2> QED BY <2>1, <2>2, <2>3
<1>6. HasLast'
  <2>1. SUFFICES ASSUME NEW other \in Names, Definitions(other)' # { }
                 PROVE  \E i \in Definitions(other)' : \A j \in Definitions(other)' : j <= i
    BY DEF HasLast
  <2>2. CASE Same(other, name)
    BY <1>4, <2>2
  <2>3. CASE ~Same(other, name)
    BY <1>5, <2>1, <2>3 DEF HasLast
  <2> QED BY <2>2, <2>3
<1> QED BY <1>4, <1>5, <1>6

-----------------------------------------------------------------------------
(* The inductive invariant.                                                 *)

Types ==
  /\ phase \in Phases
  /\ args \in Seq(Numbers) /\ label \in LabelUses
  /\ program \in [version : Seq(Numbers), entry_point : 0 .. Max16,
                  globals_count : 0 .. Max16]
  /\ labels \in Seq(LabelRecords) /\ constants \in Seq(Descriptors)
  /\ code \in Seq(Instructions) /\ defined \in Seq(DefinitionRecords)
  /\ used \in Seq(LabelUses) /\ found \in 0 .. Max16 /\ begun \in Nat
  /\ error \in NErrors /\ result \in { "none", "NULL", "program" }
  /\ istream \in { "open", "freed" }

(* What has been read of an item is what its operands begin with. *)
Reading ==
  /\ head = None => todo = << >> /\ args = << >> /\ label = NoLabel
  /\ head # None => phase \in HeaderPhases \cup { "constants", "code" }
  /\ phase \in HeaderPhases \ { "version" } /\ head # None =>
       \/ todo = << "u16" >> /\ args = << >>
       \/ todo = << >> /\ Len(args) = 1 /\ args[1] \in 0 .. Max16
  /\ phase = "constants" /\ head = "procedure" =>
       todo \in { << "label", "u16" >>, << "u16" >>, << >> }
  /\ phase = "constants" /\ head # None => head \in ConstantKinds
  /\ phase = "constants" /\ head \notin { None, "procedure" } =>
       todo \in { << "string" >>, << "double" >>, << "int32" >>, << >> } /\ label = NoLabel
  /\ phase = "code" /\ head # None => head \in Opcodes

Numbered(id, name) == id \in 1 .. Len(labels) /\ Same(labels[id].name, name)

(* Labels have numbers of their own, and each use has its label's. *)
Labelled ==
  /\ Distinct(labels)
  /\ \A i \in 1 .. Len(code) :
       IF code[i].label = NoLabel THEN code[i].label_id = 0
       ELSE Numbered(code[i].label_id, code[i].label)
  /\ Len(used) = Len(constants)
  /\ \A i \in 1 .. Len(constants) :
       IF constants[i].kind = "procedure"
       THEN used[i] \in Names /\ Numbered(constants[i].label_id, used[i])
       ELSE used[i] = NoLabel /\ constants[i].label_id = 0

(* The label manager knows what every name means so far. *)
Meant ==
  /\ HasLast
  /\ \A i \in 1 .. Len(labels) :
       /\ labels[i].definition = Meaning(labels[i].name)
       /\ labels[i].definition \in (0 .. Len(code)) \cup { Undefined }
  /\ \A i \in 1 .. Len(defined) : Places(labels, defined[i].name) # { }

(* An item that is being read. *)
Pending == IF phase \in { "constants", "code" } /\ head # None THEN 1 ELSE 0

Counted ==
  /\ Len(constants) + Len(code) + Len(defined) + Pending <= MaxItems
  /\ result = "none" /\ phase # "aborted" =>
       begun = Len(constants) + Len(code) + Pending
  /\ found <= Len(constants)
  /\ phase \in { "code_keyword", "code" } => program.entry_point < Len(constants)
  /\ phase \notin { "code", "returned", "aborted" } => code = << >>

(* The names of labels that instructions share with the pool. *)
Freed ==
  \A i \in 1 .. Len(code) :
    code[i].freed = IF code[i].label = NoLabel THEN 0 ELSE 1

(* Whether and how the call has returned. *)
Returned ==
  result = "none" <=> phase \in { "idle", "aborted", "code_keyword", "code", "constants",
                                 "constants_keyword" } \cup HeaderPhases

AssemblerInv ==
  /\ Types /\ Reading /\ Labelled /\ Meant /\ Counted /\ Freed /\ Returned
  /\ LabelsResolve /\ AcceptedIsWhole

-----------------------------------------------------------------------------
(* Ends of the call. *)

LEMMA ItemsInBounds ==
  ASSUME AssemblerInv
  PROVE  /\ Len(constants) \in Nat /\ Len(code) \in Nat /\ Len(defined) \in Nat
         /\ Len(labels) \in Nat /\ Len(code) <= MaxItems
<1>1. /\ Len(constants) \in Nat /\ Len(code) \in Nat /\ Len(defined) \in Nat
      /\ Len(labels) \in Nat
  BY EmptySeq DEF AssemblerInv, Types
<1>2. Pending \in { 0, 1 }
  BY DEF Pending
<1> QED BY <1>1, <1>2, HalfWord DEF AssemblerInv, Counted

(* The program that is returned, whatever the error, has its labels.        *)
LEMMA ReturnResolves ==
  ASSUME AssemblerInv, NEW problem, Return(problem), UNCHANGED << defined, used >>
  PROVE  /\ code' \in Seq(Instructions) /\ Len(code') = Len(code)
         /\ constants' \in Seq(Descriptors) /\ Len(constants') = Len(constants)
         /\ \A i \in 1 .. Len(code) :
              /\ code'[i].label = code[i].label
              /\ code'[i].label_id = code[i].label_id
              /\ code'[i].freed = code[i].freed
         /\ \A i \in 1 .. Len(constants) :
              /\ constants'[i].kind = constants[i].kind
              /\ constants'[i].label_id = constants[i].label_id
         /\ LabelsResolve'
<1>1. /\ code \in Seq(Instructions) /\ constants \in Seq(Descriptors)
      /\ labels \in Seq(LabelRecords) /\ used \in Seq(LabelUses)
      /\ Labelled /\ Meant
  BY DEF AssemblerInv, Types
<1>2. /\ Len(code) \in Nat /\ Len(constants) \in Nat /\ Len(code) <= MaxItems
  BY ItemsInBounds
<1>3. /\ code' = WithDefinitions(code) /\ constants' = WithPlaces(constants)
      /\ labels' = labels
  BY DEF Return
<1>4. \A name \in Names : Meaning(name)' = Meaning(name)
  BY DEF Meaning, Definitions
<1>5. \A id, name : name \in Names /\ Numbered(id, name) =>
        /\ labels[id].definition = Meaning(name)
        /\ labels[id].definition \in (0 .. Len(code)) \cup { Undefined }
        /\ labels[id].definition \in 0 .. Undefined
  <2>1. SUFFICES ASSUME NEW id, NEW name \in Names, Numbered(id, name)
                 PROVE  /\ labels[id].definition = Meaning(name)
                        /\ labels[id].definition \in (0 .. Len(code)) \cup { Undefined }
                        /\ labels[id].definition \in 0 .. Undefined
    OBVIOUS
  <2>2. id \in 1 .. Len(labels) /\ Same(labels[id].name, name)
    BY <2>1 DEF Numbered
  <2>3. labels[id] \in LabelRecords
    BY <1>1, <2>2, ElementOfSeq
  <2>4. labels[id].name \in Names /\ labels[id].definition \in 0 .. Undefined
    BY <2>3 DEF LabelRecords
  <2>5. Meaning(labels[id].name) = Meaning(name)
    BY <2>2, <2>4, SameNamesMeanTheSame
  <2> QED BY <1>1, <2>2, <2>4, <2>5 DEF Meant
<1>6. ASSUME NEW i \in 1 .. Len(code)
      PROVE  /\ WithDefinitions(code)[i] \in Instructions
             /\ WithDefinitions(code)[i].label = code[i].label
             /\ WithDefinitions(code)[i].label_id = code[i].label_id
             /\ WithDefinitions(code)[i].freed = code[i].freed
             /\ code[i].label # NoLabel =>
                  /\ WithDefinitions(code)[i].definition = Meaning(code[i].label)
                  /\ WithDefinitions(code)[i].offset =
                       IF Meaning(code[i].label) = Undefined THEN i
                       ELSE i - 1 - Meaning(code[i].label)
  <2> DEFINE definition == labels[code[i].label_id].definition
  <2>1. code[i] \in Instructions
    BY <1>1, ElementOfSeq
  <2>2. CASE code[i].label = NoLabel
    <3>1. WithDefinitions(code)[i] = code[i]
      BY <2>2 DEF WithDefinitions
    <3> QED BY <2>1, <2>2, <3>1
  <2>3. CASE code[i].label # NoLabel
    <3>1. WithDefinitions(code)[i] =
            [code[i] EXCEPT !.definition = definition,
                            !.offset = Int32(i - 1 - definition)]
      BY <2>3 DEF WithDefinitions
    <3>2. code[i].label \in Names /\ Numbered(code[i].label_id, code[i].label)
      BY <1>1, <2>1, <2>3 DEF Labelled, Instructions
    <3>3. /\ definition = Meaning(code[i].label)
          /\ definition \in (0 .. Len(code)) \cup { Undefined }
          /\ definition \in 0 .. Undefined
      BY <1>5, <3>2
    <3> HIDE DEF definition
    <3>4. i - 1 - definition \in Int
      BY <1>2, <3>3, HalfWord
    <3>5. Int32(i - 1 - definition) \in Int
      BY <3>4, Int32IsNumber
    <3>6. Int32(i - 1 - definition) = IF definition = Undefined THEN i ELSE i - 1 - definition
      <4>1. CASE definition = Undefined
        BY <1>2, <4>1, HalfWord, OffsetOfUndefined
      <4>2. CASE definition # Undefined
        <5>1. definition \in 0 .. Len(code)
          BY <3>3, <4>2
        <5>2. 0 - Word \div 2 <= i - 1 - definition /\ i - 1 - definition < Word \div 2
          BY <1>2, <5>1, HalfWord
        <5> QED BY <3>4, <4>2, <5>2, Int32Exact
      <4> QED BY <4>1, <4>2
    <3>7. WithDefinitions(code)[i] \in Instructions
      BY <2>1, <3>1, <3>3, <3>5 DEF Instructions
    <3>8. /\ WithDefinitions(code)[i].label = code[i].label
          /\ WithDefinitions(code)[i].label_id = code[i].label_id
          /\ WithDefinitions(code)[i].freed = code[i].freed
          /\ WithDefinitions(code)[i].definition = definition
          /\ WithDefinitions(code)[i].offset = Int32(i - 1 - definition)
      BY <2>1, <3>1 DEF Instructions
    <3> QED BY <3>3, <3>6, <3>7, <3>8
  <2> QED BY <2>2, <2>3
<1>7. code' \in Seq(Instructions) /\ Len(code') = Len(code)
  <2>1. DOMAIN WithDefinitions(code) = 1 .. Len(code)
          /\ WithDefinitions(code) = [i \in 1 .. Len(code) |-> WithDefinitions(code)[i]]
    BY DEF WithDefinitions
  <2>2. WithDefinitions(code) \in [1 .. Len(code) -> Instructions]
    BY <1>6, <2>1
  <2>3. WithDefinitions(code) \in Seq(Instructions)
    BY <1>2, <2>2
  <2>4. Len(WithDefinitions(code)) = Len(code)
    BY <1>2, <2>1, <2>3, LenProperties
  <2> QED BY <1>3, <2>3, <2>4
<1>8. ASSUME NEW i \in 1 .. Len(constants)
      PROVE  /\ WithPlaces(constants)[i] \in Descriptors
             /\ WithPlaces(constants)[i].kind = constants[i].kind
             /\ WithPlaces(constants)[i].label_id = constants[i].label_id
             /\ used[i] # NoLabel => WithPlaces(constants)[i].definition = Meaning(used[i])
  <2>1. constants[i] \in Descriptors
    BY <1>1, ElementOfSeq
  <2>2. CASE constants[i].kind # "procedure"
    <3>1. WithPlaces(constants)[i] = constants[i] /\ used[i] = NoLabel
      BY <1>1, <2>2 DEF WithPlaces, Labelled
    <3> QED BY <2>1, <3>1
  <2>3. CASE constants[i].kind = "procedure"
    <3>1. used[i] \in Names /\ Numbered(constants[i].label_id, used[i])
      BY <1>1, <2>3 DEF Labelled
    <3>2. constants[i].label_id # 0
      BY <3>1 DEF Numbered
    <3>3. WithPlaces(constants)[i] =
            [constants[i] EXCEPT !.definition = labels[constants[i].label_id].definition]
      BY <3>2 DEF WithPlaces
    <3>4. /\ labels[constants[i].label_id].definition = Meaning(used[i])
          /\ labels[constants[i].label_id].definition \in 0 .. Undefined
      BY <1>5, <3>1
    <3> QED BY <2>1, <3>3, <3>4 DEF Descriptors
  <2> QED BY <2>2, <2>3
<1>9. constants' \in Seq(Descriptors) /\ Len(constants') = Len(constants)
  BY <1>2, <1>3, <1>8, IsASeq DEF WithPlaces
<1>10. \A i \in 1 .. Len(code) : code[i].label \in Names \cup { NoLabel }
  <2>1. \A i \in 1 .. Len(code) : code[i] \in Instructions
    BY <1>1, ElementOfSeq
  <2> QED BY <2>1 DEF Instructions
<1>11. \A i \in 1 .. Len(constants) : used[i] # NoLabel => used[i] \in Names
  BY <1>1 DEF Labelled
<1>12. LabelsResolve'
  BY <1>3, <1>4, <1>6, <1>7, <1>8, <1>9, <1>10, <1>11 DEF LabelsResolve
<1> QED BY <1>3, <1>6, <1>7, <1>8, <1>9, <1>12

LEMMA TablesKeep ==
  ASSUME AssemblerInv, UNCHANGED << labels, constants, code, defined, used >>
  PROVE  Labelled' /\ Meant' /\ Freed'
<1>1. \A name : Meaning(name)' = Meaning(name)
  BY DEF Meaning, Definitions
<1>2. \A name : Places(labels, name)' = Places(labels, name)
  BY DEF Places, Same
<1>3. Labelled'
  BY DEF AssemblerInv, Labelled, Distinct, Numbered, Same
<1>4. Meant'
  <2>1. HasLast'
    <3>1. \A name : Definitions(name)' = Definitions(name)
      BY DEF Definitions
    <3> QED BY <3>1 DEF AssemblerInv, Meant, HasLast
  <2> QED BY <1>1, <1>2, <2>1 DEF AssemblerInv, Meant
<1>5. Freed'
  BY DEF AssemblerInv, Freed
<1> QED BY <1>3, <1>4, <1>5

(* What CleanUp leaves: nothing, for it is never reached with code. *)
LEMMA CleanKeeps ==
  ASSUME AssemblerInv, NEW problem \in NErrors, CleanUp(problem), Idle, code = << >>,
         UNCHANGED << program, begun, defined, used >>
  PROVE  AssemblerInv'
<1>1. code' = << >>
  BY DEF CleanUp
<1>2. UNCHANGED << labels, constants, code, defined, used, found >>
  BY <1>1 DEF CleanUp
<1>3. phase' = "returned" /\ result' = "NULL" /\ error' = problem /\ istream' = "freed"
  BY DEF CleanUp
<1>4. Types'
  BY <1>2, <1>3 DEF AssemblerInv, Types, Idle, LabelUses, Phases
<1>5. Reading'
  BY <1>3 DEF Reading, Idle, HeaderPhases, HeaderOperands
<1>6. Labelled' /\ Meant' /\ Freed'
  BY <1>2, TablesKeep
<1>7. Counted'
  <2>1. Pending' = 0 /\ Pending \in { 0, 1 }
    BY <1>3 DEF Pending
  <2>2. Len(constants) \in Nat /\ Len(code) \in Nat /\ Len(defined) \in Nat
    BY ItemsInBounds
  <2> QED BY <1>1, <1>2, <1>3, <2>1, <2>2, HalfWord DEF AssemblerInv, Counted
<1>8. Returned'
  BY <1>3 DEF Returned, HeaderPhases, HeaderOperands
<1> QED BY <1>3, <1>4, <1>5, <1>6, <1>7, <1>8
        DEF AssemblerInv, LabelsResolve, AcceptedIsWhole

LEMMA ReturnKeeps ==
  ASSUME AssemblerInv, NEW problem \in NErrors, Return(problem), Idle,
         UNCHANGED << program, begun, defined, used >>,
         \/ problem # << >>
         \/ begun = Len(constants) + Len(code) /\ program.entry_point < Len(constants)
  PROVE  AssemblerInv'
<1>1. /\ code' \in Seq(Instructions) /\ Len(code') = Len(code)
      /\ constants' \in Seq(Descriptors) /\ Len(constants') = Len(constants)
      /\ \A i \in 1 .. Len(code) :
           /\ code'[i].label = code[i].label
           /\ code'[i].label_id = code[i].label_id
           /\ code'[i].freed = code[i].freed
      /\ \A i \in 1 .. Len(constants) :
           /\ constants'[i].kind = constants[i].kind
           /\ constants'[i].label_id = constants[i].label_id
      /\ LabelsResolve'
  BY ReturnResolves
<1>2. /\ phase' = "returned" /\ result' = "program" /\ error' = problem
      /\ UNCHANGED << labels, found, istream >>
  BY DEF Return
<1>3. Types'
  BY <1>1, <1>2 DEF AssemblerInv, Types, Idle, LabelUses, Phases
<1>4. Reading'
  BY <1>2 DEF Reading, Idle, HeaderPhases, HeaderOperands
<1>5. Labelled'
  <2>1. Distinct(labels)' /\ Len(used') = Len(constants')
    BY <1>1, <1>2 DEF AssemblerInv, Labelled, Distinct, Same
  <2>2. ASSUME NEW i \in 1 .. Len(code')
        PROVE  IF code'[i].label = NoLabel THEN code'[i].label_id = 0
               ELSE /\ code'[i].label_id \in 1 .. Len(labels')
                    /\ Fold[labels'[code'[i].label_id].name] = Fold[code'[i].label]
    BY <1>1, <1>2 DEF AssemblerInv, Labelled, Numbered, Same
  <2>3. ASSUME NEW i \in 1 .. Len(constants')
        PROVE  IF constants'[i].kind = "procedure"
               THEN /\ used'[i] \in Names
                    /\ constants'[i].label_id \in 1 .. Len(labels')
                    /\ Fold[labels'[constants'[i].label_id].name] = Fold[used'[i]]
               ELSE used'[i] = NoLabel /\ constants'[i].label_id = 0
    BY <1>1, <1>2 DEF AssemblerInv, Labelled, Numbered, Same
  <2> QED BY <2>1, <2>2, <2>3 DEF Labelled, Numbered, Same
<1>6. Meant'
  <2>1. HasLast'
    <3>1. \A name : Definitions(name)' = Definitions(name)
      BY DEF Definitions
    <3> QED BY <3>1 DEF AssemblerInv, Meant, HasLast
  <2>2. \A name : Meaning(name)' = Meaning(name)
    BY DEF Meaning, Definitions
  <2>3. \A name : Places(labels, name)' = Places(labels, name)
    BY <1>2 DEF Places, Same
  <2> QED BY <1>1, <1>2, <2>1, <2>2, <2>3 DEF AssemblerInv, Meant
<1>7. Freed'
  BY <1>1 DEF AssemblerInv, Freed
<1>8. Counted'
  <2>1. Pending' = 0 /\ Pending \in { 0, 1 }
    BY <1>2 DEF Pending
  <2>2. Len(constants) \in Nat /\ Len(code) \in Nat /\ Len(defined) \in Nat
    BY ItemsInBounds
  <2> QED BY <1>1, <1>2, <2>1, <2>2, HalfWord DEF AssemblerInv, Counted
<1>9. Returned'
  BY <1>2 DEF Returned, HeaderPhases, HeaderOperands
<1>10. AcceptedIsWhole'
  BY <1>1, <1>2 DEF AcceptedIsWhole
<1> QED BY <1>1, <1>3, <1>4, <1>5, <1>6, <1>7, <1>8, <1>9, <1>10 DEF AssemblerInv

LEMMA FailKeeps ==
  ASSUME AssemblerInv, NEW problem \in Problems, Fail(problem),
         phase \in HeaderPhases \cup { "constants", "code" }
  PROVE  AssemblerInv'
<1>1. Idle /\ UNCHANGED << program, begun, defined, used >>
  BY DEF Fail
<1>2. CASE phase = "code"
  <2>1. Return(<< "InvalidCodeSyntax", problem >>)
    BY <1>2 DEF Fail
  <2>2. << "InvalidCodeSyntax", problem >> \in NErrors
    BY DEF NErrors
  <2> QED BY <1>1, <2>1, <2>2, ReturnKeeps
<1>3. CASE phase # "code"
  <2>1. code = << >>
    BY <1>3 DEF AssemblerInv, Counted, HeaderPhases, HeaderOperands
  <2>2. << "InvalidConstantSyntax", problem >> \in NErrors /\ << problem >> \in NErrors
    BY DEF NErrors
  <2>3. PICK e \in NErrors : CleanUp(e)
    BY <1>3, <2>2 DEF Fail
  <2> QED BY <1>1, <2>1, <2>3, CleanKeeps
<1> QED BY <1>2, <1>3

-----------------------------------------------------------------------------
(* Steps that leave the pools as they are. *)

LEMMA ConsumeKeeps ==
  ASSUME AssemblerInv,
         ConsumeLabel \/ ConsumeText \/ ConsumeNumber \/ ConsumeWrong \/ Abort
  PROVE  AssemblerInv'
<1>1. head # None /\ phase \in HeaderPhases \cup { "constants", "code" } /\ result = "none"
  BY DEF None, AssemblerInv, Reading, Returned, ConsumeLabel, ConsumeText, ConsumeNumber,
         ConsumeWrong, Abort
<1>2. ASSUME UNCHANGED << phase, head, program, labels, constants, found, code, error,
                          result, istream, begun, defined, used >>,
             args' \in Seq(Numbers), label' \in LabelUses, Reading'
      PROVE  AssemblerInv'
  <2>1. Labelled' /\ Meant' /\ Freed'
    BY <1>2, TablesKeep
  <2>2. Counted'
    BY <1>2 DEF AssemblerInv, Counted, Pending
  <2>3. Types'
    BY <1>2 DEF AssemblerInv, Types
  <2>4. Returned'
    BY <1>2 DEF AssemblerInv, Returned
  <2> QED BY <1>1, <1>2, <2>1, <2>2, <2>3, <2>4
          DEF AssemblerInv, LabelsResolve, AcceptedIsWhole
<1>3. CASE ConsumeLabel
  <2>1. label' \in LabelUses
    BY <1>3 DEF ConsumeLabel, LabelUses
  <2>2. todo # << >> /\ Head(todo) = "label" /\ todo' = Tail(todo)
        /\ UNCHANGED << head, phase, args >>
    BY <1>3 DEF ConsumeLabel
  <2>3. Reading'
    <3>1. /\ \A kind : Tail(<< kind >>) = << >> /\ Head(<< kind >>) = kind
          /\ Head(<< "label", "u16" >>) = "label" /\ Tail(<< "label", "u16" >>) = << "u16" >>
      OBVIOUS
    <3>2. ASSUME phase = "constants", head = "procedure"
          PROVE  todo' = << "u16" >>
      <4>1. todo = << "label", "u16" >> \/ todo \in { << "u16" >>, << >> }
        BY <3>2 DEF AssemblerInv, Reading
      <4>2. todo # << "u16" >> /\ todo # << >>
        BY <2>2, <3>1
      <4> QED BY <2>2, <3>1, <4>1, <4>2
    <3>3. ~(phase = "constants" /\ head # "procedure")
      BY <1>1, <2>2, <3>1 DEF AssemblerInv, Reading
    <3>4. ~(phase \in HeaderPhases \ { "version" })
      BY <1>1, <2>2, <3>1 DEF AssemblerInv, Reading
    <3>5. phase = "code" => head \in Opcodes
      BY <1>1 DEF AssemblerInv, Reading
    <3>6. phase = "constants" => head \in ConstantKinds
      BY <1>1 DEF AssemblerInv, Reading
    <3> QED BY <1>1, <2>2, <3>2, <3>3, <3>4, <3>5, <3>6 DEF Reading
  <2> QED BY <1>2, <1>3, <2>1, <2>3 DEF ConsumeLabel, AssemblerInv, Types
<1>4. CASE ConsumeText
  <2>1. /\ todo # << >> /\ Head(todo) \in { "string", "double" } /\ todo' = Tail(todo)
        /\ UNCHANGED << head, phase, args, label >>
    BY <1>4 DEF ConsumeText
  <2>2. Reading'
    <3>1. phase = "constants" /\ head # "procedure" =>
            todo \in { << "string" >>, << "double" >>, << "int32" >>, << >> } /\ label = NoLabel
      BY <1>1 DEF AssemblerInv, Reading
    <3>2. \A kind : Tail(<< kind >>) = << >> /\ Head(<< kind >>) = kind
      OBVIOUS
    <3>3. phase = "constants" /\ head # "procedure" => todo' = << >> /\ label' = NoLabel
      BY <2>1, <3>1, <3>2
    <3>4. ~(phase \in HeaderPhases \ { "version" })
      BY <1>1, <2>1 DEF AssemblerInv, Reading
    <3>5. ~(phase = "constants" /\ head = "procedure")
      BY <2>1 DEF AssemblerInv, Reading
    <3>6. phase = "code" => head \in Opcodes
      BY <1>1 DEF AssemblerInv, Reading
    <3>7. phase = "constants" => head \in ConstantKinds
      BY <1>1 DEF AssemblerInv, Reading
    <3> QED BY <1>1, <2>1, <3>3, <3>4, <3>5, <3>6, <3>7 DEF Reading
  <2> QED BY <1>2, <1>4, <2>2 DEF ConsumeText, AssemblerInv, Types
<1>5. CASE ConsumeNumber
  <2>1. PICK literal \in Literals : ConsumeNumber!(literal)
    BY <1>5 DEF ConsumeNumber
  <2>2. CASE InRange(Head(todo), Int32(literal))
    <3>1. /\ todo # << >> /\ Head(todo) \notin { "label", "string", "double" }
          /\ args' = Append(args, Int32(literal)) /\ todo' = Tail(todo)
          /\ UNCHANGED << phase, head, label, program, labels, constants, found, code,
                          error, result, istream, begun, defined, used >>
      BY <2>1, <2>2
    <3>2. Int32(literal) \in Numbers /\ args \in Seq(Numbers)
      BY Int32IsNumber, AssemblerAssumption DEF AssemblerInv, Types
    <3>3. args' \in Seq(Numbers)
      BY <3>1, <3>2, AppendProperties
    <3>4. Reading'
      <4>1. args = << >> /\ Head(todo) = "u16" =>
              Len(args') = 1 /\ args'[1] \in 0 .. Max16
        BY <2>2, <3>1 DEF InRange
      <4>2. /\ \A kind : Tail(<< kind >>) = << >> /\ Head(<< kind >>) = kind
            /\ Head(<< "label", "u16" >>) = "label"
        OBVIOUS
      <4>3. phase \in HeaderPhases \ { "version" } => todo' = << >> /\ args = << >>
                                                     /\ Head(todo) = "u16"
        BY <1>1, <3>1, <4>2 DEF AssemblerInv, Reading
      <4>4. phase = "constants" /\ head = "procedure" => todo' = << >>
        <5>1. ASSUME phase = "constants", head = "procedure"
              PROVE  todo' = << >>
          <6>1. todo = << "label", "u16" >> \/ todo \in { << "u16" >>, << >> }
            BY <5>1 DEF AssemblerInv, Reading
          <6>2. todo # << "label", "u16" >> /\ todo # << >>
            BY <3>1, <4>2
          <6>3. todo = << "u16" >>
            BY <6>1, <6>2
          <6> QED BY <3>1, <4>2, <6>3
        <5> QED BY <5>1
      <4>5. phase = "constants" /\ head # "procedure" => todo' = << >> /\ label' = NoLabel
        BY <1>1, <3>1, <4>2 DEF AssemblerInv, Reading
      <4> QED BY <1>1, <3>1, <4>1, <4>3, <4>4, <4>5 DEF AssemblerInv, Reading
    <3> QED BY <1>2, <3>1, <3>3, <3>4 DEF AssemblerInv, Types
  <2>3. CASE ~InRange(Head(todo), Int32(literal))
    <3>1. Fail(RangeError(Head(todo)))
      BY <2>1, <2>3
    <3>2. RangeError(Head(todo)) \in Problems
      BY DEF RangeError, Problems
    <3> QED BY <1>1, <3>1, <3>2, FailKeeps
  <2> QED BY <2>2, <2>3
<1>6. CASE ConsumeWrong
  <2>1. PICK problem \in { "EndOfFile", "UnexpectedToken" } : Fail(problem)
    BY <1>6 DEF ConsumeWrong
  <2> QED BY <1>1, <2>1, FailKeeps DEF Problems
<1>7. CASE Abort
  <2>1. /\ phase' = "aborted" /\ Idle
        /\ UNCHANGED << program, labels, constants, found, code, error, result,
                        istream, begun, defined, used >>
    BY <1>7 DEF Abort
  <2>2. Labelled' /\ Meant' /\ Freed'
    BY <2>1, TablesKeep
  <2>3. Types' /\ Reading' /\ Returned'
    BY <1>1, <2>1 DEF AssemblerInv, Types, Reading, Returned, Idle, LabelUses, Phases,
                      HeaderPhases, HeaderOperands
  <2>4. Counted'
    <3>1. Pending' = 0 /\ Pending \in { 0, 1 }
      BY <2>1 DEF Pending
    <3>2. Len(constants) \in Nat /\ Len(code) \in Nat /\ Len(defined) \in Nat
      BY ItemsInBounds
    <3> QED BY <2>1, <3>1, <3>2, HalfWord DEF AssemblerInv, Counted
  <2> QED BY <1>1, <2>1, <2>2, <2>3, <2>4 DEF AssemblerInv, LabelsResolve, AcceptedIsWhole
<1> QED BY <1>3, <1>4, <1>5, <1>6, <1>7

LEMMA HeaderKeeps ==
  ASSUME AssemblerInv, BeginHeaderItem \/ SetHeaderItem
  PROVE  AssemblerInv'
<1>1. phase \in HeaderPhases /\ result = "none" /\ code = << >>
  BY DEF AssemblerInv, Returned, Counted, BeginHeaderItem, SetHeaderItem, HeaderPhases,
         HeaderOperands
<1>2. phase \in { "version", "entry_point", "globals_count" }
  BY <1>1 DEF HeaderPhases, HeaderOperands
<1>3. CASE BeginHeaderItem
  <2>1. CASE /\ head = None /\ head' = phase /\ todo' = HeaderOperands[phase]
             /\ UNCHANGED << phase, args, label, program, labels, constants, found, code,
                             error, result, istream, begun, defined, used >>
    <3>1. Labelled' /\ Meant' /\ Freed'
      BY <2>1, TablesKeep
    <3>2. Types' /\ Returned'
      BY <2>1 DEF AssemblerInv, Types, Returned
    <3>3. Reading'
      BY <1>2, <2>1 DEF AssemblerInv, Reading, HeaderPhases, HeaderOperands, None
    <3>4. Counted'
      <4>1. Pending' = Pending
        BY <1>2, <2>1 DEF Pending
      <4> QED BY <2>1, <4>1 DEF AssemblerInv, Counted
    <3> QED BY <1>1, <2>1, <3>1, <3>2, <3>3, <3>4 DEF AssemblerInv, LabelsResolve, AcceptedIsWhole
  <2>2. CASE \E problem \in { "EndOfFile", "UnexpectedToken" } : Fail(problem)
    BY <1>1, <2>2, FailKeeps DEF Problems
  <2> QED BY <1>3, <2>1, <2>2 DEF BeginHeaderItem
<1>4. CASE SetHeaderItem
  <2>1. /\ head # None /\ todo = << >>
        /\ program' = [program EXCEPT ![phase] = IF phase = "version" THEN args ELSE args[1]]
        /\ phase' = CASE phase = "version" -> "entry_point"
                      [] phase = "entry_point" -> "globals_count"
                      [] OTHER -> "constants_keyword"
        /\ Idle
        /\ UNCHANGED << labels, constants, found, code, error, result, istream, begun,
                        defined, used >>
    BY <1>4 DEF SetHeaderItem
  <2>2. phase' \in { "entry_point", "globals_count", "constants_keyword" }
    BY <1>2, <2>1
  <2>3. Labelled' /\ Meant' /\ Freed'
    BY <2>1, TablesKeep
  <2>4. program' \in [version : Seq(Numbers), entry_point : 0 .. Max16,
                      globals_count : 0 .. Max16]
    <3>1. phase # "version" => args[1] \in 0 .. Max16
      BY <1>1, <2>1 DEF AssemblerInv, Reading
    <3> QED BY <1>2, <2>1, <3>1 DEF AssemblerInv, Types
  <2>5. Types'
    BY <2>1, <2>2, <2>4 DEF AssemblerInv, Types, Idle, LabelUses, Phases, HeaderPhases,
                            HeaderOperands
  <2>6. Reading' /\ Returned'
    BY <1>1, <2>1, <2>2 DEF Reading, Returned, Idle, HeaderPhases, HeaderOperands
  <2>7. Counted'
    <3>1. Pending' = 0 /\ Pending = 0
      BY <1>2, <2>1, <2>2 DEF Pending, Idle
    <3> QED BY <1>1, <1>2, <2>1, <2>2, <3>1 DEF AssemblerInv, Counted
  <2> QED BY <1>1, <2>1, <2>3, <2>5, <2>6, <2>7 DEF AssemblerInv, LabelsResolve, AcceptedIsWhole
<1> QED BY <1>3, <1>4

(* Steps between the parts of a text. *)
LEMMA KeywordKeeps ==
  ASSUME AssemblerInv, ConstantsKeyword \/ EndConstants \/ CodeKeyword \/ EndCode
  PROVE  AssemblerInv'
<1>1. /\ phase \in { "constants_keyword", "constants", "code_keyword", "code" }
      /\ head = None /\ result = "none"
      /\ UNCHANGED << head, todo, args, label, program, begun, defined, used >>
  BY DEF AssemblerInv, Reading, Returned, ConstantsKeyword, EndConstants, CodeKeyword, EndCode,
         HeaderPhases, HeaderOperands
<1>2. Idle
  BY <1>1 DEF Idle, AssemblerInv, Reading
<1>3. phase # "code" => code = << >>
  BY <1>1 DEF AssemblerInv, Counted
<1>4. ASSUME phase' \in { "constants", "code_keyword", "code" },
             UNCHANGED << labels, constants, found, code, error, result, istream >>,
             phase' = "constants" \/ program.entry_point < Len(constants),
             phase # "code"
      PROVE  AssemblerInv'
  <2>1. Labelled' /\ Meant' /\ Freed'
    BY <1>1, <1>4, TablesKeep
  <2>2. Types' /\ Returned'
    BY <1>1, <1>4 DEF AssemblerInv, Types, Returned, Phases
  <2>3. Reading'
    BY <1>2, <1>4 DEF Reading, Idle, None, HeaderPhases, HeaderOperands
  <2>4. Counted'
    <3>1. Pending' = 0 /\ Pending = 0
      BY <1>1 DEF Pending
    <3> QED BY <1>1, <1>3, <1>4, <3>1 DEF AssemblerInv, Counted
  <2> QED BY <1>1, <1>4, <2>1, <2>2, <2>3, <2>4 DEF AssemblerInv, LabelsResolve, AcceptedIsWhole
<1>5. ASSUME NEW problem \in NErrors, CleanUp(problem), phase # "code"
      PROVE  AssemblerInv'
  BY <1>1, <1>2, <1>3, <1>5, CleanKeeps
<1>6. CASE ConstantsKeyword
  <2>1. phase = "constants_keyword"
    BY <1>6 DEF ConstantsKeyword
  <2>2. << "ConstantsNotFound" >> \in NErrors
    BY DEF NErrors
  <2> QED BY <1>4, <1>5, <1>6, <2>1, <2>2 DEF ConstantsKeyword
<1>7. CASE EndConstants
  <2>1. phase = "constants"
    BY <1>7 DEF EndConstants
  <2>2. << "EmptyConstantsList" >> \in NErrors /\ << "EntryPointOutOfBounds" >> \in NErrors
    BY DEF NErrors
  <2>3. CASE found > program.entry_point /\ phase' = "code_keyword"
             /\ UNCHANGED << labels, constants, found, code, error, result, istream >>
    <3>1. program.entry_point < Len(constants)
      <4>1. found <= Len(constants) /\ found \in Nat /\ Len(constants) \in Nat
            /\ program.entry_point \in Nat
        BY HalfWord, ItemsInBounds DEF AssemblerInv, Counted, Types
      <4> QED BY <2>3, <4>1
    <3> QED BY <1>4, <2>1, <2>3, <3>1
  <2> QED BY <1>5, <1>7, <2>1, <2>2, <2>3 DEF EndConstants
<1>8. CASE CodeKeyword
  <2>1. phase = "code_keyword"
    BY <1>8 DEF CodeKeyword
  <2>2. CASE Return(<< "CodeNotFound" >>)
    <3>1. << "CodeNotFound" >> \in NErrors /\ << "CodeNotFound" >> # << >>
      BY DEF NErrors
    <3> QED BY <1>1, <1>2, <2>2, <3>1, ReturnKeeps
  <2>3. program.entry_point < Len(constants)
    BY <2>1 DEF AssemblerInv, Counted
  <2> QED BY <1>4, <1>8, <2>1, <2>2, <2>3 DEF CodeKeyword
<1>9. CASE EndCode
  <2>1. phase = "code" /\ Return(error) /\ error \in NErrors
    BY <1>9 DEF EndCode, AssemblerInv, Types
  <2>2. begun = Len(constants) + Len(code)
    <3>1. Len(constants) \in Nat /\ Len(code) \in Nat /\ Pending = 0
      BY <1>1, ItemsInBounds DEF Pending
    <3>2. begun = Len(constants) + Len(code) + Pending
      BY <1>1, <2>1 DEF AssemblerInv, Counted
    <3> QED BY <3>1, <3>2
  <2>3. program.entry_point < Len(constants)
    BY <2>1 DEF AssemblerInv, Counted
  <2> QED BY <1>1, <1>2, <2>1, <2>2, <2>3, ReturnKeeps
<1> QED BY <1>6, <1>7, <1>8, <1>9

LEMMA BeginKeeps ==
  ASSUME AssemblerInv, BeginConstant \/ BeginInstruction
  PROVE  AssemblerInv'
<1>1. /\ phase \in { "constants", "code" } /\ head = None /\ result = "none"
      /\ Items < MaxItems /\ begun' = begun + 1
      /\ UNCHANGED << phase, args, label, program, labels, constants, found, code, error,
                      result, istream, defined, used >>
  BY DEF AssemblerInv, Returned, BeginConstant, BeginInstruction, HeaderPhases, HeaderOperands
<1>2. /\ phase = "constants" => head' \in ConstantKinds /\ todo' = ConstantOperands[head']
      /\ phase = "code" => head' \in Opcodes
  BY DEF BeginConstant, BeginInstruction
<1>3. head' # None
  BY <1>1, <1>2, AssemblerAssumption DEF None, InstructionOperands, ConstantOperands
<1>4. Labelled' /\ Meant' /\ Freed'
  BY <1>1, TablesKeep
<1>5. Types' /\ Returned'
  BY <1>1 DEF AssemblerInv, Types, Returned
<1>6. Reading'
  <2>1. label = NoLabel /\ ~(phase \in HeaderPhases)
    BY <1>1 DEF AssemblerInv, Reading, HeaderPhases, HeaderOperands
  <2>2. phase = "constants" => head' \in { "string", "character", "double", "int32", "procedure" }
    BY <1>2, AssemblerAssumption DEF ConstantOperands
  <2>3. phase = "constants" /\ head' = "procedure" => todo' = << "label", "u16" >>
    BY <1>2 DEF ConstantOperands
  <2>4. phase = "constants" /\ head' # "procedure" =>
          todo' \in { << "string" >>, << "double" >>, << "int32" >>, << >> }
    BY <1>2, <2>2 DEF ConstantOperands
  <2> QED BY <1>1, <1>2, <1>3, <2>1, <2>3, <2>4 DEF Reading
<1>7. Counted'
  <2>1. Pending' = 1 /\ Pending = 0
    BY <1>1, <1>3 DEF Pending
  <2>2. Len(constants) \in Nat /\ Len(code) \in Nat /\ Len(defined) \in Nat /\ begun \in Nat
    BY ItemsInBounds DEF AssemblerInv, Types
  <2> QED BY <1>1, <2>1, <2>2, HalfWord DEF AssemblerInv, Counted, Items
<1> QED BY <1>1, <1>4, <1>5, <1>6, <1>7 DEF AssemblerInv, LabelsResolve, AcceptedIsWhole

LEMMA EmptyTables ==
  ASSUME labels = << >>, constants = << >>, code = << >>, defined = << >>, used = << >>
  PROVE  Labelled /\ Meant /\ Freed
<1>1. \A name : Definitions(name) = { }
  BY DEF Definitions
<1> QED BY <1>1 DEF Labelled, Meant, Freed, Distinct, HasLast

LEMMA CallKeeps == ASSUME AssemblerInv, Call PROVE AssemblerInv'
<1>1. /\ Idle /\ program' = Fresh
      /\ labels' = << >> /\ constants' = << >> /\ found' = 0 /\ code' = << >>
      /\ begun' = 0 /\ defined' = << >> /\ used' = << >>
      /\ \/ phase' = "version" /\ error' = << >> /\ result' = "none"
         \/ phase' = "returned" /\ error' = << "BadAllocation" >> /\ result' = "NULL"
      /\ istream' \in { "open", "freed" }
  BY DEF Call
<1>2. Labelled' /\ Meant' /\ Freed'
  <2>1. \A name : Definitions(name)' = { }
    BY <1>1 DEF Definitions
  <2> QED BY <1>1, <2>1 DEF Labelled, Meant, Freed, Distinct, HasLast
<1>3. Types'
  <2>1. Fresh \in [version : Seq(Numbers), entry_point : 0 .. Max16, globals_count : 0 .. Max16]
    <3>1. 0 \in Numbers
      BY Int32IsNumber, Int32Exact, HalfWord
    <3> QED BY <3>1, HalfWord DEF Fresh
  <2> QED BY <1>1, <2>1, HalfWord DEF Types, Idle, LabelUses, Phases, HeaderPhases,
                                      HeaderOperands, NErrors
<1>4. Reading' /\ Returned'
  BY <1>1 DEF Reading, Returned, Idle, HeaderPhases, HeaderOperands
<1>5. Counted'
  BY <1>1, HalfWord DEF Counted, Pending, Idle
<1> QED BY <1>1, <1>2, <1>3, <1>4, <1>5 DEF AssemblerInv, LabelsResolve, AcceptedIsWhole

LEMMA InitEstablishes == Init => AssemblerInv
<1> SUFFICES ASSUME Init PROVE AssemblerInv
  OBVIOUS
<1>1. Labelled /\ Meant /\ Freed
  BY EmptyTables DEF Init
<1>2. Types
  <2>1. Fresh \in [version : Seq(Numbers), entry_point : 0 .. Max16, globals_count : 0 .. Max16]
    <3>1. 0 \in Numbers
      BY Int32IsNumber, Int32Exact, HalfWord
    <3> QED BY <3>1, HalfWord DEF Fresh
  <2> QED BY <2>1, HalfWord DEF Init, Types, LabelUses, Phases, NErrors
<1>3. Reading /\ Returned
  BY DEF Init, Reading, Returned, HeaderPhases, HeaderOperands
<1>4. Counted
  BY HalfWord DEF Init, Counted, Pending
<1> QED BY <1>1, <1>2, <1>3, <1>4 DEF Init, AssemblerInv, LabelsResolve, AcceptedIsWhole

-----------------------------------------------------------------------------
(* Steps that use and define labels. *)

LEMMA GetKeeps ==
  ASSUME AssemblerInv, NEW name \in Names
  PROVE  /\ Get(labels, name).pool \in Seq(LabelRecords)
         /\ Distinct(Get(labels, name).pool)
         /\ Get(labels, name).id \in 1 .. Len(Get(labels, name).pool)
         /\ Same(Get(labels, name).pool[Get(labels, name).id].name, name)
         /\ \A i \in 1 .. Len(labels) :
              /\ i \in 1 .. Len(Get(labels, name).pool)
              /\ Get(labels, name).pool[i] = labels[i]
         /\ \A i \in 1 .. Len(Get(labels, name).pool) :
              LET record == Get(labels, name).pool[i]
              IN  /\ record.definition = Meaning(record.name)
                  /\ record.definition \in (0 .. Len(code)) \cup { Undefined }
<1> DEFINE new == [name |-> name, definition |-> Undefined]
<1>1. labels \in Seq(LabelRecords) /\ Distinct(labels) /\ Meant /\ Len(labels) \in Nat
  BY ItemsInBounds DEF AssemblerInv, Types, Labelled
<1>2. /\ Get(labels, name).pool \in Seq(LabelRecords)
      /\ Distinct(Get(labels, name).pool)
      /\ Get(labels, name).id \in 1 .. Len(Get(labels, name).pool)
      /\ Same(Get(labels, name).pool[Get(labels, name).id].name, name)
      /\ \/ Get(labels, name).pool = labels
         \/ Get(labels, name).pool = Append(labels, new) /\ Places(labels, name) = { }
  BY <1>1, GetNumbers
<1>3. CASE Get(labels, name).pool = labels
  BY <1>1, <1>2, <1>3 DEF Meant
<1>4. CASE Get(labels, name).pool = Append(labels, new) /\ Places(labels, name) = { }
  <2>1. new \in LabelRecords
    BY HalfWord DEF LabelRecords
  <2>2. /\ Len(Append(labels, new)) = Len(labels) + 1
        /\ \A i \in 1 .. Len(labels) : Append(labels, new)[i] = labels[i]
        /\ Append(labels, new)[Len(labels) + 1] = new
    BY <1>1, <2>1, AppendProperties
  <2>3. Meaning(name) = Undefined
    <3>1. ASSUME NEW i \in Definitions(name)
          PROVE  FALSE
      <4>1. i \in 1 .. Len(defined) /\ Fold[defined[i].name] = Fold[name]
        BY DEF Definitions
      <4>2. PICK j \in Places(labels, defined[i].name) : TRUE
        BY <1>1, <4>1 DEF Meant
      <4>3. j \in Places(labels, name)
        BY <4>1, <4>2 DEF Places, Same
      <4> QED BY <1>4, <4>3
    <3> QED BY <3>1 DEF Meaning
  <2>4. \A i \in 1 .. Len(Append(labels, new)) : i \in 1 .. Len(labels) \/ i = Len(labels) + 1
    BY <1>1, <2>2
  <2>5. \A i \in 1 .. Len(labels) : i \in 1 .. Len(Append(labels, new))
    BY <1>1, <2>2
  <2>6. \A i \in 1 .. Len(Append(labels, new)) :
          /\ Append(labels, new)[i].definition = Meaning(Append(labels, new)[i].name)
          /\ Append(labels, new)[i].definition \in (0 .. Len(code)) \cup { Undefined }
    BY <1>1, <2>2, <2>3, <2>4 DEF Meant
  <2> QED BY <1>2, <1>4, <2>2, <2>5, <2>6
<1> QED BY <1>2, <1>3, <1>4

LEMMA AddConstantKeeps == ASSUME AssemblerInv, AddConstant PROVE AssemblerInv'
<1> DEFINE id == IF head = "procedure" THEN Get(labels, label).id ELSE 0
           new == [kind |-> head, args |-> args, label_id |-> id,
                   definition |-> IF head = "procedure" THEN Undefined ELSE 0]
<1>1. /\ phase = "constants" /\ head # None /\ todo = << >>
      /\ constants' = Append(constants, new)
      /\ labels' = IF head = "procedure" THEN Get(labels, label).pool ELSE labels
      /\ found' = (found + 1) % (Max16 + 1)
      /\ used' = Append(used, label)
      /\ head = "procedure" => label # NoLabel
      /\ Idle
      /\ UNCHANGED << phase, program, code, error, result, istream, begun, defined >>
  BY DEF AddConstant
<1>2. /\ code = << >> /\ result = "none" /\ head \in ConstantKinds /\ Pending = 1
      /\ head = "procedure" => label \in Names
      /\ head # "procedure" => label = NoLabel
  BY <1>1 DEF AssemblerInv, Types, LabelUses, Reading, Counted, Returned, Pending
<1>3. /\ Len(constants) \in Nat /\ Len(code) \in Nat /\ Len(defined) \in Nat
      /\ Len(labels) \in Nat
  BY ItemsInBounds
<1>4. /\ labels' \in Seq(LabelRecords) /\ Distinct(labels)'
      /\ \A i \in 1 .. Len(labels) : i \in 1 .. Len(labels') /\ labels'[i] = labels[i]
      /\ \A i \in 1 .. Len(labels') :
           /\ labels'[i].definition = Meaning(labels'[i].name)
           /\ labels'[i].definition \in (0 .. Len(code)) \cup { Undefined }
      /\ head = "procedure" =>
           id \in 1 .. Len(labels') /\ Fold[labels'[id].name] = Fold[label]
  <2>1. CASE head = "procedure"
    BY <1>1, <1>2, <2>1, GetKeeps DEF Distinct, Same
  <2>2. CASE head # "procedure"
    BY <1>1, <2>2 DEF AssemblerInv, Types, Labelled, Meant, Distinct, Same
  <2> QED BY <2>1, <2>2
<1>5. new \in Descriptors
  <2>1. id \in Nat
    <3>1. Len(labels') \in Nat
      BY <1>4, EmptySeq
    <3> QED BY <1>4, <3>1
  <2> HIDE DEF id
  <2> QED BY <1>2, <2>1, HalfWord DEF Descriptors, AssemblerInv, Types
<1> HIDE DEF id
<1>6. /\ constants' \in Seq(Descriptors) /\ Len(constants') = Len(constants) + 1
      /\ \A i \in 1 .. Len(constants) : constants'[i] = constants[i]
      /\ constants'[Len(constants) + 1] = new
  BY <1>1, <1>5, AppendProperties DEF AssemblerInv, Types
<1>7. /\ used' \in Seq(LabelUses) /\ Len(used') = Len(used) + 1
      /\ \A i \in 1 .. Len(used) : used'[i] = used[i]
      /\ used'[Len(used) + 1] = label
  BY <1>1, AppendProperties DEF AssemblerInv, Types
<1>8. Len(used) = Len(constants)
  BY DEF AssemblerInv, Labelled
<1>9. Labelled'
  <2>1. ASSUME NEW i \in 1 .. Len(constants')
        PROVE  IF constants'[i].kind = "procedure"
               THEN /\ used'[i] \in Names
                    /\ constants'[i].label_id \in 1 .. Len(labels')
                    /\ Fold[labels'[constants'[i].label_id].name] = Fold[used'[i]]
               ELSE used'[i] = NoLabel /\ constants'[i].label_id = 0
    <3>1. CASE i = Len(constants) + 1
      <4>1. constants'[i] = new /\ used'[i] = label
        BY <1>6, <1>7, <1>8, <3>1
      <4>2. constants'[i].kind = head /\ constants'[i].label_id = id
        BY <4>1
      <4>3. head # "procedure" => id = 0
        BY DEF id
      <4> QED BY <1>2, <1>4, <4>1, <4>2, <4>3
    <3>2. CASE i # Len(constants) + 1
      <4>1. i \in 1 .. Len(constants)
        BY <1>3, <1>6, <3>2
      <4>2. constants'[i] = constants[i] /\ used'[i] = used[i]
        BY <1>6, <1>7, <1>8, <4>1
      <4> QED BY <1>4, <4>1, <4>2 DEF AssemblerInv, Labelled, Numbered, Same
    <3> QED BY <3>1, <3>2
  <2>2. Len(used') = Len(constants')
    BY <1>6, <1>7, <1>8
  <2>3. Len(code') = 0
    BY <1>1, <1>2
  <2> QED BY <1>4, <2>1, <2>2, <2>3 DEF Labelled, Numbered, Same
<1>10. Meant'
  <2>1. \A name : Definitions(name)' = Definitions(name)
    BY <1>1 DEF Definitions
  <2>2. HasLast'
    BY <2>1 DEF AssemblerInv, Meant, HasLast
  <2>3. \A name : Meaning(name)' = Meaning(name)
    BY <1>1 DEF Meaning, Definitions
  <2>4. \A i \in 1 .. Len(defined) : Places(labels, defined[i].name)' # { }
    <3>1. ASSUME NEW i \in 1 .. Len(defined)
          PROVE  Places(labels, defined[i].name)' # { }
      <4>1. PICK j \in 1 .. Len(labels) : Same(labels[j].name, defined[i].name)
        BY DEF AssemblerInv, Meant, Places
      <4>2. j \in 1 .. Len(labels') /\ labels'[j] = labels[j] /\ defined' = defined
        BY <1>1, <1>4
      <4> QED BY <4>1, <4>2 DEF Places, Same
    <3> QED BY <3>1
  <2> QED BY <1>1, <1>4, <2>2, <2>3, <2>4 DEF Meant
<1>11. Types'
  <2>1. found' \in 0 .. Max16
    <3>1. found \in Nat /\ Max16 \in Nat
      BY HalfWord DEF AssemblerInv, Types
    <3>2. (found + 1) % (Max16 + 1) \in 0 .. (Max16 + 1) - 1
      BY <3>1, ModuloBounds
    <3> QED BY <1>1, <3>1, <3>2
  <2> QED BY <1>1, <1>4, <1>6, <1>7, <2>1 DEF AssemblerInv, Types, Idle, LabelUses
<1>12. Reading' /\ Returned' /\ Freed'
  <2>1. Reading'
    BY <1>1 DEF Reading, Idle, None, HeaderPhases, HeaderOperands
  <2>2. Returned' /\ Freed'
    BY <1>1 DEF AssemblerInv, Returned, Freed
  <2> QED BY <2>1, <2>2
<1>13. Counted'
  <2>1. Pending' = 0
    BY <1>1 DEF Pending, Idle
  <2>2. found' <= Len(constants) + 1
    <3>1. found \in Nat /\ Max16 \in Nat /\ found <= Len(constants) /\ found <= Max16
      BY HalfWord DEF AssemblerInv, Types, Counted
    <3>2. CASE found = Max16
      <4>1. (found + 1) % (Max16 + 1) = 0
        BY <3>1, <3>2
      <4> QED BY <1>1, <1>3, <4>1
    <3>3. CASE found # Max16
      <4>1. (found + 1) % (Max16 + 1) = found + 1
        BY <3>1, <3>3, SmallModulo
      <4> QED BY <1>1, <1>3, <3>1, <4>1
    <3> QED BY <3>2, <3>3
  <2> QED BY <1>1, <1>2, <1>3, <1>6, <2>1, <2>2, HalfWord DEF AssemblerInv, Counted
<1> QED BY <1>1, <1>2, <1>9, <1>10, <1>11, <1>12, <1>13
        DEF AssemblerInv, LabelsResolve, AcceptedIsWhole

LEMMA AddInstructionKeeps == ASSUME AssemblerInv, AddInstruction PROVE AssemblerInv'
<1> DEFINE id == IF label = NoLabel THEN 0 ELSE Get(labels, label).id
           new == [opcode |-> head, args |-> args, label |-> label, label_id |-> id,
                   definition |-> 0, offset |-> 0,
                   freed |-> IF label = NoLabel THEN 0 ELSE 1]
<1>1. /\ phase = "code" /\ head # None /\ todo = << >>
      /\ code' = Append(code, new)
      /\ labels' = IF label = NoLabel THEN labels ELSE Get(labels, label).pool
      /\ Idle
      /\ UNCHANGED << phase, program, constants, found, error, result, istream, begun,
                      defined, used >>
  BY DEF AddInstruction
<1>2. /\ result = "none" /\ head \in Opcodes /\ Pending = 1
      /\ label \in Names \cup { NoLabel } /\ args \in Seq(Numbers)
  BY <1>1 DEF AssemblerInv, Reading, Returned, Pending, Types, LabelUses
<1>3. /\ Len(constants) \in Nat /\ Len(code) \in Nat /\ Len(defined) \in Nat
      /\ Len(labels) \in Nat
  BY ItemsInBounds
<1>4. /\ labels' \in Seq(LabelRecords) /\ Distinct(labels)'
      /\ \A i \in 1 .. Len(labels) : i \in 1 .. Len(labels') /\ labels'[i] = labels[i]
      /\ \A i \in 1 .. Len(labels') :
           /\ labels'[i].definition = Meaning(labels'[i].name)
           /\ labels'[i].definition \in (0 .. Len(code)) \cup { Undefined }
      /\ label # NoLabel =>
           id \in 1 .. Len(labels') /\ Fold[labels'[id].name] = Fold[label]
  <2>1. CASE label # NoLabel
    BY <1>1, <1>2, <2>1, GetKeeps DEF Distinct, Same
  <2>2. CASE label = NoLabel
    BY <1>1, <2>2 DEF AssemblerInv, Types, Labelled, Meant, Distinct, Same
  <2> QED BY <2>1, <2>2
<1>5. new \in Instructions
  <2>1. id \in Nat
    <3>1. Len(labels') \in Nat
      BY <1>4, EmptySeq
    <3> QED BY <1>4, <3>1
  <2> HIDE DEF id
  <2> QED BY <1>2, <2>1, HalfWord DEF Instructions
<1>6. label = NoLabel => id = 0
  OBVIOUS
<1> HIDE DEF id
<1>7. /\ code' \in Seq(Instructions) /\ Len(code') = Len(code) + 1
      /\ \A i \in 1 .. Len(code) : code'[i] = code[i]
      /\ code'[Len(code) + 1] = new
  BY <1>1, <1>5, AppendProperties DEF AssemblerInv, Types
<1>8. \A i \in 1 .. Len(code') : i \in 1 .. Len(code) \/ i = Len(code) + 1
  BY <1>3, <1>7
<1>9. Labelled'
  <2>1. ASSUME NEW i \in 1 .. Len(code')
        PROVE  IF code'[i].label = NoLabel THEN code'[i].label_id = 0
               ELSE /\ code'[i].label_id \in 1 .. Len(labels')
                    /\ Fold[labels'[code'[i].label_id].name] = Fold[code'[i].label]
    <3>1. CASE i = Len(code) + 1
      <4>1. code'[i].label = label /\ code'[i].label_id = id
        BY <1>7, <3>1
      <4> QED BY <1>4, <1>6, <4>1
    <3>2. CASE i \in 1 .. Len(code)
      BY <1>4, <1>7, <3>2 DEF AssemblerInv, Labelled, Numbered, Same
    <3> QED BY <1>8, <3>1, <3>2
  <2>2. ASSUME NEW i \in 1 .. Len(constants)
        PROVE  IF constants[i].kind = "procedure"
               THEN /\ used[i] \in Names
                    /\ constants[i].label_id \in 1 .. Len(labels')
                    /\ Fold[labels'[constants[i].label_id].name] = Fold[used[i]]
               ELSE used[i] = NoLabel /\ constants[i].label_id = 0
    BY <1>4 DEF AssemblerInv, Labelled, Numbered, Same
  <2>3. Len(used) = Len(constants)
    BY DEF AssemblerInv, Labelled
  <2> QED BY <1>1, <1>4, <2>1, <2>2, <2>3 DEF Labelled, Numbered, Same
<1>10. Meant'
  <2>1. \A name : Definitions(name)' = Definitions(name)
    BY <1>1 DEF Definitions
  <2>2. HasLast'
    BY <2>1 DEF AssemblerInv, Meant, HasLast
  <2>3. \A name : Meaning(name)' = Meaning(name)
    BY <1>1 DEF Meaning, Definitions
  <2>4. \A i \in 1 .. Len(defined) : Places(labels, defined[i].name)' # { }
    <3>1. ASSUME NEW i \in 1 .. Len(defined)
          PROVE  Places(labels, defined[i].name)' # { }
      <4>1. PICK j \in 1 .. Len(labels) : Same(labels[j].name, defined[i].name)
        BY DEF AssemblerInv, Meant, Places
      <4>2. j \in 1 .. Len(labels') /\ labels'[j] = labels[j] /\ defined' = defined
        BY <1>1, <1>4
      <4> QED BY <4>1, <4>2 DEF Places, Same
    <3> QED BY <3>1
  <2>5. \A i \in 1 .. Len(labels') :
          /\ labels'[i].definition = Meaning(labels'[i].name)
          /\ labels'[i].definition \in (0 .. Len(code')) \cup { Undefined }
    BY <1>3, <1>4, <1>7
  <2> QED BY <1>1, <2>2, <2>3, <2>4, <2>5 DEF Meant
<1>11. Types'
  BY <1>1, <1>4, <1>7 DEF AssemblerInv, Types, Idle, LabelUses
<1>12. Reading' /\ Returned'
  <2>1. Reading'
    BY <1>1 DEF Reading, Idle, None, HeaderPhases, HeaderOperands
  <2>2. Returned'
    BY <1>1 DEF AssemblerInv, Returned
  <2> QED BY <2>1, <2>2
<1>13. Freed'
  <2>1. ASSUME NEW i \in 1 .. Len(code')
        PROVE  code'[i].freed = IF code'[i].label = NoLabel THEN 0 ELSE 1
    BY <1>7, <1>8 DEF AssemblerInv, Freed
  <2> QED BY <2>1 DEF Freed
<1>14. Counted'
  <2>1. Pending' = 0
    BY <1>1 DEF Pending, Idle
  <2> QED BY <1>1, <1>2, <1>3, <1>7, <2>1, HalfWord DEF AssemblerInv, Counted
<1> QED BY <1>1, <1>2, <1>9, <1>10, <1>11, <1>12, <1>13, <1>14
        DEF AssemblerInv, LabelsResolve, AcceptedIsWhole

LEMMA DefineLabelKeeps == ASSUME AssemblerInv, DefineLabel PROVE AssemblerInv'
<1>1. PICK name \in Names : DefineLabel!(name)
  BY DEF DefineLabel
<1> DEFINE pool == Get(labels, name).pool
           id == Get(labels, name).id
<1>2. /\ phase = "code" /\ head = None /\ Items < MaxItems
      /\ labels' = [pool EXCEPT ![id].definition = Len(code)]
      /\ error' = << >>
      /\ defined' = Append(defined, [name |-> name, place |-> Len(code)])
      /\ UNCHANGED << phase, head, todo, args, label, program, constants, found, code,
                      result, istream, begun, used >>
  BY <1>1 DEF Define
<1>3. /\ Len(constants) \in Nat /\ Len(code) \in Nat /\ Len(defined) \in Nat
      /\ Len(labels) \in Nat /\ Len(code) <= MaxItems
  BY ItemsInBounds
<1>4. /\ pool \in Seq(LabelRecords) /\ Distinct(pool)
      /\ id \in 1 .. Len(pool) /\ Fold[pool[id].name] = Fold[name]
      /\ \A i \in 1 .. Len(labels) : i \in 1 .. Len(pool) /\ pool[i] = labels[i]
      /\ \A i \in 1 .. Len(pool) :
           /\ pool[i].definition = Meaning(pool[i].name)
           /\ pool[i].definition \in (0 .. Len(code)) \cup { Undefined }
  BY GetKeeps DEF Same
<1> HIDE DEF pool, id
<1>5. \A i \in 1 .. Len(pool) : pool[i] \in LabelRecords
  BY <1>4, ElementOfSeq
<1>6. /\ labels' \in Seq(LabelRecords) /\ Len(labels') = Len(pool)
      /\ \A i \in 1 .. Len(pool) :
           /\ labels'[i].name = pool[i].name
           /\ labels'[i].definition = IF i = id THEN Len(code) ELSE pool[i].definition
  <2> DEFINE record == [pool[id] EXCEPT !.definition = Len(code)]
  <2>1. Len(code) \in 0 .. Undefined
    BY <1>3, HalfWord
  <2>2. record \in LabelRecords /\ record.name = pool[id].name /\ record.definition = Len(code)
    BY <1>4, <1>5, <2>1 DEF LabelRecords
  <2>3. labels' = [pool EXCEPT ![id] = record]
    BY <1>2
  <2> HIDE DEF record
  <2> QED BY <1>4, <2>2, <2>3, ExceptSeq
<1>7. /\ defined' \in Seq(DefinitionRecords) /\ Len(defined') = Len(defined) + 1
      /\ \A i \in 1 .. Len(defined) : defined'[i] = defined[i]
      /\ defined'[Len(defined) + 1] = [name |-> name, place |-> Len(code)]
  <2>1. [name |-> name, place |-> Len(code)] \in DefinitionRecords
    BY <1>3 DEF DefinitionRecords
  <2> QED BY <1>2, <2>1, AppendProperties DEF AssemblerInv, Types
<1>8. /\ HasLast'
      /\ \A other \in Names :
           Meaning(other)' = IF Same(other, name) THEN Len(code) ELSE Meaning(other)
  BY <1>2, <1>3, MeaningAfter DEF AssemblerInv, Types, Meant
<1>9. Labelled'
  <2>1. Distinct(labels)'
    BY <1>4, <1>6 DEF Distinct, Same
  <2>2. ASSUME NEW i \in 1 .. Len(code)
        PROVE  IF code[i].label = NoLabel THEN code[i].label_id = 0
               ELSE /\ code[i].label_id \in 1 .. Len(labels')
                    /\ Fold[labels'[code[i].label_id].name] = Fold[code[i].label]
    <3>1. IF code[i].label = NoLabel THEN code[i].label_id = 0
          ELSE /\ code[i].label_id \in 1 .. Len(labels)
               /\ Fold[labels[code[i].label_id].name] = Fold[code[i].label]
      BY DEF AssemblerInv, Labelled, Numbered, Same
    <3>2. \A j \in 1 .. Len(labels) : j \in 1 .. Len(labels') /\ labels'[j].name = labels[j].name
      BY <1>4, <1>6
    <3> QED BY <3>1, <3>2
  <2>3. ASSUME NEW i \in 1 .. Len(constants)
        PROVE  IF constants[i].kind = "procedure"
               THEN /\ used[i] \in Names
                    /\ constants[i].label_id \in 1 .. Len(labels')
                    /\ Fold[labels'[constants[i].label_id].name] = Fold[used[i]]
               ELSE used[i] = NoLabel /\ constants[i].label_id = 0
    BY <1>4, <1>6 DEF AssemblerInv, Labelled, Numbered, Same
  <2>4. Len(used) = Len(constants)
    BY DEF AssemblerInv, Labelled
  <2> QED BY <1>2, <2>1, <2>2, <2>3, <2>4 DEF Labelled, Numbered, Same
<1>10. Meant'
  <2>1. ASSUME NEW i \in 1 .. Len(labels')
        PROVE  /\ labels'[i].definition = Meaning(labels[i].name)'
               /\ labels'[i].definition \in (0 .. Len(code)) \cup { Undefined }
    <3>1. i \in 1 .. Len(pool) /\ labels'[i].name = pool[i].name /\ pool[i].name \in Names
      BY <1>5, <1>6 DEF LabelRecords
    <3>2. PICK other \in Names : other = pool[i].name
      BY <3>1
    <3>3. i = id <=> Same(other, name)
      BY <1>4, <3>1, <3>2 DEF Distinct, Same
    <3>4. Meaning(other)' = IF Same(other, name) THEN Len(code) ELSE Meaning(other)
      BY <1>8
    <3>5. Meaning(labels[i].name)' = Meaning(other)'
      BY <3>1, <3>2 DEF Meaning, Definitions
    <3>6. pool[i].definition = Meaning(other)
      BY <1>4, <3>1, <3>2
    <3>7. labels'[i].definition = Meaning(labels[i].name)'
      BY <1>6, <3>1, <3>3, <3>4, <3>5, <3>6
    <3>8. labels'[i].definition \in (0 .. Len(code)) \cup { Undefined }
      BY <1>3, <1>4, <1>6, <3>1
    <3> QED BY <3>7, <3>8
  <2>2. ASSUME NEW i \in 1 .. Len(defined')
        PROVE  Places(labels, defined[i].name)' # { }
    <3>1. CASE i = Len(defined) + 1
      <4>1. id \in 1 .. Len(labels') /\ Fold[labels'[id].name] = Fold[defined'[i].name]
        BY <1>4, <1>6, <1>7, <3>1
      <4> QED BY <4>1 DEF Places, Same
    <3>2. CASE i # Len(defined) + 1
      <4>1. i \in 1 .. Len(defined) /\ defined'[i] = defined[i]
        BY <1>3, <1>7, <3>2
      <4>2. PICK j \in 1 .. Len(labels) : Same(labels[j].name, defined[i].name)
        BY <4>1 DEF AssemblerInv, Meant, Places
      <4>3. j \in 1 .. Len(labels') /\ labels'[j].name = labels[j].name
        BY <1>4, <1>6, <4>2
      <4> QED BY <4>1, <4>2, <4>3 DEF Places, Same
    <3> QED BY <3>1, <3>2
  <2> QED BY <1>2, <1>8, <2>1, <2>2 DEF Meant
<1>11. Types'
  BY <1>2, <1>6, <1>7 DEF AssemblerInv, Types, NErrors
<1>12. result = "none" /\ Reading' /\ Returned' /\ Freed'
  <2>1. result = "none"
    BY <1>2 DEF AssemblerInv, Returned
  <2>2. Reading'
    BY <1>2 DEF AssemblerInv, Reading
  <2>3. Returned' /\ Freed'
    BY <1>2 DEF AssemblerInv, Returned, Freed
  <2> QED BY <2>1, <2>2, <2>3
<1>13. Counted'
  <2>1. Pending' = 0 /\ Pending = 0
    BY <1>2 DEF Pending
  <2> QED BY <1>2, <1>3, <1>7, <2>1, HalfWord DEF AssemblerInv, Counted, Items
<1> QED BY <1>2, <1>9, <1>10, <1>11, <1>12, <1>13
        DEF AssemblerInv, LabelsResolve, AcceptedIsWhole

-----------------------------------------------------------------------------
LEMMA NextKeeps == AssemblerInv /\ [Next]_vars => AssemblerInv'
<1> SUFFICES ASSUME AssemblerInv, [Next]_vars PROVE AssemblerInv'
  OBVIOUS
<1>1. CASE WrongElement
  <2>1. phase = "code" /\ Fail("UnexpectedToken")
    BY <1>1 DEF WrongElement
  <2> QED BY <2>1, FailKeeps DEF Problems
<1>2. CASE UNCHANGED vars
  <2>1. Labelled' /\ Meant' /\ Freed'
    BY <1>2, TablesKeep DEF vars
  <2>2. Types' /\ Reading' /\ Counted' /\ Returned'
    BY <1>2 DEF vars, AssemblerInv, Types, Reading, Counted, Pending, Returned
  <2>3. \A name : Meaning(name)' = Meaning(name)
    BY <1>2 DEF vars, Meaning, Definitions
  <2>4. LabelsResolve' /\ AcceptedIsWhole'
    BY <1>2, <2>3 DEF vars, AssemblerInv, LabelsResolve, AcceptedIsWhole
  <2> QED BY <2>1, <2>2, <2>4 DEF AssemblerInv
<1>3. CASE LabelWithoutMemory
  <2>1. phase \in { "constants", "code" } /\ Fail("BadAllocation")
    BY <1>3 DEF LabelWithoutMemory
  <2> QED BY <2>1, FailKeeps DEF Problems
<1> QED BY <1>1, <1>2, <1>3, CallKeeps, ConsumeKeeps, HeaderKeeps, KeywordKeeps, BeginKeeps,
           AddConstantKeeps, AddInstructionKeeps, DefineLabelKeeps DEF Next

LEMMA InvariantHolds == Spec => []AssemblerInv
BY InitEstablishes, NextKeeps, PTL DEF Spec

-----------------------------------------------------------------------------
(* The numbers that instructions and procedures have for their labels are   *)
(* the label manager's, and every field has the width of the code's.        *)
THEOREM AssemblerIsTyped == Spec => []TypeOK
<1>1. AssemblerInv => TypeOK
  <2> SUFFICES ASSUME AssemblerInv PROVE TypeOK
    OBVIOUS
  <2>1. Types /\ Labelled
    BY DEF AssemblerInv
  <2>2. \A i \in 1 .. Len(labels) :
          labels[i].name \in Names /\ labels[i].definition \in 0 .. Undefined
    <3>1. \A i \in 1 .. Len(labels) : labels[i] \in LabelRecords
      BY <2>1, ElementOfSeq DEF Types
    <3> QED BY <3>1 DEF LabelRecords
  <2> QED BY <2>1, <2>2 DEF Types, Labelled, Numbered, LabelUses, TypeOK
<1> QED BY <1>1, InvariantHolds, PTL

(* update_instruction_labels and update_constant_labels give every use of a *)
(* label what it means in the text, whatever the order of uses and          *)
(* definitions and the case of the names.                                   *)
THEOREM AssemblerResolvesLabels == Spec => []LabelsResolve
<1>1. AssemblerInv => LabelsResolve
  BY DEF AssemblerInv
<1> QED BY <1>1, InvariantHolds, PTL

(* ni_asm_read_from_istream returns a program without an error only if it   *)
(* holds all that was begun, and its entry point is one of its constants.   *)
THEOREM AssemblerAcceptsWholeTexts == Spec => []AcceptedIsWhole
<1>1. AssemblerInv => AcceptedIsWhole
  BY DEF AssemblerInv
<1> QED BY <1>1, InvariantHolds, PTL

(* ni_asm_instruction_destruct and the cleanup never free one name twice.   *)
THEOREM AssemblerFreesLabelsOnce == Spec => []LabelsFreedOnce
<1>1. AssemblerInv => LabelsFreedOnce
  BY DEF AssemblerInv, Freed, LabelsFreedOnce
<1> QED BY <1>1, InvariantHolds, PTL
=============================================================================
