-------------------------- MODULE CallFramesProofs --------------------------
(***************************************************************************)
(* Theorems about CallFrames, for all programs, procedures and sizes of    *)
(* the stack.  The evaluator checks nothing of the code it runs: what is   *)
(* proved first is proved of code that is well formed (CodeWellFormed) as  *)
(* long as it is executed, and then that code which passes a check made    *)
(* before it runs (CheckedCode) is well formed that long.  First come the  *)
(* words the code is stored in: what is decoded is what was encoded.       *)
(***************************************************************************)
EXTENDS CheckedCode, SequenceTheorems, WellFoundedInduction,
        TLAPS

-----------------------------------------------------------------------------
(* The words of instructions.                                              *)

LEMMA SplitPacks ==
  ASSUME NEW whole \in Int
  PROVE  Pack(Upper(whole), Lower(whole)) = whole
BY SMT DEF Pack, Upper, Lower

LEMMA ShortRange ==
  ASSUME NEW whole \in Short
  PROVE  whole \in Int
BY SMT DEF Short

LEMMA Int16Range ==
  ASSUME NEW offset \in Int16
  PROVE  offset \in Int /\ -32768 <= offset /\ offset <= 32767
BY SMT DEF Int16

LEMMA Int24Range ==
  ASSUME NEW offset \in Int24
  PROVE  offset \in Int /\ -8388608 <= offset /\ offset <= 8388607
BY SMT DEF Int24

LEMMA WrapIsInt16 ==
  ASSUME NEW offset \in Int, -32768 <= offset, offset <= 32767
  PROVE  offset % 65536 \in Int /\ AsInt16(offset % 65536) = offset
BY SMT DEF AsInt16

LEMMA ClampedRange ==
  ASSUME NEW offset \in Int
  PROVE  Clamped(offset) \in Int /\ -8388608 <= Clamped(offset) /\ Clamped(offset) <= 8388607
BY SMT DEF Clamped

LEMMA WrapIsInt24 ==
  ASSUME NEW offset \in Int, -8388608 <= offset, offset <= 8388607
  PROVE  /\ offset % 16777216 \in Int
         /\ 0 <= offset % 16777216 /\ offset % 16777216 < 16777216
         /\ (IF offset % 16777216 >= 8388608
             THEN (offset % 16777216) - 16777216 ELSE offset % 16777216) = offset
BY SMT

LEMMA ThreeBytes ==
  ASSUME NEW bits \in Int
  PROVE  (bits \div 65536) * 65536 + ((bits \div 256) % 256) * 256 + (bits % 256) = bits
BY SMT

(* n_op_jump and n_decode_jump together are the clamping: an offset of 24   *)
(* bits with a sign comes back, any other becomes the nearest of those.     *)
THEOREM JumpClamps ==
  ASSUME NEW offset \in Int
  PROVE  DecodeJump(EncodeJump(offset)) = [ op |-> "jump", offset |-> Clamped(offset) ]
<1> DEFINE bits == Clamped(offset) % 16777216
<1>1. /\ bits \in Int
      /\ (IF bits >= 8388608 THEN bits - 16777216 ELSE bits) = Clamped(offset)
  BY ClampedRange, WrapIsInt24, SMT
<1>2. EncodeJump(offset)
        = << 7, bits \div 65536, (bits \div 256) % 256, bits % 256 >>
  BY SMT DEF EncodeJump, Word, N_OP
<1> HIDE DEF bits
<1>3. DecodeJump(<< 7, bits \div 65536, (bits \div 256) % 256, bits % 256 >>)
        = [ op |-> "jump", offset |-> IF bits >= 8388608 THEN bits - 16777216 ELSE bits ]
  BY <1>1, ThreeBytes, SMT DEF DecodeJump
<1> QED BY <1>1, <1>2, <1>3, SMT

(* Every instruction whose operands the fields can hold is executed as it   *)
(* was written, negative and large jumps and register numbers included.     *)
THEOREM DecodeUndoesEncode ==
  ASSUME NEW i \in Instructions
  PROVE  Decode(Encode(i)) = i
<1>1. CASE i \in [ op : { "bundle_close" }, bundle : Byte ]
  <2>1. i.op = "bundle_close" /\ i = [ op |-> "bundle_close", bundle |-> i.bundle ]
    BY <1>1, SMT
  <2>2. Encode(i) = << 0, i.bundle, 0, 0 >>
    BY <2>1, SMT DEF Encode, Word, N_OP
  <2>3. Decode(<< 0, i.bundle, 0, 0 >>)
          = [ op |-> "bundle_close", bundle |-> i.bundle ]
    BY SMT DEF Decode, N_OP
  <2> QED BY <2>1, <2>2, <2>3
<1>2. CASE i \in [ op : { "bundle_get" }, dest : Byte, bundle : Byte, symbol : Byte ]
  <2>1. i.op = "bundle_get" /\ i = [ op |-> "bundle_get", dest |-> i.dest, bundle |-> i.bundle, symbol |-> i.symbol ]
    BY <1>2, SMT
  <2>2. Encode(i) = << 1, i.dest, i.bundle, i.symbol >>
    BY <2>1, SMT DEF Encode, Word, N_OP
  <2>3. Decode(<< 1, i.dest, i.bundle, i.symbol >>)
          = [ op |-> "bundle_get", dest |-> i.dest, bundle |-> i.bundle, symbol |-> i.symbol ]
    BY SMT DEF Decode, N_OP
  <2> QED BY <2>1, <2>2, <2>3
<1>3. CASE i \in [ op : { "bundle_set" }, bundle : Byte, symbol : Byte, value : Byte ]
  <2>1. i.op = "bundle_set" /\ i = [ op |-> "bundle_set", bundle |-> i.bundle, symbol |-> i.symbol, value |-> i.value ]
    BY <1>3, SMT
  <2>2. Encode(i) = << 2, i.bundle, i.symbol, i.value >>
    BY <2>1, SMT DEF Encode, Word, N_OP
  <2>3. Decode(<< 2, i.bundle, i.symbol, i.value >>)
          = [ op |-> "bundle_set", bundle |-> i.bundle, symbol |-> i.symbol, value |-> i.value ]
    BY SMT DEF Decode, N_OP
  <2> QED BY <2>1, <2>2, <2>3
<1>4. CASE i \in [ op : { "call" }, dest : Byte, func : Byte, nargs : Byte ]
  <2>1. i.op = "call" /\ i = [ op |-> "call", dest |-> i.dest, func |-> i.func, nargs |-> i.nargs ]
    BY <1>4, SMT
  <2>2. Encode(i) = << 3, i.dest, i.func, i.nargs >>
    BY <2>1, SMT DEF Encode, Word, N_OP
  <2>3. Decode(<< 3, i.dest, i.func, i.nargs >>)
          = [ op |-> "call", dest |-> i.dest, func |-> i.func, nargs |-> i.nargs ]
    BY SMT DEF Decode, N_OP
  <2> QED BY <2>1, <2>2, <2>3
<1>5. CASE i \in [ op : { "call_sva" }, dest : Byte, func : Byte, arg : Byte ]
  <2>1. i.op = "call_sva" /\ i = [ op |-> "call_sva", dest |-> i.dest, func |-> i.func, arg |-> i.arg ]
    BY <1>5, SMT
  <2>2. Encode(i) = << 4, i.dest, i.func, i.arg >>
    BY <2>1, SMT DEF Encode, Word, N_OP
  <2>3. Decode(<< 4, i.dest, i.func, i.arg >>)
          = [ op |-> "call_sva", dest |-> i.dest, func |-> i.func, arg |-> i.arg ]
    BY SMT DEF Decode, N_OP
  <2> QED BY <2>1, <2>2, <2>3
<1>6. CASE i \in [ op : { "global_ref" }, dest : Byte, source : Short ]
  <2>1. i.op = "global_ref" /\ i = [ op |-> "global_ref", dest |-> i.dest, source |-> i.source ]
    BY <1>6, SMT
  <2>2. Encode(i) = << 5, i.dest, Upper(i.source), Lower(i.source) >>
    BY <2>1, SMT DEF Encode, Word, N_OP
  <2>3. Pack(Upper(i.source), Lower(i.source)) = i.source
    BY <1>6, ShortRange, SplitPacks
  <2>4. Decode(<< 5, i.dest, Upper(i.source), Lower(i.source) >>)
          = [ op |-> "global_ref", dest |-> i.dest, source |-> i.source ]
    BY <2>3, SMT DEF Decode, N_OP
  <2> QED BY <2>1, <2>2, <2>4
<1>7. CASE i \in [ op : { "global_set" }, dest : Short, source : Byte ]
  <2>1. i.op = "global_set" /\ i = [ op |-> "global_set", dest |-> i.dest, source |-> i.source ]
    BY <1>7, SMT
  <2>2. Encode(i) = << 6, Upper(i.dest), Lower(i.dest), i.source >>
    BY <2>1, SMT DEF Encode, Word, N_OP
  <2>3. Pack(Upper(i.dest), Lower(i.dest)) = i.dest
    BY <1>7, ShortRange, SplitPacks
  <2>4. Decode(<< 6, Upper(i.dest), Lower(i.dest), i.source >>)
          = [ op |-> "global_set", dest |-> i.dest, source |-> i.source ]
    BY <2>3, SMT DEF Decode, N_OP
  <2> QED BY <2>1, <2>2, <2>4
<1>8. CASE i \in [ op : { "jump" }, offset : Int24 ]
  <2>1. /\ i.op = "jump"
        /\ i = [ op |-> "jump", offset |-> i.offset ]
        /\ i.offset \in Int24
    BY <1>8, SMT
  <2>2. Clamped(i.offset) = i.offset /\ i.offset \in Int
    BY <2>1, Int24Range, SMT DEF Clamped
  <2>3. DecodeJump(EncodeJump(i.offset)) = i
    BY <2>1, <2>2, JumpClamps
  <2>4. Encode(i) = EncodeJump(i.offset)
    BY <2>1, SMT DEF Encode
  <2>5. EncodeJump(i.offset)[1] = 7
    BY SMT DEF EncodeJump, Word, N_OP
  <2>6. Decode(EncodeJump(i.offset)) = DecodeJump(EncodeJump(i.offset))
    BY <2>5, SMT DEF Decode, N_OP
  <2> QED BY <2>3, <2>4, <2>6
<1>9. CASE i \in [ op : { "jump_if" }, cond : Byte, offset : Int16 ]
  <2>1. i.op = "jump_if" /\ i = [ op |-> "jump_if", cond |-> i.cond, offset |-> i.offset ]
    BY <1>9, SMT
  <2>2. Encode(i) = << 8, i.cond, Upper(i.offset % 65536), Lower(i.offset % 65536) >>
    BY <2>1, SMT DEF Encode, Word, N_OP
  <2>3. AsInt16(Pack(Upper(i.offset % 65536), Lower(i.offset % 65536))) = i.offset
    BY <1>9, Int16Range, WrapIsInt16, SplitPacks
  <2>4. Decode(<< 8, i.cond, Upper(i.offset % 65536), Lower(i.offset % 65536) >>)
          = [ op |-> "jump_if", cond |-> i.cond, offset |-> i.offset ]
    BY <2>3, SMT DEF Decode, N_OP
  <2> QED BY <2>1, <2>2, <2>4
<1>10. CASE i \in [ op : { "jump_unless" }, cond : Byte, offset : Int16 ]
  <2>1. i.op = "jump_unless" /\ i = [ op |-> "jump_unless", cond |-> i.cond, offset |-> i.offset ]
    BY <1>10, SMT
  <2>2. Encode(i) = << 9, i.cond, Upper(i.offset % 65536), Lower(i.offset % 65536) >>
    BY <2>1, SMT DEF Encode, Word, N_OP
  <2>3. AsInt16(Pack(Upper(i.offset % 65536), Lower(i.offset % 65536))) = i.offset
    BY <1>10, Int16Range, WrapIsInt16, SplitPacks
  <2>4. Decode(<< 9, i.cond, Upper(i.offset % 65536), Lower(i.offset % 65536) >>)
          = [ op |-> "jump_unless", cond |-> i.cond, offset |-> i.offset ]
    BY <2>3, SMT DEF Decode, N_OP
  <2> QED BY <2>1, <2>2, <2>4
<1>11. CASE i \in [ op : { "load" }, dest : Byte, string : Byte ]
  <2>1. i.op = "load" /\ i = [ op |-> "load", dest |-> i.dest, string |-> i.string ]
    BY <1>11, SMT
  <2>2. Encode(i) = << 10, i.dest, i.string, 0 >>
    BY <2>1, SMT DEF Encode, Word, N_OP
  <2>3. Decode(<< 10, i.dest, i.string, 0 >>)
          = [ op |-> "load", dest |-> i.dest, string |-> i.string ]
    BY SMT DEF Decode, N_OP
  <2> QED BY <2>1, <2>2, <2>3
<1>12. CASE i \in [ op : { "new_bundle" }, dest : Byte, size : Short ]
  <2>1. i.op = "new_bundle" /\ i = [ op |-> "new_bundle", dest |-> i.dest, size |-> i.size ]
    BY <1>12, SMT
  <2>2. Encode(i) = << 11, i.dest, Upper(i.size), Lower(i.size) >>
    BY <2>1, SMT DEF Encode, Word, N_OP
  <2>3. Pack(Upper(i.size), Lower(i.size)) = i.size
    BY <1>12, ShortRange, SplitPacks
  <2>4. Decode(<< 11, i.dest, Upper(i.size), Lower(i.size) >>)
          = [ op |-> "new_bundle", dest |-> i.dest, size |-> i.size ]
    BY <2>3, SMT DEF Decode, N_OP
  <2> QED BY <2>1, <2>2, <2>4
<1>13. CASE i \in [ op : { "return" }, source : Byte ]
  <2>1. i.op = "return" /\ i = [ op |-> "return", source |-> i.source ]
    BY <1>13, SMT
  <2>2. Encode(i) = << 12, i.source, 0, 0 >>
    BY <2>1, SMT DEF Encode, Word, N_OP
  <2>3. Decode(<< 12, i.source, 0, 0 >>)
          = [ op |-> "return", source |-> i.source ]
    BY SMT DEF Decode, N_OP
  <2> QED BY <2>1, <2>2, <2>3
<1> QED
  BY <1>1, <1>2, <1>3, <1>4, <1>5, <1>6, <1>7, <1>8, <1>9, <1>10, <1>11, <1>12, <1>13
     DEF Instructions

USE DEF CALLER_SLOT, CODE_POINTER_SLOT, STACK_POINTER_SLOT, RETURN_SLOT,
        NUM_LOCALS_SLOT, NUM_ARGS_SLOT, STACK_SLOTS

-----------------------------------------------------------------------------
(* Induction over numbers, from the well-foundedness of their order.       *)

Less == { pair \in Nat \X Nat : pair[1] < pair[2] }

LEMMA LessIsWellFounded == IsWellFoundedOn(Less, Nat)
<1>1. Less = OpToRel(<, Nat)
  BY DEF Less, OpToRel
<1> QED BY <1>1, NatLessThanWellFounded

LEMMA LeastNumber ==
  ASSUME NEW T, T \subseteq Nat, T # { }
  PROVE  \E m \in T : \A k \in T : m <= k
<1>1. PICK m \in T : \A k \in T : ~(<< k, m >> \in Less)
  BY LessIsWellFounded, WFMin, Zenon
<1>2. ASSUME NEW k \in T PROVE m <= k
  <2>1. k \in Nat /\ m \in Nat
    OBVIOUS
  <2>2. ~(k < m)
    BY <1>1, <2>1 DEF Less
  <2> QED BY <2>1, <2>2
<1> QED BY <1>2

LEMMA Induction ==
  ASSUME NEW n \in Nat, NEW S,
         0 \in S, \A k \in 0 .. n - 1 : k \in S => k + 1 \in S
  PROVE  \A k \in 0 .. n : k \in S
<1> DEFINE T == (0 .. n) \ S
<1>1. SUFFICES ASSUME T # { } PROVE FALSE
  OBVIOUS
<1>2. PICK m \in T : \A k \in T : m <= k
  <2>1. T \subseteq Nat
    OBVIOUS
  <2> HIDE DEF T
  <2> QED BY <1>1, <2>1, LeastNumber
<1>3. m # 0 /\ m - 1 \in 0 .. n - 1 /\ m - 1 \notin T
  BY <1>2
<1> QED BY <1>2, <1>3

-----------------------------------------------------------------------------
(* The chain of saved stack pointers.                                      *)

Below(words, below, s) ==
  IF words[s + CALLER_SLOT] = N_UNDEFINED THEN << s >>
  ELSE IF words[s + STACK_POINTER_SLOT] \in 0 .. s - 1
  THEN Append(below[words[s + STACK_POINTER_SLOT]], s)
  ELSE << >>

Solves(words, g, k) == g = [ s \in 0 .. k - 1 |-> Below(words, g, s) ]

LEMMA BelowExists ==
  ASSUME NEW words, NEW n \in Nat
  PROVE  \E g : Solves(words, g, n)
<1> DEFINE S == { k \in Nat : \E g : Solves(words, g, k) }
<1>1. 0 \in S
  <2> DEFINE g == [ s \in 0 .. -1 |-> 0 ]
  <2>1. Solves(words, g, 0)
    BY DEF Solves
  <2> QED BY <2>1
<1>2. ASSUME NEW k \in 0 .. n - 1, k \in S PROVE k + 1 \in S
  <2>1. PICK g : Solves(words, g, k)
    BY <1>2
  <2> DEFINE h == [ s \in 0 .. k |-> IF s < k THEN g[s] ELSE Below(words, g, k) ]
  <2>2. ASSUME NEW s \in 0 .. k PROVE h[s] = Below(words, h, s)
    <3>1. h[s] = Below(words, g, s)
      <4>1. s < k => g[s] = Below(words, g, s)
        BY <2>1 DEF Solves
      <4> QED BY <4>1
    <3>2. \A r \in 0 .. s - 1 : h[r] = g[r]
      OBVIOUS
    <3>3. Below(words, h, s) = Below(words, g, s)
      BY <3>2 DEF Below
    <3> QED BY <3>1, <3>3
  <2>3. Solves(words, h, k + 1)
    BY <2>2, (k + 1) - 1 = k DEF Solves
  <2> QED BY <2>3
<1>3. n \in S
  <2> HIDE DEF S
  <2> QED BY <1>1, <1>2, Induction, n \in 0 .. n
<1> QED BY <1>3

LEMMA FramesEquation ==
  ASSUME NEW words, NEW n \in Nat, DOMAIN words = 0 .. n - 1, NEW s \in 0 .. n - 1
  PROVE  FramesIn(words, s) =
           IF words[s + CALLER_SLOT] = N_UNDEFINED THEN << s >>
           ELSE IF words[s + STACK_POINTER_SLOT] \in 0 .. s - 1
           THEN Append(FramesIn(words, words[s + STACK_POINTER_SLOT]), s)
           ELSE << >>
<1> DEFINE below == CHOOSE g : g = [ r \in DOMAIN words |-> Below(words, g, r) ]
<1>1. \A top : FramesIn(words, top) = below[top]
  BY DEF FramesIn, Below
<1>2. below = [ r \in DOMAIN words |-> Below(words, below, r) ]
  BY BelowExists DEF Solves
<1> HIDE DEF below
<1>3. below[s] = Below(words, below, s)
  BY <1>2
<1>4. below[words[s + STACK_POINTER_SLOT]] = FramesIn(words, words[s + STACK_POINTER_SLOT])
  BY <1>1, Zenon
<1>5. FramesIn(words, s) = below[s]
  BY <1>1, Zenon
<1> QED BY <1>3, <1>4, <1>5 DEF Below

Stacks == [0 .. StackSize - 1 -> Words]

SizeIn(words, s) == STACK_SLOTS + words[s + NUM_LOCALS_SLOT] + words[s + NUM_ARGS_SLOT]

(* The starts of frames f lie one after the other in the words, the last at *)
(* top: each has room for its frame, and what the frame above it keeps for  *)
(* its return can be put in place.                                          *)
Linked(words, lower, upper) ==
  /\ words[upper + CALLER_SLOT] \in Procedures
  /\ words[upper + CODE_POINTER_SLOT] \in Nat
  /\ words[upper + STACK_POINTER_SLOT] = lower
  /\ words[upper + RETURN_SLOT] \in 0 .. SizeIn(words, lower) - STACK_SLOTS - 1
  /\ words[lower + NUM_LOCALS_SLOT] = NumLocals[words[upper + CALLER_SLOT]]
  /\ upper = lower + STACK_SLOTS + NumLocals[words[upper + CALLER_SLOT]] + 1

Sized(words, s) ==
  /\ words[s + NUM_LOCALS_SLOT] \in Nat
  /\ words[s + NUM_ARGS_SLOT] \in Nat

IsChain(words, top, f) ==
  /\ f \in Seq(0 .. StackSize - 1) /\ f # << >> /\ f[Len(f)] = top
  /\ words[f[1] + CALLER_SLOT] = N_UNDEFINED
  /\ \A k \in 1 .. Len(f) : Sized(words, f[k])
  /\ \A k \in 1 .. Len(f) - 1 : Linked(words, f[k], f[k + 1])
  /\ \A j, k \in 1 .. Len(f) : j < k => f[j] + SizeIn(words, f[j]) <= f[k]
  /\ top + SizeIn(words, top) <= StackSize

LEMMA ChainTypes ==
  ASSUME NEW words, NEW top, NEW f, IsChain(words, top, f)
  PROVE  /\ Len(f) \in Nat \ { 0 } /\ DOMAIN f = 1 .. Len(f)
         /\ \A k \in 1 .. Len(f) :
              /\ f[k] \in 0 .. StackSize - 1
              /\ SizeIn(words, f[k]) \in Nat /\ SizeIn(words, f[k]) >= STACK_SLOTS
              /\ f[k] + SizeIn(words, f[k]) <= StackSize
<1>1. f \in Seq(0 .. StackSize - 1) /\ Len(f) \in Nat /\ Len(f) # 0 /\ DOMAIN f = 1 .. Len(f)
  BY EmptySeq DEF IsChain
<1>2. ASSUME NEW k \in 1 .. Len(f)
      PROVE  /\ f[k] \in 0 .. StackSize - 1
             /\ SizeIn(words, f[k]) \in Nat /\ SizeIn(words, f[k]) >= STACK_SLOTS
             /\ f[k] + SizeIn(words, f[k]) <= StackSize
  <2>1. f[k] \in 0 .. StackSize - 1
    BY <1>1, ElementOfSeq
  <2>2. SizeIn(words, f[k]) \in Nat /\ SizeIn(words, f[k]) >= STACK_SLOTS
    BY <1>2 DEF IsChain, Sized, SizeIn
  <2>3. CASE k = Len(f)
    BY <2>1, <2>2, <2>3 DEF IsChain
  <2>4. CASE k # Len(f)
    <3>1. k < Len(f) /\ Len(f) \in 1 .. Len(f)
      <4> DEFINE n == Len(f)
      <4>1. n \in Nat
        BY <1>1
      <4> HIDE DEF n
      <4>2. k \in 1 .. n /\ k # n => k < n /\ n \in 1 .. n
        BY <4>1
      <4> QED BY <2>4, <4>2 DEF n
    <3>2. f[k] + SizeIn(words, f[k]) <= f[Len(f)]
      BY <1>2, <3>1 DEF IsChain
    <3>3. f[Len(f)] \in 0 .. StackSize - 1
      BY <3>1, <1>1, ElementOfSeq
    <3> QED BY <2>1, <2>2, <3>2, <3>3, FramesAssumption
  <2> QED BY <2>1, <2>2, <2>3, <2>4
<1> QED BY <1>1, <1>2

(* A chain is what the walk over the saved stack pointers finds.            *)
LEMMA ChainIsFrames ==
  ASSUME NEW words \in Stacks, NEW top, NEW f, IsChain(words, top, f)
  PROVE  FramesIn(words, top) = f
<1> USE ChainTypes
<1> DEFINE S == { k \in Nat : k + 1 \in 1 .. Len(f) =>
                    FramesIn(words, f[k + 1]) = SubSeq(f, 1, k + 1) }
<1>1. DOMAIN words = 0 .. StackSize - 1 /\ StackSize \in Nat
  BY FramesAssumption DEF Stacks
<1>2. f \in Seq(0 .. StackSize - 1)
  BY DEF IsChain
<1>3. 0 \in S
  <2>1. FramesIn(words, f[1]) = << f[1] >>
    BY <1>1, FramesEquation DEF IsChain
  <2>2. SubSeq(f, 1, 1) = << f[1] >>
    <3>1. SubSeq(f, 1, 1) = SubSeq(f, 1, 0) \o << f[1] >>
      BY <1>2, SubSeqRecursiveSecond, 1 \in 1 .. Len(f), 1 - 1 = 0
    <3>2. SubSeq(f, 1, 0) = << >>
      BY SubSeqEmpty
    <3>3. << f[1] >> \in Seq(0 .. StackSize - 1)
      OBVIOUS
    <3>4. << >> \o << f[1] >> = << f[1] >>
      BY <3>3, ConcatEmptySeq
    <3> QED BY <3>1, <3>2, <3>4
  <2> QED BY <2>1, <2>2
<1>4. ASSUME NEW k \in 0 .. Len(f) - 2, k \in S PROVE k + 1 \in S
  <2>1. k + 1 \in 1 .. Len(f) - 1 /\ k + 2 \in 1 .. Len(f) /\ k + 1 \in 1 .. Len(f)
    OBVIOUS
  <2>2. Linked(words, f[k + 1], f[k + 2])
    BY <2>1, (k + 1) + 1 = k + 2 DEF IsChain
  <2>3. f[k + 1] + SizeIn(words, f[k + 1]) <= f[k + 2]
    BY <2>1 DEF IsChain
  <2>4. f[k + 1] \in 0 .. f[k + 2] - 1 /\ f[k + 2] \in 0 .. StackSize - 1
    BY <2>1, <2>3
  <2>5. words[f[k + 2] + CALLER_SLOT] # N_UNDEFINED
    BY <2>2, FramesAssumption DEF Linked
  <2>6. FramesIn(words, f[k + 2]) = Append(FramesIn(words, f[k + 1]), f[k + 2])
    BY <2>2, <2>4, <2>5, <1>1, FramesEquation DEF Linked
  <2>7. FramesIn(words, f[k + 1]) = SubSeq(f, 1, k + 1)
    BY <1>4, <2>1
  <2>8. Append(SubSeq(f, 1, k + 1), f[k + 2]) = SubSeq(f, 1, k + 2)
    BY <1>2, <2>1
  <2> QED BY <2>6, <2>7, <2>8, (k + 1) + 1 = k + 2
<1>5. Len(f) - 1 \in S
  <2> HIDE DEF S
  <2>1. Len(f) - 1 \in Nat /\ Len(f) - 1 \in 0 .. Len(f) - 1 /\ (Len(f) - 1) - 1 = Len(f) - 2
    OBVIOUS
  <2> QED BY <1>3, <1>4, <2>1, Induction
<1>6. FramesIn(words, f[Len(f)]) = SubSeq(f, 1, Len(f))
  BY <1>5, (Len(f) - 1) + 1 = Len(f)
<1>7. SubSeq(f, 1, Len(f)) = f
  BY <1>2
<1> QED BY <1>6, <1>7 DEF IsChain

(* A chain depends on the bookkeeping of its frames only.                   *)
SameBooks(words, others, f) ==
  \A k \in 1 .. Len(f) : \A slot \in 0 .. STACK_SLOTS - 1 :
    others[f[k] + slot] = words[f[k] + slot]

LEMMA SameBookkeeping ==
  ASSUME NEW words, NEW others, NEW top, NEW f, IsChain(words, top, f),
         SameBooks(words, others, f)
  PROVE  IsChain(others, top, f)
<1>1. /\ f \in Seq(0 .. StackSize - 1) /\ f # << >> /\ f[Len(f)] = top
      /\ 1 \in 1 .. Len(f) /\ Len(f) \in 1 .. Len(f)
      /\ \A k \in 1 .. Len(f) - 1 : k \in 1 .. Len(f) /\ k + 1 \in 1 .. Len(f)
  <2> DEFINE n == Len(f)
  <2>1. n \in Nat \ { 0 }
    BY ChainTypes
  <2> HIDE DEF n
  <2>2. 1 \in 1 .. n /\ n \in 1 .. n /\ \A k \in 1 .. n - 1 : k \in 1 .. n /\ k + 1 \in 1 .. n
    BY <2>1
  <2> QED BY <2>2 DEF n, IsChain
<1>2. ASSUME NEW k \in 1 .. Len(f)
      PROVE  /\ others[f[k] + CALLER_SLOT] = words[f[k] + CALLER_SLOT]
             /\ others[f[k] + CODE_POINTER_SLOT] = words[f[k] + CODE_POINTER_SLOT]
             /\ others[f[k] + STACK_POINTER_SLOT] = words[f[k] + STACK_POINTER_SLOT]
             /\ others[f[k] + RETURN_SLOT] = words[f[k] + RETURN_SLOT]
             /\ others[f[k] + NUM_LOCALS_SLOT] = words[f[k] + NUM_LOCALS_SLOT]
             /\ others[f[k] + NUM_ARGS_SLOT] = words[f[k] + NUM_ARGS_SLOT]
             /\ SizeIn(others, f[k]) = SizeIn(words, f[k])
  BY 0 \in 0 .. 5, 1 \in 0 .. 5, 2 \in 0 .. 5, 3 \in 0 .. 5, 4 \in 0 .. 5, 5 \in 0 .. 5
     DEF SizeIn, SameBooks
<1>3. others[f[1] + CALLER_SLOT] = N_UNDEFINED
  BY <1>1, <1>2 DEF IsChain
<1>4. \A k \in 1 .. Len(f) : Sized(others, f[k])
  BY <1>2 DEF IsChain, Sized
<1>5. ASSUME NEW k \in 1 .. Len(f) - 1 PROVE Linked(others, f[k], f[k + 1])
  BY <1>1, <1>2 DEF IsChain, Linked
<1>6. \A j, k \in 1 .. Len(f) : j < k => f[j] + SizeIn(others, f[j]) <= f[k]
  BY <1>2 DEF IsChain
<1>7. top + SizeIn(others, top) <= StackSize
  BY <1>1, <1>2 DEF IsChain
<1> QED BY <1>1, <1>2, <1>3, <1>4, <1>5, <1>6, <1>7 DEF IsChain

LEMMA ApartOrSame ==
  \A a, b, m, n, i \in Int :
    /\ m >= 6 /\ n >= 6
    /\ a = b \/ a + m <= b \/ b + n <= a
    /\ 0 <= i /\ i < n - 6
    => /\ \A slot \in 0 .. 5 : a + slot # b + 6 + i
       /\ \A j \in Int : 0 <= j /\ j < m - 6 /\ a + 6 + j = b + 6 + i => a = b /\ j = i
OBVIOUS

LEMMA SameSizes ==
  ASSUME NEW words, NEW others, NEW f, SameBooks(words, others, f)
  PROVE  \A k \in 1 .. Len(f) : SizeIn(others, f[k]) = SizeIn(words, f[k])
BY 4 \in 0 .. 5, 5 \in 0 .. 5 DEF SizeIn, SameBooks

(* The slots of a frame are no words of another one, nor bookkeeping.       *)
LEMMA SlotsApart ==
  ASSUME NEW words, NEW top, NEW f, IsChain(words, top, f),
         NEW n \in 1 .. Len(f), NEW i \in 0 .. SizeIn(words, f[n]) - STACK_SLOTS - 1
  PROVE  /\ f[n] + STACK_SLOTS + i \in 0 .. StackSize - 1
         /\ \A k \in 1 .. Len(f) :
              /\ \A slot \in 0 .. STACK_SLOTS - 1 : f[k] + slot # f[n] + STACK_SLOTS + i
              /\ \A j \in 0 .. SizeIn(words, f[k]) - STACK_SLOTS - 1 :
                   f[k] + STACK_SLOTS + j = f[n] + STACK_SLOTS + i => k = n /\ j = i
<1> DEFINE size(k) == SizeIn(words, f[k])
<1>1. \A k \in 1 .. Len(f) : /\ f[k] \in 0 .. StackSize - 1 /\ size(k) \in Nat /\ size(k) >= 6
                             /\ f[k] + size(k) <= StackSize
  BY ChainTypes
<1>2. \A j, k \in 1 .. Len(f) : j < k => f[j] + size(j) <= f[k]
  BY DEF IsChain
<1>3. i \in 0 .. size(n) - STACK_SLOTS - 1
  OBVIOUS
<1>4. Len(f) \in Nat /\ StackSize \in Nat
  BY ChainTypes, FramesAssumption
<1> HIDE DEF size
<1>5. f[n] + STACK_SLOTS + i \in 0 .. StackSize - 1
  BY <1>1, <1>3, <1>4
<1>6. ASSUME NEW k \in 1 .. Len(f)
      PROVE  /\ f[k] \in Int /\ f[n] \in Int /\ size(k) \in Int /\ size(n) \in Int
             /\ size(k) >= 6 /\ size(n) >= 6
             /\ k = n \/ f[k] + size(k) <= f[n] \/ f[n] + size(n) <= f[k]
  <2>1. k = n \/ k < n \/ n < k
    BY <1>4
  <2>2. k < n => f[k] + size(k) <= f[n]
    BY <1>2
  <2>3. n < k => f[n] + size(n) <= f[k]
    BY <1>2
  <2>4. f[k] \in Int /\ f[n] \in Int /\ size(k) \in Int /\ size(n) \in Int
    BY <1>1
  <2>5. size(k) >= 6 /\ size(n) >= 6
    BY <1>1
  <2> QED BY <2>1, <2>2, <2>3, <2>4, <2>5
<1>7. ASSUME NEW k \in 1 .. Len(f)
      PROVE  /\ \A slot \in 0 .. STACK_SLOTS - 1 : f[k] + slot # f[n] + STACK_SLOTS + i
             /\ \A j \in 0 .. size(k) - STACK_SLOTS - 1 :
                  f[k] + STACK_SLOTS + j = f[n] + STACK_SLOTS + i => k = n /\ j = i
  <2>1. i \in Int /\ 0 <= i /\ i < size(n) - 6
    BY <1>1, <1>3
  <2>2. f[k] = f[n] \/ f[k] + size(k) <= f[n] \/ f[n] + size(n) <= f[k]
    BY <1>6
  <2>3. /\ \A slot \in 0 .. 5 : f[k] + slot # f[n] + 6 + i
        /\ \A j \in Int : 0 <= j /\ j < size(k) - 6 /\ f[k] + 6 + j = f[n] + 6 + i
                            => f[k] = f[n] /\ j = i
    <3>1. /\ f[k] \in Int /\ f[n] \in Int /\ size(k) \in Int /\ size(n) \in Int
          /\ size(k) >= 6 /\ size(n) >= 6
      BY <1>6
    <3> DEFINE a == f[k]
    <3> DEFINE b == f[n]
    <3> DEFINE sa == size(k)
    <3> DEFINE sb == size(n)
    <3>2. /\ a \in Int /\ b \in Int /\ sa \in Int /\ sb \in Int /\ i \in Int
          /\ sa >= 6 /\ sb >= 6 /\ 0 <= i /\ i < sb - 6
          /\ a = b \/ a + sa <= b \/ b + sb <= a
      BY <3>1, <2>1, <2>2
    <3> HIDE DEF a, b, sa, sb
    <3>3. /\ \A slot \in 0 .. 5 : a + slot # b + 6 + i
          /\ \A j \in Int : 0 <= j /\ j < sa - 6 /\ a + 6 + j = b + 6 + i => a = b /\ j = i
      BY <3>2, ApartOrSame
    <3> QED BY <3>3 DEF a, b, sa, sb
  <2>4. f[k] = f[n] => k = n
    BY <1>6
  <2> QED BY <2>3, <2>4, <1>6
<1> QED BY <1>5, <1>7 DEF size

-----------------------------------------------------------------------------
(* The activations that a chain of frames stands for, when procedure        *)
(* running is the one that runs.                                            *)
SlotsIn(words, s) ==
  [ j \in 0 .. SizeIn(words, s) - STACK_SLOTS - 1 |-> words[s + STACK_SLOTS + j] ]

RecordIn(words, f, running, i) ==
  [ proc   |-> IF i = Len(f) THEN running ELSE words[f[i + 1] + CALLER_SLOT],
    slots  |-> SlotsIn(words, f[i]),
    dest   |-> IF i = 1 THEN 0 ELSE words[f[i] + RETURN_SLOT],
    resume |-> IF i = 1 THEN 0 ELSE words[f[i] + CODE_POINTER_SLOT] ]

RecordsIn(words, f, running) == [ i \in 1 .. Len(f) |-> RecordIn(words, f, running, i) ]

(* A slot of the topmost frame is written: the chain stays, and one slot of *)
(* one activation changes.                                                  *)
SlotWritten(words, others, top, f, running, i, value) ==
  /\ others \in Stacks
  /\ IsChain(others, top, f)
  /\ \A slot \in 0 .. STACK_SLOTS - 1 : others[top + slot] = words[top + slot]
  /\ RecordsIn(others, f, running) =
       [RecordsIn(words, f, running) EXCEPT ![Len(f)].slots[i] = value]

LEMMA WriteSlot ==
  ASSUME NEW words \in Stacks, NEW top, NEW f, IsChain(words, top, f), NEW running,
         NEW i \in 0 .. SizeIn(words, top) - STACK_SLOTS - 1, NEW value \in Words,
         NEW others, others = [words EXCEPT ![top + STACK_SLOTS + i] = value]
  PROVE  SlotWritten(words, others, top, f, running, i, value)
<1> DEFINE n == Len(f)
<1>1. n \in 1 .. Len(f) /\ f[n] = top /\ n \in Nat
  <2>1. n \in Nat \ { 0 }
    BY ChainTypes
  <2>2. n \in Nat \ { 0 } => n \in 1 .. n
    OBVIOUS
  <2> QED BY <2>1, <2>2 DEF IsChain
<1>2. /\ top + STACK_SLOTS + i \in 0 .. StackSize - 1
      /\ \A k \in 1 .. Len(f) :
           /\ \A slot \in 0 .. STACK_SLOTS - 1 : f[k] + slot # top + STACK_SLOTS + i
           /\ \A j \in 0 .. SizeIn(words, f[k]) - STACK_SLOTS - 1 :
                f[k] + STACK_SLOTS + j = top + STACK_SLOTS + i => k = n /\ j = i
  BY <1>1, SlotsApart
<1> DEFINE place == top + STACK_SLOTS + i
<1>3. \A p : p # place => others[p] = words[p]
  BY DEF Stacks
<1>4. others[place] = value /\ others \in Stacks
  BY <1>2 DEF Stacks
<1> HIDE DEF place
<1>5. SameBooks(words, others, f)
  BY <1>2, <1>3 DEF place, SameBooks
<1>6. /\ IsChain(others, top, f)
      /\ \A k \in 1 .. Len(f) : SizeIn(others, f[k]) = SizeIn(words, f[k])
  <2>1. IsChain(others, top, f)
    BY <1>5, SameBookkeeping
  <2>2. \A k \in 1 .. Len(f) : SizeIn(others, f[k]) = SizeIn(words, f[k])
    BY <1>5, SameSizes
  <2> QED BY <2>1, <2>2
<1>7. ASSUME NEW k \in 1 .. Len(f), k # n
      PROVE  SlotsIn(others, f[k]) = SlotsIn(words, f[k])
  <2>1. \A j \in 0 .. SizeIn(words, f[k]) - STACK_SLOTS - 1 : f[k] + STACK_SLOTS + j # place
    BY <1>2, <1>7 DEF place
  <2> QED BY <2>1, <1>3, <1>6 DEF SlotsIn
<1>8. SlotsIn(others, f[n]) = [SlotsIn(words, f[n]) EXCEPT ![i] = value]
  <2>1. \A j \in 0 .. SizeIn(words, f[n]) - STACK_SLOTS - 1 :
          j # i => f[n] + STACK_SLOTS + j # place
    BY <1>1, <1>2 DEF place
  <2>2. \A j \in 0 .. SizeIn(words, f[n]) - STACK_SLOTS - 1 :
          others[f[n] + STACK_SLOTS + j] =
            IF j = i THEN value ELSE words[f[n] + STACK_SLOTS + j]
    BY <2>1, <1>3, <1>4, <1>1 DEF place
  <2>3. SizeIn(others, f[n]) = SizeIn(words, f[n])
    BY <1>1, <1>6
  <2> QED BY <2>2, <2>3, <1>1 DEF SlotsIn
<1>9. ASSUME NEW k \in 1 .. Len(f), k # n
      PROVE  RecordIn(others, f, running, k) = RecordIn(words, f, running, k)
  <2>1. k + 1 \in 1 .. Len(f)
    <3> HIDE DEF n
    <3>1. k \in 1 .. n /\ k + 1 \in 1 .. n
      BY <1>1, <1>9 DEF n
    <3> QED BY <3>1 DEF n
  <2>2. /\ others[f[k + 1] + CALLER_SLOT] = words[f[k + 1] + CALLER_SLOT]
        /\ others[f[k] + RETURN_SLOT] = words[f[k] + RETURN_SLOT]
        /\ others[f[k] + CODE_POINTER_SLOT] = words[f[k] + CODE_POINTER_SLOT]
    BY <1>5, <2>1, 0 \in 0 .. 5, 1 \in 0 .. 5, 3 \in 0 .. 5 DEF SameBooks
  <2> QED BY <1>7, <1>9, <2>2 DEF RecordIn
<1>10. RecordIn(others, f, running, n) =
         [RecordIn(words, f, running, n) EXCEPT !.slots[i] = value]
  <2>1. /\ others[f[n] + RETURN_SLOT] = words[f[n] + RETURN_SLOT]
        /\ others[f[n] + CODE_POINTER_SLOT] = words[f[n] + CODE_POINTER_SLOT]
    BY <1>5, <1>1, 1 \in 0 .. 5, 3 \in 0 .. 5 DEF SameBooks
  <2> QED BY <1>8, <2>1 DEF RecordIn
<1>11. RecordsIn(others, f, running) =
         [RecordsIn(words, f, running) EXCEPT ![n].slots[i] = value]
  BY <1>1, <1>9, <1>10 DEF RecordsIn
<1>12. \A slot \in 0 .. STACK_SLOTS - 1 : others[top + slot] = words[top + slot]
  BY <1>1, <1>5 DEF SameBooks
<1> QED BY <1>4, <1>6, <1>11, <1>12 DEF SlotWritten

LEMMA SubSeqAsFunction ==
  ASSUME NEW seq, NEW n \in Nat
  PROVE  SubSeq(seq, 1, n) = [ k \in 1 .. n |-> seq[k] ]
OBVIOUS

(* Without its last frame a chain is the chain of the frame below.          *)
Popped(words, top, f, running, g) ==
  /\ g \in Seq(0 .. StackSize - 1) /\ g # << >> /\ Len(g) = Len(f) - 1
  /\ g[1] = f[1]
  /\ g[Len(g)] = words[top + STACK_POINTER_SLOT]
  /\ Linked(words, words[top + STACK_POINTER_SLOT], top)
  /\ IsChain(words, words[top + STACK_POINTER_SLOT], g)
  /\ RecordsIn(words, g, words[top + CALLER_SLOT]) =
       SubSeq(RecordsIn(words, f, running), 1, Len(f) - 1)

LEMMA PopFrame ==
  ASSUME NEW words, NEW top, NEW f, IsChain(words, top, f), Len(f) # 1, NEW running,
         NEW g, g = SubSeq(f, 1, Len(f) - 1)
  PROVE  Popped(words, top, f, running, g)
<1> DEFINE n == Len(f)
<1>1. n \in Nat /\ n >= 2
  <2>1. n \in Nat \ { 0 } /\ n # 1
    BY ChainTypes
  <2> HIDE DEF n
  <2> QED BY <2>1
<1>2. /\ f \in Seq(0 .. StackSize - 1) /\ f[n] = top
      /\ \A k \in 1 .. n : f[k] \in 0 .. StackSize - 1
  BY ChainTypes DEF IsChain
<1> HIDE DEF n
<1>3. /\ n - 1 \in Nat /\ 1 \in 1 .. n - 1 /\ n - 1 \in 1 .. n - 1
      /\ \A k \in 1 .. n - 1 : k \in 1 .. n
      /\ \A k \in 1 .. (n - 1) - 1 : k \in 1 .. n - 1 /\ k + 1 \in 1 .. n - 1
  BY <1>1
<1>4. /\ Len(g) = n - 1 /\ g \in Seq(0 .. StackSize - 1)
      /\ \A k \in 1 .. n - 1 : g[k] = f[k]
  <2>1. g = SubSeq(f, 1, n - 1)
    BY DEF n
  <2>2. \A k \in 1 .. n - 1 : f[k] \in 0 .. StackSize - 1
    BY <1>2, <1>3
  <2>3. /\ SubSeq(f, 1, n - 1) \in Seq(0 .. StackSize - 1)
        /\ Len(SubSeq(f, 1, n - 1)) = IF 1 <= n - 1 THEN (n - 1) - 1 + 1 ELSE 0
        /\ \A k \in 1 .. (n - 1) - 1 + 1 : SubSeq(f, 1, n - 1)[k] = f[1 + k - 1]
    BY <2>2, <1>1, SubSeqProperties
  <2>4. (n - 1) - 1 + 1 = n - 1 /\ \A k \in 1 .. n - 1 : 1 + k - 1 = k
    BY <1>1
  <2> QED BY <2>1, <2>3, <2>4, <1>1
<1>5. /\ \A k \in 1 .. n : Sized(words, f[k])
      /\ \A k \in 1 .. n - 1 : Linked(words, f[k], f[k + 1])
      /\ \A j, k \in 1 .. n : j < k => f[j] + SizeIn(words, f[j]) <= f[k]
      /\ words[f[1] + CALLER_SLOT] = N_UNDEFINED
  BY DEF n, IsChain
<1>6. Linked(words, f[n - 1], top)
  BY <1>1, <1>2, <1>3, <1>5, (n - 1) + 1 = n
<1>7. IsChain(words, f[n - 1], g)
  <2>1. g # << >> /\ g[Len(g)] = f[n - 1]
    BY <1>3, <1>4
  <2>2. words[g[1] + CALLER_SLOT] = N_UNDEFINED
    BY <1>3, <1>4, <1>5
  <2>3. \A k \in 1 .. Len(g) : Sized(words, g[k])
    BY <1>3, <1>4, <1>5
  <2>4. \A k \in 1 .. Len(g) - 1 : Linked(words, g[k], g[k + 1])
    BY <1>3, <1>4, <1>5
  <2>5. \A j, k \in 1 .. Len(g) : j < k => g[j] + SizeIn(words, g[j]) <= g[k]
    BY <1>3, <1>4, <1>5
  <2>6. f[n - 1] + SizeIn(words, f[n - 1]) <= StackSize
    BY ChainTypes, <1>3 DEF n
  <2> QED BY <1>4, <2>1, <2>2, <2>3, <2>4, <2>5, <2>6 DEF IsChain
<1>8. RecordsIn(words, g, words[top + CALLER_SLOT]) =
        SubSeq(RecordsIn(words, f, running), 1, n - 1)
  <2>1. ASSUME NEW k \in 1 .. n - 1
        PROVE  RecordIn(words, g, words[top + CALLER_SLOT], k) = RecordIn(words, f, running, k)
    <3>1. g[k] = f[k] /\ k # n
      BY <1>1, <1>4
    <3>2. CASE k = n - 1
      <4>1. f[k + 1] = top
        BY <1>1, <1>2, <3>2
      <4> QED BY <3>1, <3>2, <4>1, <1>4 DEF RecordIn, n
    <3>3. CASE k # n - 1
      <4>1. k + 1 \in 1 .. n - 1
        BY <1>1, <3>3
      <4>2. g[k + 1] = f[k + 1]
        BY <4>1, <1>4
      <4> QED BY <3>1, <3>3, <4>2, <1>4 DEF RecordIn, n
    <3> QED BY <3>2, <3>3
  <2> DEFINE all == RecordsIn(words, f, running)
  <2>2. all = [ k \in 1 .. n |-> RecordIn(words, f, running, k) ]
    BY DEF RecordsIn, n
  <2> HIDE DEF all
  <2>3. SubSeq(all, 1, n - 1) = [ k \in 1 .. n - 1 |-> all[k] ]
    BY <1>1, SubSeqAsFunction
  <2>4. \A k \in 1 .. n - 1 : all[k] = RecordIn(words, f, running, k)
    BY <1>3, <2>2
  <2> QED BY <2>1, <2>3, <2>4, <1>4 DEF RecordsIn, all
<1>9. words[top + STACK_POINTER_SLOT] = f[n - 1]
  BY <1>6 DEF Linked
<1>10. g[1] = f[1] /\ g # << >> /\ g[Len(g)] = f[n - 1]
  BY <1>3, <1>4
<1> QED BY <1>4, <1>6, <1>7, <1>8, <1>9, <1>10 DEF n, Popped

(* A frame put above the last one, where it ends or later, whose saved words *)
(* name the caller and what it waits for, makes the chain longer.           *)
SameFrames(words, others, f) ==
  /\ SameBooks(words, others, f)
  /\ \A k \in 1 .. Len(f) : SlotsIn(others, f[k]) = SlotsIn(words, f[k])

LEMMA PushFrame ==
  ASSUME NEW words, NEW top, NEW f, IsChain(words, top, f),
         NEW others, NEW s \in 0 .. StackSize - 1,
         top + SizeIn(words, top) <= s,
         \A i \in 0 .. s - 1 : others[i] = words[i],
         Sized(others, s), Linked(others, top, s), s + SizeIn(others, s) <= StackSize
  PROVE  /\ IsChain(others, s, Append(f, s))
         /\ SameFrames(words, others, f)
<1> DEFINE n == Len(f)
<1> DEFINE g == Append(f, s)
<1>1. n \in Nat /\ n >= 1
  <2>1. n \in Nat \ { 0 }
    BY ChainTypes
  <2> HIDE DEF n
  <2> QED BY <2>1
<1>2. /\ f \in Seq(0 .. StackSize - 1) /\ f[n] = top
      /\ \A k \in 1 .. n : /\ f[k] \in 0 .. StackSize - 1
                            /\ SizeIn(words, f[k]) \in Nat /\ SizeIn(words, f[k]) >= 6
  BY ChainTypes DEF IsChain
<1>3. /\ \A k \in 1 .. n : Sized(words, f[k])
      /\ \A k \in 1 .. n - 1 : Linked(words, f[k], f[k + 1])
      /\ \A j, k \in 1 .. n : j < k => f[j] + SizeIn(words, f[j]) <= f[k]
      /\ words[f[1] + CALLER_SLOT] = N_UNDEFINED
  BY DEF IsChain
<1>4. /\ Len(g) = n + 1 /\ g \in Seq(0 .. StackSize - 1) /\ g # << >>
      /\ \A k \in 1 .. n : g[k] = f[k]
      /\ g[n + 1] = s
  <2>1. /\ g \in Seq(0 .. StackSize - 1) /\ g # << >> /\ Len(g) = Len(f) + 1
        /\ \A k \in 1 .. Len(f) : g[k] = f[k]
        /\ g[Len(f) + 1] = s
    BY <1>2, AppendProperties
  <2> QED BY <2>1
<1> HIDE DEF n, g
<1>5. ASSUME NEW k \in 1 .. n PROVE f[k] + SizeIn(words, f[k]) <= s
  <2>1. CASE k = n
    BY <1>2, <2>1
  <2>2. CASE k # n
    <3>1. k < n /\ n \in 1 .. n
      BY <1>1, <2>2
    <3>2. f[k] + SizeIn(words, f[k]) <= top
      BY <1>2, <1>3, <3>1
    <3>3. top \in 0 .. StackSize - 1 /\ SizeIn(words, top) \in Nat
      BY <1>2, <3>1
    <3>4. f[k] \in 0 .. StackSize - 1 /\ SizeIn(words, f[k]) \in Nat
      BY <1>2
    <3> DEFINE a == f[k]
    <3> DEFINE b == SizeIn(words, f[k])
    <3> DEFINE c == SizeIn(words, top)
    <3>5. /\ a \in Int /\ b \in Nat /\ c \in Nat /\ top \in Int /\ s \in Int
          /\ a + b <= top /\ top + c <= s
      BY <3>2, <3>3, <3>4
    <3> HIDE DEF a, b, c
    <3>6. a + b <= s
      BY <3>5
    <3> QED BY <3>6 DEF a, b
  <2> QED BY <2>1, <2>2
<1>6. ASSUME NEW k \in 1 .. n, NEW j \in Nat, j < SizeIn(words, f[k])
      PROVE  others[f[k] + j] = words[f[k] + j]
  <2> DEFINE a == f[k]
  <2> DEFINE b == SizeIn(words, f[k])
  <2>1. a \in Nat /\ b \in Nat /\ a + b <= s /\ j < b
    BY <1>2, <1>5, <1>6
  <2> HIDE DEF a, b
  <2>2. a + j \in 0 .. s - 1
    BY <2>1
  <2> QED BY <2>2 DEF a
<1>7. SameBooks(words, others, f)
  <2>1. ASSUME NEW k \in 1 .. n, NEW slot \in 0 .. STACK_SLOTS - 1
        PROVE  others[f[k] + slot] = words[f[k] + slot]
    <3>1. slot \in Nat /\ slot < SizeIn(words, f[k])
      BY <1>2
    <3> QED BY <1>6, <3>1
  <2> QED BY <2>1 DEF SameBooks, n
<1>8. IsChain(others, top, f)
  BY <1>7, SameBookkeeping
<1>9. \A k \in 1 .. n : SizeIn(others, f[k]) = SizeIn(words, f[k])
  BY <1>7, SameSizes DEF n
<1>10. ASSUME NEW k \in 1 .. n PROVE SlotsIn(others, f[k]) = SlotsIn(words, f[k])
  <2>1. ASSUME NEW j \in 0 .. SizeIn(words, f[k]) - STACK_SLOTS - 1
        PROVE  others[f[k] + STACK_SLOTS + j] = words[f[k] + STACK_SLOTS + j]
    <3>1. 6 + j \in Nat /\ 6 + j < SizeIn(words, f[k])
      BY <1>2
    <3>2. others[f[k] + (6 + j)] = words[f[k] + (6 + j)]
      BY <3>1, <1>6
    <3>3. f[k] + (6 + j) = f[k] + STACK_SLOTS + j
      <4>1. f[k] \in Int /\ j \in Int
        BY <1>2
      <4>2. \A a \in Int, b \in Int : a + (6 + b) = a + 6 + b
        OBVIOUS
      <4> QED BY <4>1, <4>2
    <3> QED BY <3>2, <3>3
  <2> QED BY <2>1, <1>9 DEF SlotsIn
<1>11. IsChain(others, s, g)
  <2>1. /\ \A k \in 1 .. n : Sized(others, f[k])
        /\ \A k \in 1 .. n - 1 : Linked(others, f[k], f[k + 1])
        /\ \A j, k \in 1 .. n : j < k => f[j] + SizeIn(others, f[j]) <= f[k]
        /\ others[f[1] + CALLER_SLOT] = N_UNDEFINED
    BY <1>8 DEF IsChain, n
  <2>2. others[g[1] + CALLER_SLOT] = N_UNDEFINED
    BY <1>1, <1>4, <2>1
  <2>3. ASSUME NEW k \in 1 .. n + 1 PROVE Sized(others, g[k])
    <3>1. k \in 1 .. n \/ k = n + 1
      BY <1>1
    <3> QED BY <3>1, <1>4, <2>1
  <2>4. ASSUME NEW k \in 1 .. n PROVE Linked(others, g[k], g[k + 1])
    <3>1. CASE k = n
      BY <3>1, <1>1, <1>2, <1>4
    <3>2. CASE k # n
      <4>1. k \in 1 .. n - 1 /\ k + 1 \in 1 .. n
        BY <3>2, <1>1
      <4> QED BY <4>1, <1>4, <2>1
    <3> QED BY <3>1, <3>2
  <2>5. ASSUME NEW j \in 1 .. n + 1, NEW k \in 1 .. n + 1, j < k
        PROVE  g[j] + SizeIn(others, g[j]) <= g[k]
    <3>1. j \in 1 .. n /\ g[j] = f[j]
      BY <1>1, <1>4, <2>5
    <3>2. CASE k = n + 1
      BY <3>1, <3>2, <1>4, <1>5, <1>9
    <3>3. CASE k # n + 1
      <4>1. k \in 1 .. n
        BY <1>1, <3>3
      <4> QED BY <3>1, <4>1, <1>4, <2>1, <2>5
    <3> QED BY <3>2, <3>3
  <2>6. g[Len(g)] = s /\ Len(g) - 1 = n
    BY <1>1, <1>4
  <2> QED BY <1>4, <2>2, <2>3, <2>4, <2>5, <2>6 DEF IsChain
<1> QED BY <1>7, <1>10, <1>11 DEF n, g, SameFrames

RecordPushed(words, others, f, s, running, callee) ==
  LET old == RecordsIn(words, f, running)
      new == RecordsIn(others, Append(f, s), callee)
  IN  /\ Len(new) = Len(old) + 1
      /\ SubSeq(new, 1, Len(old)) = old
      /\ new[Len(old) + 1] =
           [ proc |-> callee, slots |-> SlotsIn(others, s),
             dest |-> others[s + RETURN_SLOT], resume |-> others[s + CODE_POINTER_SLOT] ]

LEMMA PushRecord ==
  ASSUME NEW words, NEW top, NEW f, IsChain(words, top, f),
         NEW others, NEW s \in 0 .. StackSize - 1, NEW running, NEW callee,
         SameFrames(words, others, f), others[s + CALLER_SLOT] = running
  PROVE  RecordPushed(words, others, f, s, running, callee)
<1> DEFINE n == Len(f)
<1> DEFINE g == Append(f, s)
<1> DEFINE old == RecordsIn(words, f, running)
<1> DEFINE new == RecordsIn(others, g, callee)
<1>1. n \in Nat /\ n >= 1
  <2>1. n \in Nat \ { 0 }
    BY ChainTypes
  <2> HIDE DEF n
  <2> QED BY <2>1
<1>2. /\ Len(g) = n + 1
      /\ \A k \in 1 .. n : g[k] = f[k]
      /\ g[n + 1] = s
  <2>1. f \in Seq(0 .. StackSize - 1)
    BY DEF IsChain
  <2>2. /\ Len(g) = Len(f) + 1
        /\ \A k \in 1 .. Len(f) : g[k] = f[k]
        /\ g[Len(f) + 1] = s
    BY <2>1, AppendProperties
  <2> QED BY <2>2
<1>3. /\ old = [ k \in 1 .. n |-> RecordIn(words, f, running, k) ]
      /\ new = [ k \in 1 .. n + 1 |-> RecordIn(others, g, callee, k) ]
  BY <1>2 DEF RecordsIn
<1>4. \A k \in 1 .. n : /\ others[f[k] + CALLER_SLOT] = words[f[k] + CALLER_SLOT]
                        /\ others[f[k] + RETURN_SLOT] = words[f[k] + RETURN_SLOT]
                        /\ others[f[k] + CODE_POINTER_SLOT] = words[f[k] + CODE_POINTER_SLOT]
                        /\ SlotsIn(others, f[k]) = SlotsIn(words, f[k])
  BY 0 \in 0 .. 5, 1 \in 0 .. 5, 3 \in 0 .. 5 DEF SameBooks, SameFrames
<1>5. others[s + CALLER_SLOT] = running
  OBVIOUS
<1> HIDE DEF old, new, g
<1>6. ASSUME NEW k \in 1 .. n
      PROVE  RecordIn(others, g, callee, k) = RecordIn(words, f, running, k)
  <2>1. g[k] = f[k]
    BY <1>2
  <2>2. CASE k = n
    <3>1. g[k + 1] = s /\ k # Len(g)
      BY <1>1, <1>2, <2>2
    <3> QED BY <2>1, <2>2, <3>1, <1>4, <1>5 DEF RecordIn
  <2>3. CASE k # n
    <3>1. k # Len(g) /\ k + 1 \in 1 .. n
      <4> HIDE DEF n
      <4> QED BY <1>1, <1>2, <2>3
    <3>2. g[k + 1] = f[k + 1]
      BY <3>1, <1>2
    <3> QED BY <2>1, <2>3, <3>1, <3>2, <1>4 DEF RecordIn
  <2> QED BY <2>2, <2>3
<1>7. RecordIn(others, g, callee, n + 1) =
        [ proc |-> callee, slots |-> SlotsIn(others, s),
          dest |-> others[s + RETURN_SLOT], resume |-> others[s + CODE_POINTER_SLOT] ]
  <2>1. n + 1 = Len(g) /\ n + 1 # 1
    <3> HIDE DEF n
    <3> QED BY <1>1, <1>2
  <2> QED BY <1>2, <2>1 DEF RecordIn
<1> HIDE DEF n
<1>8. Len(old) = n /\ Len(new) = n + 1
  BY <1>1, <1>3
<1>9. SubSeq(new, 1, n) = old
  <2>1. SubSeq(new, 1, n) = [ k \in 1 .. n |-> new[k] ]
    BY <1>1, SubSeqAsFunction
  <2>2. \A k \in 1 .. n : new[k] = RecordIn(words, f, running, k)
    BY <1>1, <1>3, <1>6
  <2> QED BY <2>1, <2>2, <1>3
<1>10. new[n + 1] = RecordIn(others, g, callee, n + 1)
  BY <1>1, <1>3
<1> QED BY <1>7, <1>8, <1>9, <1>10 DEF n, g, old, new, RecordPushed

LEMMA BaseFrame ==
  ASSUME NEW words, NEW s \in 0 .. StackSize - 1, NEW running,
         words[s + CALLER_SLOT] = N_UNDEFINED, Sized(words, s),
         s + SizeIn(words, s) <= StackSize
  PROVE  /\ IsChain(words, s, << s >>)
         /\ RecordsIn(words, << s >>, running) =
              << [ proc |-> running, slots |-> SlotsIn(words, s), dest |-> 0, resume |-> 0 ] >>
<1>1. << s >> \in Seq(0 .. StackSize - 1) /\ Len(<< s >>) = 1 /\ << s >>[1] = s
  OBVIOUS
<1>2. IsChain(words, s, << s >>)
  BY <1>1 DEF IsChain
<1>3. RecordsIn(words, << s >>, running) = << RecordIn(words, << s >>, running, 1) >>
  BY DEF RecordsIn
<1>4. RecordIn(words, << s >>, running, 1) =
        [ proc |-> running, slots |-> SlotsIn(words, s), dest |-> 0, resume |-> 0 ]
  BY <1>1 DEF RecordIn
<1> QED BY <1>2, <1>3, <1>4

-----------------------------------------------------------------------------
(* What is decoded is what was written.                                     *)
LEMMA CallDecoded ==
  ASSUME NEW i \in Calls
  PROVE  Decode(Encode(i)) = [ op |-> "call", dest |-> i.dest, func |-> i.func,
                               nargs |-> i.nargs ]
<1>1. i.op = "call"
  BY DEF Calls
<1>2. Encode(i) = << 3, i.dest, i.func, i.nargs >>
  BY <1>1, SMT DEF Encode, Word, N_OP
<1>3. Decode(<< 3, i.dest, i.func, i.nargs >>) =
        [ op |-> "call", dest |-> i.dest, func |-> i.func, nargs |-> i.nargs ]
  BY SMT DEF Decode, N_OP
<1> QED BY <1>2, <1>3

LEMMA UnknownDecoded ==
  ASSUME NEW i \in UnknownWords
  PROVE  i.op = "unknown" /\ Decode(Encode(i)) = [ op |-> "unknown" ]
<1>1. i.op = "unknown" /\ i.opcode \in 13 .. 255
  BY DEF UnknownWords
<1>2. Encode(i) = << i.opcode, 0, 0, 0 >>
  BY <1>1, SMT DEF Encode, Word
<1>3. \A n \in 13 .. 255 : Decode(<< n, 0, 0, 0 >>) = [ op |-> "unknown" ]
  BY SMT DEF Decode, N_OP
<1> QED BY <1>1, <1>2, <1>3

ArgumentsPacked == Packed(code[current_module], code_pointer, Written)

LEMMA Decoded ==
  ASSUME CodeFits
  PROVE  /\ Written.op # "call" /\ Written.op # "unknown" => Instruction = Written
         /\ Written.op = "call" =>
              Instruction = [ op |-> "call", dest |-> Written.dest, func |-> Written.func,
                              nargs |-> Written.nargs ]
         /\ Instruction.op = Written.op
         /\ Written.op # "call" => Written \in Instructions \cup UnknownWords
         /\ Written.op = "call" => Written \in Calls /\ ArgumentsPacked
<1>1. Instruction = Decode(Encode(Written))
  BY DEF Instruction, Fetch, Written
<1>2. IF Written.op = "call" THEN Written \in Calls /\ ArgumentsPacked
      ELSE Written \in Instructions \cup UnknownWords
  BY DEF CodeFits, WellWritten, Written, ArgumentsPacked
<1>3. CASE Written.op = "call"
  <2>1. Instruction = [ op |-> "call", dest |-> Written.dest, func |-> Written.func,
                        nargs |-> Written.nargs ]
    BY <1>1, <1>2, <1>3, CallDecoded
  <2> QED BY <2>1, <1>2, <1>3
<1>4. CASE Written.op # "call" /\ Written \in Instructions
  BY <1>1, <1>4, DecodeUndoesEncode
<1>5. CASE Written.op # "call" /\ Written \in UnknownWords
  BY <1>1, <1>5, UnknownDecoded
<1> QED BY <1>2, <1>3, <1>4, <1>5

LEMMA ArgumentsDecoded ==
  ASSUME CodeFits, Written.op = "call", NEW n \in 1 .. Written.nargs
  PROVE  Argument(n) = GetLocal(Written.args[n])
<1>1. ArgumentsPacked
  BY Decoded
<1> DEFINE place == code_pointer + 1 + (n - 1) \div 4
<1> DEFINE word == code[current_module][place]
<1>2. word.op = "arguments" /\ word.args[1 + ((n - 1) % 4)] = Written.args[n]
  BY <1>1 DEF ArgumentsPacked, Packed
<1>3. Encode(word) = word.args
  BY <1>2, SMT DEF Encode
<1> QED BY <1>2, <1>3 DEF Argument, Fetch

-----------------------------------------------------------------------------
(* The invariant: while code runs, the saved stack pointers are a chain     *)
(* from the running frame down to the frame without a caller.               *)
Inv ==
  /\ TypeOK
  /\ DOMAIN registers = Modules
  /\ mode = "running" => /\ current_procedure \in Procedures
                         /\ error \in { "OK", "garbage" }
                         /\ watched => error = "OK"
                         /\ \E f : IsChain(stack, stack_pointer, f)

LEMMA ChainCaller ==
  ASSUME NEW words, NEW top, NEW f, IsChain(words, top, f)
  PROVE  /\ words[top + CALLER_SLOT] \in Procedures \cup { N_UNDEFINED }
         /\ words[top + CALLER_SLOT] = N_UNDEFINED <=> Len(f) = 1
         /\ Len(f) # 1 => words[top + CALLER_SLOT] \in Procedures
<1> DEFINE n == Len(f)
<1>1. n \in Nat \ { 0 } /\ f[n] = top
  BY ChainTypes DEF IsChain
<1>2. CASE n = 1
  BY <1>1, <1>2 DEF IsChain
<1>3. CASE n # 1
  <2> DEFINE m == n - 1
  <2>1. m \in 1 .. n - 1 /\ m + 1 = n
    <3> HIDE DEF n
    <3> QED BY <1>1, <1>3
  <2> HIDE DEF m
  <2>2. Linked(words, f[m], f[m + 1])
    BY <2>1 DEF IsChain
  <2>3. words[top + CALLER_SLOT] \in Procedures
    BY <1>1, <2>1, <2>2 DEF Linked
  <2> QED BY <2>3, <1>3, FramesAssumption
<1> QED BY <1>2, <1>3

LEMMA ValueTypes ==
  /\ Procedures \subseteq Values /\ Primitives \subseteq Values /\ Data \subseteq Values
  /\ Bundles \subseteq Data /\ Symbols \subseteq Data
  /\ N_UNDEFINED \in Data /\ N_FALSE \in Data /\ NULL \in Data
  /\ Values \subseteq Words /\ Nat \subseteq Words
  /\ N_UNDEFINED \notin Procedures
BY FramesAssumption DEF Values, Words

(* A local of the running frame is written.                                 *)
LEMMA LocalWritten ==
  ASSUME stack \in Stacks, NEW f, IsChain(stack, stack_pointer, f),
         NEW i \in 0 .. FrameSize(stack_pointer) - STACK_SLOTS - 1,
         NEW value \in Words, SetLocal(i, value), NEW running
  PROVE  SlotWritten(stack, stack', stack_pointer, f, running, i, value)
<1>1. i \in 0 .. SizeIn(stack, stack_pointer) - STACK_SLOTS - 1
  BY DEF FrameSize, SizeIn
<1>2. stack' = [stack EXCEPT ![stack_pointer + STACK_SLOTS + i] = value]
  BY DEF SetLocal, LocalIndex
<1> QED BY <1>1, <1>2, WriteSlot

(* The places that CallProcedure writes.                                    *)
LaidOut(old, sp, words, locals, args) ==
  [ i \in DOMAIN old |->
      IF i - sp \in 0 .. STACK_SLOTS - 1 THEN words[i - sp + 1]
      ELSE IF i - (sp + STACK_SLOTS + locals) \in 0 .. Len(args) - 1
      THEN args[i - (sp + STACK_SLOTS + locals) + 1]
      ELSE old[i] ]

LEMMA LaidOutWords ==
  ASSUME NEW old, NEW sp \in Nat, NEW words, NEW locals \in Nat, NEW args,
         NEW size \in Nat, old \in [0 .. size - 1 -> Words], args \in Seq(Words),
         \A k \in 1 .. 6 : words[k] \in Words
  PROVE  LaidOut(old, sp, words, locals, args) \in [0 .. size - 1 -> Words]
<1> DEFINE n == Len(args)
<1>1. n \in Nat /\ \A k \in 1 .. n : args[k] \in Words
  BY ElementOfSeq, LenProperties
<1> HIDE DEF n
<1>2. ASSUME NEW i \in 0 .. size - 1, i - sp \in 0 .. STACK_SLOTS - 1
      PROVE  words[i - sp + 1] \in Words
  <2>1. i - sp + 1 \in 1 .. 6
    BY <1>2
  <2> QED BY <2>1
<1>3. ASSUME NEW i \in 0 .. size - 1, i - (sp + STACK_SLOTS + locals) \in 0 .. n - 1
      PROVE  args[i - (sp + STACK_SLOTS + locals) + 1] \in Words
  <2>1. i - (sp + STACK_SLOTS + locals) + 1 \in 1 .. n
    BY <1>1, <1>3
  <2> QED BY <1>1, <2>1
<1>4. \A i \in 0 .. size - 1 : old[i] \in Words
  OBVIOUS
<1> QED BY <1>2, <1>3, <1>4 DEF LaidOut, n

HasFrame(new, old, sp, words, locals, args) ==
  /\ \A slot \in 0 .. STACK_SLOTS - 1 : new[sp + slot] = words[slot + 1]
  /\ \A n \in 1 .. Len(args) : new[sp + STACK_SLOTS + (locals + n - 1)] = args[n]
  /\ \A i \in 0 .. sp - 1 : new[i] = old[i]

LEMMA CallWrites ==
  ASSUME NEW sp \in Nat, NEW size \in Nat, NEW words, NEW locals \in Nat, NEW args,
         Len(args) \in Nat, sp + STACK_SLOTS + locals + Len(args) <= size,
         NEW old, DOMAIN old = 0 .. size - 1, NEW new,
         new = LaidOut(old, sp, words, locals, args)
  PROVE  HasFrame(new, old, sp, words, locals, args)
<1> DEFINE n == Len(args)
<1>1. n \in Nat /\ sp + 6 + locals + n <= size
  OBVIOUS
<1>2. /\ DOMAIN new = 0 .. size - 1
      /\ \A i \in 0 .. size - 1 :
           new[i] = IF i - sp \in 0 .. 5 THEN words[i - sp + 1]
                    ELSE IF i - (sp + 6 + locals) \in 0 .. n - 1
                    THEN args[i - (sp + 6 + locals) + 1]
                    ELSE old[i]
  BY DEF LaidOut
<1> HIDE DEF n
<1>3. ASSUME NEW slot \in 0 .. 5 PROVE new[sp + slot] = words[slot + 1]
  <2>1. sp + slot \in 0 .. size - 1 /\ (sp + slot) - sp = slot
    BY <1>1
  <2> QED BY <1>2, <2>1
<1>4. ASSUME NEW k \in 1 .. n PROVE new[sp + 6 + (locals + k - 1)] = args[k]
  <2> DEFINE i == sp + 6 + (locals + k - 1)
  <2>1. /\ i \in 0 .. size - 1 /\ i - sp \notin 0 .. 5
        /\ i - (sp + 6 + locals) = k - 1 /\ k - 1 \in 0 .. n - 1 /\ (k - 1) + 1 = k
    BY <1>1
  <2> HIDE DEF i
  <2>2. new[i] = args[k]
    BY <1>2, <2>1
  <2> QED BY <2>2 DEF i
<1>5. ASSUME NEW i \in 0 .. sp - 1 PROVE new[i] = old[i]
  <2>1. i \in 0 .. size - 1 /\ i - sp \notin 0 .. 5 /\ i - (sp + 6 + locals) \notin 0 .. n - 1
    BY <1>1
  <2> QED BY <1>2, <2>1
<1> QED BY <1>3, <1>4, <1>5 DEF n, HasFrame

(* A procedure is called.                                                   *)
Called(words, others, f, s, running, callee, dest, args, resume) ==
  /\ others \in Stacks
  /\ s \in 0 .. StackSize - 1
  /\ IsChain(others, s, Append(f, s))
  /\ others[s + NUM_LOCALS_SLOT] = NumLocals[callee]
  /\ others[s + RETURN_SLOT] = dest
  /\ others[s + CODE_POINTER_SLOT] = resume
  /\ SizeIn(others, s) = STACK_SLOTS + (NumLocals[callee] + Len(args))
  /\ \A n \in 1 .. Len(args) :
       others[s + STACK_SLOTS + (NumLocals[callee] + n - 1)] = args[n]
  /\ RecordPushed(words, others, f, s, running, callee)

LEMMA ProcedureCalled ==
  ASSUME stack \in Stacks, NEW f, IsChain(stack, stack_pointer, f),
         current_procedure \in Procedures, code_pointer \in Nat,
         FrameWord(NUM_LOCALS_SLOT) = NumLocals[current_procedure],
         FrameWord(NUM_ARGS_SLOT) <= 1,
         NEW callee \in Procedures,
         NEW dest \in 0 .. FrameSize(stack_pointer) - STACK_SLOTS - 1,
         NEW args \in Seq(Words), NEW skip \in Nat,
         CallProcedure(callee, dest, args, skip)
  PROVE  Called(stack, stack', f, stack_pointer', current_procedure, callee, dest, args,
                code_pointer + skip + 1)
<1> DEFINE sp == stack_pointer'
<1> DEFINE others == stack'
<1> DEFINE words == << current_procedure, code_pointer + skip + 1, stack_pointer, dest,
                       NumLocals[callee], Len(args) >>
<1> DEFINE locals == NumLocals[callee]
<1> DEFINE size == SizeIn(stack, stack_pointer)
<1>1. /\ sp = stack_pointer + NumLocals[current_procedure] + STACK_SLOTS + 1
      /\ sp + STACK_SLOTS + locals + Len(args) <= StackSize
      /\ others = LaidOut(stack, sp, words, locals, args)
  BY DEF CallProcedure, NextStackPointer, Bookkeeping, LaidOut
<1>2. /\ stack_pointer \in 0 .. StackSize - 1 /\ size \in Nat
      /\ stack_pointer + size <= StackSize /\ Sized(stack, stack_pointer)
  <2>1. Len(f) \in 1 .. Len(f) /\ f[Len(f)] = stack_pointer
    <3> DEFINE n == Len(f)
    <3>1. n \in Nat \ { 0 }
      BY ChainTypes
    <3> HIDE DEF n
    <3>2. n \in 1 .. n
      BY <3>1
    <3> QED BY <3>2 DEF n, IsChain
  <2>2. Sized(stack, stack_pointer)
    BY <2>1 DEF IsChain
  <2> QED BY <2>1, <2>2, ChainTypes
<1>3. /\ locals \in Nat /\ NumLocals[current_procedure] \in Nat /\ Len(args) \in Nat
      /\ StackSize \in Nat /\ dest \in Nat
  <2>1. locals \in Nat /\ NumLocals[current_procedure] \in Nat
    <3>1. NumLocals[callee] \in 0 .. 255 /\ NumLocals[current_procedure] \in 0 .. 255
      BY FramesAssumption
    <3>2. \A n \in 0 .. 255 : n \in Nat
      OBVIOUS
    <3> QED BY <3>1, <3>2, Zenon
  <2>2. Len(args) \in Nat
    BY LenProperties
  <2>3. dest \in Nat /\ StackSize \in Nat
    BY FramesAssumption
  <2> HIDE DEF locals
  <2> QED BY <2>1, <2>2, <2>3, Zenon
<1>4. /\ sp \in Nat /\ stack_pointer + size <= sp
      /\ sp \in 0 .. StackSize - 1
      /\ DOMAIN stack = 0 .. StackSize - 1 /\ DOMAIN args = 1 .. Len(args)
  <2>1. size = 6 + NumLocals[current_procedure] + FrameWord(NUM_ARGS_SLOT)
    BY DEF SizeIn, FrameWord
  <2>2. FrameWord(NUM_ARGS_SLOT) \in Nat /\ FrameWord(NUM_ARGS_SLOT) <= 1
    BY <1>2 DEF Sized, FrameWord
  <2>3. \A a, b, c, d, e, g \in Nat :
          /\ c <= 1
          /\ a + b + 6 + 1 + 6 + d + e <= g
          => /\ a + (6 + b + c) <= a + b + 6 + 1
             /\ a + b + 6 + 1 \in 0 .. g - 1
    OBVIOUS
  <2> HIDE DEF sp, size, locals
  <2>4. sp \in Nat /\ stack_pointer \in Nat
    <3>1. \A a, b \in Nat : a + b + 6 + 1 \in Nat
      OBVIOUS
    <3>2. stack_pointer \in Nat /\ NumLocals[current_procedure] \in Nat
      BY <1>2, <1>3
    <3>3. stack_pointer + NumLocals[current_procedure] + 6 + 1 \in Nat
      BY <3>1, <3>2, Zenon
    <3> QED BY <1>1, <3>2, <3>3
  <2>5. stack_pointer + size <= sp /\ sp \in 0 .. StackSize - 1
    BY <1>1, <1>3, <2>1, <2>2, <2>3, <2>4
  <2> QED BY <2>4, <2>5 DEF Stacks
<1>5. Len(words) = 6 /\ \A k \in 1 .. 6 : words[k] \in Words
  BY <1>2, <1>3, ValueTypes
<1> HIDE DEF others, words, sp
<1>6. /\ \A slot \in 0 .. STACK_SLOTS - 1 : others[sp + slot] = words[slot + 1]
      /\ \A n \in 1 .. Len(args) : others[sp + STACK_SLOTS + (locals + n - 1)] = args[n]
      /\ \A i \in 0 .. sp - 1 : others[i] = stack[i]
  <2> HIDE DEF locals
  <2>1. HasFrame(others, stack, sp, words, locals, args)
    BY <1>1, <1>3, <1>4, CallWrites
  <2> QED BY <2>1 DEF HasFrame
<1>7. others \in Stacks
  <2> HIDE DEF locals
  <2>1. others = LaidOut(stack, sp, words, locals, args)
    BY <1>1
  <2>2. stack \in [0 .. StackSize - 1 -> Words]
    BY DEF Stacks
  <2>3. LaidOut(stack, sp, words, locals, args) \in [0 .. StackSize - 1 -> Words]
    BY <1>3, <1>4, <1>5, <2>2, LaidOutWords
  <2> QED BY <2>1, <2>3 DEF Stacks
<1>8. /\ others[sp + CALLER_SLOT] = current_procedure
      /\ others[sp + CODE_POINTER_SLOT] = code_pointer + skip + 1
      /\ others[sp + STACK_POINTER_SLOT] = stack_pointer
      /\ others[sp + RETURN_SLOT] = dest
      /\ others[sp + NUM_LOCALS_SLOT] = NumLocals[callee]
      /\ others[sp + NUM_ARGS_SLOT] = Len(args)
  BY <1>6, 0 \in 0 .. 5, 1 \in 0 .. 5, 2 \in 0 .. 5, 3 \in 0 .. 5, 4 \in 0 .. 5, 5 \in 0 .. 5
     DEF words
<1>9. SizeIn(others, sp) = STACK_SLOTS + (locals + Len(args)) /\ Sized(others, sp)
  BY <1>3, <1>8 DEF SizeIn, Sized
<1>10. sp + SizeIn(others, sp) <= StackSize
  <2> HIDE DEF locals
  <2> QED BY <1>1, <1>3, <1>4, <1>9
<1>11. /\ SizeIn(others, stack_pointer) = size
       /\ others[stack_pointer + NUM_LOCALS_SLOT] = NumLocals[current_procedure]
  <2>1. \A slot \in 0 .. 5 : stack_pointer + slot \in 0 .. sp - 1
    <3>1. size >= 6
      BY <1>2 DEF SizeIn, Sized
    <3> HIDE DEF size
    <3> QED BY <1>2, <1>4, <3>1
  <2>2. \A slot \in 0 .. 5 : others[stack_pointer + slot] = stack[stack_pointer + slot]
    BY <1>6, <2>1
  <2> QED BY <2>2, 4 \in 0 .. 5, 5 \in 0 .. 5 DEF SizeIn, FrameWord
<1>12. Linked(others, stack_pointer, sp)
  <2>1. code_pointer + skip + 1 \in Nat
    OBVIOUS
  <2>2. dest \in 0 .. size - STACK_SLOTS - 1
    BY DEF FrameSize, SizeIn
  <2>3. sp = stack_pointer + STACK_SLOTS + NumLocals[current_procedure] + 1
    <3>1. \A a, b \in Nat : a + b + 6 + 1 = a + 6 + b + 1
      OBVIOUS
    <3>2. stack_pointer \in Nat /\ NumLocals[current_procedure] \in Nat
      BY <1>2, <1>3
    <3>3. sp = stack_pointer + NumLocals[current_procedure] + 6 + 1
      BY <1>1
    <3> QED BY <3>1, <3>2, <3>3, Zenon
  <2> QED BY <1>8, <1>11, <2>1, <2>2, <2>3 DEF Linked
<1>13. IsChain(others, sp, Append(f, sp)) /\ SameFrames(stack, others, f)
  BY <1>4, <1>6, <1>9, <1>10, <1>12, PushFrame
<1>14. RecordPushed(stack, others, f, sp, current_procedure, callee)
  BY <1>4, <1>8, <1>13, PushRecord
<1>15. Called(stack, others, f, sp, current_procedure, callee, dest, args,
              code_pointer + skip + 1)
  BY <1>4, <1>6, <1>7, <1>8, <1>9, <1>13, <1>14 DEF Called
<1> QED BY <1>15 DEF others, sp

(* A procedure returns to the one that called it.                           *)
LEMMA ProcedureReturned ==
  ASSUME stack \in Stacks, NEW f, IsChain(stack, stack_pointer, f),
         FrameWord(CALLER_SLOT) # N_UNDEFINED, NEW output \in Words, Deliver(output),
         NEW g, g = SubSeq(f, 1, Len(f) - 1)
  PROVE  /\ Popped(stack, stack_pointer, f, current_procedure, g)
         /\ SlotWritten(stack, stack', FrameWord(STACK_POINTER_SLOT), g,
                        FrameWord(CALLER_SLOT), FrameWord(RETURN_SLOT), output)
<1>1. Len(f) # 1
  BY ChainCaller DEF FrameWord
<1>2. Popped(stack, stack_pointer, f, current_procedure, g)
  BY <1>1, PopFrame
<1> DEFINE lower == FrameWord(STACK_POINTER_SLOT)
<1>3. /\ IsChain(stack, lower, g)
      /\ FrameWord(RETURN_SLOT) \in 0 .. SizeIn(stack, lower) - STACK_SLOTS - 1
  BY <1>2 DEF Popped, Linked, FrameWord
<1>4. stack' = [stack EXCEPT ![lower + STACK_SLOTS + FrameWord(RETURN_SLOT)] = output]
  BY DEF Deliver
<1> HIDE DEF lower
<1>5. SlotWritten(stack, stack', lower, g, FrameWord(CALLER_SLOT), FrameWord(RETURN_SLOT),
                  output)
  BY <1>3, <1>4, WriteSlot
<1> QED BY <1>2, <1>5 DEF lower

(* A run begins.                                                            *)
LEMMA RunBegun ==
  ASSUME stack \in Stacks, stack_pointer \in 0 .. StackSize - 1, NEW callee \in Procedures,
         stack_pointer + STACK_SLOTS + NumLocals[callee] <= StackSize,
         stack' = [stack EXCEPT
                     ![stack_pointer + CALLER_SLOT] = N_UNDEFINED,
                     ![stack_pointer + NUM_LOCALS_SLOT] = NumLocals[callee],
                     ![stack_pointer + NUM_ARGS_SLOT] = 0]
  PROVE  /\ stack' \in Stacks
         /\ IsChain(stack', stack_pointer, << stack_pointer >>)
         /\ stack'[stack_pointer + NUM_LOCALS_SLOT] = NumLocals[callee]
         /\ RecordsIn(stack', << stack_pointer >>, callee) =
              << [ proc |-> callee, slots |-> SlotsIn(stack', stack_pointer),
                   dest |-> 0, resume |-> 0 ] >>
         /\ SizeIn(stack', stack_pointer) = STACK_SLOTS + NumLocals[callee]
<1> DEFINE others == stack'
<1> DEFINE s == stack_pointer
<1> DEFINE locals == NumLocals[callee]
<1>1. locals \in Nat /\ StackSize \in Nat
  <2>1. NumLocals[callee] \in 0 .. 255
    BY FramesAssumption
  <2> HIDE DEF locals
  <2>2. \A n \in 0 .. 255 : n \in Nat
    OBVIOUS
  <2> QED BY <2>1, <2>2, FramesAssumption DEF locals
<1>2. /\ s \in Nat /\ s + 6 + locals <= StackSize
      /\ others = [stack EXCEPT ![s + 0] = N_UNDEFINED, ![s + 4] = locals, ![s + 5] = 0]
  OBVIOUS
<1>3. stack \in [0 .. StackSize - 1 -> Words]
  BY DEF Stacks
<1>4. N_UNDEFINED \in Words /\ locals \in Words /\ 0 \in Words
  BY <1>1, ValueTypes
<1> HIDE DEF others, s, locals
<1>5. /\ s + 0 \in 0 .. StackSize - 1 /\ s + 4 \in 0 .. StackSize - 1
      /\ s + 5 \in 0 .. StackSize - 1 /\ s + 0 # s + 4 /\ s + 0 # s + 5 /\ s + 4 # s + 5
  BY <1>1, <1>2
<1>6. /\ others \in [0 .. StackSize - 1 -> Words]
      /\ others[s + 0] = N_UNDEFINED /\ others[s + 4] = locals /\ others[s + 5] = 0
  BY <1>2, <1>3, <1>4, <1>5
<1>7. Sized(others, s) /\ SizeIn(others, s) = 6 + locals
  BY <1>1, <1>6 DEF Sized, SizeIn
<1>8. s + SizeIn(others, s) <= StackSize
  BY <1>1, <1>2, <1>7
<1>9. s \in 0 .. StackSize - 1 /\ others[s + CALLER_SLOT] = N_UNDEFINED
  BY <1>6 DEF s
<1>10. /\ IsChain(others, s, << s >>)
       /\ RecordsIn(others, << s >>, callee) =
            << [ proc |-> callee, slots |-> SlotsIn(others, s), dest |-> 0, resume |-> 0 ] >>
  BY <1>7, <1>8, <1>9, BaseFrame
<1> QED BY <1>6, <1>7, <1>10 DEF others, s, locals, Stacks

-----------------------------------------------------------------------------
(* What holds before an instruction of well-formed code.                    *)
Slots == 0 .. FrameSize(stack_pointer) - STACK_SLOTS - 1

RegistersOK ==
  /\ DOMAIN registers = Modules
  /\ \A m \in Modules : registers[m] \in [DOMAIN InitialGlobals[m] -> Values]

Running(f) == Inv /\ mode = "running" /\ IsChain(stack, stack_pointer, f)

Executing(f) ==
  /\ Inv /\ mode = "running" /\ CodeFits /\ CallerTakesOne
  /\ IsChain(stack, stack_pointer, f)

RunningTypes(f) ==
  /\ stack \in Stacks /\ stack_pointer \in 0 .. StackSize - 1
  /\ IsChain(stack, stack_pointer, f)
  /\ current_procedure \in Procedures
  /\ current_module = ModuleOf[current_procedure] /\ current_module \in Modules
  /\ code_pointer \in Nat
  /\ FrameWord(NUM_LOCALS_SLOT) = NumLocals[current_procedure]
  /\ RegistersOK
  /\ result \in Values
  /\ error \in { "OK", "garbage" }
  /\ watched => error = "OK"
  /\ code \in Programs

LEMMA RunningFacts ==
  ASSUME NEW f, Running(f)
  PROVE  RunningTypes(f)
<1>1. /\ current_procedure \in Procedures
      /\ current_module = ModuleOf[current_procedure]
      /\ FrameWord(NUM_LOCALS_SLOT) = NumLocals[current_procedure]
  BY DEF Running, Inv, TypeOK
<1>2. current_module \in Modules
  BY <1>1, FramesAssumption
<1>3. /\ stack \in Stacks /\ stack_pointer \in 0 .. StackSize - 1
      /\ code_pointer \in Nat
      /\ RegistersOK
      /\ result \in Values
      /\ code \in Programs
  BY DEF Running, Inv, TypeOK, Stacks, RegistersOK
<1>4. /\ IsChain(stack, stack_pointer, f)
      /\ error \in { "OK", "garbage" }
      /\ watched => error = "OK"
  BY DEF Running, Inv
<1> QED BY <1>1, <1>2, <1>3, <1>4 DEF RunningTypes

LEMMA Facts ==
  ASSUME NEW f, Executing(f)
  PROVE  /\ stack \in Stacks /\ stack_pointer \in 0 .. StackSize - 1
         /\ IsChain(stack, stack_pointer, f)
         /\ current_procedure \in Procedures
         /\ current_module = ModuleOf[current_procedure] /\ current_module \in Modules
         /\ code_pointer \in Nat
         /\ FrameWord(NUM_LOCALS_SLOT) = NumLocals[current_procedure]
         /\ RegistersOK
         /\ result \in Values
         /\ error \in { "OK", "garbage" }
         /\ watched => error = "OK"
         /\ code \in Programs
BY RunningFacts DEF Running, Executing, RunningTypes

LEMMA SlotWords ==
  ASSUME NEW f, Executing(f), NEW i \in Slots
  PROVE  GetLocal(i) \in Words
<1>1. stack \in Stacks /\ IsChain(stack, stack_pointer, f)
  BY Facts
<1>2. Len(f) \in 1 .. Len(f) /\ f[Len(f)] = stack_pointer
  <2> DEFINE n == Len(f)
  <2>1. n \in Nat \ { 0 }
    BY <1>1, ChainTypes
  <2> HIDE DEF n
  <2>2. n \in 1 .. n
    BY <2>1
  <2> QED BY <1>1, <2>2 DEF n, IsChain
<1>3. stack_pointer + STACK_SLOTS + i \in 0 .. StackSize - 1
  <2>1. i \in 0 .. SizeIn(stack, f[Len(f)]) - STACK_SLOTS - 1
    BY <1>2 DEF Slots, FrameSize, SizeIn
  <2> QED BY <1>1, <1>2, <2>1, SlotsApart
<1> QED BY <1>1, <1>3 DEF GetLocal, LocalIndex, Stacks

(* The slots, places and registers that the decoded instruction names.      *)
LEMMA Operands ==
  ASSUME CodeFits
  PROVE  /\ Instruction.op \in { "call", "call_sva", "global_ref", "load", "new_bundle",
                                  "bundle_get" } => Instruction.dest \in Slots
         /\ Instruction.op \in { "call", "call_sva" } =>
              /\ Instruction.func \in Slots /\ Instruction.func = Written.func
         /\ Instruction.op = "call_sva" => Instruction.arg \in Slots
         /\ Instruction.op \in { "global_set", "return" } =>
              /\ Instruction.source \in Slots
              /\ GetLocal(Instruction.source) \in Values
         /\ Instruction.op \in { "jump", "jump_if", "jump_unless" } =>
              code_pointer + Instruction.offset \in DOMAIN code[current_module]
         /\ Instruction.op = "global_ref" =>
              Instruction.source \in DOMAIN registers[current_module]
         /\ Instruction.op = "global_set" =>
              Instruction.dest \in DOMAIN registers[current_module]
         /\ Instruction.op \in { "jump_if", "jump_unless" } => Instruction.cond \in Slots
         /\ Instruction.op \in { "bundle_get", "bundle_set", "bundle_close" } =>
              Instruction.bundle \in Slots
         /\ Instruction.op \in { "bundle_get", "bundle_set" } => Instruction.symbol \in Slots
<1> DEFINE i == Written
<1>1. /\ SlotsNamed(i) \subseteq Slots
      /\ i.op \in { "jump", "jump_if", "jump_unless" } =>
           code_pointer + i.offset \in DOMAIN code[current_module]
      /\ i.op = "global_ref" => i.source \in DOMAIN registers[current_module]
      /\ i.op = "global_set" => i.dest \in DOMAIN registers[current_module]
      /\ i.op \in { "global_set", "return" } => GetLocal(i.source) \in Values
  BY DEF CodeFits, Slots
<1>2. /\ Instruction.op = i.op
      /\ i.op # "call" /\ i.op # "unknown" => Instruction = i
      /\ i.op = "call" => Instruction.dest = i.dest /\ Instruction.func = i.func
  BY Decoded
<1> HIDE DEF i
<1>3. /\ i.op = "call" =>
           SlotsNamed(i) = { i.dest, i.func } \cup { i.args[n] : n \in DOMAIN i.args }
      /\ i.op = "call_sva" => SlotsNamed(i) = { i.dest, i.func, i.arg }
      /\ i.op \in { "global_set", "return" } => SlotsNamed(i) = { i.source }
      /\ i.op \in { "global_ref", "load", "new_bundle" } => SlotsNamed(i) = { i.dest }
      /\ i.op \in { "jump_if", "jump_unless" } => SlotsNamed(i) = { i.cond }
      /\ i.op = "bundle_get" => SlotsNamed(i) = { i.dest, i.bundle, i.symbol }
      /\ i.op = "bundle_set" => SlotsNamed(i) = { i.bundle, i.symbol, i.value }
      /\ i.op = "bundle_close" => SlotsNamed(i) = { i.bundle }
  BY DEF SlotsNamed
<1>4. i.op \in { "call", "call_sva", "global_ref", "load", "new_bundle", "bundle_get" }
        => i.dest \in Slots
  BY <1>1, <1>3
<1>5. i.op \in { "call", "call_sva" } => i.func \in Slots
  BY <1>1, <1>3
<1>6. i.op = "call_sva" => i.arg \in Slots
  BY <1>1, <1>3
<1>7. i.op \in { "global_set", "return" } => i.source \in Slots
  BY <1>1, <1>3
<1>8. i.op \in { "jump_if", "jump_unless" } => i.cond \in Slots
  BY <1>1, <1>3
<1>9. i.op \in { "bundle_get", "bundle_set", "bundle_close" } => i.bundle \in Slots
  BY <1>1, <1>3
<1>10. i.op \in { "bundle_get", "bundle_set" } => i.symbol \in Slots
  BY <1>1, <1>3
<1> QED BY <1>1, <1>2, <1>4, <1>5, <1>6, <1>7, <1>8, <1>9, <1>10 DEF i

(* The arguments of a call.                                                 *)
LEMMA CallArguments ==
  ASSUME NEW f, Executing(f), Instruction.op = "call"
  PROVE  /\ Instruction.nargs \in Nat /\ Instruction.nargs = Len(Written.args)
         /\ DOMAIN Written.args = 1 .. Len(Written.args)
         /\ [ n \in 1 .. Instruction.nargs |-> Argument(n) ] =
              [ n \in DOMAIN Written.args |-> GetLocal(Written.args[n]) ]
         /\ [ n \in 1 .. Instruction.nargs |-> Argument(n) ] \in Seq(Words)
<1>1. CodeFits
  BY DEF Executing
<1>2. /\ Written.op = "call" /\ Written \in Calls /\ ArgumentsPacked
      /\ Instruction.nargs = Written.nargs
  BY <1>1, Decoded
<1>3. Written.nargs \in Byte /\ Written.args \in Seq(Byte)
  BY <1>2 DEF Calls
<1>4. Len(Written.args) = Written.nargs
  BY <1>2 DEF ArgumentsPacked, Packed
<1>5. Written.nargs \in Nat
  <2>1. \A n \in Byte : n \in Nat
    BY DEF Byte
  <2> QED BY <1>3, <2>1
<1>6. DOMAIN Written.args = 1 .. Len(Written.args)
  BY <1>3
<1>7. ASSUME NEW n \in 1 .. Written.nargs
      PROVE  Argument(n) = GetLocal(Written.args[n]) /\ GetLocal(Written.args[n]) \in Words
  <2>1. Argument(n) = GetLocal(Written.args[n])
    BY <1>1, <1>2, ArgumentsDecoded
  <2>2. Written.args[n] \in Slots
    <3>1. SlotsNamed(Written) \subseteq Slots
      BY <1>1 DEF CodeFits, Slots
    <3>2. SlotsNamed(Written) = { Written.dest, Written.func }
            \cup { Written.args[k] : k \in DOMAIN Written.args }
      BY <1>2 DEF SlotsNamed
    <3>3. n \in DOMAIN Written.args
      BY <1>4, <1>6
    <3> QED BY <3>1, <3>2, <3>3
  <2> QED BY <2>1, <2>2, SlotWords
<1>8. [ n \in 1 .. Written.nargs |-> Argument(n) ] =
        [ n \in DOMAIN Written.args |-> GetLocal(Written.args[n]) ]
  BY <1>4, <1>6, <1>7
<1>9. [ n \in 1 .. Written.nargs |-> Argument(n) ] \in Seq(Words)
  BY <1>5, <1>7, IsASeq
<1> QED BY <1>2, <1>4, <1>5, <1>6, <1>8, <1>9

-----------------------------------------------------------------------------
(* What an instruction leaves: a chain on the same base, and a procedure    *)
(* that runs in its module and its frame.                                   *)
Sound(f) ==
  /\ stack' \in Stacks /\ stack_pointer' \in 0 .. StackSize - 1
  /\ \E g : IsChain(stack', stack_pointer', g) /\ g[1] = f[1]
  /\ current_procedure' \in Procedures
  /\ current_module' = ModuleOf[current_procedure']
  /\ stack'[stack_pointer' + NUM_LOCALS_SLOT] = NumLocals[current_procedure']
  /\ code_pointer' \in Nat
  /\ RegistersOK'
  /\ result' \in Values
  /\ mode' \in { "idle", "running", "aborted" }
  /\ error' \in Errors
  /\ mode' = "running" => error' = "OK"

LEMMA GoingOn ==
  ASSUME NEW f, Executing(f), GoOn, error' \in Errors
  PROVE  /\ result' \in Values /\ mode' \in { "idle", "running", "aborted" }
         /\ mode' = "running" => error' = "OK"
<1>1. result \in Values /\ N_UNDEFINED \in Values
  BY Facts, ValueTypes
<1> QED BY <1>1 DEF GoOn

LEMMA WriteIsSound ==
  ASSUME NEW f, Executing(f), NEW i \in Slots, NEW value \in Words, SetLocal(i, value),
         NEW place \in Nat, Proceed(place), UNCHANGED registers
  PROVE  Sound(f)
<1>1. SlotWritten(stack, stack', stack_pointer, f, current_procedure, i, value)
  <2>1. stack \in Stacks /\ IsChain(stack, stack_pointer, f)
    BY Facts
  <2>2. i \in 0 .. FrameSize(stack_pointer) - STACK_SLOTS - 1
    BY DEF Slots
  <2> QED BY <2>1, <2>2, LocalWritten
<1>2. /\ stack' \in Stacks /\ IsChain(stack', stack_pointer', f)
      /\ stack'[stack_pointer' + NUM_LOCALS_SLOT] = FrameWord(NUM_LOCALS_SLOT)
  BY <1>1, 4 \in 0 .. STACK_SLOTS - 1 DEF SlotWritten, Proceed, FrameWord
<1>3. error' \in Errors
  BY Facts DEF Proceed, Errors
<1>4. /\ result' \in Values /\ mode' \in { "idle", "running", "aborted" }
      /\ mode' = "running" => error' = "OK"
  BY <1>3, GoingOn DEF Proceed
<1>5. RegistersOK'
  BY Facts DEF RegistersOK
<1>6. /\ current_procedure' \in Procedures
      /\ current_module' = ModuleOf[current_procedure']
      /\ FrameWord(NUM_LOCALS_SLOT) = NumLocals[current_procedure']
      /\ stack_pointer' \in 0 .. StackSize - 1
      /\ code_pointer' \in Nat
  BY Facts DEF Proceed
<1> QED BY <1>2, <1>3, <1>4, <1>5, <1>6 DEF Sound

LEMMA GoOnIsSound ==
  ASSUME NEW f, Executing(f), UNCHANGED stack, NEW place \in Nat, Proceed(place), RegistersOK'
  PROVE  Sound(f)
<1>1. error' \in Errors
  BY Facts DEF Proceed, Errors
<1>2. /\ result' \in Values /\ mode' \in { "idle", "running", "aborted" }
      /\ mode' = "running" => error' = "OK"
  BY <1>1, GoingOn DEF Proceed
<1>3. /\ stack' \in Stacks /\ IsChain(stack', stack_pointer', f)
      /\ stack_pointer' \in 0 .. StackSize - 1 /\ code_pointer' \in Nat
      /\ current_procedure' \in Procedures
      /\ current_module' = ModuleOf[current_procedure']
      /\ stack'[stack_pointer' + NUM_LOCALS_SLOT] = NumLocals[current_procedure']
  BY Facts DEF Proceed, FrameWord
<1> QED BY <1>1, <1>2, <1>3 DEF Sound

LEMMA StayIsSound ==
  ASSUME NEW f, Executing(f),
         UNCHANGED << registers, stack, current_module, current_procedure, code_pointer,
                      stack_pointer >>,
         result' \in Values, mode' \in { "idle", "aborted" }, error' \in Errors
  PROVE  Sound(f)
<1>1. RegistersOK'
  BY Facts DEF RegistersOK
<1>2. /\ stack' \in Stacks /\ IsChain(stack', stack_pointer', f)
      /\ stack_pointer' \in 0 .. StackSize - 1 /\ code_pointer' \in Nat
      /\ current_procedure' \in Procedures
      /\ current_module' = ModuleOf[current_procedure']
      /\ stack'[stack_pointer' + NUM_LOCALS_SLOT] = NumLocals[current_procedure']
  BY Facts DEF FrameWord
<1> QED BY <1>1, <1>2 DEF Sound

LEMMA AbortIsSound ==
  ASSUME NEW f, Executing(f), Abort, UNCHANGED registers
  PROVE  Sound(f)
<1>1. /\ result' \in Values /\ error' \in Errors /\ mode' \in { "idle", "aborted" }
      /\ UNCHANGED << stack, current_module, current_procedure, code_pointer, stack_pointer >>
  BY Facts DEF Abort, Errors
<1> QED BY <1>1, StayIsSound

LEMMA CallIsSound ==
  ASSUME NEW f, Executing(f), NEW callee \in Procedures, NEW dest \in Slots,
         NEW args \in Seq(Words), NEW skip \in Nat,
         FrameWord(NUM_ARGS_SLOT) <= 1,
         CallProcedure(callee, dest, args, skip), UNCHANGED registers
  PROVE  /\ Called(stack, stack', f, stack_pointer', current_procedure, callee, dest, args,
                    code_pointer + skip + 1)
         /\ Sound(f)
<1>1. Called(stack, stack', f, stack_pointer', current_procedure, callee, dest, args,
             code_pointer + skip + 1)
  <2>1. /\ stack \in Stacks /\ IsChain(stack, stack_pointer, f)
        /\ current_procedure \in Procedures /\ code_pointer \in Nat
        /\ FrameWord(NUM_LOCALS_SLOT) = NumLocals[current_procedure]
    BY Facts
  <2>2. dest \in 0 .. FrameSize(stack_pointer) - STACK_SLOTS - 1
    BY DEF Slots
  <2> QED BY <2>1, <2>2, ProcedureCalled
<1>2. /\ stack' \in Stacks /\ stack_pointer' \in 0 .. StackSize - 1
      /\ IsChain(stack', stack_pointer', Append(f, stack_pointer'))
      /\ stack'[stack_pointer' + NUM_LOCALS_SLOT] = NumLocals[callee]
  BY <1>1 DEF Called
<1>3. Append(f, stack_pointer')[1] = f[1]
  <2>1. f \in Seq(0 .. StackSize - 1) /\ 1 \in 1 .. Len(f)
    <3> DEFINE n == Len(f)
    <3>1. n \in Nat \ { 0 }
      BY Facts, ChainTypes
    <3> HIDE DEF n
    <3>2. 1 \in 1 .. n
      BY <3>1
    <3> QED BY <3>2, Facts DEF n, IsChain
  <2> QED BY <2>1, <1>2, AppendProperties
<1>4. /\ current_procedure' = callee /\ current_module' = ModuleOf[callee]
      /\ code_pointer' = EntryPoint[callee] /\ error' = error /\ GoOn
  BY DEF CallProcedure
<1>5. EntryPoint[callee] \in Nat
  BY FramesAssumption
<1>6. error' \in Errors
  BY <1>4, Facts DEF Errors
<1>7. /\ result' \in Values /\ mode' \in { "idle", "running", "aborted" }
      /\ mode' = "running" => error' = "OK"
  BY <1>4, <1>6, GoingOn
<1>8. RegistersOK'
  BY Facts DEF RegistersOK
<1> QED BY <1>1, <1>2, <1>3, <1>4, <1>5, <1>6, <1>7, <1>8 DEF Sound

LEMMA InvokeIsSound ==
  ASSUME NEW f, Executing(f), Written.op \in { "call", "call_sva" },
         NEW callee, callee = GetLocal(Written.func), NEW dest \in Slots,
         NEW args \in Seq(Words), NEW skip \in Nat,
         Invoke(callee, dest, args, skip), UNCHANGED registers
  PROVE  Sound(f)
<1>1. CASE callee \in Procedures /\ CallProcedure(callee, dest, args, skip)
  <2>1. FrameWord(NUM_ARGS_SLOT) <= 1
    BY <1>1 DEF Executing, CallerTakesOne
  <2> QED BY <1>1, <2>1, CallIsSound
<1>2. CASE /\ \E value \in Data : SetLocal(dest, value)
           /\ Proceed(code_pointer + 1 + skip)
  <2>1. PICK value \in Data : SetLocal(dest, value)
    BY <1>2
  <2>2. value \in Words
    BY ValueTypes
  <2>3. code_pointer + 1 + skip \in Nat
    BY Facts
  <2> QED BY <1>2, <2>1, <2>2, <2>3, WriteIsSound
<1>3. CASE Abort
  BY <1>3, AbortIsSound
<1> QED BY <1>1, <1>2, <1>3 DEF Invoke

LEMMA CallSvaIsSound ==
  ASSUME NEW f, Executing(f), OpCallSva
  PROVE  Sound(f)
<1>1. CodeFits
  BY DEF Executing
<1>2. /\ Instruction.op = "call_sva" /\ Written.op = "call_sva"
      /\ Instruction.dest \in Slots /\ Instruction.arg \in Slots
      /\ Instruction.func = Written.func
  BY <1>1, Operands, Decoded DEF OpCallSva
<1>3. << GetLocal(Instruction.arg) >> \in Seq(Words)
  <2>1. GetLocal(Instruction.arg) \in Words
    BY <1>2, SlotWords
  <2> QED BY <2>1
<1>4. /\ Invoke(GetLocal(Instruction.func), Instruction.dest,
                << GetLocal(Instruction.arg) >>, 0)
      /\ UNCHANGED registers
  BY DEF OpCallSva
<1> QED BY <1>2, <1>3, <1>4, InvokeIsSound

LEMMA OpCallIsSound ==
  ASSUME NEW f, Executing(f), OpCall
  PROVE  Sound(f)
<1> DEFINE nargs == Instruction.nargs
<1> DEFINE args == [ i \in 1 .. nargs |-> Argument(i) ]
<1> DEFINE skip == nargs \div 4 + (IF nargs % 4 > 0 THEN 1 ELSE 0)
<1>1. CodeFits
  BY DEF Executing
<1>2. Instruction.op = "call"
  BY DEF OpCall
<1>3. /\ Written.op = "call"
      /\ Instruction.dest \in Slots
      /\ Instruction.func = Written.func
  BY <1>1, <1>2, Operands, Decoded
<1>4. args \in Seq(Words) /\ nargs \in Nat
  BY <1>2, CallArguments
<1>5. skip \in Nat
  <2> HIDE DEF nargs
  <2> QED BY <1>4
<1>6. Invoke(GetLocal(Instruction.func), Instruction.dest, args, skip) /\ UNCHANGED registers
  BY DEF OpCall
<1> HIDE DEF nargs, args, skip
<1> QED BY <1>3, <1>4, <1>5, <1>6, InvokeIsSound

LEMMA ReturnIsSound ==
  ASSUME NEW f, Executing(f), OpReturn
  PROVE  Sound(f)
<1>1. CodeFits
  BY DEF Executing
<1> DEFINE output == GetLocal(Instruction.source)
<1>2. output \in Values /\ output \in Words
  <2>1. output \in Values
    BY <1>1, Operands DEF OpReturn
  <2> QED BY <2>1, ValueTypes
<1>3. UNCHANGED << registers, error >>
  BY DEF OpReturn
<1>4. CASE FrameWord(CALLER_SLOT) = N_UNDEFINED
  <2>1. /\ mode' = "idle" /\ result' = output
        /\ UNCHANGED << stack, current_module, current_procedure, code_pointer,
                        stack_pointer >>
    BY <1>4 DEF OpReturn
  <2>2. result' \in Values /\ error' \in Errors /\ mode' \in { "idle", "aborted" }
    BY <1>2, <1>3, <2>1, Facts DEF Errors
  <2> QED BY <1>3, <2>1, <2>2, StayIsSound
<1>5. CASE FrameWord(CALLER_SLOT) # N_UNDEFINED
  <2>1. PopStackFrame /\ Deliver(output) /\ GoOn
    BY <1>5 DEF OpReturn
  <2> HIDE DEF output
  <2> DEFINE g == SubSeq(f, 1, Len(f) - 1)
  <2>2. /\ Popped(stack, stack_pointer, f, current_procedure, g)
        /\ SlotWritten(stack, stack', FrameWord(STACK_POINTER_SLOT), g,
                       FrameWord(CALLER_SLOT), FrameWord(RETURN_SLOT), output)
    BY <1>2, <1>5, <2>1, Facts, ProcedureReturned
  <2> HIDE DEF g
  <2>3. /\ stack_pointer' = FrameWord(STACK_POINTER_SLOT)
        /\ code_pointer' = FrameWord(CODE_POINTER_SLOT)
        /\ current_procedure' = FrameWord(CALLER_SLOT)
        /\ current_module' = ModuleOf[FrameWord(CALLER_SLOT)]
    BY <2>1 DEF PopStackFrame
  <2>4. Linked(stack, stack_pointer', stack_pointer) /\ g[1] = f[1]
    BY <2>2, <2>3 DEF Popped, FrameWord
  <2>5. /\ current_procedure' \in Procedures /\ code_pointer' \in Nat
        /\ stack[stack_pointer' + NUM_LOCALS_SLOT] = NumLocals[current_procedure']
    BY <2>3, <2>4 DEF Linked, FrameWord
  <2>6. /\ stack' \in Stacks /\ IsChain(stack', stack_pointer', g)
        /\ stack'[stack_pointer' + NUM_LOCALS_SLOT] = NumLocals[current_procedure']
    BY <2>2, <2>3, <2>5, 4 \in 0 .. STACK_SLOTS - 1 DEF SlotWritten
  <2>7. stack_pointer' \in 0 .. StackSize - 1
    <3>1. g \in Seq(0 .. StackSize - 1) /\ g[Len(g)] = stack_pointer' /\ g # << >>
      BY <2>6 DEF IsChain
    <3>2. Len(g) \in 1 .. Len(g)
      <4> DEFINE n == Len(g)
      <4>1. n \in Nat \ { 0 }
        BY <2>6, ChainTypes
      <4> HIDE DEF n
      <4>2. n \in 1 .. n
        BY <4>1
      <4> QED BY <4>2 DEF n
    <3> QED BY <3>1, <3>2, ElementOfSeq
  <2>8. error' \in Errors
    BY <1>3, Facts DEF Errors
  <2>9. /\ result' \in Values /\ mode' \in { "idle", "running", "aborted" }
        /\ mode' = "running" => error' = "OK"
    BY <2>1, <2>8, GoingOn
  <2>10. RegistersOK'
    BY <1>3, Facts DEF RegistersOK
  <2>11. current_module' = ModuleOf[current_procedure']
    BY <2>3
  <2> QED BY <2>4, <2>5, <2>6, <2>7, <2>8, <2>9, <2>10, <2>11 DEF Sound
<1> QED BY <1>4, <1>5

LEMMA JumpPlace ==
  ASSUME NEW f, Executing(f),
         Instruction.op \in { "jump", "jump_if", "jump_unless" }
  PROVE  code_pointer + Instruction.offset \in Nat
<1>1. CodeFits
  BY DEF Executing
<1>2. code_pointer + Instruction.offset \in DOMAIN code[current_module]
  BY <1>1, Operands
<1>3. code \in Programs /\ current_module \in Modules
  BY Facts
<1> QED BY <1>2, <1>3, FramesAssumption

LEMMA StepIsSound ==
  ASSUME NEW f, Executing(f), Step
  PROVE  Sound(f)
<1>1. /\ CodeFits /\ code_pointer \in Nat /\ code_pointer + 1 \in Nat
      /\ RegistersOK /\ current_module \in Modules
  BY Facts DEF Executing
<1>2. CASE OpCallSva
  BY <1>2, CallSvaIsSound
<1>3. CASE OpCall
  BY <1>3, OpCallIsSound
<1>4. CASE OpReturn
  BY <1>4, ReturnIsSound
<1>5. CASE OpGlobalRef
  <2>1. /\ Instruction.dest \in Slots
        /\ Instruction.source \in DOMAIN registers[current_module]
    BY <1>1, <1>5, Operands DEF OpGlobalRef
  <2>2. registers[current_module][Instruction.source] \in Words
    BY <1>1, <2>1, ValueTypes DEF RegistersOK
  <2> QED BY <1>1, <1>5, <2>1, <2>2, WriteIsSound DEF OpGlobalRef
<1>6. CASE OpGlobalSet
  <2>1. /\ Instruction.dest \in DOMAIN registers[current_module]
        /\ GetLocal(Instruction.source) \in Values
    BY <1>1, <1>6, Operands DEF OpGlobalSet
  <2>2. registers' = [registers EXCEPT
                       ![current_module][Instruction.dest] = GetLocal(Instruction.source)]
    BY <1>6 DEF OpGlobalSet
  <2>3. RegistersOK'
    BY <1>1, <2>1, <2>2 DEF RegistersOK
  <2> QED BY <1>1, <1>6, <2>3, GoOnIsSound DEF OpGlobalSet
<1>7. ASSUME UNCHANGED registers PROVE RegistersOK'
  BY <1>1, <1>7 DEF RegistersOK
<1>8. CASE OpJump
  <2>1. code_pointer + Instruction.offset \in Nat
    BY <1>8, JumpPlace DEF OpJump
  <2> QED BY <1>7, <1>8, <2>1, GoOnIsSound DEF OpJump
<1>9. CASE OpJumpIf
  <2>1. code_pointer + Instruction.offset \in Nat
    BY <1>9, JumpPlace DEF OpJumpIf
  <2> QED BY <1>1, <1>7, <1>9, <2>1, GoOnIsSound DEF OpJumpIf
<1>10. CASE OpJumpUnless
  <2>1. code_pointer + Instruction.offset \in Nat
    BY <1>10, JumpPlace DEF OpJumpUnless
  <2> QED BY <1>1, <1>7, <1>10, <2>1, GoOnIsSound DEF OpJumpUnless
<1>11. CASE OpLoad
  <2>1. PICK value \in Bundles \cup { N_UNDEFINED } : SetLocal(Instruction.dest, value)
    BY <1>11 DEF OpLoad
  <2>2. value \in Words /\ Instruction.dest \in Slots
    BY <1>1, <1>11, ValueTypes, Operands DEF OpLoad
  <2> QED BY <1>1, <1>11, <2>1, <2>2, WriteIsSound DEF OpLoad
<1>12. CASE OpNewBundle
  <2>1. PICK value \in Bundles \cup { NULL } : SetLocal(Instruction.dest, value)
    BY <1>12 DEF OpNewBundle
  <2>2. value \in Words /\ Instruction.dest \in Slots
    BY <1>1, <1>12, ValueTypes, Operands DEF OpNewBundle
  <2> QED BY <1>1, <1>12, <2>1, <2>2, WriteIsSound DEF OpNewBundle
<1>13. CASE OpBundleGet
  <2>1. CASE Abort
    BY <1>13, <2>1, AbortIsSound DEF OpBundleGet
  <2>2. CASE /\ \E value \in Values : SetLocal(Instruction.dest, value)
             /\ Proceed(code_pointer + 1)
    <3>1. PICK value \in Values : SetLocal(Instruction.dest, value)
      BY <2>2
    <3>2. value \in Words /\ Instruction.dest \in Slots
      BY <1>1, <1>13, ValueTypes, Operands DEF OpBundleGet
    <3> QED BY <1>1, <1>13, <2>2, <3>1, <3>2, WriteIsSound DEF OpBundleGet
  <2> QED BY <1>13, <2>1, <2>2 DEF OpBundleGet
<1>14. CASE OpBundleSet
  BY <1>1, <1>7, <1>14, GoOnIsSound, AbortIsSound DEF OpBundleSet
<1>15. CASE OpBundleClose
  BY <1>1, <1>7, <1>15, GoOnIsSound, AbortIsSound DEF OpBundleClose
<1>16. CASE UnknownOpcode
  <2>1. /\ error' = "UNKNOWN_OPCODE" /\ mode' = "idle" /\ result' = N_UNDEFINED
        /\ UNCHANGED << registers, stack, current_module, current_procedure, code_pointer,
                        stack_pointer >>
    BY <1>16 DEF UnknownOpcode, GoOn
  <2>2. result' \in Values /\ error' \in Errors /\ mode' \in { "idle", "aborted" }
    BY <2>1, ValueTypes DEF Errors
  <2> QED BY <2>1, <2>2, StayIsSound
<1> QED BY <1>2, <1>3, <1>4, <1>5, <1>6, <1>8, <1>9, <1>10, <1>11, <1>12, <1>13, <1>14,
          <1>15, <1>16 DEF Step

-----------------------------------------------------------------------------
(* The invariant holds at the start and every step keeps it, as long as the *)
(* code is well formed.                                                     *)
LEMMA InitInv == Init => Inv
<1> SUFFICES ASSUME Init PROVE Inv
  OBVIOUS
<1>1. RegistersOK /\ code \in Programs
  BY FramesAssumption DEF Init, RegistersOK
<1>2. stack \in [0 .. StackSize - 1 -> Words] /\ stack_pointer \in DOMAIN stack
  BY FramesAssumption DEF Init, Words
<1>3. /\ current_module \in Modules \cup { NO_MODULE }
      /\ current_procedure \in Procedures \cup { N_UNDEFINED }
      /\ code_pointer \in Nat /\ mode \in { "idle", "running", "aborted" }
      /\ error \in Errors /\ watched \in BOOLEAN /\ result \in Values
      /\ mode # "running"
  BY ValueTypes DEF Init, Errors
<1> QED BY <1>1, <1>2, <1>3 DEF Inv, TypeOK, RegistersOK

LEMMA EntryTypes ==
  ASSUME Inv, current_module # NO_MODULE
  PROVE  Entry \in Values
<1>1. current_module \in Modules /\ RegistersOK
  BY DEF Inv, TypeOK, RegistersOK
<1>2. /\ registers[current_module] \in [DOMAIN InitialGlobals[current_module] -> Values]
      /\ EntryRegister[current_module] \in DOMAIN InitialGlobals[current_module]
  BY <1>1, FramesAssumption DEF RegistersOK
<1> QED BY <1>2 DEF Entry

LEMMA SetupInv ==
  ASSUME Inv, NEW module \in Modules, Setup(module)
  PROVE  Inv'
BY DEF Inv, TypeOK, Setup

LEMMA AnswerInv ==
  ASSUME Inv, NEW given \in BOOLEAN, RunWithoutProcedure(given)
  PROVE  Inv'
<1>1. result' \in Values /\ error' \in Errors
  BY EntryTypes, ValueTypes DEF RunWithoutProcedure, Errors
<1>2. /\ mode' # "running" /\ watched' \in BOOLEAN
      /\ UNCHANGED << code, registers, stack, current_module, current_procedure,
                      code_pointer, stack_pointer, mode >>
  BY DEF RunWithoutProcedure
<1> QED BY <1>1, <1>2 DEF Inv, TypeOK

LEMMA RunInv ==
  ASSUME Inv, NEW given \in BOOLEAN, RunProcedure(given)
  PROVE  Inv'
<1>1. /\ code \in Programs /\ RegistersOK /\ result \in Values
      /\ stack \in Stacks /\ stack_pointer \in 0 .. StackSize - 1
  BY DEF Inv, TypeOK, Stacks, RegistersOK
<1>2. /\ Entry \in Procedures
      /\ stack_pointer + STACK_SLOTS + NumLocals[Entry] <= StackSize
      /\ stack' = [stack EXCEPT
                     ![stack_pointer + CALLER_SLOT] = N_UNDEFINED,
                     ![stack_pointer + NUM_LOCALS_SLOT] = NumLocals[Entry],
                     ![stack_pointer + NUM_ARGS_SLOT] = 0]
      /\ mode' = "running" /\ watched' = given
      /\ error' \in IF given THEN { "OK" } ELSE { "OK", "garbage" }
      /\ current_module' = ModuleOf[Entry]
      /\ current_procedure' = Entry
      /\ code_pointer' = EntryPoint[Entry]
      /\ UNCHANGED << code, registers, stack_pointer, result >>
  BY DEF RunProcedure
<1> DEFINE entry == Entry
<1> HIDE DEF entry
<1>3. /\ stack' \in Stacks
      /\ IsChain(stack', stack_pointer, << stack_pointer >>)
      /\ stack'[stack_pointer + NUM_LOCALS_SLOT] = NumLocals[entry]
  BY <1>1, <1>2, RunBegun DEF entry
<1>4. /\ EntryPoint[entry] \in Nat /\ ModuleOf[entry] \in Modules /\ entry \in Procedures
  BY <1>2, FramesAssumption DEF entry
<1>5. stack'[stack_pointer' + CALLER_SLOT] \in Procedures \cup { N_UNDEFINED }
  BY <1>2, <1>3, ChainCaller
<1>6. error' \in { "OK", "garbage" } /\ (watched' => error' = "OK") /\ watched' \in BOOLEAN
  BY <1>2
<1>7. /\ code' \in Programs /\ RegistersOK' /\ result' \in Values
      /\ stack' \in Stacks /\ stack_pointer' \in 0 .. StackSize - 1
      /\ stack_pointer' \in DOMAIN stack'
  BY <1>1, <1>2, <1>3 DEF RegistersOK, Stacks
<1> QED BY <1>2, <1>3, <1>4, <1>5, <1>6, <1>7
        DEF Inv, TypeOK, RegistersOK, Stacks, Errors, FrameWord, entry

LEMMA StepInv ==
  ASSUME Inv, CodeWellFormed, Step
  PROVE  Inv'
<1>1. PICK f : IsChain(stack, stack_pointer, f)
  BY DEF Inv, Step
<1>2. Executing(f)
  BY <1>1 DEF Executing, CodeWellFormed, Step
<1>3. Sound(f)
  BY <1>2, StepIsSound
<1>4. PICK g : IsChain(stack', stack_pointer', g)
  BY <1>3 DEF Sound
<1>5. stack'[stack_pointer' + CALLER_SLOT] \in Procedures \cup { N_UNDEFINED }
  BY <1>4, ChainCaller
<1>6. UNCHANGED << code, watched >>
  BY DEF Step
<1>7. code' \in Programs /\ watched' \in BOOLEAN
  BY <1>6 DEF Inv, TypeOK
<1>8. current_module' \in Modules /\ stack_pointer' \in DOMAIN stack'
  BY <1>3, FramesAssumption DEF Sound, Stacks
<1>9. RegistersOK'
  BY <1>3 DEF Sound
<1> QED BY <1>3, <1>4, <1>5, <1>7, <1>8, <1>9
        DEF Inv, TypeOK, Sound, RegistersOK, Stacks, FrameWord

LEMMA NextInv == Inv /\ CodeWellFormed /\ [Next]_vars => Inv'
<1> SUFFICES ASSUME Inv, CodeWellFormed, [Next]_vars PROVE Inv'
  OBVIOUS
<1>1. CASE UNCHANGED vars
  BY <1>1 DEF vars, Inv, TypeOK, FrameWord
<1>2. CASE Next
  BY <1>2, SetupInv, AnswerInv, RunInv, StepInv DEF Next
<1> QED BY <1>1, <1>2

LEMMA Invariance == Spec /\ []CodeWellFormed => []Inv
BY InitInv, NextInv, PTL DEF Spec

(* The words of each kind stay where they belong (n_stack_get is cast from  *)
(* words nobody tags): whatever well-formed code does, the pointers stay in *)
(* the stack and in the code, and the running frame has its bookkeeping.    *)
THEOREM TypesHold == Spec /\ []CodeWellFormed => []TypeOK
<1>1. Inv => TypeOK
  BY DEF Inv
<1> QED BY <1>1, Invariance, PTL

LEMMA ChainOfFrames ==
  ASSUME stack \in Stacks, NEW f, IsChain(stack, stack_pointer, f)
  PROVE  Frames = f
BY ChainIsFrames DEF Frames

(* The frame of a procedure starts where the caller's frame ends or later   *)
(* (_call_procedure over the NUM_LOCALS and NUM_ARGS words): no call writes *)
(* its bookkeeping over the arguments or locals of any procedure that waits. *)
THEOREM FramesAreDisjoint == Spec /\ []CodeWellFormed => []FramesDisjoint
<1>1. Inv => FramesDisjoint
  <2> SUFFICES ASSUME Inv, mode = "running", NEW i \in 1 .. Len(Frames) - 1
               PROVE  Frames[i] + FrameSize(Frames[i]) <= Frames[i + 1]
    BY DEF FramesDisjoint
  <2>1. PICK f : IsChain(stack, stack_pointer, f)
    BY DEF Inv
  <2>2. Frames = f
    BY <2>1, ChainOfFrames DEF Inv, TypeOK, Stacks
  <2>3. i \in 1 .. Len(f) /\ i + 1 \in 1 .. Len(f) /\ i < i + 1
    <3> DEFINE n == Len(f)
    <3>1. n \in Nat /\ i \in 1 .. n - 1
      BY <2>1, <2>2, ChainTypes
    <3> HIDE DEF n
    <3>2. i \in 1 .. n /\ i + 1 \in 1 .. n /\ i < i + 1
      BY <3>1
    <3> QED BY <3>2 DEF n
  <2>4. f[i] + SizeIn(stack, f[i]) <= f[i + 1]
    BY <2>1, <2>3 DEF IsChain
  <2> QED BY <2>2, <2>4 DEF FrameSize, SizeIn
<1> QED BY <1>1, Invariance, PTL

(* A call starts its frame one word behind the caller's locals, and a       *)
(* return takes it away again: between the frames of a run there is never   *)
(* more than that, nor less.                                                *)
THEOREM FramesAreAdjacent == Spec /\ []CodeWellFormed => []FramesAdjacent
<1>1. Inv => FramesAdjacent
  <2> SUFFICES ASSUME Inv, mode = "running", NEW i \in 1 .. Len(Frames) - 1
               PROVE  Frames[i + 1] =
                        Frames[i] + STACK_SLOTS + NumLocals[ProcedureAt(i)] + 1
    BY DEF FramesAdjacent
  <2>1. PICK f : IsChain(stack, stack_pointer, f)
    BY DEF Inv
  <2>2. Frames = f
    BY <2>1, ChainOfFrames DEF Inv, TypeOK, Stacks
  <2>3. i # Len(f)
    <3> DEFINE n == Len(f)
    <3>1. n \in Nat /\ i \in 1 .. n - 1
      BY <2>1, <2>2, ChainTypes
    <3> HIDE DEF n
    <3>2. i # n
      BY <3>1
    <3> QED BY <3>2 DEF n
  <2>4. Linked(stack, f[i], f[i + 1])
    BY <2>1, <2>2 DEF IsChain
  <2>5. ProcedureAt(i) = stack[f[i + 1] + CALLER_SLOT]
    BY <2>2, <2>3 DEF ProcedureAt
  <2> QED BY <2>2, <2>4, <2>5 DEF Linked
<1> QED BY <1>1, Invariance, PTL

(* Frames of a run at most as large as the largest are bounded by their     *)
(* number.                                                                  *)
LEMMA OneFrameMore ==
  \A k, c, a, b, d \in Nat :
    a <= b + k * c /\ d <= c => a + d <= b + (k + 1) * c
<1> TAKE k, c, a, b, d \in Nat
<1>1. (k + 1) * c = k * c + c
  OBVIOUS
<1>2. k * c \in Nat
  OBVIOUS
<1> QED BY <1>1, <1>2

LEMMA FramesByDepth ==
  ASSUME NEW most \in Nat, \A procedure \in Procedures : NumLocals[procedure] <= most,
         NEW words, NEW top, NEW f, IsChain(words, top, f)
  PROVE  /\ f[1] \in Nat /\ top \in Nat
         /\ top <= f[1] + (Len(f) - 1) * (STACK_SLOTS + 1 + most)
<1> DEFINE n == Len(f)
           size == STACK_SLOTS + 1 + most
           S == { k \in Nat : k + 1 \in 1 .. n => f[k + 1] <= f[1] + k * size }
<1>1. n \in Nat \ { 0 } /\ f[n] = top /\ \A k \in 1 .. n : f[k] \in 0 .. StackSize - 1
  BY ChainTypes DEF IsChain
<1>2. \A k \in 1 .. n - 1 : Linked(words, f[k], f[k + 1])
  BY DEF IsChain
<1>3. size \in Nat
  OBVIOUS
<1> HIDE DEF n, size
<1>4. 1 \in 1 .. n /\ n \in 1 .. n /\ n - 1 \in Nat /\ (n - 1) + 1 = n
  BY <1>1
<1>5. \A k \in 1 .. n : f[k] \in Nat
  <2>1. \A m : m \in 0 .. StackSize - 1 => m \in Nat
    BY FramesAssumption
  <2> QED BY <1>1, <2>1, Zenon
<1>6. 0 \in S
  <2>1. \A a \in Nat : a <= a + 0 * size
    BY <1>3
  <2>2. f[0 + 1] <= f[1] + 0 * size
    BY <1>4, <1>5, <2>1
  <2> QED BY <2>2
<1>7. ASSUME NEW k \in 0 .. (n - 1) - 1, k \in S PROVE k + 1 \in S
  <2>1. k \in Nat /\ k + 1 \in 1 .. n /\ k + 1 \in 1 .. n - 1 /\ (k + 1) + 1 \in 1 .. n
    BY <1>1
  <2> DEFINE caller == words[f[(k + 1) + 1] + CALLER_SLOT]
  <2>2. caller \in Procedures /\ f[(k + 1) + 1] = f[k + 1] + STACK_SLOTS + NumLocals[caller] + 1
    BY <1>2, <2>1 DEF Linked
  <2> HIDE DEF caller
  <2>3. NumLocals[caller] \in 0 .. 255 /\ NumLocals[caller] <= most
    BY <2>2, FramesAssumption
  <2>4. f[k + 1] \in Nat /\ f[1] \in Nat /\ f[k + 1] <= f[1] + k * size
    BY <1>4, <1>5, <1>7, <2>1
  <2> DEFINE more == STACK_SLOTS + NumLocals[caller] + 1
  <2>5. more \in Nat /\ more <= size /\ f[(k + 1) + 1] = f[k + 1] + more
    BY <2>2, <2>3, <2>4 DEF size
  <2> HIDE DEF more
  <2>6. f[k + 1] + more <= f[1] + (k + 1) * size
    BY <1>3, <2>1, <2>4, <2>5, OneFrameMore
  <2> QED BY <2>1, <2>5, <2>6
<1>8. n - 1 \in S
  <2> HIDE DEF S
  <2>1. \A k \in 0 .. n - 1 : k \in S
    BY <1>4, <1>6, <1>7, Induction
  <2> QED BY <1>4, <2>1
<1>9. top <= f[1] + (n - 1) * size
  BY <1>1, <1>4, <1>8
<1> QED BY <1>1, <1>4, <1>5, <1>9 DEF n, size

(* Where a call of the running procedure would end its frame, arguments     *)
(* included.                                                                *)
CallEnd(callee, nargs) == NextStackPointer + STACK_SLOTS + NumLocals[callee] + nargs

(* Nothing compares the stack pointer with the size of the stack            *)
(* (_call_procedure), but the depth of the calls decides where it gets: the *)
(* frame of a call ends, arguments aside, within as many frames of the      *)
(* largest size as there will be frames, from where the run began.          *)
THEOREM DepthBoundsStack ==
  ASSUME NEW most \in Nat, \A procedure \in Procedures : NumLocals[procedure] <= most
  PROVE  Spec /\ []CodeWellFormed =>
           [](mode = "running" =>
                \A callee \in Procedures, nargs \in Nat :
                  CallEnd(callee, nargs)
                    < Frames[1] + (Len(Frames) + 1) * (STACK_SLOTS + 1 + most) + nargs)
<1> DEFINE Bounded ==
             mode = "running" =>
                \A callee \in Procedures, nargs \in Nat :
                  CallEnd(callee, nargs)
                    < Frames[1] + (Len(Frames) + 1) * (STACK_SLOTS + 1 + most) + nargs
<1>1. Inv => Bounded
  <2> SUFFICES ASSUME Inv, mode = "running", NEW callee \in Procedures, NEW nargs \in Nat
               PROVE  CallEnd(callee, nargs)
                        < Frames[1] + (Len(Frames) + 1) * (STACK_SLOTS + 1 + most) + nargs
    OBVIOUS
  <2>1. PICK f : IsChain(stack, stack_pointer, f)
    BY DEF Inv
  <2>2. Frames = f
    BY <2>1, ChainOfFrames DEF Inv, TypeOK, Stacks
  <2> DEFINE size == STACK_SLOTS + 1 + most
             n == Len(f)
  <2>3. f[1] \in Nat /\ stack_pointer \in Nat /\ stack_pointer <= f[1] + (n - 1) * size
    BY <2>1, FramesByDepth
  <2>4. n \in Nat \ { 0 }
    BY <2>1, ChainTypes
  <2>5. CallEnd(callee, nargs) =
          stack_pointer + NumLocals[current_procedure] + 6 + 1 + 6 + NumLocals[callee] + nargs
    BY DEF CallEnd, NextStackPointer, Inv, TypeOK
  <2>6. \A procedure \in Procedures : NumLocals[procedure] \in Nat /\ NumLocals[procedure] <= most
    <3>1. \A m \in 0 .. 255 : m \in Nat
      OBVIOUS
    <3> QED BY <3>1, FramesAssumption, Zenon
  <2>7. current_procedure \in Procedures
    BY DEF Inv
  <2>8. size \in Nat /\ size = 7 + most
    OBVIOUS
  <2> HIDE DEF n, size
  <2>9. n - 1 \in Nat /\ n \in Nat /\ (n - 1) + 1 = n
    BY <2>4
  <2> DEFINE mine == 7 + NumLocals[current_procedure]
             next == 6 + NumLocals[callee]
  <2>10. mine \in Nat /\ mine <= size /\ next \in Nat /\ next < size /\ next + 1 <= size
    BY <2>6, <2>7, <2>8
  <2>11. CallEnd(callee, nargs) = stack_pointer + mine + next + nargs
    BY <2>3, <2>5, <2>6, <2>7
  <2> HIDE DEF mine, next
  <2>12. stack_pointer + mine <= f[1] + n * size
    BY <2>3, <2>8, <2>9, <2>10, OneFrameMore
  <2>13. (stack_pointer + mine) + (next + 1) <= f[1] + (n + 1) * size
    BY <2>3, <2>8, <2>9, <2>10, <2>12, OneFrameMore
  <2>14. (n + 1) * size \in Nat
    BY <2>8, <2>9
  <2>15. CallEnd(callee, nargs) < f[1] + (n + 1) * size + nargs
    <3> DEFINE all == (n + 1) * size
    <3> HIDE DEF all
    <3>1. all \in Nat /\ (stack_pointer + mine) + (next + 1) <= f[1] + all
      BY <2>13, <2>14 DEF all
    <3>2. stack_pointer + mine + next + nargs < f[1] + all + nargs
      BY <2>3, <2>10, <3>1
    <3> QED BY <2>11, <3>2 DEF all
  <2> QED BY <2>2, <2>15 DEF n, size
<1> HIDE DEF Bounded
<1>2. Spec /\ []CodeWellFormed => []Bounded
  BY <1>1, Invariance, PTL
<1> QED BY <1>2 DEF Bounded

LEMMA BaseKept ==
  ASSUME Inv, CodeWellFormed, [Next]_vars, mode = "running", mode' = "running"
  PROVE  Frames # << >> /\ Frames' # << >> /\ Frames'[1] = Frames[1]
<1>1. PICK f : IsChain(stack, stack_pointer, f)
  BY DEF Inv
<1>2. stack \in Stacks /\ stack' \in Stacks
  BY NextInv DEF Inv, TypeOK, Stacks
<1>3. Frames = f
  BY <1>1, <1>2, ChainOfFrames
<1>4. \E g : IsChain(stack', stack_pointer', g) /\ g[1] = f[1]
  <2>1. CASE UNCHANGED vars
    BY <1>1, <2>1 DEF vars
  <2>2. CASE Step
    <3>1. Executing(f)
      BY <1>1 DEF Executing, CodeWellFormed
    <3> QED BY <2>2, <3>1, StepIsSound DEF Sound
  <2>3. ~ \E module \in Modules : Setup(module)
    BY DEF Setup
  <2>4. ~ \E given \in BOOLEAN : RunWithoutProcedure(given) \/ RunProcedure(given)
    BY DEF RunWithoutProcedure, RunProcedure
  <2> QED BY <2>1, <2>2, <2>3, <2>4 DEF Next
<1>5. PICK g : IsChain(stack', stack_pointer', g) /\ g[1] = f[1]
  BY <1>4
<1>6. Frames' = g
  BY <1>2, <1>5, ChainIsFrames DEF Frames
<1>7. f # << >> /\ g # << >>
  BY <1>1, <1>5 DEF IsChain
<1> QED BY <1>3, <1>5, <1>6, <1>7

(* However calls and returns follow each other in a run, the frame it began *)
(* in stays at the bottom, where it was.                                    *)
THEOREM BaseIsKept == Spec /\ []CodeWellFormed => RunKeepsItsBase
<1>1. Inv /\ CodeWellFormed /\ [Next]_vars =>
        [ mode = "running" /\ mode' = "running" =>
            Frames # << >> /\ Frames' # << >> /\ Frames'[1] = Frames[1] ]_vars
  BY BaseKept
<1> QED BY <1>1, Invariance, PTL DEF Spec, RunKeepsItsBase

-----------------------------------------------------------------------------
(* The refinement: what the abstract evaluator sees of an instruction of    *)
(* well-formed code.                                                        *)
LEMMA RecordsAre ==
  ASSUME stack \in Stacks, NEW f, IsChain(stack, stack_pointer, f), mode # "idle"
  PROVE  Records = RecordsIn(stack, f, current_procedure)
<1>1. Frames = f
  BY ChainOfFrames
<1>2. DOMAIN f = 1 .. Len(f)
  BY ChainTypes
<1>3. ASSUME NEW i \in 1 .. Len(f)
      PROVE  Record(i) = RecordIn(stack, f, current_procedure, i)
  BY <1>1 DEF Record, RecordIn, ProcedureAt, SlotsIn, FrameSize, SizeIn
<1> QED BY <1>1, <1>2, <1>3 DEF Records, RecordsIn

LEMMA NextRecordsAre ==
  ASSUME stack' \in Stacks, NEW f, IsChain(stack', stack_pointer', f), mode' # "idle"
  PROVE  Records' = RecordsIn(stack', f, current_procedure')
<1>1. Frames' = f
  BY ChainIsFrames DEF Frames
<1>2. DOMAIN f = 1 .. Len(f)
  BY ChainTypes
<1>3. ASSUME NEW i \in 1 .. Len(f)
      PROVE  Record(i)' = RecordIn(stack', f, current_procedure', i)
  BY <1>1 DEF Record, RecordIn, ProcedureAt, SlotsIn, FrameSize, SizeIn
<1> QED BY <1>1, <1>2, <1>3 DEF Records, RecordsIn

LEMMA ArgumentWordsOf ==
  ASSUME NEW n \in Nat
  PROVE  n \div 4 + (IF n % 4 > 0 THEN 1 ELSE 0) = (n + 3) \div 4
OBVIOUS

Seen(f) ==
  /\ Records = RecordsIn(stack, f, current_procedure)
  /\ Len(Records) = Len(f) /\ Len(f) \in Nat \ { 0 } /\ Records # << >>
  /\ Activation!Top = RecordIn(stack, f, current_procedure, Len(f))
  /\ Activation!Instruction = Written
  /\ \A i \in Slots : Activation!Slot(i) = GetLocal(i)

LEMMA RunningSees ==
  ASSUME NEW f, Running(f)
  PROVE  Seen(f)
<1> DEFINE n == Len(f)
<1>1. Records = RecordsIn(stack, f, current_procedure)
  BY RunningFacts, RecordsAre DEF Running, RunningTypes
<1>2. n \in Nat \ { 0 } /\ f[n] = stack_pointer
  BY RunningFacts, ChainTypes DEF IsChain, RunningTypes
<1>3. Records = [ i \in 1 .. n |-> RecordIn(stack, f, current_procedure, i) ]
  BY <1>1 DEF RecordsIn
<1> HIDE DEF n
<1>4. Len(Records) = n /\ n \in 1 .. n
  BY <1>2, <1>3
<1>5. Records # << >>
  BY <1>2, <1>4
<1>6. Activation!Top = RecordIn(stack, f, current_procedure, n)
  BY <1>3, <1>4 DEF Activation!Top
<1>7. Activation!Top.proc = current_procedure /\ Activation!Top.slots = SlotsIn(stack, f[n])
  BY <1>6 DEF RecordIn, n
<1>8. Activation!Instruction = Written
  BY <1>7, RunningFacts DEF Activation!Instruction, Written, RunningTypes
<1>9. ASSUME NEW i \in Slots PROVE Activation!Slot(i) = GetLocal(i)
  <2>1. i \in 0 .. SizeIn(stack, stack_pointer) - STACK_SLOTS - 1
    BY DEF Slots, FrameSize, SizeIn
  <2> QED BY <1>2, <1>7, <2>1 DEF Activation!Slot, SlotsIn, GetLocal, LocalIndex
<1> QED BY <1>1, <1>2, <1>4, <1>5, <1>6, <1>8, <1>9 DEF Seen, n

LEMMA Sees ==
  ASSUME NEW f, Executing(f)
  PROVE  Seen(f)
BY RunningSees DEF Running, Executing

(* Without an error the run goes on after an instruction; with one it ends. *)
LEMMA GoesOn ==
  ASSUME NEW f, Executing(f), GoOn, error' = error, error = "OK"
  PROVE  mode' = "running" /\ result' = result /\ mode # "aborted" /\ mode' # "aborted"
BY DEF GoOn, Executing

LEMMA Breaks ==
  ASSUME NEW f, Executing(f), GoOn, error' = error, error # "OK",
         UNCHANGED << code, watched >>, UNCHANGED registers \/ Activation!SetGlobal
  PROVE  Activation!Break
<1>1. mode' = "idle" /\ result' = N_UNDEFINED /\ mode = "running"
  BY DEF GoOn, Executing
<1>2. Records # << >> /\ ~watched
  BY Sees, Facts DEF Seen
<1>3. Records' = << >>
  BY <1>1 DEF Records
<1> QED BY <1>1, <1>2, <1>3 DEF Activation!Break

LEMMA SlotIsSet ==
  ASSUME NEW f, Executing(f), NEW i \in Slots, NEW value \in Words, SetLocal(i, value),
         NEW place, Proceed(place), error = "OK"
  PROVE  Activation!SetSlot(i, value)
<1>1. SlotWritten(stack, stack', stack_pointer, f, current_procedure, i, value)
  <2>1. stack \in Stacks /\ IsChain(stack, stack_pointer, f)
    BY Facts
  <2>2. i \in 0 .. FrameSize(stack_pointer) - STACK_SLOTS - 1
    BY DEF Slots
  <2> QED BY <2>1, <2>2, LocalWritten
<1>2. mode' # "idle" /\ UNCHANGED << stack_pointer, current_procedure >>
  BY GoesOn DEF Proceed
<1>3. stack' \in Stacks /\ IsChain(stack', stack_pointer', f)
  BY <1>1, <1>2 DEF SlotWritten
<1>4. Records' = RecordsIn(stack', f, current_procedure)
  BY <1>2, <1>3, NextRecordsAre
<1>5. Records' = [Records EXCEPT ![Len(Records)].slots[i] = value]
  BY <1>1, <1>4, Sees DEF SlotWritten, Seen
<1> QED BY <1>5 DEF Activation!SetSlot

LEMMA RecordsStay ==
  ASSUME NEW f, Executing(f), mode' # "idle",
         UNCHANGED << stack, stack_pointer, current_procedure >>
  PROVE  Records' = Records
<1>1. mode # "idle"
  BY DEF Executing
<1> QED BY <1>1 DEF Records, Frames, Record, ProcedureAt, FrameSize

(* The steps that go on with another instruction, or break off where they   *)
(* leave an error.                                                          *)
LEMMA SameInstruction ==
  ASSUME NEW f, Executing(f), Instruction.op # "call", Instruction.op # "unknown"
  PROVE  /\ Activation!Instruction = Instruction
         /\ ModuleOf[Activation!Top.proc] = current_module
         /\ Activation!NextPlace = code_pointer + 1
<1>1. CodeFits
  BY DEF Executing
<1>2. Instruction = Written
  BY <1>1, Decoded
<1>3. Activation!Instruction = Instruction
  BY <1>2, Sees DEF Seen
<1>4. Activation!Top.proc = current_procedure
  BY Sees DEF Seen, RecordIn
<1> QED BY <1>3, <1>4, Facts DEF Activation!NextPlace

LEMMA Continues ==
  ASSUME NEW f, Executing(f), NEW place, Proceed(place), UNCHANGED << code, watched >>,
         UNCHANGED registers \/ Activation!SetGlobal,
         error = "OK" => Activation!Continue
  PROVE  Activation!Execute \/ Activation!Break
<1>1. GoOn /\ error' = error
  BY DEF Proceed
<1>2. CASE error # "OK"
  BY <1>1, <1>2, Breaks
<1>3. CASE error = "OK"
  <2>1. mode' = "running" /\ result' = result /\ mode # "aborted" /\ mode' # "aborted"
    BY <1>1, <1>3, GoesOn
  <2>2. Records # << >>
    BY Sees DEF Seen
  <2> QED BY <1>3, <2>1, <2>2 DEF Activation!Execute
<1> QED BY <1>2, <1>3

LEMMA NewValueRefines ==
  ASSUME NEW f, Executing(f), Instruction.op \in { "load", "new_bundle", "bundle_get" },
         Instruction.op = "bundle_get" => Activation!Sound,
         NEW value \in Values, SetLocal(Instruction.dest, value), Proceed(code_pointer + 1),
         UNCHANGED << registers, code, watched >>
  PROVE  Activation!Execute \/ Activation!Break
<1>1. Instruction.dest \in Slots /\ value \in Words
  BY Operands, ValueTypes DEF Executing
<1>2. /\ Activation!Instruction = Instruction
      /\ Activation!NextPlace = code_pointer + 1
  BY SameInstruction
<1>3. error = "OK" => Activation!SetSlot(Instruction.dest, value)
  BY <1>1, SlotIsSet
<1>4. code_pointer' = code_pointer + 1
  BY DEF Proceed
<1>5. error = "OK" => Activation!Continue
  BY <1>2, <1>3, <1>4 DEF Activation!Continue
<1> QED BY <1>5, Continues

LEMMA GlobalRefRefines ==
  ASSUME NEW f, Executing(f), OpGlobalRef, UNCHANGED << code, watched >>
  PROVE  Activation!Execute \/ Activation!Break
<1> DEFINE value == registers[current_module][Instruction.source]
<1>1. /\ Instruction.op = "global_ref" /\ SetLocal(Instruction.dest, value)
      /\ Proceed(code_pointer + 1) /\ UNCHANGED registers
  BY DEF OpGlobalRef
<1>2. Instruction.dest \in Slots /\ Instruction.source \in DOMAIN registers[current_module]
  BY <1>1, Operands DEF Executing
<1>3. value \in Words
  BY <1>2, Facts, ValueTypes DEF RegistersOK
<1> HIDE DEF value
<1>4. /\ Activation!Instruction = Instruction
      /\ ModuleOf[Activation!Top.proc] = current_module
      /\ Activation!NextPlace = code_pointer + 1
  BY <1>1, SameInstruction
<1>5. error = "OK" => Activation!SetSlot(Instruction.dest, value)
  BY <1>1, <1>2, <1>3, SlotIsSet
<1>6. code_pointer' = code_pointer + 1
  BY <1>1 DEF Proceed
<1>7. error = "OK" => Activation!Continue
  BY <1>1, <1>4, <1>5, <1>6 DEF Activation!Continue, Activation!GetGlobal, value
<1> QED BY <1>1, <1>7, Continues

LEMMA GlobalSetRefines ==
  ASSUME NEW f, Executing(f), OpGlobalSet, UNCHANGED << code, watched >>
  PROVE  Activation!Execute \/ Activation!Break
<1>1. /\ Instruction.op = "global_set"
      /\ registers' = [registers EXCEPT
                         ![current_module][Instruction.dest] = GetLocal(Instruction.source)]
      /\ Proceed(code_pointer + 1) /\ UNCHANGED stack
  BY DEF OpGlobalSet
<1>2. Instruction.source \in Slots
  BY <1>1, Operands DEF Executing
<1>3. /\ Activation!Instruction = Instruction
      /\ ModuleOf[Activation!Top.proc] = current_module
      /\ Activation!NextPlace = code_pointer + 1
  BY <1>1, SameInstruction
<1>4. Activation!Slot(Instruction.source) = GetLocal(Instruction.source)
  BY <1>2, Sees DEF Seen
<1>5. Activation!SetGlobal
  BY <1>1, <1>3, <1>4 DEF Activation!SetGlobal
<1>6. code_pointer' = code_pointer + 1 /\ UNCHANGED << stack_pointer, current_procedure >>
  BY <1>1 DEF Proceed
<1>7. ASSUME error = "OK" PROVE Activation!Continue
  <2>1. Records' = Records
    BY <1>1, <1>6, <1>7, GoesOn, RecordsStay DEF Proceed
  <2> QED BY <1>1, <1>3, <1>5, <1>6, <2>1 DEF Activation!Continue
<1> QED BY <1>1, <1>5, <1>7, Continues

LEMMA StayRefines ==
  ASSUME NEW f, Executing(f), NEW place, Proceed(place),
         UNCHANGED << stack, registers, code, watched >>,
         UNCHANGED Records => Activation!Continue
  PROVE  Activation!Execute \/ Activation!Break
<1>1. ASSUME error = "OK" PROVE Activation!Continue
  <2>1. Records' = Records
    BY <1>1, GoesOn, RecordsStay DEF Proceed
  <2> QED BY <2>1
<1> QED BY <1>1, Continues

LEMMA JumpRefines ==
  ASSUME NEW f, Executing(f), OpJump \/ OpJumpIf \/ OpJumpUnless,
         UNCHANGED << code, watched >>
  PROVE  Activation!Execute \/ Activation!Break
<1>1. Instruction.op \in { "jump", "jump_if", "jump_unless" }
  BY DEF OpJump, OpJumpIf, OpJumpUnless
<1>2. /\ Activation!Instruction = Instruction
      /\ Activation!NextPlace = code_pointer + 1
  BY <1>1, SameInstruction
<1>3. Instruction.op # "jump" => Activation!Slot(Instruction.cond) = GetLocal(Instruction.cond)
  <2>1. Instruction.op # "jump" => Instruction.cond \in Slots
    BY <1>1, Operands DEF Executing
  <2> QED BY <2>1, Sees DEF Seen
<1>4. UNCHANGED << stack, registers >>
  BY DEF OpJump, OpJumpIf, OpJumpUnless
<1>5. CASE Activation!Jumps
  <2>1. Proceed(code_pointer + Instruction.offset)
    BY <1>2, <1>3, <1>5 DEF OpJump, OpJumpIf, OpJumpUnless, Activation!Jumps
  <2>2. UNCHANGED Records => Activation!Continue
    BY <1>2, <1>4, <1>5, <2>1 DEF Activation!Continue, Proceed
  <2> QED BY <1>4, <2>1, <2>2, StayRefines
<1>6. CASE ~Activation!Jumps
  <2>1. Proceed(code_pointer + 1) /\ Instruction.op \in { "jump_if", "jump_unless" }
    BY <1>1, <1>2, <1>3, <1>6 DEF OpJump, OpJumpIf, OpJumpUnless, Activation!Jumps
  <2>2. UNCHANGED Records => Activation!Continue
    BY <1>2, <1>4, <1>6, <2>1 DEF Activation!Continue, Proceed
  <2> QED BY <1>4, <2>1, <2>2, StayRefines
<1> QED BY <1>5, <1>6

(* An assertion that fails leaves everything as it was.                     *)
LEMMA Aborts ==
  ASSUME NEW f, Executing(f), Abort
  PROVE  /\ Records # << >> /\ mode # "aborted" /\ mode' = "aborted"
         /\ UNCHANGED << Records, code_pointer, result >>
<1>1. Records' = Records
  BY RecordsStay DEF Abort
<1>2. Records # << >>
  BY Sees DEF Seen
<1> QED BY <1>1, <1>2 DEF Abort, Executing

LEMMA BundleRefines ==
  ASSUME NEW f, Executing(f), OpBundleGet \/ OpBundleSet \/ OpBundleClose,
         UNCHANGED << code, watched >>
  PROVE  Activation!Execute \/ Activation!Break
<1>1. Instruction.op \in { "bundle_get", "bundle_set", "bundle_close" }
  BY DEF OpBundleGet, OpBundleSet, OpBundleClose
<1>2. /\ Activation!Instruction = Instruction
      /\ Activation!NextPlace = code_pointer + 1
  BY <1>1, SameInstruction
<1>3. /\ Activation!Slot(Instruction.bundle) = GetLocal(Instruction.bundle)
      /\ Instruction.op # "bundle_close" =>
           Activation!Slot(Instruction.symbol) = GetLocal(Instruction.symbol)
  <2>1. /\ Instruction.bundle \in Slots
        /\ Instruction.op # "bundle_close" => Instruction.symbol \in Slots
    BY <1>1, Operands DEF Executing
  <2> QED BY <2>1, Sees DEF Seen
<1>4. UNCHANGED registers
  BY DEF OpBundleGet, OpBundleSet, OpBundleClose
<1>5. CASE Activation!Sound
  <2>1. HasBundle /\ (Instruction.op # "bundle_close" => HasSymbol)
    BY <1>2, <1>3, <1>5 DEF HasBundle, HasSymbol, Activation!Sound
  <2>2. CASE OpBundleGet
    <3>1. PICK value \in Values : SetLocal(Instruction.dest, value)
      BY <2>1, <2>2 DEF OpBundleGet
    <3>2. Proceed(code_pointer + 1) /\ Instruction.op = "bundle_get"
      BY <2>1, <2>2 DEF OpBundleGet
    <3> QED BY <1>4, <1>5, <3>1, <3>2, NewValueRefines
  <2>3. CASE OpBundleSet \/ OpBundleClose
    <3>1. /\ Proceed(code_pointer + 1) /\ UNCHANGED stack
          /\ Instruction.op \in { "bundle_set", "bundle_close" }
      BY <2>1, <2>3 DEF OpBundleSet, OpBundleClose
    <3>2. UNCHANGED Records => Activation!Continue
      BY <1>2, <1>4, <1>5, <3>1 DEF Activation!Continue, Proceed
    <3> QED BY <1>4, <3>1, <3>2, StayRefines
  <2> QED BY <2>2, <2>3
<1>6. CASE ~Activation!Sound
  <2>1. ~(HasBundle /\ (Instruction.op # "bundle_close" => HasSymbol))
    BY <1>2, <1>3, <1>6 DEF HasBundle, HasSymbol, Activation!Sound
  <2>2. Abort
    BY <2>1 DEF OpBundleGet, OpBundleSet, OpBundleClose
  <2>3. Activation!Fail
    BY <1>1, <1>2, <1>4, <1>6, <2>2, Aborts DEF Activation!Fail, Activation!BundleOp
  <2> QED BY <2>2, <2>3, Aborts DEF Activation!Execute
<1> QED BY <1>5, <1>6

(* The activation of the procedure that is called.                          *)
Activated(new, callee, dest, args, resume) ==
  /\ new.proc = callee /\ new.dest = dest /\ new.resume = resume
  /\ DOMAIN new.slots = 0 .. NumLocals[callee] + Len(args) - 1
  /\ \A n \in DOMAIN args : new.slots[NumLocals[callee] + n - 1] = args[n]

LEMMA CalledIsActivated ==
  ASSUME NEW words, NEW others, NEW f, NEW s, NEW running, NEW callee \in Procedures,
         NEW dest, NEW args \in Seq(Words), NEW resume,
         Called(words, others, f, s, running, callee, dest, args, resume)
  PROVE  Activated(RecordsIn(others, Append(f, s), callee)[Len(RecordsIn(words, f, running)) + 1],
                   callee, dest, args, resume)
<1> DEFINE new == RecordsIn(others, Append(f, s), callee)[Len(RecordsIn(words, f, running)) + 1]
<1> DEFINE a == NumLocals[callee]
<1> DEFINE b == Len(args)
<1>1. new = [ proc |-> callee, slots |-> SlotsIn(others, s), dest |-> dest,
              resume |-> resume ]
  BY DEF Called, RecordPushed
<1>2. a \in 0 .. 255 /\ b \in Nat /\ DOMAIN args = 1 .. b
  BY FramesAssumption, LenProperties
<1>3. /\ SizeIn(others, s) = 6 + (a + b)
      /\ \A n \in 1 .. b : others[s + STACK_SLOTS + (a + n - 1)] = args[n]
  BY DEF Called
<1> HIDE DEF new, a, b
<1>4. SizeIn(others, s) - STACK_SLOTS - 1 = a + b - 1
  <2>1. \A m, n \in Int : (6 + (m + n)) - 6 - 1 = m + n - 1
    OBVIOUS
  <2>2. a \in Int /\ b \in Int
    BY <1>2
  <2> QED BY <1>3, <2>1, <2>2
<1>5. /\ DOMAIN new.slots = 0 .. a + b - 1
      /\ \A j \in 0 .. a + b - 1 : new.slots[j] = others[s + STACK_SLOTS + j]
  BY <1>1, <1>4 DEF SlotsIn
<1>6. ASSUME NEW n \in 1 .. b PROVE new.slots[a + n - 1] = args[n]
  <2>1. a + n - 1 \in 0 .. a + b - 1
    BY <1>2
  <2> QED BY <1>3, <1>5, <2>1
<1> QED BY <1>1, <1>2, <1>5, <1>6 DEF Activated, new, a, b

LEMMA PushRefines ==
  ASSUME NEW f, Executing(f), NEW callee \in Procedures, NEW dest \in Slots,
         NEW args \in Seq(Words), NEW skip \in Nat, FrameWord(NUM_ARGS_SLOT) <= 1,
         CallProcedure(callee, dest, args, skip), UNCHANGED registers, error = "OK",
         Activation!NextPlace = code_pointer + skip + 1
  PROVE  Activation!Push(callee, args, dest)
<1> DEFINE s == stack_pointer'
<1> DEFINE g == Append(f, s)
<1>1. Called(stack, stack', f, s, current_procedure, callee, dest, args,
             code_pointer + skip + 1)
  BY CallIsSound
<1>2. /\ current_procedure' = callee /\ code_pointer' = EntryPoint[callee]
      /\ GoOn /\ error' = error
  BY DEF CallProcedure
<1>3. mode' = "running" /\ result' = result /\ mode # "aborted" /\ mode' # "aborted"
  BY <1>2, GoesOn
<1>4. stack' \in Stacks /\ IsChain(stack', s, g)
  BY <1>1 DEF Called
<1>5. Records' = RecordsIn(stack', g, callee) /\ Records = RecordsIn(stack, f, current_procedure)
  <2>1. Records' = RecordsIn(stack', g, current_procedure')
    BY <1>3, <1>4, NextRecordsAre
  <2> QED BY <2>1, <1>2, Sees DEF Seen
<1> DEFINE new == RecordsIn(stack', g, callee)[Len(Records) + 1]
<1>6. /\ Len(Records') = Len(Records) + 1
      /\ SubSeq(Records', 1, Len(Records)) = Records
      /\ Records'[Len(Records')] = new
  BY <1>1, <1>5 DEF Called, RecordPushed
<1>7. Activated(new, callee, dest, args, code_pointer + skip + 1)
  BY <1>1, <1>5, CalledIsActivated
<1> HIDE DEF new
<1> QED BY <1>2, <1>3, <1>6, <1>7 DEF Activated, Activation!Push

LEMMA InvokeRefines ==
  ASSUME NEW f, Executing(f), Written.op \in { "call", "call_sva" },
         NEW callee, callee = GetLocal(Written.func), NEW dest \in Slots,
         NEW args \in Seq(Words), NEW skip \in Nat,
         Invoke(callee, dest, args, skip), UNCHANGED << registers, code, watched >>,
         Activation!NextPlace = code_pointer + skip + 1,
         Activation!Invoke(callee, args, dest) => Activation!Call
  PROVE  Activation!Execute \/ Activation!Break
<1>1. Records # << >> /\ mode # "aborted"
  BY Sees DEF Seen, Executing
<1>2. CASE callee \in Procedures /\ CallProcedure(callee, dest, args, skip)
  <2>1. FrameWord(NUM_ARGS_SLOT) <= 1
    BY <1>2 DEF Executing, CallerTakesOne
  <2>2. GoOn /\ error' = error
    BY <1>2 DEF CallProcedure
  <2>3. CASE error = "OK"
    <3>1. Activation!Push(callee, args, dest)
      BY <1>2, <2>1, <2>3, PushRefines
    <3>2. Activation!Call
      BY <1>2, <3>1 DEF Activation!Invoke
    <3> QED BY <1>1, <3>2 DEF Activation!Execute
  <2>4. CASE error # "OK"
    BY <2>2, <2>4, Breaks
  <2> QED BY <2>3, <2>4
<1>3. CASE /\ callee \in Primitives
           /\ \E value \in Data : SetLocal(dest, value)
           /\ Proceed(code_pointer + 1 + skip)
  <2>1. PICK value \in Data : SetLocal(dest, value)
    BY <1>3
  <2>2. value \in Words /\ value \in Values
    BY ValueTypes
  <2>3. GoOn /\ error' = error /\ code_pointer' = code_pointer + 1 + skip
    BY <1>3 DEF Proceed
  <2>4. CASE error = "OK"
    <3>1. Activation!SetSlot(dest, value)
      BY <1>3, <2>1, <2>2, <2>4, SlotIsSet
    <3>2. result' = result /\ mode' # "aborted"
      BY <2>3, <2>4, GoesOn
    <3>3. code_pointer' = Activation!NextPlace
      <4>1. code_pointer + 1 + skip = code_pointer + skip + 1
        BY Facts
      <4> QED BY <2>3, <4>1
    <3>4. Activation!Call
      BY <1>1, <1>3, <2>2, <3>1, <3>2, <3>3 DEF Activation!Invoke
    <3> QED BY <1>1, <3>4 DEF Activation!Execute
  <2>5. CASE error # "OK"
    BY <2>3, <2>5, Breaks
  <2> QED BY <2>4, <2>5
<1>4. CASE callee \notin Procedures \cup Primitives /\ Abort
  <2>1. Activation!Call
    BY <1>4, Aborts DEF Activation!Invoke
  <2> QED BY <1>1, <2>1 DEF Activation!Execute
<1> QED BY <1>2, <1>3, <1>4 DEF Invoke

LEMMA CallSvaRefines ==
  ASSUME NEW f, Executing(f), OpCallSva, UNCHANGED << code, watched >>
  PROVE  Activation!Execute \/ Activation!Break
<1>1. CodeFits
  BY DEF Executing
<1>2. /\ Instruction.op = "call_sva" /\ Written.op = "call_sva"
      /\ Instruction.dest \in Slots /\ Instruction.arg \in Slots
      /\ Instruction.func \in Slots /\ Instruction.func = Written.func
  BY <1>1, Operands, Decoded DEF OpCallSva
<1> DEFINE args == << GetLocal(Instruction.arg) >>
<1>3. args \in Seq(Words)
  <2>1. GetLocal(Instruction.arg) \in Words
    BY <1>2, SlotWords
  <2> QED BY <2>1
<1>4. /\ Invoke(GetLocal(Instruction.func), Instruction.dest, args, 0)
      /\ UNCHANGED registers
  BY DEF OpCallSva
<1>5. /\ Activation!Instruction = Instruction
      /\ Activation!NextPlace = code_pointer + 1
  BY <1>2, SameInstruction
<1>6. Activation!NextPlace = code_pointer + 0 + 1
  BY <1>5, Facts
<1>7. /\ Activation!Slot(Instruction.func) = GetLocal(Instruction.func)
      /\ Activation!Slot(Instruction.arg) = GetLocal(Instruction.arg)
  BY <1>2, Sees DEF Seen
<1>8. Activation!Invoke(GetLocal(Instruction.func), args, Instruction.dest) => Activation!Call
  BY <1>2, <1>5, <1>7 DEF Activation!Call
<1> HIDE DEF args
<1> QED BY <1>2, <1>3, <1>4, <1>6, <1>8, InvokeRefines

LEMMA OpCallRefines ==
  ASSUME NEW f, Executing(f), OpCall, UNCHANGED << code, watched >>
  PROVE  Activation!Execute \/ Activation!Break
<1> DEFINE nargs == Instruction.nargs
<1> DEFINE args == [ i \in 1 .. nargs |-> Argument(i) ]
<1> DEFINE skip == nargs \div 4 + (IF nargs % 4 > 0 THEN 1 ELSE 0)
<1>1. CodeFits
  BY DEF Executing
<1>2. Instruction.op = "call"
  BY DEF OpCall
<1>3. /\ Written.op = "call"
      /\ Instruction.dest \in Slots /\ Instruction.dest = Written.dest
      /\ Instruction.func \in Slots /\ Instruction.func = Written.func
  BY <1>1, <1>2, Operands, Decoded
<1>4. /\ nargs \in Nat /\ nargs = Len(Written.args)
      /\ args = [ n \in DOMAIN Written.args |-> GetLocal(Written.args[n]) ]
      /\ args \in Seq(Words)
  BY <1>2, CallArguments
<1>5. skip \in Nat
  <2>1. nargs \in Nat
    BY <1>4
  <2> HIDE DEF nargs
  <2> QED BY <2>1
<1>6. Invoke(GetLocal(Instruction.func), Instruction.dest, args, skip) /\ UNCHANGED registers
  BY DEF OpCall
<1>7. Activation!Instruction = Written
  BY Sees DEF Seen
<1>8. Activation!NextPlace = code_pointer + skip + 1
  <2>1. skip = (nargs + 3) \div 4
    BY <1>4, ArgumentWordsOf
  <2>2. Activation!NextPlace = code_pointer + 1 + (nargs + 3) \div 4
    BY <1>3, <1>4, <1>7 DEF Activation!NextPlace, Activation!ArgumentWords
  <2> HIDE DEF skip
  <2> QED BY <1>5, <2>1, <2>2, Facts
<1>9. Activation!Slot(Written.func) = GetLocal(Written.func)
  BY <1>3, Sees DEF Seen
<1>10. \A n \in DOMAIN Written.args : Activation!Slot(Written.args[n]) = GetLocal(Written.args[n])
  <2>1. \A n \in DOMAIN Written.args : Written.args[n] \in Slots
    <3>1. SlotsNamed(Written) \subseteq Slots
      BY <1>1 DEF CodeFits, Slots
    <3>2. SlotsNamed(Written) = { Written.dest, Written.func }
            \cup { Written.args[k] : k \in DOMAIN Written.args }
      BY <1>3 DEF SlotsNamed
    <3> QED BY <3>1, <3>2
  <2> QED BY <2>1, Sees DEF Seen
<1>11. args = [ n \in DOMAIN Written.args |-> Activation!Slot(Written.args[n]) ]
  BY <1>4, <1>10
<1> HIDE DEF nargs, args, skip
<1>12. Activation!Invoke(GetLocal(Instruction.func), args, Instruction.dest) => Activation!Call
  BY <1>3, <1>7, <1>9, <1>11 DEF Activation!Call
<1> QED BY <1>3, <1>4, <1>5, <1>6, <1>8, <1>12, InvokeRefines

LEMMA ReturnRefines ==
  ASSUME NEW f, Executing(f), OpReturn, UNCHANGED << code, watched >>
  PROVE  Activation!Execute \/ Activation!Break
<1> DEFINE output == GetLocal(Instruction.source)
<1>1. Instruction.op = "return"
  BY DEF OpReturn
<1>2. /\ Instruction.source \in Slots
      /\ output \in Values /\ output \in Words
  <2>1. Instruction.source \in Slots /\ output \in Values
    BY <1>1, Operands DEF Executing
  <2> QED BY <2>1, ValueTypes
<1>3. Activation!Instruction = Instruction
  BY <1>1, SameInstruction
<1>4. Activation!Slot(Instruction.source) = output
  BY <1>2, Sees DEF Seen
<1> HIDE DEF output
<1>5. /\ UNCHANGED << registers, error >> /\ mode = "running"
      /\ Records # << >> /\ Len(Records) = Len(f) /\ Len(f) \in Nat \ { 0 }
  BY Sees DEF OpReturn, Seen, Executing
<1>6. FrameWord(CALLER_SLOT) = N_UNDEFINED <=> Len(f) = 1
  BY Facts, ChainCaller DEF FrameWord
<1>7. CASE Len(f) = 1
  <2>1. mode' = "idle" /\ result' = output /\ UNCHANGED code_pointer
    BY <1>6, <1>7 DEF OpReturn, output
  <2>2. Records' = << >>
    BY <2>1 DEF Records
  <2>3. Len(Records) - 1 = 0
    BY <1>5, <1>7
  <2>4. Activation!Return
    BY <1>1, <1>3, <1>4, <1>5, <2>1, <2>2, <2>3 DEF Activation!Return
  <2> QED BY <1>5, <2>4 DEF Activation!Execute
<1>8. CASE Len(f) # 1
  <2>1. PopStackFrame /\ Deliver(output) /\ GoOn
    BY <1>6, <1>8 DEF OpReturn, output
  <2>2. CASE error # "OK"
    BY <1>5, <2>1, <2>2, Breaks
  <2>3. CASE error = "OK"
    <3> DEFINE g == SubSeq(f, 1, Len(f) - 1)
    <3>1. /\ Popped(stack, stack_pointer, f, current_procedure, g)
          /\ SlotWritten(stack, stack', FrameWord(STACK_POINTER_SLOT), g,
                         FrameWord(CALLER_SLOT), FrameWord(RETURN_SLOT), output)
      BY <1>2, <1>6, <1>8, <2>1, Facts, ProcedureReturned
    <3> HIDE DEF g
    <3>2. mode' = "running" /\ result' = result /\ mode' # "aborted"
      BY <1>5, <2>1, <2>3, GoesOn
    <3>3. /\ stack_pointer' = FrameWord(STACK_POINTER_SLOT)
          /\ code_pointer' = FrameWord(CODE_POINTER_SLOT)
          /\ current_procedure' = FrameWord(CALLER_SLOT)
      BY <2>1 DEF PopStackFrame
    <3>4. stack' \in Stacks /\ IsChain(stack', stack_pointer', g)
      BY <3>1, <3>3 DEF SlotWritten
    <3>5. Records' = RecordsIn(stack', g, current_procedure')
      BY <3>2, <3>4, NextRecordsAre
    <3>6. RecordsIn(stack', g, current_procedure') =
            [RecordsIn(stack, g, current_procedure') EXCEPT
               ![Len(g)].slots[FrameWord(RETURN_SLOT)] = output]
      BY <3>1, <3>3 DEF SlotWritten
    <3>7. RecordsIn(stack, g, current_procedure') = SubSeq(Records, 1, Len(f) - 1)
          /\ Len(g) = Len(f) - 1
      BY <3>1, <3>3, Sees DEF Popped, Seen, FrameWord
    <3>8. /\ Activation!Top.dest = FrameWord(RETURN_SLOT)
          /\ Activation!Top.resume = FrameWord(CODE_POINTER_SLOT)
      <4>1. f[Len(f)] = stack_pointer
        BY Facts DEF IsChain
      <4> QED BY <1>8, <4>1, Sees DEF Seen, RecordIn, FrameWord
    <3>9. Records' = [ SubSeq(Records, 1, Len(Records) - 1) EXCEPT
                         ![Len(Records) - 1].slots[Activation!Top.dest] = output ]
      BY <1>5, <3>5, <3>6, <3>7, <3>8
    <3>10. Len(Records) - 1 # 0
      <4> DEFINE n == Len(f)
      <4>1. n \in Nat \ { 0 } /\ n # 1 /\ Len(Records) = n
        BY <1>5, <1>8
      <4> HIDE DEF n
      <4> QED BY <4>1
    <3>11. Activation!Return
      BY <1>1, <1>3, <1>4, <1>5, <3>2, <3>3, <3>8, <3>9, <3>10 DEF Activation!Return
    <3> QED BY <1>5, <3>11 DEF Activation!Execute
  <2> QED BY <2>2, <2>3
<1> QED BY <1>7, <1>8

LEMMA UnknownRefines ==
  ASSUME NEW f, Executing(f), UnknownOpcode, UNCHANGED << code, watched >>
  PROVE  Activation!Break
<1>1. Written.op = "unknown"
  BY Decoded DEF UnknownOpcode, Executing
<1>2. Records # << >> /\ Activation!Instruction.op = "unknown"
  BY <1>1, Sees DEF Seen
<1>3. mode = "running" /\ mode' = "idle" /\ result' = N_UNDEFINED /\ UNCHANGED registers
  BY DEF UnknownOpcode, GoOn, Executing
<1>4. Records' = << >>
  BY <1>3 DEF Records
<1> QED BY <1>2, <1>3, <1>4 DEF Activation!Break

LEMMA StepRefines ==
  ASSUME NEW f, Executing(f), Step
  PROVE  Activation!Execute \/ Activation!Break
<1>1. UNCHANGED << code, watched >>
  BY DEF Step
<1>2. CASE OpLoad
  <2>1. PICK value \in Bundles \cup { N_UNDEFINED } : SetLocal(Instruction.dest, value)
    BY <1>2 DEF OpLoad
  <2>2. value \in Values
    BY ValueTypes
  <2>3. /\ Instruction.op = "load" /\ Proceed(code_pointer + 1)
        /\ UNCHANGED registers
    BY <1>2 DEF OpLoad
  <2> QED BY <1>1, <2>1, <2>2, <2>3, NewValueRefines
<1>3. CASE OpNewBundle
  <2>1. PICK value \in Bundles \cup { NULL } : SetLocal(Instruction.dest, value)
    BY <1>3 DEF OpNewBundle
  <2>2. value \in Values
    BY ValueTypes
  <2>3. /\ Instruction.op = "new_bundle" /\ Proceed(code_pointer + 1)
        /\ UNCHANGED registers
    BY <1>3 DEF OpNewBundle
  <2> QED BY <1>1, <2>1, <2>2, <2>3, NewValueRefines
<1> QED BY <1>1, <1>2, <1>3, CallSvaRefines, OpCallRefines, ReturnRefines, GlobalRefRefines,
          GlobalSetRefines, JumpRefines, BundleRefines, UnknownRefines DEF Step

(* What the host does.                                                      *)
LEMMA IdleRefines ==
  ASSUME mode = "idle",
         \/ \E module \in Modules : Setup(module)
         \/ \E given \in BOOLEAN : RunWithoutProcedure(given)
  PROVE  Activation!Answer \/ UNCHANGED Activation!actVars
<1>1. mode' = "idle" /\ UNCHANGED << code, registers, code_pointer >>
  BY DEF Setup, RunWithoutProcedure
<1>2. Records = << >> /\ Records' = << >>
  BY <1>1 DEF Records
<1> QED BY <1>1, <1>2 DEF Activation!Answer

LEMMA RunBegins ==
  ASSUME Inv, NEW given \in BOOLEAN, RunProcedure(given)
  PROVE  /\ Entry \in Procedures /\ Records = << >> /\ Len(Records') = 1
         /\ Records'[1].proc = Entry /\ code_pointer' = EntryPoint[Entry]
         /\ DOMAIN Records'[1].slots = 0 .. NumLocals[Entry] - 1
<1> DEFINE entry == Entry
<1>1. /\ mode = "idle" /\ entry \in Procedures /\ mode' = "running"
      /\ stack_pointer + STACK_SLOTS + NumLocals[entry] <= StackSize
      /\ stack' = [stack EXCEPT
                     ![stack_pointer + CALLER_SLOT] = N_UNDEFINED,
                     ![stack_pointer + NUM_LOCALS_SLOT] = NumLocals[entry],
                     ![stack_pointer + NUM_ARGS_SLOT] = 0]
      /\ current_procedure' = entry /\ code_pointer' = EntryPoint[entry]
      /\ UNCHANGED << code, registers, stack_pointer, result >>
  BY DEF RunProcedure
<1> HIDE DEF entry
<1>2. stack \in Stacks /\ stack_pointer \in 0 .. StackSize - 1
  BY DEF Inv, TypeOK, Stacks
<1> DEFINE s == stack_pointer
<1>3. /\ stack' \in Stacks
      /\ IsChain(stack', s, << s >>)
      /\ RecordsIn(stack', << s >>, entry) =
           << [ proc |-> entry, slots |-> SlotsIn(stack', s), dest |-> 0, resume |-> 0 ] >>
      /\ SizeIn(stack', s) = STACK_SLOTS + NumLocals[entry]
  BY <1>1, <1>2, RunBegun
<1>4. Records = << >> /\ Records' = RecordsIn(stack', << s >>, entry)
  <2>1. Records' = RecordsIn(stack', << s >>, current_procedure')
    BY <1>1, <1>3, NextRecordsAre
  <2> QED BY <1>1, <2>1 DEF Records
<1>5. DOMAIN SlotsIn(stack', s) = 0 .. NumLocals[entry] - 1
  <2> DEFINE n == NumLocals[entry]
  <2>1. n \in 0 .. 255
    BY <1>1, FramesAssumption
  <2> HIDE DEF n, s
  <2>2. (6 + n) - 6 - 1 = n - 1
    BY <2>1
  <2>3. DOMAIN SlotsIn(stack', s) = 0 .. SizeIn(stack', s) - STACK_SLOTS - 1
    BY Zenon DEF SlotsIn
  <2> QED BY <1>3, <2>2, <2>3 DEF n
<1>6. Len(Records') = 1 /\ Records'[1].proc = entry /\ Records'[1].slots = SlotsIn(stack', s)
  BY <1>3, <1>4
<1> QED BY <1>1, <1>4, <1>5, <1>6 DEF entry

LEMMA RunRefines ==
  ASSUME Inv, NEW given \in BOOLEAN, RunProcedure(given)
  PROVE  Activation!Begin
<1>1. /\ mode # "aborted" /\ mode' # "aborted"
      /\ UNCHANGED << code, registers, result >>
  BY DEF RunProcedure
<1> QED BY <1>1, RunBegins DEF Activation!Begin

LEMMA NextRefines ==
  ASSUME Inv, CodeWellFormed, [Next]_vars
  PROVE  [Activation!ActNext]_(Activation!actVars)
<1>1. CASE UNCHANGED vars
  BY <1>1 DEF vars, Activation!actVars, Records, Frames, Record, ProcedureAt, FrameSize
<1>2. CASE Step
  <2>1. PICK f : IsChain(stack, stack_pointer, f)
    BY <1>2 DEF Inv, Step
  <2>2. Executing(f)
    BY <1>2, <2>1 DEF Executing, CodeWellFormed, Step
  <2> QED BY <1>2, <2>2, StepRefines DEF Activation!ActNext
<1>3. CASE \/ \E module \in Modules : Setup(module)
           \/ \E given \in BOOLEAN : RunWithoutProcedure(given)
  <2>1. mode = "idle"
    BY <1>3 DEF Setup, RunWithoutProcedure
  <2> QED BY <1>3, <2>1, IdleRefines DEF Activation!ActNext
<1>4. CASE \E given \in BOOLEAN : RunProcedure(given)
  BY <1>4, RunRefines DEF Activation!ActNext
<1> QED BY <1>1, <1>2, <1>3, <1>4 DEF Next

(* The words of the stack, with the pointers saved in them, keep            *)
(* activations: what _step and its _op_ functions do with what they decode  *)
(* is what the abstract evaluator does with records and the instructions as *)
(* they were written.  No call, return or error of well-formed code makes   *)
(* an activation see, lose or write another's locals.                       *)
THEOREM Refinement == Spec /\ []CodeWellFormed => ImplementsActivations
<1>1. Init => Activation!ActInit
  BY DEF Init, Activation!ActInit, Records
<1>2. Inv /\ CodeWellFormed /\ [Next]_vars => [Activation!ActNext]_(Activation!actVars)
  BY NextRefines
<1> QED BY <1>1, <1>2, Invariance, PTL DEF Spec, ImplementsActivations, Activation!ActSpec

-----------------------------------------------------------------------------
(* Code that was checked before it runs.  The facts that it passed with are *)
(* true while it runs: of the registers, always; of the slots, at the place *)
(* of the running activation and, for one that waits, where it goes on,     *)
(* whatever it is returned.                                                 *)
TrueOf(known, slots) ==
  \A slot \in DOMAIN known : slot \in DOMAIN slots /\ slots[slot] \in known[slot]

RecordHolds(facts, record) ==
  /\ record.proc \in Procedures
  /\ \E n \in facts.least[record.proc] .. facts.most[record.proc] :
       DOMAIN record.slots = 0 .. NumLocals[record.proc] + n - 1

Waits(facts, record, dest, resume) ==
  /\ resume \in DOMAIN facts.known[record.proc]
  /\ dest \in DOMAIN record.slots
  /\ \A value \in Values :
       TrueOf(facts.known[record.proc][resume], [record.slots EXCEPT ![dest] = value])

Runs(facts, record, place) ==
  /\ place \in DOMAIN facts.known[record.proc]
  /\ TrueOf(facts.known[record.proc][place], record.slots)

ActivationsHold(facts, activations, place) ==
  /\ \A n \in 1 .. Len(activations) : RecordHolds(facts, activations[n])
  /\ \A n \in 1 .. Len(activations) - 1 :
       Waits(facts, activations[n], activations[n + 1].dest, activations[n + 1].resume)
  /\ Runs(facts, activations[Len(activations)], place)

RegistersHold(facts, globals) ==
  \A module \in Modules : \A register \in DOMAIN InitialGlobals[module] :
    globals[module][register] \in facts.holds[module][register]

FactsHold(facts) ==
  /\ RegistersHold(facts, registers)
  /\ mode = "running" => ActivationsHold(facts, Records, code_pointer)

(* Facts that code passed with, and that are true.                          *)
Told(facts) == CodePasses(code, facts) /\ FactsHold(facts)

-----------------------------------------------------------------------------
(* Sequences of activations, and what is known of slots.                    *)
IsRecord(record) ==
  record = [ proc |-> record.proc, slots |-> record.slots, dest |-> record.dest,
             resume |-> record.resume ]

Shaped(activations) ==
  /\ Len(activations) \in Nat \ { 0 }
  /\ activations = [ n \in 1 .. Len(activations) |-> activations[n] ]
  /\ \A n \in 1 .. Len(activations) : IsRecord(activations[n])

LEMMA RunningShaped ==
  ASSUME NEW f, Running(f)
  PROVE  Shaped(Records)
<1> DEFINE n == Len(f)
<1>1. Records = RecordsIn(stack, f, current_procedure) /\ Len(Records) = n /\ n \in Nat \ { 0 }
  BY RunningSees DEF Seen
<1>2. Records = [ k \in 1 .. n |-> RecordIn(stack, f, current_procedure, k) ]
  BY <1>1 DEF RecordsIn
<1> HIDE DEF n
<1>3. \A k \in 1 .. n : IsRecord(RecordIn(stack, f, current_procedure, k))
  BY DEF IsRecord, RecordIn
<1> QED BY <1>1, <1>2, <1>3 DEF Shaped

(* One slot of the last activation changes, and nothing else does.          *)
OneSlot(activations, others, slot, value) ==
  LET last == Len(activations)
  IN  /\ Len(others) = last
      /\ \A n \in 1 .. last - 1 : others[n] = activations[n]
      /\ others[last].proc = activations[last].proc
      /\ others[last].dest = activations[last].dest
      /\ others[last].resume = activations[last].resume
      /\ others[last].slots = [activations[last].slots EXCEPT ![slot] = value]

LEMMA SlotChanges ==
  ASSUME NEW activations, Shaped(activations), NEW slot, NEW value, NEW others,
         others = [activations EXCEPT ![Len(activations)].slots[slot] = value]
  PROVE  OneSlot(activations, others, slot, value)
<1> DEFINE last == Len(activations)
<1>1. /\ last \in Nat \ { 0 } /\ activations = [ n \in 1 .. last |-> activations[n] ]
      /\ IsRecord(activations[last]) /\ last \in 1 .. last
  <2>1. last \in Nat \ { 0 } /\ activations = [ n \in 1 .. last |-> activations[n] ]
    BY DEF Shaped
  <2>2. \A n \in Nat \ { 0 } : n \in 1 .. n
    OBVIOUS
  <2>3. last \in 1 .. last
    BY <2>1, <2>2
  <2> QED BY <2>1, <2>3 DEF Shaped
<1>2. others = [activations EXCEPT ![last].slots[slot] = value]
  OBVIOUS
<1> HIDE DEF last
<1> DEFINE slots == [activations[last].slots EXCEPT ![slot] = value]
<1>3. others = [ n \in 1 .. last |-> IF n = last THEN [activations[last] EXCEPT !.slots = slots]
                                     ELSE activations[n] ]
  BY <1>1, <1>2
<1>4. Len(others) = last
  BY <1>1, <1>3
<1>5. \A n \in 1 .. last - 1 : others[n] = activations[n]
  BY <1>1, <1>3
<1>6. others[last] = [activations[last] EXCEPT !.slots = slots]
  BY <1>1, <1>3
<1> HIDE DEF slots
<1>7. others[last] = [ proc |-> activations[last].proc, slots |-> slots,
                       dest |-> activations[last].dest,
                       resume |-> activations[last].resume ]
  BY <1>1, <1>6 DEF IsRecord
<1> QED BY <1>4, <1>5, <1>7 DEF OneSlot, last, slots

LEMMA Arrives ==
  ASSUME NEW facts, NEW record, NEW place, NEW known,
         GoesTo(facts, record.proc, place, known), TrueOf(known, record.slots)
  PROVE  Runs(facts, record, place)
BY DEF GoesTo, TrueOf, Runs

LEMMA LearnsTrue ==
  ASSUME NEW known, NEW slots, TrueOf(known, slots), NEW dest \in DOMAIN slots,
         NEW values, NEW value \in values
  PROVE  TrueOf(Learns(known, dest, values), [slots EXCEPT ![dest] = value])
BY DEF TrueOf, Learns

(* The three ways the activations change: the last one stays or goes on     *)
(* with a slot changed, waits for a new one, or returns.                    *)
LEMMA GoingOnHolds ==
  ASSUME NEW facts, NEW activations, NEW place, NEW next, NEW known,
         ActivationsHold(facts, activations, place),
         TrueOf(known, activations[Len(activations)].slots),
         GoesTo(facts, activations[Len(activations)].proc, next, known)
  PROVE  ActivationsHold(facts, activations, next)
BY Arrives DEF ActivationsHold

LEMMA SlotHolds ==
  ASSUME NEW facts, NEW activations, NEW place, NEW next, NEW known, NEW others,
         ActivationsHold(facts, activations, place), Len(activations) \in Nat \ { 0 },
         TrueOf(known, activations[Len(activations)].slots),
         NEW dest \in DOMAIN activations[Len(activations)].slots,
         NEW values, NEW value \in values,
         OneSlot(activations, others, dest, value),
         GoesTo(facts, activations[Len(activations)].proc, next, Learns(known, dest, values))
  PROVE  ActivationsHold(facts, others, next)
<1> DEFINE last == Len(activations)
<1>1. /\ last \in Nat \ { 0 } /\ Len(others) = last
      /\ \A n \in 1 .. last - 1 : others[n] = activations[n]
      /\ others[last].proc = activations[last].proc
      /\ others[last].dest = activations[last].dest
      /\ others[last].resume = activations[last].resume
      /\ others[last].slots = [activations[last].slots EXCEPT ![dest] = value]
  BY DEF OneSlot
<1>2. /\ \A n \in 1 .. last : RecordHolds(facts, activations[n])
      /\ \A n \in 1 .. last - 1 :
           Waits(facts, activations[n], activations[n + 1].dest, activations[n + 1].resume)
  BY DEF ActivationsHold
<1>3. TrueOf(Learns(known, dest, values), others[last].slots)
  BY <1>1, LearnsTrue
<1>4. Runs(facts, others[last], next)
  BY <1>1, <1>3, Arrives
<1> HIDE DEF last
<1>5. RecordHolds(facts, others[last])
  <2>1. RecordHolds(facts, activations[last])
    BY <1>1, <1>2
  <2>2. DOMAIN others[last].slots = DOMAIN activations[last].slots
    BY <1>1
  <2> QED BY <1>1, <2>1, <2>2 DEF RecordHolds
<1>6. \A n \in 1 .. last : RecordHolds(facts, others[n])
  <2>1. \A n \in 1 .. last : n = last \/ n \in 1 .. last - 1
    BY <1>1
  <2> QED BY <1>1, <1>2, <1>5, <2>1
<1>7. ASSUME NEW n \in 1 .. last - 1
      PROVE  Waits(facts, others[n], others[n + 1].dest, others[n + 1].resume)
  <2>1. n + 1 = last \/ n + 1 \in 1 .. last - 1
    BY <1>1
  <2>2. others[n + 1].dest = activations[n + 1].dest
        /\ others[n + 1].resume = activations[n + 1].resume
    BY <1>1, <2>1
  <2> QED BY <1>1, <1>2, <2>2
<1> QED BY <1>1, <1>4, <1>6, <1>7 DEF ActivationsHold, last

LEMMA NewActivationHolds ==
  ASSUME NEW facts, NEW activations, NEW place, NEW others,
         ActivationsHold(facts, activations, place), Len(activations) \in Nat \ { 0 },
         Len(others) = Len(activations) + 1,
         SubSeq(others, 1, Len(activations)) = activations,
         RecordHolds(facts, others[Len(others)]),
         Waits(facts, activations[Len(activations)], others[Len(others)].dest,
               others[Len(others)].resume),
         NEW next, Runs(facts, others[Len(others)], next)
  PROVE  ActivationsHold(facts, others, next)
<1> DEFINE last == Len(activations)
<1>1. \A n \in 1 .. last : others[n] = activations[n]
  BY SubSeqAsFunction
<1>2. /\ \A n \in 1 .. last : RecordHolds(facts, activations[n])
      /\ \A n \in 1 .. last - 1 :
           Waits(facts, activations[n], activations[n + 1].dest, activations[n + 1].resume)
  BY DEF ActivationsHold
<1>3. /\ last \in Nat \ { 0 } /\ Len(others) = last + 1
      /\ RecordHolds(facts, others[last + 1]) /\ Runs(facts, others[last + 1], next)
      /\ Waits(facts, activations[last], others[last + 1].dest, others[last + 1].resume)
  OBVIOUS
<1> HIDE DEF last
<1>4. \A n \in 1 .. last + 1 : n \in 1 .. last \/ n = last + 1
  BY <1>3
<1>5. \A n \in 1 .. last + 1 : RecordHolds(facts, others[n])
  BY <1>1, <1>2, <1>3, <1>4
<1>6. ASSUME NEW n \in 1 .. (last + 1) - 1
      PROVE  Waits(facts, others[n], others[n + 1].dest, others[n + 1].resume)
  <2>1. n \in 1 .. last
    BY <1>3
  <2>2. CASE n = last
    BY <1>1, <1>3, <2>1, <2>2
  <2>3. CASE n # last
    <3>1. n \in 1 .. last - 1 /\ n + 1 \in 1 .. last
      BY <1>3, <2>1, <2>3
    <3> QED BY <1>1, <1>2, <2>1, <3>1
  <2> QED BY <2>2, <2>3
<1> QED BY <1>3, <1>5, <1>6 DEF ActivationsHold

LEMMA ReturnHolds ==
  ASSUME NEW facts, NEW activations, NEW place, NEW others,
         ActivationsHold(facts, activations, place), Shaped(activations),
         Len(activations) # 1, NEW value \in Values,
         others = [ SubSeq(activations, 1, Len(activations) - 1) EXCEPT
                      ![Len(activations) - 1].slots[activations[Len(activations)].dest] = value ]
  PROVE  ActivationsHold(facts, others, activations[Len(activations)].resume)
<1> DEFINE last == Len(activations)
<1> DEFINE below == SubSeq(activations, 1, last - 1)
<1> DEFINE c == last - 1
<1> DEFINE dest == activations[last].dest
<1> DEFINE resume == activations[last].resume
<1>0. others = [ below EXCEPT ![c].slots[dest] = value ]
  OBVIOUS
<1>1. /\ last \in Nat \ { 0 } /\ last # 1
      /\ \A n \in 1 .. last : IsRecord(activations[n])
      /\ \A n \in 1 .. last : RecordHolds(facts, activations[n])
      /\ \A n \in 1 .. last - 1 :
           Waits(facts, activations[n], activations[n + 1].dest, activations[n + 1].resume)
  <2>1. last \in Nat \ { 0 } /\ \A n \in 1 .. last : IsRecord(activations[n])
    BY DEF Shaped
  <2>2. /\ \A n \in 1 .. last : RecordHolds(facts, activations[n])
        /\ \A n \in 1 .. last - 1 :
             Waits(facts, activations[n], activations[n + 1].dest, activations[n + 1].resume)
    BY DEF ActivationsHold
  <2> QED BY <2>1, <2>2
<1> HIDE DEF last
<1>2. c \in Nat \ { 0 } /\ c + 1 = last /\ c \in 1 .. c
  BY <1>1
<1>3. below = [ n \in 1 .. c |-> activations[n] ] /\ Len(below) = c
  BY <1>2, SubSeqAsFunction
<1> HIDE DEF below, dest, resume
<1>4. /\ \A n \in 1 .. c : below[n] = activations[n] /\ n \in 1 .. last
      /\ \A n \in 1 .. c - 1 : n \in 1 .. last - 1 /\ n + 1 \in 1 .. c
  <2>1. \A n \in 1 .. c : n \in 1 .. last
    BY <1>1
  <2>2. \A n \in 1 .. c - 1 : n \in 1 .. last - 1 /\ n + 1 \in 1 .. c
    BY <1>1
  <2> HIDE DEF c
  <2>3. \A n \in 1 .. c : below[n] = activations[n]
    BY <1>3
  <2> QED BY <2>1, <2>2, <2>3
<1> HIDE DEF c
<1>5. Shaped(below)
  BY <1>1, <1>2, <1>3, <1>4 DEF Shaped
<1>6. OneSlot(below, others, dest, value)
  BY <1>0, <1>3, <1>5, SlotChanges
<1>7. Waits(facts, below[c], dest, resume)
  <2>1. Waits(facts, activations[c], activations[c + 1].dest, activations[c + 1].resume)
    BY <1>1, <1>2 DEF c
  <2> QED BY <1>2, <1>4, <2>1 DEF dest, resume
<1>8. /\ Len(others) = c
      /\ \A n \in 1 .. c - 1 : others[n] = below[n]
      /\ others[c].proc = below[c].proc
      /\ others[c].dest = below[c].dest /\ others[c].resume = below[c].resume
      /\ others[c].slots = [below[c].slots EXCEPT ![dest] = value]
  BY <1>3, <1>6 DEF OneSlot
<1>9. Runs(facts, others[c], resume)
  BY <1>7, <1>8 DEF Waits, Runs
<1>10. \A n \in 1 .. c : RecordHolds(facts, others[n])
  <2>1. RecordHolds(facts, below[c])
    BY <1>1, <1>2, <1>4
  <2>2. RecordHolds(facts, others[c])
    BY <1>8, <2>1 DEF RecordHolds
  <2>3. \A n \in 1 .. c : n = c \/ n \in 1 .. c - 1
    BY <1>2
  <2> QED BY <1>1, <1>4, <1>8, <2>2, <2>3
<1>11. ASSUME NEW n \in 1 .. c - 1
       PROVE  Waits(facts, others[n], others[n + 1].dest, others[n + 1].resume)
  <2>1. n \in 1 .. c /\ (n + 1 = c \/ n + 1 \in 1 .. c - 1)
    BY <1>2
  <2>2. others[n + 1].dest = below[n + 1].dest /\ others[n + 1].resume = below[n + 1].resume
    BY <1>8, <2>1
  <2>3. Waits(facts, activations[n], activations[n + 1].dest, activations[n + 1].resume)
    BY <1>1, <1>4
  <2>4. below[n] = activations[n] /\ below[n + 1] = activations[n + 1]
    BY <1>2, <1>4, <2>1
  <2> QED BY <1>8, <2>2, <2>3, <2>4
<1> QED BY <1>8, <1>9, <1>10, <1>11 DEF ActivationsHold, resume, last

-----------------------------------------------------------------------------
(* What is known where an instruction is executed.                          *)
Informed(facts) ==
  /\ ActivationsHold(facts, Records, code_pointer)
  /\ Len(Records) \in Nat \ { 0 }
  /\ Activation!Top = Records[Len(Records)]
  /\ Activation!Top.proc = current_procedure
  /\ DOMAIN Activation!Top.slots = Slots
  /\ \A slot \in Slots : Activation!Top.slots[slot] = GetLocal(slot)
  /\ TrueOf(facts.known[current_procedure][code_pointer], Activation!Top.slots)
  /\ WellWritten(code[current_module], code_pointer)
  /\ InstructionPasses(facts, current_procedure, code_pointer, Written)
  /\ Activation!Instruction = Written
  /\ RegistersHold(facts, registers)

LEMMA RunningInformed ==
  ASSUME NEW f, Running(f), NEW facts, Told(facts)
  PROVE  Informed(facts)
<1> DEFINE n == Len(Records)
<1> DEFINE top == Activation!Top
<1>1. ActivationsHold(facts, Records, code_pointer) /\ RegistersHold(facts, registers)
  BY DEF Told, FactsHold, Running
<1>2. /\ n \in Nat \ { 0 } /\ n = Len(f)
      /\ top = RecordIn(stack, f, current_procedure, Len(f))
      /\ Activation!Instruction = Written
      /\ \A i \in Slots : Activation!Slot(i) = GetLocal(i)
  BY RunningSees DEF Seen
<1>3. top = Records[n]
  BY DEF Activation!Top
<1>4. top.proc = current_procedure /\ top.slots = SlotsIn(stack, f[Len(f)])
  BY <1>2 DEF RecordIn
<1>5. DOMAIN top.slots = Slots
  <2>1. f[Len(f)] = stack_pointer
    BY DEF Running, IsChain
  <2> QED BY <1>4, <2>1 DEF SlotsIn, Slots, FrameSize, SizeIn
<1>6. \A slot \in Slots : top.slots[slot] = GetLocal(slot)
  BY <1>2 DEF Activation!Slot
<1>7. /\ code_pointer \in DOMAIN facts.known[current_procedure]
      /\ TrueOf(facts.known[current_procedure][code_pointer], top.slots)
  BY <1>1, <1>3, <1>4 DEF ActivationsHold, Runs
<1>8. current_procedure \in Procedures /\ current_module = ModuleOf[current_procedure]
  BY RunningFacts DEF RunningTypes
<1>9. /\ WellWritten(code[current_module], code_pointer)
      /\ InstructionPasses(facts, current_procedure, code_pointer, Written)
  BY <1>7, <1>8 DEF Told, CodePasses, Written
<1> HIDE DEF top, n
<1> QED BY <1>1, <1>2, <1>3, <1>4, <1>5, <1>6, <1>7, <1>9 DEF Informed, top, n

(* The running activation has as many arguments as the facts say.           *)
LEMMA ArgumentsAsKnown ==
  ASSUME NEW f, Running(f), NEW facts, Told(facts)
  PROVE  /\ 0 .. NumLocals[current_procedure] + facts.least[current_procedure] - 1 \subseteq Slots
         /\ FrameWord(NUM_ARGS_SLOT) \in Nat
         /\ FrameWord(NUM_ARGS_SLOT) <= facts.most[current_procedure]
<1> DEFINE a == NumLocals[current_procedure]
<1> DEFINE b == FrameWord(NUM_ARGS_SLOT)
<1> DEFINE least == facts.least[current_procedure]
<1> DEFINE most == facts.most[current_procedure]
<1>1. /\ ActivationsHold(facts, Records, code_pointer) /\ Len(Records) \in Nat \ { 0 }
      /\ Activation!Top = Records[Len(Records)]
      /\ Activation!Top.proc = current_procedure /\ DOMAIN Activation!Top.slots = Slots
  BY RunningInformed DEF Informed
<1>2. PICK k \in least .. most : Slots = 0 .. a + k - 1
  <2>1. Len(Records) \in 1 .. Len(Records)
    <3> DEFINE n == Len(Records)
    <3>1. n \in Nat \ { 0 }
      BY <1>1
    <3> HIDE DEF n
    <3>2. n \in 1 .. n
      BY <3>1
    <3> QED BY <3>2 DEF n
  <2>2. RecordHolds(facts, Activation!Top)
    BY <1>1, <2>1 DEF ActivationsHold
  <2> QED BY <1>1, <2>2 DEF RecordHolds
<1>3. /\ a \in Nat /\ b \in Nat /\ least \in Nat /\ most \in Nat
      /\ Slots = 0 .. (6 + a + b) - 6 - 1
  <2>1. current_procedure \in Procedures /\ FrameWord(NUM_LOCALS_SLOT) = a
        /\ IsChain(stack, stack_pointer, f)
    BY RunningFacts DEF RunningTypes
  <2>2. Len(f) \in 1 .. Len(f) /\ f[Len(f)] = stack_pointer
    <3> DEFINE n == Len(f)
    <3>1. n \in Nat \ { 0 }
      BY <2>1, ChainTypes
    <3> HIDE DEF n
    <3>2. n \in 1 .. n
      BY <3>1
    <3> QED BY <2>1, <3>2 DEF n, IsChain
  <2>3. Sized(stack, stack_pointer)
    BY <2>1, <2>2 DEF IsChain
  <2>4. b \in Nat /\ a \in Nat
    BY <2>1, <2>3, FramesAssumption DEF Sized, FrameWord
  <2>5. least \in Nat /\ most \in Nat
    BY <2>1 DEF Told, CodePasses
  <2>6. Slots = 0 .. (6 + a + b) - 6 - 1
    <3>1. FrameSize(stack_pointer) = 6 + FrameWord(NUM_LOCALS_SLOT) + FrameWord(NUM_ARGS_SLOT)
      BY DEF FrameSize, FrameWord
    <3>2. FrameSize(stack_pointer) = 6 + a + b
      BY <2>1, <3>1
    <3> HIDE DEF a, b
    <3> QED BY <3>2 DEF Slots
  <2> QED BY <2>4, <2>5, <2>6
<1> HIDE DEF a, b, least, most
<1>4. b = k
  <2>1. 0 .. a + b - 1 = 0 .. a + k - 1
    BY <1>2, <1>3
  <2>2. a + b - 1 = a + k - 1
    BY <1>2, <1>3, <2>1
  <2> QED BY <1>2, <1>3, <2>2
<1>5. 0 .. a + least - 1 \subseteq Slots
  BY <1>2, <1>3
<1> QED BY <1>2, <1>3, <1>4, <1>5 DEF a, b, least, most

(* Checked code is well formed where it is executed.                        *)
LEMMA ToldWellFormed ==
  ASSUME NEW f, Running(f), NEW facts, Told(facts)
  PROVE  CodeFits /\ CallerTakesOne
<1> DEFINE known == facts.known[current_procedure][code_pointer]
<1> DEFINE holds == facts.holds[current_module]
<1> DEFINE i == Written
<1>1. /\ TrueOf(known, Activation!Top.slots) /\ DOMAIN Activation!Top.slots = Slots
      /\ \A slot \in Slots : Activation!Top.slots[slot] = GetLocal(slot)
      /\ WellWritten(code[current_module], code_pointer)
      /\ InstructionPasses(facts, current_procedure, code_pointer, i)
  BY RunningInformed DEF Informed
<1>2. /\ current_procedure \in Procedures /\ current_module = ModuleOf[current_procedure]
      /\ current_module \in Modules /\ RegistersOK
  BY RunningFacts DEF RunningTypes
<1>3. SlotsNamed(i) \subseteq Slots
  BY <1>1, ArgumentsAsKnown DEF InstructionPasses
<1>4. ASSUME i.op \in { "jump", "jump_if", "jump_unless" }
      PROVE  code_pointer + i.offset \in DOMAIN code[current_module]
  <2>1. code_pointer + i.offset \in DOMAIN facts.known[current_procedure]
    BY <1>1, <1>4 DEF InstructionPasses, GoesTo
  <2> QED BY <1>2, <2>1 DEF Told, CodePasses, WellWritten
<1>5. DOMAIN registers[current_module] = DOMAIN holds
  BY <1>2 DEF Told, CodePasses, RegistersPass, RegistersOK
<1>6. /\ i.op = "global_ref" => i.source \in DOMAIN registers[current_module]
      /\ i.op = "global_set" => i.dest \in DOMAIN registers[current_module]
  BY <1>1, <1>2, <1>5 DEF InstructionPasses
<1>7. \A slot \in DOMAIN known : slot \in Slots /\ GetLocal(slot) \in known[slot]
  BY <1>1 DEF TrueOf
<1>8. ASSUME i.op \in { "global_set", "return" }
      PROVE  GetLocal(i.source) \in Values
  <2>1. CASE i.op = "return"
    <3>1. StoresValue(known, i.source, Values)
      BY <1>1, <2>1 DEF InstructionPasses
    <3> HIDE DEF known, i
    <3> QED BY <1>7, <3>1 DEF StoresValue
  <2>2. CASE i.op = "global_set"
    <3>1. StoresValue(known, i.source, holds[i.dest]) /\ i.dest \in DOMAIN holds
      BY <1>1, <1>2, <2>2 DEF InstructionPasses
    <3>2. holds[i.dest] \subseteq Values
      BY <1>2, <3>1 DEF Told, CodePasses, RegistersPass
    <3> HIDE DEF known, i, holds
    <3> QED BY <1>7, <3>1, <3>2 DEF StoresValue
  <2> QED BY <1>8, <2>1, <2>2
<1>9. CodeFits
  BY <1>1, <1>3, <1>4, <1>6, <1>8 DEF CodeFits, Slots
<1>10. CallerTakesOne
  <2> SUFFICES ASSUME i.op \in { "call", "call_sva" }, GetLocal(i.func) \in Procedures
               PROVE  FrameWord(NUM_ARGS_SLOT) <= 1
    BY DEF CallerTakesOne
  <2>1. \E args, next : CallPasses(facts, current_procedure, known, i, args, next)
    BY <1>1 DEF InstructionPasses
  <2>2. i.func \in DOMAIN known /\ GetLocal(i.func) \in known[i.func]
    BY <1>7, <2>1 DEF CallPasses
  <2>3. facts.most[current_procedure] <= 1
    BY <2>1, <2>2 DEF CallPasses
  <2>4. facts.most[current_procedure] \in Nat
    BY <1>2 DEF Told, CodePasses
  <2>5. FrameWord(NUM_ARGS_SLOT) <= facts.most[current_procedure]
    BY ArgumentsAsKnown
  <2>6. FrameWord(NUM_ARGS_SLOT) \in Int
    BY ArgumentsAsKnown
  <2> QED BY <2>3, <2>4, <2>5, <2>6
<1> QED BY <1>9, <1>10

-----------------------------------------------------------------------------
(* The facts stay true from one instruction to the next.                    *)
LEMMA RegistersKept ==
  ASSUME NEW f, Running(f), NEW facts, Told(facts),
         UNCHANGED registers \/ Activation!SetGlobal
  PROVE  RegistersHold(facts, registers')
<1>1. RegistersHold(facts, registers) /\ Activation!Instruction = Written
  BY RunningInformed DEF Informed
<1>2. CASE UNCHANGED registers
  BY <1>1, <1>2 DEF RegistersHold
<1>3. CASE Activation!SetGlobal
  <2> DEFINE known == facts.known[current_procedure][code_pointer]
  <2> DEFINE i == Written
  <2> DEFINE slots == Activation!Top.slots
  <2>1. /\ TrueOf(known, slots) /\ Activation!Top.proc = current_procedure
        /\ InstructionPasses(facts, current_procedure, code_pointer, i)
    BY RunningInformed DEF Informed
  <2>2. /\ current_module = ModuleOf[current_procedure] /\ current_module \in Modules
        /\ DOMAIN registers = Modules
        /\ DOMAIN registers[current_module] = DOMAIN InitialGlobals[current_module]
    BY RunningFacts DEF RunningTypes, RegistersOK
  <2>3. /\ i.op = "global_set"
        /\ registers' = [registers EXCEPT ![current_module][i.dest] = slots[i.source]]
    BY <1>1, <1>3, <2>1, <2>2 DEF Activation!SetGlobal, Activation!Slot
  <2>4. /\ i.dest \in DOMAIN facts.holds[current_module]
        /\ StoresValue(known, i.source, facts.holds[current_module][i.dest])
    BY <2>1, <2>2, <2>3 DEF InstructionPasses
  <2> HIDE DEF known, slots
  <2>5. slots[i.source] \in facts.holds[current_module][i.dest]
    BY <2>1, <2>4 DEF StoresValue, TrueOf
  <2> DEFINE value == slots[i.source]
  <2> HIDE DEF i, value
  <2>6. ASSUME NEW module \in Modules, NEW register \in DOMAIN InitialGlobals[module]
        PROVE  registers'[module][register] \in facts.holds[module][register]
    <3>1. registers[module][register] \in facts.holds[module][register]
      BY <1>1 DEF RegistersHold
    <3>2. registers' = [registers EXCEPT ![current_module][i.dest] = value]
      BY <2>3 DEF value
    <3>3. value \in facts.holds[current_module][i.dest]
      BY <2>5 DEF value
    <3>4. CASE module # current_module
      BY <2>2, <3>1, <3>2, <3>4
    <3>5. CASE module = current_module
      <4>1. registers'[module] = [registers[module] EXCEPT ![i.dest] = value]
        BY <2>2, <3>2, <3>5
      <4>2. register \in DOMAIN registers[module]
        BY <2>2, <3>5
      <4> QED BY <3>1, <3>3, <3>5, <4>1, <4>2
    <3> QED BY <3>4, <3>5
  <2> QED BY <2>6 DEF RegistersHold
<1> QED BY <1>2, <1>3

LEMMA StayKeeps ==
  ASSUME NEW f, Running(f), NEW facts, Told(facts), UNCHANGED Records, NEW next,
         GoesTo(facts, current_procedure, next, facts.known[current_procedure][code_pointer])
  PROVE  ActivationsHold(facts, Records', next)
<1>1. /\ ActivationsHold(facts, Records, code_pointer)
      /\ Activation!Top = Records[Len(Records)] /\ Activation!Top.proc = current_procedure
      /\ TrueOf(facts.known[current_procedure][code_pointer], Activation!Top.slots)
  BY RunningInformed DEF Informed
<1>2. ActivationsHold(facts, Records, next)
  BY <1>1, GoingOnHolds
<1> QED BY <1>2

LEMMA SetSlotKeeps ==
  ASSUME NEW f, Running(f), NEW facts, Told(facts), NEW slot \in Slots,
         NEW values, NEW value \in values, Activation!SetSlot(slot, value), NEW next,
         GoesTo(facts, current_procedure, next,
                Learns(facts.known[current_procedure][code_pointer], slot, values))
  PROVE  ActivationsHold(facts, Records', next)
<1>1. /\ ActivationsHold(facts, Records, code_pointer) /\ Len(Records) \in Nat \ { 0 }
      /\ Activation!Top = Records[Len(Records)] /\ Activation!Top.proc = current_procedure
      /\ DOMAIN Activation!Top.slots = Slots
      /\ TrueOf(facts.known[current_procedure][code_pointer], Activation!Top.slots)
  BY RunningInformed DEF Informed
<1>2. OneSlot(Records, Records', slot, value)
  <2>1. Records' = [Records EXCEPT ![Len(Records)].slots[slot] = value]
    BY DEF Activation!SetSlot
  <2>2. Shaped(Records)
    BY RunningShaped
  <2> DEFINE next_records == Records'
  <2>3. next_records = [Records EXCEPT ![Len(Records)].slots[slot] = value]
    BY <2>1
  <2> HIDE DEF next_records
  <2>4. OneSlot(Records, next_records, slot, value)
    BY <2>2, <2>3, SlotChanges
  <2> QED BY <2>4 DEF next_records
<1> QED BY <1>1, <1>2, SlotHolds

(* The slots an instruction writes are among those it names.                *)
LEMMA DestIsSlot ==
  ASSUME NEW f, Running(f), NEW facts, Told(facts),
         Written.op \in { "call", "call_sva", "global_ref", "load", "new_bundle",
                          "bundle_get" }
  PROVE  Written.dest \in Slots
<1>1. SlotsNamed(Written) \subseteq Slots
  BY ToldWellFormed DEF CodeFits, Slots
<1>2. Written.dest \in SlotsNamed(Written)
  BY DEF SlotsNamed
<1> QED BY <1>1, <1>2

LEMMA ContinueKeeps ==
  ASSUME NEW f, Running(f), NEW facts, Told(facts), Activation!Continue
  PROVE  ActivationsHold(facts, Records', code_pointer')
<1> DEFINE known == facts.known[current_procedure][code_pointer]
<1> DEFINE i == Written
<1> DEFINE Goes(next, now) == GoesTo(facts, current_procedure, next, now)
<1>1. /\ InstructionPasses(facts, current_procedure, code_pointer, i)
      /\ Activation!Instruction = i /\ Activation!Top.proc = current_procedure
      /\ RegistersHold(facts, registers)
  BY RunningInformed DEF Informed
<1>2. /\ current_module = ModuleOf[current_procedure] /\ current_module \in Modules
      /\ RegistersOK
  BY RunningFacts DEF RunningTypes
<1>3. i.op # "call" => Activation!NextPlace = code_pointer + 1
  BY <1>1 DEF Activation!NextPlace
<1>4. CASE /\ Activation!Jumps
           /\ code_pointer' = code_pointer + Activation!Instruction.offset
           /\ UNCHANGED << Records, registers >>
  <2>1. i.op \in { "jump", "jump_if", "jump_unless" }
    BY <1>1, <1>4 DEF Activation!Jumps
  <2>2. Goes(code_pointer', known)
    BY <1>1, <1>4, <2>1 DEF InstructionPasses
  <2> QED BY <1>4, <2>2, StayKeeps
<1>5. CASE /\ i.op \in { "jump_if", "jump_unless", "bundle_set", "bundle_close" }
           /\ code_pointer' = Activation!NextPlace
           /\ UNCHANGED << Records, registers >>
  <2>1. Goes(code_pointer', known)
    BY <1>1, <1>3, <1>5 DEF InstructionPasses
  <2> QED BY <1>5, <2>1, StayKeeps
<1>6. CASE /\ i.op \in { "load", "new_bundle", "bundle_get" }
           /\ \E value \in Values : Activation!SetSlot(i.dest, value)
           /\ code_pointer' = Activation!NextPlace
  <2>1. Goes(code_pointer', Learns(known, i.dest, Values))
    BY <1>1, <1>3, <1>6 DEF InstructionPasses
  <2>2. i.dest \in Slots
    BY <1>6, DestIsSlot
  <2>3. PICK value \in Values : Activation!SetSlot(i.dest, value)
    BY <1>6
  <2> HIDE DEF i
  <2> QED BY <2>1, <2>2, <2>3, SetSlotKeeps
<1>7. CASE Activation!GetGlobal /\ code_pointer' = Activation!NextPlace /\ UNCHANGED registers
  <2> DEFINE values == facts.holds[current_module][i.source]
  <2> DEFINE value == registers[current_module][i.source]
  <2>1. i.op = "global_ref" /\ Activation!SetSlot(i.dest, value)
    BY <1>1, <1>2, <1>7 DEF Activation!GetGlobal
  <2>2. /\ i.source \in DOMAIN facts.holds[current_module]
        /\ Goes(code_pointer', Learns(known, i.dest, values))
    BY <1>1, <1>2, <1>3, <1>7, <2>1 DEF InstructionPasses
  <2>3. value \in values
    BY <1>1, <1>2, <2>2 DEF Told, CodePasses, RegistersPass, RegistersHold
  <2>4. i.dest \in Slots
    BY <2>1, DestIsSlot
  <2> HIDE DEF i, value, values
  <2> QED BY <2>1, <2>2, <2>3, <2>4, SetSlotKeeps
<1>8. CASE Activation!SetGlobal /\ code_pointer' = Activation!NextPlace /\ UNCHANGED Records
  <2>1. i.op = "global_set"
    BY <1>1, <1>8 DEF Activation!SetGlobal
  <2>2. Goes(code_pointer', known)
    BY <1>1, <1>3, <1>8, <2>1 DEF InstructionPasses
  <2> QED BY <1>8, <2>2, StayKeeps
<1> QED BY <1>1, <1>4, <1>5, <1>6, <1>7, <1>8 DEF Activation!Continue

LEMMA LocalsAreNumbers ==
  ASSUME NEW procedure \in Procedures
  PROVE  NumLocals[procedure] \in Nat
BY FramesAssumption

(* The slots of a callee are given the slots of the caller that args names. *)
Given(callee, args, slots, given) ==
  /\ DOMAIN given = 0 .. NumLocals[callee] + Len(args) - 1
  /\ \A n \in 1 .. Len(args) : given[NumLocals[callee] + n - 1] = slots[args[n]]

LEMMA PassedTrue ==
  ASSUME NEW callee \in Procedures, NEW known, NEW slots, TrueOf(known, slots),
         NEW args, Len(args) \in Nat, DOMAIN args = 1 .. Len(args),
         NEW given, Given(callee, args, slots, given)
  PROVE  TrueOf(Passed(callee, known, args), given)
<1> DEFINE a == NumLocals[callee]
<1> DEFINE b == Len(args)
<1>1. a \in Nat /\ b \in Nat /\ DOMAIN args = 1 .. b
  <2>1. a \in Nat
    BY LocalsAreNumbers
  <2> HIDE DEF a
  <2> QED BY <2>1
<1>2. /\ DOMAIN given = 0 .. a + b - 1
      /\ \A n \in 1 .. b : given[a + n - 1] = slots[args[n]]
  BY DEF Given
<1>3. Passed(callee, known, args) =
        [ slot \in { a + k - 1 : k \in { n \in DOMAIN args : args[n] \in DOMAIN known } } |->
            known[args[slot - a + 1]] ]
  BY DEF Passed
<1> HIDE DEF a, b
<1>4. ASSUME NEW slot \in DOMAIN Passed(callee, known, args)
      PROVE  /\ slot \in DOMAIN given
             /\ given[slot] \in Passed(callee, known, args)[slot]
  <2>1. PICK k \in 1 .. b : slot = a + k - 1 /\ args[k] \in DOMAIN known
    BY <1>1, <1>3, <1>4
  <2>2. Passed(callee, known, args)[slot] = known[args[slot - a + 1]]
    BY <1>3, <1>4
  <2>3. slot - a + 1 = k /\ slot \in 0 .. a + b - 1
    BY <1>1, <2>1
  <2>4. slots[args[k]] \in known[args[k]]
    BY <2>1 DEF TrueOf
  <2> QED BY <1>2, <2>1, <2>2, <2>3, <2>4
<1> QED BY <1>4 DEF TrueOf

(* A call: of a procedure that takes the arguments, or of a primitive.      *)
LEMMA InvokeKeeps ==
  ASSUME NEW f, Running(f), NEW facts, Told(facts),
         Written.op \in { "call", "call_sva" },
         NEW args, Len(args) \in Nat, DOMAIN args = 1 .. Len(args),
         CallPasses(facts, current_procedure, facts.known[current_procedure][code_pointer],
                    Written, args, Activation!NextPlace),
         NEW values, Len(values) = Len(args), DOMAIN values = 1 .. Len(args),
         \A n \in 1 .. Len(args) : values[n] = Activation!Slot(args[n]),
         Activation!Invoke(Activation!Slot(Written.func), values, Written.dest),
         mode' = "running"
  PROVE  ActivationsHold(facts, Records', code_pointer')
<1> DEFINE known == facts.known[current_procedure][code_pointer]
<1> DEFINE callee == Activation!Slot(Written.func)
<1> DEFINE dest == Written.dest
<1> DEFINE next == Activation!NextPlace
<1> DEFINE top == Activation!Top
<1>1. /\ ActivationsHold(facts, Records, code_pointer) /\ Len(Records) \in Nat \ { 0 }
      /\ top = Records[Len(Records)] /\ top.proc = current_procedure
      /\ DOMAIN top.slots = Slots /\ TrueOf(known, top.slots)
  BY RunningInformed DEF Informed
<1>2. dest \in Slots
  BY DestIsSlot
<1>3. callee = top.slots[Written.func]
  BY DEF Activation!Slot
<1>4. /\ Written.func \in DOMAIN known
      /\ \A proc \in known[Written.func] \cap Procedures : CanBeGiven(facts, proc, known, args)
      /\ GoesTo(facts, current_procedure, next, Learns(known, dest, Values))
  BY DEF CallPasses
<1>5. callee \in known[Written.func]
  BY <1>1, <1>3, <1>4 DEF TrueOf
<1>6. \A n \in 1 .. Len(args) : values[n] = top.slots[args[n]]
  BY DEF Activation!Slot
<1>7. \/ callee \in Procedures /\ Activation!Push(callee, values, dest)
      \/ \E value \in Values : Activation!SetSlot(dest, value) /\ code_pointer' = next
  BY DEF Activation!Invoke
<1> HIDE DEF known, callee, dest, next, top
<1>8. CASE \E value \in Values : Activation!SetSlot(dest, value) /\ code_pointer' = next
  <2>1. PICK value \in Values : Activation!SetSlot(dest, value) /\ code_pointer' = next
    BY <1>8
  <2>2. ActivationsHold(facts, Records', next)
    BY <1>2, <1>4, <2>1, SetSlotKeeps DEF known
  <2> QED BY <2>1, <2>2
<1>9. CASE callee \in Procedures /\ Activation!Push(callee, values, dest)
  <2> DEFINE new == Records'[Len(Records')]
  <2>1. /\ Len(Records') = Len(Records) + 1
        /\ SubSeq(Records', 1, Len(Records)) = Records
        /\ new.proc = callee
        /\ DOMAIN new.slots = 0 .. NumLocals[callee] + Len(args) - 1
        /\ \A n \in 1 .. Len(args) : new.slots[NumLocals[callee] + n - 1] = values[n]
        /\ new.dest = dest /\ new.resume = next /\ code_pointer' = EntryPoint[callee]
    BY <1>9 DEF Activation!Push, next
  <2>2. CanBeGiven(facts, callee, known, args) /\ callee \in Procedures
    BY <1>4, <1>5, <1>9
  <2> HIDE DEF new
  <2>3. RecordHolds(facts, new)
    BY <2>1, <2>2 DEF RecordHolds, CanBeGiven
  <2>4. TrueOf(Passed(callee, known, args), new.slots)
    <3> DEFINE slots == top.slots
    <3> DEFINE given == new.slots
    <3>1. /\ DOMAIN given = 0 .. NumLocals[callee] + Len(args) - 1
          /\ TrueOf(known, slots)
      BY <1>1, <2>1
    <3>2. \A n \in 1 .. Len(args) : given[NumLocals[callee] + n - 1] = slots[args[n]]
      BY <1>6, <2>1
    <3> HIDE DEF slots, given
    <3>3. Given(callee, args, slots, given)
      BY <3>1, <3>2 DEF Given
    <3>4. TrueOf(Passed(callee, known, args), given)
      BY <2>2, <3>1, <3>3, PassedTrue
    <3> QED BY <3>4 DEF given
  <2>5. Runs(facts, new, EntryPoint[callee])
    BY <2>1, <2>2, <2>4, Arrives DEF CanBeGiven
  <2>6. Waits(facts, top, new.dest, new.resume)
    <3>1. ASSUME NEW value \in Values
          PROVE  TrueOf(facts.known[top.proc][next], [top.slots EXCEPT ![dest] = value])
      <4>1. TrueOf(Learns(known, dest, Values), [top.slots EXCEPT ![dest] = value])
        BY <1>1, <1>2, LearnsTrue
      <4> QED BY <1>1, <1>4, <4>1 DEF GoesTo, TrueOf
    <3>2. next \in DOMAIN facts.known[top.proc]
      BY <1>1, <1>4 DEF GoesTo
    <3> QED BY <1>1, <1>2, <2>1, <3>1, <3>2 DEF Waits
  <2> DEFINE others == Records'
  <2>7. /\ Len(others) = Len(Records) + 1 /\ SubSeq(others, 1, Len(Records)) = Records
        /\ others[Len(others)] = new
    BY <2>1 DEF new
  <2> HIDE DEF others
  <2>8. ActivationsHold(facts, others, EntryPoint[callee])
    BY <1>1, <2>3, <2>5, <2>6, <2>7, NewActivationHolds
  <2> QED BY <2>1, <2>8 DEF others
<1> QED BY <1>7, <1>8, <1>9

LEMMA CallKeeps ==
  ASSUME NEW f, Running(f), NEW facts, Told(facts), Activation!Call, mode' = "running"
  PROVE  ActivationsHold(facts, Records', code_pointer')
<1> DEFINE known == facts.known[current_procedure][code_pointer]
<1> DEFINE i == Written
<1>1. /\ InstructionPasses(facts, current_procedure, code_pointer, i)
      /\ Activation!Instruction = i
      /\ WellWritten(code[current_module], code_pointer)
  BY RunningInformed DEF Informed
<1>2. CASE i.op = "call_sva"
  <2> DEFINE args == << i.arg >>
  <2> DEFINE values == << Activation!Slot(i.arg) >>
  <2>1. Activation!Invoke(Activation!Slot(i.func), values, i.dest)
    BY <1>1, <1>2 DEF Activation!Call
  <2>2. Activation!NextPlace = code_pointer + 1
    BY <1>1, <1>2 DEF Activation!NextPlace
  <2>3. CallPasses(facts, current_procedure, known, i, args, Activation!NextPlace)
    BY <1>1, <1>2, <2>2 DEF InstructionPasses
  <2>4. /\ Len(args) \in Nat /\ DOMAIN args = 1 .. Len(args)
        /\ Len(values) = Len(args) /\ DOMAIN values = 1 .. Len(args)
        /\ \A n \in 1 .. Len(args) : values[n] = Activation!Slot(args[n])
    OBVIOUS
  <2> HIDE DEF args, values
  <2> QED BY <1>2, <2>1, <2>3, <2>4, InvokeKeeps
<1>3. CASE i.op = "call"
  <2> DEFINE args == i.args
  <2> DEFINE values == [ n \in DOMAIN args |-> Activation!Slot(args[n]) ]
  <2>1. Activation!Invoke(Activation!Slot(i.func), values, i.dest)
    BY <1>1, <1>3 DEF Activation!Call
  <2>2. i \in Calls /\ Len(args) = i.nargs
    BY <1>1, <1>3 DEF WellWritten, Packed, Written
  <2>3. args \in Seq(Byte)
    BY <2>2 DEF Calls
  <2> HIDE DEF args
  <2>4. Len(args) \in Nat /\ DOMAIN args = 1 .. Len(args)
    BY <2>3, LenProperties
  <2>5. Len(values) = Len(args) /\ DOMAIN values = 1 .. Len(args)
        /\ \A n \in 1 .. Len(args) : values[n] = Activation!Slot(args[n])
    <3> DEFINE n == Len(args)
    <3> HIDE DEF n
    <3>1. n \in Nat /\ values = [ k \in 1 .. n |-> Activation!Slot(args[k]) ]
      BY <2>4 DEF n
    <3> HIDE DEF values
    <3>2. Len(values) = n /\ DOMAIN values = 1 .. n
          /\ \A k \in 1 .. n : values[k] = Activation!Slot(args[k])
      BY <3>1
    <3> QED BY <3>2 DEF n
  <2>6. Activation!NextPlace = code_pointer + 1 + (i.nargs + 3) \div 4
    BY <1>1, <1>3, <2>2 DEF Activation!NextPlace, Activation!ArgumentWords, args
  <2>7. CallPasses(facts, current_procedure, known, i, args, Activation!NextPlace)
    BY <1>1, <1>3, <2>6 DEF InstructionPasses, args
  <2> HIDE DEF values
  <2> QED BY <1>3, <2>1, <2>4, <2>5, <2>7, InvokeKeeps
<1> QED BY <1>1, <1>2, <1>3 DEF Activation!Call

LEMMA ReturnKeeps ==
  ASSUME NEW f, Running(f), NEW facts, Told(facts), Activation!Return, Records' # << >>
  PROVE  ActivationsHold(facts, Records', code_pointer')
<1> DEFINE known == facts.known[current_procedure][code_pointer]
<1> DEFINE i == Written
<1> DEFINE top == Activation!Top
<1>1. /\ ActivationsHold(facts, Records, code_pointer) /\ Len(Records) \in Nat \ { 0 }
      /\ top = Records[Len(Records)] /\ TrueOf(known, top.slots)
      /\ InstructionPasses(facts, current_procedure, code_pointer, i)
      /\ Activation!Instruction = i
  BY RunningInformed DEF Informed
<1>2. i.op = "return"
  BY <1>1 DEF Activation!Return
<1>3. top.slots[i.source] \in Values
  <2>1. StoresValue(known, i.source, Values)
    BY <1>1, <1>2 DEF InstructionPasses
  <2> HIDE DEF known, i, top
  <2> QED BY <1>1, <2>1 DEF StoresValue, TrueOf
<1> DEFINE value == top.slots[i.source]
<1>4. /\ Len(Records) - 1 # 0
      /\ Records' = [ SubSeq(Records, 1, Len(Records) - 1)
                        EXCEPT ![Len(Records) - 1].slots[top.dest] = value ]
      /\ code_pointer' = top.resume
  BY <1>1 DEF Activation!Return, Activation!Slot
<1> HIDE DEF top, value
<1>5. Shaped(Records)
  BY RunningShaped
<1> DEFINE others == Records'
<1>6. others = [ SubSeq(Records, 1, Len(Records) - 1)
                   EXCEPT ![Len(Records) - 1].slots[Records[Len(Records)].dest] = value ]
  BY <1>1, <1>4
<1>7. Len(Records) # 1
  BY <1>4
<1> HIDE DEF others
<1>8. ActivationsHold(facts, others, Records[Len(Records)].resume)
  BY <1>1, <1>3, <1>5, <1>6, <1>7, ReturnHolds DEF value
<1> QED BY <1>1, <1>4, <1>8 DEF others

LEMMA StepKeeps ==
  ASSUME NEW f, Running(f), NEW facts, Told(facts), Step
  PROVE  Told(facts)'
<1>1. CodeFits /\ CallerTakesOne
  BY ToldWellFormed
<1>2. Executing(f)
  BY <1>1 DEF Executing, Running
<1>3. Activation!Execute \/ Activation!Break
  BY <1>2, StepRefines
<1>4. code' = code
  BY DEF Step
<1>5. UNCHANGED registers \/ Activation!SetGlobal
  BY <1>3 DEF Activation!Execute, Activation!Break, Activation!Call, Activation!Invoke,
              Activation!Push, Activation!Return, Activation!Fail, Activation!Continue
<1>6. RegistersHold(facts, registers')
  BY <1>5, RegistersKept
<1>7. ASSUME mode' = "running"
      PROVE  ActivationsHold(facts, Records', code_pointer')
  <2>1. Inv'
    <3>1. CodeWellFormed /\ [Next]_vars /\ Inv
      BY <1>1 DEF CodeWellFormed, Next, Running
    <3> QED BY <3>1, NextInv
  <2>2. PICK g : IsChain(stack', stack_pointer', g)
    BY <1>7, <2>1 DEF Inv
  <2>3. stack' \in Stacks
    BY <2>1 DEF Inv, TypeOK, Stacks
  <2>4. Records' # << >>
    <3>1. Records' = RecordsIn(stack', g, current_procedure')
      BY <1>7, <2>2, <2>3, NextRecordsAre
    <3> DEFINE n == Len(g)
    <3>2. n \in Nat \ { 0 }
      BY <2>2, ChainTypes
    <3>3. Records' = [ k \in 1 .. n |-> RecordIn(stack', g, current_procedure', k) ]
      BY <3>1 DEF RecordsIn
    <3> HIDE DEF n
    <3> QED BY <3>2, <3>3
  <2>5. Activation!Call \/ Activation!Return \/ Activation!Continue
    BY <1>3, <1>7, <2>4 DEF Activation!Execute, Activation!Break, Activation!Fail
  <2> QED BY <1>7, <2>4, <2>5, CallKeeps, ReturnKeeps, ContinueKeeps
<1>8. CodePasses(code', facts)
  BY <1>4 DEF Told
<1>9. FactsHold(facts)'
  BY <1>6, <1>7 DEF FactsHold
<1> QED BY <1>8, <1>9 DEF Told

LEMMA RunKeeps ==
  ASSUME Inv, NEW given \in BOOLEAN, RunProcedure(given), NEW facts, Told(facts)
  PROVE  Told(facts)'
<1> DEFINE entry == Entry
<1> DEFINE others == Records'
<1>1. /\ entry \in Procedures /\ Len(others) = 1
      /\ others[1].proc = entry /\ code_pointer' = EntryPoint[entry]
      /\ DOMAIN others[1].slots = 0 .. NumLocals[entry] - 1
  BY RunBegins
<1>2. UNCHANGED << code, registers >> /\ current_module # NO_MODULE
  BY DEF RunProcedure
<1>3. CodePasses(code, facts) /\ RegistersHold(facts, registers)
  BY DEF Told, FactsHold
<1>4. CanBeGiven(facts, entry, << >>, << >>)
  <2>1. current_module \in Modules
    BY <1>2 DEF Inv, TypeOK
  <2>2. entry \in facts.holds[current_module][EntryRegister[current_module]]
    BY <1>3, <2>1, FramesAssumption DEF RegistersHold, Entry
  <2> HIDE DEF entry
  <2> QED BY <1>1, <1>3, <2>1, <2>2 DEF CodePasses, RegistersPass
<1> HIDE DEF entry, others
<1>5. RecordHolds(facts, others[1])
  <2>1. 0 \in facts.least[entry] .. facts.most[entry]
    BY <1>4 DEF CanBeGiven
  <2>2. NumLocals[entry] + 0 - 1 = NumLocals[entry] - 1
    BY <1>1, LocalsAreNumbers
  <2> QED BY <1>1, <2>1, <2>2 DEF RecordHolds
<1>6. Runs(facts, others[1], EntryPoint[entry])
  <2>1. DOMAIN Passed(entry, << >>, << >>) = { }
    BY DEF Passed
  <2>2. TrueOf(Passed(entry, << >>, << >>), others[1].slots)
    BY <2>1 DEF TrueOf
  <2> QED BY <1>1, <1>4, <2>2, Arrives DEF CanBeGiven
<1>7. ActivationsHold(facts, others, EntryPoint[entry])
  <2>1. \A n \in 1 .. Len(others) : n = 1
    BY <1>1
  <2>2. 1 .. Len(others) - 1 = { }
    BY <1>1
  <2> QED BY <1>1, <1>5, <1>6, <2>1, <2>2 DEF ActivationsHold
<1>8. FactsHold(facts)'
  <2>1. RegistersHold(facts, registers')
    BY <1>2, <1>3 DEF RegistersHold
  <2> QED BY <1>1, <1>7, <2>1 DEF FactsHold, others
<1>9. CodePasses(code', facts)
  BY <1>2, <1>3
<1> QED BY <1>8, <1>9 DEF Told

(* In the host nothing runs.                                                *)
LEMMA IdleKeeps ==
  ASSUME NEW facts, Told(facts),
         \/ \E module \in Modules : Setup(module)
         \/ \E given \in BOOLEAN : RunWithoutProcedure(given)
  PROVE  Told(facts)'
<1>1. mode' = "idle" /\ UNCHANGED << code, registers >>
  BY DEF Setup, RunWithoutProcedure
<1>2. CodePasses(code', facts) /\ RegistersHold(facts, registers')
  BY <1>1 DEF Told, FactsHold, RegistersHold
<1> QED BY <1>1, <1>2 DEF Told, FactsHold

(* The invariant of checked code.                                           *)
CheckedInv == Inv /\ \E facts : Told(facts)

LEMMA CheckedWellFormed == CheckedInv => CodeWellFormed
<1> SUFFICES ASSUME CheckedInv, mode = "running" PROVE CodeFits /\ CallerTakesOne
  BY DEF CodeWellFormed
<1>1. PICK facts : Told(facts)
  BY DEF CheckedInv
<1>2. PICK f : Running(f)
  BY DEF CheckedInv, Inv, Running
<1> QED BY <1>1, <1>2, ToldWellFormed

LEMMA CheckedInit == ProgramsPass /\ Init => CheckedInv
<1> SUFFICES ASSUME ProgramsPass, Init PROVE CheckedInv
  OBVIOUS
<1>1. PICK facts : CodePasses(code, facts)
  BY DEF ProgramsPass, Init
<1>2. RegistersHold(facts, registers)
  BY <1>1 DEF CodePasses, RegistersPass, RegistersHold, Init
<1>3. mode # "running"
  BY DEF Init
<1>4. Told(facts)
  BY <1>1, <1>2, <1>3 DEF Told, FactsHold
<1> QED BY <1>4, InitInv DEF CheckedInv

LEMMA CheckedNext == CheckedInv /\ [Next]_vars => CheckedInv'
<1> SUFFICES ASSUME CheckedInv, [Next]_vars PROVE CheckedInv'
  OBVIOUS
<1>1. Inv /\ CodeWellFormed
  BY CheckedWellFormed DEF CheckedInv
<1>2. Inv'
  BY <1>1, NextInv
<1>3. PICK facts : Told(facts)
  BY DEF CheckedInv
<1>4. Told(facts)'
  <2>1. CASE UNCHANGED vars
    BY <1>3, <2>1 DEF vars, Told, FactsHold, RegistersHold, Records, Frames, Record,
                      ProcedureAt, FrameSize
  <2>2. CASE Step
    <3>1. PICK f : Running(f)
      BY <1>1, <2>2 DEF Inv, Running, Step
    <3> QED BY <1>3, <2>2, <3>1, StepKeeps
  <2>3. CASE \/ \E module \in Modules : Setup(module)
             \/ \E given \in BOOLEAN : RunWithoutProcedure(given)
    BY <1>3, <2>3, IdleKeeps
  <2>4. CASE \E given \in BOOLEAN : RunProcedure(given)
    BY <1>1, <1>3, <2>4, RunKeeps
  <2> QED BY <2>1, <2>2, <2>3, <2>4 DEF Next
<1> QED BY <1>2, <1>4 DEF CheckedInv

(* Code that passes is well formed wherever the evaluator gets to it,       *)
(* whatever primitives and bundles come back with, whatever the host runs   *)
(* and however often (_step decodes and executes what it finds): the        *)
(* assumption that the theorems on frames and activations rest on can be    *)
(* decided before anything runs.                                            *)
THEOREM CheckedCodeIsWellFormed ==
  ASSUME ProgramsPass
  PROVE  Spec => []CodeWellFormed
<1>1. Init => CheckedInv
  BY CheckedInit
<1>2. CheckedInv /\ [Next]_vars => CheckedInv'
  BY CheckedNext
<1>3. CheckedInv => CodeWellFormed
  BY CheckedWellFormed
<1> QED BY <1>1, <1>2, <1>3, PTL DEF Spec

(* Nothing is assumed of a run of code that passes: words stay where they   *)
(* belong, frames are disjoint, the first one stays, and the evaluator does *)
(* what the abstract one does (evaluator.c against the activations).        *)
THEOREM CheckedCodeRunsSafely ==
  ASSUME ProgramsPass
  PROVE  Spec => /\ []TypeOK /\ []FramesDisjoint /\ []FramesAdjacent
                 /\ RunKeepsItsBase /\ ImplementsActivations
BY CheckedCodeIsWellFormed, TypesHold, FramesAreDisjoint, FramesAreAdjacent,
   BaseIsKept, Refinement, PTL
=============================================================================
