-------------------------------- MODULE HllModes -------------------------------
(***************************************************************************)
(* HyperLogLog sketches as values (hll/sketch.rs, list.rs, hash_set.rs,    *)
(* array6.rs, array8.rs, estimator.rs): a list of coupons that becomes a   *)
(* set of coupons and then an array of registers.                          *)
(*                                                                         *)
(* A coupon is a pair of an address and a value.  The list and the set are *)
(* the coupons they hold; the order in them shows nowhere.  An 8-bit array *)
(* is a function of the registers, a 6-bit one its packed bytes; HllArray4 *)
(* shows that the 4-bit one keeps the same registers.                      *)
(*                                                                         *)
(* Of the estimator, ooo is the out-of-order flag, hip says whether        *)
(* hip_accum is an estimate of what the sketch has seen, and kxq0 and kxq1 *)
(* are the sums of 2^-v over the registers below and from the split.  The  *)
(* split lets a double hold both exactly, so they are integers here, in    *)
(* units of the least term.                                                *)
(***************************************************************************)
EXTENDS HllArray6, FiniteSets, FiniteSetsExt

CONSTANTS
  ListCapacity,  \* 2^LG_INIT_LIST_SIZE (8)
  LgInitSet,     \* LG_INIT_SET_SIZE (5)
  LgDirect,      \* below this lg_config_k a full list becomes an array (8)
  SetMargin,     \* a set grows up to lg_config_k less this (3)
  MaxRegister,   \* the largest value of a coupon (63)
  KxqSplit       \* registers from this on count in kxq1 (32)

(* The first set holds a full list with room to spare, and is the largest  *)
(* set of the smallest sketch that has one.                                *)
ASSUME ModeAssumption ==
  /\ {LgInitSet, LgDirect, SetMargin} \subseteq Nat
  /\ {ListCapacity, KxqSplit} \subseteq Nat \ {0}
  /\ 4 * ListCapacity <= 3 * 2 ^ LgInitSet
  /\ LgInitSet = LgDirect - SetMargin
  /\ MaxRegister \in 0 .. 2 ^ ValueBits - 1

(* Arithmetic that the provers do not evaluate: terms are naturals.        *)
ASSUME TermsAssumption == \A v \in 0 .. MaxRegister : 2 ^ (MaxRegister - v) \in Nat

Types == {"Hll4", "Hll6", "Hll8"}

NumRegisters(lg) == 2 ^ lg
SlotOf(c, lg) == c[1] % 2 ^ lg
ValueOf(c) == c[2]

(* inv_pow2, and the half of the sum that a register counts in. *)
InvPow2(v) == 2 ^ (MaxRegister - v)
Kxq0Of(v) == IF v < KxqSplit THEN InvPow2(v) ELSE 0
Kxq1Of(v) == IF v < KxqSplit THEN 0 ELSE InvPow2(v)

SumOf(f) == MapThenSumSet(LAMBDA s : f[s], DOMAIN f)
Kxq0(regs) == SumOf([s \in DOMAIN regs |-> Kxq0Of(regs[s])])
Kxq1(regs) == SumOf([s \in DOMAIN regs |-> Kxq1Of(regs[s])])

NoRegisters == <<>>

NewSketch(lg, type) ==
  [lg_k |-> lg, type |-> type, mode |-> "List", coupons |-> {},
   lg_size |-> 0, regs |-> NoRegisters, num_zeros |-> 0,
   ooo |-> FALSE, hip |-> TRUE, kxq0 |-> 0, kxq1 |-> 0]

NewRegisters(lg, type) ==
  IF type = "Hll6" THEN [i \in 0 .. NumBytes(NumRegisters(lg)) - 1 |-> 0]
  ELSE [s \in 0 .. NumRegisters(lg) - 1 |-> 0]

NewArray(lg, type) ==
  [NewSketch(lg, type) EXCEPT
     !.mode = "Array",
     !.regs = NewRegisters(lg, type),
     !.num_zeros = NumRegisters(lg),
     !.kxq0 = NumRegisters(lg) * InvPow2(0)]

IsArray(sk) == sk.mode = "Array"

Slots(arr) == 0 .. NumRegisters(arr.lg_k) - 1

Get(arr, s) == IF arr.type = "Hll6" THEN GetRaw(arr.regs, s) ELSE arr.regs[s]

Put(arr, s, v) ==
  [arr EXCEPT !.regs = IF arr.type = "Hll6" THEN PutRaw(@, s, v)
                       ELSE [@ EXCEPT ![s] = v]]

Registers(arr) == [s \in Slots(arr) |-> Get(arr, s)]

IsEmpty(sk) ==
  IF IsArray(sk) THEN sk.num_zeros = NumRegisters(sk.lg_k)
  ELSE sk.coupons = {}

(* Fault: every register counts in the first sum.                          *)
UpdateKxqLow(arr, old, new) ==
  [arr EXCEPT !.kxq0 = @ - InvPow2(old) + InvPow2(new)]

UpdateKxq(arr, old, new) ==
  [arr EXCEPT !.kxq0 = @ - Kxq0Of(old) + Kxq0Of(new),
              !.kxq1 = @ - Kxq1Of(old) + Kxq1Of(new)]

(* Array4::update, Array6::update, Array8::update. *)
UpdateArray(arr, c) ==
  LET s == SlotOf(c, arr.lg_k)
      old == Get(arr, s)
  IN IF ValueOf(c) <= old THEN arr
     ELSE [Put(UpdateKxq(arr, old, ValueOf(c)), s, ValueOf(c)) EXCEPT
             !.num_zeros = IF old = 0 THEN @ - 1 ELSE @]

UpdateArrayAll(arr, cs) == FoldSet(LAMBDA c, a : UpdateArray(a, c), arr, cs)

(* promote_container_to_array; the estimate of the container becomes the   *)
(* HIP accumulator.                                                        *)
PromoteToArray(sk) ==
  [UpdateArrayAll(NewArray(sk.lg_k, sk.type), sk.coupons) EXCEPT !.hip = TRUE]

PromoteToSet(sk) == [sk EXCEPT !.mode = "Set", !.lg_size = LgInitSet]

GrowSet(sk) == [sk EXCEPT !.lg_size = @ + 1]

WithCoupon(sk, c) == [sk EXCEPT !.coupons = @ \cup {c}]

(* List::update skips a coupon that it has; so does a full list.           *)
UpdateList(sk, c) ==
  LET l == IF Cardinality(sk.coupons) < ListCapacity THEN WithCoupon(sk, c) ELSE sk
  IN IF Cardinality(l.coupons) < ListCapacity THEN l
     ELSE IF sk.lg_k < LgDirect THEN PromoteToArray(l) ELSE PromoteToSet(l)

(* More than 3/4 of the places are taken. *)
Crowded(sk) == 4 * Cardinality(sk.coupons) > 3 * 2 ^ sk.lg_size

(* Fault: the set is promoted before the coupon is in it.                  *)
UpdateSetLate(sk, c) ==
  LET s == WithCoupon(sk, c)
  IN IF ~Crowded(s) THEN s
     ELSE IF s.lg_size = s.lg_k - SetMargin THEN PromoteToArray(sk)
     ELSE GrowSet(s)

UpdateSet(sk, c) ==
  LET s == WithCoupon(sk, c)
  IN IF ~Crowded(s) THEN s
     ELSE IF s.lg_size = s.lg_k - SetMargin THEN PromoteToArray(s)
     ELSE GrowSet(s)

UpdateWithCoupon(sk, c) ==
  CASE sk.mode = "List" -> UpdateList(sk, c)
    [] sk.mode = "Set"  -> UpdateSet(sk, c)
    [] IsArray(sk)      -> UpdateArray(sk, c)

UpdateWithCoupons(sk, cs) ==
  FoldSet(LAMBDA c, s : UpdateWithCoupon(s, c), sk, cs)

-------------------------------------------------------------------------------

Zeros(regs) == {s \in DOMAIN regs : regs[s] = 0}

(* rebuild_cached_values, from the registers. *)
Recount(arr) ==
  [arr EXCEPT !.num_zeros = Cardinality(Zeros(arr.regs)),
              !.kxq0 = Kxq0(arr.regs),
              !.kxq1 = Kxq1(arr.regs)]

(* Fault: the count of zero registers is not recomputed.                   *)
RebuildStaleZeros(arr) ==
  [Recount(arr) EXCEPT !.num_zeros = arr.num_zeros, !.ooo = TRUE, !.hip = FALSE]

(* Fault: the array is not marked out of order.                            *)
RebuildInOrder(arr) == [Recount(arr) EXCEPT !.hip = FALSE]

(* rebuild_cached_values and set_out_of_order(true), after registers of an *)
(* 8-bit array have been written in bulk.                                  *)
RebuildEstimator(arr) == [Recount(arr) EXCEPT !.ooo = TRUE, !.hip = FALSE]

MergeSameLgK(dst, src) ==
  RebuildEstimator([dst EXCEPT !.regs =
    [s \in DOMAIN dst.regs |-> Max({dst.regs[s], Get(src, s)})]])

MergeWithDownsample(dst, src) ==
  RebuildEstimator([dst EXCEPT !.regs =
    [s \in DOMAIN dst.regs |->
       Max({dst.regs[s]} \cup
           {Get(src, t) : t \in {u \in Slots(src) : u % 2 ^ dst.lg_k = s}})]])

MergeIntoArray8(dst, src) ==
  IF src.lg_k = dst.lg_k THEN MergeSameLgK(dst, src)
  ELSE MergeWithDownsample(dst, src)

(* The registers of an array as coupons, in copy_array46_via_coupons and   *)
(* convert_array8_to_type.                                                 *)
AsCoupons(arr) ==
  LET regs == Registers(arr)
  IN {<<s, regs[s]>> : s \in Slots(arr) \ Zeros(regs)}

(* copy_or_downsample: an array of at most lgMax, which keeps the source's *)
(* HIP accumulator if its size is kept.                                    *)
CopyOrDownsample(src, lgMax) ==
  LET new == NewArray(src.lg_k, "Hll8")
  IN IF src.lg_k > lgMax THEN MergeWithDownsample(NewArray(lgMax, "Hll8"), src)
     ELSE IF src.type = "Hll8"
     THEN [MergeSameLgK(new, src) EXCEPT !.hip = src.hip]
     ELSE [UpdateArrayAll(new, AsCoupons(src)) EXCEPT !.hip = src.hip]

(* convert_array8_to_type: updates of a new array, so in order, with the   *)
(* larger of its own and the source's estimate.                            *)
ConvertArray8(arr, type) == UpdateArrayAll(NewArray(arr.lg_k, type), AsCoupons(arr))

===============================================================================
