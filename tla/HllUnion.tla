-------------------------------- MODULE HllUnion -------------------------------
(***************************************************************************)
(* A HyperLogLog union (hll/union.rs) and the sketch given to it next.     *)
(*                                                                         *)
(* The source is built by updates, reloaded, taken from the union itself   *)
(* or read from the image of another implementation's union; the gadget is *)
(* replaced, promoted, merged or downsampled by union updates, depending   *)
(* on the modes and sizes of both.                                         *)
(***************************************************************************)
EXTENDS HllImage

CONSTANTS
  Coupons,       \* the coupons of the values offered
  SourceLgs,     \* lg_config_k of sources
  SourceTypes,   \* their target types
  LgMaxes,       \* the union's lg_max_k, one for each behaviour
  ForeignTypes   \* the types of out-of-order arrays that arrive as images

Lgs == SourceLgs \cup LgMaxes

ASSUME CouponsAssumption ==
  \A c \in Coupons : c = <<c[1], c[2]>> /\ c[1] \in Nat /\ c[2] \in 1 .. MaxRegister
ASSUME SketchesAssumption == SourceTypes \subseteq Types /\ Lgs \subseteq Nat \ {0}

(* Arithmetic that the provers do not evaluate. *)
ASSUME PowersOfTwoForRegisters ==
  \A lg \in Lgs : \A n \in 0 .. lg :
    /\ 2 ^ n \in Nat \ {0} /\ 2 ^ (n + 1) = 2 * 2 ^ n
    /\ 2 ^ lg = 2 ^ (lg - n) * 2 ^ n

VARIABLES
  lg_max_k,
  gadget,
  src,
  offered,       \* history: the coupons the gadget has been offered
  srcOffered,    \* history: the coupons the source has been offered
  least          \* history: the least lg_k of the arrays merged

vars == <<lg_max_k, gadget, src, offered, srcOffered, least>>

unionVars == <<gadget, offered, least>>
sourceVars == <<src, srcOffered>>

Init ==
  /\ lg_max_k \in LgMaxes
  /\ gadget = NewSketch(lg_max_k, "Hll8")
  /\ offered = {}
  /\ least = lg_max_k
  /\ \E lg \in SourceLgs, type \in SourceTypes : src = NewSketch(lg, type)
  /\ srcOffered = {}

-------------------------------------------------------------------------------

NewSource(lg, type) ==
  /\ src' = NewSketch(lg, type)
  /\ srcOffered' = {}
  /\ UNCHANGED <<lg_max_k, unionVars>>

UpdateSource(c) ==
  /\ src' = UpdateWithCoupon(src, c)
  /\ srcOffered' = srcOffered \cup {c}
  /\ UNCHANGED <<lg_max_k, unionVars>>

ReloadSource ==
  /\ Readable(Serialize(src))
  /\ src' = Deserialize(Serialize(src))
  /\ UNCHANGED <<lg_max_k, unionVars, srcOffered>>

(* The image of an array that another implementation has merged and marked *)
(* out of order; deserialize reads the flag and clears the accumulator.    *)
ReadForeignUnion ==
  /\ IsArray(src)
  /\ src.type \in ForeignTypes
  /\ src' = Deserialize([Serialize(src) EXCEPT !.ooo = TRUE])
  /\ UNCHANGED <<lg_max_k, unionVars, srcOffered>>

-------------------------------------------------------------------------------

UpdateFromListOrSet ==
  gadget' = IF IsEmpty(gadget) /\ src.lg_k = gadget.lg_k
            THEN [src EXCEPT !.type = "Hll8"]
            ELSE UpdateWithCoupons(gadget, src.coupons)

(* The source is smaller than an array gadget: downsample the gadget.      *)
ShrinkAndMerge ==
  MergeSameLgK(MergeWithDownsample(NewArray(src.lg_k, "Hll8"), gadget), src)

UpdateFromArray ==
  gadget' =
    IF IsEmpty(gadget) THEN CopyOrDownsample(src, lg_max_k)
    ELSE IF ~IsArray(gadget)
    THEN UpdateArrayAll(CopyOrDownsample(src, lg_max_k), gadget.coupons)
    ELSE IF src.lg_k < gadget.lg_k THEN ShrinkAndMerge
    ELSE MergeIntoArray8(gadget, src)

UpdateSkipped ==
  /\ IsEmpty(src)
  /\ UNCHANGED vars

UpdateUnion ==
  /\ ~IsEmpty(src)
  /\ IF IsArray(src) THEN UpdateFromArray ELSE UpdateFromListOrSet
  /\ offered' = offered \cup srcOffered
  /\ least' = IF IsArray(src) /\ src.lg_k < least THEN src.lg_k ELSE least
  /\ UNCHANGED <<lg_max_k, sourceVars>>

UpdateValue(c) ==
  /\ gadget' = UpdateWithCoupon(gadget, c)
  /\ offered' = offered \cup {c}
  /\ UNCHANGED <<lg_max_k, least, sourceVars>>

ToSketch(type) ==
  IF type = gadget.type THEN gadget
  ELSE IF IsArray(gadget) THEN ConvertArray8(gadget, type)
  ELSE [gadget EXCEPT !.type = type]

(* A result becomes the input of a later update, as in a tree of unions.   *)
TakeResult(type) ==
  /\ src' = ToSketch(type)
  /\ srcOffered' = offered
  /\ UNCHANGED <<lg_max_k, unionVars>>

Reset ==
  /\ gadget' = NewSketch(lg_max_k, "Hll8")
  /\ offered' = {}
  /\ least' = lg_max_k
  /\ UNCHANGED <<lg_max_k, sourceVars>>

Next ==
  \/ \E lg \in SourceLgs, type \in SourceTypes : NewSource(lg, type)
  \/ \E c \in Coupons : UpdateSource(c) \/ UpdateValue(c)
  \/ ReloadSource
  \/ ReadForeignUnion
  \/ UpdateSkipped
  \/ UpdateUnion
  \/ \E type \in SourceTypes : TakeResult(type)
  \/ Reset

Spec == Init /\ [][Next]_vars

-------------------------------------------------------------------------------

RegistersOf(cs, lg) ==
  [s \in 0 .. NumRegisters(lg) - 1 |->
     Max({0} \cup {ValueOf(c) : c \in {d \in cs : SlotOf(d, lg) = s}})]

(* A sketch that has been offered cs has lost nothing: all the coupons, or *)
(* in every register the largest value of its coupons, and the count of    *)
(* zero registers on which is_empty decides.                               *)
Represents(sk, cs) ==
  IF IsArray(sk)
  THEN /\ Registers(sk) = RegistersOf(cs, sk.lg_k)
       /\ sk.num_zeros = Cardinality(Zeros(Registers(sk)))
  ELSE sk.coupons = cs

(* Between calls a list has a free place, where update would otherwise     *)
(* drop the coupon, a set has one for find to stop at, and a set has not   *)
(* outgrown the size at which it is to become an array                     *)
(* (list.rs:59-71, hash_set.rs:60-89, sketch.rs:226-236).                  *)
HasRoom(sk) ==
  /\ sk.mode = "List" => Cardinality(sk.coupons) < ListCapacity
  /\ sk.mode = "Set" => /\ Cardinality(sk.coupons) < 2 ^ sk.lg_size
                        /\ sk.lg_size <= sk.lg_k - SetMargin

(* Promotions of a sketch by its updates lose no coupon and leave room for *)
(* the next, for each target type, also after its image has been read; and *)
(* the reader accepts the image in every mode and gives the same sketch    *)
(* back (sketch.rs:215-244, 309-445, 461-510).                             *)
SourceComplete ==
  /\ HasRoom(src) /\ Represents(src, srcOffered)
  /\ Readable(Serialize(src))
  /\ Deserialize(Serialize(src)) = [src EXCEPT !.hip = @ /\ ~src.ooo]

(* The gadget is the sketch of all that has been offered to the union,     *)
(* whichever of the paths of update was taken, also when a result of the   *)
(* union was merged back, and so is the result for every type.  Its        *)
(* precision is the least of lg_max_k and the lg_k of the arrays merged    *)
(* since the last reset: lists and sets never cost precision, and a copy   *)
(* never raises it (union.rs:47-49, 140-295, 529-617).                     *)
UnionComplete ==
  /\ gadget.type = "Hll8" /\ gadget.lg_k = least
  /\ HasRoom(gadget) /\ Represents(gadget, offered)
  /\ \A type \in Types :
       LET r == ToSketch(type)
       IN r.type = type /\ r.lg_k = gadget.lg_k /\ Represents(r, offered)

(* What the estimators of an array read is right.  kxq0 and kxq1 are the   *)
(* sums over its registers on either side of the split, whether updates    *)
(* moved terms from one to the other, a bulk merge recomputed them, or a   *)
(* copy or an image took them along.  estimate returns hip_accum unless    *)
(* the array is out of order, so then it has to be an estimate: not        *)
(* cleared, and not stale after a bulk merge                               *)
(* (estimator.rs:77-122, 292-299; array8.rs:229-250; union.rs:583-617).    *)
EstimatorUsable ==
  \A sk \in {s \in {src, gadget} : IsArray(s)} :
    /\ ~sk.ooo => sk.hip
    /\ sk.kxq0 = Kxq0(Registers(sk)) /\ sk.kxq1 = Kxq1(Registers(sk))

===============================================================================
