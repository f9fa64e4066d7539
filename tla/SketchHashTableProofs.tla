------------------------- MODULE SketchHashTableProofs -------------------------
(***************************************************************************)
(* Proofs about TupleSketch and about the slot array that implements it,   *)
(* SketchHashTable, for every set of hashes, every k, resize factor,       *)
(* sampling probability and number of updates.                             *)
(*                                                                         *)
(* The argument for the slots: the stride is odd and the number of slots a *)
(* power of two, so a walk meets every slot (ProbesCover); storing an      *)
(* entry where its walk ends moves no other walk (PlaceSites); so an array *)
(* filled by walks has every entry where its walk ends (Sited), which      *)
(* updates, growth and rebuilds maintain as long as a slot is free.        *)
(***************************************************************************)
EXTENDS SketchHashTable, ThetaTableProofs

USE MaxThetaAssumption, MinLgKAssumption, LgKAssumption, HashesAssumption,
    ValuesAssumption, MaxOffersAssumption

-------------------------------------------------------------------------------
(***************************************************************************)
(* The set-level sketch.                                                   *)
(***************************************************************************)

(* The inductive invariant: RetainedExact alone is not inductive, because  *)
(* the rebuild needs a well-typed table.                                   *)
IInv == TypeOK /\ Sound(LgK, StartingTheta(Sampling), table, offered)

LEMMA InitSound == Init => IInv
<1> SUFFICES ASSUME Init PROVE IInv
  OBVIOUS
<1>1. /\ table = NewTable(LgK, LgResize, Sampling)
      /\ offered = [h \in {} |-> 0]
      /\ offers = 0
  BY DEF Init
<1>2. TypeOK
  BY <1>1, NewTableOK DEF TypeOK
<1>3. Sound(LgK, StartingTheta(Sampling), table, offered)
  BY <1>1, NewTableOK DEF Sound
<1> QED BY <1>2, <1>3 DEF IInv

(* The invariant is inductive; along the way, theta never moves up except  *)
(* to start over with an empty history.                                    *)
LEMMA StepSound ==
  IInv /\ [Next]_vars =>
    IInv' /\ (table'.theta <= table.theta \/ Retained(table') = {})
<1> SUFFICES ASSUME IInv, [Next]_vars
             PROVE  IInv' /\ (table'.theta <= table.theta \/ Retained(table') = {})
  OBVIOUS
<1> DEFINE start == StartingTheta(Sampling)
<1>0. SizeOK(LgK) /\ LgResize \in 0 .. 3
  BY OwnSizeOK
<1>1. /\ TableShape(table, LgK, LgResize) /\ MinLgK <= table.lgCur
      /\ Sound(LgK, start, table, offered)
      /\ offered \in [DOMAIN offered -> Nat]
      /\ DOMAIN offered \subseteq Hashes
      /\ offers \in 0 .. MaxOffers
      /\ table.theta \in Nat
  BY DEF IInv, TypeOK, TableOK, TableShape
<1>2. CASE \E h \in Hashes, v \in Values : Update(h, v)
  <2>1. PICK h \in Hashes, v \in Values : Update(h, v)
    BY <1>2
  <2>2. v \in Nat
    OBVIOUS
  <2>3. TableOK(table') /\ Sound(LgK, start, table', offered') /\ table'.theta <= table.theta
    <3> DEFINE r == UpsertEntry(table, h, v, table.entries[h] + v)
    <3>1. table' = r
      <4>1. table' = UpsertEntry(table, h, Create + v, table.entries[h] + v)
        BY <2>1 DEF Update
      <4>2. Create + v = v
        BY <2>2 DEF Create
      <4> QED BY <4>1, <4>2
    <3>2. offered' = Offer(offered, h, v)
      BY <2>1 DEF Update, Offer
    <3>3. TableShape(r, LgK, LgResize) /\ Sound(LgK, start, r, Offer(offered, h, v)) /\ r.theta <= table.theta
         /\ table.lgCur <= r.lgCur
      BY <1>0, <1>1, <2>2, UpsertSound
    <3>4. MinLgK <= r.lgCur
      BY <1>1, <3>3 DEF TableShape
    <3> HIDE DEF r
    <3> QED BY <3>1, <3>2, <3>3, <3>4 DEF TableOK
  <2>4. offered' \in [DOMAIN offered' -> Nat] /\ DOMAIN offered' \subseteq Hashes
    <3>1. offered' = Offer(offered, h, v)
      BY <2>1 DEF Update, Offer
    <3>2. /\ DOMAIN Offer(offered, h, v) = DOMAIN offered \cup {h}
          /\ Offer(offered, h, v) \in [DOMAIN offered \cup {h} -> Nat]
      BY <1>1, <2>2, OfferFacts
    <3> QED BY <1>1, <3>1, <3>2
  <2>5. offers' \in 0 .. MaxOffers
    <3>1. offers < MaxOffers /\ offers' = offers + 1
      BY <2>1, Zenon DEF Update
    <3> QED BY <1>1, <3>1
  <2> QED BY <2>3, <2>4, <2>5 DEF IInv, TypeOK
<1>3. CASE Trim
  <2>1. /\ table' = TrimTable(table)
        /\ UNCHANGED <<offered, offers>>
    BY <1>3 DEF Trim
  <2>2. \A h \in Retained(table) : h < table.theta
    BY <1>1 DEF Sound
  <2>3. Prunes(LgK, LgResize, table, table')
    BY <1>0, <1>1, <2>1, <2>2, TrimPrunes
  <2>4. DOMAIN offered \subseteq Nat
    BY <1>1
  <2>5. TableOK(table') /\ Sound(LgK, start, table', offered) /\ table'.theta <= table.theta
    <3>1. TableShape(table', LgK, LgResize) /\ Sound(LgK, start, table', offered)
            /\ table'.theta <= table.theta /\ table.lgCur <= table'.lgCur
      BY <1>0, <1>1, <2>3, <2>4, PrunesSound
    <3>2. MinLgK <= table'.lgCur
      BY <1>1, <3>1 DEF TableShape
    <3> QED BY <3>1, <3>2 DEF TableOK
  <2> QED BY <1>1, <2>1, <2>5 DEF IInv, TypeOK
<1>4. CASE Reset
  <2>1. /\ table' = NewTable(LgK, LgResize, Sampling)
        /\ offered' = [h \in {} |-> 0]
        /\ offers' = 0
    BY <1>1, <1>4 DEF Reset, ResetTable, TableShape
  <2>2. TableOK(table') /\ Retained(table') = {}
        /\ table'.theta = StartingTheta(Sampling)
    BY <2>1, NewTableOK
  <2>3. Sound(LgK, start, table', offered')
    BY <2>1, <2>2 DEF Sound
  <2> QED BY <2>1, <2>2, <2>3 DEF IInv, TypeOK
<1>5. CASE UNCHANGED vars
  BY <1>1, <1>5 DEF vars, IInv, TypeOK
<1> QED BY <1>2, <1>3, <1>4, <1>5 DEF Next

(* The invariant holds in every reachable state. *)
THEOREM Invariance == Spec => []IInv
<1>1. Init => IInv
  BY InitSound
<1>2. IInv /\ [Next]_vars => IInv'
  BY StepSound
<1> QED BY <1>1, <1>2, PTL DEF Spec

(* Type correctness of the sketch under every sequence of updates, trims   *)
(* and resets.                                                             *)
THEOREM TypeCorrect == Spec => []TypeOK
<1>1. IInv => TypeOK
  BY DEF IInv
<1> QED BY <1>1, Invariance, PTL

(* The retained hashes are exactly the offered hashes below theta: neither *)
(* resize nor rebuild nor trim loses one or keeps one too many.            *)
THEOREM RetainsExactly == Spec => []RetainedExact
<1>1. IInv => RetainedExact
  BY DEF IInv, Sound, RetainedExact
<1> QED BY <1>1, Invariance, PTL

(* The summary of a retained key accounts for all its updates: upsert_entry *)
(* never restarts the summary of a key that rebuild had dropped.           *)
THEOREM SummariesComplete == Spec => []SummaryComplete
<1>1. IInv => SummaryComplete
  BY DEF IInv, Sound, SummaryComplete
<1> QED BY <1>1, Invariance, PTL

(* A sketch in estimation mode retains at least k hashes, between any two  *)
(* operations: rebuild never leaves fewer.                                 *)
THEOREM EstimatesFromK == Spec => []EstimationModeFull
<1>1. IInv => EstimationModeFull
  BY DEF IInv, Sound, EstimationModeFull
<1> QED BY <1>1, Invariance, PTL

(* A hash that was offered and dropped stays dropped until a reset.        *)
THEOREM NeverReappears == Spec => DroppedStayDropped
<1>1. IInv /\ IInv' /\ [Next]_vars =>
        [Retained(table') \subseteq
           Retained(table) \cup (DOMAIN offered' \ DOMAIN offered)]_vars
  <2> SUFFICES ASSUME IInv, IInv', [Next]_vars, NEW h \in Retained(table'),
                      h \in DOMAIN offered
               PROVE  h \in Retained(table)
    BY DEF IInv, Sound
  <2>1. table'.theta <= table.theta \/ Retained(table') = {}
    BY StepSound
  <2>2. 0 < h /\ h < table'.theta
    BY DEF IInv, Sound
  <2>3. h \in Nat /\ table.theta \in Nat /\ table'.theta \in Nat
    BY DEF IInv, TypeOK, TableOK, TableShape
  <2>4. h < table.theta
    BY <2>1, <2>2, <2>3
  <2> QED BY <2>2, <2>4 DEF IInv, Sound
<1> QED BY <1>1, Invariance, PTL DEF Spec, DroppedStayDropped

-------------------------------------------------------------------------------
(***************************************************************************)
(* Probing.                                                                *)
(***************************************************************************)

(* The sizes a table may have. *)
Lgs == MinLgK .. LgK + 1

LEMMA SizeFacts ==
  ASSUME NEW lg \in Lgs
  PROVE  lg \in 0 .. LgK + 1 /\ 2 ^ lg \in Nat \ {0}
BY PowersOfTwo DEF Lgs

LEMMA StrideOdd ==
  ASSUME NEW key \in Nat, NEW lg \in Lgs
  PROVE  GetStride(key, lg) \in Odd /\ GetStride(key, lg) \in Nat
<1>1. key \div 2 ^ lg \in Nat
  BY SizeFacts, ModFacts
<1>2. (key \div 2 ^ lg) % (StrideMask + 1) \in Nat
  BY <1>1 DEF StrideMask
<1>3. GetStride(key, lg) = 2 * ((key \div 2 ^ lg) % (StrideMask + 1)) + 1
  BY DEF GetStride
<1> HIDE DEF StrideMask
<1> QED BY <1>2, <1>3 DEF Odd

LEMMA ProbeInRange ==
  ASSUME NEW key \in Nat, NEW lg \in Lgs, NEW i \in Nat
  PROVE  Probe(key, lg, i) \in 0 .. 2 ^ lg - 1
<1>1. key + i * GetStride(key, lg) \in Nat
  BY StrideOdd
<1> QED BY <1>1, SizeFacts, ModFacts DEF Probe

LEMMA SizesCancel ==
  ASSUME NEW lg \in Lgs
  PROVE  Cancels(2 ^ lg)
<1>1. LgK + 1 \in Nat
  OBVIOUS
<1>2. \A n \in 0 .. LgK + 1 : Cancels(2 ^ n)
  BY <1>1, PowersOfTwo, OddCancels
<1> QED BY <1>2, SizeFacts

LEMMA ProbesDistinct ==
  ASSUME NEW key \in Nat, NEW lg \in Lgs, NEW i \in Nat, NEW j \in Nat,
         i < j, j - i < 2 ^ lg
  PROVE  Probe(key, lg, i) # Probe(key, lg, j)
BY SizeFacts, SizesCancel, StrideOdd, StepsDistinct DEF Probe

(* The walk is back at its first slot after 2^lg steps and no sooner.      *)
LEMMA WalkLength ==
  ASSUME NEW key \in Nat, NEW lg \in Lgs
  PROVE  Min({i \in 1 .. 2 ^ lg : Probe(key, lg, i) = Probe(key, lg, 0)}) = 2 ^ lg
<1> DEFINE N == 2 ^ lg
           d == GetStride(key, lg)
           back == {i \in 1 .. N : Probe(key, lg, i) = Probe(key, lg, 0)}
<1>1. N \in Nat \ {0} /\ d \in Nat
  BY SizeFacts, StrideOdd
<1>2. Probe(key, lg, N) = Probe(key, lg, 0)
  <2>1. (key + N * d) % N = key % N
    <3> HIDE DEF N, d
    <3> QED BY <1>1, ModAdds
  <2>2. key + 0 * d = key
    BY <1>1
  <2> QED BY <2>1, <2>2 DEF Probe
<1>3. \A i \in 1 .. N : i < N => Probe(key, lg, i) # Probe(key, lg, 0)
  <2> SUFFICES ASSUME NEW i \in 1 .. N, i < N
               PROVE  Probe(key, lg, 0) # Probe(key, lg, i)
    OBVIOUS
  <2>1. i \in Nat /\ 0 < i /\ i - 0 < 2 ^ lg
    BY <1>1
  <2> QED BY <2>1, ProbesDistinct
<1> HIDE DEF N
<1>4. back = {N}
  BY <1>1, <1>2, <1>3
<1>5. Min({N}) = N
  BY <1>1 DEF Min
<1> QED BY <1>4, <1>5 DEF N

-------------------------------------------------------------------------------
(* find_in_entries.                                                        *)

Hit(s, key, lg, j) ==
  \/ s[Probe(key, lg, j)] = NoEntry
  \/ s[Probe(key, lg, j)].hash = key

FirstHit(s, key, lg, j) ==
  /\ j \in 0 .. 2 ^ lg - 1
  /\ Hit(s, key, lg, j)
  /\ \A i \in 0 .. j - 1 : ~Hit(s, key, lg, i)

(* The walk ends at its first hit, if there is one.                        *)
LEMMA FindsFirst ==
  ASSUME NEW s, NEW key \in Nat, NEW lg \in Lgs, NEW j, FirstHit(s, key, lg, j)
  PROVE  FindInEntries(s, key, lg) = Probe(key, lg, j)
<1> DEFINE N == 2 ^ lg
           back == {i \in 1 .. N : Probe(key, lg, i) = Probe(key, lg, 0)}
           hits == {i \in 0 .. Min(back) - 1 : Hit(s, key, lg, i)}
<1>1. FindInEntries(s, key, lg)
        = IF hits = {} THEN NotFound ELSE Probe(key, lg, Min(hits))
  BY Zenon DEF FindInEntries, Hit
<1>2. Min(back) = N /\ N \in Nat \ {0}
  BY WalkLength, SizeFacts
<1>3. j \in hits /\ \A i \in hits : j <= i
  <2>1. j \in 0 .. N - 1 /\ Hit(s, key, lg, j) /\ \A i \in 0 .. j - 1 : ~Hit(s, key, lg, i)
    BY DEF FirstHit
  <2> HIDE DEF N
  <2>2. j \in hits
    BY <1>2, <2>1
  <2>3. ASSUME NEW i \in hits PROVE j <= i
    <3>1. i \in 0 .. N - 1 /\ Hit(s, key, lg, i)
      BY <1>2
    <3>2. i \notin 0 .. j - 1
      BY <2>1, <3>1
    <3> QED BY <1>2, <2>1, <3>1, <3>2
  <2> QED BY <2>2, <2>3
<1>4. Min(hits) = j
  <2>1. hits \subseteq Nat
    BY <1>2
  <2> HIDE DEF hits
  <2>2. \A i \in hits : (\A k \in hits : i <= k) => i = j
    BY <1>3, <2>1
  <2> QED BY <1>3, <2>2 DEF Min
<1> HIDE DEF hits
<1> QED BY <1>1, <1>3, <1>4

(* A walk that hits at all has a first hit.                                *)
LEMMA HitsFirst ==
  ASSUME NEW s, NEW key, NEW lg \in Lgs, NEW j \in 0 .. 2 ^ lg - 1, Hit(s, key, lg, j)
  PROVE  \E i \in 0 .. 2 ^ lg - 1 : FirstHit(s, key, lg, i)
<1> DEFINE T == {i \in 0 .. 2 ^ lg - 1 : Hit(s, key, lg, i)}
<1>1. 2 ^ lg \in Nat
  BY SizeFacts
<1>2. T \subseteq Nat /\ T # {}
  BY <1>1
<1>3. \E i \in T : \A k \in T : i <= k
  <2> HIDE DEF T
  <2> QED BY <1>2, LeastNat
<1>4. PICK i \in T : \A k \in T : i <= k
  BY <1>3
<1>5. \A k \in 0 .. i - 1 : ~Hit(s, key, lg, k)
  BY <1>1, <1>4
<1> QED BY <1>4, <1>5 DEF FirstHit

(* A walk meets every slot.                                                *)
LEMMA ProbesCover ==
  ASSUME NEW key \in Nat, NEW lg \in Lgs, NEW i \in 0 .. 2 ^ lg - 1
  PROVE  \E j \in 0 .. 2 ^ lg - 1 : Probe(key, lg, j) = i
<1> DEFINE N == 2 ^ lg
           d == GetStride(key, lg)
<1>1. N \in Nat \ {0} /\ Cancels(N) /\ d \in Odd
  BY SizeFacts, SizesCancel, StrideOdd
<1>2. i \in 0 .. N - 1
  OBVIOUS
<1>3. \E j \in 0 .. N - 1 : (key + j * d) % N = i
  <2> HIDE DEF N, d
  <2> QED BY <1>1, <1>2, StepsCover
<1> QED BY <1>3 DEF Probe

-------------------------------------------------------------------------------
(* Slot arrays in which find_in_entries finds every entry.                 *)

Entries == [hash : Hashes, summary : Nat]
SlotsOf(lg) == [0 .. 2 ^ lg - 1 -> Entries \cup {NoEntry}]

(* Every entry is where the walk for its hash first hits.                  *)
Sited(s, lg) ==
  \A i \in 0 .. 2 ^ lg - 1 :
    s[i] # NoEntry =>
      \E j \in 0 .. 2 ^ lg - 1 :
        FirstHit(s, s[i].hash, lg, j) /\ Probe(s[i].hash, lg, j) = i

Held(s) == {e.hash : e \in EntrySet(s)}

LEMMA EntryFacts ==
  \A e \in Entries : /\ e = [hash |-> e.hash, summary |-> e.summary]
                      /\ e.hash \in Hashes /\ e.hash \in Nat /\ e.summary \in Nat
                      /\ e # NoEntry
<1>1. \A h \in Hashes : h \in Nat
  OBVIOUS
<1>2. \A e \in Entries : /\ e = [hash |-> e.hash, summary |-> e.summary]
                          /\ e.hash \in Hashes /\ e.summary \in Nat
  BY DEF Entries
<1>3. \A e \in Entries : e # NoEntry
  BY NoEntryAssumption DEF Entries
<1> QED BY <1>1, <1>2, <1>3

LEMMA SlotFacts ==
  ASSUME NEW lg \in Lgs, NEW s \in SlotsOf(lg)
  PROVE  /\ DOMAIN s = 0 .. 2 ^ lg - 1
         /\ IsFiniteSet(DOMAIN s) /\ Cardinality(DOMAIN s) = 2 ^ lg
         /\ Occupied(s) \in SUBSET (0 .. 2 ^ lg - 1)
         /\ IsFiniteSet(Occupied(s)) /\ Cardinality(Occupied(s)) \in Nat
         /\ \A i \in Occupied(s) : /\ s[i] \in Entries /\ s[i] # NoEntry
                                   /\ s[i].hash \in Held(s) /\ s[i].hash \in Nat
         /\ \A h \in Held(s) : h \in Hashes /\ \E i \in Occupied(s) : s[i].hash = h
<1>1. 2 ^ lg \in Nat \ {0}
  BY SizeFacts
<1>2. DOMAIN s = 0 .. 2 ^ lg - 1
  BY DEF SlotsOf
<1>3. IsFiniteSet(0 .. 2 ^ lg - 1) /\ Cardinality(0 .. 2 ^ lg - 1) = 2 ^ lg
  <2> DEFINE N == 2 ^ lg
  <2>1. N - 1 \in Int /\ ~(0 > N - 1) /\ (N - 1) - 0 + 1 = N
    BY <1>1
  <2> HIDE DEF N
  <2>2. IsFiniteSet(0 .. N - 1) /\ Cardinality(0 .. N - 1) = N
    BY <2>1, FS_Interval
  <2> QED BY <2>2 DEF N
<1>4. Occupied(s) \in SUBSET (0 .. 2 ^ lg - 1)
  BY <1>2 DEF Occupied
<1>5. IsFiniteSet(Occupied(s)) /\ Cardinality(Occupied(s)) \in Nat
  BY <1>3, <1>4, FS_Subset, FS_CardinalityType
<1>6. \A e \in Entries : e.hash \in Hashes /\ e.hash \in Nat
  BY EntryFacts
<1>7. \A i \in Occupied(s) : s[i] \in Entries /\ s[i] # NoEntry /\ s[i].hash \in Held(s)
  BY <1>2 DEF SlotsOf, Occupied, Held, EntrySet
<1>8. \A h \in Held(s) : \E i \in Occupied(s) : s[i].hash = h
  BY DEF Held, EntrySet
<1> QED BY <1>2, <1>3, <1>4, <1>5, <1>6, <1>7, <1>8

(* An entry that is sited is found; no hash has two sites.                 *)
LEMMA SitedFound ==
  ASSUME NEW lg \in Lgs, NEW s \in SlotsOf(lg), Sited(s, lg), NEW i \in Occupied(s)
  PROVE  FindInEntries(s, s[i].hash, lg) = i
<1>1. i \in 0 .. 2 ^ lg - 1 /\ s[i] # NoEntry /\ s[i].hash \in Nat
  BY SlotFacts
<1>2. PICK j \in 0 .. 2 ^ lg - 1 :
        FirstHit(s, s[i].hash, lg, j) /\ Probe(s[i].hash, lg, j) = i
  BY <1>1 DEF Sited
<1> QED BY <1>1, <1>2, FindsFirst

LEMMA HeldOnce ==
  ASSUME NEW lg \in Lgs, NEW s \in SlotsOf(lg), Sited(s, lg),
         NEW i \in Occupied(s), NEW k \in Occupied(s), s[i].hash = s[k].hash
  PROVE  i = k
BY SitedFound

(* There are as many hashes as occupied slots.                             *)
LEMMA HeldCount ==
  ASSUME NEW lg \in Lgs, NEW s \in SlotsOf(lg), Sited(s, lg)
  PROVE  IsFiniteSet(Held(s)) /\ Cardinality(Held(s)) = Cardinality(Occupied(s))
<1> DEFINE f == [i \in Occupied(s) |-> s[i].hash]
<1>1. IsFiniteSet(Occupied(s))
  BY SlotFacts
<1>2. f \in [Occupied(s) -> Held(s)] /\ \A h \in Held(s) : \E i \in Occupied(s) : f[i] = h
  BY SlotFacts
<1>3. \A i, k \in Occupied(s) : f[i] = f[k] => i = k
  BY HeldOnce
<1> HIDE DEF f
<1>4. f \in Surjection(Occupied(s), Held(s)) /\ f \in Injection(Occupied(s), Held(s))
  BY <1>2, <1>3 DEF Surjection, Injection, IsInjective
<1> QED BY <1>1, <1>4, FS_Surjection

(* A walk in an array with a free slot ends, at the slot that holds the    *)
(* hash or at a free one.                                                  *)
LandsAt(s, key, lg, j) ==
  /\ FirstHit(s, key, lg, j)
  /\ FindInEntries(s, key, lg) = Probe(key, lg, j)
  /\ Probe(key, lg, j) \in 0 .. 2 ^ lg - 1
  /\ IF key \in Held(s) THEN s[Probe(key, lg, j)] # NoEntry
                             /\ s[Probe(key, lg, j)].hash = key
                        ELSE s[Probe(key, lg, j)] = NoEntry

WalkEndsWell(s, key, lg) == \E j \in 0 .. 2 ^ lg - 1 : LandsAt(s, key, lg, j)

LEMMA WalkEnds ==
  ASSUME NEW lg \in Lgs, NEW s \in SlotsOf(lg), Sited(s, lg),
         Cardinality(Occupied(s)) < 2 ^ lg, NEW key \in Nat
  PROVE  WalkEndsWell(s, key, lg)
<1>0. 2 ^ lg \in Nat \ {0}
  BY SizeFacts
<1>1. Occupied(s) # 0 .. 2 ^ lg - 1
  BY <1>0, SlotFacts
<1>a. Occupied(s) \subseteq 0 .. 2 ^ lg - 1
  BY SlotFacts
<1>2. PICK i \in 0 .. 2 ^ lg - 1 : s[i] = NoEntry
  <2>1. PICK i \in 0 .. 2 ^ lg - 1 : i \notin Occupied(s)
    BY <1>1, <1>a, Zenon
  <2>2. i \in DOMAIN s
    BY DEF SlotsOf
  <2> QED BY <2>1, <2>2 DEF Occupied
<1>3. PICK m \in 0 .. 2 ^ lg - 1 : Probe(key, lg, m) = i
  BY ProbesCover
<1>4. Hit(s, key, lg, m)
  BY <1>2, <1>3 DEF Hit
<1>5. PICK j \in 0 .. 2 ^ lg - 1 : FirstHit(s, key, lg, j)
  BY <1>4, HitsFirst
<1>6. FindInEntries(s, key, lg) = Probe(key, lg, j)
  BY <1>5, FindsFirst
<1>7. Probe(key, lg, j) \in 0 .. 2 ^ lg - 1
  <2>1. j \in Nat
    BY <1>0
  <2> QED BY <2>1, ProbeInRange
<1>8. s[Probe(key, lg, j)] = NoEntry \/ s[Probe(key, lg, j)].hash = key
  BY <1>5 DEF FirstHit, Hit
<1>9. CASE key \in Held(s)
  <2>1. PICK k \in Occupied(s) : s[k].hash = key
    BY <1>9, SlotFacts
  <2>2. FindInEntries(s, key, lg) = k
    BY <2>1, SitedFound
  <2> QED BY <1>5, <1>6, <1>7, <1>9, <2>1, <2>2, SlotFacts DEF WalkEndsWell, LandsAt
<1>10. CASE key \notin Held(s)
  <2>1. s[Probe(key, lg, j)] = NoEntry
    <3> SUFFICES ASSUME s[Probe(key, lg, j)] # NoEntry PROVE key \in Held(s)
      BY <1>10
    <3>1. Probe(key, lg, j) \in Occupied(s)
      BY <1>7, SlotFacts DEF Occupied
    <3> QED BY <1>8, <3>1, SlotFacts
  <2> QED BY <1>5, <1>6, <1>7, <1>10, <2>1 DEF WalkEndsWell, LandsAt
<1> QED BY <1>9, <1>10

(* Storing an entry where its walk ends moves no other walk.               *)
Store(s, e, lg, j) == [s EXCEPT ![Probe(e.hash, lg, j)] = e]

StoredWell(s, e, lg, j) ==
  /\ Store(s, e, lg, j) \in SlotsOf(lg) /\ Sited(Store(s, e, lg, j), lg)
  /\ EntrySet(Store(s, e, lg, j)) = EntrySet(s) \cup {e}
  /\ Occupied(Store(s, e, lg, j)) = Occupied(s) \cup {Probe(e.hash, lg, j)}

LEMMA PlaceSites ==
  ASSUME NEW lg \in Lgs, NEW s \in SlotsOf(lg), Sited(s, lg),
         NEW e \in Entries, NEW j \in 0 .. 2 ^ lg - 1, FirstHit(s, e.hash, lg, j),
         s[Probe(e.hash, lg, j)] = NoEntry
  PROVE  StoredWell(s, e, lg, j)
<1> DEFINE i == Probe(e.hash, lg, j)
           r == [s EXCEPT ![i] = e]
           D == 0 .. 2 ^ lg - 1
<1>0. e.hash \in Nat /\ e # NoEntry /\ 2 ^ lg \in Nat
  BY EntryFacts, SizeFacts
<1>1. i \in D /\ j \in Nat
  <2>1. j \in Nat
    BY <1>0
  <2> QED BY <1>0, <2>1, ProbeInRange
<1>2. r \in SlotsOf(lg) /\ r[i] = e /\ \A k \in D \ {i} : r[k] = s[k]
  BY <1>1 DEF SlotsOf
<1>3. DOMAIN r = D /\ DOMAIN s = D
  BY DEF SlotsOf
<1>4. s[i] = NoEntry
  OBVIOUS
<1> HIDE DEF r
<1>5. Occupied(r) = Occupied(s) \cup {i}
  <2> HIDE DEF i
  <2> QED BY <1>0, <1>1, <1>2, <1>3, <1>4 DEF Occupied
<1>6. EntrySet(r) = EntrySet(s) \cup {e}
  <2> HIDE DEF i
  <2>1. i \notin Occupied(s)
    BY <1>4 DEF Occupied
  <2>2. \A k \in Occupied(s) : r[k] = s[k]
    BY <1>2, <1>3, <2>1 DEF Occupied
  <2>3. \A x \in EntrySet(r) : x \in EntrySet(s) \cup {e}
    BY <1>2, <1>5, <2>2 DEF EntrySet
  <2>4. \A x \in EntrySet(s) \cup {e} : x \in EntrySet(r)
    BY <1>2, <1>5, <2>2 DEF EntrySet
  <2> QED BY <2>3, <2>4
<1>7. ASSUME NEW k \in D, r[k] # NoEntry
      PROVE  \E m \in D : FirstHit(r, r[k].hash, lg, m) /\ Probe(r[k].hash, lg, m) = k
  <2>1. CASE k = i
    <3>1. Hit(r, e.hash, lg, j)
      BY <1>2 DEF Hit
    <3>2. ASSUME NEW m \in 0 .. j - 1 PROVE ~Hit(r, e.hash, lg, m)
      <4>1. m \in Nat /\ m < j /\ j - m < 2 ^ lg
        BY <1>0, <1>1
      <4>2. Probe(e.hash, lg, m) # i
        BY <1>0, <1>1, <4>1, ProbesDistinct
      <4>3. Probe(e.hash, lg, m) \in D
        BY <1>0, <4>1, ProbeInRange
      <4>4. ~Hit(s, e.hash, lg, m)
        BY DEF FirstHit
      <4>5. r[Probe(e.hash, lg, m)] = s[Probe(e.hash, lg, m)]
        BY <1>2, <4>2, <4>3
      <4> QED BY <4>4, <4>5 DEF Hit
    <3>3. FirstHit(r, e.hash, lg, j)
      BY <3>1, <3>2 DEF FirstHit
    <3> QED BY <1>2, <2>1, <3>3
  <2>2. CASE k # i
    <3>1. r[k] = s[k] /\ s[k] # NoEntry
      BY <1>2, <1>7, <2>2
    <3>2. PICK m \in D : FirstHit(s, s[k].hash, lg, m) /\ Probe(s[k].hash, lg, m) = k
      BY <3>1 DEF Sited
    <3>3. s[k].hash \in Nat
      BY <1>3, <3>1, SlotFacts DEF Occupied
    <3>4. Hit(r, s[k].hash, lg, m)
      BY <3>1, <3>2 DEF Hit
    <3>5. ASSUME NEW n \in 0 .. m - 1 PROVE ~Hit(r, s[k].hash, lg, n)
      <4>1. ~Hit(s, s[k].hash, lg, n)
        BY <3>2 DEF FirstHit
      <4>2. n \in Nat
        BY <1>0
      <4>3. Probe(s[k].hash, lg, n) \in D
        BY <3>3, <4>2, ProbeInRange
      <4>4. s[Probe(s[k].hash, lg, n)] # NoEntry
        BY <4>1 DEF Hit
      <4>5. Probe(s[k].hash, lg, n) # i
        BY <1>4, <4>4
      <4>6. r[Probe(s[k].hash, lg, n)] = s[Probe(s[k].hash, lg, n)]
        BY <1>2, <4>3, <4>5
      <4> QED BY <4>1, <4>6 DEF Hit
    <3>6. FirstHit(r, s[k].hash, lg, m)
      BY <3>2, <3>4, <3>5 DEF FirstHit
    <3> QED BY <3>1, <3>2, <3>6
  <2> QED BY <2>1, <2>2
<1>8. Sited(r, lg)
  BY <1>7 DEF Sited
<1> QED BY <1>2, <1>5, <1>6, <1>8 DEF r, StoredWell, Store

-------------------------------------------------------------------------------
(* The loop of resize and rebuild.                                         *)

LEMMA FreeSlotsSited ==
  ASSUME NEW lg \in Lgs
  PROVE  /\ FreeSlots(lg) \in SlotsOf(lg) /\ Sited(FreeSlots(lg), lg)
         /\ Occupied(FreeSlots(lg)) = {} /\ EntrySet(FreeSlots(lg)) = {}
         /\ Held(FreeSlots(lg)) = {}
BY DEF FreeSlots, SlotsOf, Sited, Occupied, EntrySet, Held

(* One turn of the loop. *)
Turn(s, e, lg) ==
  IF s = <<>> \/ e = NoEntry THEN s
  ELSE LET i == FindInEntries(s, e.hash, lg)
       IN IF i = NotFound THEN <<>> ELSE [s EXCEPT ![i] = e]

(* f is the run of the loop over es. *)
Run(f, es, lg) ==
  f = [n \in 0 .. Len(es) |-> IF n = 0 THEN FreeSlots(lg) ELSE Turn(f[n - 1], es[n], lg)]

LEMMA SlotsNotEmpty ==
  ASSUME NEW lg \in Lgs, NEW s \in SlotsOf(lg)
  PROVE  s # <<>>
<1>1. 0 \in DOMAIN s
  BY SizeFacts DEF SlotsOf
<1>2. 0 \notin DOMAIN <<>>
  OBVIOUS
<1> QED BY <1>1, <1>2

LEMMA TurnInRange ==
  ASSUME NEW lg \in Lgs, NEW s \in SlotsOf(lg) \cup {<<>>}, NEW e \in Entries \cup {NoEntry}
  PROVE  Turn(s, e, lg) \in SlotsOf(lg) \cup {<<>>}
<1>1. CASE s = <<>> \/ e = NoEntry
  BY <1>1 DEF Turn
<1>2. CASE s # <<>> /\ e # NoEntry
  <2>1. s \in SlotsOf(lg) /\ e \in Entries
    BY <1>2
  <2>2. \A i : [s EXCEPT ![i] = e] \in SlotsOf(lg)
    BY <2>1 DEF SlotsOf
  <2>3. Turn(s, e, lg) = <<>> \/ \E i : Turn(s, e, lg) = [s EXCEPT ![i] = e]
    BY <1>2 DEF Turn
  <2> QED BY <2>2, <2>3
<1> QED BY <1>1, <1>2

LEMMA ReinsertRuns ==
  ASSUME NEW lg \in Lgs, NEW es \in Seq(Entries \cup {NoEntry})
  PROVE  \E f : Run(f, es, lg) /\ Reinsert(es, lg) = f[Len(es)]
<1> DEFINE run == CHOOSE f : Run(f, es, lg)
           S == SlotsOf(lg) \cup {<<>>}
           m == Len(es)
<1>1. Reinsert(es, lg) = run[m]
  BY DEF Reinsert, Run, Turn
<1>2. \E f : Run(f, es, lg)
  <2> DEFINE base == FreeSlots(lg)
             step == [n \in Nat |-> [s \in S |-> IF n < m THEN Turn(s, es[n + 1], lg) ELSE s]]
  <2>1. m \in Nat /\ \A n \in 1 .. m : es[n] \in Entries \cup {NoEntry}
    OBVIOUS
  <2>2. base \in S
    BY FreeSlotsSited
  <2>3. ASSUME NEW n \in Nat, NEW s \in S
        PROVE  (IF n < m THEN Turn(s, es[n + 1], lg) ELSE s) \in S
    <3>1. CASE n < m
      <4>1. es[n + 1] \in Entries \cup {NoEntry}
        BY <2>1, <3>1
      <4> QED BY <3>1, <4>1, TurnInRange
    <3> QED BY <3>1
  <2>4. step \in [Nat -> [S -> S]]
    <3> HIDE DEF S, m
    <3> QED BY <2>3
  <2>5. Recursive(S, base, step)
    <3> HIDE DEF S, base, step
    <3> QED BY <2>2, <2>4, Recursion
  <2>6. PICK F \in [Nat -> S] : F[0] = base /\ \A n \in Nat : F[n + 1] = step[n][F[n]]
    <3> HIDE DEF S, base, step
    <3> QED BY <2>5 DEF Recursive
  <2> DEFINE f == [n \in 0 .. m |-> F[n]]
  <2>7. ASSUME NEW n \in 0 .. m
        PROVE  f[n] = IF n = 0 THEN FreeSlots(lg) ELSE Turn(f[n - 1], es[n], lg)
    <3>1. CASE n = 0
      BY <2>6, <3>1
    <3>2. CASE n # 0
      <4> DEFINE k == n - 1
      <4>1. k \in Nat /\ k < m /\ n = k + 1 /\ k \in 0 .. m
        BY <2>1, <3>2
      <4>2. F[k] \in S /\ F[k + 1] = step[k][F[k]]
        BY <2>6, <4>1
      <4>3. F[k + 1] = Turn(F[k], es[k + 1], lg)
        <5> HIDE DEF k, S
        <5> QED BY <4>1, <4>2
      <4>4. f[n] = F[k + 1] /\ f[k] = F[k]
        BY <4>1
      <4> HIDE DEF f
      <4> QED BY <3>2, <4>1, <4>3, <4>4
    <3> QED BY <3>1, <3>2
  <2>8. Run(f, es, lg)
    <3>1. f = [n \in 0 .. m |-> f[n]]
      OBVIOUS
    <3> HIDE DEF f
    <3> QED BY <2>7, <3>1 DEF Run
  <2> QED BY <2>8
<1>3. Run(run, es, lg)
  BY <1>2, Zenon
<1> QED BY <1>1, <1>3

(* The loop finds a place for each entry of a sequence that names no hash  *)
(* twice and has fewer hashes than there are slots.                        *)
LEMMA ReinsertSites ==
  ASSUME NEW lg \in Lgs, NEW es \in Seq(Entries \cup {NoEntry}),
         \A i, j \in 1 .. Len(es) :
           es[i] # NoEntry /\ es[j] # NoEntry /\ es[i].hash = es[j].hash => i = j,
         NEW H, IsFiniteSet(H), Cardinality(H) < 2 ^ lg,
         \A i \in 1 .. Len(es) : es[i] # NoEntry => es[i].hash \in H
  PROVE  LET r == Reinsert(es, lg)
         IN  /\ r # <<>> /\ r \in SlotsOf(lg) /\ Sited(r, lg)
             /\ EntrySet(r) = {es[i] : i \in 1 .. Len(es)} \ {NoEntry}
<1> DEFINE m == Len(es)
           Placed(n) == {es[i] : i \in 1 .. n} \ {NoEntry}
<1>1. m \in Nat /\ \A n \in 1 .. m : es[n] \in Entries \cup {NoEntry}
  OBVIOUS
<1>2. PICK f : Run(f, es, lg) /\ Reinsert(es, lg) = f[m]
  BY ReinsertRuns
<1>3. /\ f[0] = FreeSlots(lg)
      /\ \A n \in 1 .. m : f[n] = Turn(f[n - 1], es[n], lg)
  <2>1. \A n \in 0 .. m : f[n] = IF n = 0 THEN FreeSlots(lg) ELSE Turn(f[n - 1], es[n], lg)
    BY <1>2 DEF Run
  <2> QED BY <1>1, <2>1
<1> DEFINE Good(n) == /\ f[n] \in SlotsOf(lg) /\ Sited(f[n], lg)
                      /\ EntrySet(f[n]) = Placed(n)
           T == {n \in Nat : n <= m => Good(n)}
<1>4. 0 \in T
  BY <1>3, FreeSlotsSited
<1>5. ASSUME NEW n \in T PROVE n + 1 \in T
  <2> SUFFICES ASSUME n + 1 <= m PROVE Good(n + 1)
    OBVIOUS
  <2> DEFINE s == f[n]
             e == es[n + 1]
  <2>1. n \in Nat /\ n <= m /\ n + 1 \in 1 .. m /\ n \in 0 .. m
    BY <1>1
  <2>2. s \in SlotsOf(lg) /\ Sited(s, lg) /\ EntrySet(s) = Placed(n)
    BY <2>1
  <2>3. f[n + 1] = Turn(s, e, lg)
    BY <1>3, <2>1
  <2>4. e \in Entries \cup {NoEntry}
    BY <1>1, <2>1
  <2>5. Placed(n + 1) = (Placed(n) \cup {e}) \ {NoEntry}
    <3>1. 1 .. n + 1 = (1 .. n) \cup {n + 1}
      BY <2>1
    <3> QED BY <3>1
  <2>6. s # <<>>
    BY <2>2, SlotsNotEmpty
  <2>7. NoEntry \notin Placed(n)
    OBVIOUS
  <2>8. CASE e = NoEntry
    <3>1. f[n + 1] = s
      BY <2>3, <2>8 DEF Turn
    <3>2. Placed(n + 1) = Placed(n)
      BY <2>5, <2>7, <2>8
    <3> HIDE DEF s, e, Placed
    <3> QED BY <2>2, <3>1, <3>2
  <2>9. CASE e # NoEntry
    <3>1. e \in Entries /\ e.hash \in Nat
      BY <2>4, <2>9, EntryFacts
    <3>2. e.hash \notin Held(s)
      <4> SUFFICES ASSUME e.hash \in Held(s) PROVE FALSE
        OBVIOUS
      <4>1. PICK x \in EntrySet(s) : x.hash = e.hash
        BY DEF Held
      <4>2. PICK i \in 1 .. n : x = es[i] /\ es[i] # NoEntry
        BY <2>2, <4>1
      <4>3. i \in 1 .. m /\ i # n + 1
        BY <1>1, <2>1
      <4> QED BY <2>1, <2>9, <4>1, <4>2, <4>3
    <3>3. Cardinality(Occupied(s)) < 2 ^ lg
      <4>1. Held(s) \in SUBSET H
        <5> SUFFICES ASSUME NEW h \in Held(s) PROVE h \in H
          OBVIOUS
        <5>1. PICK x \in EntrySet(s) : x.hash = h
          BY DEF Held
        <5>2. PICK i \in 1 .. n : x = es[i] /\ es[i] # NoEntry
          BY <2>2, <5>1
        <5>3. i \in 1 .. m
          BY <1>1, <2>1
        <5> QED BY <5>1, <5>2, <5>3
      <4>2. /\ Cardinality(Held(s)) = Cardinality(Occupied(s))
            /\ Cardinality(Held(s)) <= Cardinality(H)
        BY <2>2, <4>1, HeldCount, FS_Subset
      <4>3. Cardinality(H) \in Nat /\ Cardinality(Occupied(s)) \in Nat /\ 2 ^ lg \in Nat
        BY <2>2, SizeFacts, SlotFacts, FS_CardinalityType
      <4> QED BY <4>2, <4>3
    <3>4. PICK j \in 0 .. 2 ^ lg - 1 :
            /\ FirstHit(s, e.hash, lg, j)
            /\ FindInEntries(s, e.hash, lg) = Probe(e.hash, lg, j)
            /\ Probe(e.hash, lg, j) \in 0 .. 2 ^ lg - 1
            /\ s[Probe(e.hash, lg, j)] = NoEntry
      <4>1. WalkEndsWell(s, e.hash, lg)
        <5> HIDE DEF s, e
        <5> QED BY <2>2, <3>1, <3>3, WalkEnds
      <4> HIDE DEF s, e
      <4> QED BY <3>2, <4>1 DEF WalkEndsWell, LandsAt
    <3> DEFINE i == Probe(e.hash, lg, j)
               r == [s EXCEPT ![i] = e]
    <3>5. r \in SlotsOf(lg) /\ Sited(r, lg) /\ EntrySet(r) = EntrySet(s) \cup {e}
      <4>1. StoredWell(s, e, lg, j)
        <5> HIDE DEF s, e
        <5> QED BY <2>2, <3>1, <3>4, PlaceSites
      <4> HIDE DEF s, e
      <4> QED BY <4>1 DEF StoredWell, Store
    <3>6. i # NotFound
      BY <3>4, SizeFacts DEF NotFound
    <3>7. f[n + 1] = r
      <4> HIDE DEF s, e
      <4> QED BY <2>3, <2>6, <2>9, <3>4, <3>6 DEF Turn
    <3>8. Placed(n + 1) = Placed(n) \cup {e}
      <4> HIDE DEF e, Placed
      <4> QED BY <2>5, <2>7, <2>9
    <3> HIDE DEF r, Placed, s, e
    <3> QED BY <2>2, <3>5, <3>7, <3>8
  <2> QED BY <2>8, <2>9
<1>6. T = Nat
  <2>1. T \in SUBSET Nat
    OBVIOUS
  <2> HIDE DEF T
  <2> QED BY <1>4, <1>5, <2>1, SetInduction
<1>7. Good(m)
  <2>1. m \in T
    <3> HIDE DEF T
    <3> QED BY <1>1, <1>6
  <2> QED BY <1>1, <2>1
<1> HIDE DEF m
<1>8. f[m] # <<>>
  BY <1>7, SlotsNotEmpty
<1> QED BY <1>2, <1>7, <1>8 DEF m

-------------------------------------------------------------------------------
(***************************************************************************)
(* The slots and the table beside them.                                    *)
(***************************************************************************)

(* The entries that the slots of table t hold. *)
EntriesOf(t) == {[hash |-> h, summary |-> t.entries[h]] : h \in Retained(t)}

(* A slot array of a table, in which every entry is found. *)
Matches(s, lg, t) ==
  /\ lg \in Lgs /\ s \in SlotsOf(lg) /\ Sited(s, lg)
  /\ EntrySet(s) = EntriesOf(t)

LEMMA MatchFacts ==
  ASSUME NEW s, NEW lg, NEW t, Matches(s, lg, t)
  PROVE  /\ Held(s) = Retained(t)
         /\ IsFiniteSet(Retained(t))
         /\ NumRetained(t) = Cardinality(Occupied(s))
         /\ \A i \in Occupied(s) : s[i].summary = t.entries[s[i].hash]
<1>1. lg \in Lgs /\ s \in SlotsOf(lg) /\ Sited(s, lg) /\ EntrySet(s) = EntriesOf(t)
  BY DEF Matches
<1>2. Held(s) = Retained(t)
  <2>1. \A h \in Retained(t) : h \in Held(s)
    <3> TAKE h \in Retained(t)
    <3>1. [hash |-> h, summary |-> t.entries[h]] \in EntrySet(s)
      BY <1>1 DEF EntriesOf
    <3>2. [hash |-> h, summary |-> t.entries[h]].hash = h
      OBVIOUS
    <3> QED BY <3>1, <3>2 DEF Held
  <2>2. \A h \in Held(s) : h \in Retained(t)
    BY <1>1 DEF Held, EntriesOf
  <2> QED BY <2>1, <2>2
<1>3. \A i \in Occupied(s) : s[i].summary = t.entries[s[i].hash]
  <2> TAKE i \in Occupied(s)
  <2>1. s[i] \in EntriesOf(t)
    BY <1>1 DEF EntrySet
  <2> QED BY <2>1 DEF EntriesOf
<1> QED BY <1>1, <1>2, <1>3, HeldCount DEF NumRetained

(* A new entry where its walk ends. *)
LEMMA StoreMatches ==
  ASSUME NEW s, NEW lg, NEW t, Matches(s, lg, t), NEW h \in Hashes, NEW v \in Nat,
         h \notin Retained(t), NEW j \in 0 .. 2 ^ lg - 1, FirstHit(s, h, lg, j),
         s[Probe(h, lg, j)] = NoEntry,
         NEW r, Retained(r) = Retained(t) \cup {h}, r.entries[h] = v,
         \A g \in Retained(t) \ {h} : r.entries[g] = t.entries[g]
  PROVE  /\ Matches([s EXCEPT ![Probe(h, lg, j)] = [hash |-> h, summary |-> v]], lg, r)
         /\ Cardinality(Occupied([s EXCEPT ![Probe(h, lg, j)] = [hash |-> h, summary |-> v]]))
              = Cardinality(Occupied(s)) + 1
<1> DEFINE e == [hash |-> h, summary |-> v]
           i == Probe(h, lg, j)
           new == [s EXCEPT ![i] = e]
<1>1. lg \in Lgs /\ s \in SlotsOf(lg) /\ Sited(s, lg) /\ EntrySet(s) = EntriesOf(t)
  BY DEF Matches
<1>2. e \in Entries /\ e.hash = h
  BY DEF Entries
<1>3. StoredWell(s, e, lg, j)
  <2> HIDE DEF e
  <2> QED BY <1>1, <1>2, PlaceSites
<1>4. /\ new \in SlotsOf(lg) /\ Sited(new, lg)
      /\ EntrySet(new) = EntrySet(s) \cup {e}
      /\ Occupied(new) = Occupied(s) \cup {i}
  <2> HIDE DEF e
  <2> QED BY <1>2, <1>3 DEF StoredWell, Store
<1>5. EntriesOf(r) = EntriesOf(t) \cup {e}
  <2>1. \A x \in EntriesOf(r) : x \in EntriesOf(t) \cup {e}
    BY DEF EntriesOf
  <2>2. \A x \in EntriesOf(t) \cup {e} : x \in EntriesOf(r)
    BY DEF EntriesOf
  <2> QED BY <2>1, <2>2
<1>6. i \notin Occupied(s)
  BY DEF Occupied
<1>7. Cardinality(Occupied(new)) = Cardinality(Occupied(s)) + 1
  <2> HIDE DEF i, new
  <2> QED BY <1>1, <1>4, <1>6, SlotFacts, FS_AddElement
<1>8. Matches(new, lg, r)
  <2> HIDE DEF new, e
  <2> QED BY <1>1, <1>4, <1>5 DEF Matches
<1> QED BY <1>7, <1>8

(* A new summary in an entry that is there. *)
LEMMA MergeMatches ==
  ASSUME NEW s, NEW lg, NEW t, Matches(s, lg, t),
         NEW i \in Occupied(s), NEW v \in Nat,
         NEW r, Retained(r) = Retained(t), r.entries[s[i].hash] = t.entries[s[i].hash] + v,
         \A g \in Retained(t) \ {s[i].hash} : r.entries[g] = t.entries[g]
  PROVE  /\ Matches([s EXCEPT ![i].summary = @ + v], lg, r)
         /\ Occupied([s EXCEPT ![i].summary = @ + v]) = Occupied(s)
<1> DEFINE D == 0 .. 2 ^ lg - 1
           h == s[i].hash
           e == [hash |-> h, summary |-> s[i].summary + v]
           new == [s EXCEPT ![i].summary = @ + v]
<1>1. lg \in Lgs /\ s \in SlotsOf(lg) /\ Sited(s, lg) /\ EntrySet(s) = EntriesOf(t)
  BY DEF Matches
<1>2. /\ DOMAIN s = D /\ i \in D
      /\ s[i] \in Entries /\ s[i] = [hash |-> h, summary |-> s[i].summary]
      /\ h \in Hashes /\ s[i].summary \in Nat
      /\ \A k \in Occupied(s) : s[k] \in Entries
  BY <1>1, SlotFacts, EntryFacts
<1>3. new = [s EXCEPT ![i] = e]
  <2>1. [s[i] EXCEPT !.summary = s[i].summary + v] = e
    BY <1>2
  <2>2. new = [s EXCEPT ![i] = [s[i] EXCEPT !.summary = s[i].summary + v]]
    OBVIOUS
  <2> HIDE DEF e, new
  <2> QED BY <2>1, <2>2
<1>4. e \in Entries /\ e # NoEntry /\ e.hash = h
  <2>1. e \in Entries
    BY <1>2 DEF Entries
  <2> QED BY <2>1, EntryFacts
<1> HIDE DEF e, new, h
<1>5. /\ new \in SlotsOf(lg) /\ DOMAIN new = D
      /\ new[i] = e /\ \A k \in D \ {i} : new[k] = s[k]
  BY <1>1, <1>2, <1>3, <1>4 DEF SlotsOf
<1>6. Occupied(new) = Occupied(s)
  BY <1>2, <1>4, <1>5 DEF Occupied
<1>7. \A k \in D : /\ new[k] = NoEntry <=> s[k] = NoEntry
                   /\ s[k] # NoEntry => new[k].hash = s[k].hash
  BY <1>4, <1>5 DEF Occupied, h
<1>8. Sited(new, lg)
  <2> SUFFICES ASSUME NEW k \in D, new[k] # NoEntry
               PROVE  \E j \in D : FirstHit(new, new[k].hash, lg, j)
                                     /\ Probe(new[k].hash, lg, j) = k
    BY DEF Sited
  <2>1. s[k] # NoEntry /\ new[k].hash = s[k].hash
    BY <1>7
  <2>2. PICK j \in D : FirstHit(s, s[k].hash, lg, j) /\ Probe(s[k].hash, lg, j) = k
    BY <1>1, <2>1 DEF Sited
  <2>3. s[k].hash \in Nat
    BY <1>1, <1>2, <2>1, SlotFacts DEF Occupied
  <2>4. ASSUME NEW m \in Nat PROVE Hit(new, s[k].hash, lg, m) <=> Hit(s, s[k].hash, lg, m)
    <3>1. Probe(s[k].hash, lg, m) \in D
      BY <1>1, <2>3, ProbeInRange
    <3> QED BY <1>7, <3>1 DEF Hit
  <2>5. j \in Nat
    BY <1>1, SizeFacts
  <2>6. FirstHit(new, s[k].hash, lg, j)
    BY <2>2, <2>4, <2>5 DEF FirstHit
  <2> QED BY <2>1, <2>2, <2>6
<1>9. EntrySet(new) = EntriesOf(r)
  <2>0. s[i].summary = t.entries[h] /\ Held(s) = Retained(t) /\ h \in Held(s)
    BY <1>1, MatchFacts, SlotFacts DEF h
  <2>1. \A k \in Occupied(s) : /\ s[k] = [hash |-> s[k].hash, summary |-> t.entries[s[k].hash]]
                               /\ s[k].hash \in Retained(t)
                               /\ k # i => s[k].hash # h
    <3>1. \A k \in Occupied(s) : s[k] = [hash |-> s[k].hash, summary |-> s[k].summary]
      BY <1>2, EntryFacts
    <3>2. \A k \in Occupied(s) : s[k].summary = t.entries[s[k].hash] /\ s[k].hash \in Held(s)
      BY <1>1, MatchFacts, SlotFacts
    <3>3. \A k \in Occupied(s) : k # i => s[k].hash # h
      BY <1>1, HeldOnce DEF h
    <3> QED BY <2>0, <3>1, <3>2, <3>3
  <2>2. r.entries[h] = t.entries[h] + v /\ \A g \in Retained(t) \ {h} : r.entries[g] = t.entries[g]
    BY DEF h
  <2>3. e = [hash |-> h, summary |-> r.entries[h]]
    BY <2>0, <2>2 DEF e
  <2>4. \A k \in Occupied(s) : new[k] = [hash |-> s[k].hash, summary |-> r.entries[s[k].hash]]
    <3> TAKE k \in Occupied(s)
    <3>1. CASE k = i
      BY <1>5, <2>3, <3>1 DEF h
    <3>2. CASE k # i
      <4>1. new[k] = s[k]
        BY <1>2, <1>5, <3>2 DEF Occupied
      <4>2. r.entries[s[k].hash] = t.entries[s[k].hash]
        BY <2>1, <2>2, <3>2
      <4> QED BY <2>1, <4>1, <4>2
    <3> QED BY <3>1, <3>2
  <2>5. \A x \in EntrySet(new) : x \in EntriesOf(r)
    <3> TAKE x \in EntrySet(new)
    <3>1. PICK k \in Occupied(s) : x = new[k]
      BY <1>6 DEF EntrySet
    <3>2. s[k].hash \in Retained(r)
      BY <2>1
    <3> QED BY <2>4, <3>1, <3>2 DEF EntriesOf
  <2>6. \A x \in EntriesOf(r) : x \in EntrySet(new)
    <3> SUFFICES ASSUME NEW g \in Retained(t)
                 PROVE  [hash |-> g, summary |-> r.entries[g]] \in EntrySet(new)
      BY DEF EntriesOf
    <3>1. PICK k \in Occupied(s) : s[k].hash = g
      BY <1>1, <2>0, SlotFacts
    <3>2. new[k] \in EntrySet(new)
      BY <1>6 DEF EntrySet
    <3> QED BY <2>4, <3>1, <3>2
  <2> QED BY <2>5, <2>6
<1>10. Matches(new, lg, r)
  BY <1>1, <1>5, <1>8, <1>9 DEF Matches
<1> QED BY <1>6, <1>10 DEF new

(* A larger table has at least twice the slots. *)
LEMMA PowersGrow ==
  \A a, b \in 0 .. LgK + 1 : a < b => 2 * 2 ^ a <= 2 ^ b
<1> DEFINE T == {n \in Nat : \A a, b \in 0 .. LgK + 1 : b = a + n + 1 => 2 * 2 ^ a <= 2 ^ b}
<1>0. \A n \in 0 .. LgK + 1 : 2 ^ n \in Nat /\ 2 ^ (n + 1) = 2 * 2 ^ n
  BY PowersOfTwo
<1>1. 0 \in T
  <2> SUFFICES ASSUME NEW a \in 0 .. LgK + 1, NEW b \in 0 .. LgK + 1, b = a + 0 + 1
               PROVE  2 * 2 ^ a <= 2 ^ b
    OBVIOUS
  <2>1. 2 ^ b = 2 * 2 ^ a /\ 2 ^ a \in Nat
    BY <1>0
  <2> QED BY <2>1
<1>2. ASSUME NEW n \in T PROVE n + 1 \in T
  <2> SUFFICES ASSUME NEW a \in 0 .. LgK + 1, NEW b \in 0 .. LgK + 1, b = a + (n + 1) + 1
               PROVE  2 * 2 ^ a <= 2 ^ b
    OBVIOUS
  <2>1. PICK c \in 0 .. LgK + 1 : c = a + n + 1 /\ b = c + 1
    OBVIOUS
  <2>2. 2 * 2 ^ a <= 2 ^ c
    BY <2>1
  <2>3. 2 ^ b = 2 * 2 ^ c /\ 2 ^ c \in Nat /\ 2 ^ a \in Nat
    BY <1>0, <2>1
  <2> QED BY <2>2, <2>3
<1>3. T = Nat
  <2>1. T \in SUBSET Nat
    OBVIOUS
  <2> HIDE DEF T
  <2> QED BY <1>1, <1>2, <2>1, SetInduction
<1> TAKE a, b \in 0 .. LgK + 1
<1>4. SUFFICES ASSUME a < b PROVE 2 * 2 ^ a <= 2 ^ b
  OBVIOUS
<1>5. PICK n \in Nat : b = a + n + 1
  <2>1. b - a - 1 \in Nat /\ b = a + (b - a - 1) + 1
    BY <1>4
  <2> QED BY <2>1
<1>6. n \in T
  <2> HIDE DEF T
  <2> QED BY <1>3
<1> QED BY <1>5, <1>6

(* resize: every entry finds a place in the larger array. *)
LEMMA ResizeMatches ==
  ASSUME NEW s, NEW lg, NEW t, Matches(s, lg, t),
         NEW big \in Lgs, lg < big, NEW r, r.entries = t.entries
  PROVE  /\ Reinsert(SlotOrder(s), big) # <<>>
         /\ Matches(Reinsert(SlotOrder(s), big), big, r)
<1> DEFINE es == SlotOrder(s)
           N == 2 ^ lg
           new == Reinsert(es, big)
<1>1. lg \in Lgs /\ s \in SlotsOf(lg) /\ Sited(s, lg) /\ EntrySet(s) = EntriesOf(t)
  BY DEF Matches
<1>2. N \in Nat \ {0} /\ Cardinality(DOMAIN s) = N /\ DOMAIN s = 0 .. N - 1
  BY <1>1, SizeFacts, SlotFacts
<1> HIDE DEF N
<1>3. es = [j \in 1 .. N |-> s[j - 1]]
  BY <1>2 DEF SlotOrder
<1>4. \A j \in 1 .. N : j - 1 \in DOMAIN s /\ s[j - 1] \in Entries \cup {NoEntry}
  <2>1. \A i \in DOMAIN s : s[i] \in Entries \cup {NoEntry}
    BY <1>1 DEF SlotsOf
  <2> QED BY <1>2, <2>1
<1> HIDE DEF es
<1>5. es \in Seq(Entries \cup {NoEntry}) /\ Len(es) = N
  BY <1>2, <1>3, <1>4
<1>6. ASSUME NEW i \in 1 .. Len(es), NEW j \in 1 .. Len(es),
             es[i] # NoEntry, es[j] # NoEntry, es[i].hash = es[j].hash
      PROVE  i = j
  <2>1. i \in 1 .. N /\ j \in 1 .. N /\ es[i] = s[i - 1] /\ es[j] = s[j - 1]
    BY <1>3, <1>5
  <2>2. i - 1 \in Occupied(s) /\ j - 1 \in Occupied(s)
    BY <1>4, <1>6, <2>1 DEF Occupied
  <2>3. i - 1 = j - 1
    BY <1>1, <1>6, <2>1, <2>2, HeldOnce
  <2> QED BY <1>2, <2>1, <2>3
<1>7. IsFiniteSet(Held(s)) /\ Cardinality(Held(s)) < 2 ^ big
  <2>1. IsFiniteSet(Held(s)) /\ Cardinality(Held(s)) = Cardinality(Occupied(s))
    BY <1>1, HeldCount
  <2>2. Cardinality(Occupied(s)) <= N /\ Cardinality(Occupied(s)) \in Nat
    <3>1. Occupied(s) \in SUBSET (DOMAIN s)
      BY DEF Occupied
    <3> QED BY <1>1, <1>2, <3>1, SlotFacts, FS_Subset
  <2>3. N < 2 ^ big
    <3>1. 2 * 2 ^ lg <= 2 ^ big /\ 2 ^ big \in Nat
      BY <1>1, SizeFacts, PowersGrow
    <3> QED BY <1>2, <3>1 DEF N
  <2>4. 2 ^ big \in Nat
    BY SizeFacts
  <2> QED BY <1>2, <2>1, <2>2, <2>3, <2>4
<1>8. \A i \in 1 .. Len(es) : es[i] # NoEntry => es[i].hash \in Held(s)
  <2> TAKE i \in 1 .. Len(es)
  <2>1. i \in 1 .. N /\ es[i] = s[i - 1]
    BY <1>3, <1>5
  <2>2. es[i] # NoEntry => i - 1 \in Occupied(s)
    BY <1>4, <2>1 DEF Occupied
  <2> QED BY <1>1, <2>1, <2>2, SlotFacts
<1>9. /\ new # <<>> /\ new \in SlotsOf(big) /\ Sited(new, big)
      /\ EntrySet(new) = {es[i] : i \in 1 .. Len(es)} \ {NoEntry}
  BY <1>5, <1>6, <1>7, <1>8, ReinsertSites
<1>10. {es[i] : i \in 1 .. Len(es)} \ {NoEntry} = EntrySet(s)
  <2>1. \A x \in EntrySet(s) : x \in {es[i] : i \in 1 .. Len(es)} \ {NoEntry}
    <3> TAKE x \in EntrySet(s)
    <3>1. PICK k \in Occupied(s) : x = s[k]
      BY DEF EntrySet
    <3>2. k \in 0 .. N - 1 /\ s[k] # NoEntry
      BY <1>2, <3>1 DEF Occupied
    <3>3. k + 1 \in 1 .. Len(es) /\ es[k + 1] = s[(k + 1) - 1] /\ (k + 1) - 1 = k
      BY <1>2, <1>3, <1>5, <3>2
    <3> QED BY <3>1, <3>2, <3>3
  <2>2. \A i \in 1 .. Len(es) : es[i] # NoEntry => es[i] \in EntrySet(s)
    <3> TAKE i \in 1 .. Len(es)
    <3>1. i \in 1 .. N /\ es[i] = s[i - 1]
      BY <1>3, <1>5
    <3> QED BY <1>4, <3>1 DEF EntrySet, Occupied
  <2> QED BY <2>1, <2>2
<1>11. EntriesOf(r) = EntriesOf(t)
  BY DEF EntriesOf, Retained
<1> HIDE DEF new
<1>12. Matches(new, big, r)
  BY <1>1, <1>9, <1>10, <1>11 DEF Matches
<1> QED BY <1>9, <1>12 DEF new, es

(* The rank of an entry is the rank of its hash. *)
EntriesBelow(s, x) == {f \in EntrySet(s) : f.hash < x}
RankIn(R, x) == Cardinality({g \in R : g < x})

LEMMA RankOfEntry ==
  ASSUME NEW s, NEW lg, NEW t, Matches(s, lg, t), NEW x
  PROVE  /\ IsFiniteSet(EntriesBelow(s, x))
         /\ Cardinality(EntriesBelow(s, x)) = RankIn(Retained(t), x)
<1> DEFINE A == {f \in EntrySet(s) : f.hash < x}
           B == {g \in Retained(t) : g < x}
           hashOf == [f \in A |-> f.hash]
<1>1. EntrySet(s) = EntriesOf(t)
  BY DEF Matches
<1>2. \A f \in EntrySet(s) : /\ f.hash \in Retained(t)
                             /\ f = [hash |-> f.hash, summary |-> t.entries[f.hash]]
  BY <1>1 DEF EntriesOf
<1>3. hashOf \in [A -> B]
  BY <1>2
<1>4. \A f, g \in A : hashOf[f] = hashOf[g] => f = g
  <2> TAKE f, g \in A
  <2> SUFFICES ASSUME f.hash = g.hash PROVE f = g
    OBVIOUS
  <2>1. /\ f = [hash |-> f.hash, summary |-> t.entries[f.hash]]
        /\ g = [hash |-> g.hash, summary |-> t.entries[g.hash]]
    BY <1>2
  <2> QED BY <2>1
<1>5. \A h \in B : \E f \in A : hashOf[f] = h
  <2> TAKE h \in B
  <2>1. PICK f \in EntrySet(s) : f = [hash |-> h, summary |-> t.entries[h]]
    BY <1>1 DEF EntriesOf
  <2>2. f.hash = h
    BY <2>1
  <2>3. f \in A
    BY <2>2
  <2> QED BY <2>2, <2>3
<1>6. IsFiniteSet(B)
  <2>1. B \in SUBSET Retained(t)
    OBVIOUS
  <2> HIDE DEF B
  <2> QED BY <2>1, MatchFacts, FS_Subset
<1>7. hashOf \in Injection(A, B) /\ hashOf \in Surjection(A, B)
  <2> HIDE DEF A, B, hashOf
  <2> QED BY <1>3, <1>4, <1>5 DEF Injection, IsInjective, Surjection
<1>8. IsFiniteSet(A) /\ Cardinality(A) = Cardinality(B)
  <2> HIDE DEF A, B, hashOf
  <2> QED BY <1>6, <1>7, FS_Injection
<1> QED BY <1>8 DEF EntriesBelow, RankIn

(* Ranks order the hashes of a finite set. *)
LEMMA RankGrows ==
  ASSUME NEW R, IsFiniteSet(R), R \subseteq Nat, NEW a \in R, NEW b \in R, a < b
  PROVE  RankIn(R, a) \in Nat /\ RankIn(R, b) \in Nat /\ RankIn(R, a) < RankIn(R, b)
<1> DEFINE A == {g \in R : g < a}
           B == {g \in R : g < b}
<1>1. IsFiniteSet(B)
  <2>1. B \in SUBSET R
    OBVIOUS
  <2> HIDE DEF B
  <2> QED BY <2>1, FS_Subset
<1>2. A \in SUBSET B /\ a \in B /\ a \notin A
  <2>1. a \in Nat /\ b \in Nat /\ \A g \in R : g \in Nat
    OBVIOUS
  <2>2. ASSUME NEW g \in A PROVE g \in B
    <3>1. g \in R /\ g < a /\ g \in Nat
      BY <2>1
    <3>2. g < b
      BY <2>1, <3>1
    <3> QED BY <3>1, <3>2
  <2>3. a \in B /\ ~(a < a)
    BY <2>1
  <2> QED BY <2>2, <2>3
<1> HIDE DEF A, B
<1>3. IsFiniteSet(A) /\ Cardinality(A) <= Cardinality(B) /\ Cardinality(A) # Cardinality(B)
  BY <1>1, <1>2, FS_Subset
<1>4. Cardinality(A) \in Nat /\ Cardinality(B) \in Nat
  BY <1>1, <1>3, FS_CardinalityType
<1> QED BY <1>3, <1>4 DEF A, B, RankIn

(* rebuild: what it selects, and that every entry it keeps finds a place.  *)
KeptBy(s) ==
  {e \in EntrySet(s) : Cardinality(EntriesBelow(s, e.hash)) < 2 ^ LgK}
PivotOf(s) ==
  CHOOSE e \in EntrySet(s) : Cardinality(EntriesBelow(s, e.hash)) = 2 ^ LgK

LEMMA RebuildSelects ==
  ASSUME NEW s, NEW lg, NEW t, Matches(s, lg, t), TableShape(t, LgK, LgResize),
         Cardinality(Occupied(s)) > 2 ^ LgK
  PROVE  /\ PivotOf(s).hash = Rebuild(t).theta
         /\ KeptBy(s) = EntriesOf(Rebuild(t))
         /\ IsFiniteSet(KeptBy(s)) /\ Cardinality(KeptBy(s)) = 2 ^ LgK
<1> DEFINE R == Retained(t)
           k == 2 ^ LgK
           kth == KthHash(R, k)
           E == EntrySet(s)
<1>1. /\ Held(s) = R /\ IsFiniteSet(R) /\ NumRetained(t) > k
      /\ E = EntriesOf(t) /\ R \in SUBSET (0 .. MaxTheta) /\ R \subseteq Nat
  BY MatchFacts, RetainedFinite DEF Matches
<1>2. k \in Nat \ {0} /\ t.lgNom = LgK /\ MaxTheta \in Nat
  BY PowersOfTwo DEF TableShape
<1>3. kth \in R /\ RankIn(R, kth) = k
  <2>1. Cardinality(R) > k
    BY <1>1 DEF NumRetained
  <2>2. \E h \in R : RankIn(R, h) = k
    <3> HIDE DEF R, k
    <3>1. \E h \in R : Cardinality({g \in R : g < h}) = k
      <4>1. R \in SUBSET (0 .. MaxTheta) /\ k \in Nat /\ MaxTheta \in Nat
        BY <1>1, <1>2
      <4>2. HasKth(R, k)
        BY <2>1, <4>1, KthExists
      <4> QED BY <4>2 DEF HasKth
    <3> QED BY <3>1 DEF RankIn
  <2> QED BY <2>2 DEF KthHash, RankIn
<1>4. \A e \in E : /\ e.hash \in R /\ e = [hash |-> e.hash, summary |-> t.entries[e.hash]]
                   /\ Cardinality(EntriesBelow(s, e.hash)) = RankIn(R, e.hash)
  <2> TAKE e \in E
  <2>1. e.hash \in R /\ e = [hash |-> e.hash, summary |-> t.entries[e.hash]]
    BY <1>1 DEF EntriesOf
  <2>2. Cardinality(EntriesBelow(s, e.hash)) = RankIn(R, e.hash)
    BY RankOfEntry
  <2> QED BY <2>1, <2>2
<1>5. \A a, b \in R : a < b => RankIn(R, a) < RankIn(R, b) /\ RankIn(R, a) \in Nat /\ RankIn(R, b) \in Nat
  BY <1>1, RankGrows
<1> HIDE DEF R, k, E, kth
<1>6. PivotOf(s) \in E /\ PivotOf(s).hash = kth
  <2>1. PICK e \in E : e.hash = kth
    <3>1. [hash |-> kth, summary |-> t.entries[kth]] \in E
      BY <1>1, <1>3 DEF EntriesOf, R
    <3> QED BY <3>1
  <2>2. Cardinality(EntriesBelow(s, e.hash)) = k
    BY <1>3, <1>4, <2>1
  <2>3. PivotOf(s) \in E /\ Cardinality(EntriesBelow(s, PivotOf(s).hash)) = k
    BY <2>2, Zenon DEF PivotOf, E, k
  <2> DEFINE p == PivotOf(s).hash
  <2>4. p \in R /\ RankIn(R, p) = k
    BY <1>4, <2>3
  <2> HIDE DEF p
  <2>5. p \in Nat /\ kth \in Nat
    BY <1>1, <1>3, <2>4
  <2>6. ~(p < kth) /\ ~(kth < p)
    BY <1>2, <1>3, <1>5, <2>4
  <2>7. p = kth
    BY <2>5, <2>6
  <2> QED BY <2>3, <2>7 DEF p
<1>7. /\ Rebuild(t).theta = kth
      /\ Retained(Rebuild(t)) = {g \in R : g < kth}
      /\ \A h \in Retained(Rebuild(t)) : Rebuild(t).entries[h] = t.entries[h]
      /\ NumRetained(Rebuild(t)) = k
  <2>0. SizeOK(LgK) /\ LgResize \in 0 .. 3
    BY OwnSizeOK
  <2>1. Prunes(LgK, LgResize, t, Rebuild(t)) /\ Rebuild(t).theta \in R
    BY <1>1, <2>0, RebuildPrunes DEF k, R
  <2>2. Rebuild(t).theta = kth
    <3> DEFINE u == [t EXCEPT !.theta = kth]
    <3>1. Rebuild(t) = [u EXCEPT !.entries = Below(t.entries, kth)]
      BY <1>2 DEF Rebuild, kth, R, k
    <3>2. u.theta = kth
      BY DEF TableShape
    <3> HIDE DEF u
    <3> QED BY <3>1, <3>2
  <2>3. /\ Retained(Rebuild(t)) = {g \in R : g < kth}
        /\ \A h \in Retained(Rebuild(t)) : Rebuild(t).entries[h] = t.entries[h]
    BY <2>1, <2>2 DEF Prunes, R
  <2>4. NumRetained(Rebuild(t)) = RankIn(R, kth)
    BY <2>3 DEF NumRetained, RankIn
  <2> QED BY <1>3, <2>2, <2>3, <2>4
<1>8. \A h \in R : RankIn(R, h) < k <=> h < kth
  <2> TAKE h \in R
  <2>1. h \in Nat /\ kth \in Nat
    BY <1>1, <1>3
  <2>2. CASE h < kth
    BY <1>3, <1>5, <2>2
  <2>3. CASE h = kth
    <3>1. RankIn(R, h) = k /\ ~(k < k)
      BY <1>2, <1>3, <2>3
    <3> QED BY <2>1, <2>3, <3>1
  <2>4. CASE kth < h
    <3>1. k < RankIn(R, h) /\ RankIn(R, h) \in Nat
      BY <1>3, <1>5, <2>4
    <3> QED BY <1>2, <2>1, <2>4, <3>1
  <2> QED BY <2>1, <2>2, <2>3, <2>4
<1>9. KeptBy(s) = {e \in E : e.hash < kth}
  BY <1>4, <1>8 DEF KeptBy, E, k
<1>10. KeptBy(s) = EntriesOf(Rebuild(t))
  <2> DEFINE Q == Retained(Rebuild(t))
  <2>1. EntriesOf(Rebuild(t)) = {[hash |-> h, summary |-> t.entries[h]] : h \in Q}
    BY <1>7 DEF EntriesOf
  <2>2. \A e \in KeptBy(s) : e \in EntriesOf(Rebuild(t))
    <3> TAKE e \in KeptBy(s)
    <3>1. e.hash \in Q
      BY <1>4, <1>7, <1>9
    <3>2. e = [hash |-> e.hash, summary |-> t.entries[e.hash]]
      BY <1>4, <1>9
    <3> QED BY <2>1, <3>1, <3>2
  <2>3. \A e \in EntriesOf(Rebuild(t)) : e \in KeptBy(s)
    <3> TAKE e \in EntriesOf(Rebuild(t))
    <3>1. PICK h \in Q : e = [hash |-> h, summary |-> t.entries[h]]
      BY <2>1
    <3>2. h \in R /\ h < kth
      BY <1>7
    <3>3. e \in E
      BY <1>1, <3>1, <3>2 DEF EntriesOf, R
    <3> QED BY <1>9, <3>1, <3>2, <3>3
  <2> QED BY <2>2, <2>3
<1>11. IsFiniteSet(KeptBy(s)) /\ Cardinality(KeptBy(s)) = k
  <2>1. /\ IsFiniteSet(EntriesBelow(s, kth))
        /\ Cardinality(EntriesBelow(s, kth)) = RankIn(R, kth)
    BY RankOfEntry DEF R
  <2> QED BY <1>3, <1>9, <2>1 DEF E, EntriesBelow
<1> QED BY <1>6, <1>7, <1>10, <1>11 DEF k

LEMMA RebuildMatches ==
  ASSUME NEW s, NEW lg, NEW t, Matches(s, lg, t), TableShape(t, LgK, LgResize),
         Cardinality(Occupied(s)) > 2 ^ LgK, NEW order \in SetToSeqs(KeptBy(s))
  PROVE  /\ Reinsert(order, lg) # <<>>
         /\ Matches(Reinsert(order, lg), lg, Rebuild(t))
<1> DEFINE kept == KeptBy(s)
           k == 2 ^ LgK
           new == Reinsert(order, lg)
           H == {e.hash : e \in kept}
<1>1. lg \in Lgs /\ s \in SlotsOf(lg) /\ Sited(s, lg) /\ EntrySet(s) = EntriesOf(t)
  BY DEF Matches
<1>2. /\ kept = EntriesOf(Rebuild(t)) /\ IsFiniteSet(kept) /\ Cardinality(kept) = k
      /\ kept \in SUBSET EntrySet(s)
  BY RebuildSelects DEF KeptBy
<1>3. k \in Nat \ {0} /\ 2 ^ lg \in Nat \ {0}
  BY <1>1, PowersOfTwo, SizeFacts
<1> HIDE DEF kept, k
<1>4. order \in [1 .. k -> kept] /\ \A i, j \in 1 .. k : i # j => order[i] # order[j]
  BY <1>2 DEF SetToSeqs, kept
<1>5. \A e \in kept : /\ e \in Entries /\ e # NoEntry
                      /\ e.hash \in Retained(t)
                      /\ e = [hash |-> e.hash, summary |-> t.entries[e.hash]]
  <2> TAKE e \in kept
  <2>1. e \in EntrySet(s)
    BY <1>2
  <2>2. e \in Entries /\ e # NoEntry
    BY <1>1, <2>1, SlotFacts DEF EntrySet
  <2>3. e.hash \in Retained(t) /\ e = [hash |-> e.hash, summary |-> t.entries[e.hash]]
    BY <1>1, <2>1 DEF EntriesOf
  <2> QED BY <2>2, <2>3
<1>6. order \in Seq(Entries \cup {NoEntry}) /\ Len(order) = k
  BY <1>3, <1>4, <1>5
<1>7. ASSUME NEW i \in 1 .. Len(order), NEW j \in 1 .. Len(order),
             order[i] # NoEntry, order[j] # NoEntry, order[i].hash = order[j].hash
      PROVE  i = j
  <2>1. order[i] \in kept /\ order[j] \in kept /\ i \in 1 .. k /\ j \in 1 .. k
    BY <1>4, <1>6
  <2>2. /\ order[i] = [hash |-> order[i].hash, summary |-> t.entries[order[i].hash]]
        /\ order[j] = [hash |-> order[j].hash, summary |-> t.entries[order[j].hash]]
    BY <1>5, <2>1
  <2>3. order[i] = order[j]
    BY <1>7, <2>2
  <2> QED BY <1>4, <2>1, <2>3
<1>8. IsFiniteSet(H) /\ Cardinality(H) < 2 ^ lg
  <2>1. H \in SUBSET Retained(t)
    BY <1>5
  <2>2. H = Retained(Rebuild(t))
    <3>1. \A h \in Retained(Rebuild(t)) : h \in H
      <4> TAKE h \in Retained(Rebuild(t))
      <4>1. [hash |-> h, summary |-> Rebuild(t).entries[h]] \in kept
        BY <1>2 DEF EntriesOf
      <4> QED BY <4>1
    <3>2. \A h \in H : h \in Retained(Rebuild(t))
      BY <1>2 DEF EntriesOf
    <3> QED BY <3>1, <3>2
  <2>3. IsFiniteSet(Retained(t)) /\ NumRetained(t) = Cardinality(Occupied(s))
    BY MatchFacts
  <2>4. Cardinality(Occupied(s)) <= 2 ^ lg /\ Cardinality(Occupied(s)) \in Nat
    <3>1. Occupied(s) \in SUBSET (DOMAIN s)
      BY DEF Occupied
    <3> QED BY <1>1, <3>1, SlotFacts, FS_Subset
  <2>5. IsFiniteSet(H)
    <3> HIDE DEF H
    <3> QED BY <2>1, <2>3, FS_Subset
  <2>6. Cardinality(H) \in Nat /\ Cardinality(H) < Cardinality(Occupied(s))
    <3>1. Cardinality(H) \in Nat /\ Cardinality(H) <= Cardinality(Retained(t))
      <4> HIDE DEF H
      <4> QED BY <2>1, <2>3, <2>5, FS_Subset, FS_CardinalityType
    <3>2. Cardinality(H) # Cardinality(Retained(t))
      <4>1. H # Retained(t)
        <5>0. SizeOK(LgK) /\ LgResize \in 0 .. 3 /\ NumRetained(t) > 2 ^ LgK
          BY <2>3, OwnSizeOK
        <5>1. Prunes(LgK, LgResize, t, Rebuild(t)) /\ Rebuild(t).theta \in Retained(t)
          BY <5>0, RebuildPrunes
        <5>2. Rebuild(t).theta \notin Retained(Rebuild(t))
          BY <5>1 DEF Prunes, TableShape
        <5> QED BY <2>2, <5>1, <5>2
      <4> HIDE DEF H
      <4> QED BY <2>1, <2>3, <4>1, FS_Subset
    <3>3. Cardinality(Retained(t)) = Cardinality(Occupied(s))
      BY <2>3 DEF NumRetained
    <3> QED BY <2>4, <3>1, <3>2, <3>3
  <2> QED BY <1>3, <2>4, <2>5, <2>6
<1>9. \A i \in 1 .. Len(order) : order[i] # NoEntry => order[i].hash \in H
  BY <1>4, <1>6
<1>10. /\ new # <<>> /\ new \in SlotsOf(lg) /\ Sited(new, lg)
       /\ EntrySet(new) = {order[i] : i \in 1 .. Len(order)} \ {NoEntry}
  <2> HIDE DEF H
  <2> QED BY <1>1, <1>6, <1>7, <1>8, <1>9, ReinsertSites
<1>11. {order[i] : i \in 1 .. Len(order)} \ {NoEntry} = kept
  <2>1. \A i \in 1 .. Len(order) : order[i] \in kept
    BY <1>4, <1>6
  <2>2. ASSUME NEW e \in kept PROVE \E i \in 1 .. Len(order) : order[i] = e
    <3>1. IsFiniteSet(1 .. k) /\ Cardinality(1 .. k) = k
      <4>1. 1 \in Int /\ k \in Int /\ ~(1 > k) /\ k - 1 + 1 = k
        BY <1>3
      <4> QED BY <4>1, FS_Interval
    <3>2. order \in Injection(1 .. k, kept)
      BY <1>4 DEF Injection, IsInjective
    <3>3. order \in Surjection(1 .. k, kept)
      BY <1>2, <3>1, <3>2, FS_Injection
    <3> QED BY <1>6, <3>3 DEF Surjection
  <2>3. NoEntry \notin kept
    BY <1>5
  <2> QED BY <2>1, <2>2, <2>3
<1> HIDE DEF new
<1>12. Matches(new, lg, Rebuild(t))
  BY <1>1, <1>2, <1>10, <1>11 DEF Matches
<1> QED BY <1>10, <1>12 DEF new

-------------------------------------------------------------------------------
(***************************************************************************)
(* The machine.                                                            *)
(***************************************************************************)

(* SlotThreshold of a table with 2^lg slots. *)
Capacity(lg) == IF lg <= LgK THEN 2 ^ lg \div 2 ELSE (15 * 2 ^ lg) \div 16

LEMMA CapacityFacts ==
  /\ \A lg \in Lgs : Capacity(lg) \in Nat /\ Capacity(lg) < 2 ^ lg
  /\ 2 ^ LgK <= Capacity(LgK + 1)
  /\ \A lg, big \in Lgs : lg < big => Capacity(lg) + 1 <= Capacity(big)
<1>1. ASSUME NEW lg \in Lgs
      PROVE  lg \in Int /\ 2 ^ lg \in Nat \ {0} /\ Capacity(lg) \in Nat /\ Capacity(lg) < 2 ^ lg
  <2> DEFINE N == 2 ^ lg
  <2>1. N \in Nat \ {0} /\ lg \in Int
    BY SizeFacts DEF Lgs
  <2> HIDE DEF N
  <2>2. /\ N \div 2 \in Nat /\ N \div 2 < N
        /\ (15 * N) \div 16 \in Nat /\ (15 * N) \div 16 < N
    BY <2>1
  <2> QED BY <2>1, <2>2 DEF Capacity, N
<1>2. 2 ^ LgK <= Capacity(LgK + 1)
  <2>1. 2 ^ LgK \in Nat \ {0} /\ 2 ^ (LgK + 1) = 2 * 2 ^ LgK
    BY PowersOfTwo
  <2>2. Capacity(LgK + 1) = (15 * 2 ^ (LgK + 1)) \div 16
    BY DEF Capacity
  <2> QED BY <2>1, <2>2
<1>3. ASSUME NEW lg \in Lgs, NEW big \in Lgs, lg < big
      PROVE  Capacity(lg) + 1 <= Capacity(big)
  <2> DEFINE N == 2 ^ lg
             M == 2 ^ big
  <2>1. N \in Nat \ {0} /\ M \in Nat \ {0} /\ 2 * N <= M
    BY <1>3, SizeFacts, PowersGrow
  <2>2. lg <= LgK
    BY <1>3 DEF Lgs
  <2> HIDE DEF N, M
  <2>3. (N \div 2) + 1 <= M \div 2 /\ (N \div 2) + 1 <= (15 * M) \div 16
    BY <2>1
  <2> QED BY <2>2, <2>3 DEF Capacity, N, M
<1> QED BY <1>1, <1>2, <1>3

(* The code's own fields agree with table t; a table that may still grow   *)
(* has a resize factor to grow by.                                         *)
Agrees(s, lg, th, n, t) ==
  /\ Matches(s, lg, t)
  /\ lg = t.lgCur /\ th = t.theta
  /\ n = NumRetained(t) /\ n <= Capacity(lg)
  /\ lg <= LgK => LgResize # 0

(* The inductive invariant.  EntriesFindable alone is not inductive: that  *)
(* a walk meets a free slot rests on the capacity, and that the two tables *)
(* choose alike on the sizes being equal.                                  *)
SlotInv ==
  /\ IInv
  /\ Agrees(slots, lgCur, theta, numRetained, table)
  /\ isEmpty = table.isEmpty
  /\ panicked = FALSE

LEMMA SlotThresholdIs ==
  ASSUME SlotInv
  PROVE  /\ lgCur \in Lgs /\ slots \in SlotsOf(lgCur) /\ Sited(slots, lgCur)
         /\ SlotThreshold = Capacity(lgCur)
         /\ numRetained \in Nat /\ numRetained = Cardinality(Occupied(slots))
         /\ numRetained < 2 ^ lgCur
<1>1. Matches(slots, lgCur, table) /\ numRetained = NumRetained(table)
      /\ numRetained <= Capacity(lgCur)
  BY DEF SlotInv, Agrees
<1>2. lgCur \in Lgs /\ slots \in SlotsOf(lgCur) /\ Sited(slots, lgCur)
  BY <1>1 DEF Matches
<1>3. numRetained = Cardinality(Occupied(slots)) /\ numRetained \in Nat
  BY <1>1, <1>2, MatchFacts, SlotFacts
<1>4. SlotThreshold = Capacity(lgCur)
  BY <1>2, SlotFacts DEF SlotThreshold, Capacity
<1>5. numRetained < 2 ^ lgCur
  <2>1. Capacity(lgCur) \in Nat /\ Capacity(lgCur) < 2 ^ lgCur /\ 2 ^ lgCur \in Nat
    BY <1>2, CapacityFacts, SizeFacts
  <2> QED BY <1>1, <1>3, <2>1
<1> QED BY <1>2, <1>3, <1>4, <1>5

(* rebuild of slots s is the rebuild of the table t that they hold. *)
LEMMA RebuildStep ==
  ASSUME NEW s, NEW t, Matches(s, lgCur, t), TableShape(t, LgK, LgResize),
         \A h \in Retained(t) : h < t.theta, t.lgCur = lgCur,
         Cardinality(Occupied(s)) > 2 ^ LgK, 2 ^ LgK <= Capacity(lgCur),
         lgCur <= LgK => LgResize # 0,
         RebuildSlots(s)
  PROVE  /\ Agrees(slots', lgCur', theta', numRetained', Rebuild(t))
         /\ panicked' = panicked
<1> DEFINE k == 2 ^ LgK
           kept == KeptBy(s)
           Rank(e) == Cardinality({f \in EntrySet(s) : f.hash < e.hash})
<1>0. SizeOK(LgK) /\ LgResize \in 0 .. 3 /\ k \in Nat
  BY OwnSizeOK, PowersOfTwo
<1>1. /\ PivotOf(s).hash = Rebuild(t).theta /\ Cardinality(kept) = k
      /\ Cardinality(Occupied(s)) \in Nat
  BY RebuildSelects, SlotFacts DEF Matches
<1>2. \A e : Rank(e) = Cardinality(EntriesBelow(s, e.hash))
  BY DEF EntriesBelow
<1>3. /\ kept = {e \in EntrySet(s) : Rank(e) < k}
      /\ PivotOf(s) = CHOOSE e \in EntrySet(s) : Rank(e) = k
  BY DEF KeptBy, PivotOf, EntriesBelow
<1>4. ~(k >= Cardinality(Occupied(s)))
  BY <1>0, <1>1
<1>5. \E new \in {Reinsert(order, lgCur) : order \in SetToSeqs(kept)} :
         IF new = <<>> \/ Cardinality(kept) # k THEN Panic
         ELSE /\ theta' = PivotOf(s).hash
              /\ slots' = new
              /\ numRetained' = k
              /\ UNCHANGED <<lgCur, panicked>>
  <2> HIDE DEF kept
  <2> QED BY <1>3, <1>4, Zenon DEF RebuildSlots
<1>6. PICK order \in SetToSeqs(kept) :
         LET new == Reinsert(order, lgCur)
         IN  IF new = <<>> \/ Cardinality(kept) # k THEN Panic
             ELSE /\ theta' = PivotOf(s).hash
                  /\ slots' = new
                  /\ numRetained' = k
                  /\ UNCHANGED <<lgCur, panicked>>
  BY <1>5
<1>7. /\ Reinsert(order, lgCur) # <<>>
      /\ Matches(Reinsert(order, lgCur), lgCur, Rebuild(t))
  BY RebuildMatches
<1>8. /\ theta' = Rebuild(t).theta /\ slots' = Reinsert(order, lgCur)
      /\ numRetained' = k /\ lgCur' = lgCur /\ panicked' = panicked
  BY <1>1, <1>6, <1>7
<1>9. NumRetained(t) = Cardinality(Occupied(s)) /\ NumRetained(t) > k
  BY MatchFacts
<1>10. Prunes(LgK, LgResize, t, Rebuild(t)) /\ Rebuild(t).theta \in Retained(t)
  BY <1>0, <1>9, RebuildPrunes
<1>11. NumRetained(Rebuild(t)) = k
  <2>1. Rebuild(t).theta # t.theta
    <3>1. Rebuild(t).theta < t.theta /\ t.theta \in Nat
      BY <1>10 DEF TableShape
    <3> QED BY <3>1
  <2> QED BY <1>10, <2>1 DEF Prunes
<1>12. Rebuild(t).lgCur = t.lgCur
  <2> DEFINE u == [t EXCEPT !.theta = KthHash(Retained(t), 2 ^ t.lgNom)]
  <2>1. Rebuild(t) = [u EXCEPT !.entries = Below(t.entries, KthHash(Retained(t), 2 ^ t.lgNom))]
    BY DEF Rebuild
  <2>2. u.lgCur = t.lgCur
    BY DEF TableShape
  <2> HIDE DEF u
  <2> QED BY <2>1, <2>2
<1> QED BY <1>7, <1>8, <1>11, <1>12 DEF Agrees

(* The end of upsert_entry: the slots take the branch that the table takes. *)
LEMMA InsertStep ==
  ASSUME SlotInv, NEW i, NEW h, NEW v, NEW t,
         Matches([slots EXCEPT ![i] = [hash |-> h, summary |-> v]], lgCur, t),
         Cardinality(Occupied([slots EXCEPT ![i] = [hash |-> h, summary |-> v]]))
           = numRetained + 1,
         TableShape(t, LgK, LgResize), \A g \in Retained(t) : g < t.theta,
         t.lgCur = lgCur, t.theta = theta,
         InsertEntry(i, h, v)
  PROVE  /\ Agrees(slots', lgCur', theta', numRetained', ResizeOrRebuild(t))
         /\ panicked' = panicked
<1> DEFINE s == [slots EXCEPT ![i] = [hash |-> h, summary |-> v]]
           big == Min({lgCur + LgResize, LgK + 1})
<1>1. /\ lgCur \in Lgs /\ lgCur \in Nat /\ LgResize \in 0 .. 3
      /\ SlotThreshold = Capacity(lgCur) /\ numRetained \in Nat
      /\ Capacity(lgCur) \in Nat
      /\ lgCur <= LgK => LgResize # 0
  <2>1. lgCur \in Lgs /\ SlotThreshold = Capacity(lgCur) /\ numRetained \in Nat
    BY SlotThresholdIs
  <2>2. Capacity(lgCur) \in Nat
    BY <2>1, CapacityFacts
  <2>3. lgCur \in Nat
    BY <2>1 DEF Lgs
  <2>4. lgCur <= LgK => LgResize # 0
    BY DEF SlotInv, Agrees
  <2> QED BY <2>1, <2>2, <2>3, <2>4, LgResizeAssumption
<1>2. t.lgNom = LgK /\ t.lgResize = LgResize
  BY DEF TableShape
<1>3. CapacityThreshold(t) = Capacity(lgCur)
  <2>1. SlotCount(lgCur) = 2 ^ lgCur
    BY <1>1 DEF SlotCount, Lgs
  <2> QED BY <1>2, <2>1 DEF CapacityThreshold, Capacity
<1>4. NumRetained(t) = numRetained + 1 /\ Cardinality(Occupied(s)) = numRetained + 1
  BY MatchFacts
<1>5. InsertEntry(i, h, v)
        = IF numRetained + 1 <= SlotThreshold
          THEN /\ slots' = s
               /\ numRetained' = numRetained + 1
               /\ UNCHANGED <<lgCur, theta, panicked>>
          ELSE IF lgCur <= LgK THEN ResizeSlots(s) ELSE RebuildSlots(s)
  BY DEF InsertEntry
<1> HIDE DEF s
<1>6. CASE numRetained + 1 <= Capacity(lgCur)
  <2>1. ResizeOrRebuild(t) = t
    BY <1>3, <1>4, <1>6 DEF ResizeOrRebuild
  <2>2. /\ slots' = s /\ numRetained' = numRetained + 1
        /\ lgCur' = lgCur /\ theta' = theta /\ panicked' = panicked
    BY <1>1, <1>5, <1>6
  <2>3. Matches(slots', lgCur', t)
    BY <2>2 DEF s
  <2> QED BY <1>1, <1>4, <1>6, <2>1, <2>2, <2>3 DEF Agrees
<1>7. CASE ~(numRetained + 1 <= Capacity(lgCur)) /\ lgCur <= LgK
  <2>1. ResizeOrRebuild(t) = Resize(t)
    BY <1>2, <1>3, <1>4, <1>7 DEF ResizeOrRebuild
  <2>2. big \in Lgs /\ lgCur < big
        /\ big = IF lgCur + LgResize < LgK + 1 THEN lgCur + LgResize ELSE LgK + 1
    <3>1. big = IF lgCur + LgResize <= LgK + 1 THEN lgCur + LgResize ELSE LgK + 1
      <4>1. lgCur + LgResize \in Int /\ LgK + 1 \in Int
        BY <1>1
      <4> QED BY <4>1, MinOfTwo
    <3> HIDE DEF big
    <3> QED BY <1>1, <1>7, <3>1 DEF Lgs
  <2> HIDE DEF big
  <2>3. Resize(t) = [t EXCEPT !.lgCur = big]
    BY <1>2, <2>2 DEF Resize
  <2> DEFINE r == [t EXCEPT !.lgCur = big]
  <2>4. r.entries = t.entries /\ r.theta = t.theta /\ r.lgCur = big
    BY DEF TableShape
  <2> HIDE DEF r
  <2>5. /\ Reinsert(SlotOrder(s), big) # <<>>
        /\ Matches(Reinsert(SlotOrder(s), big), big, r)
    <3>1. Matches(s, lgCur, t)
      BY DEF s
    <3> QED BY <2>2, <2>4, <3>1, ResizeMatches
  <2>6. ResizeSlots(s)
    BY <1>1, <1>5, <1>7
  <2>7. /\ slots' = Reinsert(SlotOrder(s), big) /\ lgCur' = big
        /\ numRetained' = numRetained + 1 /\ theta' = theta /\ panicked' = panicked
    BY <2>5, <2>6 DEF ResizeSlots, big
  <2>8. NumRetained(r) = numRetained + 1
    BY <1>4, <2>4 DEF NumRetained, Retained
  <2>9. numRetained + 1 <= Capacity(big)
    <3>1. numRetained <= Capacity(lgCur)
      BY DEF SlotInv, Agrees
    <3>2. Capacity(lgCur) + 1 <= Capacity(big) /\ Capacity(big) \in Nat
      BY <1>1, <2>2, CapacityFacts
    <3> QED BY <1>1, <3>1, <3>2
  <2>10. Agrees(slots', lgCur', theta', numRetained', r)
    BY <1>1, <1>7, <2>4, <2>5, <2>7, <2>8, <2>9 DEF Agrees
  <2> QED BY <2>1, <2>3, <2>7, <2>10 DEF r
<1>8. CASE ~(numRetained + 1 <= Capacity(lgCur)) /\ ~(lgCur <= LgK)
  <2>1. ResizeOrRebuild(t) = Rebuild(t)
    BY <1>2, <1>3, <1>4, <1>8 DEF ResizeOrRebuild
  <2>2. lgCur = LgK + 1 /\ 2 ^ LgK <= Capacity(lgCur) /\ 2 ^ LgK \in Nat
    BY <1>1, <1>8, CapacityFacts, PowersOfTwo DEF Lgs
  <2>3. Cardinality(Occupied(s)) > 2 ^ LgK
    BY <1>1, <1>4, <1>8, <2>2
  <2>4. RebuildSlots(s)
    BY <1>1, <1>5, <1>8
  <2>5. Matches(s, lgCur, t)
    BY DEF s
  <2>6. /\ Agrees(slots', lgCur', theta', numRetained', Rebuild(t))
        /\ panicked' = panicked
    BY <1>1, <2>2, <2>3, <2>4, <2>5, RebuildStep
  <2> QED BY <2>1, <2>6
<1> QED BY <1>6, <1>7, <1>8

(* upsert_entry. *)
LEMMA UpsertStep ==
  ASSUME SlotInv, NEW h \in Hashes, NEW v \in Values, UpdateSlots(h, v)
  PROVE  /\ Agrees(slots', lgCur', theta', numRetained', table')
         /\ isEmpty' = table'.isEmpty /\ panicked' = FALSE
<1> DEFINE t == table
<1>1. /\ lgCur \in Lgs /\ slots \in SlotsOf(lgCur) /\ Sited(slots, lgCur)
      /\ numRetained \in Nat /\ numRetained = Cardinality(Occupied(slots))
      /\ Cardinality(Occupied(slots)) < 2 ^ lgCur
  BY SlotThresholdIs
<1>2. /\ Matches(slots, lgCur, t) /\ TableShape(t, LgK, LgResize)
      /\ lgCur = t.lgCur /\ theta = t.theta /\ panicked = FALSE
      /\ Agrees(slots, lgCur, theta, numRetained, t)
      /\ \A g \in Retained(t) : g < t.theta
  BY DEF SlotInv, Agrees, IInv, TypeOK, TableOK, Sound
<1>3. Held(slots) = Retained(t)
  BY <1>2, MatchFacts
<1>4. h \in Nat /\ v \in Nat
  OBVIOUS
<1>5. /\ isEmpty' = FALSE
      /\ table' = UpsertEntry(t, h, v, t.entries[h] + v)
      /\ UpsertSlot(h, v)
  <2>1. Create + v = v
    BY <1>4 DEF Create
  <2> QED BY <2>1 DEF UpdateSlots, Update, UpsertSlot
<1> HIDE DEF t
<1>6. PICK j \in 0 .. 2 ^ lgCur - 1 : LandsAt(slots, h, lgCur, j)
  BY <1>1, <1>4, WalkEnds DEF WalkEndsWell
<1> DEFINE i == Probe(h, lgCur, j)
<1>7. /\ FirstHit(slots, h, lgCur, j)
      /\ FindInEntries(slots, h, lgCur) = i
      /\ i \in 0 .. 2 ^ lgCur - 1
      /\ h \in Held(slots) => slots[i] # NoEntry /\ slots[i].hash = h
      /\ h \notin Held(slots) => slots[i] = NoEntry
  BY <1>6 DEF LandsAt
<1>8. i # NotFound
  <2> HIDE DEF i
  <2> QED BY <1>1, <1>7, SizeFacts DEF NotFound
<1>9. UpsertSlot(h, v)
        = /\ isEmpty' = FALSE
          /\ IF h = 0 \/ h >= theta
             THEN UNCHANGED <<slots, lgCur, theta, numRetained, panicked>>
             ELSE IF i = NotFound THEN Panic
             ELSE IF slots[i] # NoEntry
             THEN /\ slots' = [slots EXCEPT ![i].summary = @ + v]
                  /\ UNCHANGED <<lgCur, theta, numRetained, panicked>>
             ELSE InsertEntry(i, h, v)
  <2> HIDE DEF i
  <2> QED BY <1>7 DEF UpsertSlot
<1>10. CASE h = 0 \/ h >= theta
  <2> DEFINE r == [t EXCEPT !.isEmpty = FALSE]
  <2>1. table' = r
    BY <1>2, <1>5, <1>10 DEF UpsertEntry, Screened
  <2>2. r = [entries |-> t.entries, theta |-> t.theta, isEmpty |-> FALSE,
             lgCur |-> t.lgCur, lgNom |-> LgK, lgResize |-> LgResize]
    BY <1>2, FlagUpdate
  <2> HIDE DEF r
  <2>3. Retained(r) = Retained(t) /\ NumRetained(r) = NumRetained(t)
        /\ EntriesOf(r) = EntriesOf(t)
    BY <2>2 DEF Retained, NumRetained, EntriesOf
  <2>4. Agrees(slots, lgCur, theta, numRetained, r)
    BY <1>2, <2>2, <2>3 DEF Agrees, Matches
  <2>5. /\ slots' = slots /\ lgCur' = lgCur /\ theta' = theta
        /\ numRetained' = numRetained /\ panicked' = panicked
    BY <1>5, <1>9, <1>10
  <2>6. r.isEmpty = FALSE
    BY <2>2
  <2>7. Agrees(slots', lgCur', theta', numRetained', r)
    BY <2>4, <2>5
  <2> QED BY <1>2, <1>5, <2>1, <2>5, <2>6, <2>7
<1>11. CASE ~(h = 0 \/ h >= theta) /\ h \in Retained(t)
  <2> DEFINE r == WithEntry(t, h, t.entries[h] + v)
  <2>1. table' = r
    BY <1>2, <1>5, <1>11 DEF UpsertEntry, Screened
  <2>2. t.entries[h] + v \in Nat
    BY <1>2, <1>4, <1>11 DEF TableShape
  <2>3. /\ TableShape(r, LgK, LgResize) /\ ~r.isEmpty
        /\ r.theta = t.theta /\ r.lgCur = t.lgCur
        /\ Retained(r) = Retained(t) \cup {h}
        /\ r.entries[h] = t.entries[h] + v
        /\ \A g \in Retained(t) \ {h} : r.entries[g] = t.entries[g]
    <3>1. PICK n \in Nat : n = t.entries[h] + v
      BY <2>2
    <3> DEFINE q == WithEntry(t, h, n)
    <3>2. /\ TableShape(q, LgK, LgResize) /\ ~q.isEmpty
          /\ q.theta = t.theta /\ q.lgCur = t.lgCur
          /\ Retained(q) = Retained(t) \cup {h}
          /\ q.entries[h] = n
          /\ \A g \in Retained(t) \ {h} : q.entries[g] = t.entries[g]
      <4>1. TableShape(t, LgK, LgResize) /\ h \in Hashes
        BY <1>2
      <4>2. EntryAdded(LgK, LgResize, t, h, n, q)
        BY <4>1, WithEntryFacts
      <4> QED BY <4>2 DEF EntryAdded
    <3>3. r = q
      BY <3>1
    <3> HIDE DEF r, q
    <3> QED BY <3>1, <3>2, <3>3
  <2> HIDE DEF r
  <2>4. Retained(r) = Retained(t) /\ NumRetained(r) = NumRetained(t) /\ r.isEmpty = FALSE
    BY <1>11, <2>3 DEF NumRetained, TableShape
  <2>5. slots[i] # NoEntry /\ slots[i].hash = h /\ i \in Occupied(slots)
    <3> HIDE DEF i
    <3>1. slots[i] # NoEntry /\ slots[i].hash = h
      BY <1>3, <1>7, <1>11
    <3> QED BY <1>1, <1>7, <3>1, SlotFacts DEF Occupied
  <2>6. Matches([slots EXCEPT ![i].summary = @ + v], lgCur, r)
    <3> HIDE DEF i
    <3> QED BY <1>2, <1>4, <2>3, <2>4, <2>5, MergeMatches
  <2>7. /\ slots' = [slots EXCEPT ![i].summary = @ + v] /\ lgCur' = lgCur
        /\ theta' = theta /\ numRetained' = numRetained /\ panicked' = panicked
    <3> HIDE DEF i
    <3> QED BY <1>5, <1>8, <1>9, <1>11, <2>5
  <2>8. Agrees(slots', lgCur', theta', numRetained', r)
    <3> HIDE DEF i
    <3> QED BY <1>2, <2>3, <2>4, <2>6, <2>7 DEF Agrees
  <2> QED BY <1>2, <1>5, <2>1, <2>4, <2>7, <2>8
<1>12. CASE ~(h = 0 \/ h >= theta) /\ h \notin Retained(t)
  <2> DEFINE w == WithEntry(t, h, v)
             s == [slots EXCEPT ![i] = [hash |-> h, summary |-> v]]
  <2>1. table' = ResizeOrRebuild(w)
    BY <1>2, <1>5, <1>12 DEF UpsertEntry, Screened
  <2>2. /\ TableShape(w, LgK, LgResize) /\ ~w.isEmpty
        /\ w.theta = t.theta /\ w.lgCur = t.lgCur
        /\ Retained(w) = Retained(t) \cup {h}
        /\ w.entries[h] = v
        /\ \A g \in Retained(t) \ {h} : w.entries[g] = t.entries[g]
    <3> HIDE DEF i, s
    <3>1. TableShape(t, LgK, LgResize) /\ h \in Hashes /\ v \in Nat
      BY <1>2, <1>4
    <3>2. EntryAdded(LgK, LgResize, t, h, v, w)
      BY <3>1, WithEntryFacts
    <3> QED BY <3>2 DEF EntryAdded
  <2> HIDE DEF w
  <2>3. slots[i] = NoEntry
    BY <1>3, <1>7, <1>12
  <2>4. Matches(s, lgCur, w) /\ Cardinality(Occupied(s)) = numRetained + 1
    BY <1>1, <1>2, <1>4, <1>7, <1>12, <2>2, <2>3, StoreMatches
  <2>5. \A g \in Retained(w) : g < w.theta
    <3>1. h < theta
      BY <1>2, <1>4, <1>12 DEF TableShape
    <3> QED BY <1>2, <2>2, <3>1
  <2>6. InsertEntry(i, h, v)
    <3> HIDE DEF i
    <3> QED BY <1>5, <1>8, <1>9, <1>12, <2>3
  <2>7. /\ Agrees(slots', lgCur', theta', numRetained', ResizeOrRebuild(w))
        /\ panicked' = panicked
    <3> HIDE DEF i
    <3> QED BY <1>2, <2>2, <2>4, <2>5, <2>6, InsertStep
  <2>8. ResizeOrRebuild(w).isEmpty = FALSE
    <3>1. SizeOK(LgK) /\ LgResize \in 0 .. 3
      BY OwnSizeOK
    <3>2. Prunes(LgK, LgResize, w, ResizeOrRebuild(w))
      BY <2>2, <2>5, <3>1, ResizeOrRebuildPrunes
    <3> QED BY <2>2, <3>2 DEF Prunes, TableShape
  <2> QED BY <1>2, <1>5, <2>1, <2>7, <2>8
<1> QED BY <1>10, <1>11, <1>12

(* A new table, and one that reset has emptied. *)
LEMMA NewSlots ==
  ASSUME NEW t, t = NewTable(LgK, LgResize, Sampling),
         NEW lg, lg = StartingSubMultiple(LgK + 1, MinLgK, LgResize)
  PROVE  /\ Agrees(FreeSlots(lg), lg, StartingTheta(Sampling), 0, t)
         /\ t.isEmpty = TRUE
<1>1. /\ TableOK(t) /\ Retained(t) = {} /\ t.theta = StartingTheta(Sampling)
      /\ t.isEmpty = TRUE
  BY NewTableOK
<1>2. t.lgCur = lg
  BY DEF NewTable, FromRawParts
<1>3. lg \in Lgs
  <2>1. lg \in 0 .. LgK + 1 /\ MinLgK <= lg
    BY <1>1, <1>2 DEF TableOK, TableShape
  <2> QED BY <2>1 DEF Lgs
<1>4. Matches(FreeSlots(lg), lg, t)
  <2>1. EntriesOf(t) = {}
    BY <1>1 DEF EntriesOf
  <2> QED BY <1>3, <2>1, FreeSlotsSited DEF Matches
<1>5. NumRetained(t) = 0 /\ 0 <= Capacity(lg)
  BY <1>1, <1>3, CapacityFacts, FS_EmptySet DEF NumRetained
<1>6. lg <= LgK => LgResize # 0
  <2>1. LgResize = 0 => lg = LgK + 1
    BY DEF StartingSubMultiple
  <2> QED BY <2>1
<1> QED BY <1>1, <1>2, <1>4, <1>5, <1>6 DEF Agrees

LEMMA InitSlots == SlotInit => SlotInv
<1> SUFFICES ASSUME SlotInit PROVE SlotInv
  OBVIOUS
<1>1. IInv
  BY InitSound DEF SlotInit
<1>2. /\ table = NewTable(LgK, LgResize, Sampling)
      /\ lgCur = StartingSubMultiple(LgK + 1, MinLgK, LgResize)
      /\ slots = FreeSlots(lgCur) /\ theta = StartingTheta(Sampling)
      /\ isEmpty = TRUE /\ numRetained = 0 /\ panicked = FALSE
  BY DEF SlotInit, Init
<1> QED BY <1>1, <1>2, NewSlots DEF SlotInv

LEMMA StepSlots == SlotInv /\ [SlotNext]_<<vars, slotVars>> => SlotInv'
<1> SUFFICES ASSUME SlotInv, [SlotNext]_<<vars, slotVars>> PROVE SlotInv'
  OBVIOUS
<1>0. /\ IInv /\ Agrees(slots, lgCur, theta, numRetained, table)
      /\ isEmpty = table.isEmpty /\ panicked = FALSE
  BY DEF SlotInv
<1>1. IInv'
  <2>1. [Next]_vars
    BY DEF SlotNext, UpdateSlots, TrimSlots, ResetSlots, Next
  <2> QED BY <1>0, <2>1, StepSound
<1>2. ASSUME NEW h \in Hashes, NEW v \in Values, UpdateSlots(h, v) PROVE SlotInv'
  BY <1>1, <1>2, UpsertStep DEF SlotInv
<1>3. CASE TrimSlots
  <2>1. /\ table' = TrimTable(table) /\ isEmpty' = isEmpty
        /\ IF numRetained > 2 ^ LgK
           THEN RebuildSlots(slots)
           ELSE UNCHANGED <<slots, lgCur, theta, numRetained, panicked>>
    BY <1>3 DEF TrimSlots, Trim
  <2>2. /\ TableShape(table, LgK, LgResize) /\ table.lgNom = LgK
        /\ \A g \in Retained(table) : g < table.theta
    BY <1>0 DEF IInv, TypeOK, TableOK, TableShape, Sound
  <2>3. numRetained = NumRetained(table)
    BY <1>0 DEF Agrees
  <2>4. CASE numRetained > 2 ^ LgK
    <3>1. table' = Rebuild(table)
      BY <2>1, <2>2, <2>3, <2>4 DEF TrimTable
    <3>2. /\ Matches(slots, lgCur, table) /\ table.lgCur = lgCur
          /\ lgCur <= LgK => LgResize # 0
      BY <1>0 DEF Agrees
    <3>3. Cardinality(Occupied(slots)) > 2 ^ LgK /\ 2 ^ LgK <= Capacity(lgCur)
      <4>1. /\ numRetained = Cardinality(Occupied(slots)) /\ numRetained \in Nat
            /\ lgCur \in Lgs
        BY SlotThresholdIs
      <4>2. numRetained <= Capacity(lgCur)
        BY <1>0 DEF Agrees
      <4>3. 2 ^ LgK \in Nat /\ Capacity(lgCur) \in Nat
        BY <4>1, CapacityFacts, PowersOfTwo
      <4> QED BY <2>4, <4>1, <4>2, <4>3
    <3>4. RebuildSlots(slots)
      BY <2>1, <2>4
    <3>5. /\ Agrees(slots', lgCur', theta', numRetained', Rebuild(table))
          /\ panicked' = panicked
      BY <2>2, <3>2, <3>3, <3>4, RebuildStep
    <3>6. Rebuild(table).isEmpty = table.isEmpty
      <4>1. SizeOK(LgK) /\ LgResize \in 0 .. 3 /\ NumRetained(table) > 2 ^ LgK
        BY <2>3, <2>4, OwnSizeOK
      <4> QED BY <2>2, <4>1, RebuildPrunes DEF Prunes
    <3> QED BY <1>0, <1>1, <2>1, <3>1, <3>5, <3>6 DEF SlotInv
  <2>5. CASE ~(numRetained > 2 ^ LgK)
    <3>1. table' = table
      BY <2>1, <2>2, <2>3, <2>5 DEF TrimTable
    <3>2. /\ slots' = slots /\ lgCur' = lgCur /\ theta' = theta
          /\ numRetained' = numRetained /\ panicked' = panicked
      BY <2>1, <2>5
    <3> QED BY <1>0, <1>1, <2>1, <3>1, <3>2 DEF SlotInv
  <2> QED BY <2>4, <2>5
<1>4. CASE ResetSlots
  <2>1. table' = NewTable(LgK, LgResize, Sampling)
    BY <1>0, <1>4 DEF ResetSlots, Reset, ResetTable, IInv, TypeOK, TableOK, TableShape
  <2>2. /\ lgCur' = StartingSubMultiple(LgK + 1, MinLgK, LgResize)
        /\ slots' = FreeSlots(lgCur') /\ theta' = StartingTheta(Sampling)
        /\ isEmpty' = TRUE /\ numRetained' = 0 /\ panicked' = panicked
    BY <1>4 DEF ResetSlots
  <2> QED BY <1>0, <1>1, <2>1, <2>2, NewSlots DEF SlotInv
<1>5. CASE UNCHANGED <<vars, slotVars>>
  <2>1. /\ slots' = slots /\ lgCur' = lgCur /\ theta' = theta /\ isEmpty' = isEmpty
        /\ numRetained' = numRetained /\ panicked' = panicked /\ table' = table
    BY <1>5 DEF vars, slotVars
  <2> QED BY <1>0, <1>1, <2>1 DEF SlotInv
<1> QED BY <1>2, <1>3, <1>4, <1>5 DEF SlotNext

LEMMA SlotInvariance == SlotSpec => []SlotInv
BY InitSlots, StepSlots, PTL DEF SlotSpec

LEMMA SlotInvFindable == SlotInv => EntriesFindable
<1> SUFFICES ASSUME SlotInv PROVE EntriesFindable
  OBVIOUS
<1>1. /\ lgCur \in Lgs /\ slots \in SlotsOf(lgCur) /\ Sited(slots, lgCur)
      /\ numRetained \in Nat /\ numRetained = Cardinality(Occupied(slots))
      /\ numRetained < 2 ^ lgCur
  BY SlotThresholdIs
<1>2. \A i \in Occupied(slots) : FindInEntries(slots, slots[i].hash, lgCur) = i
  BY <1>1, SitedFound
<1>3. Occupied(slots) # DOMAIN slots
  <2>1. Cardinality(DOMAIN slots) = 2 ^ lgCur /\ 2 ^ lgCur \in Nat
    BY <1>1, SlotFacts, SizeFacts
  <2> QED BY <1>1, <2>1
<1> QED BY <1>1, <1>2, <1>3 DEF EntriesFindable, SlotInv

(* In the slot array every retained hash is found at its slot and at no    *)
(* other, the counter is right and a slot is free, so that no update, trim *)
(* or rebuild reaches an unreachable!, a failed assertion or an index out  *)
(* of bounds (find_in_entries, resize, rebuild).                           *)
THEOREM SlotsFindable == SlotSpec => []EntriesFindable
BY SlotInvariance, SlotInvFindable, PTL

-------------------------------------------------------------------------------
(* The refinement. *)

LEMMA SlotsAreTheTable == SlotInv => AbstractTable = table
<1> SUFFICES ASSUME SlotInv PROVE AbstractTable = table
  OBVIOUS
<1>1. /\ TableShape(table, LgK, LgResize) /\ Matches(slots, lgCur, table)
      /\ lgCur = table.lgCur /\ theta = table.theta /\ isEmpty = table.isEmpty
  BY DEF SlotInv, Agrees, IInv, TypeOK, TableOK
<1> DEFINE R == Retained(table)
           E == EntrySet(slots)
           es == [h \in {e.hash : e \in E} |-> (CHOOSE e \in E : e.hash = h).summary]
<1>2. E = EntriesOf(table) /\ {e.hash : e \in E} = R
  <2>1. Held(slots) = R
    BY <1>1, MatchFacts
  <2> QED BY <1>1, <2>1 DEF Matches, Held
<1>3. ASSUME NEW h \in R PROVE es[h] = table.entries[h]
  <2> DEFINE c == CHOOSE e \in E : e.hash = h
  <2>1. \E e \in E : e.hash = h
    <3>1. [hash |-> h, summary |-> table.entries[h]] \in E
      BY <1>2 DEF EntriesOf
    <3> QED BY <3>1
  <2>2. c \in E /\ c.hash = h
    BY <2>1
  <2> HIDE DEF c
  <2>3. c.summary = table.entries[h]
    BY <1>2, <2>2 DEF EntriesOf
  <2>4. es[h] = c.summary
    BY <1>2 DEF c
  <2> QED BY <2>3, <2>4
<1>4. es = table.entries
  <2>1. table.entries \in [R -> Nat] /\ DOMAIN table.entries = R
    BY <1>1 DEF TableShape
  <2>2. es = [h \in R |-> es[h]]
    BY <1>2
  <2> HIDE DEF es
  <2> QED BY <1>3, <2>1, <2>2
<1>5. AbstractTable = [entries |-> es, theta |-> theta, isEmpty |-> isEmpty,
                       lgCur |-> lgCur, lgNom |-> LgK, lgResize |-> LgResize]
  BY DEF AbstractTable
<1> HIDE DEF es
<1> QED BY <1>1, <1>4, <1>5 DEF TableShape

(* The instance's operators are the module's own. *)
LEMMA SameOperators ==
  /\ \A n, r, p : Abstract!NewTable(n, r, p) = NewTable(n, r, p)
  /\ \A t, h, c, m : Abstract!UpsertEntry(t, h, c, m) = UpsertEntry(t, h, c, m)
  /\ \A t : Abstract!TrimTable(t) = TrimTable(t)
  /\ \A t, p : Abstract!ResetTable(t, p) = ResetTable(t, p)
<1>1. \A n, r, p : Abstract!NewTable(n, r, p) = NewTable(n, r, p)
  BY Zenon DEF Abstract!NewTable, NewTable, Abstract!FromRawParts, FromRawParts,
     Abstract!StartingSubMultiple, StartingSubMultiple, Abstract!StartingTheta,
     StartingTheta, Abstract!Unit, Unit
<1>c. \A S : Abstract!Cardinality(S) = Cardinality(S)
  BY DEF Abstract!Cardinality, Cardinality
<1>2. \A t : Abstract!Rebuild(t) = Rebuild(t)
  <2>1. \A S, k : Abstract!KthHash(S, k) = KthHash(S, k)
    BY <1>c, Zenon DEF Abstract!KthHash, KthHash
  <2> QED BY <2>1, Zenon DEF Abstract!Rebuild, Rebuild,
             Abstract!Retained, Retained, Abstract!Below, Below
<1>3. \A t, h, s : Abstract!WithEntry(t, h, s) = WithEntry(t, h, s)
  BY Zenon DEF Abstract!WithEntry, WithEntry
<1>4. \A t : Abstract!NumRetained(t) = NumRetained(t) /\ Abstract!Retained(t) = Retained(t)
  BY <1>c, Zenon DEF Abstract!NumRetained, NumRetained, Abstract!Retained, Retained
<1>5. \A t : Abstract!ResizeOrRebuild(t) = ResizeOrRebuild(t)
  BY <1>2, <1>4, Zenon DEF Abstract!ResizeOrRebuild, ResizeOrRebuild,
     Abstract!CapacityThreshold, CapacityThreshold, Abstract!SlotCount, SlotCount,
     Abstract!Resize, Resize
<1>6. \A t, h, c, m : Abstract!UpsertEntry(t, h, c, m) = UpsertEntry(t, h, c, m)
  BY <1>3, <1>4, <1>5, Zenon DEF Abstract!UpsertEntry, UpsertEntry,
     Abstract!Screened, Screened
<1>7. \A t : Abstract!TrimTable(t) = TrimTable(t)
  BY <1>2, <1>4, Zenon DEF Abstract!TrimTable, TrimTable
<1>8. \A t, p : Abstract!ResetTable(t, p) = ResetTable(t, p)
  BY <1>1, Zenon DEF Abstract!ResetTable, ResetTable
<1> QED BY <1>1, <1>6, <1>7, <1>8

(* The slots' own initial state is the abstract one. *)
LEMMA InitRefines == SlotInit => Abstract!Init
<1> SUFFICES ASSUME SlotInit PROVE Abstract!Init
  OBVIOUS
<1>1. AbstractTable = table /\ Init
  BY InitSlots, SlotsAreTheTable DEF SlotInit
<1> HIDE DEF AbstractTable
<1> QED BY <1>1, SameOperators DEF Init, Abstract!Init

(* Every step of the slot array is a step of the sketch, or none. *)
LEMMA StepRefines ==
  SlotInv /\ SlotInv' /\ [SlotNext]_<<vars, slotVars>> => [Abstract!Next]_(Abstract!vars)
<1> SUFFICES ASSUME SlotInv, SlotInv', [SlotNext]_<<vars, slotVars>>
             PROVE  [Abstract!Next]_(Abstract!vars)
  OBVIOUS
<1>1. AbstractTable = table /\ AbstractTable' = table'
  <2>1. AbstractTable = table
    BY SlotsAreTheTable
  <2>2. (SlotInv => AbstractTable = table)'
    BY SlotsAreTheTable, PTL
  <2> QED BY <2>1, <2>2
<1>2. ASSUME NEW h \in Hashes, NEW v \in Values, Update(h, v) PROVE Abstract!Next
  <2>1. Abstract!Update(h, v)
    BY <1>1, <1>2, SameOperators DEF Update, Abstract!Update, Create, Abstract!Create
  <2> QED BY <2>1 DEF Abstract!Next
<1>3. CASE Trim
  <2>1. Abstract!Trim
    BY <1>1, <1>3, SameOperators DEF Trim, Abstract!Trim
  <2> QED BY <2>1 DEF Abstract!Next
<1>4. CASE Reset
  <2>1. Abstract!Reset
    BY <1>1, <1>4, SameOperators DEF Reset, Abstract!Reset
  <2> QED BY <2>1 DEF Abstract!Next
<1>5. CASE UNCHANGED vars
  BY <1>1, <1>5 DEF vars, Abstract!vars
<1> QED BY <1>2, <1>3, <1>4, <1>5 DEF SlotNext, UpdateSlots, TrimSlots, ResetSlots

(* The slot array implements the set-level sketch, and makes the very      *)
(* steps of the table beside it: find_in_entries, resize and rebuild       *)
(* neither lose nor duplicate a hash or an update.                         *)
THEOREM SlotsImplementSketch == SlotSpec => ImplementsTupleSketch
<1>1. SlotInit => Abstract!Init
  BY InitRefines
<1>2. SlotInv /\ SlotInv' /\ [SlotNext]_<<vars, slotVars>> => [Abstract!Next]_(Abstract!vars)
  BY StepRefines
<1>3. SlotInv => AbstractTable = table
  BY SlotsAreTheTable
<1> QED BY <1>1, <1>2, <1>3, SlotInvariance, PTL
        DEF SlotSpec, ImplementsTupleSketch, Abstract!Spec
===============================================================================
