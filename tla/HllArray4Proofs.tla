---------------------------- MODULE HllArray4Proofs ----------------------------
(***************************************************************************)
(* The 4-bit array computes maxima, its counters are exact and it never    *)
(* panics, for every number of registers, every largest value and every    *)
(* nibble width of at least two.  The inductive invariant says what the    *)
(* nibbles and the map store; the counter is tied to the nibbles at 0,     *)
(* which is the form in which both update and shift maintain it.           *)
(*                                                                         *)
(* The hash table of HllAuxMap is that map, for every initial size: each   *)
(* exception is where the walk for its slot ends (Filed), which storing an *)
(* entry, growing and rebuilding maintain while the table has a free slot. *)
(***************************************************************************)
EXTENDS HllAuxMap, NatSets

AtZero == {s \in Slots : raw[s] = 0}

Stored ==
  /\ DOMAIN aux = Exceptions
  /\ \A s \in DOMAIN aux : aux[s] - cur_min >= AuxToken

Counted == num_at_cur_min = Cardinality(AtZero)

IInv == TypeOK /\ Stored /\ RegistersExact /\ Counted

-------------------------------------------------------------------------------

LEMMA SlotsFinite ==
  ASSUME NEW S \in SUBSET Slots
  PROVE  /\ IsFiniteSet(S) /\ Cardinality(S) \in 0 .. K
         /\ Cardinality(S) = 0 <=> S = {}
<1>1. 0 \in Int /\ K - 1 \in Int /\ K \in Nat
  BY SizeAssumption
<1>2. IsFiniteSet(Slots) /\ Cardinality(Slots) = K
  BY <1>1, FS_Interval, SizeAssumption DEF Slots
<1>3. IsFiniteSet(S) /\ Cardinality(S) <= Cardinality(Slots)
  BY <1>2, FS_Subset
<1>4. Cardinality(S) \in Nat /\ (Cardinality(S) = 0 <=> S = {})
  BY <1>3, FS_CardinalityType, FS_EmptySet
<1> QED BY <1>1, <1>2, <1>3, <1>4

(* A register is at cur_min exactly when its nibble is 0.                  *)
LEMMA ValueOf ==
  ASSUME TypeOK, Stored, RegistersExact, NEW s \in Slots
  PROVE  /\ raw[s] \in 0 .. AuxToken /\ cur_min \in Nat /\ best[s] \in Nat
         /\ raw[s] # AuxToken => best[s] = cur_min + raw[s] /\ s \notin DOMAIN aux
         /\ raw[s] = AuxToken => s \in DOMAIN aux /\ best[s] = aux[s]
                                   /\ aux[s] >= cur_min + AuxToken
         /\ raw[s] = 0 <=> best[s] = cur_min
         /\ best[s] >= cur_min
         /\ Get(s) = best[s]
<1>1. raw[s] \in 0 .. AuxToken /\ cur_min \in Nat /\ best[s] \in Nat
  BY TokenAssumption, SizeAssumption DEF TypeOK
<1>2. Get(s) = best[s]
  BY DEF RegistersExact
<1>3. CASE raw[s] = AuxToken
  <2>1. s \in DOMAIN aux
    BY <1>3 DEF Stored, Exceptions
  <2>2. aux[s] \in Nat /\ aux[s] - cur_min >= AuxToken
    BY <2>1 DEF Stored, TypeOK, Values
  <2>3. best[s] = aux[s]
    BY <1>2, <1>3, <2>1, TokenAssumption DEF Get
  <2> QED BY <1>1, <1>2, <1>3, <2>1, <2>2, <2>3, TokenAssumption
<1>4. CASE raw[s] # AuxToken
  <2>1. s \notin DOMAIN aux
    BY <1>4 DEF Stored, Exceptions
  <2>2. raw[s] < AuxToken
    BY <1>1, <1>4, TokenAssumption
  <2>3. best[s] = cur_min + raw[s]
    BY <1>2, <2>2 DEF Get
  <2> QED BY <1>1, <1>2, <1>4, <2>1, <2>2, <2>3
<1> QED BY <1>3, <1>4

LEMMA IInvGives ==
  ASSUME IInv
  PROVE  CountersExact /\ NoPanic
<1> USE DEF IInv
<1>1. \A s \in Slots : /\ best[s] >= cur_min
                       /\ raw[s] = 0 <=> best[s] = cur_min
  BY ValueOf
<1>2. AtZero = {s \in Slots : best[s] = cur_min}
  BY <1>1 DEF AtZero
<1>3. CountersExact
  BY <1>1, <1>2 DEF CountersExact, Counted
<1>4. AtZero \in SUBSET Slots
  BY DEF AtZero
<1>5. Shifting => AtZero = {}
  BY <1>4, SlotsFinite DEF Counted, Shifting
<1>6. NoPanic
  BY <1>5 DEF NoPanic, Stored, AtZero
<1> QED BY <1>3, <1>6

-------------------------------------------------------------------------------

LEMMA InitOK == Init => IInv
<1> SUFFICES ASSUME Init PROVE IInv
  OBVIOUS
<1> USE DEF Init
<1>1. AtZero = Slots
  BY DEF AtZero
<1>2. Cardinality(Slots) = K
  BY SizeAssumption, FS_Interval DEF Slots
<1>3. Counted
  BY <1>1, <1>2 DEF Counted
<1>4. DOMAIN aux = {}
  OBVIOUS
<1>5. TypeOK
  BY <1>4, SizeAssumption, TokenAssumption DEF TypeOK
<1>6. Exceptions = {}
  BY TokenAssumption DEF Exceptions
<1>7. Stored
  BY <1>4, <1>6 DEF Stored
<1>8. RegistersExact
  BY TokenAssumption DEF RegistersExact, Get
<1> QED BY <1>3, <1>5, <1>7, <1>8 DEF IInv

(* An update the early returns drop offers nothing new.                    *)
LEMMA IgnoredOK ==
  ASSUME IInv, NEW s \in Slots, NEW v \in Values, UpdateIgnored(s, v)
  PROVE  IInv'
<1> USE DEF IInv
<1>1. /\ best[s] \in 0 .. MaxValue /\ v \in Nat
      /\ best' = [best EXCEPT ![s] = IF v > best[s] THEN v ELSE best[s]]
      /\ UNCHANGED <<raw, cur_min, num_at_cur_min, aux>>
  BY DEF TypeOK, Values, UpdateIgnored, Offer
<1>2. v <= best[s]
  <2>1. CASE v <= cur_min
    BY <1>1, <2>1, ValueOf
  <2>2. CASE v <= raw[s] + cur_min
    <3>1. raw[s] + cur_min <= best[s]
      BY ValueOf, TokenAssumption
    <3>2. raw[s] \in Nat /\ cur_min \in Nat /\ best[s] \in Nat
      BY ValueOf, TokenAssumption
    <3> QED BY <1>1, <2>2, <3>1, <3>2
  <2>3. CASE v <= Get(s)
    BY <1>1, <2>3, ValueOf
  <2> QED BY <2>1, <2>2, <2>3 DEF UpdateIgnored, Rejected
<1>3. best' = best
  <2>1. ~(v > best[s])
    BY <1>1, <1>2
  <2> QED BY <1>1, <2>1 DEF TypeOK
<1>4. TypeOK'
  BY <1>1, <1>3 DEF TypeOK
<1>5. Stored' /\ Counted'
  BY <1>1 DEF Stored, Counted, Exceptions, AtZero
<1>6. RegistersExact'
  BY <1>1, <1>3 DEF RegistersExact, Get
<1> QED BY <1>4, <1>5, <1>6

(* What the three ways of storing a larger value have in common.           *)
LEMMA RaisedStores ==
  ASSUME IInv, NEW s \in Slots, NEW v \in Values, UpdateRaised(s, v)
  PROVE  /\ v \in Nat /\ v <= MaxValue /\ v > best[s] /\ v > cur_min
         /\ cur_min' = cur_min /\ best' = [best EXCEPT ![s] = v]
         /\ raw' \in [Slots -> 0 .. AuxToken]
         /\ \A t \in Slots \ {s} : raw'[t] = raw[t]
         /\ raw'[s] # 0
         /\ raw'[s] # AuxToken => /\ raw'[s] = v - cur_min
                                  /\ s \notin DOMAIN aux /\ aux' = aux
         /\ raw'[s] = AuxToken => /\ v - cur_min >= AuxToken
                                  /\ DOMAIN aux' = DOMAIN aux \cup {s}
                                  /\ aux'[s] = v
                                  /\ \A t \in DOMAIN aux \ {s} : aux'[t] = aux[t]
<1> USE DEF IInv
<1>1. /\ v \in Nat /\ v <= MaxValue /\ cur_min \in Nat /\ best[s] \in Nat
      /\ raw[s] \in 0 .. AuxToken /\ cur_min' = cur_min
      /\ raw \in [Slots -> 0 .. AuxToken] /\ AuxToken \in Nat /\ AuxToken >= 2
  BY ValueOf, SizeAssumption, TokenAssumption DEF Values, UpdateRaised, TypeOK
<1>2. ~(v <= cur_min) /\ ~(v <= Get(s))
  BY DEF UpdateRaised, Rejected
<1>3. v > best[s] /\ v > cur_min
  BY <1>1, <1>2, ValueOf
<1>4. best' = [best EXCEPT ![s] = v]
  BY <1>3 DEF UpdateRaised, Offer
<1>5. CASE ReplaceException(s, v)
  <2>1. raw' = raw /\ raw[s] = AuxToken /\ v - cur_min >= AuxToken
        /\ aux' = [aux EXCEPT ![s] = v]
    BY <1>5 DEF ReplaceException, Shifted
  <2>2. s \in DOMAIN aux
    BY <2>1, ValueOf
  <2>3. /\ DOMAIN aux' = DOMAIN aux \cup {s} /\ aux'[s] = v
        /\ \A t \in DOMAIN aux \ {s} : aux'[t] = aux[t]
    BY <2>1, <2>2
  <2> QED BY <1>1, <1>3, <1>4, <2>1, <2>3
<1>6. CASE AddException(s, v)
  <2>1. /\ raw' = [raw EXCEPT ![s] = AuxToken] /\ v - cur_min >= AuxToken
        /\ aux' = [t \in DOMAIN aux \cup {s} |-> IF t = s THEN v ELSE aux[t]]
    BY <1>6 DEF AddException, Shifted
  <2>2. /\ DOMAIN aux' = DOMAIN aux \cup {s} /\ aux'[s] = v
        /\ \A t \in DOMAIN aux \ {s} : aux'[t] = aux[t]
    BY <2>1
  <2>3. /\ raw' \in [Slots -> 0 .. AuxToken] /\ raw'[s] = AuxToken
        /\ \A t \in Slots \ {s} : raw'[t] = raw[t]
    BY <1>1, <2>1
  <2> QED BY <1>1, <1>3, <1>4, <2>1, <2>2, <2>3
<1>7. CASE PutRaw(s, v)
  <2>1. /\ raw' = [raw EXCEPT ![s] = v - cur_min] /\ v - cur_min < AuxToken
        /\ aux' = aux /\ raw[s] # AuxToken
    BY <1>7 DEF PutRaw, Shifted
  <2>2. s \notin DOMAIN aux
    BY <2>1, ValueOf
  <2>3. v - cur_min \in 0 .. AuxToken /\ v - cur_min # 0 /\ v - cur_min # AuxToken
    BY <1>1, <1>3, <2>1
  <2>4. /\ raw' \in [Slots -> 0 .. AuxToken] /\ raw'[s] = v - cur_min
        /\ \A t \in Slots \ {s} : raw'[t] = raw[t]
    BY <1>1, <2>1, <2>3
  <2> QED BY <1>1, <1>3, <1>4, <2>1, <2>2, <2>3, <2>4
<1> QED BY <1>5, <1>6, <1>7 DEF UpdateRaised

LEMMA RaisedOK ==
  ASSUME IInv, NEW s \in Slots, NEW v \in Values, UpdateRaised(s, v)
  PROVE  IInv'
<1>0. /\ TypeOK /\ Stored /\ RegistersExact /\ Counted
      /\ AuxToken \in Nat /\ AuxToken >= 2
  BY TokenAssumption DEF IInv
<1>1. Stored'
  <2>1. ASSUME NEW t \in Slots
        PROVE  raw'[t] = AuxToken <=> t \in DOMAIN aux'
    <3>1. raw[t] = AuxToken <=> t \in DOMAIN aux
      BY <1>0 DEF Stored, Exceptions
    <3>2. CASE t = s
      BY <3>2, RaisedStores
    <3>3. CASE t # s
      BY <3>1, <3>3, RaisedStores
    <3> QED BY <3>2, <3>3
  <2>2. DOMAIN aux' \subseteq Slots
    BY <1>0, RaisedStores DEF TypeOK
  <2>3. ASSUME NEW t \in DOMAIN aux' PROVE aux'[t] - cur_min' >= AuxToken
    <3>1. cur_min' = cur_min
      BY RaisedStores
    <3>2. CASE t = s /\ raw'[s] = AuxToken
      BY <3>1, <3>2, RaisedStores
    <3>3. CASE t # s \/ raw'[s] # AuxToken
      <4>1. t \in DOMAIN aux /\ aux'[t] = aux[t]
        BY <2>3, <3>3, RaisedStores
      <4> QED BY <1>0, <3>1, <4>1 DEF Stored
    <3> QED BY <3>2, <3>3
  <2> QED BY <2>1, <2>2, <2>3 DEF Stored, Exceptions
<1>2. RegistersExact'
  <2>1. ASSUME NEW t \in Slots PROVE Get(t)' = best'[t]
    <3>1. Get(t) = best[t]
      BY <1>0 DEF RegistersExact
    <3>2. cur_min' = cur_min /\ cur_min \in Nat /\ best \in [Slots -> 0 .. MaxValue]
      BY <1>0, RaisedStores, ValueOf DEF TypeOK
    <3>3. CASE t = s
      <4>1. best'[t] = v /\ v \in Nat
        <5>1. best' = [best EXCEPT ![s] = v] /\ v \in Nat
          BY RaisedStores
        <5> QED BY <3>2, <3>3, <5>1
      <4>2. CASE raw'[s] = AuxToken
        <5>1. s \in DOMAIN aux' /\ aux'[s] = v
          BY <4>2, RaisedStores
        <5> QED BY <1>0, <3>3, <4>1, <4>2, <5>1 DEF Get
      <4>3. CASE raw'[s] # AuxToken
        <5>1. raw'[s] = v - cur_min /\ raw'[s] \in 0 .. AuxToken
          BY <4>3, RaisedStores
        <5>2. raw'[s] < AuxToken
          BY <1>0, <4>3, <5>1
        <5> QED BY <3>2, <3>3, <4>1, <5>1, <5>2 DEF Get
      <4> QED BY <4>2, <4>3
    <3>4. CASE t # s
      <4>1. best'[t] = best[t] /\ raw'[t] = raw[t]
        BY <3>2, <3>4, RaisedStores
      <4>2. t \in DOMAIN aux' <=> t \in DOMAIN aux
        BY <3>4, RaisedStores
      <4>3. t \in DOMAIN aux => aux'[t] = aux[t]
        BY <3>4, RaisedStores
      <4> QED BY <3>1, <3>2, <4>1, <4>2, <4>3 DEF Get
    <3> QED BY <3>3, <3>4
  <2> QED BY <2>1 DEF RegistersExact
<1>3. AtZero' = AtZero \ {s}
  <2>1. \A t \in Slots : raw'[t] = 0 <=> t # s /\ raw[t] = 0
    BY RaisedStores
  <2> QED BY <2>1 DEF AtZero
<1>4. Counted' /\ num_at_cur_min' \in 0 .. K
  <2>1. AtZero \in SUBSET Slots /\ AtZero \ {s} \in SUBSET Slots
    BY DEF AtZero
  <2>2. IsFiniteSet(AtZero) /\ Cardinality(AtZero \ {s}) \in 0 .. K
    BY <2>1, SlotsFinite
  <2>3. Cardinality(AtZero \ {s}) =
          IF s \in AtZero THEN Cardinality(AtZero) - 1 ELSE Cardinality(AtZero)
    BY <2>2, FS_RemoveElement
  <2>4. s \in AtZero <=> Get(s) = cur_min
    BY <1>0, ValueOf DEF AtZero
  <2>5. num_at_cur_min' = Cardinality(AtZero \ {s})
    BY <1>0, <2>3, <2>4 DEF UpdateRaised, Counted
  <2> QED BY <1>3, <2>2, <2>5 DEF Counted
<1>5. TypeOK'
  <2>1. DOMAIN aux' \subseteq Slots
    BY <1>0, RaisedStores DEF TypeOK
  <2>2. ASSUME NEW t \in DOMAIN aux' PROVE aux'[t] \in Values
    <3>1. CASE t = s /\ raw'[s] = AuxToken
      BY <3>1, RaisedStores
    <3>2. CASE t # s \/ raw'[s] # AuxToken
      <4>1. t \in DOMAIN aux /\ aux'[t] = aux[t]
        BY <2>2, <3>2, RaisedStores
      <4> QED BY <1>0, <4>1 DEF TypeOK
    <3> QED BY <3>1, <3>2
  <2>3. best' \in [Slots -> 0 .. MaxValue]
    <3>1. v \in 0 .. MaxValue
      BY SizeAssumption DEF Values
    <3>2. best' = [best EXCEPT ![s] = v]
      BY RaisedStores
    <3> QED BY <1>0, <3>1, <3>2 DEF TypeOK
  <2>4. cur_min' \in 0 .. MaxValue /\ raw' \in [Slots -> 0 .. AuxToken]
    BY <1>0, RaisedStores DEF TypeOK
  <2> QED BY <1>4, <2>1, <2>2, <2>3, <2>4 DEF TypeOK
<1> QED BY <1>1, <1>2, <1>4, <1>5 DEF IInv

(* A round of the loop keeps every register's value: the least register is *)
(* above cur_min, so each nibble can be lowered, and an exception that     *)
(* returns lands on AuxToken - 1, which is not the new minimum.            *)
LEMMA ShiftOK ==
  ASSUME IInv, Shift
  PROVE  IInv'
<1>0. /\ TypeOK /\ Stored /\ RegistersExact /\ Counted /\ NoPanic
      /\ AuxToken \in Nat /\ AuxToken >= 2 /\ cur_min \in Nat
      /\ cur_min' = cur_min + 1 /\ best' = best
  BY TokenAssumption, SizeAssumption, IInvGives DEF IInv, Shift, TypeOK
<1>1. /\ DOMAIN aux' = {t \in DOMAIN aux : ~Returns(t)}
      /\ \A t \in DOMAIN aux' : aux'[t] = aux[t]
  BY DEF Shift
<1>2. ASSUME NEW s \in Slots
      PROVE  /\ raw[s] # AuxToken => /\ raw'[s] = raw[s] - 1
                                     /\ raw[s] \in 1 .. AuxToken - 1
             /\ raw[s] = AuxToken /\ Returns(s) =>
                  /\ raw'[s] = aux[s] - (cur_min + 1)
                  /\ raw'[s] = AuxToken - 1
             /\ raw[s] = AuxToken /\ ~Returns(s) =>
                  /\ raw'[s] = AuxToken /\ aux[s] - (cur_min + 1) >= AuxToken
             /\ aux[s] \in Nat \/ s \notin DOMAIN aux
             /\ s \in DOMAIN aux <=> raw[s] = AuxToken
  <2>1. raw[s] # 0 /\ raw[s] \in 0 .. AuxToken
    BY <1>0, ValueOf DEF NoPanic, Shift
  <2>2. s \in DOMAIN aux <=> raw[s] = AuxToken
    BY <1>0 DEF Stored, Exceptions
  <2>3. s \in DOMAIN aux => aux[s] \in Nat /\ aux[s] - cur_min >= AuxToken
    BY <1>0 DEF Stored, TypeOK, Values
  <2>4. raw'[s] = IF raw[s] < AuxToken THEN raw[s] - 1
                  ELSE IF Returns(s) THEN aux[s] - (cur_min + 1) ELSE AuxToken
    BY DEF Shift
  <2>5. CASE raw[s] # AuxToken
    <3>1. raw[s] < AuxToken
      BY <1>0, <2>1, <2>5
    <3> QED BY <1>0, <2>1, <2>2, <2>4, <2>5, <3>1
  <2>6. CASE raw[s] = AuxToken
    <3>1. Returns(s) <=> aux[s] - (cur_min + 1) < AuxToken
      BY <2>2, <2>6 DEF Returns
    <3>2. aux[s] \in Nat /\ aux[s] - cur_min >= AuxToken
      BY <2>2, <2>3, <2>6
    <3>3. raw'[s] = IF Returns(s) THEN aux[s] - (cur_min + 1) ELSE AuxToken
      BY <1>0, <2>4, <2>6
    <3> QED BY <1>0, <2>2, <2>6, <3>1, <3>2, <3>3
  <2> QED BY <2>5, <2>6
<1>3. raw' \in [Slots -> 0 .. AuxToken]
  <2>1. \A s \in Slots : raw'[s] \in 0 .. AuxToken
    BY <1>0, <1>2
  <2>2. DOMAIN raw' = Slots /\ raw' = [s \in Slots |-> raw'[s]]
    BY DEF Shift
  <2> QED BY <2>1, <2>2
<1>4. Stored'
  <2>1. ASSUME NEW s \in Slots
        PROVE  raw'[s] = AuxToken <=> s \in DOMAIN aux'
    BY <1>0, <1>1, <1>2
  <2>2. DOMAIN aux' \subseteq Slots
    BY <1>0, <1>1 DEF TypeOK
  <2>3. ASSUME NEW s \in DOMAIN aux' PROVE aux'[s] - cur_min' >= AuxToken
    <3>1. s \in Slots /\ s \in DOMAIN aux /\ ~Returns(s) /\ aux'[s] = aux[s]
      BY <1>1, <2>2, <2>3
    <3> QED BY <1>0, <1>2, <3>1
  <2> QED BY <2>1, <2>2, <2>3 DEF Stored, Exceptions
<1>5. RegistersExact'
  <2>1. ASSUME NEW s \in Slots PROVE Get(s)' = best'[s]
    <3>1. /\ raw[s] # AuxToken => best[s] = cur_min + raw[s]
          /\ raw[s] = AuxToken => best[s] = aux[s]
      BY <1>0, ValueOf
    <3>2. CASE raw[s] # AuxToken
      <4>1. raw'[s] < AuxToken /\ cur_min' + raw'[s] = cur_min + raw[s]
        BY <1>0, <1>2, <3>2
      <4> QED BY <1>0, <3>1, <3>2, <4>1 DEF Get
    <3>3. CASE raw[s] = AuxToken /\ Returns(s)
      <4>1. raw'[s] < AuxToken /\ cur_min' + raw'[s] = aux[s]
        BY <1>0, <1>2, <3>3
      <4> QED BY <1>0, <3>1, <3>3, <4>1 DEF Get
    <3>4. CASE raw[s] = AuxToken /\ ~Returns(s)
      <4>1. raw'[s] = AuxToken /\ s \in DOMAIN aux' /\ aux'[s] = aux[s]
        BY <1>1, <1>2, <3>4
      <4> QED BY <1>0, <3>1, <3>4, <4>1 DEF Get
    <3> QED BY <3>2, <3>3, <3>4
  <2> QED BY <2>1 DEF RegistersExact
<1>6. AtZero' = {s \in Slots : raw[s] = 1}
  <2>1. \A s \in Slots : raw'[s] = 0 <=> raw[s] = 1
    BY <1>0, <1>2
  <2> QED BY <2>1 DEF AtZero
<1>7. Counted' /\ num_at_cur_min' \in 0 .. K
  <2>1. {s \in Slots : raw[s] = 1} \in SUBSET Slots
    OBVIOUS
  <2>2. num_at_cur_min' = Cardinality({s \in Slots : raw[s] = 1})
    BY DEF Shift
  <2> QED BY <1>6, <2>1, <2>2, SlotsFinite DEF Counted
<1>8. cur_min' \in 0 .. MaxValue
  <2>1. 0 \in Slots
    BY SizeAssumption DEF Slots
  <2>2. raw[0] # 0 /\ best[0] \in 0 .. MaxValue
    BY <1>0, <2>1 DEF NoPanic, Shift, TypeOK
  <2>3. best[0] # cur_min /\ best[0] >= cur_min
    BY <1>0, <2>1, <2>2, ValueOf
  <2> QED BY <1>0, <2>2, <2>3, SizeAssumption
<1>9. TypeOK'
  <2>1. DOMAIN aux' \subseteq Slots /\ \A s \in DOMAIN aux' : aux'[s] \in Values
    BY <1>0, <1>1 DEF TypeOK
  <2> QED BY <1>0, <1>3, <1>7, <1>8, <2>1 DEF TypeOK
<1> QED BY <1>4, <1>5, <1>7, <1>9 DEF IInv

-------------------------------------------------------------------------------

LEMMA NextOK == IInv /\ [Next]_regVars => IInv'
<1> SUFFICES ASSUME IInv, [Next]_regVars PROVE IInv'
  OBVIOUS
<1>1. ASSUME NEW s \in Slots, NEW v \in Values, UpdateIgnored(s, v) PROVE IInv'
  BY <1>1, IgnoredOK
<1>2. ASSUME NEW s \in Slots, NEW v \in Values, UpdateRaised(s, v) PROVE IInv'
  BY <1>2, RaisedOK
<1>3. ASSUME Shift PROVE IInv'
  BY <1>3, ShiftOK
<1>4. ASSUME UNCHANGED regVars PROVE IInv'
  BY <1>4 DEF IInv, TypeOK, Stored, RegistersExact, Counted, Get, AtZero,
              Exceptions, regVars
<1> QED BY <1>1, <1>2, <1>3, <1>4 DEF Next

(* The nibbles, the minimum, its counter and the map of array4.rs:63-74    *)
(* stay as the code stores them: the inductive invariant.                  *)
THEOREM Array4Invariant == Spec => []IInv
BY InitOK, NextOK, PTL DEF Spec

(* Every register of the 4-bit array holds the largest value offered to it *)
(* (Array4::update and shift_to_bigger_cur_min, array4.rs:148-271).        *)
THEOREM Array4RegistersExact == Spec => []RegistersExact
<1>1. IInv => RegistersExact
  BY DEF IInv
<1> QED BY Array4Invariant, <1>1, PTL

(* num_at_cur_min is the number of registers at the least value cur_min,   *)
(* which is_empty and the estimators rely on (array4.rs:274-296, 308-310). *)
THEOREM Array4CountersExact == Spec => []CountersExact
BY Array4Invariant, IInvGives, PTL

(* No expect, unreachable!, assertion or u8 subtraction of update and      *)
(* shift_to_bigger_cur_min fails (array4.rs:163-251).                      *)
THEOREM Array4NoPanic == Spec => []NoPanic
BY Array4Invariant, IInvGives, PTL

-------------------------------------------------------------------------------
(***************************************************************************)
(* The auxiliary map as a hash table.                                      *)
(***************************************************************************)

Exception == [slot : Slots, value : Values]
Lgs == 0 .. LgAuxSize + K
EntriesOf(lg) == [0 .. 2 ^ lg - 1 -> Exception \cup {Empty}]

(* The table and its walks as NatSets sees them. *)
Vacant == -1
Hold(es, lg) ==
  [p \in 0 .. 2 ^ lg - 1 |-> IF es[p] = Empty THEN Vacant ELSE es[p].slot]
Route(lg) == [s \in Slots |-> [j \in 0 .. 2 ^ lg - 1 |-> Probe(s, lg, j)]]

IsMap(m) == DOMAIN m \in SUBSET Slots /\ m \in [DOMAIN m -> Values]
Entry(s, v) == [slot |-> s, value |-> v]
Pairs(m) == {[slot |-> s, value |-> m[s]] : s \in DOMAIN m}
Others(m, s) == {x \in Pairs(m) : x.slot # s}
With(m, s, v) == [x \in DOMAIN m \cup {s} |-> IF x = s THEN v ELSE m[x]]

(* The entries es hold the map m, each where the walk for its slot ends.   *)
Filed(es, lg, m) ==
  /\ es \in EntriesOf(lg)
  /\ EachEnds(2 ^ lg, Hold(es, lg), Vacant, Route(lg))
  /\ {es[p] : p \in 0 .. 2 ^ lg - 1} \ {Empty} = Pairs(m)

LEMMA ExceptionFacts ==
  \A e \in Exception :
    /\ e.slot \in Slots /\ e.value \in Values /\ e # Empty
    /\ e = [slot |-> e.slot, value |-> e.value]
<1>1. \A v \in Values : v # 0
  BY DEF Values
<1> QED BY <1>1 DEF Exception, Empty

LEMMA LgFacts ==
  ASSUME NEW lg \in Lgs
  PROVE  lg \in Nat /\ 2 ^ lg \in Nat \ {0} /\ Cancels(2 ^ lg)
<1>1. LgAuxSize + K \in Nat
  BY LgAuxAssumption, SizeAssumption
<1>2. \A n \in 0 .. LgAuxSize + K : Cancels(2 ^ n)
  BY <1>1, PowersOfTwoForExceptions, OddCancels
<1> QED BY <1>1, <1>2, PowersOfTwoForExceptions DEF Lgs

LEMMA StrideOdd ==
  ASSUME NEW lg \in Lgs, NEW s \in Slots
  PROVE  s \in Nat /\ Stride(s, lg) \in Odd /\ Stride(s, lg) \in Nat
<1>1. s \in Nat
  BY SizeAssumption DEF Slots
<1>2. PICK q \in Nat : q = s \div 2 ^ lg
  BY <1>1, LgFacts, ModFacts
<1>3. PICK b \in 0 .. 1, h \in Nat : b = q % 2 /\ q = 2 * h + b
  BY ModFacts
<1>4. Stride(s, lg) = IF b = 0 THEN q + 1 ELSE q
  BY <1>2, <1>3 DEF Stride
<1>5. Stride(s, lg) = 2 * h + 1
  BY <1>3, <1>4
<1> QED BY <1>1, <1>5 DEF Odd

LEMMA RouteFacts ==
  ASSUME NEW lg \in Lgs
  PROVE  /\ Route(lg) \in Routes(2 ^ lg, Slots)
         /\ \A s \in Slots, j \in 0 .. 2 ^ lg - 1 :
              Route(lg)[s][j] = Probe(s, lg, j) /\ Probe(s, lg, j) \in 0 .. 2 ^ lg - 1
<1> DEFINE N == 2 ^ lg
<1>1. N \in Nat \ {0} /\ Cancels(N)
  BY LgFacts
<1>2. ASSUME NEW s \in Slots, NEW j \in 0 .. N - 1 PROVE Probe(s, lg, j) \in 0 .. N - 1
  <2>1. s \in Nat /\ Stride(s, lg) \in Nat /\ j \in Nat
    BY <1>1, StrideOdd
  <2>2. s + j * Stride(s, lg) \in Nat
    BY <2>1
  <2> QED BY <1>1, <2>2, ModFacts DEF Probe
<1>3. ASSUME NEW s \in Slots, NEW p \in 0 .. N - 1
      PROVE  \E j \in 0 .. N - 1 : Probe(s, lg, j) = p
  <2> DEFINE d == Stride(s, lg)
  <2>1. s \in Nat /\ d \in Odd
    BY StrideOdd
  <2>2. \E j \in 0 .. N - 1 : (s + j * d) % N = p
    <3> HIDE DEF N, d
    <3> QED BY <1>1, <2>1, StepsCover
  <2> QED BY <2>2 DEF Probe
<1> HIDE DEF N
<1>4. \A s \in Slots, j \in 0 .. N - 1 : Route(lg)[s][j] = Probe(s, lg, j)
  BY DEF Route, N
<1>5. Route(lg) \in [Slots -> [0 .. N - 1 -> 0 .. N - 1]]
  BY <1>2 DEF Route, N
<1>6. Route(lg) \in Routes(N, Slots)
  BY <1>3, <1>4, <1>5 DEF Routes
<1> QED BY <1>2, <1>4, <1>6 DEF N

LEMMA HoldFacts ==
  ASSUME NEW lg \in Lgs, NEW es \in EntriesOf(lg)
  PROVE  /\ Hold(es, lg) \in [0 .. 2 ^ lg - 1 -> Slots \cup {Vacant}]
         /\ Vacant \notin Slots
         /\ \A p \in 0 .. 2 ^ lg - 1 :
              /\ es[p] \in Exception \cup {Empty}
              /\ Hold(es, lg)[p] = Vacant <=> es[p] = Empty
              /\ es[p] # Empty => Hold(es, lg)[p] = es[p].slot /\ es[p].slot \in Slots
<1>1. Vacant \notin Slots
  BY SizeAssumption DEF Vacant, Slots
<1>2. ASSUME NEW p \in 0 .. 2 ^ lg - 1
      PROVE  /\ es[p] \in Exception \cup {Empty}
             /\ es[p] # Empty => es[p].slot \in Slots
  BY ExceptionFacts DEF EntriesOf
<1> QED BY <1>1, <1>2 DEF Hold

-------------------------------------------------------------------------------
(* find ends where the walk does. *)
Ends(es, lg, s, j) == EndsAt(2 ^ lg, Hold(es, lg), Vacant, Route(lg), s, j)

LEMMA FindEnds ==
  ASSUME NEW lg \in Lgs, NEW es \in EntriesOf(lg), NEW s \in Slots, NEW j,
         Ends(es, lg, s, j)
  PROVE  Find(es, lg, s) = Probe(s, lg, j)
<1> DEFINE D == 0 .. 2 ^ lg - 1
           Halts(i) == es[Probe(s, lg, i)] = Empty \/ es[Probe(s, lg, i)].slot = s
           halts == {i \in D : Halts(i)}
<1>1. Find(es, lg, s) = IF halts = {} THEN Nowhere ELSE Probe(s, lg, Min(halts))
  BY Zenon DEF Find
<1>2. 2 ^ lg \in Nat \ {0}
  BY LgFacts
<1>3. ASSUME NEW i \in D
      PROVE  Halts(i) <=> Stops(Hold(es, lg), Vacant, s, Route(lg)[s][i])
  <2>1. Route(lg)[s][i] = Probe(s, lg, i) /\ Probe(s, lg, i) \in D
    BY RouteFacts
  <2>2. PICK p \in D : p = Probe(s, lg, i)
    BY <2>1
  <2>3. /\ Hold(es, lg)[p] = Vacant <=> es[p] = Empty
        /\ es[p] # Empty => Hold(es, lg)[p] = es[p].slot
        /\ s # Vacant
    BY HoldFacts
  <2> QED BY <2>1, <2>2, <2>3 DEF Stops
<1>4. j \in halts /\ \A i \in halts : j <= i
  <2>1. /\ j \in D /\ Stops(Hold(es, lg), Vacant, s, Route(lg)[s][j])
        /\ \A i \in 0 .. j - 1 : ~Stops(Hold(es, lg), Vacant, s, Route(lg)[s][i])
    BY DEF Ends, EndsAt
  <2> HIDE DEF Halts
  <2>2. j \in halts
    BY <1>3, <2>1
  <2>3. ASSUME NEW i \in halts PROVE j <= i
    <3>1. i \in D /\ i \notin 0 .. j - 1
      BY <1>3, <2>1
    <3> QED BY <1>2, <2>1, <3>1
  <2> QED BY <2>2, <2>3
<1>5. Min(halts) = j
  <2>1. halts \subseteq Nat
    BY <1>2
  <2> HIDE DEF halts
  <2>2. \A i \in halts : (\A k \in halts : i <= k) => i = j
    BY <1>4, <2>1
  <2> QED BY <1>4, <2>2 DEF Min
<1> HIDE DEF halts
<1> QED BY <1>1, <1>4, <1>5

(* In a table with a free slot, find ends at the entry of a slot that has  *)
(* one, and at a free slot for any other.                                  *)
FindsIn(es, lg, m, s) ==
  \E j : /\ Ends(es, lg, s, j)
         /\ Find(es, lg, s) = Route(lg)[s][j]
         /\ Find(es, lg, s) \in 0 .. 2 ^ lg - 1
         /\ es[Find(es, lg, s)]
              = IF s \in DOMAIN m THEN [slot |-> s, value |-> m[s]] ELSE Empty

LEMMA FiledFacts ==
  ASSUME NEW lg \in Lgs, NEW es, NEW m, IsMap(m), Filed(es, lg, m)
  PROVE  /\ es \in EntriesOf(lg)
         /\ \A p \in 0 .. 2 ^ lg - 1 :
              es[p] # Empty => /\ es[p].slot \in DOMAIN m
                               /\ es[p] = [slot |-> es[p].slot, value |-> m[es[p].slot]]
         /\ \A s \in DOMAIN m : \E p \in 0 .. 2 ^ lg - 1 :
              es[p] # Empty /\ es[p].slot = s
         /\ IsFiniteSet(DOMAIN m) /\ Cardinality(DOMAIN m) \in 0 .. K
<1>1. ASSUME NEW p \in 0 .. 2 ^ lg - 1, es[p] # Empty
      PROVE  es[p].slot \in DOMAIN m /\ es[p] = [slot |-> es[p].slot, value |-> m[es[p].slot]]
  BY <1>1 DEF Filed, Pairs
<1>2. ASSUME NEW s \in DOMAIN m
      PROVE  \E p \in 0 .. 2 ^ lg - 1 : es[p] # Empty /\ es[p].slot = s
  <2>1. [slot |-> s, value |-> m[s]] \in Pairs(m)
    BY DEF Pairs
  <2>2. PICK p \in 0 .. 2 ^ lg - 1 : es[p] = [slot |-> s, value |-> m[s]] /\ es[p] # Empty
    BY <2>1 DEF Filed
  <2> QED BY <2>2
<1>3. IsFiniteSet(DOMAIN m) /\ Cardinality(DOMAIN m) \in 0 .. K
  BY SlotsFinite DEF IsMap
<1> QED BY <1>1, <1>2, <1>3 DEF Filed

LEMMA HeldSlots ==
  ASSUME NEW lg \in Lgs, NEW es, NEW m, IsMap(m), Filed(es, lg, m)
  PROVE  /\ \A p \in 0 .. 2 ^ lg - 1 : Hold(es, lg)[p] \in DOMAIN m \cup {Vacant}
         /\ \A s \in DOMAIN m : \E p \in 0 .. 2 ^ lg - 1 : Hold(es, lg)[p] = s
<1>1. es \in EntriesOf(lg)
  BY DEF Filed
<1>2. \A p \in 0 .. 2 ^ lg - 1 :
        /\ Hold(es, lg)[p] = Vacant <=> es[p] = Empty
        /\ es[p] # Empty => Hold(es, lg)[p] = es[p].slot
  BY <1>1, HoldFacts
<1>3. \A p \in 0 .. 2 ^ lg - 1 : es[p] # Empty => es[p].slot \in DOMAIN m
  BY FiledFacts
<1>4. \A s \in DOMAIN m : \E p \in 0 .. 2 ^ lg - 1 : es[p] # Empty /\ es[p].slot = s
  BY FiledFacts
<1>5. \A p \in 0 .. 2 ^ lg - 1 : Hold(es, lg)[p] \in DOMAIN m \cup {Vacant}
  BY <1>2, <1>3
<1>6. ASSUME NEW s \in DOMAIN m
      PROVE  \E p \in 0 .. 2 ^ lg - 1 : Hold(es, lg)[p] = s
  BY <1>2, <1>4
<1> QED BY <1>5, <1>6

LEMMA FiledFinds ==
  ASSUME NEW lg \in Lgs, NEW es, NEW m, IsMap(m), Filed(es, lg, m),
         Cardinality(DOMAIN m) < 2 ^ lg, NEW s \in Slots
  PROVE  FindsIn(es, lg, m, s)
<1> DEFINE N == 2 ^ lg
           hold == Hold(es, lg)
           route == Route(lg)
<1>1. /\ es \in EntriesOf(lg) /\ N \in Nat \ {0}
      /\ route \in Routes(N, Slots) /\ EachEnds(N, hold, Vacant, route)
      /\ hold \in [0 .. N - 1 -> Slots \cup {Vacant}] /\ Vacant \notin Slots
  BY LgFacts, RouteFacts, HoldFacts DEF Filed
<1>2. \A p \in 0 .. N - 1 : hold[p] \in DOMAIN m \cup {Vacant}
  BY HeldSlots
<1>3. IsFiniteSet(DOMAIN m) /\ Cardinality(DOMAIN m) < N
  BY FiledFacts
<1> HIDE DEF hold, route, N
<1>4. PICK p \in 0 .. N - 1 : hold[p] = Vacant
  BY <1>1, <1>2, <1>3, SlotIsFree
<1>5. WalkEnd(N, hold, Vacant, route, s)
  BY <1>1, <1>4, EveryWalkEnds
<1>6. PICK j \in 0 .. N - 1 :
        /\ EndsAt(N, hold, Vacant, route, s, j)
        /\ IF \E q \in 0 .. N - 1 : hold[q] = s THEN hold[route[s][j]] = s
                                                ELSE hold[route[s][j]] = Vacant
  BY <1>5 DEF WalkEnd
<1> USE DEF hold, route, N
<1>7. Ends(es, lg, s, j)
  BY <1>6 DEF Ends
<1>8. Find(es, lg, s) = Route(lg)[s][j] /\ Find(es, lg, s) \in 0 .. 2 ^ lg - 1
  BY <1>1, <1>7, FindEnds, RouteFacts
<1>9. PICK q \in 0 .. 2 ^ lg - 1 : q = Find(es, lg, s) /\ q = Route(lg)[s][j]
  BY <1>8
<1>10. es[q] = IF s \in DOMAIN m THEN [slot |-> s, value |-> m[s]] ELSE Empty
  <2>1. s \in DOMAIN m => \E x \in 0 .. 2 ^ lg - 1 : hold[x] = s
    BY HeldSlots
  <2>2. CASE s \in DOMAIN m
    <3>1. hold[q] = s /\ s # Vacant
      BY <1>1, <1>6, <1>9, <2>1, <2>2
    <3>2. es[q] # Empty /\ es[q].slot = s
      BY <1>1, <3>1, HoldFacts
    <3> QED BY <2>2, <3>2, FiledFacts
  <2>3. CASE s \notin DOMAIN m
    <3>1. \A x \in 0 .. 2 ^ lg - 1 : hold[x] # s
      BY <1>1, <1>2, <2>3
    <3>2. hold[q] = Vacant
      BY <1>6, <1>9, <3>1
    <3> QED BY <1>1, <2>3, <3>2, HoldFacts
  <2> QED BY <2>2, <2>3
<1> QED BY <1>7, <1>8, <1>9, <1>10 DEF FindsIn

(* Storing an entry where find ends. *)
LEMMA WithFacts ==
  ASSUME NEW m, NEW s \in Slots, NEW v \in Values, IsMap(m)
  PROVE  /\ IsMap(With(m, s, v))
         /\ DOMAIN With(m, s, v) = DOMAIN m \cup {s}
         /\ Cardinality(DOMAIN With(m, s, v))
              = IF s \in DOMAIN m THEN Cardinality(DOMAIN m) ELSE Cardinality(DOMAIN m) + 1
<1> DEFINE w == With(m, s, v)
<1>1. /\ DOMAIN w = DOMAIN m \cup {s} /\ w[s] = v
      /\ \A x \in DOMAIN m \ {s} : w[x] = m[x]
      /\ w \in [DOMAIN m \cup {s} -> Values]
  BY DEF With, IsMap
<1> HIDE DEF w
<1>2. IsMap(w)
  BY <1>1 DEF IsMap
<1>3. Cardinality(DOMAIN w)
        = IF s \in DOMAIN m THEN Cardinality(DOMAIN m) ELSE Cardinality(DOMAIN m) + 1
  <2>1. IsFiniteSet(DOMAIN m)
    BY SlotsFinite DEF IsMap
  <2> QED BY <1>1, <2>1, FS_AddElement
<1> QED BY <1>1, <1>2, <1>3 DEF w

LEMMA PairsOfWith ==
  ASSUME NEW m, NEW s \in Slots, NEW v \in Values, IsMap(m)
  PROVE  Pairs(With(m, s, v)) = Others(m, s) \cup {Entry(s, v)}
<1> DEFINE w == With(m, s, v)
<1>1. DOMAIN w = DOMAIN m \cup {s} /\ w[s] = v /\ \A x \in DOMAIN m \ {s} : w[x] = m[x]
  BY DEF With
<1> HIDE DEF w
<1>2. Pairs(w) = Others(m, s) \cup {Entry(s, v)}
  <2>1. ASSUME NEW x \in DOMAIN w
        PROVE  [slot |-> x, value |-> w[x]] \in Others(m, s) \cup {Entry(s, v)}
    BY <1>1 DEF Pairs, Others, Entry
  <2>2. ASSUME NEW y \in Others(m, s) PROVE y \in Pairs(w)
    <3>1. PICK x \in DOMAIN m : y = [slot |-> x, value |-> m[x]] /\ x # s
      BY DEF Pairs, Others, Entry
    <3> QED BY <1>1, <3>1 DEF Pairs, Entry
  <2>3. Entry(s, v) \in Pairs(w)
    BY <1>1 DEF Pairs, Entry
  <2>4. \A y \in Pairs(w) : y \in Others(m, s) \cup {Entry(s, v)}
    BY <2>1 DEF Pairs, Entry
  <2> QED BY <2>2, <2>3, <2>4
<1> QED BY <1>2 DEF w

LEMMA FiledStore ==
  ASSUME NEW lg \in Lgs, NEW es, NEW m, IsMap(m), Filed(es, lg, m),
         Cardinality(DOMAIN m) < 2 ^ lg, NEW s \in Slots, NEW v \in Values
  PROVE  Filed(Place(es, lg, [slot |-> s, value |-> v]), lg, With(m, s, v))
<1> DEFINE D == 0 .. 2 ^ lg - 1
           e == [slot |-> s, value |-> v]
<1>1. FindsIn(es, lg, m, s)
  BY FiledFinds
<1>2. PICK j : /\ Ends(es, lg, s, j)
               /\ Find(es, lg, s) = Route(lg)[s][j]
               /\ Find(es, lg, s) \in D
               /\ es[Find(es, lg, s)]
                    = IF s \in DOMAIN m THEN [slot |-> s, value |-> m[s]] ELSE Empty
  BY <1>1 DEF FindsIn
<1>3. PICK p \in D : p = Find(es, lg, s)
  BY <1>2
<1> DEFINE next == [es EXCEPT ![p] = e]
<1>4. Place(es, lg, e) = next
  <2>1. p # Nowhere
    BY LgFacts DEF Nowhere
  <2> QED BY <1>3, <2>1 DEF Place
<1>5. es \in EntriesOf(lg) /\ e \in Exception /\ e # Empty
  <2>1. e \in Exception
    BY DEF Exception
  <2> QED BY <2>1, ExceptionFacts DEF Filed
<1>6. next \in EntriesOf(lg) /\ next[p] = e /\ \A q \in D \ {p} : next[q] = es[q]
  BY <1>5 DEF EntriesOf
<1> HIDE DEF next
<1>7. EachEnds(2 ^ lg, Hold(next, lg), Vacant, Route(lg))
  <2> DEFINE hold == Hold(es, lg)
  <2>1. Hold(next, lg) = [hold EXCEPT ![p] = s]
    <3>1. Hold(next, lg)[p] = s
      BY <1>5, <1>6 DEF Hold
    <3>2. \A q \in D \ {p} : Hold(next, lg)[q] = hold[q]
      BY <1>6 DEF Hold
    <3>3. Hold(next, lg) = [q \in D |-> Hold(next, lg)[q]] /\ hold = [q \in D |-> hold[q]]
      BY DEF Hold
    <3> HIDE DEF hold
    <3> QED BY <3>1, <3>2, <3>3
  <2>2. /\ 2 ^ lg \in Nat \ {0} /\ Vacant \notin Slots
        /\ hold \in [0 .. 2 ^ lg - 1 -> Slots \cup {Vacant}]
        /\ Route(lg) \in Routes(2 ^ lg, Slots)
        /\ EachEnds(2 ^ lg, hold, Vacant, Route(lg))
        /\ EndsAt(2 ^ lg, hold, Vacant, Route(lg), s, j)
    BY <1>2, <1>5, LgFacts, HoldFacts, RouteFacts DEF Ends, Filed
  <2> HIDE DEF hold
  <2>3. EachEnds(2 ^ lg, [hold EXCEPT ![Route(lg)[s][j]] = s], Vacant, Route(lg))
    BY <2>2, StoreSettles
  <2> QED BY <1>2, <1>3, <2>1, <2>3
<1>8. {next[q] : q \in D} \ {Empty} = Others(m, s) \cup {e}
  <2>1. {es[q] : q \in D} \ {Empty} = Pairs(m)
    BY DEF Filed
  <2>2. \A q \in D \ {p} : es[q] # Empty => es[q].slot # s
    <3> SUFFICES ASSUME NEW q \in D, es[q] # Empty, es[q].slot = s PROVE q = p
      OBVIOUS
    <3>1. s \in DOMAIN m
      BY FiledFacts
    <3>2. es[p] = [slot |-> s, value |-> m[s]] /\ es[p] \in Pairs(m)
      BY <1>2, <1>3, <3>1 DEF Pairs
    <3>3. es[p] # Empty /\ es[p].slot = s
      BY <2>1, <3>2
    <3>4. Hold(es, lg)[p] = s /\ Hold(es, lg)[q] = s /\ s # Vacant
      BY <1>5, <3>3, HoldFacts
    <3>5. 2 ^ lg \in Nat /\ EachEnds(2 ^ lg, Hold(es, lg), Vacant, Route(lg))
      BY LgFacts DEF Filed
    <3> QED BY <3>4, <3>5, SettledOnce
  <2>3. es[p] \in Pairs(m) => es[p].slot = s
    <3>1. es[p] = IF s \in DOMAIN m THEN [slot |-> s, value |-> m[s]] ELSE Empty
      BY <1>2, <1>3
    <3>2. Empty \notin Pairs(m)
      BY <2>1
    <3> QED BY <3>1, <3>2
  <2>4. ASSUME NEW q \in D, next[q] # Empty
        PROVE  next[q] \in Others(m, s) \cup {e}
    BY <1>6, <2>1, <2>2, <2>4 DEF Others
  <2>5. ASSUME NEW x \in Pairs(m), x.slot # s
        PROVE  x \in {next[q] : q \in D} \ {Empty}
    <3>1. PICK q \in D : x = es[q] /\ x # Empty
      BY <2>1
    <3>2. q # p
      BY <2>3, <2>5, <3>1
    <3> QED BY <1>6, <3>1, <3>2
  <2>6. e \in {next[q] : q \in D} \ {Empty}
    BY <1>5, <1>6
  <2> QED BY <2>4, <2>5, <2>6 DEF Others
<1>9. Pairs(With(m, s, v)) = Others(m, s) \cup {e}
  <2>1. Pairs(With(m, s, v)) = Others(m, s) \cup {Entry(s, v)}
    BY PairsOfWith
  <2> QED BY <2>1 DEF Entry
<1>10. Filed(next, lg, With(m, s, v))
  BY <1>6, <1>7, <1>8, <1>9 DEF Filed
<1> QED BY <1>4, <1>10

-------------------------------------------------------------------------------
(* The loop of grow. *)

LEMMA BlankFiled ==
  ASSUME NEW lg \in Lgs, NEW m, DOMAIN m = {}
  PROVE  Filed(Blank(lg), lg, m)
<1>1. Blank(lg) \in EntriesOf(lg) /\ \A p \in 0 .. 2 ^ lg - 1 : Blank(lg)[p] = Empty
  BY DEF Blank, EntriesOf
<1>2. EachEnds(2 ^ lg, Hold(Blank(lg), lg), Vacant, Route(lg))
  BY <1>1, HoldFacts DEF EachEnds
<1>3. {Blank(lg)[p] : p \in 0 .. 2 ^ lg - 1} \ {Empty} = Pairs(m)
  BY <1>1 DEF Pairs
<1> QED BY <1>1, <1>2, <1>3 DEF Filed

(* One turn of the loop, and f as a run of it over the entries of t. *)
Moved(t, es, e) == IF e = Empty THEN es ELSE Place(es, t.lg_size + 1, e)
MoveRun(f, t) ==
  f = [n \in 0 .. 2 ^ t.lg_size |->
         IF n = 0 THEN Blank(t.lg_size + 1) ELSE Moved(t, f[n - 1], t.entries[n - 1])]

LEMMA MoveRuns ==
  ASSUME NEW t, 2 ^ t.lg_size \in Nat
  PROVE  \E f : /\ MoveRun(f, t)
                /\ Grow(t) = [t EXCEPT !.lg_size = t.lg_size + 1,
                                       !.entries = f[2 ^ t.lg_size]]
<1> DEFINE M == 2 ^ t.lg_size
           base == Blank(t.lg_size + 1)
           Upto(n, g) == g = [i \in 0 .. n |->
                                IF i = 0 THEN base ELSE Moved(t, g[i - 1], t.entries[i - 1])]
           T == {n \in Nat : \E g : Upto(n, g)}
           run == CHOOSE f : MoveRun(f, t)
<1>1. 0 \in T
  <2>1. Upto(0, [i \in 0 .. 0 |-> base])
    OBVIOUS
  <2> HIDE DEF Upto
  <2> QED BY <2>1
<1>2. ASSUME NEW n \in T PROVE n + 1 \in T
  <2>1. PICK g : Upto(n, g)
    OBVIOUS
  <2> DEFINE last == Moved(t, g[n], t.entries[n])
             next == [i \in 0 .. n + 1 |-> IF i = n + 1 THEN last ELSE g[i]]
  <2>2. \A i \in 0 .. n : g[i] = IF i = 0 THEN base
                                 ELSE Moved(t, g[i - 1], t.entries[i - 1])
    <3> HIDE DEF base
    <3> QED BY <2>1
  <2>3. n \in Nat
    OBVIOUS
  <2>4. ASSUME NEW i \in 0 .. n + 1
        PROVE  next[i] = IF i = 0 THEN base ELSE Moved(t, next[i - 1], t.entries[i - 1])
    <3> HIDE DEF base, last
    <3>1. CASE i = n + 1
      <4>1. next[i] = last /\ next[i - 1] = g[n] /\ i # 0 /\ i - 1 = n
        BY <2>3, <3>1
      <4> QED BY <4>1 DEF last
    <3>2. CASE i # n + 1
      <4>1. i \in 0 .. n /\ next[i] = g[i]
        BY <2>3, <3>2
      <4>2. i # 0 => next[i - 1] = g[i - 1]
        BY <2>3, <4>1
      <4> QED BY <2>2, <4>1, <4>2
    <3> QED BY <3>1, <3>2
  <2>5. next = [i \in 0 .. n + 1 |-> next[i]]
    OBVIOUS
  <2>6. Upto(n + 1, next)
    <3> HIDE DEF next, base
    <3> QED BY <2>4, <2>5
  <2> HIDE DEF next, Upto
  <2> QED BY <2>3, <2>6
<1>3. T = Nat
  <2>1. T \in SUBSET Nat
    OBVIOUS
  <2> HIDE DEF T
  <2> QED BY <1>1, <1>2, <2>1, SetInduction
<1>4. \E f : MoveRun(f, t)
  <2>1. M \in T
    <3> HIDE DEF T
    <3> QED BY <1>3
  <2> QED BY <2>1 DEF MoveRun
<1>5. MoveRun(run, t)
  BY <1>4, Zenon
<1>6. Grow(t) = [t EXCEPT !.lg_size = t.lg_size + 1, !.entries = run[2 ^ t.lg_size]]
  BY DEF Grow, MoveRun, Moved
<1> QED BY <1>5, <1>6

-------------------------------------------------------------------------------
(* The loops go over the entries of a table in the order of the array: the *)
(* part of the map m that the first n entries es and the set keep select.  *)
Seen(es, n, keep) ==
  {s \in keep : \E p \in 0 .. n - 1 : es[p] # Empty /\ es[p].slot = s}
Part(es, m, n, keep) == [s \in Seen(es, n, keep) |-> m[s]]
Selected(m, keep) == [s \in DOMAIN m \cap keep |-> m[s]]

LEMMA PartIsMap ==
  ASSUME NEW lg \in Lgs, NEW es, NEW m, NEW keep, NEW n \in 0 .. 2 ^ lg,
         IsMap(m), Filed(es, lg, m)
  PROVE  /\ Seen(es, n, keep) \in SUBSET (DOMAIN m)
         /\ DOMAIN Part(es, m, n, keep) = Seen(es, n, keep)
         /\ IsMap(Part(es, m, n, keep))
         /\ Cardinality(Seen(es, n, keep)) <= Cardinality(DOMAIN m)
<1>1. \A p \in 0 .. n - 1 : p \in 0 .. 2 ^ lg - 1
  BY LgFacts
<1>2. Seen(es, n, keep) \in SUBSET (DOMAIN m)
  <2>1. \A p \in 0 .. 2 ^ lg - 1 : es[p] # Empty => es[p].slot \in DOMAIN m
    BY FiledFacts
  <2> QED BY <1>1, <2>1 DEF Seen
<1>3. IsMap(Part(es, m, n, keep))
  BY <1>2 DEF IsMap, Part
<1>4. Cardinality(Seen(es, n, keep)) <= Cardinality(DOMAIN m)
  BY <1>2, FiledFacts, FS_Subset
<1> QED BY <1>2, <1>3, <1>4 DEF Part

LEMMA PartStarts ==
  ASSUME NEW es, NEW m, NEW keep
  PROVE  Seen(es, 0, keep) = {} /\ DOMAIN Part(es, m, 0, keep) = {}
BY DEF Seen, Part

LEMMA PartStays ==
  ASSUME NEW es, NEW m, NEW keep, NEW n \in Nat, es[n] = Empty \/ es[n].slot \notin keep
  PROVE  Part(es, m, n + 1, keep) = Part(es, m, n, keep)
<1>1. 0 .. (n + 1) - 1 = (0 .. n - 1) \cup {n}
  OBVIOUS
<1>2. Seen(es, n + 1, keep) = Seen(es, n, keep)
  BY <1>1 DEF Seen
<1> QED BY <1>2 DEF Part

PartExtends(es, m, n, keep) ==
  /\ Part(es, m, n + 1, keep) = With(Part(es, m, n, keep), es[n].slot, es[n].value)
  /\ es[n].slot \notin Seen(es, n, keep)
  /\ es[n].slot \in Slots /\ es[n].value \in Values
  /\ es[n] = [slot |-> es[n].slot, value |-> es[n].value]

LEMMA PartGrows ==
  ASSUME NEW lg \in Lgs, NEW es, NEW m, NEW keep, NEW n \in 0 .. 2 ^ lg - 1,
         IsMap(m), Filed(es, lg, m), es[n] # Empty, es[n].slot \in keep
  PROVE  PartExtends(es, m, n, keep)
<1> DEFINE s == es[n].slot
<1>1. n \in Nat /\ 0 .. (n + 1) - 1 = (0 .. n - 1) \cup {n} /\ 2 ^ lg \in Nat
  BY LgFacts
<1>2. s \in DOMAIN m /\ es[n].value = m[s] /\ s \in Slots /\ m[s] \in Values
      /\ es[n] = [slot |-> s, value |-> m[s]]
  BY FiledFacts DEF IsMap
<1>3. Seen(es, n + 1, keep) = Seen(es, n, keep) \cup {s}
  BY <1>1 DEF Seen
<1>4. Part(es, m, n + 1, keep) = With(Part(es, m, n, keep), s, m[s])
  BY <1>3 DEF Part, With
<1>5. s \notin Seen(es, n, keep)
  <2> SUFFICES ASSUME NEW p \in 0 .. n - 1, es[p] # Empty, es[p].slot = s PROVE FALSE
    BY DEF Seen
  <2>1. p \in 0 .. 2 ^ lg - 1 /\ p # n
    BY <1>1
  <2>2. es \in EntriesOf(lg) /\ EachEnds(2 ^ lg, Hold(es, lg), Vacant, Route(lg))
    BY DEF Filed
  <2>3. Hold(es, lg)[p] = s /\ Hold(es, lg)[n] = s /\ s # Vacant
    BY <1>2, <2>1, <2>2, HoldFacts
  <2> QED BY <1>1, <2>1, <2>2, <2>3, SettledOnce
<1> QED BY <1>2, <1>4, <1>5 DEF PartExtends

LEMMA PartEnds ==
  ASSUME NEW lg \in Lgs, NEW es, NEW m, NEW keep, IsMap(m), Filed(es, lg, m)
  PROVE  Part(es, m, 2 ^ lg, keep) = Selected(m, keep)
<1>1. Seen(es, 2 ^ lg, keep) = DOMAIN m \cap keep
  <2>1. \A s \in DOMAIN m : \E p \in 0 .. 2 ^ lg - 1 : es[p] # Empty /\ es[p].slot = s
    BY FiledFacts
  <2>2. \A p \in 0 .. 2 ^ lg - 1 : es[p] # Empty => es[p].slot \in DOMAIN m
    BY FiledFacts
  <2> QED BY <2>1, <2>2 DEF Seen
<1> QED BY <1>1 DEF Part, Selected

(* grow keeps the map. *)
Table(lg, c, es) == [lg_size |-> lg, count |-> c, entries |-> es]

GrowsWell(lg, c, es, m) ==
  \E new : /\ Grow(Table(lg, c, es)) = Table(lg + 1, c, new)
           /\ Filed(new, lg + 1, m)

LEMMA GrowFiles ==
  ASSUME NEW lg \in Lgs, lg + 1 \in Lgs, NEW es, NEW m, NEW c, IsMap(m),
         Filed(es, lg, m), Cardinality(DOMAIN m) < 2 ^ (lg + 1)
  PROVE  GrowsWell(lg, c, es, m)
<1> DEFINE t == Table(lg, c, es)
           M == 2 ^ lg
<1>1. t.lg_size = lg /\ t.entries = es /\ t.count = c /\ M \in Nat \ {0}
  BY LgFacts DEF Table
<1> HIDE DEF t
<1>2. PICK f : MoveRun(f, t) /\ Grow(t) = [t EXCEPT !.lg_size = lg + 1, !.entries = f[M]]
  BY <1>1, MoveRuns
<1>3. /\ f[0] = Blank(lg + 1)
      /\ \A n \in 1 .. M : f[n] = Moved(t, f[n - 1], es[n - 1])
  <2>1. \A n \in 0 .. M : f[n] = IF n = 0 THEN Blank(lg + 1)
                                 ELSE Moved(t, f[n - 1], es[n - 1])
    BY <1>1, <1>2 DEF MoveRun
  <2> HIDE DEF M
  <2> QED BY <1>1, <2>1
<1>4. Grow(t) = Table(lg + 1, c, f[M])
  <2>1. t = [lg_size |-> lg, count |-> c, entries |-> es]
    BY DEF t, Table
  <2> QED BY <1>2, <2>1 DEF Table
<1> DEFINE Good(n) == Filed(f[n], lg + 1, Part(es, m, n, Slots))
           T == {n \in Nat : n <= M => Good(n)}
<1>5. 0 \in T
  <2>1. Good(0)
    BY <1>3, PartStarts, BlankFiled
  <2> QED BY <2>1
<1>6. ASSUME NEW n \in T PROVE n + 1 \in T
  <2> SUFFICES ASSUME n + 1 <= M PROVE Good(n + 1)
    OBVIOUS
  <2>1. n \in Nat /\ n \in 0 .. M - 1 /\ n + 1 \in 1 .. M /\ (n + 1) - 1 = n /\ n \in 0 .. M
    BY <1>1
  <2>2. Good(n)
    BY <2>1
  <2>3. f[n + 1] = Moved(t, f[n], es[n])
    BY <1>3, <2>1
  <2> DEFINE part == Part(es, m, n, Slots)
  <2>4. IsMap(part) /\ Cardinality(DOMAIN part) < 2 ^ (lg + 1)
    <3>1. /\ Cardinality(Seen(es, n, Slots)) <= Cardinality(DOMAIN m)
          /\ DOMAIN part = Seen(es, n, Slots) /\ IsMap(part)
      BY <2>1, PartIsMap
    <3>2. Cardinality(DOMAIN m) \in 0 .. K /\ Cardinality(DOMAIN part) \in 0 .. K
          /\ 2 ^ (lg + 1) \in Nat
      BY <3>1, SlotsFinite, LgFacts DEF IsMap
    <3> HIDE DEF part
    <3> QED BY <3>1, <3>2
  <2>5. CASE es[n] = Empty
    <3>1. f[n + 1] = f[n]
      BY <2>3, <2>5 DEF Moved
    <3>2. Part(es, m, n + 1, Slots) = part
      BY <2>1, <2>5, PartStays
    <3> QED BY <2>2, <3>1, <3>2
  <2>6. CASE es[n] # Empty
    <3>0. PartExtends(es, m, n, Slots)
      <4>1. es[n].slot \in Slots
        BY <2>1, <2>6, FiledFacts DEF IsMap
      <4>2. n \in 0 .. 2 ^ lg - 1
        BY <2>1
      <4> QED BY <2>6, <4>1, <4>2, PartGrows
    <3>1. PICK s \in Slots, v \in Values :
            es[n] = [slot |-> s, value |-> v] /\ es[n].slot = s /\ es[n].value = v
      BY <3>0 DEF PartExtends
    <3>2. Part(es, m, n + 1, Slots) = With(part, s, v)
      BY <3>0, <3>1 DEF PartExtends
    <3>3. f[n + 1] = Place(f[n], lg + 1, [slot |-> s, value |-> v])
      BY <1>1, <2>3, <2>6, <3>1 DEF Moved
    <3> HIDE DEF part
    <3>4. Filed(f[n], lg + 1, part)
      BY <2>2 DEF part
    <3> QED BY <2>4, <3>2, <3>3, <3>4, FiledStore
  <2> QED BY <2>5, <2>6
<1>7. T = Nat
  <2>1. T \in SUBSET Nat
    OBVIOUS
  <2> HIDE DEF T
  <2> QED BY <1>5, <1>6, <2>1, SetInduction
<1>8. Good(M)
  <2>1. M \in T
    <3> HIDE DEF T
    <3> QED BY <1>1, <1>7
  <2> QED BY <1>1, <2>1
<1>9. Part(es, m, M, Slots) = m
  <2>1. Part(es, m, M, Slots) = Selected(m, Slots)
    BY PartEnds
  <2>2. DOMAIN m \cap Slots = DOMAIN m /\ m = [s \in DOMAIN m |-> m[s]]
    BY DEF IsMap
  <2> QED BY <2>1, <2>2 DEF Selected
<1> QED BY <1>4, <1>8, <1>9 DEF GrowsWell, t

-------------------------------------------------------------------------------
(* A table of the map m, at most three quarters full; it has grown at most *)
(* once for each of its entries.                                           *)
Holding(t, m, lg, es) ==
  /\ lg \in LgAuxSize .. LgAuxSize + Cardinality(DOMAIN m)
  /\ t = Table(lg, Cardinality(DOMAIN m), es)
  /\ Filed(es, lg, m)
  /\ 4 * Cardinality(DOMAIN m) <= 3 * 2 ^ lg
Roomy(t, m) == \E lg, es : Holding(t, m, lg, es)

(* None stands for the map without entries. *)
TableOf(t, m) == IF DOMAIN m = {} THEN t = NoMap ELSE Roomy(t, m)

LEMMA HoldingFacts ==
  ASSUME NEW m, IsMap(m), NEW t, NEW lg, NEW es, Holding(t, m, lg, es)
  PROVE  /\ lg \in Lgs /\ lg \in Nat /\ lg >= 1
         /\ t.lg_size = lg /\ t.entries = es /\ t.count = Cardinality(DOMAIN m)
         /\ Cardinality(DOMAIN m) \in 0 .. K
         /\ Cardinality(DOMAIN m) < 2 ^ lg
         /\ t # NoMap
<1>1. Cardinality(DOMAIN m) \in 0 .. K
  BY SlotsFinite DEF IsMap
<1>2. lg \in Lgs /\ lg \in Nat /\ lg >= 1
  BY <1>1, LgAuxAssumption, SizeAssumption DEF Holding, Lgs
<1>3. t.lg_size = lg /\ t.entries = es /\ t.count = Cardinality(DOMAIN m)
  BY DEF Holding, Table
<1>4. Cardinality(DOMAIN m) < 2 ^ lg
  <2>1. 2 ^ lg \in Nat \ {0} /\ 4 * Cardinality(DOMAIN m) <= 3 * 2 ^ lg
    BY <1>2, LgFacts DEF Holding
  <2> QED BY <1>1, <2>1
<1>5. t # NoMap
  BY <1>2, <1>3 DEF NoMap
<1> QED BY <1>1, <1>2, <1>3, <1>4, <1>5

LEMMA GetOrNewRoomy ==
  ASSUME NEW t, NEW m, IsMap(m), TableOf(t, m)
  PROVE  Roomy(GetOrNew(t), m)
<1>1. CASE DOMAIN m = {}
  <2>1. GetOrNew(t) = NewMap /\ Cardinality(DOMAIN m) = 0
    BY <1>1, FS_EmptySet DEF TableOf, GetOrNew
  <2>2. LgAuxSize \in Lgs /\ LgAuxSize \in Nat /\ LgAuxSize \in LgAuxSize .. LgAuxSize + 0
    BY LgAuxAssumption, SizeAssumption DEF Lgs
  <2>3. Filed(Blank(LgAuxSize), LgAuxSize, m)
    BY <1>1, <2>2, BlankFiled
  <2>4. NewMap = Table(LgAuxSize, 0, Blank(LgAuxSize))
    BY DEF NewMap, Table
  <2>5. 4 * 0 <= 3 * 2 ^ LgAuxSize
    BY <2>2, LgFacts
  <2> QED BY <2>1, <2>2, <2>3, <2>4, <2>5 DEF Roomy, Holding
<1>2. CASE DOMAIN m # {}
  <2>1. Roomy(t, m)
    BY <1>2 DEF TableOf
  <2>2. t # NoMap
    BY <2>1, HoldingFacts DEF Roomy
  <2> QED BY <2>1, <2>2 DEF GetOrNew
<1> QED BY <1>1, <1>2

LEMMA ReplaceRoomy ==
  ASSUME NEW t, NEW m, IsMap(m), Roomy(t, m), NEW s \in DOMAIN m, NEW v \in Values
  PROVE  Roomy(Replace(t, s, v), With(m, s, v))
<1>1. PICK lg, es : Holding(t, m, lg, es)
  BY DEF Roomy
<1>2. s \in Slots
  BY DEF IsMap
<1> DEFINE c == Cardinality(DOMAIN m)
           new == Place(es, lg, [slot |-> s, value |-> v])
<1>3. lg \in Lgs /\ c < 2 ^ lg /\ t.lg_size = lg /\ t.entries = es
  BY <1>1, HoldingFacts
<1>4. Filed(new, lg, With(m, s, v))
  BY <1>1, <1>2, <1>3, FiledStore DEF Holding
<1>5. Cardinality(DOMAIN With(m, s, v)) = c
  BY <1>2, WithFacts
<1>6. Replace(t, s, v) = Table(lg, c, new)
  <2> HIDE DEF new, c
  <2>1. Replace(t, s, v) = [t EXCEPT !.entries = new]
    BY <1>3 DEF Replace, new
  <2>2. t = [lg_size |-> lg, count |-> c, entries |-> es]
    BY <1>1 DEF Holding, Table, c
  <2> QED BY <2>1, <2>2 DEF Table
<1>7. Holding(Replace(t, s, v), With(m, s, v), lg, new)
  <2> HIDE DEF new, c
  <2>1. lg \in LgAuxSize .. LgAuxSize + c /\ 4 * c <= 3 * 2 ^ lg
    BY <1>1 DEF Holding, c
  <2> QED BY <1>4, <1>5, <1>6, <2>1 DEF Holding
<1> QED BY <1>7 DEF Roomy

LEMMA InsertRoomy ==
  ASSUME NEW t, NEW m, IsMap(m), Roomy(t, m),
         NEW s \in Slots, s \notin DOMAIN m, NEW v \in Values
  PROVE  Roomy(Insert(t, s, v), With(m, s, v))
<1>1. PICK lg, es : Holding(t, m, lg, es)
  BY DEF Roomy
<1> DEFINE c == Cardinality(DOMAIN m)
           w == With(m, s, v)
           new == Place(es, lg, [slot |-> s, value |-> v])
           u == Table(lg, c + 1, new)
<1>2. lg \in Lgs /\ lg \in Nat /\ c \in 0 .. K /\ c < 2 ^ lg /\ t.lg_size = lg /\ t.entries = es
  BY <1>1, HoldingFacts
<1>3. Filed(new, lg, w)
  BY <1>1, <1>2, FiledStore DEF Holding
<1>4. IsMap(w) /\ Cardinality(DOMAIN w) = c + 1
  BY WithFacts
<1>5. Insert(t, s, v) = CheckGrow(u)
  <2>1. t = [lg_size |-> lg, count |-> c, entries |-> es]
    BY <1>1 DEF Holding, Table
  <2> DEFINE t1 == [t EXCEPT !.count = @ + 1]
             t2 == [t1 EXCEPT !.entries = Place(@, t.lg_size, [slot |-> s, value |-> v])]
  <2>2. t2 = u
    <3>1. t1 = [lg_size |-> lg, count |-> c + 1, entries |-> es]
      <4> HIDE DEF c
      <4> QED BY <2>1
    <3> HIDE DEF t1, c
    <3>2. t2 = [t1 EXCEPT !.entries = new]
      BY <1>2, <3>1
    <3> HIDE DEF t2, new
    <3> QED BY <3>1, <3>2 DEF Table
  <2>3. Insert(t, s, v) = CheckGrow(t2)
    <3>1. [t EXCEPT !.count = @ + 1,
                    !.entries = Place(@, t.lg_size, [slot |-> s, value |-> v])] = t2
      <4> HIDE DEF c
      <4> QED BY <2>1
    <3> QED BY <3>1 DEF Insert
  <2> QED BY <2>2, <2>3
<1>6. c + 1 \in 0 .. K
  BY <1>4, SlotsFinite DEF IsMap
<1>7. lg \in LgAuxSize .. LgAuxSize + c /\ 2 ^ lg \in Nat \ {0} /\ LgAuxSize \in Nat
  BY <1>1, <1>2, LgFacts, LgAuxAssumption DEF Holding
<1> HIDE DEF w, new, c
<1>8. u.lg_size = lg /\ u.count = c + 1
  BY DEF Table
<1>9. CASE 4 * (c + 1) > 3 * 2 ^ lg
  <2>1. CheckGrow(u) = Grow(u)
    BY <1>8, <1>9 DEF CheckGrow
  <2>2. lg + 1 \in Lgs /\ lg + 1 \in LgAuxSize .. LgAuxSize + (c + 1)
    BY <1>2, <1>6, <1>7, SizeAssumption DEF Lgs
  <2>3. 2 ^ (lg + 1) = 2 * 2 ^ lg
    BY <1>2, PowersOfTwoForExceptions DEF Lgs
  <2>4. c + 1 < 2 ^ (lg + 1) /\ 4 * (c + 1) <= 3 * 2 ^ (lg + 1)
    BY <1>2, <1>7, <2>3
  <2>5. GrowsWell(lg, c + 1, new, w)
    BY <1>2, <1>3, <1>4, <2>2, <2>4, GrowFiles
  <2>6. PICK big : Grow(u) = Table(lg + 1, c + 1, big) /\ Filed(big, lg + 1, w)
    BY <2>5 DEF GrowsWell
  <2>7. Holding(Insert(t, s, v), w, lg + 1, big)
    BY <1>4, <1>5, <2>1, <2>2, <2>4, <2>6 DEF Holding
  <2> QED BY <2>7 DEF Roomy, w
<1>10. CASE ~(4 * (c + 1) > 3 * 2 ^ lg)
  <2>1. CheckGrow(u) = u
    BY <1>8, <1>10 DEF CheckGrow
  <2>2. lg \in LgAuxSize .. LgAuxSize + (c + 1) /\ 4 * (c + 1) <= 3 * 2 ^ lg
    BY <1>2, <1>7, <1>10
  <2>3. Holding(Insert(t, s, v), w, lg, new)
    BY <1>3, <1>4, <1>5, <2>1, <2>2 DEF Holding
  <2> QED BY <2>3 DEF Roomy, w
<1> QED BY <1>9, <1>10

-------------------------------------------------------------------------------
(* The loop of shift_to_bigger_cur_min and of deserialize. *)

Built(keep, new, e) ==
  IF e = Empty \/ e.slot \notin keep THEN new
  ELSE Insert(GetOrNew(new), e.slot, e.value)
BuildRun(f, t, keep) ==
  f = [n \in 0 .. 2 ^ t.lg_size |->
         IF n = 0 THEN NoMap ELSE Built(keep, f[n - 1], t.entries[n - 1])]

LEMMA BuildRuns ==
  ASSUME NEW t, NEW keep, t # NoMap, 2 ^ t.lg_size \in Nat
  PROVE  \E f : /\ BuildRun(f, t, keep)
                /\ Reinserted(t, keep) = f[2 ^ t.lg_size]
<1> DEFINE M == 2 ^ t.lg_size
           base == NoMap
           Upto(n, g) == g = [i \in 0 .. n |->
                                IF i = 0 THEN base ELSE Built(keep, g[i - 1], t.entries[i - 1])]
           T == {n \in Nat : \E g : Upto(n, g)}
           run == CHOOSE f : BuildRun(f, t, keep)
<1>1. 0 \in T
  <2>1. Upto(0, [i \in 0 .. 0 |-> base])
    OBVIOUS
  <2> HIDE DEF Upto
  <2> QED BY <2>1
<1>2. ASSUME NEW n \in T PROVE n + 1 \in T
  <2>1. PICK g : Upto(n, g)
    OBVIOUS
  <2> DEFINE last == Built(keep, g[n], t.entries[n])
             next == [i \in 0 .. n + 1 |-> IF i = n + 1 THEN last ELSE g[i]]
  <2>2. \A i \in 0 .. n : g[i] = IF i = 0 THEN base
                                 ELSE Built(keep, g[i - 1], t.entries[i - 1])
    <3> HIDE DEF base
    <3> QED BY <2>1
  <2>3. n \in Nat
    OBVIOUS
  <2>4. ASSUME NEW i \in 0 .. n + 1
        PROVE  next[i] = IF i = 0 THEN base ELSE Built(keep, next[i - 1], t.entries[i - 1])
    <3> HIDE DEF base, last
    <3>1. CASE i = n + 1
      <4>1. next[i] = last /\ next[i - 1] = g[n] /\ i # 0 /\ i - 1 = n
        BY <2>3, <3>1
      <4> QED BY <4>1 DEF last
    <3>2. CASE i # n + 1
      <4>1. i \in 0 .. n /\ next[i] = g[i]
        BY <2>3, <3>2
      <4>2. i # 0 => next[i - 1] = g[i - 1]
        BY <2>3, <4>1
      <4> QED BY <2>2, <4>1, <4>2
    <3> QED BY <3>1, <3>2
  <2>5. next = [i \in 0 .. n + 1 |-> next[i]]
    OBVIOUS
  <2>6. Upto(n + 1, next)
    <3> HIDE DEF next, base
    <3> QED BY <2>4, <2>5
  <2> HIDE DEF next, Upto
  <2> QED BY <2>3, <2>6
<1>3. T = Nat
  <2>1. T \in SUBSET Nat
    OBVIOUS
  <2> HIDE DEF T
  <2> QED BY <1>1, <1>2, <2>1, SetInduction
<1>4. \E f : BuildRun(f, t, keep)
  <2>1. M \in T
    <3> HIDE DEF T
    <3> QED BY <1>3
  <2> QED BY <2>1 DEF BuildRun
<1>5. BuildRun(run, t, keep)
  BY <1>4, Zenon
<1>6. Reinserted(t, keep) = run[2 ^ t.lg_size]
  BY DEF Reinserted, BuildRun, Built
<1> QED BY <1>5, <1>6

(* The entries of the slots in keep make a table of their own. *)
LEMMA ReinsertedOK ==
  ASSUME NEW t, NEW m, NEW keep, IsMap(m), TableOf(t, m)
  PROVE  IsMap(Selected(m, keep)) /\ TableOf(Reinserted(t, keep), Selected(m, keep))
<1>1. IsMap(Selected(m, keep))
  BY DEF IsMap, Selected
<1>2. CASE DOMAIN m = {}
  <2>1. t = NoMap /\ DOMAIN Selected(m, keep) = {}
    BY <1>2 DEF TableOf, Selected
  <2>2. Reinserted(t, keep) = NoMap
    BY <2>1 DEF Reinserted
  <2> QED BY <1>1, <2>1, <2>2 DEF TableOf
<1>3. CASE DOMAIN m # {}
  <2>1. PICK lg, es : Holding(t, m, lg, es)
    BY <1>3 DEF TableOf, Roomy
  <2> DEFINE M == 2 ^ lg
  <2>2. /\ lg \in Lgs /\ t # NoMap /\ t.lg_size = lg /\ t.entries = es
        /\ M \in Nat \ {0} /\ Filed(es, lg, m)
    BY <2>1, HoldingFacts, LgFacts DEF Holding
  <2>3. PICK f : BuildRun(f, t, keep) /\ Reinserted(t, keep) = f[M]
    BY <2>2, BuildRuns
  <2>4. /\ f[0] = NoMap
        /\ \A n \in 1 .. M : f[n] = Built(keep, f[n - 1], es[n - 1])
    <3>1. \A n \in 0 .. M : f[n] = IF n = 0 THEN NoMap
                                   ELSE Built(keep, f[n - 1], es[n - 1])
      BY <2>2, <2>3 DEF BuildRun
    <3> HIDE DEF M
    <3> QED BY <2>2, <3>1
  <2> DEFINE Good(n) == TableOf(f[n], Part(es, m, n, keep))
             T == {n \in Nat : n <= M => Good(n)}
  <2>5. 0 \in T
    <3>1. Good(0)
      BY <2>4, PartStarts DEF TableOf
    <3> QED BY <3>1
  <2>6. ASSUME NEW n \in T PROVE n + 1 \in T
    <3> SUFFICES ASSUME n + 1 <= M PROVE Good(n + 1)
      OBVIOUS
    <3>1. n \in Nat /\ n \in 0 .. M - 1 /\ n + 1 \in 1 .. M /\ (n + 1) - 1 = n /\ n \in 0 .. M
      BY <2>2
    <3>2. Good(n)
      BY <3>1
    <3>3. f[n + 1] = Built(keep, f[n], es[n])
      BY <2>4, <3>1
    <3> DEFINE part == Part(es, m, n, keep)
    <3>4. IsMap(part) /\ DOMAIN part = Seen(es, n, keep)
      BY <2>2, <3>1, PartIsMap
    <3>5. CASE es[n] = Empty \/ es[n].slot \notin keep
      <4>1. f[n + 1] = f[n]
        BY <3>3, <3>5 DEF Built
      <4>2. Part(es, m, n + 1, keep) = part
        BY <3>1, <3>5, PartStays
      <4> QED BY <3>2, <4>1, <4>2
    <3>6. CASE ~(es[n] = Empty \/ es[n].slot \notin keep)
      <4>1. PartExtends(es, m, n, keep)
        BY <2>2, <3>1, <3>6, PartGrows
      <4>2. PICK s \in Slots, v \in Values : es[n].slot = s /\ es[n].value = v
        BY <4>1 DEF PartExtends
      <4>3. Part(es, m, n + 1, keep) = With(part, s, v) /\ s \notin DOMAIN part
        BY <3>4, <4>1, <4>2 DEF PartExtends
      <4>4. f[n + 1] = Insert(GetOrNew(f[n]), s, v)
        BY <3>3, <3>6, <4>2 DEF Built
      <4> HIDE DEF part
      <4>5. Roomy(GetOrNew(f[n]), part)
        BY <3>2, <3>4, GetOrNewRoomy DEF part
      <4>6. Roomy(f[n + 1], With(part, s, v))
        BY <3>4, <4>3, <4>4, <4>5, InsertRoomy
      <4>7. DOMAIN With(part, s, v) # {}
        BY DEF With
      <4> QED BY <4>3, <4>6, <4>7 DEF TableOf
    <3> QED BY <3>5, <3>6
  <2>7. T = Nat
    <3>1. T \in SUBSET Nat
      OBVIOUS
    <3> HIDE DEF T
    <3> QED BY <2>5, <2>6, <3>1, SetInduction
  <2>8. Good(M)
    <3>1. M \in T
      <4> HIDE DEF T
      <4> QED BY <2>2, <2>7
    <3> QED BY <2>2, <3>1
  <2>9. Part(es, m, M, keep) = Selected(m, keep)
    BY <2>2, PartEnds
  <2> QED BY <1>1, <2>3, <2>8, <2>9
<1> QED BY <1>2, <1>3

-------------------------------------------------------------------------------
(* The table of HllAuxMap is a table of the map of HllArray4. *)
TableInv == IInv /\ IsMap(aux) /\ TableOf(table, aux)

LEMMA SameMap ==
  ASSUME NEW m, IsMap(m)
  PROVE  /\ m = [s \in DOMAIN m |-> m[s]]
         /\ Selected(m, Slots) = m
         /\ \A s \in DOMAIN m, v \in Values : [m EXCEPT ![s] = v] = With(m, s, v)
<1>1. m = [s \in DOMAIN m |-> m[s]]
  BY DEF IsMap
<1>2. DOMAIN m \cap Slots = DOMAIN m
  BY DEF IsMap
<1>3. ASSUME NEW s \in DOMAIN m, NEW v \in Values
      PROVE  [m EXCEPT ![s] = v] = With(m, s, v)
  <2>1. DOMAIN m \cup {s} = DOMAIN m
    OBVIOUS
  <2> QED BY <1>1, <2>1 DEF With
<1> QED BY <1>1, <1>2, <1>3 DEF Selected

LEMMA TableInitOK == TableInit => TableInv
<1> SUFFICES ASSUME TableInit PROVE TableInv
  OBVIOUS
<1>1. IInv
  BY InitOK DEF TableInit
<1>2. aux = [s \in {} |-> 0] /\ table = NoMap
  BY DEF TableInit, Init
<1> QED BY <1>1, <1>2 DEF TableInv, IsMap, TableOf

LEMMA TableRaisedOK ==
  ASSUME TableInv, NEW s \in Slots, NEW v \in Values, UpdateRaised(s, v),
         table' = IF Shifted(v) < AuxToken THEN table
                  ELSE IF raw[s] = AuxToken THEN Replace(table, s, v)
                  ELSE Insert(GetOrNew(table), s, v)
  PROVE  IsMap(aux)' /\ TableOf(table, aux)'
<1>1. IsMap(aux) /\ TableOf(table, aux) /\ (s \in DOMAIN aux <=> raw[s] = AuxToken)
  BY DEF TableInv, IInv, Stored, Exceptions
<1>2. Shifted(v) \in Int /\ AuxToken \in Nat
  BY TokenAssumption DEF Shifted, TableInv, IInv, TypeOK, Values
<1>3. CASE ReplaceException(s, v)
  <2>1. /\ table' = Replace(table, s, v) /\ s \in DOMAIN aux
        /\ aux' = [aux EXCEPT ![s] = v]
    BY <1>1, <1>2, <1>3 DEF ReplaceException
  <2>2. aux' = With(aux, s, v)
    BY <1>1, <2>1, SameMap
  <2>3. Roomy(table, aux)
    BY <1>1, <2>1 DEF TableOf
  <2>4. Roomy(table', aux') /\ IsMap(aux')
    <3>1. Roomy(Replace(table, s, v), With(aux, s, v))
      BY <1>1, <2>1, <2>3, ReplaceRoomy
    <3>2. IsMap(With(aux, s, v))
      BY <1>1, WithFacts
    <3> QED BY <2>1, <2>2, <3>1, <3>2
  <2>5. DOMAIN aux' # {}
    BY <2>1
  <2> QED BY <2>4, <2>5 DEF TableOf
<1>4. CASE AddException(s, v)
  <2>1. /\ table' = Insert(GetOrNew(table), s, v) /\ s \notin DOMAIN aux
        /\ aux' = With(aux, s, v)
    BY <1>1, <1>2, <1>4 DEF AddException, With
  <2>2. Roomy(GetOrNew(table), aux)
    BY <1>1, GetOrNewRoomy
  <2>3. Roomy(table', aux') /\ IsMap(aux')
    <3>1. Roomy(Insert(GetOrNew(table), s, v), With(aux, s, v))
      BY <1>1, <2>1, <2>2, InsertRoomy
    <3>2. IsMap(With(aux, s, v))
      BY <1>1, WithFacts
    <3> QED BY <2>1, <3>1, <3>2
  <2>4. DOMAIN aux' # {}
    BY <2>1 DEF With
  <2> QED BY <2>3, <2>4 DEF TableOf
<1>5. CASE PutRaw(s, v)
  BY <1>1, <1>5 DEF PutRaw
<1> QED BY <1>3, <1>4, <1>5 DEF UpdateRaised

(* A step of the array with its table is a step of the array.              *)
LEMMA StepIsArrays == [TableNext]_vars => [Next]_regVars
<1> SUFFICES ASSUME [TableNext]_vars PROVE [Next]_regVars
  OBVIOUS
<1>1. ASSUME NEW s \in Slots, NEW v \in Values, TableUpdate(s, v) PROVE Next
  BY <1>1 DEF TableUpdate, Next
<1>2. ASSUME TableShift PROVE Next
  BY <1>2 DEF TableShift, Next
<1>3. ASSUME Reload \/ UNCHANGED vars PROVE UNCHANGED regVars
  BY <1>3 DEF Reload, vars
<1> QED BY <1>1, <1>2, <1>3 DEF TableNext

LEMMA TableNextOK == TableInv /\ [TableNext]_vars => TableInv'
<1> SUFFICES ASSUME TableInv, [TableNext]_vars PROVE TableInv'
  OBVIOUS
<1>1. IsMap(aux) /\ TableOf(table, aux) /\ IInv
  BY DEF TableInv
<1>2. IInv'
  <2>1. [Next]_regVars
    BY StepIsArrays
  <2> QED BY <1>1, <2>1, NextOK
<1>3. ASSUME NEW s \in Slots, NEW v \in Values, TableUpdate(s, v)
      PROVE  IsMap(aux)' /\ TableOf(table, aux)'
  <2>1. CASE UpdateIgnored(s, v) /\ UNCHANGED table
    BY <1>1, <2>1 DEF UpdateIgnored
  <2>2. CASE /\ UpdateRaised(s, v)
             /\ table' = IF Shifted(v) < AuxToken THEN table
                         ELSE IF raw[s] = AuxToken THEN Replace(table, s, v)
                         ELSE Insert(GetOrNew(table), s, v)
    BY <2>2, TableRaisedOK
  <2> QED BY <1>3, <2>1, <2>2 DEF TableUpdate
<1>4. ASSUME TableShift PROVE IsMap(aux)' /\ TableOf(table, aux)'
  <2> DEFINE stay == {s \in Slots : ~Returns(s)}
  <2>1. aux' = Selected(aux, stay)
    <3>1. aux' = [s \in {x \in DOMAIN aux : ~Returns(x)} |-> aux[s]]
      BY <1>4 DEF TableShift, Shift
    <3>2. {x \in DOMAIN aux : ~Returns(x)} = DOMAIN aux \cap stay
      BY <1>1 DEF IsMap
    <3> HIDE DEF stay
    <3> QED BY <3>1, <3>2 DEF Selected
  <2>2. table' = Reinserted(table, stay)
    BY <1>4 DEF TableShift, Rebuilt
  <2> HIDE DEF stay
  <2> QED BY <1>1, <2>1, <2>2, ReinsertedOK
<1>5. ASSUME Reload PROVE IsMap(aux)' /\ TableOf(table, aux)'
  <2>1. aux' = aux /\ table' = Reinserted(table, Slots)
    BY <1>5 DEF Reload, regVars, Reloaded
  <2>2. Selected(aux, Slots) = aux
    BY <1>1, SameMap
  <2>3. TableOf(table', aux)
    BY <1>1, <2>1, <2>2, ReinsertedOK
  <2> QED BY <1>1, <2>1, <2>3
<1>6. ASSUME UNCHANGED vars PROVE IsMap(aux)' /\ TableOf(table, aux)'
  BY <1>1, <1>6 DEF vars, regVars
<1>7. IsMap(aux)' /\ TableOf(table, aux)'
  BY <1>3, <1>4, <1>5, <1>6 DEF TableNext
<1> QED BY <1>2, <1>7 DEF TableInv

LEMMA TableInvGives == TableInv => TableIsMap
<1> SUFFICES ASSUME TableInv PROVE TableIsMap
  OBVIOUS
<1>1. IsMap(aux) /\ TableOf(table, aux)
  BY DEF TableInv
<1>2. CASE DOMAIN aux = {}
  BY <1>1, <1>2 DEF TableOf, TableIsMap
<1>3. CASE DOMAIN aux # {}
  <2>1. PICK lg, es : Holding(table, aux, lg, es)
    BY <1>1, <1>3 DEF TableOf, Roomy
  <2>2. /\ lg \in Lgs /\ table # NoMap /\ table.lg_size = lg /\ table.entries = es
        /\ table.count = Cardinality(DOMAIN aux) /\ Cardinality(DOMAIN aux) < 2 ^ lg
        /\ Filed(es, lg, aux)
    BY <1>1, <2>1, HoldingFacts DEF Holding
  <2>3. ASSUME NEW s \in Slots
        PROVE  Lookup(table, s) = IF s \in DOMAIN aux THEN aux[s] ELSE 0
    <3>1. FindsIn(es, lg, aux, s)
      BY <1>1, <2>2, FiledFinds
    <3>2. PICK p \in 0 .. 2 ^ lg - 1 :
            /\ p = Find(es, lg, s)
            /\ es[p] = IF s \in DOMAIN aux THEN [slot |-> s, value |-> aux[s]] ELSE Empty
      BY <3>1 DEF FindsIn
    <3>3. p # Nowhere
      BY <2>2, LgFacts DEF Nowhere
    <3>4. Lookup(table, s) = es[p].value
      BY <2>2, <3>2, <3>3 DEF Lookup
    <3> QED BY <3>2, <3>4 DEF Empty
  <2> QED BY <1>3, <2>2, <2>3 DEF TableIsMap
<1> QED BY <1>2, <1>3

(* The hash table of aux_map.rs is the map it stands for: after any        *)
(* updates, shifts and reloads every exception is found with its value,    *)
(* nothing else is found, and a probe always ends (aux_map.rs:142-182).    *)
THEOREM AuxTableIsMap == TableSpec => []TableIsMap
<1>1. TableSpec => []TableInv
  BY TableInitOK, TableNextOK, PTL DEF TableSpec
<1> QED BY <1>1, TableInvGives, PTL

(* The array with its hash table implements the array with a map, so that  *)
(* what is proved of Spec above holds of TableSpec as well.                *)
THEOREM TableImplementsArray == TableSpec => Spec
<1>1. TableInit => Init
  BY DEF TableInit
<1>2. [TableNext]_vars => [Next]_regVars
  BY StepIsArrays
<1> QED BY <1>1, <1>2, PTL DEF TableSpec, Spec
===============================================================================
