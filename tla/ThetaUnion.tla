------------------------------ MODULE ThetaUnion ------------------------------
(***************************************************************************)
(* The union shared by Theta and Tuple sketches (UnionState in             *)
(* thetafamily/common/union.rs) with the additive policy.  The loop of     *)
(* update over the entries of its input is one step per entry, because the *)
(* table may be rebuilt, and its theta lowered, in the middle of it.       *)
(*                                                                         *)
(* seen and minTheta are history variables: the sum of the source sets of  *)
(* the inputs accepted since the last reset, and the smallest theta among  *)
(* them and the union's own starting theta.                                *)
(***************************************************************************)
EXTENDS SetOperationInputs

VARIABLES
  table,        \* the union's hash table
  unionTheta,   \* union_theta
  todo,         \* entries of the current input that are still to be visited
  ordered,      \* is the current input ordered?
  merging,      \* is a call of update in progress?
  seen, minTheta, updates

vars == <<table, unionTheta, todo, ordered, merging, seen, minTheta, updates>>

Init ==
  /\ table = NewTable(LgK, LgResize, Sampling)
  /\ unionTheta = StartingTheta(Sampling)
  /\ todo = NoEntries
  /\ ordered = FALSE
  /\ merging = FALSE
  /\ seen = NoEntries
  /\ minTheta = StartingTheta(Sampling)
  /\ updates = 0

(* update returns at once for an empty sketch, whatever its seed, and      *)
(* with an error for a sketch of another seed.                             *)
Skips(view) == view.empty \/ view.seed # Seed

UpdateSkipped(i) ==
  /\ ~merging
  /\ Skips(i.view)
  /\ UNCHANGED vars

BeginUpdate(i) ==
  /\ ~merging /\ updates < MaxUpdates
  /\ ~Skips(i.view)
  /\ table' = [table EXCEPT !.isEmpty = FALSE]
  /\ unionTheta' = Lower(unionTheta, i.view.theta)
  /\ todo' = i.view.entries
  /\ ordered' = i.view.ordered
  /\ merging' = TRUE
  /\ seen' = MergeSum(seen, i.source)
  /\ minTheta' = Lower(minTheta, i.view.theta)
  /\ updates' = updates + 1

(* One turn of the loop: merge the entry, or skip it, or stop. *)
Merge(h) ==
  /\ h < unionTheta /\ h < table.theta
  /\ table' = UpsertEntry(table, h, todo[h], table.entries[h] + todo[h])
  /\ todo' = Without(todo, h)

SkipEntry(h) ==
  /\ ~(h < unionTheta /\ h < table.theta)
  /\ ~ordered
  /\ todo' = Without(todo, h)
  /\ UNCHANGED table

(* Fault: an unordered input is left early, too. *)
StopEarlyAlways(h) ==
  /\ ~(h < unionTheta /\ h < table.theta)
  /\ todo' = NoEntries
  /\ UNCHANGED table

StopEarly(h) ==
  /\ ~(h < unionTheta /\ h < table.theta)
  /\ ordered
  /\ todo' = NoEntries
  /\ UNCHANGED table

VisitEntry(h) ==
  /\ merging
  /\ MayVisit(todo, ordered, h)
  /\ Merge(h) \/ SkipEntry(h) \/ StopEarly(h)
  /\ UNCHANGED <<unionTheta, ordered, merging, seen, minTheta, updates>>

EndUpdate ==
  /\ merging /\ DOMAIN todo = {}
  /\ unionTheta' = Lower(unionTheta, table.theta)
  /\ merging' = FALSE
  /\ UNCHANGED <<table, todo, ordered, seen, minTheta, updates>>

Reset ==
  /\ ~merging
  /\ table' = ResetTable(table, Sampling)
  /\ unionTheta' = table'.theta
  /\ seen' = NoEntries
  /\ minTheta' = StartingTheta(Sampling)
  /\ updates' = 0
  /\ UNCHANGED <<todo, ordered, merging>>

Next ==
  \/ \E i \in Inputs : BeginUpdate(i) \/ UpdateSkipped(i)
  \/ \E h \in DOMAIN todo : VisitEntry(h)
  \/ EndUpdate
  \/ Reset

Spec == Init /\ [][Next]_vars

(* to_compact_parts: the entries below both thetas, cut down to the k      *)
(* smallest.                                                               *)
Result(wantOrdered) ==
  LET theta   == Lower(unionTheta, table.theta)
      entries == Below(table.entries, theta)
      large   == Cardinality(DOMAIN entries) > 2 ^ table.lgNom
      kth     == IF large THEN KthHash(DOMAIN entries, 2 ^ table.lgNom) ELSE theta
      kept    == Below(entries, kth)
      single  == Cardinality(DOMAIN kept) = 1 /\ kth = MaxTheta
  IN IF table.isEmpty
     THEN [entries |-> NoEntries, theta |-> unionTheta, seed |-> Seed,
           ordered |-> TRUE, empty |-> TRUE]
     ELSE [entries |-> kept, theta |-> kth, seed |-> Seed,
           ordered |-> wantOrdered \/ single, empty |-> FALSE]

-------------------------------------------------------------------------------

TypeOK ==
  /\ TableOK(table)
  /\ unionTheta \in 0 .. MaxTheta
  /\ todo \in [DOMAIN todo -> Nat]
  /\ DOMAIN todo \subseteq Hashes
  /\ ordered \in BOOLEAN
  /\ merging \in BOOLEAN
  /\ seen \in [DOMAIN seen -> Nat]
  /\ DOMAIN seen \subseteq Hashes
  /\ minTheta \in 0 .. MaxTheta
  /\ updates \in 0 .. MaxUpdates

(* Between two calls the union's result represents the union of the source *)
(* sets of its inputs: it retains exactly their keys below its own theta,  *)
(* each with the sum of all its summaries, although single inputs may have *)
(* dropped keys, rebuilds happen in the middle of an input, and an ordered *)
(* input is left early (UnionState::update, to_compact_parts).             *)
ResultRepresentsUnion ==
  ~merging => \A o \in BOOLEAN : Represents(Result(o), seen)

(* The result never claims more precision than its inputs had, and loses   *)
(* precision only to keep k entries.                                       *)
ResultThetaJustified ==
  ~merging =>
    LET r == Result(FALSE)
    IN \/ r.theta = minTheta
       \/ r.theta < minTheta /\ Cardinality(DOMAIN r.entries) = 2 ^ table.lgNom
===============================================================================
