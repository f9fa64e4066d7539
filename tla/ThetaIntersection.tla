--------------------------- MODULE ThetaIntersection ---------------------------
(***************************************************************************)
(* The intersection shared by Theta and Tuple sketches (IntersectionState  *)
(* in thetafamily/common/intersection.rs), with an additive combine        *)
(* policy.  A call of update that has entries to look at runs in steps,    *)
(* one per entry: phase is                                                 *)
(*   "idle"    no call in progress                                         *)
(*   "first"   the first input's entries are copied into a table           *)
(*   "match"   a later input's entries are matched with the table          *)
(*   "rebuild" the matched entries are put in a new table                  *)
(*                                                                         *)
(* common and minTheta are history variables: the intersection of the      *)
(* source sets of the inputs, and the smallest theta of the non-empty ones.*)
(***************************************************************************)
EXTENDS SetOperationInputs

VARIABLES
  table,
  hasResult,    \* has_result
  phase,
  todo,         \* entries of the current loop still to be visited
  ordered,      \* does that loop visit them in order?
  numInput,     \* number of entries of the current input
  matched,      \* matched_entries
  count,        \* entries looked at in the match loop
  failed,       \* did some update end with a "corrupted input" error?
  common, minTheta, updates

vars == <<table, hasResult, phase, todo, ordered, numInput, matched, count,
          failed, common, minTheta, updates>>
loop == <<todo, ordered, numInput, matched, count>>
history == <<common, minTheta, updates>>

(* The smallest table whose rebuild threshold is not below count. *)
LgSizeFromCountForRebuild(n) ==
  LET log2 == CHOOSE l \in 0 .. n : n < 2 ^ (l + 1) /\ \A m \in 0 .. l - 1 : 2 ^ (m + 1) <= n
  IN log2 + IF n > (15 * 2 ^ (log2 + 1)) \div 16 THEN 2 ELSE 1

DefaultTable(theta, isEmpty) == FromRawParts(0, 0, 0, theta, isEmpty)

SizedTable(n, theta, isEmpty) ==
  LET lg == LgSizeFromCountForRebuild(n)
  IN FromRawParts(lg, lg - 1, 0, theta, isEmpty)

Init ==
  /\ table = DefaultTable(MaxTheta, FALSE)
  /\ hasResult = FALSE
  /\ phase = "idle"
  /\ todo = NoEntries /\ ordered = FALSE /\ numInput = 0
  /\ matched = NoEntries /\ count = 0
  /\ failed = FALSE
  /\ common = NoEntries /\ minTheta = MaxTheta /\ updates = 0

(* An empty result is final; an input of another seed is an error, unless  *)
(* it is empty.                                                            *)
Skips(view) == table.isEmpty \/ (~view.empty /\ view.seed # Seed)

UpdateSkipped(i) ==
  /\ phase = "idle"
  /\ Skips(i.view)
  /\ UNCHANGED vars

(* The scalars of the result after the call, whichever way it goes on. *)
NewTheta(view) == IF view.empty THEN MaxTheta ELSE Lower(table.theta, view.theta)

Accept(i) ==
  /\ phase = "idle" /\ ~failed /\ updates < MaxUpdates
  /\ ~Skips(i.view)
  /\ common' = IF updates = 0 THEN i.source ELSE MeetSum(common, i.source)
  /\ minTheta' = IF i.view.empty THEN minTheta ELSE Lower(minTheta, i.view.theta)
  /\ updates' = updates + 1
  /\ UNCHANGED failed

StartLoop(p, view) ==
  /\ phase' = p
  /\ todo' = view.entries
  /\ ordered' = view.ordered
  /\ numInput' = Cardinality(DOMAIN view.entries)
  /\ matched' = NoEntries
  /\ count' = 0

(* The result has no entries already: only its scalars change. *)
UpdateNothingLeft(i) ==
  /\ Accept(i)
  /\ hasResult /\ NumRetained(table) = 0
  /\ table' = [table EXCEPT !.theta = NewTheta(i.view), !.isEmpty = i.view.empty]
  /\ UNCHANGED <<hasResult, phase>> /\ UNCHANGED loop

UpdateNothingGiven(i) ==
  /\ Accept(i)
  /\ ~(hasResult /\ NumRetained(table) = 0)
  /\ DOMAIN i.view.entries = {}
  /\ hasResult' = TRUE
  /\ table' = DefaultTable(NewTheta(i.view), i.view.empty)
  /\ UNCHANGED phase /\ UNCHANGED loop

BeginFirst(i) ==
  /\ Accept(i)
  /\ ~hasResult /\ DOMAIN i.view.entries # {}
  /\ hasResult' = TRUE
  /\ table' = SizedTable(Cardinality(DOMAIN i.view.entries),
                         NewTheta(i.view), i.view.empty)
  /\ StartLoop("first", i.view)

BeginMatch(i) ==
  /\ Accept(i)
  /\ hasResult /\ NumRetained(table) # 0 /\ DOMAIN i.view.entries # {}
  /\ table' = [table EXCEPT !.theta = NewTheta(i.view), !.isEmpty = i.view.empty]
  /\ StartLoop("match", i.view)
  /\ UNCHANGED hasResult

Fail ==
  /\ failed' = TRUE
  /\ phase' = "idle"
  /\ todo' = NoEntries
  /\ UNCHANGED <<table, ordered, numInput, matched, count>>

(* The loops that fill a table: an entry that is not created is an error. *)
CopyEntry(h) ==
  /\ phase \in {"first", "rebuild"}
  /\ MayVisit(todo, ordered, h)
  /\ IF Creates(table, h)
     THEN /\ table' = UpsertEntry(table, h, todo[h], table.entries[h])
          /\ todo' = Without(todo, h)
          /\ UNCHANGED <<phase, ordered, numInput, matched, count, failed>>
     ELSE Fail
  /\ UNCHANGED hasResult /\ UNCHANGED history

EndCopy ==
  /\ phase \in {"first", "rebuild"} /\ DOMAIN todo = {}
  /\ IF phase = "first" /\ NumRetained(table) # numInput
     THEN Fail
     ELSE /\ phase' = "idle"
          /\ UNCHANGED <<table, failed>> /\ UNCHANGED loop
  /\ UNCHANGED hasResult /\ UNCHANGED history

MaxMatches == Lower(NumRetained(table), numInput)

MatchEntry(h) ==
  /\ phase = "match"
  /\ MayVisit(todo, ordered, h)
  /\ h < table.theta \/ ~ordered
  /\ LET hit == h < table.theta /\ h \in Retained(table)
     IN IF hit /\ Cardinality(DOMAIN matched) = MaxMatches
        THEN Fail
        ELSE /\ matched' = IF hit
                           THEN MergeSum(matched, [g \in {h} |-> table.entries[h] + todo[h]])
                           ELSE matched
             /\ todo' = Without(todo, h)
             /\ count' = count + 1
             /\ UNCHANGED <<table, phase, ordered, numInput, failed>>
  /\ UNCHANGED hasResult /\ UNCHANGED history

StopEarly(h) ==
  /\ phase = "match"
  /\ MayVisit(todo, ordered, h)
  /\ h >= table.theta /\ ordered
  /\ todo' = NoEntries
  /\ UNCHANGED <<table, hasResult, phase, ordered, numInput, matched, count, failed>>
  /\ UNCHANGED history

(* Fault: no match is taken to mean that the intersection is empty, even   *)
(* when keys above theta may be common.                                    *)
EndMatchDeclaresEmpty ==
  /\ phase = "match" /\ DOMAIN todo = {}
  /\ IF count > numInput \/ (~ordered /\ count < numInput)
     THEN Fail
     ELSE IF DOMAIN matched = {}
     THEN /\ table' = DefaultTable(table.theta, TRUE)
          /\ phase' = "idle"
          /\ UNCHANGED failed /\ UNCHANGED loop
     ELSE /\ table' = SizedTable(Cardinality(DOMAIN matched),
                                 table.theta, table.isEmpty)
          /\ phase' = "rebuild"
          /\ todo' = matched
          /\ UNCHANGED <<ordered, numInput, matched, count, failed>>
  /\ UNCHANGED hasResult /\ UNCHANGED history

(* The match loop is over: check its count, then build the new table. *)
EndMatch ==
  /\ phase = "match" /\ DOMAIN todo = {}
  /\ IF count > numInput \/ (~ordered /\ count < numInput)
     THEN Fail
     ELSE IF DOMAIN matched = {}
     THEN /\ table' = DefaultTable(table.theta,
                                   table.isEmpty \/ table.theta = MaxTheta)
          /\ phase' = "idle"
          /\ UNCHANGED failed /\ UNCHANGED loop
     ELSE /\ table' = SizedTable(Cardinality(DOMAIN matched),
                                 table.theta, table.isEmpty)
          /\ phase' = "rebuild"
          /\ todo' = matched
          /\ UNCHANGED <<ordered, numInput, matched, count, failed>>
  /\ UNCHANGED hasResult /\ UNCHANGED history

Next ==
  \/ \E i \in Inputs :
       \/ UpdateSkipped(i) \/ UpdateNothingLeft(i) \/ UpdateNothingGiven(i)
       \/ BeginFirst(i) \/ BeginMatch(i)
  \/ \E h \in DOMAIN todo : CopyEntry(h) \/ MatchEntry(h) \/ StopEarly(h)
  \/ EndCopy
  \/ EndMatch

Spec == Init /\ [][Next]_vars

(* to_compact_parts *)
Result(wantOrdered) ==
  [entries |-> table.entries, theta |-> table.theta, seed |-> Seed,
   ordered |-> wantOrdered, empty |-> table.isEmpty]

-------------------------------------------------------------------------------

(* Between two calls the result represents the intersection of the source  *)
(* sets of all inputs, each common key with the summaries of all of them:  *)
(* keys above the new theta that the table still holds, inputs left early  *)
(* because they are ordered, and the table built for the matched entries   *)
(* lose nothing and add nothing.  It is as precise as the least precise    *)
(* input, and exact when it is empty (IntersectionState::update).          *)
(* Inputs that honour their contract are never reported as corrupted: the  *)
(* tables built for their entries have room for all of them                *)
(* (lg_size_from_count_for_rebuild).                                       *)
ResultRepresentsIntersection ==
  /\ ~failed
  /\ phase = "idle" /\ hasResult =>
       /\ Represents(Result(TRUE), common)
       /\ table.theta = IF table.isEmpty THEN MaxTheta ELSE minTheta
===============================================================================
