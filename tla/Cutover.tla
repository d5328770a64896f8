------------------------------- MODULE Cutover -------------------------------
(***************************************************************************)
(* RuntimeService.cutover_readiness over the mapping rows that the data    *)
(* plane keeps writing: the target inspection in one transaction, the      *)
(* verification report in a second, and the answer made of the two.        *)
(*                                                                         *)
(* Both transactions look at the rows list_all returns: the Limit rows     *)
(* that were updated last.  The writers are the calls of DataPlane, here   *)
(* one row at a time: a commit of several rows is several steps that no    *)
(* reader comes between.  verify:counts passes always, and verify:relations *)
(* finds nothing in whole rows (DataPlane's RowsAreWhole), so neither is   *)
(* modelled; nor is the status of the run, which the verifier ignores.     *)
(***************************************************************************)
EXTENDS Integers, SequencesExt

CONSTANTS Sessions,    \* callers that ask for the readiness of a run
          Entities,    \* entities of the source portal
          TypeOf,      \* [Entities -> entity types], "users" among them
          Files,       \* the entities of type file_refs or crm_file_refs
          Blank,       \* the entities whose source_id is the empty text
          Targets,     \* identifiers on the target portal
          Limit,       \* rows a transaction looks at (5000)
          NoRow,       \* there is no such row
          None,        \* target_id is NULL
          MaxReports   \* bound: reports saved

\* "error" stands for a blocked row and for an unmatched user.
Row == [status : {"resolved"}, target : Targets]
         \cup [status : {"ambiguous", "error"}, target : {None}]

ASSUME CutoverAssumption ==
  /\ Files \subseteq Entities
  /\ DOMAIN TypeOf = Entities
  /\ Blank \subseteq Entities
  /\ \A e, f \in Blank : TypeOf[e] = TypeOf[f] => e = f   \* the unique key
  /\ Limit \in Nat
  /\ NoRow \notin Row
  /\ None \notin Targets
  /\ MaxReports \in Nat

VARIABLES rows,     \* migration_mappings: [Entities -> Row or NoRow]
          recent,   \* the entities with a row, the one updated last first
          reports,  \* verification reports saved, five rows each
          call      \* what each session is doing

vars == <<rows, recent, reports, call>>

Idle == [step |-> "idle"]

\* clear: the inspection counted no unresolved row.
Inspected == [step : {"inspected"}, clear : BOOLEAN]

\* missed, of a "ready" answer: what was not settled in the whole table at the
\* report, each row with the number of rows updated after it (history).
Missing == [entity : Entities, row : Row, newer : Nat]

Answered == [step : {"answered"}, ready : BOOLEAN,
             missed : SUBSET Missing]

TypeOK ==
  /\ rows \in [Entities -> Row \cup {NoRow}]
  /\ recent \in Seq(Entities)
  /\ reports \in 0 .. MaxReports
  /\ call \in [Sessions -> {Idle} \cup Inspected \cup Answered]

Init ==
  /\ rows = [e \in Entities |-> NoRow]
  /\ recent = <<>>
  /\ reports = 0
  /\ call = [s \in Sessions |-> Idle]
-----------------------------------------------------------------------------
(* What the two transactions compute *)

\* list_all: newest updated_at first, cut off at the limit.
Listed == IF Len(recent) <= Limit THEN recent ELSE SubSeq(recent, 1, Limit)

\* CutoverService.target_inspection counts unmatched and blocked rows, and
\* leaves the ambiguous ones out.
InspectionClear == \A e \in ToSet(Listed) : rows[e].status # "error"

SameBinding(e, f) == TypeOf[e] = TypeOf[f] /\ rows[e].target = rows[f].target

\* Faulty, for the mutation runs: a row is compared with the one before it.
DuplicateNeighbours(list) ==
  Cardinality({i \in 2 .. Len(list) :
                 /\ rows[list[i]].status = "resolved"
                 /\ SameBinding(list[i - 1], list[i])})

\* One row of the pass: the first source of every type and target is kept, and
\* a row that meets another source there is a conflict.  A blank source is no
\* source to the test, and the next row takes its place.
Visit(acc, e) ==
  IF rows[e].status # "resolved" THEN acc
  ELSE IF \E f \in acc.seen \ Blank : SameBinding(e, f) /\ e # f
       THEN [acc EXCEPT !.conflicts = @ + 1]
       ELSE [acc EXCEPT !.seen = {f \in @ : ~SameBinding(e, f)} \cup {e}]

\* The pass: what is kept and counted after each row of the list.
Passed(list) ==
  LET after[i \in 0 .. Len(list)] ==
        IF i = 0 THEN [seen |-> {}, conflicts |-> 0]
        ELSE Visit(after[i - 1], list[i])
  IN after

\* _duplicate_target_bindings: the conflicts of the whole pass.
DuplicateBindings(list) == Passed(list)[Len(list)].conflicts

\* Faulty, for the mutation runs: the verifier skips the ambiguous rows as the
\* inspection does.
VerifiedAsInspected ==
  /\ InspectionClear
  /\ DuplicateBindings(Listed) = 0
  /\ \A e \in ToSet(Listed) \cap Files : rows[e].status # "resolved"

\* VerificationService.verify_run, all_passed: verify:integrity, and verify:files
\* which calls every migrated file reference partial.
AllPassed ==
  /\ \A e \in ToSet(Listed) : rows[e].status = "resolved"
  /\ DuplicateBindings(Listed) = 0
  /\ \A e \in ToSet(Listed) \cap Files : rows[e].status # "resolved"

\* The reference: an entity is settled when it is bound to a target that no
\* other entity of its type has, and all of it has been copied.
Settled(e) ==
  /\ rows[e].status = "resolved"
  /\ e \notin Files
  /\ \A f \in ToSet(recent) : f # e => ~SameBinding(e, f)

Missed == {[entity |-> recent[i], row |-> rows[recent[i]], newer |-> i - 1] :
             i \in {j \in DOMAIN recent : ~Settled(recent[j])}}
-----------------------------------------------------------------------------
(* Actions *)

\* Faulty, for the mutation runs: the target is not saved.
WriteNoTarget(e, row) ==
  /\ row.status = "ambiguous" => TypeOf[e] = "users"
  /\ rows' = [rows EXCEPT ![e] = [row EXCEPT !.target = None]]
  /\ recent' = <<e>> \o RemoveFirst(recent, e)
  /\ UNCHANGED <<reports, call>>

\* A call of the data plane commits a row of an entity; ambiguous are users.
Write(e, row) ==
  /\ row.status = "ambiguous" => TypeOf[e] = "users"
  /\ rows' = [rows EXCEPT ![e] = row]
  /\ recent' = <<e>> \o RemoveFirst(recent, e)
  /\ UNCHANGED <<reports, call>>

\* cutover_readiness: the first transaction.
Inspect(s) ==
  /\ call[s] = Idle
  /\ call' = [call EXCEPT ![s] = [step |-> "inspected",
                                  clear |-> InspectionClear]]
  /\ UNCHANGED <<rows, recent, reports>>

\* CutoverService.cutover_readiness: nothing blocks.
Ready(inspected) == inspected.clear /\ AllPassed

\* The second, get_report: it saves the report, and the answer follows.
Report(s) ==
  /\ call[s].step = "inspected"
  /\ reports < MaxReports
  /\ reports' = reports + 1
  /\ LET ready == Ready(call[s])
     IN call' = [call EXCEPT ![s] = [step |-> "answered",
                                     ready |-> ready,
                                     missed |-> IF ready THEN Missed ELSE {}]]
  /\ UNCHANGED <<rows, recent>>

\* get_report asked for by itself saves the same rows.
ReportAlone ==
  /\ reports < MaxReports
  /\ reports' = reports + 1
  /\ UNCHANGED <<rows, recent, call>>

\* The caller has its answer, or RUN_NOT_FOUND or another exception instead.
Return(s) ==
  /\ call[s] # Idle
  /\ call' = [call EXCEPT ![s] = Idle]
  /\ UNCHANGED <<rows, recent, reports>>
-----------------------------------------------------------------------------
Next ==
  \/ \E e \in Entities, row \in Row : Write(e, row)
  \/ \E s \in Sessions : Inspect(s) \/ Report(s) \/ Return(s)
  \/ ReportAlone

Spec == Init /\ [][Next]_vars
-----------------------------------------------------------------------------
(* Properties *)

\* Two rows bound to one target, of which the report saw only one, or took the
\* newer one for none because its source is blank.
Hidden(m, n) ==
  /\ n.row = m.row
  /\ TypeOf[n.entity] = TypeOf[m.entity]
  /\ \/ n.newer >= Limit
     \/ n.newer < m.newer /\ n.entity \in Blank
     \/ m.newer < n.newer /\ m.entity \in Blank

\* When the answer is "ready", whatever was not settled at the report had been
\* pushed out of its view by Limit later rows: the row itself or, of two rows
\* bound to one target, the other; or the pass had overlooked a blank source.
ReadyWithinLimit ==
  \A s \in Sessions :
    (call[s].step = "answered" /\ call[s].ready) =>
      \A m \in call[s].missed :
        m.newer >= Limit \/ \E n \in call[s].missed : Hidden(m, n)

\* The blank sources that come first of several rows bound to one target.
Overlooked(list) ==
  LET bound == {i \in DOMAIN list : rows[list[i]].status = "resolved"}
  IN {list[i] : i \in
        {j \in bound :
           /\ list[j] \in Blank
           /\ ~\E k \in bound : k < j /\ SameBinding(list[k], list[j])
           /\ \E k \in bound : k > j /\ SameBinding(list[k], list[j])}}

\* The one pass over the rows counts every row beyond the first of each target,
\* however the rows of other types and other targets lie between them, but for
\* one where the first of them has a blank source.
DuplicatesCounted ==
  LET bound == {e \in ToSet(Listed) : rows[e].status = "resolved"}
  IN DuplicateBindings(Listed) =
       Cardinality(bound)
         - Cardinality({<<TypeOf[e], rows[e].target>> : e \in bound})
         - Cardinality(Overlooked(Listed))

\* "ready" comes with an empty list of blocking issues, where the other answer
\* names "unresolved_mappings": at the report no mapping was unresolved.
ReadyMeansResolved ==
  \A s \in Sessions :
    (call[s].step = "answered" /\ call[s].ready) =>
      \A m \in call[s].missed : m.row.status = "resolved"
==============================================================================
