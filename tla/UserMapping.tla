----------------------------- MODULE UserMapping -----------------------------
(***************************************************************************)
(* The mapping rows of users and the queue of ambiguous users:             *)
(* RuntimeService.users_map, resolve_user_mapping and users_review over    *)
(* one shared database, with the sessions and the two kinds of database of *)
(* RunLifecycle.                                                           *)
(*                                                                         *)
(* Which target a user matches is UserResolutionService's comparison of    *)
(* keys; here a call is given the outcome for each of its users: one       *)
(* match, several, or nobody.                                              *)
(*                                                                         *)
(* MappingRepository.upsert reads the row and assigns every column; the    *)
(* session then updates only the columns whose value differs from the one  *)
(* it read.  Where a late writer may overwrite, a call can so leave its    *)
(* own values in some columns and another call's in the rest.              *)
(***************************************************************************)
EXTENDS Naturals, Sequences

CONSTANTS Sessions,        \* concurrent callers
          Sources,         \* users of the source portal
          Targets,         \* users of the target portal
          ConflictAborts,  \* a write to a row changed since it was read aborts
          NoRow,           \* there is no such row
          NoTarget,        \* target_id is NULL
          MaxItems         \* bound: queue items a source ever gets

\* The columns the properties tell apart: status, target_id and
\* resolution_strategy, whose "manual_review_required" is "none" here.
Row == [status : {"resolved", "unmatched", "ambiguous"},
        target : Targets \cup {NoTarget},
        by     : {"match", "manual", "none"}]

ASSUME UserAssumption ==
  /\ ConflictAborts \in BOOLEAN
  /\ NoRow \notin Row
  /\ NoTarget \notin Targets
  /\ MaxItems \in Nat

VARIABLES rows,   \* migration_mappings, type users: [Sources -> Row or NoRow]
          queue,  \* migration_user_review_queue: per source its items, TRUE while open
          call    \* what each session is doing

vars == <<rows, queue, call>>

\* What the resolution policy finds for a user.  Skip: not in the request.
Skip == [kind |-> "skip"]
Nobody == [kind |-> "nobody"]
Several == [kind |-> "several"]
Match(t) == [kind |-> "match", target |-> t]
Outcomes == {Skip, Nobody, Several} \cup {Match(t) : t \in Targets}

Idle == [step |-> "idle"]

\* stale: the sources whose rows were written since the call read them.
MapCall == [step  : {"map"},
            batch : [Sources -> Outcomes],
            alone : BOOLEAN,            \* resolve_user_mapping, not users_map
            seen  : [Sources -> Row \cup {NoRow}],
            stale : SUBSET Sources]

ReviewCall == [step    : {"review"},
               source  : Sources,
               target  : Targets,
               seen    : Row \cup {NoRow},
               closing : SUBSET Nat,    \* the open items it read
               stale   : SUBSET Sources]

TypeOK ==
  /\ rows \in [Sources -> Row \cup {NoRow}]
  /\ queue \in [Sources -> Seq(BOOLEAN)]
  /\ call \in [Sessions -> {Idle} \cup MapCall \cup ReviewCall]

Init ==
  /\ rows = [x \in Sources |-> NoRow]
  /\ queue = [x \in Sources |-> <<>>]
  /\ call = [s \in Sessions |-> Idle]
-----------------------------------------------------------------------------
(* Rows *)

\* The values the code assigns: resolve_user on one match and on none,
\* sync_users on several, user_review.
Matched(t)   == [status |-> "resolved", target |-> t, by |-> "match"]
Unmatched    == [status |-> "unmatched", target |-> NoTarget, by |-> "none"]
Ambiguous    == [status |-> "ambiguous", target |-> NoTarget, by |-> "none"]
Reviewed(t)  == [status |-> "resolved", target |-> t, by |-> "manual"]

\* Faulty, for the mutation runs: the row of an ambiguous user takes the status
\* of its review item.
DecisionOpen(outcome) ==
  CASE outcome.kind = "match"   -> Matched(outcome.target)
    [] outcome.kind = "nobody"  -> Unmatched
    [] outcome.kind = "several" -> [Ambiguous EXCEPT !.status = "open"]

Decision(outcome) ==
  CASE outcome.kind = "match"   -> Matched(outcome.target)
    [] outcome.kind = "nobody"  -> Unmatched
    [] outcome.kind = "several" -> Ambiguous

\* Faulty, for the mutation runs: an update without a target keeps the old one.
UpsertKeepsTarget(row, seen, new) ==
  IF seen = NoRow \/ new.target # NoTarget THEN new
  ELSE [new EXCEPT !.target = row.target]

\* upsert and the flush that follows: an insert, or an update of the columns
\* whose new value differs from the value read.
Upsert(row, seen, new) ==
  IF seen = NoRow THEN new
  ELSE [status |-> IF new.status = seen.status THEN row.status ELSE new.status,
        target |-> IF new.target = seen.target THEN row.target ELSE new.target,
        by     |-> IF new.by = seen.by THEN row.by ELSE new.by]

\* May the database take a call's writes to these rows?  The unique key
\* refuses an insert of a row that another call has inserted.
MayWrite(written, seen, stale) ==
  /\ \A x \in written : seen[x] = NoRow => rows[x] = NoRow
  /\ ConflictAborts => written \cap stale = {}

\* The calls after session s has committed writes to these rows.
CallsAfter(s, written) ==
  [t \in Sessions |->
     IF t = s THEN Idle
     ELSE IF call[t] = Idle \/ ~ConflictAborts THEN call[t]
     ELSE [call[t] EXCEPT !.stale = @ \cup written]]

Open(x) == {i \in DOMAIN queue[x] : queue[x][i]}
-----------------------------------------------------------------------------
(* users_map and resolve_user_mapping *)

\* The call reads the row of each of its users.
BeginMap(s, batch, alone) ==
  /\ call[s] = Idle
  /\ call' = [call EXCEPT
                ![s] = [step  |-> "map", batch |-> batch, alone |-> alone,
                        seen  |-> [x \in Sources |->
                                     IF batch[x] = Skip THEN NoRow ELSE rows[x]],
                        stale |-> {}]]
  /\ UNCHANGED <<rows, queue>>

\* users_map takes any list of users, resolve_user_mapping exactly one.
UsersMap(s) ==
  \E batch \in [Sources -> Outcomes] :
    /\ \E x \in Sources : batch[x] # Skip
    /\ BeginMap(s, batch, FALSE)

ResolveUser(s) ==
  \E x \in Sources, o \in Outcomes \ {Skip} :
    BeginMap(s, [y \in Sources |-> IF y = x THEN o ELSE Skip], TRUE)

\* Faulty, for the mutation runs: users_map queues nobody.
QueuedAlone(c) == {x \in Sources : c.alone /\ c.batch[x] = Several}

Queued(c) == {x \in Sources : c.batch[x] = Several}

\* resolve_user writes no row for an ambiguous user; sync_users adds it.
Written(c) == {x \in Sources : c.batch[x] # Skip}
                \ (IF c.alone THEN Queued(c) ELSE {})

CommitMap(s) ==
  LET c == call[s]
  IN /\ c.step = "map"
     /\ \A x \in Queued(c) : Len(queue[x]) < MaxItems
     /\ MayWrite(Written(c), c.seen, c.stale)
     /\ rows' = [x \in Sources |->
                   IF x \in Written(c)
                   THEN Upsert(rows[x], c.seen[x], Decision(c.batch[x]))
                   ELSE rows[x]]
     /\ queue' = [x \in Sources |->
                    IF x \in Queued(c) THEN Append(queue[x], TRUE)
                    ELSE queue[x]]
     /\ call' = CallsAfter(s, Written(c))
-----------------------------------------------------------------------------
(* users_review *)

\* The call reads the open items of the source and its row.
BeginReview(s, x, t) ==
  /\ call[s] = Idle
  /\ call' = [call EXCEPT
                ![s] = [step |-> "review", source |-> x, target |-> t,
                        seen |-> rows[x], closing |-> Open(x), stale |-> {}]]
  /\ UNCHANGED <<rows, queue>>

\* close_open_by_source: the items read are closed, later ones are not.
Close(items, closing) == [i \in DOMAIN items |-> items[i] /\ i \notin closing]

\* Faulty, for the mutation runs: a decision on a user that was resolved when
\* the call read it is not written.
CommitReviewUnlessResolved(s) ==
  LET c == call[s]
      x == c.source
  IN /\ c.step = "review"
     /\ MayWrite({x}, [y \in {x} |-> c.seen], c.stale)
     /\ rows' = IF c.seen # NoRow /\ c.seen.status = "resolved" THEN rows
                ELSE [rows EXCEPT ![x] = Upsert(@, c.seen, Reviewed(c.target))]
     /\ queue' = [queue EXCEPT ![x] = Close(@, c.closing)]
     /\ call' = CallsAfter(s, {x})

\* It closes the items it read and writes the decision.
CommitReview(s) ==
  LET c == call[s]
      x == c.source
  IN /\ c.step = "review"
     /\ MayWrite({x}, [y \in {x} |-> c.seen], c.stale)
     /\ ConflictAborts => c.closing \subseteq Open(x)
     /\ rows' = [rows EXCEPT ![x] = Upsert(@, c.seen, Reviewed(c.target))]
     /\ queue' = [queue EXCEPT ![x] = Close(@, c.closing)]
     /\ call' = CallsAfter(s, {x})

\* An exception, a refused write or the death of the process: rolled back.
FailCall(s) ==
  /\ call[s] # Idle
  /\ call' = [call EXCEPT ![s] = Idle]
  /\ UNCHANGED <<rows, queue>>
-----------------------------------------------------------------------------
Step(s) ==
  \/ UsersMap(s)
  \/ ResolveUser(s)
  \/ CommitMap(s)
  \/ \E x \in Sources, t \in Targets : BeginReview(s, x, t)
  \/ CommitReview(s)
  \/ FailCall(s)

Next == \E s \in Sessions : Step(s)

Spec == Init /\ [][Next]_vars
-----------------------------------------------------------------------------
(* Properties *)

\* A user reported ambiguous can be found: while a row says "ambiguous", the
\* queue the operator works from holds an open item of the source, whatever
\* calls overlap and whichever columns a late writer overwrites.
AmbiguousHasOpenReview ==
  \A x \in Sources :
    (rows[x] # NoRow /\ rows[x].status = "ambiguous") => Open(x) # {}

\* A row holds what one call decided, never the columns of two: what the data
\* plane takes for a user map (resolved rows with a target) is then what the
\* verifier and the cutover inspection count as resolved.
RowsAreWhole ==
  \A x \in Sources : rows[x] # NoRow =>
    \/ rows[x] \in {Unmatched, Ambiguous}
    \/ \E t \in Targets : rows[x] \in {Matched(t), Reviewed(t)}

\* A review that was answered with "resolved" has resolved the user, to the
\* target the reviewer chose.
ReviewTakesEffect ==
  [][\A s \in Sessions :
       (call[s].step = "review" /\ CommitReview(s)) =>
         rows'[call[s].source] = Reviewed(call[s].target)]_vars
==============================================================================
