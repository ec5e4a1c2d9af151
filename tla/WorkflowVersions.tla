-------------------------- MODULE WorkflowVersions --------------------------
(***************************************************************************)
(* One workflow and its numbered versions: WorkflowService, the part of    *)
(* start_execution that resolves a version, the tables' constraints, and   *)
(* the editor page that saves, runs and deletes what its query has loaded. *)
(*                                                                         *)
(* A handler reads in one statement and commits in a later one, at READ    *)
(* COMMITTED and without row locks; what guards a commit is the unique     *)
(* (workflow_id, version_number) and the foreign keys, whose violation     *)
(* rolls the request back.                                                 *)
(***************************************************************************)
EXTENDS Naturals, Sequences, FiniteSetsExt

CONSTANTS
  Page,         \* editor pages, each opened once
  Definition,   \* contents an editor can hold
  Invalid,      \* those that validate_workflow refuses
  Default,      \* DEFAULT_WORKFLOW, and the page's fallback when nothing is loaded
  MaxVersions,  \* bound on versions
  MaxClicks     \* bound on what the users do

ASSUME DefinitionAssumption == Invalid \subseteq Definition /\ Default \in Definition
ASSUME BoundsAssumption == MaxVersions \in Nat \ {0} /\ MaxClicks \in Nat

Nothing == [definition |-> Default, number |-> 0]
NoTarget == [number |-> 0, shown |-> Default, unsaved |-> FALSE]

VARIABLES
  workflow,    \* the row of workflows
  versions,    \* the rows of workflow_versions, in the order of their commits
  executions,  \* the rows of executions, with the page that started them
  at,          \* what each page shows
  cached,      \* the versions in the page's query cache
  seen,        \* and the updated_at beside them, 0 without data
  query,       \* the state of the page's query
  answer,      \* the versions its request has read
  stamp,       \* and the updated_at
  draft,       \* the editor's contents
  edited,      \* does the editor hold changes since it was last filled?
  save,        \* the state of saveMutation
  sending,     \* the definition it sends, and the number chosen for it
  saved,       \* the last version number this page was told of
  task,        \* the state of startExecutionMutation or deleteMutation
  target,      \* the version to start, with the editor's contents at the click,
               \* or the last version that the delete loaded
  clicks       \* what the users have done

tables == <<workflow, versions, executions>>
queries == <<cached, seen, query, answer, stamp>>
editor == <<draft, edited>>
saving == <<save, sending, saved>>
tasks == <<task, target>>
vars == <<tables, at, queries, editor, saving, tasks, clicks>>

Init ==
  /\ workflow = "none"
  /\ versions = <<>>
  /\ executions = {}
  /\ at = [p \in Page |-> "closed"]
  /\ cached = [p \in Page |-> <<>>]
  /\ seen = [p \in Page |-> 0]
  /\ query = [p \in Page |-> "idle"]
  /\ answer = [p \in Page |-> <<>>]
  /\ stamp = [p \in Page |-> 0]
  /\ draft = [p \in Page |-> Default]
  /\ edited = [p \in Page |-> FALSE]
  /\ save = [p \in Page |-> "idle"]
  /\ sending = [p \in Page |-> Nothing]
  /\ saved = [p \in Page |-> 0]
  /\ task = [p \in Page |-> "idle"]
  /\ target = [p \in Page |-> NoTarget]
  /\ clicks = 0

Numbers(rows) == {rows[i].number : i \in DOMAIN rows}
Newest(rows) == Max(Numbers(rows) \cup {0})
Latest(rows) == CHOOSE r \in Range(rows) : r.number = Newest(rows)

-----------------------------------------------------------------------------
(* The page and its query.                                                 *)

(* /workflows/new.  Other workflows than the first one are not modelled.   *)
OpenNew(p) ==
  /\ at[p] = "closed" /\ workflow = "none"
  /\ \A q \in Page : at[q] # "new"
  /\ at' = [at EXCEPT ![p] = "new"]
  /\ UNCHANGED <<tables, queries, editor, saving, tasks>>

(* A fetch starts; without data the page shows that it is loading.         *)
Asks(p) ==
  /\ query' = [query EXCEPT ![p] = "asked"]
  /\ answer' = [answer EXCEPT ![p] = <<>>]
  /\ stamp' = [stamp EXCEPT ![p] = 0]
  /\ at' = [at EXCEPT ![p] = IF seen[p] = 0 THEN "loading" ELSE @]
  /\ UNCHANGED <<cached, seen>>

OpenEditor(p) ==
  /\ at[p] = "closed" /\ workflow = "stored"
  /\ Asks(p)
  /\ UNCHANGED <<tables, editor, saving, tasks>>

(* The query is fetched again when the window gets the focus.              *)
Refocus(p) ==
  /\ at[p] = "editor" /\ query[p] \in {"idle", "failed"}
  /\ Asks(p)
  /\ UNCHANGED <<tables, editor, saving, tasks>>

(* get_workflow selects the workflow, whose updated_at the last save has   *)
(* set; which one that was is all the page can tell from it ...            *)
FindWorkflow(p) ==
  /\ query[p] = "asked" /\ workflow = "stored"
  /\ query' = [query EXCEPT ![p] = "found"]
  /\ stamp' = [stamp EXCEPT ![p] = Newest(versions)]
  /\ UNCHANGED <<tables, at, cached, seen, answer, editor, saving, tasks>>

(* ... and, in a second statement, its versions.                           *)
LoadVersions(p) ==
  /\ query[p] = "found"
  /\ query' = [query EXCEPT ![p] = "answered"]
  /\ answer' = [answer EXCEPT ![p] = versions]
  /\ UNCHANGED <<tables, at, cached, seen, stamp, editor, saving, tasks>>

(* Mutant: new data do not run the effect.                                 *)
FillNothing(p, different) ==
  IF different
  THEN /\ cached' = [cached EXCEPT ![p] = answer[p]]
       /\ seen' = [seen EXCEPT ![p] = stamp[p]]
       /\ UNCHANGED editor
  ELSE UNCHANGED <<cached, seen, editor>>

(* The answer replaces the data and fills the editor when it is different  *)
(* from them: equal data keep their identity and do not run the effect.    *)
Fill(p, different) ==
  IF different
  THEN /\ cached' = [cached EXCEPT ![p] = answer[p]]
       /\ seen' = [seen EXCEPT ![p] = stamp[p]]
       /\ draft' = [draft EXCEPT ![p] = IF answer[p] = <<>> THEN Default
                                        ELSE Latest(answer[p]).definition]
       /\ edited' = [edited EXCEPT ![p] = FALSE]
  ELSE UNCHANGED <<cached, seen, editor>>

Settles(p, state) ==
  /\ query' = [query EXCEPT ![p] = state]
  /\ answer' = [answer EXCEPT ![p] = <<>>]
  /\ stamp' = [stamp EXCEPT ![p] = 0]
  /\ at' = [at EXCEPT ![p] = IF @ = "loading" THEN "editor" ELSE @]

(* Mutant: the editor is filled at every fetch.                            *)
QueryArrivesAlways(p) ==
  /\ query[p] = "answered"
  /\ Fill(p, TRUE)
  /\ Settles(p, "idle")
  /\ UNCHANGED <<tables, saving, tasks>>

QueryArrives(p) ==
  /\ query[p] = "answered"
  /\ Fill(p, <<answer[p], stamp[p]>> # <<cached[p], seen[p]>>)
  /\ Settles(p, "idle")
  /\ UNCHANGED <<tables, saving, tasks>>

(* The last of the query's attempts fails: a 404, a 429, a 500 or no       *)
(* answer.  The data and the editor stay as they are; an earlier attempt   *)
(* leaves nothing behind and is the next one's "asked".                    *)
QueryFails(p) ==
  /\ query[p] \in {"asked", "found", "answered"}
  /\ Settles(p, "failed")
  /\ UNCHANGED <<tables, cached, seen, editor, saving, tasks>>

Edit(p) ==
  /\ at[p] \in {"new", "editor"}
  /\ \E d \in Definition \ {draft[p]} : draft' = [draft EXCEPT ![p] = d]
  /\ edited' = [edited EXCEPT ![p] = TRUE]
  /\ UNCHANGED <<tables, at, queries, saving, tasks>>

-----------------------------------------------------------------------------
(* Saving.                                                                 *)

HandleSave(p) ==
  /\ at[p] \in {"new", "editor"}
  /\ save[p] = "idle"
  /\ save' = [save EXCEPT ![p] = IF at[p] = "new" THEN "creating" ELSE "sent"]
  /\ sending' = [sending EXCEPT ![p] = [definition |-> draft[p], number |-> 0]]
  /\ UNCHANGED <<tables, at, queries, editor, saved, tasks>>

(* create_workflow: the workflow and its version 1 in one transaction.     *)
CreateWorkflow(p) ==
  /\ save[p] = "creating"
  /\ \/ /\ sending[p].definition \in Invalid
        /\ save' = [save EXCEPT ![p] = "refused"]
        /\ UNCHANGED <<tables, sending>>
     \/ /\ sending[p].definition \notin Invalid
        /\ sending' = [sending EXCEPT ![p].number = 1]
        /\ workflow' = "stored"
        /\ versions' = <<[sending[p] EXCEPT !.number = 1]>>
        /\ save' = [save EXCEPT ![p] = "stored"]
        /\ UNCHANGED <<executions>>
  /\ UNCHANGED <<at, queries, editor, saved, tasks>>

(* create_workflow_version: the workflow exists, the definition is valid,  *)
(* and the highest number is read.                                         *)
ReadMaxVersion(p) ==
  /\ save[p] = "sent"
  /\ \/ /\ workflow # "stored" \/ sending[p].definition \in Invalid
        /\ save' = [save EXCEPT ![p] = "refused"]
        /\ UNCHANGED sending
     \/ /\ workflow = "stored" /\ sending[p].definition \notin Invalid
        /\ Len(versions) < MaxVersions
        /\ sending' = [sending EXCEPT ![p].number = Newest(versions) + 1]
        /\ save' = [save EXCEPT ![p] = "numbered"]
  /\ UNCHANGED <<tables, at, queries, editor, saved, tasks>>

(* Mutant: no unique constraint on (workflow_id, version_number).          *)
CommitVersionAnyNumber(p) ==
  /\ save[p] = "numbered"
  /\ IF workflow = "stored"
     THEN /\ versions' = Append(versions, sending[p])
          /\ save' = [save EXCEPT ![p] = "stored"]
     ELSE /\ save' = [save EXCEPT ![p] = "refused"]
          /\ UNCHANGED versions
  /\ UNCHANGED <<workflow, executions, at, queries, editor, sending, saved, tasks>>

(* The insert and the commit; a taken number or a deleted workflow is an   *)
(* IntegrityError.                                                         *)
CommitVersion(p) ==
  /\ save[p] = "numbered"
  /\ IF workflow = "stored" /\ sending[p].number \notin Numbers(versions)
     THEN /\ versions' = Append(versions, sending[p])
          /\ save' = [save EXCEPT ![p] = "stored"]
     ELSE /\ save' = [save EXCEPT ![p] = "refused"]
          /\ UNCHANGED versions
  /\ UNCHANGED <<workflow, executions, at, queries, editor, sending, saved, tasks>>

Unpend(p) ==
  /\ save' = [save EXCEPT ![p] = "idle"]
  /\ sending' = [sending EXCEPT ![p] = Nothing]

(* onError: the message is shown and the editor stays as it is.            *)
SaveFails(p) ==
  /\ save[p] = "refused"
  /\ Unpend(p)
  /\ UNCHANGED <<tables, at, queries, editor, saved, tasks>>

(* The router moves a new workflow's page to its editor, which starts with *)
(* the default draft.                                                      *)
Moves(p) ==
  IF at[p] = "new"
  THEN draft' = [draft EXCEPT ![p] = Default] /\ edited' = [edited EXCEPT ![p] = FALSE]
  ELSE UNCHANGED editor

(* Mutant: a fetch that is under way is not cancelled.                     *)
SaveArrivesJoining(p) ==
  /\ save[p] = "stored"
  /\ Unpend(p)
  /\ IF at[p] = "left" THEN UNCHANGED <<at, queries, saved, editor>>
     ELSE /\ saved' = [saved EXCEPT ![p] = sending[p].number]
          /\ IF query[p] \in {"idle", "failed"} THEN Asks(p) ELSE UNCHANGED <<at, queries>>
          /\ Moves(p)
  /\ UNCHANGED <<tables, tasks>>

(* Mutant: the query is not invalidated.                                   *)
SaveArrivesQuietly(p) ==
  /\ save[p] = "stored"
  /\ Unpend(p)
  /\ IF at[p] = "left" THEN UNCHANGED <<at, queries, saved, editor>>
     ELSE /\ saved' = [saved EXCEPT ![p] = sending[p].number]
          /\ IF at[p] = "new" THEN Asks(p) ELSE UNCHANGED <<at, queries>>
          /\ Moves(p)
  /\ UNCHANGED <<tables, tasks>>

(* onSuccess: the query is invalidated, which cancels a fetch under way    *)
(* and starts another.                                                     *)
SaveArrives(p) ==
  /\ save[p] = "stored"
  /\ Unpend(p)
  /\ IF at[p] = "left" THEN UNCHANGED <<at, queries, saved, editor>>
     ELSE /\ saved' = [saved EXCEPT ![p] = sending[p].number]
          /\ Asks(p)
          /\ Moves(p)
  /\ UNCHANGED <<tables, tasks>>

-----------------------------------------------------------------------------
(* Running and deleting.                                                   *)

Becomes(p, state, version) ==
  /\ task' = [task EXCEPT ![p] = state]
  /\ target' = [target EXCEPT ![p] = version]

(* confirmRun takes the latest version of the cached workflow, whatever    *)
(* the editor shows.                                                       *)
ConfirmRun(p) ==
  /\ at[p] = "editor" /\ cached[p] # <<>>
  /\ task[p] = "idle"
  /\ Becomes(p, "starting",
             [number |-> Newest(cached[p]), shown |-> draft[p], unsaved |-> edited[p]])
  /\ UNCHANGED <<tables, at, queries, editor, saving>>

(* start_execution finds the version, or answers 404.                      *)
ResolveVersion(p) ==
  /\ task[p] = "starting"
  /\ IF target[p].number \in Numbers(versions) THEN Becomes(p, "resolved", target[p])
     ELSE Becomes(p, "idle", NoTarget)
  /\ UNCHANGED <<tables, at, queries, editor, saving>>

(* The execution is inserted: its foreign keys need the version's row.     *)
InsertExecution(p) ==
  /\ task[p] = "resolved"
  /\ IF target[p].number \in Numbers(versions)
     THEN /\ executions' = executions \cup
               {[by |-> p, version |-> target[p]]}
          /\ Becomes(p, "started", NoTarget)
     ELSE Becomes(p, "idle", NoTarget) /\ UNCHANGED <<executions>>
  /\ UNCHANGED <<workflow, versions, at, queries, editor, saving>>

HandleDelete(p) ==
  /\ at[p] = "editor" /\ task[p] = "idle"
  /\ Becomes(p, "deleting", NoTarget)
  /\ UNCHANGED <<tables, at, queries, editor, saving>>

(* delete_workflow selects the workflow and loads the versions to cascade  *)
(* to; no workflow is a 404.                                               *)
LoadForDelete(p) ==
  /\ task[p] = "deleting"
  /\ IF workflow = "stored" THEN Becomes(p, "loaded", [NoTarget EXCEPT !.number = Newest(versions)])
     ELSE Becomes(p, "idle", NoTarget)
  /\ UNCHANGED <<tables, at, queries, editor, saving>>

(* The versions that were loaded and the workflow are deleted.  A version  *)
(* added since then, an execution of any version, or the deletion by       *)
(* another request makes the flush fail.                                   *)
CommitDelete(p) ==
  /\ task[p] = "loaded"
  /\ IF workflow = "stored" /\ target[p].number = Len(versions) /\ executions = {}
     THEN workflow' = "deleted" /\ versions' = <<>> /\ Becomes(p, "deleted", NoTarget)
     ELSE Becomes(p, "idle", NoTarget) /\ UNCHANGED <<workflow, versions>>
  /\ UNCHANGED <<executions, at, queries, editor, saving>>

(* onSuccess of either: the router leaves the page, and with it go its     *)
(* editor and its query.                                                   *)
TaskArrives(p) ==
  /\ task[p] \in {"started", "deleted"}
  /\ Becomes(p, "idle", NoTarget)
  /\ at' = [at EXCEPT ![p] = "left"]
  /\ cached' = [cached EXCEPT ![p] = <<>>] /\ seen' = [seen EXCEPT ![p] = 0]
  /\ answer' = [answer EXCEPT ![p] = <<>>] /\ stamp' = [stamp EXCEPT ![p] = 0]
  /\ query' = [query EXCEPT ![p] = "idle"]
  /\ draft' = [draft EXCEPT ![p] = Default]
  /\ edited' = [edited EXCEPT ![p] = FALSE]
  /\ saved' = [saved EXCEPT ![p] = 0]
  /\ UNCHANGED <<tables, save, sending>>

(* DELETE /executions/{id}.                                                *)
DeleteExecution ==
  /\ \E e \in executions : executions' = executions \ {e}
  /\ UNCHANGED <<workflow, versions, at, queries, editor, saving, tasks>>

-----------------------------------------------------------------------------
ServerStep(p) ==
  \/ FindWorkflow(p) \/ LoadVersions(p)
  \/ CreateWorkflow(p) \/ ReadMaxVersion(p) \/ CommitVersion(p)
  \/ ResolveVersion(p) \/ InsertExecution(p) \/ LoadForDelete(p) \/ CommitDelete(p)

AnswerArrives(p) ==
  QueryArrives(p) \/ QueryFails(p) \/ SaveArrives(p) \/ SaveFails(p) \/ TaskArrives(p)

UserStep(p) ==
  \/ OpenNew(p) \/ OpenEditor(p) \/ Refocus(p) \/ Edit(p)
  \/ HandleSave(p) \/ ConfirmRun(p) \/ HandleDelete(p)

Next ==
  \/ DeleteExecution /\ UNCHANGED clicks
  \/ \E p \in Page :
       \/ UserStep(p) /\ clicks < MaxClicks /\ clicks' = clicks + 1
       \/ (ServerStep(p) \/ AnswerArrives(p)) /\ UNCHANGED clicks

Fairness == \A p \in Page :
  WF_vars((FindWorkflow(p) \/ LoadVersions(p) \/ QueryArrives(p) \/ QueryFails(p))
          /\ UNCHANGED clicks)

Spec == Init /\ [][Next]_vars /\ Fairness

-----------------------------------------------------------------------------
(* Properties.                                                             *)

Row == [definition : Definition, number : 1 .. MaxVersions]
Target == [number : 0 .. MaxVersions, shown : Definition, unsaved : BOOLEAN]

TypeOK ==
  /\ workflow \in {"none", "stored", "deleted"}
  /\ versions \in Seq(Row)
  /\ clicks \in 0 .. MaxClicks
  /\ executions \subseteq [by : Page, version : Target]
  /\ \A p \in Page :
       /\ at[p] \in {"closed", "new", "loading", "editor", "left"}
       /\ cached[p] \in Seq(Row) /\ seen[p] \in 0 .. MaxVersions
       /\ answer[p] \in Seq(Row) /\ stamp[p] \in 0 .. MaxVersions
       /\ query[p] \in {"idle", "asked", "found", "answered", "failed"}
       /\ draft[p] \in Definition /\ edited[p] \in BOOLEAN
       /\ save[p] \in {"idle", "creating", "sent", "numbered", "stored", "refused"}
       /\ sending[p] \in [definition : Definition, number : 0 .. MaxVersions]
       /\ saved[p] \in 0 .. MaxVersions
       /\ task[p] \in {"idle", "starting", "resolved", "started", "deleting", "loaded", "deleted"}
       /\ target[p] \in Target

(* The stored versions are numbered 1, 2, 3, ... without a gap and without *)
(* a repetition, whatever saves race: max() + 1 is chosen before the       *)
(* commit (workflow_service.py:121-127).  Rows and pages have their types. *)
VersionsNumbered == TypeOK /\ \A i \in DOMAIN versions : versions[i].number = i

(* An execution belongs to a version that exists, and if the editor held   *)
(* no changes when Run was confirmed, it runs what the editor showed,      *)
(* whatever was fetched, saved or deleted between the page's load and the  *)
(* insert (page.tsx:84-102, 173; execution_engine.py:46-76).               *)
RunsWhatWasShown ==
  \A e \in executions :
    \E i \in DOMAIN versions :
      /\ versions[i].number = e.version.number
      /\ e.version.unsaved \/ versions[i].definition = e.version.shown

(* A page whose last fetch succeeded has loaded the version it was last    *)
(* told it had saved, or a later one: Run does not start an older version  *)
(* then (page.tsx:118, the invalidation against a fetch already under      *)
(* way).  After a fetch that failed it may hold an older one.              *)
IdlePageKnowsItsSave ==
  \A p \in Page : (at[p] = "editor" /\ query[p] = "idle") =>
    saved[p] <= Newest(cached[p]) \/ workflow = "deleted"

(* Changes in the editor are dropped only for a version that the page had  *)
(* not loaded, because the workflow is gone or the page is left, or, once, *)
(* because a save fell between the two reads of an earlier fetch, whose    *)
(* updated_at was then older than its versions; any other fetch keeps them *)
(* (page.tsx:84, workflow_service.py:93-99, 139).                          *)
EditsGiveWayToNews ==
  [][\A p \in Page : (edited[p] /\ ~edited'[p]) =>
       \/ workflow = "deleted" \/ at'[p] = "left" \/ at[p] = "new"
       \/ Newest(cached'[p]) > Newest(cached[p])
       \/ seen[p] < Newest(cached[p]) /\ seen'[p] > seen[p]]_vars

(* A page that was told of its save shows that version, unless its fetch   *)
(* fails for good, the workflow is gone, or the page has been left.        *)
SaveIsShown ==
  \A p \in Page :
    saved[p] > Newest(cached[p]) ~>
      \/ saved[p] <= Newest(cached[p])
      \/ query[p] = "failed" \/ workflow = "deleted" \/ at[p] = "left"

=============================================================================
