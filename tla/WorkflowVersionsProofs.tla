----------------------- MODULE WorkflowVersionsProofs -----------------------
(***************************************************************************)
(* The safety of WorkflowVersions for every number of pages, every set of  *)
(* definitions and every bound on versions and clicks.                     *)
(***************************************************************************)
EXTENDS WorkflowVersions, TLAPS

(* The rows are numbered 1, 2, 3, ...                                      *)
Numbered(rows) == \A i \in 1 .. Len(rows) : rows[i].number = i

(* The rows are what the table once was: its first ones.                   *)
StartOf(rows, table) ==
  /\ Len(rows) <= Len(table)
  /\ \A i \in 1 .. Len(rows) : rows[i] = table[i]

(* What a page sends.                                                      *)
Sent == [definition : Definition, number : 0 .. MaxVersions]

(* TypeOK, with the functions' domains.                                    *)
PageTypes ==
  /\ at \in [Page -> {"closed", "new", "loading", "editor", "left"}]
  /\ cached \in [Page -> Seq(Row)]
  /\ seen \in [Page -> 0 .. MaxVersions]
  /\ answer \in [Page -> Seq(Row)]
  /\ stamp \in [Page -> 0 .. MaxVersions]
  /\ query \in [Page -> {"idle", "asked", "found", "answered", "failed"}]
  /\ draft \in [Page -> Definition]
  /\ edited \in [Page -> BOOLEAN]

RequestTypes ==
  /\ save \in [Page -> {"idle", "creating", "sent", "numbered", "stored", "refused"}]
  /\ sending \in [Page -> Sent]
  /\ saved \in [Page -> 0 .. MaxVersions]
  /\ task \in [Page -> {"idle", "starting", "resolved", "started", "deleting", "loaded", "deleted"}]
  /\ target \in [Page -> Target]

TableTypes ==
  /\ workflow \in {"none", "stored", "deleted"}
  /\ versions \in Seq(Row)
  /\ executions \subseteq [by : Page, version : Target]
  /\ clicks \in 0 .. MaxClicks

Types == PageTypes /\ RequestTypes /\ TableTypes

(* A version of this number is stored, and holds what the editor showed,   *)
(* had it no changes.                                                      *)
Runs(t, table) ==
  /\ t.number \in 1 .. Len(table)
  /\ t.unsaved \/ table[t.number].definition = t.shown

(* The tables: a workflow that is stored has versions, and they are        *)
(* numbered; no execution without its version.                             *)
Tables ==
  /\ Numbered(versions)
  /\ workflow = "stored" <=> versions # <<>>
  /\ \A e \in executions : Runs(e.version, versions)

(* Only one page creates the workflow, and no other has one before; what   *)
(* a page waits for fits what it shows.                                    *)
Pages ==
  \A p \in Page :
    /\ at[p] = "new" => \A q \in Page : at[q] = "new" => q = p
    /\ at[p] = "new" /\ save[p] # "stored" => workflow = "none"
    /\ save[p] = "creating" => at[p] = "new"
    /\ at[p] \in {"loading", "editor"} \/ save[p] \in {"sent", "numbered", "stored"}
         => workflow # "none"
    /\ query[p] # "idle" => at[p] \in {"loading", "editor"}
    /\ at[p] = "closed" => save[p] = "idle"
    /\ task[p] # "idle" => at[p] \in {"loading", "editor"}

(* The numbers that are about to be committed, or have been.               *)
SavesNumbered ==
  \A p \in Page :
    /\ save[p] \in {"numbered", "stored"} => sending[p].number > 0
    /\ workflow = "stored" =>
         /\ save[p] = "numbered" => sending[p].number <= Len(versions) + 1
         /\ save[p] = "stored" => sending[p].number <= Len(versions)
    /\ workflow # "deleted" => saved[p] <= Len(versions)

(* What a page has loaded was once the table, and a later load is not      *)
(* shorter; as long as the workflow exists it still is the table's start.  *)
Loaded ==
  \A p \in Page :
    /\ Numbered(cached[p]) /\ Numbered(answer[p])
    /\ workflow # "deleted" => StartOf(cached[p], versions) /\ StartOf(answer[p], versions)
    /\ at[p] \in {"closed", "new"} => cached[p] = <<>> /\ seen[p] = 0
    /\ query[p] = "answered" /\ workflow # "deleted" =>
         /\ answer[p] # <<>>
         /\ Len(cached[p]) <= Len(answer[p])
         /\ saved[p] <= Len(answer[p])
    /\ at[p] = "editor" /\ query[p] = "idle" /\ workflow # "deleted" => saved[p] <= Len(cached[p])

(* The updated_at that a page holds or reads is that of a stored version,  *)
(* a later fetch reads no earlier one, and the versions are read after it. *)
Stamped ==
  \A p \in Page : workflow # "deleted" =>
    /\ seen[p] <= Len(versions) /\ stamp[p] <= Len(versions)
    /\ query[p] \in {"found", "answered"} => seen[p] <= stamp[p]
    /\ query[p] = "answered" => stamp[p] <= Len(answer[p])

(* An editor without changes shows the latest version of its data.         *)
Shows ==
  \A p \in Page : ~edited[p] /\ cached[p] # <<>> => draft[p] = cached[p][Len(cached[p])].definition

(* The version that a page wants to run is the stored one of that number.  *)
TargetsStored ==
  \A p \in Page : task[p] \in {"starting", "resolved"} =>
    /\ target[p].number > 0
    /\ workflow = "stored" => Runs(target[p], versions)

IndInv ==
  /\ Types /\ Tables /\ Pages /\ SavesNumbered
  /\ Loaded /\ Stamped /\ Shows /\ TargetsStored

-----------------------------------------------------------------------------
(* The operators on rows.                                                  *)

(* Of numbered rows the newest is the last one.                            *)
LEMMA NewestIsLast ==
  ASSUME NEW rows \in Seq(Row), Numbered(rows)
  PROVE  /\ Numbers(rows) = 1 .. Len(rows)
         /\ Newest(rows) = Len(rows)
         /\ rows # <<>> => Latest(rows) = rows[Len(rows)]
         /\ rows # <<>> => Latest(rows) \in Row /\ Latest(rows).number = Len(rows)
<1>1. Numbers(rows) = 1 .. Len(rows)
  BY DEF Numbers, Numbered
<1>2. Newest(rows) = Len(rows)
  <2>1. /\ Len(rows) \in Numbers(rows) \cup {0}
        /\ \A y \in Numbers(rows) \cup {0} : Len(rows) >= y
        /\ Len(rows) \in Nat
    BY <1>1
  <2>2. \A x \in Numbers(rows) \cup {0} :
          (\A y \in Numbers(rows) \cup {0} : x >= y) => x = Len(rows)
    BY <1>1, <2>1
  <2> QED
    BY <2>1, <2>2, Zenon DEF Newest, Max
<1>3. ASSUME rows # <<>>
      PROVE  Latest(rows) = rows[Len(rows)] /\ Latest(rows) \in Row /\ Latest(rows).number = Len(rows)
  <2>1. Len(rows) \in 1 .. Len(rows) /\ DOMAIN rows = 1 .. Len(rows)
    BY <1>3
  <2>2. rows[Len(rows)] \in Range(rows) /\ rows[Len(rows)].number = Newest(rows)
    BY <1>2, <2>1, Zenon DEF Range, Numbered
  <2>3. \A r \in Range(rows) : r.number = Newest(rows) => r = rows[Len(rows)]
    BY <1>2, <2>1 DEF Range, Numbered
  <2>4. Latest(rows) = rows[Len(rows)]
    BY <2>2, <2>3, Zenon DEF Latest
  <2> QED
    BY <2>1, <2>2, <2>4, <1>2
<1> QED
  BY <1>1, <1>2, <1>3, Zenon

(* Rows of the same length that agree everywhere are the same.             *)
LEMMA SameRows ==
  ASSUME NEW a \in Seq(Row), NEW b \in Seq(Row), Len(a) = Len(b),
         \A i \in 1 .. Len(b) : a[i] = b[i]
  PROVE  a = b
OBVIOUS

(* Empty rows, a whole table, and a table that grows.                      *)
LEMMA StartFacts ==
  /\ Numbered(<<>>) /\ <<>> \in Seq(Row)
  /\ \A table \in Seq(Row) : StartOf(<<>>, table) /\ StartOf(table, table)
  /\ \A rows, table \in Seq(Row), r \in Row :
       StartOf(rows, table) => StartOf(rows, Append(table, r))
  /\ \A rows \in Seq(Row) : StartOf(rows, <<>>) => rows = <<>>
  /\ \A rows, table \in Seq(Row) : StartOf(rows, table) => Len(rows) <= Len(table)
<1>1. Numbered(<<>>) /\ <<>> \in Seq(Row)
  BY DEF Numbered
<1>2. \A table \in Seq(Row) : StartOf(<<>>, table) /\ StartOf(table, table)
  BY DEF StartOf
<1>3. ASSUME NEW rows \in Seq(Row), NEW table \in Seq(Row), NEW r \in Row, StartOf(rows, table)
      PROVE  StartOf(rows, Append(table, r))
  BY <1>3 DEF StartOf
<1>4. ASSUME NEW rows \in Seq(Row), StartOf(rows, <<>>) PROVE rows = <<>>
  BY <1>4 DEF StartOf
<1>5. \A rows, table \in Seq(Row) : StartOf(rows, table) => Len(rows) <= Len(table)
  BY Zenon DEF StartOf
<1> QED
  BY <1>1, <1>2, <1>3, <1>4, <1>5, Zenon

(* A page sends nothing, or a row, and may be given another number; what   *)
(* it wants to run or delete has its type.                                 *)
LEMMA SentFacts ==
  /\ Nothing \in Sent /\ Row \subseteq Sent /\ NoTarget \in Target
  /\ \A s \in Sent, k \in 0 .. MaxVersions : [s EXCEPT !.number = k] \in Sent
  /\ \A k \in 0 .. MaxVersions : [NoTarget EXCEPT !.number = k] \in Target
  /\ \A k \in 0 .. MaxVersions, d \in Definition, b \in BOOLEAN :
       [number |-> k, shown |-> d, unsaved |-> b] \in Target
  /\ 0 \in 0 .. MaxVersions
<1>1. Nothing \in Sent /\ Row \subseteq Sent /\ 0 \in 0 .. MaxVersions
  BY DefinitionAssumption, BoundsAssumption DEF Nothing, Sent, Row
<1>2. \A s \in Sent, k \in 0 .. MaxVersions : [s EXCEPT !.number = k] \in Sent
  BY Zenon DEF Sent
<1>3. \A k \in 0 .. MaxVersions, d \in Definition, b \in BOOLEAN :
        [number |-> k, shown |-> d, unsaved |-> b] \in Target
  BY Zenon DEF Target
<1>4. NoTarget \in Target
  BY <1>1, <1>3, DefinitionAssumption, Zenon DEF NoTarget
<1>5. ASSUME NEW k \in 0 .. MaxVersions PROVE [NoTarget EXCEPT !.number = k] \in Target
  BY <1>4, <1>5, Zenon DEF Target
<1> QED
  BY <1>1, <1>2, <1>3, <1>4, <1>5, Zenon

(* A step that leaves the variables of a conjunct alone keeps it.          *)
LEMMA Frames ==
  ASSUME IndInv
  PROVE  /\ UNCHANGED <<at, queries, editor>> => PageTypes'
         /\ UNCHANGED <<saving, tasks>> => RequestTypes'
         /\ UNCHANGED tables /\ clicks' \in 0 .. MaxClicks => TableTypes'
         /\ UNCHANGED tables => Tables'
         /\ UNCHANGED <<workflow, at, query, save, task>> => Pages'
         /\ UNCHANGED <<workflow, versions, saving>> => SavesNumbered'
         /\ UNCHANGED <<workflow, versions, at, queries, saved>> => Loaded'
         /\ UNCHANGED <<workflow, versions, queries>> => Stamped'
         /\ UNCHANGED <<cached, editor>> => Shows'
         /\ UNCHANGED <<workflow, versions, tasks>> => TargetsStored'
<1> USE DEF IndInv, Types
<1>1. UNCHANGED <<at, queries, editor>> => PageTypes'
  BY Zenon DEF PageTypes, queries, editor
<1>2. UNCHANGED <<saving, tasks>> => RequestTypes'
  BY Zenon DEF RequestTypes, saving, tasks
<1>3. UNCHANGED tables /\ clicks' \in 0 .. MaxClicks => TableTypes'
  BY Zenon DEF TableTypes, tables
<1>4. UNCHANGED tables => Tables'
  BY Zenon DEF Tables, Numbered, Runs, tables
<1>5. UNCHANGED <<workflow, at, query, save, task>> => Pages'
  BY DEF Pages
<1>6. UNCHANGED <<workflow, versions, saving>> => SavesNumbered'
  BY Zenon DEF SavesNumbered, saving
<1>7. UNCHANGED <<workflow, versions, at, queries, saved>> => Loaded'
  BY Zenon DEF Loaded, queries
<1>8. UNCHANGED <<workflow, versions, tasks>> => TargetsStored'
  BY Zenon DEF TargetsStored, Runs, tasks
<1>9. UNCHANGED <<workflow, versions, queries>> => Stamped'
  BY Zenon DEF Stamped, queries
<1>10. UNCHANGED <<cached, editor>> => Shows'
  BY Zenon DEF Shows, editor
<1> QED
  BY <1>1, <1>2, <1>3, <1>4, <1>5, <1>6, <1>7, <1>8, <1>9, <1>10, Zenon

(* The page of a new workflow is opened before the workflow exists, and    *)
(* fetches nothing.                                                        *)
LEMMA OpenNewInd ==
  ASSUME IndInv, NEW p \in Page, OpenNew(p), clicks' \in 0 .. MaxClicks
  PROVE  IndInv'
<1> USE DEF IndInv, OpenNew, tables, queries, editor, saving, tasks
<1>1. PageTypes'
  BY StartFacts, DefinitionAssumption, Zenon DEF Types, PageTypes
<1>2. Pages'
  BY DEF Types, PageTypes, RequestTypes, TableTypes, Pages
<1>3. Loaded'
  BY StartFacts, Zenon DEF Types, PageTypes, TableTypes, Loaded
<1> QED
  BY Frames, <1>1, <1>2, <1>3, Zenon DEF Types

(* A fetch starts, and an earlier one is forgotten: what the page will be  *)
(* answered is read later, by FindWorkflow and LoadVersions.               *)
LEMMA AsksKeeps ==
  ASSUME IndInv, NEW p \in Page, Asks(p), UNCHANGED <<workflow, versions>>, workflow # "none",
         at[p] # "left", \A q \in Page \ {p} : saved'[q] = saved[q]
  PROVE  Loaded' /\ Stamped'
<1> USE DEF IndInv, Asks
<1>1. /\ query'[p] = "asked" /\ answer'[p] = <<>> /\ stamp'[p] = 0
      /\ at'[p] \notin {"closed", "new"} /\ cached' = cached /\ seen' = seen
  BY Zenon DEF Types, PageTypes, Loaded
<1>2. \A q \in Page \ {p} : /\ query'[q] = query[q] /\ answer'[q] = answer[q]
                            /\ stamp'[q] = stamp[q] /\ at'[q] = at[q]
  BY Zenon DEF Types, PageTypes
<1>3. Numbered(<<>>) /\ StartOf(<<>>, versions) /\ 0 <= Len(versions)
  BY StartFacts, Zenon DEF Types, TableTypes
<1> HIDE DEF Asks
<1>4. Loaded'
  BY <1>1, <1>2, <1>3, Zenon DEF Loaded
<1>5. Stamped'
  BY <1>1, <1>2, <1>3, Zenon DEF Stamped
<1> QED
  BY <1>4, <1>5, Zenon

(* A page of a workflow that exists turns to its editor.                   *)
LEMMA EditorPages ==
  ASSUME IndInv, NEW p \in Page, UNCHANGED <<workflow, task>>, workflow # "none",
         at'[p] \in {"loading", "editor"}, save'[p] # "creating",
         \A q \in Page \ {p} : at'[q] = at[q] /\ query'[q] = query[q] /\ save'[q] = save[q]
  PROVE  Pages'
<1>1. /\ at'[p] \notin {"closed", "new"} /\ task' = task /\ workflow' = workflow
  BY Zenon
<1>2. ASSUME NEW q \in Page, q # p
      PROVE  /\ at'[q] = "new" => \A o \in Page : at'[o] = "new" => o = q
             /\ at'[q] = "new" /\ save'[q] # "stored" => workflow' = "none"
             /\ save'[q] = "creating" => at'[q] = "new"
             /\ at'[q] \in {"loading", "editor"} \/ save'[q] \in {"sent", "numbered", "stored"}
                  => workflow' # "none"
             /\ query'[q] # "idle" => at'[q] \in {"loading", "editor"}
             /\ at'[q] = "closed" => save'[q] = "idle"
             /\ task'[q] # "idle" => at'[q] \in {"loading", "editor"}
  <2>1. at'[q] = at[q] /\ query'[q] = query[q] /\ save'[q] = save[q] /\ task'[q] = task[q]
    BY <1>2, Zenon
  <2>2. \A o \in Page : at'[o] = "new" => at[o] = "new"
    BY <1>1, Zenon
  <2>3. /\ at[q] = "new" => \A o \in Page : at[o] = "new" => o = q
        /\ at[q] = "new" /\ save[q] # "stored" => workflow = "none"
        /\ save[q] = "creating" => at[q] = "new"
        /\ at[q] \in {"loading", "editor"} \/ save[q] \in {"sent", "numbered", "stored"}
             => workflow # "none"
        /\ query[q] # "idle" => at[q] \in {"loading", "editor"}
        /\ at[q] = "closed" => save[q] = "idle"
        /\ task[q] # "idle" => at[q] \in {"loading", "editor"}
    BY Zenon DEF IndInv, Pages
  <2> QED
    BY <1>1, <2>1, <2>2, <2>3, Zenon
<1> QED
  BY <1>1, <1>2, Zenon DEF Pages

(* A save that goes on leaves the rest of its page alone.                  *)
LEMMA SavePages ==
  ASSUME IndInv, NEW p \in Page, at' = at, query' = query, task' = task, workflow' = workflow,
         workflow # "none", at[p] \notin {"closed", "new"}, save'[p] # "creating",
         \A q \in Page \ {p} : save'[q] = save[q]
  PROVE  Pages'
<1>1. ASSUME NEW q \in Page
      PROVE  /\ at'[q] = "new" => \A o \in Page : at'[o] = "new" => o = q
             /\ at'[q] = "new" /\ save'[q] # "stored" => workflow' = "none"
             /\ save'[q] = "creating" => at'[q] = "new"
             /\ at'[q] \in {"loading", "editor"} \/ save'[q] \in {"sent", "numbered", "stored"}
                  => workflow' # "none"
             /\ query'[q] # "idle" => at'[q] \in {"loading", "editor"}
             /\ at'[q] = "closed" => save'[q] = "idle"
             /\ task'[q] # "idle" => at'[q] \in {"loading", "editor"}
  <2>1. /\ at[q] = "new" => \A o \in Page : at[o] = "new" => o = q
        /\ at[q] = "new" /\ save[q] # "stored" => workflow = "none"
        /\ save[q] = "creating" => at[q] = "new"
        /\ at[q] \in {"loading", "editor"} \/ save[q] \in {"sent", "numbered", "stored"}
             => workflow # "none"
        /\ query[q] # "idle" => at[q] \in {"loading", "editor"}
        /\ at[q] = "closed" => save[q] = "idle"
        /\ task[q] # "idle" => at[q] \in {"loading", "editor"}
    BY Zenon DEF IndInv, Pages
  <2>2. CASE q = p
    BY <2>1, <2>2, Zenon
  <2>3. CASE q # p
    <3>1. save'[q] = save[q]
      BY <2>3, Zenon
    <3> QED
      BY <2>1, <3>1, Zenon
  <2> QED
    BY <2>2, <2>3, Zenon
<1> QED
  BY <1>1, Zenon DEF Pages

LEMMA AsksTypes ==
  ASSUME IndInv, NEW p \in Page, Asks(p), at[p] # "left"
  PROVE  /\ at' \in [Page -> {"closed", "new", "loading", "editor", "left"}]
         /\ cached' \in [Page -> Seq(Row)] /\ seen' \in [Page -> 0 .. MaxVersions]
         /\ answer' \in [Page -> Seq(Row)] /\ stamp' \in [Page -> 0 .. MaxVersions]
         /\ query' \in [Page -> {"idle", "asked", "found", "answered", "failed"}]
         /\ at'[p] \in {"loading", "editor"}
BY StartFacts, SentFacts, Zenon DEF IndInv, Types, PageTypes, Asks, Loaded

LEMMA AsksInd ==
  ASSUME IndInv, NEW p \in Page, Asks(p), UNCHANGED <<tables, editor, saving, tasks>>,
         at[p] \notin {"new", "left"}, workflow # "none", clicks' \in 0 .. MaxClicks
  PROVE  IndInv'
<1> USE DEF IndInv, tables, editor, saving, tasks
<1>1. PageTypes'
  BY AsksTypes, Zenon DEF Types, PageTypes
<1>2. Pages'
  <2>1. /\ at'[p] \in {"loading", "editor"}
        /\ \A q \in Page \ {p} : at'[q] = at[q] /\ query'[q] = query[q]
    <3>1. at'[p] \in {"loading", "editor"}
      BY AsksTypes, Zenon
    <3>2. at \in [Page -> {"closed", "new", "loading", "editor", "left"}]
      BY Zenon DEF Types, PageTypes
    <3>3. query \in [Page -> {"idle", "asked", "found", "answered", "failed"}]
      BY Zenon DEF Types, PageTypes
    <3> HIDE DEF IndInv, tables, editor, saving, tasks
    <3>4. \A q \in Page \ {p} : at'[q] = at[q]
      BY <3>2, Zenon DEF Asks
    <3>5. \A q \in Page \ {p} : query'[q] = query[q]
      BY <3>3, Zenon DEF Asks
    <3> QED
      BY <3>1, <3>4, <3>5, Zenon
  <2>2. save[p] # "creating"
    BY Zenon DEF Pages
  <2> QED
    BY <2>1, <2>2, EditorPages, Zenon
<1>3. Loaded' /\ Stamped'
  BY AsksKeeps, Zenon
<1> QED
  BY Frames, <1>1, <1>2, <1>3, Zenon DEF Types, Asks

(* Opening the editor starts the fetch of the version list with an empty   *)
(* cache, so what is loaded is a start of the table trivially.             *)
LEMMA OpenEditorInd ==
  ASSUME IndInv, NEW p \in Page, OpenEditor(p), clicks' \in 0 .. MaxClicks
  PROVE  IndInv'
<1>1. /\ UNCHANGED <<tables, editor, saving, tasks>> /\ Asks(p)
      /\ at[p] \notin {"new", "left"} /\ workflow # "none"
  BY Zenon DEF OpenEditor, IndInv, Pages
<1> QED
  BY <1>1, AsksInd, Zenon DEF IndInv, Types, tables, editor, saving, tasks

(* A refetch on window focus only puts a query under way: what it will     *)
(* answer is read later, by FindWorkflow and LoadVersions.                 *)
LEMMA RefocusInd ==
  ASSUME IndInv, NEW p \in Page, Refocus(p), clicks' \in 0 .. MaxClicks
  PROVE  IndInv'
<1>1. /\ UNCHANGED <<tables, editor, saving, tasks>> /\ Asks(p)
      /\ at[p] \notin {"new", "left"} /\ workflow # "none"
  BY Zenon DEF Refocus, IndInv, Pages
<1> QED
  BY <1>1, AsksInd, Zenon DEF IndInv, Types, tables, editor, saving, tasks

(* A change in the editor touches the draft of one page alone.             *)
LEMMA EditInd ==
  ASSUME IndInv, NEW p \in Page, Edit(p), clicks' \in 0 .. MaxClicks
  PROVE  IndInv'
<1> USE DEF IndInv, Edit, tables, queries, editor, saving, tasks
<1>1. PageTypes'
  BY StartFacts, DefinitionAssumption DEF Types, PageTypes
<1>2. Shows'
  BY Zenon DEF Types, PageTypes, Shows
<1> QED
  BY Frames, <1>1, <1>2, Zenon DEF Types

(* handleSave sends what the page shows; the number of the version is not  *)
(* chosen before the request reaches the server.                           *)
LEMMA HandleSaveInd ==
  ASSUME IndInv, NEW p \in Page, HandleSave(p), clicks' \in 0 .. MaxClicks
  PROVE  IndInv'
<1> USE DEF IndInv, HandleSave, tables, queries, editor, saving, tasks
<1>1. RequestTypes'
  <2>1. [definition |-> draft[p], number |-> 0] \in Sent
    BY BoundsAssumption DEF Types, PageTypes, Sent
  <2> QED
    BY <2>1, Zenon DEF Types, RequestTypes
<1>2. Pages'
  BY DEF Types, PageTypes, RequestTypes, TableTypes, Pages
<1>3. SavesNumbered'
  BY Zenon DEF Types, RequestTypes, TableTypes, SavesNumbered
<1> QED
  BY Frames, <1>1, <1>2, <1>3, Zenon DEF Types

(* Run sends the number of the newest cached version with the definition   *)
(* it shows, and a cached row is a row of the table.                       *)
LEMMA ConfirmRunInd ==
  ASSUME IndInv, NEW p \in Page, ConfirmRun(p), clicks' \in 0 .. MaxClicks
  PROVE  IndInv'
<1> USE DEF IndInv, ConfirmRun, Becomes, tables, queries, editor, saving, tasks
<1>0. Newest(cached[p]) = Len(cached[p]) /\ Len(cached[p]) \in 1 .. MaxVersions
  <2>1. /\ cached[p] \in Seq(Row) /\ Newest(cached[p]) = Len(cached[p])
        /\ Latest(cached[p]) \in Row /\ Latest(cached[p]).number = Len(cached[p])
    BY NewestIsLast, Zenon DEF Types, PageTypes, Loaded
  <2> QED
    BY <2>1, Zenon DEF Row
<1> DEFINE t == [number |-> Newest(cached[p]), shown |-> draft[p], unsaved |-> edited[p]]
<1>1. RequestTypes'
  <2>1. t \in Target
    BY <1>0, BoundsAssumption DEF Types, PageTypes, Target
  <2> QED
    BY <2>1, Zenon DEF Types, RequestTypes
<1>2. Pages'
  BY DEF Types, PageTypes, RequestTypes, TableTypes, Pages
<1>3. TargetsStored'
  <2>1. workflow = "stored" =>
          Len(cached[p]) <= Len(versions) /\ versions[Len(cached[p])] = cached[p][Len(cached[p])]
    BY <1>0 DEF Loaded, StartOf
  <2>2. t.number > 0 /\ (workflow = "stored" => Runs(t, versions))
    <3>1. edited[p] \/ draft[p] = cached[p][Len(cached[p])].definition
      BY Zenon DEF Shows
    <3>2. workflow = "stored" => Len(cached[p]) \in 1 .. Len(versions)
      BY <1>0, <2>1 DEF Types, TableTypes
    <3> QED
      BY <1>0, <2>1, <3>1, <3>2 DEF Runs
  <2>3. task'[p] = "starting" /\ target'[p] = t /\ UNCHANGED <<workflow, versions>>
    BY Zenon DEF Types, RequestTypes
  <2>4. \A q \in Page \ {p} : task'[q] = task[q] /\ target'[q] = target[q]
    BY Zenon DEF Types, RequestTypes
  <2> HIDE DEF ConfirmRun, t
  <2> QED
    BY <2>2, <2>3, <2>4, Zenon DEF TargetsStored
<1> QED
  BY Frames, <1>1, <1>2, <1>3, Zenon DEF Types

(* handleDelete remembers no row: what is deleted is read by the server.   *)
LEMMA HandleDeleteInd ==
  ASSUME IndInv, NEW p \in Page, HandleDelete(p), clicks' \in 0 .. MaxClicks
  PROVE  IndInv'
<1> USE DEF IndInv, HandleDelete, Becomes, tables, queries, editor, saving, tasks
<1>1. RequestTypes'
  BY SentFacts, Zenon DEF Types, RequestTypes
<1>2. Pages'
  BY DEF Types, PageTypes, RequestTypes, TableTypes, Pages
<1>3. TargetsStored'
  BY Zenon DEF Types, RequestTypes, TargetsStored
<1> QED
  BY Frames, <1>1, <1>2, <1>3, Zenon DEF Types

(* The first statement of get_workflow reads the updated_at of the last    *)
(* save, which is not before the one that the page holds.                  *)
LEMMA FindWorkflowInd ==
  ASSUME IndInv, NEW p \in Page, FindWorkflow(p), clicks' \in 0 .. MaxClicks
  PROVE  IndInv'
<1> USE DEF IndInv, FindWorkflow, tables, queries, editor, saving, tasks
<1>0. Newest(versions) = Len(versions) /\ Newest(versions) \in 0 .. MaxVersions
  <2>1. /\ versions \in Seq(Row) /\ Newest(versions) = Len(versions)
        /\ Latest(versions) \in Row /\ Latest(versions).number = Len(versions)
    BY NewestIsLast, Zenon DEF Types, TableTypes, Tables
  <2> HIDE DEF FindWorkflow, IndInv
  <2> QED
    BY <2>1 DEF Row
<1>1. PageTypes'
  BY <1>0, Zenon DEF Types, PageTypes
<1>2. Pages'
  BY DEF Types, PageTypes, RequestTypes, TableTypes, Pages
<1>3. Loaded'
  BY DEF Types, PageTypes, TableTypes, Loaded, Pages
<1>4. Stamped'
  <2>1. stamp'[p] = Len(versions) /\ query'[p] = "found" /\ UNCHANGED <<seen, workflow, versions, answer>>
    BY <1>0, Zenon DEF Types, PageTypes
  <2>2. \A q \in Page \ {p} : query'[q] = query[q] /\ stamp'[q] = stamp[q]
    BY Zenon DEF Types, PageTypes
  <2>3. Len(versions) <= Len(versions)
    BY <1>0
  <2> HIDE DEF FindWorkflow
  <2> QED
    BY <2>1, <2>2, <2>3, Zenon DEF Stamped
<1> QED
  BY Frames, <1>1, <1>2, <1>3, <1>4, Zenon DEF Types

(* The second statement answers with the whole table, its longest start.   *)
LEMMA LoadVersionsInd ==
  ASSUME IndInv, NEW p \in Page, LoadVersions(p), clicks' \in 0 .. MaxClicks
  PROVE  IndInv'
<1> USE DEF IndInv, LoadVersions, tables, queries, editor, saving, tasks
<1>1. PageTypes'
  BY Zenon DEF Types, PageTypes, TableTypes
<1>2. Pages'
  BY DEF Types, PageTypes, RequestTypes, TableTypes, Pages
<1>3. Loaded'
  <2>1. workflow # "none"
    BY Zenon DEF Types, PageTypes, Pages
  <2>2. /\ versions \in Seq(Row) /\ Numbered(versions) /\ StartOf(versions, versions)
        /\ workflow # "deleted" => versions # <<>> /\ saved[p] <= Len(versions)
    BY <2>1, StartFacts, Zenon DEF Types, TableTypes, Tables, SavesNumbered
  <2>3. workflow # "deleted" => Len(cached[p]) <= Len(versions)
    BY <2>2, StartFacts, Zenon DEF Types, PageTypes, Loaded
  <2> QED
    BY <2>2, <2>3, Zenon DEF Types, PageTypes, Loaded
<1>4. Stamped'
  <2>1. answer'[p] = versions /\ query'[p] = "answered" /\ UNCHANGED <<seen, workflow, versions, stamp>>
    BY Zenon DEF Types, PageTypes
  <2>2. \A q \in Page \ {p} : query'[q] = query[q] /\ answer'[q] = answer[q]
    BY Zenon DEF Types, PageTypes
  <2> HIDE DEF LoadVersions
  <2> QED
    BY <2>1, <2>2, Zenon DEF Stamped, LoadVersions
<1> QED
  BY Frames, <1>1, <1>2, <1>3, <1>4, Zenon DEF Types

(* create_workflow finds no workflow, so that its version is the first.    *)
LEMMA CreateWorkflowInd ==
  ASSUME IndInv, NEW p \in Page, CreateWorkflow(p), clicks' \in 0 .. MaxClicks
  PROVE  IndInv'
<1> USE DEF IndInv, tables, queries, editor, saving, tasks
<1>1. CASE sending[p].definition \in Invalid
  <2>1. /\ UNCHANGED <<tables, at, queries, editor, sending, saved, tasks>>
        /\ save[p] = "creating" /\ save' = [save EXCEPT ![p] = "refused"]
    BY <1>1, Zenon DEF CreateWorkflow
  <2>2. RequestTypes' /\ Pages' /\ SavesNumbered'
    BY <2>1 DEF Types, RequestTypes, Pages, SavesNumbered
  <2> QED
    BY <2>1, <2>2, Frames, Zenon DEF Types
<1>2. CASE sending[p].definition \notin Invalid
  <2> DEFINE row == [definition |-> sending[p].definition, number |-> 1]
  <2>1. /\ UNCHANGED <<executions, at, queries, editor, saved, tasks>>
        /\ save[p] = "creating" /\ save' = [save EXCEPT ![p] = "stored"]
        /\ sending' = [sending EXCEPT ![p].number = 1]
        /\ workflow' = "stored"
    BY <1>2, Zenon DEF CreateWorkflow
  <2>2. row \in Row /\ row \in Sent /\ [sending[p] EXCEPT !.number = 1] = row
    BY BoundsAssumption DEF Types, RequestTypes, Sent, Row
  <2>3. versions' = <<row>> /\ sending' = [sending EXCEPT ![p] = row]
    BY <1>2, <2>1, <2>2, Zenon DEF CreateWorkflow
  <2>4. workflow = "none" /\ versions = <<>> /\ executions = {}
    <3>1. at[p] = "new" /\ save[p] # "stored"
      BY <2>1, Zenon DEF Pages
    <3>2. workflow = "none"
      BY <3>1, Zenon DEF Pages
    <3>3. versions = <<>> /\ \A e \in executions : Runs(e.version, <<>>)
      BY <3>2, Zenon DEF Tables
    <3>4. \A e \in executions : FALSE
      BY <3>3 DEF Runs
    <3> QED
      BY <3>2, <3>3, <3>4, Zenon
  <2> HIDE DEF row
  <2>5. RequestTypes'
    BY <2>1, <2>2, <2>3, Zenon DEF Types, RequestTypes
  <2>6. TableTypes'
    BY <2>1, <2>2, <2>3, <2>4 DEF Types, TableTypes
  <2>7. Tables'
    BY <2>1, <2>3, <2>4 DEF Tables, Numbered, row
  <2>8. Pages'
    BY <2>1 DEF Types, PageTypes, RequestTypes, Pages
  <2>9. SavesNumbered'
    BY <2>1, <2>3, <2>4 DEF Types, RequestTypes, Pages, SavesNumbered, row
  <2>10. Loaded'
    <3>1. \A q \in Page : cached[q] = <<>> /\ answer[q] = <<>> /\ query[q] = "idle"
      BY <2>4, StartFacts DEF Types, PageTypes, Loaded, Pages
    <3>2. StartOf(<<>>, versions')
      <4>1. <<row>> \in Seq(Row)
        BY <2>2
      <4> QED
        BY <2>3, <4>1, StartFacts, Zenon
    <3> QED
      BY <2>1, <2>4, <3>1, <3>2, StartFacts, Zenon DEF Loaded, Pages
  <2>11. TargetsStored'
    BY <2>1, <2>4, Zenon DEF Pages, TargetsStored
  <2>12. Stamped'
    <3>1. \A q \in Page : seen[q] <= 0 /\ stamp[q] <= 0 /\ query[q] = "idle"
      BY <2>4, Zenon DEF Types, PageTypes, Stamped, Pages
    <3>2. Len(versions') = 1 /\ \A q \in Page : seen[q] <= 1 /\ stamp[q] <= 1
      BY <2>3, <3>1 DEF Types, PageTypes
    <3> QED
      BY <2>1, <3>1, <3>2, Zenon DEF Stamped
  <2> QED
    BY <2>1, <2>5, <2>6, <2>7, <2>8, <2>9, <2>10, <2>11, <2>12, Frames, Zenon DEF Types
<1> QED
  BY <1>1, <1>2, Zenon

(* max() + 1 is the number after the last one, and it stays reserved by no *)
(* one: it is at most one more than the length of the table.               *)
LEMMA ReadMaxVersionInd ==
  ASSUME IndInv, NEW p \in Page, ReadMaxVersion(p), clicks' \in 0 .. MaxClicks
  PROVE  IndInv'
<1> USE DEF IndInv, ReadMaxVersion, tables, queries, editor, saving, tasks
<1>0. /\ Newest(versions) = Len(versions) /\ Len(versions) \in Nat
      /\ Len(versions) < MaxVersions => Newest(versions) + 1 \in 0 .. MaxVersions
  BY NewestIsLast, BoundsAssumption DEF Types, TableTypes, Tables
<1>1. RequestTypes'
  <2>1. \/ sending' = sending
        \/ /\ sending' = [sending EXCEPT ![p] = [sending[p] EXCEPT !.number = Newest(versions) + 1]]
           /\ Newest(versions) + 1 \in 0 .. MaxVersions
    BY <1>0, Zenon
  <2>2. sending' \in [Page -> Sent]
    BY <2>1, SentFacts DEF Types, RequestTypes
  <2> QED
    BY <2>2, Zenon DEF Types, RequestTypes
<1>2. Pages'
  <2>1. save[p] = "sent" /\ workflow # "none" /\ at[p] \notin {"closed", "new"}
    BY Zenon DEF Pages
  <2>2. save'[p] # "creating" /\ \A q \in Page \ {p} : save'[q] = save[q]
    BY Zenon DEF Types, RequestTypes
  <2> QED
    BY <2>1, <2>2, SavePages, Zenon
<1>3. SavesNumbered'
  BY <1>0 DEF Types, RequestTypes, TableTypes, SavesNumbered, Sent
<1> QED
  BY Frames, <1>1, <1>2, <1>3, Zenon DEF Types

(* The unique constraint lets a version in only under the next number,     *)
(* whatever was committed since max() was read.                            *)
LEMMA CommitVersionInd ==
  ASSUME IndInv, NEW p \in Page, CommitVersion(p), clicks' \in 0 .. MaxClicks
  PROVE  IndInv'
<1> USE DEF IndInv, tables, queries, editor, saving, tasks
<1>1. Numbers(versions) = 1 .. Len(versions) /\ Len(versions) \in Nat /\ versions \in Seq(Row)
  BY NewestIsLast DEF Types, TableTypes, Tables
<1>2. CASE ~(workflow = "stored" /\ sending[p].number \notin Numbers(versions))
  <2>1. /\ UNCHANGED <<tables, at, queries, editor, sending, saved, tasks>>
        /\ save[p] = "numbered" /\ save' = [save EXCEPT ![p] = "refused"]
    BY <1>2, Zenon DEF CommitVersion
  <2>2. RequestTypes' /\ Pages' /\ SavesNumbered'
    BY <2>1 DEF Types, RequestTypes, Pages, SavesNumbered
  <2> QED
    BY <2>1, <2>2, Frames, Zenon DEF Types
<1>3. CASE workflow = "stored" /\ sending[p].number \notin Numbers(versions)
  <2>1. /\ UNCHANGED <<workflow, executions, at, queries, editor, sending, saved, tasks>>
        /\ save[p] = "numbered" /\ save' = [save EXCEPT ![p] = "stored"]
        /\ versions' = Append(versions, sending[p])
    BY <1>3, Zenon DEF CommitVersion
  <2>2. sending[p] \in Row /\ sending[p].number = Len(versions) + 1
    BY <1>1, <1>3, <2>1 DEF Types, RequestTypes, Sent, Row, SavesNumbered
  <2>3. /\ versions' \in Seq(Row) /\ Len(versions') = Len(versions) + 1 /\ versions' # <<>>
        /\ \A i \in 1 .. Len(versions) : versions'[i] = versions[i]
        /\ versions'[Len(versions) + 1] = sending[p]
    BY <1>1, <2>1, <2>2
  <2>4. RequestTypes'
    BY <2>1, Zenon DEF Types, RequestTypes
  <2>5. TableTypes'
    BY <2>1, <2>3, Zenon DEF Types, TableTypes
  <2>6. Tables'
    <3>1. Numbered(versions')
      BY <1>1, <2>2, <2>3 DEF Tables, Numbered
    <3>2. \A e \in executions : Runs(e.version, versions')
      BY <1>1, <2>3 DEF Tables, Runs
    <3> QED
      BY <1>3, <2>1, <2>3, <3>1, <3>2, Zenon DEF Tables
  <2>7. Pages'
    BY <1>3, <2>1 DEF Types, RequestTypes, Pages
  <2>8. SavesNumbered'
    <3>1. saved \in [Page -> Nat] /\ \A q \in Page : sending[q].number \in Nat
      BY BoundsAssumption DEF Types, RequestTypes, Sent
    <3> QED
      BY <1>1, <1>3, <2>1, <2>2, <2>3, <3>1 DEF Types, RequestTypes, SavesNumbered
  <2>9. Loaded'
    <3>1. \A q \in Page : StartOf(cached[q], versions') /\ StartOf(answer[q], versions')
      BY <1>1, <1>3, <2>1, <2>2, StartFacts, Zenon DEF Types, PageTypes, Loaded
    <3> QED
      BY <1>3, <2>1, <3>1, Zenon DEF Loaded
  <2>10. TargetsStored'
    <3>1. \A q \in Page : Runs(target[q], versions) => Runs(target[q], versions')
      BY <1>1, <2>3 DEF Runs
    <3> QED
      BY <1>3, <2>1, <3>1, Zenon DEF TargetsStored
  <2>11. Stamped'
    <3>1. \A q \in Page : /\ seen[q] <= Len(versions) => seen[q] <= Len(versions')
                          /\ stamp[q] <= Len(versions) => stamp[q] <= Len(versions')
      BY <1>1, <2>3 DEF Types, PageTypes
    <3> QED
      BY <2>1, <3>1, Zenon DEF Stamped
  <2> QED
    BY <2>1, <2>4, <2>5, <2>6, <2>7, <2>8, <2>9, <2>10, <2>11, Frames, Zenon DEF Types
<1> QED
  BY <1>2, <1>3, Zenon

(* A task that goes on leaves the rest of its page alone; at most the      *)
(* workflow is deleted by it.                                              *)
LEMMA TaskPages ==
  ASSUME IndInv, NEW p \in Page, task[p] # "idle", at' = at, query' = query, save' = save,
         workflow' = workflow \/ (workflow = "stored" /\ workflow' = "deleted"),
         \A q \in Page \ {p} : task'[q] = task[q]
  PROVE  Pages'
<1>1. Pages
  BY Zenon DEF IndInv
<1>2. workflow' = "none" <=> workflow = "none"
  BY Zenon
<1>3. \A q \in Page : task'[q] # "idle" => task[q] # "idle"
  BY Zenon
<1>4. ASSUME NEW q \in Page
      PROVE  /\ at'[q] = "new" => \A o \in Page : at'[o] = "new" => o = q
             /\ at'[q] = "new" /\ save'[q] # "stored" => workflow' = "none"
             /\ save'[q] = "creating" => at'[q] = "new"
             /\ at'[q] \in {"loading", "editor"} \/ save'[q] \in {"sent", "numbered", "stored"}
                  => workflow' # "none"
             /\ query'[q] # "idle" => at'[q] \in {"loading", "editor"}
             /\ at'[q] = "closed" => save'[q] = "idle"
             /\ task'[q] # "idle" => at'[q] \in {"loading", "editor"}
  <2>1. /\ at[q] = "new" => \A o \in Page : at[o] = "new" => o = q
        /\ at[q] = "new" /\ save[q] # "stored" => workflow = "none"
        /\ save[q] = "creating" => at[q] = "new"
        /\ at[q] \in {"loading", "editor"} \/ save[q] \in {"sent", "numbered", "stored"}
             => workflow # "none"
        /\ query[q] # "idle" => at[q] \in {"loading", "editor"}
        /\ at[q] = "closed" => save[q] = "idle"
        /\ task[q] # "idle" => at[q] \in {"loading", "editor"}
    BY <1>1, Zenon DEF Pages
  <2> QED
    BY <1>2, <1>3, <2>1, Zenon
<1> QED
  BY <1>4, Zenon DEF Pages

(* start_execution finds the version it was asked for, or refuses.         *)
LEMMA ResolveVersionInd ==
  ASSUME IndInv, NEW p \in Page, ResolveVersion(p), clicks' \in 0 .. MaxClicks
  PROVE  IndInv'
<1> USE DEF IndInv, ResolveVersion, Becomes, tables, queries, editor, saving, tasks
<1>1. RequestTypes'
  BY SentFacts, Zenon DEF Types, RequestTypes
<1>2. Pages'
  BY TaskPages, Zenon DEF Types, RequestTypes
<1>3. TargetsStored'
  BY Zenon DEF Types, RequestTypes, TargetsStored
<1> QED
  BY Frames, <1>1, <1>2, <1>3, Zenon DEF Types

(* The execution that is inserted runs the version whose definition was    *)
(* shown; a delete that came between makes the insert fail.                *)
LEMMA InsertExecutionInd ==
  ASSUME IndInv, NEW p \in Page, InsertExecution(p), clicks' \in 0 .. MaxClicks
  PROVE  IndInv'
<1> USE DEF IndInv, InsertExecution, Becomes, tables, queries, editor, saving, tasks
<1>0. Numbers(versions) = 1 .. Len(versions)
  BY NewestIsLast, Zenon DEF Types, TableTypes, Tables
<1>1. RequestTypes'
  BY SentFacts, Zenon DEF Types, RequestTypes
<1>2. TableTypes'
  <2>1. CASE UNCHANGED executions
    BY <2>1, Zenon DEF Types, TableTypes
  <2>2. CASE target[p].number \in Numbers(versions)
    <3>1. [by |-> p, version |-> target[p]] \in [by : Page, version : Target]
      BY Zenon DEF Types, RequestTypes
    <3> QED
      BY <2>2, <3>1, Zenon DEF Types, TableTypes
  <2> QED
    BY <2>1, <2>2, Zenon
<1>3. Tables'
  <2>1. ASSUME NEW e \in executions' PROVE Runs(e.version, versions)
    <3>1. CASE e \in executions
      BY <3>1, Zenon DEF Tables
    <3>2. CASE e \notin executions
      <4>1. e = [by |-> p, version |-> target[p]] /\ target[p].number \in 1 .. Len(versions)
        BY <1>0, <2>1, <3>2, Zenon
      <4>2. workflow = "stored"
        BY <4>1 DEF Tables
      <4>3. Runs(target[p], versions)
        BY <4>2, Zenon DEF TargetsStored
      <4> QED
        BY <4>1, <4>3, Zenon
    <3> QED
      BY <3>1, <3>2, Zenon
  <2> QED
    BY <2>1, Zenon DEF Tables
<1>4. Pages'
  BY DEF Types, PageTypes, RequestTypes, TableTypes, Pages
<1>5. TargetsStored'
  <2>1. /\ UNCHANGED <<workflow, versions>>
        /\ \E row : target' = [target EXCEPT ![p] = row]
        /\ \E to \in {"started", "idle"} : task' = [task EXCEPT ![p] = to]
    BY Zenon
  <2> HIDE DEF InsertExecution
  <2>2. \A q \in Page : task'[q] \in {"starting", "resolved"} =>
          task[q] \in {"starting", "resolved"} /\ target'[q] = target[q]
    BY <2>1, Zenon DEF Types, RequestTypes
  <2> QED
    BY <2>1, <2>2, Zenon DEF TargetsStored
<1> QED
  BY Frames, <1>1, <1>2, <1>3, <1>4, <1>5, Zenon DEF Types

(* delete_workflow loads the versions to cascade to, the last of which is  *)
(* the newest of the table.                                                *)
LEMMA LoadForDeleteInd ==
  ASSUME IndInv, NEW p \in Page, LoadForDelete(p), clicks' \in 0 .. MaxClicks
  PROVE  IndInv'
<1> USE DEF IndInv, LoadForDelete, Becomes, tables, queries, editor, saving, tasks
<1>1. RequestTypes'
  <2>1. ASSUME workflow = "stored" PROVE Newest(versions) \in 0 .. MaxVersions
    <3>1. Latest(versions) \in Row /\ Latest(versions).number = Newest(versions)
      BY <2>1, NewestIsLast, Zenon DEF Types, TableTypes, Tables
    <3> HIDE DEF LoadForDelete, IndInv
    <3> QED
      BY <3>1 DEF Row
  <2>2. PICK t \in Target : target' = [target EXCEPT ![p] = t]
    BY <2>1, SentFacts, Zenon
  <2>3. task' \in [Page -> {"idle", "starting", "resolved", "started", "deleting", "loaded", "deleted"}]
    BY Zenon DEF Types, RequestTypes
  <2>4. target' \in [Page -> Target]
    BY <2>2, Zenon DEF Types, RequestTypes
  <2> QED
    BY <2>3, <2>4, Zenon DEF Types, RequestTypes
<1>2. Pages'
  BY TaskPages, Zenon DEF Types, RequestTypes
<1>3. TargetsStored'
  BY Zenon DEF Types, RequestTypes, TargetsStored
<1> QED
  BY Frames, <1>1, <1>2, <1>3, Zenon DEF Types

(* The delete empties the table only when nothing refers to it: no         *)
(* execution, and no version that was not loaded.                          *)
LEMMA CommitDeleteInd ==
  ASSUME IndInv, NEW p \in Page, CommitDelete(p), clicks' \in 0 .. MaxClicks
  PROVE  IndInv'
<1> USE DEF IndInv, CommitDelete, Becomes, tables, queries, editor, saving, tasks
<1>1. RequestTypes'
  BY SentFacts, Zenon DEF Types, RequestTypes
<1>2. TableTypes'
  BY StartFacts, Zenon DEF Types, TableTypes
<1>3. Tables'
  <2>1. CASE workflow' = "deleted" /\ versions' = <<>> /\ executions = {}
    BY <2>1, StartFacts, Zenon DEF Tables
  <2>2. CASE UNCHANGED <<workflow, versions>>
    BY <2>2, Zenon DEF Tables, Numbered, Runs
  <2> QED
    BY <2>1, <2>2, Zenon
<1>4. Pages'
  BY TaskPages, Zenon DEF Types, RequestTypes
<1>5. SavesNumbered'
  BY Zenon DEF Types, RequestTypes, TableTypes, SavesNumbered
<1>6. Loaded'
  BY StartFacts, Zenon DEF Types, PageTypes, TableTypes, Loaded
<1>7. TargetsStored'
  BY DEF Types, RequestTypes, TargetsStored
<1>8. Stamped'
  BY Zenon DEF Stamped
<1> QED
  BY Frames, <1>1, <1>2, <1>3, <1>4, <1>5, <1>6, <1>7, <1>8, Zenon DEF Types

(* An answer replaces the cached rows by a start of the table that is at   *)
(* least as long as what the page was told it had saved.                   *)
LEMMA QueryArrivesInd ==
  ASSUME IndInv, NEW p \in Page, QueryArrives(p), clicks' \in 0 .. MaxClicks
  PROVE  IndInv'
<1> USE DEF IndInv, tables, queries, editor, saving, tasks
<1>0. /\ answer[p] \in Seq(Row) /\ Numbered(answer[p])
      /\ answer[p] # <<>> => /\ Latest(answer[p]) = answer[p][Len(answer[p])]
                             /\ Latest(answer[p]).definition \in Definition
  BY NewestIsLast, Zenon DEF Types, PageTypes, Loaded, Row
<1>1. /\ query[p] = "answered" /\ UNCHANGED <<tables, saving, tasks>>
      /\ query' = [query EXCEPT ![p] = "idle"]
      /\ answer' = [answer EXCEPT ![p] = <<>>]
      /\ stamp' = [stamp EXCEPT ![p] = 0]
      /\ at' = [at EXCEPT ![p] = IF at[p] = "loading" THEN "editor" ELSE at[p]]
  BY Zenon DEF QueryArrives, Settles
<1>2. cached' = [cached EXCEPT ![p] = answer[p]] /\ seen' = [seen EXCEPT ![p] = stamp[p]]
  BY Zenon DEF QueryArrives, Fill, Types, PageTypes
<1>3. \/ UNCHANGED editor /\ cached' = cached
      \/ /\ draft' = [draft EXCEPT ![p] = IF answer[p] = <<>> THEN Default
                                          ELSE Latest(answer[p]).definition]
         /\ edited' = [edited EXCEPT ![p] = FALSE]
  BY Zenon DEF QueryArrives, Fill
<1>4. PageTypes'
  <2>1. cached' \in [Page -> Seq(Row)] /\ answer' \in [Page -> Seq(Row)]
    BY <1>0, <1>1, <1>2, StartFacts, Zenon DEF Types, PageTypes
  <2>2. draft' \in [Page -> Definition]
    BY <1>0, <1>3, DefinitionAssumption, Zenon DEF Types, PageTypes
  <2>3. edited' \in [Page -> BOOLEAN]
    BY <1>3, Zenon DEF Types, PageTypes
  <2>4. query' \in [Page -> {"idle", "asked", "found", "answered", "failed"}]
    BY <1>1, Zenon DEF Types, PageTypes
  <2>5. at' \in [Page -> {"closed", "new", "loading", "editor", "left"}]
    BY <1>1, Zenon DEF Types, PageTypes
  <2>6. seen' \in [Page -> 0 .. MaxVersions] /\ stamp' \in [Page -> 0 .. MaxVersions]
    BY <1>1, <1>2, SentFacts, Zenon DEF Types, PageTypes
  <2> QED
    BY <2>1, <2>2, <2>3, <2>4, <2>5, <2>6, Zenon DEF PageTypes
<1>5. /\ cached'[p] = answer[p] /\ answer'[p] = <<>> /\ query'[p] = "idle"
      /\ seen'[p] = stamp[p] /\ stamp'[p] = 0 /\ at'[p] = "editor"
  BY <1>1, <1>2 DEF Types, PageTypes, Pages
<1>6. \A q \in Page \ {p} : /\ cached'[q] = cached[q] /\ answer'[q] = answer[q]
                            /\ seen'[q] = seen[q] /\ stamp'[q] = stamp[q]
                            /\ at'[q] = at[q] /\ query'[q] = query[q]
  BY <1>1, <1>2, Zenon DEF Types, PageTypes
<1>7. Pages'
  <2>1. at[p] \in {"loading", "editor"} /\ UNCHANGED <<workflow, save, task>>
    BY <1>1, Zenon DEF Pages
  <2>2. workflow # "none" /\ save[p] # "creating"
    BY <2>1, Zenon DEF Pages
  <2> QED
    BY <1>5, <1>6, <2>1, <2>2, EditorPages, Zenon
<1>8. Loaded'
  <2>1. Numbered(<<>>) /\ StartOf(<<>>, versions) /\ UNCHANGED <<versions, workflow, saved>>
    BY <1>1, StartFacts, Zenon DEF Types, TableTypes
  <2>2. /\ workflow # "deleted" => StartOf(answer[p], versions) /\ saved[p] <= Len(answer[p])
    BY <1>1, Zenon DEF Loaded
  <2>3. ASSUME NEW q \in Page, q # p
        PROVE  /\ at'[q] = at[q] /\ query'[q] = query[q] /\ cached'[q] = cached[q]
               /\ answer'[q] = answer[q] /\ seen'[q] = seen[q] /\ saved'[q] = saved[q]
    BY <1>6, <2>1, <2>3, Zenon
  <2>4. at'[p] \notin {"closed", "new"} /\ query'[p] # "answered"
    BY <1>5, Zenon
  <2>5. /\ Numbered(cached'[p]) /\ Numbered(answer'[p])
        /\ workflow' # "deleted" => /\ StartOf(cached'[p], versions') /\ StartOf(answer'[p], versions')
                                    /\ saved'[p] <= Len(cached'[p])
    BY <1>0, <1>5, <2>1, <2>2, Zenon
  <2> QED
    BY <2>1, <2>3, <2>4, <2>5 DEF Loaded
<1>9. Stamped'
  <2>1. 0 <= Len(versions) /\ UNCHANGED <<versions, workflow>>
    BY <1>1 DEF Types, TableTypes
  <2> QED
    BY <1>5, <1>6, <2>1, Zenon DEF Stamped
<1>10. Shows'
  <2>1. CASE UNCHANGED editor /\ cached' = cached
    BY <2>1, Frames, Zenon
  <2>2. CASE /\ draft' = [draft EXCEPT ![p] = IF answer[p] = <<>> THEN Default
                                             ELSE Latest(answer[p]).definition]
             /\ edited' = [edited EXCEPT ![p] = FALSE]
    <3>1. /\ \A q \in Page \ {p} : draft'[q] = draft[q] /\ edited'[q] = edited[q]
          /\ answer[p] # <<>> => draft'[p] = answer[p][Len(answer[p])].definition
      BY <1>0, <2>2, Zenon DEF Types, PageTypes
    <3> QED
      BY <1>5, <1>6, <3>1, Zenon DEF Shows
  <2> QED
    BY <1>3, <2>1, <2>2, Zenon
<1> QED
  BY Frames, <1>1, <1>4, <1>7, <1>8, <1>9, <1>10, Zenon DEF Types

(* A fetch that fails leaves the cached rows of the page as they were.     *)
LEMMA QueryFailsInd ==
  ASSUME IndInv, NEW p \in Page, QueryFails(p), clicks' \in 0 .. MaxClicks
  PROVE  IndInv'
<1> USE DEF IndInv, tables, queries, editor, saving, tasks
<1>1. /\ query[p] # "idle" /\ UNCHANGED <<tables, cached, seen, editor, saving, tasks>>
      /\ query' = [query EXCEPT ![p] = "failed"]
      /\ answer' = [answer EXCEPT ![p] = <<>>]
      /\ stamp' = [stamp EXCEPT ![p] = 0]
      /\ at' = [at EXCEPT ![p] = IF at[p] = "loading" THEN "editor" ELSE at[p]]
  BY Zenon DEF QueryFails, Settles
<1>2. PageTypes'
  BY <1>1, StartFacts, SentFacts, Zenon DEF Types, PageTypes
<1>3. answer'[p] = <<>> /\ query'[p] = "failed" /\ stamp'[p] = 0 /\ at'[p] = "editor"
  BY <1>1 DEF Types, PageTypes, Pages
<1>4. \A q \in Page \ {p} : /\ answer'[q] = answer[q] /\ stamp'[q] = stamp[q]
                            /\ at'[q] = at[q] /\ query'[q] = query[q]
  BY <1>1, Zenon DEF Types, PageTypes
<1>5. Pages'
  <2>1. at[p] \in {"loading", "editor"} /\ UNCHANGED <<workflow, save, task>>
    BY <1>1, Zenon DEF Pages
  <2>2. workflow # "none" /\ save[p] # "creating"
    BY <2>1, Zenon DEF Pages
  <2> QED
    BY <1>3, <1>4, <2>1, <2>2, EditorPages, Zenon
<1>6. Loaded'
  <2>1. Numbered(<<>>) /\ StartOf(<<>>, versions)
    BY StartFacts, Zenon DEF Types, TableTypes
  <2>2. UNCHANGED <<workflow, versions, cached, seen, saved>>
    BY <1>1, Zenon
  <2> QED
    BY <1>3, <1>4, <2>1, <2>2, Zenon DEF Loaded
<1>7. Stamped'
  <2>1. 0 <= Len(versions)
    BY DEF Types, TableTypes
  <2>2. UNCHANGED <<workflow, versions, seen>>
    BY <1>1, Zenon
  <2> QED
    BY <1>3, <1>4, <2>1, <2>2, Zenon DEF Stamped
<1> QED
  BY Frames, <1>1, <1>2, <1>5, <1>6, <1>7, Zenon DEF Types

(* The answer to a save tells the page a number that is in the table, and  *)
(* cancels the fetch that may have read the table before it was.           *)
LEMMA SaveArrivesInd ==
  ASSUME IndInv, NEW p \in Page, SaveArrives(p), clicks' \in 0 .. MaxClicks
  PROVE  IndInv'
<1> USE DEF IndInv, tables, queries, editor, saving, tasks
<1>1. /\ save[p] = "stored" /\ UNCHANGED <<tables, tasks>>
      /\ save' = [save EXCEPT ![p] = "idle"] /\ sending' = [sending EXCEPT ![p] = Nothing]
  BY Zenon DEF SaveArrives, Unpend
<1>2. \/ at[p] = "left" /\ UNCHANGED <<at, queries, saved, editor>>
      \/ /\ at[p] # "left" /\ saved' = [saved EXCEPT ![p] = sending[p].number]
         /\ Asks(p) /\ Moves(p)
  BY Zenon DEF SaveArrives
<1>3. workflow # "none" /\ at[p] # "closed" /\ sending[p] \in Sent
  BY <1>1, Zenon DEF Pages, Types, RequestTypes
<1>4. PageTypes' /\ Shows'
  <2>1. CASE at[p] = "left"
    BY <1>2, <2>1, Frames, Zenon
  <2>2. CASE at[p] # "left"
    <3>1. draft' \in [Page -> Definition] /\ edited' \in [Page -> BOOLEAN]
      <4>1. draft \in [Page -> Definition] /\ edited \in [Page -> BOOLEAN] /\ Moves(p)
        BY <1>2, <2>2, Zenon DEF Types, PageTypes
      <4> HIDE DEF IndInv
      <4> QED
        BY <4>1, DefinitionAssumption DEF Moves
    <3>2. PageTypes'
      BY <1>2, <2>2, <3>1, AsksTypes, Zenon DEF PageTypes
    <3>3. cached' = cached
      BY <1>2, <2>2, Zenon DEF Asks
    <3>5. \A q \in Page \ {p} : draft'[q] = draft[q] /\ edited'[q] = edited[q]
      <4>1. CASE at[p] = "new"
        BY <1>2, <2>2, <4>1, Zenon DEF Moves, Types, PageTypes
      <4>2. CASE at[p] # "new"
        BY <1>2, <2>2, <4>2, Zenon DEF Moves
      <4> QED
        BY <4>1, <4>2, Zenon
    <3>4. cached[p] # <<>> => draft'[p] = draft[p] /\ edited'[p] = edited[p]
      BY <1>2, <2>2, Zenon DEF Moves, Loaded
    <3> QED
      BY <3>2, <3>3, <3>4, <3>5, Zenon DEF Shows
  <2> QED
    BY <2>1, <2>2, Zenon
<1>5. RequestTypes'
  <2>1. sending[p].number \in 0 .. MaxVersions
    BY <1>3, Zenon DEF Sent
  <2> QED
    BY <1>1, <1>2, <2>1, SentFacts, Zenon DEF Types, RequestTypes
<1>6. Pages'
  <2>1. save'[p] = "idle" /\ \A q \in Page \ {p} : save'[q] = save[q]
    BY <1>1, Zenon DEF Types, RequestTypes
  <2>2. CASE at[p] = "left"
    <3>1. UNCHANGED <<workflow, at, query, task>>
      BY <1>1, <1>2, <2>2, Zenon
    <3>2. ASSUME NEW q \in Page PROVE save'[q] = save[q] \/ (save'[q] = "idle" /\ at[q] = "left")
      BY <2>1, <2>2, Zenon
    <3> QED
      BY <3>1, <3>2, SMT DEF Pages
  <2>3. CASE at[p] # "left"
    <3>1. at'[p] \in {"loading", "editor"}
      BY <1>2, <2>3, AsksTypes, Zenon
    <3>2. \A q \in Page \ {p} : at'[q] = at[q] /\ query'[q] = query[q]
      BY <1>2, <2>3, Zenon DEF Asks, Types, PageTypes
    <3> QED
      BY <1>1, <1>3, <2>1, <3>1, <3>2, EditorPages, Zenon
  <2> QED
    BY <2>2, <2>3, Zenon
<1>7. SavesNumbered'
  BY <1>1, <1>2, <1>3, Zenon DEF Types, RequestTypes, TableTypes, SavesNumbered, Sent
<1>8. Loaded' /\ Stamped'
  <2>1. CASE at[p] = "left"
    BY <1>1, <1>2, <2>1, Frames, Zenon
  <2>2. CASE at[p] # "left"
    <3>1. \A q \in Page \ {p} : saved'[q] = saved[q]
      BY <1>2, <2>2, Zenon DEF Types, RequestTypes
    <3> QED
      BY <1>1, <1>2, <1>3, <2>2, <3>1, AsksKeeps, Zenon
  <2> QED
    BY <2>1, <2>2, Zenon
<1> QED
  BY Frames, <1>1, <1>4, <1>5, <1>6, <1>7, <1>8, Zenon DEF Types

(* A refused save leaves the page, its rows and its editor as they were.   *)
LEMMA SaveFailsInd ==
  ASSUME IndInv, NEW p \in Page, SaveFails(p), clicks' \in 0 .. MaxClicks
  PROVE  IndInv'
<1> USE DEF IndInv, SaveFails, Unpend, tables, queries, editor, saving, tasks
<1>1. RequestTypes'
  BY SentFacts, Zenon DEF Types, RequestTypes
<1>2. Pages'
  BY DEF Types, PageTypes, RequestTypes, TableTypes, Pages
<1>3. SavesNumbered'
  BY Zenon DEF Types, RequestTypes, TableTypes, SavesNumbered
<1> QED
  BY Frames, <1>1, <1>2, <1>3, Zenon DEF Types

(* The page is left when its run or its delete is answered, and what it    *)
(* had fetched goes with it.                                               *)
LEMMA TaskArrivesInd ==
  ASSUME IndInv, NEW p \in Page, TaskArrives(p), clicks' \in 0 .. MaxClicks
  PROVE  IndInv'
<1> USE DEF IndInv, TaskArrives, Becomes, tables, queries, editor, saving, tasks
<1>1. PageTypes'
  BY StartFacts, SentFacts, DefinitionAssumption, Zenon DEF Types, PageTypes
<1>2. RequestTypes'
  <2>1. saved' \in [Page -> 0 .. MaxVersions]
    BY BoundsAssumption DEF Types, RequestTypes
  <2> QED
    BY <2>1, SentFacts, Zenon DEF Types, RequestTypes
<1>3. Pages'
  BY DEF Types, PageTypes, RequestTypes, TableTypes, Pages
<1>4. SavesNumbered'
  BY DEF Types, RequestTypes, TableTypes, SavesNumbered
<1>5. Loaded'
  BY StartFacts DEF Types, PageTypes, TableTypes, Loaded
<1>6. TargetsStored'
  BY Zenon DEF Types, RequestTypes, TargetsStored
<1>7. Stamped'
  <2>1. 0 <= Len(versions)
    BY DEF Types, TableTypes
  <2> QED
    BY <2>1, Zenon DEF Types, PageTypes, Stamped
<1>8. Shows'
  BY Zenon DEF Types, PageTypes, Shows
<1> QED
  BY Frames, <1>1, <1>2, <1>3, <1>4, <1>5, <1>6, <1>7, <1>8, Zenon DEF Types

(* Deleting an execution only removes a row.                               *)
LEMMA DeleteExecutionInd ==
  ASSUME IndInv, DeleteExecution, clicks' = clicks
  PROVE  IndInv'
<1>1. /\ executions' \subseteq executions
      /\ UNCHANGED <<workflow, versions, at, queries, editor, saving, tasks, clicks>>
  BY Zenon DEF DeleteExecution
<1>2. TableTypes' /\ Tables'
  BY <1>1, Zenon DEF IndInv, Types, TableTypes, Tables
<1> QED
  BY <1>1, <1>2, Frames, Zenon DEF IndInv, Types, queries, editor, saving, tasks

-----------------------------------------------------------------------------
(* The theorems.                                                           *)

LEMMA InitInd == Init => IndInv
<1> SUFFICES ASSUME Init PROVE IndInv
  BY Zenon
<1>1. PageTypes
  BY StartFacts, SentFacts, DefinitionAssumption, Zenon DEF Init, PageTypes
<1>2. RequestTypes
  BY SentFacts, BoundsAssumption, Zenon DEF Init, RequestTypes
<1>3. TableTypes
  BY StartFacts, BoundsAssumption DEF Init, TableTypes
<1>4. Tables /\ Pages /\ SavesNumbered
  BY StartFacts, Zenon DEF Init, Tables, Pages, SavesNumbered
<1>5. Loaded
  BY StartFacts, Zenon DEF Init, Loaded
<1>6. TargetsStored
  BY Zenon DEF Init, TargetsStored
<1>7. Stamped
  BY DEF Init, Stamped
<1>8. Shows
  BY Zenon DEF Init, Shows
<1> QED
  BY <1>1, <1>2, <1>3, <1>4, <1>5, <1>6, <1>7, <1>8, Zenon DEF IndInv, Types

LEMMA NextInd == IndInv /\ [Next]_vars => IndInv'
<1> SUFFICES ASSUME IndInv, [Next]_vars PROVE IndInv'
  BY Zenon
<1>1. clicks \in 0 .. MaxClicks
  BY Zenon DEF IndInv, Types, TableTypes
<1>2. CASE DeleteExecution /\ UNCHANGED clicks
  BY <1>2, DeleteExecutionInd, Zenon
<1>3. ASSUME NEW p \in Page, UserStep(p), clicks < MaxClicks, clicks' = clicks + 1
      PROVE  IndInv'
  <2>1. clicks' \in 0 .. MaxClicks
    BY <1>1, <1>3, BoundsAssumption
  <2> QED
    BY <1>3, <2>1, OpenNewInd, OpenEditorInd, RefocusInd, EditInd, HandleSaveInd,
       ConfirmRunInd, HandleDeleteInd, Zenon DEF UserStep
<1>4. ASSUME NEW p \in Page, ServerStep(p), clicks' = clicks
      PROVE  IndInv'
  BY <1>1, <1>4, FindWorkflowInd, LoadVersionsInd, CreateWorkflowInd, ReadMaxVersionInd,
     CommitVersionInd, ResolveVersionInd, InsertExecutionInd, LoadForDeleteInd, CommitDeleteInd, Zenon
     DEF ServerStep
<1>5. ASSUME NEW p \in Page, AnswerArrives(p), clicks' = clicks
      PROVE  IndInv'
  BY <1>1, <1>5, QueryArrivesInd, QueryFailsInd, SaveArrivesInd, SaveFailsInd, TaskArrivesInd, Zenon
     DEF AnswerArrives
<1>6. CASE UNCHANGED vars
  BY <1>1, <1>6, Frames, Zenon DEF IndInv, Types, vars, tables, queries, editor, saving, tasks
<1> QED
  BY <1>2, <1>3, <1>4, <1>5, <1>6, Zenon DEF Next

(* The inductive invariant, for every number of pages and every bound.     *)
THEOREM Inductive == Spec => []IndInv
BY InitInd, NextInd, PTL DEF Spec

(* create_workflow_version chooses max() + 1 before its commit, and other  *)
(* saves and deletes may be committed between the two; the versions stay   *)
(* numbered 1, 2, 3, ... all the same, and rows and pages have their types.*)
THEOREM NumbersWithoutGap == Spec => []VersionsNumbered
<1>1. IndInv => TypeOK
  BY Zenon DEF IndInv, Types, PageTypes, RequestTypes, TableTypes, TypeOK, Sent
<1>2. IndInv => Numbered(versions)
  BY Zenon DEF IndInv, Tables
<1>3. Numbered(versions) => \A i \in DOMAIN versions : versions[i].number = i
  BY DEF Numbered
<1> QED
  BY <1>1, <1>2, <1>3, Inductive, PTL DEF VersionsNumbered

(* start_execution runs a version that exists, and it is what the editor   *)
(* showed when Run was confirmed, unless that held changes.                *)
THEOREM RunsTheShownVersion == Spec => []RunsWhatWasShown
<1>1. IndInv => RunsWhatWasShown
  <2> SUFFICES ASSUME IndInv, NEW e \in executions
               PROVE  \E i \in DOMAIN versions :
                        /\ versions[i].number = e.version.number
                        /\ e.version.unsaved \/ versions[i].definition = e.version.shown
    BY Zenon DEF RunsWhatWasShown
  <2>1. Runs(e.version, versions) /\ versions \in Seq(Row) /\ Numbered(versions)
    BY Zenon DEF IndInv, Types, TableTypes, Tables
  <2>2. e.version.number \in DOMAIN versions
    BY <2>1 DEF Runs
  <2> QED
    BY <2>1, <2>2, Zenon DEF Runs, Numbered
<1> QED
  BY <1>1, Inductive, PTL

(* A page whose last fetch succeeded has loaded what it was told it had    *)
(* saved: invalidateQueries cancels the fetch that may have read too       *)
(* early.                                                                  *)
THEOREM SaveIsKnown == Spec => []IdlePageKnowsItsSave
<1>1. IndInv => IdlePageKnowsItsSave
  <2> SUFFICES ASSUME IndInv, NEW p \in Page, at[p] = "editor", query[p] = "idle", workflow # "deleted"
               PROVE  saved[p] <= Newest(cached[p])
    BY Zenon DEF IdlePageKnowsItsSave
  <2>1. Newest(cached[p]) = Len(cached[p])
    BY NewestIsLast, Zenon DEF IndInv, Types, PageTypes, Loaded
  <2> QED
    BY <2>1, Zenon DEF IndInv, Loaded
<1> QED
  BY <1>1, Inductive, PTL

(* Changes in the editor are dropped when a page is left, when a new       *)
(* workflow's page moves to its editor, and by an answer, which then has   *)
(* more rows than the page or a later updated_at than data that were torn. *)
LEMMA EditsStep ==
  ASSUME IndInv, [Next]_vars, NEW p \in Page, edited[p], ~edited'[p]
  PROVE  \/ workflow = "deleted" \/ at'[p] = "left" \/ at[p] = "new"
         \/ Newest(cached'[p]) > Newest(cached[p])
         \/ seen[p] < Newest(cached[p]) /\ seen'[p] > seen[p]
<1>1. edited' # edited
  BY Zenon
<1>2. PICK q \in Page : Edit(q) \/ QueryArrives(q) \/ TaskArrives(q) \/ SaveArrives(q)
  <2>1. UNCHANGED vars \/ DeleteExecution => edited' = edited
    BY Zenon DEF vars, editor, DeleteExecution
  <2>2. PICK q \in Page : UserStep(q) \/ ServerStep(q) \/ AnswerArrives(q)
    BY <1>1, <2>1, Zenon DEF Next
  <2>3. UserStep(q) => Edit(q) \/ edited' = edited
    BY Zenon DEF UserStep, editor, OpenNew, OpenEditor, Refocus, HandleSave, ConfirmRun, HandleDelete
  <2>4. FindWorkflow(q) \/ LoadVersions(q) \/ CreateWorkflow(q) \/ ReadMaxVersion(q) \/ CommitVersion(q)
          => edited' = edited
    BY Zenon DEF editor, FindWorkflow, LoadVersions, CreateWorkflow, ReadMaxVersion, CommitVersion
  <2>5. ResolveVersion(q) \/ InsertExecution(q) \/ LoadForDelete(q) \/ CommitDelete(q) => edited' = edited
    BY Zenon DEF editor, ResolveVersion, InsertExecution, LoadForDelete, CommitDelete
  <2>6. QueryFails(q) \/ SaveFails(q) => edited' = edited
    BY Zenon DEF editor, QueryFails, SaveFails
  <2> QED
    BY <1>1, <2>2, <2>3, <2>4, <2>5, <2>6, Zenon DEF ServerStep, AnswerArrives
<1>3. edited \in [Page -> BOOLEAN] /\ at \in [Page -> {"closed", "new", "loading", "editor", "left"}]
  BY Zenon DEF IndInv, Types, PageTypes
<1>4. ~Edit(q)
  BY <1>3, Zenon DEF Edit
<1>5. CASE TaskArrives(q)
  BY <1>3, <1>5, Zenon DEF TaskArrives
<1>6. CASE SaveArrives(q)
  BY <1>1, <1>3, <1>6, Zenon DEF SaveArrives, Moves, editor
<1>7. CASE QueryArrives(q)
  <2>1. p = q /\ <<answer[p], stamp[p]>> # <<cached[p], seen[p]>>
    BY <1>1, <1>3, <1>7, Zenon DEF QueryArrives, Fill, editor
  <2>2. /\ query[p] = "answered" /\ cached' = [cached EXCEPT ![p] = answer[p]]
        /\ seen' = [seen EXCEPT ![p] = stamp[p]]
    BY <1>7, <2>1, Zenon DEF QueryArrives, Fill
  <2>3. /\ cached[p] \in Seq(Row) /\ answer[p] \in Seq(Row) /\ cached'[p] = answer[p]
        /\ Newest(cached[p]) = Len(cached[p]) /\ Newest(answer[p]) = Len(answer[p])
        /\ seen'[p] = stamp[p] /\ seen[p] \in 0 .. MaxVersions /\ stamp[p] \in 0 .. MaxVersions
    BY <2>2, NewestIsLast, Zenon DEF IndInv, Types, PageTypes, Loaded
  <2>4. ASSUME workflow # "deleted"
        PROVE  Len(answer[p]) > Len(cached[p]) \/ (seen[p] < Len(cached[p]) /\ stamp[p] > seen[p])
    <3>1. /\ Len(cached[p]) <= Len(answer[p])
          /\ StartOf(cached[p], versions) /\ StartOf(answer[p], versions)
          /\ seen[p] <= stamp[p] /\ stamp[p] <= Len(answer[p])
      BY <2>2, <2>4, Zenon DEF IndInv, Loaded, Stamped
    <3>2. Len(answer[p]) = Len(cached[p]) => answer[p] = cached[p]
      <4>1. ASSUME Len(answer[p]) = Len(cached[p])
            PROVE  \A i \in 1 .. Len(cached[p]) : answer[p][i] = cached[p][i]
        BY <2>3, <3>1, <4>1, Zenon DEF StartOf
      <4> QED
        BY <2>3, <4>1, SameRows, Zenon
    <3>3. answer[p] = cached[p] => stamp[p] # seen[p]
      BY <2>1, Zenon
    <3> QED
      BY <2>3, <3>1, <3>2, <3>3
  <2> QED
    BY <2>3, <2>4, Zenon
<1> QED
  BY <1>2, <1>4, <1>5, <1>6, <1>7, Zenon

(* A fetch that brings nothing new keeps the changes in the editor: they   *)
(* give way to a version that the page had not loaded, to the deletion of  *)
(* the workflow, to the user's leaving, or, once, to the updated_at of a   *)
(* save that fell between the two reads of an earlier fetch.               *)
THEOREM EditsSurviveFetches == Spec => EditsGiveWayToNews
<1>1. IndInv /\ [Next]_vars =>
        [\A p \in Page : (edited[p] /\ ~edited'[p]) =>
           \/ workflow = "deleted" \/ at'[p] = "left" \/ at[p] = "new"
           \/ Newest(cached'[p]) > Newest(cached[p])
           \/ seen[p] < Newest(cached[p]) /\ seen'[p] > seen[p]]_vars
  BY EditsStep, Zenon
<1> QED
  BY <1>1, Inductive, PTL DEF Spec, EditsGiveWayToNews

=============================================================================
