--------------------------- MODULE WorkerLifecycle ---------------------------
(***************************************************************************)
(* The rows of the workers table, the tasks that write them and the        *)
(* dashboard that reads them.  The main task of a worker registers it,     *)
(* follows its jobs and marks it offline; its heartbeat task repeats what  *)
(* the main task reports.                                                  *)
(*                                                                         *)
(* The table has one row per worker name.  Workers have names of their own *)
(* unless worker_name is configured; then they share a row.                *)
(*                                                                         *)
(* A session reads a row and commits the columns whose value differs from  *)
(* the one it read.                                                        *)
(***************************************************************************)
EXTENDS Naturals, FiniteSets

CONSTANTS
  Worker,        \* worker tasks: of the API process, or processes of their own
  Name,          \* worker names
  NameOf,        \* the name of each worker
  Owner,         \* API keys
  OwnerOf,       \* the key that spawned the worker, NoOwner for the others
  Process,       \* API and worker processes
  ProcessOf,     \* the process each worker is a task of
  Job,           \* node executions
  MaxSpawned,    \* MAX_SPAWNED_WORKERS
  MaxStarts,     \* bound: starts of each worker
  MaxFaults      \* bound: crashes and failed database accesses

NoOwner == "no owner"
NoJob == "no job"

ASSUME ConstantsAssumption ==
  /\ NameOf \in [Worker -> Name]
  /\ OwnerOf \in [Worker -> Owner \cup {NoOwner}]
  /\ ProcessOf \in [Worker -> Process]
  /\ NoOwner \notin Owner /\ NoJob \notin Job
  /\ MaxSpawned \in Nat /\ MaxStarts \in Nat /\ MaxFaults \in Nat

WorkerStatus == {"STARTING", "IDLE", "BUSY", "STOPPING", "OFFLINE"}

(* What a session reads of a row, and a row that is not there.             *)
Row == [status : WorkerStatus, job : Job \cup {NoJob}, owner : Owner \cup {NoOwner}]
NoRow == [status |-> "none", job |-> NoJob, owner |-> NoOwner]

VARIABLES
  row,        \* the row of each name, or NoRow
  fresh,      \* is last_heartbeat_at at most 30 seconds ago?
  main,       \* where the main task of a worker is
  found,      \* the row its session has read
  controller, \* HeartbeatController: the status and the job to report
  batch,      \* is a batch of jobs being processed?
  stop,       \* stop_event
  beat,       \* where the heartbeat task is
  snapshot,   \* the controller's state as the heartbeat has taken it
  loaded,     \* the row as update_heartbeat has read it
  starts,
  faults

vars == <<row, fresh, main, found, controller, batch, stop, beat, snapshot, loaded, starts, faults>>

Report == [status : WorkerStatus, job : Job \cup {NoJob}]
Quiet(s) == [status |-> s, job |-> NoJob]

Spawned == {w \in Worker : OwnerOf[w] # NoOwner}
Active(w) == main[w] \notin {"off", "dead"}

Init ==
  /\ row = [n \in Name |-> NoRow]
  /\ fresh = [n \in Name |-> FALSE]
  /\ main = [w \in Worker |-> "off"]
  /\ found = [w \in Worker |-> NoRow]
  /\ controller = [w \in Worker |-> Quiet("STARTING")]
  /\ batch = [w \in Worker |-> FALSE]
  /\ stop = [w \in Worker |-> FALSE]
  /\ beat = [w \in Worker |-> "off"]
  /\ snapshot = [w \in Worker |-> Quiet("STARTING")]
  /\ loaded = [w \in Worker |-> NoRow]
  /\ starts = [w \in Worker |-> 0]
  /\ faults = 0

(* The commit of a session that has read old and set the report r.         *)
Updated(n, old, r) ==
  [row[n] EXCEPT !.status = IF r.status # old.status THEN r.status ELSE @,
                 !.job = IF r.job # old.job THEN r.job ELSE @]

-----------------------------------------------------------------------------
(* Registration.                                                           *)

(* spawn_background_worker_task counts the tasks that are not done.        *)
Start(w) ==
  /\ main[w] \in {"off", "dead"} /\ beat[w] = "off"
  /\ starts[w] < MaxStarts
  /\ w \in Spawned => Cardinality({v \in Spawned : Active(v)}) < MaxSpawned
  /\ main' = [main EXCEPT ![w] = "selecting"]
  /\ starts' = [starts EXCEPT ![w] = @ + 1]
  /\ UNCHANGED <<row, fresh, found, controller, batch, stop, beat, snapshot, loaded, faults>>

(* register_worker looks for a row of the same name, and of the same owner *)
(* if the worker has one.                                                  *)
RegisterRead(w) ==
  LET r == row[NameOf[w]] IN
  /\ main[w] = "selecting"
  /\ found' = [found EXCEPT ![w] =
                 IF OwnerOf[w] = NoOwner \/ r.owner = OwnerOf[w] THEN r ELSE NoRow]
  /\ main' = [main EXCEPT ![w] = "registering"]
  /\ UNCHANGED <<row, fresh, controller, batch, stop, beat, snapshot, loaded, starts, faults>>

(* Its commit, and the start of the heartbeat with a fresh controller.     *)
RegisterCommit(w) ==
  LET n == NameOf[w] IN
  /\ main[w] = "registering"
  /\ found[w] = NoRow => row[n] = NoRow
  /\ row' = [row EXCEPT ![n] =
               IF found[w] = NoRow
               THEN [status |-> "STARTING", job |-> NoJob, owner |-> OwnerOf[w]]
               ELSE Updated(n, found[w], Quiet("STARTING"))]
  /\ controller' = [controller EXCEPT ![w] = Quiet("IDLE")]
  /\ stop' = [stop EXCEPT ![w] = FALSE]
  /\ beat' = [beat EXCEPT ![w] = "waiting"]
  /\ main' = [main EXCEPT ![w] = "running"]
  /\ fresh' = [fresh EXCEPT ![n] = TRUE]
  /\ found' = [found EXCEPT ![w] = NoRow]
  /\ UNCHANGED <<batch, snapshot, loaded, starts, faults>>

(* worker_name is unique: the INSERT fails and the task ends.              *)
RegisterRejected(w) ==
  /\ main[w] = "registering"
  /\ found[w] = NoRow /\ row[NameOf[w]] # NoRow
  /\ main' = [main EXCEPT ![w] = "dead"]
  /\ UNCHANGED <<row, fresh, found, controller, batch, stop, beat, snapshot, loaded, starts, faults>>

-----------------------------------------------------------------------------
(* The consumer loop, as far as the heartbeat shows it.                    *)

(* Mutant: set_status leaves the job of the last batch.                    *)
SetStatusKeepJob(old, s, j) == [status |-> s, job |-> IF j # NoJob THEN j ELSE old.job]
SetStatus(old, s, j) ==
  [status |-> s, job |-> IF j # NoJob THEN j ELSE IF s # "BUSY" THEN NoJob ELSE old.job]

(* process_and_ack reports its job: the last one started is the one shown. *)
StartJob(w, j) ==
  /\ main[w] = "running"
  /\ controller' = [controller EXCEPT ![w] = SetStatus(@, "BUSY", j)]
  /\ batch' = [batch EXCEPT ![w] = TRUE]
  /\ UNCHANGED <<row, fresh, main, found, stop, beat, snapshot, loaded, starts, faults>>

(* gather returns.                                                         *)
EndBatch(w) ==
  /\ main[w] = "running" /\ batch[w]
  /\ controller' = [controller EXCEPT ![w] = SetStatus(@, "IDLE", NoJob)]
  /\ batch' = [batch EXCEPT ![w] = FALSE]
  /\ UNCHANGED <<row, fresh, main, found, stop, beat, snapshot, loaded, starts, faults>>

-----------------------------------------------------------------------------
(* Shutdown: run_worker is cancelled or raises.                            *)

Stop(w) ==
  /\ main[w] = "running"
  /\ controller' = [controller EXCEPT ![w] = SetStatus(@, "STOPPING", NoJob)]
  /\ stop' = [stop EXCEPT ![w] = TRUE]
  /\ batch' = [batch EXCEPT ![w] = FALSE]
  /\ main' = [main EXCEPT ![w] = "joining"]
  /\ UNCHANGED <<row, fresh, found, beat, snapshot, loaded, starts, faults>>

(* Mutant: the heartbeat task is not awaited.                              *)
OfflineReadEarly(w) ==
  /\ main[w] = "joining"
  /\ found' = [found EXCEPT ![w] = row[NameOf[w]]]
  /\ main' = [main EXCEPT ![w] = "leaving"]
  /\ UNCHANGED <<row, fresh, controller, batch, stop, beat, snapshot, loaded, starts, faults>>

(* mark_offline, once the heartbeat and the recovery task have ended.      *)
OfflineRead(w) ==
  /\ main[w] = "joining" /\ beat[w] = "off"
  /\ found' = [found EXCEPT ![w] = row[NameOf[w]]]
  /\ main' = [main EXCEPT ![w] = "leaving"]
  /\ UNCHANGED <<row, fresh, controller, batch, stop, beat, snapshot, loaded, starts, faults>>

OfflineCommit(w) ==
  LET n == NameOf[w] IN
  /\ main[w] = "leaving"
  /\ row' = [row EXCEPT ![n] = Updated(n, found[w], Quiet("OFFLINE"))]
  /\ main' = [main EXCEPT ![w] = "off"]
  /\ fresh' = [fresh EXCEPT ![n] = TRUE]
  /\ found' = [found EXCEPT ![w] = NoRow]
  /\ UNCHANGED <<controller, batch, stop, beat, snapshot, loaded, starts, faults>>

-----------------------------------------------------------------------------
(* The heartbeat task (worker/heartbeat.py).                               *)

BeatSnapshot(w) ==
  /\ beat[w] = "waiting" /\ ~stop[w]
  /\ snapshot' = [snapshot EXCEPT ![w] = controller[w]]
  /\ beat' = [beat EXCEPT ![w] = "loading"]
  /\ UNCHANGED <<row, fresh, main, found, controller, batch, stop, loaded, starts, faults>>

BeatRead(w) ==
  /\ beat[w] = "loading"
  /\ loaded' = [loaded EXCEPT ![w] = row[NameOf[w]]]
  /\ beat' = [beat EXCEPT ![w] = "writing"]
  /\ UNCHANGED <<row, fresh, main, found, controller, batch, stop, snapshot, starts, faults>>

BeatCommit(w) ==
  LET n == NameOf[w] IN
  /\ beat[w] = "writing"
  /\ row' = [row EXCEPT ![n] = Updated(n, loaded[w], snapshot[w])]
  /\ beat' = [beat EXCEPT ![w] = "waiting"]
  /\ fresh' = [fresh EXCEPT ![n] = TRUE]
  /\ snapshot' = [snapshot EXCEPT ![w] = Quiet("STARTING")]
  /\ loaded' = [loaded EXCEPT ![w] = NoRow]
  /\ UNCHANGED <<main, found, controller, batch, stop, starts, faults>>

BeatStop(w) ==
  /\ beat[w] = "waiting" /\ stop[w]
  /\ beat' = [beat EXCEPT ![w] = "off"]
  /\ UNCHANGED <<row, fresh, main, found, controller, batch, stop, snapshot, loaded, starts, faults>>

(* Mutant: the exception ends the loop.                                    *)
BeatFailsForGood(w) ==
  /\ beat[w] \in {"loading", "writing"} /\ faults < MaxFaults
  /\ beat' = [beat EXCEPT ![w] = "off"]
  /\ faults' = faults + 1
  /\ fresh' = [fresh EXCEPT ![NameOf[w]] = FALSE]
  /\ snapshot' = [snapshot EXCEPT ![w] = Quiet("STARTING")]
  /\ loaded' = [loaded EXCEPT ![w] = NoRow]
  /\ UNCHANGED <<row, main, found, controller, batch, stop, starts>>

(* An exception is logged and the loop goes on; the database may be out of *)
(* reach until the row is stale.                                           *)
BeatFails(w) ==
  /\ beat[w] \in {"loading", "writing"} /\ faults < MaxFaults
  /\ beat' = [beat EXCEPT ![w] = "waiting"]
  /\ faults' = faults + 1
  /\ \E late \in BOOLEAN : fresh' = [fresh EXCEPT ![NameOf[w]] = @ /\ ~late]
  /\ snapshot' = [snapshot EXCEPT ![w] = Quiet("STARTING")]
  /\ loaded' = [loaded EXCEPT ![w] = NoRow]
  /\ UNCHANGED <<row, main, found, controller, batch, stop, starts>>

-----------------------------------------------------------------------------
(* Ends without a report, and the dashboard.                               *)

(* The tasks of the workers ws end where they are.                         *)
Abandon(ws) ==
  /\ main' = [w \in Worker |-> IF w \in ws /\ Active(w) THEN "dead" ELSE main[w]]
  /\ found' = [w \in Worker |-> IF w \in ws THEN NoRow ELSE found[w]]
  /\ batch' = [w \in Worker |-> batch[w] /\ w \notin ws]
  /\ beat' = [w \in Worker |-> IF w \in ws THEN "off" ELSE beat[w]]
  /\ snapshot' = [w \in Worker |-> IF w \in ws THEN Quiet("STARTING") ELSE snapshot[w]]
  /\ loaded' = [w \in Worker |-> IF w \in ws THEN NoRow ELSE loaded[w]]
  /\ UNCHANGED <<row, fresh, controller, stop, starts>>

(* A process dies with all its workers; their rows keep what they say.     *)
Crash(p) ==
  LET ws == {w \in Worker : ProcessOf[w] = p} IN
  /\ \E w \in ws : Active(w)
  /\ faults < MaxFaults
  /\ Abandon(ws)
  /\ faults' = faults + 1

(* The registration or mark_offline raises, or is cancelled.               *)
TaskFails(w) ==
  /\ main[w] \in {"selecting", "registering", "leaving"} /\ faults < MaxFaults
  /\ Abandon({w})
  /\ faults' = faults + 1

(* An API process that shuts down waits for its own worker only: the event *)
(* loop then cancels the tasks of the spawned ones, heartbeats included,   *)
(* and none of these marks its row.                                        *)
ExitProcess(p) ==
  LET ws == {w \in Worker : ProcessOf[w] = p} IN
  /\ \A w \in ws \ Spawned : ~Active(w) /\ starts[w] > 0
  /\ \E w \in ws \cap Spawned : Active(w)
  /\ Abandon(ws)
  /\ UNCHANGED faults

(* Thirty seconds without a heartbeat.                                     *)
Expire(n) ==
  /\ fresh[n]
  /\ \A w \in Worker : NameOf[w] = n => beat[w] = "off"
  /\ fresh' = [fresh EXCEPT ![n] = FALSE]
  /\ UNCHANGED <<row, main, found, controller, batch, stop, beat, snapshot, loaded, starts, faults>>

(* Mutant: the count goes by the status alone.                             *)
CountedByStatus(n) == row[n].status \in {"STARTING", "IDLE", "BUSY"}

(* The dashboard counts the worker as active.                              *)
Counted(n) == row[n].status \in {"STARTING", "IDLE", "BUSY"} /\ fresh[n]

-----------------------------------------------------------------------------
MainStep(w) == RegisterRead(w) \/ RegisterCommit(w) \/ RegisterRejected(w)
                 \/ OfflineRead(w) \/ OfflineCommit(w)

BeatStep(w) == BeatSnapshot(w) \/ BeatRead(w) \/ BeatCommit(w) \/ BeatStop(w)

Next ==
  \/ \E p \in Process : Crash(p) \/ ExitProcess(p)
  \/ \E n \in Name : Expire(n)
  \/ \E w \in Worker :
    \/ Start(w)
    \/ MainStep(w)
    \/ \E j \in Job : StartJob(w, j)
    \/ EndBatch(w)
    \/ Stop(w)
    \/ BeatStep(w)
    \/ BeatFails(w)
    \/ TaskFails(w)

Spec == Init /\ [][Next]_vars

(* The tasks of a worker that is up go on and time passes; jobs, stops and *)
(* crashes come when they come.                                            *)
FairSpec ==
  /\ Spec
  /\ \A w \in Worker : WF_vars(MainStep(w)) /\ WF_vars(BeatStep(w))
  /\ \A n \in Name : WF_vars(Expire(n))

-----------------------------------------------------------------------------
(* Properties.                                                             *)

TypeOK ==
  /\ row \in [Name -> Row \cup {NoRow}]
  /\ fresh \in [Name -> BOOLEAN]
  /\ main \in [Worker -> {"off", "selecting", "registering", "running", "joining", "leaving", "dead"}]
  /\ found \in [Worker -> Row \cup {NoRow}]
  /\ controller \in [Worker -> Report]
  /\ batch \in [Worker -> BOOLEAN]
  /\ stop \in [Worker -> BOOLEAN]
  /\ beat \in [Worker -> {"off", "waiting", "loading", "writing"}]
  /\ snapshot \in [Worker -> Report]
  /\ loaded \in [Worker -> Row \cup {NoRow}]
  /\ starts \in [Worker -> Nat]
  /\ faults \in Nat

Siblings(w) == {v \in Worker : NameOf[v] = NameOf[w]}

(* A worker that has shut down is shown OFFLINE without a job, unless a    *)
(* worker of the same name is up or has crashed: no late heartbeat revives *)
(* it.  The rows and the tasks have their types.                           *)
OfflineIsLast ==
  /\ TypeOK
  /\ \A w \in Worker :
       starts[w] > 0 /\ (\A v \in Siblings(w) : main[v] = "off")
         => row[NameOf[w]].status = "OFFLINE" /\ row[NameOf[w]].job = NoJob

(* A worker that stays up is counted as active, again and again, whatever  *)
(* the workers that share its row write and although a failed heartbeat is *)
(* only logged.                                                            *)
UpIsCounted ==
  \A w \in Worker : main[w] = "running" ~> (main[w] # "running" \/ Counted(NameOf[w]))

(* A worker that is gone, by whatever end, is not counted for ever: the    *)
(* dashboard does not trust the status of a row that nobody writes.        *)
GoneIsNoticed ==
  \A w \in Worker : main[w] \in {"off", "dead"} ~>
    (~Counted(NameOf[w]) \/ \E v \in Siblings(w) : Active(v))

(* A row that names a job beside another status than BUSY, as two workers  *)
(* with one row can leave it, is put right by the next heartbeats, or is   *)
(* not counted any more.                                                   *)
MixedRowHeals ==
  \A n \in Name : row[n].job # NoJob ~> (row[n].job = NoJob \/ row[n].status = "BUSY" \/ ~Counted(n))

=============================================================================
