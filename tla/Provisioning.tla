---------------------------- MODULE Provisioning ----------------------------
(***************************************************************************)
(* Provisioning of one tenant: the create, retry, activate and deactivate  *)
(* requests, the provisioning runs they start, the background job that     *)
(* takes a run through its steps, and the admin user the seed step makes.  *)
(*                                                                         *)
(* A run is a row with a status and a status per step.  The job has one    *)
(* DbContext per execution: it keeps the copy of the run it loaded first,  *)
(* and a save writes the columns it has changed in that copy.  Any of its  *)
(* reads and saves may throw, also in the catch clause of the job.  Hangfire  *)
(* delivers a job at least once and retries it when it throws.  The admin  *)
(* password waits in the memory of the host that served the request.       *)
(* Job storage is available, so the inline fallback is never taken; roles, *)
(* groups and the other modules' seeds are idempotent and left out.        *)
(***************************************************************************)
EXTENDS Integers, FiniteSets

CONSTANTS
  Hosts,            \* processes of the API, each with Hangfire workers
  Requests,         \* requests in progress at the same time
  Workers,          \* Hangfire workers
  HostOf,           \* the host of each request and worker
  JobRetries,       \* how often Hangfire retries a job that throws
  DefaultPassword,  \* TRUE: Seed:DefaultAdminPassword is configured
  MaxRuns,          \* bound on the runs
  MaxFaults         \* bound on restarts, cut-off requests, redeliveries and
                    \* throwing reads and saves of the tenant and the log

ASSUME ProvisioningAssumption ==
  /\ HostOf \in [Requests \cup Workers -> Hosts]
  /\ JobRetries \in Nat /\ MaxRuns \in Nat /\ MaxFaults \in Nat
  /\ DefaultPassword \in BOOLEAN

VARIABLES
  tenant,    \* the tenant's row: "none", "active", "inactive"
  run,       \* the TenantProvisioning rows with their steps, oldest first
  queue,     \* runs whose job is enqueued
  left,      \* retries Hangfire has left for the job of each run
  migrated,  \* the tenant's database has its schema
  admin,     \* the admin user: "none", or whose password it has
  buffered,  \* hosts with the given password in TenantInitialPasswordBuffer
  pc, arg,   \* the requests: position, and the run inserted
  at, exec,  \* the workers: position, and the execution
  faults,
  (* What happened so far, for the properties:                             *)
  abandoned, \* runs inserted without a job, or whose last attempt recorded nothing
  disturbed  \* runs delivered while worked on, or worked on again when completed

vars == <<tenant, run, queue, left, migrated, admin, buffered, pc, arg, at, exec, faults,
          abandoned, disturbed>>
tables == <<tenant, run, migrated, admin>>
history == <<abandoned, disturbed>>
requests == <<pc, arg>>
workers == <<at, exec>>

Runs == 1..MaxRuns
Database == 1
Migrations == 2
Seeding == 3
CacheWarm == 4
Steps == Database..CacheWarm
Statuses == {"none", "Pending", "Running", "Completed", "Failed"}
InProgress == {"Pending", "Running"}
Run == [status : Statuses, step : [Steps -> Statuses]]
NoRun == [status |-> "none", step |-> [s \in Steps |-> "none"]]
NewRun == [status |-> "Pending", step |-> [s \in Steps |-> "Pending"]]
Execution == [run : Runs, step : Steps, copy : Run, password : {"none", "given", "default"}]
NoExecution == [run |-> 0]
RequestSteps == {"idle", "created", "starting", "checked", "inserted", "activating"}
WorkerSteps == {"idle", "marking", "working", "creating", "worked", "completing", "failing",
                "threw", "unlogged", "done"}

TypeOK ==
  /\ tenant \in {"none", "active", "inactive"}
  /\ run \in [Runs -> Run]
  /\ queue \subseteq Runs
  /\ left \in [Runs -> 0..JobRetries]
  /\ migrated \in BOOLEAN
  /\ admin \in {"none", "given", "default"}
  /\ buffered \subseteq Hosts
  /\ pc \in [Requests -> RequestSteps]
  /\ arg \in [Requests -> 0..MaxRuns]
  /\ \A r \in Requests : pc[r] = "inserted" <=> arg[r] # 0
  /\ at \in [Workers -> WorkerSteps]
  /\ exec \in [Workers -> Execution \cup {NoExecution}]
  /\ \A w \in Workers : at[w] = "idle" <=> exec[w] = NoExecution
  /\ faults \in 0..MaxFaults
  /\ abandoned \subseteq Runs /\ disturbed \subseteq Runs

Init ==
  /\ tenant = "none"
  /\ run = [n \in Runs |-> NoRun]
  /\ queue = {}
  /\ left = [n \in Runs |-> JobRetries]
  /\ migrated = FALSE
  /\ admin = "none"
  /\ buffered = {}
  /\ pc = [r \in Requests |-> "idle"]
  /\ arg = [r \in Requests |-> 0]
  /\ at = [w \in Workers |-> "idle"]
  /\ exec = [w \in Workers |-> NoExecution]
  /\ faults = 0
  /\ abandoned = {} /\ disturbed = {}

Started == {n \in Runs : run[n].status # "none"}

(* GetLatestAsync: the latest run, if there is one, has a status in S *)
LatestIs(S) ==
  \A n \in Started : (\A m \in Started : m <= n) => run[n].status \in S

GoTo(r, s) == pc' = [pc EXCEPT ![r] = s] /\ UNCHANGED arg

End(r) ==
  /\ pc' = [pc EXCEPT ![r] = "idle"]
  /\ arg' = [arg EXCEPT ![r] = 0]

Fault == faults < MaxFaults /\ faults' = faults + 1
-----------------------------------------------------------------------------
(* CreateTenant: the tenant is stored, active from the start, ... *)
CreateTenant(r) ==
  /\ pc[r] = "idle"
  /\ tenant = "none"
  /\ tenant' = "active"
  /\ GoTo(r, "created")
  /\ UNCHANGED <<run, queue, left, migrated, admin, buffered, workers, faults, history>>

(* ... its admin password is buffered, and then StartAsync *)
BufferPassword(r) ==
  /\ pc[r] = "created"
  /\ buffered' = buffered \cup {HostOf[r]}
  /\ GoTo(r, "starting")
  /\ UNCHANGED <<tables, queue, left, workers, faults, history>>

(* RetryTenantProvisioning is StartAsync alone *)
Retry(r) ==
  /\ pc[r] = "idle"
  /\ tenant # "none"
  /\ GoTo(r, "starting")
  /\ UNCHANGED <<tables, queue, left, buffered, workers, faults, history>>

(* StartAsync: the latest run is not in progress, ... *)
CheckLatest(r) ==
  /\ pc[r] = "starting"
  /\ IF LatestIs(Statuses \ InProgress) THEN GoTo(r, "checked") ELSE End(r)
  /\ UNCHANGED <<tables, queue, left, buffered, workers, faults, history>>

(* ... a new one is inserted, ... *)
InsertRun(r) ==
  LET n == Cardinality(Started) + 1 IN
  /\ pc[r] = "checked"
  /\ n <= MaxRuns
  /\ run' = [run EXCEPT ![n] = NewRun]
  /\ pc' = [pc EXCEPT ![r] = "inserted"]
  /\ arg' = [arg EXCEPT ![r] = n]
  /\ UNCHANGED <<tenant, queue, left, migrated, admin, buffered, workers, faults, history>>

(* ... and its job is enqueued (then its id, which nothing reads, saved) *)
Enqueue(r) ==
  /\ pc[r] = "inserted"
  /\ queue' = queue \cup {arg[r]}
  /\ End(r)
  /\ UNCHANGED <<tables, left, buffered, workers, faults, history>>

(* Activate reads the tenant and the latest run, and saves; Deactivate     *)
(* depends on nothing it read but the tenant's being active.               *)
ReadInactive(r) ==
  /\ pc[r] = "idle"
  /\ tenant = "inactive"
  /\ LatestIs({"Completed"})
  /\ GoTo(r, "activating")
  /\ UNCHANGED <<tables, queue, left, buffered, workers, faults, history>>

SaveActive(r) ==
  /\ pc[r] = "activating"
  /\ tenant' = "active"
  /\ End(r)
  /\ UNCHANGED <<run, queue, left, migrated, admin, buffered, workers, faults, history>>

Deactivate(r) ==
  /\ pc[r] = "idle"
  /\ tenant = "active"
  /\ tenant' = "inactive"
  /\ UNCHANGED <<run, queue, left, migrated, admin, buffered, requests, workers, faults, history>>

(* Runs that requests rs have inserted and not enqueued *)
Inserted(rs) == {arg[r] : r \in {q \in rs : pc[q] = "inserted"}}

(* A request is cut off between two steps, or the next one throws *)
Die(r) ==
  /\ Fault
  /\ pc[r] # "idle"
  /\ End(r)
  /\ abandoned' = abandoned \cup Inserted({r})
  /\ UNCHANGED <<tables, queue, left, buffered, workers, disturbed>>
-----------------------------------------------------------------------------
(* A worker goes on to s with execution e *)
Continue(w, s, e) ==
  /\ at' = [at EXCEPT ![w] = s]
  /\ exec' = [exec EXCEPT ![w] = e]

Stop(w) == Continue(w, "idle", NoExecution)

(* SaveChanges: the columns in which the copy changes are written *)
SaveCopy(w, new) ==
  LET old == exec[w].copy IN
  run' = [run EXCEPT ![exec[w].run] =
            [status |-> IF new.status # old.status THEN new.status ELSE @.status,
             step |-> [s \in Steps |-> IF new.step[s] # old.step[s] THEN new.step[s]
                                       ELSE @.step[s]]]]

(* A worker fetches the job of run n and loads the run, unless reading the *)
(* tenant throws, which the job does not catch                             *)
Fetch(w, n) ==
  /\ at[w] = "idle"
  /\ n \in queue
  /\ queue' = queue \ {n}
  /\ \E s \in {"marking", "unlogged"} :
       /\ Continue(w, s, [run |-> n, step |-> Database, copy |-> run[n], password |-> "none"])
       /\ IF s = "unlogged" THEN Fault ELSE UNCHANGED faults
  /\ UNCHANGED <<tables, left, buffered, requests, history>>

(* The step after the execution's, or the end *)
NextStep(w, e) ==
  IF e.step = CacheWarm THEN Continue(w, "completing", e)
  ELSE Continue(w, "marking", [e EXCEPT !.step = @ + 1])

(* What the copy becomes by MarkRunningAsync, MarkStepCompletedAsync,      *)
(* MarkCompletedAsync and MarkFailedAsync                                  *)
AsRunning(e) == [status |-> "Running", step |-> [e.copy.step EXCEPT ![e.step] = "Running"]]
AsStepCompleted(e) == [e.copy EXCEPT !.step[e.step] = "Completed"]
AsCompleted(e) == [e.copy EXCEPT !.status = "Completed"]
AsFailed(e) == [status |-> "Failed", step |-> [e.copy.step EXCEPT ![e.step] = "Failed"]]

(* Faulty: completed steps are run again *)
MarkRunningAgain(w) ==
  LET e == exec[w]
      new == AsRunning(e)
  IN
  /\ at[w] = "marking"
  /\ SaveCopy(w, new)
  /\ Continue(w, "working", [e EXCEPT !.copy = new])
  /\ UNCHANGED <<tenant, queue, left, migrated, admin, buffered, requests, faults, history>>

(* MarkRunningAsync: a step that the copy has as completed is skipped *)
MarkRunning(w) ==
  LET e == exec[w]
      new == AsRunning(e)
  IN
  /\ at[w] = "marking"
  /\ IF e.copy.step[e.step] = "Completed" THEN NextStep(w, e) /\ UNCHANGED run
     ELSE SaveCopy(w, new) /\ Continue(w, "working", [e EXCEPT !.copy = new])
  /\ UNCHANGED <<tenant, queue, left, migrated, admin, buffered, requests, faults, history>>

(* MigrateTenantAsync *)
Migrate(w) ==
  /\ at[w] = "working" /\ exec[w].step = Migrations
  /\ migrated' = TRUE
  /\ Continue(w, "worked", exec[w])
  /\ UNCHANGED <<tenant, run, queue, left, admin, buffered, requests, faults, history>>

(* SeedTenantAsync: if there is no admin, a password is taken from this    *)
(* host's buffer, or else from the configuration, or the seed throws; ...  *)
Seed(w) ==
  LET e == exec[w]
      h == HostOf[w]
  IN
  /\ at[w] = "working" /\ e.step = Seeding
  /\ IF admin # "none" THEN Continue(w, "worked", e) /\ UNCHANGED buffered
     ELSE /\ IF h \in buffered THEN Continue(w, "creating", [e EXCEPT !.password = "given"])
             ELSE IF DefaultPassword THEN Continue(w, "creating", [e EXCEPT !.password = "default"])
             ELSE Continue(w, "failing", e)
          /\ buffered' = buffered \ {h}
  /\ UNCHANGED <<tables, queue, left, requests, faults, history>>

(* ... then the admin is created, unless there is one by now *)
CreateAdmin(w) ==
  /\ at[w] = "creating"
  /\ IF admin = "none"
     THEN admin' = exec[w].password /\ Continue(w, "worked", exec[w])
     ELSE UNCHANGED admin /\ Continue(w, "failing", exec[w])
  /\ UNCHANGED <<tenant, run, queue, left, migrated, buffered, requests, faults, history>>

(* Faulty: the failed result is not looked at *)
StepThrowsUnseen(w) ==
  /\ \/ at[w] = "working" /\ exec[w].step \in {Migrations, Seeding}
     \/ at[w] = "creating"
  /\ Continue(w, "worked", exec[w])
  /\ UNCHANGED <<tables, queue, left, buffered, requests, faults, history>>

(* Migrating or seeding throws: database unreachable, password refused *)
StepThrows(w) ==
  /\ \/ at[w] = "working" /\ exec[w].step \in {Migrations, Seeding}
     \/ at[w] = "creating"
  /\ Continue(w, "failing", exec[w])
  /\ UNCHANGED <<tables, queue, left, buffered, requests, faults, history>>

(* MarkStepCompletedAsync; the first and the last step have no work *)
MarkStepCompleted(w) ==
  LET e == exec[w]
      new == AsStepCompleted(e)
  IN
  /\ \/ at[w] = "worked"
     \/ at[w] = "working" /\ e.step \in {Database, CacheWarm}
  /\ SaveCopy(w, new)
  /\ NextStep(w, [e EXCEPT !.copy = new, !.password = "none"])
  /\ UNCHANGED <<tenant, queue, left, migrated, admin, buffered, requests, faults, history>>

(* MarkCompletedAsync *)
MarkCompleted(w) ==
  LET new == AsCompleted(exec[w]) IN
  /\ at[w] = "completing"
  /\ SaveCopy(w, new)
  /\ Continue(w, "done", [exec[w] EXCEPT !.copy = new])
  /\ UNCHANGED <<tenant, queue, left, migrated, admin, buffered, requests, faults, history>>

(* Faulty: only the step is marked as failed *)
MarkStepFailed(w) ==
  LET e == exec[w]
      new == [e.copy EXCEPT !.step[e.step] = "Failed"]
  IN
  /\ at[w] = "failing"
  /\ SaveCopy(w, new)
  /\ Continue(w, "threw", [e EXCEPT !.copy = new, !.password = "none"])
  /\ UNCHANGED <<tenant, queue, left, migrated, admin, buffered, requests, faults, history>>

(* The job's catch clause: MarkFailedAsync, then rethrow *)
MarkFailed(w) ==
  LET e == exec[w]
      new == AsFailed(e)
  IN
  /\ at[w] = "failing"
  /\ SaveCopy(w, new)
  /\ Continue(w, "threw", [e EXCEPT !.copy = new, !.password = "none"])
  /\ UNCHANGED <<tenant, queue, left, migrated, admin, buffered, requests, faults, history>>

(* What a save that throws leaves behind: the columns it was to write are  *)
(* those the next one will                                                 *)
Unsaved(old, new) ==
  [status |-> IF new.status # old.status THEN "none" ELSE old.status,
   step |-> [s \in Steps |-> IF new.step[s] # old.step[s] THEN "none" ELSE old.step[s]]]

(* One of these four throws, while it reads the run or while it saves: the *)
(* job comes to its catch clause, or, from there, throws with nothing in   *)
(* the log.                                                                *)
MarkThrows(w) ==
  LET e == exec[w]
      Throws(s, new) ==
        \E copy \in {e.copy, Unsaved(e.copy, new)} :
          Continue(w, s, [e EXCEPT !.copy = copy, !.password = "none"])
  IN
  /\ Fault
  /\ \/ at[w] = "marking" /\ Throws("failing", IF e.copy.step[e.step] = "Completed" THEN e.copy
                                              ELSE AsRunning(e))
     \/ /\ at[w] = "worked" \/ (at[w] = "working" /\ e.step \in {Database, CacheWarm})
        /\ Throws("failing", AsStepCompleted(e))
     \/ at[w] = "completing" /\ Throws("failing", AsCompleted(e))
     \/ at[w] = "failing" /\ Throws("unlogged", AsFailed(e))
  /\ disturbed' = disturbed \cup (IF run[e.run].status = "Completed" THEN {e.run} ELSE {})
  /\ UNCHANGED <<tables, queue, left, buffered, requests, abandoned>>

(* Faulty: retries are not counted *)
JobEndsUncounted(w) ==
  /\ at[w] \in {"threw", "unlogged", "done"}
  /\ queue' = IF at[w] # "done" THEN queue \cup {exec[w].run} ELSE queue
  /\ Stop(w)
  /\ UNCHANGED <<tables, left, buffered, requests, faults, history>>

(* Hangfire: the job is retried if it threw and has retries left *)
JobEnds(w) ==
  LET n == exec[w].run
      again == at[w] # "done" /\ left[n] > 0
  IN
  /\ at[w] \in {"threw", "unlogged", "done"}
  /\ queue' = IF again THEN queue \cup {n} ELSE queue
  /\ left' = IF again THEN [left EXCEPT ![n] = @ - 1] ELSE left
  /\ Stop(w)
  /\ abandoned' = abandoned \cup (IF at[w] = "unlogged" /\ ~again THEN {n} ELSE {})
  /\ UNCHANGED <<tables, buffered, requests, faults, disturbed>>

(* Hangfire delivers a job again while its execution still goes on *)
Redeliver(w) ==
  /\ Fault
  /\ at[w] # "idle"
  /\ queue' = queue \cup {exec[w].run}
  /\ disturbed' = disturbed \cup {exec[w].run}
  /\ UNCHANGED <<tables, left, buffered, requests, workers, abandoned>>

(* A host stops and comes back: its buffer is lost, its unacknowledged     *)
(* jobs are delivered again, its requests are cut off or were drained.     *)
HostRestart(h) ==
  LET down == {w \in Workers : HostOf[w] = h /\ at[w] # "idle"}
      cut == {r \in Requests : HostOf[r] = h /\ pc[r] # "idle"}
  IN
  /\ Fault
  /\ abandoned' = abandoned \cup Inserted(cut)
  /\ buffered' = buffered \ {h}
  /\ queue' = queue \cup {exec[w].run : w \in down}
  /\ at' = [w \in Workers |-> IF w \in down THEN "idle" ELSE at[w]]
  /\ exec' = [w \in Workers |-> IF w \in down THEN NoExecution ELSE exec[w]]
  /\ pc' = [r \in Requests |-> IF r \in cut THEN "idle" ELSE pc[r]]
  /\ arg' = [r \in Requests |-> IF r \in cut THEN 0 ELSE arg[r]]
  /\ UNCHANGED <<tables, left, disturbed>>

Handler(r) ==
  BufferPassword(r) \/ CheckLatest(r) \/ InsertRun(r) \/ Enqueue(r) \/ SaveActive(r)

Work(w) ==
  \/ \E n \in Runs : Fetch(w, n)
  \/ MarkRunning(w) \/ Migrate(w) \/ Seed(w) \/ CreateAdmin(w) \/ StepThrows(w)
  \/ MarkStepCompleted(w) \/ MarkCompleted(w) \/ MarkFailed(w) \/ MarkThrows(w) \/ JobEnds(w)

Next ==
  \/ \E r \in Requests :
       CreateTenant(r) \/ Retry(r) \/ ReadInactive(r) \/ Deactivate(r) \/ Handler(r) \/ Die(r)
  \/ \E w \in Workers : Work(w) \/ Redeliver(w)
  \/ \E h \in Hosts : HostRestart(h)

Spec == Init /\ [][Next]_vars

(* Requests are served and Hangfire's workers run *)
FairSpec ==
  /\ Spec
  /\ \A r \in Requests : WF_vars(Handler(r))
  /\ \A w \in Workers : WF_vars(Work(w))
-----------------------------------------------------------------------------
(* What the log calls completed is there: schema, admin user, and the work *)
(* of every completed step, although a retry trusts a log that executions  *)
(* with stale copies write to.                                             *)
CompletedIsReady ==
  \A n \in Runs :
    /\ run[n].status = "Completed" => migrated /\ admin # "none"
    /\ run[n].step[Migrations] = "Completed" => migrated
    /\ run[n].step[Seeding] = "Completed" => admin # "none"

(* A run the log has in progress is being worked on or will be: StartAsync *)
(* refuses to start another one for as long as it says so.  Nobody is left *)
(* in charge of a run in two cases only: its request ended between the     *)
(* insert and the enqueuing, or the last attempt Hangfire makes could not  *)
(* read the tenant or write to the log.                                    *)
InProgressIsWorkedOn ==
  \A n \in Runs \ abandoned : run[n].status \in InProgress =>
    \/ n \in queue
    \/ \E w \in Workers : at[w] # "idle" /\ exec[w].run = n
    \/ \E r \in Requests : pc[r] = "inserted" /\ arg[r] = n

(* A completed run is not touched again by deliveries after a restart, but *)
(* by an execution that overlapped the one that completed it or could not  *)
(* use the log.                                                            *)
CompletedStays ==
  [][\A n \in Runs \ disturbed' : run[n].status = "Completed" => run'[n] = run[n]]_vars

(* Every run comes to an end, completed or failed, or was abandoned.       *)
SettledInTheEnd ==
  \A n \in Runs : <>[](run[n].status \in InProgress => n \in abandoned)
=============================================================================
