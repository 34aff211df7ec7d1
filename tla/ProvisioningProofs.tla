-------------------------- MODULE ProvisioningProofs --------------------------
(***************************************************************************)
(* Theorems about Provisioning for every number of hosts, requests,        *)
(* workers, runs, retries and faults.                                      *)
(***************************************************************************)
EXTENDS Provisioning, FiniteSetTheorems, TLAPS

(* What has been done once step s is completed *)
Effect(s) == (s = Migrations => migrated) /\ (s = Seeding => admin # "none")

(* What an execution has in its copy of the log, or has behind it, is true *)
Knows(w) ==
  at[w] # "idle" =>
    /\ exec[w].copy.status = "Completed" => migrated /\ admin # "none"
    /\ \A s \in Steps : exec[w].copy.step[s] = "Completed" => Effect(s)
    /\ \A s \in Steps : s < exec[w].step => Effect(s)
    /\ at[w] = "worked" => Effect(exec[w].step)
    /\ at[w] = "creating" => exec[w].step = Seeding /\ exec[w].password # "none"
    /\ at[w] = "completing" => exec[w].step = CacheWarm

LogIsTrue ==
  \A n \in Runs :
    /\ run[n].status = "Completed" => migrated /\ admin # "none"
    /\ \A s \in Steps : run[n].step[s] = "Completed" => Effect(s)

IInv == LogIsTrue /\ \A w \in Workers : Knows(w)

(* A run in progress is enqueued, about to be, or in the hands of a worker *)
(* whose copy says so or has a status still to be written: only such a     *)
(* worker is sure to write the outcome, or to give up without one.         *)
Undecided == InProgress \cup {"none"}

HeldBy(w, n) ==
  /\ at[w] \notin {"idle", "threw", "done"}
  /\ exec[w].run = n
  /\ at[w] # "unlogged" => exec[w].copy.status \in Undecided

Held(n) ==
  \/ n \in queue
  \/ \E r \in Requests : pc[r] = "inserted" /\ arg[r] = n
  \/ \E w \in Workers : HeldBy(w, n)

HInv == \A n \in Runs \ abandoned : run[n].status \in InProgress => Held(n)
-----------------------------------------------------------------------------
(* Types *)
LEMMA Executing ==
  ASSUME TypeOK, NEW w \in Workers, at[w] # "idle"
  PROVE  /\ exec[w] \in Execution
         /\ exec[w].run \in Runs /\ exec[w].step \in Steps /\ exec[w].copy \in Run
         /\ exec[w].copy.status \in Statuses /\ exec[w].copy.step \in [Steps -> Statuses]
BY DEF TypeOK, Execution, Run

LEMMA NotAnExecution == NoExecution \notin Execution
BY ProvisioningAssumption DEF NoExecution, Execution, Runs

LEMMA ContinueMoves ==
  ASSUME TypeOK, NEW w \in Workers, NEW s, NEW e, Continue(w, s, e)
  PROVE  /\ at'[w] = s /\ exec'[w] = e
         /\ \A v \in Workers \ {w} : at'[v] = at[v] /\ exec'[v] = exec[v]
BY DEF TypeOK, Continue

WorkersTyped ==
  /\ at \in [Workers -> WorkerSteps]
  /\ exec \in [Workers -> Execution \cup {NoExecution}]
  /\ \A w \in Workers : at[w] = "idle" <=> exec[w] = NoExecution

LEMMA ContinueTyped ==
  ASSUME TypeOK, NEW w \in Workers, NEW s \in WorkerSteps \ {"idle"}, NEW e \in Execution,
         Continue(w, s, e)
  PROVE  WorkersTyped'
<1>1. at' \in [Workers -> WorkerSteps] /\ exec' \in [Workers -> Execution \cup {NoExecution}]
  BY DEF TypeOK, Continue
<1>2. ASSUME NEW v \in Workers PROVE at'[v] = "idle" <=> exec'[v] = NoExecution
  BY ContinueMoves, NotAnExecution DEF TypeOK
<1> QED
  BY <1>1, <1>2 DEF WorkersTyped

LEMMA StopTyped ==
  ASSUME TypeOK, NEW w \in Workers, Stop(w)
  PROVE  WorkersTyped'
<1>1. at' \in [Workers -> WorkerSteps] /\ exec' \in [Workers -> Execution \cup {NoExecution}]
  BY DEF TypeOK, Stop, Continue, WorkerSteps
<1>2. ASSUME NEW v \in Workers PROVE at'[v] = "idle" <=> exec'[v] = NoExecution
  BY ContinueMoves DEF TypeOK, Stop
<1> QED
  BY <1>1, <1>2 DEF WorkersTyped

LEMMA NextStepContinues ==
  ASSUME NEW w \in Workers, NEW e \in Execution, NextStep(w, e)
  PROVE  \/ e.step = CacheWarm /\ Continue(w, "completing", e)
         \/ /\ e.step # CacheWarm
            /\ [e EXCEPT !.step = e.step + 1] \in Execution
            /\ Continue(w, "marking", [e EXCEPT !.step = e.step + 1])
BY DEF NextStep, Execution, Steps, Database, CacheWarm

LEMMA NextStepTyped ==
  ASSUME TypeOK, NEW w \in Workers, NEW e \in Execution, NextStep(w, e)
  PROVE  WorkersTyped'
BY NextStepContinues, ContinueTyped DEF WorkerSteps

LEMMA SaveTyped ==
  ASSUME TypeOK, NEW w \in Workers, at[w] # "idle", NEW new \in Run, SaveCopy(w, new)
  PROVE  run' \in [Runs -> Run]
<1> DEFINE n == exec[w].run
           old == exec[w].copy
           row == [status |-> IF new.status # old.status THEN new.status ELSE run[n].status,
                   step |-> [s \in Steps |-> IF new.step[s] # old.step[s] THEN new.step[s]
                                             ELSE run[n].step[s]]]
<1>1. n \in Runs /\ run \in [Runs -> Run]
  BY Executing DEF TypeOK
<1>2. run' = [run EXCEPT ![n] = row]
  BY <1>1 DEF SaveCopy
<1>3. row \in Run
  BY <1>1 DEF Run
<1> QED
  BY <1>1, <1>2, <1>3

LEMMA TypeFromParts ==
  ASSUME tenant' \in {"none", "active", "inactive"}, run' \in [Runs -> Run], queue' \subseteq Runs,
         left' \in [Runs -> 0..JobRetries], migrated' \in BOOLEAN,
         admin' \in {"none", "given", "default"}, buffered' \subseteq Hosts,
         pc' \in [Requests -> RequestSteps], arg' \in [Requests -> 0..MaxRuns],
         \A r \in Requests : pc'[r] = "inserted" <=> arg'[r] # 0,
         WorkersTyped', faults' \in 0..MaxFaults,
         abandoned' \subseteq Runs, disturbed' \subseteq Runs
  PROVE  TypeOK'
BY DEF TypeOK, WorkersTyped

LEMMA StartedCount == Cardinality(Started) \in Nat
<1>1. IsFiniteSet(Runs)
  BY ProvisioningAssumption, FS_Interval DEF Runs
<1>2. IsFiniteSet(Started)
  BY <1>1, FS_Subset DEF Started
<1> QED
  BY <1>2, FS_CardinalityType

LEMMA InsertedTyped ==
  ASSUME TypeOK, NEW rs \in SUBSET Requests
  PROVE  Inserted(rs) \subseteq Runs
BY ProvisioningAssumption DEF Inserted, TypeOK, Runs

LEMMA DieTypes ==
  ASSUME TypeOK, NEW r \in Requests, Die(r)
  PROVE  TypeOK'
<1>1. abandoned' \subseteq Runs
  <2>1. Inserted({r}) \subseteq Runs
    BY InsertedTyped
  <2> QED
    BY <2>1 DEF Die, TypeOK
<1>2. faults' \in 0..MaxFaults
  BY ProvisioningAssumption DEF Die, Fault, TypeOK
<1>3. /\ pc' \in [Requests -> RequestSteps]
      /\ arg' \in [Requests -> 0..MaxRuns]
  BY ProvisioningAssumption DEF Die, End, TypeOK, RequestSteps
<1>4. \A q \in Requests : pc'[q] = "inserted" <=> arg'[q] # 0
  BY DEF Die, End, TypeOK
<1>5. WorkersTyped'
  BY DEF Die, workers, TypeOK, WorkersTyped
<1> QED
  BY <1>1, <1>2, <1>3, <1>4, <1>5, TypeFromParts DEF Die, tables, TypeOK

(* The steps of requests *)
LEMMA RequestTypes ==
  ASSUME TypeOK, NEW r \in Requests,
         CreateTenant(r) \/ Retry(r) \/ ReadInactive(r) \/ Deactivate(r) \/ Handler(r) \/ Die(r)
  PROVE  TypeOK'
<1> USE ProvisioningAssumption DEF TypeOK, tables, workers, requests, history, GoTo, End, RequestSteps
<1>1. CASE CreateTenant(r)
  BY <1>1 DEF CreateTenant
<1>2. CASE Retry(r)
  BY <1>2 DEF Retry
<1>3. CASE ReadInactive(r)
  BY <1>3 DEF ReadInactive
<1>4. CASE Deactivate(r)
  BY <1>4 DEF Deactivate
<1>5. CASE BufferPassword(r)
  BY <1>5 DEF BufferPassword
<1>6. CASE CheckLatest(r)
  BY <1>6 DEF CheckLatest
<1>7. CASE InsertRun(r)
  <2>1. Cardinality(Started) + 1 \in Runs
    BY <1>7, StartedCount DEF InsertRun, Runs
  <2>2. NewRun \in Run
    BY DEF NewRun, Run, Statuses
  <2> QED
    BY <1>7, <2>1, <2>2 DEF InsertRun, Runs
<1>8. CASE Enqueue(r)
  <2>1. arg[r] \in Runs
    BY <1>8 DEF Enqueue, Runs
  <2> QED
    BY <1>8, <2>1 DEF Enqueue
<1>9. CASE SaveActive(r)
  BY <1>9 DEF SaveActive
<1>10. CASE Die(r)
  BY <1>10, DieTypes
<1> QED
  BY <1>1, <1>2, <1>3, <1>4, <1>5, <1>6, <1>7, <1>8, <1>9, <1>10 DEF Handler

(* The steps of a worker that save its copy: what is left to see is where  *)
(* the worker goes.                                                        *)
LEMMA SavingTypes ==
  ASSUME TypeOK, NEW w \in Workers, at[w] # "idle", NEW new \in Run,
         SaveCopy(w, new) \/ UNCHANGED run, WorkersTyped',
         UNCHANGED <<tenant, queue, left, migrated, admin, buffered, requests, faults, history>>
  PROVE  TypeOK'
<1>1. run' \in [Runs -> Run]
  BY SaveTyped DEF TypeOK
<1> QED
  BY <1>1, TypeFromParts DEF TypeOK, requests, history

LEMMA NewCopies ==
  ASSUME NEW e \in Execution, NEW st \in Statuses
  PROVE  /\ [status |-> st, step |-> [e.copy.step EXCEPT ![e.step] = st]] \in Run
         /\ [e.copy EXCEPT !.status = st] \in Run
         /\ [e.copy EXCEPT !.step = [e.copy.step EXCEPT ![e.step] = st]] \in Run
BY DEF Execution, Run

(* What a copy becomes by a save that throws: it claims no more than before *)
LEMMA UnsavedCopies ==
  ASSUME NEW old \in Run, NEW new \in Run
  PROVE  /\ Unsaved(old, new) \in Run
         /\ Unsaved(old, new).status \in {"none", old.status}
         /\ \A s \in Steps : Unsaved(old, new).step[s] \in {"none", old.step[s]}
BY DEF Unsaved, Run, Statuses

LEMMA ThrowsOn ==
  ASSUME TypeOK, NEW w \in Workers, MarkThrows(w)
  PROVE  \E s \in {"failing", "unlogged"}, f \in Execution :
           /\ Continue(w, s, f) /\ f.run = exec[w].run /\ f.step = exec[w].step
           /\ f.copy.status \in {"none", exec[w].copy.status}
           /\ \A t \in Steps : f.copy.step[t] \in {"none", exec[w].copy.step[t]}
<1> DEFINE e == exec[w]
           Becomes(s, new) ==
             \E copy \in {e.copy, Unsaved(e.copy, new)} :
               Continue(w, s, [e EXCEPT !.copy = copy, !.password = "none"])
<1>1. e \in Execution /\ e.copy \in Run
  BY Executing DEF MarkThrows
<1>2. /\ AsRunning(e) \in Run /\ AsStepCompleted(e) \in Run
      /\ AsCompleted(e) \in Run /\ AsFailed(e) \in Run
  BY <1>1, NewCopies DEF AsRunning, AsStepCompleted, AsCompleted, AsFailed, Statuses
<1>3. \E s \in {"failing", "unlogged"}, new \in Run : Becomes(s, new)
  BY <1>1, <1>2 DEF MarkThrows
<1>4. PICK s \in {"failing", "unlogged"}, new \in Run : Becomes(s, new)
  BY <1>3
<1>5. PICK copy \in {e.copy, Unsaved(e.copy, new)} :
        Continue(w, s, [e EXCEPT !.copy = copy, !.password = "none"])
  BY <1>4
<1>6. copy \in Run /\ copy.status \in {"none", e.copy.status}
      /\ \A t \in Steps : copy.step[t] \in {"none", e.copy.step[t]}
  BY <1>1, <1>5, UnsavedCopies
<1> DEFINE f == [e EXCEPT !.copy = copy, !.password = "none"]
<1>7. f \in Execution /\ f.run = e.run /\ f.step = e.step /\ f.copy = copy
  BY <1>1, <1>6 DEF Execution
<1>8. Continue(w, s, f)
  BY <1>5
<1>9. /\ f.copy.status \in {"none", e.copy.status}
      /\ \A t \in Steps : f.copy.step[t] \in {"none", e.copy.step[t]}
  BY <1>6, <1>7
<1> HIDE DEF f
<1> QED
  BY <1>4, <1>7, <1>8, <1>9

LEMMA WorkTypes ==
  ASSUME TypeOK, NEW w \in Workers, Work(w)
  PROVE  TypeOK'
<1>1. ASSUME NEW n \in Runs, Fetch(w, n) PROVE TypeOK'
  <2>1. [run |-> n, step |-> Database, copy |-> run[n], password |-> "none"] \in Execution
    BY DEF TypeOK, Execution, Steps, Database, CacheWarm
  <2>2. WorkersTyped'
    BY <1>1, <2>1, ContinueTyped DEF Fetch, WorkerSteps
  <2>3. faults' \in 0..MaxFaults
    BY <1>1, ProvisioningAssumption DEF Fetch, Fault, TypeOK
  <2> QED
    BY <1>1, <2>2, <2>3, TypeFromParts DEF Fetch, TypeOK, tables, requests, history
<1>2. ASSUME MarkRunning(w) PROVE TypeOK'
  <2> DEFINE e == exec[w]
             new == [status |-> "Running", step |-> [e.copy.step EXCEPT ![e.step] = "Running"]]
  <2>1. at[w] # "idle" /\ e \in Execution
    BY <1>2, Executing DEF MarkRunning, AsRunning
  <2>2. new \in Run
    BY <2>1, NewCopies DEF Statuses
  <2>3. [e EXCEPT !.copy = new] \in Execution
    BY <2>1, <2>2 DEF Execution
  <2>4. WorkersTyped'
    BY <1>2, <2>1, <2>3, ContinueTyped, NextStepTyped DEF MarkRunning, AsRunning, WorkerSteps
  <2>5. SaveCopy(w, new) \/ UNCHANGED run
    BY <1>2 DEF MarkRunning, AsRunning
  <2> QED
    BY <1>2, <2>1, <2>2, <2>4, <2>5, SavingTypes DEF MarkRunning, AsRunning
<1>3. ASSUME Migrate(w) PROVE TypeOK'
  <2>1. WorkersTyped'
    BY <1>3, Executing, ContinueTyped DEF Migrate, WorkerSteps
  <2> QED
    BY <1>3, <2>1, TypeFromParts DEF Migrate, TypeOK, requests, history
<1>4. ASSUME Seed(w) PROVE TypeOK'
  <2> DEFINE e == exec[w]
  <2>1. at[w] # "idle" /\ e \in Execution
    BY <1>4, Executing DEF Seed
  <2>2. [e EXCEPT !.password = "given"] \in Execution /\ [e EXCEPT !.password = "default"] \in Execution
    BY <2>1 DEF Execution
  <2>3. WorkersTyped'
    BY <1>4, <2>1, <2>2, ContinueTyped DEF Seed, WorkerSteps
  <2>4. buffered' \subseteq Hosts
    BY <1>4 DEF Seed, TypeOK
  <2> QED
    BY <1>4, <2>3, <2>4, TypeFromParts DEF Seed, TypeOK, tables, requests, history
<1>5. ASSUME CreateAdmin(w) PROVE TypeOK'
  <2>1. at[w] # "idle" /\ exec[w] \in Execution
    BY <1>5, Executing DEF CreateAdmin
  <2>2. WorkersTyped'
    BY <1>5, <2>1, ContinueTyped DEF CreateAdmin, WorkerSteps
  <2>3. admin' \in {"none", "given", "default"}
    BY <1>5, <2>1 DEF CreateAdmin, TypeOK, Execution
  <2> QED
    BY <1>5, <2>2, <2>3, TypeFromParts DEF CreateAdmin, TypeOK, requests, history
<1>6. ASSUME StepThrows(w) PROVE TypeOK'
  <2>1. at[w] # "idle" /\ exec[w] \in Execution
    BY <1>6, Executing DEF StepThrows
  <2>2. WorkersTyped'
    BY <1>6, <2>1, ContinueTyped DEF StepThrows, WorkerSteps
  <2> QED
    BY <1>6, <2>2, TypeFromParts DEF StepThrows, TypeOK, tables, requests, history
<1>7. ASSUME MarkStepCompleted(w) PROVE TypeOK'
  <2> DEFINE e == exec[w]
             new == [e.copy EXCEPT !.step = [e.copy.step EXCEPT ![e.step] = "Completed"]]
  <2>1. at[w] # "idle" /\ e \in Execution
    BY <1>7, Executing DEF MarkStepCompleted, AsStepCompleted
  <2>2. new \in Run
    BY <2>1, NewCopies DEF Statuses
  <2>3. [e EXCEPT !.copy = new, !.password = "none"] \in Execution
    BY <2>1, <2>2 DEF Execution
  <2>4. WorkersTyped'
    BY <1>7, <2>1, <2>3, NextStepTyped DEF MarkStepCompleted, AsStepCompleted
  <2> QED
    BY <1>7, <2>1, <2>2, <2>4, SavingTypes DEF MarkStepCompleted, AsStepCompleted
<1>8. ASSUME MarkCompleted(w) PROVE TypeOK'
  <2> DEFINE e == exec[w]
             new == [e.copy EXCEPT !.status = "Completed"]
  <2>1. at[w] # "idle" /\ e \in Execution
    BY <1>8, Executing DEF MarkCompleted, AsCompleted
  <2>2. new \in Run
    BY <2>1, NewCopies DEF Statuses
  <2>3. [e EXCEPT !.copy = new] \in Execution
    BY <2>1, <2>2 DEF Execution
  <2>4. WorkersTyped'
    BY <1>8, <2>1, <2>3, ContinueTyped DEF MarkCompleted, AsCompleted, WorkerSteps
  <2> QED
    BY <1>8, <2>1, <2>2, <2>4, SavingTypes DEF MarkCompleted, AsCompleted
<1>9. ASSUME MarkFailed(w) PROVE TypeOK'
  <2> DEFINE e == exec[w]
             new == [status |-> "Failed", step |-> [e.copy.step EXCEPT ![e.step] = "Failed"]]
  <2>1. at[w] # "idle" /\ e \in Execution
    BY <1>9, Executing DEF MarkFailed, AsFailed
  <2>2. new \in Run
    BY <2>1, NewCopies DEF Statuses
  <2>3. [e EXCEPT !.copy = new, !.password = "none"] \in Execution
    BY <2>1, <2>2 DEF Execution
  <2>4. WorkersTyped'
    BY <1>9, <2>1, <2>3, ContinueTyped DEF MarkFailed, AsFailed, WorkerSteps
  <2> QED
    BY <1>9, <2>1, <2>2, <2>4, SavingTypes DEF MarkFailed, AsFailed
<1>10. ASSUME JobEnds(w) PROVE TypeOK'
  <2> DEFINE n == exec[w].run
  <2>1. n \in Runs
    BY <1>10, Executing DEF JobEnds
  <2>2. WorkersTyped'
    BY <1>10, StopTyped DEF JobEnds
  <2>3. left' \in [Runs -> 0..JobRetries] /\ queue' \subseteq Runs /\ abandoned' \subseteq Runs
    BY <1>10, <2>1, ProvisioningAssumption DEF JobEnds, TypeOK
  <2> QED
    BY <1>10, <2>2, <2>3, TypeFromParts DEF JobEnds, TypeOK, tables, requests, history
<1>11. ASSUME MarkThrows(w) PROVE TypeOK'
  <2>1. at[w] # "idle" /\ exec[w] \in Execution
    BY <1>11, Executing DEF MarkThrows
  <2>2. \E s \in {"failing", "unlogged"}, f \in Execution : Continue(w, s, f)
    BY <1>11, ThrowsOn
  <2>3. WorkersTyped'
    BY <2>2, ContinueTyped DEF WorkerSteps
  <2>4. disturbed' \subseteq Runs /\ faults' \in 0..MaxFaults
    BY <1>11, <2>1, ProvisioningAssumption DEF MarkThrows, Fault, TypeOK, Execution
  <2> QED
    BY <1>11, <2>3, <2>4, TypeFromParts DEF MarkThrows, TypeOK, tables, requests
<1> QED
  BY <1>1, <1>2, <1>3, <1>4, <1>5, <1>6, <1>7, <1>8, <1>9, <1>10, <1>11 DEF Work

LEMMA RedeliverTypes ==
  ASSUME TypeOK, NEW w \in Workers, Redeliver(w)
  PROVE  TypeOK'
<1>1. faults' \in 0..MaxFaults
  BY ProvisioningAssumption DEF Redeliver, Fault, TypeOK
<1>2. queue' \subseteq Runs
  BY Executing DEF Redeliver, TypeOK
<1>3. WorkersTyped'
  BY DEF Redeliver, TypeOK, WorkersTyped, workers
<1>4. disturbed' \subseteq Runs
  BY Executing DEF Redeliver, TypeOK
<1> QED
  BY <1>1, <1>2, <1>3, <1>4, TypeFromParts DEF Redeliver, TypeOK, tables, requests

LEMMA RestartTypes ==
  ASSUME TypeOK, NEW h \in Hosts, HostRestart(h)
  PROVE  TypeOK'
<1>1. faults' \in 0..MaxFaults
  BY ProvisioningAssumption DEF HostRestart, Fault, TypeOK
<1>2. queue' \subseteq Runs
  BY Executing DEF HostRestart, TypeOK
<1>3. WorkersTyped'
  BY DEF HostRestart, TypeOK, WorkersTyped, WorkerSteps
<1>4. /\ pc' \in [Requests -> RequestSteps] /\ arg' \in [Requests -> 0..MaxRuns]
      /\ \A r \in Requests : pc'[r] = "inserted" <=> arg'[r] # 0
  BY ProvisioningAssumption DEF HostRestart, TypeOK, RequestSteps
<1>5. buffered' \subseteq Hosts /\ abandoned' \subseteq Runs
  BY InsertedTyped DEF HostRestart, TypeOK
<1> QED
  BY <1>1, <1>2, <1>3, <1>4, <1>5, TypeFromParts DEF HostRestart, TypeOK, tables

(* Every variable keeps its type, and a worker has an execution exactly    *)
(* while it works.                                                         *)
THEOREM ProvisioningTypeCorrect == Spec => []TypeOK
<1>1. Init => TypeOK
  <2>1. NoRun \in Run
    BY DEF NoRun, Run, Statuses
  <2> SUFFICES ASSUME Init PROVE TypeOK
    OBVIOUS
  <2>2. run \in [Runs -> Run] /\ left \in [Runs -> 0..JobRetries]
    BY <2>1, ProvisioningAssumption DEF Init
  <2>3. /\ pc \in [Requests -> RequestSteps] /\ arg \in [Requests -> 0..MaxRuns]
        /\ \A r \in Requests : pc[r] = "inserted" <=> arg[r] # 0
    BY ProvisioningAssumption DEF Init, RequestSteps
  <2>4. /\ at \in [Workers -> WorkerSteps] /\ exec \in [Workers -> Execution \cup {NoExecution}]
        /\ \A w \in Workers : at[w] = "idle" <=> exec[w] = NoExecution
    BY DEF Init, WorkerSteps
  <2>5. migrated \in BOOLEAN
    BY Zenon DEF Init
  <2>6. faults \in 0..MaxFaults
    BY ProvisioningAssumption DEF Init
  <2> QED
    BY <2>2, <2>3, <2>4, <2>5, <2>6, Zenon DEF Init, TypeOK
<1>2. TypeOK /\ [Next]_vars => TypeOK'
  <2> SUFFICES ASSUME TypeOK, [Next]_vars PROVE TypeOK'
    OBVIOUS
  <2>1. CASE Next
    BY <2>1, RequestTypes, WorkTypes, RedeliverTypes, RestartTypes DEF Next
  <2>2. CASE UNCHANGED vars
    BY <2>2 DEF vars, TypeOK
  <2> QED
    BY <2>1, <2>2
<1> QED
  BY <1>1, <1>2, PTL DEF Spec
-----------------------------------------------------------------------------
(* The log *)
LEMMA SavedRow ==
  ASSUME TypeOK, NEW w \in Workers, at[w] # "idle", NEW new \in Run, SaveCopy(w, new)
  PROVE  LET n == exec[w].run
             old == exec[w].copy
         IN
         /\ \A m \in Runs \ {n} : run'[m] = run[m]
         /\ run'[n].status = IF new.status # old.status THEN new.status ELSE run[n].status
         /\ \A s \in Steps : run'[n].step[s] =
              IF new.step[s] # old.step[s] THEN new.step[s] ELSE run[n].step[s]
<1> DEFINE n == exec[w].run
           old == exec[w].copy
           row == [status |-> IF new.status # old.status THEN new.status ELSE run[n].status,
                   step |-> [s \in Steps |-> IF new.step[s] # old.step[s] THEN new.step[s]
                                             ELSE run[n].step[s]]]
<1>1. n \in Runs /\ run \in [Runs -> Run]
  BY Executing DEF TypeOK
<1>2. run' = [run EXCEPT ![n] = row]
  BY <1>1 DEF SaveCopy
<1>3. run'[n] = row /\ \A m \in Runs \ {n} : run'[m] = run[m]
  BY <1>1, <1>2
<1> QED
  BY <1>3

Ready == migrated /\ admin # "none"

(* A save that claims no more than what is true keeps the log true *)
LEMMA LogKept ==
  ASSUME TypeOK, LogIsTrue, UNCHANGED <<migrated, admin>>,
         NEW w \in Workers, at[w] # "idle", NEW new \in Run, SaveCopy(w, new),
         new.status = "Completed" => exec[w].copy.status = "Completed" \/ Ready,
         \A s \in Steps : new.step[s] = "Completed" =>
           exec[w].copy.step[s] = "Completed" \/ Effect(s)
  PROVE  LogIsTrue'
<1> DEFINE n == exec[w].run
<1>1. Ready' = Ready /\ \A s \in Steps : Effect(s)' = Effect(s)
  BY DEF Ready, Effect
<1>2. \A m \in Runs : /\ run[m].status = "Completed" => Ready
                      /\ \A s \in Steps : run[m].step[s] = "Completed" => Effect(s)
  BY DEF LogIsTrue, Ready
<1>3. n \in Runs
  BY Executing
<1>4. ASSUME NEW m \in Runs
      PROVE  /\ run'[m].status = "Completed" => Ready
             /\ \A s \in Steps : run'[m].step[s] = "Completed" => Effect(s)
  <2>1. CASE m = n
    BY <1>2, <1>3, <2>1, SavedRow
  <2>2. CASE m # n
    BY <1>2, <2>2, SavedRow
  <2> QED
    BY <2>1, <2>2
<1> QED
  BY <1>1, <1>4 DEF LogIsTrue, Ready

(* What is true stays true: the schema and the admin do not go away *)
Grows == (migrated => migrated') /\ (admin # "none" => admin' # "none")

LEMMA EffectKept == ASSUME Grows, NEW s, Effect(s) PROVE Effect(s)'
BY DEF Grows, Effect

LEMMA KnowsKept ==
  ASSUME Grows, NEW w \in Workers, Knows(w), at'[w] = at[w], exec'[w] = exec[w]
  PROVE  Knows(w)'
BY EffectKept DEF Grows, Knows

LEMMA LogGrows ==
  ASSUME Grows, LogIsTrue, UNCHANGED run
  PROVE  LogIsTrue'
BY EffectKept DEF Grows, LogIsTrue

(* It is enough to look at the log and at the worker that moved *)
LEMMA KnowledgeFrom ==
  ASSUME TypeOK, IInv, Grows, LogIsTrue', NEW w \in Workers, NEW s, NEW e, Continue(w, s, e),
         Knows(w)'
  PROVE  IInv'
<1> SUFFICES ASSUME NEW v \in Workers, v # w PROVE Knows(v)'
  BY DEF IInv
<1> QED
  BY ContinueMoves, KnowsKept DEF IInv

(* A worker that goes to the next step, its own being completed *)
LEMMA NextStepKnows ==
  ASSUME TypeOK, NEW w \in Workers, NEW e \in Execution, NextStep(w, e), Grows,
         e.copy.status = "Completed" => Ready,
         \A s \in Steps : e.copy.step[s] = "Completed" => Effect(s),
         \A s \in Steps : s < e.step => Effect(s),
         Effect(e.step)
  PROVE  Knows(w)'
<1>1. PICK s \in {"marking", "completing"}, f \in Execution :
        /\ Continue(w, s, f)
        /\ f.copy = e.copy
        /\ s = "completing" => f = e /\ e.step = CacheWarm
        /\ \A t \in Steps : t < f.step => t < e.step \/ t = e.step
  <2>1. CASE e.step = CacheWarm
    BY <2>1, NextStepContinues
  <2>2. CASE e.step # CacheWarm
    <3> DEFINE f == [e EXCEPT !.step = e.step + 1]
    <3>1. f \in Execution /\ Continue(w, "marking", f)
      BY <2>2, NextStepContinues
    <3>2. f.copy = e.copy /\ \A t \in Steps : t < f.step => t < e.step \/ t = e.step
      BY DEF Execution, Steps, Database, CacheWarm
    <3> QED
      BY <3>1, <3>2
  <2> QED
    BY <2>1, <2>2
<1>2. at'[w] = s /\ exec'[w] = f
  BY <1>1, ContinueMoves
<1>3. \A t \in Steps : t < f.step => Effect(t)
  BY <1>1
<1>4. Ready => Ready'
  BY DEF Ready, Grows
<1> QED
  BY <1>1, <1>2, <1>3, <1>4, EffectKept DEF Knows, Ready

LEMMA KnowsNow ==
  ASSUME IInv, TypeOK, NEW w \in Workers, at[w] # "idle"
  PROVE  /\ exec[w].copy.status = "Completed" => Ready
         /\ \A s \in Steps : exec[w].copy.step[s] = "Completed" => Effect(s)
         /\ \A s \in Steps : s < exec[w].step => Effect(s)
         /\ at[w] = "worked" => Effect(exec[w].step)
         /\ at[w] = "creating" => exec[w].step = Seeding /\ exec[w].password # "none"
         /\ at[w] = "completing" => exec[w].step = CacheWarm
BY DEF IInv, Knows, Ready

LEMMA FetchKnows ==
  ASSUME TypeOK, IInv, NEW w \in Workers, NEW n \in Runs, Fetch(w, n)
  PROVE  IInv'
<1> DEFINE e == [run |-> n, step |-> Database, copy |-> run[n], password |-> "none"]
<1>1. PICK s \in {"marking", "unlogged"} : Continue(w, s, e)
  BY DEF Fetch
<1>2. at'[w] = s /\ exec'[w] = e /\ UNCHANGED <<run, migrated, admin>> /\ Grows
  BY <1>1, ContinueMoves DEF Fetch, tables, Grows
<1>3. Knows(w)'
  BY <1>1, <1>2, EffectKept DEF Knows, IInv, LogIsTrue, Steps, Database, CacheWarm
<1> QED
  BY <1>1, <1>2, <1>3, LogGrows, KnowledgeFrom DEF IInv

LEMMA MarkRunningKnows ==
  ASSUME TypeOK, IInv, NEW w \in Workers, MarkRunning(w)
  PROVE  IInv'
<1> DEFINE e == exec[w]
           new == [status |-> "Running", step |-> [e.copy.step EXCEPT ![e.step] = "Running"]]
           f == [e EXCEPT !.copy = new]
<1>1. at[w] = "marking" /\ e \in Execution /\ new \in Run /\ f \in Execution
      /\ UNCHANGED <<migrated, admin>> /\ Grows
  <2>1. at[w] = "marking" /\ e \in Execution
    BY Executing DEF MarkRunning, AsRunning
  <2>2. new \in Run
    BY <2>1, NewCopies DEF Statuses
  <2> QED
    BY <2>1, <2>2 DEF Execution, MarkRunning, AsRunning, Grows
<1>2. CASE e.copy.step[e.step] = "Completed"
  <2>1. NextStep(w, e) /\ UNCHANGED run
    BY <1>2 DEF MarkRunning, AsRunning
  <2>2. Effect(e.step)
    BY <1>1, <1>2, KnowsNow DEF Execution
  <2>3. Knows(w)'
    BY <1>1, <2>1, <2>2, KnowsNow, NextStepKnows
  <2> QED
    BY <1>1, <2>1, <2>3, NextStepContinues, LogGrows, KnowledgeFrom DEF IInv
<1>3. CASE e.copy.step[e.step] # "Completed"
  <2>1. SaveCopy(w, new) /\ Continue(w, "working", f)
    BY <1>3 DEF MarkRunning, AsRunning
  <2>2. new.status = "Running" /\ \A s \in Steps : new.step[s] = "Completed" => e.copy.step[s] = "Completed"
    BY <1>1 DEF Execution, Run
  <2>3. LogIsTrue'
    BY <1>1, <2>1, <2>2, LogKept DEF IInv
  <2>4. at'[w] = "working" /\ exec'[w] = f /\ f.copy = new /\ f.step = e.step
    BY <1>1, <2>1, ContinueMoves DEF Execution
  <2>5. Knows(w)'
    BY <1>1, <2>2, <2>4, KnowsNow, EffectKept DEF Knows
  <2> QED
    BY <1>1, <2>1, <2>3, <2>5, KnowledgeFrom
<1> QED
  BY <1>2, <1>3

LEMMA MarkStepCompletedKnows ==
  ASSUME TypeOK, IInv, NEW w \in Workers, MarkStepCompleted(w)
  PROVE  IInv'
<1> DEFINE e == exec[w]
           new == [e.copy EXCEPT !.step = [e.copy.step EXCEPT ![e.step] = "Completed"]]
           f == [e EXCEPT !.copy = new, !.password = "none"]
<1>1. at[w] # "idle" /\ e \in Execution /\ new \in Run /\ f \in Execution
      /\ UNCHANGED <<migrated, admin>> /\ Grows
  <2>1. at[w] # "idle" /\ e \in Execution
    BY Executing DEF MarkStepCompleted, AsStepCompleted
  <2>2. new \in Run
    BY <2>1, NewCopies DEF Statuses
  <2> QED
    BY <2>1, <2>2 DEF Execution, MarkStepCompleted, AsStepCompleted, Grows
<1>2. Effect(e.step)
  BY <1>1, KnowsNow DEF MarkStepCompleted, AsStepCompleted, Effect, Database, Migrations, Seeding, CacheWarm
<1>3. SaveCopy(w, new) /\ NextStep(w, f)
  BY DEF MarkStepCompleted, AsStepCompleted
<1>4. /\ new.status = e.copy.status
      /\ \A s \in Steps : new.step[s] = "Completed" => e.copy.step[s] = "Completed" \/ s = e.step
      /\ f.copy = new /\ f.step = e.step
  BY <1>1 DEF Execution, Run
<1>5. LogIsTrue'
  BY <1>1, <1>2, <1>3, <1>4, LogKept DEF IInv
<1>6. /\ f.copy.status = "Completed" => Ready
      /\ \A s \in Steps : f.copy.step[s] = "Completed" => Effect(s)
      /\ \A s \in Steps : s < f.step => Effect(s)
      /\ Effect(f.step)
  <2> HIDE DEF f, new
  <2> QED
    BY <1>1, <1>2, <1>4, KnowsNow
<1>7. Knows(w)'
  BY <1>1, <1>3, <1>6, NextStepKnows
<1> QED
  BY <1>1, <1>3, <1>5, <1>7, NextStepContinues, KnowledgeFrom

LEMMA MarkCompletedKnows ==
  ASSUME TypeOK, IInv, NEW w \in Workers, MarkCompleted(w)
  PROVE  IInv'
<1> DEFINE e == exec[w]
           new == [e.copy EXCEPT !.status = "Completed"]
           f == [e EXCEPT !.copy = new]
<1>1. at[w] = "completing" /\ e \in Execution /\ new \in Run
      /\ UNCHANGED <<migrated, admin>> /\ Grows
  <2>1. at[w] = "completing" /\ e \in Execution
    BY Executing DEF MarkCompleted, AsCompleted
  <2> QED
    BY <2>1, NewCopies DEF Statuses, MarkCompleted, AsCompleted, Grows
<1>2. Ready
  BY <1>1, KnowsNow DEF Ready, Effect, Steps, Database, Migrations, Seeding, CacheWarm
<1>3. SaveCopy(w, new) /\ Continue(w, "done", f)
  BY DEF MarkCompleted, AsCompleted
<1>4. new.step = e.copy.step /\ f.copy = new /\ f.step = e.step
  BY <1>1 DEF Execution, Run
<1>5. LogIsTrue'
  BY <1>1, <1>2, <1>3, <1>4, LogKept DEF IInv
<1>6. at'[w] = "done" /\ exec'[w] = f /\ Ready'
  BY <1>1, <1>2, <1>3, ContinueMoves DEF Ready
<1>7. Knows(w)'
  BY <1>1, <1>4, <1>6, KnowsNow, EffectKept DEF Knows, Ready
<1> QED
  BY <1>1, <1>3, <1>5, <1>7, KnowledgeFrom

LEMMA MarkFailedKnows ==
  ASSUME TypeOK, IInv, NEW w \in Workers, MarkFailed(w)
  PROVE  IInv'
<1> DEFINE e == exec[w]
           new == [status |-> "Failed", step |-> [e.copy.step EXCEPT ![e.step] = "Failed"]]
           f == [e EXCEPT !.copy = new, !.password = "none"]
<1>1. at[w] = "failing" /\ e \in Execution /\ new \in Run
      /\ UNCHANGED <<migrated, admin>> /\ Grows
  <2>1. at[w] = "failing" /\ e \in Execution
    BY Executing DEF MarkFailed, AsFailed
  <2> QED
    BY <2>1, NewCopies DEF Statuses, MarkFailed, AsFailed, Grows
<1>2. SaveCopy(w, new) /\ Continue(w, "threw", f)
  BY DEF MarkFailed, AsFailed
<1>3. /\ new.status = "Failed" /\ f.copy = new /\ f.step = e.step
      /\ \A s \in Steps : new.step[s] = "Completed" => e.copy.step[s] = "Completed"
  BY <1>1 DEF Execution, Run
<1>4. LogIsTrue'
  BY <1>1, <1>2, <1>3, LogKept DEF IInv
<1>5. at'[w] = "threw" /\ exec'[w] = f
  BY <1>2, ContinueMoves
<1>6. Knows(w)'
  <2> HIDE DEF f, new
  <2>1. \A s \in Steps : e.copy.step[s] = "Completed" \/ s < e.step => Effect(s)'
    BY <1>1, KnowsNow, EffectKept
  <2> QED
    BY <1>3, <1>5, <2>1 DEF Knows
<1> QED
  BY <1>1, <1>2, <1>4, <1>6, KnowledgeFrom

(* A worker that does a step's work without saving its copy *)
LEMMA WorkingKnows ==
  ASSUME TypeOK, IInv, NEW w \in Workers, at[w] # "idle", UNCHANGED run, Grows,
         NEW s \in {"worked", "creating", "failing", "unlogged"}, NEW f \in Execution,
         Continue(w, s, f), f.step = exec[w].step,
         f.copy.status \in {"none", exec[w].copy.status},
         \A t \in Steps : f.copy.step[t] \in {"none", exec[w].copy.step[t]},
         s = "worked" => (f.step = Migrations => migrated') /\ (f.step = Seeding => admin' # "none"),
         s = "creating" => f.step = Seeding /\ f.password # "none"
  PROVE  IInv'
<1>1. at'[w] = s /\ exec'[w] = f
  BY ContinueMoves
<1>2. Ready => Ready'
  BY DEF Ready, Grows
<1>3. \A t \in Steps : f.copy.step[t] = "Completed" \/ t < f.step => Effect(t)'
  BY KnowsNow, EffectKept
<1>4. s = "worked" => Effect(f.step)'
  BY DEF Effect
<1>5. Knows(w)'
  BY <1>1, <1>2, <1>3, <1>4, KnowsNow DEF Knows, Ready
<1> QED
  BY <1>5, LogGrows, KnowledgeFrom DEF IInv

LEMMA MigrateKnows ==
  ASSUME TypeOK, IInv, NEW w \in Workers, Migrate(w)
  PROVE  IInv'
<1>1. at[w] # "idle" /\ exec[w] \in Execution
  BY Executing DEF Migrate
<1>2. migrated' /\ exec[w].step # Seeding
  BY DEF Migrate, Migrations, Seeding
<1>3. Continue(w, "worked", exec[w]) /\ UNCHANGED run /\ Grows
  BY <1>2 DEF Migrate, Grows
<1> QED
  BY <1>1, <1>2, <1>3, WorkingKnows

LEMMA SeedKnows ==
  ASSUME TypeOK, IInv, NEW w \in Workers, Seed(w)
  PROVE  IInv'
<1> DEFINE e == exec[w]
           given == [e EXCEPT !.password = "given"]
           default == [e EXCEPT !.password = "default"]
<1>1. at[w] # "idle" /\ e \in Execution /\ e.step = Seeding
  BY Executing DEF Seed
<1>2. UNCHANGED run /\ Grows
  BY DEF Seed, tables, Grows
<1>3. /\ given \in Execution /\ given.copy = e.copy /\ given.step = e.step /\ given.password # "none"
      /\ default \in Execution /\ default.copy = e.copy /\ default.step = e.step
      /\ default.password # "none"
  BY <1>1 DEF Execution
<1>4. CASE admin # "none"
  <2>1. Continue(w, "worked", e) /\ e.step # Migrations /\ admin' # "none"
    BY <1>1, <1>2, <1>4 DEF Seed, Grows, Migrations, Seeding
  <2> QED
    BY <1>1, <1>2, <2>1, WorkingKnows
<1>5. CASE admin = "none"
  <2>1. \/ Continue(w, "creating", given)
        \/ Continue(w, "creating", default)
        \/ Continue(w, "failing", e)
    BY <1>5 DEF Seed
  <2> HIDE DEF given, default
  <2>2. CASE Continue(w, "creating", given)
    BY <1>1, <1>2, <1>3, <2>2, WorkingKnows
  <2>3. CASE Continue(w, "creating", default)
    BY <1>1, <1>2, <1>3, <2>3, WorkingKnows
  <2>4. CASE Continue(w, "failing", e)
    BY <1>1, <1>2, <2>4, WorkingKnows
  <2> QED
    BY <2>1, <2>2, <2>3, <2>4
<1> QED
  BY <1>4, <1>5

LEMMA CreateAdminKnows ==
  ASSUME TypeOK, IInv, NEW w \in Workers, CreateAdmin(w)
  PROVE  IInv'
<1>1. /\ at[w] # "idle" /\ exec[w] \in Execution
      /\ exec[w].step = Seeding /\ exec[w].password # "none"
  BY Executing, KnowsNow DEF CreateAdmin
<1>2. UNCHANGED run
  BY DEF CreateAdmin
<1>3. CASE admin = "none"
  <2>1. admin' = exec[w].password /\ Continue(w, "worked", exec[w])
    BY <1>3 DEF CreateAdmin
  <2>2. Grows /\ exec[w].step # Migrations /\ admin' # "none"
    BY <1>1, <1>3, <2>1 DEF CreateAdmin, Grows, Migrations, Seeding
  <2> QED
    BY <1>1, <1>2, <2>1, <2>2, WorkingKnows
<1>4. CASE admin # "none"
  <2>1. Continue(w, "failing", exec[w]) /\ Grows
    BY <1>4 DEF CreateAdmin, Grows
  <2> QED
    BY <1>1, <1>2, <2>1, WorkingKnows
<1> QED
  BY <1>3, <1>4

LEMMA StepThrowsKnows ==
  ASSUME TypeOK, IInv, NEW w \in Workers, StepThrows(w)
  PROVE  IInv'
<1>1. at[w] # "idle" /\ exec[w] \in Execution
  BY Executing DEF StepThrows
<1>2. UNCHANGED run /\ Grows
  BY DEF StepThrows, tables, Grows
<1> QED
  BY <1>1, <1>2, WorkingKnows DEF StepThrows

LEMMA MarkThrowsKnows ==
  ASSUME TypeOK, IInv, NEW w \in Workers, MarkThrows(w)
  PROVE  IInv'
<1>1. at[w] # "idle" /\ exec[w] \in Execution /\ UNCHANGED run /\ Grows
  BY Executing DEF MarkThrows, tables, Grows
<1>2. PICK s \in {"failing", "unlogged"}, f \in Execution :
        /\ Continue(w, s, f) /\ f.step = exec[w].step
        /\ f.copy.status \in {"none", exec[w].copy.status}
        /\ \A t \in Steps : f.copy.step[t] \in {"none", exec[w].copy.step[t]}
  BY ThrowsOn
<1> QED
  BY <1>1, <1>2, WorkingKnows

LEMMA JobEndsKnows ==
  ASSUME TypeOK, IInv, NEW w \in Workers, JobEnds(w)
  PROVE  IInv'
<1>1. Continue(w, "idle", NoExecution) /\ UNCHANGED run /\ Grows
  BY DEF JobEnds, Stop, tables, Grows
<1>2. Knows(w)'
  BY <1>1, ContinueMoves DEF Knows
<1> QED
  BY <1>1, <1>2, LogGrows, KnowledgeFrom DEF IInv

(* Requests, restarts and redeliveries leave the log and what is behind it *)
(* alone, but for InsertRun, whose run claims nothing.                     *)
LEMMA OthersKnow ==
  ASSUME TypeOK, IInv, UNCHANGED <<run, migrated, admin>>,
         \A w \in Workers : at'[w] = "idle" \/ (at'[w] = at[w] /\ exec'[w] = exec[w])
  PROVE  IInv'
<1>1. Grows
  BY DEF Grows
<1> SUFFICES ASSUME NEW w \in Workers PROVE Knows(w)'
  BY <1>1, LogGrows DEF IInv
<1>2. CASE at'[w] = "idle"
  BY <1>2 DEF Knows
<1>3. CASE at'[w] = at[w] /\ exec'[w] = exec[w]
  BY <1>1, <1>3, KnowsKept DEF IInv
<1> QED
  BY <1>2, <1>3

LEMMA InsertRunKnows ==
  ASSUME TypeOK, IInv, NEW r \in Requests, InsertRun(r)
  PROVE  IInv'
<1> DEFINE n == Cardinality(Started) + 1
<1>1. Grows /\ \A w \in Workers : Knows(w)'
  BY KnowsKept DEF InsertRun, workers, Grows, IInv
<1>2. ASSUME NEW m \in Runs PROVE run'[m] = NewRun \/ run'[m] = run[m]
  BY DEF InsertRun, TypeOK
<1>3. LogIsTrue'
  BY <1>1, <1>2, EffectKept DEF LogIsTrue, IInv, NewRun, Grows
<1> QED
  BY <1>1, <1>3 DEF IInv

(* CompletedIsReady, whatever fails, restarts, overlaps or is delivered    *)
(* again: the provisioning log never claims what is not there.             *)
THEOREM CompletedRunsAreReady == Spec => []CompletedIsReady
<1>1. Init => IInv
  BY DEF Init, IInv, LogIsTrue, Knows, NoRun
<1>2. TypeOK /\ IInv /\ [Next]_vars => IInv'
  <2> SUFFICES ASSUME TypeOK, IInv, [Next]_vars PROVE IInv'
    OBVIOUS
  <2>1. ASSUME NEW r \in Requests, CreateTenant(r) \/ Retry(r) \/ ReadInactive(r) \/ Deactivate(r)
                                   \/ Handler(r) \/ Die(r)
        PROVE  IInv'
    <3>1. CASE InsertRun(r)
      BY <3>1, InsertRunKnows
    <3>2. CASE ~InsertRun(r)
      <4>1. UNCHANGED <<run, migrated, admin, at, exec>>
        BY <2>1, <3>2 DEF CreateTenant, Retry, ReadInactive, Deactivate, Handler, BufferPassword,
             CheckLatest, Enqueue, SaveActive, Die, tables, workers
      <4> QED
        BY <4>1, OthersKnow
    <3> QED
      BY <3>1, <3>2
  <2>2. ASSUME NEW w \in Workers, Work(w) PROVE IInv'
    BY <2>2, FetchKnows, MarkRunningKnows, MigrateKnows, SeedKnows, CreateAdminKnows, StepThrowsKnows,
       MarkStepCompletedKnows, MarkCompletedKnows, MarkFailedKnows, MarkThrowsKnows,
       JobEndsKnows DEF Work
  <2>3. ASSUME NEW w \in Workers, Redeliver(w) PROVE IInv'
    BY <2>3, OthersKnow DEF Redeliver, tables, workers
  <2>4. ASSUME NEW h \in Hosts, HostRestart(h) PROVE IInv'
    <3>1. \A w \in Workers : at'[w] = "idle" \/ (at'[w] = at[w] /\ exec'[w] = exec[w])
      BY <2>4 DEF HostRestart
    <3> QED
      BY <2>4, <3>1, OthersKnow DEF HostRestart, tables
  <2>5. CASE UNCHANGED vars
    BY <2>5, OthersKnow DEF vars
  <2> QED
    BY <2>1, <2>2, <2>3, <2>4, <2>5 DEF Next
<1>3. IInv => CompletedIsReady
  BY DEF IInv, LogIsTrue, CompletedIsReady, Effect, Steps, Database, Migrations, Seeding, CacheWarm
<1> QED
  BY <1>1, <1>2, <1>3, ProvisioningTypeCorrect, PTL DEF Spec
-----------------------------------------------------------------------------
(* Runs in progress *)

(* Who holds a run, other than the worker that moves *)
LEMMA HeldKept ==
  ASSUME TypeOK, NEW w \in Workers, NEW s, NEW e, Continue(w, s, e), NEW n \in Runs,
         queue \subseteq queue', UNCHANGED requests, Held(n), ~HeldBy(w, n)
  PROVE  Held(n)'
<1>1. CASE n \in queue
  BY <1>1 DEF Held
<1>2. CASE \E r \in Requests : pc[r] = "inserted" /\ arg[r] = n
  BY <1>2 DEF Held, requests
<1>3. ASSUME NEW v \in Workers, HeldBy(v, n) PROVE Held(n)'
  <2>1. v # w
    BY <1>3
  <2>2. HeldBy(v, n)'
    BY <1>3, <2>1, ContinueMoves DEF HeldBy
  <2> QED
    BY <2>2 DEF Held
<1> QED
  BY <1>1, <1>2, <1>3 DEF Held

(* A step of a worker that writes no run *)
LEMMA MoveHolds ==
  ASSUME TypeOK, HInv, NEW w \in Workers, NEW s \in WorkerSteps, NEW e, Continue(w, s, e),
         UNCHANGED run, UNCHANGED requests, queue \subseteq queue', abandoned \subseteq abandoned',
         HeldBy(w, exec[w].run) =>
           \/ /\ s \notin {"idle", "threw", "done"}
              /\ e.run = exec[w].run
              /\ s # "unlogged" => e.copy.status \in Undecided
           \/ exec[w].run \in queue' \cup abandoned'
  PROVE  HInv'
<1> SUFFICES ASSUME NEW n \in Runs \ abandoned', run[n].status \in InProgress PROVE Held(n)'
  BY DEF HInv
<1>1. CASE HeldBy(w, n)
  <2>1. n = exec[w].run
    BY <1>1 DEF HeldBy
  <2>2. CASE n \in queue' \cup abandoned'
    BY <2>2 DEF Held
  <2>3. CASE s \notin {"idle", "threw", "done"} /\ e.run = n
             /\ (s # "unlogged" => e.copy.status \in Undecided)
    <3>1. HeldBy(w, n)'
      BY <2>3, ContinueMoves DEF HeldBy
    <3> QED
      BY <3>1 DEF Held
  <2> QED
    BY <1>1, <2>1, <2>2, <2>3
<1>2. CASE ~HeldBy(w, n)
  BY <1>2, HeldKept DEF HInv
<1> QED
  BY <1>1, <1>2

(* A step of a worker that saves its copy and keeps it: the worker stops   *)
(* only with a copy that is not in progress.                               *)
LEMMA SaveHolds ==
  ASSUME TypeOK, HInv, NEW w \in Workers, at[w] \notin {"idle", "unlogged"}, NEW new \in Run,
         SaveCopy(w, new), NEW s \in WorkerSteps \ {"idle"}, NEW f, Continue(w, s, f),
         UNCHANGED queue, UNCHANGED requests, UNCHANGED history, f.run = exec[w].run, f.copy = new,
         s \in {"threw", "done"} => new.status \notin Undecided
  PROVE  HInv'
<1> USE DEF history
<1> DEFINE m == exec[w].run
<1> SUFFICES ASSUME NEW n \in Runs \ abandoned, run'[n].status \in InProgress PROVE Held(n)'
  BY DEF HInv
<1>1. CASE n # m
  <2>1. run'[n] = run[n] /\ ~HeldBy(w, n)
    BY <1>1, SavedRow DEF HeldBy
  <2> QED
    BY <2>1, HeldKept DEF HInv
<1>2. CASE n = m /\ new.status \in Undecided
  <2>1. HeldBy(w, n)'
    BY <1>2, ContinueMoves DEF HeldBy
  <2> QED
    BY <2>1 DEF Held
<1>3. CASE n = m /\ new.status \notin Undecided
  <2>1. new.status = exec[w].copy.status /\ run[n].status \in InProgress
    BY <1>3, SavedRow DEF Undecided
  <2>2. ~HeldBy(w, n)
    BY <1>3, <2>1 DEF HeldBy
  <2> QED
    BY <2>1, <2>2, HeldKept DEF HInv
<1> QED
  BY <1>1, <1>2, <1>3

LEMMA FetchHolds ==
  ASSUME TypeOK, HInv, NEW w \in Workers, NEW n \in Runs, Fetch(w, n)
  PROVE  HInv'
<1> DEFINE e == [run |-> n, step |-> Database, copy |-> run[n], password |-> "none"]
<1>1. /\ \E s \in {"marking", "unlogged"} : Continue(w, s, e)
      /\ UNCHANGED run /\ UNCHANGED requests /\ at[w] = "idle"
      /\ queue' = queue \ {n} /\ abandoned' = abandoned
  BY DEF Fetch, tables, history
<1> SUFFICES ASSUME NEW m \in Runs \ abandoned, run[m].status \in InProgress PROVE Held(m)'
  BY <1>1 DEF HInv
<1>2. CASE m = n
  <2>1. HeldBy(w, m)'
    BY <1>1, <1>2, ContinueMoves DEF HeldBy, Undecided
  <2> QED
    BY <2>1 DEF Held
<1>3. CASE m # n /\ m \in queue
  BY <1>1, <1>3 DEF Held
<1>4. CASE \E r \in Requests : pc[r] = "inserted" /\ arg[r] = m
  BY <1>1, <1>4 DEF Held, requests
<1>5. ASSUME NEW v \in Workers, HeldBy(v, m) PROVE Held(m)'
  <2>1. v # w
    BY <1>1, <1>5 DEF HeldBy
  <2>2. HeldBy(v, m)'
    BY <1>1, <1>5, <2>1, ContinueMoves DEF HeldBy
  <2> QED
    BY <2>2 DEF Held
<1> QED
  BY <1>2, <1>3, <1>4, <1>5 DEF HInv, Held

LEMMA WorkHolds ==
  ASSUME TypeOK, HInv, NEW w \in Workers, Work(w)
  PROVE  HInv'
<1> DEFINE e == exec[w]
<1>1. ASSUME MarkRunning(w) PROVE HInv'
  <2> DEFINE new == [status |-> "Running", step |-> [e.copy.step EXCEPT ![e.step] = "Running"]]
             f == [e EXCEPT !.copy = new]
  <2>1. at[w] = "marking" /\ e \in Execution /\ UNCHANGED queue /\ UNCHANGED requests /\ UNCHANGED history
    BY <1>1, Executing DEF MarkRunning, AsRunning
  <2>2. new \in Run /\ f.run = e.run /\ f.copy = new
    BY <2>1, NewCopies DEF Statuses, Execution
  <2>3. CASE SaveCopy(w, new) /\ Continue(w, "working", f)
    BY <2>1, <2>2, <2>3, SaveHolds DEF WorkerSteps
  <2>4. CASE NextStep(w, e) /\ UNCHANGED run
    <3>1. PICK s \in {"marking", "completing"}, g \in Execution :
            Continue(w, s, g) /\ g.run = e.run /\ g.copy = e.copy
      BY <2>1, <2>4, NextStepContinues DEF Execution
    <3> QED
      BY <2>1, <2>4, <3>1, MoveHolds DEF HeldBy, WorkerSteps, history
  <2> QED
    BY <1>1, <2>3, <2>4 DEF MarkRunning, AsRunning
<1>2. ASSUME Migrate(w) \/ StepThrows(w) \/ CreateAdmin(w) PROVE HInv'
  <2>1. \E s \in {"worked", "failing"} : Continue(w, s, e)
    BY <1>2 DEF Migrate, StepThrows, CreateAdmin
  <2>2. /\ UNCHANGED run /\ UNCHANGED requests /\ UNCHANGED queue /\ UNCHANGED history
        /\ at[w] # "unlogged"
    BY <1>2 DEF Migrate, StepThrows, CreateAdmin, tables
  <2> QED
    BY <2>1, <2>2, MoveHolds DEF HeldBy, WorkerSteps, history
<1>3. ASSUME Seed(w) PROVE HInv'
  <2>1. PICK s \in {"worked", "creating", "failing"}, g \in Execution :
          Continue(w, s, g) /\ g.run = e.run /\ g.copy = e.copy
    <3>1. e \in Execution
      BY <1>3, Executing DEF Seed
    <3> QED
      BY <1>3, <3>1 DEF Seed, Execution
  <2>2. /\ UNCHANGED run /\ UNCHANGED requests /\ UNCHANGED queue /\ UNCHANGED history
        /\ at[w] # "unlogged"
    BY <1>3 DEF Seed, tables
  <2> QED
    BY <2>1, <2>2, MoveHolds DEF HeldBy, WorkerSteps, history
<1>4. ASSUME MarkStepCompleted(w) PROVE HInv'
  <2> DEFINE new == [e.copy EXCEPT !.step = [e.copy.step EXCEPT ![e.step] = "Completed"]]
             f == [e EXCEPT !.copy = new, !.password = "none"]
  <2>1. at[w] \notin {"idle", "unlogged"} /\ e \in Execution /\ UNCHANGED queue /\ UNCHANGED requests /\ UNCHANGED history
        /\ SaveCopy(w, new) /\ NextStep(w, f)
    BY <1>4, Executing DEF MarkStepCompleted, AsStepCompleted
  <2>2. new \in Run /\ f \in Execution /\ f.run = e.run /\ f.copy = new
    BY <2>1, NewCopies DEF Statuses, Execution
  <2>3. PICK s \in {"marking", "completing"}, g \in Execution :
          Continue(w, s, g) /\ g.run = f.run /\ g.copy = f.copy
    <3>1. f \in Execution /\ NextStep(w, f)
      BY <2>1, <2>2
    <3> HIDE DEF f
    <3> QED
      BY <3>1, NextStepContinues DEF Execution
  <2> QED
    BY <2>1, <2>2, <2>3, SaveHolds DEF WorkerSteps
<1>5. ASSUME MarkCompleted(w) PROVE HInv'
  <2> DEFINE new == [e.copy EXCEPT !.status = "Completed"]
             f == [e EXCEPT !.copy = new]
  <2>1. at[w] \notin {"idle", "unlogged"} /\ e \in Execution /\ UNCHANGED queue /\ UNCHANGED requests /\ UNCHANGED history
        /\ SaveCopy(w, new) /\ Continue(w, "done", f)
    BY <1>5, Executing DEF MarkCompleted, AsCompleted
  <2>2. new \in Run /\ new.status \notin Undecided /\ f.run = e.run /\ f.copy = new
    BY <2>1, NewCopies DEF Statuses, Execution, Run, Undecided, InProgress
  <2> QED
    BY <2>1, <2>2, SaveHolds DEF WorkerSteps
<1>6. ASSUME MarkFailed(w) PROVE HInv'
  <2> DEFINE new == [status |-> "Failed", step |-> [e.copy.step EXCEPT ![e.step] = "Failed"]]
             f == [e EXCEPT !.copy = new, !.password = "none"]
  <2>1. at[w] \notin {"idle", "unlogged"} /\ e \in Execution /\ UNCHANGED queue /\ UNCHANGED requests /\ UNCHANGED history
        /\ SaveCopy(w, new) /\ Continue(w, "threw", f)
    BY <1>6, Executing DEF MarkFailed, AsFailed
  <2>2. new \in Run /\ new.status \notin Undecided /\ f.run = e.run /\ f.copy = new
    BY <2>1, NewCopies DEF Statuses, Execution, Undecided, InProgress
  <2> QED
    BY <2>1, <2>2, SaveHolds DEF WorkerSteps
<1>7. ASSUME JobEnds(w) PROVE HInv'
  <2>1. /\ Continue(w, "idle", NoExecution) /\ UNCHANGED run /\ UNCHANGED requests
        /\ queue \subseteq queue' /\ abandoned \subseteq abandoned'
        /\ HeldBy(w, e.run) => e.run \in queue' \cup abandoned'
    BY <1>7 DEF JobEnds, Stop, tables, HeldBy
  <2> QED
    BY <2>1, MoveHolds DEF WorkerSteps
<1>8. ASSUME MarkThrows(w) PROVE HInv'
  <2>1. PICK s \in {"failing", "unlogged"}, f \in Execution :
          Continue(w, s, f) /\ f.run = e.run /\ f.copy.status \in {"none", e.copy.status}
    BY <1>8, ThrowsOn
  <2>2. /\ UNCHANGED run /\ UNCHANGED requests /\ UNCHANGED queue /\ UNCHANGED abandoned
        /\ at[w] # "unlogged"
    BY <1>8 DEF MarkThrows, tables
  <2> QED
    BY <2>1, <2>2, MoveHolds DEF HeldBy, WorkerSteps, Undecided
<1> QED
  BY <1>1, <1>2, <1>3, <1>4, <1>5, <1>6, <1>7, <1>8, FetchHolds DEF Work

(* Steps that write no run and leave the workers alone *)
LEMMA OthersHold ==
  ASSUME TypeOK, HInv, UNCHANGED run, UNCHANGED workers, queue \subseteq queue',
         abandoned \subseteq abandoned',
         \A r \in Requests : pc[r] = "inserted" =>
           (pc'[r] = "inserted" /\ arg'[r] = arg[r]) \/ arg[r] \in queue' \cup abandoned'
  PROVE  HInv'
BY DEF HInv, Held, HeldBy, workers

LEMMA RequestHolds ==
  ASSUME TypeOK, HInv, NEW r \in Requests,
         CreateTenant(r) \/ Retry(r) \/ ReadInactive(r) \/ Deactivate(r) \/ Handler(r) \/ Die(r)
  PROVE  HInv'
<1>1. CASE InsertRun(r)
  <2> DEFINE n == Cardinality(Started) + 1
  <2>1. /\ pc[r] = "checked" /\ UNCHANGED queue /\ UNCHANGED workers /\ abandoned' = abandoned
        /\ n \in Runs /\ run' = [run EXCEPT ![n] = NewRun]
        /\ pc'[r] = "inserted" /\ arg'[r] = n
        /\ \A q \in Requests \ {r} : pc'[q] = pc[q] /\ arg'[q] = arg[q]
    BY <1>1, StartedCount DEF InsertRun, Runs, TypeOK, history
  <2> SUFFICES ASSUME NEW m \in Runs \ abandoned, run'[m].status \in InProgress PROVE Held(m)'
    BY <2>1 DEF HInv
  <2>2. CASE m = n
    BY <2>1, <2>2 DEF Held
  <2>3. CASE m # n
    <3>1. Held(m)
      BY <2>1, <2>3 DEF HInv, TypeOK
    <3>2. CASE \E q \in Requests : pc[q] = "inserted" /\ arg[q] = m
      BY <2>1, <3>2 DEF Held
    <3>3. CASE m \in queue \/ \E w \in Workers : HeldBy(w, m)
      BY <2>1, <3>3 DEF Held, HeldBy, workers
    <3> QED
      BY <3>1, <3>2, <3>3 DEF Held
  <2> QED
    BY <2>2, <2>3
<1>2. CASE Enqueue(r)
  BY <1>2, OthersHold DEF Enqueue, End, tables, TypeOK, history
<1>3. CASE Die(r)
  <2>1. /\ UNCHANGED run /\ UNCHANGED workers /\ queue' = queue /\ abandoned \subseteq abandoned'
        /\ pc[r] = "inserted" => arg[r] \in abandoned'
        /\ \A q \in Requests \ {r} : pc'[q] = pc[q] /\ arg'[q] = arg[q]
    BY <1>3 DEF Die, Inserted, End, tables, TypeOK
  <2> QED
    BY <2>1, OthersHold
<1>4. CASE pc[r] # "inserted" /\ ~InsertRun(r) /\ ~Die(r)
  <2>1. UNCHANGED run /\ UNCHANGED workers /\ UNCHANGED queue /\ UNCHANGED abandoned
    BY <1>4 DEF CreateTenant, Retry, ReadInactive, Deactivate, Handler, BufferPassword, CheckLatest,
         Enqueue, SaveActive, tables, history
  <2>2. \A q \in Requests \ {r} : pc'[q] = pc[q] /\ arg'[q] = arg[q]
    BY <1>4 DEF CreateTenant, Retry, ReadInactive, Deactivate, Handler, BufferPassword, CheckLatest,
         Enqueue, SaveActive, GoTo, End, requests, TypeOK
  <2> QED
    BY <1>4, <2>1, <2>2, OthersHold
<1> QED
  BY <1>1, <1>2, <1>3, <1>4 DEF CreateTenant, Retry, ReadInactive, Deactivate, Handler, BufferPassword,
       CheckLatest, SaveActive, InsertRun, requests

LEMMA RestartHolds ==
  ASSUME TypeOK, HInv, NEW h \in Hosts, HostRestart(h)
  PROVE  HInv'
<1>1. /\ UNCHANGED run /\ queue \subseteq queue' /\ abandoned \subseteq abandoned'
  BY DEF HostRestart, tables
<1>2. ASSUME NEW r \in Requests, pc[r] = "inserted"
      PROVE  (pc'[r] = "inserted" /\ arg'[r] = arg[r]) \/ arg[r] \in abandoned'
  BY <1>2 DEF HostRestart, Inserted
<1>3. ASSUME NEW w \in Workers
      PROVE  \/ at'[w] = at[w] /\ exec'[w] = exec[w]
             \/ at[w] # "idle" => exec[w].run \in queue'
  BY DEF HostRestart
<1> SUFFICES ASSUME NEW n \in Runs \ abandoned', run[n].status \in InProgress PROVE Held(n)'
  BY <1>1 DEF HInv
<1>4. CASE n \in queue \/ \E r \in Requests : pc[r] = "inserted" /\ arg[r] = n
  BY <1>1, <1>2, <1>4 DEF Held
<1>5. ASSUME NEW w \in Workers, HeldBy(w, n) PROVE Held(n)'
  BY <1>3, <1>5 DEF Held, HeldBy
<1> QED
  BY <1>1, <1>4, <1>5 DEF HInv, Held

(* InProgressIsWorkedOn, however requests are cut off and executions fail, *)
(* restart and overlap: a run that StartAsync finds in progress is in      *)
(* somebody's hands, unless its request ended before it was enqueued or    *)
(* the last attempt could not use the log.  A worker that can still write  *)
(* knows that it has to: its copy says in progress, or has a status that   *)
(* was not saved.                                                          *)
THEOREM RunsInProgressAreWorkedOn == Spec => []InProgressIsWorkedOn
<1>1. Init => HInv
  BY DEF Init, HInv, NoRun, InProgress
<1>2. TypeOK /\ HInv /\ [Next]_vars => HInv'
  <2> SUFFICES ASSUME TypeOK, HInv, [Next]_vars PROVE HInv'
    OBVIOUS
  <2>1. ASSUME NEW w \in Workers, Redeliver(w) PROVE HInv'
    BY <2>1, OthersHold DEF Redeliver, tables, requests
  <2>2. CASE UNCHANGED vars
    BY <2>2, OthersHold DEF vars, workers
  <2> QED
    BY <2>1, <2>2, RequestHolds, WorkHolds, RestartHolds DEF Next
<1>3. HInv => InProgressIsWorkedOn
  BY DEF HInv, Held, HeldBy, InProgressIsWorkedOn
<1> QED
  BY <1>1, <1>2, <1>3, ProvisioningTypeCorrect, PTL DEF Spec
-----------------------------------------------------------------------------
(* Completed runs.  A run that is not disturbed is in one place: in the    *)
(* queue, with the request that inserted it, or with one worker, whose     *)
(* copy is then what the table has until a save of it throws.              *)

Working(w) == at[w] # "idle"
Inserting(r) == pc[r] = "inserted"
Alone(w) == Working(w) /\ exec[w].run \notin disturbed

(* Runs are numbered in the order of their insertion *)
Numbered == \E k \in 0..MaxRuns : Started = 1..k

InOnePlace ==
  /\ queue \subseteq Started
  /\ \A r \in Requests : Inserting(r) =>
       /\ arg[r] \in Started \ queue
       /\ \A q \in Requests : Inserting(q) /\ arg[q] = arg[r] => q = r
  /\ \A w \in Workers : Working(w) =>
       /\ exec[w].run \in Started
       /\ \A r \in Requests : Inserting(r) => arg[r] # exec[w].run
  /\ \A w \in Workers : Alone(w) =>
       /\ exec[w].run \notin queue
       /\ \A v \in Workers : Working(v) /\ exec[v].run = exec[w].run => v = w

(* The copy, and what the steps behind it and its position say of it *)
Whole(row) == \A s \in Steps : row.step[s] = "Completed"
Following == {"marking", "working", "creating", "worked", "completing"}

UpToDate(w) ==
  Alone(w) =>
    /\ at[w] \in Following =>
         /\ exec[w].copy = run[exec[w].run]
         /\ \A s \in Steps : s < exec[w].step => exec[w].copy.step[s] = "Completed"
    /\ at[w] = "completing" => Whole(exec[w].copy)
    /\ at[w] \in {"working", "creating", "worked", "failing"} =>
         run[exec[w].run].status # "Completed"

CInv ==
  /\ Numbered /\ InOnePlace
  /\ \A w \in Workers : UpToDate(w)
  /\ \A n \in Runs \ disturbed : run[n].status = "Completed" => Whole(run[n])

(* What a step does to the runs that are completed *)
Stays == \A n \in Runs \ disturbed' : run[n].status = "Completed" => run'[n] = run[n]

(* A new run is one after the last *)
LEMMA InsertedIsNew ==
  ASSUME TypeOK, Numbered, NEW r \in Requests, InsertRun(r)
  PROVE  LET n == Cardinality(Started) + 1 IN
         n \in Runs \ Started /\ Started' = Started \cup {n} /\ Numbered'
<1> DEFINE n == Cardinality(Started) + 1
<1>1. PICK k \in 0..MaxRuns : Started = 1..k
  BY DEF Numbered
<1>2. n = k + 1
  BY <1>1, FS_Interval, ProvisioningAssumption
<1>3. n \in Runs /\ run' = [run EXCEPT ![n] = NewRun]
  BY StartedCount DEF InsertRun, Runs
<1>4. Started' = Started \cup {n}
  BY <1>3 DEF Started, NewRun, TypeOK
<1>5. Started' = 1..(k + 1) /\ k + 1 \in 0..MaxRuns /\ n \notin Started
  BY <1>1, <1>2, <1>3, <1>4, ProvisioningAssumption DEF Runs
<1> QED
  BY <1>3, <1>4, <1>5 DEF Numbered

(* Who lets a run go may leave it to the queue; a delivery puts it there   *)
(* while somebody has it, and disturbs it.                                 *)
LEMMA PlacesGivenUp ==
  ASSUME InOnePlace, UNCHANGED run, disturbed \subseteq disturbed',
         \A w \in Workers : Working(w)' => Working(w) /\ exec'[w] = exec[w],
         \A r \in Requests : Inserting(r)' => Inserting(r) /\ arg'[r] = arg[r],
         \A n \in queue' :
           \/ n \in queue
           \/ \E w \in Workers : Working(w) /\ exec[w].run = n /\ (~Working(w)' \/ n \in disturbed')
           \/ \E r \in Requests : Inserting(r) /\ arg[r] = n /\ ~Inserting(r)'
  PROVE  InOnePlace'
<1>1. Started' = Started
  BY DEF Started
<1>2. queue' \subseteq Started
  BY DEF InOnePlace
<1>3. ASSUME NEW w \in Workers, Alone(w)'
      PROVE  /\ exec'[w].run \notin queue'
             /\ \A v \in Workers : Working(v)' /\ exec'[v].run = exec'[w].run => v = w
  <2>1. Alone(w) /\ exec'[w] = exec[w]
    BY <1>3 DEF Alone
  <2> QED
    BY <1>3, <2>1 DEF InOnePlace, Alone
<1>4. ASSUME NEW r \in Requests, Inserting(r)'
      PROVE  /\ arg'[r] \in Started' \ queue'
             /\ \A q \in Requests : Inserting(q)' /\ arg'[q] = arg'[r] => q = r
  BY <1>1, <1>4 DEF InOnePlace
<1>5. ASSUME NEW w \in Workers, Working(w)'
      PROVE  /\ exec'[w].run \in Started'
             /\ \A r \in Requests : Inserting(r)' => arg'[r] # exec'[w].run
  BY <1>1, <1>5 DEF InOnePlace
<1> QED
  BY <1>1, <1>2, <1>3, <1>4, <1>5 DEF InOnePlace

(* A worker goes on with the run it has *)
LEMMA PlacesMove ==
  ASSUME TypeOK, InOnePlace, NEW w \in Workers, Working(w), NEW s \in WorkerSteps \ {"idle"}, NEW e,
         Continue(w, s, e), e.run = exec[w].run, UNCHANGED queue, UNCHANGED requests,
         disturbed \subseteq disturbed', Started' = Started
  PROVE  InOnePlace'
<1>1. \A v \in Workers : Working(v)' => Working(v) /\ exec'[v].run = exec[v].run
  BY ContinueMoves DEF Working
<1>2. \A r \in Requests : (Inserting(r)' <=> Inserting(r)) /\ arg'[r] = arg[r]
  BY DEF Inserting, requests
<1>3. ASSUME NEW v \in Workers, Alone(v)'
      PROVE  /\ exec'[v].run \notin queue'
             /\ \A u \in Workers : Working(u)' /\ exec'[u].run = exec'[v].run => u = v
  <2>1. Alone(v) /\ exec'[v].run = exec[v].run
    BY <1>1, <1>3 DEF Alone
  <2> QED
    BY <1>1, <2>1 DEF InOnePlace
<1>4. ASSUME NEW v \in Workers, Working(v)'
      PROVE  /\ exec'[v].run \in Started'
             /\ \A r \in Requests : Inserting(r)' => arg'[r] # exec'[v].run
  BY <1>1, <1>2, <1>4 DEF InOnePlace
<1>5. ASSUME NEW r \in Requests, Inserting(r)'
      PROVE  /\ arg'[r] \in Started' \ queue'
             /\ \A q \in Requests : Inserting(q)' /\ arg'[q] = arg'[r] => q = r
  BY <1>2, <1>5 DEF InOnePlace
<1> QED
  BY <1>3, <1>4, <1>5 DEF InOnePlace

LEMMA PlacesFetch ==
  ASSUME TypeOK, InOnePlace, NEW w \in Workers, NEW n \in Runs, Fetch(w, n)
  PROVE  InOnePlace'
<1> DEFINE e == [run |-> n, step |-> Database, copy |-> run[n], password |-> "none"]
<1>1. PICK s \in {"marking", "unlogged"} : Continue(w, s, e)
  BY DEF Fetch
<1>2. /\ ~Working(w) /\ n \in queue /\ queue' = queue \ {n}
      /\ Started' = Started /\ disturbed' = disturbed /\ UNCHANGED requests
  BY DEF Fetch, tables, history, Working, Started
<1>3. Working(w)' /\ exec'[w].run = n
  BY <1>1, ContinueMoves DEF Working
<1>4. \A v \in Workers \ {w} : (Working(v)' <=> Working(v)) /\ exec'[v] = exec[v]
  BY <1>1, ContinueMoves DEF Working
<1>5. \A r \in Requests : (Inserting(r)' <=> Inserting(r)) /\ arg'[r] = arg[r]
  BY <1>2 DEF Inserting, requests
<1>6. queue' \subseteq Started'
  BY <1>2 DEF InOnePlace
<1>7. ASSUME NEW r \in Requests, Inserting(r)'
      PROVE  /\ arg'[r] \in Started' \ queue'
             /\ \A q \in Requests : Inserting(q)' /\ arg'[q] = arg'[r] => q = r
  BY <1>2, <1>5, <1>7 DEF InOnePlace
<1>8. ASSUME NEW v \in Workers, Working(v)'
      PROVE  /\ exec'[v].run \in Started'
             /\ \A r \in Requests : Inserting(r)' => arg'[r] # exec'[v].run
  BY <1>2, <1>3, <1>4, <1>5, <1>8 DEF InOnePlace
<1>9. ASSUME NEW v \in Workers, Alone(v)'
      PROVE  /\ exec'[v].run \notin queue'
             /\ \A u \in Workers : Working(u)' /\ exec'[u].run = exec'[v].run => u = v
  <2>1. \A u \in Workers \ {w} : Working(u) /\ exec[u].run \notin disturbed => exec[u].run # n
    BY <1>2 DEF InOnePlace, Alone
  <2> QED
    BY <1>2, <1>3, <1>4, <1>9, <2>1 DEF InOnePlace, Alone
<1> QED
  BY <1>6, <1>7, <1>8, <1>9 DEF InOnePlace

LEMMA PlacesInsert ==
  ASSUME TypeOK, Numbered, InOnePlace, NEW r \in Requests, InsertRun(r)
  PROVE  InOnePlace'
<1> DEFINE n == Cardinality(Started) + 1
<1>1. /\ n \notin Started /\ Started' = Started \cup {n}
      /\ queue' = queue /\ disturbed' = disturbed /\ UNCHANGED workers
      /\ ~Inserting(r) /\ Inserting(r)' /\ arg'[r] = n
      /\ \A q \in Requests \ {r} : (Inserting(q)' <=> Inserting(q)) /\ arg'[q] = arg[q]
  <2>1. n \notin Started /\ Started' = Started \cup {n}
    BY InsertedIsNew
  <2> HIDE DEF n
  <2>2. pc' = [pc EXCEPT ![r] = "inserted"] /\ arg' = [arg EXCEPT ![r] = n]
    BY DEF InsertRun, n
  <2> QED
    BY <2>1, <2>2 DEF InsertRun, Inserting, TypeOK, history
<1> HIDE DEF n
<1>2. \A w \in Workers : /\ (Working(w)' <=> Working(w)) /\ exec'[w] = exec[w]
                         /\ Alone(w)' <=> Alone(w)
  BY <1>1 DEF Working, Alone, workers
<1> QED
  BY <1>1, <1>2 DEF InOnePlace

(* A save leaves the other runs alone, and none that was started is undone *)
LEMMA SaveStarts ==
  ASSUME TypeOK, NEW w \in Workers, Working(w), NEW new \in Run, SaveCopy(w, new),
         exec[w].run \in Started, new.status # "none" \/ new.status = exec[w].copy.status
  PROVE  Started' = Started /\ \A m \in Runs \ {exec[w].run} : run'[m] = run[m]
BY SavedRow DEF Started, Working

(* A save by the only worker that has the run writes its copy *)
LEMMA SavesAll ==
  ASSUME TypeOK, NEW w \in Workers, Working(w), exec[w].copy = run[exec[w].run],
         NEW new \in Run, SaveCopy(w, new)
  PROVE  run'[exec[w].run] = new
<1> DEFINE n == exec[w].run
           row == [status |-> IF new.status # exec[w].copy.status THEN new.status ELSE run[n].status,
                   step |-> [s \in Steps |-> IF new.step[s] # exec[w].copy.step[s] THEN new.step[s]
                                             ELSE run[n].step[s]]]
<1>1. exec[w].copy = run[n] /\ n \in Runs
  BY Executing DEF Working
<1>2. run' = [run EXCEPT ![n] = row]
  BY <1>1 DEF SaveCopy, TypeOK
<1>3. row = new
  BY <1>1 DEF Run
<1> QED
  BY <1>1, <1>2, <1>3 DEF TypeOK

(* Whatever a worker does to the run it has, between fetching and leaving:  *)
(* if it has it alone, it must leave a completed one as it is, and know.    *)
LEMMA MoveCompletes ==
  ASSUME TypeOK, CInv, NEW w \in Workers, Working(w),
         NEW s \in WorkerSteps \ {"idle"}, NEW e, Continue(w, s, e), e.run = exec[w].run,
         UNCHANGED queue, UNCHANGED requests, disturbed \subseteq disturbed',
         Started' = Started, \A m \in Runs \ {exec[w].run} : run'[m] = run[m],
         exec[w].run \notin disturbed' =>
           /\ UpToDate(w)'
           /\ run[exec[w].run].status = "Completed" => run'[exec[w].run] = run[exec[w].run]
           /\ run'[exec[w].run].status = "Completed" => Whole(run'[exec[w].run])
  PROVE  CInv' /\ Stays
<1> DEFINE n == exec[w].run
<1>1. Numbered' /\ InOnePlace'
  BY PlacesMove DEF CInv, Numbered
<1>2. exec'[w].run = n
  BY ContinueMoves
<1>3. UpToDate(w)'
  BY <1>2 DEF UpToDate, Alone
<1>4. ASSUME NEW v \in Workers \ {w}, Alone(v)' PROVE UpToDate(v)'
  <2>1. at'[v] = at[v] /\ exec'[v] = exec[v]
    BY ContinueMoves
  <2>2. Alone(v)
    BY <1>4, <2>1 DEF Alone, Working
  <2>3. exec[v].run \in Runs \ {n}
    BY <2>2, Executing DEF CInv, InOnePlace, Alone, Working
  <2>4. run'[exec[v].run] = run[exec[v].run]
    BY <2>3
  <2> QED
    BY <2>1, <2>2, <2>4 DEF CInv, UpToDate, Whole
<1>5. \A v \in Workers : UpToDate(v)'
  BY <1>3, <1>4 DEF UpToDate
<1>6. ASSUME NEW m \in Runs \ disturbed', run'[m].status = "Completed" PROVE Whole(run'[m])
  BY <1>6 DEF CInv, Whole
<1> QED
  BY <1>1, <1>5, <1>6 DEF CInv, Stays, Whole

(* A step that leaves the runs alone and gives up what it gives up *)
LEMMA CompletesGivenUp ==
  ASSUME CInv, InOnePlace', UNCHANGED run, disturbed \subseteq disturbed',
         \A w \in Workers : Working(w)' => at'[w] = at[w] /\ exec'[w] = exec[w]
  PROVE  CInv' /\ Stays
<1>1. Started' = Started
  BY DEF Started
<1>2. ASSUME NEW w \in Workers, Alone(w)' PROVE UpToDate(w)'
  <2>1. Alone(w) /\ at'[w] = at[w] /\ exec'[w] = exec[w]
    BY <1>2 DEF Alone, Working
  <2> QED
    BY <2>1 DEF CInv, UpToDate, Whole
<1>3. \A w \in Workers : UpToDate(w)'
  BY <1>2 DEF UpToDate
<1> QED
  BY <1>1, <1>3 DEF CInv, Numbered, Whole, Stays

(* The step after a completed one *)
LEMMA NextStepBehind ==
  ASSUME TypeOK, NEW w \in Workers, NEW e \in Execution, NextStep(w, e)
  PROVE  \E s \in {"marking", "completing"}, f \in Execution :
           /\ Continue(w, s, f) /\ f.run = e.run /\ f.copy = e.copy
           /\ (\A t \in Steps : t < e.step \/ t = e.step => e.copy.step[t] = "Completed") =>
                /\ \A t \in Steps : t < f.step => e.copy.step[t] = "Completed"
                /\ s = "completing" => Whole(e.copy)
<1>1. CASE e.step = CacheWarm
  <2>1. (\A t \in Steps : t < e.step \/ t = e.step => e.copy.step[t] = "Completed") => Whole(e.copy)
    BY <1>1 DEF Whole, Steps, Database, CacheWarm
  <2> QED
    BY <1>1, <2>1, NextStepContinues
<1>2. CASE e.step # CacheWarm
  <2> DEFINE f == [e EXCEPT !.step = e.step + 1]
  <2>1. f \in Execution /\ Continue(w, "marking", f)
    BY <1>2, NextStepContinues
  <2>2. f.run = e.run /\ f.copy = e.copy /\ \A t \in Steps : t < f.step => t < e.step \/ t = e.step
    BY DEF Execution, Steps, Database, CacheWarm
  <2> HIDE DEF f
  <2> QED
    BY <2>1, <2>2
<1> QED
  BY <1>1, <1>2

(* What is known of a worker that has its run alone *)
LEMMA AloneKnows ==
  ASSUME TypeOK, CInv, NEW w \in Workers, Working(w)
  PROVE  /\ exec[w] \in Execution /\ exec[w].copy \in Run /\ exec[w].run \in Runs \cap Started
         /\ exec[w].run \notin disturbed =>
              /\ UpToDate(w) /\ Alone(w)
              /\ run[exec[w].run].status = "Completed" => Whole(run[exec[w].run])
BY Executing DEF CInv, InOnePlace, Alone, Working

(* A worker whose copy says a step is completed, or that is at a step which *)
(* leaves the table alone                                                  *)
LEMMA QuietCompletes ==
  ASSUME TypeOK, CInv, NEW w \in Workers, at[w] \in {"working", "creating", "failing"},
         NEW s \in {"worked", "creating", "failing", "unlogged"}, NEW e \in Execution,
         Continue(w, s, e), e.run = exec[w].run,
         s \in {"worked", "creating"} => at[w] # "failing" /\ e.copy = exec[w].copy /\ e.step = exec[w].step,
         UNCHANGED run, UNCHANGED queue, UNCHANGED requests, UNCHANGED disturbed
  PROVE  CInv' /\ Stays
<1>1. Working(w) /\ s \in WorkerSteps \ {"idle"}
  BY DEF Working, WorkerSteps
<1>2. Started' = Started
  BY DEF Started
<1>3. ASSUME exec[w].run \notin disturbed' PROVE UpToDate(w)'
  <2>1. UpToDate(w) /\ Alone(w) /\ run[exec[w].run].status # "Completed"
    BY <1>1, <1>3, AloneKnows DEF UpToDate
  <2>2. at'[w] = s /\ exec'[w] = e
    BY ContinueMoves
  <2> QED
    BY <2>1, <2>2 DEF UpToDate, Following
<1>4. exec[w].run \notin disturbed' => (run[exec[w].run].status = "Completed" => Whole(run[exec[w].run]))
  BY <1>1, AloneKnows
<1> QED
  BY <1>1, <1>2, <1>3, <1>4, MoveCompletes DEF Whole

LEMMA MarkRunningCompletes ==
  ASSUME TypeOK, CInv, NEW w \in Workers, MarkRunning(w)
  PROVE  CInv' /\ Stays
<1> DEFINE e == exec[w]
           n == exec[w].run
           new == [status |-> "Running", step |-> [e.copy.step EXCEPT ![e.step] = "Running"]]
           f == [e EXCEPT !.copy = new]
<1>1. /\ Working(w) /\ at[w] = "marking"
      /\ UNCHANGED queue /\ UNCHANGED requests /\ disturbed' = disturbed
  BY DEF MarkRunning, Working, history
<1>2. /\ e \in Execution /\ e.copy \in Run /\ n \in Runs \cap Started
      /\ n \notin disturbed =>
           /\ e.copy = run[n] /\ \A t \in Steps : t < e.step => e.copy.step[t] = "Completed"
           /\ run[n].status = "Completed" => Whole(run[n])
  BY <1>1, AloneKnows DEF UpToDate, Following
<1>3. CASE e.copy.step[e.step] = "Completed"
  <2>1. NextStep(w, e) /\ run' = run /\ Started' = Started
    BY <1>3 DEF MarkRunning, Started
  <2>2. PICK s \in {"marking", "completing"}, g \in Execution :
          /\ Continue(w, s, g) /\ g.run = e.run /\ g.copy = e.copy
          /\ (\A t \in Steps : t < e.step \/ t = e.step => e.copy.step[t] = "Completed") =>
               /\ \A t \in Steps : t < g.step => e.copy.step[t] = "Completed"
               /\ s = "completing" => Whole(e.copy)
    BY <1>2, <2>1, NextStepBehind
  <2>3. at'[w] = s /\ exec'[w] = g
    BY <2>2, ContinueMoves
  <2>4. n \notin disturbed' => UpToDate(w)'
    BY <1>1, <1>2, <1>3, <2>1, <2>2, <2>3 DEF UpToDate, Whole
  <2> QED
    BY <1>1, <1>2, <2>1, <2>2, <2>4, MoveCompletes DEF WorkerSteps, Whole
<1>4. CASE e.copy.step[e.step] # "Completed"
  <2>1. SaveCopy(w, new) /\ Continue(w, "working", f) /\ new \in Run
    BY <1>2, <1>4, NewCopies DEF MarkRunning, AsRunning, Statuses
  <2>2. /\ f.run = e.run /\ f.copy = new /\ f.step = e.step /\ new.status = "Running"
        /\ \A t \in Steps : t < e.step /\ e.copy.step[t] = "Completed" => new.step[t] = "Completed"
    BY <1>2 DEF Execution, Run, Steps, Database, CacheWarm
  <2> HIDE DEF new, f
  <2>3. Started' = Started /\ \A m \in Runs \ {n} : run'[m] = run[m]
    BY <1>1, <1>2, <2>1, <2>2, SaveStarts
  <2>4. n \notin disturbed => run'[n] = new /\ run[n].status # "Completed"
    BY <1>1, <1>2, <1>4, <2>1, SavesAll DEF Whole, Execution
  <2>5. at'[w] = "working" /\ exec'[w] = f
    BY <2>1, ContinueMoves
  <2>6. n \notin disturbed' => UpToDate(w)'
    BY <1>1, <1>2, <2>2, <2>4, <2>5 DEF UpToDate
  <2> QED
    BY <1>1, <2>1, <2>2, <2>3, <2>4, <2>6, MoveCompletes DEF WorkerSteps
<1> QED
  BY <1>3, <1>4

LEMMA MarkStepCompletedCompletes ==
  ASSUME TypeOK, CInv, NEW w \in Workers, MarkStepCompleted(w)
  PROVE  CInv' /\ Stays
<1> DEFINE e == exec[w]
           n == exec[w].run
           new == [e.copy EXCEPT !.step = [e.copy.step EXCEPT ![e.step] = "Completed"]]
           f == [e EXCEPT !.copy = new, !.password = "none"]
<1>1. /\ Working(w) /\ at[w] \in {"worked", "working"} /\ SaveCopy(w, new) /\ NextStep(w, f)
      /\ UNCHANGED queue /\ UNCHANGED requests /\ disturbed' = disturbed
  BY DEF MarkStepCompleted, AsStepCompleted, Working, history
<1>2. /\ e \in Execution /\ e.copy \in Run /\ n \in Runs \cap Started
      /\ n \notin disturbed =>
           /\ e.copy = run[n] /\ run[n].status # "Completed"
           /\ \A t \in Steps : t < e.step => e.copy.step[t] = "Completed"
  BY <1>1, AloneKnows DEF UpToDate, Following
<1>3. new \in Run /\ f \in Execution
  BY <1>2, NewCopies DEF Execution, Statuses
<1>4. /\ f.run = e.run /\ f.copy = new /\ f.step = e.step /\ new.status = e.copy.status
      /\ new.step[e.step] = "Completed"
      /\ \A t \in Steps : e.copy.step[t] = "Completed" => new.step[t] = "Completed"
  BY <1>2 DEF Execution, Run
<1> HIDE DEF new, f
<1>5. Started' = Started /\ \A m \in Runs \ {n} : run'[m] = run[m]
  BY <1>1, <1>2, <1>3, <1>4, SaveStarts
<1>6. n \notin disturbed => run'[n] = new /\ run'[n].status # "Completed"
  BY <1>1, <1>2, <1>3, <1>4, SavesAll
<1>7. PICK s \in {"marking", "completing"}, g \in Execution :
        /\ Continue(w, s, g) /\ g.run = f.run /\ g.copy = f.copy
        /\ (\A t \in Steps : t < f.step \/ t = f.step => f.copy.step[t] = "Completed") =>
             /\ \A t \in Steps : t < g.step => f.copy.step[t] = "Completed"
             /\ s = "completing" => Whole(f.copy)
  BY <1>1, <1>3, NextStepBehind
<1>8. at'[w] = s /\ exec'[w] = g
  BY <1>7, ContinueMoves
<1>9. n \notin disturbed' => UpToDate(w)'
  BY <1>1, <1>2, <1>4, <1>6, <1>7, <1>8 DEF UpToDate, Whole
<1> QED
  BY <1>1, <1>2, <1>4, <1>5, <1>6, <1>7, <1>9, MoveCompletes DEF WorkerSteps

LEMMA MarkCompletedCompletes ==
  ASSUME TypeOK, CInv, NEW w \in Workers, MarkCompleted(w)
  PROVE  CInv' /\ Stays
<1> DEFINE e == exec[w]
           n == exec[w].run
           new == [e.copy EXCEPT !.status = "Completed"]
           f == [e EXCEPT !.copy = new]
<1>1. /\ Working(w) /\ at[w] = "completing" /\ SaveCopy(w, new) /\ Continue(w, "done", f)
      /\ UNCHANGED queue /\ UNCHANGED requests /\ disturbed' = disturbed
  BY DEF MarkCompleted, AsCompleted, Working, history
<1>2. /\ e \in Execution /\ e.copy \in Run /\ n \in Runs \cap Started
      /\ n \notin disturbed => e.copy = run[n] /\ Whole(e.copy)
  BY <1>1, AloneKnows DEF UpToDate, Following
<1>3. new \in Run
  BY <1>2, NewCopies DEF Statuses
<1>4. /\ f.run = e.run /\ new.status = "Completed" /\ new.step = e.copy.step
      /\ e.copy.status = "Completed" => new = e.copy
  BY <1>2 DEF Execution, Run
<1> HIDE DEF new, f
<1>5. Started' = Started /\ \A m \in Runs \ {n} : run'[m] = run[m]
  BY <1>1, <1>2, <1>3, <1>4, SaveStarts
<1>6. n \notin disturbed => run'[n] = new
  BY <1>1, <1>2, <1>3, SavesAll
<1>7. n \notin disturbed' => UpToDate(w)'
  BY <1>1, ContinueMoves DEF UpToDate, Following
<1> QED
  BY <1>1, <1>2, <1>4, <1>5, <1>6, <1>7, MoveCompletes DEF WorkerSteps, Whole

LEMMA MarkFailedCompletes ==
  ASSUME TypeOK, CInv, NEW w \in Workers, MarkFailed(w)
  PROVE  CInv' /\ Stays
<1> DEFINE e == exec[w]
           n == exec[w].run
           new == [status |-> "Failed", step |-> [e.copy.step EXCEPT ![e.step] = "Failed"]]
           f == [e EXCEPT !.copy = new, !.password = "none"]
<1>1. /\ Working(w) /\ at[w] = "failing" /\ SaveCopy(w, new) /\ Continue(w, "threw", f)
      /\ UNCHANGED queue /\ UNCHANGED requests /\ disturbed' = disturbed
  BY DEF MarkFailed, AsFailed, Working, history
<1>2. /\ e \in Execution /\ n \in Runs \cap Started
      /\ n \notin disturbed => run[n].status # "Completed"
  BY <1>1, AloneKnows DEF UpToDate
<1>3. new \in Run /\ new.status = "Failed" /\ f.run = e.run
  BY <1>2, NewCopies DEF Statuses, Execution
<1> HIDE DEF new, f
<1>4. Started' = Started /\ \A m \in Runs \ {n} : run'[m] = run[m]
  BY <1>1, <1>2, <1>3, SaveStarts
<1>5. n \notin disturbed => run'[n].status # "Completed"
  BY <1>1, <1>2, <1>3, SavedRow DEF Working
<1>6. n \notin disturbed' => UpToDate(w)'
  BY <1>1, ContinueMoves DEF UpToDate, Following
<1> QED
  BY <1>1, <1>2, <1>3, <1>4, <1>5, <1>6, MoveCompletes DEF WorkerSteps

LEMMA MarkThrowsCompletes ==
  ASSUME TypeOK, CInv, NEW w \in Workers, MarkThrows(w)
  PROVE  CInv' /\ Stays
<1> DEFINE n == exec[w].run
<1>1. /\ Working(w) /\ UNCHANGED run /\ UNCHANGED queue /\ UNCHANGED requests
      /\ disturbed \subseteq disturbed' /\ Started' = Started
      /\ n \notin disturbed' => run[n].status # "Completed"
  BY DEF MarkThrows, Working, tables, Started
<1>2. PICK s \in {"failing", "unlogged"}, f \in Execution : Continue(w, s, f) /\ f.run = n
  BY ThrowsOn
<1>3. at'[w] = s /\ exec'[w] = f
  BY <1>2, ContinueMoves
<1>4. n \notin disturbed' => UpToDate(w)'
  BY <1>1, <1>2, <1>3 DEF UpToDate, Following
<1> QED
  BY <1>1, <1>2, <1>4, MoveCompletes DEF WorkerSteps

LEMMA WorkCompletes ==
  ASSUME TypeOK, CInv, NEW w \in Workers, Work(w)
  PROVE  CInv' /\ Stays
<1>1. ASSUME NEW m \in Runs, Fetch(w, m) PROVE CInv' /\ Stays
  <2> DEFINE f == [run |-> m, step |-> Database, copy |-> run[m], password |-> "none"]
  <2>1. PICK s \in {"marking", "unlogged"} : Continue(w, s, f)
    BY <1>1 DEF Fetch
  <2>2. run' = run /\ Started' = Started /\ disturbed' = disturbed
    BY <1>1 DEF Fetch, tables, history, Started
  <2>3. InOnePlace'
    BY <1>1, PlacesFetch DEF CInv
  <2>4. UpToDate(w)'
    BY <2>1, <2>2, ContinueMoves DEF UpToDate, Following, Steps, Database, CacheWarm
  <2>5. ASSUME NEW v \in Workers \ {w}, Alone(v)' PROVE UpToDate(v)'
    BY <2>1, <2>2, <2>5, ContinueMoves DEF CInv, UpToDate, Alone, Working, Whole
  <2>6. \A v \in Workers : UpToDate(v)'
    BY <2>4, <2>5 DEF UpToDate
  <2> QED
    BY <2>2, <2>3, <2>6 DEF CInv, Numbered, Stays, Whole
<1>2. ASSUME Migrate(w) \/ Seed(w) \/ CreateAdmin(w) \/ StepThrows(w) PROVE CInv' /\ Stays
  <2>1. /\ at[w] \in {"working", "creating"}
        /\ UNCHANGED queue /\ UNCHANGED requests /\ UNCHANGED run /\ UNCHANGED disturbed
    BY <1>2 DEF Migrate, Seed, CreateAdmin, StepThrows, tables, history
  <2>2. exec[w] \in Execution
    BY <2>1, Executing
  <2>3. PICK s \in {"worked", "creating", "failing"}, g \in Execution :
          Continue(w, s, g) /\ g.run = exec[w].run /\ g.copy = exec[w].copy /\ g.step = exec[w].step
    BY <1>2, <2>2 DEF Migrate, Seed, CreateAdmin, StepThrows, Execution
  <2> QED
    BY <2>1, <2>3, QuietCompletes
<1>3. ASSUME JobEnds(w) PROVE CInv' /\ Stays
  <2>1. /\ Working(w) /\ Continue(w, "idle", NoExecution) /\ UNCHANGED run /\ UNCHANGED requests
        /\ queue' \subseteq queue \cup {exec[w].run} /\ disturbed' = disturbed
    BY <1>3 DEF JobEnds, Stop, tables, Working
  <2>2. ~Working(w)' /\ \A v \in Workers : Working(v)' => at'[v] = at[v] /\ exec'[v] = exec[v]
    BY <2>1, ContinueMoves DEF Working
  <2>3. \A r \in Requests : Inserting(r)' => Inserting(r) /\ arg'[r] = arg[r]
    BY <2>1 DEF Inserting, requests
  <2>4. InOnePlace'
    <3>1. \A v \in Workers : Working(v)' => Working(v) /\ exec'[v] = exec[v]
      BY <2>2 DEF Working
    <3> QED
      BY <2>1, <2>2, <2>3, <3>1, PlacesGivenUp DEF CInv
  <2> QED
    BY <2>1, <2>2, <2>4, CompletesGivenUp
<1> QED
  BY <1>1, <1>2, <1>3, MarkRunningCompletes, MarkStepCompletedCompletes, MarkCompletedCompletes,
     MarkFailedCompletes, MarkThrowsCompletes DEF Work

LEMMA RequestCompletes ==
  ASSUME TypeOK, CInv, NEW r \in Requests,
         CreateTenant(r) \/ Retry(r) \/ ReadInactive(r) \/ Deactivate(r) \/ Handler(r) \/ Die(r)
  PROVE  CInv' /\ Stays
<1>1. CASE InsertRun(r)
  <2> DEFINE n == Cardinality(Started) + 1
  <2>1. n \in Runs \ Started /\ Numbered' /\ InOnePlace'
    BY <1>1, InsertedIsNew, PlacesInsert DEF CInv
  <2>2. run' = [run EXCEPT ![n] = NewRun] /\ UNCHANGED workers /\ disturbed' = disturbed
    BY <1>1 DEF InsertRun, history
  <2> HIDE DEF n
  <2>3. \A w \in Workers : Working(w) => exec[w].run \in Runs \ {n}
    BY <2>1, Executing DEF CInv, InOnePlace, Working
  <2>4. \A m \in Runs \ {n} : run'[m] = run[m]
    BY <2>1, <2>2 DEF TypeOK
  <2>5. run[n].status # "Completed" /\ run'[n].status # "Completed"
    BY <2>1, <2>2 DEF Started, NewRun, TypeOK
  <2>6. \A w \in Workers : UpToDate(w)'
    BY <2>2, <2>3, <2>4 DEF CInv, UpToDate, Alone, Working, Whole, workers
  <2> QED
    BY <2>1, <2>2, <2>4, <2>5, <2>6 DEF CInv, Stays, Whole
<1>2. CASE ~InsertRun(r)
  <2>1. /\ UNCHANGED run /\ UNCHANGED workers /\ UNCHANGED disturbed
        /\ \A q \in Requests : Inserting(q)' => Inserting(q) /\ arg'[q] = arg[q]
        /\ queue' = queue \/ (Inserting(r) /\ ~Inserting(r)' /\ queue' = queue \cup {arg[r]})
    BY <1>2 DEF CreateTenant, Retry, ReadInactive, Deactivate, Handler, BufferPassword, CheckLatest,
         Enqueue, SaveActive, Die, GoTo, End, Inserting, requests, tables, history, TypeOK
  <2>2. \A w \in Workers : /\ Working(w)' => Working(w)
                           /\ at'[w] = at[w] /\ exec'[w] = exec[w]
    BY <2>1 DEF Working, workers
  <2>3. InOnePlace'
    BY <2>1, <2>2, PlacesGivenUp DEF CInv
  <2> QED
    BY <2>1, <2>2, <2>3, CompletesGivenUp
<1> QED
  BY <1>1, <1>2

LEMMA RestartCompletes ==
  ASSUME TypeOK, CInv, NEW h \in Hosts, HostRestart(h)
  PROVE  CInv' /\ Stays
<1>1. run' = run /\ disturbed' = disturbed
  BY DEF HostRestart, tables
<1>2. \A w \in Workers : Working(w)' => Working(w) /\ at'[w] = at[w] /\ exec'[w] = exec[w]
  BY DEF HostRestart, Working
<1>3. \A r \in Requests : Inserting(r)' => Inserting(r) /\ arg'[r] = arg[r]
  BY DEF HostRestart, Inserting
<1>4. ASSUME NEW n \in queue'
      PROVE  n \in queue \/ \E w \in Workers : Working(w) /\ exec[w].run = n /\ ~Working(w)'
  BY DEF HostRestart, Working
<1>5. InOnePlace'
  BY <1>1, <1>2, <1>3, <1>4, PlacesGivenUp DEF CInv
<1> QED
  BY <1>1, <1>2, <1>5, CompletesGivenUp

LEMMA RedeliverCompletes ==
  ASSUME TypeOK, CInv, NEW w \in Workers, Redeliver(w)
  PROVE  CInv' /\ Stays
<1>1. /\ UNCHANGED run /\ Working(w) /\ queue' = queue \cup {exec[w].run}
      /\ disturbed' = disturbed \cup {exec[w].run} /\ UNCHANGED requests /\ UNCHANGED workers
  BY DEF Redeliver, tables, Working
<1>2. \A v \in Workers : /\ Working(v)' => Working(v)
                         /\ at'[v] = at[v] /\ exec'[v] = exec[v]
  BY <1>1 DEF Working, workers
<1>3. \A r \in Requests : Inserting(r)' => Inserting(r) /\ arg'[r] = arg[r]
  BY <1>1 DEF Inserting, requests
<1>4. InOnePlace'
  BY <1>1, <1>2, <1>3, PlacesGivenUp DEF CInv
<1> QED
  BY <1>1, <1>2, <1>4, CompletesGivenUp

(* A completed run is left as it is by restarts, retries and cut-off       *)
(* requests, in any number: nothing can take its completion back but a     *)
(* delivery that overlapped an execution of it, or an execution that finds *)
(* it completed and cannot use the log.                                    *)
THEOREM CompletedRunsStay == Spec => CompletedStays
<1>1. Init => CInv
  <2> SUFFICES ASSUME Init PROVE CInv
    OBVIOUS
  <2>1. Started = {}
    BY DEF Init, Started, NoRun
  <2>2. Numbered
    <3>1. 0 \in 0..MaxRuns /\ Started = 1..0
      BY <2>1, ProvisioningAssumption
    <3> QED
      BY <3>1 DEF Numbered
  <2>3. InOnePlace
    BY DEF Init, InOnePlace, Alone, Working, Inserting
  <2> QED
    BY <2>2, <2>3 DEF Init, CInv, UpToDate, Alone, Working, NoRun
<1>2. TypeOK /\ CInv /\ [Next]_vars => CInv' /\ Stays
  <2> SUFFICES ASSUME TypeOK, CInv, [Next]_vars PROVE CInv' /\ Stays
    OBVIOUS
  <2>1. CASE UNCHANGED vars
    <3>1. /\ UNCHANGED run /\ UNCHANGED queue /\ UNCHANGED disturbed
          /\ UNCHANGED requests /\ UNCHANGED workers
      BY <2>1 DEF vars, requests, workers
    <3>2. InOnePlace'
      BY <3>1 DEF CInv, InOnePlace, Alone, Working, Inserting, Started, requests, workers
    <3>3. \A w \in Workers : Working(w)' => at'[w] = at[w] /\ exec'[w] = exec[w]
      BY <3>1 DEF workers
    <3> QED
      BY <3>1, <3>2, <3>3, CompletesGivenUp
  <2> QED
    BY <2>1, RequestCompletes, WorkCompletes, RestartCompletes, RedeliverCompletes DEF Next
<1>3. TypeOK /\ CInv /\ [Next]_vars =>
        [\A n \in Runs \ disturbed' : run[n].status = "Completed" => run'[n] = run[n]]_vars
  BY <1>2 DEF Stays
<1> QED
  BY <1>1, <1>2, <1>3, ProvisioningTypeCorrect, PTL DEF Spec, CompletedStays
=============================================================================
