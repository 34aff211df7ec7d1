-------------------------------- MODULE Forms --------------------------------
(***************************************************************************)
(* The Forms module: templates, published form versions, process instances *)
(* and submissions, driven by concurrent HTTP requests.                    *)
(*                                                                         *)
(* A handler is not a transaction: every query, ExecuteUpdate and          *)
(* SaveChanges commits by itself, so each of them is a step, and a request *)
(* may die between any two (client gone, host stopped, database error).    *)
(* One tenant: every query is filtered by it.  A template is identified by *)
(* its slug, which a unique index protects.  Nothing sets IsArchived,      *)
(* Running or IsDeleted, so those guards never refuse and are left out.    *)
(***************************************************************************)
EXTENDS Integers, FiniteSets

CONSTANTS
  Slugs,           \* slugs of process templates
  Instances,       \* ids of process instances
  Requests,        \* requests in progress at the same time
  MaxVersion,      \* bound on the versions published per template
  MaxSubmissions   \* bound on the submissions stored

ASSUME FormsAssumption == MaxVersion \in Nat /\ MaxSubmissions \in Nat

VARIABLES
  templates,    \* slugs of the stored templates
  versions,     \* the FormVersions table
  current,      \* the rows of it with IsCurrent
  instance,     \* the ProcessInstances table, "none" where there is no row
  submissions,  \* the Submissions table
  pc,           \* where each request is in its handler
  arg           \* what it has read or been sent

tables == <<templates, versions, current, instance, submissions>>
vars == <<templates, versions, current, instance, submissions, pc, arg>>

Version == [template : Slugs, number : 1..MaxVersion]
Statuses == {"none", "Planned", "Completed", "Skipped"}
Terminal == {"Completed", "Skipped"}
Submission == [id : 1..MaxSubmissions, instance : Instances, version : Version,
               compensates : 0..MaxSubmissions]
NoVersion == [template |-> "none", number |-> 0]

Steps == {"idle", "creating", "publishing", "flipped", "scheduling",
          "submitting", "closed", "completing", "skipping"}

TypeOK ==
  /\ templates \subseteq Slugs
  /\ versions \subseteq Version
  /\ current \subseteq versions
  /\ instance \in [Instances -> [status : Statuses, version : Version \cup {NoVersion},
                                 completedAt : BOOLEAN]]
  /\ submissions \subseteq Submission
  /\ pc \in [Requests -> Steps]
  /\ DOMAIN arg = Requests

NoInstance == [status |-> "none", version |-> NoVersion, completedAt |-> FALSE]

Init ==
  /\ templates = {}
  /\ versions = {}
  /\ current = {}
  /\ instance = [i \in Instances |-> NoInstance]
  /\ submissions = {}
  /\ pc = [r \in Requests |-> "idle"]
  /\ arg = [r \in Requests |-> <<>>]

VersionsOf(t) == {v \in versions : v.template = t}

(* A request enters its handler at step s with what it read, or leaves it *)
Enter(r, s, a) ==
  /\ pc[r] = "idle"
  /\ pc' = [pc EXCEPT ![r] = s]
  /\ arg' = [arg EXCEPT ![r] = a]

Leave(r) ==
  /\ pc' = [pc EXCEPT ![r] = "idle"]
  /\ arg' = [arg EXCEPT ![r] = <<>>]

(* The request dies; what it has committed stays *)
Die(r) ==
  /\ pc[r] # "idle"
  /\ Leave(r)
  /\ UNCHANGED tables
-----------------------------------------------------------------------------
(* CreateProcessTemplate: the slug pre-check, then the insert *)
CreateTemplate(r, t) ==
  /\ t \notin templates
  /\ Enter(r, "creating", [template |-> t])
  /\ UNCHANGED tables

SaveTemplate(r) ==
  /\ pc[r] = "creating"
  /\ templates' = templates \cup {arg[r].template}
  /\ Leave(r)
  /\ UNCHANGED <<versions, current, instance, submissions>>

(* CreateFormVersion: the number max + 1, or 1 for the first, is read, ... *)
IsNext(t, n) ==
  /\ \A v \in VersionsOf(t) : v.number < n
  /\ n = 1 \/ \E v \in VersionsOf(t) : v.number = n - 1

ReadMaxVersion(r, t, n) ==
  /\ t \in templates
  /\ IsNext(t, n)
  /\ Enter(r, "publishing", [template |-> t, number |-> n])
  /\ UNCHANGED tables

(* ... one UPDATE takes IsCurrent from the version that has it, ... *)
FlipCurrent(r) ==
  /\ pc[r] = "publishing"
  /\ current' = current \ VersionsOf(arg[r].template)
  /\ pc' = [pc EXCEPT ![r] = "flipped"]
  /\ UNCHANGED <<templates, versions, instance, submissions, arg>>

(* Faulty: no unique index on (template, VersionNumber) *)
RefusedByCurrent(v) == VersionsOf(v.template) \cap current # {}

(* ... and the insert is refused by either unique index or makes the new   *)
(* version the current one.                                                *)
Refused(v) == v \in versions \/ VersionsOf(v.template) \cap current # {}

InsertVersion(r) ==
  LET v == [template |-> arg[r].template, number |-> arg[r].number] IN
  /\ pc[r] = "flipped"
  /\ IF Refused(v) THEN UNCHANGED <<versions, current>>
     ELSE /\ versions' = versions \cup {v}
          /\ current' = current \cup {v}
  /\ Leave(r)
  /\ UNCHANGED <<templates, instance, submissions>>
-----------------------------------------------------------------------------
(* CreateProcessInstance: the version is current when read, not when bound *)
ReadVersion(r, v) ==
  /\ v \in current
  /\ Enter(r, "scheduling", [version |-> v])
  /\ UNCHANGED tables

Schedule(r, i) ==
  /\ pc[r] = "scheduling"
  /\ instance[i].status = "none"
  /\ instance' = [instance EXCEPT ![i] =
                    [status |-> "Planned", version |-> arg[r].version, completedAt |-> FALSE]]
  /\ Leave(r)
  /\ UNCHANGED <<templates, versions, current, submissions>>

(* The status guard of the three handlers that close an instance *)
Open(i) == instance[i].status \notin {"none"} \cup Terminal

Close(i, status) ==
  instance' = [instance EXCEPT ![i].status = status,
                               ![i].completedAt = (status = "Completed")]

(* Faulty: the version the client filled is not compared with the instance's *)
AcceptAnyVersion(r, i, v, prior) ==
  /\ Open(i)
  /\ prior = 0 \/ \E s \in submissions : s.id = prior
  /\ Enter(r, "submitting", [instance |-> i, version |-> v, prior |-> prior])
  /\ UNCHANGED tables

(* CreateSubmission: instance open, same version, prior submission known; *)
AcceptSubmission(r, i, v, prior) ==
  /\ Open(i)
  /\ instance[i].version = v
  /\ prior = 0 \/ \E s \in submissions : s.id = prior
  /\ Enter(r, "submitting", [instance |-> i, version |-> v, prior |-> prior])
  /\ UNCHANGED tables

(* the instance is closed by an UPDATE of its own, whatever it is by now, *)
CloseSubmitted(r) ==
  /\ pc[r] = "submitting"
  /\ Close(arg[r].instance, "Completed")
  /\ pc' = [pc EXCEPT ![r] = "closed"]
  /\ UNCHANGED <<templates, versions, current, submissions, arg>>

(* and then the submission is inserted. *)
InsertSubmission(r) ==
  /\ pc[r] = "closed"
  /\ Cardinality(submissions) < MaxSubmissions
  /\ submissions' = submissions \cup
       {[id |-> Cardinality(submissions) + 1, instance |-> arg[r].instance,
         version |-> arg[r].version, compensates |-> arg[r].prior]}
  /\ Leave(r)
  /\ UNCHANGED <<templates, versions, current, instance>>

(* MarkProcessInstanceAsCompleted and MarkProcessInstanceAsSkipped *)
ReadStatus(r, i, s) ==
  /\ Open(i)
  /\ Enter(r, s, [instance |-> i])
  /\ UNCHANGED tables

WriteStatus(r, s, status) ==
  /\ pc[r] = s
  /\ Close(arg[r].instance, status)
  /\ Leave(r)
  /\ UNCHANGED <<templates, versions, current, submissions>>

Next ==
  \E r \in Requests :
    \/ \E t \in Slugs : CreateTemplate(r, t)
    \/ \E t \in Slugs, n \in 1..MaxVersion : ReadMaxVersion(r, t, n)
    \/ SaveTemplate(r) \/ FlipCurrent(r) \/ InsertVersion(r)
    \/ \E v \in Version : ReadVersion(r, v)
    \/ \E i \in Instances : Schedule(r, i)
    \/ \E i \in Instances, v \in Version, prior \in 0..MaxSubmissions :
         AcceptSubmission(r, i, v, prior)
    \/ CloseSubmitted(r) \/ InsertSubmission(r)
    \/ \E i \in Instances : ReadStatus(r, i, "completing") \/ ReadStatus(r, i, "skipping")
    \/ WriteStatus(r, "completing", "Completed") \/ WriteStatus(r, "skipping", "Skipped")
    \/ Die(r)

Spec == Init /\ [][Next]_vars
-----------------------------------------------------------------------------
(* Two unique indexes are all that orders concurrent publishers: a current *)
(* version, if there is one, is the latest of its template, hence the only *)
(* one, although the flip and the insert are separate steps.               *)
CurrentIsLatest ==
  \A v \in current : \A w \in VersionsOf(v.template) : w.number <= v.number

(* The published versions of a template are numbered 1, 2, 3, ... without  *)
(* a gap, whichever publishers lose the race or die.                       *)
NumbersGapFree ==
  \A v \in versions : \A n \in 1..(v.number - 1) :
    [template |-> v.template, number |-> n] \in versions

(* Two unique indexes and no transaction: concurrent publishers leave the  *)
(* versions of every template in order.                                    *)
VersionsInOrder == CurrentIsLatest /\ NumbersGapFree

(* No submission is stored for an instance that is still open.             *)
SubmittedIsClosed == \A s \in submissions : instance[s.instance].status \in Terminal

(* Snapshot on publish: a submission was filled against the version its    *)
(* instance is bound to, whatever has been published in between.           *)
SubmissionFitsInstance == \A s \in submissions : instance[s.instance].version = s.version

(* CompletedAt is set exactly on completed instances, also when handlers   *)
(* that close the same instance overlap.                                   *)
CompletedAtFitsStatus ==
  \A i \in Instances : instance[i].completedAt <=> instance[i].status = "Completed"

(* However submissions, completions and skips overlap and die, an instance *)
(* agrees with what was submitted for it, and with its own CompletedAt.    *)
InstancesAgree == SubmittedIsClosed /\ SubmissionFitsInstance /\ CompletedAtFitsStatus
=============================================================================
