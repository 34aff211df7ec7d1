-------------------------------- MODULE Files --------------------------------
(***************************************************************************)
(* The Files module: upload, finalize, trash and restore of files by HTTP  *)
(* requests, the two purge jobs, the object store behind them, and the     *)
(* tenant's StorageBytes meter.                                            *)
(*                                                                         *)
(* Database, object store and meter are three systems with no transaction  *)
(* over them: every call to one of them is a step, and a request or a job  *)
(* may die between any two.  Every file weighs 1 on the meter.  The upload *)
(* URL is good for any number of PUTs until its deadline, also after the   *)
(* file is finalized.                                                      *)
(***************************************************************************)
EXTENDS Integers, FiniteSets

CONSTANTS
  Assets,        \* ids of file assets
  Requests,      \* requests in progress at the same time
  Limit,         \* the tenant's StorageBytes limit
  MaxDeaths,     \* bound on requests and jobs that die
  MaxUsage,      \* bound on the meter ...
  MaxOverdraft   \* ... and on how far below zero refunds bring it

ASSUME FilesAssumption ==
  Limit \in Nat /\ MaxDeaths \in Nat /\ MaxUsage \in Nat /\ MaxOverdraft \in Nat

VARIABLES
  row,        \* the FileAssets table
  object,     \* what the object store holds under the asset's key
  overdue,    \* assets whose upload deadline, hence upload URL, has passed
  aged,       \* assets deleted longer ago than the retention
  usage,      \* the StorageBytes meter
  announced,  \* assets whose FileFinalizedIntegrationEvent is in the outbox
  reused,     \* history: assets PUT again after their bytes were checked
  unsaid,     \* history: assets whose finalizer died before it added the event
  pc, arg,    \* the requests: position, and asset with the row as read
  job, batch, left,  \* the purge jobs: position, candidates, bytes to remove
  deaths

history == <<reused, unsaid>>
vars == <<row, object, overdue, aged, usage, announced, history, pc, arg, job, batch, left, deaths>>
stores == <<row, object, overdue, aged, usage, announced, reused>>
requests == <<pc, arg>>
jobs == <<job, batch, left>>

Jobs == {"orphans", "deleted"}
Final == {"available", "quarantined"}
Contents == {"clean", "infected", "unfit"}
Row == [status : {"none", "pending", "gone"} \cup Final, deleted : BOOLEAN]
Steps == {"idle", "loaded", "accepted", "scanned", "debited", "saved",
          "rejecting", "probed", "trashing", "restoring"}
JobSteps == {"idle", "purging"}

NoArg == [asset |-> "none"]
Unread == [status |-> "none", deleted |-> FALSE]

TypeOK ==
  /\ row \in [Assets -> Row]
  /\ object \in [Assets -> {"none", "removed"} \cup Contents]
  /\ overdue \subseteq Assets /\ aged \subseteq Assets /\ announced \subseteq Assets
  /\ reused \subseteq Assets /\ unsaid \subseteq Assets
  /\ usage \in Int
  /\ pc \in [Requests -> Steps] /\ DOMAIN arg = Requests
  /\ \A r \in Requests : pc[r] # "idle" => arg[r].asset \in Assets /\ arg[r].copy \in Row
  /\ job \in [Jobs -> JobSteps]
  /\ batch \in [Jobs -> SUBSET Assets]
  /\ \A j \in Jobs : left[j] \subseteq batch[j]
  /\ deaths \in 0..MaxDeaths

Init ==
  /\ row = [f \in Assets |-> Unread]
  /\ object = [f \in Assets |-> "none"]
  /\ overdue = {} /\ aged = {} /\ announced = {} /\ reused = {} /\ unsaid = {}
  /\ usage = 0
  /\ pc = [r \in Requests |-> "idle"]
  /\ arg = [r \in Requests |-> NoArg]
  /\ job = [j \in Jobs |-> "idle"]
  /\ batch = [j \in Jobs |-> {}]
  /\ left = [j \in Jobs |-> {}]
  /\ deaths = 0

(* A request loads the asset, keeps what it will need of the row, and goes *)
(* to step s; goes on, with or without what it read of the bytes; or ends. *)
Load(r, f, s, kept) ==
  /\ pc[r] = "idle"
  /\ pc' = [pc EXCEPT ![r] = s]
  /\ arg' = [arg EXCEPT ![r] = [asset |-> f, copy |-> kept, content |-> "none"]]

GoOn(r, s, content) ==
  /\ pc' = [pc EXCEPT ![r] = s]
  /\ arg' = [arg EXCEPT ![r].content = content]

GoTo(r, s) == pc' = [pc EXCEPT ![r] = s] /\ UNCHANGED arg

End(r) ==
  /\ pc' = [pc EXCEPT ![r] = "idle"]
  /\ arg' = [arg EXCEPT ![r] = NoArg]

Stored(f) == row[f].status \notin {"none", "gone"}

(* An UPDATE by key: it finds no row, and SaveChanges throws, once purged *)
Save(f, new) == row' = IF Stored(f) THEN [row EXCEPT ![f] = new] ELSE row
-----------------------------------------------------------------------------
(* RequestUploadUrl: quota pre-check and insert; only the insert is seen   *)
(* by others, so the handler is one step.                                  *)
RequestUpload(f) ==
  /\ row[f].status = "none"
  /\ usage + 1 <= Limit
  /\ row' = [row EXCEPT ![f].status = "pending"]
  /\ UNCHANGED <<object, overdue, aged, usage, announced, history, requests, jobs, deaths>>

(* Someone has read the bytes to judge them, or stands by an earlier verdict *)
Judged(f) ==
  \/ row[f].status \in Final
  \/ \E r \in Requests :
       /\ pc[r] # "idle" /\ arg[r].asset = f
       /\ \/ pc[r] \in {"accepted", "scanned", "debited", "rejecting", "probed"}
          \/ arg[r].copy.status \in Final

(* A PUT to the client's URL: fit for the declared size and type, or not. *)
(* It replaces what is there; nobody is told.                             *)
Upload(f, content) ==
  /\ row[f].status # "none"
  /\ f \notin overdue
  /\ object' = [object EXCEPT ![f] = content]
  /\ reused' = IF Judged(f) THEN reused \cup {f} ELSE reused
  /\ UNCHANGED <<row, overdue, aged, usage, announced, unsaid, requests, jobs, deaths>>

(* FinalizeUpload: the row is pending when it is loaded, ... *)
Finalize(r, f) ==
  /\ row[f].status = "pending" /\ ~row[f].deleted
  /\ Load(r, f, "loaded", row[f])
  /\ UNCHANGED <<stores, unsaid, jobs, deaths>>

(* Faulty: an upload of another size or type is accepted *)
HeadUnchecked(r) ==
  /\ pc[r] = "loaded"
  /\ IF object[arg[r].asset] \in Contents THEN GoTo(r, "accepted") ELSE End(r)
  /\ UNCHANGED <<stores, unsaid, jobs, deaths>>

(* ... HEAD tells whether an object is there, and whether its size and     *)
(* content type are as declared, ...                                       *)
Head(r) ==
  LET o == object[arg[r].asset] IN
  /\ pc[r] = "loaded"
  /\ \/ o = "unfit" /\ GoTo(r, "rejecting")
     \/ o \in Contents \ {"unfit"} /\ GoTo(r, "accepted")
     \/ o \notin Contents /\ End(r)
  /\ UNCHANGED <<stores, unsaid, jobs, deaths>>

(* ... the scanner reads the object again, ... *)
Scan(r) ==
  /\ pc[r] = "accepted"
  /\ GoOn(r, "scanned", object[arg[r].asset])
  /\ UNCHANGED <<stores, unsaid, jobs, deaths>>

(* ... the meter is debited, ... *)
Debit(r) ==
  /\ pc[r] = "scanned"
  /\ usage < MaxUsage
  /\ usage' = usage + 1
  /\ GoTo(r, "debited")
  /\ UNCHANGED <<row, object, overdue, aged, announced, history, jobs, deaths>>

(* Faulty: no event is sent for a file that was trashed meanwhile *)
SaveFinalizedQuietly(r) ==
  LET f == arg[r].asset
      verdict == IF arg[r].content = "infected" THEN "quarantined" ELSE "available"
  IN
  /\ pc[r] = "debited"
  /\ Save(f, [row[f] EXCEPT !.status = verdict])
  /\ IF Stored(f) /\ ~row[f].deleted THEN GoOn(r, "saved", "none") ELSE End(r)
  /\ UNCHANGED <<object, overdue, aged, usage, announced, history, jobs, deaths>>

(* ... the changed columns are saved (no concurrency token), ... *)
SaveFinalized(r) ==
  LET f == arg[r].asset
      verdict == IF arg[r].content = "infected" THEN "quarantined" ELSE "available"
  IN
  /\ pc[r] = "debited"
  /\ Save(f, [row[f] EXCEPT !.status = verdict])
  /\ IF Stored(f) THEN GoOn(r, "saved", "none") ELSE End(r)
  /\ UNCHANGED <<object, overdue, aged, usage, announced, history, jobs, deaths>>

(* ... and the event is added to the outbox by a save of its own. *)
Announce(r) ==
  /\ pc[r] = "saved"
  /\ announced' = announced \cup {arg[r].asset}
  /\ End(r)
  /\ UNCHANGED <<row, object, overdue, aged, usage, history, jobs, deaths>>

(* An unfit upload is removed through the metered store, which probes the  *)
(* size first and refunds it afterwards, also when the object store could  *)
(* not remove the bytes and only logged that; then the asset is trashed.   *)
Probe(r) ==
  /\ pc[r] = "rejecting"
  /\ GoOn(r, "probed", object[arg[r].asset])
  /\ UNCHANGED <<stores, unsaid, jobs, deaths>>

RemoveRejected(r) ==
  /\ pc[r] = "probed"
  /\ usage > -MaxOverdraft
  /\ object' \in {object, [object EXCEPT ![arg[r].asset] = "removed"]}
  /\ usage' = IF arg[r].content \in Contents THEN usage - 1 ELSE usage
  /\ GoOn(r, "trashing", "none")
  /\ UNCHANGED <<row, overdue, aged, announced, history, jobs, deaths>>

(* DeleteFile: the asset is loaded, whatever its status ... *)
Delete(r, f) ==
  /\ Stored(f) /\ ~row[f].deleted
  /\ Load(r, f, "trashing", row[f])
  /\ UNCHANGED <<stores, unsaid, jobs, deaths>>

(* ... and the interceptor turns the removal into an update of ALL columns *)
(* Faulty: the bytes are removed with the row, not by the purge *)
SaveTrashedWithBytes(r) ==
  LET f == arg[r].asset IN
  /\ pc[r] = "trashing"
  /\ Save(f, [arg[r].copy EXCEPT !.deleted = TRUE])
  /\ aged' = aged \ {f}
  /\ object' = [object EXCEPT ![f] = "removed"]
  /\ End(r)
  /\ UNCHANGED <<overdue, usage, announced, history, jobs, deaths>>

SaveTrashed(r) ==
  LET f == arg[r].asset IN
  /\ pc[r] = "trashing"
  /\ Save(f, [arg[r].copy EXCEPT !.deleted = TRUE])
  /\ aged' = aged \ {f}
  /\ End(r)
  /\ UNCHANGED <<object, overdue, usage, announced, history, jobs, deaths>>

(* RestoreFile: a trashed asset is loaded, and only the trash columns are  *)
(* cleared, whatever else has changed since.                               *)
Restore(r, f) ==
  /\ Stored(f) /\ row[f].deleted
  /\ Load(r, f, "restoring", Unread)
  /\ UNCHANGED <<stores, unsaid, jobs, deaths>>

SaveRestored(r) ==
  LET f == arg[r].asset IN
  /\ pc[r] = "restoring"
  /\ Save(f, [row[f] EXCEPT !.deleted = FALSE])
  /\ aged' = aged \ {f}
  /\ End(r)
  /\ UNCHANGED <<object, overdue, usage, announced, history, jobs, deaths>>

Die(r) ==
  /\ pc[r] # "idle"
  /\ deaths < MaxDeaths /\ deaths' = deaths + 1
  /\ unsaid' = IF pc[r] = "saved" THEN unsaid \cup {arg[r].asset} ELSE unsaid
  /\ End(r)
  /\ UNCHANGED <<stores, jobs>>
-----------------------------------------------------------------------------
(* Faulty: the orphan job does not ignore the soft-delete filter *)
CandidatesFiltered(j) ==
  IF j = "orphans" THEN {f \in overdue : row[f].status = "pending" /\ ~row[f].deleted}
  ELSE {f \in aged : Stored(f) /\ row[f].deleted}

(* The candidates of PurgeOrphanedFilesJob and PurgeDeletedFilesJob *)
Candidates(j) ==
  IF j = "orphans" THEN {f \in overdue : row[f].status = "pending"}
  ELSE {f \in aged : Stored(f) /\ row[f].deleted}

JobRead(j) ==
  /\ job[j] = "idle"
  /\ Candidates(j) # {}
  /\ job' = [job EXCEPT ![j] = "purging"]
  /\ batch' = [batch EXCEPT ![j] = Candidates(j)]
  /\ left' = [left EXCEPT ![j] = Candidates(j)]
  /\ UNCHANGED <<stores, unsaid, requests, deaths>>

Without(f) == [object EXCEPT ![f] = IF @ = "none" THEN @ ELSE "removed"]

(* storage.RemoveAsync, best effort; a job has no tenant, so nothing is metered *)
JobRemove(j, f) ==
  /\ job[j] = "purging"
  /\ f \in left[j]
  /\ left' = [left EXCEPT ![j] = @ \ {f}]
  /\ object' \in {object, Without(f)}
  /\ UNCHANGED <<row, overdue, aged, usage, announced, history, requests, job, batch, deaths>>

JobEnd(j) ==
  /\ job' = [job EXCEPT ![j] = "idle"]
  /\ batch' = [batch EXCEPT ![j] = {}]
  /\ left' = [left EXCEPT ![j] = {}]

(* ExecuteDelete by id, without looking at the rows again.  The refund that *)
(* comes before it has no effect: it throws on the empty tenant id, caught. *)
JobPurge(j) ==
  /\ job[j] = "purging"
  /\ left[j] = {}
  /\ row' = [f \in Assets |-> IF f \in batch[j] THEN [status |-> "gone", deleted |-> FALSE]
                              ELSE row[f]]
  /\ JobEnd(j)
  /\ UNCHANGED <<object, overdue, aged, usage, announced, history, requests, deaths>>

JobDies(j) ==
  /\ job[j] # "idle"
  /\ deaths < MaxDeaths /\ deaths' = deaths + 1
  /\ JobEnd(j)
  /\ UNCHANGED <<stores, unsaid, requests>>

(* Time: the upload window closes; much later the retention is over *)
Close(f) ==
  /\ row[f].status # "none" /\ f \notin overdue
  /\ overdue' = overdue \cup {f}
  /\ UNCHANGED <<row, object, aged, usage, announced, history, requests, jobs, deaths>>

Age(f) ==
  /\ f \in overdue \ aged /\ row[f].deleted
  /\ aged' = aged \cup {f}
  /\ UNCHANGED <<row, object, overdue, usage, announced, history, requests, jobs, deaths>>

Handler(r) ==
  \/ Head(r) \/ Scan(r) \/ Debit(r) \/ SaveFinalized(r) \/ Announce(r) \/ Probe(r) \/ RemoveRejected(r)
  \/ SaveTrashed(r) \/ SaveRestored(r) \/ Die(r)

JobStep(j) ==
  JobRead(j) \/ (\E f \in Assets : JobRemove(j, f)) \/ JobPurge(j)

Next ==
  \/ \E f \in Assets :
       \/ RequestUpload(f) \/ Close(f) \/ Age(f)
       \/ \E content \in Contents : Upload(f, content)
  \/ \E r \in Requests : Handler(r) \/ \E f \in Assets : Finalize(r, f) \/ Delete(r, f) \/ Restore(r, f)
  \/ \E j \in Jobs : JobStep(j) \/ JobDies(j)

Spec == Init /\ [][Next]_vars

(* Hangfire runs the jobs for ever, and time passes *)
FairSpec ==
  /\ Spec
  /\ \A j \in Jobs : WF_vars(JobStep(j))
  /\ \A f \in Assets : WF_vars(Close(f)) /\ WF_vars(Age(f))
-----------------------------------------------------------------------------
(* What is available was clean when it was checked, and still is unless its *)
(* URL was used again afterwards: no overlap of finalizers, stale deletes,  *)
(* restores and purges makes unfit or infected bytes available.             *)
AvailableIsClean ==
  \A f \in Assets \ reused : row[f].status = "available" => object[f] \in {"clean", "removed"}

(* An available file is announced, or will be at once, unless a finalizer   *)
(* of it died between its save and its event: overlapping finalizers,       *)
(* deletes and restores lose no event, and no other death does.             *)
AvailableIsAnnounced ==
  \A f \in Assets : row[f].status = "available" =>
    \/ f \in announced \cup unsaid
    \/ \E r \in Requests : pc[r] = "saved" /\ arg[r].asset = f

(* The handler's comment: no crash between its save and delivery leaves a   *)
(* file available with no consumer ever told about it.                      *)
CrashLosesNoEvent ==
  \A f \in Assets : row[f].status = "available" =>
    f \in announced \/ \E r \in Requests : pc[r] = "saved" /\ arg[r].asset = f

(* A purged row does not come back: requests that still hold it fail.      *)
PurgedStaysGone ==
  [][\A f \in Assets : row[f].status = "gone" => row'[f].status = "gone"]_vars

(* Only a purge job takes the bytes of a file from under its finalized row: *)
(* a finalizer that rejects and one that accepts never disagree about the   *)
(* same bytes, unless they were replaced between their reads.               *)
OnlyJobsTakeBytes ==
  [][\A f \in Assets \ reused' :
       row[f].status \in Final /\ object[f] \in Contents /\ object'[f] = "removed" =>
         \E j \in Jobs : f \in left[j]]_vars

(* No orphan stays: an upload that is not finalized in time is purged in   *)
(* the end, trashed or not, although jobs die and bytes cannot be removed. *)
NoOrphanStays ==
  \A f \in Assets : row[f].status = "pending" ~> row[f].status # "pending"

(* What is in the trash for longer than the retention is purged in the end *)
(* unless it is restored.                                                  *)
TrashIsEmptied == \A f \in Assets : row[f].deleted ~> ~row[f].deleted

(* The two jobs between them leave nothing behind, whatever dies. *)
LeftoversArePurged == NoOrphanStays /\ TrashIsEmptied
=============================================================================
