----------------------------- MODULE FormsProofs -----------------------------
(***************************************************************************)
(* Theorems about Forms for every number of templates, instances, requests *)
(* and versions.                                                           *)
(***************************************************************************)
EXTENDS Forms, FiniteSetTheorems, TLAPS

(* What a request knows stays true while others run: a number it read is   *)
(* at most one above a published one, and the instance it checked stays    *)
(* bound to its version.                                                   *)
Remembered(r) ==
  /\ pc[r] = "creating" => arg[r].template \in Slugs
  /\ pc[r] \in {"publishing", "flipped"} =>
       /\ arg[r].template \in Slugs
       /\ arg[r].number \in 1..MaxVersion
       /\ arg[r].number = 1 \/
            [template |-> arg[r].template, number |-> arg[r].number - 1] \in versions
  /\ pc[r] = "scheduling" => arg[r].version \in Version
  /\ pc[r] \in {"submitting", "closed"} =>
       /\ arg[r].instance \in Instances
       /\ arg[r].prior \in 0..MaxSubmissions
       /\ arg[r].version \in Version
       /\ instance[arg[r].instance].version = arg[r].version
       /\ instance[arg[r].instance].status # "none"
  /\ pc[r] = "closed" => instance[arg[r].instance].status \in Terminal
  /\ pc[r] \in {"completing", "skipping"} =>
       arg[r].instance \in Instances /\ instance[arg[r].instance].status # "none"

Memory == \A r \in Requests : Remembered(r)

IInv ==
  /\ TypeOK
  /\ Memory
  /\ IsFiniteSet(submissions)
  /\ NumbersGapFree
  /\ CurrentIsLatest
  /\ SubmittedIsClosed
  /\ SubmissionFitsInstance
  /\ CompletedAtFitsStatus

(* A step of one request moves nobody else's program counter or memory *)
LEMMA EnterMoves ==
  ASSUME IInv, NEW r \in Requests, NEW s \in Steps, NEW a, Enter(r, s, a)
  PROVE  /\ pc' \in [Requests -> Steps] /\ DOMAIN arg' = Requests
         /\ pc'[r] = s /\ arg'[r] = a
         /\ \A q \in Requests \ {r} : pc'[q] = pc[q] /\ arg'[q] = arg[q]
BY DEF IInv, TypeOK, Enter

LEMMA LeaveMoves ==
  ASSUME IInv, NEW r \in Requests, Leave(r)
  PROVE  /\ pc' \in [Requests -> Steps] /\ DOMAIN arg' = Requests
         /\ pc'[r] = "idle"
         /\ \A q \in Requests \ {r} : pc'[q] = pc[q] /\ arg'[q] = arg[q]
BY DEF IInv, TypeOK, Leave, Steps

(* Requests keep what they remember while versions are only added and      *)
(* instances neither disappear, nor are bound anew, nor are reopened.      *)
LEMMA MemoryKept ==
  ASSUME IInv, NEW r \in Requests, pc'[r] = pc[r], arg'[r] = arg[r],
         versions \subseteq versions',
         \A i \in Instances : instance[i].status # "none" =>
           /\ instance'[i].version = instance[i].version
           /\ instance'[i].status # "none"
           /\ instance[i].status \in Terminal => instance'[i].status \in Terminal
  PROVE  Remembered(r)'
BY DEF IInv, Memory, Remembered

(* Steps that leave the tables alone *)
LEMMA TablesKept ==
  ASSUME IInv, UNCHANGED tables
  PROVE  /\ TypeOK' <=> (pc' \in [Requests -> Steps] /\ DOMAIN arg' = Requests)
         /\ IsFiniteSet(submissions)' /\ NumbersGapFree' /\ CurrentIsLatest'
         /\ SubmittedIsClosed' /\ SubmissionFitsInstance' /\ CompletedAtFitsStatus'
BY DEF IInv, TypeOK, tables, NumbersGapFree, CurrentIsLatest, VersionsOf, SubmittedIsClosed,
       SubmissionFitsInstance, CompletedAtFitsStatus

(* A request enters its handler or dies *)
LEMMA EnterStep ==
  ASSUME IInv, NEW r \in Requests, NEW s \in Steps, NEW a, Enter(r, s, a), UNCHANGED tables,
         Remembered(r)'
  PROVE  IInv'
<1>1. TypeOK'
  BY EnterMoves, TablesKept
<1>2. Memory'
  <2> SUFFICES ASSUME NEW q \in Requests, q # r PROVE Remembered(q)'
    BY DEF Memory
  <2> QED
    BY EnterMoves, MemoryKept DEF tables
<1> QED
  BY <1>1, <1>2, TablesKept DEF IInv

LEMMA DieStep ==
  ASSUME IInv, NEW r \in Requests, Die(r)
  PROVE  IInv'
<1>1. Leave(r) /\ UNCHANGED tables
  BY DEF Die
<1>2. TypeOK'
  BY <1>1, LeaveMoves, TablesKept
<1>3. Memory'
  <2> SUFFICES ASSUME NEW q \in Requests PROVE Remembered(q)'
    BY DEF Memory
  <2>1. CASE q = r
    BY <1>1, <2>1, LeaveMoves DEF Remembered
  <2>2. CASE q # r
    BY <1>1, <2>2, LeaveMoves, MemoryKept DEF tables
  <2> QED
    BY <2>1, <2>2
<1> QED
  BY <1>1, <1>2, <1>3, TablesKept DEF IInv
-----------------------------------------------------------------------------
(* One lemma per action that enters a handler or writes a table *)
LEMMA CreateTemplateStep ==
  ASSUME IInv, NEW r \in Requests, NEW t \in Slugs, CreateTemplate(r, t)
  PROVE  IInv'
<1>1. Enter(r, "creating", [template |-> t]) /\ UNCHANGED tables
  BY DEF CreateTemplate
<1>2. Remembered(r)'
  BY <1>1, EnterMoves DEF Remembered, Steps
<1> QED
  BY <1>1, <1>2, EnterStep DEF Steps

LEMMA ReadMaxVersionStep ==
  ASSUME IInv, NEW r \in Requests, NEW t \in Slugs, NEW n \in 1..MaxVersion, ReadMaxVersion(r, t, n)
  PROVE  IInv'
<1>1. Enter(r, "publishing", [template |-> t, number |-> n]) /\ UNCHANGED tables
  BY DEF ReadMaxVersion
<1>2. n = 1 \/ [template |-> t, number |-> n - 1] \in versions
  <2> SUFFICES ASSUME NEW w \in VersionsOf(t), w.number = n - 1
               PROVE  w = [template |-> t, number |-> n - 1]
    BY DEF ReadMaxVersion, IsNext, VersionsOf
  <2> QED
    BY DEF VersionsOf, IInv, TypeOK, Version
<1>3. pc'[r] = "publishing" /\ arg'[r] = [template |-> t, number |-> n]
  BY <1>1, EnterMoves DEF Steps
<1>4. Remembered(r)'
  BY <1>1, <1>2, <1>3 DEF Remembered, tables
<1> QED
  BY <1>1, <1>4, EnterStep DEF Steps

LEMMA ReadVersionStep ==
  ASSUME IInv, NEW r \in Requests, NEW v \in Version, ReadVersion(r, v)
  PROVE  IInv'
<1>1. Enter(r, "scheduling", [version |-> v]) /\ UNCHANGED tables
  BY DEF ReadVersion
<1>2. Remembered(r)'
  BY <1>1, EnterMoves DEF Remembered, Steps
<1> QED
  BY <1>1, <1>2, EnterStep DEF Steps

LEMMA AcceptSubmissionStep ==
  ASSUME IInv, NEW r \in Requests, NEW i \in Instances, NEW v \in Version, NEW prior \in 0..MaxSubmissions,
         AcceptSubmission(r, i, v, prior)
  PROVE  IInv'
<1> DEFINE a == [instance |-> i, version |-> v, prior |-> prior]
<1>1. Enter(r, "submitting", a) /\ UNCHANGED tables
  BY DEF AcceptSubmission
<1>2. pc'[r] = "submitting" /\ arg'[r] = a
  BY <1>1, EnterMoves DEF Steps
<1>3. instance[i].version = v /\ instance[i].status # "none"
  BY DEF AcceptSubmission, Open
<1>4. Remembered(r)'
  BY <1>1, <1>2, <1>3 DEF Remembered, tables
<1> QED
  BY <1>1, <1>4, EnterStep DEF Steps

LEMMA ReadStatusStep ==
  ASSUME IInv, NEW r \in Requests, NEW i \in Instances, NEW s \in {"completing", "skipping"}, ReadStatus(r, i, s)
  PROVE  IInv'
<1>1. Enter(r, s, [instance |-> i]) /\ UNCHANGED tables
  BY DEF ReadStatus
<1>2. pc'[r] = s /\ arg'[r] = [instance |-> i] /\ s \in Steps
  BY <1>1, EnterMoves DEF Steps
<1>3. instance[i].status # "none"
  BY DEF ReadStatus, Open
<1>4. Remembered(r)'
  BY <1>1, <1>2, <1>3 DEF Remembered, tables
<1> QED
  BY <1>1, <1>2, <1>4, EnterStep

LEMMA SaveTemplateStep ==
  ASSUME IInv, NEW r \in Requests, SaveTemplate(r)
  PROVE  IInv'
<1>1. Leave(r) /\ UNCHANGED <<versions, current, instance, submissions>>
  BY DEF SaveTemplate
<1>2. TypeOK'
  BY <1>1, LeaveMoves DEF IInv, TypeOK, SaveTemplate, Memory, Remembered
<1>3. Memory'
  <2> SUFFICES ASSUME NEW q \in Requests PROVE Remembered(q)'
    BY DEF Memory
  <2>1. CASE q = r
    BY <1>1, <2>1, LeaveMoves DEF Remembered
  <2>2. CASE q # r
    BY <1>1, <2>2, LeaveMoves, MemoryKept
  <2> QED
    BY <2>1, <2>2
<1>4. /\ IsFiniteSet(submissions)' /\ NumbersGapFree' /\ CurrentIsLatest'
      /\ SubmittedIsClosed' /\ SubmissionFitsInstance' /\ CompletedAtFitsStatus'
  BY <1>1 DEF IInv, NumbersGapFree, CurrentIsLatest, VersionsOf, SubmittedIsClosed,
              SubmissionFitsInstance, CompletedAtFitsStatus
<1> QED
  BY <1>2, <1>3, <1>4 DEF IInv

LEMMA FlipCurrentStep ==
  ASSUME IInv, NEW r \in Requests, FlipCurrent(r)
  PROVE  IInv'
<1>1. /\ pc' \in [Requests -> Steps] /\ pc'[r] = "flipped" /\ pc[r] = "publishing"
      /\ \A q \in Requests \ {r} : pc'[q] = pc[q]
      /\ current' \subseteq current /\ UNCHANGED <<templates, versions, instance, submissions, arg>>
  BY DEF FlipCurrent, IInv, TypeOK, Steps
<1>2. TypeOK'
  BY <1>1 DEF IInv, TypeOK
<1>3. Memory'
  <2> SUFFICES ASSUME NEW q \in Requests PROVE Remembered(q)'
    BY DEF Memory
  <2>1. CASE q = r
    BY <1>1, <2>1 DEF IInv, Memory, Remembered
  <2>2. CASE q # r
    BY <1>1, <2>2, MemoryKept
  <2> QED
    BY <2>1, <2>2
<1>4. CurrentIsLatest'
  BY <1>1 DEF IInv, CurrentIsLatest, VersionsOf
<1>5. /\ IsFiniteSet(submissions)' /\ NumbersGapFree'
      /\ SubmittedIsClosed' /\ SubmissionFitsInstance' /\ CompletedAtFitsStatus'
  BY <1>1 DEF IInv, NumbersGapFree, SubmittedIsClosed, SubmissionFitsInstance,
              CompletedAtFitsStatus
<1> QED
  BY <1>2, <1>3, <1>4, <1>5 DEF IInv

(* The insert: a number that is not refused is above every other one,      *)
(* since the numbers have no gap.                                          *)
LEMMA InsertVersionStep ==
  ASSUME IInv, NEW r \in Requests, InsertVersion(r)
  PROVE  IInv'
<1> DEFINE v == [template |-> arg[r].template, number |-> arg[r].number]
<1>1. /\ pc[r] = "flipped" /\ Leave(r) /\ UNCHANGED <<templates, instance, submissions>>
      /\ arg[r].template \in Slugs /\ arg[r].number \in 1..MaxVersion
      /\ arg[r].number = 1 \/
           [template |-> arg[r].template, number |-> arg[r].number - 1] \in versions
  BY DEF InsertVersion, IInv, Memory, Remembered
<1>2. v \in Version
  BY <1>1 DEF Version
<1>3. versions \subseteq versions'
  BY DEF InsertVersion
<1>4. Memory'
  <2> SUFFICES ASSUME NEW q \in Requests PROVE Remembered(q)'
    BY DEF Memory
  <2>1. CASE q = r
    BY <1>1, <2>1, LeaveMoves DEF Remembered
  <2>2. CASE q # r
    BY <1>1, <1>3, <2>2, LeaveMoves, MemoryKept
  <2> QED
    BY <2>1, <2>2
<1>5. /\ IsFiniteSet(submissions)' /\ SubmittedIsClosed' /\ SubmissionFitsInstance'
      /\ CompletedAtFitsStatus'
  BY <1>1 DEF IInv, SubmittedIsClosed, SubmissionFitsInstance, CompletedAtFitsStatus
<1>6. TypeOK' /\ NumbersGapFree' /\ CurrentIsLatest'
  <2>1. CASE Refused(v)
    <3>1. UNCHANGED <<versions, current>>
      BY <2>1 DEF InsertVersion
    <3> QED
      BY <1>1, <3>1, LeaveMoves
      DEF IInv, TypeOK, NumbersGapFree, CurrentIsLatest, VersionsOf
  <2>2. CASE ~Refused(v)
    <3>1. /\ versions' = versions \cup {v} /\ current' = current \cup {v}
          /\ v \notin versions /\ VersionsOf(v.template) \cap current = {}
      BY <2>2 DEF InsertVersion, Refused
    <3>2. TypeOK'
      BY <1>1, <1>2, <3>1, LeaveMoves DEF IInv, TypeOK
    <3>3. NumbersGapFree'
      <4> SUFFICES ASSUME NEW w \in versions', NEW n \in 1..(w.number - 1)
                   PROVE  [template |-> w.template, number |-> n] \in versions'
        BY DEF NumbersGapFree
      <4>1. CASE w \in versions
        BY <4>1, <3>1 DEF IInv, NumbersGapFree
      <4>2. CASE w = v
        <5> DEFINE u == [template |-> v.template, number |-> v.number - 1]
        <5>1. v.number \in 1..MaxVersion /\ v.number # 1 /\ u \in versions
          BY <1>1, <4>2, FormsAssumption DEF FormsAssumption
        <5>2. n = v.number - 1 \/ n \in 1..(u.number - 1)
          BY <4>2, <5>1, FormsAssumption DEF FormsAssumption
        <5> QED
          BY <3>1, <4>2, <5>1, <5>2 DEF IInv, NumbersGapFree
      <4> QED
        BY <3>1, <4>1, <4>2
    <3>4. CurrentIsLatest'
      <4> SUFFICES ASSUME NEW c \in current', NEW w \in versions', w.template = c.template
                   PROVE  w.number <= c.number
        BY DEF CurrentIsLatest, VersionsOf
      <4>1. versions \subseteq Version /\ current \subseteq versions
        BY DEF IInv, TypeOK
      <4>2. CASE c \in current
        BY <3>1, <4>1, <4>2 DEF IInv, CurrentIsLatest, VersionsOf
      <4>3. CASE c = v
        <5>1. CASE w = v
          BY <1>2, <4>3, <5>1, FormsAssumption DEF Version, FormsAssumption
        <5>2. CASE w \in versions
          <6>1. SUFFICES ASSUME v.number < w.number PROVE FALSE
            BY <1>2, <4>1, <4>3, <5>2, FormsAssumption DEF Version, FormsAssumption
          <6>2. v.number \in 1..(w.number - 1)
            BY <1>2, <4>1, <5>2, <6>1, FormsAssumption DEF Version, FormsAssumption
          <6>3. [template |-> w.template, number |-> v.number] \in versions
            BY <5>2, <6>2 DEF IInv, NumbersGapFree
          <6> QED
            BY <3>1, <4>3, <6>3
        <5> QED
          BY <3>1, <5>1, <5>2
      <4> QED
        BY <3>1, <4>2, <4>3
    <3> QED
      BY <3>2, <3>3, <3>4
  <2> QED
    BY <2>1, <2>2
<1> QED
  BY <1>4, <1>5, <1>6 DEF IInv

LEMMA ScheduleStep ==
  ASSUME IInv, NEW r \in Requests, NEW i \in Instances, Schedule(r, i)
  PROVE  IInv'
<1> DEFINE x == [status |-> "Planned", version |-> arg[r].version, completedAt |-> FALSE]
<1>1. /\ Leave(r) /\ UNCHANGED <<templates, versions, current, submissions>>
      /\ instance[i].status = "none" /\ instance' = [instance EXCEPT ![i] = x]
      /\ arg[r].version \in Version
  BY DEF Schedule, IInv, Memory, Remembered
<1>2. /\ instance'[i] = x
      /\ \A j \in Instances \ {i} : instance'[j] = instance[j]
  BY <1>1 DEF IInv, TypeOK
<1>3. TypeOK'
  BY <1>1, LeaveMoves DEF IInv, TypeOK, Statuses
<1>4. Memory'
  <2> SUFFICES ASSUME NEW q \in Requests PROVE Remembered(q)'
    BY DEF Memory
  <2>1. CASE q = r
    BY <1>1, <2>1, LeaveMoves DEF Remembered
  <2>2. CASE q # r
    BY <1>1, <1>2, <2>2, LeaveMoves, MemoryKept
  <2> QED
    BY <2>1, <2>2
<1>5. \A s \in submissions : s.instance \in Instances \ {i}
  BY <1>1 DEF IInv, TypeOK, Submission, SubmittedIsClosed, Terminal
<1>6. SubmittedIsClosed' /\ SubmissionFitsInstance'
  BY <1>1, <1>2, <1>5 DEF IInv, SubmittedIsClosed, SubmissionFitsInstance
<1>7. CompletedAtFitsStatus'
  BY <1>2 DEF IInv, CompletedAtFitsStatus
<1>8. IsFiniteSet(submissions)' /\ NumbersGapFree' /\ CurrentIsLatest'
  BY <1>1 DEF IInv, NumbersGapFree, CurrentIsLatest, VersionsOf
<1> QED
  BY <1>3, <1>4, <1>6, <1>7, <1>8 DEF IInv

(* Closing an instance keeps every fact about the others and its binding   *)
LEMMA CloseKeeps ==
  ASSUME IInv, NEW i \in Instances, NEW status \in Terminal, instance[i].status # "none",
         Close(i, status), UNCHANGED <<submissions, versions, current>>
  PROVE  /\ instance' \in [Instances -> [status : Statuses, version : Version \cup {NoVersion},
                                         completedAt : BOOLEAN]]
         /\ instance'[i].status = status
         /\ \A j \in Instances : instance[j].status # "none" =>
              /\ instance'[j].version = instance[j].version
              /\ instance'[j].status # "none"
              /\ instance[j].status \in Terminal => instance'[j].status \in Terminal
         /\ IsFiniteSet(submissions)' /\ NumbersGapFree' /\ CurrentIsLatest'
         /\ SubmittedIsClosed' /\ SubmissionFitsInstance' /\ CompletedAtFitsStatus'
<1> DEFINE x == [instance[i] EXCEPT !.status = status, !.completedAt = (status = "Completed")]
<1>1. /\ instance \in [Instances -> [status : Statuses, version : Version \cup {NoVersion},
                                     completedAt : BOOLEAN]]
      /\ submissions \subseteq Submission
  BY DEF IInv, TypeOK
<1>2. /\ x \in [status : Statuses, version : Version \cup {NoVersion}, completedAt : BOOLEAN]
      /\ x.status = status /\ x.version = instance[i].version
      /\ x.completedAt = (status = "Completed")
  BY <1>1 DEF Terminal, Statuses
<1>3. instance' = [instance EXCEPT ![i] = x]
  BY <1>1 DEF Close
<1>4. instance'[i] = x /\ \A j \in Instances \ {i} : instance'[j] = instance[j]
  BY <1>1, <1>3
<1>5. \A j \in Instances : instance[j].status # "none" =>
        /\ instance'[j].version = instance[j].version
        /\ instance'[j].status # "none"
        /\ instance[j].status \in Terminal => instance'[j].status \in Terminal
  BY <1>2, <1>4 DEF Terminal
<1>6. SubmittedIsClosed' /\ SubmissionFitsInstance'
  <2> SUFFICES ASSUME NEW s \in submissions
               PROVE  /\ instance'[s.instance].status \in Terminal
                      /\ instance'[s.instance].version = s.version
    BY DEF SubmittedIsClosed, SubmissionFitsInstance
  <2>1. /\ s.instance \in Instances /\ instance[s.instance].status \in Terminal
        /\ instance[s.instance].version = s.version
    BY <1>1 DEF IInv, SubmittedIsClosed, SubmissionFitsInstance, Submission
  <2> QED
    BY <1>5, <2>1 DEF Terminal
<1>7. CompletedAtFitsStatus'
  <2> SUFFICES ASSUME NEW j \in Instances
               PROVE  instance'[j].completedAt <=> instance'[j].status = "Completed"
    BY DEF CompletedAtFitsStatus
  <2>1. CASE j = i
    <3>1. x.completedAt <=> x.status = "Completed"
      <4> HIDE DEF x
      <4> QED
        BY <1>2, ZenonT(30)
    <3> QED
      BY <1>4, <2>1, <3>1
  <2>2. CASE j # i
    <3>1. instance'[j] = instance[j]
      BY <1>4, <2>2
    <3> QED
      BY <3>1 DEF IInv, CompletedAtFitsStatus
  <2> QED
    BY <2>1, <2>2
<1>8. IsFiniteSet(submissions)' /\ NumbersGapFree' /\ CurrentIsLatest'
  BY DEF IInv, NumbersGapFree, CurrentIsLatest, VersionsOf
<1> QED
  BY <1>1, <1>2, <1>3, <1>4, <1>5, <1>6, <1>7, <1>8

LEMMA CloseSubmittedStep ==
  ASSUME IInv, NEW r \in Requests, CloseSubmitted(r)
  PROVE  IInv'
<1>1. /\ pc[r] = "submitting" /\ pc' = [pc EXCEPT ![r] = "closed"]
      /\ UNCHANGED <<templates, versions, current, submissions, arg>>
      /\ Close(arg[r].instance, "Completed") /\ "Completed" \in Terminal
      /\ arg[r].instance \in Instances /\ instance[arg[r].instance].status # "none"
  BY DEF CloseSubmitted, IInv, Memory, Remembered, Terminal
<1>2. /\ pc' \in [Requests -> Steps] /\ pc'[r] = "closed"
      /\ \A q \in Requests \ {r} : pc'[q] = pc[q]
  BY <1>1 DEF IInv, TypeOK, Steps
<1>3. TypeOK'
  BY <1>1, <1>2, CloseKeeps DEF IInv, TypeOK
<1>4. Memory'
  <2> SUFFICES ASSUME NEW q \in Requests PROVE Remembered(q)'
    BY DEF Memory
  <2>1. CASE q = r
    <3>1. /\ instance'[arg[r].instance].version = instance[arg[r].instance].version
          /\ instance'[arg[r].instance].status = "Completed"
      BY <1>1, CloseKeeps
    <3>2. Remembered(r) /\ arg' = arg
      BY <1>1 DEF IInv, Memory
    <3> QED
      BY <1>1, <1>2, <2>1, <3>1, <3>2 DEF Remembered
  <2>2. CASE q # r
    BY <1>1, <1>2, <2>2, CloseKeeps, MemoryKept
  <2> QED
    BY <2>1, <2>2
<1> QED
  BY <1>1, <1>3, <1>4, CloseKeeps DEF IInv

LEMMA WriteStatusStep ==
  ASSUME IInv, NEW r \in Requests, NEW s \in {"completing", "skipping"}, NEW status \in Terminal,
         WriteStatus(r, s, status)
  PROVE  IInv'
<1>1. /\ Leave(r) /\ UNCHANGED <<templates, versions, current, submissions>>
      /\ Close(arg[r].instance, status)
      /\ arg[r].instance \in Instances /\ instance[arg[r].instance].status # "none"
  BY DEF WriteStatus, IInv, Memory, Remembered
<1>2. TypeOK'
  BY <1>1, CloseKeeps, LeaveMoves DEF IInv, TypeOK
<1>3. Memory'
  <2> SUFFICES ASSUME NEW q \in Requests PROVE Remembered(q)'
    BY DEF Memory
  <2>1. CASE q = r
    BY <1>1, <2>1, LeaveMoves DEF Remembered
  <2>2. CASE q # r
    BY <1>1, <2>2, CloseKeeps, LeaveMoves, MemoryKept
  <2> QED
    BY <2>1, <2>2
<1> QED
  BY <1>1, <1>2, <1>3, CloseKeeps DEF IInv

LEMMA InsertSubmissionStep ==
  ASSUME IInv, NEW r \in Requests, InsertSubmission(r)
  PROVE  IInv'
<1> DEFINE s == [id |-> Cardinality(submissions) + 1, instance |-> arg[r].instance,
                 version |-> arg[r].version, compensates |-> arg[r].prior]
<1>1. /\ Leave(r) /\ UNCHANGED <<templates, versions, current, instance>>
      /\ submissions' = submissions \cup {s} /\ Cardinality(submissions) < MaxSubmissions
      /\ arg[r].instance \in Instances /\ arg[r].prior \in 0..MaxSubmissions
      /\ arg[r].version \in Version
      /\ instance[arg[r].instance].version = arg[r].version
      /\ instance[arg[r].instance].status \in Terminal
  BY DEF InsertSubmission, IInv, Memory, Remembered
<1>2. s \in Submission
  <2>1. Cardinality(submissions) \in Nat
    BY FS_CardinalityType DEF IInv
  <2>2. Cardinality(submissions) + 1 \in 1..MaxSubmissions
    BY <1>1, <2>1, FormsAssumption DEF FormsAssumption
  <2> QED
    BY <1>1, <2>2 DEF Submission
<1>3. TypeOK'
  BY <1>1, <1>2, LeaveMoves DEF IInv, TypeOK
<1>4. Memory'
  <2> SUFFICES ASSUME NEW q \in Requests PROVE Remembered(q)'
    BY DEF Memory
  <2>1. CASE q = r
    BY <1>1, <2>1, LeaveMoves DEF Remembered
  <2>2. CASE q # r
    BY <1>1, <2>2, LeaveMoves, MemoryKept
  <2> QED
    BY <2>1, <2>2
<1>5. IsFiniteSet(submissions)'
  BY <1>1, FS_AddElement DEF IInv
<1>6. SubmittedIsClosed' /\ SubmissionFitsInstance'
  BY <1>1 DEF IInv, SubmittedIsClosed, SubmissionFitsInstance
<1>7. NumbersGapFree' /\ CurrentIsLatest' /\ CompletedAtFitsStatus'
  BY <1>1 DEF IInv, NumbersGapFree, CurrentIsLatest, VersionsOf, CompletedAtFitsStatus
<1> QED
  BY <1>3, <1>4, <1>5, <1>6, <1>7 DEF IInv
-----------------------------------------------------------------------------
LEMMA Initially == Init => IInv
<1> SUFFICES ASSUME Init PROVE IInv
  OBVIOUS
<1>1. TypeOK
  BY DEF Init, TypeOK, NoInstance, NoVersion, Statuses, Steps
<1>2. Memory
  BY DEF Init, Memory, Remembered
<1>3. CompletedAtFitsStatus
  BY DEF Init, CompletedAtFitsStatus, NoInstance
<1>4. IsFiniteSet(submissions)
  BY FS_EmptySet DEF Init
<1>5. NumbersGapFree /\ CurrentIsLatest /\ SubmittedIsClosed /\ SubmissionFitsInstance
  BY DEF Init, NumbersGapFree, CurrentIsLatest, SubmittedIsClosed, SubmissionFitsInstance
<1> QED
  BY <1>1, <1>2, <1>3, <1>4, <1>5 DEF IInv

LEMMA EveryStep == IInv /\ [Next]_vars => IInv'
<1> SUFFICES ASSUME IInv, [Next]_vars PROVE IInv'
  OBVIOUS
<1>1. CASE UNCHANGED vars
  <2>1. Memory' /\ UNCHANGED tables /\ UNCHANGED <<pc, arg>>
    BY <1>1 DEF vars, tables, IInv, Memory, Remembered
  <2> QED
    BY <2>1, TablesKept DEF IInv, TypeOK
<1>2. CASE Next
  <2>1. PICK r \in Requests :
          \/ \E t \in Slugs : CreateTemplate(r, t)
          \/ \E t \in Slugs, n \in 1..MaxVersion : ReadMaxVersion(r, t, n)
          \/ SaveTemplate(r) \/ FlipCurrent(r) \/ InsertVersion(r)
          \/ \E v \in Version : ReadVersion(r, v)
          \/ \E i \in Instances : Schedule(r, i)
          \/ \E i \in Instances, v \in Version, prior \in 0..MaxSubmissions :
               AcceptSubmission(r, i, v, prior)
          \/ CloseSubmitted(r) \/ InsertSubmission(r)
          \/ \E i \in Instances : ReadStatus(r, i, "completing") \/ ReadStatus(r, i, "skipping")
          \/ WriteStatus(r, "completing", "Completed") \/ WriteStatus(r, "skipping", "Skipped")
          \/ Die(r)
    BY <1>2 DEF Next
  <2>2. "Completed" \in Terminal /\ "Skipped" \in Terminal
    BY DEF Terminal
  <2> QED
    BY <2>1, <2>2, CreateTemplateStep, ReadMaxVersionStep, SaveTemplateStep, FlipCurrentStep,
       InsertVersionStep, ReadVersionStep, ScheduleStep, AcceptSubmissionStep,
       CloseSubmittedStep, InsertSubmissionStep, ReadStatusStep, WriteStatusStep, DieStep
<1> QED
  BY <1>1, <1>2

LEMMA FormsInvariant == Spec => []IInv
BY Initially, EveryStep, PTL DEF Spec

(* Every variable keeps its type.                                          *)
THEOREM FormsTypeCorrect == Spec => []TypeOK
<1>1. IInv => TypeOK
  BY DEF IInv
<1> QED
  BY <1>1, FormsInvariant, PTL

(* Concurrent publishers, whichever of them lose the race or die, number   *)
(* the versions of a template without a gap, and what is current is the    *)
(* latest version: the two unique indexes of FormVersionConfiguration are  *)
(* all that is needed, although the flip and the insert commit separately. *)
THEOREM PublishingIsOrdered == Spec => []VersionsInOrder
<1>1. IInv => VersionsInOrder
  BY DEF IInv, VersionsInOrder
<1> QED
  BY <1>1, FormsInvariant, PTL

(* However the handlers that close instances overlap, a stored submission  *)
(* belongs to a closed instance and was filled against its version, and    *)
(* CompletedAt is set on completed instances only.                         *)
THEOREM SubmissionsFit == Spec => []InstancesAgree
<1>1. IInv => InstancesAgree
  BY DEF IInv, InstancesAgree
<1> QED
  BY <1>1, FormsInvariant, PTL
=============================================================================
