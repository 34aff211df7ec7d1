----------------------------- MODULE FilesProofs -----------------------------
(***************************************************************************)
(* Theorems about Files for any number of assets, requests and faults.     *)
(***************************************************************************)
EXTENDS Files, TLAPS

Objects == {"none", "removed"} \cup Contents
Arg == [asset : Assets, copy : Row, content : Objects]

(* Types, those of the request's arguments and of the jobs' batches in full *)
Typed ==
  /\ row \in [Assets -> Row]
  /\ object \in [Assets -> Objects]
  /\ overdue \subseteq Assets /\ aged \subseteq Assets /\ announced \subseteq Assets
  /\ reused \subseteq Assets /\ unsaid \subseteq Assets
  /\ usage \in Int
  /\ pc \in [Requests -> Steps]
  /\ arg \in [Requests -> Arg \cup {NoArg}]
  /\ \A r \in Requests : pc[r] # "idle" => arg[r] \in Arg
  /\ job \in [Jobs -> JobSteps]
  /\ batch \in [Jobs -> SUBSET Assets] /\ left \in [Jobs -> SUBSET Assets]
  /\ \A j \in Jobs : left[j] \subseteq batch[j]
  /\ deaths \in 0..MaxDeaths

Clocks(f) == RequestUpload(f) \/ Close(f) \/ Age(f)

LEMMA ActionCases ==
  ASSUME [Next]_vars
  PROVE  \/ \E f \in Assets : Clocks(f) \/ \E content \in Contents : Upload(f, content)
         \/ \E r \in Requests : Handler(r) \/ \E f \in Assets : Finalize(r, f) \/ Delete(r, f) \/ Restore(r, f)
         \/ \E j \in Jobs : JobStep(j) \/ JobDies(j)
         \/ UNCHANGED vars
BY DEF Next, Clocks
-----------------------------------------------------------------------------
(* How a request and a job move *)
LEMMA LoadTyped ==
  ASSUME Typed, NEW r \in Requests, NEW f \in Assets, NEW s \in Steps, NEW kept \in Row,
         Load(r, f, s, kept)
  PROVE  /\ pc' \in [Requests -> Steps] /\ arg' \in [Requests -> Arg \cup {NoArg}]
         /\ pc[r] = "idle" /\ pc'[r] = s
         /\ arg'[r] = [asset |-> f, copy |-> kept, content |-> "none"]
         /\ arg'[r] \in Arg
         /\ \A q \in Requests \ {r} : pc'[q] = pc[q] /\ arg'[q] = arg[q]
<1>1. [asset |-> f, copy |-> kept, content |-> "none"] \in Arg
  BY DEF Arg, Objects
<1> QED
  BY <1>1 DEF Typed, Load

\* What a request does when it begins
LEMMA Loading ==
  ASSUME Typed, NEW r \in Requests, NEW f \in Assets, Finalize(r, f) \/ Delete(r, f) \/ Restore(r, f)
  PROVE  \E s \in {"loaded", "trashing", "restoring"}, kept \in {row[f], Unread} :
           /\ Load(r, f, s, kept)
           /\ s \in Steps /\ kept \in Row
BY DEF Finalize, Delete, Restore, Typed, Steps, Row, Unread

LEMMA GoToTyped ==
  ASSUME Typed, NEW r \in Requests, NEW s \in Steps, GoTo(r, s)
  PROVE  /\ pc' \in [Requests -> Steps] /\ arg' = arg
         /\ pc'[r] = s /\ \A q \in Requests \ {r} : pc'[q] = pc[q]
BY DEF Typed, GoTo

LEMMA EndTyped ==
  ASSUME Typed, NEW r \in Requests, End(r)
  PROVE  /\ pc' \in [Requests -> Steps] /\ arg' \in [Requests -> Arg \cup {NoArg}]
         /\ pc'[r] = "idle"
         /\ \A q \in Requests \ {r} : pc'[q] = pc[q] /\ arg'[q] = arg[q]
BY DEF Typed, End, Steps

LEMMA GoOnTyped ==
  ASSUME Typed, NEW r \in Requests, pc[r] # "idle", NEW s \in Steps, NEW content \in Objects,
         GoOn(r, s, content)
  PROVE  /\ pc' \in [Requests -> Steps] /\ arg' \in [Requests -> Arg \cup {NoArg}]
         /\ pc'[r] = s /\ arg'[r] \in Arg
         /\ arg'[r].asset = arg[r].asset /\ arg'[r].copy = arg[r].copy /\ arg'[r].content = content
         /\ \A q \in Requests \ {r} : pc'[q] = pc[q] /\ arg'[q] = arg[q]
<1>1. arg[r] \in Arg
  BY DEF Typed
<1>2. [arg[r] EXCEPT !.content = content] \in Arg
  BY <1>1 DEF Arg
<1>3. arg'[r] = [arg[r] EXCEPT !.content = content]
  BY DEF Typed, GoOn
<1>4. arg'[r].asset = arg[r].asset /\ arg'[r].copy = arg[r].copy /\ arg'[r].content = content
  BY <1>1, <1>3 DEF Arg
<1> QED
  BY <1>1, <1>2, <1>3, <1>4 DEF Typed, GoOn

\* How a request goes on in each step of a handler
LEMMA HandlerMoves ==
  ASSUME Typed, NEW r \in Requests, Handler(r)
  PROVE  /\ pc[r] # "idle"
         /\ pc' \in [Requests -> Steps] /\ arg' \in [Requests -> Arg \cup {NoArg}]
         /\ pc'[r] # "idle" =>
              arg'[r] \in Arg /\ arg'[r].asset = arg[r].asset /\ arg'[r].copy = arg[r].copy
         /\ \A q \in Requests \ {r} : pc'[q] = pc[q] /\ arg'[q] = arg[q]
<1>1. pc[r] # "idle"
  BY DEF Handler, Head, Scan, Debit, SaveFinalized, Announce, Probe, RemoveRejected,
         SaveTrashed, SaveRestored, Die
<1>2. arg[r] \in Arg /\ arg[r].asset \in Assets /\ object[arg[r].asset] \in Objects /\ "none" \in Objects
  BY <1>1 DEF Typed, Arg, Objects
<1>3. \/ \E s \in Steps : GoTo(r, s)
      \/ \E s \in Steps, content \in Objects : GoOn(r, s, content)
      \/ End(r)
  <2>1. CASE Head(r) \/ Debit(r)
    BY <2>1 DEF Head, Debit, Steps
  <2>2. CASE Scan(r) \/ Probe(r)
    BY <1>2, <2>2 DEF Scan, Probe, Steps
  <2>3. CASE SaveFinalized(r) \/ RemoveRejected(r)
    BY <1>2, <2>3 DEF SaveFinalized, RemoveRejected, Steps
  <2>4. CASE Announce(r) \/ SaveTrashed(r) \/ SaveRestored(r) \/ Die(r)
    BY <2>4 DEF Announce, SaveTrashed, SaveRestored, Die
  <2> QED
    BY <2>1, <2>2, <2>3, <2>4 DEF Handler
<1> QED
  BY <1>1, <1>2, <1>3, GoToTyped, GoOnTyped, EndTyped DEF Typed

LEMMA SaveTyped ==
  ASSUME Typed, NEW f \in Assets, NEW new \in Row, Save(f, new)
  PROVE  /\ row' \in [Assets -> Row]
         /\ row'[f] = IF Stored(f) THEN new ELSE row[f]
         /\ \A g \in Assets \ {f} : row'[g] = row[g]
BY DEF Typed, Save

LEMMA JobEndTyped ==
  ASSUME Typed, NEW j \in Jobs, JobEnd(j)
  PROVE  /\ job' \in [Jobs -> JobSteps]
         /\ batch' \in [Jobs -> SUBSET Assets] /\ left' \in [Jobs -> SUBSET Assets]
         /\ \A k \in Jobs : left'[k] \subseteq batch'[k]
BY DEF Typed, JobEnd, JobSteps
-----------------------------------------------------------------------------
LEMMA HandlerTyped ==
  ASSUME Typed, NEW r \in Requests, Handler(r)
  PROVE  Typed'
<1> USE FilesAssumption
<1>1. arg[r] \in Arg /\ arg[r].asset \in Assets /\ arg[r].copy \in Row
  BY HandlerMoves DEF Typed, Arg
<1>2. /\ pc' \in [Requests -> Steps] /\ arg' \in [Requests -> Arg \cup {NoArg}]
      /\ \A q \in Requests : pc'[q] # "idle" => arg'[q] \in Arg
  BY HandlerMoves DEF Typed
<1>3. /\ overdue' = overdue /\ aged' \subseteq aged /\ UNCHANGED <<jobs, reused>>
  BY DEF Handler, Head, Scan, Debit, SaveFinalized, Announce, Probe, RemoveRejected,
         SaveTrashed, SaveRestored, Die, stores, history
<1>4. /\ announced' \subseteq announced \cup {arg[r].asset}
      /\ unsaid' \subseteq unsaid \cup {arg[r].asset}
      /\ usage' \in {usage, usage - 1, usage + 1}
      /\ deaths' = deaths \/ (deaths < MaxDeaths /\ deaths' = deaths + 1)
      /\ object' \in {object, [object EXCEPT ![arg[r].asset] = "removed"]}
  BY DEF Handler, Head, Scan, Debit, SaveFinalized, Announce, Probe, RemoveRejected,
         SaveTrashed, SaveRestored, Die, stores, history
<1>5. row' \in [Assets -> Row]
  <2>1. CASE SaveFinalized(r)
    BY <1>1, <2>1, SaveTyped DEF SaveFinalized, Typed, Row, Final
  <2>2. CASE SaveTrashed(r)
    BY <1>1, <2>2, SaveTyped DEF SaveTrashed, Row
  <2>3. CASE SaveRestored(r)
    BY <1>1, <2>3, SaveTyped DEF SaveRestored, Typed, Row
  <2> QED
    BY <2>1, <2>2, <2>3 DEF Handler, Head, Scan, Debit, Announce, Probe, RemoveRejected, Die, stores, Typed
<1>6. object' \in [Assets -> Objects]
  BY <1>4 DEF Typed, Objects
<1>7. usage' \in Int /\ deaths' \in 0..MaxDeaths
  BY <1>4 DEF Typed
<1> QED
  BY <1>1, <1>2, <1>3, <1>4, <1>5, <1>6, <1>7 DEF Typed, jobs

LEMMA JobTyped ==
  ASSUME Typed, NEW j \in Jobs, JobStep(j) \/ JobDies(j)
  PROVE  Typed'
<1> USE FilesAssumption DEF stores, requests, history
<1>1. CASE JobRead(j)
  <2>1. Candidates(j) \subseteq Assets
    BY DEF Candidates, Typed
  <2> QED
    BY <1>1, <2>1 DEF Typed, JobRead, JobSteps
<1>2. ASSUME NEW f \in Assets, JobRemove(j, f) PROVE Typed'
  <2>1. object' \in [Assets -> Objects]
    BY <1>2 DEF Typed, JobRemove, Without, Objects
  <2>2. /\ left' \in [Jobs -> SUBSET Assets]
        /\ \A k \in Jobs : left'[k] \subseteq batch[k]
    BY <1>2 DEF Typed, JobRemove
  <2> QED
    BY <1>2, <2>1, <2>2 DEF Typed, JobRemove
<1>5. CASE JobPurge(j)
  <2>1. row' \in [Assets -> Row]
    BY <1>5 DEF Typed, JobPurge, Row
  <2> QED
    BY <1>5, <2>1, JobEndTyped DEF Typed, JobPurge
<1>6. CASE JobDies(j)
  BY <1>6, JobEndTyped DEF Typed, JobDies
<1> QED
  BY <1>1, <1>2, <1>5, <1>6 DEF JobStep

LEMMA ClockTyped ==
  ASSUME Typed, NEW f \in Assets, Clocks(f) \/ \E content \in Contents : Upload(f, content)
  PROVE  Typed'
<1>1. CASE RequestUpload(f)
  BY <1>1 DEF Typed, RequestUpload, Row, requests, jobs, history
<1>2. CASE Close(f) \/ Age(f)
  BY <1>2 DEF Typed, Close, Age, requests, jobs, history
<1>3. ASSUME NEW content \in Contents, Upload(f, content) PROVE Typed'
  BY <1>3 DEF Typed, Upload, Objects, requests, jobs
<1> QED
  BY <1>1, <1>2, <1>3 DEF Clocks

LEMMA LoadedTyped ==
  ASSUME Typed, NEW r \in Requests, NEW f \in Assets, Finalize(r, f) \/ Delete(r, f) \/ Restore(r, f)
  PROVE  Typed'
<1>1. PICK s \in Steps, kept \in Row : Load(r, f, s, kept)
  BY Loading
<1>2. UNCHANGED <<stores, unsaid, jobs, deaths>>
  BY DEF Finalize, Delete, Restore
<1> QED
  BY <1>1, <1>2, LoadTyped DEF Typed, stores, jobs

LEMMA TypedStep ==
  ASSUME Typed, [Next]_vars
  PROVE  Typed'
<1>1. CASE UNCHANGED vars
  BY <1>1 DEF Typed, vars, history
<1> QED
  BY <1>1, ActionCases, ClockTyped, HandlerTyped, LoadedTyped, JobTyped

LEMMA InitTyped ==
  ASSUME Init
  PROVE  Typed
BY FilesAssumption DEF Init, Typed, Row, Unread, Objects, Steps, JobSteps, Jobs

\* Every variable has its type; in particular a request that is under way has an
\* asset and the row as it read it.
THEOREM TypeCorrect == Spec => []TypeOK
<1>1. Typed => TypeOK
  BY DEF Typed, TypeOK, Objects, Arg
<1> QED
  BY <1>1, InitTyped, TypedStep, PTL DEF Spec
-----------------------------------------------------------------------------
(* The verdict on a file that was not PUT again agrees with its bytes, in the *)
(* table and in every row that a request keeps; a request that is about to    *)
(* accept or to reject such a file has read the bytes that are still there,   *)
(* or have been removed.                                                      *)
Fits(s, o) ==
  /\ s = "available" => o \in {"clean", "removed"}
  /\ s = "quarantined" => o \in {"infected", "removed"}

Sound(r) ==
  pc[r] # "idle" /\ arg[r].asset \notin reused =>
    /\ Fits(arg[r].copy.status, object[arg[r].asset])
    /\ pc[r] \in {"accepted", "scanned", "debited"} =>
         object[arg[r].asset] \in {"clean", "infected", "removed"}
    /\ pc[r] \in {"scanned", "debited"} =>
         /\ arg[r].content \in {"clean", "infected", "removed"}
         /\ object[arg[r].asset] \in {arg[r].content, "removed"}
    /\ pc[r] \in {"rejecting", "probed"} => object[arg[r].asset] \in {"unfit", "removed"}

Verdicts ==
  /\ \A f \in Assets \ reused : Fits(row[f].status, object[f])
  /\ \A r \in Requests : Sound(r)

\* No step but a PUT does anything to the bytes but remove them.
Shrinks == reused' = reused /\ \A f \in Assets : object'[f] \in {object[f], "removed"}

LEMMA Holding ==
  ASSUME Typed, NEW r \in Requests, pc[r] # "idle"
  PROVE  arg[r] \in Arg /\ arg[r].asset \in Assets /\ arg[r].copy \in Row /\ arg[r].content \in Objects
BY DEF Typed, Arg

LEMMA ObjectShrinks ==
  ASSUME Typed, [Next]_vars, ~\E f \in Assets, content \in Contents : Upload(f, content)
  PROVE  Shrinks
<1> USE DEF stores, history
<1>1. ASSUME NEW g \in Assets, Clocks(g) PROVE Shrinks
  BY <1>1 DEF Clocks, RequestUpload, Close, Age, Shrinks
<1>2. ASSUME NEW r \in Requests, Handler(r) PROVE Shrinks
  <2>1. reused' = reused /\ object' \in {object, [object EXCEPT ![arg[r].asset] = "removed"]}
    BY <1>2 DEF Handler, Head, Scan, Debit, SaveFinalized, Announce, Probe, RemoveRejected,
                SaveTrashed, SaveRestored, Die
  <2> QED
    BY <2>1 DEF Shrinks, Typed
<1>3. ASSUME NEW r \in Requests, NEW g \in Assets, Finalize(r, g) \/ Delete(r, g) \/ Restore(r, g)
      PROVE  Shrinks
  BY <1>3 DEF Finalize, Delete, Restore, Shrinks
<1>4. ASSUME NEW j \in Jobs, NEW g \in Assets, JobRemove(j, g) PROVE Shrinks
  BY <1>4 DEF Typed, JobRemove, Without, Shrinks
<1>5. ASSUME NEW j \in Jobs, JobStep(j) \/ JobDies(j), ~\E g \in Assets : JobRemove(j, g)
      PROVE  Shrinks
  BY <1>5 DEF JobStep, JobRead, JobPurge, JobDies, Shrinks
<1>6. CASE UNCHANGED vars
  BY <1>6 DEF vars, Shrinks
<1> QED
  BY <1>1, <1>2, <1>3, <1>4, <1>5, <1>6, ActionCases

LEMMA FitsStays ==
  ASSUME NEW s, NEW f \in Assets, Fits(s, object[f]), Shrinks
  PROVE  Fits(s, object'[f])
BY DEF Fits, Shrinks

LEMMA SoundStays ==
  ASSUME Typed, NEW r \in Requests, Sound(r), pc'[r] = pc[r], arg'[r] = arg[r], Shrinks
  PROVE  Sound(r)'
<1> SUFFICES ASSUME pc[r] # "idle", arg[r].asset \notin reused
             PROVE  Sound(r)'
  BY DEF Sound, Shrinks
<1> DEFINE f == arg[r].asset
<1>1. f \in Assets /\ object'[f] \in {object[f], "removed"}
  BY Holding DEF Shrinks
<1>2. Fits(arg[r].copy.status, object[f])
  BY DEF Sound
<1>3. Fits(arg[r].copy.status, object'[f])
  BY <1>1, <1>2, FitsStays
<1> QED
  BY <1>1, <1>3 DEF Sound

LEMMA StaysJudged ==
  ASSUME Typed, Verdicts, Shrinks
  PROVE  /\ \A f \in Assets \ reused' : Fits(row[f].status, object'[f])
         /\ \A r \in Requests : pc'[r] = pc[r] /\ arg'[r] = arg[r] => Sound(r)'
BY FitsStays, SoundStays DEF Verdicts, Shrinks

\* A PUT of bytes that nobody has judged contradicts no verdict; any other
\* is recorded.
LEMMA UploadVerdicts ==
  ASSUME Typed, Verdicts, NEW f \in Assets, NEW content \in Contents, Upload(f, content)
  PROVE  Verdicts'
<1>1. /\ row' = row /\ pc' = pc /\ arg' = arg
      /\ reused' = IF Judged(f) THEN reused \cup {f} ELSE reused
      /\ \A g \in Assets \ {f} : object'[g] = object[g]
  BY DEF Upload, requests, Typed
<1>2. ASSUME NEW g \in Assets \ reused' PROVE Fits(row'[g].status, object'[g])
  <2>1. CASE g = f
    BY <1>1, <1>2, <2>1 DEF Judged, Final, Fits
  <2>2. CASE g # f
    BY <1>1, <1>2, <2>2 DEF Verdicts
  <2> QED
    BY <2>1, <2>2
<1>3. ASSUME NEW r \in Requests PROVE Sound(r)'
  <2> SUFFICES ASSUME pc[r] # "idle", arg[r].asset \notin reused'
               PROVE  Sound(r)'
    BY <1>1 DEF Sound
  <2>1. CASE arg[r].asset = f
    <3>1. ~Judged(f)
      BY <1>1, <2>1
    <3>2. /\ pc[r] \notin {"accepted", "scanned", "debited", "rejecting", "probed"}
          /\ arg[r].copy.status \notin Final
      BY <2>1, <3>1 DEF Judged
    <3> QED
      BY <1>1, <3>2 DEF Sound, Fits, Final
  <2>2. CASE arg[r].asset # f
    <3>1. object'[arg[r].asset] = object[arg[r].asset] /\ arg[r].asset \notin reused
      BY <1>1, <2>2, Holding
    <3> QED
      BY <1>1, <3>1 DEF Sound, Verdicts
  <2> QED
    BY <2>1, <2>2
<1> QED
  BY <1>2, <1>3 DEF Verdicts
-----------------------------------------------------------------------------
LEMMA LoadVerdicts ==
  ASSUME Typed, Verdicts, NEW r \in Requests, NEW f \in Assets,
         Finalize(r, f) \/ Delete(r, f) \/ Restore(r, f)
  PROVE  Verdicts'
<1>1. row' = row /\ object' = object /\ reused' = reused
  BY DEF Finalize, Delete, Restore, stores
<1>2. Shrinks
  BY <1>1 DEF Shrinks
<1>3. PICK s \in {"loaded", "trashing", "restoring"}, kept \in {row[f], Unread} :
             Load(r, f, s, kept) /\ s \in Steps /\ kept \in Row
  BY Loading
<1>4. /\ arg'[r] = [asset |-> f, copy |-> kept, content |-> "none"] /\ pc'[r] = s
      /\ \A q \in Requests \ {r} : pc'[q] = pc[q] /\ arg'[q] = arg[q]
  BY <1>3, LoadTyped
<1>5. f \notin reused => Fits(kept.status, object[f])
  BY <1>3 DEF Verdicts, Fits, Unread
<1>6. Sound(r)'
  BY <1>1, <1>3, <1>4, <1>5 DEF Sound
<1> QED
  BY <1>1, <1>2, <1>4, <1>6, StaysJudged DEF Verdicts

\* A step of a handler keeps what the request may rely on, and writes a verdict
\* on bytes it has read, or one that it has kept.
LEMMA HandlerVerdicts ==
  ASSUME Typed, Verdicts, NEW r \in Requests, Handler(r), Shrinks
  PROVE  Verdicts'
<1> DEFINE f == arg[r].asset
<1>1. /\ pc[r] # "idle" /\ arg[r] \in Arg /\ f \in Assets /\ arg[r].copy \in Row
      /\ Sound(r) /\ reused' = reused /\ object'[f] \in {object[f], "removed"}
      /\ object[f] \in Objects
  BY HandlerMoves, Holding DEF Verdicts, Shrinks, Typed
<1>2. f \notin reused => Fits(arg[r].copy.status, object[f]) /\ Fits(arg[r].copy.status, object'[f])
  BY <1>1, FitsStays DEF Sound
<1>3. \A q \in Requests \ {r} : Sound(q)'
  BY HandlerMoves, StaysJudged
<1>4. Sound(r)'
  <2> SUFFICES ASSUME pc'[r] # "idle", f \notin reused
               PROVE  Sound(r)'
    BY <1>1, HandlerMoves DEF Sound
  <2>0. arg'[r].asset = f /\ arg'[r].copy = arg[r].copy
    BY HandlerMoves
  <2>1. CASE Head(r)
    <3>1. object' = object /\ arg' = arg
      BY <2>1 DEF Head, stores, GoTo, End, Typed
    <3>2. \/ pc'[r] = "rejecting" /\ object[f] = "unfit"
          \/ pc'[r] = "accepted" /\ object[f] \in {"clean", "infected"}
      BY <1>1, <2>1 DEF Head, GoTo, End, Typed, Contents
    <3> QED
      BY <1>2, <2>0, <3>1, <3>2 DEF Sound
  <2>2. CASE Scan(r)
    <3>1. pc'[r] = "scanned" /\ object' = object /\ arg'[r].content = object[f] /\ pc[r] = "accepted"
      BY <1>1, <2>2, GoOnTyped DEF Scan, stores, Steps
    <3> QED
      BY <1>1, <1>2, <2>0, <3>1 DEF Sound
  <2>3. CASE Debit(r)
    <3>1. pc'[r] = "debited" /\ arg' = arg /\ object' = object /\ pc[r] = "scanned"
      BY <2>3, GoToTyped DEF Debit, Steps
    <3> QED
      BY <1>1, <1>2, <2>0, <3>1 DEF Sound
  <2>4. CASE Probe(r)
    <3>1. pc'[r] = "probed" /\ object' = object /\ pc[r] = "rejecting"
      BY <1>1, <2>4, GoOnTyped DEF Probe, stores, Steps
    <3> QED
      BY <1>1, <1>2, <2>0, <3>1 DEF Sound
  <2>5. CASE RemoveRejected(r) \/ SaveFinalized(r)
    <3>1. pc'[r] \in {"trashing", "saved", "idle"}
      BY <1>1, <2>5 DEF RemoveRejected, SaveFinalized, GoOn, End, Typed
    <3> QED
      BY <1>1, <1>2, <2>0, <3>1 DEF Sound
  <2>6. CASE Announce(r) \/ SaveTrashed(r) \/ SaveRestored(r) \/ Die(r)
    <3>1. pc'[r] = "idle"
      BY <2>6, EndTyped DEF Announce, SaveTrashed, SaveRestored, Die
    <3> QED
      BY <3>1
  <2> QED
    BY <2>1, <2>2, <2>3, <2>4, <2>5, <2>6 DEF Handler
<1>5. \A g \in Assets \ reused' : Fits(row'[g].status, object'[g])
  <2>1. CASE SaveFinalized(r)
    <3> DEFINE v == IF arg[r].content = "infected" THEN "quarantined" ELSE "available"
               new == [row[f] EXCEPT !.status = v]
    <3>1. new \in Row /\ new.status = v /\ Save(f, new)
      BY <1>1, <2>1 DEF SaveFinalized, Typed, Row, Final
    <3>2. /\ \A g \in Assets \ {f} : row'[g] = row[g]
          /\ row'[f] = new \/ row'[f] = row[f]
      BY <1>1, <3>1, SaveTyped
    <3>3. object' = object
      BY <2>1 DEF SaveFinalized
    <3>4. f \notin reused => Fits(v, object[f])
      BY <1>1, <2>1 DEF SaveFinalized, Sound, Fits
    <3>5. f \notin reused => Fits(row'[f].status, object[f])
      BY <1>1, <3>1, <3>2, <3>4 DEF Verdicts
    <3> QED
      BY <1>1, <3>2, <3>3, <3>5 DEF Verdicts
  <2>2. CASE SaveTrashed(r)
    <3> DEFINE new == [arg[r].copy EXCEPT !.deleted = TRUE]
    <3>1. new \in Row /\ new.status = arg[r].copy.status /\ Save(f, new)
      BY <1>1, <2>2 DEF SaveTrashed, Row
    <3>2. /\ \A g \in Assets \ {f} : row'[g] = row[g]
          /\ row'[f] = new \/ row'[f] = row[f]
      BY <1>1, <3>1, SaveTyped
    <3>3. object' = object
      BY <2>2 DEF SaveTrashed
    <3> QED
      BY <1>1, <1>2, <3>1, <3>2, <3>3 DEF Verdicts
  <2>3. CASE SaveRestored(r)
    <3> DEFINE new == [row[f] EXCEPT !.deleted = FALSE]
    <3>1. new \in Row /\ new.status = row[f].status /\ Save(f, new)
      BY <1>1, <2>3 DEF SaveRestored, Typed, Row
    <3>2. /\ \A g \in Assets \ {f} : row'[g] = row[g]
          /\ row'[f] = new \/ row'[f] = row[f]
      BY <1>1, <3>1, SaveTyped
    <3>3. object' = object
      BY <2>3 DEF SaveRestored
    <3> QED
      BY <1>1, <3>1, <3>2, <3>3 DEF Verdicts
  <2>4. CASE ~(SaveFinalized(r) \/ SaveTrashed(r) \/ SaveRestored(r))
    <3>1. row' = row
      BY <2>4 DEF Handler, Head, Scan, Debit, Announce, Probe, RemoveRejected, Die, stores
    <3> QED
      BY <3>1, StaysJudged
  <2> QED
    BY <2>1, <2>2, <2>3, <2>4
<1> QED
  BY <1>3, <1>4, <1>5 DEF Verdicts

LEMMA OthersVerdicts ==
  ASSUME Typed, Verdicts, Shrinks, requests' = requests,
         \A f \in Assets : row'[f].status \in {row[f].status, "pending", "gone"}
  PROVE  Verdicts'
<1>1. \A r \in Requests : Sound(r)'
  BY StaysJudged DEF requests
<1>2. \A f \in Assets \ reused' : Fits(row'[f].status, object'[f])
  BY StaysJudged DEF Fits
<1> QED
  BY <1>1, <1>2 DEF Verdicts

LEMMA VerdictsStep ==
  ASSUME Typed, Verdicts, [Next]_vars
  PROVE  Verdicts'
<1>1. CASE \E f \in Assets, content \in Contents : Upload(f, content)
  BY <1>1, UploadVerdicts
<1>2. CASE ~\E f \in Assets, content \in Contents : Upload(f, content)
  <2>0. Shrinks
    BY <1>2, ObjectShrinks
  <2>1. ASSUME NEW f \in Assets, Clocks(f) PROVE Verdicts'
    <3>1. requests' = requests
      BY <2>1 DEF Clocks, RequestUpload, Close, Age
    <3>2. \A g \in Assets : row'[g].status \in {row[g].status, "pending", "gone"}
      BY <2>1 DEF Clocks, RequestUpload, Close, Age, Typed, Row
    <3> QED
      BY <2>0, <3>1, <3>2, OthersVerdicts
  <2>2. ASSUME NEW j \in Jobs, JobStep(j) \/ JobDies(j) PROVE Verdicts'
    <3>1. requests' = requests
      BY <2>2 DEF JobStep, JobRead, JobRemove, JobPurge, JobDies
    <3>2. \A g \in Assets : row'[g].status \in {row[g].status, "pending", "gone"}
      BY <2>2 DEF JobStep, JobRead, JobRemove, JobPurge, JobDies, stores
    <3> QED
      BY <2>0, <3>1, <3>2, OthersVerdicts
  <2>3. CASE UNCHANGED vars
    <3>1. requests' = requests /\ row' = row
      BY <2>3 DEF vars, requests
    <3> QED
      BY <2>0, <3>1, OthersVerdicts
  <2> QED
    BY <1>2, <2>0, <2>1, <2>2, <2>3, ActionCases, LoadVerdicts, HandlerVerdicts
<1> QED
  BY <1>1, <1>2

LEMMA InitVerdicts ==
  ASSUME Init
  PROVE  Verdicts
BY DEF Init, Verdicts, Sound, Fits, Unread

\* However finalizers, stale deletes, restores and purges of a file overlap, it is
\* available only if what was uploaded was fit and clean; other bytes can only be
\* there because they were PUT after the check.
THEOREM AvailableFilesAreClean == Spec => []AvailableIsClean
<1>1. Verdicts => AvailableIsClean
  BY DEF Verdicts, Fits, AvailableIsClean
<1> QED
  BY <1>1, InitTyped, InitVerdicts, TypedStep, VerdictsStep, PTL DEF Spec

\* A finalized file whose bytes were not replaced loses them to a purge job only:
\* a rejecting request has seen bytes to be unfit that no other one accepts.
THEOREM BytesAreTakenByJobs == Spec => OnlyJobsTakeBytes
<1> DEFINE Taking == \A f \in Assets \ reused' :
               row[f].status \in Final /\ object[f] \in Contents /\ object'[f] = "removed" =>
                 \E j \in Jobs : f \in left[j]
<1>1. Typed /\ Verdicts /\ [Next]_vars => [Taking]_vars
  <2> SUFFICES ASSUME Typed, Verdicts, [Next]_vars, NEW f \in Assets \ reused',
                      row[f].status \in Final, object[f] \in Contents, object'[f] = "removed",
                      ~\E j \in Jobs : f \in left[j]
               PROVE  FALSE
    OBVIOUS
  <2>1. ~\E g \in Assets, content \in Contents : Upload(g, content)
    BY DEF Typed, Upload, Contents
  <2>2. reused' = reused
    BY <2>1, ObjectShrinks DEF Shrinks
  <2>3. object[f] \in {"clean", "infected"} /\ object'[f] # object[f]
    BY <2>2 DEF Verdicts, Fits, Final, Contents
  <2>4. ASSUME NEW g \in Assets, Clocks(g) PROVE FALSE
    BY <2>3, <2>4 DEF Clocks, RequestUpload, Close, Age
  <2>5. ASSUME NEW r \in Requests, RemoveRejected(r) PROVE FALSE
    <3>1. arg[r].asset \in Assets /\ pc[r] = "probed" /\ Sound(r)
      BY <2>5, Holding DEF RemoveRejected, Verdicts
    <3>2. CASE arg[r].asset = f
      BY <2>2, <2>3, <3>1, <3>2 DEF Sound
    <3>3. CASE arg[r].asset # f
      BY <2>3, <2>5, <3>1, <3>3 DEF RemoveRejected, Typed
    <3> QED
      BY <3>2, <3>3
  <2>6. ASSUME NEW r \in Requests, Handler(r), ~RemoveRejected(r) PROVE FALSE
    BY <2>3, <2>6 DEF Handler, Head, Scan, Debit, SaveFinalized, Announce, Probe, SaveTrashed,
                SaveRestored, Die, stores
  <2>7. ASSUME NEW r \in Requests, NEW g \in Assets, Finalize(r, g) \/ Delete(r, g) \/ Restore(r, g)
        PROVE  FALSE
    BY <2>3, <2>7 DEF Finalize, Delete, Restore, stores
  <2>8. ASSUME NEW j \in Jobs, NEW g \in Assets, JobRemove(j, g) PROVE FALSE
    BY <2>3, <2>8 DEF Typed, JobRemove, Without
  <2>9. ASSUME NEW j \in Jobs, JobStep(j) \/ JobDies(j), ~\E g \in Assets : JobRemove(j, g)
        PROVE  FALSE
    BY <2>3, <2>9 DEF JobStep, JobRead, JobPurge, JobDies, stores
  <2>10. CASE UNCHANGED vars
    BY <2>3, <2>10 DEF vars
  <2> QED
    BY <2>1, <2>4, <2>5, <2>6, <2>7, <2>8, <2>9, <2>10, ActionCases
<1> QED
  BY <1>1, InitTyped, InitVerdicts, TypedStep, VerdictsStep, PTL DEF Spec, OnlyJobsTakeBytes
-----------------------------------------------------------------------------
(* What has been announced or will be at once, in the table and in every row *)
(* that a request has read.                                                  *)
Told ==
  {f \in Assets : f \in announced \cup unsaid
                  \/ \E r \in Requests : pc[r] = "saved" /\ arg[r].asset = f}

AllTold ==
  /\ \A f \in Assets : row[f].status = "available" => f \in Told
  /\ \A r \in Requests :
       pc[r] # "idle" /\ arg[r].copy.status = "available" => arg[r].asset \in Told

\* Only the request itself, or its death, ends the wait for an announcement.
LEMMA ToldStays ==
  ASSUME Typed, [Next]_vars, NEW f \in Told
  PROVE  f \in Told'
<1> DEFINE Waits == \A q \in Requests : pc[q] = "saved" => pc'[q] = "saved" /\ arg'[q].asset = arg[q].asset
           Grows == announced \subseteq announced' /\ unsaid \subseteq unsaid'
<1>1. ASSUME Waits, Grows PROVE f \in Told'
  BY <1>1 DEF Told
<1>2. ASSUME NEW g \in Assets, Clocks(g) \/ \E content \in Contents : Upload(g, content)
      PROVE  Waits /\ Grows
  BY <1>2 DEF Clocks, RequestUpload, Close, Age, Upload, requests, history
<1>3. ASSUME NEW r \in Requests, Handler(r) PROVE f \in Told'
  <2>1. \A q \in Requests \ {r} : pc'[q] = pc[q] /\ arg'[q] = arg[q]
    BY <1>3, HandlerMoves
  <2>2. Grows
    BY <1>3 DEF Handler, Head, Scan, Debit, SaveFinalized, Announce, Probe, RemoveRejected,
                SaveTrashed, SaveRestored, Die, stores, history
  <2>3. CASE pc[r] # "saved"
    BY <1>1, <2>1, <2>2, <2>3
  <2>4. CASE pc[r] = "saved"
    <3>1. Announce(r) \/ Die(r)
      BY <1>3, <2>4 DEF Handler, Head, Scan, Debit, SaveFinalized, Probe, RemoveRejected,
                         SaveTrashed, SaveRestored
    <3>2. arg[r].asset \in announced' \cup unsaid'
      BY <2>4, <3>1 DEF Announce, Die
    <3> QED
      BY <2>1, <2>2, <3>2 DEF Told
  <2> QED
    BY <2>3, <2>4
<1>4. ASSUME NEW r \in Requests, NEW g \in Assets, Finalize(r, g) \/ Delete(r, g) \/ Restore(r, g)
      PROVE  Waits /\ Grows
  <2>1. PICK s \in Steps, kept \in Row : Load(r, g, s, kept)
    BY <1>4, Loading
  <2>2. pc[r] = "idle" /\ \A q \in Requests \ {r} : pc'[q] = pc[q] /\ arg'[q] = arg[q]
    BY <2>1, LoadTyped
  <2> QED
    BY <1>4, <2>2 DEF Finalize, Delete, Restore, stores
<1>5. ASSUME NEW j \in Jobs, JobStep(j) \/ JobDies(j) PROVE Waits /\ Grows
  BY <1>5 DEF JobStep, JobRead, JobRemove, JobPurge, JobDies, stores, requests, history
<1>6. CASE UNCHANGED vars
  BY <1>1, <1>6 DEF vars, history
<1> QED
  BY <1>1, <1>2, <1>3, <1>4, <1>5, <1>6, ActionCases

LEMMA AllToldStep ==
  ASSUME Typed, AllTold, [Next]_vars
  PROVE  AllTold'
<1>0. \A f \in Assets : f \in Told => f \in Told'
  BY ToldStays
\* A step that makes no file available, and reads no row, keeps it.
<1> DEFINE Same == \A f \in Assets : row'[f].status = "available" => row[f].status = "available" \/ f \in Told'
           Kept(q) == /\ pc'[q] # "idle" => pc[q] # "idle"
                      /\ pc'[q] # "idle" => arg'[q].asset = arg[q].asset /\ arg'[q].copy = arg[q].copy
<1>1. ASSUME Same, \A q \in Requests : Kept(q) PROVE AllTold'
  <2>1. ASSUME NEW f \in Assets, row'[f].status = "available" PROVE f \in Told'
    BY <1>0, <1>1, <2>1 DEF AllTold
  <2>2. ASSUME NEW q \in Requests, pc'[q] # "idle", arg'[q].copy.status = "available"
        PROVE  arg'[q].asset \in Told'
    BY <1>0, <1>1, <2>2, Holding DEF AllTold
  <2> QED
    BY <2>1, <2>2 DEF AllTold
<1>2. ASSUME NEW f \in Assets, Clocks(f) \/ \E content \in Contents : Upload(f, content)
      PROVE  AllTold'
  <2>1. Same
    BY <1>2 DEF Clocks, RequestUpload, Close, Age, Upload, Typed, Row
  <2>2. pc' = pc /\ arg' = arg
    BY <1>2 DEF Clocks, RequestUpload, Close, Age, Upload, requests
  <2> QED
    BY <1>1, <2>1, <2>2
<1>3. ASSUME NEW j \in Jobs, JobStep(j) \/ JobDies(j) PROVE AllTold'
  <2>1. Same
    BY <1>3 DEF JobStep, JobRead, JobRemove, JobPurge, JobDies, stores
  <2>2. pc' = pc /\ arg' = arg
    BY <1>3 DEF JobStep, JobRead, JobRemove, JobPurge, JobDies, requests
  <2> QED
    BY <1>1, <2>1, <2>2
<1>4. ASSUME NEW r \in Requests, NEW f \in Assets, Finalize(r, f) \/ Delete(r, f) \/ Restore(r, f)
      PROVE  AllTold'
  <2>1. row' = row
    BY <1>4 DEF Finalize, Delete, Restore, stores
  <2>2. PICK s \in Steps, kept \in {row[f], Unread} : Load(r, f, s, kept) /\ kept \in Row
    BY <1>4, Loading
  <2>3. /\ arg'[r] = [asset |-> f, copy |-> kept, content |-> "none"]
        /\ \A q \in Requests \ {r} : pc'[q] = pc[q] /\ arg'[q] = arg[q]
    BY <2>2, LoadTyped
  <2>4. \A q \in Requests \ {r} : Kept(q)
    BY <2>3
  <2>5. \A g \in Assets : row'[g].status = "available" => g \in Told'
    BY <1>0, <2>1 DEF AllTold
  <2>6. ASSUME NEW q \in Requests, pc'[q] # "idle", arg'[q].copy.status = "available"
        PROVE  arg'[q].asset \in Told'
    <3>1. CASE q = r
      BY <2>1, <2>2, <2>3, <2>5, <2>6, <3>1 DEF Unread
    <3>2. CASE q # r
      BY <1>0, <2>4, <2>6, <3>2, Holding DEF AllTold
    <3> QED
      BY <3>1, <3>2
  <2> QED
    BY <2>5, <2>6 DEF AllTold
<1>5. ASSUME NEW r \in Requests, Handler(r) PROVE AllTold'
  <2> DEFINE f == arg[r].asset
  <2>1. pc[r] # "idle" /\ arg[r] \in Arg /\ f \in Assets /\ arg[r].copy \in Row
    BY <1>5, HandlerMoves, Holding
  <2>2. \A q \in Requests : Kept(q)
    BY <1>5, <2>1, HandlerMoves
  <2>3. Same
    <3>1. CASE SaveFinalized(r)
      <4> DEFINE v == IF arg[r].content = "infected" THEN "quarantined" ELSE "available"
                 new == [row[f] EXCEPT !.status = v]
      <4>1. new \in Row /\ Save(f, new)
        BY <2>1, <3>1 DEF SaveFinalized, Typed, Row, Final
      <4>2. /\ \A g \in Assets \ {f} : row'[g] = row[g]
            /\ ~Stored(f) => row'[f] = row[f]
        BY <2>1, <4>1, SaveTyped
      <4>3. Stored(f) => pc'[r] = "saved" /\ arg'[r].asset = f
        BY <2>1, <3>1, GoOnTyped DEF SaveFinalized, Steps, Objects
      <4>4. Stored(f) => f \in Told'
        BY <2>1, <4>3 DEF Told
      <4> QED
        BY <4>2, <4>4
    <3>2. CASE SaveTrashed(r)
      <4> DEFINE new == [arg[r].copy EXCEPT !.deleted = TRUE]
      <4>1. new \in Row /\ new.status = arg[r].copy.status /\ Save(f, new)
        BY <2>1, <3>2 DEF SaveTrashed, Row
      <4>2. /\ \A g \in Assets \ {f} : row'[g] = row[g]
            /\ row'[f] = new \/ row'[f] = row[f]
        BY <2>1, <4>1, SaveTyped
      <4>3. arg[r].copy.status = "available" => f \in Told'
        BY <1>0, <2>1 DEF AllTold
      <4> QED
        BY <4>1, <4>2, <4>3
    <3>3. CASE SaveRestored(r)
      <4> DEFINE new == [row[f] EXCEPT !.deleted = FALSE]
      <4>1. new \in Row /\ new.status = row[f].status /\ Save(f, new)
        BY <2>1, <3>3 DEF SaveRestored, Typed, Row
      <4>2. /\ \A g \in Assets \ {f} : row'[g] = row[g]
            /\ row'[f] = new \/ row'[f] = row[f]
        BY <2>1, <4>1, SaveTyped
      <4> QED
        BY <4>1, <4>2
    <3>4. CASE ~(SaveFinalized(r) \/ SaveTrashed(r) \/ SaveRestored(r))
      BY <1>5, <3>4 DEF Handler, Head, Scan, Debit, Announce, Probe, RemoveRejected, Die, stores
    <3> QED
      BY <3>1, <3>2, <3>3, <3>4
  <2> QED
    BY <1>1, <2>2, <2>3
<1>6. CASE UNCHANGED vars
  BY <1>1, <1>6 DEF vars
<1> QED
  BY <1>2, <1>3, <1>4, <1>5, <1>6, ActionCases

\* In whatever order its finalizers and those who trash or restore it write, a
\* file that becomes available is announced, unless a finalizer of it died
\* between its save and its event.
THEOREM AvailableFilesAreAnnounced == Spec => []AvailableIsAnnounced
<1>1. Init => AllTold
  BY DEF Init, AllTold, Unread
<1>2. AllTold => AvailableIsAnnounced
  BY DEF AllTold, Told, AvailableIsAnnounced
<1> QED
  BY <1>1, <1>2, InitTyped, TypedStep, AllToldStep, PTL DEF Spec

\* No save brings a purged row back.
THEOREM PurgedRowsStayGone == Spec => PurgedStaysGone
<1> DEFINE Gone == \A f \in Assets : row[f].status = "gone" => row'[f].status = "gone"
<1>1. Typed /\ [Next]_vars => [Gone]_vars
  <2> SUFFICES ASSUME Typed, [Next]_vars, NEW f \in Assets, row[f].status = "gone"
               PROVE  row'[f].status = "gone"
    OBVIOUS
  <2>1. ASSUME NEW g \in Assets, Clocks(g) \/ \E content \in Contents : Upload(g, content)
        PROVE  row'[f] = row[f]
    BY <2>1 DEF Clocks, RequestUpload, Close, Age, Upload, Typed
  <2>2. ASSUME NEW r \in Requests, Handler(r) PROVE row'[f] = row[f]
    BY <2>2 DEF Handler, Debit, SaveFinalized, Announce, Probe, RemoveRejected, SaveTrashed,
                SaveRestored, Die, Head, Scan, stores, Save, Stored, Typed
  <2>3. ASSUME NEW r \in Requests, NEW g \in Assets, Finalize(r, g) \/ Delete(r, g) \/ Restore(r, g)
        PROVE  row'[f] = row[f]
    BY <2>3 DEF Finalize, Delete, Restore, stores
  <2>4. ASSUME NEW j \in Jobs, JobStep(j) \/ JobDies(j) PROVE row'[f].status = "gone"
    BY <2>4 DEF JobStep, JobRead, JobRemove, JobPurge, JobDies, stores
  <2>5. CASE UNCHANGED vars
    BY <2>5 DEF vars
  <2> QED
    BY <2>1, <2>2, <2>3, <2>4, <2>5, ActionCases
<1> QED
  BY <1>1, InitTyped, TypedStep, PTL DEF Spec, PurgedStaysGone
=============================================================================
