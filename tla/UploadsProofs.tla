---------------------------- MODULE UploadsProofs ----------------------------
(***************************************************************************)
(* Theorems about Uploads for any components, and any number of files,      *)
(* batches and cancels.                                                     *)
(***************************************************************************)
EXTENDS Uploads, TLAPS

Places == {"unsent", "resolve", "attach", "over"} \cup DOMAIN Stage
Snapshots == [file : Uploads, status : {"preparing", "uploading", "finalizing", "done", "error"}] \cup {Idle}

\* What a step does to an upload, ...
Moved(k) ==
    \/ up'[k].at \in {up[k].at, "over"}
    \/ up[k].at = "unsent" /\ up'[k].at = "url"
    \/ up[k].at = "url" /\ asset[k] = "pending" /\ up'[k].at = "put"
    \/ up[k].at = "put" /\ asset[k] = "stored" /\ up'[k].at = "finalize"
    \/ Done(k) /\ up'[k].at = "resolve"
    \/ up[k].at = "resolve" /\ up'[k].at = "attach"

\* ... to what the component was given, ...
Hands(k) ==
    /\ given' = Append(given, k)
    /\ Done(k) \/ up[k].at \in {"resolve", "attach"}
    /\ up'[k].at = "over"

\* ... and to what was stopped.
Stops(k) == aborted' = aborted \cup {k} /\ up[k].at = "put" /\ up'[k].at = "over"

Moves ==
    /\ asset' = asset
    /\ \A k \in Uploads : Moved(k)
    /\ UNCHANGED given \/ \E k \in Uploads : Hands(k)
    /\ UNCHANGED aborted \/ \E k \in Uploads : Stops(k)

-----------------------------------------------------------------------------
LEMMA ActionCases ==
  ASSUME [Next]_vars
  PROVE  \/ \E n \in 1..MaxBatch : Pick(n)
         \/ Cancel \/ Dismiss \/ Unstage \/ Timer \/ UNCHANGED vars
         \/ \E k \in Uploads :
               \/ Serve(k) \/ UrlMinted(k) \/ BytesPut(k) \/ Failed(k)
               \/ Finalized(k) \/ Resolved(k) \/ Attached(k) \/ NotHandedOver(k)
BY DEF Next, Answered

LEMMA Numbers == 0 \in 0..MaxUploads /\ Uploads \subseteq 0..MaxUploads /\ 0 \notin Uploads
BY UploadsAssumption DEF Uploads

LEMMA AppendedSet ==
  ASSUME NEW k \in Uploads, NEW s \in Seq(Uploads)
  PROVE  Append(s, k) \in Seq(Uploads) /\ ToSet(Append(s, k)) = ToSet(s) \cup {k}
<1>1. /\ Append(s, k) \in Seq(Uploads) /\ Len(Append(s, k)) = Len(s) + 1
      /\ \A i \in 1..Len(s) : Append(s, k)[i] = s[i]
      /\ Append(s, k)[Len(s) + 1] = k
      /\ Len(s) \in Nat /\ DOMAIN s = 1..Len(s)
      /\ DOMAIN Append(s, k) = 1..(Len(s) + 1)
  OBVIOUS
<1> QED
  BY <1>1 DEF ToSet

-----------------------------------------------------------------------------
(* What the shared parts of the actions do. *)

LEMMA BeginMoves ==
  ASSUME NEW u \in [Uploads -> [at : Places, rest : Nat]], NEW k \in Uploads, NEW rest \in Nat,
         NEW refused \in BOOLEAN, Begin(u, k, rest, refused)
  PROVE  /\ up' \in [Uploads -> [at : Places, rest : Nat]]
         /\ up'[k].at \in {"url", "over"}
         /\ \A j \in Uploads : j # k => up'[j] = u[j]
         /\ progress' \in Snapshots /\ cancelled' = FALSE /\ xhr' = xhr
BY DEF Begin, Places, Snapshots, Stage

LEMMA OverTyped ==
  ASSUME TypeOK, NEW k \in Uploads
  PROVE  /\ Over(k) \in [Uploads -> [at : Places, rest : Nat]]
         /\ Over(k)[k].at = "over"
         /\ \A j \in Uploads : j # k => Over(k)[j] = up[j]
BY DEF Over, TypeOK, Places

LEMMA NextIsUnsent ==
  ASSUME Unsent # {}
  PROVE  NextFile \in Uploads /\ up[NextFile].at = "unsent"
BY DEF NextFile, Unsent

\* A batch goes on, of an up that still has those that are unsent.
LEMMA ContinueMoves ==
  ASSUME TypeOK, NEW u \in [Uploads -> [at : Places, rest : Nat]], NEW files \in Nat,
         \A j \in Uploads : u[j] = up[j] \/ (u[j].at = "over" /\ up[j].at # "unsent"),
         Continue(u, files)
  PROVE  /\ up' \in [Uploads -> [at : Places, rest : Nat]]
         /\ \A j \in Uploads : \/ up'[j] = u[j]
                               \/ up[j].at = "unsent" /\ up'[j].at = "url"
         /\ progress' \in Snapshots /\ cancelled' \in BOOLEAN /\ xhr' \in {0, xhr}
<1>1. ASSUME Unsent # {}, NEW left \in 0..(files - 1), Begin(u, NextFile, left, FALSE)
      PROVE  /\ up' \in [Uploads -> [at : Places, rest : Nat]]
             /\ \A j \in Uploads : \/ up'[j] = u[j]
                                   \/ up[j].at = "unsent" /\ up'[j].at = "url"
             /\ progress' \in Snapshots /\ cancelled' \in BOOLEAN /\ xhr' \in {0, xhr}
  <2>1. NextFile \in Uploads /\ up[NextFile].at = "unsent"
    BY <1>1, NextIsUnsent
  <2>2. left \in Nat
    OBVIOUS
  <2>3. /\ up' \in [Uploads -> [at : Places, rest : Nat]]
        /\ \A j \in Uploads : j # NextFile => up'[j] = u[j]
        /\ progress' \in Snapshots /\ cancelled' = FALSE /\ xhr' = xhr
    BY <1>1, <2>1, <2>2, BeginMoves
  <2>4. up'[NextFile].at = "url"
    BY <1>1, <2>1 DEF Begin, Places
  <2> QED
    BY <2>1, <2>3, <2>4
<1>2. ASSUME up' = u, Reset(u)
      PROVE  /\ progress' \in Snapshots /\ cancelled' \in BOOLEAN /\ xhr' \in {0, xhr}
  BY <1>2 DEF Reset, Snapshots
<1> QED
  BY <1>1, <1>2 DEF Continue

LEMMA GoesMoves ==
  ASSUME TypeOK, NEW k \in Uploads, up[k].at # "unsent", Goes(Over(k), k)
  PROVE  /\ up' \in [Uploads -> [at : Places, rest : Nat]]
         /\ up'[k].at = "over"
         /\ \A j \in Uploads : \/ up'[j] = up[j] \/ up'[j].at = "over"
                               \/ up[j].at = "unsent" /\ up'[j].at = "url"
         /\ progress' \in Snapshots /\ cancelled' \in BOOLEAN /\ xhr' \in {0, xhr}
<1>1. up[k].rest \in Nat
  BY DEF TypeOK
<1>2. \A j \in Uploads : Over(k)[j] = up[j] \/ (Over(k)[j].at = "over" /\ up[j].at # "unsent")
  BY OverTyped
<1>3. /\ up' \in [Uploads -> [at : Places, rest : Nat]]
      /\ \A j \in Uploads : \/ up'[j] = Over(k)[j]
                            \/ up[j].at = "unsent" /\ up'[j].at = "url"
      /\ progress' \in Snapshots /\ cancelled' \in BOOLEAN /\ xhr' \in {0, xhr}
  BY <1>1, <1>2, OverTyped, ContinueMoves DEF Goes
<1> QED
  BY <1>3, OverTyped

-----------------------------------------------------------------------------
(* The steps of the user and of the clock. *)

LEMMA UsersMove ==
  ASSUME TypeOK, (\E n \in 1..MaxBatch : Pick(n)) \/ Cancel \/ Dismiss \/ Unstage \/ Timer
  PROVE  TypeOK' /\ Moves
<1> USE UploadsAssumption
<1>1. ASSUME NEW n \in 1..MaxBatch, Pick(n) PROVE TypeOK' /\ Moves
  <2>1. NextFile \in Uploads /\ up[NextFile].at = "unsent"
    BY <1>1, NextIsUnsent DEF Pick
  <2>2. up \in [Uploads -> [at : Places, rest : Nat]]
    BY DEF TypeOK, Places
  <2>3. /\ up' \in [Uploads -> [at : Places, rest : Nat]]
        /\ \A j \in Uploads : up'[j] = up[j] \/ (up[j].at = "unsent" /\ up'[j].at \in {"url", "over"})
        /\ progress' \in Snapshots /\ cancelled' \in BOOLEAN /\ xhr' \in {0, xhr}
    <3>1. CASE Continue(up, n)
      <4>1. n \in Nat
        OBVIOUS
      <4> QED
        BY <2>2, <3>1, <4>1, ContinueMoves
    <3>2. ASSUME NEW refused \in BOOLEAN, Begin(up, NextFile, 0, refused)
          PROVE  /\ up' \in [Uploads -> [at : Places, rest : Nat]]
                 /\ \A j \in Uploads :
                      up'[j] = up[j] \/ (up[j].at = "unsent" /\ up'[j].at \in {"url", "over"})
                 /\ progress' \in Snapshots /\ cancelled' \in BOOLEAN /\ xhr' \in {0, xhr}
      <4>1. 0 \in Nat
        OBVIOUS
      <4>2. /\ up' \in [Uploads -> [at : Places, rest : Nat]]
            /\ up'[NextFile].at \in {"url", "over"}
            /\ \A j \in Uploads : j # NextFile => up'[j] = up[j]
            /\ progress' \in Snapshots /\ cancelled' = FALSE /\ xhr' = xhr
        BY <2>1, <2>2, <3>2, <4>1, BeginMoves
      <4> QED
        BY <2>1, <4>2
    <3> QED
      BY <1>1, <3>1, <3>2 DEF Pick
  <2> QED
    BY <1>1, <2>3 DEF Pick, TypeOK, Places, Snapshots, Moves, Moved, widget
<1>2. CASE Cancel
  <2>1. CASE xhr # 0 /\ up[xhr].at = "put"
    <3>1. xhr \in Uploads
      BY <2>1 DEF TypeOK
    <3>2. up' = Over(xhr)
      BY <1>2, <2>1 DEF Cancel
    <3> QED
      BY <1>2, <2>1, <3>1, <3>2, OverTyped DEF Cancel, Reset, TypeOK, Places, Moves, Moved, Stops, widget
  <2>2. CASE ~(xhr # 0 /\ up[xhr].at = "put")
    BY <1>2, <2>2 DEF Cancel, Reset, TypeOK, Places, Moves, Moved, widget
  <2> QED
    BY <2>1, <2>2
<1>3. CASE Dismiss
  BY <1>3 DEF Dismiss, Reset, TypeOK, Moves, Moved, widget
<1>4. CASE Unstage
  BY <1>4 DEF Unstage, TypeOK, Moves, Moved, hook, history
<1>5. CASE Timer
  <2>1. timers' \in Nat
    BY <1>5 DEF Timer, TypeOK
  <2>2. /\ progress' = Idle /\ cancelled' = FALSE /\ xhr' = 0
        /\ UNCHANGED <<host, up, asset, observed, staged, given, aborted>>
    BY <1>5 DEF Timer, Reset
  <2> QED
    BY <2>1, <2>2 DEF TypeOK, Moves, Moved
<1> QED
  BY <1>1, <1>2, <1>3, <1>4, <1>5

-----------------------------------------------------------------------------
(* What requests come back to. *)

LEMMA NowTyped ==
  ASSUME TypeOK, NEW s \in {"uploading", "finalizing", "done", "error"}
  PROVE  Now(progress, s) \in Snapshots
BY DEF Now, TypeOK, Snapshots, Idle

LEMMA StageIs == DOMAIN Stage = {"url", "put", "finalize"}
BY DEF Stage

LEMMA StageMoves ==
  ASSUME TypeOK, NEW k \in Uploads, UrlMinted(k) \/ BytesPut(k)
  PROVE  TypeOK' /\ Moves
<1>1. CASE cancelled
  <2>1. up' = Over(k) /\ UNCHANGED hook
    BY <1>1 DEF UrlMinted, BytesPut
  <2> QED
    BY <2>1, OverTyped DEF UrlMinted, BytesPut, TypeOK, Places, Moves, Moved, hook, widget
<1>2. CASE ~cancelled /\ UrlMinted(k)
  <2>1. /\ up[k].at = "url" /\ asset[k] = "pending"
        /\ up' = [up EXCEPT ![k].at = "put"] /\ xhr' = k
        /\ progress' = Now(progress, "uploading")
        /\ UNCHANGED <<host, asset, cancelled, observed, timers, staged, given, aborted>>
    BY <1>2 DEF UrlMinted, Steps, Stage, widget
  <2> QED
    BY <2>1, NowTyped, StageIs DEF TypeOK, Snapshots, Moves, Moved
<1>3. CASE ~cancelled /\ BytesPut(k)
  <2>1. /\ up[k].at = "put" /\ asset[k] = "stored"
        /\ up' = [up EXCEPT ![k].at = "finalize"] /\ xhr' = xhr
        /\ progress' = Now(progress, "finalizing")
        /\ UNCHANGED <<host, asset, cancelled, observed, timers, staged, given, aborted>>
    BY <1>3 DEF BytesPut, Steps, Stage, widget
  <2> QED
    BY <2>1, NowTyped, StageIs DEF TypeOK, Snapshots, Moves, Moved
<1> QED
  BY <1>1, <1>2, <1>3

LEMMA EndMoves ==
  ASSUME TypeOK, NEW k \in Uploads, Failed(k) \/ NotHandedOver(k)
  PROVE  TypeOK' /\ Moves
<1>1. up[k].at # "unsent"
  BY DEF Failed, InFlight, Stage, NotHandedOver
<1>2. CASE Goes(Over(k), k)
  <2>1. UNCHANGED <<host, asset, observed, timers, staged, given, aborted>>
    BY DEF Failed, NotHandedOver, widget
  <2> QED
    BY <1>1, <1>2, <2>1, GoesMoves DEF TypeOK, Places, Snapshots, Moves, Moved
<1>3. CASE ~Goes(Over(k), k)
  <2>1. up' = Over(k) /\ progress' \in {progress, Now(progress, "error")} /\ UNCHANGED <<cancelled, xhr>>
    BY <1>3 DEF Failed, NotHandedOver, hook
  <2>2. UNCHANGED <<host, asset, observed, timers, staged, given, aborted>>
    BY DEF Failed, NotHandedOver, widget
  <2> QED
    BY <2>1, <2>2, OverTyped, NowTyped DEF TypeOK, Places, Snapshots, Moves, Moved
<1> QED
  BY <1>2, <1>3

LEMMA FinalizedMoves ==
  ASSUME TypeOK, NEW k \in Uploads, Finalized(k)
  PROVE  TypeOK' /\ Moves
<1>1. CASE host.resolves
  <2>1. /\ up' = [up EXCEPT ![k].at = "resolve"] /\ xhr' = 0
        /\ progress' = Now(progress, "done") /\ observed' \in {k, observed}
        /\ UNCHANGED <<host, asset, cancelled, timers, staged, given, aborted>>
    BY <1>1 DEF Finalized
  <2> QED
    <3>1. TypeOK'
      BY <2>1, NowTyped, StageIs, Numbers DEF TypeOK, Snapshots
    <3>2. Done(k)
      BY DEF Finalized
    <3> QED
      BY <2>1, <3>1, <3>2 DEF TypeOK, Moves, Moved
<1>2. CASE ~host.resolves
  BY <1>2, OverTyped, AppendedSet
  DEF Finalized, Done, Reset, TypeOK, Places, Moves, Moved, Hands
<1> QED
  BY <1>1, <1>2

LEMMA HandedMoves ==
  ASSUME TypeOK, NEW k \in Uploads, Resolved(k) \/ Attached(k)
  PROVE  TypeOK' /\ Moves
<1>1. CASE Resolved(k) /\ host.attaches
  <2>1. /\ up[k].at = "resolve"
        /\ up' = [up EXCEPT ![k].at = "attach"] /\ observed' = k
        /\ UNCHANGED <<host, asset, progress, cancelled, xhr, timers, staged, given, aborted>>
    BY <1>1 DEF Resolved, hook
  <2> QED
    <3>1. TypeOK'
      BY <2>1, StageIs, Numbers DEF TypeOK
    <3> QED
      BY <2>1, <3>1 DEF TypeOK, Moves, Moved
<1>2. CASE Resolved(k) /\ ~host.attaches
  <2>1. /\ up' = Over(k) /\ given' = Append(given, k)
        /\ timers' \in Nat /\ staged' \in {staged, k}
        /\ UNCHANGED <<host, asset, observed, aborted>> /\ up[k].at = "resolve"
    BY <1>2 DEF Resolved, TypeOK
  <2>2. UNCHANGED hook \/ (progress' = Idle /\ cancelled' = FALSE /\ xhr' = 0)
    BY <1>2 DEF Resolved, Reset
  <2>3. given' \in Seq(Uploads) /\ staged' \in {0} \cup ToSet(given')
    BY <2>1, AppendedSet DEF TypeOK
  <2> QED
    BY <2>1, <2>2, <2>3, OverTyped DEF TypeOK, Places, Moves, Moved, Hands, hook
<1>3. CASE Attached(k)
  <2>1. /\ up[k].at = "attach" /\ given' = Append(given, k) /\ Goes(Over(k), k)
        /\ UNCHANGED <<host, asset, observed, timers, staged, aborted>>
    BY <1>3 DEF Attached
  <2>2. /\ up' \in [Uploads -> [at : Places, rest : Nat]]
        /\ up'[k].at = "over"
        /\ \A j \in Uploads : \/ up'[j] = up[j] \/ up'[j].at = "over"
                              \/ up[j].at = "unsent" /\ up'[j].at = "url"
        /\ progress' \in Snapshots /\ cancelled' \in BOOLEAN /\ xhr' \in {0, xhr}
    BY <2>1, GoesMoves
  <2>3. given' \in Seq(Uploads) /\ staged' \in {0} \cup ToSet(given')
    BY <2>1, AppendedSet DEF TypeOK
  <2>4. TypeOK'
    BY <2>1, <2>2, <2>3 DEF TypeOK, Places, Snapshots
  <2>5. Hands(k)
    BY <2>1, <2>2 DEF Hands
  <2> QED
    BY <2>1, <2>2, <2>4, <2>5 DEF Moves, Moved
<1> QED
  BY <1>1, <1>2, <1>3

LEMMA ServeTyped ==
  ASSUME TypeOK, NEW k \in Uploads, Serve(k)
  PROVE  TypeOK'
BY DEF Serve, TypeOK, Final, hook, widget

LEMMA EveryStep ==
  ASSUME TypeOK, [Next]_vars
  PROVE  TypeOK' /\ (Moves \/ \E k \in Uploads : Serve(k))
<1>1. CASE UNCHANGED vars
  BY <1>1 DEF TypeOK, Moves, Moved, vars, hook, widget, history
<1> QED
  BY <1>1, ActionCases, UsersMove, StageMoves, EndMoves, FinalizedMoves, HandedMoves, ServeTyped

-----------------------------------------------------------------------------
\* Every variable has its type, and the request a cancel would stop is one that was
\* sent: by induction over the steps.
THEOREM TypeCorrect == Spec => []TypeOK
<1>1. Init => TypeOK
  <2> SUFFICES ASSUME Init PROVE TypeOK
    OBVIOUS
  <2>1. given \in Seq(Uploads)
    BY DEF Init
  <2> QED
    <3>1. up \in [Uploads -> [at : {"unsent", "resolve", "attach", "over"} \cup DOMAIN Stage, rest : Nat]]
      BY DEF Init
    <3> QED
      BY <2>1, <3>1, Numbers DEF Init, TypeOK
<1>2. TypeOK /\ [Next]_vars => TypeOK'
  BY EveryStep
<1> QED
  BY <1>1, <1>2, PTL DEF Spec

-----------------------------------------------------------------------------
(* The invariant: how far an upload is and what its file is on the server fit. *)

Fits(k) ==
    /\ up[k].at = "unsent" => asset[k] = "none"
    /\ up[k].at = "url" => asset[k] \in {"none", "pending"}
    /\ up[k].at = "put" => asset[k] \in {"pending", "stored"}
    /\ up[k].at = "finalize" => asset[k] \in {"stored"} \cup Final
    /\ up[k].at \in {"resolve", "attach"} => asset[k] \in Final

GivenIsOver == \A k \in ToSet(given) : up[k].at = "over"
AbortedIsOver == \A k \in aborted : k \in Uploads /\ up[k].at = "over" /\ asset[k] \notin Final

IInv ==
    /\ \A k \in Uploads : Fits(k)
    /\ GivenIsFinalized /\ GivenIsOver
    /\ AbortedIsOver

LEMMA GivenAreUploads == TypeOK => ToSet(given) \subseteq Uploads
BY DEF TypeOK, ToSet

LEMMA ServeKeeps ==
  ASSUME TypeOK, IInv, NEW k \in Uploads, Serve(k)
  PROVE  IInv'
<1>1. /\ UNCHANGED <<up, given, aborted>> /\ up[k].at # "over"
      /\ \A j \in Uploads : j # k => asset'[j] = asset[j]
  BY DEF Serve, TypeOK, widget, history
<1>2. \A j \in Uploads : Fits(j)'
  BY <1>1 DEF Serve, TypeOK, IInv, Fits, Final
<1>3. k \notin ToSet(given) /\ k \notin aborted
  BY <1>1 DEF IInv, GivenIsOver, AbortedIsOver
<1> QED
  BY <1>1, <1>2, <1>3, GivenAreUploads DEF IInv, GivenIsFinalized, GivenIsOver, AbortedIsOver

LEMMA MovesKeep ==
  ASSUME TypeOK, TypeOK', IInv, Moves
  PROVE  IInv'
<1>1. \A k \in Uploads : Fits(k)'
  BY DEF Moves, Moved, Done, IInv, Fits
<1>2. \A k \in Uploads : up[k].at = "over" => up'[k].at = "over"
  BY DEF Moves, Moved, Done
<1>3. AbortedIsOver'
  <2>1. AbortedIsOver /\ asset' = asset
    BY DEF IInv, Moves
  <2>2. CASE UNCHANGED aborted
    BY <1>2, <2>1, <2>2 DEF AbortedIsOver
  <2>3. ASSUME NEW k \in Uploads, Stops(k) PROVE AbortedIsOver'
    <3>1. asset[k] \notin Final
      BY <2>3 DEF Stops, IInv, Fits, Final
    <3> QED
      BY <1>2, <2>1, <2>3, <3>1 DEF Stops, AbortedIsOver
  <2> QED
    BY <2>2, <2>3 DEF Moves
<1>4. GivenIsFinalized' /\ GivenIsOver'
  <2>1. CASE UNCHANGED given
    BY <1>2, <2>1, GivenAreUploads DEF Moves, IInv, GivenIsFinalized, GivenIsOver
  <2>2. ASSUME NEW k \in Uploads, Hands(k) PROVE GivenIsFinalized' /\ GivenIsOver'
    <3>1. asset'[k] \in Final /\ up[k].at # "over" /\ up'[k].at = "over" /\ given' = Append(given, k)
      BY <2>2 DEF Hands, Done, Moves, IInv, Fits
    <3>2. given \in Seq(Uploads) /\ ToSet(given') = ToSet(given) \cup {k}
      BY <3>1, AppendedSet DEF TypeOK
    <3>3. k \notin ToSet(given)
      BY <3>1 DEF IInv, GivenIsOver
    <3>4. IsInjective(given')
      <4>1. IsInjective(given)
        BY DEF IInv, GivenIsFinalized
      <4> QED
        BY <3>1, <3>2, <3>3, <4>1 DEF IsInjective, ToSet
    <3> QED
      BY <1>2, <3>1, <3>2, <3>4, GivenAreUploads DEF Moves, IInv, GivenIsFinalized, GivenIsOver
  <2> QED
    BY <2>1, <2>2 DEF Moves
<1> QED
  BY <1>1, <1>3, <1>4 DEF IInv

LEMMA Invariance == Spec => [](TypeOK /\ IInv)
<1>1. Init => IInv
  BY UploadsAssumption
  DEF Init, IInv, Fits, GivenIsFinalized, GivenIsOver, AbortedIsOver, ToSet, IsInjective
<1>2. TypeOK /\ IInv /\ [Next]_vars => IInv'
  BY EveryStep, ServeKeeps, MovesKeep
<1> QED
  BY <1>1, <1>2, TypeCorrect, PTL DEF Spec

\* Whatever was cancelled, reset or begun again, a component is handed only files the
\* server has finalized, each once: an upload is handed over where its own sequence
\* of requests has come that far, and is over with it.  (Whether the scanner let the
\* file pass is not asked there: a quarantined one is handed over too.)
THEOREM OnlyFinalizedIsGiven == Spec => []GivenIsFinalized
<1>1. IInv => GivenIsFinalized
  BY DEF IInv
<1> QED
  BY <1>1, Invariance, PTL

\* An upload stopped while its bytes were on the way goes no further, here or on the
\* server: it is over before its file was finalized.
THEOREM StoppedBytesStayOut == Spec => []CancelStopsBytes
<1>1. IInv => CancelStopsBytes
  BY DEF IInv, GivenIsFinalized, AbortedIsOver, CancelStopsBytes
<1> QED
  BY <1>1, Invariance, PTL

-----------------------------------------------------------------------------
(* What the snapshot shows.  An upload is seen while nothing has let go of it and  *)
(* it has met no other; the invariant says who else may be under way beside one.   *)

Met(j, k) == <<j, k>> \in met \/ <<k, j>> \in met

Seen(k) ==
    /\ k \in Flying(up) /\ k \notin adrift /\ k \notin gaps
    /\ \A p \in met : k \notin {p[1], p[2]}

Honest(k) == progress = [file |-> k, status |-> Stage[up[k].at]]

Company ==
    \A k \in Flying(up) : \A j \in Uploads \ {k} :
        /\ j \in Flying(up) => Met(j, k)
        /\ j \in HandingOver(up) => Met(j, k) \/ k \in gaps

Shown ==
    /\ OneAtATime
    /\ \A k \in Uploads : Seen(k) => Honest(k)
    /\ Company

LEMMA MetIsNotSeen ==
  ASSUME NEW j, NEW k, Met(j, k)
  PROVE  ~Seen(k) /\ ~Seen(j)
BY DEF Met, Seen

LEMMA FlyingAre ==
  ASSUME NEW u \in [Uploads -> [at : Places, rest : Nat]]
  PROVE  /\ Flying(u) = {k \in Uploads : u[k].at \in {"url", "put", "finalize"}}
         /\ HandingOver(u) = {k \in Uploads : u[k].at \in {"resolve", "attach"}}
BY StageIs DEF Flying, InFlight, HandingOver

LEMMA HonestIsBusy ==
  ASSUME TypeOK, NEW k \in Uploads, k \in Flying(up), Honest(k)
  PROVE  IsUploading /\ progress # Idle
<1>1. up[k].at \in {"url", "put", "finalize"}
  BY StageIs DEF Flying, InFlight
<1>2. progress.file = k /\ progress.status = Stage[up[k].at]
  BY DEF Honest
<1>3. progress # Idle
  BY <1>2, Numbers DEF Idle
<1> QED
  BY <1>1, <1>2, <1>3 DEF Stage, IsUploading

\* Nobody new is under way, and the snapshot stays.
LEMMA FewerShown ==
  ASSUME TypeOK, TypeOK', Shown, UNCHANGED <<progress, adrift, gaps, met>>,
         \A j \in Uploads : \/ up'[j].at \in {up[j].at, "over"}
                            \/ up[j].at = "resolve" /\ up'[j].at = "attach"
  PROVE  Shown'
<1>1. up \in [Uploads -> [at : Places, rest : Nat]] /\ up' \in [Uploads -> [at : Places, rest : Nat]]
  BY DEF TypeOK, Places
<1>2. \A k \in Flying(up') : k \in Flying(up) /\ up'[k].at = up[k].at
  BY <1>1, FlyingAre
<1>3. HandingOver(up') \subseteq HandingOver(up)
  BY <1>1, FlyingAre
<1>4. \A k \in Uploads : (Seen(k) => Honest(k))'
  BY <1>2 DEF Shown, Seen, Honest
<1> QED
  BY <1>2, <1>3, <1>4 DEF Shown, OneAtATime, Company, Met, Flying

\* reset(): all that fly on are adrift.
LEMMA ResetShown ==
  ASSUME TypeOK, TypeOK', Shown, Reset(up'), UNCHANGED <<gaps, met>>,
         \A j \in Uploads : up'[j].at \in {up[j].at, "over"}
  PROVE  Shown'
<1>1. up \in [Uploads -> [at : Places, rest : Nat]] /\ up' \in [Uploads -> [at : Places, rest : Nat]]
  BY DEF TypeOK, Places
<1>2. Flying(up') \subseteq Flying(up) /\ HandingOver(up') \subseteq HandingOver(up)
  <2>1. /\ Flying(up) = {x \in Uploads : up[x].at \in {"url", "put", "finalize"}}
        /\ HandingOver(up) = {x \in Uploads : up[x].at \in {"resolve", "attach"}}
    BY <1>1, FlyingAre
  <2>2. /\ Flying(up') = {x \in Uploads : up'[x].at \in {"url", "put", "finalize"}}
        /\ HandingOver(up') = {x \in Uploads : up'[x].at \in {"resolve", "attach"}}
    BY <1>1, FlyingAre
  <2> QED
    BY <2>1, <2>2
<1>3. adrift \subseteq adrift' /\ Flying(up') \subseteq adrift'
  BY DEF Reset
<1>4. \A k \in Uploads : ~Seen(k)'
  BY <1>3 DEF Seen
<1> QED
  BY <1>2, <1>3, <1>4 DEF Shown, OneAtATime, Company, Met, Flying

\* An upload in flight goes on, alone or among those it has met.
LEMMA OwnStepShown ==
  ASSUME TypeOK, TypeOK', Shown, UNCHANGED <<adrift, gaps, met>>,
         NEW k \in Uploads, k \in Flying(up),
         NEW at \in {"put", "finalize", "resolve", "over"}, up' = [up EXCEPT ![k].at = at],
         at \in {"put", "finalize"} => progress' = Now(progress, Stage[at])
  PROVE  Shown'
<1>1. up \in [Uploads -> [at : Places, rest : Nat]] /\ up' \in [Uploads -> [at : Places, rest : Nat]]
  BY DEF TypeOK, Places
<1>2. up'[k].at = at /\ \A j \in Uploads : j # k => up'[j] = up[j]
  BY <1>1
<1>3. /\ \A j \in Uploads : j # k => (j \in Flying(up') <=> j \in Flying(up))
      /\ \A j \in Uploads : j # k => (j \in HandingOver(up') <=> j \in HandingOver(up))
      /\ k \in Flying(up') <=> at \in {"put", "finalize"}
  <2>1. /\ Flying(up) = {x \in Uploads : up[x].at \in {"url", "put", "finalize"}}
        /\ HandingOver(up) = {x \in Uploads : up[x].at \in {"resolve", "attach"}}
    BY <1>1, FlyingAre
  <2>2. /\ Flying(up') = {x \in Uploads : up'[x].at \in {"url", "put", "finalize"}}
        /\ HandingOver(up') = {x \in Uploads : up'[x].at \in {"resolve", "attach"}}
    BY <1>1, FlyingAre
  <2>3. ASSUME NEW j \in Uploads, j # k
        PROVE  /\ j \in Flying(up') <=> j \in Flying(up)
               /\ j \in HandingOver(up') <=> j \in HandingOver(up)
    BY <1>2, <2>1, <2>2, <2>3
  <2>4. k \in Flying(up') <=> at \in {"put", "finalize"}
    BY <1>2, <2>2
  <2> QED
    BY <2>3, <2>4
<1>4. ASSUME NEW j \in Uploads, j # k PROVE ~Seen(j)'
  <2>1. j \in Flying(up) => Met(k, j)
    BY <1>4 DEF Shown, Company
  <2>2. j \in Flying(up) => ~Seen(j)
    BY <2>1, MetIsNotSeen
  <2> QED
    BY <1>3, <1>4, <2>2 DEF Seen
<1>5. ASSUME Seen(k)' PROVE Honest(k)'
  <2>1. at \in {"put", "finalize"} /\ Seen(k)
    BY <1>3, <1>5 DEF Seen
  <2>2. Honest(k) /\ progress # Idle
    BY <2>1, HonestIsBusy DEF Shown
  <2>3. progress' = [progress EXCEPT !.status = Stage[at]]
    BY <2>1, <2>2 DEF Now
  <2> QED
    BY <1>2, <2>2, <2>3 DEF Honest
<1>6. Company'
  <2> SUFFICES ASSUME NEW x \in Flying(up'), NEW j \in Uploads \ {x}
               PROVE  /\ j \in Flying(up') => Met(j, x)
                      /\ j \in HandingOver(up') => Met(j, x) \/ x \in gaps
    BY DEF Company, Met
  <2>1. x \in Flying(up) /\ x \in Uploads
    BY <1>1, <1>3, FlyingAre
  <2>2. j \in Flying(up') => j \in Flying(up)
    BY <1>3
  <2>3. j \in HandingOver(up') => j \in HandingOver(up) \/ j \in Flying(up)
    BY <1>3
  <2> QED
    BY <2>1, <2>2, <2>3 DEF Shown, Company
<1> QED
  BY <1>4, <1>5, <1>6 DEF Shown, OneAtATime

\* upload(file), where none of those still in flight is seen.
LEMMA BeginShown ==
  ASSUME TypeOK, TypeOK', Shown, NEW u \in [Uploads -> [at : Places, rest : Nat]],
         \A j \in Uploads : u[j].at \in {up[j].at, "over"},
         \A j \in Flying(u) : ~Seen(j),
         NEW k \in Uploads, u[k].at = "unsent", NEW rest \in Nat, NEW refused \in BOOLEAN,
         Begin(u, k, rest, refused)
  PROVE  Shown'
<1>1. up \in [Uploads -> [at : Places, rest : Nat]] /\ up' \in [Uploads -> [at : Places, rest : Nat]]
  BY DEF TypeOK, Places
<1>2. up'[k].at = (IF refused THEN "over" ELSE "url") /\ \A j \in Uploads : j # k => up'[j] = u[j]
  BY DEF Begin
<1>3. /\ \A j \in Uploads : j # k => (j \in Flying(up') <=> j \in Flying(u))
      /\ \A j \in Uploads : j # k => (j \in HandingOver(up') <=> j \in HandingOver(u))
      /\ k \in Flying(up') <=> ~refused
      /\ k \notin HandingOver(up')
      /\ Flying(u) \subseteq Flying(up) /\ HandingOver(u) \subseteq HandingOver(up)
      /\ Flying(u) \subseteq Uploads
  <2>1. /\ Flying(u) = {x \in Uploads : u[x].at \in {"url", "put", "finalize"}}
        /\ HandingOver(u) = {x \in Uploads : u[x].at \in {"resolve", "attach"}}
    BY FlyingAre
  <2>2. /\ Flying(up) = {x \in Uploads : up[x].at \in {"url", "put", "finalize"}}
        /\ HandingOver(up) = {x \in Uploads : up[x].at \in {"resolve", "attach"}}
    BY <1>1, FlyingAre
  <2>3. /\ Flying(up') = {x \in Uploads : up'[x].at \in {"url", "put", "finalize"}}
        /\ HandingOver(up') = {x \in Uploads : up'[x].at \in {"resolve", "attach"}}
    BY <1>1, FlyingAre
  <2> QED
    BY <1>2, <2>1, <2>2, <2>3
<1>4. /\ adrift' = adrift /\ gaps \subseteq gaps' /\ met \subseteq met'
      /\ ~refused => \A j \in Flying(u) : <<j, k>> \in met'
      /\ ~refused /\ HandingOver(u) # {} => k \in gaps'
      /\ \A p \in met' : p \in met \/ \E j \in Flying(u) : p = <<j, k>>
  BY DEF Begin
<1>5. OneAtATime'
  <2>1. CASE met # {}
    BY <1>4, <2>1 DEF Shown, OneAtATime
  <2>2. ASSUME met = {}, NEW j \in Flying(u) PROVE j \in adrift \/ j \in gaps
    BY <1>3, <2>2 DEF Seen
  <2> QED
    BY <1>4, <2>1, <2>2 DEF OneAtATime
<1>6. ASSUME NEW j \in Uploads, Seen(j)' PROVE Honest(j)'
  <2>1. CASE j = k
    <3>1. ~refused /\ progress' = [file |-> k, status |-> "preparing"]
      BY <1>3, <1>6, <2>1 DEF Seen, Begin
    <3> QED
      BY <1>2, <2>1, <3>1 DEF Honest, Stage
  <2>2. CASE j # k
    <3>1. j \in Flying(u) /\ j \in Flying(up)
      BY <1>3, <1>6, <2>2 DEF Seen
    <3>2. Seen(j)
      BY <1>4, <1>6, <3>1 DEF Seen
    <3> QED
      BY <3>1, <3>2
  <2> QED
    BY <2>1, <2>2
<1>7. Company'
  <2> SUFFICES ASSUME NEW x \in Flying(up'), NEW j \in Uploads \ {x}
               PROVE  /\ j \in Flying(up') => Met(j, x)'
                      /\ j \in HandingOver(up') => Met(j, x)' \/ x \in gaps'
    BY DEF Company
  <2>1. x \in Uploads
    BY <1>1, FlyingAre
  <2>2. CASE x = k
    BY <1>3, <1>4, <2>2 DEF Met
  <2>3. CASE x # k /\ j = k
    BY <1>3, <1>4, <2>1, <2>3 DEF Met
  <2>4. CASE x # k /\ j # k
    BY <1>3, <1>4, <2>1, <2>4 DEF Shown, Company, Met
  <2> QED
    BY <2>2, <2>3, <2>4
<1> QED
  BY <1>5, <1>6, <1>7 DEF Shown

\* A batch goes on where none of those still in flight is seen.
LEMMA ContinueShown ==
  ASSUME TypeOK, TypeOK', Shown, NEW u \in [Uploads -> [at : Places, rest : Nat]], NEW files \in Nat,
         \A j \in Uploads : u[j] = up[j] \/ (u[j].at = "over" /\ up[j].at # "unsent"),
         \A j \in Flying(u) : ~Seen(j),
         Continue(u, files)
  PROVE  Shown'
<1>0. \A j \in Uploads : u[j].at \in {up[j].at, "over"}
  OBVIOUS
<1>1. ASSUME Unsent # {}, NEW left \in 0..(files - 1), Begin(u, NextFile, left, FALSE)
      PROVE  Shown'
  <2>1. NextFile \in Uploads /\ up[NextFile].at = "unsent"
    BY <1>1, NextIsUnsent
  <2>2. u[NextFile].at = "unsent" /\ left \in Nat
    BY <2>1
  <2> QED
    BY <1>0, <1>1, <2>1, <2>2, BeginShown
<1>2. ASSUME up' = u, Reset(u), UNCHANGED <<gaps, met>> PROVE Shown'
  BY <1>0, <1>2, ResetShown
<1> QED
  BY <1>1, <1>2 DEF Continue

LEMMA GoesShown ==
  ASSUME TypeOK, TypeOK', Shown, NEW k \in Uploads, k \in Flying(up) \cup HandingOver(up),
         Goes(Over(k), k)
  PROVE  Shown'
<1>1. /\ Over(k) \in [Uploads -> [at : Places, rest : Nat]]
      /\ Over(k)[k].at = "over" /\ \A j \in Uploads : j # k => Over(k)[j] = up[j]
  BY OverTyped
<1>2. up \in [Uploads -> [at : Places, rest : Nat]] /\ up[k].rest \in Nat
  BY DEF TypeOK, Places
<1>3. \A j \in Uploads : Over(k)[j] = up[j] \/ (Over(k)[j].at = "over" /\ up[j].at # "unsent")
  BY <1>1, <1>2, FlyingAre
<1>4. ASSUME NEW j \in Flying(Over(k)) PROVE ~Seen(j)
  <2>1. j \in Uploads /\ j # k /\ j \in Flying(up)
    BY <1>1, <1>2, FlyingAre
  <2>2. Met(k, j) \/ j \in gaps
    BY <2>1 DEF Shown, Company
  <2> QED
    BY <2>2, MetIsNotSeen DEF Seen
<1> QED
  BY <1>1, <1>2, <1>3, <1>4, ContinueShown DEF Goes

LEMMA UsersShown ==
  ASSUME TypeOK, TypeOK', Shown, (\E n \in 1..MaxBatch : Pick(n)) \/ Cancel \/ Dismiss \/ Unstage \/ Timer
  PROVE  Shown'
<1>0. up \in [Uploads -> [at : Places, rest : Nat]]
  BY DEF TypeOK, Places
<1>1. ASSUME NEW n \in 1..MaxBatch, Pick(n) PROVE Shown'
  <2>1. ASSUME NEW j \in Flying(up) PROVE ~Seen(j)
    <3>1. j \in Uploads /\ ~IsUploading
      BY <1>0, <1>1, FlyingAre DEF Pick, Enabled
    <3> QED
      BY <3>1, HonestIsBusy DEF Shown
  <2>2. n \in Nat
    BY UploadsAssumption
  <2>3. CASE Continue(up, n)
    BY <1>0, <2>1, <2>2, <2>3, ContinueShown
  <2>4. ASSUME NEW refused \in BOOLEAN, Begin(up, NextFile, 0, refused) PROVE Shown'
    <3>1. NextFile \in Uploads /\ up[NextFile].at = "unsent"
      BY <1>1, NextIsUnsent DEF Pick
    <3> QED
      BY <1>0, <2>1, <2>4, <3>1, BeginShown
  <2> QED
    BY <1>1, <2>3, <2>4 DEF Pick
<1>2. CASE Cancel
  <2>1. CASE xhr # 0 /\ up[xhr].at = "put"
    <3>1. xhr \in Uploads /\ up' = Over(xhr)
      BY <1>2, <2>1 DEF TypeOK, Cancel
    <3>2. \A j \in Uploads : up'[j].at \in {up[j].at, "over"}
      BY <3>1, OverTyped
    <3>3. Reset(up') /\ UNCHANGED <<gaps, met>>
      BY <1>2, <2>1, <3>1 DEF Cancel
    <3> QED
      BY <3>2, <3>3, ResetShown
  <2>2. CASE ~(xhr # 0 /\ up[xhr].at = "put")
    <3>1. up' = up /\ Reset(up') /\ UNCHANGED <<gaps, met>>
      BY <1>2, <2>2 DEF Cancel
    <3> QED
      BY <3>1, ResetShown
  <2> QED
    BY <2>1, <2>2
<1>3. CASE Dismiss \/ Timer
  <2>1. up' = up /\ Reset(up') /\ UNCHANGED <<gaps, met>>
    BY <1>3 DEF Dismiss, Timer
  <2> QED
    BY <2>1, ResetShown
<1>4. CASE Unstage
  BY <1>4, FewerShown DEF Unstage, hook, history
<1> QED
  BY <1>1, <1>2, <1>3, <1>4

LEMMA AnswersShown ==
  ASSUME TypeOK, TypeOK', Shown, NEW k \in Uploads,
         \/ UrlMinted(k) \/ BytesPut(k) \/ Failed(k)
         \/ Finalized(k) \/ Resolved(k) \/ Attached(k) \/ NotHandedOver(k)
  PROVE  Shown'
<1>1. /\ Over(k) = [up EXCEPT ![k].at = "over"]
      /\ \A j \in Uploads : Over(k)[j].at \in {up[j].at, "over"}
  BY OverTyped DEF Over
<1>2. CASE UrlMinted(k) \/ BytesPut(k)
  <2>1. k \in Flying(up) /\ UNCHANGED <<adrift, gaps, met>>
    BY <1>2, StageIs DEF UrlMinted, BytesPut, Steps, Flying, InFlight
  <2>2. CASE cancelled
    BY <1>1, <1>2, <2>1, <2>2, OwnStepShown DEF UrlMinted, BytesPut
  <2>3. CASE ~cancelled
    <3>1. PICK at \in {"put", "finalize"} : Steps(k, at)
      BY <1>2, <2>3 DEF UrlMinted, BytesPut
    <3>2. up' = [up EXCEPT ![k].at = at] /\ progress' = Now(progress, Stage[at])
      BY <3>1 DEF Steps
    <3> QED
      BY <2>1, <3>2, OwnStepShown
  <2> QED
    BY <2>2, <2>3
<1>3. CASE Failed(k)
  <2>1. k \in Flying(up)
    BY <1>3 DEF Failed, Flying
  <2> QED
    BY <1>1, <1>3, <2>1, GoesShown, OwnStepShown DEF Failed
<1>4. CASE Finalized(k) /\ host.resolves
  <2>1. k \in Flying(up)
    BY <1>4, StageIs DEF Finalized, Done, Flying, InFlight
  <2> QED
    BY <1>4, <2>1, OwnStepShown DEF Finalized
<1>5. CASE Finalized(k) /\ ~host.resolves
  <2>1. up' = Over(k) /\ Reset(up') /\ UNCHANGED <<gaps, met>>
    BY <1>5 DEF Finalized
  <2> QED
    BY <1>1, <2>1, ResetShown
<1>6. CASE Resolved(k)
  <2>1. CASE host.attaches
    <3>1. /\ up' = [up EXCEPT ![k].at = "attach"] /\ up[k].at = "resolve"
          /\ UNCHANGED <<progress, adrift, gaps, met>>
      BY <1>6, <2>1 DEF Resolved, hook
    <3> QED
      BY <3>1, FewerShown DEF TypeOK
  <2>2. CASE ~host.attaches /\ host.delays
    <3>1. up' = Over(k) /\ UNCHANGED <<progress, adrift, gaps, met>>
      BY <1>6, <2>2 DEF Resolved, hook
    <3> QED
      BY <1>1, <3>1, FewerShown
  <2>3. CASE ~host.attaches /\ ~host.delays
    <3>1. up' = Over(k) /\ Reset(up') /\ UNCHANGED <<gaps, met>>
      BY <1>6, <2>3 DEF Resolved
    <3> QED
      BY <1>1, <3>1, ResetShown
  <2> QED
    BY <2>1, <2>2, <2>3
<1>7. CASE Attached(k) \/ NotHandedOver(k)
  <2>1. k \in HandingOver(up)
    BY <1>7 DEF Attached, NotHandedOver, HandingOver
  <2>2. CASE Goes(Over(k), k)
    BY <2>1, <2>2, GoesShown
  <2>3. CASE ~Goes(Over(k), k)
    <3>1. up' = Over(k) /\ UNCHANGED <<progress, adrift, gaps, met>>
      BY <1>7, <2>3 DEF Attached, NotHandedOver, hook
    <3> QED
      BY <1>1, <3>1, FewerShown
  <2> QED
    BY <2>2, <2>3
<1> QED
  BY <1>2, <1>3, <1>4, <1>5, <1>6, <1>7

LEMMA AlwaysShown == Spec => []Shown
<1>1. Init => Shown
  BY StageIs DEF Init, Shown, OneAtATime, Seen, Company, Flying, InFlight
<1>2. TypeOK /\ Shown /\ [Next]_vars => Shown'
  <2> SUFFICES ASSUME TypeOK, Shown, [Next]_vars PROVE Shown'
    OBVIOUS
  <2>1. TypeOK'
    BY EveryStep
  <2>2. ASSUME NEW k \in Uploads, Serve(k) PROVE Shown'
    BY <2>1, <2>2, FewerShown DEF Serve, hook, history
  <2>3. CASE UNCHANGED vars
    BY <2>1, <2>3, FewerShown DEF vars, hook, history
  <2> QED
    BY <2>1, <2>2, <2>3, ActionCases, UsersShown, AnswersShown
<1> QED
  BY <1>1, <1>2, TypeCorrect, PTL DEF Spec

\* The disabled button keeps the uploads of a hook apart: two are in flight together
\* only after a reset let go of one, or in the gap between finalize and the handing over.
THEOREM UploadsKeptApart == Spec => []OneAtATime
<1>1. Shown => OneAtATime
  BY DEF Shown
<1> QED
  BY <1>1, AlwaysShown, PTL

\* The snapshot shows the one upload in flight at its stage, for as long as nothing
\* let go of it and it met no other.
THEOREM SnapshotIsHonest == Spec => []ProgressHonest
<1>1. Shown => ProgressHonest
  BY DEF Shown, ProgressHonest, Seen, Honest, Flying
<1> QED
  BY <1>1, AlwaysShown, PTL
=============================================================================
