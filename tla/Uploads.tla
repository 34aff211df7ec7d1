------------------------------- MODULE Uploads -------------------------------
(***************************************************************************)
(* useFileUpload and the four components that call it.  One hook instance   *)
(* has one progress snapshot, one cancelled flag and one request to abort,  *)
(* whatever number of uploads run in it: what keeps them apart is that the  *)
(* component disables its button while the snapshot says busy.              *)
(***************************************************************************)
EXTENDS Naturals, Sequences, SequencesExt

CONSTANTS
    Hosts,       \* the components
    MaxUploads,  \* bound on files picked
    MaxBatch,    \* bound on files picked at once
    MaxCancels   \* bound on cancels and dismissals

ASSUME UploadsAssumption == {MaxUploads, MaxBatch, MaxCancels} \subseteq Nat \ {0}

VARIABLES
    host,       \* the component this behaviour is about
    up,         \* up[k]: where the k-th upload stands, and the files its batch has left
    asset,      \* asset[k]: its file on the server
    progress,   \* the snapshot: whose file name, which status
    cancelled,  \* cancelledRef
    xhr,        \* xhrRef: the upload it puts, or 0
    observed,   \* the upload the component's own mutation was last called for, or 0
    timers,     \* delayed resets (ImageInput)
    staged,     \* the composer's attachment, or 0
    given,      \* the uploads handed to the component, in order
    cancels,
    \* What happened so far, for the properties:
    adrift,     \* uploads in flight that a reset() let go of
    gaps,       \* uploads begun while another was finalized but not handed over
    met,        \* pairs of uploads that were in flight together
    aborted     \* uploads cancelled while their bytes were on the way, alone

hook == <<progress, cancelled, xhr>>
widget == <<observed, timers, staged, given>>
history == <<adrift, gaps, met, aborted>>
vars == <<host, up, asset, hook, widget, cancels, history>>

-----------------------------------------------------------------------------
(* The components. *)

Host(name, busy, cancels_, multiple) ==
    [name |-> name, busy |-> busy, cancels |-> cancels_, multiple |-> multiple,
     resolves |-> name # "dropzone", attaches |-> FALSE, delays |-> FALSE, stages |-> FALSE]

\* busy: the component's own requests that disable its button, besides the hook.
FileDropzone == Host("dropzone", {}, {"preparing", "uploading", "finalizing"}, FALSE)
ImageInput == [Host("image", {"resolve"}, {}, FALSE) EXCEPT !.delays = TRUE]
AdminImageInput == [ImageInput EXCEPT !.name = "admin image"]
Composer == [Host("composer", {}, {"preparing", "uploading", "finalizing", "error"}, FALSE) EXCEPT !.stages = TRUE]
ProductImageManager == [Host("images", {"attach"}, {}, TRUE) EXCEPT !.attaches = TRUE]

-----------------------------------------------------------------------------
Uploads == 1..MaxUploads
Idle == [file |-> 0, status |-> "none"]
Stage == [url |-> "preparing", put |-> "uploading", finalize |-> "finalizing"]
InFlight(u, k) == u[k].at \in DOMAIN Stage
Flying(u) == {k \in Uploads : InFlight(u, k)}
HandingOver(u) == {k \in Uploads : u[k].at \in {"resolve", "attach"}}
IsUploading == progress.status \in {"preparing", "uploading", "finalizing"}

\* setProgress((p) => p ? ... : null)
Now(p, s) == IF p = Idle THEN p ELSE [p EXCEPT !.status = s]

\* reset(), in a render where the uploads are u.
Reset(u) ==
    /\ progress' = Idle /\ cancelled' = FALSE /\ xhr' = 0
    /\ adrift' = adrift \cup Flying(u)

Unsent == {k \in Uploads : up[k].at = "unsent"}
NextFile == CHOOSE k \in Unsent : TRUE

\* upload(file): a file of a wrong kind or size is refused at once.
Begin(u, k, rest, refused) ==
    /\ cancelled' = FALSE
    /\ progress' = [file |-> k, status |-> IF refused THEN "error" ELSE "preparing"]
    /\ up' = [u EXCEPT ![k] = [at |-> IF refused THEN "over" ELSE "url", rest |-> rest]]
    /\ met' = met \cup (IF refused THEN {} ELSE {<<j, k>> : j \in Flying(u)})
    /\ gaps' = IF ~refused /\ HandingOver(u) # {} THEN gaps \cup {k} ELSE gaps
    /\ UNCHANGED <<xhr, adrift>>

\* The next file of a batch that is not refused is uploaded: a refused one is
\* caught in the loop, and what the snapshot said of it is replaced at once.
\* After the last file of a batch, refused or not, the snapshot is reset.
Continue(u, files) ==
    \/ /\ Unsent # {}
       /\ \E left \in 0..(files - 1) : Begin(u, NextFile, left, FALSE)
    \/ up' = u /\ Reset(u) /\ UNCHANGED <<gaps, met>>

\* An upload of u is over: a batch goes on with the files it has left.
Goes(u, k) == Continue(u, up[k].rest)
Over(k) == [up EXCEPT ![k].at = "over"]

-----------------------------------------------------------------------------
(* The user. *)

\* Faulty: the drop handler forgets isUploading
AlwaysEnabled == staged = 0

Enabled ==
    /\ ~IsUploading
    /\ observed # 0 => up[observed].at \notin host.busy
    /\ staged = 0

Pick(n) ==
    /\ Unsent # {} /\ Enabled
    /\ \/ host.multiple /\ Continue(up, n)
       \/ ~host.multiple /\ n = 1 /\ \E refused \in BOOLEAN : Begin(up, NextFile, 0, refused)
    /\ UNCHANGED <<host, asset, widget, cancels, aborted>>

\* Faulty: the request is left to run
CancelFlag ==
    /\ progress.status \in host.cancels /\ cancels < MaxCancels
    /\ cancels' = cancels + 1
    /\ UNCHANGED up
    /\ aborted' = IF Flying(up) = {xhr} /\ up[xhr].at = "put" THEN aborted \cup {xhr} ELSE aborted
    /\ Reset(up)
    /\ UNCHANGED <<host, asset, widget, gaps, met>>

\* cancel() and reset() in one handler: the flag is down again before an upload
\* that prepares or finalizes looks at it, so only the bytes are stopped.
Cancel ==
    LET stops == xhr # 0 /\ up[xhr].at = "put"
        u == IF stops THEN Over(xhr) ELSE up
    IN  /\ progress.status \in host.cancels /\ cancels < MaxCancels
        /\ cancels' = cancels + 1
        /\ up' = u
        /\ aborted' = IF stops /\ Flying(up) = {xhr} THEN aborted \cup {xhr} ELSE aborted
        /\ Reset(u)
        /\ UNCHANGED <<host, asset, widget, gaps, met>>

Dismiss ==
    /\ host.name = "dropzone" /\ progress.status = "error" /\ cancels < MaxCancels
    /\ cancels' = cancels + 1
    /\ Reset(up)
    /\ UNCHANGED <<host, up, asset, widget, gaps, met, aborted>>

\* The attachment is sent or taken off.
Unstage ==
    /\ staged # 0
    /\ staged' = 0
    /\ UNCHANGED <<host, up, asset, hook, observed, timers, given, cancels, history>>

-----------------------------------------------------------------------------
(* The server and the object store (external).  Finalizing also succeeds   *)
(* for a file that the scanner then has quarantined.                       *)

Final == {"available", "quarantined"}

Serve(k) ==
    /\ \/ up[k].at = "url" /\ asset[k] = "none" /\ asset' = [asset EXCEPT ![k] = "pending"]
       \/ up[k].at = "put" /\ asset[k] = "pending" /\ asset' = [asset EXCEPT ![k] = "stored"]
       \/ /\ up[k].at = "finalize" /\ asset[k] = "stored"
          /\ \E status \in Final : asset' = [asset EXCEPT ![k] = status]
    /\ UNCHANGED <<host, up, hook, widget, cancels, history>>

-----------------------------------------------------------------------------
(* What the awaits of upload() and of its caller come back to. *)

\* Faulty: the snapshot is not moved on
StepsQuietly(k, at) ==
    /\ up' = [up EXCEPT ![k].at = at]
    /\ UNCHANGED <<progress, cancelled, adrift, met>>

Steps(k, at) ==
    /\ up' = [up EXCEPT ![k].at = at]
    /\ progress' = Now(progress, Stage[at])
    /\ UNCHANGED <<cancelled, adrift, met>>

UrlMinted(k) ==
    /\ up[k].at = "url" /\ asset[k] = "pending"
    /\ IF cancelled THEN up' = Over(k) /\ UNCHANGED <<hook, adrift, met>>
       ELSE Steps(k, "put") /\ xhr' = k
    /\ UNCHANGED <<host, asset, widget, cancels, gaps, aborted>>

BytesPut(k) ==
    /\ up[k].at = "put" /\ asset[k] = "stored"
    /\ IF cancelled THEN up' = Over(k) /\ UNCHANGED <<hook, adrift, met>>
       ELSE Steps(k, "finalize") /\ UNCHANGED xhr
    /\ UNCHANGED <<host, asset, widget, cancels, gaps, aborted>>

\* Faulty: a failed upload leaves the snapshot as it is
FailedQuietly(k) ==
    /\ InFlight(up, k)
    /\ UNCHANGED <<hook, adrift, met>>
    /\ up' = Over(k)
    /\ UNCHANGED <<host, asset, widget, cancels, gaps, aborted>>

\* Any of the three fails: the snapshot says so, unless it was reset.
Failed(k) ==
    /\ InFlight(up, k)
    /\ IF host.multiple THEN Goes(Over(k), k)
       ELSE /\ up' = Over(k)
            /\ progress' = Now(progress, "error")
            /\ UNCHANGED <<cancelled, xhr, adrift, gaps, met>>
    /\ UNCHANGED <<host, asset, widget, cancels, aborted>>

\* Faulty: that finalize failed is not looked at
StoredIsDone(k) == up[k].at = "finalize" /\ asset[k] \in {"stored"} \cup Final

\* The call has succeeded; the status it answers with is not looked at.
Done(k) == up[k].at = "finalize" /\ asset[k] \in Final

\* The dropzone is handed the file; the others have a request of their own to make.
Finalized(k) ==
    /\ Done(k)
    /\ IF host.resolves
       THEN /\ up' = [up EXCEPT ![k].at = "resolve"]
            /\ progress' = Now(progress, "done")
            /\ xhr' = 0
            /\ observed' = IF "resolve" \in host.busy THEN k ELSE observed
            /\ UNCHANGED <<cancelled, given, adrift, met>>
       ELSE /\ given' = Append(given, k)
            /\ up' = Over(k) /\ Reset(Over(k))
            /\ UNCHANGED <<observed, met>>
    /\ UNCHANGED <<host, asset, timers, staged, cancels, gaps, aborted>>

\* Its URL is there: the image is set and the snapshot reset 1.5 s later; the
\* composer stages it and resets; the product's manager attaches it first.
Resolved(k) ==
    /\ up[k].at = "resolve"
    /\ IF host.attaches
       THEN up' = [up EXCEPT ![k].at = "attach"] /\ observed' = k /\ UNCHANGED <<given, hook, adrift, timers, staged>>
       ELSE /\ given' = Append(given, k)
            /\ up' = Over(k)
            /\ timers' = IF host.delays THEN timers + 1 ELSE timers
            /\ staged' = IF host.stages THEN k ELSE staged
            /\ IF host.delays THEN UNCHANGED <<hook, adrift>> ELSE Reset(Over(k))
            /\ UNCHANGED observed
    /\ UNCHANGED <<host, asset, cancels, gaps, met, aborted>>

Attached(k) ==
    /\ up[k].at = "attach"
    /\ given' = Append(given, k)
    /\ Goes(Over(k), k)
    /\ UNCHANGED <<host, asset, observed, timers, staged, cancels, aborted>>

\* The component's own request fails: a toast, and the snapshot stays at "done".
NotHandedOver(k) ==
    /\ up[k].at \in {"resolve", "attach"}
    /\ IF host.multiple THEN Goes(Over(k), k) ELSE up' = Over(k) /\ UNCHANGED <<hook, adrift, gaps, met>>
    /\ UNCHANGED <<host, asset, widget, cancels, aborted>>

Timer ==
    /\ timers > 0
    /\ timers' = timers - 1
    /\ Reset(up)
    /\ UNCHANGED <<host, up, asset, observed, staged, given, cancels, gaps, met, aborted>>

-----------------------------------------------------------------------------
Init ==
    /\ host \in Hosts
    /\ up = [k \in Uploads |-> [at |-> "unsent", rest |-> 0]]
    /\ asset = [k \in Uploads |-> "none"]
    /\ progress = Idle /\ cancelled = FALSE /\ xhr = 0
    /\ observed = 0 /\ timers = 0 /\ staged = 0 /\ given = <<>> /\ cancels = 0
    /\ adrift = {} /\ gaps = {} /\ met = {} /\ aborted = {}

Answered(k) ==
    UrlMinted(k) \/ BytesPut(k) \/ Failed(k) \/ Finalized(k) \/ Resolved(k) \/ Attached(k) \/ NotHandedOver(k)

Next ==
    \/ \E n \in 1..MaxBatch : Pick(n)
    \/ Cancel \/ Dismiss \/ Unstage \/ Timer
    \/ \E k \in Uploads : Serve(k) \/ Answered(k)

\* A request is answered or fails in the end (withTimeout, the XHR's own errors).
Fairness == WF_vars(Timer) /\ \A k \in Uploads : WF_vars(Answered(k))

Spec == Init /\ [][Next]_vars /\ Fairness

-----------------------------------------------------------------------------
\* The types; and the request to abort is one that was sent.
TypeOK ==
    /\ host \in Hosts
    /\ up \in [Uploads -> [at : {"unsent", "resolve", "attach", "over"} \cup DOMAIN Stage, rest : Nat]]
    /\ asset \in [Uploads -> {"none", "pending", "stored"} \cup Final]
    /\ progress \in [file : Uploads, status : {"preparing", "uploading", "finalizing", "done", "error"}]
                    \cup {Idle}
    /\ cancelled \in BOOLEAN /\ timers \in Nat /\ observed \in 0..MaxUploads
    /\ xhr # 0 => xhr \in Uploads /\ up[xhr].at \in {"put", "finalize", "over"}
    /\ given \in Seq(Uploads) /\ staged \in {0} \cup ToSet(given)

\* A component is handed files only that the server has finalized, each once,
\* whatever was cancelled, dismissed or failed in between.
GivenIsFinalized ==
    /\ \A k \in ToSet(given) : asset[k] \in Final
    /\ IsInjective(given)

\* Two uploads of a hook are in flight together only after a reset() has let go of
\* one (a cancel that came too early or too late, the delayed reset), or one was
\* begun while the component was still busy with another's URL.
OneAtATime == met # {} => adrift \cup gaps # {}

\* The snapshot shows the upload in flight, at its stage, unless it was let go of or
\* met another.
ProgressHonest ==
    \A k \in Flying(up) \ (adrift \cup gaps) :
        (\A p \in met : k \notin {p[1], p[2]}) => progress = [file |-> k, status |-> Stage[up[k].at]]

\* An upload cancelled while its bytes are on the way is never finalized.
CancelStopsBytes == \A k \in aborted : asset[k] \notin Final /\ k \notin ToSet(given)

\* However its requests end, a component does not stay busy.
EndsIdle == <>[]~IsUploading
=============================================================================
