----------------------------- MODULE ViewCache -----------------------------
(***************************************************************************)
(* What a web client shows after its user changed something on one of its   *)
(* pages: an entry of the query cache the pages share, its fetches in       *)
(* flight, and what the useMutation hooks of the page invalidate.  Pages    *)
(* are data (Pages).  Entries do not affect each other, so a behaviour      *)
(* follows one of them.  The server is a clock: a write of this user is one *)
(* tick, and an answer carries the tick it was read at.                     *)
(***************************************************************************)
EXTENDS Visits, Naturals, Sequences, FiniteSets

CONSTANTS
    MaxWrites,  \* bound on writes the server applies
    LeftToAge   \* <<client, <<mutation, key>>>>: not refreshed by it, waits for staleTime

VARIABLES
    key,      \* the key of the entry it follows
    dialog,   \* the dialog that is open, or NoForm
    entry,    \* the query cache entry
    writing,  \* this user's mutations without an answer processed
    clock,    \* writes the server has applied
    wrote     \* the last settled write of this user to what the entry reads

subject == <<screen, key>>
view == <<shown, visit, dialog>>
server == <<clock, wrote>>
cacheVars == <<subject, view, entry, writing, server>>

-----------------------------------------------------------------------------
NoWrite == [at |-> 0, by |-> ""]

Writes(n) == UNION {UNION {o.writes : o \in f.ops} : f \in Page[n].forms}
QueriesOf(app) == UNION {s.queries : s \in {p \in Screens : p.app = app}}

\* The pages of a client share its query cache: a page is followed on its own
\* entries, and on those of every page that shows what it writes.
Followed(n) ==
    Page[n].queries \cup {q \in QueriesOf(Page[n].app) : q.reads \cap Writes(n) # {}}

Observed == shown /\ ("page" \in entry.on \/ dialog \in entry.on)
Hit(op, k) == \E p \in op.refreshes : Len(p) <= Len(k) /\ SubSeq(k, 1, Len(p)) = p

-----------------------------------------------------------------------------
(* @tanstack/react-query (external). *)

Start(c) == [c EXCEPT !.fetch = "out", !.raced = FALSE]

\* A new observer refetches what is missing, invalidated or older than
\* staleTime; it joins a fetch already in flight.
Mount(c, aged) ==
    IF c.fetch = "idle" /\ (~c.loaded \/ c.invalid \/ aged) THEN Start(c) ELSE c

\* invalidateQueries marks the entry and refetches it when it is observed.  A
\* refetch in flight is restarted only when there is data already; a first load
\* is joined and a fetch nobody observes is left alone: both may bring data
\* older than the write (raced, and late once it is there).
Invalidated ==
    LET c == [entry EXCEPT !.invalid = TRUE]
    IN  IF Observed /\ (c.fetch = "idle" \/ c.loaded) THEN Start(c)
        ELSE [c EXCEPT !.raced = @ \/ c.fetch # "idle"]

FetchAnswer ==
    /\ entry.fetch = "out"
    /\ entry' = [entry EXCEPT !.fetch = "back", !.got = clock]
    /\ UNCHANGED <<subject, view, writing, server>>

FetchSettle ==
    /\ entry.fetch = "back"
    /\ entry' = [entry EXCEPT !.fetch = "idle", !.loaded = TRUE, !.invalid = FALSE,
                              !.data = entry.got, !.got = 0, !.late = entry.raced]
    /\ UNCHANGED <<subject, view, writing, server>>

\* The retries are used up: the data there was stays.
FetchFail ==
    /\ entry.fetch = "out"
    /\ entry' = [entry EXCEPT !.fetch = "idle"]
    /\ UNCHANGED <<subject, view, writing, server>>

\* refetchInterval of an observed query.
Poll ==
    /\ Observed /\ entry.polls /\ entry.fetch = "idle"
    /\ entry' = Start(entry)
    /\ UNCHANGED <<subject, view, writing, server>>

-----------------------------------------------------------------------------
(* The user. *)

MountedOn(place) ==
    IF place \in entry.on THEN entry' \in {Mount(entry, aged) : aged \in BOOLEAN}
    ELSE UNCHANGED entry

OpenDialog(d) ==
    /\ shown /\ dialog = NoForm
    /\ dialog' = d
    /\ MountedOn(d)
    /\ UNCHANGED <<subject, shown, visit, writing, server>>

CloseDialog ==
    /\ dialog # NoForm
    /\ dialog' = NoForm
    /\ UNCHANGED <<subject, shown, visit, entry, writing, server>>

\* A mutation of the page, of whichever form (ViewForms says when it can be
\* sent); those that touch neither the entry nor the page are left out.  What
\* stands on a row waits for the page's data.
Mutate(f, op) ==
    /\ op.writes \cap entry.reads # {} \/ Hit(op, key) \/ op.leaves
    /\ shown /\ clock + Cardinality(writing) < MaxWrites
    /\ (f.row /\ {q.key : q \in {p \in Page[screen].queries : p.on = "page"}} = {key})
           => entry.loaded
    /\ writing' = writing \cup {[op |-> op, visit |-> visit, at |-> 0]}
    /\ UNCHANGED <<subject, view, entry, server>>

\* onSuccess: it runs whether or not the page is still mounted, invalidates,
\* closes the dialog and on some pages navigates away.
Succeed(r) ==
    LET here == shown /\ r.visit = visit
    IN  /\ r.at > 0
        /\ writing' = writing \ {r}
        /\ wrote' = IF r.op.writes \cap entry.reads # {} /\ r.at > wrote.at
                    THEN [at |-> r.at, by |-> r.op.does] ELSE wrote
        /\ entry' = IF Hit(r.op, key) THEN Invalidated ELSE entry
        /\ shown' = (shown /\ ~r.op.leaves)
        /\ dialog' = IF here \/ ~shown' THEN NoForm ELSE dialog
        /\ UNCHANGED <<subject, visit, clock>>

\* onError: every entry stays as it is.
Fail(r) ==
    /\ r.at = 0
    /\ writing' = writing \ {r}
    /\ UNCHANGED <<subject, view, entry, server>>

\* The server applies the request (external).
Apply(r) ==
    /\ r.at = 0 /\ clock < MaxWrites
    /\ clock' = clock + 1
    /\ writing' = (writing \ {r}) \cup {[r EXCEPT !.at = clock + 1]}
    /\ UNCHANGED <<subject, view, entry, wrote>>

LeavePage ==
    /\ shown
    /\ shown' = FALSE /\ dialog' = NoForm
    /\ UNCHANGED <<subject, visit, entry, writing, server>>

ReturnToPage ==
    /\ ~shown /\ visit < MaxVisits
    /\ shown' = TRUE /\ visit' = visit + 1
    /\ MountedOn("page")
    /\ UNCHANGED <<subject, dialog, writing, server>>

-----------------------------------------------------------------------------
\* The entry of key k, and where page n mounts it (nowhere: another page does).
Entry(n, k, loaded) ==
    LET here == {q \in Page[n].queries : q.key = k}
    IN  [on |-> {q.on : q \in here}, polls |-> \E q \in here : q.polls,
         reads |-> UNION {q.reads : q \in {p \in Followed(n) : p.key = k}},
         loaded |-> loaded, data |-> 0, invalid |-> FALSE, fetch |-> "idle", got |-> 0,
         raced |-> FALSE, late |-> FALSE]

\* The page has been there for a while, or the entry is in its first load; what
\* other pages show was loaded before, what a dialog shows was not.
CacheInit ==
    /\ screen \in DOMAIN Page
    /\ key \in {q.key : q \in Followed(screen)}
    /\ shown = TRUE /\ visit = 1 /\ dialog = NoForm
    /\ writing = {} /\ clock = 0 /\ wrote = NoWrite
    /\ LET c == Entry(screen, key, TRUE)
       IN  IF "page" \in c.on THEN entry \in {c, Start([c EXCEPT !.loaded = FALSE])}
           ELSE entry = [c EXCEPT !.loaded = (c.on = {})]

CacheNext ==
    \/ FetchAnswer \/ FetchSettle \/ FetchFail \/ Poll
    \/ \E d \in entry.on \ {"page"} : OpenDialog(d)
    \/ \E f \in Page[screen].forms : \E op \in f.ops : Mutate(f, op)
    \/ \E r \in writing : Succeed(r) \/ Fail(r) \/ Apply(r)
    \/ CloseDialog \/ LeavePage \/ ReturnToPage

CacheSpec == CacheInit /\ [][CacheNext]_cacheVars

-----------------------------------------------------------------------------
\* An entry believed fresh shows every settled write of this user to what it
\* reads, unless that write overtook the fetch it came from.
OwnWritesShown ==
    \/ entry.data >= wrote.at
    \/ ~entry.loaded \/ entry.invalid \/ entry.fetch # "idle" \/ entry.late
    \/ <<Page[screen].app, <<wrote.by, key>>>> \in LeftToAge

\* What keeps this true, as the tables tell it: a mutation refreshes every entry
\* that shows what it writes, or is listed as leaving it to staleTime.
RefreshedPages ==
    \A n \in DOMAIN Page : \A f \in Page[n].forms : \A op \in f.ops :
        \A k \in {q.key : q \in Followed(n)} :
            op.writes \cap Entry(n, k, TRUE).reads # {} =>
                \/ Hit(op, k)
                \/ <<Page[n].app, <<op.does, k>>>> \in LeftToAge
=============================================================================
