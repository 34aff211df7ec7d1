----------------------------- MODULE ViewForms -----------------------------
(***************************************************************************)
(* The dialogs, row buttons and inline forms of one page of a web client:   *)
(* what a user can open, type and send, and what the late answer of a       *)
(* mutation does to the page it comes back to.  Pages are data (Pages);     *)
(* this module is what React state and useMutation do with them.            *)
(***************************************************************************)
EXTENDS Visits, Naturals, FiniteSets

CONSTANTS
    MaxOpenings,  \* bound on dialogs opened
    MaxRequests,  \* bound on mutations sent
    \* Where the code does less than a property below; pairs <<page, form>>.
    Resendable,   \* can be sent again before its answer
    Overwritten,  \* an answer takes input typed since its request
    Remembered,   \* opens with the input of an earlier opening
    Reseeded      \* a refetch overwrites the input

VARIABLES
    cast,     \* the forms the user works with (see Casts)
    form,     \* the dialog that is open, or NoForm
    opening,  \* how many dialogs were opened
    draft,    \* draft[f]: the input of form f: blank, typed, sent
    reqs,     \* mutations without an answer processed
    sent,     \* how many were sent
    last,     \* last[f]: the request f's useMutation observes, 0 for none
    marker,   \* the row a list's one busyId names, 0 for none
    behind    \* the data the page shows has changed on the server

whom == <<screen, cast>>
ui == <<shown, visit, form, opening>>
mutations == <<reqs, sent, last, marker>>
vars == <<whom, ui, draft, mutations, behind>>

-----------------------------------------------------------------------------
FormOf == [n \in DOMAIN Page |->
              [m \in {f.name : f \in Page[n].forms} |-> CHOOSE f \in Page[n].forms : f.name = m]]
Cast == {FormOf[screen][n] : n \in cast}
OpOf(f, does) == CHOOSE o \in f.ops : o.does = does
Rows(f) == IF f.each THEN {1, 2} ELSE {0}
\* One more request to come back to the first row of a list.
Bound(f) == MaxRequests + (IF f.each THEN 1 ELSE 0)

Usable(f) == shown /\ form = IF f.dialog THEN f.name ELSE f.place

\* mutation.isPending: of the request sent last, whatever became of the others.
IsPending(f) == \E r \in reqs : r.id = last[f.name]

Disabled(f, row) ==
    \/ \E g \in Cast : g.name \in f.also /\ IsPending(g)
    \/ CASE f.guard = "mutation" -> IsPending(f)
         [] f.guard = "latest"   -> \E r \in reqs : r.id = last[f.name] /\ r.row = row
         [] f.guard = "row"      -> \E r \in reqs : /\ r.form = f.name /\ r.row = row /\ r.visit = visit
                                                   /\ f.lives = "open" => r.opening = opening
         [] f.guard = "marker"   -> marker = row
         [] f.guard = "none"     -> FALSE

Emptied(fs) == [n \in cast |-> IF n \in {f.name : f \in fs} THEN "blank" ELSE draft[n]]
In(d) == {f \in Cast : d.name \in {f.name, f.place}}
Showing == {f \in Cast : form # NoForm /\ form \in {f.name, f.place}}
StartsBlank == {f \in Cast : f.lives = "open" \/ "open" \in f.clears}

-----------------------------------------------------------------------------
\* A dialog opens over the page: there is one at a time.
Open(f) ==
    /\ shown /\ f.dialog /\ form = NoForm
    /\ opening < MaxOpenings
    /\ form' = f.name
    /\ opening' = opening + 1
    /\ draft' = Emptied(In(f) \cap StartsBlank)
    /\ last' = [n \in cast |-> IF \E g \in In(f) : g.name = n /\ g.lives = "open" THEN 0 ELSE last[n]]
    /\ UNCHANGED <<whom, shown, visit, reqs, sent, marker, behind>>

Close(f) ==
    /\ shown /\ f.dialog /\ form = f.name
    /\ f.holds => ~IsPending(f)
    /\ form' = NoForm
    /\ draft' = Emptied({g \in In(f) : "close" \in g.clears})
    /\ UNCHANGED <<whom, shown, visit, opening, mutations, behind>>

Type(f) ==
    /\ Usable(f) /\ f.typed /\ draft[f.name] # "typed"
    /\ f.locks => ~IsPending(f)
    /\ draft' = [draft EXCEPT ![f.name] = "typed"]
    /\ UNCHANGED <<whom, ui, mutations, behind>>

Submit(f, op, row) ==
    /\ Usable(f)
    /\ sent < Bound(f)
    /\ f.typed /\ ~f.optional => draft[f.name] # "blank"
    /\ ~Disabled(f, row) /\ (f.once => last[f.name] = 0)
    /\ reqs' = reqs \cup {[id |-> sent + 1, form |-> f.name, op |-> op.does, row |-> row,
                           visit |-> visit, opening |-> opening, answer |-> "none"]}
    /\ sent' = sent + 1
    /\ last' = [last EXCEPT ![f.name] = sent + 1]
    /\ marker' = IF f.guard = "marker" THEN row ELSE marker
    /\ draft' = [draft EXCEPT ![f.name] = IF f.typed THEN "sent" ELSE @]
    /\ UNCHANGED <<whom, ui, behind>>

\* onSuccess and onSettled run even when the component that sent the request is
\* gone: what they set is then the state of a page no longer mounted, but
\* navigate() moves the user off whatever page is shown by now.  What was typed in
\* a dialog that is shut is gone if that dialog opens blank.
Settle(f, r) ==
    LET here == shown /\ r.visit = visit
        ok == r.answer = "ok"
        op == OpOf(f, r.op)
        shuts == /\ here /\ (ok \/ f.drops)
                 /\ f.shuts = "editor" \/ (f.shuts = "own" /\ form = f.name)
    IN  /\ r.form = f.name /\ r.answer # "none"
        /\ reqs' = reqs \ {r}
        /\ marker' = IF f.guard = "marker" /\ here THEN 0 ELSE marker
        /\ shown' = (shown /\ ~(ok /\ op.leaves))
        /\ form' = IF shuts \/ ~shown' THEN NoForm ELSE form
        /\ draft' = Emptied((IF ok /\ here /\ "success" \in f.clears THEN {f} ELSE {})
                            \cup (IF shuts THEN Showing \cap StartsBlank ELSE {}))
        /\ UNCHANGED <<whom, visit, opening, sent, last, behind>>

Leave ==
    /\ shown /\ visit < MaxVisits
    /\ shown' = FALSE /\ form' = NoForm
    /\ UNCHANGED <<whom, visit, opening, draft, mutations, behind>>

Return ==
    /\ ~shown /\ visit < MaxVisits
    /\ shown' = TRUE /\ visit' = visit + 1
    /\ draft' = [n \in cast |-> "blank"]
    /\ last' = [n \in cast |-> 0]
    /\ marker' = 0 /\ behind' = FALSE
    /\ UNCHANGED <<whom, form, opening, reqs, sent>>

\* A refetch brings the page up to date (ViewCache says when); the input of a
\* form that follows the data is set from it again.
Refetch ==
    /\ shown /\ behind
    /\ behind' = FALSE
    /\ draft' = [n \in cast |-> LET f == FormOf[screen][n]
                               IN  IF f.live /\ Usable(f) THEN "blank" ELSE draft[n]]
    /\ UNCHANGED <<whom, ui, mutations>>

-----------------------------------------------------------------------------
\* The server (external): it applies a request or refuses it.
Answer(r, ok) ==
    /\ r.answer = "none"
    /\ reqs' = (reqs \ {r}) \cup {[r EXCEPT !.answer = IF ok THEN "ok" ELSE "refused"]}
    /\ behind' = (behind \/ ok)
    /\ UNCHANGED <<whom, ui, draft, sent, last, marker>>

\* Somebody else changes what the page shows.
Elsewhere ==
    /\ ~behind
    /\ behind' = TRUE
    /\ UNCHANGED <<whom, ui, draft, mutations>>

-----------------------------------------------------------------------------
\* Two forms meet through the one open dialog and the one busy marker only: two
\* dialogs of a page, or two users of its marker, are taken together, any other
\* form by itself.
Casts(forms) ==
    LET meet(m, n) == m # n /\ \/ forms[m].dialog /\ forms[n].dialog
                               \/ forms[m].guard = "marker" /\ forms[n].guard = "marker"
                               \/ forms[m].place = n \/ forms[n].place = m
                               \/ m \in forms[n].also \/ n \in forms[m].also
    IN  UNION {IF \E m \in DOMAIN forms : meet(m, n)
               THEN {{m, n} : m \in {x \in DOMAIN forms : meet(x, n)}}
               ELSE {{n}} : n \in DOMAIN forms}

Init ==
    /\ screen \in {n \in DOMAIN Page : Page[n].forms # {}}
    /\ cast \in Casts(FormOf[screen])
    /\ behind = FALSE
    /\ shown = TRUE /\ visit = 1 /\ form = NoForm /\ opening = 0
    /\ draft = [n \in cast |-> "blank"]
    /\ last = [n \in cast |-> 0]
    /\ marker = 0 /\ reqs = {} /\ sent = 0

Use(f) ==
    \/ Open(f) \/ Close(f) \/ Type(f)
    \/ \E op \in f.ops, row \in Rows(f) : Submit(f, op, row)

Serve == \E r \in reqs : \E ok \in BOOLEAN : Answer(r, ok)
Deliver(f) == \E r \in reqs : Settle(f, r)

Next ==
    \/ \E f \in Cast : Use(f) \/ Deliver(f)
    \/ Serve \/ Leave \/ Return \/ Refetch \/ Elsewhere

Spec == Init /\ [][Next]_vars

-----------------------------------------------------------------------------
\* The types; a dialog is open on a page that is shown, and no request is of a later
\* visit or opening.
TypeOK ==
    /\ screen \in DOMAIN Page /\ cast \subseteq DOMAIN FormOf[screen]
    /\ shown \in BOOLEAN /\ visit \in Nat \ {0} /\ opening \in Nat
    /\ form \in {NoForm} \cup cast /\ (form # NoForm => shown)
    /\ draft \in [cast -> {"blank", "typed", "sent"}]
    /\ sent \in Nat /\ last \in [cast -> 0..sent]
    /\ marker \in 0..2
    /\ reqs \subseteq [id : 1..sent, form : cast, row : 0..2, visit : 1..visit, opening : 0..opening,
                       op : UNION {{o.does : o \in f.ops} : f \in Page[screen].forms},
                       answer : {"none", "ok", "refused"}]

\* A form does not send for a row while its previous request for that row is
\* unanswered, whatever was closed and opened again in between.
SentOnce ==
    \A r, p \in reqs :
        (r.form = p.form /\ r.row = p.row /\ r.visit = p.visit /\ r.id # p.id)
            => <<screen, r.form>> \in Resendable

Settled(r) == r.id \notin {p.id : p \in reqs'}

\* A dialog opens empty: nothing typed for another row is left in it.
OpensBlank ==
    [][opening' # opening => \/ draft'[form'] = "blank"
                             \/ <<screen, form'>> \in Remembered]_vars

\* What is being typed is not taken from under the user: neither by the answer to
\* what this or another form sent before, which empties the input or shuts the dialog
\* it stands in, nor by a refetch in the background.  An answer that leaves the page
\* takes the whole page and is not meant.
InputSurvives ==
    [][\A f \in Cast : (draft[f.name] = "typed" /\ draft'[f.name] = "blank") =>
        /\ (\E r \in reqs : Settled(r)) => <<screen, f.name>> \in Overwritten
        /\ (behind /\ ~behind' /\ shown) => <<screen, f.name>> \in Reseeded]_vars

-----------------------------------------------------------------------------
(* What keeps each of these true of a form, as the tables tell it: the forms listed  *)
(* in the last four constants are those without it.                                  *)

\* The page watches the form's own requests: the one sent last, by a hook that
\* lives as long as the page, or those of each row.
Guards(f) == f.lives = "page" /\ f.guard \in {"mutation", "row"}
GuardedPages == \A s \in Screens : \A f \in s.forms : Guards(f) \/ <<s.name, f.name>> \in Resendable

\* A dialog with input is emptied when it opens, or whichever way it closes.
EmptiedOnOpening(f) == "open" \in f.clears \/ f.lives = "open"
EmptiedOnClosing(s, f) ==
    {"close", "success"} \subseteq f.clears /\ ~f.drops /\ \A g \in s.forms : g.shuts # "editor"
BlankPages ==
    \A s \in Screens : \A f \in s.forms :
        /\ f.name # NoForm
        /\ f.dialog /\ f.typed => \/ EmptiedOnOpening(f) \/ EmptiedOnClosing(s, f)
                                 \/ <<s.name, f.name>> \in Remembered

\* A form that its own answer empties, or shuts though it opens blank, cannot be
\* typed in while its page's hook is pending; no other form's answer shuts one that
\* opens blank; none that can be typed in follows the data.
LocksInput(f) == f.locks /\ f.lives = "page" /\ f.guard = "mutation"
EmptiedByAnswer(f) == "success" \in f.clears \/ (f.shuts # "none" /\ EmptiedOnOpening(f))
ShutByOthers(s, f) ==
    /\ EmptiedOnOpening(f)
    /\ \E g \in s.forms \ {f} : g.shuts = "editor" \/ (g.shuts = "own" /\ g.name = f.place)
KeptInputPages ==
    \A s \in Screens : \A f \in s.forms : f.typed =>
        /\ EmptiedByAnswer(f) => LocksInput(f) \/ <<s.name, f.name>> \in Overwritten
        /\ ShutByOthers(s, f) => <<s.name, f.name>> \in Overwritten
        /\ f.live => <<s.name, f.name>> \in Reseeded
=============================================================================
