----------------------------- MODULE PagesProofs -----------------------------
(***************************************************************************)
(* Theorems about ViewForms, and at the end about ViewCache, for any tables *)
(* of pages, and any number of openings, requests, writes and visits.       *)
(***************************************************************************)
EXTENDS ViewForms, ViewCache, TLAPS

Step(f) ==
    \/ Open(f) \/ Close(f) \/ Type(f)
    \/ \E op \in f.ops, row \in Rows(f) : Submit(f, op, row)
    \/ \E r \in reqs : Settle(f, r)

LEMMA ActionCases ==
  ASSUME [Next]_vars
  PROVE  \/ \E f \in Cast : Step(f)
         \/ \E r \in reqs, ok \in BOOLEAN : Answer(r, ok)
         \/ Leave \/ Return \/ Refetch \/ Elsewhere \/ UNCHANGED vars
BY DEF Next, Use, Deliver, Serve, Step

LEMMA PagesAreScreens == \A n \in DOMAIN Page : Page[n] \in Screens /\ Page[n].name = n
BY DEF Page

LEMMA FormsAreNamed ==
  ASSUME NEW n \in DOMAIN Page
  PROVE  \A m \in DOMAIN FormOf[n] : FormOf[n][m] \in Page[n].forms /\ FormOf[n][m].name = m
BY DEF FormOf

LEMMA CastIsNamed ==
  ASSUME TypeOK
  PROVE  \A f \in Cast : f.name \in cast /\ f = FormOf[screen][f.name]
BY FormsAreNamed DEF TypeOK, Cast

LEMMA CastsAreForms ==
  ASSUME NEW forms, NEW c \in Casts(forms)
  PROVE  c \subseteq DOMAIN forms
BY DEF Casts

LEMMA EmptiedTyped ==
  ASSUME TypeOK, NEW fs
  PROVE  Emptied(fs) \in [cast -> {"blank", "typed", "sent"}]
BY DEF TypeOK, Emptied

-----------------------------------------------------------------------------
(* Types, form by form. *)

LEMMA OpenTyped ==
  ASSUME TypeOK, NEW f \in Cast, Open(f)
  PROVE  TypeOK'
<1>1. draft' \in [cast -> {"blank", "typed", "sent"}]
  BY EmptiedTyped DEF Open
<1>2. last' \in [cast -> 0..sent]
  BY DEF Open, TypeOK
<1>3. /\ f.name \in cast /\ form' = f.name /\ opening' = opening + 1
      /\ shown /\ UNCHANGED <<screen, cast, shown, visit, reqs, sent, marker>>
  BY CastIsNamed DEF Open, whom
<1> QED
  BY <1>1, <1>2, <1>3 DEF TypeOK

LEMMA CloseTyped ==
  ASSUME TypeOK, NEW f \in Cast, Close(f) \/ Type(f)
  PROVE  TypeOK'
<1>1. draft' \in [cast -> {"blank", "typed", "sent"}]
  BY EmptiedTyped DEF Close, Type, TypeOK
<1> QED
  BY <1>1 DEF Close, Type, TypeOK, whom, ui, mutations

LEMMA SubmitTyped ==
  ASSUME TypeOK, NEW f \in Cast, NEW op \in f.ops, NEW row \in Rows(f), Submit(f, op, row)
  PROVE  TypeOK'
<1>1. f.name \in cast /\ row \in 0..2
  BY CastIsNamed DEF Rows
<1>2. draft' \in [cast -> {"blank", "typed", "sent"}] /\ last' \in [cast -> 0..sent']
  BY <1>1 DEF Submit, TypeOK
<1>3. marker' \in 0..2
  BY <1>1 DEF Submit, TypeOK
<1>4. visit \in 1..visit
  BY DEF TypeOK
<1>5. op.does \in UNION {{o.does : o \in g.ops} : g \in Page[screen].forms}
  <2>1. f \in Page[screen].forms
    BY CastIsNamed, FormsAreNamed DEF TypeOK
  <2> QED
    BY <2>1
<1>6. reqs' \subseteq [id : 1..sent', form : cast, row : 0..2, visit : 1..visit, opening : 0..opening,
                       op : UNION {{o.does : o \in g.ops} : g \in Page[screen].forms},
                       answer : {"none", "ok", "refused"}]
  BY <1>1, <1>4, <1>5 DEF Submit, TypeOK
<1> QED
  BY <1>1, <1>2, <1>3, <1>6 DEF Submit, TypeOK, whom, ui

LEMMA SettleTyped ==
  ASSUME TypeOK, NEW f \in Cast, NEW r \in reqs, Settle(f, r)
  PROVE  TypeOK'
<1>1. draft' \in [cast -> {"blank", "typed", "sent"}]
  BY EmptiedTyped DEF Settle, TypeOK
<1>2. shown' \in BOOLEAN /\ marker' \in 0..2 /\ form' \in {NoForm, form} /\ (form' # NoForm => shown')
  BY DEF Settle, TypeOK
<1> QED
  BY <1>1, <1>2 DEF Settle, TypeOK, whom

LEMMA AnswerTyped ==
  ASSUME TypeOK, NEW r \in reqs, NEW ok \in BOOLEAN, Answer(r, ok)
  PROVE  TypeOK'
BY DEF Answer, TypeOK, whom, ui

LEMMA PageTyped ==
  ASSUME TypeOK, Leave \/ Return \/ Refetch \/ Elsewhere
  PROVE  TypeOK'
<1>1. CASE Leave
  BY <1>1 DEF Leave, TypeOK, whom, mutations
<1>2. CASE Return
  BY <1>2 DEF Return, TypeOK, whom
<1>3. CASE Refetch
  BY <1>3 DEF Refetch, TypeOK, whom, ui, mutations
<1>4. CASE Elsewhere
  BY <1>4 DEF Elsewhere, TypeOK, whom, ui, mutations
<1> QED
  BY <1>1, <1>2, <1>3, <1>4

LEMMA StepTyped ==
  ASSUME TypeOK, [Next]_vars
  PROVE  TypeOK'
<1>1. ASSUME NEW f \in Cast, Step(f) PROVE TypeOK'
  BY <1>1, OpenTyped, CloseTyped, SubmitTyped, SettleTyped DEF Step
<1>2. CASE UNCHANGED vars
  BY <1>2 DEF TypeOK, vars, whom, ui, mutations
<1> QED
  BY <1>1, <1>2, ActionCases, AnswerTyped, PageTyped

\* Requests, dialogs and inputs are of forms of the page a behaviour is about, and
\* of this visit and opening or an earlier one: by induction over the steps.
THEOREM TypeCorrect == Spec => []TypeOK
<1>1. Init => TypeOK
  BY CastsAreForms DEF Init, TypeOK
<1>2. TypeOK /\ [Next]_vars => TypeOK'
  BY StepTyped
<1> QED
  BY <1>1, <1>2, PTL DEF Spec

-----------------------------------------------------------------------------
(* The invariant: of a form watched by one hook, the unanswered request of  *)
(* this visit is the one the hook observes.                                 *)

Watched(n) == FormOf[screen][n].lives = "page" /\ FormOf[screen][n].guard = "mutation"
Observing == \A r \in reqs : (Watched(r.form) /\ r.visit = visit) => r.id = last[r.form]

Twin(r, p) == r.form = p.form /\ r.row = p.row /\ r.visit = p.visit /\ r.id # p.id
IInv == Observing /\ SentOnce

LEMMA SentOnceTwins == SentOnce <=> \A r, p \in reqs : Twin(r, p) => <<screen, r.form>> \in Resendable
BY DEF SentOnce, Twin

\* A form that is not listed does not send while its last request, or one of that
\* row, is unanswered.
LEMMA SubmitAlone ==
  ASSUME GuardedPages, TypeOK, IInv, NEW f \in Cast, NEW op \in f.ops, NEW row \in Rows(f),
         Submit(f, op, row), <<screen, f.name>> \notin Resendable,
         NEW r \in reqs, r.form = f.name, r.row = row
  PROVE  r.visit # visit
<1>1. Guards(f)
  <2>1. f \in Page[screen].forms /\ Page[screen] \in Screens /\ Page[screen].name = screen
    BY CastIsNamed, FormsAreNamed, PagesAreScreens DEF TypeOK
  <2> QED
    BY <2>1 DEF GuardedPages
<1>2. ~Disabled(f, row)
  BY DEF Submit
<1>3. f = FormOf[screen][f.name]
  BY CastIsNamed
<1>4. CASE f.guard = "mutation"
  BY <1>1, <1>2, <1>3, <1>4 DEF Guards, Disabled, IsPending, IInv, Observing, Watched
<1>5. CASE f.guard = "row"
  BY <1>1, <1>2, <1>5 DEF Guards, Disabled
<1> QED
  BY <1>1, <1>4, <1>5 DEF Guards

LEMMA ObservingKept ==
  ASSUME TypeOK, Observing, [Next]_vars
  PROVE  Observing'
<1>1. ASSUME screen' = screen, reqs' \subseteq reqs, visit' = visit,
             \A n \in cast : Watched(n) => last'[n] = last[n]
      PROVE  Observing'
  BY <1>1 DEF TypeOK, Observing, Watched
<1>2. ASSUME NEW f \in Cast, Open(f) PROVE Observing'
  <2>1. \A n \in cast : Watched(n) => last'[n] = last[n]
    <3> SUFFICES ASSUME NEW n \in cast, Watched(n), last'[n] # last[n] PROVE FALSE
      OBVIOUS
    <3>1. PICK g \in In(f) : g.name = n /\ g.lives = "open"
      BY <1>2 DEF Open
    <3>2. g = FormOf[screen][n]
      BY <3>1, CastIsNamed DEF In
    <3> QED
      BY <3>1, <3>2 DEF Watched
  <2> QED
    BY <1>1, <1>2, <2>1 DEF Open, whom
<1>3. ASSUME NEW f \in Cast, NEW op \in f.ops, NEW row \in Rows(f), Submit(f, op, row)
      PROVE  Observing'
  <2> DEFINE q == [id |-> sent + 1, form |-> f.name, op |-> op.does, row |-> row, visit |-> visit,
                   opening |-> opening, answer |-> "none"]
  <2>1. /\ reqs' = reqs \cup {q} /\ UNCHANGED <<screen, cast, visit>>
        /\ last' = [last EXCEPT ![f.name] = sent + 1]
    BY <1>3 DEF Submit, whom, ui
  <2>2. f.name \in cast /\ f = FormOf[screen][f.name]
    BY CastIsNamed
  <2> SUFFICES ASSUME NEW r \in reqs', Watched(r.form), r.visit = visit
               PROVE  r.id = last'[r.form]
    BY <2>1 DEF Observing, Watched
  <2>3. CASE r = q
    BY <2>1, <2>2, <2>3 DEF TypeOK
  <2>4. CASE r \in reqs /\ r.form # f.name
    BY <2>1, <2>4 DEF Observing, TypeOK
  <2>5. CASE r \in reqs /\ r.form = f.name
    <3>1. r.id = last[f.name] /\ f.guard = "mutation"
      BY <2>2, <2>5 DEF Observing, Watched
    <3> QED
      BY <1>3, <2>5, <3>1 DEF Submit, Disabled, IsPending
  <2> QED
    BY <2>1, <2>3, <2>4, <2>5
<1>4. ASSUME NEW r \in reqs, NEW ok \in BOOLEAN, Answer(r, ok) PROVE Observing'
  <2> DEFINE a == [r EXCEPT !.answer = IF ok THEN "ok" ELSE "refused"]
  <2>1. reqs' = (reqs \ {r}) \cup {a} /\ UNCHANGED <<screen, visit, last>>
    BY <1>4 DEF Answer, whom, ui
  <2>2. a.id = r.id /\ a.form = r.form /\ a.visit = r.visit
    BY DEF TypeOK
  <2> HIDE DEF a
  <2> QED
    BY <2>1, <2>2 DEF Observing, Watched
<1>5. CASE Return
  <2>1. screen' = screen /\ reqs' = reqs /\ \A r \in reqs : r.visit # visit'
    BY <1>5 DEF Return, TypeOK, whom
  <2> QED
    BY <2>1 DEF Observing
<1>6. ASSUME NEW f \in Cast, Close(f) \/ Type(f) PROVE Observing'
  BY <1>1, <1>6 DEF Close, Type, whom, ui, mutations
<1>7. ASSUME NEW f \in Cast, NEW r \in reqs, Settle(f, r) PROVE Observing'
  BY <1>1, <1>7 DEF Settle, whom
<1>8. CASE Leave \/ Refetch \/ Elsewhere \/ UNCHANGED vars
  BY <1>1, <1>8 DEF Leave, Refetch, Elsewhere, vars, whom, ui, mutations
<1>9. ASSUME NEW f \in Cast, Step(f) PROVE Observing'
  BY <1>2, <1>3, <1>6, <1>7, <1>9 DEF Step
<1> QED
  BY <1>4, <1>5, <1>8, <1>9, ActionCases

LEMMA SentOnceKept ==
  ASSUME GuardedPages, TypeOK, IInv, [Next]_vars
  PROVE  SentOnce'
<1>1. ASSUME screen' = screen, reqs' \subseteq reqs PROVE SentOnce'
  BY <1>1 DEF IInv, SentOnce
<1>2. ASSUME NEW f \in Cast, NEW op \in f.ops, NEW row \in Rows(f), Submit(f, op, row)
      PROVE  SentOnce'
  <2> DEFINE q == [id |-> sent + 1, form |-> f.name, op |-> op.does, row |-> row, visit |-> visit,
                   opening |-> opening, answer |-> "none"]
  <2>1. reqs' = reqs \cup {q} /\ screen' = screen
    BY <1>2 DEF Submit, whom
  <2>2. \A r \in reqs : (Twin(r, q) \/ Twin(q, r)) => <<screen, f.name>> \in Resendable
    BY <1>2, SubmitAlone DEF Twin
  <2>3. \A r, p \in reqs : Twin(r, p) => <<screen, r.form>> \in Resendable
    BY SentOnceTwins DEF IInv
  <2>4. \A r, p \in reqs' : Twin(r, p) => <<screen, r.form>> \in Resendable
    BY <2>1, <2>2, <2>3 DEF Twin
  <2> QED
    BY <2>1, <2>4 DEF SentOnce, Twin
<1>3. ASSUME NEW r \in reqs, NEW ok \in BOOLEAN, Answer(r, ok) PROVE SentOnce'
  <2> DEFINE a == [r EXCEPT !.answer = IF ok THEN "ok" ELSE "refused"]
  <2>1. reqs' = (reqs \ {r}) \cup {a} /\ screen' = screen
    BY <1>3 DEF Answer, whom
  <2>2. a.id = r.id /\ a.form = r.form /\ a.row = r.row /\ a.visit = r.visit
    BY DEF TypeOK
  <2> HIDE DEF a
  <2>3. \A p, s \in reqs' : Twin(p, s) => <<screen, p.form>> \in Resendable
    BY <2>1, <2>2, SentOnceTwins DEF IInv, Twin
  <2> QED
    BY <2>1, <2>3 DEF SentOnce, Twin
<1>4. ASSUME NEW f \in Cast, Step(f) PROVE SentOnce'
  BY <1>1, <1>2, <1>4 DEF Step, Open, Close, Type, Settle, whom, ui, mutations
<1>5. CASE Leave \/ Return \/ Refetch \/ Elsewhere \/ UNCHANGED vars
  BY <1>1, <1>5 DEF Leave, Return, Refetch, Elsewhere, vars, whom, ui, mutations
<1> QED
  BY <1>3, <1>4, <1>5, ActionCases

\* However dialogs are closed and opened and the page is left and returned to, a
\* form that its page watches is not sent again before it is answered.  Leaving
\* forgets the hook with the page, so what holds is a promise for one visit.
THEOREM WatchedFormsAreSentOnce ==
  ASSUME GuardedPages
  PROVE  Spec => []SentOnce
<1>1. Init => IInv
  BY DEF Init, IInv, Observing, SentOnce
<1>2. TypeOK /\ IInv /\ [Next]_vars => IInv'
  BY ObservingKept, SentOnceKept DEF IInv
<1>3. IInv => SentOnce
  BY DEF IInv
<1> QED
  BY <1>1, <1>2, <1>3, TypeCorrect, PTL DEF Spec

-----------------------------------------------------------------------------
(* What a step does to the requests, and to the inputs.                     *)

\* Every request is an old one, answered or not, or one just sent.
LEMMA RequestsGo ==
  ASSUME TypeOK, [Next]_vars, NEW q \in reqs'
  PROVE  \/ \E r \in reqs : r.id = q.id /\ r.form = q.form /\ r.visit = q.visit
         \/ \E f \in Cast : \E op \in f.ops, row \in Rows(f) :
               /\ Submit(f, op, row)
               /\ q.form = f.name /\ q.visit = visit
<1> DEFINE Old == \E r \in reqs : r.id = q.id /\ r.form = q.form /\ r.visit = q.visit
<1>1. ASSUME q \in reqs PROVE Old
  BY <1>1
<1>2. ASSUME NEW r \in reqs, NEW ok \in BOOLEAN, Answer(r, ok) PROVE Old
  <2> DEFINE a == [r EXCEPT !.answer = IF ok THEN "ok" ELSE "refused"]
  <2>1. q \in reqs \/ q = a
    BY <1>2 DEF Answer
  <2>2. a.id = r.id /\ a.form = r.form /\ a.visit = r.visit
    BY DEF TypeOK
  <2> HIDE DEF a
  <2> QED
    BY <2>1, <2>2
<1>3. ASSUME NEW f \in Cast, NEW op \in f.ops, NEW row \in Rows(f), Submit(f, op, row), q \notin reqs
      PROVE  q.form = f.name /\ q.visit = visit
  BY <1>3 DEF Submit
<1>4. CASE \E f \in Cast : Step(f)
  BY <1>1, <1>3, <1>4 DEF Step, Open, Close, Type, Settle, mutations
<1>5. CASE Leave \/ Return \/ Refetch \/ Elsewhere \/ UNCHANGED vars
  BY <1>1, <1>5 DEF Leave, Return, Refetch, Elsewhere, vars, mutations
<1> QED
  BY <1>2, <1>4, <1>5, ActionCases

LEMMA WhomStays == [Next]_vars => UNCHANGED whom
<1>1. ASSUME NEW f \in Cast, Step(f) PROVE UNCHANGED whom
  BY <1>1 DEF Step, Open, Close, Type, Submit, Settle
<1>2. CASE Leave \/ Return \/ Refetch \/ Elsewhere \/ UNCHANGED vars
  BY <1>2 DEF Leave, Return, Refetch, Elsewhere, vars
<1> QED
  BY <1>1, <1>2, ActionCases DEF Answer

LEMMA CastIsListed ==
  ASSUME TypeOK
  PROVE  \A f \in Cast : /\ f \in Page[screen].forms /\ Page[screen] \in Screens
                        /\ Page[screen].name = screen
BY FormsAreNamed, PagesAreScreens DEF TypeOK, Cast

LEMMA EmptiedIs ==
  ASSUME NEW fs, NEW n \in cast
  PROVE  /\ Emptied(fs)[n] \in {"blank", draft[n]}
         /\ n \in {f.name : f \in fs} => Emptied(fs)[n] = "blank"
         /\ n \notin {f.name : f \in fs} => Emptied(fs)[n] = draft[n]
BY DEF Emptied

\* Only typing and sending put anything into an input.
LEMMA InputsGo ==
  ASSUME TypeOK, [Next]_vars, NEW n \in cast
  PROVE  \/ draft'[n] \in {"blank", draft[n]}
         \/ \E f \in Cast : f.name = n /\ Type(f) /\ draft'[n] = "typed"
         \/ \E f \in Cast : f.name = n /\ f.typed /\ draft'[n] = "sent"
                          /\ \E op \in f.ops, row \in Rows(f) : Submit(f, op, row)
<1>1. ASSUME NEW f \in Cast, Open(f) \/ Close(f) PROVE draft'[n] \in {"blank", draft[n]}
  BY <1>1, EmptiedIs DEF Open, Close
<1>2. ASSUME NEW f \in Cast, NEW r \in reqs, Settle(f, r) PROVE draft'[n] \in {"blank", draft[n]}
  BY <1>2, EmptiedIs DEF Settle
<1>3. ASSUME NEW f \in Cast, Type(f)
      PROVE  draft'[n] = draft[n] \/ (f.name = n /\ draft'[n] = "typed")
  BY <1>3 DEF Type, TypeOK
<1>4. ASSUME NEW f \in Cast, NEW op \in f.ops, NEW row \in Rows(f), Submit(f, op, row)
      PROVE  draft'[n] = draft[n] \/ (f.name = n /\ f.typed /\ draft'[n] = "sent")
  BY <1>4 DEF Submit, TypeOK
<1>5. CASE Leave \/ Return \/ Refetch \/ Elsewhere \/ UNCHANGED vars
  BY <1>5 DEF Leave, Return, Refetch, Elsewhere, vars
<1>6. ASSUME NEW r \in reqs, NEW ok \in BOOLEAN, Answer(r, ok) PROVE draft'[n] = draft[n]
  BY <1>6 DEF Answer
<1> QED
  BY <1>1, <1>2, <1>3, <1>4, <1>5, <1>6, ActionCases DEF Step

-----------------------------------------------------------------------------
(* Why a dialog opens empty: one without input stays empty, one that is     *)
(* emptied on closing is empty whenever the page shows without it.          *)

UntypedBlank == \A f \in Cast : ~f.typed => draft[f.name] = "blank"

ClosedBlank ==
    \A f \in Cast :
        f.dialog /\ EmptiedOnClosing(Page[screen], f) /\ shown /\ form # f.name
            => draft[f.name] = "blank"

LEMMA UntypedStep ==
  ASSUME TypeOK, UntypedBlank, [Next]_vars
  PROVE  UntypedBlank'
<1> SUFFICES ASSUME NEW f \in Cast, ~f.typed PROVE draft'[f.name] = "blank"
  BY WhomStays DEF UntypedBlank, Cast, whom
<1>1. f.name \in cast /\ draft[f.name] = "blank"
  BY CastIsNamed DEF UntypedBlank
<1>2. \A g \in Cast : g.name = f.name => g = f
  BY CastIsNamed
<1>3. \A g \in Cast : Type(g) => g.typed
  BY DEF Type
<1> QED
  BY <1>1, <1>2, <1>3, InputsGo

\* While a dialog is open it is the dialog's input alone that changes; the three ways
\* to close it each empty it, and a page that is returned to starts with empty ones.
LEMMA ClosedStep ==
  ASSUME BlankPages, TypeOK, ClosedBlank, [Next]_vars
  PROVE  ClosedBlank'
<1> SUFFICES ASSUME NEW f \in Cast, f.dialog, EmptiedOnClosing(Page[screen], f), shown', form' # f.name
             PROVE  draft'[f.name] = "blank"
  BY WhomStays DEF ClosedBlank, Cast, whom
<1>1. /\ f.name \in cast /\ f.name # NoForm
      /\ shown /\ form # f.name => draft[f.name] = "blank"
  BY CastIsNamed, CastIsListed DEF ClosedBlank, BlankPages
<1>2. \A g \in Cast : g.name = f.name => g = f
  BY CastIsNamed
<1>3. \A fs : f \in fs => Emptied(fs)[f.name] = "blank"
  BY <1>1, EmptiedIs
<1>4. CASE shown /\ form # f.name
  <2>1. \A g \in Cast : g = f => ~Usable(g)
    BY <1>4 DEF Usable
  <2>2. \A g \in Cast : Type(g) => Usable(g)
    BY DEF Type
  <2>3. \A g \in Cast : (\E op \in g.ops, row \in Rows(g) : Submit(g, op, row)) => Usable(g)
    BY DEF Submit
  <2> QED
    BY <1>1, <1>2, <1>4, <2>1, <2>2, <2>3, InputsGo
<1>5. CASE shown /\ form = f.name
  <2>1. ASSUME NEW g \in Cast, Close(g) PROVE draft'[f.name] = "blank"
    <3>1. g = f
      BY <1>2, <1>5, <2>1 DEF Close
    <3>2. f \in {h \in In(g) : "close" \in h.clears}
      BY <3>1 DEF In, EmptiedOnClosing
    <3> QED
      BY <1>3, <2>1, <3>2 DEF Close
  <2>2. ASSUME NEW g \in Cast, NEW r \in reqs, Settle(g, r) PROVE draft'[f.name] = "blank"
    <3>1. /\ shown /\ r.visit = visit /\ (r.answer = "ok" \/ g.drops)
          /\ g.shuts = "editor" \/ (g.shuts = "own" /\ form = g.name)
      BY <1>5, <2>2 DEF Settle
    <3>2. g.shuts # "editor"
      BY CastIsListed DEF EmptiedOnClosing
    <3>3. g = f
      BY <1>2, <1>5, <3>1, <3>2
    <3>4. r.answer = "ok" /\ "success" \in f.clears
      BY <3>1, <3>3 DEF EmptiedOnClosing
    <3>5. PICK fs : f \in fs /\ draft' = Emptied(fs)
      BY <2>2, <3>1, <3>3, <3>4 DEF Settle
    <3> QED
      BY <1>3, <3>5
  <2>3. ASSUME NEW g \in Cast, Open(g) \/ Type(g) \/ \E op \in g.ops, row \in Rows(g) : Submit(g, op, row)
        PROVE  FALSE
    BY <1>1, <1>5, <2>3 DEF Open, Type, Submit, ui
  <2>4. CASE Leave \/ Return \/ Refetch \/ Elsewhere \/ UNCHANGED vars
    BY <1>5, <2>4 DEF Leave, Return, Refetch, Elsewhere, vars, ui
  <2>5. ASSUME NEW r \in reqs, NEW ok \in BOOLEAN, Answer(r, ok) PROVE FALSE
    BY <1>5, <2>5 DEF Answer, ui
  <2> QED
    BY <2>1, <2>2, <2>3, <2>4, <2>5, ActionCases DEF Step
<1>6. CASE ~shown
  <2>1. Return
    <3>1. ASSUME NEW g \in Cast, Step(g) PROVE ~shown'
      BY <1>6, <3>1 DEF Step, Open, Close, Type, Submit, Settle, Usable
    <3>2. CASE Leave \/ Refetch \/ Elsewhere \/ UNCHANGED vars
      BY <1>6, <3>2 DEF Leave, Refetch, Elsewhere, vars, ui
    <3>3. ASSUME NEW r \in reqs, NEW ok \in BOOLEAN, Answer(r, ok) PROVE ~shown'
      BY <1>6, <3>3 DEF Answer, ui
    <3> QED
      BY <3>1, <3>2, <3>3, ActionCases
  <2> QED
    BY <1>1, <2>1 DEF Return
<1> QED
  BY <1>4, <1>5, <1>6

\* Opening is the one step that opens.
LEMMA OpeningOpens ==
  ASSUME TypeOK, [Next]_vars, opening' # opening
  PROVE  \E f \in Cast : Open(f)
<1>1. ASSUME NEW f \in Cast, Step(f), ~Open(f) PROVE opening' = opening
  BY <1>1 DEF Step, Close, Type, Submit, Settle, ui
<1>2. CASE Leave \/ Return \/ Refetch \/ Elsewhere \/ UNCHANGED vars
  BY <1>2 DEF Leave, Return, Refetch, Elsewhere, vars, ui
<1>3. ASSUME NEW r \in reqs, NEW ok \in BOOLEAN, Answer(r, ok) PROVE opening' = opening
  BY <1>3 DEF Answer, ui
<1> QED
  BY <1>1, <1>2, <1>3, ActionCases

LEMMA OpenBlank ==
  ASSUME BlankPages, TypeOK, UntypedBlank, ClosedBlank, NEW f \in Cast, Open(f)
  PROVE  draft'[f.name] = "blank" \/ <<screen, f.name>> \in Remembered
<1>1. /\ f.name \in cast /\ f.name # NoForm /\ f.dialog /\ shown /\ form = NoForm
      /\ Page[screen].name = screen
  BY CastIsNamed, CastIsListed DEF BlankPages, Open
<1>2. draft[f.name] = "blank" => draft'[f.name] = "blank"
  BY <1>1, EmptiedIs DEF Open
<1>3. CASE ~f.typed
  BY <1>2, <1>3 DEF UntypedBlank
<1>4. CASE EmptiedOnOpening(f)
  <2>1. f \in In(f) \cap StartsBlank
    BY <1>4 DEF In, StartsBlank, EmptiedOnOpening
  <2> QED
    BY <1>1, <2>1, EmptiedIs DEF Open
<1>5. CASE EmptiedOnClosing(Page[screen], f)
  BY <1>1, <1>2, <1>5 DEF ClosedBlank
<1> QED
  BY <1>1, <1>3, <1>4, <1>5, CastIsListed DEF BlankPages

\* No dialog opens with what was typed for another row, whichever way the user or an
\* answer closed it and whatever page was visited since, save the listed ones.
THEOREM DialogsOpenBlank ==
  ASSUME BlankPages
  PROVE  Spec => OpensBlank
<1> DEFINE Opens == opening' # opening => \/ draft'[form'] = "blank"
                                          \/ <<screen, form'>> \in Remembered
<1>1. Init => UntypedBlank /\ ClosedBlank
  <2> SUFFICES ASSUME Init, NEW f \in Cast PROVE draft[f.name] = "blank"
    BY DEF UntypedBlank, ClosedBlank
  <2>1. TypeOK
    BY CastsAreForms DEF Init, TypeOK
  <2> QED
    BY <2>1, CastIsNamed DEF Init
<1>2. TypeOK /\ UntypedBlank /\ ClosedBlank /\ [Next]_vars => UntypedBlank' /\ ClosedBlank'
  BY UntypedStep, ClosedStep
<1>3. TypeOK /\ UntypedBlank /\ ClosedBlank /\ [Next]_vars => [Opens]_vars
  <2> SUFFICES ASSUME TypeOK, UntypedBlank, ClosedBlank, [Next]_vars, opening' # opening
               PROVE  draft'[form'] = "blank" \/ <<screen, form'>> \in Remembered
    OBVIOUS
  <2>1. PICK f \in Cast : Open(f)
    BY OpeningOpens
  <2> QED
    BY <2>1, OpenBlank DEF Open
<1> QED
  BY <1>1, <1>2, <1>3, TypeCorrect, PTL DEF Spec, OpensBlank

-----------------------------------------------------------------------------
(* Why an answer erases nothing: what locks its input while pending has     *)
(* none typed while a request of this visit is unanswered.                  *)

LockedInput ==
    \A r \in reqs : LocksInput(FormOf[screen][r.form]) /\ r.visit = visit => draft[r.form] # "typed"

LEMMA VisitStays ==
  ASSUME TypeOK, [Next]_vars, NEW r \in reqs, r.visit = visit'
  PROVE  visit' = visit
<1>1. CASE Return
  BY <1>1 DEF Return, TypeOK
<1>2. ASSUME NEW f \in Cast, Step(f) PROVE visit' = visit
  BY <1>2 DEF Step, Open, Close, Type, Submit, Settle, ui
<1>3. CASE Leave \/ Refetch \/ Elsewhere \/ UNCHANGED vars
  BY <1>3 DEF Leave, Refetch, Elsewhere, vars, ui
<1>4. ASSUME NEW p \in reqs, NEW ok \in BOOLEAN, Answer(p, ok) PROVE visit' = visit
  BY <1>4 DEF Answer, ui
<1> QED
  BY <1>1, <1>2, <1>3, <1>4, ActionCases

LEMMA LockedStep ==
  ASSUME TypeOK, Observing, UntypedBlank, LockedInput, [Next]_vars
  PROVE  LockedInput'
<1> SUFFICES ASSUME NEW q \in reqs', LocksInput(FormOf[screen][q.form]), q.visit = visit',
                    draft'[q.form] = "typed"
             PROVE  FALSE
  BY WhomStays DEF LockedInput, whom
<1>1. \A f \in Cast : f.name \in cast /\ f = FormOf[screen][f.name]
  BY CastIsNamed
<1>2. ASSUME NEW r \in reqs, r.form = q.form, r.visit = q.visit PROVE FALSE
  <2>1. visit' = visit /\ r.form \in cast
    BY <1>2, VisitStays DEF TypeOK
  <2>2. draft[r.form] # "typed"
    BY <1>2, <2>1 DEF LockedInput
  <2>3. PICK f \in Cast : f.name = r.form /\ Type(f)
    BY <1>2, <2>1, <2>2, InputsGo
  <2>4. LocksInput(f) /\ r.id = last[f.name]
    BY <1>1, <1>2, <2>1, <2>3 DEF Observing, Watched, LocksInput
  <2> QED
    BY <2>3, <2>4 DEF Type, LocksInput, IsPending
<1>3. ASSUME NEW f \in Cast, NEW op \in f.ops, NEW row \in Rows(f), Submit(f, op, row), q.form = f.name
      PROVE  FALSE
  <2>1. draft' = [draft EXCEPT ![f.name] = IF f.typed THEN "sent" ELSE @]
    BY <1>3 DEF Submit
  <2>2. ~f.typed => draft[f.name] = "blank"
    BY DEF UntypedBlank
  <2> QED
    BY <1>1, <1>3, <2>1, <2>2 DEF TypeOK
<1> QED
  BY <1>2, <1>3, RequestsGo

\* A request is gone when its answer was processed, and then only.
LEMMA SettledIs ==
  ASSUME TypeOK, [Next]_vars, NEW r \in reqs, Settled(r)
  PROVE  \E f \in Cast : Settle(f, r)
<1>1. r \notin reqs'
  BY DEF Settled
<1>2. ASSUME NEW p \in reqs, NEW ok \in BOOLEAN, Answer(p, ok) PROVE FALSE
  <2> DEFINE a == [p EXCEPT !.answer = IF ok THEN "ok" ELSE "refused"]
  <2>1. reqs' = (reqs \ {p}) \cup {a}
    BY <1>2 DEF Answer
  <2>2. a.id = p.id
    BY DEF TypeOK
  <2> HIDE DEF a
  <2> QED
    BY <1>1, <2>1, <2>2 DEF Settled
<1>3. ASSUME NEW f \in Cast, Step(f) PROVE \E p \in reqs : Settle(f, p)
  BY <1>1, <1>3 DEF Step, Open, Close, Type, Submit, mutations
<1>4. CASE Leave \/ Return \/ Refetch \/ Elsewhere \/ UNCHANGED vars
  BY <1>1, <1>4 DEF Leave, Return, Refetch, Elsewhere, vars, mutations
<1>5. PICK f \in Cast : \E p \in reqs : Settle(f, p)
  BY <1>2, <1>3, <1>4, ActionCases
<1> QED
  BY <1>1, <1>5 DEF Settle

\* While the page shows, only a refetch makes what it shows current.
LEMMA RefetchIs ==
  ASSUME TypeOK, [Next]_vars, behind, ~behind', shown
  PROVE  Refetch
<1>1. ASSUME NEW f \in Cast, Step(f) PROVE FALSE
  BY <1>1 DEF Step, Open, Close, Type, Submit, Settle
<1>2. ASSUME NEW p \in reqs, NEW ok \in BOOLEAN, Answer(p, ok) PROVE FALSE
  BY <1>2 DEF Answer
<1>3. CASE Leave \/ Return \/ Elsewhere \/ UNCHANGED vars
  BY <1>3 DEF Leave, Return, Elsewhere, vars
<1> QED
  BY <1>1, <1>2, <1>3, ActionCases

\* An answer of the form itself: the form could not be typed in, or is listed.  An
\* answer of another: it shut the dialog the input stands in.
LEMMA AnswerTakes ==
  ASSUME KeptInputPages, TypeOK, UntypedBlank, LockedInput,
         NEW f \in Cast, NEW g \in Cast, NEW r \in reqs, Settle(g, r),
         draft[f.name] = "typed", draft'[f.name] = "blank"
  PROVE  <<screen, f.name>> \in Overwritten
<1>1. /\ f.name \in cast /\ f = FormOf[screen][f.name] /\ f.typed
      /\ EmptiedByAnswer(f) => LocksInput(f) \/ <<screen, f.name>> \in Overwritten
      /\ ShutByOthers(Page[screen], f) => <<screen, f.name>> \in Overwritten
  BY CastIsNamed, CastIsListed DEF UntypedBlank, KeptInputPages
<1>2. g \in Page[screen].forms /\ (g.name = f.name => g = f)
  BY <1>1, CastIsNamed, CastIsListed
<1> DEFINE emptied == r.answer = "ok" /\ "success" \in g.clears
           shut == /\ g.shuts = "editor" \/ (g.shuts = "own" /\ form = g.name)
                   /\ f \in Showing \cap StartsBlank
<1>3. r.form = g.name /\ r.visit = visit /\ ((emptied /\ g = f) \/ shut)
  <2> DEFINE own == IF r.answer = "ok" /\ shown /\ r.visit = visit /\ "success" \in g.clears THEN {g} ELSE {}
             shuts == /\ shown /\ r.visit = visit /\ (r.answer = "ok" \/ g.drops)
                      /\ g.shuts = "editor" \/ (g.shuts = "own" /\ form = g.name)
             gone == IF shuts THEN Showing \cap StartsBlank ELSE {}
  <2>1. r.form = g.name /\ draft' = Emptied(own \cup gone)
    BY DEF Settle
  <2>2. \A h \in own \cup gone : h \in Cast
    BY DEF Showing
  <2>3. f \in own \cup gone
    <3>1. PICK h \in own \cup gone : h.name = f.name
      BY <1>1, <2>1, EmptiedIs
    <3> QED
      BY <1>1, <2>2, <3>1, CastIsNamed
  <2> QED
    BY <2>1, <2>3
<1>4. CASE g = f
  <2>1. EmptiedByAnswer(f)
    BY <1>3, <1>4 DEF EmptiedByAnswer, EmptiedOnOpening, StartsBlank
  <2>2. ~LocksInput(f)
    BY <1>1, <1>3, <1>4 DEF LockedInput
  <2> QED
    BY <1>1, <2>1, <2>2
<1>5. CASE g # f
  <2>1. form # NoForm /\ form \in {f.name, f.place} /\ EmptiedOnOpening(f)
    BY <1>3, <1>5 DEF Showing, StartsBlank, EmptiedOnOpening
  <2>2. g.shuts = "editor" \/ (g.shuts = "own" /\ g.name = f.place)
    BY <1>2, <1>3, <1>5, <2>1
  <2> QED
    BY <1>1, <1>2, <1>5, <2>1, <2>2 DEF ShutByOthers
<1> QED
  BY <1>4, <1>5

\* What the user is typing is not taken away by the answer to what was sent before it,
\* by this form or another of the page, nor by a refetch in the background, save in
\* the listed forms.
THEOREM InputsSurvive ==
  ASSUME KeptInputPages
  PROVE  Spec => InputSurvives
<1> DEFINE Kept ==
      \A f \in Cast : (draft[f.name] = "typed" /\ draft'[f.name] = "blank") =>
        /\ (\E r \in reqs : Settled(r)) => <<screen, f.name>> \in Overwritten
        /\ (behind /\ ~behind' /\ shown) => <<screen, f.name>> \in Reseeded
<1>1. Init => Observing /\ UntypedBlank /\ LockedInput
  <2> SUFFICES ASSUME Init PROVE \A f \in Cast : draft[f.name] = "blank"
    BY DEF Init, Observing, UntypedBlank, LockedInput
  <2>1. TypeOK
    BY CastsAreForms DEF Init, TypeOK
  <2> QED
    BY <2>1, CastIsNamed DEF Init
<1>2. TypeOK /\ Observing /\ UntypedBlank /\ LockedInput /\ [Next]_vars
          => Observing' /\ UntypedBlank' /\ LockedInput'
  BY ObservingKept, UntypedStep, LockedStep
<1>3. TypeOK /\ UntypedBlank /\ LockedInput /\ [Next]_vars => Kept
  <2> SUFFICES ASSUME TypeOK, UntypedBlank, LockedInput, [Next]_vars,
                      NEW f \in Cast, draft[f.name] = "typed", draft'[f.name] = "blank"
               PROVE  /\ (\E r \in reqs : Settled(r)) => <<screen, f.name>> \in Overwritten
                      /\ (behind /\ ~behind' /\ shown) => <<screen, f.name>> \in Reseeded
    OBVIOUS
  <2>1. (\E r \in reqs : Settled(r)) => <<screen, f.name>> \in Overwritten
    BY SettledIs, AnswerTakes
  <2>2. /\ f.name \in cast /\ f = FormOf[screen][f.name] /\ f.typed
        /\ f.live => <<screen, f.name>> \in Reseeded
    BY CastIsNamed, CastIsListed DEF UntypedBlank, KeptInputPages
  <2>3. ASSUME behind, ~behind', shown PROVE <<screen, f.name>> \in Reseeded
    BY <2>2, <2>3, RefetchIs DEF Refetch
  <2> QED
    BY <2>1, <2>3
<1> QED
  BY <1>1, <1>2, <1>3, TypeCorrect, PTL DEF Spec, InputSurvives
-----------------------------------------------------------------------------
(* The query cache of the same pages.  The two machines are separate behaviours:     *)
(* nothing below is about both.                                                      *)

Keys(n) == {q.key : q \in Followed(n)}
Ops(n) == UNION {f.ops : f \in Page[n].forms}
Here == Entry(screen, key, TRUE)
EntryRecord ==
  [on : {Here.on}, polls : {Here.polls}, reads : {Here.reads}, loaded : BOOLEAN, data : Nat,
   invalid : BOOLEAN, fetch : {"idle", "out", "back"}, got : Nat, raced : BOOLEAN, late : BOOLEAN]

CacheTyped ==
  /\ screen \in DOMAIN Page /\ key \in Keys(screen)
  /\ clock \in Nat /\ visit \in Nat
  /\ wrote.at \in 0..clock
  /\ entry \in EntryRecord
  /\ writing \subseteq [op : Ops(screen), visit : Nat, at : 0..clock]

(* The last settled write is in the data, or will be, or waits for staleTime *)
Aged == <<Page[screen].app, <<wrote.by, key>>>> \in LeftToAge
DataShows == entry.data >= wrote.at \/ ~entry.loaded \/ entry.invalid \/ entry.late \/ Aged
(* ... and it is in the answer that will replace the data, or overtook it *)
AnswerShows == entry.fetch = "back" => entry.got >= wrote.at \/ entry.raced \/ Aged
CacheInv == CacheTyped /\ DataShows /\ AnswerShows

(* A fetch that starts leaves the data as it is *)
Refetched(c, d) ==
  /\ d \in EntryRecord /\ d.data = c.data /\ d.loaded = c.loaded /\ d.invalid = c.invalid /\ d.late = c.late
  /\ d.fetch # "out" => d = c

LEMMA StartRefetches == ASSUME NEW c \in EntryRecord PROVE Refetched(c, Start(c)) /\ Start(c).fetch = "out"
BY DEF Refetched, Start, EntryRecord

LEMMA MountRefetches == ASSUME NEW c \in EntryRecord, NEW aged PROVE Refetched(c, Mount(c, aged))
BY StartRefetches DEF Refetched, Mount

LEMMA InvalidatedIs ==
  ASSUME CacheTyped
  PROVE  /\ Invalidated \in EntryRecord /\ Invalidated.invalid
         /\ Invalidated.fetch = "back" => Invalidated.raced
<1> DEFINE c == [entry EXCEPT !.invalid = TRUE]
           d == [c EXCEPT !.raced = @ \/ c.fetch # "idle"]
<1>1. c \in EntryRecord /\ c.invalid = TRUE /\ d \in EntryRecord /\ d.invalid = TRUE /\ (d.fetch = "back" => d.raced)
  BY DEF CacheTyped, EntryRecord
<1>2. Invalidated = Start(c) \/ Invalidated = d
  BY DEF Invalidated
<1> HIDE DEF c, d
<1> QED
  BY <1>1, <1>2, StartRefetches DEF Refetched

LEMMA RefetchKeeps ==
  ASSUME CacheInv, Refetched(entry, entry'), UNCHANGED <<subject, writing, server>>, visit' \in Nat
  PROVE  CacheInv'
<1>1. CacheTyped'
  BY DEF CacheInv, CacheTyped, Refetched, EntryRecord, Here, subject, server
<1>2. DataShows'
  BY DEF CacheInv, DataShows, Refetched, Aged, subject, server
<1>3. AnswerShows'
  BY DEF CacheInv, AnswerShows, Refetched, Aged, subject, server
<1> QED
  BY <1>1, <1>2, <1>3 DEF CacheInv

LEMMA SameEntryKeeps ==
  ASSUME CacheInv, UNCHANGED <<subject, entry, wrote>>, visit' \in Nat, clock' \in Nat, clock' >= clock,
         writing' \subseteq [op : Ops(screen), visit : Nat, at : 0..clock']
  PROVE  CacheInv'
<1>1. CacheTyped'
  <2>1. wrote.at \in 0..clock'
    BY DEF CacheInv, CacheTyped
  <2> QED
    BY <2>1 DEF CacheInv, CacheTyped, EntryRecord, Here, subject
<1> QED
  BY <1>1 DEF CacheInv, DataShows, AnswerShows, Aged, subject

LEMMA FetchKeeps ==
  ASSUME CacheInv, FetchAnswer \/ FetchSettle \/ FetchFail
  PROVE  CacheInv'
<1>1. UNCHANGED <<subject, visit, writing, clock, wrote>>
  BY DEF FetchAnswer, FetchSettle, FetchFail, server, view
<1>2. entry \in EntryRecord /\ clock >= wrote.at /\ clock \in Nat /\ wrote.at \in Nat
  BY DEF CacheInv, CacheTyped
<1>3. CASE FetchAnswer
  <2>1. /\ entry' \in EntryRecord /\ entry'.data = entry.data /\ entry'.loaded = entry.loaded
        /\ entry'.invalid = entry.invalid /\ entry'.late = entry.late /\ entry'.got = clock
    BY <1>2, <1>3 DEF FetchAnswer, EntryRecord
  <2> QED
    BY <1>1, <1>2, <2>1 DEF CacheInv, CacheTyped, DataShows, AnswerShows, Aged, EntryRecord, Here, subject
<1>4. CASE FetchSettle
  <2>1. /\ entry' \in EntryRecord /\ entry'.data = entry.got /\ entry'.late = entry.raced
        /\ entry'.fetch = "idle" /\ entry.fetch = "back"
    BY <1>2, <1>4 DEF FetchSettle, EntryRecord
  <2> QED
    BY <1>1, <2>1 DEF CacheInv, CacheTyped, DataShows, AnswerShows, Aged, EntryRecord, Here, subject
<1>5. CASE FetchFail
  <2>1. /\ entry' \in EntryRecord /\ entry'.data = entry.data /\ entry'.loaded = entry.loaded
        /\ entry'.invalid = entry.invalid /\ entry'.late = entry.late /\ entry'.fetch = "idle"
    BY <1>2, <1>5 DEF FetchFail, EntryRecord
  <2> QED
    BY <1>1, <2>1 DEF CacheInv, CacheTyped, DataShows, AnswerShows, Aged, EntryRecord, Here, subject
<1> QED
  BY <1>3, <1>4, <1>5

LEMMA UserKeeps ==
  ASSUME CacheInv, Poll \/ CloseDialog \/ LeavePage \/ ReturnToPage \/ \E d \in entry.on \ {"page"} : OpenDialog(d)
  PROVE  CacheInv'
<1>1. UNCHANGED <<subject, writing, server>> /\ visit' \in Nat
  BY DEF Poll, CloseDialog, LeavePage, ReturnToPage, OpenDialog, view, CacheInv, CacheTyped
<1>2. Refetched(entry, entry')
  <2>1. entry \in EntryRecord /\ Refetched(entry, entry)
    BY DEF CacheInv, CacheTyped, Refetched
  <2>2. ASSUME NEW place, MountedOn(place) PROVE Refetched(entry, entry')
    BY <2>1, <2>2, MountRefetches DEF MountedOn
  <2> QED
    BY <2>1, <2>2, StartRefetches DEF Poll, CloseDialog, LeavePage, ReturnToPage, OpenDialog
<1> QED
  BY <1>1, <1>2, RefetchKeeps

LEMMA RequestKeeps ==
  ASSUME CacheInv,
         \/ \E f \in Page[screen].forms : \E op \in f.ops : Mutate(f, op)
         \/ \E r \in writing : Fail(r) \/ Apply(r)
  PROVE  CacheInv'
<1> USE DEF CacheInv, CacheTyped
<1>1. ASSUME NEW f \in Page[screen].forms, NEW op \in f.ops, Mutate(f, op) PROVE CacheInv'
  <2>1. UNCHANGED <<subject, entry, wrote, visit, clock>>
        /\ writing' = writing \cup {[op |-> op, visit |-> visit, at |-> 0]}
    BY <1>1 DEF Mutate, view, server
  <2>2. op \in Ops(screen)
    BY DEF Ops
  <2> QED
    BY <2>1, <2>2, SameEntryKeeps
<1>2. ASSUME NEW r \in writing, Fail(r) PROVE CacheInv'
  BY <1>2, SameEntryKeeps DEF Fail, view, server
<1>3. ASSUME NEW r \in writing, Apply(r) PROVE CacheInv'
  <2>1. UNCHANGED <<subject, entry, wrote, visit>> /\ clock' = clock + 1
        /\ writing' = (writing \ {r}) \cup {[r EXCEPT !.at = clock + 1]}
    BY <1>3 DEF Apply, view
  <2>2. [r EXCEPT !.at = clock + 1] \in [op : Ops(screen), visit : Nat, at : 0..clock']
    BY <2>1
  <2> QED
    BY <2>1, <2>2, SameEntryKeeps
<1> QED
  BY <1>1, <1>2, <1>3

(* The entry is refreshed by what writes what it reads, if the tables say so *)
LEMMA SucceedKeeps ==
  ASSUME CacheInv, RefreshedPages, NEW r \in writing, Succeed(r)
  PROVE  CacheInv'
<1>1. /\ UNCHANGED <<subject, visit, clock>> /\ writing' = writing \ {r}
      /\ wrote' = IF r.op.writes \cap entry.reads # {} /\ r.at > wrote.at
                  THEN [at |-> r.at, by |-> r.op.does] ELSE wrote
      /\ entry' = IF Hit(r.op, key) THEN Invalidated ELSE entry
  BY DEF Succeed
<1>2. r.op \in Ops(screen) /\ r.at \in 0..clock /\ entry \in EntryRecord
  BY DEF CacheInv, CacheTyped
<1>3. CacheTyped'
  <2>1. entry' \in EntryRecord
    BY <1>1, <1>2, InvalidatedIs DEF CacheInv
  <2>2. wrote'.at \in 0..clock
    BY <1>1, <1>2 DEF CacheInv, CacheTyped
  <2> QED
    BY <1>1, <2>1, <2>2 DEF CacheInv, CacheTyped, EntryRecord, Here, subject
<1>4. CASE Hit(r.op, key)
  <2>1. entry'.invalid /\ (entry'.fetch = "back" => entry'.raced)
    BY <1>1, <1>4, InvalidatedIs DEF CacheInv
  <2> QED
    BY <1>3, <2>1 DEF CacheInv, DataShows, AnswerShows
<1>5. CASE ~Hit(r.op, key)
  <2>1. entry' = entry
    BY <1>1, <1>5
  <2>2. CASE wrote' = wrote
    BY <1>1, <1>3, <2>1, <2>2 DEF CacheInv, DataShows, AnswerShows, Aged, subject
  <2>3. CASE wrote' # wrote
    <3>1. r.op.writes \cap entry.reads # {} /\ wrote'.by = r.op.does
      BY <1>1, <2>3
    <3>2. entry.reads = Entry(screen, key, TRUE).reads
      BY <1>2 DEF EntryRecord, Here
    <3>3. <<Page[screen].app, <<r.op.does, key>>>> \in LeftToAge
      BY <1>2, <1>5, <3>1, <3>2 DEF RefreshedPages, CacheInv, CacheTyped, Keys, Ops
    <3> QED
      BY <1>1, <1>3, <3>1, <3>3 DEF CacheInv, DataShows, AnswerShows, Aged, subject
  <2> QED
    BY <2>2, <2>3
<1> QED
  BY <1>4, <1>5

LEMMA InitCached == CacheInit => CacheInv
<1> SUFFICES ASSUME CacheInit PROVE CacheInv
  OBVIOUS
<1>1. /\ screen \in DOMAIN Page /\ key \in Keys(screen) /\ visit = 1
      /\ writing = {} /\ clock = 0 /\ wrote = NoWrite
  BY DEF CacheInit, Keys
<1>2. Here \in EntryRecord /\ Here.data = 0 /\ Here.fetch = "idle"
  BY DEF Here, Entry, EntryRecord
<1>3. ASSUME NEW c, c = Here \/ \E b \in BOOLEAN : c = [Here EXCEPT !.loaded = b]
      PROVE  /\ c \in EntryRecord /\ c.data = 0 /\ c.fetch = "idle"
             /\ Start(c) \in EntryRecord /\ Start(c).data = 0 /\ Start(c).fetch = "out"
  <2>1. c \in EntryRecord /\ c.data = 0 /\ c.fetch = "idle"
    BY <1>2, <1>3 DEF EntryRecord
  <2> QED
    BY <2>1, StartRefetches DEF Refetched
<1>4. PICK c : /\ c = Here \/ \E b \in BOOLEAN : c = [Here EXCEPT !.loaded = b]
               /\ entry = c \/ entry = Start(c)
  <2>1. PICK b \in BOOLEAN : entry \in {Here, Start([Here EXCEPT !.loaded = FALSE]), [Here EXCEPT !.loaded = b]}
    BY DEF CacheInit, Here
  <2> QED
    BY <2>1
<1>5. entry \in EntryRecord /\ entry.data = 0 /\ entry.fetch # "back"
  BY <1>3, <1>4
<1>6. wrote.at = 0 /\ 0 \in 0..clock
  <2>1. NoWrite.at = 0
    BY DEF NoWrite
  <2> QED
    BY <1>1, <2>1
<1>7. CacheTyped
  BY <1>1, <1>5, <1>6 DEF CacheTyped
<1> QED
  BY <1>5, <1>6, <1>7 DEF CacheInv, DataShows, AnswerShows

-----------------------------------------------------------------------------
\* Whatever fetches, polls, visits and late answers do in between, and whatever page
\* the answer of a mutation finds, an entry that is believed fresh shows it: the
\* answer marks the entry or starts its fetch over, and a fetch it could not start
\* over is known to be overtaken.
THEOREM FreshEntriesShowOwnWrites ==
  ASSUME RefreshedPages
  PROVE  CacheSpec => []OwnWritesShown
<1>1. CacheInv /\ [CacheNext]_cacheVars => CacheInv'
  <2> SUFFICES ASSUME CacheInv, [CacheNext]_cacheVars PROVE CacheInv'
    OBVIOUS
  <2>1. CASE UNCHANGED cacheVars
    BY <2>1, SameEntryKeeps DEF cacheVars, view, server, CacheInv, CacheTyped
  <2> QED
    BY <2>1, FetchKeeps, UserKeeps, RequestKeeps, SucceedKeeps DEF CacheNext
<1>2. CacheInv => OwnWritesShown
  BY DEF CacheInv, DataShows, Aged, OwnWritesShown
<1> QED
  BY <1>1, <1>2, InitCached, PTL DEF CacheSpec
=============================================================================
