------------------------------- MODULE Pages -------------------------------
(***************************************************************************)
(* The vocabulary in which AdminPages and DashboardPages describe the pages *)
(* of the two web clients, as data for the machines ViewForms, ViewCache.   *)
(***************************************************************************)

\* useQuery: its key, the resources the endpoint returns, where it is mounted
\* ("page", or the dialog that mounts it), whether an interval refetches it.
Query(k, reads) == [key |-> k, reads |-> reads, on |-> "page", polls |-> FALSE]
On(d, q) == [q EXCEPT !.on = d]
Polled(q) == [q EXCEPT !.polls = TRUE]

\* useMutation: the resources the request writes, the key prefixes onSuccess
\* invalidates, and whether onSuccess navigates away.  refetch() of a query the
\* page observes counts as invalidating it.
Op(does, writes, refreshes) ==
    [does |-> does, writes |-> writes, refreshes |-> refreshes, leaves |-> FALSE]
Leaves(op) == [op EXCEPT !.leaves = TRUE]

\* A form.  ops: its mutations, of which one submit sends one.  In which statuses
\* of its row a form is offered is left out: a page may be behind its row, so a
\* user may meet any form of it in any status.
\*   dialog  opened and closed by the user; else it is always on the page
\*   place   the dialog it stands in ("none": on the page)
\*   row     offered on loaded data only
\*   each    repeated on every row of a list
\*   typed   has input
\*   optional  may be sent as it opened: blank, or filled in from the row
\*   live    its input is set again whenever the data it starts from changes
\*   lives   the component holding useMutation is mounted with the "page", or
\*           only while "open"
\*   guard   disabled while its mutation is pending ("mutation"), on the row that
\*           mutation was sent for ("latest"), on each row with a request of its
\*           own pending ("row"), on the row the list's one busyId names
\*           ("marker"), never ("none")
\*   also    other forms whose pending mutation disables it
\*   holds   cannot be closed while pending
\*   locks   its input is disabled while pending
\*   shuts   what onSuccess closes: its "own" dialog, the page's one "editor"
\*           whichever dialog that shows, "none"
\*   drops   onError closes it as well
\*   clears  when the input is emptied: "open", "close", "success"
\*   once    sent by an effect when the page mounts, not by the user
Dialog(name, ops) ==
    [name |-> name, ops |-> ops, dialog |-> TRUE, place |-> "none", row |-> FALSE, each |-> FALSE,
     typed |-> FALSE, optional |-> FALSE, live |-> FALSE, lives |-> "page", guard |-> "mutation",
     also |-> {}, holds |-> FALSE, locks |-> FALSE, shuts |-> "own",
     drops |-> FALSE, clears |-> {"open"}, once |-> FALSE]

\* The page keeps one state for all its dialogs: onClose closes whichever shows.
Editor(name, ops) == [Dialog(name, ops) EXCEPT !.typed = TRUE, !.shuts = "editor"]
Confirm(name, ops) == [Dialog(name, ops) EXCEPT !.row = TRUE, !.shuts = "editor"]

\* The dialog has a state of its own, and is emptied whenever it closes.
Own(name, ops) == [Dialog(name, ops) EXCEPT !.typed = TRUE, !.clears = {"close", "success"}]
OwnConfirm(name, ops) == [Dialog(name, ops) EXCEPT !.row = TRUE, !.clears = {}]
Prefilled(f) == [f EXCEPT !.optional = TRUE]
Dropping(f) == [f EXCEPT !.drops = TRUE]

Button(name, ops) ==
    [Dialog(name, ops) EXCEPT !.dialog = FALSE, !.row = TRUE, !.shuts = "none", !.clears = {}]
RowButton(name, guard, ops) == [Button(name, ops) EXCEPT !.each = TRUE, !.guard = guard]
Inline(name, ops) == [Button(name, ops) EXCEPT !.typed = TRUE, !.clears = {"success"}]
Automatic(name, op) == [Button(name, {op}) EXCEPT !.row = FALSE, !.once = TRUE]
Within(d, f) == [f EXCEPT !.place = d]

\* A page: its queries, its forms; the client it is a page of, whose pages share a
\* query cache.
Screen(name, queries, forms) ==
    [name |-> name, queries |-> queries, forms |-> forms, app |-> ""]
At(page, forms) == {page} \X forms
After(mutations, keys) == mutations \X keys
Of(app, screens) == {[s EXCEPT !.app = app] : s \in screens}
=============================================================================
