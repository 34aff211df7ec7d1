---------------------------- MODULE MCViewCache ----------------------------
EXTENDS ViewCache

Admin == INSTANCE AdminPages
Dashboard == INSTANCE DashboardPages

AllScreens == Admin!AdminScreens \cup Dashboard!DashboardScreens
KnownLeftToAge == ({"admin"} \X Admin!EntriesLeftToAge) \cup ({"dashboard"} \X Dashboard!EntriesLeftToAge)

(* The pages fit the hypotheses of the theorems about ViewForms; MCViewForms does   *)
(* the same for this machine.                                                       *)
Forms == INSTANCE ViewForms WITH
    MaxOpenings <- 0, MaxRequests <- 0,
    Resendable <- Admin!ResendableForms \cup Dashboard!ResendableForms,
    Overwritten <- Admin!OverwrittenForms \cup Dashboard!OverwrittenForms,
    Remembered <- Admin!RememberedForms \cup Dashboard!RememberedForms,
    Reseeded <- Admin!ReseededForms \cup Dashboard!ReseededForms,
    cast <- {}, form <- dialog, opening <- 0, draft <- <<>>, reqs <- writing, sent <- 0, last <- <<>>,
    marker <- 0, behind <- FALSE
ASSUME FormsFit == Forms!GuardedPages /\ Forms!BlankPages /\ Forms!KeptInputPages
=============================================================================
