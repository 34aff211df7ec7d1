---------------------------- MODULE MCViewForms ----------------------------
EXTENDS ViewForms

Admin == INSTANCE AdminPages
Dashboard == INSTANCE DashboardPages

AllScreens == Admin!AdminScreens \cup Dashboard!DashboardScreens
KnownResendable == Admin!ResendableForms \cup Dashboard!ResendableForms
KnownOverwritten == Admin!OverwrittenForms \cup Dashboard!OverwrittenForms
KnownRemembered == Admin!RememberedForms \cup Dashboard!RememberedForms
KnownReseeded == Admin!ReseededForms \cup Dashboard!ReseededForms

(* The pages fit the hypothesis of the theorem about the other machine that reads   *)
(* them, ViewCache; MCViewCache does the same for this one.  Each run so shows its  *)
(* own pages wrong by a behaviour, not by an assumption.                            *)
KnownLeftToAge == ({"admin"} \X Admin!EntriesLeftToAge) \cup ({"dashboard"} \X Dashboard!EntriesLeftToAge)
Cache == INSTANCE ViewCache WITH
    LeftToAge <- KnownLeftToAge, MaxWrites <- 0,
    key <- <<>>, dialog <- form, entry <- <<>>, writing <- reqs, clock <- 0, wrote <- 0
ASSUME EntriesFit == Cache!RefreshedPages
=============================================================================
