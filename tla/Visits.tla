------------------------------- MODULE Visits -------------------------------
(***************************************************************************)
(* A page of a client and its user's visits to it: what the machines        *)
(* ViewForms and ViewCache, which follow one page each, have in common.     *)
(***************************************************************************)
EXTENDS Pages

CONSTANTS
    Screens,   \* the pages
    MaxVisits  \* bound on times the page is mounted

VARIABLES
    screen,  \* the page a behaviour is about
    shown,   \* it is mounted
    visit    \* how often it was mounted

NoForm == "none"

Page == [n \in {s.name : s \in Screens} |-> CHOOSE s \in Screens : s.name = n]
=============================================================================
