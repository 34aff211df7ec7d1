SPECIFICATION Spec
CONSTANTS
    Screens <- AllScreens
    MaxOpenings = 3
    MaxRequests = 2
    MaxVisits = 2
    Resendable <- KnownResendable
    Overwritten <- KnownOverwritten
    Remembered <- KnownRemembered
    Reseeded <- KnownReseeded
INVARIANTS SentOnce
PROPERTIES OpensBlank InputSurvives
CHECK_DEADLOCK FALSE
