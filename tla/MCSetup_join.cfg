\* The owner mistypes the password in the browser; nobody meddles.
CONSTANTS
    Networks = {"n1"}
    Subscribed = {}
    Meddles = FALSE

SPECIFICATION SetupSpec
PROPERTY FailedJoinForgotten
