\* Expected to be violated: with a wallet locked, the option controls edit a second parse of the form, not this.currentOrder.
CONSTANTS
    Qtys <- MCQtys
    None = None
    Err = Err
    MaxObjs = 4
    MaxSent = 1
SPECIFICATION Spec
PROPERTIES SubmitsShownOptions
CHECK_DEADLOCK FALSE
