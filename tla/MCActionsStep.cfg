INIT ActionsInit
NEXT ActionsNext
CONSTANTS
  Widgets <- MCWidgets
  NoValue = NoValue
  MaxAsked = 2
CHECK_DEADLOCK FALSE
INVARIANT StepIsAFraction
