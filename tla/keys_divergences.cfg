SPECIFICATION Spec
CONSTANTS
  Lines <- MCLines
  Fields <- MCFields
  Commands <- MCCommands
  HelpLines <- MCHelpLines
  Sizes <- MCSizes
  MinRows = 9
  MinColumns = 4
  WelcomeRows = 11
  WelcomeColumns = 6
  BrandRows = 2
  MaxTyped = 1
  MaxRuns = 2
CHECK_DEADLOCK FALSE
\* One at a time: the first that fails ends the run.
INVARIANT SpinnerWhileChecking
\* INVARIANT FooterIsTrue
\* INVARIANT EveryPressSeesTheLast
\* INVARIANT HelpShown
\* INVARIANT OfferedIsTaken
