SPECIFICATION FairSpec
CONSTANTS
  Lines <- MCLines
  Fields <- MCFields
  Commands <- MCCommands
  HelpLines <- MCHelpLines
  Sizes <- MCSizes
  MinRows = 9
  MinColumns = 4
  WelcomeRows = 11
  WelcomeColumns = 6
  BrandRows = 2
  MaxTyped = 1
  MaxRuns = 1
INVARIANTS
  EachPressSeesTheLast
  EditorOnItsScreen
  HintsWork
  CursorInView
  ScreenAgreesWithCli
  FlagsAnywhere
PROPERTY DoctorAnswers
CHECK_DEADLOCK FALSE
