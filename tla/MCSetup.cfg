\* Some four thousand configurations, in seven families.
SPECIFICATION USpec
CONSTANTS
  Loads <- LoadCfg
  LoadsV0 <- LoadV0Cfg
  Inputs <- MCInputs
  Needs <- MCNeeds
  Filled <- MCFilled
  Modern <- MCModern
  Unlabelled <- MCUnlabelled
INVARIANTS PlanCanRun MostSpecificWins OldFormatLoadsAlike
CHECK_DEADLOCK FALSE
