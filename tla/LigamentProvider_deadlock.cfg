CONSTANTS
  Names <- MCNames
  Passwords = {"p"}
  Machine <- MCMachine
  MaxPolls = 1
  EventsMarshalled = TRUE
  Registries <- MCRegistries
  Scenarios = {"logon", "credui"}
  Prompts <- MCPrompts
  ScenarioWhileBusy = FALSE
SPECIFICATION FairSpec
PROPERTY JoinReturns
CHECK_DEADLOCK FALSE
