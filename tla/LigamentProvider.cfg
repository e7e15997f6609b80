CONSTANTS
  Names <- MCNames
  Passwords = {"p"}
  Machine <- MCMachine
  MaxPolls = 1
  EventsMarshalled = FALSE
  Registries <- MCRegistries
  Scenarios = {"logon", "credui"}
  Prompts <- MCPrompts
  ScenarioWhileBusy = FALSE
SPECIFICATION FairSpec
INVARIANTS ConfirmedByServer FailOpenOnlyUnreached QuietWhenReleased SecretsWiped
PROPERTIES JoinReturns SlotSpec
