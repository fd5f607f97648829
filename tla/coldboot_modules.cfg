SPECIFICATION ModulesSpec
CONSTANTS
  Tasks <- MCTasks
  Priority <- MCPriority
  Workers = {w1, w2, w3}
  Owner = owner
  NoTask = NoTask
  Deps <- MCDeps
  Aliases <- MCAliases
INVARIANTS TypeOK StoppedIsDrained StoppingHasWork NoIdleWorker
INVARIANTS DependenciesLoaded ModuleHandedOutOnce AllModulesTried
PROPERTIES ColdbootEnds
