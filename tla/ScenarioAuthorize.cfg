CONSTANT
  Scenarios <- mcScenarios
SPECIFICATION Spec
INVARIANT NoForeignEventType
