CONSTANT
  Scenarios <- mcScenarios
SPECIFICATION Spec
INVARIANTS ReuseOnlyAfterFailure OneTransaction FieldsOnce BuiltOnStored
