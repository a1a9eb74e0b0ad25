CONSTANTS
  citrine = citrine
  enumRule = enumRule
  sizeRule = sizeRule
  Projects <- mcProjects
  RuleNames <- mcRuleNames
  NMessage = 2
SPECIFICATION ScriptSpec
INVARIANTS RulesCollected ScenariosCollected DirectionsCollected PartsAddUp MismatchesAttributed
PROPERTY ScriptEnds
