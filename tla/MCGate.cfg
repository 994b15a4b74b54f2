SPECIFICATION Spec
CONSTANTS
  located = located
  project = project
  rl = rl
  fl = fl
  Defect <- MCDefect
  FileOf <- MCFileOf
  RuleOf <- MCRuleOf
  DefaultOf <- MCDefaultOf
  OwaspOf <- MCOwaspOf
  CweOf <- MCCweOf
  ProjectLevel = {project}
  Rule = {rl}
  File = {fl}
  Tag = {"t"}
  Severity = {1, 2}
  Ignore = Ignore
  Unset = Unset
  Glob <- MCGlob
  Compiles <- MCCompiles
  Matches <- MCMatches
  Configs <- MCConfigs
  Line = {1, 2}
  Offset = {0, 1, 2}
  Absent = Absent
  NoFile = NoFile
  Torn = Torn
  MaxEdits = 2
  MaxRuns = 2
INVARIANTS
  OverridesAsAsked
PROPERTIES
  FailsForACause
  PassesOnlyKnown
CHECK_DEADLOCK FALSE
