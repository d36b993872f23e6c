\* Two calls of an agent of one or two sources.
CONSTANTS
  c1 = c1
  c2 = c2
  s1 = s1
  s2 = s2
  r1 = r1
  r2 = r2
  r3 = r3
  bad = bad
  Calls = {c1, c2}
  Resources = {r1, r2, r3}
  SourceOf <- MCSourceOf
  ResourceLabels <- MCLabels
  ResourceWords <- MCWords
  Synonyms <- MCSynonyms
  DriverFilter <- MCDriverFilter
  DriverCatalog <- MCDriverCatalog
  SearchConfig = NoFilter
  NoFilter = NoFilter
  NotALabel = bad
  Configs <- MCConfigs
  Workloads <- MCWorkloads
SPECIFICATION Spec
INVARIANT DriverFiltersHold
INVARIANT LabelsHold
CHECK_DEADLOCK FALSE
