SPECIFICATION FairSpec
CONSTANTS
  needle = needle
  other = other
  label = label
  Id <- MCId
  Edge <- MCEdge
  KindOf <- MCKindOf
  NoKind = NoKind
  Field = {label}
  Value = {needle}
  NoValue = NoValue
  Needle = needle
  Named = {3}
  Cases <- MCCases
  WrittenIds = {1, 2, 3}
  WrittenEdges <- Small
INVARIANTS
  TypeOK
  SubgraphFinds
  SubgraphInventsNothing
  ListFinds
  SearchFinds
  PruneSpares
  PruneLeavesNothing
PROPERTIES
  RequestReturns
CHECK_DEADLOCK FALSE
