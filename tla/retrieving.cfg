\* Finds of every kind of filter, pairs of finds of any weight, and graphs of
\* three paths around four nodes.
CONSTANTS
  a = a
  b = b
  ab = ab
  c = c
  NoExpression = NoExpression
  NoBlock = NoBlock
  NoGroup = NoGroup
  Blocks <- MCBlocks
  BlockField <- MCField
  BlockResource <- MCResource
  BlockStart <- MCStart
  BlockEnd <- MCEnd
  BlockLabels <- MCLabels
  BlockWords <- MCWords
  ParagraphLabels = {"z"}
  MaxWindow = 3
  MaxEval = 2
  Scores = {0, 1, 2}
  Requests <- MCRequests
SPECIFICATION Spec
INVARIANT FoundMatchFilters
INVARIANT BestMatchesRanked
INVARIANT OnlyWeightlessFails
INVARIANT ScoresFitRelations
INVARIANT ContainedMerged
CHECK_DEADLOCK FALSE
