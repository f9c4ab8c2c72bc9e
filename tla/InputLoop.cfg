SPECIFICATION FairSpec
CONSTANTS
  anna = anna
  bert = bert
  carl = carl
  Connection = {anna, bert, carl}
  Client = {carl}
  MaxLines = 2
  MaxWait = 3
  Nobody = Nobody
INVARIANTS TypeOK InputInOrder
PROPERTY EveryLineRuns
