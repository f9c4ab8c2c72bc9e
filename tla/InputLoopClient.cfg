SPECIFICATION Spec
CONSTANTS
  anna = anna
  bert = bert
  carl = carl
  Connection = {anna, bert, carl}
  Client = {carl}
  MaxLines = 1
  MaxWait = 2
  Nobody = Nobody
INVARIANT ForgetsListed
