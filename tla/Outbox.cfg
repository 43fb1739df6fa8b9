SPECIFICATION Spec
CONSTANTS
  smtp = smtp
  graph = graph
  boxX = boxX
  boxY = boxY
  file1 = file1
  file2 = file2
  None = None
  Malformed = Malformed
  Accounts = {smtp, graph}
  Graph = {graph}
  Spellings = {"x", "X", "y", "bad"}
  BoxOf <- MCBoxOf
  Paths = {file1, file2}
  Sizes = {2, 3}
  Forms <- MCForms
  Selections <- MCSelections
  MaxRecipients = 2
  MaxFiles = 2
  MaxFile = 2
  MaxTotal = 3
  MaxGraph = 1
  MaxBatches = 2
  MaxChanges = 1
INVARIANTS SentAsConfirmed ResultsTruthful
PROPERTY BatchReported
CHECK_DEADLOCK FALSE
