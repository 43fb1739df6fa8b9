SPECIFICATION Spec
CONSTANTS
  NMails = 3
  NFolders = 2
  Page = 1
  Matched = {2, 3}
  Ruled = {1, 2}
  MaxFaults = 1
  Setups <- SomeSetups
INVARIANTS NoRuleForgotten NotifiedOnce DeletedMailKept
PROPERTY BacklogDrains
