SPECIFICATION Spec
CONSTANTS
  NMails = 3
  NFolders = 1
  Page = 1
  Matched = {}
  Ruled = {}
  MaxFaults = 1
  Setups <- GraphUnlimited
PROPERTY OlderPagesCached
