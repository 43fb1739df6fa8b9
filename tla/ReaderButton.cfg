SPECIFICATION Spec
CONSTANTS
  photos = photos
  letter = letter
  Upper = Upper
  lower = lower
  other = other
  Stems = {Upper, lower, other}
  None = None
  Messages = {photos, letter}
  Html = {photos, letter}
  Remote = {photos}
  Chunks <- MCChunks
  Attachments <- MCAttachments
  Fold <- MCFold
  Existing <- MCExisting
  Languages = {"zh", "en"}
  Prefs <- MCPrefs
  MaxGen = 3
  MaxTGen = 3
  MaxLoads = 2
INVARIANT ImagesOnDemand
CHECK_DEADLOCK FALSE
