\* Two groups of one tree are due in one tick of the timer.
SPECIFICATION Spec
CONSTANTS
  ann = ann
  bob = bob
  p1 = p1
  hook = hook
  rule = rule
  tag = tag
  None = None
  All = All
  Direct = Direct
  Boxes = {ann, bob}
  Configs = {"old", "new", "misread"}
  Misread = {"misread"}
  Files <- MCFiles
  Provider <- MCProvider
  Tags = {tag}
  Proxies = {p1}
  Hooks = {hook}
  Rules = {rule}
  Forms <- MCForms
  Sessions <- MCSessions
  MaxId = 2
  MaxPolls = 1
  MaxJobs = 2
INVARIANT EveryScheduleServed
CHECK_DEADLOCK FALSE
