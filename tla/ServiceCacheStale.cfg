CONSTANTS
  evaluation = evaluation
  workspace = workspace
  archive = archive
  p1 = p1
  Corpora = {evaluation, workspace}
  Default = evaluation
  Pool = {p1}
  Indexed = {workspace}
  None = None
  Torn = Torn
  CacheSize = 2
  MaxChanges = 2
SPECIFICATION Spec
INVARIANT IndexedIsServed
