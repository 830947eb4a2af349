\* Three corpora and caches of two entries, so that insertions evict; the
\* worker indexes into one of them.
CONSTANTS
  evaluation = evaluation
  workspace = workspace
  archive = archive
  p1 = p1
  Corpora = {evaluation, workspace, archive}
  Default = evaluation
  Pool = {p1}
  Indexed = {archive}
  None = None
  Torn = Torn
  CacheSize = 2
  MaxChanges = 2
SPECIFICATION Spec
INVARIANTS TypeOK DeletedNotServed
