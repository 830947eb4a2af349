\* One stream whose call may be turned away.
CONSTANTS
  q1 = q1
  s1 = s1
  s2 = s2
  corpus = corpus
  configured = configured
  fallback = fallback
  Queries = {}
  Streams = {s1}
  Corpora = {corpus}
  DefaultCorpus = corpus
  Configured = configured
  Fallback = fallback
  NoModel = NoModel
  Free = Free
  Passing = {"RateLimitError"}
  MaxRetries = 2
  MaxServices = 1
  MaxTokens = 1
SPECIFICATION Spec
INVARIANTS PassingErrorsRetried
CHECK_DEADLOCK FALSE
