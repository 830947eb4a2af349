\* One query whose calls may time out.
CONSTANTS
  q1 = q1
  s1 = s1
  s2 = s2
  corpus = corpus
  configured = configured
  fallback = fallback
  Queries = {q1}
  Streams = {}
  Corpora = {corpus}
  DefaultCorpus = corpus
  Configured = configured
  Fallback = fallback
  NoModel = NoModel
  Free = Free
  Passing = {"APITimeoutError"}
  MaxRetries = 2
  MaxServices = 1
  MaxTokens = 1
SPECIFICATION Spec
INVARIANTS TimeoutIs504
CHECK_DEADLOCK FALSE
