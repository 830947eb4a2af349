\* One query whose model Groq may not know.
CONSTANTS
  q1 = q1
  s1 = s1
  s2 = s2
  corpus = corpus
  configured = configured
  fallback = fallback
  Queries = {q1}
  Streams = {}
  Corpora = {corpus}
  DefaultCorpus = corpus
  Configured = configured
  Fallback = fallback
  NoModel = NoModel
  Free = Free
  Passing = {"RateLimitError"}
  MaxRetries = 2
  MaxServices = 1
  MaxTokens = 1
SPECIFICATION Spec
INVARIANTS ConfigNamesModel
CHECK_DEADLOCK FALSE
