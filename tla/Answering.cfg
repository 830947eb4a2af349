\* A query and two streams that share the service of one corpus, which may be
\* rebuilt once, with two attempts and one token.
CONSTANTS
  q1 = q1
  s1 = s1
  s2 = s2
  corpus = corpus
  configured = configured
  fallback = fallback
  Queries = {q1}
  Streams = {s1, s2}
  Corpora = {corpus}
  DefaultCorpus = corpus
  Configured = configured
  Fallback = fallback
  NoModel = NoModel
  Free = Free
  Passing = {"RateLimitError"}
  MaxRetries = 2
  MaxServices = 2
  MaxTokens = 1
SPECIFICATION FairSpec
INVARIANTS TypeOK AccountsMatch EventOrder RetriesExact FallbackLostToRace
PROPERTY RequestsEnd
CHECK_DEADLOCK FALSE
