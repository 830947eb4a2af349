----------------------------- MODULE MCChunking -----------------------------
EXTENDS Chunking
CONSTANTS x, y, Length

MCDocuments == [1 .. Length -> Characters]

\* No overlap, a usual one, and one as long as a short piece; a minimum that is
\* clamped, one that is not, and none.
MCConfigs ==
  { [size |-> 4, overlap |-> 1, minimum |-> 4],
    [size |-> 4, overlap |-> 2, minimum |-> 2],
    [size |-> 5, overlap |-> 1, minimum |-> 2],
    [size |-> 3, overlap |-> 0, minimum |-> 0] }
=============================================================================
