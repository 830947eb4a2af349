------------------------- MODULE ServiceCacheProofs -------------------------
(***************************************************************************)
(* Theorems about ServiceCache, for any number of corpora, pool threads    *)
(* and changes, and any size of the two caches.                            *)
(***************************************************************************)
EXTENDS ServiceCache, TLAPS

-----------------------------------------------------------------------------
(* The operations of lru_cache.                                            *)

Entries == [corpus : Corpora, retriever : Retrievers]

\* Within its bound, one entry per corpus, each loaded whole.
WellKept(cache) ==
  /\ cache \in Seq(Entries)
  /\ Len(cache) <= CacheSize
  /\ \A i, j \in 1 .. Len(cache) : cache[i].corpus = cache[j].corpus => i = j

\* What is left of a sequence without its i-th element.
LEMMA RemoveAtGives ==
  ASSUME NEW E, NEW s \in Seq(E), NEW i \in 1 .. Len(s)
  PROVE  /\ RemoveAt(s, i) \in Seq(E)
         /\ Len(RemoveAt(s, i)) = Len(s) - 1
         /\ \A j \in 1 .. Len(s) - 1 :
              \/ j < i /\ RemoveAt(s, i)[j] = s[j]
              \/ j >= i /\ RemoveAt(s, i)[j] = s[j + 1]
<1> DEFINE a == SubSeq(s, 1, i - 1)
           b == SubSeq(s, i + 1, Len(s))
<1>1. a \in Seq(E) /\ Len(a) = i - 1 /\ \A j \in 1 .. i - 1 : a[j] = s[j]
  OBVIOUS
<1>2. /\ b \in Seq(E) /\ Len(b) = Len(s) - i
      /\ \A j \in 1 .. Len(s) - i : b[j] = s[j + i]
  OBVIOUS
<1>3. RemoveAt(s, i) = a \o b
  BY DEF RemoveAt
<1> HIDE DEF a, b
<1>4. a \o b \in Seq(E) /\ Len(a \o b) = Len(s) - 1
  <2>1. a \in Seq(E) /\ b \in Seq(E)
    BY <1>1, <1>2
  <2>2. a \o b \in Seq(E) /\ Len(a \o b) = Len(a) + Len(b)
    BY ONLY <2>1
  <2> QED BY <1>1, <1>2, <2>2
<1>5. ASSUME NEW j \in 1 .. Len(s) - 1, j < i
      PROVE  (a \o b)[j] = s[j]
  BY <1>1, <1>2, <1>5
<1>6. ASSUME NEW j \in 1 .. Len(s) - 1, j >= i
      PROVE  (a \o b)[j] = s[j + 1]
  <2>1. j - (i - 1) \in 1 .. Len(s) - i /\ (j - (i - 1)) + i = j + 1
    BY <1>6
  <2>2. (a \o b)[j] = b[j - (i - 1)]
    BY <1>1, <1>2, <1>6
  <2> QED BY <1>2, <2>1, <2>2
<1> QED BY <1>3, <1>4, <1>5, <1>6

\* A hit finds the corpus's entry and keeps all there are.
LEMMA TouchedKept ==
  ASSUME NEW cache, WellKept(cache), NEW c \in Keys(cache)
  PROVE  /\ WellKept(Touched(cache, c))
         /\ ToSet(Touched(cache, c)) \subseteq ToSet(cache)
         /\ Entry(cache, c) \in ToSet(cache)
         /\ Entry(cache, c).corpus = c
<1> DEFINE n == Len(cache)
           i == Place(cache, c)
           rest == RemoveAt(cache, i)
           new == Touched(cache, c)
<1>1. cache \in Seq(Entries) /\ n \in Nat /\ DOMAIN cache = 1 .. n
  BY DEF WellKept
<1>2. i \in 1 .. n /\ cache[i].corpus = c
  BY <1>1 DEF Place, Keys
<1>3. /\ rest \in Seq(Entries) /\ Len(rest) = n - 1
      /\ \A j \in 1 .. n - 1 : \/ j < i /\ rest[j] = cache[j]
                               \/ j >= i /\ rest[j] = cache[j + 1]
  BY <1>1, <1>2, RemoveAtGives
<1>4. cache[i] \in Entries /\ Entry(cache, c) = cache[i]
  BY <1>1, <1>2 DEF Entry
<1>5. new = Append(rest, cache[i])
  BY <1>4 DEF Touched
<1> HIDE DEF n, i, rest, new
<1>6. /\ new \in Seq(Entries) /\ Len(new) = n /\ new[n] = cache[i]
      /\ \A j \in 1 .. n - 1 : new[j] = rest[j]
  BY <1>1, <1>2, <1>3, <1>4, <1>5
\* Where each element of the new sequence was.
<1> DEFINE from(j) == IF j = n THEN i ELSE IF j < i THEN j ELSE j + 1
<1>7. \A j \in 1 .. n : from(j) \in 1 .. n /\ new[j] = cache[from(j)]
  BY <1>1, <1>2, <1>3, <1>6
<1>8. \A j, k \in 1 .. n : from(j) = from(k) => j = k
  BY <1>1, <1>2
<1> HIDE DEF from
<1>9. \A j, k \in 1 .. n : cache[j].corpus = cache[k].corpus => j = k
  BY DEF WellKept, n
<1>10. Len(new) <= CacheSize
  BY <1>6 DEF WellKept, n
<1>11. WellKept(new)
  <2>1. ASSUME NEW j \in 1 .. n, NEW k \in 1 .. n,
               new[j].corpus = new[k].corpus
        PROVE  j = k
    <3>1. from(j) = from(k)
      BY <1>7, <1>9, <2>1
    <3> QED BY <1>8, <3>1
  <2> QED BY <1>6, <1>10, <2>1 DEF WellKept
<1>12. DOMAIN new = 1 .. n
  BY <1>6
<1>13. ToSet(new) \subseteq ToSet(cache)
  BY <1>1, <1>7, <1>12 DEF ToSet
<1> QED BY <1>1, <1>2, <1>4, <1>11, <1>13 DEF ToSet, new

\* The insertion of a new key makes room first.
LEMMA InsertedKept ==
  ASSUME NEW cache, WellKept(cache), NEW c \in Corpora, NEW r \in Retrievers
  PROVE  /\ WellKept(Inserted(cache, c, r))
         /\ ToSet(Inserted(cache, c, r)) \subseteq
              ToSet(cache) \cup {[corpus |-> c, retriever |-> r]}
<1> DEFINE n == Len(cache)
           e == [corpus |-> c, retriever |-> r]
<1>1. cache \in Seq(Entries) /\ n \in Nat /\ DOMAIN cache = 1 .. n
  BY DEF WellKept
<1>2. e \in Entries /\ e.corpus = c
  BY DEF Entries
<1>3. CASE c \in Keys(cache)
  BY <1>3 DEF Inserted
<1>4. ASSUME c \notin Keys(cache), NEW room \in Seq(Entries),
             NEW m \in Nat, NEW k \in {0, 1},
             Len(room) = m, m + k = n, m < CacheSize,
             \A j \in 1 .. m : room[j] = cache[j + k]
      PROVE  /\ WellKept(Append(room, e))
             /\ ToSet(Append(room, e)) \subseteq ToSet(cache) \cup {e}
  <2> DEFINE new == Append(room, e)
  <2>1. /\ new \in Seq(Entries) /\ Len(new) = m + 1 /\ new[m + 1] = e
        /\ \A j \in 1 .. m : new[j] = cache[j + k] /\ j + k \in 1 .. n
    BY <1>1, <1>2, <1>4
  <2> HIDE DEF new, e
  <2>2. \A j \in 1 .. n : cache[j].corpus # c
    BY <1>1, <1>4 DEF Keys
  <2>3. \A i, j \in 1 .. n : cache[i].corpus = cache[j].corpus => i = j
    BY DEF WellKept
  <2>4. ASSUME NEW i \in 1 .. m + 1, NEW j \in 1 .. m + 1,
               new[i].corpus = new[j].corpus
        PROVE  i = j
    <3>1. CASE i \in 1 .. m /\ j \in 1 .. m
      <4>1. i + k = j + k
        BY <2>1, <2>3, <2>4, <3>1
      <4> QED BY <4>1
    <3>2. \A l \in 1 .. m : new[l].corpus # new[m + 1].corpus
      BY <1>2, <2>1, <2>2
    <3> QED BY <1>4, <2>4, <3>1, <3>2
  <2>5. m + 1 <= CacheSize
    BY <1>4, CacheAssumption
  <2>6. WellKept(new)
    BY <2>1, <2>4, <2>5 DEF WellKept
  <2>7. DOMAIN new = 1 .. m + 1
    BY <2>1
  <2>8. ToSet(new) \subseteq ToSet(cache) \cup {e}
    <3> SUFFICES ASSUME NEW j \in 1 .. m + 1
                 PROVE  new[j] \in ToSet(cache) \cup {e}
      BY <2>7 DEF ToSet
    <3>1. CASE j \in 1 .. m
      BY <1>1, <2>1, <3>1 DEF ToSet
    <3>2. CASE j = m + 1
      BY <2>1, <3>2
    <3> QED BY <3>1, <3>2
  <2> QED BY <2>6, <2>8 DEF new
<1>5. CASE c \notin Keys(cache) /\ Len(cache) < CacheSize
  <2>1. Inserted(cache, c, r) = Append(cache, e)
    BY <1>5 DEF Inserted
  <2>2. \A j \in 1 .. n : cache[j] = cache[j + 0]
    BY <1>1
  <2> HIDE DEF n, e
  <2>3. n + 0 = n /\ n < CacheSize /\ Len(cache) = n
    BY <1>1, <1>5 DEF n
  <2>4. /\ WellKept(Append(cache, e))
        /\ ToSet(Append(cache, e)) \subseteq ToSet(cache) \cup {e}
    BY <1>1, <1>4, <1>5, <2>2, <2>3
  <2> QED BY <2>1, <2>4 DEF e
<1>6. CASE c \notin Keys(cache) /\ ~(Len(cache) < CacheSize)
  <2>1. Inserted(cache, c, r) = Append(Tail(cache), e)
    BY <1>6 DEF Inserted
  <2>2. n > 0 /\ n <= CacheSize /\ cache # <<>>
    BY <1>1, <1>6, CacheAssumption DEF WellKept
  <2>3. /\ Tail(cache) \in Seq(Entries) /\ Len(Tail(cache)) = n - 1
        /\ \A j \in 1 .. n - 1 : Tail(cache)[j] = cache[j + 1]
    BY <1>1, <2>2
  <2> HIDE DEF n, e
  <2>4. n - 1 \in Nat /\ (n - 1) + 1 = n /\ n - 1 < CacheSize
    BY <1>1, <2>2, CacheAssumption
  <2>5. /\ WellKept(Append(Tail(cache), e))
        /\ ToSet(Append(Tail(cache), e)) \subseteq ToSet(cache) \cup {e}
    BY <1>4, <1>6, <2>3, <2>4
  <2> QED BY <2>1, <2>5 DEF e
<1> QED BY <1>3, <1>5, <1>6

-----------------------------------------------------------------------------
(* The invariant.                                                          *)

Contents == Versions \cup {None, Torn}
Writes == [file : {"metadata", "faiss"}, content : Contents]
Readings == [faiss : Contents, dense : Contents, sparse : Contents]
Labels == {"idle", "service", "retriever", "readFaiss", "readDense",
           "readSparse", "keepRetriever", "build", "write", "clearServices",
           "clearRetrievers"}
Changers == {"write", "clearServices", "clearRetrievers"}
\* Where the FAISS file, the metadata, and the metadata again have been read.
ReadFirst == {"readDense", "readSparse", "keepRetriever", "build"}
ReadSecond == {"readSparse", "keepRetriever", "build"}
ReadThird == {"keepRetriever", "build"}

Types ==
  /\ WellKept(services) /\ WellKept(retrievers)
  /\ disk \in [Corpora -> [metadata : Contents, faiss : Contents]]
  /\ pc \in [Threads -> Labels]
  /\ on \in [Threads -> Corpora]
  /\ wants \in [Threads -> {"service", "retriever"}]
  /\ held \in [Threads -> Readings]
  /\ plan \in [Threads -> Seq(Writes)]
  /\ changes \in Versions

\* A file that was read was there, and whole.
HeldInv ==
  \A t \in Threads :
    /\ pc[t] \in ReadFirst => held[t].faiss \in Versions
    /\ pc[t] \in ReadSecond => held[t].dense \in Versions
    /\ pc[t] \in ReadThird => held[t].sparse \in Versions

\* Only the event loop and the worker change an index, the worker those it
\* has jobs for, and nobody the default one; only the event loop is ever at
\* another corpus without changing it.
OwnerInv ==
  \A t \in Threads :
    /\ pc[t] \in Changers =>
         /\ on[t] # Default
         /\ t = Loop \/ on[t] \in Indexed
    /\ pc[t] \notin Changers /\ t # Loop => on[t] = Default

\* What thread t has read of c is what is on disk.
ReadsCurrent(t, c) ==
  /\ pc[t] \in ReadFirst => held[t].faiss = disk[c].faiss
  /\ pc[t] \in ReadSecond => held[t].dense = disk[c].metadata
  /\ pc[t] \in ReadThird => held[t].sparse = disk[c].metadata

\* A corpus the worker does not index is cached as it is on disk, unless the
\* event loop is changing it; between the two clears no service is left.
CorpusFresh(c) ==
  /\ ~ Changing(Loop, c) => Current(c)
  /\ pc[Loop] = "clearRetrievers" /\ on[Loop] = c =>
       \A e \in ToSet(services) : e.corpus # c
  /\ \A t \in Threads : on[t] = c => ReadsCurrent(t, c)

FreshInv == \A c \in Corpora \ Indexed : CorpusFresh(c)

IInv == Types /\ HeldInv /\ OwnerInv /\ FreshInv

LEMMA ThreadFacts ==
  /\ Loop \in Threads /\ Worker \in Threads /\ Loop # Worker
  /\ Pool \subseteq Threads /\ Loop \notin Pool /\ Worker \notin Pool
  BY CacheAssumption DEF Threads, Loop, Worker

LEMMA EmptyKept == WellKept(<<>>) /\ ToSet(<<>>) = {}
<1>1. <<>> \in Seq(Entries) /\ Len(<<>>) = 0 /\ DOMAIN <<>> = {}
  OBVIOUS
<1>2. 1 .. 0 = {}
  OBVIOUS
<1>3. WellKept(<<>>)
  BY <1>1, <1>2, CacheAssumption DEF WellKept
<1> QED BY <1>1, <1>3 DEF ToSet

LEMMA InitInv == Init => IInv
<1> SUFFICES ASSUME Init PROVE IInv
  OBVIOUS
<1> USE ThreadFacts, EmptyKept
<1>1. /\ services = <<>> /\ retrievers = <<>>
      /\ pc = [t \in Threads |-> "idle"]
      /\ on = [t \in Threads |-> Default]
      /\ disk \in [Corpora -> {[metadata |-> 0, faiss |-> 0],
                              [metadata |-> None, faiss |-> None]}]
  BY DEF Init
<1>2. 0 \in Versions /\ Versions \subseteq Contents /\ None \in Contents
  BY CacheAssumption DEF Versions, Contents
<1>3. Types
  <2>1. disk \in [Corpora -> [metadata : Contents, faiss : Contents]]
    BY <1>1, <1>2
  <2>2. held \in [Threads -> Readings]
    BY <1>2 DEF Init, Unread, Readings
  <2>3. plan \in [Threads -> Seq(Writes)]
    BY DEF Init
  <2> QED
    BY <1>1, <1>2, <2>1, <2>2, <2>3, CacheAssumption
    DEF Init, Types, Labels
<1>4. HeldInv /\ OwnerInv
  BY <1>1 DEF HeldInv, OwnerInv, ReadFirst, ReadSecond, ReadThird, Changers
<1>5. FreshInv
  BY <1>1 DEF FreshInv, CorpusFresh, ReadsCurrent, Current, Changing,
              ReadFirst, ReadSecond, ReadThird
<1> QED BY <1>3, <1>4, <1>5 DEF IInv

-----------------------------------------------------------------------------
(* Steps.                                                                  *)

\* The entry a thread that has loaded a retriever may insert.
Inserts(t, e) ==
  pc[t] \in ReadThird /\ e = [corpus |-> on[t], retriever |-> held[t]]

\* A thread that changes no index moves; what it inserts is what it has read.
LEMMA MoveFresh ==
  ASSUME IInv, NEW t \in Threads, disk' = disk,
         \A u \in Threads \ {t} :
           pc'[u] = pc[u] /\ on'[u] = on[u] /\ held'[u] = held[u],
         pc[t] \notin Changers,
         pc'[t] \notin {"clearServices", "clearRetrievers"},
         \A e \in ToSet(services') : e \in ToSet(services) \/ Inserts(t, e),
         \A e \in ToSet(retrievers') : e \in ToSet(retrievers) \/ Inserts(t, e),
         on'[t] \in Corpora \ Indexed => ReadsCurrent(t, on[t])'
  PROVE  FreshInv'
<1> SUFFICES ASSUME NEW c \in Corpora \ Indexed
             PROVE  CorpusFresh(c)'
  BY DEF FreshInv
<1> USE ThreadFacts
<1>1. CorpusFresh(c)
  BY DEF IInv, FreshInv
<1>2. held[t] \in Readings
  BY DEF IInv, Types
<1>3. ASSUME pc[t] \in ReadThird, on[t] = c
      PROVE  /\ held[t] = OnDisk(c)
             /\ ~(pc[Loop] = "clearRetrievers" /\ on[Loop] = c)
  <2>1. held[t].faiss = disk[c].faiss /\ held[t].dense = disk[c].metadata
          /\ held[t].sparse = disk[c].metadata
    BY <1>1, <1>3
    DEF CorpusFresh, ReadsCurrent, ReadFirst, ReadSecond, ReadThird
  <2>2. held[t] = OnDisk(c)
    BY <1>2, <2>1 DEF OnDisk, Readings
  <2>3. ~(pc[Loop] = "clearRetrievers" /\ on[Loop] = c)
    BY <1>3 DEF IInv, OwnerInv, Changers, ReadThird
  <2> QED BY <2>2, <2>3
<1>4. ~ Changing(Loop, c)' => Current(c)'
  <2> SUFFICES ASSUME ~ Changing(Loop, c)',
                      NEW e \in ToSet(services') \cup ToSet(retrievers'),
                      e.corpus = c
               PROVE  e.retriever = OnDisk(c)
    BY DEF Current, OnDisk
  <2>1. ~ Changing(Loop, c)
    BY DEF Changing, Changers
  <2>2. Current(c)
    BY <1>1, <2>1 DEF CorpusFresh
  <2>3. CASE e \in ToSet(services) \cup ToSet(retrievers)
    BY <2>2, <2>3 DEF Current
  <2>4. CASE Inserts(t, e)
    BY <1>3, <2>4 DEF Inserts
  <2> QED BY <2>3, <2>4
<1>5. ASSUME pc'[Loop] = "clearRetrievers", on'[Loop] = c,
             NEW e \in ToSet(services')
      PROVE  e.corpus # c
  <2>1. pc[Loop] = "clearRetrievers" /\ on[Loop] = c
    BY <1>5
  <2> QED BY <1>1, <1>3, <1>5, <2>1 DEF CorpusFresh, Inserts
<1>6. \A u \in Threads : on'[u] = c => ReadsCurrent(u, c)'
  BY <1>1 DEF CorpusFresh, ReadsCurrent
<1> QED BY <1>4, <1>5, <1>6 DEF CorpusFresh

LEMMA AskStep ==
  ASSUME IInv, NEW t \in Pool \cup {Loop}, NEW c \in Corpora,
         NEW what \in {"service", "retriever"}, t # Loop => c = Default,
         Ask(t, c, what)
  PROVE  IInv'
<1> USE ThreadFacts
<1>1. Types'
  BY DEF Ask, Goto, IInv, Types, Labels
<1>2. /\ pc[t] = "idle" /\ pc' = [pc EXCEPT ![t] = what]
      /\ on' = [on EXCEPT ![t] = c]
  BY DEF Ask, Goto
<1>3. HeldInv'
  BY <1>2 DEF Ask, IInv, Types, HeldInv, ReadFirst, ReadSecond, ReadThird
<1>4. OwnerInv'
  BY <1>2 DEF IInv, Types, OwnerInv, Changers
<1>5. FreshInv'
  BY <1>2, MoveFresh
  DEF Ask, IInv, Types, ReadsCurrent, ReadFirst, ReadSecond, ReadThird, Changers
<1> QED BY <1>1, <1>3, <1>4, <1>5 DEF IInv

\* A request ends where it is.
LEMMA RestsFresh ==
  ASSUME IInv, NEW t \in Threads, Rest(t), pc[t] \notin Changers,
         disk' = disk, plan' = plan, changes' = changes,
         WellKept(services)', WellKept(retrievers)',
         \A e \in ToSet(services') : e \in ToSet(services) \/ Inserts(t, e),
         \A e \in ToSet(retrievers') : e \in ToSet(retrievers) \/ Inserts(t, e)
  PROVE  IInv'
<1> USE ThreadFacts, CacheAssumption
<1>1. /\ pc' = [pc EXCEPT ![t] = "idle"] /\ on' = [on EXCEPT ![t] = Default]
      /\ wants' = [wants EXCEPT ![t] = "service"]
      /\ held' = [held EXCEPT ![t] = Unread]
  BY DEF Rest, Goto
<1>2. Types'
  BY <1>1 DEF IInv, Types, Labels, Unread, Contents, Readings
<1>3. HeldInv'
  BY <1>1 DEF IInv, Types, HeldInv, ReadFirst, ReadSecond, ReadThird
<1>4. OwnerInv'
  BY <1>1 DEF IInv, Types, OwnerInv, Changers
<1>5. FreshInv'
  <2>1. /\ pc'[t] = "idle"
        /\ \A u \in Threads \ {t} :
             pc'[u] = pc[u] /\ on'[u] = on[u] /\ held'[u] = held[u]
    BY <1>1 DEF IInv, Types
  <2>2. on'[t] \in Corpora \ Indexed => ReadsCurrent(t, on[t])'
    BY <2>1 DEF ReadsCurrent, ReadFirst, ReadSecond, ReadThird
  <2> QED BY <2>1, <2>2, MoveFresh
<1> QED BY <1>2, <1>3, <1>4, <1>5 DEF IInv

\* A resolving thread goes on to a label, with what it holds now.
LEMMA GoesOnFresh ==
  ASSUME IInv, NEW t \in Threads, NEW label \in Labels \ Changers,
         NEW r \in Readings,
         Onward(t, label), held' = [held EXCEPT ![t] = r],
         pc[t] \notin Changers,
         disk' = disk, plan' = plan, changes' = changes,
         WellKept(services)', WellKept(retrievers)',
         \A e \in ToSet(services') : e \in ToSet(services) \/ Inserts(t, e),
         \A e \in ToSet(retrievers') : e \in ToSet(retrievers) \/ Inserts(t, e),
         label \in ReadFirst => r.faiss \in Versions,
         label \in ReadSecond => r.dense \in Versions,
         label \in ReadThird => r.sparse \in Versions,
         on[t] \in Corpora \ Indexed =>
           /\ label \in ReadFirst => r.faiss = disk[on[t]].faiss
           /\ label \in ReadSecond => r.dense = disk[on[t]].metadata
           /\ label \in ReadThird => r.sparse = disk[on[t]].metadata
  PROVE  IInv'
<1> USE ThreadFacts, CacheAssumption
<1>1. pc' = [pc EXCEPT ![t] = label] /\ on' = on /\ wants' = wants
  BY DEF Onward, Goto
<1>2. Types'
  BY <1>1 DEF IInv, Types
<1>3. HeldInv'
  BY <1>1 DEF IInv, Types, HeldInv
<1>4. OwnerInv'
  BY <1>1 DEF IInv, Types, OwnerInv
<1>5. FreshInv'
  <2>1. /\ pc'[t] = label /\ held'[t] = r
        /\ \A u \in Threads \ {t} :
             pc'[u] = pc[u] /\ on'[u] = on[u] /\ held'[u] = held[u]
    BY <1>1 DEF IInv, Types
  <2>2. on'[t] \in Corpora \ Indexed => ReadsCurrent(t, on[t])'
    BY <1>1, <2>1 DEF ReadsCurrent
  <2>3. label \notin {"clearServices", "clearRetrievers"}
    BY DEF Changers
  <2> QED BY <1>1, <2>1, <2>2, <2>3, MoveFresh
<1> QED BY <1>2, <1>3, <1>4, <1>5 DEF IInv

\* A thread that resolves a corpus meets current entries only.
LEMMA MeetsCurrent ==
  ASSUME IInv, NEW t \in Threads, pc[t] \notin Changers,
         on[t] \in Corpora \ Indexed
  PROVE  Current(on[t]) /\ ReadsCurrent(t, on[t])
<1> USE ThreadFacts
<1>1. ~ Changing(Loop, on[t])
  BY DEF IInv, OwnerInv, Changing, Changers
<1> QED BY <1>1 DEF IInv, FreshInv, CorpusFresh

LEMMA LookupServiceStep ==
  ASSUME IInv, NEW t \in Threads, LookupService(t)
  PROVE  IInv'
<1>1. /\ pc[t] = "service" /\ pc[t] \notin Changers /\ on[t] \in Corpora
      /\ UNCHANGED <<disk, retrievers, plan, changes>>
      /\ WellKept(services) /\ WellKept(retrievers)'
      /\ held[t] \in Readings
  BY DEF LookupService, Changers, IInv, Types, WellKept
<1>2. CASE on[t] \in Keys(services)
  <2>1. services' = Touched(services, on[t]) /\ Rest(t)
    BY <1>2 DEF LookupService
  <2>2. WellKept(services') /\ ToSet(services') \subseteq ToSet(services)
    BY <1>1, <1>2, <2>1, TouchedKept
  <2>3. WellKept(services)'
    BY <2>2 DEF WellKept
  <2> QED BY <1>1, <2>1, <2>2, <2>3, RestsFresh
<1>3. CASE on[t] \notin Keys(services)
  <2>1. Onward(t, "retriever") /\ services' = services /\ held' = held
    BY <1>3 DEF LookupService
  <2>2. held' = [held EXCEPT ![t] = held[t]]
    BY <2>1 DEF IInv, Types
  <2>3. WellKept(services)'
    BY <1>1, <2>1 DEF WellKept
  <2>4. /\ "retriever" \in Labels \ Changers
        /\ "retriever" \notin ReadFirst \cup ReadSecond \cup ReadThird
    BY DEF Labels, Changers, ReadFirst, ReadSecond, ReadThird
  <2> QED BY <1>1, <2>1, <2>2, <2>3, <2>4, GoesOnFresh
<1> QED BY <1>2, <1>3

\* With a retriever in hand a thread goes on, or is done.
LEMMA WithRetrieverStep ==
  ASSUME IInv, NEW t \in Threads, NEW r \in Retrievers,
         WithRetriever(t, r), pc[t] \notin Changers,
         UNCHANGED <<disk, services, plan, changes>>,
         WellKept(retrievers'),
         \A e \in ToSet(retrievers') : e \in ToSet(retrievers) \/ Inserts(t, e),
         on[t] \in Corpora \ Indexed => r = OnDisk(on[t])
  PROVE  IInv'
<1>1. WellKept(services)' /\ WellKept(retrievers)'
  BY DEF WellKept, IInv, Types
<1>2. CASE wants[t] = "service"
  <2>1. Onward(t, "build") /\ held' = [held EXCEPT ![t] = r]
    BY <1>2 DEF WithRetriever
  <2>2. /\ r \in Readings
        /\ r.faiss \in Versions /\ r.dense \in Versions /\ r.sparse \in Versions
    BY DEF Retrievers, Contents, Readings
  <2>3. on[t] \in Corpora \ Indexed =>
          /\ r.faiss = disk[on[t]].faiss
          /\ r.dense = disk[on[t]].metadata
          /\ r.sparse = disk[on[t]].metadata
    BY DEF OnDisk
  <2>4. "build" \in Labels \ Changers
    BY DEF Labels, Changers
  <2> QED BY <1>1, <2>1, <2>2, <2>3, <2>4, GoesOnFresh
<1>3. CASE wants[t] # "service"
  <2>1. Rest(t)
    BY <1>3 DEF WithRetriever
  <2> QED BY <1>1, <2>1, RestsFresh
<1> QED BY <1>2, <1>3

LEMMA LookupRetrieverStep ==
  ASSUME IInv, NEW t \in Threads, LookupRetriever(t)
  PROVE  IInv'
<1>1. /\ pc[t] = "retriever" /\ pc[t] \notin Changers /\ on[t] \in Corpora
      /\ UNCHANGED <<disk, services, plan, changes>>
      /\ WellKept(retrievers) /\ WellKept(services)'
      /\ held[t] \in Readings
  BY DEF LookupRetriever, Changers, IInv, Types, WellKept
<1>2. CASE on[t] \in Keys(retrievers)
  <2> DEFINE entry == Entry(retrievers, on[t])
  <2>1. /\ retrievers' = Touched(retrievers, on[t])
        /\ WithRetriever(t, entry.retriever)
    BY <1>2 DEF LookupRetriever
  <2>2. /\ WellKept(retrievers')
        /\ ToSet(retrievers') \subseteq ToSet(retrievers)
        /\ entry \in ToSet(retrievers) /\ entry.corpus = on[t]
    BY <1>1, <1>2, <2>1, TouchedKept
  <2> HIDE DEF entry
  <2>3. entry.retriever \in Retrievers
    <3>1. retrievers \in Seq(Entries)
      BY <1>1 DEF WellKept
    <3>2. \A i \in DOMAIN retrievers : retrievers[i] \in Entries
      BY <3>1
    <3>3. entry \in Entries
      BY <2>2, <3>2 DEF ToSet
    <3> QED BY <3>3 DEF Entries
  <2>4. on[t] \in Corpora \ Indexed => entry.retriever = OnDisk(on[t])
    BY <1>1, <2>2, MeetsCurrent DEF Current
  <2> QED BY <1>1, <2>1, <2>2, <2>3, <2>4, WithRetrieverStep
<1>3. CASE on[t] \notin Keys(retrievers) /\ Exists(on[t])
  <2>1. Onward(t, "readFaiss") /\ retrievers' = retrievers /\ held' = held
    BY <1>3 DEF LookupRetriever
  <2>2. held' = [held EXCEPT ![t] = held[t]]
    BY <2>1 DEF IInv, Types
  <2>3. WellKept(retrievers)'
    BY <1>1, <2>1 DEF WellKept
  <2>4. /\ "readFaiss" \in Labels \ Changers
        /\ "readFaiss" \notin ReadFirst \cup ReadSecond \cup ReadThird
    BY DEF Labels, Changers, ReadFirst, ReadSecond, ReadThird
  <2> QED BY <1>1, <2>1, <2>2, <2>3, <2>4, GoesOnFresh
<1>4. CASE on[t] \notin Keys(retrievers) /\ ~ Exists(on[t])
  <2>1. Rest(t) /\ retrievers' = retrievers
    BY <1>4 DEF LookupRetriever
  <2>2. WellKept(retrievers)'
    BY <1>1, <2>1 DEF WellKept
  <2> QED BY <1>1, <2>1, <2>2, RestsFresh
<1> QED BY <1>2, <1>3, <1>4

LEMMA ReadFaissStep ==
  ASSUME IInv, NEW t \in Threads, ReadFaiss(t)
  PROVE  IInv'
<1> DEFINE found == disk[on[t]].faiss
           r == [held[t] EXCEPT !.faiss = found]
<1>1. /\ pc[t] = "readFaiss" /\ pc[t] \notin Changers /\ on[t] \in Corpora
      /\ UNCHANGED <<disk, services, retrievers, plan, changes>>
      /\ held[t] \in Readings
      /\ found \in Contents
      /\ WellKept(services)' /\ WellKept(retrievers)'
  BY DEF ReadFaiss, Read, Changers, IInv, Types, WellKept
<1>2. CASE found \in {None, Torn}
  <2>1. Rest(t)
    BY <1>2 DEF ReadFaiss, Read
  <2> QED BY <1>1, <2>1, RestsFresh
<1>3. CASE found \notin {None, Torn}
  <2>1. Onward(t, "readDense") /\ held' = [held EXCEPT ![t] = r]
    BY <1>3 DEF ReadFaiss, Read
  <2>2. /\ r \in Readings
        /\ r.faiss = found /\ found \in Versions
    BY <1>1, <1>3 DEF Contents, Readings
  <2>3. /\ "readDense" \in Labels \ Changers
        /\ "readDense" \notin ReadSecond \cup ReadThird
    BY DEF Labels, Changers, ReadSecond, ReadThird
  <2> HIDE DEF r
  <2> QED BY <1>1, <2>1, <2>2, <2>3, GoesOnFresh
<1> QED BY <1>2, <1>3

LEMMA ReadDenseStep ==
  ASSUME IInv, NEW t \in Threads, ReadDense(t)
  PROVE  IInv'
<1> DEFINE found == disk[on[t]].metadata
           r == [held[t] EXCEPT !.dense = found]
<1>1. /\ pc[t] = "readDense" /\ pc[t] \notin Changers /\ on[t] \in Corpora
      /\ UNCHANGED <<disk, services, retrievers, plan, changes>>
      /\ held[t] \in Readings
      /\ found \in Contents
      /\ WellKept(services)' /\ WellKept(retrievers)'
  BY DEF ReadDense, Read, Changers, IInv, Types, WellKept
<1>2. CASE found \in {None, Torn}
  <2>1. Rest(t)
    BY <1>2 DEF ReadDense, Read
  <2> QED BY <1>1, <2>1, RestsFresh
<1>3. CASE found \notin {None, Torn}
  <2>1. Onward(t, "readSparse") /\ held' = [held EXCEPT ![t] = r]
    BY <1>3 DEF ReadDense, Read
  <2>2. /\ r \in Readings
        /\ r.dense = found /\ r.faiss = held[t].faiss /\ found \in Versions
    BY <1>1, <1>3 DEF Contents, Readings
  <2>3. /\ "readSparse" \in Labels \ Changers
        /\ "readSparse" \notin ReadThird
    BY DEF Labels, Changers, ReadThird
  <2>4. /\ r.faiss \in Versions
        /\ on[t] \in Corpora \ Indexed => r.faiss = disk[on[t]].faiss
    BY <1>1, <2>2, MeetsCurrent DEF IInv, HeldInv, ReadsCurrent, ReadFirst
  <2> HIDE DEF r
  <2> QED BY <1>1, <2>1, <2>2, <2>3, <2>4, GoesOnFresh
<1> QED BY <1>2, <1>3

LEMMA ReadSparseStep ==
  ASSUME IInv, NEW t \in Threads, ReadSparse(t)
  PROVE  IInv'
<1> DEFINE found == disk[on[t]].metadata
           r == [held[t] EXCEPT !.sparse = found]
<1>1. /\ pc[t] = "readSparse" /\ pc[t] \notin Changers /\ on[t] \in Corpora
      /\ UNCHANGED <<disk, services, retrievers, plan, changes>>
      /\ held[t] \in Readings
      /\ found \in Contents
      /\ WellKept(services)' /\ WellKept(retrievers)'
  BY DEF ReadSparse, Read, Changers, IInv, Types, WellKept
<1>2. CASE found \in {None, Torn}
  <2>1. Rest(t)
    BY <1>2 DEF ReadSparse, Read
  <2> QED BY <1>1, <2>1, RestsFresh
<1>3. CASE found \notin {None, Torn}
  <2>1. Onward(t, "keepRetriever") /\ held' = [held EXCEPT ![t] = r]
    BY <1>3 DEF ReadSparse, Read
  <2>2. /\ r \in Readings
        /\ r.sparse = found /\ r.dense = held[t].dense
        /\ r.faiss = held[t].faiss /\ found \in Versions
    BY <1>1, <1>3 DEF Contents, Readings
  <2>3. "keepRetriever" \in Labels \ Changers
    BY DEF Labels, Changers
  <2>4. /\ r.faiss \in Versions /\ r.dense \in Versions
        /\ on[t] \in Corpora \ Indexed => /\ r.faiss = disk[on[t]].faiss
                                         /\ r.dense = disk[on[t]].metadata
    BY <1>1, <2>2, MeetsCurrent
    DEF IInv, HeldInv, ReadsCurrent, ReadFirst, ReadSecond
  <2> HIDE DEF r
  <2> QED BY <1>1, <2>1, <2>2, <2>3, <2>4, GoesOnFresh
<1> QED BY <1>2, <1>3

\* What a thread that has loaded a retriever holds.
LEMMA HoldsWhole ==
  ASSUME IInv, NEW t \in Threads, pc[t] \in ReadThird
  PROVE  /\ pc[t] \notin Changers /\ on[t] \in Corpora
         /\ held[t] \in Retrievers
         /\ on[t] \in Corpora \ Indexed => held[t] = OnDisk(on[t])
<1>1. /\ pc[t] \notin Changers /\ on[t] \in Corpora
      /\ pc[t] \in ReadFirst /\ pc[t] \in ReadSecond
      /\ held[t] \in Readings
  BY DEF IInv, Types, Changers, ReadFirst, ReadSecond, ReadThird
<1>2. held[t] \in Retrievers
  BY <1>1 DEF IInv, HeldInv, Retrievers, Readings
<1>3. on[t] \in Corpora \ Indexed => held[t] = OnDisk(on[t])
  BY <1>1, MeetsCurrent DEF ReadsCurrent, OnDisk, Readings
<1> QED BY <1>1, <1>2, <1>3

LEMMA KeepRetrieverStep ==
  ASSUME IInv, NEW t \in Threads, KeepRetriever(t)
  PROVE  IInv'
<1>1. /\ pc[t] \in ReadThird
      /\ retrievers' = Inserted(retrievers, on[t], held[t])
      /\ WithRetriever(t, held[t])
      /\ UNCHANGED <<disk, services, plan, changes>>
      /\ WellKept(retrievers)
  BY DEF KeepRetriever, ReadThird, IInv, Types
<1>2. /\ WellKept(retrievers')
      /\ ToSet(retrievers') \subseteq
           ToSet(retrievers) \cup {[corpus |-> on[t], retriever |-> held[t]]}
  BY <1>1, HoldsWhole, InsertedKept
<1> QED BY <1>1, <1>2, HoldsWhole, WithRetrieverStep DEF Inserts

LEMMA KeepServiceStep ==
  ASSUME IInv, NEW t \in Threads, KeepService(t)
  PROVE  IInv'
<1>1. /\ pc[t] \in ReadThird
      /\ services' = Inserted(services, on[t], held[t]) \/ services' = services
      /\ Rest(t)
      /\ UNCHANGED <<disk, retrievers, plan, changes>>
      /\ WellKept(services) /\ WellKept(retrievers)'
  BY DEF KeepService, ReadThird, IInv, Types, WellKept
<1>2. /\ WellKept(services')
      /\ ToSet(services') \subseteq
           ToSet(services) \cup {[corpus |-> on[t], retriever |-> held[t]]}
  BY <1>1, HoldsWhole, InsertedKept
<1>3. WellKept(services)'
  BY <1>2 DEF WellKept
<1> QED BY <1>1, <1>2, <1>3, HoldsWhole, RestsFresh DEF Inserts

LEMMA StartChangeStep ==
  ASSUME IInv, NEW t \in {Loop, Worker}, NEW c \in Corpora \ {Default},
         t = Worker => c \in Indexed,
         NEW writes \in Seq(Writes), StartChange(t, c, writes)
  PROVE  IInv'
<1> USE ThreadFacts
<1>1. /\ pc[t] = "idle" /\ pc' = [pc EXCEPT ![t] = "write"]
      /\ on' = [on EXCEPT ![t] = c] /\ plan' = [plan EXCEPT ![t] = writes]
      /\ changes < MaxChanges /\ changes' = changes + 1
      /\ UNCHANGED <<disk, services, retrievers, wants, held>>
  BY DEF StartChange, Goto
<1>2. Types'
  <2>1. changes' \in Versions
    BY <1>1, CacheAssumption DEF IInv, Types, Versions
  <2>2. WellKept(services)' /\ WellKept(retrievers)'
    BY <1>1 DEF IInv, Types, WellKept
  <2>3. plan' \in [Threads -> Seq(Writes)]
    BY <1>1 DEF IInv, Types, Writes
  <2> QED BY <1>1, <2>1, <2>2, <2>3 DEF IInv, Types, Labels, Writes
<1>3. HeldInv'
  BY <1>1 DEF IInv, Types, HeldInv, ReadFirst, ReadSecond, ReadThird
<1>4. OwnerInv'
  BY <1>1 DEF IInv, Types, OwnerInv, Changers
<1>5. FreshInv'
  <2>1. /\ pc'[t] = "write" /\ pc[t] \notin Changers
        /\ \A u \in Threads \ {t} :
             pc'[u] = pc[u] /\ on'[u] = on[u] /\ held'[u] = held[u]
    BY <1>1 DEF IInv, Types, Changers
  <2>2. on'[t] \in Corpora \ Indexed => ReadsCurrent(t, on[t])'
    BY <2>1 DEF ReadsCurrent, ReadFirst, ReadSecond, ReadThird
  <2> QED BY <1>1, <2>1, <2>2, MoveFresh
<1> QED BY <1>2, <1>3, <1>4, <1>5 DEF IInv

LEMMA RewriteTyped ==
  ASSUME Types, changes < MaxChanges
  PROVE  Rewrite(changes + 1) \in Seq(Writes) /\ UnlinkAll \in Seq(Writes)
<1>1. changes + 1 \in Contents /\ None \in Contents /\ Torn \in Contents
  BY CacheAssumption DEF Types, Versions, Contents
<1>2. \A v \in Contents : /\ Put("metadata", v) \in Writes
                          /\ Put("faiss", v) \in Writes
  BY DEF Put, Writes
<1> QED BY <1>1, <1>2 DEF Rewrite, UnlinkAll

LEMMA IndexDocumentStep ==
  ASSUME IInv, NEW c \in Corpora, IndexDocument(c)
  PROVE  IInv'
<1>1. /\ c \in Corpora \ {Default} /\ c \in Indexed /\ changes < MaxChanges
      /\ StartChange(Worker, c, Rewrite(changes + 1))
  BY CacheAssumption DEF IndexDocument, StartChange
<1> QED BY <1>1, RewriteTyped, StartChangeStep DEF IInv

LEMMA DeleteDocumentStep ==
  ASSUME IInv, NEW c \in Corpora, DeleteDocument(c)
  PROVE  IInv'
<1>1. /\ c \in Corpora \ {Default} /\ changes < MaxChanges
      /\ \/ StartChange(Loop, c, Rewrite(changes + 1))
         \/ StartChange(Loop, c, UnlinkAll)
         \/ StartChange(Loop, c, <<>>)
  BY DEF DeleteDocument, StartChange
<1>2. <<>> \in Seq(Writes)
  OBVIOUS
<1> QED BY <1>1, <1>2, RewriteTyped, StartChangeStep, ThreadFacts DEF IInv

\* While the event loop changes a corpus, no thread has read any of it.
LEMMA WriteStep ==
  ASSUME IInv, NEW t \in Threads, Write(t)
  PROVE  IInv'
<1> USE ThreadFacts
<1>1. /\ pc[t] = "write" /\ on[t] \in Corpora
      /\ UNCHANGED <<services, retrievers, on, wants, held, changes>>
      /\ WellKept(services)' /\ WellKept(retrievers)'
  BY DEF Write, IInv, Types, WellKept
<1>2. CASE plan[t] = <<>>
  <2>1. pc' = [pc EXCEPT ![t] = "clearServices"] /\ UNCHANGED <<disk, plan>>
    BY <1>2 DEF Write, Goto
  <2>2. Types'
    BY <1>1, <2>1 DEF IInv, Types, Labels
  <2>3. HeldInv'
    BY <1>1, <2>1 DEF IInv, Types, HeldInv, ReadFirst, ReadSecond, ReadThird
  <2>4. OwnerInv'
    BY <1>1, <2>1 DEF IInv, Types, OwnerInv, Changers
  <2>5. FreshInv'
    <3> SUFFICES ASSUME NEW c \in Corpora \ Indexed
                 PROVE  CorpusFresh(c)'
      BY DEF FreshInv
    <3>1. CorpusFresh(c)
      BY DEF IInv, FreshInv
    <3>2. Changing(Loop, c)' <=> Changing(Loop, c)
      BY <1>1, <2>1 DEF Changing, IInv, Types
    <3>3. Current(c)' <=> Current(c)
      BY <1>1, <2>1 DEF Current, OnDisk
    <3>4. pc'[Loop] = "clearRetrievers" => pc[Loop] = "clearRetrievers"
      BY <2>1 DEF IInv, Types
    <3>5. \A u \in Threads : on[u] = c => ReadsCurrent(u, c)'
      BY <1>1, <2>1, <3>1
      DEF CorpusFresh, ReadsCurrent, IInv, Types, ReadFirst, ReadSecond,
          ReadThird
    <3> QED BY <1>1, <3>1, <3>2, <3>3, <3>4, <3>5 DEF CorpusFresh
  <2> QED BY <2>2, <2>3, <2>4, <2>5 DEF IInv
<1>3. CASE plan[t] # <<>>
  <2> DEFINE w == Head(plan[t])
  <2>1. /\ disk' = [disk EXCEPT ![on[t]][w.file] = w.content]
        /\ plan' = [plan EXCEPT ![t] = Tail(plan[t])]
        /\ pc' = pc
    BY <1>3 DEF Write
  <2>2. /\ w \in Writes
        /\ Tail(plan[t]) \in Seq(Writes)
    <3>1. plan[t] \in Seq(Writes)
      BY DEF IInv, Types
    <3> QED BY ONLY <1>3, <3>1 DEF w
  <2>3. disk' \in [Corpora -> [metadata : Contents, faiss : Contents]]
    BY <1>1, <2>1, <2>2 DEF IInv, Types, Writes
  <2>4. plan' \in [Threads -> Seq(Writes)]
    BY <2>1, <2>2 DEF IInv, Types, Writes
  <2>5. \A c \in Corpora \ {on[t]} : disk'[c] = disk[c]
    BY <2>1 DEF IInv, Types
  <2> HIDE DEF w
  <2>6. Types'
    BY <1>1, <2>1, <2>3, <2>4 DEF IInv, Types, Writes
  <2>7. HeldInv' /\ OwnerInv'
    BY <1>1, <2>1 DEF IInv, HeldInv, OwnerInv
  <2>8. FreshInv'
    <3> SUFFICES ASSUME NEW c \in Corpora \ Indexed
                 PROVE  CorpusFresh(c)'
      BY DEF FreshInv
    <3>1. CorpusFresh(c)
      BY DEF IInv, FreshInv
    <3>2. CASE on[t] = c
      <4>1. t = Loop /\ c # Default
        BY <1>1, <3>2 DEF IInv, OwnerInv, Changers
      <4>2. Changing(Loop, c)'
        BY <1>1, <2>1, <3>2, <4>1 DEF Changing
      <4>3. \A u \in Threads : on[u] = c => pc[u] \in Changers
        BY <1>1, <4>1 DEF IInv, OwnerInv, Changers
      <4>4. \A u \in Threads : on'[u] = c => ReadsCurrent(u, c)'
        BY <1>1, <2>1, <4>3
        DEF ReadsCurrent, Changers, ReadFirst, ReadSecond, ReadThird
      <4> QED BY <1>1, <2>1, <4>1, <4>2, <4>4 DEF CorpusFresh
    <3>3. CASE on[t] # c
      <4>1. disk'[c] = disk[c]
        BY <2>5, <3>3
      <4> QED BY <1>1, <2>1, <3>1, <4>1
          DEF CorpusFresh, Changing, Current, OnDisk, ReadsCurrent
    <3> QED BY <3>2, <3>3
  <2> QED BY <2>6, <2>7, <2>8 DEF IInv
<1> QED BY <1>2, <1>3

LEMMA ClearServicesStep ==
  ASSUME IInv, NEW t \in Threads, ClearServices(t)
  PROVE  IInv'
<1> USE ThreadFacts
<1>1. /\ pc[t] = "clearServices" /\ services' = <<>>
      /\ pc' = [pc EXCEPT ![t] = "clearRetrievers"]
      /\ UNCHANGED <<disk, retrievers, on, wants, held, plan, changes>>
      /\ ToSet(services') = {} /\ WellKept(services)' /\ WellKept(retrievers)'
  BY EmptyKept DEF ClearServices, Goto, IInv, Types, WellKept
<1>2. Types'
  BY <1>1 DEF IInv, Types, Labels
<1>3. HeldInv'
  BY <1>1 DEF IInv, Types, HeldInv, ReadFirst, ReadSecond, ReadThird
<1>4. OwnerInv'
  BY <1>1 DEF IInv, Types, OwnerInv, Changers
<1>5. FreshInv'
  <2> SUFFICES ASSUME NEW c \in Corpora \ Indexed
               PROVE  CorpusFresh(c)'
    BY DEF FreshInv
  <2>1. CorpusFresh(c)
    BY DEF IInv, FreshInv
  <2>2. Changing(Loop, c)' <=> Changing(Loop, c)
    BY <1>1 DEF Changing, IInv, Types
  <2>3. Current(c) => Current(c)'
    BY <1>1 DEF Current, OnDisk
  <2>4. \A u \in Threads : on[u] = c => ReadsCurrent(u, c)'
    BY <1>1, <2>1
    DEF CorpusFresh, ReadsCurrent, IInv, Types, ReadFirst, ReadSecond,
        ReadThird
  <2> QED BY <1>1, <2>1, <2>2, <2>3, <2>4 DEF CorpusFresh
<1> QED BY <1>2, <1>3, <1>4, <1>5 DEF IInv

LEMMA ClearRetrieversStep ==
  ASSUME IInv, NEW t \in Threads, ClearRetrievers(t)
  PROVE  IInv'
<1> USE ThreadFacts
<1>1. /\ pc[t] = "clearRetrievers" /\ retrievers' = <<>>
      /\ pc' = [pc EXCEPT ![t] = "idle"] /\ on' = [on EXCEPT ![t] = Default]
      /\ wants' = [wants EXCEPT ![t] = "service"]
      /\ held' = [held EXCEPT ![t] = Unread]
      /\ UNCHANGED <<disk, services, plan, changes>>
      /\ ToSet(retrievers') = {} /\ WellKept(services)' /\ WellKept(retrievers)'
  BY EmptyKept DEF ClearRetrievers, Rest, Goto, IInv, Types, WellKept
<1>2. Types'
  BY <1>1, CacheAssumption DEF IInv, Types, Labels, Unread, Contents, Readings
<1>3. HeldInv'
  BY <1>1 DEF IInv, Types, HeldInv, ReadFirst, ReadSecond, ReadThird
<1>4. OwnerInv'
  BY <1>1 DEF IInv, Types, OwnerInv, Changers
<1>5. FreshInv'
  <2> SUFFICES ASSUME NEW c \in Corpora \ Indexed
               PROVE  CorpusFresh(c)'
    BY DEF FreshInv
  <2>1. CorpusFresh(c)
    BY DEF IInv, FreshInv
  <2>2. Current(c) => Current(c)'
    BY <1>1 DEF Current, OnDisk
  <2>3. CASE t = Loop /\ on[t] = c
    <3>1. \A e \in ToSet(services) : e.corpus # c
      BY <1>1, <2>1, <2>3 DEF CorpusFresh
    <3>2. Current(c)'
      BY <1>1, <3>1 DEF Current
    <3>3. pc'[Loop] = "idle"
      BY <1>1, <2>3 DEF IInv, Types
    <3>4. \A u \in Threads : on'[u] = c => ReadsCurrent(u, c)'
      BY <1>1, <2>1
      DEF CorpusFresh, ReadsCurrent, IInv, Types, ReadFirst, ReadSecond,
          ReadThird
    <3> QED BY <3>2, <3>3, <3>4 DEF CorpusFresh
  <2>4. CASE ~(t = Loop /\ on[t] = c)
    <3>1. Changing(Loop, c) => Changing(Loop, c)'
      BY <1>1, <2>4 DEF Changing, IInv, Types
    <3>2. pc'[Loop] = "clearRetrievers" /\ on'[Loop] = c =>
            pc[Loop] = "clearRetrievers" /\ on[Loop] = c
      BY <1>1 DEF IInv, Types
    <3>3. \A u \in Threads : on'[u] = c => ReadsCurrent(u, c)'
      BY <1>1, <2>1
      DEF CorpusFresh, ReadsCurrent, IInv, Types, ReadFirst, ReadSecond,
          ReadThird
    <3> QED BY <1>1, <2>1, <2>2, <3>1, <3>2, <3>3 DEF CorpusFresh
  <2> QED BY <2>3, <2>4
<1> QED BY <1>2, <1>3, <1>4, <1>5 DEF IInv

LEMMA NextInv == IInv /\ [Next]_vars => IInv'
<1> SUFFICES ASSUME IInv, [Next]_vars PROVE IInv'
  OBVIOUS
<1> USE ThreadFacts
<1>1. ASSUME NEW c \in Corpora, Query(c) PROVE IInv'
  BY <1>1, AskStep DEF Query
<1>2. ASSUME NEW c \in Corpora, DeleteDocument(c) PROVE IInv'
  BY <1>2, DeleteDocumentStep
<1>3. ASSUME NEW c \in Corpora, IndexDocument(c) PROVE IInv'
  BY <1>3, IndexDocumentStep
<1>4. ASSUME NEW t \in Pool, NEW what \in {"service", "retriever"},
             Depend(t, what)
      PROVE  IInv'
  BY <1>4, AskStep, CacheAssumption DEF Depend
<1>5. ASSUME NEW t \in Threads, Resolve(t) PROVE IInv'
  BY <1>5, LookupServiceStep, LookupRetrieverStep, ReadFaissStep,
     ReadDenseStep, ReadSparseStep, KeepRetrieverStep, KeepServiceStep
  DEF Resolve
<1>6. ASSUME NEW t \in Threads, Change(t) PROVE IInv'
  BY <1>6, WriteStep, ClearServicesStep, ClearRetrieversStep DEF Change
<1>7. CASE UNCHANGED vars
  BY <1>7 DEF vars, IInv, Types, WellKept, HeldInv, OwnerInv, FreshInv,
              CorpusFresh, Changing, Current, OnDisk, ReadsCurrent
<1> QED BY <1>1, <1>2, <1>3, <1>4, <1>5, <1>6, <1>7 DEF Next

\* What each file and each cache holds is known: the caches keep their bound
\* and one entry per corpus, what is cached of a corpus the worker does not
\* index is what is on disk, unless a delete is under way (dependencies.py,
\* invalidate_service_cache and the two caches).
THEOREM InvariantHolds == Spec => []IInv
<1>1. Init => IInv
  BY InitInv
<1>2. IInv /\ [Next]_vars => IInv'
  BY NextInv
<1> QED BY <1>1, <1>2, PTL DEF Spec

\* Neither cache grows past its bound or holds a retriever in parts.
THEOREM TypeCorrect == Spec => []TypeOK
<1>1. IInv => TypeOK
  <2> SUFFICES ASSUME IInv PROVE TypeOK
    OBVIOUS
  <2>1. ASSUME NEW cache, WellKept(cache)
        PROVE  /\ Len(cache) <= CacheSize
               /\ IsInjective([i \in DOMAIN cache |-> cache[i].corpus])
               /\ \A e \in ToSet(cache) :
                    e.corpus \in Corpora /\ e.retriever \in Retrievers
    <3>1. /\ cache \in Seq(Entries) /\ DOMAIN cache = 1 .. Len(cache)
          /\ \A i \in DOMAIN cache : cache[i] \in Entries
      BY <2>1 DEF WellKept
    <3>2. IsInjective([i \in DOMAIN cache |-> cache[i].corpus])
      BY <2>1, <3>1 DEF WellKept, IsInjective
    <3> QED BY <2>1, <3>1, <3>2 DEF WellKept, ToSet, Entries
  <2>2. WellKept(services) /\ WellKept(retrievers)
    BY DEF IInv, Types
  <2>3. /\ disk \in [Corpora -> [metadata : Contents, faiss : Contents]]
        /\ pc \in [Threads -> Labels]
    BY DEF IInv, Types
  <2> QED BY <2>1, <2>2, <2>3 DEF TypeOK, Contents, Labels
<1> QED BY <1>1, InvariantHolds, PTL

\* After a delete is answered no query is served from what was loaded before
\* it, in a corpus the worker has no job for: for any number of corpora, pool
\* threads and changes, and whatever is evicted (documents.py, the
\* invalidation at the end of delete_document).
THEOREM DeletedNeverServed == Spec => []DeletedNotServed
<1>1. IInv => DeletedNotServed
  BY DEF IInv, FreshInv, CorpusFresh, DeletedNotServed, Changing
<1> QED BY <1>1, InvariantHolds, PTL
=============================================================================
