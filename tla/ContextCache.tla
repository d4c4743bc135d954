------------------------------ MODULE ContextCache ------------------------------
(***************************************************************************)
(* The caches of announcements, news and fund flow                         *)
(* (announcement_context.py, news_context.py, fund_flow.py evaluate): a    *)
(* scan reads the whole file, asks the source when the entry of its symbol *)
(* is missing or old, and writes the whole file back.  Scans overlap when  *)
(* the scan lock was reclaimed.                                            *)
(***************************************************************************)
EXTENDS Naturals

CONSTANTS
  Scans,
  Symbols,
  Life,        \* hours an entry is fresh
  MaxNews,     \* bound: versions of a symbol's news
  MaxAsked     \* bound: answers of the source

ASSUME CacheAssumption == Life \in Nat /\ Symbols # {}

VARIABLES
  news,        \* of every symbol: version and the hours since it appeared
  cache,       \* of every symbol: version and age of its entry; version 0: none
  cpc, symbol, held, got,  \* of every scan: step, symbol, the file in its memory
                           \* and the version it answers
  fetched,     \* history: the newest version the source gave out
  disturbed,   \* history: two scans overlapped, or a file was not written
  asked

cacheVars == <<news, cache, cpc, symbol, held, got, fetched, disturbed, asked>>

NoEntry == [version |-> 0, age |-> Life]

CacheInit ==
  /\ news = [s \in Symbols |-> [version |-> 1, age |-> Life]]
  /\ cache = [s \in Symbols |-> NoEntry]
  /\ cpc = [u \in Scans |-> "idle"]
  /\ symbol = [u \in Scans |-> CHOOSE s \in Symbols : TRUE]
  /\ held = [u \in Scans |-> cache]
  /\ got = [u \in Scans |-> 0]
  /\ fetched = [s \in Symbols |-> 0]
  /\ disturbed = FALSE /\ asked = 0

Appears(s) ==
  /\ news[s].version < MaxNews
  /\ news' = [news EXCEPT ![s] = [version |-> @.version + 1, age |-> 0]]
  /\ UNCHANGED <<cache, cpc, symbol, held, got, fetched, disturbed, asked>>

\* Entries keep the time they were fetched at, wherever they are copied.
Aged(entries) == [s \in Symbols |->
  [entries[s] EXCEPT !.age = IF @ < Life THEN @ + 1 ELSE @]]
HourPasses ==
  /\ news' = Aged(news)
  /\ cache' = Aged(cache)
  /\ held' = [u \in Scans |-> Aged(held[u])]
  /\ <<news, cache, held>>' # <<news, cache, held>>
  /\ UNCHANGED <<cpc, symbol, got, fetched, disturbed, asked>>

Fresh(entry) == entry.version > 0 /\ entry.age < Life

\* A fresh entry is the answer.
Evaluate(u) == \E s \in Symbols :
  /\ cpc[u] = "idle"
  /\ cpc' = [cpc EXCEPT ![u] = IF Fresh(cache[s]) THEN "hit" ELSE "asking"]
  /\ symbol' = [symbol EXCEPT ![u] = s]
  /\ held' = [held EXCEPT ![u] = cache]
  /\ got' = [got EXCEPT ![u] = cache[s].version]
  /\ disturbed' = (disturbed \/ \E v \in Scans : cpc[v] # "idle")
  /\ UNCHANGED <<news, cache, fetched, asked>>

\* Mutant: the other entries are dropped.
WrittenAlone(u, version) == [s \in Symbols |->
  IF s = symbol[u] THEN [version |-> version, age |-> 0] ELSE NoEntry]

\* Mutant: all entries count as fetched now.
WrittenAnew(u, version) == [s \in Symbols |->
  [held[u][s] EXCEPT !.version = IF s = symbol[u] THEN version ELSE @, !.age = 0]]

NewFile(u, version) ==
  [held[u] EXCEPT ![symbol[u]] = [version |-> version, age |-> 0]]

Fetch(u) ==
  /\ cpc[u] = "asking" /\ asked < MaxAsked
  /\ cpc' = [cpc EXCEPT ![u] = "writing"]
  /\ held' = [held EXCEPT ![u] = NewFile(u, news[symbol[u]].version)]
  /\ fetched' = [fetched EXCEPT ![symbol[u]] = news[symbol[u]].version]
  /\ asked' = asked + 1
  /\ UNCHANGED <<news, cache, symbol, got, disturbed>>

\* The old entry, or the neutral answer when there is none.
FetchFails(u) ==
  /\ cpc[u] = "asking"
  /\ cpc' = [cpc EXCEPT ![u] = "answered"]
  /\ UNCHANGED <<news, cache, symbol, held, got, fetched, disturbed, asked>>

WriteCache(u) ==
  /\ cpc[u] = "writing"
  /\ cpc' = [cpc EXCEPT ![u] = "answered"]
  /\ cache' = held[u]
  /\ got' = [got EXCEPT ![u] = held[u][symbol[u]].version]
  /\ UNCHANGED <<news, symbol, held, fetched, disturbed, asked>>

\* What was fetched is given up with the file: the answer is the old entry.
WriteFails(u) ==
  /\ cpc[u] = "writing"
  /\ cpc' = [cpc EXCEPT ![u] = "answered"]
  /\ disturbed' = TRUE
  /\ UNCHANGED <<news, cache, symbol, held, got, fetched, asked>>

Answer(u) ==
  /\ cpc[u] \in {"hit", "answered"}
  /\ cpc' = [cpc EXCEPT ![u] = "idle"]
  /\ held' = [held EXCEPT ![u] = [s \in Symbols |-> NoEntry]]
  /\ got' = [got EXCEPT ![u] = 0]
  /\ UNCHANGED <<news, cache, symbol, fetched, disturbed, asked>>

CacheNext ==
  \/ HourPasses \/ \E s \in Symbols : Appears(s)
  \/ \E u \in Scans : \/ Evaluate(u) \/ Fetch(u) \/ FetchFails(u) \/ WriteCache(u)
                      \/ WriteFails(u) \/ Answer(u)

CacheSpec == CacheInit /\ [][CacheNext]_cacheVars

\* A fresh entry, which keeps a scan from asking, is not older than news that
\* appeared as long ago as an entry lives, however often several scans copied
\* the file and wrote it back.
FreshHidesNoOldNews ==
  \A s \in Symbols : Fresh(cache[s]) /\ news[s].age >= Life =>
    cache[s].version = news[s].version

\* What a scan is answered is the newest that was ever fetched for the symbol,
\* also when the source fails, unless scans overlapped or a file could not be
\* written: a blocked symbol is not let through by a source that fails.
AnswerIsNewestFetched ==
  \A u \in Scans : cpc[u] \in {"hit", "answered"} /\ ~disturbed =>
    got[u] = fetched[symbol[u]]
=============================================================================
