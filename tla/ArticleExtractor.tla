--------------------------- MODULE ArticleExtractor ---------------------------
(***************************************************************************)
(* Article pages: the cache, the throttle and the download                 *)
(* (server/logic/article_extractor.go, article_cache.go), for every        *)
(* goroutine that turns feed items into toots at the same time.            *)
(*                                                                         *)
(* The cache and the throttle have a mutex each; a caller holds neither    *)
(* while it sleeps, downloads and extracts.  It reads the clock before     *)
(* each of the three calls that take a mutex.                              *)
(***************************************************************************)
EXTENDS HostThrottle

CONSTANTS
  Workers,   \* goroutines inside createToot
  Pages,     \* article URLs
  NoPage,    \* no page: the worker is not inside ExtractArticle
  HostOf,    \* the host of each page
  Ttl,       \* articleCacheTtl
  MaxSize    \* articleCacheSize

ASSUME ExtractorAssumption ==
  /\ NoPage \notin Pages
  /\ HostOf \in [Pages -> Hosts]
  /\ Ttl \in Nat \ {0}
  /\ MaxSize \in Nat \ {0}

VARIABLES
  cached,    \* the keys of the map entries
  storedAt,  \* storedAt of its values, 0 for a page that is not cached
  at,        \* workers: "idle", "turn" (missed the cache), "asleep", "fetched"
  page,      \* the page a worker is to return
  slot       \* the slot a sleeping worker was given

cacheVars == <<cached, storedAt>>
workerVars == <<at, page, slot>>
vars == <<throttleVars, cacheVars, workerVars>>

TypeOK ==
  /\ ThrottleTypeOK
  /\ cached \subseteq Pages
  /\ storedAt \in [Pages -> 0..MaxTime]
  /\ at \in [Workers -> {"idle", "turn", "asleep", "fetched"}]
  /\ page \in [Workers -> Pages \cup {NoPage}]
  /\ \A w \in Workers : at[w] = "idle" <=> page[w] = NoPage
  /\ slot \in [Workers -> Nat]

-----------------------------------------------------------------------------
(* articleCache                                                              *)

Expired(p, now) == now - storedAt[p] >= Ttl

\* The pages in the cache that are older than no other one.
Oldest(pages) == {p \in pages : \A q \in pages : storedAt[p] <= storedAt[q]}

\* Mutant of Evicted: room is made only once the cache is past its limit.
EvictedLate(p, now) ==
  LET live == {q \in cached : ~Expired(q, now)}
  IN IF p \in cached \/ Cardinality(cached) <= MaxSize THEN {{}}
     ELSE IF Cardinality(live) <= MaxSize THEN {cached \ live}
     ELSE {(cached \ live) \cup {q} : q \in Oldest(live)}

\* Mutant of Evicted: any entry may go.
EvictedAny(p, now) ==
  IF p \in cached \/ Cardinality(cached) < MaxSize THEN {{}}
  ELSE {{q} : q \in cached}

\* The sets of pages makeRoom may drop before page p is put.
Evicted(p, now) ==
  LET live == {q \in cached : ~Expired(q, now)}
  IN IF p \in cached \/ Cardinality(cached) < MaxSize THEN {{}}
     ELSE IF Cardinality(live) < MaxSize THEN {cached \ live}
     ELSE {(cached \ live) \cup {q} : q \in Oldest(live)}

Put(p, now) ==
  \E out \in Evicted(p, now) :
    /\ cached' = (cached \ out) \cup {p}
    /\ storedAt' = [q \in Pages |-> IF q = p THEN now
                                    ELSE IF q \in out THEN 0 ELSE storedAt[q]]

\* get drops the entry it finds expired.
Drop(p) ==
  /\ cached' = cached \ {p}
  /\ storedAt' = [storedAt EXCEPT ![p] = 0]

-----------------------------------------------------------------------------
(* ExtractArticle                                                            *)

\* cache.get finds an article, or the failure to get one.
Hit(w, p) ==
  /\ at[w] = "idle"
  /\ p \in cached
  /\ \E now \in Recent : ~Expired(p, now)
  /\ UNCHANGED vars

Miss(w, p) ==
  /\ at[w] = "idle"
  /\ \/ p \notin cached /\ UNCHANGED cacheVars
     \/ p \in cached /\ (\E now \in Recent : Expired(p, now)) /\ Drop(p)
  /\ at' = [at EXCEPT ![w] = "turn"]
  /\ page' = [page EXCEPT ![w] = p]
  /\ UNCHANGED <<throttleVars, slot>>

\* waitForTurn: the slot is booked.
WaitForTurn(w) ==
  /\ at[w] = "turn"
  /\ \E now \in Recent :
       /\ Reserve(HostOf[page[w]], now)
       /\ slot' = [slot EXCEPT ![w] = SlotFor(HostOf[page[w]], now)]
  /\ at' = [at EXCEPT ![w] = "asleep"]
  /\ UNCHANGED <<cacheVars, page>>

\* Mutant of FetchAndExtract: the caller does not wait for its slot.
FetchAtOnce(w) ==
  /\ at[w] = "asleep"
  /\ at' = [at EXCEPT ![w] = "fetched"]
  /\ UNCHANGED <<throttleVars, cacheVars, page, slot>>

\* The caller is awake and downloads the page, or fails to.
FetchAndExtract(w) ==
  /\ at[w] = "asleep"
  /\ slot[w] <= clock
  /\ at' = [at EXCEPT ![w] = "fetched"]
  /\ UNCHANGED <<throttleVars, cacheVars, page, slot>>

\* cache.put, of an article or of a failure; the call ends.
Remember(w) ==
  /\ at[w] = "fetched"
  /\ \E now \in Recent : Put(page[w], now)
  /\ at' = [at EXCEPT ![w] = "idle"]
  /\ page' = [page EXCEPT ![w] = NoPage]
  /\ slot' = [slot EXCEPT ![w] = 0]
  /\ UNCHANGED throttleVars

Init ==
  /\ ThrottleInit
  /\ cached = {}
  /\ storedAt = [p \in Pages |-> 0]
  /\ at = [w \in Workers |-> "idle"]
  /\ page = [w \in Workers |-> NoPage]
  /\ slot = [w \in Workers |-> 0]

ExtractArticle(w) ==
  \/ \E p \in Pages : Hit(w, p) \/ Miss(w, p)
  \/ WaitForTurn(w)
  \/ FetchAndExtract(w)
  \/ Remember(w)

Next ==
  \/ Advance /\ UNCHANGED <<cacheVars, workerVars>>
  \/ \E w \in Workers : ExtractArticle(w)

Spec == Init /\ [][Next]_vars

-----------------------------------------------------------------------------
(* Properties                                                                *)

\* makeRoom keeps the cache under its limit, whatever callers put at the same
\* time and whatever clock they come with.
CacheBounded == Cardinality(cached) <= MaxSize

\* No recent caller could find the entry of page p expired.
Fresh(p) == p \in cached /\ clock - storedAt[p] < Ttl

\* An article or a failure that is still fresh is forgotten only to make room,
\* when the cache is full, and the entries that stay were not stored before it.
ForgetsOldestOnly ==
  [][\A p \in cached \ cached' :
       Fresh(p) => /\ Cardinality(cached) >= MaxSize
                   /\ \A q \in cached \cap cached' : storedAt[p] <= storedAt[q]]_vars

\* The workers that wait for a slot of host h that has not come yet.
Waiting(h) == {w \in Workers : at[w] = "asleep" /\ HostOf[page[w]] = h /\ slot[w] > clock}

\* A burst of callers pushes a host's next slot away by one gap each and no
\* more: no slot is wasted, so that a worker waits at most as many gaps as
\* workers are before it, and one.
WaitBounded ==
  \A h \in tracked : nextFree[h] <= clock + Gap * (1 + Cardinality(Waiting(h)))

\* Two sleeping workers never wake for the same host at (nearly) the same slot.
SleepersSpaced ==
  \A v, w \in Workers :
    (v # w /\ at[v] = "asleep" /\ at[w] = "asleep" /\ HostOf[page[v]] = HostOf[page[w]])
      => \/ slot[v] + Gap <= slot[w] + MaxStale
         \/ slot[w] + Gap <= slot[v] + MaxStale
===============================================================================
