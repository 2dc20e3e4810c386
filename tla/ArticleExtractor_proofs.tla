------------------------ MODULE ArticleExtractor_proofs ------------------------
(***************************************************************************)
(* Proofs about HostThrottle and, on top of them, about ArticleExtractor,  *)
(* for all hosts, pages, workers, limits and times.                        *)
(***************************************************************************)
EXTENDS ArticleExtractor, FiniteSetTheorems, TLAPS

USE ThrottleAssumption

\* The slot a caller gets, and the time it came with.
LEMMA SlotFacts ==
  ASSUME ThrottleTypeOK, NEW h \in Hosts, NEW now \in Recent
  PROVE  /\ now \in 0..clock
         /\ now + MaxStale >= clock
         /\ SlotFor(h, now) \in Nat
         /\ SlotFor(h, now) >= now
         /\ h \in tracked => SlotFor(h, now) >= nextFree[h]
  BY DEF ThrottleTypeOK, Recent, SlotFor

LEMMA PrunedFacts ==
  ASSUME NEW h \in Hosts, NEW now \in Recent
  PROVE  Pruned(h, now) \subseteq {g \in tracked \ {h} : nextFree[g] <= now}
  BY DEF Pruned

LEMMA ThrottleStepKeepsTypes ==
  ASSUME ThrottleTypeOK, [ThrottleNext]_throttleVars
  PROVE  ThrottleTypeOK'
<1>1. CASE Advance
  BY <1>1 DEF Advance, ThrottleTypeOK
<1>2. ASSUME NEW h \in Hosts, NEW now \in Recent, Reserve(h, now)
      PROVE  ThrottleTypeOK'
  <2> DEFINE s == SlotFor(h, now)
             gone == Pruned(h, now)
  <2>1. s \in Nat /\ gone \subseteq tracked \ {h}
    BY SlotFacts, PrunedFacts
  <2>2. /\ tracked' = (tracked \ gone) \cup {h}
        /\ nextFree' = [g \in Hosts |-> IF g = h THEN s + Gap
                                        ELSE IF g \in gone THEN 0 ELSE nextFree[g]]
        /\ slots' = [slots EXCEPT ![h] = Append(@, s)]
        /\ clock' = clock
    BY <1>2 DEF Reserve
  <2> HIDE DEF s, gone
  <2>3. nextFree' \in [Hosts -> Nat]
    BY <2>1, <2>2 DEF ThrottleTypeOK
  <2>4. slots' \in [Hosts -> Seq(Nat)]
    BY <2>1, <2>2 DEF ThrottleTypeOK
  <2>5. tracked' \subseteq Hosts
    BY <2>2 DEF ThrottleTypeOK
  <2>6. \A g \in Hosts \ tracked' : nextFree'[g] = 0
    BY <2>1, <2>2 DEF ThrottleTypeOK
  <2> QED  BY <2>2, <2>3, <2>4, <2>5, <2>6 DEF ThrottleTypeOK
<1>3. CASE UNCHANGED throttleVars
  BY <1>3 DEF throttleVars, ThrottleTypeOK
<1> QED  BY <1>1, <1>2, <1>3 DEF ThrottleNext

\* The variables keep their types, and a host that is not tracked has no entry.
THEOREM ThrottleTypeCorrect == ThrottleSpec => []ThrottleTypeOK
<1>1. ThrottleInit => ThrottleTypeOK
  BY DEF ThrottleInit, ThrottleTypeOK
<1> QED  BY <1>1, ThrottleStepKeepsTypes, PTL DEF ThrottleSpec

-----------------------------------------------------------------------------

\* The step that matters: a slot that is covered lies a gap, less the staleness
\* of the caller's clock, before the slot booked now, and both are covered
\* afterwards.
LEMMA ReserveKeepsCovered ==
  ASSUME ThrottleTypeOK, NEW h \in Hosts, NEW now \in Recent, Reserve(h, now),
         NEW g \in Hosts, NEW a \in Nat, Covered(g, a)
  PROVE  /\ Covered(g, a)'
         /\ g = h => a + Gap <= SlotFor(h, now) + MaxStale
<1> DEFINE s == SlotFor(h, now)
           gone == Pruned(h, now)
<1>1. /\ now \in 0..clock
      /\ now + MaxStale >= clock
      /\ s \in Nat
      /\ s >= now
      /\ h \in tracked => s >= nextFree[h]
  BY SlotFacts
<1>2. gone \subseteq {x \in tracked \ {h} : nextFree[x] <= now}
  BY PrunedFacts
<1>3. /\ tracked' = (tracked \ gone) \cup {h}
      /\ nextFree' = [x \in Hosts |-> IF x = h THEN s + Gap
                                      ELSE IF x \in gone THEN 0 ELSE nextFree[x]]
      /\ clock' = clock
  BY DEF Reserve
<1> HIDE DEF s, gone
<1>4. clock \in Nat /\ nextFree[g] \in Nat /\ nextFree[h] \in Nat
  BY DEF ThrottleTypeOK
<1>5. CASE a + Gap <= clock
  BY <1>1, <1>3, <1>4, <1>5 DEF Covered, s
<1>6. CASE g \in tracked /\ a + Gap <= nextFree[g]
  <2>1. CASE g = h
    <3>1. h \in tracked' /\ nextFree'[h] = s + Gap
      BY <1>3
    <3>2. s >= nextFree[h]
      BY <1>1, <1>6, <2>1
    <3>3. a + Gap <= s
      BY <1>1, <1>4, <1>6, <2>1, <3>2
    <3> QED  BY <1>1, <2>1, <3>1, <3>3 DEF Covered, s
  <2>2. CASE g # h /\ g \in gone
    <3>1. nextFree[g] <= now
      BY <1>2, <2>2
    <3>2. a + Gap <= clock
      BY <1>1, <1>4, <1>6, <3>1
    <3> QED  BY <1>3, <2>2, <3>2 DEF Covered
  <2>3. CASE g # h /\ g \notin gone
    <3>1. g \in tracked' /\ nextFree'[g] = nextFree[g]
      BY <1>3, <1>6, <2>3
    <3> QED  BY <1>6, <2>3, <3>1 DEF Covered
  <2> QED  BY <2>1, <2>2, <2>3
<1> QED  BY <1>5, <1>6 DEF Covered

LEMMA AdvanceKeepsCovered ==
  ASSUME ThrottleTypeOK, Advance, NEW g \in Hosts, NEW a \in Nat, Covered(g, a)
  PROVE  Covered(g, a)'
  BY DEF Advance, Covered, ThrottleTypeOK

LEMMA ReserveKeepsInv ==
  ASSUME ThrottleTypeOK, ThrottleInv, NEW h \in Hosts, NEW now \in Recent, Reserve(h, now)
  PROVE  ThrottleInv'
<1> DEFINE s == SlotFor(h, now)
           Holds(g, a) == \/ g \in tracked' /\ a + Gap <= nextFree'[g]
                          \/ a + Gap <= clock'
<1>1. s \in Nat
  BY SlotFacts
<1>2. /\ slots' = [slots EXCEPT ![h] = Append(@, s)]
      /\ h \in tracked'
      /\ nextFree'[h] = s + Gap
  BY DEF Reserve
<1>3. slots \in [Hosts -> Seq(Nat)]
  BY DEF ThrottleTypeOK
<1>4. \A g \in Hosts : \A a \in Nat :
        Covered(g, a) => Holds(g, a) /\ (g = h => a + Gap <= s + MaxStale)
  BY ReserveKeepsCovered DEF Covered
<1>5. \A g \in Hosts : \A i \in 1..Len(slots[g]) :
        /\ slots[g][i] \in Nat
        /\ Holds(g, slots[g][i])
        /\ g = h => slots[g][i] + Gap <= s + MaxStale
  <2> HIDE DEF s, Holds
  <2> QED  BY <1>3, <1>4 DEF ThrottleInv
<1>6. Holds(h, s)
  BY <1>1, <1>2
<1> HIDE DEF s, Holds
<1>7. /\ Len(slots'[h]) = Len(slots[h]) + 1
      /\ \A i \in 1..Len(slots[h]) : slots'[h][i] = slots[h][i]
      /\ slots'[h][Len(slots[h]) + 1] = s
      /\ \A g \in Hosts \ {h} : slots'[g] = slots[g]
      /\ \A g \in Hosts : Len(slots[g]) \in Nat
  BY <1>1, <1>2, <1>3
<1>8. \A g \in Hosts : \A i \in 1..Len(slots'[g]) : Holds(g, slots'[g][i])
  <2> TAKE g \in Hosts
  <2> TAKE i \in 1..Len(slots'[g])
  <2>1. CASE g = h /\ i = Len(slots[h]) + 1
    BY <1>6, <1>7, <2>1
  <2>2. CASE g # h \/ i # Len(slots[h]) + 1
    <3>1. i \in 1..Len(slots[g]) /\ slots'[g][i] = slots[g][i]
      BY <1>7, <2>2
    <3> QED  BY <1>5, <3>1
  <2> QED  BY <2>1, <2>2
<1>9. SlotsSpaced'
  <2> SUFFICES ASSUME NEW g \in Hosts, NEW i \in 1..Len(slots'[g]),
                      NEW j \in 1..Len(slots'[g]), i < j
               PROVE  slots'[g][i] + Gap <= slots'[g][j] + MaxStale
    BY DEF SlotsSpaced
  <2>1. CASE g = h /\ j = Len(slots[h]) + 1
    <3>1. i \in 1..Len(slots[h])
      BY <1>7, <2>1
    <3> QED  BY <1>5, <1>7, <2>1, <3>1
  <2>2. CASE g = h /\ j # Len(slots[h]) + 1
    <3>1. i \in 1..Len(slots[h]) /\ j \in 1..Len(slots[h])
      BY <1>7, <2>2
    <3> QED  BY <1>7, <2>2, <3>1 DEF ThrottleInv, SlotsSpaced
  <2>3. CASE g # h
    BY <1>7, <2>3 DEF ThrottleInv, SlotsSpaced
  <2> QED  BY <2>1, <2>2, <2>3
<1> QED  BY <1>8, <1>9 DEF ThrottleInv, Covered, Holds

LEMMA AdvanceKeepsInv ==
  ASSUME ThrottleTypeOK, ThrottleInv, Advance
  PROVE  ThrottleInv'
<1>1. \A g \in Hosts : \A i \in 1..Len(slots[g]) : slots[g][i] \in Nat
  BY DEF ThrottleTypeOK
<1>2. clock \in Nat /\ clock' = clock + 1 /\ UNCHANGED <<tracked, nextFree, slots>>
  BY DEF Advance, ThrottleTypeOK
<1> QED  BY <1>1, <1>2 DEF ThrottleInv, SlotsSpaced, Covered

\* Slots are spaced and covered in every reachable state.
THEOREM ThrottleInvariant == ThrottleSpec => []ThrottleInv
<1>1. ThrottleInit => ThrottleInv
  BY DEF ThrottleInit, ThrottleInv, SlotsSpaced
<1>2. ThrottleTypeOK /\ ThrottleInv /\ [ThrottleNext]_throttleVars => ThrottleInv'
  <2> SUFFICES ASSUME ThrottleTypeOK, ThrottleInv, [ThrottleNext]_throttleVars
               PROVE  ThrottleInv'
    OBVIOUS
  <2>1. CASE Advance
    BY <2>1, AdvanceKeepsInv
  <2>2. ASSUME NEW h \in Hosts, NEW now \in Recent, Reserve(h, now)
        PROVE  ThrottleInv'
    BY <2>2, ReserveKeepsInv
  <2>3. CASE UNCHANGED throttleVars
    BY <2>3 DEF throttleVars, ThrottleInv, SlotsSpaced, Covered
  <2> QED  BY <2>1, <2>2, <2>3 DEF ThrottleNext
<1> QED  BY <1>1, <1>2, ThrottleTypeCorrect, PTL DEF ThrottleSpec

\* Two slots of one host are a gap apart, less the staleness of a clock, in the
\* order in which they were handed out.
THEOREM SlotsAreSpaced == ThrottleSpec => []SlotsSpaced
<1>1. ThrottleInv => SlotsSpaced
  BY DEF ThrottleInv
<1> QED  BY <1>1, ThrottleInvariant, PTL

-----------------------------------------------------------------------------

LEMMA TrackedStaysFinite ==
  ASSUME IsFiniteSet(tracked), [ThrottleNext]_throttleVars
  PROVE  IsFiniteSet(tracked)'
<1>1. CASE Advance
  BY <1>1 DEF Advance
<1>2. ASSUME NEW h \in Hosts, NEW now \in Recent, Reserve(h, now)
      PROVE  IsFiniteSet(tracked)'
  <2>1. tracked' = (tracked \ Pruned(h, now)) \cup {h}
    BY <1>2 DEF Reserve
  <2>2. IsFiniteSet(tracked \ Pruned(h, now))
    BY FS_Difference
  <2> QED  BY <2>1, <2>2, FS_AddElement
<1>3. CASE UNCHANGED throttleVars
  BY <1>3 DEF throttleVars
<1> QED  BY <1>1, <1>2, <1>3 DEF ThrottleNext

\* A step that puts one more host into the map than it may hold leaves there
\* only hosts whose slot has yet to come free.
LEMMA StepPastCap ==
  ASSUME ThrottleTypeOK, IsFiniteSet(tracked), [ThrottleNext]_throttleVars,
         NEW x \in tracked' \ tracked, Cardinality(tracked') > MaxHosts,
         NEW g \in tracked' \ {x}
  PROVE  nextFree'[g] + MaxStale > clock
<1>1. PICK h \in Hosts, now \in Recent : Reserve(h, now)
  BY DEF ThrottleNext, Advance, throttleVars
<1>2. /\ tracked' = (tracked \ Pruned(h, now)) \cup {h}
      /\ g \in Hosts /\ g \notin Pruned(h, now) /\ g # h => nextFree'[g] = nextFree[g]
  BY <1>1 DEF Reserve
<1>3. x = h /\ g \in tracked \ {h} /\ g \notin Pruned(h, now) /\ g \in Hosts
  BY <1>2 DEF ThrottleTypeOK
<1>4. Cardinality(tracked) >= MaxHosts
  <2> SUFFICES ASSUME Cardinality(tracked) < MaxHosts
               PROVE  FALSE
    BY FS_CardinalityType
  <2>1. tracked' = tracked \cup {h}
    BY <1>2 DEF Pruned
  <2>2. Cardinality(tracked') = Cardinality(tracked) + 1
    BY <1>3, <2>1, FS_AddElement
  <2> QED  BY <2>2, FS_CardinalityType
<1>5. Pruned(h, now) = {y \in tracked \ {h} : nextFree[y] <= now}
  BY <1>4, FS_CardinalityType DEF Pruned
<1>6. now \in Nat /\ now + MaxStale >= clock /\ clock \in Nat /\ nextFree[g] \in Nat
  BY <1>3 DEF Recent, ThrottleTypeOK
<1>7. nextFree[g] > now
  BY <1>3, <1>5, <1>6
<1> QED  BY <1>2, <1>3, <1>6, <1>7

\* The cap of the map is passed only while there is nothing safe to drop.
THEOREM PastCapOnlyWhileBusy == ThrottleSpec => PastCapOnlyWhenBusy
<1>1. ThrottleInit => IsFiniteSet(tracked)
  BY FS_EmptySet DEF ThrottleInit
<1>2. IsFiniteSet(tracked) /\ [ThrottleNext]_throttleVars => IsFiniteSet(tracked)'
  BY TrackedStaysFinite
<1>3. ThrottleTypeOK /\ IsFiniteSet(tracked) /\ [ThrottleNext]_throttleVars
        => [\A h \in tracked' \ tracked :
              Cardinality(tracked') > MaxHosts =>
                \A g \in tracked' \ {h} : nextFree'[g] + MaxStale > clock]_throttleVars
  BY StepPastCap
<1> QED  BY <1>1, <1>2, <1>3, ThrottleTypeCorrect, PTL DEF ThrottleSpec, PastCapOnlyWhenBusy

-----------------------------------------------------------------------------
(* The extractor *)

USE ExtractorAssumption

LEMMA RecentFacts ==
  ASSUME TypeOK, NEW now \in Recent
  PROVE  now \in 0..clock /\ now \in 0..MaxTime /\ clock \in 0..MaxTime
  BY DEF Recent, TypeOK, ThrottleTypeOK

\* What a worker does to the throttle: nothing, or one call of reserve.
LEMMA StepOfThrottle ==
  ASSUME TypeOK, [Next]_vars
  PROVE  [ThrottleNext]_throttleVars
<1>1. CASE Advance
  BY <1>1 DEF ThrottleNext
<1>2. ASSUME NEW w \in Workers, WaitForTurn(w)
      PROVE  ThrottleNext
  <2>1. page[w] \in Pages
    BY <1>2 DEF WaitForTurn, TypeOK
  <2>2. HostOf[page[w]] \in Hosts
    BY <2>1
  <2>3. PICK now \in Recent : Reserve(HostOf[page[w]], now)
    BY <1>2 DEF WaitForTurn
  <2> QED  BY <2>2, <2>3 DEF ThrottleNext
<1>3. ASSUME NEW w \in Workers,
             \/ \E p \in Pages : Hit(w, p) \/ Miss(w, p)
             \/ FetchAndExtract(w)
             \/ Remember(w)
      PROVE  UNCHANGED throttleVars
  BY <1>3 DEF Hit, Miss, FetchAndExtract, Remember, vars
<1>4. CASE UNCHANGED vars
  BY <1>4 DEF vars
<1> QED  BY <1>1, <1>2, <1>3, <1>4 DEF Next, ExtractArticle

LEMMA WaitForTurnFacts ==
  ASSUME TypeOK, NEW w \in Workers, WaitForTurn(w)
  PROVE  \E now \in Recent :
           /\ HostOf[page[w]] \in Hosts
           /\ Reserve(HostOf[page[w]], now)
           /\ SlotFor(HostOf[page[w]], now) \in Nat
           /\ slot' = [slot EXCEPT ![w] = SlotFor(HostOf[page[w]], now)]
           /\ at' = [at EXCEPT ![w] = "asleep"]
           /\ UNCHANGED <<cacheVars, page>>
<1>1. page[w] \in Pages
  BY DEF WaitForTurn, TypeOK
<1>2. HostOf[page[w]] \in Hosts
  BY <1>1
<1>3. PICK now \in Recent : /\ Reserve(HostOf[page[w]], now)
                            /\ slot' = [slot EXCEPT ![w] = SlotFor(HostOf[page[w]], now)]
  BY DEF WaitForTurn
<1>4. SlotFor(HostOf[page[w]], now) \in Nat
  BY <1>2, SlotFacts DEF TypeOK
<1> QED  BY <1>2, <1>3, <1>4 DEF WaitForTurn

\* What put does, as far as types go.
LEMMA PutTypes ==
  ASSUME TypeOK, NEW p \in Pages, NEW now \in Recent, Put(p, now)
  PROVE  cached' \subseteq Pages /\ storedAt' \in [Pages -> 0..MaxTime]
<1>1. PICK out \in Evicted(p, now) :
        /\ cached' = (cached \ out) \cup {p}
        /\ storedAt' = [q \in Pages |-> IF q = p THEN now
                                        ELSE IF q \in out THEN 0 ELSE storedAt[q]]
  BY DEF Put
<1>2. now \in 0..MaxTime /\ 0 \in 0..MaxTime
  BY RecentFacts
<1>3. storedAt \in [Pages -> 0..MaxTime] /\ cached \subseteq Pages
  BY DEF TypeOK
<1> QED  BY <1>1, <1>2, <1>3

LEMMA MissTypes ==
  ASSUME TypeOK, NEW w \in Workers, NEW p \in Pages, Miss(w, p)
  PROVE  TypeOK'
<1>1. ThrottleTypeOK'
  BY DEF Miss, throttleVars, TypeOK, ThrottleTypeOK
<1>2. cached' \subseteq Pages /\ storedAt' \in [Pages -> 0..MaxTime]
  <2>1. 0 \in 0..MaxTime
    OBVIOUS
  <2> QED  BY <2>1 DEF Miss, Drop, cacheVars, TypeOK
<1>3. /\ at' = [at EXCEPT ![w] = "turn"] /\ page' = [page EXCEPT ![w] = p]
      /\ slot' = slot /\ p # NoPage
  BY DEF Miss
<1>4. \A v \in Workers : at'[v] = "idle" <=> page'[v] = NoPage
  BY <1>3 DEF TypeOK
<1> QED  BY <1>1, <1>2, <1>3, <1>4 DEF TypeOK

LEMMA RememberTypes ==
  ASSUME TypeOK, NEW w \in Workers, Remember(w)
  PROVE  TypeOK'
<1>1. ThrottleTypeOK'
  BY DEF Remember, throttleVars, TypeOK, ThrottleTypeOK
<1>2. page[w] \in Pages
  BY DEF Remember, TypeOK
<1>3. cached' \subseteq Pages /\ storedAt' \in [Pages -> 0..MaxTime]
  BY <1>2, PutTypes DEF Remember
<1>4. /\ at' = [at EXCEPT ![w] = "idle"] /\ page' = [page EXCEPT ![w] = NoPage]
      /\ slot' = [slot EXCEPT ![w] = 0]
  BY DEF Remember
<1>5. \A v \in Workers : at'[v] = "idle" <=> page'[v] = NoPage
  BY <1>4 DEF TypeOK
<1> QED  BY <1>1, <1>3, <1>4, <1>5 DEF TypeOK

LEMMA StepKeepsTypes ==
  ASSUME TypeOK, [Next]_vars
  PROVE  TypeOK'
<1>1. ThrottleTypeOK'
  BY StepOfThrottle, ThrottleStepKeepsTypes DEF TypeOK
<1>2. CASE Advance /\ UNCHANGED <<cacheVars, workerVars>>
  BY <1>1, <1>2 DEF cacheVars, workerVars, TypeOK
<1>3. ASSUME NEW w \in Workers, NEW p \in Pages, Hit(w, p)
      PROVE  TypeOK'
  BY <1>1, <1>3 DEF Hit, vars, cacheVars, workerVars, TypeOK
<1>4. ASSUME NEW w \in Workers, WaitForTurn(w)
      PROVE  TypeOK'
  <2>1. PICK s \in Nat : slot' = [slot EXCEPT ![w] = s]
    BY <1>4, WaitForTurnFacts
  <2>2. at[w] = "turn" /\ at' = [at EXCEPT ![w] = "asleep"] /\ UNCHANGED <<cacheVars, page>>
    BY <1>4 DEF WaitForTurn
  <2> QED  BY <1>1, <2>1, <2>2 DEF cacheVars, TypeOK
<1>5. ASSUME NEW w \in Workers, FetchAndExtract(w)
      PROVE  TypeOK'
  BY <1>1, <1>5 DEF FetchAndExtract, cacheVars, TypeOK
<1>6. CASE UNCHANGED vars
  BY <1>1, <1>6 DEF vars, cacheVars, workerVars, TypeOK
<1> QED
  BY <1>2, <1>3, <1>4, <1>5, <1>6, MissTypes, RememberTypes DEF Next, ExtractArticle

\* Every variable of the extractor keeps its type.
THEOREM TypeCorrect == Spec => []TypeOK
<1>1. Init => TypeOK
  <2>1. 0 \in 0..MaxTime
    OBVIOUS
  <2> QED  BY <2>1 DEF Init, ThrottleInit, TypeOK, ThrottleTypeOK
<1>2. TypeOK /\ [Next]_vars => TypeOK'
  BY StepKeepsTypes
<1> QED  BY <1>1, <1>2, PTL DEF Spec

\* The extractor uses the throttle through reserve alone: what is proved of the
\* throttle with any callers holds of its callers here.
THEOREM ImplementsThrottle == Spec => ThrottleSpec
<1>1. Init => ThrottleInit
  BY DEF Init
<1>2. TypeOK /\ [Next]_vars => [ThrottleNext]_throttleVars
  BY StepOfThrottle
<1> QED  BY <1>1, <1>2, TypeCorrect, PTL DEF Spec, ThrottleSpec

-----------------------------------------------------------------------------
(* The cache *)

CacheInv == IsFiniteSet(cached) /\ CacheBounded

\* The three ways makeRoom goes: there is room or nothing to add, room is there
\* without the expired entries, or one of the live ones has to go.
LEMMA PutCases ==
  ASSUME NEW p \in Pages, NEW now \in Recent, Put(p, now)
  PROVE  \E live \in SUBSET cached :
           /\ \A q \in cached \ live : Expired(q, now)
           /\ \/ /\ p \in cached \/ Cardinality(cached) < MaxSize
                 /\ cached' = cached \cup {p}
              \/ /\ ~(p \in cached \/ Cardinality(cached) < MaxSize)
                 /\ Cardinality(live) < MaxSize
                 /\ cached' = live \cup {p}
              \/ /\ ~(p \in cached \/ Cardinality(cached) < MaxSize)
                 /\ \E q \in Oldest(live) : cached' = (live \ {q}) \cup {p}
<1> DEFINE live == {q \in cached : ~Expired(q, now)}
<1>1. PICK out \in Evicted(p, now) : cached' = (cached \ out) \cup {p}
  BY DEF Put
<1>2. live \in SUBSET cached /\ \A q \in cached \ live : Expired(q, now)
  OBVIOUS
<1>3. CASE p \in cached \/ Cardinality(cached) < MaxSize
  <2>1. out = {}
    BY <1>1, <1>3 DEF Evicted
  <2>2. cached' = cached \cup {p}
    BY <1>1, <2>1
  <2> QED  BY <1>2, <1>3, <2>2
<1>4. CASE ~(p \in cached \/ Cardinality(cached) < MaxSize) /\ Cardinality(live) < MaxSize
  <2>1. out = cached \ live
    BY <1>1, <1>4 DEF Evicted
  <2>2. cached' = live \cup {p}
    BY <1>1, <1>2, <2>1
  <2> HIDE DEF live
  <2> QED  BY <1>2, <1>4, <2>2
<1>5. CASE ~(p \in cached \/ Cardinality(cached) < MaxSize) /\ ~(Cardinality(live) < MaxSize)
  <2>1. PICK q \in Oldest(live) : out = (cached \ live) \cup {q}
    BY <1>1, <1>5 DEF Evicted
  <2> HIDE DEF live
  <2>2. cached' = (live \ {q}) \cup {p}
    BY <1>1, <1>2, <2>1
  <2> QED  BY <1>2, <1>5, <2>2
<1> QED  BY <1>3, <1>4, <1>5

LEMMA PutKeepsCacheInv ==
  ASSUME CacheInv, NEW p \in Pages, NEW now \in Recent, Put(p, now)
  PROVE  CacheInv'
<1>1. PICK live \in SUBSET cached :
        \/ /\ p \in cached \/ Cardinality(cached) < MaxSize
           /\ cached' = cached \cup {p}
        \/ /\ Cardinality(live) < MaxSize
           /\ cached' = live \cup {p}
        \/ \E q \in Oldest(live) : cached' = (live \ {q}) \cup {p}
  BY PutCases
<1>2. /\ IsFiniteSet(cached) /\ IsFiniteSet(live)
      /\ Cardinality(cached) \in Nat /\ Cardinality(live) \in Nat
      /\ Cardinality(live) <= Cardinality(cached)
      /\ Cardinality(cached) <= MaxSize
  BY FS_Subset, FS_CardinalityType DEF CacheInv, CacheBounded
<1>3. ASSUME NEW S, IsFiniteSet(S), Cardinality(S) < MaxSize
      PROVE  IsFiniteSet(S \cup {p}) /\ Cardinality(S \cup {p}) <= MaxSize
  <2>1. /\ IsFiniteSet(S \cup {p})
        /\ Cardinality(S \cup {p}) = Cardinality(S) \/ Cardinality(S \cup {p}) = Cardinality(S) + 1
    BY <1>3, FS_AddElement
  <2>2. Cardinality(S) \in Nat
    BY <1>3, FS_CardinalityType
  <2> QED  BY <1>3, <2>1, <2>2
<1>4. CASE p \in cached /\ cached' = cached \cup {p}
  <2>1. cached' = cached
    BY <1>4
  <2> QED  BY <2>1 DEF CacheInv, CacheBounded
<1>5. CASE Cardinality(cached) < MaxSize /\ cached' = cached \cup {p}
  BY <1>2, <1>3, <1>5 DEF CacheInv, CacheBounded
<1>6. CASE Cardinality(live) < MaxSize /\ cached' = live \cup {p}
  BY <1>2, <1>3, <1>6 DEF CacheInv, CacheBounded
<1>7. ASSUME NEW q \in Oldest(live), cached' = (live \ {q}) \cup {p}
      PROVE  CacheInv'
  <2>1. q \in live
    BY DEF Oldest
  <2>2. IsFiniteSet(live \ {q}) /\ Cardinality(live \ {q}) = Cardinality(live) - 1
    BY <1>2, <2>1, FS_RemoveElement
  <2>3. Cardinality(live \ {q}) < MaxSize
    BY <1>2, <2>2
  <2> QED  BY <1>3, <1>7, <2>2, <2>3 DEF CacheInv, CacheBounded
<1> QED  BY <1>1, <1>4, <1>5, <1>6, <1>7

LEMMA StepKeepsCacheInv ==
  ASSUME TypeOK, CacheInv, [Next]_vars
  PROVE  CacheInv'
<1>1. ASSUME NEW w \in Workers, NEW p \in Pages, Miss(w, p)
      PROVE  CacheInv'
  <2>1. CASE UNCHANGED cacheVars
    BY <2>1 DEF cacheVars, CacheInv, CacheBounded
  <2>2. CASE p \in cached /\ Drop(p)
    <3>1. IsFiniteSet(cached \ {p}) /\ Cardinality(cached \ {p}) = Cardinality(cached) - 1
      BY <2>2, FS_RemoveElement DEF CacheInv
    <3>2. Cardinality(cached) \in Nat /\ Cardinality(cached) <= MaxSize
      BY FS_CardinalityType DEF CacheInv, CacheBounded
    <3>3. cached' = cached \ {p}
      BY <2>2 DEF Drop
    <3>4. Cardinality(cached \ {p}) <= MaxSize
      BY <3>1, <3>2
    <3> QED  BY <3>1, <3>3, <3>4 DEF CacheInv, CacheBounded
  <2> QED  BY <1>1, <2>1, <2>2 DEF Miss
<1>2. ASSUME NEW w \in Workers, Remember(w)
      PROVE  CacheInv'
  <2>1. page[w] \in Pages
    BY <1>2 DEF Remember, TypeOK
  <2> QED  BY <1>2, <2>1, PutKeepsCacheInv DEF Remember
<1>3. ASSUME UNCHANGED cached
      PROVE  CacheInv'
  BY <1>3 DEF CacheInv, CacheBounded
<1>4. ASSUME NEW w \in Workers,
             (\E p \in Pages : Hit(w, p)) \/ WaitForTurn(w) \/ FetchAndExtract(w)
      PROVE  UNCHANGED cached
  BY <1>4 DEF Hit, WaitForTurn, FetchAndExtract, vars, cacheVars
<1>5. CASE UNCHANGED vars
  BY <1>3, <1>5 DEF vars, cacheVars
<1>6. CASE Advance /\ UNCHANGED <<cacheVars, workerVars>>
  BY <1>3, <1>6 DEF cacheVars
<1> QED  BY <1>1, <1>2, <1>3, <1>4, <1>5, <1>6 DEF Next, ExtractArticle

\* Whatever callers put, and with whatever clocks, the cache keeps its limit.
THEOREM CacheIsBounded == Spec => []CacheBounded
<1>1. Init => CacheInv
  BY FS_EmptySet DEF Init, CacheInv, CacheBounded
<1>2. TypeOK /\ CacheInv /\ [Next]_vars => CacheInv'
  BY StepKeepsCacheInv
<1>3. CacheInv => CacheBounded
  BY DEF CacheInv
<1> QED  BY <1>1, <1>2, <1>3, TypeCorrect, PTL DEF Spec

\* An entry that some recent caller finds expired is not fresh.
LEMMA ExpiredIsNotFresh ==
  ASSUME TypeOK, NEW now \in Recent, NEW x \in cached, Expired(x, now)
  PROVE  ~Fresh(x)
<1>1. now \in 0..clock /\ clock \in 0..MaxTime /\ storedAt[x] \in 0..MaxTime
  BY RecentFacts DEF TypeOK
<1> QED  BY <1>1 DEF Expired, Fresh

LEMMA PutForgetsOldest ==
  ASSUME TypeOK, CacheInv, NEW p \in Pages, NEW now \in Recent, Put(p, now),
         NEW x \in cached \ cached', Fresh(x)
  PROVE  /\ Cardinality(cached) >= MaxSize
         /\ \A q \in cached \cap cached' : storedAt[x] <= storedAt[q]
<1>1. PICK live \in SUBSET cached :
        /\ \A q \in cached \ live : Expired(q, now)
        /\ \/ cached' = cached \cup {p}
           \/ cached' = live \cup {p}
           \/ /\ p \notin cached /\ ~(Cardinality(cached) < MaxSize)
              /\ \E q \in Oldest(live) : cached' = (live \ {q}) \cup {p}
  BY PutCases
<1>2. x \in live
  BY <1>1, ExpiredIsNotFresh
<1>3. PICK old \in Oldest(live) : cached' = (live \ {old}) \cup {p}
  BY <1>1, <1>2
<1>4. x = old /\ p \notin cached /\ ~(Cardinality(cached) < MaxSize)
  BY <1>1, <1>2, <1>3
<1>5. \A q \in live : storedAt[x] <= storedAt[q]
  BY <1>3, <1>4 DEF Oldest
<1>6. \A q \in cached \cap cached' : storedAt[x] <= storedAt[q]
  BY <1>3, <1>4, <1>5
<1>7. Cardinality(cached) \in Nat
  BY FS_CardinalityType DEF CacheInv
<1> QED  BY <1>4, <1>6, <1>7

LEMMA StepForgetsOldest ==
  ASSUME TypeOK, CacheInv, [Next]_vars, NEW x \in cached \ cached', Fresh(x)
  PROVE  /\ Cardinality(cached) >= MaxSize
         /\ \A q \in cached \cap cached' : storedAt[x] <= storedAt[q]
<1>1. ASSUME NEW w \in Workers, NEW p \in Pages, Miss(w, p)
      PROVE  FALSE
  <2>1. cached' # cached
    OBVIOUS
  <2>2. PICK now \in Recent : Expired(p, now) /\ Drop(p)
    BY <1>1, <2>1 DEF Miss, cacheVars
  <2>3. x = p
    BY <2>2 DEF Drop
  <2> QED  BY <2>2, <2>3, ExpiredIsNotFresh
<1>2. ASSUME NEW w \in Workers, Remember(w)
      PROVE  /\ Cardinality(cached) >= MaxSize
             /\ \A q \in cached \cap cached' : storedAt[x] <= storedAt[q]
  <2>1. page[w] \in Pages
    BY <1>2 DEF Remember, TypeOK
  <2> QED  BY <1>2, <2>1, PutForgetsOldest DEF Remember
<1>3. ASSUME NEW w \in Workers,
             (\E p \in Pages : Hit(w, p)) \/ WaitForTurn(w) \/ FetchAndExtract(w)
      PROVE  UNCHANGED cached
  BY <1>3 DEF Hit, WaitForTurn, FetchAndExtract, vars, cacheVars
<1>4. CASE UNCHANGED cached
  BY <1>4
<1> QED
  BY <1>1, <1>2, <1>3, <1>4 DEF Next, ExtractArticle, vars, cacheVars

\* For any number of callers, an entry that is fresh goes only from a full cache,
\* and never before an older one.
THEOREM OldestGoesFirst == Spec => ForgetsOldestOnly
<1>1. Init => CacheInv
  BY FS_EmptySet DEF Init, CacheInv, CacheBounded
<1>2. TypeOK /\ CacheInv /\ [Next]_vars => CacheInv'
  BY StepKeepsCacheInv
<1>3. TypeOK /\ CacheInv /\ [Next]_vars
        => [\A p \in cached \ cached' :
              Fresh(p) => /\ Cardinality(cached) >= MaxSize
                          /\ \A q \in cached \cap cached' : storedAt[p] <= storedAt[q]]_vars
  BY StepForgetsOldest
<1> QED  BY <1>1, <1>2, <1>3, TypeCorrect, PTL DEF Spec, ForgetsOldestOnly

-----------------------------------------------------------------------------
(* Workers asleep *)

\* The slot of a sleeping worker is covered by its host's entry, or its gap has
\* passed, so that whoever comes next is given a slot a gap later.
SleepInv ==
  /\ SleepersSpaced
  /\ \A w \in Workers : at[w] = "asleep" => Covered(HostOf[page[w]], slot[w])

LEMMA SleeperFacts ==
  ASSUME TypeOK, NEW w \in Workers, at[w] = "asleep"
  PROVE  page[w] \in Pages /\ HostOf[page[w]] \in Hosts /\ slot[w] \in Nat
<1>1. page[w] \in Pages /\ slot[w] \in Nat
  BY DEF TypeOK
<1> QED  BY <1>1

\* A step that puts nobody to sleep and moves no slot.
LEMMA NoNewSleeper ==
  ASSUME SleepInv,
         \A v \in Workers : at'[v] = "asleep" =>
           at[v] = "asleep" /\ page'[v] = page[v] /\ slot'[v] = slot[v],
         \A v \in Workers : at[v] = "asleep" /\ Covered(HostOf[page[v]], slot[v])
           => \/ HostOf[page[v]] \in tracked' /\ slot[v] + Gap <= nextFree'[HostOf[page[v]]]
              \/ slot[v] + Gap <= clock'
  PROVE  SleepInv'
<1>1. SleepersSpaced'
  BY DEF SleepInv, SleepersSpaced
<1>2. \A w \in Workers : at'[w] = "asleep" =>
        \/ HostOf[page'[w]] \in tracked' /\ slot'[w] + Gap <= nextFree'[HostOf[page'[w]]]
        \/ slot'[w] + Gap <= clock'
  BY DEF SleepInv
<1> QED  BY <1>1, <1>2 DEF SleepInv, Covered

LEMMA WaitForTurnKeepsSleepInv ==
  ASSUME TypeOK, SleepInv, NEW w \in Workers, WaitForTurn(w)
  PROVE  SleepInv'
<1> DEFINE h == HostOf[page[w]]
<1>1. PICK now \in Recent :
        /\ h \in Hosts
        /\ Reserve(h, now)
        /\ SlotFor(h, now) \in Nat
        /\ slot' = [slot EXCEPT ![w] = SlotFor(h, now)]
        /\ at' = [at EXCEPT ![w] = "asleep"]
        /\ UNCHANGED <<cacheVars, page>>
  BY WaitForTurnFacts
<1> DEFINE s == SlotFor(h, now)
           Holds(g, a) == \/ g \in tracked' /\ a + Gap <= nextFree'[g]
                          \/ a + Gap <= clock'
<1>2. ThrottleTypeOK /\ at[w] = "turn" /\ page' = page
  BY <1>1 DEF WaitForTurn, TypeOK
<1>3. ASSUME NEW v \in Workers, at[v] = "asleep"
      PROVE  /\ Holds(HostOf[page[v]], slot[v])
             /\ HostOf[page[v]] = h => slot[v] + Gap <= s + MaxStale
  <2>1. HostOf[page[v]] \in Hosts /\ slot[v] \in Nat /\ Covered(HostOf[page[v]], slot[v])
    BY <1>3, SleeperFacts DEF SleepInv
  <2> HIDE DEF h
  <2> QED  BY <1>1, <1>2, <2>1, ReserveKeepsCovered DEF Covered
<1>4. Holds(h, s)
  <2>1. h \in tracked' /\ nextFree'[h] = s + Gap
    BY <1>1 DEF Reserve
  <2> QED  BY <1>1, <2>1
<1>5. /\ slot'[w] = s
      /\ \A v \in Workers \ {w} : at'[v] = at[v] /\ slot'[v] = slot[v]
      /\ \A v \in Workers : HostOf[page'[v]] = HostOf[page[v]]
  BY <1>1, <1>2 DEF TypeOK
<1> HIDE DEF h, s, Holds
<1>6. \A v \in Workers : at'[v] = "asleep" => Holds(HostOf[page'[v]], slot'[v])
  BY <1>3, <1>4, <1>5 DEF h
<1>7. \A v \in Workers \ {w} :
        at'[v] = "asleep" /\ HostOf[page'[v]] = h => slot'[v] + Gap <= slot'[w] + MaxStale
  BY <1>3, <1>5
<1>8. SleepersSpaced'
  <2> SUFFICES ASSUME NEW u \in Workers, NEW v \in Workers, u # v,
                      at'[u] = "asleep", at'[v] = "asleep", HostOf[page'[u]] = HostOf[page'[v]]
               PROVE  \/ slot'[u] + Gap <= slot'[v] + MaxStale
                      \/ slot'[v] + Gap <= slot'[u] + MaxStale
    BY DEF SleepersSpaced
  <2>1. CASE u = w
    BY <1>5, <1>7, <2>1 DEF h
  <2>2. CASE v = w
    BY <1>5, <1>7, <2>2 DEF h
  <2>3. CASE u # w /\ v # w
    BY <1>5, <2>3 DEF SleepInv, SleepersSpaced
  <2> QED  BY <2>1, <2>2, <2>3
<1> QED  BY <1>6, <1>8 DEF SleepInv, Covered, Holds

LEMMA StepKeepsSleepInv ==
  ASSUME TypeOK, SleepInv, [Next]_vars
  PROVE  SleepInv'
<1>1. CASE Advance /\ UNCHANGED <<cacheVars, workerVars>>
  <2>1. ThrottleTypeOK
    BY DEF TypeOK
  <2>2. ASSUME NEW v \in Workers, at[v] = "asleep", Covered(HostOf[page[v]], slot[v])
        PROVE  \/ HostOf[page[v]] \in tracked' /\ slot[v] + Gap <= nextFree'[HostOf[page[v]]]
               \/ slot[v] + Gap <= clock'
    <3>1. HostOf[page[v]] \in Hosts /\ slot[v] \in Nat
      BY <2>2, SleeperFacts
    <3> QED  BY <1>1, <2>1, <2>2, <3>1 DEF Advance, Covered, ThrottleTypeOK
  <2>3. UNCHANGED <<at, page, slot>>
    BY <1>1 DEF workerVars
  <2> QED  BY <2>2, <2>3, NoNewSleeper
<1>2. ASSUME UNCHANGED throttleVars,
             \A v \in Workers : at'[v] = "asleep" =>
               at[v] = "asleep" /\ page'[v] = page[v] /\ slot'[v] = slot[v]
      PROVE  SleepInv'
  <2>1. tracked' = tracked /\ nextFree' = nextFree /\ clock' = clock
    BY <1>2 DEF throttleVars
  <2> QED  BY <1>2, <2>1, NoNewSleeper DEF Covered
<1>3. ASSUME NEW w \in Workers, NEW p \in Pages, Hit(w, p)
      PROVE  SleepInv'
  BY <1>2, <1>3 DEF Hit, vars, workerVars
<1>4. ASSUME NEW w \in Workers, NEW p \in Pages, Miss(w, p)
      PROVE  SleepInv'
  BY <1>2, <1>4 DEF Miss, TypeOK
<1>5. ASSUME NEW w \in Workers, FetchAndExtract(w)
      PROVE  SleepInv'
  BY <1>2, <1>5 DEF FetchAndExtract, TypeOK
<1>6. ASSUME NEW w \in Workers, Remember(w)
      PROVE  SleepInv'
  BY <1>2, <1>6 DEF Remember, TypeOK
<1>7. CASE UNCHANGED vars
  BY <1>2, <1>7 DEF vars, workerVars
<1> QED
  BY <1>1, <1>3, <1>4, <1>5, <1>6, <1>7, WaitForTurnKeepsSleepInv DEF Next, ExtractArticle

\* No two callers that sleep for the same host wake at nearly the same time.
THEOREM SleepersAreSpaced == Spec => []SleepersSpaced
<1>1. Init => SleepInv
  BY DEF Init, SleepInv, SleepersSpaced
<1>2. TypeOK /\ SleepInv /\ [Next]_vars => SleepInv'
  BY StepKeepsSleepInv
<1>3. SleepInv => SleepersSpaced
  BY DEF SleepInv
<1> QED  BY <1>1, <1>2, <1>3, TypeCorrect, PTL DEF Spec

-----------------------------------------------------------------------------
(* How far away the next slot of a host may be *)

Sleepers == {w \in Workers : at[w] = "asleep"}
SleepersAfter(h, t) == {w \in Sleepers : HostOf[page[w]] = h /\ slot[w] > t}

\* WaitBounded for every time that is not past, not for the present alone: as
\* time goes on, those whose slot has come no longer count.
WaitInv ==
  /\ IsFiniteSet(Sleepers)
  /\ \A h \in tracked : \A t \in Nat :
       t >= clock => nextFree[h] <= t + Gap * (1 + Cardinality(SleepersAfter(h, t)))

LEMMA Gaps ==
  ASSUME NEW n \in Nat
  PROVE  /\ Gap * (1 + n) \in Nat
         /\ Gap * (1 + n) >= Gap
         /\ Gap * (1 + (n + 1)) = Gap * (1 + n) + Gap
<1>1. Gap \in Nat /\ Gap * n \in Nat
  OBVIOUS
<1>2. Gap * (1 + n) = Gap + Gap * n /\ Gap * (1 + (n + 1)) = Gap + Gap + Gap * n
  OBVIOUS
<1> QED  BY <1>1, <1>2

LEMMA WaitForTurnKeepsWaitInv ==
  ASSUME TypeOK, WaitInv, NEW w \in Workers, WaitForTurn(w)
  PROVE  WaitInv'
<1> DEFINE h == HostOf[page[w]]
<1>1. PICK now \in Recent :
        /\ h \in Hosts
        /\ Reserve(h, now)
        /\ SlotFor(h, now) \in Nat
        /\ slot' = [slot EXCEPT ![w] = SlotFor(h, now)]
        /\ at' = [at EXCEPT ![w] = "asleep"]
        /\ UNCHANGED <<cacheVars, page>>
  BY WaitForTurnFacts
<1> DEFINE s == SlotFor(h, now)
<1>2. at[w] = "turn" /\ page' = page
  BY <1>1 DEF WaitForTurn
<1>3. /\ s = now \/ (h \in tracked /\ s = nextFree[h])
      /\ s \in Nat /\ now \in 0..clock /\ clock \in Nat
  BY <1>1, RecentFacts DEF SlotFor
<1>4. /\ \A g \in tracked' : g = h \/ (g \in tracked /\ nextFree'[g] = nextFree[g])
      /\ nextFree'[h] = s + Gap
      /\ clock' = clock
  <2>1. tracked \subseteq Hosts
    BY DEF TypeOK, ThrottleTypeOK
  <2> HIDE DEF h
  <2> QED  BY <1>1, <2>1 DEF Reserve
<1>5. /\ Sleepers' = Sleepers \cup {w}
      /\ w \notin Sleepers
  BY <1>1, <1>2 DEF TypeOK, Sleepers
<1>6. IsFiniteSet(Sleepers')
  BY <1>5, FS_AddElement DEF WaitInv
<1>7. /\ \A v \in Sleepers : slot'[v] = slot[v] /\ HostOf[page'[v]] = HostOf[page[v]]
      /\ slot'[w] = s /\ HostOf[page'[w]] = h
  BY <1>1, <1>2, <1>5 DEF TypeOK, Sleepers
<1> HIDE DEF s, h
<1>8. ASSUME NEW g \in tracked', NEW t \in Nat, t >= clock'
      PROVE  nextFree'[g] <= t + Gap * (1 + Cardinality(SleepersAfter(g, t)'))
  <2> DEFINE n == Cardinality(SleepersAfter(g, t))
             m == Cardinality(SleepersAfter(g, t)')
  <2>1. /\ IsFiniteSet(SleepersAfter(g, t)) /\ IsFiniteSet(SleepersAfter(g, t)')
        /\ n \in Nat /\ m \in Nat
    <3>1. SleepersAfter(g, t) \subseteq Sleepers /\ SleepersAfter(g, t)' \subseteq Sleepers'
      BY DEF SleepersAfter
    <3> QED  BY <1>6, <3>1, FS_Subset, FS_CardinalityType DEF WaitInv
  <2>2. CASE g # h
    <3>1. SleepersAfter(g, t)' = SleepersAfter(g, t)
      BY <1>5, <1>7, <2>2 DEF SleepersAfter
    <3>2. g \in tracked /\ nextFree'[g] = nextFree[g] /\ t >= clock
      BY <1>4, <1>8, <2>2
    <3> QED  BY <3>1, <3>2 DEF WaitInv
  <2>3. CASE g = h /\ s <= t
    <3>1. nextFree'[g] <= t + Gap
      BY <1>3, <1>4, <2>3
    <3>2. Gap * (1 + m) \in Nat /\ Gap * (1 + m) >= Gap
      BY <2>1, Gaps
    <3>3. nextFree'[g] \in Nat
      BY <1>3, <1>4, <2>3
    <3> QED  BY <3>1, <3>2, <3>3
  <2>4. CASE g = h /\ ~(s <= t)
    <3>1. g \in tracked /\ s = nextFree[g] /\ t >= clock
      BY <1>3, <1>4, <1>8, <2>4
    <3>2. SleepersAfter(g, t)' = SleepersAfter(g, t) \cup {w} /\ w \notin SleepersAfter(g, t)
      <4>1. s > t
        BY <1>3, <2>4
      <4> QED  BY <1>5, <1>7, <2>4, <4>1 DEF SleepersAfter
    <3>3. m = n + 1
      BY <2>1, <3>2, FS_AddElement
    <3>4. s <= t + Gap * (1 + n)
      BY <3>1 DEF WaitInv
    <3>5. Gap * (1 + n) \in Nat /\ Gap * (1 + m) = Gap * (1 + n) + Gap
      BY <2>1, <3>3, Gaps
    <3>6. nextFree'[g] = s + Gap
      BY <1>4, <2>4
    <3> HIDE DEF n, m
    <3>7. s + Gap <= t + Gap * (1 + m)
      BY <1>3, <3>4, <3>5
    <3> QED  BY <3>6, <3>7 DEF m
  <2> QED  BY <2>2, <2>3, <2>4
<1> QED  BY <1>6, <1>8 DEF WaitInv

\* A step that moves no slot, and wakes only workers whose slot has come.
LEMMA NoNewWaiter ==
  ASSUME WaitInv, clock \in Nat, clock' \in Nat, clock' >= clock,
         UNCHANGED <<tracked, nextFree>>,
         \A v \in Workers : at'[v] = "asleep" =>
           at[v] = "asleep" /\ page'[v] = page[v] /\ slot'[v] = slot[v],
         \A v \in Workers : at[v] = "asleep" /\ at'[v] # "asleep" => ~(slot[v] > clock),
         slot \in [Workers -> Nat]
  PROVE  WaitInv'
<1>1. Sleepers' \subseteq Sleepers
  BY DEF Sleepers
<1>2. IsFiniteSet(Sleepers')
  BY <1>1, FS_Subset DEF WaitInv
<1>3. ASSUME NEW h \in tracked, NEW t \in Nat, t >= clock'
      PROVE  SleepersAfter(h, t)' = SleepersAfter(h, t)
  <2>1. \A v \in Sleepers : slot[v] > t => v \in Sleepers'
    BY <1>3 DEF Sleepers
  <2> QED  BY <1>1, <2>1 DEF SleepersAfter, Sleepers
<1>4. ASSUME NEW h \in tracked', NEW t \in Nat, t >= clock'
      PROVE  nextFree'[h] <= t + Gap * (1 + Cardinality(SleepersAfter(h, t)'))
  <2>1. t >= clock /\ h \in tracked /\ nextFree' = nextFree
    BY <1>4
  <2> QED  BY <1>3, <1>4, <2>1 DEF WaitInv
<1> QED  BY <1>2, <1>4 DEF WaitInv

LEMMA StepKeepsWaitInv ==
  ASSUME TypeOK, WaitInv, [Next]_vars
  PROVE  WaitInv'
<1>1. clock \in Nat /\ slot \in [Workers -> Nat]
  BY DEF TypeOK, ThrottleTypeOK
<1>2. CASE Advance /\ UNCHANGED <<cacheVars, workerVars>>
  BY <1>1, <1>2, NoNewWaiter DEF Advance, workerVars
<1>3. ASSUME UNCHANGED throttleVars,
             \A v \in Workers : at'[v] = "asleep" =>
               at[v] = "asleep" /\ page'[v] = page[v] /\ slot'[v] = slot[v],
             \A v \in Workers : at[v] = "asleep" /\ at'[v] # "asleep" => ~(slot[v] > clock)
      PROVE  WaitInv'
  BY <1>1, <1>3, NoNewWaiter DEF throttleVars
<1>4. ASSUME NEW w \in Workers, NEW p \in Pages, Hit(w, p)
      PROVE  WaitInv'
  BY <1>3, <1>4 DEF Hit, vars, workerVars
<1>5. ASSUME NEW w \in Workers, NEW p \in Pages, Miss(w, p)
      PROVE  WaitInv'
  BY <1>3, <1>5 DEF Miss, TypeOK
<1>6. ASSUME NEW w \in Workers, FetchAndExtract(w)
      PROVE  WaitInv'
  BY <1>1, <1>3, <1>6 DEF FetchAndExtract, TypeOK
<1>7. ASSUME NEW w \in Workers, Remember(w)
      PROVE  WaitInv'
  BY <1>3, <1>7 DEF Remember, TypeOK
<1>8. CASE UNCHANGED vars
  BY <1>3, <1>8 DEF vars, workerVars
<1> QED
  BY <1>2, <1>4, <1>5, <1>6, <1>7, <1>8, WaitForTurnKeepsWaitInv DEF Next, ExtractArticle

\* The next slot of a host is never further away than one gap for each caller that
\* waits for that host, and one.
THEOREM WaitIsBounded == Spec => []WaitBounded
<1>1. Init => WaitInv
  <2> SUFFICES ASSUME Init PROVE WaitInv
    OBVIOUS
  <2>1. Sleepers = {} /\ tracked = {}
    BY DEF Init, ThrottleInit, Sleepers
  <2> QED  BY <2>1, FS_EmptySet DEF WaitInv
<1>2. TypeOK /\ WaitInv /\ [Next]_vars => WaitInv'
  BY StepKeepsWaitInv
<1>3. TypeOK /\ WaitInv => WaitBounded
  <2> SUFFICES ASSUME TypeOK, WaitInv, NEW h \in tracked
               PROVE  nextFree[h] <= clock + Gap * (1 + Cardinality(Waiting(h)))
    BY DEF WaitBounded
  <2>1. Waiting(h) = SleepersAfter(h, clock)
    BY DEF Waiting, SleepersAfter, Sleepers
  <2>2. clock \in Nat /\ clock >= clock
    BY DEF TypeOK, ThrottleTypeOK
  <2> QED  BY <2>1, <2>2 DEF WaitInv
<1> QED  BY <1>1, <1>2, <1>3, TypeCorrect, PTL DEF Spec
================================================================================
