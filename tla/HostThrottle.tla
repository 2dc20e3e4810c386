----------------------------- MODULE HostThrottle -----------------------------
(***************************************************************************)
(* Slots for page downloads, one per host and gap                          *)
(* (server/logic/host_throttle.go).                                        *)
(*                                                                         *)
(* A caller reads the clock, then calls reserve, which takes the mutex:    *)
(* the time it passes may be stale, by MaxStale at most.                   *)
(***************************************************************************)
EXTENDS Integers, Sequences, FiniteSets

CONSTANTS
  Hosts,        \* the hosts pages are downloaded from
  Gap,          \* articleHostGap
  MaxHosts,     \* throttleMaxHosts
  MaxStale,     \* bound: how late a caller may get the mutex
  MaxTime,      \* bound: the clock stops here
  MaxSlots      \* bound: slots handed out per host

ASSUME ThrottleAssumption ==
  /\ Gap \in Nat \ {0}
  /\ MaxHosts \in Nat
  /\ MaxStale \in Nat
  /\ MaxTime \in Nat
  /\ MaxSlots \in Nat

VARIABLES
  clock,     \* the time
  tracked,   \* the keys of the map nextFree
  nextFree,  \* its values, 0 for a host that is not tracked
  slots      \* history: the slots handed out, in order, per host

throttleVars == <<clock, tracked, nextFree, slots>>

ThrottleTypeOK ==
  /\ clock \in 0..MaxTime
  /\ tracked \subseteq Hosts
  /\ nextFree \in [Hosts -> Nat]
  /\ \A h \in Hosts \ tracked : nextFree[h] = 0
  /\ slots \in [Hosts -> Seq(Nat)]

\* What time.Now() may have returned to a call that has the mutex now.
Recent == {t \in 0..clock : t + MaxStale >= clock}

ThrottleInit ==
  /\ clock = 0
  /\ tracked = {}
  /\ nextFree = [h \in Hosts |-> 0]
  /\ slots = [h \in Hosts |-> <<>>]

-----------------------------------------------------------------------------

Advance ==
  /\ clock < MaxTime
  /\ clock' = clock + 1
  /\ UNCHANGED <<tracked, nextFree, slots>>

\* Mutant of Pruned: hosts that still wait for their slot are dropped, too.
PrunedBusy(h, now) ==
  IF Cardinality(tracked) < MaxHosts THEN {} ELSE tracked \ {h}

\* Mutant of Pruned: nothing is ever dropped.
PrunedNever(h, now) == {}

\* The hosts prune drops for a caller that asks for host h.
Pruned(h, now) ==
  IF Cardinality(tracked) < MaxHosts
  THEN {}
  ELSE {g \in tracked \ {h} : nextFree[g] <= now}

\* Mutant of SlotFor: a caller never waits for the callers before it.
SlotForNow(h, now) == now

\* The slot reserve books for host h.
SlotFor(h, now) ==
  IF h \in tracked /\ nextFree[h] > now THEN nextFree[h] ELSE now

\* Mutant of Reserve: the host's entry is pruned with the others.
ReserveForgotten(h, now) ==
  /\ Len(slots[h]) < MaxSlots
  /\ tracked' = tracked \ Pruned(h, now)
  /\ nextFree' = [nextFree EXCEPT ![h] = SlotFor(h, now) + Gap]
  /\ slots' = [slots EXCEPT ![h] = Append(@, SlotFor(h, now))]
  /\ UNCHANGED clock

Reserve(h, now) ==
  /\ Len(slots[h]) < MaxSlots
  /\ tracked' = (tracked \ Pruned(h, now)) \cup {h}
  /\ nextFree' = [g \in Hosts |-> IF g = h THEN SlotFor(h, now) + Gap
                                  ELSE IF g \in Pruned(h, now) THEN 0 ELSE nextFree[g]]
  /\ slots' = [slots EXCEPT ![h] = Append(@, SlotFor(h, now))]
  /\ UNCHANGED clock

ThrottleNext == Advance \/ \E h \in Hosts : \E now \in Recent : Reserve(h, now)

ThrottleSpec == ThrottleInit /\ [][ThrottleNext]_throttleVars

-----------------------------------------------------------------------------
(* Properties                                                                *)

\* Two slots of one host are a whole gap apart, less what a caller's clock can
\* be stale: although prune forgets hosts and callers come with old times, no
\* two callers are handed (nearly) the same slot.
SlotsSpaced ==
  \A h \in Hosts : \A i, j \in 1..Len(slots[h]) :
    i < j => slots[h][i] + Gap <= slots[h][j] + MaxStale

\* What keeps it so: a slot that was handed out is covered by its host's entry,
\* or its gap has passed.
Covered(h, at) ==
  \/ h \in tracked /\ at + Gap <= nextFree[h]
  \/ at + Gap <= clock

ThrottleInv ==
  /\ SlotsSpaced
  /\ \A h \in Hosts : \A i \in 1..Len(slots[h]) : Covered(h, slots[h][i])

\* The map outgrows its cap only while all other hosts wait for their slot
\* ("if every tracked host is still waiting its turn there is nothing safe to
\* drop"): an idle host is not kept when a new one is put into a full map.
PastCapOnlyWhenBusy ==
  [][\A h \in tracked' \ tracked :
       Cardinality(tracked') > MaxHosts =>
         \A g \in tracked' \ {h} : nextFree'[g] + MaxStale > clock]_throttleVars
===============================================================================
