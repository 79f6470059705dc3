-------------------------- MODULE SharedStateProof --------------------------
(***************************************************************************)
(* What the daemon's requests share: the pin registry, for every number of *)
(* sessions and blocks, every cap and every threshold, and the runtime     *)
(* settings, for every set of admin clients and every choice of gates.     *)
(* The two modules have no variable in common; the second part begins at   *)
(* `Runtime settings'.                                                     *)
(***************************************************************************)
EXTENDS PinRegistry, ProxySettings, FiniteSetTheorems, TLAPS

(***************************************************************************)
(* What one retrieve does to a registry                                    *)
(***************************************************************************)

Registry == [Pairs -> 0 .. MaxCount]

\* A counter stays a u32, never decreases and is never 0 after a retrieve.
LEMMA IncrementRange ==
    ASSUME NEW n \in 0 .. MaxCount
    PROVE  /\ Increment(n) \in 0 .. MaxCount
           /\ Increment(n) >= n
           /\ Increment(n) > 0
  BY PinAssumption DEF Increment

\* Noting a retrieve yields a registry in which no tally is lower.
LEMMA NotedRegistry ==
    ASSUME NEW p \in Registry, NEW s \in Sessions, NEW i \in Ids
    PROVE  /\ Noted(p, s, i) \in Registry
           /\ \A q \in Pairs : Noted(p, s, i)[q] >= p[q]
           /\ \A q \in Pairs : q # <<s, i>> => Noted(p, s, i)[q] = p[q]
  <1>1. <<s, i>> \in Pairs
    BY DEF Pairs
  <1>2. \A q \in Pairs : p[q] \in 0 .. MaxCount /\ p[q] >= p[q]
    BY PinAssumption DEF Registry
  <1>3. CASE Threshold > 0 /\ HasRoom(p, s, i)
    <2>1. Noted(p, s, i) = [p EXCEPT ![<<s, i>>] = Increment(p[<<s, i>>])]
      BY <1>3 DEF Noted
    <2>2. /\ Increment(p[<<s, i>>]) \in 0 .. MaxCount
          /\ Increment(p[<<s, i>>]) >= p[<<s, i>>]
      BY <1>1, <1>2, IncrementRange
    <2> QED
      BY <1>1, <1>2, <2>1, <2>2 DEF Registry
  <1>4. CASE ~(Threshold > 0 /\ HasRoom(p, s, i))
    BY <1>2, <1>4 DEF Noted
  <1> QED
    BY <1>3, <1>4

\* The registry is within its caps.
Capped(p) ==
    /\ IsFiniteSet(TrackedSessions(p))
    /\ Cardinality(TrackedSessions(p)) <= MaxSessions
    /\ \A s \in Sessions :
          /\ IsFiniteSet(TrackedIds(p, s))
          /\ Cardinality(TrackedIds(p, s)) <= MaxIds

\* Noting a retrieve respects both caps.
LEMMA NotedCapped ==
    ASSUME NEW p \in Registry, NEW s \in Sessions, NEW i \in Ids, Capped(p)
    PROVE  Capped(Noted(p, s, i))
  <1>1. CASE ~(Threshold > 0 /\ HasRoom(p, s, i))
    BY <1>1 DEF Noted
  <1>2. CASE Threshold > 0 /\ HasRoom(p, s, i)
    <2> DEFINE n == Noted(p, s, i)
    <2>1. n = [p EXCEPT ![<<s, i>>] = Increment(p[<<s, i>>])]
      BY <1>2 DEF Noted
    <2>2. <<s, i>> \in Pairs /\ p[<<s, i>>] \in 0 .. MaxCount
      BY DEF Pairs, Registry
    <2>3. n[<<s, i>>] > 0
      BY <2>1, <2>2, IncrementRange DEF Registry
    <2>4. \A t \in Sessions, j \in Ids : <<t, j>> # <<s, i>> => n[<<t, j>>] = p[<<t, j>>]
      BY NotedRegistry DEF Pairs
    <2> HIDE DEF n
    <2>5. TrackedIds(n, s) = TrackedIds(p, s) \cup {i}
      BY <2>3, <2>4 DEF TrackedIds
    <2>6. \A t \in Sessions : t # s => TrackedIds(n, t) = TrackedIds(p, t)
      BY <2>4 DEF TrackedIds
    <2>7. TrackedSessions(n) = TrackedSessions(p) \cup {s}
      <3>1. s \in TrackedSessions(n)
        BY <2>3 DEF TrackedSessions
      <3>2. \A t \in Sessions : t # s => (t \in TrackedSessions(n) <=> t \in TrackedSessions(p))
        BY <2>4 DEF TrackedSessions
      <3> QED
        BY <3>1, <3>2 DEF TrackedSessions
    <2>8. /\ IsFiniteSet(TrackedSessions(n))
          /\ Cardinality(TrackedSessions(n)) <= MaxSessions
      <3>1. /\ IsFiniteSet(TrackedSessions(p))
            /\ Cardinality(TrackedSessions(p)) <= MaxSessions
            /\ Cardinality(TrackedSessions(p)) \in Nat
        BY FS_CardinalityType DEF Capped
      <3>2. s \in TrackedSessions(p) \/ Cardinality(TrackedSessions(p)) < MaxSessions
        BY <1>2 DEF HasRoom
      <3>3. /\ IsFiniteSet(TrackedSessions(n))
            /\ \/ s \in TrackedSessions(p) /\ Cardinality(TrackedSessions(n)) = Cardinality(TrackedSessions(p))
               \/ Cardinality(TrackedSessions(n)) = Cardinality(TrackedSessions(p)) + 1
                  /\ s \notin TrackedSessions(p)
        BY <3>1, <2>7, FS_AddElement
      <3> QED
        BY <3>1, <3>2, <3>3, PinAssumption
    <2>9. /\ IsFiniteSet(TrackedIds(n, s))
          /\ Cardinality(TrackedIds(n, s)) <= MaxIds
      <3>1. /\ IsFiniteSet(TrackedIds(p, s))
            /\ Cardinality(TrackedIds(p, s)) <= MaxIds
            /\ Cardinality(TrackedIds(p, s)) \in Nat
        BY FS_CardinalityType DEF Capped
      <3>2. i \in TrackedIds(p, s) \/ Cardinality(TrackedIds(p, s)) < MaxIds
        BY <1>2 DEF HasRoom
      <3>3. /\ IsFiniteSet(TrackedIds(n, s))
            /\ \/ i \in TrackedIds(p, s) /\ Cardinality(TrackedIds(n, s)) = Cardinality(TrackedIds(p, s))
               \/ Cardinality(TrackedIds(n, s)) = Cardinality(TrackedIds(p, s)) + 1
                  /\ i \notin TrackedIds(p, s)
        BY <3>1, <2>5, FS_AddElement
      <3> QED
        BY <3>1, <3>2, <3>3, PinAssumption
    <2> QED
      BY <2>6, <2>8, <2>9 DEF Capped, n
  <1> QED
    BY <1>1, <1>2

\* A fresh registry is empty, hence typed and within its caps.
LEMMA NoPinsCapped == NoPins \in Registry /\ Capped(NoPins)
  <1>1. NoPins \in Registry
    BY PinAssumption DEF NoPins, Registry
  <1>2. /\ TrackedSessions(NoPins) = {}
        /\ \A s \in Sessions : TrackedIds(NoPins, s) = {}
    <2>1. \A s \in Sessions, i \in Ids : NoPins[<<s, i>>] = 0
      BY DEF NoPins, Pairs
    <2>2. \A s \in Sessions, i \in Ids : ~(NoPins[<<s, i>>] > 0)
      <3> TAKE s \in Sessions, i \in Ids
      <3>1. NoPins[<<s, i>>] = 0
        BY <2>1
      <3> QED
        BY <3>1
    <2> QED
      BY <2>2 DEF TrackedSessions, TrackedIds
  <1> QED
    BY <1>1, <1>2, FS_EmptySet, PinAssumption DEF Capped

(***************************************************************************)
(* The registry as a state machine                                         *)
(***************************************************************************)

\* Cardinalities only mean something for finite sets, so the inductive
\* invariant carries finiteness along.
PinInv == pins \in Registry /\ Capped(pins)

LEMMA PinInvInit == PinInit => PinInv
  BY NoPinsCapped DEF PinInit, PinInv

LEMMA PinInvNext == PinInv /\ [PinNext]_pins => PinInv'
  <1> SUFFICES ASSUME PinInv, [PinNext]_pins PROVE PinInv'
    OBVIOUS
  <1>1. ASSUME NEW s \in Sessions, NEW i \in Ids, NoteRetrieve(s, i) PROVE PinInv'
    <2>1. Noted(pins, s, i) \in Registry /\ Capped(Noted(pins, s, i))
      BY NotedRegistry, NotedCapped DEF PinInv
    <2> QED
      BY <1>1, <2>1 DEF NoteRetrieve, PinInv
  <1>2. CASE ForgetPins
    BY <1>2, NoPinsCapped DEF ForgetPins, PinInv
  <1>3. CASE UNCHANGED pins
    BY <1>3 DEF PinInv
  <1> QED
    BY <1>1, <1>2, <1>3 DEF PinNext

LEMMA PinInvAlways == PinSpec => []PinInv
  BY PinInvInit, PinInvNext, PTL DEF PinSpec

\* The counters are u32 values, for every value of the constants.
THEOREM PinTypeCorrect == PinSpec => []PinTypeOK
  <1>1. PinInv => PinTypeOK
    BY DEF PinInv, PinTypeOK, Registry
  <1> QED
    BY <1>1, PinInvAlways, PTL

\* Neither cap is ever exceeded (mod.rs:226-234).
THEOREM RegistryIsBounded == PinSpec => []CapsHold
  <1>1. PinInv => CapsHold
    BY DEF PinInv, Capped, CapsHold
  <1> QED
    BY <1>1, PinInvAlways, PTL

\* Noting any retrieve unpins nothing.
LEMMA NoteKeepsPinned ==
    ASSUME PinInv, NEW t \in Sessions, NEW j \in Ids, NoteRetrieve(t, j),
           NEW s \in Sessions, NEW i \in Ids, IsPinned(pins, s, i)
    PROVE  IsPinned(pins', s, i)
  <1>1. <<s, i>> \in Pairs
    BY DEF Pairs
  <1>2. /\ pins' \in Registry
        /\ pins'[<<s, i>>] >= pins[<<s, i>>]
    BY <1>1, NotedRegistry DEF NoteRetrieve, PinInv
  <1>3. pins[<<s, i>>] \in Nat /\ pins'[<<s, i>>] \in Nat
    BY <1>1, <1>2, PinAssumption DEF PinInv, Registry
  <1> QED
    BY <1>2, <1>3, PinAssumption DEF IsPinned

\* Only a restart unpins a block (mod.rs:194-224).
THEOREM PinsStay == PinSpec => PinsAreSticky
  <1>1. PinInv /\ [PinNext]_pins =>
          [\A s \in Sessions, i \in Ids :
              IsPinned(pins, s, i) => IsPinned(pins', s, i) \/ pins' = NoPins]_pins
    BY NoteKeepsPinned DEF PinNext, ForgetPins
  <1> QED
    BY <1>1, PinInvAlways, PTL DEF PinSpec, PinsAreSticky

(***************************************************************************)
(* Runtime settings                                                        *)
(***************************************************************************)

SettingsInv == SettingsTypeOK /\ GateHolds

LEMMA SettingsInvInit == SettingsInit => SettingsInv
  BY SettingsAssumption
  DEF SettingsInit, SettingsInv, SettingsTypeOK, GateHolds, EffectiveCcr,
      WantedBy, Rows, Idle

LEMMA SettingsInvNext == SettingsInv /\ [SettingsNext]_settingsVars => SettingsInv'
  <1> SUFFICES ASSUME SettingsInv, [SettingsNext]_settingsVars PROVE SettingsInv'
    OBVIOUS
  <1> USE DEF SettingsInv, SettingsTypeOK, GateHolds
  <1>1. ASSUME NEW a \in Admins, NEW v \in BOOLEAN, SetFlag(a, v) PROVE SettingsInv'
    BY <1>1, SettingsAssumption DEF SetFlag, LiveValue, RowOf, Rows
  <1>2. ASSUME NEW a \in Admins, Persist(a) PROVE SettingsInv'
    BY <1>2 DEF Persist, Rows, Idle
  <1>3. CASE Reboot
    BY <1>3, SettingsAssumption DEF Reboot, EffectiveCcr, WantedBy, Rows, Idle
  <1>4. CASE UNCHANGED settingsVars
    BY <1>4 DEF settingsVars
  <1> QED
    BY <1>1, <1>2, <1>3, <1>4 DEF SettingsNext

\* CCR is live only where config and pipeline rules allow it
\* (server.rs:126-135, lib.rs:224-240).
THEOREM GateAlwaysHolds == SettingsSpec => [](SettingsTypeOK /\ GateHolds)
  BY SettingsInvInit, SettingsInvNext, PTL DEF SettingsSpec, SettingsInv

(***************************************************************************)
(* Where PUTs are sequential and writes succeed, a setting survives.  The  *)
(* invariant says what the database will read once the pending row lands.  *)
(***************************************************************************)

PendingRow(a) == IF admin[a] = Idle THEN persisted ELSE admin[a]

FlagIsPending(a) == flag = EffectiveCcr(gate, PendingRow(a))

\* With one client at a time and a database that accepts every row, the live
\* flag of a settled daemon is the one the next boot resolves to
\* (settings.rs:3-5).  With two clients it is not: run settings_race.
THEOREM LoneAdminSettingSurvives ==
    ASSUME NEW a, Admins = {a}, WritesMayFail = FALSE
    PROVE  SettingsSpec => []SettingSurvivesRestart
  <1> DEFINE Inv == SettingsInv /\ FlagIsPending(a)
  <1>1. SettingsInit => Inv
    BY SettingsInvInit DEF SettingsInit, FlagIsPending, PendingRow
  <1>2. Inv /\ [SettingsNext]_settingsVars => Inv'
    <2> SUFFICES ASSUME Inv, [SettingsNext]_settingsVars PROVE FlagIsPending(a)'
      BY SettingsInvNext
    <2> USE DEF SettingsInv, SettingsTypeOK, FlagIsPending, PendingRow, EffectiveCcr
    <2>1. ASSUME NEW b \in Admins, NEW v \in BOOLEAN, SetFlag(b, v)
          PROVE  FlagIsPending(a)'
      BY <2>1 DEF SetFlag, LiveValue, RowOf, WantedBy, Idle
    <2>2. ASSUME NEW b \in Admins, Persist(b) PROVE FlagIsPending(a)'
      BY <2>2 DEF Persist, Idle
    <2>3. CASE Reboot
      BY <2>3 DEF Reboot
    <2>4. CASE UNCHANGED settingsVars
      BY <2>4 DEF settingsVars
    <2> QED
      BY <2>1, <2>2, <2>3, <2>4 DEF SettingsNext
  <1>3. Inv => SettingSurvivesRestart
    BY DEF FlagIsPending, PendingRow, SettingSurvivesRestart
  <1> QED
    BY <1>1, <1>2, <1>3, PTL DEF SettingsSpec
=============================================================================
