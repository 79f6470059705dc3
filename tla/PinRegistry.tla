---------------------------- MODULE PinRegistry ----------------------------
(***************************************************************************)
(* The pin registry of the proxy's compress-and-retrieve stage (CCR):      *)
(* proxy/src/pipeline/ccr/mod.rs, `PinRegistry` and its two callers.       *)
(*                                                                         *)
(* The registry tallies, per session and per block, how often the model    *)
(* asked for a compressed block back.  A block that reaches the threshold  *)
(* is pinned: later requests of the session send it verbatim.  The tally   *)
(* lives in memory, so a restart of the daemon forgets it.  Both of its    *)
(* dimensions are capped, and a cap that is hit refuses the newcomer.      *)
(*                                                                         *)
(* The code keeps a map from session to a map from id to count.  An entry  *)
(* is created with count 1, so here the two maps are one total function    *)
(* and 0 means "no entry".                                                 *)
(***************************************************************************)
EXTENDS Naturals, FiniteSets

CONSTANTS
    Sessions,     \* cache namespaces: session headers or conversation hashes
    Ids,          \* content hashes of blocks
    MaxSessions,  \* MAX_PINNED_SESSIONS
    MaxIds,       \* MAX_PINNED_IDS_PER_SESSION
    Threshold,    \* pin_after_retrieves(); 0 switches pinning off
    MaxCount      \* largest value of the u32 counter

\* MaxIds is positive so that a session entry never exists without an id.
ASSUME PinAssumption ==
    /\ MaxSessions \in Nat
    /\ MaxIds \in Nat \ {0}
    /\ Threshold \in Nat
    /\ MaxCount \in Nat \ {0}

VARIABLE pins     \* pins[<<s, i>>]: retrieves of block i tallied in session s

Pairs == Sessions \X Ids

\* A new process starts with an empty registry.
NoPins == [p \in Pairs |-> 0]

TrackedSessions(p) == {s \in Sessions : \E i \in Ids : p[<<s, i>>] > 0}

TrackedIds(p, s) == {i \in Ids : p[<<s, i>>] > 0}

(***************************************************************************)
(* One retrieve                                                            *)
(***************************************************************************)

\* Mutant: the id cap admits one block too many.
HasRoomOffByOne(p, s, i) ==
    /\ s \in TrackedSessions(p) \/ Cardinality(TrackedSessions(p)) < MaxSessions
    /\ i \in TrackedIds(p, s) \/ Cardinality(TrackedIds(p, s)) <= MaxIds

\* The caps refuse a new session and a new id, never one already tracked.
HasRoom(p, s, i) ==
    /\ s \in TrackedSessions(p) \/ Cardinality(TrackedSessions(p)) < MaxSessions
    /\ i \in TrackedIds(p, s) \/ Cardinality(TrackedIds(p, s)) < MaxIds

\* Mutant: the counter wraps, as `wrapping_add` would.
IncrementWrapping(n) == IF n = MaxCount THEN 0 ELSE n + 1

\* Mutant: the counter leaves its range.
IncrementUnbounded(n) == n + 1

\* saturating_add(1)
Increment(n) == IF n = MaxCount THEN n ELSE n + 1

\* The registry after `note_retrieve(s, i)`.
Noted(p, s, i) ==
    IF Threshold > 0 /\ HasRoom(p, s, i)
    THEN [p EXCEPT ![<<s, i>>] = Increment(@)]
    ELSE p

\* `is_pinned_at`: a threshold of 0 pins nothing rather than everything.
IsPinned(p, s, i) == Threshold > 0 /\ p[<<s, i>>] >= Threshold

(***************************************************************************)
(* The registry as a state machine                                         *)
(***************************************************************************)

PinInit == pins = NoPins

NoteRetrieve(s, i) == pins' = Noted(pins, s, i)

ForgetPins == pins' = NoPins

PinNext ==
    \/ \E s \in Sessions, i \in Ids : NoteRetrieve(s, i)
    \/ ForgetPins

PinSpec == PinInit /\ [][PinNext]_pins

(***************************************************************************)
(* Properties                                                              *)
(***************************************************************************)

\* The counters are u32 values.
PinTypeOK == pins \in [Pairs -> 0 .. MaxCount]

\* The long-lived daemon's registry never outgrows its two caps, whatever
\* sessions and ids the retrieves name (mod.rs:226-234).
CapsHold ==
    /\ Cardinality(TrackedSessions(pins)) <= MaxSessions
    /\ \A s \in Sessions : Cardinality(TrackedIds(pins, s)) <= MaxIds

\* A pinned block stays pinned for the remainder of the session, however
\* often it is retrieved afterwards and whatever else fills the registry;
\* only a restart of the process unpins it (mod.rs:194-224).
PinsAreSticky ==
    [][\A s \in Sessions, i \in Ids :
          IsPinned(pins, s, i) => IsPinned(pins', s, i) \/ pins' = NoPins]_pins
=============================================================================
