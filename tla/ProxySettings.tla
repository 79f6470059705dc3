--------------------------- MODULE ProxySettings ---------------------------
(***************************************************************************)
(* The `ccr` setting of the proxy daemon: the live flag every request      *)
(* reads, the row in `app_settings` the next boot reads, and the boot gate *)
(* both are subordinate to (server.rs `put_settings`, lib.rs               *)
(* `AppState::new`, settings.rs).                                          *)
(*                                                                         *)
(* `PUT /admin/settings` writes the flag first and awaits the database     *)
(* afterwards, with no lock across the two; handlers of different clients  *)
(* interleave there.  A failed write is only logged.                       *)
(***************************************************************************)
EXTENDS Naturals

CONSTANTS
    Admins,        \* clients of PUT /admin/settings
    GateChoices,   \* what config and pipeline rules may resolve to at a boot
    WritesMayFail  \* whether SQLite may refuse a settings row

ASSUME SettingsAssumption ==
    /\ GateChoices \subseteq BOOLEAN
    /\ GateChoices # {}
    /\ WritesMayFail \in BOOLEAN

VARIABLES
    gate,       \* ccr_boot_gate, fixed for the life of the process
    flag,       \* ccr_enabled, the shared runtime flag
    persisted,  \* the `ccr` row of app_settings
    admin       \* the PUT handler of each client

settingsVars == <<gate, flag, persisted, admin>>

Rows == {"unset", "true", "false"}

\* v.to_string() of the requested value
RowOf(v) == IF v THEN "true" ELSE "false"

\* A missing row counts as true; parse_bool reads the others.
WantedBy(row) == row # "false"

\* Mutant: a boot forgets the persisted veto.
EffectiveCcrUnvetoed(g, row) == g

\* A persisted setting may veto CCR, never enable it past the gate.
EffectiveCcr(g, row) == g /\ WantedBy(row)

\* `want` is the row a handler still has to write; "unset" when it has none.
Idle == "unset"

(***************************************************************************)
(* Actions                                                                 *)
(***************************************************************************)

SettingsInit ==
    /\ gate \in GateChoices
    /\ persisted \in Rows
    /\ flag = EffectiveCcr(gate, persisted)
    /\ admin = [a \in Admins |-> Idle]

\* Mutant: the accepted value reaches the flag without the gate.
LiveValueRaw(v) == v

LiveValue(v) == v /\ gate

\* The handler up to its first await: the flag takes the gated value.
SetFlag(a, v) ==
    /\ admin[a] = Idle
    /\ flag' = LiveValue(v)
    /\ admin' = [admin EXCEPT ![a] = RowOf(v)]
    /\ UNCHANGED <<gate, persisted>>

\* The handler after it: the raw value is persisted, or the write fails.
Persist(a) ==
    /\ admin[a] # Idle
    /\ \/ persisted' = admin[a]
       \/ WritesMayFail /\ UNCHANGED persisted
    /\ admin' = [admin EXCEPT ![a] = Idle]
    /\ UNCHANGED <<gate, flag>>

\* The process dies, at any point, and a new one resolves gate and flag.
Reboot ==
    /\ gate' \in GateChoices
    /\ flag' = EffectiveCcr(gate', persisted)
    /\ admin' = [a \in Admins |-> Idle]
    /\ UNCHANGED persisted

SettingsNext ==
    \/ \E a \in Admins, v \in BOOLEAN : SetFlag(a, v)
    \/ \E a \in Admins : Persist(a)
    \/ Reboot

SettingsSpec == SettingsInit /\ [][SettingsNext]_settingsVars

(***************************************************************************)
(* Properties                                                              *)
(***************************************************************************)

SettingsTypeOK ==
    /\ gate \in GateChoices
    /\ flag \in BOOLEAN
    /\ persisted \in Rows
    /\ admin \in [Admins -> Rows]

\* No sequence of settings updates, failed writes and restarts turns CCR on
\* in a daemon whose config and pipeline rules decided against it
\* (server.rs:126-135, lib.rs:224-240).
GateHolds == flag => gate

\* Once every PUT has been answered, the live flag is the one the next boot
\* would resolve to, as settings.rs:3-5 promises ("a `ptk llm-proxy config
\* set` survives a restart").
SettingSurvivesRestart ==
    (\A a \in Admins : admin[a] = Idle) => flag = EffectiveCcr(gate, persisted)

\* Config.ccr is only the boot default, a persisted value wins over it
\* (config.rs:113-115, settings.rs:3-5): the flag of a daemon that finds a row
\* at its start is the one the row asks for.
PersistedValueWins ==
    [][Reboot /\ persisted # "unset" => flag' = WantedBy(persisted)]_settingsVars
=============================================================================
