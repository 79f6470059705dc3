----------------------------- MODULE Installer -----------------------------
(***************************************************************************)
(* `ptk init -g` and `ptk init -g --uninstall` on the settings file of     *)
(* Claude Code (src/hooks/init/claude.rs and mod.rs).  The file is the     *)
(* user's: it holds hooks and a base URL of theirs beside PTK's, and they, *)
(* or the agent, save it at any time.  A command reads it, may wait for an *)
(* answer, and replaces the whole file by a rename; an init does so up to  *)
(* three times.  An older PTK left a hook script and an entry for it.      *)
(*                                                                         *)
(* The copy that is saved beside the file is never read, and left out.     *)
(***************************************************************************)
EXTENDS Naturals, FiniteSets

CONSTANTS
    Setups,          \* the processes
    OwnHooks,        \* the user's hooks
    Matchers,        \* of tools; "none" for an event without, "own" the user's
    Needs,           \* what pipelines may require: events and their matchers
    OldSettings,     \* what the file may hold at first, see SettingsOK
    MaxSetups,       \* bound on the commands that are run
    MaxSaves         \* bound on the user's edits

OwnedHooks == {"ptk", "legacy"}
HookEvents == {"pre", "post", "session"}

\* Entries of one event: a matcher and the hooks that it selects.
Groups ==
    [event : HookEvents, matcher : Matchers,
     hooks : (SUBSET (OwnedHooks \cup OwnHooks)) \ {{}}]

\* The groups are an array.  Nobody looks at their order, so each just has a
\* place.
SettingsOK(s) ==
    /\ IsFiniteSet(DOMAIN s.groups) /\ DOMAIN s.groups \subseteq Nat
    /\ s \in [groups : [DOMAIN s.groups -> Groups], url : {"unset", "ptk", "foreign"}]

\* No event runs PTK's hook twice.
OwnedOnce(s) ==
    \A i, j \in DOMAIN s.groups :
        LET g == s.groups[i]
            h == s.groups[j] IN
        g.event = h.event /\ g.hooks \cap OwnedHooks # {} /\ h.hooks \cap OwnedHooks # {}
            => i = j /\ ~(OwnedHooks \subseteq g.hooks)

\* An older PTK registered its script under one event only.
LegacyInPre(s) ==
    \A i \in DOMAIN s.groups : "legacy" \in s.groups[i].hooks => s.groups[i].event = "pre"

ASSUME InstallerAssumption ==
    /\ OwnedHooks \cap OwnHooks = {}
    /\ {"none", "own"} \subseteq Matchers
    /\ \A n \in Needs : DOMAIN n \subseteq {"pre", "post"} /\ n \in [DOMAIN n -> Matchers]
    /\ \A s \in OldSettings : SettingsOK(s) /\ OwnedOnce(s) /\ LegacyInPre(s)
    /\ MaxSetups \in Nat /\ MaxSaves \in Nat

VARIABLES
    settings,        \* settings.json
    script,          \* the hook script of an older PTK exists
    setup,           \* the processes
    setups,          \* how many commands were started
    saves,           \* how often the user saved
    mine,            \* ghost: the user's own part of the file
    installed,       \* ghost: the last of init and uninstall was an init
    kept,            \* ghost: no save fell between a read and its write
    cut              \* ghost: a command ended between script and entry

setupVars == <<settings, script, setup, setups, saves, mine, installed, kept, cut>>
SetupGhosts == <<mine, installed, kept, cut>>

\* A process: its step, what it was called with, the file as it is to be
\* written, and whether nobody wrote the file since it was read.
Unused == [at |-> "rest", ask |-> "no", onramp |-> FALSE, need |-> [e \in {} |-> {}],
           copy |-> [groups |-> <<>>, url |-> "unset"], fresh |-> FALSE]

Steps(p, record) == setup' = [setup EXCEPT ![p] = record]

To(p, at) == [setup[p] EXCEPT !.at = at]

Holding(p, at, copy) == [setup[p] EXCEPT !.at = at, !.copy = copy, !.fresh = TRUE]

\* The file is replaced by s: the copies that others hold are stale.
Replaces(p, s, at) ==
    /\ settings' = s
    /\ setup' = [q \in Setups |->
                    IF q = p THEN [setup[q] EXCEPT !.at = at, !.fresh = FALSE,
                                                   !.copy = Unused.copy]
                             ELSE [setup[q] EXCEPT !.fresh = FALSE]]

(***************************************************************************)
(* The file                                                                *)
(***************************************************************************)

GroupsOf(s) == {s.groups[i] : i \in DOMAIN s.groups}

\* hook_already_present
Present(s, event) == \E g \in GroupsOf(s) : g.event = event /\ g.hooks \cap OwnedHooks # {}

\* session_start_entry_present
Autostarts(s) == \E g \in GroupsOf(s) : g.event = "session" /\ "ptk" \in g.hooks

Entries(event, matcher) == [event |-> event, matcher |-> matcher, hooks |-> {"ptk"}]

\* refresh_hook_matcher, for each event that is required.
Refreshed(g, need) ==
    IF g.event \in DOMAIN need /\ "ptk" \in g.hooks
    THEN [g EXCEPT !.matcher = need[g.event]] ELSE g

\* A group takes a place of its own.
Pushed(groups, g) ==
    LET place == CHOOSE n \in 1 .. Cardinality(DOMAIN groups) + 1 : n \notin DOMAIN groups IN
    [i \in DOMAIN groups \cup {place} |-> IF i = place THEN g ELSE groups[i]]

With(s, event, matcher, needed) ==
    IF needed THEN [s EXCEPT !.groups = Pushed(@, Entries(event, matcher))] ELSE s

\* Stale matchers are refreshed, and an entry is added to the events that
\* have none; nothing is removed.
Patched(s, need) ==
    LET fresh == [s EXCEPT !.groups = [i \in DOMAIN @ |-> Refreshed(@[i], need)]]
        Needed(e) == e \in DOMAIN need /\ ~Present(s, e) IN
    With(With(fresh, "pre", need["pre"], Needed("pre")), "post", need["post"], Needed("post"))

\* Mutant: a group with a hook of PTK's goes as a whole.
WithoutGroups(groups, events, hooks) ==
    LET stay == {i \in DOMAIN groups :
                    groups[i].event \notin events \/ groups[i].hooks \cap hooks = {}} IN
    [i \in stay |-> groups[i]]

\* remove_hook_entries: a group goes if nothing is left of it.
Without(groups, events, hooks) ==
    LET Left(g) == IF g.event \in events THEN [g EXCEPT !.hooks = @ \ hooks] ELSE g IN
    [i \in {j \in DOMAIN groups : Left(groups[j]).hooks # {}} |-> Left(groups[i])]

\* remove_legacy_hook_entries_from_json
Modern(s) == [s EXCEPT !.groups = Without(@, {"pre"}, {"legacy"})]

\* remove_hook_from_json and remove_proxy_env_from_json
Removed(s) ==
    [groups |-> Without(s.groups, HookEvents, OwnedHooks),
     url |-> IF s.url = "ptk" THEN "unset" ELSE s.url]

(***************************************************************************)
(* init -g                                                                 *)
(***************************************************************************)

\* --auto-patch, --no-patch or neither; --hook-only or not.
InitBegins(p) ==
    /\ setup[p].at = "rest" /\ setups < MaxSetups /\ setups' = setups + 1
    /\ \E ask \in {"ask", "auto", "skip"}, hookOnly \in BOOLEAN, need \in Needs :
          Steps(p, [Unused EXCEPT !.at = "migrate", !.ask = ask, !.need = need,
                                  !.onramp = ask = "ask" /\ ~hookOnly])
    /\ UNCHANGED <<settings, script, saves, SetupGhosts>>

\* migrate_old_hook_script: the script goes; if it does not, nothing follows.
Migrate(p) ==
    /\ setup[p].at = "migrate"
    /\ \/ script /\ script' = FALSE /\ Steps(p, To(p, "legacy"))
       \/ UNCHANGED script /\ Steps(p, To(p, "patch"))
    /\ UNCHANGED <<settings, setups, saves, SetupGhosts>>

\* remove_legacy_settings_entries
LegacyReads(p) ==
    /\ setup[p].at = "legacy"
    /\ Steps(p, IF Modern(settings) = settings THEN To(p, "patch")
                ELSE Holding(p, "legacyWrite", Modern(settings)))
    /\ UNCHANGED <<settings, script, setups, saves, SetupGhosts>>

LegacyWrites(p) ==
    /\ setup[p].at = "legacyWrite"
    /\ Replaces(p, setup[p].copy, "patch")
    /\ kept' = (kept /\ setup[p].fresh)
    /\ UNCHANGED <<script, setups, saves, mine, installed, cut>>

\* A failure to clean the file is only warned of, and the init goes on.
LegacyFails(p) ==
    /\ setup[p].at \in {"legacy", "legacyWrite"}
    /\ Steps(p, [Unused EXCEPT !.at = "patch", !.ask = setup[p].ask, !.need = setup[p].need,
                               !.onramp = setup[p].onramp])
    /\ cut' = TRUE
    /\ UNCHANGED <<settings, script, setups, saves, mine, installed, kept>>

AfterPatch(p) == IF setup[p].onramp THEN To(p, "onramp") ELSE Unused

\* patch_settings_json_command: read and compare.
PatchReads(p) ==
    LET new == Patched(settings, setup[p].need) IN
    /\ setup[p].at = "patch"
    /\ Steps(p, IF new = settings THEN AfterPatch(p)
                ELSE IF setup[p].ask = "skip" THEN Unused
                ELSE Holding(p, "patchWrite", new))
    /\ UNCHANGED <<settings, script, setups, saves, SetupGhosts>>

PatchDeclined(p) ==
    /\ setup[p].at = "patchWrite" /\ setup[p].ask = "ask"
    /\ Steps(p, Unused)
    /\ UNCHANGED <<settings, script, setups, saves, SetupGhosts>>

PatchWrites(p) ==
    /\ setup[p].at = "patchWrite"
    /\ Replaces(p, setup[p].copy, AfterPatch(p).at)
    /\ installed' = TRUE
    /\ kept' = (kept /\ setup[p].fresh)
    /\ UNCHANGED <<script, setups, saves, mine, cut>>

\* offer_proxy_onramp: nothing to offer, or the file is read for the offer.
OnrampReads(p) ==
    /\ setup[p].at = "onramp"
    /\ \/ Steps(p, Unused)
       \/ /\ settings.url # "ptk" \/ ~Autostarts(settings)
          /\ Steps(p, Holding(p, "choose", settings))
    /\ UNCHANGED <<settings, script, setups, saves, SetupGhosts>>

\* No, the third way, or no answer.
OnrampDeclined(p) ==
    /\ setup[p].at = "choose"
    /\ Steps(p, Unused)
    /\ UNCHANGED <<settings, script, setups, saves, SetupGhosts>>

\* The daemon is routed to, and started by a hook or a service; a foreign
\* route is replaced with the user's consent.
OnrampWrites(p) ==
    LET copy == setup[p].copy IN
    /\ setup[p].at = "choose"
    /\ \E hook \in BOOLEAN :
          Replaces(p, [With(copy, "session", "none", hook /\ ~Autostarts(copy))
                          EXCEPT !.url = "ptk"], "rest")
    /\ mine' = [mine EXCEPT !.url = "unset"]
    /\ installed' = TRUE
    /\ kept' = (kept /\ setup[p].fresh)
    /\ UNCHANGED <<script, setups, saves, cut>>

(***************************************************************************)
(* init -g --uninstall                                                     *)
(***************************************************************************)

UninstallBegins(p) ==
    /\ setup[p].at = "rest" /\ setups < MaxSetups /\ setups' = setups + 1
    /\ Steps(p, [Unused EXCEPT !.at = "unhook"])
    /\ script' = FALSE
    /\ UNCHANGED <<settings, saves, SetupGhosts>>

\* remove_settings_entries
UninstallReads(p) ==
    LET clean == Removed(settings) = settings IN
    /\ setup[p].at = "unhook"
    /\ Steps(p, IF clean THEN Unused ELSE Holding(p, "unhookWrite", Removed(settings)))
    /\ installed' = (installed /\ ~clean)
    /\ UNCHANGED <<settings, script, setups, saves, mine, kept, cut>>

UninstallWrites(p) ==
    /\ setup[p].at = "unhookWrite"
    /\ Replaces(p, setup[p].copy, "rest")
    /\ installed' = FALSE
    /\ kept' = (kept /\ setup[p].fresh)
    /\ UNCHANGED <<script, setups, saves, mine, cut>>

\* A command fails, or is interrupted.
SetupEnds(p) ==
    /\ setup[p].at # "rest"
    /\ Steps(p, Unused)
    /\ cut' = (cut \/ setup[p].at \in {"legacy", "legacyWrite", "unhook", "unhookWrite"})
    /\ UNCHANGED <<settings, script, setups, saves, mine, installed, kept>>

(***************************************************************************)
(* The user                                                                *)
(***************************************************************************)

\* The user's own part of the file.
OwnPart(s) ==
    [hooks |-> UNION {{g.event} \X (g.hooks \cap OwnHooks) : g \in GroupsOf(s)},
     url |-> IF s.url = "foreign" THEN "foreign" ELSE "unset"]

Alone(event, hook) == [event |-> event, matcher |-> "own", hooks |-> {hook}]

\* A hook is added, alone or to a group that is there, or removed; or the
\* requests are routed elsewhere, or nowhere.
Edited(s) ==
    {[s EXCEPT !.groups = Pushed(@, Alone(e, h))] : e \in HookEvents, h \in OwnHooks}
    \cup {[s EXCEPT !.groups[i].hooks = @ \cup {h}] : i \in DOMAIN s.groups, h \in OwnHooks}
    \cup {[s EXCEPT !.groups = Without(@, {e}, OwnHooks)] : e \in HookEvents}
    \cup {[s EXCEPT !.url = u] : u \in {"unset", "foreign"}}

UserSaves ==
    /\ saves < MaxSaves /\ saves' = saves + 1
    /\ settings' \in Edited(settings)
    /\ mine' = OwnPart(settings')
    /\ setup' = [q \in Setups |-> [setup[q] EXCEPT !.fresh = FALSE]]
    /\ UNCHANGED <<script, setups, installed, kept, cut>>

(***************************************************************************)
(* Specification                                                           *)
(***************************************************************************)

HasOwned(s) == s.url = "ptk" \/ \E e \in HookEvents : Present(s, e)

Old(s) == \E g \in GroupsOf(s) : "legacy" \in g.hooks

InstallerInit ==
    /\ settings \in OldSettings
    /\ script = Old(settings)
    /\ setup = [p \in Setups |-> Unused] /\ setups = 0 /\ saves = 0
    /\ mine = OwnPart(settings)
    /\ installed = HasOwned(settings)
    /\ kept = TRUE /\ cut = FALSE

SetupStep(p) ==
    \/ InitBegins(p) \/ Migrate(p) \/ LegacyReads(p) \/ LegacyWrites(p) \/ LegacyFails(p)
    \/ PatchReads(p) \/ PatchDeclined(p) \/ PatchWrites(p)
    \/ OnrampReads(p) \/ OnrampDeclined(p) \/ OnrampWrites(p)
    \/ UninstallBegins(p) \/ UninstallReads(p) \/ UninstallWrites(p)
    \/ SetupEnds(p)

InstallerNext == UserSaves \/ \E p \in Setups : SetupStep(p)

InstallerSpec == InstallerInit /\ [][InstallerNext]_setupVars

(***************************************************************************)
(* Properties                                                              *)
(***************************************************************************)

\* The user's hooks and routing are theirs, whatever was installed, migrated,
\* interrupted or removed around them.
UsersOwnIsKept == kept => OwnPart(settings) = mine

\* An uninstall leaves nothing of PTK's behind.
NothingRemains == kept /\ ~installed => ~HasOwned(settings)

\* The entry of an older PTK does not outlive its script.
NothingDangles ==
    kept /\ ~cut /\ (\A p \in Setups : setup[p].at = "rest") => (Old(settings) => script)

\* After any sequence of installs, migrations, proxy set-ups, uninstalls and
\* edits by the user, interrupted anywhere: the user's own entries are what
\* the user made them, PTK's are there at most once per event, not at all
\* after an uninstall, and none refers to a script that is gone.  A save that
\* falls between a command's read and its write is lost, and excepted
\* (claude.rs:151-250 and 254-431, mod.rs:987-1200 and 1757-1794).
SettingsStaySound ==
    UsersOwnIsKept /\ OwnedOnce(settings) /\ NothingRemains /\ NothingDangles
=============================================================================
