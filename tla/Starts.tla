------------------------------- MODULE Starts -------------------------------
(***************************************************************************)
(* Bringing the proxy daemon up (src/llm_proxy.rs, src/hooks/              *)
(* session_start.rs and main.rs of the proxy).  `ptk <agent>`, `ptk        *)
(* llm-proxy start` and the session-start hook each probe the address,     *)
(* spawn a daemon if nothing answers, and wait for an answer.  Nothing     *)
(* keeps two of them from starting a daemon each: the one that cannot bind *)
(* exits.  Daemons stop and die, and the port may be a stranger's.         *)
(***************************************************************************)
EXTENDS Naturals

CONSTANTS
    Launchers,       \* processes; each spawns one daemon at most, named after it
    Free, Stranger   \* the port, when no daemon of ptk has it

ASSUME StartsAssumption == Free \notin Launchers /\ Stranger \notin Launchers

Roles == {"agent", "start", "hook"}

VARIABLES
    port,            \* who listens at the address
    daemon,          \* [Launchers -> "none", "boot", "serving", "draining", "gone"]
    role,            \* what each launcher was called for
    launch           \* the launchers, see Unlaunched

startsVars == <<port, daemon, role, launch>>

\* A launcher: its step, where the agent's base URL pointed before and where
\* it points in the end, and, as a ghost, whether a daemon served meanwhile.
Unlaunched == [pc |-> "idle", existing |-> "unset", route |-> "unset", served |-> FALSE]

Active(p) == launch[p].pc \notin {"idle", "done"}

Goes(p, pc) == launch' = [launch EXCEPT ![p].pc = pc]

(***************************************************************************)
(* The daemons and the port                                                *)
(***************************************************************************)

\* After the cache was pruned: bind, or exit.
Bind(d) ==
    /\ daemon[d] = "boot"
    /\ IF port = Free
       THEN /\ port' = d
            /\ daemon' = [daemon EXCEPT ![d] = "serving"]
            /\ launch' = [p \in Launchers |->
                             [launch[p] EXCEPT !.served = @ \/ Active(p)]]
       ELSE /\ daemon' = [daemon EXCEPT ![d] = "gone"]
            /\ UNCHANGED <<port, launch>>
    /\ UNCHANGED role

\* `llm-proxy stop`, or a signal: it accepts no more, and drains.
Stops(d) ==
    /\ daemon[d] = "serving"
    /\ port' = Free
    /\ daemon' = [daemon EXCEPT ![d] = "draining"]
    /\ UNCHANGED <<role, launch>>

DaemonDies(d) ==
    /\ daemon[d] \in {"boot", "serving", "draining"}
    /\ port' = IF port = d THEN Free ELSE port
    /\ daemon' = [daemon EXCEPT ![d] = "gone"]
    /\ UNCHANGED <<role, launch>>

StrangerComes ==
    /\ port = Free /\ port' = Stranger
    /\ UNCHANGED <<daemon, role, launch>>

StrangerLeaves ==
    /\ port = Stranger /\ port' = Free
    /\ UNCHANGED <<daemon, role, launch>>

(***************************************************************************)
(* ensure_running, and ensure_proxy of the hook                            *)
(***************************************************************************)

\* Mutant: whatever answers at the address will do.
AnyAnswer == port # Free

\* is_ptk_proxy_health: the answer names the service.
Healthy == port \in Launchers

\* An agent inherits a base URL, or none; for the others it decides nothing.
Launch(p) ==
    /\ launch[p].pc = "idle"
    /\ \E url \in {"unset", "proxy", "other"} :
          /\ role[p] # "agent" => url = "unset"
          /\ launch' = [launch EXCEPT ![p] =
                [pc |-> "probe", existing |-> url, route |-> url,
                 served |-> port \in Launchers]]
    /\ UNCHANGED <<port, daemon, role>>

\* A probe that gets no answer in time fails like one that is refused.
Probe(p) ==
    /\ launch[p].pc = "probe"
    /\ \/ Healthy /\ Goes(p, "up")
       \/ Goes(p, "spawn")
    /\ UNCHANGED <<port, daemon, role>>

\* The binary is not found, or cannot be started.
SpawnFails(p) ==
    /\ launch[p].pc = "spawn"
    /\ Goes(p, "down")
    /\ UNCHANGED <<port, daemon, role>>

SpawnDaemon(p) ==
    /\ launch[p].pc = "spawn" /\ role[p] # "hook"
    /\ daemon' = [daemon EXCEPT ![p] = "boot"]
    /\ Goes(p, "await")
    /\ UNCHANGED <<port, role>>

\* The hook spawns `ptk llm-proxy start`, which starts the daemon.
SpawnStart(p) ==
    /\ launch[p].pc = "spawn" /\ role[p] = "hook"
    /\ \E q \in Launchers :
          /\ role[q] = "start" /\ launch[q].pc = "idle"
          /\ launch' = [launch EXCEPT ![p].pc = "await",
                                      ![q] = [Unlaunched EXCEPT !.pc = "probe",
                                                                !.served = port \in Launchers]]
    /\ UNCHANGED <<port, daemon, role>>

\* The probe is repeated ...
Answered(p) ==
    /\ launch[p].pc = "await" /\ Healthy
    /\ Goes(p, "up")
    /\ UNCHANGED <<port, daemon, role>>

\* Mutant: it is repeated for ever.
NoDeadline(p) == launch[p].pc = "await" /\ UNCHANGED startsVars

\* ... until the deadline.
Deadline(p) ==
    /\ launch[p].pc = "await"
    /\ Goes(p, "down")
    /\ UNCHANGED <<port, daemon, role>>

(***************************************************************************)
(* run_agent                                                               *)
(***************************************************************************)

\* Mutant: an inherited address of the proxy stays.
PlanKeeping(existing, up) == IF up /\ existing # "other" THEN "proxy" ELSE existing

\* launch_plan: a route elsewhere is left alone, one to a dead proxy cleared.
Plan(existing, up) ==
    CASE existing = "other" -> "other"
      [] existing # "other" /\ up -> "proxy"
      [] OTHER -> "unset"

\* The agent is exec'd; the others print what they found.
Finish(p) ==
    LET up == launch[p].pc = "up" IN
    /\ launch[p].pc \in {"up", "down"}
    /\ launch' = [launch EXCEPT
          ![p].pc = "done",
          ![p].route = IF role[p] = "agent" THEN Plan(launch[p].existing, up) ELSE @]
    /\ UNCHANGED <<port, daemon, role>>

(***************************************************************************)
(* Specification                                                           *)
(***************************************************************************)

StartsInit ==
    /\ port \in {Free, Stranger}
    /\ daemon = [d \in Launchers |-> "none"]
    /\ role \in [Launchers -> Roles]
    /\ launch = [p \in Launchers |-> Unlaunched]

LauncherStep(p) ==
    \/ Probe(p) \/ SpawnFails(p) \/ SpawnDaemon(p) \/ SpawnStart(p)
    \/ Answered(p) \/ Deadline(p) \/ Finish(p)

StartsNext ==
    \/ \E p \in Launchers : Launch(p) \/ LauncherStep(p)
    \/ \E d \in Launchers : Bind(d) \/ Stops(d) \/ DaemonDies(d)
    \/ StrangerComes \/ StrangerLeaves

\* A launcher that runs goes on; daemons and strangers owe nothing.
Going == \A p \in Launchers : WF_startsVars(LauncherStep(p))

StartsSpec == StartsInit /\ [][StartsNext]_startsVars /\ Going

(***************************************************************************)
(* Properties                                                              *)
(***************************************************************************)

\* An agent is started with the proxy's address only if a daemon of ptk served
\* there while it was being launched: not for a stranger on the port, not for
\* an address it inherited, and whichever of several starts won
\* (llm_proxy.rs:569-574, 667-674 and 807-850).  Another spelling of the proxy's
\* own address is an "other" one, as in the code, and nothing is said of it.
RoutesAreEarned ==
    \A p \in Launchers :
        role[p] = "agent" /\ launch[p].pc = "done" /\ launch[p].route = "proxy"
            => launch[p].served

\* A launch never blocks the agent: whatever becomes of the daemons, it ends
\* (llm_proxy.rs:676-680 and 836-849, session_start.rs:44-60).
LaunchesEnd == \A p \in Launchers : Active(p) ~> ~Active(p)
=============================================================================
