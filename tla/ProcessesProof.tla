--------------------------- MODULE ProcessesProof ---------------------------
(***************************************************************************)
(* Running a child, and starting the daemon, for any number of commands,   *)
(* signals and launchers.  The two modules have no variable in common; the *)
(* second part begins at `Starting the daemon'.                            *)
(***************************************************************************)
EXTENDS ChildRun, Starts, TLAPS

(***************************************************************************)
(* Running a child                                                         *)
(***************************************************************************)

RunModes == {"streamed", "captured", "passthrough"}

MainPlaces ==
    {"spawn", "install", "handle", "read", "join", "wait", "report", "drop", "restore",
     "print", "die"}

ChildRunTypeOK ==
    /\ run \in Runs
    /\ mode \in RunModes
    /\ pc \in MainPlaces
    /\ todo \subseteq Sigs
    /\ disposition \in [Sigs -> {"default", "ignore", "relay"}]
    /\ ignored \in Sigs \cup {NoSig}
    /\ relayed \in Sigs \cup {NoSig}
    /\ fate \in {"alive", "exited", "killed"}
    /\ viaRunner \in BOOLEAN /\ heard \in BOOLEAN

NothingRelays == \A s \in Sigs : disposition[s] # "relay"

\* Outside a relay's lifetime nothing relays: a signal is deadly or ignored.
\* While it is dropped, what still relays is what has yet to be restored.
RelayIsScoped ==
    /\ mode = "passthrough" => pc \in {"spawn", "wait", "die"}
    /\ mode = "passthrough" \/ pc \in {"spawn", "install", "print", "die"} => NothingRelays
    /\ pc = "restore" => \A s \in Sigs : disposition[s] = "relay" => s \in todo

\* A signal that ptk survived is remembered until the main thread looks.
SurvivedIsRemembered ==
    viaRunner /\ heard /\ fate # "killed" =>
        /\ Alive
        /\ relayed # NoSig
        /\ pc \notin {"spawn", "install"}

ChildRunInv == ChildRunTypeOK /\ RelayIsScoped /\ SurvivedIsRemembered

LEMMA InitChildRunInv == ChildRunInit => ChildRunInv
  <1> SUFFICES ASSUME ChildRunInit PROVE ChildRunInv
    OBVIOUS
  <1>1. /\ pc = "spawn" /\ todo = {} /\ ignored = NoSig /\ relayed = NoSig
        /\ fate = "alive" /\ heard = FALSE /\ viaRunner \in BOOLEAN
        /\ mode \in RunModes /\ run = 1
        /\ disposition \in [Sigs -> {"default", "ignore"}]
    BY DEF ChildRunInit, RunModes
  <1>2. 1 \in Runs
    BY ChildRunAssumption DEF Runs
  <1>3. /\ disposition \in [Sigs -> {"default", "ignore", "relay"}]
        /\ NothingRelays
    BY <1>1 DEF NothingRelays
  <1> QED
    BY <1>1, <1>2, <1>3
    DEF ChildRunInv, ChildRunTypeOK, RelayIsScoped, SurvivedIsRemembered, MainPlaces

\* Steps that move the main thread on and leave signals and handlers alone.
LEMMA MovingChildRunInv ==
    ASSUME ChildRunInv,
           \/ Spawn \/ Watch \/ ReadToEnd \/ ReadBroken \/ JoinAtEnd \/ JoinAtLine
           \/ PrintFails \/ Wait \/ Report \/ Guarded \/ PrintOut
    PROVE  ChildRunInv'
  <1>1. /\ UNCHANGED <<run, mode, disposition, ignored, relayed, fate, viaRunner, heard, todo>>
        /\ pc \notin {"install", "handle", "drop", "die"} \/ (pc = "handle" /\ pc' = "read")
        /\ pc' \in MainPlaces \ {"spawn", "install", "restore"} \/ (pc = "spawn" /\ pc' = "install")
        /\ mode = "passthrough" => (pc = "spawn" /\ pc' = "wait") \/ pc' = "die" \/ pc \notin {"spawn", "wait", "die"}
        /\ pc' \in {"print", "die"} => pc \in {"restore", "print"} \/ mode = "passthrough"
        /\ pc = "restore" => todo = {}
    BY DEF Spawn, Watch, ReadToEnd, ReadBroken, JoinAtEnd, JoinAtLine, PrintFails, Wait,
           Report, Guarded, PrintOut, Main, Others, Flags, Setting, MainPlaces
  <1> QED
    BY <1>1
    DEF ChildRunInv, ChildRunTypeOK, RelayIsScoped, SurvivedIsRemembered, NothingRelays,
        MainPlaces, Alive

LEMMA RelayChildRunInv ==
    ASSUME ChildRunInv, Install \/ Handle \/ Drop \/ Restore \/ PutBack
    PROVE  ChildRunInv'
  <1> USE DEF ChildRunInv, ChildRunTypeOK, RelayIsScoped, SurvivedIsRemembered,
              NothingRelays, MainPlaces, Alive, Main, Others, Flags
  <1>1. CASE Install
    BY <1>1 DEF Install
  <1>2. CASE Handle
    BY <1>2 DEF Handle, Replace
  <1>3. CASE Drop
    BY <1>3 DEF Drop
  <1>4. CASE Restore
    BY <1>4 DEF Restore, Replace
  <1>5. CASE PutBack
    BY <1>5 DEF PutBack
  <1> QED
    BY <1>1, <1>2, <1>3, <1>4, <1>5

\* ptk ends by a signal that was relayed, and starts no command over it.
LEMMA DieChildRunInv ==
    ASSUME ChildRunInv, Die
    PROVE  ChildRunInv'
  <1>1. /\ pc = "die" /\ Alive /\ NothingRelays
        /\ UNCHANGED <<todo, disposition, ignored, relayed, viaRunner, heard>>
    BY DEF Die, Main, Setting, Flags, Others, ChildRunInv, RelayIsScoped
  <1>2. MustDie \/ ~(viaRunner /\ heard)
    BY <1>1 DEF ChildRunInv, SurvivedIsRemembered, MustDie, Alive
  <1>3. \/ fate' \in {"killed", "exited"} /\ UNCHANGED <<run, mode, pc>>
           /\ (fate' = "exited" => ~MustDie)
        \/ ~MustDie /\ run < MaxRuns /\ run' = run + 1 /\ pc' = "spawn"
           /\ mode' \in RunModes /\ UNCHANGED fate
    BY DEF Die, RunModes
  <1>4. run + 1 \in Runs \/ ~(run < MaxRuns)
    BY ChildRunAssumption DEF ChildRunInv, ChildRunTypeOK, Runs
  <1> QED
    BY <1>1, <1>2, <1>3, <1>4
    DEF ChildRunInv, ChildRunTypeOK, RelayIsScoped, SurvivedIsRemembered, NothingRelays,
        MainPlaces, Alive

\* A signal is ignored, kills, or is remembered.
LEMMA SignalChildRunInv ==
    ASSUME ChildRunInv, NEW s \in Sigs, Signal(s)
    PROVE  ChildRunInv'
  <1>1. /\ Alive
        /\ UNCHANGED <<run, mode, pc, todo, disposition, ignored, viaRunner>>
        /\ heard' = (heard \/ disposition[s] # "ignore")
    BY DEF Signal, Setting
  <1>2. \/ disposition[s] = "ignore" /\ UNCHANGED <<relayed, fate>>
        \/ disposition[s] = "relay" /\ relayed' = s /\ UNCHANGED fate
        \/ fate' = "killed" /\ UNCHANGED relayed
    BY DEF Signal
  <1>3. heard' \in BOOLEAN
    BY <1>1
  <1>4. s # NoSig
    BY DEF Sigs, NoSig
  <1>5. CASE disposition[s] = "ignore" /\ UNCHANGED <<relayed, fate>>
    BY <1>1, <1>5
    DEF ChildRunInv, ChildRunTypeOK, RelayIsScoped, SurvivedIsRemembered, NothingRelays, Alive
  <1>6. CASE disposition[s] = "relay" /\ relayed' = s /\ UNCHANGED fate
    BY <1>1, <1>3, <1>4, <1>6
    DEF ChildRunInv, ChildRunTypeOK, RelayIsScoped, SurvivedIsRemembered, NothingRelays, Alive
  <1>7. CASE fate' = "killed" /\ UNCHANGED relayed
    BY <1>1, <1>3, <1>7
    DEF ChildRunInv, ChildRunTypeOK, RelayIsScoped, SurvivedIsRemembered, NothingRelays, Alive
  <1> QED
    BY <1>2, <1>5, <1>6, <1>7

\* Watchers and the child at most kill ptk.
LEMMA AsideChildRunInv ==
    ASSUME ChildRunInv,
           \/ \E r \in Runs : WatcherStep(r)
           \/ ChildEnds \/ HeirEnds \/ UNCHANGED childVars
    PROVE  ChildRunInv'
  <1>1. /\ UNCHANGED <<run, mode, pc, todo, disposition, ignored, relayed, viaRunner, heard>>
        /\ fate' = fate \/ fate' = "killed"
    BY DEF WatcherStep, Poll, KillChild, GiveUpRun, LastResort, ChildEnds, HeirEnds,
           childVars, Setting, Flags, Others
  <1> QED
    BY <1>1
    DEF ChildRunInv, ChildRunTypeOK, RelayIsScoped, SurvivedIsRemembered, NothingRelays, Alive

LEMMA NextChildRunInv == ChildRunInv /\ [ChildRunNext]_childVars => ChildRunInv'
  BY MovingChildRunInv, RelayChildRunInv, DieChildRunInv, SignalChildRunInv,
     AsideChildRunInv
  DEF ChildRunNext, MainStep

\* ChildRunInv is inductive.
THEOREM ChildRunInvHolds == ChildRunSpec => []ChildRunInv
  BY InitChildRunInv, NextChildRunInv, PTL DEF ChildRunSpec

\* No command run through the runner ends as if it had not been signalled, for
\* any number of commands and signals, however the signal falls between the
\* installation and the removal of the handlers, and whatever child and
\* watchers do (stream.rs:287-403, runner.rs:586-589).
THEOREM SignalsAreNotSwallowed == ChildRunSpec => []NoSignalIsSwallowed
  <1>1. ChildRunInv => NoSignalIsSwallowed
    BY DEF ChildRunInv, SurvivedIsRemembered, NoSignalIsSwallowed, Alive
  <1> QED
    BY <1>1, ChildRunInvHolds, PTL

(***************************************************************************)
(* Every wait is watched                                                   *)
(***************************************************************************)

\* The main thread waits for the child, or for its pipes, under a watcher of
\* this very run that has not given up; the one wait after the relay was
\* dropped is the child's guard when printing failed.
WaitsAreWatched ==
    /\ mode # "passthrough" /\ pc \in {"read", "join", "wait"}
          => ~finished /\ watcher[run] \in {"poll", "grace", "last"}
    /\ pc \in {"drop", "restore"} /\ child[run] = "running" => failed

WatchTypeOK ==
    /\ finished \in BOOLEAN /\ failed \in BOOLEAN
    /\ child \in [Runs -> {"none", "running", "dead", "reaped"}]
    /\ watcher \in [Runs -> {"none", "poll", "grace", "last", "gone"}]

\* A run gets its watcher once its handlers are set, and keeps it until they
\* are dropped: an earlier run's watcher is not taken for it.
WatchInv ==
    /\ WatchTypeOK
    /\ WaitsAreWatched
    /\ \A r \in Runs :
          r > run \/ (r = run /\ pc \in {"spawn", "install", "handle"}) => watcher[r] = "none"
    /\ pc = "handle" => ~finished
    /\ watcher[run] \in {"grace", "last"} => relayed # NoSig
    /\ pc \in {"report", "drop", "restore", "print", "die"} /\ ~failed => child[run] = "reaped"

LEMMA InitWatchInv == ChildRunInit => WatchInv
  <1>1. 1 \in Runs
    BY ChildRunAssumption DEF Runs
  <1> QED
    BY <1>1 DEF ChildRunInit, WatchInv, WatchTypeOK, WaitsAreWatched

\* The main thread's steps, up to the next command.
LEMMA MainWatchInv ==
    ASSUME ChildRunInv, WatchInv,
           \/ MainStep /\ ~Die
           \/ ReadBroken \/ JoinAtLine \/ PrintFails
    PROVE  WatchInv'
  <1>0. run \in Runs /\ Runs \subseteq Nat
    BY DEF ChildRunInv, ChildRunTypeOK, Runs
  <1>1. ASSUME UNCHANGED <<run, mode, relayed, finished, watcher, failed, child>>,
               \/ pc' = pc
               \/ pc \in {"read", "join"} /\ pc' \in {"join", "wait"}
               \/ pc = "report" /\ pc' = "drop"
               \/ pc = "print" /\ pc' = "die"
        PROVE  WatchInv'
    BY <1>0, <1>1 DEF WatchInv, WatchTypeOK, WaitsAreWatched
  <1>2. CASE Handle \/ PutBack \/ ReadToEnd \/ JoinAtEnd \/ Report \/ Restore \/ PrintOut
             \/ ReadBroken \/ JoinAtLine
    BY <1>1, <1>2
    DEF Handle, PutBack, ReadToEnd, JoinAtEnd, Report, Restore, PrintOut, ReadBroken,
        JoinAtLine, Main, Flags, Others
  <1>3. CASE Spawn
    BY <1>0, <1>3
    DEF Spawn, Main, Flags, Others, WatchInv, WatchTypeOK, WaitsAreWatched
  <1>4. CASE Install
    BY <1>0, <1>4
    DEF Install, Main, Others, WatchInv, WatchTypeOK, WaitsAreWatched
  <1>5. CASE Watch
    BY <1>0, <1>5
    DEF Watch, Main, Flags, WatchInv, WatchTypeOK, WaitsAreWatched
  <1>6. CASE PrintFails
    BY <1>0, <1>6
    DEF PrintFails, Main, Flags, Others, WatchInv, WatchTypeOK, WaitsAreWatched
  <1>7. CASE Wait
    BY <1>0, <1>7
    DEF Wait, Main, Flags, Others, WatchInv, WatchTypeOK, WaitsAreWatched
  <1>8. CASE Drop
    BY <1>0, <1>8
    DEF Drop, Main, Others, WatchInv, WatchTypeOK, WaitsAreWatched
  <1>9. CASE Guarded
    BY <1>0, <1>9
    DEF Guarded, Main, Flags, Others, WatchInv, WatchTypeOK, WaitsAreWatched
  <1> QED
    BY <1>2, <1>3, <1>4, <1>5, <1>6, <1>7, <1>8, <1>9 DEF MainStep

LEMMA DieWatchInv ==
    ASSUME ChildRunInv, WatchInv, Die
    PROVE  WatchInv'
  <1>0. run \in Runs /\ Runs \subseteq Nat
    BY DEF ChildRunInv, ChildRunTypeOK, Runs
  <1>1. /\ pc = "die" /\ UNCHANGED <<relayed, finished, child, watcher, failed>>
        /\ \/ UNCHANGED <<run, mode, pc>>
           \/ run < MaxRuns /\ run' = run + 1 /\ pc' = "spawn"
    BY DEF Die, Main, Flags, Others
  <1>2. CASE UNCHANGED <<run, mode, pc>>
    BY <1>0, <1>1, <1>2 DEF WatchInv, WatchTypeOK, WaitsAreWatched
  <1>3. CASE run < MaxRuns /\ run' = run + 1 /\ pc' = "spawn"
    <2>1. run' \in Runs /\ run' > run
      BY <1>0, <1>3, ChildRunAssumption DEF Runs
    <2>2. watcher'[run'] = "none"
      BY <1>1, <2>1 DEF WatchInv
    <2> QED
      BY <1>0, <1>1, <1>3, <2>1, <2>2 DEF WatchInv, WatchTypeOK, WaitsAreWatched
  <1> QED
    BY <1>1, <1>2, <1>3

\* A signal does not touch the watchers; the child may end.
LEMMA SignalWatchInv ==
    ASSUME WatchInv, \/ \E s \in Sigs : Signal(s)
                     \/ HeirEnds \/ UNCHANGED childVars
    PROVE  WatchInv'
  <1>1. /\ UNCHANGED <<run, mode, pc, finished, child, watcher, failed>>
        /\ relayed # NoSig => relayed' # NoSig
    BY DEF Signal, Sigs, NoSig, HeirEnds, Setting, Flags, Others, childVars
  <1> QED
    BY <1>1 DEF WatchInv, WatchTypeOK, WaitsAreWatched

LEMMA ChildEndsWatchInv ==
    ASSUME ChildRunInv, WatchInv, ChildEnds
    PROVE  WatchInv'
  <1>1. run \in Runs
    BY DEF ChildRunInv, ChildRunTypeOK
  <1> QED
    BY <1>1
    DEF ChildEnds, Flags, Others, WatchInv, WatchTypeOK, WaitsAreWatched

\* A watcher gives up only when it sees that its run, or a later one, has
\* finished, or finds no signal to raise, which the watcher of the current run
\* never does; and it leaves a child that was waited for alone.
LEMMA WatcherWatchInv ==
    ASSUME ChildRunInv, WatchInv, NEW r \in Runs, WatcherStep(r)
    PROVE  WatchInv'
  <1>0. run \in Runs
    BY DEF ChildRunInv, ChildRunTypeOK
  <1>1. /\ UNCHANGED <<run, mode, pc, relayed, finished, failed>>
        /\ watcher[r] \in {"poll", "grace", "last"}
    BY DEF WatcherStep, Poll, KillChild, GiveUpRun, Flags
  <1>2. \/ watcher' = watcher
        \/ watcher' = [watcher EXCEPT ![r] = "gone"] /\ (r = run => finished)
        \/ /\ \E w \in {"grace", "last"} : watcher' = [watcher EXCEPT ![r] = w]
           /\ r = run => relayed # NoSig
    BY DEF WatcherStep, Poll, KillChild, GiveUpRun, LastResort, WatchInv
  <1>3. \/ child' = child
        \/ child[r] = "running" /\ child' = [child EXCEPT ![r] = "dead"]
    BY DEF WatcherStep, Poll, KillChild, GiveUpRun, WatchInv, WatchTypeOK
  <1>4. child' \in [Runs -> {"none", "running", "dead", "reaped"}]
    BY <1>3 DEF WatchInv, WatchTypeOK
  <1>5. \A s \in Runs : /\ child[s] = "reaped" => child'[s] = "reaped"
                        /\ child'[s] = "running" => child[s] = "running"
    BY <1>3 DEF WatchInv, WatchTypeOK
  <1>6. /\ watcher' \in [Runs -> {"none", "poll", "grace", "last", "gone"}]
        /\ \A s \in Runs :
              /\ watcher[s] = "none" => watcher'[s] = "none"
              /\ ~finished /\ s = run /\ watcher[s] \in {"poll", "grace", "last"}
                    => watcher'[s] \in {"poll", "grace", "last"}
        /\ watcher'[run] \in {"grace", "last"} => relayed # NoSig
    BY <1>0, <1>1, <1>2 DEF WatchInv, WatchTypeOK
  <1> QED
    BY <1>0, <1>1, <1>4, <1>5, <1>6 DEF WatchInv, WatchTypeOK, WaitsAreWatched

LEMMA NextWatchInv == ChildRunInv /\ WatchInv /\ [ChildRunNext]_childVars => WatchInv'
  BY MainWatchInv, DieWatchInv, SignalWatchInv, ChildEndsWatchInv, WatcherWatchInv
  DEF ChildRunNext

\* Whenever ptk is blocked on a child it started, or on pipes a grandchild
\* holds open, the watcher of that run is there to kill the child and then
\* ptk, for any number of commands and whatever watchers earlier runs left
\* behind.  Only a failed print leaves ptk waiting alone; a passthrough, which
\* has neither relay nor watcher, waits for its child as a shell does
\* (stream.rs:303-324, 346-403, 430-449 and 570).
THEOREM NoWaitIsUnwatched == ChildRunSpec => []WaitsAreWatched
  <1>1. ChildRunInv /\ WatchInv => WaitsAreWatched
    BY DEF WatchInv
  <1>2. ChildRunSpec => []WatchInv
    BY InitWatchInv, NextWatchInv, ChildRunInvHolds, PTL DEF ChildRunSpec
  <1> QED
    BY <1>1, <1>2, ChildRunInvHolds, PTL

(***************************************************************************)
(* Starting the daemon                                                     *)
(***************************************************************************)

Places == {"idle", "probe", "spawn", "await", "up", "down", "done"}

Launched ==
    [pc : Places, existing : {"unset", "proxy", "other"},
     route : {"unset", "proxy", "other"}, served : BOOLEAN]

StartsTypeOK ==
    /\ port \in Launchers \cup {Free, Stranger}
    /\ role \in [Launchers -> Roles]
    /\ launch \in [Launchers -> Launched]

\* While a launcher runs, a daemon at the port is one that served meanwhile.
ServedIsSeen == port \in Launchers => \A p \in Launchers : Active(p) => launch[p].served

\* A launcher that found the proxy, or routes to it, had one serve.
FoundServed(l) == l.pc = "up" \/ (l.pc = "done" /\ l.route = "proxy") => l.served

\* Only an agent inherits a base URL; the others have no route.
StartsInv ==
    /\ StartsTypeOK
    /\ ServedIsSeen
    /\ \A p \in Launchers : role[p] = "agent" \/ launch[p].pc = "up" => FoundServed(launch[p])

LEMMA InitStartsInv == StartsInit => StartsInv
  BY StartsAssumption
  DEF StartsInit, StartsInv, StartsTypeOK, ServedIsSeen, FoundServed, Launched, Places,
      Unlaunched, Active

\* Who takes the port is seen by all who are being launched.
LEMMA PortStartsInv ==
    ASSUME StartsInv,
           \/ \E d \in Launchers : Bind(d) \/ Stops(d) \/ DaemonDies(d)
           \/ StrangerComes \/ StrangerLeaves
    PROVE  StartsInv'
  <1> USE DEF StartsInv, StartsTypeOK
  <1>1. ASSUME NEW d \in Launchers, Bind(d), port = Free PROVE StartsInv'
    <2>1. /\ port' = d /\ UNCHANGED role
          /\ launch' = [p \in Launchers |-> [launch[p] EXCEPT !.served = @ \/ Active(p)]]
      BY <1>1 DEF Bind
    <2>2. \A p \in Launchers :
              /\ launch'[p] \in Launched
              /\ launch'[p].pc = launch[p].pc /\ launch'[p].route = launch[p].route
              /\ launch[p].served => launch'[p].served
              /\ Active(p) => launch'[p].served
      BY <2>1 DEF Launched, Active
    <2> QED
      BY <2>1, <2>2 DEF ServedIsSeen, FoundServed, Active
  <1>2. CASE /\ UNCHANGED <<launch, role>>
             /\ port' = port \/ port' \in {Free, Stranger}
    BY <1>2, StartsAssumption DEF ServedIsSeen, FoundServed, Active
  <1> QED
    BY <1>1, <1>2 DEF Bind, Stops, DaemonDies, StrangerComes, StrangerLeaves

\* A launcher p turns into l, with the port as it is.
LEMMA LaunchedStartsInv ==
    ASSUME StartsInv, NEW p \in Launchers, NEW l \in Launched,
           UNCHANGED <<port, role>>, launch' = [launch EXCEPT ![p] = l],
           port \in Launchers /\ l.pc \notin {"idle", "done"} => l.served,
           role[p] = "agent" \/ l.pc = "up" => FoundServed(l)
    PROVE  StartsInv'
  BY DEF StartsInv, StartsTypeOK, ServedIsSeen, FoundServed, Active

LEMMA LauncherStartsInv ==
    ASSUME StartsInv, NEW p \in Launchers,
           Launch(p) \/ LauncherStep(p)
    PROVE  StartsInv'
  <1>0. /\ launch[p] \in Launched /\ launch \in [Launchers -> Launched]
        /\ port \in Launchers /\ Active(p) => launch[p].served
        /\ role[p] = "agent" \/ launch[p].pc = "up" => FoundServed(launch[p])
    BY DEF StartsInv, StartsTypeOK, ServedIsSeen
  <1>1. CASE Launch(p)
    <2>1. PICK url \in {"unset", "proxy", "other"} :
              launch' = [launch EXCEPT ![p] = [pc |-> "probe", existing |-> url,
                                               route |-> url, served |-> port \in Launchers]]
      BY <1>1 DEF Launch
    <2> DEFINE serves == port \in Launchers
               l == [pc |-> "probe", existing |-> url, route |-> url, served |-> serves]
    <2>2. l \in Launched /\ l.pc = "probe" /\ (port \in Launchers => l.served)
      <3>1. serves \in BOOLEAN /\ (port \in Launchers => serves)
        OBVIOUS
      <3> HIDE DEF serves
      <3> QED
        BY <3>1 DEF Launched, Places
    <2> QED
      BY <1>1, <2>1, <2>2, LaunchedStartsInv DEF FoundServed, Launch
  <1>2. ASSUME NEW at \in {"spawn", "down", "await", "up"}, Goes(p, at), Active(p),
               UNCHANGED <<port, role>>, at = "up" => Healthy
        PROVE  StartsInv'
    <2> DEFINE l == [launch[p] EXCEPT !.pc = at]
    <2>1. /\ l \in Launched /\ l.pc = at /\ l.served = launch[p].served
          /\ launch' = [launch EXCEPT ![p] = l]
      BY <1>0, <1>2 DEF Launched, Places, Goes
    <2> QED
      BY <1>0, <1>2, <2>1, LaunchedStartsInv DEF FoundServed, Healthy
  <1>3. CASE \/ Probe(p) \/ SpawnFails(p) \/ SpawnDaemon(p) \/ Answered(p) \/ Deadline(p)
    BY <1>2, <1>3 DEF Probe, SpawnFails, SpawnDaemon, Answered, Deadline, Active
  <1>4. CASE SpawnStart(p)
    <2>1. PICK q \in Launchers :
              /\ launch[p].pc = "spawn" /\ launch[q].pc = "idle" /\ role[q] = "start"
              /\ role[p] = "hook"
              /\ launch' = [launch EXCEPT ![p].pc = "await",
                                 ![q] = [Unlaunched EXCEPT !.pc = "probe",
                                                           !.served = port \in Launchers]]
      BY <1>4 DEF SpawnStart
    <2> DEFINE l == [launch[p] EXCEPT !.pc = "await"]
               serves == port \in Launchers
               m == [Unlaunched EXCEPT !.pc = "probe", !.served = serves]
    <2>2. /\ l \in Launched /\ l.pc = "await" /\ l.served = launch[p].served
          /\ m \in Launched /\ m.pc = "probe" /\ (port \in Launchers => m.served)
      <3>1. serves \in BOOLEAN /\ (port \in Launchers => serves)
        OBVIOUS
      <3> HIDE DEF serves
      <3> QED
        BY <1>0, <3>1 DEF Launched, Places, Unlaunched
    <2>3. \A r \in Launchers :
              launch'[r] = IF r = q THEN m ELSE IF r = p THEN l ELSE launch[r]
      BY <1>0, <2>1
    <2>4. launch' \in [Launchers -> Launched] /\ UNCHANGED <<port, role>>
      BY <1>0, <1>4, <2>1, <2>2, <2>3 DEF SpawnStart
    <2>5. launch[p].served \/ port \notin Launchers
      BY <1>0, <2>1 DEF Active
    <2> HIDE DEF l, m
    <2> QED
      BY <2>1, <2>2, <2>3, <2>4, <2>5
      DEF StartsInv, StartsTypeOK, ServedIsSeen, FoundServed, Active
  <1>5. CASE Finish(p)
    <2> DEFINE up == launch[p].pc = "up"
               route == IF role[p] = "agent" THEN Plan(launch[p].existing, up)
                        ELSE launch[p].route
               l == [launch[p] EXCEPT !.pc = "done", !.route = route]
    <2>1. /\ launch[p].pc \in {"up", "down"} /\ UNCHANGED <<port, role>>
          /\ launch' = [launch EXCEPT ![p] = l]
      BY <1>0, <1>5 DEF Finish
    <2>2. Plan(launch[p].existing, up) \in {"unset", "proxy", "other"}
          /\ (Plan(launch[p].existing, up) = "proxy" => up)
      BY DEF Plan
    <2>3. route \in {"unset", "proxy", "other"} /\ (role[p] = "agent" /\ route = "proxy" => up)
      BY <1>0, <2>2 DEF Launched
    <2> HIDE DEF route
    <2>4. l \in Launched /\ l.pc = "done" /\ l.route = route /\ l.served = launch[p].served
      BY <1>0, <2>3 DEF Launched, Places
    <2> QED
      BY <1>0, <2>1, <2>3, <2>4, LaunchedStartsInv DEF FoundServed
  <1> QED
    BY <1>1, <1>3, <1>4, <1>5 DEF LauncherStep

LEMMA NextStartsInv == StartsInv /\ [StartsNext]_startsVars => StartsInv'
  <1>1. StartsInv /\ UNCHANGED startsVars => StartsInv'
    BY DEF startsVars, StartsInv, StartsTypeOK, ServedIsSeen, FoundServed, Active
  <1> QED
    BY <1>1, PortStartsInv, LauncherStartsInv DEF StartsNext

\* StartsInv is inductive.
THEOREM StartsInvHolds == StartsSpec => []StartsInv
  BY InitStartsInv, NextStartsInv, PTL DEF StartsSpec

\* An agent is routed to the proxy only if a daemon of ptk served there while
\* it was being launched, for any number of launchers, whichever of their
\* daemons got the port and whatever became of it
\* (llm_proxy.rs:569-574, 667-674 and 807-850).
THEOREM RoutesEarned == StartsSpec => []RoutesAreEarned
  <1>1. StartsInv => RoutesAreEarned
    BY DEF StartsInv, FoundServed, RoutesAreEarned
  <1> QED
    BY <1>1, StartsInvHolds, PTL
(***************************************************************************)
(* Launchers only go forward                                               *)
(***************************************************************************)

Turn == [idle |-> 0, probe |-> 1, spawn |-> 2, await |-> 3, up |-> 4, down |-> 4, done |-> 5]

\* Every step of a launcher is a turn of its own, and there are five of them:
\* no answer, no failed spawn and no daemon that comes or goes sends it back
\* to probe or to spawn again, and nobody else's step moves it, except that a
\* hook calls it up (llm_proxy.rs:667-680 and 807-850, session_start.rs:44-60).
THEOREM LaunchesAdvance ==
    StartsSpec => [][\A p \in Launchers :
                        /\ launch'[p].pc # launch[p].pc
                              => Turn[launch'[p].pc] > Turn[launch[p].pc]
                        /\ LauncherStep(p) => launch'[p].pc # launch[p].pc]_startsVars
  <1> DEFINE Forward(p) == Turn[launch'[p].pc] > Turn[launch[p].pc]
  <1>1. ASSUME StartsInv, NEW p \in Launchers, NEW from \in Places, NEW to \in Places,
               launch[p].pc = from, Goes(p, to), Turn[to] > Turn[from]
        PROVE  /\ Forward(p) /\ launch'[p].pc # launch[p].pc
               /\ \A q \in Launchers \ {p} : launch'[q] = launch[q]
    BY <1>1 DEF StartsInv, StartsTypeOK, Launched, Places, Goes, Turn
  <1>2. ASSUME StartsInv, NEW p \in Launchers, Launch(p) \/ LauncherStep(p)
        PROVE  /\ Forward(p) /\ launch'[p].pc # launch[p].pc
               /\ \A q \in Launchers \ {p} :
                     launch'[q] = launch[q] \/ (launch[q].pc = "idle" /\ launch'[q].pc = "probe")
    <2> USE DEF Turn
    <2>0. launch \in [Launchers -> Launched] /\ launch[p] \in Launched
      BY <1>2 DEF StartsInv, StartsTypeOK
    <2>1. CASE Launch(p)
      BY <2>0, <2>1 DEF Launch
    <2>2. CASE \/ Probe(p) \/ SpawnFails(p) \/ SpawnDaemon(p) \/ Answered(p) \/ Deadline(p)
      BY <1>1, <1>2, <2>2
      DEF Probe, SpawnFails, SpawnDaemon, Answered, Deadline, Places
    <2>3. CASE SpawnStart(p)
      <3>1. PICK q \in Launchers :
                /\ launch[p].pc = "spawn" /\ launch[q].pc = "idle"
                /\ launch' = [launch EXCEPT ![p].pc = "await",
                                 ![q] = [Unlaunched EXCEPT !.pc = "probe",
                                                           !.served = port \in Launchers]]
        BY <2>3 DEF SpawnStart
      <3>2. launch'[p].pc = "await" /\ launch'[q].pc = "probe"
        BY <2>0, <3>1 DEF Launched, Unlaunched
      <3>3. \A s \in Launchers \ {p, q} : launch'[s] = launch[s]
        BY <2>0, <3>1
      <3>4. Forward(p) /\ launch'[p].pc # launch[p].pc
        BY <3>1, <3>2
      <3>5. ASSUME NEW s \in Launchers \ {p}
            PROVE  launch'[s] = launch[s] \/ (launch[s].pc = "idle" /\ launch'[s].pc = "probe")
        BY <3>1, <3>2, <3>3
      <3> QED
        BY <3>4, <3>5
    <2>4. CASE Finish(p)
      <3>1. launch'[p].pc = "done" /\ launch[p].pc \in {"up", "down"}
        BY <2>0, <2>4 DEF Finish, Launched
      <3>2. \A q \in Launchers \ {p} : launch'[q] = launch[q]
        BY <2>0, <2>4 DEF Finish
      <3> QED
        BY <3>1, <3>2
    <2> QED
      BY <1>2, <2>1, <2>2, <2>3, <2>4 DEF LauncherStep
  <1>3. ASSUME StartsInv, NEW d \in Launchers, Bind(d) \/ Stops(d) \/ DaemonDies(d),
               NEW p \in Launchers
        PROVE  launch'[p].pc = launch[p].pc
    <2>1. launch[p] \in Launched
      BY <1>3 DEF StartsInv, StartsTypeOK
    <2> QED
      BY <1>3, <2>1 DEF Bind, Stops, DaemonDies, Launched
  <1>4. StartsInv /\ [StartsNext]_startsVars =>
          [\A p \in Launchers :
              /\ launch'[p].pc # launch[p].pc => Forward(p)
              /\ LauncherStep(p) => launch'[p].pc # launch[p].pc]_startsVars
    <2> SUFFICES ASSUME StartsInv, StartsNext, NEW p \in Launchers
                 PROVE  /\ launch'[p].pc # launch[p].pc => Forward(p)
                        /\ LauncherStep(p) => launch'[p].pc # launch[p].pc
      OBVIOUS
    <2>1. ASSUME NEW q \in Launchers, Launch(q) \/ LauncherStep(q),
                 launch'[p].pc # launch[p].pc
          PROVE  Forward(p)
      BY <1>2, <2>1 DEF Turn
    <2>2. CASE StrangerComes \/ StrangerLeaves
      BY <1>2, <2>2 DEF StrangerComes, StrangerLeaves
    <2> QED
      BY <1>2, <1>3, <2>1, <2>2 DEF StartsNext
  <1> QED
    BY <1>4, StartsInvHolds, PTL DEF StartsSpec
=============================================================================
