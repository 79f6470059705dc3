------------------------------ MODULE ChildRun ------------------------------
(***************************************************************************)
(* Running a command and passing signals on to it (run_streaming and       *)
(* signal_relay of src/core/stream.rs, run of src/core/runner.rs).  The    *)
(* main thread spawns the child, reads its pipes to their end, waits for   *)
(* it and prints; a handler on whatever thread relays the first signal; a  *)
(* watcher thread per run kills the child, then ptk itself, if that was    *)
(* not enough.  Handler, watchers and main thread share three atomics.     *)
(*                                                                         *)
(* The child may end or not, whatever it is sent short of SIGKILL, and a   *)
(* process it started may keep its pipes open.                             *)
(***************************************************************************)
EXTENDS Naturals

CONSTANTS
    MaxRuns,         \* bound on the commands one ptk runs
    MaxSignals       \* bound on the signals ptk is sent

ASSUME ChildRunAssumption == MaxRuns \in Nat \ {0} /\ MaxSignals \in Nat

Runs == 1 .. MaxRuns
Sigs == {"INT", "TERM"}
NoSig == "none"

VARIABLES
    run,             \* the current run
    mode,            \* FilterMode: "streamed", "captured" (buffered or not printed),
                     \* "passthrough"
    pc,              \* the main thread
    todo,            \* the signals whose disposition it still has to set
    disposition,     \* [Sigs -> "default", "ignore", "relay"]
    ignored,         \* a disposition that was replaced and must be put back
    pid,             \* CHILD_PID, a run or 0
    relayed,         \* RELAYED
    finished,        \* FINISHED
    child,           \* [Runs -> "none", "running", "dead", "reaped"]
    heir,            \* another process holds the child's pipes
    watcher,         \* [Runs -> "none", "poll", "grace", "last", "gone"]
    fate,            \* "alive", "exited", "killed"
    signals,         \* how many signals were sent
    viaRunner,       \* runner::run made the call, not a command by itself
    heard,           \* ghost: a signal reached ptk that it does not ignore
    failed           \* ghost: printing failed

childVars == <<run, mode, pc, todo, disposition, ignored, pid, relayed, finished,
               child, heir, watcher, fate, signals, viaRunner, heard, failed>>

Alive == fate = "alive"
Main(at) == Alive /\ pc = at

\* What the main thread does not touch.
Others == <<watcher, signals, viaRunner, heard>>
Flags == <<pid, relayed, finished>>
Setting == <<todo, disposition, ignored>>

(***************************************************************************)
(* The main thread                                                         *)
(***************************************************************************)

\* A passthrough has neither pipes nor a relay.
Spawn ==
    /\ Main("spawn")
    /\ child' = [child EXCEPT ![run] = "running"]
    /\ heir' \in BOOLEAN
    /\ pc' = IF mode = "passthrough" THEN "wait" ELSE "install"
    /\ UNCHANGED <<run, mode, Setting, Flags, Others, fate, failed>>

\* Relay::install: the atomics, then the handlers.
Install ==
    /\ Main("install")
    /\ pid' = run /\ relayed' = NoSig /\ finished' = FALSE
    /\ todo' = Sigs
    /\ pc' = "handle"
    /\ UNCHANGED <<run, mode, disposition, ignored, child, heir, Others, fate, failed>>

\* signal(sig, relay), or SIG_DFL when the relay is dropped; the call tells
\* what it replaced ...
Replace(with) ==
    /\ ignored = NoSig
    /\ \E s \in todo :
          /\ disposition' = [disposition EXCEPT ![s] = with]
          /\ ignored' = IF disposition[s] = "ignore" THEN s ELSE NoSig
          /\ todo' = todo \ {s}

\* ... and an inherited SIG_IGN is put back.
PutBack ==
    /\ Alive /\ ignored # NoSig
    /\ disposition' = [disposition EXCEPT ![ignored] = "ignore"]
    /\ ignored' = NoSig
    /\ UNCHANGED <<run, mode, pc, todo, Flags, child, heir, Others, fate, failed>>

Handle ==
    /\ Main("handle") /\ Replace("relay")
    /\ UNCHANGED <<run, mode, pc, Flags, child, heir, Others, fate, failed>>

\* The watcher thread starts; the pipes are read.
Watch ==
    /\ Main("handle") /\ todo = {} /\ ignored = NoSig
    /\ watcher' = [watcher EXCEPT ![run] = "poll"]
    /\ pc' = "read"
    /\ UNCHANGED <<run, mode, Setting, Flags, child, heir, signals, viaRunner, heard,
                   fate, failed>>

\* Both pipes end once nobody holds them.
Closed == child[run] # "running" /\ ~heir

ReadToEnd ==
    /\ Main("read") /\ Closed
    /\ pc' = "wait"
    /\ UNCHANGED <<run, mode, Setting, Flags, child, heir, Others, fate, failed>>

\* The reader of ptk's own output is gone: the channel is dropped ...
ReadBroken ==
    /\ Main("read") /\ mode = "streamed"
    /\ pc' = "join"
    /\ UNCHANGED <<run, mode, Setting, Flags, child, heir, Others, fate, failed>>

\* ... and the reader threads end with the pipes, or with the next line.
JoinAtEnd ==
    /\ Main("join") /\ Closed
    /\ pc' = "wait"
    /\ UNCHANGED <<run, mode, Setting, Flags, child, heir, Others, fate, failed>>

JoinAtLine ==
    /\ Main("join") /\ ~Closed
    /\ pc' = "wait"
    /\ UNCHANGED <<run, mode, Setting, Flags, child, heir, Others, fate, failed>>

\* Printing fails otherwise: run_streaming returns early, and its guards drop
\* the relay before they wait for the child.
PrintFails ==
    /\ Main("read") \/ (Main("report") /\ mode = "streamed")
    /\ failed' = TRUE
    /\ pc' = "drop"
    /\ UNCHANGED <<run, mode, Setting, Flags, child, heir, Others, fate>>

\* child.wait()
Wait ==
    /\ Main("wait") /\ child[run] # "running"
    /\ child' = [child EXCEPT ![run] = "reaped"]
    /\ pc' = IF mode = "passthrough" THEN "die" ELSE "report"
    /\ UNCHANGED <<run, mode, Setting, Flags, heir, Others, fate, failed>>

\* on_exit: the filter's last word.
Report ==
    /\ Main("report")
    /\ pc' = "drop"
    /\ UNCHANGED <<run, mode, Setting, Flags, child, heir, Others, fate, failed>>

\* Drop for Relay: the atomics, then the handlers; RELAYED is left.
Drop ==
    /\ Main("drop")
    /\ finished' = TRUE /\ pid' = 0
    /\ todo' = Sigs
    /\ pc' = "restore"
    /\ UNCHANGED <<run, mode, relayed, disposition, ignored, child, heir, Others, fate,
                   failed>>

Restore ==
    /\ Main("restore") /\ Replace("default")
    /\ UNCHANGED <<run, mode, pc, Flags, child, heir, Others, fate, failed>>

\* The child's guard waits, unless it was waited for.
Guarded ==
    /\ Main("restore") /\ todo = {} /\ ignored = NoSig /\ child[run] # "running"
    /\ child' = [child EXCEPT ![run] = "reaped"]
    /\ pc' = "print"
    /\ UNCHANGED <<run, mode, Setting, Flags, heir, Others, fate, failed>>

\* The caller filters, prints and tracks.
PrintOut ==
    /\ Main("print")
    /\ pc' = "die"
    /\ UNCHANGED <<run, mode, Setting, Flags, child, heir, Others, fate, failed>>

\* Mutant: nobody looks at the relayed signal any more.
MustNotDie == FALSE

\* die_by_relayed_signal: only runner::run calls it.
MustDie == viaRunner /\ relayed # NoSig

\* ptk dies, exits with the child's code, or runs another command.
Die ==
    /\ Main("die")
    /\ \/ MustDie /\ fate' = "killed" /\ UNCHANGED <<run, mode, pc>>
       \/ ~MustDie /\ fate' = "exited" /\ UNCHANGED <<run, mode, pc>>
       \/ /\ ~MustDie /\ run < MaxRuns
          /\ run' = run + 1 /\ pc' = "spawn"
          /\ mode' \in {"streamed", "captured", "passthrough"}
          /\ UNCHANGED fate
    /\ UNCHANGED <<Setting, Flags, child, heir, Others, failed>>

(***************************************************************************)
(* Signals and watchers                                                    *)
(***************************************************************************)

\* The handler dies of a signal it cannot relay, or of the second one.
Signal(s) ==
    /\ Alive /\ signals < MaxSignals
    /\ signals' = signals + 1
    /\ heard' = (heard \/ disposition[s] # "ignore")
    /\ CASE disposition[s] = "ignore" -> UNCHANGED <<relayed, fate>>
         [] disposition[s] = "relay" /\ pid # 0 /\ relayed = NoSig ->
               relayed' = s /\ UNCHANGED fate
         [] OTHER -> fate' = "killed" /\ UNCHANGED relayed
    /\ UNCHANGED <<run, mode, pc, Setting, pid, finished, child, heir, watcher, viaRunner,
                   failed>>

\* The watcher's poll: it may miss that its own run finished.
Poll(r) ==
    /\ Alive /\ watcher[r] = "poll" /\ (finished \/ relayed # NoSig)
    /\ watcher' = [watcher EXCEPT ![r] = IF finished THEN "gone" ELSE "grace"]
    /\ UNCHANGED <<run, mode, pc, Setting, Flags, child, heir, fate, signals, viaRunner,
                   heard, failed>>

\* escalate, after KILL_GRACE.
KillChild(r) ==
    /\ Alive /\ watcher[r] = "grace"
    /\ IF finished
       THEN watcher' = [watcher EXCEPT ![r] = "gone"] /\ UNCHANGED child
       ELSE /\ watcher' = [watcher EXCEPT ![r] = "last"]
            /\ child' = [child EXCEPT ![r] = IF @ = "running" THEN "dead" ELSE @]
    /\ UNCHANGED <<run, mode, pc, Setting, Flags, heir, fate, signals, viaRunner, heard,
                   failed>>

\* Mutant: killing the child is the watcher's last resort.
LastResortChild(r) ==
    /\ watcher' = [watcher EXCEPT ![r] = "gone"]
    /\ UNCHANGED fate

\* ... and after EXIT_GRACE: ptk itself, by the signal in RELAYED.  A watcher of
\* an earlier run may find none there, and raising none does nothing.
LastResort(r) ==
    IF finished \/ relayed = NoSig
    THEN watcher' = [watcher EXCEPT ![r] = "gone"] /\ UNCHANGED fate
    ELSE fate' = "killed" /\ UNCHANGED watcher

GiveUpRun(r) ==
    /\ Alive /\ watcher[r] = "last"
    /\ LastResort(r)
    /\ UNCHANGED <<run, mode, pc, Setting, Flags, child, heir, signals, viaRunner, heard,
                   failed>>

(***************************************************************************)
(* The child                                                               *)
(***************************************************************************)

ChildEnds ==
    /\ Alive /\ child[run] = "running"
    /\ child' = [child EXCEPT ![run] = "dead"]
    /\ UNCHANGED <<run, mode, pc, Setting, Flags, heir, Others, fate, failed>>

HeirEnds ==
    /\ Alive /\ heir
    /\ heir' = FALSE
    /\ UNCHANGED <<run, mode, pc, Setting, Flags, child, Others, fate, failed>>

(***************************************************************************)
(* Specification                                                           *)
(***************************************************************************)

ChildRunInit ==
    /\ run = 1 /\ mode \in {"streamed", "captured", "passthrough"} /\ pc = "spawn"
    /\ todo = {} /\ disposition \in [Sigs -> {"default", "ignore"}] /\ ignored = NoSig
    /\ pid = 0 /\ relayed = NoSig /\ finished = FALSE
    /\ child = [r \in Runs |-> "none"] /\ heir = FALSE
    /\ watcher = [r \in Runs |-> "none"]
    /\ fate = "alive" /\ signals = 0 /\ viaRunner \in BOOLEAN
    /\ heard = FALSE /\ failed = FALSE

MainStep ==
    \/ Spawn \/ Install \/ Handle \/ PutBack \/ Watch
    \/ ReadToEnd \/ JoinAtEnd \/ Wait \/ Report \/ Drop \/ Restore \/ Guarded
    \/ PrintOut \/ Die

WatcherStep(r) == Poll(r) \/ KillChild(r) \/ GiveUpRun(r)

ChildRunNext ==
    \/ MainStep
    \/ ReadBroken \/ JoinAtLine \/ PrintFails
    \/ \E s \in Sigs : Signal(s)
    \/ \E r \in Runs : WatcherStep(r)
    \/ ChildEnds \/ HeirEnds

\* A thread that can go on does, and a sleep ends.  Nothing makes the child
\* or its heirs end, or a signal come.
Threads == WF_childVars(MainStep) /\ \A r \in Runs : WF_childVars(WatcherStep(r))

ChildRunSpec == ChildRunInit /\ [][ChildRunNext]_childVars /\ Threads

(***************************************************************************)
(* Properties                                                              *)
(***************************************************************************)

\* A command run through the runner never ends as if it had not been
\* signalled: a signal that ptk does not ignore kills it in the end, whatever
\* the child made of it (stream.rs:287-403, runner.rs:586-589).
NoSignalIsSwallowed == viaRunner /\ fate = "exited" => ~heard

\* A relayed signal ends ptk however stubborn the child is and whoever holds
\* its pipes, unless printing fails first (stream.rs:303-324).
SignalsEndTheRun == viaRunner /\ relayed # NoSig ~> ~Alive \/ failed
=============================================================================
