---------------------------- MODULE MCProcesses ----------------------------
(***************************************************************************)
(* Running a child, starting the daemon, and the exchanges the daemon      *)
(* relays, model-checked side by side.  The three have no state in common: *)
(* a behaviour is one of `part`, and the others are over from the          *)
(* beginning, or have nothing to do yet.                                   *)
(***************************************************************************)
EXTENDS ChildRun, Starts, Relay

VARIABLE part

ChildIsOver ==
    /\ run = 1 /\ mode = "passthrough" /\ pc = "die"
    /\ todo = {} /\ disposition = [s \in Sigs |-> "default"] /\ ignored = NoSig
    /\ pid = 0 /\ relayed = NoSig /\ finished = FALSE
    /\ child = [r \in Runs |-> "none"] /\ heir = FALSE
    /\ watcher = [r \in Runs |-> "none"]
    /\ fate = "exited" /\ signals = 0 /\ viaRunner = FALSE
    /\ heard = FALSE /\ failed = FALSE

StartsAreOver ==
    /\ port = Stranger
    /\ daemon = [d \in Launchers |-> "gone"]
    /\ role = [p \in Launchers |-> "start"]
    /\ launch = [p \in Launchers |-> [Unlaunched EXCEPT !.pc = "done"]]

ProcessesInit ==
    /\ Init
    /\ \/ part = "child" /\ ChildRunInit /\ StartsAreOver
       \/ part = "starts" /\ ChildIsOver /\ StartsInit
       \/ part = "relay" /\ ChildIsOver /\ StartsAreOver

ProcessesNext ==
    \/ part = "child" /\ ChildRunNext /\ UNCHANGED <<part, startsVars, relayVars>>
    \/ part = "starts" /\ StartsNext /\ UNCHANGED <<part, childVars, relayVars>>
    \/ part = "relay" /\ Next /\ UNCHANGED <<part, childVars, startsVars>>

\* What is fair of each part; a fair step of one that rests is not enabled.
Fairness ==
    /\ Threads
    /\ Going
    /\ \A r \in Slots : WF_relayVars(Step(r))

ProcessesSpec ==
    /\ ProcessesInit
    /\ [][ProcessesNext]_<<part, childVars, startsVars, relayVars>>
    /\ Fairness
=============================================================================
