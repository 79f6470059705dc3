------------------------------ MODULE MCStores ------------------------------
(***************************************************************************)
(* The files and tables that processes of the CLI share, the gate of its   *)
(* hooks, and two parts of the daemon, its pin registry and its relay,     *)
(* model-checked side by side.  The parts have no state in common, so a    *)
(* behaviour is one of `part`; the others rest in a state they may start   *)
(* in.                                                                     *)
(***************************************************************************)
EXTENDS TeeFiles, RecallStore, RecallStats, HookGate, Pipelines, TrustStore, Installer,
        PinRegistry, Relay, TLC

VARIABLE part

p1 == "p1"
p2 == "p2"
TwoProcesses == {p1, p2}
TagOfProcess == p1 :> 0 @@ p2 :> 1
OneFilter == "a" :> "f" @@ "b" :> "f"

\* What sources yield: pinned, unpinned, with credential commands, invalid.
SomeFetches ==
    {[text |-> "t1", pin |-> "s1"], [text |-> "t2", pin |-> NoSha],
     [text |-> "t3", pin |-> NoSource], [text |-> "bad", pin |-> NoSha]}

(***************************************************************************)
(* Commands and settings files for the gate                                *)
(***************************************************************************)

Push == "push"
EnvPush == "env push"
Ls == "ls"
SomeReadings == {Push, EnvPush, Ls}

Plain(r) ==
    [written |-> r, peeled |-> {r}, complete |-> TRUE, shell |-> FALSE, script |-> {}]
Prefixed == [Plain(EnvPush) EXCEPT !.peeled = {EnvPush, Push}]
Unpeeled == [Plain(EnvPush) EXCEPT !.complete = FALSE]
Wrapped == [Plain(Ls) EXCEPT !.shell = TRUE, !.script = {Push}]
Nested == [Plain(EnvPush) EXCEPT !.script = {Push}]

Chains == {{Plain(Ls)}, {Prefixed}, {Wrapped}, {Nested}, {Plain(Push), Plain(Ls)},
           {Prefixed, Plain(Ls)}, {Unpeeled, Plain(Push)}}

SomeCommands ==
    {[segments |-> S, attestable |-> TRUE, rewrite |-> w] :
        S \in Chains, w \in {"none", "identity", "other"}}
    \cup {[segments |-> S, attestable |-> FALSE, rewrite |-> "other"] : S \in Chains}

SomeRules ==
    {NoRules, [NoRules EXCEPT !.deny = {{Push}}], [NoRules EXCEPT !.ask = {{Push}}],
     [NoRules EXCEPT !.allow = {{Ls}}], [NoRules EXCEPT !.allow = {{Push}, {EnvPush}}],
     [NoRules EXCEPT !.allow = {SomeReadings}, !.ask = {{EnvPush}}]}

SomeContents ==
    {[readable |-> TRUE, rules |-> rs] : rs \in SomeRules}
    \cup {[readable |-> FALSE, rules |-> NoRules]}

(***************************************************************************)
(* Settings files and pipelines for the installer                          *)
(***************************************************************************)

SomeNeeds == {"pre" :> "m1", "pre" :> "m2" @@ "post" :> "m1"}

Group(event, matcher, hooks) == [event |-> event, matcher |-> matcher, hooks |-> hooks]

\* None of PTK's, an older PTK's beside a hook of the user's, a present one's.
Untouched == [groups |-> <<>>, url |-> "foreign"]
SomeSettings ==
    {Untouched,
     [groups |-> <<Group("pre", "m1", {"legacy", "o"})>>, url |-> "ptk"],
     [groups |-> <<Group("pre", "m1", {"ptk", "o"}), Group("session", "none", {"ptk"})>>,
      url |-> "unset"]}

(***************************************************************************)
(* Specification                                                           *)
(***************************************************************************)

storesVars == <<part, teeVars, recallVars, statsVars, gateVars, pipeVars, trustVars,
                setupVars, pins, relayVars>>

StoresInit ==
    /\ part \in {"tee", "recall", "stats", "gate", "pipelines", "trust", "installer",
                "pins", "relay"}
    /\ TeeInit /\ (part # "tee" => site = "tee")
    /\ RecallInit
    /\ StatsInit
    /\ GateInit
    /\ part # "gate" => /\ owner = "ptk"
                        /\ command = [segments |-> {Plain(Ls)}, attestable |-> TRUE,
                                      rewrite |-> "none"]
                        /\ \A i \in DOMAIN files : ~files[i].readable
    /\ PipelinesInit
    /\ TrustInit /\ (part # "trust" => \A f \in DOMAIN gated : gated[f] = Missing)
    /\ InstallerInit /\ (part # "installer" => settings = Untouched)
    /\ PinInit
    /\ Init

StoresNext ==
    /\ part' = part
    /\ part # "tee" => UNCHANGED teeVars
    /\ part # "recall" => UNCHANGED recallVars
    /\ part # "stats" => UNCHANGED statsVars
    /\ part # "gate" => UNCHANGED gateVars
    /\ part # "pipelines" => UNCHANGED pipeVars
    /\ part # "trust" => UNCHANGED trustVars
    /\ part # "installer" => UNCHANGED setupVars
    /\ part # "pins" => UNCHANGED pins
    /\ part # "relay" => UNCHANGED relayVars
    /\ \/ part = "tee" /\ TeeNext
       \/ part = "recall" /\ RecallNext
       \/ part = "stats" /\ StatsNext
       \/ part = "gate" /\ GateNext
       \/ part = "pipelines" /\ PipelinesNext
       \/ part = "trust" /\ TrustNext
       \/ part = "installer" /\ InstallerNext
       \/ part = "pins" /\ PinNext
       \/ part = "relay" /\ Next

StoresSpec == StoresInit /\ [][StoresNext]_storesVars
=============================================================================
