------------------------------ MODULE HookGate ------------------------------
(***************************************************************************)
(* The permission gate of the shell hooks (src/hooks/permissions.rs and    *)
(* src/hooks/decision.rs): what a hook tells its agent to do with a shell  *)
(* command.  It reads the settings files one after the other, and the user *)
(* may edit them meanwhile; it judges the command against the rules it     *)
(* found, looks for a rewrite, and answers.                                *)
(*                                                                         *)
(* A reading is one way to read a segment of the command; a rule is the    *)
(* set of readings it matches, so Readings itself is the rule `*`.         *)
(***************************************************************************)
EXTENDS Naturals, FiniteSets, Sequences

CONSTANTS
    Readings,
    Commands,        \* the commands tried, see CommandOK
    Contents,        \* what the settings files may hold, see ContentOK
    Files            \* how many settings files there are

Segment ==
    [written : Readings,            \* the segment as written
     peeled : SUBSET Readings,      \* without its prefixes, matching_readings
     complete : BOOLEAN,            \* the peel reached the command itself
     shell : BOOLEAN,               \* it is a shell wrapper, or may be one
     script : SUBSET Readings]      \* what the scripts reached in it run

\* The order of the segments decides nothing, so they are a set.
CommandOK(c) ==
    /\ c.segments \subseteq Segment
    /\ c.attestable \in BOOLEAN
    /\ c.rewrite \in {"none", "identity", "other"}    \* rewrite_command

Rules == [deny : SUBSET SUBSET Readings, ask : SUBSET SUBSET Readings,
          allow : SUBSET SUBSET Readings]

NoRules == [deny |-> {}, ask |-> {}, allow |-> {}]

\* A file holds rules, none if it is missing or empty, or cannot be read or
\* parsed.
ContentOK(f) ==
    f \in [readable : BOOLEAN, rules : Rules] /\ (~f.readable => f.rules = NoRules)

ASSUME GateAssumption ==
    /\ \A c \in Commands : CommandOK(c)
    /\ \A f \in Contents : ContentOK(f)
    /\ Files \in Nat

Owners == {"ptk", "delegate"}

VARIABLES
    files,           \* the settings files
    command,         \* the command to judge
    owner,           \* ApprovalOwner
    stage,           \* "load", "judge", "decide", "done"
    rules,           \* the rules read so far
    seen,            \* ghost: the files as they were read
    verdict,         \* PermissionVerdict
    decision         \* HookDecision

gateVars == <<files, command, owner, stage, rules, seen, verdict, decision>>

(***************************************************************************)
(* The verdict on a set of segments                                        *)
(***************************************************************************)

Matched(r, patterns) == \E pattern \in patterns : r \in pattern

\* Mutant: only the segment as written.
MatchesAsWritten(s, patterns) == Matched(s.written, patterns)

\* matches_any: deny and ask rules reach past a segment's prefixes.
MatchesAny(s, patterns) ==
    Matched(s.written, patterns) \/ \E r \in s.peeled : Matched(r, patterns)

Denied(segments, rs) == \E s \in segments : MatchesAny(s, rs.deny)

ScriptDenied(segments, rs) ==
    \E s \in segments : \E r \in s.script : Matched(r, rs.deny)

\* Without deny and ask rules the prefixes are not even peeled.
Peels(rs) == rs.deny # {} \/ rs.ask # {}

Asked(segments, rs) ==
    \E s \in segments : (Peels(rs) /\ ~s.complete) \/ MatchesAny(s, rs.ask)

\* Mutant: one allowed segment carries the whole chain.
SomeAllowed(segments, rs) == \E s \in segments : Matched(s.written, rs.allow)

Allowed(segments, rs) ==
    segments # {} /\ \A s \in segments : Matched(s.written, rs.allow)

\* check_command_with_rules_and_prefixes
Verdict(segments, attestable, rs) ==
    CASE Denied(segments, rs) -> "deny"
      [] ~Denied(segments, rs) /\ ScriptDenied(segments, rs) -> "defer"
      [] OTHER ->
            IF \/ \E s \in segments : s.shell
               \/ ~attestable
               \/ Asked(segments, rs) THEN "ask"
            ELSE IF Allowed(segments, rs) THEN "allow"
            ELSE "default"

(***************************************************************************)
(* Steps                                                                   *)
(***************************************************************************)

\* The user, or another program, saves a settings file.
Edit ==
    /\ stage = "load"
    /\ \E i \in 1 .. Files, f \in Contents : files' = [files EXCEPT ![i] = f]
    /\ UNCHANGED <<command, owner, stage, rules, seen, verdict, decision>>

\* Mutant: an unreadable file is skipped like a missing one.
AddRulesFailingOpen(rs, f) ==
    LET found == IF f.readable THEN f.rules ELSE NoRules IN
    [deny |-> rs.deny \cup found.deny, ask |-> rs.ask \cup found.ask,
     allow |-> rs.allow \cup found.allow]

\* One file's rules join the others; an unreadable file makes everything ask.
AddRules(rs, f) ==
    LET found == IF f.readable THEN f.rules ELSE [NoRules EXCEPT !.ask = {Readings}] IN
    [deny |-> rs.deny \cup found.deny, ask |-> rs.ask \cup found.ask,
     allow |-> rs.allow \cup found.allow]

\* load_permission_rules_from, the next file.
Load ==
    /\ stage = "load" /\ Len(seen) < Files
    /\ LET f == files[Len(seen) + 1] IN
          /\ seen' = Append(seen, f)
          /\ rules' = AddRules(rules, f)
    /\ stage' = IF Len(seen) + 1 = Files THEN "judge" ELSE "load"
    /\ UNCHANGED <<files, command, owner, verdict, decision>>

Judge ==
    /\ stage = "judge"
    /\ verdict' = Verdict(command.segments, command.attestable, rules)
    /\ stage' = "decide"
    /\ UNCHANGED <<files, command, owner, rules, seen, decision>>

\* decide_with_params: the order of the gates.
Gated(c, v) ==
    CASE v \in {"deny", "defer"} -> v
      [] v \notin {"deny", "defer"} /\ (~c.attestable \/ c.rewrite = "none") -> "defer"
      [] OTHER -> IF v = "allow" THEN "allow_rewrite" ELSE "ask_rewrite"

\* suppress_identity: a rewrite that changes nothing is none.
Suppressed(c, d) ==
    IF c.rewrite = "identity" /\ d \in {"allow_rewrite", "ask_rewrite"} THEN "defer" ELSE d

\* Mutant: the delegate takes over the user's own ask, too.
OwnedWithAsk(o, v, d) ==
    IF o = "delegate" /\ v \in {"default", "ask"} /\ d = "ask_rewrite" THEN "allow_rewrite" ELSE d

\* ApprovalOwner::apply: a delegate that asks by itself takes over the default.
Owned(o, v, d) ==
    IF o = "delegate" /\ v = "default" /\ d = "ask_rewrite" THEN "allow_rewrite" ELSE d

\* AgentPath::decide
Decide ==
    /\ stage = "decide"
    /\ decision' = Owned(owner, verdict, Suppressed(command, Gated(command, verdict)))
    /\ stage' = "done"
    /\ UNCHANGED <<files, command, owner, rules, seen, verdict>>

(***************************************************************************)
(* Specification                                                           *)
(***************************************************************************)

GateInit ==
    /\ files \in [1 .. Files -> Contents]
    /\ command \in Commands
    /\ owner \in Owners
    /\ stage = IF Files = 0 THEN "judge" ELSE "load"
    /\ rules = NoRules
    /\ seen = <<>>
    /\ verdict = "none"
    /\ decision = "none"

GateNext == Edit \/ Load \/ Judge \/ Decide

GateSpec == GateInit /\ [][GateNext]_gateVars

(***************************************************************************)
(* Properties                                                              *)
(***************************************************************************)

GateTypeOK ==
    /\ files \in [1 .. Files -> Contents]
    /\ command \in Commands
    /\ owner \in Owners
    /\ stage \in {"load", "judge", "decide", "done"}
    /\ rules \in Rules
    /\ seen \in Seq(Contents) /\ Len(seen) <= Files
    /\ verdict \in {"none", "deny", "defer", "ask", "allow", "default"}
    /\ decision \in {"none", "deny", "defer", "ask_rewrite", "allow_rewrite"}

\* The files as they were read, and the rules in them.
SeenFiles == {seen[i] : i \in DOMAIN seen}
SaidDeny == UNION {f.rules.deny : f \in SeenFiles}
SaidAsk == UNION {f.rules.ask : f \in SeenFiles}
SaidAllow == UNION {f.rules.allow : f \in SeenFiles}

\* A hook that decides for its agent approves a rewrite only if every file it
\* read could be read, every segment as written has an allow rule in one of
\* them, and no reading of any segment has a deny or an ask rule in any
\* (permissions.rs:113-215 and 283-323, decision.rs:157-182).
AutoAllowIsEarned ==
    decision = "allow_rewrite" /\ owner = "ptk" =>
        /\ \A f \in SeenFiles : f.readable
        /\ \A s \in command.segments :
              /\ Matched(s.written, SaidAllow)
              /\ \A r \in s.peeled \cup {s.written} :
                    ~Matched(r, SaidDeny) /\ ~Matched(r, SaidAsk)

\* Whoever asks, a command is rewritten only if no deny rule that was read
\* names a reading of it, in the open or in a shell wrapper's script; and one
\* that a user's rule asks about is never approved (decision.rs:58-82).
RewritesRespectTheRules ==
    decision \in {"allow_rewrite", "ask_rewrite"} =>
        \A s \in command.segments, r \in Readings :
            /\ r \in s.peeled \cup s.script \cup {s.written} => ~Matched(r, SaidDeny)
            /\ decision = "allow_rewrite" /\ r \in s.peeled \cup {s.written}
                  => ~Matched(r, SaidAsk)

Strictness == [deny |-> 4, defer |-> 3, ask |-> 2, default |-> 1, allow |-> 0]

\* A chain of commands is judged at least as strictly as each part of it:
\* nothing is approved for standing next to something approved
\* (permissions.rs:172-199).
ChainsAreNoLooser ==
    verdict # "none" =>
        \A part \in (SUBSET command.segments) \ {{}} :
            Strictness[verdict]
                >= Strictness[Verdict(part, command.attestable, rules)]
=============================================================================
