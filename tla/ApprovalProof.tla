---------------------------- MODULE ApprovalProof ----------------------------
(***************************************************************************)
(* What is approved before it is used, and that nothing else is: shell     *)
(* commands by the permission gate of the hooks, project files by the      *)
(* trust store, and fetched pipelines by their review.  For any settings   *)
(* files, rules and commands, and for any number of processes, files and   *)
(* texts; the unlocked files record what was decided as long as their      *)
(* writes do not overlap.  The three modules have no variable in common,   *)
(* and each has a part of its own here.                                    *)
(***************************************************************************)
EXTENDS HookGate, TrustStore, Pipelines, TLAPS

(***************************************************************************)
(* The permission gate                                                     *)
(***************************************************************************)

\* The rules gathered are those of the files read, and an ask for everything
\* if one of them could not be read.
Gathered ==
    /\ rules \in Rules
    /\ rules.deny = SaidDeny
    /\ rules.allow = SaidAllow
    /\ SaidAsk \subseteq rules.ask
    /\ \A f \in SeenFiles : f.readable \/ Readings \in rules.ask

Judgement == Verdict(command.segments, command.attestable, rules)

GateInv ==
    /\ files \in [1 .. Files -> Contents]
    /\ command \in Commands
    /\ owner \in Owners
    /\ stage \in {"load", "judge", "decide", "done"}
    /\ seen \in Seq(Contents) /\ Len(seen) <= Files
    /\ Gathered
    /\ verdict = IF stage \in {"decide", "done"} THEN Judgement ELSE "none"
    /\ decision = IF stage = "done"
                  THEN Owned(owner, verdict, Suppressed(command, Gated(command, verdict)))
                  ELSE "none"

LEMMA FilesAreContents ==
    ASSUME NEW f \in Contents
    PROVE  /\ f.readable \in BOOLEAN /\ f.rules \in Rules
           /\ f.rules.deny \in SUBSET SUBSET Readings
           /\ f.rules.ask \in SUBSET SUBSET Readings
           /\ f.rules.allow \in SUBSET SUBSET Readings
           /\ ~f.readable => f.rules = NoRules
  BY GateAssumption DEF ContentOK, Rules

LEMMA AddedRules ==
    ASSUME NEW rs \in Rules, NEW f \in Contents
    PROVE  /\ AddRules(rs, f) \in Rules
           /\ AddRules(rs, f).deny = rs.deny \cup f.rules.deny
           /\ AddRules(rs, f).allow = rs.allow \cup f.rules.allow
           /\ rs.ask \cup f.rules.ask \subseteq AddRules(rs, f).ask
           /\ f.readable \/ Readings \in AddRules(rs, f).ask
  <1>1. /\ rs.deny \in SUBSET SUBSET Readings /\ rs.ask \in SUBSET SUBSET Readings
        /\ rs.allow \in SUBSET SUBSET Readings
    BY DEF Rules
  <1>2. CASE f.readable
    BY <1>1, <1>2, FilesAreContents DEF AddRules, Rules
  <1>3. CASE ~f.readable
    <2> DEFINE found == [NoRules EXCEPT !.ask = {Readings}]
    <2>1. found.deny = {} /\ found.ask = {Readings} /\ found.allow = {}
      BY DEF NoRules
    <2>2. f.rules.deny = {} /\ f.rules.ask = {} /\ f.rules.allow = {}
      BY <1>3, FilesAreContents DEF NoRules
    <2> HIDE DEF found
    <2>3. AddRules(rs, f) = [deny |-> rs.deny \cup found.deny, ask |-> rs.ask \cup found.ask,
                             allow |-> rs.allow \cup found.allow]
      BY <1>3 DEF AddRules, found
    <2> QED
      BY <1>1, <2>1, <2>2, <2>3 DEF Rules
  <1> QED
    BY <1>2, <1>3, FilesAreContents

LEMMA InitGateInv == GateInit => GateInv
  <1> SUFFICES ASSUME GateInit PROVE GateInv
    OBVIOUS
  <1>1. seen = <<>> /\ SeenFiles = {} /\ seen \in Seq(Contents) /\ Len(seen) <= Files
    BY GateAssumption DEF GateInit, SeenFiles
  <1>2. Gathered
    BY <1>1 DEF GateInit, Gathered, SaidDeny, SaidAsk, SaidAllow, NoRules, Rules
  <1> QED
    BY <1>1, <1>2 DEF GateInit, GateInv

LEMMA LoadInv ==
    ASSUME GateInv, Load
    PROVE  GateInv'
  <1> DEFINE f == files[Len(seen) + 1]
  <1>1. f \in Contents
    BY GateAssumption DEF GateInv, Load
  <1>2. seen' = Append(seen, f) /\ rules' = AddRules(rules, f)
    BY DEF Load
  <1>3. seen \in Seq(Contents) /\ rules \in Rules
    BY DEF GateInv, Gathered
  <1> HIDE DEF f
  <1>4. SeenFiles' = SeenFiles \cup {f}
    <2>1. /\ DOMAIN seen' = DOMAIN seen \cup {Len(seen) + 1}
          /\ \A i \in DOMAIN seen : seen'[i] = seen[i]
          /\ seen'[Len(seen) + 1] = f
      BY <1>1, <1>2, <1>3
    <2> QED
      BY <2>1 DEF SeenFiles
  <1>5. /\ SaidDeny' = SaidDeny \cup f.rules.deny
        /\ SaidAsk' = SaidAsk \cup f.rules.ask
        /\ SaidAllow' = SaidAllow \cup f.rules.allow
    BY <1>4 DEF SaidDeny, SaidAsk, SaidAllow
  <1>6. Gathered'
    <2>1. /\ AddRules(rules, f) \in Rules
          /\ AddRules(rules, f).deny = rules.deny \cup f.rules.deny
          /\ AddRules(rules, f).allow = rules.allow \cup f.rules.allow
          /\ rules.ask \cup f.rules.ask \subseteq AddRules(rules, f).ask
          /\ f.readable \/ Readings \in AddRules(rules, f).ask
      BY <1>1, <1>3, AddedRules
    <2> QED
      BY <1>2, <1>4, <1>5, <2>1 DEF GateInv, Gathered
  <1>7. seen' \in Seq(Contents) /\ Len(seen') <= Files
    BY <1>1, <1>2, <1>3, GateAssumption DEF Load
  <1> QED
    BY <1>6, <1>7 DEF GateInv, Load

LEMMA StepGateInv == GateInv /\ [GateNext]_gateVars => GateInv'
  <1> SUFFICES ASSUME GateInv, [GateNext]_gateVars PROVE GateInv'
    OBVIOUS
  <1>1. CASE Edit
    <2>1. files' \in [1 .. Files -> Contents]
      BY <1>1 DEF Edit, GateInv
    <2>2. Gathered'
      BY <1>1 DEF Edit, GateInv, Gathered, SeenFiles, SaidDeny, SaidAsk, SaidAllow
    <2> QED
      BY <1>1, <2>1, <2>2 DEF Edit, GateInv, Judgement
  <1>2. CASE Load
    BY <1>2, LoadInv
  <1>3. CASE Judge
    <2>1. Gathered'
      BY <1>3 DEF Judge, GateInv, Gathered, SeenFiles, SaidDeny, SaidAsk, SaidAllow
    <2> QED
      BY <1>3, <2>1 DEF Judge, GateInv, Judgement
  <1>4. CASE Decide
    <2>1. Gathered'
      BY <1>4 DEF Decide, GateInv, Gathered, SeenFiles, SaidDeny, SaidAsk, SaidAllow
    <2> QED
      BY <1>4, <2>1 DEF Decide, GateInv, Judgement
  <1>5. CASE UNCHANGED gateVars
    <2>1. Gathered'
      BY <1>5 DEF gateVars, GateInv, Gathered, SeenFiles, SaidDeny, SaidAsk, SaidAllow
    <2> QED
      BY <1>5, <2>1 DEF gateVars, GateInv, Judgement
  <1> QED
    BY <1>1, <1>2, <1>3, <1>4, <1>5 DEF GateNext

\* GateInv is inductive.
THEOREM GateInvHolds == GateSpec => []GateInv
  BY InitGateInv, StepGateInv, PTL DEF GateSpec

(***************************************************************************)
(* The properties                                                          *)
(***************************************************************************)

LEMMA SegmentsTyped ==
    ASSUME NEW c \in Commands, NEW s \in c.segments
    PROVE  /\ s \in Segment /\ s.written \in Readings /\ s.peeled \in SUBSET Readings
           /\ s.script \in SUBSET Readings
  BY GateAssumption DEF CommandOK, Segment

\* What a rewrite means, undone gate by gate.
LEMMA RewriteMeans ==
    ASSUME GateInv, decision \in {"allow_rewrite", "ask_rewrite"}
    PROVE  /\ verdict = Judgement
           /\ verdict \notin {"deny", "defer"}
           /\ decision = "allow_rewrite" =>
                 verdict = "allow" \/ (owner = "delegate" /\ verdict = "default")
  <1> DEFINE g == Gated(command, verdict)
             d == Suppressed(command, g)
  <1>1. decision = Owned(owner, verdict, d) /\ verdict = Judgement
    BY DEF GateInv
  <1>2. d \in {"allow_rewrite", "ask_rewrite"} /\ (decision = d \/ (owner = "delegate" /\ verdict = "default"))
    BY <1>1 DEF Owned
  <1>3. g = d
    BY <1>2 DEF Suppressed
  <1>4. verdict \notin {"deny", "defer"} /\ (g = "allow_rewrite" => verdict = "allow")
    BY <1>2, <1>3 DEF Gated
  <1> QED
    BY <1>1, <1>2, <1>3, <1>4

LEMMA VerdictMeans ==
    ASSUME NEW segments, NEW attestable, NEW rs,
           NEW v, v = Verdict(segments, attestable, rs)
    PROVE  /\ v = "deny" <=> Denied(segments, rs)
           /\ v = "defer" <=> ~Denied(segments, rs) /\ ScriptDenied(segments, rs)
           /\ v = "ask" <=> /\ ~Denied(segments, rs) /\ ~ScriptDenied(segments, rs)
                            /\ \/ \E s \in segments : s.shell
                               \/ ~attestable
                               \/ Asked(segments, rs)
           /\ v = "allow" <=> /\ ~Denied(segments, rs) /\ ~ScriptDenied(segments, rs)
                              /\ ~(\E s \in segments : s.shell) /\ attestable
                              /\ ~Asked(segments, rs) /\ Allowed(segments, rs)
           /\ v \in {"deny", "defer", "ask", "allow", "default"}
  BY DEF Verdict

\* An approved rewrite is one whose every segment the user's files allow and
\* none of whose readings they deny or ask about, provided all of them could
\* be read (permissions.rs:113-215 and 283-323, decision.rs:157-182).
THEOREM ApprovalIsEarned == GateSpec => []AutoAllowIsEarned
  <1>1. ASSUME GateInv, decision = "allow_rewrite", owner = "ptk"
        PROVE  /\ \A f \in SeenFiles : f.readable
               /\ \A s \in command.segments :
                     /\ Matched(s.written, SaidAllow)
                     /\ \A r \in s.peeled \cup {s.written} :
                           ~Matched(r, SaidDeny) /\ ~Matched(r, SaidAsk)
    <2>1. Judgement = "allow"
      BY <1>1, RewriteMeans
    <2> DEFINE S == command.segments
    <2>2. ~Denied(S, rules) /\ ~Asked(S, rules) /\ Allowed(S, rules)
      BY <2>1, VerdictMeans DEF Judgement
    <2>3. Gathered /\ command \in Commands
      BY <1>1 DEF GateInv
    <2>4. ASSUME NEW f \in SeenFiles PROVE f.readable
      <3>1. PICK s \in S : s.written \in Readings
        BY <2>2, <2>3, SegmentsTyped DEF Allowed
      <3>2. Readings \notin rules.ask
        BY <2>2, <3>1 DEF Asked, MatchesAny, Matched
      <3> QED
        BY <2>3, <3>2 DEF Gathered
    <2>5. ASSUME NEW s \in S, NEW r \in s.peeled \cup {s.written}
          PROVE  ~Matched(r, SaidDeny) /\ ~Matched(r, SaidAsk)
      BY <2>2, <2>3 DEF Gathered, Denied, Asked, MatchesAny, Matched
    <2>6. \A s \in S : Matched(s.written, SaidAllow)
      BY <2>2, <2>3 DEF Gathered, Allowed
    <2> QED
      BY <2>4, <2>5, <2>6
  <1>2. GateInv => AutoAllowIsEarned
    BY <1>1 DEF AutoAllowIsEarned
  <1> QED
    BY <1>2, GateInvHolds, PTL

\* A denied command, or one with a denied script, is never rewritten, and one
\* that a rule asks about is never approved, whoever owns the approval
\* (decision.rs:58-117).
THEOREM RewritesAreRuled == GateSpec => []RewritesRespectTheRules
  <1>1. ASSUME GateInv, decision \in {"allow_rewrite", "ask_rewrite"},
               NEW s \in command.segments, NEW r \in Readings
        PROVE  /\ r \in s.peeled \cup s.script \cup {s.written} => ~Matched(r, SaidDeny)
               /\ decision = "allow_rewrite" /\ r \in s.peeled \cup {s.written}
                     => ~Matched(r, SaidAsk)
    <2> DEFINE S == command.segments
    <2>1. /\ Judgement \notin {"deny", "defer"}
          /\ decision = "allow_rewrite" => Judgement \in {"allow", "default"}
      BY <1>1, RewriteMeans
    <2>2. /\ ~Denied(S, rules) /\ ~ScriptDenied(S, rules)
          /\ decision = "allow_rewrite" => ~Asked(S, rules)
      BY <2>1, VerdictMeans DEF Judgement
    <2>3. Gathered
      BY <1>1 DEF GateInv
    <2> QED
      BY <1>1, <2>2, <2>3 DEF Gathered, Denied, ScriptDenied, Asked, MatchesAny, Matched
  <1>2. GateInv => RewritesRespectTheRules
    BY <1>1 DEF RewritesRespectTheRules
  <1> QED
    BY <1>2, GateInvHolds, PTL

\* A chain is judged no less strictly than any part of it, whatever the rules
\* (permissions.rs:172-199).
THEOREM ChainsAreJudgedWhole == GateSpec => []ChainsAreNoLooser
  <1>1. ASSUME NEW S, NEW P \in (SUBSET S) \ {{}}, NEW a, NEW rs,
               NEW v, v = Verdict(S, a, rs), NEW w, w = Verdict(P, a, rs)
        PROVE  Strictness[v] >= Strictness[w]
    <2>1. /\ Denied(P, rs) => Denied(S, rs)
          /\ ScriptDenied(P, rs) => ScriptDenied(S, rs)
          /\ Asked(P, rs) => Asked(S, rs)
          /\ (\E s \in P : s.shell) => (\E s \in S : s.shell)
          /\ Allowed(S, rs) => Allowed(P, rs)
      <3>1. \A s \in P : s \in S
        BY <1>1
      <3>2. P # {}
        BY <1>1
      <3>3. Denied(P, rs) => Denied(S, rs)
        BY <3>1, Zenon DEF Denied
      <3>4. ScriptDenied(P, rs) => ScriptDenied(S, rs)
        BY <3>1, Zenon DEF ScriptDenied
      <3>5. Asked(P, rs) => Asked(S, rs)
        BY <3>1, Zenon DEF Asked
      <3>6. Allowed(S, rs) => Allowed(P, rs)
        BY <3>1, <3>2, Zenon DEF Allowed
      <3> QED
        BY <3>1, <3>3, <3>4, <3>5, <3>6, Zenon
    <2>2. /\ w = "deny" => v = "deny"
          /\ w = "defer" => v \in {"deny", "defer"}
          /\ w = "ask" => v \in {"deny", "defer", "ask"}
          /\ w = "default" => v # "allow"
      BY <1>1, <2>1, VerdictMeans
    <2>3. /\ v \in {"deny", "defer", "ask", "allow", "default"}
          /\ w \in {"deny", "defer", "ask", "allow", "default"}
      BY <1>1, VerdictMeans
    <2>4. /\ Strictness["deny"] = 4 /\ Strictness["defer"] = 3 /\ Strictness["ask"] = 2
          /\ Strictness["default"] = 1 /\ Strictness["allow"] = 0
      BY DEF Strictness
    <2>5. CASE w = "deny"
      BY <2>2, <2>4, <2>5
    <2>6. CASE w = "defer"
      BY <2>2, <2>4, <2>6
    <2>7. CASE w = "ask"
      BY <2>2, <2>4, <2>7
    <2>8. CASE w = "default"
      BY <2>2, <2>3, <2>4, <2>8
    <2>9. CASE w = "allow"
      BY <2>3, <2>4, <2>9
    <2> QED
      BY <2>3, <2>5, <2>6, <2>7, <2>8, <2>9
  <1>2. GateInv => ChainsAreNoLooser
    BY <1>1 DEF GateInv, ChainsAreNoLooser, Judgement
  <1> QED
    BY <1>2, GateInvHolds, PTL

\* Type correctness of the gate.
THEOREM GateTypeCorrect == GateSpec => []GateTypeOK
  <1>1. GateInv => GateTypeOK
    <2> SUFFICES ASSUME GateInv PROVE GateTypeOK
      OBVIOUS
    <2>1. verdict \in {"none", "deny", "defer", "ask", "allow", "default"}
      BY VerdictMeans DEF GateInv, Judgement
    <2>2. decision \in {"none", "deny", "defer", "ask_rewrite", "allow_rewrite"}
      BY DEF GateInv, Owned, Suppressed, Gated
    <2> QED
      BY <2>1, <2>2 DEF GateInv, GateTypeOK, Gathered
  <1> QED
    BY <1>1, GateInvHolds, PTL

(***************************************************************************)
(* The trust store                                                         *)
(***************************************************************************)

Stores == [Paths -> GatedContents \cup {NoTrust}]

Visitor ==
    [at : {"rest", "check", "known", "ask", "store", "truncate", "write"},
     path : Paths \cup {Missing}, bytes : GatedContents \cup {Missing},
     copy : Stores, removes : BOOLEAN, current : BOOLEAN, alone : BOOLEAN]

TrustTyped ==
    /\ gated \in [Paths -> GatedContents \cup {Missing}]
    /\ store \in Stores
    /\ decided \in Stores
    /\ broken \in BOOLEAN
    /\ calm \in BOOLEAN
    /\ user \in [Users -> Visitor]

\* What a process holds of a path is a content the file had.
Sound(u) ==
    /\ u.at # "rest" => u.path \in Paths
    /\ u.at # "rest" /\ ~u.removes => u.bytes \in GatedContents
    /\ u.at \in {"check", "known", "ask"} => ~u.removes

\* Every entry of the store m is for a content that was confirmed.
AllReviewed(m, confirmed) ==
    \A f \in Paths : m[f] # NoTrust => <<f, m[f]>> \in confirmed

\* ... and so is every entry that the process u is about to write.
WritesReviewed(u, confirmed) ==
    /\ u.at = "store" /\ ~u.removes => <<u.path, u.bytes>> \in confirmed
    /\ u.at \in {"truncate", "write"} => AllReviewed(u.copy, confirmed)

\* A process whose copy is current is about to make its change to the store;
\* one that writes has the file to itself.
WritesDecided(u, held, torn, made) ==
    /\ u.at = "truncate" /\ u.current => ~torn /\ u.copy = Changed(held, u)
    /\ u.at = "write" => torn /\ u.alone /\ u.copy = Changed(made, u)

Undisturbed ==
    /\ \A p \in Users : WritesDecided(user[p], store, broken, decided)
    /\ \A p, q \in Users : user[p].at = "write" /\ user[q].at = "write" => p = q
    /\ ~broken => store = decided

TrustInv ==
    /\ TrustTyped
    /\ loaded \subseteq reviewed
    /\ AllReviewed(store, reviewed)
    /\ \A p \in Users : Sound(user[p]) /\ WritesReviewed(user[p], reviewed)
    /\ calm => Undisturbed

LEMMA AtRestVisitor ==
    /\ AtRest \in Visitor /\ AtRest.at = "rest"
    /\ EmptyStore \in Stores
  <1>1. EmptyStore \in Stores
    BY DEF EmptyStore, Stores
  <1> QED
    BY <1>1 DEF AtRest, Visitor

LEMMA InitTrustInv == TrustInit => TrustInv
  <1> SUFFICES ASSUME TrustInit PROVE TrustInv
    OBVIOUS
  <1>1. \A p \in Users : user[p] = AtRest
    BY DEF TrustInit
  <1>2. TrustTyped
    BY AtRestVisitor DEF TrustInit, TrustTyped
  <1>3. AllReviewed(store, reviewed)
    BY DEF TrustInit, AllReviewed, EmptyStore
  <1>4. \A p \in Users : Sound(user[p]) /\ WritesReviewed(user[p], reviewed)
    BY <1>1, AtRestVisitor DEF Sound, WritesReviewed
  <1>5. Undisturbed
    BY <1>1, AtRestVisitor DEF Undisturbed, WritesDecided, TrustInit
  <1> QED
    BY <1>2, <1>3, <1>4, <1>5 DEF TrustInv, TrustInit

\* A process turns into r and nobody touches the store.
LEMMA QuietStep ==
    ASSUME TrustInv, NEW p \in Users, NEW r \in Visitor,
           user' = [user EXCEPT ![p] = r],
           UNCHANGED <<gated, store, broken, decided>>,
           reviewed \subseteq reviewed', loaded' \subseteq reviewed',
           calm' \in BOOLEAN, calm' => calm,
           Sound(r), WritesReviewed(r, reviewed'), r.at # "write",
           calm => WritesDecided(r, store, broken, decided)
    PROVE  TrustInv'
  <1>1. \A q \in Users : user'[q] = IF q = p THEN r ELSE user[q]
    BY DEF TrustInv, TrustTyped
  <1>2. TrustTyped'
    BY <1>1 DEF TrustInv, TrustTyped
  <1>3. AllReviewed(store, reviewed)'
    BY DEF TrustInv, AllReviewed
  <1>4. ASSUME NEW q \in Users
        PROVE  Sound(user'[q]) /\ WritesReviewed(user'[q], reviewed')
    <2>1. Sound(user[q]) /\ WritesReviewed(user[q], reviewed)
      BY DEF TrustInv
    <2>2. WritesReviewed(user[q], reviewed')
      BY <2>1 DEF WritesReviewed, AllReviewed
    <2> QED
      BY <1>1, <2>1, <2>2
  <1>5. ASSUME calm' PROVE Undisturbed'
    <2>1. Undisturbed
      BY <1>5 DEF TrustInv
    <2>2. \A q \in Users : WritesDecided(user'[q], store, broken, decided)
      BY <1>1, <1>5, <2>1 DEF Undisturbed
    <2>3. \A q \in Users : user'[q].at = "write" => q # p /\ user[q].at = "write"
      BY <1>1
    <2>4. \A q1, q2 \in Users : user'[q1].at = "write" /\ user'[q2].at = "write" => q1 = q2
      BY <2>1, <2>3 DEF Undisturbed
    <2> QED
      BY <2>1, <2>2, <2>4 DEF Undisturbed
  <1> QED
    BY <1>2, <1>3, <1>4, <1>5 DEF TrustInv

LEMMA EditTrustInv ==
    ASSUME TrustInv, EditGated
    PROVE  TrustInv'
  <1>1. TrustTyped'
    BY DEF TrustInv, TrustTyped, EditGated
  <1>2. UNCHANGED <<store, broken, user, reviewed, loaded, decided, calm>>
    BY DEF EditGated
  <1>3. AllReviewed(store, reviewed)'
    BY <1>2 DEF TrustInv, AllReviewed
  <1>4. \A q \in Users : Sound(user'[q]) /\ WritesReviewed(user'[q], reviewed')
    BY <1>2 DEF TrustInv
  <1>5. calm' => Undisturbed'
    BY <1>2 DEF TrustInv, Undisturbed
  <1> QED
    BY <1>1, <1>2, <1>3, <1>4, <1>5 DEF TrustInv

\* A process leaves the store alone and rests.
LEMMA RestingStep ==
    ASSUME TrustInv, NEW p \in Users,
           user' = [user EXCEPT ![p] = AtRest],
           UNCHANGED <<gated, store, broken, decided, reviewed>>,
           loaded' \subseteq reviewed', calm' \in BOOLEAN, calm' => calm
    PROVE  TrustInv'
  <1>1. Sound(AtRest) /\ WritesReviewed(AtRest, reviewed')
        /\ WritesDecided(AtRest, store, broken, decided)
    BY AtRestVisitor DEF Sound, WritesReviewed, WritesDecided
  <1> QED
    BY <1>1, AtRestVisitor, QuietStep

\* A process begins with the path f, or with its removal.
LEMMA BeginStep ==
    ASSUME TrustInv, NEW p \in Users, NEW r \in Visitor,
           user' = [user EXCEPT ![p] = r],
           UNCHANGED <<gated, store, broken, decided, reviewed, loaded, calm>>,
           r.path \in Paths,
           \/ r.at \in {"check", "known"} /\ ~r.removes /\ r.bytes \in GatedContents
           \/ r.at = "store" /\ r.removes
    PROVE  TrustInv'
  <1>1. Sound(r) /\ WritesReviewed(r, reviewed') /\ r.at # "write"
        /\ WritesDecided(r, store, broken, decided)
    BY DEF Sound, WritesReviewed, WritesDecided
  <1>2. loaded' \subseteq reviewed' /\ calm' \in BOOLEAN /\ (calm' => calm)
    BY DEF TrustInv, TrustTyped
  <1> QED
    BY <1>1, <1>2, QuietStep

LEMMA BeginsTrustInv ==
    ASSUME TrustInv, NEW p \in Users,
           LoadReads(p) \/ TrustReads(p) \/ UntrustBegins(p)
    PROVE  TrustInv'
  <1>1. UNCHANGED <<gated, store, broken, decided, reviewed, loaded, calm>>
    BY DEF LoadReads, TrustReads, UntrustBegins
  <1>2. \A f \in Paths : gated[f] # Missing => gated[f] \in GatedContents
    BY DEF TrustInv, TrustTyped
  <1>3. ASSUME NEW f \in Paths, gated[f] # Missing, NEW at \in {"check", "known"},
               Goes(p, [AtRest EXCEPT !.at = at, !.path = f, !.bytes = gated[f]])
        PROVE  TrustInv'
    <2> DEFINE r == [AtRest EXCEPT !.at = at, !.path = f, !.bytes = gated[f]]
    <2>1. /\ r \in Visitor /\ r.at = at /\ r.path = f /\ ~r.removes
          /\ r.bytes \in GatedContents
      BY <1>2, <1>3, AtRestVisitor DEF Visitor, AtRest
    <2>2. user' = [user EXCEPT ![p] = r]
      BY <1>3 DEF Goes
    <2> HIDE DEF r
    <2> QED
      BY <1>1, <1>3, <2>1, <2>2, BeginStep
  <1>4. ASSUME NEW f \in Paths,
               Goes(p, [AtRest EXCEPT !.at = "store", !.path = f, !.removes = TRUE])
        PROVE  TrustInv'
    <2> DEFINE r == [AtRest EXCEPT !.at = "store", !.path = f, !.removes = TRUE]
    <2>1. r \in Visitor /\ r.at = "store" /\ r.path = f /\ r.removes
      BY AtRestVisitor DEF Visitor, AtRest
    <2>2. user' = [user EXCEPT ![p] = r]
      BY <1>4 DEF Goes
    <2> HIDE DEF r
    <2> QED
      BY <1>1, <1>4, <2>1, <2>2, BeginStep
  <1>5. CASE LoadReads(p)
    <2>1. PICK f \in Paths :
              /\ gated[f] # Missing
              /\ Goes(p, [AtRest EXCEPT !.at = "check", !.path = f, !.bytes = gated[f]])
      BY <1>5 DEF LoadReads
    <2> QED
      BY <1>3, <2>1
  <1>6. CASE TrustReads(p)
    <2>1. PICK f \in Paths :
              /\ gated[f] # Missing
              /\ Goes(p, [AtRest EXCEPT !.at = "known", !.path = f, !.bytes = gated[f]])
      BY <1>6 DEF TrustReads
    <2> QED
      BY <1>3, <2>1
  <1>7. CASE UntrustBegins(p)
    BY <1>4, <1>7 DEF UntrustBegins
  <1> QED
    BY <1>5, <1>6, <1>7

\* What is loaded was hashed, and the hash is in the store.
LEMMA LoadChecksTrustInv ==
    ASSUME TrustInv, NEW p \in Users, LoadChecks(p)
    PROVE  TrustInv'
  <1> DEFINE u == user[p]
  <1>1. u.path \in Paths /\ u.bytes \in GatedContents
    BY DEF TrustInv, Sound, LoadChecks
  <1>2. TrustedNow(u.path, u.bytes) => <<u.path, u.bytes>> \in reviewed
    BY <1>1, TrustAssumption DEF TrustInv, AllReviewed, TrustedNow
  <1>3. loaded' \subseteq reviewed'
    BY <1>2 DEF TrustInv, LoadChecks, LoadedContent
  <1>4. /\ user' = [user EXCEPT ![p] = AtRest]
        /\ UNCHANGED <<gated, store, broken, decided, reviewed, calm>>
    BY DEF LoadChecks, Goes
  <1> QED
    BY <1>3, <1>4, RestingStep DEF TrustInv, TrustTyped

LEMMA AsksTrustInv ==
    ASSUME TrustInv, NEW p \in Users, TrustAlready(p) \/ TrustConfirmed(p)
    PROVE  TrustInv'
  <1> DEFINE u == user[p]
  <1>1. u \in Visitor /\ Sound(u) /\ ~u.removes
    BY DEF TrustInv, TrustTyped, Sound, TrustAlready, TrustConfirmed
  <1>2. UNCHANGED <<gated, store, broken, decided, loaded, calm>>
    BY DEF TrustAlready, TrustConfirmed
  <1>3. CASE user' = [user EXCEPT ![p] = AtRest] /\ UNCHANGED reviewed
    BY <1>2, <1>3, RestingStep DEF TrustInv, TrustTyped
  <1>4. ASSUME NEW at \in {"ask", "store"},
               user' = [user EXCEPT ![p] = [u EXCEPT !.at = at]],
               u.at # "rest",
               reviewed' = IF at = "store" THEN reviewed \cup {<<u.path, u.bytes>>}
                           ELSE reviewed
        PROVE  TrustInv'
    <2> DEFINE r == [u EXCEPT !.at = at]
    <2>1. /\ r \in Visitor /\ r.at = at /\ r.path = u.path /\ r.bytes = u.bytes
          /\ r.removes = u.removes
      BY <1>1 DEF Visitor
    <2>2. user' = [user EXCEPT ![p] = r]
      BY <1>4
    <2> HIDE DEF r
    <2>3. Sound(r) /\ WritesReviewed(r, reviewed') /\ r.at # "write"
          /\ WritesDecided(r, store, broken, decided)
      BY <1>1, <1>4, <2>1 DEF Sound, WritesReviewed, WritesDecided
    <2>4. /\ reviewed \subseteq reviewed' /\ loaded' \subseteq reviewed'
          /\ calm' \in BOOLEAN /\ (calm' => calm)
      BY <1>2, <1>4 DEF TrustInv, TrustTyped
    <2> QED
      BY <1>2, <2>1, <2>2, <2>3, <2>4, QuietStep
  <1>5. CASE TrustAlready(p)
    BY <1>3, <1>4, <1>5 DEF TrustAlready, Goes
  <1>6. CASE TrustConfirmed(p)
    BY <1>4, <1>6 DEF TrustConfirmed, Goes
  <1> QED
    BY <1>5, <1>6

LEMMA EndsTrustInv ==
    ASSUME TrustInv, NEW p \in Users, TrustDeclined(p) \/ UserDies(p)
    PROVE  TrustInv'
  <1>1. /\ user' = [user EXCEPT ![p] = AtRest]
        /\ UNCHANGED <<gated, store, broken, decided, reviewed, loaded>>
    BY DEF TrustDeclined, UserDies, Goes
  <1>2. calm' \in BOOLEAN /\ (calm' => calm)
    <2>1. calm \in BOOLEAN
      BY DEF TrustInv, TrustTyped
    <2>2. CASE UNCHANGED calm
      BY <2>1, <2>2
    <2>3. CASE calm' = (calm /\ user[p].at # "write")
      BY <2>3, Zenon
    <2> QED
      BY <2>2, <2>3 DEF TrustDeclined, UserDies
  <1> QED
    BY <1>1, <1>2, RestingStep DEF TrustInv

\* Adding a confirmed content, or removing an entry, leaves only confirmed
\* contents.
LEMMA ChangedReviewed ==
    ASSUME NEW m \in Stores, NEW u \in Visitor, NEW confirmed,
           AllReviewed(m, confirmed), u.path \in Paths,
           ~u.removes => u.bytes \in GatedContents /\ <<u.path, u.bytes>> \in confirmed
    PROVE  Changed(m, u) \in Stores /\ AllReviewed(Changed(m, u), confirmed)
  <1> DEFINE c == IF u.removes THEN NoTrust ELSE u.bytes
             new == Changed(m, u)
  <1>1. c \in GatedContents \cup {NoTrust}
    OBVIOUS
  <1>2. new = [m EXCEPT ![u.path] = c]
    BY DEF Changed
  <1>3. new \in Stores
    BY <1>1, <1>2 DEF Stores
  <1>4. \A f \in Paths : new[f] = IF f = u.path THEN c ELSE m[f]
    BY <1>2 DEF Stores
  <1>5. c # NoTrust => <<u.path, c>> \in confirmed
    OBVIOUS
  <1> HIDE DEF c, new
  <1>6. AllReviewed(new, confirmed)
    BY <1>4, <1>5 DEF AllReviewed
  <1> QED
    BY <1>3, <1>6 DEF new

LEMMA StoreReadTrustInv ==
    ASSUME TrustInv, NEW p \in Users, StoreRead(p)
    PROVE  TrustInv'
  <1> DEFINE u == user[p]
             held == IF broken THEN EmptyStore ELSE store
             r == [u EXCEPT !.at = "truncate", !.copy = Changed(held, u),
                            !.current = ~broken]
  <1>1. /\ u \in Visitor /\ Sound(u) /\ WritesReviewed(u, reviewed) /\ u.at = "store"
        /\ broken \in BOOLEAN /\ calm \in BOOLEAN
    BY DEF TrustInv, TrustTyped, StoreRead
  <1>2. UNCHANGED <<gated, store, broken, decided, reviewed, loaded, calm>>
    BY DEF StoreRead
  <1>3. CASE user' = [user EXCEPT ![p] = AtRest]
    BY <1>1, <1>2, <1>3, RestingStep DEF TrustInv
  <1>4. CASE user' = [user EXCEPT ![p] = r]
    <2>1. held \in Stores /\ AllReviewed(held, reviewed)
      BY AtRestVisitor DEF TrustInv, TrustTyped, AllReviewed, EmptyStore
    <2>2. Changed(held, u) \in Stores /\ AllReviewed(Changed(held, u), reviewed)
      BY <1>1, <2>1, ChangedReviewed DEF Sound, WritesReviewed
    <2>3. /\ r \in Visitor /\ r.at = "truncate" /\ r.path = u.path /\ r.bytes = u.bytes
          /\ r.removes = u.removes /\ r.copy = Changed(held, u) /\ r.current = ~broken
      BY <1>1, <2>2 DEF Visitor
    <2>4. Changed(store, r) = Changed(store, u)
      BY <2>3 DEF Changed
    <2>5. user' = [user EXCEPT ![p] = r]
      BY <1>4
    <2>6. r.current => ~broken /\ r.copy = Changed(store, u)
      BY <1>1, <2>3
    <2> HIDE DEF r, held
    <2>7. Sound(r)
      BY <1>1, <2>3 DEF Sound
    <2>8. WritesReviewed(r, reviewed')
      BY <1>2, <2>2, <2>3 DEF WritesReviewed
    <2>9. WritesDecided(r, store, broken, decided)
      BY <2>3, <2>4, <2>6 DEF WritesDecided
    <2>10. loaded' \subseteq reviewed' /\ calm' \in BOOLEAN /\ (calm' => calm)
      BY <1>1, <1>2 DEF TrustInv
    <2> QED
      BY <1>2, <2>3, <2>5, <2>7, <2>8, <2>9, <2>10, QuietStep
  <1> QED
    BY <1>3, <1>4 DEF StoreRead, Goes

\* The others' copies are stale from here on.
LEMMA StoreTruncatedTrustInv ==
    ASSUME TrustInv, NEW p \in Users, StoreTruncated(p)
    PROVE  TrustInv'
  <1> DEFINE Next(q) == IF q = p THEN [user[q] EXCEPT !.at = "write", !.alone = TRUE]
                        ELSE [user[q] EXCEPT !.current = FALSE]
  <1>1. /\ user[p].at = "truncate" /\ broken' = TRUE /\ store' = EmptyStore
        /\ user' = [q \in Users |-> Next(q)]
        /\ calm' = (calm /\ user[p].current /\ \A q \in Users : user[q].at # "write")
        /\ UNCHANGED <<gated, reviewed, loaded, decided>>
    BY DEF StoreTruncated
  <1>2. \A q \in Users : user[q] \in Visitor
    BY DEF TrustInv, TrustTyped
  <1>3. \A q \in Users :
            /\ user'[q] = Next(q) /\ Next(q) \in Visitor
            /\ user'[q].path = user[q].path /\ user'[q].bytes = user[q].bytes
            /\ user'[q].removes = user[q].removes /\ user'[q].copy = user[q].copy
            /\ q # p => user'[q].at = user[q].at /\ user'[q].current = FALSE
    BY <1>1, <1>2 DEF Visitor
  <1>4. user'[p].at = "write" /\ user'[p].alone = TRUE
    BY <1>1, <1>2 DEF Visitor
  <1>5. user' \in [Users -> Visitor]
    BY <1>1, <1>3
  <1> HIDE DEF Next
  <1>6. TrustTyped'
    BY <1>1, <1>5, AtRestVisitor DEF TrustInv, TrustTyped
  <1>7. AllReviewed(store, reviewed)' /\ loaded' \subseteq reviewed'
    BY <1>1 DEF AllReviewed, EmptyStore, TrustInv
  <1>8. ASSUME NEW q \in Users
        PROVE  Sound(user'[q]) /\ WritesReviewed(user'[q], reviewed')
    <2>1. Sound(user[q]) /\ WritesReviewed(user[q], reviewed)
      BY DEF TrustInv
    <2>2. q = p => user[q].at = "truncate" /\ user'[q].at = "write"
      BY <1>1, <1>4
    <2> QED
      BY <1>1, <1>3, <2>1, <2>2 DEF Sound, WritesReviewed
  <1>9. ASSUME calm' PROVE Undisturbed'
    <2>1. /\ calm /\ user[p].current /\ Undisturbed
          /\ \A q \in Users : user[q].at # "write"
      BY <1>1, <1>9 DEF TrustInv
    <2>2. user[p].copy = Changed(decided, user[p])
      BY <1>1, <2>1 DEF Undisturbed, WritesDecided
    <2>3. Changed(decided, user'[p]) = Changed(decided, user[p])
      BY <1>3 DEF Changed
    <2>4. \A q \in Users : WritesDecided(user'[q], store', broken', decided')
      BY <1>1, <1>3, <1>4, <2>1, <2>2, <2>3 DEF WritesDecided
    <2>5. \A q \in Users : user'[q].at = "write" => q = p
      BY <1>3, <2>1
    <2> QED
      BY <1>1, <2>4, <2>5 DEF Undisturbed
  <1> QED
    BY <1>6, <1>7, <1>8, <1>9 DEF TrustInv

LEMMA StoreWrittenTrustInv ==
    ASSUME TrustInv, NEW p \in Users, StoreWritten(p)
    PROVE  TrustInv'
  <1> DEFINE u == user[p]
             Next(q) == IF q = p THEN AtRest ELSE [user[q] EXCEPT !.alone = FALSE]
  <1>1. /\ u.at = "write"
        /\ \/ broken' = FALSE /\ store' = u.copy
           \/ ~u.alone /\ broken' = TRUE /\ store' = EmptyStore
        /\ user' = [q \in Users |-> Next(q)]
        /\ decided' = [decided EXCEPT ![u.path] = IF u.removes THEN NoTrust ELSE u.bytes]
        /\ UNCHANGED <<gated, reviewed, loaded, calm>>
    BY DEF StoreWritten
  <1>2. \A q \in Users : user[q] \in Visitor
    BY DEF TrustInv, TrustTyped
  <1>3. \A q \in Users :
            /\ Next(q) \in Visitor /\ user'[q] = Next(q)
            /\ q # p => /\ user'[q].path = user[q].path /\ user'[q].bytes = user[q].bytes
                        /\ user'[q].removes = user[q].removes
                        /\ user'[q].copy = user[q].copy /\ user'[q].at = user[q].at
                        /\ user'[q].current = user[q].current
    BY <1>1, <1>2, AtRestVisitor DEF Visitor
  <1>4. user'[p].at = "rest"
    BY <1>1, AtRestVisitor
  <1>5. user' \in [Users -> Visitor]
    BY <1>1, <1>3
  <1>6. /\ u \in Visitor /\ u.path \in Paths /\ (~u.removes => u.bytes \in GatedContents)
        /\ AllReviewed(u.copy, reviewed)
    BY <1>1, <1>2 DEF TrustInv, Sound, WritesReviewed
  <1>7. u.copy \in Stores
    BY <1>6 DEF Visitor
  <1>8. decided' = Changed(decided, u)
    BY <1>1 DEF Changed
  <1>9. decided' \in Stores
    BY <1>1, <1>6 DEF TrustInv, TrustTyped, Stores
  <1> HIDE DEF Next
  <1>10. TrustTyped'
    BY <1>1, <1>5, <1>7, <1>9, AtRestVisitor DEF TrustInv, TrustTyped
  <1>11. AllReviewed(store, reviewed)' /\ loaded' \subseteq reviewed'
    BY <1>1, <1>6 DEF AllReviewed, EmptyStore, TrustInv
  <1>12. ASSUME NEW q \in Users
         PROVE  Sound(user'[q]) /\ WritesReviewed(user'[q], reviewed')
    <2>1. Sound(user[q]) /\ WritesReviewed(user[q], reviewed)
      BY DEF TrustInv
    <2> QED
      BY <1>1, <1>3, <1>4, <2>1 DEF Sound, WritesReviewed
  <1>13. ASSUME calm' PROVE Undisturbed'
    <2>1. Undisturbed
      BY <1>1, <1>13 DEF TrustInv
    <2>2. broken /\ u.alone /\ u.copy = Changed(decided, u)
      BY <1>1, <2>1 DEF Undisturbed, WritesDecided
    <2>3. broken' = FALSE /\ store' = decided'
      BY <1>1, <1>8, <2>2
    <2>4. \A q \in Users : user'[q].at # "write"
      BY <1>1, <1>3, <1>4, <2>1 DEF Undisturbed
    <2>5. \A q \in Users : user'[q].at = "truncate" => ~user'[q].current
      BY <1>3, <1>4, <2>1, <2>2 DEF Undisturbed, WritesDecided
    <2>6. \A q \in Users : WritesDecided(user'[q], store', broken', decided')
      BY <2>4, <2>5 DEF WritesDecided
    <2> QED
      BY <2>3, <2>4, <2>6 DEF Undisturbed
  <1> QED
    BY <1>10, <1>11, <1>12, <1>13 DEF TrustInv

LEMMA NextTrustInv == TrustInv /\ [TrustNext]_trustVars => TrustInv'
  <1> SUFFICES ASSUME TrustInv, [TrustNext]_trustVars PROVE TrustInv'
    OBVIOUS
  <1>1. CASE EditGated
    BY <1>1, EditTrustInv
  <1>2. CASE \E p \in Users : UserStep(p)
    BY <1>2, BeginsTrustInv, LoadChecksTrustInv, AsksTrustInv, EndsTrustInv,
       StoreReadTrustInv, StoreTruncatedTrustInv, StoreWrittenTrustInv DEF UserStep
  <1>3. CASE UNCHANGED trustVars
    BY <1>3 DEF trustVars, TrustInv, TrustTyped, AllReviewed, Undisturbed
  <1> QED
    BY <1>1, <1>2, <1>3 DEF TrustNext

\* TrustInv is inductive.
THEOREM TrustInvHolds == TrustSpec => []TrustInv
  BY InitTrustInv, NextTrustInv, PTL DEF TrustSpec

\* Whatever is loaded was confirmed, byte for byte and for its path, for any
\* number of commands at once and files that change all the time
\* (trust.rs:105-166 and 169-182).
THEOREM LoadedIsReviewed == TrustSpec => []OnlyReviewedIsLoaded
  <1>1. TrustInv => OnlyReviewedIsLoaded
    BY DEF TrustInv, OnlyReviewedIsLoaded
  <1> QED
    BY <1>1, TrustInvHolds, PTL

\* A store whose writes did not overlap is what the finished trusts and
\* untrusts made it, for any number of commands (trust.rs:169-193).
THEOREM StoreIsDecided == TrustSpec => []StoreIsWhatWasDecided
  <1>1. TrustInv => StoreIsWhatWasDecided
    BY DEF TrustInv, Undisturbed, StoreIsWhatWasDecided
  <1> QED
    BY <1>1, TrustInvHolds, PTL

(***************************************************************************)
(* Pipelines                                                               *)
(***************************************************************************)

Job ==
    [pc : {"rest", "compare", "choose", "arm", "promote", "disarm", "record", "truncate",
           "write"},
     text : Texts \cup {Absent}, pin : Pins \cup {NoSource}, publish : BOOLEAN,
     copy : Entry, fresh : BOOLEAN, clean : BOOLEAN]

PipesTyped ==
    /\ live \in Texts \cup {Absent}
    /\ shadow \in Texts \cup {Absent}
    /\ ledger \in Entry \cup {Torn}
    /\ recorded \in Entry
    /\ inst \in [Installers -> Job]

\* What was shown runs no command.
ShownRunNothing == shown \subseteq Texts /\ shown \cap Commanding = {}

\* What a process installs was shown.
Shown(i, texts) == i.pc \in {"compare", "choose"} => i.text \in texts

\* A process whose copy is current is about to add its record to the ledger;
\* one that writes has the file to itself.
Records(i, held, made) ==
    /\ i.pc = "truncate" /\ i.fresh => held # Torn /\ i.copy = EntryUpserted(held, i)
    /\ i.pc = "write" => held = Torn /\ i.clean /\ i.copy = EntryUpserted(made, i)

Orderly ==
    /\ \A p \in Installers : Records(inst[p], ledger, recorded)
    /\ \A p, q \in Installers : inst[p].pc = "write" /\ inst[q].pc = "write" => p = q
    /\ ledger # Torn => ledger = recorded

PipesInv ==
    /\ PipesTyped
    /\ NothingGoesLiveUnseen
    /\ ShownRunNothing
    /\ \A p \in Installers : Shown(inst[p], shown)
    /\ whole => Orderly

LEMMA RestingJob ==
    /\ NoEntry \in Entry
    /\ Resting \in Job /\ Resting.pc = "rest" /\ Resting.text = Absent
    /\ Resting.pin = NoSource /\ Resting.publish = FALSE
  <1>1. NoEntry \in Entry
    BY DEF NoEntry, Entry
  <1> QED
    BY <1>1 DEF Resting, Job

LEMMA RecordingJob ==
    ASSUME NEW i \in Job
    PROVE  Recording(i) \in Job /\ Recording(i).pc \in {"rest", "record"}
  <1>1. i.pin \in Pins \cup {NoSource}
    BY DEF Job
  <1>2. [Resting EXCEPT !.pc = "record", !.pin = i.pin] \in Job
    BY <1>1, RestingJob DEF Job
  <1>3. [Resting EXCEPT !.pc = "record", !.pin = i.pin].pc = "record"
    BY RestingJob DEF Job
  <1> QED
    BY <1>2, <1>3, RestingJob DEF Recording

LEMMA InitPipesInv == PipelinesInit => PipesInv
  <1> SUFFICES ASSUME PipelinesInit PROVE PipesInv
    OBVIOUS
  <1>1. \A p \in Installers : inst[p] = Resting
    BY DEF PipelinesInit
  <1>2. PipesTyped
    BY RestingJob DEF PipelinesInit, PipesTyped
  <1>3. NothingGoesLiveUnseen /\ ShownRunNothing
    BY PipelinesAssumption DEF PipelinesInit, NothingGoesLiveUnseen, ShownRunNothing
  <1>4. \A p \in Installers : Shown(inst[p], shown)
    BY <1>1, RestingJob DEF Shown
  <1>5. Orderly
    BY <1>1, RestingJob DEF Orderly, Records, PipelinesInit
  <1> QED
    BY <1>2, <1>3, <1>4, <1>5 DEF PipesInv

\* A process turns into r and nobody touches the ledger.
LEMMA QuietJob ==
    ASSUME PipesInv, NEW p \in Installers, NEW r \in Job,
           inst' = [inst EXCEPT ![p] = r],
           UNCHANGED <<ledger, recorded>>, whole' => whole,
           live' \in Texts \cup {Absent}, shadow' \in Texts \cup {Absent},
           NothingGoesLiveUnseen', ShownRunNothing', shown \subseteq shown',
           Shown(r, shown'), r.pc # "write",
           whole => Records(r, ledger, recorded)
    PROVE  PipesInv'
  <1>1. \A q \in Installers : inst'[q] = IF q = p THEN r ELSE inst[q]
    BY DEF PipesInv, PipesTyped
  <1>2. PipesTyped'
    BY <1>1 DEF PipesInv, PipesTyped
  <1>3. \A q \in Installers : Shown(inst'[q], shown')
    BY <1>1 DEF PipesInv, Shown
  <1>4. ASSUME whole' PROVE Orderly'
    <2>1. Orderly
      BY <1>4 DEF PipesInv
    <2>2. \A q \in Installers : Records(inst'[q], ledger, recorded)
      BY <1>1, <1>4, <2>1 DEF Orderly
    <2>3. \A q \in Installers : inst'[q].pc = "write" => q # p /\ inst[q].pc = "write"
      BY <1>1
    <2>4. \A q1, q2 \in Installers : inst'[q1].pc = "write" /\ inst'[q2].pc = "write" => q1 = q2
      BY <2>1, <2>3 DEF Orderly
    <2> QED
      BY <2>1, <2>2, <2>4 DEF Orderly
  <1> QED
    BY <1>2, <1>3, <1>4 DEF PipesInv

\* A process moves on without touching file or ledger, or showing a text.
LEMMA MovingJob ==
    ASSUME PipesInv, NEW p \in Installers, NEW r \in Job,
           inst' = [inst EXCEPT ![p] = r],
           UNCHANGED <<live, shadow, ledger, shown, placed, recorded>>, whole' => whole,
           Shown(r, shown), r.pc \notin {"truncate", "write"}
    PROVE  PipesInv'
  <1>1. Records(r, ledger, recorded)
    BY DEF Records
  <1>2. NothingGoesLiveUnseen' /\ ShownRunNothing'
    BY DEF PipesInv, NothingGoesLiveUnseen, ShownRunNothing
  <1>3. live' \in Texts \cup {Absent} /\ shadow' \in Texts \cup {Absent}
    BY DEF PipesInv, PipesTyped
  <1> QED
    BY <1>1, <1>2, <1>3, QuietJob

LEMMA RestedJob ==
    ASSUME PipesInv, NEW p \in Installers, Ended(p),
           UNCHANGED <<live, shadow, ledger, shown, placed, recorded>>, whole' => whole
    PROVE  PipesInv'
  <1>1. Shown(Resting, shown) /\ Resting.pc \notin {"truncate", "write"}
    BY RestingJob DEF Shown
  <1>2. inst' = [inst EXCEPT ![p] = Resting]
    BY DEF Ended, Moves
  <1> QED
    BY <1>1, <1>2, RestingJob, MovingJob

\* What stays as it is, and a pipeline put in place by the user.
LEMMA PlacePipesInv ==
    ASSUME PipesInv, UNCHANGED <<shadow, ledger, inst, shown, recorded, whole>>,
           UNCHANGED <<live, placed>> \/ \E t \in Texts : live' = t /\ placed' = t
    PROVE  PipesInv'
  <1>1. PipesTyped'
    BY DEF PipesInv, PipesTyped
  <1>2. NothingGoesLiveUnseen' /\ ShownRunNothing'
    BY DEF PipesInv, NothingGoesLiveUnseen, ShownRunNothing
  <1>3. \A p \in Installers : Shown(inst'[p], shown')
    BY DEF PipesInv
  <1>4. whole' => Orderly'
    BY DEF PipesInv, Orderly
  <1> QED
    BY <1>1, <1>2, <1>3, <1>4 DEF PipesInv

LEMMA AddShowsPipesInv ==
    ASSUME PipesInv, NEW p \in Installers, AddShows(p)
    PROVE  PipesInv'
  <1>1. PICK f \in Fetches :
            /\ Acceptable(f.text)
            /\ shown' = shown \cup {f.text}
            /\ Moves(p, [Resting EXCEPT !.pc = "compare", !.text = f.text, !.pin = f.pin])
    BY DEF AddShows
  <1> DEFINE r == [Resting EXCEPT !.pc = "compare", !.text = f.text, !.pin = f.pin]
  <1>2. f.text \in Texts /\ f.pin \in Pins
    BY PipelinesAssumption DEF FetchOK, Pins
  <1>3. r \in Job /\ r.pc = "compare" /\ r.text = f.text
    BY <1>2, RestingJob DEF Job
  <1>4. inst' = [inst EXCEPT ![p] = r]
    BY <1>1 DEF Moves
  <1>5. UNCHANGED <<live, shadow, ledger, placed, recorded, whole>>
    BY DEF AddShows, Files3
  <1> HIDE DEF r
  <1>6. NothingGoesLiveUnseen'
    BY <1>1, <1>5 DEF PipesInv, NothingGoesLiveUnseen
  <1>7. ShownRunNothing'
    BY <1>1, <1>2 DEF PipesInv, ShownRunNothing, Acceptable
  <1>8. Shown(r, shown') /\ Records(r, ledger, recorded)
    BY <1>1, <1>3 DEF Shown, Records
  <1>9. live' \in Texts \cup {Absent} /\ shadow' \in Texts \cup {Absent}
    BY <1>5 DEF PipesInv, PipesTyped
  <1> QED
    BY <1>1, <1>3, <1>4, <1>5, <1>6, <1>7, <1>8, <1>9, QuietJob

\* A process turns into r, and at most live and shadow file change.
LEMMA TurningJob ==
    ASSUME PipesInv, NEW p \in Installers, NEW r \in Job,
           r.pc \in {"arm", "promote", "disarm", "record", "choose"},
           r.pc = "choose" => r.text \in shown,
           inst' = [inst EXCEPT ![p] = r],
           UNCHANGED <<ledger, shown, recorded, whole>>,
           live' \in Texts \cup {Absent}, shadow' \in Texts \cup {Absent},
           NothingGoesLiveUnseen'
    PROVE  PipesInv'
  <1>1. Shown(r, shown') /\ Records(r, ledger, recorded) /\ r.pc # "write"
    BY DEF Shown, Records
  <1>2. ShownRunNothing' /\ shown \subseteq shown'
    BY DEF PipesInv, ShownRunNothing
  <1> QED
    BY <1>1, <1>2, QuietJob

LEMMA TurnedJob ==
    ASSUME NEW i \in Job,
           NEW pc \in {"arm", "promote", "disarm", "record", "choose", "truncate"}
    PROVE  /\ [i EXCEPT !.pc = pc] \in Job
           /\ [i EXCEPT !.pc = pc].pc = pc
           /\ [i EXCEPT !.pc = pc].text = i.text
  BY DEF Job

\* The live text is the reviewed one, or what the shadow slot held.
LEMMA InstallsPipesInv ==
    ASSUME PipesInv, NEW p \in Installers,
           \/ AddIdentical(p) \/ AddReview(p) \/ AddLive(p) \/ AddShadow(p) \/ AddArms(p)
    PROVE  PipesInv'
  <1> DEFINE i == inst[p]
  <1>1. /\ i \in Job /\ i.text \in Texts \cup {Absent} /\ i.publish \in BOOLEAN
        /\ i.pc \in {"compare", "choose"} => i.text \in shown
        /\ live \in Texts \cup {Absent} /\ shadow \in Texts \cup {Absent}
    BY DEF PipesInv, PipesTyped, Shown, Job
  <1>2. Shown(Recording(i), shown) /\ Recording(i) \in Job
        /\ Recording(i).pc \notin {"truncate", "write"}
    BY <1>1, RecordingJob DEF Shown
  <1>3. CASE AddIdentical(p) \/ AddArms(p)
    BY <1>2, <1>3, MovingJob DEF AddIdentical, AddArms, Moves, Files3, Ghosts
  <1>4. CASE AddReview(p)
    <2> DEFINE r == [i EXCEPT !.pc = "choose"]
    <2>0. r \in Job /\ r.pc = "choose" /\ r.text = i.text
      BY <1>1, TurnedJob
    <2>1. /\ inst' = [inst EXCEPT ![p] = r]
          /\ i.text \in shown
          /\ UNCHANGED <<live, shadow, ledger, shown, placed, recorded, whole>>
      BY <1>1, <1>4 DEF AddReview, Moves, Files3, Ghosts
    <2>2. NothingGoesLiveUnseen'
      BY <2>1 DEF PipesInv, NothingGoesLiveUnseen
    <2> HIDE DEF r
    <2> QED
      BY <1>1, <2>0, <2>1, <2>2, TurningJob
  <1>5. CASE AddLive(p)
    <2>1. /\ inst' = [inst EXCEPT ![p] = Recording(i)] /\ live' = i.text /\ i.text \in shown
          /\ UNCHANGED <<shadow, ledger, shown, placed, recorded, whole>>
      BY <1>1, <1>5 DEF AddLive, Moves, Ghosts
    <2>2. NothingGoesLiveUnseen'
      BY <2>1 DEF PipesInv, NothingGoesLiveUnseen, ShownRunNothing
    <2>3. ShownRunNothing' /\ shown \subseteq shown' /\ Records(Recording(i), ledger, recorded)
      BY <1>2, <2>1 DEF PipesInv, ShownRunNothing, Records
    <2> QED
      BY <1>1, <1>2, <2>1, <2>2, <2>3, QuietJob
  <1>6. CASE AddShadow(p)
    <2> DEFINE r == [i EXCEPT !.pc = "arm"]
    <2>0. r \in Job /\ r.pc = "arm" /\ r.text = i.text
      BY <1>1, TurnedJob
    <2>1. /\ inst' = [inst EXCEPT ![p] = r]
          /\ shadow' = i.text /\ i.text \in shown
          /\ UNCHANGED <<live, ledger, shown, placed, recorded, whole>>
      BY <1>1, <1>6 DEF AddShadow, Moves, Ghosts
    <2>2. NothingGoesLiveUnseen'
      BY <2>1 DEF PipesInv, NothingGoesLiveUnseen, ShownRunNothing
    <2> HIDE DEF r
    <2> QED
      BY <1>1, <2>0, <2>1, <2>2, TurningJob
  <1> QED
    BY <1>3, <1>4, <1>5, <1>6

LEMMA PromotesPipesInv ==
    ASSUME PipesInv, NEW p \in Installers,
           PromoteShows(p) \/ PromoteMoves(p) \/ Discard(p) \/ Publish(p)
    PROVE  PipesInv'
  <1> DEFINE i == inst[p]
  <1>1. /\ i \in Job /\ live \in Texts \cup {Absent} /\ shadow \in Texts \cup {Absent}
    BY DEF PipesInv, PipesTyped
  <1>2. CASE PromoteShows(p)
    <2> DEFINE r == [Resting EXCEPT !.pc = "promote", !.text = shadow]
    <2>1. r \in Job /\ r.pc = "promote"
      BY <1>1, RestingJob DEF Job
    <2>2. /\ inst' = [inst EXCEPT ![p] = r]
          /\ UNCHANGED <<live, shadow, ledger, shown, placed, recorded, whole>>
      BY <1>2 DEF PromoteShows, Moves, Files3, Ghosts
    <2> HIDE DEF r
    <2>3. Shown(r, shown)
      BY <2>1 DEF Shown
    <2> QED
      BY <2>1, <2>2, <2>3, MovingJob
  <1>3. CASE PromoteMoves(p) /\ shadow = Absent
    BY <1>3, RestedJob DEF PromoteMoves, Ghosts
  <1>4. CASE PromoteMoves(p) /\ shadow # Absent
    <2> DEFINE r == [i EXCEPT !.pc = "disarm"]
    <2>1. r \in Job /\ r.pc = "disarm"
      BY <1>1, TurnedJob
    <2>2. /\ inst' = [inst EXCEPT ![p] = r] /\ live' = shadow /\ shadow' = Absent
          /\ UNCHANGED <<ledger, shown, placed, recorded, whole>>
      BY <1>4 DEF PromoteMoves, Moves, Ghosts
    <2>3. NothingGoesLiveUnseen'
      BY <2>2, PipelinesAssumption DEF PipesInv, NothingGoesLiveUnseen
    <2> HIDE DEF r
    <2> QED
      BY <1>1, <2>1, <2>2, <2>3, TurningJob
  <1>5. CASE Discard(p)
    <2> DEFINE r == [Resting EXCEPT !.pc = "disarm"]
    <2>1. r \in Job /\ r.pc = "disarm"
      BY RestingJob, TurnedJob
    <2>2. /\ inst' = [inst EXCEPT ![p] = r] /\ shadow' = Absent
          /\ UNCHANGED <<live, ledger, shown, placed, recorded, whole>>
      BY <1>5 DEF Discard, Moves, Ghosts
    <2>3. NothingGoesLiveUnseen'
      BY <2>2, PipelinesAssumption DEF PipesInv, NothingGoesLiveUnseen
    <2> HIDE DEF r
    <2> QED
      BY <1>1, <2>1, <2>2, <2>3, TurningJob
  <1>6. CASE Publish(p)
    <2> DEFINE r == [Resting EXCEPT !.pc = "record", !.publish = TRUE]
    <2>1. r \in Job /\ r.pc = "record"
      BY RestingJob DEF Job
    <2>2. /\ inst' = [inst EXCEPT ![p] = r]
          /\ UNCHANGED <<live, shadow, ledger, shown, placed, recorded, whole>>
      BY <1>6 DEF Publish, Moves, Files3, Ghosts
    <2> HIDE DEF r
    <2>3. Shown(r, shown)
      BY <2>1 DEF Shown
    <2> QED
      BY <2>1, <2>2, <2>3, MovingJob
  <1> QED
    BY <1>2, <1>3, <1>4, <1>5, <1>6

LEMMA EndsPipesInv ==
    ASSUME PipesInv, NEW p \in Installers,
           \/ AddQuit(p) \/ PromoteDeclined(p) \/ Disarms(p) \/ EvalStops(p)
           \/ EvalStarts(p) \/ InstallerDies(p)
    PROVE  PipesInv'
  <1>1. CASE AddQuit(p) \/ PromoteDeclined(p) \/ Disarms(p) \/ InstallerDies(p)
    <2>1. /\ Ended(p)
          /\ UNCHANGED <<live, shadow, ledger, shown, placed, recorded>>
          /\ whole' => whole
      <3>1. CASE AddQuit(p) \/ PromoteDeclined(p) \/ Disarms(p)
        BY <3>1 DEF AddQuit, PromoteDeclined, Disarms, Files3, Ghosts
      <3>2. CASE InstallerDies(p)
        <4>1. whole' => whole
          BY <3>2, Zenon DEF InstallerDies
        <4> QED
          BY <3>2, <4>1 DEF InstallerDies, Files3
      <3> QED
        BY <1>1, <3>1, <3>2
    <2> QED
      BY <2>1, RestedJob
  <1>2. CASE EvalStops(p) \/ EvalStarts(p)
    BY <1>2, PlacePipesInv DEF EvalStops, EvalStarts, Ghosts
  <1> QED
    BY <1>1, <1>2

(***************************************************************************)
(* The ledger                                                              *)
(***************************************************************************)

LEMMA UpsertedEntry ==
    ASSUME NEW e \in Entry, NEW i \in Job
    PROVE  EntryUpserted(e, i) \in Entry
  <1>1. (IF i.pin \in Shas THEN i.pin ELSE e.sha) \in Shas \cup {NoSha}
    BY DEF Entry
  <1>2. e.published \in BOOLEAN /\ i.publish \in BOOLEAN
    BY DEF Entry, Job
  <1>3. (e.published \/ i.publish) \in BOOLEAN
    BY <1>2, Zenon
  <1> QED
    BY <1>1, <1>3 DEF EntryUpserted, Entry

LEMMA LedgerReadPipesInv ==
    ASSUME PipesInv, NEW p \in Installers, LedgerRead(p)
    PROVE  PipesInv'
  <1> DEFINE i == inst[p]
             held == IF ledger = Torn THEN NoEntry ELSE ledger
             r == [i EXCEPT !.pc = "truncate", !.copy = EntryUpserted(held, i),
                            !.fresh = ledger # Torn]
  <1>1. i \in Job /\ held \in Entry
    BY RestingJob DEF PipesInv, PipesTyped
  <1>2. EntryUpserted(held, i) \in Entry
    BY <1>1, UpsertedEntry
  <1>3. /\ r \in Job /\ r.pc = "truncate" /\ r.copy = EntryUpserted(held, i)
        /\ r.pin = i.pin /\ r.publish = i.publish /\ r.fresh = (ledger # Torn)
    BY <1>1, <1>2 DEF Job
  <1>4. /\ inst' = [inst EXCEPT ![p] = r]
        /\ UNCHANGED <<live, shadow, ledger, shown, placed, recorded, whole>>
    BY DEF LedgerRead, Moves, Files3, Ghosts
  <1>5. EntryUpserted(ledger, r) = EntryUpserted(ledger, i)
    BY <1>3 DEF EntryUpserted
  <1>6. r.fresh => ledger # Torn /\ r.copy = EntryUpserted(ledger, i)
    BY <1>3
  <1> HIDE DEF r
  <1>7. Shown(r, shown') /\ Records(r, ledger, recorded)
    BY <1>3, <1>5, <1>6 DEF Shown, Records
  <1>8. NothingGoesLiveUnseen' /\ ShownRunNothing' /\ shown \subseteq shown'
    BY <1>4 DEF PipesInv, NothingGoesLiveUnseen, ShownRunNothing
  <1>9. live' \in Texts \cup {Absent} /\ shadow' \in Texts \cup {Absent}
    BY <1>4 DEF PipesInv, PipesTyped
  <1> QED
    BY <1>3, <1>4, <1>7, <1>8, <1>9, QuietJob

\* The others' copies are stale from here on.
LEMMA LedgerTruncatedPipesInv ==
    ASSUME PipesInv, NEW p \in Installers, LedgerTruncated(p)
    PROVE  PipesInv'
  <1> DEFINE Turned(q) == IF q = p THEN [inst[q] EXCEPT !.pc = "write", !.clean = TRUE]
                          ELSE [inst[q] EXCEPT !.fresh = FALSE]
  <1>1. /\ inst[p].pc = "truncate" /\ ledger' = Torn
        /\ inst' = [q \in Installers |-> Turned(q)]
        /\ whole' = (whole /\ inst[p].fresh /\ \A q \in Installers : inst[q].pc # "write")
        /\ UNCHANGED <<live, shadow, shown, placed, recorded>>
    BY DEF LedgerTruncated, Files3
  <1>2. \A q \in Installers : inst[q] \in Job
    BY DEF PipesInv, PipesTyped
  <1>3. \A q \in Installers :
            /\ inst'[q] = Turned(q) /\ Turned(q) \in Job
            /\ inst'[q].text = inst[q].text /\ inst'[q].copy = inst[q].copy
            /\ inst'[q].pin = inst[q].pin /\ inst'[q].publish = inst[q].publish
            /\ q # p => inst'[q].pc = inst[q].pc /\ inst'[q].fresh = FALSE
    BY <1>1, <1>2 DEF Job
  <1>4. inst'[p].pc = "write" /\ inst'[p].clean = TRUE
    BY <1>1, <1>2 DEF Job
  <1>5. inst' \in [Installers -> Job]
    BY <1>1, <1>3
  <1> HIDE DEF Turned
  <1>6. PipesTyped' /\ NothingGoesLiveUnseen' /\ ShownRunNothing'
    BY <1>1, <1>5 DEF PipesInv, PipesTyped, NothingGoesLiveUnseen, ShownRunNothing
  <1>7. \A q \in Installers : Shown(inst'[q], shown')
    BY <1>1, <1>3, <1>4 DEF PipesInv, Shown
  <1>8. ASSUME whole' PROVE Orderly'
    <2>1. /\ whole /\ inst[p].fresh /\ Orderly
          /\ \A q \in Installers : inst[q].pc # "write"
      BY <1>1, <1>8 DEF PipesInv
    <2>2. inst[p].copy = EntryUpserted(recorded, inst[p])
      BY <1>1, <2>1 DEF Orderly, Records
    <2>3. EntryUpserted(recorded, inst'[p]) = EntryUpserted(recorded, inst[p])
      BY <1>3 DEF EntryUpserted
    <2>4. \A q \in Installers : Records(inst'[q], ledger', recorded')
      BY <1>1, <1>3, <1>4, <2>1, <2>2, <2>3 DEF Records
    <2>5. \A q \in Installers : inst'[q].pc = "write" => q = p
      BY <1>3, <2>1
    <2> QED
      BY <1>1, <2>4, <2>5 DEF Orderly
  <1> QED
    BY <1>6, <1>7, <1>8 DEF PipesInv

LEMMA LedgerWrittenPipesInv ==
    ASSUME PipesInv, NEW p \in Installers, LedgerWritten(p)
    PROVE  PipesInv'
  <1> DEFINE i == inst[p]
             Turned(q) == IF q = p THEN Resting ELSE [inst[q] EXCEPT !.clean = FALSE]
  <1>1. /\ i.pc = "write"
        /\ ledger' \in {i.copy} \cup (IF i.clean THEN {} ELSE {Torn})
        /\ inst' = [q \in Installers |-> Turned(q)]
        /\ UNCHANGED <<live, shadow, shown, placed, whole>>
    BY DEF LedgerWritten, Files3
  <1>2. recorded' = EntryUpserted(recorded, i)
    BY DEF LedgerWritten, EntryUpserted
  <1>3. \A q \in Installers : inst[q] \in Job
    BY DEF PipesInv, PipesTyped
  <1>4. \A q \in Installers :
            /\ inst'[q] = Turned(q) /\ Turned(q) \in Job
            /\ q # p => /\ inst'[q].text = inst[q].text /\ inst'[q].copy = inst[q].copy
                        /\ inst'[q].pc = inst[q].pc /\ inst'[q].fresh = inst[q].fresh
    BY <1>1, <1>3, RestingJob DEF Job
  <1>5. inst'[p].pc = "rest"
    BY <1>1, RestingJob
  <1>6. inst' \in [Installers -> Job]
    BY <1>1, <1>4
  <1>7. i.copy \in Entry /\ EntryUpserted(recorded, i) \in Entry
    BY <1>3, UpsertedEntry DEF Job, PipesInv, PipesTyped
  <1> HIDE DEF Turned
  <1>8. PipesTyped' /\ NothingGoesLiveUnseen' /\ ShownRunNothing'
    BY <1>1, <1>2, <1>6, <1>7
    DEF PipesInv, PipesTyped, NothingGoesLiveUnseen, ShownRunNothing
  <1>9. \A q \in Installers : Shown(inst'[q], shown')
    BY <1>1, <1>4, <1>5 DEF PipesInv, Shown
  <1>10. ASSUME whole' PROVE Orderly'
    <2>1. Orderly
      BY <1>1, <1>10 DEF PipesInv
    <2>2. ledger = Torn /\ i.clean /\ i.copy = EntryUpserted(recorded, i)
      BY <1>1, <2>1 DEF Orderly, Records
    <2>3. ledger' = recorded'
      BY <1>1, <1>2, <2>2
    <2>4. \A q \in Installers : inst'[q].pc # "write"
      BY <1>1, <1>4, <1>5, <2>1 DEF Orderly
    <2>5. \A q \in Installers : inst'[q].pc = "truncate" => ~inst'[q].fresh
      BY <1>4, <1>5, <2>1, <2>2 DEF Orderly, Records
    <2>6. \A q \in Installers : Records(inst'[q], ledger', recorded')
      BY <2>4, <2>5 DEF Records
    <2> QED
      BY <2>3, <2>4, <2>6 DEF Orderly
  <1> QED
    BY <1>8, <1>9, <1>10 DEF PipesInv

LEMMA NextPipesInv == PipesInv /\ [PipelinesNext]_pipeVars => PipesInv'
  <1> SUFFICES ASSUME PipesInv, [PipelinesNext]_pipeVars PROVE PipesInv'
    OBVIOUS
  <1>1. CASE Place
    BY <1>1, PlacePipesInv DEF Place
  <1>2. ASSUME NEW p \in Installers, InstallerStep(p) PROVE PipesInv'
    BY <1>2, AddShowsPipesInv, InstallsPipesInv, PromotesPipesInv, EndsPipesInv,
       LedgerReadPipesInv, LedgerTruncatedPipesInv, LedgerWrittenPipesInv
    DEF InstallerStep
  <1>3. CASE UNCHANGED pipeVars
    BY <1>3, PlacePipesInv DEF pipeVars
  <1> QED
    BY <1>1, <1>2, <1>3 DEF PipelinesNext

\* PipesInv is inductive.
THEOREM PipesInvHolds == PipelinesSpec => []PipesInv
  BY InitPipesInv, NextPipesInv, PTL DEF PipelinesSpec

\* No text becomes active before its rules were shown, at once or through the
\* shadow slot, and none that runs a command unless the user put it there, for
\* any number of commands at once (pipeline_cmd.rs:595-615 and 853-856).
THEOREM NothingUnseen == PipelinesSpec => []NothingGoesLiveUnseen
  <1>1. PipesInv => NothingGoesLiveUnseen
    BY DEF PipesInv
  <1> QED
    BY <1>1, PipesInvHolds, PTL

\* A ledger whose writes did not overlap holds all that was ever recorded, for
\* any number of installs and publications (pipeline_remote.rs:154-202).
THEOREM RecordsStay == PipelinesSpec => []RecordsOutliveEachOther
  <1>1. PipesInv => RecordsOutliveEachOther
    BY DEF PipesInv, Orderly, RecordsOutliveEachOther
  <1> QED
    BY <1>1, PipesInvHolds, PTL
=============================================================================
