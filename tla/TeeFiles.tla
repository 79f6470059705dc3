------------------------------ MODULE TeeFiles ------------------------------
(***************************************************************************)
(* The file-based recovery logs of the CLI (src/core/tee_file.rs and the   *)
(* posthook part of src/core/tee.rs).  A `ptk` process that elides output  *)
(* writes the whole of it to a log, rotates the directory and prints the   *)
(* path.  Processes run side by side and hold no lock: another may run     *)
(* between any two of a process's system calls, and any may be killed.     *)
(*                                                                         *)
(* Posthook logs live in a subdirectory with a budget of its own.  Writing *)
(* and rotating never look outside the one directory, so the module is     *)
(* about one of the two, `site`.                                           *)
(*                                                                         *)
(* Rotation sorts by name and names begin with the time of writing, so a   *)
(* name is represented by its place in that order: the number              *)
(* time * Tags + tag, for one of Tags tags per unit of time.               *)
(***************************************************************************)
EXTENDS Naturals, FiniteSets

CONSTANTS
    Writers,     \* CLI processes
    Slugs,       \* tags that stand for command slugs
    PidTag,      \* the tag of a posthook process
    Tags,        \* tags per unit of time
    MaxFiles,    \* tee_max_files, POSTHOOK_MAX_FILES
    LastTick     \* bound: units of time that pass

ASSUME TeeAssumption ==
    /\ Tags \in Nat \ {0}
    /\ Slugs \subseteq 0 .. Tags - 1
    /\ PidTag \in [Writers -> 0 .. Tags - 1]
    /\ \A p, q \in Writers : PidTag[p] = PidTag[q] => p = q
    /\ MaxFiles \in Nat
    /\ LastTick \in Nat

VARIABLES
    site,       \* the directory: tee or its posthook subdirectory
    tick,       \* the clock that names are made from
    logs,       \* the .log files there
    written,    \* ghost: every name a process created there so far
    author,     \* who truncated each of them last
    tee         \* the processes, see Tee

teeVars == <<site, tick, logs, written, author, tee>>

\* `since` is a ghost: the logs created after the process listed the directory.
Tee ==
    [pc : {"idle", "open", "write", "list", "remove", "hinted"},
     name : Nat,
     kept : SUBSET Nat,      \* what the listing leaves in place
     doomed : SUBSET Nat,    \* what it removes, as far as not done yet
     since : SUBSET Nat]

Dormant == [pc |-> "idle", name |-> 0, kept |-> {}, doomed |-> {}, since |-> {}]

\* write_tee_file: {epoch seconds}_{slug}.log
TeeName(slug) == tick * Tags + slug

\* Mutant: posthook logs named like the others, by time and slug alone.
PosthookNameBySlug(p, slug) == TeeName(slug)

\* posthook_tee_hint: {epoch ms}_{pid}-{seq}_{slug}.log.  The counter is left
\* out: it could only keep a process from overwriting its own log.
PosthookName(p, slug) == tick * Tags + PidTag[p]

(***************************************************************************)
(* One write_named_tee_file                                                *)
(***************************************************************************)

\* The name is made; nothing is on disk yet.
Begin(p, slug) ==
    /\ tee[p].pc \in {"idle", "hinted"}
    /\ tee' = [tee EXCEPT ![p] =
          [Dormant EXCEPT !.pc = "open",
                          !.name = IF site = "tee" THEN TeeName(slug)
                                   ELSE PosthookName(p, slug)]]
    /\ UNCHANGED <<site, tick, logs, written, author>>

\* A process that has listed the directory learns nothing of the new log.
Missed(q, n) == IF q.pc = "remove" THEN [q EXCEPT !.since = @ \cup {n}] ELSE q

\* open with create and truncate: whatever bore the name is gone.
Open(p) ==
    LET n == tee[p].name IN
    /\ tee[p].pc = "open"
    /\ logs' = logs \cup {n}
    /\ written' = written \cup {n}
    /\ author' = [m \in written' |-> IF m = n THEN p ELSE author[m]]
    /\ tee' = [q \in Writers |->
                  IF q = p THEN [tee[p] EXCEPT !.pc = "write"] ELSE Missed(tee[q], n)]
    /\ UNCHANGED <<site, tick>>

Write(p) ==
    /\ tee[p].pc = "write"
    /\ tee' = [tee EXCEPT ![p].pc = "list"]
    /\ UNCHANGED <<site, tick, logs, written, author>>

Newer(S, n) == {m \in S : m > n}

\* Mutant: one file too many is removed.
DoomedOneMore(S) == {n \in S : Cardinality(Newer(S, n)) + 1 >= MaxFiles}

\* Mutant: one file more than the budget stays.
DoomedOneLess(S) == {n \in S : Cardinality(Newer(S, n)) > MaxFiles}

\* cleanup_old_files: sort by name, take all but the last MaxFiles.
Doomed(S) == {n \in S : Cardinality(Newer(S, n)) >= MaxFiles}

List(p) ==
    /\ tee[p].pc = "list"
    /\ tee' = [tee EXCEPT ![p] =
          [@ EXCEPT !.pc = "remove", !.doomed = Doomed(logs), !.kept = logs \ Doomed(logs)]]
    /\ UNCHANGED <<site, tick, logs, written, author>>

\* remove_file, one by one; a file that is gone already is no error.
Remove(p) ==
    /\ tee[p].pc = "remove"
    /\ \E n \in tee[p].doomed :
          /\ logs' = logs \ {n}
          /\ tee' = [tee EXCEPT ![p].doomed = @ \ {n}]
    /\ UNCHANGED <<site, tick, written, author>>

\* The path is printed.
Hint(p) ==
    /\ tee[p].pc = "remove"
    /\ tee[p].doomed = {}
    /\ tee' = [tee EXCEPT ![p] = [Dormant EXCEPT !.pc = "hinted", !.name = tee[p].name]]
    /\ UNCHANGED <<site, tick, logs, written, author>>

\* A failed open or write ends the attempt without a hint, and so does a
\* signal; what is on disk stays.
GiveUp(p) ==
    /\ tee[p].pc \notin {"idle", "hinted"}
    /\ tee' = [tee EXCEPT ![p] = Dormant]
    /\ UNCHANGED <<site, tick, logs, written, author>>

TeeTick ==
    /\ tick < LastTick
    /\ tick' = tick + 1
    /\ UNCHANGED <<site, logs, written, author, tee>>

(***************************************************************************)
(* Specification                                                           *)
(***************************************************************************)

TeeInit ==
    /\ site \in {"tee", "posthook"}
    /\ tick = 0
    /\ logs = {}
    /\ written = {}
    /\ author = [n \in {} |-> {}]
    /\ tee = [p \in Writers |-> Dormant]

TeeStep(p) ==
    Open(p) \/ Write(p) \/ List(p) \/ Remove(p) \/ Hint(p) \/ GiveUp(p)

TeeNext ==
    \/ \E p \in Writers, slug \in Slugs : Begin(p, slug)
    \/ \E p \in Writers : TeeStep(p)
    \/ TeeTick

TeeSpec == TeeInit /\ [][TeeNext]_teeVars

(***************************************************************************)
(* Properties                                                              *)
(***************************************************************************)

TeeTypeOK ==
    /\ site \in {"tee", "posthook"}
    /\ tick \in Nat
    /\ written \subseteq Nat
    /\ logs \subseteq written
    /\ author \in [written -> Writers]
    /\ tee \in [Writers -> Tee]

\* However the rotations of concurrent processes interleave, stale listings
\* included, a log that is gone has at least MaxFiles newer ones in its
\* directory: the newest are never rotated out (tee_file.rs:114-131).
NewestLogsAreKept ==
    \A n \in written \ logs : Cardinality(Newer(logs, n)) >= MaxFiles

\* Posthook processes of parallel subagents never overwrite each other's log:
\* a log whose path was printed is its author's as long as it exists
\* (tee.rs:118-121).
PosthookLogsAreTheirAuthors ==
    \A p \in Writers :
        site = "posthook" /\ tee[p].pc = "hinted" /\ tee[p].name \in logs
            => author[tee[p].name] = p

\* A rotation that completes leaves no more than the budget and what other
\* processes have created since it listed the directory.
RotationMeetsTheBudget ==
    [][\A p \in Writers :
          tee[p].pc = "remove" /\ tee'[p].pc = "hinted"
              => Cardinality(logs') <= MaxFiles + Cardinality(tee[p].since)]_teeVars
=============================================================================
