---------------------------- MODULE RecallStats ----------------------------
(***************************************************************************)
(* How often elided output is asked back: the counters behind `ptk gain    *)
(* --recalls` (src/core/retriever.rs).  Storing an output counts an        *)
(* elision, loading it counts a recall unless its row is marked as         *)
(* recalled.  Counters and rows are written by separate statements, between*)
(* which other processes run, and a process may die; only a reset is one   *)
(* transaction.                                                            *)
(*                                                                         *)
(* RecallStore says which rows are evicted.  Here any row may be, at any   *)
(* time.                                                                   *)
(***************************************************************************)
EXTENDS Naturals, FiniteSets

CONSTANTS
    Readers,         \* CLI processes
    Elided,          \* elided outputs; the hash identifies command and content
    Nothing,         \* what an idle process has at hand
    FilterOf,        \* stat_key: the filter an output is counted under
    MaxCounted       \* bound: elisions and recalls counted per filter

ASSUME StatsAssumption ==
    /\ IsFiniteSet(Elided) /\ Nothing \notin Elided
    /\ IsFiniteSet(Readers)
    /\ MaxCounted \in Nat

Filters == {FilterOf[h] : h \in Elided}

VARIABLES
    marks,       \* the stored outputs, with their column `recalled`
    elisions,    \* recall_stats, per filter
    recalls,
    unbooked,    \* ghost, per filter: elisions that are on no book
    visit        \* the processes, see Visit

statsVars == <<marks, elisions, recalls, unbooked, visit>>

Visit == [pc : {"idle", "insert", "elide", "mark", "tally"}, output : Elided \cup {Nothing}]

Away == [pc |-> "idle", output |-> Nothing]

Held == DOMAIN marks

Does(p, pc) == visit[p].pc = pc

Turns(p, pc) == visit' = [visit EXCEPT ![p].pc = pc]

Leaves(p) == visit' = [visit EXCEPT ![p] = Away]

\* The processes that are at pc with an output of filter f.
Engaged(pc, f) == {p \in Readers : Does(p, pc) /\ FilterOf[visit[p].output] = f}

(***************************************************************************)
(* Storing                                                                 *)
(***************************************************************************)

ElideBegins(p, h) ==
    /\ Does(p, "idle")
    /\ visit' = [visit EXCEPT ![p] = [pc |-> "insert", output |-> h]]
    /\ UNCHANGED <<marks, elisions, recalls, unbooked>>

\* INSERT ... ON CONFLICT(hash) DO UPDATE leaves `recalled` alone.
RowInserted(p) ==
    LET h == visit[p].output IN
    /\ Does(p, "insert")
    /\ marks' = [g \in Held \cup {h} |-> IF g \in Held THEN marks[g] ELSE FALSE]
    /\ Turns(p, "elide")
    /\ UNCHANGED <<elisions, recalls, unbooked>>

\* bump_stat(.., "elisions").
ElisionCounted(p) ==
    LET f == FilterOf[visit[p].output] IN
    /\ Does(p, "elide")
    /\ elisions[f] < MaxCounted
    /\ elisions' = [elisions EXCEPT ![f] = @ + 1]
    /\ Leaves(p)
    /\ UNCHANGED <<marks, recalls, unbooked>>

\* The statement is refused, which is ignored, or the process dies.
ElisionLost(p) ==
    LET f == FilterOf[visit[p].output] IN
    /\ Does(p, "elide")
    /\ unbooked[f] < MaxCounted
    /\ unbooked' = [unbooked EXCEPT ![f] = @ + 1]
    /\ Leaves(p)
    /\ UNCHANGED <<marks, elisions, recalls>>

Evicted(h) ==
    /\ h \in Held
    /\ marks' = [g \in Held \ {h} |-> marks[g]]
    /\ UNCHANGED <<elisions, recalls, unbooked, visit>>

(***************************************************************************)
(* Recalling                                                               *)
(***************************************************************************)

\* run_recall: the row is loaded and its output written.
RecallBegins(p, h) ==
    /\ Does(p, "idle")
    /\ h \in Held
    /\ visit' = [visit EXCEPT ![p] = [pc |-> "mark", output |-> h]]
    /\ UNCHANGED <<marks, elisions, recalls, unbooked>>

\* Mutant: a visit counts though the row is marked already.
AnyRow(h) == h \in Held

\* WHERE hash = ?1 AND recalled = 0.
Unmarked(h) == h \in Held /\ ~marks[h]

\* mark_recalled, the UPDATE.
Mark(p) ==
    LET h == visit[p].output IN
    /\ Does(p, "mark")
    /\ IF Unmarked(h)
       THEN marks' = [marks EXCEPT ![h] = TRUE] /\ Turns(p, "tally")
       ELSE Leaves(p) /\ UNCHANGED marks
    /\ UNCHANGED <<elisions, recalls, unbooked>>

\* mark_recalled, bump_stat(.., "recalls").
RecallCounted(p) ==
    LET f == FilterOf[visit[p].output] IN
    /\ Does(p, "tally")
    /\ recalls[f] <= MaxCounted
    /\ recalls' = [recalls EXCEPT ![f] = @ + 1]
    /\ Leaves(p)
    /\ UNCHANGED <<marks, elisions, unbooked>>

\* The insert fails, a statement of a recall is refused, or the process dies.
Abandoned(p) ==
    /\ visit[p].pc \in {"insert", "mark", "tally"}
    /\ Leaves(p)
    /\ UNCHANGED <<marks, elisions, recalls, unbooked>>

(***************************************************************************)
(* Resetting                                                               *)
(***************************************************************************)

\* reset_stats_with.  The elisions of the rows that stay, and of the visits
\* about to be counted, are on no book any more.
ResetStats ==
    /\ elisions' = [f \in Filters |-> 0]
    /\ recalls' = [f \in Filters |-> 0]
    /\ marks' = [h \in Held |-> FALSE]
    /\ unbooked' = [f \in Filters |->
          Cardinality({h \in Held : FilterOf[h] = f}) + Cardinality(Engaged("tally", f))]
    /\ UNCHANGED visit

(***************************************************************************)
(* Specification                                                           *)
(***************************************************************************)

StatsInit ==
    /\ marks = [h \in {} |-> FALSE]
    /\ elisions = [f \in Filters |-> 0]
    /\ recalls = [f \in Filters |-> 0]
    /\ unbooked = [f \in Filters |-> 0]
    /\ visit = [p \in Readers |-> Away]

StatsStep(p) ==
    \/ RowInserted(p) \/ ElisionCounted(p) \/ ElisionLost(p)
    \/ Mark(p) \/ RecallCounted(p) \/ Abandoned(p)

StatsNext ==
    \/ \E p \in Readers, h \in Elided : ElideBegins(p, h) \/ RecallBegins(p, h)
    \/ \E p \in Readers : StatsStep(p)
    \/ \E h \in Elided : Evicted(h)
    \/ ResetStats

StatsSpec == StatsInit /\ [][StatsNext]_statsVars

(***************************************************************************)
(* Properties                                                              *)
(***************************************************************************)

StatsTypeOK ==
    /\ Held \subseteq Elided /\ marks \in [Held -> BOOLEAN]
    /\ elisions \in [Filters -> Nat]
    /\ recalls \in [Filters -> Nat]
    /\ unbooked \in [Filters -> Nat]
    /\ visit \in [Readers -> Visit]
    /\ \A p \in Readers : visit[p].output = Nothing <=> visit[p].pc = "idle"

\* An output is counted as recalled at most once for each time it was elided,
\* whatever happens in between: re-reads, stores of the same output, evictions
\* and processes that die.  So the recall rate of a filter is a share of its
\* elisions, counting those that are not booked yet, were never booked, or
\* were wiped by a reset that kept the rows (retriever.rs:393-403).
RatesAreShares ==
    \A f \in Filters :
        recalls[f] <= elisions[f] + unbooked[f] + Cardinality(Engaged("elide", f))
=============================================================================
