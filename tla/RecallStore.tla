---------------------------- MODULE RecallStore ----------------------------
(***************************************************************************)
(* The recall store of the CLI (src/core/retriever.rs and its callers in   *)
(* src/core/tee.rs): a SQLite table of elided outputs.  A process that     *)
(* elides output stores it, evicts what is over the budget, and prints the *)
(* hash by which `ptk recall` finds it.                                    *)
(*                                                                         *)
(* Every statement commits by itself, so a process is a sequence of steps, *)
(* one per statement, and other processes run in between.  A statement     *)
(* that fails after the insert is ignored; a process may be killed between *)
(* any two.  What is counted about the rows is the subject of RecallStats. *)
(***************************************************************************)
EXTENDS Integers, FiniteSets

CONSTANTS
    Procs,           \* CLI processes
    Outputs,         \* elided outputs; the hash identifies command and content
    NoOutput,        \* what an idle process has at hand
    Posthook,        \* the outputs stored under the `posthook:` prefix
    MaxEntries,      \* max_entries
    MaxPosthook,     \* POSTHOOK_MAX_FILES
    Retention,       \* retention_days, in ticks
    LastSecond       \* bound: ticks that pass

ASSUME RecallAssumption ==
    /\ IsFiniteSet(Outputs)
    /\ NoOutput \notin Outputs
    /\ Posthook \subseteq Outputs
    /\ MaxEntries \in Nat
    /\ MaxPosthook \in Nat
    /\ Retention \in Nat
    /\ LastSecond \in Nat

VARIABLES
    now,         \* the clock, now_secs()
    rows,        \* the table: a function from the stored outputs to rows
    proc         \* the processes, see Proc

recallVars == <<now, rows, proc>>

\* Only the order of rowids matters, so `rowid` is the rank of SQLite's.
Row == [at : Nat, rowid : Nat]

\* The last two are ghosts: how many rows others inserted less how many they
\* deleted since this process counted them, and whether they deleted its own.
Proc ==
    [pc : {"idle", "insert", "expire", "count", "shrink", "trim", "print"},
     output : Outputs \cup {NoOutput},
     stamp : Nat,
     excess : Nat,
     drift : Int,
     taken : BOOLEAN]

Idle == [pc |-> "idle", output |-> NoOutput, stamp |-> 0, excess |-> 0,
         drift |-> 0, taken |-> FALSE]

Stored == DOMAIN rows

\* Mutant: by rowid alone, as if a refreshed row were as old as its insertion.
OlderByRowid(g, h) == rows[g].rowid < rows[h].rowid

\* The order of eviction: ORDER BY created_at, rowid.
Older(g, h) ==
    \/ rows[g].at < rows[h].at
    \/ rows[g].at = rows[h].at /\ rows[g].rowid < rows[h].rowid

\* The n oldest rows of S: ORDER BY ... LIMIT n.
Oldest(S, n) == {h \in S : Cardinality({g \in S : Older(g, h)}) < n}

\* All but the n newest rows of S: ORDER BY ... DESC LIMIT -1 OFFSET n.
BeyondNewest(S, n) == {h \in S : Cardinality({g \in S : Older(h, g)}) >= n}

At(p, pc) == proc[p].pc = pc

Ends(p) == proc' = [proc EXCEPT ![p] = Idle]

(***************************************************************************)
(* Steps                                                                   *)
(***************************************************************************)

\* store: the row is made and stamped, the INSERT not executed yet.
Store(p, h) ==
    /\ At(p, "idle")
    /\ proc' = [proc EXCEPT ![p] =
          [Idle EXCEPT !.pc = "insert", !.output = h, !.stamp = now]]
    /\ UNCHANGED <<now, rows>>

\* INSERT ... ON CONFLICT(hash) DO UPDATE: the refreshed row keeps its rowid.
Upserted(h, stamp) ==
    [g \in Stored \cup {h} |->
        IF g # h THEN rows[g]
        ELSE IF h \in Stored THEN [rows[h] EXCEPT !.at = stamp]
        ELSE [at |-> stamp, rowid |-> Cardinality(Stored) + 1]]

Drifts(q, n) == IF At(q, "shrink") THEN proc[q].drift + n ELSE proc[q].drift

Insert(p) ==
    LET h == proc[p].output
        new == IF h \in Stored THEN 0 ELSE 1 IN
    /\ At(p, "insert")
    /\ rows' = Upserted(h, proc[p].stamp)
    /\ proc' = [q \in Procs |->
          IF q = p THEN [proc[p] EXCEPT !.pc = "expire", !.stamp = 0]
          ELSE [proc[q] EXCEPT !.drift = Drifts(q, new)]]
    /\ UNCHANGED now

\* The rows of S go, the others close ranks.
Keeping(S) ==
    [h \in Stored \ S |->
        [rows[h] EXCEPT !.rowid =
            Cardinality({g \in Stored \ S : rows[g].rowid <= rows[h].rowid})]]

HasStored(q) == proc[q].pc \notin {"idle", "insert"}

\* p deletes the rows S and moves on; a DELETE that fails deletes nothing.
Deletes(p, S, pc) ==
    \E D \in {S, {}} :
        /\ rows' = Keeping(D)
        /\ proc' = [q \in Procs |->
              IF q = p THEN [proc[p] EXCEPT !.pc = pc, !.excess = 0, !.drift = 0]
              ELSE [proc[q] EXCEPT
                        !.drift = Drifts(q, 0 - Cardinality(D)),
                        !.taken = @ \/ (HasStored(q) /\ proc[q].output \in D)]]
        /\ UNCHANGED now

Expired(h) == Retention > 0 /\ rows[h].at < now - Retention

\* evict, first statement: rows over the retention time, never its own.
Expire(p) ==
    /\ At(p, "expire")
    /\ Deletes(p, {h \in Stored \ {proc[p].output} : Expired(h)}, "count")

AfterEvict(p) == IF proc[p].output \in Posthook THEN "trim" ELSE "print"

\* Mutant: one row too few is found to be in excess.
ExcessOneShort(n) == IF MaxEntries > 0 /\ n > MaxEntries + 1 THEN n - MaxEntries - 1 ELSE 0

\* evict: how many of n rows are too many; max_entries = 0 is no budget.
Excess(n) == IF MaxEntries > 0 /\ n > MaxEntries THEN n - MaxEntries ELSE 0

\* evict: SELECT COUNT; 0 if it fails.
Count(p) ==
    /\ At(p, "count")
    /\ \E n \in {Cardinality(Stored), 0} :
          proc' = [proc EXCEPT ![p] =
              [@ EXCEPT !.pc = IF Excess(n) > 0 THEN "shrink" ELSE AfterEvict(p),
                        !.excess = Excess(n)]]
    /\ UNCHANGED <<now, rows>>

\* Mutant: the process's own row may go too.
EvictableAll(p) == Stored

\* evict: WHERE hash != keep_hash.
Evictable(p) == Stored \ {proc[p].output}

\* evict: the excess goes, as it was counted.
Shrink(p) ==
    /\ At(p, "shrink")
    /\ Deletes(p, Oldest(Evictable(p), proc[p].excess), AfterEvict(p))

\* trim_family: the posthook rows have a budget of their own.
Trim(p) ==
    /\ At(p, "trim")
    /\ Deletes(p, BeyondNewest(Stored \cap Posthook, MaxPosthook), "print")

\* The hint goes out.
PrintHint(p) ==
    /\ At(p, "print")
    /\ Ends(p)
    /\ UNCHANGED <<now, rows>>

\* The insert fails, and no hint is printed; or a signal between statements.
GiveUpStore(p) ==
    /\ ~At(p, "idle")
    /\ Ends(p)
    /\ UNCHANGED <<now, rows>>

Second ==
    /\ now < LastSecond
    /\ now' = now + 1
    /\ UNCHANGED <<rows, proc>>

(***************************************************************************)
(* Specification                                                           *)
(***************************************************************************)

RecallInit ==
    /\ now = 0
    /\ rows = [h \in {} |-> {}]
    /\ proc = [p \in Procs |-> Idle]

StoreStep(p) ==
    Insert(p) \/ Expire(p) \/ Count(p) \/ Shrink(p) \/ Trim(p) \/ PrintHint(p) \/ GiveUpStore(p)

RecallNext ==
    \/ \E p \in Procs, h \in Outputs : Store(p, h)
    \/ \E p \in Procs : StoreStep(p)
    \/ Second

RecallSpec == RecallInit /\ [][RecallNext]_recallVars

(***************************************************************************)
(* Properties                                                              *)
(***************************************************************************)

RecallTypeOK ==
    /\ now \in Nat
    /\ Stored \subseteq Outputs /\ rows \in [Stored -> Row]
    /\ proc \in [Procs -> Proc]
    /\ \A p \in Procs : proc[p].output = NoOutput <=> proc[p].pc = "idle"

\* A hash that is about to be printed for a failure's output can be recalled,
\* unless another process evicted the row in between: the process's own
\* evictions spare it, however old its row (retriever.rs:442-465).
FailureHintsResolve ==
    \A p \in Procs :
        /\ proc[p].pc = "print"
        /\ proc[p].output \notin Posthook
        /\ ~proc[p].taken
        => proc[p].output \in Stored

ShrinkEnds(p) == At(p, "shrink") /\ proc'[p].pc \in {"trim", "print"}

\* Eviction works from a count that may be stale.  Even so it leaves the
\* budget, plus what others inserted and minus what they deleted since the
\* count; or nothing but the process's own row (retriever.rs:450-464).
EvictionIsExact ==
    [][\A p \in Procs : ShrinkEnds(p) /\ DOMAIN rows' # Stored
          => \/ Cardinality(DOMAIN rows') = MaxEntries + proc[p].drift
             \/ DOMAIN rows' \subseteq {proc[p].output}]_recallVars

\* What the budget evicts was stored or refreshed no later than anything it
\* leaves, the process's own row apart (retriever.rs:456-462).
EvictionTakesTheOldest ==
    [][\A p \in Procs : ShrinkEnds(p)
          => \A g \in Stored \ DOMAIN rows', h \in DOMAIN rows' :
                 h = proc[p].output \/ rows[g].at <= rows[h].at]_recallVars

\* Storing a tool result never evicts a failure's output, which has a budget
\* of its own (tee.rs:272: "posthook writes must never evict a failure
\* recovery").
PosthookSparesFailures ==
    [][\A p \in Procs : ShrinkEnds(p) /\ proc[p].output \in Posthook
          => Stored \ Posthook \subseteq DOMAIN rows']_recallVars
=============================================================================
