---------------------------- MODULE RecallProof ----------------------------
(***************************************************************************)
(* Eviction from the recall store, and recall rates, for any number of     *)
(* processes, outputs, filters and resets, and any budget.  The two        *)
(* modules have no variable in common; the second part begins at `Recall   *)
(* rates are shares'.                                                      *)
(***************************************************************************)
EXTENDS RecallStore, RecallStats, FiniteSetTheorems, TLAPS

(***************************************************************************)
(* Ranks in a finite strict order                                          *)
(***************************************************************************)

StrictOrder(S, R) ==
    /\ \A g \in S : <<g, g>> \notin R
    /\ \A g, h \in S : g # h => <<g, h>> \in R \/ <<h, g>> \in R
    /\ \A f, g, h \in S : <<f, g>> \in R /\ <<g, h>> \in R => <<f, h>> \in R

Below(S, R, h) == {g \in S : <<g, h>> \in R}

LEMMA RankType ==
    ASSUME NEW S, IsFiniteSet(S), NEW R, StrictOrder(S, R), NEW h \in S
    PROVE  /\ IsFiniteSet(Below(S, R, h))
           /\ Cardinality(Below(S, R, h)) \in Nat
           /\ Cardinality(Below(S, R, h)) < Cardinality(S)
  <1>1. Below(S, R, h) \in SUBSET (S \ {h})
    BY DEF Below, StrictOrder
  <1>2. IsFiniteSet(S \ {h}) /\ Cardinality(S \ {h}) = Cardinality(S) - 1
    BY FS_RemoveElement
  <1>3. IsFiniteSet(Below(S, R, h)) /\ Cardinality(Below(S, R, h)) <= Cardinality(S \ {h})
    BY <1>1, <1>2, FS_Subset
  <1>4. Cardinality(Below(S, R, h)) \in Nat /\ Cardinality(S) \in Nat
    BY <1>3, FS_CardinalityType
  <1> QED
    BY <1>2, <1>3, <1>4

LEMMA RankGrows ==
    ASSUME NEW S, IsFiniteSet(S), NEW R, StrictOrder(S, R),
           NEW g \in S, NEW h \in S, <<g, h>> \in R
    PROVE  Cardinality(Below(S, R, g)) < Cardinality(Below(S, R, h))
  <1> DEFINE B == Below(S, R, g)
  <1>1. B \cup {g} \in SUBSET Below(S, R, h) /\ g \notin B
    BY DEF Below, StrictOrder
  <1>2. IsFiniteSet(B) /\ Cardinality(B) \in Nat
    BY RankType
  <1>3. IsFiniteSet(Below(S, R, h)) /\ Cardinality(Below(S, R, h)) \in Nat
    BY RankType
  <1> HIDE DEF B
  <1>4. Cardinality(B \cup {g}) = Cardinality(B) + 1
    BY <1>1, <1>2, FS_AddElement
  <1>5. Cardinality(B \cup {g}) <= Cardinality(Below(S, R, h))
    BY <1>1, <1>3, FS_Subset
  <1> QED
    BY <1>2, <1>3, <1>4, <1>5 DEF B

LEMMA RanksAreDistinct ==
    ASSUME NEW S, IsFiniteSet(S), NEW R, StrictOrder(S, R),
           NEW g \in S, NEW h \in S,
           Cardinality(Below(S, R, g)) = Cardinality(Below(S, R, h))
    PROVE  g = h
  <1> SUFFICES ASSUME g # h PROVE FALSE
    OBVIOUS
  <1>1. <<g, h>> \in R \/ <<h, g>> \in R
    BY DEF StrictOrder
  <1>2. /\ <<g, h>> \in R => Cardinality(Below(S, R, g)) < Cardinality(Below(S, R, h))
        /\ <<h, g>> \in R => Cardinality(Below(S, R, h)) < Cardinality(Below(S, R, g))
    BY RankGrows
  <1>3. Cardinality(Below(S, R, g)) \in Nat
    BY RankType
  <1> QED
    BY <1>1, <1>2, <1>3

\* Exactly n elements have fewer than n below them, if there are n at all.
LEMMA LeastNumber ==
    ASSUME NEW S, IsFiniteSet(S), NEW R, StrictOrder(S, R), NEW n \in Nat
    PROVE  Cardinality({h \in S : Cardinality(Below(S, R, h)) < n})
              = IF n <= Cardinality(S) THEN n ELSE Cardinality(S)
  <1> DEFINE c == Cardinality(S)
             rank == [h \in S |-> Cardinality(Below(S, R, h))]
             low == {h \in S : Cardinality(Below(S, R, h)) < n}
             m == IF n <= c THEN n ELSE c
             low1 == [h \in low |-> Cardinality(Below(S, R, h))]
  <1>1. c \in Nat
    BY FS_CardinalityType
  <1>2. \A h \in S : Cardinality(Below(S, R, h)) \in 0 .. c - 1
    BY <1>1, RankType
  <1>3. rank \in Injection(S, 0 .. c - 1)
    <2>1. rank \in [S -> 0 .. c - 1]
      BY <1>2
    <2>2. \A g, h \in S : rank[g] = rank[h] => g = h
      BY RanksAreDistinct
    <2> QED
      BY <2>1, <2>2 DEF Injection, IsInjective
  <1>4. IsFiniteSet(0 .. c - 1) /\ Cardinality(0 .. c - 1) = c
    BY <1>1, FS_Interval, SMTT(30)
  <1>5. rank \in Surjection(S, 0 .. c - 1)
    <2> HIDE DEF rank
    <2> QED
      BY <1>3, <1>4, FS_Injection
  <1>6. \A i \in 0 .. c - 1 : \E h \in S : Cardinality(Below(S, R, h)) = i
    BY <1>5 DEF Surjection
  <1>8. IsFiniteSet(0 .. m - 1) /\ Cardinality(0 .. m - 1) = m /\ m \in Nat
    <2>1. m \in Nat
      BY <1>1
    <2> HIDE DEF m
    <2> QED
      BY <2>1, FS_Interval
  <1>9. low1 \in Injection(low, 0 .. m - 1)
    <2>1. low1 \in [low -> 0 .. m - 1]
      BY <1>1, <1>2
    <2>2. \A g, h \in low : low1[g] = low1[h] => g = h
      BY RanksAreDistinct
    <2> QED
      BY <2>1, <2>2 DEF Injection, IsInjective
  <1>10. low1 \in Surjection(low, 0 .. m - 1)
    <2>1. \A i \in 0 .. m - 1 : i \in 0 .. c - 1 /\ i < n
      BY <1>1
    <2>2. \A i \in 0 .. m - 1 : \E h \in low : low1[h] = i
      BY <1>6, <2>1
    <2>3. low1 \in [low -> 0 .. m - 1]
      BY <1>1, <1>2
    <2> QED
      BY <2>2, <2>3 DEF Surjection
  <1> HIDE DEF low1, low, m
  <1> QED
    BY <1>8, <1>9, <1>10, FS_Injection DEF low, m

(***************************************************************************)
(* The order of the rows                                                   *)
(***************************************************************************)

RowsTyped == Stored \subseteq Outputs /\ rows \in [Stored -> Row]

\* Rowids are distinct, and ranks.
RowsInOrder ==
    /\ \A g, h \in Stored : rows[g].rowid = rows[h].rowid => g = h
    /\ \A h \in Stored : rows[h].rowid <= Cardinality(Stored)

ByAge == {w \in Stored \X Stored : Older(w[1], w[2])}

ByRowid == {w \in Stored \X Stored : rows[w[1]].rowid < rows[w[2]].rowid}

LEMMA StoredFinite ==
    ASSUME RowsTyped
    PROVE  IsFiniteSet(Stored) /\ Cardinality(Stored) \in Nat
  <1>1. Stored \in SUBSET Outputs
    BY DEF RowsTyped
  <1> QED
    BY <1>1, RecallAssumption, FS_Subset, FS_CardinalityType

LEMMA AgeIsStrict ==
    ASSUME RowsTyped, RowsInOrder, NEW S \in SUBSET Stored
    PROVE  StrictOrder(S, ByAge) /\ \A h \in S : Below(S, ByAge, h) = {g \in S : Older(g, h)}
  <1>1. \A g \in S : rows[g].at \in Nat /\ rows[g].rowid \in Nat
    BY DEF RowsTyped, Row
  <1>2. \A g, h \in S : <<g, h>> \in ByAge <=> Older(g, h)
    BY DEF ByAge
  <1>3. \A g \in S : ~Older(g, g)
    BY <1>1 DEF Older
  <1>4. \A g, h \in S : g # h => Older(g, h) \/ Older(h, g)
    BY <1>1 DEF Older, RowsInOrder
  <1>5. \A f, g, h \in S : Older(f, g) /\ Older(g, h) => Older(f, h)
    BY <1>1 DEF Older
  <1>6. StrictOrder(S, ByAge)
    BY <1>2, <1>3, <1>4, <1>5 DEF StrictOrder
  <1>7. \A h \in S : Below(S, ByAge, h) = {g \in S : Older(g, h)}
    BY <1>2 DEF Below
  <1> QED
    BY <1>6, <1>7

LEMMA RowidIsStrict ==
    ASSUME RowsTyped, RowsInOrder, NEW S \in SUBSET Stored
    PROVE  /\ StrictOrder(S, ByRowid)
           /\ \A h \in S : Below(S, ByRowid, h) = {g \in S : rows[g].rowid < rows[h].rowid}
  <1>1. \A g \in S : rows[g].rowid \in Nat
    BY DEF RowsTyped, Row
  <1>2. \A g, h \in S : <<g, h>> \in ByRowid <=> rows[g].rowid < rows[h].rowid
    BY DEF ByRowid
  <1>3. StrictOrder(S, ByRowid)
    BY <1>1, <1>2 DEF StrictOrder, RowsInOrder
  <1>4. \A h \in S : Below(S, ByRowid, h) = {g \in S : rows[g].rowid < rows[h].rowid}
    BY <1>2 DEF Below
  <1> QED
    BY <1>3, <1>4

\* DELETE ... LIMIT n deletes n rows, if there are n.
LEMMA OldestCount ==
    ASSUME RowsTyped, RowsInOrder, NEW S \in SUBSET Stored, NEW n \in Nat
    PROVE  Cardinality(Oldest(S, n)) = IF n <= Cardinality(S) THEN n ELSE Cardinality(S)
  <1>1. IsFiniteSet(S)
    BY StoredFinite, FS_Subset
  <1>2. StrictOrder(S, ByAge) /\ \A h \in S : Below(S, ByAge, h) = {g \in S : Older(g, h)}
    BY AgeIsStrict
  <1>3. Oldest(S, n) = {h \in S : Cardinality(Below(S, ByAge, h)) < n}
    BY <1>2 DEF Oldest
  <1> QED
    BY <1>1, <1>2, <1>3, LeastNumber

\* Rows that close ranks stay in order.
LEMMA KeepingInOrder ==
    ASSUME RowsTyped, RowsInOrder, NEW D \in SUBSET Stored, rows' = Keeping(D)
    PROVE  RowsTyped' /\ RowsInOrder' /\ DOMAIN rows' = Stored \ D
  <1> DEFINE K == Stored \ D
             upto(h) == {g \in K : rows[g].rowid <= rows[h].rowid}
  <1>1. DOMAIN rows' = K /\ \A h \in K : rows'[h] = [rows[h] EXCEPT !.rowid = Cardinality(upto(h))]
    BY DEF Keeping
  <1>2. IsFiniteSet(K)
    BY StoredFinite, FS_Difference
  <1>3. K \in SUBSET Stored /\ \A h \in K : rows[h] \in Row /\ rows[h].rowid \in Nat
    BY DEF RowsTyped, Row
  <1>4. /\ StrictOrder(K, ByRowid)
        /\ \A h \in K : Below(K, ByRowid, h) = {g \in K : rows[g].rowid < rows[h].rowid}
    BY <1>3, RowidIsStrict
  <1>5. \A h \in K : /\ upto(h) = Below(K, ByRowid, h) \cup {h}
                     /\ h \notin Below(K, ByRowid, h)
    <2> SUFFICES ASSUME NEW h \in K
                 PROVE  /\ upto(h) = Below(K, ByRowid, h) \cup {h}
                        /\ h \notin Below(K, ByRowid, h)
      OBVIOUS
    <2>1. \A g \in K : rows[g].rowid <= rows[h].rowid
                          <=> (rows[g].rowid < rows[h].rowid \/ g = h)
      BY <1>3 DEF RowsInOrder
    <2>2. Below(K, ByRowid, h) = {g \in K : rows[g].rowid < rows[h].rowid}
      BY <1>4
    <2>3. ~(rows[h].rowid < rows[h].rowid)
      BY <1>3
    <2>4. upto(h) = Below(K, ByRowid, h) \cup {h}
      BY <2>1, <2>2
    <2> QED
      BY <2>2, <2>3, <2>4
  <1> HIDE DEF upto, K
  <1>6. \A h \in K : /\ Cardinality(upto(h)) = Cardinality(Below(K, ByRowid, h)) + 1
                     /\ Cardinality(Below(K, ByRowid, h)) \in Nat
                     /\ Cardinality(Below(K, ByRowid, h)) < Cardinality(K)
    <2> SUFFICES ASSUME NEW h \in K
                 PROVE  /\ Cardinality(upto(h)) = Cardinality(Below(K, ByRowid, h)) + 1
                        /\ Cardinality(Below(K, ByRowid, h)) \in Nat
                        /\ Cardinality(Below(K, ByRowid, h)) < Cardinality(K)
      OBVIOUS
    <2>1. /\ IsFiniteSet(Below(K, ByRowid, h))
          /\ Cardinality(Below(K, ByRowid, h)) \in Nat
          /\ Cardinality(Below(K, ByRowid, h)) < Cardinality(K)
      BY <1>2, <1>4, RankType
    <2>2. Cardinality(upto(h)) = Cardinality(Below(K, ByRowid, h)) + 1
      BY <1>5, <2>1, FS_AddElement
    <2> QED
      BY <2>1, <2>2
  <1>7. Cardinality(K) \in Nat
    BY <1>2, FS_CardinalityType
  <1>8. \A h \in K : rows'[h] \in Row /\ rows'[h].rowid = Cardinality(upto(h))
    BY <1>1, <1>3, <1>6 DEF Row
  <1>9. rows' \in [K -> Row]
    <2>1. rows' = [h \in K |-> rows'[h]]
      BY <1>1 DEF Keeping, K
    <2> QED
      BY <1>8, <2>1
  <1>10. RowsTyped'
    BY <1>1, <1>3, <1>9 DEF RowsTyped, Stored
  <1>11. ASSUME NEW g \in K, NEW h \in K, rows'[g].rowid = rows'[h].rowid PROVE g = h
    <2>1. Cardinality(Below(K, ByRowid, g)) = Cardinality(Below(K, ByRowid, h))
      BY <1>6, <1>8, <1>11
    <2> QED
      BY <1>2, <1>4, <2>1, RanksAreDistinct
  <1>12. \A h \in K : rows'[h].rowid <= Cardinality(K)
    BY <1>6, <1>7, <1>8
  <1>13. RowsInOrder'
    BY <1>1, <1>11, <1>12 DEF RowsInOrder, Stored
  <1> QED
    BY <1>1, <1>10, <1>13 DEF K

\* An inserted row is the last.
LEMMA UpsertedInOrder ==
    ASSUME RowsTyped, RowsInOrder, NEW h \in Outputs, NEW t \in Nat, rows' = Upserted(h, t)
    PROVE  RowsTyped' /\ RowsInOrder' /\ DOMAIN rows' = Stored \cup {h}
  <1>0. \A g \in Stored : rows[g] \in Row /\ rows[g].rowid \in Nat
    BY DEF RowsTyped, Row
  <1>1. Cardinality(Stored) \in Nat /\ IsFiniteSet(Stored)
    BY StoredFinite
  <1>2. DOMAIN rows' = Stored \cup {h}
    BY DEF Upserted
  <1>3. CASE h \in Stored
    <2>1. DOMAIN rows' = Stored
      BY <1>2, <1>3
    <2>2. \A g \in Stored : rows'[g] = IF g = h THEN [rows[h] EXCEPT !.at = t] ELSE rows[g]
      BY <1>3 DEF Upserted
    <2>3. \A g \in Stored : rows'[g] \in Row /\ rows'[g].rowid = rows[g].rowid
      BY <1>0, <2>2 DEF Row
    <2>4. rows' = [g \in Stored |-> rows'[g]]
      BY <2>1 DEF Upserted
    <2>5. rows' \in [Stored -> Row]
      BY <2>3, <2>4
    <2> QED
      BY <1>2, <2>1, <2>3, <2>5 DEF RowsTyped, RowsInOrder, Stored
  <1>4. CASE h \notin Stored
    <2> DEFINE T == Stored \cup {h}
               c == Cardinality(Stored)
    <2>1. \A g \in T : rows'[g] = IF g = h THEN [at |-> t, rowid |-> c + 1] ELSE rows[g]
      BY <1>4 DEF Upserted
    <2>2. \A g \in T : rows'[g] \in Row
      BY <1>0, <1>1, <2>1 DEF Row
    <2>3. rows' = [g \in T |-> rows'[g]]
      BY <1>2 DEF Upserted
    <2>4. rows' \in [T -> Row]
      BY <2>2, <2>3
    <2>5. Cardinality(T) = c + 1
      BY <1>1, <1>4, FS_AddElement
    <2>6. T \subseteq Outputs
      BY DEF RowsTyped
    <2>7. \A g \in T : rows'[g].rowid = IF g = h THEN c + 1 ELSE rows[g].rowid
      BY <2>1
    <2>8. \A g \in Stored : rows[g].rowid <= c
      BY DEF RowsInOrder
    <2>9. c \in Nat
      BY <1>1
    <2>10. DOMAIN rows' = T
      BY <1>2
    <2> HIDE DEF c
    <2>11. \A f, g \in T : rows'[f].rowid = rows'[g].rowid => f = g
      BY <1>0, <2>7, <2>8, <2>9 DEF RowsInOrder
    <2>12. \A g \in T : rows'[g].rowid <= c + 1
      BY <1>0, <2>7, <2>8, <2>9
    <2> HIDE DEF T
    <2> QED
      BY <1>2, <2>4, <2>5, <2>6, <2>10, <2>11, <2>12 DEF RowsTyped, RowsInOrder, Stored
  <1> QED
    BY <1>3, <1>4

(***************************************************************************)
(* The inductive invariant                                                 *)
(***************************************************************************)

\* The process v's own row is spared until another process takes it; only
\* trim_family may take a posthook row from the process that stored it.
Spared(v) ==
    /\ v.pc \in {"expire", "count", "shrink", "trim"} /\ ~v.taken => v.output \in Stored
    /\ v.pc = "print" /\ v.output \notin Posthook /\ ~v.taken => v.output \in Stored
    /\ v.pc = "trim" => v.output \in Posthook

\* A stale count plus the drift since is the number of rows.
Counted(v) ==
    IF v.pc = "shrink"
    THEN v.excess > 0 /\ Cardinality(Stored) = MaxEntries + v.excess + v.drift
    ELSE v.drift = 0

ProcOK(v) ==
    /\ v \in Proc
    /\ v.output = NoOutput <=> v.pc = "idle"
    /\ Spared(v)
    /\ Counted(v)

RecallInv ==
    /\ now \in Nat
    /\ RowsTyped
    /\ RowsInOrder
    /\ proc \in [Procs -> Proc]
    /\ \A p \in Procs : ProcOK(proc[p])

LEMMA IdleOK == ProcOK(Idle)
  BY DEF ProcOK, Idle, Proc, Spared, Counted

LEMMA InitRecallInv == RecallInit => RecallInv
  <1> SUFFICES ASSUME RecallInit PROVE RecallInv
    OBVIOUS
  <1>1. RowsTyped /\ RowsInOrder
    BY DEF RecallInit, RowsTyped, RowsInOrder, Stored
  <1>2. Idle \in Proc
    BY IdleOK DEF ProcOK
  <1> QED
    BY <1>1, <1>2, IdleOK DEF RecallInit, RecallInv

\* A step that leaves the table alone and changes one process.
LEMMA LocalStep ==
    ASSUME RecallInv, NEW p \in Procs, NEW r, ProcOK(r),
           proc' = [proc EXCEPT ![p] = r], UNCHANGED rows, now' = now
    PROVE  RecallInv'
  <1>1. \A q \in Procs : proc'[q] = IF q = p THEN r ELSE proc[q]
    BY DEF RecallInv
  <1>2. \A q \in Procs : ProcOK(proc'[q])
    BY <1>1 DEF RecallInv
  <1>4. proc' \in [Procs -> Proc]
    BY DEF RecallInv, ProcOK
  <1>5. \A q \in Procs : ProcOK(proc[q])'
    BY <1>2 DEF ProcOK, Spared, Counted, Stored
  <1>6. RowsTyped' /\ RowsInOrder'
    BY DEF RecallInv, RowsTyped, RowsInOrder, Stored
  <1> QED
    BY <1>4, <1>5, <1>6 DEF RecallInv

LEMMA StoreInv ==
    ASSUME RecallInv, NEW p \in Procs, NEW h \in Outputs, Store(p, h)
    PROVE  RecallInv'
  <1> DEFINE r == [Idle EXCEPT !.pc = "insert", !.output = h, !.stamp = now]
  <1>1. now \in Nat /\ h # NoOutput
    BY RecallAssumption DEF RecallInv
  <1>2. ProcOK(r)
    <2> DEFINE r1 == [Idle EXCEPT !.pc = "insert", !.output = h]
    <2>0. r = [r1 EXCEPT !.stamp = now]
      OBVIOUS
    <2>a. Idle \in Proc /\ Idle.drift = 0
      BY IdleOK DEF ProcOK, Idle
    <2>1. r1 \in Proc /\ r1.pc = "insert" /\ r1.output = h /\ r1.drift = 0
      BY <1>1, <2>a DEF Proc
    <2> HIDE DEF r, r1
    <2>2. r \in Proc
      BY <1>1, <2>0, <2>1 DEF Proc
    <2>3. r.pc = "insert" /\ r.output = h /\ r.drift = 0
      BY <2>0, <2>1 DEF Proc
    <2> QED
      BY <1>1, <2>2, <2>3 DEF ProcOK, Spared, Counted
  <1>3. proc' = [proc EXCEPT ![p] = r] /\ UNCHANGED rows /\ now' = now
    BY DEF Store
  <1> HIDE DEF r
  <1> QED
    BY <1>2, <1>3, LocalStep

LEMMA EndsInv ==
    ASSUME RecallInv, NEW p \in Procs, PrintHint(p) \/ GiveUpStore(p)
    PROVE  RecallInv'
  <1>1. proc' = [proc EXCEPT ![p] = Idle] /\ UNCHANGED rows /\ now' = now
    BY DEF PrintHint, GiveUpStore, Ends
  <1> QED
    BY <1>1, IdleOK, LocalStep

LEMMA CountInv ==
    ASSUME RecallInv, NEW p \in Procs, Count(p)
    PROVE  RecallInv'
  <1>1. PICK n \in {Cardinality(Stored), 0} :
           proc' = [proc EXCEPT ![p] =
              [proc[p] EXCEPT !.pc = IF Excess(n) > 0 THEN "shrink" ELSE AfterEvict(p),
                              !.excess = Excess(n)]]
    BY DEF Count
  <1> DEFINE e == Excess(n)
             r == [proc[p] EXCEPT !.pc = IF e > 0 THEN "shrink" ELSE AfterEvict(p),
                                  !.excess = e]
  <1>2. Cardinality(Stored) \in Nat
    BY StoredFinite DEF RecallInv
  <1>3. e \in Nat /\ (e > 0 => n = MaxEntries + e /\ n = Cardinality(Stored))
    BY <1>2, RecallAssumption DEF Excess
  <1>4. /\ proc[p] \in Proc /\ proc[p].pc = "count" /\ proc[p].output # NoOutput
        /\ ProcOK(proc[p])
    BY DEF RecallInv, Count, At, ProcOK
  <1>5. proc' = [proc EXCEPT ![p] = r] /\ UNCHANGED rows /\ now' = now
    BY <1>1 DEF Count
  <1> HIDE DEF e
  <1>6. /\ r \in Proc /\ r.output = proc[p].output /\ r.taken = proc[p].taken
        /\ r.excess = e /\ r.drift = proc[p].drift
        /\ r.pc = IF e > 0 THEN "shrink" ELSE AfterEvict(p)
    BY <1>3, <1>4 DEF Proc, AfterEvict
  <1>7. proc[p].drift = 0 /\ (proc[p].taken \/ proc[p].output \in Stored)
    BY <1>4 DEF ProcOK, Counted, Spared
  <1>8. Spared(r)
    BY <1>6, <1>7 DEF Spared, AfterEvict
  <1>9. Counted(r)
    <2>1. CASE e > 0
      BY <1>2, <1>3, <1>6, <1>7, <2>1, RecallAssumption DEF Counted
    <2>2. CASE ~(e > 0)
      BY <1>6, <1>7, <2>2 DEF Counted, AfterEvict
    <2> QED
      BY <2>1, <2>2
  <1>10. ProcOK(r)
    <2>1. r.output # NoOutput /\ r.pc # "idle"
      BY <1>4, <1>6 DEF AfterEvict
    <2> QED
      BY <1>6, <1>8, <1>9, <2>1 DEF ProcOK
  <1> HIDE DEF r
  <1> QED
    BY <1>5, <1>10, LocalStep

LEMMA InsertInv ==
    ASSUME RecallInv, NEW p \in Procs, Insert(p)
    PROVE  RecallInv'
  <1> DEFINE h == proc[p].output
             new == IF h \in Stored THEN 0 ELSE 1
  <1>0. /\ proc \in [Procs -> Proc] /\ proc[p] \in Proc /\ proc[p].pc = "insert"
        /\ h \in Outputs /\ proc[p].stamp \in Nat /\ proc[p].drift = 0
        /\ RowsTyped /\ RowsInOrder
    BY DEF RecallInv, ProcOK, Insert, At, Proc, Counted
  <1>1. /\ rows' = Upserted(h, proc[p].stamp) /\ now' = now
        /\ proc' = [q \in Procs |->
              IF q = p THEN [proc[p] EXCEPT !.pc = "expire", !.stamp = 0]
              ELSE [proc[q] EXCEPT !.drift = Drifts(q, new)]]
    BY DEF Insert
  <1>2. RowsTyped' /\ RowsInOrder' /\ DOMAIN rows' = Stored \cup {h}
    BY <1>0, <1>1, UpsertedInOrder
  <1>3. IsFiniteSet(Stored) /\ Cardinality(Stored) \in Nat
    BY <1>0, StoredFinite
  <1>4. Cardinality(Stored \cup {h}) = Cardinality(Stored) + new
    <2>1. CASE h \in Stored
      <3>1. Stored \cup {h} = Stored /\ new = 0
        BY <2>1
      <3> HIDE DEF h, new
      <3> QED
        BY <1>3, <3>1
    <2>2. CASE h \notin Stored
      BY <1>3, <2>2, FS_AddElement
    <2> QED
      BY <2>1, <2>2
  <1>5. ASSUME NEW q \in Procs PROVE ProcOK(proc[q])' /\ proc'[q] \in Proc
    <2>1. CASE q = p
      <3> DEFINE r == [proc[p] EXCEPT !.pc = "expire", !.stamp = 0]
      <3>1. proc'[q] = r
        BY <1>1, <2>1
      <3>2. r \in Proc /\ r.pc = "expire" /\ r.output = h /\ r.drift = 0
        BY <1>0 DEF Proc
      <3>3. h # NoOutput
        BY <1>0, RecallAssumption
      <3> HIDE DEF r
      <3> QED
        BY <1>2, <3>1, <3>2, <3>3 DEF ProcOK, Spared, Counted, Stored
    <2>2. CASE q # p
      <3> DEFINE r == [proc[q] EXCEPT !.drift = Drifts(q, new)]
      <3>1. proc'[q] = r
        BY <1>1, <2>2
      <3>2. proc[q] \in Proc /\ ProcOK(proc[q]) /\ proc[q].drift \in Int
        BY DEF RecallInv, ProcOK, Proc
      <3>3. Drifts(q, new) = IF proc[q].pc = "shrink" THEN proc[q].drift + new ELSE proc[q].drift
        BY DEF Drifts, At
      <3> HIDE DEF new
      <3>4. new \in {0, 1}
        BY DEF new
      <3>5. /\ r \in Proc /\ r.pc = proc[q].pc /\ r.output = proc[q].output
            /\ r.taken = proc[q].taken /\ r.excess = proc[q].excess
            /\ r.drift = Drifts(q, new)
        BY <3>2, <3>3, <3>4 DEF Proc
      <3> HIDE DEF r
      <3>6. Spared(proc[q])'
        BY <1>2, <3>1, <3>2, <3>5 DEF ProcOK, Spared, Stored
      <3>7. Counted(proc[q])'
        <4>1. CASE proc[q].pc = "shrink"
          <5>1. /\ r.excess > 0 /\ r.drift = proc[q].drift + new
                /\ Cardinality(Stored) = MaxEntries + r.excess + proc[q].drift
            BY <3>2, <3>3, <3>5, <4>1 DEF ProcOK, Counted
          <5>2. r.excess \in Nat
            BY <3>5 DEF Proc
          <5>3. Cardinality(Stored') = MaxEntries + r.excess + r.drift
            BY <1>2, <1>4, <3>2, <3>4, <5>1, <5>2, RecallAssumption DEF Stored
          <5> QED
            BY <3>1, <3>5, <4>1, <5>1, <5>3 DEF Counted
        <4>2. CASE proc[q].pc # "shrink"
          BY <3>1, <3>2, <3>3, <3>5, <4>2 DEF ProcOK, Counted
        <4> QED
          BY <4>1, <4>2
      <3> QED
        BY <3>1, <3>2, <3>5, <3>6, <3>7 DEF ProcOK
    <2> QED
      BY <2>1, <2>2
  <1>6. proc' \in [Procs -> Proc]
    BY <1>1, <1>5
  <1> QED
    BY <1>1, <1>2, <1>5, <1>6 DEF RecallInv

\* A deletion keeps the invariant: p never deletes its own row, unless it
\* trims the posthook family.
LEMMA DeletesInv ==
    ASSUME RecallInv, NEW p \in Procs, NEW S \in SUBSET Stored,
           NEW pc \in {"count", "trim", "print"}, Deletes(p, S, pc),
           proc[p].pc \in {"expire", "shrink", "trim"},
           proc[p].output \notin S \/ (pc = "print" /\ proc[p].output \in Posthook),
           pc = "trim" => proc[p].output \in Posthook
    PROVE  RecallInv'
  <1>1. PICK D \in {S, {}} :
           /\ rows' = Keeping(D)
           /\ proc' = [q \in Procs |->
                 IF q = p
                 THEN [proc[p] EXCEPT !.pc = pc, !.excess = 0, !.drift = 0]
                 ELSE [proc[q] EXCEPT
                           !.drift = Drifts(q, 0 - Cardinality(D)),
                           !.taken = @ \/ (HasStored(q) /\ proc[q].output \in D)]]
           /\ now' = now
    BY DEF Deletes
  <1>2. D \in SUBSET Stored /\ D \subseteq S
    OBVIOUS
  <1>3. RowsTyped' /\ RowsInOrder' /\ DOMAIN rows' = Stored \ D
    BY <1>1, <1>2, KeepingInOrder DEF RecallInv
  <1>4. /\ IsFiniteSet(Stored) /\ Cardinality(Stored) \in Nat
        /\ IsFiniteSet(D) /\ Cardinality(D) \in Nat
    BY <1>2, StoredFinite, FS_Subset, FS_CardinalityType DEF RecallInv
  <1>5. Cardinality(Stored \ D) = Cardinality(Stored) - Cardinality(D)
    <2>1. Stored \cap D = D
      BY <1>2
    <2> QED
      BY <1>4, <2>1, FS_Difference
  <1> DEFINE c == Cardinality(D)
  <1>6. ASSUME NEW q \in Procs PROVE ProcOK(proc[q])' /\ proc'[q] \in Proc
    <2>0. proc[q] \in Proc /\ ProcOK(proc[q])
      BY DEF RecallInv, ProcOK
    <2>1. CASE q = p
      <3> DEFINE r == [proc[p] EXCEPT !.pc = pc, !.excess = 0, !.drift = 0]
      <3>1. proc'[q] = r
        BY <1>1, <2>1
      <3>a. proc[p] \in Proc
        BY <2>0, <2>1
      <3> DEFINE r1 == [proc[p] EXCEPT !.pc = pc, !.excess = 0]
      <3>b. r = [r1 EXCEPT !.drift = 0]
        OBVIOUS
      <3>c. /\ r1 \in Proc /\ r1.pc = pc /\ r1.output = proc[p].output
            /\ r1.taken = proc[p].taken
        BY <3>a DEF Proc
      <3> HIDE DEF r, r1
      <3>2. /\ r \in Proc /\ r.pc = pc /\ r.output = proc[p].output
            /\ r.taken = proc[p].taken /\ r.drift = 0
        BY <3>b, <3>c DEF Proc
      <3>3. proc[p].output # NoOutput
        BY <2>0, <2>1 DEF ProcOK
      <3>4. proc[p].taken \/ proc[p].output \in Stored
        BY <2>0, <2>1 DEF ProcOK, Spared
      <3>5. /\ r.pc # "idle" /\ r.pc # "shrink" /\ r.pc # "expire"
            /\ (r.pc = "trim" => r.output \in Posthook)
        BY <3>2
      <3>6. r.taken \/ r.output \in Stored \ D \/ (r.pc = "print" /\ r.output \in Posthook)
        BY <1>2, <3>2, <3>4
      <3>7. Spared(proc[q])'
        BY <1>3, <3>1, <3>5, <3>6 DEF Spared, Stored
      <3>8. Counted(proc[q])'
        BY <3>1, <3>2, <3>5 DEF Counted
      <3> QED
        BY <3>1, <3>2, <3>3, <3>5, <3>7, <3>8 DEF ProcOK
    <2>2. CASE q # p
      <3> DEFINE d == Drifts(q, 0 - c)
                 t == proc[q].taken \/ (HasStored(q) /\ proc[q].output \in D)
                 r == [proc[q] EXCEPT !.drift = d, !.taken = t]
      <3>1. proc'[q] = r
        BY <1>1, <2>2
      <3>2. proc[q].drift \in Int /\ proc[q].taken \in BOOLEAN /\ c \in Nat
        BY <1>4, <2>0 DEF Proc
      <3>3. d = IF proc[q].pc = "shrink" THEN proc[q].drift + (0 - c) ELSE proc[q].drift
        BY DEF Drifts, At
      <3>4. t \in BOOLEAN
        OBVIOUS
      <3> HIDE DEF d, c
      <3>5. d \in Int
        BY <3>2, <3>3
      <3>6. proc[q].pc \in {"expire", "count", "shrink", "trim", "print"} => HasStored(q)
        BY DEF HasStored
      <3>7. t <=> proc[q].taken \/ (HasStored(q) /\ proc[q].output \in D)
        OBVIOUS
      <3> HIDE DEF t
      <3>8. /\ r \in Proc /\ r.pc = proc[q].pc /\ r.output = proc[q].output
            /\ r.taken = t /\ r.excess = proc[q].excess /\ r.drift = d
        BY <2>0, <3>4, <3>5 DEF Proc
      <3> HIDE DEF r
      <3>9. Spared(proc[q])'
        <4>1. /\ r.pc \in {"expire", "count", "shrink", "trim"} /\ ~r.taken
                    => r.output \in Stored \ D
              /\ r.pc = "print" /\ r.output \notin Posthook /\ ~r.taken
                    => r.output \in Stored \ D
              /\ r.pc = "trim" => r.output \in Posthook
          BY <2>0, <3>6, <3>7, <3>8 DEF ProcOK, Spared
        <4> QED
          BY <1>3, <3>1, <4>1 DEF Spared, Stored
      <3>10. Counted(proc[q])'
        <4>1. CASE proc[q].pc = "shrink"
          <5>1. /\ r.excess > 0 /\ r.drift = proc[q].drift + (0 - c)
                /\ Cardinality(Stored) = MaxEntries + r.excess + proc[q].drift
            BY <2>0, <3>3, <3>8, <4>1 DEF ProcOK, Counted
          <5>2. r.excess \in Nat
            BY <3>8 DEF Proc
          <5>3. Cardinality(Stored') = Cardinality(Stored) - c
            BY <1>3, <1>5 DEF c, Stored
          <5>4. Cardinality(Stored') = MaxEntries + r.excess + r.drift
            BY <1>4, <3>2, <5>1, <5>2, <5>3, RecallAssumption
          <5> QED
            BY <3>1, <3>8, <4>1, <5>1, <5>4 DEF Counted
        <4>2. CASE proc[q].pc # "shrink"
          BY <2>0, <3>1, <3>3, <3>8, <4>2 DEF ProcOK, Counted
        <4> QED
          BY <4>1, <4>2
      <3> QED
        BY <2>0, <3>1, <3>8, <3>9, <3>10 DEF ProcOK
    <2> QED
      BY <2>1, <2>2
  <1>7. proc' \in [Procs -> Proc]
    BY <1>1, <1>6
  <1> QED
    BY <1>1, <1>3, <1>6, <1>7 DEF RecallInv

LEMMA ExpireInv ==
    ASSUME RecallInv, NEW p \in Procs, Expire(p)
    PROVE  RecallInv'
  <1> DEFINE S == {h \in Stored \ {proc[p].output} : Expired(h)}
  <1>1. proc[p].pc = "expire" /\ Deletes(p, S, "count")
    BY DEF Expire, At
  <1>2. S \in SUBSET Stored /\ proc[p].output \notin S
    OBVIOUS
  <1> HIDE DEF S
  <1> QED
    BY <1>1, <1>2, DeletesInv

LEMMA ShrinkInv ==
    ASSUME RecallInv, NEW p \in Procs, Shrink(p)
    PROVE  RecallInv'
  <1> DEFINE S == Oldest(Evictable(p), proc[p].excess)
  <1>1. proc[p].pc = "shrink" /\ Deletes(p, S, AfterEvict(p))
    BY DEF Shrink, At
  <1>2. S \in SUBSET Stored /\ proc[p].output \notin S
    BY DEF Oldest, Evictable
  <1>3. /\ AfterEvict(p) \in {"count", "trim", "print"}
        /\ AfterEvict(p) = "trim" => proc[p].output \in Posthook
    BY DEF AfterEvict
  <1> HIDE DEF S
  <1> QED
    BY <1>1, <1>2, <1>3, DeletesInv

LEMMA TrimInv ==
    ASSUME RecallInv, NEW p \in Procs, Trim(p)
    PROVE  RecallInv'
  <1> DEFINE S == BeyondNewest(Stored \cap Posthook, MaxPosthook)
  <1>1. proc[p].pc = "trim" /\ Deletes(p, S, "print")
    BY DEF Trim, At
  <1>2. S \in SUBSET Stored
    BY DEF BeyondNewest
  <1>3. proc[p].output \in Posthook
    BY <1>1 DEF RecallInv, ProcOK, Spared
  <1> HIDE DEF S
  <1> QED
    BY <1>1, <1>2, <1>3, DeletesInv

LEMMA SecondInv == RecallInv /\ Second => RecallInv'
  BY DEF RecallInv, Second, RowsTyped, RowsInOrder, Stored, ProcOK, Spared, Counted

LEMMA IdleRecallInv == RecallInv /\ UNCHANGED recallVars => RecallInv'
  BY DEF RecallInv, recallVars, RowsTyped, RowsInOrder, Stored, ProcOK, Spared, Counted

LEMMA NextRecallInv == RecallInv /\ [RecallNext]_recallVars => RecallInv'
  <1> SUFFICES ASSUME RecallInv, [RecallNext]_recallVars PROVE RecallInv'
    OBVIOUS
  <1>1. ASSUME NEW p \in Procs, NEW h \in Outputs, Store(p, h) PROVE RecallInv'
    BY <1>1, StoreInv
  <1>2. ASSUME NEW p \in Procs, StoreStep(p) PROVE RecallInv'
    BY <1>2, InsertInv, ExpireInv, CountInv, ShrinkInv, TrimInv, EndsInv DEF StoreStep
  <1>3. CASE Second
    BY <1>3, SecondInv
  <1>4. CASE UNCHANGED recallVars
    BY <1>4, IdleRecallInv
  <1> QED
    BY <1>1, <1>2, <1>3, <1>4 DEF RecallNext

\* RecallInv is inductive.
THEOREM RecallInvHolds == RecallSpec => []RecallInv
  BY InitRecallInv, NextRecallInv, PTL DEF RecallSpec

(***************************************************************************)
(* The properties                                                          *)
(***************************************************************************)

\* Type correctness of the table and of the processes' records.
THEOREM RecallTypeCorrect == RecallSpec => []RecallTypeOK
  <1>1. RecallInv => RecallTypeOK
    BY DEF RecallInv, RowsTyped, ProcOK, RecallTypeOK
  <1> QED
    BY <1>1, RecallInvHolds, PTL

\* The hash printed for a failure's output resolves unless another process
\* evicted the row meanwhile, for any budget, however many processes there
\* are and however old the row (retriever.rs:442-465).
THEOREM FailureHints == RecallSpec => []FailureHintsResolve
  <1>1. RecallInv => FailureHintsResolve
    BY DEF RecallInv, ProcOK, Spared, FailureHintsResolve
  <1> QED
    BY <1>1, RecallInvHolds, PTL

Evicting(p) == Oldest(Evictable(p), proc[p].excess)

\* What ends in "shrink" is the DELETE, done or failed.
LEMMA ShrinkEndsByDeleting ==
    ASSUME RecallInv, [RecallNext]_recallVars, NEW p \in Procs, ShrinkEnds(p)
    PROVE  /\ Evicting(p) \in SUBSET Stored
           /\ DOMAIN rows' = Stored \/ DOMAIN rows' = Stored \ Evicting(p)
  <1>1. proc[p].pc = "shrink" /\ proc'[p].pc \in {"trim", "print"}
    BY DEF ShrinkEnds, At
  <1>2. proc \in [Procs -> Proc]
    BY DEF RecallInv
  <1>3. Evicting(p) \in SUBSET Stored
    BY DEF Evicting, Oldest, Evictable
  <1>4. ASSUME NEW q \in Procs, NEW h \in Outputs, Store(q, h) PROVE FALSE
    BY <1>1, <1>2, <1>4 DEF Store, At, Idle
  <1>5. ASSUME NEW q \in Procs, StoreStep(q) PROVE Shrink(p)
    <2>1. ASSUME NEW r \in Procs, r # p, proc'[p].pc # proc[p].pc, StoreStep(r) PROVE FALSE
      <3>1. ASSUME Insert(r) PROVE FALSE
        <4> DEFINE d == Drifts(p, IF proc[r].output \in Stored THEN 0 ELSE 1)
        <4>1. proc'[p] = [proc[p] EXCEPT !.drift = d]
          BY <2>1, <3>1 DEF Insert
        <4> HIDE DEF d
        <4>2. proc[p] \in Proc
          BY <1>2
        <4> QED
          BY <2>1, <4>1, <4>2 DEF Proc
      <3>2. ASSUME NEW S, NEW pc, Deletes(r, S, pc) PROVE FALSE
        <4>0. PICK D \in {S, {}} :
                 proc'[p] = [proc[p] EXCEPT
                    !.drift = Drifts(p, 0 - Cardinality(D)),
                    !.taken = @ \/ (HasStored(p) /\ proc[p].output \in D)]
          BY <2>1, <3>2 DEF Deletes
        <4> DEFINE d == Drifts(p, 0 - Cardinality(D))
                   t == proc[p].taken \/ (HasStored(p) /\ proc[p].output \in D)
        <4>1. proc'[p] = [proc[p] EXCEPT !.drift = d, !.taken = t]
          BY <4>0
        <4> HIDE DEF d, t
        <4>2. proc[p] \in Proc
          BY <1>2
        <4> QED
          BY <2>1, <4>1, <4>2 DEF Proc
      <3>3. ASSUME Count(r) PROVE FALSE
        BY <1>1, <1>2, <2>1, <3>3 DEF Count
      <3>4. ASSUME Ends(r) PROVE FALSE
        BY <1>1, <1>2, <2>1, <3>4 DEF Ends
      <3> QED
        BY <2>1, <3>1, <3>2, <3>3, <3>4
           DEF StoreStep, Expire, Shrink, Trim, PrintHint, GiveUpStore
    <2>2. q = p
      BY <1>1, <1>5, <2>1
    <2>3. ~Ends(p)
      BY <1>1, <1>2 DEF Ends, Idle
    <2> QED
      BY <1>1, <1>5, <2>2, <2>3
         DEF StoreStep, Insert, Expire, Count, Trim, PrintHint, GiveUpStore, At
  <1>6. ~Second /\ ~UNCHANGED recallVars
    BY <1>1 DEF Second, recallVars
  <1>7. Shrink(p)
    BY <1>4, <1>5, <1>6 DEF RecallNext
  <1>8. PICK D \in {Evicting(p), {}} : rows' = Keeping(D)
    BY <1>7 DEF Shrink, Deletes, Evicting
  <1>9. DOMAIN rows' = Stored \ D
    BY <1>8 DEF Keeping
  <1> QED
    BY <1>3, <1>8, <1>9

\* What one eviction leaves is told by its count, and by what the others did
\* since (retriever.rs:450-464).
LEMMA EvictionLeaves ==
    ASSUME RecallInv, NEW p \in Procs, proc[p].pc = "shrink",
           DOMAIN rows' = Stored \ Evicting(p), DOMAIN rows' # Stored
    PROVE  \/ Cardinality(DOMAIN rows') = MaxEntries + proc[p].drift
           \/ DOMAIN rows' \subseteq {proc[p].output}
  <1> DEFINE S == Evictable(p)
             E == Evicting(p)
             n == proc[p].excess
  <1>1. proc[p] \in Proc /\ Counted(proc[p]) /\ RowsTyped /\ RowsInOrder
    BY DEF RecallInv, ProcOK
  <1>2. n \in Nat /\ proc[p].drift \in Int
    BY <1>1 DEF Proc
  <1>3. Cardinality(Stored) = MaxEntries + n + proc[p].drift
    BY <1>1 DEF Counted
  <1>4. IsFiniteSet(Stored) /\ Cardinality(Stored) \in Nat
    BY <1>1, StoredFinite
  <1>5. S \in SUBSET Stored /\ E \in SUBSET S /\ S = Stored \ {proc[p].output}
    BY DEF Evictable, Evicting, Oldest
  <1>6. IsFiniteSet(S) /\ Cardinality(S) \in Nat /\ IsFiniteSet(E) /\ Cardinality(E) \in Nat
    BY <1>4, <1>5, FS_Subset, FS_CardinalityType
  <1>7. Cardinality(E) = IF n <= Cardinality(S) THEN n ELSE Cardinality(S)
    BY <1>1, <1>2, <1>5, OldestCount DEF Evicting
  <1> HIDE DEF S, E, n
  <1>8. CASE n <= Cardinality(S)
    <2>1. Cardinality(Stored \ E) = Cardinality(Stored) - Cardinality(E)
      <3>1. Stored \cap E = E
        BY <1>5
      <3> QED
        <4>1. Cardinality(Stored \ E) = Cardinality(Stored) - Cardinality(Stored \cap E)
          BY <1>4, FS_Difference
        <4> QED
          BY <3>1, <4>1
    <2>2. Cardinality(Stored \ E) = MaxEntries + proc[p].drift
      BY <1>2, <1>3, <1>4, <1>7, <1>8, <2>1, RecallAssumption
    <2> QED
      BY <2>2 DEF E
  <1>9. CASE ~(n <= Cardinality(S))
    <2>1. Cardinality(E) = Cardinality(S)
      BY <1>7, <1>9
    <2>2. E = S
      BY <1>5, <1>6, <2>1, FS_Subset
    <2> QED
      BY <1>5, <2>2 DEF E
  <1> QED
    BY <1>8, <1>9

\* Eviction from a stale count leaves the budget and the drift since the count,
\* or nothing but the process's own row (retriever.rs:450-464).
THEOREM EvictionLeavesTheBudget == RecallSpec => EvictionIsExact
  <1>1. ASSUME RecallInv, [RecallNext]_recallVars, NEW p \in Procs,
               ShrinkEnds(p), DOMAIN rows' # Stored
        PROVE  \/ Cardinality(DOMAIN rows') = MaxEntries + proc[p].drift
               \/ DOMAIN rows' \subseteq {proc[p].output}
    <2>1. DOMAIN rows' = Stored \ Evicting(p) /\ proc[p].pc = "shrink"
      BY <1>1, ShrinkEndsByDeleting DEF ShrinkEnds, At
    <2> QED
      BY <1>1, <2>1, EvictionLeaves
  <1>2. RecallInv /\ [RecallNext]_recallVars
        => [\A p \in Procs : ShrinkEnds(p) /\ DOMAIN rows' # Stored
               => \/ Cardinality(DOMAIN rows') = MaxEntries + proc[p].drift
                  \/ DOMAIN rows' \subseteq {proc[p].output}]_recallVars
    BY <1>1
  <1> QED
    BY <1>2, RecallInvHolds, PTL DEF RecallSpec, EvictionIsExact

\* What is evicted is no younger than what stays (retriever.rs:456-462).
LEMMA OldestAreOld ==
    ASSUME RecallInv, NEW S \in SUBSET Stored, NEW n \in Nat,
           NEW g \in Oldest(S, n), NEW h \in S \ Oldest(S, n)
    PROVE  rows[g].at <= rows[h].at
  <1>1. RowsTyped /\ RowsInOrder /\ g \in S /\ h \in S
    BY DEF RecallInv, Oldest
  <1>2. \A x \in S : rows[x].at \in Nat /\ rows[x].rowid \in Nat
    BY <1>1 DEF RowsTyped, Row
  <1> SUFFICES ASSUME rows[h].at < rows[g].at PROVE FALSE
    BY <1>1, <1>2
  <1>3. IsFiniteSet(S)
    BY <1>1, StoredFinite, FS_Subset
  <1>4. StrictOrder(S, ByAge) /\ \A x \in S : Below(S, ByAge, x) = {y \in S : Older(y, x)}
    BY <1>1, AgeIsStrict
  <1>5. <<h, g>> \in ByAge
    BY <1>1 DEF ByAge, Older
  <1>6. Cardinality(Below(S, ByAge, h)) < Cardinality(Below(S, ByAge, g))
    BY <1>1, <1>3, <1>4, <1>5, RankGrows
  <1>7. /\ Cardinality(Below(S, ByAge, g)) < n
        /\ ~(Cardinality(Below(S, ByAge, h)) < n)
    BY <1>1, <1>4 DEF Oldest
  <1>8. Cardinality(Below(S, ByAge, g)) \in Nat /\ Cardinality(Below(S, ByAge, h)) \in Nat
    BY <1>1, <1>3, <1>4, RankType
  <1> QED
    BY <1>6, <1>7, <1>8

\* The budget evicts by age: what goes is no younger than what stays, the
\* process's own row apart (retriever.rs:456-462).
THEOREM TheOldestGo == RecallSpec => EvictionTakesTheOldest
  <1>1. ASSUME RecallInv, [RecallNext]_recallVars, NEW p \in Procs, ShrinkEnds(p),
               NEW g \in Stored \ DOMAIN rows', NEW h \in DOMAIN rows',
               h # proc[p].output
        PROVE  rows[g].at <= rows[h].at
    <2>1. DOMAIN rows' = Stored \ Evicting(p)
      BY <1>1, ShrinkEndsByDeleting
    <2>2. proc[p].excess \in Nat
      BY <1>1 DEF RecallInv, Proc
    <2>3. Evictable(p) \in SUBSET Stored /\ h \in Evictable(p) \ Evicting(p) /\ g \in Evicting(p)
      BY <1>1, <2>1 DEF Evictable
    <2> QED
      BY <1>1, <2>2, <2>3, OldestAreOld DEF Evicting
  <1>2. RecallInv /\ [RecallNext]_recallVars
        => [\A p \in Procs : ShrinkEnds(p)
               => \A g \in Stored \ DOMAIN rows', h \in DOMAIN rows' :
                      h = proc[p].output \/ rows[g].at <= rows[h].at]_recallVars
    BY <1>1
  <1> QED
    BY <1>2, RecallInvHolds, PTL DEF RecallSpec, EvictionTakesTheOldest

(***************************************************************************)
(* Recall rates are shares                                                 *)
(*                                                                         *)
(* The argument is a balance: every recall that is counted, about to be    *)
(* counted, or still possible because a row is unmarked, is paid for by an *)
(* elision that is counted, about to be, or on no book.                    *)
(***************************************************************************)

\* The unmarked rows of a filter.
Fresh(f) == {h \in Held : FilterOf[h] = f /\ ~marks[h]}

Balance(f) ==
    recalls[f] + Cardinality(Engaged("tally", f)) + Cardinality(Fresh(f))
        <= elisions[f] + unbooked[f] + Cardinality(Engaged("elide", f))

StatsInv == StatsTypeOK /\ \A f \in Filters : Balance(f)

(***************************************************************************)
(* Counting                                                                *)
(***************************************************************************)

Weight(v, pc, f) == IF v.pc = pc /\ FilterOf[v.output] = f THEN 1 ELSE 0

LEMMA EngagedFinite ==
    ASSUME NEW pc, NEW f
    PROVE  IsFiniteSet(Engaged(pc, f)) /\ Cardinality(Engaged(pc, f)) \in Nat
  <1>1. Engaged(pc, f) \in SUBSET Readers
    BY DEF Engaged
  <1> QED
    BY <1>1, StatsAssumption, FS_Subset, FS_CardinalityType

\* A process that changes its mind changes the counts by its weights.
LEMMA EngagedMoves ==
    ASSUME visit \in [Readers -> Visit], NEW p \in Readers, NEW r \in Visit,
           visit' = [visit EXCEPT ![p] = r], NEW pc, NEW f
    PROVE  /\ Cardinality(Engaged(pc, f)) \in Nat
           /\ Cardinality(Engaged(pc, f)') \in Nat
           /\ Cardinality(Engaged(pc, f)')
                 = Cardinality(Engaged(pc, f)) + Weight(r, pc, f) - Weight(visit[p], pc, f)
  <1> DEFINE S == Engaged(pc, f)
             T == Engaged(pc, f)'
             In(v) == v.pc = pc /\ FilterOf[v.output] = f
  <1>1. S = {q \in Readers : In(visit[q])} /\ T = {q \in Readers : In(visit'[q])}
    BY DEF Engaged, Does
  <1>2. \A q \in Readers : visit'[q] = IF q = p THEN r ELSE visit[q]
    OBVIOUS
  <1>3. IsFiniteSet(S) /\ Cardinality(S) \in Nat
    BY EngagedFinite
  <1>4. /\ Weight(r, pc, f) = IF In(r) THEN 1 ELSE 0
        /\ Weight(visit[p], pc, f) = IF In(visit[p]) THEN 1 ELSE 0
    BY DEF Weight
  <1>5. p \in S <=> In(visit[p])
    BY <1>1
  <1>6. T = IF In(r) THEN S \cup {p} ELSE S \ {p}
    BY <1>1, <1>2
  <1> HIDE DEF S, T, In
  <1>7. CASE In(r) /\ p \in S
    <2>1. T = S
      BY <1>6, <1>7
    <2> QED
      BY <1>3, <1>4, <1>5, <1>7, <2>1 DEF S, T
  <1>8. CASE In(r) /\ p \notin S
    <2>1. Cardinality(T) = Cardinality(S) + 1
      BY <1>3, <1>6, <1>8, FS_AddElement
    <2> QED
      BY <1>3, <1>4, <1>5, <1>8, <2>1 DEF S, T
  <1>9. CASE ~In(r) /\ p \in S
    <2>1. Cardinality(T) = Cardinality(S) - 1 /\ IsFiniteSet(T)
      BY <1>3, <1>6, <1>9, FS_RemoveElement
    <2>2. Cardinality(T) \in Nat
      BY <2>1, FS_CardinalityType
    <2> QED
      BY <1>3, <1>4, <1>5, <1>9, <2>1, <2>2 DEF S, T
  <1>10. CASE ~In(r) /\ p \notin S
    <2>1. T = S
      BY <1>6, <1>10
    <2> QED
      BY <1>3, <1>4, <1>5, <1>10, <2>1 DEF S, T
  <1> QED
    BY <1>7, <1>8, <1>9, <1>10

LEMMA EngagedStays ==
    ASSUME UNCHANGED visit, NEW pc, NEW f
    PROVE  Engaged(pc, f)' = Engaged(pc, f)
  BY DEF Engaged, Does

\* Adding one element to S, or none, adds at most one to its size.
LEMMA AtMostOneMore ==
    ASSUME NEW S, NEW T, NEW x, IsFiniteSet(S), T = S \/ T = S \cup {x}
    PROVE  /\ Cardinality(T) \in Nat
           /\ Cardinality(T) = Cardinality(S) \/ Cardinality(T) = Cardinality(S) + 1
           /\ T = S => Cardinality(T) = Cardinality(S)
  <1>1. Cardinality(S) \in Nat
    BY FS_CardinalityType
  <1>2. Cardinality(S \cup {x}) = IF x \in S THEN Cardinality(S) ELSE Cardinality(S) + 1
    BY FS_AddElement
  <1> QED
    BY <1>1, <1>2

LEMMA FreshFinite ==
    ASSUME StatsTypeOK, NEW f
    PROVE  IsFiniteSet(Fresh(f)) /\ Cardinality(Fresh(f)) \in Nat
  <1>1. Fresh(f) \in SUBSET Elided
    BY DEF Fresh, StatsTypeOK
  <1> QED
    BY <1>1, StatsAssumption, FS_Subset, FS_CardinalityType

LEMMA FreshStays ==
    ASSUME UNCHANGED marks, NEW f
    PROVE  Fresh(f)' = Fresh(f)
  BY DEF Fresh, Held

(***************************************************************************)
(* Steps that change one process and no row                                *)
(***************************************************************************)

\* The counters pay for a process that turns from v to r.
Settles(v, r) ==
    \A f \in Filters :
        (recalls'[f] - recalls[f]) + Weight(r, "tally", f) - Weight(v, "tally", f)
        <= (elisions'[f] - elisions[f]) + (unbooked'[f] - unbooked[f])
               + Weight(r, "elide", f) - Weight(v, "elide", f)

\* The process p becomes r; counters move so that the balance is kept.
LEMMA VisitStep ==
    ASSUME StatsInv, NEW p \in Readers, NEW r \in Visit,
           r.output = Nothing <=> r.pc = "idle",
           visit' = [visit EXCEPT ![p] = r], UNCHANGED marks,
           elisions' \in [Filters -> Nat], recalls' \in [Filters -> Nat],
           unbooked' \in [Filters -> Nat],
           Settles(visit[p], r)
    PROVE  StatsInv'
  <1>0. visit \in [Readers -> Visit] /\ StatsTypeOK
    BY DEF StatsInv, StatsTypeOK
  <1>1. \A q \in Readers : visit'[q] = IF q = p THEN r ELSE visit[q]
    BY <1>0
  <1>2. visit' \in [Readers -> Visit]
    BY <1>0
  <1>3. StatsTypeOK'
    BY <1>0, <1>1, <1>2 DEF StatsTypeOK, Held
  <1>5. visit' = [visit EXCEPT ![p] = r]
    OBVIOUS
  <1>6. ASSUME NEW pc, NEW f
        PROVE  Cardinality(Engaged(pc, f)')
                  = Cardinality(Engaged(pc, f)) + Weight(r, pc, f) - Weight(visit[p], pc, f)
    <2>1. visit \in [Readers -> Visit] /\ p \in Readers /\ r \in Visit
      BY <1>0
    <2> QED
      BY ONLY <1>5, <2>1, EngagedMoves
  <1>4. ASSUME NEW f \in Filters PROVE Balance(f)'
    <2> DEFINE T0 == Cardinality(Engaged("tally", f))
               T1 == Cardinality(Engaged("tally", f)')
               E0 == Cardinality(Engaged("elide", f))
               E1 == Cardinality(Engaged("elide", f)')
               U == Cardinality(Fresh(f))
               wt == Weight(r, "tally", f) - Weight(visit[p], "tally", f)
               we == Weight(r, "elide", f) - Weight(visit[p], "elide", f)
    <2>1. T0 \in Nat /\ T1 \in Nat /\ E0 \in Nat /\ E1 \in Nat /\ U \in Nat
      BY <1>0, EngagedMoves, FreshFinite
    <2>2. wt \in Int /\ we \in Int
      BY DEF Weight
    <2>3. T1 = T0 + wt /\ E1 = E0 + we
      <3>1. /\ T1 = T0 + Weight(r, "tally", f) - Weight(visit[p], "tally", f)
            /\ E1 = E0 + Weight(r, "elide", f) - Weight(visit[p], "elide", f)
        BY <1>6
      <3>2. /\ Weight(r, "tally", f) \in Int /\ Weight(visit[p], "tally", f) \in Int
            /\ Weight(r, "elide", f) \in Int /\ Weight(visit[p], "elide", f) \in Int
        BY DEF Weight
      <3> QED
        BY <2>1, <3>1, <3>2
    <2>4. recalls[f] + T0 + U <= elisions[f] + unbooked[f] + E0
      BY DEF StatsInv, Balance
    <2>5. /\ recalls[f] \in Nat /\ elisions[f] \in Nat /\ unbooked[f] \in Nat
          /\ recalls'[f] \in Nat /\ elisions'[f] \in Nat /\ unbooked'[f] \in Nat
      BY <1>0 DEF StatsTypeOK
    <2>6. (recalls'[f] - recalls[f]) + wt
             <= (elisions'[f] - elisions[f]) + (unbooked'[f] - unbooked[f]) + we
      <3>1. /\ Weight(r, "tally", f) \in Int /\ Weight(visit[p], "tally", f) \in Int
            /\ Weight(r, "elide", f) \in Int /\ Weight(visit[p], "elide", f) \in Int
        BY DEF Weight
      <3>2. (recalls'[f] - recalls[f])
                + Weight(r, "tally", f) - Weight(visit[p], "tally", f)
            <= (elisions'[f] - elisions[f]) + (unbooked'[f] - unbooked[f])
                + Weight(r, "elide", f) - Weight(visit[p], "elide", f)
        BY DEF Settles
      <3> QED
        BY <2>5, <3>1, <3>2
    <2> HIDE DEF T0, T1, E0, E1, U, wt, we
    <2>7. recalls'[f] + T1 + U <= elisions'[f] + unbooked'[f] + E1
      BY <2>1, <2>2, <2>3, <2>4, <2>5, <2>6
    <2>8. Fresh(f)' = Fresh(f)
      BY FreshStays
    <2> QED
      BY <2>7, <2>8 DEF Balance, T1, E1, U
  <1> QED
    BY <1>3, <1>4 DEF StatsInv

(***************************************************************************)
(* The steps                                                               *)
(***************************************************************************)

LEMMA InitStatsInv == StatsInit => StatsInv
  <1> SUFFICES ASSUME StatsInit PROVE StatsInv
    OBVIOUS
  <1>1. StatsTypeOK
    BY StatsAssumption DEF StatsInit, StatsTypeOK, Held, Away, Visit
  <1>2. ASSUME NEW f \in Filters PROVE Balance(f)
    <2>1. Engaged("tally", f) = {} /\ Engaged("elide", f) = {}
      BY DEF StatsInit, Engaged, Does, Away
    <2>2. Fresh(f) = {}
      BY DEF StatsInit, Fresh, Held
    <2>3. recalls[f] = 0 /\ elisions[f] = 0 /\ unbooked[f] = 0
      BY DEF StatsInit
    <2> QED
      BY <2>1, <2>2, <2>3, FS_EmptySet DEF Balance
  <1> QED
    BY <1>1, <1>2 DEF StatsInv

LEMMA AwayFacts ==
    ASSUME NEW f
    PROVE  /\ Away \in Visit /\ (Away.output = Nothing <=> Away.pc = "idle")
           /\ Weight(Away, "tally", f) = 0 /\ Weight(Away, "elide", f) = 0
  BY DEF Away, Visit, Weight

\* Steps on which nothing is owed and nothing counted.
LEMMA BeginsStatsInv ==
    ASSUME StatsInv, NEW p \in Readers, NEW h \in Elided,
           ElideBegins(p, h) \/ RecallBegins(p, h)
    PROVE  StatsInv'
  <1> PICK pc \in {"insert", "mark"} :
         visit' = [visit EXCEPT ![p] = [pc |-> pc, output |-> h]]
    BY DEF ElideBegins, RecallBegins
  <1> DEFINE r == [pc |-> pc, output |-> h]
  <1>1. /\ visit[p].pc = "idle"
        /\ UNCHANGED <<marks, elisions, recalls, unbooked>>
    BY DEF ElideBegins, RecallBegins, Does
  <1>2. r \in Visit /\ (r.output = Nothing <=> r.pc = "idle")
    BY StatsAssumption DEF Visit
  <1>3. \A f \in Filters :
           /\ Weight(r, "tally", f) = 0 /\ Weight(r, "elide", f) = 0
           /\ Weight(visit[p], "tally", f) = 0 /\ Weight(visit[p], "elide", f) = 0
    BY <1>1 DEF Weight
  <1>4. /\ elisions \in [Filters -> Nat] /\ recalls \in [Filters -> Nat]
        /\ unbooked \in [Filters -> Nat]
    BY DEF StatsInv, StatsTypeOK
  <1>5. visit' = [visit EXCEPT ![p] = r]
    OBVIOUS
  <1> HIDE DEF r
  <1>6. \A f \in Filters :
           (recalls'[f] - recalls[f]) + Weight(r, "tally", f) - Weight(visit[p], "tally", f)
           <= (elisions'[f] - elisions[f]) + (unbooked'[f] - unbooked[f])
                   + Weight(r, "elide", f) - Weight(visit[p], "elide", f)
    BY <1>1, <1>3, <1>4
  <1> QED
    BY <1>1, <1>2, <1>4, <1>5, <1>6, VisitStep DEF Settles

LEMMA AbandonedStatsInv ==
    ASSUME StatsInv, NEW p \in Readers, Abandoned(p)
    PROVE  StatsInv'
  <1>1. /\ visit' = [visit EXCEPT ![p] = Away]
        /\ visit[p].pc \in {"insert", "mark", "tally"}
        /\ UNCHANGED <<marks, elisions, recalls, unbooked>>
    BY DEF Abandoned, Leaves
  <1>2. /\ elisions \in [Filters -> Nat] /\ recalls \in [Filters -> Nat]
        /\ unbooked \in [Filters -> Nat]
    BY DEF StatsInv, StatsTypeOK
  <1>3. \A f \in Filters :
           Weight(visit[p], "tally", f) \in {0, 1} /\ Weight(visit[p], "elide", f) = 0
    BY <1>1 DEF Weight
  <1>4. \A f \in Filters :
           (recalls'[f] - recalls[f])
               + Weight(Away, "tally", f) - Weight(visit[p], "tally", f)
           <= (elisions'[f] - elisions[f]) + (unbooked'[f] - unbooked[f])
               + Weight(Away, "elide", f) - Weight(visit[p], "elide", f)
    BY <1>1, <1>2, <1>3, AwayFacts
  <1> QED
    BY <1>1, <1>2, <1>4, AwayFacts, VisitStep DEF Settles

LEMMA ElisionCountedStatsInv ==
    ASSUME StatsInv, NEW p \in Readers, ElisionCounted(p) \/ ElisionLost(p)
    PROVE  StatsInv'
  <1> DEFINE g == FilterOf[visit[p].output]
  <1>0. visit[p] \in Visit /\ visit[p].pc = "elide" /\ visit[p].output # Nothing
    BY DEF StatsInv, StatsTypeOK, ElisionCounted, ElisionLost, Does
  <1>1. g \in Filters
    BY <1>0 DEF Visit, Filters
  <1>2. visit' = [visit EXCEPT ![p] = Away] /\ UNCHANGED <<marks, recalls>>
    BY DEF ElisionCounted, ElisionLost, Leaves
  <1>3. \/ elisions' = [elisions EXCEPT ![g] = @ + 1] /\ UNCHANGED unbooked
        \/ unbooked' = [unbooked EXCEPT ![g] = @ + 1] /\ UNCHANGED elisions
    BY DEF ElisionCounted, ElisionLost
  <1>4. /\ elisions \in [Filters -> Nat] /\ recalls \in [Filters -> Nat]
        /\ unbooked \in [Filters -> Nat]
    BY DEF StatsInv, StatsTypeOK
  <1>5. \A f \in Filters :
           Weight(visit[p], "tally", f) = 0
           /\ Weight(visit[p], "elide", f) = IF f = g THEN 1 ELSE 0
    BY <1>0 DEF Weight
  <1> HIDE DEF g
  <1>6. /\ elisions' \in [Filters -> Nat] /\ unbooked' \in [Filters -> Nat]
        /\ \A f \in Filters :
              (elisions'[f] - elisions[f]) + (unbooked'[f] - unbooked[f])
                 = IF f = g THEN 1 ELSE 0
    <2>1. CASE elisions' = [elisions EXCEPT ![g] = @ + 1] /\ UNCHANGED unbooked
      BY <1>1, <1>4, <2>1
    <2>2. CASE unbooked' = [unbooked EXCEPT ![g] = @ + 1] /\ UNCHANGED elisions
      BY <1>1, <1>4, <2>2
    <2> QED
      BY <1>3, <2>1, <2>2
  <1>7. \A f \in Filters :
           (recalls'[f] - recalls[f])
               + Weight(Away, "tally", f) - Weight(visit[p], "tally", f)
           <= (elisions'[f] - elisions[f]) + (unbooked'[f] - unbooked[f])
               + Weight(Away, "elide", f) - Weight(visit[p], "elide", f)
    BY <1>2, <1>4, <1>5, <1>6, AwayFacts
  <1> QED
    BY <1>2, <1>4, <1>6, <1>7, AwayFacts, VisitStep DEF Settles

LEMMA RecallCountedStatsInv ==
    ASSUME StatsInv, NEW p \in Readers, RecallCounted(p)
    PROVE  StatsInv'
  <1> DEFINE g == FilterOf[visit[p].output]
  <1>0. visit[p] \in Visit /\ visit[p].pc = "tally" /\ visit[p].output # Nothing
    BY DEF StatsInv, StatsTypeOK, RecallCounted, Does
  <1>1. g \in Filters
    BY <1>0 DEF Visit, Filters
  <1>2. /\ visit' = [visit EXCEPT ![p] = Away] /\ UNCHANGED <<marks, elisions, unbooked>>
        /\ recalls' = [recalls EXCEPT ![g] = @ + 1]
    BY DEF RecallCounted, Leaves
  <1>3. /\ elisions \in [Filters -> Nat] /\ recalls \in [Filters -> Nat]
        /\ unbooked \in [Filters -> Nat]
    BY DEF StatsInv, StatsTypeOK
  <1>4. \A f \in Filters :
           Weight(visit[p], "elide", f) = 0
           /\ Weight(visit[p], "tally", f) = IF f = g THEN 1 ELSE 0
    BY <1>0 DEF Weight
  <1> HIDE DEF g
  <1>5. /\ recalls' \in [Filters -> Nat]
        /\ \A f \in Filters : recalls'[f] - recalls[f] = IF f = g THEN 1 ELSE 0
    BY <1>1, <1>2, <1>3
  <1>6. \A f \in Filters :
           (recalls'[f] - recalls[f])
               + Weight(Away, "tally", f) - Weight(visit[p], "tally", f)
           <= (elisions'[f] - elisions[f]) + (unbooked'[f] - unbooked[f])
               + Weight(Away, "elide", f) - Weight(visit[p], "elide", f)
    BY <1>2, <1>3, <1>4, <1>5, AwayFacts
  <1> QED
    BY <1>2, <1>3, <1>5, <1>6, AwayFacts, VisitStep DEF Settles

\* A new row can be recalled once; its elision is about to be counted.
LEMMA RowInsertedStatsInv ==
    ASSUME StatsInv, NEW p \in Readers, RowInserted(p)
    PROVE  StatsInv'
  <1> DEFINE h == visit[p].output
             r == [visit[p] EXCEPT !.pc = "elide"]
  <1>0. /\ visit \in [Readers -> Visit] /\ StatsTypeOK
        /\ visit[p].pc = "insert" /\ h \in Elided
    <2>1. visit[p] \in Visit /\ visit[p].pc = "insert" /\ visit[p].output # Nothing
      BY DEF StatsInv, StatsTypeOK, RowInserted, Does
    <2> QED
      BY <2>1 DEF StatsInv, StatsTypeOK, Visit
  <1>1. /\ visit' = [visit EXCEPT ![p] = r] /\ UNCHANGED <<elisions, recalls, unbooked>>
        /\ marks' = [g \in Held \cup {h} |-> IF g \in Held THEN marks[g] ELSE FALSE]
    BY DEF RowInserted, Turns
  <1>2. r \in Visit /\ r.pc = "elide" /\ r.output = h
    BY <1>0 DEF Visit
  <1> HIDE DEF r
  <1>3. \A q \in Readers : visit'[q] = IF q = p THEN r ELSE visit[q]
    BY <1>0, <1>1
  <1>4. visit' \in [Readers -> Visit]
    BY <1>0, <1>1, <1>2
  <1>5. Held \subseteq Elided /\ marks \in [Held -> BOOLEAN]
    BY <1>0 DEF StatsTypeOK
  <1>6. (DOMAIN marks') \subseteq Elided /\ marks' \in [DOMAIN marks' -> BOOLEAN]
    BY <1>0, <1>1, <1>5
  <1>7. h # Nothing
    BY <1>0, StatsAssumption
  <1>8. StatsTypeOK'
    BY <1>0, <1>1, <1>2, <1>3, <1>4, <1>6, <1>7 DEF StatsTypeOK, Held
  <1>9. ASSUME NEW f \in Filters PROVE Balance(f)'
    <2> DEFINE b == IF FilterOf[h] = f THEN 1 ELSE 0
    <2>1. /\ Cardinality(Engaged("tally", f)') = Cardinality(Engaged("tally", f))
          /\ Cardinality(Engaged("elide", f)') = Cardinality(Engaged("elide", f)) + b
          /\ Cardinality(Engaged("tally", f)) \in Nat
          /\ Cardinality(Engaged("elide", f)) \in Nat
      <3>1. /\ Weight(r, "tally", f) = 0 /\ Weight(visit[p], "tally", f) = 0
            /\ Weight(r, "elide", f) = b /\ Weight(visit[p], "elide", f) = 0
        BY <1>0, <1>2 DEF Weight
      <3>2. /\ Cardinality(Engaged("tally", f)')
                  = Cardinality(Engaged("tally", f)) + 0 - 0
            /\ Cardinality(Engaged("elide", f)')
                  = Cardinality(Engaged("elide", f)) + b - 0
        <4>1. /\ Cardinality(Engaged("tally", f)')
                  = Cardinality(Engaged("tally", f))
                    + Weight(r, "tally", f) - Weight(visit[p], "tally", f)
              /\ Cardinality(Engaged("elide", f)')
                  = Cardinality(Engaged("elide", f))
                    + Weight(r, "elide", f) - Weight(visit[p], "elide", f)
          BY ONLY <1>0, <1>1, <1>2, EngagedMoves
        <4> QED
          BY ONLY <3>1, <4>1
      <3>3. Cardinality(Engaged("tally", f)) \in Nat /\ Cardinality(Engaged("elide", f)) \in Nat
        BY EngagedFinite
      <3> QED
        BY <3>2, <3>3
    <2>2. IsFiniteSet(Fresh(f)) /\ Cardinality(Fresh(f)) \in Nat
      BY <1>0, FreshFinite
    <2>3. Fresh(f)' = Fresh(f) \/ (FilterOf[h] = f /\ Fresh(f)' = Fresh(f) \cup {h} /\ h \notin Fresh(f))
      BY <1>1 DEF Fresh, Held
    <2>4. Cardinality(Fresh(f)') <= Cardinality(Fresh(f)) + b /\ Cardinality(Fresh(f)') \in Nat
      <3>1. b \in Nat /\ (FilterOf[h] = f => b = 1)
        OBVIOUS
      <3>2. Fresh(f)' = Fresh(f) \/ (FilterOf[h] = f /\ Fresh(f)' = Fresh(f) \cup {h})
        BY <2>3
      <3> HIDE DEF b, h
      <3>3. /\ Cardinality(Fresh(f)') \in Nat
            /\ \/ Cardinality(Fresh(f)') = Cardinality(Fresh(f))
               \/ Cardinality(Fresh(f)') = Cardinality(Fresh(f)) + 1
            /\ Fresh(f)' = Fresh(f) => Cardinality(Fresh(f)') = Cardinality(Fresh(f))
        <4>1. Fresh(f)' = Fresh(f) \/ Fresh(f)' = Fresh(f) \cup {h}
          BY ONLY <3>2
        <4> QED
          BY ONLY <2>2, <4>1, AtMostOneMore, Zenon
      <3> QED
        BY ONLY <2>2, <3>1, <3>2, <3>3
    <2>5. recalls[f] + Cardinality(Engaged("tally", f)) + Cardinality(Fresh(f))
             <= elisions[f] + unbooked[f] + Cardinality(Engaged("elide", f))
      BY DEF StatsInv, Balance
    <2>6. recalls[f] \in Nat /\ elisions[f] \in Nat /\ unbooked[f] \in Nat
      BY <1>0 DEF StatsTypeOK
    <2>7. recalls[f] + Cardinality(Engaged("tally", f)') + Cardinality(Fresh(f)')
             <= elisions[f] + unbooked[f] + Cardinality(Engaged("elide", f)')
      BY <2>1, <2>2, <2>4, <2>5, <2>6
    <2> QED
      BY <1>1, <2>7 DEF Balance
  <1> QED
    BY <1>8, <1>9 DEF StatsInv

LEMMA EvictedStatsInv ==
    ASSUME StatsInv, NEW h \in Elided, Evicted(h)
    PROVE  StatsInv'
  <1>0. StatsTypeOK /\ marks' = [g \in Held \ {h} |-> marks[g]]
        /\ UNCHANGED <<elisions, recalls, unbooked, visit>>
    BY DEF StatsInv, Evicted
  <1>1. StatsTypeOK'
    <2>1. Held \subseteq Elided /\ marks \in [Held -> BOOLEAN]
      BY <1>0 DEF StatsTypeOK
    <2>2. (DOMAIN marks') \subseteq Elided /\ marks' \in [DOMAIN marks' -> BOOLEAN]
      BY <1>0, <2>1
    <2> QED
      BY <1>0, <2>2 DEF StatsTypeOK, Held
  <1>2. ASSUME NEW f \in Filters PROVE Balance(f)'
    <2>1. Fresh(f)' \in SUBSET Fresh(f)
      BY <1>0 DEF Fresh, Held
    <2>2. /\ Cardinality(Fresh(f)') <= Cardinality(Fresh(f))
          /\ Cardinality(Fresh(f)') \in Nat /\ Cardinality(Fresh(f)) \in Nat
      BY <1>0, <2>1, FreshFinite, FS_Subset, FS_CardinalityType
    <2>3. /\ Engaged("tally", f)' = Engaged("tally", f)
          /\ Engaged("elide", f)' = Engaged("elide", f)
      BY <1>0, EngagedStays
    <2>4. /\ Cardinality(Engaged("tally", f)) \in Nat
          /\ Cardinality(Engaged("elide", f)) \in Nat
      BY EngagedFinite
    <2>5. recalls[f] + Cardinality(Engaged("tally", f)) + Cardinality(Fresh(f))
             <= elisions[f] + unbooked[f] + Cardinality(Engaged("elide", f))
      BY DEF StatsInv, Balance
    <2>6. recalls[f] \in Nat /\ elisions[f] \in Nat /\ unbooked[f] \in Nat
      BY <1>0 DEF StatsTypeOK
    <2>7. recalls[f] + Cardinality(Engaged("tally", f)) + Cardinality(Fresh(f)')
             <= elisions[f] + unbooked[f] + Cardinality(Engaged("elide", f))
      BY <2>2, <2>4, <2>5, <2>6
    <2> QED
      BY <1>0, <2>3, <2>7 DEF Balance
  <1> QED
    BY <1>1, <1>2 DEF StatsInv

\* Marking a row turns the recall it makes possible into one about to be
\* counted.
LEMMA MarkStatsInv ==
    ASSUME StatsInv, NEW p \in Readers, Mark(p)
    PROVE  StatsInv'
  <1> DEFINE h == visit[p].output
  <1>0. /\ visit \in [Readers -> Visit] /\ StatsTypeOK
        /\ visit[p].pc = "mark" /\ h \in Elided /\ visit[p] \in Visit
        /\ UNCHANGED <<elisions, recalls, unbooked>>
    <2>1. /\ visit[p] \in Visit /\ visit[p].pc = "mark" /\ visit[p].output # Nothing
          /\ UNCHANGED <<elisions, recalls, unbooked>>
      BY DEF StatsInv, StatsTypeOK, Mark, Does
    <2> QED
      BY <2>1 DEF StatsInv, StatsTypeOK, Visit
  <1>1. CASE ~Unmarked(h)
    <2>1. visit' = [visit EXCEPT ![p] = Away] /\ UNCHANGED marks
      BY <1>1 DEF Mark, Leaves
    <2>2. \A f \in Filters :
             Weight(visit[p], "tally", f) = 0 /\ Weight(visit[p], "elide", f) = 0
      BY <1>0 DEF Weight
    <2>3. /\ elisions \in [Filters -> Nat] /\ recalls \in [Filters -> Nat]
          /\ unbooked \in [Filters -> Nat]
      BY <1>0 DEF StatsTypeOK
    <2>4. \A f \in Filters :
             (recalls'[f] - recalls[f])
                 + Weight(Away, "tally", f) - Weight(visit[p], "tally", f)
             <= (elisions'[f] - elisions[f]) + (unbooked'[f] - unbooked[f])
                 + Weight(Away, "elide", f) - Weight(visit[p], "elide", f)
      BY <1>0, <2>2, <2>3, AwayFacts
    <2> QED
      BY <1>0, <2>1, <2>3, <2>4, AwayFacts, VisitStep DEF Settles
  <1>2. CASE Unmarked(h)
    <2> DEFINE r == [visit[p] EXCEPT !.pc = "tally"]
    <2>1. /\ visit' = [visit EXCEPT ![p] = r]
          /\ marks' = [marks EXCEPT ![h] = TRUE]
      BY <1>2 DEF Mark, Turns
    <2>2. r \in Visit /\ r.pc = "tally" /\ r.output = h
      BY <1>0 DEF Visit
    <2> HIDE DEF r
    <2>3. \A q \in Readers : visit'[q] = IF q = p THEN r ELSE visit[q]
      BY <1>0, <2>1
    <2>4. visit' \in [Readers -> Visit]
      BY <1>0, <2>1, <2>2
    <2>5. Held \subseteq Elided /\ marks \in [Held -> BOOLEAN]
      BY <1>0 DEF StatsTypeOK
    <2>6. DOMAIN marks' = Held /\ marks' \in [Held -> BOOLEAN]
      BY <2>1, <2>5
    <2>7. h # Nothing
      BY <1>0, StatsAssumption
    <2>8. StatsTypeOK'
      BY <1>0, <2>2, <2>3, <2>4, <2>5, <2>6, <2>7 DEF StatsTypeOK, Held
    <2>9. ASSUME NEW f \in Filters PROVE Balance(f)'
      <3> DEFINE b == IF FilterOf[h] = f THEN 1 ELSE 0
      <3>1. /\ Weight(r, "tally", f) = b /\ Weight(visit[p], "tally", f) = 0
            /\ Weight(r, "elide", f) = 0 /\ Weight(visit[p], "elide", f) = 0
        BY <1>0, <2>2 DEF Weight
      <3>2. /\ Cardinality(Engaged("tally", f)')
                  = Cardinality(Engaged("tally", f))
                    + Weight(r, "tally", f) - Weight(visit[p], "tally", f)
            /\ Cardinality(Engaged("elide", f)')
                  = Cardinality(Engaged("elide", f))
                    + Weight(r, "elide", f) - Weight(visit[p], "elide", f)
        <4>1. visit \in [Readers -> Visit] /\ p \in Readers /\ r \in Visit
          BY <1>0, <2>2
        <4>2. ASSUME NEW pc
              PROVE  Cardinality(Engaged(pc, f)')
                        = Cardinality(Engaged(pc, f))
                          + Weight(r, pc, f) - Weight(visit[p], pc, f)
          BY ONLY <2>1, <4>1, EngagedMoves
        <4> QED
          BY <4>2
      <3>3. /\ Cardinality(Engaged("tally", f)) \in Nat
            /\ Cardinality(Engaged("elide", f)) \in Nat
        BY EngagedFinite
      <3>4. /\ Cardinality(Engaged("tally", f)') = Cardinality(Engaged("tally", f)) + b
            /\ Cardinality(Engaged("elide", f)') = Cardinality(Engaged("elide", f))
        BY <3>1, <3>2, <3>3
      <3>5. IsFiniteSet(Fresh(f)) /\ Cardinality(Fresh(f)) \in Nat
        BY <1>0, FreshFinite
      <3>6. Fresh(f)' = Fresh(f) \ {h} /\ (h \in Fresh(f) <=> FilterOf[h] = f)
        BY <1>2, <2>1, <2>5, <2>6 DEF Fresh, Held, Unmarked
      <3>7. Cardinality(Fresh(f)') = Cardinality(Fresh(f)) - b
        <4>1. CASE h \in Fresh(f)
          <5>1. Cardinality(Fresh(f) \ {h}) = Cardinality(Fresh(f)) - 1
            BY <3>5, <4>1, FS_RemoveElement
          <5>2. b = 1
            BY <3>6, <4>1
          <5> QED
            BY <3>6, <5>1, <5>2
        <4>2. CASE h \notin Fresh(f)
          <5>1. Fresh(f)' = Fresh(f)
            BY <3>6, <4>2
          <5>2. b = 0
            BY <3>6, <4>2
          <5> QED
            BY <3>5, <5>1, <5>2
        <4> QED
          BY <4>1, <4>2
      <3>8. recalls[f] + Cardinality(Engaged("tally", f)) + Cardinality(Fresh(f))
               <= elisions[f] + unbooked[f] + Cardinality(Engaged("elide", f))
        BY DEF StatsInv, Balance
      <3>9. recalls[f] \in Nat /\ elisions[f] \in Nat /\ unbooked[f] \in Nat
        BY <1>0 DEF StatsTypeOK
      <3>10. recalls[f] + Cardinality(Engaged("tally", f)') + Cardinality(Fresh(f)')
               <= elisions[f] + unbooked[f] + Cardinality(Engaged("elide", f)')
        BY <3>3, <3>4, <3>5, <3>7, <3>8, <3>9
      <3> QED
        BY <1>0, <3>10 DEF Balance
    <2> QED
      BY <2>8, <2>9 DEF StatsInv
  <1> QED
    BY <1>1, <1>2

LEMMA ResetStatsInv ==
    ASSUME StatsInv, ResetStats
    PROVE  StatsInv'
  <1> DEFINE kept(f) == {h \in Held : FilterOf[h] = f}
  <1>0. StatsTypeOK /\ UNCHANGED visit
    BY DEF StatsInv, ResetStats
  <1>1. \A f \in Filters : IsFiniteSet(kept(f)) /\ Cardinality(kept(f)) \in Nat
    <2>1. \A f \in Filters : kept(f) \in SUBSET Elided
      BY <1>0 DEF StatsTypeOK
    <2> QED
      BY <2>1, StatsAssumption, FS_Subset, FS_CardinalityType
  <1>2. /\ elisions' = [f \in Filters |-> 0] /\ recalls' = [f \in Filters |-> 0]
        /\ unbooked' = [f \in Filters |->
               Cardinality(kept(f)) + Cardinality(Engaged("tally", f))]
        /\ marks' = [h \in Held |-> FALSE]
    BY DEF ResetStats
  <1>3. \A f \in Filters : Cardinality(Engaged("tally", f)) \in Nat
    BY EngagedFinite
  <1>4. \A f \in Filters : Fresh(f)' = kept(f)
    BY <1>2 DEF Fresh, Held
  <1> HIDE DEF kept
  <1>5. StatsTypeOK'
    <2>1. unbooked' \in [Filters -> Nat]
      BY <1>1, <1>2, <1>3
    <2>2. Held \subseteq Elided /\ DOMAIN marks' = Held /\ marks' \in [Held -> BOOLEAN]
      BY <1>0, <1>2 DEF StatsTypeOK
    <2> QED
      BY <1>0, <1>2, <2>1, <2>2 DEF StatsTypeOK, Held
  <1>6. ASSUME NEW f \in Filters PROVE Balance(f)'
    <2>1. /\ Engaged("tally", f)' = Engaged("tally", f)
          /\ Engaged("elide", f)' = Engaged("elide", f)
      BY <1>0, EngagedStays
    <2>2. /\ Cardinality(Engaged("tally", f)) \in Nat
          /\ Cardinality(Engaged("elide", f)) \in Nat
          /\ Cardinality(kept(f)) \in Nat
      BY EngagedFinite, <1>1
    <2>3. /\ recalls'[f] = 0 /\ elisions'[f] = 0
          /\ unbooked'[f] = Cardinality(kept(f)) + Cardinality(Engaged("tally", f))
      BY <1>2
    <2>4. recalls'[f] + Cardinality(Engaged("tally", f)) + Cardinality(kept(f))
             <= elisions'[f] + unbooked'[f] + Cardinality(Engaged("elide", f))
      BY <2>2, <2>3
    <2> QED
      BY <1>4, <2>1, <2>4 DEF Balance
  <1> QED
    BY <1>5, <1>6 DEF StatsInv

LEMMA IdleStatsInv == StatsInv /\ UNCHANGED statsVars => StatsInv'
  BY DEF StatsInv, statsVars, StatsTypeOK, Held, Balance, Engaged, Does, Fresh

LEMMA NextStatsInv == StatsInv /\ [StatsNext]_statsVars => StatsInv'
  <1> SUFFICES ASSUME StatsInv, [StatsNext]_statsVars PROVE StatsInv'
    OBVIOUS
  <1>1. ASSUME NEW p \in Readers, NEW h \in Elided, ElideBegins(p, h) \/ RecallBegins(p, h)
        PROVE  StatsInv'
    BY <1>1, BeginsStatsInv
  <1>2. ASSUME NEW p \in Readers, StatsStep(p) PROVE StatsInv'
    BY <1>2, RowInsertedStatsInv, ElisionCountedStatsInv, MarkStatsInv,
       RecallCountedStatsInv, AbandonedStatsInv DEF StatsStep
  <1>3. ASSUME NEW h \in Elided, Evicted(h) PROVE StatsInv'
    BY <1>3, EvictedStatsInv
  <1>4. CASE ResetStats
    BY <1>4, ResetStatsInv
  <1>5. CASE UNCHANGED statsVars
    BY <1>5, IdleStatsInv
  <1> QED
    BY <1>1, <1>2, <1>3, <1>4, <1>5 DEF StatsNext

\* The balance is kept.
THEOREM StatsInvHolds == StatsSpec => []StatsInv
  BY InitStatsInv, NextStatsInv, PTL DEF StatsSpec

\* Type correctness of the counters, the marks and the processes' records.
THEOREM StatsTypeCorrect == StatsSpec => []StatsTypeOK
  <1>1. StatsInv => StatsTypeOK
    BY DEF StatsInv
  <1> QED
    BY <1>1, StatsInvHolds, PTL

\* A recall rate never exceeds what was elided, however stores, re-stores,
\* recalls, evictions, resets and deaths of processes interleave
\* (retriever.rs:294-309, 393-403).
THEOREM RatesAreSharesHolds == StatsSpec => []RatesAreShares
  <1>1. ASSUME StatsInv, NEW f \in Filters
        PROVE  recalls[f] <= elisions[f] + unbooked[f] + Cardinality(Engaged("elide", f))
    <2>1. /\ Cardinality(Engaged("tally", f)) \in Nat
          /\ Cardinality(Engaged("elide", f)) \in Nat
          /\ Cardinality(Fresh(f)) \in Nat
      BY <1>1, EngagedFinite, FreshFinite DEF StatsInv
    <2>2. recalls[f] \in Nat /\ elisions[f] \in Nat /\ unbooked[f] \in Nat
      BY <1>1 DEF StatsInv, StatsTypeOK
    <2>3. recalls[f] + Cardinality(Engaged("tally", f)) + Cardinality(Fresh(f))
             <= elisions[f] + unbooked[f] + Cardinality(Engaged("elide", f))
      BY <1>1 DEF StatsInv, Balance
    <2> QED
      BY <2>1, <2>2, <2>3
  <1>2. StatsInv => RatesAreShares
    BY <1>1 DEF RatesAreShares
  <1> QED
    BY <1>2, StatsInvHolds, PTL
=============================================================================
