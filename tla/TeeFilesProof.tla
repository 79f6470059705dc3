--------------------------- MODULE TeeFilesProof ---------------------------
(***************************************************************************)
(* The properties of TeeFiles for every number of processes, every budget  *)
(* and any length of run.                                                  *)
(***************************************************************************)
EXTENDS TeeFiles, FiniteSetTheorems, TLAPS

(***************************************************************************)
(* Sets of names                                                           *)
(***************************************************************************)

\* A log that has MaxFiles newer ones in the directory S.
Outnumbered(S, n) == Cardinality(Newer(S, n)) >= MaxFiles

LEMMA NewerFinite ==
    ASSUME NEW S \in SUBSET Nat, IsFiniteSet(S), NEW n \in Nat
    PROVE  IsFiniteSet(Newer(S, n)) /\ Cardinality(Newer(S, n)) \in Nat
  <1>1. Newer(S, n) \in SUBSET S
    BY DEF Newer
  <1> QED
    BY <1>1, FS_Subset, FS_CardinalityType

\* Creating a log outnumbers no fewer.
LEMMA CreationOutnumbers ==
    ASSUME NEW S \in SUBSET Nat, IsFiniteSet(S), NEW n \in Nat, NEW m \in Nat,
           Outnumbered(S, n)
    PROVE  Outnumbered(S \cup {m}, n)
  <1>1. IsFiniteSet(S \cup {m})
    BY FS_AddElement
  <1>2. Newer(S, n) \in SUBSET Newer(S \cup {m}, n)
    BY DEF Newer
  <1>3. Cardinality(Newer(S, n)) <= Cardinality(Newer(S \cup {m}, n))
    BY <1>1, <1>2, NewerFinite, FS_Subset
  <1>4. Cardinality(Newer(S, n)) \in Nat /\ Cardinality(Newer(S \cup {m}, n)) \in Nat
    BY <1>1, NewerFinite
  <1> QED
    BY <1>3, <1>4, TeeAssumption DEF Outnumbered

\* Removing an outnumbered log leaves every outnumbered one outnumbered: if
\* it counted for n, then what outnumbers it counts for n as well.
LEMMA RemovalOutnumbers ==
    ASSUME NEW S \in SUBSET Nat, IsFiniteSet(S), NEW n \in Nat, NEW m \in Nat,
           Outnumbered(S, n), Outnumbered(S, m)
    PROVE  Outnumbered(S \ {m}, n)
  <1>1. IsFiniteSet(S \ {m}) /\ S \ {m} \in SUBSET Nat
    BY FS_RemoveElement
  <1>2. CASE m > n
    <2>1. Newer(S, m) \in SUBSET Newer(S \ {m}, n)
      <3> SUFFICES ASSUME NEW x \in Newer(S, m)
                   PROVE  x \in Newer(S \ {m}, n)
        OBVIOUS
      <3>1. x \in S /\ x \in Nat /\ x > m
        BY DEF Newer
      <3>2. x # m /\ x > n
        BY <3>1, <1>2
      <3> QED
        BY <3>1, <3>2 DEF Newer
    <2>2. Cardinality(Newer(S, m)) <= Cardinality(Newer(S \ {m}, n))
      BY <1>1, <2>1, NewerFinite, FS_Subset
    <2>3. Cardinality(Newer(S, m)) \in Nat /\ Cardinality(Newer(S \ {m}, n)) \in Nat
      BY <1>1, NewerFinite
    <2> QED
      BY <2>2, <2>3, TeeAssumption DEF Outnumbered
  <1>3. CASE ~(m > n)
    <2>1. Newer(S \ {m}, n) = Newer(S, n)
      BY <1>3 DEF Newer
    <2> QED
      BY <2>1 DEF Outnumbered
  <1> QED
    BY <1>2, <1>3

\* What a rotation keeps is within the budget: numbering each kept log by
\* how many newer ones there are maps them one to one below MaxFiles.
LEMMA KeptIsWithinBudget ==
    ASSUME NEW S \in SUBSET Nat, IsFiniteSet(S)
    PROVE  /\ IsFiniteSet(S \ Doomed(S))
           /\ Cardinality(S \ Doomed(S)) <= MaxFiles
  <1> DEFINE K == S \ Doomed(S)
             rank == [n \in K |-> Cardinality(Newer(S, n))]
  <1>1. \A n \in K : Cardinality(Newer(S, n)) \in 0 .. MaxFiles - 1
    <2>1. \A n \in K : Cardinality(Newer(S, n)) \in Nat
      BY NewerFinite
    <2>2. \A n \in K : ~(Cardinality(Newer(S, n)) >= MaxFiles)
      BY DEF Doomed
    <2> QED
      BY <2>1, <2>2, TeeAssumption
  <1>2. \A m, n \in K : m < n => Cardinality(Newer(S, n)) < Cardinality(Newer(S, m))
    <2> SUFFICES ASSUME NEW m \in K, NEW n \in K, m < n
                 PROVE  Cardinality(Newer(S, n)) < Cardinality(Newer(S, m))
      OBVIOUS
    <2>1. Newer(S, n) \cup {n} \in SUBSET Newer(S, m)
      <3> SUFFICES ASSUME NEW x \in Newer(S, n) \cup {n}
                   PROVE  x \in Newer(S, m)
        OBVIOUS
      <3>1. x \in S /\ x \in Nat /\ (x > n \/ x = n)
        BY DEF Newer
      <3>2. m \in Nat /\ n \in Nat
        OBVIOUS
      <3>3. x > m
        BY <3>1, <3>2
      <3> QED
        BY <3>1, <3>3 DEF Newer
    <2>2. n \notin Newer(S, n)
      BY DEF Newer
    <2>3. Cardinality(Newer(S, n) \cup {n}) = Cardinality(Newer(S, n)) + 1
      BY <2>2, NewerFinite, FS_AddElement
    <2>4. Cardinality(Newer(S, n) \cup {n}) <= Cardinality(Newer(S, m))
      BY <2>1, NewerFinite, FS_Subset
    <2>5. Cardinality(Newer(S, n)) \in Nat /\ Cardinality(Newer(S, m)) \in Nat
      BY NewerFinite
    <2> QED
      BY <2>3, <2>4, <2>5
  <1>3. rank \in Injection(K, 0 .. MaxFiles - 1)
    <2>1. rank \in [K -> 0 .. MaxFiles - 1]
      BY <1>1
    <2>2. \A m, n \in K : rank[m] = rank[n] => m = n
      <3> SUFFICES ASSUME NEW m \in K, NEW n \in K, m # n
                   PROVE  rank[m] # rank[n]
        OBVIOUS
      <3>1. m \in Nat /\ n \in Nat
        OBVIOUS
      <3>2. m < n \/ n < m
        BY <3>1
      <3>3. Cardinality(Newer(S, m)) # Cardinality(Newer(S, n))
        BY <1>1, <1>2, <3>2, TeeAssumption
      <3> QED
        BY <3>3
    <2> QED
      BY <2>1, <2>2 DEF Injection, IsInjective
  <1>4. IsFiniteSet(0 .. MaxFiles - 1) /\ Cardinality(0 .. MaxFiles - 1) = MaxFiles
    BY FS_Interval, TeeAssumption
  <1> HIDE DEF K, rank
  <1>5. IsFiniteSet(K) /\ Cardinality(K) <= MaxFiles
    BY <1>3, <1>4, FS_Injection
  <1> QED
    BY <1>5 DEF K

(***************************************************************************)
(* Names                                                                   *)
(***************************************************************************)

\* A name tells the tag it was made with.
LEMMA TagsAreTold ==
    ASSUME NEW t \in Nat, NEW u \in Nat,
           NEW a \in 0 .. Tags - 1, NEW b \in 0 .. Tags - 1,
           t * Tags + a = u * Tags + b
    PROVE  a = b
  <1>1. Tags \in Nat /\ Tags > 0
    BY TeeAssumption
  <1>2. \A x \in Nat, y \in Nat : x < y => x * Tags + Tags <= y * Tags
    <2> SUFFICES ASSUME NEW x \in Nat, NEW y \in Nat, x < y
                 PROVE  x * Tags + Tags <= y * Tags
      OBVIOUS
    <2> DEFINE d == y - x - 1
    <2>1. d \in Nat /\ y = x + 1 + d
      OBVIOUS
    <2> HIDE DEF d
    <2>2. y * Tags = x * Tags + Tags + d * Tags
      BY <2>1, <1>1
    <2>3. d * Tags \in Nat /\ x * Tags \in Nat
      BY <2>1, <1>1
    <2> QED
      BY <2>2, <2>3, <1>1
  <1>3. t * Tags \in Nat /\ u * Tags \in Nat
    BY <1>1
  <1>4. CASE t < u
    BY <1>1, <1>2, <1>3, <1>4
  <1>5. CASE u < t
    BY <1>1, <1>2, <1>3, <1>5
  <1>6. CASE t = u
    BY <1>3, <1>6, <1>1
  <1> QED
    BY <1>4, <1>5, <1>6

LEMMA NameType ==
    ASSUME NEW t \in Nat, NEW a \in 0 .. Tags - 1
    PROVE  t * Tags + a \in Nat
  <1>1. Tags \in Nat
    BY TeeAssumption
  <1>2. t * Tags \in Nat
    BY <1>1
  <1> QED
    BY <1>1, <1>2

(***************************************************************************)
(* The inductive invariant                                                 *)
(***************************************************************************)

GoneOrDoomed ==
    /\ \A n \in written \ logs : Outnumbered(logs, n)
    /\ \A p \in Writers : \A n \in tee[p].doomed : Outnumbered(logs, n)

\* A rotation under way accounts for every log in the directory.
Accounted(p) ==
    /\ IsFiniteSet(tee[p].since)
    /\ tee[p].pc = "remove" =>
          /\ IsFiniteSet(tee[p].kept) /\ Cardinality(tee[p].kept) <= MaxFiles
          /\ logs \subseteq tee[p].kept \cup tee[p].doomed \cup tee[p].since

\* A posthook process's name carries its tag, and the log it has opened
\* under that name is its own.
OwnName(p) ==
    /\ \E t \in Nat : tee[p].name = t * Tags + PidTag[p]
    /\ tee[p].pc # "open" => tee[p].name \in written /\ author[tee[p].name] = p

TeeInv ==
    /\ TeeTypeOK
    /\ IsFiniteSet(logs)
    /\ GoneOrDoomed
    /\ \A p \in Writers : Accounted(p)
    /\ site = "posthook" => \A p \in Writers : tee[p].pc # "idle" => OwnName(p)

LEMMA InitTeeInv == TeeInit => TeeInv
  <1> SUFFICES ASSUME TeeInit PROVE TeeInv
    OBVIOUS
  <1>1. TeeTypeOK
    BY DEF TeeInit, TeeTypeOK, Tee, Dormant
  <1>2. IsFiniteSet(logs)
    BY FS_EmptySet DEF TeeInit
  <1>3. GoneOrDoomed
    BY DEF TeeInit, GoneOrDoomed, Dormant
  <1>4. \A p \in Writers : tee[p].pc = "idle" /\ tee[p].since = {}
    BY DEF TeeInit, Dormant
  <1>5. \A p \in Writers : Accounted(p)
    BY <1>4, FS_EmptySet DEF Accounted
  <1> QED
    BY <1>1, <1>2, <1>3, <1>4, <1>5 DEF TeeInv

\* A step that touches neither the directory nor the names on record keeps
\* the invariant if the one process it changes ends up in order.
LEMMA LocalStep ==
    ASSUME TeeInv, NEW p \in Writers, NEW r \in Tee,
           UNCHANGED <<site, tick, logs, written, author>>,
           tee' = [tee EXCEPT ![p] = r],
           \A n \in r.doomed : Outnumbered(logs, n),
           IsFiniteSet(r.since),
           r.pc = "remove" =>
              /\ IsFiniteSet(r.kept) /\ Cardinality(r.kept) <= MaxFiles
              /\ logs \subseteq r.kept \cup r.doomed \cup r.since,
           site = "posthook" /\ r.pc # "idle" =>
              /\ \E t \in Nat : r.name = t * Tags + PidTag[p]
              /\ r.pc # "open" => r.name \in written /\ author[r.name] = p
    PROVE  TeeInv'
  <1>0. tee \in [Writers -> Tee]
    BY DEF TeeInv, TeeTypeOK
  <1>1. \A q \in Writers : tee'[q] = IF q = p THEN r ELSE tee[q]
    BY <1>0
  <1>2. TeeTypeOK'
    BY <1>0 DEF TeeInv, TeeTypeOK
  <1>3. GoneOrDoomed'
    BY <1>1 DEF TeeInv, GoneOrDoomed, Outnumbered, Newer
  <1>4. ASSUME NEW q \in Writers PROVE Accounted(q)'
    BY <1>1 DEF TeeInv, Accounted
  <1>5. ASSUME site = "posthook", NEW q \in Writers, tee'[q].pc # "idle"
        PROVE  OwnName(q)'
    BY <1>1, <1>5 DEF TeeInv, OwnName
  <1> QED
    BY <1>2, <1>3, <1>4, <1>5 DEF TeeInv

LEMMA BeginTeeInv ==
    ASSUME TeeInv, NEW p \in Writers, NEW slug \in Slugs, Begin(p, slug)
    PROVE  TeeInv'
  <1> DEFINE n == IF site = "tee" THEN TeeName(slug) ELSE PosthookName(p, slug)
             r == [Dormant EXCEPT !.pc = "open", !.name = n]
  <1>0. tick \in Nat /\ slug \in 0 .. Tags - 1 /\ PidTag[p] \in 0 .. Tags - 1
    BY TeeAssumption DEF TeeInv, TeeTypeOK
  <1>1. n \in Nat
    BY <1>0, NameType DEF TeeName, PosthookName
  <1>2. site = "posthook" => n = tick * Tags + PidTag[p]
    BY DEF PosthookName
  <1>3. tee' = [tee EXCEPT ![p] = r] /\ UNCHANGED <<site, tick, logs, written, author>>
    BY DEF Begin
  <1> HIDE DEF n
  <1>4. r \in Tee /\ r.doomed = {} /\ r.since = {} /\ r.pc = "open" /\ r.name = n
    BY <1>1 DEF Tee, Dormant
  <1> HIDE DEF r
  <1> QED
    BY <1>0, <1>2, <1>3, <1>4, FS_EmptySet, LocalStep

LEMMA OpenTeeInv ==
    ASSUME TeeInv, NEW p \in Writers, Open(p)
    PROVE  TeeInv'
  <1> DEFINE n == tee[p].name
  <1>0. tee \in [Writers -> Tee] /\ n \in Nat /\ logs \in SUBSET Nat /\ written \in SUBSET Nat
    BY DEF TeeInv, TeeTypeOK, Tee
  <1>1. /\ logs' = logs \cup {n} /\ written' = written \cup {n}
        /\ author' = [m \in written' |-> IF m = n THEN p ELSE author[m]]
        /\ UNCHANGED <<site, tick>>
    BY DEF Open
  <1>2. ASSUME NEW q \in Writers
        PROVE  /\ tee'[q] \in Tee
               /\ tee'[q].name = tee[q].name /\ tee'[q].doomed = tee[q].doomed
               /\ tee'[q].kept = tee[q].kept
               /\ tee'[q].pc = IF q = p THEN "write" ELSE tee[q].pc
               /\ q # p /\ tee[q].pc = "remove" => tee'[q].since = tee[q].since \cup {n}
    <2>1. CASE q = p
      BY <1>0, <2>1 DEF Open, Tee
    <2>2. CASE q # p
      BY <1>0, <2>2 DEF Open, Missed, Tee
    <2> QED
      BY <2>1, <2>2
  <1>3. DOMAIN tee' = Writers /\ tee' = [q \in Writers |-> tee'[q]]
    BY DEF Open
  <1>4. tee' \in [Writers -> Tee]
    BY <1>2, <1>3
  <1>5. TeeTypeOK'
    BY <1>0, <1>1, <1>4 DEF TeeInv, TeeTypeOK
  <1>6. IsFiniteSet(logs')
    BY <1>1, FS_AddElement DEF TeeInv
  <1>7. \A m \in Nat : Outnumbered(logs, m) => Outnumbered(logs', m)
    BY <1>0, <1>1, CreationOutnumbers DEF TeeInv
  <1>8. GoneOrDoomed'
    <2>1. \A m \in written' \ logs' : Outnumbered(logs', m)
      BY <1>0, <1>1, <1>7 DEF TeeInv, GoneOrDoomed
    <2>2. \A q \in Writers : \A m \in tee'[q].doomed : Outnumbered(logs', m)
      BY <1>0, <1>2, <1>7 DEF TeeInv, GoneOrDoomed, Tee
    <2>3. \A m : Outnumbered(logs, m)' <=> Outnumbered(logs', m)
      BY DEF Outnumbered, Newer
    <2> QED
      BY <2>1, <2>2, <2>3 DEF GoneOrDoomed
  <1>9. ASSUME NEW q \in Writers PROVE Accounted(q)'
    <2>0. Accounted(q)
      BY DEF TeeInv
    <2>1. CASE q # p /\ tee[q].pc = "remove"
      <3>1. tee'[q].since = tee[q].since \cup {n}
        BY <1>2, <2>1
      <3>2. IsFiniteSet(tee'[q].since)
        BY <3>1, <2>0, FS_AddElement, SMTT(30) DEF Accounted
      <3> QED
        BY <1>1, <1>2, <2>0, <2>1, <3>1, <3>2 DEF Accounted
    <2>2. CASE ~(q # p /\ tee[q].pc = "remove")
      <3>1. tee'[q].pc # "remove" /\ tee'[q].since = tee[q].since
        BY <1>0, <1>2, <2>2 DEF Open, Missed
      <3> QED
        BY <2>0, <3>1 DEF Accounted
    <2> QED
      BY <2>1, <2>2
  <1>10. ASSUME site' = "posthook", NEW q \in Writers, tee'[q].pc # "idle"
         PROVE  OwnName(q)'
    <2>0. site = "posthook" /\ tee[p].pc = "open"
      BY <1>1, <1>10 DEF Open
    <2>1. CASE q = p
      <3>1. OwnName(p)
        BY <2>0 DEF TeeInv
      <3>2. tee'[q].name = n /\ n \in written' /\ author'[n] = p
        BY <1>1, <1>2, <2>1
      <3> QED
        BY <2>1, <3>1, <3>2 DEF OwnName
    <2>2. CASE q # p
      <3>1. tee[q].pc # "idle" /\ tee'[q].pc = tee[q].pc /\ tee'[q].name = tee[q].name
        BY <1>2, <1>10, <2>2
      <3>2. OwnName(p) /\ OwnName(q)
        BY <2>0, <3>1 DEF TeeInv
      <3>3. tee[q].name # n
        <4>1. PICK t \in Nat : tee[q].name = t * Tags + PidTag[q]
          BY <3>2 DEF OwnName
        <4>2. PICK u \in Nat : n = u * Tags + PidTag[p]
          BY <3>2 DEF OwnName
        <4>3. PidTag[p] \in 0 .. Tags - 1 /\ PidTag[q] \in 0 .. Tags - 1 /\ PidTag[p] # PidTag[q]
          BY <2>2, TeeAssumption
        <4> QED
          BY <4>1, <4>2, <4>3, TagsAreTold
      <3>4. tee[q].pc # "open" => tee[q].name \in written' /\ author'[tee[q].name] = author[tee[q].name]
        BY <1>1, <3>2, <3>3 DEF OwnName
      <3> QED
        BY <3>1, <3>2, <3>4 DEF OwnName
    <2> QED
      BY <2>1, <2>2
  <1> QED
    BY <1>5, <1>6, <1>8, <1>9, <1>10 DEF TeeInv

LEMMA WriteTeeInv ==
    ASSUME TeeInv, NEW p \in Writers, Write(p)
    PROVE  TeeInv'
  <1> DEFINE r == [tee[p] EXCEPT !.pc = "list"]
  <1>0. tee \in [Writers -> Tee] /\ tee[p].pc = "write"
    BY DEF TeeInv, TeeTypeOK, Write
  <1>1. tee' = [tee EXCEPT ![p] = r] /\ UNCHANGED <<site, tick, logs, written, author>>
    BY DEF Write
  <1>2. r \in Tee /\ r.pc = "list" /\ r.name = tee[p].name /\ r.doomed = tee[p].doomed
        /\ r.since = tee[p].since
    BY <1>0 DEF Tee
  <1> HIDE DEF r
  <1>3. \A n \in r.doomed : Outnumbered(logs, n)
    BY <1>2 DEF TeeInv, GoneOrDoomed
  <1>4. site = "posthook" => OwnName(p)
    BY <1>0 DEF TeeInv
  <1>5. IsFiniteSet(r.since)
    BY <1>2 DEF TeeInv, Accounted
  <1> QED
    BY <1>0, <1>1, <1>2, <1>3, <1>4, <1>5, LocalStep DEF OwnName

LEMMA ListTeeInv ==
    ASSUME TeeInv, NEW p \in Writers, List(p)
    PROVE  TeeInv'
  <1> DEFINE r == [tee[p] EXCEPT !.pc = "remove", !.doomed = Doomed(logs),
                                 !.kept = logs \ Doomed(logs)]
  <1>0. /\ tee \in [Writers -> Tee] /\ tee[p].pc = "list"
        /\ logs \in SUBSET Nat /\ IsFiniteSet(logs)
    BY DEF TeeInv, TeeTypeOK, List
  <1>1. tee' = [tee EXCEPT ![p] = r] /\ UNCHANGED <<site, tick, logs, written, author>>
    BY DEF List
  <1>2. Doomed(logs) \in SUBSET logs /\ \A n \in Doomed(logs) : Outnumbered(logs, n)
    BY DEF Doomed, Outnumbered
  <1>3. /\ r \in Tee /\ r.pc = "remove" /\ r.name = tee[p].name
        /\ r.doomed = Doomed(logs) /\ r.kept = logs \ Doomed(logs) /\ r.since = tee[p].since
    BY <1>0, <1>2 DEF Tee
  <1> HIDE DEF r
  <1>4. IsFiniteSet(r.kept) /\ Cardinality(r.kept) <= MaxFiles
    BY <1>0, <1>3, KeptIsWithinBudget
  <1>5. site = "posthook" => OwnName(p)
    BY <1>0 DEF TeeInv
  <1>6. IsFiniteSet(r.since)
    BY <1>3 DEF TeeInv, Accounted
  <1> QED
    BY <1>0, <1>1, <1>2, <1>3, <1>4, <1>5, <1>6, LocalStep DEF OwnName

LEMMA RemoveTeeInv ==
    ASSUME TeeInv, NEW p \in Writers, Remove(p)
    PROVE  TeeInv'
  <1>0. /\ tee \in [Writers -> Tee] /\ tee[p].pc = "remove"
        /\ logs \in SUBSET Nat /\ IsFiniteSet(logs)
    BY DEF TeeInv, TeeTypeOK, Remove
  <1>1. PICK n \in tee[p].doomed :
           logs' = logs \ {n} /\ tee' = [tee EXCEPT ![p].doomed = @ \ {n}]
    BY DEF Remove
  <1>2. n \in Nat /\ Outnumbered(logs, n)
    BY <1>0 DEF TeeInv, GoneOrDoomed, Tee
  <1>3. UNCHANGED <<site, tick, written, author>>
    BY DEF Remove
  <1>4. ASSUME NEW q \in Writers
        PROVE  /\ tee'[q] \in Tee
               /\ tee'[q].pc = tee[q].pc /\ tee'[q].name = tee[q].name
               /\ tee'[q].kept = tee[q].kept /\ tee'[q].since = tee[q].since
               /\ tee'[q].doomed = IF q = p THEN tee[q].doomed \ {n} ELSE tee[q].doomed
    BY <1>0, <1>1 DEF Tee
  <1>5. tee' \in [Writers -> Tee]
    BY <1>0, <1>1, <1>4
  <1>6. TeeTypeOK'
    BY <1>1, <1>3, <1>5 DEF TeeInv, TeeTypeOK
  <1>7. IsFiniteSet(logs')
    BY <1>0, <1>1, FS_RemoveElement
  <1>8. \A m \in Nat : Outnumbered(logs, m) => Outnumbered(logs', m)
    BY <1>0, <1>1, <1>2, RemovalOutnumbers
  <1>9. GoneOrDoomed'
    <2>1. \A m \in written' \ logs' : Outnumbered(logs', m)
      <3> SUFFICES ASSUME NEW m \in written' \ logs' PROVE Outnumbered(logs', m)
        OBVIOUS
      <3>1. m \in Nat
        BY <1>3 DEF TeeInv, TeeTypeOK
      <3>2. m = n \/ m \in written \ logs
        BY <1>1, <1>3
      <3>3. Outnumbered(logs, m)
        BY <1>2, <3>2 DEF TeeInv, GoneOrDoomed
      <3> QED
        BY <1>8, <3>1, <3>3
    <2>2. \A q \in Writers : \A m \in tee'[q].doomed : Outnumbered(logs', m)
      BY <1>0, <1>4, <1>8 DEF TeeInv, GoneOrDoomed, Tee
    <2>3. \A m : Outnumbered(logs, m)' <=> Outnumbered(logs', m)
      BY DEF Outnumbered, Newer
    <2> QED
      BY <2>1, <2>2, <2>3 DEF GoneOrDoomed
  <1>10. ASSUME NEW q \in Writers PROVE Accounted(q)'
    <2>1. Accounted(q)
      BY DEF TeeInv
    <2> QED
      BY <1>1, <1>4, <2>1 DEF Accounted
  <1>11. ASSUME site' = "posthook", NEW q \in Writers, tee'[q].pc # "idle"
         PROVE  OwnName(q)'
    <2>1. /\ site = "posthook" /\ tee[q].pc # "idle"
          /\ tee'[q].pc = tee[q].pc /\ tee'[q].name = tee[q].name
      BY <1>3, <1>4, <1>11
    <2>2. OwnName(q)
      BY <2>1 DEF TeeInv
    <2> QED
      BY <1>3, <2>1, <2>2 DEF OwnName
  <1> QED
    BY <1>6, <1>7, <1>9, <1>10, <1>11 DEF TeeInv

LEMMA HintTeeInv ==
    ASSUME TeeInv, NEW p \in Writers, Hint(p)
    PROVE  TeeInv'
  <1> DEFINE r == [Dormant EXCEPT !.pc = "hinted", !.name = tee[p].name]
  <1>0. tee \in [Writers -> Tee] /\ tee[p].pc = "remove"
    BY DEF TeeInv, TeeTypeOK, Hint
  <1>1. tee' = [tee EXCEPT ![p] = r] /\ UNCHANGED <<site, tick, logs, written, author>>
    BY DEF Hint
  <1>2. tee[p].name \in Nat
    BY <1>0 DEF Tee
  <1>3. r \in Tee /\ r.pc = "hinted" /\ r.name = tee[p].name /\ r.doomed = {} /\ r.since = {}
    BY <1>2 DEF Tee, Dormant
  <1> HIDE DEF r
  <1>4. site = "posthook" => OwnName(p)
    BY <1>0 DEF TeeInv
  <1> QED
    BY <1>0, <1>1, <1>3, <1>4, FS_EmptySet, LocalStep DEF OwnName

LEMMA GiveUpTeeInv ==
    ASSUME TeeInv, NEW p \in Writers, GiveUp(p)
    PROVE  TeeInv'
  <1>1. tee' = [tee EXCEPT ![p] = Dormant] /\ UNCHANGED <<site, tick, logs, written, author>>
    BY DEF GiveUp
  <1>2. /\ Dormant \in Tee /\ Dormant.pc = "idle"
        /\ Dormant.doomed = {} /\ Dormant.since = {}
    BY DEF Tee, Dormant
  <1> QED
    BY <1>1, <1>2, FS_EmptySet, LocalStep

LEMMA TickTeeInv == TeeInv /\ TeeTick => TeeInv'
  BY DEF TeeInv, TeeTick, TeeTypeOK, GoneOrDoomed, Outnumbered, Newer, Accounted, OwnName

LEMMA IdleTeeInv == TeeInv /\ UNCHANGED teeVars => TeeInv'
  BY DEF TeeInv, teeVars, TeeTypeOK, GoneOrDoomed, Outnumbered, Newer, Accounted, OwnName

LEMMA NextTeeInv == TeeInv /\ [TeeNext]_teeVars => TeeInv'
  <1> SUFFICES ASSUME TeeInv, [TeeNext]_teeVars PROVE TeeInv'
    OBVIOUS
  <1>1. CASE \E p \in Writers, slug \in Slugs : Begin(p, slug)
    BY <1>1, BeginTeeInv
  <1>2. ASSUME NEW p \in Writers, TeeStep(p) PROVE TeeInv'
    BY <1>2, OpenTeeInv, WriteTeeInv, ListTeeInv, RemoveTeeInv, HintTeeInv, GiveUpTeeInv
       DEF TeeStep
  <1>3. CASE TeeTick
    BY <1>3, TickTeeInv
  <1>4. CASE UNCHANGED teeVars
    BY <1>4, IdleTeeInv
  <1> QED
    BY <1>1, <1>2, <1>3, <1>4 DEF TeeNext

\* TeeInv is inductive.
THEOREM TeeInvHolds == TeeSpec => []TeeInv
  BY InitTeeInv, NextTeeInv, PTL DEF TeeSpec

(***************************************************************************)
(* The properties                                                          *)
(***************************************************************************)

\* Type correctness of the log directory and the processes' records.
THEOREM TeeTypeCorrect == TeeSpec => []TeeTypeOK
  <1>1. TeeInv => TeeTypeOK
    BY DEF TeeInv
  <1> QED
    BY <1>1, TeeInvHolds, PTL

\* Rotation never takes one of the newest MaxFiles logs, for any number of
\* rotations that run at once over listings however stale (tee_file.rs:114-131).
THEOREM NewestAreKept == TeeSpec => []NewestLogsAreKept
  <1>1. TeeInv => NewestLogsAreKept
    BY DEF TeeInv, GoneOrDoomed, NewestLogsAreKept, Outnumbered
  <1> QED
    BY <1>1, TeeInvHolds, PTL

\* Posthook processes never overwrite one another's logs, whatever slugs they
\* share and however long they run (tee.rs:118-121).
THEOREM PosthookAuthors == TeeSpec => []PosthookLogsAreTheirAuthors
  <1>1. TeeInv => PosthookLogsAreTheirAuthors
    BY DEF TeeInv, OwnName, PosthookLogsAreTheirAuthors
  <1> QED
    BY <1>1, TeeInvHolds, PTL

\* Every rotation that completes meets the budget, up to the logs that were
\* created behind its back (tee_file.rs:114-131).
THEOREM RotationsMeetTheBudget == TeeSpec => RotationMeetsTheBudget
  <1> DEFINE Met(p) == tee[p].pc = "remove" /\ tee'[p].pc = "hinted"
                          => Cardinality(logs') <= MaxFiles + Cardinality(tee[p].since)
  <1>1. ASSUME TeeInv, TeeNext, NEW p \in Writers PROVE Met(p)
    <2> SUFFICES ASSUME tee[p].pc = "remove", tee'[p].pc = "hinted"
                 PROVE  Cardinality(logs') <= MaxFiles + Cardinality(tee[p].since)
      OBVIOUS
    <2>0. tee \in [Writers -> Tee] /\ Accounted(p)
      BY <1>1 DEF TeeInv, TeeTypeOK
    <2>1. Hint(p)
      <3>1. ASSUME NEW q \in Writers, NEW slug \in Slugs, Begin(q, slug) PROVE FALSE
        BY <2>0, <3>1 DEF Begin, Dormant
      <3>2. ASSUME NEW q \in Writers, Open(q) PROVE FALSE
        BY <2>0, <3>2 DEF Open, Missed, Tee
      <3>3. ASSUME NEW q \in Writers, Write(q) \/ List(q) \/ Remove(q) \/ GiveUp(q) PROVE FALSE
        BY <2>0, <3>3 DEF Write, List, Remove, GiveUp, Dormant, Tee
      <3>4. ASSUME NEW q \in Writers, Hint(q) PROVE q = p
        BY <2>0, <3>4 DEF Hint
      <3>5. ~TeeTick
        BY DEF TeeTick
      <3> QED
        BY <1>1, <3>1, <3>2, <3>3, <3>4, <3>5 DEF TeeNext, TeeStep
    <2>2. logs' = logs /\ tee[p].doomed = {}
      BY <2>1 DEF Hint
    <2> DEFINE K == tee[p].kept
               S == tee[p].since
    <2>3. IsFiniteSet(K) /\ Cardinality(K) <= MaxFiles /\ IsFiniteSet(S)
      BY <2>0 DEF Accounted
    <2>4. logs \in SUBSET (K \cup S)
      BY <2>0, <2>2 DEF Accounted
    <2> HIDE DEF K, S
    <2>5. /\ IsFiniteSet(K \cup S) /\ IsFiniteSet(K \cap S)
          /\ Cardinality(K \cup S) = Cardinality(K) + Cardinality(S) - Cardinality(K \cap S)
      <3>1. K \cap S \in SUBSET K
        OBVIOUS
      <3> QED
        BY <2>3, <3>1, FS_Union, FS_Subset
    <2>6. Cardinality(logs) <= Cardinality(K \cup S) /\ IsFiniteSet(logs)
      BY <2>4, <2>5, FS_Subset
    <2>7. /\ Cardinality(K) \in Nat /\ Cardinality(S) \in Nat /\ Cardinality(logs) \in Nat
          /\ Cardinality(K \cap S) \in Nat /\ Cardinality(K \cup S) \in Nat
      BY <2>3, <2>5, <2>6, FS_CardinalityType
    <2>8. Cardinality(logs) <= MaxFiles + Cardinality(S)
      BY <2>3, <2>5, <2>6, <2>7, TeeAssumption
    <2> QED
      BY <2>2, <2>8 DEF S
  <1>2. TeeInv /\ [TeeNext]_teeVars => [\A p \in Writers : Met(p)]_teeVars
    BY <1>1
  <1> QED
    BY <1>2, TeeInvHolds, PTL DEF TeeSpec, RotationMeetsTheBudget

=============================================================================
