----------------------------- MODULE RelayProof -----------------------------
(***************************************************************************)
(* The safety properties of Relay, and that it implements Exchange, for    *)
(* every number of exchanges and retries and every set of credentials.     *)
(***************************************************************************)
EXTENDS Relay, TLAPS

(***************************************************************************)
(* The inductive invariant of one exchange                                 *)
(***************************************************************************)

\* While it is open nothing is written, a stream has reported what it was
\* charged, and the retries of a transient status are spent.
OpenInv(q) ==
    /\ q.rows = 0 /\ ~q.whole /\ q.usage = q.charged
    /\ q.task = IF q.pc = "stream" THEN "waiting" ELSE "none"
    /\ q.pc \in {"await", "backoff", "buffer", "stream"} /\ q.cred # NoCredential
          => q.sentAs = q.cred
    /\ q.pc \in {"buffer", "stream"} => q.class \notin {"unanswered", "failed"}
    /\ q.pc = "stream" => q.class = "ok"
    /\ q.pc = "buffer" /\ q.class = "transient" => q.attempt = Retries

\* Once it has ended the outcome is sound and its row is still to be written,
\* written once, or refused.
EndedInv(q) ==
    /\ q.row.usage <= q.charged
    /\ q.whole => q.row.usage = q.charged
    /\ q.row.class = "ok" => q.whole
    /\ q.class \in Passing => q.attempt = Retries
    /\ \/ q.task \in {"ready", "refused"} /\ q.rows = 0
       \/ q.task = "none" /\ q.rows = 1

ExchangeInv(q) ==
    /\ q \in Exchanged
    /\ IsOpen(q) => OpenInv(q)
    /\ q.pc = "done" => EndedInv(q)
    /\ q.pc \in {"none", "gone", "broken"} => q.task = "none" /\ q.rows = 0

IInv ==
    /\ held \in Credentials \cup {NoCredential}
    /\ ex \in [Slots -> Exchanged]
    /\ \A r \in Slots : ExchangeInv(ex[r])

(***************************************************************************)
(* The records the actions build                                           *)
(***************************************************************************)

LEMMA ReceivedInv ==
    ASSUME NEW c \in Credentials \cup {NoCredential}, NEW s \in BOOLEAN
    PROVE  ExchangeInv(Received(c, s))
  BY RelayAssumption
  DEF Received, ExchangeInv, Exchanged, OpenStates, Classes, IsOpen, OpenInv

LEMMA DroppedInv ==
    ASSUME NEW how \in {"none", "gone", "broken"}
    PROVE  /\ ExchangeInv(Dropped(how))
           /\ Dropped(how).pc = how
           /\ Dropped(how).rows = 0
  <1> DEFINE v == Received(NoCredential, FALSE)
  <1>1. v \in Exchanged /\ v.task = "none" /\ v.rows = 0
    BY ReceivedInv, RelayAssumption DEF ExchangeInv, Received
  <1>2. Dropped(how) = [v EXCEPT !.pc = how]
    BY <1>1 DEF Dropped, Vacant, Exchanged
  <1> HIDE DEF v
  <1> QED
    BY <1>1, <1>2 DEF ExchangeInv, Exchanged, OpenStates, IsOpen

LEMMA VacantInv == ExchangeInv(Vacant) /\ Vacant.pc = "none" /\ Vacant.rows = 0
  <1> DEFINE v == Received(NoCredential, FALSE)
  <1>1. v \in Exchanged /\ v.task = "none" /\ v.rows = 0
    BY ReceivedInv, RelayAssumption DEF ExchangeInv, Received
  <1>2. Vacant = [v EXCEPT !.pc = "none"]
    BY DEF Vacant
  <1> HIDE DEF v
  <1> QED
    BY <1>1, <1>2 DEF ExchangeInv, Exchanged, OpenStates, IsOpen

\* An outcome that is sound for the exchange it ends.
SoundOutcome(q, class, usage) ==
    /\ usage <= q.charged
    /\ q.whole => usage = q.charged
    /\ class = "ok" => q.whole
    /\ class \in Passing => q.attempt = Retries

LEMMA FinishedInv ==
    ASSUME NEW q \in Exchanged, NEW class \in Classes, NEW u \in 0 .. MaxUsage,
           SoundOutcome(q, class, u)
    PROVE  /\ ExchangeInv(Finished(q, class, u))
           /\ Finished(q, class, u).pc = "done"
           /\ Finished(q, class, u).rows = 0
  <1> DEFINE w == [class |-> class, usage |-> u]
             f == Finished(q, class, u)
  <1>1. Vacant \in Exchanged /\ Vacant.rows = 0
    BY VacantInv DEF ExchangeInv
  <1>2. w \in [class : Classes, usage : 0 .. MaxUsage] /\ w.class = class /\ w.usage = u
    OBVIOUS
  <1>3. f = [Vacant EXCEPT !.pc = "done", !.attempt = q.attempt, !.charged = q.charged,
                           !.whole = q.whole, !.class = class, !.row = w, !.task = "ready"]
    BY <1>1 DEF Finished, Delivered, Exchanged
  <1> HIDE DEF w, f
  <1>4. /\ f \in Exchanged
        /\ f.pc = "done" /\ f.rows = 0 /\ f.task = "ready" /\ f.row = w
        /\ f.class = class /\ f.attempt = q.attempt /\ f.charged = q.charged
        /\ f.whole = q.whole
    <2>1. /\ q.attempt \in 0 .. Retries /\ q.charged \in 0 .. MaxUsage
          /\ q.whole \in BOOLEAN
      BY DEF Exchanged
    <2>2. f \in Exchanged
      <3> DEFINE g == [Vacant EXCEPT !.pc = "done", !.attempt = q.attempt,
                                     !.charged = q.charged, !.whole = q.whole]
      <3>1. g \in Exchanged
        BY <1>1, <2>1, ZenonT(30) DEF Exchanged
      <3>2. f = [g EXCEPT !.class = class, !.row = w, !.task = "ready"]
        BY <1>1, <1>3 DEF Exchanged
      <3> HIDE DEF g
      <3> QED
        BY <1>2, <3>1, <3>2 DEF Exchanged
    <2>3. /\ f.pc = "done" /\ f.rows = 0 /\ f.task = "ready" /\ f.row = w
          /\ f.class = class /\ f.attempt = q.attempt /\ f.charged = q.charged
          /\ f.whole = q.whole
      BY <1>1, <1>3 DEF Exchanged
    <2> QED
      BY <2>2, <2>3
  <1> QED
    BY <1>2, <1>4 DEF f, ExchangeInv, EndedInv, SoundOutcome, IsOpen, OpenStates

(***************************************************************************)
(* One exchange's steps                                                    *)
(***************************************************************************)

\* What a step does to the exchange as Exchange sees it.
Moves(q, p) ==
    \/ PhaseOf(p) = PhaseOf(q) /\ p.rows = q.rows
    \/ PhaseOf(q) = "open" /\ PhaseOf(p) \in {"answered", "left"} /\ p.rows = q.rows
    \/ PhaseOf(q) = "answered" /\ PhaseOf(p) = "answered" /\ q.rows = 0 /\ p.rows = 1
    \/ PhaseOf(q) # "open" /\ PhaseOf(p) = "open" /\ p.rows = 0

Advances(r, p) ==
    /\ ex' = [ex EXCEPT ![r] = p]
    /\ ExchangeInv(p)
    /\ Moves(ex[r], p)

\* An open exchange ends with a sound outcome.
LEMMA EndsSoundly ==
    ASSUME NEW q, NEW o, ExchangeInv(q), IsOpen(q), o \in Exchanged,
           NEW class \in Classes, NEW u \in 0 .. MaxUsage,
           SoundOutcome(o, class, u)
    PROVE  ExchangeInv(Finished(o, class, u)) /\ Moves(q, Finished(o, class, u))
  <1> DEFINE f == Finished(o, class, u)
  <1>1. ExchangeInv(f) /\ f.pc = "done" /\ f.rows = 0
    BY FinishedInv
  <1>2. q.rows = 0
    BY DEF ExchangeInv, OpenInv
  <1> HIDE DEF f
  <1> QED
    BY <1>1, <1>2 DEF f, Moves, PhaseOf, IsOpen, OpenStates

\* An open exchange is tried again.
LEMMA RetriesSoundly ==
    ASSUME NEW q, ExchangeInv(q), q.pc = "await", MayRetry(q)
    PROVE  ExchangeInv(Retried(q)) /\ Moves(q, Retried(q))
  <1> DEFINE n == q.attempt + 1
             p == [q EXCEPT !.pc = "backoff", !.attempt = n]
  <1>1. n \in 0 .. Retries
    BY RelayAssumption DEF ExchangeInv, Exchanged, MayRetry
  <1>2. Retried(q) = p
    BY DEF ExchangeInv, Exchanged, Retried
  <1> HIDE DEF n
  <1>3. ExchangeInv(p) /\ Moves(q, p)
    BY <1>1 DEF ExchangeInv, OpenInv, Exchanged, OpenStates, IsOpen, Moves, PhaseOf
  <1> QED
    BY <1>2, <1>3

LEMMA SendAdvances ==
    ASSUME IInv, NEW r \in Slots, Send(r)
    PROVE  \E p : Advances(r, p)
  <1> DEFINE q == ex[r]
             p == [q EXCEPT !.pc = "await", !.sentAs = Lent(q.cred)]
  <1>1. q \in Exchanged /\ ExchangeInv(q) /\ q.pc = "send"
    BY DEF IInv, Send
  <1>2. Lent(q.cred) \in Credentials \cup {NoCredential}
    BY <1>1 DEF IInv, Lent, Exchanged
  <1>3. q.cred # NoCredential => Lent(q.cred) = q.cred
    BY DEF Lent
  <1>4. ex' = [ex EXCEPT ![r] = p]
    BY <1>1 DEF IInv, Send, Exchanged
  <1>5. ExchangeInv(p) /\ Moves(q, p)
    BY <1>1, <1>2, <1>3
    DEF ExchangeInv, OpenInv, Exchanged, OpenStates, IsOpen, Moves, PhaseOf
  <1> QED
    BY <1>4, <1>5 DEF Advances

LEMMA BackOffAdvances ==
    ASSUME IInv, NEW r \in Slots, BackOff(r)
    PROVE  \E p : Advances(r, p)
  <1> DEFINE q == ex[r]
             p == [q EXCEPT !.pc = "send"]
  <1>1. q \in Exchanged /\ ExchangeInv(q) /\ q.pc = "backoff"
    BY DEF IInv, BackOff
  <1>2. ex' = [ex EXCEPT ![r] = p]
    BY DEF BackOff
  <1>3. ExchangeInv(p) /\ Moves(q, p)
    BY <1>1 DEF ExchangeInv, OpenInv, Exchanged, OpenStates, IsOpen, Moves, PhaseOf
  <1> QED
    BY <1>2, <1>3 DEF Advances

LEMMA AnswersAdvances ==
    ASSUME IInv, NEW r \in Slots, Answers(r)
    PROVE  \E p : Advances(r, p)
  <1> DEFINE q == ex[r]
  <1>1. q \in Exchanged /\ ExchangeInv(q) /\ q.pc = "await"
    BY DEF IInv, Answers
  <1>2. PICK class \in {"ok", "rejected", "transient"} :
          ex' = [ex EXCEPT ![r] =
             IF class \in Passing /\ MayRetry(q) THEN Retried(q)
             ELSE IF q.stream /\ class = "ok"
             THEN [q EXCEPT !.pc = "stream", !.class = class, !.task = "waiting"]
             ELSE [q EXCEPT !.pc = "buffer", !.class = class]]
    BY DEF Answers
  <1>3. CASE class \in Passing /\ MayRetry(q)
    BY <1>1, <1>2, <1>3, RetriesSoundly DEF Advances
  <1>4. CASE class = "ok" /\ q.stream
    <2> DEFINE p == [q EXCEPT !.pc = "stream", !.class = class, !.task = "waiting"]
    <2>1. ExchangeInv(p) /\ Moves(q, p)
      BY <1>1, <1>4
      DEF ExchangeInv, OpenInv, Exchanged, OpenStates, Classes, IsOpen, Moves, PhaseOf
    <2> QED
      BY <1>2, <1>4, <2>1 DEF Advances, Passing
  <1>5. CASE ~(class \in Passing /\ MayRetry(q)) /\ ~(class = "ok" /\ q.stream)
    <2> DEFINE p == [q EXCEPT !.pc = "buffer", !.class = class]
    <2>1. class = "transient" => q.attempt = Retries
      BY <1>1, <1>5, RelayAssumption DEF Passing, MayRetry, Exchanged
    <2>2. ExchangeInv(p) /\ Moves(q, p)
      BY <1>1, <2>1
      DEF ExchangeInv, OpenInv, Exchanged, OpenStates, Classes, IsOpen, Moves, PhaseOf
    <2> QED
      BY <1>2, <1>5, <2>2 DEF Advances
  <1> QED
    BY <1>3, <1>4, <1>5

LEMMA SendFailsAdvances ==
    ASSUME IInv, NEW r \in Slots, SendFails(r)
    PROVE  \E p : Advances(r, p)
  <1> DEFINE q == ex[r]
  <1>1. q \in Exchanged /\ ExchangeInv(q) /\ q.pc = "await" /\ IsOpen(q)
    BY DEF IInv, SendFails, IsOpen, OpenStates
  <1>2. PICK class \in {"unanswered", "failed"} :
          ex' = [ex EXCEPT ![r] =
             IF class \in Passing /\ MayRetry(q) THEN Retried(q) ELSE Finished(q, class, 0)]
    BY DEF SendFails
  <1>3. CASE class \in Passing /\ MayRetry(q)
    BY <1>1, <1>2, <1>3, RetriesSoundly DEF Advances
  <1>4. CASE ~(class \in Passing /\ MayRetry(q))
    <2>1. class \in Passing => q.attempt = Retries
      BY <1>1, <1>4, RelayAssumption DEF MayRetry, Exchanged
    <2>2. SoundOutcome(q, class, 0)
      BY <1>1, <2>1 DEF SoundOutcome, ExchangeInv, OpenInv, Exchanged
    <2>3. 0 \in 0 .. MaxUsage /\ class \in Classes
      BY RelayAssumption DEF Classes
    <2> QED
      BY <1>1, <1>2, <1>4, <2>2, <2>3, EndsSoundly DEF Advances
  <1> QED
    BY <1>3, <1>4

\* What reading a buffered body charges, and the exchange while it is read.
LEMMA Charged ==
    ASSUME NEW q \in Exchanged, NEW u \in Charges(q), NEW w \in BOOLEAN
    PROVE  /\ u \in 0 .. MaxUsage
           /\ [q EXCEPT !.charged = u, !.whole = w] \in Exchanged
  <1>1. u \in 0 .. MaxUsage
    BY RelayAssumption DEF Charges
  <1> QED
    BY <1>1 DEF Exchanged

LEMMA BodyReadAdvances ==
    ASSUME IInv, NEW r \in Slots, BodyRead(r)
    PROVE  \E p : Advances(r, p)
  <1> DEFINE q == ex[r]
  <1>1. q \in Exchanged /\ ExchangeInv(q) /\ q.pc = "buffer" /\ IsOpen(q)
    BY DEF IInv, BodyRead, IsOpen, OpenStates
  <1>2. PICK u \in Charges(q) :
          ex' = [ex EXCEPT ![r] =
                    Finished([q EXCEPT !.charged = u, !.whole = TRUE], q.class, u)]
    BY DEF BodyRead
  <1> DEFINE o == [q EXCEPT !.charged = u, !.whole = TRUE]
  <1>3. u \in 0 .. MaxUsage /\ o \in Exchanged
    BY <1>1, Charged
  <1>4. SoundOutcome(o, q.class, u)
    BY <1>1, <1>3 DEF Passing, SoundOutcome, ExchangeInv, OpenInv, Exchanged
  <1>5. q.class \in Classes
    BY <1>1 DEF Exchanged
  <1> HIDE DEF o
  <1>6. ExchangeInv(Finished(o, q.class, u)) /\ Moves(q, Finished(o, q.class, u))
    BY <1>1, <1>3, <1>4, <1>5, EndsSoundly
  <1> QED
    BY <1>2, <1>6 DEF Advances, o

LEMMA BodyFailsAdvances ==
    ASSUME IInv, NEW r \in Slots, BodyFails(r)
    PROVE  \E p : Advances(r, p)
  <1> DEFINE q == ex[r]
  <1>1. q \in Exchanged /\ ExchangeInv(q) /\ q.pc = "buffer" /\ IsOpen(q)
    BY DEF IInv, BodyFails, IsOpen, OpenStates
  <1>2. PICK u \in Charges(q) :
          ex' = [ex EXCEPT ![r] = Finished([q EXCEPT !.charged = u], "failed", 0)]
    BY DEF BodyFails, BrokenOff
  <1> DEFINE o == [q EXCEPT !.charged = u]
  <1>3. u \in 0 .. MaxUsage
    BY <1>1, Charged
  <1>4. o \in Exchanged /\ SoundOutcome(o, "failed", 0)
    BY <1>1, <1>3 DEF Passing, SoundOutcome, ExchangeInv, OpenInv, Exchanged
  <1>5. "failed" \in Classes /\ 0 \in 0 .. MaxUsage
    BY RelayAssumption DEF Classes
  <1> HIDE DEF o
  <1>6. ExchangeInv(Finished(o, "failed", 0)) /\ Moves(q, Finished(o, "failed", 0))
    BY <1>1, <1>4, <1>5, EndsSoundly
  <1> QED
    BY <1>2, <1>6 DEF Advances, o

LEMMA StreamReportsAdvances ==
    ASSUME IInv, NEW r \in Slots, StreamReports(r)
    PROVE  \E p : Advances(r, p)
  <1> DEFINE q == ex[r]
             u == q.usage + 1
             p == [q EXCEPT !.usage = u, !.charged = u]
  <1>1. q \in Exchanged /\ ExchangeInv(q) /\ q.pc = "stream" /\ q.usage < MaxUsage
    BY DEF IInv, StreamReports
  <1>2. u \in 0 .. MaxUsage /\ q.charged = q.usage
    BY <1>1, RelayAssumption DEF Exchanged, ExchangeInv, OpenInv, IsOpen, OpenStates
  <1>3. ex' = [ex EXCEPT ![r] = p]
    BY <1>1, <1>2 DEF StreamReports, IInv, Exchanged
  <1> HIDE DEF u
  <1>4. ExchangeInv(p) /\ Moves(q, p)
    BY <1>1, <1>2 DEF ExchangeInv, OpenInv, Exchanged, OpenStates, IsOpen, Moves, PhaseOf
  <1> QED
    BY <1>3, <1>4 DEF Advances

LEMMA StreamEndsAdvances ==
    ASSUME IInv, NEW r \in Slots, StreamEnds(r)
    PROVE  \E p : Advances(r, p)
  <1> DEFINE q == ex[r]
             o == [q EXCEPT !.whole = TRUE]
  <1>1. q \in Exchanged /\ ExchangeInv(q) /\ q.pc = "stream" /\ IsOpen(q)
    BY DEF IInv, StreamEnds, IsOpen, OpenStates
  <1>2. ex' = [ex EXCEPT ![r] = Finished(o, q.class, q.usage)]
    BY DEF StreamEnds
  <1>3. o \in Exchanged /\ SoundOutcome(o, q.class, q.usage)
    <2>1. q.class = "ok" /\ q.usage = q.charged
      BY <1>1 DEF ExchangeInv, OpenInv
    <2>2. o \in Exchanged /\ o.charged = q.charged /\ o.whole
      BY <1>1 DEF Exchanged
    <2>3. q.charged <= q.charged
      BY <1>1 DEF Exchanged
    <2> QED
      BY <2>1, <2>2, <2>3 DEF Passing, SoundOutcome
  <1>4. q.class \in Classes /\ q.usage \in 0 .. MaxUsage
    BY <1>1 DEF Exchanged
  <1> HIDE DEF o
  <1>5. ExchangeInv(Finished(o, q.class, q.usage)) /\ Moves(q, Finished(o, q.class, q.usage))
    BY <1>1, <1>3, <1>4, EndsSoundly
  <1> QED
    BY <1>2, <1>5 DEF Advances

\* An open exchange may be dropped at any point.
LEMMA DropAdvances ==
    ASSUME IInv, NEW r \in Slots, NEW how \in {"gone", "broken"}, IsOpen(ex[r]),
           ex' = [ex EXCEPT ![r] = Dropped(how)]
    PROVE  \E p : Advances(r, p)
  <1>1. ExchangeInv(ex[r]) /\ ex[r].rows = 0
    BY DEF IInv, ExchangeInv, OpenInv
  <1>2. ExchangeInv(Dropped(how)) /\ Dropped(how).pc = how /\ Dropped(how).rows = 0
    BY DroppedInv
  <1>3. Moves(ex[r], Dropped(how))
    BY <1>1, <1>2 DEF Moves, PhaseOf, IsOpen, OpenStates
  <1> QED
    BY <1>2, <1>3 DEF Advances

LEMMA RecordAdvances ==
    ASSUME IInv, NEW r \in Slots, Record(r)
    PROVE  \E p : Advances(r, p)
  <1> DEFINE q == ex[r]
             p1 == [q EXCEPT !.task = "none", !.rows = 1]
             p2 == [q EXCEPT !.task = "refused"]
  <1>1. q \in Exchanged /\ ExchangeInv(q) /\ q.task = "ready"
    BY DEF IInv, Record
  <1>2. q.pc = "done" /\ q.rows = 0 /\ EndedInv(q)
    BY <1>1 DEF ExchangeInv, Exchanged, OpenInv, EndedInv, IsOpen, OpenStates
  <1>3. ex' = [ex EXCEPT ![r] = p1] \/ ex' = [ex EXCEPT ![r] = p2]
    <2>1. Written(q) = p1
      BY <1>1, <1>2 DEF Written, Exchanged
    <2> QED
      BY <2>1 DEF Record
  <1>4. ExchangeInv(p1) /\ Moves(q, p1)
    <2>1. /\ p1.pc = "done" /\ p1.task = "none" /\ p1.rows = 1
          /\ p1.row = q.row /\ p1.charged = q.charged /\ p1.whole = q.whole
          /\ p1.class = q.class /\ p1.attempt = q.attempt
      BY <1>1, <1>2 DEF Exchanged
    <2>2. p1 \in Exchanged
      BY <1>1 DEF Exchanged
    <2> HIDE DEF p1, q
    <2>3. EndedInv(p1)
      BY <1>2, <2>1 DEF EndedInv
    <2>4. ExchangeInv(p1)
      BY <2>1, <2>2, <2>3 DEF ExchangeInv, OpenStates, IsOpen
    <2> QED
      BY <1>2, <2>1, <2>4 DEF Moves, PhaseOf, IsOpen, OpenStates
  <1>5. ExchangeInv(p2) /\ Moves(q, p2)
    BY <1>1, <1>2
    DEF ExchangeInv, EndedInv, Exchanged, OpenStates, IsOpen, Moves, PhaseOf
  <1> QED
    BY <1>3, <1>4, <1>5 DEF Advances

LEMMA ReceiveAdvances ==
    ASSUME IInv, NEW r \in Slots, NEW c \in Credentials \cup {NoCredential},
           NEW s \in BOOLEAN, Receive(r, c, s)
    PROVE  \E p : Advances(r, p)
  <1>1. ExchangeInv(Received(c, s))
    BY ReceivedInv
  <1>2. Moves(ex[r], Received(c, s))
    BY DEF Receive, Received, Settled, Moves, PhaseOf, IsOpen, OpenStates
  <1> QED
    BY <1>1, <1>2 DEF Receive, Advances

(***************************************************************************)
(* The whole daemon                                                        *)
(***************************************************************************)

LEMMA StepAdvances ==
    ASSUME IInv, NEW r \in Slots, Step(r) \/ HangUp(r)
    PROVE  (\E p : Advances(r, p)) /\ UNCHANGED held
  <1>1. UNCHANGED held
    BY DEF Step, Send, BackOff, Answers, SendFails, BodyRead, BodyFails, StreamReports,
           StreamEnds, StreamBreaks, Record, HangUp
  <1>2. CASE StreamBreaks(r)
    BY <1>2, DropAdvances DEF StreamBreaks, IsOpen, OpenStates
  <1>3. CASE HangUp(r)
    BY <1>3, DropAdvances DEF HangUp
  <1> QED
    BY <1>1, <1>2, <1>3, SendAdvances, BackOffAdvances, AnswersAdvances,
       SendFailsAdvances, BodyReadAdvances, BodyFailsAdvances, StreamReportsAdvances,
       StreamEndsAdvances, RecordAdvances
    DEF Step

LEMMA IInvInit == Init => IInv
  BY VacantInv DEF Init, IInv, ExchangeInv

LEMMA IInvAdvance ==
    ASSUME IInv, NEW r \in Slots, NEW p, Advances(r, p),
           held' \in Credentials \cup {NoCredential}
    PROVE  IInv'
  BY DEF IInv, Advances, ExchangeInv

LEMMA IInvNext == IInv /\ [Next]_relayVars => IInv'
  <1> SUFFICES ASSUME IInv, [Next]_relayVars PROVE IInv'
    OBVIOUS
  <1>1. ASSUME NEW r \in Slots, NEW c \in Credentials \cup {NoCredential},
               NEW s \in BOOLEAN, Receive(r, c, s)
        PROVE  IInv'
    <2>1. held' \in Credentials \cup {NoCredential}
      BY <1>1 DEF Receive, IInv
    <2> QED
      BY <1>1, <2>1, ReceiveAdvances, IInvAdvance
  <1>2. ASSUME NEW r \in Slots, Step(r) \/ HangUp(r) PROVE IInv'
    <2>1. held' \in Credentials \cup {NoCredential}
      BY <1>2, StepAdvances DEF IInv
    <2> QED
      BY <1>2, <2>1, StepAdvances, IInvAdvance
  <1>3. CASE Restart
    BY <1>3, VacantInv DEF Restart, IInv, ExchangeInv
  <1>4. CASE UNCHANGED relayVars
    BY <1>4 DEF relayVars, IInv
  <1> QED
    BY <1>1, <1>2, <1>3, <1>4 DEF Next

LEMMA IInvAlways == Spec => []IInv
  BY IInvInit, IInvNext, PTL DEF Spec

(***************************************************************************)
(* The results                                                             *)
(***************************************************************************)

\* The variables keep their types.
THEOREM TypeCorrect == Spec => []TypeOK
  <1>1. IInv => TypeOK
    BY DEF IInv, TypeOK
  <1> QED
    BY <1>1, IInvAlways, PTL

\* A request that authenticates itself is never sent as another
\* (relayed_auth.rs:65-68).
THEOREM CredentialKept == Spec => []OwnCredentialIsKept
  <1>1. IInv => OwnCredentialIsKept
    BY DEF IInv, ExchangeInv, OpenInv, IsOpen, OpenStates, OwnCredentialIsKept
  <1> QED
    BY <1>1, IInvAlways, PTL

\* Transient failures reach the client only after the last retry
\* (forward.rs:339-354).
THEOREM RetriesSpent == Spec => []RetriesAreSpent
  <1>1. IInv => RetriesAreSpent
    BY DEF Passing, IInv, ExchangeInv, OpenInv, EndedInv, IsOpen, OpenStates, RetriesAreSpent
  <1> QED
    BY <1>1, IInvAlways, PTL

\* What is in a usage row was charged and answered (server.rs:384-386).
THEOREM RowsTruthful == Spec => []RowsTellTheTruth
  <1>1. IInv => RowsTellTheTruth
    <2> SUFFICES ASSUME IInv, NEW r \in Slots, ex[r].rows > 0
                 PROVE  EndedInv(ex[r])
      BY DEF RowsTellTheTruth, EndedInv
    <2>1. ex[r].pc = "done"
      BY DEF IInv, ExchangeInv, OpenInv, Exchanged, IsOpen, OpenStates
    <2> QED
      BY <2>1 DEF IInv, ExchangeInv
  <1> QED
    BY <1>1, IInvAlways, PTL

\* No exchange the daemon brought to an end goes unbooked, but for SQLite.
THEOREM EndsBooked == Spec => []EndedExchangesAreBooked
  <1>1. IInv => EndedExchangesAreBooked
    BY DEF IInv, ExchangeInv, EndedInv, Settled, EndedExchangesAreBooked
  <1> QED
    BY <1>1, IInvAlways, PTL

(***************************************************************************)
(* Exchanges only go forward                                               *)
(***************************************************************************)

\* One attempt, from the pause before it to its body.
Turn == [backoff |-> 1, send |-> 2, await |-> 3, buffer |-> 4, stream |-> 4]

\* p is nearer its end than q: it was answered or settled, is at a later attempt,
\* further in the same one, or has had more of its stream.
Later(p, q) ==
    \/ IsOpen(q) /\ ~IsOpen(p)
    \/ ~IsOpen(q) /\ ~Settled(q) /\ Settled(p)
    \/ /\ IsOpen(q) /\ IsOpen(p)
       /\ \/ p.attempt > q.attempt
          \/ p.attempt = q.attempt /\ Turn[p.pc] > Turn[q.pc]
          \/ p.attempt = q.attempt /\ p.pc = q.pc /\ p.usage > q.usage

\* Nothing is later than itself.
LEMMA LaterIsStrict ==
    ASSUME NEW q \in Exchanged
    PROVE  ~Later(q, q)
  <1>1. q.attempt \in Nat /\ q.usage \in Nat
    BY RelayAssumption DEF Exchanged
  <1>2. IsOpen(q) => Turn[q.pc] \in Nat
    BY DEF IsOpen, OpenStates, Turn
  <1> QED
    BY <1>1, <1>2 DEF Later

LEMMA FinishedIsLater ==
    ASSUME NEW q, IsOpen(q), NEW o, NEW class, NEW u
    PROVE  Later(Finished(o, class, u), q)
  <1>1. Finished(o, class, u).pc = "done"
    BY VacantInv DEF Finished, Delivered, ExchangeInv, Exchanged
  <1> QED
    BY <1>1 DEF Later, IsOpen, OpenStates

LEMMA DroppedIsLater ==
    ASSUME NEW q, IsOpen(q), NEW how \in {"none", "gone", "broken"}
    PROVE  Later(Dropped(how), q)
  BY DroppedInv DEF Later, IsOpen, OpenStates

LEMMA RetriedIsLater ==
    ASSUME NEW q, ExchangeInv(q), q.pc = "await", MayRetry(q)
    PROVE  Later(Retried(q), q)
  <1>1. /\ Retried(q).pc = "backoff" /\ Retried(q).attempt = q.attempt + 1
        /\ q.attempt \in Nat
    BY RelayAssumption DEF ExchangeInv, Exchanged, Retried
  <1> QED
    BY <1>1 DEF Later, IsOpen, OpenStates

LEMMA StepIsLater ==
    ASSUME IInv, NEW r \in Slots, Step(r) \/ HangUp(r)
    PROVE  Later(ex'[r], ex[r])
  <1> DEFINE q == ex[r]
  <1>0. /\ q \in Exchanged /\ ExchangeInv(q) /\ ex \in [Slots -> Exchanged]
        /\ q.attempt \in Nat
    BY RelayAssumption DEF IInv, Exchanged
  <1>1. CASE Send(r)
    <2>1. ex'[r].pc = "await" /\ ex'[r].attempt = q.attempt /\ q.pc = "send"
      BY <1>0, <1>1 DEF Send, Exchanged
    <2> QED
      BY <1>0, <2>1 DEF Later, IsOpen, OpenStates, Turn
  <1>2. CASE BackOff(r)
    <2>1. ex'[r].pc = "send" /\ ex'[r].attempt = q.attempt /\ q.pc = "backoff"
      BY <1>0, <1>2 DEF BackOff, Exchanged
    <2> QED
      BY <1>0, <2>1 DEF Later, IsOpen, OpenStates, Turn
  <1>3. CASE Answers(r)
    <2>1. \/ MayRetry(q) /\ ex'[r] = Retried(q)
          \/ ex'[r].pc \in {"stream", "buffer"} /\ ex'[r].attempt = q.attempt
      BY <1>0, <1>3 DEF Answers, Exchanged
    <2>2. q.pc = "await"
      BY <1>3 DEF Answers
    <2> QED
      BY <1>0, <2>1, <2>2, RetriedIsLater DEF Later, IsOpen, OpenStates, Turn
  <1>4. CASE SendFails(r)
    <2>1. q.pc = "await" /\ IsOpen(q)
      BY <1>4 DEF SendFails, IsOpen, OpenStates
    <2>2. \/ MayRetry(q) /\ ex'[r] = Retried(q)
          \/ \E class : ex'[r] = Finished(q, class, 0)
      BY <1>0, <1>4 DEF SendFails
    <2> QED
      BY <1>0, <2>1, <2>2, RetriedIsLater, FinishedIsLater
  <1>5. CASE BodyRead(r) \/ BodyFails(r) \/ StreamEnds(r)
    <2>1. IsOpen(q)
      BY <1>5 DEF BodyRead, BodyFails, StreamEnds, IsOpen, OpenStates
    <2>2. ASSUME NEW o, NEW class, NEW u, ex' = [ex EXCEPT ![r] = Finished(o, class, u)]
          PROVE  Later(ex'[r], q)
      BY <1>0, <2>1, <2>2, FinishedIsLater
    <2>3. CASE BodyRead(r)
      BY <2>2, <2>3 DEF BodyRead
    <2>4. CASE BodyFails(r)
      BY <2>2, <2>4 DEF BodyFails, BrokenOff
    <2>5. CASE StreamEnds(r)
      BY <2>2, <2>5 DEF StreamEnds
    <2> QED
      BY <1>5, <2>3, <2>4, <2>5
  <1>6. CASE StreamReports(r)
    <2>1. /\ ex'[r].pc = "stream" /\ ex'[r].attempt = q.attempt /\ q.pc = "stream"
          /\ ex'[r].usage = q.usage + 1 /\ q.usage \in Nat
      BY <1>0, <1>6, RelayAssumption DEF StreamReports, Exchanged
    <2> QED
      BY <2>1 DEF Later, IsOpen, OpenStates
  <1>7. CASE StreamBreaks(r) \/ HangUp(r)
    <2>1. IsOpen(q) /\ (ex'[r] = Dropped("broken") \/ ex'[r] = Dropped("gone"))
      BY <1>0, <1>7 DEF StreamBreaks, HangUp, IsOpen, OpenStates
    <2> QED
      BY <2>1, DroppedIsLater
  <1>8. CASE Record(r)
    <2>1. q.task = "ready" /\ ~IsOpen(q)
      BY <1>0, <1>8 DEF Record, ExchangeInv, OpenInv
    <2>2. ex'[r] = Written(q) \/ ex'[r] = [q EXCEPT !.task = "refused"]
      BY <1>0, <1>8 DEF Record
    <2>3. /\ Written(q).pc = q.pc /\ Written(q).task = "none"
          /\ [q EXCEPT !.task = "refused"].pc = q.pc
          /\ [q EXCEPT !.task = "refused"].task = "refused"
      BY <1>0 DEF Written, Exchanged
    <2>4. ex'[r].pc = q.pc /\ ex'[r].task \in {"none", "refused"}
      BY <2>2, <2>3
    <2> QED
      BY <2>1, <2>4 DEF Later, Settled, IsOpen
  <1> QED
    BY <1>1, <1>2, <1>3, <1>4, <1>5, <1>6, <1>7, <1>8 DEF Step

\* Until an exchange is settled nothing that happens takes it back: each step
\* of its own leaves it later than before, in an order with no infinite
\* ascent, for attempts and usage are bounded, and nobody else's step does
\* more than end it.  Retries run out whatever the upstream answers, and a row
\* is not written twice (forward.rs:316-375, server.rs:468).
THEOREM ExchangesAdvance ==
    Spec => [][\A r \in Slots :
                  /\ ~Settled(ex[r]) /\ ex'[r] # ex[r] => Later(ex'[r], ex[r])
                  /\ Step(r) => Later(ex'[r], ex[r]) /\ ex'[r] # ex[r]]_relayVars
  <1>1. ASSUME IInv, Next, NEW r \in Slots, ~Settled(ex[r]), ex'[r] # ex[r]
        PROVE  Later(ex'[r], ex[r])
    <2>0. ex \in [Slots -> Exchanged] /\ ExchangeInv(ex[r])
      BY <1>1 DEF IInv
    <2>1. CASE Step(r) \/ HangUp(r)
      BY <1>1, <2>1, StepIsLater
    <2>2. CASE Restart
      <3>1. ex'[r] = Vacant
        BY <2>2 DEF Restart
      <3>2. Settled(Vacant) /\ ~IsOpen(Vacant)
        BY VacantInv DEF ExchangeInv, Settled, IsOpen, OpenStates
      <3> QED
        BY <1>1, <3>1, <3>2 DEF Later
    <2>3. ASSUME NEW s \in Slots, NEW c \in Credentials \cup {NoCredential}, NEW b \in BOOLEAN,
                 Receive(s, c, b)
          PROVE  FALSE
      BY <1>1, <2>0, <2>3 DEF Receive
    <2>4. ASSUME NEW s \in Slots, Step(s) \/ HangUp(s), s # r
          PROVE  FALSE
      <3>1. PICK p : Advances(s, p)
        BY <1>1, <2>4, StepAdvances
      <3> QED
        BY <1>1, <2>0, <2>4, <3>1 DEF Advances
    <2> QED
      BY <1>1, <2>1, <2>2, <2>3, <2>4 DEF Next
  <1>2. ASSUME IInv, NEW r \in Slots, Step(r)
        PROVE  Later(ex'[r], ex[r]) /\ ex'[r] # ex[r]
    BY <1>2, StepIsLater, LaterIsStrict DEF IInv
  <1>3. IInv /\ [Next]_relayVars =>
          [\A r \in Slots :
              /\ ~Settled(ex[r]) /\ ex'[r] # ex[r] => Later(ex'[r], ex[r])
              /\ Step(r) => Later(ex'[r], ex[r]) /\ ex'[r] # ex[r]]_relayVars
    BY <1>1, <1>2
  <1> QED
    BY <1>3, IInvAlways, PTL DEF Spec

(***************************************************************************)
(* Refinement                                                              *)
(***************************************************************************)

LEMMA InitImplements == Init => Promise!ExchangeInit
  BY VacantInv DEF Init, Promise!ExchangeInit, PhaseOf, IsOpen, OpenStates

LEMMA AdvanceImplements ==
    ASSUME IInv, NEW r \in Slots, NEW p, Advances(r, p)
    PROVE  [Promise!ExchangeNext]_Promise!exchangeVars
  <1> DEFINE phase == [s \in Slots |-> PhaseOf(ex[s])]
             rows == [s \in Slots |-> ex[s].rows]
  <1>1. ex \in [Slots -> Exchanged]
    BY DEF IInv
  <1>2. phase' = [phase EXCEPT ![r] = PhaseOf(p)]
    BY <1>1 DEF Advances, PhaseOf, IsOpen
  <1>3. rows' = [rows EXCEPT ![r] = p.rows]
    BY <1>1 DEF Advances
  <1>4. phase[r] = PhaseOf(ex[r]) /\ rows[r] = ex[r].rows
    OBVIOUS
  <1>5. Moves(ex[r], p)
    BY DEF Advances
  <1> HIDE DEF phase, rows
  <1>6. phase \in [Slots -> {PhaseOf(ex[s]) : s \in Slots}] /\ rows \in [Slots -> Nat]
    BY <1>1 DEF phase, rows, Exchanged
  <1>7. CASE PhaseOf(p) = PhaseOf(ex[r]) /\ p.rows = ex[r].rows
    <2>1. phase' = phase /\ rows' = rows
      BY <1>2, <1>3, <1>4, <1>6, <1>7
    <2> QED
      BY <2>1 DEF Promise!exchangeVars, phase, rows
  <1>8. CASE /\ PhaseOf(ex[r]) = "open"
             /\ PhaseOf(p) \in {"answered", "left"}
             /\ p.rows = ex[r].rows
    <2>1. phase[r] = "open" /\ phase' = [phase EXCEPT ![r] = PhaseOf(p)] /\ rows' = rows
      BY <1>2, <1>3, <1>4, <1>6, <1>8
    <2>2. Promise!Close(r, PhaseOf(p))
      BY <2>1 DEF Promise!Close, phase, rows
    <2> QED
      BY <1>8, <2>2 DEF Promise!ExchangeNext
  <1>9. CASE /\ PhaseOf(ex[r]) = "answered"
             /\ PhaseOf(p) = "answered"
             /\ ex[r].rows = 0
             /\ p.rows = 1
    <2>1. /\ phase[r] = "answered" /\ phase' = phase
          /\ rows[r] = 0 /\ rows' = [rows EXCEPT ![r] = 1]
      BY <1>2, <1>3, <1>4, <1>6, <1>9
    <2>2. Promise!Book(r)
      BY <2>1 DEF Promise!Book, phase, rows
    <2> QED
      BY <2>2 DEF Promise!ExchangeNext
  <1>10. CASE PhaseOf(ex[r]) # "open" /\ PhaseOf(p) = "open" /\ p.rows = 0
    <2>1. /\ phase[r] # "open"
          /\ phase' = [phase EXCEPT ![r] = "open"]
          /\ rows' = [rows EXCEPT ![r] = 0]
      BY <1>2, <1>3, <1>4, <1>10
    <2>2. Promise!Open(r)
      BY <2>1 DEF Promise!Open, phase, rows
    <2> QED
      BY <2>2 DEF Promise!ExchangeNext
  <1> QED
    BY <1>5, <1>7, <1>8, <1>9, <1>10 DEF Moves

LEMMA NextImplements ==
    IInv /\ [Next]_relayVars => [Promise!ExchangeNext]_Promise!exchangeVars
  <1> SUFFICES ASSUME IInv, [Next]_relayVars
               PROVE  [Promise!ExchangeNext]_Promise!exchangeVars
    OBVIOUS
  <1>1. ASSUME NEW r \in Slots, NEW c \in Credentials \cup {NoCredential},
               NEW s \in BOOLEAN, Receive(r, c, s)
        PROVE  [Promise!ExchangeNext]_Promise!exchangeVars
    BY <1>1, ReceiveAdvances, AdvanceImplements
  <1>2. ASSUME NEW r \in Slots, Step(r) \/ HangUp(r)
        PROVE  [Promise!ExchangeNext]_Promise!exchangeVars
    BY <1>2, StepAdvances, AdvanceImplements
  <1>3. CASE Restart
    <2>1. ex' = [r \in Slots |-> Vacant]
      BY <1>3 DEF Restart
    <2>2. \A r \in Slots : PhaseOf(ex'[r]) = "idle" /\ ex'[r].rows = 0
      BY <2>1, VacantInv DEF PhaseOf, IsOpen, OpenStates
    <2>3. Promise!Forget
      BY <2>2 DEF Promise!Forget, PhaseOf, IsOpen
    <2> QED
      BY <2>3 DEF Promise!ExchangeNext
  <1>4. CASE UNCHANGED relayVars
    BY <1>4 DEF relayVars, Promise!exchangeVars, PhaseOf, IsOpen
  <1> QED
    BY <1>1, <1>2, <1>3, <1>4 DEF Next

\* Each exchange is answered at most once and booked at most once, after its
\* answer is complete: the relay implements Exchange.
THEOREM RelayImplementsExchange == Spec => ImplementsExchange
  BY InitImplements, NextImplements, IInvAlways, PTL
  DEF Spec, ImplementsExchange, Promise!ExchangeSpec
=============================================================================
