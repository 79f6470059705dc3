--------------------------- MODULE CcrProxyProof ---------------------------
(***************************************************************************)
(* The safety properties of CcrProxy for any number of concurrent          *)
(* requests, any bodies and any number of rounds.                          *)
(*                                                                         *)
(* The argument goes through one predicate on a single handler,            *)
(* HandlerInv, that every operator building the next state of a handler    *)
(* preserves; the global facts are then few.                               *)
(***************************************************************************)
EXTENDS CcrProxy, SharedStateProof

(***************************************************************************)
(* One handler                                                             *)
(***************************************************************************)

\* Until the loop starts nothing has been billed; in the loop all that was
\* billed is prior_usage plus the response at hand; a row is never short.
Accounted(q) ==
    /\ q.pc \in {"ccr", "scan", "decisions", "store", "dispatch", "relay"} => q.billed = 0
    /\ q.pc \in {"ccr", "scan", "decisions", "store", "dispatch"} =>
          q.prior = 0 /\ q.round = 0 /\ q.resp.usage = 0
    /\ q.pc \in {"round", "resolve", "bump"} => q.billed = q.prior + q.resp.usage
    /\ q.pc = "round" /\ q.round = 0 => q.billed = 0
    /\ q.pc # "done" => ~q.cut
    /\ q.pc = "done" =>
          /\ q.booked >= q.billed
          /\ ~q.cut => q.booked = q.billed

\* An error carries no calls; what the loop delivered carries none either.
Clean(q) ==
    /\ ~q.resp.ok => q.resp.calls = <<>>
    /\ q.pc = "done" /\ q.via = "loop" => q.resp.calls = <<>>

HandlerInv(q) ==
    /\ q \in Request
    /\ q.pc \in {"resolve", "bump"} => q.todo # <<>>
    /\ Accounted(q)
    /\ Clean(q)

LEMMA NoCallsIsSequence == <<>> \in Seq(Ids)
  OBVIOUS

LEMMA CallListsAreSequences == CallLists \subseteq Seq(Ids)
  BY CcrAssumption DEF CallLists

LEMMA ResponsesTyped ==
    ASSUME NEW offered \in BOOLEAN, NEW resp \in Responses(offered)
    PROVE  /\ resp \in Response
           /\ ~resp.ok => resp.calls = <<>>
  <1>1. CASE resp \in {NoResponse, ErrorResponse}
    <2>1. NoResponse \in Response /\ NoResponse.calls = <<>>
      BY NoCallsIsSequence DEF Response, NoResponse
    <2>2. ErrorResponse \in Response /\ ErrorResponse.calls = <<>>
      BY NoCallsIsSequence DEF Response, ErrorResponse
    <2> QED
      BY <1>1, <2>1, <2>2
  <1>2. ASSUME NEW c \in Seq(Ids), NEW f \in BOOLEAN,
               resp = [ok |-> TRUE, calls |-> c, foreign |-> f, usage |-> 1]
        PROVE  resp \in Response /\ resp.ok
    BY <1>2 DEF Response
  <1>3. CASE resp \notin {NoResponse, ErrorResponse}
    <2>1. PICK c \in IF offered THEN CallLists ELSE {<<>>}, f \in BOOLEAN :
             resp = [ok |-> TRUE, calls |-> c, foreign |-> f, usage |-> 1]
      BY <1>3 DEF Responses
    <2>2. c \in Seq(Ids)
      BY CallListsAreSequences, NoCallsIsSequence
    <2> QED
      BY <1>2, <2>1, <2>2
  <1> QED
    BY <1>1, <1>3

LEMMA FreshHandler ==
    ASSUME NEW b \in Bodies
    PROVE  HandlerInv(Fresh(b))
  BY CcrAssumption
  DEF HandlerInv, Fresh, Request, Awaits, Response, NoResponse, Accounted, Clean

LEMMA VacantHandler == HandlerInv(Vacant)
  <1> DEFINE b == CHOOSE b \in Bodies : TRUE
  <1>1. b \in Bodies
    BY CcrAssumption
  <1> HIDE DEF b
  <1>2. Fresh(b) \in Request /\ HandlerInv(Fresh(b))
    BY <1>1, FreshHandler DEF HandlerInv
  <1>3. Vacant = [Fresh(b) EXCEPT !.pc = "none", !.late = {}]
    BY DEF Vacant, b
  <1>4. Vacant \in Request
    BY <1>2, <1>3 DEF Request
  <1>5. /\ Vacant.pc = "none" /\ Vacant.resp = NoResponse /\ ~Vacant.cut
    BY <1>2, <1>3 DEF Request, Fresh
  <1> QED
    BY <1>4, <1>5 DEF HandlerInv, Accounted, Clean, NoResponse

LEMMA FinalizedHandler ==
    ASSUME NEW q \in Request, ~q.resp.ok => q.resp.calls = <<>>,
           q.prior + q.resp.usage >= q.billed,
           ~q.cut => q.prior + q.resp.usage = q.billed
    PROVE  HandlerInv(Finalize(q))
  <1> DEFINE resp == IF q.resp.ok THEN Sanitized(q.resp) ELSE q.resp
             f == Finalize(q)
  <1>1. /\ resp \in Response
        /\ resp.calls = <<>>
        /\ resp.usage = q.resp.usage
    BY NoCallsIsSequence DEF Request, Response, Sanitized
  <1>2. q.prior \in Nat /\ resp.usage \in Nat /\ q.prior + resp.usage \in Nat
    BY <1>1 DEF Request, Response
  <1>3. f = [q EXCEPT !.pc = "done", !.puts = {}, !.round = 0,
                      !.todo = <<>>, !.pin = FALSE, !.prior = 0,
                      !.via = "loop", !.resp = resp, !.booked = q.prior + resp.usage]
    BY DEF Finalize, Answered
  <1> HIDE DEF resp, f
  <1>4. f \in Request
    <2>1. /\ 0 \in 0 .. MaxRounds - 1
          /\ {"none", "done"} \subseteq Awaits \cup {"none", "done"}
          /\ q.prior + resp.usage \in Nat /\ 0 \in Nat /\ FALSE \in BOOLEAN
          /\ {} \in SUBSET Ids
      BY <1>2, CcrAssumption
    <2> QED
      BY <1>1, <1>3, <2>1, NoCallsIsSequence DEF Request
  <1>5. /\ f.pc = "done" /\ f.resp = resp /\ f.booked = q.prior + resp.usage
        /\ f.billed = q.billed /\ f.cut = q.cut
    BY <1>3 DEF Request
  <1> QED
    BY <1>1, <1>4, <1>5 DEF HandlerInv, Accounted, Clean, f

LEMMA NextRoundHandler ==
    ASSUME NEW q \in Request, ~q.resp.ok => q.resp.calls = <<>>, ~q.cut,
           q.prior + q.resp.usage = q.billed
    PROVE  HandlerInv(NextRound(q))
  <1>1. CASE q.round + 1 < MaxRounds
    <2> DEFINE n == [q EXCEPT !.pc = "round", !.round = @ + 1]
    <2>1. NextRound(q) = n
      BY <1>1 DEF NextRound
    <2>2. q.round \in Nat /\ q.round + 1 \in 0 .. MaxRounds - 1
      BY <1>1, CcrAssumption DEF Request
    <2>3. n \in Request
      BY <2>2 DEF Request, Awaits
    <2>4. /\ n.pc = "round" /\ n.round = q.round + 1 /\ n.resp = q.resp
          /\ n.prior = q.prior /\ n.billed = q.billed /\ n.cut = q.cut
      BY DEF Request
    <2> HIDE DEF n
    <2> QED
      BY <2>1, <2>2, <2>3, <2>4 DEF HandlerInv, Accounted, Clean
  <1>2. CASE ~(q.round + 1 < MaxRounds)
    <2>1. q.prior + q.resp.usage \in Nat
      BY DEF Request, Response
    <2> QED
      BY <1>2, <2>1, FinalizedHandler DEF NextRound
  <1> QED
    BY <1>1, <1>2

LEMMA ResolvedHandler ==
    ASSUME NEW q, HandlerInv(q), q.pc \in {"resolve", "bump"}
    PROVE  HandlerInv(CallResolved(q))
  <1> DEFINE p == [q EXCEPT !.todo = Tail(@), !.pin = FALSE, !.pc = "resolve"]
  <1>1. Tail(q.todo) \in Seq(Ids)
    BY DEF HandlerInv, Request
  <1>2. p \in Request
    BY <1>1 DEF HandlerInv, Request, Awaits
  <1>3. /\ p.resp = q.resp /\ p.prior = q.prior /\ p.billed = q.billed
        /\ p.cut = q.cut /\ p.pc = "resolve"
    BY DEF HandlerInv, Request
  <1>4. /\ ~p.resp.ok => p.resp.calls = <<>>
        /\ ~p.cut
        /\ p.prior + p.resp.usage = p.billed
    BY <1>3 DEF HandlerInv, Accounted, Clean
  <1> HIDE DEF p
  <1>5. CASE p.todo = <<>>
    BY <1>2, <1>4, <1>5, NextRoundHandler DEF CallResolved, p
  <1>6. CASE p.todo # <<>>
    <2>1. HandlerInv(p)
      BY <1>2, <1>3, <1>4, <1>6 DEF HandlerInv, Accounted, Clean
    <2> QED
      BY <1>6, <2>1 DEF CallResolved, p
  <1> QED
    BY <1>5, <1>6

(***************************************************************************)
(* One step of one handler                                                 *)
(***************************************************************************)

Handlers ==
    /\ rq \in [Slots -> Request]
    /\ \A r \in Slots : HandlerInv(rq[r])

InLoop(q) == q.pc \in {"round", "resolve", "bump"}

InStage(q) == q.pc \in {"ccr", "scan"}

\* How a handler q may look after a step of its own: it keeps its request;
\* CCR engages only where it is on; the stage is not entered again and adds
\* only markers for blocks not pinned.
Advances(p, q) ==
    /\ p.body = q.body
    /\ p.late = q.late
    /\ InStage(p) => InStage(q)
    /\ \/ p.marks = q.marks
       \/ q.pc = "scan" /\ \A i \in p.marks \ q.marks : Compressible(q.body, i)
    /\ Engaged(p) => Engaged(q) \/ CcrOn

\* Inside the loop and at its end everything the stage left is kept.
Keeps(p, q) ==
    /\ p.body = q.body
    /\ p.late = q.late
    /\ p.marks = q.marks
    /\ p.tool = q.tool
    /\ ~InStage(p)

LEMMA AnsweredKeeps ==
    ASSUME NEW q \in Request, NEW via, NEW resp, NEW prior
    PROVE  /\ Keeps(Answered(q, via, resp, prior), q)
           /\ Answered(q, via, resp, prior).pc = "done"
  BY DEF Answered, Keeps, InStage, Request

LEMMA FinalizedKeeps ==
    ASSUME NEW q \in Request
    PROVE  Keeps(Finalize(q), q) /\ Finalize(q).pc = "done"
  BY AnsweredKeeps DEF Finalize

LEMMA NextRoundKeeps ==
    ASSUME NEW q \in Request
    PROVE  Keeps(NextRound(q), q)
  <1>1. Keeps([q EXCEPT !.pc = "round", !.round = @ + 1], q)
    BY DEF Keeps, InStage, Request
  <1> QED
    BY <1>1, FinalizedKeeps DEF NextRound

LEMMA ResolvedKeeps ==
    ASSUME NEW q \in Request, q.todo # <<>>
    PROVE  Keeps(CallResolved(q), q)
  <1> DEFINE p == [q EXCEPT !.todo = Tail(@), !.pin = FALSE, !.pc = "resolve"]
  <1>1. Tail(q.todo) \in Seq(Ids)
    BY DEF Request
  <1>2. p \in Request /\ Keeps(p, q)
    BY <1>1 DEF Request, Awaits, Keeps, InStage
  <1> HIDE DEF p
  <1>3. Keeps(NextRound(p), p)
    BY <1>2, NextRoundKeeps
  <1>4. Keeps(NextRound(p), q)
    BY <1>2, <1>3 DEF Keeps
  <1> QED
    BY <1>2, <1>4 DEF CallResolved, p

LEMMA KeepsAdvances ==
    ASSUME NEW p, NEW q, Keeps(p, q), InLoop(p) => InLoop(q)
    PROVE  Advances(p, q)
  BY DEF Keeps, Advances, Engaged, InLoop, InStage

\* Every step of a handler leads to a handler that satisfies HandlerInv and
\* relates to the previous one by Advances; nothing else of rq changes.
StepsTo(r, p) ==
    /\ HandlerInv(p)
    /\ Advances(p, rq[r])
    /\ rq' = [rq EXCEPT ![r] = p]

LEMMA CcrStageSteps ==
    ASSUME Handlers, NEW r \in Slots, CcrStage(r)
    PROVE  \E p : StepsTo(r, p)
  <1> DEFINE q == rq[r]
             on == [q EXCEPT !.pc = IF q.body.blocks = {} THEN "dispatch" ELSE "scan",
                             !.scan = q.body.blocks,
                             !.tool = InjectTool]
             off == [q EXCEPT !.pc = "dispatch"]
             p == IF CcrOn THEN on ELSE off
  <1>1. HandlerInv(q) /\ q \in Request /\ q.pc = "ccr" /\ rq' = [rq EXCEPT ![r] = p]
    BY DEF Handlers, HandlerInv, CcrStage
  <1>2. q.body.blocks \in SUBSET Ids /\ InjectTool \in BOOLEAN
    BY <1>1, CcrAssumption DEF Request, Body
  <1>3. /\ on \in Request /\ on.pc \in {"dispatch", "scan"}
        /\ on.marks = q.marks /\ on.body = q.body /\ on.late = q.late
        /\ on.billed = q.billed /\ on.prior = q.prior
        /\ on.round = q.round /\ on.resp = q.resp /\ on.cut = q.cut
    BY <1>1, <1>2 DEF Request, Awaits
  <1>4. /\ off \in Request /\ off.pc = "dispatch"
        /\ off.marks = q.marks /\ off.body = q.body /\ off.late = q.late
        /\ off.billed = q.billed /\ off.prior = q.prior
        /\ off.round = q.round /\ off.resp = q.resp /\ off.cut = q.cut
        /\ off.tool = q.tool
    BY <1>1 DEF Request, Awaits
  <1> HIDE DEF on, off
  <1>5. HandlerInv(p)
    BY <1>1, <1>3, <1>4 DEF HandlerInv, Accounted, Clean
  <1>6. Advances(p, q)
    BY <1>1, <1>3, <1>4 DEF Advances, InStage, Engaged
  <1> QED
    BY <1>1, <1>5, <1>6 DEF StepsTo

LEMMA CompressBlockSteps ==
    ASSUME Handlers, NEW r \in Slots, CompressBlock(r)
    PROVE  \E p : StepsTo(r, p)
  <1> DEFINE q == rq[r]
             Marks(i) == IF Compressible(q.body, i) THEN q.marks \cup {i} ELSE q.marks
             Pc(i) == IF q.scan # {i} THEN "scan"
                      ELSE IF Marks(i) = {} THEN "dispatch" ELSE "decisions"
  <1>1. HandlerInv(q) /\ q \in Request /\ q.pc = "scan"
    BY DEF Handlers, HandlerInv, CompressBlock
  <1>2. PICK i \in q.scan :
          rq' = [rq EXCEPT ![r] =
                   [q EXCEPT !.scan = @ \ {i}, !.marks = Marks(i), !.puts = Marks(i),
                             !.pc = Pc(i)]]
    BY DEF CompressBlock
  <1> DEFINE marks == Marks(i)
             pc == Pc(i)
             p == [q EXCEPT !.scan = @ \ {i}, !.marks = marks, !.puts = marks, !.pc = pc]
  <1>3. /\ marks \in SUBSET Ids
        /\ \A j \in marks \ q.marks : Compressible(q.body, j)
        /\ pc \in {"scan", "dispatch", "decisions"}
    BY <1>1 DEF Request
  <1>4. rq' = [rq EXCEPT ![r] = p]
    BY <1>2
  <1> HIDE DEF marks, pc
  <1>5. p \in Request
    BY <1>1, <1>3 DEF Request, Awaits
  <1>6. /\ p.pc = pc /\ p.marks = marks /\ p.tool = q.tool
        /\ p.body = q.body /\ p.late = q.late
        /\ p.billed = q.billed /\ p.prior = q.prior
        /\ p.round = q.round /\ p.resp = q.resp /\ p.cut = q.cut
    BY <1>1 DEF Request
  <1> HIDE DEF p
  <1>7. HandlerInv(p)
    BY <1>1, <1>3, <1>5, <1>6 DEF HandlerInv, Accounted, Clean
  <1>8. Advances(p, q)
    BY <1>1, <1>3, <1>6 DEF Advances, InStage, Engaged
  <1> QED
    BY <1>4, <1>7, <1>8 DEF StepsTo

LEMMA RecordDecisionsSteps ==
    ASSUME Handlers, NEW r \in Slots, RecordDecisions(r)
    PROVE  \E p : StepsTo(r, p)
  <1> DEFINE q == rq[r]
             p == [q EXCEPT !.pc = "store"]
  <1>1. HandlerInv(q) /\ q \in Request /\ q.pc = "decisions" /\ rq' = [rq EXCEPT ![r] = p]
    BY DEF Handlers, HandlerInv, RecordDecisions
  <1>2. p \in Request /\ p.pc = "store"
    BY <1>1 DEF Request, Awaits
  <1>3. /\ p.marks = q.marks /\ p.tool = q.tool /\ p.body = q.body /\ p.late = q.late
        /\ p.billed = q.billed /\ p.prior = q.prior
        /\ p.round = q.round /\ p.resp = q.resp /\ p.cut = q.cut
    BY <1>1 DEF Request
  <1> HIDE DEF p
  <1>4. HandlerInv(p)
    BY <1>1, <1>2, <1>3 DEF HandlerInv, Accounted, Clean
  <1>5. Advances(p, q)
    BY <1>2, <1>3 DEF Advances, InStage, Engaged
  <1> QED
    BY <1>1, <1>4, <1>5 DEF StepsTo

LEMMA StoreEntrySteps ==
    ASSUME Handlers, NEW r \in Slots, StoreEntry(r)
    PROVE  \E p : StepsTo(r, p)
  <1> DEFINE q == rq[r]
  <1>1. HandlerInv(q) /\ q \in Request /\ q.pc = "store"
    BY DEF Handlers, HandlerInv, StoreEntry
  <1>2. PICK i \in q.puts :
          rq' = [rq EXCEPT ![r] =
                [q EXCEPT !.puts = @ \ {i},
                          !.pc = IF q.puts = {i} THEN "dispatch" ELSE "store"]]
    BY DEF StoreEntry
  <1> DEFINE p == [q EXCEPT !.puts = @ \ {i},
                            !.pc = IF q.puts = {i} THEN "dispatch" ELSE "store"]
  <1>3. q.puts \ {i} \in SUBSET Ids
    BY <1>1 DEF Request
  <1>4. p \in Request
    BY <1>1, <1>3 DEF Request, Awaits
  <1>5. /\ p.pc \in {"dispatch", "store"}
        /\ p.marks = q.marks /\ p.tool = q.tool /\ p.body = q.body /\ p.late = q.late
        /\ p.billed = q.billed /\ p.prior = q.prior
        /\ p.round = q.round /\ p.resp = q.resp /\ p.cut = q.cut
    BY <1>1 DEF Request
  <1>6. rq' = [rq EXCEPT ![r] = p]
    BY <1>2
  <1> HIDE DEF p
  <1>7. HandlerInv(p)
    BY <1>1, <1>4, <1>5 DEF HandlerInv, Accounted, Clean
  <1>8. Advances(p, q)
    BY <1>5 DEF Advances, InStage, Engaged
  <1> QED
    BY <1>6, <1>7, <1>8 DEF StepsTo

LEMMA DispatchSteps ==
    ASSUME Handlers, NEW r \in Slots, Dispatch(r)
    PROVE  \E p : StepsTo(r, p)
  <1> DEFINE q == rq[r]
             pc == IF CcrActive(q) /\ CcrOn THEN "round" ELSE "relay"
             p == [q EXCEPT !.pc = pc]
  <1>1. HandlerInv(q) /\ q \in Request /\ q.pc = "dispatch" /\ rq' = [rq EXCEPT ![r] = p]
    BY DEF Handlers, HandlerInv, Dispatch
  <1>2. pc \in {"round", "relay"} /\ (pc = "round" => CcrOn)
    OBVIOUS
  <1> HIDE DEF pc
  <1>3. p \in Request /\ p.pc = pc
    BY <1>1, <1>2 DEF Request, Awaits
  <1>4. /\ p.marks = q.marks /\ p.tool = q.tool /\ p.body = q.body /\ p.late = q.late
        /\ p.billed = q.billed /\ p.prior = q.prior
        /\ p.round = q.round /\ p.resp = q.resp /\ p.cut = q.cut
    BY <1>1 DEF Request
  <1> HIDE DEF p
  <1>5. HandlerInv(p)
    BY <1>1, <1>2, <1>3, <1>4 DEF HandlerInv, Accounted, Clean
  <1>6. Advances(p, q)
    BY <1>2, <1>3, <1>4 DEF Advances, InStage, Engaged
  <1> QED
    BY <1>1, <1>5, <1>6 DEF StepsTo

LEMMA RelaySteps ==
    ASSUME Handlers, NEW r \in Slots, Relay(r)
    PROVE  \E p : StepsTo(r, p)
  <1> DEFINE q == rq[r]
  <1>1. HandlerInv(q) /\ q \in Request /\ q.pc = "relay"
    BY DEF Handlers, HandlerInv, Relay
  <1>2. PICK resp \in Responses(q.tool) :
          rq' = [rq EXCEPT ![r] =
                    Answered([q EXCEPT !.billed = @ + resp.usage], "relay", resp, 0)]
    BY DEF Relay
  <1> DEFINE b == [q EXCEPT !.billed = @ + resp.usage]
             p == Answered(b, "relay", resp, 0)
  <1>3. resp \in Response /\ (~resp.ok => resp.calls = <<>>)
    BY <1>1, ResponsesTyped DEF Request
  <1>4. resp.usage \in Nat /\ q.billed = 0 /\ ~q.cut
    BY <1>1, <1>3 DEF HandlerInv, Accounted, Response
  <1>5. b \in Request /\ b.billed = resp.usage /\ b.cut = q.cut
    BY <1>1, <1>4 DEF Request
  <1>6. Keeps(b, q)
    BY <1>1 DEF Keeps, InStage, Request
  <1>7. rq' = [rq EXCEPT ![r] = p]
    BY <1>2
  <1> HIDE DEF b
  <1>8. /\ p \in Request /\ p.pc = "done" /\ p.via = "relay" /\ p.resp = resp
        /\ p.booked = 0 + resp.usage /\ p.billed = b.billed /\ p.cut = b.cut
    <2>1. 0 \in 0 .. MaxRounds - 1 /\ 0 + resp.usage \in Nat
      BY <1>4, CcrAssumption
    <2>2. p \in Request
      BY <1>3, <1>5, <2>1, NoCallsIsSequence DEF Answered, Request, Awaits
    <2>3. /\ p.pc = "done" /\ p.via = "relay" /\ p.resp = resp
          /\ p.booked = 0 + resp.usage /\ p.billed = b.billed /\ p.cut = b.cut
      BY <1>5 DEF Answered, Request
    <2> QED
      BY <2>2, <2>3
  <1>9. Keeps(p, b)
    BY <1>5, AnsweredKeeps
  <1> HIDE DEF p
  <1>10. HandlerInv(p)
    BY <1>3, <1>4, <1>5, <1>8 DEF HandlerInv, Accounted, Clean
  <1>11. Advances(p, q)
    <2>1. Keeps(p, q)
      BY <1>6, <1>9 DEF Keeps
    <2> QED
      BY <1>8, <2>1, KeepsAdvances DEF InLoop
  <1> QED
    BY <1>7, <1>10, <1>11 DEF StepsTo

LEMMA PostFailsSteps ==
    ASSUME Handlers, NEW r \in Slots, PostFails(r)
    PROVE  \E p : StepsTo(r, p)
  <1> DEFINE q == rq[r]
  <1>1. HandlerInv(q) /\ q \in Request /\ q.pc = "round"
    BY DEF Handlers, HandlerInv, PostFails
  <1>2. CASE q.round = 0
    <2> DEFINE p == [q EXCEPT !.pc = "relay"]
    <2>1. rq' = [rq EXCEPT ![r] = p]
      BY <1>2 DEF PostFails
    <2>2. p \in Request /\ Keeps(p, q)
      BY <1>1 DEF Request, Awaits, Keeps, InStage
    <2>3. p.pc = "relay" /\ p.billed = q.billed /\ p.resp = q.resp /\ p.cut = q.cut
      BY <1>1 DEF Request
    <2> HIDE DEF p
    <2>4. HandlerInv(p)
      BY <1>1, <1>2, <2>2, <2>3 DEF HandlerInv, Accounted, Clean
    <2>5. Advances(p, q)
      BY <2>2, <2>3, KeepsAdvances DEF InLoop
    <2> QED
      BY <2>1, <2>4, <2>5 DEF StepsTo
  <1>3. CASE q.round # 0
    <2> DEFINE c == [q EXCEPT !.prior = Accumulated(q), !.cut = TRUE]
               p == Finalize(c)
    <2>1. rq' = [rq EXCEPT ![r] = p]
      BY <1>3 DEF PostFails
    <2>2. /\ q.prior + q.resp.usage \in Nat /\ q.resp.usage \in Nat
          /\ q.billed = q.prior + q.resp.usage
      BY <1>1 DEF HandlerInv, Accounted, Request, Response
    <2>3. c \in Request /\ Keeps(c, q)
      BY <1>1, <2>2 DEF Accumulated, Request, Keeps, InStage
    <2>4. /\ c.prior = q.prior + q.resp.usage /\ c.resp = q.resp /\ c.cut
          /\ c.billed = q.billed
      BY <1>1 DEF Accumulated, Request
    <2> HIDE DEF c
    <2>5. /\ ~c.resp.ok => c.resp.calls = <<>>
          /\ c.prior + c.resp.usage >= c.billed
      BY <1>1, <2>2, <2>4 DEF HandlerInv, Clean
    <2>6. HandlerInv(p)
      BY <2>3, <2>4, <2>5, FinalizedHandler
    <2>7. Keeps(p, c) /\ p.pc = "done"
      BY <2>3, FinalizedKeeps
    <2> HIDE DEF p
    <2>8. Keeps(p, q)
      BY <2>3, <2>7 DEF Keeps
    <2>9. Advances(p, q)
      BY <2>7, <2>8, KeepsAdvances DEF InLoop
    <2> QED
      BY <2>1, <2>6, <2>9 DEF StepsTo
  <1> QED
    BY <1>2, <1>3

LEMMA PostAnswersSteps ==
    ASSUME Handlers, NEW r \in Slots, PostAnswers(r)
    PROVE  \E p : StepsTo(r, p)
  <1> DEFINE q == rq[r]
             Got(resp) == [q EXCEPT !.prior = Accumulated(q),
                                    !.billed = @ + resp.usage,
                                    !.resp = resp]
  <1>1. HandlerInv(q) /\ q \in Request /\ q.pc = "round"
    BY DEF Handlers, HandlerInv, PostAnswers
  <1>2. PICK resp \in Responses(q.tool) :
          rq' = [rq EXCEPT ![r] =
                    IF Final(resp) THEN Finalize(Got(resp))
                    ELSE [Got(resp) EXCEPT !.pc = "resolve", !.todo = resp.calls]]
    BY DEF PostAnswers
  <1> DEFINE g == Got(resp)
  <1>3. resp \in Response /\ (~resp.ok => resp.calls = <<>>)
    BY <1>1, ResponsesTyped DEF Request
  <1>4. /\ q.prior + q.resp.usage \in Nat /\ resp.usage \in Nat
        /\ q.billed = q.prior + q.resp.usage /\ ~q.cut
    BY <1>1, <1>3 DEF HandlerInv, Accounted, Request, Response
  <1>5. g \in Request /\ Keeps(g, q)
    <2>1. q.billed + resp.usage \in Nat /\ Accumulated(q) \in Nat
      BY <1>4 DEF Accumulated
    <2>2. g \in Request
      BY <1>1, <1>3, <2>1 DEF Request
    <2>3. Keeps(g, q)
      BY <1>1 DEF Request, Keeps, InStage
    <2> QED
      BY <2>2, <2>3
  <1>6. /\ g.prior = q.prior + q.resp.usage /\ g.resp = resp /\ g.cut = q.cut
        /\ g.billed = q.billed + resp.usage
    BY <1>1 DEF Accumulated, Request
  <1> HIDE DEF Got
  <1>7. g.prior + g.resp.usage = g.billed /\ g.prior + g.resp.usage \in Nat
    BY <1>4, <1>6
  <1>8. CASE Final(resp)
    <2> DEFINE p == Finalize(g)
    <2>1. rq' = [rq EXCEPT ![r] = p]
      BY <1>2, <1>8
    <2>2. HandlerInv(p)
      BY <1>3, <1>5, <1>6, <1>7, FinalizedHandler
    <2>3. Keeps(p, g) /\ p.pc = "done"
      BY <1>5, FinalizedKeeps
    <2> HIDE DEF p
    <2>4. Keeps(p, q)
      BY <1>5, <2>3 DEF Keeps
    <2>5. Advances(p, q)
      BY <2>3, <2>4, KeepsAdvances DEF InLoop
    <2> QED
      BY <2>1, <2>2, <2>5 DEF StepsTo
  <1>9. CASE ~Final(resp)
    <2> DEFINE p == [g EXCEPT !.pc = "resolve", !.todo = resp.calls]
    <2>1. rq' = [rq EXCEPT ![r] = p]
      BY <1>2, <1>9
    <2>2. resp.calls \in Seq(Ids) /\ resp.calls # <<>>
      BY <1>3, <1>9 DEF Final, Response
    <2>3. p \in Request /\ Keeps(p, g)
      BY <1>5, <2>2 DEF Request, Awaits, Keeps, InStage
    <2>4. /\ p.pc = "resolve" /\ p.todo = resp.calls /\ p.prior = g.prior
          /\ p.resp = g.resp /\ p.billed = g.billed /\ p.cut = g.cut
      BY <1>5 DEF Request
    <2> HIDE DEF p
    <2>5. HandlerInv(p)
      BY <1>3, <1>4, <1>6, <1>7, <2>2, <2>3, <2>4 DEF HandlerInv, Accounted, Clean
    <2>6. Keeps(p, q)
      BY <1>5, <2>3 DEF Keeps
    <2>7. Advances(p, q)
      BY <1>1, <2>6, KeepsAdvances DEF InLoop
    <2> QED
      BY <2>1, <2>5, <2>7 DEF StepsTo
  <1> QED
    BY <1>8, <1>9

LEMMA ResolveSteps ==
    ASSUME Handlers, NEW r \in Slots, Resolve(r)
    PROVE  \E p : StepsTo(r, p)
  <1> DEFINE q == rq[r]
             i == Head(q.todo)
             s == ReadSession(q)
  <1>1. HandlerInv(q) /\ q \in Request /\ q.pc = "resolve" /\ q.todo # <<>>
    BY DEF Handlers, HandlerInv, Resolve
  <1>2. PICK hit \in {FALSE, cache[<<s, i>>] = "held"} :
          rq' = [rq EXCEPT ![r] =
                    IF hit THEN [q EXCEPT !.pc = "bump", !.pin = IsPinned(pins', s, i)]
                    ELSE CallResolved(q)]
    BY DEF Resolve
  <1>3. CASE hit
    <2> DEFINE pin == IsPinned(pins', s, i)
               p == [q EXCEPT !.pc = "bump", !.pin = pin]
    <2>1. rq' = [rq EXCEPT ![r] = p]
      BY <1>2, <1>3
    <2>2. pin \in BOOLEAN
      BY DEF IsPinned
    <2> HIDE DEF pin
    <2>3. p \in Request /\ Keeps(p, q)
      BY <1>1, <2>2 DEF Request, Awaits, Keeps, InStage
    <2>4. /\ p.pc = "bump" /\ p.todo = q.todo /\ p.prior = q.prior
          /\ p.resp = q.resp /\ p.billed = q.billed /\ p.cut = q.cut
      BY <1>1 DEF Request
    <2> HIDE DEF p
    <2>5. HandlerInv(p)
      BY <1>1, <2>3, <2>4 DEF HandlerInv, Accounted, Clean
    <2>6. Advances(p, q)
      BY <1>1, <2>3, KeepsAdvances DEF InLoop
    <2> QED
      BY <2>1, <2>5, <2>6 DEF StepsTo
  <1>4. CASE ~hit
    <2> DEFINE p == CallResolved(q)
    <2>1. rq' = [rq EXCEPT ![r] = p]
      BY <1>2, <1>4
    <2>2. HandlerInv(p) /\ Keeps(p, q)
      BY <1>1, ResolvedHandler, ResolvedKeeps
    <2> HIDE DEF p
    <2>3. Advances(p, q)
      BY <1>1, <2>2, KeepsAdvances DEF InLoop
    <2> QED
      BY <2>1, <2>2, <2>3 DEF StepsTo
  <1> QED
    BY <1>3, <1>4

LEMMA BumpRetrieveSteps ==
    ASSUME Handlers, NEW r \in Slots, BumpRetrieve(r)
    PROVE  \E p : StepsTo(r, p)
  <1> DEFINE q == rq[r]
             p == CallResolved(q)
  <1>1. /\ HandlerInv(q) /\ q \in Request /\ q.pc = "bump" /\ q.todo # <<>>
        /\ rq' = [rq EXCEPT ![r] = p]
    BY DEF Handlers, HandlerInv, BumpRetrieve
  <1>2. HandlerInv(p) /\ Keeps(p, q)
    BY <1>1, ResolvedHandler, ResolvedKeeps
  <1> HIDE DEF p
  <1>3. Advances(p, q)
    BY <1>1, <1>2, KeepsAdvances DEF InLoop
  <1> QED
    BY <1>1, <1>2, <1>3 DEF StepsTo

LEMMA HandlerSteps ==
    ASSUME Handlers, NEW r \in Slots, Step(r)
    PROVE  \E p : StepsTo(r, p)
  BY CcrStageSteps, CompressBlockSteps, RecordDecisionsSteps, StoreEntrySteps, DispatchSteps, RelaySteps,
     PostFailsSteps, PostAnswersSteps, ResolveSteps, BumpRetrieveSteps
  DEF Step

(***************************************************************************)
(* What the steps do to the shared state                                   *)
(***************************************************************************)

CacheType == [Pairs -> {"never", "held", "expired"}]

AuditType == [Pairs -> {"none", "logged", "pinned"}]

LEMMA ReadSessionType ==
    ASSUME NEW q \in Request
    PROVE  ReadSession(q) \in Sessions /\ WriteSession(q) \in Sessions
  BY CcrAssumption DEF ReadSession, WriteSession, Request, Body

\* A handler leaves the registry alone or tallies one block that is held.
LEMMA StepTallies ==
    ASSUME Handlers, NEW r \in Slots, Step(r), pins' # pins
    PROVE  \E s \in Sessions, i \in Ids :
              NoteRetrieve(s, i) /\ cache[<<s, i>>] = "held" /\ cache' = cache
  <1>1. Resolve(r)
    BY DEF Step, CcrStage, CompressBlock, RecordDecisions, StoreEntry, Dispatch, Relay, PostFails,
           PostAnswers, BumpRetrieve
  <1> DEFINE q == rq[r]
             i == Head(q.todo)
             s == ReadSession(q)
  <1>2. q \in Request /\ q.todo # <<>>
    BY <1>1 DEF Handlers, HandlerInv, Resolve
  <1>3. q.todo \in Seq(Ids)
    BY <1>2 DEF Request
  <1>4. i \in Ids /\ s \in Sessions
    BY <1>2, <1>3, ReadSessionType
  <1>5. PICK hit \in {FALSE, cache[<<s, i>>] = "held"} : pins' = Tallied(hit, s, i)
    BY <1>1 DEF Resolve
  <1>6. hit /\ pins' = Noted(pins, s, i)
    BY <1>5 DEF Tallied
  <1>7. cache[<<s, i>>] = "held" /\ cache' = cache
    BY <1>1, <1>5, <1>6 DEF Resolve
  <1> QED
    BY <1>4, <1>6, <1>7 DEF NoteRetrieve

\* A handler only ever adds to the cache.
LEMMA StepCaches ==
    ASSUME Handlers, cache \in CacheType, NEW r \in Slots, Step(r)
    PROVE  /\ cache' \in CacheType
           /\ \A p \in Pairs : cache'[p] = cache[p] \/ cache'[p] = "held"
  <1>1. CASE StoreEntry(r)
    <2>1. PICK i \in rq[r].puts, ok \in BOOLEAN :
             cache' = IF ok THEN [cache EXCEPT ![<<WriteSession(rq[r]), i>>] = "held"]
                      ELSE cache
      BY <1>1 DEF StoreEntry
    <2> QED
      BY <2>1 DEF CacheType
  <1>2. CASE ~StoreEntry(r)
    <2>1. cache' = cache
      BY <1>2 DEF Step, CcrStage, CompressBlock, RecordDecisions, Dispatch, Relay, PostFails,
                  PostAnswers, Resolve, BumpRetrieve
    <2> QED
      BY <2>1
  <1> QED
    BY <1>1, <1>2

\* A handler adds rows to the decision log and raises their pinned column.
LEMMA StepAudits ==
    ASSUME audit \in AuditType, NEW r \in Slots, Step(r)
    PROVE  /\ audit' \in AuditType
           /\ \A p \in Pairs : audit[p] = "pinned" => audit'[p] = "pinned"
  <1>1. CASE RecordDecisions(r)
    <2>1. PICK rows \in SUBSET rq[r].marks :
             audit' = [p \in Pairs |->
                         IF p[1] = WriteSession(rq[r]) /\ p[2] \in rows /\ audit[p] = "none"
                         THEN "logged" ELSE audit[p]]
      BY <1>1 DEF RecordDecisions
    <2> QED
      BY <2>1 DEF AuditType
  <1>2. CASE BumpRetrieve(r)
    <2>1. PICK x : \/ audit' = [audit EXCEPT ![x] = Bumped(@, rq[r].pin)]
                   \/ audit' = audit
      BY <1>2 DEF BumpRetrieve
    <2>2. \A row \in {"none", "logged", "pinned"} :
             /\ Bumped(row, rq[r].pin) \in {"none", "logged", "pinned"}
             /\ row = "pinned" => Bumped(row, rq[r].pin) = "pinned"
      BY DEF Bumped
    <2> QED
      BY <2>1, <2>2 DEF AuditType
  <1>3. CASE ~RecordDecisions(r) /\ ~BumpRetrieve(r)
    <2>1. audit' = audit
      BY <1>3 DEF Step, CcrStage, CompressBlock, StoreEntry, Dispatch, Relay, PostFails, PostAnswers,
                  Resolve
    <2> QED
      BY <2>1
  <1> QED
    BY <1>1, <1>2, <1>3

\* A handler changes neither the settings nor the memory store.
LEMMA StepSettings ==
    ASSUME NEW r \in Slots, Step(r)
    PROVE  UNCHANGED <<gate, flag, persisted, admin, memory>>
  BY DEF Step, CcrStage, CompressBlock, RecordDecisions, StoreEntry, Dispatch, Relay, PostFails,
         PostAnswers, Resolve, BumpRetrieve

(***************************************************************************)
(* CcrProxy implements the registry and the settings machine               *)
(***************************************************************************)

LEMMA NextIsPinStep ==
    ASSUME Handlers, [Next]_vars
    PROVE  [PinNext]_pins
  <1>1. ASSUME NEW r \in Slots, Step(r) PROVE [PinNext]_pins
    BY <1>1, StepTallies DEF PinNext
  <1>2. CASE Restart
    BY <1>2 DEF Restart, PinNext
  <1>3. CASE UNCHANGED pins
    BY <1>3
  <1> QED
    BY <1>1, <1>2, <1>3 DEF Next, Arrive, HangUp, Expire, ChangeSetting, vars

LEMMA NextIsSettingsStep == [Next]_vars => [SettingsNext]_settingsVars
  <1> SUFFICES ASSUME [Next]_vars PROVE [SettingsNext]_settingsVars
    OBVIOUS
  <1>1. ASSUME NEW r \in Slots, Step(r) PROVE UNCHANGED settingsVars
    BY <1>1, StepSettings DEF settingsVars
  <1>2. CASE Restart
    BY <1>2 DEF Restart, SettingsNext
  <1>3. CASE ChangeSetting
    BY <1>3 DEF ChangeSetting, SettingsNext
  <1>4. CASE UNCHANGED settingsVars
    BY <1>4
  <1> QED
    BY <1>1, <1>2, <1>3, <1>4 DEF Next, Arrive, HangUp, Expire, vars, settingsVars

(***************************************************************************)
(* The inductive invariant                                                 *)
(***************************************************************************)

\* A block that was pinned when the request arrived is still pinned when the
\* stage gets to it, and is not among the markers afterwards.
LateArePinned ==
    \A r \in Slots :
        /\ rq[r].marks \cap rq[r].late = {}
        /\ InStage(rq[r]) =>
              \A i \in rq[r].late : IsPinned(pins, rq[r].body.session, i)

IInv ==
    /\ PinInv
    /\ SettingsInv
    /\ memory \in MemoryChoices
    /\ cache \in CacheType
    /\ audit \in AuditType
    /\ Handlers
    /\ OnlyCachedBlocksAreTallied
    /\ NoCcrAgainstTheGate
    /\ LateArePinned

LEMMA FreshIsEmpty ==
    ASSUME NEW b \in Bodies
    PROVE  /\ Fresh(b).marks = {} /\ ~Fresh(b).tool /\ Fresh(b).pc = "ccr"
           /\ Fresh(b).body = b
           /\ \A i \in Fresh(b).late : IsPinned(pins, b.session, i)
  BY DEF Fresh

LEMMA VacantIsEmpty == Vacant.marks = {} /\ ~Vacant.tool /\ Vacant.pc = "none"
  BY DEF Vacant, Fresh

LEMMA IInvInit == Init => IInv
  <1> SUFFICES ASSUME Init PROVE IInv
    OBVIOUS
  <1>1. PinInv /\ SettingsInv
    BY PinInvInit, SettingsInvInit DEF Init
  <1>2. memory \in MemoryChoices /\ cache \in CacheType /\ audit \in AuditType
    BY DEF Init, CacheType, AuditType
  <1>3. \A r \in Slots : rq[r] = Vacant
    BY DEF Init
  <1>4. Handlers
    BY <1>3, VacantHandler DEF Init, Handlers, HandlerInv
  <1>5. OnlyCachedBlocksAreTallied
    <2>1. \A p \in Pairs : pins[p] = 0
      BY DEF Init, PinInit, NoPins
    <2> SUFFICES ASSUME NEW p \in Pairs PROVE ~(pins[p] > 0)
      BY DEF OnlyCachedBlocksAreTallied
    <2>2. pins[p] = 0
      BY <2>1
    <2> QED
      BY <2>2
  <1>6. NoCcrAgainstTheGate /\ LateArePinned
    BY <1>3, VacantIsEmpty DEF NoCcrAgainstTheGate, Engaged, LateArePinned, InStage
  <1> QED
    BY <1>1, <1>2, <1>4, <1>5, <1>6 DEF IInv

\* Replacing one slot by a sound handler keeps all slots sound.
LEMMA SlotReplaced ==
    ASSUME Handlers, NEW r \in Slots, NEW p, HandlerInv(p), rq' = [rq EXCEPT ![r] = p]
    PROVE  /\ Handlers'
           /\ rq'[r] = p
           /\ \A t \in Slots \ {r} : rq'[t] = rq[t]
  BY DEF Handlers, HandlerInv

LEMMA IInvStep ==
    ASSUME IInv, NEW r \in Slots, Step(r)
    PROVE  IInv'
  <1> USE DEF IInv
  <1>1. PICK p : StepsTo(r, p)
    BY HandlerSteps
  <1>2. /\ Handlers'
        /\ rq'[r] = p
        /\ \A t \in Slots \ {r} : rq'[t] = rq[t]
    BY <1>1, SlotReplaced DEF StepsTo
  <1>3. Advances(p, rq[r])
    BY <1>1 DEF StepsTo
  <1>4. /\ cache' \in CacheType
        /\ \A x \in Pairs : cache'[x] = cache[x] \/ cache'[x] = "held"
    BY StepCaches
  <1>5. audit' \in AuditType
    BY StepAudits
  <1>6. UNCHANGED <<gate, flag, persisted, admin, memory>>
    BY StepSettings
  <1>7. PinInv'
    BY StepTallies, PinInvNext DEF PinNext
  <1>8. SettingsInv'
    BY <1>6, SettingsInvNext DEF settingsVars
  <1>9. OnlyCachedBlocksAreTallied'
    <2> SUFFICES ASSUME NEW x \in Pairs, pins'[x] > 0 PROVE cache'[x] # "never"
      BY DEF OnlyCachedBlocksAreTallied
    <2>1. CASE pins'[x] = pins[x]
      BY <1>4, <2>1 DEF OnlyCachedBlocksAreTallied
    <2>2. CASE pins'[x] # pins[x]
      <3>1. PICK s \in Sessions, i \in Ids :
               NoteRetrieve(s, i) /\ cache[<<s, i>>] = "held" /\ cache' = cache
        BY <2>2, StepTallies
      <3>2. x = <<s, i>>
        BY <2>2, <3>1, NotedRegistry DEF NoteRetrieve, PinInv
      <3> QED
        BY <3>1, <3>2
    <2> QED
      BY <2>1, <2>2
  <1>10. NoCcrAgainstTheGate'
    <2>1. CcrOn => gate /\ memory
      BY DEF CcrOn, SettingsInv, GateHolds
    <2> SUFFICES ASSUME NEW t \in Slots, Engaged(rq'[t])
                 PROVE  gate /\ memory
      BY <1>6 DEF NoCcrAgainstTheGate, Engaged
    <2>2. CASE t = r
      BY <1>2, <1>3, <2>1, <2>2 DEF Advances, NoCcrAgainstTheGate
    <2>3. CASE t # r
      BY <1>2, <2>3 DEF NoCcrAgainstTheGate
    <2> QED
      BY <2>2, <2>3
  <1>11. LateArePinned'
    <2> SUFFICES ASSUME NEW t \in Slots
                 PROVE  /\ rq'[t].marks \cap rq'[t].late = {}
                        /\ InStage(rq'[t]) =>
                              \A i \in rq'[t].late : IsPinned(pins', rq'[t].body.session, i)
      BY DEF LateArePinned, IsPinned, InStage
    <2>0. \A s \in Sessions, i \in Ids : IsPinned(pins, s, i) => IsPinned(pins', s, i)
      BY StepTallies, NoteKeepsPinned
    <2>1. CASE t = r
      <3>0. rq[t] \in Request
        BY DEF Handlers
      <3>1. /\ InStage(rq'[t]) => InStage(rq[t])
            /\ rq'[t].late = rq[t].late /\ rq'[t].body = rq[t].body
        BY <1>2, <1>3, <2>1 DEF Advances
      <3>2. \/ rq'[t].marks = rq[t].marks
            \/ /\ InStage(rq[t])
               /\ \A i \in rq'[t].marks \ rq[t].marks : Compressible(rq[t].body, i)
        BY <1>2, <1>3, <2>1 DEF Advances, InStage
      <3>3. InStage(rq[t]) => \A i \in rq[t].late : ~Compressible(rq[t].body, i)
        BY DEF LateArePinned, Compressible
      <3>4. rq'[t].marks \cap rq'[t].late = {}
        BY <3>1, <3>2, <3>3 DEF LateArePinned
      <3>5. rq[t].body.session \in Sessions /\ rq[t].late \subseteq Ids
        BY <3>0, CcrAssumption DEF Request, Body
      <3> QED
        BY <2>0, <3>1, <3>4, <3>5 DEF LateArePinned
    <2>2. CASE t # r
      <3>1. rq'[t] = rq[t] /\ rq[t] \in Request
        BY <1>2, <2>2 DEF Handlers
      <3>2. rq[t].body.session \in Sessions /\ rq[t].late \subseteq Ids
        BY <3>1, CcrAssumption DEF Request, Body
      <3> QED
        BY <2>0, <3>1, <3>2 DEF LateArePinned
    <2> QED
      BY <2>1, <2>2
  <1> QED
    BY <1>2, <1>4, <1>5, <1>6, <1>7, <1>8, <1>9, <1>10, <1>11

\* A slot is taken by a request that has not done anything yet, or is left.
LEMMA IInvSlot ==
    ASSUME IInv, NEW r \in Slots, NEW p, HandlerInv(p), rq' = [rq EXCEPT ![r] = p],
           UNCHANGED <<pins, gate, flag, persisted, admin, memory, cache, audit>>,
           p.marks = {}, ~Engaged(p),
           InStage(p) => \A i \in p.late : IsPinned(pins, p.body.session, i)
    PROVE  IInv'
  <1> USE DEF IInv
  <1>1. /\ Handlers'
        /\ rq'[r] = p
        /\ \A t \in Slots \ {r} : rq'[t] = rq[t]
    BY SlotReplaced
  <1>2. PinInv' /\ SettingsInv'
    BY PinInvNext, SettingsInvNext DEF settingsVars
  <1>3. OnlyCachedBlocksAreTallied'
    BY DEF OnlyCachedBlocksAreTallied
  <1>4. NoCcrAgainstTheGate'
    BY <1>1 DEF NoCcrAgainstTheGate, Engaged
  <1>5. LateArePinned'
    <2> SUFFICES ASSUME NEW t \in Slots
                 PROVE  /\ rq'[t].marks \cap rq'[t].late = {}
                        /\ InStage(rq'[t]) =>
                              \A i \in rq'[t].late : IsPinned(pins, rq'[t].body.session, i)
      BY DEF LateArePinned, IsPinned, InStage
    <2> QED
      BY <1>1 DEF LateArePinned
  <1> QED
    BY <1>1, <1>2, <1>3, <1>4, <1>5

LEMMA IInvExpire ==
    ASSUME IInv, NEW s \in Sessions, NEW i \in Ids, Expire(s, i)
    PROVE  IInv'
  <1> USE DEF IInv
  <1>1. /\ cache' = [cache EXCEPT ![<<s, i>>] = "expired"]
        /\ UNCHANGED <<pins, gate, flag, persisted, admin, rq, memory, audit>>
    BY DEF Expire
  <1>2. cache' \in CacheType
    BY <1>1 DEF CacheType
  <1>3. PinInv' /\ SettingsInv'
    BY <1>1, PinInvNext, SettingsInvNext DEF settingsVars
  <1>4. Handlers'
    BY <1>1 DEF Handlers
  <1>5. OnlyCachedBlocksAreTallied'
    <2> SUFFICES ASSUME NEW x \in Pairs, pins[x] > 0 PROVE cache'[x] # "never"
      BY <1>1 DEF OnlyCachedBlocksAreTallied
    <2> QED
      BY <1>1 DEF OnlyCachedBlocksAreTallied, CacheType
  <1>6. NoCcrAgainstTheGate' /\ LateArePinned'
    BY <1>1 DEF NoCcrAgainstTheGate, Engaged, LateArePinned, InStage, IsPinned
  <1> QED
    BY <1>1, <1>2, <1>3, <1>4, <1>5, <1>6

\* A PUT moves the flag within the gate and touches no handler.
LEMMA IInvChangeSetting ==
    ASSUME IInv, ChangeSetting
    PROVE  IInv'
  <1> USE DEF IInv
  <1>1. UNCHANGED <<gate, pins, rq, memory, cache, audit>>
    BY DEF ChangeSetting, SetFlag, Persist
  <1>2. PinInv' /\ SettingsInv'
    BY <1>1, PinInvNext, SettingsInvNext DEF ChangeSetting, SettingsNext
  <1>3. Handlers' /\ OnlyCachedBlocksAreTallied'
    BY <1>1 DEF Handlers, OnlyCachedBlocksAreTallied
  <1>4. NoCcrAgainstTheGate' /\ LateArePinned'
    BY <1>1 DEF NoCcrAgainstTheGate, Engaged, LateArePinned, InStage, IsPinned
  <1> QED
    BY <1>1, <1>2, <1>3, <1>4

LEMMA IInvRestart ==
    ASSUME IInv, Restart
    PROVE  IInv'
  <1> USE DEF IInv
  <1>1. /\ rq' = [r \in Slots |-> Vacant]
        /\ pins' = NoPins
        /\ memory' \in MemoryChoices
        /\ UNCHANGED <<cache, audit>>
    BY DEF Restart, ForgetPins
  <1>2. PinInv' /\ SettingsInv'
    BY PinInvNext, SettingsInvNext DEF Restart, PinNext, SettingsNext
  <1>3. Handlers'
    BY <1>1, VacantHandler DEF Handlers, HandlerInv
  <1>4. OnlyCachedBlocksAreTallied'
    <2> SUFFICES ASSUME NEW p \in Pairs PROVE ~(pins'[p] > 0)
      BY DEF OnlyCachedBlocksAreTallied
    <2>1. pins'[p] = 0
      BY <1>1 DEF NoPins
    <2> QED
      BY <2>1
  <1>5. NoCcrAgainstTheGate' /\ LateArePinned'
    <2>1. \A r \in Slots : rq'[r] = Vacant
      BY <1>1
    <2> QED
      BY <2>1, VacantIsEmpty DEF NoCcrAgainstTheGate, Engaged, LateArePinned, InStage
  <1> QED
    BY <1>1, <1>2, <1>3, <1>4, <1>5

LEMMA IInvNext == IInv /\ [Next]_vars => IInv'
  <1> SUFFICES ASSUME IInv, [Next]_vars PROVE IInv'
    OBVIOUS
  <1>1. ASSUME NEW r \in Slots, NEW b \in Bodies, Arrive(r, b) PROVE IInv'
    <2>1. HandlerInv(Fresh(b))
      BY FreshHandler
    <2> QED
      BY <1>1, <2>1, FreshIsEmpty, IInvSlot DEF Arrive, Engaged
  <1>2. ASSUME NEW r \in Slots, HangUp(r) PROVE IInv'
    BY <1>2, VacantHandler, VacantIsEmpty, IInvSlot DEF HangUp, Engaged, InStage
  <1>3. ASSUME NEW r \in Slots, Step(r) PROVE IInv'
    BY <1>3, IInvStep
  <1>4. ASSUME NEW s \in Sessions, NEW i \in Ids, Expire(s, i) PROVE IInv'
    BY <1>4, IInvExpire
  <1>5. CASE UNCHANGED vars
    <2> USE <1>5 DEF vars, IInv
    <2>1. PinInv' /\ SettingsInv'
      BY PinInvNext, SettingsInvNext DEF settingsVars
    <2>2. Handlers' /\ OnlyCachedBlocksAreTallied'
      BY DEF Handlers, OnlyCachedBlocksAreTallied
    <2>3. NoCcrAgainstTheGate' /\ LateArePinned'
      BY DEF NoCcrAgainstTheGate, Engaged, LateArePinned, InStage, IsPinned
    <2> QED
      BY <2>1, <2>2, <2>3
  <1> QED
    BY <1>1, <1>2, <1>3, <1>4, <1>5, IInvChangeSetting, IInvRestart DEF Next

LEMMA IInvAlways == Spec => []IInv
  BY IInvInit, IInvNext, PTL DEF Spec

(***************************************************************************)
(* Requests only go forward                                                *)
(***************************************************************************)

\* The stage, the choice of path, the loop, the relay.
Place == [ccr |-> 1, scan |-> 2, decisions |-> 3, store |-> 4, dispatch |-> 5,
          round |-> 6, resolve |-> 6, bump |-> 6, relay |-> 7, done |-> 8, none |-> 8]

\* A later round; or the same one, and its response is in, fewer of its calls
\* are open, or the call at hand was a hit.
LoopLater(p, q) ==
    /\ InLoop(p) /\ InLoop(q)
    /\ \/ p.round > q.round
       \/ /\ p.round = q.round /\ p.pc = "resolve"
          /\ q.pc = "round" \/ Len(p.todo) < Len(q.todo)
       \/ p.round = q.round /\ q.pc = "resolve" /\ p.pc = "bump" /\ p.todo = q.todo

\* p is nearer its end than q: at a later place, or at the same one with less
\* left to do.
Later(p, q) ==
    \/ Place[p.pc] > Place[q.pc]
    \/ p.pc = "scan" /\ q.pc = "scan" /\ p.scan \subseteq q.scan /\ p.scan # q.scan
    \/ p.pc = "store" /\ q.pc = "store" /\ p.puts \subseteq q.puts /\ p.puts # q.puts
    \/ LoopLater(p, q)

\* Nothing is later than itself.
LEMMA LaterIsStrict ==
    ASSUME NEW q \in Request
    PROVE  ~Later(q, q)
  <1>1. Place[q.pc] \in Nat /\ q.round \in Nat /\ Len(q.todo) \in Nat
    BY CcrAssumption DEF Request, Awaits, Place
  <1> QED
    BY <1>1 DEF Later, LoopLater

LEMMA EndedIsLater ==
    ASSUME NEW p, NEW q, p.pc \in {"none", "done"}, Suspended(q)
    PROVE  Later(p, q)
  BY DEF Later, Suspended, Awaits, Place

LEMMA NextRoundIsLater ==
    ASSUME NEW q \in Request, InLoop(q)
    PROVE  /\ NextRound(q).pc = "done" \/ InLoop(NextRound(q))
           /\ InLoop(NextRound(q)) => NextRound(q).round > q.round
  <1>1. Finalize(q).pc = "done"
    BY FinalizedKeeps
  <1> DEFINE p == [q EXCEPT !.pc = "round", !.round = @ + 1]
  <1>2. InLoop(p) /\ p.round > q.round
    BY CcrAssumption DEF InLoop, Request
  <1>3. NextRound(q) = p \/ NextRound(q) = Finalize(q)
    BY DEF NextRound
  <1> HIDE DEF p
  <1> QED
    BY <1>1, <1>2, <1>3 DEF InLoop

\* Resolving a call leaves fewer of them, or is the round's last.
LEMMA ResolvedIsLater ==
    ASSUME NEW q, HandlerInv(q), q.pc \in {"resolve", "bump"}
    PROVE  Later(CallResolved(q), q)
  <1> DEFINE p == [q EXCEPT !.todo = Tail(@), !.pin = FALSE, !.pc = "resolve"]
  <1>1. q \in Request /\ q.todo \in Seq(Ids) /\ q.todo # <<>> /\ InLoop(q)
    BY DEF HandlerInv, Request, InLoop
  <1>2. Tail(q.todo) \in Seq(Ids) /\ Len(Tail(q.todo)) < Len(q.todo)
    BY <1>1
  <1>3. /\ p \in Request /\ InLoop(p) /\ p.pc = "resolve" /\ p.todo = Tail(q.todo)
        /\ p.round = q.round
    BY <1>1, <1>2 DEF Request, Awaits, InLoop
  <1> HIDE DEF p
  <1>4. CASE p.todo = <<>>
    <2>1. CallResolved(q) = NextRound(p)
      BY <1>4 DEF CallResolved, p
    <2>2. Suspended(q)
      BY DEF Suspended, Awaits
    <2> QED
      BY <1>1, <1>3, <2>1, <2>2, NextRoundIsLater, EndedIsLater DEF Later, LoopLater
  <1>5. CASE p.todo # <<>>
    <2>1. CallResolved(q) = p
      BY <1>5 DEF CallResolved, p
    <2> QED
      BY <1>1, <1>2, <1>3, <2>1 DEF Later, LoopLater
  <1> QED
    BY <1>4, <1>5

\* The steps before the loop.
LEMMA StageStepIsLater ==
    ASSUME Handlers, NEW r \in Slots,
           CcrStage(r) \/ CompressBlock(r) \/ RecordDecisions(r) \/ StoreEntry(r) \/ Dispatch(r)
    PROVE  Later(rq'[r], rq[r])
  <1> DEFINE q == rq[r]
  <1>0. q \in Request /\ rq \in [Slots -> Request]
    BY DEF Handlers
  <1>1. CASE CcrStage(r)
    <2>1. q.pc = "ccr" /\ rq'[r].pc \in {"dispatch", "scan"}
      BY <1>0, <1>1 DEF CcrStage, Request
    <2> QED
      BY <2>1 DEF Later, Place
  <1>2. CASE CompressBlock(r)
    <2>1. q.pc = "scan"
      BY <1>2 DEF CompressBlock
    <2>2. PICK i \in q.scan, marks \in SUBSET Ids, pc \in {"scan", "dispatch", "decisions"} :
            rq'[r] = [q EXCEPT !.scan = @ \ {i}, !.marks = marks, !.puts = marks, !.pc = pc]
      <3> DEFINE Marks(i) == IF Compressible(q.body, i) THEN q.marks \cup {i} ELSE q.marks
                 Pc(i) == IF q.scan # {i} THEN "scan"
                          ELSE IF Marks(i) = {} THEN "dispatch" ELSE "decisions"
      <3>1. PICK i \in q.scan :
              rq' = [rq EXCEPT ![r] =
                       [q EXCEPT !.scan = @ \ {i}, !.marks = Marks(i), !.puts = Marks(i),
                                 !.pc = Pc(i)]]
        BY <1>2 DEF CompressBlock
      <3>2. Marks(i) \in SUBSET Ids /\ Pc(i) \in {"scan", "dispatch", "decisions"}
        BY <1>0 DEF Request
      <3> HIDE DEF Marks, Pc
      <3> QED
        BY <1>0, <3>1, <3>2
    <2>3. rq'[r].scan = q.scan \ {i} /\ rq'[r].pc = pc
      BY <1>0, <2>2 DEF Request
    <2> QED
      BY <2>1, <2>2, <2>3 DEF Later, Place
  <1>3. CASE RecordDecisions(r)
    <2>1. q.pc = "decisions" /\ rq'[r].pc = "store"
      BY <1>0, <1>3 DEF RecordDecisions, Request
    <2> QED
      BY <2>1 DEF Later, Place
  <1>4. CASE StoreEntry(r)
    <2>1. q.pc = "store"
      BY <1>4 DEF StoreEntry
    <2>2. PICK i \in q.puts :
            rq' = [rq EXCEPT ![r] =
                     [q EXCEPT !.puts = @ \ {i},
                               !.pc = IF q.puts = {i} THEN "dispatch" ELSE "store"]]
      BY <1>4 DEF StoreEntry
    <2> DEFINE pc == IF q.puts = {i} THEN "dispatch" ELSE "store"
    <2>3. rq'[r] = [q EXCEPT !.puts = @ \ {i}, !.pc = pc]
      BY <1>0, <2>2
    <2>4. pc \in {"dispatch", "store"}
      OBVIOUS
    <2> HIDE DEF pc
    <2>5. rq'[r].puts = q.puts \ {i} /\ rq'[r].pc = pc
      BY <1>0, <2>3 DEF Request
    <2> QED
      BY <2>1, <2>2, <2>4, <2>5 DEF Later, Place
  <1>5. CASE Dispatch(r)
    <2>1. q.pc = "dispatch" /\ rq'[r].pc \in {"round", "relay"}
      BY <1>0, <1>5 DEF Dispatch, Request
    <2> QED
      BY <2>1 DEF Later, Place
  <1> QED
    BY <1>1, <1>2, <1>3, <1>4, <1>5

\* The relay and the loop.
LEMMA AnswerStepIsLater ==
    ASSUME Handlers, NEW r \in Slots,
           Relay(r) \/ PostFails(r) \/ PostAnswers(r) \/ Resolve(r) \/ BumpRetrieve(r)
    PROVE  Later(rq'[r], rq[r])
  <1> DEFINE q == rq[r]
  <1>0. q \in Request /\ HandlerInv(q) /\ rq \in [Slots -> Request]
    BY DEF Handlers
  <1>1. CASE Relay(r)
    <2>1. PICK resp \in Responses(q.tool) :
            rq'[r] = Answered([q EXCEPT !.billed = @ + resp.usage], "relay", resp, 0)
      BY <1>0, <1>1 DEF Relay
    <2>2. rq'[r].pc = "done" /\ q.pc = "relay"
      BY <1>0, <1>1, <2>1 DEF Answered, Request, Relay
    <2> QED
      BY <2>2 DEF Later, Place
  <1>2. CASE PostFails(r)
    <2>1. q.pc = "round"
      BY <1>2 DEF PostFails
    <2>2. rq'[r].pc \in {"relay", "done"}
      BY <1>0, <1>2 DEF PostFails, Finalize, Answered, Request
    <2> QED
      BY <2>1, <2>2 DEF Later, Place
  <1>3. CASE PostAnswers(r)
    <2>1. PICK resp \in Responses(q.tool) :
            rq'[r] = LET p == [q EXCEPT !.prior = Accumulated(q),
                                        !.billed = @ + resp.usage,
                                        !.resp = resp]
                     IN  IF Final(resp) THEN Finalize(p)
                         ELSE [p EXCEPT !.pc = "resolve", !.todo = resp.calls]
      BY <1>0, <1>3 DEF PostAnswers
    <2>2. q.pc = "round"
      BY <1>3 DEF PostAnswers
    <2>3. CASE Final(resp)
      <3>1. rq'[r].pc = "done"
        BY <1>0, <2>1, <2>3 DEF Finalize, Answered, Request
      <3> QED
        BY <2>2, <3>1 DEF Later, Place
    <2>4. CASE ~Final(resp)
      <3>1. rq'[r].pc = "resolve" /\ rq'[r].round = q.round
        BY <1>0, <2>1, <2>4 DEF Request
      <3> QED
        BY <2>2, <3>1 DEF Later, LoopLater, InLoop
    <2> QED
      BY <2>3, <2>4
  <1>4. CASE Resolve(r)
    <2>1. q.pc = "resolve"
      BY <1>4 DEF Resolve
    <2>2. \/ rq'[r] = CallResolved(q)
          \/ /\ rq'[r].pc = "bump" /\ rq'[r].round = q.round
             /\ rq'[r].todo = q.todo
      BY <1>0, <1>4 DEF Resolve, Request
    <2> QED
      BY <1>0, <2>1, <2>2, ResolvedIsLater DEF Later, LoopLater, InLoop
  <1>5. CASE BumpRetrieve(r)
    <2>1. q.pc = "bump" /\ rq'[r] = CallResolved(q)
      BY <1>0, <1>5 DEF BumpRetrieve
    <2> QED
      BY <1>0, <2>1, ResolvedIsLater
  <1> QED
    BY <1>1, <1>2, <1>3, <1>4, <1>5

(***************************************************************************)
(* The theorems                                                            *)
(***************************************************************************)

\* Every variable keeps its type, however many requests run at once.
THEOREM TypeCorrect == Spec => []TypeOK
  <1>1. IInv => TypeOK
    BY DEF IInv, TypeOK, PinInv, PinTypeOK, Registry, SettingsInv, CacheType,
           AuditType, Handlers
  <1> QED
    BY <1>1, IInvAlways, PTL

\* However the loop ends, its answer carries no retrieve call
\* (ccr_forward.rs:127-137, 168-179).
THEOREM LoopAnswersClean == Spec => []LoopAnswersAreClean
  <1>1. IInv => LoopAnswersAreClean
    BY DEF IInv, Handlers, HandlerInv, Clean, LoopAnswersAreClean
  <1> QED
    BY <1>1, IInvAlways, PTL

\* The usage row is never short of what the rounds cost, and exact unless
\* the loop was cut (ccr_forward.rs:97-105, 357-371).
THEOREM UsageBooked == Spec => []UsageIsBooked
  <1>1. IInv => UsageIsBooked
    BY DEF IInv, Handlers, HandlerInv, Accounted, UsageIsBooked
  <1> QED
    BY <1>1, IInvAlways, PTL

\* What the registry tallies was once in the cache under the same session
\* (ccr_forward.rs:330-336).
THEOREM OnlyCachedTallied == Spec => []OnlyCachedBlocksAreTallied
  <1>1. IInv => OnlyCachedBlocksAreTallied
    BY DEF IInv
  <1> QED
    BY <1>1, IInvAlways, PTL

\* A block pinned before a request arrived is not compressed by it
\* (mod.rs:209-213).
THEOREM PinnedVerbatim == Spec => []PinnedBlocksStayVerbatim
  <1>1. IInv => PinnedBlocksStayVerbatim
    BY DEF IInv, LateArePinned, PinnedBlocksStayVerbatim
  <1> QED
    BY <1>1, IInvAlways, PTL

\* CCR never works against the boot gate or without a memory store
\* (server.rs:126-135, 283-305).
THEOREM GateRespected == Spec => []NoCcrAgainstTheGate
  <1>1. IInv => NoCcrAgainstTheGate
    BY DEF IInv
  <1> QED
    BY <1>1, IInvAlways, PTL

\* No interleaving of requests clears a pinned row (store.rs:560-571).
THEOREM PinnedRowsStay == Spec => PinnedRowsAreSticky
  <1>1. IInv /\ [Next]_vars =>
          [\A p \in Pairs : audit[p] = "pinned" => audit'[p] = "pinned"]_audit
    <2> SUFFICES ASSUME IInv, [Next]_vars, audit' # audit
                 PROVE  \A p \in Pairs : audit[p] = "pinned" => audit'[p] = "pinned"
      OBVIOUS
    <2>1. \E r \in Slots : Step(r)
      BY DEF Next, vars, Arrive, HangUp, Expire, ChangeSetting, Restart
    <2> QED
      BY <2>1, StepAudits DEF IInv
  <1> QED
    BY <1>1, IInvAlways, PTL DEF Spec, PinnedRowsAreSticky

\* Until a request ends, nothing that happens takes it back: each step of its
\* own leaves it later than before, in an order with no infinite ascent
\* where blocks are finitely many, for rounds are bounded, and no other
\* request, sweep or admin touches it.  The loop ends whatever the model asks
\* for (ccr_forward.rs:96-166, mod.rs:380-385).
THEOREM RequestsAdvance ==
    Spec => [][\A r \in Slots :
                  /\ Suspended(rq[r]) /\ rq'[r] # rq[r] => Later(rq'[r], rq[r])
                  /\ Step(r) => Later(rq'[r], rq[r]) /\ rq'[r] # rq[r]]_vars
  <1>1. ASSUME IInv, NEW r \in Slots, Step(r)
        PROVE  Later(rq'[r], rq[r]) /\ rq'[r] # rq[r]
    <2>1. Handlers /\ rq[r] \in Request
      BY <1>1 DEF IInv, Handlers
    <2>2. Later(rq'[r], rq[r])
      BY <1>1, <2>1, StageStepIsLater, AnswerStepIsLater DEF Step
    <2> QED
      BY <2>1, <2>2, LaterIsStrict
  <1>2. ASSUME IInv, Next, NEW r \in Slots, Suspended(rq[r]), rq'[r] # rq[r]
        PROVE  Later(rq'[r], rq[r])
    <2>0. rq \in [Slots -> Request] /\ Handlers
      BY <1>2 DEF IInv, Handlers
    <2>1. ASSUME NEW s \in Slots, NEW b \in Bodies, Arrive(s, b) PROVE FALSE
      BY <1>2, <2>0, <2>1 DEF Arrive
    <2>2. ASSUME NEW s \in Slots, Step(s) PROVE Later(rq'[r], rq[r])
      <3>1. PICK p : StepsTo(s, p)
        BY <1>2, <2>0, <2>2, HandlerSteps
      <3>2. s = r
        BY <1>2, <2>0, <3>1 DEF StepsTo
      <3> QED
        BY <1>1, <1>2, <2>2, <3>2
    <2>3. Vacant.pc = "none"
      BY VacantHandler DEF Vacant, HandlerInv, Request
    <2>4. ASSUME NEW s \in Slots, HangUp(s) PROVE Later(rq'[r], rq[r])
      <3>1. rq'[r] = Vacant
        BY <1>2, <2>0, <2>4 DEF HangUp
      <3> QED
        BY <1>2, <2>3, <3>1, EndedIsLater
    <2>5. CASE Restart
      BY <1>2, <2>3, <2>5, EndedIsLater DEF Restart
    <2> QED
      BY <1>2, <2>1, <2>2, <2>4, <2>5 DEF Next, Expire, ChangeSetting
  <1>3. IInv /\ [Next]_vars =>
          [\A r \in Slots :
              /\ Suspended(rq[r]) /\ rq'[r] # rq[r] => Later(rq'[r], rq[r])
              /\ Step(r) => Later(rq'[r], rq[r]) /\ rq'[r] # rq[r]]_vars
    BY <1>1, <1>2
  <1> QED
    BY <1>3, IInvAlways, PTL DEF Spec

\* The proxy as a whole uses the registry only as PinRegistry describes: one
\* tally at a time, and a reset only at a restart.
THEOREM ImplementsPinSpec == Spec => PinSpec
  <1>1. Init => PinInit
    BY DEF Init
  <1>2. IInv /\ [Next]_vars => [PinNext]_pins
    BY NextIsPinStep DEF IInv
  <1> QED
    BY <1>1, <1>2, IInvAlways, PTL DEF Spec, PinSpec

\* And the settings only as ProxySettings describes: no request changes them.
THEOREM ImplementsSettingsSpec == Spec => SettingsSpec
  <1>1. Init => SettingsInit
    BY DEF Init
  <1> QED
    BY <1>1, NextIsSettingsStep, PTL DEF Spec, SettingsSpec

\* Hence a block pinned in the proxy stays pinned until the next restart,
\* whatever its requests do (mod.rs:194-224).
THEOREM ProxyPinsStay == Spec => PinsAreSticky
  BY ImplementsPinSpec, PinsStay, PTL

\* And the registry of the whole daemon stays within its caps (mod.rs:226-234).
THEOREM ProxyRegistryIsBounded == Spec => []CapsHold
  BY ImplementsPinSpec, RegistryIsBounded, PTL

\* With a single admin client and reliable writes the proxy's live setting
\* is the one its next boot resolves to (settings.rs:3-5).
THEOREM ProxySettingSurvives ==
    ASSUME NEW a, Admins = {a}, WritesMayFail = FALSE
    PROVE  Spec => []SettingSurvivesRestart
  <1>1. SettingsSpec => []SettingSurvivesRestart
    BY LoneAdminSettingSurvives
  <1> QED
    BY <1>1, ImplementsSettingsSpec, PTL
=============================================================================
