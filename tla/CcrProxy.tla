------------------------------ MODULE CcrProxy ------------------------------
(***************************************************************************)
(* One request through the proxy daemon (proxy/src): the CCR stage of the  *)
(* pipeline (pipeline/ccr), the choice of forward path (server.rs          *)
(* `handle`, forward.rs `apply`) and the retrieve loop (ccr_forward.rs).   *)
(*                                                                         *)
(* The CCR stage replaces large blocks of the client's message history by  *)
(* markers, stores the originals in the ICM cache and offers the model a   *)
(* `ptk_retrieve` tool.  If the forwarded body carries a marker the proxy  *)
(* answers retrieve calls itself, re-calling upstream for at most          *)
(* MAX_ROUNDS rounds, and hands the client only the last answer; anything  *)
(* else takes the plain relay.                                             *)
(*                                                                         *)
(* Requests run concurrently and interleave at every await.  They share    *)
(* the runtime flag and the settings handlers (ProxySettings), the pin     *)
(* registry (PinRegistry), the cache and the decision log.  The daemon may *)
(* die at any point: flag and registry start afresh, cache, log and the    *)
(* settings row survive.                                                   *)
(***************************************************************************)
EXTENDS PinRegistry, ProxySettings, Sequences

CONSTANTS
    Slots,          \* request handlers the daemon runs at once
    Bodies,         \* what clients send, see Body
    MaxRounds,      \* MAX_ROUNDS
    MaxCalls,       \* bound: retrieve calls the model makes in one response
    InjectTool,     \* inject_enabled(): PTK_PROXY_CCR_INJECT
    ForceStream,    \* force_stream(): PTK_PROXY_FORCE_STREAM
    MemoryChoices   \* whether the ICM store opens at a boot

(***************************************************************************)
(* A body as far as CCR looks at it.  `session` is the namespace it is     *)
(* written under: the x-ptk-session header, else the hash of the first     *)
(* user message.  `blocks` are the blocks worth compressing and `opener`   *)
(* those of them inside the first user message.  `moved` is the namespace  *)
(* the body hashes to once an opener block has been rewritten; with a      *)
(* header it is `session`.  `marked`: the history quotes a marker already. *)
(***************************************************************************)
Body == [session : Sessions, moved : Sessions, blocks : SUBSET Ids,
         opener : SUBSET Ids, marked : BOOLEAN]

ASSUME CcrAssumption ==
    /\ Bodies \subseteq Body
    /\ Bodies # {}
    /\ MaxRounds \in Nat \ {0}
    /\ MaxCalls \in Nat
    /\ InjectTool \in BOOLEAN
    /\ ForceStream \in BOOLEAN
    /\ MemoryChoices \subseteq BOOLEAN
    /\ MemoryChoices # {}

VARIABLES
    rq,      \* the handler in each slot, see Request
    memory,  \* AppState.memory is some
    cache,   \* ccr/<session>/<id> topics of the ICM store
    audit    \* ccr_decisions rows: none, logged, or logged with pinned = 1

vars == <<pins, gate, flag, persisted, admin, rq, memory, cache, audit>>

(***************************************************************************)
(* Upstream responses                                                      *)
(***************************************************************************)

\* What the proxy reads out of one response: whether the status is below
\* 400, the ids of the retrieve calls in order, whether the model also calls
\* a tool of the client, and whether a usage block bills the round.
Response == [ok : BOOLEAN, calls : Seq(Ids), foreign : BOOLEAN, usage : 0 .. 1]

NoResponse == [ok |-> TRUE, calls |-> <<>>, foreign |-> FALSE, usage |-> 0]

ErrorResponse == [ok |-> FALSE, calls |-> <<>>, foreign |-> FALSE, usage |-> 0]

CallLists == UNION {[1 .. n -> Ids] : n \in 0 .. MaxCalls}

\* An error status or a body that is not JSON has neither calls nor usage; a
\* model calls `ptk_retrieve` only when the body offers it.
Responses(offered) ==
    {NoResponse, ErrorResponse}
    \cup {[ok |-> TRUE, calls |-> c, foreign |-> f, usage |-> 1] :
            c \in IF offered THEN CallLists ELSE {<<>>}, f \in BOOLEAN}

\* Mutant: the retrieve calls stay in the response.
SanitizedNot(resp) == resp

\* `sanitize_client_response`
Sanitized(resp) == [resp EXCEPT !.calls = <<>>]

(***************************************************************************)
(* Handlers                                                                *)
(***************************************************************************)

\* Where other handlers may run in between: the awaits, and the points where
\* a handler looks at shared memory, for the runtime has several threads.
Awaits == {"ccr", "scan", "decisions", "store", "dispatch", "round", "resolve",
           "bump", "relay"}

Request ==
    [pc : Awaits \cup {"none", "done"},
     body : Bodies,
     late : SUBSET Ids,     \* blocks pinned before the request arrived
     scan : SUBSET Ids,     \* blocks the stage has not looked at yet
     marks : SUBSET Ids,    \* blocks this request renders as markers
     puts : SUBSET Ids,     \* of these, originals not offered to the cache yet
     tool : BOOLEAN,        \* the forwarded body offers ptk_retrieve
     round : 0 .. MaxRounds - 1,
     resp : Response,       \* last_status and last_bytes
     todo : Seq(Ids),       \* calls of resp not resolved yet
     pin : BOOLEAN,         \* what bump_retrieve was told
     prior : Nat,           \* prior_usage
     billed : Nat,          \* what the provider charged so far
     cut : BOOLEAN,         \* the loop lost its upstream after the first round
     via : {"none", "loop", "relay"},  \* the path that answered
     booked : Nat]          \* the tokens of the usage row

Suspended(q) == q.pc \in Awaits

Fresh(b) ==
    [pc |-> "ccr", body |-> b,
     late |-> {i \in Ids : IsPinned(pins, b.session, i)},
     scan |-> {}, marks |-> {}, puts |-> {},
     tool |-> FALSE, round |-> 0, resp |-> NoResponse, todo |-> <<>>,
     pin |-> FALSE, prior |-> 0, billed |-> 0, cut |-> FALSE, via |-> "none",
     booked |-> 0]

\* A slot without a handler.
Vacant == [Fresh(CHOOSE b \in Bodies : TRUE) EXCEPT !.pc = "none", !.late = {}]

\* A handler that has ended leaves its answer behind, its locals are gone.
Answered(q, via, resp, prior) ==
    [q EXCEPT !.pc = "done", !.puts = {}, !.round = 0,
              !.todo = <<>>, !.pin = FALSE, !.prior = 0,
              !.via = via, !.resp = resp, !.booked = prior + resp.usage]

\* The namespace blocks are cached under, from the body as it arrived.
WriteSession(q) == q.body.session

\* The namespace the loop reads from, from the body as rewritten.
ReadSession(q) ==
    IF q.marks \cap q.body.opener = {} THEN q.body.session ELSE q.body.moved

(***************************************************************************)
(* The pipeline stage                                                      *)
(***************************************************************************)

Arrive(r, b) ==
    /\ ~Suspended(rq[r])
    /\ rq' = [rq EXCEPT ![r] = Fresh(b)]
    /\ UNCHANGED <<pins, gate, flag, persisted, admin, memory, cache, audit>>

CcrOn == flag /\ memory

\* The stage starts: flag and store are looked at once.  The tool is injected
\* even if nothing will be compressed.
CcrStage(r) ==
    LET q == rq[r] IN
    /\ q.pc = "ccr"
    /\ rq' = [rq EXCEPT ![r] =
          IF CcrOn
          THEN [q EXCEPT !.pc = IF q.body.blocks = {} THEN "dispatch" ELSE "scan",
                         !.scan = q.body.blocks,
                         !.tool = InjectTool]
          ELSE [q EXCEPT !.pc = "dispatch"]]
    /\ UNCHANGED <<pins, gate, flag, persisted, admin, memory, cache, audit>>

\* Mutant: pinned blocks are compressed again.
CompressibleUnpinned(b, i) == TRUE

Compressible(b, i) == ~IsPinned(pins, b.session, i)

\* One block becomes a marker or stays verbatim.  The registry is locked for
\* one block at a time, so another handler may pin one in between.
CompressBlock(r) ==
    LET q == rq[r] IN
    /\ q.pc = "scan"
    /\ \E i \in q.scan :
          LET marks == IF Compressible(q.body, i) THEN q.marks \cup {i} ELSE q.marks
          IN  rq' = [rq EXCEPT ![r] =
                 [q EXCEPT !.scan = @ \ {i},
                           !.marks = marks,
                           !.puts = marks,
                           !.pc = IF q.scan # {i} THEN "scan"
                                  ELSE IF marks = {} THEN "dispatch" ELSE "decisions"]]
    /\ UNCHANGED <<pins, gate, flag, persisted, admin, memory, cache, audit>>

\* INSERT OR IGNORE per block; a row SQLite refuses is dropped silently.
RecordDecisions(r) ==
    LET q == rq[r] IN
    /\ q.pc = "decisions"
    /\ \E rows \in SUBSET q.marks :
          audit' = [p \in Pairs |->
                      IF p[1] = WriteSession(q) /\ p[2] \in rows /\ audit[p] = "none"
                      THEN "logged" ELSE audit[p]]
    /\ rq' = [rq EXCEPT ![r].pc = "store"]
    /\ UNCHANGED <<pins, gate, flag, persisted, admin, memory, cache>>

\* One `put_exact`; a failed one is only logged and the marker stays.
StoreEntry(r) ==
    LET q == rq[r] IN
    /\ q.pc = "store"
    /\ \E i \in q.puts, ok \in BOOLEAN :
          /\ cache' = IF ok THEN [cache EXCEPT ![<<WriteSession(q), i>>] = "held"] ELSE cache
          /\ rq' = [rq EXCEPT ![r] =
                [q EXCEPT !.puts = @ \ {i},
                          !.pc = IF q.puts = {i} THEN "dispatch" ELSE "store"]]
    /\ UNCHANGED <<pins, gate, flag, persisted, admin, memory, audit>>

(***************************************************************************)
(* The choice of path                                                      *)
(***************************************************************************)

\* `ccr_active`: a retrieve could be called and could name something.
CcrActive(q) == q.tool /\ (q.marks # {} \/ q.body.marked) /\ ~ForceStream

\* `handle` reads the flag again: a PUT since the stage ran may have changed it.
Dispatch(r) ==
    /\ rq[r].pc = "dispatch"
    /\ rq' = [rq EXCEPT ![r].pc = IF CcrActive(rq[r]) /\ CcrOn THEN "round" ELSE "relay"]
    /\ UNCHANGED <<pins, gate, flag, persisted, admin, memory, cache, audit>>

\* The single-shot relay hands the response on as it is; an upstream that
\* cannot be reached becomes a 502.
Relay(r) ==
    LET q == rq[r] IN
    /\ q.pc = "relay"
    /\ \E resp \in Responses(q.tool) :
          rq' = [rq EXCEPT ![r] =
                    Answered([q EXCEPT !.billed = @ + resp.usage], "relay", resp, 0)]
    /\ UNCHANGED <<pins, gate, flag, persisted, admin, memory, cache, audit>>

(***************************************************************************)
(* The retrieve loop                                                       *)
(***************************************************************************)

\* Mutant: the previous round's usage is dropped, not accumulated.
AccumulatedNot(q) == q.prior

\* The loop adds the usage of the previous response at the top of a round.
Accumulated(q) == q.prior + q.resp.usage

\* After the loop: a status below 400 is sanitized, usage is that of the
\* last response plus prior_usage, and the answer goes out.
Finalize(q) ==
    Answered(q, "loop", IF q.resp.ok THEN Sanitized(q.resp) ELSE q.resp, q.prior)

\* Whether the loop stops at this response: an error, no JSON or no retrieve
\* call, or a call only the client can execute.
Final(resp) == resp.calls = <<>> \/ resp.foreign

\* One upstream call.  If it fails in transport the first round falls back
\* to the relay, a later one ends the loop with the previous response.
PostFails(r) ==
    LET q == rq[r] IN
    /\ q.pc = "round"
    /\ rq' = [rq EXCEPT ![r] =
          IF q.round = 0 THEN [q EXCEPT !.pc = "relay"]
          ELSE Finalize([q EXCEPT !.prior = Accumulated(q), !.cut = TRUE])]
    /\ UNCHANGED <<pins, gate, flag, persisted, admin, memory, cache, audit>>

PostAnswers(r) ==
    LET q == rq[r] IN
    /\ q.pc = "round"
    /\ \E resp \in Responses(q.tool) :
          LET p == [q EXCEPT !.prior = Accumulated(q),
                             !.billed = @ + resp.usage,
                             !.resp = resp]
          IN  rq' = [rq EXCEPT ![r] =
                 IF Final(resp) THEN Finalize(p)
                 ELSE [p EXCEPT !.pc = "resolve", !.todo = resp.calls]]
    /\ UNCHANGED <<pins, gate, flag, persisted, admin, memory, cache, audit>>

\* Mutant: one round more than MAX_ROUNDS.
NextRoundOnceMore(q) ==
    IF q.round < MaxRounds
    THEN [q EXCEPT !.pc = "round", !.round = @ + 1]
    ELSE Finalize(q)

\* Every call has its result: the follow-up is sent, unless the rounds are
\* exhausted.
NextRound(q) ==
    IF q.round + 1 < MaxRounds
    THEN [q EXCEPT !.pc = "round", !.round = @ + 1]
    ELSE Finalize(q)

\* Mutant: the loop over the calls does not advance.
CallResolvedAgain(q) == [q EXCEPT !.pin = FALSE, !.pc = "resolve"]

\* The handler after one call has been resolved.
CallResolved(q) ==
    LET p == [q EXCEPT !.todo = Tail(@), !.pin = FALSE, !.pc = "resolve"]
    IN  IF p.todo = <<>> THEN NextRound(p) ELSE p

\* Mutant: a hit is tallied by the resolver and again by its caller.
TalliedTwice(hit, s, i) == IF hit THEN Noted(Noted(pins, s, i), s, i) ELSE pins

\* Mutant: misses are tallied too.
TalliedAlways(hit, s, i) == Noted(pins, s, i)

\* Only a hit is tallied: a made-up id must not consume registry capacity.
Tallied(hit, s, i) == IF hit THEN Noted(pins, s, i) ELSE pins

\* `resolve_one`.  The lookup misses what is not held and may fail on what
\* is; either way the model is told so and the round goes on.
Resolve(r) ==
    LET q == rq[r]
        i == Head(q.todo)
        s == ReadSession(q)
    IN  /\ q.pc = "resolve"
        /\ \E hit \in {FALSE, cache[<<s, i>>] = "held"} :
              /\ pins' = Tallied(hit, s, i)
              /\ rq' = [rq EXCEPT ![r] =
                    IF hit THEN [q EXCEPT !.pc = "bump", !.pin = IsPinned(pins', s, i)]
                    ELSE CallResolved(q)]
        /\ UNCHANGED <<gate, flag, persisted, admin, memory, cache, audit>>

\* Mutant: pinned = ?3
BumpedAssign(row, pin) ==
    IF row = "none" THEN row ELSE IF pin THEN "pinned" ELSE "logged"

\* pinned = MAX(pinned, ?3), on a row that exists
Bumped(row, pin) == IF row # "none" /\ pin THEN "pinned" ELSE row

\* `bump_retrieve`; a failed UPDATE is dropped silently.
BumpRetrieve(r) ==
    LET q == rq[r]
        p == <<ReadSession(q), Head(q.todo)>>
    IN  /\ q.pc = "bump"
        /\ \/ audit' = [audit EXCEPT ![p] = Bumped(@, q.pin)]
           \/ UNCHANGED audit
        /\ rq' = [rq EXCEPT ![r] = CallResolved(q)]
        /\ UNCHANGED <<pins, gate, flag, persisted, admin, memory, cache>>

(***************************************************************************)
(* The world around the handlers                                           *)
(***************************************************************************)

\* The client goes away and the server drops the suspended handler.
HangUp(r) ==
    /\ Suspended(rq[r])
    /\ rq' = [rq EXCEPT ![r] = Vacant]
    /\ UNCHANGED <<pins, gate, flag, persisted, admin, memory, cache, audit>>

\* The sweep deletes rows past their time to live, at a boot and once a day.
\* The configured time may be as short as a second and the sweep knows
\* nothing of requests: no row is safe from it.
Expire(s, i) ==
    /\ cache[<<s, i>>] = "held"
    /\ cache' = [cache EXCEPT ![<<s, i>>] = "expired"]
    /\ UNCHANGED <<pins, gate, flag, persisted, admin, rq, memory, audit>>

ChangeSetting ==
    /\ \E a \in Admins : Persist(a) \/ \E v \in BOOLEAN : SetFlag(a, v)
    /\ UNCHANGED <<pins, rq, memory, cache, audit>>

\* The daemon dies and is started again; no handler survives.
Restart ==
    /\ Reboot
    /\ ForgetPins
    /\ memory' \in MemoryChoices
    /\ rq' = [r \in Slots |-> Vacant]
    /\ UNCHANGED <<cache, audit>>

(***************************************************************************)
(* Specification                                                           *)
(***************************************************************************)

Init ==
    /\ PinInit
    /\ SettingsInit
    /\ memory \in MemoryChoices
    /\ cache = [p \in Pairs |-> "never"]
    /\ audit = [p \in Pairs |-> "none"]
    /\ rq = [r \in Slots |-> Vacant]

\* A handler's own steps.
Step(r) ==
    \/ CcrStage(r)
    \/ CompressBlock(r)
    \/ RecordDecisions(r)
    \/ StoreEntry(r)
    \/ Dispatch(r)
    \/ Relay(r)
    \/ PostFails(r)
    \/ PostAnswers(r)
    \/ Resolve(r)
    \/ BumpRetrieve(r)

Next ==
    \/ \E r \in Slots, b \in Bodies : Arrive(r, b)
    \/ \E r \in Slots : Step(r) \/ HangUp(r)
    \/ \E s \in Sessions, i \in Ids : Expire(s, i)
    \/ ChangeSetting
    \/ Restart

Spec == Init /\ [][Next]_vars

\* The runtime polls every ready handler, and the client library bounds each
\* upstream call by its connect and read timeouts (lib.rs:92-118).
FairSpec == Spec /\ \A r \in Slots : WF_vars(Step(r))

(***************************************************************************)
(* Properties                                                              *)
(***************************************************************************)

TypeOK ==
    /\ PinTypeOK
    /\ SettingsTypeOK
    /\ memory \in MemoryChoices
    /\ cache \in [Pairs -> {"never", "held", "expired"}]
    /\ audit \in [Pairs -> {"none", "logged", "pinned"}]
    /\ rq \in [Slots -> Request]

\* However the retrieve loop ends (no call, a mixed response, rounds
\* exhausted, upstream lost), the client never sees a call to a tool only
\* the proxy can answer (ccr_forward.rs:127-137, 168-179).
LoopAnswersAreClean ==
    \A r \in Slots :
        rq[r].pc = "done" /\ rq[r].via = "loop" => rq[r].resp.calls = <<>>

\* The usage row of a request sums what its rounds cost: never less than was
\* billed, and exactly that unless the loop lost its upstream midway.
UsageIsBooked ==
    \A r \in Slots : rq[r].pc = "done" =>
        /\ rq[r].booked >= rq[r].billed
        /\ ~rq[r].cut => rq[r].booked = rq[r].billed

\* Billed tokens come from the provider's usage blocks or not at all
\* (server.rs:384-386): the row never books what was not charged.
NothingUnbilledIsBooked ==
    \A r \in Slots : rq[r].pc = "done" => rq[r].booked <= rq[r].billed

\* The loop scopes its cache reads the way the compress step scoped its
\* writes (forward.rs:115-117).
ReadsAreScopedLikeWrites ==
    \A r \in Slots :
        rq[r].pc = "resolve" => ReadSession(rq[r]) = WriteSession(rq[r])

\* Made-up ids and misses never consume registry capacity: what is tallied
\* was in the cache under that session (ccr_forward.rs:330-336).
OnlyCachedBlocksAreTallied ==
    \A p \in Pairs : pins[p] > 0 => cache[p] # "never"

\* A request that arrives after a block of its session was pinned sends the
\* block verbatim, whatever the other requests retrieve in between
\* (mod.rs:209-213: one prefix invalidation, not two).
PinnedBlocksStayVerbatim ==
    \A r \in Slots : rq[r].marks \cap rq[r].late = {}

\* CCR is at work on the request or has been.
Engaged(q) ==
    \/ q.marks # {}
    \/ q.tool
    \/ q.pc \in {"scan", "round", "resolve", "bump"}

\* A daemon whose boot gate or missing memory store vetoes CCR never rewrites
\* a body, offers the tool or enters the loop, whatever is PUT or persisted
\* (lib.rs:218-240, server.rs:126-135; `expect("checked above")` at 295).  The
\* doc of Config.ccr promises the row the opposite: PersistedValueWins.
NoCcrAgainstTheGate ==
    \A r \in Slots : Engaged(rq[r]) => gate /\ memory

\* The decision log never forgets that a block was pinned: updates of
\* concurrent requests land in any order (store.rs:560-571).
PinnedRowsAreSticky ==
    [][\A p \in Pairs : audit[p] = "pinned" => audit'[p] = "pinned"]_audit

\* A block retrieved often enough to be pinned is exempted from compression
\* for the remainder of the session (mod.rs:194-195): once the log says that it
\* is pinned, no request of the session turns it into a marker again.
PinsLastTheSession ==
    [][\A r \in Slots : \A i \in rq'[r].marks \ rq[r].marks :
          audit[<<rq'[r].body.session, i>>] # "pinned"]_vars

\* A model that calls ptk_retrieve is always answered by the proxy and never
\* leaks an unresolved call to the client (mod.rs:726-729).  Stated for
\* bodies that were compressed, so that there is something to retrieve.
RetrieveCallsNeverLeak ==
    \A r \in Slots :
        rq[r].pc = "done" /\ rq[r].tool /\ rq[r].marks # {} => rq[r].resp.calls = <<>>

\* Every request ends: the model cannot keep the loop going, and no await
\* waits for another request.
EveryRequestEnds == \A r \in Slots : Suspended(rq[r]) ~> ~Suspended(rq[r])
=============================================================================
