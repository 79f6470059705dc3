------------------------------- MODULE Relay --------------------------------
(***************************************************************************)
(* The single-shot relay (proxy/src/forward.rs `relay`) from the request's *)
(* arrival to its usage row (server.rs `handle`, `record_usage`): retries  *)
(* of transient failures, the buffered and the streamed body, the one-shot *)
(* channel that carries a stream's usage, and the credential lent to a     *)
(* request that brings none (relayed_auth.rs).                             *)
(*                                                                         *)
(* Exchanges run concurrently.  A slot holds one exchange and what it      *)
(* leaves behind: the task that writes its usage row outlives the handler. *)
(***************************************************************************)
EXTENDS Naturals

CONSTANTS
    Slots,           \* exchanges the daemon carries at once
    Credentials,     \* auth headers clients send
    NoCredential,    \* a request without one
    Borrowing,       \* config.relay_borrowing
    Retries,         \* config.upstream_retries
    MaxUsage         \* bound: usage updates in one response

ASSUME RelayAssumption ==
    /\ NoCredential \notin Credentials
    /\ Borrowing \in BOOLEAN
    /\ Retries \in Nat
    /\ MaxUsage \in Nat

VARIABLES
    held,  \* RelayedAuth: the credential last seen, in memory only
    ex     \* the exchange in each slot

relayVars == <<held, ex>>

\* What became of an upstream call: a success, an error status, one of the
\* statuses worth retrying, no response in time or no connection, which is
\* worth retrying too, or no usable response.  The client sees the last two as
\* the proxy's own 502.
Classes == {"ok", "rejected", "transient", "unanswered", "failed"}

\* What a later attempt may cure.
Passing == {"transient", "unanswered"}

OpenStates == {"send", "await", "backoff", "buffer", "stream"}

Exchanged ==
    [pc : OpenStates \cup {"none", "done", "gone", "broken"},
     cred : Credentials \cup {NoCredential},
     stream : BOOLEAN,        \* the client asked for a stream
     attempt : 0 .. Retries,
     sentAs : Credentials \cup {NoCredential},  \* the last attempt's credential
     class : Classes,         \* of the last attempt
     usage : 0 .. MaxUsage,   \* what the stream has reported so far
     charged : 0 .. MaxUsage, \* what the provider charged for the last attempt
     whole : BOOLEAN,         \* the client was handed the whole response
     task : {"none", "waiting", "ready", "refused"},  \* the task that writes the row
     row : [class : Classes, usage : 0 .. MaxUsage],  \* the UsageOutcome
     rows : Nat]              \* usage rows written

Received(c, s) ==
    [pc |-> "send", cred |-> c, stream |-> s, attempt |-> 0,
     sentAs |-> NoCredential, class |-> "failed", usage |-> 0, charged |-> 0,
     whole |-> FALSE, task |-> "none", row |-> [class |-> "failed", usage |-> 0],
     rows |-> 0]

Vacant == [Received(NoCredential, FALSE) EXCEPT !.pc = "none"]

IsOpen(q) == q.pc \in OpenStates

\* An exchange without an answer; handler and body are gone with all they held.
Dropped(how) == [Vacant EXCEPT !.pc = how]

\* Nothing of the exchange is left to do.  A task waits for the stream's
\* outcome, is ready to write the row, or has been refused it by SQLite.
Settled(q) == ~IsOpen(q) /\ q.task \notin {"waiting", "ready"}

(***************************************************************************)
(* The request                                                             *)
(***************************************************************************)

\* The credential of a request is remembered before the request is sent on.
Receive(r, c, s) ==
    /\ Settled(ex[r])
    /\ held' = IF c = NoCredential THEN held ELSE c
    /\ ex' = [ex EXCEPT ![r] = Received(c, s)]

\* Mutant: every request is sent with the remembered credential.
LentAlways(c) == IF Borrowing THEN held ELSE c

\* `lend_if_missing`: only a request without a credential borrows.
Lent(c) == IF c = NoCredential /\ Borrowing THEN held ELSE c

\* One attempt.  What is lent is looked up again for each.
Send(r) ==
    /\ ex[r].pc = "send"
    /\ ex' = [ex EXCEPT ![r].pc = "await", ![r].sentAs = Lent(ex[r].cred)]
    /\ UNCHANGED held

BackOff(r) ==
    /\ ex[r].pc = "backoff"
    /\ ex' = [ex EXCEPT ![r].pc = "send"]
    /\ UNCHANGED held

\* Mutant: one attempt too few.
MayRetryOneLess(q) == q.attempt + 1 < Retries

\* Mutant: one attempt too many.
MayRetryOneMore(q) == q.attempt <= Retries

MayRetry(q) == q.attempt < Retries

\* Mutant: the attempts are not counted.
RetriedUncounted(q) == [q EXCEPT !.pc = "backoff"]

Retried(q) == [q EXCEPT !.pc = "backoff", !.attempt = @ + 1]

(***************************************************************************)
(* The response                                                            *)
(***************************************************************************)

\* An answer has gone out under a status.
Delivered(q, class, usage) ==
    [Vacant EXCEPT !.pc = "done", !.attempt = q.attempt, !.charged = q.charged,
                   !.whole = q.whole, !.class = class,
                   !.row = [class |-> class, usage |-> usage]]

\* Mutant: an upstream that cannot be reached leaves no row.
FinishedUnbooked(q, class, usage) ==
    [Delivered(q, class, usage) EXCEPT !.task = IF class = "failed" THEN "none" ELSE "ready"]

\* The outcome is known and the task that writes its row can go on.
Finished(q, class, usage) == [Delivered(q, class, usage) EXCEPT !.task = "ready"]

\* The headers are in.  A stream's handler returns here: the response goes
\* out, and a task waits for the outcome.
Answers(r) ==
    LET q == ex[r] IN
    /\ q.pc = "await"
    /\ \E class \in {"ok", "rejected", "transient"} :
          ex' = [ex EXCEPT ![r] =
             IF class \in Passing /\ MayRetry(q) THEN Retried(q)
             ELSE IF q.stream /\ class = "ok"
             THEN [q EXCEPT !.pc = "stream", !.class = class, !.task = "waiting"]
             ELSE [q EXCEPT !.pc = "buffer", !.class = class]]
    /\ UNCHANGED held

\* No response: a timeout or a refused connection is retried, anything else
\* is not.
SendFails(r) ==
    LET q == ex[r] IN
    /\ q.pc = "await"
    /\ \E class \in {"unanswered", "failed"} :
          ex' = [ex EXCEPT ![r] =
             IF class \in Passing /\ MayRetry(q) THEN Retried(q) ELSE Finished(q, class, 0)]
    /\ UNCHANGED held

\* An error status charges nothing.
Charges(q) == IF q.class = "ok" THEN 0 .. MaxUsage ELSE {0}

BodyRead(r) ==
    LET q == ex[r] IN
    /\ q.pc = "buffer"
    /\ \E u \in Charges(q) :
          ex' = [ex EXCEPT ![r] =
                    Finished([q EXCEPT !.charged = u, !.whole = TRUE], q.class, u)]
    /\ UNCHANGED held

\* Mutant: a body that breaks off is booked under the status it began with.
BrokenOffAsBegun(q) == Finished(q, q.class, 0)

\* The client gets a 502 instead of half a body.
BrokenOff(q) == Finished(q, "failed", 0)

BodyFails(r) ==
    LET q == ex[r] IN
    /\ q.pc = "buffer"
    /\ \E u \in Charges(q) : ex' = [ex EXCEPT ![r] = BrokenOff([q EXCEPT !.charged = u])]
    /\ UNCHANGED held

\* Chunks are handed on as they come; some of them report usage.
StreamReports(r) ==
    LET q == ex[r] IN
    /\ q.pc = "stream"
    /\ q.usage < MaxUsage
    /\ ex' = [ex EXCEPT ![r].usage = @ + 1, ![r].charged = @ + 1]
    /\ UNCHANGED held

\* The upstream ends; the generator sends the outcome through the channel.
StreamEnds(r) ==
    LET q == ex[r] IN
    /\ q.pc = "stream"
    /\ ex' = [ex EXCEPT ![r] = Finished([q EXCEPT !.whole = TRUE], q.class, q.usage)]
    /\ UNCHANGED held

\* The upstream breaks.  The generator yields the error before it sends an
\* outcome, and the server drops a body that yields one: the code after the
\* yield never runs and the channel closes empty.
StreamBreaks(r) ==
    /\ ex[r].pc = "stream"
    /\ ex' = [ex EXCEPT ![r] = Dropped("broken")]
    /\ UNCHANGED held

\* The client goes away; handler or body is dropped with its end of the channel.
HangUp(r) ==
    /\ IsOpen(ex[r])
    /\ ex' = [ex EXCEPT ![r] = Dropped("gone")]
    /\ UNCHANGED held

(***************************************************************************)
(* The usage row                                                           *)
(***************************************************************************)

\* Mutant: the task writes its row and stays.
WrittenAgain(q) == [q EXCEPT !.rows = @ + 1]

Written(q) == [q EXCEPT !.task = "none", !.rows = @ + 1]

\* One INSERT; a row SQLite refuses is dropped with a warning.
Record(r) ==
    LET q == ex[r] IN
    /\ q.task = "ready"
    /\ \/ ex' = [ex EXCEPT ![r] = Written(q)]
       \/ ex' = [ex EXCEPT ![r].task = "refused"]
    /\ UNCHANGED held

\* The daemon dies or shuts down; rows not yet written are lost, and so is
\* the credential.
Restart ==
    /\ held' = NoCredential
    /\ ex' = [r \in Slots |-> Vacant]

(***************************************************************************)
(* Specification                                                           *)
(***************************************************************************)

Init ==
    /\ held = NoCredential
    /\ ex = [r \in Slots |-> Vacant]

Step(r) ==
    \/ Send(r)
    \/ BackOff(r)
    \/ Answers(r)
    \/ SendFails(r)
    \/ BodyRead(r)
    \/ BodyFails(r)
    \/ StreamReports(r)
    \/ StreamEnds(r)
    \/ StreamBreaks(r)
    \/ Record(r)

Next ==
    \/ \E r \in Slots, c \in Credentials \cup {NoCredential}, s \in BOOLEAN : Receive(r, c, s)
    \/ \E r \in Slots : Step(r) \/ HangUp(r)
    \/ Restart

Spec == Init /\ [][Next]_relayVars

\* The runtime polls what is ready; connect and read timeouts bound every
\* await on the upstream (lib.rs:92-118).
FairSpec == Spec /\ \A r \in Slots : WF_relayVars(Step(r))

(***************************************************************************)
(* Properties                                                              *)
(***************************************************************************)

TypeOK ==
    /\ held \in Credentials \cup {NoCredential}
    /\ ex \in [Slots -> Exchanged]

\* A request that authenticates itself is sent as itself on every attempt,
\* whatever others relay between its retries (relayed_auth.rs:65-68: "the key
\* it sent is the key it gets billed on").
OwnCredentialIsKept ==
    \A r \in Slots :
        ex[r].cred # NoCredential /\ ex[r].pc \in {"await", "backoff", "buffer", "stream"}
            => ex[r].sentAs = ex[r].cred

\* A failure that may pass, a transient status as well as a timeout or a refused
\* connection, reaches the client only when the retries are used up.
RetriesAreSpent ==
    \A r \in Slots :
        ex[r].pc \in {"buffer", "done"} /\ ex[r].class \in Passing => ex[r].attempt = Retries

\* A row never books more than the provider charged, books a whole answer
\* exactly, and books a success only for a whole answer (server.rs:384-386,
\* forward.rs:478-481: never "booked as a clean success").
RowsTellTheTruth ==
    \A r \in Slots : ex[r].rows > 0 =>
        /\ ex[r].row.usage <= ex[r].charged
        /\ ex[r].whole => ex[r].row.usage = ex[r].charged
        /\ ex[r].row.class = "ok" => ex[r].whole

\* An exchange the daemon brought to an end, well or badly, has its row once
\* its task is over, unless SQLite refuses it.
EndedExchangesAreBooked ==
    \A r \in Slots :
        ex[r].pc = "done" /\ Settled(ex[r]) => ex[r].rows = 1 \/ ex[r].task = "refused"

\* A stream the upstream broke is recorded as a failure with the break
\* captured (forward.rs:478-481, 522-526).
BrokenStreamsAreBooked ==
    \A r \in Slots :
        ex[r].pc = "broken" => ex[r].task = "ready" \/ ex[r].rows = 1

\* Every exchange settles: retries run out, streams end or break, the row is
\* written or dropped.
EveryExchangeSettles == \A r \in Slots : ~Settled(ex[r]) ~> Settled(ex[r])

(***************************************************************************)
(* The relay implements Exchange                                           *)
(***************************************************************************)

PhaseOf(q) ==
    IF IsOpen(q) THEN "open"
    ELSE IF q.pc = "done" THEN "answered"
    ELSE IF q.pc = "none" THEN "idle" ELSE "left"

Promise == INSTANCE Exchange WITH
    Clients <- Slots,
    phase <- [r \in Slots |-> PhaseOf(ex[r])],
    rows <- [r \in Slots |-> ex[r].rows]

\* Each exchange is answered at most once and booked at most once, after its
\* answer is complete, whatever the upstream, the client and the other
\* exchanges do.
ImplementsExchange == Promise!ExchangeSpec
=============================================================================
