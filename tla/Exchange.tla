------------------------------ MODULE Exchange ------------------------------
(***************************************************************************)
(* What the proxy promises of an exchange with a client, whatever happens  *)
(* upstream: it is answered at most once, and the usage row that accounts  *)
(* for it is written after the answer is complete, at most once.  A client *)
(* that leaves before its answer is complete leaves no row.                *)
(***************************************************************************)
EXTENDS Naturals

CONSTANT Clients

VARIABLES
    phase,  \* idle, open, answered, or left: the answer was never completed
    rows    \* usage rows written for the exchange

exchangeVars == <<phase, rows>>

ExchangeInit ==
    /\ phase = [r \in Clients |-> "idle"]
    /\ rows = [r \in Clients |-> 0]

Open(r) ==
    /\ phase[r] # "open"
    /\ phase' = [phase EXCEPT ![r] = "open"]
    /\ rows' = [rows EXCEPT ![r] = 0]

Close(r, how) ==
    /\ phase[r] = "open"
    /\ phase' = [phase EXCEPT ![r] = how]
    /\ UNCHANGED rows

Book(r) ==
    /\ phase[r] = "answered"
    /\ rows[r] = 0
    /\ rows' = [rows EXCEPT ![r] = 1]
    /\ UNCHANGED phase

\* A restart forgets the exchanges, not the rows, which are on disk; they
\* are no longer counted against a client.
Forget ==
    /\ phase' = [r \in Clients |-> "idle"]
    /\ rows' = [r \in Clients |-> 0]

ExchangeNext ==
    \/ \E r \in Clients :
          \/ Open(r)
          \/ \E how \in {"answered", "left"} : Close(r, how)
          \/ Book(r)
    \/ Forget

ExchangeSpec == ExchangeInit /\ [][ExchangeNext]_exchangeVars
=============================================================================
