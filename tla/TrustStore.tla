----------------------------- MODULE TrustStore -----------------------------
(***************************************************************************)
(* Project filters and pipelines rewrite what the agent sees, so they are  *)
(* loaded only once the user reviewed them (src/hooks/trust.rs).  The      *)
(* store maps a file to the hash of the reviewed content.  Each command of *)
(* the CLI is a process; the store is read, changed and rewritten in place *)
(* without a lock, and anybody may edit the files at any time.             *)
(*                                                                         *)
(* A content stands for its hash.                                          *)
(***************************************************************************)
EXTENDS Naturals

CONSTANTS
    Users,           \* the processes
    Paths,           \* the gated files
    GatedContents,        \* what a file may hold
    Unusable,        \* of these, what does not parse or has nothing active
    Undecodable,     \* ... and what is no UTF-8
    MaxVisits        \* bound on the commands that are run

Missing == "missing"
NoTrust == "no entry"

ASSUME TrustAssumption ==
    /\ Missing \notin GatedContents /\ NoTrust \notin GatedContents
    /\ Unusable \subseteq GatedContents /\ Undecodable \subseteq GatedContents
    /\ MaxVisits \in Nat

EmptyStore == [f \in Paths |-> NoTrust]

VARIABLES
    gated,           \* the files
    store,           \* the trust store
    broken,          \* the store is truncated or torn: it does not parse
    user,            \* the processes
    visits,          \* how many commands were started
    reviewed,        \* ghost: the contents confirmed, by path
    loaded,          \* ghost: the contents that were loaded, by path
    decided,         \* ghost: the store, had no change ever been lost
    calm             \* ghost: no write of the store met another or a crash

trustVars == <<gated, store, broken, user, visits, reviewed, loaded, decided, calm>>

\* A process: its step, the path and the bytes it read, its copy of the
\* store, whether it removes or adds the path, and whether nobody truncated
\* the store since it was read, or wrote it since its truncation.
AtRest == [at |-> "rest", path |-> Missing, bytes |-> Missing, copy |-> EmptyStore,
           removes |-> FALSE, current |-> FALSE, alone |-> FALSE]

Goes(p, record) == user' = [user EXCEPT ![p] = record]

\* A process starts its next command.
Visits(p) == user[p].at = "rest" /\ visits < MaxVisits /\ visits' = visits + 1

\* Anybody saves, replaces or deletes a file.
EditGated ==
    /\ \E f \in Paths, c \in GatedContents \cup {Missing} : gated' = [gated EXCEPT ![f] = c]
    /\ UNCHANGED <<store, broken, user, reviewed, loaded, decided, calm, visits>>

(***************************************************************************)
(* Loading: check_trust_with_content                                       *)
(***************************************************************************)

\* The bytes are read once ...
LoadReads(p) ==
    /\ Visits(p)
    /\ \E f \in Paths :
          /\ gated[f] # Missing
          /\ Goes(p, [AtRest EXCEPT !.at = "check", !.path = f, !.bytes = gated[f]])
    /\ UNCHANGED <<gated, store, broken, reviewed, loaded, decided, calm>>

\* Mutant: once the hash matches, the file is read again.
LoadedAgain(p) == gated[user[p].path]

\* ... and what was hashed is what is used.
LoadedContent(p) == user[p].bytes

\* A store that does not parse trusts nothing; nor is a path trusted that
\* cannot be resolved any more.
TrustedNow(f, c) == ~broken /\ store[f] = c

LoadChecks(p) ==
    /\ user[p].at = "check"
    /\ LET f == user[p].path IN
          loaded' = IF /\ gated[f] # Missing
                       /\ TrustedNow(f, user[p].bytes)
                       /\ user[p].bytes \notin Undecodable
                    THEN loaded \cup {<<f, LoadedContent(p)>>} ELSE loaded
    /\ Goes(p, AtRest)
    /\ UNCHANGED <<gated, store, broken, reviewed, decided, calm, visits>>

(***************************************************************************)
(* run_trust and run_untrust                                               *)
(***************************************************************************)

\* The file is read and shown, unless there is nothing to show.
TrustReads(p) ==
    /\ Visits(p)
    /\ \E f \in Paths :
          /\ gated[f] \notin Unusable \cup {Missing}
          /\ Goes(p, [AtRest EXCEPT !.at = "known", !.path = f, !.bytes = gated[f]])
    /\ UNCHANGED <<gated, store, broken, reviewed, loaded, decided, calm>>

\* check_trust reads the file again: nothing to do if it is trusted.
TrustAlready(p) ==
    /\ user[p].at = "known"
    /\ LET f == user[p].path
           trusted == gated[f] # Missing /\ TrustedNow(f, gated[f])
                         /\ gated[f] \notin Undecodable IN
          Goes(p, IF trusted THEN AtRest ELSE [user[p] EXCEPT !.at = "ask"])
    /\ UNCHANGED <<gated, store, broken, reviewed, loaded, decided, calm, visits>>

\* The user says no ...
TrustDeclined(p) ==
    /\ user[p].at = "ask"
    /\ Goes(p, AtRest)
    /\ UNCHANGED <<gated, store, broken, reviewed, loaded, decided, calm, visits>>

\* ... or yes, to the content that was shown.
TrustConfirmed(p) ==
    /\ user[p].at = "ask"
    /\ reviewed' = reviewed \cup {<<user[p].path, user[p].bytes>>}
    /\ Goes(p, [user[p] EXCEPT !.at = "store"])
    /\ UNCHANGED <<gated, store, broken, loaded, decided, calm, visits>>

\* untrust_filter begins; a path that is gone cannot be resolved.
UntrustBegins(p) ==
    /\ Visits(p)
    /\ \E f \in Paths :
          /\ gated[f] # Missing
          /\ Goes(p, [AtRest EXCEPT !.at = "store", !.path = f, !.removes = TRUE])
    /\ UNCHANGED <<gated, store, broken, reviewed, loaded, decided, calm>>

\* Mutant: an insertion starts from an empty store.
ChangedAlone(held, u) ==
    [f \in Paths |-> IF f = u.path THEN IF u.removes THEN NoTrust ELSE u.bytes
                     ELSE IF u.removes THEN held[f] ELSE NoTrust]

\* The store with the path's entry added, replaced or removed.
Changed(held, u) == [held EXCEPT ![u.path] = IF u.removes THEN NoTrust ELSE u.bytes]

\* read_store().unwrap_or_default(): a store that does not parse is an empty
\* one.  A trust resolves the path first and fails if the file is gone by
\* now; an untrust that finds no entry writes nothing.
StoreRead(p) ==
    /\ user[p].at = "store"
    /\ LET held == IF broken THEN EmptyStore ELSE store
           f == user[p].path IN
       IF \/ ~user[p].removes /\ gated[f] = Missing
          \/ user[p].removes /\ held[f] = NoTrust
       THEN Goes(p, AtRest)
       ELSE Goes(p, [user[p] EXCEPT !.at = "truncate", !.copy = Changed(held, user[p]),
                                    !.current = ~broken])
    /\ UNCHANGED <<gated, store, broken, reviewed, loaded, decided, calm, visits>>

\* write_store truncates the file ...
StoreTruncated(p) ==
    /\ user[p].at = "truncate"
    /\ broken' = TRUE /\ store' = EmptyStore
    /\ user' = [q \in Users |->
                   IF q = p THEN [user[q] EXCEPT !.at = "write", !.alone = TRUE]
                            ELSE [user[q] EXCEPT !.current = FALSE]]
    /\ calm' = (calm /\ user[p].current /\ \A q \in Users : user[q].at # "write")
    /\ UNCHANGED <<gated, reviewed, loaded, decided, visits>>

\* ... and writes it.  After another's write in between, the longer text's
\* tail may stay behind, and nothing parses.
StoreWritten(p) ==
    /\ user[p].at = "write"
    /\ \/ broken' = FALSE /\ store' = user[p].copy
       \/ ~user[p].alone /\ broken' = TRUE /\ store' = EmptyStore
    /\ user' = [q \in Users |->
                   IF q = p THEN AtRest ELSE [user[q] EXCEPT !.alone = FALSE]]
    /\ decided' = [decided EXCEPT ![user[p].path] =
                      IF user[p].removes THEN NoTrust ELSE user[p].bytes]
    /\ UNCHANGED <<gated, reviewed, loaded, calm, visits>>

\* A process dies; one that was writing leaves a truncated store.
UserDies(p) ==
    /\ user[p].at # "rest"
    /\ calm' = (calm /\ user[p].at # "write")
    /\ Goes(p, AtRest)
    /\ UNCHANGED <<gated, store, broken, reviewed, loaded, decided, visits>>

(***************************************************************************)
(* Specification                                                           *)
(***************************************************************************)

TrustInit ==
    /\ gated \in [Paths -> GatedContents \cup {Missing}]
    /\ store = EmptyStore /\ broken = FALSE
    /\ user = [p \in Users |-> AtRest] /\ visits = 0
    /\ reviewed = {} /\ loaded = {} /\ decided = EmptyStore /\ calm = TRUE

UserStep(p) ==
    \/ LoadReads(p) \/ LoadChecks(p)
    \/ TrustReads(p) \/ TrustAlready(p) \/ TrustDeclined(p) \/ TrustConfirmed(p)
    \/ UntrustBegins(p) \/ StoreRead(p) \/ StoreTruncated(p) \/ StoreWritten(p)
    \/ UserDies(p)

TrustNext == EditGated \/ \E p \in Users : UserStep(p)

TrustSpec == TrustInit /\ [][TrustNext]_trustVars

(***************************************************************************)
(* Properties                                                              *)
(***************************************************************************)

\* Whatever is loaded from a gated file, the user confirmed exactly these
\* bytes for this file, however often the file changed around the review or
\* the load, and whatever concurrent commands did to the store
\* (trust.rs:105-166 and 169-182, and the loops of run_trust).
OnlyReviewedIsLoaded == loaded \subseteq reviewed

\* As long as no two writes overlap and no process dies in one, the store is
\* what the finished trusts and untrusts made it: none of them undoes another
\* (trust.rs:169-193).
StoreIsWhatWasDecided == calm /\ ~broken => store = decided
=============================================================================
