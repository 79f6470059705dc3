----------------------------- MODULE Pipelines -----------------------------
(***************************************************************************)
(* Installing, trying, promoting and publishing a shared pipeline          *)
(* (src/core/pipeline_cmd.rs, pipeline_remote.rs and pipeline_config.rs).  *)
(* Commands run as separate processes over four files of one pipeline      *)
(* name: its live file, its shadow file, the evaluation state and the      *)
(* install ledger.  None of the files is locked, the ledger is rewritten   *)
(* in place, and a command may die between any two of its steps.           *)
(***************************************************************************)
EXTENDS Naturals, FiniteSets

CONSTANTS
    Installers,      \* the processes
    Texts,           \* pipeline files
    Commanding,      \* those that run a command to obtain credentials
    Invalid,         \* those that do not validate
    Fetches,         \* what a source may yield, see FetchOK
    MaxCommands      \* bound on the commands that are run

Absent == "absent"
Torn == [torn |-> TRUE]
NoSha == "no sha"
NoSource == "no source"

\* A file or standard input has no origin worth recording, an URL has one
\* without a commit, a repository one with the commit that fixes the text.
FetchOK(f) == f.text \in Texts /\ DOMAIN f = {"text", "pin"}

ASSUME PipelinesAssumption ==
    /\ Commanding \subseteq Texts /\ Invalid \subseteq Texts
    /\ \A f \in Fetches : FetchOK(f)
    /\ Absent \notin Texts
    /\ MaxCommands \in Nat

Pins == {f.pin : f \in Fetches}
Shas == Pins \ {NoSource, NoSha}

\* The one entry of the ledger that belongs to this name.
Entry == [sha : Shas \cup {NoSha}, published : BOOLEAN]
NoEntry == [sha |-> NoSha, published |-> FALSE]

VARIABLES
    live,            \* <config>/pipelines/<name>.toml
    shadow,          \* <config>/pipelines/shadow/<name>.toml
    candidate,       \* the evaluation state names this pipeline
    ledger,          \* its ledger entry, Torn from truncation to write
    inst,            \* the processes
    begun,           \* how many commands were started
    shown,           \* ghost: the texts whose rules `add` has shown
    placed,          \* ghost: the text the user last put in place by hand
    recorded,        \* ghost: the entry, had no record ever been lost
    whole            \* ghost: no write of the ledger met another or a crash

pipeVars == <<live, shadow, candidate, ledger, inst, begun, shown, placed, recorded, whole>>

\* A process: where it is, the text and pin it installs, its ledger update and
\* copy, and whether nobody truncated the ledger since it was read, or wrote
\* it since its truncation.
Resting == [pc |-> "rest", text |-> Absent, pin |-> NoSource, publish |-> FALSE,
            copy |-> NoEntry, fresh |-> FALSE, clean |-> FALSE]

Moves(p, record) == inst' = [inst EXCEPT ![p] = record]

Ended(p) == Moves(p, Resting)

\* A process starts its next command.
Begins(p) == inst[p].pc = "rest" /\ begun < MaxCommands /\ begun' = begun + 1

\* What other commands leave alone.
Files3 == <<live, shadow, candidate>>
Ghosts == <<shown, placed, recorded, whole>>

(***************************************************************************)
(* The ledger                                                              *)
(***************************************************************************)

\* Mutant: the update replaces the entry.
EntryReplaced(entry, update) ==
    [sha |-> IF update.pin \in Shas THEN update.pin ELSE NoSha,
     published |-> update.publish]

\* ledger_upsert: a key the update does not name keeps its value.
EntryUpserted(entry, update) ==
    [sha |-> IF update.pin \in Shas THEN update.pin ELSE entry.sha,
     published |-> entry.published \/ update.publish]

\* read_ledger: a file that does not parse is an empty ledger.
LedgerRead(p) ==
    /\ inst[p].pc = "record"
    /\ Moves(p, [inst[p] EXCEPT
                    !.pc = "truncate",
                    !.copy = EntryUpserted(IF ledger = Torn THEN NoEntry ELSE ledger, inst[p]),
                    !.fresh = ledger # Torn])
    /\ UNCHANGED <<Files3, begun, ledger, Ghosts>>

\* ledger_write begins: the file is truncated.
LedgerTruncated(p) ==
    /\ inst[p].pc = "truncate"
    /\ ledger' = Torn
    /\ inst' = [q \in Installers |->
                   IF q = p THEN [inst[q] EXCEPT !.pc = "write", !.clean = TRUE]
                            ELSE [inst[q] EXCEPT !.fresh = FALSE]]
    /\ whole' = (whole /\ inst[p].fresh /\ \A q \in Installers : inst[q].pc # "write")
    /\ UNCHANGED <<Files3, begun, shown, placed, recorded>>

\* ... and ends.  After another's write in between, the longer text's tail
\* may stay behind, and nothing parses.
LedgerWritten(p) ==
    /\ inst[p].pc = "write"
    /\ ledger' \in {inst[p].copy} \cup (IF inst[p].clean THEN {} ELSE {Torn})
    /\ inst' = [q \in Installers |->
                   IF q = p THEN Resting ELSE [inst[q] EXCEPT !.clean = FALSE]]
    /\ recorded' = [sha |-> IF inst[p].pin \in Shas THEN inst[p].pin ELSE recorded.sha,
                    published |-> recorded.published \/ inst[p].publish]
    /\ UNCHANGED <<Files3, begun, shown, placed, whole>>

(***************************************************************************)
(* run_add                                                                 *)
(***************************************************************************)

\* Mutant: a text with credential commands is accepted.
AcceptableIfValid(text) == text \notin Invalid

\* `add` refuses a text with credential commands, or with errors.
Acceptable(text) == text \notin Commanding /\ text \notin Invalid

\* The text is fetched and checked, and its rules are shown.
AddShows(p) ==
    /\ Begins(p)
    /\ \E f \in Fetches :
          /\ Acceptable(f.text)
          /\ shown' = shown \cup {f.text}
          /\ Moves(p, [Resting EXCEPT !.pc = "compare", !.text = f.text, !.pin = f.pin])
    /\ UNCHANGED <<Files3, ledger, placed, recorded, whole>>

\* Once nothing is left to do but to record a source, if there is one.
Recording(record) ==
    IF record.pin = NoSource THEN Resting
    ELSE [Resting EXCEPT !.pc = "record", !.pin = record.pin]

\* The text is the live one: nothing changes but the record.
AddIdentical(p) ==
    /\ inst[p].pc = "compare" /\ live = inst[p].text
    /\ Moves(p, Recording(inst[p]))
    /\ UNCHANGED <<Files3, begun, ledger, Ghosts>>

\* The review: the change against the live text.
AddReview(p) ==
    /\ inst[p].pc = "compare" /\ live # inst[p].text
    /\ Moves(p, [inst[p] EXCEPT !.pc = "choose"])
    /\ UNCHANGED <<Files3, begun, ledger, Ghosts>>

\* choose_install_mode: a menu, --force or --shadow, or no answer.
AddQuit(p) ==
    /\ inst[p].pc = "choose"
    /\ Ended(p)
    /\ UNCHANGED <<Files3, begun, ledger, Ghosts>>

AddLive(p) ==
    /\ inst[p].pc = "choose"
    /\ live' = inst[p].text
    /\ Moves(p, Recording(inst[p]))
    /\ UNCHANGED <<shadow, candidate, ledger, begun, Ghosts>>

AddShadow(p) ==
    /\ inst[p].pc = "choose"
    /\ shadow' = inst[p].text
    /\ Moves(p, [inst[p] EXCEPT !.pc = "arm"])
    /\ UNCHANGED <<live, candidate, ledger, begun, Ghosts>>

\* set_eval_candidate, then the record.
AddArms(p) ==
    /\ inst[p].pc = "arm"
    /\ candidate' = TRUE
    /\ Moves(p, Recording(inst[p]))
    /\ UNCHANGED <<live, shadow, ledger, begun, Ghosts>>

(***************************************************************************)
(* run_promote, run_eval and `share --gist`                                *)
(***************************************************************************)

\* The shadow text is read, validated and shown against the live one.
PromoteShows(p) ==
    /\ Begins(p) /\ shadow # Absent /\ shadow \notin Invalid
    /\ Moves(p, [Resting EXCEPT !.pc = "promote", !.text = shadow])
    /\ UNCHANGED <<Files3, ledger, Ghosts>>

PromoteDeclined(p) ==
    /\ inst[p].pc = "promote"
    /\ Ended(p)
    /\ UNCHANGED <<Files3, begun, ledger, Ghosts>>

\* Whatever the shadow file holds by now is renamed over the live one; if it
\* is gone, promote fails.
PromoteMoves(p) ==
    /\ inst[p].pc = "promote"
    /\ IF shadow = Absent
       THEN Ended(p) /\ UNCHANGED <<live, shadow>>
       ELSE /\ live' = shadow
            /\ shadow' = Absent
            /\ Moves(p, [inst[p] EXCEPT !.pc = "disarm"])
    /\ UNCHANGED <<candidate, ledger, begun, Ghosts>>

Discard(p) ==
    /\ Begins(p) /\ shadow # Absent
    /\ shadow' = Absent
    /\ Moves(p, [Resting EXCEPT !.pc = "disarm"])
    /\ UNCHANGED <<live, candidate, ledger, Ghosts>>

\* clear_candidate
Disarms(p) ==
    /\ inst[p].pc = "disarm"
    /\ candidate' = FALSE
    /\ Ended(p)
    /\ UNCHANGED <<live, shadow, ledger, begun, Ghosts>>

EvalStops(p) ==
    /\ Begins(p)
    /\ candidate' = FALSE
    /\ UNCHANGED <<live, shadow, ledger, inst, Ghosts>>

EvalStarts(p) ==
    /\ Begins(p)
    /\ LET text == IF shadow # Absent THEN shadow ELSE live IN
          text # Absent /\ text \notin Invalid
    /\ candidate' = TRUE
    /\ UNCHANGED <<live, shadow, ledger, inst, Ghosts>>

\* record_publish
Publish(p) ==
    /\ Begins(p) /\ live # Absent
    /\ Moves(p, [Resting EXCEPT !.pc = "record", !.publish = TRUE])
    /\ UNCHANGED <<Files3, ledger, Ghosts>>

\* A process dies; one that was writing leaves a truncated ledger.
InstallerDies(p) ==
    /\ inst[p].pc # "rest"
    /\ whole' = (whole /\ inst[p].pc # "write")
    /\ Ended(p)
    /\ UNCHANGED <<Files3, begun, ledger, shown, placed, recorded>>

\* The user puts a pipeline into the folder.
Place ==
    /\ \E t \in Texts : live' = t /\ placed' = t
    /\ begun < MaxCommands /\ begun' = begun + 1
    /\ UNCHANGED <<shadow, candidate, ledger, inst, shown, recorded, whole>>

(***************************************************************************)
(* Specification                                                           *)
(***************************************************************************)

PipelinesInit ==
    /\ live = Absent /\ shadow = Absent /\ candidate = FALSE
    /\ ledger = NoEntry
    /\ inst = [p \in Installers |-> Resting] /\ begun = 0
    /\ shown = {} /\ placed = Absent /\ recorded = NoEntry /\ whole = TRUE

InstallerStep(p) ==
    \/ AddShows(p) \/ AddIdentical(p) \/ AddReview(p)
    \/ AddQuit(p) \/ AddLive(p) \/ AddShadow(p) \/ AddArms(p)
    \/ PromoteShows(p) \/ PromoteDeclined(p) \/ PromoteMoves(p)
    \/ Discard(p) \/ Disarms(p) \/ EvalStops(p) \/ EvalStarts(p) \/ Publish(p)
    \/ LedgerRead(p) \/ LedgerTruncated(p) \/ LedgerWritten(p)
    \/ InstallerDies(p)

PipelinesNext == Place \/ \E p \in Installers : InstallerStep(p)

PipelinesSpec == PipelinesInit /\ [][PipelinesNext]_pipeVars

(***************************************************************************)
(* Properties                                                              *)
(***************************************************************************)

\* Whichever way a text becomes active, at once or through the shadow slot
\* and a promotion, the user saw its rules first, and it runs no command,
\* unless the user put the file there by hand (pipeline_cmd.rs:595-615 and
\* 853-856).
NothingGoesLiveUnseen ==
    /\ live \in shown \cup {Absent, placed}
    /\ live \in Commanding => live = placed
    /\ shadow \in shown \cup {Absent} /\ shadow \notin Commanding

\* An install never erases the publish record nor a publish the installed
\* commit: as long as no two writes overlap and no process dies in one, the
\* ledger holds all that was ever recorded (pipeline_remote.rs:154-202).
RecordsOutliveEachOther == whole /\ ledger # Torn => ledger = recorded
=============================================================================
