------------------------- MODULE BudgetPersistence --------------------------
(***************************************************************************)
(* budget.dat: CBudgetDB::Write, CBudgetDB::Read and DumpBudgets           *)
(* (masternode-budget.cpp), across crashes and restarts of the node.       *)
(*                                                                         *)
(* The in-memory ledger is abstracted to a version number that every       *)
(* handler changing it increments.  The file is a record whose kind is     *)
(* what Read would find in it: no file, fewer bytes than the trailing      *)
(* hash ("short"), a body that does not match its hash ("torn"), a         *)
(* checksummed file with another program's magic message or another        *)
(* network's magic number, a checksummed file of the right kind that does  *)
(* not deserialise ("badformat", e.g. an older format), or a good snapshot *)
(* of ledger version v.                                                    *)
(*                                                                         *)
(* Write holds the ledger lock from its snapshot to fclose, so no ledger   *)
(* change happens while it writes; a crash can.                            *)
(***************************************************************************)
EXTENDS Naturals

CONSTANTS
    MaxVersion,     \* bound on ledger changes
    MaxCrashes      \* bound on crashes (power loss, kill) of the node

Kinds == {"absent", "short", "torn", "othermagic", "othernet", "badformat", "ok"}
\* Files Write itself can leave behind.
Written == {"short", "torn", "ok"}

VARIABLES
    up,         \* the node process is running
    ledger,     \* the in-memory CBudgetManager, as a version number
    file,       \* budget.dat: [kind, v]; v is meaningful for "ok" only
    phase,      \* DumpBudgets' progress: "idle", "open" (verified), "writing"
    crashes     \* crashes so far

vars == <<up, ledger, file, phase, crashes>>

File(k, v) == [kind |-> k, v |-> v]

TypeOK ==
    /\ up \in BOOLEAN
    /\ ledger \in 0..MaxVersion
    /\ file \in [kind : Kinds, v : 0..MaxVersion]
    /\ phase \in {"idle", "open", "writing"}
    /\ crashes \in 0..MaxCrashes

-----------------------------------------------------------------------------
(* The code.                                                               *)

\* CBudgetDB::Read's result for the file on disk: fopen fails; reading the
\* trailing hash throws; the hash mismatches; then the magic message, the
\* network magic and the deserialisation are checked in that order.
ReadResult(f) ==
    CASE f.kind = "absent"     -> "FileError"
      [] f.kind = "short"      -> "HashReadError"
      [] f.kind = "torn"       -> "IncorrectHash"
      [] f.kind = "othermagic" -> "IncorrectMagicMessage"
      [] f.kind = "othernet"   -> "IncorrectMagicNumber"
      [] f.kind = "badformat"  -> "IncorrectFormat"
      [] f.kind = "ok"         -> "Ok"

\* Mutant: the format failure is grouped with the other read errors.
DumpCheckFormatFatal ==
    /\ up /\ phase = "idle"
    /\ phase' = IF ReadResult(file) \in {"FileError", "Ok"} THEN "open" ELSE "idle"
    /\ UNCHANGED <<up, ledger, file, crashes>>

\* Mutant: the verifying dry-run read is left out.
DumpCheckUnverified ==
    /\ up /\ phase = "idle"
    /\ phase' = "open"
    /\ UNCHANGED <<up, ledger, file, crashes>>

\* DumpBudgets, up to the call of Write: a dry-run Read of budget.dat into
\* a temporary manager; a missing file or one whose magic is right but
\* whose data is invalid is recreated, every other error returns.
DumpCheck ==
    /\ up /\ phase = "idle"
    /\ phase' = IF ReadResult(file) \in {"FileError", "Ok", "IncorrectFormat"}
                THEN "open" ELSE "idle"
    /\ UNCHANGED <<up, ledger, file, crashes>>

\* CBudgetDB::Write up to the write: fopen(pathDB, "wb") truncates the file
\* to nothing.
WriteOpen ==
    /\ up /\ phase = "open"
    /\ file' = File("short", 0) /\ phase' = "writing"
    /\ UNCHANGED <<up, ledger, crashes>>

\* fopen fails (fileout.IsNull()): Write returns, the file untouched.
OpenFails ==
    /\ up /\ phase = "open"
    /\ phase' = "idle"
    /\ UNCHANGED <<up, ledger, file, crashes>>

\* fileout << ssObj; fclose: the snapshot of the ledger taken under its
\* lock, with the magics and the trailing hash, or an I/O error part-way
\* (the catch returns, leaving what was flushed).
WriteData ==
    /\ up /\ phase = "writing"
    /\ \/ file' = File("ok", ledger)
       \/ file' \in {File("short", 0), File("torn", 0)}
    /\ phase' = "idle"
    /\ UNCHANGED <<up, ledger, crashes>>

-----------------------------------------------------------------------------
(* The node around the file.                                               *)

\* Any ledger handler: blocked while Write holds the ledger lock.
Change ==
    /\ up /\ phase # "writing" /\ ledger < MaxVersion
    /\ ledger' = ledger + 1
    /\ UNCHANGED <<up, file, phase, crashes>>

\* The process dies.  During a write, the bytes flushed so far stay.
Crash ==
    /\ up /\ crashes < MaxCrashes
    /\ up' = FALSE /\ crashes' = crashes + 1 /\ phase' = "idle"
    /\ IF phase = "writing"
       THEN file' \in {File("short", 0), File("torn", 0)}
       ELSE UNCHANGED file
    /\ UNCHANGED ledger

\* Start-up loads budget.dat with Read(budget): a good file gives its
\* snapshot (then CheckAndRemove); any error leaves the manager empty
\* (Clear() on a format error, nothing read on the others).
Start ==
    /\ ~up
    /\ up' = TRUE
    /\ ledger' = IF ReadResult(file) = "Ok" THEN file.v ELSE 0
    /\ UNCHANGED <<file, phase, crashes>>

Init ==
    /\ up = TRUE /\ ledger = 0 /\ phase = "idle" /\ crashes = 0
    /\ file \in {File(k, 0) : k \in Kinds}

Next == DumpCheck \/ WriteOpen \/ OpenFails \/ WriteData \/ Change \/ Crash \/ Start

Spec == Init /\ [][Next]_vars

\* The dump is taken by the node's background flush and at shutdown, so
\* each of its steps, once enabled, happens; fopen does not fail for ever
\* (strong fairness: a failed open returns, so opening is enabled only
\* again and again); a crashed node is restarted.
FairSpec ==
    /\ Spec
    /\ WF_vars(DumpCheck) /\ SF_vars(WriteOpen) /\ WF_vars(WriteData)
    /\ WF_vars(Start)

-----------------------------------------------------------------------------
(* Properties.                                                             *)

\* DumpBudgets recreates budget.dat when it is missing or when its magic is
\* ours but its data no longer deserialises: such a file is eventually
\* overwritten by Write.
RecreatesRecoverableFile ==
    \A k \in {"absent", "badformat"} :
        (file.kind = k) ~> (file.kind \in Written)

\* DumpBudgets never writes over a file that belongs to another program or
\* another network ("please fix it manually").
ForeignFilePreserved ==
    [][file.kind \in {"othermagic", "othernet"} => file' = file]_file

=============================================================================
