------------------------------ MODULE Install ------------------------------
(***************************************************************************)
(* The installation of reviewed sources (source_install_atom.py): a staged *)
(* set of files replaces the installed ones, one atomic rename after the   *)
(* other, behind a receipt and the backups that a rollback works from.     *)
(* Processes end and calls fail at any step, somebody else edits the files *)
(* and an operator starts installs and rollbacks of the same manifest with *)
(* several rollback directories.                                           *)
(***************************************************************************)
EXTENDS Naturals, Sequences

CONSTANTS
    Kind,           \* the entries of the manifest, in order: "changed", "new" or "equal"
    Roots,          \* rollback directories an operator may name
    Installers,     \* processes
    MaxDepth,       \* how long a chain of receipts validates (16 in the code)
    MaxMishaps      \* bound: deaths, failed calls and outside edits

ASSUME KindAssumption == Kind \in Seq({"changed", "new", "equal"})
ASSUME InstallersAssumption == 0 \notin Installers

VARIABLES
    files,          \* the installed file of each entry
    stage,          \* the stage directory
    dirs,           \* rollback directories that exist
    receipts,       \* the receipt in each of them
    backups,        \* the copies of prior files in each of them
    hand,           \* where each process is
    result,         \* what the last finished call reported
    holder,         \* who holds the lock on the destination
    mishaps

installVars == <<files, stage, dirs, receipts, backups, hand, result, holder, mishaps>>

Entries == DOMAIN Kind
NoReceipt == [st |-> "NONE", depth |-> 0]
Applying == {"prepare", "backup", "check", "replace", "seal", "verify"}
Recovering == {"recover", "undo", "restore", "finish", "confirm"}
Steps == {"idle"} \cup Applying \cup Recovering
Rest == [pc |-> "idle", op |-> "none", root |-> 0, k |-> 0, did |-> {}]

\* _install_equivalence: the state of an entry before the installation.
PriorOf(e) == IF Kind[e] = "equal" THEN "source" ELSE "prior"

InstallInit ==
    /\ files = [e \in Entries |-> PriorOf(e)]
    /\ stage = "none" /\ dirs = {} /\ holder = 0 /\ mishaps = 0 /\ result = "none"
    /\ receipts = [r \in Roots |-> NoReceipt]
    /\ backups = [r \in Roots |-> [e \in Entries |-> "none"]]
    /\ hand = [p \in Installers |-> Rest]

Mishap == mishaps < MaxMishaps /\ mishaps' = mishaps + 1

\* _entry_states: every file is one the manifest knows.
Legible == \A e \in Entries : files[e] \in {"prior", "source"}

\* Mutant: a file that was absent before is not looked at.
IsPriorWhenPresent(e) == Kind[e] = "new" \/ files[e] = PriorOf(e)

\* _state_is_prior
IsPrior(e) == files[e] = PriorOf(e)
AllPrior == \A e \in Entries : IsPrior(e)
AllSource == \A e \in Entries : files[e] = "source"

\* _require_apply_progress
Progress(did) ==
    \A e \in Entries : files[e] = IF e \in did THEN "source" ELSE PriorOf(e)

-----------------------------------------------------------------------------
(* stage_atom                                                               *)

\* A failure removes the stage again; a death leaves it behind, and in the way.
StageAtom ==
    /\ stage = "none" /\ AllPrior /\ stage' = "staged"
    /\ UNCHANGED <<files, dirs, receipts, backups, hand, result, holder, mishaps>>

StageDies ==
    /\ Mishap /\ stage = "none" /\ stage' = "partial"
    /\ UNCHANGED <<files, dirs, receipts, backups, hand, result, holder>>

RemoveStage ==
    /\ stage = "partial" /\ stage' = "none"
    /\ UNCHANGED <<files, dirs, receipts, backups, hand, result, holder, mishaps>>

-----------------------------------------------------------------------------
(* apply_atom                                                               *)

Turn(p, pc) == hand' = [hand EXCEPT ![p].pc = pc]
Step(p, pc, k) == hand' = [hand EXCEPT ![p].pc = pc, ![p].k = k]
Root(p) == hand[p].root

\* The call returns or raises, and the lock goes with it.
End(p, res) ==
    /\ hand' = [hand EXCEPT ![p] = Rest] /\ holder' = 0 /\ result' = res

\* Mutant: a failed installation is left to the operator.
RaiseAtOnce(p) == End(p, "failed")

\* The except branch of apply_atom: recover, then raise.
Fail(p) == Turn(p, "recover") /\ UNCHANGED <<holder, result>>

\* validate_stage: the stage is whole, and nothing has been installed since.
StageValid == stage = "staged" /\ AllPrior

\* Under the lock; the rollback directory is made.
BeginApply(p, r) ==
    /\ hand[p].pc = "idle" /\ holder = 0 /\ StageValid /\ r \notin dirs
    /\ holder' = p /\ dirs' = dirs \cup {r}
    /\ hand' = [hand EXCEPT ![p] = [pc |-> "prepare", op |-> "apply", root |-> r, k |-> 1, did |-> {}]]
    /\ UNCHANGED <<files, stage, receipts, backups, result, mishaps>>

\* The BEGIN_INSTALL receipt, written in place.
WritePrepared(p) ==
    /\ hand[p].pc = "prepare"
    /\ IF Progress({})
       THEN /\ receipts' = [receipts EXCEPT ![Root(p)] = [st |-> "PREPARED", depth |-> 0]]
            /\ Turn(p, "backup") /\ UNCHANGED <<holder, result>>
       ELSE Fail(p) /\ UNCHANGED receipts
    /\ UNCHANGED <<files, stage, dirs, backups, mishaps>>

\* Mutant: the last entry is not copied.
NeedsBackupButLast(e) == Kind[e] = "changed" /\ e # Len(Kind)

NeedsBackup(e) == Kind[e] = "changed"

Backup(p) ==
    /\ hand[p].pc = "backup"
    /\ LET k == hand[p].k
       IN  IF k \notin Entries THEN Step(p, "check", 1) /\ UNCHANGED <<backups, holder, result>>
           ELSE IF ~NeedsBackup(k) THEN Step(p, "backup", k + 1) /\ UNCHANGED <<backups, holder, result>>
           ELSE IF ~Progress({}) THEN Fail(p) /\ UNCHANGED backups
           ELSE /\ backups' = [backups EXCEPT ![Root(p)][k] = "prior"]
                /\ Step(p, "backup", k + 1) /\ UNCHANGED <<holder, result>>
    /\ UNCHANGED <<files, stage, dirs, receipts, mishaps>>

\* The whole set is compared before every replacement and after the last.
Check(p) ==
    /\ hand[p].pc = "check"
    /\ LET k == hand[p].k
       IN  IF ~Progress(hand[p].did) THEN Fail(p)
           ELSE /\ UNCHANGED <<holder, result>>
                /\ IF k \notin Entries THEN Turn(p, "seal")
                   ELSE IF Kind[k] = "equal" THEN Step(p, "check", k + 1)
                   ELSE Turn(p, "replace")
    /\ UNCHANGED <<files, stage, dirs, receipts, backups, mishaps>>

\* _atomic_replace_leaf_at: over whatever is there by now.
Replace(p) ==
    /\ hand[p].pc = "replace"
    /\ files' = [files EXCEPT ![hand[p].k] = "source"]
    /\ hand' = [hand EXCEPT ![p].pc = "check", ![p].k = @ + 1, ![p].did = @ \cup {hand[p].k}]
    /\ UNCHANGED <<stage, dirs, receipts, backups, result, holder, mishaps>>

Seal(p) ==
    /\ hand[p].pc = "seal" /\ Turn(p, "verify")
    /\ receipts' = [receipts EXCEPT ![Root(p)] = [st |-> "INSTALLED", depth |-> 1]]
    /\ UNCHANGED <<files, stage, dirs, backups, result, holder, mishaps>>

Verify(p) ==
    /\ hand[p].pc = "verify"
    /\ IF Progress(hand[p].did) THEN End(p, "installed") ELSE Fail(p)
    /\ UNCHANGED <<files, stage, dirs, receipts, backups, mishaps>>

-----------------------------------------------------------------------------
(* rollback_atom and _recover_entries                                       *)

\* Mutant: a rollback does not take the lock.
RollbackUnlocked(p, r) ==
    /\ hand[p].pc = "idle" /\ r \in dirs /\ holder' = p
    /\ hand' = [hand EXCEPT ![p] = [Rest EXCEPT !.pc = "recover", !.op = "rollback", !.root = r]]
    /\ UNCHANGED <<files, stage, dirs, receipts, backups, result, mishaps>>

\* Under the lock, from whatever receipt the directory holds.
BeginRollback(p, r) ==
    /\ hand[p].pc = "idle" /\ holder = 0 /\ r \in dirs /\ holder' = p
    /\ hand' = [hand EXCEPT ![p] = [Rest EXCEPT !.pc = "recover", !.op = "rollback", !.root = r]]
    /\ UNCHANGED <<files, stage, dirs, receipts, backups, result, mishaps>>

\* _validate_receipt: a torn or too long chain is refused.
Valid(c) == c.st \in {"PREPARED", "INSTALLED", "ROLLED_BACK"} /\ c.depth <= MaxDepth

\* _invalidate_terminal_receipt: written first, validated afterwards.
Invalidated(c) == [st |-> "PREPARED", depth |-> c.depth + 1]
Invalidate(p) == receipts' = [receipts EXCEPT ![Root(p)] = Invalidated(@)]

\* What the caller hears when the recovery raises, and when it is through.
Unrecovered(p) == End(p, IF hand[p].op = "apply" THEN "recovery required" ELSE "refused")
RecoveredCall(p) == End(p, IF hand[p].op = "apply" THEN "failed" ELSE "rolled back")

\* Mutant: a copy is asked of entries that never had one.
BackedUpAll(r) == \A e \in Entries : files[e] = "source" => backups[r][e] = "prior"

\* The copies for every entry that is installed are there and are the prior ones.
BackedUp(r) ==
    \A e \in Entries : (Kind[e] = "changed" /\ files[e] = "source") => backups[r][e] = "prior"

\* An INSTALLED receipt is withdrawn before anything is touched.
Withdraw(p) ==
    /\ hand[p].pc = "recover" /\ Valid(receipts[Root(p)]) /\ receipts[Root(p)].st = "INSTALLED"
    /\ Invalidate(p)
    /\ IF Valid(Invalidated(receipts[Root(p)])) THEN UNCHANGED <<hand, holder, result>> ELSE Unrecovered(p)
    /\ UNCHANGED <<files, stage, dirs, backups, mishaps>>

\* A ROLLED_BACK receipt is confirmed, or withdrawn because the files say otherwise.
Reconfirm(p) ==
    /\ hand[p].pc = "recover" /\ Valid(receipts[Root(p)]) /\ receipts[Root(p)].st = "ROLLED_BACK"
    /\ IF Legible /\ ~BackedUp(Root(p)) THEN Unrecovered(p) /\ UNCHANGED receipts
       ELSE IF AllPrior THEN RecoveredCall(p) /\ UNCHANGED receipts
       ELSE Unrecovered(p) /\ Invalidate(p)
    /\ UNCHANGED <<files, stage, dirs, backups, mishaps>>

BeginUndo(p) ==
    /\ hand[p].pc = "recover" /\ Valid(receipts[Root(p)]) /\ receipts[Root(p)].st = "PREPARED"
    /\ IF Legible /\ BackedUp(Root(p)) THEN Step(p, "undo", Len(Kind)) /\ UNCHANGED <<holder, result>>
       ELSE Unrecovered(p)
    /\ UNCHANGED <<files, stage, dirs, receipts, backups, mishaps>>

NoReceiptThere(p) ==
    /\ hand[p].pc = "recover" /\ ~Valid(receipts[Root(p)]) /\ Unrecovered(p)
    /\ UNCHANGED <<files, stage, dirs, receipts, backups, mishaps>>

\* From the last entry to the first, the states derived from the bytes each time.
Undo(p) ==
    /\ hand[p].pc = "undo"
    /\ LET k == hand[p].k
       IN  IF k = 0 THEN Turn(p, "finish") /\ UNCHANGED <<holder, result>>
           ELSE IF ~Legible THEN Unrecovered(p)
           ELSE IF IsPrior(k) THEN Step(p, "undo", k - 1) /\ UNCHANGED <<holder, result>>
           ELSE Turn(p, "restore") /\ UNCHANGED <<holder, result>>
    /\ UNCHANGED <<files, stage, dirs, receipts, backups, mishaps>>

Restore(p) ==
    /\ hand[p].pc = "restore"
    /\ files' = [files EXCEPT ![hand[p].k] = "prior"]
    /\ Step(p, "undo", hand[p].k - 1)
    /\ UNCHANGED <<stage, dirs, receipts, backups, result, holder, mishaps>>

FinishRollback(p) ==
    /\ hand[p].pc = "finish"
    /\ IF AllPrior
       THEN /\ receipts' = [receipts EXCEPT ![Root(p)] = [st |-> "ROLLED_BACK", depth |-> @.depth + 1]]
            /\ Turn(p, "confirm") /\ UNCHANGED <<holder, result>>
       ELSE Unrecovered(p) /\ UNCHANGED receipts
    /\ UNCHANGED <<files, stage, dirs, backups, mishaps>>

\* Read back and compared once more; otherwise the receipt is withdrawn again.
Confirm(p) ==
    /\ hand[p].pc = "confirm"
    /\ IF Valid(receipts[Root(p)]) /\ AllPrior THEN RecoveredCall(p) /\ UNCHANGED receipts
       ELSE /\ Unrecovered(p)
            /\ IF Valid(receipts[Root(p)]) THEN Invalidate(p) ELSE UNCHANGED receipts
    /\ UNCHANGED <<files, stage, dirs, backups, mishaps>>

-----------------------------------------------------------------------------
(* What goes wrong.                                                         *)


\* A call raises: an installation recovers, a recovery gives up.
CallFails(p) ==
    /\ Mishap /\ hand[p].pc # "idle"
    /\ IF hand[p].pc \in Recovering THEN Unrecovered(p) ELSE Fail(p)
    /\ UNCHANGED <<files, stage, dirs, receipts, backups>>

\* A process ends; what it was writing in place may stay half written.
InstallerDies(p, torn) ==
    /\ Mishap /\ hand[p].pc # "idle" /\ End(p, "none")
    /\ torn => hand[p].pc \in {"prepare", "backup"}
    /\ receipts' = IF torn /\ hand[p].pc = "prepare"
                   THEN [receipts EXCEPT ![Root(p)] = [st |-> "TORN", depth |-> 0]] ELSE receipts
    /\ backups' = IF torn /\ hand[p].pc = "backup" /\ hand[p].k \in Entries
                  THEN [backups EXCEPT ![Root(p)][hand[p].k] = "torn"] ELSE backups
    /\ UNCHANGED <<files, stage, dirs>>

\* Somebody else spoils a file, and may put back what was there.
Spoil(e) ==
    /\ Mishap /\ files[e] \in {"prior", "source"}
    /\ files' = [files EXCEPT ![e] = IF @ = "prior" THEN "spoilt prior" ELSE "spoilt source"]
    /\ UNCHANGED <<stage, dirs, receipts, backups, hand, result, holder>>

PutBack(e) ==
    /\ files[e] \notin {"prior", "source"}
    /\ files' = [files EXCEPT ![e] = IF @ = "spoilt prior" THEN "prior" ELSE "source"]
    /\ UNCHANGED <<stage, dirs, receipts, backups, hand, result, holder, mishaps>>

-----------------------------------------------------------------------------

Works(p) ==
    \/ WritePrepared(p) \/ Backup(p) \/ Check(p) \/ Replace(p) \/ Seal(p) \/ Verify(p)
    \/ Withdraw(p) \/ Reconfirm(p) \/ BeginUndo(p) \/ NoReceiptThere(p)
    \/ Undo(p) \/ Restore(p) \/ FinishRollback(p) \/ Confirm(p)

InstallNext ==
    \/ StageAtom \/ StageDies \/ RemoveStage
    \/ \E p \in Installers :
        \/ Works(p) \/ CallFails(p)
        \/ \E torn \in BOOLEAN : InstallerDies(p, torn)
        \/ \E r \in Roots : BeginApply(p, r) \/ BeginRollback(p, r)
    \/ \E e \in Entries : Spoil(e) \/ PutBack(e)

InstallSpec == InstallInit /\ [][InstallNext]_installVars

\* The operator keeps rolling back what the command left unfinished.
RollsBack(r) == \E p \in Installers : receipts[r].st = "PREPARED" /\ BeginRollback(p, r)

-----------------------------------------------------------------------------

InstallTypeOK ==
    /\ files \in [Entries -> {"prior", "source", "spoilt prior", "spoilt source"}]
    /\ stage \in {"none", "partial", "staged"} /\ dirs \subseteq Roots
    /\ receipts \in [Roots -> [st : {"NONE", "TORN", "PREPARED", "INSTALLED", "ROLLED_BACK"}, depth : Nat]]
    /\ backups \in [Roots -> [Entries -> {"none", "prior", "torn"}]]
    /\ hand \in [Installers -> [pc : Steps, op : {"none", "apply", "rollback"}, root : Roots \cup {0},
                                k : 0..Len(Kind) + 1, did : SUBSET Entries]]
    /\ holder \in Installers \cup {0} /\ \A p \in Installers : hand[p].pc # "idle" => holder = p

\* The prior bytes of an installed file are never lost: some rollback directory
\* holds them whole, whichever call died where (apply_atom copies before it renames).
PriorIsKept ==
    \A e \in Entries : (Kind[e] = "changed" /\ files[e] = "source") =>
        \E r \in Roots : backups[r][e] = "prior"

\* With nobody at work and no receipt PREPARED, the set of files is whole: all as
\* before or all as reviewed.
WholeWhenSettled ==
    (holder = 0 /\ Legible /\ \A r \in Roots : receipts[r].st # "PREPARED")
    => AllSource \/ files = [e \in Entries |-> PriorOf(e)]

\* apply_atom raises the original failure only behind a complete rollback; any
\* other outcome says that a recovery is required.
FailureRestores == [][(result' = "failed" /\ result # "failed") => AllPrior']_installVars

\* An interrupted installation is undone: the files come to be one whole set
\* again, unless somebody else's file stays in between.
InstallSettles == []<>(~Legible \/ AllPrior \/ AllSource)

\* An installation can always be undone and is whole when it says it is finished.
InstallRecoverable == PriorIsKept /\ WholeWhenSettled
=============================================================================
