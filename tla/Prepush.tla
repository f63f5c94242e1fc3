------------------------------ MODULE Prepush ------------------------------
(***************************************************************************)
(* The control in front of every push (prepush_control.py): a gate run at  *)
(* an exact head leaves a receipt, a guarded push reserves a publication   *)
(* from that receipt, runs git push once, and settles the reservation by   *)
(* what the remote then shows.  Sessions run concurrently and end at any   *)
(* step; a git push that was started goes on without its session.          *)
(***************************************************************************)
EXTENDS Naturals, FiniteSets

CONSTANTS
    Sessions,       \* processes that run gates and pushes for the issue
    Heads,          \* commits of the branch, 1..n, each a child of the one before
    Leased,         \* heads whose diff is exactly the leased path set
    MaxGeneration,  \* bound: generations of the item
    MaxVersion,     \* bound: item versions within a generation
    MaxDisturbances \* bound: changes from outside and sessions that end in between

ASSUME HeadsAssumption == Heads \subseteq Nat \ {0} /\ 1 \in Heads
ASSUME LineagesAssumption == {MaxGeneration, MaxVersion} \subseteq Nat \ {0}

VARIABLES
    lin,            \* the admitted lineage, by generation and item version
    tree,           \* the worktree: head, cleanliness, and its test environment
    gates,          \* the latest gate receipt of each generation and head
    pubs,           \* the publication of each generation and head
    kids,           \* git push processes
    remote,         \* the branch at the remote, 0 when absent
    hands,          \* where each session is
    disturbances,   \* changes from outside and dead sessions so far
    starts,         \* history: git push processes started for each key
    passed,         \* history: lineages and the heads in the worktree when a gate passed
    landed          \* history: heads that reached the remote

prepushVars == <<lin, tree, gates, pubs, kids, remote, hands, disturbances, starts, passed, landed>>

Lineages == [gen : 1..MaxGeneration, ver : 1..MaxVersion]
Keys == (1..MaxGeneration) \X Heads
NoLineage == [gen |-> 0, ver |-> 0]
NoGate == [lin |-> NoLineage, pass |-> FALSE]
NoPublication == [state |-> "NONE", lin |-> NoLineage]
AtRest == [pc |-> "idle", lin |-> NoLineage, head |-> 0, env |-> FALSE, end |-> "none"]

PrepushInit ==
    /\ lin = [gen |-> 1, ver |-> 1] /\ tree = [head |-> 1, clean |-> TRUE, env |-> TRUE]
    /\ gates = [k \in Keys |-> NoGate] /\ pubs = [k \in Keys |-> NoPublication]
    /\ kids = {} /\ remote = 0 /\ disturbances = 0
    /\ hands = [s \in Sessions |-> AtRest]
    /\ starts = [k \in Keys |-> 0] /\ passed = {} /\ landed = {}

Disturb == disturbances < MaxDisturbances /\ disturbances' = disturbances + 1

At(s, pc) == hands[s].pc = pc
Goto(s, pc) == hands' = [hands EXCEPT ![s].pc = pc]
Return(s) == hands' = [hands EXCEPT ![s] = AtRest]
Key(s) == <<hands[s].lin.gen, hands[s].head>>

\* _lineage, read again inside a transaction.
Unmoved(s) == lin = hands[s].lin

\* A publication in flight anywhere in the issue.
Reserved == \E k \in Keys : pubs[k].state = "RESERVED"

-----------------------------------------------------------------------------
(* What others do to the item and to the worktree.                          *)

\* Mutant: the item may change while a publication is reserved.
AnyTime == TRUE

\* The triggers on items, sources and admissions.
Unfenced == ~Reserved

NewVersion ==
    /\ Disturb /\ Unfenced /\ lin.ver < MaxVersion /\ lin' = [lin EXCEPT !.ver = @ + 1]
    /\ UNCHANGED <<tree, gates, pubs, kids, remote, hands, starts, passed, landed>>

NewGeneration ==
    /\ Disturb /\ Unfenced /\ lin.gen < MaxGeneration /\ lin' = [gen |-> lin.gen + 1, ver |-> 1]
    /\ UNCHANGED <<tree, gates, pubs, kids, remote, hands, starts, passed, landed>>

Checkout(h) ==
    /\ Disturb /\ h # tree.head /\ tree' = [tree EXCEPT !.head = h]
    /\ UNCHANGED <<lin, gates, pubs, kids, remote, hands, starts, passed, landed>>

Touch ==
    /\ Disturb /\ tree' = [tree EXCEPT !.clean = ~@]
    /\ UNCHANGED <<lin, gates, pubs, kids, remote, hands, starts, passed, landed>>

EnvironmentDrifts ==
    /\ Disturb /\ tree' = [tree EXCEPT !.env = ~@]
    /\ UNCHANGED <<lin, gates, pubs, kids, remote, hands, starts, passed, landed>>

-----------------------------------------------------------------------------
(* run                                                                      *)

\* _validate_manifest_file: the head changes exactly the leased paths.
LeaseMatches(h) == h \in Leased

\* _validate_worktree: the branch is checked out and nothing is uncommitted.
Worktree == tree.clean

\* _prepared_gate_environment and _validate_gate_environment; what they find is
\* part of the gate's verdict and not a refusal of the run.
EnvironmentReady == tree.env

StartGate(s) ==
    /\ At(s, "idle") /\ Worktree /\ LeaseMatches(tree.head)
    /\ hands' = [hands EXCEPT ![s] = [AtRest EXCEPT !.pc = "gate", !.lin = lin,
                                                    !.head = tree.head, !.env = EnvironmentReady]]
    /\ UNCHANGED <<lin, tree, gates, pubs, kids, remote, disturbances, starts, passed, landed>>

\* Mutant: the head is not compared after the commands.
HeldStillAnyHead(s) == tree.clean

\* Head and cleanliness read again once the commands ended.
HeldStill(s) == tree.head = hands[s].head /\ tree.clean

\* _validate_existing_environment before and after, and the receipt once more in _record.
EnvironmentHolds(s) == hands[s].env /\ tree.env

\* _gate_plan, run in order up to the first command that fails, with the receipt
\* that the baseline command must leave.
Outcomes == {"passed", "lower gate failed", "baseline receipt missing", "final gate failed", "timeout"}

\* _record: PASS or HOLD, under the lineage the run began with and no other.
Record(s, pass) ==
    IF Unmoved(s)
    THEN /\ gates' = [gates EXCEPT ![Key(s)] = [lin |-> lin, pass |-> pass]]
         /\ passed' = IF pass THEN passed \cup {<<lin, tree.head>>} ELSE passed
    ELSE UNCHANGED <<gates, passed>>

EndGate(s, outcome) ==
    /\ At(s, "gate") /\ Return(s)
    /\ Record(s, outcome = "passed" /\ HeldStill(s) /\ EnvironmentHolds(s))
    /\ UNCHANGED <<lin, tree, pubs, kids, remote, disturbances, starts, landed>>

-----------------------------------------------------------------------------
(* guarded_push                                                             *)

StartPush(s) ==
    /\ At(s, "idle") /\ Worktree
    /\ hands' = [hands EXCEPT ![s] = [AtRest EXCEPT !.pc = "assert", !.lin = lin, !.head = tree.head]]
    /\ UNCHANGED <<lin, tree, gates, pubs, kids, remote, disturbances, starts, passed, landed>>

\* assert_push_eligible: the latest receipt of this head passed, under this very lineage.
Eligible(h) == LET gate == gates[<<lin.gen, h>>] IN gate.pass /\ gate.lin = lin

\* It reads lineage and worktree anew; only the head is compared with the first reading.
Assert(s) ==
    /\ At(s, "assert")
    /\ IF Worktree /\ tree.head = hands[s].head /\ Eligible(tree.head)
       THEN Goto(s, "reserve") ELSE Return(s)
    /\ UNCHANGED <<lin, tree, gates, pubs, kids, remote, disturbances, starts, passed, landed>>

\* Mutant: a session that finds the reservation pushes as well.
NextOfReservedAgain(k) == CASE pubs[k].state \in {"NONE", "RESERVED"} -> "push" [] OTHER -> "idle"

\* What guarded_push does with the row it was given.
NextOf(k) == CASE pubs[k].state = "NONE" -> "push"
               [] pubs[k].state = "RESERVED" -> "readback"
               [] OTHER -> "idle"

\* Mutant: the row does not say which lineage it was reserved for.
RowOfNoLineage(s) == [state |-> "RESERVED", lin |-> NoLineage]

RowOf(s) == [state |-> "RESERVED", lin |-> hands[s].lin]

\* _reserve_publication
Reserve(s) ==
    /\ At(s, "reserve")
    /\ IF ~Unmoved(s) \/ NextOf(Key(s)) = "idle" THEN Return(s) ELSE Goto(s, NextOf(Key(s)))
    /\ pubs' = IF Unmoved(s) /\ NextOf(Key(s)) = "push"
               THEN [pubs EXCEPT ![Key(s)] = RowOf(s)] ELSE pubs
    /\ UNCHANGED <<lin, tree, gates, kids, remote, disturbances, starts, passed, landed>>

GitPush(s) ==
    /\ At(s, "push") /\ Goto(s, "wait")
    /\ kids' = kids \cup {[key |-> Key(s), st |-> "hook"]}
    /\ starts' = [starts EXCEPT ![Key(s)] = @ + 1]
    /\ UNCHANGED <<lin, tree, gates, pubs, remote, disturbances, passed, landed>>

PushNotStarted(s) ==
    /\ At(s, "push") /\ Goto(s, "readback")
    /\ UNCHANGED <<lin, tree, gates, pubs, kids, remote, disturbances, starts, passed, landed>>

Wait(s) ==
    /\ At(s, "wait") /\ ~\E kid \in kids : kid.key = Key(s)
    /\ Goto(s, "readback")
    /\ UNCHANGED <<lin, tree, gates, pubs, kids, remote, disturbances, starts, passed, landed>>

\* Mutant: a reservation that is read back counts as pushed.
VerdictTrusting(s, read) == IF read THEN "COMPLETE" ELSE "HOLD"

\* _remote_head, which may also fail.
Verdict(s, read) == IF read /\ remote = hands[s].head THEN "COMPLETE" ELSE "HOLD"

ReadBack(s, read) ==
    /\ At(s, "readback")
    /\ hands' = [hands EXCEPT ![s].pc = "finish", ![s].end = Verdict(s, read)]
    /\ UNCHANGED <<lin, tree, gates, pubs, kids, remote, disturbances, starts, passed, landed>>

\* Mutant: a refused publication is left as it is.
SettlesOnlyComplete(s) == Unmoved(s) /\ hands[s].end = "COMPLETE" /\ pubs[Key(s)].state = "RESERVED"

\* _finish_publication: only a reserved row, only under the same lineage.
Settles(s) == Unmoved(s) /\ pubs[Key(s)].state = "RESERVED"

Finish(s) ==
    /\ At(s, "finish") /\ Return(s)
    /\ pubs' = IF Settles(s) THEN [pubs EXCEPT ![Key(s)].state = hands[s].end] ELSE pubs
    /\ UNCHANGED <<lin, tree, gates, kids, remote, disturbances, starts, passed, landed>>

-----------------------------------------------------------------------------
(* git push and its hook                                                    *)

\* validate_git_hook: the reservation stands and its gate passed at this head.
HookAccepts(kid) == pubs[kid.key].state = "RESERVED"

Hook(kid) ==
    /\ kid.st = "hook"
    /\ kids' = (kids \ {kid}) \cup (IF HookAccepts(kid) THEN {[kid EXCEPT !.st = "send"]} ELSE {})
    /\ UNCHANGED <<lin, tree, gates, pubs, remote, hands, disturbances, starts, passed, landed>>

\* The remote takes a descendant of what it has.
Land(kid) ==
    /\ kid.st = "send" /\ kid.key[2] > remote
    /\ kids' = kids \ {kid} /\ remote' = kid.key[2] /\ landed' = landed \cup {kid.key[2]}
    /\ UNCHANGED <<lin, tree, gates, pubs, hands, disturbances, starts, passed>>

Bounce(kid) ==
    /\ kid.st = "send" /\ kids' = kids \ {kid}
    /\ UNCHANGED <<lin, tree, gates, pubs, remote, hands, disturbances, starts, passed, landed>>

Dies(s) ==
    /\ ~At(s, "idle") /\ Disturb /\ Return(s)
    /\ UNCHANGED <<lin, tree, gates, pubs, kids, remote, starts, passed, landed>>

-----------------------------------------------------------------------------

SessionStep(s) ==
    \/ Assert(s) \/ Reserve(s) \/ GitPush(s) \/ PushNotStarted(s) \/ Wait(s)
    \/ \E read \in BOOLEAN : ReadBack(s, read)
    \/ Finish(s)
    \/ \E outcome \in Outcomes : EndGate(s, outcome)

KidStep == \E kid \in kids : Hook(kid) \/ Land(kid) \/ Bounce(kid)

PrepushNext ==
    \/ NewVersion \/ NewGeneration \/ Touch \/ EnvironmentDrifts \/ KidStep
    \/ \E h \in Heads : Checkout(h)
    \/ \E s \in Sessions :
        StartGate(s) \/ StartPush(s) \/ SessionStep(s) \/ Dies(s)

PrepushSpec == PrepushInit /\ [][PrepushNext]_prepushVars

\* Sessions and git processes that run go on, and an open reservation is tried again.
Retry == Reserved /\ \E s \in Sessions : StartPush(s)

-----------------------------------------------------------------------------

PrepushTypeOK ==
    /\ lin \in Lineages /\ remote \in Heads \cup {0} /\ landed \subseteq Heads
    /\ \A k \in Keys : pubs[k].state \in {"NONE", "RESERVED", "COMPLETE", "HOLD"}
    /\ \A k \in Keys : pubs[k].state = "NONE" <=> pubs[k].lin = NoLineage
    /\ \A s \in Sessions : hands[s].pc \in {"idle", "gate", "assert", "reserve", "push", "wait", "readback", "finish"}

\* What reaches the remote is a commit within its lease, gated at exactly that
\* head: whatever was checked out, committed or re-admitted in the meantime
\* (assert_push_eligible, _reserve_publication and the hook together).
LandedIsGated == landed \subseteq (Leased \cap {p[2] : p \in passed})

\* A reserved publication belongs to the lineage in force and to a gate that
\* passed under it, so a push the hook accepts is one for the admitted work.
ReservedIsCurrent ==
    \A k \in Keys : pubs[k].state = "RESERVED" =>
        pubs[k].lin = lin /\ <<lin, k[2]>> \in passed

\* One git push per generation and head: neither a repeated call nor a session
\* that comes after a dead one pushes again.
PushedOnce == \A k \in Keys : starts[k] <= 1

\* COMPLETE says that the head was seen at the remote.
CompleteLanded == \A k \in Keys : pubs[k].state = "COMPLETE" => k[2] \in landed

\* An open reservation is settled by some later call, unless the worktree was
\* moved away from its head, is unclean, or the head's gate has failed since: a
\* reservation fences the whole item, so it must not stay open for nothing.
ReservationSettles ==
    []<>(\A k \in Keys : pubs[k].state = "RESERVED" =>
            tree.head # k[2] \/ ~tree.clean \/ ~gates[k].pass)

\* A push is gated, current and made once, and its row says so, whatever moves between
\* guarded_push's reads, its reservation, the hook and the readback.
PushIsGated == LandedIsGated /\ ReservedIsCurrent /\ PushedOnce /\ CompleteLanded
============================================================================
