------------------------------ MODULE ImportWait ------------------------------
(***************************************************************************)
(* `onmsctl requisition import <fs> --wait`: read last-import, trigger the *)
(* import, then poll until last-import has moved or the deadline passes    *)
(* (onmsctl-provisioning/src/cmd/mod.rs, src/wait/mod.rs).  The server     *)
(* runs accepted imports in its own time, may clear last-import, and takes *)
(* triggers and deletions from others.                                     *)
(***************************************************************************)
EXTENDS Naturals

CONSTANTS
    None,           \* no last-import: never imported, or cleared
    MaxOthers,      \* how many imports others trigger
    MaxClears       \* how often the server clears last-import

VARIABLES
    lastImport,     \* the server's last-import
    clock,          \* imports completed so far: their timestamps
    accepted,       \* triggers accepted and not run yet, by who sent them
    others, clears, \* triggers of others, and clearings, so far
    present,        \* the requisition exists
    imported,       \* the import this command triggered has completed
    snapshot,       \* pre_trigger_last_import_ms
    phase

server == <<lastImport, clock, accepted, others, clears, present, imported>>
vars == <<server, snapshot, phase>>

Waiting == {"snapshot", "trigger", "poll"}

-----------------------------------------------------------------------------
\* Names of the form <definition>_<bug> are broken variants: slips the code could have
\* made, kept to show that the properties below would notice them.

\* last-import is set, to another value than before the trigger.
Converged_Cleared(seen) == seen # snapshot
Converged(seen) == seen # None /\ seen # snapshot

\* What a poll that has not converged may do: give up past the deadline, or go on.
AfterPoll_NoDeadline == {"poll"}
AfterPoll == {"poll", "timeout"}

\* What the command makes of one poll.
Poll_DeadlineFirst(seen) ==
    (IF Converged(seen) THEN {"completed"} ELSE AfterPoll) \cup {"timeout"}
Poll(seen) == IF Converged(seen) THEN {"completed"} ELSE AfterPoll

AfterSnapshot == {"trigger", "failed"}

-----------------------------------------------------------------------------
Init ==
    /\ lastImport \in {None, 0}
    /\ clock = 0 /\ others = 0 /\ clears = 0
    /\ accepted = {}
    /\ present \in BOOLEAN /\ (~present => lastImport = None)
    /\ imported = FALSE
    /\ snapshot = None
    /\ phase = "snapshot"

\* The baseline is read before the trigger; a requisition that is not there yields None.
Snapshot ==
    /\ phase = "snapshot"
    /\ phase' \in AfterSnapshot
    /\ snapshot' = lastImport
    /\ UNCHANGED server

\* PUT import.  A lost answer ends the command, although the import may run.
Trigger ==
    /\ phase = "trigger"
    /\ \E served, answered \in BOOLEAN :
          /\ answered => served
          /\ accepted' = IF served THEN accepted \cup {"mine"} ELSE accepted
          /\ phase' = IF answered THEN "poll" ELSE "failed"
    /\ UNCHANGED <<lastImport, clock, others, clears, present, imported, snapshot>>

\* One turn of wait_for_import_completion; a failed GET is not retried.
PollOnce ==
    /\ phase = "poll"
    /\ \/ present /\ phase' \in Poll(lastImport)
       \/ ~present /\ phase' = "vanished"
       \/ phase' = "failed"
    /\ UNCHANGED <<server, snapshot>>

RunImport(who) ==
    /\ who \in accepted
    /\ accepted' = accepted \ {who}
    /\ IF present
         THEN clock' = clock + 1 /\ lastImport' = clock' /\ imported' = (imported \/ who = "mine")
         ELSE UNCHANGED <<clock, lastImport, imported>>
    /\ UNCHANGED <<others, clears, present, snapshot, phase>>

\* Somebody else triggers an import, or purges the requisition.
OtherTrigger ==
    /\ others < MaxOthers /\ "other" \notin accepted
    /\ others' = others + 1
    /\ accepted' = accepted \cup {"other"}
    /\ UNCHANGED <<lastImport, clock, clears, present, imported, snapshot, phase>>

Purge ==
    /\ present /\ phase \in Waiting
    /\ present' = FALSE /\ lastImport' = None
    /\ UNCHANGED <<clock, accepted, others, clears, imported, snapshot, phase>>

\* The server rebuilds the requisition and forgets its last-import.
Clear ==
    /\ lastImport # None /\ clears < MaxClears
    /\ lastImport' = None /\ clears' = clears + 1
    /\ UNCHANGED <<clock, accepted, others, present, imported, snapshot, phase>>

Step == Snapshot \/ Trigger \/ PollOnce

Next == Step \/ OtherTrigger \/ Purge \/ Clear \/ \E who \in {"mine", "other"} : RunImport(who)

Spec == Init /\ [][Next]_vars

-----------------------------------------------------------------------------
\* Type invariant of an import that is waited for.
TypeOK ==
    /\ {lastImport, snapshot} \subseteq 0..(MaxOthers + 1) \cup {None}
    /\ clock \in 0..(MaxOthers + 1)
    /\ accepted \subseteq {"mine", "other"}
    /\ others \in 0..MaxOthers /\ clears \in 0..MaxClears
    /\ {present, imported} \subseteq BOOLEAN
    /\ phase \in Waiting \cup {"completed", "timeout", "vanished", "failed"}

\* When nobody else imports the requisition, "import completed" is said only of the
\* import this command triggered, also when the server clears last-import meanwhile.
CompletedMeansImported == phase = "completed" /\ others = 0 => imported

\* The state is well typed, and a wait that ends well ends with its own import.
WaitInv == TypeOK /\ CompletedMeansImported
=============================================================================
