---------------------------- MODULE ApplyPromise ----------------------------
(***************************************************************************)
(* What `onmsctl apply -f` promises of its writes, whatever the kinds and  *)
(* their handlers do: the input is admitted as a whole or refused as a     *)
(* whole, documents are then changed in the precedence order of their      *)
(* kinds, and the first failing kind ends the apply unless the operator    *)
(* asked to continue (docs/concepts/declarative-apply.md).                 *)
(***************************************************************************)
EXTENDS Naturals

CONSTANTS Doc,      \* the documents of the input
          Kind,     \* the registered kinds
          Rank      \* the precedence rank of each kind

VARIABLES kindOf,      \* the kind each document declares
          keepGoing,   \* --continue-on-error
          stage,       \* "open" until the input is admitted, then "applying"
          changed,     \* the documents written on the server so far
          failed       \* the documents reported as failed

vars == <<kindOf, keepGoing, stage, changed, failed>>

Before(d, e) == Rank[kindOf[d]] < Rank[kindOf[e]]

Init ==
    /\ kindOf \in [Doc -> Kind]
    /\ keepGoing \in BOOLEAN
    /\ stage = "open"
    /\ changed = {}
    /\ failed = {}

Admit ==
    /\ stage = "open"
    /\ stage' = "applying"
    /\ UNCHANGED <<kindOf, keepGoing, changed, failed>>

\* A refusal, or the end of a dry run: nothing was written.
CloseUntouched ==
    /\ stage = "open"
    /\ stage' = "closed"
    /\ failed' \in SUBSET Doc
    /\ UNCHANGED <<kindOf, keepGoing, changed>>

\* d is written: no document of a later kind has been, and no earlier kind failed.
Change(d) ==
    /\ stage = "applying"
    /\ \A e \in changed \cup failed : ~Before(d, e)
    /\ keepGoing \/ \A e \in failed : ~Before(e, d)
    /\ changed' = changed \cup {d}
    /\ UNCHANGED <<kindOf, keepGoing, stage, failed>>

\* Documents of one kind fail together; without --continue-on-error that is the end.
Fail(S) ==
    /\ stage = "applying"
    /\ \A d, e \in S : ~Before(d, e)
    /\ \A d \in S, e \in changed \cup failed : ~Before(d, e)
    /\ failed' = failed \cup S
    /\ stage' = IF keepGoing THEN stage ELSE "closed"
    /\ UNCHANGED <<kindOf, keepGoing, changed>>

Close ==
    /\ stage = "applying"
    /\ stage' = "closed"
    /\ UNCHANGED <<kindOf, keepGoing, changed, failed>>

Next ==
    \/ Admit
    \/ CloseUntouched
    \/ \E d \in Doc : Change(d)
    \/ \E S \in (SUBSET Doc) \ {{}} : Fail(S)
    \/ Close

Spec == Init /\ [][Next]_vars
=============================================================================
