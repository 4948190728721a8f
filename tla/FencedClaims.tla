------------------------------ MODULE FencedClaims ------------------------------
(***************************************************************************)
(* What the queue and the visual analyses both promise of work that is     *)
(* claimed, lost and claimed again: claims are numbered, at most MaxGrants *)
(* of them are ever granted, a holder may work on after it has lost its    *)
(* claim, but only the result of the latest claim is published, only while *)
(* that claim is held, and never a second one.                             *)
(***************************************************************************)
EXTENDS Naturals

CONSTANTS Items, MaxGrants

VARIABLES
    phase,      \* "gone" with whatever the item belongs to
    grants,     \* how often the item has been claimed
    done,       \* the grants whose holder has done its work
    verdict     \* the grant whose result is published; 0 without one

Phases == {"open", "held", "closed", "gone"}

FTypeOK ==
    /\ phase \in [Items -> Phases]
    /\ grants \in [Items -> 0..MaxGrants]
    /\ done \in [Items -> SUBSET (1..MaxGrants)]
    /\ verdict \in [Items -> 0..MaxGrants]

Init ==
    /\ phase = [i \in Items |-> "open"]
    /\ grants = [i \in Items |-> 0]
    /\ done = [i \in Items |-> {}]
    /\ verdict = [i \in Items |-> 0]

Kept(i) == UNCHANGED <<phase[i], grants[i], done[i], verdict[i]>>

Grants(i) ==
    /\ phase[i] = "open" /\ phase'[i] = "held"
    /\ grants[i] < MaxGrants /\ grants'[i] = grants[i] + 1
    /\ UNCHANGED <<done[i], verdict[i]>>

\* Whoever was granted the item, by now or long ago.
Works(i) ==
    /\ \E n \in 1..grants[i] : done'[i] = done[i] \cup {n}
    /\ UNCHANGED <<phase[i], grants[i], verdict[i]>>

Publishes(i) ==
    /\ phase[i] = "held" /\ phase'[i] = "closed"
    /\ grants[i] \in done[i] /\ verdict'[i] = grants[i]
    /\ UNCHANGED <<grants[i], done[i]>>

\* A claim is given back only while another one may be granted.
GivesBack(i) ==
    /\ phase[i] = "held" /\ phase'[i] = "open"
    /\ grants[i] < MaxGrants
    /\ UNCHANGED <<grants[i], done[i], verdict[i]>>

\* An item that is closed without a result; one that was never claimed may count
\* its refusal as an attempt.
Closes(i) ==
    /\ phase[i] \in {"open", "held"} /\ phase'[i] = "closed"
    /\ \/ grants'[i] = grants[i]
       \/ phase[i] = "open" /\ grants[i] = 0 /\ grants'[i] = 1
    /\ UNCHANGED <<done[i], verdict[i]>>

Goes(i) ==
    /\ phase'[i] = "gone" /\ verdict'[i] = 0
    /\ UNCHANGED <<grants[i], done[i]>>

Moves(i) == Grants(i) \/ Works(i) \/ Publishes(i) \/ GivesBack(i) \/ Closes(i) \/ Goes(i)

\* Every item keeps its own promise; one transaction may move several: recovery and
\* cancellation do.
Next == FTypeOK' /\ \A i \in Items : Moves(i) \/ Kept(i)

Spec == Init /\ [][Next]_<<phase, grants, done, verdict>>
===============================================================================
