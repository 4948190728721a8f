---------------------------- MODULE AtMostOnceEffect ----------------------------
(***************************************************************************)
(* What the queue promises about an effect outside the database (a file    *)
(* written to a provider): it is announced before it may leave, it leaves  *)
(* at most once, and the verdict the queue publishes never claims more     *)
(* than it knows.  "clean" says that nothing left and nothing will;        *)
(* "confirmed" that it left; "unknown" asks a person to look, and is the   *)
(* only verdict after which an announced request may still leave.          *)
(***************************************************************************)
CONSTANT Items

VARIABLES phase, verdict

Phases   == {"idle", "announced", "sent"}
Verdicts == {"open", "clean", "confirmed", "unknown"}

Init ==
    /\ phase = [i \in Items |-> "idle"]
    /\ verdict = [i \in Items |-> "open"]

Announce(i) ==
    /\ verdict[i] = "open"
    /\ phase[i] = "idle"
    /\ phase' = [phase EXCEPT ![i] = "announced"]
    /\ UNCHANGED verdict

Send(i) ==
    /\ verdict[i] \in {"open", "unknown"}
    /\ phase[i] = "announced"
    /\ phase' = [phase EXCEPT ![i] = "sent"]
    /\ UNCHANGED verdict

\* The verdicts that are true of an item.
Earned(i) ==
    CASE phase[i] = "idle" -> {"clean"}
      [] phase[i] = "announced" -> {"unknown"}
      [] OTHER -> {"confirmed", "unknown"}

\* One transaction may conclude several items: cancelling a scan fails every
\* upload of it that still waits.
Conclude ==
    /\ verdict' \in [Items -> Verdicts]
    /\ \A i \in Items :
        verdict'[i] # verdict[i] => verdict[i] = "open" /\ verdict'[i] \in Earned(i)
    /\ UNCHANGED phase

Next == Conclude \/ \E i \in Items : Announce(i) \/ Send(i)

Spec == Init /\ [][Next]_<<phase, verdict>>
===============================================================================
