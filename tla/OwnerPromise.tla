---------------------------- MODULE OwnerPromise ----------------------------
(***************************************************************************)
(* What the service promises the owner of a monitoring task, with nothing  *)
(* said of claims, leases, retries, restarts or the mail channel.  A task  *)
(* is watched until its tickets are found, it is cancelled or its date     *)
(* passes.  Each kind of mail goes out at most once; the opening mail only *)
(* between finding and telling, the expiry mail only after the date        *)
(* passed; and a task counts as told only when its opening mail went out.  *)
(***************************************************************************)
EXTENDS Naturals

CONSTANTS Task, Kind

VARIABLES
    phase,   \* [Task -> Phase]
    mails    \* mails that reached the provider, [Task \X Kind -> Nat]

Phase == {"none", "watched", "found", "told", "cancelled", "expired"}

Init ==
    /\ phase = [t \in Task |-> "none"]
    /\ mails = [n \in Task \X Kind |-> 0]

\* The tasks of S, all in a phase of the set from, enter phase p.
Enter(S, from, p) ==
    /\ \A t \in S : phase[t] \in from
    /\ phase' = [t \in Task |-> IF t \in S THEN p ELSE phase[t]]
    /\ UNCHANGED mails

Watch(t) == Enter({t}, {"none"}, "watched")
Find(t) == Enter({t}, {"watched"}, "found")
Tell(t) == mails[<<t, "OPENING">>] = 1 /\ Enter({t}, {"found"}, "told")
Cancel(t) == Enter({t}, {"watched", "found"}, "cancelled")
Expire(S) == Enter(S, {"watched"}, "expired")

SendMail(t, k) ==
    /\ mails[<<t, k>>] = 0
    /\ k = "OPENING" => phase[t] = "found"
    /\ k = "EXPIRY" => phase[t] = "expired"
    /\ phase[t] # "none"
    /\ mails' = [mails EXCEPT ![<<t, k>>] = 1]
    /\ UNCHANGED phase

Next ==
    \/ \E t \in Task : \/ Watch(t) \/ Find(t) \/ Tell(t) \/ Cancel(t)
                       \/ \E k \in Kind : SendMail(t, k)
    \/ \E S \in SUBSET Task : Expire(S)

Spec == Init /\ [][Next]_<<phase, mails>>
=============================================================================
