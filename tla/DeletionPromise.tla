-------------------------- MODULE DeletionPromise --------------------------
(***************************************************************************)
(* What the service promises about a deletion request, without workers,    *)
(* leases, retries or tables: a request owes a fixed set of aliases; while *)
(* it is open Metric is asked for some of them and completes some; it may  *)
(* be withdrawn only before Metric was asked for anything; its subject is  *)
(* erased only when Metric has completed every alias it owes; and either   *)
(* end is final.                                                           *)
(***************************************************************************)
CONSTANTS Requests, Aliases

VARIABLES
    phase,   \* "none", "open", "withdrawn" or "erased"
    owed,    \* the aliases a request fans out to
    asked,   \* deletions requested from Metric
    done     \* deletions Metric has completed

vars == <<phase, owed, asked, done>>

Owed(r) == {r} \X owed[r]

Init ==
    /\ phase = [r \in Requests |-> "none"]
    /\ owed = [r \in Requests |-> {}]
    /\ asked = {}
    /\ done = {}

Open(r) ==
    /\ phase[r] = "none"
    /\ phase' = [phase EXCEPT ![r] = "open"]
    /\ \E fanout \in SUBSET Aliases : owed' = [owed EXCEPT ![r] = fanout]
    /\ UNCHANGED <<asked, done>>

\* Metric is asked for an alias, completes one it was asked for, or both.
Metric(r, d) ==
    /\ phase[r] = "open"
    /\ d \in Owed(r)
    /\ asked' = asked \cup {d}
    /\ done' \in {done, done \cup {d}}
    /\ UNCHANGED <<phase, owed>>

Withdraw(r) ==
    /\ phase[r] = "open"
    /\ Owed(r) \cap asked = {}
    /\ phase' = [phase EXCEPT ![r] = "withdrawn"]
    /\ UNCHANGED <<owed, asked, done>>

Erase(r) ==
    /\ phase[r] = "open"
    /\ Owed(r) \subseteq done
    /\ phase' = [phase EXCEPT ![r] = "erased"]
    /\ UNCHANGED <<owed, asked, done>>

Next ==
    \E r \in Requests :
        Open(r) \/ Withdraw(r) \/ Erase(r) \/ \E d \in Requests \X Aliases : Metric(r, d)

Spec == Init /\ [][Next]_vars
=============================================================================
