--------------------------- MODULE DeletionFanout ---------------------------
(***************************************************************************)
(* Deletion requests over the tables of IdentityRegistration: the handler  *)
(* resolves a subject key to its root, a transaction opens the request and *)
(* takes the aliases that Metric is told about, and some time later the    *)
(* erasure of the root completes it.  Meanwhile registrations go on.       *)
(*                                                                         *)
(* Abstractions.  What lies between the two transactions, receipts and     *)
(* operators included, is PrivacyDeletion; here an open request is erased  *)
(* or withdrawn at any time.  Retries of an idempotency key open nothing   *)
(* and are left out.                                                       *)
(***************************************************************************)
EXTENDS IdentityRegistration

CONSTANT Requests

VARIABLE request   \* rows of privacy_requests with the aliases of their Metric steps

fanoutVars == <<vars, request>>

NoRequest == [stage |-> "new", subject |-> <<>>, key |-> <<>>, scope |-> "product", steps |-> {}, late |-> {}]

FanoutInit == Init /\ request = [r \in Requests |-> NoRequest]

\* rootSubject: the person of the alias if it has one, and else the installation.
rootSubject(s) == IF alias[s].person # None THEN <<"person", alias[s].person>> ELSE s

validateSubject(s) == IF s[1] = "person" THEN person[s[2]] = "live" ELSE installation[s[2]].state = "active"

-----------------------------------------------------------------------------
\* createPrivacyRequest resolves the key; only a person can be deleted everywhere.
ResolveSubject(r, s, scope) ==
    /\ request[r].stage = "new"
    /\ alias[s].present
    /\ scope = "all" => alias[s].person # None
    /\ request' = [request EXCEPT ![r] =
           [NoRequest EXCEPT !.stage = "resolved", !.subject = rootSubject(s), !.key = s, !.scope = scope]]
    /\ UNCHANGED vars

\* Mutant: aliases of linked installations are not asked for.
ownAliases(p) == {s \in Subjects : alias[s].present /\ alias[s].person = p /\ s[1] # "installation"}

privacyFanoutAliases(p) == {s \in Subjects : alias[s].present /\ alias[s].person = p}

\* A person without aliases is refused; the request of an installation has the
\* key it was made with.
CreatePrivacyRequest(r) ==
    LET root == request[r].subject
        steps == IF root[1] = "person" THEN privacyFanoutAliases(root[2]) ELSE {request[r].key}
    IN
    /\ request[r].stage = "resolved"
    /\ validateSubject(root)
    /\ steps # {}
    /\ request' = [request EXCEPT ![r].stage = "open", ![r].steps = steps]
    /\ UNCHANGED vars

\* The request is refused, or an operator rejects or cancels it.
Withdraw(r) ==
    /\ request[r].stage \in {"resolved", "open"}
    /\ request' = [request EXCEPT ![r] = [NoRequest EXCEPT !.stage = "withdrawn"]]
    /\ UNCHANGED vars

ErasePrivacyJob(r) ==
    LET root == request[r].subject IN
    /\ request[r].stage = "open"
    /\ CASE root[1] = "installation" -> eraseInstallation(root[2])
         [] root[1] = "person" /\ request[r].scope = "product" -> erasePersonProduct(root[2])
         [] root[1] = "person" /\ request[r].scope = "all" -> erasePerson(root[2])
    /\ request' = [request EXCEPT ![r] = [NoRequest EXCEPT !.stage = "completed"]]

-----------------------------------------------------------------------------
\* Aliases that became a person's in this step; each open request of the person
\* remembers them (no code reads this).
Joined(p) == {s \in Subjects : alias'[s].present /\ alias'[s].person = p /\ alias[s] # alias'[s]}
Remember ==
    request' = [r \in Requests |->
        IF request[r].stage = "open" /\ request[r].subject[1] = "person"
        THEN [request[r] EXCEPT !.late = @ \cup (Joined(request[r].subject[2]) \ request[r].steps)]
        ELSE request[r]]

FanoutNext ==
    \/ Serve /\ Remember
    \/ \E r \in Requests :
          \/ \E s \in Subjects, scope \in {"product", "all"} : ResolveSubject(r, s, scope)
          \/ CreatePrivacyRequest(r) \/ Withdraw(r) \/ ErasePrivacyJob(r)

FanoutSpec == FanoutInit /\ [][FanoutNext]_fanoutVars

FairFanoutSpec ==
    /\ FanoutSpec
    /\ WF_fanoutVars(Tick /\ Remember)
    /\ WF_fanoutVars(DeleteExpiredEmailVerifications /\ Remember)

-----------------------------------------------------------------------------
(* Properties. *)

\* An erasure takes an alias away without Metric having been told of it only if
\* the alias was created, or its installation linked to the person, after the
\* request was opened: what the person had by then has a Metric step, whatever
\* was registered between the resolution of the key and the transaction.
FannedOutOrLate ==
    [][\A r \in Requests : request[r].stage = "open" /\ request'[r].stage = "completed" =>
          \A s \in Subjects : alias[s].present /\ ~alias'[s].present =>
              s \in request[r].steps \cup request[r].late]_fanoutVars
=============================================================================
