--------------------------- MODULE Organizations ---------------------------
(***************************************************************************)
(* Organizations, the submissions in which subjects name one, and the      *)
(* memberships of persons.                                                 *)
(*                                                                         *)
(* Workloads file submissions and memberships: the handler resolves the    *)
(* subject's key, and a later transaction looks at the subject again and   *)
(* writes.  Administrators create organizations, review submissions and    *)
(* merge organizations, each in one serializable transaction.  Privacy     *)
(* erasure removes a subject's rows, for one product or for good.          *)
(*                                                                         *)
(* Abstractions.  Names, roles, dates and audit texts are left out, and so *)
(* are versions: within a serializable transaction the compare-and-set     *)
(* always finds the version it has read.  Which installations belong to a  *)
(* person is left out too: an erasure that takes a person's installations  *)
(* along is several steps here.                                            *)
(***************************************************************************)
EXTENDS FiniteSets, Integers

CONSTANTS
    Orgs, Submissions, Persons, Installations, Products,
    Calls,      \* requests of workloads handled at a time
    None

ASSUME SubjectsDiffer == Persons \cap Installations = {} /\ None \notin Orgs \cup Persons \cup Installations

\* A row is there when its status is not None.
ASSUME NullAssumption == None \notin {"active", "inactive", "pending"}

VARIABLES
    organization,  \* rows of organizations: status and merged_into_id
    submission,    \* rows of organization_submissions
    membership,    \* status of the row of memberships, by its primary key
    audit,         \* organization_merge_audit
    live,          \* subjects that are neither deleted nor disabled
    call           \* a request whose subject has been resolved

vars == <<organization, submission, membership, audit, live, call>>

-----------------------------------------------------------------------------
Subjects == Persons \cup Installations
MemberStatus == {"active", "inactive", "pending"}
Absent == [status |-> "absent", into |-> None]

Init ==
    /\ organization = [o \in Orgs |-> Absent]
    /\ submission = [s \in Submissions |-> None]
    /\ membership = [p \in Persons |-> [o \in Orgs |-> [q \in Products |-> None]]]
    /\ audit = {}
    /\ live = Subjects
    /\ call = [c \in Calls |-> None]

activeOrganization(o) == organization[o].status = "active"

\* validateSubjectWith
validSubject(x) == x \in live

-----------------------------------------------------------------------------
(* Workloads. *)

\* The handlers resolve the subject's key before the transaction.
ResolveSubjectAlias(c, x, q) ==
    /\ call[c] = None
    /\ validSubject(x)
    /\ call' = [call EXCEPT ![c] = [subject |-> x, product |-> q]]
    /\ UNCHANGED <<organization, submission, membership, audit, live>>

\* Mutant: the subject is not looked at again.
FileUnchecked(c, s) ==
    /\ call[c] # None /\ submission[s] = None
    /\ submission' = [submission EXCEPT ![s] =
           [by |-> call[c].subject, product |-> call[c].product, status |-> "pending", canonical |-> None]]
    /\ call' = [call EXCEPT ![c] = None]
    /\ UNCHANGED <<organization, membership, audit, live>>

CreateOrganizationSubmission(c, s) ==
    /\ call[c] # None /\ submission[s] = None
    /\ validSubject(call[c].subject)
    /\ submission' = [submission EXCEPT ![s] =
           [by |-> call[c].subject, product |-> call[c].product, status |-> "pending", canonical |-> None]]
    /\ call' = [call EXCEPT ![c] = None]
    /\ UNCHANGED <<organization, membership, audit, live>>

\* Mutant: a membership of a merged organization is accepted.
EnrolAnywhere(c, o, status) ==
    /\ call[c] # None /\ call[c].subject \in Persons
    /\ organization[o] # Absent
    /\ validSubject(call[c].subject)
    /\ membership' = [membership EXCEPT ![call[c].subject][o][call[c].product] = status]
    /\ call' = [call EXCEPT ![c] = None]
    /\ UNCHANGED <<organization, submission, audit, live>>

\* A new row, or the row of the same person, organization and product updated.
CreateMembership(c, o, status) ==
    /\ call[c] # None /\ call[c].subject \in Persons
    /\ activeOrganization(o)
    /\ validSubject(call[c].subject)
    /\ membership' = [membership EXCEPT ![call[c].subject][o][call[c].product] = status]
    /\ call' = [call EXCEPT ![c] = None]
    /\ UNCHANGED <<organization, submission, audit, live>>

\* A request fails or its process stops.
Abandon(c) ==
    /\ call[c] # None
    /\ call' = [call EXCEPT ![c] = None]
    /\ UNCHANGED <<organization, submission, membership, audit, live>>

-----------------------------------------------------------------------------
(* Administrators. *)

CreateOrganization(o) ==
    /\ organization[o] = Absent
    /\ organization' = [organization EXCEPT ![o] = [status |-> "active", into |-> None]]
    /\ UNCHANGED <<submission, membership, audit, live, call>>

\* resolveOrganizationSubmission accepts a rejection without an organization
\* or a match with one.
Resolutions == {<<"rejected", None>>} \cup ({"matched"} \X Orgs)

ResolveOrganizationSubmission(s, status, o) ==
    /\ submission[s] # None /\ submission[s].status = "pending"
    /\ o # None => activeOrganization(o)
    /\ submission' = [submission EXCEPT ![s].status = status, ![s].canonical = o]
    /\ UNCHANGED <<organization, membership, audit, live, call>>

\* Mutant: the rows of the source are dropped, whether the target has them or not.
dropMemberships(source, target) ==
    membership' = [p \in Persons |-> [o \in Orgs |-> [q \in Products |->
                      IF o = source THEN None ELSE membership[p][o][q]]]]

\* A row of the source goes to the target unless the person has one there for
\* the same product; it leaves the source in either case.
moveMemberships(source, target) ==
    membership' = [p \in Persons |-> [o \in Orgs |-> [q \in Products |->
                      CASE o = source -> None
                        [] o = target /\ membership[p][target][q] = None -> membership[p][source][q]
                        [] OTHER -> membership[p][o][q]]]]

\* Mutant: the target of a merge need only exist.
MergeIntoAny(source, target) ==
    /\ source # target
    /\ organization[target] # Absent
    /\ activeOrganization(source)
    /\ organization' = [organization EXCEPT ![source] = [status |-> "merged", into |-> target]]
    /\ audit' = audit \cup {<<source, target>>}
    /\ submission' = [s \in Submissions |->
           IF submission[s] # None /\ submission[s].canonical = source
           THEN [submission[s] EXCEPT !.canonical = target, !.status = "merged"] ELSE submission[s]]
    /\ moveMemberships(source, target)
    /\ UNCHANGED <<live, call>>

MergeOrganization(source, target) ==
    /\ source # target
    /\ activeOrganization(target) /\ activeOrganization(source)
    /\ organization' = [organization EXCEPT ![source] = [status |-> "merged", into |-> target]]
    /\ audit' = audit \cup {<<source, target>>}
    /\ submission' = [s \in Submissions |->
           IF submission[s] # None /\ submission[s].canonical = source
           THEN [submission[s] EXCEPT !.canonical = target, !.status = "merged"] ELSE submission[s]]
    /\ moveMemberships(source, target)
    /\ UNCHANGED <<live, call>>

-----------------------------------------------------------------------------
(* Privacy erasure. *)

\* The rows of subject x in the products Q.
EraseRecords(x, Q) ==
    /\ submission' = [s \in Submissions |->
           IF submission[s] # None /\ submission[s].by = x /\ submission[s].product \in Q
           THEN None ELSE submission[s]]
    /\ membership' = [p \in Persons |-> [o \in Orgs |-> [q \in Products |->
           IF p = x /\ q \in Q THEN None ELSE membership[p][o][q]]]]
    /\ UNCHANGED <<organization, audit, call>>

\* A person's rows in one product; the person remains.
erasePersonProduct(p, q) == p \in live /\ EraseRecords(p, {q}) /\ UNCHANGED live

\* A person or an installation for good.
eraseSubject(x) == x \in live /\ EraseRecords(x, Products) /\ live' = live \ {x}

-----------------------------------------------------------------------------
Request(c) ==
    \/ \E x \in Subjects, q \in Products : ResolveSubjectAlias(c, x, q)
    \/ \E s \in Submissions : CreateOrganizationSubmission(c, s)
    \/ \E o \in Orgs, status \in MemberStatus : CreateMembership(c, o, status)
    \/ Abandon(c)

Administer ==
    \/ \E o \in Orgs : CreateOrganization(o)
    \/ \E s \in Submissions, r \in Resolutions : ResolveOrganizationSubmission(s, r[1], r[2])
    \/ \E source, target \in Orgs : MergeOrganization(source, target)

Erase ==
    \/ \E p \in Persons, q \in Products : erasePersonProduct(p, q)
    \/ \E x \in Subjects : eraseSubject(x)

Next == (\E c \in Calls : Request(c)) \/ Administer \/ Erase

Spec == Init /\ [][Next]_vars

-----------------------------------------------------------------------------
(* Properties. *)

TypeOK ==
    /\ organization \in [Orgs -> [status : {"absent", "active", "merged"}, into : Orgs \cup {None}]]
    /\ submission \in [Submissions -> [by : Subjects, product : Products, canonical : Orgs \cup {None},
                                       status : {"pending", "rejected", "matched", "merged"}] \cup {None}]
    /\ membership \in [Persons -> [Orgs -> [Products -> MemberStatus \cup {None}]]]
    /\ audit \subseteq Orgs \X Orgs
    /\ live \subseteq Subjects
    /\ call \in [Calls -> [subject : Subjects, product : Products] \cup {None}]

\* merged_into_id leads from o to x, in any number of steps: it leaves every set
\* that has o and not x.
LeadsTo(o, x) ==
    \A S \in SUBSET (Orgs \ {x}) : o \in S => \E y \in S : organization[y].into \notin S \cup {None}

\* The merges of o end in x.
EndsIn(o, x) == organization[x].into = None /\ LeadsTo(o, x)

\* However merges are chained, merged_into_id leads from every merged
\* organization to exactly one that is not merged further, which is active, and
\* the audit table has the merge that each link stands for.
MergesEndActive ==
    \A o \in Orgs : organization[o].status = "merged" =>
        /\ \E home \in Orgs : activeOrganization(home) /\ \A x \in Orgs : EndsIn(o, x) <=> x = home
        /\ <<o, organization[o].into>> \in audit

\* No membership and no reviewed submission refers to an organization that has
\* been merged away, although requests and reviews race with merges.
ReferencesAreActive ==
    /\ \A p \in Persons, o \in Orgs, q \in Products : membership[p][o][q] # None => activeOrganization(o)
    /\ \A s \in Submissions : submission[s] # None /\ submission[s].canonical # None =>
           activeOrganization(submission[s].canonical)

\* Rows of a subject that was erased for good do not come back, although a
\* request may have resolved the subject's key before.
ErasedHasNoRows ==
    /\ \A p \in Persons, o \in Orgs, q \in Products : membership[p][o][q] # None => p \in live
    /\ \A s \in Submissions : submission[s] # None => submission[s].by \in live

\* A merge takes nobody's membership away: who had a row for a product still has
\* one where the organization has gone, unless the person's rows are erased.
StandingKept ==
    [][\A p \in Persons, o \in Orgs, q \in Products : membership[p][o][q] # None =>
          \/ \E home \in Orgs : membership'[p][home][q] # None /\ EndsIn(o, home)'
          \/ \A x \in Orgs : membership'[p][x][q] = None /\ organization' = organization]_vars
=============================================================================
