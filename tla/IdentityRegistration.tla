------------------------ MODULE IdentityRegistration ------------------------
(***************************************************************************)
(* Registration of email identities by product workloads: the rows of      *)
(* email_verifications and email_verification_audit, the persons, accounts *)
(* and email identities they lead to, the blind indexes an email is found  *)
(* by, the installations linked to a person, and the subject aliases.      *)
(*                                                                         *)
(* An instance of the service handles a request in several transactions:   *)
(* it claims the attested verification, opens the email, registers the     *)
(* identity and consumes the verification in one transaction, and then     *)
(* ensures the aliases.  It may stop between any two of them.  Instances   *)
(* run with their own keyring: a deployment starts new ones while old ones *)
(* are still handling requests, and an instance compares its keyring with  *)
(* the stored rows and with nothing else.  Whether the deployments were    *)
(* staged, so that no instance lacked a key another one was writing with,  *)
(* is recorded in a history variable that no action reads.                 *)
(*                                                                         *)
(* Abstractions.  An email stands for the message the blind index is made  *)
(* of (namespace, linkage scope, scope key, address); emails of global     *)
(* scope form a subset.  A registration that creates a person creates one  *)
(* identity of it and none is added later, so a person is its identity.    *)
(* The rows are those of one product.  A claim token is fresh for every    *)
(* request and an instance here handles one at a time, so the token is the *)
(* instance.  verified_at never changes once set and is a flag.            *)
(***************************************************************************)
EXTENDS Integers, FiniteSets, Sequences

CONSTANTS
    Verifications, Persons, Installations,
    Instances,      \* processes of the service
    Emails,
    GlobalEmails,   \* those of linkage scope "global"
    None,           \* NULL
    MaxVersion,     \* newest blind-index key
    Deployments,    \* what an instance ran with and what it may be started with next
    TTL,            \* emailVerificationTTL
    Lease,          \* EmailVerificationClaimLease, 5 min
    Delay,          \* how long before its commit a transaction's caller may have read the clock
    CleanupLimit,   \* rows one cleanup handles (100 in the code)
    LastBegin,      \* bound on the time of the last verification
    Horizon         \* bound on time

ASSUME DurationAssumption ==
    /\ {TTL, Lease, Horizon, CleanupLimit, MaxVersion} \subseteq Nat \ {0}
    /\ {Delay, LastBegin} \subseteq Nat

Versions == 1..MaxVersion

\* NewBlindIndexer demands the key of the current version.
Keyrings == {c \in [known : SUBSET Versions, current : Versions] : c.current \in c.known}

ASSUME DeploymentAssumption == Deployments \subseteq Keyrings \X Keyrings
ASSUME EmailAssumption == GlobalEmails \subseteq Emails
ASSUME NoneAssumption == None \notin Verifications \cup Persons \cup Installations \cup Instances \cup Emails

VARIABLES
    now,
    verification,  \* rows of email_verifications; "gone" once deleted
    audit,         \* person_id and installation_id of the email_verification_audit row
    person,        \* persons: "absent", "live" or "deleted" (deleted_at is set)
    account,       \* status of the person's account, or "none"
    identity,      \* email of the person's email_identities row, or None
    blind,         \* identity an email_blind_indexes row leads to, by email and key version
    installation,  \* status and person_id of product_installations
    alias,         \* person_id of the subject_aliases row of a subject, or "absent"
    keyring,       \* configured and current key versions of an instance
    staged,        \* history: whether every deployment so far was staged
    call           \* the request an instance is handling

tables == <<verification, audit, person, account, identity, blind, installation, alias>>
vars == <<now, tables, keyring, staged, call>>

-----------------------------------------------------------------------------
Subjects == ({"person", "account"} \X Persons) \cup ({"installation"} \X Installations)

NoVerification == [state |-> "new", email |-> None, installation |-> None, index |-> 0,
                   expires |-> 0, verified |-> FALSE, token |-> None, at |-> 0]
Gone == [NoVerification EXCEPT !.state = "gone"]
NoAudit == [person |-> None, installation |-> None]
NoAlias == [present |-> FALSE, person |-> None]
Idle == [stage |-> "idle", verification |-> None, todo |-> <<>>]

Init ==
    /\ now = 0
    /\ verification = [v \in Verifications |-> NoVerification]
    /\ audit = [v \in Verifications |-> NoAudit]
    /\ person = [p \in Persons |-> "absent"]
    /\ account = [p \in Persons |-> "none"]
    /\ identity = [p \in Persons |-> None]
    /\ blind = [e \in Emails |-> [k \in Versions |-> None]]
    /\ installation = [n \in Installations |-> [state |-> "absent", person |-> None]]
    /\ alias = [s \in Subjects |-> NoAlias]
    /\ keyring = [i \in Instances |-> [known |-> {1}, current |-> 1]]
    /\ staged = TRUE
    /\ call = [i \in Instances |-> Idle]

\* Time a caller may have read before the transaction it belongs to commits.
ClockReads == {t \in 0..now : now - t <= Delay}

-----------------------------------------------------------------------------
(* Installations and verifications. *)

\* createInstallation: the row, then (EnsureSubjectAlias) its alias.
CreateInstallation(i, n) ==
    /\ call[i] = Idle
    /\ installation[n].state = "absent"
    /\ installation' = [installation EXCEPT ![n].state = "active"]
    /\ call' = [call EXCEPT ![i] = [Idle EXCEPT !.stage = "alias", !.todo = <<<<"installation", n>>>>]]
    /\ UNCHANGED <<now, verification, audit, person, account, identity, blind, alias, keyring, staged>>

BeginEmailVerification(i, v, e, n) ==
    /\ now <= LastBegin
    /\ verification[v].state = "new"
    /\ n # None => installation[n].state = "active"
    /\ \E t \in ClockReads :
          verification' = [verification EXCEPT ![v] =
              [NoVerification EXCEPT !.state = "open", !.email = e, !.installation = n,
                                     !.index = keyring[i].current, !.expires = t + TTL]]
    /\ UNCHANGED <<now, audit, person, account, identity, blind, installation, alias, keyring, staged, call>>

VerifyEmailOwnership(v) ==
    /\ verification[v].state = "open"
    /\ ~verification[v].verified /\ verification[v].token = None
    /\ \E t \in ClockReads : verification[v].expires > t
    /\ verification' = [verification EXCEPT ![v].verified = TRUE]
    /\ UNCHANGED <<now, audit, person, account, identity, blind, installation, alias, keyring, staged, call>>

-----------------------------------------------------------------------------
(* CompleteEmailVerification. *)

\* Mutant: the lease of an earlier claim is not waited for.
ClaimableAtOnce(v, t) ==
    /\ verification[v].state = "open" /\ verification[v].verified
    /\ verification[v].expires > t
    /\ verification[v].token = None \/ verification[v].at <= t

Claimable(v, t) ==
    /\ verification[v].state = "open" /\ verification[v].verified
    /\ verification[v].expires > t
    /\ verification[v].token = None \/ verification[v].at <= t - Lease

\* The claim; when its acknowledgement is lost, the repeated transaction finds
\* the claim it has just made and the request ends without releasing it.
ClaimVerifiedEmail(i, v) ==
    /\ call[i] = Idle
    /\ \E t \in ClockReads :
          /\ Claimable(v, t)
          /\ verification' = [verification EXCEPT ![v].token = i, ![v].at = t]
    /\ \/ call' = [call EXCEPT ![i] = [Idle EXCEPT !.stage = "claimed", !.verification = v]]
       \/ UNCHANGED call
    /\ UNCHANGED <<now, audit, person, account, identity, blind, installation, alias, keyring, staged>>

\* What RegisterVerifiedEmailIdentity demands of the row the claim was made on.
ClaimStands(i) ==
    LET row == verification[call[i].verification] IN
    /\ call[i].stage = "claimed"
    /\ row.state = "open" /\ row.token = i
    /\ row.at + Lease > now
    /\ row.expires > now
    /\ row.index \in keyring[i].known

\* Mutant: only the current version is looked up.
HitsOfCurrent(i, e) == {k \in {keyring[i].current} : blind[e][k] # None}

\* Versions under which the instance finds the email, and the one it takes:
\* the keys are tried in ascending order.
Hits(i, e) == {k \in keyring[i].known : blind[e][k] # None}
Matched(i, e) == CHOOSE k \in Hits(i, e) : \A l \in Hits(i, e) : k <= l

\* insertBlindIndex of the current version meets a row that is there already.
IndexCollides(i, e) ==
    Hits(i, e) # {} /\ Matched(i, e) # keyring[i].current /\ blind[e][keyring[i].current] # None

linkInstallation(n, p) ==
    n # None => /\ installation[n].state = "active"
                /\ installation[n].person \in {None, p}

\* Mutant: the aliases keep the person they had.
AliasesAsBefore(n, p) == alias

\* linkInstallation writes the person to the installation's aliases, too.
AliasesLinked(n, p) ==
    [s \in Subjects |-> IF s[1] = "installation" /\ s[2] = n /\ alias[s].present
                        THEN [alias[s] EXCEPT !.person = p] ELSE alias[s]]

\* Writes of registerEmailIdentityTx and consumeEmailVerificationTx for person p,
\* who exists or is created; the request says whether it wants an account.  The
\* response may be lost, and then the repeated transaction finds no verification
\* and the request fails.
Registered(i, p, withAccount) ==
    LET v == call[i].verification
        row == verification[v]
        n == row.installation
        status == IF account[p] = "none" /\ withAccount THEN "active" ELSE account[p]
    IN
    /\ linkInstallation(n, p)
    /\ person' = [person EXCEPT ![p] = "live"]
    /\ identity' = [identity EXCEPT ![p] = row.email]
    /\ account' = [account EXCEPT ![p] = status]
    /\ blind' = [blind EXCEPT ![row.email][keyring[i].current] = p]
    /\ installation' = IF n = None THEN installation ELSE [installation EXCEPT ![n].person = p]
    /\ alias' = AliasesLinked(n, p)
    /\ audit' = [audit EXCEPT ![v] = [person |-> p, installation |-> n]]
    /\ verification' = [verification EXCEPT ![v] = Gone]
    /\ \/ call' = [call EXCEPT ![i] = [Idle EXCEPT !.stage = "alias",
              !.todo = <<<<IF status = "none" THEN "person" ELSE "account", p>>, <<"person", p>>>>]]
       \/ call' = [call EXCEPT ![i] = [Idle EXCEPT !.stage = "releasing", !.verification = v]]
    /\ UNCHANGED <<now, keyring, staged>>

RegisterExisting(i) ==
    LET e == verification[call[i].verification].email IN
    /\ ClaimStands(i)
    /\ Hits(i, e) # {} /\ ~IndexCollides(i, e)
    /\ \E withAccount \in BOOLEAN : Registered(i, blind[e][Matched(i, e)], withAccount)

RegisterNew(i) ==
    /\ ClaimStands(i)
    /\ Hits(i, verification[call[i].verification].email) = {}
    /\ \E p \in Persons, withAccount \in BOOLEAN : person[p] = "absent" /\ Registered(i, p, withAccount)

\* The email cannot be opened or the registration is refused.
CompleteFails(i) ==
    /\ call[i].stage = "claimed"
    /\ call' = [call EXCEPT ![i].stage = "releasing"]
    /\ UNCHANGED <<now, tables, keyring, staged>>

ReleaseEmailVerification(i) ==
    LET v == call[i].verification IN
    /\ call[i].stage = "releasing"
    /\ verification' = IF verification[v].token = i
                       THEN [verification EXCEPT ![v].token = None, ![v].at = 0]
                       ELSE verification
    /\ call' = [call EXCEPT ![i] = Idle]
    /\ UNCHANGED <<now, audit, person, account, identity, blind, installation, alias, keyring, staged>>

\* The process stops, or a transaction other than the claim ends in an error:
\* the rest of the request is not done.
Abandon(i) ==
    /\ call[i] # Idle
    /\ call' = [call EXCEPT ![i] = Idle]
    /\ UNCHANGED <<now, tables, keyring, staged>>

-----------------------------------------------------------------------------
(* Subject aliases. *)

\* aliasPersonID: whether the subject may have an alias, and whose it is.
Aliasable(s) ==
    CASE s[1] = "person" -> person[s[2]] = "live"
      [] s[1] = "account" -> account[s[2]] = "active"
      [] s[1] = "installation" -> installation[s[2]].state = "active"
AliasPerson(s) == IF s[1] = "installation" THEN installation[s[2]].person ELSE s[2]

\* Mutant: the subject is not looked at again.
EnsureUnchecked(i) ==
    LET s == Head(call[i].todo) IN
    /\ call[i].stage = "alias"
    /\ alias' = IF alias[s].present THEN alias
                ELSE [alias EXCEPT ![s] = [present |-> TRUE, person |-> AliasPerson(s)]]
    /\ call' = [call EXCEPT ![i] = IF Len(call[i].todo) = 1 THEN Idle
                                   ELSE [call[i] EXCEPT !.todo = Tail(@)]]
    /\ UNCHANGED <<now, verification, audit, person, account, identity, blind, installation, keyring, staged>>

EnsureSubjectAlias(i) ==
    LET s == Head(call[i].todo) IN
    /\ call[i].stage = "alias"
    /\ Aliasable(s)
    /\ alias' = IF alias[s].present THEN alias
                ELSE [alias EXCEPT ![s] = [present |-> TRUE, person |-> AliasPerson(s)]]
    /\ call' = [call EXCEPT ![i] = IF Len(call[i].todo) = 1 THEN Idle
                                   ELSE [call[i] EXCEPT !.todo = Tail(@)]]
    /\ UNCHANGED <<now, verification, audit, person, account, identity, blind, installation, keyring, staged>>

-----------------------------------------------------------------------------
(* Erasure, as ErasePrivacyJob calls it. *)

InstallationsOf(p) == {n \in Installations : installation[n].person = p}

\* Mutant: evidence is erased by installation only.
EvidenceOfOthers(N, P) == [v \in Verifications |->
    IF audit[v].installation \in N THEN NoAudit ELSE audit[v]]

EvidenceLeft(N, P) == [v \in Verifications |->
    IF audit[v].installation \in N \/ audit[v].person \in P THEN NoAudit ELSE audit[v]]

\* Mutant: only the oldest key's index of an identity is deleted.
NewerIndexesLeft(reached) == [e \in Emails |-> [k \in Versions |->
    IF blind[e][k] \in reached /\ k = 1 THEN None ELSE blind[e][k]]]

IndexesLeft(reached) == [e \in Emails |-> [k \in Versions |->
    IF blind[e][k] \in reached THEN None ELSE blind[e][k]]]

\* eraseInstallationRecords for the installations N and erasePersonRecords for
\* the persons P, whose identities go when the erasure reaches them.
EraseRecords(N, P, reached) ==
    /\ verification' = [v \in Verifications |->
           IF verification[v].installation \in N THEN Gone ELSE verification[v]]
    /\ audit' = EvidenceLeft(N, P)
    /\ alias' = [s \in Subjects |->
           IF (s[1] = "installation" /\ s[2] \in N) \/ alias[s].person \in P THEN NoAlias ELSE alias[s]]
    /\ blind' = IndexesLeft(reached)
    /\ identity' = [p \in Persons |-> IF p \in reached THEN None ELSE identity[p]]
    /\ installation' = [n \in Installations |->
           IF n \in N THEN [state |-> "disabled", person |-> None] ELSE installation[n]]

erasePerson(p) ==
    /\ person[p] # "absent"
    /\ EraseRecords(InstallationsOf(p), {p}, {p})
    /\ account' = [account EXCEPT ![p] = IF @ = "none" THEN @ ELSE "deleted"]
    /\ person' = [person EXCEPT ![p] = "deleted"]
    /\ UNCHANGED <<now, keyring, staged, call>>

\* identityIDsForPerson leaves identities of global scope alone.
erasePersonProduct(p) ==
    /\ person[p] # "absent"
    /\ EraseRecords(InstallationsOf(p), {p}, IF identity[p] \in GlobalEmails THEN {} ELSE {p})
    /\ UNCHANGED <<now, person, account, keyring, staged, call>>

eraseInstallation(n) ==
    /\ installation[n].state # "absent"
    /\ EraseRecords({n}, {}, {})
    /\ UNCHANGED <<now, person, account, keyring, staged, call>>

-----------------------------------------------------------------------------
(* Cleanup, key rotation and time. *)

\* Mutant: claimed rows are left to their holders.
ExpiredUnclaimed(t) == {v \in Verifications : /\ verification[v].state = "open"
                                              /\ verification[v].expires <= t
                                              /\ verification[v].token = None}

Expired(t) == {v \in Verifications : /\ verification[v].state = "open"
                                     /\ verification[v].expires <= t
                                     /\ \/ verification[v].token = None
                                        \/ verification[v].at < t - Lease}

\* Any LIMIT rows in the order of expires_at.
Portion(S) == {T \in SUBSET S :
    /\ Cardinality(T) = IF Cardinality(S) < CleanupLimit THEN Cardinality(S) ELSE CleanupLimit
    /\ \A v \in T, w \in S \ T : verification[v].expires <= verification[w].expires}

DeleteExpiredEmailVerifications ==
    /\ \E t \in ClockReads : \E T \in Portion(Expired(t)) :
          /\ T # {}
          /\ verification' = [v \in Verifications |-> IF v \in T THEN Gone ELSE verification[v]]
    /\ UNCHANGED <<now, audit, person, account, identity, blind, installation, alias, keyring, staged, call>>

\* An instance starts only when its keyring has every version a row refers to.
ValidateBlindIndexVersions(known) ==
    /\ \A e \in Emails, k \in Versions : blind[e][k] # None => k \in known
    /\ \A v \in Verifications : verification[v].state = "open" => verification[v].index \in known

\* Every instance knows the key any instance writes with.
Staged == \A i, j \in Instances : keyring[i].current \in keyring[j].known

\* Between two requests the process is replaced by one with another keyring (a
\* process that stops during a request abandons it first).  What the other
\* instances run with plays no part.
Start(i, k) ==
    /\ call[i] = Idle
    /\ ValidateBlindIndexVersions(k.known)
    /\ keyring' = [keyring EXCEPT ![i] = k]
    /\ staged' = (staged /\ Staged')
    /\ UNCHANGED <<now, tables, call>>

\* The operator's deployments reach the instances one after the other.
Rotate(i) == \E d \in Deployments : d[1] = keyring[i] /\ Start(i, d[2])

Tick ==
    /\ now < Horizon
    /\ now' = now + 1
    /\ UNCHANGED <<tables, keyring, staged, call>>

-----------------------------------------------------------------------------
Handle(i) ==
    \/ \E n \in Installations : CreateInstallation(i, n)
    \/ \E v \in Verifications, e \in Emails, n \in Installations \cup {None} :
           BeginEmailVerification(i, v, e, n)
    \/ \E v \in Verifications : ClaimVerifiedEmail(i, v)
    \/ RegisterExisting(i)
    \/ RegisterNew(i)
    \/ CompleteFails(i)
    \/ ReleaseEmailVerification(i)
    \/ EnsureSubjectAlias(i)
    \/ Abandon(i)
    \/ Rotate(i)

Serve ==
    \/ \E i \in Instances : Handle(i)
    \/ \E v \in Verifications : VerifyEmailOwnership(v)
    \/ DeleteExpiredEmailVerifications
    \/ Tick

Erase ==
    \/ \E p \in Persons : erasePerson(p) \/ erasePersonProduct(p)
    \/ \E n \in Installations : eraseInstallation(n)

Next == Serve \/ Erase

Spec == Init /\ [][Next]_vars

\* The verification worker runs every minute in every instance; nothing else
\* is assumed to happen.
FairSpec == Spec /\ WF_vars(Tick) /\ WF_vars(DeleteExpiredEmailVerifications)

-----------------------------------------------------------------------------
(* Properties. *)

TypeOK ==
    /\ now \in 0..Horizon
    /\ verification \in [Verifications ->
           [state : {"new", "open", "gone"}, email : Emails \cup {None},
            installation : Installations \cup {None}, index : 0..MaxVersion,
            expires : 0..(Horizon + TTL), verified : BOOLEAN,
            token : Instances \cup {None}, at : 0..Horizon]]
    /\ audit \in [Verifications -> [person : Persons \cup {None}, installation : Installations \cup {None}]]
    /\ person \in [Persons -> {"absent", "live", "deleted"}]
    /\ account \in [Persons -> {"none", "active", "deleted"}]
    /\ identity \in [Persons -> Emails \cup {None}]
    /\ blind \in [Emails -> [Versions -> Persons \cup {None}]]
    /\ installation \in [Installations -> [state : {"absent", "active", "disabled"},
                                           person : Persons \cup {None}]]
    /\ alias \in [Subjects -> [present : BOOLEAN, person : Persons \cup {None}]]
    /\ keyring \in [Instances -> Keyrings] /\ staged \in BOOLEAN
    /\ \A i \in Instances : call[i].stage \in {"idle", "claimed", "releasing", "alias"}

\* However registrations and erasures interleave while keys are added, made
\* current and removed, an email belongs to one person: registerEmailIdentityTx
\* creates no second identity for an email that has one.  This rests on the
\* operator: no deployment may leave an instance running that lacks the key
\* another one writes with (see Staged).  Neither ValidateBlindIndexVersions nor
\* the steps of docs/operations.md provide for it, and without it an instance
\* that is still draining does not find what a new one has registered.
OnePersonPerEmail ==
    staged => \A p, q \in Persons : identity[p] # None /\ identity[p] = identity[q] => p = q

\* Every blind index leads to the identity of its email, and every identity is
\* found by some index, whatever keys the instances run with: a dangling index
\* would fail every later registration of the email, a lost one would create a
\* second person.
IndexesFindIdentity ==
    /\ \A e \in Emails, k \in Versions : blind[e][k] # None => identity[blind[e][k]] = e
    /\ \A p \in Persons : identity[p] # None => p \in {blind[identity[p]][k] : k \in Versions}

\* Evidence replaces the verification: while an audit row exists, the encrypted
\* email it was made from is gone, and its person still has the identity it
\* proves; erasure removes both together.
EvidenceReplacesVerification ==
    \A v \in Verifications : audit[v].person # None =>
        /\ verification[v].state = "gone"
        /\ identity[audit[v].person] # None

\* The alias of an installation names the person the installation is linked to,
\* although the two rows are written by different transactions; the deletion of
\* a person finds the aliases by that column.
AliasFollowsLink ==
    \A n \in Installations : alias[<<"installation", n>>].present =>
        alias[<<"installation", n>>].person = installation[n].person

\* Nothing leads to a person who was erased for good: no identity, index, alias,
\* linked installation or evidence.  No request that was under way when its
\* subject was erased, a person or an installation, brings an alias of it back.
ErasedLeavesNoTrace ==
    /\ \A p \in Persons : person[p] = "deleted" =>
           /\ identity[p] = None /\ account[p] # "active"
           /\ \A e \in Emails, k \in Versions : blind[e][k] # p
           /\ \A s \in Subjects : alias[s].person # p
           /\ \A n \in Installations : installation[n].person # p
           /\ \A v \in Verifications : audit[v].person # p
    /\ \A s \in Subjects : alias[s].present => Aliasable(s)

\* Nobody takes over a verification whose claim is within its lease: until then
\* it is only released or consumed by its holder, or erased with its
\* installation.  (Claims use a clock read before the transaction.)
Held(v) == verification[v].token # None /\ verification[v].at + Lease > now
LiveClaimKept ==
    [][\A v \in Verifications : Held(v) =>
          \/ verification'[v] = verification[v]
          \/ call[verification[v].token].stage \in {"claimed", "releasing"}
             /\ call'[verification[v].token] # call[verification[v].token]
          \/ \E n \in Installations \cap {verification[v].installation} :
                 installation[n].state = "active" /\ installation'[n].state = "disabled"]_vars

\* Once a verification expires it disappears, with its encrypted email, whether
\* or not it was claimed by an instance that stopped.
VerificationEnds ==
    \A v \in Verifications : verification[v].state = "open" ~> verification[v].state = "gone"

\* A registration whose claim stands does not fail because of the index rows
\* other registrations of the same email have written.
NoIndexCollision ==
    \A i \in Instances : ClaimStands(i) => ~IndexCollides(i, verification[call[i].verification].email)
=============================================================================
