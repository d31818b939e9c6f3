-------------------------- MODULE AccountSessions --------------------------
(***************************************************************************)
(* Online sessions of one product's public accounts: the rows of           *)
(* account_sessions and account_refresh_tokens, the session a registration *)
(* flow points to, and what privacy deletion and cleanup do to them.       *)
(*                                                                         *)
(* A session is a family of refresh capabilities that rotate: presenting   *)
(* the current one yields its successor, presenting a used one closes the  *)
(* family.  A capability can be presented by anyone who ever held it, any  *)
(* number of times and at any moment, and the database client repeats a    *)
(* rotation whose commit it did not see acknowledged; a repetition finds   *)
(* the capability used and is one more presentation of it.                 *)
(*                                                                         *)
(* Abstractions.  Every capability of a family ends with its session, 90   *)
(* days after registration, so time is the flag "over" of the session.     *)
(* Account and person are one: a public account belongs to the person its  *)
(* product-scoped email identifies.  An erased account never returns,      *)
(* because the same email registers a new person.                          *)
(***************************************************************************)
EXTENDS Naturals, FiniteSets

CONSTANTS
    Sessions,       \* session identifiers
    Tokens,         \* refresh capabilities (their hashes)
    Installations,
    Accounts,
    None,           \* NULL
    CleanupLimit    \* rows one cleanup handles (100 in the code)

ASSUME CleanupLimitAssumption == CleanupLimit \in Nat \ {0}
ASSUME NoneAssumption == None \notin Sessions \cup Accounts \cup Installations
ASSUME SubjectAssumption == Accounts \cap Installations = {}

VARIABLES
    session,   \* rows of account_sessions
    token,     \* rows of account_refresh_tokens
    flow,      \* session_id of an installation's public_registration_flows row
    linked,    \* person_id of an installation
    subject    \* "live", "deleting" or "erased", for accounts and installations

vars == <<session, token, flow, linked, subject>>

-----------------------------------------------------------------------------
NoSession == [state |-> "absent", account |-> None, installation |-> None, over |-> FALSE]
NoToken == [state |-> "absent", session |-> None]

Init ==
    /\ session = [x \in Sessions |-> NoSession]
    /\ token = [t \in Tokens |-> NoToken]
    /\ flow = [i \in Installations |-> None]
    /\ linked = [i \in Installations |-> None]
    /\ subject = [y \in Accounts \cup Installations |-> "live"]

\* Mutant: only the account's own deletion requests count.
AccountDeletionPending(a, i) == subject[a] = "deleting"

\* publicAccountDeletionPending looks for an open request of either subject.
DeletionPending(a, i) == "deleting" \in {subject[a], subject[i]}

\* revokeAccountSessionTx
Revoked(row) == IF row.state = "active" THEN [row EXCEPT !.state = "revoked"] ELSE row

\* Mutant: a new login leaves the previous session open.
CompleteBesidePrevious(i, a, x, t) ==
    /\ subject[i] # "erased" /\ subject[a] # "erased"
    /\ ~DeletionPending(a, i)
    /\ linked[i] \in {None, a}
    /\ session[x].state = "absent" /\ token[t].state = "absent"
    /\ session' = [session EXCEPT ![x] =
          [state |-> "active", account |-> a, installation |-> i, over |-> FALSE]]
    /\ token' = [token EXCEPT ![t] = [state |-> "unused", session |-> x]]
    /\ flow' = [flow EXCEPT ![i] = x]
    /\ linked' = [linked EXCEPT ![i] = a]
    /\ UNCHANGED subject

\* The session part of CompletePublicEmailChallenge, once the code is right:
\* link the installation, close the session it had, open a new family.
CompletePublicEmailChallenge(i, a, x, t) ==
    /\ subject[i] # "erased" /\ subject[a] # "erased"
    /\ ~DeletionPending(a, i)
    /\ linked[i] \in {None, a}
    /\ session[x].state = "absent" /\ token[t].state = "absent"
    /\ session' = [y \in Sessions |->
          IF y = x THEN [state |-> "active", account |-> a, installation |-> i, over |-> FALSE]
          ELSE IF y = flow[i] THEN Revoked(session[y])
          ELSE session[y]]
    /\ token' = [token EXCEPT ![t] = [state |-> "unused", session |-> x]]
    /\ flow' = [flow EXCEPT ![i] = x]
    /\ linked' = [linked EXCEPT ![i] = a]
    /\ UNCHANGED subject

\* Mutant: the session's own state is not checked.
AuthorizedWhateverState(x) ==
    LET i == session[x].installation
        a == session[x].account
    IN  /\ ~session[x].over /\ {i, a} \cap {None} = {}
        /\ subject[a] # "erased" /\ subject[i] # "erased"
        /\ ~DeletionPending(a, i)
        /\ linked[i] = a
        /\ flow[i] = x

\* authorizedPublicAccountSession: everything the session rests on is read again.
Authorized(x) ==
    LET i == session[x].installation
        a == session[x].account
    IN  /\ session[x].state = "active" /\ ~session[x].over
        /\ subject[a] # "erased" /\ subject[i] # "erased"
        /\ ~DeletionPending(a, i)
        /\ linked[i] = a
        /\ flow[i] = x

\* Mutant: the rotated capability is not marked as used.
RotateKeepsOld(t, u) ==
    LET x == token[t].session
    IN  /\ token[t].state = "unused" /\ token[u].state = "absent"
        /\ Authorized(x)
        /\ token' = [token EXCEPT ![u] = [state |-> "unused", session |-> x]]
        /\ UNCHANGED <<session, flow, linked, subject>>

\* RotatePublicAccountRefresh of an unused capability t into u ...
RotatePublicAccountRefresh(t, u) ==
    LET x == token[t].session
    IN  /\ token[t].state = "unused" /\ token[u].state = "absent"
        /\ Authorized(x)
        /\ token' = [token EXCEPT ![t].state = "used", ![u] = [state |-> "unused", session |-> x]]
        /\ UNCHANGED <<session, flow, linked, subject>>

\* ... and of a used one, which closes the family unless it is over.
ReplayRefresh(t) ==
    LET x == token[t].session
    IN  /\ token[t].state = "used"
        /\ session[x].state \in {"active", "revoked"} /\ ~session[x].over
        /\ session' = [session EXCEPT ![x] = Revoked(@)]
        /\ UNCHANGED <<token, flow, linked, subject>>

RevokePublicAccountSession(x) ==
    /\ session[x].state = "active"
    /\ session' = [session EXCEPT ![x] = Revoked(@)]
    /\ UNCHANGED <<token, flow, linked, subject>>

-----------------------------------------------------------------------------
(* Privacy deletion. *)

\* A deletion request is opened, or withdrawn again.
PrivacyRequest(y) ==
    /\ \/ subject[y] = "live" /\ subject' = [subject EXCEPT ![y] = "deleting"]
       \/ subject[y] = "deleting" /\ subject' = [subject EXCEPT ![y] = "live"]
    /\ UNCHANGED <<session, token, flow, linked>>

\* Mutant: the family outlives its session.
EraseSessionRowsOnly(gone) ==
    /\ session' = [x \in Sessions |->
          IF x \in gone THEN [NoSession EXCEPT !.state = "deleted"] ELSE session[x]]
    /\ UNCHANGED token

\* erasePublicSession for every session in gone: its family goes with it.
EraseSessions(gone) ==
    /\ session' = [x \in Sessions |->
          IF x \in gone THEN [NoSession EXCEPT !.state = "deleted"] ELSE session[x]]
    /\ token' = [t \in Tokens |->
          IF token[t].session \in gone THEN [token[t] EXCEPT !.state = "deleted"] ELSE token[t]]

EraseInstallation(i) ==
    /\ subject[i] = "deleting"
    /\ subject' = [subject EXCEPT ![i] = "erased"]
    /\ EraseSessions({x \in Sessions : session[x].installation = i})
    /\ flow' = [flow EXCEPT ![i] = None]
    /\ linked' = [linked EXCEPT ![i] = None]

\* The person's installations are erased and disabled, then every session of
\* the person's account.
ErasePerson(a) ==
    LET devices == {i \in Installations : linked[i] = a}
        gone == {x \in Sessions : session[x].installation \in devices \/ session[x].account = a}
    IN  /\ subject[a] = "deleting"
        /\ subject' = [y \in DOMAIN subject |->
              IF y \in devices \cup {a} THEN "erased" ELSE subject[y]]
        /\ EraseSessions(gone)
        /\ flow' = [i \in Installations |->
              IF i \in devices \/ flow[i] \in gone THEN None ELSE flow[i]]
        /\ linked' = [i \in Installations |-> IF i \in devices THEN None ELSE linked[i]]

-----------------------------------------------------------------------------
(* Time and cleanup. *)

\* The 90 days of a session and its capabilities are over.
Expire(x) ==
    /\ session[x].state \in {"active", "revoked"} /\ ~session[x].over
    /\ session' = [session EXCEPT ![x].over = TRUE]
    /\ UNCHANGED <<token, flow, linked, subject>>

\* At most CleanupLimit rows of S, all of them when they are fewer.
Portion(S) == {T \in SUBSET S : Cardinality(T) = CleanupLimit
                                \/ (T = S /\ Cardinality(S) < CleanupLimit)}

\* Mutant: a capability that was used is of no more interest.
TokenSpent(t) == token[t].state = "used"

\* A capability is over with its session, also when cleanup removed the
\* session's row first.
TokenOver(t) ==
    /\ token[t].state \in {"unused", "used"}
    /\ session[token[t].session].over

CleanupPublicAccountState ==
    \E oldTokens \in Portion({t \in Tokens : TokenOver(t)}),
       oldSessions \in Portion({x \in Sessions : /\ session[x].state \in {"active", "revoked"}
                                                 /\ session[x].over}) :
        /\ token' = [t \in Tokens |->
              IF t \in oldTokens THEN [token[t] EXCEPT !.state = "deleted"] ELSE token[t]]
        /\ session' = [x \in Sessions |->
              IF x \in oldSessions
              THEN [session[x] EXCEPT !.state = "deleted", !.account = None, !.installation = None]
              ELSE session[x]]
        /\ flow' = [i \in Installations |-> IF flow[i] \in oldSessions THEN None ELSE flow[i]]
        /\ UNCHANGED <<linked, subject>>

\* What leaves the product account of a session's owner alone.
Elsewhere ==
    \/ \E t \in Tokens : ReplayRefresh(t)
    \/ \E x \in Sessions : RevokePublicAccountSession(x) \/ Expire(x)
    \/ \E y \in Accounts \cup Installations : PrivacyRequest(y)
    \/ CleanupPublicAccountState

Next ==
    \/ \E i \in Installations, a \in Accounts, x \in Sessions, t \in Tokens :
          CompletePublicEmailChallenge(i, a, x, t)
    \/ \E t, u \in Tokens : RotatePublicAccountRefresh(t, u)
    \/ \E i \in Installations : EraseInstallation(i)
    \/ \E a \in Accounts : ErasePerson(a)
    \/ Elsewhere

Spec == Init /\ [][Next]_vars

-----------------------------------------------------------------------------
SessionRow == [state : {"absent", "active", "revoked", "deleted"}, account : Accounts \cup {None},
               installation : Installations \cup {None}, over : BOOLEAN]
TokenRow == [state : {"absent", "unused", "used", "deleted"}, session : Sessions \cup {None}]

TypeOK ==
    /\ session \in [Sessions -> SessionRow]
    /\ token \in [Tokens -> TokenRow]
    /\ flow \in [Installations -> Sessions \cup {None}]
    /\ linked \in [Installations -> Accounts \cup {None}]
    /\ subject \in [Accounts \cup Installations -> {"live", "deleting", "erased"}]

Usable(x) == session[x].state = "active" /\ ~session[x].over

\* An installation has at most one usable session, the one its flow points to,
\* with the account it is linked to: reauthentication, erasure and cleanup
\* leave no second family behind.
UsableIsCurrent ==
    \A x \in Sessions : Usable(x) =>
        LET i == session[x].installation
        IN  i # None /\ flow[i] = x /\ linked[i] = session[x].account

\* A usable family has exactly one capability to rotate next.
OneUnusedToken ==
    \A x \in Sessions : Usable(x) =>
        Cardinality({t \in Tokens : token[t].session = x /\ token[t].state = "unused"}) = 1

\* Cleanup never forgets a used capability while its family could still be
\* used: the record that makes a replay visible outlives the session.
ReplayBarrier ==
    \A t \in Tokens : token[t].state = "deleted" => ~Usable(token[t].session)

\* After an erasure nothing of the account or the installation is left, and
\* nothing comes back later: no session, no link, and no capability except of a
\* session that has expired: cleanup may delete such a session before its
\* capabilities, and erasure finds capabilities by the sessions that are there.
ErasedLeavesNothing ==
    /\ \A x \in Sessions : session[x].state \in {"active", "revoked"} =>
          subject[session[x].account] # "erased" /\ subject[session[x].installation] # "erased"
    /\ \A t \in Tokens : token[t].state \in {"unused", "used"} =>
          session[token[t].session].state \in {"active", "revoked"} \/ session[token[t].session].over
    /\ \A i \in Installations :
          /\ linked[i] # None => subject[linked[i]] # "erased" /\ subject[i] # "erased"
          /\ flow[i] # None => session[flow[i]].state \in {"active", "revoked"}

\* A family that was closed, by its owner, a replay, a new login, erasure or
\* time, never yields another capability.
ClosedStaysClosed ==
    [][\A x \in Sessions :
          (session[x].state # "absent" /\ ~Usable(x)) =>
             /\ ~Usable(x)'
             /\ \A t \in Tokens : token'[t].session = x => token[t].session = x]_vars

\* While a deletion request is open no session begins and no capability is
\* issued for its account or installation.
DeletionFences ==
    [][\A t \in Tokens : (token[t].state = "absent" /\ token'[t].state = "unused") =>
          LET row == session'[token'[t].session]
          IN  subject[row.account] = "live" /\ subject[row.installation] = "live"]_vars
=============================================================================
