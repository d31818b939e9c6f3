------------------------ MODULE TelemetryPreferences ------------------------
(***************************************************************************)
(* Telemetry preferences and consents of one product: the rows of          *)
(* telemetry_preferences and the suppression events written with them, the *)
(* rows of consents, the public installations with their refresh           *)
(* credentials, and the Metrics tokens the installation broker exchanges   *)
(* for those.                                                              *)
(*                                                                         *)
(* Two parties write preferences.  The owner of an installation registers  *)
(* it and later denies telemetry through the public broker.  A product     *)
(* workload sets the preference, or records a consent, of any subject key; *)
(* the key is resolved first and the row of the root it leads to is        *)
(* written in a later transaction.                                         *)
(* A statement carries the time its client recorded it at, and statements  *)
(* arrive in any order.                                                    *)
(*                                                                         *)
(* Abstractions.  There is one person; Person is its row, its account and  *)
(* the key of either.  The key of an installation exists while the         *)
(* installation is active, and it leads to the person once the two are     *)
(* linked.  An installation's identifier is derived from the whole body of *)
(* its registration, so a repeated registration has the same body.         *)
(* Credentials outlive the model.  Of the consents only whose they are is  *)
(* kept: no operation here reads what they say.                            *)
(***************************************************************************)
EXTENDS Integers

CONSTANTS
    Installations,
    Person,
    Workloads,      \* requests of product workloads handled at a time
    None,           \* no row
    MaxPolicy,      \* newest policy version
    Additional,     \* policy versions the product accepts besides the current one
    Past, Skew,     \* how far from the clock recorded_at may be (24 h, 5 min)
    LastWrite,      \* bound on the time of registrations and of stamps that are off
    Horizon         \* bound on time

Values == {"allowed", "denied", "unknown"}
Times == 0..(Horizon + Skew)

ASSUME TimeAssumption == {Past, Skew, LastWrite, Horizon} \subseteq Nat /\ LastWrite + Skew < Horizon
ASSUME PolicyAssumption == MaxPolicy \in Nat \ {0} /\ Additional \subseteq 1..MaxPolicy
ASSUME SubjectAssumption == Person \notin Installations /\ None \notin Installations \cup {Person}
ASSUME NullAssumption == None \notin [value : Values, at : Times]

VARIABLES
    now,
    policy,        \* PUBLIC_INSTALLATION_POLICY_VERSION
    installation,  \* "absent", "active" or "disabled"
    linked,        \* whether the installation and its alias have the person's id
    person,        \* "live", "emptied" (live, erased for this product once) or "erased"
    body,          \* preference, recorded_at and policy version an active installation
                   \* was registered with; the policy version is in its credential
    preference,    \* rows of telemetry_preferences, by root subject
    emitted,       \* the suppression events the last step put into the outbox
    consents,      \* root subjects with rows of consents
    exchange,      \* a request for a Metrics token, per installation
    call,          \* a workload's request to set a preference or to record a consent
    denial         \* the statement acknowledged last for an installation's key, if it is a denial

subjects == <<installation, linked, person>>
vars == <<now, policy, subjects, body, preference, emitted, consents, denial, exchange, call>>

-----------------------------------------------------------------------------
Roots == Installations \cup {Person}
Policies == 1..MaxPolicy
NoExchange == [stage |-> "idle", began |-> None]

Init ==
    /\ now = 0
    /\ policy = 1
    /\ installation = [n \in Installations |-> "absent"]
    /\ linked = [n \in Installations |-> FALSE]
    /\ person = "live"
    /\ body = [n \in Installations |-> None]
    /\ preference = [r \in Roots |-> None]
    /\ emitted = <<>>
    /\ consents = {}
    /\ exchange = [n \in Installations |-> NoExchange]
    /\ call = [w \in Workloads |-> None]
    /\ denial = [n \in Installations |-> None]

Statement(value, at) == [value |-> value, at |-> at]
DenialOnly(row) == IF row # None /\ row.value = "denied" THEN row ELSE None
IsDenial(row) == row # None /\ row.value = "denied"
IsAllowance(row) == row # None /\ row.value = "allowed"

\* Times a client may put into recorded_at now.
Stamps == IF now <= LastWrite THEN {t \in (now - Past)..(now + Skew) : t >= 0} ELSE {now}

\* insertSuppressionWith
Suppress(root, key) == emitted' = <<[root |-> root, key |-> key]>>

\* A step that writes no preference, consent or event.
Silent == emitted' = <<>> /\ UNCHANGED <<preference, consents, denial>>

\* validateSubjectWith: the root has not been erased or disabled.
validSubject(root) == IF root = Person THEN person # "erased" ELSE installation[root] = "active"

\* rootSubject: a linked installation's preference is the person's.
rootSubject(key) == IF key = Person \/ linked[key] THEN Person ELSE key

\* Mutant: the broker only takes statements made under the current policy.
validPolicyNow(p, granted) == p = policy /\ p = granted

\* validDenial and the comparison with the credential: the policy version need
\* not be accepted for registrations any more.
validDenial(p, granted) == p = granted

-----------------------------------------------------------------------------
(* Public installations. *)

validRegistration(p) == p = policy \/ p \in Additional

\* Register, the first time: the installation with its alias, the preference,
\* the consent and, for a denial, the suppression event in one transaction.
RegisterPublicInstallation(n, value, at, p) ==
    /\ now <= LastWrite
    /\ validRegistration(p)
    /\ installation[n] = "absent"
    /\ installation' = [installation EXCEPT ![n] = "active"]
    /\ body' = [body EXCEPT ![n] = [value |-> value, at |-> at, policy |-> p]]
    /\ preference' = [preference EXCEPT ![n] = Statement(value, at)]
    /\ denial' = [denial EXCEPT ![n] = DenialOnly(Statement(value, at))]
    /\ consents' = IF value = "unknown" THEN consents ELSE consents \cup {n}
    /\ IF value = "denied" THEN Suppress(n, n) ELSE emitted' = <<>>
    /\ exchange' = [exchange EXCEPT ![n].stage = IF value = "allowed" THEN "allowed" ELSE "idle"]
    /\ UNCHANGED <<now, policy, linked, person, call>>

\* Mutant: the repetition looks at the installation's row only.
SameInstallation(n) == TRUE

\* The stored preference is still the one the registration made.
SamePreference(n) == preference[n] = Statement(body[n].value, body[n].at)

\* Register again with the same body, by a client that saw no answer.
RepeatRegistration(n) ==
    /\ installation[n] = "active" /\ exchange[n] = NoExchange
    /\ body[n].at \in Stamps /\ validRegistration(body[n].policy)
    /\ SamePreference(n)
    /\ body[n].value = "allowed"
    /\ exchange' = [exchange EXCEPT ![n] = [stage |-> "allowed", began |-> denial[n]]]
    /\ Silent /\ UNCHANGED <<now, policy, subjects, body, call>>

\* Mutant: a denial is recorded although a later statement is known.
DenyUnordered(n, p, at) ==
    /\ installation[n] = "active"
    /\ validDenial(p, body[n].policy)
    /\ preference[n] # None /\ ~IsDenial(preference[n])
    /\ preference' = [preference EXCEPT ![n] = Statement("denied", at)]
    /\ consents' = consents \cup {n}
    /\ Suppress(n, n)
    /\ denial' = [denial EXCEPT ![n] = Statement("denied", at)]
    /\ UNCHANGED <<now, policy, subjects, body, exchange, call>>

\* SetPreference of the broker and DenyPublicInstallation.
DenyPublicInstallation(n, p, at) ==
    /\ installation[n] = "active"
    /\ validDenial(p, body[n].policy)
    /\ preference[n] # None
    /\ \/ at > preference[n].at
       \/ at = preference[n].at /\ IsDenial(preference[n])
    /\ IF IsDenial(preference[n])
       THEN UNCHANGED <<preference, consents>> /\ emitted' = <<>>
       ELSE /\ preference' = [preference EXCEPT ![n] = Statement("denied", at)]
            /\ consents' = consents \cup {n}
            /\ Suppress(n, n)
    /\ denial' = [denial EXCEPT ![n] = preference'[n]]
    /\ UNCHANGED <<now, policy, subjects, body, exchange, call>>

\* Refresh: the credential's alias and installation are looked up, ...
authenticate(n) ==
    /\ installation[n] = "active" /\ exchange[n] = NoExchange
    /\ exchange' = [exchange EXCEPT ![n] = [stage |-> "authenticated", began |-> denial[n]]]
    /\ Silent /\ UNCHANGED <<now, policy, subjects, body, call>>

\* ... then the preference of the installation is read, ...
Refresh(n) ==
    /\ exchange[n].stage = "authenticated"
    /\ exchange' = [exchange EXCEPT ![n] =
           IF IsAllowance(preference[n]) THEN [@ EXCEPT !.stage = "allowed"] ELSE NoExchange]
    /\ Silent /\ UNCHANGED <<now, policy, subjects, body, call>>

\* ... and the token is signed without another look.
issueAccess(n) ==
    /\ exchange[n].stage = "allowed"
    /\ exchange' = [exchange EXCEPT ![n] = NoExchange]
    /\ Silent /\ UNCHANGED <<now, policy, subjects, body, call>>

-----------------------------------------------------------------------------
(* Product workloads. *)

\* setTelemetryPreference and createConsent resolve the key to its root ...
ResolveSubjectAlias(w, key, value, at) ==
    /\ now <= LastWrite
    /\ call[w] = None
    /\ validSubject(key)
    /\ call' = [call EXCEPT ![w] = [key |-> key, root |-> rootSubject(key), value |-> value, at |-> at]]
    /\ Silent /\ UNCHANGED <<now, policy, subjects, body, exchange>>

\* A statement recorded earlier than the stored one is refused, and so is a
\* different one recorded at the same time.
Supersedes(c, row) ==
    row # None => c.at > row.at \/ (c.at = row.at /\ c.value = row.value)

\* Mutant: every denial is reported, also a repeated one.
Reported(value, row) == value = "denied"

\* Whether a statement about a root is one Metric has to be told of.
Suppresses(value, row) == value = "denied" /\ ~IsDenial(row)

\* Mutant: the root is not looked at again.
SetUnchecked(w) ==
    LET c == call[w]
        row == preference[c.root]
    IN
    /\ c # None /\ c.value \in Values
    /\ Supersedes(c, row)
    /\ preference' = [preference EXCEPT ![c.root] = Statement(c.value, c.at)]
    /\ IF Suppresses(c.value, row) THEN Suppress(c.root, c.key) ELSE emitted' = <<>>
    /\ denial' = IF c.key = Person THEN denial ELSE [denial EXCEPT ![c.key] = DenialOnly(Statement(c.value, c.at))]
    /\ call' = [call EXCEPT ![w] = None]
    /\ UNCHANGED <<now, policy, subjects, body, consents, exchange>>

\* ... and SetTelemetryPreference writes the root's row.
SetTelemetryPreference(w) ==
    LET c == call[w]
        row == preference[c.root]
    IN
    /\ c # None /\ c.value \in Values
    /\ validSubject(c.root)
    /\ Supersedes(c, row)
    /\ preference' = [preference EXCEPT ![c.root] = Statement(c.value, c.at)]
    /\ IF Suppresses(c.value, row) THEN Suppress(c.root, c.key) ELSE emitted' = <<>>
    /\ denial' = IF c.key = Person THEN denial ELSE [denial EXCEPT ![c.key] = DenialOnly(Statement(c.value, c.at))]
    /\ call' = [call EXCEPT ![w] = None]
    /\ UNCHANGED <<now, policy, subjects, body, consents, exchange>>

\* Mutant: the root is not looked at again.
ConsentUnchecked(w) ==
    LET c == call[w] IN
    /\ c # None /\ c.value = "consent"
    /\ consents' = consents \cup {c.root}
    /\ call' = [call EXCEPT ![w] = None]
    /\ emitted' = <<>>
    /\ UNCHANGED <<now, policy, subjects, body, preference, denial, exchange>>

\* ... or CreateConsent adds a row for the root.
CreateConsent(w) ==
    LET c == call[w] IN
    /\ c # None /\ c.value = "consent"
    /\ validSubject(c.root)
    /\ consents' = consents \cup {c.root}
    /\ call' = [call EXCEPT ![w] = None]
    /\ emitted' = <<>>
    /\ UNCHANGED <<now, policy, subjects, body, preference, denial, exchange>>

\* The request is refused, or the process stops.
Refuse(w) ==
    /\ call[w] # None
    /\ call' = [call EXCEPT ![w] = None]
    /\ Silent /\ UNCHANGED <<now, policy, subjects, body, exchange>>

-----------------------------------------------------------------------------
(* Linking and erasure, as IdentityRegistration and PrivacyDeletion do them. *)

linkInstallation(n) ==
    /\ installation[n] = "active" /\ person # "erased" /\ ~linked[n]
    /\ linked' = [linked EXCEPT ![n] = TRUE]
    /\ Silent /\ UNCHANGED <<now, policy, installation, person, body, exchange, call>>

\* eraseInstallationRecords and erasePersonRecords for the roots R.
EraseRecords(R) ==
    /\ installation' = [n \in Installations |-> IF n \in R THEN "disabled" ELSE installation[n]]
    /\ preference' = [r \in Roots |-> IF r \in R THEN None ELSE preference[r]]
    /\ consents' = consents \ R
    /\ denial' = [n \in Installations |-> IF n \in R THEN None ELSE denial[n]]
    /\ body' = [n \in Installations |-> IF n \in R THEN None ELSE body[n]]
    /\ emitted' = <<>>
    /\ UNCHANGED <<now, policy, linked, exchange, call>>

eraseInstallation(n) ==
    /\ installation[n] = "active"
    /\ EraseRecords({n})
    /\ UNCHANGED person

\* For the product only (once, to keep the model finite), or for good.
erasePerson(status) ==
    /\ <<person, status>> \in {<<"live", "emptied">>, <<"live", "erased">>, <<"emptied", "erased">>}
    /\ EraseRecords({Person} \cup {n \in Installations : linked[n]})
    /\ person' = status

RollPolicy ==
    /\ policy < MaxPolicy
    /\ policy' = policy + 1
    /\ Silent /\ UNCHANGED <<now, subjects, body, exchange, call>>

Tick ==
    /\ now < Horizon
    /\ now' = now + 1
    /\ Silent /\ UNCHANGED <<policy, subjects, body, exchange, call>>

-----------------------------------------------------------------------------
Owner(n) ==
    \/ \E value \in {"allowed", "denied", "unknown"}, at \in Stamps, p \in Policies :
          RegisterPublicInstallation(n, value, at, p)
    \/ RepeatRegistration(n)
    \/ \E p \in Policies, at \in Stamps : DenyPublicInstallation(n, p, at)
    \/ authenticate(n) \/ Refresh(n) \/ issueAccess(n)

Workload(w) ==
    \/ \E key \in Roots, value \in {"allowed", "denied"}, at \in Stamps :
          ResolveSubjectAlias(w, key, value, at)
    \/ \E key \in Roots : ResolveSubjectAlias(w, key, "consent", now)
    \/ SetTelemetryPreference(w) \/ CreateConsent(w) \/ Refuse(w)

Next ==
    \/ \E n \in Installations : Owner(n) \/ linkInstallation(n) \/ eraseInstallation(n)
    \/ \E w \in Workloads : Workload(w)
    \/ \E status \in {"emptied", "erased"} : erasePerson(status)
    \/ RollPolicy \/ Tick

Spec == Init /\ [][Next]_vars

\* Time passes, and an owner who wants telemetry to stop goes on asking with
\* the time of the day.
FairSpec ==
    /\ Spec
    /\ WF_vars(Tick)
    /\ \A n \in Installations : WF_vars(\E p \in Policies : DenyPublicInstallation(n, p, now))

-----------------------------------------------------------------------------
(* Properties. *)

TypeOK ==
    /\ now \in 0..Horizon /\ policy \in Policies
    /\ installation \in [Installations -> {"absent", "active", "disabled"}]
    /\ linked \in [Installations -> BOOLEAN]
    /\ person \in {"live", "emptied", "erased"}
    /\ body \in [Installations -> [value : Values, at : Times, policy : Policies] \cup {None}]
    /\ preference \in [Roots -> [value : Values, at : Times] \cup {None}]
    /\ emitted \in {<<>>} \cup {<<[root |-> r, key |-> k]>> : r \in Roots, k \in Roots}
    /\ consents \subseteq Roots
    /\ exchange \in [Installations -> [stage : {"idle", "authenticated", "allowed"},
                                       began : [value : Values, at : Times] \cup {None}]]
    /\ call \in [Workloads -> [key : Roots, root : Roots, value : Values \cup {"consent"}, at : Times] \cup {None}]
    /\ denial \in [Installations -> [value : Values, at : Times] \cup {None}]

\* A row becomes denied together with exactly one suppression event for it, and
\* no other step writes one: registration, the broker's denial and a workload's
\* statement all keep to it, and a repeated denial creates no second event.
DenialEmitsOnce ==
    [][LET Denied == {r \in Roots : IsDenial(preference'[r]) /\ ~IsDenial(preference[r])}
       IN  IF Denied = {} THEN emitted' = <<>>
           ELSE \E key \in Roots : \A r \in Denied : emitted' = <<[root |-> r, key |-> key]>>]_vars

\* Statements that arrive late do not undo later ones: in a row that stays, the
\* recorded time never goes back, and two statements recorded at the same time
\* never replace each other, whichever party sent them.
NoBackdating ==
    [][\A r \in Roots : preference[r] # None /\ preference'[r] # None =>
          \/ preference'[r] = preference[r]
          \/ preference'[r].at > preference[r].at]_vars

\* The row of an erased or disabled subject does not come back, although a
\* workload's request may have resolved the subject before the erasure.
ErasedHasNoPreference == \A r \in Roots : preference[r] # None => validSubject(r)

\* While an installation is not linked to a person, a request for a token that
\* begins after a denial of its key was acknowledged gets none, as long as that
\* denial is the last word: neither a refresh nor a repeated registration.
DenialStopsTokens ==
    \A n \in Installations :
        exchange[n].stage = "allowed" /\ exchange[n].began # None /\ ~linked[n] =>
            denial[n] # exchange[n].began

\* No consent is kept, or comes back, of a subject that was erased or disabled:
\* erasure deletes the consents of everything it reaches, the broker's denial
\* and a workload's request that resolved the subject before the erasure add
\* none after it.
ErasedHasNoConsent == \A r \in consents : validSubject(r)

\* An owner who goes on asking gets a denial recorded: neither a new policy nor
\* a recorded_at ahead of the clock, the owner's own or a workload's, keeps the
\* broker from accepting it.
DenialLands ==
    \A n \in Installations :
        installation[n] = "active" ~> IsDenial(preference[n]) \/ installation[n] = "disabled"

\* DenialStopsTokens for every installation, linked or not.
DeniedKeyGetsNoToken ==
    \A n \in Installations :
        exchange[n].stage = "allowed" /\ exchange[n].began # None => denial[n] # exchange[n].began
=============================================================================
