# Verification of linka.identity

TLA+ models of the identity service in `src/`, TLC runs that check them on small
instances, and TLAPS proofs of what matters most for instances of any size.
`PROJECT.json` lists components, runs, mutants, the map from definitions to source
lines, findings, hazards and theorems.

## The system

A stateless Go service over YDB. Every change of state is a function of
`internal/store` that runs in one serializable transaction (`store.serializable`),
so a transaction is an atomic action here. What interleaves is everything larger:
an HTTP handler that makes several transactions, and the workers (outbox, privacy,
mail, cleanup), which run as goroutines of every instance and through the tick
endpoint. Workers claim rows for a lease, do something outside the database, and
settle the rows in a later transaction. The SDK repeats a transaction whose
acknowledgement is lost (`WithIdempotent`).

| part of the system | module | how much |
|---|---|---|
| privacy requests, outbox worker, privacy worker | `PrivacyDeletion` | deletion requests and events; delivery of suppression events left out |
| what a deletion promises | `DeletionPromise` | abstract specification |
| public email registration, mail delivery | `EmailChallenges` | all but attestation of the verification |
| public account sessions | `AccountSessions` | all but the profile update |
| product accounts, product directory | `ProductAccounts` | extends `AccountSessions`; an entry's contents left out |
| email verification, identities, blind indexes, installations, aliases | `IdentityRegistration` | input rules left out |
| the aliases a deletion request takes | `DeletionFanout` | extends `IdentityRegistration` |
| public installation broker, telemetry preferences, consents | `TelemetryPreferences` | of a consent, only whose it is |
| organizations, submissions, memberships | `Organizations` | names, roles and dates left out |
| erasure, cleanup | the modules above | the tables each module has |
| tokens, cryptography, HTTP, configuration, schema | none | stateless, or nothing reads what they write |

`ProductAccounts` and `DeletionFanout` are compositions over the state of the module
they extend. The other modules have their own copy of what they share (the erasure
of an installation, the completion of a challenge).

## Modules

**PrivacyDeletion.** Variables are the rows (`request`, `metricStep`, `event`,
`erasure`), the workers' memory (`batch`, `outcome`, `jobs`, `failed`) and the outside
world (`posted`, `metricDone`, `erased`). Store functions are actions of the same
name. `Deliver` is the call to Metric; `AbandonBatch` and `AbandonJobs` are a worker
that stops; `EventDue` and `ErasureDue` are time: `available_at` comes, or a lease
lapses. A version is kept as the `holder` of the row's last claim. The fan-out of a
request is any set of aliases.

**DeletionPromise.** Open, ask Metric, withdraw, erase. `PrivacyDeletion` instantiates
it with `Phase(r)`, the aliases that have a step, `posted` and `metricDone`.

**EmailChallenges.** Challenge, verification, flow and rate-limit rows, a clock in
ticks, and senders that claim, recheck, send and record in separate steps. The
number of mails SMTP may have accepted is counted.

**AccountSessions.** Sessions as families of rotating capabilities, any of which may be
presented again at any time; expiry is a flag of the session.

**ProductAccounts.** `AccountSessions` with the rows of `product_accounts`: `Register` is a
login with the row it writes, `EraseAccount` and `EraseDevice` the erasures with the rows
they remove. A workload's pass over the directory (`scan`) takes a transaction for the
candidates, one per candidate and one for the audit record. `owed` is a history
variable: the accounts that were disclosable ever since the pass began.

**IdentityRegistration.** Instances with a keyring each, handling one request at a time
in stages (claim, register, release, aliases). A transaction may use a clock value
up to `Delay` ticks old, because callers read the clock before it. `Deployments` has the
changes of keyring an instance may be restarted with; `Start` compares the new keyring
with the stored rows (`ValidateBlindIndexVersions`) and, as the code, with nothing else, so
instances that are still draining may lack the key a new one writes with. `staged` is a
history variable: no deployment so far has led to that. **`OnePersonPerEmail` assumes
it**, and is the only property that does. The code does not enforce it,
`docs/operations.md` (Secret rotation, steps 1 and 2) does not ask for a deployment
between adding a key and making it current, and `deploy-yc.yml` ships both settings in one
revision while old invocations may still run. Without the assumption TLC finds a second
person in nine steps of the `registration` instance: a new instance registers the email
under key 2, and one that knows key 1 only finds nothing and registers it again. An
operator who deploys the key to every instance first, and the new current version after
that, stays within the assumption.

**DeletionFanout.** `IdentityRegistration` with privacy requests that resolve a key, take
the aliases in a second transaction and erase in a third. `late` is a history variable:
aliases that became the person's after the request was opened.

**TelemetryPreferences.** One product and one person. Owners register, repeat the
registration, exchange credentials in three steps and deny; workloads resolve a key
and set its preference, or record a consent, in a later transaction. `recorded_at` may be off the clock within
the code's window. `denial` and `exchange.began` are history variables: the last
acknowledged denial, and the one known when a request for a token began.

**Organizations.** Submissions and memberships in two steps each, reviews, merges
and erasures. An erasure of a person with installations is several steps here. Where a
chain of merges leads is said without recursion: `LeadsTo(o, x)` holds when no set of
organizations that contains `o` and not `x` keeps the links inside.

The `MC*` modules add symmetry sets, and `MCIdentityRegistration` the deployments.

## Runs

All runs switch the deadlock check off: a request may be settled, a budget used up or
the bounded clock at its end, and then nothing is owed.

| run | checks | instance |
|---|---|---|
| `deletion` | `TypeOK`, `ErasedAfterReceipts`, `WithdrawnLeavesNoTrace`, `TerminalIsFinal`, `KeepsPromise` | 1 request, 2 aliases, 2+2 workers, batches of 2 |
| `deletion_liveness` | `DeletionSettles` | 1 request, 1 alias |
| `email_senders` | `MailedOnce`, `RowsExpireTogether`, `SendBudget`, `FollowsFSM`, `ChallengeEnds` | 1 challenge, 2 senders |
| `email_challenges` | `NewestOnly`, `CodeOnlyWhileUsable`, `LockedAtLimit` | 2 challenges, 1 sender |
| `accounts` | `UsableIsCurrent`, `OneUnusedToken`, `ReplayBarrier`, `ErasedLeavesNothing`, `ClosedStaysClosed`, `DeletionFences`, `ProfileBacksSession`, `ScanComplete` | 3 sessions, 3 capabilities, 2 installations, 2 accounts, pages of 1 |
| `registration` | `OnePersonPerEmail`, `IndexesFindIdentity`, `EvidenceReplacesVerification`, `AliasFollowsLink`, `ErasedLeavesNoTrace`, `LiveClaimKept` | 2 verifications of 1 email, 2 persons, 1 installation, 2 instances, 2 keys, 4 deployments |
| `subject_deletion` | `FannedOutOrLate`, `VerificationEnds` | 2 verifications of 1 global email, 1 person, 1 installation, 1 instance, 1 request |
| `telemetry` | `ErasedHasNoPreference`, `DenialStopsTokens`, `ErasedHasNoConsent`, `DenialEmitsOnce`, `NoBackdating`, `DenialLands` | 1 installation, 1 person, 1 workload, 2 policy versions |
| `organizations` | `MergesEndActive`, `ReferencesAreActive`, `ErasedHasNoRows`, `StandingKept` | 3 organizations, 1 submission, 1 person, 1 installation, 2 products, 2 requests at a time |

What they show, beyond the hazards in `PROJECT.json`: `accounts` is the session model and
the directory together, so the barrier of an open deletion request is checked against
logins and disclosures at once. `registration` has staged and unstaged deployments of a
key, linking and the three erasures in one run. `subject_deletion` lets registrations go on between the resolution
of a key, the fan-out and the erasure.

The components' `TypeOK`s hold on the instances of their runs; only `deletion` lists it.
Likewise `StepFollowsEvent`, `ListedOnce` and `DisclosureIsCurrent` hold on these instances
and rest on their theorems.

**Bounds.** Two workers are the least that let one be stale while the other holds the
row. That several requests do not mix up their receipts rests on the theorems: the
`deletion` run has one request. `MaxAttempts` 2 has a retry and the last attempt. Three
sessions and three capabilities allow a reauthentication and one rotation, before it or
after it; a fourth capability takes the run past five minutes, and longer families rest
on the theorems. Three organizations are the least that allow a chain of merges.
`registration` begins its verifications at time 0 and stops at time 2: a claim lapses
and a verification expires, and rotation and erasure fall on any side of both. Its
deployments add the second key, alone or at once as the current one, make it current, and
take it back; removing the first key as well, or all changes between the four keyrings,
takes the run to five minutes (both were tried, without a violation);
`subject_deletion` has the longer clock (`LastBegin` 1, `Horizon` 4) with one instance
and one key. In `telemetry` registrations and workloads' requests begin at time 0 and
time stops at 2, with `Past` 0 and `Skew` 1: a statement is late because the request
that carries it is slow, or ahead of the clock, and three times are enough for a denial,
an allowance after it and a denial after that. Elsewhere the clock runs until every
deadline of the last request has passed; `LastRequest`, `LastBegin` and `LastWrite`
bound when the last one starts and `Horizon` where time stops. Durations keep the order
they have in the code, not their ratios. Nothing is claimed for larger instances except
by the theorems.

**Fairness.** `deletion_liveness`: clocks advance and worker loops go on (weak); claims
that find something, deliveries, receipts and erasures that are possible again and
again succeed at some point (strong). The strong part is an assumption about Metric,
YDB and process restarts, not something the code enforces. `ChallengeEnds` and
`VerificationEnds` assume only time and the cleanup worker's ticker. `DenialLands` assumes
time and an owner who goes on asking with the time of the day: weak fairness of
`DenyPublicInstallation` at `now`. The client is not part of the repository; what is checked
is that the service cannot refuse such an owner for ever. It also relies on `LastWrite`:
workloads' statements end, because an allowance stamped ahead of the clock that is
repeated without end would always be the later one.

**What `deletion_liveness` does not show.** It has one request. With two requests,
`MaxAttempts = 1` and `ErasureBatch = 1` (one outbox and one privacy worker), TLC finds
`DeletionSettles` violated: the older request has an event in `manual_dlq`, its erasure
step stays claimable, and `ClaimPrivacyErasures` applies LIMIT before it looks at the
receipts, so the newer request is never reached although it is ready. With
`ErasureBatch = 2` the same instance satisfies the property. The code's limit is 10:
ten such requests hold up all later ones, and they cannot be cancelled, because
delivery has started. No document of the repository speaks about this, so it is
listed as a hazard and not as a finding.

## Findings

Runs that TLC must find violated; each quotes the repository.

| run | what the code does |
|---|---|
| `stale_erasure` | `RetryPrivacyErasure` does not compare the job's version (`privacy_erasure.go:269`) |
| `index_collision` | after a key rotation an email known before can be registered once more and then never again (`identity.go:106`) |
| `telemetry_denial` | a workload's denial for the key of a linked installation goes to the person's row, and the broker reads the installation's (`broker.go:173`, `subject_handlers.go:198`) |

Stated in the modules, found violated by TLC, and without a run of their own:

- `StaleDeliveryRejected` (`PrivacyDeletion`, constants of `stale_erasure`): outbox workers
  compare only the event's status (`outbox.go:270`). It contradicts the sentence
  `stale_erasure` quotes.
- `RequestFollowsFSM` (`PrivacyDeletion`, constants of `deletion`): a request goes from
  requested to completed, which the state machine's test excludes
  (`privacy_erasure.go:156`, `225`).
- `QueueWithinCapacity` (`EmailChallenges`, those of `email_challenges` with 2 installations,
  `DailyLimit` 1, `MaxAttempts` 1, `QueueTTL` 4, `Horizon` 3): a late deferral raises the
  queue above its capacity (`public_email_delivery.go:213`).

The `deletion` run contains the first two of these and the behaviour of
`stale_erasure`, and its properties hold.

What properties deliberately do not say, with the trace TLC gives for the stronger one:

- `FannedOutOrLate` excepts aliases that came after the request was opened; they are
  erased without a Metric step.
- `DenialEmitsOnce` speaks of rows. A denial of a key can be acknowledged without an event:
  the installation registers denied and is linked, a workload allows its key, which writes
  the person's row, and the broker's denial finds the installation's row still denied.
- `NoBackdating` speaks of stored times. A repeated denial leaves the stored time as it is
  (`DenyPublicInstallation`), so an "allowed" no later than the repetition is accepted.
- `StandingKept` says that a row remains after a merge, not which status it has.

## Proofs

Every safety invariant and action property of the passing runs is a theorem, for any
values of the constants that satisfy the modules' assumptions.

**Deletion.** `PrivacyDeletionProofs`, for any sets of requests, aliases and workers and any
positive batch sizes and attempt limit (`MaxAttemptsAssumption`, `BatchAssumption`,
`NobodyAssumption`):

| theorem | property |
|---|---|
| `TypeCorrect` | `TypeOK` |
| `DeletionInvariant` | the inductive invariant `DeletionInv` |
| `ErasureIsBacked` | `ErasedAfterReceipts` |
| `WithdrawalIsClean` | `WithdrawnLeavesNoTrace` |
| `TablesAgree` | `StepFollowsEvent` |
| `SettledStaysSettled` | `TerminalIsFinal` |
| `DeletionRefines` | `KeepsPromise` |

That an erased request has its receipts is not inductive: a worker with a stale job
may complete a step long after its claim. `DeletionInv` adds what the rows say about
each other (`StepFollowsEvent`, `RowsMatchRequest`, `EventsMatchRequest`), that an event
or job in a worker's memory has left traces in its row which forbid a withdrawal
(`CarriedHasBegun`), and that a receipt in memory or in a step is one Metric really
gave (`ReceiptsAreReal`). Each action has a lemma; helpers on rows have their own.
The refinement uses the same invariant.

**Fan-out.** `DeletionFanoutProofs`, on top of `IdentityRegistrationProofs`:

| theorem | property |
|---|---|
| `RegistrationUnchanged` | `FanoutSpec => Spec`: the composition implements `IdentityRegistration` |
| `FanoutInvariant` | the inductive invariant `FanoutInv`, with those of registration |
| `MetricHearsOfAliases` | `FannedOutOrLate` |

An erasure looks at the aliases of the moment, the fan-out at those of an earlier one.
`FanoutInv` carries the difference: every alias that leads to the person of an open
request has a step or is in `late` (`Covered`), and the subject of a request is a person,
or an installation asked about by its own key (`Rooted`).

**Email challenges.** `EmailChallengesProofs`, for any sets of challenges, installations,
emails and senders (`NoneAssumption`), any positive limits (`LimitAssumption`) and durations
ordered as in the code (`DurationAssumption`):

| theorem | property |
|---|---|
| `ChallengesTyped` | the types `Typed` |
| `SendersInvariant` | the inductive invariant `SenderInv` |
| `MailsOnce` | `MailedOnce` |
| `RowsInvariant` | the inductive invariant `RowInv` |
| `ExpireTogether` | `RowsExpireTogether` |
| `CodesGo` | `CodeOnlyWhileUsable` |
| `LocksAtLimit` | `LockedAtLimit` |
| `ChallengesFollowFSM` | `FollowsFSM` |
| `OnlyNewestLive` | `NewestOnly` |
| `BudgetKept` | `SendBudget` |

`RowChange` lists what one step may do to one challenge, and `RowInv` (code, attempts and
deadlines fit the state) is proved from that list. `MailedOnce` counts over senders whose
lease has lapsed: `SenderInv` says that a job has one sender, also a late one, and that
before this sender's mail is accepted none was.

**Sessions.** `AccountSessionsProofs`, for any sets of sessions, capabilities, installations
and accounts and any cleanup limit (`NoneAssumption`, `SubjectAssumption`,
`CleanupLimitAssumption`):

| theorem | property |
|---|---|
| `SessionInvariant` | the inductive invariant `SessionInv` |
| `OneCurrentSession` | `UsableIsCurrent` |
| `ClosedForGood` | `ClosedStaysClosed` |
| `DeletionIsFence` | `DeletionFences` |
| `FamilyInvariant` | the inductive invariant `FamilyInv` |
| `OneTokenToRotate` | `OneUnusedToken` |
| `ReplayIsSeen` | `ReplayBarrier` |
| `ErasureInvariant` | the inductive invariant `ErasureInv` |
| `NothingLeft` | `ErasedLeavesNothing` |

`SessionInv` is `TypeOK`, `UsableIsCurrent` and `Owned`: an open session has an account and an
installation, and an issued capability has a session. `Owned` is what makes the rows typed
that a rotation or a login writes from the rows it finds. `ClosedStaysClosed` and
`DeletionFences` are facts about single steps from states with the invariant. `FamilyInv`
adds that a session nobody opened has no capability, so a login starts a family with one;
`ErasureInv` that a flow points to an open session of its own installation, so the erasure
of one installation takes no other one's session.

**Product accounts and directory.** `ProductAccountsProofs`, in addition for any page size
(`PageAssumption`) and any accounts with comparable identifiers (`AccountAssumption`):

| theorem | property |
|---|---|
| `SessionsUnchanged` | `DirectorySpec => Spec`: the composition implements `AccountSessions` |
| `SessionInvariantHere` | `SessionInv` in the composition |
| `SessionsKeptHere` | what is proved of the sessions, in the composition |
| `SessionIsBacked` | `ProfileBacksSession` |
| `ScanInvariant` | the inductive invariant `ScanInv` |
| `PassIsComplete` | `ScanComplete` |
| `PagesAreDisjoint` | `ListedOnce` |
| `DisclosedWhileLive` | `DisclosureIsCurrent` |

A finished pass says nothing about how it got there, so `ScanInv` follows an owed account
through the pass: delivered or behind the cursor; within a query in the page, in the queue,
or beyond all candidates of a full page (`Covered`), with the cursor between what was
delivered and what is queued (`Ordered`).

**Registration.** `IdentityRegistrationProofs`, for any sets of instances, keys, emails,
persons, installations and verifications (`NoneAssumption`, `EmailAssumption`,
`DurationAssumption`) and any deployments (`DeploymentAssumption`: an instance's current key is
among its keys):

| theorem | property |
|---|---|
| `DirectoryInvariant` | the inductive invariant `Shape /\ Keys /\ Directory` |
| `OneIdentityPerEmail` | `OnePersonPerEmail`, which assumes staged deployments |
| `IndexesLead` | `IndexesFindIdentity` |
| `RegistrationTypes` | `TypeOK` |
| `EvidenceStands` | `EvidenceReplacesVerification` |
| `LinksInvariant` | the inductive invariant `Links` |
| `AliasesFollow` | `AliasFollowsLink` |
| `ErasureComplete` | `ErasedLeavesNoTrace` |
| `ClaimsKept` | `LiveClaimKept` |

A lookup tries the keys the instance knows. That it finds nothing means that nobody has
the email only because of `Keys`: while the deployments are staged, every instance knows the
key any instance writes with and every key an index was written with. For the former
this is the assumption itself, for the latter it follows from the assumption and the check
of the stored versions at start-up. `OneIdentityPerEmail` alone needs it; that indexes
and identities lead to each other, and all theorems below it, hold however keys are
deployed. `Shape` has the types and ties
verifications to active installations; `Links` adds that an alias exists only for a subject
that does, and that nothing names an erased person.

**Telemetry.** `TelemetryPreferencesProofs`, for any installations, workloads, policies and
clock tolerances (`TimeAssumption`, `PolicyAssumption`, `SubjectAssumption`, and
`NullAssumption`: no row is NULL):

| theorem | property |
|---|---|
| `RowInvariant` | the inductive invariant `RowInv` |
| `ErasedStaysWithoutRow` | `ErasedHasNoPreference` |
| `NeverBackdated` | `NoBackdating` |
| `DenialsEmitOnce` | `DenialEmitsOnce` |
| `ErasedStaysWithoutConsent` | `ErasedHasNoConsent` |
| `DenialsStopTokens` | `DenialStopsTokens` |

`RowInv`: an installation has a row exactly while it is active. `ErasedHasNoConsent` is inductive
with the types. `DenialStopsTokens` needs more
(`TokenInv`): the row of an installation that is not linked is written only for its own
key (`KeysAndRoots`), so it is the last word on that key (`LastWord`), and from the denial a
request began with it only moves forward (`Began`).

**Organizations.** `OrganizationsProofs`, for any sets (`SubjectsDiffer`, and `NullAssumption`:
a row's status is not NULL):

| theorem | property |
|---|---|
| `TypeCorrect` | `TypeOK` |
| `ReferencesStayActive` | `ReferencesAreActive` |
| `ErasedStaysErased` | `ErasedHasNoRows` |
| `ChainsInvariant` | the inductive invariant `Chains` |
| `MergesLeadHome` | `MergesEndActive` |
| `MembersStand` | `StandingKept` |

The first two invariants are inductive relative to `TypeOK`: a transaction that writes a
reference checks what it points to, and a merge or an erasure takes the references along.
`Chains` says that exactly the merged organizations point somewhere, to one that exists and
with an audit row, and that links from every organization lead to one that points nowhere. A
merge of two active organizations lengthens the chains that end in the first by one link.

Only model-checked: liveness (`DeletionSettles`, `ChallengeEnds`, `VerificationEnds`,
`DenialLands`), which is out of the prover's reach.

## Not modelled

- Tokens, cryptography, routing, decoding, credentials and scopes, input validation: pure
  functions of keys and input, without state.
- Idempotency keys and fingerprints of repeated requests: a repetition returns what is
  stored and changes nothing.
- `UpdatePublicAccountProfile`: its compare-and-set is within one serializable
  transaction. With versions of the profile the `accounts` instance is out of TLC's reach.
- `issueToken` (`identity_handlers.go`), by which a workload gets a token for a subject: it
  signs without reading a preference, so `DenialStopsTokens` is about the broker only. The
  alias of a live person it may ensure is `EnsureSubjectAlias`, here a step of the
  registration.
- Delivery of suppression events, which uses the functions of `PrivacyDeletion` and has
  no steps to settle.
- Clock skew between instances, beyond `Delay` and `Skew`.
- An attestation of a public challenge's verification. `VerifyEmailOwnership` accepts
  any row of its product; the mail claim then answers with a conflict as long as that
  challenge is the oldest one due. `EmailChallenges` has no such action.
- Audit rows that nothing reads; the health check of the outbox; DDL and start-up.

## Plan

1. Compose `EmailChallenges` with `AccountSessions` (they share the completion) and with
   `IdentityRegistration` (attestation, identity of a right answer).
2. Refinements: an abstract specification of a mail job (sent at most once, then settled)
   that `EmailChallenges` implements, and of a family of capabilities for `AccountSessions`.
