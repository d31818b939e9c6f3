-------------------------- MODULE EmailChallenges --------------------------
(***************************************************************************)
(* Public email registration of one product: the rows of                   *)
(* public_email_challenges, email_verifications, public_registration_flows *)
(* and public_auth_events, the senders that mail the one-time codes, the   *)
(* installations that submit them, and the cleanup worker.                 *)
(*                                                                         *)
(* A challenge row is also the mail job.  A sender claims it for a lease,  *)
(* decrypts the code, re-reads the row, talks to SMTP and records the      *)
(* outcome; every one of these is a separate step, and in between the row  *)
(* may be re-requested, completed, expired, erased, or taken for lost.     *)
(*                                                                         *)
(* Abstractions.  "now" is server time in ticks; the durations of the code *)
(* are constants that keep their order.  A claim token is fresh for every  *)
(* run of ProcessEmail and a sender runs one at a time, so the token is    *)
(* the sender.  A code is right or wrong; an account is the email it       *)
(* belongs to, and a flow's session is named by its account.              *)
(* The two contact buckets always receive the same event, and the one-per- *)
(* window limit lets no two of them share a tick, so they are one set of   *)
(* times; so are the two send buckets.  Columns that nothing reads again    *)
(* before they are rewritten are cleared.                                  *)
(***************************************************************************)
EXTENDS Integers, FiniteSets

CONSTANTS
    Challenges,      \* request identifiers chosen by the installations
    Installations,   \* registered installations of the product
    Emails,          \* addresses that may be typed in
    Senders,         \* concurrent executions of Broker.ProcessEmail
    None,            \* NULL
    DailyLimit,      \* b.dailyLimit: the capacity of the queue and the daily sends
    MaxAttempts,     \* wrong codes that lock a challenge (5 in the code)
    QueueTTL,        \* PublicEmailQueueTTL, 48 h
    CodeTTL,         \* PublicEmailCodeTTL, 10 min
    Lease,           \* mail_claim_until - now, 90 s
    RetryDelay,      \* of a definite temporary rejection, 5 min
    ContactWindow, ContactMax,   \* 15 min, 6
    ResendWindow,                \* 1 min
    DailyWindow,                 \* 24 h
    SendWindow,                  \* 1 s
    Retention,       \* age at which cleanup removes tombstones and events, 48 h
    CleanupLimit,    \* rows one cleanup handles (100 in the code)
    Horizon,         \* bound on time
    LastRequest      \* bound on the time of the last request

ASSUME DurationAssumption ==
    /\ {QueueTTL, CodeTTL, Lease, RetryDelay, Retention, Horizon} \subseteq Nat \ {0}
    /\ LastRequest \in Nat
    /\ {ContactWindow, ResendWindow, DailyWindow, SendWindow} \subseteq Nat
    /\ Lease <= CodeTTL /\ CodeTTL <= QueueTTL
    /\ \A w \in {ContactWindow, ResendWindow, DailyWindow, SendWindow} : w <= Retention
ASSUME LimitAssumption == {DailyLimit, MaxAttempts, ContactMax, CleanupLimit} \subseteq Nat \ {0}
ASSUME NoneAssumption == None \notin Challenges \cup Installations \cup Emails \cup Senders

VARIABLES
    now,           \* server time
    challenge,     \* rows of public_email_challenges
    verification,  \* expires_at of the email_verifications row, or None
    flow,          \* public_registration_flows of an installation
    subject,       \* "live", "deleting" (a deletion request is open) or "erased"
    contacts,      \* times of the otp-request and otp-resend events of an email
    sends,         \* times of the otp-send events
    sender,        \* the job a sender holds and how far it has got
    mails          \* how often SMTP may have accepted the mail of a challenge

tables == <<challenge, verification, flow, subject, contacts, sends>>
vars == <<now, tables, sender, mails>>

-----------------------------------------------------------------------------
Codable == {"delivering", "delivered", "delivery_uncertain"}
Live == Codable \cup {"requested"}
Queued == {"requested", "delivering"}
Final == {"consumed", "locked", "cancelled", "expired", "delivery_failed"}

NoChallenge == [state |-> "absent", installation |-> None, email |-> None,
                created |-> 0, available |-> 0, expires |-> 0,
                owner |-> None, until |-> 0, attempts |-> 0, code |-> "none"]
NoFlow == [challenge |-> None, session |-> None]
Idle == [job |-> None, stage |-> "idle"]

CanTransitionPublicChallenge(from, to) ==
    CASE from = "requested" -> to \in {"delivering", "cancelled", "expired"}
      [] from = "delivering" -> to \in {"delivered", "delivery_failed", "delivery_uncertain",
                                        "cancelled", "expired", "verified", "locked"}
      [] from \in {"delivered", "delivery_uncertain"} ->
             to \in {"verified", "locked", "cancelled", "expired"}
      [] from = "verified" -> to = "consumed"
      [] OTHER -> FALSE

\* finishPublicChallengeTx and cancelPublicChallenge: the row keeps no code.
Finished(row, state) ==
    [row EXCEPT !.state = state, !.code = "none", !.owner = None, !.until = 0,
                !.created = 0, !.available = 0]
\* Mutant: a failed delivery keeps the hash of its code.
MailedKeepsHash(row, outcome) ==
    [row EXCEPT !.state = outcome, !.owner = None, !.until = 0, !.code = "hash"]

\* finishPublicEmailDeliveryTx: the sealed code goes; its hash survives unless the send failed.
Mailed(row, outcome) ==
    [row EXCEPT !.state = outcome, !.owner = None, !.until = 0,
                !.code = IF outcome = "delivery_failed" THEN "none" ELSE "hash"]

\* Mutant: the window leaves out its lower end.
WithinOpenWindow(times, window, max) == Cardinality({t \in times : t > now - window}) < max

\* consumePublicAuthLimits for one bucket: the window includes its lower end.
WithinLimit(times, window, max) == Cardinality({t \in times : t >= now - window}) < max

Current(c) == flow[challenge[c].installation].challenge = c
Accepted(i) == subject[i] # "erased"
Expired(c) == now >= challenge[c].expires

Init ==
    /\ now = 0
    /\ challenge = [c \in Challenges |-> NoChallenge]
    /\ verification = [c \in Challenges |-> None]
    /\ flow = [i \in Installations |-> NoFlow]
    /\ subject = [i \in Installations |-> "live"]
    /\ contacts = [m \in Emails |-> {}]
    /\ sends = {}
    /\ sender = [s \in Senders |-> Idle]
    /\ mails = [c \in Challenges |-> 0]

-----------------------------------------------------------------------------
(* The installation asks for a code. *)

\* Rows that take a place in the queue, less the one the request replaces.
Pending == {c \in Challenges : challenge[c].state \in Queued /\ ~Expired(c)}

\* Mutant: a new request leaves the challenge it replaces as it is.
CreateBesidePrevious(c, i, m) ==
    /\ challenge[c].state = "absent" /\ now <= LastRequest
    /\ Cardinality(Pending) < DailyLimit
    /\ WithinLimit(contacts[m], ContactWindow, ContactMax)
    /\ WithinLimit(contacts[m], ResendWindow, 1)
    /\ Accepted(i)
    /\ challenge' = [challenge EXCEPT ![c] =
          [NoChallenge EXCEPT !.state = "requested", !.code = "sealed",
             !.installation = i, !.email = m, !.created = now,
             !.available = now, !.expires = now + QueueTTL]]
    /\ verification' = [verification EXCEPT ![c] = now + QueueTTL]
    /\ flow' = [flow EXCEPT ![i].challenge = c]
    /\ contacts' = [contacts EXCEPT ![m] = @ \cup {now}]
    /\ UNCHANGED <<now, subject, sends, sender, mails>>

CreatePublicEmailChallenge(c, i, m) ==
    LET previous == flow[i].challenge
        replaced == {p \in Challenges : p = previous /\ challenge[p].installation = i
                       /\ CanTransitionPublicChallenge(challenge[p].state, "cancelled")}
    IN  /\ challenge[c].state = "absent" /\ now <= LastRequest
        /\ Cardinality(Pending \ replaced) < DailyLimit
        /\ WithinLimit(contacts[m], ContactWindow, ContactMax)
        /\ WithinLimit(contacts[m], ResendWindow, 1)
        /\ Accepted(i)
        /\ challenge' = [x \in Challenges |->
              IF x = c THEN [NoChallenge EXCEPT !.state = "requested", !.code = "sealed",
                               !.installation = i, !.email = m, !.created = now,
                               !.available = now, !.expires = now + QueueTTL]
              ELSE IF x \in replaced THEN Finished(challenge[x], "cancelled")
              ELSE challenge[x]]
        /\ verification' = [verification EXCEPT ![c] = now + QueueTTL]
        /\ flow' = [flow EXCEPT ![i].challenge = c]
        /\ contacts' = [contacts EXCEPT ![m] = @ \cup {now}]
        /\ UNCHANGED <<now, subject, sends, sender, mails>>

-----------------------------------------------------------------------------
(* The senders. *)

Oldest(S) == {c \in S : \A d \in S : challenge[c].created <= challenge[d].created}
Lapsed == {c \in Challenges : challenge[c].state = "delivering" /\ challenge[c].until <= now}
Available == {c \in Challenges : challenge[c].state = "requested" /\ challenge[c].available <= now}

\* Mutant: a lapsed lease puts the job back into the queue.
RequeueLapsed(s) ==
    /\ sender[s] = Idle
    /\ \E c \in Oldest(Lapsed) :
          LET deadline == challenge[c].created + QueueTTL
          IN  /\ challenge' = [challenge EXCEPT ![c] =
                    [@ EXCEPT !.state = "requested", !.available = now,
                              !.expires = deadline, !.owner = None, !.until = 0]]
              /\ verification' = [verification EXCEPT ![c] = deadline]
    /\ UNCHANGED <<now, flow, subject, contacts, sends, sender, mails>>

\* A claim that finds a lapsed lease records that nobody knows whether the
\* mail went out; the caller sends nothing.
ClaimLapsed(s) ==
    /\ sender[s] = Idle
    /\ \E c \in Oldest(Lapsed) :
          challenge' = [challenge EXCEPT ![c] = Mailed(@, "delivery_uncertain")]
    /\ UNCHANGED <<now, verification, flow, subject, contacts, sends, sender, mails>>

\* What a claim does with a job that must not be mailed any more.
Refusal(c) ==
    CASE ~Current(c) \/ ~Accepted(challenge[c].installation) -> "cancelled"
      [] Expired(c) -> "expired"
      [] verification[c] = None -> "cancelled"
      [] verification[c] # None /\ now >= verification[c] -> "expired"
      [] OTHER -> "none"

ClaimRefused(s) ==
    /\ sender[s] = Idle /\ Lapsed = {}
    /\ \E c \in Oldest(Available) :
          /\ Refusal(c) # "none"
          /\ challenge' = [challenge EXCEPT ![c] = Finished(@, Refusal(c))]
    /\ UNCHANGED <<now, verification, flow, subject, contacts, sends, sender, mails>>

\* Mutant: the claim forgets to move the deadline of the verification.
ClaimChallengeOnly(s) ==
    /\ sender[s] = Idle /\ Lapsed = {}
    /\ WithinLimit(sends, DailyWindow, DailyLimit)
    /\ WithinLimit(sends, SendWindow, 1)
    /\ \E c \in Oldest(Available) :
          /\ Refusal(c) = "none"
          /\ challenge' = [challenge EXCEPT ![c] =
                [@ EXCEPT !.state = "delivering", !.owner = s, !.until = now + Lease,
                          !.available = 0, !.expires = now + CodeTTL]]
          /\ sender' = [sender EXCEPT ![s] = [job |-> c, stage |-> "claimed"]]
    /\ sends' = sends \cup {now}
    /\ UNCHANGED <<now, verification, flow, subject, contacts, mails>>

\* The claim proper.  Its answer may be lost: then the row is leased and no
\* sender works on it.
ClaimPublicEmailDelivery(s) ==
    /\ sender[s] = Idle /\ Lapsed = {}
    /\ WithinLimit(sends, DailyWindow, DailyLimit)
    /\ WithinLimit(sends, SendWindow, 1)
    /\ \E c \in Oldest(Available) :
          /\ Refusal(c) = "none"
          /\ challenge' = [challenge EXCEPT ![c] =
                [@ EXCEPT !.state = "delivering", !.owner = s, !.until = now + Lease,
                          !.available = 0, !.expires = now + CodeTTL]]
          /\ verification' = [verification EXCEPT ![c] = now + CodeTTL]
          /\ \/ sender' = [sender EXCEPT ![s] = [job |-> c, stage |-> "claimed"]]
             \/ UNCHANGED sender
    /\ sends' = sends \cup {now}
    /\ UNCHANGED <<now, flow, subject, contacts, mails>>

\* ProcessEmail reads the row again just before it sends.
Recheck(s) ==
    LET c == sender[s].job
    IN  /\ sender[s].stage = "claimed"
        /\ IF /\ challenge[c].state = "delivering"
              /\ challenge[c].owner = s
              /\ now < challenge[c].until
              /\ ~Expired(c)
           THEN sender' = [sender EXCEPT ![s].stage = "sending"]
           ELSE sender' = [sender EXCEPT ![s] = Idle]
        /\ UNCHANGED <<now, tables, mails>>

\* The stored code or address cannot be opened.
OpenFails(s) ==
    /\ sender[s].stage = "claimed"
    /\ sender' = [sender EXCEPT ![s].stage = "delivery_failed"]
    /\ UNCHANGED <<now, tables, mails>>

\* The outcome of Send as ProcessEmail classifies it: accepted, unknown,
\* definitely refused for now, or definitely failed.
Send(s) ==
    /\ sender[s].stage = "sending"
    /\ \E outcome \in {"delivered", "delivery_uncertain", "temporary", "delivery_failed"} :
          /\ sender' = [sender EXCEPT ![s].stage = outcome]
          /\ mails' = IF outcome \in {"delivered", "delivery_uncertain"}
                      THEN [mails EXCEPT ![sender[s].job] = @ + 1]
                      ELSE mails
    /\ UNCHANGED <<now, tables>>

Holds(s, c) == challenge[c].state = "delivering" /\ challenge[c].owner = s

\* Mutant: a deferral trusts its sender instead of the row.
DeferWhateverState(s) ==
    LET c == sender[s].job
        deadline == challenge[c].created + QueueTTL
    IN  /\ sender[s].stage = "temporary"
        /\ sender' = [sender EXCEPT ![s] = Idle]
        /\ challenge' = [challenge EXCEPT ![c] =
              [@ EXCEPT !.state = "requested", !.available = now + RetryDelay,
                        !.expires = deadline, !.owner = None, !.until = 0]]
        /\ verification' = [verification EXCEPT ![c] = deadline]
        /\ UNCHANGED <<now, flow, subject, contacts, sends, mails>>

\* A definite temporary rejection puts the job back, within the queue deadline.
DeferPublicEmailDelivery(s) ==
    LET c == sender[s].job
        deadline == challenge[c].created + QueueTTL
    IN  /\ sender[s].stage = "temporary"
        /\ sender' = [sender EXCEPT ![s] = Idle]
        /\ IF ~Holds(s, c) \/ verification[c] = None
           THEN UNCHANGED <<challenge, verification>>
           ELSE IF now + RetryDelay >= deadline
           THEN /\ challenge' = [challenge EXCEPT ![c] = Finished(@, "expired")]
                /\ UNCHANGED verification
           ELSE /\ challenge' = [challenge EXCEPT ![c] =
                      [@ EXCEPT !.state = "requested", !.available = now + RetryDelay,
                                !.expires = deadline, !.owner = None, !.until = 0]]
                /\ verification' = [verification EXCEPT ![c] = deadline]
        /\ UNCHANGED <<now, flow, subject, contacts, sends, mails>>

FinishPublicEmailDelivery(s) ==
    LET c == sender[s].job
    IN  /\ sender[s].stage \in {"delivered", "delivery_uncertain", "delivery_failed"}
        /\ sender' = [sender EXCEPT ![s] = Idle]
        /\ challenge' = IF Holds(s, c)
                        THEN [challenge EXCEPT ![c] = Mailed(@, sender[s].stage)]
                        ELSE challenge
        /\ UNCHANGED <<now, verification, flow, subject, contacts, sends, mails>>

\* The process dies, or its write of the outcome fails.
Abandon(s) ==
    /\ sender[s] # Idle
    /\ sender' = [sender EXCEPT ![s] = Idle]
    /\ UNCHANGED <<now, tables, mails>>

-----------------------------------------------------------------------------
(* The installation submits a code. *)

Answerable(c) ==
    /\ challenge[c].state \in Codable
    /\ challenge[c].attempts < MaxAttempts
    /\ Current(c)
    /\ Accepted(challenge[c].installation)

CompleteExpired(c) ==
    /\ Answerable(c) /\ Expired(c)
    /\ challenge' = [challenge EXCEPT ![c] = Finished(@, "expired")]
    /\ UNCHANGED <<now, verification, flow, subject, contacts, sends, sender, mails>>

\* Mutant: one wrong code too many before the lock.
CompleteWrongLate(c) ==
    LET attempts == challenge[c].attempts + 1
    IN  /\ Answerable(c) /\ ~Expired(c)
        /\ challenge' = [challenge EXCEPT ![c] =
              IF attempts > MaxAttempts
              THEN Finished([@ EXCEPT !.attempts = attempts], "locked")
              ELSE [@ EXCEPT !.attempts = attempts]]
        /\ UNCHANGED <<now, verification, flow, subject, contacts, sends, sender, mails>>

CompleteWrong(c) ==
    LET attempts == challenge[c].attempts + 1
    IN  /\ Answerable(c) /\ ~Expired(c)
        /\ challenge' = [challenge EXCEPT ![c] =
              IF attempts = MaxAttempts
              THEN Finished([@ EXCEPT !.attempts = attempts], "locked")
              ELSE [@ EXCEPT !.attempts = attempts]]
        /\ UNCHANGED <<now, verification, flow, subject, contacts, sends, sender, mails>>

\* The right code registers the email's account, closes the session that the
\* installation had with it and opens a new one.  An installation linked to
\* another account is a conflict, an open deletion request a refusal.  Links
\* last, and sessions of 90 days outlive the Horizon, so an installation is
\* linked exactly when its flow has a session.
CompleteRight(c) ==
    LET i == challenge[c].installation
    IN  /\ Answerable(c) /\ ~Expired(c)
        /\ challenge[c].code # "none"
        /\ verification[c] # None /\ now < verification[c]
        /\ subject[i] = "live"
        /\ flow[i].session \in {None, challenge[c].email}
        /\ challenge' = [challenge EXCEPT ![c] = Finished(@, "consumed")]
        /\ verification' = [verification EXCEPT ![c] = None]
        /\ flow' = [flow EXCEPT ![i].session = challenge[c].email]
        /\ UNCHANGED <<now, subject, contacts, sends, sender, mails>>

-----------------------------------------------------------------------------
(* The cleanup worker, privacy requests and time. *)

\* The rows of S that ORDER BY expires_at LIMIT CleanupLimit may select.
Soonest(S) ==
    {T \in SUBSET S :
        /\ Cardinality(T) = CleanupLimit \/ (T = S /\ Cardinality(S) < CleanupLimit)
        /\ \A c \in T, d \in S \ T : challenge[c].expires <= challenge[d].expires}

\* Mutant: cleanup ends only the challenges still in the mail queue.
OverdueInQueue == {c \in Challenges : challenge[c].state \in Queued /\ Expired(c)}

Overdue == {c \in Challenges : challenge[c].state \in Live /\ Expired(c)}
Tombstones == {c \in Challenges : /\ challenge[c].state \in Live \cup Final
                                  /\ challenge[c].expires < now - Retention}

\* Old events leave every window long before they go, so the portions in which
\* they are deleted do not matter.
CleanupPublicAccountState ==
    \E ended \in Soonest(Overdue), gone \in Soonest(Tombstones) :
        /\ challenge' = [c \in Challenges |->
              IF c \in gone THEN [NoChallenge EXCEPT !.state = "deleted"]
              ELSE IF c \in ended THEN Finished(challenge[c], "expired")
              ELSE challenge[c]]
        /\ verification' = [c \in Challenges |-> IF c \in gone THEN None ELSE verification[c]]
        /\ flow' = [i \in Installations |->
              IF flow[i].challenge \in gone /\ flow[i].session = None
              THEN NoFlow ELSE flow[i]]
        /\ contacts' = [m \in Emails |-> {t \in contacts[m] : t >= now - Retention}]
        /\ sends' = {t \in sends : t >= now - Retention}
        /\ UNCHANGED <<now, subject, sender, mails>>

DeleteExpiredEmailVerifications ==
    LET due == {c \in Challenges : verification[c] # None /\ verification[c] <= now}
    IN  \E gone \in {T \in SUBSET due :
                       /\ Cardinality(T) = CleanupLimit
                          \/ (T = due /\ Cardinality(due) < CleanupLimit)
                       /\ \A c \in T, d \in due \ T : verification[c] <= verification[d]} :
            /\ verification' = [c \in Challenges |-> IF c \in gone THEN None ELSE verification[c]]
            /\ UNCHANGED <<now, challenge, flow, subject, contacts, sends, sender, mails>>

\* A deletion request is opened, or withdrawn again.
PrivacyRequest(i) ==
    /\ \/ subject[i] = "live" /\ subject' = [subject EXCEPT ![i] = "deleting"]
       \/ subject[i] = "deleting" /\ subject' = [subject EXCEPT ![i] = "live"]
    /\ UNCHANGED <<now, challenge, verification, flow, contacts, sends, sender, mails>>

\* erasePublicInstallationState, and the installation is disabled.
EraseInstallation(i) ==
    LET gone == {c \in Challenges : challenge[c].installation = i}
    IN  /\ subject[i] = "deleting"
        /\ subject' = [subject EXCEPT ![i] = "erased"]
        /\ challenge' = [c \in Challenges |->
              IF c \in gone THEN [NoChallenge EXCEPT !.state = "deleted"] ELSE challenge[c]]
        /\ verification' = [c \in Challenges |-> IF c \in gone THEN None ELSE verification[c]]
        /\ flow' = [flow EXCEPT ![i] = NoFlow]
        /\ UNCHANGED <<now, contacts, sends, sender, mails>>

Tick ==
    /\ now < Horizon
    /\ now' = now + 1
    /\ UNCHANGED <<tables, sender, mails>>

SenderStep(s) ==
    \/ ClaimLapsed(s) \/ ClaimRefused(s) \/ ClaimPublicEmailDelivery(s)
    \/ Recheck(s) \/ OpenFails(s) \/ Send(s)
    \/ DeferPublicEmailDelivery(s) \/ FinishPublicEmailDelivery(s) \/ Abandon(s)

Cleaning == CleanupPublicAccountState \/ DeleteExpiredEmailVerifications

Next ==
    \/ \E c \in Challenges, i \in Installations, m \in Emails :
          CreatePublicEmailChallenge(c, i, m)
    \/ \E s \in Senders : SenderStep(s)
    \/ \E c \in Challenges : CompleteExpired(c) \/ CompleteWrong(c) \/ CompleteRight(c)
    \/ Cleaning
    \/ \E i \in Installations : PrivacyRequest(i) \/ EraseInstallation(i)
    \/ Tick

Spec == Init /\ [][Next]_vars

\* The verification worker runs on a ticker, and time passes.  Nothing else is
\* owed: users need not answer, senders may all be down.
FairSpec == Spec /\ WF_vars(Tick) /\ WF_vars(CleanupPublicAccountState)

-----------------------------------------------------------------------------
States == {"absent", "deleted"} \cup Live \cup Final
TypeOK ==
    /\ now \in 0..Horizon
    /\ challenge \in [Challenges ->
          [state : States, installation : Installations \cup {None},
           email : Emails \cup {None}, created : Nat, available : Nat, expires : Nat,
           owner : Senders \cup {None}, until : Nat, attempts : 0..MaxAttempts,
           code : {"none", "hash", "sealed"}]]
    /\ verification \in [Challenges -> Nat \cup {None}]
    /\ flow \in [Installations -> [challenge : Challenges \cup {None},
                                   session : Emails \cup {None}]]
    /\ subject \in [Installations -> {"live", "deleting", "erased"}]
    /\ contacts \in [Emails -> SUBSET Nat]
    /\ sends \in SUBSET Nat
    /\ sender \in [Senders -> [job : Challenges \cup {None},
          stage : {"idle", "claimed", "sending", "delivered", "delivery_uncertain",
                   "temporary", "delivery_failed"}]]
    /\ mails \in [Challenges -> Nat]

\* A mail that SMTP accepted, or may have accepted, is never sent again: the
\* lease may lapse in the middle of a send, the outcome may be recorded late,
\* never, or after somebody else has called the job lost.
MailedOnce ==
    \A c \in Challenges :
        /\ mails[c] <= 1
        /\ mails[c] = 1 => challenge[c].state # "requested"

\* Only the newest challenge of an installation is alive, so a late answer or a
\* late mail of an older one cannot change the registration.
NewestOnly ==
    \A c \in Challenges : challenge[c].state \in Live => Current(c)

\* While a challenge can still be mailed or answered, its verification row is
\* there and ends at the same time; waiting ends at the queue deadline, and a
\* code mailed at the last moment one CodeTTL after it.
RowsExpireTogether ==
    \A c \in Challenges : challenge[c].state \in Live =>
        /\ ~Expired(c) => verification[c] = challenge[c].expires
        /\ challenge[c].state = "requested" => challenge[c].expires = challenge[c].created + QueueTTL
        /\ challenge[c].expires <= challenge[c].created + QueueTTL + CodeTTL

\* A code survives only in a challenge that can use it, whatever wrote the row
\* last, and the sealed copy only until the mail is out.
CodeOnlyWhileUsable ==
    \A c \in Challenges :
        /\ challenge[c].code # "none" <=> challenge[c].state \in Live
        /\ challenge[c].code = "sealed" <=> challenge[c].state \in Queued

\* MaxAttempts wrong codes lock the challenge for good, also when they are
\* spread over deferred deliveries.
LockedAtLimit ==
    \A c \in Challenges :
        challenge[c].attempts = MaxAttempts <=> challenge[c].state = "locked"

\* Any window of the mail budget holds at most its limit of claims.
SendBudget ==
    \A t \in sends :
        /\ Cardinality({u \in sends : t - DailyWindow <= u /\ u <= t}) <= DailyLimit
        /\ Cardinality({u \in sends : t - SendWindow <= u /\ u <= t}) <= 1

\* A challenge changes state along CanTransitionPublicChallenge, verified and
\* consumed being one step; the only way back is a definite rejection of a mail
\* that was never accepted.
StepAllowed(c) ==
    LET from == challenge[c].state
        to == challenge'[c].state
    IN  \/ to \in {from, "deleted"}
        \/ from = "absent" /\ to = "requested"
        \/ CanTransitionPublicChallenge(from, to)
        \/ CanTransitionPublicChallenge(from, "verified") /\ to = "consumed"
        \/ from = "delivering" /\ to = "requested" /\ mails[c] = 0
FollowsFSM == [][\A c \in Challenges : StepAllowed(c)]_vars

\* Every challenge comes to an end without anyone's help but the cleanup
\* worker's: no sender, deferral or poll keeps one alive.
ChallengeEnds ==
    \A c \in Challenges :
        challenge[c].state \in Live ~> challenge[c].state \in Final \cup {"deleted"}

\* The queue never holds more live jobs than its capacity.
QueueWithinCapacity == Cardinality(Pending) <= DailyLimit
=============================================================================
