----------------------- MODULE EmailChallengesProofs ------------------------
(***************************************************************************)
(* Proofs about EmailChallenges, for any number of challenges,             *)
(* installations, emails and senders and any durations and limits that     *)
(* satisfy its assumptions.                                                *)
(*                                                                         *)
(* The argument goes row by row.  RowChange lists what one step may do to  *)
(* one challenge: nothing, ask, claim, defer, record an outcome, count a   *)
(* wrong code, finish or delete.  What a row alone must satisfy (RowInv)   *)
(* follows from that list.  That a mail goes out once needs the senders:   *)
(* the sender of a job is its only one, and until its mail is accepted     *)
(* nobody else has had it accepted (SenderInv).                            *)
(***************************************************************************)
EXTENDS EmailChallenges, FiniteSetTheorems, TLAPS

-----------------------------------------------------------------------------
(* The rows and the values an operation writes. *)

Row == [state : States, installation : Installations \cup {None},
        email : Emails \cup {None}, created : Nat, available : Nat, expires : Nat,
        owner : Senders \cup {None}, until : Nat, attempts : 0..MaxAttempts,
        code : {"none", "hash", "sealed"}]
Stages == {"idle", "claimed", "sending", "delivered", "delivery_uncertain", "temporary", "delivery_failed"}

Asked(i, m, t) == [NoChallenge EXCEPT !.state = "requested", !.code = "sealed",
                      !.installation = i, !.email = m, !.created = t,
                      !.available = t, !.expires = t + QueueTTL]
Claimed(row, s, t) == [row EXCEPT !.state = "delivering", !.owner = s, !.until = t + Lease,
                                  !.available = 0, !.expires = t + CodeTTL]
Deferred(row, t) == [row EXCEPT !.state = "requested", !.available = t + RetryDelay,
                                !.expires = row.created + QueueTTL, !.owner = None, !.until = 0]
Tried(row) == [row EXCEPT !.attempts = row.attempts + 1]
Erased == [NoChallenge EXCEPT !.state = "deleted"]

\* Replacing one column of a row.
LEMMA ColumnWritten ==
    ASSUME NEW r \in Row
    PROVE  /\ \A x \in States : [r EXCEPT !.state = x] \in Row
           /\ \A x \in Installations : [r EXCEPT !.installation = x] \in Row
           /\ \A x \in Emails : [r EXCEPT !.email = x] \in Row
           /\ \A x \in Nat : [r EXCEPT !.created = x] \in Row
           /\ \A x \in Nat : [r EXCEPT !.available = x] \in Row
           /\ \A x \in Nat : [r EXCEPT !.expires = x] \in Row
           /\ \A x \in Senders \cup {None} : [r EXCEPT !.owner = x] \in Row
           /\ \A x \in Nat : [r EXCEPT !.until = x] \in Row
           /\ \A x \in 0..MaxAttempts : [r EXCEPT !.attempts = x] \in Row
           /\ \A x \in {"none", "hash", "sealed"} : [r EXCEPT !.code = x] \in Row
  BY DEF Row

\* A challenge that was never requested is a row.
LEMMA EmptyRow == NoChallenge \in Row
<1>1. 0 \in 0..MaxAttempts
  BY LimitAssumption
<1>. QED
  BY <1>1 DEF NoChallenge, Row, States

\* What a deleted challenge leaves.
LEMMA ErasedRow ==
    /\ Erased \in Row /\ Erased.state = "deleted" /\ Erased.code = "none" /\ Erased.attempts = 0
    /\ Erased.installation = None
<1>1. Erased \in Row
  BY EmptyRow, ColumnWritten DEF Erased, States
<1>. QED
  BY <1>1 DEF Erased, NoChallenge

\* What CreatePublicEmailChallenge writes.
LEMMA AskedRow ==
    ASSUME NEW i \in Installations, NEW m \in Emails, NEW t \in Nat
    PROVE  /\ Asked(i, m, t) \in Row
           /\ Asked(i, m, t).state = "requested" /\ Asked(i, m, t).code = "sealed"
           /\ Asked(i, m, t).installation = i /\ Asked(i, m, t).created = t
           /\ Asked(i, m, t).expires = t + QueueTTL /\ Asked(i, m, t).attempts = 0
<1> DEFINE a == [NoChallenge EXCEPT !.state = "requested"]
           b == [a EXCEPT !.code = "sealed"]
           c == [b EXCEPT !.installation = i]
           d == [c EXCEPT !.email = m]
           e == [d EXCEPT !.created = t]
           f == [e EXCEPT !.available = t]
<1>1. t + QueueTTL \in Nat
  BY DurationAssumption
<1>2. a \in Row
  BY EmptyRow, ColumnWritten DEF States, Live
<1> HIDE DEF a
<1>3. b \in Row
  BY <1>2, ColumnWritten
<1> HIDE DEF b
<1>4. c \in Row
  BY <1>3, ColumnWritten
<1> HIDE DEF c
<1>5. d \in Row
  BY <1>4, ColumnWritten
<1> HIDE DEF d
<1>6. e \in Row
  BY <1>5, ColumnWritten
<1> HIDE DEF e
<1>7. f \in Row
  BY <1>6, ColumnWritten
<1> HIDE DEF f
<1>8. [f EXCEPT !.expires = t + QueueTTL] \in Row
  BY <1>1, <1>7, ColumnWritten
<1>9. Asked(i, m, t) \in Row
  BY <1>8 DEF Asked, a, b, c, d, e, f
<1>. QED
  BY <1>9 DEF Asked, NoChallenge

\* What ClaimPublicEmailDelivery writes.
LEMMA ClaimedRow ==
    ASSUME NEW r \in Row, NEW s \in Senders, NEW t \in Nat
    PROVE  /\ Claimed(r, s, t) \in Row
           /\ Claimed(r, s, t).state = "delivering" /\ Claimed(r, s, t).owner = s
           /\ Claimed(r, s, t).expires = t + CodeTTL
           /\ Claimed(r, s, t).installation = r.installation /\ Claimed(r, s, t).created = r.created
           /\ Claimed(r, s, t).attempts = r.attempts /\ Claimed(r, s, t).code = r.code
<1> DEFINE a == [r EXCEPT !.state = "delivering"]
           b == [a EXCEPT !.owner = s]
           c == [b EXCEPT !.until = t + Lease]
           d == [c EXCEPT !.available = 0]
<1>1. t + Lease \in Nat /\ t + CodeTTL \in Nat
  BY DurationAssumption
<1>2. a \in Row
  BY ColumnWritten DEF States, Live, Codable
<1> HIDE DEF a
<1>3. b \in Row
  BY <1>2, ColumnWritten
<1> HIDE DEF b
<1>4. c \in Row
  BY <1>1, <1>3, ColumnWritten
<1> HIDE DEF c
<1>5. d \in Row
  BY <1>4, ColumnWritten
<1> HIDE DEF d
<1>6. [d EXCEPT !.expires = t + CodeTTL] \in Row
  BY <1>1, <1>5, ColumnWritten
<1>7. Claimed(r, s, t) \in Row
  BY <1>6 DEF Claimed, a, b, c, d
<1>. QED
  BY <1>7 DEF Claimed, Row

\* What DeferPublicEmailDelivery writes.
LEMMA DeferredRow ==
    ASSUME NEW r \in Row, NEW t \in Nat
    PROVE  /\ Deferred(r, t) \in Row
           /\ Deferred(r, t).state = "requested"
           /\ Deferred(r, t).expires = r.created + QueueTTL
           /\ Deferred(r, t).installation = r.installation /\ Deferred(r, t).created = r.created
           /\ Deferred(r, t).attempts = r.attempts /\ Deferred(r, t).code = r.code
<1> DEFINE a == [r EXCEPT !.state = "requested"]
           b == [a EXCEPT !.available = t + RetryDelay]
           c == [b EXCEPT !.expires = r.created + QueueTTL]
           d == [c EXCEPT !.owner = None]
<1>1. t + RetryDelay \in Nat /\ r.created + QueueTTL \in Nat
  BY DurationAssumption DEF Row
<1>2. a \in Row
  BY ColumnWritten DEF States, Live
<1> HIDE DEF a
<1>3. b \in Row
  BY <1>1, <1>2, ColumnWritten
<1> HIDE DEF b
<1>4. c \in Row
  BY <1>1, <1>3, ColumnWritten
<1> HIDE DEF c
<1>5. d \in Row
  BY <1>4, ColumnWritten
<1> HIDE DEF d
<1>6. [d EXCEPT !.until = 0] \in Row
  BY <1>5, ColumnWritten
<1>7. Deferred(r, t) \in Row
  BY <1>6 DEF Deferred, a, b, c, d
<1>. QED
  BY <1>7 DEF Deferred, Row

\* What a cancelled, expired, locked or consumed challenge keeps.
LEMMA FinishedRow ==
    ASSUME NEW r \in Row, NEW x \in Final
    PROVE  /\ Finished(r, x) \in Row
           /\ Finished(r, x).state = x /\ Finished(r, x).code = "none"
           /\ Finished(r, x).installation = r.installation /\ Finished(r, x).attempts = r.attempts
<1> DEFINE a == [r EXCEPT !.state = x]
           b == [a EXCEPT !.code = "none"]
           c == [b EXCEPT !.owner = None]
           d == [c EXCEPT !.until = 0]
           e == [d EXCEPT !.created = 0]
<1>1. a \in Row
  BY ColumnWritten DEF States
<1> HIDE DEF a
<1>2. b \in Row
  BY <1>1, ColumnWritten
<1> HIDE DEF b
<1>3. c \in Row
  BY <1>2, ColumnWritten
<1> HIDE DEF c
<1>4. d \in Row
  BY <1>3, ColumnWritten
<1> HIDE DEF d
<1>5. e \in Row
  BY <1>4, ColumnWritten
<1> HIDE DEF e
<1>6. [e EXCEPT !.available = 0] \in Row
  BY <1>5, ColumnWritten
<1>7. Finished(r, x) \in Row
  BY <1>6 DEF Finished, a, b, c, d, e
<1>. QED
  BY <1>7 DEF Finished, Row

\* What FinishPublicEmailDelivery writes.
LEMMA MailedRow ==
    ASSUME NEW r \in Row, NEW x \in {"delivered", "delivery_uncertain", "delivery_failed"}
    PROVE  /\ Mailed(r, x) \in Row
           /\ Mailed(r, x).state = x
           /\ Mailed(r, x).code = IF x = "delivery_failed" THEN "none" ELSE "hash"
           /\ Mailed(r, x).installation = r.installation /\ Mailed(r, x).attempts = r.attempts
           /\ Mailed(r, x).created = r.created /\ Mailed(r, x).expires = r.expires
<1> DEFINE a == [r EXCEPT !.state = x]
           b == [a EXCEPT !.owner = None]
           c == [b EXCEPT !.until = 0]
<1>1. a \in Row
  BY ColumnWritten DEF States, Live, Codable, Final
<1> HIDE DEF a
<1>2. b \in Row
  BY <1>1, ColumnWritten
<1> HIDE DEF b
<1>3. c \in Row
  BY <1>2, ColumnWritten
<1> HIDE DEF c
<1>4. [c EXCEPT !.code = IF x = "delivery_failed" THEN "none" ELSE "hash"] \in Row
  BY <1>3, ColumnWritten
<1>5. Mailed(r, x) \in Row
  BY <1>4 DEF Mailed, a, b, c
<1>. QED
  BY <1>5 DEF Mailed, Row

\* What a wrong code writes.
LEMMA TriedRow ==
    ASSUME NEW r \in Row, r.attempts < MaxAttempts
    PROVE  /\ Tried(r) \in Row /\ Tried(r).attempts = r.attempts + 1
           /\ Tried(r).state = r.state /\ Tried(r).code = r.code /\ Tried(r).owner = r.owner
           /\ Tried(r).installation = r.installation
           /\ Tried(r).created = r.created /\ Tried(r).expires = r.expires
<1>1. r.attempts + 1 \in 0..MaxAttempts
  BY LimitAssumption DEF Row
<1>2. Tried(r) \in Row
  BY <1>1, ColumnWritten DEF Tried
<1>. QED
  BY <1>2 DEF Tried, Row

-----------------------------------------------------------------------------
(* What a step does to one row. *)

RowsTyped == challenge \in [Challenges -> Row] /\ verification \in [Challenges -> Nat \cup {None}]
SendersTyped == sender \in [Senders -> [job : Challenges \cup {None}, stage : Stages]]
                /\ \A s \in Senders : sender[s].stage # "idle" => sender[s].job \in Challenges
Typed == now \in 0..Horizon /\ RowsTyped /\ SendersTyped

\* Left alone, except that the cleanup may take a verification that is over.
Untouched(c) ==
    /\ challenge'[c] = challenge[c]
    /\ \/ verification'[c] = verification[c]
       \/ verification'[c] = None /\ verification[c] # None /\ verification[c] <= now
    /\ now' \in {now, now + 1}
Deletes(c) == challenge'[c] = Erased /\ verification'[c] = None
Asks(c) ==
    /\ challenge[c].state = "absent"
    /\ \E i \in Installations, m \in Emails : challenge'[c] = Asked(i, m, now)
    /\ verification'[c] = now + QueueTTL
Ends(c) ==
    /\ \E x \in {"cancelled", "expired"} : challenge'[c] = Finished(challenge[c], x)
    /\ challenge[c].state \in Live /\ verification'[c] = verification[c]
Records(c) ==
    /\ challenge[c].state = "delivering"
    /\ \E x \in {"delivered", "delivery_uncertain", "delivery_failed"} : challenge'[c] = Mailed(challenge[c], x)
    /\ verification'[c] = verification[c]
Claims(c) ==
    /\ challenge[c].state = "requested" /\ ~Expired(c)
    /\ \E s \in Senders : challenge'[c] = Claimed(challenge[c], s, now)
    /\ verification'[c] = now + CodeTTL
Defers(c) ==
    /\ challenge[c].state = "delivering"
    /\ \E s \in Senders : /\ sender[s].stage = "temporary" /\ sender[s].job = c
                          /\ sender' = [sender EXCEPT ![s] = Idle]
    /\ challenge'[c] = Deferred(challenge[c], now)
    /\ verification'[c] = challenge[c].created + QueueTTL
Answers(c) ==
    /\ challenge[c].state \in Codable /\ challenge[c].attempts < MaxAttempts
    /\ verification'[c] \in {verification[c], None}
    /\ \/ /\ challenge[c].attempts + 1 # MaxAttempts
          /\ challenge'[c] = Tried(challenge[c]) /\ verification'[c] = verification[c]
       \/ challenge[c].attempts + 1 = MaxAttempts /\ challenge'[c] = Finished(Tried(challenge[c]), "locked")
       \/ challenge'[c] = Finished(challenge[c], "consumed")

RowChange(c) ==
    \/ Untouched(c)
    \/ Deletes(c) \/ Asks(c) \/ Ends(c) \/ Records(c) \/ Claims(c) \/ Defers(c) \/ Answers(c)

\* Only live challenges are cancelled or expire.
LEMMA CanEnd ==
    ASSUME NEW from, NEW to \in {"cancelled", "expired"}, CanTransitionPublicChallenge(from, to)
    PROVE  from \in Live
  BY DEF CanTransitionPublicChallenge, Live, Codable

\* Every live challenge may be cancelled or expire.
LEMMA LiveCanEnd ==
    ASSUME NEW from \in Live, NEW to \in {"cancelled", "expired"}
    PROVE  CanTransitionPublicChallenge(from, to)
  BY DEF CanTransitionPublicChallenge, Live, Codable

\* Every step changes each row in one of these ways, and while it changes one
\* no time passes and no mail goes out.
LEMMA StepRow ==
    ASSUME Typed, [Next]_vars, NEW c \in Challenges
    PROVE  RowChange(c) /\ (Untouched(c) \/ (now' = now /\ mails' = mails))
<1>0. RowsTyped /\ SendersTyped /\ now \in Nat
  BY DurationAssumption DEF Typed
<1>1. ASSUME UNCHANGED <<challenge, verification>>, now' \in {now, now + 1} PROVE Untouched(c)
  BY <1>1 DEF Untouched
<1>2. ASSUME NEW d \in Challenges, NEW i \in Installations, NEW m \in Emails, CreatePublicEmailChallenge(d, i, m)
      PROVE  (Untouched(c) \/ Asks(c) \/ Ends(c)) /\ UNCHANGED <<now, mails>>
  <2>1. UNCHANGED <<now, mails>> /\ challenge[d].state = "absent"
    BY <1>2 DEF CreatePublicEmailChallenge
  <2>2. CASE c = d
    <3>1. challenge'[c] = Asked(i, m, now) /\ verification'[c] = now + QueueTTL
      BY <1>0, <1>2, <2>2 DEF CreatePublicEmailChallenge, Asked, RowsTyped
    <3>. QED
      BY <2>1, <2>2, <3>1 DEF Asks
  <2>3. CASE c # d
    <3>1. verification'[c] = verification[c]
      BY <1>0, <1>2, <2>3 DEF CreatePublicEmailChallenge, RowsTyped
    <3>2. \/ challenge'[c] = challenge[c]
          \/ /\ challenge'[c] = Finished(challenge[c], "cancelled")
             /\ CanTransitionPublicChallenge(challenge[c].state, "cancelled")
      BY <1>2, <2>3 DEF CreatePublicEmailChallenge
    <3>. QED
      BY <2>1, <3>1, <3>2, CanEnd DEF Untouched, Ends
  <2>. QED
    BY <2>1, <2>2, <2>3
<1>3. ASSUME NEW s \in Senders, ClaimLapsed(s) PROVE (Untouched(c) \/ Records(c)) /\ UNCHANGED <<now, mails>>
  BY <1>0, <1>3 DEF ClaimLapsed, Oldest, Lapsed, RowsTyped, Untouched, Records
<1>4. ASSUME NEW s \in Senders, ClaimRefused(s) PROVE (Untouched(c) \/ Ends(c)) /\ UNCHANGED <<now, mails>>
  <2>1. PICK d \in Oldest(Available) : /\ Refusal(d) # "none"
                                       /\ challenge' = [challenge EXCEPT ![d] = Finished(@, Refusal(d))]
    BY <1>4 DEF ClaimRefused
  <2>2. Refusal(d) \in {"cancelled", "expired", "none"}
    BY DEF Refusal
  <2>3. challenge[d].state \in Live
    BY DEF Oldest, Available, Live
  <2>4. UNCHANGED <<now, verification, mails>>
    BY <1>4 DEF ClaimRefused
  <2>. QED
    BY <1>0, <2>1, <2>2, <2>3, <2>4 DEF RowsTyped, Untouched, Ends
<1>5. ASSUME NEW s \in Senders, ClaimPublicEmailDelivery(s)
      PROVE  (Untouched(c) \/ Claims(c)) /\ UNCHANGED <<now, mails>>
  <2>1. PICK d \in Oldest(Available) :
          /\ Refusal(d) = "none"
          /\ challenge' = [challenge EXCEPT ![d] =
                [@ EXCEPT !.state = "delivering", !.owner = s, !.until = now + Lease,
                          !.available = 0, !.expires = now + CodeTTL]]
          /\ verification' = [verification EXCEPT ![d] = now + CodeTTL]
    BY <1>5 DEF ClaimPublicEmailDelivery
  <2>2. challenge[d].state = "requested" /\ d \in Challenges
    BY DEF Oldest, Available
  <2>3. ~Expired(d)
    BY <2>1 DEF Refusal
  <2>4. UNCHANGED <<now, mails>>
    BY <1>5 DEF ClaimPublicEmailDelivery
  <2>5. CASE c = d
    <3>1. challenge'[c] = Claimed(challenge[c], s, now) /\ verification'[c] = now + CodeTTL
      BY <1>0, <2>1, <2>5 DEF RowsTyped, Claimed
    <3>. QED
      BY <2>2, <2>3, <2>4, <2>5, <3>1 DEF Claims
  <2>6. CASE c # d
    BY <1>0, <2>1, <2>4, <2>6 DEF RowsTyped, Untouched
  <2>. QED
    BY <2>5, <2>6
<1>6. ASSUME NEW s \in Senders, Recheck(s) \/ OpenFails(s) \/ Send(s) \/ Abandon(s) PROVE Untouched(c)
  BY <1>1, <1>6 DEF Recheck, OpenFails, Send, Abandon, tables
<1>7. ASSUME NEW s \in Senders, DeferPublicEmailDelivery(s)
      PROVE  (Untouched(c) \/ Ends(c) \/ Defers(c)) /\ UNCHANGED <<now, mails>>
  <2> DEFINE d == sender[s].job
  <2>1. sender[s].stage = "temporary" /\ sender' = [sender EXCEPT ![s] = Idle] /\ UNCHANGED <<now, mails>>
    BY <1>7 DEF DeferPublicEmailDelivery
  <2>2. d \in Challenges
    BY <1>0, <2>1 DEF SendersTyped
  <2>3. \/ UNCHANGED <<challenge, verification>>
        \/ /\ Holds(s, d) /\ UNCHANGED verification
           /\ challenge' = [challenge EXCEPT ![d] = Finished(@, "expired")]
        \/ /\ Holds(s, d)
           /\ challenge' = [challenge EXCEPT ![d] = Deferred(@, now)]
           /\ verification' = [verification EXCEPT ![d] = challenge[d].created + QueueTTL]
    BY <1>7 DEF DeferPublicEmailDelivery, Deferred
  <2>4. CASE c = d
    BY <1>0, <2>1, <2>3, <2>4 DEF RowsTyped, Holds, Untouched, Ends, Defers, Live, Codable
  <2>5. CASE c # d
    BY <1>0, <2>1, <2>3, <2>5 DEF RowsTyped, Untouched
  <2>. QED
    BY <2>1, <2>4, <2>5
<1>8. ASSUME NEW s \in Senders, FinishPublicEmailDelivery(s)
      PROVE  (Untouched(c) \/ Records(c)) /\ UNCHANGED <<now, mails>>
  <2>1. sender[s].job \in Challenges
    BY <1>0, <1>8 DEF FinishPublicEmailDelivery, SendersTyped
  <2>. QED
    BY <1>0, <1>8, <2>1 DEF FinishPublicEmailDelivery, RowsTyped, Holds, Untouched, Records
<1>9. ASSUME NEW d \in Challenges, CompleteExpired(d)
      PROVE  (Untouched(c) \/ Ends(c)) /\ UNCHANGED <<now, mails>>
  BY <1>0, <1>9 DEF CompleteExpired, Answerable, RowsTyped, Untouched, Ends, Live
<1>10. ASSUME NEW d \in Challenges, CompleteWrong(d)
       PROVE  (Untouched(c) \/ Answers(c)) /\ UNCHANGED <<now, mails>>
  <2>1. /\ challenge[d].state \in Codable /\ challenge[d].attempts < MaxAttempts
        /\ UNCHANGED <<now, verification, mails>>
        /\ challenge' = [challenge EXCEPT ![d] =
              IF challenge[d].attempts + 1 = MaxAttempts
              THEN Finished(Tried(challenge[d]), "locked") ELSE Tried(challenge[d])]
    BY <1>10 DEF CompleteWrong, Answerable, Tried
  <2>. QED
    BY <1>0, <2>1 DEF RowsTyped, Untouched, Answers
<1>11. ASSUME NEW d \in Challenges, CompleteRight(d)
       PROVE  (Untouched(c) \/ Answers(c)) /\ UNCHANGED <<now, mails>>
  BY <1>0, <1>11 DEF CompleteRight, Answerable, RowsTyped, Untouched, Answers
<1>12. ASSUME CleanupPublicAccountState
       PROVE  (Untouched(c) \/ Deletes(c) \/ Ends(c)) /\ UNCHANGED <<now, mails>>
  <2>1. PICK ended \in Soonest(Overdue), gone \in Soonest(Tombstones) :
        /\ challenge' = [d \in Challenges |->
              IF d \in gone THEN [NoChallenge EXCEPT !.state = "deleted"]
              ELSE IF d \in ended THEN Finished(challenge[d], "expired")
              ELSE challenge[d]]
        /\ verification' = [d \in Challenges |-> IF d \in gone THEN None ELSE verification[d]]
        /\ UNCHANGED <<now, mails>>
    BY <1>12 DEF CleanupPublicAccountState
  <2>2. c \in ended => challenge[c].state \in Live
    BY DEF Soonest, Overdue
  <2>. QED
    BY <2>1, <2>2 DEF Untouched, Deletes, Ends, Erased
<1>13. ASSUME DeleteExpiredEmailVerifications PROVE Untouched(c)
  <2>1. PICK gone : /\ \A d \in gone : verification[d] # None /\ verification[d] <= now
                    /\ verification' = [d \in Challenges |-> IF d \in gone THEN None ELSE verification[d]]
    BY <1>13 DEF DeleteExpiredEmailVerifications
  <2>. QED
    BY <1>13, <2>1 DEF DeleteExpiredEmailVerifications, Untouched
<1>14. ASSUME NEW i \in Installations, EraseInstallation(i)
       PROVE  (Untouched(c) \/ Deletes(c)) /\ UNCHANGED <<now, mails>>
  BY <1>14 DEF EraseInstallation, Untouched, Deletes, Erased
<1>15. ASSUME (\E i \in Installations : PrivacyRequest(i)) \/ Tick \/ UNCHANGED vars PROVE Untouched(c)
  BY <1>1, <1>15 DEF PrivacyRequest, Tick, vars, tables
<1>. QED
  BY <1>2, <1>3, <1>4, <1>5, <1>6, <1>7, <1>8, <1>9, <1>10, <1>11, <1>12, <1>13, <1>14, <1>15
     DEF Next, SenderStep, Cleaning, RowChange

-----------------------------------------------------------------------------
(* Types. *)

\* The tables keep their keys.
LEMMA StepTables ==
    ASSUME Typed, [Next]_vars
    PROVE  /\ challenge' = [c \in Challenges |-> challenge'[c]]
           /\ verification' = [c \in Challenges |-> verification'[c]]
<1> DEFINE Table(t) == t = [c \in Challenges |-> t[c]]
<1>0. challenge \in [Challenges -> Row] /\ verification \in [Challenges -> Nat \cup {None}]
  BY DEF Typed, RowsTyped
<1>1. ASSUME UNCHANGED <<challenge, verification>> PROVE Table(challenge') /\ Table(verification')
  BY <1>0, <1>1
<1>2. ASSUME \E c \in Challenges, i \in Installations, m \in Emails : CreatePublicEmailChallenge(c, i, m)
      PROVE  Table(challenge') /\ Table(verification')
  BY <1>0, <1>2 DEF CreatePublicEmailChallenge
<1>3. ASSUME NEW s \in Senders, ClaimLapsed(s) \/ ClaimRefused(s) PROVE Table(challenge') /\ Table(verification')
  BY <1>0, <1>3 DEF ClaimLapsed, ClaimRefused
<1>4. ASSUME NEW s \in Senders, ClaimPublicEmailDelivery(s) PROVE Table(challenge') /\ Table(verification')
  BY <1>0, <1>4 DEF ClaimPublicEmailDelivery
<1>5. ASSUME NEW s \in Senders, DeferPublicEmailDelivery(s) PROVE Table(challenge') /\ Table(verification')
  BY <1>0, <1>5 DEF DeferPublicEmailDelivery
<1>6. ASSUME NEW s \in Senders, FinishPublicEmailDelivery(s) PROVE Table(challenge') /\ Table(verification')
  BY <1>0, <1>6 DEF FinishPublicEmailDelivery
<1>7. ASSUME NEW c \in Challenges, CompleteExpired(c) \/ CompleteWrong(c) \/ CompleteRight(c)
      PROVE  Table(challenge') /\ Table(verification')
  BY <1>0, <1>7 DEF CompleteExpired, CompleteWrong, CompleteRight
<1>8. ASSUME Cleaning PROVE Table(challenge') /\ Table(verification')
  BY <1>0, <1>8 DEF Cleaning, CleanupPublicAccountState, DeleteExpiredEmailVerifications
<1>9. ASSUME NEW i \in Installations, EraseInstallation(i) PROVE Table(challenge') /\ Table(verification')
  BY <1>9 DEF EraseInstallation
<1>10. ASSUME NEW s \in Senders, Recheck(s) \/ OpenFails(s) \/ Send(s) \/ Abandon(s)
       PROVE  UNCHANGED <<challenge, verification>>
  BY <1>10 DEF Recheck, OpenFails, Send, Abandon, tables
<1>11. ASSUME (\E i \in Installations : PrivacyRequest(i)) \/ Tick \/ UNCHANGED vars
       PROVE  UNCHANGED <<challenge, verification>>
  BY <1>11 DEF PrivacyRequest, Tick, vars, tables
<1> HIDE DEF Table
<1>12. Table(challenge') /\ Table(verification')
  BY <1>1, <1>2, <1>3, <1>4, <1>5, <1>6, <1>7, <1>8, <1>9, <1>10, <1>11 DEF Next, SenderStep
<1>. QED
  BY <1>12 DEF Table

\* The rows keep their types.
LEMMA StepRowsTyped ==
    ASSUME Typed, [Next]_vars
    PROVE  RowsTyped'
<1>1. ASSUME NEW c \in Challenges PROVE challenge'[c] \in Row /\ verification'[c] \in Nat \cup {None}
  <2>0. challenge[c] \in Row /\ verification[c] \in Nat \cup {None} /\ now \in Nat
    BY DurationAssumption DEF Typed, RowsTyped
  <2>1. now + QueueTTL \in Nat /\ now + CodeTTL \in Nat /\ challenge[c].created + QueueTTL \in Nat
    BY <2>0, DurationAssumption DEF Row
  <2>2. CASE Untouched(c)
    BY <2>0, <2>2 DEF Untouched
  <2>3. CASE Deletes(c)
    BY <2>3, ErasedRow DEF Deletes
  <2>4. CASE Asks(c)
    BY <2>0, <2>1, <2>4, AskedRow DEF Asks
  <2>5. CASE Ends(c)
    BY <2>0, <2>5, FinishedRow DEF Ends, Final
  <2>6. CASE Records(c)
    BY <2>0, <2>6, MailedRow DEF Records
  <2>7. CASE Claims(c)
    BY <2>0, <2>1, <2>7, ClaimedRow DEF Claims
  <2>8. CASE Defers(c)
    BY <2>0, <2>1, <2>8, DeferredRow DEF Defers
  <2>9. CASE Answers(c)
    BY <2>0, <2>9, TriedRow, FinishedRow DEF Answers, Final
  <2>. QED
    BY <2>2, <2>3, <2>4, <2>5, <2>6, <2>7, <2>8, <2>9, StepRow DEF RowChange
<1>2. challenge' \in [Challenges -> Row]
  BY <1>1, StepTables
<1>3. verification' \in [Challenges -> Nat \cup {None}]
  BY <1>1, StepTables
<1>. QED
  BY <1>2, <1>3 DEF RowsTyped

\* How a sender moves: to a job it claims, on to the next stage of its job, or
\* back to nothing.
SenderMoves(s) ==
    \/ sender' = [sender EXCEPT ![s] = Idle] /\ UNCHANGED mails
    \/ \E c \in Challenges : /\ sender' = [sender EXCEPT ![s] = [job |-> c, stage |-> "claimed"]]
                             /\ challenge[c].state = "requested" /\ challenge'[c].state = "delivering"
                             /\ UNCHANGED mails
    \/ \E x \in Stages \ {"idle", "claimed"} :
          /\ sender' = [sender EXCEPT ![s].stage = x]
          /\ sender[s].stage \in {"claimed", "sending"}
          /\ mails' = IF x \in {"delivered", "delivery_uncertain"}
                      THEN [mails EXCEPT ![sender[s].job] = @ + 1] ELSE mails
    \/ UNCHANGED <<sender, mails>>

\* The senders keep theirs.
LEMMA StepSenders ==
    ASSUME Typed, [Next]_vars
    PROVE  (\E s \in Senders : SenderMoves(s)) \/ UNCHANGED <<sender, mails>>
<1>0. RowsTyped /\ SendersTyped
  BY DEF Typed
<1>1. ASSUME NEW s \in Senders, ClaimPublicEmailDelivery(s) PROVE SenderMoves(s)
  <2>1. PICK d \in Oldest(Available) :
          /\ challenge' = [challenge EXCEPT ![d] =
                [@ EXCEPT !.state = "delivering", !.owner = s, !.until = now + Lease,
                          !.available = 0, !.expires = now + CodeTTL]]
          /\ \/ sender' = [sender EXCEPT ![s] = [job |-> d, stage |-> "claimed"]]
             \/ UNCHANGED sender
          /\ UNCHANGED mails
    BY <1>1 DEF ClaimPublicEmailDelivery
  <2>2. d \in Challenges /\ challenge[d].state = "requested"
    BY DEF Oldest, Available
  <2>3. challenge'[d].state = "delivering"
    BY <1>0, <2>1, <2>2 DEF RowsTyped, Row
  <2>. QED
    BY <2>1, <2>2, <2>3 DEF SenderMoves
<1>2. ASSUME NEW s \in Senders, Recheck(s) \/ OpenFails(s) \/ Abandon(s) PROVE SenderMoves(s)
  <2>1. UNCHANGED mails
    BY <1>2 DEF Recheck, OpenFails, Abandon
  <2>. QED
    BY <1>2, <2>1 DEF Recheck, OpenFails, Abandon, SenderMoves, Stages
<1>3. ASSUME NEW s \in Senders, Send(s) PROVE SenderMoves(s)
  BY <1>3 DEF Send, SenderMoves, Stages
<1>4. ASSUME NEW s \in Senders, DeferPublicEmailDelivery(s) \/ FinishPublicEmailDelivery(s) PROVE SenderMoves(s)
  BY <1>4 DEF DeferPublicEmailDelivery, FinishPublicEmailDelivery, SenderMoves
<1>5. ASSUME NEW s \in Senders, ClaimLapsed(s) \/ ClaimRefused(s) PROVE UNCHANGED <<sender, mails>>
  BY <1>5 DEF ClaimLapsed, ClaimRefused
<1>6. ASSUME NEW c \in Challenges, CompleteExpired(c) \/ CompleteWrong(c) \/ CompleteRight(c) PROVE UNCHANGED <<sender, mails>>
  BY <1>6 DEF CompleteExpired, CompleteWrong, CompleteRight
<1>7. ASSUME \/ \E c \in Challenges, i \in Installations, m \in Emails : CreatePublicEmailChallenge(c, i, m)
             \/ \E i \in Installations : PrivacyRequest(i) \/ EraseInstallation(i)
      PROVE  UNCHANGED <<sender, mails>>
  BY <1>7 DEF CreatePublicEmailChallenge, PrivacyRequest, EraseInstallation
<1>8. ASSUME Cleaning \/ Tick \/ UNCHANGED vars PROVE UNCHANGED <<sender, mails>>
  BY <1>8 DEF Cleaning, CleanupPublicAccountState, DeleteExpiredEmailVerifications, Tick, vars
<1>. QED
  BY <1>1, <1>2, <1>3, <1>4, <1>5, <1>6, <1>7, <1>8 DEF Next, SenderStep

\* Every step keeps the types.
LEMMA StepTyped ==
    ASSUME Typed, [Next]_vars
    PROVE  Typed'
<1>0. SendersTyped /\ now \in 0..Horizon
  BY DEF Typed
<1>1. SendersTyped'
  <2>1. CASE UNCHANGED sender
    BY <1>0, <2>1 DEF SendersTyped
  <2>2. ASSUME NEW s \in Senders, SenderMoves(s) PROVE SendersTyped'
    <3>1. CASE sender' = [sender EXCEPT ![s] = Idle]
      BY <1>0, <3>1 DEF SendersTyped, Idle, Stages
    <3>2. ASSUME NEW c \in Challenges, sender' = [sender EXCEPT ![s] = [job |-> c, stage |-> "claimed"]]
          PROVE  SendersTyped'
      BY <1>0, <3>2 DEF SendersTyped, Stages
    <3>3. ASSUME NEW x \in Stages, sender' = [sender EXCEPT ![s].stage = x], sender[s].stage # "idle"
          PROVE  SendersTyped'
      BY <1>0, <3>3 DEF SendersTyped
    <3>. QED
      BY <2>1, <2>2, <3>1, <3>2, <3>3 DEF SenderMoves
  <2>. QED
    BY <2>1, <2>2, StepSenders
<1>2. now' \in 0..Horizon
  <2>1. CASE Tick
    BY <1>0, <2>1, DurationAssumption DEF Tick
  <2>2. CASE now' = now
    BY <1>0, <2>2
  <2>3. \A s \in Senders : SenderStep(s) => now' = now
    BY DEF SenderStep, ClaimLapsed, ClaimRefused, ClaimPublicEmailDelivery, Recheck, OpenFails, Send,
       DeferPublicEmailDelivery, FinishPublicEmailDelivery, Abandon
  <2>4. Cleaning => now' = now
    BY DEF Cleaning, CleanupPublicAccountState, DeleteExpiredEmailVerifications
  <2>. QED
    BY <2>1, <2>2, <2>3, <2>4 DEF Next, CreatePublicEmailChallenge, CompleteExpired, CompleteWrong,
       CompleteRight, PrivacyRequest, EraseInstallation, vars
<1>. QED
  BY <1>1, <1>2, StepRowsTyped DEF Typed

\* The empty tables are typed.
LEMMA InitTyped == Init => Typed
  BY EmptyRow, DurationAssumption DEF Init, Typed, RowsTyped, SendersTyped, Idle, Stages

\* Rows and senders keep their types.
THEOREM ChallengesTyped == Spec => []Typed
<1>1. Typed /\ [Next]_vars => Typed'
  BY StepTyped
<1>. QED
  BY <1>1, InitTyped, PTL DEF Spec

-----------------------------------------------------------------------------
(* A mail goes out once. *)

\* A sender has its job to itself; the job has left the queue; and before the
\* sender's own mail is accepted, no mail of the job has been.
SenderInv ==
    /\ mails \in [Challenges -> Nat]
    /\ \A s \in Senders : sender[s].stage # "idle" =>
          challenge[sender[s].job].state \notin {"absent", "requested"}
    /\ \A s \in Senders : sender[s].stage \in {"claimed", "sending", "temporary"} => mails[sender[s].job] = 0
    /\ \A s, r \in Senders :
          sender[s].stage # "idle" /\ sender[r].stage # "idle" /\ sender[s].job = sender[r].job => s = r
    /\ \A c \in Challenges : mails[c] <= 1
    /\ \A c \in Challenges : challenge[c].state \in {"absent", "requested"} => mails[c] = 0

\* Which rows may be waiting for a sender after a step.
LEMMA StepWaiting ==
    ASSUME Typed, [Next]_vars, NEW c \in Challenges, challenge'[c].state \in {"absent", "requested"}
    PROVE  \/ Untouched(c) /\ challenge'[c].state = challenge[c].state
           \/ challenge[c].state = "absent" /\ UNCHANGED mails
           \/ Defers(c) /\ UNCHANGED mails
<1>0. challenge[c] \in Row /\ now \in Nat
  BY DurationAssumption DEF Typed, RowsTyped
<1>1. CASE Untouched(c)
  BY <1>1 DEF Untouched
<1>2. CASE ~Untouched(c)
  <2>1. UNCHANGED mails
    BY <1>2, StepRow
  <2>2. ~Deletes(c)
    BY ErasedRow DEF Deletes
  <2>3. ~Ends(c)
    BY <1>0, FinishedRow DEF Ends, Final
  <2>4. ~Records(c)
    BY <1>0, MailedRow DEF Records
  <2>5. ~Claims(c)
    BY <1>0, ClaimedRow DEF Claims
  <2>6. ~Answers(c)
    BY <1>0, FinishedRow, TriedRow DEF Answers, Final, Codable
  <2>. QED
    BY <1>2, <2>1, <2>2, <2>3, <2>4, <2>5, <2>6, StepRow DEF RowChange, Asks
<1>. QED
  BY <1>1, <1>2

\* No claim, send, record or crash gives a job a second sender or a second
\* mail.
LEMMA StepSenderInv ==
    ASSUME Typed, SenderInv, [Next]_vars
    PROVE  SenderInv'
<1>0. SendersTyped /\ SendersTyped'
  BY StepTyped DEF Typed
<1>1. ASSUME NEW s \in Senders, sender'[s] = sender[s], sender[s].stage # "idle"
      PROVE  challenge'[sender[s].job].state \notin {"absent", "requested"}
  <2>0. sender[s].job \in Challenges /\ challenge[sender[s].job].state \notin {"absent", "requested"}
    BY <1>0, <1>1 DEF SenderInv, SendersTyped
  <2>1. ~Defers(sender[s].job)
    <3>1. SUFFICES ASSUME NEW r \in Senders, sender[r].stage = "temporary", sender[r].job = sender[s].job,
                          sender' = [sender EXCEPT ![r] = Idle]
                   PROVE  FALSE
      BY DEF Defers
    <3>2. r = s
      BY <1>1, <3>1 DEF SenderInv
    <3>. QED
      BY <1>0, <1>1, <3>1, <3>2 DEF SendersTyped, Idle
  <2>. QED
    BY <2>0, <2>1, StepWaiting
<1>2. ASSUME NEW s \in Senders, SenderMoves(s) PROVE \A r \in Senders \ {s} : sender'[r] = sender[r]
  BY <1>0, <1>2 DEF SenderMoves, SendersTyped
<1>3. ASSUME NEW c \in Challenges, UNCHANGED mails, challenge'[c].state \in {"absent", "requested"}
      PROVE  mails'[c] = 0
  <2>1. Defers(c) => mails[c] = 0
    BY DEF Defers, SenderInv
  <2>. QED
    BY <1>3, <2>1, StepWaiting DEF SenderInv
<1>4. CASE UNCHANGED <<sender, mails>>
  <2>1. \A s \in Senders : sender[s].stage # "idle" => challenge'[sender[s].job].state \notin {"absent", "requested"}
    BY <1>1, <1>4
  <2>. QED
    BY <1>3, <1>4, <2>1 DEF SenderInv
<1>5. ASSUME NEW s \in Senders, sender' = [sender EXCEPT ![s] = Idle], UNCHANGED mails PROVE SenderInv'
  <2>1. sender'[s].stage = "idle" /\ \A r \in Senders \ {s} : sender'[r] = sender[r]
    BY <1>0, <1>5 DEF SendersTyped, Idle
  <2>2. \A r \in Senders : sender'[r].stage # "idle" =>
           sender'[r] = sender[r] /\ challenge'[sender'[r].job].state \notin {"absent", "requested"}
    BY <1>1, <2>1
  <2>. QED
    BY <1>3, <1>5, <2>1, <2>2, SMTT(30) DEF SenderInv
<1>6. ASSUME NEW s \in Senders, NEW c \in Challenges, UNCHANGED mails,
             sender' = [sender EXCEPT ![s] = [job |-> c, stage |-> "claimed"]],
             challenge[c].state = "requested", challenge'[c].state = "delivering"
      PROVE  SenderInv'
  <2>1. /\ sender'[s].stage = "claimed" /\ sender'[s].job = c
        /\ \A r \in Senders \ {s} : sender'[r] = sender[r]
    BY <1>0, <1>6 DEF SendersTyped
  <2>2. \A r \in Senders : sender'[r].stage # "idle" => challenge'[sender'[r].job].state \notin {"absent", "requested"}
    BY <1>1, <1>6, <2>1
  <2>3. mails[c] = 0
    BY <1>6 DEF SenderInv
  <2>4. \A r \in Senders \ {s} : sender'[r].stage # "idle" => sender'[r].job # c
    BY <1>6, <2>1 DEF SenderInv
  <2>5. \A q, r \in Senders :
          sender'[q].stage # "idle" /\ sender'[r].stage # "idle" /\ sender'[q].job = sender'[r].job => q = r
    BY <2>1, <2>4 DEF SenderInv
  <2>6. \A r \in Senders : sender'[r].stage \in {"claimed", "sending", "temporary"} => mails'[sender'[r].job] = 0
    BY <1>6, <2>1, <2>3 DEF SenderInv
  <2>. QED
    BY <1>3, <1>6, <2>2, <2>5, <2>6 DEF SenderInv
<1>7. ASSUME NEW s \in Senders, NEW x \in Stages \ {"idle", "claimed"}, sender' = [sender EXCEPT ![s].stage = x],
             sender[s].stage \in {"claimed", "sending"},
             mails' = IF x \in {"delivered", "delivery_uncertain"}
                      THEN [mails EXCEPT ![sender[s].job] = @ + 1] ELSE mails
      PROVE  SenderInv'
  <2> DEFINE c == sender[s].job
  <2>0. /\ sender'[s].stage = x /\ sender'[s].job = c /\ c \in Challenges
        /\ \A r \in Senders \ {s} : sender'[r] = sender[r]
    BY <1>0, <1>7 DEF SendersTyped
  <2>1. mails[c] = 0 /\ challenge[c].state \notin {"absent", "requested"}
    BY <1>7 DEF SenderInv
  <2>2. \A d \in Challenges : mails'[d] = mails[d] \/ (d = c /\ mails'[d] = 1)
    BY <1>7, <2>0, <2>1 DEF SenderInv
  <2>3. mails' \in [Challenges -> Nat]
    BY <1>7, <2>0, <2>1 DEF SenderInv
  <2>4. challenge'[c].state \notin {"absent", "requested"}
    <3>1. ~Defers(c)
      <4>1. SUFFICES ASSUME NEW r \in Senders, sender' = [sender EXCEPT ![r] = Idle], sender[r].stage = "temporary"
                     PROVE  FALSE
        BY DEF Defers
      <4>2. sender'[r].stage = "idle"
        BY <1>0, <4>1 DEF SendersTyped, Idle
      <4>. QED
        BY <1>7, <2>0, <4>1, <4>2
    <3>. QED
      BY <2>0, <2>1, <3>1, StepWaiting
  <2>5. \A r \in Senders : sender'[r].stage # "idle" => challenge'[sender'[r].job].state \notin {"absent", "requested"}
    BY <1>1, <2>0, <2>4
  <2>6. \A q, r \in Senders :
          sender'[q].stage # "idle" /\ sender'[r].stage # "idle" /\ sender'[q].job = sender'[r].job => q = r
    BY <1>7, <2>0 DEF SenderInv
  <2>7. \A r \in Senders \ {s} : sender[r].stage # "idle" => sender[r].job # c
    BY <1>7 DEF SenderInv
  <2>8. \A r \in Senders : sender'[r].stage \in {"claimed", "sending", "temporary"} => mails'[sender'[r].job] = 0
    <3>1. ASSUME NEW r \in Senders, r # s, sender'[r].stage \in {"claimed", "sending", "temporary"}
          PROVE  mails'[sender'[r].job] = 0
      <4>1. sender'[r] = sender[r] /\ sender[r].job \in Challenges /\ sender[r].job # c
        BY <1>0, <2>0, <2>7, <3>1 DEF SendersTyped
      <4>2. mails[sender[r].job] = 0
        BY <3>1, <4>1 DEF SenderInv
      <4>. QED
        BY <2>2, <4>1, <4>2
    <3>2. ASSUME sender'[s].stage \in {"claimed", "sending", "temporary"} PROVE mails'[sender'[s].job] = 0
      BY <1>7, <2>0, <2>1, <3>2
    <3>. QED
      BY <3>1, <3>2
  <2>9. ASSUME NEW d \in Challenges, challenge'[d].state \in {"absent", "requested"} PROVE mails'[d] = 0
    <3>1. d # c
      BY <2>4, <2>9
    <3>2. mails'[d] = mails[d]
      BY <2>2, <3>1
    <3>3. Defers(d) => mails[d] = 0
      BY DEF Defers, SenderInv
    <3>. QED
      BY <2>9, <3>2, <3>3, StepWaiting DEF SenderInv
  <2>10. \A d \in Challenges : mails'[d] <= 1
    BY <2>2 DEF SenderInv
  <2>. QED
    BY <2>3, <2>5, <2>6, <2>8, <2>9, <2>10 DEF SenderInv
<1>. QED
  BY <1>4, <1>5, <1>6, <1>7, StepSenders DEF SenderMoves

\* One sender per job, and no second mail.
THEOREM SendersInvariant == Spec => []SenderInv
<1>1. Init => SenderInv
  BY DEF Init, SenderInv, Idle, NoChallenge
<1>2. Typed /\ SenderInv /\ [Next]_vars => SenderInv'
  BY StepSenderInv
<1>. QED
  BY <1>1, <1>2, ChallengesTyped, PTL DEF Spec

\* ProcessEmail mails a code at most once whatever its instances, their leases
\* and their crashes do between claim, send and record.
THEOREM MailsOnce == Spec => []MailedOnce
<1>1. SenderInv => MailedOnce
  BY DEF SenderInv, MailedOnce
<1>. QED
  BY <1>1, SendersInvariant, PTL

-----------------------------------------------------------------------------
(* What a row alone satisfies. *)

RowOK(c) ==
    /\ challenge[c].code # "none" <=> challenge[c].state \in Live
    /\ challenge[c].code = "sealed" <=> challenge[c].state \in Queued
    /\ challenge[c].attempts = MaxAttempts <=> challenge[c].state = "locked"
    /\ challenge[c].state \in Live =>
          /\ challenge[c].installation \in Installations
          /\ ~Expired(c) => verification[c] = challenge[c].expires
          /\ challenge[c].state = "requested" => challenge[c].expires = challenge[c].created + QueueTTL
          /\ challenge[c].expires <= challenge[c].created + QueueTTL + CodeTTL
RowInv == \A c \in Challenges : RowOK(c)

\* Each way to change a row keeps its code, attempts and deadlines fitting its
\* state.
LEMMA StepRowOK ==
    ASSUME Typed, [Next]_vars, NEW c \in Challenges, RowOK(c)
    PROVE  RowOK(c)'
<1>0. /\ challenge[c] \in Row /\ verification[c] \in Nat \cup {None} /\ now \in Nat
      /\ challenge[c].created \in Nat /\ challenge[c].expires \in Nat /\ challenge[c].attempts \in 0..MaxAttempts
  BY DurationAssumption DEF Typed, RowsTyped, Row
<1>1. {QueueTTL, CodeTTL, MaxAttempts} \subseteq Nat \ {0}
  BY DurationAssumption, LimitAssumption
<1>2. CASE Untouched(c)
  <2>1. now' \in Nat /\ now' >= now
    BY <1>0, <1>2 DEF Untouched
  <2>2. challenge'[c] = challenge[c] /\ (Expired(c) => Expired(c)')
    BY <1>0, <1>2, <2>1 DEF Untouched, Expired
  <2>3. challenge[c].state \in Live /\ ~Expired(c)' => verification'[c] = challenge'[c].expires
    <3>1. SUFFICES ASSUME challenge[c].state \in Live, ~Expired(c)' PROVE verification'[c] = challenge'[c].expires
      OBVIOUS
    <3>2. verification[c] = challenge[c].expires /\ now < challenge[c].expires
      BY <1>0, <2>2, <3>1 DEF RowOK, Expired
    <3>. QED
      BY <1>0, <1>2, <3>2 DEF Untouched
  <2>. QED
    BY <2>2, <2>3 DEF RowOK
<1>3. CASE Deletes(c)
  BY <1>1, <1>3, ErasedRow DEF Deletes, RowOK, Live, Codable, Queued
<1>4. CASE Asks(c)
  <2>1. PICK i \in Installations, m \in Emails : challenge'[c] = Asked(i, m, now) /\ verification'[c] = now + QueueTTL
    BY <1>4 DEF Asks
  <2>2. /\ challenge'[c].state = "requested" /\ challenge'[c].code = "sealed" /\ challenge'[c].installation = i
        /\ challenge'[c].created = now /\ challenge'[c].expires = now + QueueTTL /\ challenge'[c].attempts = 0
    BY <1>0, <2>1, AskedRow
  <2>. QED
    <3>1. "requested" \in Live /\ "requested" \in Queued
      BY DEF Live, Queued
    <3>2. 0 # MaxAttempts /\ now + QueueTTL <= now + QueueTTL + CodeTTL
      BY <1>0, <1>1
    <3>. QED
      BY <2>1, <2>2, <3>1, <3>2, Zenon DEF RowOK
<1>5. CASE Ends(c)
  <2>1. PICK x \in {"cancelled", "expired"} : challenge'[c] = Finished(challenge[c], x) /\ challenge[c].state \in Live
    BY <1>5 DEF Ends
  <2>2. challenge'[c].state = x /\ challenge'[c].code = "none" /\ challenge'[c].attempts = challenge[c].attempts
    BY <1>0, <2>1, FinishedRow DEF Final
  <2>. QED
    BY <2>1, <2>2 DEF RowOK, Live, Codable, Queued
<1>6. CASE Records(c)
  <2>1. PICK x \in {"delivered", "delivery_uncertain", "delivery_failed"} :
           challenge'[c] = Mailed(challenge[c], x) /\ challenge[c].state = "delivering"
    BY <1>6 DEF Records
  <2>2. /\ challenge'[c].state = x /\ challenge'[c].code = IF x = "delivery_failed" THEN "none" ELSE "hash"
        /\ challenge'[c].installation = challenge[c].installation /\ challenge'[c].attempts = challenge[c].attempts
        /\ challenge'[c].created = challenge[c].created /\ challenge'[c].expires = challenge[c].expires
    BY <1>0, <2>1, MailedRow, SMTT(30)
  <2>3. Untouched(c) \/ now' = now
    BY StepRow
  <2>4. CASE now' = now
    <3>1. Expired(c)' = Expired(c) /\ verification'[c] = verification[c]
      BY <1>6, <2>2, <2>4 DEF Expired, Records
    <3>. QED
      BY <2>1, <2>2, <3>1 DEF RowOK, Live, Codable, Queued
  <2>. QED
    BY <1>2, <2>3, <2>4
<1>7. CASE Claims(c)
  <2>1. PICK s \in Senders : challenge'[c] = Claimed(challenge[c], s, now) /\ verification'[c] = now + CodeTTL
    BY <1>7 DEF Claims
  <2>2. /\ challenge'[c].state = "delivering" /\ challenge'[c].expires = now + CodeTTL
        /\ challenge'[c].installation = challenge[c].installation /\ challenge'[c].created = challenge[c].created
        /\ challenge'[c].attempts = challenge[c].attempts /\ challenge'[c].code = challenge[c].code
    BY <1>0, <2>1, ClaimedRow, SMTT(30)
  <2>3. challenge[c].state = "requested" /\ now < challenge[c].expires
    BY <1>0, <1>7 DEF Claims, Expired
  <2>4. now + CodeTTL <= challenge[c].created + QueueTTL + CodeTTL
    BY <1>0, <1>1, <2>3, SMTT(30) DEF RowOK, Live
  <2>. QED
    BY <2>1, <2>2, <2>3, <2>4 DEF RowOK, Live, Codable, Queued
<1>8. CASE Defers(c)
  <2>1. /\ challenge[c].state = "delivering" /\ challenge'[c] = Deferred(challenge[c], now)
        /\ verification'[c] = challenge[c].created + QueueTTL
    BY <1>8 DEF Defers
  <2>2. /\ challenge'[c].state = "requested" /\ challenge'[c].expires = challenge[c].created + QueueTTL
        /\ challenge'[c].installation = challenge[c].installation /\ challenge'[c].created = challenge[c].created
        /\ challenge'[c].attempts = challenge[c].attempts /\ challenge'[c].code = challenge[c].code
    <3> DEFINE r == Deferred(challenge[c], now)
    <3>1. /\ r.state = "requested" /\ r.expires = challenge[c].created + QueueTTL
          /\ r.installation = challenge[c].installation /\ r.created = challenge[c].created
          /\ r.attempts = challenge[c].attempts /\ r.code = challenge[c].code
      BY <1>0, DeferredRow
    <3> HIDE DEF r
    <3>2. challenge'[c] = r
      BY <2>1 DEF r
    <3>. QED
      BY <3>1, <3>2
  <2>. QED
    <3>1. /\ "requested" \in Live /\ "requested" \in Queued /\ "requested" # "locked"
          /\ "delivering" \in Live /\ "delivering" \in Queued /\ "delivering" # "locked"
      BY DEF Live, Codable, Queued
    <3>2. challenge[c].created + QueueTTL <= challenge[c].created + QueueTTL + CodeTTL
      BY <1>0, <1>1
    <3>. QED
      BY <2>1, <2>2, <3>1, <3>2, Zenon DEF RowOK
<1>9. CASE Answers(c)
  <2>0. challenge[c].state \in Codable /\ challenge[c].attempts < MaxAttempts
    BY <1>9 DEF Answers
  <2>1. CASE /\ challenge[c].attempts + 1 # MaxAttempts
             /\ challenge'[c] = Tried(challenge[c]) /\ verification'[c] = verification[c]
    <3>1. /\ challenge'[c].attempts = challenge[c].attempts + 1
          /\ challenge'[c].state = challenge[c].state /\ challenge'[c].code = challenge[c].code
          /\ challenge'[c].installation = challenge[c].installation
          /\ challenge'[c].created = challenge[c].created /\ challenge'[c].expires = challenge[c].expires
      BY <1>0, <2>0, <2>1, TriedRow
    <3>2. Untouched(c) \/ now' = now
      BY StepRow
    <3>3. CASE now' = now
      <4>1. Expired(c)' = Expired(c)
        BY <3>1, <3>3 DEF Expired
      <4>2. challenge[c].state # "locked"
        BY <2>0 DEF Codable
      <4>. QED
        BY <2>1, <3>1, <4>1, <4>2 DEF RowOK
    <3>. QED
      BY <1>2, <3>2, <3>3
  <2>2. CASE challenge[c].attempts + 1 = MaxAttempts /\ challenge'[c] = Finished(Tried(challenge[c]), "locked")
    <3>1. Tried(challenge[c]) \in Row /\ Tried(challenge[c]).attempts = MaxAttempts
      BY <1>0, <2>0, <2>2, TriedRow
    <3>2. challenge'[c].state = "locked" /\ challenge'[c].code = "none" /\ challenge'[c].attempts = MaxAttempts
      BY <2>2, <3>1, FinishedRow DEF Final
    <3>. QED
      BY <3>2 DEF RowOK, Live, Codable, Queued
  <2>3. CASE challenge'[c] = Finished(challenge[c], "consumed")
    <3>1. challenge'[c].state = "consumed" /\ challenge'[c].code = "none" /\ challenge'[c].attempts = challenge[c].attempts
      BY <1>0, <2>3, FinishedRow DEF Final
    <3>. QED
      BY <1>0, <2>0, <3>1 DEF RowOK, Live, Codable, Queued
  <2>. QED
    BY <1>9, <2>1, <2>2, <2>3 DEF Answers
<1>. QED
  BY <1>2, <1>3, <1>4, <1>5, <1>6, <1>7, <1>8, <1>9, StepRow DEF RowChange

\* Codes, attempts and deadlines of every row, through every order of sends,
\* answers, deferrals, cleanups and erasures.
THEOREM RowsInvariant == Spec => []RowInv
<1>1. Init => RowInv
  <2> SUFFICES ASSUME Init, NEW c \in Challenges PROVE RowOK(c)
    BY DEF RowInv
  <2>2. challenge[c] = NoChallenge
    BY DEF Init
  <2>3. NoChallenge.code = "none" /\ NoChallenge.state = "absent" /\ NoChallenge.attempts = 0
    BY DEF NoChallenge
  <2>4. "absent" \notin Live /\ "absent" \notin Queued /\ "absent" # "locked" /\ "none" # "sealed" /\ 0 # MaxAttempts
    BY LimitAssumption DEF Live, Codable, Queued
  <2>. QED
    BY <2>2, <2>3, <2>4, Zenon DEF RowOK
<1>2. Typed /\ RowInv /\ [Next]_vars => RowInv'
  BY StepRowOK DEF RowInv
<1>. QED
  BY <1>1, <1>2, ChallengesTyped, PTL DEF Spec

\* A challenge that can still be mailed or answered and its verification row
\* expire together: claim, deferral and cleanup move or drop both.
THEOREM ExpireTogether == Spec => []RowsExpireTogether
<1>1. RowInv => RowsExpireTogether
  BY DEF RowInv, RowOK, RowsExpireTogether
<1>. QED
  BY <1>1, RowsInvariant, PTL

\* No row keeps a code it cannot use.
THEOREM CodesGo == Spec => []CodeOnlyWhileUsable
<1>1. RowInv => CodeOnlyWhileUsable
  BY DEF RowInv, RowOK, CodeOnlyWhileUsable
<1>. QED
  BY <1>1, RowsInvariant, PTL

\* A challenge is locked exactly when the wrong codes have reached the limit.
THEOREM LocksAtLimit == Spec => []LockedAtLimit
<1>1. RowInv => LockedAtLimit
  BY DEF RowInv, RowOK, LockedAtLimit
<1>. QED
  BY <1>1, RowsInvariant, PTL

\* Every change of a challenge's state is one CanTransitionPublicChallenge
\* allows, or the return to the queue of a mail that was never accepted.
THEOREM ChallengesFollowFSM == Spec => FollowsFSM
<1>1. ASSUME Typed, SenderInv, [Next]_vars, NEW c \in Challenges PROVE StepAllowed(c)
  <2>0. challenge[c] \in Row /\ now \in Nat
    BY <1>1, DurationAssumption DEF Typed, RowsTyped
  <2>1. CASE Untouched(c)
    BY <2>1 DEF Untouched, StepAllowed
  <2>2. CASE Deletes(c)
    BY <2>2, ErasedRow DEF Deletes, StepAllowed
  <2>3. CASE Asks(c)
    BY <2>0, <2>3, AskedRow, SMTT(30) DEF Asks, StepAllowed
  <2>4. CASE Ends(c)
    <3>1. PICK x \in {"cancelled", "expired"} : challenge'[c].state = x
      BY <2>0, <2>4, FinishedRow, SMTT(30) DEF Ends, Final
    <3>2. CanTransitionPublicChallenge(challenge[c].state, challenge'[c].state)
      BY <2>4, <3>1, LiveCanEnd DEF Ends
    <3>. QED
      BY <3>2 DEF StepAllowed
  <2>5. CASE Records(c)
    <3>1. challenge[c].state = "delivering" /\ challenge'[c].state \in {"delivered", "delivery_uncertain", "delivery_failed"}
      BY <2>0, <2>5, MailedRow, SMTT(30) DEF Records
    <3>. QED
      BY <3>1 DEF StepAllowed, CanTransitionPublicChallenge
  <2>6. CASE Claims(c)
    <3>1. challenge[c].state = "requested" /\ challenge'[c].state = "delivering"
      BY <2>0, <2>6, ClaimedRow, SMTT(30) DEF Claims
    <3>. QED
      BY <3>1 DEF StepAllowed, CanTransitionPublicChallenge
  <2>7. CASE Defers(c)
    <3>1. challenge[c].state = "delivering" /\ challenge'[c].state = "requested"
      BY <2>0, <2>7, DeferredRow DEF Defers
    <3>2. mails[c] = 0
      BY <1>1, <2>7 DEF Defers, SenderInv
    <3>. QED
      BY <3>1, <3>2 DEF StepAllowed
  <2>8. CASE Answers(c)
    <3>1. challenge[c].state \in Codable /\ challenge'[c].state \in {challenge[c].state, "locked", "consumed"}
      BY <2>0, <2>8, TriedRow, FinishedRow DEF Answers, Final
    <3>2. /\ CanTransitionPublicChallenge(challenge[c].state, "locked")
          /\ CanTransitionPublicChallenge(challenge[c].state, "verified")
      BY <3>1 DEF CanTransitionPublicChallenge, Codable
    <3>. QED
      BY <3>1, <3>2 DEF StepAllowed
  <2>. QED
    BY <1>1, <2>1, <2>2, <2>3, <2>4, <2>5, <2>6, <2>7, <2>8, StepRow DEF RowChange
<1>2. Typed /\ SenderInv /\ [Next]_vars => [\A c \in Challenges : StepAllowed(c)]_vars
  BY <1>1
<1>3. Spec => [][\A c \in Challenges : StepAllowed(c)]_vars
  BY <1>2, ChallengesTyped, SendersInvariant, PTL DEF Spec
<1>. QED
  BY <1>3 DEF FollowsFSM

-----------------------------------------------------------------------------
(* The newest challenge of an installation. *)

FlowInv == flow \in [Installations -> [challenge : Challenges \cup {None}, session : Emails \cup {None}]]
           /\ NewestOnly

\* A row that is live after a step, and was not asked for by it, was live before.
LEMMA StepLive ==
    ASSUME Typed, [Next]_vars, NEW c \in Challenges, challenge'[c].state \in Live, challenge[c].state # "absent"
    PROVE  challenge[c].state \in Live /\ challenge'[c].installation = challenge[c].installation
<1>0. challenge[c] \in Row /\ now \in Nat
  BY DurationAssumption, SMTT(30) DEF Typed, RowsTyped
<1>1. CASE Untouched(c)
  BY <1>1 DEF Untouched
<1>2. ~Deletes(c)
  BY ErasedRow DEF Deletes, Live, Codable
<1>3. ~Ends(c)
  BY <1>0, FinishedRow DEF Ends, Final, Live, Codable
<1>4. CASE Records(c)
  BY <1>0, <1>4, MailedRow DEF Records, Live, Codable
<1>5. CASE Claims(c)
  BY <1>0, <1>5, ClaimedRow DEF Claims, Live
<1>6. CASE Defers(c)
  BY <1>0, <1>6, DeferredRow DEF Defers, Live, Codable
<1>7. CASE Answers(c)
  <2>1. challenge'[c].state \notin {"locked", "consumed"}
    BY DEF Live, Codable
  <2>2. challenge[c].attempts < MaxAttempts /\ challenge[c].state \in Live
    BY <1>7 DEF Answers, Live
  <2>3. challenge'[c] = Tried(challenge[c])
    BY <1>0, <1>7, <2>1, <2>2, FinishedRow, TriedRow, SMTT(30) DEF Answers, Final
  <2>. QED
    BY <1>0, <2>2, <2>3, TriedRow
<1>. QED
  BY <1>1, <1>2, <1>3, <1>4, <1>5, <1>6, <1>7, StepRow DEF RowChange, Asks

\* A flow keeps pointing to the newest challenge of its installation, the only
\* live one.
LEMMA StepFlow ==
    ASSUME Typed, RowInv, FlowInv, [Next]_vars
    PROVE  FlowInv'
<1> DEFINE FlowRow == [challenge : Challenges \cup {None}, session : Emails \cup {None}]
<1>0. challenge \in [Challenges -> Row] /\ flow \in [Installations -> FlowRow]
  BY DEF Typed, RowsTyped, FlowInv
<1>1. ASSUME NEW c \in Challenges, challenge[c].state \in Live
      PROVE  challenge[c].installation \in Installations /\ flow[challenge[c].installation].challenge = c
  BY <1>1 DEF RowInv, RowOK, FlowInv, NewestOnly, Current
<1>2. SUFFICES /\ flow' \in [Installations -> FlowRow]
               /\ \A c \in Challenges : challenge'[c].state \in Live => flow'[challenge'[c].installation].challenge = c
  BY DEF FlowInv, NewestOnly, Current
<1>3. ASSUME NEW d \in Challenges, NEW i \in Installations, NEW m \in Emails, CreatePublicEmailChallenge(d, i, m)
      PROVE  /\ flow' \in [Installations -> FlowRow]
             /\ \A c \in Challenges : challenge'[c].state \in Live => flow'[challenge'[c].installation].challenge = c
  <2>1. flow' = [flow EXCEPT ![i].challenge = d]
    BY <1>3 DEF CreatePublicEmailChallenge
  <2>2. flow' \in [Installations -> FlowRow] /\ flow'[i].challenge = d
        /\ \A j \in Installations : j # i => flow'[j] = flow[j]
    BY <1>0, <2>1
  <2>3. challenge'[d].installation = i
    <3>1. challenge'[d] = Asked(i, m, now)
      BY <1>0, <1>3 DEF CreatePublicEmailChallenge, Asked
    <3>. QED
      BY <3>1 DEF Asked, NoChallenge
  <2>4. ASSUME NEW c \in Challenges, c # d, challenge'[c].state \in Live
        PROVE  flow'[challenge'[c].installation].challenge = c
    <3>1. challenge'[c] = challenge[c]
          \/ challenge'[c] = Finished(challenge[c], "cancelled")
      BY <1>3, <2>4 DEF CreatePublicEmailChallenge
    <3>2. challenge'[c] # Finished(challenge[c], "cancelled")
      BY <1>0, <2>4, FinishedRow DEF Final, Live, Codable
    <3>3. challenge'[c] = challenge[c] /\ challenge[c].state \in Live
      BY <2>4, <3>1, <3>2
    <3>4. challenge[c].installation # i
      <4>1. SUFFICES ASSUME challenge[c].installation = i PROVE FALSE
        OBVIOUS
      <4>2. flow[i].challenge = c
        BY <1>1, <3>3, <4>1
      <4>3. CanTransitionPublicChallenge(challenge[c].state, "cancelled")
        BY <3>3, LiveCanEnd
      <4>4. challenge'[c] = Finished(challenge[c], "cancelled")
        BY <1>3, <2>4, <4>1, <4>2, <4>3 DEF CreatePublicEmailChallenge
      <4>. QED
        BY <3>2, <4>4
    <3>. QED
      BY <1>1, <2>2, <3>3, <3>4
  <2>. QED
    BY <2>2, <2>3, <2>4
<1>4. ASSUME NEW d \in Challenges, CompleteRight(d)
      PROVE  flow' \in [Installations -> FlowRow]
             /\ \A i \in Installations : flow'[i].challenge = flow[i].challenge
  <2>1. flow' = [flow EXCEPT ![challenge[d].installation].session = challenge[d].email]
    BY <1>4 DEF CompleteRight
  <2>2. challenge[d].email \in Emails \cup {None}
    BY <1>0 DEF Row
  <2>. QED
    BY <1>0, <2>1, <2>2
<1>5. ASSUME CleanupPublicAccountState
      PROVE  /\ flow' \in [Installations -> FlowRow]
             /\ \A c \in Challenges : challenge'[c].state \in Live => flow'[challenge'[c].installation].challenge = c
  <2>1. PICK ended \in Soonest(Overdue), gone \in Soonest(Tombstones) :
        /\ challenge' = [d \in Challenges |->
              IF d \in gone THEN [NoChallenge EXCEPT !.state = "deleted"]
              ELSE IF d \in ended THEN Finished(challenge[d], "expired")
              ELSE challenge[d]]
        /\ flow' = [i \in Installations |->
              IF flow[i].challenge \in gone /\ flow[i].session = None THEN NoFlow ELSE flow[i]]
    BY <1>5 DEF CleanupPublicAccountState
  <2>2. flow' \in [Installations -> FlowRow]
    BY <1>0, <2>1 DEF NoFlow
  <2>3. ASSUME NEW c \in Challenges, challenge'[c].state \in Live
        PROVE  flow'[challenge'[c].installation].challenge = c
    <3>1. c \notin gone
      BY <2>1, <2>3, ErasedRow DEF Erased, Live, Codable
    <3>2. c \notin ended
      BY <1>0, <2>1, <2>3, <3>1, FinishedRow DEF Final, Live, Codable
    <3>. QED
      BY <1>1, <2>1, <2>3, <3>1, <3>2
  <2>. QED
    BY <2>2, <2>3
<1>6. ASSUME NEW i \in Installations, EraseInstallation(i)
      PROVE  /\ flow' \in [Installations -> FlowRow]
             /\ \A c \in Challenges : challenge'[c].state \in Live => flow'[challenge'[c].installation].challenge = c
  <2>1. flow' = [flow EXCEPT ![i] = NoFlow]
    BY <1>6 DEF EraseInstallation
  <2>2. flow' \in [Installations -> FlowRow]
    BY <1>0, <2>1 DEF NoFlow
  <2>3. ASSUME NEW c \in Challenges, challenge'[c].state \in Live
        PROVE  flow'[challenge'[c].installation].challenge = c
    <3>1. challenge[c].installation # i
      BY <1>6, <2>3, ErasedRow DEF EraseInstallation, Erased, Live, Codable
    <3>2. challenge'[c] = challenge[c]
      BY <1>6, <3>1 DEF EraseInstallation
    <3>. QED
      BY <1>0, <1>1, <2>1, <2>3, <3>1, <3>2
  <2>. QED
    BY <2>2, <2>3
<1>7. ASSUME \A c \in Challenges : challenge[c].state = "absent" => challenge'[c].state \notin Live,
             flow' \in [Installations -> FlowRow],
             \A i \in Installations : flow'[i].challenge = flow[i].challenge
      PROVE  \A c \in Challenges : challenge'[c].state \in Live => flow'[challenge'[c].installation].challenge = c
  BY <1>1, <1>7, StepLive
<1>8. ASSUME ~(\E d \in Challenges, i \in Installations, m \in Emails : CreatePublicEmailChallenge(d, i, m))
      PROVE  \A c \in Challenges : challenge[c].state = "absent" => challenge'[c].state \notin Live
  <2>1. SUFFICES ASSUME NEW c \in Challenges, challenge[c].state = "absent", challenge'[c].state \in Live
                 PROVE  FALSE
    OBVIOUS
  <2>2. "absent" \notin Live
    BY DEF Live, Codable
  <2>3. challenge[c] \in Row
    BY <1>0
  <2>4. challenge'[c] # challenge[c]
    BY <2>1, <2>2
  <2>5. \A s \in Senders : ~SenderStep(s)
    BY <1>0, <2>1, <2>4, ZenonT(60) DEF SenderStep, ClaimLapsed, ClaimRefused, ClaimPublicEmailDelivery, Recheck, OpenFails, Send,
       DeferPublicEmailDelivery, FinishPublicEmailDelivery, Abandon, Oldest, Lapsed, Available, Holds, tables
  <2>6. \A d \in Challenges : ~CompleteExpired(d) /\ ~CompleteWrong(d) /\ ~CompleteRight(d)
    BY <1>0, <2>1, <2>4 DEF CompleteExpired, CompleteWrong, CompleteRight, Answerable, Codable
  <2>7. ~CleanupPublicAccountState
    <3>1. SUFFICES ASSUME CleanupPublicAccountState PROVE FALSE
      OBVIOUS
    <3>2. PICK ended \in Soonest(Overdue), gone \in Soonest(Tombstones) :
          challenge' = [d \in Challenges |->
              IF d \in gone THEN [NoChallenge EXCEPT !.state = "deleted"]
              ELSE IF d \in ended THEN Finished(challenge[d], "expired")
              ELSE challenge[d]]
      BY <3>1 DEF CleanupPublicAccountState
    <3>3. c \notin ended /\ c \notin gone
      BY <2>1, <2>2 DEF Soonest, Overdue, Tombstones, Final
    <3>. QED
      BY <2>4, <3>2, <3>3
  <2>8. \A i \in Installations : ~EraseInstallation(i)
    BY <2>1, <2>4, ErasedRow DEF EraseInstallation, Erased, Live, Codable
  <2>. QED
    BY <1>8, <2>4, <2>5, <2>6, <2>7, <2>8 DEF Next, Cleaning, DeleteExpiredEmailVerifications,
       PrivacyRequest, Tick, vars, tables
<1>9. ASSUME UNCHANGED flow PROVE flow' \in [Installations -> FlowRow]
                                  /\ \A i \in Installations : flow'[i].challenge = flow[i].challenge
  BY <1>0, <1>9
<1>10. \A s \in Senders : SenderStep(s) => UNCHANGED flow
  BY DEF SenderStep, ClaimLapsed, ClaimRefused, ClaimPublicEmailDelivery, Recheck, OpenFails, Send,
     DeferPublicEmailDelivery, FinishPublicEmailDelivery, Abandon, tables
<1>11. \/ \E d \in Challenges, i \in Installations, m \in Emails : CreatePublicEmailChallenge(d, i, m)
       \/ \E d \in Challenges : CompleteRight(d)
       \/ CleanupPublicAccountState
       \/ \E i \in Installations : EraseInstallation(i)
       \/ UNCHANGED flow
  BY <1>10 DEF Next, CompleteExpired, CompleteWrong, Cleaning, DeleteExpiredEmailVerifications,
     PrivacyRequest, Tick, vars, tables
<1> HIDE DEF FlowRow
<1>. QED
  BY <1>3, <1>4, <1>5, <1>6, <1>7, <1>8, <1>9, <1>11

\* A new request cancels the challenge it replaces in the same transaction, so
\* a late answer or mail of an older challenge finds it over.
THEOREM OnlyNewestLive == Spec => []NewestOnly
<1>1. Init => FlowInv
  BY DEF Init, FlowInv, NewestOnly, NoFlow, NoChallenge, Live, Codable
<1>2. Typed /\ RowInv /\ FlowInv /\ [Next]_vars => FlowInv'
  BY StepFlow
<1>3. Spec => []FlowInv
  BY <1>1, <1>2, ChallengesTyped, RowsInvariant, PTL DEF Spec
<1>4. FlowInv => NewestOnly
  BY DEF FlowInv
<1>. QED
  BY <1>3, <1>4, PTL

-----------------------------------------------------------------------------
(* The mail budget. *)

SentBefore == sends \in SUBSET Nat /\ \A u \in sends : u <= now
Window(S, t, w) == {u \in S : t - w <= u /\ u <= t}

\* Leaving sends out of a window.
LEMMA SmallerWindow ==
    ASSUME NEW n \in Nat, NEW S \in SUBSET Nat, \A u \in S : u <= n, NEW T \in SUBSET S, NEW t, NEW w
    PROVE  /\ IsFiniteSet(Window(S, t, w)) /\ Cardinality(Window(S, t, w)) \in Nat
           /\ IsFiniteSet(Window(T, t, w)) /\ Cardinality(Window(T, t, w)) \in Nat
           /\ Cardinality(Window(T, t, w)) <= Cardinality(Window(S, t, w))
<1>1. IsFiniteSet(S)
  BY FS_BoundedSetOfNaturals
<1>2. Window(S, t, w) \in SUBSET S /\ Window(T, t, w) \in SUBSET Window(S, t, w)
  BY DEF Window
<1>3. IsFiniteSet(Window(S, t, w))
  BY <1>1, <1>2, FS_Subset
<1>. QED
  BY <1>2, <1>3, FS_Subset, FS_CardinalityType

\* A send that consumePublicAuthLimits admits keeps every window within its limit.
LEMMA AdmittedSend ==
    ASSUME now \in Nat, SentBefore, now \notin sends, NEW w \in Nat, NEW max \in Nat, WithinLimit(sends, w, max),
           \A t \in sends : Cardinality(Window(sends, t, w)) <= max
    PROVE  \A t \in sends \cup {now} : Cardinality(Window(sends \cup {now}, t, w)) <= max
<1>1. ASSUME NEW t \in sends PROVE Cardinality(Window(sends \cup {now}, t, w)) <= max
  <2>1. t \in Nat /\ t <= now /\ t # now
    BY DEF SentBefore
  <2>2. Window(sends \cup {now}, t, w) = Window(sends, t, w)
    BY <2>1 DEF Window
  <2>. QED
    BY <2>2
<1>2. Cardinality(Window(sends \cup {now}, now, w)) <= max
  <2> DEFINE recent == {t \in sends : t >= now - w}
  <2>1. Window(sends \cup {now}, now, w) = recent \cup {now}
    <3>1. \A u \in sends : u \in Nat /\ u <= now
      BY DEF SentBefore
    <3>2. now - w <= now /\ now <= now
      OBVIOUS
    <3>3. \A u : u \in Window(sends \cup {now}, now, w) <=> u \in recent \cup {now}
      BY <3>1, <3>2 DEF Window
    <3>. QED
      BY <3>3
  <2>2. IsFiniteSet(sends)
    BY FS_BoundedSetOfNaturals DEF SentBefore
  <2>3. IsFiniteSet(recent) /\ now \notin recent
    BY <2>2, FS_Subset
  <2>4. Cardinality(recent) < max
    BY DEF WithinLimit
  <2> HIDE DEF recent
  <2>5. Cardinality(recent) \in Nat /\ Cardinality(recent \cup {now}) = Cardinality(recent) + 1
    BY <2>3, FS_AddElement, FS_CardinalityType
  <2>6. Cardinality(recent) + 1 <= max
    BY <2>4, <2>5
  <2>. QED
    BY <2>1, <2>5, <2>6
<1>. QED
  BY <1>1, <1>2

\* A claim is made only with room in the windows, and cleanup forgets only
\* events that no window reaches.
LEMMA StepBudget ==
    ASSUME Typed, SentBefore, SendBudget, [Next]_vars
    PROVE  SentBefore' /\ SendBudget'
<1>0. now \in Nat /\ DailyWindow \in Nat /\ SendWindow \in Nat /\ DailyLimit \in Nat
  BY DurationAssumption, LimitAssumption DEF Typed
<1>1. /\ \A t \in sends : Cardinality(Window(sends, t, DailyWindow)) <= DailyLimit
      /\ \A t \in sends : Cardinality(Window(sends, t, SendWindow)) <= 1
  BY DEF SendBudget, Window
<1>2. ASSUME NEW T \in SUBSET sends, sends' = T, now' \in {now, now + 1} PROVE SentBefore' /\ SendBudget'
  <2>1. SentBefore'
    BY <1>0, <1>2 DEF SentBefore
  <2>2. ASSUME NEW t \in T
        PROVE  Cardinality(Window(T, t, DailyWindow)) <= DailyLimit /\ Cardinality(Window(T, t, SendWindow)) <= 1
    <3>1. /\ Cardinality(Window(T, t, DailyWindow)) <= Cardinality(Window(sends, t, DailyWindow))
          /\ Cardinality(Window(T, t, SendWindow)) <= Cardinality(Window(sends, t, SendWindow))
          /\ Cardinality(Window(T, t, DailyWindow)) \in Nat /\ Cardinality(Window(sends, t, DailyWindow)) \in Nat
          /\ Cardinality(Window(T, t, SendWindow)) \in Nat /\ Cardinality(Window(sends, t, SendWindow)) \in Nat
      BY <1>0, SmallerWindow DEF SentBefore
    <3>2. Cardinality(Window(sends, t, DailyWindow)) <= DailyLimit /\ Cardinality(Window(sends, t, SendWindow)) <= 1
      BY <1>1
    <3>. QED
      BY <1>0, <3>1, <3>2
  <2>. QED
    BY <1>2, <2>1, <2>2 DEF SendBudget, Window
<1>3. ASSUME NEW s \in Senders, ClaimPublicEmailDelivery(s) PROVE SentBefore' /\ SendBudget'
  <2>1. /\ WithinLimit(sends, DailyWindow, DailyLimit) /\ WithinLimit(sends, SendWindow, 1)
        /\ sends' = sends \cup {now} /\ now' = now
    BY <1>3 DEF ClaimPublicEmailDelivery
  <2>2. now \notin sends
    <3> DEFINE recent == {t \in sends : t >= now - SendWindow}
    <3>1. SUFFICES ASSUME now \in sends PROVE FALSE
      OBVIOUS
    <3>2. IsFiniteSet(sends)
      BY <1>0, FS_BoundedSetOfNaturals DEF SentBefore
    <3>3. IsFiniteSet(recent)
      BY <3>2, FS_Subset
    <3>4. now \in recent
      BY <1>0, <3>1
    <3>5. Cardinality(recent) < 1
      BY <2>1 DEF WithinLimit
    <3> HIDE DEF recent
    <3>6. Cardinality(recent) \in Nat
      BY <3>3, FS_CardinalityType
    <3>7. Cardinality(recent) = 0
      BY <3>5, <3>6
    <3>. QED
      BY <3>3, <3>4, <3>7, FS_EmptySet
  <2>3. /\ \A t \in sends \cup {now} : Cardinality(Window(sends \cup {now}, t, DailyWindow)) <= DailyLimit
        /\ \A t \in sends \cup {now} : Cardinality(Window(sends \cup {now}, t, SendWindow)) <= 1
    BY <1>0, <1>1, <2>1, <2>2, AdmittedSend
  <2>4. SentBefore'
    BY <1>0, <2>1 DEF SentBefore
  <2>. QED
    BY <2>1, <2>3, <2>4 DEF SendBudget, Window
<1>4. ASSUME CleanupPublicAccountState PROVE SentBefore' /\ SendBudget'
  <2>1. sends' \in SUBSET sends /\ now' = now
    BY <1>4 DEF CleanupPublicAccountState
  <2>. QED
    BY <1>2, <2>1
<1>5. \A s \in Senders : SenderStep(s) => ClaimPublicEmailDelivery(s) \/ UNCHANGED <<sends, now>>
  BY DEF SenderStep, ClaimLapsed, ClaimRefused, Recheck, OpenFails, Send,
     DeferPublicEmailDelivery, FinishPublicEmailDelivery, Abandon, tables
<1>6. \A c \in Challenges : CompleteExpired(c) \/ CompleteWrong(c) \/ CompleteRight(c) => UNCHANGED <<sends, now>>
  BY DEF CompleteExpired, CompleteWrong, CompleteRight
<1>7. \/ \E s \in Senders : ClaimPublicEmailDelivery(s)
      \/ CleanupPublicAccountState
      \/ UNCHANGED sends /\ now' \in {now, now + 1}
  BY <1>5, <1>6 DEF Next, CreatePublicEmailChallenge, Cleaning, DeleteExpiredEmailVerifications,
     PrivacyRequest, EraseInstallation, Tick, vars, tables
<1>. QED
  BY <1>2, <1>3, <1>4, <1>7

\* Whatever the senders and the cleanup of old events do, no window of the mail
\* budget holds more claims than its limit: consumePublicAuthLimits and the
\* claim are one transaction.
THEOREM BudgetKept == Spec => []SendBudget
<1>1. Init => SentBefore /\ SendBudget
  BY DEF Init, SentBefore, SendBudget
<1>2. Typed /\ SentBefore /\ SendBudget /\ [Next]_vars => (SentBefore /\ SendBudget)'
  BY StepBudget
<1>. QED
  BY <1>1, <1>2, ChallengesTyped, PTL DEF Spec
=============================================================================
