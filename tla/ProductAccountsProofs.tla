----------------------- MODULE ProductAccountsProofs -----------------------
(***************************************************************************)
(* Proofs about ProductAccounts, for any sets of sessions, capabilities,   *)
(* installations and accounts, any cleanup limit and any page size.        *)
(*                                                                         *)
(* A step of the composition is a step of AccountSessions or leaves its    *)
(* variables alone, so its theorems hold here too.  That a finished pass   *)
(* is complete needs an invariant about every moment of it: what is owed   *)
(* has been delivered or lies behind the cursor, and within a query it is  *)
(* in the page, still in the queue, or behind a full page of candidates.   *)
(***************************************************************************)
EXTENDS ProductAccounts, AccountSessionsProofs

ScanRow == [stage : {"idle", "page", "between", "done"}, after : Nat, last : Nat, full : BOOLEAN,
            queue : SUBSET Accounts, page : SUBSET Accounts, delivered : SUBSET Accounts]

\* Where the accounts of a pass are relative to its cursor.
Ordered ==
    /\ scan.stage = "idle" => scan.after = 0
    /\ scan.stage # "done" => \A a \in scan.delivered : a <= scan.after
    /\ scan.stage # "page" => scan.page = {} /\ scan.queue = {}
    /\ scan.stage = "page" =>
          /\ scan.after <= scan.last
          /\ \A a \in scan.page : scan.after < a /\ a <= scan.last
          /\ \A a \in scan.queue : scan.last < a

\* Where an owed account can be.
Covered(a) ==
    /\ a \in Accounts /\ Disclosable(a)
    /\ scan.stage # "done" => a \in scan.delivered \/ scan.after < a
    /\ scan.stage = "page" =>
          \/ a \in scan.delivered \cup scan.page \cup scan.queue
          \/ scan.full /\ scan.last < a /\ \A b \in scan.queue : b < a
    /\ scan.stage = "done" => a \in scan.delivered

ScanInv == scan \in ScanRow /\ Ordered /\ \A a \in owed : Covered(a)

-----------------------------------------------------------------------------
\* A step here is a step of the sessions or leaves them alone.
LEMMA StepIsSessionStep == [DirectoryNext]_allVars => [Next]_vars
BY DEF DirectoryNext, AccountStep, Register, EraseDevice, EraseAccount, allVars, Next

\* The sessions of the composition behave as AccountSessions says.
THEOREM SessionsUnchanged == DirectorySpec => Spec
<1>1. DirectoryInit => Init
  BY DEF DirectoryInit
<1>. QED
  BY <1>1, StepIsSessionStep, PTL DEF DirectorySpec, Spec

\* With or without the directory an installation has one usable session.
THEOREM SessionInvariantHere == DirectorySpec => []SessionInv
BY SessionsUnchanged, SessionInvariant, PTL

\* The profiles and the directory take nothing from what is proved of the
\* sessions: it all holds of the composed service.
THEOREM SessionsKeptHere ==
    DirectorySpec => /\ [](UsableIsCurrent /\ OneUnusedToken /\ ReplayBarrier /\ ErasedLeavesNothing)
                     /\ ClosedStaysClosed /\ DeletionFences
BY SessionsUnchanged, OneCurrentSession, OneTokenToRotate, ReplayIsSeen, NothingLeft,
   ClosedForGood, DeletionIsFence, PTL

-----------------------------------------------------------------------------
\* What a session keeps if it is usable after one of the other steps.
LEMMA ElsewhereKeeps ==
    ASSUME TypeOK, Owned, Elsewhere, NEW x \in Sessions, Usable(x)'
    PROVE  Usable(x) /\ session'[x].account = session[x].account
<1>1. ASSUME NEW y \in Sessions, session' = [session EXCEPT ![y] = Revoked(session[y])]
      PROVE  Usable(x) /\ session'[x].account = session[x].account
  BY <1>1, RevokedRow DEF Usable, TypeOK
<1>2. ASSUME NEW t \in Tokens, ReplayRefresh(t)
      PROVE  Usable(x) /\ session'[x].account = session[x].account
  <2>1. token[t].session \in Sessions
    BY <1>2 DEF ReplayRefresh, Owned
  <2>. QED
    BY <1>2, <2>1, <1>1 DEF ReplayRefresh
<1>3. ASSUME NEW y \in Sessions, RevokePublicAccountSession(y)
      PROVE  Usable(x) /\ session'[x].account = session[x].account
  BY <1>3, <1>1 DEF RevokePublicAccountSession
<1>4. ASSUME NEW y \in Sessions, Expire(y)
      PROVE  Usable(x) /\ session'[x].account = session[x].account
  BY <1>4 DEF Expire, Usable, TypeOK, SessionRow
<1>5. CASE CleanupPublicAccountState
  <2>1. PICK oldTokens, oldSessions : CleanupOf(oldTokens, oldSessions)
    BY <1>5, CleanupTakes
  <2>. QED
    BY <2>1, ZenonT(60) DEF CleanupOf, Usable, TypeOK, SessionRow
<1>6. CASE UNCHANGED session
  BY <1>6 DEF Usable
<1>. QED
  BY <1>2, <1>3, <1>4, <1>5, <1>6 DEF Elsewhere, PrivacyRequest

\* None of the other steps erases anybody.
LEMMA ElsewhereErasesNobody ==
    ASSUME TypeOK, Elsewhere, NEW a \in Accounts, subject'[a] = "erased"
    PROVE  subject[a] = "erased"
BY DEF TypeOK, Elsewhere, ReplayRefresh, RevokePublicAccountSession, Expire, PrivacyRequest,
       CleanupPublicAccountState

\* Registration writes the account with the session, and only the erasure of
\* the person removes it, with every session of the account.
LEMMA StepBacked ==
    TypeOK /\ Owned /\ ProfileBacksSession /\ [DirectoryNext]_allVars => ProfileBacksSession'
<1> SUFFICES ASSUME TypeOK, Owned, ProfileBacksSession, [DirectoryNext]_allVars
             PROVE  ProfileBacksSession'
  OBVIOUS
<1>1. ASSUME NEW i \in Installations, NEW a \in Accounts, NEW x \in Sessions, NEW t \in Tokens,
             Register(i, a, x, t)
      PROVE  ProfileBacksSession'
  <2>1. session'[x].account = a
    BY <1>1 DEF Register, CompletePublicEmailChallenge
  <2>2. ASSUME NEW y \in Sessions \ {x}, Usable(y)'
        PROVE  Usable(y) /\ session'[y].account = session[y].account
    BY <1>1, <2>2, RevokedRow DEF Register, CompletePublicEmailChallenge, Usable, TypeOK
  <2>3. subject' = subject /\ subject[a] # "erased" /\ account' = account \cup {a}
    BY <1>1 DEF Register, CompletePublicEmailChallenge
  <2>. QED
    BY <2>1, <2>2, <2>3 DEF ProfileBacksSession, Listed
<1>2. ASSUME NEW i \in Installations, EraseDevice(i)
      PROVE  ProfileBacksSession'
  <2>1. \A x \in Sessions : Usable(x)' => Usable(x) /\ session'[x] = session[x]
    BY <1>2 DEF EraseDevice, EraseInstallation, EraseSessions, NoSession, Usable
  <2>2. \A a \in Accounts : subject'[a] = subject[a]
    BY <1>2, AccountAssumption DEF EraseDevice, EraseInstallation, TypeOK
  <2>. QED
    BY <1>2, <2>1, <2>2 DEF EraseDevice, ProfileBacksSession, Listed
<1>3. ASSUME NEW a \in Accounts, EraseAccount(a)
      PROVE  ProfileBacksSession'
  <2>1. \A x \in Sessions : Usable(x)' => Usable(x) /\ session'[x] = session[x] /\ session[x].account # a
    BY <1>3 DEF EraseAccount, ErasePerson, EraseSessions, NoSession, Usable
  <2>2. \A b \in Accounts \ {a} : subject'[b] = subject[b]
    BY <1>3, AccountAssumption DEF EraseAccount, ErasePerson, TypeOK
  <2>. QED
    BY <1>3, <2>1, <2>2 DEF EraseAccount, ProfileBacksSession, Listed
<1>4. ASSUME NEW t \in Tokens, NEW u \in Tokens, RotatePublicAccountRefresh(t, u), UNCHANGED account
      PROVE  ProfileBacksSession'
  BY <1>4 DEF RotatePublicAccountRefresh, ProfileBacksSession, Usable, Listed
<1>5. CASE Elsewhere /\ UNCHANGED account
  <2>1. \A a \in Accounts : subject'[a] = "erased" => subject[a] = "erased"
    BY <1>5, ElsewhereErasesNobody
  <2>2. \A x \in Sessions : Usable(x)' => Usable(x) /\ session'[x].account = session[x].account
    BY <1>5, ElsewhereKeeps
  <2>. QED
    BY <1>5, <2>1, <2>2 DEF ProfileBacksSession, Listed
<1>6. CASE UNCHANGED <<vars, account>>
  BY <1>6 DEF vars, ProfileBacksSession, Usable, Listed
<1>. QED
  BY <1>1, <1>2, <1>3, <1>4, <1>5, <1>6 DEF DirectoryNext, AccountStep, allVars

\* A session that can still be used always has its product account, and an
\* erased person has none.
THEOREM SessionIsBacked == DirectorySpec => []ProfileBacksSession
<1>1. DirectoryInit => ProfileBacksSession
  BY DEF DirectoryInit, Init, ProfileBacksSession, Usable, Listed, NoSession
<1>2. SessionInv /\ ProfileBacksSession /\ [DirectoryNext]_allVars => ProfileBacksSession'
  BY StepBacked DEF SessionInv
<1>. QED
  BY <1>1, <1>2, SessionInvariantHere, PTL DEF DirectorySpec

-----------------------------------------------------------------------------
\* Candidates lie behind the cursor, and who is listed behind it and no
\* candidate lies behind a full page of them.
LEMMA Candidates ==
    ASSUME NEW rows \in SUBSET Accounts, scan \in ScanRow, DirectoryAccounts(rows)
    PROVE  /\ \A b \in rows : scan.after < b
           /\ \A a \in Accounts : Listed(a) /\ scan.after < a /\ a \notin rows =>
                 Cardinality(rows) = PageLimit /\ \A b \in rows : b < a
<1>1. scan.after \in Nat
  BY DEF ScanRow
<1>2. \A a \in Accounts : a \in Nat
  BY AccountAssumption
<1>. QED
  BY <1>1, <1>2 DEF DirectoryAccounts, FirstRows

\* The scan's part of the invariant that does not depend on the tables.
LEMMA StepOrdered ==
    scan \in ScanRow /\ Ordered /\ [DirectoryNext]_allVars => scan' \in ScanRow /\ Ordered'
<1> SUFFICES ASSUME scan \in ScanRow, Ordered, [DirectoryNext]_allVars
             PROVE  scan' \in ScanRow /\ Ordered'
  OBVIOUS
<1>0. \A a \in Accounts : a \in Nat
  BY AccountAssumption
<1>1. CASE BeginQuery
  <2>1. PICK rows \in SUBSET Accounts :
          /\ DirectoryAccounts(rows)
          /\ scan' = [scan EXCEPT !.stage = "page", !.queue = rows, !.page = {},
                                  !.last = scan.after, !.full = Cardinality(rows) = PageLimit]
    BY <1>1 DEF BeginQuery
  <2>2. \A b \in rows : scan.after < b
    BY <2>1, Candidates
  <2>3. (Cardinality(rows) = PageLimit) \in BOOLEAN
    OBVIOUS
  <2>4. scan' \in ScanRow
    BY <2>1, <2>3 DEF ScanRow
  <2>5. scan.stage # "done"
    BY <1>1 DEF BeginQuery
  <2>. QED
    BY <2>1, <2>2, <2>4, <2>5 DEF Ordered, ScanRow
<1>2. CASE DirectoryAccount
  <2>1. PICK a \in scan.queue :
          /\ \A b \in scan.queue : a <= b
          /\ scan' = [scan EXCEPT !.queue = @ \ {a}, !.last = a,
                                  !.page = IF Disclosable(a) THEN @ \cup {a} ELSE @]
    BY <1>2 DEF DirectoryAccount
  <2>2. a \in Accounts /\ a \in Nat /\ scan.stage = "page"
    BY <1>0, <1>2 DEF ScanRow, DirectoryAccount
  <2>3. scan' \in ScanRow
    BY <2>1, <2>2 DEF ScanRow
  <2>4. /\ scan'.stage = "page" /\ scan'.after = scan.after /\ scan'.delivered = scan.delivered
        /\ scan'.last = a /\ scan'.queue = scan.queue \ {a} /\ scan'.page \subseteq scan.page \cup {a}
    BY <2>1, <2>2 DEF ScanRow
  <2>5. scan.after \in Nat /\ scan.last \in Nat /\ scan.after <= scan.last /\ scan.last < a
    BY <2>2 DEF ScanRow, Ordered
  <2>6. \A b \in scan.page : b \in Nat /\ scan.after < b /\ b <= a
    BY <1>0, <2>2, <2>5 DEF ScanRow, Ordered
  <2>7. \A b \in scan.queue \ {a} : a < b
    BY <1>0, <2>1, <2>2 DEF ScanRow
  <2>8. \A b \in scan.delivered : b <= scan.after
    BY <2>2 DEF Ordered
  <2>. QED
    BY <2>2, <2>3, <2>4, <2>5, <2>6, <2>7, <2>8 DEF Ordered
<1>3. CASE EndQuery
  <2>1. scan' \in ScanRow
    BY <1>3 DEF EndQuery, ScanRow
  <2>. QED
    BY <1>0, <1>3, <2>1 DEF EndQuery, Ordered, ScanRow
<1>4. CASE FailQuery
  <2>1. scan' \in ScanRow
    BY <1>4 DEF FailQuery, ScanRow
  <2>. QED
    BY <1>4, <2>1 DEF FailQuery, Ordered, ScanRow
<1>5. CASE UNCHANGED scan
  BY <1>5 DEF Ordered
<1>. QED
  BY <1>1, <1>2, <1>3, <1>4, <1>5 DEF DirectoryNext, DirectoryStep, allVars

\* What is owed after a step was owed before it, or the pass had not begun.
LEMMA OwedBefore ==
    ASSUME DirectoryNext, NEW a \in owed'
    PROVE  a \in Accounts /\ Disclosable(a)' /\ (a \in owed \/ scan.stage = "idle")
BY DEF DirectoryNext

\* A step of the scan loses no owed account.
LEMMA StepCovered == ScanInv /\ [DirectoryNext]_allVars => \A a \in owed' : Covered(a)'
<1> SUFFICES ASSUME ScanInv, DirectoryNext, NEW a \in owed' PROVE Covered(a)'
  <2>1. CASE UNCHANGED allVars
    BY <2>1 DEF ScanInv, allVars, vars, Covered, Disclosable, Listed
  <2>. QED
    BY <2>1
<1>0. /\ a \in Accounts /\ a \in Nat \ {0} /\ Disclosable(a)' /\ (a \in owed \/ scan.stage = "idle")
      /\ scan \in ScanRow /\ Ordered
  BY OwedBefore, AccountAssumption DEF ScanInv
<1>1. \A b \in Accounts : b \in Nat
  BY AccountAssumption
<1>2. scan.stage # "done" => a \in scan.delivered \/ scan.after < a
  BY <1>0 DEF ScanInv, Covered, Ordered
<1>3. scan.stage # "idle" => Covered(a)
  BY <1>0 DEF ScanInv
<1>4. CASE AccountStep /\ UNCHANGED scan
  BY <1>0, <1>2, <1>3, <1>4 DEF Covered
<1>5. CASE DirectoryStep /\ UNCHANGED <<vars, account>>
  <2>0. Disclosable(a) /\ Listed(a)
    BY <1>0, <1>5 DEF Disclosable, Listed, vars
  <2>1. CASE BeginQuery
    <3>1. PICK rows \in SUBSET Accounts :
            /\ DirectoryAccounts(rows)
            /\ scan' = [scan EXCEPT !.stage = "page", !.queue = rows, !.page = {},
                                    !.last = scan.after, !.full = Cardinality(rows) = PageLimit]
      BY <2>1 DEF BeginQuery
    <3>2. /\ scan'.stage = "page" /\ scan'.delivered = scan.delivered /\ scan'.queue = rows
          /\ scan'.after = scan.after /\ scan'.last = scan.after
          /\ scan'.full = (Cardinality(rows) = PageLimit)
      BY <1>0, <3>1 DEF ScanRow
    <3>3. a \in scan.delivered \/ scan.after < a
      BY <1>2, <2>1 DEF BeginQuery
    <3>4. a \in rows \/ ~(scan.after < a) \/ (Cardinality(rows) = PageLimit /\ \A b \in rows : b < a)
      BY <1>0, <2>0, <3>1, Candidates
    <3>. QED
      BY <1>0, <3>2, <3>3, <3>4 DEF Covered
  <2>2. CASE DirectoryAccount
    <3>1. PICK c \in scan.queue :
            /\ \A b \in scan.queue : c <= b
            /\ scan' = [scan EXCEPT !.queue = @ \ {c}, !.last = c,
                                    !.page = IF Disclosable(c) THEN @ \cup {c} ELSE @]
      BY <2>2 DEF DirectoryAccount
    <3>2. /\ scan'.stage = "page" /\ scan'.delivered = scan.delivered /\ scan'.queue = scan.queue \ {c}
          /\ scan'.after = scan.after /\ scan'.last = c /\ scan'.full = scan.full
          /\ scan'.page = IF Disclosable(c) THEN scan.page \cup {c} ELSE scan.page
          /\ scan.stage = "page"
      BY <1>0, <2>2, <3>1 DEF ScanRow, DirectoryAccount
    <3>3. \/ a \in scan.delivered \cup scan.page \cup scan.queue
          \/ scan.full /\ scan.last < a /\ \A b \in scan.queue : b < a
      BY <1>3, <3>2 DEF Covered
    <3>4. \/ a \in scan'.delivered \cup scan'.page \cup scan'.queue
          \/ scan'.full /\ scan'.last < a /\ \A b \in scan'.queue : b < a
      BY <2>0, <3>2, <3>3
    <3>. QED
      BY <1>0, <1>2, <3>2, <3>4 DEF Covered
  <2>3. CASE EndQuery
    <3>1. /\ scan.stage = "page" /\ scan.queue = {}
          /\ scan'.stage = IF scan.full THEN "between" ELSE "done"
          /\ scan'.after = IF scan.full THEN scan.last ELSE scan.after
          /\ scan'.delivered = scan.delivered \cup scan.page
      BY <1>0, <2>3 DEF EndQuery, ScanRow
    <3>2. a \in scan.delivered \cup scan.page \/ (scan.full /\ scan.last < a)
      BY <1>3, <3>1 DEF Covered
    <3>. QED
      BY <1>0, <3>1, <3>2 DEF Covered
  <2>4. CASE FailQuery
    <3>1. /\ scan.stage = "page" /\ scan'.stage = "between"
          /\ scan'.after = scan.after /\ scan'.delivered = scan.delivered
      BY <1>0, <2>4 DEF FailQuery, ScanRow
    <3>. QED
      BY <1>0, <1>2, <3>1 DEF Covered
  <2>. QED
    BY <1>5, <2>1, <2>2, <2>3, <2>4 DEF DirectoryStep
<1>. QED
  BY <1>4, <1>5 DEF DirectoryNext

\* The inductive invariant of a pass.
THEOREM ScanInvariant == DirectorySpec => []ScanInv
<1>1. DirectoryInit => ScanInv
  BY DEF DirectoryInit, ScanInv, ScanRow, Ordered
<1>2. ScanInv /\ [DirectoryNext]_allVars => ScanInv'
  BY StepOrdered, StepCovered DEF ScanInv
<1>. QED
  BY <1>1, <1>2, PTL DEF DirectorySpec

\* A pass over the directory that has come to its end has delivered every
\* account that was disclosable from the beginning to the end of it, whatever
\* the page size and however rows and requests came and went meanwhile.
THEOREM PassIsComplete == DirectorySpec => []ScanComplete
<1>1. ScanInv => ScanComplete
  BY DEF ScanInv, Covered, ScanComplete
<1>. QED
  BY <1>1, ScanInvariant, PTL

\* No account is delivered on two pages of the same pass.
THEOREM PagesAreDisjoint == DirectorySpec => []ListedOnce
<1>1. ScanInv => ListedOnce
  <2> SUFFICES ASSUME ScanInv, NEW a \in scan.page, a \in scan.delivered PROVE FALSE
    BY DEF ListedOnce
  <2>1. scan.after \in Nat /\ a \in Nat
    BY AccountAssumption DEF ScanInv, ScanRow
  <2>. QED
    BY <2>1 DEF ScanInv, Ordered
<1>. QED
  BY <1>1, ScanInvariant, PTL

\* An account enters a page only while no deletion request of its person is
\* open, also when the request was opened after the candidates were listed.
THEOREM DisclosedWhileLive == DirectorySpec => DisclosureIsCurrent
<1>1. ASSUME TypeOK, ProfileBacksSession, scan \in ScanRow, [DirectoryNext]_allVars,
             NEW a \in scan'.page \ scan.page
      PROVE  Listed(a) /\ subject[a] = "live"
  <2>1. CASE DirectoryAccount
    <3>1. PICK c \in scan.queue :
            scan' = [scan EXCEPT !.queue = @ \ {c}, !.last = c,
                                 !.page = IF Disclosable(c) THEN @ \cup {c} ELSE @]
      BY <2>1 DEF DirectoryAccount
    <3>2. a = c /\ Disclosable(a) /\ a \in Accounts
      BY <1>1, <3>1 DEF ScanRow
    <3>. QED
      BY <1>1, <3>2 DEF Disclosable, TypeOK, ProfileBacksSession
  <2>2. CASE BeginQuery \/ EndQuery \/ FailQuery \/ UNCHANGED scan
    BY <1>1, <2>2 DEF BeginQuery, EndQuery, FailQuery, ScanRow
  <2>. QED
    BY <1>1, <2>1, <2>2 DEF DirectoryNext, DirectoryStep, allVars
<1>2. SessionInv /\ ProfileBacksSession /\ ScanInv /\ [DirectoryNext]_allVars =>
        [\A a \in scan'.page \ scan.page : Listed(a) /\ subject[a] = "live"]_allVars
  BY <1>1 DEF SessionInv, ScanInv
<1>. QED
  BY <1>2, SessionInvariantHere, SessionIsBacked, ScanInvariant, PTL DEF DirectorySpec, DisclosureIsCurrent
=============================================================================
