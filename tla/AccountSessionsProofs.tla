----------------------- MODULE AccountSessionsProofs -----------------------
(***************************************************************************)
(* Proofs about AccountSessions, for any sets of sessions, capabilities,   *)
(* installations and accounts and any cleanup limit.                       *)
(*                                                                         *)
(* UsableIsCurrent is inductive together with TypeOK and Owned, which says *)
(* that open sessions and issued capabilities belong to somebody: every    *)
(* action that moves a flow or a link closes, erases or finds expired the  *)
(* session that was current before.  ClosedStaysClosed and DeletionFences  *)
(* are facts about single steps from states with that invariant.           *)
(*                                                                         *)
(* The capabilities of a family are FamilyInv: a usable session has one    *)
(* unused capability, and the used ones are kept as long as it is usable.  *)
(* What an erasure leaves is ErasureInv: an erased subject is in no open   *)
(* session, link or flow, and no later step writes one for it.             *)
(***************************************************************************)
EXTENDS AccountSessions, FiniteSetTheorems, TLAPS

Open(x) == session[x].state \in {"active", "revoked"}

Owned ==
    /\ \A x \in Sessions : Open(x) => session[x].account \in Accounts /\ session[x].installation \in Installations
    /\ \A t \in Tokens : token[t].state # "absent" => token[t].session \in Sessions

\* The rows that the actions write are rows of their tables.
LEMMA RowsWritten ==
    /\ NoSession \in SessionRow /\ NoToken \in TokenRow
    /\ [NoSession EXCEPT !.state = "deleted"] \in SessionRow
    /\ \A a \in Accounts, i \in Installations :
          [state |-> "active", account |-> a, installation |-> i, over |-> FALSE] \in SessionRow
    /\ \A x \in Sessions : [state |-> "unused", session |-> x] \in TokenRow
    /\ \A row \in SessionRow :
          /\ Revoked(row) \in SessionRow
          /\ [row EXCEPT !.over = TRUE] \in SessionRow
          /\ [row EXCEPT !.state = "deleted", !.account = None, !.installation = None] \in SessionRow
    /\ \A row \in TokenRow :
          [row EXCEPT !.state = "used"] \in TokenRow /\ [row EXCEPT !.state = "deleted"] \in TokenRow
BY DEF SessionRow, TokenRow, NoSession, NoToken, Revoked

\* Revoking a row leaves it open for the same owner if it was, and never active.
LEMMA RevokedRow ==
    ASSUME NEW row \in SessionRow
    PROVE  /\ Revoked(row).state # "active"
           /\ Revoked(row).state \in {"active", "revoked"} <=> row.state \in {"active", "revoked"}
           /\ Revoked(row).state = "absent" <=> row.state = "absent"
           /\ Revoked(row).account = row.account /\ Revoked(row).installation = row.installation
           /\ Revoked(row).over = row.over
BY DEF Revoked, SessionRow

\* What a cleanup of these capabilities and sessions does.
CleanupOf(oldTokens, oldSessions) ==
    /\ \A x \in oldSessions : session[x].over
    /\ \A t \in oldTokens : token[t].state # "absent" /\ session[token[t].session].over
    /\ token' = [t \in Tokens |->
          IF t \in oldTokens THEN [token[t] EXCEPT !.state = "deleted"] ELSE token[t]]
    /\ session' = [x \in Sessions |->
          IF x \in oldSessions
          THEN [session[x] EXCEPT !.state = "deleted", !.account = None, !.installation = None]
          ELSE session[x]]
    /\ flow' = [i \in Installations |-> IF flow[i] \in oldSessions THEN None ELSE flow[i]]
    /\ UNCHANGED <<linked, subject>>

\* Cleanup removes sessions that are over, whatever portion it takes.
LEMMA CleanupTakes ==
    CleanupPublicAccountState => \E oldTokens, oldSessions : CleanupOf(oldTokens, oldSessions)
BY DEF CleanupPublicAccountState, CleanupOf, Portion, TokenOver

-----------------------------------------------------------------------------
\* The initial tables are typed.
LEMMA InitTyped == Init => TypeOK
BY RowsWritten DEF Init, TypeOK

\* Erasing any set of sessions keeps both tables typed.
LEMMA EraseTyped ==
    ASSUME TypeOK, NEW gone, EraseSessions(gone)
    PROVE  session' \in [Sessions -> SessionRow] /\ token' \in [Tokens -> TokenRow]
BY RowsWritten DEF EraseSessions, TypeOK

\* Every transaction keeps the vocabularies of the columns.
LEMMA StepTyped == TypeOK /\ Owned /\ [Next]_vars => TypeOK'
<1> SUFFICES ASSUME TypeOK, Owned, [Next]_vars PROVE TypeOK'
  OBVIOUS
<1>1. ASSUME NEW i \in Installations, NEW a \in Accounts, NEW x \in Sessions, NEW t \in Tokens,
             CompletePublicEmailChallenge(i, a, x, t)
      PROVE  TypeOK'
  <2>1. session' \in [Sessions -> SessionRow]
    BY <1>1, RowsWritten DEF CompletePublicEmailChallenge, TypeOK
  <2>2. token' \in [Tokens -> TokenRow]
    BY <1>1, RowsWritten DEF CompletePublicEmailChallenge, TypeOK
  <2>. QED
    BY <1>1, <2>1, <2>2 DEF CompletePublicEmailChallenge, TypeOK
<1>2. ASSUME NEW t \in Tokens, NEW u \in Tokens, RotatePublicAccountRefresh(t, u)
      PROVE  TypeOK'
  <2>1. /\ token' = [token EXCEPT ![t] = [token[t] EXCEPT !.state = "used"],
                                  ![u] = [state |-> "unused", session |-> token[t].session]]
        /\ token[t].state = "unused"
    BY <1>2 DEF RotatePublicAccountRefresh
  <2>2. token[t].session \in Sessions
    BY <2>1 DEF Owned
  <2>3. token' \in [Tokens -> TokenRow]
    BY <2>1, <2>2, RowsWritten DEF TypeOK
  <2>. QED
    BY <1>2, <2>3 DEF RotatePublicAccountRefresh, TypeOK
<1>3. ASSUME NEW t \in Tokens, ReplayRefresh(t)
      PROVE  TypeOK'
  <2>1. token[t].session \in Sessions
    BY <1>3 DEF ReplayRefresh, Owned
  <2>. QED
    BY <1>3, <2>1, RowsWritten DEF ReplayRefresh, TypeOK
<1>4. ASSUME NEW x \in Sessions, RevokePublicAccountSession(x)
      PROVE  TypeOK'
  BY <1>4, RowsWritten DEF RevokePublicAccountSession, TypeOK
<1>5. ASSUME NEW x \in Sessions, Expire(x)
      PROVE  TypeOK'
  <2>1. session' = [session EXCEPT ![x] = [session[x] EXCEPT !.over = TRUE]]
    BY <1>5 DEF Expire
  <2>2. [session[x] EXCEPT !.over = TRUE] \in SessionRow
    BY RowsWritten DEF TypeOK
  <2>3. session' \in [Sessions -> SessionRow]
    BY <2>1, <2>2 DEF TypeOK
  <2>. QED
    BY <1>5, <2>3 DEF Expire, TypeOK
<1>6. ASSUME NEW y \in Accounts \cup Installations, PrivacyRequest(y)
      PROVE  TypeOK'
  BY <1>6 DEF PrivacyRequest, TypeOK
<1>7. ASSUME NEW i \in Installations, EraseInstallation(i)
      PROVE  TypeOK'
  <2>1. session' \in [Sessions -> SessionRow] /\ token' \in [Tokens -> TokenRow]
    BY <1>7, EraseTyped DEF EraseInstallation
  <2>. QED
    BY <1>7, <2>1 DEF EraseInstallation, TypeOK
<1>8. ASSUME NEW a \in Accounts, ErasePerson(a)
      PROVE  TypeOK'
  <2>1. session' \in [Sessions -> SessionRow] /\ token' \in [Tokens -> TokenRow]
    BY <1>8, EraseTyped DEF ErasePerson
  <2>2. subject' \in [Accounts \cup Installations -> {"live", "deleting", "erased"}]
    BY <1>8 DEF ErasePerson, TypeOK
  <2>3. flow' \in [Installations -> Sessions \cup {None}] /\ linked' \in [Installations -> Accounts \cup {None}]
    BY <1>8 DEF ErasePerson, TypeOK
  <2>. QED
    BY <2>1, <2>2, <2>3 DEF TypeOK
<1>9. CASE CleanupPublicAccountState
  <2>1. PICK oldTokens, oldSessions : CleanupOf(oldTokens, oldSessions)
    BY <1>9, CleanupTakes
  <2>2. session' \in [Sessions -> SessionRow]
    <3>1. \A x \in Sessions : [session[x] EXCEPT !.state = "deleted", !.account = None, !.installation = None]
                                  \in SessionRow
      BY RowsWritten DEF TypeOK
    <3>. QED
      BY <2>1, <3>1 DEF CleanupOf, TypeOK
  <2>3. token' \in [Tokens -> TokenRow]
    <3>1. \A t \in Tokens : [token[t] EXCEPT !.state = "deleted"] \in TokenRow
      BY RowsWritten DEF TypeOK
    <3>. QED
      BY <2>1, <3>1 DEF CleanupOf, TypeOK
  <2>. QED
    BY <2>1, <2>2, <2>3 DEF CleanupOf, TypeOK
<1>10. CASE UNCHANGED vars
  BY <1>10 DEF vars, TypeOK
<1>. QED
  BY <1>1, <1>2, <1>3, <1>4, <1>5, <1>6, <1>7, <1>8, <1>9, <1>10 DEF Next, Elsewhere

-----------------------------------------------------------------------------
\* Open sessions and issued capabilities keep their owners.
LEMMA StepOwned == TypeOK /\ Owned /\ [Next]_vars => Owned'
<1> SUFFICES ASSUME TypeOK, Owned, [Next]_vars PROVE Owned'
  OBVIOUS
<1> USE DEF Open
<1>1. ASSUME NEW i \in Installations, NEW a \in Accounts, NEW x \in Sessions, NEW t \in Tokens,
             CompletePublicEmailChallenge(i, a, x, t)
      PROVE  Owned'
  <2>1. \A y \in Sessions \ {x} : session'[y] \in {session[y], Revoked(session[y])}
    BY <1>1 DEF CompletePublicEmailChallenge
  <2>2. session'[x].account = a /\ session'[x].installation = i
    BY <1>1 DEF CompletePublicEmailChallenge
  <2>3. \A y \in Sessions : session[y] \in SessionRow
    BY DEF TypeOK
  <2>4. \A y \in Sessions : Open(y)' => session'[y].account \in Accounts /\ session'[y].installation \in Installations
    BY <2>1, <2>2, <2>3, RevokedRow DEF Owned
  <2>5. \A u \in Tokens : token'[u].state # "absent" => token'[u].session \in Sessions
    BY <1>1 DEF CompletePublicEmailChallenge, Owned, TypeOK
  <2>. QED
    BY <2>4, <2>5 DEF Owned
<1>2. ASSUME NEW t \in Tokens, NEW u \in Tokens, RotatePublicAccountRefresh(t, u)
      PROVE  Owned'
  <2>1. /\ token' = [token EXCEPT ![t] = [token[t] EXCEPT !.state = "used"],
                                  ![u] = [state |-> "unused", session |-> token[t].session]]
        /\ token[t].state = "unused" /\ session' = session
    BY <1>2 DEF RotatePublicAccountRefresh
  <2>2. token[t].session \in Sessions
    BY <2>1 DEF Owned
  <2>3. \A v \in Tokens : token'[v].state # "absent" => token'[v].session \in Sessions
    BY <2>1, <2>2 DEF Owned, TypeOK, TokenRow
  <2>. QED
    BY <2>1, <2>3 DEF Owned
<1>3. ASSUME NEW x \in Sessions, session' = [session EXCEPT ![x] = Revoked(session[x])], token' = token
      PROVE  Owned'
  <2>1. \A y \in Sessions : session[y] \in SessionRow /\ session'[y] \in {session[y], Revoked(session[y])}
    BY <1>3 DEF TypeOK
  <2>2. \A y \in Sessions : Open(y)' => session'[y].account \in Accounts /\ session'[y].installation \in Installations
    BY <2>1, RevokedRow DEF Owned
  <2>. QED
    BY <1>3, <2>2 DEF Owned
<1>4. ASSUME NEW t \in Tokens, ReplayRefresh(t)
      PROVE  Owned'
  <2>1. token[t].session \in Sessions
    BY <1>4 DEF ReplayRefresh, Owned
  <2>. QED
    BY <1>4, <2>1, <1>3 DEF ReplayRefresh
<1>5. ASSUME NEW x \in Sessions, RevokePublicAccountSession(x)
      PROVE  Owned'
  BY <1>5, <1>3 DEF RevokePublicAccountSession
<1>6. ASSUME NEW x \in Sessions, Expire(x)
      PROVE  Owned'
  BY <1>6 DEF Expire, Owned, TypeOK, SessionRow
<1>7. ASSUME NEW gone \in SUBSET Sessions, EraseSessions(gone)
      PROVE  Owned'
  <2>1. \A x \in Sessions : Open(x)' => session'[x] = session[x]
    BY <1>7 DEF EraseSessions, NoSession
  <2>2. \A t \in Tokens : token'[t].session = token[t].session /\ (token'[t].state # "absent" =>
            token[t].state # "absent" \/ token[t].session \in gone)
    BY <1>7 DEF EraseSessions, TypeOK, TokenRow
  <2>. QED
    BY <2>1, <2>2 DEF Owned
<1>8. CASE CleanupPublicAccountState
  <2>1. PICK oldTokens, oldSessions : CleanupOf(oldTokens, oldSessions)
    BY <1>8, CleanupTakes
  <2>2. \A x \in Sessions : Open(x)' => session'[x] = session[x]
    BY <2>1, ZenonT(60) DEF CleanupOf, TypeOK, SessionRow
  <2>3. \A t \in Tokens : token'[t] = IF t \in oldTokens THEN [token[t] EXCEPT !.state = "deleted"] ELSE token[t]
    BY <2>1 DEF CleanupOf
  <2>4. \A t \in oldTokens \cap Tokens : token[t].session \in Sessions
    BY <2>1 DEF CleanupOf, Owned
  <2>5. \A t \in Tokens : token'[t].state # "absent" => token'[t].session \in Sessions
    BY <2>3, <2>4 DEF Owned, TypeOK, TokenRow
  <2>. QED
    BY <2>2, <2>5 DEF Owned
<1>9. ASSUME NEW i \in Installations, EraseInstallation(i)
      PROVE  Owned'
  BY <1>9, <1>7 DEF EraseInstallation
<1>10. ASSUME NEW a \in Accounts, ErasePerson(a)
      PROVE  Owned'
  BY <1>10, <1>7 DEF ErasePerson
<1>11. CASE UNCHANGED <<session, token>>
  BY <1>11 DEF Owned
<1>. QED
  BY <1>1, <1>2, <1>4, <1>5, <1>6, <1>8, <1>9, <1>10, <1>11 DEF Next, Elsewhere, PrivacyRequest, vars

-----------------------------------------------------------------------------
\* Whoever stays usable stays the current session of the same installation and
\* account.
LEMMA StepCurrent == TypeOK /\ Owned /\ UsableIsCurrent /\ [Next]_vars => UsableIsCurrent'
<1> SUFFICES ASSUME TypeOK, Owned, UsableIsCurrent, [Next]_vars PROVE UsableIsCurrent'
  OBVIOUS
<1>1. ASSUME NEW i \in Installations, NEW a \in Accounts, NEW x \in Sessions, NEW t \in Tokens,
             CompletePublicEmailChallenge(i, a, x, t)
      PROVE  UsableIsCurrent'
  <2>1. /\ session'[x].account = a /\ session'[x].installation = i /\ flow'[i] = x /\ linked'[i] = a
        /\ \A j \in Installations \ {i} : flow'[j] = flow[j] /\ linked'[j] = linked[j]
    BY <1>1 DEF CompletePublicEmailChallenge, TypeOK
  <2>2. ASSUME NEW y \in Sessions \ {x}, Usable(y)'
        PROVE  /\ session'[y] = session[y] /\ Usable(y) /\ y # flow[i]
    BY <1>1, <2>2, RevokedRow DEF CompletePublicEmailChallenge, Usable, TypeOK
  <2>3. ASSUME NEW y \in Sessions \ {x}, Usable(y)'
        PROVE  LET j == session'[y].installation
               IN  j # None /\ flow'[j] = y /\ linked'[j] = session'[y].account
    <3>1. Open(y)
      BY <2>2, <2>3 DEF Usable, Open
    <3>2. session[y].installation \in Installations \ {i}
      BY <2>2, <2>3, <3>1 DEF UsableIsCurrent, Owned
    <3>. QED
      BY <2>1, <2>2, <2>3, <3>2 DEF UsableIsCurrent
  <2>4. i # None
    BY NoneAssumption
  <2>. QED
    BY <2>1, <2>3, <2>4 DEF UsableIsCurrent
<1>2. ASSUME NEW x \in Sessions, session' = [session EXCEPT ![x] = Revoked(session[x])],
             UNCHANGED <<flow, linked>>
      PROVE  UsableIsCurrent'
  BY <1>2, RevokedRow DEF UsableIsCurrent, Usable, TypeOK
<1>3. ASSUME NEW t \in Tokens, ReplayRefresh(t)
      PROVE  UsableIsCurrent'
  <2>1. token[t].session \in Sessions
    BY <1>3 DEF ReplayRefresh, Owned
  <2>. QED
    BY <1>3, <2>1, <1>2 DEF ReplayRefresh
<1>4. ASSUME NEW x \in Sessions, RevokePublicAccountSession(x)
      PROVE  UsableIsCurrent'
  BY <1>4, <1>2 DEF RevokePublicAccountSession
<1>5. ASSUME NEW x \in Sessions, Expire(x)
      PROVE  UsableIsCurrent'
  BY <1>5 DEF Expire, UsableIsCurrent, Usable, TypeOK, SessionRow
<1>6. ASSUME NEW i \in Installations, EraseInstallation(i)
      PROVE  UsableIsCurrent'
  <2>1. \A x \in Sessions : Usable(x)' => session'[x] = session[x] /\ Usable(x) /\ session[x].installation # i
    BY <1>6 DEF EraseInstallation, EraseSessions, NoSession, Usable
  <2>2. \A j \in Installations \ {i} : flow'[j] = flow[j] /\ linked'[j] = linked[j]
    BY <1>6 DEF EraseInstallation, TypeOK
  <2>3. \A x \in Sessions : Usable(x) => session[x].installation \in Installations
    BY DEF Owned, Open, Usable
  <2>. QED
    BY <2>1, <2>2, <2>3 DEF UsableIsCurrent
<1>7. ASSUME NEW a \in Accounts, ErasePerson(a)
      PROVE  UsableIsCurrent'
  <2> DEFINE devices == {i \in Installations : linked[i] = a}
             gone == {x \in Sessions : session[x].installation \in devices \/ session[x].account = a}
  <2>1. \A x \in Sessions : Usable(x)' => session'[x] = session[x] /\ Usable(x) /\ x \notin gone
    BY <1>7 DEF ErasePerson, EraseSessions, NoSession, Usable
  <2>2. \A i \in Installations : i \notin devices /\ flow[i] \notin gone =>
            flow'[i] = flow[i] /\ linked'[i] = linked[i]
    BY <1>7 DEF ErasePerson
  <2>3. \A x \in Sessions : Usable(x) => session[x].installation \in Installations
    BY DEF Owned, Open, Usable
  <2>4. \A x \in Sessions : x \notin gone => session[x].installation \notin devices
    OBVIOUS
  <2> HIDE DEF devices, gone
  <2>. QED
    BY <2>1, <2>2, <2>3, <2>4 DEF UsableIsCurrent
<1>8. CASE CleanupPublicAccountState
  <2>1. PICK oldTokens, oldSessions : CleanupOf(oldTokens, oldSessions)
    BY <1>8, CleanupTakes
  <2>2. \A x \in Sessions : Usable(x)' => session'[x] = session[x] /\ Usable(x) /\ x \notin oldSessions
    BY <2>1 DEF CleanupOf, Usable, TypeOK, SessionRow
  <2>3. \A i \in Installations : flow[i] \notin oldSessions => flow'[i] = flow[i] /\ linked'[i] = linked[i]
    BY <2>1 DEF CleanupOf
  <2>4. \A x \in Sessions : Usable(x) => session[x].installation \in Installations
    BY DEF Owned, Open, Usable
  <2>. QED
    BY <2>2, <2>3, <2>4 DEF UsableIsCurrent
<1>9. CASE UNCHANGED <<session, flow, linked>>
  BY <1>9 DEF UsableIsCurrent, Usable
<1>. QED
  BY <1>1, <1>3, <1>4, <1>5, <1>6, <1>7, <1>8, <1>9
  DEF Next, Elsewhere, RotatePublicAccountRefresh, PrivacyRequest, vars

SessionInv == TypeOK /\ Owned /\ UsableIsCurrent

\* The inductive invariant.
THEOREM SessionInvariant == Spec => []SessionInv
<1>1. Init => SessionInv
  <2>1. Init => Owned /\ UsableIsCurrent
    BY DEF Init, Owned, Open, UsableIsCurrent, Usable, NoSession, NoToken
  <2>. QED
    BY <2>1, InitTyped DEF SessionInv
<1>2. SessionInv /\ [Next]_vars => SessionInv'
  BY StepTyped, StepOwned, StepCurrent DEF SessionInv
<1>. QED
  BY <1>1, <1>2, PTL DEF Spec

\* Whatever logins, rotations, replays, revocations, erasures and cleanups
\* happen, an installation has at most one usable session, its current one.
THEOREM OneCurrentSession == Spec => []UsableIsCurrent
BY SessionInvariant, PTL DEF SessionInv

-----------------------------------------------------------------------------
\* A session that is over or closed is not usable after any step, and gets no
\* capability: those are issued to an absent session and to an active one.
LEMMA StepKeepsClosed ==
    ASSUME TypeOK, Owned, [Next]_vars, NEW x \in Sessions, session[x].state # "absent", ~Usable(x)
    PROVE  ~Usable(x)' /\ \A t \in Tokens : token'[t].session = x => token[t].session = x
<1>1. ASSUME NEW i \in Installations, NEW a \in Accounts, NEW y \in Sessions, NEW u \in Tokens,
             CompletePublicEmailChallenge(i, a, y, u)
      PROVE  ~Usable(x)' /\ \A t \in Tokens : token'[t].session = x => token[t].session = x
  <2>1. x # y
    BY <1>1 DEF CompletePublicEmailChallenge
  <2>2. session'[x] \in {session[x], Revoked(session[x])}
    BY <1>1, <2>1 DEF CompletePublicEmailChallenge
  <2>3. \A t \in Tokens : token'[t] = token[t] \/ token'[t].session = y
    BY <1>1 DEF CompletePublicEmailChallenge, TypeOK
  <2>. QED
    BY <2>1, <2>2, <2>3, RevokedRow DEF Usable, TypeOK
<1>2. ASSUME NEW t \in Tokens, NEW u \in Tokens, RotatePublicAccountRefresh(t, u)
      PROVE  ~Usable(x)' /\ \A v \in Tokens : token'[v].session = x => token[v].session = x
  <2>1. token[t].session # x
    BY <1>2 DEF RotatePublicAccountRefresh, Authorized, Usable
  <2>2. \A v \in Tokens : token'[v].session = token[v].session \/ token'[v].session = token[t].session
    BY <1>2 DEF RotatePublicAccountRefresh, TypeOK, TokenRow
  <2>. QED
    BY <1>2, <2>1, <2>2 DEF RotatePublicAccountRefresh, Usable
<1>3. ASSUME NEW y \in Sessions, session' = [session EXCEPT ![y] = Revoked(session[y])], UNCHANGED token
      PROVE  ~Usable(x)' /\ \A t \in Tokens : token'[t].session = x => token[t].session = x
  BY <1>3, RevokedRow DEF Usable, TypeOK
<1>4. ASSUME NEW t \in Tokens, ReplayRefresh(t)
      PROVE  ~Usable(x)' /\ \A v \in Tokens : token'[v].session = x => token[v].session = x
  <2>1. token[t].session \in Sessions
    BY <1>4 DEF ReplayRefresh, Owned
  <2>. QED
    BY <1>4, <2>1, <1>3 DEF ReplayRefresh
<1>5. ASSUME NEW y \in Sessions, RevokePublicAccountSession(y)
      PROVE  ~Usable(x)' /\ \A t \in Tokens : token'[t].session = x => token[t].session = x
  BY <1>5, <1>3 DEF RevokePublicAccountSession
<1>6. ASSUME NEW y \in Sessions, Expire(y)
      PROVE  ~Usable(x)' /\ \A t \in Tokens : token'[t].session = x => token[t].session = x
  BY <1>6 DEF Expire, Usable, TypeOK, SessionRow
<1>7. ASSUME NEW gone, EraseSessions(gone)
      PROVE  ~Usable(x)' /\ \A t \in Tokens : token'[t].session = x => token[t].session = x
  <2>1. ~Usable(x)'
    BY <1>7 DEF EraseSessions, NoSession, Usable
  <2>2. \A t \in Tokens : token'[t].session = token[t].session
    BY <1>7 DEF EraseSessions, TypeOK, TokenRow
  <2>. QED
    BY <2>1, <2>2
<1>8. CASE CleanupPublicAccountState
  <2>1. PICK oldTokens, oldSessions : CleanupOf(oldTokens, oldSessions)
    BY <1>8, CleanupTakes
  <2>2. ~Usable(x)'
    BY <2>1 DEF CleanupOf, Usable, TypeOK, SessionRow
  <2>3. \A t \in Tokens : token'[t] = IF t \in oldTokens THEN [token[t] EXCEPT !.state = "deleted"] ELSE token[t]
    BY <2>1 DEF CleanupOf
  <2>4. \A t \in Tokens : token'[t].session = token[t].session
    BY <2>3 DEF TypeOK, TokenRow
  <2>. QED
    BY <2>2, <2>4
<1>9. CASE UNCHANGED <<session, token>>
  BY <1>9 DEF Usable
<1>. QED
  BY <1>1, <1>2, <1>4, <1>5, <1>6, <1>7, <1>8, <1>9
  DEF Next, Elsewhere, EraseInstallation, ErasePerson, PrivacyRequest, vars

\* A family that was closed, by its owner, a replay, a new login, erasure or
\* time, never yields another capability.
THEOREM ClosedForGood == Spec => ClosedStaysClosed
<1>1. SessionInv /\ [Next]_vars =>
        [\A x \in Sessions : (session[x].state # "absent" /\ ~Usable(x)) =>
             /\ ~Usable(x)'
             /\ \A t \in Tokens : token'[t].session = x => token[t].session = x]_vars
  BY StepKeepsClosed DEF SessionInv
<1>. QED
  BY <1>1, SessionInvariant, PTL DEF Spec, ClosedStaysClosed

\* A capability is new only after a login or a rotation, and both look for open
\* requests of the account and of the installation.
LEMMA StepFenced ==
    ASSUME TypeOK, Owned, [Next]_vars, NEW t \in Tokens, token[t].state = "absent", token'[t].state = "unused"
    PROVE  LET row == session'[token'[t].session]
           IN  subject[row.account] = "live" /\ subject[row.installation] = "live"
<1>1. ASSUME NEW i \in Installations, NEW a \in Accounts, NEW x \in Sessions, NEW u \in Tokens,
             CompletePublicEmailChallenge(i, a, x, u)
      PROVE  LET row == session'[token'[t].session]
             IN  subject[row.account] = "live" /\ subject[row.installation] = "live"
  <2>1. subject[a] = "live" /\ subject[i] = "live"
    BY <1>1 DEF CompletePublicEmailChallenge, DeletionPending, TypeOK
  <2>2. token'[t].session = x
    BY <1>1 DEF CompletePublicEmailChallenge, TypeOK
  <2>3. session'[x].account = a /\ session'[x].installation = i
    BY <1>1 DEF CompletePublicEmailChallenge
  <2>. QED
    BY <2>1, <2>2, <2>3
<1>2. ASSUME NEW v \in Tokens, NEW u \in Tokens, RotatePublicAccountRefresh(v, u)
      PROVE  LET row == session'[token'[t].session]
             IN  subject[row.account] = "live" /\ subject[row.installation] = "live"
  <2> DEFINE x == token[v].session
  <2>1. x \in Sessions /\ Authorized(x) /\ session' = session
    BY <1>2 DEF RotatePublicAccountRefresh, Owned
  <2>2. token'[t].session = x
    BY <1>2 DEF RotatePublicAccountRefresh, TypeOK, TokenRow
  <2> HIDE DEF x
  <2>3. session[x].account \in Accounts /\ session[x].installation \in Installations
    BY <2>1 DEF Authorized, Owned, Open
  <2>. QED
    BY <2>1, <2>2, <2>3 DEF Authorized, DeletionPending, TypeOK
<1>3. ASSUME NEW gone, EraseSessions(gone)
      PROVE  FALSE
  BY <1>3 DEF EraseSessions, TypeOK, TokenRow
<1>4. CASE CleanupPublicAccountState
  <2>1. PICK oldTokens, oldSessions : CleanupOf(oldTokens, oldSessions)
    BY <1>4, CleanupTakes
  <2>. QED
    BY <2>1 DEF CleanupOf
<1>5. CASE UNCHANGED token
  BY <1>5
<1>. QED
  BY <1>1, <1>2, <1>3, <1>4, <1>5
  DEF Next, Elsewhere, EraseInstallation, ErasePerson, PrivacyRequest, ReplayRefresh,
      RevokePublicAccountSession, Expire, vars

\* While a deletion request is open no session begins and no capability is
\* issued for its account or installation.
THEOREM DeletionIsFence == Spec => DeletionFences
<1>1. SessionInv /\ [Next]_vars =>
        [\A t \in Tokens : (token[t].state = "absent" /\ token'[t].state = "unused") =>
          LET row == session'[token'[t].session]
          IN  subject[row.account] = "live" /\ subject[row.installation] = "live"]_vars
  BY StepFenced DEF SessionInv
<1>. QED
  BY <1>1, SessionInvariant, PTL DEF Spec, DeletionFences

-----------------------------------------------------------------------------
(***************************************************************************)
(* Families of capabilities.  OneUnusedToken counts; what the steps keep   *)
(* is that a usable session has one capability that is its unused one, and *)
(* that a session nobody opened yet has none.  A capability is deleted     *)
(* with its session or after its session is over, and neither is ever      *)
(* usable again (StepKeepsClosed).                                         *)
(***************************************************************************)
UnusedOf(x, t) == token[t].session = x /\ token[t].state = "unused"

NextToken ==
    \A x \in Sessions : Usable(x) => \E t \in Tokens : \A u \in Tokens : UnusedOf(x, u) <=> u = t

NoEarlyToken ==
    \A t \in Tokens : token[t].session \in Sessions => session[token[t].session].state # "absent"

FamilyInv == NoEarlyToken /\ NextToken /\ ReplayBarrier

\* Capabilities belong to sessions that were opened.
LEMMA StepNoEarly == TypeOK /\ Owned /\ NoEarlyToken /\ [Next]_vars => NoEarlyToken'
<1> SUFFICES ASSUME TypeOK, Owned, NoEarlyToken, [Next]_vars PROVE NoEarlyToken'
  OBVIOUS
<1>1. ASSUME \A y \in Sessions : session[y].state # "absent" => session'[y].state # "absent",
             \A t \in Tokens : token'[t].session = token[t].session
      PROVE  NoEarlyToken'
  BY <1>1 DEF NoEarlyToken
<1>2. ASSUME NEW i \in Installations, NEW a \in Accounts, NEW x \in Sessions, NEW t \in Tokens,
             CompletePublicEmailChallenge(i, a, x, t)
      PROVE  NoEarlyToken'
  <2>1. \A y \in Sessions \ {x} : session'[y] \in {session[y], Revoked(session[y])} /\ session[y] \in SessionRow
    BY <1>2 DEF CompletePublicEmailChallenge, TypeOK
  <2>2. \A y \in Sessions : session[y].state # "absent" \/ y = x => session'[y].state # "absent"
    BY <1>2, <2>1, RevokedRow DEF CompletePublicEmailChallenge
  <2>3. \A u \in Tokens : token'[u] = IF u = t THEN [state |-> "unused", session |-> x] ELSE token[u]
    BY <1>2 DEF CompletePublicEmailChallenge, TypeOK
  <2>. QED
    BY <2>2, <2>3 DEF NoEarlyToken
<1>3. ASSUME NEW t \in Tokens, NEW u \in Tokens, RotatePublicAccountRefresh(t, u)
      PROVE  NoEarlyToken'
  <2>1. \A v \in Tokens : token'[v].session = token[v].session \/ token'[v].session = token[t].session
    BY <1>3 DEF RotatePublicAccountRefresh, TypeOK, TokenRow
  <2>. QED
    BY <1>3, <2>1 DEF RotatePublicAccountRefresh, NoEarlyToken
<1>4. ASSUME NEW x \in Sessions, session' = [session EXCEPT ![x] = Revoked(session[x])], UNCHANGED token
      PROVE  NoEarlyToken'
  <2>1. \A y \in Sessions : session[y].state # "absent" => session'[y].state # "absent"
    BY <1>4, RevokedRow DEF TypeOK
  <2>. QED
    BY <1>1, <1>4, <2>1
<1>5. ASSUME NEW t \in Tokens, ReplayRefresh(t)
      PROVE  NoEarlyToken'
  <2>1. token[t].session \in Sessions
    BY <1>5 DEF ReplayRefresh, Owned
  <2>. QED
    BY <1>5, <2>1, <1>4 DEF ReplayRefresh
<1>6. ASSUME NEW x \in Sessions, RevokePublicAccountSession(x)
      PROVE  NoEarlyToken'
  BY <1>6, <1>4 DEF RevokePublicAccountSession
<1>7. ASSUME NEW x \in Sessions, Expire(x)
      PROVE  NoEarlyToken'
  <2>1. \A y \in Sessions : session[y].state # "absent" => session'[y].state # "absent"
    BY <1>7 DEF Expire, TypeOK, SessionRow
  <2>. QED
    BY <1>1, <1>7, <2>1 DEF Expire
<1>8. ASSUME NEW gone, EraseSessions(gone)
      PROVE  NoEarlyToken'
  <2>1. \A y \in Sessions : session[y].state # "absent" => session'[y].state # "absent"
    BY <1>8 DEF EraseSessions, NoSession
  <2>2. \A t \in Tokens : token'[t].session = token[t].session
    BY <1>8 DEF EraseSessions, TypeOK, TokenRow
  <2>. QED
    BY <1>1, <2>1, <2>2
<1>9. CASE CleanupPublicAccountState
  <2>1. PICK oldTokens, oldSessions : CleanupOf(oldTokens, oldSessions)
    BY <1>9, CleanupTakes
  <2>2. \A y \in Sessions : session[y].state # "absent" => session'[y].state # "absent"
    BY <2>1, ZenonT(60) DEF CleanupOf, TypeOK, SessionRow
  <2>3. \A t \in Tokens : token'[t] = IF t \in oldTokens THEN [token[t] EXCEPT !.state = "deleted"] ELSE token[t]
    BY <2>1 DEF CleanupOf
  <2>4. \A t \in Tokens : token'[t].session = token[t].session
    BY <2>3 DEF TypeOK, TokenRow
  <2>. QED
    BY <1>1, <2>2, <2>4
<1>10. CASE UNCHANGED <<session, token>>
  BY <1>10 DEF NoEarlyToken
<1>. QED
  BY <1>2, <1>3, <1>5, <1>6, <1>7, <1>8, <1>9, <1>10
  DEF Next, Elsewhere, EraseInstallation, ErasePerson, PrivacyRequest, vars

\* A step that changes neither the family of a session nor opens it leaves its
\* unused capability alone.
LEMMA FamilyKept ==
    ASSUME NextToken, NEW x \in Sessions, Usable(x),
           \A u \in Tokens : UnusedOf(x, u)' <=> UnusedOf(x, u)
    PROVE  \E t \in Tokens : \A u \in Tokens : UnusedOf(x, u)' <=> u = t
BY DEF NextToken

\* A usable family has its one unused capability after every step: login begins
\* a family with one, rotation trades one for one, and whatever deletes
\* capabilities leaves those of usable sessions.
LEMMA StepNextToken == TypeOK /\ Owned /\ NoEarlyToken /\ NextToken /\ [Next]_vars => NextToken'
<1> SUFFICES ASSUME TypeOK, Owned, NoEarlyToken, NextToken, [Next]_vars, NEW x \in Sessions, Usable(x)'
             PROVE  \E t \in Tokens : \A u \in Tokens : UnusedOf(x, u)' <=> u = t
  BY DEF NextToken
<1> DEFINE Goal == \E t \in Tokens : \A u \in Tokens : UnusedOf(x, u)' <=> u = t
<1>1. ASSUME NEW i \in Installations, NEW a \in Accounts, NEW y \in Sessions, NEW t \in Tokens,
             CompletePublicEmailChallenge(i, a, y, t)
      PROVE  Goal
  <2>1. /\ \A u \in Tokens : token'[u] = IF u = t THEN [state |-> "unused", session |-> y] ELSE token[u]
        /\ token[t].state = "absent" /\ session[y].state = "absent"
    BY <1>1 DEF CompletePublicEmailChallenge, TypeOK
  <2>2. CASE x = y
    <3>1. \A u \in Tokens : token[u].session # x
      BY <2>1, <2>2 DEF NoEarlyToken
    <3>2. \A u \in Tokens : UnusedOf(x, u)' <=> u = t
      BY <2>1, <2>2, <3>1 DEF UnusedOf
    <3>. QED
      BY <3>2
  <2>3. CASE x # y
    <3>1. session'[x] \in {session[x], Revoked(session[x])} /\ session[x] \in SessionRow
      BY <1>1, <2>3 DEF CompletePublicEmailChallenge, TypeOK
    <3>2. Usable(x)
      BY <3>1, RevokedRow DEF Usable
    <3>3. \A u \in Tokens : UnusedOf(x, u)' <=> UnusedOf(x, u)
      BY <2>1, <2>3 DEF UnusedOf
    <3>. QED
      BY <3>2, <3>3, FamilyKept
  <2>. QED
    BY <2>2, <2>3
<1>2. ASSUME NEW t \in Tokens, NEW v \in Tokens, RotatePublicAccountRefresh(t, v)
      PROVE  Goal
  <2>1. /\ token' = [token EXCEPT ![t] = [token[t] EXCEPT !.state = "used"],
                                  ![v] = [state |-> "unused", session |-> token[t].session]]
        /\ token[t].state = "unused" /\ token[v].state = "absent" /\ session' = session
    BY <1>2 DEF RotatePublicAccountRefresh
  <2>2. /\ token'[v].session = token[t].session /\ token'[v].state = "unused"
        /\ token'[t].state = "used"
        /\ \A u \in Tokens \ {t, v} : token'[u] = token[u]
    BY <2>1 DEF TypeOK, TokenRow
  <2>3. Usable(x)
    BY <2>1 DEF Usable
  <2>4. CASE token[t].session = x
    <3>1. \A u \in Tokens : UnusedOf(x, u) <=> u = t
      BY <2>1, <2>3, <2>4 DEF NextToken, UnusedOf
    <3>2. \A u \in Tokens : UnusedOf(x, u)' <=> u = v
      BY <2>1, <2>2, <2>4, <3>1 DEF UnusedOf
    <3>. QED
      BY <3>2
  <2>5. CASE token[t].session # x
    <3>1. \A u \in Tokens : UnusedOf(x, u)' <=> UnusedOf(x, u)
      BY <2>1, <2>2, <2>5 DEF UnusedOf
    <3>. QED
      BY <2>3, <3>1, FamilyKept
  <2>. QED
    BY <2>4, <2>5
<1>3. ASSUME NEW y \in Sessions, session' = [session EXCEPT ![y] = Revoked(session[y])], UNCHANGED token
      PROVE  Goal
  <2>1. Usable(x)
    BY <1>3, RevokedRow DEF Usable, TypeOK
  <2>. QED
    BY <1>3, <2>1, FamilyKept DEF UnusedOf
<1>4. ASSUME NEW t \in Tokens, ReplayRefresh(t)
      PROVE  Goal
  <2>1. token[t].session \in Sessions
    BY <1>4 DEF ReplayRefresh, Owned
  <2>. QED
    BY <1>4, <2>1, <1>3 DEF ReplayRefresh
<1>5. ASSUME NEW y \in Sessions, RevokePublicAccountSession(y)
      PROVE  Goal
  BY <1>5, <1>3 DEF RevokePublicAccountSession
<1>6. ASSUME NEW y \in Sessions, Expire(y)
      PROVE  Goal
  <2>1. Usable(x)
    BY <1>6 DEF Expire, Usable, TypeOK, SessionRow
  <2>. QED
    BY <1>6, <2>1, FamilyKept DEF Expire, UnusedOf
<1>7. ASSUME NEW gone, EraseSessions(gone)
      PROVE  Goal
  <2>1. Usable(x) /\ x \notin gone
    BY <1>7 DEF EraseSessions, NoSession, Usable
  <2>2. \A u \in Tokens : UnusedOf(x, u)' <=> UnusedOf(x, u)
    BY <1>7, <2>1 DEF EraseSessions, UnusedOf, TypeOK, TokenRow
  <2>. QED
    BY <2>1, <2>2, FamilyKept
<1>8. CASE CleanupPublicAccountState
  <2>1. PICK oldTokens, oldSessions : CleanupOf(oldTokens, oldSessions)
    BY <1>8, CleanupTakes
  <2>2. Usable(x)
    BY <2>1 DEF CleanupOf, Usable, TypeOK, SessionRow
  <2>3. \A u \in Tokens : token'[u] = IF u \in oldTokens THEN [token[u] EXCEPT !.state = "deleted"] ELSE token[u]
    BY <2>1 DEF CleanupOf
  <2>4. \A u \in oldTokens : token[u].session # x
    BY <2>1, <2>2 DEF CleanupOf, Usable
  <2>5. \A u \in Tokens : UnusedOf(x, u)' <=> UnusedOf(x, u)
    BY <2>3, <2>4 DEF UnusedOf, TypeOK, TokenRow
  <2>. QED
    BY <2>2, <2>5, FamilyKept
<1>9. CASE UNCHANGED <<session, token>>
  <2>1. Usable(x)
    BY <1>9 DEF Usable
  <2>. QED
    BY <1>9, <2>1, FamilyKept DEF UnusedOf
<1>. QED
  BY <1>1, <1>2, <1>4, <1>5, <1>6, <1>7, <1>8, <1>9
  DEF Next, Elsewhere, EraseInstallation, ErasePerson, PrivacyRequest, vars

\* A capability is deleted with its session or after its session is over, and
\* stays deleted for a session that is not usable again.
LEMMA StepBarrier == TypeOK /\ Owned /\ NoEarlyToken /\ ReplayBarrier /\ [Next]_vars => ReplayBarrier'
<1> SUFFICES ASSUME TypeOK, Owned, NoEarlyToken, ReplayBarrier, [Next]_vars,
                    NEW t \in Tokens, token'[t].state = "deleted"
             PROVE  ~Usable(token[t].session)'
  BY DEF ReplayBarrier, Usable
<1>1. ASSUME token[t].state = "deleted", token'[t].session = token[t].session
      PROVE  ~Usable(token[t].session)'
  <2>1. token[t].session \in Sessions /\ session[token[t].session].state # "absent" /\ ~Usable(token[t].session)
    BY <1>1 DEF Owned, NoEarlyToken, ReplayBarrier
  <2>. QED
    BY <1>1, <2>1, StepKeepsClosed DEF Usable
<1>2. ASSUME NEW i \in Installations, NEW a \in Accounts, NEW x \in Sessions, NEW u \in Tokens,
             CompletePublicEmailChallenge(i, a, x, u)
      PROVE  ~Usable(token[t].session)'
  <2>1. token'[t] = token[t]
    BY <1>2 DEF CompletePublicEmailChallenge, TypeOK
  <2>. QED
    BY <1>1, <2>1
<1>3. ASSUME NEW v \in Tokens, NEW u \in Tokens, RotatePublicAccountRefresh(v, u)
      PROVE  ~Usable(token[t].session)'
  <2>1. token'[t] = token[t]
    BY <1>3 DEF RotatePublicAccountRefresh, TypeOK, TokenRow
  <2>. QED
    BY <1>1, <2>1
<1>4. ASSUME NEW gone \in SUBSET Sessions, EraseSessions(gone)
      PROVE  ~Usable(token[t].session)'
  <2>1. token'[t].session = token[t].session /\ (token[t].state = "deleted" \/ token[t].session \in gone)
    BY <1>4 DEF EraseSessions, TypeOK, TokenRow
  <2>2. CASE token[t].session \in gone
    BY <1>4, <2>1, <2>2 DEF EraseSessions, NoSession, Usable
  <2>. QED
    BY <1>1, <2>1, <2>2
<1>5. CASE CleanupPublicAccountState
  <2>1. PICK oldTokens, oldSessions : CleanupOf(oldTokens, oldSessions)
    BY <1>5, CleanupTakes
  <2>2. token'[t] = IF t \in oldTokens THEN [token[t] EXCEPT !.state = "deleted"] ELSE token[t]
    BY <2>1 DEF CleanupOf
  <2>3. token'[t].session = token[t].session
    BY <2>2 DEF TypeOK, TokenRow
  <2>4. CASE t \in oldTokens
    <3>1. token[t].session \in Sessions /\ session[token[t].session].over
      BY <2>1, <2>4 DEF CleanupOf, Owned
    <3>2. session'[token[t].session].over
      BY <2>1, <3>1, ZenonT(60) DEF CleanupOf, TypeOK, SessionRow
    <3>. QED
      BY <2>3, <3>2 DEF Usable
  <2>5. CASE t \notin oldTokens
    BY <1>1, <2>2, <2>5
  <2>. QED
    BY <2>4, <2>5
<1>6. CASE UNCHANGED token
  BY <1>1, <1>6
<1>7. ASSUME NEW i \in Installations, EraseInstallation(i)
      PROVE  ~Usable(token[t].session)'
  BY <1>4, <1>7 DEF EraseInstallation
<1>8. ASSUME NEW a \in Accounts, ErasePerson(a)
      PROVE  ~Usable(token[t].session)'
  BY <1>4, <1>8 DEF ErasePerson
<1>. QED
  BY <1>2, <1>3, <1>5, <1>6, <1>7, <1>8
  DEF Next, Elsewhere, PrivacyRequest, ReplayRefresh, RevokePublicAccountSession, Expire, vars

\* The inductive invariant of the families.
THEOREM FamilyInvariant == Spec => []FamilyInv
<1>1. Init => FamilyInv
  BY NoneAssumption
  DEF Init, FamilyInv, NoEarlyToken, NextToken, ReplayBarrier, Usable, NoSession, NoToken
<1>2. SessionInv /\ FamilyInv /\ [Next]_vars => FamilyInv'
  BY StepNoEarly, StepNextToken, StepBarrier DEF SessionInv, FamilyInv
<1>. QED
  BY <1>1, <1>2, SessionInvariant, PTL DEF Spec

\* One unused capability is what OneUnusedToken counts.
LEMMA NextTokenCounts == NextToken => OneUnusedToken
<1> SUFFICES ASSUME NextToken, NEW x \in Sessions, Usable(x)
             PROVE  Cardinality({t \in Tokens : token[t].session = x /\ token[t].state = "unused"}) = 1
  BY DEF OneUnusedToken
<1>1. PICK t \in Tokens : \A u \in Tokens : UnusedOf(x, u) <=> u = t
  BY DEF NextToken
<1>2. {u \in Tokens : token[u].session = x /\ token[u].state = "unused"} = {t}
  BY <1>1 DEF UnusedOf
<1>. QED
  BY <1>2, FS_Singleton

\* A usable family has exactly one capability to rotate next, whatever replays,
\* logins on other installations, erasures and cleanups happen.
THEOREM OneTokenToRotate == Spec => []OneUnusedToken
<1>1. FamilyInv => OneUnusedToken
  BY NextTokenCounts DEF FamilyInv
<1>. QED
  BY <1>1, FamilyInvariant, PTL

\* The record of a used capability outlives every session that could still be
\* used, so a replay is always seen.
THEOREM ReplayIsSeen == Spec => []ReplayBarrier
<1>1. FamilyInv => ReplayBarrier
  BY DEF FamilyInv
<1>. QED
  BY <1>1, FamilyInvariant, PTL

-----------------------------------------------------------------------------
(***************************************************************************)
(* What erasure leaves.  The four parts of ErasedLeavesNothing, of which    *)
(* the last needs one more fact: a flow points to a session of its own      *)
(* installation, so erasing an installation takes no other one's session.   *)
(***************************************************************************)
OwnersStand ==
    \A x \in Sessions : Open(x) =>
        subject[session[x].account] # "erased" /\ subject[session[x].installation] # "erased"

TokensStand ==
    \A t \in Tokens : token[t].state \in {"unused", "used"} =>
        Open(token[t].session) \/ session[token[t].session].over

LinksStand ==
    \A i \in Installations : linked[i] # None => subject[linked[i]] # "erased" /\ subject[i] # "erased"

FlowsStand ==
    \A i \in Installations : flow[i] # None => Open(flow[i]) /\ session[flow[i]].installation = i

ErasureInv == OwnersStand /\ TokensStand /\ LinksStand /\ FlowsStand

\* The parts are the whole.
LEMMA ErasureParts == ErasureInv => ErasedLeavesNothing
BY DEF ErasureInv, OwnersStand, TokensStand, LinksStand, FlowsStand, ErasedLeavesNothing, Open

\* Sessions open only for subjects that are not erased, and those of a subject
\* go when it is erased.
LEMMA StepOwnersStand == TypeOK /\ Owned /\ OwnersStand /\ [Next]_vars => OwnersStand'
<1> SUFFICES ASSUME TypeOK, Owned, OwnersStand, [Next]_vars PROVE OwnersStand'
  OBVIOUS
<1>1. ASSUME UNCHANGED subject,
             \A x \in Sessions : Open(x)' => /\ Open(x) /\ session'[x].account = session[x].account
                                             /\ session'[x].installation = session[x].installation
      PROVE  OwnersStand'
  BY <1>1 DEF OwnersStand
<1>2. ASSUME NEW i \in Installations, NEW a \in Accounts, NEW x \in Sessions, NEW t \in Tokens,
             CompletePublicEmailChallenge(i, a, x, t)
      PROVE  OwnersStand'
  <2>1. \A y \in Sessions \ {x} : session'[y] \in {session[y], Revoked(session[y])} /\ session[y] \in SessionRow
    BY <1>2 DEF CompletePublicEmailChallenge, TypeOK
  <2>2. session'[x].account = a /\ session'[x].installation = i
    BY <1>2 DEF CompletePublicEmailChallenge
  <2>3. subject[a] # "erased" /\ subject[i] # "erased" /\ subject' = subject
    BY <1>2 DEF CompletePublicEmailChallenge
  <2>4. \A y \in Sessions \ {x} : Open(y)' => /\ Open(y) /\ session'[y].account = session[y].account
                                              /\ session'[y].installation = session[y].installation
    BY <2>1, RevokedRow DEF Open
  <2>. QED
    BY <2>2, <2>3, <2>4 DEF OwnersStand
<1>3. ASSUME NEW x \in Sessions, session' = [session EXCEPT ![x] = Revoked(session[x])], UNCHANGED subject
      PROVE  OwnersStand'
  <2>1. \A y \in Sessions : session[y] \in SessionRow /\ session'[y] \in {session[y], Revoked(session[y])}
    BY <1>3 DEF TypeOK
  <2>. QED
    BY <1>1, <1>3, <2>1, RevokedRow DEF Open
<1>4. ASSUME NEW t \in Tokens, ReplayRefresh(t)
      PROVE  OwnersStand'
  <2>1. token[t].session \in Sessions
    BY <1>4 DEF ReplayRefresh, Owned
  <2>. QED
    BY <1>4, <2>1, <1>3 DEF ReplayRefresh
<1>5. ASSUME NEW x \in Sessions, RevokePublicAccountSession(x)
      PROVE  OwnersStand'
  BY <1>5, <1>3 DEF RevokePublicAccountSession
<1>6. ASSUME NEW x \in Sessions, Expire(x)
      PROVE  OwnersStand'
  BY <1>1, <1>6 DEF Expire, Open, TypeOK, SessionRow
<1>7. ASSUME NEW y \in Accounts \cup Installations, PrivacyRequest(y)
      PROVE  OwnersStand'
  <2>1. \A z \in Accounts \cup Installations : subject'[z] = "erased" => subject[z] = "erased"
    BY <1>7 DEF PrivacyRequest, TypeOK
  <2>2. \A x \in Sessions : Open(x)' => Open(x) /\ session'[x] = session[x]
    BY <1>7 DEF PrivacyRequest, Open
  <2>. QED
    BY <2>1, <2>2 DEF OwnersStand, Owned
<1>8. ASSUME NEW i \in Installations, EraseInstallation(i)
      PROVE  OwnersStand'
  <2>1. \A x \in Sessions : Open(x)' => session'[x] = session[x] /\ Open(x) /\ session[x].installation # i
    BY <1>8 DEF EraseInstallation, EraseSessions, NoSession, Open
  <2>2. \A y \in (Accounts \cup Installations) \ {i} : subject'[y] = subject[y]
    BY <1>8 DEF EraseInstallation, TypeOK
  <2>3. i \notin Accounts
    BY SubjectAssumption
  <2>. QED
    BY <2>1, <2>2, <2>3 DEF OwnersStand, Owned
<1>9. ASSUME NEW a \in Accounts, ErasePerson(a)
      PROVE  OwnersStand'
  <2> DEFINE devices == {i \in Installations : linked[i] = a}
  <2>1. \A x \in Sessions : Open(x)' => /\ session'[x] = session[x] /\ Open(x)
                                        /\ session[x].installation \notin devices /\ session[x].account # a
    BY <1>9 DEF ErasePerson, EraseSessions, NoSession, Open
  <2>2. \A y \in Accounts \cup Installations : y \notin devices \cup {a} => subject'[y] = subject[y]
    BY <1>9 DEF ErasePerson, TypeOK
  <2>3. \A i \in Installations : i # a
    BY SubjectAssumption
  <2>4. \A b \in Accounts : b \notin devices
    BY SubjectAssumption
  <2> HIDE DEF devices
  <2>. QED
    BY <2>1, <2>2, <2>3, <2>4 DEF OwnersStand, Owned
<1>10. CASE CleanupPublicAccountState
  <2>1. PICK oldTokens, oldSessions : CleanupOf(oldTokens, oldSessions)
    BY <1>10, CleanupTakes
  <2>2. \A x \in Sessions : Open(x)' => session'[x] = session[x] /\ Open(x)
    BY <2>1, ZenonT(60) DEF CleanupOf, Open, TypeOK, SessionRow
  <2>. QED
    BY <1>1, <2>1, <2>2 DEF CleanupOf
<1>11. CASE UNCHANGED <<session, subject>>
  BY <1>1, <1>11 DEF Open
<1>. QED
  BY <1>2, <1>4, <1>5, <1>6, <1>7, <1>8, <1>9, <1>10, <1>11
  DEF Next, Elsewhere, RotatePublicAccountRefresh, vars

\* Capabilities go with their session, or their session is over.
LEMMA StepTokensStand == TypeOK /\ Owned /\ TokensStand /\ [Next]_vars => TokensStand'
<1> SUFFICES ASSUME TypeOK, Owned, TokensStand, [Next]_vars PROVE TokensStand'
  OBVIOUS
<1> DEFINE Stands(x) == Open(x) \/ session[x].over
           Kept(t) == /\ token[t].state \in {"unused", "used"}
                      /\ token'[t].session = token[t].session
<1>1. ASSUME \A x \in Sessions : Stands(x) => Stands(x)',
             \A t \in Tokens : token'[t].state \in {"unused", "used"} => Kept(t)
      PROVE  TokensStand'
  BY <1>1 DEF TokensStand, Owned
<1>2. ASSUME NEW i \in Installations, NEW a \in Accounts, NEW x \in Sessions, NEW t \in Tokens,
             CompletePublicEmailChallenge(i, a, x, t)
      PROVE  TokensStand'
  <2>1. \A y \in Sessions \ {x} : session'[y] \in {session[y], Revoked(session[y])} /\ session[y] \in SessionRow
    BY <1>2 DEF CompletePublicEmailChallenge, TypeOK
  <2>2. Open(x)'
    BY <1>2 DEF CompletePublicEmailChallenge, Open
  <2>3. \A y \in Sessions : Stands(y) => Stands(y)'
    BY <2>1, <2>2, RevokedRow DEF Open
  <2>4. \A u \in Tokens : token'[u] = IF u = t THEN [state |-> "unused", session |-> x] ELSE token[u]
    BY <1>2 DEF CompletePublicEmailChallenge, TypeOK
  <2>. QED
    BY <2>2, <2>3, <2>4 DEF TokensStand, Owned
<1>3. ASSUME NEW t \in Tokens, NEW u \in Tokens, RotatePublicAccountRefresh(t, u)
      PROVE  TokensStand'
  <2>1. \A v \in Tokens : \/ token'[v].session = token[t].session
                          \/ token'[v] = token[v]
    BY <1>3 DEF RotatePublicAccountRefresh, TypeOK, TokenRow
  <2>2. Open(token[t].session) /\ session' = session
    BY <1>3 DEF RotatePublicAccountRefresh, Authorized, Open
  <2>. QED
    BY <2>1, <2>2 DEF TokensStand, Open
<1>4. ASSUME NEW x \in Sessions, session' = [session EXCEPT ![x] = Revoked(session[x])], UNCHANGED token
      PROVE  TokensStand'
  <2>1. \A y \in Sessions : session[y] \in SessionRow /\ session'[y] \in {session[y], Revoked(session[y])}
    BY <1>4 DEF TypeOK
  <2>2. \A y \in Sessions : Stands(y) => Stands(y)'
    BY <2>1, RevokedRow DEF Open
  <2>. QED
    BY <1>1, <1>4, <2>2
<1>5. ASSUME NEW t \in Tokens, ReplayRefresh(t)
      PROVE  TokensStand'
  <2>1. token[t].session \in Sessions
    BY <1>5 DEF ReplayRefresh, Owned
  <2>. QED
    BY <1>5, <2>1, <1>4 DEF ReplayRefresh
<1>6. ASSUME NEW x \in Sessions, RevokePublicAccountSession(x)
      PROVE  TokensStand'
  BY <1>6, <1>4 DEF RevokePublicAccountSession
<1>7. ASSUME NEW x \in Sessions, Expire(x)
      PROVE  TokensStand'
  <2>1. \A y \in Sessions : Stands(y) => Stands(y)'
    BY <1>7 DEF Expire, Open, TypeOK, SessionRow
  <2>. QED
    BY <1>1, <1>7, <2>1 DEF Expire
<1>8. ASSUME NEW gone, EraseSessions(gone)
      PROVE  TokensStand'
  <2>1. \A t \in Tokens : token'[t].state \in {"unused", "used"} => Kept(t) /\ token[t].session \notin gone
    BY <1>8 DEF EraseSessions, TypeOK, TokenRow
  <2>2. \A x \in Sessions : x \notin gone => session'[x] = session[x]
    BY <1>8 DEF EraseSessions
  <2>. QED
    BY <2>1, <2>2 DEF TokensStand, Owned, Open
<1>9. CASE CleanupPublicAccountState
  <2>1. PICK oldTokens, oldSessions : CleanupOf(oldTokens, oldSessions)
    BY <1>9, CleanupTakes
  <2>2. \A x \in Sessions : Stands(x) => Stands(x)'
    <3>1. \A x \in Sessions : session'[x].over = session[x].over
      BY <2>1 DEF CleanupOf, TypeOK, SessionRow
    <3>2. \A x \in Sessions : session[x].over \/ session'[x] = session[x]
      BY <2>1 DEF CleanupOf
    <3>. QED
      BY <3>1, <3>2 DEF Open
  <2>3. \A t \in Tokens : token'[t] = IF t \in oldTokens THEN [token[t] EXCEPT !.state = "deleted"] ELSE token[t]
    BY <2>1 DEF CleanupOf
  <2>4. \A t \in Tokens : token'[t].state \in {"unused", "used"} => Kept(t)
    BY <2>3 DEF TypeOK, TokenRow
  <2>. QED
    BY <1>1, <2>2, <2>4
<1>10. CASE UNCHANGED <<session, token>>
  BY <1>1, <1>10 DEF Open
<1>. QED
  BY <1>2, <1>3, <1>5, <1>6, <1>7, <1>8, <1>9, <1>10
  DEF Next, Elsewhere, EraseInstallation, ErasePerson, PrivacyRequest, vars

\* An installation is linked only while it and the account are there.
LEMMA StepLinksStand == TypeOK /\ LinksStand /\ [Next]_vars => LinksStand'
<1> SUFFICES ASSUME TypeOK, LinksStand, [Next]_vars PROVE LinksStand'
  OBVIOUS
<1>1. ASSUME NEW i \in Installations, NEW a \in Accounts, NEW x \in Sessions, NEW t \in Tokens,
             CompletePublicEmailChallenge(i, a, x, t)
      PROVE  LinksStand'
  BY <1>1 DEF CompletePublicEmailChallenge, LinksStand, TypeOK
<1>2. ASSUME NEW y \in Accounts \cup Installations, PrivacyRequest(y)
      PROVE  LinksStand'
  <2>1. \A z \in Accounts \cup Installations : subject'[z] = "erased" => subject[z] = "erased"
    BY <1>2 DEF PrivacyRequest, TypeOK
  <2>2. linked' = linked /\ \A i \in Installations : linked[i] # None => linked[i] \in Accounts
    BY <1>2 DEF PrivacyRequest, TypeOK
  <2>. QED
    BY <2>1, <2>2 DEF LinksStand
<1>3. ASSUME NEW i \in Installations, EraseInstallation(i)
      PROVE  LinksStand'
  <2>1. \A y \in (Accounts \cup Installations) \ {i} : subject'[y] = subject[y]
    BY <1>3 DEF EraseInstallation, TypeOK
  <2>2. /\ linked'[i] = None /\ \A j \in Installations \ {i} : linked'[j] = linked[j]
        /\ \A j \in Installations : linked[j] # None => linked[j] \in Accounts
    BY <1>3 DEF EraseInstallation, TypeOK
  <2>. QED
    BY <2>1, <2>2, SubjectAssumption DEF LinksStand
<1>4. ASSUME NEW a \in Accounts, ErasePerson(a)
      PROVE  LinksStand'
  <2>1. \A j \in Installations : linked'[j] # None =>
            /\ linked'[j] = linked[j] /\ linked[j] # a /\ linked[j] \in Accounts
    BY <1>4 DEF ErasePerson, TypeOK
  <2>2. \A y \in Accounts \cup Installations : y # a /\ (y \in Installations => linked[y] # a) =>
            subject'[y] = subject[y]
    BY <1>4 DEF ErasePerson, TypeOK
  <2>3. \A j \in Installations, b \in Accounts : j # b
    BY SubjectAssumption
  <2>. QED
    BY <2>1, <2>2, <2>3 DEF LinksStand
<1>5. CASE UNCHANGED <<linked, subject>>
  BY <1>5 DEF LinksStand
<1>. QED
  BY <1>1, <1>2, <1>3, <1>4, <1>5
  DEF Next, Elsewhere, RotatePublicAccountRefresh, ReplayRefresh, RevokePublicAccountSession, Expire,
      CleanupPublicAccountState, vars

\* A flow points to an open session of its installation: it moves with a login
\* and is cleared with the session's row.
LEMMA StepFlowsStand == TypeOK /\ Owned /\ FlowsStand /\ [Next]_vars => FlowsStand'
<1> SUFFICES ASSUME TypeOK, Owned, FlowsStand, [Next]_vars PROVE FlowsStand'
  OBVIOUS
<1> DEFINE Alike(x) == /\ Open(x) => Open(x)'
                       /\ session'[x].installation = session[x].installation
<1>1. ASSUME \A i \in Installations : flow'[i] # None => flow'[i] = flow[i] /\ Alike(flow[i])
      PROVE  FlowsStand'
  BY <1>1 DEF FlowsStand, Open
<1>2. \A i \in Installations : flow[i] # None => flow[i] \in Sessions
  BY DEF TypeOK
<1>3. ASSUME NEW i \in Installations, NEW a \in Accounts, NEW x \in Sessions, NEW t \in Tokens,
             CompletePublicEmailChallenge(i, a, x, t)
      PROVE  FlowsStand'
  <2>1. \A y \in Sessions \ {x} : session'[y] \in {session[y], Revoked(session[y])} /\ session[y] \in SessionRow
    BY <1>3 DEF CompletePublicEmailChallenge, TypeOK
  <2>2. \A y \in Sessions \ {x} : Alike(y)
    BY <2>1, RevokedRow DEF Open
  <2>3. Open(x)' /\ session'[x].installation = i /\ ~Open(x)
    BY <1>3 DEF CompletePublicEmailChallenge, Open
  <2>4. flow'[i] = x /\ \A j \in Installations \ {i} : flow'[j] = flow[j]
    BY <1>3 DEF CompletePublicEmailChallenge, TypeOK
  <2>5. \A j \in Installations \ {i} : flow'[j] # None => flow[j] \in Sessions \ {x}
    BY <2>3, <2>4, <1>2 DEF FlowsStand
  <2>. QED
    BY <2>2, <2>3, <2>4, <2>5 DEF FlowsStand, Open
<1>4. ASSUME NEW x \in Sessions, session' = [session EXCEPT ![x] = Revoked(session[x])], UNCHANGED flow
      PROVE  FlowsStand'
  <2>1. \A y \in Sessions : session[y] \in SessionRow /\ session'[y] \in {session[y], Revoked(session[y])}
    BY <1>4 DEF TypeOK
  <2>2. \A y \in Sessions : Alike(y)
    BY <2>1, RevokedRow DEF Open
  <2>. QED
    BY <1>1, <1>2, <1>4, <2>2
<1>5. ASSUME NEW t \in Tokens, ReplayRefresh(t)
      PROVE  FlowsStand'
  <2>1. token[t].session \in Sessions
    BY <1>5 DEF ReplayRefresh, Owned
  <2>. QED
    BY <1>5, <2>1, <1>4 DEF ReplayRefresh
<1>6. ASSUME NEW x \in Sessions, RevokePublicAccountSession(x)
      PROVE  FlowsStand'
  BY <1>6, <1>4 DEF RevokePublicAccountSession
<1>7. ASSUME NEW x \in Sessions, Expire(x)
      PROVE  FlowsStand'
  <2>1. \A y \in Sessions : Alike(y)
    BY <1>7 DEF Expire, Open, TypeOK, SessionRow
  <2>. QED
    BY <1>1, <1>2, <1>7, <2>1 DEF Expire
<1>8. ASSUME NEW i \in Installations, EraseInstallation(i)
      PROVE  FlowsStand'
  <2>1. \A x \in Sessions : session[x].installation # i => session'[x] = session[x]
    BY <1>8 DEF EraseInstallation, EraseSessions
  <2>2. flow'[i] = None /\ \A j \in Installations \ {i} : flow'[j] = flow[j]
    BY <1>8 DEF EraseInstallation, TypeOK
  <2>. QED
    BY <1>2, <2>1, <2>2 DEF FlowsStand, Open
<1>9. ASSUME NEW a \in Accounts, ErasePerson(a)
      PROVE  FlowsStand'
  <2> DEFINE devices == {i \in Installations : linked[i] = a}
             gone == {x \in Sessions : session[x].installation \in devices \/ session[x].account = a}
  <2>1. \A x \in Sessions : x \notin gone => session'[x] = session[x]
    BY <1>9 DEF ErasePerson, EraseSessions
  <2>2. \A i \in Installations : flow'[i] # None => flow'[i] = flow[i] /\ flow[i] \notin gone
    BY <1>9 DEF ErasePerson
  <2> HIDE DEF gone
  <2>. QED
    BY <1>1, <1>2, <2>1, <2>2 DEF Open
<1>10. CASE CleanupPublicAccountState
  <2>1. PICK oldTokens, oldSessions : CleanupOf(oldTokens, oldSessions)
    BY <1>10, CleanupTakes
  <2>2. \A x \in Sessions : x \notin oldSessions => session'[x] = session[x]
    BY <2>1 DEF CleanupOf
  <2>3. \A i \in Installations : flow'[i] # None => flow'[i] = flow[i] /\ flow[i] \notin oldSessions
    BY <2>1 DEF CleanupOf
  <2>. QED
    BY <1>1, <1>2, <2>2, <2>3 DEF Open
<1>11. CASE UNCHANGED <<session, flow>>
  BY <1>1, <1>11 DEF Open
<1>. QED
  BY <1>3, <1>5, <1>6, <1>7, <1>8, <1>9, <1>10, <1>11
  DEF Next, Elsewhere, RotatePublicAccountRefresh, PrivacyRequest, vars

\* The parts are inductive with SessionInv.
THEOREM ErasureInvariant == Spec => []ErasureInv
<1>1. Init => ErasureInv
  BY DEF Init, ErasureInv, OwnersStand, TokensStand, LinksStand, FlowsStand, Open, NoSession, NoToken
<1>2. SessionInv /\ ErasureInv /\ [Next]_vars => ErasureInv'
  BY StepOwnersStand, StepTokensStand, StepLinksStand, StepFlowsStand DEF SessionInv, ErasureInv
<1>. QED
  BY <1>1, <1>2, SessionInvariant, PTL DEF Spec

\* After an erasure nothing of the account or the installation is left, and
\* nothing comes back later: no session, no link, and no capability except of a
\* session that has expired: cleanup may delete such a session before its
\* capabilities, and erasure finds capabilities by the sessions that are there.
THEOREM NothingLeft == Spec => []ErasedLeavesNothing
BY ErasureInvariant, ErasureParts, PTL
=============================================================================
