--------------------- MODULE IdentityRegistrationProofs ---------------------
(***************************************************************************)
(* Proofs about IdentityRegistration, for any number of instances, emails, *)
(* key versions, persons, installations and verifications.                 *)
(*                                                                         *)
(* The invariant is built in layers.  Shape gives every table and every    *)
(* request under way its type, and Rows ties a verification to its         *)
(* installation.  Keys says what staged deployments guarantee: every       *)
(* instance knows the key any instance writes with, and every key an index *)
(* row was written with.  With it a lookup that finds nothing means that   *)
(* nobody has the email.  That an email belongs to one person is the only  *)
(* part of Directory that needs it; that indexes and identities lead to    *)
(* each other, and with it the evidence, the aliases and what an erasure   *)
(* leaves, holds for every choice of Deployments.                          *)
(*                                                                         *)
(* The tables are written in three ways only: by a registration            *)
(* (Registers), by an erasure (Erases) and by the steps that leave the     *)
(* directory alone.  Each layer is proved once for each of these.          *)
(***************************************************************************)
EXTENDS IdentityRegistration, SequenceTheorems, WellFoundedInduction, TLAPS

-----------------------------------------------------------------------------
(* Types. *)

VerificationRow == [state : {"new", "open", "gone"}, email : Emails \cup {None},
                    installation : Installations \cup {None}, index : 0..MaxVersion,
                    expires : 0..(Horizon + TTL), verified : BOOLEAN,
                    token : Instances \cup {None}, at : 0..Horizon]
AuditRow == [person : Persons \cup {None}, installation : Installations \cup {None}]
InstallationRow == [state : {"absent", "active", "disabled"}, person : Persons \cup {None}]
AliasRow == [present : BOOLEAN, person : Persons \cup {None}]
Call == [stage : {"idle", "claimed", "releasing", "alias"},
         verification : Verifications \cup {None}, todo : Seq(Subjects)]

VerificationTyped == verification \in [Verifications -> VerificationRow]
DirectoryTyped ==
    /\ person \in [Persons -> {"absent", "live", "deleted"}]
    /\ account \in [Persons -> {"none", "active", "deleted"}]
    /\ identity \in [Persons -> Emails \cup {None}]
    /\ blind \in [Emails -> [Versions -> Persons \cup {None}]]
LinksTyped ==
    /\ audit \in [Verifications -> AuditRow]
    /\ installation \in [Installations -> InstallationRow]
    /\ alias \in [Subjects -> AliasRow]
CallsTyped ==
    /\ keyring \in [Instances -> Keyrings] /\ staged \in BOOLEAN
    /\ call \in [Instances -> Call]
    /\ \A i \in Instances :
          /\ call[i].stage \in {"claimed", "releasing"} => call[i].verification \in Verifications
          /\ call[i].stage = "alias" => call[i].todo # <<>>

Types == now \in 0..Horizon /\ VerificationTyped /\ DirectoryTyped /\ LinksTyped /\ CallsTyped

\* A verification is open while it has an installation or a holder, and the
\* installation it names is active: erasing one erases its verifications.
Rows == \A v \in Verifications :
    /\ verification[v].state = "open" => verification[v].email \in Emails
    /\ verification[v].state # "open" => verification[v].token = None /\ verification[v].installation = None
    /\ verification[v].installation # None => installation[verification[v].installation].state = "active"

Shape == Types /\ Rows

\* While the deployments are staged, a key is current somewhere only when it is
\* known everywhere, and no instance lacks a key an index row was written with.
Keys == staged =>
    /\ Staged
    /\ \A e \in Emails, k \in Versions : blind[e][k] # None => \A i \in Instances : k \in keyring[i].known

\* A person nobody registered has no identity, and the two invariants of the runs.
Directory ==
    /\ \A p \in Persons : person[p] = "absent" => identity[p] = None
    /\ \A p \in Persons : person[p] = "deleted" => identity[p] = None
    /\ OnePersonPerEmail
    /\ IndexesFindIdentity

-----------------------------------------------------------------------------
(* The three ways the tables are written. *)

\* A registration of the email e for person p, on the verification v that the
\* instance i has claimed; k is the key it writes the index with.
Registers(i, v, e, n, k, p) ==
    /\ call[i].stage = "claimed" /\ v = call[i].verification
    /\ verification[v].state = "open" /\ verification[v].token = i
    /\ e = verification[v].email /\ n = verification[v].installation
    /\ k = keyring[i].current
    /\ linkInstallation(n, p)
    /\ person' = [person EXCEPT ![p] = "live"]
    /\ identity' = [identity EXCEPT ![p] = e]
    /\ account' \in {account, [account EXCEPT ![p] = "active"]}
    /\ account'[p] # account[p] => account[p] = "none"
    /\ blind' = [blind EXCEPT ![e][k] = p]
    /\ installation' = IF n = None THEN installation ELSE [installation EXCEPT ![n].person = p]
    /\ alias' = AliasesLinked(n, p)
    /\ audit' = [audit EXCEPT ![v] = [person |-> p, installation |-> n]]
    /\ verification' = [verification EXCEPT ![v] = Gone]
    /\ \E c \in Call : /\ call' = [call EXCEPT ![i] = c]
                       /\ (c.stage = "alias" /\ c.todo # <<>>) \/ (c.stage = "releasing" /\ c.verification = v)
    /\ UNCHANGED <<now, keyring, staged>>

\* What the lookup established: the index is free or p's, and while the
\* deployments are staged p is nobody's rival for the email.
Owns(e, k, p) ==
    /\ person[p] # "deleted"
    /\ identity[p] \in {None, e}
    /\ staged => \A q \in Persons : identity[q] = e => q = p
    /\ blind[e][k] \in {None, p}

\* An erasure of the persons P, their installations N and the identities R.
Erases(N, P, R) ==
    /\ N \subseteq Installations /\ P \subseteq Persons /\ R \subseteq P
    /\ \A n \in Installations : installation[n].person \in P => n \in N
    /\ EraseRecords(N, P, R)
    /\ \A p \in P : person[p] # "absent"
    /\ \/ UNCHANGED <<person, account>>
       \/ \E p \in Persons : /\ P = {p} /\ R = {p}
                             /\ person' = [person EXCEPT ![p] = "deleted"]
                             /\ account' = [account EXCEPT ![p] = IF @ = "none" THEN @ ELSE "deleted"]
    /\ UNCHANGED <<now, keyring, staged, call>>

-----------------------------------------------------------------------------
(* The smallest key under which an email is found. *)

\* A set of numbers that is not empty has a least element.
LEMMA Least ==
    ASSUME NEW T \in SUBSET Nat, T # {}
    PROVE  \E x \in T : \A y \in T : x <= y
<1>1. PICK x \in T : \A y \in T : ~(<<y, x>> \in OpToRel(<, Nat))
  BY NatLessThanWellFounded, WFMin
<1>2. ASSUME NEW y \in T PROVE x <= y
  <2>1. x \in Nat /\ y \in Nat
    OBVIOUS
  <2>2. ~(y < x)
    BY <1>1, <2>1 DEF OpToRel
  <2>. QED
    BY <2>1, <2>2
<1>. QED
  BY <1>2

\* The version registerEmailIdentityTx takes is one under which the email is found.
LEMMA MatchedIsHit ==
    ASSUME CallsTyped, NEW i \in Instances, NEW e, Hits(i, e) # {}
    PROVE  Matched(i, e) \in Hits(i, e)
<1>1. Hits(i, e) \in SUBSET Nat
  BY DEF Hits, CallsTyped, Keyrings, Versions
<1>2. \E k \in Hits(i, e) : \A l \in Hits(i, e) : k <= l
  BY <1>1, Least
<1>. QED
  BY <1>2 DEF Matched

\* Every step is a registration, an erasure or leaves the directory alone.
LEMMA RegistrationFacts ==
    ASSUME Shape, Keys, Directory, NEW i \in Instances, RegisterExisting(i) \/ RegisterNew(i)
    PROVE  \E v \in Verifications, e \in Emails, n \in Installations \cup {None},
              k \in Versions, p \in Persons : Registers(i, v, e, n, k, p) /\ Owns(e, k, p)
<1> DEFINE v == call[i].verification
           e == verification[v].email
           n == verification[v].installation
           k == keyring[i].current
<1>1. ClaimStands(i)
  BY DEF RegisterExisting, RegisterNew
<1>2. v \in Verifications
  BY <1>1 DEF ClaimStands, Shape, Types, CallsTyped
<1>3. e \in Emails /\ verification[v].state = "open" /\ verification[v].token = i
  BY <1>1, <1>2 DEF ClaimStands, Shape, Rows
<1>4. n \in Installations \cup {None}
  BY <1>2 DEF Shape, Types, VerificationTyped, VerificationRow
<1>5. k \in Versions /\ k \in keyring[i].known
  BY DEF Shape, Types, CallsTyped, Keyrings
<1>6. ASSUME NEW p \in Persons, NEW withAccount \in BOOLEAN, Registered(i, p, withAccount)
      PROVE  Registers(i, v, e, n, k, p)
  <2> DEFINE status == IF account[p] = "none" /\ withAccount THEN "active" ELSE account[p]
             todo == <<<<IF status = "none" THEN "person" ELSE "account", p>>, <<"person", p>>>>
             done == [stage |-> "alias", verification |-> None, todo |-> todo]
             lost == [stage |-> "releasing", verification |-> v, todo |-> <<>>]
  <2>1. done \in Call /\ done.stage = "alias" /\ done.todo # <<>>
    <3>1. <<IF status = "none" THEN "person" ELSE "account", p>> \in Subjects /\ <<"person", p>> \in Subjects
      BY DEF Subjects
    <3>2. todo \in Seq(Subjects) /\ todo # <<>>
      BY <3>1
    <3> HIDE DEF todo
    <3>. QED
      BY <3>2 DEF Call
  <2>2. lost \in Call /\ lost.stage = "releasing" /\ lost.verification = v
    <3>1. <<>> \in Seq(Subjects)
      OBVIOUS
    <3>. QED
      BY <1>2, <3>1 DEF Call
  <2>3. \E c \in Call : /\ call' = [call EXCEPT ![i] = c]
                        /\ (c.stage = "alias" /\ c.todo # <<>>) \/ (c.stage = "releasing" /\ c.verification = v)
    <3>1. call' = [call EXCEPT ![i] = done] \/ call' = [call EXCEPT ![i] = lost]
      BY <1>6 DEF Registered, Idle
    <3> HIDE DEF done, lost
    <3>. QED
      BY <2>1, <2>2, <3>1
  <2>4. account' = [account EXCEPT ![p] = status]
    BY <1>6 DEF Registered
  <2>5. account' \in {account, [account EXCEPT ![p] = "active"]}
        /\ (account'[p] # account[p] => account[p] = "none")
    BY <2>4 DEF Shape, Types, DirectoryTyped
  <2>. QED
    BY <1>1, <1>3, <1>6, <2>3, <2>5 DEF Registers, Registered, ClaimStands
<1>7. CASE RegisterExisting(i)
  <2> DEFINE p == blind[e][Matched(i, e)]
  <2>1. Hits(i, e) # {} /\ ~IndexCollides(i, e)
    BY <1>7 DEF RegisterExisting
  <2>2. Matched(i, e) \in Hits(i, e)
    BY <2>1, MatchedIsHit DEF Shape, Types
  <2>3. Matched(i, e) \in Versions /\ p # None
    BY <2>2 DEF Hits, Shape, Types, CallsTyped, Keyrings
  <2>4. p \in Persons
    BY <1>3, <2>3, SMTT(30) DEF Shape, Types, DirectoryTyped
  <2>5. identity[p] = e
    BY <1>3, <2>3 DEF Directory, IndexesFindIdentity
  <2>6. blind[e][k] \in {None, p}
    BY <2>1, <1>5 DEF IndexCollides
  <2>7. person[p] # "deleted"
    BY <2>4, <2>5, <1>3, NoneAssumption DEF Directory
  <2>8. staged => \A q \in Persons : identity[q] = e => q = p
    BY <2>4, <2>5, <1>3, NoneAssumption DEF Directory, OnePersonPerEmail
  <2>9. Registers(i, v, e, n, k, p)
    BY <1>6, <1>7, <2>4 DEF RegisterExisting
  <2>10. Owns(e, k, p)
    BY <2>5, <2>6, <2>7, <2>8 DEF Owns
  <2>. QED
    BY <1>2, <1>3, <1>4, <1>5, <2>4, <2>9, <2>10
<1>8. CASE RegisterNew(i)
  <2>1. Hits(i, e) = {}
    BY <1>8 DEF RegisterNew
  <2>2. PICK p \in Persons, withAccount \in BOOLEAN : person[p] = "absent" /\ Registered(i, p, withAccount)
    BY <1>8 DEF RegisterNew
  <2>3. blind[e][k] = None
    BY <1>5, <2>1 DEF Hits
  <2>4. staged => \A q \in Persons : identity[q] # e
    <3>1. SUFFICES ASSUME staged, NEW q \in Persons, identity[q] = e PROVE FALSE
      OBVIOUS
    <3>2. PICK l \in Versions : blind[e][l] = q
      BY <3>1, <1>3, NoneAssumption DEF Directory, IndexesFindIdentity
    <3>3. l \in keyring[i].known
      BY <3>1, <3>2, <1>3, NoneAssumption DEF Keys
    <3>. QED
      BY <3>2, <3>3, <2>1, NoneAssumption DEF Hits
  <2>5. Owns(e, k, p)
    BY <2>2, <2>3, <2>4 DEF Owns, Directory
  <2>. QED
    BY <1>2, <1>3, <1>4, <1>5, <1>6, <2>2, <2>5
<1>. QED
  BY <1>7, <1>8

\* Each erasure is of this form: the installations linked to a person go with it.
LEMMA ErasureFacts ==
    ASSUME Shape, Erase
    PROVE  \E N \in SUBSET Installations, P, R \in SUBSET Persons : Erases(N, P, R)
<1>1. CASE \E p \in Persons : erasePerson(p)
  <2>1. PICK p \in Persons : erasePerson(p)
    BY <1>1
  <2>2. Erases(InstallationsOf(p), {p}, {p})
    BY <2>1 DEF Erases, erasePerson, InstallationsOf
  <2>. QED
    BY <2>2 DEF InstallationsOf
<1>2. CASE \E p \in Persons : erasePersonProduct(p)
  <2>1. PICK p \in Persons : erasePersonProduct(p)
    BY <1>2
  <2>2. Erases(InstallationsOf(p), {p}, IF identity[p] \in GlobalEmails THEN {} ELSE {p})
    BY <2>1 DEF Erases, erasePersonProduct, InstallationsOf
  <2>. QED
    BY <2>2 DEF InstallationsOf
<1>3. CASE \E n \in Installations : eraseInstallation(n)
  <2>1. PICK n \in Installations : eraseInstallation(n)
    BY <1>3
  <2>2. Erases({n}, {}, {})
    BY <2>1 DEF Erases, eraseInstallation
  <2>. QED
    BY <2>2
<1>. QED
  BY <1>1, <1>2, <1>3 DEF Erase

\* The steps that leave persons, accounts, identities, indexes and evidence alone.
Aside ==
    \/ \E i \in Instances :
          \/ \E n \in Installations : CreateInstallation(i, n)
          \/ \E v \in Verifications, e \in Emails, n \in Installations \cup {None} :
                 BeginEmailVerification(i, v, e, n)
          \/ \E v \in Verifications : ClaimVerifiedEmail(i, v)
          \/ CompleteFails(i)
          \/ ReleaseEmailVerification(i)
          \/ EnsureSubjectAlias(i)
          \/ Abandon(i)
          \/ Rotate(i)
    \/ \E v \in Verifications : VerifyEmailOwnership(v)
    \/ DeleteExpiredEmailVerifications
    \/ Tick
    \/ UNCHANGED vars

\* A step registers, erases or leaves the directory alone.
LEMMA StepKinds ==
    ASSUME Shape, Keys, Directory, [Next]_vars
    PROVE  \/ \E i \in Instances, v \in Verifications, e \in Emails, n \in Installations \cup {None},
                 k \in Versions, p \in Persons : Registers(i, v, e, n, k, p) /\ Owns(e, k, p)
           \/ \E N \in SUBSET Installations, P, R \in SUBSET Persons : Erases(N, P, R)
           \/ Aside
<1>1. CASE \E i \in Instances : RegisterExisting(i) \/ RegisterNew(i)
  BY <1>1, RegistrationFacts
<1>2. CASE Erase
  BY <1>2, ErasureFacts
<1>3. CASE Serve /\ ~(\E i \in Instances : RegisterExisting(i) \/ RegisterNew(i))
  BY <1>3 DEF Serve, Handle, Aside
<1>4. CASE UNCHANGED vars
  BY <1>4 DEF Aside
<1>. QED
  BY <1>1, <1>2, <1>3, <1>4 DEF Next

\* The other steps leave the directory alone.
LEMMA AsideLeaves ==
    ASSUME Aside
    PROVE  UNCHANGED <<person, account, identity, blind, audit>>
  BY ZenonT(60) DEF Aside, CreateInstallation, BeginEmailVerification, ClaimVerifiedEmail, CompleteFails,
         ReleaseEmailVerification, EnsureSubjectAlias, Abandon, Rotate, Start, VerifyEmailOwnership,
         DeleteExpiredEmailVerifications, Tick, vars, tables

-----------------------------------------------------------------------------
(* Every table keeps its type. *)

\* A verification with fields of the right types.
LEMMA RowTyped ==
    ASSUME NEW s \in {"new", "open", "gone"}, NEW e \in Emails \cup {None}, NEW n \in Installations \cup {None},
           NEW x \in 0..MaxVersion, NEW z \in 0..(Horizon + TTL), NEW b \in BOOLEAN,
           NEW o \in Instances \cup {None}, NEW t \in 0..Horizon
    PROVE  [state |-> s, email |-> e, installation |-> n, index |-> x,
            expires |-> z, verified |-> b, token |-> o, at |-> t] \in VerificationRow
  BY DEF VerificationRow

\* Replacing one field of a verification.
LEMMA RowWritten ==
    ASSUME NEW r \in VerificationRow
    PROVE  /\ \A s \in {"new", "open", "gone"} : [r EXCEPT !.state = s] \in VerificationRow
           /\ \A e \in Emails \cup {None} : [r EXCEPT !.email = e] \in VerificationRow
           /\ \A n \in Installations \cup {None} : [r EXCEPT !.installation = n] \in VerificationRow
           /\ \A x \in 0..MaxVersion : [r EXCEPT !.index = x] \in VerificationRow
           /\ \A z \in 0..(Horizon + TTL) : [r EXCEPT !.expires = z] \in VerificationRow
           /\ \A o \in Instances \cup {None} : [r EXCEPT !.token = o] \in VerificationRow
           /\ \A t \in 0..Horizon : [r EXCEPT !.at = t] \in VerificationRow
           /\ [r EXCEPT !.verified = TRUE] \in VerificationRow
  BY DEF VerificationRow

\* The row of a verification that is gone is typed.
LEMMA GoneTyped == NoVerification \in VerificationRow /\ Gone \in VerificationRow
<1>1. 0 \in 0..MaxVersion /\ 0 \in 0..(Horizon + TTL) /\ 0 \in 0..Horizon
  BY DurationAssumption
<1>2. NoVerification \in VerificationRow
  BY <1>1, RowTyped DEF NoVerification
<1>. QED
  BY <1>2, RowWritten DEF Gone

\* An instance without a request is typed.
LEMMA IdleTyped == Idle \in Call /\ Idle.stage = "idle" /\ Idle.todo = <<>>
<1>1. <<>> \in Seq(Subjects)
  OBVIOUS
<1>. QED
  BY <1>1 DEF Idle, Call

\* A clock value a caller has read is a time that has been.
LEMMA ClockBounds ==
    ASSUME now \in 0..Horizon, NEW t \in ClockReads
    PROVE  t \in 0..Horizon /\ t <= now
  BY DurationAssumption DEF ClockReads

\* Verifications keep their type.
LEMMA StepVerificationTyped ==
    ASSUME Shape, Keys, Directory, [Next]_vars
    PROVE  VerificationTyped'
<1> USE DEF VerificationTyped
<1>0. VerificationTyped /\ now \in 0..Horizon /\ CallsTyped
  BY DEF Shape, Types
<1>1. ASSUME NEW i \in Instances, NEW v \in Verifications, NEW e \in Emails, NEW n \in Installations \cup {None},
             BeginEmailVerification(i, v, e, n)
      PROVE  VerificationTyped'
  <2>1. PICK t \in ClockReads : verification' = [verification EXCEPT ![v] =
              [NoVerification EXCEPT !.state = "open", !.email = e, !.installation = n,
                                     !.index = keyring[i].current, !.expires = t + TTL]]
    BY <1>1 DEF BeginEmailVerification
  <2>2. keyring[i].current \in 0..MaxVersion
    BY <1>0, DurationAssumption DEF CallsTyped, Keyrings, Versions
  <2>3. t + TTL \in 0..(Horizon + TTL)
    BY <1>0, ClockBounds, DurationAssumption
  <2>4. [NoVerification EXCEPT !.state = "open", !.email = e, !.installation = n,
                               !.index = keyring[i].current, !.expires = t + TTL] \in VerificationRow
    <3> DEFINE opened == [NoVerification EXCEPT !.state = "open"]
               addressed == [opened EXCEPT !.email = e]
               linked == [addressed EXCEPT !.installation = n]
               indexed == [linked EXCEPT !.index = keyring[i].current]
    <3>1. opened \in VerificationRow
      BY GoneTyped, RowWritten
    <3> HIDE DEF opened
    <3>2. addressed \in VerificationRow
      BY <3>1, RowWritten
    <3> HIDE DEF addressed
    <3>3. linked \in VerificationRow
      BY <3>2, RowWritten
    <3> HIDE DEF linked
    <3>4. indexed \in VerificationRow
      BY <2>2, <3>3, RowWritten
    <3> HIDE DEF indexed
    <3>5. [indexed EXCEPT !.expires = t + TTL] \in VerificationRow
      BY <2>3, <3>4, RowWritten
    <3>. QED
      BY <3>5 DEF opened, addressed, linked, indexed
  <2>. QED
    BY <1>0, <2>1, <2>4
<1>2. ASSUME NEW i \in Instances, NEW v \in Verifications, ClaimVerifiedEmail(i, v) PROVE VerificationTyped'
  <2>1. PICK t \in ClockReads : verification' = [verification EXCEPT ![v].token = i, ![v].at = t]
    BY <1>2 DEF ClaimVerifiedEmail
  <2>2. t \in 0..Horizon
    BY <1>0, ClockBounds
  <2>3. verification' = [verification EXCEPT ![v] = [[verification[v] EXCEPT !.token = i] EXCEPT !.at = t]]
    BY <2>1
  <2>4. [[verification[v] EXCEPT !.token = i] EXCEPT !.at = t] \in VerificationRow
    BY <1>0, <2>2, RowWritten
  <2>. QED
    BY <1>0, <2>3, <2>4
<1>3. ASSUME NEW i \in Instances, ReleaseEmailVerification(i) PROVE VerificationTyped'
  <2> DEFINE v == call[i].verification
  <2>1. v \in Verifications
    BY <1>0, <1>3 DEF ReleaseEmailVerification, CallsTyped
  <2>2. verification' = verification
        \/ verification' = [verification EXCEPT ![v] = [[verification[v] EXCEPT !.token = None] EXCEPT !.at = 0]]
    BY <1>3 DEF ReleaseEmailVerification
  <2>3. 0 \in 0..Horizon
    BY DurationAssumption
  <2>4. [[verification[v] EXCEPT !.token = None] EXCEPT !.at = 0] \in VerificationRow
    BY <1>0, <2>1, <2>3, RowWritten
  <2>. QED
    BY <1>0, <2>1, <2>2, <2>4
<1>4. ASSUME NEW v \in Verifications, VerifyEmailOwnership(v) PROVE VerificationTyped'
  <2>1. verification' = [verification EXCEPT ![v] = [verification[v] EXCEPT !.verified = TRUE]]
    BY <1>4 DEF VerifyEmailOwnership
  <2>2. [verification[v] EXCEPT !.verified = TRUE] \in VerificationRow
    BY <1>0, RowWritten
  <2>. QED
    BY <1>0, <2>1, <2>2
<1>5. ASSUME DeleteExpiredEmailVerifications PROVE VerificationTyped'
  BY <1>0, <1>5, GoneTyped DEF DeleteExpiredEmailVerifications
<1>6. CASE Aside
  <2>1. CASE UNCHANGED verification
    BY <1>0, <2>1
  <2>. QED
    BY <1>1, <1>2, <1>3, <1>4, <1>5, <1>6, <2>1, ZenonT(60) DEF Aside, CreateInstallation, CompleteFails,
       EnsureSubjectAlias, Abandon, Rotate, Start, Tick, vars, tables
<1>7. ASSUME NEW i \in Instances, NEW v \in Verifications, NEW e, NEW n, NEW k, NEW p, Registers(i, v, e, n, k, p)
      PROVE  VerificationTyped'
  BY <1>0, <1>7, GoneTyped DEF Registers
<1>8. ASSUME NEW N, NEW P, NEW R, Erases(N, P, R) PROVE VerificationTyped'
  BY <1>0, <1>8, GoneTyped DEF Erases, EraseRecords
<1>. QED
  BY <1>6, <1>7, <1>8, StepKinds

\* Persons, accounts, identities and indexes keep theirs.
LEMMA StepDirectoryTyped ==
    ASSUME Shape, Keys, Directory, [Next]_vars
    PROVE  DirectoryTyped'
<1>0. DirectoryTyped
  BY DEF Shape, Types
<1>1. CASE Aside
  BY <1>0, <1>1, AsideLeaves DEF DirectoryTyped
<1>2. ASSUME NEW i \in Instances, NEW v, NEW e \in Emails, NEW n, NEW k \in Versions, NEW p \in Persons,
             Registers(i, v, e, n, k, p)
      PROVE  DirectoryTyped'
  BY <1>0, <1>2 DEF Registers, DirectoryTyped
<1>3. ASSUME NEW N, NEW P, NEW R, Erases(N, P, R) PROVE DirectoryTyped'
  <2>1. identity' \in [Persons -> Emails \cup {None}] /\ blind' \in [Emails -> [Versions -> Persons \cup {None}]]
    BY <1>0, <1>3 DEF Erases, EraseRecords, IndexesLeft, DirectoryTyped
  <2>2. person' \in [Persons -> {"absent", "live", "deleted"}] /\ account' \in [Persons -> {"none", "active", "deleted"}]
    BY <1>0, <1>3 DEF Erases, DirectoryTyped
  <2>. QED
    BY <2>1, <2>2 DEF DirectoryTyped
<1>. QED
  BY <1>1, <1>2, <1>3, StepKinds

\* Evidence, installations and aliases keep theirs.
LEMMA StepLinksTyped ==
    ASSUME Shape, Keys, Directory, [Next]_vars
    PROVE  LinksTyped'
<1> USE DEF LinksTyped
<1>0. LinksTyped /\ CallsTyped
  BY DEF Shape, Types
<1>1. ASSUME NEW i \in Instances, NEW n \in Installations, CreateInstallation(i, n) PROVE LinksTyped'
  BY <1>0, <1>1 DEF CreateInstallation, InstallationRow
<1>2. ASSUME NEW i \in Instances, EnsureSubjectAlias(i) PROVE LinksTyped'
  <2>1. Head(call[i].todo) \in Subjects
    <3>1. call[i].todo \in Seq(Subjects) /\ call[i].todo # <<>>
      BY <1>0, <1>2 DEF CallsTyped, Call, EnsureSubjectAlias
    <3>. QED
      BY <3>1, HeadTailProperties
  <2>2. AliasPerson(Head(call[i].todo)) \in Persons \cup {None}
    BY <1>0, <2>1 DEF AliasPerson, Subjects, InstallationRow
  <2>3. [present |-> TRUE, person |-> AliasPerson(Head(call[i].todo))] \in AliasRow
    BY <2>2 DEF AliasRow
  <2>4. alias' \in [Subjects -> AliasRow]
    BY <1>0, <1>2, <2>1, <2>3 DEF EnsureSubjectAlias
  <2>. QED
    BY <1>0, <1>2, <2>4 DEF EnsureSubjectAlias
<1>3. CASE Aside
  <2>1. CASE UNCHANGED <<audit, installation, alias>>
    BY <1>0, <2>1
  <2>. QED
    BY <1>1, <1>2, <1>3, <2>1, ZenonT(60) DEF Aside, BeginEmailVerification, ClaimVerifiedEmail, CompleteFails,
       ReleaseEmailVerification, Abandon, Rotate, Start, VerifyEmailOwnership,
       DeleteExpiredEmailVerifications, Tick, vars, tables
<1>4. ASSUME NEW i \in Instances, NEW v \in Verifications, NEW e, NEW n \in Installations \cup {None},
             NEW k, NEW p \in Persons, Registers(i, v, e, n, k, p)
      PROVE  LinksTyped'
  <2>1. audit' \in [Verifications -> AuditRow]
    BY <1>0, <1>4 DEF Registers, AuditRow
  <2>2. installation' \in [Installations -> InstallationRow]
    <3>1. CASE n = None
      BY <1>0, <1>4, <3>1 DEF Registers
    <3>2. CASE n # None
      <4>1. installation' = [installation EXCEPT ![n].person = p]
        BY <1>4, <3>2 DEF Registers
      <4>. QED
        BY <1>0, <4>1 DEF InstallationRow
    <3>. QED
      BY <3>1, <3>2
  <2>3. alias' \in [Subjects -> AliasRow]
    BY <1>0, <1>4, ZenonT(60) DEF Registers, AliasesLinked, AliasRow
  <2>. QED
    BY <2>1, <2>2, <2>3
<1>5. ASSUME NEW N, NEW P, NEW R, Erases(N, P, R) PROVE LinksTyped'
  <2>1. audit' \in [Verifications -> AuditRow]
    BY <1>0, <1>5 DEF Erases, EraseRecords, EvidenceLeft, NoAudit, AuditRow
  <2>2. installation' \in [Installations -> InstallationRow]
    BY <1>0, <1>5 DEF Erases, EraseRecords, InstallationRow
  <2>3. alias' \in [Subjects -> AliasRow]
    BY <1>0, <1>5 DEF Erases, EraseRecords, NoAlias, AliasRow
  <2>. QED
    BY <2>1, <2>2, <2>3
<1>. QED
  BY <1>3, <1>4, <1>5, StepKinds

\* Requests under way and keyrings keep theirs.
LEMMA StepCallsTyped ==
    ASSUME Shape, Keys, Directory, [Next]_vars
    PROVE  CallsTyped'
<1>0. CallsTyped
  BY DEF Shape, Types
<1> DEFINE Proper(c) == /\ c \in Call
                        /\ c.stage \in {"claimed", "releasing"} => c.verification \in Verifications
                        /\ c.stage = "alias" => c.todo # <<>>
<1>1. ASSUME NEW i \in Instances, NEW c, Proper(c), call' = [call EXCEPT ![i] = c], UNCHANGED <<keyring, staged>>
      PROVE  CallsTyped'
  BY <1>0, <1>1 DEF CallsTyped
<1>2. Proper(Idle)
  BY IdleTyped
<1>3. ASSUME UNCHANGED <<call, keyring, staged>> PROVE CallsTyped'
  BY <1>0, <1>3 DEF CallsTyped
<1>4. ASSUME NEW i \in Instances, NEW n \in Installations, CreateInstallation(i, n) PROVE CallsTyped'
  <2> DEFINE todo == <<<<"installation", n>>>>
             c == [Idle EXCEPT !.stage = "alias", !.todo = todo]
  <2>1. call' = [call EXCEPT ![i] = c] /\ UNCHANGED <<keyring, staged>>
    BY <1>4 DEF CreateInstallation
  <2>2. todo \in Seq(Subjects) /\ todo # <<>>
    <3>1. <<"installation", n>> \in Subjects
      BY DEF Subjects
    <3>. QED
      BY <3>1
  <2> HIDE DEF todo
  <2>3. Proper(c)
    BY <2>2, IdleTyped DEF Call
  <2> HIDE DEF c, Proper
  <2>. QED
    BY <1>1, <2>1, <2>3
<1>5. ASSUME NEW i \in Instances, NEW v \in Verifications, ClaimVerifiedEmail(i, v) PROVE CallsTyped'
  <2> DEFINE c == [stage |-> "claimed", verification |-> v, todo |-> <<>>]
  <2>1. (call' = [call EXCEPT ![i] = c] \/ UNCHANGED call) /\ UNCHANGED <<keyring, staged>>
    BY <1>5 DEF ClaimVerifiedEmail, Idle
  <2>2. <<>> \in Seq(Subjects)
    OBVIOUS
  <2>3. Proper(c)
    BY <2>2 DEF Call
  <2> HIDE DEF c, Proper
  <2>. QED
    BY <1>1, <1>3, <2>1, <2>3
<1>6. ASSUME NEW i \in Instances, CompleteFails(i) PROVE CallsTyped'
  <2> DEFINE c == [call[i] EXCEPT !.stage = "releasing"]
  <2>1. call' = [call EXCEPT ![i] = c] /\ UNCHANGED <<keyring, staged>>
    BY <1>6 DEF CompleteFails
  <2>2. call[i] \in Call /\ call[i].verification \in Verifications
    BY <1>0, <1>6 DEF CompleteFails, CallsTyped
  <2>3. Proper(c)
    BY <2>2 DEF Call
  <2> HIDE DEF c, Proper
  <2>. QED
    BY <1>1, <2>1, <2>3
<1>7. ASSUME NEW i \in Instances, ReleaseEmailVerification(i) \/ Abandon(i) PROVE CallsTyped'
  BY <1>1, <1>2, <1>7 DEF ReleaseEmailVerification, Abandon
<1>8. ASSUME NEW i \in Instances, EnsureSubjectAlias(i) PROVE CallsTyped'
  <2> DEFINE c == [call[i] EXCEPT !.todo = Tail(@)]
  <2>1. (call' = [call EXCEPT ![i] = Idle] \/ (Len(call[i].todo) # 1 /\ call' = [call EXCEPT ![i] = c]))
        /\ UNCHANGED <<keyring, staged>>
    BY <1>8 DEF EnsureSubjectAlias
  <2>2. call[i] \in Call /\ call[i].stage = "alias" /\ call[i].todo # <<>> /\ call[i].todo \in Seq(Subjects)
    BY <1>0, <1>8 DEF EnsureSubjectAlias, CallsTyped, Call
  <2>3. Tail(call[i].todo) \in Seq(Subjects) /\ Len(Tail(call[i].todo)) = Len(call[i].todo) - 1
    BY <2>2, HeadTailProperties
  <2>4. Len(call[i].todo) # 1 => Tail(call[i].todo) # <<>>
    <3> DEFINE rest == Tail(call[i].todo)
    <3>1. rest = <<>> => Len(rest) = 0
      BY <2>3, EmptySeq
    <3>2. Len(call[i].todo) \in Nat
      BY <2>2, LenProperties
    <3>3. Len(rest) = Len(call[i].todo) - 1
      BY <2>3
    <3> HIDE DEF rest
    <3>4. rest = <<>> => Len(call[i].todo) = 1
      BY <3>1, <3>2, <3>3
    <3>. QED
      BY <3>4 DEF rest
  <2>5. Len(call[i].todo) # 1 => Proper(c)
    BY <2>2, <2>3, <2>4 DEF Call
  <2> HIDE DEF c, Proper
  <2>. QED
    BY <1>1, <1>2, <2>1, <2>5
<1>9. ASSUME NEW i \in Instances, Rotate(i) PROVE CallsTyped'
  <2>1. PICK d \in Deployments : Start(i, d[2])
    BY <1>9 DEF Rotate
  <2>2. d[2] \in Keyrings
    BY DeploymentAssumption
  <2>3. keyring' \in [Instances -> Keyrings]
    BY <1>0, <2>1, <2>2 DEF Start, CallsTyped
  <2>4. UNCHANGED call /\ staged' \in BOOLEAN
    BY <2>1 DEF Start
  <2>. QED
    BY <1>0, <2>3, <2>4 DEF CallsTyped
<1>10. ASSUME NEW i \in Instances, NEW v \in Verifications, NEW e, NEW n, NEW k, NEW p, Registers(i, v, e, n, k, p)
       PROVE  CallsTyped'
  <2>1. PICK c \in Call : /\ call' = [call EXCEPT ![i] = c]
                          /\ (c.stage = "alias" /\ c.todo # <<>>) \/ (c.stage = "releasing" /\ c.verification = v)
    BY <1>10 DEF Registers
  <2>2. Proper(c)
    BY <2>1
  <2>. QED
    BY <1>1, <1>10, <2>1, <2>2 DEF Registers
<1>11. CASE Aside
  <2>1. (\E i \in Instances : \/ \E n \in Installations : CreateInstallation(i, n)
                              \/ \E v \in Verifications : ClaimVerifiedEmail(i, v)
                              \/ CompleteFails(i) \/ ReleaseEmailVerification(i) \/ Abandon(i)
                              \/ EnsureSubjectAlias(i) \/ Rotate(i))
        \/ UNCHANGED <<call, keyring, staged>>
    BY <1>11 DEF Aside, BeginEmailVerification, VerifyEmailOwnership, DeleteExpiredEmailVerifications,
       Tick, vars
  <2>. QED
    BY <1>3, <1>4, <1>5, <1>6, <1>7, <1>8, <1>9, <2>1
<1>12. ASSUME NEW N, NEW P, NEW R, Erases(N, P, R) PROVE CallsTyped'
  BY <1>3, <1>12 DEF Erases
<1>. QED
  BY <1>10, <1>11, <1>12, StepKinds

\* Every step keeps the types.
LEMMA StepTypes ==
    ASSUME Shape, Keys, Directory, [Next]_vars
    PROVE  Types'
<1>1. now' \in 0..Horizon
  <2>0. now \in 0..Horizon
    BY DEF Shape, Types
  <2>1. CASE Tick
    BY <2>0, <2>1, DurationAssumption DEF Tick
  <2>2. CASE UNCHANGED now
    BY <2>0, <2>2
  <2>3. Aside => Tick \/ UNCHANGED now
    BY ZenonT(60) DEF Aside, CreateInstallation, BeginEmailVerification, ClaimVerifiedEmail, CompleteFails,
       ReleaseEmailVerification, EnsureSubjectAlias, Abandon, Rotate, Start, VerifyEmailOwnership,
       DeleteExpiredEmailVerifications, vars
  <2>4. ASSUME NEW i, NEW v, NEW e, NEW n, NEW k, NEW p, Registers(i, v, e, n, k, p) PROVE UNCHANGED now
    BY <2>4 DEF Registers
  <2>5. ASSUME NEW N, NEW P, NEW R, Erases(N, P, R) PROVE UNCHANGED now
    BY <2>5 DEF Erases
  <2>. QED
    BY <2>1, <2>2, <2>3, <2>4, <2>5, StepKinds
<1>. QED
  BY <1>1, StepVerificationTyped, StepDirectoryTyped, StepLinksTyped, StepCallsTyped DEF Types

-----------------------------------------------------------------------------
(* Verifications and their installations. *)

\* A verification stays tied to an active installation.
LEMMA StepRows ==
    ASSUME Shape, Keys, Directory, [Next]_vars
    PROVE  Rows'
<1>0. Rows /\ VerificationTyped /\ LinksTyped /\ CallsTyped
  BY DEF Shape, Types
<1>1. ASSUME UNCHANGED <<verification, installation>> PROVE Rows'
  BY <1>0, <1>1 DEF Rows
<1>2. ASSUME NEW i \in Instances, NEW n \in Installations, CreateInstallation(i, n) PROVE Rows'
  <2>1. \A m \in Installations : installation[m].state = "active" => installation'[m].state = "active"
    BY <1>0, <1>2 DEF CreateInstallation, LinksTyped, InstallationRow
  <2>2. UNCHANGED verification
    BY <1>2 DEF CreateInstallation
  <2>. QED
    BY <1>0, <2>1, <2>2 DEF Rows, VerificationTyped, VerificationRow
<1>3. ASSUME NEW i \in Instances, NEW v \in Verifications, NEW e \in Emails, NEW n \in Installations \cup {None},
             BeginEmailVerification(i, v, e, n)
      PROVE  Rows'
  <2>0. PICK t \in ClockReads : verification' = [verification EXCEPT ![v] =
              [NoVerification EXCEPT !.state = "open", !.email = e, !.installation = n,
                                     !.index = keyring[i].current, !.expires = t + TTL]]
    BY <1>3 DEF BeginEmailVerification
  <2> DEFINE r == [NoVerification EXCEPT !.state = "open", !.email = e, !.installation = n,
                                         !.index = keyring[i].current, !.expires = t + TTL]
  <2>1. /\ verification' = [verification EXCEPT ![v] = r]
        /\ r.state = "open" /\ r.email = e /\ r.installation = n
    BY <2>0 DEF NoVerification
  <2> HIDE DEF r
  <2>2. UNCHANGED installation /\ (n # None => installation[n].state = "active")
    BY <1>3 DEF BeginEmailVerification
  <2>. QED
    BY <1>0, <2>1, <2>2 DEF Rows, VerificationTyped
<1>4. ASSUME NEW i \in Instances, NEW v \in Verifications, ClaimVerifiedEmail(i, v) PROVE Rows'
  <2>1. PICK t : verification' = [verification EXCEPT ![v].token = i, ![v].at = t] /\ Claimable(v, t)
    BY <1>4 DEF ClaimVerifiedEmail
  <2>2. UNCHANGED installation /\ verification[v].state = "open"
    BY <1>4, <2>1 DEF ClaimVerifiedEmail, Claimable
  <2>. QED
    BY <1>0, <2>1, <2>2 DEF Rows, VerificationTyped, VerificationRow
<1>5. ASSUME NEW i \in Instances, ReleaseEmailVerification(i) PROVE Rows'
  <2> DEFINE v == call[i].verification
  <2>1. v \in Verifications
    BY <1>0, <1>5 DEF ReleaseEmailVerification, CallsTyped
  <2>2. UNCHANGED installation
        /\ verification' \in {verification, [verification EXCEPT ![v].token = None, ![v].at = 0]}
    BY <1>5 DEF ReleaseEmailVerification
  <2>. QED
    BY <1>0, <2>1, <2>2 DEF Rows, VerificationTyped, VerificationRow
<1>6. ASSUME NEW v \in Verifications, VerifyEmailOwnership(v) PROVE Rows'
  BY <1>0, <1>6 DEF VerifyEmailOwnership, Rows, VerificationTyped, VerificationRow
<1>7. ASSUME NEW T, verification' = [v \in Verifications |-> IF v \in T THEN Gone ELSE verification[v]],
             \A v \in Verifications \ T : verification[v].installation # None =>
                 installation'[verification[v].installation].state = "active"
      PROVE  Rows'
  BY <1>0, <1>7 DEF Rows, Gone, NoVerification
<1>8. ASSUME DeleteExpiredEmailVerifications PROVE Rows'
  <2>1. PICK T : verification' = [v \in Verifications |-> IF v \in T THEN Gone ELSE verification[v]]
    BY <1>8 DEF DeleteExpiredEmailVerifications
  <2>2. UNCHANGED installation
    BY <1>8 DEF DeleteExpiredEmailVerifications
  <2>. QED
    BY <1>0, <1>7, <2>1, <2>2 DEF Rows
<1>9. ASSUME NEW i \in Instances, NEW v \in Verifications, NEW e, NEW n \in Installations \cup {None}, NEW k, NEW p,
             Registers(i, v, e, n, k, p)
      PROVE  Rows'
  <2>1. verification' = [w \in Verifications |-> IF w \in {v} THEN Gone ELSE verification[w]]
    BY <1>0, <1>9 DEF Registers, VerificationTyped
  <2>2. \A m \in Installations : installation'[m].state = installation[m].state
    BY <1>0, <1>9, ZenonT(60) DEF Registers, LinksTyped, InstallationRow
  <2>3. \A w \in Verifications : verification[w].installation # None =>
           installation'[verification[w].installation].state = "active"
    BY <1>0, <2>2 DEF Rows, VerificationTyped, VerificationRow
  <2>. QED
    BY <1>7, <2>1, <2>3
<1>10. ASSUME NEW N \in SUBSET Installations, NEW P, NEW R, Erases(N, P, R) PROVE Rows'
  <2> DEFINE T == {v \in Verifications : verification[v].installation \in N}
  <2>1. verification' = [v \in Verifications |-> IF v \in T THEN Gone ELSE verification[v]]
    BY <1>10 DEF Erases, EraseRecords
  <2>2. \A m \in Installations \ N : installation'[m] = installation[m]
    BY <1>10 DEF Erases, EraseRecords
  <2>3. \A w \in Verifications \ T : verification[w].installation # None =>
           installation'[verification[w].installation].state = "active"
    BY <1>0, <2>2 DEF Rows, VerificationTyped, VerificationRow
  <2> HIDE DEF T
  <2>. QED
    BY <1>7, <2>1, <2>3
<1>11. CASE Aside
  <2>1. \/ \E i \in Instances :
              \/ \E n \in Installations : CreateInstallation(i, n)
              \/ \E v \in Verifications, e \in Emails, n \in Installations \cup {None} :
                     BeginEmailVerification(i, v, e, n)
              \/ \E v \in Verifications : ClaimVerifiedEmail(i, v)
              \/ ReleaseEmailVerification(i)
        \/ \E v \in Verifications : VerifyEmailOwnership(v)
        \/ DeleteExpiredEmailVerifications
        \/ UNCHANGED <<verification, installation>>
    BY <1>11, ZenonT(60) DEF Aside, CompleteFails, EnsureSubjectAlias, Abandon, Rotate, Start, Tick, vars, tables
  <2>. QED
    BY <1>1, <1>2, <1>3, <1>4, <1>5, <1>6, <1>8, <2>1
<1>. QED
  BY <1>9, <1>10, <1>11, StepKinds

-----------------------------------------------------------------------------
(* Keys and the directory. *)

\* While the deployments are staged, every key in use stays known everywhere.
LEMMA StepKeys ==
    ASSUME Shape, Keys, Directory, [Next]_vars
    PROVE  Keys'
<1>0. DirectoryTyped /\ CallsTyped
  BY DEF Shape, Types
<1>1. ASSUME UNCHANGED <<keyring, staged>>,
             \A e \in Emails, k \in Versions : blind'[e][k] # None =>
                 blind[e][k] # None \/ \E i \in Instances : k = keyring[i].current
      PROVE  Keys'
  BY <1>1 DEF Keys, Staged
<1>2. ASSUME NEW i \in Instances, Rotate(i) PROVE Keys'
  <2>1. PICK d \in Deployments : Start(i, d[2])
    BY <1>2 DEF Rotate
  <2>2. /\ keyring' = [keyring EXCEPT ![i] = d[2]] /\ UNCHANGED blind
        /\ staged' => staged /\ Staged'
        /\ \A e \in Emails, k \in Versions : blind[e][k] # None => k \in d[2].known
    BY <2>1 DEF Start, ValidateBlindIndexVersions, tables
  <2>3. keyring'[i] = d[2] /\ \A j \in Instances : j # i => keyring'[j] = keyring[j]
    BY <1>0, <2>2 DEF CallsTyped
  <2>4. staged' => \A e \in Emails, k \in Versions :
                       blind'[e][k] # None => \A j \in Instances : k \in keyring'[j].known
    BY <2>2, <2>3 DEF Keys
  <2>. QED
    BY <2>2, <2>4 DEF Keys
<1>3. CASE Aside
  <2>1. (\E i \in Instances : Rotate(i)) \/ UNCHANGED <<keyring, staged, blind>>
    BY <1>3 DEF Aside, CreateInstallation, BeginEmailVerification, ClaimVerifiedEmail, CompleteFails,
       ReleaseEmailVerification, EnsureSubjectAlias, Abandon, VerifyEmailOwnership,
       DeleteExpiredEmailVerifications, Tick, vars, tables
  <2>. QED
    BY <1>1, <1>2, <2>1
<1>4. ASSUME NEW i \in Instances, NEW v, NEW e \in Emails, NEW n, NEW k \in Versions, NEW p \in Persons,
             Registers(i, v, e, n, k, p)
      PROVE  Keys'
  <2>1. UNCHANGED <<keyring, staged>> /\ blind' = [blind EXCEPT ![e][k] = p] /\ k = keyring[i].current
    BY <1>4 DEF Registers
  <2>2. \A f \in Emails, l \in Versions : blind'[f][l] = IF f = e /\ l = k THEN p ELSE blind[f][l]
    BY <1>0, <2>1 DEF DirectoryTyped
  <2>. QED
    BY <1>1, <2>1, <2>2
<1>5. ASSUME NEW N, NEW P, NEW R, Erases(N, P, R) PROVE Keys'
  BY <1>1, <1>5 DEF Erases, EraseRecords, IndexesLeft
<1>. QED
  BY <1>3, <1>4, <1>5, StepKinds

\* A registration finds the identity of its email if there is one, and an
\* erasure takes an identity with all its indexes.
LEMMA StepDirectory ==
    ASSUME Shape, Keys, Directory, [Next]_vars
    PROVE  Directory'
<1>0. DirectoryTyped
  BY DEF Shape, Types
<1>1. CASE Aside
  <2>1. UNCHANGED <<person, identity, blind>>
    BY <1>1, AsideLeaves
  <2>2. staged' => staged
    BY <1>1, ZenonT(60) DEF Aside, CreateInstallation, BeginEmailVerification, ClaimVerifiedEmail, CompleteFails,
       ReleaseEmailVerification, EnsureSubjectAlias, Abandon, Rotate, Start, VerifyEmailOwnership,
       DeleteExpiredEmailVerifications, Tick, vars
  <2>. QED
    BY <2>1, <2>2 DEF Directory, OnePersonPerEmail, IndexesFindIdentity
<1>2. ASSUME NEW i \in Instances, NEW v \in Verifications, NEW e \in Emails, NEW n, NEW k \in Versions, NEW p \in Persons,
             Registers(i, v, e, n, k, p), Owns(e, k, p)
      PROVE  Directory'
  <2>1. /\ \A q \in Persons : identity'[q] = IF q = p THEN e ELSE identity[q]
        /\ \A q \in Persons : person'[q] = IF q = p THEN "live" ELSE person[q]
        /\ \A f \in Emails, l \in Versions : blind'[f][l] = IF f = e /\ l = k THEN p ELSE blind[f][l]
    BY <1>0, <1>2 DEF Registers, DirectoryTyped
  <2>2. (\A q \in Persons : person[q] = "absent" => identity[q] = None)'
        /\ (\A q \in Persons : person[q] = "deleted" => identity[q] = None)'
    BY <2>1 DEF Directory
  <2>3. OnePersonPerEmail'
    <3>1. staged' = staged
      BY <1>2 DEF Registers
    <3>2. staged => \A q \in Persons : identity[q] = e => q = p
      BY <1>2 DEF Owns
    <3>3. OnePersonPerEmail
      BY DEF Directory
    <3>. QED
      BY <2>1, <3>1, <3>2, <3>3 DEF OnePersonPerEmail
  <2>4. ASSUME NEW f \in Emails, NEW l \in Versions, blind'[f][l] # None
        PROVE  identity'[blind'[f][l]] = f
    <3>1. CASE f = e /\ l = k
      BY <2>1, <3>1
    <3>2. CASE ~(f = e /\ l = k)
      <4>1. blind'[f][l] = blind[f][l] /\ blind[f][l] \in Persons
        BY <1>0, <2>1, <2>4, <3>2 DEF DirectoryTyped
      <4>2. identity[blind[f][l]] = f
        BY <2>4, <4>1 DEF Directory, IndexesFindIdentity
      <4>. QED
        BY <1>2, <2>1, <4>1, <4>2, NoneAssumption DEF Owns
    <3>. QED
      BY <3>1, <3>2
  <2>5. ASSUME NEW q \in Persons, identity'[q] # None
        PROVE  \E l \in Versions : blind'[identity'[q]][l] = q
    <3>1. CASE q = p
      BY <2>1, <3>1
    <3>2. CASE q # p
      <4>1. identity'[q] = identity[q] /\ identity[q] \in Emails
        BY <1>0, <2>1, <2>5, <3>2 DEF DirectoryTyped
      <4>2. PICK l \in Versions : blind[identity[q]][l] = q
        BY <2>5, <4>1 DEF Directory, IndexesFindIdentity
      <4>3. ~(identity[q] = e /\ l = k)
        BY <1>2, <3>2, <4>2, NoneAssumption DEF Owns
      <4>. QED
        BY <2>1, <4>1, <4>2, <4>3
    <3>. QED
      BY <3>1, <3>2
  <2>6. IndexesFindIdentity'
    BY <2>4, <2>5 DEF IndexesFindIdentity
  <2>. QED
    BY <2>2, <2>3, <2>6 DEF Directory
<1>3. ASSUME NEW N, NEW P \in SUBSET Persons, NEW R, Erases(N, P, R) PROVE Directory'
  <2>1. /\ \A q \in Persons : identity'[q] = IF q \in R THEN None ELSE identity[q]
        /\ \A f \in Emails, l \in Versions : blind'[f][l] = IF blind[f][l] \in R THEN None ELSE blind[f][l]
        /\ R \subseteq Persons
    BY <1>3 DEF Erases, EraseRecords, IndexesLeft
  <2>2. \A q \in Persons : person'[q] = person[q] \/ (person'[q] = "deleted" /\ q \in R)
    BY <1>0, <1>3 DEF Erases, DirectoryTyped
  <2>3. (\A q \in Persons : person[q] = "absent" => identity[q] = None)'
        /\ (\A q \in Persons : person[q] = "deleted" => identity[q] = None)'
    BY <2>1, <2>2 DEF Directory
  <2>4. OnePersonPerEmail'
    BY <1>3, <2>1 DEF Erases, Directory, OnePersonPerEmail
  <2>5. IndexesFindIdentity'
    <3>1. ASSUME NEW f \in Emails, NEW l \in Versions, blind'[f][l] # None
          PROVE  identity'[blind'[f][l]] = f
      <4>1. blind'[f][l] = blind[f][l] /\ blind[f][l] \in Persons \ R
        BY <1>0, <2>1, <3>1 DEF DirectoryTyped
      <4>. QED
        BY <2>1, <3>1, <4>1 DEF Directory, IndexesFindIdentity
    <3>2. ASSUME NEW q \in Persons, identity'[q] # None
          PROVE  \E l \in Versions : blind'[identity'[q]][l] = q
      <4>1. identity'[q] = identity[q] /\ identity[q] \in Emails /\ q \notin R
        BY <1>0, <2>1, <3>2 DEF DirectoryTyped
      <4>2. \E l \in Versions : blind[identity[q]][l] = q
        BY <3>2, <4>1 DEF Directory, IndexesFindIdentity
      <4>. QED
        BY <2>1, <4>1, <4>2
    <3>. QED
      BY <3>1, <3>2 DEF IndexesFindIdentity
  <2>. QED
    BY <2>3, <2>4, <2>5 DEF Directory
<1>. QED
  BY <1>1, <1>2, <1>3, StepKinds

\* The empty directory.
LEMMA InitDirectory == Init => Shape /\ Keys /\ Directory
<1> SUFFICES ASSUME Init PROVE Shape /\ Keys /\ Directory
  OBVIOUS
<1>1. now \in 0..Horizon /\ 1 \in Versions
  BY DurationAssumption DEF Init, Versions
<1>2. VerificationTyped
  BY GoneTyped DEF Init, VerificationTyped
<1>3. DirectoryTyped
  BY DEF Init, DirectoryTyped
<1>4. LinksTyped
  BY DEF Init, LinksTyped, NoAudit, NoAlias, AuditRow, InstallationRow, AliasRow
<1>5. CallsTyped
  <2>1. keyring \in [Instances -> Keyrings] /\ staged \in BOOLEAN
    BY <1>1 DEF Init, Keyrings
  <2>. QED
    BY <2>1, IdleTyped DEF Init, CallsTyped
<1>6. Rows
  BY DEF Init, Rows, NoVerification
<1>7. Keys
  BY DEF Init, Keys, Staged
<1>8. Directory
  BY DEF Init, Directory, OnePersonPerEmail, IndexesFindIdentity
<1>. QED
  BY <1>1, <1>2, <1>3, <1>4, <1>5, <1>6, <1>7, <1>8 DEF Shape, Types

\* Every step keeps the three layers.
LEMMA StepShape == Shape /\ Keys /\ Directory /\ [Next]_vars => (Shape /\ Keys /\ Directory)'
BY StepTypes, StepRows, StepKeys, StepDirectory DEF Shape

\* Registrations, erasures and deployments keep indexes and identities leading
\* to each other, and while the deployments are staged every email with one
\* identity; the layers Shape and Keys are what makes that inductive.
THEOREM DirectoryInvariant == Spec => [](Shape /\ Keys /\ Directory)
BY StepShape, InitDirectory, PTL DEF Spec

\* Provided that no deployment ever left an instance running without the key
\* another one writes with (staged, which is the operator's doing and not the
\* code's), registerEmailIdentityTx never creates a second identity for an
\* email, with any number of instances that run with different keyrings.
THEOREM OneIdentityPerEmail == Spec => []OnePersonPerEmail
<1>1. Directory => OnePersonPerEmail
  BY DEF Directory
<1>. QED
  BY <1>1, DirectoryInvariant, PTL

\* No blind index dangles and no identity is without one, whatever keys the
\* indexes were written with, whatever the erasures removed and however the
\* keys were deployed.
THEOREM IndexesLead == Spec => []IndexesFindIdentity
<1>1. Directory => IndexesFindIdentity
  BY DEF Directory
<1>. QED
  BY <1>1, DirectoryInvariant, PTL

\* Every table keeps its type, and no instance's current key is missing from
\* its keyring.
THEOREM RegistrationTypes == Spec => []TypeOK
<1>1. Shape => TypeOK
  BY DEF Shape, Types, TypeOK, VerificationTyped, DirectoryTyped, LinksTyped, CallsTyped,
         VerificationRow, AuditRow, InstallationRow, AliasRow, Call
<1>. QED
  BY <1>1, DirectoryInvariant, PTL

-----------------------------------------------------------------------------
(* Evidence. *)

\* Consuming a verification writes its evidence in the same transaction, and
\* erasing an identity erases the evidence of its person.
THEOREM EvidenceStands == Spec => []EvidenceReplacesVerification
<1>1. Init => EvidenceReplacesVerification
  BY DEF Init, EvidenceReplacesVerification, NoAudit
<1>2. ASSUME Shape, Keys, Directory, EvidenceReplacesVerification, [Next]_vars
      PROVE  EvidenceReplacesVerification'
  <2>0. DirectoryTyped /\ LinksTyped /\ VerificationTyped /\ CallsTyped /\ Rows
    BY <1>2 DEF Shape, Types
  <2>1. CASE Aside
    <3>1. UNCHANGED <<audit, identity>>
      BY <2>1, AsideLeaves
    <3>2. ASSUME NEW v \in Verifications, verification[v].state = "gone" PROVE verification'[v].state = "gone"
      <4>1. CASE \E i \in Instances, w \in Verifications, e \in Emails, n \in Installations \cup {None} :
                     BeginEmailVerification(i, w, e, n)
        BY <2>0, <3>2, <4>1 DEF BeginEmailVerification, VerificationTyped
      <4>2. CASE \E i \in Instances, w \in Verifications : ClaimVerifiedEmail(i, w)
        BY <2>0, <3>2, <4>2 DEF ClaimVerifiedEmail, VerificationTyped, VerificationRow
      <4>3. CASE \E i \in Instances : ReleaseEmailVerification(i)
        BY <2>0, <3>2, <4>3 DEF ReleaseEmailVerification, VerificationTyped, VerificationRow
      <4>4. CASE \E w \in Verifications : VerifyEmailOwnership(w)
        BY <2>0, <3>2, <4>4 DEF VerifyEmailOwnership, VerificationTyped, VerificationRow
      <4>5. CASE DeleteExpiredEmailVerifications
        BY <3>2, <4>5 DEF DeleteExpiredEmailVerifications, Gone
      <4>6. CASE UNCHANGED verification
        BY <3>2, <4>6
      <4>. QED
        BY <2>1, <4>1, <4>2, <4>3, <4>4, <4>5, <4>6 DEF Aside, CreateInstallation, CompleteFails,
           EnsureSubjectAlias, Abandon, Rotate, Start, Tick, vars, tables
    <3>. QED
      BY <1>2, <3>1, <3>2 DEF EvidenceReplacesVerification
  <2>2. ASSUME NEW i \in Instances, NEW v \in Verifications, NEW e \in Emails, NEW n, NEW k, NEW p \in Persons,
               Registers(i, v, e, n, k, p)
        PROVE  EvidenceReplacesVerification'
    <3>1. /\ \A w \in Verifications : w # v => audit'[w] = audit[w] /\ verification'[w] = verification[w]
          /\ audit'[v].person = p /\ verification'[v].state = "gone"
          /\ \A q \in Persons : identity'[q] = IF q = p THEN e ELSE identity[q]
      BY <2>0, <2>2 DEF Registers, LinksTyped, VerificationTyped, DirectoryTyped, Gone, NoVerification
    <3>2. \A w \in Verifications : audit[w].person \in Persons \cup {None}
      BY <2>0 DEF LinksTyped, AuditRow
    <3>. QED
      BY <1>2, <3>1, <3>2, NoneAssumption DEF EvidenceReplacesVerification
  <2>3. ASSUME NEW N, NEW P \in SUBSET Persons, NEW R, Erases(N, P, R) PROVE EvidenceReplacesVerification'
    <3>1. /\ \A w \in Verifications : verification'[w] = verification[w] \/ verification'[w].state = "gone"
          /\ \A w \in Verifications : audit'[w] = NoAudit \/ (audit'[w] = audit[w] /\ audit[w].person \notin P)
          /\ \A q \in Persons : identity'[q] = IF q \in R THEN None ELSE identity[q]
          /\ R \subseteq P
      BY <2>3 DEF Erases, EraseRecords, EvidenceLeft, Gone, NoVerification
    <3>2. \A w \in Verifications : audit[w].person \in Persons \cup {None}
      BY <2>0 DEF LinksTyped, AuditRow
    <3>. QED
      BY <1>2, <3>1, <3>2 DEF EvidenceReplacesVerification, NoAudit
  <2>. QED
    BY <1>2, <2>1, <2>2, <2>3, StepKinds
<1>. QED
  BY <1>1, <1>2, DirectoryInvariant, PTL DEF Spec

-----------------------------------------------------------------------------
(* Aliases and what an erasure leaves. *)

\* The alias of a person or account names the person itself, that of an
\* installation its person; the subject still stands; and nothing that is
\* linked is linked to an erased person.
Links ==
    /\ \A s \in Subjects : alias[s].present /\ s[1] # "installation" => alias[s].person = s[2]
    /\ AliasFollowsLink
    /\ \A s \in Subjects : alias[s].present => Aliasable(s)
    /\ \A p \in Persons : person[p] = "deleted" =>
           /\ account[p] # "active"
           /\ \A s \in Subjects : alias[s].person # p
           /\ \A n \in Installations : installation[n].person # p

\* What an alias needs and names, for each kind of subject.
LEMMA SubjectKinds ==
    ASSUME NEW s \in Subjects
    PROVE  \/ s[1] = "person" /\ s[2] \in Persons /\ (Aliasable(s) <=> person[s[2]] = "live")
                /\ AliasPerson(s) = s[2] /\ (Aliasable(s)' <=> person'[s[2]] = "live")
           \/ s[1] = "account" /\ s[2] \in Persons /\ (Aliasable(s) <=> account[s[2]] = "active")
                /\ AliasPerson(s) = s[2] /\ (Aliasable(s)' <=> account'[s[2]] = "active")
           \/ s[1] = "installation" /\ s[2] \in Installations /\ s = <<"installation", s[2]>>
                /\ (Aliasable(s) <=> installation[s[2]].state = "active")
                /\ AliasPerson(s) = installation[s[2]].person
                /\ (Aliasable(s)' <=> installation'[s[2]].state = "active")
<1>1. \/ s[1] = "person" /\ s[2] \in Persons
      \/ s[1] = "account" /\ s[2] \in Persons
      \/ s[1] = "installation" /\ s[2] \in Installations /\ s = <<"installation", s[2]>>
  BY DEF Subjects
<1>2. CASE s[1] = "person"
  BY <1>1, <1>2 DEF Aliasable, AliasPerson
<1>3. CASE s[1] = "account"
  BY <1>1, <1>3 DEF Aliasable, AliasPerson
<1>4. CASE s[1] = "installation"
  BY <1>1, <1>4 DEF Aliasable, AliasPerson
<1>. QED
  BY <1>1, <1>2, <1>3, <1>4

\* Registrations, aliases and erasures keep the links.
LEMMA StepLinks ==
    ASSUME Shape, Keys, Directory, Links, [Next]_vars
    PROVE  Links'
<1>0. DirectoryTyped /\ LinksTyped /\ CallsTyped
  BY DEF Shape, Types
<1>1. ASSUME UNCHANGED <<person, account, installation, alias>> PROVE Links'
  BY <1>1 DEF Links, AliasFollowsLink, Aliasable
<1>2. ASSUME NEW i \in Instances, NEW n \in Installations, CreateInstallation(i, n) PROVE Links'
  <2>1. /\ \A m \in Installations : installation'[m].person = installation[m].person
        /\ \A m \in Installations : installation[m].state = "active" => installation'[m].state = "active"
        /\ UNCHANGED <<person, account, alias>>
    BY <1>0, <1>2 DEF CreateInstallation, LinksTyped, InstallationRow
  <2>2. ASSUME NEW s \in Subjects, alias'[s].present PROVE Aliasable(s)'
    BY <2>1, <2>2, SubjectKinds DEF Links
  <2>. QED
    BY <2>1, <2>2 DEF Links, AliasFollowsLink
<1>3. ASSUME NEW i \in Instances, EnsureSubjectAlias(i) PROVE Links'
  <2> DEFINE s == Head(call[i].todo)
  <2>1. s \in Subjects
    <3>1. call[i].todo \in Seq(Subjects) /\ call[i].todo # <<>>
      BY <1>0, <1>3 DEF CallsTyped, Call, EnsureSubjectAlias
    <3>. QED
      BY <3>1, HeadTailProperties
  <2>2. /\ Aliasable(s) /\ UNCHANGED <<person, account, installation>>
        /\ alias' \in {alias, [alias EXCEPT ![s] = [present |-> TRUE, person |-> AliasPerson(s)]]}
    BY <1>3 DEF EnsureSubjectAlias
  <2> HIDE DEF s
  <2>3. CASE alias' = alias
    BY <1>1, <2>2, <2>3
  <2>4. CASE alias' = [alias EXCEPT ![s] = [present |-> TRUE, person |-> AliasPerson(s)]]
    <3>1. /\ \A r \in Subjects : r # s => alias'[r] = alias[r]
          /\ alias'[s].present /\ alias'[s].person = AliasPerson(s)
      BY <1>0, <2>1, <2>4 DEF LinksTyped
    <3>2. \A r \in Subjects : alias'[r].present /\ r[1] # "installation" => alias'[r].person = r[2]
      BY <2>1, <3>1, SubjectKinds, SMTT(30) DEF Links
    <3>3. AliasFollowsLink'
      <4>1. SUFFICES ASSUME NEW n \in Installations, alias'[<<"installation", n>>].present
                     PROVE  alias'[<<"installation", n>>].person = installation[n].person
        BY <2>2 DEF AliasFollowsLink
      <4>2. <<"installation", n>> \in Subjects
        BY DEF Subjects
      <4>3. CASE <<"installation", n>> = s
        BY <3>1, <4>3 DEF AliasPerson
      <4>4. CASE <<"installation", n>> # s
        BY <3>1, <4>1, <4>2, <4>4 DEF Links, AliasFollowsLink
      <4>. QED
        BY <4>3, <4>4
    <3>4. ASSUME NEW r \in Subjects, alias'[r].present PROVE Aliasable(r)'
      <4>1. Aliasable(r)
        BY <2>2, <3>1, <3>4 DEF Links
      <4>. QED
        BY <2>2, <4>1, SubjectKinds
    <3>5. ASSUME NEW p \in Persons, person[p] = "deleted" PROVE \A r \in Subjects : alias'[r].person # p
      <4>1. AliasPerson(s) # p
        <5>1. account[p] # "active" /\ \A n \in Installations : installation[n].person # p
          BY <3>5 DEF Links
        <5>2. \/ AliasPerson(s) \in Persons /\ person[AliasPerson(s)] = "live"
              \/ AliasPerson(s) \in Persons /\ account[AliasPerson(s)] = "active"
              \/ \E n \in Installations : AliasPerson(s) = installation[n].person
          BY <2>1, <2>2, SubjectKinds
        <5>. QED
          BY <3>5, <5>1, <5>2
      <4>2. \A r \in Subjects : alias[r].person # p
        BY <3>5 DEF Links
      <4>. QED
        BY <3>1, <4>1, <4>2, Zenon
    <3>. QED
      BY <2>2, <3>2, <3>3, <3>4, <3>5 DEF Links
  <2>. QED
    BY <2>2, <2>3, <2>4
<1>4. CASE Aside
  <2>1. \/ \E i \in Instances : (\E n \in Installations : CreateInstallation(i, n)) \/ EnsureSubjectAlias(i)
        \/ UNCHANGED <<person, account, installation, alias>>
    <3>1. ASSUME NEW i \in Instances,
                 \/ \E v \in Verifications, e \in Emails, n \in Installations \cup {None} :
                        BeginEmailVerification(i, v, e, n)
                 \/ \E v \in Verifications : ClaimVerifiedEmail(i, v)
          PROVE  UNCHANGED <<installation, alias>>
      BY <3>1 DEF BeginEmailVerification, ClaimVerifiedEmail
    <3>2. ASSUME NEW i \in Instances,
                 CompleteFails(i) \/ ReleaseEmailVerification(i) \/ Abandon(i) \/ Rotate(i)
          PROVE  UNCHANGED <<installation, alias>>
      BY <3>2 DEF CompleteFails, ReleaseEmailVerification, Abandon, Rotate, Start, tables
    <3>3. ASSUME \/ \E v \in Verifications : VerifyEmailOwnership(v)
                 \/ DeleteExpiredEmailVerifications \/ Tick \/ UNCHANGED vars
          PROVE  UNCHANGED <<installation, alias>>
      BY <3>3 DEF VerifyEmailOwnership, DeleteExpiredEmailVerifications, Tick, vars, tables
    <3>. QED
      BY <1>4, <3>1, <3>2, <3>3, AsideLeaves DEF Aside
  <2>. QED
    BY <1>1, <1>2, <1>3, <2>1
<1>5. ASSUME NEW i \in Instances, NEW v \in Verifications, NEW e \in Emails, NEW n \in Installations \cup {None},
             NEW k, NEW p \in Persons, Registers(i, v, e, n, k, p), Owns(e, k, p)
      PROVE  Links'
  <2>1. \A q \in Persons : person'[q] = IF q = p THEN "live" ELSE person[q]
    BY <1>0, <1>5 DEF Registers, DirectoryTyped
  <2>2. /\ \A q \in Persons : q # p => account'[q] = account[q]
        /\ account[p] = "active" => account'[p] = "active"
    BY <1>0, <1>5 DEF Registers, DirectoryTyped
  <2>3. \A s \in Subjects : alias'[s] = IF s[1] = "installation" /\ s[2] = n /\ alias[s].present
                                        THEN [alias[s] EXCEPT !.person = p] ELSE alias[s]
    BY <1>5 DEF Registers, AliasesLinked
  <2>4. \A s \in Subjects : /\ alias'[s].present = alias[s].present
                            /\ alias'[s].person = IF s[1] = "installation" /\ s[2] = n /\ alias[s].present
                                                  THEN p ELSE alias[s].person
    BY <1>0, <2>3 DEF LinksTyped, AliasRow
  <2>5. \A m \in Installations : /\ installation'[m].state = installation[m].state
                                 /\ installation'[m].person = IF m = n THEN p ELSE installation[m].person
    <3>1. CASE n = None
      BY <1>5, <3>1, NoneAssumption DEF Registers
    <3>2. CASE n # None
      <4>1. installation' = [installation EXCEPT ![n].person = p]
        BY <1>5, <3>2 DEF Registers
      <4>. QED
        BY <1>0, <4>1 DEF LinksTyped, InstallationRow
    <3>. QED
      BY <3>1, <3>2
  <2>6. \A s \in Subjects : alias'[s].present /\ s[1] # "installation" => alias'[s].person = s[2]
    BY <2>4 DEF Links
  <2>7. AliasFollowsLink'
    <3>1. SUFFICES ASSUME NEW m \in Installations, alias'[<<"installation", m>>].present
                   PROVE  alias'[<<"installation", m>>].person = installation'[m].person
      BY DEF AliasFollowsLink
    <3>2. <<"installation", m>> \in Subjects
      BY DEF Subjects
    <3>. QED
      BY <2>4, <2>5, <3>1, <3>2 DEF Links, AliasFollowsLink
  <2>8. ASSUME NEW s \in Subjects, alias'[s].present PROVE Aliasable(s)'
    <3>1. Aliasable(s)
      BY <2>4, <2>8 DEF Links
    <3>. QED
      BY <2>1, <2>2, <2>5, <3>1, SubjectKinds
  <2>9. ASSUME NEW q \in Persons, person'[q] = "deleted"
        PROVE  /\ account'[q] # "active"
               /\ \A s \in Subjects : alias'[s].person # q
               /\ \A m \in Installations : installation'[m].person # q
    <3>1. q # p /\ person[q] = "deleted"
      BY <2>1, <2>9
    <3>. QED
      BY <2>2, <2>4, <2>5, <3>1 DEF Links
  <2>. QED
    BY <2>6, <2>7, <2>8, <2>9 DEF Links
<1>6. ASSUME NEW N \in SUBSET Installations, NEW P \in SUBSET Persons, NEW R, Erases(N, P, R) PROVE Links'
  <2>1. \A q \in Persons \ P : person'[q] = person[q] /\ account'[q] = account[q]
    BY <1>0, <1>6 DEF Erases, DirectoryTyped
  <2>2. \A q \in P : person'[q] = "deleted" =>
           \/ person[q] = "deleted" /\ account'[q] = account[q]
           \/ account'[q] # "active"
    BY <1>0, <1>6 DEF Erases, DirectoryTyped
  <2>3. \A s \in Subjects : \/ ~alias'[s].present /\ alias'[s].person = None
                            \/ /\ alias'[s] = alias[s] /\ alias[s].person \notin P
                               /\ ~(s[1] = "installation" /\ s[2] \in N)
    BY <1>6 DEF Erases, EraseRecords, NoAlias
  <2>4. \A m \in Installations : IF m \in N THEN installation'[m].person = None
                                 ELSE installation'[m] = installation[m] /\ installation[m].person \notin P
    BY <1>6 DEF Erases, EraseRecords
  <2>5. \A s \in Subjects : alias'[s].present /\ s[1] # "installation" => alias'[s].person = s[2]
    BY <2>3 DEF Links
  <2>6. AliasFollowsLink'
    <3>1. SUFFICES ASSUME NEW m \in Installations, alias'[<<"installation", m>>].present
                   PROVE  alias'[<<"installation", m>>].person = installation'[m].person
      BY DEF AliasFollowsLink
    <3>2. <<"installation", m>> \in Subjects
      BY DEF Subjects
    <3>3. m \notin N /\ alias'[<<"installation", m>>] = alias[<<"installation", m>>]
      BY <2>3, <3>1, <3>2
    <3>. QED
      BY <2>4, <3>1, <3>3 DEF Links, AliasFollowsLink
  <2>7. ASSUME NEW s \in Subjects, alias'[s].present PROVE Aliasable(s)'
    <3>1. /\ alias[s].present /\ alias[s].person \notin P
          /\ ~(s[1] = "installation" /\ s[2] \in N)
      BY <2>3, <2>7
    <3>2. Aliasable(s) /\ (s[1] # "installation" => s[2] \notin P)
      BY <3>1 DEF Links
    <3>. QED
      BY <2>1, <2>4, <3>1, <3>2, SubjectKinds
  <2>8. ASSUME NEW q \in Persons, person'[q] = "deleted"
        PROVE  /\ account'[q] # "active"
               /\ \A s \in Subjects : alias'[s].person # q
               /\ \A m \in Installations : installation'[m].person # q
    <3>1. q \in P \/ person[q] = "deleted"
      BY <2>1, <2>8
    <3>2. account'[q] # "active"
      BY <2>1, <2>2, <2>8 DEF Links
    <3>3. \A s \in Subjects : alias'[s].person # q
      <4>1. SUFFICES ASSUME NEW s \in Subjects PROVE alias'[s].person # q
        OBVIOUS
      <4>2. alias'[s].person = None \/ (alias'[s] = alias[s] /\ alias[s].person \notin P)
        BY <2>3
      <4>3. person[q] = "deleted" => alias[s].person # q
        BY DEF Links
      <4>4. q # None
        BY NoneAssumption
      <4>. QED
        BY <3>1, <4>2, <4>3, <4>4, Zenon
    <3>4. \A m \in Installations : installation'[m].person # q
      <4>1. SUFFICES ASSUME NEW m \in Installations PROVE installation'[m].person # q
        OBVIOUS
      <4>2. \/ installation'[m].person = None
            \/ installation'[m] = installation[m] /\ installation[m].person \notin P
        BY <2>4
      <4>3. person[q] = "deleted" => installation[m].person # q
        BY DEF Links
      <4>4. q # None
        BY NoneAssumption
      <4>. QED
        BY <3>1, <4>2, <4>3, <4>4, Zenon
    <3>. QED
      BY <3>2, <3>3, <3>4
  <2>. QED
    BY <2>5, <2>6, <2>7, <2>8 DEF Links
<1>. QED
  BY <1>4, <1>5, <1>6, StepKinds

\* Empty tables link nothing.
LEMMA InitLinks == Init => Links
<1> SUFFICES ASSUME Init PROVE Links
  OBVIOUS
<1>1. /\ \A s \in Subjects : alias[s] = NoAlias
      /\ \A p \in Persons : person[p] = "absent"
      /\ \A n \in Installations : <<"installation", n>> \in Subjects
  BY DEF Init, Subjects
<1>2. \A s \in Subjects : ~alias[s].present
  BY <1>1 DEF NoAlias
<1>. QED
  BY <1>1, <1>2 DEF Links, AliasFollowsLink

\* The aliases and what they name, through every interleaving of registrations,
\* requests that end between two transactions, and erasures.
THEOREM LinksInvariant == Spec => []Links
<1>1. Init => Links
  BY InitLinks
<1>2. Shape /\ Keys /\ Directory /\ Links /\ [Next]_vars => Links'
  BY StepLinks
<1>. QED
  BY <1>1, <1>2, DirectoryInvariant, PTL DEF Spec

\* The alias of an installation and the installation name the same person,
\* although linkInstallation and EnsureSubjectAlias run in different
\* transactions and either may be the later one.
THEOREM AliasesFollow == Spec => []AliasFollowsLink
<1>1. Links => AliasFollowsLink
  BY DEF Links
<1>. QED
  BY <1>1, LinksInvariant, PTL

\* Nothing leads to a person who was erased for good, and no request that was
\* under way brings an alias of an erased subject back.
THEOREM ErasureComplete == Spec => []ErasedLeavesNoTrace
<1>1. ASSUME Shape, Directory, EvidenceReplacesVerification, Links PROVE ErasedLeavesNoTrace
  <2>1. ASSUME NEW p \in Persons, person[p] = "deleted"
        PROVE  /\ identity[p] = None
               /\ \A e \in Emails, k \in Versions : blind[e][k] # p
               /\ \A v \in Verifications : audit[v].person # p
    BY <1>1, <2>1, NoneAssumption DEF Directory, IndexesFindIdentity, EvidenceReplacesVerification
  <2>. QED
    BY <1>1, <2>1 DEF Links, ErasedLeavesNoTrace
<1>. QED
  BY <1>1, DirectoryInvariant, EvidenceStands, LinksInvariant, PTL

-----------------------------------------------------------------------------
(* Claims. *)

\* A claim within its lease is ended by its holder or by the erasure of its
\* installation; nobody else touches the row.
THEOREM ClaimsKept == Spec => LiveClaimKept
<1> DEFINE Kept(v) ==
          \/ verification'[v] = verification[v]
          \/ call[verification[v].token].stage \in {"claimed", "releasing"}
             /\ call'[verification[v].token] # call[verification[v].token]
          \/ \E n \in Installations \cap {verification[v].installation} :
                 installation[n].state = "active" /\ installation'[n].state = "disabled"
<1>1. ASSUME Shape, Keys, Directory, [Next]_vars, NEW v \in Verifications, Held(v) PROVE Kept(v)
  <2>0. /\ VerificationTyped /\ CallsTyped /\ Rows /\ now \in 0..Horizon
        /\ Lease \in Nat
        /\ verification[v].token # None /\ verification[v].at + Lease > now
        /\ verification[v].at \in Nat /\ verification[v].state = "open"
    <3>1. VerificationTyped /\ CallsTyped /\ Rows /\ now \in 0..Horizon
      BY <1>1 DEF Shape, Types
    <3>2. Lease \in Nat
      BY DurationAssumption
    <3>3. verification[v].token # None /\ verification[v].at + Lease > now
      BY <1>1 DEF Held
    <3>4. verification[v].at \in Nat
      BY <3>1 DEF VerificationTyped, VerificationRow
    <3>5. verification[v].state = "open"
      BY <3>1, <3>3 DEF Rows
    <3>. QED
      BY <3>1, <3>2, <3>3, <3>4, <3>5
  <2>1. ASSUME NEW i \in Instances, NEW w \in Verifications, NEW e \in Emails, NEW n \in Installations \cup {None},
               BeginEmailVerification(i, w, e, n)
        PROVE  Kept(v)
    <3>1. w # v
      BY <2>0, <2>1 DEF BeginEmailVerification
    <3>. QED
      BY <2>0, <2>1, <3>1 DEF BeginEmailVerification, VerificationTyped
  <2>2. ASSUME NEW i \in Instances, NEW w \in Verifications, ClaimVerifiedEmail(i, w) PROVE Kept(v)
    <3>1. PICK t \in ClockReads : /\ Claimable(w, t)
                                  /\ verification' = [verification EXCEPT ![w].token = i, ![w].at = t]
      BY <2>2 DEF ClaimVerifiedEmail
    <3>2. w # v
      BY <2>0, <3>1, ClockBounds DEF Claimable
    <3>. QED
      BY <2>0, <3>1, <3>2 DEF VerificationTyped
  <2>3. ASSUME NEW i \in Instances, ReleaseEmailVerification(i) PROVE Kept(v)
    <3>1. CASE verification[v].token = i
      BY <2>0, <2>3, <3>1 DEF ReleaseEmailVerification, Idle, CallsTyped
    <3>2. CASE verification[v].token # i
      BY <2>0, <2>3, <3>2 DEF ReleaseEmailVerification, VerificationTyped
    <3>. QED
      BY <3>1, <3>2
  <2>4. ASSUME NEW w \in Verifications, VerifyEmailOwnership(w) PROVE Kept(v)
    BY <2>0, <2>4 DEF VerifyEmailOwnership, VerificationTyped
  <2>5. ASSUME DeleteExpiredEmailVerifications PROVE Kept(v)
    <3>0. PICK t \in ClockReads : \E T \in Portion(Expired(t)) :
             verification' = [w \in Verifications |-> IF w \in T THEN Gone ELSE verification[w]]
      BY <2>5 DEF DeleteExpiredEmailVerifications
    <3>1. PICK T \in Portion(Expired(t)) :
             verification' = [w \in Verifications |-> IF w \in T THEN Gone ELSE verification[w]]
      BY <3>0
    <3>2. v \notin Expired(t)
      BY <2>0, ClockBounds DEF Expired
    <3>3. v \notin T
      BY <3>1, <3>2 DEF Portion
    <3>. QED
      BY <3>1, <3>3
  <2>6. CASE Aside
    <3>1. CASE UNCHANGED verification
      BY <3>1
    <3>. QED
      BY <2>1, <2>2, <2>3, <2>4, <2>5, <2>6, <3>1 DEF Aside, CreateInstallation, CompleteFails,
         EnsureSubjectAlias, Abandon, Rotate, Start, Tick, vars, tables
  <2>7. ASSUME NEW i \in Instances, NEW w \in Verifications, NEW e, NEW n, NEW k, NEW p, Registers(i, w, e, n, k, p)
        PROVE  Kept(v)
    <3>1. CASE w = v
      <4>1. PICK c \in Call : call' = [call EXCEPT ![i] = c] /\ c.stage \in {"alias", "releasing"}
        BY <2>7 DEF Registers
      <4>2. verification[v].token = i /\ call[i].stage = "claimed"
        BY <2>7, <3>1 DEF Registers
      <4>3. call'[i] # call[i]
        BY <2>0, <4>1, <4>2 DEF CallsTyped
      <4>. QED
        BY <4>2, <4>3
    <3>2. CASE w # v
      BY <2>0, <2>7, <3>2 DEF Registers, VerificationTyped
    <3>. QED
      BY <3>1, <3>2
  <2>8. ASSUME NEW N \in SUBSET Installations, NEW P, NEW R, Erases(N, P, R) PROVE Kept(v)
    <3>1. CASE verification[v].installation \in N
      <4>1. installation[verification[v].installation].state = "active"
        BY <2>0, <3>1, NoneAssumption DEF Rows
      <4>2. installation'[verification[v].installation].state = "disabled"
        BY <2>8, <3>1 DEF Erases, EraseRecords
      <4>. QED
        BY <3>1, <4>1, <4>2
    <3>2. CASE verification[v].installation \notin N
      BY <2>8, <3>2 DEF Erases, EraseRecords
    <3>. QED
      BY <3>1, <3>2
  <2> HIDE DEF Kept
  <2>. QED
    BY <1>1, <2>6, <2>7, <2>8, StepKinds
<1>2. Shape /\ Keys /\ Directory /\ [Next]_vars => [\A v \in Verifications : Held(v) => Kept(v)]_vars
  <2> HIDE DEF Kept
  <2>. QED
    BY <1>1
<1>3. Spec => [][\A v \in Verifications : Held(v) => Kept(v)]_vars
  <2> HIDE DEF Kept
  <2>. QED
    BY <1>2, DirectoryInvariant, PTL DEF Spec
<1>. QED
  BY <1>3 DEF LiveClaimKept
=============================================================================
