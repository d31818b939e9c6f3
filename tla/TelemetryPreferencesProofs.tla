--------------------- MODULE TelemetryPreferencesProofs ---------------------
(***************************************************************************)
(* Proofs about TelemetryPreferences, for any installations, workloads,    *)
(* policy versions and clock tolerances.                                   *)
(*                                                                         *)
(* The rows of installations exist exactly while the installations are     *)
(* active (RowsOfActive), so a registration never meets a row and an       *)
(* active installation never gets its first row from a workload.  On that  *)
(* rest NoBackdating and DenialEmitsOnce.  ErasedHasNoConsent is inductive *)
(* with the types alone.                                                   *)
(* DenialStopsTokens needs to know who writes the row of an installation   *)
(* that is not linked: only statements about its own key (KeysAndRoots),   *)
(* so the row holds the last word on the key (LastWord), and it only moves *)
(* forward from the denial a request for a token began with (Began).       *)
(***************************************************************************)
EXTENDS TelemetryPreferences, TLAPS

Row == [value : Values, at : Times]

RowsOfActive == \A n \in Installations : preference[n] # None <=> installation[n] = "active"

\* A stamp is a time of the model.
LEMMA StampsAreTimes == TypeOK => Stamps \subseteq Times
BY TimeAssumption DEF TypeOK, Stamps, Times

\* Statements of the model are rows, and no row is NULL.
LEMMA StatementsAreRows ==
    \A value \in Values, at \in Times :
        /\ Statement(value, at) \in Row /\ Statement(value, at) # None
        /\ Statement(value, at).value = value /\ Statement(value, at).at = at
        /\ DenialOnly(Statement(value, at)) \in Row \cup {None}
BY NullAssumption DEF Statement, Row, DenialOnly

-----------------------------------------------------------------------------
\* The initial state is typed.
LEMMA InitTyped == Init => TypeOK
BY TimeAssumption, PolicyAssumption DEF Init, TypeOK, NoExchange, Policies

\* Registration, the broker's denial and the requests for tokens keep the types.
LEMMA OwnerTyped ==
    ASSUME TypeOK, NEW n \in Installations, Owner(n)
    PROVE  TypeOK'
<1> USE DEF Row
<1>1. ASSUME NEW value \in Values, NEW at \in Times, NEW p \in Policies,
             RegisterPublicInstallation(n, value, at, p)
      PROVE  TypeOK'
  <2>1. n \in Roots /\ [value |-> value, at |-> at, policy |-> p] \in [value : Values, at : Times, policy : Policies]
    BY DEF Roots
  <2>2. installation' \in [Installations -> {"absent", "active", "disabled"}]
    BY <1>1 DEF RegisterPublicInstallation, TypeOK
  <2>3. body' \in [Installations -> [value : Values, at : Times, policy : Policies] \cup {None}]
    BY <1>1, <2>1 DEF RegisterPublicInstallation, TypeOK
  <2>4. preference' \in [Roots -> [value : Values, at : Times] \cup {None}]
    BY <1>1, <2>1, StatementsAreRows DEF RegisterPublicInstallation, TypeOK
  <2>5. denial' \in [Installations -> [value : Values, at : Times] \cup {None}]
    BY <1>1, StatementsAreRows DEF RegisterPublicInstallation, TypeOK
  <2>6. consents' \subseteq Roots
    BY <1>1, <2>1 DEF RegisterPublicInstallation, TypeOK
  <2>7. emitted' \in {<<>>} \cup {<<[root |-> r, key |-> k]>> : r \in Roots, k \in Roots}
    BY <1>1, <2>1 DEF RegisterPublicInstallation, Suppress
  <2>8. exchange' \in [Installations -> [stage : {"idle", "authenticated", "allowed"},
                                         began : [value : Values, at : Times] \cup {None}]]
    BY <1>1 DEF RegisterPublicInstallation, TypeOK
  <2>9. UNCHANGED <<now, policy, linked, person, call>>
    BY <1>1 DEF RegisterPublicInstallation
  <2>. QED
    BY <2>2, <2>3, <2>4, <2>5, <2>6, <2>7, <2>8, <2>9 DEF TypeOK
<1>2. ASSUME NEW p \in Policies, NEW at \in Times, DenyPublicInstallation(n, p, at)
      PROVE  TypeOK'
  <2>1. n \in Roots /\ "denied" \in Values
    BY DEF Roots, Values
  <2>2. preference' \in [Roots -> [value : Values, at : Times] \cup {None}]
    BY <1>2, <2>1, StatementsAreRows DEF DenyPublicInstallation, TypeOK
  <2>3. consents' \subseteq Roots
    BY <1>2, <2>1 DEF DenyPublicInstallation, TypeOK
  <2>4. emitted' \in {<<>>} \cup {<<[root |-> r, key |-> k]>> : r \in Roots, k \in Roots}
    BY <1>2, <2>1 DEF DenyPublicInstallation, Suppress
  <2>5. denial' \in [Installations -> [value : Values, at : Times] \cup {None}]
    BY <1>2, <2>1, <2>2 DEF DenyPublicInstallation, TypeOK
  <2>6. UNCHANGED <<now, policy, installation, linked, person, body, exchange, call>>
    BY <1>2 DEF DenyPublicInstallation, subjects
  <2>. QED
    BY <2>2, <2>3, <2>4, <2>5, <2>6 DEF TypeOK
<1>3. CASE RepeatRegistration(n) \/ authenticate(n) \/ Refresh(n) \/ issueAccess(n)
  <2>0. /\ exchange \in [Installations -> [stage : {"idle", "authenticated", "allowed"},
                                          began : [value : Values, at : Times] \cup {None}]]
        /\ denial[n] \in [value : Values, at : Times] \cup {None}
    BY DEF TypeOK
  <2>1. exchange' \in [Installations -> [stage : {"idle", "authenticated", "allowed"},
                                         began : [value : Values, at : Times] \cup {None}]]
    <3>1. \E x : /\ exchange' = [exchange EXCEPT ![n] = x]
                 /\ x \in {[stage |-> "allowed", began |-> denial[n]], [stage |-> "authenticated", began |-> denial[n]],
                           [exchange[n] EXCEPT !.stage = "allowed"], NoExchange}
      BY <1>3 DEF RepeatRegistration, authenticate, Refresh, issueAccess
    <3>. QED
      BY <2>0, <3>1 DEF NoExchange
  <2>2. Silent /\ UNCHANGED <<now, policy, subjects, body, call>>
    BY <1>3 DEF RepeatRegistration, authenticate, Refresh, issueAccess
  <2>. QED
    BY <2>1, <2>2 DEF Silent, subjects, TypeOK
<1>. QED
  BY <1>1, <1>2, <1>3, StampsAreTimes DEF Owner, Values

\* So do the requests of product workloads, ...
LEMMA WorkloadTyped ==
    ASSUME TypeOK, NEW w \in Workloads, Workload(w)
    PROVE  TypeOK'
<1>1. ASSUME NEW key \in Roots, NEW value \in Values \cup {"consent"}, NEW at \in Times,
             ResolveSubjectAlias(w, key, value, at)
      PROVE  TypeOK'
  <2>1. rootSubject(key) \in Roots
    BY DEF rootSubject, Roots
  <2>2. call' \in [Workloads -> [key : Roots, root : Roots, value : Values \cup {"consent"}, at : Times] \cup {None}]
    BY <1>1, <2>1 DEF ResolveSubjectAlias, TypeOK
  <2>. QED
    BY <1>1, <2>2 DEF ResolveSubjectAlias, Silent, subjects, TypeOK
<1>2. CASE SetTelemetryPreference(w)
  <2> DEFINE c == call[w]
  <2>1. c.key \in Roots /\ c.root \in Roots /\ c.value \in Values /\ c.at \in Times
    BY <1>2 DEF SetTelemetryPreference, TypeOK
  <2>2. preference' \in [Roots -> [value : Values, at : Times] \cup {None}]
    BY <1>2, <2>1, StatementsAreRows DEF SetTelemetryPreference, TypeOK, Row
  <2>3. emitted' \in {<<>>} \cup {<<[root |-> r, key |-> k]>> : r \in Roots, k \in Roots}
    BY <1>2, <2>1 DEF SetTelemetryPreference, Suppress
  <2>4. denial' \in [Installations -> [value : Values, at : Times] \cup {None}]
    BY <1>2, <2>1, StatementsAreRows DEF SetTelemetryPreference, TypeOK, Row, Roots
  <2>5. call' \in [Workloads -> [key : Roots, root : Roots, value : Values \cup {"consent"}, at : Times] \cup {None}]
    BY <1>2 DEF SetTelemetryPreference, TypeOK
  <2> HIDE DEF c
  <2>. QED
    BY <1>2, <2>2, <2>3, <2>4, <2>5 DEF SetTelemetryPreference, subjects, TypeOK
<1>3. CASE Refuse(w)
  BY <1>3 DEF Refuse, Silent, subjects, TypeOK
<1>4. CASE CreateConsent(w)
  <2>1. call[w].root \in Roots
    BY <1>4 DEF CreateConsent, TypeOK
  <2>2. consents' \subseteq Roots
    BY <1>4, <2>1 DEF CreateConsent, TypeOK
  <2>3. call' \in [Workloads -> [key : Roots, root : Roots, value : Values \cup {"consent"}, at : Times] \cup {None}]
    BY <1>4 DEF CreateConsent, TypeOK
  <2>. QED
    BY <1>4, <2>2, <2>3 DEF CreateConsent, subjects, TypeOK
<1>5. now \in Times
  BY TimeAssumption DEF TypeOK, Times
<1>. QED
  BY <1>1, <1>2, <1>3, <1>4, <1>5, StampsAreTimes DEF Workload, Values

\* ... and everything else.
LEMMA StepTyped == TypeOK /\ [Next]_vars => TypeOK'
<1> SUFFICES ASSUME TypeOK, [Next]_vars PROVE TypeOK'
  OBVIOUS
<1>1. ASSUME NEW n \in Installations, linkInstallation(n)
      PROVE  TypeOK'
  BY <1>1 DEF linkInstallation, Silent, TypeOK
<1>2. ASSUME NEW R, EraseRecords(R), person' \in {"live", "emptied", "erased"}
      PROVE  TypeOK'
  <2>1. installation' \in [Installations -> {"absent", "active", "disabled"}]
    BY <1>2 DEF EraseRecords, TypeOK
  <2>2. preference' \in [Roots -> [value : Values, at : Times] \cup {None}]
    BY <1>2 DEF EraseRecords, TypeOK
  <2>3. consents' \subseteq Roots
    BY <1>2 DEF EraseRecords, TypeOK
  <2>4. denial' \in [Installations -> [value : Values, at : Times] \cup {None}]
    BY <1>2 DEF EraseRecords, TypeOK
  <2>5. body' \in [Installations -> [value : Values, at : Times, policy : Policies] \cup {None}]
    BY <1>2 DEF EraseRecords, TypeOK
  <2>6. emitted' = <<>> /\ UNCHANGED <<now, policy, linked, exchange, call>>
    BY <1>2 DEF EraseRecords
  <2>. QED
    BY <1>2, <2>1, <2>2, <2>3, <2>4, <2>5, <2>6 DEF TypeOK
<1>3. ASSUME NEW n \in Installations, eraseInstallation(n)
      PROVE  TypeOK'
  BY <1>2, <1>3 DEF eraseInstallation, TypeOK
<1>4. ASSUME NEW status \in {"emptied", "erased"}, erasePerson(status)
      PROVE  TypeOK'
  BY <1>2, <1>4 DEF erasePerson
<1>5. CASE RollPolicy
  BY <1>5, PolicyAssumption DEF RollPolicy, Silent, subjects, Policies, TypeOK
<1>6. CASE Tick
  BY <1>6, TimeAssumption DEF Tick, Silent, subjects, TypeOK
<1>7. CASE UNCHANGED vars
  BY <1>7 DEF vars, subjects, TypeOK
<1>. QED
  BY <1>1, <1>3, <1>4, <1>5, <1>6, <1>7, OwnerTyped, WorkloadTyped DEF Next

-----------------------------------------------------------------------------
(***************************************************************************)
(* How a step changes the rows: it leaves them alone, erases some, or       *)
(* writes one.                                                              *)
(***************************************************************************)

\* Registration, the broker's denial and a workload's statement write one row.
Writes(r, row) ==
    /\ r \in Roots /\ row \in Row
    /\ preference' = [preference EXCEPT ![r] = row]
    /\ IF IsDenial(row) /\ ~IsDenial(preference[r])
       THEN \E key \in Roots : emitted' = <<[root |-> r, key |-> key]>>
       ELSE emitted' = <<>>

Quiet == UNCHANGED preference /\ emitted' = <<>>

\* The row a registration writes is denied exactly when the registration denies.
LEMMA RegistrationWrites ==
    ASSUME TypeOK, RowsOfActive, NEW n \in Installations, NEW value \in Values, NEW at \in Times,
           NEW p \in Policies, RegisterPublicInstallation(n, value, at, p)
    PROVE  /\ Writes(n, Statement(value, at)) /\ preference[n] = None
           /\ installation' = [installation EXCEPT ![n] = "active"] /\ UNCHANGED person
<1>1. n \in Roots /\ Statement(value, at) \in Row /\ Statement(value, at).value = value
  BY StatementsAreRows DEF Roots
<1>2. preference[n] = None
  BY DEF RowsOfActive, RegisterPublicInstallation
<1>3. IsDenial(Statement(value, at)) <=> value = "denied"
  BY StatementsAreRows DEF IsDenial
<1>4. ~IsDenial(preference[n])
  BY <1>2 DEF IsDenial
<1>5. /\ preference' = [preference EXCEPT ![n] = Statement(value, at)]
      /\ installation' = [installation EXCEPT ![n] = "active"] /\ UNCHANGED person
      /\ IF value = "denied" THEN emitted' = <<[root |-> n, key |-> n]>> ELSE emitted' = <<>>
  BY DEF RegisterPublicInstallation, Suppress
<1>. QED
  BY <1>1, <1>2, <1>3, <1>4, <1>5 DEF Writes

\* The broker's denial writes a later row or none.
LEMMA DenialWrites ==
    ASSUME TypeOK, NEW n \in Installations, NEW at \in Times, NEW p \in Policies,
           DenyPublicInstallation(n, p, at)
    PROVE  /\ \/ Quiet /\ IsDenial(preference[n])
              \/ /\ Writes(n, Statement("denied", at)) /\ at > preference[n].at
                 /\ ~IsDenial(preference[n])
           /\ UNCHANGED <<installation, person, linked>> /\ installation[n] = "active" /\ preference[n] # None
<1>1. n \in Roots /\ Statement("denied", at) \in Row /\ IsDenial(Statement("denied", at))
  BY StatementsAreRows DEF Roots, IsDenial, Values
<1>2. CASE IsDenial(preference[n])
  BY <1>2 DEF DenyPublicInstallation, Quiet, subjects
<1>3. CASE ~IsDenial(preference[n])
  <2>1. /\ preference' = [preference EXCEPT ![n] = Statement("denied", at)]
        /\ emitted' = <<[root |-> n, key |-> n]>> /\ at > preference[n].at
        /\ UNCHANGED <<installation, person, linked>> /\ installation[n] = "active" /\ preference[n] # None
    BY <1>3 DEF DenyPublicInstallation, Suppress, subjects
  <2>. QED
    BY <1>1, <1>3, <2>1 DEF Writes
<1>. QED
  BY <1>2, <1>3

\* A workload's statement supersedes the row it writes.
LEMMA StatementWrites ==
    ASSUME TypeOK, NEW w \in Workloads, SetTelemetryPreference(w)
    PROVE  LET c == call[w] IN
           /\ Writes(c.root, Statement(c.value, c.at)) /\ validSubject(c.root)
           /\ preference[c.root] # None =>
                 c.at > preference[c.root].at \/ Statement(c.value, c.at) = preference[c.root]
           /\ UNCHANGED <<installation, person, linked, exchange>>
<1> DEFINE c == call[w]
           row == preference[c.root]
<1>1. c.key \in Roots /\ c.root \in Roots /\ c.value \in Values /\ c.at \in Times
  BY DEF SetTelemetryPreference, TypeOK
<1>2. Statement(c.value, c.at) \in Row /\ (IsDenial(Statement(c.value, c.at)) <=> c.value = "denied")
  BY <1>1, StatementsAreRows DEF IsDenial
<1>3. /\ preference' = [preference EXCEPT ![c.root] = Statement(c.value, c.at)] /\ validSubject(c.root)
      /\ IF c.value = "denied" /\ ~IsDenial(row) THEN emitted' = <<[root |-> c.root, key |-> c.key]>> ELSE emitted' = <<>>
      /\ Supersedes(c, row) /\ UNCHANGED <<installation, person, linked, exchange>>
  BY DEF SetTelemetryPreference, Suppress, Suppresses, subjects
<1>4. row # None => row \in Row
  BY <1>1 DEF TypeOK, Row
<1>5. row # None /\ c.at = row.at /\ c.value = row.value => Statement(c.value, c.at) = row
  BY <1>4 DEF Statement, Row
<1>6. Writes(c.root, Statement(c.value, c.at))
  BY <1>1, <1>2, <1>3 DEF Writes
<1>. QED
  BY <1>3, <1>5, <1>6 DEF Supersedes

\* A workload's consent writes no preference and no event.
LEMMA ConsentIsQuiet ==
    ASSUME NEW w \in Workloads, CreateConsent(w)
    PROVE  Quiet /\ UNCHANGED <<installation, person, linked, body, denial, exchange>>
BY DEF CreateConsent, Quiet, subjects

\* The other steps of the system, which leave rows, events, consents and
\* registrations alone.
Aside ==
    \/ \E n \in Installations :
          RepeatRegistration(n) \/ authenticate(n) \/ Refresh(n) \/ issueAccess(n) \/ linkInstallation(n)
    \/ \E w \in Workloads :
          \/ \E key \in Roots, value \in {"allowed", "denied"}, at \in Stamps : ResolveSubjectAlias(w, key, value, at)
          \/ \E key \in Roots : ResolveSubjectAlias(w, key, "consent", now)
          \/ Refuse(w)
    \/ RollPolicy \/ Tick

\* They are silent.
LEMMA AsideIsSilent ==
    Aside => Quiet /\ UNCHANGED <<installation, person, body, consents, denial>>
BY DEF Aside, RepeatRegistration, authenticate, Refresh, issueAccess, linkInstallation, ResolveSubjectAlias,
       Refuse, RollPolicy, Tick, Silent, subjects, Quiet

\* Erasure is of one installation, or of the person with the linked ones.
ErasureOf(R) ==
    /\ EraseRecords(R)
    /\ \/ \E n \in Installations : R = {n} /\ UNCHANGED person
       \/ R = {Person} \cup {n \in Installations : linked[n]}

\* The kinds of steps.
LEMMA StepKinds ==
    ASSUME TypeOK, Next
    PROVE  \/ \E n \in Installations, value \in Values, at \in Times, p \in Policies :
                 RegisterPublicInstallation(n, value, at, p)
           \/ \E n \in Installations, at \in Times, p \in Policies : DenyPublicInstallation(n, p, at)
           \/ \E w \in Workloads : SetTelemetryPreference(w)
           \/ \E w \in Workloads : CreateConsent(w)
           \/ \E R : ErasureOf(R)
           \/ Aside
<1>1. ASSUME NEW n \in Installations, eraseInstallation(n)
      PROVE  \E R : ErasureOf(R)
  BY <1>1 DEF eraseInstallation, ErasureOf
<1>2. ASSUME NEW status \in {"emptied", "erased"}, erasePerson(status)
      PROVE  \E R : ErasureOf(R)
  BY <1>2 DEF erasePerson, ErasureOf
<1>3. ASSUME NEW n \in Installations, Owner(n)
      PROVE  \/ \E value \in Values, at \in Times, p \in Policies : RegisterPublicInstallation(n, value, at, p)
             \/ \E at \in Times, p \in Policies : DenyPublicInstallation(n, p, at)
             \/ Aside
  BY <1>3, StampsAreTimes DEF Owner, Values, Aside
<1>4. ASSUME NEW w \in Workloads, Workload(w)
      PROVE  SetTelemetryPreference(w) \/ CreateConsent(w) \/ Aside
  BY <1>4 DEF Workload, Aside
<1>. QED
  BY <1>1, <1>2, <1>3, <1>4 DEF Next, Aside

-----------------------------------------------------------------------------
RowInv ==
    /\ TypeOK /\ RowsOfActive
    /\ preference[Person] # None => person # "erased"

\* Rows exist for subjects that are there; a registration makes the first row of
\* an installation and erasure takes row and subject together.
LEMMA StepRows == RowInv /\ [Next]_vars => RowInv'
<1> SUFFICES ASSUME RowInv, [Next]_vars
             PROVE  RowsOfActive' /\ (preference'[Person] # None => person' # "erased")
  BY StepTyped DEF RowInv
<1> USE DEF RowInv
<1>0. Person \in Roots /\ Installations \subseteq Roots /\ Person \notin Installations
  BY SubjectAssumption DEF Roots
<1>1. ASSUME NEW n \in Installations, NEW value \in Values, NEW at \in Times, NEW p \in Policies,
             RegisterPublicInstallation(n, value, at, p)
      PROVE  RowsOfActive' /\ (preference'[Person] # None => person' # "erased")
  <2>1. /\ Writes(n, Statement(value, at)) /\ UNCHANGED person
        /\ installation' = [installation EXCEPT ![n] = "active"]
    BY <1>1, RegistrationWrites
  <2>2. Statement(value, at) # None
    BY StatementsAreRows
  <2>. QED
    BY <1>0, <2>1, <2>2 DEF Writes, RowsOfActive, TypeOK
<1>2. ASSUME NEW r \in Roots, NEW row \in Row, Writes(r, row), UNCHANGED <<installation, person>>, validSubject(r)
      PROVE  RowsOfActive' /\ (preference'[Person] # None => person' # "erased")
  <2>1. row # None
    BY NullAssumption DEF Row
  <2>. QED
    BY <1>0, <1>2, <2>1 DEF Writes, RowsOfActive, TypeOK, validSubject
<1>3. ASSUME NEW n \in Installations, NEW at \in Times, NEW p \in Policies, DenyPublicInstallation(n, p, at)
      PROVE  RowsOfActive' /\ (preference'[Person] # None => person' # "erased")
  <2>1. \/ Quiet /\ UNCHANGED <<installation, person>>
        \/ Writes(n, Statement("denied", at)) /\ UNCHANGED <<installation, person>> /\ installation[n] = "active"
    BY <1>3, DenialWrites
  <2>2. validSubject(n) <=> installation[n] = "active"
    BY SubjectAssumption DEF validSubject
  <2>3. CASE Quiet /\ UNCHANGED <<installation, person>>
    BY <2>3 DEF Quiet, RowsOfActive
  <2>. QED
    BY <1>2, <2>1, <2>2, <2>3 DEF Writes
<1>4. ASSUME NEW w \in Workloads, SetTelemetryPreference(w)
      PROVE  RowsOfActive' /\ (preference'[Person] # None => person' # "erased")
  <2> DEFINE c == call[w]
  <2>1. /\ Writes(c.root, Statement(c.value, c.at)) /\ validSubject(c.root)
        /\ UNCHANGED <<installation, person>>
    BY <1>4, StatementWrites
  <2>. QED
    BY <1>2, <2>1 DEF Writes
<1>5. ASSUME NEW R, ErasureOf(R)
      PROVE  RowsOfActive' /\ (preference'[Person] # None => person' # "erased")
  <2>1. /\ \A r \in Roots : preference'[r] = IF r \in R THEN None ELSE preference[r]
        /\ \A n \in Installations : installation'[n] = IF n \in R THEN "disabled" ELSE installation[n]
    BY <1>5 DEF ErasureOf, EraseRecords
  <2>2. Person \in R \/ UNCHANGED person
    BY <1>5 DEF ErasureOf
  <2>. QED
    BY <1>0, <2>1, <2>2 DEF RowsOfActive
<1>6. CASE Aside
  BY <1>6, AsideIsSilent DEF Quiet, RowsOfActive
<1>7. CASE UNCHANGED vars
  BY <1>7 DEF vars, subjects, RowsOfActive
<1>8. ASSUME NEW w \in Workloads, CreateConsent(w)
      PROVE  RowsOfActive' /\ (preference'[Person] # None => person' # "erased")
  BY <1>8, ConsentIsQuiet DEF Quiet, RowsOfActive
<1>. QED
  BY <1>1, <1>3, <1>4, <1>5, <1>6, <1>7, <1>8, StepKinds

\* The rows and their subjects, in every state.
THEOREM RowInvariant == Spec => []RowInv
<1>1. Init => RowInv
  BY InitTyped, SubjectAssumption DEF Init, RowInv, RowsOfActive, Roots
<1>. QED
  BY <1>1, StepRows, PTL DEF Spec

\* The row of an erased or disabled subject does not come back, although a
\* workload's request may have resolved the subject before the erasure.
THEOREM ErasedStaysWithoutRow == Spec => []ErasedHasNoPreference
<1>1. RowInv => ErasedHasNoPreference
  BY DEF RowInv, RowsOfActive, ErasedHasNoPreference, validSubject, Roots
<1>. QED
  BY <1>1, RowInvariant, PTL

-----------------------------------------------------------------------------
(* What a step does to a row that is there. *)

\* A row moves forward in recorded time or stays.
LEMMA StepForward ==
    ASSUME RowInv, [Next]_vars, NEW r \in Roots, preference[r] # None, preference'[r] # None
    PROVE  preference'[r] = preference[r] \/ preference'[r].at > preference[r].at
<1> USE DEF RowInv
<1>1. ASSUME NEW n \in Installations, NEW value \in Values, NEW at \in Times, NEW p \in Policies,
             RegisterPublicInstallation(n, value, at, p)
      PROVE  preference'[r] = preference[r]
  BY <1>1, RegistrationWrites, SMTT(30) DEF Writes, TypeOK
<1>2. ASSUME NEW n \in Installations, NEW at \in Times, NEW p \in Policies, DenyPublicInstallation(n, p, at)
      PROVE  preference'[r] = preference[r] \/ preference'[r].at > preference[r].at
  <2>1. Statement("denied", at).at = at
    BY StatementsAreRows DEF Values
  <2>. QED
    BY <1>2, <2>1, DenialWrites, SMTT(30) DEF Quiet, Writes, TypeOK
<1>3. ASSUME NEW w \in Workloads, SetTelemetryPreference(w)
      PROVE  preference'[r] = preference[r] \/ preference'[r].at > preference[r].at
  <2> DEFINE c == call[w]
  <2>1. /\ Writes(c.root, Statement(c.value, c.at))
        /\ preference[c.root] # None =>
              c.at > preference[c.root].at \/ Statement(c.value, c.at) = preference[c.root]
    BY <1>3, StatementWrites
  <2>2. Statement(c.value, c.at).at = c.at
    BY DEF Statement
  <2> HIDE DEF c
  <2>. QED
    BY <2>1, <2>2, SMTT(30) DEF Writes, TypeOK
<1>4. ASSUME NEW R, ErasureOf(R)
      PROVE  preference'[r] = preference[r]
  BY <1>4 DEF ErasureOf, EraseRecords
<1>5. CASE Aside
  BY <1>5, AsideIsSilent DEF Quiet
<1>6. CASE UNCHANGED vars
  BY <1>6 DEF vars
<1>7. ASSUME NEW w \in Workloads, CreateConsent(w)
      PROVE  preference'[r] = preference[r]
  BY <1>7, ConsentIsQuiet DEF Quiet
<1>. QED
  BY <1>1, <1>2, <1>3, <1>4, <1>5, <1>6, <1>7, StepKinds

\* Statements that arrive late do not undo later ones, whichever party, owner or
\* workload, sent them.
THEOREM NeverBackdated == Spec => NoBackdating
<1>1. RowInv /\ [Next]_vars =>
        [\A r \in Roots : preference[r] # None /\ preference'[r] # None =>
             \/ preference'[r] = preference[r]
             \/ preference'[r].at > preference[r].at]_vars
  BY StepForward
<1>. QED
  BY <1>1, RowInvariant, PTL DEF Spec, NoBackdating

\* The rows a step turns into denials, and what it tells Metric.
NewlyDenied == {r \in Roots : IsDenial(preference'[r]) /\ ~IsDenial(preference[r])}
EmitsOnce ==
    IF NewlyDenied = {} THEN emitted' = <<>>
    ELSE \E key \in Roots : \A r \in NewlyDenied : emitted' = <<[root |-> r, key |-> key]>>

\* Whoever writes a row emits the event that the row calls for.
LEMMA WriterEmits ==
    ASSUME TypeOK, NEW r \in Roots, NEW row \in Row, Writes(r, row)
    PROVE  EmitsOnce
<1>1. \A q \in Roots : preference'[q] = IF q = r THEN row ELSE preference[q]
  BY DEF Writes, TypeOK
<1>2. CASE IsDenial(row) /\ ~IsDenial(preference[r])
  <2>1. NewlyDenied = {r}
    BY <1>1, <1>2 DEF NewlyDenied
  <2>2. PICK key \in Roots : emitted' = <<[root |-> r, key |-> key]>>
    BY <1>2 DEF Writes
  <2>. QED
    BY <2>1, <2>2 DEF EmitsOnce
<1>3. CASE ~(IsDenial(row) /\ ~IsDenial(preference[r]))
  <2>1. NewlyDenied = {}
    BY <1>1, <1>3 DEF NewlyDenied
  <2>. QED
    BY <1>3, <2>1 DEF EmitsOnce, Writes
<1>. QED
  BY <1>2, <1>3

\* Every step that changes the state emits what its rows call for.
LEMMA StepEmits == RowInv /\ Next => EmitsOnce
<1> SUFFICES ASSUME RowInv, Next PROVE EmitsOnce
  OBVIOUS
<1> USE DEF RowInv
<1>1. ASSUME NEW n \in Installations, NEW value \in Values, NEW at \in Times, NEW p \in Policies,
             RegisterPublicInstallation(n, value, at, p)
      PROVE  EmitsOnce
  BY <1>1, RegistrationWrites, WriterEmits DEF Writes
<1>2. CASE Quiet
  <2>1. NewlyDenied = {}
    BY <1>2 DEF Quiet, NewlyDenied
  <2>. QED
    BY <1>2, <2>1 DEF Quiet, EmitsOnce
<1>3. ASSUME NEW n \in Installations, NEW at \in Times, NEW p \in Policies, DenyPublicInstallation(n, p, at)
      PROVE  EmitsOnce
  BY <1>2, <1>3, DenialWrites, WriterEmits DEF Writes
<1>4. ASSUME NEW w \in Workloads, SetTelemetryPreference(w)
      PROVE  EmitsOnce
  BY <1>4, StatementWrites, WriterEmits DEF Writes
<1>5. ASSUME NEW R, ErasureOf(R)
      PROVE  EmitsOnce
  <2>1. emitted' = <<>> /\ \A r \in Roots : preference'[r] = IF r \in R THEN None ELSE preference[r]
    BY <1>5 DEF ErasureOf, EraseRecords
  <2>2. NewlyDenied = {}
    BY <2>1 DEF NewlyDenied, IsDenial
  <2>. QED
    BY <2>1, <2>2 DEF EmitsOnce
<1>. QED
  BY <1>1, <1>2, <1>3, <1>4, <1>5, AsideIsSilent, ConsentIsQuiet, StepKinds

\* A row becomes denied together with exactly one suppression event for it, and
\* no other step writes one.
THEOREM DenialsEmitOnce == Spec => DenialEmitsOnce
<1>1. RowInv /\ [Next]_vars =>
        [LET Denied == {r \in Roots : IsDenial(preference'[r]) /\ ~IsDenial(preference[r])}
         IN  IF Denied = {} THEN emitted' = <<>>
             ELSE \E key \in Roots : \A r \in Denied : emitted' = <<[root |-> r, key |-> key]>>]_vars
  BY StepEmits DEF EmitsOnce, NewlyDenied
<1>. QED
  BY <1>1, RowInvariant, PTL DEF Spec, DenialEmitsOnce

-----------------------------------------------------------------------------
(* Consents. *)

\* A registration and a denial add a consent of an installation that is active,
\* a workload's request looks at the root again, and erasure takes consents and
\* subject together.
LEMMA StepConsents == TypeOK /\ ErasedHasNoConsent /\ [Next]_vars => ErasedHasNoConsent'
<1> SUFFICES ASSUME TypeOK, ErasedHasNoConsent, [Next]_vars PROVE ErasedHasNoConsent'
  OBVIOUS
<1>0. consents \subseteq Roots /\ Person \notin Installations
  BY SubjectAssumption DEF TypeOK
<1>1. ASSUME UNCHANGED <<installation, person>>, \A r \in consents' : r \in consents \/ validSubject(r)
      PROVE  ErasedHasNoConsent'
  BY <1>1 DEF ErasedHasNoConsent, validSubject
<1>2. ASSUME NEW n \in Installations, NEW value \in Values, NEW at \in Times, NEW p \in Policies,
             RegisterPublicInstallation(n, value, at, p)
      PROVE  ErasedHasNoConsent'
  <2>1. /\ installation' = [installation EXCEPT ![n] = "active"] /\ UNCHANGED person
        /\ \A r \in consents' : r \in consents \/ r = n
    BY <1>2 DEF RegisterPublicInstallation
  <2>2. \A m \in Installations : installation[m] = "active" => installation'[m] = "active"
    BY <2>1 DEF TypeOK
  <2>3. installation'[n] = "active"
    BY <2>1 DEF TypeOK
  <2>. QED
    BY <1>0, <2>1, <2>2, <2>3 DEF ErasedHasNoConsent, validSubject, Roots
<1>3. ASSUME NEW n \in Installations, NEW at \in Times, NEW p \in Policies, DenyPublicInstallation(n, p, at)
      PROVE  ErasedHasNoConsent'
  <2>1. /\ installation[n] = "active" /\ UNCHANGED <<installation, person>>
        /\ \A r \in consents' : r \in consents \/ r = n
    BY <1>3 DEF DenyPublicInstallation, subjects
  <2>2. validSubject(n)
    BY <1>0, <2>1 DEF validSubject
  <2>. QED
    BY <1>1, <2>1, <2>2
<1>4. ASSUME NEW w \in Workloads, CreateConsent(w)
      PROVE  ErasedHasNoConsent'
  <2>1. /\ validSubject(call[w].root) /\ UNCHANGED <<installation, person>>
        /\ \A r \in consents' : r \in consents \/ r = call[w].root
    BY <1>4 DEF CreateConsent, subjects
  <2>. QED
    BY <1>1, <2>1
<1>5. ASSUME NEW R, ErasureOf(R)
      PROVE  ErasedHasNoConsent'
  <2>1. /\ \A n \in Installations : n \notin R => installation'[n] = installation[n]
        /\ consents' = consents \ R
        /\ Person \in R \/ UNCHANGED person
    BY <1>5 DEF ErasureOf, EraseRecords
  <2>. QED
    BY <1>0, <2>1 DEF ErasedHasNoConsent, validSubject, Roots
<1>6. ASSUME NEW w \in Workloads, SetTelemetryPreference(w)
      PROVE  ErasedHasNoConsent'
  BY <1>1, <1>6 DEF SetTelemetryPreference, subjects
<1>7. CASE Aside
  BY <1>1, <1>7, AsideIsSilent
<1>8. CASE UNCHANGED vars
  BY <1>1, <1>8 DEF vars, subjects
<1>. QED
  BY <1>2, <1>3, <1>4, <1>5, <1>6, <1>7, <1>8, StepKinds

\* No consent is kept, or comes back, of a subject that was erased or disabled,
\* although a workload's request may have resolved the subject before.
THEOREM ErasedStaysWithoutConsent == Spec => []ErasedHasNoConsent
<1>1. Init => ErasedHasNoConsent
  BY DEF Init, ErasedHasNoConsent
<1>2. RowInv /\ ErasedHasNoConsent /\ [Next]_vars => ErasedHasNoConsent'
  BY StepConsents DEF RowInv
<1>. QED
  BY <1>1, <1>2, RowInvariant, PTL DEF Spec

-----------------------------------------------------------------------------
(* Requests for tokens. *)

\* A request of a workload about an installation that is not linked is about the
\* installation's own row, and no other request is.
KeysAndRoots ==
    \A w \in Workloads : call[w] # None =>
        \A n \in Installations : ~linked[n] => (call[w].key = n <=> call[w].root = n)

\* The row of an installation that is not linked is the last word on its key.
LastWord == \A n \in Installations : ~linked[n] => denial[n] = DenialOnly(preference[n])

\* Nobody asks for a token of an installation that is not registered yet.
Unasked == \A n \in Installations : installation[n] = "absent" => exchange[n] = NoExchange

\* The row is still the denial the request began with, and then the request has
\* not been allowed, or a later one.
Began ==
    \A n \in Installations :
        ~linked[n] /\ exchange[n].began # None /\ preference[n] # None =>
            \/ /\ preference[n] = exchange[n].began /\ IsDenial(preference[n])
               /\ exchange[n].stage # "allowed"
            \/ preference[n].at > exchange[n].began.at

TokenInv == KeysAndRoots /\ LastWord /\ Unasked /\ Began

\* Columns of TypeOK on their own.
CallsTyped == call \in [Workloads -> [key : Roots, root : Roots, value : Values \cup {"consent"}, at : Times] \cup {None}]
RowsTyped == preference \in [Roots -> [value : Values, at : Times] \cup {None}]
DenialsTyped == denial \in [Installations -> [value : Values, at : Times] \cup {None}]
ExchangesTyped == exchange \in [Installations -> [stage : {"idle", "authenticated", "allowed"},
                                                 began : [value : Values, at : Times] \cup {None}]]

\* They follow from TypeOK.
LEMMA ColumnsTyped == TypeOK => CallsTyped /\ RowsTyped /\ DenialsTyped /\ ExchangesTyped
BY DEF TypeOK, CallsTyped, RowsTyped, DenialsTyped, ExchangesTyped

\* Links last.
LEMMA LinksLast ==
    ASSUME TypeOK, [Next]_vars, NEW n \in Installations, linked[n]
    PROVE  linked'[n]
<1>1. ASSUME NEW m \in Installations, linkInstallation(m) PROVE linked'[n]
  BY <1>1, SMTT(30) DEF linkInstallation, TypeOK
<1>2. CASE UNCHANGED linked
  BY <1>2
<1>3. ASSUME NEW m \in Installations, Owner(m) PROVE UNCHANGED linked
  BY <1>3, ZenonT(30) DEF Owner, RegisterPublicInstallation, RepeatRegistration, DenyPublicInstallation, authenticate,
      Refresh, issueAccess, subjects
<1>4. ASSUME NEW w \in Workloads, Workload(w) PROVE UNCHANGED linked
  BY <1>4, ZenonT(30) DEF Workload, ResolveSubjectAlias, SetTelemetryPreference, CreateConsent, Refuse, subjects
<1>5. CASE \/ \E m \in Installations : eraseInstallation(m)
           \/ \E status \in {"emptied", "erased"} : erasePerson(status)
           \/ RollPolicy \/ Tick \/ UNCHANGED vars
  BY <1>5, <1>2, ZenonT(30) DEF eraseInstallation, erasePerson, EraseRecords, RollPolicy, Tick, subjects, vars
<1>. QED
  BY <1>1, <1>2, <1>3, <1>4, <1>5, Zenon DEF Next

\* A request resolves the key of an installation that is not linked to itself.
LEMMA StepKeys == TypeOK /\ KeysAndRoots /\ [Next]_vars => KeysAndRoots'
<1> SUFFICES ASSUME TypeOK, KeysAndRoots, [Next]_vars, NEW v \in Workloads, call'[v] # None,
                    NEW n \in Installations, ~linked'[n]
             PROVE  call'[v].key = n <=> call'[v].root = n
  BY DEF KeysAndRoots
<1>0. ~linked[n]
  BY LinksLast
<1>1. ASSUME call'[v] = call[v] PROVE call'[v].key = n <=> call'[v].root = n
  BY <1>0, <1>1 DEF KeysAndRoots
<1>2. ASSUME NEW w \in Workloads, NEW key \in Roots, NEW value, NEW at, ResolveSubjectAlias(w, key, value, at)
      PROVE  call'[v].key = n <=> call'[v].root = n
  <2>1. call'[v] = IF v = w THEN [key |-> key, root |-> rootSubject(key), value |-> value, at |-> at] ELSE call[v]
    <3>1. call' = [call EXCEPT ![w] = [key |-> key, root |-> rootSubject(key), value |-> value, at |-> at]]
      BY <1>2, Zenon DEF ResolveSubjectAlias
    <3>. QED
      BY <3>1, ColumnsTyped DEF CallsTyped
  <2>2. key = n <=> rootSubject(key) = n
    BY <1>0, SubjectAssumption DEF rootSubject, Roots
  <2>. QED
    BY <1>1, <2>1, <2>2, SMTT(30)
<1>3. ASSUME NEW w \in Workloads, call' = [call EXCEPT ![w] = None]
      PROVE  call'[v] = call[v]
  BY <1>3, SMTT(30) DEF TypeOK
<1>4. ASSUME NEW w \in Workloads, Workload(w)
      PROVE  call'[v].key = n <=> call'[v].root = n
  BY <1>1, <1>2, <1>3, <1>4 DEF Workload, SetTelemetryPreference, CreateConsent, Refuse
<1>5. CASE UNCHANGED call
  BY <1>1, <1>5
<1>. QED
  BY <1>4, <1>5, SMTT(30)
  DEF Next, Owner, RegisterPublicInstallation, RepeatRegistration, DenyPublicInstallation, authenticate,
      Refresh, issueAccess, eraseInstallation, erasePerson, linkInstallation, EraseRecords, RollPolicy, Tick, vars

\* Whoever writes the row of an installation that is not linked has the last
\* word on its key, and nobody else has.
LEMMA StepLastWord == RowInv /\ KeysAndRoots /\ LastWord /\ [Next]_vars => LastWord'
<1> SUFFICES ASSUME RowInv, KeysAndRoots, LastWord, [Next]_vars, NEW n \in Installations, ~linked'[n]
             PROVE  denial'[n] = DenialOnly(preference'[n])
  BY DEF LastWord
<1>0. TypeOK /\ ~linked[n] /\ n \in Roots
  BY LinksLast DEF RowInv, Roots
<1>1. CASE denial'[n] = denial[n] /\ preference'[n] = preference[n]
  BY <1>0, <1>1 DEF LastWord
<1>2. ASSUME NEW m \in Installations, NEW value \in Values, NEW at \in Times, NEW p \in Policies,
             RegisterPublicInstallation(m, value, at, p)
      PROVE  denial'[n] = DenialOnly(preference'[n])
  <2>1. /\ preference'[n] = IF n = m THEN Statement(value, at) ELSE preference[n]
        /\ denial'[n] = IF n = m THEN DenialOnly(Statement(value, at)) ELSE denial[n]
    <3>1. /\ preference' = [preference EXCEPT ![m] = Statement(value, at)]
          /\ denial' = [denial EXCEPT ![m] = DenialOnly(Statement(value, at))]
      BY <1>2, Zenon DEF RegisterPublicInstallation
    <3>. QED
      BY <1>0, <3>1, ColumnsTyped DEF RowsTyped, DenialsTyped
  <2>. QED
    BY <1>1, <2>1
<1>3. ASSUME NEW m \in Installations, NEW at \in Times, NEW p \in Policies, DenyPublicInstallation(m, p, at)
      PROVE  denial'[n] = DenialOnly(preference'[n])
  <2>0. /\ denial' = [denial EXCEPT ![m] = preference'[m]]
        /\ \/ preference' = preference /\ IsDenial(preference[m])
           \/ preference' = [preference EXCEPT ![m] = Statement("denied", at)]
    BY <1>3, Zenon DEF DenyPublicInstallation
  <2>1. denial'[n] = (IF n = m THEN preference'[n] ELSE denial[n]) /\ (n # m => preference'[n] = preference[n])
    BY <1>0, <2>0, ColumnsTyped DEF RowsTyped, DenialsTyped
  <2>2. IsDenial(preference'[m])
    <3>1. IsDenial(Statement("denied", at)) /\ m \in Roots
      BY StatementsAreRows DEF IsDenial, Values, Roots
    <3>. QED
      BY <1>0, <2>0, <3>1, ColumnsTyped DEF RowsTyped
  <2>. QED
    BY <1>1, <2>1, <2>2 DEF IsDenial, DenialOnly
<1>4. ASSUME NEW w \in Workloads, SetTelemetryPreference(w)
      PROVE  denial'[n] = DenialOnly(preference'[n])
  <2> DEFINE c == call[w]
  <2>1. c.key = n <=> c.root = n
    BY <1>0, <1>4 DEF KeysAndRoots, SetTelemetryPreference
  <2>2. /\ preference' = [preference EXCEPT ![c.root] = Statement(c.value, c.at)]
        /\ denial' = IF c.key = Person THEN denial
                     ELSE [denial EXCEPT ![c.key] = DenialOnly(Statement(c.value, c.at))]
    BY <1>4, Zenon DEF SetTelemetryPreference
  <2> HIDE DEF c
  <2>3. preference'[n] = IF n = c.root THEN Statement(c.value, c.at) ELSE preference[n]
    BY <1>0, <2>2, ColumnsTyped DEF RowsTyped
  <2>4. denial'[n] = IF n = c.key THEN DenialOnly(Statement(c.value, c.at)) ELSE denial[n]
    BY <1>0, <2>2, ColumnsTyped, SubjectAssumption DEF DenialsTyped
  <2>. QED
    BY <1>1, <2>1, <2>3, <2>4
<1>5. ASSUME NEW R, ErasureOf(R)
      PROVE  denial'[n] = DenialOnly(preference'[n])
  <2>1. /\ preference'[n] = IF n \in R THEN None ELSE preference[n]
        /\ denial'[n] = IF n \in R THEN None ELSE denial[n]
    BY <1>0, <1>5 DEF ErasureOf, EraseRecords
  <2>. QED
    BY <1>1, <2>1 DEF DenialOnly
<1>6. CASE Aside
  BY <1>1, <1>6, AsideIsSilent DEF Quiet
<1>7. CASE UNCHANGED vars
  BY <1>1, <1>7 DEF vars
<1>8. ASSUME NEW w \in Workloads, CreateConsent(w)
      PROVE  denial'[n] = DenialOnly(preference'[n])
  BY <1>1, <1>8, ConsentIsQuiet DEF Quiet
<1>. QED
  BY <1>0, <1>2, <1>3, <1>4, <1>5, <1>6, <1>7, <1>8, StepKinds

\* How the request of an installation moves.
LEMMA RequestSteps ==
    ASSUME TypeOK, [Next]_vars, NEW n \in Installations
    PROVE  \/ exchange'[n] = exchange[n]
           \/ \E value \in Values, at \in Times, p \in Policies : RegisterPublicInstallation(n, value, at, p)
           \/ /\ RepeatRegistration(n) \/ authenticate(n) \/ Refresh(n) \/ issueAccess(n)
              /\ UNCHANGED <<preference, denial, linked, installation>>
<1>1. ASSUME NEW m \in Installations, Owner(m)
      PROVE  \/ exchange'[n] = exchange[n]
             \/ \E value \in Values, at \in Times, p \in Policies : RegisterPublicInstallation(n, value, at, p)
             \/ RepeatRegistration(n) \/ authenticate(n) \/ Refresh(n) \/ issueAccess(n)
  <2>1. CASE m = n
    BY <1>1, <2>1, StampsAreTimes DEF Owner, DenyPublicInstallation, Values
  <2>2. CASE m # n
    BY <1>1, <2>2
    DEF Owner, RegisterPublicInstallation, RepeatRegistration, DenyPublicInstallation, authenticate, Refresh,
        issueAccess, TypeOK
  <2>. QED
    BY <2>1, <2>2
<1>2. CASE RepeatRegistration(n) \/ authenticate(n) \/ Refresh(n) \/ issueAccess(n)
  BY <1>2 DEF RepeatRegistration, authenticate, Refresh, issueAccess, Silent, subjects
<1>3. CASE UNCHANGED exchange
  BY <1>3
<1>. QED
  BY <1>1, <1>2, <1>3
  DEF Next, Workload, ResolveSubjectAlias, SetTelemetryPreference, CreateConsent, Refuse, linkInstallation,
      eraseInstallation, erasePerson, EraseRecords, RollPolicy, Tick, vars

\* A request for a token needs an installation.
LEMMA StepUnasked == TypeOK /\ Unasked /\ [Next]_vars => Unasked'
<1> SUFFICES ASSUME TypeOK, Unasked, [Next]_vars, NEW n \in Installations, installation'[n] = "absent"
             PROVE  exchange'[n] = NoExchange
  BY DEF Unasked
<1>1. installation[n] = "absent"
  BY StepKinds, AsideIsSilent, ConsentIsQuiet
  DEF RegisterPublicInstallation, DenyPublicInstallation, SetTelemetryPreference, ErasureOf, EraseRecords,
      subjects, vars, TypeOK
<1>2. exchange[n] = NoExchange
  BY <1>1 DEF Unasked
<1>3. ~\E value \in Values, at \in Times, p \in Policies : RegisterPublicInstallation(n, value, at, p)
  BY DEF RegisterPublicInstallation, TypeOK
<1>4. CASE RepeatRegistration(n) \/ authenticate(n) \/ Refresh(n) \/ issueAccess(n)
  BY <1>1, <1>2, <1>4 DEF RepeatRegistration, authenticate, Refresh, issueAccess, NoExchange
<1>. QED
  BY <1>2, <1>3, <1>4, RequestSteps

\* An installation becomes active by its registration.
LEMMA BecomesActive ==
    ASSUME TypeOK, [Next]_vars, NEW n \in Installations, installation[n] # "active", installation'[n] = "active"
    PROVE  \E value \in Values, at \in Times, p \in Policies : RegisterPublicInstallation(n, value, at, p)
<1>1. ASSUME NEW m \in Installations, NEW value \in Values, NEW at \in Times, NEW p \in Policies,
             RegisterPublicInstallation(m, value, at, p)
      PROVE  m = n
  BY <1>1 DEF RegisterPublicInstallation, TypeOK
<1>2. ASSUME NEW R, ErasureOf(R)
      PROVE  FALSE
  BY <1>2 DEF ErasureOf, EraseRecords
<1>3. CASE UNCHANGED installation
  BY <1>3
<1>. QED
  BY <1>1, <1>2, <1>3, StepKinds, AsideIsSilent, ConsentIsQuiet
  DEF DenyPublicInstallation, SetTelemetryPreference, subjects, vars

\* While a request is under way the row moves forward from the denial it began
\* with, and only an allowance, a later row, lets it pass.
LEMMA StepBegan == RowInv /\ TokenInv /\ [Next]_vars => Began'
<1> SUFFICES ASSUME RowInv, TokenInv, [Next]_vars, NEW n \in Installations,
                    ~linked'[n], exchange'[n].began # None, preference'[n] # None
             PROVE  \/ /\ preference'[n] = exchange'[n].began /\ IsDenial(preference'[n])
                       /\ exchange'[n].stage # "allowed"
                    \/ preference'[n].at > exchange'[n].began.at
  BY DEF Began
<1>0. TypeOK /\ ~linked[n] /\ n \in Roots
  BY LinksLast DEF RowInv, Roots
<1>1. ASSUME NEW value \in Values, NEW at \in Times, NEW p \in Policies, RegisterPublicInstallation(n, value, at, p)
      PROVE  FALSE
  <2>1. exchange[n] = NoExchange
    BY <1>1 DEF RegisterPublicInstallation, TokenInv, Unasked
  <2>2. exchange'[n].began = exchange[n].began
    BY <1>0, <1>1 DEF RegisterPublicInstallation, TypeOK
  <2>. QED
    BY <2>1, <2>2 DEF NoExchange
<1>2. CASE exchange'[n] = exchange[n]
  <2>1. preference[n] # None
    <3>1. CASE preference[n] = None
      <4>1. installation[n] # "active" /\ installation'[n] = "active"
        BY <3>1, StepRows DEF RowInv, RowsOfActive
      <4>2. \E value \in Values, at \in Times, p \in Policies : RegisterPublicInstallation(n, value, at, p)
        BY <1>0, <4>1, BecomesActive
      <4>. QED
        BY <1>1, <4>2
    <3>. QED
      BY <3>1
  <2>2. \/ preference[n] = exchange[n].began /\ IsDenial(preference[n]) /\ exchange[n].stage # "allowed"
        \/ preference[n].at > exchange[n].began.at
    BY <1>0, <1>2, <2>1 DEF TokenInv, Began
  <2>3. preference'[n] = preference[n] \/ preference'[n].at > preference[n].at
    BY <1>0, <2>1, StepForward
  <2>4. /\ preference[n].at \in Int /\ preference'[n].at \in Int /\ exchange[n].began.at \in Int
    <3>1. TypeOK'
      BY <1>0, StepTyped
    <3>2. RowsTyped /\ RowsTyped' /\ ExchangesTyped
      BY <1>0, <3>1 DEF TypeOK, RowsTyped, ExchangesTyped
    <3>3. preference[n] \in Row /\ preference'[n] \in Row
      BY <1>0, <2>1, <3>2 DEF RowsTyped, Row
    <3>4. exchange[n].began \in Row
      BY <1>2, <3>2 DEF ExchangesTyped, Row
    <3>5. Times \subseteq Int
      BY TimeAssumption DEF Times
    <3>. QED
      BY <3>3, <3>4, <3>5 DEF Row
  <2>. QED
    BY <1>2, <2>2, <2>3, <2>4
<1>3. ASSUME UNCHANGED <<preference, denial, linked, installation>>, authenticate(n) \/ RepeatRegistration(n)
      PROVE  preference'[n] = exchange'[n].began /\ IsDenial(preference'[n]) /\ exchange'[n].stage # "allowed"
  <2>0. exchange'[n].began = denial[n] /\ (~RepeatRegistration(n) => exchange'[n].stage = "authenticated")
    <3>1. PICK stage : exchange' = [exchange EXCEPT ![n] = [stage |-> stage, began |-> denial[n]]]
                       /\ (~RepeatRegistration(n) => stage = "authenticated")
      BY <1>3, Zenon DEF authenticate, RepeatRegistration
    <3>2. exchange'[n] = [stage |-> stage, began |-> denial[n]]
      BY <1>0, <3>1, ColumnsTyped DEF ExchangesTyped
    <3>. QED
      BY <3>1, <3>2
  <2>1. exchange'[n].began = DenialOnly(preference[n])
    BY <1>0, <2>0 DEF TokenInv, LastWord
  <2>2. IsDenial(preference[n]) /\ exchange'[n].began = preference[n]
    BY <2>1 DEF DenialOnly, IsDenial
  <2>3. ~RepeatRegistration(n)
    <3>1. ASSUME RepeatRegistration(n) PROVE preference[n].value = "allowed"
      <4>1. preference[n] = [value |-> body[n].value, at |-> body[n].at] /\ body[n].value = "allowed"
        BY <3>1, Zenon DEF RepeatRegistration, SamePreference, Statement
      <4>. QED
        BY <4>1
    <3>. QED
      BY <2>2, <3>1 DEF IsDenial
  <2>4. exchange'[n].stage = "authenticated"
    BY <2>0, <2>3
  <2>. QED
    BY <1>3, <2>2, <2>4
<1>4. ASSUME UNCHANGED <<preference, denial, linked, installation>>, Refresh(n)
      PROVE  preference'[n].at > exchange'[n].began.at
  <2>1. IsAllowance(preference[n]) /\ exchange'[n].began = exchange[n].began
    BY <1>0, <1>4 DEF Refresh, NoExchange, TypeOK
  <2>2. ~IsDenial(preference[n])
    BY <2>1 DEF IsAllowance, IsDenial
  <2>. QED
    BY <1>0, <1>4, <2>1, <2>2 DEF TokenInv, Began
<1>5. ASSUME issueAccess(n)
      PROVE  FALSE
  <2>1. exchange' = [exchange EXCEPT ![n] = NoExchange]
    BY <1>5, Zenon DEF issueAccess
  <2>2. exchange'[n] = NoExchange
    BY <1>0, <2>1, ColumnsTyped DEF ExchangesTyped
  <2>. QED
    BY <2>2 DEF NoExchange
<1>. QED
  BY <1>0, <1>1, <1>2, <1>3, <1>4, <1>5, RequestSteps

\* The row and the request tell a denial that is still the last word.
LEMMA BeganStops == TypeOK /\ LastWord /\ Began => DenialStopsTokens
<1> SUFFICES ASSUME TypeOK, LastWord, Began, NEW n \in Installations,
                    exchange[n].stage = "allowed", exchange[n].began # None, ~linked[n]
             PROVE  denial[n] # exchange[n].began
  BY DEF DenialStopsTokens
<1>1. denial[n] = DenialOnly(preference[n])
  BY DEF LastWord
<1>2. CASE preference[n] = None
  BY <1>1, <1>2 DEF DenialOnly
<1>3. CASE preference[n] # None
  <2>1. preference[n].at > exchange[n].began.at
    BY <1>3 DEF Began
  <2>2. preference[n].at \in Int
    BY <1>3, TimeAssumption, SMTT(30) DEF TypeOK, Times, Roots
  <2>. QED
    BY <1>1, <2>1, <2>2 DEF DenialOnly
<1>. QED
  BY <1>2, <1>3

\* While an installation is not linked to a person, a request for a token that
\* begins after a denial of its key was acknowledged gets none, as long as that
\* denial is the last word: neither a refresh nor a repeated registration.
THEOREM DenialsStopTokens == Spec => []DenialStopsTokens
<1>1. Init => TokenInv
  BY DEF Init, TokenInv, KeysAndRoots, LastWord, Unasked, Began, DenialOnly, NoExchange, Roots
<1>2. RowInv /\ TokenInv /\ [Next]_vars => TokenInv'
  BY StepKeys, StepLastWord, StepUnasked, StepBegan DEF TokenInv, RowInv
<1>3. RowInv /\ TokenInv => DenialStopsTokens
  BY BeganStops DEF RowInv, TokenInv
<1>. QED
  BY <1>1, <1>2, <1>3, RowInvariant, PTL DEF Spec
=============================================================================
