----------------------- MODULE DeletionFanoutProofs -----------------------
(***************************************************************************)
(* Proofs about DeletionFanout, for any sets of requests and of the        *)
(* subjects, instances and emails of IdentityRegistration.                 *)
(*                                                                         *)
(* Every step of the composition is a step of IdentityRegistration or      *)
(* leaves its tables alone, so what is proved there holds here.  With the  *)
(* aliases' Links, an open request covers the aliases of its person at     *)
(* every moment: by a Metric step, or as one that came later.              *)
(***************************************************************************)
EXTENDS DeletionFanout, IdentityRegistrationProofs

Stages == {"new", "resolved", "open", "withdrawn", "completed"}
RequestRow == [stage : Stages, subject : Subjects \cup {<<>>}, key : Subjects \cup {<<>>},
               scope : {"product", "all"}, steps : SUBSET Subjects, late : SUBSET Subjects]
RequestsTyped == request \in [Requests -> RequestRow]

\* The aliases that lead to p.
Leading(p) == {s \in Subjects : alias[s].present /\ alias[s].person = p}

\* A request is about a person, or about an installation by its own key.
Rooted(r) ==
    LET root == request[r].subject IN
    /\ root \in Subjects
    /\ \/ root[1] = "person"
       \/ root[1] = "installation" /\ request[r].key = root

\* Every alias of its subject has a Metric step or came after the request.
Covered(r) ==
    LET root == request[r].subject IN
    IF root[1] = "person" THEN Leading(root[2]) \subseteq request[r].steps \cup request[r].late
                          ELSE root \in request[r].steps

FanoutInv ==
    /\ RequestsTyped
    /\ \A r \in Requests : request[r].stage \in {"resolved", "open"} => Rooted(r)
    /\ \A r \in Requests : request[r].stage = "open" => Covered(r)

-----------------------------------------------------------------------------
(* Registration goes on as before. *)

\* ErasePrivacyJob erases the subject its request is about.
LEMMA ErasesRoot ==
    ASSUME RequestsTyped, NEW r \in Requests, request[r].stage = "open" => Rooted(r), ErasePrivacyJob(r)
    PROVE  LET root == request[r].subject IN
           /\ Rooted(r) /\ request[r].stage = "open"
           /\ \/ root[1] = "installation" /\ root[2] \in Installations /\ eraseInstallation(root[2])
              \/ root[1] = "person" /\ root[2] \in Persons /\ (erasePersonProduct(root[2]) \/ erasePerson(root[2]))
           /\ Erase
<1> DEFINE root == request[r].subject
<1>1. Rooted(r) /\ request[r].stage = "open"
  BY DEF ErasePrivacyJob
<1>2. \/ root[1] = "person" /\ root[2] \in Persons
      \/ root[1] = "installation" /\ root[2] \in Installations
  BY <1>1 DEF Rooted, Subjects
<1>3. request[r].scope \in {"product", "all"}
  BY DEF RequestsTyped, RequestRow
<1>4. \/ root[1] = "installation" /\ eraseInstallation(root[2])
      \/ root[1] = "person" /\ (erasePersonProduct(root[2]) \/ erasePerson(root[2]))
  BY <1>2, <1>3 DEF ErasePrivacyJob
<1>. QED
  BY <1>1, <1>2, <1>4 DEF Erase

\* The steps of a request are the erasures of IdentityRegistration, or leave its
\* tables alone.
LEMMA FanoutStep ==
    ASSUME FanoutInv, [FanoutNext]_fanoutVars
    PROVE  [Next]_vars
<1>1. ASSUME NEW r \in Requests, ErasePrivacyJob(r) PROVE Erase
  BY <1>1, ErasesRoot DEF FanoutInv
<1>2. ASSUME NEW r \in Requests,
             \/ \E s \in Subjects, scope \in {"product", "all"} : ResolveSubject(r, s, scope)
             \/ CreatePrivacyRequest(r) \/ Withdraw(r)
      PROVE  UNCHANGED vars
  BY <1>2 DEF ResolveSubject, CreatePrivacyRequest, Withdraw
<1>3. CASE UNCHANGED fanoutVars
  BY <1>3 DEF fanoutVars
<1>4. CASE Serve /\ Remember
  BY <1>4 DEF Next
<1>. QED
  BY <1>1, <1>2, <1>3, <1>4 DEF FanoutNext, Next

-----------------------------------------------------------------------------
(* The rows of requests. *)

\* The rows that close a request, open it, or remember aliases.
LEMMA ClosedRow ==
    ASSUME NEW stage \in {"withdrawn", "completed"}
    PROVE  LET row == [NoRequest EXCEPT !.stage = stage] IN row \in RequestRow /\ row.stage = stage
BY DEF NoRequest, RequestRow, Stages

\* CreatePrivacyRequest opens a request with its steps.
LEMMA OpenedRow ==
    ASSUME NEW row \in RequestRow, NEW steps \in SUBSET Subjects
    PROVE  LET opened == [row EXCEPT !.stage = "open", !.steps = steps]
           IN  /\ opened \in RequestRow /\ opened.stage = "open" /\ opened.steps = steps
               /\ opened.subject = row.subject /\ opened.key = row.key /\ opened.late = row.late
BY DEF RequestRow, Stages

\* An alias that comes later is noted and changes nothing else of a request.
LEMMA LaterRow ==
    ASSUME NEW row \in RequestRow, NEW more \in SUBSET Subjects
    PROVE  LET later == [row EXCEPT !.late = @ \cup more]
           IN  /\ later \in RequestRow /\ later.late = row.late \cup more
               /\ later.stage = row.stage /\ later.steps = row.steps
               /\ later.subject = row.subject /\ later.key = row.key
BY DEF RequestRow, Stages

\* A request whose row stays covers what it did, and no alias is new.
LEMMA SameRow ==
    ASSUME NEW r \in Requests, request'[r] = request[r],
           \A p \in Persons : Leading(p)' \subseteq Leading(p),
           Rooted(r)
    PROVE  Rooted(r)' /\ (Covered(r) => Covered(r)')
<1>1. Rooted(r)'
  BY DEF Rooted
<1>2. request[r].subject[1] = "person" => request[r].subject[2] \in Persons
  BY DEF Rooted, Subjects
<1>3. ASSUME Covered(r) PROVE Covered(r)'
  <2>1. CASE request[r].subject[1] = "person"
    <3>1. PICK p \in Persons : p = request[r].subject[2]
      BY <1>2, <2>1
    <3>2. Leading(p)' \subseteq request[r].steps \cup request[r].late
      BY <1>3, <2>1, <3>1 DEF Covered
    <3>. QED
      BY <2>1, <3>1, <3>2 DEF Covered, Leading
  <2>2. CASE request[r].subject[1] # "person"
    BY <1>3, <2>2 DEF Covered
  <2>. QED
    BY <2>1, <2>2
<1>. QED
  BY <1>1, <1>3

\* One request takes a new row and the others keep theirs.
LEMMA OneRow ==
    ASSUME FanoutInv, NEW r \in Requests, NEW row \in RequestRow,
           request' = [request EXCEPT ![r] = row],
           \A p \in Persons : Leading(p)' \subseteq Leading(p),
           row.stage \in {"resolved", "open"} => Rooted(r)',
           row.stage = "open" => Covered(r)'
    PROVE  FanoutInv'
<1>1. RequestsTyped'
  BY DEF FanoutInv, RequestsTyped
<1>2. request'[r] = row /\ \A q \in Requests \ {r} : request'[q] = request[q]
  BY DEF FanoutInv, RequestsTyped
<1>3. ASSUME NEW q \in Requests, q # r, request'[q].stage \in {"resolved", "open"}
      PROVE  Rooted(q)' /\ (request'[q].stage = "open" => Covered(q)')
  BY <1>2, <1>3, SameRow DEF FanoutInv
<1>. QED
  BY <1>1, <1>2, <1>3 DEF FanoutInv

-----------------------------------------------------------------------------
(* What the transactions of a request establish. *)

\* ResolveSubject finds a person, or the installation of the key.
LEMMA RootFacts ==
    ASSUME Shape, Links, NEW s \in Subjects, alias[s].present
    PROVE  /\ rootSubject(s) \in Subjects
           /\ \/ rootSubject(s)[1] = "person"
              \/ rootSubject(s)[1] = "installation" /\ rootSubject(s) = s
<1>1. alias[s].person \in Persons \cup {None}
  BY DEF Shape, Types, LinksTyped, AliasRow
<1>2. CASE alias[s].person # None
  BY <1>1, <1>2 DEF rootSubject, Subjects
<1>3. CASE alias[s].person = None
  <2>1. s[1] = "installation"
    BY <1>3, SubjectKinds, NoneAssumption DEF Links
  <2>. QED
    BY <1>3, <2>1 DEF rootSubject
<1>. QED
  BY <1>2, <1>3

\* CreatePrivacyRequest takes every alias its person has at that moment.
LEMMA OpenedCovers ==
    ASSUME FanoutInv, NEW r \in Requests, CreatePrivacyRequest(r)
    PROVE  FanoutInv'
<1> DEFINE root == request[r].subject
           steps == IF root[1] = "person" THEN privacyFanoutAliases(root[2]) ELSE {request[r].key}
           row == [request[r] EXCEPT !.stage = "open", !.steps = steps]
<1>1. request[r] \in RequestRow /\ Rooted(r) /\ request[r].stage = "resolved"
  BY DEF FanoutInv, RequestsTyped, CreatePrivacyRequest
<1>2. steps \in SUBSET Subjects
  BY <1>1 DEF Rooted, privacyFanoutAliases
<1>3. request' = [request EXCEPT ![r] = row] /\ UNCHANGED vars
  BY DEF CreatePrivacyRequest, FanoutInv, RequestsTyped
<1>4. /\ row \in RequestRow /\ row.stage = "open" /\ row.steps = steps
      /\ row.subject = root /\ row.key = request[r].key
  <2> HIDE DEF steps
  <2>. QED
    BY <1>1, <1>2, OpenedRow
<1>5. request'[r] = row
  BY <1>3 DEF FanoutInv, RequestsTyped
<1>6. \A p : Leading(p)' = Leading(p)
  BY <1>3 DEF vars, tables, Leading
<1>7. Rooted(r)'
  BY <1>1, <1>4, <1>5 DEF Rooted
<1>8. Covered(r)'
  <2>1. CASE root[1] = "person"
    <3>1. steps = Leading(root[2])
      BY <2>1 DEF privacyFanoutAliases, Leading
    <3>. QED
      BY <1>4, <1>5, <1>6, <2>1, <3>1 DEF Covered
  <2>2. CASE root[1] # "person"
    <3>1. root \in steps
      BY <1>1, <2>2 DEF Rooted
    <3>. QED
      BY <1>4, <1>5, <2>2, <3>1 DEF Covered
  <2>. QED
    BY <2>1, <2>2
<1> HIDE DEF row
<1>. QED
  BY <1>3, <1>4, <1>6, <1>7, <1>8, OneRow

\* An erasure gives nobody an alias.
LEMMA ErasureLeads ==
    ASSUME NEW N, NEW P, NEW R, EraseRecords(N, P, R)
    PROVE  \A p \in Persons : Leading(p)' \subseteq Leading(p)
BY DEF EraseRecords, Leading, NoAlias

\* An open request remembers the aliases that a step of the service gives its
\* person.
LEMMA RememberCovers ==
    ASSUME FanoutInv, Remember
    PROVE  FanoutInv'
<1> DEFINE more(r) == Joined(request[r].subject[2]) \ request[r].steps
           grows(r) == request[r].stage = "open" /\ request[r].subject[1] = "person"
<1>1. ASSUME NEW r \in Requests
      PROVE  /\ request'[r] \in RequestRow
             /\ request'[r].stage = request[r].stage /\ request'[r].steps = request[r].steps
             /\ request'[r].subject = request[r].subject /\ request'[r].key = request[r].key
             /\ request'[r].late = IF grows(r) THEN request[r].late \cup more(r) ELSE request[r].late
  <2>1. request[r] \in RequestRow
    BY DEF FanoutInv, RequestsTyped
  <2>2. more(r) \in SUBSET Subjects
    BY DEF Joined
  <2>3. request'[r] = IF grows(r) THEN [request[r] EXCEPT !.late = @ \cup more(r)] ELSE request[r]
    BY DEF Remember
  <2> HIDE DEF more, grows
  <2>. QED
    BY <2>1, <2>2, <2>3, LaterRow
<1>2. RequestsTyped'
  <2>1. request' = [r \in Requests |-> request'[r]]
    BY DEF Remember
  <2>. QED
    BY <1>1, <2>1 DEF RequestsTyped
<1>3. ASSUME NEW r \in Requests, request'[r].stage \in {"resolved", "open"} PROVE Rooted(r)'
  BY <1>1, <1>3 DEF FanoutInv, Rooted
<1>4. ASSUME NEW r \in Requests, request'[r].stage = "open" PROVE Covered(r)'
  <2>1. request[r].stage = "open" /\ Covered(r) /\ Rooted(r)
    BY <1>1, <1>4 DEF FanoutInv
  <2>2. CASE request[r].subject[1] = "person"
    <3>1. PICK p \in Persons : p = request[r].subject[2]
      BY <2>1, <2>2 DEF Rooted, Subjects
    <3>2. Leading(p)' \subseteq Leading(p) \cup Joined(p)
      BY DEF Leading, Joined
    <3>3. Leading(p) \subseteq request[r].steps \cup request[r].late
      BY <2>1, <2>2, <3>1 DEF Covered
    <3>4. request'[r].late = request[r].late \cup (Joined(p) \ request[r].steps)
      BY <1>1, <2>1, <2>2, <3>1
    <3>5. Leading(p)' \subseteq request'[r].steps \cup request'[r].late
      BY <1>1, <3>2, <3>3, <3>4
    <3>6. request'[r].subject[1] = "person" /\ request'[r].subject[2] = p
      BY <1>1, <2>2, <3>1
    <3>. QED
      BY <3>5, <3>6 DEF Covered, Leading
  <2>3. CASE request[r].subject[1] # "person"
    BY <1>1, <2>1, <2>3 DEF Covered
  <2>. QED
    BY <2>2, <2>3
<1>. QED
  BY <1>2, <1>3, <1>4 DEF FanoutInv

\* Every step keeps every open request covered.
LEMMA StepFanout ==
    ASSUME Shape, Links, FanoutInv, [FanoutNext]_fanoutVars
    PROVE  FanoutInv'
<1>1. ASSUME UNCHANGED vars PROVE \A p \in Persons : Leading(p)' \subseteq Leading(p)
  BY <1>1 DEF vars, tables, Leading
<1>2. ASSUME NEW r \in Requests, NEW s \in Subjects, NEW scope \in {"product", "all"},
             ResolveSubject(r, s, scope)
      PROVE  FanoutInv'
  <2>1. alias[s].present /\ UNCHANGED vars
    BY <1>2 DEF ResolveSubject
  <2>2. PICK root \in Subjects :
            /\ root = rootSubject(s)
            /\ root[1] = "person" \/ (root[1] = "installation" /\ root = s)
    BY <2>1, RootFacts
  <2> DEFINE row == [NoRequest EXCEPT !.stage = "resolved", !.subject = root, !.key = s, !.scope = scope]
  <2>3. request' = [request EXCEPT ![r] = row]
    BY <1>2, <2>2 DEF ResolveSubject
  <2>4. row \in RequestRow /\ row.stage = "resolved" /\ row.subject = root /\ row.key = s
    BY DEF NoRequest, RequestRow, Stages
  <2> HIDE DEF row
  <2>5. request'[r] = row
    BY <2>3 DEF FanoutInv, RequestsTyped
  <2>6. Rooted(r)'
    BY <2>2, <2>4, <2>5 DEF Rooted
  <2>. QED
    BY <1>1, <2>1, <2>3, <2>4, <2>6, OneRow
<1>3. ASSUME NEW r \in Requests, Withdraw(r) PROVE FanoutInv'
  <2> DEFINE row == [NoRequest EXCEPT !.stage = "withdrawn"]
  <2>1. UNCHANGED vars /\ request' = [request EXCEPT ![r] = row]
    BY <1>3 DEF Withdraw
  <2>2. row \in RequestRow /\ row.stage = "withdrawn"
    BY ClosedRow
  <2> HIDE DEF row
  <2>. QED
    BY <1>1, <2>1, <2>2, OneRow
<1>4. ASSUME NEW r \in Requests, ErasePrivacyJob(r) PROVE FanoutInv'
  <2> DEFINE row == [NoRequest EXCEPT !.stage = "completed"]
  <2>1. request' = [request EXCEPT ![r] = row]
    BY <1>4 DEF ErasePrivacyJob
  <2>2. row \in RequestRow /\ row.stage = "completed"
    BY ClosedRow
  <2>3. Erase
    BY <1>4, ErasesRoot DEF FanoutInv
  <2>4. \A p \in Persons : Leading(p)' \subseteq Leading(p)
    BY <2>3, ErasureLeads DEF Erase, erasePerson, erasePersonProduct, eraseInstallation
  <2> HIDE DEF row
  <2>. QED
    BY <2>1, <2>2, <2>4, OneRow
<1>5. CASE UNCHANGED fanoutVars
  <2>1. \A r \in Requests : request'[r] = request[r]
    BY <1>5 DEF fanoutVars
  <2>2. \A r \in Requests : Rooted(r) => Rooted(r)' /\ (Covered(r) => Covered(r)')
    BY <1>1, <1>5, <2>1, SameRow DEF fanoutVars
  <2>. QED
    BY <1>5, <2>1, <2>2 DEF FanoutInv, RequestsTyped, fanoutVars
<1>. QED
  BY <1>2, <1>3, <1>4, <1>5, OpenedCovers, RememberCovers DEF FanoutNext

\* Only its erasure completes an open request.
LEMMA CompletedByErasure ==
    ASSUME FanoutInv, FanoutNext, NEW r \in Requests,
           request[r].stage = "open", request'[r].stage = "completed"
    PROVE  ErasePrivacyJob(r)
<1>0. RequestsTyped /\ request[r] \in RequestRow
  BY DEF FanoutInv, RequestsTyped
<1>1. ASSUME Remember PROVE FALSE
  <2>1. CASE request[r].subject[1] = "person"
    <3> DEFINE more == Joined(request[r].subject[2]) \ request[r].steps
    <3>1. request'[r] = [request[r] EXCEPT !.late = @ \cup more]
      BY <1>1, <2>1 DEF Remember
    <3>2. more \in SUBSET Subjects
      BY DEF Joined
    <3> HIDE DEF more
    <3>. QED
      BY <1>0, <3>1, <3>2, LaterRow
  <2>2. CASE request[r].subject[1] # "person"
    BY <1>1, <2>2 DEF Remember
  <2>. QED
    BY <2>1, <2>2
<1>2. ASSUME NEW q \in Requests, q # r, NEW row, request' = [request EXCEPT ![q] = row] PROVE FALSE
  BY <1>0, <1>2 DEF RequestsTyped
<1>3. ASSUME NEW q \in Requests, NEW s \in Subjects, NEW scope \in {"product", "all"}, ResolveSubject(q, s, scope)
      PROVE  FALSE
  BY <1>2, <1>3 DEF ResolveSubject
<1>4. ASSUME NEW q \in Requests, CreatePrivacyRequest(q) PROVE FALSE
  BY <1>0, <1>4 DEF CreatePrivacyRequest, RequestsTyped
<1>5. ASSUME NEW q \in Requests, Withdraw(q) PROVE FALSE
  <2>1. q = r
    BY <1>2, <1>5 DEF Withdraw
  <2>. QED
    BY <1>0, <1>5, <2>1, ClosedRow DEF Withdraw, RequestsTyped
<1>6. ASSUME NEW q \in Requests, ErasePrivacyJob(q) PROVE q = r
  BY <1>2, <1>6 DEF ErasePrivacyJob
<1>. QED
  BY <1>1, <1>3, <1>4, <1>5, <1>6 DEF FanoutNext

-----------------------------------------------------------------------------
(* Theorems. *)

\* What an open request covers, while registrations, other requests and
\* erasures go on, together with what IdentityRegistration keeps.
THEOREM FanoutInvariant == FanoutSpec => [](Shape /\ Keys /\ Directory /\ Links /\ FanoutInv)
<1> DEFINE Inv == Shape /\ Keys /\ Directory /\ Links /\ FanoutInv
<1>1. FanoutInit => Inv
  <2> SUFFICES ASSUME FanoutInit PROVE Inv
    OBVIOUS
  <2>1. Shape /\ Keys /\ Directory
    BY InitDirectory DEF FanoutInit
  <2>2. Links
    BY InitLinks DEF FanoutInit
  <2>3. NoRequest \in RequestRow /\ NoRequest.stage = "new"
    BY DEF NoRequest, RequestRow, Stages
  <2>4. FanoutInv
    BY <2>3 DEF FanoutInit, FanoutInv, RequestsTyped
  <2>. QED
    BY <2>1, <2>2, <2>4
<1>2. Inv /\ [FanoutNext]_fanoutVars => Inv'
  <2> SUFFICES ASSUME Inv, [FanoutNext]_fanoutVars PROVE Inv'
    OBVIOUS
  <2>1. [Next]_vars
    BY FanoutStep
  <2>2. (Shape /\ Keys /\ Directory)'
    BY <2>1, StepShape
  <2>3. Links'
    BY <2>1, StepLinks
  <2>4. FanoutInv'
    BY StepFanout
  <2>. QED
    BY <2>2, <2>3, <2>4
<1>. QED
  BY <1>1, <1>2, PTL DEF FanoutSpec

\* Seen without the requests, the composition is IdentityRegistration: whatever
\* is proved of registration holds while deletions are requested and carried out.
THEOREM RegistrationUnchanged == FanoutSpec => Spec
<1>1. FanoutInit => Init
  BY DEF FanoutInit
<1>2. FanoutInv /\ [FanoutNext]_fanoutVars => [Next]_vars
  BY FanoutStep
<1>. QED
  BY <1>1, <1>2, FanoutInvariant, PTL DEF FanoutSpec, Spec

\* ErasePrivacyJob takes an alias away without Metric having been told of it only
\* if the alias came to the person after CreatePrivacyRequest opened the request.
THEOREM MetricHearsOfAliases == FanoutSpec => FannedOutOrLate
<1>1. ASSUME Shape, Links, FanoutInv, FanoutNext, NEW r \in Requests,
             request[r].stage = "open", request'[r].stage = "completed",
             NEW s \in Subjects, alias[s].present, ~alias'[s].present
      PROVE  s \in request[r].steps \cup request[r].late
  <2>1. ErasePrivacyJob(r)
    BY <1>1, CompletedByErasure
  <2>2. Rooted(r) /\ Covered(r)
    BY <1>1 DEF FanoutInv
  <2>3. CASE request[r].subject[1] = "person"
    <3>1. PICK p \in Persons : p = request[r].subject[2] /\ (erasePersonProduct(p) \/ erasePerson(p))
      BY <1>1, <2>1, <2>3, ErasesRoot DEF FanoutInv
    <3>2. (s[1] = "installation" /\ s[2] \in InstallationsOf(p)) \/ alias[s].person = p
      BY <1>1, <3>1 DEF erasePersonProduct, erasePerson, EraseRecords
    <3>3. alias[s].person = p
      BY <1>1, <3>2, SubjectKinds DEF Links, AliasFollowsLink, InstallationsOf
    <3>. QED
      BY <1>1, <2>2, <2>3, <3>1, <3>3 DEF Covered, Leading
  <2>4. CASE request[r].subject[1] # "person"
    <3>1. PICK n \in Installations : request[r].subject[2] = n /\ eraseInstallation(n)
      BY <1>1, <2>1, <2>4, ErasesRoot DEF FanoutInv
    <3>2. s[1] = "installation" /\ s[2] = n
      BY <1>1, <3>1 DEF eraseInstallation, EraseRecords
    <3>3. request[r].subject = s
      BY <2>2, <2>4, <3>1, <3>2 DEF Rooted, Subjects
    <3>. QED
      BY <2>2, <2>4, <3>3 DEF Covered
  <2>. QED
    BY <2>3, <2>4
<1>2. Shape /\ Links /\ FanoutInv /\ [FanoutNext]_fanoutVars =>
        [\A r \in Requests : request[r].stage = "open" /\ request'[r].stage = "completed" =>
            \A s \in Subjects : alias[s].present /\ ~alias'[s].present =>
                s \in request[r].steps \cup request[r].late]_fanoutVars
  BY <1>1
<1>. QED
  BY <1>2, FanoutInvariant, PTL DEF FanoutSpec, FannedOutOrLate
=============================================================================
