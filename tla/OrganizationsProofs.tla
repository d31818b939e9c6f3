------------------------ MODULE OrganizationsProofs ------------------------
(***************************************************************************)
(* Proofs about Organizations, for any sets of organizations, submissions, *)
(* subjects, products and requests.                                        *)
(*                                                                         *)
(* ReferencesAreActive and ErasedHasNoRows are inductive relative to       *)
(* TypeOK: every transaction that writes a reference checks what it points *)
(* to in the same transaction, and a merge or an erasure takes the         *)
(* references along.                                                       *)
(*                                                                         *)
(* The chains of merges are followed by sets of organizations that no link *)
(* leaves (Closed): from every organization the links lead to one that     *)
(* points nowhere (Ending), because a merge lengthens chains at their end, *)
(* by an organization that is active.  A membership is at the end of a     *)
(* chain, and a merge moves it along.                                      *)
(***************************************************************************)
EXTENDS Organizations, TLAPS

\* The initial tables are typed.
LEMMA InitTyped == Init => TypeOK
BY DEF Init, TypeOK, Absent, Subjects

\* Every transaction keeps the vocabularies of the columns.
LEMMA StepTyped == TypeOK /\ [Next]_vars => TypeOK'
<1> SUFFICES ASSUME TypeOK, [Next]_vars PROVE TypeOK'
  OBVIOUS
<1>1. ASSUME NEW c \in Calls, NEW x \in Subjects, NEW q \in Products, ResolveSubjectAlias(c, x, q)
      PROVE  TypeOK'
  BY <1>1 DEF ResolveSubjectAlias, TypeOK
<1>2. ASSUME NEW c \in Calls, NEW s \in Submissions, CreateOrganizationSubmission(c, s)
      PROVE  TypeOK'
  BY <1>2, SubjectsDiffer DEF CreateOrganizationSubmission, TypeOK
<1>3. ASSUME NEW c \in Calls, NEW o \in Orgs, NEW status \in MemberStatus, CreateMembership(c, o, status)
      PROVE  TypeOK'
  BY <1>3 DEF CreateMembership, TypeOK
<1>4. ASSUME NEW c \in Calls, Abandon(c)
      PROVE  TypeOK'
  BY <1>4 DEF Abandon, TypeOK
<1>5. ASSUME NEW o \in Orgs, CreateOrganization(o)
      PROVE  TypeOK'
  <2>1. [status |-> "active", into |-> None]
           \in [status : {"absent", "active", "merged"}, into : Orgs \cup {None}]
    OBVIOUS
  <2>2. organization' \in [Orgs -> [status : {"absent", "active", "merged"}, into : Orgs \cup {None}]]
    BY <1>5, <2>1 DEF CreateOrganization, TypeOK
  <2>. QED
    BY <1>5, <2>2 DEF CreateOrganization, TypeOK
<1>6. ASSUME NEW s \in Submissions, NEW r \in Resolutions, ResolveOrganizationSubmission(s, r[1], r[2])
      PROVE  TypeOK'
  <2>1. r[1] \in {"rejected", "matched"} /\ r[2] \in Orgs \cup {None}
    BY DEF Resolutions
  <2>2. submission' = [submission EXCEPT ![s] = [submission[s] EXCEPT !.status = r[1], !.canonical = r[2]]]
    BY <1>6, Zenon DEF ResolveOrganizationSubmission, TypeOK
  <2>3. submission[s] \in [by : Subjects, product : Products, canonical : Orgs \cup {None},
                           status : {"pending", "rejected", "matched", "merged"}]
    BY <1>6 DEF ResolveOrganizationSubmission, TypeOK
  <2>. QED
    BY <1>6, <2>1, <2>2, <2>3 DEF ResolveOrganizationSubmission, TypeOK
<1>7. ASSUME NEW source \in Orgs, NEW target \in Orgs, MergeOrganization(source, target)
      PROVE  TypeOK'
  <2>1. [status |-> "merged", into |-> target]
           \in [status : {"absent", "active", "merged"}, into : Orgs \cup {None}]
    OBVIOUS
  <2>2. organization' \in [Orgs -> [status : {"absent", "active", "merged"}, into : Orgs \cup {None}]]
    BY <1>7, <2>1, Zenon DEF MergeOrganization, TypeOK
  <2>3. membership' \in [Persons -> [Orgs -> [Products -> MemberStatus \cup {None}]]]
    <3> DEFINE moved(p, o, q) == CASE o = source -> None
                                   [] o = target /\ membership[p][target][q] = None -> membership[p][source][q]
                                   [] OTHER -> membership[p][o][q]
    <3>1. \A p \in Persons, o \in Orgs, q \in Products : moved(p, o, q) \in MemberStatus \cup {None}
      BY DEF TypeOK
    <3>2. membership' = [p \in Persons |-> [o \in Orgs |-> [q \in Products |-> moved(p, o, q)]]]
      BY <1>7, Zenon DEF MergeOrganization, moveMemberships
    <3> HIDE DEF moved
    <3>. QED
      BY <3>1, <3>2
  <2>4. submission' \in [Submissions -> [by : Subjects, product : Products, canonical : Orgs \cup {None},
                                         status : {"pending", "rejected", "matched", "merged"}] \cup {None}]
    <3>1. \A s \in Submissions : submission[s] # None =>
              [submission[s] EXCEPT !.canonical = target, !.status = "merged"]
                 \in [by : Subjects, product : Products, canonical : Orgs \cup {None},
                      status : {"pending", "rejected", "matched", "merged"}]
      BY Zenon DEF TypeOK
    <3>. QED
      BY <1>7, <3>1, Zenon DEF MergeOrganization, TypeOK
  <2>5. audit' = audit \cup {<<source, target>>} /\ live' = live /\ call' = call
    BY <1>7, Zenon DEF MergeOrganization
  <2>6. audit' \subseteq Orgs \X Orgs
    <3>1. <<source, target>> \in Orgs \X Orgs
      OBVIOUS
    <3>2. audit \subseteq Orgs \X Orgs
      BY DEF TypeOK
    <3>. QED
      BY <2>5, <3>1, <3>2
  <2>. QED
    BY <2>2, <2>3, <2>4, <2>5, <2>6 DEF TypeOK
<1>8. ASSUME NEW x, NEW Q \in SUBSET Products, EraseRecords(x, Q), live' \subseteq live
      PROVE  TypeOK'
  BY <1>8 DEF EraseRecords, TypeOK
<1>9. CASE UNCHANGED vars
  BY <1>9 DEF vars, TypeOK
<1>10. CASE Erase
  BY <1>10, <1>8, Zenon DEF Erase, erasePersonProduct, eraseSubject
<1>. QED
  BY <1>1, <1>2, <1>3, <1>4, <1>5, <1>6, <1>7, <1>9, <1>10 DEF Next, Request, Administer

\* The columns hold what their vocabularies allow, in every reachable state.
THEOREM TypeCorrect == Spec => []TypeOK
<1>1. Init => TypeOK
  BY InitTyped
<1>2. TypeOK /\ [Next]_vars => TypeOK'
  BY StepTyped
<1>. QED
  BY <1>1, <1>2, PTL DEF Spec

\* Writing one membership row leaves every other as it was.
LEMMA OneRowWritten ==
  ASSUME membership \in [Persons -> [Orgs -> [Products -> MemberStatus \cup {None}]]],
         NEW a, NEW b, NEW c, NEW v, membership' = [membership EXCEPT ![a][b][c] = v],
         NEW p \in Persons, NEW o \in Orgs, NEW q \in Products
  PROVE  /\ membership'[p][o][q] \in {v, membership[p][o][q]}
         /\ o # b => membership'[p][o][q] = membership[p][o][q]
OBVIOUS

-----------------------------------------------------------------------------
\* No step of a request, an administrator or an erasure leaves a reference to
\* an organization that is not active.
LEMMA StepKeepsReferences == TypeOK /\ ReferencesAreActive /\ [Next]_vars => ReferencesAreActive'
<1> SUFFICES ASSUME TypeOK, ReferencesAreActive, [Next]_vars PROVE ReferencesAreActive'
  OBVIOUS
<1>1. ASSUME NEW c \in Calls, NEW s \in Submissions, CreateOrganizationSubmission(c, s)
      PROVE  ReferencesAreActive'
  BY <1>1 DEF CreateOrganizationSubmission, ReferencesAreActive, activeOrganization, TypeOK
<1>2. ASSUME NEW c \in Calls, NEW o \in Orgs, NEW status \in MemberStatus, CreateMembership(c, o, status)
      PROVE  ReferencesAreActive'
  <2>1. /\ organization' = organization /\ submission' = submission /\ activeOrganization(o)
        /\ membership' = [membership EXCEPT ![call[c].subject][o][call[c].product] = status]
    BY <1>2, Zenon DEF CreateMembership
  <2>2. membership \in [Persons -> [Orgs -> [Products -> MemberStatus \cup {None}]]]
    BY DEF TypeOK
  <2>3. \A p \in Persons, x \in Orgs, q \in Products :
            membership'[p][x][q] # None => x = o \/ membership[p][x][q] # None
    <3>1. ASSUME NEW p \in Persons, NEW x \in Orgs, NEW q \in Products, x # o
          PROVE  membership'[p][x][q] = membership[p][x][q]
      BY <2>1, <2>2, <3>1, OneRowWritten, Zenon
    <3>. QED
      BY <3>1, Zenon
  <2>. QED
    BY <2>1, <2>3, Zenon DEF ReferencesAreActive, activeOrganization
<1>3. ASSUME NEW o \in Orgs, CreateOrganization(o)
      PROVE  ReferencesAreActive'
  <2>1. \A x \in Orgs : activeOrganization(x) => activeOrganization(x)'
    BY <1>3 DEF CreateOrganization, activeOrganization, TypeOK
  <2>. QED
    BY <1>3, <2>1 DEF CreateOrganization, ReferencesAreActive, TypeOK
<1>4. ASSUME NEW s \in Submissions, NEW r \in Resolutions, ResolveOrganizationSubmission(s, r[1], r[2])
      PROVE  ReferencesAreActive'
  <2>1. submission' = [submission EXCEPT ![s] = [submission[s] EXCEPT !.status = r[1], !.canonical = r[2]]]
    BY <1>4 DEF ResolveOrganizationSubmission, TypeOK
  <2>2. submission[s] \in [by : Subjects, product : Products, canonical : Orgs \cup {None},
                           status : {"pending", "rejected", "matched", "merged"}]
    BY <1>4 DEF ResolveOrganizationSubmission, TypeOK
  <2>3. \A y \in Submissions : submission'[y] # None /\ submission'[y].canonical # None =>
            activeOrganization(submission'[y].canonical)
    BY <1>4, <2>1, <2>2 DEF ResolveOrganizationSubmission, ReferencesAreActive, TypeOK
  <2>. QED
    BY <1>4, <2>3 DEF ResolveOrganizationSubmission, ReferencesAreActive, activeOrganization
<1>5. ASSUME NEW source \in Orgs, NEW target \in Orgs, MergeOrganization(source, target)
      PROVE  ReferencesAreActive'
  <2>1. \A x \in Orgs : activeOrganization(x) /\ x # source => activeOrganization(x)'
    BY <1>5 DEF MergeOrganization, activeOrganization, TypeOK
  <2>2. activeOrganization(target)'
    BY <1>5, <2>1 DEF MergeOrganization
  <2>3. \A p \in Persons, o \in Orgs, q \in Products :
            membership'[p][o][q] # None => o # source /\ (o = target \/ membership[p][o][q] # None)
    BY <1>5 DEF MergeOrganization, moveMemberships, TypeOK
  <2>4. \A s \in Submissions : submission'[s] # None /\ submission'[s].canonical # None =>
            \/ submission'[s].canonical = target
            \/ submission'[s] = submission[s] /\ submission[s].canonical # source
    BY <1>5 DEF MergeOrganization, TypeOK
  <2>5. \A s \in Submissions : submission[s] # None => submission[s].canonical \in Orgs \cup {None}
    BY DEF TypeOK
  <2>6. \A p \in Persons, o \in Orgs, q \in Products : membership'[p][o][q] # None => activeOrganization(o)'
    BY <2>1, <2>2, <2>3 DEF ReferencesAreActive
  <2>7. \A s \in Submissions : submission'[s] # None /\ submission'[s].canonical # None =>
            organization'[submission'[s].canonical].status = "active"
    BY <2>1, <2>2, <2>4, <2>5 DEF ReferencesAreActive, activeOrganization
  <2>. QED
    BY <2>6, <2>7 DEF ReferencesAreActive, activeOrganization
<1>6. ASSUME NEW x, NEW Q \in SUBSET Products, EraseRecords(x, Q)
      PROVE  ReferencesAreActive'
  <2>1. organization' = organization
    BY <1>6 DEF EraseRecords
  <2>2. \A p \in Persons, o \in Orgs, q \in Products :
            membership'[p][o][q] # None => membership[p][o][q] # None
    BY <1>6 DEF EraseRecords
  <2>3. \A s \in Submissions : submission'[s] # None => submission'[s] = submission[s]
    BY <1>6 DEF EraseRecords
  <2>. QED
    BY <2>1, <2>2, <2>3 DEF ReferencesAreActive, activeOrganization
<1>7. CASE Erase
  BY <1>7, <1>6 DEF Erase, erasePersonProduct, eraseSubject
<1>8. CASE UNCHANGED <<organization, submission, membership>>
  BY <1>8 DEF ReferencesAreActive, activeOrganization
<1>. QED
  BY <1>1, <1>2, <1>3, <1>4, <1>5, <1>7, <1>8
  DEF Next, Request, Administer, ResolveSubjectAlias, Abandon, vars

\* Requests and reviews race with merges, and yet no membership and no
\* reviewed submission ever refers to an organization that was merged away.
THEOREM ReferencesStayActive == Spec => []ReferencesAreActive
<1>1. Init => ReferencesAreActive
  BY DEF Init, ReferencesAreActive
<1>. QED
  BY <1>1, StepKeepsReferences, TypeCorrect, PTL DEF Spec

-----------------------------------------------------------------------------
\* No step gives an erased subject a row.
LEMMA StepKeepsErased == TypeOK /\ ErasedHasNoRows /\ [Next]_vars => ErasedHasNoRows'
<1> SUFFICES ASSUME TypeOK, ErasedHasNoRows, [Next]_vars PROVE ErasedHasNoRows'
  OBVIOUS
<1>1. ASSUME NEW c \in Calls, NEW s \in Submissions, CreateOrganizationSubmission(c, s)
      PROVE  ErasedHasNoRows'
  BY <1>1 DEF CreateOrganizationSubmission, ErasedHasNoRows, validSubject, TypeOK
<1>2. ASSUME NEW c \in Calls, NEW o \in Orgs, NEW status \in MemberStatus, CreateMembership(c, o, status)
      PROVE  ErasedHasNoRows'
  BY <1>2 DEF CreateMembership, ErasedHasNoRows, validSubject, TypeOK
<1>3. ASSUME NEW s \in Submissions, NEW r \in Resolutions, ResolveOrganizationSubmission(s, r[1], r[2])
      PROVE  ErasedHasNoRows'
  BY <1>3 DEF ResolveOrganizationSubmission, ErasedHasNoRows, TypeOK
<1>4. ASSUME NEW source \in Orgs, NEW target \in Orgs, MergeOrganization(source, target)
      PROVE  ErasedHasNoRows'
  <2>1. \A p \in Persons, o \in Orgs, q \in Products : membership'[p][o][q] # None =>
            membership[p][o][q] # None \/ membership[p][source][q] # None
    BY <1>4 DEF MergeOrganization, moveMemberships, TypeOK
  <2>2. \A s \in Submissions : submission'[s] # None =>
            submission[s] # None /\ submission'[s].by = submission[s].by
    BY <1>4 DEF MergeOrganization, TypeOK
  <2>. QED
    <3>1. live' = live
      BY <1>4 DEF MergeOrganization
    <3>2. \A p \in Persons, o \in Orgs, q \in Products : membership'[p][o][q] # None => p \in live
      BY <2>1 DEF ErasedHasNoRows
    <3>3. \A s \in Submissions : submission'[s] # None => submission'[s].by \in live
      BY <2>2 DEF ErasedHasNoRows
    <3>. QED
      BY <3>1, <3>2, <3>3 DEF ErasedHasNoRows
<1>5. ASSUME NEW p \in Persons, NEW q \in Products, erasePersonProduct(p, q)
      PROVE  ErasedHasNoRows'
  BY <1>5 DEF erasePersonProduct, EraseRecords, ErasedHasNoRows, TypeOK
<1>6. ASSUME NEW x \in Subjects, eraseSubject(x)
      PROVE  ErasedHasNoRows'
  <2>1. \A p \in Persons, o \in Orgs, q \in Products : membership'[p][o][q] # None =>
            p # x /\ membership[p][o][q] # None
    BY <1>6 DEF eraseSubject, EraseRecords, TypeOK
  <2>2. \A s \in Submissions : submission'[s] # None =>
            submission'[s] = submission[s] /\ submission[s].by # x
    BY <1>6 DEF eraseSubject, EraseRecords, TypeOK
  <2>. QED
    BY <1>6, <2>1, <2>2 DEF eraseSubject, ErasedHasNoRows
<1>7. CASE UNCHANGED <<submission, membership, live>>
  BY <1>7 DEF ErasedHasNoRows
<1>. QED
  BY <1>1, <1>2, <1>3, <1>4, <1>5, <1>6, <1>7
  DEF Next, Request, Administer, Erase, CreateOrganization, ResolveSubjectAlias, Abandon, vars

\* A subject that was erased for good keeps no membership and no submission, and
\* a request that had resolved the subject's key before brings none back.
THEOREM ErasedStaysErased == Spec => []ErasedHasNoRows
<1>1. Init => ErasedHasNoRows
  BY DEF Init, ErasedHasNoRows
<1>. QED
  BY <1>1, StepKeepsErased, TypeCorrect, PTL DEF Spec

-----------------------------------------------------------------------------
(* Chains of merges. *)

\* A set that merged_into_id does not lead out of.
Closed(S) == \A y \in S : organization[y].into \in S \cup {None}

\* What MergesEndActive needs to be inductive: exactly the merged organizations
\* point somewhere, every link has its target and its audit row, and no chain
\* runs in a circle.
Pointing == \A o \in Orgs : organization[o].status = "merged" <=> organization[o].into # None
Recorded == \A o \in Orgs : organization[o].into # None =>
                organization[organization[o].into].status # "absent" /\ <<o, organization[o].into>> \in audit
Ending == \A o \in Orgs : \E x \in Orgs : EndsIn(o, x)
Chains == Pointing /\ Recorded /\ Ending

\* The rows of organizations, without the rest of TypeOK.
RowsTyped == organization \in [Orgs -> [status : {"absent", "active", "merged"}, into : Orgs \cup {None}]]

\* An organization is in every closed set that has one that leads to it.
LEMMA LeadsInto ==
  ASSUME NEW o \in Orgs, NEW x \in Orgs
  PROVE  LeadsTo(o, x) <=> \A S \in SUBSET Orgs : o \in S /\ Closed(S) => x \in S
<1>1. ASSUME LeadsTo(o, x), NEW S \in SUBSET Orgs, o \in S, Closed(S), x \notin S
      PROVE  FALSE
  <2>1. S \in SUBSET (Orgs \ {x})
    BY <1>1
  <2>. QED
    BY <1>1, <2>1 DEF LeadsTo, Closed
<1>2. ASSUME \A S \in SUBSET Orgs : o \in S /\ Closed(S) => x \in S,
             NEW S \in SUBSET (Orgs \ {x}), o \in S
      PROVE  \E y \in S : organization[y].into \notin S \cup {None}
  <2>1. S \in SUBSET Orgs /\ x \notin S
    OBVIOUS
  <2>. QED
    BY <1>2, <2>1 DEF Closed
<1>. QED
  BY <1>1, <1>2 DEF LeadsTo

\* An organization that was not merged leads to itself alone.
LEMMA LeadsHome ==
  ASSUME NEW o \in Orgs, NEW x \in Orgs, organization[o].into = None
  PROVE  LeadsTo(o, x) <=> x = o
<1>1. Closed({o})
  BY DEF Closed
<1>2. LeadsTo(o, x) => x = o
  BY <1>1, LeadsInto
<1>3. LeadsTo(o, o)
  BY LeadsInto
<1>. QED
  BY <1>2, <1>3

\* A merged one leads to itself and to what its target leads to.
LEMMA LeadsOn ==
  ASSUME RowsTyped, NEW o \in Orgs, NEW x \in Orgs, organization[o].into # None, x # o, LeadsTo(o, x)
  PROVE  organization[o].into \in Orgs /\ LeadsTo(organization[o].into, x)
<1> DEFINE t == organization[o].into
<1>1. t \in Orgs
  BY DEF RowsTyped
<1>2. ASSUME NEW S \in SUBSET Orgs, t \in S, Closed(S)
      PROVE  x \in S
  <2>1. Closed(S \cup {o})
    BY <1>2 DEF Closed
  <2>2. x \in S \cup {o}
    <3>1. S \cup {o} \in SUBSET Orgs /\ o \in S \cup {o}
      OBVIOUS
    <3>. QED
      BY <2>1, <3>1, LeadsInto
  <2>. QED
    BY <2>2
<1> HIDE DEF t
<1>3. LeadsTo(t, x)
  BY <1>1, <1>2, LeadsInto
<1>. QED
  BY <1>1, <1>3 DEF t

\* merged_into_id leads to one end at most.
LEMMA OneEnd ==
  ASSUME RowsTyped, NEW o \in Orgs, NEW x \in Orgs, NEW y \in Orgs, EndsIn(o, x), EndsIn(o, y)
  PROVE  x = y
<1> DEFINE S == {z \in Orgs : LeadsTo(z, x)}
<1>1. LeadsTo(o, x) /\ LeadsTo(o, y) /\ organization[x].into = None /\ organization[y].into = None
  BY DEF EndsIn
<1>2. Closed(S)
  <2> SUFFICES ASSUME NEW z \in Orgs, LeadsTo(z, x), organization[z].into # None
               PROVE  organization[z].into \in Orgs /\ LeadsTo(organization[z].into, x)
    BY DEF Closed
  <2>1. x # z
    BY <1>1
  <2>. QED
    BY <2>1, LeadsOn
<1>3. o \in S /\ S \in SUBSET Orgs
  BY <1>1
<1>4. y \in S
  <2> HIDE DEF S
  <2>. QED
    BY <1>1, <1>2, <1>3, LeadsInto
<1>5. LeadsTo(y, x)
  BY <1>4
<1>. QED
  BY <1>1, <1>5, LeadsHome

\* With Chains, where a merged organization ends is active.
LEMMA ChainsEndActive == TypeOK /\ Chains => MergesEndActive
<1> SUFFICES ASSUME TypeOK, Chains, NEW o \in Orgs, organization[o].status = "merged"
             PROVE  /\ \E home \in Orgs :
                           activeOrganization(home) /\ \A x \in Orgs : EndsIn(o, x) <=> x = home
                    /\ <<o, organization[o].into>> \in audit
  BY DEF MergesEndActive
<1>0. RowsTyped /\ Pointing /\ Recorded
  BY DEF TypeOK, RowsTyped, Chains
<1>1. PICK home \in Orgs : EndsIn(o, home)
  BY DEF Chains, Ending
<1>2. \A x \in Orgs : EndsIn(o, x) <=> x = home
  BY <1>0, <1>1, OneEnd
<1>3. organization[home].status # "absent"
  <2> DEFINE S == {z \in Orgs : organization[z].status # "absent"}
  <2>1. o \in S /\ S \in SUBSET Orgs
    OBVIOUS
  <2>2. Closed(S)
    BY <1>0 DEF Closed, Recorded, RowsTyped
  <2>3. home \in S
    <3> HIDE DEF S
    <3>. QED
      BY <1>1, <2>1, <2>2, LeadsInto DEF EndsIn
  <2>. QED
    BY <2>3
<1>4. activeOrganization(home)
  <2>1. organization[home].status # "merged"
    BY <1>0, <1>1 DEF Pointing, EndsIn
  <2>. QED
    BY <1>0, <1>3, <2>1 DEF RowsTyped, activeOrganization
<1>5. <<o, organization[o].into>> \in audit
  BY <1>0 DEF Pointing, Recorded
<1>. QED
  BY <1>2, <1>4, <1>5

\* A step that changes no link changes no end.
LEMMA SameEnds ==
  ASSUME NEW o \in Orgs, NEW x \in Orgs,
         \A y \in Orgs : organization'[y].into = organization[y].into
  PROVE  EndsIn(o, x)' <=> EndsIn(o, x)
BY DEF EndsIn, LeadsTo

\* A merge of source into target moves the ends at source to target, and leaves
\* the other ones where they are.
LEMMA MergedEnds ==
  ASSUME RowsTyped, Pointing, NEW source \in Orgs, NEW target \in Orgs, MergeOrganization(source, target),
         NEW o \in Orgs, NEW x \in Orgs, EndsIn(o, x)
  PROVE  EndsIn(o, IF x = source THEN target ELSE x)'
<1>1. /\ organization[source].into = None /\ organization[target].into = None /\ source # target
      /\ organization'[source].into = target
      /\ \A y \in Orgs : y # source => organization'[y].into = organization[y].into
  BY DEF MergeOrganization, activeOrganization, Pointing, RowsTyped
<1>2. ASSUME NEW S \in SUBSET Orgs, Closed(S)' PROVE Closed(S)
  BY <1>1, <1>2 DEF Closed
<1>3. \A S \in SUBSET Orgs : o \in S /\ Closed(S)' => x \in S
  BY <1>2, LeadsInto DEF EndsIn
<1>4. CASE x # source
  <2>1. LeadsTo(o, x)'
    <3>1. ASSUME NEW S \in SUBSET (Orgs \ {x}), o \in S
          PROVE  \E y \in S : organization'[y].into \notin S \cup {None}
      BY <1>3, <3>1 DEF Closed
    <3>. QED
      BY <3>1 DEF LeadsTo
  <2>2. organization'[x].into = None
    BY <1>1, <1>4 DEF EndsIn
  <2>. QED
    BY <1>4, <2>1, <2>2 DEF EndsIn
<1>5. CASE x = source
  <2>1. LeadsTo(o, target)'
    <3>1. ASSUME NEW S \in SUBSET (Orgs \ {target}), o \in S
          PROVE  \E y \in S : organization'[y].into \notin S \cup {None}
      <4>1. ASSUME Closed(S)' PROVE FALSE
        <5>1. source \in S
          BY <1>3, <1>5, <3>1, <4>1
        <5>2. target \in S \cup {None}
          BY <1>1, <4>1, <5>1 DEF Closed
        <5>. QED
          BY <5>2, SubjectsDiffer
      <4>. QED
        BY <4>1 DEF Closed
    <3>. QED
      BY <3>1 DEF LeadsTo
  <2>2. organization'[target].into = None
    BY <1>1
  <2>. QED
    BY <1>5, <2>1, <2>2 DEF EndsIn
<1>. QED
  BY <1>4, <1>5

\* No step breaks a chain of merges or closes one to a circle: a merge needs two
\* active organizations.
LEMMA StepKeepsChains == TypeOK /\ Chains /\ [Next]_vars => Chains'
<1> SUFFICES ASSUME RowsTyped, Pointing, Recorded, Ending, [Next]_vars PROVE Pointing' /\ Recorded' /\ Ending'
  BY DEF TypeOK, RowsTyped, Chains
<1>0. \A y \in Orgs : organization[y].into \in Orgs \cup {None}
  BY DEF RowsTyped
<1>1. ASSUME NEW o \in Orgs, CreateOrganization(o)
      PROVE  Pointing' /\ Recorded' /\ Ending'
  <2>0. organization[o] = Absent
    BY <1>1, Zenon DEF CreateOrganization
  <2>1. organization[o].into = None /\ organization[o].status = "absent"
    <3>1. Absent.into = None /\ Absent.status = "absent"
      BY DEF Absent
    <3>. QED
      BY <2>0, <3>1, Zenon
  <2>2. /\ organization'[o].into = None /\ organization'[o].status = "active"
        /\ \A y \in Orgs : y # o => organization'[y] = organization[y]
        /\ audit' = audit
    BY <1>1 DEF CreateOrganization, RowsTyped
  <2>3. \A y \in Orgs : organization'[y].into = organization[y].into
    BY <2>1, <2>2
  <2>4. Pointing'
    BY <2>2 DEF Pointing
  <2>5. \A y \in Orgs : organization[y].status # "absent" => organization'[y].status # "absent"
    BY <2>1, <2>2
  <2>6. Recorded'
    BY <1>0, <2>2, <2>3, <2>5 DEF Recorded
  <2>7. Ending'
    BY <2>3, SameEnds DEF Ending
  <2>. QED
    BY <2>4, <2>6, <2>7
<1>2. ASSUME NEW source \in Orgs, NEW target \in Orgs, MergeOrganization(source, target)
      PROVE  Pointing' /\ Recorded' /\ Ending'
  <2>1. organization[target].status = "active" /\ source # target /\ target # None
    BY <1>2, SubjectsDiffer DEF MergeOrganization, activeOrganization
  <2>2. /\ organization'[source].into = target /\ organization'[source].status = "merged"
        /\ \A y \in Orgs : y # source => organization'[y] = organization[y]
        /\ audit' = audit \cup {<<source, target>>}
    BY <1>2 DEF MergeOrganization, RowsTyped
  <2>3. Pointing'
    BY <2>1, <2>2 DEF Pointing
  <2>4. \A y \in Orgs : organization[y].status # "absent" => organization'[y].status # "absent"
    BY <2>2
  <2>5. ASSUME NEW y \in Orgs, organization'[y].into # None
        PROVE  organization'[organization'[y].into].status # "absent" /\ <<y, organization'[y].into>> \in audit'
    <3>1. CASE y = source
      BY <2>1, <2>2, <2>4, <3>1
    <3>2. CASE y # source
      <4>1. organization'[y].into = organization[y].into /\ organization[y].into \in Orgs
        BY <1>0, <2>2, <2>5, <3>2
      <4>2. organization[organization[y].into].status # "absent" /\ <<y, organization[y].into>> \in audit
        BY <2>5, <4>1 DEF Recorded
      <4>. QED
        BY <2>2, <2>4, <4>1, <4>2
    <3>. QED
      BY <3>1, <3>2
  <2>6. ASSUME NEW y \in Orgs PROVE \E x \in Orgs : EndsIn(y, x)'
    <3>1. PICK x \in Orgs : EndsIn(y, x)
      BY DEF Ending
    <3>2. EndsIn(y, IF x = source THEN target ELSE x)'
      BY <1>2, <3>1, MergedEnds
    <3>. QED
      BY <3>2
  <2>. QED
    BY <2>3, <2>5, <2>6 DEF Recorded, Ending
<1>3. CASE UNCHANGED <<organization, audit>>
  <2>1. Ending'
    BY <1>3, SameEnds DEF Ending
  <2>. QED
    BY <1>3, <2>1 DEF Pointing, Recorded
<1>4. CASE \E c \in Calls : Request(c)
  BY <1>3, <1>4 DEF Request, ResolveSubjectAlias, CreateOrganizationSubmission, CreateMembership, Abandon
<1>5. CASE Administer
  BY <1>1, <1>2, <1>3, <1>5 DEF Administer, ResolveOrganizationSubmission
<1>6. CASE Erase
  BY <1>3, <1>6 DEF Erase, erasePersonProduct, eraseSubject, EraseRecords
<1>7. CASE UNCHANGED vars
  BY <1>3, <1>7 DEF vars
<1>. QED
  BY <1>4, <1>5, <1>6, <1>7 DEF Next

\* Exactly the merged organizations point somewhere, and no chain of merges is
\* broken or runs in a circle.
THEOREM ChainsInvariant == Spec => []Chains
<1>1. Init => Chains
  <2> SUFFICES ASSUME Init PROVE Chains
    OBVIOUS
  <2>1. \A o \in Orgs : organization[o].into = None /\ organization[o].status = "absent"
    BY DEF Init, Absent
  <2>2. \A o \in Orgs : EndsIn(o, o)
    BY <2>1, LeadsHome DEF EndsIn
  <2>. QED
    BY <2>1, <2>2 DEF Chains, Pointing, Recorded, Ending
<1>. QED
  BY <1>1, StepKeepsChains, TypeCorrect, PTL DEF Spec

\* However merges are chained, merged_into_id leads from a merged organization to
\* one organization, which is active, and every link has its audit row.
THEOREM MergesLeadHome == Spec => []MergesEndActive
BY ChainsInvariant, TypeCorrect, ChainsEndActive, PTL

-----------------------------------------------------------------------------
(* Memberships through merges. *)

\* What StandingKept says of one row in one step.
Stands(p, o, q) ==
    \/ \E home \in Orgs : membership'[p][home][q] # None /\ EndsIn(o, home)'
    \/ \A x \in Orgs : membership'[p][x][q] = None /\ organization' = organization

\* A row that stays where it is stands: its organization is active and, unless
\* it is merged away in this step, still the end of its chain.
LEMMA RowStays ==
  ASSUME NEW p \in Persons, NEW o \in Orgs, NEW q \in Products,
         membership'[p][o][q] # None, organization'[o].into = None
  PROVE  Stands(p, o, q)
<1>1. LeadsTo(o, o)'
  BY DEF LeadsTo
<1>. QED
  BY <1>1 DEF Stands, EndsIn

\* Every step lets every row stand.
LEMMA StepStands ==
  ASSUME TypeOK, Chains, ReferencesAreActive, Next,
         NEW p \in Persons, NEW o \in Orgs, NEW q \in Products, membership[p][o][q] # None
  PROVE  Stands(p, o, q)
<1>1. activeOrganization(o)
  BY DEF ReferencesAreActive
<1>2. RowsTyped /\ Pointing /\ membership \in [Persons -> [Orgs -> [Products -> MemberStatus \cup {None}]]]
  BY DEF TypeOK, RowsTyped, Chains
<1>0. organization[o].into = None
  BY <1>1, <1>2 DEF activeOrganization, Pointing
<1>3. ASSUME NEW c \in Calls, NEW x \in Orgs, NEW status \in MemberStatus, CreateMembership(c, x, status)
      PROVE  Stands(p, o, q)
  <2>1. status # None
    BY NullAssumption DEF MemberStatus
  <2>2. /\ organization' = organization
        /\ membership' = [membership EXCEPT ![call[c].subject][x][call[c].product] = status]
    BY <1>3 DEF CreateMembership
  <2>3. membership'[p][o][q] \in {status, membership[p][o][q]}
    BY <1>2, <2>2, OneRowWritten, Zenon
  <2>. QED
    BY <1>0, <2>1, <2>2, <2>3, RowStays
<1>4. ASSUME NEW x \in Orgs, CreateOrganization(x)
      PROVE  Stands(p, o, q)
  <2>1. membership' = membership /\ organization'[o].into = None
    BY <1>0, <1>2, <1>4 DEF CreateOrganization, RowsTyped
  <2>. QED
    BY <2>1, RowStays
<1>5. ASSUME NEW source \in Orgs, NEW target \in Orgs, MergeOrganization(source, target)
      PROVE  Stands(p, o, q)
  <2>1. CASE o = source
    <3>1. EndsIn(o, o)
      BY <1>0, LeadsHome DEF EndsIn
    <3>2. EndsIn(o, target)'
      BY <1>2, <1>5, <2>1, <3>1, MergedEnds
    <3>3. membership'[p][target][q] # None
      BY <1>5, <2>1 DEF MergeOrganization, moveMemberships
    <3>. QED
      BY <3>2, <3>3 DEF Stands
  <2>2. CASE o # source
    <3>1. membership'[p][o][q] # None
      BY <1>5, <2>2 DEF MergeOrganization, moveMemberships
    <3>2. organization'[o] = organization[o]
      BY <1>2, <1>5, <2>2 DEF MergeOrganization, RowsTyped
    <3>. QED
      BY <1>0, <3>1, <3>2, RowStays
  <2>. QED
    BY <2>1, <2>2
<1>6. ASSUME NEW x, NEW Q \in SUBSET Products, EraseRecords(x, Q)
      PROVE  Stands(p, o, q)
  <2>1. organization' = organization
    BY <1>6 DEF EraseRecords
  <2>2. CASE p = x /\ q \in Q
    <3>1. \A y \in Orgs : membership'[p][y][q] = None
      BY <1>6, <2>2 DEF EraseRecords
    <3>. QED
      BY <2>1, <3>1 DEF Stands
  <2>3. CASE ~(p = x /\ q \in Q)
    <3>1. membership'[p][o][q] # None
      BY <1>6, <2>3 DEF EraseRecords
    <3>. QED
      BY <1>0, <2>1, <3>1, RowStays
  <2>. QED
    BY <2>2, <2>3
<1>7. CASE UNCHANGED <<organization, membership>>
  BY <1>0, <1>7, RowStays
<1>8. CASE \E c \in Calls : Request(c)
  BY <1>3, <1>7, <1>8 DEF Request, ResolveSubjectAlias, CreateOrganizationSubmission, Abandon
<1>9. CASE Administer
  BY <1>4, <1>5, <1>7, <1>9 DEF Administer, ResolveOrganizationSubmission
<1>10. CASE Erase
  BY <1>6, <1>10 DEF Erase, erasePersonProduct, eraseSubject
<1>. QED
  BY <1>8, <1>9, <1>10 DEF Next

\* A merge takes nobody's membership away: who had a row for a product has one
\* where the organization has gone, unless an erasure takes the person's rows.
THEOREM MembersStand == Spec => StandingKept
<1>1. TypeOK /\ Chains /\ ReferencesAreActive /\ [Next]_vars =>
        [\A p \in Persons, o \in Orgs, q \in Products : membership[p][o][q] # None =>
            \/ \E home \in Orgs : membership'[p][home][q] # None /\ EndsIn(o, home)'
            \/ \A x \in Orgs : membership'[p][x][q] = None /\ organization' = organization]_vars
  BY StepStands DEF Stands
<1>. QED
  BY <1>1, TypeCorrect, ChainsInvariant, ReferencesStayActive, PTL DEF Spec, StandingKept
=============================================================================
