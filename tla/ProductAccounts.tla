-------------------------- MODULE ProductAccounts --------------------------
(***************************************************************************)
(* The product accounts behind the sessions of AccountSessions (the rows   *)
(* of product_accounts), and the product directory a CRM workload pages    *)
(* through.                                                                *)
(*                                                                         *)
(* The row is created by the first registration, rewritten by every later  *)
(* one and deleted with the person.  The directory reads a page in several *)
(* transactions: one for the candidates, one for each candidate, one for   *)
(* the audit record; between any two of them the rows may change.          *)
(*                                                                         *)
(* Abstractions.  A row is there or not: its version, holder role, country *)
(* and region, and the edits of them, are left out.  A query ends early    *)
(* when decryption, a sealed reference or the audit record fails           *)
(* (FailQuery).  What a cursor contains is the account it points to; one   *)
(* that has expired begins a new pass.  Check is DirectoryAccount alone.   *)
(***************************************************************************)
EXTENDS AccountSessions

CONSTANTS
    PageLimit     \* accounts per page (at most 50 in the code)

ASSUME PageAssumption == PageLimit \in Nat \ {0}
\* Account identifiers are compared with each other, the empty cursor is 0.
ASSUME AccountAssumption == Accounts \subseteq Nat \ {0} /\ Accounts \cap Installations = {}

VARIABLES
    account,   \* accounts with a row in product_accounts
    scan,      \* a workload's pass over the directory
    owed       \* accounts that were disclosable since the pass began

allVars == <<vars, account, scan, owed>>

-----------------------------------------------------------------------------
\* directoryAccountSelect: the account is there, whatever is pending.
Listed(a) == a \in account

\* DirectoryAccount answers: listed, and no deletion request of the person open.
Disclosable(a) == Listed(a) /\ subject[a] # "deleting"

DirectoryInit ==
    /\ Init
    /\ account = {}
    /\ scan = [stage |-> "idle", after |-> 0, last |-> 0, full |-> FALSE,
               queue |-> {}, page |-> {}, delivered |-> {}]
    /\ owed = {}

-----------------------------------------------------------------------------
(* The product account. *)

\* CompletePublicEmailChallenge with registerPublicProductAccount in the same
\* transaction: the row is created, or rewritten with the login's details.
Register(i, a, x, t) ==
    /\ CompletePublicEmailChallenge(i, a, x, t)
    /\ account' = account \cup {a}

\* Mutant: erasing an installation takes the account it is linked to along.
EraseAccountToo(i) == EraseInstallation(i) /\ account' = account \ {linked[i]}

\* The installation's sessions go; the account may have others.
EraseDevice(i) == EraseInstallation(i) /\ UNCHANGED account

EraseAccount(a) == ErasePerson(a) /\ account' = account \ {a}

-----------------------------------------------------------------------------
(* The directory. *)

\* The listed accounts from `from` on in their order, at most PageLimit of them.
FirstRows(rows, from) ==
    LET behind == {a \in Accounts : Listed(a) /\ a >= from}
    IN  /\ rows \subseteq behind
        /\ \A a \in behind \ rows : \A b \in rows : b < a
        /\ Cardinality(rows) <= PageLimit
        /\ rows # behind => Cardinality(rows) = PageLimit

\* DirectoryAccounts: ORDER BY account_id LIMIT behind the cursor.
DirectoryAccounts(rows) == FirstRows(rows, scan.after + 1)

\* The query lists its candidates.
BeginQuery ==
    /\ scan.stage \in {"idle", "between"}
    /\ \E rows \in SUBSET Accounts :
          /\ DirectoryAccounts(rows)
          /\ scan' = [scan EXCEPT !.stage = "page", !.queue = rows, !.page = {},
                                  !.last = scan.after, !.full = Cardinality(rows) = PageLimit]

\* The next candidate is read again, and passed over if it is no longer disclosable.
DirectoryAccount ==
    /\ scan.stage = "page"
    /\ \E a \in scan.queue :
        /\ \A b \in scan.queue : a <= b
        /\ scan' = [scan EXCEPT !.queue = @ \ {a}, !.last = a,
                                !.page = IF Disclosable(a) THEN @ \cup {a} ELSE @]

\* Mutant: a page with an account passed over counts as the last one.
EndAtShortPage ==
    LET more == Cardinality(scan.page) = PageLimit
    IN  /\ scan.stage = "page" /\ scan.queue = {}
        /\ scan' = [scan EXCEPT !.stage = IF more THEN "between" ELSE "done",
                                !.after = IF more THEN scan.last ELSE @,
                                !.delivered = @ \cup scan.page, !.page = {},
                                !.last = 0, !.full = FALSE]

\* The query is audited and answered: a full page of candidates has a cursor
\* behind its last candidate, any other page is the last one.
EndQuery ==
    /\ scan.stage = "page" /\ scan.queue = {}
    /\ scan' = [scan EXCEPT !.stage = IF scan.full THEN "between" ELSE "done",
                            !.after = IF scan.full THEN scan.last ELSE @,
                            !.delivered = @ \cup scan.page, !.page = {},
                            !.last = 0, !.full = FALSE]

\* An error anywhere in the query, or a lost answer: the page is gone, and the
\* workload asks again with the cursor it has.
FailQuery ==
    /\ scan.stage = "page"
    /\ scan' = [scan EXCEPT !.stage = "between", !.queue = {}, !.page = {},
                            !.last = 0, !.full = FALSE]

-----------------------------------------------------------------------------
AccountStep ==
    \/ \E i \in Installations, a \in Accounts, x \in Sessions, t \in Tokens : Register(i, a, x, t)
    \/ \E i \in Installations : EraseDevice(i)
    \/ \E a \in Accounts : EraseAccount(a)
    \/ \E t, u \in Tokens : RotatePublicAccountRefresh(t, u) /\ UNCHANGED account
    \/ Elsewhere /\ UNCHANGED account

DirectoryStep == BeginQuery \/ DirectoryAccount \/ EndQuery \/ FailQuery

DirectoryNext ==
    /\ \/ AccountStep /\ UNCHANGED scan
       \/ DirectoryStep /\ UNCHANGED <<vars, account>>
    /\ LET disclosable == {a \in Accounts : Disclosable(a)'}
       IN  owed' = IF scan.stage = "idle" THEN disclosable ELSE owed \cap disclosable

DirectorySpec == DirectoryInit /\ [][DirectoryNext]_allVars

-----------------------------------------------------------------------------
\* A session that can still be used always has its product account, and an
\* erased person has none: authorizedPublicAccountSession reads both, so a
\* profile removed under an open session would end it without a trace.
ProfileBacksSession ==
    /\ \A x \in Sessions : Usable(x) => Listed(session[x].account)
    /\ \A a \in Accounts : Listed(a) => subject[a] # "erased"

\* A pass over the directory that has come to its end has delivered every
\* account that was disclosable from the beginning to the end of it, however
\* many candidates were passed over, inserted or erased and queries repeated.
ScanComplete == scan.stage = "done" => owed \subseteq scan.delivered

\* No account is delivered on two pages of the same pass.
ListedOnce == scan.page \cap scan.delivered = {}

\* An account enters a page only while no deletion request of its person is
\* open, also when the request was opened after the candidates were listed.
DisclosureIsCurrent ==
    [][\A a \in scan'.page \ scan.page : Listed(a) /\ subject[a] = "live"]_allVars
=============================================================================
