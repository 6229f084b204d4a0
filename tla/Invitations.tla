------------------------------ MODULE Invitations ------------------------------
(***************************************************************************)
(* Invitations and the registrations they allow, at the grain of the       *)
(* statements inside a transaction under READ COMMITTED: an UPDATE finds   *)
(* the rows that were committed when it started, waits for their locks and *)
(* then tests each of them again.                                          *)
(*                                                                         *)
(* An e-mail address stands for its normalised form, which is also the     *)
(* account's unique username.  The owner that migration 0010 makes has an  *)
(* account without an invitation.                                          *)
(***************************************************************************)
EXTENDS Naturals, FiniteSets

CONSTANTS
    Invitation,   \* rows that may come to exist
    Email,
    EmailOf,      \* the address an invitation is for, in [Invitation -> Email]
    Legacy,       \* addresses that have an account before any invitation
    Request       \* threads of the web process

VARIABLES
    state,      \* "none" before the row exists; accepted_at, revoked_at after
    expired,    \* expires_at has passed
    account,    \* per address, the invitations that made an account for it
    pc,         \* where each request is
    row,        \* the invitation a request issues or accepts
    found       \* the older invitations the UPDATE of issue_invitation found

vars == <<state, expired, account, pc, row, found>>

Init ==
    /\ state = [i \in Invitation |-> "none"]
    /\ expired = [i \in Invitation |-> FALSE]
    /\ account = [e \in Email |-> {}]
    /\ pc = [r \in Request |-> "idle"]
    /\ row \in [Request -> Invitation]
    /\ found = [r \in Request |-> {}]

Registered(e) == account[e] # {} \/ e \in Legacy

\* invite_register holds the lock of the invitation it accepts.
Free(i) == \A r \in Request : pc[r] = "registering" => row[r] # i

Finish(r) == pc' = [pc EXCEPT ![r] = "idle"]

-----------------------------------------------------------------------------
(* issue_invitation.                                                       *)

\* The look for an account, before the transaction.
BeginIssue(r, i) ==
    /\ pc[r] = "idle"
    /\ state[i] = "none" /\ \A s \in Request : pc[s] # "idle" => row[s] # i
    /\ ~Registered(EmailOf[i])
    /\ pc' = [pc EXCEPT ![r] = "issuing"]
    /\ row' = [row EXCEPT ![r] = i]
    /\ UNCHANGED <<state, expired, account, found>>

Open(i) == state[i] = "live"

FindOlder(r) ==
    /\ pc[r] = "issuing"
    /\ found' = [found EXCEPT ![r] = {i \in Invitation : EmailOf[i] = EmailOf[row[r]] /\ Open(i)}]
    /\ pc' = [pc EXCEPT ![r] = "revoking"]
    /\ UNCHANGED <<state, expired, account, row>>

\* Mutant: the rows found are updated by their keys alone.
FoundOnes(r) == found[r]
\* The UPDATE tests the rows found once more.
StillOpen(r) == {i \in found[r] : Open(i)}

CommitIssue(r) ==
    /\ pc[r] = "revoking"
    /\ \A i \in found[r] : Free(i)
    /\ state' = [i \in Invitation |-> IF i \in StillOpen(r) THEN "revoked"
                                      ELSE IF i = row[r] THEN "live" ELSE state[i]]
    /\ found' = [found EXCEPT ![r] = {}]
    /\ Finish(r)
    /\ UNCHANGED <<expired, account, row>>

-----------------------------------------------------------------------------
(* invite_register.                                                        *)

Valid(i) == state[i] = "live" /\ ~expired[i]

LockInvitation(r, i) ==
    /\ pc[r] = "idle"
    /\ Free(i) /\ Valid(i)
    /\ ~Registered(EmailOf[i])
    /\ pc' = [pc EXCEPT ![r] = "registering"]
    /\ row' = [row EXCEPT ![r] = i]
    /\ UNCHANGED <<state, expired, account, found>>

\* Mutant: usernames are not unique.
AnyUsername(e) == TRUE
UniqueUsername(e) == ~Registered(e)

\* The account is inserted, or the unique username rolls everything back.
CommitAccount(r) ==
    LET i == row[r]
        e == EmailOf[i]
    IN  /\ pc[r] = "registering"
        /\ \/ /\ UniqueUsername(e)
              /\ account' = [account EXCEPT ![e] = @ \cup {i}]
              /\ state' = [state EXCEPT ![i] = "accepted"]
           \/ ~UniqueUsername(e) /\ UNCHANGED <<account, state>>
        /\ Finish(r)
        /\ UNCHANGED <<expired, row, found>>

-----------------------------------------------------------------------------
\* invitation_revoke
Revoke(i) ==
    /\ Free(i) /\ Open(i)
    /\ state' = [state EXCEPT ![i] = "revoked"]
    /\ UNCHANGED <<expired, account, pc, row, found>>

Expire(i) ==
    /\ state[i] # "none" /\ ~expired[i]
    /\ expired' = [expired EXCEPT ![i] = TRUE]
    /\ UNCHANGED <<state, account, pc, row, found>>

Next ==
    \/ \E r \in Request, i \in Invitation : BeginIssue(r, i) \/ LockInvitation(r, i)
    \/ \E r \in Request : FindOlder(r) \/ CommitIssue(r) \/ CommitAccount(r)
    \/ \E i \in Invitation : Revoke(i) \/ Expire(i)

Spec == Init /\ [][Next]_vars

-----------------------------------------------------------------------------
\* An address never gets a second account, even from two invitations accepted
\* at the same time; the owner made by the migration gets no other either.
OneAccountPerEmail ==
    \A e \in Email : Cardinality(account[e]) <= (IF e \in Legacy THEN 0 ELSE 1)

\* What the documentation says of a new invitation: it revokes the older ones,
\* so that an address has one open invitation at most.
OneOpenInvitation ==
    \A i, j \in Invitation : Open(i) /\ Open(j) /\ EmailOf[i] = EmailOf[j] => i = j
=============================================================================
