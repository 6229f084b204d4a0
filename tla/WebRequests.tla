------------------------------ MODULE WebRequests ------------------------------
(***************************************************************************)
(* The web process as a whole: the threads that serve invitations and      *)
(* registrations (Invitations) are those that serve tasks and accounts     *)
(* (Accounts), and the accounts are the ones registrations make, beside    *)
(* those there before any invitation.                                      *)
(*                                                                         *)
(* The address of an invitation and the account made from it are one       *)
(* member of User; the account's row is there, with is_active set, once    *)
(* its registration has committed.  Migration 0010 makes one more account, *)
(* without an invitation, and gives it the tasks that had no owner.        *)
(***************************************************************************)
EXTENDS Accounts

CONSTANTS Invitation, EmailOf, Legacy

ASSUME AddressesTyped == EmailOf \in [Invitation -> User]
ASSUME LegacyTyped == Legacy \subseteq User

VARIABLES state, expired, account, webpc, row, found

invitationVars == <<state, expired, account, webpc, row, found>>

I == INSTANCE Invitations WITH Email <- User, pc <- webpc

WebInit == Init /\ I!Init

\* A thread serves one request at a time.
OneRequest == \A r \in Request : pc'[r] = "idle" \/ webpc'[r] = "idle"

\* login_required, and for user_toggle get_object_or_404: an account is there.
OfAccounts == \A r \in Request : pc'[r] # "idle" => I!Registered(subject'[r])

AccountStep == Next /\ UNCHANGED invitationVars /\ OfAccounts
InvitationStep == I!Next /\ UNCHANGED vars

WebNext == (AccountStep \/ InvitationStep) /\ OneRequest

WebSpec == WebInit /\ [][WebNext]_<<vars, invitationVars>>

-----------------------------------------------------------------------------
\* Every task belongs to an account that an invitation made, and which this
\* invitation still answers for, or to the owner the migration made.
TasksOfInvited ==
    \A t \in Task : status[t] # "ABSENT" =>
        \/ OwnerOf[t] \in Legacy
        \/ \E i \in Invitation : state[i] = "accepted" /\ EmailOf[i] = OwnerOf[t]

(* What Invitations promises holds of the composition.                     *)

\* No address gets a second account (see Invitations).
OneAccountPerEmail ==
    \A e \in User : Cardinality(account[e]) <= (IF e \in Legacy THEN 0 ELSE 1)

\* An invitation is used up by the account it made: no later invitation or
\* revocation, begun before the registration or after, rewrites it.
AcceptedIsFinal ==
    [][\A i \in Invitation :
          state[i] = "accepted" => state'[i] = "accepted"]_invitationVars

\* An account comes only from an invitation that nobody had revoked by then and
\* that was open when its registration took the lock.
RevokedNeverAccepts ==
    [][\A i \in Invitation : i \in account'[EmailOf[i]] \ account[EmailOf[i]]
                                => state[i] = "live"]_invitationVars
=============================================================================
