------------------------------ MODULE Membership ------------------------------
(***************************************************************************)
(* Users, workspaces and invitations (app/auth/service.py,                 *)
(* app/workspaces/service.py).  A user is known by Google's subject and    *)
(* has the email of the last sign-in; emails are compared after            *)
(* normalization, so that an email stands for its normalized form.         *)
(***************************************************************************)
EXTENDS Naturals, FiniteSets

CONSTANTS
  Users,         \* subjects that may sign in
  Emails,        \* normalized addresses
  Households,    \* ids of shared workspaces
  Invitations,   \* ids of invitations
  Life,          \* seven days
  NoUser, NoEmail

ASSUME MembershipAssumption ==
  /\ Life \in Nat
  /\ NoUser \notin Users
  /\ NoEmail \notin Emails

VARIABLES
  now,          \* the clock of expiry
  email,        \* user -> User.email, or NoEmail before the first sign-in
  owner,        \* household -> Workspace.owner_id, or NoUser
  members,      \* WorkspaceMembership: <<workspace, user>>
  invitation,   \* id -> workspace, address and expiry of an invitation
  acceptedBy,   \* id -> who accepted it, or NoUser (WorkspaceInvitation.accepted)
  verified      \* history: user -> addresses Google has vouched for

accountVars == <<email, owner, members, invitation, acceptedBy, verified>>

Personal(u) == <<"personal", u>>
Household(h) == <<"household", h>>
Workspaces == {Personal(u) : u \in Users} \cup {Household(h) : h \in Households}

NoInvitation == [workspace |-> <<"none">>, to |-> NoEmail, expires |-> 0]
Sent(i) == invitation[i] # NoInvitation
Accepted(i) == acceptedBy[i] # NoUser
IsMember(w, u) == <<w, u>> \in members

InitAccounts ==
  /\ now = 0
  /\ email = [u \in Users |-> NoEmail]
  /\ owner = [h \in Households |-> NoUser]
  /\ members = {}
  /\ invitation = [i \in Invitations |-> NoInvitation]
  /\ acceptedBy = [i \in Invitations |-> NoUser]
  /\ verified = [u \in Users |-> {}]

-----------------------------------------------------------------------------
(* Sign-in.                                                                *)

\* Another account has the address.
Conflicts(u, e) == \E v \in Users \ {u} : email[v] = e

\* get_or_create_google_user, with the personal workspace ensured each time.
Identify(u, e) ==
  /\ ~Conflicts(u, e)
  /\ email' = [email EXCEPT ![u] = e]
  /\ verified' = [verified EXCEPT ![u] = @ \cup {e}]
  /\ members' = members \cup {<<Personal(u), u>>}
  /\ UNCHANGED <<owner, invitation, acceptedBy>>

-----------------------------------------------------------------------------
(* Households and invitations.                                             *)

CreateHousehold(u, h) ==
  /\ owner[h] = NoUser
  /\ owner' = [owner EXCEPT ![h] = u]
  /\ members' = members \cup {<<Household(h), u>>}
  /\ UNCHANGED <<email, invitation, acceptedBy, verified>>

\* Mutant: an invitation is still good at the instant it expires.
ExpiredLate(i) == invitation[i].expires < now

Expired(i) == invitation[i].expires <= now

\* A member of the workspace already has the address.
MemberHas(w, e) == \E u \in Users : IsMember(w, u) /\ email[u] = e

\* Mutant: an expired invitation still blocks the next one.
AnyUnaccepted(w, e) ==
  {i \in Invitations :
    /\ Sent(i) /\ ~Accepted(i)
    /\ invitation[i].workspace = w
    /\ invitation[i].to = e}

Pending(w, e) ==
  {i \in Invitations :
    /\ Sent(i) /\ ~Accepted(i) /\ ~Expired(i)
    /\ invitation[i].workspace = w
    /\ invitation[i].to = e}

\* Mutant: personal workspaces can be shared.
SharedByAll(w) == TRUE

Shareable(w) == \E h \in Households : w = Household(h)

MayInvite(u, w, e) ==
  /\ Shareable(w)
  /\ IsMember(w, u)
  /\ ~MemberHas(w, e)
  /\ Pending(w, e) = {}

Invite(u, w, e, i) ==
  /\ ~Sent(i)
  /\ MayInvite(u, w, e)
  /\ invitation' = [invitation EXCEPT ![i] =
                      [workspace |-> w, to |-> e, expires |-> now + Life]]
  /\ UNCHANGED <<email, owner, members, acceptedBy, verified>>

\* u accepts with the address that the request has loaded.
Admits(u, loaded, i) ==
  /\ Sent(i) /\ ~Accepted(i) /\ ~Expired(i)
  /\ loaded = invitation[i].to
  /\ ~IsMember(invitation[i].workspace, u)

\* Mutant: the membership without the mark on the invitation.
AcceptUnmarked(u, loaded, i) ==
  /\ Admits(u, loaded, i)
  /\ members' = members \cup {<<invitation[i].workspace, u>>}
  /\ UNCHANGED <<email, owner, invitation, acceptedBy, verified>>

Accept(u, loaded, i) ==
  /\ Admits(u, loaded, i)
  /\ members' = members \cup {<<invitation[i].workspace, u>>}
  /\ acceptedBy' = [acceptedBy EXCEPT ![i] = u]
  /\ UNCHANGED <<email, owner, invitation, verified>>

-----------------------------------------------------------------------------
(* Properties.                                                             *)

InvitationRows ==
  {NoInvitation} \cup [workspace : Workspaces, to : Emails, expires : Nat]

AccountsTypeOK ==
  /\ now \in Nat
  /\ email \in [Users -> Emails \cup {NoEmail}]
  /\ owner \in [Households -> Users \cup {NoUser}]
  /\ members \subseteq Workspaces \X Users
  /\ invitation \in [Invitations -> InvitationRows]
  /\ acceptedBy \in [Invitations -> Users \cup {NoUser}]
  /\ verified \in [Users -> SUBSET Emails]

\* Nobody but its owner is a member of a personal workspace, and whoever has
\* signed in has one: _ensure_personal_workspace, create_workspace_invitation.
PersonalIsPrivate ==
  /\ \A u, v \in Users : IsMember(Personal(u), v) => u = v
  /\ \A u \in Users : email[u] # NoEmail => IsMember(Personal(u), u)

\* A household's member is its owner or was let in by one invitation of his
\* own, addressed to an email that Google had vouched for: invitations work
\* once and for the matching verified email only.
MembersWereInvited ==
  \A h \in Households, u \in Users :
    IsMember(Household(h), u) =>
      \/ owner[h] = u
      \/ \E i \in Invitations :
           /\ acceptedBy[i] = u
           /\ invitation[i].workspace = Household(h)
           /\ invitation[i].to \in verified[u]

\* An address holds at most one live invitation to a workspace; and one that
\* holds none and belongs to no member can be invited, again and again.
OneLiveInvitation ==
  \A h \in Households, e \in Emails :
    LET w == Household(h)
        live == {i \in Invitations : /\ Sent(i) /\ acceptedBy[i] = NoUser
                                     /\ now < invitation[i].expires
                                     /\ invitation[i].workspace = w
                                     /\ invitation[i].to = e}
    IN /\ Cardinality(live) <= 1
       /\ (owner[h] # NoUser /\ live = {} /\ ~MemberHas(w, e)) =>
            MayInvite(owner[h], w, e)
=============================================================================
