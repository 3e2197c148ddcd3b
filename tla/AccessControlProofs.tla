------------------------ MODULE AccessControlProofs ------------------------
(***************************************************************************)
(* What TLAPS proves of AccessControl, for any number of people, addresses,*)
(* households, invitations and browsers, and for any lifetime and limit.   *)
(***************************************************************************)
EXTENDS AccessControl, FiniteSetTheorems, TLAPS

-----------------------------------------------------------------------------
(* Names of workspaces.                                                    *)

\* A workspace is personal or a household, and its name says whose.
LEMMA WorkspaceNames ==
  ASSUME NEW u, NEW v, NEW g, NEW h
  PROVE  /\ Personal(u) # Household(h)
         /\ Personal(u) = Personal(v) => u = v
         /\ Household(g) = Household(h) => g = h
BY DEF Personal, Household

\* A row of the memberships is one workspace and one user.
LEMMA MembershipRows ==
  ASSUME NEW w, NEW x, NEW u, NEW v
  PROVE  <<w, u>> = <<x, v>> <=> w = x /\ u = v
OBVIOUS

-----------------------------------------------------------------------------
(* The strengthening: what types alone do not say.                         *)

\* The address of an account is one that Google has vouched for.
EmailsVouched ==
  \A u \in Users : email[u] # NoEmail => email[u] \in verified[u]

\* A session names somebody who has signed in.
SessionsKnown ==
  \A b \in Browsers : session[b] # NoUser => email[session[b]] # NoEmail

\* The address that a waiting acceptance has loaded was vouched for, too.
AcceptancesVouched ==
  \A b \in Browsers :
    accepting[b] # NotAccepting => accepting[b].loaded \in verified[accepting[b].user]

\* Only households are shared, and only sent invitations are accepted.
InvitationsShared ==
  \A i \in Invitations :
    /\ Sent(i) => \E h \in Households : invitation[i].workspace = Household(h)
    /\ Accepted(i) => Sent(i)

\* The founder of a household belongs to it.
OwnersBelong ==
  \A h \in Households : owner[h] # NoUser => IsMember(Household(h), owner[h])

Vouched == EmailsVouched /\ SessionsKnown /\ AcceptancesVouched

-----------------------------------------------------------------------------
(* Type correctness.                                                       *)

LEMMA InitType == Init => TypeOK
BY DEF Init, InitLimiter, InitAccounts, TypeOK, AccountsTypeOK, InvitationRows

LEMMA StepType ==
  ASSUME TypeOK, Vouched, [Next]_allVars
  PROVE  TypeOK'
<1> USE MembershipAssumption DEF TypeOK, AccountsTypeOK, allVars, accountVars, browserVars
<1>1. CASE Tick
  BY <1>1 DEF Tick
<1>2. ASSUME NEW host \in Hosts, CallbackFails(host)
      PROVE  TypeOK'
  BY <1>2 DEF CallbackFails
<1>3. ASSUME NEW host \in Hosts, CallbackRefused(host)
      PROVE  TypeOK'
  BY <1>3 DEF CallbackRefused
<1>4. ASSUME NEW b \in Browsers, NEW host \in Hosts, NEW u \in Users, NEW e \in Emails,
             Callback(b, host, u, e)
      PROVE  TypeOK'
  BY <1>4 DEF Callback, Identify, Workspaces
<1>5. ASSUME NEW b \in Browsers, SignOut(b)
      PROVE  TypeOK'
  BY <1>5 DEF SignOut
<1>6. ASSUME NEW b \in Browsers, NEW h \in Households, CreateWorkspace(b, h)
      PROVE  TypeOK'
  BY <1>6 DEF CreateWorkspace, CreateHousehold, Workspaces
<1>7. ASSUME NEW b \in Browsers, NEW w \in Workspaces, NEW e \in Emails,
             InviteToWorkspace(b, w, e)
      PROVE  TypeOK'
  <2>1. PICK i \in Invitations : Invite(session[b], w, e, i)
    BY <1>7 DEF InviteToWorkspace
  <2>2. [workspace |-> w, to |-> e, expires |-> now + Life] \in InvitationRows
    BY DEF InvitationRows
  <2> QED
    BY <1>7, <2>1, <2>2 DEF InviteToWorkspace, Invite
<1>8. ASSUME NEW b \in Browsers, NEW i \in Invitations, BeginAccept(b, i)
      PROVE  TypeOK'
  <2>1. session[b] \in Users /\ email[session[b]] \in Emails
    BY <1>8 DEF BeginAccept, Vouched, SessionsKnown
  <2>2. [user |-> session[b], loaded |-> email[session[b]], id |-> i] \in Acceptances
    BY <2>1 DEF Acceptances
  <2> QED
    BY <1>8, <2>2 DEF BeginAccept
<1>9. ASSUME NEW b \in Browsers, EndAccept(b)
      PROVE  TypeOK'
  <2>1. accepting[b] \in Acceptances
    BY <1>9 DEF EndAccept
  <2>2. CASE Accept(accepting[b].user, accepting[b].loaded, accepting[b].id)
    <3>1. accepting[b].user \in Users /\ accepting[b].id \in Invitations
      BY <2>1 DEF Acceptances
    <3>2. invitation[accepting[b].id].workspace \in Workspaces
      BY <2>2, <3>1 DEF Accept, Admits, Sent, InvitationRows
    <3> QED
      BY <1>9, <2>2, <3>1, <3>2 DEF EndAccept, Accept
  <2>3. CASE UNCHANGED accountVars
    BY <1>9, <2>3 DEF EndAccept
  <2> QED
    BY <1>9, <2>2, <2>3 DEF EndAccept
<1>10. CASE UNCHANGED allVars
  BY <1>10 DEF limiterVars
<1> QED
  BY <1>1, <1>2, <1>3, <1>4, <1>5, <1>6, <1>7, <1>8, <1>9, <1>10 DEF Next

-----------------------------------------------------------------------------
(* Addresses: the only way to one is a sign-in.                            *)

LEMMA InitVouched == Init => Vouched
BY DEF Init, InitAccounts, Vouched, EmailsVouched, SessionsKnown, AcceptancesVouched

LEMMA StepVouched ==
  ASSUME TypeOK, Vouched, [Next]_allVars
  PROVE  Vouched'
<1> USE MembershipAssumption
        DEF Vouched, EmailsVouched, SessionsKnown, AcceptancesVouched,
            TypeOK, AccountsTypeOK, allVars, accountVars, browserVars
<1>1. CASE UNCHANGED <<accountVars, browserVars>>
  BY <1>1
<1>2. ASSUME NEW b \in Browsers, NEW host \in Hosts, NEW u \in Users, NEW e \in Emails,
             Callback(b, host, u, e)
      PROVE  Vouched'
  <2>1. /\ email' = [email EXCEPT ![u] = e]
        /\ verified' = [verified EXCEPT ![u] = @ \cup {e}]
        /\ session' = [session EXCEPT ![b] = u]
        /\ UNCHANGED accepting
    BY <1>2 DEF Callback, Identify
  <2>2. \A v \in Users : verified[v] \subseteq verified'[v]
    BY <2>1
  <2>3. EmailsVouched'
    BY <2>1
  <2>4. SessionsKnown'
    BY <2>1
  <2>5. AcceptancesVouched'
    <3> SUFFICES ASSUME NEW c \in Browsers, accepting[c] # NotAccepting
                 PROVE  accepting[c].loaded \in verified'[accepting[c].user]
      BY <2>1
    <3>1. accepting[c].user \in Users
      BY DEF Acceptances
    <3> QED
      BY <2>2, <3>1
  <2> QED
    BY <2>3, <2>4, <2>5
<1>3. ASSUME NEW b \in Browsers, SignOut(b)
      PROVE  Vouched'
  BY <1>3 DEF SignOut
<1>4. ASSUME NEW b \in Browsers, NEW i \in Invitations, BeginAccept(b, i)
      PROVE  Vouched'
  <2>1. email[session[b]] \in verified[session[b]]
    BY <1>4 DEF BeginAccept
  <2> QED
    BY <1>4, <2>1 DEF BeginAccept
<1>5. ASSUME NEW b \in Browsers, EndAccept(b)
      PROVE  Vouched'
  BY <1>5 DEF EndAccept, Accept
<1>6. ASSUME NEW b \in Browsers, NEW h \in Households, CreateWorkspace(b, h)
      PROVE  Vouched'
  BY <1>6 DEF CreateWorkspace, CreateHousehold
<1>7. ASSUME NEW b \in Browsers, NEW w \in Workspaces, NEW e \in Emails,
             InviteToWorkspace(b, w, e)
      PROVE  Vouched'
  BY <1>7 DEF InviteToWorkspace, Invite
<1> QED
  BY <1>1, <1>2, <1>3, <1>4, <1>5, <1>6, <1>7
     DEF Next, Tick, CallbackFails, CallbackRefused

-----------------------------------------------------------------------------
(* Memberships: what a step can do to them.                                *)

\* A step that grants a membership is a sign-in, the founding of a household
\* or an acceptance; everything else leaves memberships and owners alone.
LEMMA Grants ==
  ASSUME TypeOK, Vouched, [Next]_allVars
  PROVE  \/ UNCHANGED <<email, owner, members, acceptedBy, verified, invitation>>
         \/ \E u \in Users, e \in Emails : Identify(u, e)
         \/ \E u \in Users, h \in Households : CreateHousehold(u, h)
         \/ \E u \in Users, w \in Workspaces, e \in Emails, i \in Invitations :
              Invite(u, w, e, i)
         \/ \E u \in Users, i \in Invitations :
              \E e \in verified[u] : Accept(u, e, i)
<1> USE MembershipAssumption DEF TypeOK, AccountsTypeOK
<1>1. CASE UNCHANGED accountVars
  BY <1>1 DEF accountVars
<1>2. ASSUME NEW b \in Browsers, NEW host \in Hosts, NEW u \in Users, NEW e \in Emails,
             Callback(b, host, u, e)
      PROVE  Identify(u, e)
  BY <1>2 DEF Callback
<1>3. ASSUME NEW b \in Browsers, NEW h \in Households, CreateWorkspace(b, h)
      PROVE  session[b] \in Users /\ CreateHousehold(session[b], h)
  BY <1>3 DEF CreateWorkspace
<1>4. ASSUME NEW b \in Browsers, NEW w \in Workspaces, NEW e \in Emails,
             InviteToWorkspace(b, w, e)
      PROVE  session[b] \in Users /\ \E i \in Invitations : Invite(session[b], w, e, i)
  BY <1>4 DEF InviteToWorkspace
<1>5. ASSUME NEW b \in Browsers, EndAccept(b)
      PROVE  \/ UNCHANGED accountVars
             \/ \E u \in Users, i \in Invitations :
                  \E e \in verified[u] : Accept(u, e, i)
  BY <1>5 DEF EndAccept, Acceptances, Vouched, AcceptancesVouched
<1>6. ASSUME NEW b \in Browsers, SignOut(b) \/ \E i \in Invitations : BeginAccept(b, i)
      PROVE  UNCHANGED accountVars
  BY <1>6 DEF SignOut, BeginAccept
<1> QED
  BY <1>1, <1>2, <1>3, <1>4, <1>5, <1>6
     DEF Next, Tick, CallbackFails, CallbackRefused, allVars

\* Invitations are sent for households, accepted after they were sent, and
\* the founder of a household belongs to it.
HouseholdsOK == InvitationsShared /\ OwnersBelong

LEMMA InitHouseholds == Init => HouseholdsOK
BY DEF Init, InitAccounts, HouseholdsOK, InvitationsShared, OwnersBelong, Sent, Accepted

LEMMA StepHouseholds ==
  ASSUME TypeOK, Vouched, HouseholdsOK, [Next]_allVars
  PROVE  HouseholdsOK'
<1> USE MembershipAssumption
        DEF TypeOK, AccountsTypeOK, HouseholdsOK, InvitationsShared, OwnersBelong,
            Sent, Accepted, IsMember
<1>1. CASE UNCHANGED <<email, owner, members, acceptedBy, verified, invitation>>
  BY <1>1
<1>2. ASSUME NEW u \in Users, NEW e \in Emails, Identify(u, e)
      PROVE  HouseholdsOK'
  BY <1>2 DEF Identify
<1>3. ASSUME NEW u \in Users, NEW h \in Households, CreateHousehold(u, h)
      PROVE  HouseholdsOK'
  BY <1>3 DEF CreateHousehold
<1>4. ASSUME NEW u \in Users, NEW w \in Workspaces, NEW e \in Emails,
             NEW i \in Invitations, Invite(u, w, e, i)
      PROVE  HouseholdsOK'
  <2> DEFINE row == [workspace |-> w, to |-> e, expires |-> now + Life]
  <2>1. /\ invitation' = [invitation EXCEPT ![i] = row]
        /\ UNCHANGED <<owner, members, acceptedBy>>
        /\ \E h \in Households : row.workspace = Household(h)
    BY <1>4 DEF Invite, MayInvite, Shareable
  <2>2. row # NoInvitation
    BY DEF NoInvitation
  <2> HIDE DEF row
  <2> QED
    BY <2>1, <2>2
<1>5. ASSUME NEW u \in Users, NEW i \in Invitations, NEW e \in verified[u],
             Accept(u, e, i)
      PROVE  HouseholdsOK'
  BY <1>5 DEF Accept, Admits
<1> QED
  BY <1>1, <1>2, <1>3, <1>4, <1>5, Grants

-----------------------------------------------------------------------------
(* Who belongs where.                                                      *)

LEMMA InitPrivate == Init => PersonalIsPrivate
BY DEF Init, InitAccounts, PersonalIsPrivate, IsMember

LEMMA StepPrivate ==
  ASSUME TypeOK, Vouched, HouseholdsOK, PersonalIsPrivate, [Next]_allVars
  PROVE  PersonalIsPrivate'
<1> USE MembershipAssumption, WorkspaceNames, MembershipRows
        DEF TypeOK, AccountsTypeOK, PersonalIsPrivate, IsMember
<1>1. CASE UNCHANGED <<email, owner, members, acceptedBy, verified, invitation>>
  BY <1>1
<1>2. ASSUME NEW u \in Users, NEW e \in Emails, Identify(u, e)
      PROVE  PersonalIsPrivate'
  BY <1>2 DEF Identify
<1>3. ASSUME NEW u \in Users, NEW h \in Households, CreateHousehold(u, h)
      PROVE  PersonalIsPrivate'
  BY <1>3 DEF CreateHousehold
<1>4. ASSUME NEW u \in Users, NEW w \in Workspaces, NEW e \in Emails,
             NEW i \in Invitations, Invite(u, w, e, i)
      PROVE  PersonalIsPrivate'
  BY <1>4 DEF Invite
<1>5. ASSUME NEW u \in Users, NEW i \in Invitations, NEW e \in verified[u],
             Accept(u, e, i)
      PROVE  PersonalIsPrivate'
  <2>1. PICK h \in Households : invitation[i].workspace = Household(h)
    BY <1>5 DEF Accept, Admits, HouseholdsOK, InvitationsShared
  <2> QED
    BY <1>5, <2>1 DEF Accept
<1> QED
  BY <1>1, <1>2, <1>3, <1>4, <1>5, Grants

LEMMA InitInvited == Init => MembersWereInvited
BY DEF Init, InitAccounts, MembersWereInvited, IsMember

\* What vouches for a membership is never taken back.
LEMMA StepInvited ==
  ASSUME TypeOK, Vouched, HouseholdsOK, MembersWereInvited, [Next]_allVars
  PROVE  MembersWereInvited'
<1> USE MembershipAssumption, WorkspaceNames, MembershipRows
        DEF TypeOK, AccountsTypeOK, MembersWereInvited, IsMember
<1>1. CASE UNCHANGED <<email, owner, members, acceptedBy, verified, invitation>>
  BY <1>1
<1>2. ASSUME NEW u \in Users, NEW e \in Emails, Identify(u, e)
      PROVE  MembersWereInvited'
  <2>1. \A v \in Users : verified[v] \subseteq verified'[v]
    BY <1>2 DEF Identify
  <2> QED
    BY <1>2, <2>1 DEF Identify
<1>3. ASSUME NEW u \in Users, NEW h \in Households, CreateHousehold(u, h)
      PROVE  MembersWereInvited'
  <2>1. /\ owner[h] = NoUser /\ owner' = [owner EXCEPT ![h] = u]
        /\ members' = members \cup {<<Household(h), u>>}
        /\ UNCHANGED <<invitation, acceptedBy, verified>>
    BY <1>3 DEF CreateHousehold
  <2>2. ASSUME NEW g \in Households, NEW v \in Users, <<Household(g), v>> \in members
        PROVE  \/ owner'[g] = v
               \/ \E i \in Invitations :
                    /\ acceptedBy[i] = v
                    /\ invitation[i].workspace = Household(g)
                    /\ invitation[i].to \in verified[v]
    BY <2>1, <2>2
  <2>3. ASSUME NEW g \in Households, NEW v \in Users,
               <<Household(g), v>> = <<Household(h), u>>
        PROVE  owner'[g] = v
    BY <2>1, <2>3
  <2> QED
    BY <2>1, <2>2, <2>3
<1>4. ASSUME NEW u \in Users, NEW w \in Workspaces, NEW e \in Emails,
             NEW i \in Invitations, Invite(u, w, e, i)
      PROVE  MembersWereInvited'
  <2>1. acceptedBy[i] = NoUser
    BY <1>4 DEF Invite, HouseholdsOK, InvitationsShared, Accepted
  <2>2. \A j \in Invitations \ {i} : invitation'[j] = invitation[j]
    BY <1>4 DEF Invite
  <2> QED
    BY <1>4, <2>1, <2>2 DEF Invite
<1>5. ASSUME NEW u \in Users, NEW i \in Invitations, NEW e \in verified[u],
             Accept(u, e, i)
      PROVE  MembersWereInvited'
  <2> SUFFICES ASSUME NEW h \in Households, NEW v \in Users,
                      <<Household(h), v>> \in members', owner[h] # v
               PROVE  \E j \in Invitations :
                        /\ acceptedBy'[j] = v
                        /\ invitation[j].workspace = Household(h)
                        /\ invitation[j].to \in verified[v]
    BY <1>5 DEF Accept
  <2>1. /\ acceptedBy' = [acceptedBy EXCEPT ![i] = u]
        /\ members' = members \cup {<<invitation[i].workspace, u>>}
        /\ acceptedBy[i] = NoUser
        /\ invitation[i].to = e
    BY <1>5 DEF Accept, Admits, Accepted
  <2>2. CASE <<Household(h), v>> \in members
    BY <2>1, <2>2
  <2>3. CASE Household(h) = invitation[i].workspace /\ v = u
    BY <2>1, <2>3
  <2> QED
    BY <2>1, <2>2, <2>3
<1> QED
  BY <1>1, <1>2, <1>3, <1>4, <1>5, Grants

\* A household's new member founded it or holds an invitation that is live.
LEMMA StepAdmitted ==
  ASSUME TypeOK, Vouched, HouseholdsOK, [Next]_allVars
  PROVE  /\ members \subseteq members'
         /\ \A h \in Households, u \in Users :
              <<Household(h), u>> \in members' \ members =>
                \/ owner[h] = NoUser /\ owner'[h] = u
                \/ \E i \in Invitations :
                     /\ acceptedBy[i] = NoUser /\ acceptedBy'[i] = u
                     /\ now < invitation[i].expires
<1> USE MembershipAssumption, WorkspaceNames, MembershipRows
        DEF TypeOK, AccountsTypeOK
<1>1. CASE UNCHANGED <<email, owner, members, acceptedBy, verified, invitation>>
  BY <1>1
<1>2. ASSUME NEW u \in Users, NEW e \in Emails, Identify(u, e)
      PROVE  members' = members \cup {<<Personal(u), u>>}
  BY <1>2 DEF Identify
<1>3. ASSUME NEW u \in Users, NEW h \in Households, CreateHousehold(u, h)
      PROVE  /\ members' = members \cup {<<Household(h), u>>}
             /\ owner[h] = NoUser /\ owner'[h] = u
  BY <1>3 DEF CreateHousehold
<1>4. ASSUME NEW u \in Users, NEW w \in Workspaces, NEW e \in Emails,
             NEW i \in Invitations, Invite(u, w, e, i)
      PROVE  members' = members
  BY <1>4 DEF Invite
<1>5. ASSUME NEW u \in Users, NEW i \in Invitations, NEW e \in verified[u],
             Accept(u, e, i)
      PROVE  /\ members' = members \cup {<<invitation[i].workspace, u>>}
             /\ acceptedBy[i] = NoUser /\ acceptedBy'[i] = u
             /\ now < invitation[i].expires
  <2>1. Sent(i) /\ ~(invitation[i].expires <= now)
    BY <1>5 DEF Accept, Admits, Expired
  <2>2. invitation[i].expires \in Nat
    BY <2>1 DEF Sent, InvitationRows
  <2> QED
    BY <1>5, <2>1, <2>2 DEF Accept, Admits, Accepted
<1> QED
  BY <1>1, <1>2, <1>3, <1>4, <1>5, Grants

-----------------------------------------------------------------------------
(* Live invitations.                                                       *)

\* No two invitations that still count are for one address and one household.
NoTwoPending ==
  \A h \in Households, e \in Emails :
    \A i, j \in Pending(Household(h), e) : i = j

LEMMA InitPending == Init => NoTwoPending
BY DEF Init, InitAccounts, NoTwoPending, Pending, Sent

\* Time moves forward, and nothing extends an invitation.
LEMMA StepPending ==
  ASSUME TypeOK, Vouched, NoTwoPending, [Next]_allVars
  PROVE  NoTwoPending'
<1> USE MembershipAssumption DEF TypeOK, AccountsTypeOK
<1>1. now' \in Nat /\ now <= now'
  BY StepType
     DEF Next, Tick, CallbackFails, CallbackRefused, Callback, SignOut, CreateWorkspace,
         InviteToWorkspace, BeginAccept, EndAccept, allVars
<1>2. ASSUME UNCHANGED invitation, \A i \in Invitations : Accepted(i) => Accepted(i)'
      PROVE  NoTwoPending'
  <2>1. ASSUME NEW w, NEW e, NEW i \in Pending(w, e)'
        PROVE  i \in Pending(w, e)
    <3>1. i \in Invitations /\ Sent(i) /\ ~Accepted(i)
      BY <1>2, <2>1 DEF Pending, Sent
    <3>2. invitation[i].expires \in Nat /\ ~(invitation[i].expires <= now')
      BY <1>2, <2>1, <3>1 DEF Pending, Expired, Sent, InvitationRows
    <3>3. ~Expired(i)
      BY <1>1, <3>2 DEF Expired
    <3> QED
      BY <1>2, <2>1, <3>1, <3>3 DEF Pending
  <2> QED
    BY <2>1 DEF NoTwoPending
<1>3. ASSUME NEW u \in Users, NEW w \in Workspaces, NEW e \in Emails,
             NEW i \in Invitations, Invite(u, w, e, i)
      PROVE  NoTwoPending'
  <2>1. /\ \A j \in Invitations \ {i} : invitation'[j] = invitation[j]
        /\ invitation'[i].workspace = w /\ invitation'[i].to = e
        /\ acceptedBy' = acceptedBy
    BY <1>3 DEF Invite
  <2>2. Pending(w, e) = {}
    BY <1>3 DEF Invite, MayInvite
  <2>3. ASSUME NEW x, NEW d, NEW j \in Pending(x, d)', j # i
        PROVE  j \in Pending(x, d)
    <3>1. j \in Invitations /\ Sent(j) /\ ~Accepted(j)
      BY <2>1, <2>3 DEF Pending, Sent, Accepted
    <3>2. invitation[j].expires \in Nat /\ ~(invitation[j].expires <= now')
      BY <2>1, <2>3, <3>1 DEF Pending, Expired, Sent, InvitationRows
    <3>3. ~Expired(j)
      BY <1>1, <3>2 DEF Expired
    <3> QED
      BY <2>1, <2>3, <3>1, <3>3 DEF Pending
  <2>4. ASSUME NEW x, NEW d, i \in Pending(x, d)'
        PROVE  x = w /\ d = e
    BY <2>1, <2>4 DEF Pending
  <2> QED
    BY <2>2, <2>3, <2>4 DEF NoTwoPending
<1>4. ASSUME NEW u \in Users, NEW i \in Invitations, NEW e \in verified[u],
             Accept(u, e, i)
      PROVE  UNCHANGED invitation /\ \A j \in Invitations : Accepted(j) => Accepted(j)'
  BY <1>4 DEF Accept, Accepted
<1>5. ASSUME UNCHANGED <<invitation, acceptedBy>>
      PROVE  NoTwoPending'
  BY <1>2, <1>5 DEF Accepted
<1> QED
  BY <1>2, <1>3, <1>4, <1>5, Grants DEF Identify, CreateHousehold

\* At most one is at most one by cardinality, and nothing else stops the
\* founder from inviting.
LEMMA PendingIsLive ==
  ASSUME TypeOK, HouseholdsOK, NoTwoPending
  PROVE  OneLiveInvitation
<1> SUFFICES ASSUME NEW h \in Households, NEW e \in Emails,
                    NEW live, live = {i \in Invitations : /\ Sent(i) /\ acceptedBy[i] = NoUser
                                           /\ now < invitation[i].expires
                                           /\ invitation[i].workspace = Household(h)
                                           /\ invitation[i].to = e}
             PROVE  /\ Cardinality(live) <= 1
                    /\ (owner[h] # NoUser /\ live = {} /\ ~MemberHas(Household(h), e)) =>
                         MayInvite(owner[h], Household(h), e)
  BY DEF OneLiveInvitation
<1>1. \A i \in Invitations : Sent(i) =>
        (now < invitation[i].expires <=> ~(invitation[i].expires <= now))
  BY DEF TypeOK, AccountsTypeOK, InvitationRows, Sent
<1>2. live = Pending(Household(h), e)
  BY <1>1 DEF Pending, Accepted, Expired
<1>3. Cardinality(live) <= 1
  <2>1. CASE live = {}
    BY <2>1, FS_EmptySet
  <2>2. CASE \E i \in live : live = {i}
    <3>1. PICK i \in live : live = {i}
      BY <2>2
    <3>2. Cardinality({i}) = 1
      BY FS_Singleton
    <3>3. Cardinality(live) = 1
      BY <3>1, <3>2, Zenon
    <3> QED
      BY <3>3
  <2> QED
    BY <1>2, <2>1, <2>2 DEF NoTwoPending
<1>4. ASSUME owner[h] # NoUser, live = {}, ~MemberHas(Household(h), e)
      PROVE  MayInvite(owner[h], Household(h), e)
  BY <1>2, <1>4 DEF MayInvite, Shareable, HouseholdsOK, OwnersBelong
<1> QED
  BY <1>3, <1>4

-----------------------------------------------------------------------------
(* The sliding window, for every limit, window and number of keys: the     *)
(* deque of a key is what its history still has in the window.             *)

\* Deque a ends the history g, which is in order; the rest of g has passed.
Remembers(a, g, t) ==
  /\ \A i, j \in 1..Len(g) : i <= j => g[i] <= g[j]
  /\ \A i \in 1..Len(g) : g[i] <= t
  /\ Len(a) <= Len(g) /\ Len(a) <= Limit
  /\ \A i \in 1..Len(a) : a[i] = g[Len(g) - Len(a) + i]
  /\ \A i \in 1..(Len(g) - Len(a)) : t - g[i] >= Window

LimiterInv ==
  /\ clock \in Nat
  /\ attempts \in [Keys -> Seq(Nat)]
  /\ granted \in [Keys -> Seq(Nat)]
  /\ \A k \in Keys : Remembers(attempts[k], granted[k], clock)

LEMMA InitLimiterInv == InitLimiter => LimiterInv
<1> SUFFICES ASSUME InitLimiter
             PROVE  LimiterInv
  OBVIOUS
<1>1. clock = 0 /\ \A k \in Keys : attempts[k] = <<>> /\ granted[k] = <<>>
  BY DEF InitLimiter
<1>2. attempts \in [Keys -> Seq(Nat)] /\ granted \in [Keys -> Seq(Nat)]
  BY DEF InitLimiter
<1>3. Remembers(<<>>, <<>>, 0)
  BY LimiterAssumption DEF Remembers
<1> QED
  BY <1>1, <1>2, <1>3 DEF LimiterInv

-----------------------------------------------------------------------------
(* What an attempt leaves of the deque.                                    *)

\* What Remembers says, with the types that arithmetic asks for.
LEMMA Unfold ==
  ASSUME NEW a \in Seq(Nat), NEW g \in Seq(Nat), NEW t \in Nat, Remembers(a, g, t)
  PROVE  /\ Len(a) \in Nat /\ Len(g) \in Nat /\ Len(a) <= Len(g) /\ Len(a) <= Limit
         /\ Limit \in Nat /\ Window \in Nat \ {0}
         /\ \A i \in 1..Len(a) : a[i] \in Nat
         /\ \A i \in 1..Len(g) : g[i] \in Nat /\ g[i] <= t
         /\ \A i, j \in 1..Len(g) : i <= j => g[i] <= g[j]
         /\ \A i \in 1..Len(a) : a[i] = g[Len(g) - Len(a) + i]
         /\ \A i \in 1..(Len(g) - Len(a)) : t - g[i] >= Window
<1>1. Len(a) \in Nat /\ Len(g) \in Nat /\ Limit \in Nat /\ Window \in Nat \ {0}
  BY LimiterAssumption
<1>2. /\ \A i \in 1..Len(a) : a[i] \in Nat
      /\ \A i \in 1..Len(g) : g[i] \in Nat
  OBVIOUS
<1> QED
  BY <1>1, <1>2 DEF Remembers

\* A set that is closed upwards in an interval is an interval.
LEMMA UpperPart ==
  ASSUME NEW n \in Nat, NEW S \in SUBSET (1..n), S # {},
         \A i \in S, j \in 1..n : i <= j => j \in S
  PROVE  \E m \in 1..n : S = m..n
<1> DEFINE c == Cardinality(S)
           m == n - c + 1
<1>1. IsFiniteSet(1..n) /\ Cardinality(1..n) = n
  BY FS_Interval
<1>2. IsFiniteSet(S) /\ c <= n
  BY <1>1, FS_Subset
<1>3. c \in Nat
  BY <1>2, FS_CardinalityType
<1>4. c # 0
  BY <1>2, FS_EmptySet
<1>5. \A i \in S : m <= i
  <2> SUFFICES ASSUME NEW i \in S
               PROVE  m <= i
    OBVIOUS
  <2>1. i \in Int /\ n \in Int /\ i <= n
    OBVIOUS
  <2>2. Cardinality(i..n) = n - i + 1
    BY <2>1, FS_Interval
  <2>3. i..n \in SUBSET S
    OBVIOUS
  <2>4. Cardinality(i..n) <= c
    BY <1>2, <2>3, FS_Subset
  <2> HIDE DEF c
  <2> QED
    BY <1>3, <2>1, <2>2, <2>4
<1>6. m \in 1..n
  BY <1>2, <1>3, <1>4
<1>7. m \in S
  <2> SUFFICES ASSUME m \notin S
               PROVE  FALSE
    OBVIOUS
  <2>1. S \in SUBSET ((m + 1)..n)
    BY <1>5, <1>6
  <2>2. m + 1 \in Int /\ n \in Int
    BY <1>6
  <2>3. IsFiniteSet((m + 1)..n)
    BY <2>2, FS_Interval
  <2>4. Cardinality((m + 1)..n) = IF m + 1 > n THEN 0 ELSE n - (m + 1) + 1
    BY <2>2, FS_Interval
  <2>5. c <= Cardinality((m + 1)..n)
    BY <2>1, <2>3, FS_Subset
  <2> HIDE DEF c
  <2> QED
    BY <1>2, <1>3, <1>4, <2>4, <2>5
<1> HIDE DEF m
<1>8. S = m..n
  <2>1. ASSUME NEW i \in S
        PROVE  i \in m..n
    BY <1>5, <1>6
  <2>2. ASSUME NEW i \in m..n
        PROVE  i \in S
    <3>1. i \in 1..n /\ m <= i
      BY <1>6
    <3> QED
      BY <1>7, <3>1
  <2> QED
    BY <2>1, <2>2
<1> QED
  BY <1>6, <1>8

\* The loop of popleft leaves a deque that still ends the history, and no
\* attempt in it has passed.
LEMMA RecentRemembers ==
  ASSUME LimiterInv, NEW k \in Keys
  PROVE  /\ Recent(k) \in Seq(Nat)
         /\ Remembers(Recent(k), granted[k], clock)
         /\ \A i \in 1..Len(Recent(k)) : clock - Recent(k)[i] < Window
<1> DEFINE a == attempts[k]
           g == granted[k]
           n == Len(a)
           N == Len(g)
           kept == {i \in 1..n : ~Passed(a[i])}
<1>1. clock \in Nat /\ a \in Seq(Nat) /\ g \in Seq(Nat) /\ Remembers(a, g, clock)
  BY DEF LimiterInv
<1>2. /\ n \in Nat /\ N \in Nat /\ n <= N /\ n <= Limit
      /\ Limit \in Nat /\ Window \in Nat \ {0}
      /\ \A i \in 1..n : a[i] \in Nat
      /\ \A i \in 1..N : g[i] \in Nat /\ g[i] <= clock
      /\ \A i, j \in 1..N : i <= j => g[i] <= g[j]
      /\ \A i \in 1..n : a[i] = g[N - n + i]
      /\ \A i \in 1..(N - n) : clock - g[i] >= Window
  BY <1>1, Unfold
<1>3. /\ kept \in SUBSET (1..n)
      /\ \A i \in 1..n : i \in kept <=> clock - a[i] < Window
  <2>1. clock \in Int /\ Window \in Int /\ \A i \in 1..n : a[i] \in Int
    BY <1>1, <1>2
  <2> HIDE DEF a, n
  <2> QED
    BY <2>1 DEF Passed
<1>4. Recent(k) = IF kept = {} THEN <<>>
                  ELSE SubSeq(a, CHOOSE i \in kept : \A j \in kept : i <= j, n)
  BY DEF Recent
<1>5. /\ \A i, j \in 1..N : i <= j => g[i] <= g[j]
      /\ \A i \in 1..N : g[i] <= clock
  BY <1>2
<1> HIDE DEF n, N, kept, a, g
<1>6. \A i \in 1..N : i > N - n => /\ i - (N - n) \in 1..n
                                   /\ a[i - (N - n)] = g[i]
  <2> SUFFICES ASSUME NEW i \in 1..N, i > N - n
               PROVE  i - (N - n) \in 1..n /\ a[i - (N - n)] = g[i]
    OBVIOUS
  <2>1. i - (N - n) \in 1..n /\ N - n + (i - (N - n)) = i
    BY <1>2
  <2> QED
    BY <1>2, <2>1
<1>7. CASE kept = {}
  <2>1. Recent(k) = <<>>
    BY <1>4, <1>7
  <2>2. \A i \in 1..N : clock - g[i] >= Window
    <3> SUFFICES ASSUME NEW i \in 1..N, i > N - n
                 PROVE  clock - g[i] >= Window
      BY <1>2
    <3>1. /\ i - (N - n) \in 1..n /\ i - (N - n) \notin kept
          /\ a[i - (N - n)] = g[i]
      BY <1>6, <1>7
    <3>2. ~(clock - g[i] < Window) /\ g[i] \in Nat
      BY <1>2, <1>3, <3>1
    <3> QED
      BY <1>1, <1>2, <3>2
  <2>3. Remembers(<<>>, g, clock)
    BY <1>2, <2>2 DEF Remembers, N
  <2> QED
    BY <2>1, <2>3 DEF g
<1>8. CASE kept # {}
  <2>1. \A i \in kept, j \in 1..n : i <= j => j \in kept
    <3> SUFFICES ASSUME NEW i \in kept, NEW j \in 1..n, i <= j
                 PROVE  j \in kept
      OBVIOUS
    <3>1. /\ i \in 1..n /\ N - n + i \in 1..N /\ N - n + j \in 1..N
          /\ N - n + i <= N - n + j
      BY <1>2, <1>3
    <3>2. a[i] <= a[j]
      BY <1>2, <3>1
    <3>3. a[i] \in Nat /\ a[j] \in Nat /\ clock \in Nat /\ Window \in Nat
      BY <1>1, <1>2, <3>1
    <3>4. clock - a[i] < Window
      BY <1>3, <3>1
    <3>5. clock - a[j] < Window
      BY <3>2, <3>3, <3>4
    <3> QED
      BY <1>3, <3>5
  <2>2. PICK m \in 1..n : kept = m..n
    BY <1>2, <1>3, <1>8, <2>1, UpperPart
  <2>3. (CHOOSE i \in kept : \A j \in kept : i <= j) = m
    <3>1. m \in kept /\ \A j \in kept : m <= j
      BY <1>2, <2>2
    <3>2. ASSUME NEW i \in kept, \A j \in kept : i <= j
          PROVE  i = m
      <4>1. i <= m /\ i \in m..n
        BY <2>2, <3>1, <3>2
      <4> QED
        BY <1>2, <4>1
    <3> QED
      BY <3>1, <3>2
  <2> DEFINE b == SubSeq(a, m, n)
             p == n - m + 1
  <2>4. Recent(k) = b
    BY <1>4, <1>8, <2>3
  <2>5. p \in 1..n /\ N - p \in Nat /\ p <= N /\ p <= Limit
    BY <1>2
  <2>6. /\ b \in Seq(Nat) /\ Len(b) = p
        /\ \A i \in 1..p : b[i] = a[m + i - 1]
    BY <1>1, <1>2 DEF n
  <2>7. \A i \in 1..p : clock - b[i] < Window
    <3> SUFFICES ASSUME NEW i \in 1..p
                 PROVE  clock - a[m + i - 1] < Window
      BY <2>6
    <3>1. m + i - 1 \in 1..n /\ m + i - 1 \in m..n
      BY <1>2
    <3> QED
      BY <1>3, <2>2, <3>1
  <2>8. \A i \in 1..p : b[i] = g[N - p + i]
    <3> SUFFICES ASSUME NEW i \in 1..p
                 PROVE  a[m + i - 1] = g[N - p + i]
      BY <2>6
    <3>1. m + i - 1 \in 1..n /\ N - n + (m + i - 1) = N - p + i
      BY <1>2
    <3> QED
      BY <1>2, <3>1
  <2>9. \A i \in 1..(N - p) : clock - g[i] >= Window
    <3> SUFFICES ASSUME NEW i \in 1..(N - p), i > N - n
                 PROVE  clock - g[i] >= Window
      BY <1>2, <2>5
    <3>1. i \in 1..N /\ i - (N - n) \notin m..n
      BY <1>2, <2>5
    <3>2. i - (N - n) \in 1..n /\ a[i - (N - n)] = g[i] /\ g[i] \in Nat
      BY <1>2, <1>6, <3>1
    <3>3. ~(clock - g[i] < Window)
      BY <1>3, <2>2, <3>1, <3>2
    <3> QED
      BY <1>1, <1>2, <3>2, <3>3
  <2> HIDE DEF b, p
  <2>10. Remembers(b, g, clock)
    BY <1>5, <2>5, <2>6, <2>8, <2>9 DEF Remembers, N
  <2> QED
    BY <2>4, <2>6, <2>7, <2>10 DEF g
<1> QED
  BY <1>7, <1>8

\* It is the deque that the limit is compared with that fills the window.
LEMMA RecentFillsWindow ==
  ASSUME LimiterInv, NEW k \in Keys
  PROVE  Cardinality(InWindow(k)) = Len(Recent(k)) /\ Len(Recent(k)) <= Limit
<1> DEFINE r == Recent(k)
           g == granted[k]
           n == Len(r)
           N == Len(g)
<1>1. /\ clock \in Nat /\ g \in Seq(Nat) /\ r \in Seq(Nat) /\ Remembers(r, g, clock)
      /\ \A i \in 1..n : clock - r[i] < Window
  BY RecentRemembers DEF LimiterInv
<1> HIDE DEF r
<1>2. /\ n \in Nat /\ N \in Nat /\ n <= N /\ n <= Limit /\ Window \in Nat
      /\ \A i \in 1..N : g[i] \in Nat
      /\ \A i \in 1..n : r[i] = g[N - n + i]
      /\ \A i \in 1..(N - n) : clock - g[i] >= Window
  BY <1>1, Unfold
<1>3. InWindow(k) = {i \in 1..N : clock - g[i] < Window}
  BY DEF InWindow
<1> HIDE DEF g, n, N
<1>4. ASSUME NEW i \in 1..N
      PROVE  clock - g[i] < Window <=> i > N - n
  <2>1. CASE i > N - n
    <3>1. i - (N - n) \in 1..n /\ N - n + (i - (N - n)) = i
      BY <1>2, <2>1
    <3>2. clock - g[i] < Window
      BY <1>1, <1>2, <3>1
    <3> QED
      BY <2>1, <3>2
  <2>2. CASE ~(i > N - n)
    <3>1. i \in 1..(N - n)
      BY <1>2, <2>2
    <3>2. clock - g[i] >= Window /\ g[i] \in Nat
      BY <1>2, <3>1
    <3> QED
      BY <1>1, <1>2, <2>2, <3>2
  <2> QED
    BY <2>1, <2>2
<1>5. InWindow(k) = (N - n + 1)..N
  BY <1>2, <1>3, <1>4
<1>6. N - n + 1 \in Int /\ N \in Int
  BY <1>2
<1>7. Cardinality((N - n + 1)..N) = IF N - n + 1 > N THEN 0 ELSE N - (N - n + 1) + 1
  BY <1>6, FS_Interval
<1>8. Cardinality((N - n + 1)..N) = n
  BY <1>2, <1>7
<1> QED
  BY <1>2, <1>5, <1>8 DEF n, r

-----------------------------------------------------------------------------
(* Every call preserves the invariant.                                     *)

LEMMA AllowKeeps ==
  ASSUME LimiterInv, NEW k \in Keys, Allow(k), clock' = clock
  PROVE  LimiterInv'
<1> DEFINE r == Recent(k)
           g == granted[k]
           n == Len(r)
           N == Len(g)
           b == Append(r, clock)
           h == Append(g, clock)
<1>1. /\ clock \in Nat /\ g \in Seq(Nat) /\ r \in Seq(Nat) /\ Remembers(r, g, clock)
      /\ n < Limit
  BY RecentRemembers DEF LimiterInv, Allow
<1>2. attempts' = [attempts EXCEPT ![k] = b] /\ granted' = [granted EXCEPT ![k] = h]
  BY DEF Allow
<1> HIDE DEF r, g
<1>3. /\ n \in Nat /\ N \in Nat /\ n <= N /\ Limit \in Nat /\ Window \in Nat
      /\ \A i \in 1..N : g[i] \in Nat /\ g[i] <= clock
      /\ \A i, j \in 1..N : i <= j => g[i] <= g[j]
      /\ \A i \in 1..n : r[i] = g[N - n + i]
      /\ \A i \in 1..(N - n) : clock - g[i] >= Window
  BY <1>1, Unfold
<1>4. /\ b \in Seq(Nat) /\ Len(b) = n + 1
      /\ \A i \in 1..(n + 1) : b[i] = IF i = n + 1 THEN clock ELSE r[i]
  BY <1>1
<1>5. /\ h \in Seq(Nat) /\ Len(h) = N + 1
      /\ \A i \in 1..(N + 1) : h[i] = IF i = N + 1 THEN clock ELSE g[i]
  BY <1>1
<1>6. n < Limit
  BY <1>1
<1>7. clock \in Nat
  BY <1>1
<1> HIDE DEF b, h, n, N
<1>8. Remembers(b, h, clock)
  <2>1. \A i, j \in 1..(N + 1) : i <= j => h[i] <= h[j]
    <3> SUFFICES ASSUME NEW i \in 1..(N + 1), NEW j \in 1..(N + 1), i <= j
                 PROVE  h[i] <= h[j]
      OBVIOUS
    <3>1. CASE j = N + 1
      BY <1>3, <1>5, <1>7, <3>1
    <3>2. CASE j # N + 1
      <4>1. i \in 1..N /\ j \in 1..N /\ i # N + 1
        BY <1>3, <3>2
      <4> QED
        BY <1>3, <1>5, <4>1
    <3> QED
      BY <3>1, <3>2
  <2>2. \A i \in 1..(N + 1) : h[i] <= clock
    BY <1>3, <1>5, <1>7
  <2>3. \A i \in 1..(n + 1) : b[i] = h[(N + 1) - (n + 1) + i]
    <3> SUFFICES ASSUME NEW i \in 1..(n + 1)
                 PROVE  b[i] = h[(N + 1) - (n + 1) + i]
      OBVIOUS
    <3>1. CASE i = n + 1
      <4>1. (N + 1) - (n + 1) + i = N + 1 /\ N + 1 \in 1..(N + 1)
        BY <1>3, <3>1
      <4> QED
        BY <1>4, <1>5, <3>1, <4>1
    <3>2. CASE i # n + 1
      <4>1. /\ i \in 1..n /\ (N + 1) - (n + 1) + i = N - n + i
            /\ N - n + i \in 1..(N + 1) /\ N - n + i # N + 1
        BY <1>3, <3>2
      <4> QED
        BY <1>3, <1>4, <1>5, <3>2, <4>1
    <3> QED
      BY <3>1, <3>2
  <2>4. \A i \in 1..((N + 1) - (n + 1)) : clock - h[i] >= Window
    <3> SUFFICES ASSUME NEW i \in 1..((N + 1) - (n + 1))
                 PROVE  clock - h[i] >= Window
      OBVIOUS
    <3>1. i \in 1..(N - n) /\ i \in 1..(N + 1) /\ i # N + 1
      BY <1>3
    <3> QED
      BY <1>3, <1>5, <3>1
  <2>5. n + 1 <= N + 1 /\ n + 1 <= Limit
    BY <1>3, <1>6
  <2>6. N + 1 = Len(h) /\ n + 1 = Len(b)
    BY <1>4, <1>5
  <2>7. /\ \A i, j \in 1..Len(h) : i <= j => h[i] <= h[j]
        /\ \A i \in 1..Len(h) : h[i] <= clock
        /\ Len(b) <= Len(h) /\ Len(b) <= Limit
    BY <2>1, <2>2, <2>5, <2>6
  <2>8. \A i \in 1..Len(b) : b[i] = h[Len(h) - Len(b) + i]
    <3> SUFFICES ASSUME NEW i \in 1..Len(b)
                 PROVE  b[i] = h[Len(h) - Len(b) + i]
      OBVIOUS
    <3>1. i \in 1..(n + 1) /\ (N + 1) - (n + 1) + i = Len(h) - Len(b) + i
      BY <2>6
    <3> QED
      BY <2>3, <3>1
  <2>9. \A i \in 1..(Len(h) - Len(b)) : clock - h[i] >= Window
    BY <1>3, <2>4, <2>6
  <2> QED
    BY <2>7, <2>8, <2>9 DEF Remembers
<1> QED
  BY <1>2, <1>4, <1>5, <1>7, <1>8 DEF LimiterInv

LEMMA RefuseKeeps ==
  ASSUME LimiterInv, NEW k \in Keys, Refuse(k), clock' = clock
  PROVE  LimiterInv'
<1>1. Recent(k) \in Seq(Nat) /\ Remembers(Recent(k), granted[k], clock)
  BY RecentRemembers
<1>2. attempts' = [attempts EXCEPT ![k] = Recent(k)] /\ granted' = granted
  BY DEF Refuse
<1> QED
  BY <1>1, <1>2 DEF LimiterInv

\* What has passed stays passed.
LEMMA TickKeeps ==
  ASSUME LimiterInv, clock' = clock + 1, UNCHANGED limiterVars
  PROVE  LimiterInv'
<1>1. /\ clock \in Nat /\ attempts' = attempts /\ granted' = granted
  BY DEF LimiterInv, limiterVars
<1>2. ASSUME NEW k \in Keys
      PROVE  Remembers(attempts[k], granted[k], clock + 1)
  <2> DEFINE a == attempts[k]
             g == granted[k]
             t == clock + 1
  <2>1. g \in Seq(Nat) /\ a \in Seq(Nat) /\ Remembers(a, g, clock)
    BY DEF LimiterInv
  <2> HIDE DEF a, g
  <2>2. /\ Window \in Nat /\ Len(a) \in Nat /\ Len(g) \in Nat
        /\ \A i \in 1..Len(g) : g[i] \in Nat /\ g[i] <= clock
        /\ \A i \in 1..(Len(g) - Len(a)) : clock - g[i] >= Window
        /\ Len(a) <= Len(g)
    BY <1>1, <2>1, Unfold
  <2>3. \A i \in 1..Len(g) : g[i] <= t
    BY <1>1, <2>2
  <2>4. \A i \in 1..(Len(g) - Len(a)) : t - g[i] >= Window
    <3> SUFFICES ASSUME NEW i \in 1..(Len(g) - Len(a))
                 PROVE  t - g[i] >= Window
      OBVIOUS
    <3>1. i \in 1..Len(g)
      BY <2>2
    <3> QED
      BY <1>1, <2>2, <3>1
  <2>5. /\ \A i, j \in 1..Len(g) : i <= j => g[i] <= g[j]
        /\ Len(a) <= Len(g) /\ Len(a) <= Limit
        /\ \A i \in 1..Len(a) : a[i] = g[Len(g) - Len(a) + i]
    BY <2>1 DEF Remembers
  <2> HIDE DEF t
  <2>6. Remembers(a, g, t)
    BY <2>3, <2>4, <2>5 DEF Remembers
  <2> QED
    BY <2>6 DEF a, g, t
<1> QED
  BY <1>1, <1>2 DEF LimiterInv

-----------------------------------------------------------------------------
(* The limiter keeps its count whatever the routes do.                     *)

LEMMA StepLimiter == LimiterInv /\ [Next]_allVars => LimiterInv'
<1> SUFFICES ASSUME LimiterInv, [Next]_allVars
             PROVE  LimiterInv'
  OBVIOUS
<1>1. ASSUME UNCHANGED <<clock, limiterVars>>
      PROVE  LimiterInv'
  BY <1>1 DEF limiterVars, LimiterInv
<1>2. CASE Tick
  BY <1>2, TickKeeps DEF Tick
<1>3. ASSUME NEW host \in Hosts, Allow(CallbackKey(host)), UNCHANGED clock
      PROVE  LimiterInv'
  BY <1>3, AllowKeeps, AccessAssumption
<1>4. ASSUME NEW host \in Hosts, Refuse(CallbackKey(host)), UNCHANGED clock
      PROVE  LimiterInv'
  BY <1>4, RefuseKeeps, AccessAssumption
<1>5. CASE UNCHANGED allVars
  BY <1>1, <1>5 DEF allVars
<1> QED
  BY <1>1, <1>2, <1>3, <1>4, <1>5
     DEF Next, CallbackFails, CallbackRefused, Callback, SignOut, CreateWorkspace,
         InviteToWorkspace, BeginAccept, EndAccept

LEMMA LimiterInvariant == Spec => []LimiterInv
<1>1. Init => LimiterInv
  BY InitLimiterInv DEF Init
<1> QED
  BY <1>1, StepLimiter, PTL DEF Spec

-----------------------------------------------------------------------------
(* The theorems.                                                           *)

AccessInv ==
  /\ TypeOK
  /\ Vouched
  /\ HouseholdsOK
  /\ PersonalIsPrivate
  /\ MembersWereInvited
  /\ NoTwoPending

LEMMA AccessInvariant == Spec => []AccessInv
<1>1. Init => AccessInv
  BY InitType, InitVouched, InitHouseholds, InitPrivate, InitInvited, InitPending
     DEF AccessInv
<1>2. AccessInv /\ [Next]_allVars => AccessInv'
  BY StepType, StepVouched, StepHouseholds, StepPrivate, StepInvited, StepPending
     DEF AccessInv
<1> QED
  BY <1>1, <1>2, PTL DEF Spec

\* Sessions, accounts and acceptances in flight stay well formed: a handler
\* that waits for the event loop holds a real user and a verified address.
THEOREM TypeCorrect == Spec => []TypeOK
<1>1. AccessInv => TypeOK
  BY DEF AccessInv
<1> QED
  BY <1>1, AccessInvariant, PTL

\* A personal workspace has no member but its owner, who always has one.
THEOREM PrivacyHolds == Spec => []PersonalIsPrivate
<1>1. AccessInv => PersonalIsPrivate
  BY DEF AccessInv
<1> QED
  BY <1>1, AccessInvariant, PTL

\* Every member of a household founded it or accepted an invitation sent to
\* an address that was verified as his.
THEOREM OnlyTheInvited == Spec => []MembersWereInvited
<1>1. AccessInv => MembersWereInvited
  BY DEF AccessInv
<1> QED
  BY <1>1, AccessInvariant, PTL

\* An address holds at most one live invitation to a household, and can be
\* invited again as soon as it holds none.
THEOREM LiveInvitationIsUnique == Spec => []OneLiveInvitation
<1>1. AccessInv => OneLiveInvitation
  BY PendingIsLive DEF AccessInv
<1> QED
  BY <1>1, AccessInvariant, PTL

\* Nobody is admitted by an invitation that has expired or was used, and
\* nobody who was admitted is ever put out.
THEOREM AdmissionIsLive == Spec => AdmittedWhileLive
<1>1. AccessInv /\ [Next]_allVars =>
        [ /\ members \subseteq members'
          /\ \A h \in Households, u \in Users :
               <<Household(h), u>> \in members' \ members =>
                 \/ owner[h] = NoUser /\ owner'[h] = u
                 \/ \E i \in Invitations :
                      /\ acceptedBy[i] = NoUser /\ acceptedBy'[i] = u
                      /\ now < invitation[i].expires ]_allVars
  BY StepAdmitted DEF AccessInv
<1> QED
  BY <1>1, AccessInvariant, PTL DEF Spec, AdmittedWhileLive

\* Over the whole history of a key no window holds more than Limit attempts,
\* whichever times they came at and however many were refused.
THEOREM WindowIsBounded == Spec => []NoWindowOverfull
<1>1. LimiterInv => NoWindowOverfull
  BY RecentFillsWindow DEF NoWindowOverfull
<1> QED
  BY <1>1, LimiterInvariant, PTL

\* An attempt is refused only when the window that ends now is full, and then
\* always: forgetting passed attempts forgets nothing that still counts.
THEOREM RefusalIsExact == Spec => []RefusesOnlyWhenFull
<1>1. LimiterInv => RefusesOnlyWhenFull
  BY RecentFillsWindow DEF RefusesOnlyWhenFull
<1> QED
  BY <1>1, LimiterInvariant, PTL
=============================================================================
