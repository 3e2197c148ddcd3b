---------------------------- MODULE AccessControl ----------------------------
(***************************************************************************)
(* The routes of app/auth/routes.py and app/workspaces/routes.py over      *)
(* Membership and RateLimiter.  Handlers run to their end on the event     *)
(* loop; the signed session and the user are resolved before, in a pool    *)
(* thread, so that an acceptance works with the address it has loaded.     *)
(***************************************************************************)
EXTENDS Membership, RateLimiter

CONSTANTS
  Browsers,
  Hosts,        \* addresses that requests come from
  MaxClock      \* bound of the clock

\* The limiter counts by path and client host, whatever browser is behind it.
CallbackKey(host) == <<"/auth/google/callback", host>>

ASSUME AccessAssumption == \A host \in Hosts : CallbackKey(host) \in Keys

VARIABLES
  session,      \* browser -> the user of its signed session, or NoUser
  accepting     \* browser -> an acceptance that has loaded its user

browserVars == <<session, accepting>>
allVars == <<clock, now, limiterVars, accountVars, browserVars>>

NotAccepting == [user |-> NoUser, loaded |-> NoEmail, id |-> 0]

Init ==
  /\ InitLimiter
  /\ InitAccounts
  /\ session = [b \in Browsers |-> NoUser]
  /\ accepting = [b \in Browsers |-> NotAccepting]

\* One clock serves the limiter and the invitations.
Tick ==
  /\ clock < MaxClock
  /\ clock' = clock + 1
  /\ now' = now + 1
  /\ UNCHANGED <<limiterVars, accountVars, browserVars>>

\* google_callback: the limiter, Google's answer, the user, a fresh session.
\* Waiting for the answer lies in between; neither half reads the other.
Callback(b, host, u, e) ==
  /\ Allow(CallbackKey(host))
  /\ Identify(u, e)
  /\ session' = [session EXCEPT ![b] = u]
  /\ UNCHANGED <<clock, now, accepting>>

\* Google refuses, or the address belongs to another account.
CallbackFails(host) ==
  /\ Allow(CallbackKey(host))
  /\ UNCHANGED <<clock, now, accountVars, browserVars>>

\* 429; the attempt is not recorded.
CallbackRefused(host) ==
  /\ Refuse(CallbackKey(host))
  /\ UNCHANGED <<clock, now, accountVars, browserVars>>

\* google_sign_in has no effect of its own and sign_out clears the cookie.
\* Bound: their keys of the limiter are not followed.
SignOut(b) ==
  /\ session[b] # NoUser
  /\ session' = [session EXCEPT ![b] = NoUser]
  /\ UNCHANGED <<clock, now, limiterVars, accountVars, accepting>>

CreateWorkspace(b, h) ==
  /\ session[b] # NoUser
  /\ CreateHousehold(session[b], h)
  /\ UNCHANGED <<clock, now, limiterVars, browserVars>>

InviteToWorkspace(b, w, e) ==
  /\ session[b] # NoUser
  /\ \E i \in Invitations :
       /\ \A j \in Invitations : ~Sent(j) => i <= j
       /\ Invite(session[b], w, e, i)
  /\ UNCHANGED <<clock, now, limiterVars, browserVars>>

\* require_current_user loads the user of the session; then the handler waits
\* for the event loop.
BeginAccept(b, i) ==
  /\ session[b] # NoUser
  /\ accepting[b] = NotAccepting
  /\ Sent(i)
  /\ accepting' = [accepting EXCEPT ![b] =
                     [user |-> session[b], loaded |-> email[session[b]], id |-> i]]
  /\ UNCHANGED <<clock, now, limiterVars, accountVars, session>>

EndAccept(b) ==
  /\ accepting[b] # NotAccepting
  /\ accepting' = [accepting EXCEPT ![b] = NotAccepting]
  /\ LET a == accepting[b] IN
       \/ Accept(a.user, a.loaded, a.id)
       \/ ~Admits(a.user, a.loaded, a.id) /\ UNCHANGED accountVars
  /\ UNCHANGED <<clock, now, limiterVars, session>>

Next ==
  \/ Tick
  \/ \E host \in Hosts : CallbackFails(host)
  \/ \E host \in Hosts : CallbackRefused(host)
  \/ \E b \in Browsers :
       \/ \E host \in Hosts, u \in Users, e \in Emails : Callback(b, host, u, e)
       \/ SignOut(b)
       \/ \E h \in Households : CreateWorkspace(b, h)
       \/ \E w \in Workspaces, e \in Emails : InviteToWorkspace(b, w, e)
       \/ \E i \in Invitations : BeginAccept(b, i)
       \/ EndAccept(b)

Spec == Init /\ [][Next]_allVars

-----------------------------------------------------------------------------
Acceptances == [user : Users, loaded : Emails, id : Invitations]

TypeOK ==
  /\ AccountsTypeOK
  /\ clock = now
  /\ session \in [Browsers -> Users \cup {NoUser}]
  /\ accepting \in [Browsers -> {NotAccepting} \cup Acceptances]

\* A membership of a household comes from its creation or from an invitation
\* that is live at that very moment; and no member ever leaves.
AdmittedWhileLive ==
  [][ /\ members \subseteq members'
      /\ \A h \in Households, u \in Users :
           <<Household(h), u>> \in members' \ members =>
             \/ owner[h] = NoUser /\ owner'[h] = u
             \/ \E i \in Invitations :
                  /\ acceptedBy[i] = NoUser /\ acceptedBy'[i] = u
                  /\ now < invitation[i].expires ]_allVars
=============================================================================
