------------------------------ MODULE Sessions ------------------------------
(***************************************************************************)
(* The session of one browser in the tenant dashboard: the tokens its tabs  *)
(* share through localStorage, the silent refresh and its rotation on the   *)
(* server, the cached permissions, and impersonation, which swaps the       *)
(* tokens.  A request may be answered after another tab, or another         *)
(* handler of the same tab, has replaced the session it was sent for.       *)
(***************************************************************************)
EXTENDS Naturals, FiniteSets

CONSTANTS
    Tabs, Users, NoTab, NoUser,
    Root,       \* an operator of the admin app, who may not sign in here
    MaxTokens,  \* bound on refresh tokens minted
    MaxBegins,  \* bound on impersonations
    MaxBoots,   \* bound on page loads
    MaxJobs,    \* bound on requests in flight
    Faults      \* requests may be refused, fail or time out

ASSUME SessionsAssumption ==
    /\ Root \notin Users /\ NoUser \notin Users \cup {Root} /\ NoTab \notin Tabs
    /\ MaxTokens \in Nat \ {0} /\ {MaxBegins, MaxBoots, MaxJobs} \subseteq Nat
    /\ Faults \in BOOLEAN

VARIABLES
    store,    \* localStorage
    tab,      \* tab[t]: the AuthProvider of a tab
    unseen,   \* tabs with a storage event to handle
    jobs,     \* requests in flight
    slot,     \* slot[u]: the one refresh token the server accepts of a user
    rotatedBy, \* rotatedBy[n]: the tab that exchanged token n and learns of it, or NoTab
    minted,   \* refresh tokens minted
    begun,    \* impersonations begun
    boots,    \* page loads
    stacked   \* an impersonation was begun over another

server == <<slot, rotatedBy, minted>>
counters == <<begun, boots>>
vars == <<store, tab, unseen, jobs, server, counters, stacked>>

-----------------------------------------------------------------------------
Actors == Users \cup {Root}

\* An access token by its claims; act is who impersonates sub.
Access == [sub : Users, act : Actors \cup {NoUser}]
NoAccess == [sub |-> NoUser, act |-> NoUser]
For(u) == [sub |-> u, act |-> NoUser]

\* A refresh token; 0 is none.
Refresh == [sub : Users, id : Nat \ {0}]
NoRefresh == [sub |-> NoUser, id |-> 0]

Empty == [access |-> NoAccess, refresh |-> NoRefresh, perms |-> NoUser,
          stashAccess |-> NoAccess, stashRefresh |-> NoRefresh]

Closed == [open |-> FALSE, view |-> NoAccess, next |-> NoAccess, due |-> FALSE, last |-> NoUser,
           hydrated |-> TRUE, booting |-> FALSE]

\* A request, with the tokens it carries.
Job(kind, t, user, access, refresh) ==
    [kind |-> kind, tab |-> t, user |-> user, access |-> access, refresh |-> refresh,
     boot |-> FALSE, early |-> kind = "refresh" /\ tab[t].booting, live |-> TRUE,
     stage |-> "sent", fresh |-> 0]
RefreshJob(t, s) == Job("refresh", t, NoUser, s.access, s.refresh)

-----------------------------------------------------------------------------
(* tokenStore: what each operation leaves in localStorage. *)

SetTokens(s, access, refresh) == [s EXCEPT !.access = access, !.refresh = refresh]

\* Faulty: the operator's refresh token stays beside the impersonation token.
BeginKeepsRefresh(s, access) ==
    [s EXCEPT !.stashAccess = IF s.access = NoAccess THEN @ ELSE s.access,
              !.stashRefresh = IF s.refresh = NoRefresh THEN @ ELSE s.refresh,
              !.access = access, !.perms = NoUser]

\* The operator's tokens are stashed if there are any; permissions are dropped.
BeginImpersonation(s, access) ==
    [s EXCEPT !.stashAccess = IF s.access = NoAccess THEN @ ELSE s.access,
              !.stashRefresh = IF s.refresh = NoRefresh THEN @ ELSE s.refresh,
              !.access = access, !.refresh = NoRefresh, !.perms = NoUser]

EndImpersonation(s, access, refresh) ==
    [s EXCEPT !.access = access, !.refresh = refresh, !.perms = NoUser,
              !.stashAccess = NoAccess, !.stashRefresh = NoRefresh]

RestoreStashedActor(s) ==
    IF s.stashAccess = NoAccess THEN s
    ELSE EndImpersonation(s, s.stashAccess,
                          IF s.stashRefresh = NoRefresh THEN s.refresh ELSE s.stashRefresh)

-----------------------------------------------------------------------------
(* AuthProvider. *)

Hydrating(t) == {j \in jobs : j.kind = "perms" /\ j.tab = t}
PermsJob(t, s) == [Job("perms", t, NoUser, s.access, NoRefresh) EXCEPT !.stage = "ok"]

\* The hydration effect of tab record a, after a render with a new user.
Hydrates(a) == a.view # NoAccess /\ ~(a.last = a.view.sub /\ a.hydrated)
Effect(a) ==
    IF a.view = NoAccess THEN [a EXCEPT !.last = NoUser, !.hydrated = TRUE]
    ELSE [a EXCEPT !.last = a.view.sub]

Others(t) == {u \in Tabs \ {t} : tab[u].open}

\* Faulty: the other tabs are not told.
RebuiltAlone(t, a, s, js) ==
    /\ store' = s
    /\ tab' = [tab EXCEPT ![t] = [a EXCEPT !.next = s.access, !.due = TRUE]]
    /\ jobs' = js
    /\ unseen' = unseen \ {t}

\* What a mutation of the store to s does at once: this tab's listener sets the
\* user, which a render is to show, and the other tabs get a storage event.  a is
\* the tab's record, js the requests.
Rebuilt(t, a, s, js) ==
    /\ store' = s
    /\ tab' = [tab EXCEPT ![t] = [a EXCEPT !.next = s.access, !.due = TRUE]]
    /\ jobs' = js
    /\ unseen' = (unseen \ {t}) \cup (IF s = store THEN {} ELSE Others(t))

\* The refresh a page load waits for is out.
BootingStill(t) == \E j \in jobs : j.kind = "refresh" /\ j.tab = t /\ j.live /\ j.boot

Show(t) == [tab[t] EXCEPT !.view = tab[t].next, !.due = FALSE, !.booting = @ /\ BootingStill(t)]

\* Faulty: the effect's cleanup does not cancel its fetch.
RenderedKeepsFetch(t) ==
    /\ tab[t].due
    /\ tab' = [tab EXCEPT ![t] = Effect(Show(t))]
    /\ jobs' = jobs \cup (IF Hydrates(Show(t)) THEN {PermsJob(t, store)} ELSE {})
    /\ UNCHANGED <<store, unseen, server, counters, stacked>>

\* The render that follows, later: the effect is cleaned up, which cancels its
\* fetch, and run again with the new user.  (An answer between the render and its
\* passive effects does what it does before the render.)
Rendered(t) ==
    /\ tab[t].due
    /\ tab' = [tab EXCEPT ![t] = Effect(Show(t))]
    /\ jobs' = (jobs \ Hydrating(t)) \cup (IF Hydrates(Show(t)) THEN {PermsJob(t, store)} ELSE {})
    /\ UNCHANGED <<store, unseen, server, counters, stacked>>

Room == Cardinality(jobs) < MaxJobs
Send(j) == Room /\ jobs' = jobs \cup {j}

\* A page load; an expired access token is not usable until a refresh at boot.
Load(t, s, usable) ==
    LET shown == IF usable THEN s.access ELSE NoAccess
        a == [open |-> TRUE, view |-> shown, next |-> shown, due |-> FALSE, last |-> NoUser,
              hydrated |-> (s.access = NoAccess \/ s.perms # NoUser),
              booting |-> ~usable /\ s.refresh # NoRefresh]
        j == [RefreshJob(t, s) EXCEPT !.boot = TRUE, !.early = TRUE]
    IN  /\ ~tab[t].open /\ boots < MaxBoots /\ Room
        /\ boots' = boots + 1
        /\ store' = s
        /\ tab' = [tab EXCEPT ![t] = Effect(a)]
        /\ jobs' = jobs \cup (IF a.booting THEN {j} ELSE {})
                        \cup (IF Hydrates(a) THEN {PermsJob(t, s)} ELSE {})
        /\ unseen' = (unseen \ {t}) \cup (IF s = store THEN {} ELSE Others(t))

Boot(t) ==
    /\ \E usable \in BOOLEAN : (usable => store.access # NoAccess) /\ Load(t, store, usable)
    /\ UNCHANGED <<server, begun, stacked>>

\* A page load with an impersonation token the admin app put in the URL.
Handoff(t, u) ==
    /\ begun < MaxBegins
    /\ begun' = begun + 1
    /\ stacked' = (stacked \/ store.access.act # NoUser)
    /\ Load(t, BeginImpersonation(store, [sub |-> u, act |-> Root]), TRUE)
    /\ UNCHANGED server

\* The server goes on with what the tab had sent.
CloseTab(t) ==
    /\ tab[t].open /\ boots < MaxBoots
    /\ rotatedBy' = [n \in 1..MaxTokens |-> IF \E j \in jobs : j.tab = t /\ j.stage = "ok" /\ j.refresh.id = n
                                          THEN NoTab ELSE rotatedBy[n]]
    /\ tab' = [tab EXCEPT ![t] = Closed]
    /\ unseen' = unseen \ {t}
    /\ jobs' = {j \in jobs : j.tab # t} \cup
               {[j EXCEPT !.live = FALSE] :
                   j \in {k \in jobs \ Hydrating(t) : k.tab = t /\ k.stage \in {"sent", "checked"}}}
    /\ UNCHANGED <<store, slot, minted, counters, stacked>>

\* A storage event.
See(t) ==
    /\ t \in unseen
    /\ Rebuilt(t, tab[t], store, jobs)
    /\ UNCHANGED <<server, counters, stacked>>

\* The user comes back to the tab.
Visible(t) ==
    /\ tab[t].open /\ boots < MaxBoots
    /\ boots' = boots + 1
    /\ Rebuilt(t, tab[t], store, jobs)
    /\ UNCHANGED <<server, begun, stacked>>

\* Signing in drops the cached permissions; the flag this resets is set again at
\* once by the effect, there being no user yet.
Login(t, u) ==
    /\ tab[t].open /\ tab[t].view = NoAccess /\ ~tab[t].booting /\ Room
    /\ ~\E j \in jobs : j.kind = "login" /\ j.tab = t
    /\ LET s == [store EXCEPT !.perms = NoUser]
       IN  Rebuilt(t, [tab[t] EXCEPT !.hydrated = FALSE], s, jobs \cup {Job("login", t, u, NoAccess, NoRefresh)})
    /\ UNCHANGED <<server, counters, stacked>>

Logout(t) ==
    /\ tab[t].open /\ tab[t].view # NoAccess
    /\ Rebuilt(t, tab[t], Empty, jobs)
    /\ UNCHANGED <<server, counters, stacked>>

\* Faulty: each call refreshes for itself.
UnauthorizedAlone(t) ==
    /\ tab[t].open /\ tab[t].view # NoAccess
    /\ tab[t].booting => Hydrating(t) # {}
    /\ store.refresh # NoRefresh
    /\ Send(RefreshJob(t, store))
    /\ UNCHANGED <<store, tab, unseen, server, counters, stacked>>

\* A call was answered 401: the tab's calls share one refresh.
Unauthorized(t) ==
    /\ tab[t].open /\ tab[t].view # NoAccess
    /\ tab[t].booting => Hydrating(t) # {}
    /\ store.refresh # NoRefresh
    /\ ~\E j \in jobs : j.kind = "refresh" /\ j.tab = t /\ j.live /\ ~j.boot
    /\ Send(RefreshJob(t, store))
    /\ UNCHANGED <<store, tab, unseen, server, counters, stacked>>

Begin(t, u) ==
    /\ tab[t].open /\ tab[t].view # NoAccess /\ ~tab[t].booting /\ begun < MaxBegins
    /\ u # tab[t].view.sub /\ store.access # NoAccess
    /\ ~\E j \in jobs : j.kind = "begin" /\ j.tab = t /\ j.live
    /\ begun' = begun + 1
    /\ Send([Job("begin", t, u, store.access, NoRefresh)
               EXCEPT !.stage = IF store.access.act = NoUser THEN "ok" ELSE "refused"])
    /\ UNCHANGED <<store, tab, unseen, server, boots, stacked>>

\* The impersonation banner and its button.
Stopping(t) ==
    /\ tab[t].open /\ tab[t].view.act # NoUser
    /\ ~\E j \in jobs : j.kind = "end" /\ j.tab = t /\ j.live

\* Without a stash the tab signs out and does not wait for the server.
Stop(t) ==
    /\ Stopping(t) /\ Room /\ store.access # NoAccess
    /\ LET j == Job("end", t, NoUser, store.access, NoRefresh)
       IN  IF store.stashAccess = NoAccess
           THEN Rebuilt(t, tab[t], Empty, jobs \cup {[j EXCEPT !.live = FALSE]})
           ELSE Send(j) /\ UNCHANGED <<store, tab, unseen>>
    /\ UNCHANGED <<server, counters, stacked>>

-----------------------------------------------------------------------------
(* The server: a refresh is checked and its successor stored in two steps.  What *)
(* a permission list or an impersonation token is does not depend on when it is   *)
(* answered, so those two are answered when they are sent.                        *)

Moved(j, k) == jobs' = (jobs \ {j}) \cup (IF j.live \/ k.stage = "checked" THEN {k} ELSE {})

Mint(j, u) ==
    /\ minted < MaxTokens
    /\ minted' = minted + 1
    /\ slot' = [slot EXCEPT ![u] = minted + 1]
    /\ rotatedBy' = IF j.kind = "refresh" THEN [rotatedBy EXCEPT ![j.refresh.id] = IF j.live THEN j.tab ELSE NoTab]
                    ELSE rotatedBy
    /\ Moved(j, [j EXCEPT !.stage = "ok", !.fresh = minted + 1])

Accepted(j) ==
    CASE j.kind = "refresh" -> slot[j.refresh.sub] = j.refresh.id /\ j.access.sub = j.refresh.sub
      [] j.kind = "end"     -> j.access.act # NoUser
      [] OTHER              -> TRUE

Check(j) ==
    /\ j.stage = "sent" /\ j.kind = "refresh" /\ Accepted(j)
    /\ Moved(j, [j EXCEPT !.stage = "checked"])
    /\ UNCHANGED server

Serve(j) ==
    \/ j.stage = "checked" /\ Mint(j, j.refresh.sub)
    \/ j.stage = "sent" /\ j.kind = "login" /\ Mint(j, j.user)
    \/ j.stage = "sent" /\ j.kind = "end" /\ Accepted(j) /\ Mint(j, j.access.act)

\* (An answer that refuses a sign-in or the end of an impersonation does what a
\* failure does, see Fail.)
Refuse(j) ==
    /\ j.stage = "sent"
    /\ ~Accepted(j) \/ (Faults /\ (j.kind = "refresh" \/ ~j.live))
    /\ Moved(j, [j EXCEPT !.stage = "refused"])
    /\ UNCHANGED server

Answer ==
    /\ \E j \in jobs : Check(j) \/ Serve(j) \/ Refuse(j)
    /\ UNCHANGED <<store, tab, unseen, counters, stacked>>

-----------------------------------------------------------------------------
(* What the tab that sent a request does with its answer. *)

Fresh(j) == [sub |-> j.refresh.sub, id |-> j.fresh]

\* A refresh refused clears the store; one that fails does so only at boot.
SettleRefresh(j, ok, failed) ==
    IF failed /\ ~j.boot THEN jobs' = jobs \ {j} /\ UNCHANGED <<store, tab, unseen>>
    ELSE Rebuilt(j.tab, tab[j.tab],
                 IF ok THEN SetTokens(store, For(j.refresh.sub), Fresh(j)) ELSE Empty, jobs \ {j})

SettleLogin(j, ok) ==
    IF ~ok THEN jobs' = jobs \ {j} /\ UNCHANGED <<store, tab, unseen>>
    ELSE Rebuilt(j.tab, tab[j.tab], SetTokens(store, For(j.user), [sub |-> j.user, id |-> j.fresh]),
                 jobs \ {j})

SettlePerms(j, ok) ==
    LET a == [tab[j.tab] EXCEPT !.hydrated = TRUE]
    IN  IF ok THEN Rebuilt(j.tab, a, [store EXCEPT !.perms = j.access.sub], jobs \ {j})
        ELSE /\ tab' = [tab EXCEPT ![j.tab] = a]
             /\ jobs' = jobs \ {j}
             /\ UNCHANGED <<store, unseen>>

SettleBegin(j, ok) ==
    IF ~ok THEN jobs' = jobs \ {j} /\ UNCHANGED <<store, tab, unseen>>
    ELSE Rebuilt(j.tab, tab[j.tab],
                 BeginImpersonation(store, [sub |-> j.user, act |-> j.access.sub]), jobs \ {j})

\* An operator of the admin app is signed out, not installed.
SettleEnd(j, ok) ==
    LET actor == j.access.act
        s == IF ~ok THEN RestoreStashedActor(store)
             ELSE IF actor = Root THEN Empty
             ELSE EndImpersonation(store, For(actor), [sub |-> actor, id |-> j.fresh])
    IN  Rebuilt(j.tab, tab[j.tab], s, jobs \ {j})

Settle(j, ok, failed) ==
    /\ j.live
    /\ CASE j.kind = "refresh" -> SettleRefresh(j, ok, failed)
         [] j.kind = "login"   -> SettleLogin(j, ok)
         [] j.kind = "perms"   -> SettlePerms(j, ok)
         [] j.kind = "begin"   -> SettleBegin(j, ok)
         [] j.kind = "end"     -> SettleEnd(j, ok)
    /\ stacked' = (stacked \/ (j.kind = "begin" /\ ok /\ store.access.act # NoUser))
    /\ UNCHANGED <<slot, minted, counters>>

Deliver(j) ==
    /\ j.stage \in {"ok", "refused"}
    /\ Settle(j, j.stage = "ok", FALSE)
    /\ UNCHANGED rotatedBy

\* The network fails or the request times out; what the server did stays done.
Fail(j) ==
    /\ Faults
    /\ Settle(j, FALSE, TRUE)
    /\ rotatedBy' = IF j.kind = "refresh" THEN [rotatedBy EXCEPT ![j.refresh.id] = NoTab] ELSE rotatedBy

-----------------------------------------------------------------------------
Init ==
    /\ minted = 1 /\ rotatedBy = [n \in 1..MaxTokens |-> NoTab]
    /\ begun = 0 /\ boots = 0 /\ stacked = FALSE
    /\ unseen = {} /\ jobs = {}
    /\ tab = [t \in Tabs |-> Closed]
    /\ \E u \in Users :
        /\ slot = [v \in Actors |-> IF v = u THEN 1 ELSE 0]
        /\ LET signedIn == SetTokens(Empty, For(u), [sub |-> u, id |-> 1])
           IN  store \in {Empty, [signedIn EXCEPT !.perms = u]}

Next ==
    \/ \E t \in Tabs : \/ Boot(t) \/ CloseTab(t) \/ See(t) \/ Visible(t) \/ Rendered(t)
                       \/ Logout(t) \/ Unauthorized(t) \/ Stop(t)
                       \/ \E u \in Users : Handoff(t, u) \/ Login(t, u) \/ Begin(t, u)
    \/ Answer
    \/ \E j \in jobs : Deliver(j) \/ Fail(j)

Spec == Init /\ [][Next]_vars
-----------------------------------------------------------------------------
\* The types; and an answer is awaited by open tabs only, which alone are told of
\* changes.
TypeOK ==
    /\ \A a \in {store.access, store.stashAccess} : a \in Access \cup {NoAccess}
    /\ \A r \in {store.refresh, store.stashRefresh} : r \in Refresh \cup {NoRefresh}
    /\ store.perms \in Users \cup {NoUser}
    /\ unseen \subseteq {t \in Tabs : tab[t].open}
    /\ \A u \in Actors : slot[u] \in 0..minted
    /\ \A j \in jobs : j.live => tab[j.tab].open

\* An impersonation token, which has no refresh token of its own, is never sent
\* with the operator's, unless an impersonation was begun over another one: the
\* stash then holds the first one's token beside the operator's refresh token.
ImpersonationNeverRefreshed ==
    \A j \in jobs : j.kind = "refresh" /\ j.access.act # NoUser => stacked

\* A tab that has handled its storage events, and rendered, shows the session the
\* store holds; or nobody, where a page load found a token expired that cannot be refreshed.
TabsAgree ==
    \A t \in Tabs : (tab[t].open /\ t \notin unseen /\ ~tab[t].due /\ ~tab[t].booting) =>
        \/ tab[t].view = store.access
        \/ tab[t].view = NoAccess /\ store.refresh = NoRefresh

\* The calls of a tab that are answered 401 together do not sign it out: no
\* refresh is refused because the same tab has exchanged its token already.
\* (A refresh sent while the one at boot is out, and one with a token that came
\* back from the stash, can be.)
Refused(j) == j.stage = "sent" /\ \E k \in jobs' : k = [j EXCEPT !.stage = "refused"]
OwnRefreshNeverRefused ==
    [][\A j \in jobs : (Refused(j) /\ j.kind = "refresh" /\ begun = 0 /\ ~j.early)
            => rotatedBy[j.refresh.id] # j.tab]_vars

\* Permissions fetched for one session are not stored beside another by a tab
\* that has handled its storage events and rendered.
PermissionsOfSession ==
    [][\A j \in jobs : (j.kind = "perms" /\ j \notin jobs' /\ j.tab \notin unseen /\ ~tab[j.tab].due
                        /\ store'.perms \notin {NoUser, store.perms})
            => store'.perms = store.access.sub]_vars
=============================================================================
