---------------------------- MODULE SessionsProofs ----------------------------
(***************************************************************************)
(* Theorems about Sessions for any number of tabs, users, requests and      *)
(* faults; and, at the end, about the realtime connection that a tab builds *)
(* anew at every change of its session, for any number of connections,      *)
(* rebuilds and failures.                                                   *)
(***************************************************************************)
EXTENDS Sessions, Realtime, FiniteSetTheorems, TLAPS

Accesses == Access \cup {NoAccess}
Refreshes == Refresh \cup {NoRefresh}
Store == [access : Accesses, refresh : Refreshes, perms : Users \cup {NoUser},
          stashAccess : Accesses, stashRefresh : Refreshes]
TabRecord == [open : BOOLEAN, view : Accesses, next : Accesses, due : BOOLEAN,
              last : Users \cup {NoUser}, hydrated : BOOLEAN, booting : BOOLEAN]
Kinds == {"refresh", "perms", "login", "begin", "end"}
JobRecord == [kind : Kinds, tab : Tabs, user : Users \cup {NoUser}, access : Accesses,
              refresh : Refreshes, boot : BOOLEAN, early : BOOLEAN, live : BOOLEAN,
              stage : {"sent", "checked", "ok", "refused"}, fresh : Nat]

Typed ==
  /\ store \in Store
  /\ tab \in [Tabs -> TabRecord]
  /\ unseen \subseteq Tabs
  /\ jobs \subseteq JobRecord
  /\ minted \in Nat /\ stacked \in BOOLEAN
  /\ slot \in [Actors -> 0..minted]

(* What a request of each kind carries, and what the server grants it *)
Carries(j) ==
  /\ j.kind = "refresh" => j.refresh \in Refresh
  /\ j.kind \in {"login", "begin"} => j.user \in Users
  /\ j.kind \in {"begin", "end"} => j.access \in Access
  /\ j.kind \in {"refresh", "login", "end"} /\ j.stage = "ok" => j.fresh # 0
  /\ j.kind = "end" /\ j.stage = "ok" => j.access.act # NoUser
  /\ j.stage = "checked" => j.kind = "refresh"
  /\ j.kind = "perms" => j.live /\ j.stage = "ok"

(* Only an open tab awaits answers, is told of changes and renders *)
Awaited ==
  /\ unseen \subseteq {t \in Tabs : tab[t].open}
  /\ \A t \in Tabs : tab[t].due => tab[t].open
  /\ \A j \in jobs : j.live => tab[j.tab].open

Shape == Typed /\ Awaited /\ \A j \in jobs : Carries(j)
-----------------------------------------------------------------------------
(* Tokens *)
LEMMA NobodyIsNoUser == NoUser \notin Users /\ NoUser \notin Actors /\ Users \subseteq Actors
BY SessionsAssumption DEF Actors

LEMMA NoAccessIsNone == NoAccess \notin Access /\ NoAccess.act = NoUser /\ NoAccess.sub = NoUser
BY NobodyIsNoUser DEF Access, NoAccess

LEMMA NoRefreshIsNone == NoRefresh \notin Refresh
BY DEF Refresh, NoRefresh

LEMMA ForTyped == ASSUME NEW u \in Users PROVE For(u) \in Access /\ For(u).act = NoUser
BY DEF For, Access

LEMMA FreshTyped ==
  ASSUME NEW j, j.refresh \in Refresh, j.fresh \in Nat \ {0}
  PROVE  Fresh(j) \in Refresh
BY DEF Fresh, Refresh

LEMMA EmptyTyped == Empty \in Store /\ Empty.access = NoAccess /\ Empty.stashAccess = NoAccess
                    /\ Empty.perms = NoUser /\ Empty.refresh = NoRefresh
BY DEF Empty, Store, Accesses, Refreshes

LEMMA SetTokensTyped ==
  ASSUME NEW s \in Store, NEW access \in Accesses, NEW refresh \in Refreshes
  PROVE  /\ SetTokens(s, access, refresh) \in Store
         /\ SetTokens(s, access, refresh).access = access
         /\ SetTokens(s, access, refresh).refresh = refresh
         /\ SetTokens(s, access, refresh).perms = s.perms
         /\ SetTokens(s, access, refresh).stashAccess = s.stashAccess
BY DEF SetTokens, Store

LEMMA BeginTyped ==
  ASSUME NEW s \in Store, NEW access \in Accesses
  PROVE  /\ BeginImpersonation(s, access) \in Store
         /\ BeginImpersonation(s, access).access = access
         /\ BeginImpersonation(s, access).refresh = NoRefresh
         /\ BeginImpersonation(s, access).perms = NoUser
         /\ BeginImpersonation(s, access).stashAccess \in {s.access, s.stashAccess}
BY DEF BeginImpersonation, Store, Refreshes

LEMMA EndTyped ==
  ASSUME NEW s \in Store, NEW access \in Accesses, NEW refresh \in Refreshes
  PROVE  /\ EndImpersonation(s, access, refresh) \in Store
         /\ EndImpersonation(s, access, refresh).access = access
         /\ EndImpersonation(s, access, refresh).perms = NoUser
         /\ EndImpersonation(s, access, refresh).stashAccess = NoAccess
BY DEF EndImpersonation, Store, Refreshes, Accesses

LEMMA RestoreTyped ==
  ASSUME NEW s \in Store
  PROVE  /\ RestoreStashedActor(s) \in Store
         /\ \/ RestoreStashedActor(s) = s
            \/ /\ RestoreStashedActor(s).access = s.stashAccess
               /\ RestoreStashedActor(s).perms = NoUser
               /\ RestoreStashedActor(s).stashAccess = NoAccess
<1>1. s.stashAccess \in Accesses /\ s.stashRefresh \in Refreshes /\ s.refresh \in Refreshes
  BY DEF Store
<1> QED
  BY <1>1, EndTyped DEF RestoreStashedActor
-----------------------------------------------------------------------------
(* Requests *)
LEMMA JobTyped ==
  ASSUME Typed, NEW kind \in Kinds, NEW t \in Tabs, NEW user \in Users \cup {NoUser},
         NEW access \in Accesses, NEW refresh \in Refreshes
  PROVE  /\ Job(kind, t, user, access, refresh) \in JobRecord
         /\ Job(kind, t, user, access, refresh).kind = kind
         /\ Job(kind, t, user, access, refresh).tab = t
         /\ Job(kind, t, user, access, refresh).user = user
         /\ Job(kind, t, user, access, refresh).access = access
         /\ Job(kind, t, user, access, refresh).refresh = refresh
         /\ Job(kind, t, user, access, refresh).stage = "sent"
         /\ Job(kind, t, user, access, refresh).live
<1>1. tab[t].booting \in BOOLEAN
  BY DEF Typed, TabRecord
<1> QED
  BY <1>1 DEF Job, JobRecord

LEMMA PermsTyped ==
  ASSUME Typed, NEW t \in Tabs, NEW s \in Store
  PROVE  /\ PermsJob(t, s) \in JobRecord /\ Carries(PermsJob(t, s))
         /\ PermsJob(t, s).kind = "perms" /\ PermsJob(t, s).tab = t
         /\ PermsJob(t, s).access = s.access
<1> DEFINE j == Job("perms", t, NoUser, s.access, NoRefresh)
<1>0. s.access \in Accesses /\ NoRefresh \in Refreshes
  BY DEF Store, Refreshes
<1>1. j \in JobRecord /\ j.kind = "perms" /\ j.tab = t /\ j.access = s.access /\ j.live
  BY <1>0, JobTyped DEF Kinds
<1>2. [j EXCEPT !.stage = "ok"] \in JobRecord
  BY <1>1 DEF JobRecord
<1>3. /\ [j EXCEPT !.stage = "ok"].kind = "perms" /\ [j EXCEPT !.stage = "ok"].tab = t
      /\ [j EXCEPT !.stage = "ok"].access = s.access /\ [j EXCEPT !.stage = "ok"].live
      /\ [j EXCEPT !.stage = "ok"].stage = "ok"
  BY <1>1 DEF JobRecord
<1> QED
  BY <1>2, <1>3 DEF PermsJob, Carries

BootJob(t, s) == [RefreshJob(t, s) EXCEPT !.boot = TRUE, !.early = TRUE]

LEMMA RefreshJobTyped ==
  ASSUME Typed, NEW t \in Tabs, NEW s \in Store, s.refresh # NoRefresh
  PROVE  \A j \in {RefreshJob(t, s), BootJob(t, s)} :
            /\ j \in JobRecord /\ Carries(j)
            /\ j.kind = "refresh" /\ j.tab = t /\ j.access = s.access
<1> DEFINE j == Job("refresh", t, NoUser, s.access, s.refresh)
           k == [j EXCEPT !.boot = TRUE, !.early = TRUE]
<1>1. /\ j \in JobRecord /\ j.kind = "refresh" /\ j.tab = t /\ j.access = s.access
      /\ j.refresh = s.refresh /\ j.stage = "sent"
  BY JobTyped DEF Kinds, Store
<1>2. s.refresh \in Refresh
  BY DEF Store, Refreshes
<1>3. /\ k \in JobRecord /\ k.kind = "refresh" /\ k.tab = t /\ k.access = s.access
      /\ k.refresh = s.refresh /\ k.stage = "sent"
  BY <1>1 DEF JobRecord
<1> HIDE DEF j, k
<1>4. Carries(j) /\ Carries(k)
  BY <1>1, <1>2, <1>3 DEF Carries
<1> QED
  BY <1>1, <1>3, <1>4 DEF RefreshJob, BootJob, j, k

LEMMA MovedTyped ==
  ASSUME Typed, NEW j \in jobs, NEW k \in JobRecord, Moved(j, k)
  PROVE  jobs' \subseteq JobRecord /\ \A i \in jobs' : i \in jobs \/ i = k
BY DEF Typed, Moved
-----------------------------------------------------------------------------
(* The two ways the AuthProvider takes up a session *)
LEMMA EffectTyped ==
  ASSUME NEW a \in TabRecord
  PROVE  /\ Effect(a) \in TabRecord
         /\ Effect(a).open = a.open /\ Effect(a).view = a.view /\ Effect(a).next = a.next
         /\ Effect(a).due = a.due /\ Effect(a).booting = a.booting
<1>1. a.view # NoAccess => a.view.sub \in Users
  BY DEF TabRecord, Accesses, Access
<1> QED
  BY <1>1 DEF Effect, TabRecord

LEMMA RebuiltTyped ==
  ASSUME Typed, NEW t \in Tabs, NEW a \in TabRecord, NEW s \in Store, NEW js \in SUBSET JobRecord,
         Rebuilt(t, a, s, js)
  PROVE  /\ store' = s /\ tab' \in [Tabs -> TabRecord] /\ unseen' \subseteq Tabs
         /\ jobs' = js
         /\ tab'[t].open = a.open /\ tab'[t].view = a.view /\ tab'[t].next = s.access
         /\ tab'[t].due /\ tab'[t].booting = a.booting
         /\ \A u \in Tabs \ {t} : tab'[u] = tab[u]
         /\ \A u \in Tabs \ {t} : u \in unseen' <=> u \in unseen \/ (s # store /\ tab[u].open)
         /\ t \notin unseen'
<1> DEFINE b == [a EXCEPT !.next = s.access, !.due = TRUE]
<1>1. s.access \in Accesses
  BY DEF Store
<1>2. /\ b \in TabRecord /\ b.open = a.open /\ b.view = a.view /\ b.next = s.access
      /\ b.due /\ b.booting = a.booting
  BY <1>1 DEF TabRecord
<1>3. /\ store' = s /\ tab' = [tab EXCEPT ![t] = b] /\ jobs' = js
      /\ unseen' = (unseen \ {t}) \cup (IF s = store THEN {} ELSE Others(t))
  BY DEF Rebuilt
<1> HIDE DEF b
<1> QED
  BY <1>2, <1>3 DEF Typed, Others

\* The render: the tab shows the session its listener set last, and fetches the
\* permissions of the one the store holds, if any.
LEMMA RenderedTyped ==
  ASSUME Typed, NEW t \in Tabs, Rendered(t)
  PROVE  /\ tab[t].due /\ tab' \in [Tabs -> TabRecord] /\ jobs' \subseteq JobRecord
         /\ tab'[t].open = tab[t].open /\ tab'[t].view = tab[t].next /\ tab'[t].next = tab[t].next
         /\ ~tab'[t].due /\ tab'[t].booting = (tab[t].booting /\ BootingStill(t))
         /\ \A u \in Tabs \ {t} : tab'[u] = tab[u]
         /\ \A j \in jobs' : j \in jobs \ Hydrating(t) \/ j = PermsJob(t, store)
         /\ UNCHANGED <<store, unseen, slot, minted, rotatedBy, begun, stacked>>
<1> DEFINE still == BootingStill(t)
<1>1. tab[t] \in TabRecord /\ still \in BOOLEAN /\ store \in Store
  BY DEF Typed, BootingStill
<1>2. Show(t) = [tab[t] EXCEPT !.view = tab[t].next, !.due = FALSE, !.booting = @ /\ still]
  BY DEF Show
<1>3. /\ tab[t].due /\ tab' = [tab EXCEPT ![t] = Effect(Show(t))]
      /\ jobs' = (jobs \ Hydrating(t)) \cup (IF Hydrates(Show(t)) THEN {PermsJob(t, store)} ELSE {})
      /\ UNCHANGED <<store, unseen, slot, minted, rotatedBy, begun, stacked>>
  BY DEF Rendered, server, counters
<1> HIDE DEF still
<1>4. /\ Show(t) \in TabRecord /\ Show(t).open = tab[t].open /\ Show(t).view = tab[t].next
      /\ Show(t).next = tab[t].next /\ ~Show(t).due /\ Show(t).booting = (tab[t].booting /\ still)
  BY <1>1, <1>2 DEF TabRecord
<1>5. /\ Effect(Show(t)) \in TabRecord /\ Effect(Show(t)).open = tab[t].open
      /\ Effect(Show(t)).view = tab[t].next /\ Effect(Show(t)).next = tab[t].next
      /\ ~Effect(Show(t)).due /\ Effect(Show(t)).booting = (tab[t].booting /\ still)
  BY <1>4, EffectTyped
<1>6. PermsJob(t, store) \in JobRecord
  BY <1>1, PermsTyped
<1>7. tab' \in [Tabs -> TabRecord] /\ tab'[t] = Effect(Show(t)) /\ \A u \in Tabs \ {t} : tab'[u] = tab[u]
  BY <1>3, <1>5 DEF Typed
<1>8. jobs' \subseteq JobRecord /\ \A j \in jobs' : j \in jobs \ Hydrating(t) \/ j = PermsJob(t, store)
  BY <1>3, <1>6 DEF Typed
<1> QED
  BY <1>3, <1>5, <1>7, <1>8 DEF still

LEMMA LoadTyped ==
  ASSUME Typed, NEW t \in Tabs, NEW s \in Store, NEW usable \in BOOLEAN, Load(t, s, usable)
  PROVE  /\ ~tab[t].open
         /\ store' = s /\ tab' \in [Tabs -> TabRecord] /\ unseen' \subseteq Tabs
         /\ jobs' \subseteq JobRecord
         /\ tab'[t].open /\ ~tab'[t].due /\ tab'[t].view = tab'[t].next
         /\ tab'[t].view = s.access \/ (tab'[t].view = NoAccess /\ (tab'[t].booting \/ s.refresh = NoRefresh))
         /\ \A u \in Tabs \ {t} : tab'[u] = tab[u]
         /\ \A u \in Tabs \ {t} : u \in unseen' <=> u \in unseen \/ (s # store /\ tab[u].open)
         /\ t \notin unseen'
         /\ \A j \in jobs' : \/ j \in jobs
                             \/ j = PermsJob(t, s)
                             \/ j = BootJob(t, s) /\ s.refresh # NoRefresh
<1> DEFINE shown == IF usable THEN s.access ELSE NoAccess
           a == [open |-> TRUE, view |-> shown, next |-> shown, due |-> FALSE, last |-> NoUser,
                 hydrated |-> (s.access = NoAccess \/ s.perms # NoUser),
                 booting |-> ~usable /\ s.refresh # NoRefresh]
<1>1. a \in TabRecord /\ a.open /\ a.view = (IF usable THEN s.access ELSE NoAccess)
      /\ a.next = a.view /\ ~a.due
      /\ a.booting = (~usable /\ s.refresh # NoRefresh)
  BY DEF TabRecord, Store, Accesses
<1>2. /\ ~tab[t].open /\ store' = s /\ tab' = [tab EXCEPT ![t] = Effect(a)]
      /\ jobs' = jobs \cup (IF a.booting THEN {BootJob(t, s)} ELSE {})
                      \cup (IF Hydrates(a) THEN {PermsJob(t, s)} ELSE {})
      /\ unseen' = (unseen \ {t}) \cup (IF s = store THEN {} ELSE Others(t))
  BY DEF Load, BootJob
<1>3. /\ Effect(a) \in TabRecord /\ Effect(a).open /\ Effect(a).view = a.view
      /\ Effect(a).next = a.view /\ ~Effect(a).due /\ Effect(a).booting = a.booting
  BY <1>1, EffectTyped
<1>4. PermsJob(t, s) \in JobRecord /\ (s.refresh # NoRefresh => BootJob(t, s) \in JobRecord)
  BY PermsTyped, RefreshJobTyped
<1> HIDE DEF a, shown
<1>5. /\ tab' \in [Tabs -> TabRecord] /\ tab'[t] = Effect(a)
      /\ \A u \in Tabs \ {t} : tab'[u] = tab[u]
  BY <1>2, <1>3 DEF Typed
<1>6. /\ jobs' \subseteq JobRecord
      /\ \A j \in jobs' : j \in jobs \/ j = PermsJob(t, s) \/ (j = BootJob(t, s) /\ s.refresh # NoRefresh)
  BY <1>1, <1>2, <1>4 DEF Typed
<1>7. /\ unseen' \subseteq Tabs /\ t \notin unseen'
      /\ \A u \in Tabs \ {t} : u \in unseen' <=> u \in unseen \/ (s # store /\ tab[u].open)
  BY <1>2 DEF Typed, Others
<1>8. tab'[t].view = s.access \/ (tab'[t].view = NoAccess /\ (tab'[t].booting \/ s.refresh = NoRefresh))
  BY <1>1, <1>3, <1>5
<1>9. tab'[t].open /\ ~tab'[t].due /\ tab'[t].view = tab'[t].next
  BY <1>3, <1>5
<1> QED
  BY <1>2, <1>5, <1>6, <1>7, <1>8, <1>9
-----------------------------------------------------------------------------
(* The inductive invariant.  Until an impersonation is begun over another one *)
(* the store holds an operator's session, or an impersonation token without a *)
(* refresh token beside it and an operator's session in the stash; and a tab   *)
(* that has seen the store, and rendered, fetches permissions for the session  *)
(* it holds.                                                                    *)
GuardedStore(s) ==
  /\ s.access.act # NoUser => s.refresh = NoRefresh
  /\ s.stashAccess.act = NoUser

Guarded == ~stacked => GuardedStore(store)

PermsFresh ==
  \A j \in jobs : j.kind = "perms" /\ j.tab \notin unseen /\ ~tab[j.tab].due => j.access = store.access

\* What a tab shows, or is to show at its next render.
Agree(t) ==
  /\ tab[t].due /\ t \notin unseen => tab[t].next = store.access
  /\ ~tab[t].due => tab[t].view = tab[t].next
  /\ ~tab[t].due /\ t \notin unseen /\ ~tab[t].booting =>
       tab[t].next = store.access \/ (tab[t].next = NoAccess /\ store.refresh = NoRefresh)
TabsShow == \A t \in Tabs : tab[t].open => Agree(t)

IInv == Shape /\ Guarded /\ ImpersonationNeverRefreshed /\ PermsFresh /\ TabsShow

LEMMA EmptyGuarded == GuardedStore(Empty)
BY EmptyTyped, NoAccessIsNone DEF GuardedStore

(* What a step other than a render adds to the requests in flight *)
Added(j) ==
  /\ j \in JobRecord /\ Carries(j) /\ j.kind # "perms"
  /\ j.live => tab[j.tab].open
  /\ j.kind = "refresh" /\ j.access.act # NoUser => stacked

\* A handler that takes up session s in its own tab.
LEMMA RebuiltKeeps ==
  ASSUME IInv, NEW t \in Tabs, NEW a \in TabRecord, tab[t].open, a.open, NEW s \in Store,
         NEW js, \A j \in js : j \in jobs \/ Added(j),
         Rebuilt(t, a, s, js), UNCHANGED <<slot, minted>>,
         stacked' \in BOOLEAN, stacked => stacked', ~stacked' => GuardedStore(s)
  PROVE  IInv'
<1>1. Typed /\ js \in SUBSET JobRecord
  BY DEF IInv, Shape, Typed, Added
<1>2. /\ store' = s /\ tab' \in [Tabs -> TabRecord] /\ unseen' \subseteq Tabs
      /\ jobs' \subseteq JobRecord
      /\ tab'[t].open /\ tab'[t].next = s.access /\ tab'[t].due
      /\ \A u \in Tabs \ {t} : tab'[u] = tab[u]
      /\ \A u \in Tabs \ {t} : u \in unseen' <=> u \in unseen \/ (s # store /\ tab[u].open)
      /\ t \notin unseen'
  BY <1>1, RebuiltTyped
<1>3. \A j \in jobs' : j \in jobs \/ Added(j)
  BY <1>1, RebuiltTyped
<1>4. \A j \in jobs' : Carries(j)
  BY <1>3 DEF IInv, Shape, Added
<1>5. \A u \in Tabs : tab[u].open => tab'[u].open
  BY <1>2
<1>6. unseen' \subseteq {u \in Tabs : tab'[u].open}
  BY <1>2 DEF IInv, Shape, Awaited
<1>7. ASSUME NEW j \in jobs', j.live PROVE tab'[j.tab].open
  <2>1. j.tab \in Tabs /\ tab[j.tab].open
    BY <1>3, <1>7 DEF IInv, Shape, Typed, Awaited, Added, JobRecord
  <2> QED
    BY <1>5, <2>1
<1>8. Shape'
  <2>1. \A u \in Tabs : tab'[u].due => tab'[u].open
    BY <1>2 DEF IInv, Shape, Awaited
  <2> QED
    BY <1>2, <1>4, <1>6, <1>7, <2>1 DEF IInv, Shape, Typed, Awaited
<1>9. Guarded'
  BY <1>2 DEF Guarded
<1>10. ImpersonationNeverRefreshed'
  BY <1>3 DEF IInv, ImpersonationNeverRefreshed, Added
<1>11. ASSUME NEW j \in jobs', j.kind = "perms", j.tab \notin unseen', ~tab'[j.tab].due
       PROVE  j.access = s.access
  <2>1. j \in jobs /\ j.tab \in Tabs /\ j.tab # t /\ tab[j.tab].open
    BY <1>2, <1>3, <1>11 DEF Added, IInv, Shape, Typed, Awaited, JobRecord, Carries
  <2>2. tab'[j.tab] = tab[j.tab] /\ j.tab \notin unseen /\ s = store
    BY <1>2, <1>11, <2>1
  <2> QED
    BY <1>11, <2>1, <2>2 DEF IInv, PermsFresh
<1>12. ASSUME NEW u \in Tabs, tab'[u].open PROVE Agree(u)'
  <2>1. CASE u = t
    BY <1>2, <2>1 DEF Agree
  <2>2. CASE u # t
    <3>1. tab'[u] = tab[u] /\ (u \notin unseen' => u \notin unseen /\ s = store)
      BY <1>2, <1>12, <2>2
    <3> QED
      BY <1>2, <1>12, <3>1 DEF IInv, TabsShow, Agree
  <2> QED
    BY <2>1, <2>2
<1> QED
  BY <1>2, <1>8, <1>9, <1>10, <1>11, <1>12 DEF IInv, PermsFresh, TabsShow

\* The render of a session that was taken up.
LEMMA RenderedKeeps ==
  ASSUME IInv, NEW t \in Tabs, Rendered(t)
  PROVE  IInv'
<1>1. Typed /\ store \in Store
  BY DEF IInv, Shape, Typed
<1>2. /\ tab[t].due /\ tab' \in [Tabs -> TabRecord] /\ jobs' \subseteq JobRecord
      /\ tab'[t].open = tab[t].open /\ tab'[t].view = tab[t].next /\ tab'[t].next = tab[t].next
      /\ ~tab'[t].due
      /\ \A u \in Tabs \ {t} : tab'[u] = tab[u]
      /\ \A j \in jobs' : j \in jobs \ Hydrating(t) \/ j = PermsJob(t, store)
      /\ UNCHANGED <<store, unseen, slot, minted, stacked>>
  BY <1>1, RenderedTyped
<1>3. /\ Carries(PermsJob(t, store)) /\ PermsJob(t, store).kind = "perms"
      /\ PermsJob(t, store).tab = t /\ PermsJob(t, store).access = store.access
  BY <1>1, PermsTyped
<1>4. tab[t].open
  BY <1>2 DEF IInv, Shape, Awaited
<1>5. ASSUME NEW j \in jobs', j \in jobs \/ j = PermsJob(t, store)
      PROVE  /\ Carries(j) /\ (j.live => tab'[j.tab].open)
             /\ j.kind = "refresh" /\ j.access.act # NoUser => stacked
  <2>1. CASE j \in jobs
    BY <1>2, <2>1 DEF IInv, Shape, Typed, Awaited, JobRecord, ImpersonationNeverRefreshed
  <2>2. CASE j = PermsJob(t, store)
    BY <1>2, <1>3, <1>4, <2>2
  <2> QED
    BY <1>5, <2>1, <2>2
<1>6. Shape'
  <2>1. Typed'
    BY <1>2 DEF IInv, Shape, Typed
  <2>2. Awaited'
    BY <1>2, <1>4, <1>5 DEF IInv, Shape, Awaited
  <2> QED
    BY <1>2, <1>5, <2>1, <2>2 DEF Shape
<1>7. Guarded' /\ ImpersonationNeverRefreshed'
  BY <1>2, <1>5 DEF IInv, Guarded, ImpersonationNeverRefreshed
<1>8. ASSUME NEW j \in jobs', j.kind = "perms", j.tab \notin unseen', ~tab'[j.tab].due
      PROVE  j.access = store.access
  <2>1. CASE j = PermsJob(t, store)
    BY <1>3, <2>1
  <2>2. CASE j # PermsJob(t, store)
    <3>1. j \in jobs /\ j.tab # t /\ j.tab \in Tabs
      BY <1>2, <1>8, <2>2 DEF Hydrating, IInv, Shape, Typed, JobRecord
    <3> QED
      BY <1>2, <1>8, <3>1 DEF IInv, PermsFresh
  <2> QED
    BY <2>1, <2>2
<1>9. ASSUME NEW u \in Tabs, tab'[u].open PROVE Agree(u)'
  <2>1. CASE u = t
    BY <1>2, <1>4, <2>1 DEF IInv, TabsShow, Agree
  <2>2. CASE u # t
    BY <1>2, <1>9, <2>2 DEF IInv, TabsShow, Agree
  <2> QED
    BY <2>1, <2>2
<1> QED
  BY <1>2, <1>6, <1>7, <1>8, <1>9 DEF IInv, PermsFresh, TabsShow

\* A step that changes the requests in flight only.
LEMMA JobsKeep ==
  ASSUME IInv, UNCHANGED <<store, tab, unseen, stacked>>,
         \A j \in jobs' : j \in jobs \/ Added(j),
         minted' \in Nat, slot' \in [Actors -> 0..minted']
  PROVE  IInv'
<1>1. Typed' /\ (\A j \in jobs' : Carries(j))
  BY DEF IInv, Shape, Typed, Added
<1>2. Awaited'
  BY DEF IInv, Shape, Awaited, Added
<1>3. Guarded' /\ ImpersonationNeverRefreshed'
  BY DEF IInv, Guarded, ImpersonationNeverRefreshed, Added
<1>4. PermsFresh' /\ TabsShow'
  BY DEF IInv, PermsFresh, TabsShow, Agree, Added
<1> QED
  BY <1>1, <1>2, <1>3, <1>4 DEF IInv, Shape

\* A page load.
LEMMA LoadKeeps ==
  ASSUME IInv, NEW t \in Tabs, NEW s \in Store, NEW usable \in BOOLEAN, Load(t, s, usable),
         UNCHANGED <<slot, minted>>,
         stacked' \in BOOLEAN, stacked => stacked', ~stacked' => GuardedStore(s)
  PROVE  IInv'
<1>0. Typed
  BY DEF IInv, Shape
<1>1. /\ ~tab[t].open
      /\ store' = s /\ tab' \in [Tabs -> TabRecord] /\ unseen' \subseteq Tabs
      /\ jobs' \subseteq JobRecord
      /\ tab'[t].open /\ ~tab'[t].due /\ tab'[t].view = tab'[t].next
      /\ tab'[t].view = s.access \/ (tab'[t].view = NoAccess /\ (tab'[t].booting \/ s.refresh = NoRefresh))
      /\ \A u \in Tabs \ {t} : tab'[u] = tab[u]
      /\ \A u \in Tabs \ {t} : u \in unseen' <=> u \in unseen \/ (s # store /\ tab[u].open)
      /\ t \notin unseen'
  BY <1>0, LoadTyped
<1>2. \A j \in jobs' : j \in jobs \/ j = PermsJob(t, s) \/ (j = BootJob(t, s) /\ s.refresh # NoRefresh)
  BY <1>0, LoadTyped
<1>3. /\ PermsJob(t, s).kind = "perms" /\ PermsJob(t, s).tab = t /\ PermsJob(t, s).access = s.access
      /\ Carries(PermsJob(t, s))
  BY <1>0, PermsTyped
<1>4. s.refresh # NoRefresh => /\ Carries(BootJob(t, s)) /\ BootJob(t, s).tab = t
                              /\ BootJob(t, s).kind = "refresh" /\ BootJob(t, s).access = s.access
  BY <1>0, RefreshJobTyped
<1>5. \A j \in jobs' : Carries(j)
  BY <1>2, <1>3, <1>4 DEF IInv, Shape
<1>6. \A u \in Tabs : tab[u].open => tab'[u].open
  BY <1>1
<1>7. unseen' \subseteq {u \in Tabs : tab'[u].open}
  BY <1>1 DEF IInv, Shape, Awaited
<1>8. ASSUME NEW j \in jobs', j.live PROVE tab'[j.tab].open
  <2>1. CASE j \in jobs
    <3>1. j.tab \in Tabs /\ tab[j.tab].open
      BY <1>8, <2>1 DEF IInv, Shape, Typed, Awaited, JobRecord
    <3> QED
      BY <1>6, <3>1
  <2>2. CASE j.tab = t
    BY <1>1, <2>2
  <2> QED
    BY <1>2, <1>3, <1>4, <2>1, <2>2
<1>9. Shape'
  <2>1. \A u \in Tabs : tab'[u].due => tab'[u].open
    BY <1>1 DEF IInv, Shape, Awaited
  <2> QED
    BY <1>1, <1>5, <1>7, <1>8, <2>1 DEF IInv, Shape, Typed, Awaited
<1>10. Guarded'
  BY <1>1 DEF Guarded
<1>11. ImpersonationNeverRefreshed'
  BY <1>2, <1>3, <1>4 DEF IInv, ImpersonationNeverRefreshed, GuardedStore
<1>12. ASSUME NEW j \in jobs', j.kind = "perms", j.tab \notin unseen', ~tab'[j.tab].due
       PROVE  j.access = s.access
  <2>1. CASE j \in jobs
    <3>1. j.tab \in Tabs /\ tab[j.tab].open /\ j.tab # t
      BY <1>1, <1>12, <2>1 DEF IInv, Shape, Typed, Awaited, JobRecord, Carries
    <3>2. j.tab \notin unseen /\ s = store /\ ~tab[j.tab].due
      BY <1>1, <1>12, <3>1
    <3> QED
      BY <1>12, <2>1, <3>2 DEF IInv, PermsFresh
  <2> QED
    BY <1>2, <1>3, <1>4, <1>12, <2>1
<1>13. ASSUME NEW u \in Tabs, tab'[u].open PROVE Agree(u)'
  <2>1. CASE u = t
    BY <1>1, <2>1 DEF Agree
  <2>2. CASE u # t
    <3>1. tab'[u] = tab[u] /\ (u \notin unseen' => u \notin unseen /\ s = store)
      BY <1>1, <1>13, <2>2
    <3> QED
      BY <1>1, <1>13, <3>1 DEF IInv, TabsShow, Agree
  <2> QED
    BY <2>1, <2>2
<1> QED
  BY <1>1, <1>9, <1>10, <1>11, <1>12, <1>13 DEF IInv, PermsFresh, TabsShow

LEMMA CloseKeeps ==
  ASSUME IInv, NEW t \in Tabs, CloseTab(t)
  PROVE  IInv'
<1>1. Closed \in TabRecord /\ ~Closed.open /\ ~Closed.due
  BY DEF Closed, TabRecord, Accesses
<1>2. /\ tab' \in [Tabs -> TabRecord] /\ ~tab'[t].open /\ ~tab'[t].due
      /\ \A u \in Tabs \ {t} : tab'[u] = tab[u]
      /\ unseen' = unseen \ {t} /\ UNCHANGED <<store, slot, minted, stacked>>
  BY <1>1 DEF CloseTab, IInv, Shape, Typed
\* What the tab had sent is nobody's any more, and no fetch of permissions.
<1>3. ASSUME NEW j \in jobs'
      PROVE  \/ j \in jobs /\ j.tab # t
             \/ \E k \in jobs : /\ k.kind # "perms" /\ j = [k EXCEPT !.live = FALSE]
  <2>1. \/ j \in jobs /\ j.tab # t
        \/ \E k \in jobs \ Hydrating(t) : k.tab = t /\ j = [k EXCEPT !.live = FALSE]
    BY DEF CloseTab
  <2> QED
    BY <2>1 DEF Hydrating
<1>4. ASSUME NEW j \in jobs'
      PROVE  /\ j \in JobRecord /\ Carries(j)
             /\ j.live => j \in jobs /\ j.tab # t
             /\ j.kind = "perms" => j \in jobs
             /\ j.kind = "refresh" /\ j.access.act # NoUser => stacked
  <2>1. CASE j \in jobs /\ j.tab # t
    BY <2>1 DEF IInv, Shape, Typed, ImpersonationNeverRefreshed
  <2>2. ASSUME NEW k \in jobs, k.kind # "perms", j = [k EXCEPT !.live = FALSE]
        PROVE  /\ j \in JobRecord /\ Carries(j) /\ ~j.live /\ j.kind # "perms"
               /\ j.kind = "refresh" /\ j.access.act # NoUser => stacked
    <3>1. k \in JobRecord /\ Carries(k) /\ (k.kind = "refresh" /\ k.access.act # NoUser => stacked)
      BY DEF IInv, Shape, Typed, ImpersonationNeverRefreshed
    <3>2. /\ j \in JobRecord /\ ~j.live /\ j.kind = k.kind /\ j.access = k.access
          /\ j.user = k.user /\ j.refresh = k.refresh /\ j.stage = k.stage /\ j.fresh = k.fresh
      BY <2>2, <3>1 DEF JobRecord
    <3> QED
      BY <2>2, <3>1, <3>2 DEF Carries
  <2> QED
    BY <1>3, <2>1, <2>2
<1>5. Shape'
  <2>1. unseen' \subseteq {u \in Tabs : tab'[u].open}
    BY <1>2 DEF IInv, Shape, Awaited
  <2>2. ASSUME NEW j \in jobs', j.live PROVE tab'[j.tab].open
    BY <1>2, <1>4, <2>2 DEF IInv, Shape, Typed, Awaited, JobRecord
  <2>3. \A u \in Tabs : tab'[u].due => tab'[u].open
    BY <1>2 DEF IInv, Shape, Awaited
  <2> QED
    BY <1>2, <1>4, <2>1, <2>2, <2>3 DEF IInv, Shape, Typed, Awaited
<1>6. Guarded' /\ ImpersonationNeverRefreshed'
  BY <1>2, <1>4 DEF IInv, Guarded, ImpersonationNeverRefreshed
<1>7. ASSUME NEW j \in jobs', j.kind = "perms", j.tab \notin unseen', ~tab'[j.tab].due
      PROVE  j.access = store.access
  <2>1. j \in jobs /\ j.tab # t /\ j.tab \in Tabs
    BY <1>4, <1>7 DEF Carries, JobRecord
  <2> QED
    BY <1>2, <1>7, <2>1 DEF IInv, PermsFresh
<1>8. TabsShow'
  BY <1>2 DEF IInv, TabsShow, Agree
<1> QED
  BY <1>2, <1>5, <1>6, <1>7, <1>8 DEF IInv, PermsFresh
-----------------------------------------------------------------------------
(* The actions of a tab *)
LEMMA StoreTyped ==
  ASSUME IInv
  PROVE  /\ store \in Store /\ store.access \in Accesses /\ store.refresh \in Refreshes
         /\ store.access # NoAccess => store.access \in Access
         /\ stacked \in BOOLEAN
         /\ ~stacked => GuardedStore(store)
BY DEF IInv, Shape, Typed, Guarded, Store, Accesses

LEMMA TabTyped ==
  ASSUME IInv, NEW t \in Tabs
  PROVE  /\ tab[t] \in TabRecord
         /\ tab[t].view # NoAccess => tab[t].view \in Access
BY DEF IInv, Shape, Typed, TabRecord, Accesses

LEMMA BootKeeps ==
  ASSUME IInv, NEW t \in Tabs, Boot(t)
  PROVE  IInv'
<1>1. UNCHANGED <<slot, minted, stacked>>
  BY DEF Boot, server
<1>2. PICK usable \in BOOLEAN : Load(t, store, usable)
  BY DEF Boot
<1> QED
  BY <1>1, <1>2, StoreTyped, LoadKeeps

LEMMA HandoffKeeps ==
  ASSUME IInv, NEW t \in Tabs, NEW u \in Users, Handoff(t, u)
  PROVE  IInv'
<1> DEFINE access == [sub |-> u, act |-> Root]
           s == BeginImpersonation(store, access)
<1>1. access \in Accesses /\ access \in Access
  BY DEF Accesses, Access, Actors
<1>2. /\ UNCHANGED <<slot, minted>> /\ Load(t, s, TRUE)
      /\ stacked' = (stacked \/ store.access.act # NoUser)
  BY DEF Handoff, server
<1>3. /\ s \in Store /\ s.refresh = NoRefresh
      /\ s.stashAccess \in {store.access, store.stashAccess}
  BY <1>1, BeginTyped, StoreTyped
<1> HIDE DEF s
<1>4. stacked' \in BOOLEAN /\ (stacked => stacked') /\ (~stacked' => GuardedStore(s))
  BY <1>2, <1>3, StoreTyped DEF GuardedStore
<1> QED
  BY <1>2, <1>3, <1>4, LoadKeeps

LEMMA SeeKeeps ==
  ASSUME IInv, NEW t \in Tabs, See(t)
  PROVE  IInv'
<1>1. UNCHANGED <<slot, minted, stacked>> /\ tab[t].open /\ Rebuilt(t, tab[t], store, jobs)
  BY DEF See, server, IInv, Shape, Awaited
<1> QED
  BY <1>1, StoreTyped, TabTyped, RebuiltKeeps

LEMMA VisibleKeeps ==
  ASSUME IInv, NEW t \in Tabs, Visible(t)
  PROVE  IInv'
<1>1. UNCHANGED <<slot, minted, stacked>> /\ tab[t].open /\ Rebuilt(t, tab[t], store, jobs)
  BY DEF Visible, server
<1> QED
  BY <1>1, StoreTyped, TabTyped, RebuiltKeeps

LEMMA LoginKeeps ==
  ASSUME IInv, NEW t \in Tabs, NEW u \in Users, Login(t, u)
  PROVE  IInv'
<1> DEFINE s == [store EXCEPT !.perms = NoUser]
           a == [tab[t] EXCEPT !.hydrated = FALSE]
           j == Job("login", t, u, NoAccess, NoRefresh)
<1>1. UNCHANGED <<slot, minted, stacked>> /\ tab[t].open /\ Rebuilt(t, a, s, jobs \cup {j})
  BY DEF Login, server
<1>2. s \in Store /\ (~stacked => GuardedStore(s))
  BY StoreTyped DEF Store, GuardedStore
<1>3. a \in TabRecord /\ a.open
  BY <1>1, TabTyped DEF TabRecord
<1>4. /\ j \in JobRecord /\ j.kind = "login" /\ j.tab = t /\ j.user = u /\ j.stage = "sent"
  <2>1. Typed
    BY DEF IInv, Shape
  <2> QED
    BY <2>1, JobTyped DEF Kinds, Accesses, Refreshes
<1> HIDE DEF s, a, j
<1>5. Added(j)
  BY <1>1, <1>4 DEF Added, Carries
<1> QED
  BY <1>1, <1>2, <1>3, <1>5, StoreTyped, RebuiltKeeps

LEMMA LogoutKeeps ==
  ASSUME IInv, NEW t \in Tabs, Logout(t)
  PROVE  IInv'
<1>1. UNCHANGED <<slot, minted, stacked>> /\ tab[t].open /\ Rebuilt(t, tab[t], Empty, jobs)
  BY DEF Logout, server
<1> QED
  BY <1>1, EmptyTyped, EmptyGuarded, StoreTyped, TabTyped, RebuiltKeeps

LEMMA UnauthorizedKeeps ==
  ASSUME IInv, NEW t \in Tabs, Unauthorized(t)
  PROVE  IInv'
<1> DEFINE j == RefreshJob(t, store)
<1>1. /\ UNCHANGED <<store, tab, unseen, slot, minted, stacked>>
      /\ tab[t].open /\ store.refresh # NoRefresh /\ jobs' = jobs \cup {j}
  BY DEF Unauthorized, Send, server
<1>2. /\ j \in JobRecord /\ Carries(j)
      /\ j.kind = "refresh" /\ j.tab = t /\ j.access = store.access
  <2>1. Typed
    BY DEF IInv, Shape
  <2> QED
    BY <1>1, <2>1, StoreTyped, RefreshJobTyped
<1> HIDE DEF j
<1>3. Added(j)
  BY <1>1, <1>2, StoreTyped DEF Added, GuardedStore
<1>4. \A i \in jobs' : i \in jobs \/ Added(i)
  BY <1>1, <1>3
<1>5. minted' \in Nat /\ slot' \in [Actors -> 0..minted']
  BY <1>1 DEF IInv, Shape, Typed
<1> QED
  BY <1>1, <1>4, <1>5, JobsKeep

LEMMA BeginKeeps ==
  ASSUME IInv, NEW t \in Tabs, NEW u \in Users, Begin(t, u)
  PROVE  IInv'
<1> DEFINE i == Job("begin", t, u, store.access, NoRefresh)
           j == [i EXCEPT !.stage = IF store.access.act = NoUser THEN "ok" ELSE "refused"]
<1>1. /\ UNCHANGED <<store, tab, unseen, slot, minted, stacked>>
      /\ tab[t].open /\ store.access # NoAccess /\ jobs' = jobs \cup {j}
  BY DEF Begin, Send, server
<1>2. /\ i \in JobRecord /\ i.kind = "begin" /\ i.tab = t /\ i.user = u /\ i.access = store.access
  <2>1. Typed
    BY DEF IInv, Shape
  <2> QED
    BY <2>1, StoreTyped, JobTyped DEF Kinds, Refreshes
<1> HIDE DEF i
<1>3. /\ j \in JobRecord /\ j.kind = "begin" /\ j.tab = t /\ j.user = u /\ j.access = store.access
      /\ j.stage # "checked"
  BY <1>2 DEF JobRecord
<1> HIDE DEF j
<1>4. Added(j)
  BY <1>1, <1>3, StoreTyped DEF Added, Carries
<1>5. \A k \in jobs' : k \in jobs \/ Added(k)
  BY <1>1, <1>4
<1>6. minted' \in Nat /\ slot' \in [Actors -> 0..minted']
  BY <1>1 DEF IInv, Shape, Typed
<1> QED
  BY <1>1, <1>5, <1>6, JobsKeep

LEMMA StopKeeps ==
  ASSUME IInv, NEW t \in Tabs, Stop(t)
  PROVE  IInv'
<1> DEFINE j == Job("end", t, NoUser, store.access, NoRefresh)
           k == [j EXCEPT !.live = FALSE]
<1>1. /\ UNCHANGED <<slot, minted, stacked>>
      /\ tab[t].open /\ store.access # NoAccess
      /\ \/ Rebuilt(t, tab[t], Empty, jobs \cup {k})
         \/ jobs' = jobs \cup {j} /\ UNCHANGED <<store, tab, unseen>>
  BY DEF Stop, Stopping, Send, server
<1>2. /\ j \in JobRecord /\ j.kind = "end" /\ j.tab = t /\ j.access = store.access /\ j.stage = "sent"
  <2>1. Typed
    BY DEF IInv, Shape
  <2> QED
    BY <2>1, StoreTyped, JobTyped DEF Kinds, Refreshes
<1> HIDE DEF j
<1>3. /\ k \in JobRecord /\ k.kind = "end" /\ ~k.live /\ k.access = store.access /\ k.stage = "sent"
  BY <1>2 DEF JobRecord
<1> HIDE DEF k
<1>4. Added(j) /\ Added(k)
  BY <1>1, <1>2, <1>3, StoreTyped DEF Added, Carries
<1>5. minted' \in Nat /\ slot' \in [Actors -> 0..minted']
  BY <1>1 DEF IInv, Shape, Typed
<1>6. CASE Rebuilt(t, tab[t], Empty, jobs \cup {k})
  BY <1>1, <1>4, <1>6, EmptyTyped, EmptyGuarded, StoreTyped, TabTyped, RebuiltKeeps
<1>7. CASE jobs' = jobs \cup {j} /\ UNCHANGED <<store, tab, unseen>>
  <2>1. \A i \in jobs' : i \in jobs \/ Added(i)
    BY <1>4, <1>7
  <2> QED
    BY <1>1, <1>5, <1>7, <2>1, JobsKeep
<1> QED
  BY <1>1, <1>6, <1>7
-----------------------------------------------------------------------------
(* The answers of the server *)

\* A request that is answered stays what it was.
LEMMA AnsweredKeeps ==
  ASSUME IInv, NEW j \in jobs, NEW k \in JobRecord, Carries(k), Moved(j, k),
         k.kind = j.kind, k.kind # "perms", k.tab = j.tab, k.access = j.access, k.live = j.live,
         UNCHANGED <<store, tab, unseen, stacked>>,
         minted' \in Nat, slot' \in [Actors -> 0..minted']
  PROVE  IInv'
<1>1. Added(k)
  BY DEF Added, IInv, Shape, Typed, Awaited, ImpersonationNeverRefreshed
<1>2. \A i \in jobs' : i \in jobs \/ Added(i)
  BY <1>1, MovedTyped DEF IInv, Shape
<1> QED
  BY <1>2, JobsKeep

LEMMA MintKeeps ==
  ASSUME IInv, NEW j \in jobs, NEW u \in Actors, Mint(j, u),
         j.kind \in {"refresh", "login", "end"}, j.kind = "end" => j.access.act # NoUser,
         UNCHANGED <<store, tab, unseen, stacked>>
  PROVE  IInv'
<1> DEFINE k == [j EXCEPT !.stage = "ok", !.fresh = minted + 1]
<1>1. j \in JobRecord /\ Carries(j) /\ minted \in Nat /\ slot \in [Actors -> 0..minted]
  BY DEF IInv, Shape, Typed
<1>2. minted' = minted + 1 /\ slot' = [slot EXCEPT ![u] = minted + 1] /\ Moved(j, k)
  BY DEF Mint
<1>3. /\ k \in JobRecord /\ k.kind = j.kind /\ k.tab = j.tab /\ k.access = j.access /\ k.live = j.live
      /\ k.refresh = j.refresh /\ k.user = j.user /\ k.stage = "ok" /\ k.fresh = minted + 1
  <2> DEFINE i == [j EXCEPT !.stage = "ok"]
  <2>1. /\ i \in JobRecord /\ i.kind = j.kind /\ i.tab = j.tab /\ i.access = j.access /\ i.live = j.live
        /\ i.refresh = j.refresh /\ i.user = j.user /\ i.stage = "ok"
    BY <1>1 DEF JobRecord
  <2>2. k = [i EXCEPT !.fresh = minted + 1] /\ minted + 1 \in Nat
    BY <1>1
  <2> HIDE DEF i, k
  <2> QED
    BY <2>1, <2>2 DEF JobRecord
<1> HIDE DEF k
<1>4. Carries(k)
  BY <1>1, <1>3 DEF Carries
<1>5. minted' \in Nat /\ slot' \in [Actors -> 0..minted']
  BY <1>1, <1>2
<1>6. k.kind # "perms"
  BY <1>3
<1> QED
  BY <1>2, <1>3, <1>4, <1>5, <1>6, AnsweredKeeps

LEMMA AnswerKeeps ==
  ASSUME IInv, Answer
  PROVE  IInv'
<1>1. PICK j \in jobs : Check(j) \/ Serve(j) \/ Refuse(j)
  BY DEF Answer
<1>2. UNCHANGED <<store, tab, unseen, stacked>>
  BY DEF Answer
<1>3. j \in JobRecord /\ Carries(j) /\ minted \in Nat /\ slot \in [Actors -> 0..minted]
  BY DEF IInv, Shape, Typed
<1>4. CASE Check(j)
  <2> DEFINE k == [j EXCEPT !.stage = "checked"]
  <2>1. Moved(j, k) /\ UNCHANGED <<slot, minted>> /\ j.kind = "refresh"
    BY <1>4 DEF Check, server
  <2>2. /\ k \in JobRecord /\ k.kind = j.kind /\ k.tab = j.tab /\ k.access = j.access /\ k.live = j.live
        /\ k.refresh = j.refresh /\ k.stage = "checked"
    BY <1>3 DEF JobRecord
  <2> HIDE DEF k
  <2>3. Carries(k) /\ k.kind # "perms"
    BY <1>3, <2>1, <2>2 DEF Carries
  <2>4. minted' \in Nat /\ slot' \in [Actors -> 0..minted']
    BY <1>3, <2>1
  <2> QED
    BY <1>2, <2>1, <2>2, <2>3, <2>4, AnsweredKeeps
<1>5. CASE Serve(j)
  <2>1. CASE j.stage = "checked" /\ Mint(j, j.refresh.sub)
    <3>1. j.kind = "refresh" /\ j.refresh.sub \in Actors
      BY <1>3, <2>1, NobodyIsNoUser DEF Carries, Refresh
    <3> QED
      BY <1>2, <2>1, <3>1, MintKeeps
  <2>2. CASE j.stage = "sent" /\ j.kind = "login" /\ Mint(j, j.user)
    <3>1. j.user \in Actors
      BY <1>3, <2>2, NobodyIsNoUser DEF Carries
    <3> QED
      BY <1>2, <2>2, <3>1, MintKeeps
  <2>3. CASE j.stage = "sent" /\ j.kind = "end" /\ Accepted(j) /\ Mint(j, j.access.act)
    <3>1. j.access.act # NoUser
      BY <2>3 DEF Accepted
    <3>2. j.access.act \in Actors
      BY <1>3, <2>3, <3>1 DEF Carries, Access
    <3> QED
      BY <1>2, <2>3, <3>1, <3>2, MintKeeps
  <2> QED
    BY <1>5, <2>1, <2>2, <2>3 DEF Serve
<1>6. CASE Refuse(j)
  <2> DEFINE k == [j EXCEPT !.stage = "refused"]
  <2>1. Moved(j, k) /\ UNCHANGED <<slot, minted>> /\ j.stage = "sent"
    BY <1>6 DEF Refuse, server
  <2>2. /\ k \in JobRecord /\ k.kind = j.kind /\ k.tab = j.tab /\ k.access = j.access /\ k.live = j.live
        /\ k.refresh = j.refresh /\ k.user = j.user /\ k.stage = "refused"
    BY <1>3 DEF JobRecord
  <2> HIDE DEF k
  <2>3. Carries(k) /\ k.kind # "perms"
    BY <1>3, <2>1, <2>2 DEF Carries
  <2>4. minted' \in Nat /\ slot' \in [Actors -> 0..minted']
    BY <1>3, <2>1
  <2> QED
    BY <1>2, <2>1, <2>2, <2>3, <2>4, AnsweredKeeps
<1> QED
  BY <1>1, <1>4, <1>5, <1>6
-----------------------------------------------------------------------------
(* What a tab does with an answer *)

\* The answer is dropped.
LEMMA DropKeeps ==
  ASSUME IInv, NEW j \in jobs, jobs' = jobs \ {j},
         UNCHANGED <<store, tab, unseen, stacked, slot, minted>>
  PROVE  IInv'
<1>1. minted' \in Nat /\ slot' \in [Actors -> 0..minted']
  BY DEF IInv, Shape, Typed
<1> QED
  BY <1>1, JobsKeep

\* The answer makes the tab take up session s.
LEMMA TakeKeeps ==
  ASSUME IInv, NEW j \in jobs, j.live, NEW s \in Store, NEW a \in TabRecord, a.open = tab[j.tab].open,
         Rebuilt(j.tab, a, s, jobs \ {j}), UNCHANGED <<slot, minted>>,
         stacked' \in BOOLEAN, stacked => stacked', ~stacked' => GuardedStore(s)
  PROVE  IInv'
<1>1. j.tab \in Tabs /\ tab[j.tab].open
  BY DEF IInv, Shape, Typed, Awaited, JobRecord
<1> QED
  BY <1>1, RebuiltKeeps

LEMMA SettleRefreshKeeps ==
  ASSUME IInv, NEW j \in jobs, j.live, j.kind = "refresh", NEW ok \in BOOLEAN, NEW failed \in BOOLEAN,
         ok => j.stage = "ok", SettleRefresh(j, ok, failed), UNCHANGED <<slot, minted, stacked>>
  PROVE  IInv'
<1> DEFINE s == IF ok THEN SetTokens(store, For(j.refresh.sub), Fresh(j)) ELSE Empty
<1>1. j \in JobRecord /\ Carries(j) /\ j.tab \in Tabs /\ tab[j.tab] \in TabRecord
  BY TabTyped DEF IInv, Shape, Typed, JobRecord
<1>2. CASE jobs' = jobs \ {j} /\ UNCHANGED <<store, tab, unseen>>
  BY <1>2, DropKeeps
<1>3. CASE Rebuilt(j.tab, tab[j.tab], s, jobs \ {j})
  <2>1. s \in Store /\ (~stacked => GuardedStore(s))
    <3>1. CASE ~ok
      BY <3>1, EmptyTyped, EmptyGuarded
    <3>2. CASE ok
      <4>1. j.refresh \in Refresh /\ j.fresh \in Nat \ {0} /\ j.refresh.sub \in Users
        BY <1>1, <3>2 DEF Carries, JobRecord, Refresh
      <4>2. Fresh(j) \in Refreshes /\ For(j.refresh.sub) \in Accesses /\ For(j.refresh.sub).act = NoUser
        BY <4>1, FreshTyped, ForTyped DEF Accesses, Refreshes
      <4>3. /\ s \in Store /\ s.access.act = NoUser /\ s.stashAccess = store.stashAccess
        BY <3>2, <4>2, StoreTyped, SetTokensTyped
      <4> QED
        BY <4>3, StoreTyped DEF GuardedStore
    <3> QED
      BY <3>1, <3>2
  <2> HIDE DEF s
  <2> QED
    BY <1>1, <1>3, <2>1, StoreTyped, TakeKeeps
<1> QED
  BY <1>2, <1>3 DEF SettleRefresh

LEMMA SettleLoginKeeps ==
  ASSUME IInv, NEW j \in jobs, j.live, j.kind = "login", NEW ok \in BOOLEAN,
         ok => j.stage = "ok", SettleLogin(j, ok), UNCHANGED <<slot, minted, stacked>>
  PROVE  IInv'
<1> DEFINE given == [sub |-> j.user, id |-> j.fresh]
           s == SetTokens(store, For(j.user), given)
<1>1. j \in JobRecord /\ Carries(j) /\ j.tab \in Tabs /\ tab[j.tab] \in TabRecord
  BY TabTyped DEF IInv, Shape, Typed, JobRecord
<1>2. CASE ~ok
  BY <1>2, DropKeeps DEF SettleLogin
<1>3. CASE ok
  <2>1. Rebuilt(j.tab, tab[j.tab], s, jobs \ {j})
    BY <1>3 DEF SettleLogin
  <2>2. j.user \in Users /\ j.fresh \in Nat \ {0}
    BY <1>1, <1>3 DEF Carries, JobRecord
  <2>3. given \in Refreshes /\ For(j.user) \in Accesses /\ For(j.user).act = NoUser
    BY <2>2, ForTyped DEF Accesses, Refreshes, Refresh
  <2>4. s \in Store /\ s.access.act = NoUser /\ s.stashAccess = store.stashAccess
    BY <2>3, StoreTyped, SetTokensTyped
  <2> HIDE DEF s
  <2>5. ~stacked => GuardedStore(s)
    BY <2>4, StoreTyped DEF GuardedStore
  <2> QED
    BY <1>1, <2>1, <2>4, <2>5, StoreTyped, TakeKeeps
<1> QED
  BY <1>2, <1>3

LEMMA SettlePermsKeeps ==
  ASSUME IInv, NEW j \in jobs, j.live, j.kind = "perms", NEW ok \in BOOLEAN,
         SettlePerms(j, ok), UNCHANGED <<slot, minted, stacked>>
  PROVE  IInv'
<1> DEFINE a == [tab[j.tab] EXCEPT !.hydrated = TRUE]
           s == [store EXCEPT !.perms = j.access.sub]
<1>1. j \in JobRecord /\ j.tab \in Tabs /\ tab[j.tab] \in TabRecord
  BY TabTyped DEF IInv, Shape, Typed, JobRecord
<1>2. a \in TabRecord /\ a.open = tab[j.tab].open /\ a.view = tab[j.tab].view
      /\ a.booting = tab[j.tab].booting /\ a.next = tab[j.tab].next /\ a.due = tab[j.tab].due
  BY <1>1 DEF TabRecord
<1> HIDE DEF a
<1>3. CASE ok
  <2>1. Rebuilt(j.tab, a, s, jobs \ {j})
    BY <1>3 DEF SettlePerms, a
  <2>2. j.access.sub \in Users \cup {NoUser}
    BY <1>1, NoAccessIsNone DEF JobRecord, Accesses, Access
  <2>3. s \in Store /\ s.access = store.access /\ s.refresh = store.refresh /\ s.stashAccess = store.stashAccess
    BY <2>2, StoreTyped DEF Store
  <2> HIDE DEF s
  <2>4. ~stacked => GuardedStore(s)
    BY <2>3, StoreTyped DEF GuardedStore
  <2> QED
    BY <1>1, <1>2, <2>1, <2>3, <2>4, StoreTyped, TakeKeeps
<1>4. CASE ~ok
  <2>1. tab' = [tab EXCEPT ![j.tab] = a] /\ jobs' = jobs \ {j} /\ UNCHANGED <<store, unseen>>
    BY <1>4 DEF SettlePerms, a
  <2>2. /\ tab' \in [Tabs -> TabRecord]
        /\ \A t \in Tabs : /\ tab'[t].open = tab[t].open /\ tab'[t].view = tab[t].view
                           /\ tab'[t].booting = tab[t].booting /\ tab'[t].next = tab[t].next
                           /\ tab'[t].due = tab[t].due
    BY <1>1, <1>2, <2>1 DEF IInv, Shape, Typed
  <2>3. Shape'
    <3>1. \A i \in jobs' : i.live => tab'[i.tab].open
      BY <2>1, <2>2 DEF IInv, Shape, Typed, Awaited, JobRecord
    <3>2. unseen' \subseteq {t \in Tabs : tab'[t].open} /\ \A t \in Tabs : tab'[t].due => tab'[t].open
      BY <2>1, <2>2 DEF IInv, Shape, Awaited
    <3>3. Typed'
      BY <2>1, <2>2 DEF IInv, Shape, Typed
    <3>4. \A i \in jobs' : Carries(i)
      BY <2>1 DEF IInv, Shape
    <3> QED
      BY <3>1, <3>2, <3>3, <3>4 DEF Shape, Awaited
  <2>4. Guarded' /\ ImpersonationNeverRefreshed' /\ PermsFresh'
    BY <2>1, <2>2 DEF IInv, Shape, Typed, JobRecord, Guarded, ImpersonationNeverRefreshed, PermsFresh
  <2>5. TabsShow'
    BY <2>1, <2>2 DEF IInv, TabsShow, Agree
  <2> QED
    BY <2>3, <2>4, <2>5 DEF IInv
<1> QED
  BY <1>3, <1>4

LEMMA SettleBeginKeeps ==
  ASSUME IInv, NEW j \in jobs, j.live, j.kind = "begin", NEW ok \in BOOLEAN,
         SettleBegin(j, ok), UNCHANGED <<slot, minted>>,
         stacked' = (stacked \/ (ok /\ store.access.act # NoUser))
  PROVE  IInv'
<1> DEFINE access == [sub |-> j.user, act |-> j.access.sub]
           s == BeginImpersonation(store, access)
<1>1. j \in JobRecord /\ Carries(j) /\ j.tab \in Tabs /\ tab[j.tab] \in TabRecord
  BY TabTyped DEF IInv, Shape, Typed, JobRecord
<1>2. CASE ~ok
  BY <1>2, StoreTyped, DropKeeps DEF SettleBegin
<1>3. CASE ok
  <2>1. Rebuilt(j.tab, tab[j.tab], s, jobs \ {j})
    BY <1>3 DEF SettleBegin
  <2>2. access \in Accesses
    BY <1>1, NobodyIsNoUser DEF Carries, Accesses, Access
  <2>3. /\ s \in Store /\ s.refresh = NoRefresh /\ s.stashAccess \in {store.access, store.stashAccess}
    BY <2>2, StoreTyped, BeginTyped
  <2> HIDE DEF s
  <2>4. stacked' \in BOOLEAN /\ (stacked => stacked') /\ (~stacked' => GuardedStore(s))
    BY <1>3, <2>3, StoreTyped DEF GuardedStore
  <2> QED
    BY <1>1, <2>1, <2>3, <2>4, TakeKeeps
<1> QED
  BY <1>2, <1>3

LEMMA SettleEndKeeps ==
  ASSUME IInv, NEW j \in jobs, j.live, j.kind = "end", NEW ok \in BOOLEAN,
         ok => j.stage = "ok", SettleEnd(j, ok), UNCHANGED <<slot, minted, stacked>>
  PROVE  IInv'
<1> DEFINE actor == j.access.act
           given == [sub |-> actor, id |-> j.fresh]
           s == IF ~ok THEN RestoreStashedActor(store)
                ELSE IF actor = Root THEN Empty
                ELSE EndImpersonation(store, For(actor), given)
<1>1. j \in JobRecord /\ Carries(j) /\ j.tab \in Tabs /\ tab[j.tab] \in TabRecord
  BY TabTyped DEF IInv, Shape, Typed, JobRecord
<1>2. Rebuilt(j.tab, tab[j.tab], s, jobs \ {j})
  BY DEF SettleEnd
<1>3. s \in Store /\ (~stacked => GuardedStore(s))
  <2>1. CASE ~ok
    <3>1. s = RestoreStashedActor(store)
      BY <2>1
    <3> HIDE DEF s
    <3> QED
      BY <3>1, RestoreTyped, StoreTyped, NoAccessIsNone DEF GuardedStore
  <2>2. CASE ok /\ actor = Root
    BY <2>2, EmptyTyped, EmptyGuarded
  <2>3. CASE ok /\ actor # Root
    <3>1. actor \in Users /\ j.fresh \in Nat \ {0}
      BY <1>1, <2>3 DEF Carries, JobRecord, Access, Actors
    <3>2. given \in Refreshes /\ For(actor) \in Accesses /\ For(actor).act = NoUser
      BY <3>1, ForTyped DEF Accesses, Refreshes, Refresh
    <3>3. s = EndImpersonation(store, For(actor), given)
      BY <2>3
    <3> HIDE DEF s
    <3> QED
      BY <3>2, <3>3, EndTyped, StoreTyped, NoAccessIsNone DEF GuardedStore
  <2> QED
    BY <2>1, <2>2, <2>3
<1> HIDE DEF s
<1> QED
  BY <1>1, <1>2, <1>3, StoreTyped, TakeKeeps

LEMMA SettleKeeps ==
  ASSUME IInv, NEW j \in jobs, NEW ok \in BOOLEAN, NEW failed \in BOOLEAN,
         ok => j.stage = "ok", Settle(j, ok, failed)
  PROVE  IInv'
<1>1. /\ j.live /\ UNCHANGED <<slot, minted>>
      /\ stacked' = (stacked \/ (j.kind = "begin" /\ ok /\ store.access.act # NoUser))
  BY DEF Settle
<1>2. j.kind \in Kinds /\ stacked \in BOOLEAN
  BY DEF IInv, Shape, Typed, JobRecord
<1>3. CASE j.kind = "refresh"
  BY <1>1, <1>2, <1>3, SettleRefreshKeeps DEF Settle
<1>4. CASE j.kind = "login"
  BY <1>1, <1>2, <1>4, SettleLoginKeeps DEF Settle
<1>5. CASE j.kind = "perms"
  BY <1>1, <1>2, <1>5, SettlePermsKeeps DEF Settle
<1>6. CASE j.kind = "begin"
  BY <1>1, <1>2, <1>6, SettleBeginKeeps DEF Settle
<1>7. CASE j.kind = "end"
  BY <1>1, <1>2, <1>7, SettleEndKeeps DEF Settle
<1> QED
  BY <1>2, <1>3, <1>4, <1>5, <1>6, <1>7 DEF Kinds
-----------------------------------------------------------------------------
LEMMA StepKeeps == IInv /\ [Next]_vars => IInv'
<1> SUFFICES ASSUME IInv, [Next]_vars PROVE IInv'
  OBVIOUS
<1>1. ASSUME NEW t \in Tabs,
             \/ Boot(t) \/ CloseTab(t) \/ See(t) \/ Visible(t) \/ Rendered(t) \/ Logout(t)
             \/ Unauthorized(t) \/ Stop(t)
             \/ \E u \in Users : Handoff(t, u) \/ Login(t, u) \/ Begin(t, u)
      PROVE  IInv'
  BY <1>1, BootKeeps, CloseKeeps, SeeKeeps, VisibleKeeps, RenderedKeeps, LogoutKeeps, UnauthorizedKeeps, StopKeeps,
     HandoffKeeps, LoginKeeps, BeginKeeps
<1>2. CASE Answer
  BY <1>2, AnswerKeeps
<1>3. ASSUME NEW j \in jobs, Deliver(j) PROVE IInv'
  <2>1. (j.stage = "ok") \in BOOLEAN /\ Settle(j, j.stage = "ok", FALSE)
    BY <1>3 DEF Deliver
  <2> QED
    BY <2>1, SettleKeeps
<1>4. ASSUME NEW j \in jobs, Fail(j) PROVE IInv'
  <2>1. Settle(j, FALSE, TRUE)
    BY <1>4 DEF Fail
  <2> QED
    BY <2>1, SettleKeeps
<1>5. CASE UNCHANGED vars
  BY <1>5 DEF vars, server, IInv, Shape, Typed, Awaited, Guarded, ImpersonationNeverRefreshed,
              PermsFresh, TabsShow, Agree
<1> QED
  BY <1>1, <1>2, <1>3, <1>4, <1>5 DEF Next

LEMMA InitKeeps == Init => IInv
<1> SUFFICES ASSUME Init PROVE IInv
  OBVIOUS
<1>1. PICK u \in Users :
        /\ slot = [v \in Actors |-> IF v = u THEN 1 ELSE 0]
        /\ LET signedIn == SetTokens(Empty, For(u), [sub |-> u, id |-> 1])
           IN  store \in {Empty, [signedIn EXCEPT !.perms = u]}
  BY DEF Init
<1> DEFINE signedIn == SetTokens(Empty, For(u), [sub |-> u, id |-> 1])
           signed == [signedIn EXCEPT !.perms = u]
<1>2. /\ signedIn \in Store /\ signedIn.access.act = NoUser /\ signedIn.stashAccess = NoAccess
  <2>1. [sub |-> u, id |-> 1] \in Refreshes /\ For(u) \in Accesses
    BY ForTyped DEF Refreshes, Refresh, Accesses
  <2> QED
    BY <2>1, ForTyped, EmptyTyped, SetTokensTyped
<1> HIDE DEF signedIn
<1>3. signed \in Store /\ GuardedStore(signed)
  BY <1>2, NoAccessIsNone DEF Store, GuardedStore
<1>4. store \in Store /\ GuardedStore(store)
  BY <1>1, <1>3, EmptyTyped, EmptyGuarded DEF signedIn
<1>5. tab \in [Tabs -> TabRecord] /\ (\A t \in Tabs : ~tab[t].open /\ ~tab[t].due)
  BY DEF Init, Closed, TabRecord, Accesses
<1>6. slot \in [Actors -> 0..minted]
  BY <1>1 DEF Init
<1>7. Shape
  BY <1>4, <1>5, <1>6 DEF Init, Shape, Typed, Awaited
<1> QED
  BY <1>4, <1>5, <1>7 DEF Init, IInv, Guarded, ImpersonationNeverRefreshed, PermsFresh, TabsShow

\* IInv is an invariant: nothing the tabs, the server or the network do breaks it.
THEOREM Invariance == Spec => []IInv
BY InitKeeps, StepKeeps, PTL DEF Spec

\* Tokens, tabs and requests keep their types, and whatever closes in between, an
\* answer is awaited by open tabs only.
THEOREM TypeCorrect == Spec => []TypeOK
<1>1. IInv => TypeOK
  BY DEF IInv, Shape, Typed, Awaited, TypeOK, Store, Accesses, Refreshes
<1> QED
  BY <1>1, Invariance, PTL

\* The silent refresh (api-client.ts) never sends an impersonation token with a
\* refresh token, unless an impersonation was begun over another.
THEOREM ImpersonationIsNotRefreshed == Spec => []ImpersonationNeverRefreshed
<1>1. IInv => ImpersonationNeverRefreshed
  BY DEF IInv
<1> QED
  BY <1>1, Invariance, PTL

\* Every tab that has handled its storage events, and rendered, shows the session
\* the store holds, however its handlers and those of the other tabs interleave.
THEOREM TabsConverge == Spec => []TabsAgree
<1>1. IInv => TabsAgree
  BY DEF IInv, TabsShow, Agree, TabsAgree
<1> QED
  BY <1>1, Invariance, PTL

\* Permissions reach the store from a fetch only, and the tab that stores them
\* drops no other tab's request.
LEMMA PermsStored ==
  ASSUME IInv, [Next]_vars, store'.perms \notin {NoUser, store.perms}
  PROVE  \E k \in jobs : /\ k.kind = "perms" /\ store'.perms = k.access.sub
                         /\ \A j \in jobs : j.tab # k.tab => j \in jobs'
<1>1. ASSUME NEW j \in jobs, NEW ok \in BOOLEAN, NEW failed \in BOOLEAN,
             ok => j.stage = "ok", Settle(j, ok, failed)
      PROVE  /\ j.kind = "perms" /\ store'.perms = j.access.sub
             /\ \A i \in jobs : i.tab # j.tab => i \in jobs'
  <2>1. j \in JobRecord /\ Carries(j) /\ j.kind \in Kinds
    BY DEF IInv, Shape, Typed, JobRecord
  <2>2. j.kind # "refresh"
    <3> SUFFICES ASSUME j.kind = "refresh" PROVE FALSE
      OBVIOUS
    <3>1. store' \in {store, Empty} \/ (ok /\ store' = SetTokens(store, For(j.refresh.sub), Fresh(j)))
      BY <1>1 DEF Settle, SettleRefresh, Rebuilt
    <3> QED
      BY <3>1, EmptyTyped, StoreTyped DEF SetTokens, Store
  <2>3. j.kind # "login"
    <3> SUFFICES ASSUME j.kind = "login" PROVE FALSE
      OBVIOUS
    <3>1. store' = store \/ store' = SetTokens(store, For(j.user), [sub |-> j.user, id |-> j.fresh])
      BY <1>1 DEF Settle, SettleLogin, Rebuilt
    <3> QED
      BY <3>1, StoreTyped DEF SetTokens, Store
  <2>4. j.kind # "begin"
    <3> SUFFICES ASSUME j.kind = "begin" PROVE FALSE
      OBVIOUS
    <3>1. \/ store' = store
          \/ store' = BeginImpersonation(store, [sub |-> j.user, act |-> j.access.sub])
      BY <1>1 DEF Settle, SettleBegin, Rebuilt
    <3> QED
      BY <3>1, StoreTyped DEF BeginImpersonation, Store
  <2>5. j.kind # "end"
    <3> SUFFICES ASSUME j.kind = "end" PROVE FALSE
      OBVIOUS
    <3>1. store' \in {RestoreStashedActor(store), Empty,
                      EndImpersonation(store, For(j.access.act), [sub |-> j.access.act, id |-> j.fresh])}
      BY <1>1 DEF Settle, SettleEnd, Rebuilt
    <3> QED
      BY <3>1, EmptyTyped, StoreTyped DEF RestoreStashedActor, EndImpersonation, Store
  <2>6. j.kind = "perms" /\ SettlePerms(j, ok)
    BY <1>1, <2>1, <2>2, <2>3, <2>4, <2>5 DEF Kinds, Settle
  <2>7. store' = [store EXCEPT !.perms = j.access.sub]
        /\ \A i \in jobs : i.tab # j.tab => i \in jobs'
    BY <2>6 DEF SettlePerms, Rebuilt
  <2> QED
    BY <2>6, <2>7, StoreTyped DEF Store
<1>2. ASSUME NEW t \in Tabs,
             \/ Boot(t) \/ CloseTab(t) \/ See(t) \/ Visible(t) \/ Rendered(t) \/ Logout(t)
             \/ Unauthorized(t) \/ Stop(t)
             \/ \E u \in Users : Handoff(t, u) \/ Login(t, u) \/ Begin(t, u)
      PROVE  FALSE
  <2>1. ASSUME NEW u \in Users, Handoff(t, u) PROVE FALSE
    <3>1. store' = BeginImpersonation(store, [sub |-> u, act |-> Root])
      BY <2>1 DEF Handoff, Load
    <3> QED
      BY <3>1, StoreTyped DEF BeginImpersonation, Store
  <2>2. ASSUME NEW u \in Users, Login(t, u) PROVE FALSE
    <3>1. store' = [store EXCEPT !.perms = NoUser]
      BY <2>2 DEF Login, Rebuilt
    <3> QED
      BY <3>1, StoreTyped DEF Store
  <2>3. ASSUME \/ Boot(t) \/ CloseTab(t) \/ See(t) \/ Visible(t) \/ Rendered(t) \/ Logout(t)
               \/ Unauthorized(t) \/ Stop(t)
               \/ \E u \in Users : Begin(t, u)
        PROVE  store' \in {store, Empty}
    BY <2>3 DEF Boot, Load, CloseTab, See, Visible, Rendered, Logout, Unauthorized, Stop, Begin, Rebuilt
  <2> QED
    BY <1>2, <2>1, <2>2, <2>3, EmptyTyped
<1>3. ~Answer /\ ~UNCHANGED vars
  BY DEF Answer, vars
<1>4. ASSUME NEW j \in jobs, Deliver(j) PROVE Settle(j, j.stage = "ok", FALSE)
  BY <1>4 DEF Deliver
<1>5. ASSUME NEW j \in jobs, Fail(j) PROVE Settle(j, FALSE, TRUE)
  BY <1>5 DEF Fail
<1> QED
  BY <1>1, <1>2, <1>3, <1>4, <1>5 DEF Next

\* Permissions that were fetched for one session are not stored beside another by
\* a tab that has taken up the change and rendered: the cleanup of the hydration
\* effect cancels the fetch, and whatever else the tabs, the server and the network
\* do, no fetch outlives it.  (Until the render, it does.)
THEOREM PermissionsAreOfTheSession == Spec => PermissionsOfSession
<1>1. ASSUME IInv, [Next]_vars, NEW j \in jobs,
             j.kind = "perms", j \notin jobs', j.tab \notin unseen, ~tab[j.tab].due,
             store'.perms \notin {NoUser, store.perms}
      PROVE  store'.perms = store.access.sub
  <2>1. PICK k \in jobs : k.kind = "perms" /\ store'.perms = k.access.sub /\ k.tab = j.tab
    BY <1>1, PermsStored
  <2> QED
    BY <1>1, <2>1 DEF IInv, PermsFresh
<1>2. IInv /\ [Next]_vars =>
        [\A j \in jobs : (j.kind = "perms" /\ j \notin jobs' /\ j.tab \notin unseen /\ ~tab[j.tab].due
                          /\ store'.perms \notin {NoUser, store.perms})
              => store'.perms = store.access.sub]_vars
  BY <1>1
<1> QED
  BY <1>2, Invariance, PTL DEF Spec, PermissionsOfSession
-----------------------------------------------------------------------------
(* Why a tab's own refreshes are not refused.  A tab has one refresh of its calls  *)
(* and one of its page load in flight, and calls that meet the latter are early;   *)
(* and until an impersonation begins, a token that was exchanged does not come     *)
(* back: the store takes up new ones, or one that lay unused in the stash.         *)

Refreshing(j) == j.kind = "refresh" /\ j.live
Coming(j) == j.kind \in {"refresh", "login", "end"} /\ j.stage = "ok"

RequestsApart ==
  \A j \in jobs : Refreshing(j) =>
    /\ j.boot => j.early /\ tab[j.tab].booting
    /\ \A k \in jobs : Refreshing(k) /\ k.tab = j.tab =>
         /\ j.boot = k.boot => j = k
         /\ j.boot /\ ~k.boot => k.early

(* A token that no request carries and the store does not hold *)
Unused(n) ==
  /\ rotatedBy[n] = NoTab
  /\ n # store.refresh.id
  /\ \A j \in jobs : j.refresh.id # n

Numbered ==
  /\ minted \in 1..MaxTokens /\ rotatedBy \in [1..MaxTokens -> Tabs \cup {NoTab}]
  /\ \A n \in 1..MaxTokens : n > minted => rotatedBy[n] = NoTab
  /\ store.refresh.id \in 0..minted
  /\ \A j \in jobs : j.refresh.id \in 0..minted /\ j.kind # "begin"

NewTokens ==
  /\ store.stashRefresh.id # 0 => store.stashRefresh.id \in 1..minted /\ Unused(store.stashRefresh.id)
  /\ \A j \in jobs : Coming(j) =>
       /\ j.fresh \in 1..minted /\ Unused(j.fresh) /\ j.fresh # store.stashRefresh.id
       /\ \A k \in jobs : Coming(k) /\ k.fresh = j.fresh => j = k

(* The tab that exchanged the token in the store is about to learn of the new one *)
Learning ==
  store.refresh.id # 0 /\ rotatedBy[store.refresh.id] # NoTab =>
    \E k \in jobs : /\ Refreshing(k) /\ k.stage = "ok"
                    /\ k.tab = rotatedBy[store.refresh.id] /\ k.refresh.id = store.refresh.id

NotRepeated ==
  \A j \in jobs : Refreshing(j) /\ ~j.early /\ j.stage = "sent" => rotatedBy[j.refresh.id] # j.tab

Tokens == Numbered /\ NewTokens /\ Learning /\ NotRepeated

RInv == begun \in Nat /\ RequestsApart /\ (begun = 0 => Tokens)
-----------------------------------------------------------------------------
(* What is no token's answer and exchanges none that could be refused *)
Harmless(j) ==
  /\ ~Coming(j) /\ j.kind # "begin"
  /\ ~(Refreshing(j) /\ ~j.early /\ j.stage = "sent")
  /\ j.refresh.id \in {0, store.refresh.id} \cup {i.refresh.id : i \in jobs}

LEMMA PermsHarmless ==
  ASSUME NEW t, NEW s
  PROVE  Harmless(PermsJob(t, s)) /\ PermsJob(t, s).kind = "perms"
BY DEF PermsJob, Job, Harmless, Coming, Refreshing, NoRefresh

(* What the next store s may hold, with requests js left, ... *)
Takes(s, js) ==
  /\ s.stashRefresh.id \in {0, store.stashRefresh.id}
  /\ \/ s.refresh.id \in {0, store.refresh.id}
     \/ /\ s.refresh.id \in 1..minted /\ rotatedBy[s.refresh.id] = NoTab
        /\ s.refresh.id # s.stashRefresh.id
        /\ \A j \in js : Coming(j) => j.fresh # s.refresh.id

(* ... and the exchanges that may go unlearnt *)
Lowered ==
  /\ minted' = minted /\ rotatedBy' \in [1..MaxTokens -> Tabs \cup {NoTab}]
  /\ \A n \in 1..MaxTokens : rotatedBy'[n] \in {NoTab, rotatedBy[n]}

Learnt(s, js) ==
  \A k \in jobs : Refreshing(k) /\ k.stage = "ok" =>
     k \in js \/ s.refresh.id # k.refresh.id \/ rotatedBy'[k.refresh.id] = NoTab

LEMMA TokensKept ==
  ASSUME IInv, Tokens, Lowered, Takes(store', jobs'), Learnt(store', jobs'),
         \A j \in jobs' : j \in jobs \/ Harmless(j)
  PROVE  Tokens'
<1>1. Numbered'
  BY DEF Tokens, Numbered, Lowered, Takes, Harmless
<1>2. ASSUME NEW n \in 1..minted, Unused(n), n # store'.refresh.id PROVE Unused(n)'
  <2>1. rotatedBy'[n] = NoTab
    BY <1>2, SessionsAssumption DEF Lowered, Unused, Tokens, Numbered
  <2>2. \A j \in jobs' : j.refresh.id # n
    BY <1>2 DEF Unused, Harmless
  <2> QED
    BY <1>2, <2>1, <2>2 DEF Unused
<1>3. NewTokens'
  <2>1. ASSUME store'.stashRefresh.id # 0
        PROVE  store'.stashRefresh.id \in 1..minted /\ Unused(store.stashRefresh.id)'
               /\ store'.stashRefresh.id = store.stashRefresh.id
    <3>1. store'.stashRefresh.id = store.stashRefresh.id /\ store.stashRefresh.id \in 1..minted
          /\ Unused(store.stashRefresh.id)
      BY <2>1 DEF Takes, Tokens, NewTokens
    <3>2. store.stashRefresh.id # store'.refresh.id
      BY <3>1 DEF Takes, Unused
    <3> QED
      BY <1>2, <3>1, <3>2
  <2>2. ASSUME NEW j \in jobs', Coming(j)
        PROVE  /\ j.fresh \in 1..minted /\ Unused(j.fresh)' /\ j.fresh # store'.stashRefresh.id
               /\ \A k \in jobs' : Coming(k) /\ k.fresh = j.fresh => j = k
    <3>1. j \in jobs /\ \A k \in jobs' : Coming(k) => k \in jobs
      BY <2>2 DEF Harmless
    <3>2. /\ j.fresh \in 1..minted /\ Unused(j.fresh) /\ j.fresh # store.stashRefresh.id
          /\ \A k \in jobs : Coming(k) /\ k.fresh = j.fresh => j = k
      BY <2>2, <3>1 DEF Tokens, NewTokens
    <3>3. j.fresh # store'.refresh.id
      BY <2>2, <3>2 DEF Takes, Unused
    <3> QED
      BY <1>2, <3>1, <3>2, <3>3 DEF Takes
  <2> QED
    BY <2>1, <2>2 DEF NewTokens, Lowered, Coming, Unused
<1>4. Learning'
  <2> SUFFICES ASSUME store'.refresh.id # 0, rotatedBy'[store'.refresh.id] # NoTab
               PROVE  \E k \in jobs' : /\ Refreshing(k) /\ k.stage = "ok"
                                       /\ k.tab = rotatedBy'[store'.refresh.id]
                                       /\ k.refresh.id = store'.refresh.id
    BY DEF Learning, Refreshing
  <2>1. store'.refresh.id \in 1..MaxTokens
    BY <1>1, SessionsAssumption DEF Numbered
  <2>2. rotatedBy'[store'.refresh.id] = rotatedBy[store'.refresh.id] /\ store'.refresh.id = store.refresh.id
    BY <2>1 DEF Lowered, Takes
  <2>3. PICK k \in jobs : /\ Refreshing(k) /\ k.stage = "ok"
                          /\ k.tab = rotatedBy[store.refresh.id] /\ k.refresh.id = store.refresh.id
    BY <2>2 DEF Tokens, Learning
  <2> QED
    BY <2>2, <2>3 DEF Learnt
<1>5. NotRepeated'
  <2> SUFFICES ASSUME NEW j \in jobs', Refreshing(j), ~j.early, j.stage = "sent"
               PROVE  rotatedBy'[j.refresh.id] # j.tab
    BY DEF NotRepeated, Refreshing
  <2>1. j \in jobs /\ j.kind = "refresh"
    BY DEF Harmless, Refreshing
  <2>2. j.refresh \in Refresh /\ j.tab \in Tabs
    BY <2>1 DEF IInv, Shape, Typed, Carries, JobRecord
  <2>3. j.refresh.id \in 1..MaxTokens
    BY <2>1, <2>2, SessionsAssumption DEF Refresh, Tokens, Numbered
  <2> QED
    BY <2>1, <2>2, <2>3, SessionsAssumption DEF Lowered, Tokens, NotRepeated
<1> QED
  BY <1>1, <1>3, <1>4, <1>5 DEF Tokens

(* The requests of page loads and of calls, where no refresh is added *)
LEMMA ApartKept ==
  ASSUME RequestsApart,
         \A j \in jobs' : Refreshing(j) => j \in jobs /\ (j.boot => tab'[j.tab].booting)
  PROVE  RequestsApart'
BY DEF RequestsApart, Refreshing

LEMMA RebuiltIs ==
  ASSUME Typed, NEW t \in Tabs, NEW a \in TabRecord, NEW s \in Store, NEW js, Rebuilt(t, a, s, js)
  PROVE  /\ store' = s /\ jobs' = js
         /\ tab'[t].booting = a.booting /\ \A u \in Tabs \ {t} : tab'[u] = tab[u]
<1>1. s.access \in Accesses
  BY DEF Store
<1>2. [a EXCEPT !.next = s.access, !.due = TRUE].booting = a.booting
  BY <1>1 DEF TabRecord
<1> QED
  BY <1>2 DEF Rebuilt, Typed

(* A handler that takes up session s in its own tab, with requests js *)
LEMMA RebuiltRests ==
  ASSUME IInv, RInv, NEW t \in Tabs, NEW a \in TabRecord, NEW s \in Store, NEW js, Rebuilt(t, a, s, js),
         begun' = begun, a.booting = tab[t].booting,
         \A j \in js : j \in jobs \/ (Harmless(j) /\ ~Refreshing(j)),
         begun = 0 => Lowered /\ Takes(s, js) /\ Learnt(s, js)
  PROVE  RInv'
<1>1. /\ store' = s /\ jobs' = js
      /\ tab'[t].booting = a.booting /\ \A u \in Tabs \ {t} : tab'[u] = tab[u]
  BY RebuiltIs DEF IInv, Shape
<1>2. RequestsApart'
  <2>1. ASSUME NEW j \in jobs', Refreshing(j)
        PROVE  j \in jobs /\ (j.boot => tab'[j.tab].booting)
    <3>1. j \in jobs
      BY <1>1, <2>1
    <3>2. j.tab \in Tabs /\ (j.boot => tab[j.tab].booting)
      BY <2>1, <3>1 DEF IInv, Shape, Typed, JobRecord, RInv, RequestsApart
    <3> QED
      BY <1>1, <3>1, <3>2
  <2> QED
    BY <2>1, ApartKept DEF RInv
<1>3. ASSUME begun = 0 PROVE Tokens'
  BY <1>1, <1>3, TokensKept DEF RInv
<1> QED
  BY <1>2, <1>3 DEF RInv

(* A step that leaves the tabs, the store and the exchanges alone *)
LEMMA SendRests ==
  ASSUME IInv, RInv, UNCHANGED <<store, tab, rotatedBy, minted, begun>>, jobs \subseteq jobs',
         \A j \in jobs' : j \in jobs \/ (Harmless(j) /\ ~Refreshing(j))
  PROVE  RInv'
<1>1. RequestsApart'
  BY ApartKept DEF RInv, RequestsApart
<1>2. ASSUME begun = 0 PROVE Tokens'
  <2>1. Lowered /\ Takes(store', jobs') /\ Learnt(store', jobs')
    BY <1>2 DEF RInv, Tokens, Numbered, Lowered, Takes, Learnt, NewTokens
  <2> QED
    BY <1>2, <2>1, TokensKept DEF RInv
<1> QED
  BY <1>1, <1>2 DEF RInv

(* The store and the exchanges stay as they are *)
LEMMA SameTokens ==
  ASSUME RInv, UNCHANGED <<rotatedBy, minted>>, begun = 0,
         NEW s, s.refresh = store.refresh, s.stashRefresh = store.stashRefresh
  PROVE  Lowered /\ \A js : Takes(s, js)
BY DEF RInv, Tokens, Numbered, Lowered, Takes

(* The store is emptied *)
LEMMA NoTokens ==
  ASSUME IInv, RInv, UNCHANGED <<rotatedBy, minted>>, begun = 0
  PROVE  Lowered /\ \A js : Takes(Empty, js) /\ Learnt(Empty, js)
<1>1. Empty.refresh.id = 0 /\ Empty.stashRefresh.id = 0
  BY DEF Empty, NoRefresh
<1>2. \A k \in jobs : Refreshing(k) => k.refresh.id # 0
  BY DEF IInv, Shape, Carries, Refreshing, Refresh
<1>3. Lowered
  BY DEF RInv, Tokens, Numbered, Lowered
<1> QED
  BY <1>1, <1>2, <1>3 DEF Takes, Learnt

-----------------------------------------------------------------------------
(* The steps of a tab *)
LEMMA SeeRests ==
  ASSUME IInv, RInv, NEW t \in Tabs, See(t) \/ Visible(t) \/ Logout(t)
  PROVE  RInv'
<1>1. UNCHANGED <<rotatedBy, minted, begun>> /\ tab[t] \in TabRecord
  BY TabTyped DEF See, Visible, Logout, server, counters
<1>2. CASE See(t) \/ Visible(t)
  <2>1. Rebuilt(t, tab[t], store, jobs)
    BY <1>2 DEF See, Visible
  <2>2. begun = 0 => Lowered /\ Takes(store, jobs) /\ Learnt(store, jobs)
    BY <1>1, SameTokens DEF Learnt
  <2> QED
    BY <1>1, <2>1, <2>2, StoreTyped, RebuiltRests
<1>3. CASE Logout(t)
  <2>1. Rebuilt(t, tab[t], Empty, jobs)
    BY <1>3 DEF Logout
  <2> QED
    BY <1>1, <2>1, NoTokens, EmptyTyped, RebuiltRests
<1> QED
  BY <1>2, <1>3

(* A render ends the page load of its tab only if no refresh of it is out. *)
LEMMA RenderedRests ==
  ASSUME IInv, RInv, NEW t \in Tabs, Rendered(t)
  PROVE  RInv'
<1>1. /\ tab'[t].booting = (tab[t].booting /\ BootingStill(t))
      /\ \A u \in Tabs \ {t} : tab'[u] = tab[u]
      /\ \A j \in jobs' : j \in jobs \ Hydrating(t) \/ j = PermsJob(t, store)
      /\ UNCHANGED <<store, minted, rotatedBy, begun>>
  BY RenderedTyped DEF IInv, Shape
<1>2. Harmless(PermsJob(t, store)) /\ PermsJob(t, store).kind = "perms"
  BY PermsHarmless
<1>3. \A j \in jobs : j.kind # "perms" => j \in jobs'
  BY DEF Rendered, Hydrating
<1>4. RequestsApart'
  <2>1. ASSUME NEW j \in jobs', Refreshing(j)
        PROVE  j \in jobs /\ (j.boot => tab'[j.tab].booting)
    <3>1. j \in jobs
      BY <1>1, <1>2, <2>1 DEF Refreshing
    <3>2. j.tab \in Tabs /\ (j.boot => tab[j.tab].booting)
      BY <2>1, <3>1 DEF IInv, Shape, Typed, JobRecord, RInv, RequestsApart
    <3>3. j.tab = t /\ j.boot => BootingStill(t)
      BY <2>1, <3>1 DEF Refreshing, BootingStill
    <3> QED
      BY <1>1, <3>1, <3>2, <3>3
  <2> QED
    BY <2>1, ApartKept DEF RInv
<1>5. ASSUME begun = 0 PROVE Tokens'
  <2>1. Lowered /\ Takes(store', jobs')
    BY <1>1, <1>5, SameTokens
  <2>2. Learnt(store', jobs')
    BY <1>3 DEF Learnt, Refreshing
  <2>3. \A j \in jobs' : j \in jobs \/ Harmless(j)
    BY <1>1, <1>2
  <2> QED
    BY <1>5, <2>1, <2>2, <2>3, TokensKept DEF RInv
<1> QED
  BY <1>1, <1>4, <1>5 DEF RInv

LEMMA LoginRests ==
  ASSUME IInv, RInv, NEW t \in Tabs, NEW u \in Users, Login(t, u)
  PROVE  RInv'
<1> DEFINE s == [store EXCEPT !.perms = NoUser]
           a == [tab[t] EXCEPT !.hydrated = FALSE]
           j == Job("login", t, u, NoAccess, NoRefresh)
<1>1. UNCHANGED <<rotatedBy, minted, begun>> /\ Rebuilt(t, a, s, jobs \cup {j})
  BY DEF Login, server, counters
<1>2. s \in Store /\ s.refresh = store.refresh /\ s.stashRefresh = store.stashRefresh
  BY StoreTyped DEF Store
<1>3. a \in TabRecord /\ a.booting = tab[t].booting
  BY TabTyped DEF TabRecord
<1>4. Harmless(j) /\ ~Refreshing(j)
  BY DEF Job, Harmless, Coming, Refreshing, NoRefresh
<1> HIDE DEF s, a, j
<1>5. begun = 0 => Lowered /\ Takes(s, jobs \cup {j}) /\ Learnt(s, jobs \cup {j})
  BY <1>1, <1>2, SameTokens DEF Learnt
<1> QED
  BY <1>1, <1>2, <1>3, <1>4, <1>5, RebuiltRests

LEMMA BeginRests ==
  ASSUME IInv, RInv, NEW t \in Tabs, NEW u \in Users, Begin(t, u)
  PROVE  RInv'
<1> DEFINE i == Job("begin", t, u, store.access, NoRefresh)
           j == [i EXCEPT !.stage = IF store.access.act = NoUser THEN "ok" ELSE "refused"]
<1>1. begun' = begun + 1 /\ jobs' = jobs \cup {j} /\ UNCHANGED tab
  BY DEF Begin, Send
<1>2. j.kind = "begin"
  BY DEF Job
<1> HIDE DEF j
<1>3. RequestsApart'
  BY <1>1, <1>2, ApartKept DEF RInv, RequestsApart, Refreshing
<1>4. begun' \in Nat /\ begun' # 0
  BY <1>1 DEF RInv
<1> QED
  BY <1>3, <1>4 DEF RInv

LEMMA StopRests ==
  ASSUME IInv, RInv, NEW t \in Tabs, Stop(t)
  PROVE  RInv'
<1> DEFINE j == Job("end", t, NoUser, store.access, NoRefresh)
           k == [j EXCEPT !.live = FALSE]
<1>1. /\ UNCHANGED <<rotatedBy, minted, begun>>
      /\ \/ Rebuilt(t, tab[t], Empty, jobs \cup {k})
         \/ jobs' = jobs \cup {j} /\ UNCHANGED <<store, tab>>
  BY DEF Stop, Send, server, counters
<1>2. Harmless(j) /\ ~Refreshing(j) /\ Harmless(k) /\ ~Refreshing(k)
  BY DEF Job, Harmless, Coming, Refreshing, NoRefresh
<1> HIDE DEF j, k
<1>3. CASE Rebuilt(t, tab[t], Empty, jobs \cup {k})
  BY <1>1, <1>2, <1>3, NoTokens, EmptyTyped, TabTyped, RebuiltRests
<1>4. CASE jobs' = jobs \cup {j} /\ UNCHANGED <<store, tab>>
  BY <1>1, <1>2, <1>4, SendRests
<1> QED
  BY <1>1, <1>3, <1>4

(* Calls share one refresh; one that meets the refresh of the page load is early *)
LEMMA UnauthorizedRests ==
  ASSUME IInv, RInv, NEW t \in Tabs, Unauthorized(t)
  PROVE  RInv'
<1> DEFINE j == RefreshJob(t, store)
<1>1. /\ UNCHANGED <<store, tab, rotatedBy, minted, begun>> /\ jobs' = jobs \cup {j}
      /\ ~\E k \in jobs : Refreshing(k) /\ k.tab = t /\ ~k.boot
  BY DEF Unauthorized, Send, server, counters, Refreshing
<1>2. /\ j.kind = "refresh" /\ j.tab = t /\ j.refresh = store.refresh /\ j.stage = "sent" /\ j.live
      /\ j.boot = FALSE /\ j.early = tab[t].booting
  BY TabTyped DEF RefreshJob, Job, TabRecord
<1> HIDE DEF j
<1>3. ASSUME NEW k \in jobs, Refreshing(k), k.tab = t PROVE k.boot /\ j.early
  <2>1. k.boot
    BY <1>1, <1>3
  <2> QED
    BY <1>2, <1>3, <2>1 DEF RInv, RequestsApart
<1>4. RequestsApart'
  BY <1>1, <1>2, <1>3 DEF RInv, RequestsApart, Refreshing
<1>5. ASSUME begun = 0 PROVE Tokens'
  <2>1. Tokens /\ ~Coming(j) /\ store.refresh.id \in 0..minted
    BY <1>2, <1>5 DEF RInv, Coming, Tokens, Numbered
  <2>2. Numbered'
    BY <1>1, <1>2, <2>1 DEF Tokens, Numbered
  <2>3. NewTokens'
    BY <1>1, <1>2, <2>1 DEF Tokens, NewTokens, Unused, Coming
  <2>4. Learning'
    BY <1>1, <2>1 DEF Tokens, Learning, Refreshing
  <2>5. ASSUME ~j.early, rotatedBy[store.refresh.id] = t PROVE FALSE
    <3>1. store.refresh.id # 0 /\ t # NoTab
      BY StoreTyped, SessionsAssumption DEF Unauthorized, Refreshes, Refresh
    <3>2. PICK k \in jobs : Refreshing(k) /\ k.tab = t
      BY <2>1, <2>5, <3>1 DEF Tokens, Learning
    <3> QED
      BY <1>3, <2>5, <3>2
  <2>6. NotRepeated'
    BY <1>1, <1>2, <2>1, <2>5 DEF Tokens, NotRepeated, Refreshing
  <2> QED
    BY <2>2, <2>3, <2>4, <2>6 DEF Tokens
<1> QED
  BY <1>1, <1>4, <1>5 DEF RInv

LEMMA LoadIs ==
  ASSUME Typed, NEW t \in Tabs, NEW s \in Store, NEW usable \in BOOLEAN, Load(t, s, usable)
  PROVE  /\ ~tab[t].open /\ store' = s /\ jobs \subseteq jobs'
         /\ \A u \in Tabs \ {t} : tab'[u] = tab[u]
         /\ \A j \in jobs' : \/ j \in jobs
                             \/ j = PermsJob(t, s)
                             \/ j = BootJob(t, s) /\ tab'[t].booting
<1> DEFINE shown == IF usable THEN s.access ELSE NoAccess
           a == [open |-> TRUE, view |-> shown, next |-> shown, due |-> FALSE, last |-> NoUser,
                 hydrated |-> (s.access = NoAccess \/ s.perms # NoUser),
                 booting |-> ~usable /\ s.refresh # NoRefresh]
<1>1. a \in TabRecord
  BY DEF TabRecord, Store, Accesses
<1>2. /\ ~tab[t].open /\ store' = s /\ tab' = [tab EXCEPT ![t] = Effect(a)]
      /\ jobs' = jobs \cup (IF a.booting THEN {BootJob(t, s)} ELSE {})
                      \cup (IF Hydrates(a) THEN {PermsJob(t, s)} ELSE {})
  BY DEF Load, BootJob
<1>3. Effect(a).booting = a.booting
  BY <1>1, EffectTyped
<1> HIDE DEF a, shown
<1>4. tab'[t].booting = a.booting /\ \A u \in Tabs \ {t} : tab'[u] = tab[u]
  BY <1>2, <1>3 DEF Typed
<1> QED
  BY <1>2, <1>4

(* The requests of the tab's last opening are nobody's: the one of the page load *)
(* is the only refresh it has in flight.                                         *)
LEMMA LoadRests ==
  ASSUME IInv, RInv, NEW t \in Tabs, NEW s \in Store, NEW usable \in BOOLEAN, Load(t, s, usable),
         begun' \in Nat, begun' = 0 => begun = 0 /\ s = store /\ UNCHANGED <<rotatedBy, minted>>
  PROVE  RInv'
<1>1. /\ ~tab[t].open /\ store' = s /\ jobs \subseteq jobs'
      /\ \A u \in Tabs \ {t} : tab'[u] = tab[u]
      /\ \A j \in jobs' : \/ j \in jobs
                          \/ j = PermsJob(t, s)
                          \/ j = BootJob(t, s) /\ tab'[t].booting
  BY LoadIs DEF IInv, Shape
<1> DEFINE p == PermsJob(t, s)
           q == BootJob(t, s)
<1>2. Harmless(p) /\ p.kind = "perms"
  BY PermsHarmless
<1>3. /\ q.kind = "refresh" /\ q.tab = t /\ q.refresh = s.refresh /\ q.stage = "sent"
      /\ q.boot = TRUE /\ q.early = TRUE
  BY DEF BootJob, RefreshJob, Job
<1> HIDE DEF p, q
<1>4. ASSUME NEW j \in jobs, Refreshing(j)
      PROVE  j.tab # t /\ (j.boot => tab'[j.tab].booting)
  <2>1. j.tab \in Tabs /\ tab[j.tab].open
    BY <1>4 DEF IInv, Shape, Typed, Awaited, JobRecord, Refreshing
  <2> QED
    BY <1>1, <1>4, <2>1 DEF RInv, RequestsApart
<1>5. RequestsApart'
  <2>1. \A j \in jobs' : Refreshing(j) => j \in jobs \/ (j = q /\ tab'[t].booting)
    BY <1>1, <1>2 DEF Refreshing, p, q
  <2> SUFFICES ASSUME NEW j \in jobs', Refreshing(j)
               PROVE  /\ j.boot => j.early /\ tab'[j.tab].booting
                      /\ \A k \in jobs' : Refreshing(k) /\ k.tab = j.tab =>
                           /\ j.boot = k.boot => j = k
                           /\ j.boot /\ ~k.boot => k.early
    BY DEF RequestsApart, Refreshing
  <2>2. CASE j \in jobs
    BY <1>3, <1>4, <2>1, <2>2 DEF RInv, RequestsApart
  <2>3. CASE j = q /\ tab'[t].booting
    BY <1>3, <1>4, <2>1, <2>3
  <2> QED
    BY <2>1, <2>2, <2>3
<1>6. ASSUME begun' = 0 PROVE Tokens'
  <2>1. begun = 0 /\ s = store /\ UNCHANGED <<rotatedBy, minted>> /\ Tokens
    BY <1>6 DEF RInv
  <2>2. Harmless(q)
    BY <1>3, <2>1 DEF Harmless, Coming, Refreshing
  <2>3. \A j \in jobs' : j \in jobs \/ Harmless(j)
    BY <1>1, <1>2, <2>2 DEF p, q
  <2>4. Lowered /\ Takes(store', jobs') /\ Learnt(store', jobs')
    BY <1>1, <2>1, SameTokens DEF Learnt
  <2> QED
    BY <2>1, <2>3, <2>4, TokensKept
<1> QED
  BY <1>5, <1>6 DEF RInv

LEMMA OpenRests ==
  ASSUME IInv, RInv, NEW t \in Tabs, Boot(t) \/ \E u \in Users : Handoff(t, u)
  PROVE  RInv'
<1>1. CASE Boot(t)
  <2>1. UNCHANGED <<rotatedBy, minted, begun>>
    BY <1>1 DEF Boot, server
  <2>2. PICK usable \in BOOLEAN : Load(t, store, usable)
    BY <1>1 DEF Boot
  <2>3. begun' \in Nat
    BY <2>1 DEF RInv
  <2> QED
    BY <2>1, <2>2, <2>3, StoreTyped, LoadRests
<1>2. ASSUME NEW u \in Users, Handoff(t, u) PROVE RInv'
  <2> DEFINE access == [sub |-> u, act |-> Root]
             s == BeginImpersonation(store, access)
  <2>1. access \in Accesses
    BY DEF Accesses, Access, Actors
  <2>2. s \in Store
    BY <2>1, StoreTyped, BeginTyped
  <2>3. begun' = begun + 1 /\ Load(t, s, TRUE)
    BY <1>2 DEF Handoff
  <2> HIDE DEF s
  <2>4. begun' \in Nat /\ begun' # 0
    BY <2>3 DEF RInv
  <2> QED
    BY <2>2, <2>3, <2>4, LoadRests
<1> QED
  BY <1>1, <1>2

(* A tab that closes learns of no exchange any more *)
LEMMA CloseRests ==
  ASSUME IInv, RInv, NEW t \in Tabs, CloseTab(t)
  PROVE  RInv'
<1>1. /\ UNCHANGED <<store, minted, begun>> /\ \A u \in Tabs \ {t} : tab'[u] = tab[u]
      /\ rotatedBy' = [n \in 1..MaxTokens |->
           IF \E j \in jobs : j.tab = t /\ j.stage = "ok" /\ j.refresh.id = n THEN NoTab ELSE rotatedBy[n]]
      /\ jobs' = {j \in jobs : j.tab # t} \cup
                 {[j EXCEPT !.live = FALSE] :
                     j \in {k \in jobs \ Hydrating(t) : k.tab = t /\ k.stage \in {"sent", "checked"}}}
  BY DEF CloseTab, counters, IInv, Shape, Typed
<1>2. ASSUME NEW j \in jobs'
      PROVE  \/ j \in jobs /\ j.tab # t
             \/ \E k \in jobs : /\ j.kind = k.kind /\ ~j.live /\ j.stage \in {"sent", "checked"}
                                /\ j.refresh = k.refresh
  <2>1. CASE j \in {i \in jobs : i.tab # t}
    BY <2>1
  <2>2. ASSUME NEW k \in jobs, k.stage \in {"sent", "checked"}, j = [k EXCEPT !.live = FALSE]
        PROVE  j.kind = k.kind /\ ~j.live /\ j.stage \in {"sent", "checked"} /\ j.refresh = k.refresh
    <3>1. k \in JobRecord
      BY DEF IInv, Shape, Typed
    <3> QED
      BY <2>2, <3>1 DEF JobRecord
  <2> QED
    BY <1>1, <2>1, <2>2
<1>3. RequestsApart'
  <2>1. ASSUME NEW j \in jobs', Refreshing(j)
        PROVE  j \in jobs /\ (j.boot => tab'[j.tab].booting)
    <3>1. j \in jobs /\ j.tab # t /\ j.tab \in Tabs
      BY <1>2, <2>1 DEF Refreshing, IInv, Shape, Typed, JobRecord
    <3> QED
      BY <1>1, <2>1, <3>1 DEF RInv, RequestsApart
  <2> QED
    BY <2>1, ApartKept DEF RInv
<1>4. ASSUME begun = 0 PROVE Tokens'
  <2>1. Tokens
    BY <1>4 DEF RInv
  <2>2. \A j \in jobs' : j \in jobs \/ Harmless(j)
    <3>1. \A k \in jobs : k.kind # "begin"
      BY <2>1 DEF Tokens, Numbered
    <3> QED
      BY <1>2, <3>1 DEF Harmless, Coming, Refreshing
  <2>3. Lowered
    BY <1>1, <2>1 DEF Lowered, Tokens, Numbered
  <2>4. Takes(store', jobs')
    BY <1>1, <2>1 DEF Takes
  <2>5. ASSUME NEW k \in jobs, Refreshing(k), k.stage = "ok"
        PROVE  k \in jobs' \/ rotatedBy'[k.refresh.id] = NoTab
    <3>1. k.refresh.id \in 1..MaxTokens
      BY <2>1, <2>5, SessionsAssumption DEF IInv, Shape, Carries, Refreshing, Refresh, Tokens, Numbered
    <3> QED
      BY <1>1, <2>5, <3>1
  <2>6. Learnt(store', jobs')
    BY <2>5 DEF Learnt
  <2> QED
    BY <2>1, <2>2, <2>3, <2>4, <2>6, TokensKept
<1> QED
  BY <1>1, <1>3, <1>4 DEF RInv
-----------------------------------------------------------------------------
(* The answers of the server *)

(* A request that is answered stays the tab's one *)
LEMMA MovedApart ==
  ASSUME RequestsApart, NEW j \in jobs, NEW k, Moved(j, k), UNCHANGED tab,
         k.kind = j.kind, k.tab = j.tab, k.live = j.live, k.boot = j.boot, k.early = j.early
  PROVE  RequestsApart'
<1>1. \A i \in jobs' : (i \in jobs /\ i # j) \/ i = k
  BY DEF Moved
<1> QED
  BY <1>1 DEF RequestsApart, Refreshing

LEMMA AnswerIs ==
  ASSUME IInv, NEW j \in jobs, NEW st \in {"checked", "refused"}
  PROVE  LET k == [j EXCEPT !.stage = st]
         IN  /\ k.kind = j.kind /\ k.tab = j.tab /\ k.live = j.live /\ k.boot = j.boot
             /\ k.early = j.early /\ k.refresh = j.refresh /\ k.stage = st
BY DEF IInv, Shape, Typed, JobRecord

LEMMA PassRests ==
  ASSUME IInv, RInv, NEW j \in jobs, NEW st \in {"checked", "refused"},
         j.stage = "sent", Moved(j, [j EXCEPT !.stage = st]),
         UNCHANGED <<store, tab, rotatedBy, minted, begun>>
  PROVE  RInv'
<1> DEFINE k == [j EXCEPT !.stage = st]
<1>1. /\ k.kind = j.kind /\ k.tab = j.tab /\ k.live = j.live /\ k.boot = j.boot
      /\ k.early = j.early /\ k.refresh = j.refresh /\ k.stage = st /\ Moved(j, k)
  BY AnswerIs
<1> HIDE DEF k
<1>2. RequestsApart'
  BY <1>1, MovedApart DEF RInv
<1>3. ASSUME begun = 0 PROVE Tokens'
  <2>1. Tokens /\ j.kind # "begin"
    BY <1>3 DEF RInv, Tokens, Numbered
  <2>2. \A i \in jobs' : i \in jobs \/ Harmless(i)
    BY <1>1, <2>1 DEF Moved, Harmless, Coming, Refreshing
  <2>3. Lowered /\ Takes(store', jobs')
    BY <1>3, SameTokens
  <2>4. Learnt(store', jobs')
    BY <1>1 DEF Learnt, Moved
  <2> QED
    BY <2>1, <2>2, <2>3, <2>4, TokensKept
<1> QED
  BY <1>2, <1>3 DEF RInv

(* The successor of a token is new, and the exchange is noted for a tab that *)
(* has no other refresh with that token but early ones.                      *)
LEMMA MintRests ==
  ASSUME IInv, RInv, NEW j \in jobs, NEW u, Mint(j, u), j.kind \in {"refresh", "login", "end"},
         j.stage \in {"sent", "checked"}, UNCHANGED <<store, tab, begun>>
  PROVE  RInv'
<1> DEFINE k == [j EXCEPT !.stage = "ok", !.fresh = minted + 1]
<1>1. /\ minted < MaxTokens /\ minted' = minted + 1 /\ Moved(j, k)
      /\ rotatedBy' = IF j.kind = "refresh"
                      THEN [rotatedBy EXCEPT ![j.refresh.id] = IF j.live THEN j.tab ELSE NoTab]
                      ELSE rotatedBy
  BY DEF Mint
<1>2. j \in JobRecord /\ Carries(j) /\ minted \in Nat
  BY DEF IInv, Shape, Typed
<1>3. /\ k.kind = j.kind /\ k.tab = j.tab /\ k.live = j.live /\ k.boot = j.boot
      /\ k.early = j.early /\ k.refresh = j.refresh /\ k.stage = "ok" /\ k.fresh = minted + 1
  BY <1>2 DEF JobRecord
<1> HIDE DEF k
<1>4. /\ j \notin jobs' \ {k} /\ jobs \ {j} \subseteq jobs' /\ (j.live => k \in jobs')
      /\ \A i \in jobs' : (i \in jobs /\ i # j) \/ i = k
  BY <1>1, <1>3 DEF Moved
<1>5. RequestsApart'
  BY <1>1, <1>3, MovedApart DEF RInv
<1>6. ASSUME begun = 0 PROVE Tokens'
  <2>1. Tokens /\ ~Coming(j)
    BY <1>6 DEF RInv, Coming
  <2>2. /\ j.kind = "refresh" => j.refresh.id \in 1..minted
        /\ minted + 1 \in 1..MaxTokens /\ j.tab \in Tabs
    BY <1>1, <1>2, <2>1, SessionsAssumption DEF Carries, Refresh, Tokens, Numbered, JobRecord
  <2>3. /\ rotatedBy' \in [1..MaxTokens -> Tabs \cup {NoTab}]
        /\ \A n \in 1..MaxTokens :
             rotatedBy'[n] = IF j.kind = "refresh" /\ n = j.refresh.id
                             THEN IF j.live THEN j.tab ELSE NoTab ELSE rotatedBy[n]
    BY <1>1, <2>1, <2>2 DEF Tokens, Numbered
  <2>4. Numbered'
    BY <1>1, <1>2, <1>3, <1>4, <2>1, <2>2, <2>3 DEF Tokens, Numbered
  <2>5. ASSUME NEW n \in 1..minted, Unused(n) PROVE Unused(n)'
    <3>1. n \in 1..MaxTokens /\ n # j.refresh.id
      BY <1>2, <2>1, <2>5, SessionsAssumption DEF Unused, Tokens, Numbered
    <3>2. rotatedBy'[n] = NoTab
      BY <2>3, <2>5, <3>1 DEF Unused
    <3>3. \A i \in jobs' : i.refresh.id # n
      BY <1>3, <1>4, <2>5 DEF Unused
    <3> QED
      BY <2>5, <3>2, <3>3 DEF Unused
  <2>6. ASSUME NEW n, n = minted + 1 PROVE Unused(n)'
    <3>1. rotatedBy'[minted + 1] = NoTab
      BY <1>2, <2>1, <2>2, <2>3 DEF Tokens, Numbered
    <3>2. store.refresh.id # minted + 1
      BY <1>2, <2>1 DEF Tokens, Numbered
    <3>3. \A i \in jobs : i.refresh.id # minted + 1
      BY <1>2, <2>1 DEF Tokens, Numbered
    <3>4. \A i \in jobs' : i.refresh.id # minted + 1
      BY <1>3, <1>4, <3>3
    <3> QED
      BY <2>6, <3>1, <3>2, <3>4 DEF Unused
  <2>7. NewTokens'
    <3>1. store.stashRefresh.id # 0 => store.stashRefresh.id \in 1..minted' /\ Unused(store.stashRefresh.id)'
      BY <1>1, <1>2, <2>1, <2>5 DEF Tokens, NewTokens
    <3>2. store.stashRefresh.id # minted + 1
      BY <1>2, <2>1 DEF Tokens, NewTokens
    <3>3. \A i \in jobs : Coming(i) => /\ i.fresh \in 1..minted /\ Unused(i.fresh)'
                                       /\ i.fresh # store.stashRefresh.id
      BY <2>1, <2>5 DEF Tokens, NewTokens
    <3>4. ASSUME NEW i \in jobs', Coming(i)
          PROVE  /\ i.fresh \in 1..minted' /\ Unused(i.fresh)' /\ i.fresh # store.stashRefresh.id
                 /\ \A h \in jobs' : Coming(h) /\ h.fresh = i.fresh => i = h
      <4>1. CASE i = k
        <5>1. \A h \in jobs' : Coming(h) /\ h # k => h.fresh # minted + 1
          BY <1>2, <1>4, <3>3
        <5>2. minted + 1 \in 1..minted'
          BY <1>1, <1>2
        <5>3. i.fresh = minted + 1
          BY <1>3, <4>1
        <5>4. Unused(i.fresh)'
          BY <2>6, <5>3
        <5> QED
          BY <3>2, <4>1, <5>1, <5>2, <5>3, <5>4
      <4>2. CASE i \in jobs
        BY <1>1, <1>2, <1>3, <1>4, <2>1, <3>3, <3>4, <4>2 DEF Tokens, NewTokens
      <4> QED
        BY <1>4, <4>1, <4>2
    <3> QED
      BY <3>1, <3>4 DEF NewTokens, Unused, Coming
  <2>8. Learning'
    <3> SUFFICES ASSUME store.refresh.id # 0, rotatedBy'[store.refresh.id] # NoTab
                 PROVE  \E i \in jobs' : /\ Refreshing(i) /\ i.stage = "ok"
                                         /\ i.tab = rotatedBy'[store.refresh.id]
                                         /\ i.refresh.id = store.refresh.id
      BY DEF Learning, Refreshing
    <3>1. store.refresh.id \in 1..MaxTokens
      BY <1>2, <2>1, SessionsAssumption DEF Tokens, Numbered
    <3>2. CASE j.kind = "refresh" /\ store.refresh.id = j.refresh.id
      BY <1>3, <1>4, <2>3, <3>1, <3>2 DEF Refreshing
    <3>3. CASE ~(j.kind = "refresh" /\ store.refresh.id = j.refresh.id)
      <4>1. PICK i \in jobs : /\ Refreshing(i) /\ i.stage = "ok"
                              /\ i.tab = rotatedBy[store.refresh.id] /\ i.refresh.id = store.refresh.id
        BY <2>1, <2>3, <3>1, <3>3 DEF Tokens, Learning
      <4> QED
        BY <1>4, <2>3, <3>1, <3>3, <4>1
    <3> QED
      BY <3>2, <3>3
  <2>9. NotRepeated'
    <3> SUFFICES ASSUME NEW i \in jobs', Refreshing(i), ~i.early, i.stage = "sent"
                 PROVE  rotatedBy'[i.refresh.id] # i.tab
      BY DEF NotRepeated, Refreshing
    <3>1. i \in jobs /\ i # j
      BY <1>3, <1>4
    <3>2. i.refresh \in Refresh /\ i.tab \in Tabs
      BY <3>1 DEF IInv, Shape, Typed, Carries, JobRecord, Refreshing
    <3>3. i.refresh.id \in 1..MaxTokens
      BY <1>2, <2>1, <3>1, <3>2, SessionsAssumption DEF Refresh, Tokens, Numbered
    <3>4. CASE j.kind = "refresh" /\ j.live /\ i.refresh.id = j.refresh.id
      <4>1. ~i.boot
        BY <3>1 DEF RInv, RequestsApart
      <4>2. ASSUME i.tab = j.tab PROVE FALSE
        <5>1. Refreshing(i) /\ Refreshing(j)
          BY <3>4 DEF Refreshing
        <5>2. /\ j.boot = i.boot => j = i
              /\ j.boot /\ ~i.boot => i.early
          BY <3>1, <4>2, <5>1 DEF RInv, RequestsApart
        <5>3. j.boot \in BOOLEAN /\ i.boot \in BOOLEAN
          BY <1>2, <3>1 DEF IInv, Shape, Typed, JobRecord
        <5> QED
          BY <3>1, <4>1, <5>2, <5>3
      <4> QED
        BY <2>3, <3>3, <3>4, <4>2
    <3>5. CASE ~(j.kind = "refresh" /\ j.live /\ i.refresh.id = j.refresh.id)
      BY <2>1, <2>3, <3>1, <3>2, <3>3, <3>5, SessionsAssumption DEF Tokens, NotRepeated
    <3> QED
      BY <3>4, <3>5
  <2> QED
    BY <2>4, <2>7, <2>8, <2>9 DEF Tokens
<1> QED
  BY <1>5, <1>6 DEF RInv

LEMMA AnswerRests ==
  ASSUME IInv, RInv, Answer
  PROVE  RInv'
<1>1. PICK j \in jobs : Check(j) \/ Serve(j) \/ Refuse(j)
  BY DEF Answer
<1>2. UNCHANGED <<store, tab, begun>>
  BY DEF Answer, counters
<1>3. CASE Check(j)
  BY <1>2, <1>3, PassRests DEF Check, server
<1>4. CASE Refuse(j)
  BY <1>2, <1>4, PassRests DEF Refuse, server
<1>5. CASE Serve(j)
  <2>1. j.stage = "checked" => j.kind = "refresh"
    BY DEF IInv, Shape, Carries
  <2> QED
    BY <1>2, <1>5, <2>1, MintRests DEF Serve
<1> QED
  BY <1>1, <1>3, <1>4, <1>5
-----------------------------------------------------------------------------
(* What a tab does with an answer, and what it learns: of its exchange from the  *)
(* answer that brings the new token, and of none when the request failed.        *)
Heard(j, ok) ==
  /\ ok => j.stage = "ok"
  /\ begun = 0 /\ ~ok /\ Refreshing(j) /\ j.stage = "ok" => rotatedBy'[j.refresh.id] = NoTab

LEMMA NewTaken ==
  ASSUME RInv, begun = 0, NEW j \in jobs, Coming(j), NEW s,
         s.refresh.id = j.fresh, s.stashRefresh.id \in {0, store.stashRefresh.id}
  PROVE  Takes(s, jobs \ {j}) /\ Learnt(s, jobs \ {j})
<1>1. /\ j.fresh \in 1..minted /\ Unused(j.fresh) /\ j.fresh # store.stashRefresh.id
      /\ \A k \in jobs : Coming(k) /\ k.fresh = j.fresh => j = k
      /\ minted \in Nat
  BY SessionsAssumption DEF RInv, Tokens, Numbered, NewTokens
<1>2. j.fresh # 0 /\ rotatedBy[j.fresh] = NoTab /\ j.fresh # j.refresh.id
  BY <1>1 DEF Unused
<1>3. Takes(s, jobs \ {j})
  BY <1>1, <1>2 DEF Takes
<1> QED
  BY <1>2, <1>3 DEF Learnt

(* Any other change of the store by the answer to j *)
LEMMA OthersLearn ==
  ASSUME begun = 0, NEW j \in jobs, NEW s, Heard(j, FALSE) \/ ~Refreshing(j)
  PROVE  Learnt(s, jobs \ {j})
BY DEF Heard, Learnt

LEMMA DropRests ==
  ASSUME IInv, RInv, NEW j \in jobs, UNCHANGED <<store, begun>>, jobs' = jobs \ {j},
         \A t \in Tabs : tab'[t].booting = tab[t].booting,
         begun = 0 => Lowered, Heard(j, FALSE) \/ ~Refreshing(j)
  PROVE  RInv'
<1>1. \A i \in jobs' : i \in jobs /\ i.tab \in Tabs
  BY DEF IInv, Shape, Typed, JobRecord
<1>2. RequestsApart'
  BY <1>1, ApartKept DEF RInv, RequestsApart
<1>3. ASSUME begun = 0 PROVE Tokens'
  <2>1. Tokens /\ Lowered /\ store.refresh.id \in 0..minted
    BY <1>3 DEF RInv, Tokens, Numbered
  <2>2. Takes(store', jobs')
    BY DEF Takes
  <2>3. Learnt(store', jobs')
    BY <1>3, OthersLearn
  <2> QED
    BY <1>1, <2>1, <2>2, <2>3, TokensKept
<1> QED
  BY <1>2, <1>3 DEF RInv

LEMMA SettleRefreshRests ==
  ASSUME IInv, RInv, NEW j \in jobs, j.kind = "refresh", j.live, NEW ok \in BOOLEAN, NEW failed \in BOOLEAN,
         SettleRefresh(j, ok, failed), UNCHANGED begun, begun = 0 => Lowered, Heard(j, ok), ~(ok /\ failed)
  PROVE  RInv'
<1> DEFINE s == IF ok THEN SetTokens(store, For(j.refresh.sub), Fresh(j)) ELSE Empty
<1>1. j \in JobRecord /\ Carries(j) /\ j.tab \in Tabs /\ tab[j.tab] \in TabRecord
  BY TabTyped DEF IInv, Shape, Typed, JobRecord
<1>2. CASE failed /\ ~j.boot
  <2>1. jobs' = jobs \ {j} /\ UNCHANGED <<store, tab>>
    BY <1>2 DEF SettleRefresh
  <2> QED
    BY <1>2, <2>1, DropRests
<1>3. CASE ~(failed /\ ~j.boot)
  <2>1. Rebuilt(j.tab, tab[j.tab], s, jobs \ {j})
    BY <1>3 DEF SettleRefresh
  <2>2. ASSUME ok
        PROVE  /\ s \in Store
               /\ s.refresh.id = j.fresh /\ s.stashRefresh = store.stashRefresh /\ Coming(j)
    <3>1. j.stage = "ok" /\ Coming(j)
      BY <2>2 DEF Heard, Coming
    <3>2. j.refresh \in Refresh /\ j.fresh \in Nat \ {0} /\ j.refresh.sub \in Users
      BY <1>1, <3>1 DEF Carries, JobRecord, Refresh
    <3>3. For(j.refresh.sub) \in Accesses /\ Fresh(j) \in Refreshes /\ Fresh(j).id = j.fresh
      BY <3>2, ForTyped DEF Accesses, Refreshes, Refresh, Fresh
    <3>4. s = SetTokens(store, For(j.refresh.sub), Fresh(j))
      BY <2>2
    <3>5. s \in Store /\ s.refresh = Fresh(j) /\ s.stashRefresh = store.stashRefresh
      BY <3>3, <3>4, StoreTyped DEF SetTokens, Store
    <3> QED
      BY <3>1, <3>3, <3>5
  <2>3. s \in Store
    BY <2>2, EmptyTyped
  <2>4. ASSUME begun = 0 PROVE Lowered /\ Takes(s, jobs \ {j}) /\ Learnt(s, jobs \ {j})
    <3>1. CASE ok
      BY <2>2, <2>4, <3>1, NewTaken
    <3>2. CASE ~ok
      <4>1. s = Empty /\ Empty.refresh.id = 0 /\ Empty.stashRefresh.id = 0
        BY <3>2 DEF Empty, NoRefresh
      <4>2. Heard(j, FALSE)
        BY <3>2 DEF Heard
      <4> HIDE DEF s
      <4> QED
        BY <2>4, <4>1, <4>2, OthersLearn DEF Takes
    <3> QED
      BY <3>1, <3>2
  <2> HIDE DEF s
  <2> QED
    BY <1>1, <2>1, <2>3, <2>4, RebuiltRests
<1> QED
  BY <1>2, <1>3

LEMMA SettleLoginRests ==
  ASSUME IInv, RInv, NEW j \in jobs, j.kind = "login", NEW ok \in BOOLEAN,
         SettleLogin(j, ok), UNCHANGED begun, begun = 0 => Lowered, Heard(j, ok)
  PROVE  RInv'
<1> DEFINE s == SetTokens(store, For(j.user), [sub |-> j.user, id |-> j.fresh])
<1>1. j \in JobRecord /\ Carries(j) /\ j.tab \in Tabs /\ tab[j.tab] \in TabRecord /\ ~Refreshing(j)
  BY TabTyped DEF IInv, Shape, Typed, JobRecord, Refreshing
<1>2. CASE ~ok
  <2>1. jobs' = jobs \ {j} /\ UNCHANGED <<store, tab>>
    BY <1>2 DEF SettleLogin
  <2> QED
    BY <1>1, <2>1, DropRests
<1>3. CASE ok
  <2>1. Rebuilt(j.tab, tab[j.tab], s, jobs \ {j})
    BY <1>3 DEF SettleLogin
  <2>2. Coming(j) /\ j.fresh \in Nat \ {0} /\ j.user \in Users
    BY <1>1, <1>3 DEF Heard, Coming, Carries, JobRecord
  <2>3. For(j.user) \in Accesses /\ [sub |-> j.user, id |-> j.fresh] \in Refreshes
    BY <2>2, ForTyped DEF Accesses, Refreshes, Refresh
  <2>4. s \in Store /\ s.refresh = [sub |-> j.user, id |-> j.fresh] /\ s.stashRefresh = store.stashRefresh
    BY <2>3, StoreTyped DEF SetTokens, Store
  <2>5. s.refresh.id = j.fresh
    BY <2>4
  <2> HIDE DEF s
  <2>6. begun = 0 => Takes(s, jobs \ {j}) /\ Learnt(s, jobs \ {j})
    BY <2>2, <2>4, <2>5, NewTaken
  <2> QED
    BY <1>1, <2>1, <2>4, <2>6, RebuiltRests
<1> QED
  BY <1>2, <1>3

LEMMA SettlePermsRests ==
  ASSUME IInv, RInv, NEW j \in jobs, j.kind = "perms", NEW ok \in BOOLEAN,
         SettlePerms(j, ok), UNCHANGED <<begun, minted, rotatedBy>>
  PROVE  RInv'
<1> DEFINE a == [tab[j.tab] EXCEPT !.hydrated = TRUE]
           s == [store EXCEPT !.perms = j.access.sub]
<1>1. j \in JobRecord /\ j.tab \in Tabs /\ tab[j.tab] \in TabRecord /\ ~Refreshing(j)
  BY TabTyped DEF IInv, Shape, Typed, JobRecord, Refreshing
<1>2. a \in TabRecord /\ a.booting = tab[j.tab].booting
  BY <1>1 DEF TabRecord
<1>3. j.access.sub \in Users \cup {NoUser}
  BY <1>1 DEF JobRecord, Accesses, Access, NoAccess
<1>4. s \in Store /\ s.refresh = store.refresh /\ s.stashRefresh = store.stashRefresh
  BY <1>3, StoreTyped DEF Store
<1>5. CASE ok
  <2>1. Rebuilt(j.tab, a, s, jobs \ {j})
    BY <1>5 DEF SettlePerms
  <2> HIDE DEF a, s
  <2>2. begun = 0 => Lowered /\ Takes(s, jobs \ {j}) /\ Learnt(s, jobs \ {j})
    BY <1>1, <1>4, SameTokens, OthersLearn
  <2> QED
    BY <1>1, <1>2, <1>4, <2>1, <2>2, RebuiltRests
<1>6. CASE ~ok
  <2>1. tab' = [tab EXCEPT ![j.tab] = a] /\ jobs' = jobs \ {j} /\ UNCHANGED store
    BY <1>6 DEF SettlePerms
  <2> HIDE DEF a
  <2>2. \A t \in Tabs : tab'[t].booting = tab[t].booting
    BY <1>1, <1>2, <2>1 DEF IInv, Shape, Typed
  <2>3. begun = 0 => Lowered
    BY DEF RInv, Tokens, Numbered, Lowered
  <2> QED
    BY <1>1, <2>1, <2>2, <2>3, DropRests
<1> QED
  BY <1>5, <1>6

(* Impersonations that begin are counted before *)
LEMMA SettleBeginRests ==
  ASSUME IInv, RInv, NEW j \in jobs, j.kind = "begin", NEW ok \in BOOLEAN,
         SettleBegin(j, ok), UNCHANGED begun
  PROVE  RInv'
<1>1. begun # 0 /\ ~Refreshing(j)
  BY DEF RInv, Tokens, Numbered, Refreshing
<1>2. j \in JobRecord /\ Carries(j) /\ j.tab \in Tabs /\ tab[j.tab] \in TabRecord
  BY TabTyped DEF IInv, Shape, Typed, JobRecord
<1>3. CASE ~ok
  <2>1. jobs' = jobs \ {j} /\ UNCHANGED <<store, tab>>
    BY <1>3 DEF SettleBegin
  <2> QED
    BY <1>1, <2>1, DropRests
<1>4. CASE ok
  <2> DEFINE access == [sub |-> j.user, act |-> j.access.sub]
             s == BeginImpersonation(store, access)
  <2>1. Rebuilt(j.tab, tab[j.tab], s, jobs \ {j})
    BY <1>4 DEF SettleBegin
  <2>2. access \in Accesses
    BY <1>2 DEF Carries, Accesses, Access, Actors
  <2>3. s \in Store
    BY <2>2, StoreTyped, BeginTyped
  <2> HIDE DEF s
  <2> QED
    BY <1>1, <1>2, <2>1, <2>3, RebuiltRests
<1> QED
  BY <1>3, <1>4

(* The token that comes back from the stash lay there unused *)
LEMMA RestoredTaken ==
  ASSUME IInv, RInv, begun = 0, UNCHANGED <<rotatedBy, minted>>, NEW js \in SUBSET jobs
  PROVE  Takes(RestoreStashedActor(store), js)
<1> DEFINE s == RestoreStashedActor(store)
<1>1. store \in Store /\ store.stashRefresh \in Refreshes
  BY StoreTyped DEF Store
<1>2. CASE store.stashAccess = NoAccess \/ store.stashRefresh = NoRefresh
  <2>1. s.refresh = store.refresh /\ s.stashRefresh.id \in {0, store.stashRefresh.id}
    BY <1>1, <1>2 DEF RestoreStashedActor, EndImpersonation, Store, NoRefresh
  <2> QED
    BY <2>1 DEF Takes
<1>3. CASE store.stashAccess # NoAccess /\ store.stashRefresh # NoRefresh
  <2>1. s.refresh = store.stashRefresh /\ s.stashRefresh.id = 0
    BY <1>1, <1>3 DEF RestoreStashedActor, EndImpersonation, Store, NoRefresh
  <2>2. store.stashRefresh.id # 0
    BY <1>1, <1>3 DEF Refreshes, Refresh
  <2>3. /\ store.stashRefresh.id \in 1..minted /\ rotatedBy[store.stashRefresh.id] = NoTab
        /\ \A j \in js : Coming(j) => j.fresh # store.stashRefresh.id
    BY <2>2 DEF RInv, Tokens, NewTokens, Unused
  <2> QED
    BY <2>1, <2>2, <2>3 DEF Takes
<1> QED
  BY <1>2, <1>3

LEMMA SettleEndRests ==
  ASSUME IInv, RInv, NEW j \in jobs, j.kind = "end", NEW ok \in BOOLEAN,
         SettleEnd(j, ok), UNCHANGED <<begun, minted, rotatedBy>>, Heard(j, ok)
  PROVE  RInv'
<1> DEFINE actor == j.access.act
           given == [sub |-> actor, id |-> j.fresh]
           s == IF ~ok THEN RestoreStashedActor(store)
                ELSE IF actor = Root THEN Empty
                ELSE EndImpersonation(store, For(actor), given)
<1>1. j \in JobRecord /\ Carries(j) /\ j.tab \in Tabs /\ tab[j.tab] \in TabRecord /\ ~Refreshing(j)
  BY TabTyped DEF IInv, Shape, Typed, JobRecord, Refreshing
<1>2. Rebuilt(j.tab, tab[j.tab], s, jobs \ {j})
  BY DEF SettleEnd
<1>3. begun = 0 => Lowered
  BY DEF RInv, Tokens, Numbered, Lowered
<1>4. s \in Store /\ (begun = 0 => Takes(s, jobs \ {j}))
  <2>1. CASE ~ok
    <3>1. s = RestoreStashedActor(store)
      BY <2>1
    <3> HIDE DEF s
    <3> QED
      BY <3>1, RestoreTyped, StoreTyped, RestoredTaken
  <2>2. CASE ok /\ actor = Root
    <3>1. s = Empty
      BY <2>2
    <3> HIDE DEF s
    <3> QED
      BY <3>1, EmptyTyped, NoTokens
  <2>3. CASE ok /\ actor # Root
    <3>1. actor \in Users /\ j.fresh \in Nat \ {0} /\ Coming(j)
      BY <1>1, <2>3 DEF Carries, JobRecord, Access, Actors, Heard, Coming
    <3>2. given \in Refreshes /\ For(actor) \in Accesses
      BY <3>1, ForTyped DEF Accesses, Refreshes, Refresh
    <3>3. s = EndImpersonation(store, For(actor), given)
      BY <2>3
    <3>4. s \in Store /\ s.refresh = given /\ s.stashRefresh = NoRefresh
      BY <3>2, <3>3, StoreTyped DEF EndImpersonation, Store, Refreshes, Accesses
    <3>5. s.refresh.id = j.fresh /\ s.stashRefresh.id = 0
      BY <3>4 DEF NoRefresh
    <3> HIDE DEF s
    <3> QED
      BY <3>1, <3>4, <3>5, NewTaken
  <2> QED
    BY <2>1, <2>2, <2>3
<1> HIDE DEF s
<1>5. begun = 0 => Learnt(s, jobs \ {j})
  BY <1>1, OthersLearn
<1> QED
  BY <1>1, <1>2, <1>3, <1>4, <1>5, RebuiltRests

LEMMA SettleRests ==
  ASSUME IInv, RInv, NEW j \in jobs, NEW ok \in BOOLEAN, NEW failed \in BOOLEAN, ~(ok /\ failed),
         Settle(j, ok, failed), Heard(j, ok), begun = 0 => Lowered,
         j.kind # "refresh" => UNCHANGED rotatedBy
  PROVE  RInv'
<1>1. j.live /\ UNCHANGED <<minted, begun>>
  BY DEF Settle, counters
<1>2. j.kind \in Kinds
  BY DEF IInv, Shape, Typed, JobRecord
<1>3. CASE j.kind = "refresh"
  BY <1>1, <1>3, SettleRefreshRests DEF Settle
<1>4. CASE j.kind = "login"
  BY <1>1, <1>4, SettleLoginRests DEF Settle
<1>5. CASE j.kind = "perms"
  BY <1>1, <1>5, SettlePermsRests DEF Settle
<1>6. CASE j.kind = "begin"
  BY <1>1, <1>6, SettleBeginRests DEF Settle
<1>7. CASE j.kind = "end"
  BY <1>1, <1>7, SettleEndRests DEF Settle
<1> QED
  BY <1>2, <1>3, <1>4, <1>5, <1>6, <1>7 DEF Kinds

LEMMA DeliverRests ==
  ASSUME IInv, RInv, NEW j \in jobs, Deliver(j)
  PROVE  RInv'
<1>1. /\ (j.stage = "ok") \in BOOLEAN /\ Settle(j, j.stage = "ok", FALSE)
      /\ UNCHANGED <<rotatedBy, minted>>
  BY DEF Deliver, Settle
<1>2. Heard(j, j.stage = "ok")
  BY DEF Heard
<1>3. begun = 0 => Lowered
  BY <1>1 DEF RInv, Tokens, Numbered, Lowered
<1> QED
  BY <1>1, <1>2, <1>3, SettleRests

LEMMA FailRests ==
  ASSUME IInv, RInv, NEW j \in jobs, Fail(j)
  PROVE  RInv'
<1>1. /\ Settle(j, FALSE, TRUE) /\ minted' = minted
      /\ rotatedBy' = IF j.kind = "refresh" THEN [rotatedBy EXCEPT ![j.refresh.id] = NoTab] ELSE rotatedBy
  BY DEF Fail, Settle
<1>2. ASSUME j.kind # "refresh" PROVE RInv'
  <2>1. Heard(j, FALSE) /\ UNCHANGED rotatedBy
    BY <1>1, <1>2 DEF Heard, Refreshing
  <2>2. begun = 0 => Lowered
    BY <1>1, <2>1 DEF RInv, Tokens, Numbered, Lowered
  <2> QED
    BY <1>1, <2>1, <2>2, SettleRests
<1>3. ASSUME j.kind = "refresh", begun = 0 PROVE Lowered /\ rotatedBy'[j.refresh.id] = NoTab
  <2>1. rotatedBy \in [1..MaxTokens -> Tabs \cup {NoTab}] /\ j.refresh.id \in 1..MaxTokens
    BY <1>3, SessionsAssumption DEF RInv, Tokens, Numbered, IInv, Shape, Carries, Refresh
  <2> QED
    BY <1>1, <1>3, <2>1 DEF Lowered
<1>4. ASSUME j.kind = "refresh" PROVE RInv'
  <2>1. Heard(j, FALSE)
    BY <1>3, <1>4 DEF Heard
  <2> QED
    BY <1>1, <1>3, <1>4, <2>1, SettleRests
<1> QED
  BY <1>2, <1>4
-----------------------------------------------------------------------------
LEMMA StepRests ==
  ASSUME IInv, RInv, [Next]_vars
  PROVE  RInv'
<1>1. ASSUME NEW t \in Tabs,
             \/ Boot(t) \/ CloseTab(t) \/ See(t) \/ Visible(t) \/ Rendered(t) \/ Logout(t)
             \/ Unauthorized(t) \/ Stop(t)
             \/ \E u \in Users : Handoff(t, u) \/ Login(t, u) \/ Begin(t, u)
      PROVE  RInv'
  BY <1>1, OpenRests, CloseRests, SeeRests, RenderedRests, UnauthorizedRests, StopRests, LoginRests, BeginRests
<1>2. CASE Answer
  BY <1>2, AnswerRests
<1>3. ASSUME NEW j \in jobs, Deliver(j) \/ Fail(j) PROVE RInv'
  BY <1>3, DeliverRests, FailRests
<1>4. CASE UNCHANGED vars
  BY <1>4 DEF vars, server, counters, RInv, RequestsApart, Tokens, Numbered, NewTokens, Unused,
              Learning, NotRepeated
<1> QED
  BY <1>1, <1>2, <1>3, <1>4 DEF Next

LEMMA InitRests == Init => RInv
<1> SUFFICES ASSUME Init PROVE RInv
  OBVIOUS
<1>1. PICK u \in Users :
        LET signedIn == SetTokens(Empty, For(u), [sub |-> u, id |-> 1])
        IN  store \in {Empty, [signedIn EXCEPT !.perms = u]}
  BY DEF Init
<1>2. jobs = {} /\ minted = 1 /\ begun = 0 /\ rotatedBy = [n \in 1..MaxTokens |-> NoTab]
  BY DEF Init
<1>3. store.refresh.id \in {0, 1} /\ store.stashRefresh.id = 0
  <2> DEFINE given == [sub |-> u, id |-> 1]
             signedIn == SetTokens(Empty, For(u), given)
  <2>1. Empty.refresh.id = 0 /\ Empty.stashRefresh.id = 0 /\ given.id = 1 /\ NoRefresh.id = 0
    BY DEF Empty, NoRefresh
  <2>2. /\ given \in Refreshes /\ given # NoRefresh /\ For(u) \in Accesses
    BY <2>1, ForTyped DEF Refreshes, Refresh, Accesses
  <2>3. signedIn \in Store /\ signedIn.refresh = given /\ signedIn.stashRefresh = Empty.stashRefresh
    BY <2>2, EmptyTyped DEF SetTokens, Store
  <2> HIDE DEF signedIn, given
  <2>4. CASE store = Empty
    BY <2>1, <2>4
  <2>5. CASE store = [signedIn EXCEPT !.perms = u]
    <3>1. store.refresh = given /\ store.stashRefresh = Empty.stashRefresh
      BY <2>3, <2>5 DEF Store
    <3> QED
      BY <2>1, <3>1
  <2> QED
    BY <1>1, <2>4, <2>5 DEF signedIn, given
<1>4. 1 \in 1..MaxTokens /\ \A n \in 1..MaxTokens : rotatedBy[n] = NoTab
  BY <1>2, SessionsAssumption
<1>5. Numbered /\ NewTokens /\ Learning /\ NotRepeated
  BY <1>2, <1>3, <1>4 DEF Numbered, NewTokens, Unused, Learning, NotRepeated
<1> QED
  BY <1>2, <1>5 DEF RInv, Tokens, RequestsApart
-----------------------------------------------------------------------------
(* What a closed tab had sent is never answered to anybody *)
Unanswered == \A j \in jobs : j.live \/ j.stage \in {"sent", "checked"}

LEMMA StepUnanswered ==
  ASSUME IInv, Unanswered, [Next]_vars
  PROVE  Unanswered'
<1>1. ASSUME \A j \in jobs' : j \in jobs \/ j.live \/ j.stage = "sent"
      PROVE  Unanswered'
  BY <1>1 DEF Unanswered
<1>2. ASSUME NEW t, NEW u, NEW kind, NEW access, NEW refresh
      PROVE  /\ Job(kind, t, u, access, refresh).live
             /\ Job(kind, t, u, access, refresh).stage = "sent"
  BY DEF Job
<1>3. \A t, s : PermsJob(t, s).live
  BY DEF PermsJob, Job
<1>4. ASSUME NEW t, NEW a, NEW s, NEW js, Rebuilt(t, a, s, js),
             \A j \in js : j \in jobs \/ j.live \/ j.stage = "sent"
      PROVE  Unanswered'
  BY <1>1, <1>3, <1>4 DEF Rebuilt
<1>5. ASSUME NEW t \in Tabs, NEW s \in Store, NEW usable \in BOOLEAN, Load(t, s, usable) PROVE Unanswered'
  <2>1. BootJob(t, s).live
    BY DEF BootJob, RefreshJob, Job
  <2> QED
    BY <1>1, <1>3, <1>5, <2>1, LoadIs DEF IInv, Shape
<1>6. ASSUME NEW t \in Tabs, Boot(t) PROVE Unanswered'
  BY <1>5, <1>6, StoreTyped DEF Boot
<1>7. ASSUME NEW t \in Tabs, NEW u \in Users, Handoff(t, u) PROVE Unanswered'
  <2>1. [sub |-> u, act |-> Root] \in Accesses
    BY DEF Accesses, Access, Actors
  <2> QED
    BY <1>5, <1>7, <2>1, StoreTyped, BeginTyped DEF Handoff
<1>8. ASSUME NEW t \in Tabs, See(t) \/ Visible(t) \/ Logout(t) PROVE Unanswered'
  BY <1>4, <1>8 DEF See, Visible, Logout
<1>9. ASSUME NEW t \in Tabs, NEW u \in Users, Login(t, u) PROVE Unanswered'
  BY <1>2, <1>4, <1>9 DEF Login
<1>10. ASSUME NEW t \in Tabs, Unauthorized(t) PROVE Unanswered'
  BY <1>1, <1>2, <1>10 DEF Unauthorized, Send, RefreshJob
<1>11. ASSUME NEW t \in Tabs, NEW u \in Users, Begin(t, u) PROVE Unanswered'
  <2> DEFINE i == Job("begin", t, u, store.access, NoRefresh)
             j == [i EXCEPT !.stage = IF store.access.act = NoUser THEN "ok" ELSE "refused"]
  <2>1. jobs' = jobs \cup {j}
    BY <1>11 DEF Begin, Send
  <2>2. j.live
    BY DEF Job
  <2> HIDE DEF j
  <2> QED
    BY <1>1, <2>1, <2>2
<1>12. ASSUME NEW t \in Tabs, Stop(t) PROVE Unanswered'
  <2> DEFINE j == Job("end", t, NoUser, store.access, NoRefresh)
             k == [j EXCEPT !.live = FALSE]
  <2>1. Rebuilt(t, tab[t], Empty, jobs \cup {k}) \/ jobs' = jobs \cup {j}
    BY <1>12 DEF Stop, Send
  <2>2. j.stage = "sent" /\ k.stage = "sent"
    BY DEF Job
  <2> HIDE DEF j, k
  <2> QED
    BY <1>1, <1>4, <2>1, <2>2
<1>13. ASSUME NEW t \in Tabs, CloseTab(t) PROVE Unanswered'
  <2>1. \A j \in jobs : [j EXCEPT !.live = FALSE].stage = j.stage
    BY DEF IInv, Shape, Typed, JobRecord
  <2> QED
    BY <1>13, <2>1 DEF CloseTab, Unanswered
<1>14. CASE Answer
  <2>1. PICK j \in jobs : Check(j) \/ Serve(j) \/ Refuse(j)
    BY <1>14 DEF Answer
  <2>2. ASSUME NEW k, Moved(j, k), k.live = j.live PROVE Unanswered'
    BY <2>2 DEF Moved, Unanswered
  <2>3. j \in JobRecord
    BY DEF IInv, Shape, Typed
  <2>4. \A st \in {"checked", "refused"} : [j EXCEPT !.stage = st].live = j.live
    BY <2>3 DEF JobRecord
  <2>5. [j EXCEPT !.stage = "ok", !.fresh = minted + 1].live = j.live
    BY <2>3 DEF JobRecord
  <2>6. \/ Moved(j, [j EXCEPT !.stage = "checked"])
        \/ Moved(j, [j EXCEPT !.stage = "refused"])
        \/ Moved(j, [j EXCEPT !.stage = "ok", !.fresh = minted + 1])
    BY <2>1 DEF Check, Serve, Refuse, Mint
  <2> QED
    BY <2>2, <2>4, <2>5, <2>6
<1>15. ASSUME NEW j \in jobs, Deliver(j) \/ Fail(j) PROVE Unanswered'
  <2>1. PICK ok \in BOOLEAN, failed \in BOOLEAN : Settle(j, ok, failed)
    BY <1>15 DEF Deliver, Fail
  <2>2. j.kind \in Kinds
    BY DEF IInv, Shape, Typed, JobRecord
  <2>3. jobs' = jobs \ {j} \/ \E t, a, s : Rebuilt(t, a, s, jobs \ {j})
    BY <2>1, <2>2 DEF Settle, SettleRefresh, SettleLogin, SettlePerms, SettleBegin, SettleEnd, Kinds
  <2> QED
    BY <1>1, <1>4, <2>3
<1>16. ASSUME NEW t \in Tabs, Rendered(t) PROVE Unanswered'
  BY <1>1, <1>3, <1>16 DEF Rendered
<1>17. CASE UNCHANGED vars
  BY <1>17 DEF vars, Unanswered
<1> QED
  BY <1>6, <1>7, <1>8, <1>9, <1>10, <1>11, <1>12, <1>13, <1>14, <1>15, <1>16, <1>17 DEF Next

\* Calls of a tab that are answered 401 together, in any order and with any other
\* tab refreshing beside them, never have a refresh of theirs refused because their
\* own tab has exchanged the token already: the one refresh they share, and the
\* store that takes up its answer before the next one is sent, see to that.
THEOREM OwnRefreshesAreAccepted == Spec => OwnRefreshNeverRefused
<1>1. Init => IInv /\ RInv /\ Unanswered
  BY InitKeeps, InitRests DEF Init, Unanswered
<1>2. (IInv /\ RInv /\ Unanswered) /\ [Next]_vars => (IInv /\ RInv /\ Unanswered)'
  BY StepKeeps, StepRests, StepUnanswered
<1>3. ASSUME IInv, RInv, Unanswered, Unanswered'
      PROVE  \A j \in jobs : (Refused(j) /\ j.kind = "refresh" /\ begun = 0 /\ ~j.early)
                => rotatedBy[j.refresh.id] # j.tab
  <2> SUFFICES ASSUME NEW j \in jobs, Refused(j), j.kind = "refresh", begun = 0, ~j.early
               PROVE  rotatedBy[j.refresh.id] # j.tab
    OBVIOUS
  <2>1. j.live
    <3>1. [j EXCEPT !.stage = "refused"] \in jobs'
      BY DEF Refused
    <3>2. j \in JobRecord
      BY <1>3 DEF IInv, Shape, Typed
    <3>3. /\ [j EXCEPT !.stage = "refused"].stage = "refused"
          /\ [j EXCEPT !.stage = "refused"].live = j.live
      BY <3>2 DEF JobRecord
    <3> QED
      BY <1>3, <3>1, <3>3 DEF Unanswered
  <2> QED
    BY <1>3, <2>1 DEF RInv, Tokens, NotRepeated, Refreshing, Refused
<1>4. (IInv /\ RInv /\ Unanswered) /\ (IInv /\ RInv /\ Unanswered)' =>
        [\A j \in jobs : (Refused(j) /\ j.kind = "refresh" /\ begun = 0 /\ ~j.early)
              => rotatedBy[j.refresh.id] # j.tab]_vars
  BY <1>3
<1> QED
  BY <1>1, <1>2, <1>4, PTL DEF Spec, OwnRefreshNeverRefused
-----------------------------------------------------------------------------
(* The realtime connection of a tab: a rebuild for every change of the token *)
(* store above.                                                              *)

Live == {n \in Connections : conn[n] # "None"}

LEMMA LinkCases ==
  ASSUME [LinkNext]_linkVars
  PROVE  \/ Rebuild \/ Unmount \/ Built \/ Waited \/ UNCHANGED linkVars
         \/ \E n \in Connections : Started(n) \/ StartFails(n) \/ Lost(n) \/ Reconnected(n) \/ OnClose(n)
BY DEF LinkNext
-----------------------------------------------------------------------------
(* Types *)
LEMMA TornDownTyped ==
  ASSUME LinkTypeOK, TornDown
  PROVE  /\ conn' \in [Connections -> States] /\ ref' = NoConnection
         /\ \A n \in Connections : conn'[n] # "None" => conn[n] # "None"
BY DEF LinkTypeOK, TornDown, States

\* The references name no connection once the provider is gone, and every variable
\* has its type: by induction over the steps.
THEOREM LinkTypeCorrect == LinkSpec => []LinkTypeOK
<1>1. LinkInit => LinkTypeOK
  BY RealtimeAssumption DEF LinkInit, LinkTypeOK, States, Statuses
<1>2. LinkTypeOK /\ [LinkNext]_linkVars => LinkTypeOK'
  <2> SUFFICES ASSUME LinkTypeOK, [LinkNext]_linkVars PROVE LinkTypeOK'
    OBVIOUS
  <2> USE RealtimeAssumption
  <2>1. CASE Rebuild
    BY <2>1, TornDownTyped DEF LinkTypeOK, Rebuild, Connect, Statuses
  <2>2. CASE Unmount
    BY <2>2, TornDownTyped DEF LinkTypeOK, Unmount, Statuses
  <2>3. CASE Built
    BY <2>3 DEF LinkTypeOK, Built, States
  <2>4. CASE Waited
    BY <2>4 DEF LinkTypeOK, Waited, Connect, Statuses
  <2>5. ASSUME NEW n \in Connections, Started(n) PROVE LinkTypeOK'
    BY <2>5 DEF LinkTypeOK, Started, States, Statuses
  <2>6. ASSUME NEW n \in Connections, StartFails(n) \/ Lost(n) PROVE LinkTypeOK'
    BY <2>6 DEF LinkTypeOK, StartFails, Lost, States, Statuses
  <2>7. ASSUME NEW n \in Connections, Reconnected(n) \/ OnClose(n) PROVE LinkTypeOK'
    BY <2>7 DEF LinkTypeOK, Reconnected, OnClose, States, Statuses
  <2>8. CASE UNCHANGED linkVars
    BY <2>8 DEF LinkTypeOK, linkVars
  <2> QED
    BY <2>1, <2>2, <2>3, <2>4, <2>5, <2>6, <2>7, <2>8, LinkCases
<1> QED
  BY <1>1, <1>2, PTL DEF LinkSpec
-----------------------------------------------------------------------------
\* Whatever is torn down, lost, closed or overtaken by a rebuild takes the status
\* with it: components are told "connected" only while a connection is.
THEOREM StatusIsHonest == LinkSpec => []StatusHonest
<1>1. LinkInit => StatusHonest
  BY DEF LinkInit, StatusHonest
<1>2. LinkTypeOK /\ StatusHonest /\ [LinkNext]_linkVars => StatusHonest'
  <2> SUFFICES ASSUME LinkTypeOK, StatusHonest, [LinkNext]_linkVars, status' = "connected"
               PROVE  \E n \in Connections : conn'[n] = "Connected"
    BY DEF StatusHonest
  <2>1. CASE Rebuild \/ Unmount
    BY <2>1 DEF Rebuild, Unmount, Connect
  <2>2. CASE Built
    \* It takes an instance that is not in use.
    BY <2>2 DEF Built, StatusHonest, LinkTypeOK
  <2>3. CASE Waited
    BY <2>3 DEF Waited, Connect, StatusHonest
  <2>4. ASSUME NEW n \in Connections, Started(n)
        PROVE  \E m \in Connections : conn'[m] = "Connected"
    <3>1. CASE mounted
      BY <2>4, <3>1 DEF Started, LinkTypeOK
    <3>2. CASE ~mounted
      BY <2>4, <3>2 DEF Started, StatusHonest, LinkTypeOK
    <3> QED
      BY <3>1, <3>2
  <2>5. ASSUME NEW n \in Connections, StartFails(n) \/ Lost(n)
        PROVE  FALSE
    BY <2>5 DEF StartFails, Lost
  <2>6. ASSUME NEW n \in Connections, Reconnected(n)
        PROVE  \E m \in Connections : conn'[m] = "Connected"
    BY <2>6 DEF Reconnected, LinkTypeOK
  <2>7. ASSUME NEW n \in Connections, OnClose(n)
        PROVE  \E m \in Connections : conn'[m] = "Connected"
    BY <2>7 DEF OnClose, StatusHonest, LinkTypeOK
  <2>8. CASE UNCHANGED linkVars
    BY <2>8 DEF StatusHonest, linkVars
  <2> QED
    BY <2>1, <2>2, <2>3, <2>4, <2>5, <2>6, <2>7, <2>8, LinkCases
<1> QED
  BY <1>1, <1>2, LinkTypeCorrect, PTL DEF LinkSpec
-----------------------------------------------------------------------------
(* Counting the connections *)
LEMMA LiveCounted ==
  ASSUME LinkTypeOK
  PROVE  IsFiniteSet(Live) /\ Cardinality(Live) \in Nat
BY RealtimeAssumption, FS_Subset, FS_CardinalityType DEF Live

LEMMA LiveStays ==
  ASSUME LinkTypeOK, NEW n \in Connections, NEW s \in States \ {"None"}, conn[n] # "None",
         conn' = [conn EXCEPT ![n] = s]
  PROVE  Live' = Live
BY DEF LinkTypeOK, Live

LEMMA LiveGrows ==
  ASSUME LinkTypeOK, NEW n \in Connections, conn[n] = "None", conn' = [conn EXCEPT ![n] = "Connecting"]
  PROVE  Cardinality(Live') = Cardinality(Live) + 1
<1>1. Live' = Live \cup {n} /\ n \notin Live
  BY DEF LinkTypeOK, Live
<1> QED
  BY <1>1, LiveCounted, FS_AddElement

LEMMA LiveShrinks ==
  ASSUME LinkTypeOK, NEW n \in Connections, conn[n] # "None", conn' = [conn EXCEPT ![n] = "None"]
  PROVE  Cardinality(Live') = Cardinality(Live) - 1
<1>1. Live' = Live \ {n} /\ n \in Live
  BY DEF LinkTypeOK, Live
<1> QED
  BY <1>1, LiveCounted, FS_RemoveElement

Budget == Cardinality(Live) + building + waiting <= rebuilds + 1

\* Connections, attempts to build one and delays to run are never more than one,
\* and one for every rebuild: each step pays for what it starts.
THEOREM RebuildsBound == LinkSpec => []OnePerRebuild
<1>1. LinkInit => Budget
  <2> SUFFICES ASSUME LinkInit PROVE Budget
    OBVIOUS
  <2>1. Cardinality(Live) = 0
    BY FS_EmptySet DEF LinkInit, Live
  <2> QED
    BY <2>1 DEF LinkInit, Budget
<1>2. LinkTypeOK /\ LinkTypeOK' /\ Budget /\ [LinkNext]_linkVars => Budget'
  <2> SUFFICES ASSUME LinkTypeOK, LinkTypeOK', Budget, [LinkNext]_linkVars PROVE Budget'
    OBVIOUS
  <2> USE DEF Budget
  <2>0. /\ Cardinality(Live) \in Nat /\ building \in Nat /\ waiting \in Nat /\ rebuilds \in Nat
        /\ MaxRebuilds \in Nat
    BY LiveCounted, RealtimeAssumption DEF LinkTypeOK
  <2>1. TornDown => Cardinality(Live') <= Cardinality(Live) /\ Cardinality(Live') \in Nat
    <3> SUFFICES ASSUME TornDown
                 PROVE  Cardinality(Live') <= Cardinality(Live) /\ Cardinality(Live') \in Nat
      OBVIOUS
    <3>1. Live' \in SUBSET Live
      BY TornDownTyped DEF Live
    <3> QED
      BY <3>1, LiveCounted, FS_Subset, FS_CardinalityType
  <2>2. CASE Rebuild
    BY <2>0, <2>1, <2>2 DEF Rebuild, Connect
  <2>3. CASE Unmount
    BY <2>0, <2>1, <2>3 DEF Unmount
  <2>4. CASE Built
    <3>1. CASE mounted
      <4>1. PICK n \in Connections : conn[n] = "None" /\ conn' = [conn EXCEPT ![n] = "Connecting"]
        BY <2>4, <3>1 DEF Built
      <4>2. Cardinality(Live') = Cardinality(Live) + 1
        BY <4>1, LiveGrows
      <4> QED
        BY <4>2, <2>0, <2>4 DEF Built
    <3>2. CASE ~mounted
      <4>1. Live' = Live
        BY <2>4, <3>2 DEF Built, Live
      <4> QED
        BY <4>1, <2>0, <2>4 DEF Built
    <3> QED
      BY <3>1, <3>2
  <2>5. CASE Waited
    <3>1. Live' = Live
      BY <2>5 DEF Waited, Live
    <3> QED
      BY <3>1, <2>0, <2>5 DEF Waited, Connect
  <2>6. ASSUME NEW n \in Connections, Started(n) \/ Lost(n) \/ Reconnected(n) PROVE Budget'
    <3>1. Live' = Live
      BY <2>6, LiveStays DEF Started, Lost, Reconnected, States
    <3> QED
      BY <3>1, <2>0, <2>6 DEF Started, Lost, Reconnected
  <2>7. ASSUME NEW n \in Connections, StartFails(n) \/ OnClose(n) PROVE Budget'
    <3>1. Cardinality(Live') = Cardinality(Live) - 1
      BY <2>7, LiveShrinks DEF StartFails, OnClose
    <3> QED
      BY <3>1, <2>0, <2>7 DEF StartFails, OnClose
  <2>8. CASE UNCHANGED linkVars
    BY <2>8 DEF linkVars, Live
  <2> QED
    BY <2>2, <2>3, <2>4, <2>5, <2>6, <2>7, <2>8, LinkCases
<1>3. Budget => OnePerRebuild
  BY DEF Budget, OnePerRebuild, Live
<1> QED
  BY <1>1, <1>2, <1>3, LinkTypeCorrect, PTL DEF LinkSpec
=============================================================================
