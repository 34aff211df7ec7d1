------------------------------ MODULE ChatFeed ------------------------------
(***************************************************************************)
(* The message feed of the dashboard's chat: a page of messages per channel *)
(* in the query cache, patched by the hub's events and by the composer's    *)
(* optimistic sends, refetched, extended by older pages; the replies of a   *)
(* thread in an entry of their own; the read watermark that follows.        *)
(* An event, a fetch, an older page and the answer of a send come back in   *)
(* any order, to whatever channel is shown by then.                         *)
(***************************************************************************)
EXTENDS Integers, Sequences, FiniteSets, SequencesExt

CONSTANTS
    Channels,
    Start,        \* the messages there are at first: a sequence of channels
    First,        \* the channel shown at first
    Threads,      \* messages others may reply to
    FirstPage,    \* messages a fetch returns
    OlderPage,    \* messages an older page holds
    MaxMessages,  \* bound on messages posted
    MaxSends,     \* bound on messages the composer sends
    MaxUpsets     \* bound on the rest: changes of the channel, reactions and deletions,
                  \* events repeated, connections lost, requests that fail

ASSUME ChatFeedAssumption ==
    /\ Start \in Seq(Channels) /\ First \in Channels /\ Threads \subseteq DOMAIN Start
    /\ FirstPage \in Nat \ {0} /\ OlderPage \in Nat \ {0}
    /\ MaxMessages \in Nat /\ MaxSends \in Nat /\ MaxUpsets \in Nat

VARIABLES
    posted,     \* the messages on the server, by id
    inbox,      \* events on their way over the hub connection
    cur,        \* the channel of the route
    mounted,    \* its feed and composer are mounted (its details are loaded)
    cache,      \* cache[c]: the messages of channel c, newest first; temps are negative
                \* (upto, for the properties: the newest message of the last answer, or 0)
    fetch,      \* fetch[c]: the request for them
    replies,    \* replies[p]: the cache entry of thread p
    older,      \* requests for older pages
    loadingOlder, hasMore,  \* the feed's two flags
    sends,      \* sends[k]: the composer's k-th mutation
    composing,  \* the one the composer observes, or 0
    reads,      \* reads[c]: the watermark last sent for channel c
    \* What happened so far, for the properties:
    known,      \* messages the feed of their channel has held; replies it was told of
    overtaken,  \* messages a fetch older than their event took away again
    strayed,    \* the channel was changed under a pending send
    torn,       \* an older page came back to a feed that had been refetched
    lagged,     \* a message came in that the feed had been refetched past
    crowded,    \* a message was sent into a feed with the temp of another
    cut,        \* a full page came to a feed that asked for no more, or it was told so
                \* by another channel's last page
    upsets

server == <<posted, inbox>>
route == <<cur, mounted>>
paging == <<older, loadingOlder>>
composer == <<sends, composing>>
vars == <<posted, inbox, cur, mounted, cache, fetch, replies, older, loadingOlder,
          hasMore, sends, composing, reads, known, overtaken, strayed, torn, lagged, crowded,
          cut, upsets>>

Upset == upsets < MaxUpsets /\ upsets' = upsets + 1

-----------------------------------------------------------------------------
(* The server (external). *)

Message(c, k, p) == [ch |-> c, send |-> k, parent |-> p]
TopLevel(c) == {i \in DOMAIN posted : posted[i].ch = c /\ posted[i].parent = 0}
RepliesTo(p) == {i \in DOMAIN posted : posted[i].parent = p}

\* The numbers of a finite set in ascending order, each placed by how many are not
\* above it: what provers can follow, and a sort cannot be.
Ascending(S) == [n \in 1..Cardinality(S) |-> CHOOSE x \in S : Cardinality({y \in S : y <= x}) = n]
Newest(S, n) ==
    LET s == Ascending(S)
    IN  [i \in 1..(IF n < Len(s) THEN n ELSE Len(s)) |-> s[Len(s) + 1 - i]]

Broadcast(e) == inbox' = Append(inbox, e)
Store(m) ==
    /\ Len(posted) < MaxMessages
    /\ posted' = Append(posted, m)
    /\ Broadcast([kind |-> "created", id |-> Len(posted) + 1, ch |-> m.ch])

-----------------------------------------------------------------------------
(* @tanstack/react-query (external), and what a render of the feed runs. *)

NoFetch == [at |-> "idle", list |-> <<>>, threaded |-> {}]
Out == [NoFetch EXCEPT !.at = "out"]
NoReplies == [loaded |-> FALSE, invalid |-> FALSE, list |-> <<>>, fetch |-> "idle", got |-> <<>>]

\* A new observer refetches (staleTime is 0) unless a fetch is in flight.
Mounting(f) == IF f.at = "idle" THEN Out ELSE f
\* invalidateQueries cancels a refetch and starts over; it joins a first load.
Invalidated(c) == IF fetch[c].at = "idle" \/ cache[c].loaded THEN Out ELSE fetch[c]

\* Every parent with replies has its thread fetched.
Observed(m, c, new) == {p \in Threads : m /\ p \in new[c].threaded /\ p \in Range(new[c].list)}
ObservedNow == Observed(mounted, cur, cache)

Subscribed(r, aged) ==
    IF r.fetch = "idle" /\ (~r.loaded \/ r.invalid \/ aged) THEN [r EXCEPT !.fetch = "out"] ELSE r

Latest(list) == IF list = <<>> THEN 0 ELSE list[1]
\* Faulty: a temp is marked read
MarkedTemp(c, list) == Latest(list)
\* The latest message is marked read, unless it is a temp.
MarkedRead(c, list) == IF Latest(list) > 0 THEN Latest(list) ELSE reads[c]

Same(x, y) == x.loaded = y.loaded /\ x.list = y.list /\ x.threaded = y.threaded

\* The caches are now new and rep, the feed shows channel c (m: mounted, more: its
\* flag, told: replies an event told of): the effects run.  A short page means there
\* is nothing older; a change of channel resets that.
Rendered(c, m, new, rep, more, told) ==
    LET list == new[c].list
        fresh == c # cur \/ (m /\ ~mounted)
    IN  /\ cur' = c /\ mounted' = m /\ cache' = new
        /\ hasMore' = (fresh \/ (more /\ (Same(new[c], cache[c]) \/ ~m \/ Len(list) >= FirstPage)))
        /\ reads' = IF c # cur \/ Latest(list) # Latest(cache[c].list)
                    THEN [reads EXCEPT ![c] = MarkedRead(c, list)] ELSE reads
        /\ \E aged \in BOOLEAN :
              replies' = [p \in Threads |-> IF p \in Observed(m, c, new) \ ObservedNow
                                            THEN Subscribed(rep[p], aged) ELSE rep[p]]
        /\ known' = known \cup told \cup UNION {Range(new[d].list) \cap TopLevel(d) : d \in Channels}

\* setQueryData of one channel's messages.
Patched(c, list) == [cache EXCEPT ![c].loaded = TRUE, ![c].list = list]
Shows(new) == Rendered(cur, mounted, new, replies, hasMore, {})
\* Message id, put first, is older than all there is of its channel.
PutLast(c, id) ==
    LET old == Range(cache[c].list) \cap TopLevel(c)
    IN  id \in TopLevel(c) /\ old # {} /\ \A j \in old : id < j
Grows(c, list) == Shows(Patched(c, list))

FetchAnswer(c) ==
    /\ fetch[c].at = "out"
    /\ fetch' = [fetch EXCEPT ![c] = [at |-> "back", list |-> Newest(TopLevel(c), FirstPage),
                                     threaded |-> {p \in Threads : RepliesTo(p) # {}}]]
    /\ UNCHANGED <<server, route, cache, replies, paging, hasMore, composer, reads,
                   known, overtaken, strayed, torn, lagged, crowded, cut, upsets>>

\* What it brings replaces the page, temps and newer messages included.
FetchSettle(c) ==
    LET f == fetch[c]
        lost == {i \in Range(cache[c].list) \cap TopLevel(c) :
                    i \notin Range(f.list) /\ \A j \in Range(f.list) : i > j}
    IN  /\ f.at = "back"
        /\ fetch' = [fetch EXCEPT ![c] = NoFetch]
        /\ Shows([cache EXCEPT ![c] = [loaded |-> TRUE, upto |-> Latest(f.list), list |-> f.list, threaded |-> f.threaded]])
        /\ overtaken' = (overtaken \cup lost) \ Range(f.list)
        /\ cut' = (cut \/ (c = cur /\ ~hasMore /\ Len(f.list) >= FirstPage))
        /\ UNCHANGED <<server, paging, composer, strayed, torn, lagged, crowded, upsets>>

FetchFail(c) ==
    /\ fetch[c].at = "out" /\ Upset
    /\ fetch' = [fetch EXCEPT ![c] = NoFetch]
    /\ UNCHANGED <<server, route, cache, replies, paging, hasMore, composer, reads,
                   known, overtaken, strayed, torn, lagged, crowded, cut>>

RepliesChange(p, r) ==
    /\ replies' = [replies EXCEPT ![p] = r]
    /\ UNCHANGED <<server, route, cache, fetch, paging, hasMore, composer, reads,
                   known, strayed, torn, lagged, crowded, cut>>
RepliesAnswer(p) ==
    /\ replies[p].fetch = "out"
    /\ RepliesChange(p, [replies[p] EXCEPT !.fetch = "back", !.got = Ascending(RepliesTo(p))])
    /\ UNCHANGED <<overtaken, upsets>>
RepliesSettle(p) ==
    LET r == replies[p]
    IN  /\ r.fetch = "back"
        /\ RepliesChange(p, [NoReplies EXCEPT !.loaded = TRUE, !.list = r.got])
        /\ overtaken' = (overtaken \cup (known \cap RepliesTo(p))) \ Range(r.got)
        /\ UNCHANGED upsets
RepliesFail(p) ==
    /\ replies[p].fetch = "out" /\ Upset
    /\ RepliesChange(p, [replies[p] EXCEPT !.fetch = "idle"])
    /\ UNCHANGED overtaken

-----------------------------------------------------------------------------
(* The hub's events: handled by a mounted feed, for the channel it shows. *)

Without(list, S) ==
    LET kept == Ascending({i \in DOMAIN list : list[i] \notin S})
    IN  [n \in DOMAIN kept |-> list[kept[n]]]

\* The echo of an own message replaces a temp of the same text and parent: its own
\* if that comes first, or another one that says the same.
TempsLike(m, list) ==
    {i \in DOMAIN list : m.send # 0 /\ list[i] < 0 /\ sends[-list[i]].parent = m.parent}
EchoOf(m, list) ==
    LET own == {i \in TempsLike(m, list) : -list[i] = m.send}
    IN  IF own = {} THEN TempsLike(m, list) \cup {0}
        ELSE {i \in TempsLike(m, list) : \A j \in own : i <= j}

\* Faulty: a message that is there already is put first again
CreatedTwice(id, i) ==
    IF ~cache[cur].loaded THEN <<id>>
    ELSE IF i # 0 THEN [cache[cur].list EXCEPT ![i] = id] ELSE <<id>> \o cache[cur].list

\* A new message at the top level: known already, echoed, or put first.
Created(id, i) ==
    LET list == cache[cur].list
    IN  IF ~cache[cur].loaded THEN <<id>>
        ELSE IF id \in Range(list) THEN list
        ELSE IF i # 0 THEN [list EXCEPT ![i] = id] ELSE <<id>> \o list

\* Faulty: a loaded thread is left as it is
ReplyCounted(id, p, i) ==
    LET list == IF i = 0 THEN cache[cur].list ELSE RemoveAt(cache[cur].list, i)
    IN  /\ Rendered(cur, TRUE,
                    IF ~cache[cur].loaded THEN cache
                    ELSE [cache EXCEPT ![cur].list = list,
                                       ![cur].threaded = IF p \in Range(list) THEN @ \cup {p} ELSE @],
                    replies, hasMore, {id})

\* A reply drops its temp, marks its parent as having replies, and is appended to
\* the thread if that is loaded.
ReplyCreated(id, p, i) ==
    LET c == cache[cur]
        list == IF i = 0 THEN c.list ELSE RemoveAt(c.list, i)
        r == replies[p]
        new == IF ~c.loaded THEN cache
               ELSE [cache EXCEPT ![cur].list = list,
                                  ![cur].threaded = IF p \in Range(list) THEN @ \cup {p} ELSE @]
        thread == IF r.loaded /\ id \notin Range(r.list) THEN [r EXCEPT !.list = Append(@, id)] ELSE r
    IN  Rendered(cur, TRUE, new, [replies EXCEPT ![p] = thread], hasMore, {id})

MessageCreated(id) ==
    LET m == posted[id]
    IN  /\ \E i \in EchoOf(m, cache[cur].list) :
              IF m.parent = 0 THEN Grows(cur, Created(id, i))
              ELSE ReplyCreated(id, m.parent, i)
        /\ lagged' = (lagged \/ PutLast(cur, id))
        /\ UNCHANGED <<fetch, cut>>

\* A deletion or a reaction: the messages and every thread are fetched again.
Touched ==
    /\ fetch' = [fetch EXCEPT ![cur] = Invalidated(cur)]
    /\ replies' = [p \in Threads |->
          LET r == [replies[p] EXCEPT !.invalid = TRUE]
          IN  IF p \in ObservedNow /\ (r.fetch = "idle" \/ r.loaded) THEN [r EXCEPT !.fetch = "out", !.got = <<>>]
              ELSE r]
    /\ UNCHANGED <<cur, mounted, cache, hasMore, reads, known, cut, lagged>>

\* A connection that was rebuilt may deliver an event a second time.
Receive(again) ==
    /\ inbox # <<>>
    /\ IF again THEN Upset /\ UNCHANGED inbox ELSE inbox' = Tail(inbox) /\ UNCHANGED upsets
    /\ LET e == Head(inbox)
       IN  \/ /\ ~mounted \/ e.ch # cur
              /\ UNCHANGED <<cur, mounted, cache, fetch, replies, hasMore, reads, known, cut, lagged>>
           \/ mounted /\ e.ch = cur /\ e.kind = "created" /\ MessageCreated(e.id)
           \/ mounted /\ e.ch = cur /\ e.kind = "touched" /\ Touched
    /\ UNCHANGED <<posted, paging, composer, overtaken, strayed, torn, crowded>>

\* The connection is lost with what was on its way or would have been; nothing is
\* fetched again when it comes back.
LinkLost ==
    /\ inbox # <<>> /\ Upset
    /\ inbox' = <<>>
    /\ UNCHANGED <<posted, route, cache, fetch, replies, paging, hasMore, composer, reads,
                   known, overtaken, strayed, torn, lagged, crowded, cut>>

-----------------------------------------------------------------------------
(* The user: the channel, the composer, scrolling up. *)

\* With the channel's details in the cache the feed and the composer stay mounted,
\* and a pending mutation takes over the callbacks of the new channel.
Switch(c, cached) ==
    LET kept == mounted /\ cached
        moves == kept /\ composing # 0
    IN  /\ c # cur /\ Upset
        /\ fetch' = [fetch EXCEPT ![c] = Mounting(@)]
        /\ Rendered(c, cached, cache, replies, TRUE, {})
        /\ loadingOlder' = FALSE /\ cut' = FALSE
        /\ older' = IF kept THEN older ELSE {[r EXCEPT !.live = FALSE] : r \in older}
        /\ sends' = IF moves THEN [sends EXCEPT ![composing].key = c] ELSE sends
        /\ composing' = IF kept THEN composing ELSE 0
        /\ strayed' = (strayed \/ moves)
        /\ UNCHANGED <<server, overtaken, torn, lagged, crowded>>

Mount ==
    /\ ~mounted
    /\ fetch' = [fetch EXCEPT ![cur] = Mounting(@)]
    /\ Rendered(cur, TRUE, cache, replies, TRUE, {}) /\ cut' = FALSE
    /\ UNCHANGED <<server, paging, composer, overtaken, strayed, torn, lagged, crowded, upsets>>

Send(p) ==
    LET k == CHOOSE k \in DOMAIN sends : sends[k].at = "unsent" /\ \A j \in 1..(k - 1) : sends[j].at # "unsent"
    IN  /\ mounted /\ composing = 0
        /\ \E j \in DOMAIN sends : sends[j].at = "unsent"
        /\ p \in {0} \cup (Threads \cap Range(cache[cur].list))
        /\ sends' = [sends EXCEPT ![k] = [at |-> "out", ch |-> cur, parent |-> p, key |-> cur]]
        /\ composing' = k
        /\ Grows(cur, <<-k>> \o cache[cur].list)
        /\ crowded' = (crowded \/ \E i \in Range(cache[cur].list) : i < 0)
        /\ UNCHANGED <<server, fetch, paging, overtaken, strayed, torn, lagged, cut, upsets>>

\* The message the k-th send was stored as.
Stored(k) == CHOOSE i \in DOMAIN posted : posted[i].send = k

\* Faulty: onError leaves the temp
AfterSendKeepsTemp(k) ==
    LET list == cache[sends[k].key].list
    IN  IF sends[k].at = "failed" THEN list
        ELSE IF Stored(k) \in Range(list) THEN Without(list, {-k}) ELSE <<Stored(k)>> \o Without(list, {-k})

\* Faulty: the message takes the place of the one on top
AfterSendOnTop(k) ==
    LET rest == Without(cache[sends[k].key].list, {-k})
    IN  IF sends[k].at = "failed" \/ Stored(k) \in Range(rest) THEN rest
        ELSE <<Stored(k)>> \o (IF rest = <<>> THEN rest ELSE Tail(rest))

\* onSuccess puts the message first unless it is there, a reply's too; onError only
\* drops the temp.
AfterSend(k) ==
    LET rest == Without(cache[sends[k].key].list, {-k})
    IN  IF sends[k].at = "failed" \/ Stored(k) \in Range(rest) THEN rest ELSE <<Stored(k)>> \o rest

SendSettle(k) ==
    LET c == sends[k].key
    IN  /\ sends[k].at \in {"posted", "failed"}
        /\ sends' = [sends EXCEPT ![k].at = "settled"]
        /\ composing' = IF composing = k THEN 0 ELSE composing
        /\ IF sends[k].at = "posted"
           THEN Grows(c, AfterSend(k)) /\ lagged' = (lagged \/ PutLast(c, Stored(k)))
           ELSE Shows([cache EXCEPT ![c].list = AfterSend(k)]) /\ UNCHANGED lagged
        /\ UNCHANGED <<server, fetch, paging, overtaken, strayed, torn, crowded, cut, upsets>>

ScrollUp ==
    LET list == cache[cur].list
    IN  /\ mounted /\ hasMore /\ ~loadingOlder /\ list # <<>>
        /\ loadingOlder' = TRUE
        /\ older' = older \cup {[ch |-> cur, before |-> Last(list), live |-> TRUE]}
        /\ UNCHANGED <<server, route, cache, fetch, replies, hasMore, composer, reads,
                       known, overtaken, strayed, torn, lagged, crowded, cut, upsets>>

\* Faulty: a full page counts as the last one
LastPageFull(page) == Len(page) <= OlderPage

LastPage(page) == Len(page) < OlderPage

\* What is older than a message never changes: its answer is read as it comes back.
\* The server refuses a temp as the cursor.
OlderSettle(r) ==
    LET list == cache[r.ch].list
        page == Newest({i \in TopLevel(r.ch) : i < r.before}, OlderPage)
    IN  /\ r.before > 0
        /\ older' = older \ {r}
        /\ loadingOlder' = (loadingOlder /\ ~r.live)
        /\ Rendered(cur, mounted,
                    IF page = <<>> THEN cache ELSE Patched(r.ch, list \o Without(page, Range(list))),
                    replies, hasMore /\ ~(r.live /\ LastPage(page)), {})
        /\ torn' = (torn \/ list = <<>> \/ Last(list) # r.before)
        /\ cut' = (cut \/ (r.ch # cur /\ ~hasMore'))
        /\ UNCHANGED <<server, fetch, composer, overtaken, strayed, lagged, crowded, upsets>>

OlderFail(r) ==
    /\ Upset
    /\ older' = older \ {r}
    /\ loadingOlder' = (loadingOlder /\ ~r.live)
    /\ UNCHANGED <<server, route, cache, fetch, replies, hasMore, composer, reads,
                   known, overtaken, strayed, torn, lagged, crowded, cut>>

-----------------------------------------------------------------------------
(* Everybody else, and the server with a send (external). *)

Elsewhere ==
    \/ /\ \/ \E c \in Channels : Store(Message(c, 0, 0))
          \/ \E p \in Threads : Store(Message(posted[p].ch, 0, p))
       /\ UNCHANGED <<sends, upsets>>
    \/ /\ Upset
       /\ \E c \in Channels : Broadcast([kind |-> "touched", id |-> 0, ch |-> c])
       /\ UNCHANGED <<posted, sends>>

\* The event is sent before the answer; the answer may be lost.
Serve(k) ==
    /\ \/ /\ sends[k].at = "out"
          /\ Store(Message(sends[k].ch, k, sends[k].parent))
          /\ sends' = [sends EXCEPT ![k].at = "posted"]
          /\ UNCHANGED upsets
       \/ /\ sends[k].at \in {"out", "posted"}
          /\ sends' = [sends EXCEPT ![k].at = "failed"]
          /\ Upset /\ UNCHANGED server

Others ==
    /\ Elsewhere \/ \E k \in DOMAIN sends : Serve(k)
    /\ UNCHANGED <<route, cache, fetch, replies, paging, hasMore, composing, reads,
                   known, overtaken, strayed, torn, lagged, crowded, cut>>

-----------------------------------------------------------------------------
Init ==
    /\ posted = [i \in DOMAIN Start |-> Message(Start[i], 0, 0)]
    /\ inbox = <<>>
    /\ cur = First /\ mounted = TRUE /\ upsets = 0
    /\ cache = [c \in Channels |-> [loaded |-> FALSE, upto |-> 0, list |-> <<>>, threaded |-> {}]]
    /\ fetch = [c \in Channels |-> IF c = cur THEN Out ELSE NoFetch]
    /\ replies = [p \in Threads |-> NoReplies]
    /\ older = {} /\ loadingOlder = FALSE /\ hasMore = TRUE
    /\ sends = [k \in 1..MaxSends |-> [at |-> "unsent", ch |-> cur, parent |-> 0, key |-> cur]]
    /\ composing = 0
    /\ reads = [c \in Channels |-> 0]
    /\ known = {} /\ overtaken = {}
    /\ strayed = FALSE /\ torn = FALSE /\ lagged = FALSE /\ crowded = FALSE /\ cut = FALSE

Next ==
    \/ \E c \in Channels : \/ FetchAnswer(c) \/ FetchSettle(c) \/ FetchFail(c)
                           \/ \E cached \in BOOLEAN : Switch(c, cached)
    \/ \E p \in Threads : RepliesAnswer(p) \/ RepliesSettle(p) \/ RepliesFail(p)
    \/ \E again \in BOOLEAN : Receive(again)
    \/ LinkLost \/ Mount \/ ScrollUp \/ Others
    \/ \E p \in {0} \cup Threads : Send(p)
    \/ \E k \in DOMAIN sends : SendSettle(k)
    \/ \E r \in older : OlderSettle(r) \/ OlderFail(r)

Spec == Init /\ [][Next]_vars

-----------------------------------------------------------------------------
Post == [ch : Channels, send : 0..MaxSends, parent : {0} \cup Threads]
Event == [kind : {"created", "touched"}, id : Nat, ch : Channels]
Feed == [loaded : BOOLEAN, upto : Nat, list : Seq(Int), threaded : SUBSET Threads]
Request == [at : {"idle", "out", "back"}, list : Seq(Nat), threaded : SUBSET Threads]
Thread == [loaded : BOOLEAN, invalid : BOOLEAN, list : Seq(Nat),
           fetch : {"idle", "out", "back"}, got : Seq(Nat)]
Older == [ch : Channels, before : Int, live : BOOLEAN]
Mutation == [at : {"unsent", "out", "posted", "failed", "settled"},
             ch : Channels, parent : {0} \cup Threads, key : Channels]

TypeOK ==
    /\ posted \in Seq(Post)
    /\ Len(Start) <= Len(posted)
    /\ inbox \in Seq(Event)
    /\ \A n \in DOMAIN inbox : inbox[n].kind = "created" =>
           inbox[n].id \in DOMAIN posted /\ posted[inbox[n].id].ch = inbox[n].ch
    /\ cur \in Channels /\ mounted \in BOOLEAN
    /\ cache \in [Channels -> Feed]
    /\ fetch \in [Channels -> Request]
    /\ replies \in [Threads -> Thread]
    /\ older \in SUBSET Older
    /\ loadingOlder \in BOOLEAN /\ hasMore \in BOOLEAN
    /\ sends \in [1..MaxSends -> Mutation]
    /\ composing \in 0..MaxSends
    /\ reads \in [Channels -> Nat]
    /\ known \in SUBSET Nat /\ overtaken \in SUBSET Nat
    /\ strayed \in BOOLEAN /\ torn \in BOOLEAN /\ lagged \in BOOLEAN
    /\ crowded \in BOOLEAN /\ cut \in BOOLEAN
    /\ upsets \in 0..MaxUpsets

\* Neither an event delivered twice, nor an older page, nor an answer that comes
\* after its event puts a message in the feed a second time.
EachOnce ==
    /\ \A c \in Channels : IsInjective(cache[c].list)
    /\ \A p \in Threads : IsInjective(replies[p].list)

\* A temp goes away with its send, unless the channel was changed under it; and
\* already before, the echo takes its place: no message is shown beside its own temp,
\* unless there was another the echo could be taken for.
TempsGoAway ==
    \A c \in Channels : LET list == Range(cache[c].list) IN
        /\ \A k \in DOMAIN sends : (-k \in list /\ sends[k].at = "settled") => strayed
        /\ \A i \in list : (i > 0 /\ posted[i].send # 0) => -posted[i].send \notin list \/ crowded

\* A message once in the feed stays between its oldest and newest message.
StaysShown ==
    \A i \in known : LET c == posted[i].ch IN posted[i].parent = 0 =>
        \/ i \in Range(cache[c].list)
        \/ \A j \in Range(cache[c].list) \cap TopLevel(c) : i < j
        \/ i \in overtaken \/ torn \/ lagged

\* A reply the feed was told of is in its thread once that is loaded.
RepliesShown ==
    \A i \in known : (posted[i].parent # 0 /\ replies[posted[i].parent].loaded) =>
        i \in Range(replies[posted[i].parent].list) \cup overtaken

\* The feed does not wait for an older page that is not on its way; and if it stops
\* asking for older messages, none of those there were when it was last fetched is
\* older than all it shows, unless it was cut.
OlderReachable ==
    /\ loadingOlder => \E r \in older : r.live /\ r.ch = cur
    /\ (mounted /\ ~hasMore /\ ~cut /\ ~torn) =>
           \A i \in TopLevel(cur) : i <= cache[cur].upto =>
               \E j \in Range(cache[cur].list) : 0 < j /\ j <= i

\* Whatever comes back after the channel was changed, a feed, a thread and a
\* watermark are of their own channel, unless it was changed under a send.
StaysInChannel ==
    /\ \A c \in Channels :
           LET own == {i \in DOMAIN posted : posted[i].ch = c} \cup {-k : k \in DOMAIN sends}
           IN  \/ Range(cache[c].list) \subseteq own /\ reads[c] \in {0} \cup (own \cap DOMAIN posted)
               \/ strayed
    /\ \A p \in Threads : Range(replies[p].list) \subseteq RepliesTo(p)
=============================================================================
