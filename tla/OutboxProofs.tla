---------------------------- MODULE OutboxProofs ----------------------------
(***************************************************************************)
(* Theorems about Outbox for every number of messages, handlers and        *)
(* dispatchers, every batch size, lease and back-off.                      *)
(***************************************************************************)
EXTENDS Outbox, TLAPS

LEMMA RowOperators ==
  ASSUME NEW c \in Row, NEW b \in BOOLEAN
  PROVE  /\ AsProcessed(c) \in Row
         /\ AsFailed(c, b) \in Row
         /\ Redriven(c) \in Row
         /\ Elapse(c) \in Row
         /\ [c EXCEPT !.lease = NewLease] \in Row
<1>1. Backoff(c.retry + 1) \in Nat
  BY OutboxAssumption DEF OutboxAssumption, Row, Backoff
<1>2. AsProcessed(c) \in Row
  BY DEF Row, AsProcessed
<1>3. AsFailed(c, b) \in Row
  <2>1. (IF b THEN 0 ELSE Backoff(c.retry + 1)) \in Nat
    BY <1>1
  <2>2. c.retry + 1 \in Nat
    BY DEF Row
  <2> QED
    BY <2>1, <2>2 DEF Row, AsFailed
<1>4. Redriven(c) \in Row
  BY DEF Row, Redriven
<1>5. Elapse(c) \in Row
  <2>1. Down(c.delay) \in Nat /\ Down(c.lease) \in Nat
    BY DEF Row, Down
  <2> QED
    BY <2>1 DEF Row, Elapse
<1>6. [c EXCEPT !.lease = NewLease] \in Row
  BY OutboxAssumption DEF OutboxAssumption, Row, NewLease
<1> QED
  BY <1>2, <1>3, <1>4, <1>5, <1>6

LEMMA FreshRow == Fresh \in Row
BY DEF Fresh, Row
-----------------------------------------------------------------------------
(* Type correctness needs to know that a busy dispatcher has a current     *)
(* message of its batch and, while it publishes, a current handler.        *)
Busy == \A d \in Dispatchers :
  /\ pc[d] \notin {"idle", "loop"} => cur[d] \in batch[d]
  /\ pc[d] \in {"check", "run", "ack"} => at[d] \in Handlers

TypeInv == TypeOK /\ Busy

LEMMA OutcomeRow ==
  ASSUME TypeInv, NEW d \in Dispatchers, pc[d] \notin {"idle", "loop"}
  PROVE  cur[d] \in Messages /\ copy[d][cur[d]] \in Row /\ Outcome(d) \in Row
<1>1. cur[d] \in Messages /\ copy[d][cur[d]] \in Row
  BY DEF TypeInv, TypeOK, Busy
<1>2. (pc[d] = "poison" \/ copy[d][cur[d]].retry + 1 >= MaxRetries) \in BOOLEAN
  OBVIOUS
<1> QED
  BY <1>1, <1>2, RowOperators DEF Outcome

(* What the shared endings of the dispatcher's steps leave behind *)
LEMMA FinishType ==
  ASSUME TypeInv, NEW d \in Dispatchers, Finish(d)
  PROVE  /\ pc' \in [Dispatchers -> Steps] /\ batch' \in [Dispatchers -> SUBSET Messages]
         /\ copy' \in [Dispatchers -> [Messages -> Row]]
         /\ cur' \in [Dispatchers -> Messages \cup {0}]
         /\ at' \in [Dispatchers -> 0..(NumHandlers + 1)]
         /\ Busy'
<1>1. copy' \in [Dispatchers -> [Messages -> Row]]
  BY FreshRow DEF Finish, TypeInv, TypeOK
<1>2. pc' \in [Dispatchers -> Steps] /\ batch' \in [Dispatchers -> SUBSET Messages]
  BY DEF Finish, TypeInv, TypeOK, Steps
<1>3. /\ cur' \in [Dispatchers -> Messages \cup {0}]
      /\ at' \in [Dispatchers -> 0..(NumHandlers + 1)]
  BY OutboxAssumption DEF OutboxAssumption, Finish, TypeInv, TypeOK
<1>4. Busy'
  BY DEF Finish, TypeInv, TypeOK, Busy
<1> QED
  BY <1>1, <1>2, <1>3, <1>4

LEMMA AbandonType ==
  ASSUME TypeInv, NEW d \in Dispatchers, Abandon(d)
  PROVE  /\ pc' \in [Dispatchers -> Steps] /\ batch' \in [Dispatchers -> SUBSET Messages]
         /\ copy' \in [Dispatchers -> [Messages -> Row]]
         /\ cur' \in [Dispatchers -> Messages \cup {0}]
         /\ at' \in [Dispatchers -> 0..(NumHandlers + 1)]
         /\ Busy'
<1>1. copy' \in [Dispatchers -> [Messages -> Row]]
  BY FreshRow DEF Abandon, TypeInv, TypeOK
<1>2. pc' \in [Dispatchers -> Steps] /\ batch' \in [Dispatchers -> SUBSET Messages]
  BY DEF Abandon, TypeInv, TypeOK, Steps
<1>3. /\ cur' \in [Dispatchers -> Messages \cup {0}]
      /\ at' \in [Dispatchers -> 0..(NumHandlers + 1)]
  BY OutboxAssumption DEF OutboxAssumption, Abandon, TypeInv, TypeOK
<1>4. Busy'
  BY DEF Abandon, TypeInv, TypeOK, Busy
<1> QED
  BY <1>1, <1>2, <1>3, <1>4

LEMMA NextHandlerType ==
  ASSUME TypeInv, NEW d \in Dispatchers, NextHandler(d),
         pc[d] \in {"check", "ack"}, UNCHANGED <<batch, cur>>
  PROVE  /\ pc' \in [Dispatchers -> Steps]
         /\ at' \in [Dispatchers -> 0..(NumHandlers + 1)]
         /\ Busy'
<1>1. at[d] \in 1..NumHandlers /\ NumHandlers \in Nat
  BY OutboxAssumption DEF OutboxAssumption, TypeInv, Busy, Handlers
<1>2. pc' \in [Dispatchers -> Steps] /\ at' \in [Dispatchers -> 0..(NumHandlers + 1)]
  BY <1>1 DEF NextHandler, TypeInv, TypeOK, Steps
<1>3. Busy'
  BY <1>1 DEF NextHandler, TypeInv, TypeOK, Busy, Handlers
<1> QED
  BY <1>2, <1>3

LEMMA TypeStep == TypeInv /\ [Next]_vars => TypeInv'
<1> SUFFICES ASSUME TypeInv, [Next]_vars PROVE TypeInv'
  OBVIOUS
<1> USE DEF TypeInv
<1>1. ASSUME NEW m \in Messages, Add(m) PROVE TypeInv'
  BY <1>1 DEF Add, TypeOK, Busy, effects, worker
<1>2. ASSUME NEW d \in Dispatchers, Claim(d) PROVE TypeInv'
  <2>1. Claimable \subseteq Messages
    BY DEF Claimable
  <2>2. row' \in [Messages -> Row]
    BY <1>2, RowOperators DEF Claim, TypeOK
  <2>3. copy' \in [Dispatchers -> [Messages -> Row]]
    BY <1>2, <2>2, FreshRow DEF Claim, TypeOK
  <2> QED
    BY <1>2, <2>1, <2>2, <2>3 DEF Claim, TypeOK, Busy, Steps, effects
<1>3. ASSUME NEW d \in Dispatchers, NEW m \in Messages, Take(d, m) PROVE TypeInv'
  <2>1. NumHandlers \in Nat
    BY OutboxAssumption DEF OutboxAssumption
  <2> QED
    BY <1>3, <2>1 DEF Take, TypeOK, Busy, Steps, Handlers, store, effects
<1>4. ASSUME NEW d \in Dispatchers, CheckInbox(d) PROVE TypeInv'
  <2>1. CASE NextHandler(d)
    BY <1>4, <2>1, NextHandlerType DEF CheckInbox, TypeOK, store, effects
  <2>2. CASE ~NextHandler(d)
    BY <1>4, <2>2 DEF CheckInbox, TypeOK, Busy, Steps, store, effects
  <2> QED
    BY <2>1, <2>2
<1>5. ASSUME NEW d \in Dispatchers, RunHandler(d) PROVE TypeInv'
  <2>1. cur[d] \in Messages /\ at[d] \in Handlers
    BY <1>5 DEF RunHandler, TypeOK, Busy
  <2>2. ran' \in [Messages -> [Handlers -> Nat]]
    BY <1>5, <2>1 DEF RunHandler, TypeOK
  <2> QED
    BY <1>5, <2>2 DEF RunHandler, TypeOK, Busy, Steps, store
<1>6. ASSUME NEW d \in Dispatchers, AckInbox(d) PROVE TypeInv'
  <2>1. cur[d] \in Messages /\ at[d] \in Handlers
    BY <1>6 DEF AckInbox, TypeOK, Busy
  <2>2. inbox' \in [Messages -> SUBSET Handlers]
    BY <1>6, <2>1 DEF AckInbox, TypeOK
  <2> QED
    BY <1>6, <2>2, NextHandlerType DEF AckInbox, TypeOK, store
<1>7. ASSUME NEW d \in Dispatchers, AckSwallowed(d) PROVE TypeInv'
  <2>1. faults' \in 0..MaxFaults
    BY <1>7, OutboxAssumption DEF AckSwallowed, TypeOK, OutboxAssumption
  <2> QED
    BY <1>7, <2>1, NextHandlerType DEF AckSwallowed, TypeOK, store, effects
<1>8. ASSUME NEW d \in Dispatchers, HandlerThrows(d) PROVE TypeInv'
  BY <1>8 DEF HandlerThrows, TypeOK, Busy, Steps, store, effects
<1>9. ASSUME NEW d \in Dispatchers, AckThrows(d) PROVE TypeInv'
  <2>1. faults' \in 0..MaxFaults
    BY <1>9, OutboxAssumption DEF AckThrows, TypeOK, OutboxAssumption
  <2> QED
    BY <1>9, <2>1 DEF AckThrows, TypeOK, Busy, Steps, store, effects
<1>10. ASSUME NEW d \in Dispatchers, Settle(d) PROVE TypeInv'
  <2>1. row' \in [Messages -> Row]
    BY <1>10, OutcomeRow DEF Settle, TypeOK
  <2> QED
    BY <1>10, <2>1, FinishType DEF Settle, TypeOK, effects
<1>11. ASSUME NEW d \in Dispatchers, SettleThrows(d) PROVE TypeInv'
  <2>1. /\ cur[d] \in Messages
        /\ Outcome(d) \in Row
    BY <1>11, OutcomeRow DEF SettleThrows
  <2>2. row' \in [Messages -> Row] /\ faults' \in 0..MaxFaults
    <3>1. row' = row \/ row' = [row EXCEPT ![cur[d]] = Outcome(d)]
      BY <1>11 DEF SettleThrows
    <3>2. faults' \in 0..MaxFaults
      BY <1>11, OutboxAssumption DEF SettleThrows, TypeOK, OutboxAssumption
    <3> QED
      BY <2>1, <3>1, <3>2 DEF TypeOK
  <2>3. CASE pc[d] = "failed"
    BY <1>11, <2>2, <2>3, AbandonType DEF SettleThrows, TypeOK, effects
  <2>4. CASE pc[d] # "failed"
    <3>1. /\ copy' = [copy EXCEPT ![d][cur[d]] = Outcome(d)]
          /\ pc' = [pc EXCEPT ![d] = "failed"]
          /\ UNCHANGED <<batch, cur, at, stored, inbox, ran, redriving>>
          /\ pc[d] \notin {"idle", "loop"}
      BY <1>11, <2>4 DEF SettleThrows, effects
    <3>2. copy' \in [Dispatchers -> [Messages -> Row]]
      BY <2>1, <3>1 DEF TypeOK
    <3> QED
      BY <2>2, <3>1, <3>2 DEF TypeOK, Busy, Steps
  <2> QED
    BY <2>3, <2>4
<1>12. ASSUME NEW d \in Dispatchers, Crash(d) PROVE TypeInv'
  <2>1. faults' \in 0..MaxFaults
    BY <1>12, OutboxAssumption DEF Crash, TypeOK, OutboxAssumption
  <2> QED
    BY <1>12, <2>1, AbandonType DEF Crash, TypeOK, store, effects
<1>13. ASSUME NEW S \in SUBSET Messages, RedriveRead(S) PROVE TypeInv'
  BY <1>13 DEF RedriveRead, TypeOK, Busy, store, effects, worker
<1>14. CASE RedriveSave
  <2>1. row' \in [Messages -> Row]
    BY <1>14, RowOperators DEF RedriveSave, TypeOK
  <2> QED
    BY <1>14, <2>1 DEF RedriveSave, TypeOK, Busy, effects, worker
<1>15. CASE Tick
  <2>1. row' \in [Messages -> Row]
    BY <1>15, RowOperators DEF Tick, TypeOK
  <2>2. copy' \in [Dispatchers -> [Messages -> Row]]
    BY <1>15, RowOperators DEF Tick, TypeOK
  <2> QED
    BY <1>15, <2>1, <2>2 DEF Tick, TypeOK, Busy, effects
<1>16. CASE UNCHANGED vars
  BY <1>16 DEF vars, TypeOK, Busy
<1> QED
  BY <1>1, <1>2, <1>3, <1>4, <1>5, <1>6, <1>7, <1>8, <1>9, <1>10, <1>11, <1>12,
     <1>13, <1>14, <1>15, <1>16 DEF Next, Work

LEMMA TypeInit == Init => TypeInv
<1> SUFFICES ASSUME Init PROVE TypeInv
  OBVIOUS
<1>1. 0 \in 0..(NumHandlers + 1) /\ 0 \in 0..MaxFaults
  BY OutboxAssumption DEF OutboxAssumption
<1> QED
  BY <1>1, FreshRow DEF Init, TypeInv, TypeOK, Busy, Steps

(* The tables, the dispatchers' copies and their positions keep their      *)
(* types, whatever the timing and the faults.                              *)
THEOREM TypeCorrect == Spec => []TypeOK
<1>1. Spec => []TypeInv
  BY TypeInit, TypeStep, PTL DEF Spec
<1>2. TypeInv => TypeOK
  BY DEF TypeInv
<1> QED
  BY <1>1, <1>2, PTL
-----------------------------------------------------------------------------
(* Why a processed row has been handled: the evidence starts with the      *)
(* handlers a dispatcher has passed (run by itself or recorded in the      *)
(* inbox), goes to its copy when PublishAsync has returned, and from the   *)
(* copy, however stale, to the row.                                        *)
InboxTrue == \A m \in Messages : \A h \in inbox[m] : ran[m][h] > 0

PassedHandlersRan ==
  \A d \in Dispatchers :
    /\ pc[d] \in {"check", "run", "ack"} =>
         \A h \in Handlers : h < at[d] => ran[cur[d]][h] > 0
    /\ pc[d] = "ack" => ran[cur[d]][at[d]] > 0
    /\ pc[d] = "published" => AllRan(cur[d])

CopiesTrue == \A d \in Dispatchers : \A m \in Messages : copy[d][m].processed => AllRan(m)

Evidence ==
  TypeInv /\ ProcessedOnlyAfterHandled /\ InboxTrue /\ PassedHandlersRan /\ CopiesTrue

LEMMA EvidenceInit == Init => Evidence
<1> SUFFICES ASSUME Init PROVE Evidence
  OBVIOUS
<1>1. TypeInv
  BY TypeInit
<1>2. ProcessedOnlyAfterHandled /\ InboxTrue /\ PassedHandlersRan /\ CopiesTrue
  BY DEF Init, Fresh, ProcessedOnlyAfterHandled, InboxTrue, PassedHandlersRan, CopiesTrue
<1> QED
  BY <1>1, <1>2 DEF Evidence

LEMMA RowFields ==
  ASSUME NEW c \in Row, NEW b
  PROVE  /\ AsProcessed(c).processed = TRUE
         /\ AsFailed(c, b).processed = c.processed
         /\ Redriven(c).processed = c.processed
         /\ Elapse(c).processed = c.processed
         /\ [c EXCEPT !.lease = NewLease].processed = c.processed
         /\ Fresh.processed = FALSE
BY DEF Row, AsProcessed, AsFailed, Redriven, Elapse, Fresh

(* What a dispatcher is about to write is true *)
LEMMA OutcomeTrue ==
  ASSUME Evidence, NEW d \in Dispatchers, pc[d] \in {"published", "poison", "failed"},
         Outcome(d).processed
  PROVE  AllRan(cur[d])
<1>1. cur[d] \in Messages /\ copy[d][cur[d]] \in Row
  BY OutcomeRow DEF Evidence
<1>2. CASE pc[d] = "published"
  BY <1>2 DEF Evidence, PassedHandlersRan
<1>3. CASE pc[d] # "published"
  <2>1. copy[d][cur[d]].processed
    BY <1>1, <1>3 DEF Outcome, AsFailed, Row
  <2> QED
    BY <1>1, <2>1 DEF Evidence, CopiesTrue
<1> QED
  BY <1>2, <1>3

(* The step to the next handler keeps what is known of the passed ones *)
LEMMA NextHandlerTrue ==
  ASSUME Evidence, NEW d \in Dispatchers, pc[d] \in {"check", "ack"},
         NextHandler(d), ran[cur[d]][at[d]] > 0, UNCHANGED <<cur, ran>>
  PROVE  PassedHandlersRan'
<1>1. at[d] \in 1..NumHandlers /\ NumHandlers \in Nat
  BY OutboxAssumption DEF OutboxAssumption, Evidence, TypeInv, Busy, Handlers
<1>2. \A h \in Handlers : h < at[d] + 1 => ran[cur[d]][h] > 0
  BY <1>1 DEF Evidence, PassedHandlersRan, Handlers
<1>3. ASSUME NEW e \in Dispatchers, e # d
      PROVE  pc'[e] = pc[e] /\ at'[e] = at[e]
  BY <1>3 DEF NextHandler, Evidence, TypeInv, TypeOK
<1>4. /\ at'[d] = at[d] + 1
      /\ pc'[d] = "check" \/ (pc'[d] = "published" /\ at[d] = NumHandlers)
  BY DEF NextHandler, Evidence, TypeInv, TypeOK
<1>5. pc'[d] = "published" => AllRan(cur[d])
  BY <1>1, <1>2, <1>4 DEF AllRan, Handlers
<1> QED
  BY <1>2, <1>3, <1>4, <1>5 DEF Evidence, PassedHandlersRan, AllRan

LEMMA EvidenceStep == Evidence /\ [Next]_vars => Evidence'
<1> SUFFICES ASSUME Evidence, [Next]_vars PROVE Evidence'
  OBVIOUS
<1>0. TypeInv /\ TypeInv' /\ TypeOK /\ Busy
  BY TypeStep DEF Evidence, TypeInv
<1> DEFINE Rest == (ProcessedOnlyAfterHandled /\ InboxTrue /\ PassedHandlersRan /\ CopiesTrue)'
<1> USE DEF ProcessedOnlyAfterHandled, InboxTrue, CopiesTrue
<1>1. ASSUME NEW m \in Messages, Add(m) PROVE Rest
  BY <1>1 DEF Add, Evidence, PassedHandlersRan, AllRan, effects, worker
<1>2. ASSUME NEW d \in Dispatchers, Claim(d) PROVE Rest
  <2>1. UNCHANGED <<ran, inbox, cur, at>>
    BY <1>2 DEF Claim, effects
  <2>2. \A m \in Messages : row'[m].processed = row[m].processed
    BY <1>0, <1>2, RowFields DEF Claim, TypeOK
  <2>3. \A m \in Messages : copy'[d][m].processed => row[m].processed
    BY <1>0, <1>2, <2>2, RowFields DEF Claim, TypeOK
  <2>4. \A e \in Dispatchers : e # d => copy'[e] = copy[e]
    BY <1>0, <1>2 DEF Claim, TypeOK
  <2>5. PassedHandlersRan'
    BY <1>0, <1>2, <2>1 DEF Claim, Evidence, PassedHandlersRan, AllRan, TypeOK
  <2> QED
    BY <2>1, <2>2, <2>3, <2>4, <2>5 DEF Evidence, AllRan
<1>3. ASSUME NEW d \in Dispatchers, NEW m \in Messages, Take(d, m) PROVE Rest
  <2>1. UNCHANGED <<ran, inbox, row, copy>>
    BY <1>3 DEF Take, effects, store
  <2>2. \A e \in Dispatchers : e # d => pc'[e] = pc[e] /\ cur'[e] = cur[e] /\ at'[e] = at[e]
    BY <1>0, <1>3 DEF Take, TypeOK
  <2>3. /\ at'[d] = 1 /\ pc'[d] \in {"poison", "check", "published"}
        /\ pc'[d] = "published" => NumHandlers = 0
    BY <1>0, <1>3 DEF Take, TypeOK
  <2>4. PassedHandlersRan'
    BY <2>1, <2>2, <2>3, OutboxAssumption
       DEF Evidence, PassedHandlersRan, AllRan, Handlers, OutboxAssumption
  <2> QED
    BY <2>1, <2>4 DEF Evidence, AllRan
<1>4. ASSUME NEW d \in Dispatchers, CheckInbox(d) PROVE Rest
  <2>1. UNCHANGED <<ran, inbox, row, copy, cur>>
    BY <1>4 DEF CheckInbox, effects, store
  <2>2. CASE at[d] \in inbox[cur[d]]
    <3>1. cur[d] \in Messages /\ NextHandler(d) /\ pc[d] = "check"
      BY <1>0, <1>4, <2>2 DEF CheckInbox, TypeOK, Busy
    <3>2. PassedHandlersRan'
      BY <2>1, <2>2, <3>1, NextHandlerTrue DEF Evidence
    <3> QED
      BY <2>1, <3>2 DEF Evidence, AllRan
  <2>3. CASE at[d] \notin inbox[cur[d]]
    BY <1>0, <1>4, <2>1, <2>3 DEF CheckInbox, Evidence, PassedHandlersRan, AllRan, TypeOK
  <2> QED
    BY <2>2, <2>3
<1>5. ASSUME NEW d \in Dispatchers, RunHandler(d) PROVE Rest
  <2>1. cur[d] \in Messages /\ at[d] \in Handlers /\ pc[d] = "run"
    BY <1>0, <1>5 DEF RunHandler, TypeOK, Busy
  <2>2. UNCHANGED <<inbox, row, copy, cur, at>>
    BY <1>5 DEF RunHandler, store
  <2>3. /\ \A m \in Messages, h \in Handlers : ran[m][h] > 0 => ran'[m][h] > 0
        /\ ran'[cur[d]][at[d]] > 0
    BY <1>0, <1>5, <2>1 DEF RunHandler, TypeOK
  <2>4. \A m \in Messages : AllRan(m) => AllRan(m)'
    BY <2>3 DEF AllRan
  <2>5. pc' = [pc EXCEPT ![d] = "ack"]
    BY <1>5 DEF RunHandler
  <2>6. \A e \in Dispatchers : pc[e] \notin {"idle", "loop"} => cur[e] \in Messages
    BY <1>0 DEF Busy, TypeOK
  <2>7. \A e \in Dispatchers : pc[e] = "ack" => at[e] \in Handlers
    BY <1>0 DEF Busy
  <2>8. PassedHandlersRan'
    BY <1>0, <2>1, <2>2, <2>3, <2>4, <2>5, <2>6, <2>7 DEF Evidence, PassedHandlersRan, TypeOK
  <2>9. InboxTrue'
    BY <1>0, <2>2, <2>3 DEF Evidence, TypeOK
  <2> QED
    BY <2>2, <2>4, <2>8, <2>9 DEF Evidence
<1>6. ASSUME NEW d \in Dispatchers, AckInbox(d) PROVE Rest
  <2>1. cur[d] \in Messages /\ at[d] \in Handlers /\ pc[d] = "ack" /\ NextHandler(d)
    BY <1>0, <1>6 DEF AckInbox, TypeOK, Busy
  <2>2. UNCHANGED <<ran, row, copy, cur>>
    BY <1>6 DEF AckInbox, store
  <2>3. ran[cur[d]][at[d]] > 0
    BY <2>1 DEF Evidence, PassedHandlersRan
  <2>4. InboxTrue'
    BY <1>0, <1>6, <2>2, <2>3 DEF AckInbox, Evidence, TypeOK
  <2>5. PassedHandlersRan'
    BY <2>1, <2>2, <2>3, NextHandlerTrue
  <2> QED
    BY <2>2, <2>4, <2>5 DEF Evidence, AllRan
<1>7. ASSUME NEW d \in Dispatchers, AckSwallowed(d) PROVE Rest
  <2>1. pc[d] = "ack" /\ NextHandler(d) /\ UNCHANGED <<ran, inbox, row, copy, cur>>
    BY <1>7 DEF AckSwallowed, store, effects
  <2>2. ran[cur[d]][at[d]] > 0
    BY <2>1 DEF Evidence, PassedHandlersRan
  <2>3. PassedHandlersRan'
    BY <2>1, <2>2, NextHandlerTrue
  <2> QED
    BY <2>1, <2>3 DEF Evidence, AllRan
<1>8. ASSUME NEW d \in Dispatchers, HandlerThrows(d) \/ AckThrows(d) PROVE Rest
  BY <1>0, <1>8 DEF HandlerThrows, AckThrows, Evidence, PassedHandlersRan, AllRan, TypeOK,
     store, effects
<1>9. ASSUME NEW d \in Dispatchers, Settle(d) PROVE Rest
  <2>1. /\ row' = [row EXCEPT ![cur[d]] = Outcome(d)] /\ UNCHANGED <<ran, inbox>>
        /\ pc[d] \in {"published", "poison", "failed"} /\ Finish(d)
    BY <1>9 DEF Settle, effects
  <2>2. cur[d] \in Messages
    BY <1>0, <2>1 DEF Busy, TypeOK
  <2>3. ProcessedOnlyAfterHandled'
    BY <1>0, <2>1, <2>2, OutcomeTrue DEF Evidence, AllRan, TypeOK
  <2>4. CopiesTrue'
    BY <1>0, <2>1, <2>2, RowFields, FreshRow DEF Finish, Evidence, AllRan, TypeOK
  <2>5. PassedHandlersRan'
    BY <1>0, <2>1 DEF Finish, Evidence, PassedHandlersRan, AllRan, TypeOK
  <2> QED
    BY <2>1, <2>3, <2>4, <2>5 DEF Evidence
<1>10. ASSUME NEW d \in Dispatchers, Abandon(d), UNCHANGED <<ran, inbox>>
       PROVE  CopiesTrue' /\ PassedHandlersRan'
  <2>1. CopiesTrue'
    BY <1>0, <1>10, RowFields, FreshRow DEF Abandon, Evidence, AllRan, TypeOK
  <2>2. PassedHandlersRan'
    BY <1>0, <1>10 DEF Abandon, Evidence, PassedHandlersRan, AllRan, TypeOK
  <2> QED
    BY <2>1, <2>2
<1>11. ASSUME NEW d \in Dispatchers, SettleThrows(d) PROVE Rest
  <2>1. /\ row' = row \/ row' = [row EXCEPT ![cur[d]] = Outcome(d)]
        /\ UNCHANGED <<ran, inbox>>
        /\ pc[d] \in {"published", "poison", "failed"}
    BY <1>11 DEF SettleThrows, effects
  <2>2. cur[d] \in Messages
    BY <1>0, <2>1 DEF Busy, TypeOK
  <2>3. ProcessedOnlyAfterHandled'
    BY <1>0, <2>1, <2>2, OutcomeTrue DEF Evidence, AllRan, TypeOK
  <2>4. CASE pc[d] = "failed"
    BY <1>10, <1>11, <2>1, <2>3, <2>4 DEF SettleThrows, Evidence
  <2>5. CASE pc[d] # "failed"
    <3>1. /\ copy' = [copy EXCEPT ![d][cur[d]] = Outcome(d)]
          /\ pc' = [pc EXCEPT ![d] = "failed"] /\ UNCHANGED <<cur, at>>
      BY <1>11, <2>5 DEF SettleThrows
    <3>2. CopiesTrue'
      BY <1>0, <2>1, <2>2, <3>1, OutcomeTrue DEF Evidence, AllRan, TypeOK
    <3>3. PassedHandlersRan'
      BY <1>0, <2>1, <3>1 DEF Evidence, PassedHandlersRan, AllRan, TypeOK
    <3> QED
      BY <2>1, <2>3, <3>2, <3>3 DEF Evidence
  <2> QED
    BY <2>4, <2>5
<1>12. ASSUME NEW d \in Dispatchers, Crash(d) PROVE Rest
  BY <1>10, <1>12 DEF Crash, Evidence, AllRan, store, effects
<1>13. ASSUME NEW S \in SUBSET Messages, RedriveRead(S) PROVE Rest
  BY <1>13 DEF RedriveRead, Evidence, PassedHandlersRan, AllRan, store, effects, worker
<1>14. ASSUME RedriveSave PROVE Rest
  <2>1. \A m \in Messages : row'[m].processed = row[m].processed
    BY <1>0, <1>14, RowFields DEF RedriveSave, TypeOK
  <2> QED
    BY <1>14, <2>1 DEF RedriveSave, Evidence, PassedHandlersRan, AllRan, effects, worker
<1>15. ASSUME Tick PROVE Rest
  <2>1. \A m \in Messages : row'[m].processed = row[m].processed
    BY <1>0, <1>15, RowFields DEF Tick, TypeOK
  <2>2. \A d \in Dispatchers, m \in Messages :
          copy'[d][m].processed = copy[d][m].processed
    <3>1. TAKE d \in Dispatchers, m \in Messages
    <3>2. copy'[d][m] = Elapse(copy[d][m]) /\ copy[d][m] \in Row
      BY <1>0, <1>15 DEF Tick, TypeOK
    <3> QED
      BY <3>2, RowFields
  <2> QED
    BY <1>15, <2>1, <2>2 DEF Tick, Evidence, PassedHandlersRan, AllRan, effects
<1>16. ASSUME UNCHANGED vars PROVE Rest
  BY <1>16 DEF vars, Evidence, PassedHandlersRan, AllRan
<1>17. Rest
  BY <1>1, <1>2, <1>3, <1>4, <1>5, <1>6, <1>7, <1>8, <1>9, <1>11, <1>12,
     <1>13, <1>14, <1>15, <1>16 DEF Next, Work
<1> QED
  BY <1>0, <1>17 DEF Evidence

(* At-least-once delivery: whatever the timing of leases, the crashes and  *)
(* the failing saves, ProcessedOnUtc is set only when every handler ran.   *)
THEOREM NoEventLost == Spec => []ProcessedOnlyAfterHandled
<1>1. Spec => []Evidence
  BY EvidenceInit, EvidenceStep, PTL DEF Spec
<1>2. Evidence => ProcessedOnlyAfterHandled
  BY DEF Evidence
<1> QED
  BY <1>1, <1>2, PTL
-----------------------------------------------------------------------------
(* The retry budget holds of the rows because it holds of every copy that  *)
(* can still be written over them.                                         *)
Budgeted(c) == ~c.dead => c.retry < MaxRetries

BudgetInv ==
  /\ TypeInv
  /\ \A m \in Messages : Budgeted(row[m])
  /\ \A d \in Dispatchers, m \in Messages : Budgeted(copy[d][m])

LEMMA BudgetOfRows ==
  ASSUME NEW c \in Row
  PROVE  /\ Budgeted(c) => Budgeted(AsProcessed(c))
         /\ Budgeted(AsFailed(c, TRUE))
         /\ c.retry + 1 < MaxRetries => Budgeted(AsFailed(c, FALSE))
         /\ Budgeted(Redriven(c))
         /\ Budgeted(c) => Budgeted(Elapse(c))
         /\ Budgeted(c) => Budgeted([c EXCEPT !.lease = NewLease])
         /\ Budgeted(Fresh)
BY OutboxAssumption
   DEF OutboxAssumption, Row, Budgeted, AsProcessed, AsFailed, Redriven, Elapse, Fresh

LEMMA OutcomeBudgeted ==
  ASSUME BudgetInv, NEW d \in Dispatchers, pc[d] \in {"published", "poison", "failed"}
  PROVE  Budgeted(Outcome(d))
<1> DEFINE c == copy[d][cur[d]]
<1>1. c \in Row /\ Budgeted(c)
  BY OutcomeRow DEF BudgetInv
<1>2. CASE pc[d] = "published"
  BY <1>1, <1>2, BudgetOfRows DEF Outcome
<1>3. CASE pc[d] # "published" /\ (pc[d] = "poison" \/ c.retry + 1 >= MaxRetries)
  <2>1. Outcome(d) = AsFailed(c, TRUE)
    BY <1>3 DEF Outcome
  <2> QED
    BY <1>1, <2>1, BudgetOfRows
<1>4. CASE pc[d] # "published" /\ pc[d] # "poison" /\ ~(c.retry + 1 >= MaxRetries)
  <2>1. Outcome(d) = AsFailed(c, FALSE)
    BY <1>4 DEF Outcome
  <2>2. c.retry + 1 < MaxRetries
    BY <1>1, <1>4, OutboxAssumption DEF OutboxAssumption, Row
  <2> QED
    BY <1>1, <2>1, <2>2, BudgetOfRows
<1> QED
  BY <1>2, <1>3, <1>4

LEMMA BudgetStep == BudgetInv /\ [Next]_vars => BudgetInv'
<1> SUFFICES ASSUME BudgetInv, [Next]_vars PROVE BudgetInv'
  OBVIOUS
<1>0. TypeInv /\ TypeInv' /\ TypeOK /\ Busy
  BY TypeStep DEF BudgetInv, TypeInv
<1> DEFINE Rest == /\ \A m \in Messages : Budgeted(row'[m])
                   /\ \A e \in Dispatchers, m \in Messages : Budgeted(copy'[e][m])
<1> USE DEF BudgetInv
<1>1. ASSUME NEW d \in Dispatchers, Claim(d) PROVE Rest
  BY <1>0, <1>1, BudgetOfRows DEF Claim, TypeOK
<1>2. ASSUME NEW d \in Dispatchers, Settle(d) PROVE Rest
  <2>1. Budgeted(Outcome(d)) /\ Finish(d) /\ row' = [row EXCEPT ![cur[d]] = Outcome(d)]
    BY <1>2, OutcomeBudgeted DEF Settle
  <2> QED
    BY <1>0, <2>1, BudgetOfRows, FreshRow DEF Finish, TypeOK
<1>3. ASSUME NEW d \in Dispatchers, SettleThrows(d) PROVE Rest
  <2>1. /\ Budgeted(Outcome(d))
        /\ row' = row \/ row' = [row EXCEPT ![cur[d]] = Outcome(d)]
    BY <1>3, OutcomeBudgeted DEF SettleThrows
  <2>2. CASE Abandon(d)
    BY <1>0, <2>1, <2>2, BudgetOfRows, FreshRow DEF Abandon, TypeOK
  <2>3. CASE copy' = [copy EXCEPT ![d][cur[d]] = Outcome(d)]
    BY <1>0, <2>1, <2>3 DEF TypeOK
  <2> QED
    BY <1>3, <2>2, <2>3 DEF SettleThrows
<1>4. ASSUME NEW d \in Dispatchers, Crash(d) PROVE Rest
  BY <1>0, <1>4, BudgetOfRows, FreshRow DEF Crash, Abandon, TypeOK, store
<1>5. ASSUME RedriveSave PROVE Rest
  BY <1>0, <1>5, BudgetOfRows DEF RedriveSave, TypeOK, worker
<1>6. ASSUME Tick PROVE Rest
  <2>1. \A m \in Messages : Budgeted(row'[m])
    BY <1>0, <1>6, BudgetOfRows DEF Tick, TypeOK
  <2>2. ASSUME NEW e \in Dispatchers, NEW m \in Messages PROVE Budgeted(copy'[e][m])
    <3>1. copy'[e][m] = Elapse(copy[e][m]) /\ copy[e][m] \in Row
      BY <1>0, <1>6 DEF Tick, TypeOK
    <3> QED
      BY <3>1, BudgetOfRows
  <2> QED
    BY <2>1, <2>2
<1>7. ASSUME UNCHANGED <<row, copy>> PROVE Rest
  BY <1>7
<1>8. Rest
  BY <1>1, <1>2, <1>3, <1>4, <1>5, <1>6, <1>7
     DEF Next, Work, vars, Add, Take, CheckInbox, RunHandler, AckInbox, AckSwallowed,
         HandlerThrows, AckThrows, RedriveRead, store, worker
<1> QED
  BY <1>0, <1>8

(* No live row has used up its attempts, even when a dispatcher whose lease*)
(* has run out writes its copy over a newer row.                           *)
THEOREM RetryBudget == Spec => []PendingWithinBudget
<1>1. Init => BudgetInv
  BY TypeInit, OutboxAssumption DEF Init, BudgetInv, Budgeted, Fresh, OutboxAssumption
<1>2. BudgetInv => PendingWithinBudget
  BY DEF BudgetInv, Budgeted, PendingWithinBudget
<1> QED
  BY <1>1, <1>2, BudgetStep, PTL DEF Spec
-----------------------------------------------------------------------------
(* Under the condition EventingOptions states for the lease, claims are    *)
(* exclusive: the invariant is inductive, given the types.                 *)
LEMMA ExclusiveStep ==
  ASSUME SkipLocked, LeaseCoversBatch, ~SavesFail, TypeInv, ExclusiveInFlight, [Next]_vars
  PROVE  ExclusiveInFlight'
<1>0. TypeOK /\ Busy
  BY DEF TypeInv
<1> USE DEF ExclusiveInFlight
<1>1. ASSUME NEW d \in Dispatchers, Claim(d) PROVE ExclusiveInFlight'
  <2>1. \A m \in Claimable : Eligible(m) /\ m \in Messages
    BY DEF Claimable
  <2>2. \A m \in Claimable : \A e \in Dispatchers : m \notin batch[e]
    BY <1>0, <2>1 DEF Eligible, TypeOK, Row
  <2>3. \A m \in Claimable :
          row'[m].lease > 0 /\ ~row'[m].dead /\ ~row'[m].processed
    BY <1>0, <1>1, <2>1, OutboxAssumption
       DEF Claim, Eligible, TypeOK, Row, NewLease, OutboxAssumption
  <2>4. \A m \in Messages : m \notin Claimable => row'[m] = row[m]
    BY <1>1 DEF Claim
  <2>5. batch' = [batch EXCEPT ![d] = Claimable]
    BY <1>1 DEF Claim
  <2> QED
    BY <1>0, <2>2, <2>3, <2>4, <2>5 DEF TypeOK
<1>2. ASSUME NEW d \in Dispatchers, Settle(d) PROVE ExclusiveInFlight'
  <2>1. cur[d] \in batch[d] /\ row' = [row EXCEPT ![cur[d]] = Outcome(d)]
    BY <1>0, <1>2 DEF Settle, Busy
  <2>2. batch' = [batch EXCEPT ![d] = batch[d] \ {cur[d]}]
    BY <1>2 DEF Settle, Finish
  <2> QED
    BY <1>0, <2>1, <2>2 DEF TypeOK
<1>3. ASSUME NEW d \in Dispatchers, SettleThrows(d) PROVE ExclusiveInFlight'
  BY <1>3 DEF SettleThrows
<1>4. ASSUME NEW d \in Dispatchers, Crash(d) PROVE ExclusiveInFlight'
  BY <1>0, <1>4 DEF Crash, Abandon, TypeOK, store
<1>5. CASE RedriveSave
  <2>1. \A m \in Messages : row[m] \in Row /\ (row'[m] = row[m] \/ row'[m] = Redriven(row[m]))
    BY <1>0, <1>5 DEF RedriveSave, TypeOK
  <2>2. \A m \in Messages :
          /\ row'[m].processed = row[m].processed /\ row'[m].lease = row[m].lease
          /\ row'[m].dead => row[m].dead
    BY <2>1 DEF Redriven, Row
  <2> QED
    BY <1>0, <1>5, <2>2 DEF RedriveSave, TypeOK, worker
<1>6. CASE Tick
  <2>1. ASSUME NEW d \in Dispatchers, NEW m \in batch[d] PROVE row'[m].lease > 0
    <3>1. m \in Messages /\ row[m] \in Row /\ row[m].lease > 0 /\ row[m].lease # 1
      BY <1>0, <1>6 DEF Tick, TypeOK
    <3>2. row'[m].lease = row[m].lease - 1
      BY <1>6, <3>1 DEF Tick, Elapse, Down, Row
    <3> QED
      BY <3>1, <3>2 DEF Row
  <2>2. ASSUME NEW m \in Messages
        PROVE  row'[m].processed = row[m].processed /\ row'[m].dead = row[m].dead
    <3>1. row'[m] = Elapse(row[m]) /\ row[m] \in Row
      BY <1>0, <1>6 DEF Tick, TypeOK
    <3> QED
      BY <3>1 DEF Elapse, Row
  <2> QED
    BY <1>0, <1>6, <2>1, <2>2 DEF Tick, TypeOK
<1>7. CASE UNCHANGED <<row, batch>>
  BY <1>7
<1> QED
  BY <1>1, <1>2, <1>3, <1>4, <1>5, <1>6, <1>7
     DEF Next, Work, vars, Add, Take, CheckInbox, RunHandler, AckInbox, AckSwallowed,
         HandlerThrows, AckThrows, RedriveRead, store, worker

(* Two dispatchers never hold the same message, as long as a batch is      *)
(* finished within its lease and no save fails.                            *)
THEOREM ClaimsAreExclusive ==
  ASSUME SkipLocked, LeaseCoversBatch, ~SavesFail
  PROVE  Spec => []ExclusiveInFlight
<1>1. Init => TypeInv /\ ExclusiveInFlight
  BY TypeInit DEF Init, ExclusiveInFlight
<1>2. TypeInv /\ ExclusiveInFlight /\ [Next]_vars => (TypeInv /\ ExclusiveInFlight)'
  BY ExclusiveStep, TypeStep
<1> QED
  BY <1>1, <1>2, PTL DEF Spec
-----------------------------------------------------------------------------
(* What exclusive claims give: the copy a dispatcher will write back still *)
(* agrees with the row, and a dead or processed row is in nobody's batch,  *)
(* so that only a redrive changes it.                                      *)
Agrees(c, r) == c.processed = r.processed /\ c.dead = r.dead /\ c.retry = r.retry

CopiesCurrent ==
  \A d \in Dispatchers : \A m \in batch[d] : m \in stored /\ Agrees(copy[d][m], row[m])

DeadRows ==
  /\ \A m \in Messages : row[m].dead => m \in stored /\ ~row[m].processed
  /\ \A m \in Messages : row[m].processed => m \in stored
  /\ \A m \in redriving : row[m].dead

Owned == TypeInv /\ ExclusiveInFlight /\ CopiesCurrent /\ DeadRows

LEMMA RowsAgree ==
  ASSUME NEW c \in Row
  PROVE  Agrees(Elapse(c), c) /\ Agrees([c EXCEPT !.lease = NewLease], c)
BY DEF Agrees, Row, Elapse

LEMMA RowsWritten ==
  ASSUME NEW c \in Row, NEW b
  PROVE  /\ AsProcessed(c).retry = c.retry /\ AsProcessed(c).dead = c.dead
         /\ AsFailed(c, b).retry = c.retry + 1 /\ AsFailed(c, b).dead = b
         /\ AsFailed(c, b).processed = c.processed
         /\ ~Redriven(c).dead /\ Redriven(c).processed = c.processed
BY DEF Row, AsProcessed, AsFailed, Redriven

(* What a dispatcher is about to write, compared with the row it replaces *)
LEMMA OutcomeOfRow ==
  ASSUME Owned, NEW d \in Dispatchers, pc[d] \in {"published", "poison", "failed"}
  PROVE  /\ cur[d] \in batch[d] /\ cur[d] \in Messages /\ cur[d] \in stored
         /\ ~row[cur[d]].dead /\ ~row[cur[d]].processed
         /\ Outcome(d) \in Row /\ Outcome(d).retry >= row[cur[d]].retry
         /\ Outcome(d).processed <=> pc[d] = "published"
         /\ Outcome(d).processed => ~Outcome(d).dead
<1> DEFINE m == cur[d]
           c == copy[d][m]
<1>1. m \in batch[d] /\ m \in Messages /\ c \in Row /\ Outcome(d) \in Row
  BY OutcomeRow DEF Owned, TypeInv, Busy
<1>2. m \in stored /\ Agrees(c, row[m]) /\ ~row[m].dead /\ ~row[m].processed
  BY <1>1 DEF Owned, CopiesCurrent, ExclusiveInFlight
<1>3. c.retry \in Nat /\ c.retry = row[m].retry /\ ~c.dead /\ ~c.processed
  BY <1>1, <1>2 DEF Agrees, Row
<1>4. CASE pc[d] = "published"
  <2>1. Outcome(d) = AsProcessed(c)
    BY <1>4 DEF Outcome
  <2>2. AsProcessed(c).retry = c.retry /\ AsProcessed(c).dead = c.dead
    BY <1>1, RowsWritten
  <2>3. AsProcessed(c).processed
    BY <1>1, RowFields
  <2> QED
    BY <1>1, <1>2, <1>3, <1>4, <2>1, <2>2, <2>3
<1>5. CASE pc[d] # "published"
  <2>1. PICK b \in BOOLEAN : Outcome(d) = AsFailed(c, b)
    BY <1>5 DEF Outcome
  <2>2. AsFailed(c, b).retry = c.retry + 1 /\ AsFailed(c, b).processed = c.processed
    BY <1>1, RowsWritten
  <2> QED
    BY <1>1, <1>2, <1>3, <1>5, <2>1, <2>2
<1> QED
  BY <1>4, <1>5

LEMMA OwnedStep ==
  ASSUME SkipLocked, LeaseCoversBatch, ~SavesFail, Owned, [Next]_vars
  PROVE  Owned'
<1>0. /\ TypeInv /\ TypeInv' /\ TypeOK /\ Busy
      /\ ExclusiveInFlight /\ ExclusiveInFlight' /\ CopiesCurrent /\ DeadRows
  BY TypeStep, ExclusiveStep DEF Owned, TypeInv
<1> DEFINE Rest == CopiesCurrent' /\ DeadRows'
<1>1. ASSUME NEW m \in Messages, Add(m) PROVE Rest
  BY <1>0, <1>1 DEF Add, CopiesCurrent, DeadRows, worker
<1>2. ASSUME NEW d \in Dispatchers, Claim(d) PROVE Rest
  <2>1. \A m \in Messages : row[m] \in Row /\ Agrees(row'[m], row[m])
    BY <1>0, <1>2, RowsAgree DEF Claim, TypeOK, Agrees
  <2>2. \A m \in Claimable : m \in Messages /\ m \in stored
    BY DEF Claimable, Eligible
  <2>3. /\ UNCHANGED <<stored, redriving>>
        /\ batch' = [batch EXCEPT ![d] = Claimable]
    BY <1>2 DEF Claim
  <2>4. /\ \A m \in Claimable : copy'[d][m] = row'[m]
        /\ \A e \in Dispatchers : e # d => copy'[e] = copy[e]
    BY <1>0, <1>2, <2>2 DEF Claim, TypeOK
  <2>5. \A e \in Dispatchers : \A m \in batch'[e] : m \in stored' /\ Agrees(copy'[e][m], row'[m])
    BY <1>0, <2>1, <2>2, <2>3, <2>4 DEF CopiesCurrent, Agrees, TypeOK
  <2>6. DeadRows'
    BY <1>0, <2>1, <2>3 DEF DeadRows, Agrees, TypeOK
  <2> QED
    BY <2>5, <2>6 DEF CopiesCurrent
<1>3. ASSUME NEW d \in Dispatchers, Settle(d) PROVE Rest
  <2> DEFINE m == cur[d]
  <2>1. /\ row' = [row EXCEPT ![m] = Outcome(d)] /\ UNCHANGED <<stored, redriving>>
        /\ batch' = [batch EXCEPT ![d] = batch[d] \ {m}]
        /\ copy' = [copy EXCEPT ![d][m] = Fresh]
        /\ pc[d] \in {"published", "poison", "failed"}
    BY <1>3 DEF Settle, Finish
  <2>2. /\ m \in batch[d] /\ m \in Messages /\ m \in stored /\ ~row[m].dead
        /\ Outcome(d).processed => ~Outcome(d).dead
    BY <2>1, OutcomeOfRow DEF Owned
  <2>3. \A e \in Dispatchers : \A k \in batch'[e] :
          k # m /\ k \in batch[e] /\ copy'[e][k] = copy[e][k] /\ row'[k] = row[k]
    BY <1>0, <2>1, <2>2 DEF TypeOK, ExclusiveInFlight
  <2>4. CopiesCurrent'
    BY <1>0, <2>1, <2>3 DEF CopiesCurrent
  <2>5. DeadRows'
    BY <1>0, <2>1, <2>2 DEF DeadRows, TypeOK
  <2> QED
    BY <2>4, <2>5
<1>4. ASSUME NEW d \in Dispatchers, SettleThrows(d) PROVE Rest
  BY <1>4 DEF SettleThrows
<1>5. ASSUME NEW d \in Dispatchers, Crash(d) PROVE Rest
  <2>1. \A e \in Dispatchers : \A k \in batch'[e] : k \in batch[e] /\ copy'[e][k] = copy[e][k]
    BY <1>0, <1>5 DEF Crash, Abandon, TypeOK
  <2>2. UNCHANGED <<stored, row, redriving>>
    BY <1>5 DEF Crash, store
  <2> QED
    BY <1>0, <2>1, <2>2 DEF CopiesCurrent, DeadRows
<1>6. ASSUME NEW S \in SUBSET Messages, RedriveRead(S) PROVE Rest
  BY <1>0, <1>6 DEF RedriveRead, CopiesCurrent, DeadRows, store, worker
<1>7. ASSUME RedriveSave PROVE Rest
  <2>1. \A m \in Messages : row[m] \in Row
    BY <1>0 DEF TypeOK
  <2>2. /\ \A m \in Messages \ redriving : row'[m] = row[m]
        /\ \A m \in Messages \cap redriving :
             ~row'[m].dead /\ row'[m].processed = row[m].processed
        /\ redriving' = {} /\ UNCHANGED <<stored, batch, copy>>
    BY <1>7, <2>1, RowsWritten DEF RedriveSave, worker
  <2>3. \A e \in Dispatchers : \A k \in batch[e] : k \in Messages /\ k \notin redriving
    BY <1>0 DEF TypeOK, ExclusiveInFlight, DeadRows
  <2> QED
    BY <1>0, <2>2, <2>3 DEF CopiesCurrent, DeadRows
<1>8. ASSUME Tick PROVE Rest
  <2>1. \A m \in Messages : Agrees(row'[m], row[m])
    BY <1>0, <1>8, RowsAgree DEF Tick, TypeOK
  <2>2. ASSUME NEW d \in Dispatchers, NEW m \in Messages
        PROVE  Agrees(copy'[d][m], copy[d][m])
    <3>1. copy'[d][m] = Elapse(copy[d][m]) /\ copy[d][m] \in Row
      BY <1>0, <1>8 DEF Tick, TypeOK
    <3> QED
      BY <3>1, RowsAgree
  <2>3. UNCHANGED <<stored, batch, redriving>>
    BY <1>8 DEF Tick
  <2>4. CopiesCurrent'
    <3>1. \A d \in Dispatchers : \A m \in batch[d] : m \in Messages
      BY <1>0 DEF TypeOK
    <3> QED
      BY <1>0, <2>1, <2>2, <2>3, <3>1 DEF CopiesCurrent, Agrees
  <2>5. DeadRows'
    BY <1>0, <2>1, <2>3 DEF DeadRows, Agrees, TypeOK
  <2> QED
    BY <2>4, <2>5
<1>9. ASSUME UNCHANGED <<stored, row, batch, copy, redriving>> PROVE Rest
  BY <1>0, <1>9 DEF CopiesCurrent, DeadRows
<1>10. Rest
  BY <1>1, <1>2, <1>3, <1>4, <1>5, <1>6, <1>7, <1>8, <1>9
     DEF Next, Work, vars, Take, CheckInbox, RunHandler, AckInbox, AckSwallowed,
         HandlerThrows, AckThrows, store
<1> QED
  BY <1>0, <1>10 DEF Owned

LEMMA OwnedInvariant ==
  ASSUME SkipLocked, LeaseCoversBatch, ~SavesFail
  PROVE  Spec => []Owned
<1>1. Init => Owned
  BY TypeInit DEF Init, Fresh, Owned, ExclusiveInFlight, CopiesCurrent, DeadRows
<1>2. Owned /\ [Next]_vars => Owned'
  BY OwnedStep
<1> QED
  BY <1>1, <1>2, PTL DEF Spec

(* A processed row stays processed, and only a redrive revives a dead row  *)
(* or lowers a retry count: with exclusive claims no dispatcher writes an  *)
(* outdated copy over a newer row.                                         *)
THEOREM NoRowRegresses ==
  ASSUME SkipLocked, LeaseCoversBatch, ~SavesFail
  PROVE  Spec => RowsNeverRegress
<1> DEFINE Kept(m) == /\ row[m].processed => row'[m].processed
                      /\ row[m].dead /\ ~row'[m].dead => m \in redriving
                      /\ row'[m].retry < row[m].retry => m \in redriving
<1>1. ASSUME Owned, [Next]_vars PROVE \A m \in Messages : Kept(m)
  <2>0. TypeOK
    BY <1>1 DEF Owned, TypeInv
  <2>1. ASSUME NEW m \in Messages, Agrees(row'[m], row[m]) PROVE Kept(m)
    <3>1. row[m].retry \in Nat
      BY <2>0 DEF TypeOK, Row
    <3> QED
      BY <2>1, <3>1 DEF Agrees
  <2>2. ASSUME NEW d \in Dispatchers, Claim(d), NEW m \in Messages PROVE Agrees(row'[m], row[m])
    BY <2>0, <2>2, RowsAgree DEF Claim, TypeOK, Agrees
  <2>3. ASSUME Tick, NEW m \in Messages PROVE Agrees(row'[m], row[m])
    BY <2>0, <2>3, RowsAgree DEF Tick, TypeOK
  <2>4. ASSUME NEW d \in Dispatchers, Settle(d), NEW m \in Messages PROVE Kept(m)
    <3>1. row' = [row EXCEPT ![cur[d]] = Outcome(d)] /\ pc[d] \in {"published", "poison", "failed"}
      BY <2>4 DEF Settle
    <3>2. CASE m = cur[d]
      <4>1. /\ ~row[m].dead /\ ~row[m].processed
            /\ Outcome(d) \in Row /\ Outcome(d).retry >= row[m].retry
        BY <1>1, <3>1, <3>2, OutcomeOfRow
      <4>2. row'[m] = Outcome(d) /\ row[m].retry \in Nat /\ Outcome(d).retry \in Nat
        BY <2>0, <3>1, <3>2, <4>1 DEF TypeOK, Row
      <4> QED
        BY <4>1, <4>2
    <3>3. CASE m # cur[d]
      BY <2>0, <2>1, <3>1, <3>3 DEF TypeOK, Agrees
    <3> QED
      BY <3>2, <3>3
  <2>5. ASSUME RedriveSave, NEW m \in Messages, m \notin redriving PROVE Agrees(row'[m], row[m])
    BY <2>5 DEF RedriveSave, Agrees
  <2>6. ASSUME RedriveSave, NEW m \in Messages, m \in redriving PROVE Kept(m)
    <3>1. row'[m] = Redriven(row[m]) /\ row[m] \in Row
      BY <2>0, <2>6 DEF RedriveSave, TypeOK
    <3> QED
      BY <2>6, <3>1, RowsWritten
  <2>7. ASSUME row' = row, NEW m \in Messages PROVE Agrees(row'[m], row[m])
    BY <2>7 DEF Agrees
  <2>8. ASSUME NEW d \in Dispatchers, SettleThrows(d) PROVE FALSE
    BY <2>8 DEF SettleThrows
  <2> HIDE DEF Kept
  <2> QED
    BY <1>1, <2>1, <2>2, <2>3, <2>4, <2>5, <2>6, <2>7, <2>8
       DEF Next, Work, vars, Add, Take, CheckInbox, RunHandler, AckInbox, AckSwallowed,
           HandlerThrows, AckThrows, Crash, RedriveRead, store
<1> QED
  BY <1>1, OwnedInvariant, PTL DEF RowsNeverRegress, Spec
-----------------------------------------------------------------------------
(* The refinement, one step at a time: with the evidence of NoEventLost    *)
(* and the agreement of copies and rows, each step of the outbox is one    *)
(* step of EventDelivery or changes neither of its variables.              *)
LEMMA StatusKept ==
  ASSUME stored' = stored, \A m \in Messages : Agrees(row'[m], row[m])
  PROVE  [m \in Messages |-> Status(m)]' = [m \in Messages |-> Status(m)]
<1>1. \A m \in Messages : Status(m)' = Status(m)
  BY DEF Status, Agrees
<1> QED
  BY <1>1

LEMMA DeliveryStep ==
  ASSUME ~SavesFail, Owned, Evidence, [Next]_vars
  PROVE  [Delivery!Next]_(Delivery!vars)
<1>0. TypeOK /\ Busy /\ ExclusiveInFlight /\ CopiesCurrent /\ DeadRows
  BY DEF Owned, TypeInv
<1> DEFINE status == [m \in Messages |-> Status(m)]
           handled == [m \in Messages |-> {h \in Handlers : ran[m][h] > 0}]
           Goal == [Delivery!Next]_(Delivery!vars)
<1>1. ASSUME ran' = ran PROVE handled' = handled
  BY <1>1
<1>2. ASSUME status' = status, handled' = handled PROVE Goal
  BY <1>2 DEF Delivery!vars
<1>3. ASSUME NEW m \in Messages, Add(m) PROVE Goal
  <2>1. \A k \in Messages : Status(k)' = IF k = m THEN "pending" ELSE Status(k)
    BY <1>0, <1>3 DEF Add, Status, DeadRows
  <2>2. status[m] = "none"
    BY <1>3 DEF Add, Status
  <2>3. status' = [status EXCEPT ![m] = "pending"]
    BY <2>1
  <2>4. handled' = handled
    BY <1>1, <1>3 DEF Add, effects
  <2>5. Delivery!Accept(m)
    BY <2>2, <2>3, <2>4 DEF Delivery!Accept
  <2> QED
    BY <2>5 DEF Delivery!Next
<1>4. ASSUME NEW d \in Dispatchers, Claim(d) PROVE Goal
  <2>1. \A m \in Messages : Agrees(row'[m], row[m])
    BY <1>0, <1>4, RowsAgree DEF Claim, TypeOK, Agrees
  <2> QED
    BY <1>1, <1>2, <1>4, <2>1, StatusKept DEF Claim, effects
<1>5. ASSUME NEW d \in Dispatchers, RunHandler(d) PROVE Goal
  <2>0. PICK m \in Messages, h \in Handlers : m = cur[d] /\ h = at[d]
    BY <1>0, <1>5 DEF RunHandler, TypeOK, Busy
  <2>1. m \in batch[d]
    BY <1>0, <1>5, <2>0 DEF RunHandler, Busy
  <2>2. status[m] = "pending"
    BY <1>0, <2>1 DEF ExclusiveInFlight, CopiesCurrent, Status
  <2>3. handled' = [handled EXCEPT ![m] = @ \cup {h}]
    <3>1. \A k \in Messages : {g \in Handlers : ran'[k][g] > 0} =
            IF k = m THEN {g \in Handlers : ran[k][g] > 0} \cup {h}
            ELSE {g \in Handlers : ran[k][g] > 0}
      BY <1>0, <1>5, <2>0 DEF RunHandler, TypeOK
    <3> QED
      BY <3>1
  <2>4. status' = status
    BY <1>5, StatusKept DEF RunHandler, store, Agrees
  <2>5. Delivery!Handle(m, h)
    BY <2>2, <2>3, <2>4 DEF Delivery!Handle
  <2> QED
    BY <2>5 DEF Delivery!Next
<1>6. ASSUME NEW d \in Dispatchers, Settle(d) PROVE Goal
  <2>0. PICK m \in Messages : m = cur[d]
    BY <1>0, <1>6 DEF Settle, TypeOK, Busy
  <2>1. /\ row' = [row EXCEPT ![m] = Outcome(d)] /\ UNCHANGED <<stored, ran>>
        /\ pc[d] \in {"published", "poison", "failed"}
    BY <1>6, <2>0 DEF Settle, effects
  <2>2. /\ m \in Messages /\ m \in stored /\ ~row[m].dead /\ ~row[m].processed
        /\ Outcome(d).processed <=> pc[d] = "published"
        /\ Outcome(d).processed => ~Outcome(d).dead
    BY <2>0, <2>1, OutcomeOfRow
  <2>3. row'[m] = Outcome(d) /\ \A k \in Messages : k # m => row'[k] = row[k]
    BY <1>0, <2>1, <2>2 DEF TypeOK
  <2>4. status[m] = "pending" /\ handled' = handled
    BY <1>1, <2>1, <2>2 DEF Status
  <2>5. \A k \in Messages : k # m => Status(k)' = Status(k)
    BY <2>1, <2>3 DEF Status
  <2>6. status' = [status EXCEPT ![m] = Status(m)']
    BY <2>5
  <2>7. CASE pc[d] = "published"
    <3>1. AllRan(m)
      BY <2>0, <2>7 DEF Evidence, PassedHandlersRan
    <3>2. handled[m] = Handlers
      BY <2>2, <3>1 DEF AllRan
    <3>3. Status(m)' = "done"
      BY <2>1, <2>2, <2>3, <2>7 DEF Status
    <3>4. Delivery!Complete(m)
      BY <2>4, <2>6, <3>2, <3>3 DEF Delivery!Complete
    <3> QED
      BY <2>2, <3>4 DEF Delivery!Next
  <2>8. CASE pc[d] # "published" /\ Outcome(d).dead
    <3>1. Status(m)' = "dead"
      BY <2>1, <2>2, <2>3, <2>8 DEF Status
    <3>2. Delivery!GiveUp(m)
      BY <2>4, <2>6, <3>1 DEF Delivery!GiveUp
    <3> QED
      BY <2>2, <3>2 DEF Delivery!Next
  <2>9. CASE pc[d] # "published" /\ ~Outcome(d).dead
    <3>1. Status(m)' = Status(m)
      BY <2>1, <2>2, <2>3, <2>9 DEF Status
    <3>2. status' = status
      BY <2>5, <3>1
    <3> QED
      BY <1>2, <2>4, <3>2
  <2> QED
    BY <2>7, <2>8, <2>9
<1>7. ASSUME NEW d \in Dispatchers, SettleThrows(d) PROVE FALSE
  BY <1>7 DEF SettleThrows
<1>8. ASSUME RedriveSave PROVE Goal
  <2> DEFINE S == redriving
  <2>1. S \in SUBSET Messages /\ \A m \in S : row[m] \in Row
    BY <1>0 DEF TypeOK
  <2>2. \A m \in S : /\ m \in stored /\ row[m].dead /\ ~row[m].processed
                     /\ ~row'[m].dead /\ ~row'[m].processed
    BY <1>0, <1>8, <2>1, RowsWritten DEF RedriveSave, DeadRows
  <2>3. \A m \in Messages : Status(m)' = IF m \in S THEN "pending" ELSE Status(m)
    BY <1>8, <2>2 DEF RedriveSave, Status
  <2>4. \A m \in S : status[m] = "dead"
    BY <2>1, <2>2 DEF Status
  <2>5. status' = [m \in Messages |-> IF m \in S THEN "pending" ELSE status[m]]
    BY <2>3
  <2>6. handled' = handled
    BY <1>1, <1>8 DEF RedriveSave, effects
  <2>7. Delivery!Redrive(S)
    BY <2>4, <2>5, <2>6 DEF Delivery!Redrive
  <2> QED
    BY <2>1, <2>7 DEF Delivery!Next
<1>9. ASSUME Tick PROVE Goal
  <2>1. \A m \in Messages : Agrees(row'[m], row[m])
    BY <1>0, <1>9, RowsAgree DEF Tick, TypeOK
  <2> QED
    BY <1>1, <1>2, <1>9, <2>1, StatusKept DEF Tick, effects
<1>10. ASSUME UNCHANGED <<stored, row, ran>> PROVE Goal
  BY <1>1, <1>2, <1>10, StatusKept DEF Agrees
<1> HIDE DEF Goal
<1>11. Goal
  BY <1>3, <1>4, <1>5, <1>6, <1>7, <1>8, <1>9, <1>10
     DEF Next, Work, vars, Take, CheckInbox, AckInbox, AckSwallowed,
         HandlerThrows, AckThrows, Crash, RedriveRead, store, effects
<1> QED
  BY <1>11 DEF Goal

(* The outbox implements at-least-once delivery with a dead-letter list,   *)
(* as the module that writes an event may rely on it, for every number of  *)
(* dispatchers, as long as a batch is finished within its lease and no     *)
(* save fails.                                                             *)
THEOREM OutboxImplementsDelivery ==
  ASSUME SkipLocked, LeaseCoversBatch, ~SavesFail
  PROVE  Spec => ImplementsDelivery
<1>1. Init => Delivery!Init
  BY DEF Init, Delivery!Init, Status
<1>2. Spec => []Evidence
  BY EvidenceInit, EvidenceStep, PTL DEF Spec
<1>3. Owned /\ Evidence /\ [Next]_vars => [Delivery!Next]_(Delivery!vars)
  BY DeliveryStep
<1> QED
  BY <1>1, <1>2, <1>3, OwnedInvariant, PTL DEF Spec, ImplementsDelivery, Delivery!Spec
-----------------------------------------------------------------------------
(* Why a handler's effect is repeated only after a fault: it runs only     *)
(* while the inbox does not know of it, and each committed effect is in    *)
(* the inbox, about to be recorded there, or was given up by a fault.      *)
RunsUnrecorded == \A d \in Dispatchers : pc[d] = "run" => at[d] \notin inbox[cur[d]]

Acking(m, h) == \E d \in Dispatchers : pc[d] = "ack" /\ cur[d] = m /\ at[d] = h

RunsCounted ==
  \A m \in Messages, h \in Handlers :
    ran[m][h] <= faults + (IF h \in inbox[m] \/ Acking(m, h) THEN 1 ELSE 0)

(* Exclusive claims: no two dispatchers work on one message *)
LEMMA OwnMessage ==
  ASSUME Owned, NEW d \in Dispatchers, NEW e \in Dispatchers, d # e,
         pc[d] \notin {"idle", "loop"}, pc[e] \notin {"idle", "loop"}
  PROVE  cur[d] # cur[e]
BY DEF Owned, TypeInv, Busy, ExclusiveInFlight

LEMMA CountKept ==
  ASSUME TypeOK, RunsCounted, ran' = ran, inbox' = inbox, faults' = faults,
         \A m \in Messages, h \in Handlers : Acking(m, h) => Acking(m, h)'
  PROVE  RunsCounted'
BY DEF RunsCounted, TypeOK

LEMMA CountFault ==
  ASSUME TypeOK, RunsCounted, ran' = ran, faults' = faults + 1
  PROVE  RunsCounted'
<1>1. faults \in Nat /\ \A m \in Messages, h \in Handlers : ran[m][h] \in Nat
  BY OutboxAssumption DEF OutboxAssumption, TypeOK
<1>2. \A m \in Messages, h \in Handlers : ran[m][h] <= faults + 1
  BY <1>1 DEF RunsCounted
<1> QED
  BY <1>1, <1>2 DEF RunsCounted

LEMMA CountStep ==
  ASSUME ~SavesFail, Owned, RunsUnrecorded, RunsCounted, [Next]_vars
  PROVE  RunsUnrecorded' /\ RunsCounted'
<1>0. TypeOK /\ Busy
  BY DEF Owned, TypeInv
<1>f. faults \in Nat
  BY <1>0, OutboxAssumption DEF OutboxAssumption, TypeOK
<1> DEFINE Goal == RunsUnrecorded' /\ RunsCounted'
(* A step of dispatcher d that neither starts nor ends a handler's run *)
<1>1. ASSUME NEW d \in Dispatchers, UNCHANGED effects, pc'[d] # "run", pc[d] # "ack",
             \A e \in Dispatchers : e # d => pc'[e] = pc[e] /\ cur'[e] = cur[e] /\ at'[e] = at[e]
      PROVE  /\ RunsUnrecorded'
             /\ faults' = faults => RunsCounted'
  <2>1. RunsUnrecorded'
    BY <1>1 DEF RunsUnrecorded, effects
  <2>2. \A m, h : Acking(m, h) => Acking(m, h)'
    BY <1>1 DEF Acking
  <2> QED
    BY <1>0, <1>1, <2>1, <2>2, CountKept DEF effects
(* ... and one that loses track of a run, or may *)
<1>2. ASSUME NEW d \in Dispatchers, UNCHANGED effects, pc'[d] # "run", faults' = faults + 1,
             \A e \in Dispatchers : e # d => pc'[e] = pc[e] /\ cur'[e] = cur[e] /\ at'[e] = at[e]
      PROVE  Goal
  BY <1>0, <1>2, CountFault DEF RunsUnrecorded, effects
<1>3. ASSUME NEW d \in Dispatchers, Claim(d) PROVE Goal
  BY <1>0, <1>1, <1>3 DEF Claim, TypeOK
<1>4. ASSUME NEW d \in Dispatchers, NEW m \in Messages, Take(d, m) PROVE Goal
  BY <1>0, <1>1, <1>4 DEF Take, TypeOK
<1>5. ASSUME NEW d \in Dispatchers, CheckInbox(d) PROVE Goal
  <2>1. CASE at[d] \in inbox[cur[d]]
    BY <1>0, <1>1, <1>5, <2>1 DEF CheckInbox, NextHandler, TypeOK
  <2>2. CASE at[d] \notin inbox[cur[d]]
    <3>1. UNCHANGED <<effects, cur, at, faults>> /\ pc' = [pc EXCEPT ![d] = "run"] /\ pc[d] = "check"
      BY <1>5, <2>2 DEF CheckInbox
    <3>2. RunsUnrecorded'
      BY <1>0, <2>2, <3>1 DEF RunsUnrecorded, effects, TypeOK
    <3>3. \A m, h : Acking(m, h) => Acking(m, h)'
      BY <1>0, <3>1 DEF Acking, TypeOK
    <3> QED
      BY <1>0, <3>1, <3>2, <3>3, CountKept DEF effects
  <2> QED
    BY <2>1, <2>2
<1>6. ASSUME NEW d \in Dispatchers, RunHandler(d) PROVE Goal
  <2>0. PICK m \in Messages, h \in Handlers : m = cur[d] /\ h = at[d]
    BY <1>0, <1>6 DEF RunHandler, TypeOK, Busy
  <2>1. /\ UNCHANGED <<inbox, cur, at, faults>> /\ pc[d] = "run"
        /\ pc' = [pc EXCEPT ![d] = "ack"]
        /\ ran' = [ran EXCEPT ![m][h] = @ + 1]
    BY <1>6, <2>0 DEF RunHandler
  <2>2. RunsUnrecorded'
    BY <1>0, <2>1 DEF RunsUnrecorded, TypeOK
  <2>3. \A k, g : Acking(k, g) => Acking(k, g)'
    BY <1>0, <2>1 DEF Acking, TypeOK
  <2>4. h \notin inbox[m] /\ ~Acking(m, h)
    <3>1. ASSUME NEW e \in Dispatchers, pc[e] = "ack" PROVE cur[e] # m
      BY <2>0, <2>1, <3>1, OwnMessage
    <3> QED
      BY <2>0, <2>1, <3>1 DEF RunsUnrecorded, Acking
  <2>5. ran[m][h] <= faults /\ Acking(m, h)'
    BY <1>0, <1>f, <2>0, <2>1, <2>4 DEF RunsCounted, Acking, TypeOK
  <2>6. ran'[m][h] = ran[m][h] + 1 /\ ran[m][h] \in Nat
    BY <1>0, <2>1 DEF TypeOK
  <2>7. \A k \in Messages, g \in Handlers :
          (k # m \/ g # h) => ran'[k][g] = ran[k][g]
    BY <1>0, <2>1 DEF TypeOK
  <2>8. ASSUME NEW k \in Messages, NEW g \in Handlers
        PROVE  ran'[k][g] <= faults' + (IF g \in inbox'[k] \/ Acking(k, g)' THEN 1 ELSE 0)
    <3>1. CASE k = m /\ g = h
      BY <1>f, <2>1, <2>5, <2>6, <3>1
    <3>2. CASE k # m \/ g # h
      <4>1. ran[k][g] <= faults + (IF g \in inbox[k] \/ Acking(k, g) THEN 1 ELSE 0)
        BY DEF RunsCounted
      <4>2. ran[k][g] \in Nat
        BY <1>0 DEF TypeOK
      <4> QED
        BY <1>f, <2>1, <2>3, <2>7, <3>2, <4>1, <4>2
    <3> QED
      BY <3>1, <3>2
  <2> QED
    BY <2>2, <2>8 DEF RunsCounted
<1>7. ASSUME NEW d \in Dispatchers, AckInbox(d) PROVE Goal
  <2>0. PICK m \in Messages, h \in Handlers : m = cur[d] /\ h = at[d]
    BY <1>0, <1>7 DEF AckInbox, TypeOK, Busy
  <2>1. /\ UNCHANGED <<ran, cur, faults>> /\ pc[d] = "ack" /\ pc'[d] # "run" /\ pc'[d] # "ack"
        /\ inbox' = [inbox EXCEPT ![m] = @ \cup {h}]
        /\ \A e \in Dispatchers : e # d => pc'[e] = pc[e] /\ at'[e] = at[e]
    BY <1>0, <1>7, <2>0 DEF AckInbox, NextHandler, TypeOK
  <2>2. ASSUME NEW e \in Dispatchers, pc'[e] = "run" PROVE at'[e] \notin inbox'[cur'[e]]
    <3>1. e # d /\ pc[e] = "run" /\ cur[e] # m
      BY <2>0, <2>1, <2>2, OwnMessage
    <3> QED
      BY <1>0, <2>1, <3>1 DEF RunsUnrecorded, TypeOK, Busy
  <2>3. ASSUME NEW k \in Messages, NEW g \in Handlers, g \in inbox[k] \/ Acking(k, g)
        PROVE  g \in inbox'[k] \/ Acking(k, g)'
    BY <1>0, <2>0, <2>1, <2>3 DEF Acking, TypeOK
  <2>4. RunsCounted'
    BY <1>0, <1>f, <2>1, <2>3 DEF RunsCounted, TypeOK
  <2> QED
    BY <2>2, <2>4 DEF RunsUnrecorded
<1>8. ASSUME NEW d \in Dispatchers, AckSwallowed(d) PROVE Goal
  BY <1>0, <1>2, <1>8 DEF AckSwallowed, NextHandler, TypeOK
<1>9. ASSUME NEW d \in Dispatchers, HandlerThrows(d) PROVE Goal
  BY <1>0, <1>1, <1>9 DEF HandlerThrows, TypeOK
<1>10. ASSUME NEW d \in Dispatchers, AckThrows(d) PROVE Goal
  BY <1>0, <1>2, <1>10 DEF AckThrows, TypeOK
<1>11. ASSUME NEW d \in Dispatchers, Settle(d) PROVE Goal
  BY <1>0, <1>1, <1>11 DEF Settle, Finish, TypeOK
<1>12. ASSUME NEW d \in Dispatchers, SettleThrows(d) PROVE FALSE
  BY <1>12 DEF SettleThrows
<1>13. ASSUME NEW d \in Dispatchers, Crash(d) PROVE Goal
  BY <1>0, <1>2, <1>13 DEF Crash, Abandon, TypeOK
<1>14. ASSUME UNCHANGED <<effects, pc, cur, at, faults>> PROVE Goal
  BY <1>0, <1>14, CountKept DEF RunsUnrecorded, Acking, effects
<1> HIDE DEF Goal
<1>15. Goal
  BY <1>3, <1>4, <1>5, <1>6, <1>7, <1>8, <1>9, <1>10, <1>11, <1>12, <1>13, <1>14
     DEF Next, Work, vars, Add, RedriveRead, RedriveSave, Tick, effects, worker
<1> QED
  BY <1>15 DEF Goal

(* The effects of a handler are repeated for a message no more often than  *)
(* faults happened: without crashes and lost inbox rows, exactly once.     *)
THEOREM RepetitionsNeedFaults ==
  ASSUME SkipLocked, LeaseCoversBatch, ~SavesFail
  PROVE  Spec => []RepeatsAreFaults
<1>1. Init => RunsUnrecorded /\ RunsCounted
  BY DEF Init, RunsUnrecorded, RunsCounted
<1>2. /\ Owned /\ RunsUnrecorded /\ RunsCounted /\ [Next]_vars
      => RunsUnrecorded' /\ RunsCounted'
  BY CountStep
<1>3. Owned /\ RunsCounted => RepeatsAreFaults
  BY OutboxAssumption DEF OutboxAssumption, Owned, TypeInv, TypeOK, RunsCounted, RepeatsAreFaults
<1> QED
  BY <1>1, <1>2, <1>3, OwnedInvariant, PTL DEF Spec
=============================================================================
