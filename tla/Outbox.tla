------------------------------- MODULE Outbox -------------------------------
(***************************************************************************)
(* The transactional outbox of BuildingBlocks/Eventing with the PostgreSQL *)
(* store, several dispatcher instances, the in-process event bus and the   *)
(* inbox.                                                                  *)
(*                                                                         *)
(* Each store call is one step (one SQL statement or one SaveChanges), so  *)
(* dispatchers interleave between a claim, each handler and the final      *)
(* write.  A dispatcher keeps the row as it was when claimed and writes    *)
(* ALL columns back (DbSet.Update): that copy is part of the state.        *)
(*                                                                         *)
(* Times are kept as the ticks that remain: delay until NextRetryAt has    *)
(* come, lease until ClaimedUntilUtc has passed; 0 also stands for null.   *)
(***************************************************************************)
EXTENDS Integers, FiniteSets

CONSTANTS
  NumMessages,      \* events ever written; their order is CreatedOnUtc's
  NumHandlers,      \* handlers registered for the event type
  Dispatchers,      \* host instances running OutboxDispatcherHostedService
  BatchSize,        \* OutboxBatchSize
  MaxRetries,       \* OutboxMaxRetries
  LeaseTicks,       \* OutboxClaimLeaseSeconds
  BaseDelay,        \* OutboxRetryBaseDelaySeconds
  MaxDelay,         \* OutboxRetryMaxDelaySeconds
  Poison,           \* messages whose payload does not deserialize
  SkipLocked,       \* TRUE: Npgsql; FALSE: any other provider, no claiming
  LeaseCoversBatch, \* TRUE: a batch is always finished before its lease ends
  SavesFail,        \* TRUE: the dispatcher's SaveChanges may throw
  MaxFaults         \* bound on crashes, failed saves and lost inbox rows

ASSUME OutboxAssumption ==
  /\ NumMessages \in Nat /\ NumHandlers \in Nat
  /\ BatchSize \in Nat \ {0} /\ MaxRetries \in Nat \ {0}
  /\ LeaseTicks \in Nat \ {0} /\ BaseDelay \in Nat \ {0} /\ MaxDelay \in Nat \ {0}
  /\ Poison \subseteq 1..NumMessages
  /\ SkipLocked \in BOOLEAN /\ LeaseCoversBatch \in BOOLEAN /\ SavesFail \in BOOLEAN
  /\ MaxFaults \in Nat

Messages == 1..NumMessages
Handlers == 1..NumHandlers

VARIABLES
  stored,     \* messages that have an outbox row
  row,        \* the OutboxMessages table
  inbox,      \* the InboxMessages table: handlers recorded per message
  ran,        \* how often each handler's effect was committed, per message
  pc,         \* where each dispatcher is in DispatchAsync
  batch,      \* claimed messages it has not finished, the current one included
  copy,       \* its tracked entities, as claimed and then modified in memory
  cur,        \* the message of the current iteration
  at,         \* the handler of the current PublishSingleAsync loop
  redriving,  \* dead rows an operator's redrive has read and not yet saved
  faults      \* injected faults so far

store == <<stored, row>>
effects == <<inbox, ran>>
worker == <<pc, batch, copy, cur, at>>
vars == <<stored, row, inbox, ran, pc, batch, copy, cur, at, redriving, faults>>

Fresh == [processed |-> FALSE, retry |-> 0, dead |-> FALSE, delay |-> 0, lease |-> 0]

Row == [processed : BOOLEAN, retry : Nat, dead : BOOLEAN, delay : Nat, lease : Nat]

Steps == {"idle", "loop", "check", "run", "ack", "published", "poison", "failed"}

TypeOK ==
  /\ stored \subseteq Messages
  /\ row \in [Messages -> Row]
  /\ inbox \in [Messages -> SUBSET Handlers]
  /\ ran \in [Messages -> [Handlers -> Nat]]
  /\ pc \in [Dispatchers -> Steps]
  /\ batch \in [Dispatchers -> SUBSET Messages]
  /\ copy \in [Dispatchers -> [Messages -> Row]]
  /\ cur \in [Dispatchers -> Messages \cup {0}]
  /\ at \in [Dispatchers -> 0..(NumHandlers + 1)]
  /\ redriving \subseteq Messages
  /\ faults \in 0..MaxFaults

Init ==
  /\ stored = {}
  /\ row = [m \in Messages |-> Fresh]
  /\ inbox = [m \in Messages |-> {}]
  /\ ran = [m \in Messages |-> [h \in Handlers |-> 0]]
  /\ pc = [d \in Dispatchers |-> "idle"]
  /\ batch = [d \in Dispatchers |-> {}]
  /\ copy = [d \in Dispatchers |-> [m \in Messages |-> Fresh]]
  /\ cur = [d \in Dispatchers |-> 0]
  /\ at = [d \in Dispatchers |-> 0]
  /\ redriving = {}
  /\ faults = 0
-----------------------------------------------------------------------------
(* A module writes an event: IOutboxWriter.AddAsync *)
Add(m) ==
  /\ m \notin stored
  /\ stored' = stored \cup {m}
  /\ UNCHANGED <<row, effects, worker, redriving, faults>>

(* min(base * 2^(retry - 1), max), the exponent clamped at 30 *)
Backoff(retry) ==
  LET exponent == IF retry - 1 < 30 THEN retry - 1 ELSE 30
      delay == BaseDelay * 2 ^ exponent
  IN  IF delay \in 1..MaxDelay THEN delay ELSE MaxDelay

(* Faulty: the claim forgets the lease filter *)
EligibleDespiteLease(m) ==
  m \in stored /\ ~row[m].dead /\ ~row[m].processed /\ row[m].delay = 0

Eligible(m) ==
  /\ m \in stored /\ ~row[m].dead /\ ~row[m].processed /\ row[m].delay = 0
  /\ SkipLocked => row[m].lease = 0

(* The oldest eligible rows, at most BatchSize of them *)
Claimable ==
  {m \in Messages : Eligible(m) /\ Cardinality({k \in 1..(m - 1) : Eligible(k)}) < BatchSize}

(* The lease a claim stamps; a row may be claimed again strictly after it *)
NewLease == IF SkipLocked THEN LeaseTicks + 1 ELSE 0

Claim(d) ==
  /\ pc[d] = "idle"
  /\ Claimable # {}
  /\ row' = [m \in Messages |->
               IF m \in Claimable THEN [row[m] EXCEPT !.lease = NewLease] ELSE row[m]]
  /\ batch' = [batch EXCEPT ![d] = Claimable]
  /\ copy' = [copy EXCEPT ![d] = [m \in Messages |->
               IF m \in Claimable THEN row'[m] ELSE Fresh]]
  /\ pc' = [pc EXCEPT ![d] = "loop"]
  /\ UNCHANGED <<stored, effects, cur, at, redriving, faults>>

(* The next iteration; RETURNING gives the rows back in no particular order *)
Take(d, m) ==
  /\ pc[d] = "loop"
  /\ m \in batch[d]
  /\ cur' = [cur EXCEPT ![d] = m]
  /\ at' = [at EXCEPT ![d] = 1]
  /\ pc' = [pc EXCEPT ![d] = IF m \in Poison THEN "poison"
                             ELSE IF NumHandlers = 0 THEN "published" ELSE "check"]
  /\ UNCHANGED <<store, effects, batch, copy, redriving, faults>>

(* Faulty: PublishAsync returns before the last handler *)
NextHandlerSkipsLast(d) ==
  /\ at' = [at EXCEPT ![d] = @ + 1]
  /\ pc' = [pc EXCEPT ![d] = IF at[d] + 1 >= NumHandlers THEN "published" ELSE "check"]

(* On to the next handler, or out of PublishAsync after the last one *)
NextHandler(d) ==
  /\ at' = [at EXCEPT ![d] = @ + 1]
  /\ pc' = [pc EXCEPT ![d] = IF at[d] = NumHandlers THEN "published" ELSE "check"]

(* Faulty: handlers run without asking the inbox *)
CheckInboxIgnored(d) ==
  /\ pc[d] = "check"
  /\ pc' = [pc EXCEPT ![d] = "run"]
  /\ UNCHANGED <<store, effects, batch, copy, cur, at, redriving, faults>>

(* HasProcessedAsync decides whether the handler is skipped *)
CheckInbox(d) ==
  /\ pc[d] = "check"
  /\ IF at[d] \in inbox[cur[d]]
     THEN NextHandler(d)
     ELSE /\ pc' = [pc EXCEPT ![d] = "run"]
          /\ UNCHANGED at
  /\ UNCHANGED <<store, effects, batch, copy, cur, redriving, faults>>

RunHandler(d) ==
  /\ pc[d] = "run"
  /\ ran' = [ran EXCEPT ![cur[d]][at[d]] = @ + 1]
  /\ pc' = [pc EXCEPT ![d] = "ack"]
  /\ UNCHANGED <<store, inbox, batch, copy, cur, at, redriving, faults>>

(* inbox.MarkProcessedAsync, idempotent on the key (message, handler) *)
AckInbox(d) ==
  /\ pc[d] = "ack"
  /\ inbox' = [inbox EXCEPT ![cur[d]] = @ \cup {at[d]}]
  /\ NextHandler(d)
  /\ UNCHANGED <<store, ran, batch, copy, cur, redriving, faults>>

(* Any DbUpdateException on that insert counts as "already processed" *)
AckSwallowed(d) ==
  /\ pc[d] = "ack"
  /\ faults < MaxFaults /\ faults' = faults + 1
  /\ NextHandler(d)
  /\ UNCHANGED <<store, effects, batch, copy, cur, redriving>>

(* Faulty: the bus logs the exception and does not rethrow it *)
HandlerThrowsSwallowed(d) ==
  /\ pc[d] \in {"check", "run"}
  /\ NextHandler(d)
  /\ UNCHANGED <<store, effects, batch, copy, cur, redriving, faults>>

(* The inbox lookup or the handler throws before the handler had an effect *)
HandlerThrows(d) ==
  /\ pc[d] \in {"check", "run"}
  /\ pc' = [pc EXCEPT ![d] = "failed"]
  /\ UNCHANGED <<store, effects, batch, copy, cur, at, redriving, faults>>

(* The handler throws after its effect, or the inbox lookup after it does *)
AckThrows(d) ==
  /\ pc[d] = "ack"
  /\ faults < MaxFaults /\ faults' = faults + 1
  /\ pc' = [pc EXCEPT ![d] = "failed"]
  /\ UNCHANGED <<store, effects, batch, copy, cur, at, redriving>>
-----------------------------------------------------------------------------
(* The current message leaves the batch; the foreach goes on or DispatchAsync ends *)
Finish(d) ==
  LET rest == batch[d] \ {cur[d]} IN
  /\ batch' = [batch EXCEPT ![d] = rest]
  /\ copy' = [copy EXCEPT ![d][cur[d]] = Fresh]
  /\ pc' = [pc EXCEPT ![d] = IF rest = {} THEN "idle" ELSE "loop"]
  /\ cur' = [cur EXCEPT ![d] = 0]
  /\ at' = [at EXCEPT ![d] = 0]

(* DispatchAsync ends early: its scope, with the tracked entities, is gone *)
Abandon(d) ==
  /\ batch' = [batch EXCEPT ![d] = {}]
  /\ copy' = [copy EXCEPT ![d] = [m \in Messages |-> Fresh]]
  /\ pc' = [pc EXCEPT ![d] = "idle"]
  /\ cur' = [cur EXCEPT ![d] = 0]
  /\ at' = [at EXCEPT ![d] = 0]

(* Faulty: a new entity is written instead of the claimed one *)
AsProcessedAnew(c) == [Fresh EXCEPT !.processed = TRUE]

(* The entity as MarkAsProcessedAsync and MarkAsFailedAsync write it: every column *)
AsProcessed(c) == [c EXCEPT !.processed = TRUE, !.lease = 0]

(* Faulty: the attempt is not counted *)
AsFailedUncounted(c, isDead) ==
  [c EXCEPT !.dead = isDead, !.lease = 0, !.delay = IF isDead THEN 0 ELSE Backoff(c.retry + 1)]

AsFailed(c, isDead) ==
  [c EXCEPT !.retry = @ + 1, !.dead = isDead, !.lease = 0,
            !.delay = IF isDead THEN 0 ELSE Backoff(c.retry + 1)]

(* Faulty: one attempt too many *)
OutcomeOffByOne(d) ==
  LET c == copy[d][cur[d]] IN
  IF pc[d] = "published" THEN AsProcessed(c)
  ELSE AsFailed(c, pc[d] = "poison" \/ c.retry >= MaxRetries)

(* A payload that does not deserialize is dead at once *)
Outcome(d) ==
  LET c == copy[d][cur[d]] IN
  IF pc[d] = "published" THEN AsProcessed(c)
  ELSE AsFailed(c, pc[d] = "poison" \/ c.retry + 1 >= MaxRetries)

Settle(d) ==
  /\ pc[d] \in {"published", "poison", "failed"}
  /\ row' = [row EXCEPT ![cur[d]] = Outcome(d)]
  /\ Finish(d)
  /\ UNCHANGED <<stored, effects, redriving, faults>>

(* SaveChanges throws, with the row written or not.  Inside the try block  *)
(* the catch clause calls MarkAsFailedAsync on the same, modified entity;  *)
(* in the catch clause the exception leaves DispatchAsync.                 *)
SettleThrows(d) ==
  /\ SavesFail
  /\ pc[d] \in {"published", "poison", "failed"}
  /\ faults < MaxFaults /\ faults' = faults + 1
  /\ row' \in {row, [row EXCEPT ![cur[d]] = Outcome(d)]}
  /\ IF pc[d] = "failed"
     THEN Abandon(d)
     ELSE /\ copy' = [copy EXCEPT ![d][cur[d]] = Outcome(d)]
          /\ pc' = [pc EXCEPT ![d] = "failed"]
          /\ UNCHANGED <<batch, cur, at>>
  /\ UNCHANGED <<stored, effects, redriving>>

(* The instance stops; its rows stay leased until the lease has passed *)
Crash(d) ==
  /\ pc[d] # "idle"
  /\ faults < MaxFaults /\ faults' = faults + 1
  /\ Abandon(d)
  /\ UNCHANGED <<store, effects, redriving>>
-----------------------------------------------------------------------------
(* RedriveDeadLettersAsync reads the dead rows, all or those asked for ... *)
RedriveRead(S) ==
  /\ redriving = {}
  /\ S # {} /\ S \subseteq {m \in stored : row[m].dead}
  /\ redriving' = S
  /\ UNCHANGED <<store, effects, worker, faults>>

(* ... and saves the columns it changed: the claim was null and stays as it is *)
Redriven(r) == [r EXCEPT !.dead = FALSE, !.retry = 0]

RedriveSave ==
  /\ redriving # {}
  /\ row' = [m \in Messages |-> IF m \in redriving THEN Redriven(row[m]) ELSE row[m]]
  /\ redriving' = {}
  /\ UNCHANGED <<stored, effects, worker, faults>>

Down(n) == IF n > 0 THEN n - 1 ELSE 0
(* Faulty: a lease never runs out, the rows of a crashed dispatcher stay claimed *)
ElapseKeepsLease(r) == [r EXCEPT !.delay = Down(@)]

Elapse(r) == [r EXCEPT !.delay = Down(@), !.lease = Down(@)]

(* Time passes.  With LeaseCoversBatch it does not outrun a batch in flight *)
Tick ==
  /\ LeaseCoversBatch => \A d \in Dispatchers : \A m \in batch[d] : row[m].lease # 1
  /\ \E m \in Messages : row[m].delay > 0 \/ row[m].lease > 0
  /\ row' = [m \in Messages |-> Elapse(row[m])]
  /\ copy' = [d \in Dispatchers |-> [m \in Messages |-> Elapse(copy[d][m])]]
  /\ UNCHANGED <<stored, effects, pc, batch, cur, at, redriving, faults>>

Work(d) ==
  \/ \E m \in Messages : Take(d, m)
  \/ CheckInbox(d) \/ RunHandler(d) \/ AckInbox(d) \/ AckSwallowed(d)
  \/ HandlerThrows(d) \/ AckThrows(d) \/ Settle(d) \/ SettleThrows(d)

Next ==
  \/ \E m \in Messages : Add(m)
  \/ \E d \in Dispatchers : Claim(d) \/ Work(d) \/ Crash(d)
  \/ \E S \in SUBSET Messages : RedriveRead(S)
  \/ RedriveSave
  \/ Tick

Spec == Init /\ [][Next]_vars

(* The hosted service polls for ever, handlers and saves return or throw,  *)
(* and time passes; nothing is assumed of the operator or of the producers *)
FairSpec ==
  /\ Spec
  /\ \A d \in Dispatchers : WF_vars(Claim(d)) /\ WF_vars(Work(d))
  /\ WF_vars(Tick)
-----------------------------------------------------------------------------
AllRan(m) == \A h \in Handlers : ran[m][h] > 0

(* No event is lost: a row carries ProcessedOnUtc only once every handler  *)
(* has committed its effect, whatever leases expire, dispatchers crash or  *)
(* saves fail between PublishAsync and MarkAsProcessedAsync.               *)
ProcessedOnlyAfterHandled == \A m \in Messages : row[m].processed => AllRan(m)

(* A live (not dead-lettered) row always has retry budget left, also after *)
(* the writes of dispatchers whose copy is stale and after a redrive.      *)
PendingWithinBudget ==
  \A m \in Messages : ~row[m].dead => row[m].retry < MaxRetries

(* "Two dispatchers racing partition the batch": no message is in flight   *)
(* in two dispatchers, and its row is still eligible for nobody else.      *)
ExclusiveInFlight ==
  \A d \in Dispatchers : \A m \in batch[d] :
    /\ ~row[m].processed /\ ~row[m].dead
    /\ SkipLocked => row[m].lease > 0
    /\ \A e \in Dispatchers \ {d} : m \notin batch[e]

(* The inbox makes the effects of at-least-once delivery idempotent: every *)
(* repetition of a handler is accounted for by a crash or a lost inbox row.*)
RepeatsAreFaults ==
  \A m \in Messages : \A h \in Handlers : ran[m][h] <= 1 + faults

(* A row never goes back: processed stays processed, and only an operator's*)
(* redrive revives a dead row or lowers its retry count.                   *)
RowsNeverRegress ==
  [][\A m \in Messages :
       /\ row[m].processed => row'[m].processed
       /\ row[m].dead /\ ~row'[m].dead => m \in redriving
       /\ row'[m].retry < row[m].retry => m \in redriving]_vars

(* Every stored message is again and again either processed or dead: a     *)
(* claim of a crashed dispatcher, a back-off or a full batch delays it     *)
(* but cannot strand it.                                                   *)
EventuallySettled ==
  \A m \in Messages : m \in stored ~> row[m].processed \/ row[m].dead

(* The outbox implements the promise of EventDelivery *)
Status(m) ==
  IF m \notin stored THEN "none"
  ELSE IF row[m].dead THEN "dead"
  ELSE IF row[m].processed THEN "done" ELSE "pending"

Delivery == INSTANCE EventDelivery WITH
  status <- [m \in Messages |-> Status(m)],
  handled <- [m \in Messages |-> {h \in Handlers : ran[m][h] > 0}]

(* Every step of the dispatchers, the operator and the clock is a step of  *)
(* at-least-once delivery or invisible to the module that wrote the event. *)
ImplementsDelivery == Delivery!Spec
=============================================================================
