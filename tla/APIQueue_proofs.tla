-------------------------- MODULE APIQueue_proofs ---------------------------
(***************************************************************************)
(* The safety of the API queue, for any callers, priorities and interval.  *)
(***************************************************************************)
EXTENDS APIQueue, SequenceTheorems, WellFoundedInduction, TLAPS

\* Only the task the queue knows is at work.
SoleWorker == \A w \in Workers : worker[w].at # "done" => w = task

\* A worker that holds a request back will start it late enough.
SleepsLongEnough ==
  \A w \in Workers :
    worker[w].at = "limit" => worker[w].delay + since >= MinInterval

\* A worker that has an item has a call's.
HoldsACall ==
  \A w \in Workers :
    worker[w].at \in { "limit", "request" } => worker[w].call \in Calls

\* Without a worker there is nothing to serve and nobody to wait for.
NothingIsLeft ==
  /\ ~Alive(task) => queue = << >> /\ closing = NoWorker
  /\ closing # NoWorker => closing = task
  /\ closed /\ closing = NoWorker => ~Alive(task)

\* A queued call has been overtaken once at most, and not yet if it is about
\* to be.
Overtaking ==
  \A c \in ToSet(queue) :
    /\ passed[c] <= 1
    /\ \A w \in Workers :
         worker[w].at = "limit" /\ Priority[c] < Priority[worker[w].call]
           => passed[c] = 0

QueueInv ==
  /\ TypeOK /\ SoleWorker /\ SleepsLongEnough /\ HoldsACall /\ NothingIsLeft
  /\ Overtaking

-----------------------------------------------------------------------------
(* The least item of a queue, and the queue without it. *)

LEMMA LeastNat ==
  ASSUME NEW T \in SUBSET Nat, T # {}
  PROVE  \E x \in T : \A y \in T : x <= y
<1>1. \E x \in T : \A y \in T : ~ (<< y, x >> \in OpToRel(<, Nat))
  BY NatLessThanWellFounded, WFMin
<1>2. PICK x \in T : \A y \in T : ~ (<< y, x >> \in OpToRel(<, Nat))
  BY <1>1
<1>3. ASSUME NEW y \in T PROVE x <= y
  <2>1. << y, x >> \in Nat \X Nat /\ ~ (y < x)
    BY <1>2 DEF OpToRel
  <2> QED BY <2>1
<1> QED BY <1>3

LEMMA MostUrgentExists ==
  ASSUME NEW q \in Seq(Calls), q # << >>
  PROVE  /\ MostUrgent(q) \in 1..Len(q)
         /\ \A j \in 1..Len(q) : Priority[q[MostUrgent(q)]] <= Priority[q[j]]
<1> USE PriorityAssumption
<1> DEFINE Urgencies == { Priority[q[i]] : i \in 1..Len(q) }
           Least(i) == \A j \in DOMAIN q :
                         \/ Priority[q[i]] < Priority[q[j]]
                         \/ Priority[q[i]] = Priority[q[j]] /\ i <= j
<1>1. Len(q) \in Nat /\ Len(q) > 0 /\ DOMAIN q = 1..Len(q)
  BY EmptySeq
<1>2. \A i \in 1..Len(q) : q[i] \in Calls /\ Priority[q[i]] \in Nat
  BY ElementOfSeq
<1>3. PICK p \in Urgencies : \A r \in Urgencies : p <= r
  <2>1. Urgencies \in SUBSET Nat
    BY <1>2
  <2>2. Priority[q[1]] \in Urgencies
    BY <1>1
  <2> HIDE DEF Urgencies
  <2> QED BY <2>1, <2>2, LeastNat
<1> DEFINE Candidates == { i \in 1..Len(q) : Priority[q[i]] = p }
<1>4. PICK k \in Candidates : \A i \in Candidates : k <= i
  <2>1. Candidates \in SUBSET Nat /\ Candidates # {}
    BY <1>1, <1>3
  <2> HIDE DEF Candidates
  <2> QED BY <2>1, LeastNat
<1>5. k \in DOMAIN q /\ Least(k)
  <2>1. ASSUME NEW j \in DOMAIN q
        PROVE  \/ Priority[q[k]] < Priority[q[j]]
               \/ Priority[q[k]] = Priority[q[j]] /\ k <= j
    <3>1. Priority[q[j]] \in Urgencies /\ j \in 1..Len(q) /\ Priority[q[k]] = p
      BY <1>1, <1>4
    <3>2. p <= Priority[q[j]] /\ p \in Nat /\ Priority[q[j]] \in Nat
      BY <1>2, <1>3, <3>1
    <3>3. Priority[q[j]] = p => k <= j
      BY <1>4, <3>1
    <3> QED BY <3>1, <3>2, <3>3
  <2> QED BY <1>1, <1>4, <2>1
<1>6. MostUrgent(q) \in DOMAIN q /\ Least(MostUrgent(q))
  BY <1>5 DEF MostUrgent
<1>7. ASSUME NEW j \in 1..Len(q)
      PROVE  Priority[q[MostUrgent(q)]] <= Priority[q[j]]
  <2>1. MostUrgent(q) \in 1..Len(q) /\ j \in DOMAIN q
    BY <1>1, <1>6
  <2>2. /\ Priority[q[MostUrgent(q)]] \in Nat /\ Priority[q[j]] \in Nat
    BY <1>2, <2>1
  <2>3. \/ Priority[q[MostUrgent(q)]] < Priority[q[j]]
        \/ Priority[q[MostUrgent(q)]] = Priority[q[j]]
    BY <1>6, <2>1
  <2> QED BY <2>2, <2>3
<1> QED BY <1>1, <1>6, <1>7

LEMMA RemoveAtProperties ==
  ASSUME NEW q \in Seq(Calls), NEW i \in 1..Len(q)
  PROVE  /\ RemoveAt(q, i) \in Seq(Calls)
         /\ ToSet(RemoveAt(q, i)) \subseteq ToSet(q)
<1> DEFINE Rest == ToSet(q)
<1>1. q \in Seq(Rest) /\ Len(q) \in Nat
  BY ElementOfSeq DEF ToSet
<1>2. Rest \subseteq Calls
  BY ElementOfSeq DEF ToSet
<1>3. \A j \in 1..Len(q) : q[j] \in Rest
  BY DEF ToSet
<1>4. SubSeq(q, 1, i - 1) \in Seq(Rest)
  BY <1>1, <1>3, SubSeqProperties
<1>5. SubSeq(q, i + 1, Len(q)) \in Seq(Rest)
  BY <1>1, <1>3, SubSeqProperties
<1>6. RemoveAt(q, i) \in Seq(Rest)
  BY <1>4, <1>5, ConcatProperties DEF RemoveAt
<1>7. \A j \in DOMAIN RemoveAt(q, i) : RemoveAt(q, i)[j] \in Rest
  BY <1>6, ElementOfSeq
<1> QED BY <1>2, <1>6, <1>7 DEF ToSet

-----------------------------------------------------------------------------
(* The callers. *)

\* A put only adds the call to the queue.
LEMMA AppendSet ==
  ASSUME NEW q \in Seq(Calls), NEW c \in Calls
  PROVE  /\ Append(q, c) \in Seq(Calls)
         /\ ToSet(Append(q, c)) = ToSet(q) \cup { c }
         /\ Append(q, c) # << >>
<1>1. Len(q) \in Nat /\ DOMAIN q = 1..Len(q) /\ Append(q, c) \in Seq(Calls)
      /\ DOMAIN Append(q, c) = 1..(Len(q) + 1)
  BY AppendProperties, LenProperties
<1>2. \A i \in 1..Len(q) : Append(q, c)[i] = q[i]
  BY AppendProperties
<1>3. Append(q, c)[Len(q) + 1] = c
  BY AppendProperties
<1>4. ToSet(Append(q, c)) = ToSet(q) \cup { c }
  BY <1>1, <1>2, <1>3 DEF ToSet
<1> QED BY <1>1, <1>4, AppendProperties

LEMMA CallStep ==
  ASSUME QueueInv, NEW c \in Calls, Call(c)
  PROVE  QueueInv'
<1>0. /\ TypeOK /\ worker \in [Workers -> WorkerState] /\ queue \in Seq(Calls)
      /\ At("get") \in WorkerState /\ At("get").at = "get"
  BY MinIntervalAssumption DEF QueueInv, TypeOK, At, WorkerState
<1>1. /\ queue' \in Seq(Calls) /\ ToSet(queue') = ToSet(queue) \cup { c }
      /\ queue' # << >>
  BY <1>0, AppendSet DEF Call
<1>2. /\ closed' \in BOOLEAN /\ task' \in Workers \cup { NoWorker }
      /\ worker' \in [Workers -> WorkerState] /\ Alive(task)'
      /\ SoleWorker' /\ closing' = closing /\ (closing # NoWorker => closing = task')
      /\ closed' => closing # NoWorker
      /\ \A w \in Workers : worker'[w].at \in { "limit", "request" }
                             => worker'[w] = worker[w]
  <2>1. CASE Alive(task)
    BY <1>0, <2>1 DEF Call, StartWorker, QueueInv, SoleWorker, NothingIsLeft,
                      Alive, TypeOK
  <2>2. CASE ~Alive(task)
    <3>1. /\ closed' = FALSE /\ task' \in Workers
          /\ worker' = [worker EXCEPT ![task'] = At("get")]
          /\ closing' = closing /\ closing = NoWorker
      BY <2>2 DEF Call, StartWorker, QueueInv, NothingIsLeft
    <3>2. \A w \in Workers : w # task' => worker'[w].at = "done"
      BY <1>0, <2>2, <3>1 DEF QueueInv, SoleWorker, Alive
    <3>3. worker'[task'] = At("get") /\ worker' \in [Workers -> WorkerState]
      BY <1>0, <3>1
    <3> QED BY <1>0, <3>1, <3>2, <3>3 DEF SoleWorker, Alive
  <2> QED BY <2>1, <2>2
<1>3. TypeOK'
  BY <1>0, <1>1, <1>2 DEF Call, TypeOK
<1>4. SleepsLongEnough' /\ HoldsACall'
  BY <1>2 DEF Call, QueueInv, SleepsLongEnough, HoldsACall
<1>5. NothingIsLeft'
  BY <1>2 DEF NothingIsLeft
<1>6. Overtaking'
  <2>1. passed' = [passed EXCEPT ![c] = 0]
    BY DEF Call
  <2>2. passed'[c] = 0 /\ \A x \in Calls : x # c => passed'[x] = passed[x]
    BY <1>0, <2>1 DEF TypeOK
  <2>3. ToSet(queue) \subseteq Calls
    BY <1>0, ElementOfSeq DEF ToSet
  <2> QED BY <1>1, <1>2, <2>2, <2>3 DEF QueueInv, Overtaking
<1> QED BY <1>2, <1>3, <1>4, <1>5, <1>6 DEF QueueInv

LEMMA CancelStep ==
  ASSUME QueueInv, NEW c \in Calls, Cancel(c)
  PROVE  QueueInv'
  BY DEF Cancel, QueueInv, TypeOK, SoleWorker, SleepsLongEnough, HoldsACall,
         NothingIsLeft, Alive, Overtaking

LEMMA CloseStep ==
  ASSUME QueueInv, Close
  PROVE  QueueInv'
<1>1. TypeOK'
  BY DEF Close, QueueInv, TypeOK, Alive
<1>2. SoleWorker' /\ SleepsLongEnough' /\ HoldsACall' /\ Overtaking'
  BY DEF Close, QueueInv, SoleWorker, SleepsLongEnough, HoldsACall, Overtaking
<1>3. NothingIsLeft'
  BY NoneAssumption DEF Close, QueueInv, NothingIsLeft, Alive
<1> QED BY <1>1, <1>2, <1>3 DEF QueueInv

LEMMA TickStep ==
  ASSUME QueueInv, Tick
  PROVE  QueueInv'
<1>0. /\ worker \in [Workers -> WorkerState] /\ since \in 0..MinInterval
      /\ MinInterval \in Nat
  BY MinIntervalAssumption DEF QueueInv, TypeOK
<1>1. ASSUME NEW w \in Workers
      PROVE  /\ worker'[w] \in WorkerState /\ worker'[w].at = worker[w].at
             /\ worker'[w].call = worker[w].call
             /\ worker'[w].delay =
                  IF worker[w].delay > 0 THEN worker[w].delay - 1 ELSE 0
  <2>1. worker'[w] = [worker[w] EXCEPT !.delay = IF @ > 0 THEN @ - 1 ELSE 0]
    BY DEF Tick
  <2>2. worker[w] \in WorkerState /\ worker[w].delay \in 0..MinInterval
    BY <1>0 DEF WorkerState
  <2> QED BY <1>0, <2>1, <2>2 DEF WorkerState
<1>a. /\ since' = IF since < MinInterval THEN since + 1 ELSE since
      /\ UNCHANGED << call, queue, stops, closed, task, closing, passed >>
      /\ worker' = [ w \in Workers |-> worker'[w] ]
  BY DEF Tick
<1>2. TypeOK'
  <2>1. worker' \in [Workers -> WorkerState]
    BY <1>1, <1>a
  <2>2. since' \in 0..MinInterval
    BY <1>0, <1>a
  <2> QED BY <1>a, <2>1, <2>2 DEF QueueInv, TypeOK
<1>3. SleepsLongEnough'
  <2> SUFFICES ASSUME NEW w \in Workers, worker'[w].at = "limit"
               PROVE  worker'[w].delay + since' >= MinInterval
    BY DEF SleepsLongEnough
  <2>1. worker[w].delay + since >= MinInterval /\ worker[w].delay \in 0..MinInterval
    BY <1>0, <1>1 DEF QueueInv, SleepsLongEnough, WorkerState
  <2> QED BY <1>0, <1>1, <1>a, <2>1
<1>4. HoldsACall' /\ SoleWorker' /\ NothingIsLeft'
  BY <1>1, <1>a DEF QueueInv, HoldsACall, SoleWorker, NothingIsLeft, Alive
<1>5. Overtaking'
  BY <1>1, <1>a DEF QueueInv, Overtaking
<1> QED BY <1>2, <1>3, <1>4, <1>5 DEF QueueInv

-----------------------------------------------------------------------------
(* The worker. *)

\* The invariant, with what is not yet known of worker w while it moves on:
\* it is at work, and what it holds is of no account.
LEMMA GetStep ==
  ASSUME QueueInv, NEW w \in Workers, worker[w].at \in { "get", "request" },
         call' \in [Calls -> { "idle", "waiting", "cancelled" }],
         Get(w), UNCHANGED << closed, task >>
  PROVE  QueueInv'
<1>0. /\ TypeOK /\ worker \in [Workers -> WorkerState] /\ queue \in Seq(Calls)
      /\ since \in 0..MinInterval /\ MinInterval \in Nat /\ task = w
      /\ Alive(task) /\ passed \in [Calls -> Nat]
      /\ \A v \in Workers : v # w => worker[v].at = "done"
  BY MinIntervalAssumption DEF QueueInv, TypeOK, SoleWorker, Alive
<1>1. CASE queue # << >>
  <2> DEFINE i == MostUrgent(queue)
             c == queue[i]
  <2>1. /\ i \in 1..Len(queue) /\ c \in Calls
        /\ \A j \in 1..Len(queue) : Priority[c] <= Priority[queue[j]]
    BY <1>0, <1>1, MostUrgentExists, ElementOfSeq
  <2>2. /\ queue' \in Seq(Calls) /\ ToSet(queue') \subseteq ToSet(queue)
        /\ Serve(w, c, queue') /\ UNCHANGED << stops, closing >>
    BY <1>0, <1>1, <2>1, RemoveAtProperties DEF Get
  <2> HIDE DEF i
  <2>3. ASSUME NEW x \in ToSet(queue')
        PROVE  /\ x \in ToSet(queue) /\ x \in Calls
               /\ ~ (Priority[x] < Priority[c])
    <3>1. PICK j \in 1..Len(queue) : queue[j] = x
      BY <1>0, <2>2, <2>3, LenProperties DEF ToSet
    <3>2. x \in Calls /\ Priority[c] <= Priority[x]
      BY <1>0, <2>1, <3>1, ElementOfSeq
    <3>3. Priority[x] \in Nat /\ Priority[c] \in Nat
      BY <2>1, <3>2, PriorityAssumption
    <3> QED BY <2>2, <3>2, <3>3
  <2> HIDE DEF c
  <2>4. /\ worker' \in [Workers -> WorkerState]
        /\ \A v \in Workers : v # w => worker'[v] = worker[v]
        /\ worker'[w].at \in { "limit", "request" } /\ worker'[w].call = c
        /\ since' \in 0..MinInterval /\ passed' \in [Calls -> Nat]
        /\ worker'[w].at = "limit" => worker'[w].delay + since' >= MinInterval
        /\ \A x \in ToSet(queue') : passed'[x] = passed[x]
    <3>1. CASE since >= MinInterval
      <4>1. Begin(w, c, queue')
        BY <2>2, <3>1 DEF Serve
      <4>2. worker' = [worker EXCEPT ![w] = [ at |-> "request", call |-> c,
                                              delay |-> 0 ]]
        BY <4>1 DEF Begin
      <4>3. [ at |-> "request", call |-> c, delay |-> 0 ] \in WorkerState
        BY <1>0, <2>1 DEF WorkerState
      <4>4. passed' \in [Calls -> Nat] /\ since' = 0
        BY <1>0, <4>1 DEF Begin
      <4>5. \A x \in ToSet(queue') : passed'[x] = passed[x]
        BY <2>3, <4>1 DEF Begin
      <4> QED BY <1>0, <4>2, <4>3, <4>4, <4>5
    <3>2. CASE ~(since >= MinInterval)
      <4>1. /\ worker' = [worker EXCEPT ![w] = [ at |-> "limit", call |-> c,
                                       delay |-> MinInterval - since ]]
            /\ UNCHANGED << since, passed >>
        BY <2>2, <3>2 DEF Serve
      <4>2. [ at |-> "limit", call |-> c, delay |-> MinInterval - since ]
              \in WorkerState
        BY <1>0, <2>1, <3>2 DEF WorkerState
      <4> QED BY <1>0, <4>1, <4>2
    <3> QED BY <3>1, <3>2
  <2>5. TypeOK'
    BY <1>0, <2>2, <2>4 DEF TypeOK
  <2>6. SoleWorker' /\ HoldsACall' /\ SleepsLongEnough'
    BY <1>0, <2>1, <2>4 DEF SoleWorker, HoldsACall, SleepsLongEnough
  <2>7. NothingIsLeft'
    BY <1>0, <2>2, <2>4 DEF QueueInv, NothingIsLeft, Alive
  <2>8. Overtaking'
    BY <1>0, <2>3, <2>4 DEF QueueInv, Overtaking
  <2> QED BY <2>5, <2>6, <2>7, <2>8 DEF QueueInv
<1>2. CASE queue = << >>
  <2>1. /\ UNCHANGED << queue, since, passed >> /\ stops' \in Nat
        /\ \/ /\ worker' = [worker EXCEPT ![w] = At("done")]
              /\ closing' = IF closing = w THEN NoWorker ELSE closing
           \/ worker' = [worker EXCEPT ![w] = At("get")] /\ closing' = closing
    BY <1>0, <1>2 DEF Get, TypeOK
  <2>2. At("done") \in WorkerState /\ At("get") \in WorkerState
    BY <1>0 DEF At, WorkerState
  <2>3. At("done").at = "done" /\ At("get").at = "get"
    BY DEF At
  <2>4. TypeOK'
    BY <1>0, <2>1, <2>2 DEF TypeOK
  <2>5. SoleWorker' /\ HoldsACall' /\ SleepsLongEnough'
    BY <1>0, <2>1, <2>2, <2>3 DEF SoleWorker, HoldsACall, SleepsLongEnough
  <2>6. NothingIsLeft'
    BY <1>0, <1>2, <2>1, <2>3, NoneAssumption
       DEF QueueInv, NothingIsLeft, Alive, TypeOK
  <2>7. Overtaking'
    BY <1>2, <2>1 DEF Overtaking, ToSet
  <2> QED BY <2>4, <2>5, <2>6, <2>7 DEF QueueInv
<1> QED BY <1>1, <1>2

LEMMA EndSleepStep ==
  ASSUME QueueInv, NEW w \in Workers, EndSleep(w)
  PROVE  QueueInv'
<1> DEFINE c == worker[w].call
<1>0. /\ TypeOK /\ worker \in [Workers -> WorkerState] /\ queue \in Seq(Calls)
      /\ task = w /\ Alive(task) /\ c \in Calls /\ passed \in [Calls -> Nat]
      /\ MinInterval \in Nat /\ worker[w].at = "limit"
      /\ \A v \in Workers : v # w => worker[v].at = "done"
  BY MinIntervalAssumption
     DEF QueueInv, TypeOK, SoleWorker, Alive, HoldsACall, EndSleep
<1>1. /\ worker' = [worker EXCEPT ![w] = [ at |-> "request", call |-> c,
                                            delay |-> 0 ]]
      /\ since' = 0
      /\ passed' = [ x \in Calls |->
                       IF x \in ToSet(queue) /\ Priority[x] < Priority[c]
                         THEN passed[x] + 1 ELSE passed[x] ]
      /\ UNCHANGED << call, queue, stops, closed, task, closing >>
  BY DEF EndSleep, Begin
<1>2. [ at |-> "request", call |-> c, delay |-> 0 ] \in WorkerState
  BY <1>0 DEF WorkerState
<1> HIDE DEF c
<1>3. TypeOK'
  BY <1>0, <1>1, <1>2 DEF TypeOK
<1>4. SoleWorker' /\ HoldsACall' /\ SleepsLongEnough'
  BY <1>0, <1>1, <1>2 DEF SoleWorker, HoldsACall, SleepsLongEnough
<1>5. NothingIsLeft'
  BY <1>0, <1>1 DEF QueueInv, NothingIsLeft, Alive
<1>6. Overtaking'
  <2> SUFFICES ASSUME NEW x \in ToSet(queue)
               PROVE  passed'[x] <= 1
    BY <1>0, <1>1 DEF Overtaking
  <2>1. x \in Calls /\ passed[x] \in Nat /\ passed[x] <= 1
    BY <1>0, ElementOfSeq DEF ToSet, QueueInv, Overtaking
  <2>2. Priority[x] < Priority[c] => passed[x] = 0
    BY <1>0 DEF QueueInv, Overtaking, c
  <2> QED BY <1>1, <2>1, <2>2
<1> QED BY <1>3, <1>4, <1>5, <1>6 DEF QueueInv

LEMMA QueueInit == Init => QueueInv
<1> SUFFICES ASSUME Init PROVE QueueInv
  OBVIOUS
<1>1. At("done") \in WorkerState /\ At("done").at = "done"
  BY MinIntervalAssumption DEF At, WorkerState
<1>2. TypeOK
  <2>1. queue \in Seq(Calls) /\ since \in 0..MinInterval
    BY MinIntervalAssumption, EmptySeq DEF Init
  <2>2. worker \in [Workers -> WorkerState]
    BY <1>1 DEF Init
  <2> QED BY <2>1, <2>2 DEF Init, TypeOK
<1>3. SoleWorker /\ SleepsLongEnough /\ HoldsACall
  BY <1>1 DEF Init, SoleWorker, SleepsLongEnough, HoldsACall
<1>4. NothingIsLeft
  BY NoneAssumption DEF Init, NothingIsLeft, Alive
<1>5. Overtaking
  BY DEF Init, Overtaking, ToSet
<1> QED BY <1>2, <1>3, <1>4, <1>5 DEF QueueInv

LEMMA QueueNext == QueueInv /\ [Next]_vars => QueueInv'
<1> SUFFICES ASSUME QueueInv, [Next]_vars PROVE QueueInv'
  OBVIOUS
<1>1. CASE \E c \in Calls : Call(c) \/ Cancel(c)
  BY <1>1, CallStep, CancelStep
<1>2. CASE Close
  BY <1>2, CloseStep
<1>3. ASSUME NEW w \in Workers, Resume(w) \/ Reply(w)
      PROVE  QueueInv'
  BY <1>3, GetStep DEF Resume, Reply, QueueInv, TypeOK
<1>4. CASE \E w \in Workers : EndSleep(w)
  BY <1>4, EndSleepStep
<1>5. CASE Tick
  BY <1>5, TickStep
<1>6. CASE UNCHANGED vars
  BY <1>6 DEF vars, QueueInv, TypeOK, SoleWorker, SleepsLongEnough, HoldsACall,
              NothingIsLeft, Alive, Overtaking
<1> QED BY <1>1, <1>2, <1>3, <1>4, <1>5, <1>6 DEF Next

-----------------------------------------------------------------------------
\* What the queue promises in every state: it has its type, one request is
\* under way at a time (_worker, start), a call is overtaken at most once
\* (_QueuedCall's order), and close leaves nothing behind (close).
THEOREM QueueSafe ==
  Spec => [](TypeOK /\ OneRequestAtATime /\ OvertakenAtMostOnce /\ CloseDrains)
<1>1. QueueInv => TypeOK /\ OneRequestAtATime /\ OvertakenAtMostOnce
  BY DEF QueueInv, SoleWorker, OneRequestAtATime, Overtaking, OvertakenAtMostOnce
<1>2. QueueInv => CloseDrains
  BY DEF QueueInv, NothingIsLeft, SoleWorker, Alive, CloseDrains
<1> QED BY <1>1, <1>2, QueueInit, QueueNext, PTL DEF Spec

\* Two requests never start within MinInterval of each other, whatever is
\* cancelled, closed or started again in between (_respect_rate_limit).
THEOREM SpacingKept == Spec => RequestsSpaced
<1>1. QueueInv /\ [Next]_vars =>
        [ \A w \in Workers : RequestStarts(w) => since >= MinInterval ]_vars
  <2> SUFFICES ASSUME QueueInv, Next, NEW w \in Workers, RequestStarts(w)
               PROVE  since >= MinInterval
    OBVIOUS
  <2>0. /\ worker \in [Workers -> WorkerState] /\ since \in 0..MinInterval
        /\ MinInterval \in Nat
    BY MinIntervalAssumption DEF QueueInv, TypeOK
  <2>1. CASE \E v \in Workers : (Resume(v) \/ Reply(v)) /\ v = w
    <3>1. Get(w) /\ worker[w].at \in { "get", "request" }
      BY <2>1 DEF Resume, Reply
    <3>2. CASE queue # << >>
      <4>1. Serve(w, queue[MostUrgent(queue)], queue')
        BY <3>1, <3>2 DEF Get
      <4> QED BY <2>0, <4>1 DEF Serve, RequestStarts
    <3>3. CASE queue = << >>
      BY <2>0, <3>1, <3>3 DEF Get, At, RequestStarts
    <3> QED BY <3>2, <3>3
  <2>2. CASE \E v \in Workers : (Resume(v) \/ Reply(v)) /\ v # w
    <3>1. worker'[w] = worker[w]
      BY <2>0, <2>2 DEF Resume, Reply, Get, Serve, Begin
    <3> QED BY <3>1 DEF RequestStarts
  <2>3. CASE \E v \in Workers : EndSleep(v)
    BY <2>0, <2>3 DEF EndSleep, Begin, RequestStarts, QueueInv, SleepsLongEnough
  <2>4. CASE Tick
    <3>1. /\ worker'[w].at = worker[w].at /\ worker'[w].call = worker[w].call
      <4>1. worker'[w] = [worker[w] EXCEPT !.delay = IF @ > 0 THEN @ - 1 ELSE 0]
        BY <2>4 DEF Tick
      <4> QED BY <2>0, <4>1 DEF WorkerState
    <3> QED BY <3>1 DEF RequestStarts
  <2>5. CASE \E c \in Calls : Call(c)
    <3>1. worker'[w] = worker[w] \/ worker'[w] = At("get")
      BY <2>0, <2>5 DEF Call, StartWorker
    <3> QED BY <3>1 DEF RequestStarts, At
  <2>6. CASE Close \/ \E c \in Calls : Cancel(c)
    BY <2>6 DEF Close, Cancel, RequestStarts
  <2> QED BY <2>1, <2>2, <2>3, <2>4, <2>5, <2>6 DEF Next
<1> QED BY <1>1, QueueInit, QueueNext, PTL DEF Spec, RequestsSpaced

-----------------------------------------------------------------------------
(* The refinement: a call is in one place at a time. *)

NoRepeat(q) == \A i, j \in 1..Len(q) : q[i] = q[j] => i = j

\* A call that is queued, or held by a worker, has a caller (who may have been
\* cancelled), and is in one place only.
OnePlace ==
  /\ NoRepeat(queue)
  /\ \A c \in ToSet(queue) : call[c] # "idle"
  /\ \A w \in Workers :
       worker[w].at \in { "limit", "request" } =>
         call[worker[w].call] # "idle" /\ worker[w].call \notin ToSet(queue)

LEMMA RemoveAtElements ==
  ASSUME NEW q \in Seq(Calls), NEW i \in 1..Len(q)
  PROVE  /\ Len(RemoveAt(q, i)) = Len(q) - 1
         /\ \A j \in 1..(Len(q) - 1) :
              RemoveAt(q, i)[j] = IF j < i THEN q[j] ELSE q[j + 1]
<1> DEFINE before == SubSeq(q, 1, i - 1)
           after == SubSeq(q, i + 1, Len(q))
<1>1. Len(q) \in Nat /\ \A j \in 1..Len(q) : q[j] \in Calls
  BY ElementOfSeq
<1>2. /\ before \in Seq(Calls) /\ Len(before) = i - 1
      /\ \A j \in 1..(i - 1) : before[j] = q[j]
  BY <1>1, SubSeqProperties
<1>3. /\ after \in Seq(Calls) /\ Len(after) = Len(q) - i
      /\ \A j \in 1..(Len(q) - i) : after[j] = q[i + j]
  BY <1>1, SubSeqProperties
<1>4. RemoveAt(q, i) = before \o after
  BY DEF RemoveAt
<1> HIDE DEF before, after
<1>5. /\ Len(before \o after) = Len(q) - 1
      /\ \A j \in 1..(Len(q) - 1) :
           (before \o after)[j] = IF j <= i - 1 THEN before[j]
                                  ELSE after[j - (i - 1)]
  BY <1>1, <1>2, <1>3, ConcatProperties
<1>6. ASSUME NEW j \in 1..(Len(q) - 1)
      PROVE  (before \o after)[j] = IF j < i THEN q[j] ELSE q[j + 1]
  <2>1. CASE j < i
    BY <1>1, <1>2, <1>5, <2>1
  <2>2. CASE ~(j < i)
    <3>1. j - (i - 1) \in 1..(Len(q) - i) /\ i + (j - (i - 1)) = j + 1
      BY <1>1, <2>2
    <3>2. after[j - (i - 1)] = q[j + 1]
      BY <1>3, <3>1
    <3> QED BY <1>1, <1>5, <2>2, <3>2
  <2> QED BY <2>1, <2>2
<1> QED BY <1>4, <1>5, <1>6

\* Taking an item from a queue without repetitions takes that call only.
LEMMA RemoveAtNoRepeat ==
  ASSUME NEW q \in Seq(Calls), NEW i \in 1..Len(q), NoRepeat(q)
  PROVE  /\ NoRepeat(RemoveAt(q, i))
         /\ ToSet(RemoveAt(q, i)) = ToSet(q) \ { q[i] }
<1> DEFINE r == RemoveAt(q, i)
           n == Len(q)
           from(j) == IF j < i THEN j ELSE j + 1
<1>1. n \in Nat /\ i \in 1..n /\ DOMAIN q = 1..n
  BY LenProperties
<1>2. /\ r \in Seq(Calls) /\ Len(r) = n - 1 /\ DOMAIN r = 1..(n - 1)
  BY <1>1, RemoveAtElements, RemoveAtProperties, LenProperties
<1>3. \A j \in 1..(n - 1) : r[j] = q[from(j)] /\ from(j) \in 1..n /\ from(j) # i
  BY <1>1, RemoveAtElements
<1>4. \A j, k \in 1..(n - 1) : from(j) = from(k) => j = k
  BY <1>1
<1>5. \A k \in 1..n : k # i => \E j \in 1..(n - 1) : from(j) = k
  <2> SUFFICES ASSUME NEW k \in 1..n, k # i
               PROVE  \E j \in 1..(n - 1) : from(j) = k
    OBVIOUS
  <2>1. CASE k < i
    <3>1. k \in 1..(n - 1) /\ from(k) = k
      BY <1>1, <2>1
    <3> QED BY <3>1
  <2>2. CASE ~(k < i)
    <3>1. k - 1 \in 1..(n - 1) /\ from(k - 1) = k
      BY <1>1, <2>2
    <3> QED BY <3>1
  <2> QED BY <2>1, <2>2
<1> HIDE DEF from, r
<1>6. NoRepeat(r)
  BY <1>2, <1>3, <1>4 DEF NoRepeat
<1>7. ToSet(r) = ToSet(q) \ { q[i] }
  <2>1. ASSUME NEW x \in ToSet(r)
        PROVE  x \in ToSet(q) \ { q[i] }
    <3>1. PICK j \in 1..(n - 1) : r[j] = x
      BY <1>2, <2>1 DEF ToSet
    <3> QED BY <1>1, <1>3, <3>1 DEF NoRepeat, ToSet
  <2>2. ASSUME NEW x \in ToSet(q), x # q[i]
        PROVE  x \in ToSet(r)
    <3>1. PICK k \in 1..n : q[k] = x
      BY <1>1, <2>2 DEF ToSet
    <3>2. PICK j \in 1..(n - 1) : from(j) = k
      BY <1>5, <2>2, <3>1
    <3> QED BY <1>2, <1>3, <3>1, <3>2 DEF ToSet
  <2> QED BY <2>1, <2>2
<1> QED BY <1>6, <1>7 DEF r

\* Putting a call that is not queued does not repeat it.
LEMMA AppendNoRepeat ==
  ASSUME NEW q \in Seq(Calls), NEW c \in Calls, NoRepeat(q), c \notin ToSet(q)
  PROVE  NoRepeat(Append(q, c))
<1>1. Len(q) \in Nat /\ DOMAIN q = 1..Len(q) /\ Len(Append(q, c)) = Len(q) + 1
  BY AppendProperties, LenProperties
<1>2. \A i \in 1..Len(q) : Append(q, c)[i] = q[i] /\ q[i] # c
  BY <1>1, AppendProperties DEF ToSet
<1>3. Append(q, c)[Len(q) + 1] = c
  BY AppendProperties
<1> SUFFICES ASSUME NEW i \in 1..(Len(q) + 1), NEW j \in 1..(Len(q) + 1),
                    Append(q, c)[i] = Append(q, c)[j]
             PROVE  i = j
  BY <1>1 DEF NoRepeat
<1>4. CASE i \in 1..Len(q) /\ j \in 1..Len(q)
  BY <1>2, <1>4 DEF NoRepeat
<1>5. CASE i = Len(q) + 1 /\ j = Len(q) + 1
  BY <1>5
<1>6. CASE i \in 1..Len(q) /\ j = Len(q) + 1
  BY <1>2, <1>3, <1>6
<1>7. CASE j \in 1..Len(q) /\ i = Len(q) + 1
  BY <1>2, <1>3, <1>7
<1> QED BY <1>1, <1>4, <1>5, <1>6, <1>7

-----------------------------------------------------------------------------
(* The mapping, of any queue q and any workers wk. *)

Holders(wk, point) == { w \in Workers : wk[w].at = point }

PendingOf(q, wk) == ToSet(q) \cup { wk[w].call : w \in Holders(wk, "limit") }

SentOf(wk) ==
  IF Holders(wk, "request") = {} THEN NoCall
  ELSE wk[CHOOSE w \in Holders(wk, "request") : TRUE].call

\* What is pending and sent when only one worker is at work, and when none is.
LEMMA MappingAlone ==
  ASSUME NEW q, NEW wk, NEW w \in Workers,
         \A v \in Workers : v # w => wk[v].at = "done"
  PROVE  /\ PendingOf(q, wk) =
              IF wk[w].at = "limit" THEN ToSet(q) \cup { wk[w].call } ELSE ToSet(q)
         /\ SentOf(wk) = IF wk[w].at = "request" THEN wk[w].call ELSE NoCall
<1>1. Holders(wk, "limit") = IF wk[w].at = "limit" THEN { w } ELSE {}
  BY DEF Holders
<1>2. Holders(wk, "request") = IF wk[w].at = "request" THEN { w } ELSE {}
  BY DEF Holders
<1>3. PendingOf(q, wk) =
        IF wk[w].at = "limit" THEN ToSet(q) \cup { wk[w].call } ELSE ToSet(q)
  BY <1>1 DEF PendingOf
<1>4. CASE wk[w].at = "request"
  <2>1. (CHOOSE v \in Holders(wk, "request") : TRUE) = w
    BY <1>2, <1>4
  <2> QED BY <1>2, <1>3, <1>4, <2>1 DEF SentOf
<1>5. CASE wk[w].at # "request"
  BY <1>2, <1>3, <1>5 DEF SentOf
<1> QED BY <1>4, <1>5

LEMMA MappingIdle ==
  ASSUME NEW q, NEW wk, \A v \in Workers : wk[v].at = "done"
  PROVE  PendingOf(q, wk) = ToSet(q) /\ SentOf(wk) = NoCall
  BY DEF PendingOf, SentOf, Holders

\* The mapping depends only on where the workers are and on what they hold.
LEMMA MappingSame ==
  ASSUME NEW q, NEW wk, NEW wl,
         \A w \in Workers : wk[w].at = wl[w].at /\ wk[w].call = wl[w].call
  PROVE  PendingOf(q, wk) = PendingOf(q, wl) /\ SentOf(wk) = SentOf(wl)
<1>1. \A point : Holders(wk, point) = Holders(wl, point)
  BY DEF Holders
<1>2. PendingOf(q, wk) = PendingOf(q, wl)
  BY <1>1 DEF PendingOf, Holders
<1>3. CASE Holders(wk, "request") = {}
  BY <1>1, <1>2, <1>3 DEF SentOf
<1>4. CASE Holders(wk, "request") # {}
  <2> DEFINE h == CHOOSE w \in Holders(wk, "request") : TRUE
  <2>1. h \in Workers /\ h = CHOOSE w \in Holders(wl, "request") : TRUE
    BY <1>1, <1>4 DEF Holders
  <2> QED BY <1>1, <1>2, <1>4, <2>1 DEF SentOf
<1> QED BY <1>3, <1>4

Submits(c) ==
  /\ c \notin PendingOf(queue, worker) /\ c # SentOf(worker)
  /\ PendingOf(queue', worker') = PendingOf(queue, worker) \cup { c }
  /\ SentOf(worker') = SentOf(worker)

Turns ==
  \/ /\ SentOf(worker') = NoCall
     /\ PendingOf(queue', worker') = PendingOf(queue, worker)
  \/ \E c \in PendingOf(queue, worker) :
       /\ SentOf(worker') = c
       /\ PendingOf(queue', worker') = PendingOf(queue, worker) \ { c }

Stays ==
  /\ PendingOf(queue', worker') = PendingOf(queue, worker)
  /\ SentOf(worker') = SentOf(worker)

-----------------------------------------------------------------------------
(* The steps of the queue, and of the server. *)

LEMMA CallSubmits ==
  ASSUME QueueInv, OnePlace, NEW c \in Calls, Call(c)
  PROVE  OnePlace' /\ Submits(c)
<1>0. /\ TypeOK /\ worker \in [Workers -> WorkerState] /\ queue \in Seq(Calls)
      /\ At("get").at = "get" /\ call' = [call EXCEPT ![c] = "waiting"]
      /\ call \in [Calls -> { "idle", "waiting", "cancelled" }]
      /\ ToSet(queue) \subseteq Calls /\ NoCall # c
  BY ElementOfSeq, NoneAssumption DEF QueueInv, TypeOK, At, Call, ToSet
<1>1. c \notin ToSet(queue)
  BY DEF Call, OnePlace
<1>2. /\ ToSet(queue') = ToSet(queue) \cup { c } /\ NoRepeat(queue')
  BY <1>0, <1>1, AppendSet, AppendNoRepeat DEF Call, OnePlace
<1>3. call'[c] = "waiting" /\ \A x \in Calls : x # c => call'[x] = call[x]
  BY <1>0
<1>4. CASE Alive(task)
  <2>1. worker' = worker /\ task \in Workers
    BY <1>4 DEF Call, StartWorker, Alive
  <2>2. \A v \in Workers : v # task => worker[v].at = "done"
    BY DEF QueueInv, SoleWorker
  <2>3. worker[task].at \in { "limit", "request" } =>
          /\ worker[task].call \in Calls /\ worker[task].call # c
          /\ call'[worker[task].call] # "idle"
    BY <1>3, <2>1 DEF QueueInv, HoldsACall, OnePlace, Call
  <2>4. OnePlace'
    BY <1>0, <1>2, <1>3, <2>1, <2>2, <2>3 DEF OnePlace
  <2>5. Submits(c)
    <3>1. /\ PendingOf(queue, worker) =
               IF worker[task].at = "limit"
                 THEN ToSet(queue) \cup { worker[task].call } ELSE ToSet(queue)
          /\ SentOf(worker) =
               IF worker[task].at = "request" THEN worker[task].call ELSE NoCall
      BY <2>1, <2>2, MappingAlone
    <3>2. PendingOf(queue', worker') =
            IF worker[task].at = "limit"
              THEN ToSet(queue') \cup { worker[task].call } ELSE ToSet(queue')
      BY <2>1, <2>2, MappingAlone
    <3>3. SentOf(worker') = SentOf(worker)
      BY <2>1
    <3>4. c \notin PendingOf(queue, worker) /\ c # SentOf(worker)
      BY <1>0, <1>1, <2>3, <3>1
    <3>5. PendingOf(queue', worker') = PendingOf(queue, worker) \cup { c }
      BY <1>2, <3>1, <3>2
    <3> QED BY <3>3, <3>4, <3>5 DEF Submits
  <2> QED BY <2>4, <2>5
<1>5. CASE ~Alive(task)
  <2>1. /\ task' \in Workers /\ worker' = [worker EXCEPT ![task'] = At("get")]
        /\ \A v \in Workers : worker[v].at = "done"
    BY <1>5 DEF Call, StartWorker, QueueInv, SoleWorker, Alive
  <2>2. /\ worker'[task'].at = "get"
        /\ \A v \in Workers : v # task' => worker'[v].at = "done"
    BY <1>0, <2>1
  <2>3. OnePlace'
    BY <1>0, <1>2, <1>3, <2>2 DEF OnePlace
  <2>4. PendingOf(queue, worker) = ToSet(queue) /\ SentOf(worker) = NoCall
    BY <2>1, MappingIdle
  <2>5. PendingOf(queue', worker') = ToSet(queue') /\ SentOf(worker') = NoCall
    BY <2>1, <2>2, MappingAlone
  <2> QED BY <1>0, <1>1, <1>2, <2>3, <2>4, <2>5 DEF Submits
<1> QED BY <1>4, <1>5

LEMMA CancelStays ==
  ASSUME QueueInv, OnePlace, NEW c \in Calls, Cancel(c)
  PROVE  OnePlace' /\ Stays
<1>1. /\ call' = [call EXCEPT ![c] = "cancelled"]
      /\ UNCHANGED << queue, worker >>
      /\ call \in [Calls -> { "idle", "waiting", "cancelled" }]
  BY DEF Cancel, QueueInv, TypeOK
<1>2. \A x : call[x] # "idle" /\ x \in Calls => call'[x] # "idle"
  BY <1>1
<1>3. ToSet(queue) \subseteq Calls
  BY ElementOfSeq DEF QueueInv, TypeOK, ToSet
<1> QED BY <1>1, <1>2, <1>3 DEF OnePlace, Stays, QueueInv, HoldsACall

LEMMA CloseStays ==
  ASSUME OnePlace, Close
  PROVE  OnePlace' /\ Stays
  BY DEF Close, OnePlace, Stays

LEMMA TickStays ==
  ASSUME QueueInv, OnePlace, Tick
  PROVE  OnePlace' /\ Stays
<1>1. worker \in [Workers -> WorkerState]
  BY DEF QueueInv, TypeOK
<1>2. ASSUME NEW w \in Workers
      PROVE  worker'[w].at = worker[w].at /\ worker'[w].call = worker[w].call
  <2>1. worker'[w] = [worker[w] EXCEPT !.delay = IF @ > 0 THEN @ - 1 ELSE 0]
    BY DEF Tick
  <2> QED BY <1>1, <2>1 DEF WorkerState
<1>3. UNCHANGED << call, queue >>
  BY DEF Tick
<1>4. Stays
  BY <1>2, <1>3, MappingSame DEF Stays
<1> QED BY <1>2, <1>3, <1>4 DEF OnePlace

\* A worker goes round its loop, and may have answered the call it held.
LEMMA GetTurns ==
  ASSUME QueueInv, OnePlace, NEW w \in Workers,
         worker[w].at \in { "get", "request" }, Get(w),
         \A x \in ToSet(queue) : call'[x] = call[x]
  PROVE  OnePlace' /\ Turns
<1>0. /\ TypeOK /\ worker \in [Workers -> WorkerState] /\ queue \in Seq(Calls)
      /\ \A v \in Workers : v # w => worker[v].at = "done"
  BY DEF QueueInv, TypeOK, SoleWorker
<1>1. PendingOf(queue, worker) = ToSet(queue)
  BY <1>0, MappingAlone
<1>2. CASE queue # << >>
  <2> DEFINE i == MostUrgent(queue)
             c == queue[i]
  <2>1. i \in 1..Len(queue) /\ c \in Calls
    BY <1>0, <1>2, MostUrgentExists, ElementOfSeq
  <2>2. /\ ToSet(queue') = ToSet(queue) \ { c } /\ NoRepeat(queue')
        /\ Serve(w, c, queue')
    BY <1>0, <1>2, <2>1, RemoveAtNoRepeat DEF Get, OnePlace
  <2>3. c \in ToSet(queue)
    BY <1>0, <2>1, LenProperties DEF ToSet
  <2> HIDE DEF i, c
  <2>4. /\ \A v \in Workers : v # w => worker'[v].at = "done"
        /\ worker'[w].call = c
        /\ \/ worker'[w].at = "request"
           \/ worker'[w].at = "limit"
    BY <1>0, <2>2 DEF Serve, Begin
  <2>5. OnePlace'
    BY <2>2, <2>3, <2>4 DEF OnePlace
  <2>6. Turns
    <3>1. CASE worker'[w].at = "request"
      <4>1. PendingOf(queue', worker') = ToSet(queue) \ { c }
            /\ SentOf(worker') = c
        BY <2>2, <2>4, <3>1, MappingAlone
      <4> QED BY <1>1, <2>3, <4>1 DEF Turns
    <3>2. CASE worker'[w].at = "limit"
      <4>1. PendingOf(queue', worker') = ToSet(queue') \cup { c }
            /\ SentOf(worker') = NoCall
        BY <2>4, <3>2, MappingAlone
      <4>2. ToSet(queue') \cup { c } = ToSet(queue)
        BY <2>2, <2>3
      <4> QED BY <1>1, <4>1, <4>2 DEF Turns
    <3> QED BY <2>4, <3>1, <3>2
  <2> QED BY <2>5, <2>6
<1>3. CASE queue = << >>
  <2>1. /\ queue' = queue
        /\ worker'[w].at \in { "get", "done" }
        /\ \A v \in Workers : v # w => worker'[v].at = "done"
    BY <1>0, <1>3 DEF Get, At
  <2>2. OnePlace'
    BY <1>3, <2>1 DEF OnePlace, ToSet
  <2>3. PendingOf(queue', worker') = ToSet(queue) /\ SentOf(worker') = NoCall
    BY <2>1, MappingAlone
  <2> QED BY <1>1, <2>2, <2>3 DEF Turns
<1> QED BY <1>2, <1>3

\* The call that was held back is sent.
LEMMA EndSleepTurns ==
  ASSUME QueueInv, OnePlace, NEW w \in Workers, EndSleep(w)
  PROVE  OnePlace' /\ Turns
<1> DEFINE c == worker[w].call
<1>1. /\ worker \in [Workers -> WorkerState] /\ worker[w].at = "limit"
      /\ \A v \in Workers : v # w => worker[v].at = "done"
      /\ UNCHANGED << call, queue >>
      /\ worker' = [worker EXCEPT ![w] = [ at |-> "request", call |-> c,
                                            delay |-> 0 ]]
  BY DEF QueueInv, TypeOK, SoleWorker, EndSleep, Begin
<1>2. c \notin ToSet(queue) /\ call[c] # "idle"
  BY <1>1 DEF OnePlace
<1> HIDE DEF c
<1>3. /\ worker'[w].at = "request" /\ worker'[w].call = c
      /\ \A v \in Workers : v # w => worker'[v].at = "done"
  BY <1>1
<1>4. OnePlace'
  BY <1>1, <1>2, <1>3 DEF OnePlace
<1>5. PendingOf(queue, worker) = ToSet(queue) \cup { c }
  BY <1>1, MappingAlone DEF c
<1>6. PendingOf(queue', worker') = ToSet(queue) /\ SentOf(worker') = c
  BY <1>1, <1>3, MappingAlone
<1> QED BY <1>2, <1>4, <1>5, <1>6 DEF Turns

LEMMA PlacesInit == Init => OnePlace
  BY EmptySeq DEF Init, OnePlace, NoRepeat, ToSet, At

LEMMA PlacesNext ==
  ASSUME QueueInv, OnePlace, [Next]_vars
  PROVE  OnePlace' /\ (Stays \/ Turns \/ \E c \in Calls : Submits(c))
<1>1. CASE \E c \in Calls : Call(c) \/ Cancel(c)
  BY <1>1, CallSubmits, CancelStays
<1>2. CASE Close \/ Tick
  BY <1>2, CloseStays, TickStays
<1>3. ASSUME NEW w \in Workers, Resume(w)
      PROVE  OnePlace' /\ Turns
  BY <1>3, GetTurns DEF Resume
<1>4. ASSUME NEW w \in Workers, Reply(w)
      PROVE  OnePlace' /\ Turns
  <2>1. worker[w].at = "request" /\ Get(w)
        /\ call' = [call EXCEPT ![worker[w].call] = "idle"]
    BY <1>4 DEF Reply
  <2>2. worker[w].call \notin ToSet(queue) /\ ToSet(queue) \subseteq Calls
        /\ call \in [Calls -> { "idle", "waiting", "cancelled" }]
    BY <2>1, ElementOfSeq DEF OnePlace, QueueInv, TypeOK, ToSet
  <2>3. \A x \in ToSet(queue) : call'[x] = call[x]
    BY <2>1, <2>2
  <2> QED BY <2>1, <2>3, GetTurns
<1>5. CASE \E w \in Workers : EndSleep(w)
  BY <1>5, EndSleepTurns
<1>6. CASE UNCHANGED vars
  BY <1>6 DEF vars, OnePlace, Stays
<1> QED BY <1>1, <1>2, <1>3, <1>4, <1>5, <1>6 DEF Next

\* Through cancelled callers, closes, new workers and the rate limit, the queue
\* sends each call it was given at most once, and one at a time (call, _worker):
\* it implements the serial server.
THEOREM SerialServerImplemented == Spec => ImplementsSerialServer
<1>1. Init => Server!Init
  <2> SUFFICES ASSUME Init PROVE Server!Init
    OBVIOUS
  <2>1. \A v \in Workers : worker[v].at = "done"
    BY DEF Init, At
  <2>2. ToSet(queue) = {}
    BY EmptySeq DEF Init, ToSet
  <2>3. Holding("limit") = {} /\ Holding("request") = {}
    BY <2>1 DEF Holding
  <2> QED BY <2>2, <2>3 DEF Server!Init
<1>2. QueueInv /\ OnePlace /\ [Next]_vars => [Server!Next]_(Server!vars)
  <2> SUFFICES ASSUME QueueInv, OnePlace, [Next]_vars
               PROVE  [Server!Next]_(Server!vars)
    OBVIOUS
  <2>1. CASE \E c \in Calls : Submits(c)
    BY <2>1 DEF Submits, PendingOf, SentOf, Holders, Holding,
                Server!Next, Server!Submit
  <2>2. CASE Turns
    BY <2>2 DEF Turns, PendingOf, SentOf, Holders, Holding,
                Server!Next, Server!Turn
  <2>3. CASE Stays
    BY <2>3 DEF Stays, PendingOf, SentOf, Holders, Holding, Server!vars
  <2> QED BY <2>1, <2>2, <2>3, PlacesNext
<1>3. OnePlace /\ QueueInv /\ [Next]_vars => OnePlace'
  BY PlacesNext
<1> QED BY <1>1, <1>2, <1>3, QueueInit, QueueNext, PlacesInit, PTL
        DEF Spec, ImplementsSerialServer, Server!Spec
=============================================================================
