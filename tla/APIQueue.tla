------------------------------ MODULE APIQueue ------------------------------
(***************************************************************************)
(* DynadotAPIQueue (src/domainbot/dynadot/queue.py): a priority queue of   *)
(* API calls served by one worker task, with a minimum interval between    *)
(* the starts of two requests.                                             *)
(*                                                                         *)
(* The tasks of one process share an event loop, so what a coroutine does  *)
(* between two awaits that suspend it is one action.  start and put never  *)
(* suspend; get suspends only on an empty queue, so a worker that is done  *)
(* with a request takes the next item in the same step.                    *)
(***************************************************************************)
EXTENDS Integers, Sequences, SequencesExt

CONSTANTS
  Calls,        \* callers: each has one call at a time
  Priority,     \* priority of each call; 0 is served first
  MinInterval,  \* min_interval_seconds, in units of the clock
  Workers,      \* worker tasks that may exist, dead ones included
  NoWorker, NoCall

ASSUME PriorityAssumption == Priority \in [Calls -> Nat]
ASSUME MinIntervalAssumption == MinInterval \in Nat
ASSUME NoneAssumption == NoWorker \notin Workers /\ NoCall \notin Calls

VARIABLES
  call,     \* the future of each call, "idle" when the caller has none
  queue,    \* queued calls, by sequence number
  stops,    \* queued stop items
  closed,   \* _closed
  task,     \* _worker_task
  worker,   \* where each worker task is, with the item it holds
  since,    \* time since the last request started, at most MinInterval
  closing,  \* the worker a close waits for
  passed    \* history: less urgent requests started while a call was queued

vars == << call, queue, stops, closed, task, worker, since, closing, passed >>

\* A worker waits for an item, sleeps before a request, awaits it, or is done.
WorkerState ==
  [ at : { "get", "limit", "request", "done" },
    call : Calls \cup { NoCall }, delay : 0..MinInterval ]

At(point) == [ at |-> point, call |-> NoCall, delay |-> 0 ]

Alive(w) == w \in Workers /\ worker[w].at # "done"

-----------------------------------------------------------------------------
(* The callers. *)

\* Mutant: start looks at _closed instead of the task.
StartUnlessOpen ==
  IF Alive(task) /\ ~closed
    THEN UNCHANGED << closed, task, worker >>
    ELSE /\ closed' = FALSE
         /\ task' \in { w \in Workers : ~Alive(w) }
         /\ worker' = [worker EXCEPT ![task'] = At("get")]

\* start: a worker is created unless one is at work.
StartWorker ==
  IF Alive(task)
    THEN UNCHANGED << closed, task, worker >>
    ELSE /\ closed' = FALSE
         /\ task' \in { w \in Workers : ~Alive(w) }
         /\ worker' = [worker EXCEPT ![task'] = At("get")]

\* call: the queue is started and the call put, before the caller waits.
Call(c) ==
  /\ call[c] = "idle"
  /\ StartWorker
  /\ call' = [call EXCEPT ![c] = "waiting"]
  /\ queue' = Append(queue, c)
  /\ passed' = [passed EXCEPT ![c] = 0]
  /\ UNCHANGED << stops, since, closing >>

\* The caller is cancelled; its item stays queued, or under way.
Cancel(c) ==
  /\ call[c] = "waiting"
  /\ call' = [call EXCEPT ![c] = "cancelled"]
  /\ UNCHANGED << queue, stops, closed, task, worker, since, closing, passed >>

\* Mutant: no stop is put.
CloseWithoutStop ==
  /\ ~closed
  /\ closed' = TRUE
  /\ closing' = IF Alive(task) THEN task ELSE NoWorker
  /\ UNCHANGED << call, queue, stops, task, worker, since, passed >>

\* close: once, until the queue is started again.
Close ==
  /\ ~closed
  /\ closed' = TRUE
  /\ stops' = stops + 1
  /\ closing' = IF Alive(task) THEN task ELSE NoWorker
  /\ UNCHANGED << call, queue, task, worker, since, passed >>

-----------------------------------------------------------------------------
(* The worker. *)

\* Mutant: the queue is a plain queue.
OldestFirst(q) == 1

\* The least item: most urgent, then first put.
MostUrgent(q) ==
  CHOOSE i \in DOMAIN q : \A j \in DOMAIN q :
    \/ Priority[q[i]] < Priority[q[j]]
    \/ Priority[q[i]] = Priority[q[j]] /\ i <= j

\* The request of c starts while the calls of rest are queued.
Begin(w, c, rest) ==
  /\ worker' = [worker EXCEPT ![w] =
                   [ at |-> "request", call |-> c, delay |-> 0 ]]
  /\ since' = 0
  /\ passed' = [ x \in Calls |->
                   IF x \in ToSet(rest) /\ Priority[x] < Priority[c]
                     THEN passed[x] + 1 ELSE passed[x] ]

\* Mutants: the operands of the subtraction are swapped; the worker sleeps
\* for the time that has passed.
ServeSwapped(w, c, rest) ==
  IF since >= MinInterval
    THEN Begin(w, c, rest)
    ELSE /\ worker' = [worker EXCEPT ![w] =
                         [ at |-> "limit", call |-> c,
                           delay |-> since - MinInterval ]]
         /\ UNCHANGED << since, passed >>

ServeAfterElapsed(w, c, rest) ==
  IF since >= MinInterval
    THEN Begin(w, c, rest)
    ELSE /\ worker' = [worker EXCEPT ![w] =
                         [ at |-> "limit", call |-> c, delay |-> since ]]
         /\ UNCHANGED << since, passed >>

\* _respect_rate_limit sleeps for what is missing, if anything is.
Serve(w, c, rest) ==
  IF since >= MinInterval
    THEN Begin(w, c, rest)
    ELSE /\ worker' = [worker EXCEPT ![w] =
                         [ at |-> "limit", call |-> c,
                           delay |-> MinInterval - since ]]
         /\ UNCHANGED << since, passed >>

\* Mutant: a stop is taken before the calls.
GetStopFirst(w) ==
  \/ /\ stops > 0
     /\ stops' = stops - 1
     /\ worker' = [worker EXCEPT ![w] = At("done")]
     /\ closing' = IF closing = w THEN NoWorker ELSE closing
     /\ UNCHANGED << queue, since, passed >>
  \/ /\ queue # << >> /\ stops = 0
     /\ queue' = RemoveAt(queue, MostUrgent(queue))
     /\ Serve(w, queue[MostUrgent(queue)], queue')
     /\ UNCHANGED << stops, closing >>
  \/ /\ queue = << >> /\ stops = 0
     /\ worker' = [worker EXCEPT ![w] = At("get")]
     /\ UNCHANGED << queue, stops, since, closing, passed >>

\* The worker goes round its loop: a call, else a stop, which ends it and lets
\* its close return, else it waits.
Get(w) ==
  \/ /\ queue # << >>
     /\ queue' = RemoveAt(queue, MostUrgent(queue))
     /\ Serve(w, queue[MostUrgent(queue)], queue')
     /\ UNCHANGED << stops, closing >>
  \/ /\ queue = << >> /\ stops > 0
     /\ stops' = stops - 1
     /\ worker' = [worker EXCEPT ![w] = At("done")]
     /\ closing' = IF closing = w THEN NoWorker ELSE closing
     /\ UNCHANGED << queue, since, passed >>
  \/ /\ queue = << >> /\ stops = 0
     /\ worker' = [worker EXCEPT ![w] = At("get")]
     /\ UNCHANGED << queue, stops, since, closing, passed >>

\* A waiting worker is resumed.
Resume(w) ==
  /\ worker[w].at = "get"
  /\ queue # << >> \/ stops > 0
  /\ Get(w)
  /\ UNCHANGED << call, closed, task >>

\* The sleep before a request ends.
EndSleep(w) ==
  /\ worker[w].at = "limit"
  /\ worker[w].delay = 0
  /\ Begin(w, worker[w].call, queue)
  /\ UNCHANGED << call, queue, stops, closed, task, closing >>

\* Mutant: the result is set on a future its caller has cancelled.
ReplyUnchecked(w) ==
  LET c == worker[w].call
  IN  /\ worker[w].at = "request"
      /\ call' = [call EXCEPT ![c] = "idle"]
      /\ IF call[c] = "waiting"
           THEN Get(w)
           ELSE /\ worker' = [worker EXCEPT ![w] = At("done")]
                /\ UNCHANGED << queue, stops, since, closing, passed >>
      /\ UNCHANGED << closed, task >>

\* The request ends, with a result or an exception: it is handed to the caller
\* if one still waits.
Reply(w) ==
  /\ worker[w].at = "request"
  /\ call' = [call EXCEPT ![worker[w].call] = "idle"]
  /\ Get(w)
  /\ UNCHANGED << closed, task >>

-----------------------------------------------------------------------------
Tick ==
  /\ \/ since < MinInterval
     \/ \E w \in Workers : worker[w].delay > 0
  /\ since' = IF since < MinInterval THEN since + 1 ELSE since
  /\ worker' = [ w \in Workers |->
                   [worker[w] EXCEPT !.delay = IF @ > 0 THEN @ - 1 ELSE 0] ]
  /\ UNCHANGED << call, queue, stops, closed, task, closing, passed >>

\* No request has started yet: the first one waits for nothing.
Init ==
  /\ call = [ c \in Calls |-> "idle" ]
  /\ queue = << >>
  /\ stops = 0
  /\ closed = FALSE
  /\ task = NoWorker
  /\ worker = [ w \in Workers |-> At("done") ]
  /\ since = MinInterval
  /\ closing = NoWorker
  /\ passed = [ c \in Calls |-> 0 ]

Next ==
  \/ \E c \in Calls : Call(c) \/ Cancel(c)
  \/ Close
  \/ \E w \in Workers : Resume(w) \/ EndSleep(w) \/ Reply(w)
  \/ Tick

Spec == Init /\ [][Next]_vars

\* Tasks that can run do run, time passes, and every request ends
\* (dynadot_timeout_seconds).  Nobody has to call, to cancel or to close.
Fairness ==
  /\ WF_vars(Tick)
  /\ \A w \in Workers : WF_vars(Resume(w) \/ EndSleep(w) \/ Reply(w))

FairSpec == Spec /\ Fairness

-----------------------------------------------------------------------------
TypeOK ==
  /\ call \in [Calls -> { "idle", "waiting", "cancelled" }]
  /\ queue \in Seq(Calls)
  /\ stops \in Nat
  /\ closed \in BOOLEAN
  /\ task \in Workers \cup { NoWorker }
  /\ worker \in [Workers -> WorkerState]
  /\ since \in 0..MinInterval
  /\ closing \in Workers \cup { NoWorker }
  /\ passed \in [Calls -> Nat]

\* Two requests are never under way at the same time, whoever calls, closes
\* or starts the queue again (_active_requests is at most 1).
OneRequestAtATime ==
  \A v, w \in Workers :
    worker[v].at = "request" /\ worker[w].at = "request" => v = w

\* A call is overtaken by at most one less urgent request: the one that had
\* been taken from the queue before it was put.  A Register waits for at most
\* one search, even when it comes while that search is held back by the rate
\* limit.
OvertakenAtMostOnce == \A c \in ToSet(queue) : passed[c] <= 1

\* When close has returned, nothing is queued and no request is under way,
\* until the next call: the client the worker uses may be closed.
CloseDrains ==
  closed /\ closing = NoWorker =>
    queue = << >> /\ \A w \in Workers : worker[w].at = "done"

\* A request starts at least MinInterval after the one before, also when the
\* queue was closed and started again in between.
RequestStarts(w) ==
  /\ worker'[w].at = "request"
  /\ worker[w].at = "request" => worker'[w].call # worker[w].call
RequestsSpaced ==
  [][ \A w \in Workers : RequestStarts(w) => since >= MinInterval ]_vars

\* Every call is served, answered or not, cancelled or not, before a close or
\* after it: unless more urgent calls keep coming.
CallsAreServed ==
  \A c \in Calls :
    \/ call[c] # "idle" ~> call[c] = "idle"
    \/ []<><< \E x \in Calls : Priority[x] < Priority[c] /\ Call(x) >>_vars

\* close returns, unless calls keep coming.
CloseReturns ==
  \/ closing # NoWorker ~> closing = NoWorker
  \/ []<><< \E c \in Calls : Call(c) >>_vars

-----------------------------------------------------------------------------
Holding(point) == { w \in Workers : worker[w].at = point }

\* A call is pending while it is queued or its worker sleeps.
Server == INSTANCE SerialServer
  WITH pending <- ToSet(queue) \cup { worker[w].call : w \in Holding("limit") },
       sent <- IF Holding("request") = {} THEN NoCall
               ELSE worker[CHOOSE w \in Holding("request") : TRUE].call

\* Through cancelled callers, closes and new workers, the queue sends each
\* call it was given at most once, and one at a time.
ImplementsSerialServer == Server!Spec
=============================================================================
