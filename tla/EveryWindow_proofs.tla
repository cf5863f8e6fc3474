-------------------------- MODULE EveryWindow_proofs --------------------------
(***************************************************************************)
(* No daily window goes by unwatched, for every plan of rows, every zone   *)
(* and all delays.  First how long a check may take, then how far the      *)
(* starts of a window are apart, then an invariant that bounds how late    *)
(* the daemon comes to a row.                                              *)
(***************************************************************************)
EXTENDS TimedScheduler_proofs

\* Sums of times, in order.
LEMMA SumsInOrder ==
  ASSUME NEW a \in Int, NEW b \in Int, NEW c \in Int, NEW d \in Int, NEW e \in Int,
         NEW f \in Int, a + b <= c + d, c + d <= e + f
  PROVE  a + b <= e + f
  OBVIOUS

(* The time of a check. *)

DelaysTotal(f, k) ==
  f = [ n \in 0..k |-> IF n = 0 THEN 0 ELSE f[n - 1] + Delays[n] ]

\* The delays can be added up.
LEMMA TotalExists == \E f : DelaysTotal(f, Len(Delays))
<1> DEFINE T == { k \in 0..Len(Delays) : ~(\E f : DelaysTotal(f, k)) }
<1>1. Len(Delays) \in Nat
  BY TimesAssumption
<1> SUFFICES T = {}
  BY <1>1
<1> SUFFICES ASSUME T # {} PROVE FALSE
  OBVIOUS
<1>2. T \in SUBSET Nat
  BY <1>1
<1>3. PICK k \in T : \A j \in T : k <= j
  <2> HIDE DEF T
  <2> QED BY <1>2, LeastExists
<1>4. k \in 0..Len(Delays) /\ ~(\E f : DelaysTotal(f, k))
  OBVIOUS
<1>5. CASE k = 0
  <2> DEFINE f == [ n \in 0..0 |-> 0 ]
  <2>1. f = [ n \in 0..0 |-> IF n = 0 THEN 0 ELSE f[n - 1] + Delays[n] ]
    OBVIOUS
  <2> HIDE DEF f
  <2>2. DelaysTotal(f, k)
    BY <1>5, <2>1 DEF DelaysTotal
  <2> QED BY <1>4, <2>2
<1>6. CASE k # 0
  <2>1. k - 1 \in 0..Len(Delays) /\ ~(k <= k - 1)
    BY <1>1, <1>4, <1>6
  <2>2. PICK f : DelaysTotal(f, k - 1)
    BY <1>3, <2>1
  <2> DEFINE g == [ n \in 0..k |-> IF n = k THEN f[k - 1] + Delays[k] ELSE f[n] ]
  <2>3. g = [ n \in 0..k |-> IF n = 0 THEN 0 ELSE g[n - 1] + Delays[n] ]
    <3> SUFFICES ASSUME NEW n \in 0..k
                 PROVE  g[n] = IF n = 0 THEN 0 ELSE g[n - 1] + Delays[n]
      OBVIOUS
    <3>1. n = k => g[n] = f[n - 1] + Delays[n] /\ n # 0 /\ n - 1 \in 0..k /\ n - 1 # k
      BY <1>4, <1>6
    <3>2. n # k => g[n] = f[n] /\ n \in 0..(k - 1) /\ (n # 0 => n - 1 \in 0..k /\ n - 1 # k)
      BY <1>4
    <3>3. n # k => f[n] = IF n = 0 THEN 0 ELSE f[n - 1] + Delays[n]
      BY <2>2, <3>2 DEF DelaysTotal
    <3>4. n # 0 => g[n - 1] = f[n - 1]
      BY <3>1, <3>2
    <3> QED BY <3>1, <3>2, <3>3, <3>4
  <2> HIDE DEF g
  <2>4. DelaysTotal(g, k)
    BY <2>3 DEF DelaysTotal
  <2> QED BY <1>4, <2>4
<1> QED BY <1>5, <1>6

LEMMA TotalUnfolds ==
  TotalDelay = [ n \in 0..Len(Delays) |->
                   IF n = 0 THEN 0 ELSE TotalDelay[n - 1] + Delays[n] ]
<1>1. TotalDelay = CHOOSE f : DelaysTotal(f, Len(Delays))
  BY DEF TotalDelay, DelaysTotal
<1>2. DelaysTotal(TotalDelay, Len(Delays))
  BY <1>1, TotalExists
<1> QED BY <1>2 DEF DelaysTotal

LEMMA TotalSteps ==
  /\ TotalDelay[0] = 0
  /\ \A n \in 1..Len(Delays) : TotalDelay[n] = TotalDelay[n - 1] + Delays[n]
<1>1. Len(Delays) \in Nat
  BY TimesAssumption
<1>2. TotalDelay[0] = 0
  BY <1>1, TotalUnfolds
<1>3. ASSUME NEW n \in 1..Len(Delays)
      PROVE  TotalDelay[n] = TotalDelay[n - 1] + Delays[n]
  <2>1. n \in 0..Len(Delays) /\ n # 0
    BY <1>1
  <2> QED BY <2>1, TotalUnfolds
<1> QED BY <1>2, <1>3

\* A set of times that contains what follows each of its members, and 0,
\* contains them all.
LEMMA UpTo ==
  ASSUME NEW last \in Nat, NEW S, 0 \in S, \A n \in 1..last : n - 1 \in S => n \in S
  PROVE  0..last \subseteq S
<1> DEFINE T == { n \in 0..last : n \notin S }
<1> SUFFICES ASSUME T # {} PROVE FALSE
  OBVIOUS
<1>1. PICK n \in T : \A m \in T : n <= m
  <2>1. T \in SUBSET Nat
    OBVIOUS
  <2> HIDE DEF T
  <2> QED BY <2>1, LeastExists
<1>2. n \in 0..last /\ n # 0
  OBVIOUS
<1>3. n \in 1..last /\ n - 1 \in 0..last /\ ~(n <= n - 1)
  BY <1>2
<1>4. n - 1 \in S
  BY <1>1, <1>3
<1> QED BY <1>3, <1>4

LEMMA TotalType ==
  ASSUME NEW k \in 0..Len(Delays)
  PROVE  TotalDelay[k] \in Nat
<1> DEFINE S == { n \in Nat : TotalDelay[n] \in Nat }
<1>1. Len(Delays) \in Nat /\ \A n \in 1..Len(Delays) : Delays[n] \in Nat
  BY TimesAssumption
<1>2. 0 \in S
  BY TotalSteps
<1>3. \A n \in 1..Len(Delays) : n - 1 \in S => n \in S
  BY <1>1, TotalSteps
<1> HIDE DEF S
<1>4. k \in S
  BY <1>1, <1>2, <1>3, UpTo
<1> QED BY <1>4 DEF S

\* The delays that are left.
LEMMA TotalGrows ==
  ASSUME NEW k \in 0..Len(Delays)
  PROVE  TotalDelay[k] <= TotalDelay[Len(Delays)]
<1> DEFINE last == Len(Delays)
           S == { n \in 0..last : TotalDelay[last - n] <= TotalDelay[last] }
<1>1. last \in Nat /\ \A n \in 1..last : Delays[n] \in Nat
  BY TimesAssumption
<1>2. \A n \in 0..last : TotalDelay[n] \in Nat
  BY TotalType
<1> HIDE DEF last
<1>3. 0 \in S
  BY <1>1, <1>2
<1>4. ASSUME NEW n \in 1..last, n - 1 \in S PROVE n \in S
  <2> DEFINE m == last - n + 1
  <2>1. m \in 1..last /\ m \in 0..last /\ last - n \in 0..last /\ m - 1 = last - n
        /\ n - 1 \in 0..last /\ last - (n - 1) = m
    BY <1>1
  <2>2. TotalDelay[m] <= TotalDelay[last]
    BY <1>4, <2>1
  <2> HIDE DEF m
  <2>3. TotalDelay[m] = TotalDelay[last - n] + Delays[m] /\ Delays[m] \in Nat
    BY <1>1, <2>1, TotalSteps DEF last
  <2>4. TotalDelay[last - n] <= TotalDelay[last]
    BY <1>1, <1>2, <2>1, <2>2, <2>3
  <2> QED BY <2>1, <2>4
<1> HIDE DEF S
<1>5. last - k \in 0..last
  BY <1>1 DEF last
<1>6. last - k \in S
  BY <1>1, <1>3, <1>4, <1>5, UpTo
<1>7. last - (last - k) = k
  BY <1>1 DEF last
<1> QED BY <1>6, <1>7 DEF S, last

\* The longest that what follows the kth retry takes.
Retrying(k) ==
  (Len(Delays) - k) * ReplyWithin + TotalDelay[Len(Delays)] - TotalDelay[k]

LEMMA RetryingType ==
  ASSUME NEW k \in 0..Len(Delays)
  PROVE  /\ Retrying(k) \in Nat
         /\ LongestCheck \in Nat
         /\ LongestCheck = ReplyWithin + Retrying(0)
<1>1. Len(Delays) \in Nat /\ ReplyWithin \in Nat
  BY TimesAssumption
<1>2. /\ TotalDelay[k] \in Nat /\ TotalDelay[Len(Delays)] \in Nat
      /\ TotalDelay[k] <= TotalDelay[Len(Delays)] /\ TotalDelay[0] = 0
  BY <1>1, TotalType, TotalGrows, TotalSteps
<1>3. \A m \in Nat : m * ReplyWithin \in Nat /\ (m + 1) * ReplyWithin = m * ReplyWithin + ReplyWithin
  BY <1>1
<1>4. /\ (Len(Delays) - k) * ReplyWithin \in Nat
      /\ Len(Delays) * ReplyWithin \in Nat
      /\ (Len(Delays) + 1) * ReplyWithin = Len(Delays) * ReplyWithin + ReplyWithin
  <2>1. Len(Delays) - k \in Nat
    BY <1>1
  <2> QED BY <1>1, <1>3, <2>1
<1>5. Retrying(0) = Len(Delays) * ReplyWithin + TotalDelay[Len(Delays)]
  <2>1. Len(Delays) - 0 = Len(Delays)
    BY <1>1
  <2> QED BY <1>2, <1>4, <2>1 DEF Retrying
<1> QED BY <1>1, <1>2, <1>4, <1>5 DEF Retrying, LongestCheck

\* One more retry takes its delay and the time of a reply.
LEMMA RetryingNext ==
  ASSUME NEW k \in 0..Len(Delays), k < Len(Delays)
  PROVE  Delays[k + 1] \in Nat /\ Retrying(k) = Delays[k + 1] + ReplyWithin + Retrying(k + 1)
<1>1. Len(Delays) \in Nat /\ ReplyWithin \in Nat
  BY TimesAssumption
<1>2. k + 1 \in 1..Len(Delays) /\ k + 1 \in 0..Len(Delays) /\ (k + 1) - 1 = k
  BY <1>1
<1>3. /\ TotalDelay[k] \in Nat /\ TotalDelay[k + 1] \in Nat /\ TotalDelay[Len(Delays)] \in Nat
      /\ TotalDelay[k + 1] = TotalDelay[k] + Delays[k + 1] /\ Delays[k + 1] \in Nat
  BY <1>1, <1>2, TotalType, TotalSteps, TimesAssumption
<1>4. \A m \in Nat : m * ReplyWithin \in Nat /\ (m + 1) * ReplyWithin = m * ReplyWithin + ReplyWithin
  BY <1>1
<1>5. /\ (Len(Delays) - (k + 1)) * ReplyWithin \in Nat
      /\ (Len(Delays) - k) * ReplyWithin
           = (Len(Delays) - (k + 1)) * ReplyWithin + ReplyWithin
  <2>1. Len(Delays) - (k + 1) \in Nat /\ Len(Delays) - k = (Len(Delays) - (k + 1)) + 1
    BY <1>1, <1>2
  <2> QED BY <1>4, <2>1
<1> DEFINE more == (Len(Delays) - k) * ReplyWithin
           rest == (Len(Delays) - (k + 1)) * ReplyWithin
<1>6. /\ Retrying(k) = more + TotalDelay[Len(Delays)] - TotalDelay[k]
      /\ Retrying(k + 1) = rest + TotalDelay[Len(Delays)] - TotalDelay[k + 1]
  BY DEF Retrying
<1>7. rest \in Nat /\ more = rest + ReplyWithin
  BY <1>5
<1> HIDE DEF more, rest
<1> DEFINE spent == TotalDelay[k]
           next == Delays[k + 1]
           all == TotalDelay[Len(Delays)]
<1>8. /\ spent \in Nat /\ next \in Nat /\ all \in Nat
      /\ Retrying(k) = more + all - spent
      /\ Retrying(k + 1) = rest + all - (spent + next)
  BY <1>3, <1>6
<1>9. next \in Nat
  BY <1>8
<1> HIDE DEF spent, next, all
<1>10. Retrying(k) = next + ReplyWithin + Retrying(k + 1)
  BY <1>1, <1>7, <1>8
<1> QED BY <1>9, <1>10 DEF next

-----------------------------------------------------------------------------
(* The starts of a daily window. *)

\* A start is a day or more after the one before it, but for an hour lost.
LEMMA StartsApart ==
  ASSUME NEW z, IsZone(z), NEW time \in (0..(Day - 1)) \ Shifted(z),
         NEW t \in Int, TimeOfDay(z, t) = time,
         NEW i \in Int, t < Utc(z, i * Day + time)
  PROVE  t + Day - Greater(0, z.after - z.before) <= Utc(z, i * Day + time)
<1> DEFINE v == Local(z, t)
           k == v \div Day
           w == i * Day + time
           s == Utc(z, w)
<1>1. /\ v \in Int /\ k \in Int /\ k * Day \in Int
      /\ v = k * Day + time
  <2>1. v \in Int
    BY LocalType
  <2>2. v % Day = time
    BY DEF TimeOfDay
  <2> HIDE DEF v
  <2> QED BY <2>1, <2>2, DayAssumption
<1>2. w \in Int /\ i * Day \in Int /\ w % Day = time /\ s \in Int
  BY TimeOf, LocalType, DayAssumption
<1>3. v < w
  <2>1. s <= t <=> w <= v
    BY <1>2, Unshifted
  <2> QED BY <1>1, <1>2, <2>1
<1>4. k * Day < i * Day
  <2> HIDE DEF k, v
  <2> QED BY <1>1, <1>2, <1>3, DayAssumption
<1>5. k * Day + Day <= i * Day
  <2> HIDE DEF k, v
  <2>1. k + 1 <= i /\ (k + 1) * Day = k * Day + Day
    BY <1>1, <1>4, DayOrder, TheDayAfter
  <2>2. \A a, b, c \in Int : a <= b /\ 0 < c => a * c <= b * c
    OBVIOUS
  <2>3. (k + 1) * Day <= i * Day
    BY <1>1, <2>1, <2>2, DayAssumption
  <2> QED BY <2>1, <2>3
<1>6. v + Day <= w
  <2> HIDE DEF k, v
  <2> QED BY <1>1, <1>2, <1>5, DayAssumption
<1>7. Local(z, s) = w
  BY <1>2, Unshifted
<1>8. z.at \in Int /\ z.before \in Int /\ z.after \in Int
  BY ZoneType
<1>9. /\ v = t + (IF t < z.at THEN z.before ELSE z.after)
      /\ w = s + (IF s < z.at THEN z.before ELSE z.after)
  BY <1>7 DEF Local
<1> HIDE DEF v, w, s, k
<1>10. t < s
  BY DEF s, w
<1> QED BY <1>1, <1>2, <1>6, <1>8, <1>9, <1>10, DayAssumption DEF Greater, s, w

\* No start lies between now and the one that follows.
LEMMA NoneBetween ==
  ASSUME NEW z, IsZone(z), NEW time \in (0..(Day - 1)) \ Shifted(z), NEW t \in Int,
         NEW i \in Int, Utc(z, i * Day + time) < NextDailyWindowStart(z, time, t)
  PROVE  Utc(z, i * Day + time) <= t
<1>1. PICK k \in Int :
        /\ NextDailyWindowStart(z, time, t) = Utc(z, k * Day + time)
        /\ k * Day + time <= Local(z, t) + Day
  BY NextWall
<1>2. Utc(z, i * Day + time) \in Int /\ Utc(z, k * Day + time) \in Int
  BY TimeOf, LocalType
<1>3. t < Utc(z, i * Day + time) => Utc(z, k * Day + time) <= Utc(z, i * Day + time)
  BY <1>1, LaterStarts
<1> QED BY <1>1, <1>2, <1>3

-----------------------------------------------------------------------------
(* The invariant. *)

Up == pc \notin { "down", "recover" }
Short(d) == IsDaily(d) /\ ~AllDay(d)

\* The kth start of the daily window of d.
Window(d, k) == Utc(zone, k * Day + daily[d])

\* The longest that is left of the check under way.
Left ==
  IF pc = "start" THEN LongestCheck
  ELSE IF pc = "search" THEN wait + Retrying(retries)
  ELSE IF pc = "retry" THEN wait + ReplyWithin + Retrying(retries)
  ELSE 0

\* Recovery takes no time, and a check no longer than its retries allow.
Punctual ==
  /\ pc = "recover" => since = now
  /\ pc \notin Serving => retries = 0
  /\ pc \in Working => cycle <= now /\ now + Left <= cycle + LongestCheck

\* A window is rolled over before a check, or a unit of time, has passed since
\* its end.
Slack == Greater(1, LongestCheck) - 1
Prompt == Up => \A d \in Monitored : now + Left <= row[d].end + Slack

\* A row never skips a window that is still to come.
Nearest ==
  \A d \in Rows : Short(d) =>
    \A k \in Int : Offered(d, Window(d, k)) /\ Window(d, k) < row[d].start
                     => Window(d, k) <= now

\* A row that has not been searched in its window is due at its start.
Untouched ==
  Up => \A d \in Rows :
    Short(d) /\ since < row[d].start /\ searched[d] < row[d].start =>
      row[d].next = row[d].start

\* The window of d has begun and d has not been searched since.
Waiting(d) ==
  /\ Up /\ Short(d)
  /\ since < row[d].start /\ row[d].start <= now /\ searched[d] < row[d].start

\* Rows that cannot go before d: a row served in a cycle that began before the
\* window of d may be due again first.
Behind(d) == { e \in Ahead(d) : e = picked => row[d].start <= cycle }

\* The other rows that may still go before d.
Turns(d) == Cardinality(Rows) - 1 - Cardinality(Behind(d))

Latest(d) == row[d].start + Greater(0, Cardinality(Rows) * LongestCheck - 1)

\* A row that waits is reached in time, whoever is served before it.
InHand ==
  \A d \in Rows : Waiting(d) =>
    IF d = picked THEN now <= Latest(d)
    ELSE now + Left + LongestCheck * Turns(d) <= Latest(d)

\* The windows that are past were searched.
Kept ==
  Up => \A d \in Rows : Watchable(d) =>
    \A k \in Int :
      Offered(d, Window(d, k)) /\ since < Window(d, k) /\ Window(d, k) < row[d].start
        => searched[d] >= Window(d, k)

OnTime == Punctual /\ Prompt /\ Nearest /\ Untouched /\ InHand /\ Kept

-----------------------------------------------------------------------------
(* The check under way. *)

LEMMA LeftType ==
  ASSUME TypeInv
  PROVE  Left \in Nat /\ LongestCheck \in Nat
<1>1. wait \in Nat /\ retries \in 0..Len(Delays) /\ ReplyWithin \in Nat
  BY TimesAssumption DEF TypeInv, Control
<1>2. Retrying(retries) \in Nat /\ LongestCheck \in Nat
  BY <1>1, RetryingType
<1> QED BY <1>1, <1>2 DEF Left

LEMMA LeftTypePrime ==
  ASSUME TypeInv'
  PROVE  Left' \in Nat
<1>1. wait' \in Nat /\ retries' \in 0..Len(Delays) /\ ReplyWithin \in Nat
  BY TimesAssumption DEF TypeInv, Control
<1>2. Retrying(retries') \in Nat /\ LongestCheck \in Nat
  BY <1>1, RetryingType
<1>3. Left' = IF pc' = "start" THEN LongestCheck
              ELSE IF pc' = "search" THEN wait' + Retrying(retries')
              ELSE IF pc' = "retry" THEN wait' + ReplyWithin + Retrying(retries')
              ELSE 0
  BY DEF Left, LongestCheck, Retrying
<1> QED BY <1>1, <1>2, <1>3

\* A check takes no more time than it had left.
LEMMA CheckGoesOn ==
  ASSUME TypeInv, Punctual, pc \in Working, Next, ~Crash
  PROVE  /\ now' + Left' <= now + Left
         /\ now <= now' /\ UNCHANGED << zone, since >>
         /\ \/ pc' \in Serving /\ UNCHANGED << cycle, picked >>
            \/ pc' = "loop" /\ Left' = 0
<1>0. /\ wait \in Nat /\ retries \in 0..Len(Delays) /\ ReplyWithin \in Nat /\ now \in Nat
      /\ Left \in Nat
  BY LeftType, TimesAssumption DEF TypeInv, Control, Clock
<1>1. CASE StartCheck
  <2>1. /\ pc = "start" /\ pc' = "search" /\ wait' = ReplyWithin
        /\ UNCHANGED << retries, now, zone, since, cycle, picked >>
    BY <1>1 DEF StartCheck
  <2>2. retries = 0
    BY <2>1 DEF Punctual, Serving
  <2>3. Left = LongestCheck /\ Left' = ReplyWithin + Retrying(0)
    BY <2>1, <2>2 DEF Left, Retrying
  <2> QED BY <1>0, <2>1, <2>2, <2>3, RetryingType DEF Serving
<1>2. CASE SearchReply \/ SearchFails
  <2>1. /\ pc' \in { "resched", "backoff" } /\ UNCHANGED << now, zone, since, cycle, picked >>
    BY <1>2 DEF SearchReply, SearchFails
  <2>2. Left' = 0
    BY <2>1 DEF Left
  <2> QED BY <1>0, <2>1, <2>2 DEF Serving
<1>3. CASE SearchRetry
  <2>1. /\ pc = "search" /\ pc' = "retry" /\ retries < Len(Delays)
        /\ retries' = retries + 1 /\ wait' = Delays[retries + 1]
        /\ UNCHANGED << now, zone, since, cycle, picked >>
    BY <1>3 DEF SearchRetry
  <2>2. /\ Left = wait + Retrying(retries)
        /\ Left' = Delays[retries + 1] + ReplyWithin + Retrying(retries + 1)
    BY <2>1 DEF Left, Retrying
  <2>3. Left' = Retrying(retries) /\ Retrying(retries) \in Nat
    BY <1>0, <2>1, <2>2, RetryingNext, RetryingType
  <2> QED BY <1>0, <2>1, <2>2, <2>3 DEF Serving
<1>4. CASE SendAgain
  <2>1. /\ pc = "retry" /\ pc' = "search" /\ wait = 0 /\ wait' = ReplyWithin
        /\ UNCHANGED << retries, now, zone, since, cycle, picked >>
    BY <1>4 DEF SendAgain
  <2>2. /\ Left = wait + ReplyWithin + Retrying(retries)
        /\ Left' = ReplyWithin + Retrying(retries)
    BY <2>1 DEF Left, Retrying
  <2> QED BY <1>0, <2>1, <2>2, RetryingType DEF Serving
<1>5. CASE Reschedule
  <2>1. pc' = "loop" /\ UNCHANGED << now, zone, since >>
    BY <1>5 DEF Reschedule
  <2>2. Left' = 0
    BY <2>1 DEF Left
  <2> QED BY <1>0, <2>1, <2>2
<1>6. CASE Tick
  <2>1. /\ pc \in { "search", "retry" } /\ wait > 0 /\ pc' = pc
        /\ now' = now + 1 /\ wait' = wait - 1
        /\ UNCHANGED << retries, zone, since, cycle, picked >>
    BY <1>0, <1>6 DEF Tick, Working, Serving
  <2>2. /\ pc = "search" => Left = wait + Retrying(retries)
                            /\ Left' = (wait - 1) + Retrying(retries)
        /\ pc = "retry" => Left = wait + ReplyWithin + Retrying(retries)
                           /\ Left' = (wait - 1) + ReplyWithin + Retrying(retries)
    BY <2>1 DEF Left, Retrying
  <2>3. Retrying(retries) \in Nat
    BY <1>0, RetryingType
  <2> QED BY <1>0, <2>1, <2>2, <2>3 DEF Serving
<1>7. CASE \/ Recover \/ ExpireDueWindows \/ SelectDueDomain \/ NothingDue \/ Wake \/ Start
  BY <1>7 DEF Recover, ExpireDueWindows, SelectDueDomain, NothingDue, Wake, Start,
              Working, Serving
<1> QED BY <1>1, <1>2, <1>3, <1>4, <1>5, <1>6, <1>7 DEF Next

\* A step that is not one of a check, or ends it.
LEMMA NoCheck ==
  ASSUME pc \notin Working
  PROVE  Left = 0
  BY DEF Left, Working, Serving

LEMMA StepPunctual ==
  ASSUME TypeInv, Timely, Punctual, Next
  PROVE  Punctual'
<1>0. /\ InCycle /\ now \in Int /\ cycle \in Int /\ Left \in Nat /\ LongestCheck \in Nat
      /\ Left' \in Nat
  <2>1. InCycle /\ TypeInv'
    BY StepType DEF Timely
  <2>2. now \in Int /\ cycle \in Int
    BY TimesAssumption DEF TypeInv, Clock, Control
  <2> QED BY <2>1, <2>2, LeftType, LeftTypePrime
<1>1. CASE pc \in Working /\ ~Crash
  <2>1. /\ now' + Left' <= now + Left /\ now <= now'
        /\ \/ pc' \in Serving /\ UNCHANGED << cycle, picked >>
           \/ pc' = "loop" /\ Left' = 0
    BY <1>1, CheckGoesOn
  <2>2. cycle <= now /\ now + Left <= cycle + LongestCheck
    BY <1>1 DEF Punctual
  <2>3. pc' \notin Serving => retries' = 0
    BY <1>1, <2>1 DEF Next, Recover, ExpireDueWindows, SelectDueDomain, NothingDue, Wake,
      StartCheck, SearchReply, SearchRetry, SendAgain, SearchFails, Reschedule, Forget,
      Start, Tick, Serving, Working
  <2>4. now' \in Int
    BY StepType, TimesAssumption DEF TypeInv, Clock
  <2>5. LongestCheck' = LongestCheck /\ Working' = Working /\ Serving' = Serving
    BY DEF LongestCheck, Working, Serving
  <2>6. pc' # "recover" /\ (pc' \in Working => UNCHANGED cycle)
    BY <2>1 DEF Serving, Working
  <2>7. cycle <= now' /\ now' + Left' <= cycle + LongestCheck
    <3>1. cycle <= now'
      BY <1>0, <2>1, <2>2, <2>4
    <3>2. Left \in Int /\ Left' \in Int /\ LongestCheck \in Int
      BY <1>0
    <3>3. now' + Left' <= now + Left /\ now + Left <= cycle + LongestCheck
      BY <2>1, <2>2
    <3>4. now' + Left' <= cycle + LongestCheck
      BY <1>0, <2>4, <3>2, <3>3, SumsInOrder
    <3> QED BY <3>1, <3>4
  <2> QED BY <2>3, <2>5, <2>6, <2>7 DEF Punctual
<1>2. CASE SelectDueDomain
  <2>1. pc = "select" /\ pc' = "start" /\ UNCHANGED << now, cycle, retries >>
    BY <1>2 DEF SelectDueDomain
  <2>2. Left' = LongestCheck /\ cycle = now /\ retries = 0
    BY <1>0, <2>1 DEF Left, InCycle, Punctual, Serving, LongestCheck
  <2> QED BY <1>0, <2>1, <2>2 DEF Punctual, Working, Serving, LongestCheck
<1>3. CASE (pc \notin Working /\ ~SelectDueDomain) \/ Crash
  <2>1. pc' \notin Working /\ retries' = 0
    BY <1>3 DEF Next, Recover, ExpireDueWindows, NothingDue, Wake, locals,
      StartCheck, SearchReply, SearchRetry, SendAgain, SearchFails, Reschedule, Forget,
      Start, Crash, Tick, Serving, Working, Punctual
  <2>2. pc' = "recover" => since' = now /\ now' = now
    BY <1>3, <2>1 DEF Next, Recover, ExpireDueWindows, NothingDue, Wake, locals,
      StartCheck, SearchReply, SearchRetry, SendAgain, SearchFails, Reschedule, Forget,
      Start, Crash, Tick, Serving, Working, Punctual
  <2>3. pc' \notin Serving
    BY <2>1 DEF Working
  <2> QED BY <1>0, <2>1, <2>2, <2>3 DEF Punctual, Working, Serving
<1> QED BY <1>1, <1>2, <1>3

-----------------------------------------------------------------------------
(* The rows. *)

LEMMA ShortType ==
  ASSUME TypeInv, NEW d \in Rows, Short(d)
  PROVE  /\ IsZone(zone) /\ daily[d] \in (0..(Day - 1)) \ Shifted(zone)
         /\ Plan[d].duration \in Nat /\ 0 < Plan[d].duration
         /\ \A k \in Int : Window(d, k) \in Int
<1>1. /\ IsZone(zone) /\ daily[d] \in (0..(Day - 1)) \ Shifted(zone)
      /\ Plan[d].duration \in Nat /\ 0 < Plan[d].duration
  BY RowFacts, PlanType DEF Short
<1>2. \A k \in Int : Window(d, k) \in Int
  BY <1>1, TimeOf, LocalType DEF Window
<1> QED BY <1>1, <1>2

\* A short window is rolled over to the next one, which is still to come.
LEMMA RolledShort ==
  ASSUME TypeInv, Windows, NEW d \in Rows, Short(d)
  PROVE  LET r == Rolled(d, now)
         IN  /\ r.start = NextDailyWindowStart(zone, daily[d], now)
             /\ r.start \in Int /\ now < r.start
             /\ r.end = r.start + Plan[d].duration /\ r.next = r.start
<1> DEFINE start == NextDailyWindowStart(zone, daily[d], now)
<1>1. start \in Int /\ now \in Int /\ now < start
  BY ShortType, NextDaily, RowFacts
<1>2. DailyStart(d, now) = start
  <2>1. TimeOfDay(zone, row[d].start) = daily[d]
    BY DEF Windows, InPlan, Short
  <2> QED BY <2>1 DEF DailyStart, NextDailyWindowAfter, Short
<1>3. Rolled(d, now) = Windowed(d, start, now)
  BY <1>2 DEF Rolled, Short
<1> HIDE DEF start
<1>4. /\ Windowed(d, start, now).start = start /\ Windowed(d, start, now).next = start
      /\ Windowed(d, start, now).end = start + Plan[d].duration
  BY <1>1 DEF Windowed
<1> QED BY <1>1, <1>3, <1>4 DEF start

\* What a step makes of the window of a row.
LEMMA RowStep ==
  ASSUME TypeInv, Timely, Next, NEW d \in Rows
  PROVE  \/ row'[d].start = row[d].start /\ row'[d].end = row[d].end
         \/ /\ Recover \/ ExpireDueWindows
            /\ row[d].end <= now /\ row'[d] = Rolled(d, now)
<1>0. /\ row \in [Rows -> TimedRow] /\ InCycle /\ now \in Int
      /\ row[d].start \in Int /\ row[d].end \in Int
  BY RowFacts DEF TypeInv, Store, Timely
<1>1. CASE Recover
  <2>1. row'[d] = Aligned(d, now)
    BY <1>1 DEF Recover, Commit
  <2>2. CASE now >= row[d].end
    BY <1>0, <1>1, <2>1, <2>2 DEF Aligned
  <2>3. CASE now < row[d].end
    <3>1. /\ Aligned(d, now).start = row[d].start
          /\ Aligned(d, now).end = row[d].end
      BY <1>0, <2>3 DEF Aligned, TimedRow
    <3> QED BY <2>1, <3>1
  <2> QED BY <1>0, <2>2, <2>3
<1>2. CASE ExpireDueWindows
  <2>1. CASE d \in Monitored /\ row[d].end <= now
    BY <1>2, <2>1 DEF ExpireDueWindows, Commit
  <2>2. CASE ~(d \in Monitored /\ row[d].end <= now)
    BY <1>2, <2>2 DEF ExpireDueWindows, Commit
  <2> QED BY <2>1, <2>2
<1>3. CASE StartCheck
  <2> DEFINE r == [row[picked] EXCEPT !.status = "watching"]
  <2>1. pc = "start" /\ row' = [row EXCEPT ![picked] = r]
    BY <1>3 DEF StartCheck
  <2>2. picked \in Rows
    BY <1>0, <2>1 DEF InCycle, Working, Monitored
  <2>3. r.start = row[picked].start /\ r.end = row[picked].end
    BY <2>2, StatusSet
  <2> HIDE DEF r
  <2> QED BY <1>0, <2>1, <2>2, <2>3
<1>4. CASE Reschedule
  <2> DEFINE r == [row[picked] EXCEPT !.next = NextCheck(picked), !.status = "watching"]
  <2>1. /\ row' = [row EXCEPT ![picked] = r]
        /\ r.start = row[picked].start /\ r.end = row[picked].end
    BY <1>0, <1>4, RescheduledRow DEF Timely
  <2> HIDE DEF r
  <2> QED BY <1>0, <2>1
<1>5. CASE \/ SelectDueDomain \/ NothingDue \/ Wake \/ SearchReply \/ SearchRetry
           \/ SendAgain \/ SearchFails \/ Start \/ Crash \/ Tick
  BY <1>5 DEF SelectDueDomain, NothingDue, Wake, SearchReply, SearchRetry, SendAgain,
              SearchFails, Start, Crash, Tick
<1> QED BY <1>1, <1>2, <1>3, <1>4, <1>5 DEF Next

\* The zone and the daily times stay, and time never goes back.
LEMMA ClockStep ==
  ASSUME TypeInv, Next
  PROVE  /\ zone' = zone /\ daily' = daily /\ now' \in Int /\ now <= now'
         /\ ~Tick => now' = now
         /\ ~Start /\ ~Crash => since' = since
<1>1. now \in Int
  BY DEF TypeInv, Clock
<1> QED BY <1>1 DEF Next, Recover, ExpireDueWindows, SelectDueDomain, NothingDue, Wake,
      StartCheck, SearchReply, SearchRetry, SendAgain, SearchFails, Reschedule, Start,
      Crash, Tick

LEMMA StepNearest ==
  ASSUME TypeInv, Timely, Nearest, Next
  PROVE  Nearest'
<1> SUFFICES ASSUME NEW d \in Rows, Short(d), NEW k \in Int,
                    Offered(d, Window(d, k)), Window(d, k) < row'[d].start
             PROVE  Window(d, k) <= now'
  <2>1. zone' = zone /\ daily' = daily
    BY ClockStep
  <2>2. \A d \in Rows : Short(d)' = Short(d)
    BY DEF Short, IsDaily, AllDay
  <2>3. \A d \in Rows, k \in Int : Window(d, k)' = Window(d, k)
    BY <2>1 DEF Window
  <2> QED BY <2>2, <2>3 DEF Nearest, Offered
<1>1. now \in Int /\ now' \in Int /\ now <= now' /\ Window(d, k) \in Int
  BY ClockStep, ShortType, RowFacts
<1>2. Window(d, k) <= now
  <2>1. CASE row'[d].start = row[d].start
    BY <2>1 DEF Nearest
  <2>2. CASE row'[d] = Rolled(d, now)
    BY <2>2, RolledShort, ShortType, NoneBetween, RowFacts DEF Timely, Window
  <2> QED BY <2>1, <2>2, RowStep
<1> QED BY <1>1, <1>2

LEMMA InitNearest ==
  ASSUME Init
  PROVE  Nearest
<1> SUFFICES ASSUME NEW d \in Rows, Short(d), NEW k \in Int,
                    Offered(d, Window(d, k)), Window(d, k) < row[d].start
             PROVE  Window(d, k) <= now
  BY DEF Nearest
<1>1. /\ TypeInv
      /\ row[d].start = FirstStart(d) /\ daily[d] = DailyTime(d)
      /\ Plan[d].start \in { "nothing", "time", "date" } /\ Plan[d].time \in Int
  BY InitType, PlanType DEF Init, Added
<1>2. Window(d, k) \in Int /\ now \in Int
  BY <1>1, ShortType, RowFacts
<1>3. CASE Plan[d].start = "nothing"
  BY <1>1, <1>2, <1>3 DEF FirstStart
<1>4. CASE Plan[d].start = "date"
  BY <1>1, <1>2, <1>4 DEF FirstStart, Offered
<1>5. CASE Plan[d].start = "time"
  <2>1. row[d].start = NextDailyWindowStart(zone, daily[d], now)
    BY <1>1, <1>5 DEF FirstStart, DailyTime, Short
  <2> QED BY <1>1, <2>1, ShortType, NoneBetween, RowFacts DEF Window
<1> QED BY <1>1, <1>3, <1>4, <1>5

-----------------------------------------------------------------------------
(* The rollover. *)

LEMMA SlackType ==
  /\ Slack \in Int /\ 0 <= Slack /\ LongestCheck <= Slack + 1
  /\ LongestCheck \in Int /\ 0 <= LongestCheck
<1>1. LongestCheck \in Nat
  <2>1. 0 \in 0..Len(Delays)
    BY TimesAssumption
  <2> QED BY <2>1, RetryingType
<1> QED BY <1>1 DEF Slack, Greater

LEMMA AlignedLater ==
  ASSUME TypeInv, Windows, NEW d \in Rows, Aligned(d, now).status # "expired"
  PROVE  now < Aligned(d, now).end
<1>1. /\ row[d] \in TimedRow /\ now \in Int /\ row[d].start \in Int /\ row[d].end \in Int
      /\ row[d].start < row[d].end
  BY RowFacts, PlanType
<1>2. CASE now >= row[d].end
  <2>1. Aligned(d, now) = Rolled(d, now)
    BY <1>1, <1>2 DEF Aligned, TimedRow
  <2> QED BY <2>1, RolledFits
<1>3. CASE now < row[d].end
  <2>1. Aligned(d, now).end = row[d].end
    BY <1>1, <1>3 DEF Aligned, TimedRow
  <2> QED BY <1>3, <2>1
<1> QED BY <1>1, <1>2, <1>3

\* A row is watched or scheduled after a step of a check only if it was before.
LEMMA CheckKeepsRows ==
  ASSUME TypeInv, Timely, Next, pc \in Working, NEW d \in Monitored'
  PROVE  d \in Monitored /\ row'[d].end = row[d].end
<1>0. d \in Rows
  BY DEF Monitored
<1>1. row'[d].end = row[d].end
  BY <1>0, RowStep DEF Recover, ExpireDueWindows, Working, Serving
<1>2. d = picked => d \in Monitored
  BY DEF Timely, InCycle
<1>3. d # picked => row'[d] = row[d]
  BY <1>0 DEF TypeInv, Store, Next, Recover, ExpireDueWindows, SelectDueDomain, NothingDue,
    Wake, StartCheck, SearchReply, SearchRetry, SendAgain, SearchFails, Reschedule, Start,
    Crash, Tick, Working, Serving
<1>4. d # picked => d \in Monitored
  BY <1>0, <1>3 DEF Monitored
<1> QED BY <1>1, <1>2, <1>4

LEMMA StepPrompt ==
  ASSUME TypeInv, Timely, Punctual, Prompt, Next
  PROVE  Prompt'
<1> SUFFICES ASSUME Up', NEW d \in Monitored'
             PROVE  now' + Left' <= row'[d].end + Slack
  BY DEF Prompt, Slack, LongestCheck, Greater
<1>0. /\ d \in Rows /\ now \in Int /\ now' \in Int
      /\ Left \in Int /\ Left' \in Int
      /\ row[d].end \in Int /\ row'[d].end \in Int
      /\ InCycle' /\ Asleep' /\ Windows' /\ TypeInv' /\ Windows /\ InCycle
  <2>1. d \in Rows /\ TypeInv' /\ InCycle' /\ Asleep' /\ Windows' /\ Windows /\ InCycle
    BY StepType, StepInCycle, StepAsleep, StepWindows DEF Monitored, Timely
  <2>2. row'[d].end \in Int /\ now' \in Int
    BY <2>1 DEF TypeInv, Store, TimedRow, Clock
  <2>3. Left \in Int /\ Left' \in Int
    BY <2>1, LeftType, LeftTypePrime
  <2> QED BY <2>1, <2>2, <2>3, RowFacts
<1>1. CASE pc \in Working
  <2>1. ~Crash
    BY DEF Crash, Up
  <2>2. now' + Left' <= now + Left
    BY <1>1, <2>1, CheckGoesOn
  <2>3. d \in Monitored /\ row'[d].end = row[d].end
    BY <1>1, CheckKeepsRows
  <2>4. now + Left <= row[d].end + Slack
    BY <1>1, <2>3 DEF Prompt, Up, Working, Serving
  <2>5. now' + Left' <= row[d].end + Slack
    <3>1. PICK end \in Int : end = row[d].end
      BY <1>0
    <3>2. now + Left <= end + Slack
      BY <2>4, <3>1
    <3>3. Slack \in Int
      BY SlackType
    <3>4. now' + Left' <= end + Slack
      BY <1>0, <2>2, <3>2, <3>3, SumsInOrder
    <3> QED BY <3>1, <3>4
  <2> QED BY <2>3, <2>5
<1>2. CASE pc' \in { "select", "start" }
  <2>1. now' < row'[d].end
    BY <1>0, <1>2 DEF InCycle
  <2>2. pc' = "select" => Left' = 0
    BY DEF Left
  <2>3. pc' = "start" => Left' = LongestCheck
    BY DEF Left, LongestCheck
  <2> QED BY <1>0, <1>2, <2>1, <2>2, <2>3, SlackType
<1>3. CASE pc' = "sleep"
  <2>1. now' + wait' <= row'[d].next
    BY <1>0, <1>3 DEF Asleep
  <2>2. row'[d].next <= row'[d].end
    BY <1>0, <1>3 DEF Windows, InPlan, InWindow, Monitored
  <2>3. wait' \in Nat /\ row'[d].next \in Int
    BY <1>0 DEF TypeInv, Control, Store, TimedRow
  <2>4. Left' = 0
    BY <1>3 DEF Left
  <2> QED BY <1>0, <2>1, <2>2, <2>3, <2>4, SlackType
<1>4. CASE Recover
  <2>1. row'[d] = Aligned(d, now) /\ now' = now /\ pc' = "loop"
    BY <1>0, <1>4 DEF Recover, Commit
  <2>2. row'[d].status # "expired"
    BY DEF Monitored
  <2>3. now' < row'[d].end
    BY <1>0, <2>1, <2>2, AlignedLater
  <2>4. Left' = 0
    BY <2>1 DEF Left
  <2> QED BY <1>0, <2>3, <2>4, SlackType
<1>5. CASE Wake
  <2>1. pc = "sleep" /\ UNCHANGED << now, row >> /\ pc' = "loop"
    BY <1>5 DEF Wake
  <2>2. d \in Monitored /\ row'[d] = row[d]
    BY <2>1 DEF Monitored
  <2>3. Left' = 0 /\ Left = 0
    BY <2>1 DEF Left
  <2>4. now + Left <= row[d].end + Slack
    BY <2>1, <2>2 DEF Prompt, Up
  <2> QED BY <1>0, <2>1, <2>2, <2>3, <2>4, SlackType
<1>6. CASE pc \notin Working /\ pc' \notin { "select", "start", "sleep" } /\ ~Recover /\ ~Wake
  BY <1>6 DEF Next, ExpireDueWindows, SelectDueDomain, NothingDue, StartCheck,
    SearchReply, SearchRetry, SendAgain, SearchFails, Reschedule, Start, Crash, Tick,
    Working, Serving, Up
<1> QED BY <1>1, <1>2, <1>3, <1>4, <1>5, <1>6

LEMMA StepUntouched ==
  ASSUME TypeInv, Timely, Punctual, Untouched, Next
  PROVE  Untouched'
<1> SUFFICES ASSUME Up', NEW d \in Rows, Short(d),
                    since' < row'[d].start, searched'[d] < row'[d].start
             PROVE  row'[d].next = row'[d].start
  BY DEF Untouched, Short, IsDaily, AllDay
<1>0. /\ now \in Int /\ cycle \in Int /\ row \in [Rows -> TimedRow]
      /\ row[d].start \in Int /\ row[d].end \in Int /\ row[d].next \in Int
      /\ row[d].start < row[d].end /\ row[d] \in TimedRow
      /\ searched \in [Rows -> Int]
      /\ Windows /\ InCycle
  <2>1. row[d].end = row[d].start + Plan[d].duration /\ Plan[d].duration \in Nat
        /\ 0 < Plan[d].duration /\ row[d] \in TimedRow
        /\ row[d].start \in Int /\ row[d].end \in Int /\ row[d].next \in Int
    BY RowFacts, PlanType
  <2>2. row[d].start < row[d].end
    BY <2>1
  <2>3. now \in Int /\ cycle \in Int
    BY TimesAssumption DEF TypeInv, Clock, Control
  <2>4. row \in [Rows -> TimedRow] /\ searched \in [Rows -> Int]
    BY DEF TypeInv, Store, Clock
  <2>5. Windows /\ InCycle
    BY DEF Timely
  <2> QED BY <2>1, <2>2, <2>3, <2>4, <2>5
<1>1. CASE row'[d] = Rolled(d, now)
  BY <1>0, <1>1, RolledShort
<1>2. CASE Recover /\ row'[d] # Rolled(d, now)
  <2>1. row'[d] = Aligned(d, now) /\ since' = now
    BY <1>2 DEF Recover, Commit, Punctual
  <2>2. now < row[d].end
    BY <1>0, <1>2, <2>1 DEF Aligned, TimedRow
  <2>3. CASE now < row[d].start
    <3> DEFINE r == [row[d] EXCEPT !.status = "scheduled", !.next = row[d].start]
    <3>1. Aligned(d, now) = r
      BY <1>0, <2>2, <2>3 DEF Aligned
    <3>2. r.start = row[d].start /\ r.next = row[d].start
      BY <1>0 DEF TimedRow
    <3> QED BY <2>1, <3>1, <3>2
  <2>4. CASE ~(now < row[d].start)
    <3>1. Aligned(d, now).start = row[d].start
      BY <1>0, <2>2, <2>4 DEF Aligned, TimedRow
    <3> QED BY <1>0, <2>1, <2>4, <3>1
  <2> QED BY <2>3, <2>4
<1>3. CASE ~Recover /\ row'[d] # Rolled(d, now)
  <2>1. row'[d].start = row[d].start
    BY <1>3, RowStep
  <2>2. Up /\ since' = since
    BY <1>3, ClockStep DEF Up, Next, ExpireDueWindows, SelectDueDomain, NothingDue,
      Wake, StartCheck, SearchReply, SearchRetry, SendAgain, SearchFails, Reschedule,
      Start, Crash, Tick
  <2>3. CASE pc \in Working /\ d = picked
    <3>1. row[d].start <= row[d].next /\ row[d].next <= cycle
      BY <1>0, <2>3 DEF InCycle, Windows, InPlan, InWindow, Monitored, Working, Serving
    <3>2. searched'[d] = cycle
      <4>1. CASE pc = "start"
        BY <1>0, <2>2, <2>3, <4>1 DEF InCycle, Next, Recover, ExpireDueWindows,
          SelectDueDomain, NothingDue, Wake, StartCheck, SearchReply, SearchRetry,
          SendAgain, SearchFails, Reschedule, Start, Crash, Tick, Up
      <4>2. CASE pc # "start"
        <5>1. pc \in Serving /\ searched[d] = cycle
          BY <1>0, <2>3, <4>2 DEF InCycle, Working
        <5> QED BY <5>1 DEF Next, Recover, ExpireDueWindows, SelectDueDomain, NothingDue,
          Wake, StartCheck, SearchReply, SearchRetry, SendAgain, SearchFails, Reschedule,
          Start, Crash, Tick, Up, Serving
      <4> QED BY <4>1, <4>2
    <3> QED BY <1>0, <2>1, <3>1, <3>2
  <2>4. CASE ~(pc \in Working /\ d = picked)
    <3>1. row'[d] = row[d] /\ searched'[d] = searched[d]
      BY <1>0, <1>3, <2>2, <2>4 DEF Next, ExpireDueWindows, Commit, SelectDueDomain,
        NothingDue, Wake, StartCheck, SearchReply, SearchRetry, SendAgain, SearchFails,
        Reschedule, Start, Crash, Tick, Up, Working, Serving
    <3> QED BY <2>2, <3>1 DEF Untouched
  <2> QED BY <2>3, <2>4
<1> QED BY <1>1, <1>2, <1>3

-----------------------------------------------------------------------------
(* The rows that go before one that waits. *)

LEMMA TurnsOf ==
  ASSUME NEW d \in Rows, NEW S \in SUBSET (Rows \ { d })
  PROVE  /\ IsFiniteSet(S) /\ Cardinality(S) \in Nat
         /\ Cardinality(Rows) \in Nat
         /\ Cardinality(S) <= Cardinality(Rows) - 1
<1>1. IsFiniteSet(Rows) /\ Cardinality(Rows) \in Nat
  BY TimesAssumption, FS_CardinalityType
<1>2. /\ IsFiniteSet(Rows \ { d })
      /\ Cardinality(Rows \ { d }) = Cardinality(Rows) - 1
  BY <1>1, FS_RemoveElement
<1> QED BY <1>1, <1>2, FS_Subset, FS_CardinalityType

LEMMA TurnsType ==
  ASSUME NEW d \in Rows
  PROVE  /\ Turns(d) \in Int /\ 0 <= Turns(d) /\ Turns(d) <= Cardinality(Rows) - 1
         /\ Turns(d)' \in Int /\ 0 <= Turns(d)' /\ Turns(d)' <= Cardinality(Rows) - 1
<1>1. Behind(d) \in SUBSET (Rows \ { d }) /\ Behind(d)' \in SUBSET (Rows \ { d })
  BY DEF Behind, Ahead
<1>2. /\ Cardinality(Rows) \in Nat
      /\ Cardinality(Behind(d)) \in Nat /\ Cardinality(Behind(d)) <= Cardinality(Rows) - 1
      /\ Cardinality(Behind(d)') \in Nat /\ Cardinality(Behind(d)') <= Cardinality(Rows) - 1
  BY <1>1, TurnsOf
<1>3. /\ Turns(d) = Cardinality(Rows) - 1 - Cardinality(Behind(d))
      /\ Turns(d)' = Cardinality(Rows) - 1 - Cardinality(Behind(d)')
  BY DEF Turns
<1> QED BY <1>2, <1>3

\* The rows behind d stay there.
LEMMA TurnsLast ==
  ASSUME NEW d \in Rows, Behind(d) \subseteq Behind(d)'
  PROVE  Turns(d)' <= Turns(d)
<1>1. Behind(d) \in SUBSET (Rows \ { d }) /\ Behind(d)' \in SUBSET (Rows \ { d })
  BY DEF Behind, Ahead
<1>2. Cardinality(Behind(d)) <= Cardinality(Behind(d)')
  BY <1>1, TurnsOf, FS_Subset
<1>3. /\ Turns(d) = Cardinality(Rows) - 1 - Cardinality(Behind(d))
      /\ Turns(d)' = Cardinality(Rows) - 1 - Cardinality(Behind(d)')
  BY DEF Turns
<1> QED BY <1>1, <1>2, <1>3, TurnsOf

\* ... and one more comes to be.
LEMMA TurnTaken ==
  ASSUME NEW d \in Rows, NEW p, p \notin Behind(d), Behind(d) \cup { p } \subseteq Behind(d)'
  PROVE  Turns(d)' + 1 <= Turns(d)
<1>1. Behind(d) \in SUBSET (Rows \ { d }) /\ Behind(d)' \in SUBSET (Rows \ { d })
  BY DEF Behind, Ahead
<1>2. /\ Cardinality(Behind(d)) \in Nat /\ Cardinality(Behind(d)') \in Nat
      /\ Cardinality(Rows) \in Nat
  BY <1>1, TurnsOf
<1>3. Cardinality(Behind(d) \cup { p }) = Cardinality(Behind(d)) + 1
  BY <1>1, TurnsOf, FS_AddElement
<1>4. Cardinality(Behind(d) \cup { p }) <= Cardinality(Behind(d)')
  BY <1>1, TurnsOf, FS_Subset
<1>5. /\ Turns(d) = Cardinality(Rows) - 1 - Cardinality(Behind(d))
      /\ Turns(d)' = Cardinality(Rows) - 1 - Cardinality(Behind(d)')
  BY DEF Turns
<1> QED BY <1>2, <1>3, <1>4, <1>5

\* The time that m checks take.
LEMMA TurnsTime ==
  ASSUME NEW m \in Int, NEW n \in Int, m <= n
  PROVE  /\ LongestCheck * m \in Int /\ LongestCheck * n \in Int
         /\ LongestCheck * m <= LongestCheck * n
         /\ 0 <= m => 0 <= LongestCheck * m
         /\ LongestCheck * (n - 1) = LongestCheck * n - LongestCheck
         /\ n * LongestCheck = LongestCheck * n
<1>1. LongestCheck \in Int /\ 0 <= LongestCheck
  BY SlackType
<1>2. \A a, b, c \in Int : a <= b /\ 0 <= c => c * a <= c * b
  OBVIOUS
<1>3. 0 <= m => 0 <= LongestCheck * m
  <2>1. \A c \in Int : c * 0 = 0
    OBVIOUS
  <2> QED BY <1>1, <1>2, <2>1
<1> QED BY <1>1, <1>2, <1>3

\* A bound that holds when one of the turns becomes the check.
LEMMA TurnBegins ==
  ASSUME NEW a \in Int, NEW m \in Int, NEW n \in Int, m + 1 <= n,
         NEW t \in Int, a + 0 + LongestCheck * n <= t
  PROVE  a + LongestCheck + LongestCheck * m <= t
<1>1. /\ LongestCheck * m \in Int /\ LongestCheck * n \in Int /\ LongestCheck * (m + 1) \in Int
      /\ LongestCheck * (m + 1) <= LongestCheck * n
      /\ LongestCheck \in Int
  BY TurnsTime, SlackType
<1>2. LongestCheck * m = LongestCheck * (m + 1) - LongestCheck
  <2>1. m + 1 <= m + 1 /\ (m + 1) - 1 = m
    OBVIOUS
  <2> QED BY <2>1, TurnsTime
<1>3. PICK x \in Int, y \in Int, z \in Int :
        x = LongestCheck * m /\ y = LongestCheck * n /\ z = LongestCheck * (m + 1)
  BY <1>1
<1> QED BY <1>1, <1>2, <1>3

LEMMA LatestType ==
  ASSUME TypeInv, NEW d \in Rows
  PROVE  /\ Latest(d) \in Int /\ row[d].start <= Latest(d)
         /\ row[d].start + Cardinality(Rows) * LongestCheck - 1 <= Latest(d)
<1>1. Cardinality(Rows) \in Int
  BY TimesAssumption, FS_CardinalityType
<1>2. Cardinality(Rows) * LongestCheck \in Int
  BY <1>1, TurnsTime
<1> QED BY <1>2, RowFacts DEF Latest, Greater

\* A window is waited for only as long as it lasts, if it can be watched at all.
LEMMA LatestInWindow ==
  ASSUME TypeInv, NEW d \in Rows, Watchable(d)
  PROVE  Latest(d) < row[d].end
<1>1. Cardinality(Rows) \in Int
  BY TimesAssumption, FS_CardinalityType
<1>2. Cardinality(Rows) * LongestCheck \in Int
  BY <1>1, TurnsTime
<1>3. /\ Plan[d].duration \in Nat /\ 0 < Plan[d].duration
      /\ Cardinality(Rows) * LongestCheck <= Plan[d].duration
  BY <1>2, PlanType DEF Watchable
<1> QED BY <1>2, <1>3, RowFacts DEF Latest, Greater

\* How long d may have to wait.
LEMMA WaitingBound ==
  ASSUME TypeInv, InHand, NEW d \in Rows, Waiting(d)
  PROVE  now <= Latest(d)
<1>1. now \in Int /\ Left \in Nat /\ Latest(d) \in Int
  BY LeftType, LatestType, RowFacts
<1>2. LongestCheck * Turns(d) \in Int /\ 0 <= LongestCheck * Turns(d)
  BY TurnsType, TurnsTime
<1>3. CASE d = picked
  BY <1>3 DEF InHand
<1>4. CASE d # picked
  <2>1. now + Left + LongestCheck * Turns(d) <= Latest(d)
    BY <1>4 DEF InHand
  <2>2. PICK x \in Int : x = LongestCheck * Turns(d)
    BY <1>2
  <2> QED BY <1>1, <1>2, <2>1, <2>2
<1> QED BY <1>3, <1>4

\* A row that is being searched has been searched in its window.
LEMMA ServedIsSearched ==
  ASSUME TypeInv, Timely, pc \in Serving
  PROVE  picked \in Rows /\ row[picked].start <= searched[picked]
<1>1. pc \in Working /\ pc \notin { "down", "recover" }
  BY DEF Working, Serving
<1>2. /\ picked \in Monitored /\ row[picked].next <= cycle /\ searched[picked] = cycle
  BY <1>1 DEF Timely, InCycle
<1>3. picked \in Rows /\ cycle \in Int
  BY <1>2 DEF Monitored, TypeInv, Control
<1>4. row[picked].start <= row[picked].next
  BY <1>2, <1>3 DEF Timely, Windows, InPlan, InWindow, Monitored
<1> QED BY <1>2, <1>3, <1>4, RowFacts

\* A row that waits after a step has waited before it, or its window begins.
LEMMA WaitedBefore ==
  ASSUME TypeInv, Timely, Punctual, Next, NEW d \in Rows, Waiting(d)'
  PROVE  /\ Up /\ Short(d) /\ since < row[d].start /\ searched[d] < row[d].start
         /\ ~Recover /\ since' = since
         /\ row'[d].start = row[d].start /\ Latest(d)' = Latest(d)
         /\ row[d].start <= now' /\ (~Tick => Waiting(d))
<1>0. /\ now \in Int /\ row[d].start \in Int /\ Windows
      /\ searched \in [Rows -> Int]
  BY RowFacts DEF TypeInv, Clock, Timely
<1>1. /\ Up' /\ Short(d) /\ since' < row'[d].start /\ row'[d].start <= now'
      /\ searched'[d] < row'[d].start
  BY DEF Waiting, Short, IsDaily, AllDay
<1>2. row'[d].start = row[d].start
  <2> SUFFICES ASSUME Recover \/ ExpireDueWindows, row'[d] = Rolled(d, now) PROVE FALSE
    BY RowStep
  <2>1. now < row'[d].start /\ row'[d].start \in Int
    BY <1>0, <1>1, RolledShort
  <2>2. now' = now
    BY DEF Recover, ExpireDueWindows
  <2> QED BY <1>0, <1>1, <2>1, <2>2
<1>3. ~Recover
  <2> SUFFICES ASSUME Recover PROVE FALSE
    OBVIOUS
  <2>1. since' = now /\ now' = now
    BY DEF Recover, Punctual
  <2> QED BY <1>0, <1>1, <1>2, <2>1
<1>4. Up /\ ~Start /\ ~Crash
  BY <1>1, <1>3 DEF Up, Start, Crash, Next, ExpireDueWindows, SelectDueDomain, NothingDue,
    Wake, StartCheck, SearchReply, SearchRetry, SendAgain, SearchFails, Reschedule, Tick
<1>5. since' = since
  BY <1>4, ClockStep
<1>6. searched[d] < row[d].start
  <2>1. CASE StartCheck /\ d = picked
    <3>1. searched'[d] = now /\ now' = now
      BY <1>0, <2>1 DEF StartCheck
    <3> QED BY <1>0, <1>1, <1>2, <3>1
  <2>2. CASE ~(StartCheck /\ d = picked)
    <3>1. searched'[d] = searched[d]
      BY <1>0, <1>4, <2>2 DEF Next, Recover, ExpireDueWindows, SelectDueDomain, NothingDue,
        Wake, StartCheck, SearchReply, SearchRetry, SendAgain, SearchFails, Reschedule, Tick
    <3> QED BY <1>1, <1>2, <3>1
  <2> QED BY <2>1, <2>2
<1>7. Latest(d)' = Latest(d)
  BY <1>2 DEF Latest, Greater, LongestCheck
<1>8. ~Tick => now' = now
  BY ClockStep
<1> QED BY <1>1, <1>2, <1>3, <1>4, <1>5, <1>6, <1>7, <1>8 DEF Waiting

\* The rows behind a row that waits stay there, unless one is chosen.
LEMMA BehindStep ==
  ASSUME TypeInv, Timely, Punctual, Untouched, Next, ~SelectDueDomain,
         NEW d \in Rows, Waiting(d)', Waiting(d)
  PROVE  Behind(d) \subseteq Behind(d)'
<1>0. /\ row \in [Rows -> TimedRow] /\ cycle \in Int /\ now \in Int
      /\ Windows /\ InCycle
      /\ row[d].start \in Int /\ row[d].next \in Int
      /\ NoRow \notin Rows
  BY RowFacts, PlanType DEF TypeInv, Store, Control, Timely
<1>1. /\ Up /\ ~Recover /\ ~Start /\ ~Crash
      /\ row'[d].start = row[d].start /\ row[d].start <= now
      /\ searched[d] < row[d].start
  BY WaitedBefore DEF Waiting, Up, Start, Crash
<1>2. row[d].next = row[d].start
  BY DEF Untouched, Waiting
<1>3. CASE ExpireDueWindows
  <2> DEFINE new == [ e \in Rows |-> Rolled(e, now) ]
             moved == { e \in Monitored : row[e].end <= now }
  <2>1. /\ Commit(moved, new, now)
        /\ pc = "loop" /\ UNCHANGED << now, picked >>
    BY <1>3 DEF ExpireDueWindows
  <2>2. picked = NoRow
    BY <2>1 DEF TypeInv, Control, Working, Serving
  <2>3. row'[d] = row[d]
    <3>1. CASE d \in moved
      <4>1. row'[d] = Rolled(d, now)
        BY <2>1, <3>1 DEF Commit
      <4>2. now < row'[d].start
        BY <1>0, <4>1, RolledShort DEF Waiting
      <4> QED BY <1>0, <1>1, <4>2
    <3>2. CASE d \notin moved
      BY <2>1, <3>2 DEF Commit
    <3> QED BY <3>1, <3>2
  <2> SUFFICES ASSUME NEW e \in Behind(d) PROVE e \in Behind(d)'
    OBVIOUS
  <2>4. /\ e \in Rows \ { d } /\ e # picked
        /\ row[e].status = "expired" \/ row[d].next < row[e].next
    BY <1>0, <2>2 DEF Behind, Ahead
  <2>5. CASE e \notin moved
    <3>1. row'[e] = row[e]
      BY <2>1, <2>4, <2>5 DEF Commit
    <3> QED BY <2>1, <2>3, <2>4, <3>1 DEF Behind, Ahead
  <2>6. CASE e \in moved
    <3>1. row'[e] = Rolled(e, now)
      BY <2>1, <2>4, <2>6 DEF Commit
    <3>2. row[e].status # "expired" /\ row[e].end <= now
      BY <2>6 DEF Monitored
    <3>3. row[e].next <= row[e].end /\ row[d].next < row[e].next
      BY <1>0, <2>1, <2>4, <3>2 DEF Windows, InPlan, InWindow
    <3>4. row[e].next \in Int /\ row[e].end \in Int
      BY <2>4, RowFacts
    <3>5. CASE row'[e].status = "expired"
      BY <2>1, <2>4, <3>5 DEF Behind, Ahead
    <3>6. CASE row'[e].status # "expired"
      <4>1. now <= row'[e].next /\ row'[e].next \in Int
        BY <1>0, <2>4, <3>1, <3>6, RolledFits DEF Fits, TimedRow
      <4>2. row'[d].next < row'[e].next
        BY <1>0, <2>3, <3>2, <3>3, <3>4, <4>1
      <4> QED BY <2>1, <2>4, <4>2 DEF Behind, Ahead
    <3> QED BY <3>5, <3>6
  <2> QED BY <2>5, <2>6
<1>4. CASE StartCheck
  <2> DEFINE r == [row[picked] EXCEPT !.status = "watching"]
  <2>1. /\ pc = "start" /\ UNCHANGED << picked, cycle >>
        /\ row' = [row EXCEPT ![picked] = r]
    BY <1>4 DEF StartCheck
  <2>2. picked \in Rows
    BY <1>0, <2>1 DEF InCycle, Working, Monitored
  <2>3. r.next = row[picked].next /\ r.start = row[picked].start
    BY <2>2, StatusSet
  <2> HIDE DEF r
  <2>4. \A e \in Rows : row'[e].next = row[e].next /\ (e # picked => row'[e] = row[e])
    BY <1>0, <2>1, <2>2, <2>3
  <2> QED BY <1>1, <2>1, <2>4 DEF Behind, Ahead
<1>5. CASE Reschedule
  <2> DEFINE r == [row[picked] EXCEPT !.next = NextCheck(picked), !.status = "watching"]
  <2>1. pc \in Serving /\ pc' = "loop" /\ picked' = NoRow
    BY <1>5 DEF Reschedule, Serving, Forget
  <2>2. row' = [row EXCEPT ![picked] = r] /\ r.next = NextCheck(picked)
    BY <1>0, <1>5, RescheduledRow
  <2>3. picked \in Rows /\ NextCheck(picked) \in Int /\ cycle < NextCheck(picked)
    BY <1>0, <2>1, NextCheckFits
  <2> HIDE DEF r
  <2>4. d # picked
    BY <1>0, <1>1, <2>1, ServedIsSearched DEF TypeInv, Clock
  <2>5. /\ row'[d] = row[d] /\ row'[picked].next = NextCheck(picked)
        /\ \A e \in Rows : e # picked => row'[e] = row[e]
    BY <1>0, <2>2, <2>3, <2>4
  <2>6. picked \in Behind(d) => row'[d].next < row'[picked].next
    BY <1>0, <1>2, <2>3, <2>5 DEF Behind
  <2> QED BY <1>0, <2>1, <2>3, <2>4, <2>5, <2>6 DEF Behind, Ahead
<1>6. CASE \/ NothingDue \/ Wake \/ SearchReply \/ SearchRetry \/ SendAgain
           \/ SearchFails \/ Tick
  <2>1. UNCHANGED << row, picked >> /\ (pc \in Working => UNCHANGED cycle)
    BY <1>6 DEF NothingDue, Wake, locals, SearchReply, SearchRetry, SendAgain,
                SearchFails, Tick, Working, Serving
  <2>2. picked \in Rows => pc \in Working
    BY <1>0 DEF TypeInv, Control
  <2> QED BY <2>1, <2>2 DEF Behind, Ahead
<1> QED BY <1>1, <1>3, <1>4, <1>5, <1>6 DEF Next

\* The row whose turn it is goes before d.
LEMMA SelectInHand ==
  ASSUME TypeInv, Timely, Punctual, Untouched, InHand, SelectDueDomain,
         NEW d \in Rows, Waiting(d)', Waiting(d), d # picked'
  PROVE  now' + Left' + LongestCheck * Turns(d)' <= Latest(d)
<1>0. /\ row \in [Rows -> TimedRow] /\ cycle \in Int /\ now \in Int
      /\ Windows /\ InCycle /\ row[d].next \in Int
      /\ NoRow \notin Rows
  BY RowFacts, PlanType DEF TypeInv, Store, Control, Timely
<1>1. PICK p \in Due : (\A e \in Due : Before(p, e)) /\ picked' = p
  BY DEF SelectDueDomain
<1>2. pc = "select" /\ pc' = "start" /\ UNCHANGED << row, cycle, now >> /\ cycle = now
  BY <1>0 DEF SelectDueDomain, InCycle
<1>3. picked = NoRow /\ d # picked
  BY <1>0, <1>2 DEF TypeInv, Control, Working, Serving
<1>4. row[d].next = row[d].start /\ row[d].start <= now
  BY DEF Untouched, Waiting
<1>5. d \in Due
  <2>1. row[d].status # "expired" /\ row[d].next # NoTime
    BY <1>0, RowFacts DEF Windows, InPlan, Waiting, Short
  <2>2. d \in Monitored
    BY <1>0, <2>1 DEF Monitored, TimedRow
  <2> QED BY <1>2, <1>4, <2>1, <2>2 DEF Due
<1>6. /\ p \in Rows /\ p # d /\ row[p].status # "expired"
      /\ row[p].next <= row[d].next /\ row[p].next \in Int
  BY <1>0, <1>1, <1>5, RowFacts DEF Due, Monitored, Before
<1>7. p \notin Behind(d)
  BY <1>0, <1>3, <1>6 DEF Behind, Ahead
<1>8. Behind(d) \cup { p } \subseteq Behind(d)'
  <2>1. p \in Behind(d)'
    BY <1>1, <1>2, <1>4, <1>6 DEF Behind, Ahead
  <2>2. ASSUME NEW e \in Behind(d) PROVE e \in Behind(d)'
    BY <1>0, <1>1, <1>2, <1>3, <1>4, <2>2 DEF Behind, Ahead
  <2> QED BY <2>1, <2>2
<1>9. /\ Turns(d) \in Int /\ Turns(d)' \in Int /\ Turns(d)' + 1 <= Turns(d)
  BY <1>7, <1>8, TurnsType, TurnTaken
<1>10. now + 0 + LongestCheck * Turns(d) <= Latest(d)
  <2>1. Left = 0
    BY <1>2 DEF Left
  <2> QED BY <1>3, <2>1 DEF InHand
<1>11. now + LongestCheck + LongestCheck * Turns(d)' <= Latest(d)
  BY <1>0, <1>9, <1>10, LatestType, TurnBegins
<1>12. Left' = LongestCheck
  BY <1>2 DEF Left, LongestCheck
<1> QED BY <1>2, <1>11, <1>12

\* The window of d begins.
LEMMA WindowBegins ==
  ASSUME TypeInv, Timely, Punctual, Tick,
         NEW d \in Rows, Waiting(d)', ~Waiting(d)
  PROVE  d # picked' /\ now' + Left' + LongestCheck * Turns(d)' <= Latest(d)
<1>0. /\ row \in [Rows -> TimedRow] /\ cycle \in Int /\ now \in Int
      /\ Left \in Int /\ Left' \in Int /\ LongestCheck \in Int /\ Latest(d) \in Int
      /\ Asleep /\ row[d].start \in Int /\ NoRow \notin Rows /\ wait \in Nat
  <2>1. TypeInv'
    BY StepType DEF Next
  <2>2. Left \in Int /\ Left' \in Int /\ LongestCheck \in Int
    BY <2>1, LeftType, LeftTypePrime
  <2>3. now \in Int /\ row[d].start \in Int /\ NoRow \notin Rows
    BY RowFacts, PlanType
  <2> QED BY <2>2, <2>3, LatestType DEF TypeInv, Store, Control, Timely
<1>1. /\ now' = now + 1 /\ pc' = pc
      /\ UNCHANGED << row, picked, cycle, searched >>
      /\ pc \in { "down", "sleep", "search", "retry" }
      /\ pc \in { "sleep", "search", "retry" } => wait > 0 /\ wait' = wait - 1
  BY <1>0 DEF Tick
<1>2. Up /\ searched[d] < row[d].start /\ row[d].start = now + 1
  BY <1>0, <1>1, WaitedBefore DEF Next, Waiting
<1>3. /\ Turns(d)' \in Int /\ Turns(d)' <= Cardinality(Rows) - 1
      /\ Cardinality(Rows) \in Int
  BY TurnsType, TimesAssumption, FS_CardinalityType
<1>4. PICK m \in Int, l \in Int, n \in Int :
        /\ m = LongestCheck * Turns(d)' /\ l = LongestCheck
        /\ n = Cardinality(Rows) * LongestCheck
        /\ m <= n - l
  <2>1. LongestCheck * Turns(d)' <= LongestCheck * (Cardinality(Rows) - 1)
        /\ LongestCheck * Turns(d)' \in Int
    BY <1>3, TurnsTime
  <2>2. /\ LongestCheck * (Cardinality(Rows) - 1) = LongestCheck * Cardinality(Rows) - LongestCheck
        /\ Cardinality(Rows) * LongestCheck = LongestCheck * Cardinality(Rows)
        /\ LongestCheck * Cardinality(Rows) \in Int
    BY <1>3, TurnsTime
  <2> QED BY <1>0, <2>1, <2>2
<1>5. row[d].start <= Latest(d) /\ row[d].start + n - 1 <= Latest(d)
  BY <1>4, LatestType
<1>6. CASE pc = "sleep"
  <2>1. d # picked'
    BY <1>0, <1>1, <1>6 DEF TypeInv, Control, Working, Serving
  <2>2. Left' = 0
    BY <1>1, <1>6 DEF Left
  <2>3. row[d].start + m <= Latest(d)
    <3>1. l \in Int /\ 0 <= l
      BY <1>4, SlackType
    <3>2. CASE l = 0
      <4>1. m = 0
        BY <1>3, <1>4, <3>2
      <4> QED BY <1>0, <1>5, <4>1
    <3>3. CASE 0 < l
      BY <1>0, <1>4, <1>5, <3>3
    <3> QED BY <3>1, <3>2, <3>3
  <2> QED BY <1>0, <1>1, <1>2, <1>4, <2>1, <2>2, <2>3
<1>7. CASE pc \in { "search", "retry" }
  <2>1. pc \in Serving /\ pc \in Working
    BY <1>7 DEF Serving, Working
  <2>2. d # picked'
    BY <1>0, <1>1, <1>2, <2>1, ServedIsSearched DEF TypeInv, Clock
  <2>3. now' + Left' <= now + Left
    <3>1. Next /\ ~Crash
      BY <1>1, <2>1 DEF Next, Crash, Serving
    <3> QED BY <2>1, <3>1, CheckGoesOn
  <2>4. cycle <= now /\ now + Left <= cycle + LongestCheck
    BY <2>1 DEF Punctual
  <2>5. PICK a \in Int, b \in Int : a = now + Left /\ b = now' + Left'
    <3>1. now' \in Int
      BY <1>0, <1>1
    <3>2. now + Left \in Int /\ now' + Left' \in Int
      BY <1>0, <3>1
    <3> QED BY <3>2
  <2>6. b <= now + l
    BY <1>0, <1>4, <2>3, <2>4, <2>5
  <2>7. b + m <= Latest(d)
    BY <1>0, <1>2, <1>4, <1>5, <2>6
  <2> QED BY <1>4, <2>2, <2>5, <2>7
<1> QED BY <1>1, <1>2, <1>6, <1>7 DEF Up

\* A step that takes no time from d and lets nobody pass it.
LEMMA StaysInHand ==
  ASSUME NEW d \in Rows, now \in Int, now' \in Int, Left \in Int, Left' \in Int,
         Latest(d) \in Int, now' + Left' <= now + Left, Turns(d)' <= Turns(d),
         now + Left + LongestCheck * Turns(d) <= Latest(d)
  PROVE  now' + Left' + LongestCheck * Turns(d)' <= Latest(d)
<1>1. PICK a \in Int, b \in Int, c \in Int, e \in Int, t \in Int :
        a = now' /\ b = Left' /\ c = now /\ e = Left /\ t = Latest(d)
  OBVIOUS
<1>2. PICK x \in Int, y \in Int :
        x = LongestCheck * Turns(d)' /\ y = LongestCheck * Turns(d) /\ x <= y
  <2>1. Turns(d)' \in Int /\ Turns(d) \in Int /\ Turns(d)' <= Turns(d)
    BY TurnsType
  <2> QED BY <2>1, TurnsTime
<1>3. a + b <= c + e /\ c + e + y <= t
  BY <1>1, <1>2
<1>4. a + b + x <= t
  BY <1>2, <1>3
<1> QED BY <1>1, <1>2, <1>4

LEMMA StepInHand ==
  ASSUME TypeInv, Timely, Punctual, Untouched, InHand, Next
  PROVE  InHand'
<1> SUFFICES ASSUME NEW d \in Rows, Waiting(d)'
             PROVE  /\ d = picked' => now' <= Latest(d)
                    /\ d # picked' => now' + Left' + LongestCheck * Turns(d)' <= Latest(d)
  <2>1. \A d \in Rows : Waiting(d)' => Latest(d)' = Latest(d)
    BY WaitedBefore
  <2>2. LongestCheck' = LongestCheck
    BY DEF LongestCheck
  <2>3. \A d \in Rows : Waiting(d)' =>
          IF d = picked' THEN now' <= Latest(d)'
          ELSE now' + Left' + LongestCheck * Turns(d)' <= Latest(d)'
    BY <2>1
  <2> QED BY <2>2, <2>3 DEF InHand
<1>0. /\ now \in Int /\ now' \in Int /\ Left \in Int /\ Left' \in Int /\ Latest(d) \in Int
      /\ Turns(d) \in Int /\ Turns(d)' \in Int
  <2>1. TypeInv'
    BY StepType
  <2> QED BY <2>1, LeftType, LeftTypePrime, LatestType, RowFacts, TurnsType, ClockStep
<1>1. /\ Up /\ ~Recover /\ ~Start /\ ~Crash
      /\ searched[d] < row[d].start
  BY WaitedBefore DEF Waiting, Up, Start, Crash
<1>2. CASE ~Waiting(d)
  <2>1. Tick
    BY <1>2, WaitedBefore
  <2> QED BY <1>2, <2>1, WindowBegins
<1>3. CASE Waiting(d) /\ SelectDueDomain
  <2>1. now' = now /\ now <= Latest(d)
    BY <1>3, WaitingBound DEF SelectDueDomain
  <2>2. d # picked' => now' + Left' + LongestCheck * Turns(d)' <= Latest(d)
    BY <1>3, SelectInHand
  <2> QED BY <2>1, <2>2
<1>4. CASE Waiting(d) /\ ~SelectDueDomain
  <2>1. Turns(d)' <= Turns(d)
    BY <1>4, BehindStep, TurnsLast
  <2>2. CASE pc \in Working
    <3>1. d # picked
      <4>1. CASE pc = "start"
        <5>1. StartCheck
          BY <1>1, <2>2, <4>1 DEF Next, Recover, ExpireDueWindows, SelectDueDomain,
            NothingDue, Wake, SearchReply, SearchRetry, SendAgain, SearchFails,
            Reschedule, Start, Tick
        <5>2. d = picked => searched'[d] = now /\ now' = now
          BY <5>1 DEF StartCheck, TypeInv, Clock
        <5>3. row'[d].start <= now' /\ searched'[d] < row'[d].start /\ row'[d].start \in Int
          BY WaitedBefore, RowFacts DEF Waiting
        <5> QED BY <1>0, <5>2, <5>3
      <4>2. CASE pc \in Serving
        BY <1>1, <4>2, RowFacts, ServedIsSearched DEF TypeInv, Clock
      <4> QED BY <2>2, <4>1, <4>2 DEF Working
    <3>2. now' + Left' <= now + Left
      BY <1>1, <2>2, CheckGoesOn
    <3>3. d # picked'
      <4>1. picked' = picked \/ picked' = NoRow
        BY <1>1, <1>4 DEF Next, Recover, ExpireDueWindows, NothingDue, Wake, locals,
          StartCheck, SearchReply, SearchRetry, SendAgain, SearchFails, Reschedule,
          Forget, Start, Tick
      <4> QED BY <3>1, <4>1, PlanType
    <3>4. now + Left + LongestCheck * Turns(d) <= Latest(d)
      BY <1>4, <3>1 DEF InHand
    <3>5. now' + Left' + LongestCheck * Turns(d)' <= Latest(d)
      BY <1>0, <2>1, <3>2, <3>4, StaysInHand
    <3> QED BY <3>3, <3>5
  <2>3. CASE pc \notin Working
    <3>1. picked = NoRow /\ Left = 0 /\ d # picked
      BY <2>3, NoCheck, PlanType DEF TypeInv, Control
    <3>2. now + Left + LongestCheck * Turns(d) <= Latest(d)
      BY <1>4, <3>1 DEF InHand
    <3>3. /\ row[d].next = row[d].start /\ row[d].start <= now /\ d \in Monitored
          /\ row[d].next # NoTime
      <4>1. row[d].next = row[d].start /\ row[d].start <= now
        BY <1>4 DEF Untouched, Waiting
      <4>2. row[d].status # "expired" /\ row[d] \in TimedRow
        BY <1>4, RowFacts DEF Timely, Windows, InPlan, Waiting, Short
      <4> QED BY <4>1, <4>2, RowFacts DEF Monitored, TimedRow
    <3>4. ~NothingDue
      <4>1. pc = "select" => d \in Due
        BY <3>3 DEF Timely, InCycle, Due
      <4> QED BY <4>1 DEF NothingDue
    <3>5. ~Tick
      <4> SUFFICES ASSUME Tick PROVE FALSE
        OBVIOUS
      <4>1. pc = "sleep" /\ wait > 0 /\ wait \in Nat
        BY <1>1, <2>3 DEF Tick, Working, Serving, Up, TypeInv, Control
      <4>2. now + wait <= row[d].next
        BY <3>3, <4>1 DEF Timely, Asleep
      <4> QED BY <1>0, <3>3, <4>1, <4>2, RowFacts
    <3>6. /\ now' = now /\ picked' = picked /\ pc' \notin Working
      BY <1>1, <1>4, <2>3, <3>4, <3>5 DEF Next, ExpireDueWindows, Wake, locals, StartCheck,
        SearchReply, SearchRetry, SendAgain, SearchFails, Reschedule, Working, Serving
    <3>7. Left' = 0
      BY <3>6 DEF Left, Working, Serving
    <3>8. now' + Left' <= now + Left
      BY <1>0, <3>1, <3>6, <3>7
    <3>9. now' + Left' + LongestCheck * Turns(d)' <= Latest(d)
      BY <1>0, <2>1, <3>2, <3>8, StaysInHand
    <3> QED BY <3>1, <3>6, <3>9
  <2> QED BY <2>2, <2>3
<1> QED BY <1>2, <1>3, <1>4

-----------------------------------------------------------------------------
(* The windows that are past. *)

\* A window that is over was searched: it came before the window of the row, or
\* is that window, for the next one begins after the row has been rolled over.
LEMMA PastWindows ==
  ASSUME TypeInv, Timely, Prompt, InHand, Kept, Up,
         NEW d \in Rows, Watchable(d), NEW k \in Int, Offered(d, Window(d, k)),
         since < Window(d, k), Window(d, k) <= now,
         row[d].end <= now \/ Window(d, k) + Plan[d].duration <= now
  PROVE  Window(d, k) <= searched[d]
<1>0. /\ Short(d) /\ IsZone(zone) /\ daily[d] \in (0..(Day - 1)) \ Shifted(zone)
      /\ Window(d, k) \in Int /\ now \in Int /\ row[d].start \in Int
      /\ row[d].end = row[d].start + Plan[d].duration /\ Plan[d].duration \in Int
      /\ searched[d] \in Int
  <2>1. Short(d)
    BY DEF Watchable, Short
  <2> QED BY <2>1, ShortType, RowFacts DEF TypeInv, Clock
<1>1. CASE Window(d, k) < row[d].start
  BY <1>0, <1>1 DEF Kept
<1>2. CASE Window(d, k) = row[d].start
  <2> SUFFICES ASSUME searched[d] < row[d].start PROVE FALSE
    BY <1>0, <1>2
  <2>1. Waiting(d)
    BY <1>0, <1>2 DEF Waiting
  <2>2. now <= Latest(d) /\ Latest(d) < row[d].end /\ Latest(d) \in Int
    BY <2>1, WaitingBound, LatestInWindow, LatestType
  <2> QED BY <1>0, <1>2, <2>2
<1>3. CASE row[d].start < Window(d, k)
  <2> DEFINE lost == Greater(0, zone.after - zone.before)
  <2>1. lost \in Int
    BY <1>0, ZoneType DEF Greater
  <2>2. row[d].start + Day - lost <= Window(d, k)
    <3>1. TimeOfDay(zone, row[d].start) = daily[d]
      BY <1>0 DEF Timely, Windows, InPlan, Short
    <3> QED BY <1>0, <1>3, <3>1, StartsApart DEF Window
  <2>3. Plan[d].duration + (Slack + 1) <= Day - lost /\ Slack \in Int
    <3>1. Slack + 1 = Greater(1, LongestCheck) /\ Slack \in Int
      BY SlackType DEF Slack, Greater
    <3> QED BY <3>1 DEF Watchable
  <2>4. now + Left <= row[d].end + Slack /\ Left \in Nat
    <3>1. row[d].status # "expired" /\ row[d] \in TimedRow
      BY <1>0, RowFacts DEF Timely, Windows, InPlan, Short
    <3>2. d \in Monitored
      BY <3>1 DEF Monitored, TimedRow
    <3> QED BY <3>2, LeftType DEF Prompt
  <2> HIDE DEF lost
  <2> QED BY <1>0, <2>1, <2>2, <2>3, <2>4, DayAssumption
<1> QED BY <1>0, <1>1, <1>2, <1>3

\* A row that leaves a window behind has been searched in it.
LEMMA StepKept ==
  ASSUME TypeInv, Timely, Punctual, Prompt, Nearest, InHand, Kept, Next
  PROVE  Kept'
<1> SUFFICES ASSUME Up', NEW d \in Rows, Watchable(d), NEW k \in Int,
                    Offered(d, Window(d, k)),
                    since' < Window(d, k), Window(d, k) < row'[d].start
             PROVE  Window(d, k) <= searched'[d]
  <2>1. zone' = zone /\ daily' = daily
    BY ClockStep
  <2>2. \A d \in Rows : Watchable(d)' = Watchable(d)
    BY <2>1 DEF Watchable, IsDaily, AllDay, LongestCheck, Greater
  <2>3. \A d \in Rows, k \in Int : Window(d, k)' = Window(d, k)
    BY <2>1 DEF Window
  <2>4. \A d \in Rows, k \in Int : Window(d, k) <= searched'[d] => searched'[d] >= Window(d, k)
    OBVIOUS
  <2> QED BY <2>2, <2>3, <2>4 DEF Kept, Offered
<1>0. /\ Short(d) /\ Window(d, k) \in Int /\ now \in Int /\ cycle \in Int
      /\ row[d].start \in Int /\ searched \in [Rows -> Int]
  <2>1. Short(d)
    BY DEF Watchable, Short
  <2>2. cycle \in Int /\ searched \in [Rows -> Int]
    BY DEF TypeInv, Clock, Control
  <2> QED BY <2>1, <2>2, ShortType, RowFacts
<1>1. now' \in Int /\ now <= now' /\ (~Tick => now' = now)
  BY ClockStep
<1>2. Window(d, k) <= now'
  <2>1. Nearest' /\ zone' = zone /\ daily' = daily
    BY StepNearest, ClockStep
  <2>2. Short(d)' /\ Window(d, k)' = Window(d, k) /\ Offered(d, Window(d, k))'
    BY <1>0, <2>1 DEF Short, IsDaily, AllDay, Window, Offered
  <2> QED BY <2>1, <2>2 DEF Nearest
<1>3. ~Recover
  <2> SUFFICES ASSUME Recover PROVE FALSE
    OBVIOUS
  <2>1. since' = now /\ now' = now
    BY DEF Recover, Punctual
  <2> QED BY <1>0, <1>2, <2>1
<1>4. Up /\ ~Start /\ ~Crash
  BY <1>3 DEF Up, Start, Crash, Next, ExpireDueWindows, SelectDueDomain, NothingDue,
    Wake, StartCheck, SearchReply, SearchRetry, SendAgain, SearchFails, Reschedule, Tick
<1>5. since' = since
  BY <1>4, ClockStep
<1>6. CASE row'[d].start = row[d].start
  <2>1. Window(d, k) <= searched[d]
    BY <1>0, <1>4, <1>5, <1>6 DEF Kept
  <2>2. CASE StartCheck /\ d = picked
    <3>1. searched'[d] = now /\ row[d].start <= cycle /\ cycle = now
      BY <1>0, <2>2 DEF StartCheck, Timely, InCycle
    <3> QED BY <1>0, <1>6, <3>1
  <2>3. CASE ~(StartCheck /\ d = picked)
    <3>1. searched'[d] = searched[d]
      BY <1>0, <1>3, <1>4, <2>3 DEF Next, ExpireDueWindows, SelectDueDomain, NothingDue,
        Wake, StartCheck, SearchReply, SearchRetry, SendAgain, SearchFails, Reschedule, Tick
    <3> QED BY <2>1, <3>1
  <2> QED BY <2>2, <2>3
<1>7. CASE row'[d].start # row[d].start
  <2>1. ExpireDueWindows /\ row[d].end <= now
    BY <1>3, <1>7, RowStep
  <2>2. searched' = searched /\ now' = now
    BY <2>1 DEF ExpireDueWindows
  <2>3. Window(d, k) <= searched[d]
    BY <1>2, <1>4, <1>5, <2>1, <2>2, PastWindows
  <2> QED BY <2>2, <2>3
<1> QED BY <1>6, <1>7

LEMMA InitOnTime ==
  ASSUME Init
  PROVE  OnTime
<1>1. pc = "down" /\ retries = 0
  BY DEF Init
<1>2. ~Up /\ Punctual
  BY <1>1 DEF Up, Punctual, Working, Serving
<1> QED BY <1>2, InitNearest DEF OnTime, Prompt, Untouched, InHand, Waiting, Kept

LEMMA StepOnTime ==
  ASSUME TimedInv, OnTime, [Next]_vars
  PROVE  OnTime'
<1>1. CASE Next
  BY <1>1, StepPunctual, StepPrompt, StepNearest, StepUntouched, StepInHand, StepKept
     DEF TimedInv, OnTime
<1>2. CASE UNCHANGED vars
  BY <1>2 DEF vars, locals, OnTime, Punctual, Prompt, Nearest, Untouched, InHand, Kept,
    Up, Short, IsDaily, AllDay, Window, Left, Slack, LongestCheck, Retrying, Monitored,
    Waiting, Latest, Turns, Behind, Ahead, Watchable, Offered, Greater
<1> QED BY <1>1, <1>2

\* No daily window that can be watched goes by without a search: every one that
\* begins while the daemon is up (run_once, after recover), not before the date
\* its row was given, has been searched when it is over, whatever the other rows need, however long each search is
\* retried (check_domain), and on the day that an hour is lost or gained.
THEOREM WindowsWatched == Spec => []EveryWindowWatched
<1>1. ASSUME TimedInv, OnTime PROVE EveryWindowWatched
  <2> SUFFICES ASSUME since # NoTime, NEW d \in Rows, Watchable(d),
                      NEW s \in Starts(daily[d]), Offered(d, s),
                      since < s, s + Plan[d].duration <= now
               PROVE  searched[d] >= s
    BY DEF EveryWindowWatched
  <2>1. PICK k \in Int : s = Window(d, k)
    BY DEF Starts, Window
  <2>2. /\ TypeInv /\ Timely
        /\ Short(d) /\ s \in Int /\ now \in Int
        /\ Plan[d].duration \in Int /\ 0 < Plan[d].duration
        /\ searched[d] \in Int
    <3>1. Short(d) /\ TypeInv /\ Timely
      BY <1>1 DEF TimedInv, Watchable, Short
    <3> QED BY <2>1, <3>1, ShortType, RowFacts DEF TypeInv, Clock
  <2>3. Up
    <3>1. pc # "down"
      BY <2>2 DEF TypeInv, Clock
    <3>2. pc # "recover"
      BY <1>1, <2>2 DEF OnTime, Punctual
    <3> QED BY <3>1, <3>2 DEF Up
  <2>4. Window(d, k) <= now
    BY <2>1, <2>2
  <2>5. Window(d, k) <= searched[d]
    BY <1>1, <2>1, <2>2, <2>3, <2>4, PastWindows DEF OnTime
  <2> QED BY <2>1, <2>2, <2>5
<1>2. Init => OnTime
  BY InitOnTime
<1>3. TimedInv /\ OnTime /\ [Next]_vars => OnTime'
  BY StepOnTime
<1> QED BY <1>1, <1>2, <1>3, InvAlways, PTL DEF Spec
===============================================================================
