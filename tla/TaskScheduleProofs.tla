-------------------------- MODULE TaskScheduleProofs --------------------------
(***************************************************************************)
(* The schedule keeps its promises for any configuration whose intervals   *)
(* and first runs an int holds, counted in ticks: tasks keep the phase of  *)
(* their first run, a round leaves nothing behind that is due, and         *)
(* periodic tasks are at most a second late.                               *)
(***************************************************************************)
EXTENDS TaskSchedule, ListFacts

(* 1000 * interval is an int (ServerList.cpp:424). *)
IntervalsFit == \A line \in Lines : Precision * line.interval <= IntMax

(* The wait until the first run is cut to an int (ServerList.cpp:456). *)
FirstRunsFit == \A line \in Lines : line.first <= IntMax

-----------------------------------------------------------------------------
(* Arithmetic. *)

LEMMA Constants ==
  /\ Precision \in Nat \ {0} /\ Maximum \in Nat \ {0} /\ Minimum \in Nat \ {0}
  /\ IntMax \in Nat \ {0}
  /\ Precision <= Maximum
  /\ \A line \in Lines : line.interval \in Int /\ line.first \in Nat
  BY ScheduleAssumption

(* Of a positive number and a divisor that is not zero: how often it goes  *)
(* into it.                                                                *)
LEMMA Division ==
  ASSUME NEW a \in Nat, NEW b \in Nat \ {0}
  PROVE  /\ Quotient(a, b) \in Nat
         /\ Quotient(a, b) * b <= a
         /\ a < (Quotient(a, b) + 1) * b
<1>1. Quotient(a, b) = a \div b
  BY DEF Quotient
<1>2. a \div b \in Nat /\ (a \div b) * b <= a /\ a < (a \div b + 1) * b
  OBVIOUS
<1>3. QED BY <1>1, <1>2

LEMMA Distributed ==
  ASSUME NEW k \in Int, NEW q \in Int, NEW b \in Int
  PROVE  (k + q) * b = k * b + q * b
  OBVIOUS

LEMMA Multiple ==
  ASSUME NEW k \in Int, NEW b \in Nat \ {0}
  PROVE  (k * b) % b = 0
  OBVIOUS

LEMMA IntIsKept ==
  ASSUME NEW n \in Int, -(IntMax + 1) <= n, n <= IntMax
  PROVE  AsInt(n) = n
<1>1. IntMax \in Nat \ {0}
  BY Constants
<1> DEFINE w == IntMax + 1
<1>2. w \in Nat \ {0} /\ n + w \in Nat /\ n + w < 2 * w
  BY <1>1
<1>3. (n + w) % (2 * w) = n + w
  <2> HIDE DEF w
  <2>1. QED BY <1>2
<1>4. AsInt(n) = ((n + w) % (2 * w)) - w
  BY <1>1 DEF AsInt
<1>5. QED BY <1>1, <1>2, <1>3, <1>4

LEMMA IntervalTicks ==
  ASSUME IntervalsFit, NEW line \in Lines, line.interval > 0
  PROVE  /\ Ticks(line.interval) = Precision * line.interval
         /\ Ticks(line.interval) \in Nat \ {0}
         /\ Ticks(line.interval) <= IntMax
<1> DEFINE n == Precision * line.interval
<1>1. n \in Nat \ {0} /\ n <= IntMax /\ IntMax \in Nat \ {0}
  BY Constants DEF IntervalsFit
<1> HIDE DEF n
<1>2. AsInt(n) = n
  BY <1>1, IntIsKept
<1>3. QED BY <1>1, <1>2 DEF Ticks, n

(* A time n that lies whole intervals after the first run. *)
OnPhase(n, line) ==
  line.first # Unset /\ line.interval > 0 =>
    \E k \in Int : n - line.first = k * (Precision * line.interval)

LEMMA AfterIsNext ==
  ASSUME IntervalsFit, NEW line \in Lines, line.interval > 0,
         NEW t \in Int, NEW n \in Int, n <= t
  PROVE  /\ After(t, n, line.interval) \in Int
         /\ t < After(t, n, line.interval)
         /\ After(t, n, line.interval) <= t + IntMax
         /\ OnPhase(n, line) => OnPhase(After(t, n, line.interval), line)
<1> DEFINE b == Ticks(line.interval)
           q == Quotient(t - n, b)
           a == After(t, n, line.interval)
<1>1. b = Precision * line.interval /\ b \in Nat \ {0} /\ b <= IntMax
  BY IntervalTicks
<1>2. IntMax \in Nat \ {0} /\ line.first \in Nat
  BY Constants
<1>3. a = n + (q + 1) * b
  BY DEF After
<1>4. t - n \in Nat
  OBVIOUS
<1> HIDE DEF b
<1>5. q \in Nat /\ q * b <= t - n /\ t - n < (q + 1) * b
  BY <1>1, <1>4, Division
<1> HIDE DEF q, a
<1>6. a \in Int /\ t < a
  BY <1>1, <1>3, <1>5
<1>7. (q + 1) * b = q * b + b
  <2>1. q \in Int /\ 1 \in Int /\ b \in Int
    BY <1>1, <1>5
  <2>2. (q + 1) * b = q * b + 1 * b
    BY <2>1, Distributed
  <2>3. QED BY <2>1, <2>2
<1>8. a <= t + IntMax
  BY <1>1, <1>2, <1>3, <1>5, <1>7
<1>9. ASSUME OnPhase(n, line) PROVE OnPhase(a, line)
  <2> SUFFICES ASSUME line.first # Unset
               PROVE  \E k \in Int : a - line.first = k * b
    BY <1>1 DEF OnPhase
  <2>1. PICK k \in Int : n - line.first = k * b
    BY <1>1, <1>9 DEF OnPhase
  <2>2. (k + q + 1) * b = k * b + (q + 1) * b
    BY <1>1, <1>5
  <2>3. a - line.first = (k + q + 1) * b
    BY <1>1, <1>2, <1>3, <1>5, <2>1, <2>2
  <2>4. k + q + 1 \in Int
    BY <1>5
  <2>5. QED BY <2>3, <2>4
<1>10. QED BY <1>6, <1>8, <1>9 DEF a

-----------------------------------------------------------------------------
TaskType == [line : DOMAIN config, next_run_time : Int]

LEMMA TaskLine ==
  ASSUME TypeOK, NEW task \in TaskType
  PROVE  /\ config[task.line] \in Lines
         /\ task.line \in DOMAIN config
         /\ task.next_run_time \in Int
         /\ Interval(task) \in Int
  BY Constants DEF TypeOK, TaskType, Interval

(* What a round makes of a task it keeps: one that is due gets its next    *)
(* time, which is to come, at most the greatest int away and in phase.     *)
LEMMA TreatedTask ==
  ASSUME IntervalsFit, TypeOK, NEW task \in TaskType, ~(IsDue(task) /\ OneTime(task))
  PROVE  /\ Treated(task) \in TaskType
         /\ Treated(task).line = task.line
         /\ now < Treated(task).next_run_time
         /\ task.next_run_time <= now + IntMax =>
              Treated(task).next_run_time <= now + IntMax
         /\ OnPhase(task.next_run_time, config[task.line]) =>
              OnPhase(Treated(task).next_run_time, config[task.line])
<1> DEFINE line == config[task.line]
           n == task.next_run_time
<1>1. /\ line \in Lines /\ n \in Int /\ line.interval \in Int
      /\ now \in Nat \ {0} /\ IntMax \in Nat \ {0}
  BY TaskLine, Constants DEF TypeOK
<1>2. CASE ~IsDue(task)
  BY <1>1, <1>2 DEF IsDue, Treated
<1>3. CASE IsDue(task) /\ ~OneTime(task)
  <2> DEFINE next == NextRun(task)
  <2>1. line.interval > 0 /\ n <= now
    BY <1>1, <1>3 DEF IsDue, OneTime, Interval
  <2>2. /\ next \in Int
        /\ now < next
        /\ next <= now + IntMax
        /\ OnPhase(n, line) => OnPhase(next, line)
    <3>1. CASE Fixed(task)
      <4>1. next = After(now, n, line.interval)
        BY <3>1 DEF NextRun, Interval
      <4>2. /\ After(now, n, line.interval) \in Int
            /\ now < After(now, n, line.interval)
            /\ After(now, n, line.interval) <= now + IntMax
            /\ OnPhase(n, line) => OnPhase(After(now, n, line.interval), line)
        <5>1. line \in Lines /\ now \in Int /\ n \in Int /\ line.interval > 0 /\ n <= now
          BY <1>1, <2>1
        <5> HIDE DEF n, line
        <5>2. QED BY <5>1, AfterIsNext, Zenon
      <4>3. QED BY <4>1, <4>2
    <3>2. CASE ~Fixed(task)
      <4>1. next = now + Ticks(line.interval)
        BY <3>2 DEF NextRun, Interval
      <4>2. Ticks(line.interval) \in Nat \ {0} /\ Ticks(line.interval) <= IntMax
        BY <1>1, <2>1, IntervalTicks
      <4>3. line.first = Unset
        BY <3>2 DEF Fixed
      <4>4. OnPhase(next, line)
        BY <4>3 DEF OnPhase
      <4> HIDE DEF next
      <4>5. QED BY <1>1, <4>1, <4>2, <4>4
    <3>3. QED BY <3>1, <3>2
  <2>3. Treated(task) = [task EXCEPT !.next_run_time = next]
    BY <1>3 DEF Treated
  <2> HIDE DEF next
  <2>4. /\ Treated(task) \in TaskType
        /\ Treated(task).line = task.line
        /\ Treated(task).next_run_time = next
    BY <2>2, <2>3 DEF TaskType
  <2>5. QED BY <2>2, <2>4
<1>4. QED BY <1>2, <1>3

(* The two ways a round goes over a task: a one-time task that is due is   *)
(* taken out and the others move up, any other is kept.                    *)
Removes == IsDue(tasks_list[task_index]) /\ OneTime(tasks_list[task_index])

LEMMA ScanRemoves ==
  ASSUME TypeOK, Scan, Removes
  PROVE  /\ tasks_list' \in Seq(TaskType)
         /\ Len(tasks_list') = Len(tasks_list) - 1
         /\ task_index' = task_index
         /\ \A j \in 1 .. Len(tasks_list') :
              \E k \in 1 .. Len(tasks_list) :
                /\ tasks_list'[j] = tasks_list[k]
                /\ j < task_index => k = j
<1>1. /\ tasks_list \in Seq(TaskType)
      /\ task_index \in 1 .. Len(tasks_list)
      /\ Len(tasks_list) \in Nat
  BY DEF TypeOK, TaskType, Scan
<1>2. tasks_list' = RemoveAt(tasks_list, task_index) /\ task_index' = task_index
  BY DEF Scan, ScanOf, Removes, Without, RemoveAt
<1>3. /\ RemoveAt(tasks_list, task_index) \in Seq(TaskType)
      /\ Len(RemoveAt(tasks_list, task_index)) = Len(tasks_list) - 1
      /\ \A j \in 1 .. Len(tasks_list) - 1 :
           RemoveAt(tasks_list, task_index)[j] =
             IF j < task_index THEN tasks_list[j] ELSE tasks_list[j + 1]
  BY <1>1, RemovedPlaces
<1>4. ASSUME NEW j \in 1 .. Len(tasks_list')
      PROVE  \E k \in 1 .. Len(tasks_list) :
               /\ tasks_list'[j] = tasks_list[k]
               /\ j < task_index => k = j
  <2>1. CASE j < task_index
    <3>1. j \in 1 .. Len(tasks_list) /\ tasks_list'[j] = tasks_list[j]
      BY <1>1, <1>2, <1>3, <2>1
    <3>2. QED BY <3>1
  <2>2. CASE ~(j < task_index)
    <3>1. j + 1 \in 1 .. Len(tasks_list) /\ tasks_list'[j] = tasks_list[j + 1]
      BY <1>1, <1>2, <1>3, <2>2
    <3>2. QED BY <3>1, <2>2
  <2>3. QED BY <2>1, <2>2
<1>5. QED BY <1>1, <1>2, <1>3, <1>4

LEMMA ScanKeeps ==
  ASSUME TypeOK, IntervalsFit, Scan, ~Removes
  PROVE  LET treated == Treated(tasks_list[task_index])
         IN  /\ tasks_list' \in Seq(TaskType)
             /\ Len(tasks_list') = Len(tasks_list)
             /\ task_index' = task_index + 1
             /\ \A j \in 1 .. Len(tasks_list) :
                  tasks_list'[j] = IF j = task_index THEN treated ELSE tasks_list[j]
<1> DEFINE treated == Treated(tasks_list[task_index])
<1>1. /\ tasks_list \in Seq(TaskType)
      /\ task_index \in 1 .. Len(tasks_list)
      /\ Len(tasks_list) \in Nat
  BY DEF TypeOK, TaskType, Scan
<1>2. treated \in TaskType
  <2>1. tasks_list[task_index] \in TaskType
    BY <1>1, ElementOfSeq
  <2>2. QED BY <2>1, TreatedTask DEF Removes
<1>3. /\ tasks_list' = [tasks_list EXCEPT ![task_index] = treated]
      /\ task_index' = task_index + 1
  BY DEF Scan, ScanOf, Removes
<1> HIDE DEF treated
<1>4. /\ tasks_list' \in Seq(TaskType)
      /\ Len(tasks_list') = Len(tasks_list)
      /\ \A j \in 1 .. Len(tasks_list) :
           tasks_list'[j] = IF j = task_index THEN treated ELSE tasks_list[j]
  BY <1>1, <1>2, <1>3, ExceptSeq
<1>5. QED BY <1>3, <1>4 DEF treated
-----------------------------------------------------------------------------
(* The start: what AppConfig makes of the lines it takes. *)

LEMMA FirstRuns ==
  ASSUME IntervalsFit, NEW line \in Lines, NEW t \in Nat \ {0}, Accepted(line, t)
  PROVE  /\ FirstRun(line, t) \in Nat
         /\ t <= FirstRun(line, t)
         /\ OnPhase(FirstRun(line, t), line)
         /\ line.interval > 0 /\ line.first <= IntMax =>
              FirstRun(line, t) <= t + IntMax
<1> DEFINE b == Precision * line.interval
<1>1. line.first \in Nat /\ line.interval \in Int /\ IntMax \in Nat
  BY Constants
<1>2. CASE line.first = Unset
  <2>1. line.interval > 0
    BY <1>2 DEF Accepted
  <2>2. Ticks(line.interval) \in Nat \ {0} /\ Ticks(line.interval) <= IntMax
    BY <2>1, IntervalTicks
  <2>3. FirstRun(line, t) = t + Ticks(line.interval)
    BY <1>1, <1>2 DEF FirstRun, Unset
  <2>4. OnPhase(FirstRun(line, t), line)
    BY <1>2 DEF OnPhase
  <2>5. QED BY <1>1, <2>2, <2>3, <2>4
<1>3. CASE line.first # Unset /\ line.first >= t
  <2>1. FirstRun(line, t) = line.first
    BY <1>3 DEF FirstRun
  <2>2. OnPhase(line.first, line)
    <3> SUFFICES ASSUME line.interval > 0
                 PROVE  \E k \in Int : line.first - line.first = k * b
      BY DEF OnPhase
    <3>1. b \in Int
      BY <1>1, Constants
    <3> HIDE DEF b
    <3>2. line.first - line.first = 0 * b /\ 0 \in Int
      BY <1>1, <3>1
    <3>3. QED BY <3>2
  <2>3. QED BY <1>1, <1>3, <2>1, <2>2
<1>4. CASE line.first # Unset /\ ~(line.first >= t)
  <2> DEFINE n == line.first
             a == After(t, n, line.interval)
  <2>1. line.interval > 0
    BY <1>4 DEF Accepted
  <2>2. FirstRun(line, t) = a
    BY <1>4 DEF FirstRun
  <2>3. OnPhase(n, line)
    <3> SUFFICES ASSUME line.interval > 0
                 PROVE  \E k \in Int : n - line.first = k * b
      BY DEF OnPhase
    <3>1. b \in Int
      BY <1>1, Constants
    <3> HIDE DEF b
    <3>2. n - line.first = 0 * b /\ 0 \in Int
      BY <1>1, <3>1
    <3>3. QED BY <3>2
  <2>4. n \in Int /\ t \in Int /\ n <= t
    BY <1>1, <1>4
  <2> HIDE DEF n
  <2>5. /\ a \in Int
        /\ t < a
        /\ a <= t + IntMax
        /\ OnPhase(n, line) => OnPhase(a, line)
    BY <2>1, <2>4, AfterIsNext, Zenon
  <2> HIDE DEF a
  <2>6. a \in Nat /\ t <= a
    BY <2>5
  <2>7. QED BY <2>2, <2>3, <2>5, <2>6
<1>5. QED BY <1>2, <1>3, <1>4

LEMMA TakenLines ==
  ASSUME NEW c \in Seq(Lines), NEW t
  PROVE  /\ Taken(c, t) \in Seq(DOMAIN c)
         /\ Len(Taken(c, t)) <= Len(c)
         /\ \A i \in 1 .. Len(Taken(c, t)) :
              /\ Taken(c, t)[i] \in DOMAIN c
              /\ Accepted(c[Taken(c, t)[i]], t)
<1> DEFINE ids == [k \in 1 .. Len(c) |-> k]
           keep == {k \in 1 .. Len(c) : Accepted(c[k], t)}
           taken == Projection(ids, keep)
<1>1. ids \in Seq(DOMAIN c) /\ Len(ids) = Len(c) /\ DOMAIN c = 1 .. Len(c)
  OBVIOUS
<1>2. Taken(c, t) = taken
  BY DEF Taken
<1> HIDE DEF ids
<1>3. /\ taken \in Seq(DOMAIN c)
      /\ Len(taken) <= Len(ids)
      /\ ToSet(taken) = ToSet(ids) \cap keep
  <2> HIDE DEF keep
  <2>1. QED BY <1>1, ProjectedMembers
<1> HIDE DEF taken
<1>4. ASSUME NEW i \in 1 .. Len(taken)
      PROVE  taken[i] \in DOMAIN c /\ Accepted(c[taken[i]], t)
  <2>1. taken[i] \in ToSet(taken)
    BY <1>3, ListMembers
  <2>2. taken[i] \in keep
    BY <2>1, <1>3
  <2>3. QED BY <2>2, <1>1
<1>5. QED BY <1>1, <1>2, <1>3, <1>4

(* The tasks at the start. *)
LEMMA InitTasks ==
  ASSUME IntervalsFit, Init
  PROVE  /\ config \in Seq(Lines) /\ Len(config) <= MaxTasks
         /\ now \in Nat \ {0}
         /\ tasks_list \in Seq(TaskType)
         /\ Len(tasks_list) <= Len(config)
         /\ Len(tasks_list) \in Nat \ {0}
         /\ \A i \in 1 .. Len(tasks_list) :
              LET line == config[tasks_list[i].line]
                  n == tasks_list[i].next_run_time
              IN  /\ line \in Lines
                  /\ n \in Nat
                  /\ now <= n
                  /\ OnPhase(n, line)
                  /\ line.interval > 0 /\ line.first <= IntMax => n <= now + IntMax
         /\ next_task_run_time \in Nat
         /\ \A i \in 1 .. Len(tasks_list) :
              next_task_run_time <= tasks_list[i].next_run_time
         /\ now <= next_task_run_time
<1>1. PICK n \in 1 .. MaxTasks, t \in 1 .. Precision :
        /\ now = t
        /\ config \in [1 .. n -> Lines]
        /\ Taken(config, t) # <<>>
        /\ tasks_list = [i \in DOMAIN Taken(config, t) |-> Task(Taken(config, t)[i], t)]
        /\ next_task_run_time = FirstOf(tasks_list)
  BY DEF Init
<1> DEFINE taken == Taken(config, t)
<1>2. n \in Nat /\ n <= MaxTasks /\ t \in Nat \ {0}
  BY ScheduleAssumption
<1>3. config \in Seq(Lines) /\ Len(config) <= MaxTasks
  BY <1>1, <1>2
<1>4. /\ taken \in Seq(DOMAIN config)
      /\ Len(taken) <= Len(config)
      /\ \A i \in 1 .. Len(taken) :
           taken[i] \in DOMAIN config /\ Accepted(config[taken[i]], t)
  BY <1>3, TakenLines
<1>5. DOMAIN taken = 1 .. Len(taken) /\ Len(taken) \in Nat \ {0}
  BY <1>1, <1>4, EmptySeq
<1> HIDE DEF taken
<1>6. tasks_list = [i \in 1 .. Len(taken) |-> Task(taken[i], t)]
  BY <1>1, <1>5 DEF taken
<1>7. ASSUME NEW i \in 1 .. Len(taken)
      PROVE  LET line == config[taken[i]]
                 first == FirstRun(line, t)
             IN  /\ line \in Lines
                 /\ Task(taken[i], t) = [line |-> taken[i], next_run_time |-> first]
                 /\ first \in Nat
                 /\ t <= first
                 /\ OnPhase(first, line)
                 /\ line.interval > 0 /\ line.first <= IntMax => first <= t + IntMax
  <2>1. config[taken[i]] \in Lines /\ Accepted(config[taken[i]], t)
    BY <1>3, <1>4
  <2>2. QED BY <2>1, <1>2, FirstRuns DEF Task
<1>8. ASSUME NEW i \in 1 .. Len(taken)
      PROVE  /\ tasks_list[i] = [line |-> taken[i],
                                 next_run_time |-> FirstRun(config[taken[i]], t)]
             /\ tasks_list[i] \in TaskType
  BY <1>4, <1>6, <1>7 DEF TaskType
<1>9. tasks_list \in Seq(TaskType) /\ Len(tasks_list) = Len(taken)
  BY <1>5, <1>6, <1>8
<1>10. ASSUME NEW i \in 1 .. Len(tasks_list)
       PROVE  LET line == config[tasks_list[i].line]
                  m == tasks_list[i].next_run_time
              IN  /\ line \in Lines
                  /\ m \in Nat
                  /\ now <= m
                  /\ OnPhase(m, line)
                  /\ line.interval > 0 /\ line.first <= IntMax => m <= now + IntMax
  <2>1. tasks_list[i] = [line |-> taken[i],
                         next_run_time |-> FirstRun(config[taken[i]], t)]
    BY <1>8, <1>9
  <2>2. /\ tasks_list[i].line = taken[i]
        /\ tasks_list[i].next_run_time = FirstRun(config[taken[i]], t)
    BY <2>1
  <2>3. QED BY <2>2, <1>1, <1>7, <1>9
<1> DEFINE times == {tasks_list[i].next_run_time : i \in 1 .. Len(tasks_list)}
<1>11. /\ FirstOf(tasks_list) \in times
       /\ \A i \in 1 .. Len(tasks_list) :
            FirstOf(tasks_list) <= tasks_list[i].next_run_time
  <2>1. times \subseteq Nat /\ times # {}
    BY <1>5, <1>9, <1>10
  <2>2. \E m \in times : \A k \in times : m <= k
    <3> HIDE DEF times
    <3>1. QED BY <2>1, Least
  <2>3. \E m \in times : \A i \in 1 .. Len(tasks_list) : m <= tasks_list[i].next_run_time
    BY <2>2
  <2>4. DOMAIN tasks_list = 1 .. Len(tasks_list)
    BY <1>9
  <2>5. QED BY <2>3, <2>4 DEF FirstOf
<1>12. QED
  <2>1. next_task_run_time \in Nat /\ now <= next_task_run_time
    BY <1>1, <1>10, <1>11
  <2>2. now \in Nat \ {0}
    BY <1>1, <1>2
  <2>3. Len(tasks_list) \in Nat \ {0} /\ Len(tasks_list) <= Len(config)
    BY <1>4, <1>5, <1>9
  <2>4. QED BY <1>1, <1>3, <1>9, <1>10, <1>11, <2>1, <2>2, <2>3
-----------------------------------------------------------------------------
(* The inductive invariant of all but OnTime: the phase of every task, and *)
(* that in a steady round nothing behind the place of the scan is due.     *)

InPhase ==
  \A i \in 1 .. Len(tasks_list) :
    OnPhase(tasks_list[i].next_run_time, config[tasks_list[i].line])

Scanned ==
  steady /\ pc = "scan" =>
    \A i \in 1 .. task_index - 1 : now < tasks_list[i].next_run_time

Inv == TypeOK /\ InPhase /\ Scanned

LEMMA InitInv == ASSUME IntervalsFit, Init PROVE Inv
<1>1. TypeOK
  <2>1. /\ config \in Seq(Lines) /\ Len(config) <= MaxTasks
        /\ now \in Nat \ {0}
        /\ tasks_list \in Seq(TaskType)
        /\ Len(tasks_list) <= Len(config)
        /\ Len(tasks_list) \in Nat \ {0}
        /\ next_task_run_time \in Nat
    BY InitTasks
  <2>2. steady \in BOOLEAN /\ task_index = 1 /\ wakeup = Unset /\ pc = "check"
    BY DEF Init
  <2>3. task_index \in 1 .. Len(tasks_list) + 1
    BY <2>1, <2>2
  <2>4. QED BY <2>1, <2>2, <2>3 DEF TypeOK, TaskType, Unset
<1>2. InPhase
  BY InitTasks DEF InPhase
<1>3. Scanned
  BY DEF Init, Scanned
<1>4. QED BY <1>1, <1>2, <1>3 DEF Inv

LEMMA WaitIsInt ==
  ASSUME NEW next \in Int, NEW t \in Int
  PROVE  AsInt(next - t) \in Int
<1>1. IntMax \in Nat \ {0}
  BY Constants
<1> DEFINE w == 2 * (IntMax + 1)
           m == next - t + IntMax + 1
<1>2. w \in Nat \ {0} /\ m \in Int
  BY <1>1
<1>3. m % w \in Int
  <2> HIDE DEF m, w
  <2>1. QED BY <1>2
<1>4. AsInt(next - t) = (m % w) - (IntMax + 1)
  BY DEF AsInt
<1> HIDE DEF m, w
<1>5. QED BY <1>1, <1>3, <1>4

LEMMA QuotientIsInt ==
  ASSUME NEW a \in Int, NEW b \in Nat \ {0}
  PROVE  Quotient(a, b) \in Int
<1>1. CASE a >= 0
  BY <1>1, Division
<1>2. CASE a < 0
  <2>1. -a \in Nat
    BY <1>2
  <2>2. (-a) \div b \in Nat
    BY <2>1
  <2>3. Quotient(a, b) = (-1) * ((-a) \div b)
    BY <1>2 DEF Quotient
  <2>4. QED BY <2>2, <2>3
<1>3. QED BY <1>1, <1>2

(* A sleep, wherever the code begins one. *)
LEMMA SleepTypes ==
  ASSUME TypeOK, Sleep(next_task_run_time)
  PROVE  wakeup' \in Int /\ pc' = "wait"
<1> DEFINE left == AsInt(next_task_run_time - now)
           limit == Maximum - Precision
           least == IF left < limit THEN left ELSE limit
           q == Quotient(least, Precision)
<1>1. left \in Int
  <2>1. next_task_run_time \in Int /\ now \in Int
    BY DEF TypeOK
  <2>2. QED BY <2>1, WaitIsInt
<1>2. /\ limit \in Int /\ Precision \in Nat \ {0}
      /\ now \in Int
  BY Constants DEF TypeOK
<1> HIDE DEF left, limit
<1>3. least \in Int
  BY <1>1, <1>2
<1> HIDE DEF least
<1>4. q \in Int
  BY <1>2, <1>3, QuotientIsInt
<1>5. WaitFor(next_task_run_time) = q * Precision + Precision
  BY DEF WaitFor, q, least, left, limit
<1> HIDE DEF q
<1>6. WaitFor(next_task_run_time) \in Int
  BY <1>2, <1>4, <1>5
<1>7. Never \in Int
  BY Constants, ScheduleAssumption DEF Never
<1>8. QED BY <1>2, <1>6, <1>7 DEF Sleep

LEMMA ScanInv == ASSUME IntervalsFit, Inv, Scan PROVE Inv'
<1>1. TypeOK /\ InPhase /\ Scanned
  BY DEF Inv
<1>2. /\ UNCHANGED <<now, steady, config, wakeup, pc>>
      /\ pc = "scan"
      /\ task_index \in 1 .. Len(tasks_list)
      /\ Len(tasks_list) \in Nat
      /\ Len(config) \in Nat
      /\ tasks_list \in Seq(TaskType)
  BY <1>1 DEF Scan, TypeOK, TaskType
<1> DEFINE task == tasks_list[task_index]
           treated == Treated(task)
<1>3. task \in TaskType
  BY <1>2, ElementOfSeq
<1>4. CASE Removes
  <2>1. /\ tasks_list' \in Seq(TaskType)
        /\ Len(tasks_list') = Len(tasks_list) - 1
        /\ task_index' = task_index
        /\ \A j \in 1 .. Len(tasks_list') :
             \E k \in 1 .. Len(tasks_list) :
               /\ tasks_list'[j] = tasks_list[k]
               /\ j < task_index => k = j
    BY <1>1, <1>4, ScanRemoves
  <2>2. next_task_run_time' \in Int
    <3>1. task.next_run_time \in Int
      BY <1>3 DEF TaskType
    <3>2. treated = task \/ treated.next_run_time \in Int
      BY <1>4 DEF Removes, Treated
    <3>3. QED BY <1>1, <3>1, <3>2, Constants DEF Scan, Earliest, TypeOK
  <2>3. TypeOK'
    BY <1>1, <1>2, <2>1, <2>2 DEF TypeOK, TaskType
  <2>4. InPhase'
    BY <1>1, <1>2, <2>1 DEF InPhase
  <2>5. Scanned'
    BY <1>1, <1>2, <2>1 DEF Scanned
  <2>6. QED BY <2>3, <2>4, <2>5 DEF Inv
<1>5. CASE ~Removes
  <2>1. /\ tasks_list' \in Seq(TaskType)
        /\ Len(tasks_list') = Len(tasks_list)
        /\ task_index' = task_index + 1
        /\ \A j \in 1 .. Len(tasks_list) :
             tasks_list'[j] = IF j = task_index THEN treated ELSE tasks_list[j]
    BY <1>1, <1>5, ScanKeeps
  <2>2. /\ treated \in TaskType
        /\ treated.line = task.line
        /\ now < treated.next_run_time
        /\ OnPhase(task.next_run_time, config[task.line]) =>
             OnPhase(treated.next_run_time, config[task.line])
    BY <1>1, <1>3, <1>5, TreatedTask DEF Removes
  <2> HIDE DEF treated
  <2>3. next_task_run_time' \in Int
    <3>1. treated.next_run_time \in Int
      BY <2>2 DEF TaskType
    <3>2. QED BY <1>1, <3>1, Constants DEF Scan, Earliest, TypeOK, treated
  <2>4. TypeOK'
    BY <1>1, <1>2, <2>1, <2>3 DEF TypeOK, TaskType
  <2>5. InPhase'
    BY <1>1, <1>2, <2>1, <2>2 DEF InPhase
  <2>6. Scanned'
    BY <1>1, <1>2, <2>1, <2>2 DEF Scanned
  <2>7. QED BY <2>4, <2>5, <2>6 DEF Inv
<1>6. QED BY <1>4, <1>5

LEMMA NextInv == ASSUME IntervalsFit, Inv, [Next]_vars PROVE Inv'
<1>1. TypeOK /\ InPhase /\ Scanned
  BY DEF Inv
<1>2. CASE Check
  <2>1. UNCHANGED <<now, steady, config, tasks_list, next_task_run_time>> /\ task_index' = 1
    BY <1>2 DEF Check
  <2>2. wakeup' \in Int /\ pc' \in {"scan", "wait"}
    <3>1. CASE Sleep(next_task_run_time)
      BY <1>1, <3>1, SleepTypes
    <3>2. CASE pc' = "scan" /\ UNCHANGED wakeup
      BY <1>1, <3>2 DEF TypeOK
    <3>3. QED BY <1>2, <3>1, <3>2 DEF Check
  <2>3. TypeOK'
    BY <1>1, <2>1, <2>2 DEF TypeOK
  <2>4. InPhase' /\ Scanned'
    BY <1>1, <2>1 DEF InPhase, Scanned
  <2>5. QED BY <2>3, <2>4 DEF Inv
<1>3. CASE Scan
  BY <1>3, ScanInv
<1>4. CASE ScanEnd
  <2>1. /\ UNCHANGED <<now, steady, config, tasks_list, next_task_run_time, task_index>>
        /\ wakeup' \in Int /\ pc' = "wait"
    BY <1>1, <1>4, SleepTypes DEF ScanEnd
  <2>2. TypeOK'
    BY <1>1, <2>1 DEF TypeOK
  <2>3. InPhase' /\ Scanned'
    BY <1>1, <2>1 DEF InPhase, Scanned
  <2>4. QED BY <2>2, <2>3 DEF Inv
<1>5. CASE Wake
  <2>1. TypeOK'
    BY <1>1, <1>5 DEF TypeOK, Wake
  <2>2. InPhase' /\ Scanned'
    BY <1>1, <1>5 DEF InPhase, Scanned, Wake
  <2>3. QED BY <2>1, <2>2 DEF Inv
<1>6. CASE Tick
  <2>1. TypeOK'
    BY <1>1, <1>6 DEF TypeOK, Tick
  <2>2. InPhase'
    BY <1>1, <1>6 DEF InPhase, Tick
  <2>3. Scanned'
    BY <1>6 DEF Scanned, Tick
  <2>4. QED BY <2>1, <2>2, <2>3 DEF Inv
<1>7. CASE UNCHANGED vars
  <2>1. TypeOK' /\ InPhase' /\ Scanned'
    BY <1>1, <1>7 DEF TypeOK, InPhase, Scanned, vars
  <2>2. QED BY <2>1 DEF Inv
<1>8. QED BY <1>2, <1>3, <1>4, <1>5, <1>6, <1>7 DEF Next

LEMMA Invariance == ASSUME IntervalsFit PROVE Spec => []Inv
<1>1. Init => Inv
  BY InitInv
<1>2. Inv /\ [Next]_vars => Inv'
  BY NextInv
<1>3. QED BY <1>1, <1>2, PTL DEF Spec

(* A task with a first run stays on the times that lie whole intervals     *)
(* after it, however often it runs, late or not (ServerList.cpp:418).      *)
THEOREM PhaseIsKept == ASSUME IntervalsFit PROVE Spec => []FixedTimeKeepsPhase
<1>1. Inv => FixedTimeKeepsPhase
  <2> SUFFICES ASSUME Inv, NEW i \in DOMAIN tasks_list,
                      config[tasks_list[i].line].first # Unset,
                      config[tasks_list[i].line].interval > 0
               PROVE  (tasks_list[i].next_run_time - config[tasks_list[i].line].first)
                        % (Precision * config[tasks_list[i].line].interval) = 0
    BY DEF FixedTimeKeepsPhase, Inv
  <2> DEFINE line == config[tasks_list[i].line]
             b == Precision * line.interval
  <2>1. TypeOK /\ InPhase
    BY DEF Inv
  <2>2. i \in 1 .. Len(tasks_list) /\ tasks_list \in Seq(TaskType)
    BY <2>1 DEF TypeOK, TaskType
  <2>3. tasks_list[i] \in TaskType
    BY <2>2, ElementOfSeq
  <2>4. line \in Lines
    BY <2>1, <2>3, TaskLine
  <2>5. b \in Nat \ {0}
    BY <2>4, IntervalTicks
  <2>6. PICK k \in Int : tasks_list[i].next_run_time - line.first = k * b
    BY <2>1, <2>2 DEF InPhase, OnPhase
  <2> HIDE DEF b
  <2>7. (k * b) % b = 0
    BY <2>5, Multiple
  <2>8. QED BY <2>6, <2>7 DEF b
<1>2. QED BY <1>1, Invariance, PTL

(* When a steady round ends, nothing in the list is due: the scan by index *)
(* leaves no task out when it deletes one (ServerList.cpp:440), and no     *)
(* task it has run is due again at once.                                   *)
THEOREM AllDueAreRun == ASSUME IntervalsFit PROVE Spec => RoundRunsAllDue
<1> DEFINE Done == steady /\ ScanEnd => \A i \in DOMAIN tasks_list : ~IsDue(tasks_list[i])
<1>1. Inv => Done
  <2> SUFFICES ASSUME Inv, steady, ScanEnd, NEW i \in DOMAIN tasks_list
               PROVE  ~IsDue(tasks_list[i])
    OBVIOUS
  <2>1. /\ TypeOK /\ Scanned
        /\ pc = "scan" /\ task_index > Len(tasks_list)
    BY DEF Inv, ScanEnd
  <2>2. /\ tasks_list \in Seq(TaskType)
        /\ Len(tasks_list) \in Nat
        /\ i \in 1 .. Len(tasks_list)
        /\ task_index \in Nat
        /\ now \in Nat
    BY <2>1 DEF TypeOK, TaskType
  <2>3. now < tasks_list[i].next_run_time
    BY <2>1, <2>2 DEF Scanned
  <2>4. tasks_list[i] \in TaskType
    BY <2>2, ElementOfSeq
  <2>5. tasks_list[i].next_run_time \in Int
    BY <2>4 DEF TaskType
  <2>6. QED BY <2>2, <2>3, <2>5 DEF IsDue
<1>2. Inv => [Done]_vars
  BY <1>1
<1>3. QED BY <1>2, Invariance, PTL DEF RoundRunsAllDue
-----------------------------------------------------------------------------
(* Periodic tasks of a steady run are on time.  While the thread sleeps or *)
(* is about to, next_task_run_time is not later than any task; a round     *)
(* begins with a time that has passed, which the first task replaces, and  *)
(* then keeps the least of the times it has seen, all of them to come.     *)

Earlier(last) == \A i \in 1 .. last : next_task_run_time <= tasks_list[i].next_run_time

Timely ==
  steady /\ Periodic =>
    /\ Len(tasks_list) > 0
    /\ next_task_run_time > 0
    /\ \A i \in 1 .. Len(tasks_list) : tasks_list[i].next_run_time <= now + IntMax
    /\ pc # "scan" => Earlier(Len(tasks_list))
    /\ pc = "scan" => IF task_index = 1 THEN next_task_run_time <= now
                      ELSE now < next_task_run_time /\ Earlier(task_index - 1)
    /\ pc = "wait" => now <= wakeup /\ wakeup <= next_task_run_time + Precision

LEMMA InitTimely == ASSUME IntervalsFit, FirstRunsFit, Init PROVE Timely
<1> SUFFICES ASSUME Periodic
             PROVE  /\ Len(tasks_list) > 0
                    /\ next_task_run_time > 0
                    /\ \A i \in 1 .. Len(tasks_list) :
                         tasks_list[i].next_run_time <= now + IntMax
                    /\ Earlier(Len(tasks_list))
  BY DEF Init, Timely
<1>1. /\ Len(tasks_list) \in Nat \ {0}
      /\ now \in Nat \ {0}
      /\ next_task_run_time \in Nat
      /\ now <= next_task_run_time
      /\ Earlier(Len(tasks_list))
      /\ tasks_list \in Seq(TaskType)
  BY InitTasks DEF Earlier
<1>2. ASSUME NEW i \in 1 .. Len(tasks_list)
      PROVE  tasks_list[i].next_run_time <= now + IntMax
  <2> DEFINE line == config[tasks_list[i].line]
  <2>1. /\ line \in Lines
        /\ line.interval > 0 /\ line.first <= IntMax =>
             tasks_list[i].next_run_time <= now + IntMax
    BY InitTasks
  <2>2. tasks_list[i] \in TaskType
    BY <1>1, ElementOfSeq
  <2>3. line.interval > 0
    BY <2>2 DEF Periodic, TaskType
  <2>4. line.first <= IntMax
    BY <2>1 DEF FirstRunsFit
  <2>5. QED BY <2>1, <2>3, <2>4
<1>3. QED BY <1>1, <1>2

(* The sleep is at most a second longer than the time until the task.      *)
LEMMA SleepIsShort ==
  ASSUME TypeOK, Sleep(next_task_run_time),
         now < next_task_run_time, next_task_run_time <= now + IntMax
  PROVE  now <= wakeup' /\ wakeup' <= next_task_run_time + Precision
<1> DEFINE next == next_task_run_time
           left == next - now
           limit == Maximum - Precision
           least == IF left < limit THEN left ELSE limit
           q == Quotient(least, Precision)
<1>1. /\ next \in Int /\ now \in Int
      /\ IntMax \in Nat \ {0} /\ Precision \in Nat \ {0}
      /\ Maximum \in Nat /\ Precision <= Maximum
  BY Constants DEF TypeOK
<1>2. left \in Nat /\ left <= IntMax
  BY <1>1
<1>3. AsInt(left) = left
  <2> HIDE DEF left
  <2>1. QED BY <1>1, <1>2, IntIsKept
<1>4. least \in Nat /\ least <= left
  BY <1>1, <1>2
<1>5. q \in Nat /\ q * Precision <= least
  <2> HIDE DEF least
  <2>1. QED BY <1>1, <1>4, Division
<1>6. WaitFor(next) = q * Precision + Precision
  BY <1>3 DEF WaitFor
<1> HIDE DEF q, least
<1>7. q * Precision \in Nat
  BY <1>1, <1>5
<1>8. /\ WaitFor(next) \in Nat
      /\ WaitFor(next) <= left + Precision
  BY <1>1, <1>2, <1>4, <1>5, <1>6, <1>7
<1>9. wakeup' = now + WaitFor(next)
  BY <1>8 DEF Sleep
<1>10. QED BY <1>1, <1>8, <1>9

LEMMA NoneIsOneTime ==
  ASSUME TypeOK, Periodic, NEW task \in TaskType
  PROVE  ~OneTime(task)
<1>1. task.line \in DOMAIN config /\ Interval(task) \in Int
  BY TaskLine
<1>2. Interval(task) > 0
  BY <1>1 DEF Periodic, Interval
<1>3. QED BY <1>1, <1>2 DEF OneTime

LEMMA ScanTimely == ASSUME IntervalsFit, Inv, Timely, Scan PROVE Timely'
<1>1. TypeOK /\ UNCHANGED <<now, steady, config, wakeup, pc>> /\ pc = "scan"
  BY DEF Inv, Scan
<1> SUFFICES ASSUME steady, Periodic
             PROVE  Timely'
  BY <1>1 DEF Timely, Periodic
<1>2. /\ Len(tasks_list) > 0
      /\ next_task_run_time > 0
      /\ \A i \in 1 .. Len(tasks_list) : tasks_list[i].next_run_time <= now + IntMax
      /\ IF task_index = 1 THEN next_task_run_time <= now
         ELSE now < next_task_run_time /\ Earlier(task_index - 1)
  BY <1>1 DEF Timely
<1>3. /\ task_index \in 1 .. Len(tasks_list)
      /\ Len(tasks_list) \in Nat
      /\ tasks_list \in Seq(TaskType)
      /\ next_task_run_time \in Int /\ now \in Nat \ {0}
  BY <1>1 DEF Scan, TypeOK, TaskType
<1> DEFINE task == tasks_list[task_index]
           t == Treated(task)
<1>4. task \in TaskType
  BY <1>3, ElementOfSeq
<1>5. ~Removes
  BY <1>1, <1>4, NoneIsOneTime DEF Removes
<1>6. /\ t \in TaskType
      /\ now < t.next_run_time
      /\ task.next_run_time <= now + IntMax => t.next_run_time <= now + IntMax
  BY <1>1, <1>4, <1>5, TreatedTask DEF Removes
<1>7. /\ tasks_list' \in Seq(TaskType)
      /\ Len(tasks_list') = Len(tasks_list)
      /\ task_index' = task_index + 1
      /\ \A j \in 1 .. Len(tasks_list) :
           tasks_list'[j] = IF j = task_index THEN t ELSE tasks_list[j]
  BY <1>1, <1>5, ScanKeeps
<1>8. next_task_run_time' = Earliest(t.next_run_time)
  <2>1. tasks_list' # <<>>
    BY <1>2, <1>3, <1>7, EmptySeq
  <2>2. QED BY <2>1 DEF Scan
<1> HIDE DEF t
<1>9. t.next_run_time \in Int /\ t.next_run_time <= now + IntMax
  BY <1>2, <1>3, <1>6 DEF TaskType
<1>10. /\ now < next_task_run_time'
       /\ next_task_run_time' <= t.next_run_time
       /\ task_index # 1 => next_task_run_time' <= next_task_run_time
       /\ next_task_run_time' \in Int
  BY <1>2, <1>3, <1>6, <1>8, <1>9 DEF Earliest
<1>11. ASSUME NEW i \in 1 .. task_index
       PROVE  next_task_run_time' <= tasks_list'[i].next_run_time
  <2>1. CASE i = task_index
    BY <1>3, <1>7, <1>10, <2>1
  <2>2. CASE i # task_index
    <3>1. i \in 1 .. task_index - 1 /\ task_index # 1 /\ i \in 1 .. Len(tasks_list)
      BY <1>3, <2>2
    <3>2. /\ tasks_list'[i] = tasks_list[i]
          /\ next_task_run_time <= tasks_list[i].next_run_time
          /\ next_task_run_time' <= next_task_run_time
      BY <1>2, <1>7, <1>10, <2>2, <3>1 DEF Earlier
    <3>3. tasks_list[i] \in TaskType
      BY <1>3, <3>1, ElementOfSeq
    <3>4. tasks_list[i].next_run_time \in Int
      BY <3>3 DEF TaskType
    <3>5. QED BY <1>3, <1>10, <3>2, <3>4
  <2>3. QED BY <2>1, <2>2
<1>12. ASSUME NEW i \in 1 .. Len(tasks_list)
       PROVE  tasks_list'[i].next_run_time <= now + IntMax
  BY <1>2, <1>7, <1>9
<1>13. task_index' # 1 /\ task_index' - 1 = task_index
  BY <1>3, <1>7
<1>14. Earlier(task_index - 1)'
  BY <1>11, <1>13 DEF Earlier
<1>15. QED BY <1>1, <1>2, <1>3, <1>7, <1>10, <1>12, <1>13, <1>14 DEF Timely

LEMMA NextTimely == ASSUME IntervalsFit, Inv, Timely, [Next]_vars PROVE Timely'
<1>1. TypeOK
  BY DEF Inv
<1>2. UNCHANGED <<steady, config>>
  BY DEF Next, Check, Scan, ScanEnd, Wake, Tick, vars
<1> SUFFICES ASSUME steady, Periodic
             PROVE  Timely'
  BY <1>2 DEF Timely, Periodic
<1>3. /\ Len(tasks_list) > 0
      /\ next_task_run_time > 0
      /\ \A i \in 1 .. Len(tasks_list) : tasks_list[i].next_run_time <= now + IntMax
      /\ pc # "scan" => Earlier(Len(tasks_list))
      /\ pc = "scan" => IF task_index = 1 THEN next_task_run_time <= now
                        ELSE now < next_task_run_time /\ Earlier(task_index - 1)
      /\ pc = "wait" => now <= wakeup /\ wakeup <= next_task_run_time + Precision
  BY DEF Timely
<1>4. /\ tasks_list \in Seq(TaskType)
      /\ Len(tasks_list) \in Nat
      /\ next_task_run_time \in Int /\ now \in Nat \ {0} /\ wakeup \in Int
      /\ task_index \in 1 .. Len(tasks_list) + 1
      /\ IntMax \in Nat /\ Precision \in Nat
  BY <1>1, Constants DEF TypeOK, TaskType
<1>5. ASSUME NEW i \in 1 .. Len(tasks_list)
      PROVE  tasks_list[i].next_run_time \in Int
  <2>1. tasks_list[i] \in TaskType
    BY <1>4, ElementOfSeq
  <2>2. QED BY <2>1 DEF TaskType
(* A thread that goes to sleep does so before its next task. *)
<1>6. ASSUME Sleep(next_task_run_time), now < next_task_run_time,
             Earlier(Len(tasks_list)),
             UNCHANGED <<now, steady, config, tasks_list, next_task_run_time>>
      PROVE  Timely'
  <2>1. next_task_run_time <= now + IntMax
    <3>1. /\ 1 \in 1 .. Len(tasks_list)
          /\ next_task_run_time <= tasks_list[1].next_run_time
          /\ tasks_list[1].next_run_time <= now + IntMax
          /\ tasks_list[1].next_run_time \in Int
      BY <1>3, <1>4, <1>5, <1>6 DEF Earlier
    <3>2. QED BY <1>4, <3>1
  <2>2. now <= wakeup' /\ wakeup' <= next_task_run_time + Precision /\ pc' = "wait"
    BY <1>1, <1>6, <2>1, SleepIsShort DEF Sleep
  <2>3. Earlier(Len(tasks_list))'
    BY <1>6 DEF Earlier
  <2>4. QED BY <1>3, <1>6, <2>2, <2>3 DEF Timely
<1>7. CASE Check
  <2>1. /\ UNCHANGED <<now, steady, config, tasks_list, next_task_run_time>>
        /\ task_index' = 1
        /\ Earlier(Len(tasks_list))
    BY <1>3, <1>7 DEF Check
  <2>2. CASE now >= next_task_run_time
    <3>1. pc' = "scan"
      BY <1>3, <1>4, <1>7, <2>2 DEF Check, Unset
    <3>2. QED BY <1>3, <1>4, <2>1, <2>2, <3>1 DEF Timely
  <2>3. CASE ~(now >= next_task_run_time)
    <3>1. Sleep(next_task_run_time) /\ now < next_task_run_time
      BY <1>4, <1>7, <2>3 DEF Check
    <3>2. QED BY <1>6, <2>1, <3>1
  <2>4. QED BY <2>2, <2>3
<1>8. CASE Scan
  BY <1>8, ScanTimely
<1>9. CASE ScanEnd
  <2>1. /\ UNCHANGED <<now, steady, config, tasks_list, next_task_run_time>>
        /\ Sleep(next_task_run_time)
        /\ task_index > Len(tasks_list)
        /\ pc = "scan"
    BY <1>9 DEF ScanEnd
  <2>2. task_index # 1 /\ task_index - 1 = Len(tasks_list)
    BY <1>3, <1>4, <2>1
  <2>3. now < next_task_run_time /\ Earlier(Len(tasks_list))
    BY <1>3, <2>1, <2>2
  <2>4. QED BY <1>6, <2>1, <2>3
<1>10. CASE Wake
  <2>1. /\ UNCHANGED <<now, steady, config, tasks_list, next_task_run_time, wakeup>>
        /\ pc = "wait" /\ pc' = "check"
    BY <1>10 DEF Wake
  <2>2. Earlier(Len(tasks_list))'
    BY <1>3, <2>1 DEF Earlier
  <2>3. QED BY <1>3, <2>1, <2>2 DEF Timely
<1>11. CASE Tick
  <2>1. /\ UNCHANGED <<steady, config, tasks_list, next_task_run_time, task_index,
                       wakeup, pc>>
        /\ now' = now + 1
        /\ pc = "wait" /\ now < wakeup
    BY <1>11 DEF Tick
  <2>2. now' <= wakeup'
    BY <1>4, <2>1
  <2>3. ASSUME NEW i \in 1 .. Len(tasks_list)
        PROVE  tasks_list[i].next_run_time <= now' + IntMax
    <3>1. /\ tasks_list[i].next_run_time <= now + IntMax
          /\ tasks_list[i].next_run_time \in Int
      BY <1>3, <1>5
    <3>2. QED BY <1>4, <2>1, <3>1
  <2>4. Earlier(Len(tasks_list))'
    BY <1>3, <2>1 DEF Earlier
  <2>5. QED BY <1>3, <2>1, <2>2, <2>3, <2>4 DEF Timely
<1>12. CASE UNCHANGED vars
  BY <1>12 DEF vars, Timely, Earlier, Periodic
<1>13. QED BY <1>7, <1>8, <1>9, <1>10, <1>11, <1>12 DEF Next

(* A periodic task of a steady run waits at most the second that the sleep *)
(* is rounded up by, whichever other tasks there are and wherever the      *)
(* rounds leave next_task_run_time (ServerList.cpp:435, :456).             *)
THEOREM TasksAreOnTime ==
  ASSUME IntervalsFit, FirstRunsFit PROVE Spec => []OnTime
<1>1. Init => Inv /\ Timely
  BY InitInv, InitTimely
<1>2. Inv /\ Timely /\ [Next]_vars => (Inv /\ Timely)'
  BY NextInv, NextTimely
<1>3. Inv /\ Timely => OnTime
  <2> SUFFICES ASSUME Inv, Timely, steady, Periodic, pc = "wait",
                      NEW i \in DOMAIN tasks_list
               PROVE  now <= tasks_list[i].next_run_time + Precision
    BY DEF OnTime
  <2>1. /\ tasks_list \in Seq(TaskType)
        /\ Len(tasks_list) \in Nat
        /\ i \in 1 .. Len(tasks_list)
        /\ next_task_run_time \in Int /\ now \in Nat /\ wakeup \in Int
        /\ Precision \in Nat
    BY Constants DEF Inv, TypeOK, TaskType
  <2>2. tasks_list[i] \in TaskType
    BY <2>1, ElementOfSeq
  <2>3. tasks_list[i].next_run_time \in Int
    BY <2>2 DEF TaskType
  <2>4. /\ now <= wakeup
        /\ wakeup <= next_task_run_time + Precision
        /\ next_task_run_time <= tasks_list[i].next_run_time
    BY <2>1 DEF Timely, Earlier
  <2>5. QED BY <2>1, <2>3, <2>4
<1>4. QED BY <1>1, <1>2, <1>3, PTL DEF Spec
=============================================================================
