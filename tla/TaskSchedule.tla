---------------------------- MODULE TaskSchedule ----------------------------
(***************************************************************************)
(* When the ServerList thread runs its tasks.  A configuration line gives  *)
(* a task its interval and, if it likes, its first run (AppConfig); the    *)
(* thread keeps the time of the next one in next_task_run_time, sleeps     *)
(* until then, in whole seconds, and then goes through the whole list.     *)
(*                                                                         *)
(* Time is counted in ticks, Precision of them to a second.  It passes     *)
(* while the thread sleeps and, when a task takes long, within a round     *)
(* too; a run that is steady has no such round.  TIME_SLICE_MARGIN_MS is   *)
(* less than a tick.  What the tasks do is in ServerList.                  *)
(***************************************************************************)
EXTENDS Integers, Sequences, Lists

CONSTANTS
  Precision,        (* TIMEDSEM_PROPER_PRECISION_MS, in ticks *)
  Minimum,          (* MINIMUM_UPDATE_INTERVAL_MS, in ticks *)
  Maximum,          (* MAXIMUM_UPDATE_INTERVAL_MS, in ticks *)
  IntMax,           (* The greatest int *)
  Lines,            (* The task lines a configuration may have *)
  MaxTasks,         (* Bound: the lines of the configuration *)
  MaxTime           (* Bound: the time the model stops at *)

Unset == 0 (* A time: no first run, no next task. *)

ASSUME ScheduleAssumption ==
  /\ {Precision, Minimum, Maximum, IntMax, MaxTasks, MaxTime} \subseteq Nat \ {0}
  /\ Precision <= Maximum
  /\ Lines \subseteq [interval : Int, first : Nat]

VARIABLES
  now,
  steady,             (* No round takes a tick in this run *)
  config,             (* The task lines, in their order *)
  tasks_list,
  next_task_run_time,
  task_index,         (* The task the round looks at next *)
  wakeup,             (* When the sleep ends *)
  pc                  (* check, scan or wait *)

vars == <<now, steady, config, tasks_list, next_task_run_time, task_index, wakeup,
          pc>>

TypeOK ==
  /\ now \in Nat \ {0} /\ steady \in BOOLEAN
  /\ config \in Seq(Lines) /\ Len(config) <= MaxTasks
  /\ tasks_list \in Seq([line : DOMAIN config, next_run_time : Int])
  /\ Len(tasks_list) <= Len(config)
  /\ next_task_run_time \in Int
  /\ task_index \in 1..(Len(tasks_list) + 1)
  /\ wakeup \in Int
  /\ pc \in {"check", "scan", "wait"}
-----------------------------------------------------------------------------
(* An int holds a number only to its width. *)
AsInt(n) == ((n + IntMax + 1) % (2 * (IntMax + 1))) - (IntMax + 1)

Ticks(interval) == AsInt(Precision * interval)

(* C++ division: towards zero. *)
Quotient(a, b) ==
  LET Size(n) == IF n < 0 THEN -n ELSE n
  IN  (IF (a < 0) = (b < 0) THEN 1 ELSE -1) * (Size(a) \div Size(b))

AfterFromNow(t, first, interval) == t + Ticks(interval)

(* The first time of a fixed task after t: whole intervals are added. *)
After(t, first, interval) ==
  first + (Quotient(t - first, Ticks(interval)) + 1) * Ticks(interval)

(* AppConfig takes a line: with a first run, the interval no longer counts *)
(* unless that run has passed.                                             *)
Accepted(line, t) ==
  IF line.first = Unset
  THEN line.interval > 0
  ELSE line.first >= t \/ line.interval > 0

FirstRun(line, t) ==
  CASE line.first = Unset -> t + Ticks(line.interval)
    [] line.first >= t    -> line.first
    [] OTHER              -> After(t, line.first, line.interval)

(* The lines AppConfig takes, by their place in the configuration. *)
Taken(lines, t) ==
  Projection([k \in 1..Len(lines) |-> k], {k \in 1..Len(lines) : Accepted(lines[k], t)})

Task(k, t) == [line |-> k, next_run_time |-> FirstRun(config[k], t)]

(* addTask keeps the least of the first runs. *)
FirstOf(list) ==
  CHOOSE n \in {list[i].next_run_time : i \in DOMAIN list} :
    \A i \in DOMAIN list : n <= list[i].next_run_time

(* Without a task the thread never comes here. *)
Init ==
  \E n \in 1..MaxTasks, t \in 1..Precision :
    /\ now = t
    /\ steady \in BOOLEAN
    /\ config \in [1..n -> Lines]
    /\ Taken(config, t) /= <<>>
    /\ tasks_list = [i \in DOMAIN Taken(config, t) |-> Task(Taken(config, t)[i], t)]
    /\ next_task_run_time = FirstOf(tasks_list)
    /\ task_index = 1
    /\ wakeup = Unset
    /\ pc = "check"
-----------------------------------------------------------------------------
Interval(task) == config[task.line].interval

Fixed(task) == config[task.line].first /= Unset

IsDue(task) == now >= task.next_run_time

OneTime(task) == Interval(task) <= 0

(* A periodic task that ran gets its next time. *)
NextRun(task) ==
  IF Fixed(task) THEN After(now, task.next_run_time, Interval(task))
                 ELSE now + Ticks(Interval(task))

(* The task as the round leaves it. *)
Treated(task) ==
  IF IsDue(task) /\ ~OneTime(task)
  THEN [task EXCEPT !.next_run_time = NextRun(task)]
  ELSE task

EarliestIsLast(t) == t

(* next_task_run_time after the round looked at a task that is then due at *)
(* t: a time that has passed gives way to any other.                       *)
Earliest(t) ==
  IF t < next_task_run_time \/ now >= next_task_run_time
  THEN t ELSE next_task_run_time

(* The sleep until the next task, in whole seconds, at most Maximum. *)
WaitFor(next) ==
  LET left  == AsInt(next - now)
      limit == Maximum - Precision
      least == IF left < limit THEN left ELSE limit
  IN  Quotient(least, Precision) * Precision + Precision

(* ptypes takes a negative time to wait for "at once" or "for ever". *)
Never == MaxTime + IntMax + Maximum

Sleep(next) ==
  /\ pc' = "wait"
  /\ wakeup' \in IF WaitFor(next) >= 0 THEN {now + WaitFor(next)} ELSE {now, Never}

Without(list, i) == SubSeq(list, 1, i - 1) \o SubSeq(list, i + 1, Len(list))

Check ==
  /\ pc = "check"
  /\ IF next_task_run_time /= Unset /\ now >= next_task_run_time
     THEN pc' = "scan" /\ UNCHANGED wakeup
     ELSE Sleep(next_task_run_time)
  /\ task_index' = 1
  /\ UNCHANGED <<now, steady, config, tasks_list, next_task_run_time>>

ScanOfSkips(i) ==
  IF IsDue(tasks_list[i]) /\ OneTime(tasks_list[i])
  THEN [list |-> Without(tasks_list, i), index |-> i + 1]
  ELSE [list |-> [tasks_list EXCEPT ![i] = Treated(@)], index |-> i + 1]

(* The list after the round looked at its i-th task, and where it goes on. *)
ScanOf(i) ==
  IF IsDue(tasks_list[i]) /\ OneTime(tasks_list[i])
  THEN [list |-> Without(tasks_list, i), index |-> i]
  ELSE [list |-> [tasks_list EXCEPT ![i] = Treated(@)], index |-> i + 1]

Scan ==
  /\ pc = "scan"
  /\ task_index <= Len(tasks_list)
  /\ LET task == tasks_list[task_index]
         scan == ScanOf(task_index)
     IN  /\ tasks_list' = scan.list
         /\ task_index' = scan.index
         /\ next_task_run_time' =
              IF scan.list = <<>> THEN now + Minimum
              ELSE Earliest(Treated(task).next_run_time)
  /\ UNCHANGED <<now, steady, config, wakeup, pc>>

ScanEnd ==
  /\ pc = "scan"
  /\ task_index > Len(tasks_list)
  /\ Sleep(next_task_run_time)
  /\ UNCHANGED <<now, steady, config, tasks_list, next_task_run_time, task_index>>

(* The time is over, or a message came. *)
Wake ==
  /\ pc = "wait"
  /\ pc' = "check"
  /\ task_index' = 1
  /\ UNCHANGED <<now, steady, config, tasks_list, next_task_run_time, wakeup>>

Tick ==
  /\ now < MaxTime
  /\ \/ pc = "wait" /\ now < wakeup
     \/ pc = "scan" /\ ~steady
  /\ now' = now + 1
  /\ UNCHANGED <<steady, config, tasks_list, next_task_run_time, task_index, wakeup,
                 pc>>

Next == Check \/ Scan \/ ScanEnd \/ Wake \/ Tick

Spec == Init /\ [][Next]_vars
-----------------------------------------------------------------------------
Periodic == \A k \in DOMAIN config : config[k].interval > 0

(* No task is due for longer than the second the sleep is rounded up by    *)
(* ("The interval in seconds between task executions",                     *)
(* doc/configuration_syntax.md): however the rounds rewrite                *)
(* next_task_run_time, it is never later than the earliest task of the     *)
(* list.  A one-time task whose time has passed, or a time that passes     *)
(* while the round goes on, does make it later: the periodic tasks of a    *)
(* steady run are what the code keeps in time.                             *)
OnTime ==
  steady /\ Periodic /\ pc = "wait" =>
    \A i \in DOMAIN tasks_list : now <= tasks_list[i].next_run_time + Precision

(* A round leaves no due task behind, though it takes the one-time tasks   *)
(* out of the list while it goes through it by index, and none that it has *)
(* run: what is due at its end has become due in it.                       *)
RoundRunsAllDue ==
  [][steady /\ ScanEnd => \A i \in DOMAIN tasks_list : ~IsDue(tasks_list[i])]_vars

(* A task with a first run stays on the times that lie whole intervals     *)
(* after it, however late its runs are.  (Every variable holds a value of  *)
(* its type.)                                                              *)
FixedTimeKeepsPhase ==
  /\ TypeOK
  /\ \A i \in DOMAIN tasks_list :
       LET line == config[tasks_list[i].line]
       IN  line.first /= Unset /\ line.interval > 0 =>
             (tasks_list[i].next_run_time - line.first) % (Precision * line.interval) = 0
=============================================================================
