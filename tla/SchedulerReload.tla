--------------------------- MODULE SchedulerReload ---------------------------
(***************************************************************************)
(* The jobs of automations in APScheduler and reload_scheduled_tasks,      *)
(* which every change of an automation runs in its own request thread,     *)
(* without a lock (services/scheduler_runtime.py, routers/automations.py). *)
(*                                                                         *)
(*   db[a]     the plan of automation a ("off": disabled, deleted, manual) *)
(*   jobs      the memory job store: <<a, suffix>> -> plan, ticks left     *)
(*   pending   _pending_interval_resume: job -> ticks left                 *)
(*   thread[t] a request: its step, jobs or rows still to do, what it saved*)
(*   clock     the time of day                                             *)
(*                                                                         *)
(* Times are relative: left is what remains until a job is due.            *)
(*                                                                         *)
(* History: calm, no two reloads have overlapped since a request last      *)
(* found all others idle; due[a], when an interval automation should run   *)
(* next: Unset before its first job, and from a change of its plan, an     *)
(* overlap or a run missed under a reload to its next job.                 *)
(***************************************************************************)
EXTENDS Integers, FiniteSets

CONSTANTS
  Auto,
  Thread,
  Plan,        \* records [kind, step, window]
  Day,         \* ticks of a day
  Anchor,      \* anchor_time of the plans that have one, and the time of the daily plan
  Window,      \* the times of day between start_time and end_time
  Slow,        \* BOOLEAN: a job may become due while a reload is under way
  Restarts,    \* BOOLEAN: the API process may be restarted
  Unset,
  MaxChanges   \* bound: changes of automations

Kinds == {"off", "interval", "anchored", "daily"}

PlanAssumption ==
  /\ Day \in Nat \ {0} /\ Anchor \in 0..(Day - 1) /\ Window \subseteq 0..(Day - 1)
  /\ Plan \subseteq [kind : Kinds, step : 1..Day, window : BOOLEAN]
  /\ Slow \in BOOLEAN /\ Restarts \in BOOLEAN /\ MaxChanges \in Nat

VARIABLES db, jobs, pending, thread, clock, calm, due, changes

vars == <<db, jobs, pending, thread, clock, calm, due, changes>>

Left == 0..Day
JobId == Auto \X {"interval", "daily"}
Nothing == [j \in {} |-> 0]
Idle == [pc |-> "idle", todo |-> {}, saved |-> Nothing, rows |-> Nothing]
Partial(f, S, T) == DOMAIN f \subseteq S /\ \A x \in DOMAIN f : f[x] \in T

TypeOK ==
  /\ db \in [Auto -> Plan]
  /\ Partial(jobs, JobId, [plan : Plan, left : Left])
  /\ Partial(pending, JobId, Left)
  /\ clock \in 0..(Day - 1) /\ calm \in BOOLEAN
  /\ due \in [Auto -> Left \cup {Unset}]
  /\ changes \in 0..MaxChanges
  /\ \A t \in Thread :
       /\ thread[t].pc \in {"idle", "list", "remove", "read", "register"}
       /\ thread[t].todo \subseteq JobId
       /\ Partial(thread[t].saved, JobId, Left) /\ Partial(thread[t].rows, Auto, Plan)
-----------------------------------------------------------------------------
Id(a, p) == <<a, IF p.kind = "daily" THEN "daily" ELSE "interval">>

\* Ticks until the clock shows the hour h next.
Until(h) == ((h - clock - 1) % Day) + 1

\* first_interval_candidate: today's anchor if it is still to come, else the
\* next multiple of the step after it.
FirstCandidate(step) ==
  IF Anchor > clock THEN Anchor - clock ELSE step - ((clock - Anchor) % step)

\* _register_schedule and _resolve_interval_start_date: when a new job runs first.
First(a, p) ==
  CASE p.kind = "daily" -> Until(Anchor)
    [] p.kind = "anchored" -> FirstCandidate(p.step)
    [] OTHER -> IF Id(a, p) \in DOMAIN pending /\ pending[Id(a, p)] > 0
                  THEN pending[Id(a, p)] ELSE p.step

\* Only a plain interval takes its entry out.
TakesResume(p) == p.kind = "interval"

Without(f, x) == [y \in DOMAIN f \ {x} |-> f[y]]
With(f, x, v) == [y \in DOMAIN f \cup {x} |-> IF y = x THEN v ELSE f[y]]

Enabled == {a \in Auto : db[a].kind # "off"}
AllIdle == \A t \in Thread : thread[t].pc = "idle"

\* The job store as a reload alone, from an empty one, would fill it.
Fresh ==
  [j \in {Id(a, db[a]) : a \in Enabled} |->
     [plan |-> db[j[1]],
      left |-> CASE db[j[1]].kind = "daily" -> Until(Anchor)
                 [] db[j[1]].kind = "anchored" -> FirstCandidate(db[j[1]].step)
                 [] OTHER -> db[j[1]].step]]

\* When the intervals of a store so filled should run.
FreshDue == [a \in Auto |-> IF db[a].kind = "interval" THEN db[a].step ELSE Unset]

Init ==
  /\ db \in [Auto -> Plan]
  /\ clock = 0
  /\ jobs = Fresh
  /\ pending = Nothing
  /\ thread = [t \in Thread |-> Idle]
  /\ calm = TRUE /\ due = FreshDue
  /\ changes = 0
-----------------------------------------------------------------------------
Prompt == Slow \/ \A j \in DOMAIN jobs : jobs[j].left > 0

\* The request of t, which has changed the plans of S, goes on to the reload.
Begins(t, S) ==
  /\ thread' = [thread EXCEPT ![t].pc = "list"]
  /\ calm' = AllIdle
  /\ due' = [a \in Auto |-> IF AllIdle /\ a \notin S THEN due[a] ELSE Unset]

\* A request that has committed a change of one automation: create, update,
\* delete, pause, resume.
Change(t, a, p) ==
  /\ thread[t].pc = "idle" /\ changes < MaxChanges /\ db[a] # p /\ Prompt
  /\ changes' = changes + 1
  /\ db' = [db EXCEPT ![a] = p]
  /\ Begins(t, {a})
  /\ UNCHANGED <<jobs, pending, clock>>

\* Pause-all: every automation at once.
PauseAll(t) ==
  /\ thread[t].pc = "idle" /\ changes < MaxChanges /\ Prompt
  /\ \E p \in Plan : p.kind = "off" /\ db' = [a \in Auto |-> p]
  /\ changes' = changes + 1
  /\ Begins(t, Auto)
  /\ UNCHANGED <<jobs, pending, clock>>

\* A reload without a change: the system router's, or one after a change that
\* is not of the schedule.
Reload(t) ==
  /\ thread[t].pc = "idle" /\ Prompt
  /\ Begins(t, {})
  /\ UNCHANGED <<db, jobs, pending, clock, changes>>

List(t) ==
  /\ thread[t].pc = "list" /\ Prompt
  /\ thread' = [thread EXCEPT ![t].pc = "remove", ![t].todo = DOMAIN jobs]
  /\ UNCHANGED <<db, jobs, pending, clock, calm, due, changes>>

\* One job: note when it is due, take it out of the store.  One that is due now
\* misses its run.
Remove(t) ==
  /\ thread[t].pc = "remove" /\ Prompt
  /\ \E j \in thread[t].todo \cap DOMAIN jobs :
       /\ jobs' = Without(jobs, j)
       /\ thread' = [thread EXCEPT ![t].todo = @ \ {j},
            ![t].saved = IF j[2] = "interval" THEN With(@, j, jobs[j].left) ELSE @]
       /\ due' = IF jobs[j].left = 0 THEN [due EXCEPT ![j[1]] = Unset] ELSE due
  /\ UNCHANGED <<db, pending, clock, calm, changes>>

\* JobLookupError: another reload was faster.  The exception ends this one.
RemoveFails(t) ==
  /\ thread[t].pc = "remove"
  /\ thread[t].todo \ DOMAIN jobs # {}
  /\ thread' = [thread EXCEPT ![t] = Idle]
  /\ UNCHANGED <<db, jobs, pending, clock, calm, due, changes>>

\* The module dictionary is cleared and filled.
Park(t) ==
  /\ thread[t].pc = "remove" /\ thread[t].todo = {} /\ Prompt
  /\ pending' = thread[t].saved
  /\ thread' = [thread EXCEPT ![t].pc = "read", ![t].saved = Nothing]
  /\ UNCHANGED <<db, jobs, clock, calm, due, changes>>

Read(t) ==
  /\ thread[t].pc = "read" /\ Prompt
  /\ thread' = [thread EXCEPT ![t].pc = "register", ![t].rows = [a \in Enabled |-> db[a]]]
  /\ UNCHANGED <<db, jobs, pending, clock, calm, due, changes>>

\* Mutated form: an automation whose job could not be added ends the loop.
RegisterStops(t) ==
  /\ thread[t].pc = "register" /\ Prompt
  /\ \E a \in DOMAIN thread[t].rows :
       LET p == thread[t].rows[a]
           j == Id(a, p)
       IN  /\ thread' = [thread EXCEPT ![t].rows = Nothing]
           /\ pending' = IF TakesResume(p) THEN Without(pending, j) ELSE pending
           /\ jobs' = IF j \in DOMAIN jobs THEN jobs ELSE With(jobs, j, [plan |-> p, left |-> First(a, p)])
           /\ due' = IF calm /\ due[a] = Unset /\ p.kind = "interval" /\ j \notin DOMAIN jobs
                       THEN [due EXCEPT ![a] = First(a, p)] ELSE due
  /\ UNCHANGED <<db, clock, calm, changes>>

\* One row.  A job of that name that is already there stays (ConflictingIdError is logged).
Register(t) ==
  /\ thread[t].pc = "register" /\ Prompt
  /\ \E a \in DOMAIN thread[t].rows :
       LET p == thread[t].rows[a]
           j == Id(a, p)
       IN  /\ thread' = [thread EXCEPT ![t].rows = Without(@, a)]
           /\ pending' = IF TakesResume(p) THEN Without(pending, j) ELSE pending
           /\ jobs' = IF j \in DOMAIN jobs THEN jobs ELSE With(jobs, j, [plan |-> p, left |-> First(a, p)])
           /\ due' = IF calm /\ due[a] = Unset /\ p.kind = "interval" /\ j \notin DOMAIN jobs
                       THEN [due EXCEPT ![a] = First(a, p)] ELSE due
  /\ UNCHANGED <<db, clock, calm, changes>>

Done(t) ==
  /\ thread[t].pc = "register" /\ thread[t].rows = Nothing
  /\ thread' = [thread EXCEPT ![t] = Idle]
  /\ UNCHANGED <<db, jobs, pending, clock, calm, due, changes>>

\* The scheduler's own thread runs a due job.
Fire(j) ==
  /\ j \in DOMAIN jobs /\ jobs[j].left = 0
  /\ LET p == jobs[j].plan
         again == IF p.kind = "daily" THEN Day ELSE p.step
     IN  /\ jobs' = [jobs EXCEPT ![j].left = again]
         /\ due' = IF j[2] = "interval" /\ due[j[1]] # Unset THEN [due EXCEPT ![j[1]] = again] ELSE due
  /\ UNCHANGED <<db, pending, thread, clock, calm, changes>>

\* The wrapper looks up the automation, and an interval outside its window starts nothing.
Runs(j) == Fire(j) /\ db[j[1]].kind # "off" /\ (db[j[1]].window => clock \in Window)

Sooner(n) == IF n = 0 THEN 0 ELSE n - 1
SoonerAll(f) == [x \in DOMAIN f |-> Sooner(f[x])]

\* Time passes.  The scheduler's thread takes due jobs at once; unless Slow, no
\* job becomes due while a reload is under way.  One that does and is out of the
\* store misses its run.
Tick ==
  /\ \A j \in DOMAIN jobs : jobs[j].left > 0
  /\ Slow \/ AllIdle
  /\ clock' = (clock + 1) % Day
  /\ jobs' = [j \in DOMAIN jobs |-> [jobs[j] EXCEPT !.left = @ - 1]]
  /\ pending' = SoonerAll(pending)
  /\ thread' = [t \in Thread |-> [thread[t] EXCEPT !.saved = SoonerAll(@)]]
  /\ due' = [a \in Auto |-> IF due[a] # Unset /\ (due[a] > 1 \/ <<a, "interval">> \in DOMAIN jobs)
                               THEN Sooner(due[a]) ELSE Unset]
  /\ UNCHANGED <<db, calm, changes>>

\* The process ends with its job store; lifespan reloads before any request.
Restart ==
  /\ Restarts
  /\ jobs' = Fresh /\ pending' = Nothing
  /\ thread' = [t \in Thread |-> Idle]
  /\ calm' = TRUE /\ due' = FreshDue
  /\ UNCHANGED <<db, clock, changes>>

Step(t) == List(t) \/ Remove(t) \/ RemoveFails(t) \/ Park(t) \/ Read(t) \/ Register(t) \/ Done(t)

Next ==
  \/ \E t \in Thread :
       \/ \E a \in Auto, p \in Plan : Change(t, a, p)
       \/ PauseAll(t) \/ Reload(t) \/ Step(t)
  \/ \E j \in JobId : Fire(j)
  \/ Tick \/ Restart

Spec == Init /\ [][Next]_vars

\* A request runs on, the scheduler's thread runs what is due, and time passes
\* between the reloads.
Fairness ==
  /\ SF_vars(Tick)
  /\ \A t \in Thread : WF_vars(Step(t))
  /\ \A j \in JobId : WF_vars(Fire(j))

LiveSpec == Spec /\ Fairness
-----------------------------------------------------------------------------
\* When no reload is under way and the last one met no other, the job store is what
\* the table of automations asks for: a job per enabled automation, with its plan, and
\* no other.  What overlapping reloads leave behind (a job lost with both of them, a
\* plan of before, two jobs of one automation) the next one that is alone sets right.
AsAsked ==
  /\ DOMAIN jobs = {Id(a, db[a]) : a \in Enabled}
  /\ \A j \in DOMAIN jobs : jobs[j].plan = db[j[1]]
Synced == AllIdle /\ calm => AsAsked

\* Reloads that do not overlap put off no interval: whatever is changed elsewhere, a
\* job of an unchanged interval plan is due when it was due before, unless that moment
\* comes while it is out of the store.  A restart begins its intervals anew.
KeepsElapsed ==
  \A a \in Auto :
    LET j == <<a, "interval">>
    IN  j \in DOMAIN jobs /\ jobs[j].plan = db[a] /\ due[a] # Unset => jobs[j].left = due[a]

\* An anchored job keeps to the multiples of its step after the anchor (where
\* the step divides the day), however often and whenever it is registered anew.
OnAnchorGrid ==
  \A j \in DOMAIN jobs :
    jobs[j].plan.kind = "anchored" /\ Day % jobs[j].plan.step = 0 =>
      (clock + jobs[j].left - Anchor) % jobs[j].plan.step = 0

\* An interval automation whose plan stays as it is runs again and again, with whatever
\* reloads, once reloads overlap no more.
Steady(a) == db[a].kind = "interval" /\ ~db[a].window
IntervalFires ==
  \A a \in Auto : <>[](Steady(a) /\ calm) => []<><<Runs(<<a, "interval">>)>>_vars
=============================================================================
