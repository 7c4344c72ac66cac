--------------------------- MODULE AlertThrottle ---------------------------
(***************************************************************************)
(* The alerts of failed executions (Orchestrator/app/notifications.py):    *)
(* a table of cooldowns, a pool of threads that check it, send and then    *)
(* mark it, and the success of an automation that resets it.               *)
(*                                                                         *)
(*   alert[a]  the entry of _alert_state: count alerts marked, age the     *)
(*             time since last_sent.  count 0 is an automation that is not *)
(*             in the table.  Ages and counts saturate at the largest      *)
(*             value a tier distinguishes.                                 *)
(*   queue     the pool's work queue: automations whose failure waits      *)
(*   thread[w] a pool thread: dispatching for auto, its channels not yet   *)
(*             answered (pc "send") or answered (pc "mark"; ok: one of     *)
(*             them took the alert).  The check before and the mark after  *)
(*             do not share one lock                                       *)
(*   pool      whether _notification_executor is open                      *)
(*                                                                         *)
(* History, which no action reads:                                         *)
(*   failures[a]  failures of a since its last success, saturating         *)
(*   burst[a]     alerts of a begun since its cooldown last ran out        *)
(*   told[a]      some channel took the alert that was marked last         *)
(***************************************************************************)
EXTENDS Integers, FiniteSets, Sequences

CONSTANTS
  Automation,
  Threads,      \* threads of _notification_executor
  Tiers,        \* COOLDOWN_TIERS: records [min, wait]
  MaxTracked,   \* _MAX_TRACKED
  QueueBound,   \* bound: failures waiting in the pool's queue
  Faults        \* BOOLEAN: an entity read by the pool's thread may be expired

Waits == {t.wait : t \in Tiers}

TierAssumption ==
  /\ IsFiniteSet(Tiers) /\ Tiers # {}
  /\ Tiers \subseteq [min : Nat \ {0}, wait : Nat \ {0}]
  /\ \A t, u \in Tiers : t.min = u.min => t = u
  /\ \A t, u \in Tiers : t.min < u.min => t.wait >= u.wait
  /\ IsFiniteSet(Automation) /\ IsFiniteSet(Threads)
  /\ MaxTracked \in Nat \ {0} /\ QueueBound \in Nat

FirstTier == CHOOSE t \in Tiers : \A u \in Tiers : t.min <= u.min
LastTier == CHOOSE t \in Tiers : \A u \in Tiers : t.min >= u.min

Longest == FirstTier.wait
Most == LastTier.min

VARIABLES alert, queue, thread, pool, failures, burst, told

vars == <<alert, queue, thread, pool, failures, burst, told>>

Entry(n, t) == [count |-> n, age |-> t]

Untracked == Entry(0, Longest)

At(pc, a, ok) == [pc |-> pc, auto |-> a, ok |-> ok]
Free == [pc |-> "idle"]
Work == {Free} \cup {At(pc, a, ok) : pc \in {"send", "mark"}, a \in Automation, ok \in BOOLEAN}

TypeOK ==
  /\ alert \in [Automation -> [count : 0..Most, age : 0..Longest]]
  /\ queue \in Seq(Automation) /\ Len(queue) <= QueueBound
  /\ thread \in [Threads -> Work]
  /\ pool \in {"open", "shut"}
  /\ failures \in [Automation -> 0..Most]
  /\ burst \in [Automation -> Nat]
  /\ told \in [Automation -> BOOLEAN]

Init ==
  /\ alert = [a \in Automation |-> Untracked]
  /\ queue = <<>>
  /\ thread = [w \in Threads |-> Free]
  /\ pool = "open"
  /\ failures = [a \in Automation |-> 0]
  /\ burst = [a \in Automation |-> 0]
  /\ told = [a \in Automation |-> TRUE]
-----------------------------------------------------------------------------
Tracked == {a \in Automation : alert[a].count > 0}

Saturate(n, most) == IF n > most THEN most ELSE n

\* _get_cooldown: the last tier the count reaches, else the first.
Cooldown(n) ==
  IF \E t \in Tiers : t.min <= n
    THEN (CHOOSE t \in Tiers : t.min <= n /\ \A u \in Tiers : u.min <= n => u.min <= t.min).wait
    ELSE Longest

Throttled(a) == alert[a].age < Cooldown(alert[a].count)

Dispatching(a) == {w \in Threads : thread[w] # Free /\ thread[w].auto = a}
-----------------------------------------------------------------------------
\* A failed execution submits its alert (dispatch_alerts_async).
Failure(a) ==
  /\ pool = "open"
  /\ Len(queue) < QueueBound
  /\ queue' = Append(queue, a)
  /\ failures' = [failures EXCEPT ![a] = Saturate(@ + 1, Most)]
  /\ UNCHANGED <<alert, thread, pool, burst, told>>

\* Mutated form: as before 31/07/2026, a success resets nothing.
SuccessKeepsCount(a) ==
  /\ failures[a] > 0
  /\ failures' = [failures EXCEPT ![a] = 0]
  /\ UNCHANGED <<alert, queue, thread, pool, burst, told>>

\* A delivered execution: reset_alert_state.
Success(a) ==
  /\ alert' = [alert EXCEPT ![a] = Untracked]
  /\ failures' = [failures EXCEPT ![a] = 0]
  /\ burst' = [burst EXCEPT ![a] = Cardinality(Dispatching(a))]
  /\ UNCHANGED <<queue, thread, pool, told>>

Take(w) ==
  /\ thread[w] = Free
  /\ queue # <<>>
  /\ queue' = Tail(queue)

\* The automation's alert is in its cooldown: the failure is not reported.
Suppress(w) ==
  /\ Take(w)
  /\ Throttled(Head(queue))
  /\ UNCHANGED <<alert, thread, pool, failures, burst, told>>

StartSend(w) ==
  /\ Take(w)
  /\ ~Throttled(Head(queue))
  /\ thread' = [thread EXCEPT ![w] = At("send", Head(queue), FALSE)]
  /\ burst' = [burst EXCEPT ![Head(queue)] = @ + 1]
  /\ UNCHANGED <<alert, pool, failures, told>>

\* send_whatsapp_alert and send_email_alert: each channel that is asked for may
\* be unconfigured, refuse, time out or take the alert.
Answer(w) ==
  /\ thread[w].pc = "send"
  /\ \E ok \in BOOLEAN : thread' = [thread EXCEPT ![w] = At("mark", @.auto, ok)]
  /\ UNCHANGED <<alert, queue, pool, failures, burst, told>>

\* An attribute of an expired, detached entity: the job dies in its Future.
Raise(w) ==
  /\ Faults
  /\ Take(w)
  /\ UNCHANGED <<alert, thread, pool, failures, burst, told>>

\* The entry evicted from a full table: the oldest, also the one about to be
\* marked.
Evicted ==
  IF Cardinality(Tracked) < MaxTracked THEN {{}}
  ELSE {{b} : b \in {b \in Tracked : \A c \in Tracked : alert[c].age <= alert[b].age}}

\* The channels have answered, whatever they answered: _mark_sent.
Mark(w) ==
  /\ thread[w].pc = "mark"
  /\ LET a == thread[w].auto
     IN  \E out \in Evicted :
           alert' = [b \in Automation |->
             CASE b = a -> Entry(Saturate((IF a \in out THEN 0 ELSE alert[a].count) + 1, Most), 0)
               [] b \in out \ {a} -> Untracked
               [] OTHER -> alert[b]]
  /\ thread' = [thread EXCEPT ![w] = Free]
  /\ told' = [told EXCEPT ![thread[w].auto] = thread[w].ok]
  /\ burst' = [b \in Automation |->
                 IF alert'[b] = Untracked THEN Cardinality(Dispatching(b)) ELSE burst[b]]
  /\ UNCHANGED <<queue, pool, failures>>

\* Time passes for every entry.
Tick ==
  /\ \E a \in Automation : alert[a].age < Longest
  /\ alert' = [a \in Automation |-> [alert[a] EXCEPT !.age = Saturate(@ + 1, Longest)]]
  /\ burst' = [a \in Automation |->
                 IF alert'[a].age >= Cooldown(alert[a].count) THEN Cardinality(Dispatching(a)) ELSE burst[a]]
  /\ UNCHANGED <<queue, thread, pool, failures, told>>

\* shutdown_notification_executor: what was not begun is cancelled.
Shutdown ==
  /\ pool = "open"
  /\ pool' = "shut"
  /\ queue' = <<>>
  /\ UNCHANGED <<alert, thread, failures, burst, told>>

Dispatch(w) == Suppress(w) \/ StartSend(w) \/ Raise(w)

Next ==
  \/ \E a \in Automation : Failure(a) \/ Success(a)
  \/ \E w \in Threads : Dispatch(w) \/ Answer(w) \/ Mark(w)
  \/ Tick \/ Shutdown

Spec == Init /\ [][Next]_vars

\* The pool's threads run, sends have time limits, and time passes.
Fairness ==
  /\ WF_vars(Tick)
  /\ \A w \in Threads : WF_vars(Suppress(w) \/ StartSend(w)) /\ WF_vars(Answer(w)) /\ WF_vars(Mark(w))

LiveSpec == Spec /\ Fairness
-----------------------------------------------------------------------------
\* Check and mark do not share a lock, so several failures may pass the check
\* together, but never more than the pool has threads: until its cooldown runs
\* out an automation has no further alert.
BurstBounded == \A a \in Automation : burst[a] <= Cardinality(Threads)

\* The count that chooses the tier follows the failures since the last
\* success, up to the marks of alerts that were queued or being sent when it
\* came.
CountFollowsFailures ==
  \A a \in Automation :
    alert[a].count <= failures[a] + Cardinality(Threads) + QueueBound

\* An automation that keeps failing keeps being reported: no sequence of
\* suppressions, marks, evictions and successes silences it for good.
KeepsAlerting ==
  \A a \in Automation :
    []<>(\E i \in DOMAIN queue : queue[i] = a) => []<>(Dispatching(a) # {})
-----------------------------------------------------------------------------
(* What the repository says and the program does not do.                   *)

\* notifications.py:9: one alert per automation and cooldown.
OneAlertPerWindow == \A a \in Automation : burst[a] <= 1

\* notifications.py:118: the mark records an alert that was sent.
CooldownMeansTold == \A a \in Automation : alert[a].count > 0 => told[a]

\* worker.py:697: a success zeroes the count of consecutive failures.
CountIsConsecutive == \A a \in Automation : alert[a].count <= failures[a]

\* notifications.py:10 and 52-54: the tier of a cooldown is that of the
\* consecutive failures.
EscalatesWithFailures ==
  \A a \in Automation : Throttled(a) => alert[a].age < Cooldown(failures[a])
=============================================================================
