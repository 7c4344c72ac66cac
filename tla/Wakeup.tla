-------------------------------- MODULE Wakeup --------------------------------
(***************************************************************************)
(* How the worker learns of a queued execution: the API's task_queued_event *)
(* (runtime.py), the long poll of the worker's listener thread with its    *)
(* backoff, wakeup_event, and the main loop that polls with a growing      *)
(* interval when no signal comes (worker.py).  Also the time the loop      *)
(* reports the pool as saturated, which it measures between its looks.     *)
(*                                                                         *)
(*   queue, blocked  rows that may be claimed; rows held by their group    *)
(*   untold          rows committed whose signal is not given yet          *)
(*   signal          task_queued_event; wake: wakeup_event                 *)
(*   listener        [pc, left, backoff]; main: [pc, left]                 *)
(*   interval        current_poll_interval                                 *)
(*   since, reported the loop's saturation_started_at (as ticks ago), and  *)
(*                   what the heartbeat publishes                          *)
(*                                                                         *)
(* Whatever is not a wait takes no time.  History: starved, for how long a *)
(* row could have been claimed and a slot was free; full, for how long the *)
(* pool has been full.                                                     *)
(***************************************************************************)
EXTENDS Naturals

CONSTANTS
  MaxWorkers, Poll, MaxPoll, LongPoll, MinBackoff, MaxBackoff,
  Faults,      \* BOOLEAN: the API may restart, refuse the long poll, lose an answer
  Silent,      \* BOOLEAN: rows may come without a signal: scheduled, or freed by their group
  Never,
  MaxRows,     \* bound: rows queued or running
  Horizon      \* bound: where full stops counting

WakeupAssumption ==
  /\ {MaxWorkers, Poll, MaxPoll, LongPoll, MinBackoff, MaxBackoff} \subseteq Nat \ {0}
  /\ Poll <= MaxPoll /\ MinBackoff <= MaxBackoff
  /\ {Faults, Silent} \subseteq BOOLEAN /\ MaxRows \in Nat \ {0} /\ Horizon \in Nat
  /\ Never \notin Nat

VARIABLES queue, blocked, active, untold, signal, listener, wake, main, interval,
          since, reported, starved, full

rows == <<queue, blocked, active>>
loop == <<main, interval, since, reported>>
vars == <<rows, untold, signal, listener, wake, loop, starved, full>>

Least(m, n) == IF m < n THEN m ELSE n
Less(n) == IF n = 0 THEN 0 ELSE n - 1

TypeOK ==
  /\ {queue, blocked, active} \subseteq 0..MaxRows /\ active <= MaxWorkers
  /\ untold \in 0..MaxRows /\ signal \in BOOLEAN /\ wake \in BOOLEAN
  /\ listener.pc \in {"ask", "parked", "answered", "backoff"}
  /\ listener.left \in 0..(LongPoll + MaxBackoff) /\ listener.backoff \in MinBackoff..MaxBackoff
  /\ main.pc \in {"look", "clear", "wait", "pause"} /\ main.left \in 0..MaxPoll
  /\ interval \in Poll..MaxPoll
  /\ since \in 0..Horizon \cup {Never} /\ reported \in 0..Horizon
  /\ starved \in 0..(MaxPoll + 1) /\ full \in 0..Horizon

Init ==
  /\ queue \in 0..1 /\ blocked = 0 /\ active = 0 /\ untold = 0 /\ signal = FALSE
  /\ listener = [pc |-> "ask", left |-> 0, backoff |-> MinBackoff]
  /\ wake = FALSE /\ main = [pc |-> "look", left |-> 0] /\ interval = Poll
  /\ since = Never /\ reported = 0 /\ starved = 0 /\ full = 0
-----------------------------------------------------------------------------
(* The API.                                                                *)

\* A row is committed; the signal follows, but for those of the scheduler.
Commit ==
  /\ queue + blocked + active < MaxRows /\ untold < MaxRows
  /\ \/ queue' = queue + 1 /\ UNCHANGED blocked
     \/ Silent /\ active > 0 /\ blocked' = blocked + 1 /\ UNCHANGED queue
  /\ \/ untold' = untold + 1
     \/ Silent /\ UNCHANGED untold
  /\ UNCHANGED <<active, signal, listener, wake, loop, starved, full>>

\* Mutated form: the signal is given only to a parked listener.
TriggerIfParked ==
  /\ untold > 0 /\ untold' = untold - 1
  /\ signal' = (signal \/ listener.pc = "parked")
  /\ UNCHANGED <<rows, listener, wake, loop, starved, full>>

\* trigger_worker_wakeup.
Trigger ==
  /\ untold > 0 /\ untold' = untold - 1 /\ signal' = TRUE
  /\ UNCHANGED <<rows, listener, wake, loop, starved, full>>

\* The API restarts: its event and the signals still to be given are gone, the
\* parked request fails.
Restart ==
  /\ Faults /\ signal' = FALSE /\ untold' = 0
  /\ listener' = IF listener.pc \in {"parked", "answered"}
                   THEN [pc |-> "backoff", left |-> listener.backoff,
                         backoff |-> Least(2 * listener.backoff, MaxBackoff)]
                   ELSE listener
  /\ UNCHANGED <<rows, wake, loop, starved, full>>
-----------------------------------------------------------------------------
(* The listener.                                                           *)

\* wait_for_task_signal: the event is awaited and cleared, or time is up.
Ask ==
  /\ listener.pc = "ask"
  /\ listener' = [listener EXCEPT !.pc = "parked", !.left = LongPoll]
  /\ UNCHANGED <<rows, untold, signal, wake, loop, starved, full>>

\* 403, 429 or no connection.
Refused ==
  /\ Faults /\ listener.pc = "ask"
  /\ listener' = [pc |-> "backoff", left |-> listener.backoff,
                  backoff |-> Least(2 * listener.backoff, MaxBackoff)]
  /\ UNCHANGED <<rows, untold, signal, wake, loop, starved, full>>

Signalled ==
  /\ listener.pc = "parked" /\ signal
  /\ signal' = FALSE /\ listener' = [listener EXCEPT !.pc = "answered", !.left = 0]
  /\ UNCHANGED <<rows, untold, wake, loop, starved, full>>

TimedOut ==
  /\ listener.pc = "parked" /\ ~signal /\ listener.left = 0
  /\ listener' = [pc |-> "ask", left |-> 0, backoff |-> MinBackoff]
  /\ UNCHANGED <<rows, untold, signal, wake, loop, starved, full>>

Woken ==
  /\ listener.pc = "answered" /\ wake' = TRUE
  /\ listener' = [pc |-> "ask", left |-> 0, backoff |-> MinBackoff]
  /\ UNCHANGED <<rows, untold, signal, loop, starved, full>>

BackoffOver ==
  /\ listener.pc = "backoff" /\ listener.left = 0
  /\ listener' = [listener EXCEPT !.pc = "ask"]
  /\ UNCHANGED <<rows, untold, signal, wake, loop, starved, full>>
-----------------------------------------------------------------------------
(* The main loop.                                                          *)

\* _track_pool_saturation.
Track(saturated) ==
  IF saturated
    THEN /\ since' = (IF since = Never THEN 0 ELSE since)
         /\ reported' = since'
    ELSE since' = Never /\ reported' = 0

LookFull ==
  /\ main.pc = "look" /\ active >= MaxWorkers /\ Track(TRUE)
  /\ main' = [pc |-> "pause", left |-> Poll]
  /\ UNCHANGED <<rows, untold, signal, listener, wake, interval, starved, full>>

Claim ==
  /\ main.pc = "look" /\ active < MaxWorkers /\ queue > 0 /\ Track(FALSE)
  /\ queue' = queue - 1 /\ active' = active + 1 /\ starved' = 0
  /\ main' = [pc |-> "clear", left |-> 0] /\ interval' = Poll
  /\ UNCHANGED <<blocked, untold, signal, listener, wake, full>>

\* current_poll_interval * 1.5, in whole ticks.
Grown == Least(interval + (interval \div 2), MaxPoll)

ClaimNothing ==
  /\ main.pc = "look" /\ active < MaxWorkers /\ queue = 0 /\ Track(FALSE)
  /\ interval' = Grown /\ main' = [pc |-> "wait", left |-> Grown]
  /\ UNCHANGED <<rows, untold, signal, listener, wake, starved, full>>

\* After a claim the event is cleared, whoever set it meanwhile.
Clear ==
  /\ main.pc = "clear" /\ wake' = FALSE
  /\ main' = [pc |-> "wait", left |-> interval]
  /\ UNCHANGED <<rows, untold, signal, listener, interval, since, reported, starved, full>>

WaitOver ==
  /\ main.pc \in {"wait", "pause"} /\ (wake \/ main.left = 0)
  /\ wake' = FALSE /\ main' = [pc |-> "look", left |-> 0]
  /\ UNCHANGED <<rows, untold, signal, listener, interval, since, reported, starved, full>>

\* A task ends; rows its group held may be claimed, and nobody is told.
End ==
  /\ active > 0 /\ active' = active - 1 /\ full' = 0
  /\ \/ UNCHANGED <<queue, blocked>>
     \/ blocked > 0 /\ blocked' = blocked - 1 /\ queue' = queue + 1
  /\ UNCHANGED <<untold, signal, listener, wake, loop, starved>>
-----------------------------------------------------------------------------
Urgent ==
  \/ untold > 0 \/ main.pc \in {"look", "clear"} \/ wake \/ main.left = 0
  \/ listener.pc \in {"ask", "answered"} \/ listener.left = 0
  \/ listener.pc = "parked" /\ signal

Tick ==
  /\ ~Urgent
  /\ main' = [main EXCEPT !.left = @ - 1] /\ listener' = [listener EXCEPT !.left = @ - 1]
  /\ since' = IF since = Never THEN Never ELSE Least(since + 1, Horizon)
  /\ full' = IF active = MaxWorkers THEN Least(full + 1, Horizon) ELSE 0
  /\ starved' = IF queue > 0 /\ active < MaxWorkers THEN Least(starved + 1, MaxPoll + 1) ELSE 0
  /\ UNCHANGED <<rows, untold, signal, wake, interval, reported>>

Next ==
  \/ Commit \/ Trigger \/ Restart
  \/ Ask \/ Refused \/ Signalled \/ TimedOut \/ Woken \/ BackoffOver
  \/ LookFull \/ Claim \/ ClaimNothing \/ Clear \/ WaitOver \/ End \/ Tick

Spec == Init /\ [][Next]_vars
-----------------------------------------------------------------------------
\* With a reachable API, for rows that are signalled, no wait is
\* longer than the shortest interval: a signal that is cleared unheard came after a claim.
Prompt == starved <= Poll

\* The pool is never reported as saturated for longer than it has been full,
\* nor as saturated after a look found a free slot.
SaturationHonest ==
  /\ reported > 0 /\ active = MaxWorkers => reported <= full
  /\ main.pc \in {"wait", "clear"} => reported = 0
=============================================================================
