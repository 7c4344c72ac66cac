------------------------------- MODULE SqlStage -------------------------------
(***************************************************************************)
(* One statement against Oracle as validar_sql_oracle.py and               *)
(* medir_sql_oracle.py run it: connect_within, then run_with_cancel of     *)
(* oracle_session.py, which runs the call in a thread and cancels it from  *)
(* the caller's; a dropped session is tried again. Seconds is --timeout,   *)
(* connection and call share it.                                           *)
(*                                                                         *)
(*   n         the attempt, of measurement run: both count connections     *)
(*   began     when the attempt began, pc: where its caller is             *)
(*   thread[n] the thread of the call: none, at work (its call is          *)
(*             running), finishing (fn is over), done                      *)
(*   saw[n]    how the call ended, for whoever reads the outcome           *)
(*   gone[n]   state["abandoned"]                                          *)
(*   status    what the last attempt is reported as                        *)
(*   until     when the caller stops waiting, spent: when it was all over  *)
(***************************************************************************)
EXTENDS OracleSession

CONSTANTS
  Attempts,    \* MAX_ATTEMPTS of a statement
  Backoff,     \* RETRY_BACKOFF_SECONDS; medir_sql_oracle has none: 0
  Runs,        \* --runs of medir_sql_oracle; 1 for validar_sql_oracle
  Interrupts   \* BOOLEAN: Ctrl+C

StageAssumption ==
  /\ Attempts \in Nat \ {0} /\ Backoff \in Nat /\ Runs \in Nat \ {0}
  /\ Links = Attempts * Runs /\ Interrupts \in BOOLEAN

VARIABLES n, tries, runs, began, pc, thread, saw, gone, status, until, spent
own == <<n, tries, runs, began, pc, thread, saw, gone, status, until, spent>>
vars == <<now, link, closes, own>>

TypeOK ==
  /\ SessionTypeOK
  /\ n \in 1..Links /\ tries \in 1..Attempts /\ runs \in 1..Runs /\ began \in 0..MaxNow
  /\ pc \in {"connect", "wait", "cancel", "grace", "judge", "close", "sleep", "done"}
  /\ thread \in [1..Links -> {"none", "at work", "finishing", "done"}]
  /\ saw \in [1..Links -> {"none", "ok", "drop", "error"}]
  /\ gone \in [1..Links -> BOOLEAN]
  /\ status \in {"none", "ok", "drop", "error", "timeout", "interrupted"}
  /\ until \in Nat /\ spent \in 0..MaxNow

Init ==
  /\ SessionInit
  /\ n = 1 /\ tries = 1 /\ runs = 1 /\ began = 0 /\ pc = "connect"
  /\ thread = [k \in 1..Links |-> "none"] /\ saw = [k \in 1..Links |-> "none"]
  /\ gone = [k \in 1..Links |-> FALSE]
  /\ status = "none" /\ until = 0 /\ spent = 0
-----------------------------------------------------------------------------
Another(links) ==
  /\ n' = n + 1 /\ pc' = "connect" /\ began' = now
  /\ link' = [links EXCEPT ![n + 1].net = "connecting"]

\* Only a dropped session is worth another attempt.
Repeated(s) == s = "drop" /\ tries < Attempts

\* _oracle_stage_with_retry, _run_with_retry and the loop of measure.
Decide(s, links) ==
  /\ status' = s
  /\ \/ Repeated(s) /\ Backoff = 0
        /\ Another(links) /\ tries' = tries + 1
        /\ UNCHANGED <<runs, until, spent>>
     \/ Repeated(s) /\ Backoff > 0
        /\ pc' = "sleep" /\ until' = now + Backoff * tries /\ link' = links
        /\ UNCHANGED <<n, tries, runs, began, spent>>
     \/ ~Repeated(s) /\ runs < Runs
        /\ Another(links) /\ tries' = 1 /\ runs' = runs + 1
        /\ UNCHANGED <<until, spent>>
     \/ ~Repeated(s) /\ runs = Runs
        /\ pc' = "done" /\ spent' = now /\ link' = links
        /\ UNCHANGED <<n, tries, runs, began, until>>

Awake ==
  /\ pc = "sleep" /\ now >= until
  /\ Another(link) /\ tries' = tries + 1
  /\ UNCHANGED <<now, closes, runs, thread, saw, gone, status, until, spent>>

\* The connection is there: run_with_cancel starts the thread of the call.
Connected ==
  /\ pc = "connect" /\ link[n].net = "open"
  /\ link' = [link EXCEPT ![n].call = "running"]
  /\ thread' = [thread EXCEPT ![n] = "at work"]
  /\ pc' = "wait" /\ until' = began + Seconds
  /\ UNCHANGED <<now, closes, n, tries, runs, began, saw, gone, status, spent>>

ConnectFailed ==
  /\ pc = "connect" /\ link[n].net \in {"drop", "error"}
  /\ Decide(link[n].net, link)
  /\ UNCHANGED <<now, closes, thread, saw, gone>>

ConnectTimesOut ==
  /\ pc = "connect" /\ link[n].net = "connecting" /\ now >= began + Seconds
  /\ Decide("timeout", [link EXCEPT ![n].left = TRUE])
  /\ UNCHANGED <<now, closes, thread, saw, gone>>
-----------------------------------------------------------------------------
\* The thread: fn returns or raises, a broken call with ORA-01013.
CallEnds(k) ==
  /\ link[k].call \in {"running", "broken"}
  /\ \E s \in IF link[k].call = "broken" THEN {"error"} ELSE {"ok", "drop", "error"} :
       saw' = [saw EXCEPT ![k] = s]
  /\ link' = [link EXCEPT ![k].call = "over"]
  /\ thread' = [thread EXCEPT ![k] = "finishing"]
  /\ UNCHANGED <<now, closes, n, tries, runs, began, pc, gone, status, until, spent>>

LockFree(k) == link[k].cancel # "going"

\* Mutated form: the thread closes its connection in any case.
FinishesOwning(k) ==
  /\ thread[k] = "finishing" /\ LockFree(k)
  /\ thread' = [thread EXCEPT ![k] = "done"]
  /\ link' = [link EXCEPT ![k] = Close(@)]
  /\ closes' = [closes EXCEPT ![k] = @ + 1]
  /\ UNCHANGED <<now, n, tries, runs, began, pc, saw, gone, status, until, spent>>

\* ... and under the lock it is done, and closes a connection its caller has given up.
Finishes(k) ==
  /\ thread[k] = "finishing" /\ LockFree(k)
  /\ thread' = [thread EXCEPT ![k] = "done"]
  /\ link' = [link EXCEPT ![k] = IF gone[k] THEN Close(@) ELSE @]
  /\ closes' = [closes EXCEPT ![k] = IF gone[k] THEN @ + 1 ELSE @]
  /\ UNCHANGED <<now, n, tries, runs, began, pc, saw, gone, status, until, spent>>
-----------------------------------------------------------------------------
\* The thread ended in time: its outcome counts.
InTime ==
  /\ pc = "wait" /\ thread[n] = "done"
  /\ status' = saw[n] /\ pc' = "close"
  /\ UNCHANGED <<now, link, closes, n, tries, runs, began, thread, saw, gone, until, spent>>

\* The deadline: under the lock the call is cancelled, unless it is done.
Deadline ==
  /\ pc = "wait" /\ thread[n] # "done" /\ now >= until
  /\ status' = "timeout"
  /\ link' = [link EXCEPT ![n].cancel = "going", ![n].since = now]
  /\ pc' = "cancel"
  /\ UNCHANGED <<now, closes, n, tries, runs, began, thread, saw, gone, until, spent>>

\* cancel() returns, the lock is free again, and the thread has its grace.
Cancelled ==
  /\ pc = "cancel"
  /\ \E l \in Reached(link[n]) : link' = [link EXCEPT ![n] = l]
  /\ pc' = "grace" /\ until' = now + Grace
  /\ UNCHANGED <<now, closes, n, tries, runs, began, thread, saw, gone, status, spent>>

\* Mutated form: the caller waits until the thread has ended.
GraceEndless ==
  /\ pc = "grace" /\ thread[n] = "done"
  /\ pc' = "judge"
  /\ UNCHANGED <<now, link, closes, n, tries, runs, began, thread, saw, gone, status, until, spent>>

\* The second join is over: the thread has ended, or CANCEL_GRACE_SECONDS have.
GraceOver ==
  /\ pc = "grace" /\ (thread[n] = "done" \/ now >= until)
  /\ pc' = "judge"
  /\ UNCHANGED <<now, link, closes, n, tries, runs, began, thread, saw, gone, status, until, spent>>

\* Under the lock: a thread that is not done is abandoned, and its connection with it.
Judge ==
  /\ pc = "judge"
  /\ gone' = [gone EXCEPT ![n] = thread[n] # "done"]
  /\ pc' = "close"
  /\ UNCHANGED <<now, link, closes, n, tries, runs, began, thread, saw, status, until, spent>>

\* The finally of _oracle_stage and _attempt.
CloseIt ==
  /\ pc = "close"
  /\ Decide(status, [link EXCEPT ![n] = IF gone[n] THEN @ ELSE Close(@)])
  /\ closes' = [closes EXCEPT ![n] = IF gone[n] THEN @ ELSE @ + 1]
  /\ UNCHANGED <<now, thread, saw, gone>>

\* Ctrl+C in a join of the caller: the same finally, with abandoned still False.
Interrupt ==
  /\ Interrupts /\ pc \in {"wait", "grace"}
  /\ link' = [link EXCEPT ![n] = Close(@)]
  /\ closes' = [closes EXCEPT ![n] = @ + 1]
  /\ status' = "interrupted" /\ pc' = "done" /\ spent' = now
  /\ UNCHANGED <<now, n, tries, runs, began, thread, saw, gone, until>>
-----------------------------------------------------------------------------
Due ==
  \/ pc = "connect" /\ (link[n].net # "connecting" \/ now >= began + Seconds)
  \/ pc = "wait" /\ (thread[n] = "done" \/ now >= until)
  \/ pc \in {"judge", "close"}
  \/ pc = "grace" /\ (thread[n] = "done" \/ now >= until)
  \/ pc = "sleep" /\ now >= until
  \/ \E k \in 1..Links : Held(k) \/ (thread[k] = "finishing" /\ LockFree(k))

Tick ==
  /\ now < MaxNow /\ ~Due
  /\ now' = now + 1
  /\ UNCHANGED <<link, closes, own>>

Caller ==
  \/ Connected \/ ConnectFailed \/ ConnectTimesOut \/ Awake
  \/ InTime \/ Deadline \/ Cancelled \/ GraceOver \/ Judge \/ CloseIt

Next ==
  \/ Caller \/ Interrupt
  \/ \E k \in 1..Links : CallEnds(k) \/ Finishes(k) \/ (Connector(k) /\ UNCHANGED own)
  \/ Tick

Spec == Init /\ [][Next]_vars
Fairness ==
  /\ WF_vars(Caller) /\ WF_vars(Tick)
  /\ \A k \in 1..Links : WF_vars(Finishes(k)) /\ WF_vars(LateCloses(k) /\ UNCHANGED own)
                         /\ WF_vars(link[k].call = "broken" /\ CallEnds(k))
LiveSpec == Spec /\ Fairness
-----------------------------------------------------------------------------
\* The worst case the comment of DEFAULT_TIMEOUT reckons with: every attempt its
\* deadline and its grace, and the waits between them.
WorstCase ==
  pc = "done" =>
    spent <= Runs * (Attempts * (Seconds + Grace) + (Backoff * Attempts * (Attempts - 1)) \div 2)

\* A thread that was abandoned closes what it has as soon as its call is over, and the
\* caller everything else: when all threads are done nothing is open.
NothingLeaks ==
  pc = "done" =>
    \A k \in 1..Links :
      /\ link[k].net = "open" => thread[k] \in {"at work", "finishing"} /\ gone[k]
      /\ link[k].net = "connecting" => link[k].left

\* Every statement gets its answer, however long its call would take.
Answered == <>(pc = "done")
=============================================================================
