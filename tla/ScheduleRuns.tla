---------------------------- MODULE ScheduleRuns ----------------------------
(***************************************************************************)
(* From the schedule a client sends to the starts of the automation, and   *)
(* what the preview says of them: normalisation (schemas/common.py), jobs  *)
(* and the window of intervals (services/scheduler_runtime.py), and        *)
(* preview_next_runs, which never asks the scheduler.                      *)
(*                                                                         *)
(*   stored  the schedule column: normalised when it was saved through the *)
(*           API, as it is in a row of an earlier version                  *)
(*   jobs    the job store: job -> the minute it is due                    *)
(*   shown   the runs of the last preview that are still to come           *)
(*   now     the minute, from the first one of a Monday                    *)
(*                                                                         *)
(* Whatever happens within a minute happens after it has begun, when its   *)
(* due jobs have run.  Reloads that overlap are SchedulerReload's matter.  *)
(***************************************************************************)
EXTENDS Integers, FiniteSets, Sequences

CONSTANTS
  Day,             \* minutes of a day
  Eight, Hour,     \* the fallbacks: 08:00, and sixty minutes
  Months,          \* days of the months, in turn
  Look,            \* days the preview looks ahead
  Count,           \* runs it lists
  Offset,          \* what UTC is ahead of Brazil
  None, Bad,       \* an absent field, a field with a value of a wrong type or range
  Refused,
  Form,            \* what clients send
  OldRow,          \* what rows of an earlier version hold
  LastMinute             \* bound: the last minute

CalendarAssumption ==
  /\ Day \in Nat \ {0} /\ Eight \in 0..(Day - 1) /\ Hour \in 1..Day
  /\ Months \in Nat \X Nat /\ Months[1] > 0 /\ Look \in Nat /\ Count \in Nat \ {0}
  /\ Offset \in Nat /\ LastMinute \in Nat

VARIABLES stored, jobs, shown, now

vars == <<stored, jobs, shown, now>>

Weekday(t) == (t \div Day) % 7                 \* Monday is 0
Slot(t) == t % Day
DayOfMonth(t) ==
  LET d == (t \div Day) % (Months[1] + Months[2])
  IN  IF d < Months[1] THEN d + 1 ELSE d - Months[1] + 1

\* The UI counts from Sunday, the scheduler from Monday.
PythonDays(days) == {(d + 6) % 7 : d \in days}
-----------------------------------------------------------------------------
\* Normalisation.  Strict at the API; lenient, with fallbacks, when a row is read.

Workdays == 1..5
Given(v) == v \notin {None, Bad, {}}

Or(good, v, strict, fallback) ==
  IF good THEN v ELSE IF strict THEN Refused ELSE fallback

Times(f, strict) == Or(Given(f.times), f.times, strict, {Eight})

Legacy(f, strict) ==
  [f EXCEPT !.type = "weekly", !.times = Times(f, strict),
            !.days = IF Given(f.days) THEN f.days ELSE Or(f.days # Bad, Workdays, strict, Workdays)]

Weekly(f, strict) ==
  [f EXCEPT !.times = Times(f, strict), !.days = Or(Given(f.days), f.days, strict, Workdays)]

Monthly(f, strict) ==
  [f EXCEPT !.times = Times(f, strict), !.mdays = Or(Given(f.mdays), f.mdays, strict, {1})]

Optional(v, strict) == Or(v # Bad, v, strict, None)

Interval(f, strict) ==
  LET from == Optional(f.from, strict)
      till == Optional(f.till, strict)
      anchor == Optional(f.anchor, strict)
      upside == {from, till} \cap {None, Refused} = {} /\ from > till
  IN  [f EXCEPT !.step = Or(f.step \notin {None, Bad}, f.step, strict, Hour),
                !.from = from, !.till = Or(~upside, till, strict, None),
                !.days = Optional(f.days, strict),
                !.anchor = IF anchor = None THEN from ELSE anchor]

Once(f, strict) == [f EXCEPT !.at = Or(@ # None, @, strict, [form |-> "iso", time |-> now + Hour])]

Cron(f, strict) ==
  [f EXCEPT !.cron = Or(@ \notin {None, <<>>}, @, strict, <<[days |-> 1..5, slot |-> Eight]>>)]

Manual(f) == [x \in DOMAIN f |-> IF x = "type" THEN "manual" ELSE None]

\* normalize_schedule_payload.  Every plan has every field, None where its type has none.
Normal(f, strict) ==
  CASE f.type = "legacy" -> Legacy(f, strict)
    [] f.type = "daily" -> [f EXCEPT !.times = Times(f, strict)]
    [] f.type = "weekly" -> Weekly(f, strict)
    [] f.type = "monthly" -> Monthly(f, strict)
    [] f.type = "interval" -> Interval(f, strict)
    [] f.type = "once" -> Once(f, strict)
    [] f.type = "cron" -> Cron(f, strict)
    [] OTHER -> IF strict /\ f.type # "manual" THEN [f EXCEPT !.type = Refused] ELSE Manual(f)

Accepted(f) == LET n == Normal(f, TRUE) IN \A x \in DOMAIN n : n[x] # Refused

\* parse_schedule: every reader normalises what the row holds.
Plan == Normal(stored, FALSE)
-----------------------------------------------------------------------------

\* first_interval_candidate
FirstCandidate(t, step, anchor) ==
  LET today == (t - Slot(t)) + anchor
  IN  IF anchor = None THEN t + step
      ELSE IF today > t THEN today
      ELSE today + ((t - today) \div step + 1) * step

\* The days on which a plan with times runs.
OnDay(p, t) ==
  CASE p.type = "daily" -> TRUE
    [] p.type = "weekly" -> Weekday(t) \in PythonDays(p.days)
    [] p.type = "monthly" -> DayOfMonth(t) \in p.mdays

Fires(expr, t) == Weekday(t) \in expr.days /\ Slot(t) = expr.slot
Ahead == (now + 1)..(now + Look * Day)

Windowed(p) == p.from # None \/ p.till # None \/ p.days \notin {None, {}}
InHours(p, t) == (p.from # None => Slot(t) >= p.from) /\ (p.till # None => Slot(t) <= p.till)


\* _interval_window_blocks_trigger
Blocks(p, t) ==
  /\ p.type = "interval" /\ Windowed(p)
  /\ \/ p.days # None /\ Weekday(t) \notin PythonDays(p.days)
     \/ ~InHours(p, t)

\* The first Count of a set of pairs <<minute, line>>, in order.
Listed(S) ==
  LET Before(x) == {y \in S : y[1] < x[1] \/ (y[1] = x[1] /\ y[2] < x[2])}
      n == Cardinality(S)
  IN  [i \in 1..(IF n < Count THEN n ELSE Count) |->
         (CHOOSE x \in S : Cardinality(Before(x)) = i - 1)[1]]

PreviewPeriodic(p) ==
  {<<t, 1>> : t \in {u \in Ahead : OnDay(p, u) /\ Slot(u) \in p.times}}

PreviewInterval(p) ==
  LET first == FirstCandidate(now, p.step, p.anchor)
      days == IF Given(p.days) THEN PythonDays(p.days) ELSE 0..6
  IN  {<<t, 1>> : t \in {u \in first..(first + Look * Day - 1) :
         (u - first) % p.step = 0 /\ (Windowed(p) => Weekday(u) \in days /\ InHours(p, u))}}

\* parse_dt_br understands every format; the minute that has begun counts.
PreviewOnce(p) ==
  LET t == IF p.at.form = "utc" THEN p.at.time - Offset ELSE p.at.time
  IN  IF t >= now THEN {<<t, 1>>} ELSE {}

\* An expression that cannot be read is left out.
PreviewCron(p) ==
  {<<t, i>> \in Ahead \X DOMAIN p.cron : p.cron[i] # Bad /\ Fires(p.cron[i], t)}

\* preview_next_runs
Preview(p) ==
  Listed(CASE p.type = "manual" -> {}
           [] p.type = "cron" -> PreviewCron(p)
           [] p.type = "interval" -> PreviewInterval(p)
           [] p.type = "once" -> PreviewOnce(p)
           [] OTHER -> PreviewPeriodic(p))
-----------------------------------------------------------------------------
Nothing == [j \in {} |-> 0]
SetMin(S) == CHOOSE x \in S : \A y \in S : x <= y

\* The minutes at which a job with a cron trigger is due: one job per time, or
\* per expression up to the first that cannot be read.
Due(p, j) ==
  IF p.type = "cron" THEN {t \in Ahead : Fires(p.cron[j[2]], t)}
  ELSE {t \in Ahead : OnDay(p, t) /\ Slot(t) = j[2]}

Jobs(p) ==
  CASE p.type = "manual" -> {}
    [] p.type = "cron" -> {<<"cron", i>> : i \in {k \in DOMAIN p.cron : \A m \in 1..k : p.cron[m] # Bad}}
    [] p.type = "interval" -> {<<"interval", 0>>}
    [] p.type = "once" -> IF p.at.form # "br" /\ p.at.time > now THEN {<<"once", 0>>} ELSE {}
    [] OTHER -> {<<p.type, m>> : m \in p.times}

\* _register_schedule: a plain interval takes over the time its job had.
FirstRun(p, j, old) ==
  CASE j[1] = "interval" ->
         IF p.anchor = None /\ j \in DOMAIN old /\ old[j] > now THEN old[j]
         ELSE FirstCandidate(now, p.step, p.anchor)
    [] j[1] = "once" -> p.at.time
    [] OTHER -> SetMin(Due(p, j))

Registered(p) == [j \in Jobs(p) |-> FirstRun(p, j, jobs)]

\* The minute's due jobs have run.
Quiet == \A j \in DOMAIN jobs : jobs[j] # now

Init ==
  /\ stored \in OldRow
  /\ now = 0 /\ shown = <<>>
  /\ jobs = [j \in Jobs(Plan) |-> FirstRun(Plan, j, Nothing)]

\* A client saves a schedule that is accepted; the reload follows.
Save(f) ==
  /\ Quiet /\ Accepted(f)
  /\ stored' = Normal(f, TRUE)
  /\ jobs' = Registered(Normal(Normal(f, TRUE), FALSE))
  /\ shown' = <<>>
  /\ UNCHANGED now

\* A reload for another automation's sake, or a restart.
Reload ==
  /\ Quiet
  /\ jobs' = Registered(Plan)
  /\ UNCHANGED <<stored, shown, now>>

\* A client looks at the next runs.
Show ==
  /\ Quiet
  /\ shown' = Preview(Plan)
  /\ UNCHANGED <<stored, jobs, now>>

Starts(j) == jobs[j] = now /\ ~Blocks(Plan, now)

\* A due job: its trigger gives the next time, the wrapper may leave it at that.
Fire(j) ==
  /\ j \in DOMAIN jobs /\ jobs[j] = now
  /\ jobs' = IF j[1] = "once" THEN [i \in DOMAIN jobs \ {j} |-> jobs[i]]
             ELSE [jobs EXCEPT ![j] = IF j[1] = "interval" THEN @ + Plan.step ELSE SetMin(Due(Plan, j))]
  /\ shown' = IF Starts(j) /\ shown # <<>> /\ Head(shown) = now THEN Tail(shown) ELSE shown
  /\ UNCHANGED <<stored, now>>

Tick ==
  /\ Quiet /\ now < LastMinute
  /\ now' = now + 1
  /\ UNCHANGED <<stored, jobs, shown>>

Next ==
  \/ \E f \in Form : Save(f)
  \/ Reload \/ Show \/ Tick
  \/ \E j \in DOMAIN jobs : Fire(j)

Spec == Init /\ [][Next]_vars
-----------------------------------------------------------------------------
\* Every job is due now or later, and no more runs are shown than asked for.
TypeOK ==
  /\ now \in 0..LastMinute /\ Len(shown) <= Count
  /\ \A j \in DOMAIN jobs : jobs[j] >= now

\* What was accepted means the same to everyone who reads it back: the lenient
\* reading changes nothing and needs no fallback.
ReadBack == stored \notin OldRow => Plan = stored

\* The plans whose preview says what their jobs will do.  A plain interval is shown from
\* the moment of the request, not from the job's due time; a step that does not divide
\* the day leaves its anchor behind; a cadence that goes on before the anchor of the next
\* day is neither listed then nor taken up by a reload of that night; to the preview an
\* empty list of days is no list, to the window it is no day; a single run is listed in
\* its own minute and in every format, but registered ahead of its minute and in one
\* format; and after an expression that cannot be read none is registered, though all
\* are listed.
Foretold(p) ==
  /\ p.type # "once"
  /\ p.type = "cron" => \A i \in DOMAIN p.cron : p.cron[i] # Bad
  /\ p.type = "interval" => /\ p.anchor # None /\ p.from # None /\ p.from >= p.anchor
                            /\ Day % p.step = 0 /\ p.days # {}

\* A run that was shown of a plan that can be foretold comes: its minute does not
\* pass without a start (preview_next_runs against the jobs, through reloads).
ShownComes == Foretold(Plan) /\ shown # <<>> /\ Quiet => Head(shown) > now

\* Nothing of such a plan starts before the first run that was shown, nor between two
\* of them.
NoneUnshown ==
  [][\A j \in DOMAIN jobs :
       Foretold(Plan) /\ Starts(j) /\ shown # <<>> /\ jobs' # jobs => Head(shown) = now]_vars

\* A row of the first version whose days cannot be read runs every day, as the
\* warning of _normalize_legacy_days says.
FallsBackToAllDays == stored.type = "legacy" /\ stored.days = Bad => Plan.days = 0..6
=============================================================================
