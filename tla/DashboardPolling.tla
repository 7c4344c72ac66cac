--------------------------- MODULE DashboardPolling ---------------------------
(***************************************************************************)
(* hooks/usePolling.ts: one screen that reads an endpoint, at intervals,   *)
(* when its parameters change and when it is asked to, beside a server     *)
(* that answers late, fails, or limits the rate (429). With SkipIfFresh    *)
(* it is the health of useDiagnostics.ts, which another screen may write   *)
(* into the shared cache.                                                  *)
(*                                                                         *)
(*   param    the parameters rendered; effect: their effect is still to run*)
(*   data     what is shown: [param, ver, cached], or Nothing, where       *)
(*            cached says it came from the cache; loading, error           *)
(*   flight   the latest request and one that it superseded: Nothing, or   *)
(*            [param, ver], ver 0 until the server has read                *)
(*   wait     ticks left of the window a 429 opened; timer, queued:        *)
(*            queuedTimerRef, refreshQueued                                *)
(*   cache    resourceCache's entry: [ver, fresh]                          *)
(*   server   the version of what the server would answer                  *)
(*   left     changes and failures still to come                           *)
(***************************************************************************)
EXTENDS Integers

CONSTANTS
  Param, Nothing,
  Interval,       \* BOOLEAN: intervalMs > 0 (useAsyncResource has none)
  SkipIfFresh,    \* BOOLEAN: with a cacheKey that another screen writes
  StaleCalls,     \* BOOLEAN: refresh may be called after the screen is gone
  Slow,           \* BOOLEAN: an answer may take longer than the interval
  Window,         \* retryAfter of a 429, in ticks
  MaxVersion, MaxFaults   \* bounds: versions; renders, failures and limits

PollingAssumption ==
  /\ Param # {} /\ Window \in Nat \ {0} /\ MaxVersion \in Nat \ {0} /\ MaxFaults \in Nat
  /\ {Interval, SkipIfFresh, StaleCalls, Slow} \subseteq BOOLEAN

VARIABLES mounted, param, effect, data, loading, error, flight, wait, timer, queued,
          cache, server, left
shown == <<data, loading, error>>
limit == <<wait, timer, queued>>
vars == <<mounted, param, effect, shown, flight, limit, cache, server, left>>

Slot == {"latest", "old"}
Answer == [param : Param, ver : 1..MaxVersion, cached : BOOLEAN]

TypeOK ==
  /\ {mounted, effect, loading, timer, queued, cache.fresh} \subseteq BOOLEAN
  /\ param \in Param /\ data \in Answer \cup {Nothing}
  /\ error \in {"none", "limited", "failed"} /\ wait \in 0..Window
  /\ flight \in [Slot -> [param : Param, ver : 0..MaxVersion] \cup {Nothing}]
  /\ cache.ver \in 0..MaxVersion /\ server \in 1..MaxVersion /\ left \in 0..MaxFaults

CachedReading == [param |-> param, ver |-> cache.ver, cached |-> TRUE]
NoFlight == [s \in Slot |-> Nothing]

Init ==
  /\ mounted = TRUE /\ param \in Param /\ effect = TRUE
  /\ data = Nothing /\ loading = TRUE /\ error = "none" /\ flight = NoFlight
  /\ wait = 0 /\ timer = FALSE /\ queued = FALSE
  /\ cache = [ver |-> 0, fresh |-> FALSE] /\ server = 1 /\ left = MaxFaults

\* A 429 holds the next calls back; only the latest request may be shown.
Blocked == wait > 0
Taken(slot) == mounted /\ slot = "latest"
-----------------------------------------------------------------------------
\* refresh(): queue behind the window, or take what the cache has, or request.
Queue ==
  /\ Blocked
  /\ loading' = (loading /\ ~mounted) /\ queued' = TRUE /\ timer' = (timer \/ ~queued)
  /\ UNCHANGED <<data, error, flight, wait>>

TakeCached ==
  /\ ~Blocked /\ SkipIfFresh /\ cache.fresh /\ mounted
  /\ timer' = FALSE /\ queued' = FALSE
  /\ data' = CachedReading /\ error' = "none" /\ loading' = FALSE
  /\ UNCHANGED <<flight, wait>>

Request ==
  /\ ~Blocked /\ ~(SkipIfFresh /\ cache.fresh /\ mounted)
  /\ timer' = FALSE /\ queued' = FALSE
  /\ flight' = [latest |-> [param |-> param, ver |-> 0],
                old |-> IF flight["latest"] = Nothing THEN flight["old"] ELSE flight["latest"]]
  /\ UNCHANGED <<shown, wait>>

Refresh == Queue \/ TakeCached \/ Request

\* Who calls it: the effect of new parameters, the interval, the queued timer, a caller.
Effect ==
  /\ mounted /\ effect /\ effect' = FALSE /\ Refresh
  /\ UNCHANGED <<mounted, param, cache, server, left>>

IntervalTick ==
  /\ mounted /\ Interval /\ ~effect /\ (Slow \/ flight["latest"] = Nothing)
  /\ Refresh
  /\ UNCHANGED <<mounted, param, effect, cache, server, left>>

QueuedTimer ==
  /\ timer /\ ~Blocked /\ Refresh
  /\ UNCHANGED <<mounted, param, effect, cache, server, left>>

Asked ==
  /\ mounted \/ StaleCalls
  /\ left > 0 /\ left' = left - 1 /\ Refresh
  /\ UNCHANGED <<mounted, param, effect, cache, server>>

\* The server reads for a request, at some moment after it was sent.
Serve(slot) ==
  /\ flight[slot] # Nothing /\ flight[slot].ver = 0
  /\ flight' = [flight EXCEPT ![slot].ver = server]
  /\ UNCHANGED <<mounted, param, effect, shown, limit, cache, server, left>>

\* An answer is shown if it is the latest's, and dropped otherwise.
Answered(slot) ==
  /\ flight[slot] # Nothing /\ flight[slot].ver > 0
  /\ flight' = [flight EXCEPT ![slot] = Nothing]
  /\ IF Taken(slot)
     THEN /\ data' = [param |-> flight[slot].param, ver |-> flight[slot].ver, cached |-> FALSE] /\ error' = "none" /\ loading' = FALSE /\ wait' = 0
          /\ cache' = IF SkipIfFresh THEN [ver |-> flight[slot].ver, fresh |-> TRUE] ELSE cache
     ELSE UNCHANGED <<shown, wait, cache>>
  /\ UNCHANGED <<mounted, param, effect, timer, queued, server, left>>

\* It fails, or is limited: what was shown stays.
Rejected(slot) == \E why \in {"failed", "limited"} :
  /\ left > 0 /\ left' = left - 1
  /\ flight[slot] # Nothing /\ flight' = [flight EXCEPT ![slot] = Nothing]
  /\ IF Taken(slot)
     THEN /\ error' = why /\ loading' = FALSE
          /\ wait' = IF why = "limited" THEN Window ELSE wait
     ELSE UNCHANGED <<error, loading, wait>>
  /\ UNCHANGED <<mounted, param, effect, data, timer, queued, cache, server>>

Tick ==
  /\ wait > 0 /\ wait' = wait - 1
  /\ UNCHANGED <<mounted, param, effect, shown, flight, timer, queued, cache, server, left>>

\* The screen renders with other parameters; their effect runs later.
Render(p) ==
  /\ mounted /\ p # param /\ left > 0 /\ left' = left - 1
  /\ param' = p /\ effect' = TRUE
  /\ UNCHANGED <<mounted, shown, flight, limit, cache, server>>

\* The screen goes: the request is aborted, the timers are cleared. Another opens,
\* seeded from the cache.
Unmount ==
  /\ mounted /\ mounted' = FALSE /\ flight' = NoFlight /\ timer' = FALSE /\ effect' = FALSE
  /\ UNCHANGED <<param, shown, wait, queued, cache, server, left>>

Mount ==
  /\ ~mounted /\ mounted' = TRUE /\ effect' = TRUE
  /\ data' = IF SkipIfFresh /\ cache.fresh THEN CachedReading ELSE Nothing
  /\ loading' = (data' = Nothing) /\ error' = "none" /\ flight' = NoFlight
  /\ wait' = 0 /\ timer' = FALSE /\ queued' = FALSE
  /\ left > 0 /\ left' = left - 1
  /\ UNCHANGED <<param, cache, server>>

\* What is read changes; another screen writes what it read into the cache; it ages.
Change ==
  /\ server < MaxVersion /\ server' = server + 1
  /\ UNCHANGED <<mounted, param, effect, shown, flight, limit, cache, left>>

OtherScreen ==
  /\ SkipIfFresh /\ cache' = [ver |-> server, fresh |-> TRUE]
  /\ left > 0 /\ left' = left - 1
  /\ UNCHANGED <<mounted, param, effect, shown, flight, limit, server>>

Expire ==
  /\ cache.fresh /\ cache' = [cache EXCEPT !.fresh = FALSE]
  /\ UNCHANGED <<mounted, param, effect, shown, flight, limit, server, left>>
-----------------------------------------------------------------------------
Next ==
  \/ Effect \/ IntervalTick \/ QueuedTimer \/ Asked
  \/ \E slot \in Slot : Serve(slot) \/ Answered(slot) \/ Rejected(slot)
  \/ Tick \/ (\E p \in Param : Render(p)) \/ Unmount \/ Mount \/ Change \/ OtherScreen \/ Expire

Spec == Init /\ [][Next]_vars

\* Effects and timers run, the server answers, and time passes.
Fairness ==
  /\ WF_vars(Effect) /\ WF_vars(IntervalTick) /\ WF_vars(QueuedTimer) /\ WF_vars(Tick) /\ WF_vars(Expire)
  /\ \A slot \in Slot : WF_vars(Serve(slot)) /\ WF_vars(Answered(slot))
-----------------------------------------------------------------------------
\* A screen at rest without an error shows what its parameters ask for, whatever
\* answers came late and in which order.
RestIsCurrent ==
  mounted /\ ~effect /\ flight["latest"] = Nothing /\ ~Blocked /\ ~queued /\ error = "none"
    => data # Nothing /\ data.param = param /\ ~loading

\* The screen never goes back to an older reading of the same thing, unless what it shows
\* came from the cache: taking that does not supersede the request still on its way.
NeverBackward ==
  [][mounted /\ mounted' /\ data # Nothing /\ data' # Nothing /\ data.param = data'.param
       => data'.ver >= data.ver \/ data.cached]_vars

\* A screen that is gone leaves no timer and no request behind.
GoneIsGone == ~mounted => ~timer /\ flight = NoFlight

\* A refresh that was asked for within a window is made, and no screen loads for ever.
RefreshIsMade == (timer ~> ~timer) /\ (loading /\ mounted ~> ~loading \/ ~mounted)

\* A screen that stays shows what the server has, after any failures and limits.
Converges == <>[]mounted => <>[](data # Nothing /\ data.param = param /\ data.ver = server)
=============================================================================
