------------------------------ MODULE LogStream ------------------------------
(***************************************************************************)
(* The log of one execution on its way to the operators' screens: the      *)
(* reader and the monitor thread of worker.py, its buffer and the flusher  *)
(* thread, the POST handlers of the API, the connections of                *)
(* routers/websocket.py with their replay, and the row in the database.    *)
(*                                                                         *)
(*   said, pipe   lines the process wrote; those not yet drained           *)
(*   kept, row    the monitor's list; what its finaliser stored            *)
(*   buffer, fl   log_buffer; the flusher's step and its batch             *)
(*   handler[h]   a POST in the API: its batch and the targets still to go *)
(*   viewer[v]    a socket: its step, the history and the live lines shown *)
(*   conns, lock  exec_connections and who holds a socket's send lock      *)
(*                                                                         *)
(* A line is its number; End is the line of the exit code.                 *)
(***************************************************************************)
EXTENDS Naturals, Sequences, SequencesExt, FiniteSets

CONSTANTS
  Viewer, Handler,
  NoOne,
  MaxLines,     \* bound: lines the process writes
  MaxKept,      \* MAX_LOG_LINES
  MaxMessage,   \* WS_MAX_MESSAGE_CHARS, in lines
  Unreliable,   \* BOOLEAN: a POST may time out or not arrive
  Held,         \* BOOLEAN: a grandchild may hold stdout open after the end
  Stops         \* BOOLEAN: the worker may be asked to stop

LogStreamAssumption ==
  /\ MaxLines \in Nat /\ MaxKept \in Nat /\ MaxMessage \in Nat \ {0}
  /\ {Unreliable, Held, Stops} \subseteq BOOLEAN /\ NoOne \notin Handler

VARIABLES said, pipe, kept, row, mon, buffer, fl, down, handler, viewer, conns, lock

work == <<said, pipe, kept, row, mon>>
api == <<handler, viewer, conns, lock>>
vars == <<work, buffer, fl, down, api>>

End == 0
Line == 0..MaxLines
Waiting == [pc |-> "wait", batch |-> <<>>, try |-> 0, at |-> NoOne]
Free == [pc |-> "free", batch |-> <<>>, targets |-> <<>>]

TypeOK ==
  /\ said \in 0..MaxLines /\ mon \in {"run", "drain", "write", "done"}
  /\ {pipe, kept, row, buffer} \subseteq Seq(Line)
  /\ fl \in [pc : {"wait", "posted", "again", "off"}, batch : Seq(Line), try : 0..1,
            at : Handler \cup {NoOne}]
  /\ down \in BOOLEAN
  /\ handler \in [Handler -> [pc : {"free", "next", "sending"}, batch : Seq(Line),
                             targets : Seq(Viewer)]]
  /\ viewer \in [Viewer -> [pc : {"off", "replay", "register", "live", "closed", "gone"},
                           read : Seq(Line), history : Seq(Line), live : Seq(Line),
                           early : BOOLEAN]]
  /\ conns \in Seq(Viewer) /\ lock \in [Viewer -> Handler \cup {NoOne}]

Init ==
  /\ said = 0 /\ pipe = <<>> /\ kept = <<>> /\ row = <<>> /\ mon = "run"
  /\ buffer = <<>> /\ fl = Waiting /\ down = FALSE
  /\ handler = [h \in Handler |-> Free]
  /\ viewer = [v \in Viewer |->
       [pc |-> "off", read |-> <<>>, history |-> <<>>, live |-> <<>>, early |-> FALSE]]
  /\ conns = <<>> /\ lock = [v \in Viewer |-> NoOne]

Upto(s, n) == SubSeq(s, 1, IF n < Len(s) THEN n ELSE Len(s))

\* list.remove of a socket, if it is in the list: the first entry goes.
Without(v) ==
  LET First(i) == conns[i] = v /\ \A j \in 1..(i - 1) : conns[j] # v
      i == CHOOSE i \in 1..Len(conns) : First(i)
  IN  IF Contains(conns, v) THEN SubSeq(conns, 1, i - 1) \o SubSeq(conns, i + 1, Len(conns))
      ELSE conns
-----------------------------------------------------------------------------
(* The worker.                                                             *)

\* The process writes a line; the reader thread queues it.
Say ==
  /\ mon = "run" /\ said < MaxLines
  /\ said' = said + 1 /\ pipe' = Append(pipe, said + 1)
  /\ UNCHANGED <<kept, row, mon, buffer, fl, down, api>>

\* _drain_process_output: all of it is broadcast, the list has a cap.
Drained(lines) ==
  /\ kept' = Upto(kept \o lines, MaxKept)
  /\ buffer' = buffer \o lines

\* A turn of the monitor.
Drain ==
  /\ mon = "run" /\ pipe # <<>>
  /\ Drained(pipe) /\ pipe' = <<>>
  /\ UNCHANGED <<said, row, mon, fl, down, api>>

\* The process is over: the reader is awaited for a while and the rest drained.
\* Whoever holds stdout open keeps the reader from its last lines.
Exit ==
  /\ mon = "run" /\ mon' = "drain"
  /\ UNCHANGED <<said, pipe, kept, row, buffer, fl, down, api>>

FinalDrain ==
  /\ mon = "drain" /\ mon' = "write"
  /\ \E n \in (IF Held THEN 0..Len(pipe) ELSE {Len(pipe)}) :
       LET lines == SubSeq(pipe, 1, n)
       IN  /\ kept' = Upto(kept \o lines, MaxKept)
           /\ buffer' = Append(buffer \o lines, End)
           /\ pipe' = SubSeq(pipe, n + 1, Len(pipe))
  /\ UNCHANGED <<said, row, fl, down, api>>

\* The finaliser stores the list.
Finalise ==
  /\ mon = "write" /\ mon' = "done" /\ row' = kept
  /\ UNCHANGED <<said, pipe, kept, buffer, fl, down, api>>

Shutdown ==
  /\ Stops /\ ~down /\ down' = TRUE
  /\ UNCHANGED <<work, buffer, fl, api>>
-----------------------------------------------------------------------------
(* The flusher.  Its loop ends at the first look after the shutdown, but   *)
(* the turn it is in is finished.                                          *)

LoopHead == [Waiting EXCEPT !.pc = IF down THEN "off" ELSE "wait"]

Arrives(h, batch) ==
  handler' = [handler EXCEPT ![h] = [pc |-> "next", batch |-> Upto(batch, MaxMessage), targets |-> conns]]

\* A batch is taken and posted; handlers are a bound: a POST finds a free one.
Flush ==
  /\ fl.pc = "wait"
  /\ IF buffer = <<>>
       THEN down /\ fl' = LoopHead /\ UNCHANGED <<buffer, handler>>
       ELSE \E h \in Handler :
              /\ handler[h].pc = "free" /\ Arrives(h, buffer)
              /\ fl' = [fl EXCEPT !.pc = "posted", !.batch = buffer, !.at = h]
              /\ buffer' = <<>>
  /\ UNCHANGED <<work, down, viewer, conns, lock>>

\* The API is not there: nothing arrives.
FlushFails ==
  /\ Unreliable /\ fl.pc = "wait" /\ buffer # <<>>
  /\ fl' = [Waiting EXCEPT !.pc = "again", !.batch = buffer, !.try = 1] /\ buffer' = <<>>
  /\ UNCHANGED <<work, down, api>>

Retry ==
  /\ fl.pc = "again"
  /\ \E h \in Handler :
       /\ handler[h].pc = "free" /\ Arrives(h, fl.batch)
       /\ fl' = [fl EXCEPT !.pc = "posted", !.at = h]
  /\ UNCHANGED <<work, buffer, down, viewer, conns, lock>>

RetryFails ==
  /\ Unreliable /\ fl.pc = "again" /\ fl' = LoopHead
  /\ UNCHANGED <<work, buffer, down, api>>

\* No answer within two seconds, although the handler goes on.
PostTimesOut ==
  /\ Unreliable /\ fl.pc = "posted"
  /\ fl' = IF fl.try = 0 THEN [fl EXCEPT !.pc = "again", !.try = 1, !.at = NoOne] ELSE LoopHead
  /\ UNCHANGED <<work, buffer, down, api>>
-----------------------------------------------------------------------------
(* The API.                                                                *)

\* _safe_send: the lock of a registered socket is awaited; without one the
\* socket is written at once.
Begin(h) ==
  /\ handler[h].pc = "next" /\ handler[h].targets # <<>>
  /\ LET v == Head(handler[h].targets)
     IN  \/ /\ Contains(conns, v) /\ lock[v] = NoOne
            /\ lock' = [lock EXCEPT ![v] = h]
         \/ ~Contains(conns, v) /\ UNCHANGED lock
  /\ handler' = [handler EXCEPT ![h].pc = "sending"]
  /\ UNCHANGED <<work, buffer, fl, down, viewer, conns>>

\* Sent, or the socket is dead and taken out.
Sent(h) ==
  /\ handler[h].pc = "sending"
  /\ LET v == Head(handler[h].targets)
     IN  /\ handler' = [handler EXCEPT ![h].pc = "next", ![h].targets = Tail(@)]
         /\ lock' = [lock EXCEPT ![v] = IF @ = h THEN NoOne ELSE @]
         /\ IF viewer[v].pc \in {"replay", "register", "live"}
              THEN /\ viewer' = [viewer EXCEPT ![v].live = @ \o handler[h].batch]
                   /\ UNCHANGED conns
              ELSE /\ conns' = Without(v)
                   /\ UNCHANGED viewer
  /\ UNCHANGED <<work, buffer, fl, down>>

\* Every target is done: the answer, for the flusher if it still waits.
Answer(h) ==
  /\ handler[h].pc = "next" /\ handler[h].targets = <<>>
  /\ handler' = [handler EXCEPT ![h] = Free]
  /\ fl' = IF fl.at = h THEN LoopHead ELSE fl
  /\ UNCHANGED <<work, buffer, down, viewer, conns, lock>>

\* Mutated form: registered as soon as it is accepted.
OpenRegisters(v) ==
  /\ viewer[v].pc = "off"
  /\ viewer' = [viewer EXCEPT ![v].pc = "replay", ![v].read = Upto(row, MaxMessage)]
  /\ conns' = Append(conns, v)
  /\ UNCHANGED <<work, buffer, fl, down, handler, lock>>

\* A socket is accepted; a thread reads the row.
Open(v) ==
  /\ viewer[v].pc = "off"
  /\ viewer' = [viewer EXCEPT ![v].pc = "replay", ![v].read = Upto(row, MaxMessage)]
  /\ UNCHANGED <<work, buffer, fl, down, handler, conns, lock>>

Replay(v) ==
  /\ viewer[v].pc = "replay"
  /\ viewer' = [viewer EXCEPT ![v].pc = "register", ![v].history = viewer[v].read]
  /\ UNCHANGED <<work, buffer, fl, down, handler, conns, lock>>

\* early notes, for the properties, that the execution had said nothing yet.
Register(v) ==
  /\ viewer[v].pc = "register"
  /\ viewer' = [viewer EXCEPT ![v].pc = "live", ![v].early = said = 0 /\ mon = "run"]
  /\ conns' = Append(conns, v)
  /\ UNCHANGED <<work, buffer, fl, down, handler, lock>>

\* The operator goes away; then the endpoint's finally block runs.
Close(v) ==
  /\ viewer[v].pc = "live"
  /\ viewer' = [viewer EXCEPT ![v].pc = "closed"]
  /\ UNCHANGED <<work, buffer, fl, down, handler, conns, lock>>

Disconnect(v) ==
  /\ viewer[v].pc = "closed"
  /\ viewer' = [viewer EXCEPT ![v].pc = "gone"]
  /\ conns' = Without(v)
  /\ lock' = [lock EXCEPT ![v] = NoOne]
  /\ UNCHANGED <<work, buffer, fl, down, handler>>
-----------------------------------------------------------------------------
WorkerStep == Drain \/ Exit \/ FinalDrain \/ Finalise
FlusherStep == Flush \/ Retry
HandlerStep(h) == Begin(h) \/ Sent(h) \/ Answer(h)

Next ==
  \/ Say \/ WorkerStep \/ Shutdown
  \/ FlusherStep \/ FlushFails \/ RetryFails \/ PostTimesOut
  \/ \E h \in Handler : HandlerStep(h)
  \/ \E v \in Viewer : Open(v) \/ Replay(v) \/ Register(v) \/ Close(v) \/ Disconnect(v)

Spec == Init /\ [][Next]_vars

\* The threads of the worker and the event loop run on.
Fairness ==
  /\ WF_vars(WorkerStep) /\ WF_vars(FlusherStep)
  /\ \A h \in Handler : WF_vars(HandlerStep(h))

LiveSpec == Spec /\ Fairness
-----------------------------------------------------------------------------
\* A POST under way is one that some handler still works on.
Quiet ==
  /\ mon = "done" /\ buffer = <<>> /\ fl.batch = <<>>
  /\ \A h \in Handler : handler[h].pc = "free"

Everything == [i \in 1..said |-> i] \o <<End>>

\* Who watched from the beginning has seen every line once, in order, when all
\* is over: three buffers, two threads, two processes and the other viewers' sockets lie between.
SeenInOrder ==
  Quiet => \A v \in Viewer : viewer[v].pc = "live" /\ viewer[v].early => viewer[v].live = Everything

\* At any time what is shown is a beginning of the log.
ShownIsPrefix ==
  \A v \in Viewer : viewer[v].early => IsPrefix(viewer[v].live, Everything)

\* No live line is shown before the history (#27).
HistoryFirst ==
  \A v \in Viewer : viewer[v].pc \in {"replay", "register"} => viewer[v].live = <<>>

\* A socket that is registered has one writer (#28).
SingleWriter ==
  \A v \in Viewer, g, h \in Handler :
    /\ Contains(conns, v) /\ g # h
    /\ handler[g].pc = "sending" /\ handler[h].pc = "sending"
    => ~(Head(handler[g].targets) = v /\ Head(handler[h].targets) = v)

\* No registration outlives its connection.
NoLeak == \A v \in Viewer : viewer[v].pc = "gone" => ~Contains(conns, v)

\* Lines the screens missed are in the database.
Preserved ==
  Quiet => \A n \in 1..said :
    \/ Contains(row, n)
    \/ \A v \in Viewer : viewer[v].early => Contains(viewer[v].live, n)

\* Whoever connects goes on seeing the log where the history ends.
Continuity ==
  Quiet => \A v \in Viewer : viewer[v].pc = "live" =>
    \A n \in 1..said : Contains(viewer[v].history \o viewer[v].live, n)

\* Who watches and stays is shown the end.
EndShown ==
  \A v \in Viewer :
    viewer[v].pc = "live" /\ viewer[v].early ~> viewer[v].pc # "live" \/ Contains(viewer[v].live, End)
=============================================================================
