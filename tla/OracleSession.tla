---------------------------- MODULE OracleSession ----------------------------
(***************************************************************************)
(* What the two watchdogs of lib/python/oracle_session.py share: the       *)
(* connections of the attempts, each established by a thread of its own    *)
(* (connect_within), the call under way on each of them, and cancel(),     *)
(* which may take a while and may find the call over.                      *)
(*                                                                         *)
(*   link[n]   the connection of attempt n:                                *)
(*     net       none, connecting, open, late (open, and nobody waits for  *)
(*               it any more), closed, drop or error (connect() raised)    *)
(*     left      connect_within gave up waiting for it                     *)
(*     call      idle, running, broken (cancel() has reached it), over     *)
(*     cancel    none, going, done; since: when it began                   *)
(*     pending   a break that reached an idle connection                   *)
(*   closes[n] how often it was closed                                     *)
(***************************************************************************)
EXTENDS Integers, FiniteSets

CONSTANTS
  Links,       \* how many connections may be opened
  Seconds,     \* the deadline of an attempt, or the budget of all of them
  Grace,       \* CANCEL_GRACE_SECONDS
  CancelTime,  \* bound: how long cancel() takes
  Deaf,        \* BOOLEAN: cancel() may have no effect (the network is down)
  MaxNow       \* bound: the end of the clock

SessionAssumption ==
  /\ Links \in Nat \ {0} /\ Seconds \in Nat \ {0} /\ Grace \in Nat /\ CancelTime \in Nat
  /\ Deaf \in BOOLEAN /\ MaxNow \in Nat

VARIABLES now, link, closes
sessionVars == <<now, link, closes>>

Fresh == [net |-> "none", left |-> FALSE, call |-> "idle", cancel |-> "none", since |-> 0,
          pending |-> FALSE]

SessionTypeOK ==
  /\ now \in 0..MaxNow
  /\ \A n \in 1..Links :
       /\ link[n].net \in {"none", "connecting", "open", "late", "closed", "drop", "error"}
       /\ link[n].call \in {"idle", "running", "broken", "over"}
       /\ link[n].cancel \in {"none", "going", "done"}
       /\ link[n].since \in 0..MaxNow
       /\ closes[n] \in Nat

SessionInit ==
  /\ now = 0
  /\ link = [n \in 1..Links |-> IF n = 1 THEN [Fresh EXCEPT !.net = "connecting"] ELSE Fresh]
  /\ closes = [n \in 1..Links |-> 0]
-----------------------------------------------------------------------------

\* connect() returns, in its thread: under the lock it sees whether it is too late.
ConnectReturns(n) ==
  /\ link[n].net = "connecting"
  /\ link' = [link EXCEPT ![n].net = IF link[n].left THEN "late" ELSE "open"]
  /\ UNCHANGED <<now, closes>>

ConnectRaises(n) ==
  /\ link[n].net = "connecting"
  /\ \E e \in {"drop", "error"} : link' = [link EXCEPT ![n].net = e]
  /\ UNCHANGED <<now, closes>>

\* The thread closes the connection that came too late.
LateCloses(n) ==
  /\ link[n].net = "late"
  /\ link' = [link EXCEPT ![n].net = "closed"]
  /\ closes' = [closes EXCEPT ![n] = @ + 1]
  /\ UNCHANGED now

Connector(n) == ConnectReturns(n) \/ ConnectRaises(n) \/ LateCloses(n)

\* What cancel() does when it arrives: to a call, or to a connection between calls.
Reached(l) ==
  {[l EXCEPT !.cancel = "done", !.call = IF l.call = "running" THEN "broken" ELSE l.call,
             !.pending = l.call # "running"]}
  \cup (IF Deaf THEN {[l EXCEPT !.cancel = "done"]} ELSE {})

Close(l) == [l EXCEPT !.net = "closed"]

\* The clock does not pass by what is due: a cancel() that has to arrive, a broken call.
Held(n) ==
  \/ link[n].cancel = "going" /\ now >= link[n].since + CancelTime
  \/ link[n].call = "broken" \/ link[n].net = "late"
-----------------------------------------------------------------------------
\* A connection is closed by one thread only, and once.
ClosedOnce == \A n \in 1..Links : closes[n] <= 1 /\ (closes[n] = 1 <=> link[n].net = "closed")

\* Nobody closes a connection under a call.
NeverUnderCall ==
  \A n \in 1..Links : link[n].net = "closed" => link[n].call \notin {"running", "broken"}

\* ... nor while cancel() is at work on it: the two are not safe together.
CancelAlone == \A n \in 1..Links : link[n].cancel = "going" => link[n].net # "closed"
=============================================================================
