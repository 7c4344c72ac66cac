--------------------------- MODULE LogStream_proofs ---------------------------
(***************************************************************************)
(* The log stream for every number of viewers and handlers, every bound    *)
(* and every cap.  The first part holds whatever the network does: who is  *)
(* registered, whose turn it is to send, who may write a socket.  The      *)
(* second follows the lines: over a sound network what a viewer was shown, *)
(* what is on its way to it, what is buffered and what is not yet drained  *)
(* are together what the execution said.  The third follows them to the    *)
(* database, over any network.                                             *)
(***************************************************************************)
EXTENDS LogStream, SequenceTheorems, TLAPS

\* No entry is there twice.
Once(s) == \A i, j \in 1..Len(s) : s[i] = s[j] => i = j

\* A registered socket was live and its finally block has not run; a live one is registered.
Registered ==
  /\ \A i \in 1..Len(conns) : viewer[conns[i]].pc \in {"live", "closed"}
  /\ Once(conns)
  /\ \A v \in Viewer : viewer[v].pc = "live" => Contains(conns, v)

\* A handler's targets were registered when its batch arrived.
Targeted ==
  \A h \in Handler :
    /\ \A i \in 1..Len(handler[h].targets) :
         viewer[handler[h].targets[i]].pc \in {"live", "closed", "gone"}
    /\ Once(handler[h].targets)
    /\ handler[h].pc = "sending" => handler[h].targets # <<>>

\* Before it is registered a socket is shown no live line.
Before ==
  \A v \in Viewer : viewer[v].pc \in {"off", "replay", "register"} =>
    viewer[v].live = <<>> /\ ~viewer[v].early

\* Who sends to a registered socket holds its lock.
Locked ==
  \A h \in Handler :
    handler[h].pc = "sending" /\ Contains(conns, Head(handler[h].targets))
      => lock[Head(handler[h].targets)] = h

LogInv == Registered /\ Targeted /\ Before /\ Locked
-----------------------------------------------------------------------------
(* Sequences.                                                              *)

\* Upto: a beginning of the sequence, all of it if there is room.
LEMMA UptoProperties ==
  ASSUME NEW S, NEW s \in Seq(S), NEW n \in Nat
  PROVE  /\ Upto(s, n) \in Seq(S)
         /\ Len(s) <= n => Upto(s, n) = s
<1>1. Len(s) \in Nat /\ \A i \in 1..Len(s) : s[i] \in S BY LenProperties, ElementOfSeq
<1>2. Upto(s, n) \in Seq(S)
  <2>1. PICK m \in 0..Len(s) : Upto(s, n) = SubSeq(s, 1, m) BY <1>1 DEF Upto
  <2>2. \A i \in 1..m : s[i] \in S BY <1>1
  <2>3. QED BY <2>1, <2>2, <1>1, SubSeqProperties
<1>3. ASSUME Len(s) <= n PROVE Upto(s, n) = s
  <2>1. (IF n < Len(s) THEN n ELSE Len(s)) = Len(s) BY <1>1, <1>3
  <2>2. QED BY <2>1, SubSeqFull DEF Upto
<1>4. QED BY <1>2, <1>3

\* Without: the list loses v, if v was there but once, and keeps everyone else.
LEMMA WithoutProperties ==
  ASSUME conns \in Seq(Viewer), Once(conns), NEW v \in Viewer
  PROVE  /\ Without(v) \in Seq(Viewer) /\ Once(Without(v))
         /\ \A i \in 1..Len(Without(v)) : Contains(conns, Without(v)[i])
         /\ ~Contains(Without(v), v)
         /\ \A u \in Viewer : u # v /\ Contains(conns, u) => Contains(Without(v), u)
<1>1. CASE ~Contains(conns, v) BY <1>1 DEF Without, Contains
<1>2. CASE Contains(conns, v)
  <2> DEFINE First(i) == conns[i] = v /\ \A j \in 1..(i - 1) : conns[j] # v
             i == CHOOSE i \in 1..Len(conns) : First(i)
             a == SubSeq(conns, 1, i - 1)
             b == SubSeq(conns, i + 1, Len(conns))
  <2>1. Len(conns) \in Nat /\ \A k \in 1..Len(conns) : conns[k] \in Viewer
    BY LenProperties, ElementOfSeq
  <2>2. \E k \in 1..Len(conns) : First(k)
    <3>1. PICK k \in 1..Len(conns) : conns[k] = v BY <1>2 DEF Contains
    <3>2. \A j \in 1..(k - 1) : j \in 1..Len(conns) /\ j # k BY <2>1
    <3>3. First(k) BY <3>1, <3>2 DEF Once
    <3>4. QED BY <3>3
  <2>3. i \in 1..Len(conns) /\ First(i) BY <2>2
  <2>4. Without(v) = a \o b BY <1>2 DEF Without
  <2> HIDE DEF i
  <2>5. /\ a \in Seq(Viewer) /\ Len(a) = i - 1
        /\ \A k \in 1..(i - 1) : a[k] = conns[k]
    <3>1. \A k \in 1..(i - 1) : conns[k] \in Viewer BY <2>1, <2>3
    <3>2. i - 1 \in Int /\ 1 \in Int BY <2>3
    <3>3. /\ a \in Seq(Viewer) /\ Len(a) = (IF 1 <= i - 1 THEN (i - 1) - 1 + 1 ELSE 0)
          /\ \A k \in 1 .. (i - 1) - 1 + 1 : a[k] = conns[1 + k - 1]
      BY <3>1, <3>2, SubSeqProperties
    <3> HIDE DEF a
    <3>4. QED BY <3>3, <2>3, <2>1
  <2>6. /\ b \in Seq(Viewer) /\ Len(b) = Len(conns) - i
        /\ \A k \in 1..(Len(conns) - i) : b[k] = conns[i + k]
    <3>1. \A k \in (i + 1)..Len(conns) : conns[k] \in Viewer BY <2>1, <2>3
    <3>2. i + 1 \in Int /\ Len(conns) \in Int BY <2>3, <2>1
    <3>3. /\ b \in Seq(Viewer)
          /\ Len(b) = (IF i + 1 <= Len(conns) THEN Len(conns) - (i + 1) + 1 ELSE 0)
          /\ \A k \in 1 .. Len(conns) - (i + 1) + 1 : b[k] = conns[i + 1 + k - 1]
      BY <3>1, <3>2, SubSeqProperties
    <3> HIDE DEF b
    <3>4. QED BY <3>3, <2>3, <2>1
  <2> HIDE DEF a, b
  <2>7. /\ a \o b \in Seq(Viewer) /\ Len(a \o b) = Len(conns) - 1
        /\ \A k \in 1..(Len(conns) - 1) :
             (a \o b)[k] = IF k <= i - 1 THEN conns[k] ELSE conns[k + 1]
    <3>1. /\ a \o b \in Seq(Viewer) /\ Len(a \o b) = Len(a) + Len(b)
          /\ \A k \in 1 .. Len(a) + Len(b) :
               (a \o b)[k] = IF k <= Len(a) THEN a[k] ELSE b[k - Len(a)]
      BY <2>5, <2>6, ConcatProperties
    <3>2. Len(a) + Len(b) = Len(conns) - 1 BY <2>1, <2>3, <2>5, <2>6
    <3>3. ASSUME NEW k \in 1..(Len(conns) - 1)
          PROVE  (a \o b)[k] = IF k <= i - 1 THEN conns[k] ELSE conns[k + 1]
      <4>1. CASE k <= i - 1 BY <4>1, <3>1, <3>2, <2>5, <2>3
      <4>2. CASE ~(k <= i - 1)
        <5>1. k - (i - 1) \in 1..(Len(conns) - i) BY <4>2, <2>1, <2>3
        <5>2. i + (k - (i - 1)) = k + 1 BY <4>2, <2>1, <2>3
        <5>3. QED BY <5>1, <5>2, <4>2, <3>1, <3>2, <2>5, <2>6
      <4>3. QED BY <4>1, <4>2
    <3>4. QED BY <3>1, <3>2, <3>3
  <2> DEFINE w == a \o b
  <2>8. Without(v) = w BY <2>4
  <2>9. /\ w \in Seq(Viewer) /\ Len(w) = Len(conns) - 1
        /\ \A k \in 1..Len(w) : w[k] = IF k <= i - 1 THEN conns[k] ELSE conns[k + 1]
    BY <2>7
  <2> HIDE DEF w
  <2>10. \A k \in 1..Len(w) : k \in 1..Len(conns) /\ k + 1 \in 1..Len(conns)
    BY <2>1, <2>9
  <2>11. Once(w)
    <3>1. SUFFICES ASSUME NEW k \in 1..Len(w), NEW l \in 1..Len(w), w[k] = w[l]
                   PROVE  k = l
      BY DEF Once
    <3>2. QED BY <3>1, <2>1, <2>3, <2>9, <2>10 DEF Once
  <2>12. \A k \in 1..Len(w) : Contains(conns, w[k]) /\ w[k] # v
    <3>1. TAKE k \in 1..Len(w)
    <3>2. w[k] = (IF k <= i - 1 THEN conns[k] ELSE conns[k + 1]) BY <2>9
    <3>3. Contains(conns, w[k]) BY <3>2, <2>10 DEF Contains
    <3>4. CASE k <= i - 1
      <4>1. k \in 1..(i - 1) BY <3>4, <2>3
      <4>2. QED BY <4>1, <3>2, <3>3, <3>4, <2>3
    <3>5. CASE ~(k <= i - 1)
      <4>1. k + 1 # i BY <3>5, <2>1, <2>3, <2>9
      <4>2. conns[k + 1] # conns[i] BY <4>1, <2>3, <2>10 DEF Once
      <4>3. QED BY <3>2, <3>3, <3>5, <4>2, <2>3
    <3>6. QED BY <3>3, <3>4, <3>5
  <2>13. ASSUME NEW u \in Viewer, u # v, Contains(conns, u) PROVE Contains(w, u)
    <3>1. PICK k \in 1..Len(conns) : conns[k] = u BY <2>13 DEF Contains
    <3>2. k # i BY <3>1, <2>13, <2>3
    <3>3. CASE k < i
      <4>1. k \in 1..Len(w) /\ k <= i - 1 BY <3>3, <2>1, <2>3, <2>9
      <4>2. w[k] = u BY <4>1, <3>1, <2>9
      <4>3. QED BY <4>1, <4>2 DEF Contains
    <3>4. CASE k > i
      <4>1. k - 1 \in 1..Len(w) /\ ~(k - 1 <= i - 1) /\ (k - 1) + 1 = k
        BY <3>4, <2>1, <2>3, <2>9
      <4>2. w[k - 1] = u BY <4>1, <3>1, <2>9
      <4>3. QED BY <4>1, <4>2 DEF Contains
    <3>5. QED BY <3>2, <3>3, <3>4, <2>3
  <2>14. QED BY <2>8, <2>9, <2>11, <2>12, <2>13 DEF Contains
<1>3. QED BY <1>1, <1>2

\* Tail: what is left once the first is taken, which is not there again.
LEMMA TailProperties ==
  ASSUME NEW S, NEW s \in Seq(S), s # <<>>
  PROVE  /\ Head(s) \in S /\ Head(s) = s[1] /\ Tail(s) \in Seq(S)
         /\ Contains(s, Head(s))
         /\ \A i \in 1..Len(Tail(s)) : i + 1 \in 1..Len(s) /\ Tail(s)[i] = s[i + 1]
         /\ Once(s) => Once(Tail(s)) /\ ~Contains(Tail(s), Head(s))
         /\ \A e : e # Head(s) => (Contains(Tail(s), e) <=> Contains(s, e))
<1> DEFINE t == Tail(s)
<1>1. Len(s) \in Nat \ {0} BY EmptySeq
<1>2. /\ Head(s) \in S /\ t \in Seq(S) /\ Len(t) = Len(s) - 1
      /\ \A i \in 1..Len(t) : t[i] = s[i + 1]
  BY HeadTailProperties
<1>3. Head(s) = s[1] BY <1>1
<1> HIDE DEF t
<1>4. Contains(s, Head(s)) BY <1>1, <1>3 DEF Contains
<1>5. \A i \in 1..Len(t) : i + 1 \in 1..Len(s) /\ t[i] = s[i + 1] BY <1>1, <1>2
<1>6. ASSUME Once(s) PROVE Once(t) /\ ~Contains(t, Head(s))
  <2>1. ASSUME NEW i \in 1..Len(t), NEW j \in 1..Len(t), t[i] = t[j] PROVE i = j
    <3>1. i + 1 = j + 1 BY <1>5, <1>6, <2>1 DEF Once
    <3>2. QED BY <3>1, <1>1, <1>2
  <2>2. ASSUME NEW i \in 1..Len(t), t[i] = Head(s) PROVE FALSE
    <3>1. i + 1 = 1 BY <1>1, <1>3, <1>5, <1>6, <2>2 DEF Once
    <3>2. QED BY <3>1, <1>1, <1>2
  <2>3. QED BY <2>1, <2>2 DEF Once, Contains
<1>7. ASSUME NEW e, e # Head(s) PROVE Contains(t, e) <=> Contains(s, e)
  <2>1. ASSUME Contains(t, e) PROVE Contains(s, e) BY <2>1, <1>5 DEF Contains
  <2>2. ASSUME Contains(s, e) PROVE Contains(t, e)
    <3>1. PICK i \in 1..Len(s) : s[i] = e BY <2>2 DEF Contains
    <3>2. i # 1 BY <3>1, <1>7, <1>3
    <3>3. i - 1 \in 1..Len(t) /\ (i - 1) + 1 = i BY <3>2, <1>1, <1>2
    <3>4. t[i - 1] = e BY <3>3, <3>1, <1>5
    <3>5. QED BY <3>3, <3>4 DEF Contains
  <2>3. QED BY <2>1, <2>2
<1>8. QED BY <1>2, <1>3, <1>4, <1>5, <1>6, <1>7 DEF t
-----------------------------------------------------------------------------
(* Types.                                                                  *)

\* The assumption, in the form the steps use.
LEMMA LogConstants ==
  ASSUME LogStreamAssumption
  PROVE  /\ MaxLines \in Nat /\ MaxKept \in Nat /\ MaxMessage \in Nat /\ MaxMessage > 0
         /\ Line = 0..MaxLines /\ End \in Line /\ NoOne \notin Handler
BY DEF LogStreamAssumption, Line, End

LEMMA LogTypeInit == LogStreamAssumption /\ Init => TypeOK
<1> SUFFICES ASSUME LogStreamAssumption, Init PROVE TypeOK OBVIOUS
<1>1. <<>> \in Seq(Line) /\ <<>> \in Seq(Viewer) BY EmptySeq
<1>2. fl = Waiting /\ handler = [h \in Handler |-> Free] BY DEF Init
<1>3. /\ Waiting \in [pc : {"wait"}, batch : Seq(Line), try : 0..1, at : Handler \cup {NoOne}]
      /\ Free \in [pc : {"free"}, batch : Seq(Line), targets : Seq(Viewer)]
  BY <1>1 DEF Waiting, Free
<1>4. 0 \in 0..MaxLines BY LogConstants
<1>5. viewer = [v \in Viewer |->
        [pc |-> "off", read |-> <<>>, history |-> <<>>, live |-> <<>>, early |-> FALSE]]
  BY DEF Init
<1>6. /\ fl \in [pc : {"wait", "posted", "again", "off"}, batch : Seq(Line), try : 0..1,
                at : Handler \cup {NoOne}]
      /\ handler \in [Handler -> [pc : {"free", "next", "sending"}, batch : Seq(Line),
                                  targets : Seq(Viewer)]]
  BY <1>2, <1>3
<1>7. viewer \in [Viewer -> [pc : {"off", "replay", "register", "live", "closed", "gone"},
                           read : Seq(Line), history : Seq(Line), live : Seq(Line),
                           early : BOOLEAN]]
  BY <1>1, <1>5
<1>8. QED BY <1>1, <1>4, <1>6, <1>7 DEF Init, TypeOK

LEMMA LogTypeStep == LogStreamAssumption /\ TypeOK /\ LogInv /\ [Next]_vars => TypeOK'
<1> SUFFICES ASSUME LogStreamAssumption, TypeOK, LogInv, [Next]_vars PROVE TypeOK' OBVIOUS
<1> USE LogConstants
<1> DEFINE
  Work == /\ said \in 0..MaxLines /\ mon \in {"run", "drain", "write", "done"}
          /\ pipe \in Seq(Line) /\ kept \in Seq(Line) /\ row \in Seq(Line)
          /\ buffer \in Seq(Line)
  Flusher == fl \in [pc : {"wait", "posted", "again", "off"}, batch : Seq(Line), try : 0..1,
                     at : Handler \cup {NoOne}] /\ down \in BOOLEAN
  Post == [pc : {"free", "next", "sending"}, batch : Seq(Line), targets : Seq(Viewer)]
  Posts == handler \in [Handler -> Post]
  View == [pc : {"off", "replay", "register", "live", "closed", "gone"},
           read : Seq(Line), history : Seq(Line), live : Seq(Line), early : BOOLEAN]
  Views == viewer \in [Viewer -> View]
  Socks == conns \in Seq(Viewer) /\ lock \in [Viewer -> Handler \cup {NoOne}]
  Seen(v, r) == [viewer EXCEPT ![v] = r]
<1>1. Work /\ Flusher /\ Posts /\ Views /\ Socks BY DEF TypeOK
<1>2. SUFFICES Work' /\ Flusher' /\ Posts' /\ Views' /\ Socks' BY DEF TypeOK
<1>3. <<>> \in Seq(Line) /\ <<>> \in Seq(Viewer) BY EmptySeq
<1>4. Waiting \in [pc : {"wait"}, batch : Seq(Line), try : 0..1, at : Handler \cup {NoOne}]
  BY <1>3 DEF Waiting
<1>5. LoopHead \in [pc : {"wait", "off"}, batch : Seq(Line), try : 0..1,
                    at : Handler \cup {NoOne}]
  BY <1>4 DEF LoopHead
<1>6. ASSUME NEW s \in Seq(Line), NEW t \in Seq(Line)
      PROVE  /\ s \o t \in Seq(Line) /\ Upto(s, MaxKept) \in Seq(Line)
             /\ Upto(s, MaxMessage) \in Seq(Line) /\ Append(s, End) \in Seq(Line)
  BY ConcatProperties, UptoProperties, AppendProperties
<1>7. CASE Say
  <2>1. said + 1 \in Line /\ said + 1 \in 0..MaxLines BY <1>1, <1>7 DEF Say
  <2>2. Append(pipe, said + 1) \in Seq(Line) BY <2>1, <1>1, AppendProperties
  <2>3. QED BY <1>1, <1>7, <2>1, <2>2 DEF Say, api
<1>8. CASE Drain
  <2>1. kept' \in Seq(Line) /\ buffer' \in Seq(Line) BY <1>1, <1>6, <1>8 DEF Drain, Drained
  <2>2. QED BY <1>1, <1>3, <1>8, <2>1 DEF Drain, api
<1>9. CASE Exit BY <1>1, <1>9 DEF Exit, api
<1>10. CASE FinalDrain
  <2>1. PICK n \in 0..Len(pipe) :
          /\ kept' = Upto(kept \o SubSeq(pipe, 1, n), MaxKept)
          /\ buffer' = Append(buffer \o SubSeq(pipe, 1, n), End)
          /\ pipe' = SubSeq(pipe, n + 1, Len(pipe))
    <3>1. Len(pipe) \in Nat BY <1>1, LenProperties
    <3>2. CASE Held BY <3>1, <3>2, <1>10 DEF FinalDrain
    <3>3. CASE ~Held
      <4>1. Len(pipe) \in 0..Len(pipe) BY <3>1
      <4>2. QED BY <3>3, <4>1, <1>10 DEF FinalDrain
    <3>4. QED BY <3>2, <3>3
  <2>2. Len(pipe) \in Nat /\ \A i \in 1..Len(pipe) : pipe[i] \in Line
    BY <1>1, LenProperties, ElementOfSeq
  <2>3. SubSeq(pipe, 1, n) \in Seq(Line) /\ SubSeq(pipe, n + 1, Len(pipe)) \in Seq(Line)
    <3>1. \A i \in 1..n : pipe[i] \in Line BY <2>2
    <3>2. \A i \in (n + 1)..Len(pipe) : pipe[i] \in Line BY <2>2
    <3>3. QED BY <3>1, <3>2, <2>2, SubSeqProperties
  <2>4. kept' \in Seq(Line) /\ buffer' \in Seq(Line) /\ pipe' \in Seq(Line)
    BY <1>1, <1>6, <2>1, <2>3
  <2>5. QED BY <1>1, <1>10, <2>4 DEF FinalDrain, api
<1>11. CASE Finalise BY <1>1, <1>11 DEF Finalise, api
<1>12. CASE Shutdown BY <1>1, <1>12 DEF Shutdown, api, work
<1>13. ASSUME NEW h \in Handler, NEW batch \in Seq(Line), Arrives(h, batch) PROVE Posts'
  <2>1. [pc |-> "next", batch |-> Upto(batch, MaxMessage), targets |-> conns]
          \in [pc : {"free", "next", "sending"}, batch : Seq(Line), targets : Seq(Viewer)]
    BY <1>1, <1>6
  <2>2. QED BY <1>1, <1>13, <2>1 DEF Arrives
<1>14. CASE Flush
  <2>1. CASE buffer = <<>> BY <1>1, <1>5, <1>14, <2>1 DEF Flush, work
  <2>2. CASE buffer # <<>>
    <3>1. PICK h \in Handler : /\ Arrives(h, buffer)
                               /\ fl' = [fl EXCEPT !.pc = "posted", !.batch = buffer, !.at = h]
      BY <1>14, <2>2 DEF Flush
    <3>2. Posts' BY <1>1, <1>13, <3>1
    <3>3. Flusher' BY <1>1, <1>14, <3>1 DEF Flush
    <3>4. QED BY <1>1, <1>3, <1>14, <2>2, <3>2, <3>3 DEF Flush, work
  <2>3. QED BY <2>1, <2>2
<1>15. CASE FlushFails
  <2>1. 1 \in 0..1 OBVIOUS
  <2>2. Flusher' BY <1>1, <1>4, <1>15, <2>1 DEF FlushFails
  <2>3. QED BY <1>1, <1>3, <1>15, <2>2 DEF FlushFails, work, api
<1>16. CASE Retry
  <2>1. PICK h \in Handler : Arrives(h, fl.batch) /\ fl' = [fl EXCEPT !.pc = "posted", !.at = h]
    BY <1>16 DEF Retry
  <2>2. Posts' BY <1>1, <1>13, <2>1
  <2>3. Flusher' BY <1>1, <1>16, <2>1 DEF Retry
  <2>4. QED BY <1>1, <1>16, <2>2, <2>3 DEF Retry, work
<1>17. CASE RetryFails BY <1>1, <1>5, <1>17 DEF RetryFails, work, api
<1>18. CASE PostTimesOut
  <2>1. fl' \in [pc : {"wait", "posted", "again", "off"}, batch : Seq(Line), try : 0..1,
                 at : Handler \cup {NoOne}]
    <3>1. CASE fl.try = 0
      <4>1. 1 \in 0..1 /\ NoOne \in Handler \cup {NoOne} OBVIOUS
      <4>2. fl' = [fl EXCEPT !.pc = "again", !.try = 1, !.at = NoOne]
        BY <1>18, <3>1 DEF PostTimesOut
      <4>3. QED BY <1>1, <4>1, <4>2
    <3>2. CASE fl.try # 0 BY <1>1, <1>5, <1>18, <3>2 DEF PostTimesOut
    <3>3. QED BY <3>1, <3>2
  <2>2. QED BY <1>1, <1>18, <2>1 DEF PostTimesOut, work, api
<1>34. ASSUME NEW v \in Viewer, NEW r \in View, viewer' = Seen(v, r) PROVE Views'
  <2> HIDE DEF View
  <2>1. QED BY <1>1, <1>34
<1>35. ASSUME NEW h \in Handler, NEW r \in Post, handler' = [handler EXCEPT ![h] = r] PROVE Posts'
  <2> HIDE DEF Post
  <2>1. QED BY <1>1, <1>35
<1>19. ASSUME NEW h \in Handler, Begin(h) PROVE Work' /\ Flusher' /\ Posts' /\ Views' /\ Socks'
  <2>1. Head(handler[h].targets) \in Viewer BY <1>1, <1>19, HeadTailProperties DEF Begin
  <2>2. lock' \in [Viewer -> Handler \cup {NoOne}] BY <1>1, <1>19, <2>1 DEF Begin
  <2>3. Posts'
    <3> DEFINE r == [handler[h] EXCEPT !.pc = "sending"]
    <3>1. handler[h] \in Post BY <1>1
    <3>2. r \in Post BY <3>1
    <3>3. handler' = [handler EXCEPT ![h] = r] BY <1>19 DEF Begin
    <3>4. QED BY <1>35, <3>2, <3>3
  <2>4. QED BY <1>1, <1>19, <2>2, <2>3 DEF Begin, work
<1>20. ASSUME NEW v \in Viewer, conns' = Without(v) PROVE conns' \in Seq(Viewer)
  BY <1>1, <1>20, WithoutProperties DEF LogInv, Registered
<1>21. ASSUME NEW h \in Handler, Sent(h) PROVE Work' /\ Flusher' /\ Posts' /\ Views' /\ Socks'
  <2>1. handler[h].targets \in Seq(Viewer) /\ handler[h].targets # <<>>
    BY <1>1, <1>21 DEF Sent, LogInv, Targeted
  <2>2. Head(handler[h].targets) \in Viewer /\ Tail(handler[h].targets) \in Seq(Viewer)
    BY <2>1, TailProperties
  <2> DEFINE v == Head(handler[h].targets)
  <2>3. /\ handler' = [handler EXCEPT ![h].pc = "next", ![h].targets = Tail(@)]
        /\ lock' = [lock EXCEPT ![v] = IF @ = h THEN NoOne ELSE @]
        /\ UNCHANGED <<work, buffer, fl, down>>
    BY <1>21 DEF Sent
  <2>4. Posts'
    <3> DEFINE r == [handler[h] EXCEPT !.pc = "next", !.targets = Tail(@)]
    <3>1. handler[h] \in Post BY <1>1
    <3>2. r \in Post BY <2>2, <3>1
    <3>3. handler' = [handler EXCEPT ![h] = r] BY <2>3
    <3>4. QED BY <1>35, <3>2, <3>3
  <2>5. lock' \in [Viewer -> Handler \cup {NoOne}] BY <1>1, <2>2, <2>3
  <2>6. viewer[v].live \o handler[h].batch \in Seq(Line)
    <3>1. viewer[v].live \in Seq(Line) /\ handler[h].batch \in Seq(Line) BY <1>1, <2>2
    <3>2. QED BY <1>6, <3>1
  <2>7. \/ viewer' = [viewer EXCEPT ![v].live = @ \o handler[h].batch] /\ conns' = conns
        \/ viewer' = viewer /\ conns' = Without(v)
    BY <1>21 DEF Sent
  <2> HIDE DEF v
  <2>8. Views'
    <3> DEFINE r == [viewer[v] EXCEPT !.live = @ \o handler[h].batch]
    <3>1. v \in Viewer /\ viewer[v] \in View BY <1>1, <2>2 DEF v
    <3>2. r \in View BY <2>6, <3>1
    <3>3. CASE viewer' = [viewer EXCEPT ![v].live = @ \o handler[h].batch]
      <4>1. viewer' = Seen(v, r) BY <3>3
      <4>2. QED BY <1>34, <3>1, <3>2, <4>1
    <3>4. CASE viewer' = viewer BY <1>1, <3>4
    <3>5. QED BY <2>7, <3>3, <3>4
  <2>9. conns' \in Seq(Viewer) BY <1>1, <1>20, <2>2, <2>7 DEF v
  <2>10. QED BY <1>1, <2>3, <2>4, <2>5, <2>8, <2>9 DEF work
<1>22. ASSUME NEW h \in Handler, Answer(h) PROVE Work' /\ Flusher' /\ Posts' /\ Views' /\ Socks'
  <2>1. Free \in [pc : {"free"}, batch : Seq(Line), targets : Seq(Viewer)] BY <1>3 DEF Free
  <2>2. Posts' BY <1>1, <1>22, <2>1 DEF Answer
  <2>3. fl' = fl \/ fl' = LoopHead BY <1>22 DEF Answer
  <2>4. Flusher' BY <1>1, <1>5, <1>22, <2>3 DEF Answer
  <2>5. QED BY <1>1, <1>22, <2>2, <2>4 DEF Answer, work
<1>23. ASSUME NEW v \in Viewer, Open(v) PROVE Work' /\ Flusher' /\ Posts' /\ Views' /\ Socks'
  <2>1. Upto(row, MaxMessage) \in Seq(Line) BY <1>1, <1>6
  <2>2. Views'
    <3> DEFINE r == [viewer[v] EXCEPT !.pc = "replay", !.read = Upto(row, MaxMessage)]
    <3>0. viewer[v] \in View BY <1>1
    <3>1. r \in View BY <2>1, <3>0
    <3>2. viewer' = Seen(v, r) BY <1>23 DEF Open
    <3>3. QED BY <1>34, <3>1, <3>2
  <2>3. QED BY <1>1, <1>23, <2>2 DEF Open, work
<1>24. ASSUME NEW v \in Viewer, Replay(v) PROVE Work' /\ Flusher' /\ Posts' /\ Views' /\ Socks'
  <2>1. viewer[v].read \in Seq(Line) BY <1>1
  <2>2. Views'
    <3> DEFINE r == [viewer[v] EXCEPT !.pc = "register", !.history = viewer[v].read]
    <3>0. viewer[v] \in View BY <1>1
    <3>1. r \in View BY <2>1, <3>0
    <3>2. viewer' = Seen(v, r) BY <1>24 DEF Replay
    <3>3. QED BY <1>34, <3>1, <3>2
  <2>3. QED BY <1>1, <1>24, <2>2 DEF Replay, work
<1>25. ASSUME NEW v \in Viewer, Register(v) PROVE Work' /\ Flusher' /\ Posts' /\ Views' /\ Socks'
  <2>2. Views'
    <3> DEFINE r == [viewer[v] EXCEPT !.pc = "live", !.early = (said = 0 /\ mon = "run")]
    <3>0. viewer[v] \in View /\ (said = 0 /\ mon = "run") \in BOOLEAN BY <1>1
    <3>1. r \in View BY <3>0
    <3>2. viewer' = Seen(v, r) BY <1>25 DEF Register
    <3>3. QED BY <1>34, <3>1, <3>2
  <2>3. conns' \in Seq(Viewer) BY <1>1, <1>25, AppendProperties DEF Register
  <2>4. QED BY <1>1, <1>25, <2>2, <2>3 DEF Register, work
<1>26. ASSUME NEW v \in Viewer, Close(v) PROVE Work' /\ Flusher' /\ Posts' /\ Views' /\ Socks'
  <2>1. Views'
    <3> DEFINE r == [viewer[v] EXCEPT !.pc = "closed"]
    <3>1. viewer[v] \in View BY <1>1
    <3>2. r \in View BY <3>1
    <3>3. viewer' = Seen(v, r) BY <1>26 DEF Close
    <3>4. QED BY <1>34, <3>2, <3>3
  <2>2. QED BY <1>1, <1>26, <2>1 DEF Close, work
<1>27. ASSUME NEW v \in Viewer, Disconnect(v) PROVE Work' /\ Flusher' /\ Posts' /\ Views' /\ Socks'
  <2>1. Views'
    <3> DEFINE r == [viewer[v] EXCEPT !.pc = "gone"]
    <3>1. viewer[v] \in View BY <1>1
    <3>2. r \in View BY <3>1
    <3>3. viewer' = Seen(v, r) BY <1>27 DEF Disconnect
    <3>4. QED BY <1>34, <3>2, <3>3
  <2>2. conns' \in Seq(Viewer) BY <1>20, <1>27 DEF Disconnect
  <2>3. lock' \in [Viewer -> Handler \cup {NoOne}] BY <1>1, <1>27 DEF Disconnect
  <2>4. QED BY <1>1, <1>27, <2>1, <2>2, <2>3 DEF Disconnect, work
<1>28. CASE UNCHANGED vars BY <1>1, <1>28 DEF vars, work, api
<1> HIDE DEF Work, Flusher, Posts, Views, Socks
<1>29. CASE Say \/ WorkerStep \/ Shutdown
  BY <1>7, <1>8, <1>9, <1>10, <1>11, <1>12, <1>29 DEF WorkerStep
<1>30. CASE FlusherStep \/ FlushFails \/ RetryFails \/ PostTimesOut
  BY <1>14, <1>15, <1>16, <1>17, <1>18, <1>30 DEF FlusherStep
<1>31. CASE \E h \in Handler : HandlerStep(h)
  BY <1>19, <1>21, <1>22, <1>31 DEF HandlerStep
<1>32. CASE \E v \in Viewer : Open(v) \/ Replay(v) \/ Register(v) \/ Close(v) \/ Disconnect(v)
  BY <1>23, <1>24, <1>25, <1>26, <1>27, <1>32
<1>33. QED BY <1>28, <1>29, <1>30, <1>31, <1>32 DEF Next
-----------------------------------------------------------------------------
(* Who is registered, and who may write.                                   *)

LEMMA LogInvInit == Init => LogInv
<1> SUFFICES ASSUME Init PROVE LogInv OBVIOUS
<1>1. /\ conns = <<>> /\ \A h \in Handler : handler[h] = Free
      /\ \A v \in Viewer : viewer[v] =
           [pc |-> "off", read |-> <<>>, history |-> <<>>, live |-> <<>>, early |-> FALSE]
  BY DEF Init
<1>2. Registered
  <2>1. Len(conns) = 0 BY <1>1
  <2>2. QED BY <1>1, <2>1 DEF Registered, Once
<1>3. Targeted
  <2>1. Len(<<>>) = 0 OBVIOUS
  <2>2. QED BY <1>1, <2>1 DEF Targeted, Once, Free
<1>4. Before BY <1>1 DEF Before
<1>5. Locked BY <1>1 DEF Locked, Free
<1>6. QED BY <1>2, <1>3, <1>4, <1>5 DEF LogInv

\* Once a new entry is put at the end of a list that had it not, each is there once.
LEMMA AppendOnce ==
  ASSUME NEW S, NEW s \in Seq(S), NEW e \in S, Once(s), ~Contains(s, e)
  PROVE  /\ Once(Append(s, e)) /\ Contains(Append(s, e), e)
         /\ \A u : Contains(s, u) => Contains(Append(s, e), u)
         /\ \A i \in 1..Len(Append(s, e)) : Append(s, e)[i] = e \/ Contains(s, Append(s, e)[i])
<1> DEFINE t == Append(s, e)
<1>1. /\ Len(s) \in Nat /\ Len(t) = Len(s) + 1 /\ t[Len(s) + 1] = e
      /\ \A i \in 1..Len(s) : t[i] = s[i]
  BY LenProperties, AppendProperties
<1> HIDE DEF t
<1>2. \A i \in 1..Len(t) : i = Len(s) + 1 \/ i \in 1..Len(s) BY <1>1
<1>3. Once(t)
  <2>1. SUFFICES ASSUME NEW i \in 1..Len(t), NEW j \in 1..Len(t), t[i] = t[j] PROVE i = j
    BY DEF Once
  <2>2. CASE i \in 1..Len(s) /\ j \in 1..Len(s) BY <2>1, <2>2, <1>1 DEF Once
  <2>3. CASE i = Len(s) + 1 /\ j \in 1..Len(s) BY <2>1, <2>3, <1>1 DEF Contains
  <2>4. CASE j = Len(s) + 1 /\ i \in 1..Len(s) BY <2>1, <2>4, <1>1 DEF Contains
  <2>5. QED BY <1>2, <2>2, <2>3, <2>4
<1>4. Contains(t, e)
  <2>1. Len(s) + 1 \in 1..Len(t) BY <1>1
  <2>2. QED BY <2>1, <1>1 DEF Contains
<1>5. ASSUME NEW u, Contains(s, u) PROVE Contains(t, u)
  <2>1. \A i \in 1..Len(s) : i \in 1..Len(t) BY <1>1
  <2>2. QED BY <2>1, <1>1, <1>5 DEF Contains
<1>6. \A i \in 1..Len(t) : t[i] = e \/ Contains(s, t[i]) BY <1>1, <1>2 DEF Contains
<1>7. QED BY <1>3, <1>4, <1>5, <1>6 DEF t

\* A batch arrives at a free handler: its targets are who is registered.
LEMMA ArrivesSafe ==
  ASSUME TypeOK, LogInv, NEW h \in Handler, NEW batch, Arrives(h, batch),
         UNCHANGED <<viewer, conns, lock>>
  PROVE  LogInv'
<1>1. handler \in [Handler -> [pc : {"free", "next", "sending"}, batch : Seq(Line),
                             targets : Seq(Viewer)]]
  BY DEF TypeOK
<1>2. /\ handler'[h].pc = "next" /\ handler'[h].targets = conns
      /\ \A g \in Handler : g # h => handler'[g] = handler[g]
  BY <1>1 DEF Arrives
<1>3. Registered' BY DEF LogInv, Registered
<1>4. Targeted' BY <1>2 DEF LogInv, Registered, Targeted
<1>5. Before' BY DEF LogInv, Before
<1>6. Locked' BY <1>2 DEF LogInv, Locked
<1>7. QED BY <1>3, <1>4, <1>5, <1>6 DEF LogInv

\* The lock is taken when it is free.
LEMMA BeginSafe ==
  ASSUME LogStreamAssumption, TypeOK, LogInv, NEW h \in Handler, Begin(h)
  PROVE  LogInv'
<1>1. /\ handler \in [Handler -> [pc : {"free", "next", "sending"}, batch : Seq(Line),
                                targets : Seq(Viewer)]]
      /\ lock \in [Viewer -> Handler \cup {NoOne}]
  BY DEF TypeOK
<1> DEFINE v == Head(handler[h].targets)
<1>2. v \in Viewer BY <1>1, TailProperties DEF Begin
<1>3. /\ handler'[h].pc = "sending" /\ \A g \in Handler : handler'[g].targets = handler[g].targets
      /\ \A g \in Handler : g # h => handler'[g] = handler[g]
      /\ handler[h].targets # <<>> /\ UNCHANGED <<viewer, conns>>
  BY <1>1 DEF Begin
<1>4. \/ /\ lock[v] = NoOne /\ lock'[v] = h /\ \A u \in Viewer : u # v => lock'[u] = lock[u]
      \/ ~Contains(conns, v) /\ lock' = lock
  BY <1>1, <1>2 DEF Begin
<1>5. Registered' BY <1>3 DEF LogInv, Registered
<1>6. Targeted' BY <1>3 DEF LogInv, Targeted
<1>7. Before' BY <1>3 DEF LogInv, Before
<1>8. Locked'
  <2>1. SUFFICES ASSUME NEW g \in Handler, handler'[g].pc = "sending",
                        Contains(conns, Head(handler[g].targets))
                 PROVE  lock'[Head(handler[g].targets)] = g
    BY <1>3 DEF Locked
  <2>2. CASE g = h BY <2>1, <2>2, <1>4
  <2>3. CASE g # h
    <3>1. handler[g].pc = "sending" /\ lock[Head(handler[g].targets)] = g
      BY <2>1, <2>3, <1>3 DEF LogInv, Locked
    <3>2. handler[g].targets # <<>> BY <3>1 DEF LogInv, Targeted
    <3>3. Head(handler[g].targets) \in Viewer BY <3>2, <1>1, TailProperties
    <3>4. g # NoOne BY DEF LogStreamAssumption
    <3>5. QED BY <3>1, <3>3, <3>4, <1>4
  <2>4. QED BY <2>2, <2>3
<1>9. QED BY <1>5, <1>6, <1>7, <1>8 DEF LogInv

\* A socket that is dead leaves the list, one that lives is told; the next is up.
LEMMA SentSafe ==
  ASSUME TypeOK, LogInv, NEW h \in Handler, Sent(h)
  PROVE  LogInv'
<1>1. /\ handler \in [Handler -> [pc : {"free", "next", "sending"}, batch : Seq(Line),
                                targets : Seq(Viewer)]]
      /\ lock \in [Viewer -> Handler \cup {NoOne}] /\ conns \in Seq(Viewer)
      /\ viewer \in [Viewer -> [pc : {"off", "replay", "register", "live", "closed", "gone"},
                              read : Seq(Line), history : Seq(Line), live : Seq(Line),
                              early : BOOLEAN]]
  BY DEF TypeOK
<1>2. handler[h].pc = "sending" /\ handler[h].targets # <<>> /\ handler[h].targets \in Seq(Viewer)
  BY <1>1 DEF Sent, LogInv, Targeted
<1> DEFINE t == handler[h].targets
           v == Head(t)
<1>3. /\ v \in Viewer /\ v = t[1] /\ Tail(t) \in Seq(Viewer)
      /\ \A i \in 1..Len(Tail(t)) : i + 1 \in 1..Len(t) /\ Tail(t)[i] = t[i + 1]
      /\ Once(Tail(t))
  BY <1>2, TailProperties DEF LogInv, Targeted
<1>4. 1 \in 1..Len(t) BY <1>2, EmptySeq
<1>5. viewer[v].pc \in {"live", "closed", "gone"} BY <1>3, <1>4 DEF LogInv, Targeted
<1>6. /\ handler'[h].pc = "next" /\ handler'[h].targets = Tail(t)
      /\ \A g \in Handler : g # h => handler'[g] = handler[g]
      /\ lock' = [lock EXCEPT ![v] = IF @ = h THEN NoOne ELSE @]
  <2>1. handler[h] \in [pc : {"free", "next", "sending"}, batch : Seq(Line), targets : Seq(Viewer)]
    BY DEF TypeOK
  <2>2. handler' = [handler EXCEPT ![h].pc = "next", ![h].targets = Tail(@)]
    BY <1>1 DEF Sent
  <2>3. \A g \in Handler : g # h => handler'[g] = handler[g] BY <2>2 DEF TypeOK
  <2>4. handler'[h] = [handler[h] EXCEPT !.pc = "next", !.targets = Tail(@)]
    BY <2>2 DEF TypeOK
  <2>5. handler'[h].pc = "next" /\ handler'[h].targets = Tail(t) BY <2>1, <2>4
  <2>6. lock' = [lock EXCEPT ![v] = IF @ = h THEN NoOne ELSE @] BY <1>1 DEF Sent
  <2>7. QED BY <2>3, <2>5, <2>6
<1>7. \/ /\ viewer[v].pc = "live" /\ conns' = conns
         /\ viewer' = [viewer EXCEPT ![v].live = @ \o handler[h].batch]
      \/ viewer[v].pc # "live" /\ viewer' = viewer /\ conns' = Without(v)
  BY <1>5 DEF Sent
<1> HIDE DEF v, t
<1>8. /\ \A u \in Viewer : viewer'[u].pc = viewer[u].pc /\ viewer'[u].early = viewer[u].early
      /\ \A u \in Viewer : viewer[u].pc # "live" => viewer'[u] = viewer[u]
  <2>1. CASE viewer' = viewer BY <2>1
  <2>2. CASE viewer[v].pc = "live" /\ viewer' = [viewer EXCEPT ![v].live = @ \o handler[h].batch]
    <3>1. \A u \in Viewer : u # v => viewer'[u] = viewer[u] BY <2>2, <1>1
    <3>2. viewer'[v] = [viewer[v] EXCEPT !.live = @ \o handler[h].batch] BY <2>2, <1>1, <1>3
    <3>3. viewer'[v].pc = viewer[v].pc /\ viewer'[v].early = viewer[v].early BY <3>2, <1>1, <1>3
    <3>4. QED BY <3>1, <3>3, <2>2
  <2>3. QED BY <1>7, <2>1, <2>2
<1>9. Registered'
  <2>1. CASE conns' = conns
    <3>1. \A i \in 1..Len(conns) : conns[i] \in Viewer BY <1>1, ElementOfSeq
    <3>2. QED BY <2>1, <3>1, <1>8 DEF LogInv, Registered
  <2>2. CASE conns' = Without(v) /\ viewer[v].pc # "live"
    <3>1. /\ conns' \in Seq(Viewer) /\ Once(conns')
          /\ \A i \in 1..Len(conns') : Contains(conns, conns'[i])
          /\ \A u \in Viewer : u # v /\ Contains(conns, u) => Contains(conns', u)
      BY <1>1, <1>3, <2>2, WithoutProperties DEF LogInv, Registered
    <3>2. \A i \in 1..Len(conns') : conns'[i] \in Viewer BY <3>1, ElementOfSeq
    <3>3. \A i \in 1..Len(conns') : viewer'[conns'[i]].pc \in {"live", "closed"}
      BY <3>1, <3>2, <1>8 DEF LogInv, Registered, Contains
    <3>4. \A u \in Viewer : viewer'[u].pc = "live" => Contains(conns', u)
      BY <3>1, <1>8, <2>2 DEF LogInv, Registered
    <3>5. QED BY <3>1, <3>3, <3>4 DEF Registered
  <2>3. QED BY <1>7, <2>1, <2>2
<1>10. Targeted'
  <2>1. SUFFICES ASSUME NEW g \in Handler
                 PROVE /\ \A i \in 1..Len(handler'[g].targets) :
                            viewer'[handler'[g].targets[i]].pc \in {"live", "closed", "gone"}
                       /\ Once(handler'[g].targets)
                       /\ handler'[g].pc = "sending" => handler'[g].targets # <<>>
    BY DEF Targeted
  <2>2. \A i \in 1..Len(handler[g].targets) : handler[g].targets[i] \in Viewer
    BY <1>1, ElementOfSeq
  <2>3. \A i \in 1..Len(handler[g].targets) :
          viewer'[handler[g].targets[i]].pc \in {"live", "closed", "gone"}
    BY <2>2, <1>8 DEF LogInv, Targeted
  <2>4. CASE g # h BY <2>3, <2>4, <1>6 DEF LogInv, Targeted
  <2>5. CASE g = h BY <2>3, <2>5, <1>3, <1>6 DEF t
  <2>6. QED BY <2>4, <2>5
<1>11. Before' BY <1>8 DEF LogInv, Before
<1>12. Locked'
  <2>1. SUFFICES ASSUME NEW g \in Handler, handler'[g].pc = "sending",
                        Contains(conns', Head(handler'[g].targets))
                 PROVE  lock'[Head(handler'[g].targets)] = g
    BY DEF Locked
  <2>2. g # h /\ handler'[g] = handler[g] /\ handler[g].pc = "sending" BY <2>1, <1>6
  <2>3. handler[g].targets # <<>> /\ handler[g].targets \in Seq(Viewer)
    BY <2>2, <1>1 DEF LogInv, Targeted
  <2>4. Head(handler[g].targets) \in Viewer BY <2>3, TailProperties
  <2>5. \A u : Contains(conns', u) => Contains(conns, u)
    <3>1. CASE conns' = conns BY <3>1
    <3>2. CASE conns' = Without(v)
      <4>1. \A i \in 1..Len(Without(v)) : Contains(conns, Without(v)[i])
        BY <1>1, <1>3, WithoutProperties DEF LogInv, Registered
      <4>2. QED BY <4>1, <3>2 DEF Contains
    <3>3. QED BY <1>7, <3>1, <3>2
  <2>6. lock[Head(handler[g].targets)] = g BY <2>1, <2>2, <2>5 DEF LogInv, Locked
  <2>7. QED BY <2>2, <2>4, <2>6, <1>1, <1>3, <1>6
<1>13. QED BY <1>9, <1>10, <1>11, <1>12 DEF LogInv

\* Nothing is left to send.
LEMMA AnswerSafe ==
  ASSUME TypeOK, LogInv, NEW h \in Handler, Answer(h)
  PROVE  LogInv'
<1>1. handler \in [Handler -> [pc : {"free", "next", "sending"}, batch : Seq(Line),
                             targets : Seq(Viewer)]]
  BY DEF TypeOK
<1>2. /\ handler'[h].pc = "free" /\ handler'[h].targets = <<>>
      /\ \A g \in Handler : g # h => handler'[g] = handler[g]
      /\ UNCHANGED <<viewer, conns, lock>>
  BY <1>1 DEF Answer, Free
<1>3. Registered' BY <1>2 DEF LogInv, Registered
<1>4. Targeted'
  <2>1. Len(<<>>) = 0 OBVIOUS
  <2>2. QED BY <2>1, <1>2 DEF LogInv, Targeted, Once
<1>5. Before' BY <1>2 DEF LogInv, Before
<1>6. Locked' BY <1>2 DEF LogInv, Locked
<1>7. QED BY <1>3, <1>4, <1>5, <1>6 DEF LogInv

\* A socket on its way to being registered is nobody's target.
LEMMA ComingSafe ==
  ASSUME TypeOK, LogInv, NEW v \in Viewer, Open(v) \/ Replay(v)
  PROVE  LogInv'
<1>1. viewer \in [Viewer -> [pc : {"off", "replay", "register", "live", "closed", "gone"},
                            read : Seq(Line), history : Seq(Line), live : Seq(Line),
                            early : BOOLEAN]]
  BY DEF TypeOK
<1>2. /\ viewer[v].pc \in {"off", "replay"} /\ viewer'[v].pc \in {"replay", "register"}
      /\ viewer'[v].live = viewer[v].live /\ viewer'[v].early = viewer[v].early
      /\ \A u \in Viewer : u # v => viewer'[u] = viewer[u]
      /\ UNCHANGED <<handler, conns, lock>>
  BY <1>1 DEF Open, Replay
<1>3. /\ \A i \in 1..Len(conns) : conns[i] \in Viewer
      /\ \A h \in Handler : \A i \in 1..Len(handler[h].targets) : handler[h].targets[i] \in Viewer
  BY ElementOfSeq DEF TypeOK
<1>4. Registered' BY <1>2, <1>3 DEF LogInv, Registered
<1>5. Targeted' BY <1>2, <1>3 DEF LogInv, Targeted
<1>6. Before' BY <1>2 DEF LogInv, Before
<1>7. Locked' BY <1>2 DEF LogInv, Locked
<1>8. QED BY <1>4, <1>5, <1>6, <1>7 DEF LogInv

\* A socket is registered that was in no list.
LEMMA RegisterSafe ==
  ASSUME TypeOK, LogInv, NEW v \in Viewer, Register(v)
  PROVE  LogInv'
<1>1. /\ conns \in Seq(Viewer)
      /\ viewer \in [Viewer -> [pc : {"off", "replay", "register", "live", "closed", "gone"},
                              read : Seq(Line), history : Seq(Line), live : Seq(Line),
                              early : BOOLEAN]]
  BY DEF TypeOK
<1>2. /\ viewer[v].pc = "register" /\ viewer'[v].pc = "live"
      /\ \A u \in Viewer : u # v => viewer'[u] = viewer[u]
      /\ conns' = Append(conns, v) /\ UNCHANGED <<handler, lock>>
  BY <1>1 DEF Register
<1>3. ~Contains(conns, v) BY <1>2 DEF LogInv, Registered, Contains
<1>4. /\ Once(conns') /\ Contains(conns', v)
      /\ \A u : Contains(conns, u) => Contains(conns', u)
      /\ \A i \in 1..Len(conns') : conns'[i] = v \/ Contains(conns, conns'[i])
  BY <1>1, <1>2, <1>3, AppendOnce DEF LogInv, Registered
<1>5. Registered'
  <2>1. \A i \in 1..Len(conns) : conns[i] \in Viewer BY <1>1, ElementOfSeq
  <2>2. \A i \in 1..Len(conns') : viewer'[conns'[i]].pc \in {"live", "closed"}
    BY <2>1, <1>2, <1>4 DEF LogInv, Registered, Contains
  <2>3. \A u \in Viewer : viewer'[u].pc = "live" => Contains(conns', u)
    BY <1>2, <1>4 DEF LogInv, Registered
  <2>4. QED BY <1>4, <2>2, <2>3 DEF Registered
<1>6. \A h \in Handler : \A i \in 1..Len(handler[h].targets) : handler[h].targets[i] \in Viewer
  BY ElementOfSeq DEF TypeOK
<1>7. Targeted' BY <1>2, <1>6 DEF LogInv, Targeted
<1>8. Before' BY <1>2 DEF LogInv, Before
<1>9. Locked'
  <2>1. SUFFICES ASSUME NEW h \in Handler, handler[h].pc = "sending",
                        Contains(conns', Head(handler[h].targets))
                 PROVE  lock[Head(handler[h].targets)] = h
    BY <1>2 DEF Locked
  <2>2. handler[h].targets # <<>> /\ handler[h].targets \in Seq(Viewer)
    BY <2>1 DEF TypeOK, LogInv, Targeted
  <2>3. Head(handler[h].targets) = handler[h].targets[1] /\ 1 \in 1..Len(handler[h].targets)
    BY <2>2, TailProperties, EmptySeq
  <2>4. Head(handler[h].targets) # v BY <2>3, <1>2 DEF LogInv, Targeted
  <2>5. Contains(conns, Head(handler[h].targets)) BY <2>1, <2>4, <1>4 DEF Contains
  <2>6. QED BY <2>1, <2>5 DEF LogInv, Locked
<1>10. QED BY <1>5, <1>7, <1>8, <1>9 DEF LogInv

\* The operator is gone, the registration not yet; then both are.
LEMMA CloseSafe ==
  ASSUME TypeOK, LogInv, NEW v \in Viewer, Close(v)
  PROVE  LogInv'
<1>1. viewer \in [Viewer -> [pc : {"off", "replay", "register", "live", "closed", "gone"},
                            read : Seq(Line), history : Seq(Line), live : Seq(Line),
                            early : BOOLEAN]]
  BY DEF TypeOK
<1>2. /\ viewer'[v].pc = "closed" /\ \A u \in Viewer : u # v => viewer'[u] = viewer[u]
      /\ UNCHANGED <<handler, conns, lock>>
  BY <1>1 DEF Close
<1>3. /\ \A i \in 1..Len(conns) : conns[i] \in Viewer
      /\ \A h \in Handler : \A i \in 1..Len(handler[h].targets) : handler[h].targets[i] \in Viewer
  BY ElementOfSeq DEF TypeOK
<1>4. Registered' BY <1>2, <1>3 DEF LogInv, Registered
<1>5. Targeted' BY <1>2, <1>3 DEF LogInv, Targeted
<1>6. Before' BY <1>2 DEF LogInv, Before
<1>7. Locked' BY <1>2 DEF LogInv, Locked
<1>8. QED BY <1>4, <1>5, <1>6, <1>7 DEF LogInv

LEMMA DisconnectSafe ==
  ASSUME TypeOK, LogInv, NEW v \in Viewer, Disconnect(v)
  PROVE  LogInv' /\ ~Contains(conns', v)
<1>1. /\ conns \in Seq(Viewer) /\ lock \in [Viewer -> Handler \cup {NoOne}]
      /\ viewer \in [Viewer -> [pc : {"off", "replay", "register", "live", "closed", "gone"},
                              read : Seq(Line), history : Seq(Line), live : Seq(Line),
                              early : BOOLEAN]]
  BY DEF TypeOK
<1>2. /\ viewer'[v].pc = "gone" /\ \A u \in Viewer : u # v => viewer'[u] = viewer[u]
      /\ conns' = Without(v) /\ UNCHANGED handler
      /\ lock'[v] = NoOne /\ \A u \in Viewer : u # v => lock'[u] = lock[u]
  BY <1>1 DEF Disconnect
<1>3. /\ conns' \in Seq(Viewer) /\ Once(conns') /\ ~Contains(conns', v)
      /\ \A i \in 1..Len(conns') : Contains(conns, conns'[i])
      /\ \A u \in Viewer : u # v /\ Contains(conns, u) => Contains(conns', u)
  BY <1>1, <1>2, WithoutProperties DEF LogInv, Registered
<1>4. /\ \A i \in 1..Len(conns') : conns'[i] \in Viewer /\ conns'[i] # v
      /\ \A h \in Handler : \A i \in 1..Len(handler[h].targets) : handler[h].targets[i] \in Viewer
  BY <1>3, ElementOfSeq DEF TypeOK, Contains
<1>5. Registered'
  <2>1. \A i \in 1..Len(conns') : viewer'[conns'[i]].pc \in {"live", "closed"}
    BY <1>2, <1>3, <1>4 DEF LogInv, Registered, Contains
  <2>2. \A u \in Viewer : viewer'[u].pc = "live" => Contains(conns', u)
    BY <1>2, <1>3 DEF LogInv, Registered
  <2>3. QED BY <1>3, <2>1, <2>2 DEF Registered
<1>6. Targeted' BY <1>2, <1>4 DEF LogInv, Targeted
<1>7. Before' BY <1>2 DEF LogInv, Before
<1>8. Locked'
  <2>1. SUFFICES ASSUME NEW h \in Handler, handler[h].pc = "sending",
                        Contains(conns', Head(handler[h].targets))
                 PROVE  lock'[Head(handler[h].targets)] = h
    BY <1>2 DEF Locked
  <2>2. /\ Contains(conns, Head(handler[h].targets)) /\ Head(handler[h].targets) \in Viewer
        /\ Head(handler[h].targets) # v
    BY <2>1, <1>3, <1>4 DEF Contains
  <2>3. QED BY <2>1, <2>2, <1>2 DEF LogInv, Locked
<1>9. QED BY <1>3, <1>5, <1>6, <1>7, <1>8 DEF LogInv

LEMMA LogInvStep == LogStreamAssumption /\ TypeOK /\ LogInv /\ [Next]_vars => LogInv'
<1> SUFFICES ASSUME LogStreamAssumption, TypeOK, LogInv, [Next]_vars PROVE LogInv' OBVIOUS
<1>1. ASSUME UNCHANGED <<handler, viewer, conns, lock>> PROVE LogInv'
  <2>1. Registered' BY <1>1 DEF LogInv, Registered
  <2>2. Targeted' BY <1>1 DEF LogInv, Targeted
  <2>3. Before' BY <1>1 DEF LogInv, Before
  <2>4. Locked' BY <1>1 DEF LogInv, Locked
  <2>5. QED BY <2>1, <2>2, <2>3, <2>4 DEF LogInv
<1>2. CASE Say BY <1>1, <1>2 DEF Say, api
<1>3. CASE Drain BY <1>1, <1>3 DEF Drain, api
<1>4. CASE Exit BY <1>1, <1>4 DEF Exit, api
<1>5. CASE FinalDrain BY <1>1, <1>5 DEF FinalDrain, api
<1>6. CASE Finalise BY <1>1, <1>6 DEF Finalise, api
<1>7. CASE Shutdown BY <1>1, <1>7 DEF Shutdown, api
<1>8. CASE FlushFails \/ RetryFails \/ PostTimesOut
  BY <1>1, <1>8 DEF FlushFails, RetryFails, PostTimesOut, api
<1>9. CASE Flush
  <2>1. CASE buffer = <<>> BY <1>1, <1>9, <2>1 DEF Flush
  <2>2. CASE buffer # <<>>
    <3>1. PICK h \in Handler : Arrives(h, buffer) BY <1>9, <2>2 DEF Flush
    <3>2. QED BY <1>9, <3>1, ArrivesSafe DEF Flush
  <2>3. QED BY <2>1, <2>2
<1>10. CASE Retry
  <2>1. PICK h \in Handler : Arrives(h, fl.batch) BY <1>10 DEF Retry
  <2>2. QED BY <1>10, <2>1, ArrivesSafe DEF Retry
<1>11. CASE \E h \in Handler : HandlerStep(h)
  BY <1>11, BeginSafe, SentSafe, AnswerSafe DEF HandlerStep
<1>12. CASE \E v \in Viewer : Open(v) \/ Replay(v) \/ Register(v) \/ Close(v) \/ Disconnect(v)
  BY <1>12, ComingSafe, RegisterSafe, CloseSafe, DisconnectSafe
<1>13. CASE UNCHANGED vars BY <1>1, <1>13 DEF vars, api
<1>14. QED
  BY <1>2, <1>3, <1>4, <1>5, <1>6, <1>7, <1>8, <1>9, <1>10, <1>11, <1>12, <1>13
  DEF Next, WorkerStep, FlusherStep

LEMMA LogSound == LogStreamAssumption => (Spec => [](TypeOK /\ LogInv))
<1> SUFFICES ASSUME LogStreamAssumption PROVE Spec => [](TypeOK /\ LogInv) OBVIOUS
<1>1. Init => TypeOK /\ LogInv BY LogTypeInit, LogInvInit
<1>2. TypeOK /\ LogInv /\ [Next]_vars => (TypeOK /\ LogInv)' BY LogTypeStep, LogInvStep
<1>3. QED BY <1>1, <1>2, PTL DEF Spec

\* routers/websocket.py: whatever the network, the stops and the operators do, a socket that
\* is registered has one writer, no live line overtakes the history, and no registration
\* outlives its connection.
THEOREM SocketsAreSound ==
  LogStreamAssumption => (Spec => [](TypeOK /\ SingleWriter /\ HistoryFirst /\ NoLeak))
<1> SUFFICES ASSUME LogStreamAssumption
             PROVE  Spec => [](TypeOK /\ SingleWriter /\ HistoryFirst /\ NoLeak)
  OBVIOUS
<1>1. ASSUME TypeOK, LogInv PROVE SingleWriter /\ HistoryFirst /\ NoLeak
  <2>1. HistoryFirst BY <1>1 DEF LogInv, Before, HistoryFirst
  <2>2. NoLeak BY <1>1 DEF LogInv, Registered, NoLeak, Contains
  <2>3. SingleWriter
    <3>1. SUFFICES ASSUME NEW v \in Viewer, NEW g \in Handler, NEW h \in Handler,
                          Contains(conns, v), g # h,
                          handler[g].pc = "sending", handler[h].pc = "sending",
                          Head(handler[g].targets) = v, Head(handler[h].targets) = v
                   PROVE  FALSE
      BY DEF SingleWriter
    <3>2. lock[v] = g /\ lock[v] = h BY <1>1, <3>1 DEF LogInv, Locked
    <3>3. QED BY <3>1, <3>2
  <2>4. QED BY <2>1, <2>2, <2>3
<1>2. QED BY <1>1, LogSound, PTL
-----------------------------------------------------------------------------
(* The lines.                                                              *)

\* The first n lines, and what the execution has said up to now.
Lines(n) == [i \in 1..n |-> i]
Told == IF mon \in {"write", "done"} THEN Append(Lines(said), End) ELSE Lines(said)

LEMMA LinesProperties ==
  ASSUME LogStreamAssumption, NEW n \in 0..MaxLines
  PROVE  /\ Lines(n) \in Seq(Line) /\ Len(Lines(n)) = n
         /\ n < MaxLines => Lines(n + 1) = Append(Lines(n), n + 1)
<1>1. /\ MaxLines \in Nat /\ Line = 0..MaxLines BY LogConstants
<1>2. ASSUME NEW m \in 0..MaxLines PROVE Lines(m) \in Seq(Line) /\ Len(Lines(m)) = m
  <2>1. m \in Nat /\ Lines(m) \in [1..m -> Line] BY <1>1 DEF Lines
  <2>2. Lines(m) \in Seq(Line) BY <2>1, SeqDef
  <2>3. DOMAIN Lines(m) = 1..m BY <2>1
  <2>4. Len(Lines(m)) \in Nat /\ DOMAIN Lines(m) = 1..Len(Lines(m)) BY <2>2, LenProperties
  <2>5. Len(Lines(m)) = m
    <3> DEFINE k == Len(Lines(m))
    <3>1. k \in Nat /\ 1..k = 1..m BY <2>3, <2>4
    <3> HIDE DEF k
    <3>2. k <= m
      <4>1. SUFFICES ASSUME k > m PROVE FALSE BY <3>1, <2>1
      <4>2. k \in 1..k BY <3>1, <4>1, <2>1
      <4>3. QED BY <4>1, <4>2, <3>1, <2>1
    <3>3. m <= k
      <4>1. SUFFICES ASSUME m > k PROVE FALSE BY <3>1, <2>1
      <4>2. m \in 1..m BY <3>1, <4>1, <2>1
      <4>3. QED BY <4>1, <4>2, <3>1, <2>1
    <3>4. QED BY <3>1, <3>2, <3>3, <2>1 DEF k
  <2>6. QED BY <2>2, <2>5
<1>3. ASSUME n < MaxLines PROVE Lines(n + 1) = Append(Lines(n), n + 1)
  <2>1. n + 1 \in 0..MaxLines /\ n + 1 \in Line BY <1>1, <1>3
  <2>2. /\ Lines(n + 1) \in Seq(Line) /\ Len(Lines(n + 1)) = n + 1
        /\ Lines(n) \in Seq(Line) /\ Len(Lines(n)) = n
    BY <1>2, <2>1
  <2> DEFINE a == Append(Lines(n), n + 1)
  <2>3. /\ a \in Seq(Line) /\ Len(a) = n + 1 /\ a[n + 1] = n + 1
        /\ \A i \in 1..n : a[i] = Lines(n)[i]
    BY <2>1, <2>2, AppendProperties
  <2> HIDE DEF a
  <2>4. \A i \in 1..(n + 1) : Lines(n + 1)[i] = i BY DEF Lines
  <2>5. \A i \in 1..n : Lines(n)[i] = i BY DEF Lines
  <2>6. \A i \in 1..(n + 1) : Lines(n + 1)[i] = a[i]
    <3>1. TAKE i \in 1..(n + 1)
    <3>2. i = n + 1 \/ i \in 1..n BY <1>1
    <3>3. QED BY <3>2, <2>3, <2>4, <2>5
  <2>7. Lines(n + 1) = a BY <2>2, <2>3, <2>6, SeqEqual
  <2>8. QED BY <2>7 DEF a
<1>4. QED BY <1>2, <1>3

\* What comes at the end of the second comes at the end of both.
LEMMA AppendConcat ==
  ASSUME NEW S, NEW s \in Seq(S), NEW t \in Seq(S), NEW e \in S
  PROVE  s \o Append(t, e) = Append(s \o t, e)
<1>1. <<e>> \in Seq(S) /\ s \o t \in Seq(S) BY ConcatProperties
<1>2. Append(t, e) = t \o <<e>> /\ Append(s \o t, e) = (s \o t) \o <<e>>
  BY <1>1, AppendIsConcat
<1>3. QED BY <1>1, <1>2, ConcatAssociative

\* At the end nothing stays in the pipe unless somebody holds it open.
LEMMA AllDrained ==
  ASSUME TypeOK, ~Held, FinalDrain
  PROVE  /\ kept' = Upto(kept \o pipe, MaxKept) /\ buffer' = Append(buffer \o pipe, End)
         /\ pipe' = <<>>
<1>1. pipe \in Seq(Line) /\ Len(pipe) \in Nat BY LenProperties DEF TypeOK
<1>2. SubSeq(pipe, 1, Len(pipe)) = pipe /\ SubSeq(pipe, Len(pipe) + 1, Len(pipe)) = <<>>
  BY <1>1, SubSeqFull, SubSeqEmpty
<1>3. QED BY <1>2 DEF FinalDrain
-----------------------------------------------------------------------------
(* To the database: what was kept and what is yet to be drained.           *)

Stored ==
  /\ kept \o pipe = Lines(said)
  /\ mon \in {"write", "done"} => pipe = <<>>
  /\ mon = "done" => row = kept

LEMMA StoredStep ==
  ASSUME LogStreamAssumption, ~Held, MaxLines <= MaxKept, TypeOK, Stored, [Next]_vars
  PROVE  Stored'
<1>1. /\ pipe \in Seq(Line) /\ kept \in Seq(Line) /\ said \in 0..MaxLines /\ MaxKept \in Nat
      /\ MaxLines \in Nat
  BY LogConstants DEF TypeOK
<1>2. kept \o pipe \in Seq(Line) /\ Len(kept \o pipe) = said
  BY <1>1, LinesProperties DEF Stored
<1>3. Upto(kept \o pipe, MaxKept) = kept \o pipe
  <2>1. Len(kept \o pipe) <= MaxKept BY <1>1, <1>2
  <2> DEFINE s == kept \o pipe
  <2>2. s \in Seq(Line) /\ Len(s) <= MaxKept BY <1>2, <2>1
  <2> HIDE DEF s
  <2>3. Upto(s, MaxKept) = s BY <1>1, <2>2, UptoProperties
  <2>4. QED BY <2>3 DEF s
<1>4. (kept \o pipe) \o <<>> = kept \o pipe BY <1>2, ConcatEmptySeq
<1>5. CASE Say
  <2>1. said + 1 \in Line /\ said < MaxLines BY <1>1, <1>5 DEF Say, Line
  <2>2. kept \o Append(pipe, said + 1) = Append(kept \o pipe, said + 1)
    BY <1>1, <2>1, AppendConcat
  <2>3. QED BY <1>1, <1>5, <2>1, <2>2, LinesProperties DEF Say, Stored
<1>6. CASE Drain BY <1>3, <1>4, <1>6 DEF Drain, Drained, Stored
<1>7. CASE Exit BY <1>7 DEF Exit, Stored
<1>8. CASE FinalDrain BY <1>3, <1>4, <1>8, AllDrained DEF FinalDrain, Stored
<1>9. CASE Finalise BY <1>9 DEF Finalise, Stored
<1>10. ASSUME UNCHANGED work PROVE Stored' BY <1>10 DEF work, Stored
<1>11. CASE Shutdown \/ FlusherStep \/ FlushFails \/ RetryFails \/ PostTimesOut
  BY <1>10, <1>11 DEF Shutdown, FlusherStep, Flush, Retry, FlushFails, RetryFails, PostTimesOut
<1>12. CASE \E h \in Handler : HandlerStep(h)
  BY <1>10, <1>12 DEF HandlerStep, Begin, Sent, Answer
<1>13. CASE \E v \in Viewer : Open(v) \/ Replay(v) \/ Register(v) \/ Close(v) \/ Disconnect(v)
  BY <1>10, <1>13 DEF Open, Replay, Register, Close, Disconnect
<1>14. CASE UNCHANGED vars BY <1>10, <1>14 DEF vars
<1>15. QED
  BY <1>5, <1>6, <1>7, <1>8, <1>9, <1>11, <1>12, <1>13, <1>14 DEF Next, WorkerStep

\* worker.py: whatever the network loses, and whenever the worker is asked to stop, a log
\* that fits the cap is in the database when all is over.
THEOREM LogIsStored ==
  LogStreamAssumption /\ ~Held /\ MaxLines <= MaxKept => (Spec => []Preserved)
<1> SUFFICES ASSUME LogStreamAssumption, ~Held, MaxLines <= MaxKept PROVE Spec => []Preserved
  OBVIOUS
<1>1. Init => Stored
  <2>1. SUFFICES ASSUME Init PROVE Stored OBVIOUS
  <2>2. kept = <<>> /\ pipe = <<>> /\ said = 0 /\ mon = "run" BY <2>1 DEF Init
  <2>3. 0 \in 0..MaxLines BY LogConstants
  <2>4. Lines(0) \in Seq(Line) /\ Len(Lines(0)) = 0 BY <2>3, LinesProperties
  <2>5. Lines(0) = <<>> BY <2>4, EmptySeq
  <2>6. QED BY <2>2, <2>5 DEF Stored
<1>2. TypeOK /\ Stored /\ [Next]_vars => Stored' BY StoredStep
<1>3. ASSUME TypeOK, Stored PROVE Preserved
  <2>1. SUFFICES ASSUME Quiet, NEW n \in 1..said PROVE Contains(row, n) BY DEF Preserved
  <2>2. kept \in Seq(Line) /\ said \in 0..MaxLines BY <1>3 DEF TypeOK
  <2>3. row = kept \o <<>> /\ kept \o <<>> = Lines(said) BY <1>3, <2>1, <2>2, ConcatEmptySeq DEF Quiet, Stored
  <2>4. Len(row) = said /\ row[n] = n BY <2>2, <2>3, LinesProperties DEF Lines
  <2>5. QED BY <2>4 DEF Contains
<1>4. QED BY <1>1, <1>2, <1>3, LogSound, PTL DEF Spec
-----------------------------------------------------------------------------
(* To the screens, over a sound network and until the execution ends.      *)

\* A batch of a whole log is within the size of a message.
SoundNetwork == ~Unreliable /\ ~Stops /\ ~Held /\ MaxLines < MaxMessage

\* One POST at a time: the flusher waits for the answer of the handler that has its batch.
OnePost ==
  /\ ~down /\ fl.pc \in {"wait", "posted"}
  /\ fl.pc = "wait" => fl = Waiting
  /\ fl.pc = "posted" =>
       fl.at \in Handler /\ handler[fl.at].pc # "free" /\ handler[fl.at].batch = fl.batch
  /\ \A h \in Handler : h # fl.at => handler[h].pc = "free"

\* What is buffered or not drained was said; nothing is while nothing was said.
Counted ==
  /\ mon \in {"write", "done"} => pipe = <<>>
  /\ Len(buffer) + Len(pipe) <= Len(Told)
  /\ said = 0 /\ mon = "run" => pipe = <<>> /\ buffer = <<>> /\ fl.pc = "wait"

\* The batch that v's socket is still to be sent.
Due(v) ==
  IF fl.pc = "posted" /\ Contains(handler[fl.at].targets, v) THEN fl.batch ELSE <<>>

\* A live viewer was shown all but what is on its way; one that left, a beginning.
ShownTo(v) ==
  IF viewer[v].pc = "live" THEN (viewer[v].live \o Due(v)) \o (buffer \o pipe) = Told
  ELSE \E rest \in Seq(Line) : viewer[v].live \o rest = Told

FlowInv == OnePost /\ Counted /\ \A v \in Viewer : viewer[v].early => ShownTo(v)

LEMMA Regrouped ==
  \A s, t, u \in Seq(Line) : (s \o t) \o u = s \o (t \o u) /\ t \o u \in Seq(Line)
BY ConcatAssociative, ConcatProperties

\* A line appended to the second of two sequences is appended to both.
LEMMA LineAppended ==
  \A s, t \in Seq(Line), e \in Line :
    s \o Append(t, e) = Append(s \o t, e) /\ Append(t, e) \in Seq(Line)
BY AppendConcat, AppendProperties

LEMMA ToldProperties ==
  ASSUME LogStreamAssumption, TypeOK
  PROVE  Told \in Seq(Line) /\ Len(Told) \in Nat /\ Len(Told) <= MaxLines + 1
<1>1. /\ said \in 0..MaxLines /\ MaxLines \in Nat /\ End \in Line
      /\ Lines(said) \in Seq(Line) /\ Len(Lines(said)) = said
  BY LogConstants, LinesProperties DEF TypeOK
<1>2. CASE mon \in {"write", "done"} BY <1>1, <1>2, AppendProperties DEF Told
<1>3. CASE mon \notin {"write", "done"} BY <1>1, <1>3 DEF Told
<1>4. QED BY <1>2, <1>3

LEMMA DueType ==
  ASSUME TypeOK, NEW v \in Viewer
  PROVE  Due(v) \in Seq(Line) /\ viewer[v].live \in Seq(Line)
<1>1. fl.batch \in Seq(Line) /\ <<>> \in Seq(Line) BY EmptySeq DEF TypeOK
<1>2. QED BY <1>1 DEF Due, TypeOK

\* A step that says, drains, sends and shows nothing.
LEMMA ShownStill ==
  ASSUME UNCHANGED <<said, pipe, mon, buffer, fl, handler>>, NEW v \in Viewer,
         viewer'[v].pc = viewer[v].pc, viewer'[v].live = viewer[v].live, ShownTo(v)
  PROVE  ShownTo(v)'
<1>1. Told' = Told BY DEF Told
<1>2. Due(v)' = Due(v) BY DEF Due
<1>3. QED BY <1>1, <1>2 DEF ShownTo

\* A line that is said, or the last one, comes after everything.
LEMMA ShownGrows ==
  ASSUME LogStreamAssumption, TypeOK, NEW v \in Viewer, NEW e \in Line, ShownTo(v),
         UNCHANGED <<fl, handler, viewer>>, Told' = Append(Told, e),
         buffer' \o pipe' = Append(buffer \o pipe, e)
  PROVE  ShownTo(v)'
<1>1. Due(v)' = Due(v) BY DEF Due
<1>2. /\ viewer[v].live \in Seq(Line) /\ Due(v) \in Seq(Line) /\ buffer \in Seq(Line)
      /\ pipe \in Seq(Line)
  BY DueType DEF TypeOK
<1>3. viewer[v].live \o Due(v) \in Seq(Line) /\ buffer \o pipe \in Seq(Line)
  BY <1>2, ConcatProperties
<1>4. CASE viewer[v].pc = "live"
  <2>1. (viewer[v].live \o Due(v)) \o Append(buffer \o pipe, e)
          = Append((viewer[v].live \o Due(v)) \o (buffer \o pipe), e)
    <3> DEFINE a == viewer[v].live \o Due(v)
               b == buffer \o pipe
    <3>1. a \in Seq(Line) /\ b \in Seq(Line) BY <1>3
    <3> HIDE DEF a, b
    <3>2. a \o Append(b, e) = Append(a \o b, e) BY <3>1, LineAppended
    <3>3. QED BY <3>2 DEF a, b
  <2>2. QED BY <2>1, <1>1, <1>4 DEF ShownTo
<1>5. CASE viewer[v].pc # "live"
  <2>1. PICK rest \in Seq(Line) : viewer[v].live \o rest = Told BY <1>5 DEF ShownTo
  <2>2. Append(rest, e) \in Seq(Line) /\ viewer[v].live \o Append(rest, e) = Append(Told, e)
    <3> DEFINE a == viewer[v].live
    <3>1. a \in Seq(Line) /\ a \o rest = Told BY <1>2, <2>1
    <3> HIDE DEF a
    <3>2. Append(rest, e) \in Seq(Line) /\ a \o Append(rest, e) = Append(a \o rest, e)
      BY <3>1, AppendProperties, AppendConcat
    <3>3. QED BY <3>1, <3>2 DEF a
  <2>3. QED BY <2>2, <1>5 DEF ShownTo
<1>6. QED BY <1>4, <1>5

LEMMA FlowSay ==
  ASSUME LogStreamAssumption, TypeOK, FlowInv, Say
  PROVE  FlowInv'
<1>1. /\ said < MaxLines /\ mon = "run" /\ said' = said + 1 /\ pipe' = Append(pipe, said + 1)
      /\ UNCHANGED <<mon, buffer, fl, down, handler, viewer>>
  BY DEF Say, api
<1>2. /\ said \in 0..MaxLines /\ MaxLines \in Nat /\ said + 1 \in Line
      /\ pipe \in Seq(Line) /\ buffer \in Seq(Line) /\ Len(pipe) \in Nat /\ Len(buffer) \in Nat
  BY <1>1, LogConstants, LenProperties DEF TypeOK
<1>3. Told' = Append(Told, said + 1) BY <1>1, <1>2, LinesProperties DEF Told
<1>4. buffer' \o pipe' = Append(buffer \o pipe, said + 1) BY <1>1, <1>2, AppendConcat
<1>5. OnePost' BY <1>1 DEF FlowInv, OnePost
<1>6. Counted'
  <2>1. Len(Told') = Len(Told) + 1 /\ Len(pipe') = Len(pipe) + 1
    BY <1>1, <1>2, <1>3, ToldProperties, AppendProperties
  <2>2. Len(Told) \in Nat /\ Len(buffer) + Len(pipe) <= Len(Told)
    BY ToldProperties DEF FlowInv, Counted
  <2>3. Len(buffer') + Len(pipe') <= Len(Told') BY <2>1, <2>2, <1>1, <1>2
  <2>4. QED BY <2>3, <1>1, <1>2 DEF Counted
<1>7. ASSUME NEW v \in Viewer, viewer'[v].early PROVE ShownTo(v)'
  BY <1>1, <1>2, <1>3, <1>4, <1>7, ShownGrows DEF FlowInv
<1>8. QED BY <1>5, <1>6, <1>7 DEF FlowInv

LEMMA FlowDrain ==
  ASSUME LogStreamAssumption, TypeOK, FlowInv, Drain
  PROVE  FlowInv'
<1>1. /\ mon = "run" /\ pipe # <<>> /\ buffer' = buffer \o pipe /\ pipe' = <<>>
      /\ UNCHANGED <<said, mon, fl, down, handler, viewer>>
  BY DEF Drain, Drained, api
<1>2. pipe \in Seq(Line) /\ buffer \in Seq(Line) BY DEF TypeOK
<1>3. Told' = Told BY <1>1 DEF Told
<1>4. buffer' \o pipe' = buffer \o pipe /\ Len(buffer') = Len(buffer) + Len(pipe)
  BY <1>1, <1>2, ConcatProperties, ConcatEmptySeq
<1>5. OnePost' BY <1>1 DEF FlowInv, OnePost
<1>6. Counted'
  <2>1. Len(pipe') = 0 /\ Len(buffer) \in Nat /\ Len(pipe) \in Nat /\ Len(Told) \in Nat
    BY <1>1, <1>2, LenProperties, EmptySeq, ToldProperties
  <2>2. said # 0 BY <1>1 DEF FlowInv, Counted
  <2>3. Len(buffer) + Len(pipe) <= Len(Told) BY DEF FlowInv, Counted
  <2>4. Len(buffer') + Len(pipe') <= Len(Told') BY <2>1, <2>3, <1>3, <1>4
  <2>5. QED BY <2>2, <2>4, <1>1 DEF Counted
<1>7. ASSUME NEW v \in Viewer, viewer'[v].early PROVE ShownTo(v)'
  <2>1. ShownTo(v) BY <1>1, <1>7 DEF FlowInv
  <2>2. Due(v)' = Due(v) BY <1>1 DEF Due
  <2>3. QED BY <2>1, <2>2, <1>1, <1>3, <1>4 DEF ShownTo
<1>8. QED BY <1>5, <1>6, <1>7 DEF FlowInv

LEMMA FlowFinalDrain ==
  ASSUME LogStreamAssumption, ~Held, TypeOK, FlowInv, FinalDrain
  PROVE  FlowInv'
<1>1. /\ mon = "drain" /\ mon' = "write" /\ buffer' = Append(buffer \o pipe, End) /\ pipe' = <<>>
      /\ UNCHANGED <<said, fl, down, handler, viewer>>
  BY AllDrained DEF FinalDrain, api
<1>2. /\ pipe \in Seq(Line) /\ buffer \in Seq(Line) /\ End \in Line
      /\ buffer \o pipe \in Seq(Line) /\ buffer' \in Seq(Line)
      /\ Len(buffer') = Len(buffer) + Len(pipe) + 1
  <2>1. pipe \in Seq(Line) /\ buffer \in Seq(Line) /\ End \in Line BY LogConstants DEF TypeOK
  <2>2. buffer \o pipe \in Seq(Line) /\ Len(buffer \o pipe) = Len(buffer) + Len(pipe)
    BY <2>1, ConcatProperties
  <2>3. QED BY <2>1, <2>2, <1>1, AppendProperties
<1>3. Told' = Append(Told, End) BY <1>1 DEF Told
<1>4. buffer' \o pipe' = Append(buffer \o pipe, End) BY <1>1, <1>2, ConcatEmptySeq
<1>5. OnePost' BY <1>1 DEF FlowInv, OnePost
<1>6. Counted'
  <2>1. /\ Len(pipe') = 0 /\ Len(buffer) \in Nat /\ Len(pipe) \in Nat /\ Len(Told) \in Nat
        /\ Len(Told') = Len(Told) + 1
    BY <1>1, <1>2, <1>3, LenProperties, EmptySeq, ToldProperties, AppendProperties
  <2>2. Len(buffer) + Len(pipe) <= Len(Told) BY DEF FlowInv, Counted
  <2>3. Len(buffer') + Len(pipe') <= Len(Told') BY <2>1, <2>2, <1>2
  <2>4. QED BY <2>3, <1>1 DEF Counted
<1>7. ASSUME NEW v \in Viewer, viewer'[v].early PROVE ShownTo(v)'
  BY <1>1, <1>2, <1>3, <1>4, <1>7, ShownGrows DEF FlowInv
<1>8. QED BY <1>5, <1>6, <1>7 DEF FlowInv

\* The whole buffer leaves, for every live viewer: each is registered.
LEMMA FlowFlush ==
  ASSUME LogStreamAssumption, SoundNetwork, TypeOK, LogInv, FlowInv, Flush
  PROVE  FlowInv'
<1>1. ~down /\ buffer # <<>> /\ fl = Waiting BY DEF Flush, FlowInv, OnePost
<1>2. PICK h \in Handler : /\ handler[h].pc = "free" /\ Arrives(h, buffer)
                           /\ fl' = [fl EXCEPT !.pc = "posted", !.batch = buffer, !.at = h]
  BY <1>1 DEF Flush
<1>3. buffer' = <<>> /\ UNCHANGED <<said, pipe, mon, down, viewer, conns>>
  BY <1>1 DEF Flush, work
<1>4. /\ handler \in [Handler -> [pc : {"free", "next", "sending"}, batch : Seq(Line),
                                targets : Seq(Viewer)]]
      /\ buffer \in Seq(Line) /\ pipe \in Seq(Line)
  BY DEF TypeOK
<1>5. Upto(buffer, MaxMessage) = buffer
  <2>1. /\ Len(buffer) \in Nat /\ Len(pipe) \in Nat /\ MaxLines \in Nat /\ MaxMessage \in Nat
        /\ Len(Told) \in Nat /\ Len(Told) <= MaxLines + 1
    BY <1>4, LenProperties, LogConstants, ToldProperties
  <2>2. Len(buffer) + Len(pipe) <= Len(Told) BY DEF FlowInv, Counted
  <2>3. MaxLines < MaxMessage BY DEF SoundNetwork
  <2>4. Len(buffer) <= MaxMessage BY <2>1, <2>2, <2>3
  <2>5. QED BY <2>1, <2>4, <1>4, UptoProperties
<1>6. /\ handler'[h].pc = "next" /\ handler'[h].batch = buffer /\ handler'[h].targets = conns
      /\ \A g \in Handler : g # h => handler'[g] = handler[g]
  BY <1>2, <1>4, <1>5 DEF Arrives
<1>7. fl'.pc = "posted" /\ fl'.batch = buffer /\ fl'.at = h BY <1>1, <1>2 DEF Waiting
<1>8. \A g \in Handler : handler[g].pc = "free"
  <2>1. fl.at = NoOne BY <1>1 DEF Waiting
  <2>2. QED BY <2>1, LogConstants DEF FlowInv, OnePost
<1>9. OnePost' BY <1>1, <1>3, <1>6, <1>7, <1>8 DEF OnePost
<1>10. Told' = Told BY <1>3 DEF Told
<1>11. Counted'
  <2>1. Len(buffer') = 0 /\ Len(buffer) \in Nat /\ Len(pipe) \in Nat /\ Len(Told) \in Nat
    BY <1>3, <1>4, LenProperties, EmptySeq, ToldProperties
  <2>2. Len(buffer) + Len(pipe) <= Len(Told) BY DEF FlowInv, Counted
  <2>3. Len(buffer') + Len(pipe') <= Len(Told') BY <2>1, <2>2, <1>3, <1>10
  <2>4. ~(said = 0 /\ mon = "run") BY <1>1 DEF FlowInv, Counted
  <2>5. (mon \in {"write", "done"} => pipe = <<>>)' BY <1>3 DEF FlowInv, Counted
  <2>6. QED BY <2>3, <2>4, <2>5, <1>3 DEF Counted
<1>12. ASSUME NEW v \in Viewer, viewer'[v].early PROVE ShownTo(v)'
  <2>1. ShownTo(v) BY <1>3, <1>12 DEF FlowInv
  <2>2. CASE viewer[v].pc # "live" BY <2>1, <2>2, <1>3, <1>10 DEF ShownTo
  <2>3. CASE viewer[v].pc = "live"
    <3>1. Due(v) = <<>> BY <1>1 DEF Due, Waiting
    <3>2. Due(v)' = buffer BY <2>3, <1>6, <1>7 DEF Due, LogInv, Registered
    <3>3. viewer[v].live \in Seq(Line) BY DueType
    <3>4. viewer[v].live \o (buffer \o pipe) = Told
      BY <2>1, <2>3, <3>1, <3>3, ConcatEmptySeq DEF ShownTo
    <3>5. (viewer[v].live \o buffer) \o pipe = Told
      <4> DEFINE a == viewer[v].live
      <4>1. a \in Seq(Line) /\ a \o (buffer \o pipe) = Told BY <3>3, <3>4
      <4> HIDE DEF a
      <4>2. (a \o buffer) \o pipe = a \o (buffer \o pipe) BY <4>1, <1>4, Regrouped
      <4>3. QED BY <4>1, <4>2 DEF a
    <3>6. <<>> \o pipe = pipe BY <1>4, ConcatEmptySeq
    <3>7. QED BY <2>3, <3>2, <3>5, <3>6, <1>3, <1>10 DEF ShownTo
  <2>4. QED BY <2>2, <2>3
<1>13. QED BY <1>9, <1>11, <1>12 DEF FlowInv

\* What is sent to a live viewer is no longer due.
LEMMA FlowSent ==
  ASSUME LogStreamAssumption, TypeOK, LogInv, FlowInv, NEW h \in Handler, Sent(h)
  PROVE  FlowInv'
<1>1. /\ handler \in [Handler -> [pc : {"free", "next", "sending"}, batch : Seq(Line),
                                targets : Seq(Viewer)]]
      /\ viewer \in [Viewer -> [pc : {"off", "replay", "register", "live", "closed", "gone"},
                              read : Seq(Line), history : Seq(Line), live : Seq(Line),
                              early : BOOLEAN]]
  BY DEF TypeOK
<1> DEFINE t == handler[h].targets
<1>2. handler[h].pc = "sending" /\ t # <<>> /\ t \in Seq(Viewer) /\ Once(t)
  BY <1>1 DEF Sent, LogInv, Targeted
<1>3. PICK v \in Viewer : v = Head(t)
  BY <1>2, TailProperties
<1>4. /\ v \in Viewer /\ v = t[1] /\ 1 \in 1..Len(t) /\ Contains(t, v) /\ ~Contains(Tail(t), v)
      /\ \A u \in Viewer : u # v => (Contains(Tail(t), u) <=> Contains(t, u))
  BY <1>2, <1>3, TailProperties, EmptySeq
<1>5. fl.pc = "posted" /\ fl.at = h /\ handler[h].batch = fl.batch
  BY <1>2, LogConstants DEF FlowInv, OnePost, Waiting
<1>6. viewer[v].pc \in {"live", "closed", "gone"} BY <1>4 DEF LogInv, Targeted
<1>7. /\ handler'[h].pc = "next" /\ handler'[h].targets = Tail(t)
      /\ handler'[h].batch = handler[h].batch
      /\ \A g \in Handler : g # h => handler'[g] = handler[g]
      /\ UNCHANGED <<said, pipe, mon, buffer, fl, down>>
  BY <1>1 DEF Sent, work
<1>8. \/ /\ viewer[v].pc = "live"
         /\ viewer' = [viewer EXCEPT ![v].live = @ \o handler[h].batch]
      \/ viewer[v].pc # "live" /\ viewer' = viewer
  BY <1>6, <1>3 DEF Sent
<1> HIDE DEF t
<1>9. OnePost' BY <1>2, <1>5, <1>7 DEF FlowInv, OnePost
<1>10. Told' = Told BY <1>7 DEF Told
<1>11. Counted' BY <1>7, <1>10 DEF FlowInv, Counted
<1>12. ASSUME NEW u \in Viewer, u # v PROVE Due(u)' = Due(u)
  BY <1>4, <1>5, <1>7, <1>12 DEF Due, t
<1>13. Due(v) = handler[h].batch /\ Due(v)' = <<>>
  <2>1. Due(v) = handler[h].batch BY <1>4, <1>5 DEF Due, t
  <2>2. ~Contains(handler'[fl'.at].targets, v) BY <1>4, <1>5, <1>7
  <2>3. QED BY <2>1, <2>2 DEF Due, t
<1>14. ASSUME NEW u \in Viewer, viewer'[u].early PROVE ShownTo(u)'
  <2>1. CASE viewer'[u] = viewer[u] /\ (u # v \/ viewer[u].pc # "live")
    <3>1. ShownTo(u) BY <1>14, <2>1 DEF FlowInv
    <3>2. QED BY <3>1, <2>1, <1>7, <1>10, <1>12 DEF ShownTo
  <2>2. CASE u = v /\ viewer[v].pc = "live"
    <3>1. viewer' = [viewer EXCEPT ![v].live = @ \o handler[h].batch] BY <2>2, <1>8
    <3>2. viewer'[v] = [viewer[v] EXCEPT !.live = @ \o handler[h].batch] BY <3>1, <1>1, <1>4
    <3>3. /\ viewer'[v].pc = "live" /\ viewer'[v].early = viewer[v].early
          /\ viewer'[v].live = viewer[v].live \o handler[h].batch
      BY <3>2, <2>2, <1>1, <1>4
    <3>4. ShownTo(v) BY <1>14, <2>2, <3>3, <1>4 DEF FlowInv
    <3>5. viewer[v].live \o handler[h].batch \in Seq(Line)
      BY <1>1, <1>4, <1>13, DueType, ConcatProperties
    <3>6. viewer'[v].live \o Due(v)' = viewer[v].live \o Due(v)
      BY <3>3, <3>5, <1>13, ConcatEmptySeq
    <3>7. (viewer[v].live \o Due(v)) \o (buffer \o pipe) = Told BY <2>2, <3>4 DEF ShownTo
    <3>8. (viewer'[v].live \o Due(v)') \o (buffer' \o pipe') = Told'
      BY <3>6, <3>7, <1>7, <1>10
    <3>9. ShownTo(v)' BY <3>3, <3>8 DEF ShownTo, t
    <3>10. QED BY <2>2, <3>9
  <2>3. u # v => viewer'[u] = viewer[u] BY <1>1, <1>8
  <2>4. viewer[v].pc # "live" => viewer' = viewer BY <1>8
  <2>5. QED BY <2>1, <2>2, <2>3, <2>4
<1>15. QED BY <1>9, <1>11, <1>14 DEF FlowInv

LEMMA FlowAnswer ==
  ASSUME LogStreamAssumption, TypeOK, LogInv, FlowInv, NEW h \in Handler, Answer(h)
  PROVE  FlowInv'
<1>1. handler \in [Handler -> [pc : {"free", "next", "sending"}, batch : Seq(Line),
                             targets : Seq(Viewer)]]
  BY DEF TypeOK
<1>2. handler[h].pc = "next" /\ handler[h].targets = <<>> BY DEF Answer
<1>3. fl.pc = "posted" /\ fl.at = h /\ ~down
  BY <1>2, LogConstants DEF FlowInv, OnePost, Waiting
<1>4. /\ fl' = Waiting /\ handler'[h] = Free
      /\ \A g \in Handler : g # h => handler'[g] = handler[g]
      /\ UNCHANGED <<said, pipe, mon, buffer, down, viewer>>
  BY <1>1, <1>3 DEF Answer, LoopHead, Waiting, work
<1>5. OnePost' BY <1>3, <1>4 DEF FlowInv, OnePost, Waiting, Free
<1>6. Told' = Told BY <1>4 DEF Told
<1>7. Counted' BY <1>4, <1>6 DEF FlowInv, Counted, Waiting
<1>8. ASSUME NEW v \in Viewer, viewer'[v].early PROVE ShownTo(v)'
  <2>1. Len(<<>>) = 0 OBVIOUS
  <2>2. Due(v) = <<>> BY <2>1, <1>2, <1>3 DEF Due, Contains
  <2>3. Due(v)' = <<>> BY <1>4 DEF Due, Waiting
  <2>4. ShownTo(v) BY <1>4, <1>8 DEF FlowInv
  <2>5. QED BY <2>2, <2>3, <2>4, <1>4, <1>6 DEF ShownTo
<1>9. QED BY <1>5, <1>7, <1>8 DEF FlowInv

LEMMA FlowBegin ==
  ASSUME TypeOK, FlowInv, NEW h \in Handler, Begin(h)
  PROVE  FlowInv'
<1>1. handler \in [Handler -> [pc : {"free", "next", "sending"}, batch : Seq(Line),
                             targets : Seq(Viewer)]]
  BY DEF TypeOK
<1>2. /\ handler[h].pc = "next" /\ handler'[h].pc = "sending"
      /\ \A g \in Handler : handler'[g].targets = handler[g].targets
                            /\ handler'[g].batch = handler[g].batch
      /\ \A g \in Handler : g # h => handler'[g] = handler[g]
      /\ UNCHANGED <<said, pipe, mon, buffer, fl, down, viewer>>
  BY <1>1 DEF Begin, work
<1>3. OnePost' BY <1>2 DEF FlowInv, OnePost
<1>4. Told' = Told BY <1>2 DEF Told
<1>5. Counted' BY <1>2, <1>4 DEF FlowInv, Counted
<1>6. ASSUME NEW v \in Viewer, viewer'[v].early PROVE ShownTo(v)'
  <2>1. Due(v)' = Due(v) BY <1>2 DEF Due, FlowInv, OnePost
  <2>2. ShownTo(v) BY <1>2, <1>6 DEF FlowInv
  <2>3. QED BY <2>1, <2>2, <1>2, <1>4 DEF ShownTo
<1>7. QED BY <1>3, <1>5, <1>6 DEF FlowInv

\* Who is registered before the first line has missed nothing.
LEMMA FlowRegister ==
  ASSUME LogStreamAssumption, TypeOK, LogInv, FlowInv, NEW v \in Viewer, Register(v)
  PROVE  FlowInv'
<1>1. viewer \in [Viewer -> [pc : {"off", "replay", "register", "live", "closed", "gone"},
                            read : Seq(Line), history : Seq(Line), live : Seq(Line),
                            early : BOOLEAN]]
  BY DEF TypeOK
<1>2. /\ viewer[v].pc = "register" /\ viewer'[v].pc = "live" /\ viewer'[v].live = viewer[v].live
      /\ viewer'[v].early = (said = 0 /\ mon = "run")
      /\ \A u \in Viewer : u # v => viewer'[u] = viewer[u]
      /\ UNCHANGED <<said, pipe, mon, buffer, fl, down, handler>>
  BY <1>1 DEF Register, work
<1>3. OnePost' BY <1>2 DEF FlowInv, OnePost
<1>4. Told' = Told BY <1>2 DEF Told
<1>5. Counted' BY <1>2, <1>4 DEF FlowInv, Counted
<1>6. ASSUME NEW u \in Viewer, viewer'[u].early PROVE ShownTo(u)'
  <2>1. Due(u)' = Due(u) BY <1>2 DEF Due
  <2>2. CASE u # v
    <3>1. ShownTo(u) BY <1>2, <1>6, <2>2 DEF FlowInv
    <3>2. QED BY <2>1, <2>2, <3>1, <1>2, <1>4 DEF ShownTo
  <2>3. CASE u = v
    <3>1. said = 0 /\ mon = "run" BY <1>2, <1>6, <2>3
    <3>2. pipe = <<>> /\ buffer = <<>> /\ fl.pc = "wait" BY <3>1 DEF FlowInv, Counted
    <3>3. Due(v) = <<>> /\ viewer[v].live = <<>> BY <3>2, <1>2 DEF Due, LogInv, Before
    <3>4. <<>> \in Seq(Line) /\ <<>> \o <<>> = <<>> BY EmptySeq, ConcatEmptySeq
    <3>5. 0 \in 0..MaxLines BY LogConstants
    <3>6. Lines(0) \in Seq(Line) /\ Len(Lines(0)) = 0 BY <3>5, LinesProperties
    <3>7. Told = <<>> BY <3>1, <3>6, EmptySeq DEF Told
    <3>8. QED BY <2>1, <2>3, <3>2, <3>3, <3>4, <3>7, <1>2, <1>4 DEF ShownTo
  <2>4. QED BY <2>2, <2>3
<1>7. QED BY <1>3, <1>5, <1>6 DEF FlowInv

\* Who leaves was shown a beginning, and is shown nothing more.
LEMMA FlowClose ==
  ASSUME LogStreamAssumption, TypeOK, FlowInv, NEW v \in Viewer, Close(v)
  PROVE  FlowInv'
<1>1. /\ viewer \in [Viewer -> [pc : {"off", "replay", "register", "live", "closed", "gone"},
                            read : Seq(Line), history : Seq(Line), live : Seq(Line),
                            early : BOOLEAN]]
      /\ buffer \in Seq(Line) /\ pipe \in Seq(Line)
  BY DEF TypeOK
<1>2. /\ viewer[v].pc = "live" /\ viewer'[v].pc = "closed" /\ viewer'[v].live = viewer[v].live
      /\ viewer'[v].early = viewer[v].early
      /\ \A u \in Viewer : u # v => viewer'[u] = viewer[u]
      /\ UNCHANGED <<said, pipe, mon, buffer, fl, down, handler>>
  BY <1>1 DEF Close, work
<1>3. OnePost' BY <1>2 DEF FlowInv, OnePost
<1>4. Told' = Told BY <1>2 DEF Told
<1>5. Counted' BY <1>2, <1>4 DEF FlowInv, Counted
<1>6. ASSUME NEW u \in Viewer, viewer'[u].early PROVE ShownTo(u)'
  <2>1. ShownTo(u) BY <1>2, <1>6 DEF FlowInv
  <2>2. CASE u # v BY <2>1, <2>2, <1>2, <1>4, ShownStill
  <2>3. CASE u = v
    <3> DEFINE a == viewer[v].live
               b == Due(v)
               c == buffer \o pipe
    <3>1. a \in Seq(Line) /\ b \in Seq(Line) /\ c \in Seq(Line)
      BY <1>1, DueType, ConcatProperties
    <3>2. (a \o b) \o c = Told BY <2>1, <2>3, <1>2 DEF ShownTo
    <3> HIDE DEF a, b, c
    <3>3. a \o (b \o c) = Told /\ b \o c \in Seq(Line)
      <4>1. (a \o b) \o c = a \o (b \o c) /\ b \o c \in Seq(Line) BY <3>1, Regrouped
      <4>2. QED BY <3>2, <4>1
    <3>4. viewer'[v].live = a /\ viewer'[v].pc # "live" BY <1>2 DEF a
    <3>5. QED BY <2>3, <3>3, <3>4, <1>4 DEF ShownTo
  <2>4. QED BY <2>2, <2>3
<1>7. QED BY <1>3, <1>5, <1>6 DEF FlowInv

\* Sockets that come or are taken out, which are not live.
LEMMA FlowOthers ==
  ASSUME TypeOK, LogInv, FlowInv, NEW v \in Viewer, Open(v) \/ Replay(v) \/ Disconnect(v)
  PROVE  FlowInv'
<1>1. viewer \in [Viewer -> [pc : {"off", "replay", "register", "live", "closed", "gone"},
                            read : Seq(Line), history : Seq(Line), live : Seq(Line),
                            early : BOOLEAN]]
  BY DEF TypeOK
<1>2. /\ viewer[v].pc # "live" /\ viewer'[v].pc # "live" /\ viewer'[v].live = viewer[v].live
      /\ viewer'[v].early = viewer[v].early
      /\ \A u \in Viewer : u # v => viewer'[u] = viewer[u]
      /\ UNCHANGED <<said, pipe, mon, buffer, fl, down, handler>>
  BY <1>1 DEF Open, Replay, Disconnect, work
<1>3. OnePost' BY <1>2 DEF FlowInv, OnePost
<1>4. Told' = Told BY <1>2 DEF Told
<1>5. Counted' BY <1>2, <1>4 DEF FlowInv, Counted
<1>6. ASSUME NEW u \in Viewer, viewer'[u].early PROVE ShownTo(u)'
  <2>1. ShownTo(u) BY <1>2, <1>6 DEF FlowInv
  <2>2. CASE u # v BY <2>1, <2>2, <1>2, <1>4, ShownStill
  <2>3. CASE u = v BY <2>1, <2>3, <1>2, <1>4 DEF ShownTo
  <2>4. QED BY <2>2, <2>3
<1>7. QED BY <1>3, <1>5, <1>6 DEF FlowInv

LEMMA FlowInit == LogStreamAssumption /\ Init => FlowInv
<1> SUFFICES ASSUME LogStreamAssumption, Init PROVE FlowInv OBVIOUS
<1>1. OnePost BY DEF Init, OnePost, Waiting, Free
<1>2. Counted
  <2>1. /\ pipe = <<>> /\ buffer = <<>> /\ fl.pc = "wait" /\ mon = "run" /\ Len(pipe) = 0
        /\ Len(buffer) = 0
    BY DEF Init, Waiting
  <2>2. Len(Told) \in Nat BY LogTypeInit, ToldProperties
  <2>3. QED BY <2>1, <2>2 DEF Counted
<1>3. \A v \in Viewer : ~viewer[v].early BY DEF Init
<1>4. QED BY <1>1, <1>2, <1>3 DEF FlowInv

LEMMA FlowStep ==
  ASSUME LogStreamAssumption, SoundNetwork, TypeOK, LogInv, FlowInv, [Next]_vars
  PROVE  FlowInv'
<1>1. ASSUME UNCHANGED <<said, pipe, buffer, fl, down, handler, viewer>>, Told' = Told,
             mon' = "run" => mon = "run",
             mon' \in {"write", "done"} => mon \in {"write", "done"}
      PROVE  FlowInv'
  <2>1. OnePost' BY <1>1 DEF FlowInv, OnePost
  <2>2. Counted' BY <1>1 DEF FlowInv, Counted
  <2>3. ASSUME NEW v \in Viewer, viewer'[v].early PROVE ShownTo(v)'
    <3>1. Due(v)' = Due(v) BY <1>1 DEF Due
    <3>2. QED BY <1>1, <2>3, <3>1 DEF FlowInv, ShownTo
  <2>4. QED BY <2>1, <2>2, <2>3 DEF FlowInv
<1>2. CASE Exit BY <1>1, <1>2 DEF Exit, Told, api
<1>3. CASE Finalise BY <1>1, <1>3 DEF Finalise, Told, api
<1>4. CASE UNCHANGED vars BY <1>1, <1>4 DEF vars, work, api, Told
<1>5. ~Shutdown /\ ~FlushFails /\ ~RetryFails /\ ~PostTimesOut /\ ~Retry
  BY DEF SoundNetwork, Shutdown, FlushFails, RetryFails, PostTimesOut, Retry, FlowInv, OnePost
<1>6. CASE Say \/ WorkerStep
  BY <1>2, <1>3, <1>6, FlowSay, FlowDrain, FlowFinalDrain DEF WorkerStep, SoundNetwork
<1>7. CASE FlusherStep BY <1>5, <1>7, FlowFlush DEF FlusherStep
<1>8. CASE \E h \in Handler : HandlerStep(h)
  BY <1>8, FlowBegin, FlowSent, FlowAnswer DEF HandlerStep
<1>9. CASE \E v \in Viewer : Open(v) \/ Replay(v) \/ Register(v) \/ Close(v) \/ Disconnect(v)
  BY <1>9, FlowRegister, FlowClose, FlowOthers
<1>10. QED BY <1>4, <1>5, <1>6, <1>7, <1>8, <1>9 DEF Next

\* A sequence is a beginning of whatever continues it.
LEMMA ContinuedIsPrefix ==
  ASSUME NEW s \in Seq(Line), NEW t \in Seq(Line)
  PROVE  IsPrefix(s, s \o t)
<1>1. /\ Len(s) \in Nat /\ Len(t) \in Nat /\ s \o t \in Seq(Line)
      /\ Len(s \o t) = Len(s) + Len(t)
  BY LenProperties, ConcatProperties
<1>2. SubSeq(s, 1, Len(s)) = SubSeq(s \o t, 1, Len(s))
  <2>1. CASE Len(s) = 0 BY <2>1, SubSeqEmpty
  <2>2. CASE Len(s) # 0
    <3>1. 1 \in 1..Len(s) /\ Len(s) \in 1..Len(s) BY <1>1, <2>2
    <3>2. QED BY <3>1, SubSeqOfConcat1
  <2>3. QED BY <2>1, <2>2
<1>3. Len(s) <= Len(s \o t) BY <1>1
<1>4. QED BY <1>2, <1>3 DEF IsPrefix

\* worker.py, routers/ide.py and routers/websocket.py: over a sound network, while the
\* worker is not asked to stop and a batch fits a message, who watched from the beginning
\* has at any time seen a beginning of the log, and all of it, once and in order, in the end.
THEOREM LogIsShown ==
  LogStreamAssumption /\ SoundNetwork => (Spec => [](SeenInOrder /\ ShownIsPrefix))
<1> SUFFICES ASSUME LogStreamAssumption, SoundNetwork
             PROVE  Spec => [](SeenInOrder /\ ShownIsPrefix)
  OBVIOUS
<1>1. Init => FlowInv BY FlowInit
<1>2. TypeOK /\ LogInv /\ FlowInv /\ [Next]_vars => FlowInv' BY FlowStep
<1>3. ASSUME TypeOK, FlowInv PROVE SeenInOrder /\ ShownIsPrefix
  <2>1. /\ said \in 0..MaxLines /\ pipe \in Seq(Line) /\ buffer \in Seq(Line)
        /\ Lines(said) \in Seq(Line) /\ End \in Line
    BY <1>3, LogConstants, LinesProperties DEF TypeOK
  <2>2. Everything = Append(Lines(said), End) BY <2>1, AppendIsConcat DEF Everything, Lines
  <2>3. SeenInOrder
    <3>1. SUFFICES ASSUME Quiet, NEW v \in Viewer, viewer[v].pc = "live", viewer[v].early
                   PROVE  viewer[v].live = Everything
      BY DEF SeenInOrder
    <3>2. mon = "done" /\ buffer = <<>> /\ pipe = <<>> /\ Due(v) = <<>>
      BY <1>3, <3>1 DEF Quiet, FlowInv, Counted, OnePost, Due
    <3>3. (viewer[v].live \o <<>>) \o (<<>> \o <<>>) = Told
      BY <1>3, <3>1, <3>2 DEF FlowInv, ShownTo
    <3>4. viewer[v].live \in Seq(Line) BY <1>3, DueType
    <3>5. viewer[v].live = Told BY <3>3, <3>4, <2>1, <3>2, ConcatEmptySeq
    <3>6. QED BY <3>2, <3>5, <2>2 DEF Told
  <2>4. ASSUME NEW v \in Viewer, viewer[v].early PROVE IsPrefix(viewer[v].live, Everything)
    <3> DEFINE a == viewer[v].live
               b == Due(v)
               c == buffer \o pipe
    <3>1. a \in Seq(Line) /\ b \in Seq(Line) /\ c \in Seq(Line) /\ Told \in Seq(Line)
      BY <1>3, <2>1, DueType, ToldProperties, ConcatProperties
    <3>2. \/ (a \o b) \o c = Told
          \/ \E rest \in Seq(Line) : a \o rest = Told
      BY <1>3, <2>4 DEF FlowInv, ShownTo
    <3> HIDE DEF a, b, c
    <3>3. PICK rest \in Seq(Line) : a \o rest = Told
      <4>1. b \o c \in Seq(Line) /\ (a \o b) \o c = a \o (b \o c) BY <3>1, Regrouped
      <4>2. QED BY <3>2, <4>1
    <3>4. Everything = Told \/ Everything = Append(Told, End) BY <2>2 DEF Told
    <3>5. CASE Everything = Told BY <3>1, <3>3, <3>5, ContinuedIsPrefix DEF a
    <3>6. CASE Everything = Append(Told, End)
      <4>1. /\ Append(rest, End) \in Seq(Line)
            /\ a \o Append(rest, End) = Append(a \o rest, End)
        BY <2>1, <3>1, LineAppended
      <4>2. Everything = a \o Append(rest, End) BY <3>3, <3>6, <4>1
      <4>3. QED BY <3>1, <4>1, <4>2, ContinuedIsPrefix DEF a
    <3>7. QED BY <3>4, <3>5, <3>6
  <2>5. QED BY <2>3, <2>4 DEF ShownIsPrefix
<1>4. QED BY <1>1, <1>2, <1>3, LogSound, PTL DEF Spec
=============================================================================
