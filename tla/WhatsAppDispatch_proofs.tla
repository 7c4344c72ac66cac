----------------------- MODULE WhatsAppDispatch_proofs -----------------------
(***************************************************************************)
(* The dispatch for every number of items and attempts, when no client     *)
(* outlives its destroy() and neither initialize() nor a QR code comes     *)
(* late.  An attempt that is retried has started nothing, and one that is  *)
(* over is dead: so whatever was started is of the attempt the process     *)
(* waits for, and what handlers of earlier ones still say is dropped.      *)
(***************************************************************************)
EXTENDS WhatsAppDispatch, SequenceTheorems, TLAPS

\* Nothing comes late, and no client stays.
InTime == ~LateReject /\ ~LateQr /\ ~Survives

\* A caption tells its item from any other of the batch.
TellsApart == \A i, j \in Item : i # j => Caption[i] # Caption[j] /\ Caption[i] # ""

Sending == {"none", "settle", "next", "sending", "observe", "ack"}
Started(a) == {i \in Item : <<a, i>> \in started}
Left(i) == \E m \in sent : m[2] = i
True(results) == \A i \in DOMAIN results : results[i] => Left(i)

\* An attempt that was not made; one that is over is dead.
Lifetime(a) ==
  /\ t[a].client = "off" => t[a] = NewAttempt
  /\ t[a].settled # "none" => t[a].client = "dead"

\* Items go out one by one, and each has a result before the next.
InOrder(a) ==
  /\ t[a].at \in {"none", "settle"} => t[a].item = 1
  /\ \A i \in Started(a) : i < t[a].item \/ (i = t[a].item /\ t[a].at \notin {"none", "settle", "next"})
  /\ t[a].at \in Sending => Len(t[a].results) = t[a].item - 1
  /\ t[a].at \in {"report", "drain"} \/ t[a].settled = "ok" \/ "ok" \in t[a].leaving =>
       Len(t[a].results) = Len(Caption)

\* What an attempt reports left, and what its listeners hold is of their item.
Truthful(a) ==
  /\ True(t[a].results)
  /\ watch[a].seen # NoId => watch[a].seen[2] = t[a].item
  /\ t[a].at = "ack" => Left(t[a].item)

\* What may be retried has started nothing, and will not.
Retriable(a) ==
  "transient" \in t[a].leaving \/ t[a].settled = "transient" =>
    Started(a) = {} /\ (t[a].client = "dead" \/ t[a].at \in {"none", "settle", "done"})

\* A batch: who is heard as failed has been aborted, who records is concluded.
Fated(a) ==
  /\ t[a].leaving \cap {"ok", "nolid"} = {} /\ t[a].settled # "nolid"
  /\ t[a].leaving \cap Ended # {} \/ t[a].settled \in {"transient", "fatal"} => t[a].fate = "aborted"
  /\ t[a].settled = "ok" => t[a].fate = "concluded" /\ t[a].at = "done"
  /\ t[a].fate = "concluded" => t[a].at \in {"drain", "done"}
  /\ t[a].at = "drain" => t[a].fate = "concluded"

Sound(a) == Lifetime(a) /\ InOrder(a) /\ Retriable(a) /\ (Mode = "BATCH" => Fated(a))

\* The attempts before the one the process waits for may be retried, those after it are still to come.
Turn ==
  /\ \A a \in Attempt : (a < att => t[a].settled = "transient") /\ (a > att => t[a] = NewAttempt)
  /\ Mode = "BATCH" /\ t[att].at \notin {"none", "settle"} =>
       "qr" \notin t[att].leaving /\ \A a \in Attempt \ {att} : t[a].leaving = {}

\* The result of a batch is that of the attempt the process waits for.
Recorded ==
  /\ Mode = "AUTO" => file = NoFile
  /\ Mode = "BATCH" /\ file # NoFile =>
       /\ file = [by |-> att, results |-> t[att].results]
       /\ t[att].fate = "concluded" /\ code \in {Running, 0, 4}
  /\ Mode = "BATCH" /\ code \in {0, 4} => t[att].fate = "concluded"

\* What a listener took was sent.
Listened == \A a \in Attempt : watch[a].seen # NoId => watch[a].seen \in sent

DispatchInv == TypeOK /\ (\A a \in Attempt : Sound(a)) /\ Turn /\ Recorded /\ Listened

TruthInv ==
  /\ \A a \in Attempt : Truthful(a)
  /\ code = 0 /\ t[att].settled # "nolid" => \A i \in Item : Left(i)
-----------------------------------------------------------------------------
(* Attempts as records.                                                    *)

Places == {"none", "settle", "next", "sending", "observe", "ack", "report", "drain", "done"}
Reasons == Ended \cup {"dropped", "logout", "qr"}
AttemptRecord ==
  [client : {"off", "live", "dead"}, at : Places, item : Item, results : Seq(BOOLEAN),
   fate : {"open", "aborted", "concluded"}, leaving : SUBSET Reasons, settled : {"none"} \cup Ended]
ItemRecord ==
  [seen : Message \cup {NoId}, target : Message \cup {NoId}, acks : SUBSET Message, acked : BOOLEAN]

LEMMA Constants ==
  ASSUME DispatchAssumption
  PROVE  /\ MaxAttempts \in Nat \ {0} /\ Len(Caption) \in Nat \ {0} /\ Item = 1..Len(Caption) /\ 1 \in Item
         /\ Attempt = 1..MaxAttempts /\ 1 \in Attempt /\ Mode \in {"BATCH", "AUTO"}
         /\ Mode = "AUTO" => Len(Caption) = 1 /\ Item = {1}
         /\ NewItem \in ItemRecord /\ NewAttempt \in AttemptRecord
         /\ NoFile.by = 0 /\ NoFile.results = <<>> /\ Running = -1
<1>1. /\ MaxAttempts \in Nat \ {0} /\ Len(Caption) \in Nat \ {0} /\ Mode \in {"BATCH", "AUTO"}
      /\ Mode = "AUTO" => Len(Caption) = 1
  BY DEF DispatchAssumption
<1>2. Item = 1..Len(Caption) /\ Attempt = 1..MaxAttempts BY DEF Item, Attempt
<1>3. 1 \in Item /\ 1 \in Attempt /\ (Mode = "AUTO" => Item = {1})
  <2>1. 1..1 = {1} OBVIOUS
  <2>2. 1 \in 1..Len(Caption) /\ 1 \in 1..MaxAttempts BY <1>1
  <2>3. QED BY <1>1, <1>2, <2>1, <2>2
<1>4. NewItem \in ItemRecord BY DEF NewItem, ItemRecord
<1>5. NewAttempt \in AttemptRecord BY <1>3, EmptySeq DEF NewAttempt, AttemptRecord, Places
<1>6. QED BY <1>1, <1>2, <1>3, <1>4, <1>5 DEF NoFile, Running

LEMMA TypesOf ==
  TypeOK <=> /\ att \in Attempt /\ code \in {Running, 0, 4, 21, 24}
             /\ t \in [Attempt -> AttemptRecord] /\ watch \in [Attempt -> ItemRecord]
             /\ sent \subseteq started /\ started \subseteq Message /\ consumed \subseteq sent
             /\ file.by \in 0..MaxAttempts /\ file.results \in Seq(BOOLEAN)
BY DEF TypeOK, AttemptRecord, ItemRecord, Places, Reasons

\* One that moves on and stays what it is.
LEMMA Moved ==
  ASSUME NEW q \in AttemptRecord, NEW x \in Places
  PROVE  LET r == [q EXCEPT !.at = x]
         IN  /\ r \in AttemptRecord /\ r.at = x /\ r.client = q.client /\ r.item = q.item
             /\ r.results = q.results /\ r.fate = q.fate /\ r.leaving = q.leaving /\ r.settled = q.settled
<1> DEFINE r == [q EXCEPT !.at = x]
<1>1. r \in AttemptRecord BY DEF AttemptRecord
<1>2. r.at = x BY DEF AttemptRecord
<1>3. r.client = q.client /\ r.item = q.item /\ r.results = q.results BY DEF AttemptRecord
<1>4. r.fate = q.fate /\ r.leaving = q.leaving /\ r.settled = q.settled BY DEF AttemptRecord
<1>5. QED BY <1>1, <1>2, <1>3, <1>4

LEMMA Aborted ==
  ASSUME NEW q \in AttemptRecord
  PROVE  LET r == Abort(q)
         IN  /\ r \in AttemptRecord /\ r.fate = (IF q.fate = "open" THEN "aborted" ELSE q.fate)
             /\ r.at = q.at /\ r.client = q.client /\ r.item = q.item /\ r.results = q.results
             /\ r.leaving = q.leaving /\ r.settled = q.settled
<1> DEFINE r == [q EXCEPT !.fate = "aborted"]
<1>1. r \in AttemptRecord BY DEF AttemptRecord
<1>2. r.fate = "aborted" BY DEF AttemptRecord
<1>3. r.at = q.at /\ r.client = q.client /\ r.item = q.item /\ r.results = q.results BY DEF AttemptRecord
<1>4. r.leaving = q.leaving /\ r.settled = q.settled BY DEF AttemptRecord
<1>5. Abort(q) = IF q.fate = "open" THEN r ELSE q BY DEF Abort
<1> HIDE DEF r
<1>6. QED BY <1>1, <1>2, <1>3, <1>4, <1>5

LEMMA Heard ==
  ASSUME NEW q \in AttemptRecord, NEW how \in Ended
  PROVE  LET r == Settle(q, how)
         IN  /\ r \in AttemptRecord /\ r.settled = (IF q.settled = "none" THEN how ELSE q.settled)
             /\ r.at = q.at /\ r.client = q.client /\ r.item = q.item /\ r.results = q.results
             /\ r.leaving = q.leaving /\ r.fate = q.fate
<1> DEFINE r == [q EXCEPT !.settled = how]
<1>1. r \in AttemptRecord BY DEF AttemptRecord
<1>2. r.settled = how BY DEF AttemptRecord
<1>3. r.at = q.at /\ r.client = q.client /\ r.item = q.item /\ r.results = q.results BY DEF AttemptRecord
<1>4. r.leaving = q.leaving /\ r.fate = q.fate BY DEF AttemptRecord
<1>5. Settle(q, how) = IF q.settled = "none" THEN r ELSE q BY DEF Settle
<1> HIDE DEF r
<1>6. QED BY <1>1, <1>2, <1>3, <1>4, <1>5

LEMMA Leaves ==
  ASSUME NEW q \in AttemptRecord, NEW L \in SUBSET Reasons
  PROVE  LET r == [q EXCEPT !.leaving = L]
         IN  /\ r \in AttemptRecord /\ r.leaving = L
             /\ r.at = q.at /\ r.client = q.client /\ r.item = q.item /\ r.results = q.results
             /\ r.fate = q.fate /\ r.settled = q.settled
<1> DEFINE r == [q EXCEPT !.leaving = L]
<1>1. r \in AttemptRecord BY DEF AttemptRecord
<1>2. r.leaving = L BY DEF AttemptRecord
<1>3. r.at = q.at /\ r.client = q.client /\ r.item = q.item /\ r.results = q.results BY DEF AttemptRecord
<1>4. r.settled = q.settled /\ r.fate = q.fate BY DEF AttemptRecord
<1>5. QED BY <1>1, <1>2, <1>3, <1>4

LEMMA Client ==
  ASSUME NEW q \in AttemptRecord, NEW c \in {"live", "dead"}
  PROVE  LET r == [q EXCEPT !.client = c]
         IN  /\ r \in AttemptRecord /\ r.client = c
             /\ r.at = q.at /\ r.leaving = q.leaving /\ r.item = q.item /\ r.results = q.results
             /\ r.fate = q.fate /\ r.settled = q.settled
<1> DEFINE r == [q EXCEPT !.client = c]
<1>1. r \in AttemptRecord BY DEF AttemptRecord
<1>2. r.client = c BY DEF AttemptRecord
<1>3. r.at = q.at /\ r.leaving = q.leaving /\ r.item = q.item /\ r.results = q.results BY DEF AttemptRecord
<1>4. r.settled = q.settled /\ r.fate = q.fate BY DEF AttemptRecord
<1>5. QED BY <1>1, <1>2, <1>3, <1>4
-----------------------------------------------------------------------------
(* What a step of one attempt leaves of the others.                        *)

LEMMA Elsewhere ==
  ASSUME NEW b \in Attempt, Sound(b), t'[b] = t[b], Started(b)' = Started(b)
  PROVE  Sound(b)'
BY DEF Sound, Lifetime, InOrder, Retriable, Fated

\* A step of attempt a that is sound and goes on as the process allows.
LEMMA Steps ==
  ASSUME DispatchAssumption, DispatchInv, NEW a \in Attempt, NEW r \in AttemptRecord,
         t' = [t EXCEPT ![a] = r], att' = att, t[a].client # "off" \/ a = att,
         t[a].settled # "none" => r.settled = t[a].settled,
         \A b \in Attempt \ {a} : Started(b)' = Started(b),
         Sound(a)',
         Mode = "BATCH" /\ a # att => r.leaving \subseteq t[a].leaving,
         Mode = "BATCH" /\ a = att /\ r.at \notin {"none", "settle"} =>
           "qr" \notin r.leaving /\ \A b \in Attempt \ {a} : t[b].leaving = {}
  PROVE  /\ t' \in [Attempt -> AttemptRecord] /\ t'[a] = r
         /\ (\A b \in Attempt : Sound(b)') /\ Turn'
<1>1. t \in [Attempt -> AttemptRecord] /\ att \in Attempt /\ (\A b \in Attempt : Sound(b)) /\ Turn
  BY TypesOf DEF DispatchInv
<1>2. t' \in [Attempt -> AttemptRecord] /\ t'[a] = r /\ \A b \in Attempt \ {a} : t'[b] = t[b] BY <1>1
<1>3. \A b \in Attempt : Sound(b)' BY <1>1, <1>2, Elsewhere
<1>4. a <= att
  <2>1. Attempt \subseteq Int BY Constants
  <2>2. a > att => t[a] = NewAttempt BY <1>1 DEF Turn
  <2>3. QED BY <1>1, <2>1, <2>2 DEF NewAttempt
<1>5. ASSUME NEW b \in Attempt
      PROVE  (b < att => t'[b].settled = "transient") /\ (b > att => t'[b] = NewAttempt)
  <2>1. (b < att => t[b].settled = "transient") /\ (b > att => t[b] = NewAttempt) BY <1>1 DEF Turn
  <2>2. Attempt \subseteq Int BY Constants
  <2>3. CASE b = a BY <1>1, <1>2, <1>4, <2>1, <2>2, <2>3
  <2>4. CASE b # a BY <1>2, <2>1, <2>4
  <2>5. QED BY <2>3, <2>4
<1>6. ASSUME Mode = "BATCH", t'[att].at \notin {"none", "settle"}
      PROVE  "qr" \notin t'[att].leaving /\ \A b \in Attempt \ {att} : t'[b].leaving = {}
  <2>1. CASE a = att BY <1>1, <1>2, <1>6, <2>1
  <2>2. CASE a # att
    <3>1. t'[att] = t[att] BY <1>1, <1>2, <2>2
    <3>2. "qr" \notin t[att].leaving /\ \A b \in Attempt \ {att} : t[b].leaving = {} BY <1>1, <1>6, <3>1 DEF Turn
    <3>3. t'[a].leaving = {} BY <1>2, <1>6, <2>2, <3>2
    <3>4. QED BY <1>2, <3>1, <3>2, <3>3
  <2>3. QED BY <2>1, <2>2
<1>7. Turn' BY <1>5, <1>6 DEF Turn
<1>8. QED BY <1>2, <1>3, <1>7

\* The same for a step that writes no result and does not exit.
LEMMA Goes ==
  ASSUME DispatchAssumption, DispatchInv, NEW a \in Attempt, NEW r \in AttemptRecord,
         t' = [t EXCEPT ![a] = r], UNCHANGED <<att, file, code>>, t[a].client # "off" \/ a = att,
         t[a].settled # "none" => r.settled = t[a].settled,
         \A b \in Attempt \ {a} : Started(b)' = Started(b),
         Sound(a)',
         Mode = "BATCH" /\ a # att => r.leaving \subseteq t[a].leaving,
         Mode = "BATCH" /\ a = att /\ r.at \notin {"none", "settle"} =>
           "qr" \notin r.leaving /\ \A b \in Attempt \ {a} : t[b].leaving = {},
         Mode = "BATCH" /\ t[a].fate = "concluded" => r.fate = "concluded" /\ r.results = t[a].results,
         watch' \in [Attempt -> ItemRecord], Listened', sent' \subseteq started', started' \subseteq Message, consumed' \subseteq sent'
  PROVE  DispatchInv'
<1>1. /\ t' \in [Attempt -> AttemptRecord] /\ t'[a] = r
      /\ (\A b \in Attempt : Sound(b)') /\ Turn'
  BY Steps
<1>2. TypeOK' BY <1>1, TypesOf DEF DispatchInv, TypeOK, AttemptRecord, ItemRecord, Places, Reasons
<1>3. att \in Attempt /\ t \in [Attempt -> AttemptRecord] BY TypesOf DEF DispatchInv
<1>4. Mode = "BATCH" /\ t[att].fate = "concluded" => t'[att].fate = "concluded" /\ t'[att].results = t[att].results
  BY <1>1, <1>3
<1>5. Recorded' BY <1>4 DEF DispatchInv, Recorded
<1>6. QED BY <1>1, <1>2, <1>5 DEF DispatchInv
-----------------------------------------------------------------------------
(* The steps that record nothing.                                          *)

\* What is known of an attempt, before a step.
LEMMA Known ==
  ASSUME DispatchAssumption, DispatchInv, NEW a \in Attempt
  PROVE  /\ t[a] \in AttemptRecord /\ Lifetime(a) /\ InOrder(a) /\ Retriable(a) /\ (Mode = "BATCH" => Fated(a))
         /\ t \in [Attempt -> AttemptRecord] /\ watch \in [Attempt -> ItemRecord] /\ att \in Attempt
         /\ sent \subseteq started /\ started \subseteq Message /\ consumed \subseteq sent /\ Listened
         /\ t[a].client = "off" => t[a].at = "none" /\ t[a].leaving = {} /\ t[a].settled = "none"
         /\ a < att => t[a].settled = "transient" /\ t[a].client = "dead" /\ (Mode = "BATCH" => t[a].fate = "aborted")
         /\ a # att /\ t[a].client # "off" => a < att
<1>1. /\ t \in [Attempt -> AttemptRecord] /\ watch \in [Attempt -> ItemRecord] /\ att \in Attempt
      /\ sent \subseteq started /\ started \subseteq Message /\ consumed \subseteq sent /\ Listened
  BY TypesOf DEF DispatchInv
<1>2. t[a] \in AttemptRecord BY <1>1
<1>3. Lifetime(a) /\ InOrder(a) /\ Retriable(a) /\ (Mode = "BATCH" => Fated(a)) BY DEF DispatchInv, Sound
<1>4. t[a].client = "off" => t[a].at = "none" /\ t[a].leaving = {} /\ t[a].settled = "none"
  BY <1>3 DEF Lifetime, NewAttempt
<1>5. a < att => t[a].settled = "transient" BY DEF DispatchInv, Turn
<1>6. a < att => t[a].client = "dead" /\ (Mode = "BATCH" => t[a].fate = "aborted")
  BY <1>3, <1>5 DEF Lifetime, Fated
<1>7. a # att /\ t[a].client # "off" => a < att
  <2>1. a > att => t[a].client = "off" BY DEF DispatchInv, Turn, NewAttempt
  <2>2. Attempt \subseteq Int BY Constants
  <2>3. QED BY <1>1, <2>1, <2>2
<1>8. QED BY <1>1, <1>2, <1>3, <1>4, <1>5, <1>6, <1>7

\* Before its first item, an attempt has called nothing.
LEMMA Unstarted ==
  ASSUME DispatchAssumption, DispatchInv, NEW a \in Attempt, t[a].at \in {"none", "settle"}
  PROVE  Started(a) = {}
<1>1. t[a].item = 1 /\ \A i \in Started(a) : i < t[a].item BY Known DEF InOrder
<1>2. \A i \in Started(a) : i \in Int /\ i >= 1 BY Constants DEF Started
<1>3. \A i \in Started(a) : FALSE BY <1>1, <1>2
<1>4. QED BY <1>3

LEMMA ReadyStep ==
  ASSUME DispatchAssumption, DispatchInv, NEW a \in Attempt, Ready(a)
  PROVE  DispatchInv'
<1> DEFINE q == t[a]
           r == [q EXCEPT !.at = "settle"]
<1>1. /\ q.client = "live" /\ q.at = "none" /\ t' = [t EXCEPT ![a] = r]
      /\ UNCHANGED <<att, watch, started, sent, consumed, file, code>>
  BY DEF Ready, Lives, Put, Messages
<1>2. /\ r \in AttemptRecord /\ r.at = "settle" /\ r.client = q.client /\ r.item = q.item /\ r.results = q.results
      /\ r.fate = q.fate /\ r.leaving = q.leaving /\ r.settled = q.settled
  <2> HIDE DEF q
  <2>1. q \in AttemptRecord BY Known DEF q
  <2>2. "settle" \in Places BY DEF Places
  <2>3. QED BY <2>1, <2>2, Moved
<1>3. t'[a] = r BY <1>1, Known
<1> HIDE DEF r
<1>4. \A b \in Attempt : Started(b)' = Started(b) BY <1>1 DEF Started
<1>5. Sound(a)'
  <2>1. Lifetime(a) /\ InOrder(a) /\ Retriable(a) /\ (Mode = "BATCH" => Fated(a)) BY Known
  <2>2. Lifetime(a)' BY <1>1, <1>2, <1>3, <2>1 DEF Lifetime
  <2>3. InOrder(a)' BY <1>1, <1>2, <1>3, <1>4, <2>1 DEF InOrder, Sending
  <2>4. Retriable(a)' BY <1>1, <1>2, <1>3, <1>4, <2>1 DEF Retriable
  <2>5. Mode = "BATCH" => Fated(a)' BY <1>1, <1>2, <1>3, <2>1 DEF Fated
  <2>6. QED BY <2>2, <2>3, <2>4, <2>5 DEF Sound
<1>6. Listened' BY <1>1, Known DEF Listened
<1>7. QED BY <1>1, <1>2, <1>4, <1>5, <1>6, Known, Goes

LEMMA SettledStep ==
  ASSUME DispatchAssumption, InTime, DispatchInv, NEW a \in Attempt, Settled(a)
  PROVE  DispatchInv'
<1> DEFINE q == t[a]
           r == [q EXCEPT !.at = "next"]
<1>1. /\ q.at = "settle" /\ t' = [t EXCEPT ![a] = r] /\ \A b \in Attempt : t[b].leaving = {}
      /\ UNCHANGED <<att, watch, started, sent, consumed, file, code>>
  BY DEF Settled, Lives, Put, Messages, InTime
<1>2. /\ r \in AttemptRecord /\ r.at = "next" /\ r.client = q.client /\ r.item = q.item /\ r.results = q.results
      /\ r.fate = q.fate /\ r.leaving = q.leaving /\ r.settled = q.settled
  <2> HIDE DEF q
  <2>1. q \in AttemptRecord BY Known DEF q
  <2>2. "next" \in Places BY DEF Places
  <2>3. QED BY <2>1, <2>2, Moved
<1>3. t'[a] = r BY <1>1, Known
<1> HIDE DEF r
<1>4. \A b \in Attempt : Started(b)' = Started(b) BY <1>1 DEF Started
<1>5. Sound(a)'
  <2>1. Lifetime(a) /\ InOrder(a) /\ Retriable(a) /\ (Mode = "BATCH" => Fated(a)) BY Known
  <2>2. Lifetime(a)' BY <1>1, <1>2, <1>3, <2>1 DEF Lifetime, NewAttempt
  <2>3. InOrder(a)' BY <1>1, <1>2, <1>3, <1>4, <2>1 DEF InOrder, Sending
  <2>4. Retriable(a)' BY <1>1, <1>2, <1>3, <1>4, <2>1 DEF Retriable, Lifetime
  <2>5. Mode = "BATCH" => Fated(a)' BY <1>1, <1>2, <1>3, <2>1 DEF Fated
  <2>6. QED BY <2>2, <2>3, <2>4, <2>5 DEF Sound
<1>6. q.client # "off" BY <1>1, Known
<1>7. Listened' BY <1>1, Known DEF Listened
<1>8. QED BY <1>1, <1>2, <1>4, <1>5, <1>6, <1>7, Known, Goes

LEMMA PrepareStep ==
  ASSUME DispatchAssumption, DispatchInv, NEW a \in Attempt, Prepare(a)
  PROVE  DispatchInv'
<1> DEFINE q == t[a]
<1>1. /\ Mode = "AUTO" /\ q.at = "next" /\ UNCHANGED <<att, watch, started, sent, consumed, file, code>>
  BY DEF Prepare, Messages
<1>2. PICK how \in {"transient", "fatal", "nolid"} :
        t' = [t EXCEPT ![a] =
               [(IF q.fate = "open" THEN [Abort(q) EXCEPT !.leaving = Abort(q).leaving \cup {how}] ELSE q)
                EXCEPT !.at = "done"]]
  BY DEF Prepare, Put
<1> DEFINE L == Abort(q).leaving \cup {how}
           p == IF q.fate = "open" THEN [Abort(q) EXCEPT !.leaving = L] ELSE q
           r == [p EXCEPT !.at = "done"]
<1>3. q \in AttemptRecord BY Known
<1>4. Abort(q) \in AttemptRecord /\ L = q.leaving \cup {how} BY <1>3, Aborted
<1>5. L \in SUBSET Reasons BY <1>3, <1>4 DEF AttemptRecord, Reasons, Ended
<1>6. /\ p \in AttemptRecord /\ p.client = q.client /\ p.item = q.item /\ p.results = q.results
      /\ p.settled = q.settled /\ p.leaving \subseteq q.leaving \cup {how}
  BY <1>3, <1>4, <1>5, Aborted, Leaves
<1> HIDE DEF L, p
<1>7. /\ r \in AttemptRecord /\ r.at = "done" /\ r.client = q.client /\ r.item = q.item /\ r.results = q.results
      /\ r.settled = q.settled /\ r.leaving \subseteq q.leaving \cup {how}
  BY <1>6, Moved DEF Places
<1>8. t' = [t EXCEPT ![a] = r] BY <1>2 DEF L, p
<1> HIDE DEF r
<1>9. t'[a] = r BY <1>8, Known
<1>10. \A b \in Attempt : Started(b)' = Started(b) BY <1>1 DEF Started
<1>11. Started(a) = {}
  <2>1. Item = {1} /\ q.item = 1 BY <1>1, <1>3, Constants DEF AttemptRecord
  <2>2. QED BY <1>1, <2>1, Known DEF InOrder, Started
<1>12. Sound(a)'
  <2>1. Lifetime(a) /\ InOrder(a) /\ Retriable(a) BY Known
  <2>2. Lifetime(a)' BY <1>1, <1>7, <1>9, <2>1 DEF Lifetime, NewAttempt
  <2>3. InOrder(a)' BY <1>1, <1>7, <1>9, <1>10, <1>11, <2>1 DEF InOrder, Sending
  <2>4. Retriable(a)' BY <1>1, <1>7, <1>9, <1>10, <1>11, <2>1 DEF Retriable, Lifetime
  <2>5. QED BY <1>1, <2>2, <2>3, <2>4 DEF Sound
<1>13. q.client # "off" BY <1>1, Known
<1>14. Listened' BY <1>1, Known DEF Listened
<1>15. QED BY <1>1, <1>7, <1>8, <1>10, <1>12, <1>13, <1>14, Known, Goes

LEMMA SendStep ==
  ASSUME DispatchAssumption, DispatchInv, NEW a \in Attempt, Send(a)
  PROVE  DispatchInv'
<1> DEFINE q == t[a]
           r == [q EXCEPT !.at = "sending"]
<1>1. /\ q.at = "next" /\ t' = [t EXCEPT ![a] = r]
      /\ started' = started \cup (IF Lives(a) THEN {<<a, q.item>>} ELSE {})
      /\ UNCHANGED <<att, watch, sent, consumed, file, code>>
  BY DEF Send, Put
<1>2. /\ r \in AttemptRecord /\ r.at = "sending" /\ r.client = q.client /\ r.item = q.item /\ r.results = q.results
      /\ r.fate = q.fate /\ r.leaving = q.leaving /\ r.settled = q.settled
  <2> HIDE DEF q
  <2>1. q \in AttemptRecord BY Known DEF q
  <2>2. "sending" \in Places BY DEF Places
  <2>3. QED BY <2>1, <2>2, Moved
<1>3. t'[a] = r BY <1>1, Known
<1> HIDE DEF r
<1>4. q.item \in Item BY Known DEF AttemptRecord
<1>5. \A b \in Attempt \ {a} : Started(b)' = Started(b) BY <1>1 DEF Started
<1>6. Started(a)' \subseteq Started(a) \cup {q.item} /\ (q.client # "live" => Started(a)' = Started(a))
  BY <1>1 DEF Started, Lives
<1>7. Sound(a)'
  <2>1. Lifetime(a) /\ InOrder(a) /\ Retriable(a) /\ (Mode = "BATCH" => Fated(a)) BY Known
  <2>2. Lifetime(a)' BY <1>1, <1>2, <1>3, <2>1 DEF Lifetime, NewAttempt
  <2>3. InOrder(a)' BY <1>1, <1>2, <1>3, <1>6, <2>1 DEF InOrder, Sending
  <2>4. Retriable(a)' BY <1>1, <1>2, <1>3, <1>6, <2>1 DEF Retriable
  <2>5. Mode = "BATCH" => Fated(a)' BY <1>1, <1>2, <1>3, <2>1 DEF Fated
  <2>6. QED BY <2>2, <2>3, <2>4, <2>5 DEF Sound
<1>8. q.client # "off" BY <1>1, Known
<1>9. started' \subseteq Message /\ sent' \subseteq started' BY <1>1, <1>4, Known DEF Message
<1>10. Mode = "BATCH" /\ a = att => "qr" \notin q.leaving /\ \A b \in Attempt \ {a} : t[b].leaving = {}
  BY <1>1 DEF DispatchInv, Turn
<1>11. Listened' BY <1>1, Known DEF Listened
<1>12. QED BY <1>1, <1>2, <1>5, <1>7, <1>8, <1>9, <1>10, <1>11, Known, Goes

\* sendMessage was called: the attempt goes on within its item.
LEMMA Within ==
  ASSUME DispatchAssumption, DispatchInv, NEW a \in Attempt, NEW x \in {"observe", "ack"},
         t[a].at \in {"sending", "observe"}, t' = [t EXCEPT ![a] = [t[a] EXCEPT !.at = x]],
         UNCHANGED <<att, started, sent, file, code>>,
         watch' \in [Attempt -> ItemRecord], Listened', consumed' \subseteq sent'
  PROVE  DispatchInv'
<1> DEFINE q == t[a]
           r == [q EXCEPT !.at = x]
<1>1. t' = [t EXCEPT ![a] = r] OBVIOUS
<1>2. /\ r \in AttemptRecord /\ r.at = x /\ r.client = q.client /\ r.item = q.item /\ r.results = q.results
      /\ r.fate = q.fate /\ r.leaving = q.leaving /\ r.settled = q.settled
  <2> HIDE DEF q
  <2>1. q \in AttemptRecord BY Known DEF q
  <2>2. x \in Places BY DEF Places
  <2>3. QED BY <2>1, <2>2, Moved
<1>3. t'[a] = r BY <1>1, Known
<1> HIDE DEF r
<1>4. \A b \in Attempt : Started(b)' = Started(b) BY DEF Started
<1>5. Sound(a)'
  <2>1. Lifetime(a) /\ InOrder(a) /\ Retriable(a) /\ (Mode = "BATCH" => Fated(a)) BY Known
  <2>2. Lifetime(a)' BY <1>2, <1>3, <2>1 DEF Lifetime, NewAttempt
  <2>3. InOrder(a)' BY <1>2, <1>3, <1>4, <2>1 DEF InOrder, Sending
  <2>4. Retriable(a)' BY <1>2, <1>3, <1>4, <2>1 DEF Retriable
  <2>5. Mode = "BATCH" => Fated(a)' BY <1>2, <1>3, <2>1 DEF Fated
  <2>6. QED BY <2>2, <2>3, <2>4, <2>5 DEF Sound
<1>6. q.client # "off" BY Known
<1>7. Mode = "BATCH" /\ a = att => "qr" \notin q.leaving /\ \A b \in Attempt \ {a} : t[b].leaving = {}
  BY DEF DispatchInv, Turn
<1>8. sent' \subseteq started' /\ started' \subseteq Message BY Known
<1>9. Mode = "BATCH" /\ q.fate = "concluded" => r.fate = "concluded" /\ r.results = q.results BY <1>2
<1>10. QED BY <1>1, <1>2, <1>4, <1>5, <1>6, <1>7, <1>8, <1>9, Goes

\* The attempts stay where they are.
LEMMA Stays ==
  ASSUME DispatchAssumption, DispatchInv, UNCHANGED <<att, t, started, file, code>>,
         watch' \in [Attempt -> ItemRecord], Listened', sent' \subseteq started', consumed' \subseteq sent'
  PROVE  DispatchInv'
<1>1. TypeOK' BY TypesOf DEF DispatchInv, TypeOK, AttemptRecord, ItemRecord, Places, Reasons
<1>2. \A a \in Attempt : Started(a)' = Started(a) BY DEF Started
<1>3. \A a \in Attempt : Sound(a)' BY <1>2, Elsewhere DEF DispatchInv
<1>4. Turn' /\ Recorded' BY DEF DispatchInv, Turn, Recorded
<1>5. QED BY <1>1, <1>3, <1>4 DEF DispatchInv

LEMMA TransmitStep ==
  ASSUME DispatchAssumption, DispatchInv, NEW m, Transmit(m)
  PROVE  DispatchInv'
<1>1. UNCHANGED <<att, t, watch, started, consumed, file, code>> /\ m \in started /\ sent' = sent \cup {m}
  BY DEF Transmit
<1>2. watch \in [Attempt -> ItemRecord] /\ sent \subseteq started /\ consumed \subseteq sent
  BY TypesOf DEF DispatchInv
<1>3. Listened' BY <1>1 DEF DispatchInv, Listened
<1>4. QED BY <1>1, <1>2, <1>3, Stays

\* What is kept of an item.
LEMMA Taken ==
  ASSUME NEW w \in ItemRecord, NEW m \in Message
  PROVE  LET u == [w EXCEPT !.seen = m]
         IN  u \in ItemRecord /\ u.seen = m /\ u.acked = w.acked /\ u.acks = w.acks /\ u.target = w.target
<1> DEFINE u == [w EXCEPT !.seen = m]
<1>1. u \in ItemRecord BY DEF ItemRecord
<1>2. u.seen = m /\ u.acked = w.acked /\ u.acks = w.acks /\ u.target = w.target BY DEF ItemRecord
<1>3. QED BY <1>1, <1>2

LEMMA MessageCreateStep ==
  ASSUME DispatchAssumption, DispatchInv, NEW a \in Attempt, NEW m, MessageCreate(a, m)
  PROVE  DispatchInv'
<1> DEFINE u == [watch[a] EXCEPT !.seen = m]
<1>1. UNCHANGED <<att, t, started, sent, consumed, file, code>> /\ m \in sent /\ watch' = [watch EXCEPT ![a] = u]
  BY DEF MessageCreate, Messages
<1>2. /\ watch \in [Attempt -> ItemRecord] /\ sent \subseteq started /\ started \subseteq Message /\ consumed \subseteq sent
  BY TypesOf DEF DispatchInv
<1>3. watch[a] \in ItemRecord /\ m \in Message BY <1>1, <1>2
<1>4. u \in ItemRecord /\ u.seen = m
  <2> DEFINE w == watch[a]
  <2>1. w \in ItemRecord BY <1>3
  <2> HIDE DEF w
  <2>2. [w EXCEPT !.seen = m] \in ItemRecord /\ [w EXCEPT !.seen = m].seen = m BY <1>3, <2>1, Taken
  <2>3. QED BY <2>2 DEF w
<1> HIDE DEF u
<1>5. watch' \in [Attempt -> ItemRecord] BY <1>1, <1>2, <1>4
<1>6. Listened' BY <1>1, <1>2, <1>4 DEF DispatchInv, Listened
<1>7. sent' \subseteq started' /\ consumed' \subseteq sent' BY <1>1, <1>2
<1>8. QED BY <1>1, <1>5, <1>6, <1>7, Stays

LEMMA MessageAckStep ==
  ASSUME DispatchAssumption, DispatchInv, NEW a \in Attempt, NEW m, MessageAck(a, m)
  PROVE  DispatchInv'
<1> DEFINE x == watch[a].acked \/ watch[a].target = m
           A == watch[a].acks \cup {m}
           w == watch[a]
           u == [w EXCEPT !.acks = A, !.acked = x]
<1>1. UNCHANGED <<att, t, started, sent, consumed, file, code>> /\ m \in sent /\ watch' = [watch EXCEPT ![a] = u]
  BY DEF MessageAck, Messages
<1>2. /\ watch \in [Attempt -> ItemRecord] /\ sent \subseteq started /\ started \subseteq Message /\ consumed \subseteq sent
  BY TypesOf DEF DispatchInv
<1>3. watch[a] \in ItemRecord /\ m \in Message BY <1>1, <1>2
<1>4. x \in BOOLEAN /\ A \in SUBSET Message BY <1>3 DEF ItemRecord
<1> HIDE DEF x, A
<1>5. u \in ItemRecord /\ u.seen = watch[a].seen
  <2>1. w \in ItemRecord BY <1>3
  <2> HIDE DEF w
  <2>2. u \in ItemRecord BY <1>4, <2>1 DEF ItemRecord
  <2>3. u.seen = w.seen BY <2>1 DEF ItemRecord
  <2>4. QED BY <2>2, <2>3 DEF w
<1> HIDE DEF u
<1>6. watch' \in [Attempt -> ItemRecord] BY <1>1, <1>2, <1>5
<1>7. Listened' BY <1>1, <1>2, <1>5 DEF DispatchInv, Listened
<1>8. QED BY <1>1, <1>2, <1>6, <1>7, Stays

LEMMA DispatchedStep ==
  ASSUME DispatchAssumption, DispatchInv, NEW a \in Attempt, NEW m \in sent,
         t[a].at \in {"sending", "observe"}, Dispatched(a, m)
  PROVE  DispatchInv'
<1> DEFINE x == m \in watch[a].acks
           w == watch[a]
           u == [w EXCEPT !.target = m, !.acked = x]
<1>1. /\ UNCHANGED <<att, started, sent, file, code>> /\ t' = [t EXCEPT ![a] = [t[a] EXCEPT !.at = "ack"]]
      /\ consumed' = consumed \cup {m} /\ watch' = [watch EXCEPT ![a] = u]
  BY DEF Dispatched, Put
<1>2. /\ watch \in [Attempt -> ItemRecord] /\ sent \subseteq started /\ started \subseteq Message /\ consumed \subseteq sent
  BY TypesOf DEF DispatchInv
<1>3. watch[a] \in ItemRecord /\ m \in Message /\ x \in BOOLEAN BY <1>2
<1> HIDE DEF x
<1>4. u \in ItemRecord /\ u.seen = watch[a].seen
  <2>1. w \in ItemRecord BY <1>3
  <2> HIDE DEF w
  <2>2. u \in ItemRecord BY <1>3, <2>1 DEF ItemRecord
  <2>3. u.seen = w.seen BY <2>1 DEF ItemRecord
  <2>4. QED BY <2>2, <2>3 DEF w
<1> HIDE DEF u
<1>5. watch' \in [Attempt -> ItemRecord] /\ consumed' \subseteq sent' BY <1>1, <1>2, <1>4
<1>6. Listened' BY <1>1, <1>2, <1>4 DEF DispatchInv, Listened
<1>7. "ack" \in {"observe", "ack"} OBVIOUS
<1>8. QED BY <1>1, <1>5, <1>6, <1>7, Within

\* The item is over: the next one, or the report.
LEMMA Over ==
  ASSUME DispatchAssumption, NEW q \in AttemptRecord, NEW ok \in BOOLEAN, Len(q.results) = q.item - 1
  PROVE  LET r == ItemDone(q, ok)
         IN  /\ r \in AttemptRecord /\ r.client = q.client /\ r.fate = q.fate
             /\ r.leaving = q.leaving /\ r.settled = q.settled
             /\ \/ r.at = "next" /\ r.item = q.item + 1 /\ Len(r.results) = q.item
                \/ r.at = "report" /\ r.item = q.item /\ Len(r.results) = Len(Caption)
             /\ \A i \in DOMAIN r.results :
                  r.results[i] => (i \in DOMAIN q.results /\ q.results[i]) \/ (i = q.item /\ ok)
<1> DEFINE results == Append(q.results, ok)
           all == [i \in Item |-> IF i <= Len(results) THEN results[i] ELSE FALSE]
           over == [q EXCEPT !.at = "report", !.results = all]
           on == [q EXCEPT !.at = "next", !.results = results, !.item = q.item + 1]
           r == ItemDone(q, ok)
<1>1. /\ q.item \in 1..Len(Caption) /\ Len(Caption) \in Nat \ {0} /\ q.results \in Seq(BOOLEAN)
      /\ Item = 1..Len(Caption)
  BY Constants DEF AttemptRecord
<1>2. /\ results \in Seq(BOOLEAN) /\ Len(results) = q.item
      /\ \A i \in 1..Len(results) : results[i] = IF i = q.item THEN ok ELSE q.results[i]
      /\ DOMAIN q.results = 1..(q.item - 1) /\ DOMAIN results = 1..q.item
  BY <1>1, AppendProperties
<1>3. all \in Seq(BOOLEAN) /\ Len(all) = Len(Caption) /\ DOMAIN all = Item
  <2>1. ASSUME NEW i \in Item, i <= Len(results) PROVE results[i] \in BOOLEAN
    BY <1>1, <1>2, <2>1, ElementOfSeq
  <2>2. all \in [1..Len(Caption) -> BOOLEAN] BY <1>1, <2>1
  <2> HIDE DEF all
  <2>3. all \in Seq(BOOLEAN) BY <1>1, <2>2
  <2>4. DOMAIN all = 1..Len(Caption) BY <2>2
  <2>5. Len(all) \in Nat /\ DOMAIN all = 1..Len(all) BY <2>3, LenProperties
  <2>6. Len(all) = Len(Caption) BY <1>1, <2>4, <2>5
  <2>7. QED BY <1>1, <2>3, <2>4, <2>6
<1>4. \A i \in Item : all[i] => i <= q.item /\ results[i] BY <1>1, <1>2
<1> HIDE DEF results, all
<1>5. r = over \/ (r = on /\ q.item # Len(Caption)) BY <1>2 DEF ItemDone, results, all
<1>6. /\ over \in AttemptRecord /\ over.at = "report" /\ over.item = q.item /\ over.results = all
      /\ over.client = q.client /\ over.fate = q.fate /\ over.leaving = q.leaving /\ over.settled = q.settled
  <2>1. over \in AttemptRecord BY <1>3 DEF AttemptRecord, Places
  <2>2. over.at = "report" /\ over.item = q.item /\ over.results = all BY DEF AttemptRecord
  <2>3. over.client = q.client /\ over.fate = q.fate BY DEF AttemptRecord
  <2>4. over.leaving = q.leaving /\ over.settled = q.settled BY DEF AttemptRecord
  <2>5. QED BY <2>1, <2>2, <2>3, <2>4
<1>7. ASSUME q.item # Len(Caption)
      PROVE  /\ on \in AttemptRecord /\ on.at = "next" /\ on.item = q.item + 1 /\ on.results = results
             /\ on.client = q.client /\ on.fate = q.fate /\ on.leaving = q.leaving /\ on.settled = q.settled
  <2> DEFINE n == q.item + 1
  <2>1. n \in Item BY <1>1, <1>7
  <2> HIDE DEF n
  <2>2. on \in AttemptRecord BY <1>2, <2>1 DEF AttemptRecord, Places, n
  <2>3. on.at = "next" /\ on.item = q.item + 1 /\ on.results = results BY DEF AttemptRecord
  <2>4. on.client = q.client /\ on.fate = q.fate BY DEF AttemptRecord
  <2>5. on.leaving = q.leaving /\ on.settled = q.settled BY DEF AttemptRecord
  <2>6. QED BY <2>2, <2>3, <2>4, <2>5
<1> HIDE DEF over, on, r
<1>8. CASE r = over
  <2>1. \A i \in DOMAIN r.results : r.results[i] => (i \in DOMAIN q.results /\ q.results[i]) \/ (i = q.item /\ ok)
    BY <1>1, <1>2, <1>3, <1>4, <1>6, <1>8
  <2>2. QED BY <1>3, <1>6, <1>8, <2>1 DEF r
<1>9. CASE r = on /\ q.item # Len(Caption)
  <2>1. \A i \in DOMAIN r.results : r.results[i] => (i \in DOMAIN q.results /\ q.results[i]) \/ (i = q.item /\ ok)
    <3>1. on.results = results BY <1>7, <1>9
    <3>2. QED BY <1>1, <1>2, <1>9, <3>1
  <2>2. QED BY <1>2, <1>7, <1>9, <2>1 DEF r
<1>10. QED BY <1>5, <1>8, <1>9

LEMMA FinishStep ==
  ASSUME DispatchAssumption, DispatchInv, NEW a \in Attempt, NEW ok \in BOOLEAN,
         t[a].at \in {"next", "sending", "observe", "ack"}, Finish(a, ok)
  PROVE  DispatchInv'
<1> DEFINE q == t[a]
           r == ItemDone(q, ok)
<1>1. /\ t' = [t EXCEPT ![a] = r] /\ watch' = [watch EXCEPT ![a] = NewItem]
      /\ UNCHANGED <<att, started, sent, consumed, file, code>>
  BY DEF Finish, Put, Messages
<1>2. /\ q \in AttemptRecord /\ q.item \in Nat /\ Len(q.results) = q.item - 1 /\ q.client # "off"
      /\ q.at \in {"next", "sending", "observe", "ack"}
  BY SMTT(30), Known, Constants DEF AttemptRecord, InOrder, Sending
<1>3. /\ r \in AttemptRecord /\ r.client = q.client /\ r.fate = q.fate
      /\ r.leaving = q.leaving /\ r.settled = q.settled
      /\ \/ r.at = "next" /\ r.item = q.item + 1 /\ Len(r.results) = q.item
         \/ r.at = "report" /\ r.item = q.item /\ Len(r.results) = Len(Caption)
  <2> HIDE DEF q
  <2>1. QED BY <1>2, Over
<1>4. t'[a] = r BY <1>1, Known
<1> HIDE DEF r
<1>5. \A b \in Attempt : Started(b)' = Started(b) BY <1>1 DEF Started
<1>6. Sound(a)'
  <2>1. Lifetime(a) /\ InOrder(a) /\ Retriable(a) /\ (Mode = "BATCH" => Fated(a)) BY Known
  <2>2. Lifetime(a)' BY <1>2, <1>3, <1>4, <2>1 DEF Lifetime
  <2>3. (q.settled # "ok" /\ "ok" \notin q.leaving) \/ Len(q.results) = Len(Caption) BY <2>1 DEF InOrder
  <2>4. Len(q.results) # Len(Caption) BY <1>2, Constants DEF AttemptRecord
  <2>5. \A i \in Started(a) : i < q.item \/ (i = q.item /\ q.at # "next") BY <1>2, <2>1 DEF InOrder
  <2>6. InOrder(a)'
    <3>1. CASE r.at = "next" /\ r.item = q.item + 1 /\ Len(r.results) = q.item
      <4>1. \A i \in Started(a) : i < r.item BY <1>2, <2>5, <3>1 DEF Started, Item
      <4>2. QED BY <1>2, <1>3, <1>4, <1>5, <2>3, <2>4, <3>1, <4>1 DEF InOrder, Sending
    <3>2. CASE r.at = "report" /\ r.item = q.item /\ Len(r.results) = Len(Caption)
      BY <1>2, <1>3, <1>4, <1>5, <2>5, <3>2 DEF InOrder, Sending
    <3>3. QED BY <1>3, <3>1, <3>2
  <2>7. Retriable(a)' BY <1>2, <1>3, <1>4, <1>5, <2>1 DEF Retriable
  <2>8. Mode = "BATCH" => Fated(a)' BY <1>2, <1>3, <1>4, <2>1 DEF Fated
  <2>9. QED BY <2>2, <2>6, <2>7, <2>8 DEF Sound
<1>7. watch' \in [Attempt -> ItemRecord] BY <1>1, Known, Constants
<1>8. Listened' BY <1>1, Known DEF Listened, NewItem
<1>9. sent' \subseteq started' /\ started' \subseteq Message /\ consumed' \subseteq sent' BY <1>1, Known
<1>10. Mode = "BATCH" /\ a = att => "qr" \notin q.leaving /\ \A b \in Attempt \ {a} : t[b].leaving = {}
  BY <1>2 DEF DispatchInv, Turn
<1>11. Mode = "BATCH" => q.fate # "concluded" BY <1>2, Known DEF Fated
<1>12. QED BY <1>1, <1>2, <1>3, <1>5, <1>6, <1>7, <1>8, <1>9, <1>10, <1>11, Goes

\* A handler that ends the attempt starts.
LEMMA LeaveStep ==
  ASSUME DispatchAssumption, DispatchInv, NEW a \in Attempt, NEW why \in Reasons,
         (why \in {"transient", "fatal", "qr"} /\ t[a].at = "none") \/ why \in {"dropped", "logout"}, Leave(a, why)
  PROVE  DispatchInv'
<1> DEFINE q == t[a]
           aborts == why \in Ended \/ (Mode = "AUTO" /\ why = "dropped")
           p == IF aborts THEN Abort(q) ELSE q
           L == p.leaving \cup {why}
           r == [p EXCEPT !.leaving = L]
<1>1. /\ q.client = "live" /\ t' = [t EXCEPT ![a] = r]
      /\ UNCHANGED <<att, watch, started, sent, consumed, file, code>>
  BY DEF Leave, Lives, Put, Messages
<1>2. q \in AttemptRecord /\ q.settled = "none" /\ a = att BY <1>1, Known DEF Lifetime
<1>3. /\ p \in AttemptRecord /\ p.at = q.at /\ p.client = q.client /\ p.item = q.item /\ p.results = q.results
      /\ p.leaving = q.leaving /\ p.settled = q.settled
      /\ p.fate = IF aborts /\ q.fate = "open" THEN "aborted" ELSE q.fate
  <2> HIDE DEF q
  <2>1. QED BY <1>2, Aborted
<1> HIDE DEF p
<1>4. L = q.leaving \cup {why} /\ L \in SUBSET Reasons BY <1>3 DEF AttemptRecord
<1> HIDE DEF L
<1>5. /\ r \in AttemptRecord /\ r.leaving = L /\ r.at = q.at /\ r.client = q.client /\ r.item = q.item
      /\ r.results = q.results /\ r.settled = q.settled
      /\ r.fate = IF aborts /\ q.fate = "open" THEN "aborted" ELSE q.fate
  BY <1>3, <1>4, Leaves
<1> HIDE DEF r
<1>6. t'[a] = r BY <1>1, Known
<1>7. \A b \in Attempt : Started(b)' = Started(b) BY <1>1 DEF Started
<1>8. why \notin {"ok", "nolid"} OBVIOUS
<1>9. why \in {"transient", "fatal", "qr"} => q.at = "none" OBVIOUS
<1>10. Mode = "BATCH" => (aborts <=> why \in {"transient", "fatal"}) BY <1>8, Constants DEF Ended, Reasons
<1>11. Sound(a)'
  <2>1. Lifetime(a) /\ InOrder(a) /\ Retriable(a) /\ (Mode = "BATCH" => Fated(a)) BY Known
  <2>2. Lifetime(a)' BY <1>1, <1>2, <1>5, <1>6 DEF Lifetime
  <2>3. InOrder(a)' BY <1>4, <1>5, <1>6, <1>7, <1>8, <2>1 DEF InOrder, Sending
  <2>4. q.at = "none" => Started(a) = {} BY Unstarted
  <2>5. Retriable(a)' BY <1>1, <1>2, <1>4, <1>5, <1>6, <1>7, <1>9, <2>1, <2>4 DEF Retriable
  <2>6. ASSUME Mode = "BATCH" PROVE Fated(a)'
    <3> DEFINE F == Fated(a)
    <3>1. F BY <2>1, <2>6
    <3>2. L \cap {"ok", "nolid"} = {} BY <1>4, <1>8, <3>1 DEF Fated
    <3>3. q.at = "none" => q.fate # "concluded" BY <3>1 DEF Fated
    <3>4. q.fate \in {"open", "aborted", "concluded"} BY <1>2 DEF AttemptRecord
    <3>5. L \cap Ended # {} => r.fate = "aborted"
      <4>1. CASE why \in {"transient", "fatal"} BY <1>5, <1>9, <1>10, <2>6, <3>3, <3>4, <4>1
      <4>2. CASE why \notin {"transient", "fatal"}
        <5>1. L \cap Ended = q.leaving \cap Ended BY <1>4, <1>8, <4>2 DEF Ended
        <5>2. r.fate = q.fate BY <1>5, <1>10, <2>6, <4>2
        <5>3. QED BY <3>1, <5>1, <5>2 DEF Fated
      <4>3. QED BY <4>1, <4>2
    <3>6. r.fate = "concluded" <=> q.fate = "concluded" BY <1>5
    <3>7. QED BY <1>2, <1>5, <1>6, <3>1, <3>2, <3>5, <3>6 DEF Fated
  <2>7. QED BY <2>2, <2>3, <2>5, <2>6 DEF Sound
<1>12. Mode = "BATCH" /\ r.at \notin {"none", "settle"} =>
         "qr" \notin r.leaving /\ \A b \in Attempt \ {a} : t[b].leaving = {}
  <2>1. Mode = "BATCH" /\ q.at \notin {"none", "settle"} =>
          "qr" \notin q.leaving /\ \A b \in Attempt \ {a} : t[b].leaving = {}
    BY <1>2 DEF DispatchInv, Turn
  <2>2. QED BY <1>4, <1>5, <1>9, <2>1
<1>13. Mode = "BATCH" /\ q.fate = "concluded" => r.fate = "concluded" /\ r.results = q.results BY <1>5
<1>14. sent' \subseteq started' /\ started' \subseteq Message /\ consumed' \subseteq sent' BY <1>1, Known
<1>15. watch' \in [Attempt -> ItemRecord] /\ Listened' BY <1>1, Known DEF Listened
<1>16. QED BY <1>1, <1>2, <1>5, <1>7, <1>11, <1>12, <1>13, <1>14, <1>15, Goes

\* A client whose destroy() returned to one of those that await it.
LEMMA Gone ==
  ASSUME NEW q \in AttemptRecord, NEW why \in q.leaving
  PROVE  LET gone == [q EXCEPT !.client = "dead", !.leaving = q.leaving \ {why}]
             after == IF why = "dropped" THEN Settle(Abort(gone), "fatal")
                      ELSE IF why \in Ended THEN Settle(gone, why) ELSE gone
         IN  /\ gone \in AttemptRecord /\ gone.client = "dead" /\ gone.leaving = q.leaving \ {why}
             /\ gone.at = q.at /\ gone.item = q.item /\ gone.results = q.results
             /\ gone.fate = q.fate /\ gone.settled = q.settled
             /\ after \in AttemptRecord /\ after.client = "dead" /\ after.leaving = q.leaving \ {why}
             /\ after.at = q.at /\ after.item = q.item /\ after.results = q.results
             /\ after.fate = (IF why = "dropped" /\ q.fate = "open" THEN "aborted" ELSE q.fate)
             /\ after.settled = (IF q.settled # "none" THEN q.settled
                                 ELSE IF why = "dropped" THEN "fatal"
                                 ELSE IF why \in Ended THEN why ELSE "none")
<1> DEFINE L == q.leaving \ {why}
           gone == [q EXCEPT !.client = "dead", !.leaving = L]
           gen == Abort(gone)
           after == IF why = "dropped" THEN Settle(gen, "fatal")
                    ELSE IF why \in Ended THEN Settle(gone, why) ELSE gone
<1>1. L \in SUBSET Reasons BY DEF AttemptRecord
<1> HIDE DEF L
<1>2. gone \in AttemptRecord BY <1>1 DEF AttemptRecord
<1>3. gone.client = "dead" /\ gone.leaving = L BY DEF AttemptRecord
<1>4. gone.at = q.at /\ gone.item = q.item /\ gone.results = q.results BY DEF AttemptRecord
<1>5. gone.fate = q.fate /\ gone.settled = q.settled BY DEF AttemptRecord
<1> HIDE DEF gone
<1>6. /\ gen \in AttemptRecord /\ gen.fate = (IF gone.fate = "open" THEN "aborted" ELSE gone.fate)
      /\ gen.at = gone.at /\ gen.client = gone.client /\ gen.item = gone.item /\ gen.results = gone.results
      /\ gen.leaving = gone.leaving /\ gen.settled = gone.settled
  BY <1>2, Aborted
<1> HIDE DEF gen
<1>7. /\ after \in AttemptRecord /\ after.client = "dead" /\ after.leaving = L
      /\ after.at = q.at /\ after.item = q.item /\ after.results = q.results
      /\ after.fate = (IF why = "dropped" /\ q.fate = "open" THEN "aborted" ELSE q.fate)
      /\ after.settled = (IF q.settled # "none" THEN q.settled
                          ELSE IF why = "dropped" THEN "fatal"
                          ELSE IF why \in Ended THEN why ELSE "none")
  <2>1. CASE why = "dropped"
    <3>1. "fatal" \in Ended /\ "dropped" \notin Ended BY DEF Ended
    <3>2. QED BY <1>3, <1>4, <1>5, <1>6, <2>1, <3>1, Heard
  <2>2. CASE why # "dropped" /\ why \in Ended BY <1>2, <1>3, <1>4, <1>5, <2>2, Heard
  <2>3. CASE why # "dropped" /\ why \notin Ended BY <1>2, <1>3, <1>4, <1>5, <2>3
  <2>4. QED BY <2>1, <2>2, <2>3
<1> HIDE DEF after
<1>8. QED BY <1>2, <1>3, <1>4, <1>5, <1>7 DEF gone, L, gen, after

LEMMA DestroyedStep ==
  ASSUME DispatchAssumption, InTime, DispatchInv, NEW a \in Attempt, Destroyed(a)
  PROVE  DispatchInv'
<1> DEFINE q == t[a]
<1>1. PICK why \in q.leaving :
        LET gone == [q EXCEPT !.client = "dead", !.leaving = q.leaving \ {why}]
            after == IF why = "dropped" THEN Settle(Abort(gone), "fatal")
                     ELSE IF why \in Ended THEN Settle(gone, why) ELSE gone
            spared == Mode = "BATCH" /\ q.fate = "concluded" /\ why \in {"dropped", "logout"}
        IN /\ code = Running
           /\ Put(a, IF spared THEN [gone EXCEPT !.client = after.client] ELSE after)
           /\ IF why \in {"qr", "logout"} /\ ~spared THEN Exit(21) ELSE UNCHANGED code
           /\ UNCHANGED <<att, watch, Messages, file>>
  BY DEF Destroyed, InTime
<1> DEFINE L == q.leaving \ {why}
           gone == [q EXCEPT !.client = "dead", !.leaving = L]
           after == IF why = "dropped" THEN Settle(Abort(gone), "fatal")
                    ELSE IF why \in Ended THEN Settle(gone, why) ELSE gone
           spared == Mode = "BATCH" /\ q.fate = "concluded" /\ why \in {"dropped", "logout"}
           r == IF spared THEN [gone EXCEPT !.client = after.client] ELSE after
<1>2. /\ code = Running /\ t' = [t EXCEPT ![a] = r]
      /\ (why \in {"qr", "logout"} /\ ~spared /\ code' = 21) \/ code' = code
      /\ UNCHANGED <<att, watch, started, sent, consumed, file>>
  BY <1>1 DEF Put, Exit, Messages
<1>3. q \in AttemptRecord /\ why \in Reasons /\ q.client # "off"
  <2>1. q \in AttemptRecord BY Known
  <2>2. q.client # "off" BY Known
  <2>3. QED BY <1>1, <2>1, <2>2 DEF AttemptRecord
<1>4. /\ gone \in AttemptRecord /\ gone.client = "dead" /\ gone.leaving = L
      /\ gone.at = q.at /\ gone.item = q.item /\ gone.results = q.results
      /\ gone.fate = q.fate /\ gone.settled = q.settled
      /\ after \in AttemptRecord /\ after.client = "dead" /\ after.leaving = L
      /\ after.at = q.at /\ after.item = q.item /\ after.results = q.results
      /\ after.fate = (IF why = "dropped" /\ q.fate = "open" THEN "aborted" ELSE q.fate)
      /\ after.settled = (IF q.settled # "none" THEN q.settled
                          ELSE IF why = "dropped" THEN "fatal"
                          ELSE IF why \in Ended THEN why ELSE "none")
  <2> HIDE DEF q
  <2>1. QED BY <1>1, <1>3, Gone
<1> HIDE DEF gone, after
<1>5. /\ r \in AttemptRecord /\ r.client = "dead" /\ r.leaving = L /\ r.at = q.at /\ r.item = q.item
      /\ r.results = q.results
      /\ r.fate = (IF ~spared /\ why = "dropped" /\ q.fate = "open" THEN "aborted" ELSE q.fate)
      /\ r.settled = (IF spared \/ q.settled # "none" THEN q.settled
                      ELSE IF why = "dropped" THEN "fatal"
                      ELSE IF why \in Ended THEN why ELSE "none")
  <2>1. CASE spared
    <3>1. "dead" \in {"live", "dead"} OBVIOUS
    <3> DEFINE d == [gone EXCEPT !.client = "dead"]
    <3>2. /\ d \in AttemptRecord /\ d.client = "dead" /\ d.at = gone.at /\ d.leaving = gone.leaving
          /\ d.item = gone.item /\ d.results = gone.results /\ d.fate = gone.fate /\ d.settled = gone.settled
      BY <1>4, <3>1, Client
    <3>3. r = d BY <1>4, <2>1
    <3> HIDE DEF d, r
    <3>4. QED BY <1>4, <2>1, <3>2, <3>3
  <2>2. CASE ~spared BY <1>4, <2>2
  <2>3. QED BY <2>1, <2>2
<1> HIDE DEF r
<1>6. t'[a] = r BY <1>2, Known
<1>7. \A b \in Attempt : Started(b)' = Started(b) BY <1>2 DEF Started
<1>8. Lifetime(a) /\ InOrder(a) /\ Retriable(a) /\ (Mode = "BATCH" => Fated(a)) BY Known
<1>9. L \subseteq q.leaving /\ why \in q.leaving BY <1>1
<1>10. Sound(a)'
  <2>1. Lifetime(a)' BY <1>5, <1>6 DEF Lifetime
  <2>2. r.settled = "ok" => q.settled = "ok" \/ "ok" \in q.leaving BY <1>5, <1>9
  <2>3. InOrder(a)' BY <1>5, <1>6, <1>7, <1>8, <1>9, <2>2 DEF InOrder, Sending
  <2>4. r.settled = "transient" => q.settled = "transient" \/ "transient" \in q.leaving BY <1>5, <1>9
  <2>5. Retriable(a)' BY <1>5, <1>6, <1>7, <1>8, <1>9, <2>4 DEF Retriable
  <2>6. ASSUME Mode = "BATCH" PROVE Fated(a)'
    <3> HIDE DEF L
    <3>1. /\ q.leaving \cap {"ok", "nolid"} = {} /\ q.settled # "nolid"
          /\ q.leaving \cap Ended # {} \/ q.settled \in {"transient", "fatal"} => q.fate = "aborted"
          /\ q.settled = "ok" => q.fate = "concluded" /\ q.at = "done"
          /\ q.fate = "concluded" => q.at \in {"drain", "done"}
          /\ q.at = "drain" => q.fate = "concluded"
      BY <1>8, <2>6 DEF Fated
    <3>2. why \notin {"ok", "nolid"} BY <1>9, <3>1
    <3>3. q.fate \in {"open", "aborted", "concluded"} /\ q.settled \in {"none"} \cup Ended BY <1>3 DEF AttemptRecord
    <3>4. why \in Ended => q.fate = "aborted" BY <1>9, <3>1
    <3>5. r.fate = "concluded" <=> q.fate = "concluded" BY <1>5
    <3>6. q.fate = "aborted" => r.fate = "aborted" BY <1>5
    <3>7. L \cap {"ok", "nolid"} = {} /\ (L \cap Ended # {} => r.fate = "aborted") BY <1>9, <3>1, <3>6
    <3>8. r.settled # "nolid" /\ (r.settled = "ok" => r.fate = "concluded" /\ q.at = "done") BY <1>5, <3>1, <3>2, <3>5
    <3>9. r.settled \in {"transient", "fatal"} => r.fate = "aborted"
      <4>1. CASE spared \/ q.settled # "none" BY <1>5, <3>1, <3>6, <4>1
      <4>2. CASE ~spared /\ q.settled = "none" /\ why = "dropped" BY <1>5, <2>6, <3>3, <4>2
      <4>3. CASE ~spared /\ q.settled = "none" /\ why # "dropped" BY <1>5, <3>4, <3>6, <4>3 DEF Ended
      <4>4. QED BY <4>1, <4>2, <4>3
    <3>10. QED BY <1>5, <1>6, <3>1, <3>5, <3>7, <3>8, <3>9 DEF Fated
  <2>7. QED BY <2>1, <2>3, <2>5, <2>6 DEF Sound
<1>11. Mode = "BATCH" /\ a = att /\ r.at \notin {"none", "settle"} =>
         "qr" \notin r.leaving /\ \A b \in Attempt \ {a} : t[b].leaving = {}
  BY <1>5, <1>9 DEF DispatchInv, Turn
<1>12. q.settled # "none" => r.settled = q.settled BY <1>5
<1>13. /\ t' \in [Attempt -> AttemptRecord] /\ (\A b \in Attempt : Sound(b)') /\ Turn'
  BY <1>2, <1>3, <1>5, <1>7, <1>9, <1>10, <1>11, <1>12, Steps
<1>14. Recorded'
  <2>1. ASSUME Mode = "BATCH", file # NoFile
        PROVE  file = [by |-> att, results |-> t[att].results] /\ t[att].fate = "concluded" /\ code \in {Running, 0, 4}
    BY <2>1 DEF DispatchInv, Recorded
  <2>2. ASSUME Mode = "BATCH", t[att].fate = "concluded"
        PROVE  t'[att].fate = "concluded" /\ t'[att].results = t[att].results /\ code' = code
    <3>1. Fated(att) /\ att \in Attempt BY <2>2, Known
    <3>2. t[att].at \in {"drain", "done"} BY <2>2, <3>1 DEF Fated
    <3>3. "qr" \notin t[att].leaving /\ \A b \in Attempt \ {att} : t[b].leaving = {}
      BY <2>2, <3>2 DEF DispatchInv, Turn
    <3>4. a = att /\ why # "qr" BY <1>9, <3>3
    <3>5. why = "logout" => spared BY <2>2, <3>4
    <3>6. QED BY <1>2, <1>5, <1>6, <2>2, <3>4, <3>5
  <2>3. code' \in {0, 4} => FALSE BY <1>2, Constants
  <2>4. Mode = "AUTO" => file = NoFile BY DEF DispatchInv, Recorded
  <2>5. QED BY <1>2, <2>1, <2>2, <2>3, <2>4 DEF Recorded
<1>15. TypeOK'
  <2>1. code' \in {Running, 0, 4, 21, 24} BY <1>2
  <2>2. TypeOK BY DEF DispatchInv
  <2>3. QED BY <1>2, <1>13, <2>1, <2>2, TypesOf DEF TypeOK, AttemptRecord, ItemRecord, Places, Reasons
<1>16. Listened' BY <1>2, Known DEF Listened
<1>17. QED BY <1>13, <1>14, <1>15, <1>16 DEF DispatchInv

\* The result is written by the attempt that the process waits for, before it is over.
LEMMA ReportStep ==
  ASSUME DispatchAssumption, DispatchInv, NEW a \in Attempt, Report(a)
  PROVE  /\ DispatchInv'
         /\ file' # file => file = NoFile /\ file'.by = att /\ t[att].settled = "none"
<1> DEFINE q == t[a]
<1>1. /\ Mode = "BATCH" /\ code = Running /\ q.at = "report"
      /\ UNCHANGED <<att, watch, started, sent, consumed, code>>
  BY DEF Report, Messages
<1>2. q \in AttemptRecord /\ Lifetime(a) /\ InOrder(a) /\ Retriable(a) /\ Fated(a) BY <1>1, Known
<1>3. q.settled # "ok" /\ q.fate # "concluded" /\ q.client # "off" BY <1>1, <1>2, Known DEF Fated
<1>4. \A b \in Attempt : Started(b)' = Started(b) BY <1>1 DEF Started
<1>5. watch' \in [Attempt -> ItemRecord] /\ Listened' BY <1>1, Known DEF Listened
<1>6. sent' \subseteq started' /\ started' \subseteq Message /\ consumed' \subseteq sent' BY <1>1, Known
<1>7. a = att => "qr" \notin q.leaving /\ \A b \in Attempt \ {a} : t[b].leaving = {}
  BY <1>1 DEF DispatchInv, Turn
<1>8. CASE q.fate = "aborted"
  <2> DEFINE p == [q EXCEPT !.at = "done"]
             r == [p EXCEPT !.client = "dead"]
  <2>1. t' = [t EXCEPT ![a] = [q EXCEPT !.at = "done", !.client = "dead"]] /\ file' = file
    BY <1>8 DEF Report, Put
  <2>2. [q EXCEPT !.at = "done", !.client = "dead"] = r BY <1>2 DEF AttemptRecord
  <2>3. /\ r \in AttemptRecord /\ r.at = "done" /\ r.client = "dead" /\ r.item = q.item /\ r.results = q.results
        /\ r.fate = q.fate /\ r.leaving = q.leaving /\ r.settled = q.settled
    <3> HIDE DEF q
    <3>1. "done" \in Places /\ "dead" \in {"live", "dead"} BY DEF Places
    <3>2. /\ p \in AttemptRecord /\ p.at = "done" /\ p.item = q.item /\ p.results = q.results
          /\ p.fate = q.fate /\ p.leaving = q.leaving /\ p.settled = q.settled
      BY <1>2, <3>1, Moved
    <3> HIDE DEF p
    <3>3. QED BY <3>1, <3>2, Client
  <2> HIDE DEF r, p
  <2>4. t' = [t EXCEPT ![a] = r] BY <2>1, <2>2
  <2>5. t'[a] = r BY <2>4, Known
  <2>6. Lifetime(a)' BY <2>3, <2>5 DEF Lifetime
  <2>7. InOrder(a)' BY <1>1, <1>2, <1>4, <2>3, <2>5 DEF InOrder, Sending
  <2>8. Retriable(a)' BY <1>2, <1>4, <2>3, <2>5 DEF Retriable
  <2>9. Fated(a)' BY <1>2, <1>3, <2>3, <2>5 DEF Fated
  <2>10. Sound(a)' BY <2>6, <2>7, <2>8, <2>9 DEF Sound
  <2>11. DispatchInv' BY <1>1, <1>3, <1>4, <1>5, <1>6, <1>7, <2>1, <2>3, <2>4, <2>10, Goes
  <2>12. QED BY <2>1, <2>11
<1>9. CASE q.fate # "aborted"
  <2> DEFINE r == [q EXCEPT !.at = "drain", !.fate = "concluded"]
  <2>1. t' = [t EXCEPT ![a] = r] /\ file' \in {file, [by |-> a, results |-> q.results]} BY <1>9 DEF Report, Put
  <2>2. /\ r \in AttemptRecord /\ r.at = "drain" /\ r.client = q.client /\ r.item = q.item /\ r.results = q.results
        /\ r.fate = "concluded" /\ r.leaving = q.leaving /\ r.settled = q.settled
    <3> HIDE DEF q
    <3>1. r \in AttemptRecord BY <1>2 DEF AttemptRecord, Places
    <3>2. r.at = "drain" /\ r.fate = "concluded" BY <1>2 DEF AttemptRecord
    <3>3. r.client = q.client /\ r.item = q.item /\ r.results = q.results BY <1>2 DEF AttemptRecord
    <3>4. r.leaving = q.leaving /\ r.settled = q.settled BY <1>2 DEF AttemptRecord
    <3>5. QED BY <3>1, <3>2, <3>3, <3>4
  <2> HIDE DEF r
  <2>3. t'[a] = r BY <2>1, Known
  <2>4. q.settled = "none" BY <1>2, <1>3, <1>9 DEF AttemptRecord, Fated, Ended
  <2>5. a = att BY <1>3, <2>4, Known
  <2>6. file = NoFile BY <1>1, <1>3, <2>5 DEF DispatchInv, Recorded
  <2>7. Lifetime(a)' BY <1>3, <2>2, <2>3, <2>4 DEF Lifetime
  <2>8. InOrder(a)' BY <1>1, <1>2, <1>4, <2>2, <2>3 DEF InOrder, Sending
  <2>9. "transient" \notin q.leaving BY <1>2, <1>9 DEF Fated, Ended
  <2>10. Retriable(a)' BY <2>2, <2>3, <2>4, <2>9 DEF Retriable
  <2>11. q.leaving \cap Ended = {} BY <1>2, <1>9 DEF Fated
  <2>12. Fated(a)' BY <1>2, <2>2, <2>3, <2>4, <2>11 DEF Fated
  <2>13. Sound(a)' BY <2>7, <2>8, <2>10, <2>12 DEF Sound
  <2>14. t' \in [Attempt -> AttemptRecord] /\ (\A b \in Attempt : Sound(b)') /\ Turn'
    BY <1>1, <1>3, <1>4, <1>7, <2>1, <2>2, <2>5, <2>13, Steps
  <2>15. Recorded'
    <3>1. t'[att].fate = "concluded" /\ t'[att].results = q.results BY <2>2, <2>3, <2>5
    <3>2. code' = Running BY <1>1
    <3>3. QED BY <1>1, <2>1, <2>5, <2>6, <3>1, <3>2 DEF Recorded
  <2>16. TypeOK'
    <3>1. q.results \in Seq(BOOLEAN) BY <1>2 DEF AttemptRecord
    <3>2. a \in 0..MaxAttempts BY Constants
    <3>3. TypeOK BY DEF DispatchInv
    <3>4. file'.by \in 0..MaxAttempts /\ file'.results \in Seq(BOOLEAN) BY <2>1, <3>1, <3>2, <3>3, TypesOf
    <3>5. QED BY <1>1, <2>14, <3>3, <3>4, TypesOf DEF TypeOK, AttemptRecord, ItemRecord, Places, Reasons
  <2>17. DispatchInv' BY <1>5, <2>14, <2>15, <2>16 DEF DispatchInv
  <2>18. file' # file => file'.by = att BY <2>1, <2>5
  <2>19. QED BY <2>4, <2>5, <2>6, <2>17, <2>18
<1>10. QED BY <1>8, <1>9

LEMMA DrainedStep ==
  ASSUME DispatchAssumption, DispatchInv, NEW a \in Attempt, Drained(a)
  PROVE  DispatchInv'
<1> DEFINE q == t[a]
           d == [q EXCEPT !.at = "done"]
           e == [d EXCEPT !.client = "dead"]
           r == Settle(e, "ok")
<1>1. /\ Mode = "BATCH" /\ q.at = "drain"
      /\ t' = [t EXCEPT ![a] = Settle([q EXCEPT !.at = "done", !.client = "dead"], "ok")]
      /\ UNCHANGED <<att, watch, started, sent, consumed, file, code>>
  BY DEF Drained, Messages, Put
<1>2. q \in AttemptRecord /\ Lifetime(a) /\ InOrder(a) /\ Retriable(a) /\ Fated(a) /\ q.client # "off"
  BY <1>1, Known
<1>3. [q EXCEPT !.at = "done", !.client = "dead"] = e BY <1>2 DEF AttemptRecord
<1>4. /\ e \in AttemptRecord /\ e.at = "done" /\ e.client = "dead" /\ e.item = q.item /\ e.results = q.results
      /\ e.fate = q.fate /\ e.leaving = q.leaving /\ e.settled = q.settled
  <2> HIDE DEF q
  <2>1. "done" \in Places /\ "dead" \in {"live", "dead"} BY DEF Places
  <2>2. /\ d \in AttemptRecord /\ d.at = "done" /\ d.item = q.item /\ d.results = q.results
        /\ d.fate = q.fate /\ d.leaving = q.leaving /\ d.settled = q.settled
    BY <1>2, <2>1, Moved
  <2> HIDE DEF d
  <2>3. QED BY <2>1, <2>2, Client
<1>5. t' = [t EXCEPT ![a] = r] BY <1>1, <1>3
<1> HIDE DEF e
<1>6. /\ r \in AttemptRecord /\ r.at = "done" /\ r.client = "dead" /\ r.item = q.item /\ r.results = q.results
      /\ r.fate = q.fate /\ r.leaving = q.leaving
      /\ r.settled = IF q.settled = "none" THEN "ok" ELSE q.settled
  <2>1. "ok" \in Ended BY DEF Ended
  <2>2. QED BY <1>4, <2>1, Heard
<1> HIDE DEF r
<1>7. t'[a] = r BY <1>5, Known
<1>8. \A b \in Attempt : Started(b)' = Started(b) BY <1>1 DEF Started
<1>9. q.settled = "none" /\ q.fate = "concluded" /\ Len(q.results) = Len(Caption)
  BY <1>1, <1>2 DEF Fated, InOrder, AttemptRecord, Ended
<1>10. Sound(a)'
  <2>1. Lifetime(a)' BY <1>6, <1>7 DEF Lifetime
  <2>2. InOrder(a)' BY <1>1, <1>2, <1>6, <1>7, <1>8, <1>9 DEF InOrder, Sending
  <2>3. Retriable(a)' BY <1>2, <1>6, <1>7, <1>8, <1>9 DEF Retriable
  <2>4. Fated(a)' BY <1>2, <1>6, <1>7, <1>9 DEF Fated
  <2>5. QED BY <2>1, <2>2, <2>3, <2>4 DEF Sound
<1>11. watch' \in [Attempt -> ItemRecord] /\ Listened' BY <1>1, Known DEF Listened
<1>12. sent' \subseteq started' /\ started' \subseteq Message /\ consumed' \subseteq sent' BY <1>1, Known
<1>13. a = att => "qr" \notin q.leaving /\ \A b \in Attempt \ {a} : t[b].leaving = {}
  BY <1>1, <1>2 DEF DispatchInv, Turn
<1>14. QED BY <1>1, <1>2, <1>5, <1>6, <1>8, <1>9, <1>10, <1>11, <1>12, <1>13, Goes

LEMMA FinalizeStep ==
  ASSUME DispatchAssumption, DispatchInv, NEW a \in Attempt, Finalize(a)
  PROVE  DispatchInv'
<1> DEFINE q == t[a]
<1>1. Mode = "AUTO" /\ q.at = "report" /\ UNCHANGED <<att, watch, started, sent, consumed, file, code>>
  BY DEF Finalize, Messages
<1>2. PICK how \in {"ok", "fatal", "nolid"} :
        t' = [t EXCEPT ![a] =
               [(IF q.fate # "open" THEN q
                 ELSE [q EXCEPT !.fate = IF how = "ok" THEN "concluded" ELSE "aborted",
                                !.leaving = q.leaving \cup {how}])
                EXCEPT !.at = "done"]]
  BY DEF Finalize, Put
<1> DEFINE L == q.leaving \cup {how}
           fate == IF how = "ok" THEN "concluded" ELSE "aborted"
           ended == [q EXCEPT !.fate = fate, !.leaving = L]
           p == IF q.fate # "open" THEN q ELSE ended
           r == [p EXCEPT !.at = "done"]
<1>3. q \in AttemptRecord /\ Lifetime(a) /\ InOrder(a) /\ Retriable(a) /\ q.client # "off" BY <1>1, Known
<1>4. L \in SUBSET Reasons /\ fate \in {"open", "aborted", "concluded"} BY <1>3 DEF AttemptRecord, Reasons, Ended
<1>5. t' = [t EXCEPT ![a] = r] BY <1>2
<1> HIDE DEF L, fate
<1>6. /\ ended \in AttemptRecord /\ ended.leaving = L /\ ended.at = q.at /\ ended.client = q.client
      /\ ended.item = q.item /\ ended.results = q.results /\ ended.settled = q.settled
  <2> HIDE DEF q
  <2>1. ended \in AttemptRecord BY <1>3, <1>4 DEF AttemptRecord
  <2>2. ended.leaving = L /\ ended.at = q.at /\ ended.client = q.client BY <1>3 DEF AttemptRecord
  <2>3. ended.item = q.item /\ ended.results = q.results /\ ended.settled = q.settled BY <1>3 DEF AttemptRecord
  <2>4. QED BY <2>1, <2>2, <2>3
<1> HIDE DEF ended
<1>7. /\ p \in AttemptRecord /\ p.leaving \subseteq q.leaving \cup {how} /\ p.at = q.at /\ p.client = q.client
      /\ p.item = q.item /\ p.results = q.results /\ p.settled = q.settled
  BY <1>3, <1>6 DEF L
<1> HIDE DEF p
<1>8. /\ r \in AttemptRecord /\ r.at = "done" /\ r.leaving \subseteq q.leaving \cup {how} /\ r.client = q.client
      /\ r.item = q.item /\ r.results = q.results /\ r.settled = q.settled
  <2>1. "done" \in Places BY DEF Places
  <2>2. QED BY <1>7, <2>1, Moved
<1> HIDE DEF r
<1>9. t'[a] = r BY <1>5, Known
<1>10. \A b \in Attempt : Started(b)' = Started(b) BY <1>1 DEF Started
<1>11. Sound(a)'
  <2>1. Lifetime(a)' BY <1>3, <1>8, <1>9 DEF Lifetime, NewAttempt
  <2>2. InOrder(a)' BY <1>1, <1>3, <1>8, <1>9, <1>10 DEF InOrder, Sending
  <2>3. Retriable(a)' BY <1>1, <1>3, <1>8, <1>9, <1>10 DEF Retriable
  <2>4. QED BY <1>1, <2>1, <2>2, <2>3 DEF Sound
<1>12. watch' \in [Attempt -> ItemRecord] /\ Listened' BY <1>1, Known DEF Listened
<1>13. sent' \subseteq started' /\ started' \subseteq Message /\ consumed' \subseteq sent' BY <1>1, Known
<1>14. QED BY <1>1, <1>3, <1>5, <1>8, <1>10, <1>11, <1>12, <1>13, Goes

LEMMA BootstrapStep ==
  ASSUME DispatchAssumption, DispatchInv, Bootstrap
  PROVE  DispatchInv'
<1>1. /\ code = Running /\ t[att].client = "off" /\ UNCHANGED <<att, watch, started, sent, consumed, file>>
  BY DEF Bootstrap, Messages
<1>2. att \in Attempt /\ t[att] = NewAttempt BY <1>1, TypesOf DEF DispatchInv, Sound, Lifetime
<1>3. \A b \in Attempt : Started(b)' = Started(b) BY <1>1 DEF Started
<1>4. watch' \in [Attempt -> ItemRecord] /\ Listened' BY <1>1, <1>2, Known DEF Listened
<1>5. sent' \subseteq started' /\ started' \subseteq Message /\ consumed' \subseteq sent' BY <1>1, <1>2, Known
<1>6. CASE t' = [t EXCEPT ![att] = [t[att] EXCEPT !.client = "live"]] /\ UNCHANGED code
  <2> DEFINE q == t[att]
             r == [q EXCEPT !.client = "live"]
  <2>1. t' = [t EXCEPT ![att] = r] BY <1>6
  <2>2. /\ q \in AttemptRecord /\ q.at = "none" /\ q.item = 1 /\ q.results = <<>> /\ q.fate = "open"
        /\ q.leaving = {} /\ q.settled = "none"
    BY <1>2, Constants DEF NewAttempt
  <2>3. /\ r \in AttemptRecord /\ r.at = "none" /\ r.client = "live" /\ r.item = 1 /\ r.results = <<>>
        /\ r.fate = "open" /\ r.leaving = {} /\ r.settled = "none"
    <3> HIDE DEF q
    <3>1. "live" \in {"live", "dead"} OBVIOUS
    <3>2. QED BY <2>2, <3>1, Client
  <2> HIDE DEF r
  <2>4. t'[att] = r BY <1>2, <2>1, Known
  <2>5. Started(att) = {} BY <1>2, <2>2, Unstarted
  <2>6. Len(r.results) = 0 BY <2>3
  <2>7. Sound(att)'
    <3>1. Lifetime(att)' BY <1>1, <2>3, <2>4 DEF Lifetime
    <3>2. InOrder(att)' BY <1>1, <1>2, <1>3, <2>3, <2>4, <2>5, <2>6 DEF InOrder, Sending
    <3>3. Retriable(att)' BY <1>1, <2>3, <2>4 DEF Retriable
    <3>4. Fated(att)' BY <1>1, <2>3, <2>4 DEF Fated
    <3>5. QED BY <1>1, <3>1, <3>2, <3>3, <3>4 DEF Sound
  <2>8. QED BY <1>1, <1>2, <1>3, <1>4, <1>5, <1>6, <2>1, <2>2, <2>3, <2>7, Goes
<1>7. CASE code' = 21 /\ UNCHANGED t
  <2>1. TypeOK' BY <1>1, <1>7, TypesOf DEF DispatchInv, TypeOK
  <2>2. \A b \in Attempt : Sound(b)' BY <1>3, <1>7, Elsewhere DEF DispatchInv
  <2>3. Turn' BY <1>1, <1>7 DEF DispatchInv, Turn
  <2>4. t[att].fate # "concluded" BY <1>2 DEF NewAttempt
  <2>5. Recorded' BY <1>1, <1>7, <2>4 DEF DispatchInv, Recorded
  <2>6. QED BY <1>4, <2>1, <2>2, <2>3, <2>5 DEF DispatchInv
<1>8. QED BY <1>6, <1>7 DEF Bootstrap, Put, Exit

LEMMA ConcludeStep ==
  ASSUME DispatchAssumption, DispatchInv, Conclude
  PROVE  DispatchInv'
<1> DEFINE how == t[att].settled
<1>1. /\ code = Running /\ how # "none" /\ UNCHANGED <<t, watch, started, sent, consumed, file>>
      /\ \/ how = "ok" /\ code' \in {0, 4} /\ att' = att
         \/ how = "nolid" /\ code' = 0 /\ att' = att
         \/ how = "transient" /\ att < MaxAttempts /\ att' = att + 1 /\ code' = code
         \/ how \notin {"ok", "nolid"} /\ code' = 24 /\ att' = att
  BY DEF Conclude, Exit, Messages
<1>2. att \in Attempt /\ t[att] \in AttemptRecord /\ Attempt = 1..MaxAttempts /\ MaxAttempts \in Nat
  BY Constants, TypesOf DEF DispatchInv
<1>3. how \in Ended BY <1>1, <1>2 DEF AttemptRecord
<1>4. Mode = "BATCH" => Fated(att) BY <1>2 DEF DispatchInv, Sound
<1>5. att' \in Attempt /\ code' \in {Running, 0, 4, 21, 24} BY <1>1, <1>2
<1>6. TypeOK' BY <1>1, <1>5, TypesOf DEF DispatchInv, TypeOK
<1>7. \A b \in Attempt : Started(b)' = Started(b) BY <1>1 DEF Started
<1>8. \A b \in Attempt : Sound(b)' BY <1>1, <1>7, Elsewhere DEF DispatchInv
<1>9. Turn'
  <2>1. CASE att' = att BY <1>1, <2>1 DEF DispatchInv, Turn
  <2>2. CASE how = "transient" /\ att' = att + 1
    <3>1. ASSUME NEW b \in Attempt
          PROVE  (b < att + 1 => t[b].settled = "transient") /\ (b > att + 1 => t[b] = NewAttempt)
      <4>1. (b < att => t[b].settled = "transient") /\ (b > att => t[b] = NewAttempt) BY DEF DispatchInv, Turn
      <4>2. QED BY <1>2, <2>2, <4>1
    <3>2. t[att + 1].at = "none"
      <4>1. att + 1 \in Attempt /\ att + 1 > att BY <1>2, <1>5, <2>2
      <4>2. t[att + 1] = NewAttempt BY <4>1 DEF DispatchInv, Turn
      <4>3. QED BY <4>2 DEF NewAttempt
    <3>3. QED BY <1>1, <2>2, <3>1, <3>2 DEF Turn
  <2>3. QED BY <1>1, <2>1, <2>2
<1>10. Recorded'
  <2>1. ASSUME Mode = "BATCH" PROVE how = "ok" <=> t[att].fate = "concluded"
    BY <1>3, <1>4, <2>1 DEF Fated, Ended
  <2>2. ASSUME Mode = "BATCH" PROVE how # "nolid" BY <1>4, <2>2 DEF Fated
  <2>3. CASE how = "ok" /\ code' \in {0, 4} /\ att' = att
    BY <1>1, <2>1, <2>3 DEF DispatchInv, Recorded
  <2>4. CASE how # "ok"
    <3>1. Mode = "BATCH" => file = NoFile BY <2>1, <2>4 DEF DispatchInv, Recorded
    <3>2. Mode = "BATCH" => code' \in {Running, 24} BY <1>1, <2>2, <2>4
    <3>3. Mode = "BATCH" => code' \notin {0, 4} BY <3>2, Constants
    <3>4. QED BY <1>1, <3>1, <3>3 DEF DispatchInv, Recorded
  <2>5. QED BY <1>1, <2>3, <2>4
<1>11. Listened' BY <1>1 DEF DispatchInv, Listened
<1>12. QED BY <1>6, <1>8, <1>9, <1>10, <1>11 DEF DispatchInv
-----------------------------------------------------------------------------
(* Every step.                                                             *)

LEMMA Starts ==
  ASSUME DispatchAssumption, Init
  PROVE  DispatchInv
<1>1. /\ att = 1 /\ t = [a \in Attempt |-> NewAttempt] /\ watch = [a \in Attempt |-> NewItem]
      /\ started = {} /\ sent = {} /\ consumed = {} /\ file = NoFile /\ code = Running
  BY DEF Init
<1>2. /\ t \in [Attempt -> AttemptRecord] /\ watch \in [Attempt -> ItemRecord] /\ 1 \in Attempt
      /\ 0 \in 0..MaxAttempts /\ <<>> \in Seq(BOOLEAN) /\ Running = -1 /\ NoFile.by = 0 /\ NoFile.results = <<>>
  BY <1>1, Constants, EmptySeq
<1>3. TypeOK BY <1>1, <1>2, TypesOf
<1>4. ASSUME NEW a \in Attempt PROVE Sound(a)
  <2>1. /\ t[a] = NewAttempt /\ t[a].client = "off" /\ t[a].at = "none" /\ t[a].item = 1 /\ t[a].results = <<>>
        /\ t[a].fate = "open" /\ t[a].leaving = {} /\ t[a].settled = "none"
    BY <1>1 DEF NewAttempt
  <2>2. Started(a) = {} /\ Len(t[a].results) = 0 BY <1>1, <2>1 DEF Started
  <2>3. Lifetime(a) BY <2>1 DEF Lifetime
  <2>4. InOrder(a) BY <2>1, <2>2 DEF InOrder, Sending
  <2>5. Retriable(a) BY <2>1 DEF Retriable
  <2>6. Fated(a) BY <2>1 DEF Fated
  <2>7. QED BY <2>3, <2>4, <2>5, <2>6 DEF Sound
<1>5. Turn
  <2>1. \A a \in Attempt : ~(a < 1) /\ t[a] = NewAttempt BY <1>1, Constants
  <2>2. t[att].at = "none" BY <1>1, <1>2 DEF NewAttempt
  <2>3. QED BY <1>1, <2>1, <2>2 DEF Turn
<1>6. Recorded BY <1>1, <1>2 DEF Recorded
<1>7. Listened BY <1>1 DEF Listened, NewItem
<1>8. QED BY <1>3, <1>4, <1>5, <1>6, <1>7 DEF DispatchInv

LEMMA EventsStep ==
  ASSUME DispatchAssumption, InTime, DispatchInv, NEW a \in Attempt, Events(a)
  PROVE  DispatchInv'
<1>1. {"transient", "fatal", "qr", "dropped", "logout"} \subseteq Reasons BY DEF Reasons, Ended
<1>2. CASE BootstrapDeadline(a) BY <1>1, <1>2, LeaveStep DEF BootstrapDeadline
<1>3. CASE InitializeRejects(a)
  <2>1. PICK how \in {"transient", "fatal"} : t[a].at = "none" /\ Leave(a, how) BY <1>3 DEF InitializeRejects, InTime
  <2>2. QED BY <1>1, <2>1, LeaveStep
<1>4. CASE AuthFailure(a) BY <1>1, <1>4, LeaveStep DEF AuthFailure
<1>5. CASE QrCode(a) BY <1>1, <1>5, LeaveStep DEF QrCode, InTime
<1>6. CASE Disconnected(a)
  <2>1. PICK why \in {"dropped", "logout"} : Leave(a, why) BY <1>6 DEF Disconnected
  <2>2. QED BY <1>1, <2>1, LeaveStep
<1>7. CASE Ready(a) BY <1>7, ReadyStep
<1>8. CASE \E i \in Item : Transmit(<<a, i>>) \/ MessageCreate(a, <<a, i>>) \/ MessageAck(a, <<a, i>>)
  BY <1>8, TransmitStep, MessageCreateStep, MessageAckStep
<1>9. QED BY <1>2, <1>3, <1>4, <1>5, <1>6, <1>7, <1>8 DEF Events

\* sendMessage is back, and where that leaves the item.
LEMMA ReturnsStep ==
  ASSUME DispatchAssumption, DispatchInv, NEW a \in Attempt, Returns(a)
  PROVE  DispatchInv'
<1>1. t[a].at = "sending" BY DEF Returns
<1>2. CASE <<a, t[a].item>> \in sent /\ Dispatched(a, <<a, t[a].item>>) BY <1>1, <1>2, DispatchedStep
<1>3. CASE watch[a].seen # NoId /\ Dispatched(a, watch[a].seen)
  BY <1>1, <1>3, DispatchedStep DEF DispatchInv, Listened
<1>4. CASE Put(a, [t[a] EXCEPT !.at = "observe"]) /\ UNCHANGED <<att, watch, Messages, file, code>>
  <2>1. watch' \in [Attempt -> ItemRecord] /\ Listened' /\ consumed' \subseteq sent'
    BY <1>4, Known DEF Listened, Messages
  <2>2. "observe" \in {"observe", "ack"} OBVIOUS
  <2>3. t' = [t EXCEPT ![a] = [t[a] EXCEPT !.at = "observe"]] /\ UNCHANGED <<att, started, sent, file, code>>
    BY <1>4 DEF Put, Messages
  <2>4. QED BY <1>1, <2>1, <2>2, <2>3, Within
<1>5. QED BY <1>2, <1>3, <1>4 DEF Returns

LEMMA HandlerStep ==
  ASSUME DispatchAssumption, InTime, DispatchInv, NEW a \in Attempt, Handler(a)
  PROVE  DispatchInv'
<1>1. CASE Settled(a) BY <1>1, SettledStep
<1>2. CASE Prepare(a) BY <1>2, PrepareStep
<1>3. CASE Send(a) BY <1>3, SendStep
<1>4. CASE Returns(a) BY <1>4, ReturnsStep
<1>5. CASE Observed(a)
  <2>1. t[a].at = "observe" BY <1>5 DEF Observed
  <2>2. CASE watch[a].seen # NoId
    BY <1>5, <2>1, <2>2, DispatchedStep DEF Observed, DispatchInv, Listened
  <2>3. CASE watch[a].seen = NoId BY <1>5, <2>1, <2>3, FinishStep DEF Observed
  <2>4. QED BY <2>2, <2>3
<1>6. CASE Rejects(a) BY <1>6, FinishStep DEF Rejects
<1>7. CASE AckWaited(a) BY <1>7, FinishStep DEF AckWaited
<1>8. CASE Report(a) BY <1>8, ReportStep
<1>9. CASE Drained(a) BY <1>9, DrainedStep
<1>10. CASE Finalize(a) BY <1>10, FinalizeStep
<1>11. QED BY <1>1, <1>2, <1>3, <1>4, <1>5, <1>6, <1>7, <1>8, <1>9, <1>10 DEF Handler

LEMMA DispatchStep ==
  ASSUME DispatchAssumption, InTime, DispatchInv, [Next]_vars
  PROVE  DispatchInv'
<1>1. CASE Bootstrap BY <1>1, BootstrapStep
<1>2. CASE Conclude BY <1>2, ConcludeStep
<1>3. ASSUME NEW a \in Attempt, Events(a) \/ Destroyed(a) \/ Handler(a) PROVE DispatchInv'
  BY <1>3, EventsStep, DestroyedStep, HandlerStep
<1>4. CASE UNCHANGED vars
  <2>1. UNCHANGED <<att, t, watch, started, sent, consumed, file, code>> BY <1>4 DEF vars
  <2>2. /\ watch' \in [Attempt -> ItemRecord] /\ Listened' /\ sent' \subseteq started' /\ consumed' \subseteq sent'
    BY <2>1, TypesOf DEF DispatchInv, Listened
  <2>3. QED BY <2>1, <2>2, Stays
<1>5. QED BY <1>1, <1>2, <1>3, <1>4 DEF Next

\* Attempts that follow one another, each with its client, its deadlines and its handlers:
\* what executarModoBatch and executarModoAuto rely on at every step.
THEOREM DispatchIsSound == DispatchAssumption /\ InTime => (Spec => []DispatchInv)
<1> SUFFICES ASSUME DispatchAssumption, InTime PROVE Spec => []DispatchInv
  OBVIOUS
<1>1. Init => DispatchInv BY Starts
<1>2. DispatchInv /\ [Next]_vars => DispatchInv' BY DispatchStep
<1>3. QED BY <1>1, <1>2, PTL DEF Spec

LEMMA DispatchPromises ==
  ASSUME DispatchAssumption, DispatchInv
  PROVE  SentOnce /\ RecordedIsConcluded
<1>1. ASSUME NEW m \in sent PROVE m[1] = att /\ m = <<m[1], m[2]>>
  <2>1. m \in started /\ m \in Message BY <1>1, TypesOf DEF DispatchInv
  <2>2. PICK a \in Attempt, i \in Item : m = <<a, i>> BY <2>1 DEF Message
  <2>3. i \in Started(a) BY <2>1, <2>2 DEF Started
  <2>4. t[a].client # "off"
    <3>1. t[a].client = "off" => t[a].at = "none" BY Known
    <3>2. QED BY <2>3, <3>1, Unstarted
  <2>5. t[a].settled # "transient" BY <2>3, Known DEF Retriable
  <2>6. a = att BY <2>4, <2>5, Known
  <2>7. QED BY <2>2, <2>6
<1>2. SentOnce BY <1>1 DEF SentOnce
<1>3. Mode \in {"BATCH", "AUTO"} BY Constants
<1>4. RecordedIsConcluded BY <1>3 DEF DispatchInv, Recorded, RecordedIsConcluded
<1>5. QED BY <1>2, <1>4

\* No attempt sends what another has sent: whatever was started is of the one the process waits for.
THEOREM NothingIsSentTwice == DispatchAssumption /\ InTime => (Spec => []SentOnce)
<1> SUFFICES ASSUME DispatchAssumption, InTime PROVE Spec => []SentOnce
  OBVIOUS
<1>1. Spec => []DispatchInv BY DispatchIsSound
<1>2. DispatchInv => SentOnce BY DispatchPromises
<1>3. QED BY <1>1, <1>2, PTL

\* A batch exits as its record says, whatever the drain brings.
THEOREM RecordedStays == DispatchAssumption /\ InTime => (Spec => []RecordedIsConcluded)
<1> SUFFICES ASSUME DispatchAssumption, InTime PROVE Spec => []RecordedIsConcluded
  OBVIOUS
<1>1. Spec => []DispatchInv BY DispatchIsSound
<1>2. DispatchInv => RecordedIsConcluded BY DispatchPromises
<1>3. QED BY <1>1, <1>2, PTL
-----------------------------------------------------------------------------
(* What is written, and what listeners and reports tell.                   *)

LEMMA FileStays ==
  ASSUME Next
  PROVE  file' = file \/ \E a \in Attempt : Report(a)
<1>1. CASE Bootstrap \/ Conclude BY <1>1 DEF Bootstrap, Conclude
<1>2. ASSUME NEW a \in Attempt, Events(a) PROVE file' = file
  <2>1. ASSUME NEW why, Leave(a, why) PROVE file' = file BY <2>1 DEF Leave
  <2>2. ASSUME NEW m, Transmit(m) \/ MessageCreate(a, m) \/ MessageAck(a, m) PROVE file' = file
    BY <2>2 DEF Transmit, MessageCreate, MessageAck
  <2>3. QED BY <1>2, <2>1, <2>2 DEF Events, BootstrapDeadline, InitializeRejects, AuthFailure, QrCode, Disconnected, Ready
<1>3. ASSUME NEW a \in Attempt, Destroyed(a) PROVE file' = file BY <1>3 DEF Destroyed
<1>4. ASSUME NEW a \in Attempt, Handler(a) PROVE file' = file \/ Report(a)
  <2>1. ASSUME NEW m, Dispatched(a, m) PROVE file' = file BY <2>1 DEF Dispatched
  <2>2. ASSUME NEW ok, Finish(a, ok) PROVE file' = file BY <2>2 DEF Finish
  <2>3. CASE Settled(a) \/ Prepare(a) \/ Send(a) BY <2>3 DEF Settled, Prepare, Send
  <2>4. CASE Returns(a) BY <2>1, <2>4 DEF Returns
  <2>5. CASE Observed(a) \/ Rejects(a) \/ AckWaited(a) BY <2>1, <2>2, <2>5 DEF Observed, Rejects, AckWaited
  <2>6. CASE Drained(a) \/ Finalize(a) BY <2>6 DEF Drained, Finalize
  <2>7. QED BY <1>4, <2>3, <2>4, <2>5, <2>6 DEF Handler
<1>5. QED BY <1>1, <1>2, <1>3, <1>4 DEF Next

\* Only the attempt that the process waits for writes the result, once.
THEOREM StaleAreDropped == DispatchAssumption /\ InTime => (Spec => StaleIsDropped)
<1> SUFFICES ASSUME DispatchAssumption, InTime PROVE Spec => StaleIsDropped
  OBVIOUS
<1>1. Spec => []DispatchInv BY DispatchIsSound
<1>2. ASSUME DispatchInv, [Next]_vars
      PROVE  [file' # file => file = NoFile /\ file'.by = att /\ t[att].settled = "none"]_vars
  <2>1. CASE UNCHANGED vars BY <2>1
  <2>2. CASE Next BY <1>2, <2>2, FileStays, ReportStep
  <2>3. QED BY <1>2, <2>1, <2>2
<1>3. QED BY <1>1, <1>2, PTL DEF Spec, StaleIsDropped

\* An attempt that writes no result, takes no item and does not come to wait for an ACK.
Keeps(b) ==
  t'[b].results = t[b].results /\ t'[b].item = t[b].item /\ (t'[b].at = "ack" => t[b].at = "ack")

Quiet == (\A b \in Attempt : Keeps(b)) /\ UNCHANGED watch

Hears(a) == \E m : MessageCreate(a, m) \/ MessageAck(a, m)

Gets(a) == \E m \in sent :
  /\ t[a].at \in {"sending", "observe"} /\ Dispatched(a, m)
  /\ m = <<a, t[a].item>> \/ (watch[a].seen # NoId /\ m = watch[a].seen)

Finishes(a) == (t[a].at = "ack" /\ Finish(a, TRUE)) \/ (t[a].at \in {"next", "sending", "observe"} /\ Finish(a, FALSE))

LEMMA Keeping ==
  ASSUME DispatchAssumption, DispatchInv, NEW a \in Attempt, NEW r, t' = [t EXCEPT ![a] = r],
         r.results = t[a].results, r.item = t[a].item, r.at = "ack" => t[a].at = "ack"
  PROVE  \A b \in Attempt : Keeps(b)
<1>1. t'[a] = r /\ \A b \in Attempt \ {a} : t'[b] = t[b] BY Known
<1>2. QED BY <1>1 DEF Keeps

LEMMA LeaveIsQuiet ==
  ASSUME DispatchAssumption, DispatchInv, NEW a \in Attempt, NEW why, Leave(a, why)
  PROVE  Quiet
<1> DEFINE q == t[a]
           p == IF why \in Ended \/ (Mode = "AUTO" /\ why = "dropped") THEN Abort(q) ELSE q
           L == p.leaving \cup {why}
           r == [p EXCEPT !.leaving = L]
<1>1. t' = [t EXCEPT ![a] = r] /\ UNCHANGED watch BY DEF Leave, Put
<1>2. q \in AttemptRecord BY Known
<1>3. p \in AttemptRecord /\ p.results = q.results /\ p.item = q.item /\ p.at = q.at
  <2> HIDE DEF q
  <2>1. QED BY <1>2, Aborted
<1> HIDE DEF p, L
<1>4. r.results = q.results /\ r.item = q.item /\ r.at = q.at BY <1>3 DEF AttemptRecord
<1> HIDE DEF r
<1>5. QED BY <1>1, <1>4, Keeping DEF Quiet

LEMMA MoveIsQuiet ==
  ASSUME DispatchAssumption, DispatchInv, NEW a \in Attempt, NEW x, x # "ack",
         t' = [t EXCEPT ![a] = [t[a] EXCEPT !.at = x]], UNCHANGED watch
  PROVE  Quiet
<1> DEFINE q == t[a]
           r == [q EXCEPT !.at = x]
<1>1. q \in AttemptRecord BY Known
<1>2. r.results = q.results /\ r.item = q.item /\ r.at # "ack"
  <2> HIDE DEF q
  <2>1. QED BY <1>1 DEF AttemptRecord
<1>3. t' = [t EXCEPT ![a] = r] OBVIOUS
<1> HIDE DEF r
<1>4. QED BY <1>2, <1>3, Keeping DEF Quiet

LEMMA DestroyedIsQuiet ==
  ASSUME DispatchAssumption, InTime, DispatchInv, NEW a \in Attempt, Destroyed(a)
  PROVE  Quiet
<1> DEFINE q == t[a]
<1>1. PICK why \in q.leaving :
        LET gone == [q EXCEPT !.client = "dead", !.leaving = q.leaving \ {why}]
            after == IF why = "dropped" THEN Settle(Abort(gone), "fatal")
                     ELSE IF why \in Ended THEN Settle(gone, why) ELSE gone
            spared == Mode = "BATCH" /\ q.fate = "concluded" /\ why \in {"dropped", "logout"}
        IN Put(a, IF spared THEN [gone EXCEPT !.client = after.client] ELSE after)
  BY DEF Destroyed, InTime
<1> DEFINE L == q.leaving \ {why}
           gone == [q EXCEPT !.client = "dead", !.leaving = L]
           after == IF why = "dropped" THEN Settle(Abort(gone), "fatal")
                    ELSE IF why \in Ended THEN Settle(gone, why) ELSE gone
           x == after.client
           r == [gone EXCEPT !.client = x]
<1>2. t' = [t EXCEPT ![a] = r] \/ t' = [t EXCEPT ![a] = after] BY <1>1 DEF Put
<1>3. q \in AttemptRecord BY Known
<1>4. /\ gone \in AttemptRecord /\ gone.at = q.at /\ gone.item = q.item /\ gone.results = q.results
      /\ after \in AttemptRecord /\ after.at = q.at /\ after.item = q.item /\ after.results = q.results
  <2> HIDE DEF q
  <2>1. QED BY <1>1, <1>3, Gone
<1> HIDE DEF gone, after, x
<1>5. r.results = q.results /\ r.item = q.item /\ r.at = q.at BY <1>4 DEF AttemptRecord
<1> HIDE DEF r
<1>6. UNCHANGED watch BY DEF Destroyed
<1>7. QED BY <1>2, <1>4, <1>5, <1>6, Keeping DEF Quiet

LEMMA EndIsQuiet ==
  ASSUME DispatchAssumption, DispatchInv, NEW a \in Attempt,
         Prepare(a) \/ Report(a) \/ Drained(a) \/ Finalize(a)
  PROVE  Quiet
<1> DEFINE q == t[a]
<1>1. q \in AttemptRecord BY Known
<1>2. UNCHANGED watch BY DEF Prepare, Report, Drained, Finalize
<1>3. CASE Prepare(a)
  <2>1. PICK how \in {"transient", "fatal", "nolid"} :
          t' = [t EXCEPT ![a] =
                 [(IF q.fate = "open" THEN [Abort(q) EXCEPT !.leaving = Abort(q).leaving \cup {how}] ELSE q)
                  EXCEPT !.at = "done"]]
    BY <1>3 DEF Prepare, Put
  <2> DEFINE L == Abort(q).leaving \cup {how}
             e == [Abort(q) EXCEPT !.leaving = L]
             p == IF q.fate = "open" THEN e ELSE q
             r == [p EXCEPT !.at = "done"]
  <2>2. Abort(q) \in AttemptRecord /\ Abort(q).results = q.results /\ Abort(q).item = q.item /\ Abort(q).leaving = q.leaving
    <3> HIDE DEF q
    <3>1. QED BY <1>1, Aborted
  <2>3. L \in SUBSET Reasons BY <1>1, <2>2 DEF AttemptRecord, Reasons, Ended
  <2> HIDE DEF L
  <2>4. e \in AttemptRecord /\ e.results = q.results /\ e.item = q.item
    <3> DEFINE z == Abort(q)
    <3>1. z \in AttemptRecord BY <2>2
    <3> HIDE DEF z
    <3>2. [z EXCEPT !.leaving = L] \in AttemptRecord /\ [z EXCEPT !.leaving = L].results = z.results
          /\ [z EXCEPT !.leaving = L].item = z.item
      BY <2>3, <3>1, Leaves
    <3>3. QED BY <2>2, <3>2 DEF z
  <2> HIDE DEF e
  <2>5. p \in AttemptRecord /\ p.results = q.results /\ p.item = q.item BY <1>1, <2>4
  <2>6. t' = [t EXCEPT ![a] = r] BY <2>1 DEF e, L
  <2> HIDE DEF p
  <2>7. r.results = q.results /\ r.item = q.item /\ r.at # "ack" BY <2>5 DEF AttemptRecord
  <2> HIDE DEF r
  <2>8. QED BY <1>2, <2>6, <2>7, Keeping DEF Quiet
<1>4. CASE Report(a)
  <2> DEFINE r == [q EXCEPT !.at = "done", !.client = "dead"]
             s == [q EXCEPT !.at = "drain", !.fate = "concluded"]
  <2>1. t' = [t EXCEPT ![a] = r] \/ t' = [t EXCEPT ![a] = s] BY <1>4 DEF Report, Put
  <2>2. r.results = q.results /\ r.item = q.item /\ r.at # "ack" BY <1>1 DEF AttemptRecord
  <2>3. s.results = q.results /\ s.item = q.item /\ s.at # "ack" BY <1>1 DEF AttemptRecord
  <2> HIDE DEF r, s
  <2>4. QED BY <1>2, <2>1, <2>2, <2>3, Keeping DEF Quiet
<1>5. CASE Drained(a)
  <2> DEFINE e == [q EXCEPT !.at = "done", !.client = "dead"]
             r == Settle(e, "ok")
  <2>1. t' = [t EXCEPT ![a] = r] BY <1>5 DEF Drained, Put
  <2>2. e \in AttemptRecord BY <1>1 DEF AttemptRecord, Places
  <2>3. e.results = q.results /\ e.item = q.item /\ e.at = "done" BY <1>1 DEF AttemptRecord
  <2> HIDE DEF e
  <2>4. r.results = e.results /\ r.item = e.item /\ r.at = e.at
    <3>1. "ok" \in Ended BY DEF Ended
    <3>2. QED BY <2>2, <3>1, Heard
  <2> HIDE DEF r
  <2>5. QED BY <1>2, <2>1, <2>3, <2>4, Keeping DEF Quiet
<1>6. CASE Finalize(a)
  <2>1. PICK how \in {"ok", "fatal", "nolid"} :
          t' = [t EXCEPT ![a] =
                 [(IF q.fate # "open" THEN q
                   ELSE [q EXCEPT !.fate = IF how = "ok" THEN "concluded" ELSE "aborted",
                                  !.leaving = q.leaving \cup {how}])
                  EXCEPT !.at = "done"]]
    BY <1>6 DEF Finalize, Put
  <2> DEFINE L == q.leaving \cup {how}
             fate == IF how = "ok" THEN "concluded" ELSE "aborted"
             e == [q EXCEPT !.fate = fate, !.leaving = L]
             p == IF q.fate # "open" THEN q ELSE e
             r == [p EXCEPT !.at = "done"]
  <2>2. t' = [t EXCEPT ![a] = r] BY <2>1
  <2>3. L \in SUBSET Reasons /\ fate \in {"open", "aborted", "concluded"} BY <1>1 DEF AttemptRecord, Reasons, Ended
  <2> HIDE DEF L, fate
  <2>4. e \in AttemptRecord BY <1>1, <2>3 DEF AttemptRecord
  <2>5. e.results = q.results /\ e.item = q.item BY <1>1 DEF AttemptRecord
  <2> HIDE DEF e
  <2>6. p \in AttemptRecord /\ p.results = q.results /\ p.item = q.item BY <1>1, <2>4, <2>5
  <2> HIDE DEF p
  <2>7. r.results = q.results /\ r.item = q.item /\ r.at # "ack" BY <2>6 DEF AttemptRecord
  <2> HIDE DEF r
  <2>8. QED BY <1>2, <2>2, <2>7, Keeping DEF Quiet
<1>7. QED BY <1>3, <1>4, <1>5, <1>6

\* A step is of one that runs; it is quiet, hears, learns of a dispatch, or ends an item.
LEMMA Classified ==
  ASSUME DispatchAssumption, InTime, DispatchInv, Next
  PROVE  /\ code = Running /\ sent \subseteq sent'
         /\ Quiet \/ \E a \in Attempt : Hears(a) \/ Gets(a) \/ Finishes(a)
         /\ code' # 0 \/ Conclude
<1>1. Running = -1 BY Constants
<1>2. CASE Bootstrap
  <2>1. att \in Attempt BY TypesOf DEF DispatchInv
  <2> DEFINE q == t[att]
             r == [q EXCEPT !.client = "live"]
  <2>2. q \in AttemptRecord BY <2>1, Known
  <2>3. t' = [t EXCEPT ![att] = r] \/ t' = t BY <1>2 DEF Bootstrap, Put
  <2>4. r.results = q.results /\ r.item = q.item /\ r.at = q.at BY <2>2 DEF AttemptRecord
  <2> HIDE DEF r
  <2>5. \A b \in Attempt : Keeps(b)
    <3>1. CASE t' = [t EXCEPT ![att] = r] BY <2>1, <2>4, <3>1, Keeping
    <3>2. CASE t' = t BY <3>2 DEF Keeps
    <3>3. QED BY <2>3, <3>1, <3>2
  <2>6. code = Running /\ sent' = sent /\ watch' = watch /\ (code' = code \/ code' = 21)
    BY <1>2 DEF Bootstrap, Exit, Messages
  <2>7. QED BY <1>1, <2>5, <2>6 DEF Quiet
<1>3. CASE Conclude
  <2>1. code = Running /\ sent' = sent /\ watch' = watch /\ t' = t BY <1>3 DEF Conclude, Messages
  <2>2. Quiet BY <2>1 DEF Quiet, Keeps
  <2>3. QED BY <1>3, <2>1, <2>2
<1>4. ASSUME NEW a \in Attempt, Events(a)
      PROVE  code = Running /\ sent \subseteq sent' /\ (Quiet \/ Hears(a)) /\ code' = code
  <2>1. ASSUME NEW why, Leave(a, why) PROVE code = Running /\ sent' = sent /\ Quiet /\ code' = code
    BY <2>1, LeaveIsQuiet DEF Leave, Lives, Messages
  <2>2. CASE Ready(a)
    <3>1. /\ code = Running /\ sent' = sent /\ code' = code /\ watch' = watch
          /\ t' = [t EXCEPT ![a] = [t[a] EXCEPT !.at = "settle"]]
      BY <2>2 DEF Ready, Lives, Messages, Put
    <3>2. "settle" # "ack" OBVIOUS
    <3>3. QED BY <3>1, <3>2, MoveIsQuiet
  <2>3. ASSUME NEW m, Transmit(m) PROVE code = Running /\ sent \subseteq sent' /\ Quiet /\ code' = code
    BY <2>3 DEF Transmit, Lives, Quiet, Keeps
  <2>4. ASSUME NEW m, MessageCreate(a, m) \/ MessageAck(a, m)
        PROVE  code = Running /\ sent' = sent /\ Hears(a) /\ code' = code
    BY <2>4 DEF MessageCreate, MessageAck, Lives, Messages, Hears
  <2>5. QED BY <1>4, <2>1, <2>2, <2>3, <2>4
        DEF Events, BootstrapDeadline, InitializeRejects, AuthFailure, QrCode, Disconnected
<1>5. ASSUME NEW a \in Attempt, Destroyed(a)
      PROVE  code = Running /\ sent' = sent /\ Quiet /\ code' \in {code, 21}
  BY <1>5, DestroyedIsQuiet DEF Destroyed, Exit, Messages
<1>6. ASSUME NEW a \in Attempt, Handler(a)
      PROVE  code = Running /\ sent' = sent /\ (Quiet \/ Gets(a) \/ Finishes(a)) /\ code' = code
  <2>1. CASE Settled(a)
    <3>1. t' = [t EXCEPT ![a] = [t[a] EXCEPT !.at = "next"]] /\ UNCHANGED watch BY <2>1 DEF Settled, Put
    <3>2. "next" # "ack" OBVIOUS
    <3>3. QED BY <2>1, <3>1, <3>2, MoveIsQuiet DEF Settled, Messages
  <2>2. CASE Send(a)
    <3>1. t' = [t EXCEPT ![a] = [t[a] EXCEPT !.at = "sending"]] /\ UNCHANGED watch BY <2>2 DEF Send, Put
    <3>2. "sending" # "ack" OBVIOUS
    <3>3. QED BY <2>2, <3>1, <3>2, MoveIsQuiet DEF Send
  <2>3. CASE Prepare(a) \/ Report(a) \/ Drained(a) \/ Finalize(a)
    <3>1. Quiet BY <2>3, EndIsQuiet
    <3>2. QED BY <2>3, <3>1 DEF Prepare, Report, Drained, Finalize, Messages
  <2>4. ASSUME NEW m, Dispatched(a, m) PROVE sent' = sent /\ code' = code BY <2>4 DEF Dispatched
  <2>5. ASSUME NEW ok, Finish(a, ok) PROVE sent' = sent /\ code' = code BY <2>5 DEF Finish, Messages
  <2>6. CASE Returns(a)
    <3>1. code = Running /\ t[a].at = "sending" BY <2>6 DEF Returns, Lives
    <3>2. CASE <<a, t[a].item>> \in sent /\ Dispatched(a, <<a, t[a].item>>) BY <2>4, <3>1, <3>2 DEF Gets
    <3>3. CASE watch[a].seen # NoId /\ Dispatched(a, watch[a].seen)
      BY <2>4, <3>1, <3>3 DEF Gets, DispatchInv, Listened
    <3>4. CASE Put(a, [t[a] EXCEPT !.at = "observe"]) /\ UNCHANGED <<att, watch, Messages, file, code>>
      <4>1. t' = [t EXCEPT ![a] = [t[a] EXCEPT !.at = "observe"]] /\ UNCHANGED watch BY <3>4 DEF Put
      <4>2. "observe" # "ack" OBVIOUS
      <4>3. QED BY <3>1, <3>4, <4>1, <4>2, MoveIsQuiet DEF Messages
    <3>5. QED BY <2>6, <3>2, <3>3, <3>4 DEF Returns
  <2>7. CASE Observed(a)
    <3>1. code = Running /\ t[a].at = "observe" BY <2>7 DEF Observed
    <3>2. CASE watch[a].seen # NoId
      BY <2>4, <2>7, <3>1, <3>2 DEF Observed, Gets, DispatchInv, Listened
    <3>3. CASE watch[a].seen = NoId BY <2>5, <2>7, <3>1, <3>3 DEF Observed, Finishes
    <3>4. QED BY <3>2, <3>3
  <2>8. CASE Rejects(a) BY <2>5, <2>8 DEF Rejects, Finishes
  <2>9. CASE AckWaited(a) BY <2>5, <2>9 DEF AckWaited, Finishes
  <2>10. QED BY <1>6, <2>1, <2>2, <2>3, <2>6, <2>7, <2>8, <2>9 DEF Handler
<1>7. QED BY <1>1, <1>2, <1>3, <1>4, <1>5, <1>6 DEF Next

\* What a listener takes and what a dispatch keeps, of one attempt.
LEMMA Hearing ==
  ASSUME DispatchAssumption, DispatchInv, NEW a \in Attempt, Hears(a)
  PROVE  /\ t' = t /\ \A b \in Attempt \ {a} : watch'[b] = watch[b]
         /\ watch[a].acked = (watch[a].target \in watch[a].acks) =>
              watch'[a].acked = (watch'[a].target \in watch'[a].acks)
         /\ watch'[a].seen # watch[a].seen =>
              watch'[a].seen[1] = a /\ watch'[a].seen \in sent /\ Matches(a, watch'[a].seen)
<1> DEFINE w == watch[a]
<1>1. /\ watch \in [Attempt -> ItemRecord] /\ sent \subseteq started /\ started \subseteq Message
  BY Known
<1>2. w \in ItemRecord BY <1>1
<1>3. CASE \E m : MessageCreate(a, m)
  <2>1. PICK m : MessageCreate(a, m) BY <1>3
  <2> DEFINE u == [w EXCEPT !.seen = m]
  <2>2. m \in sent /\ m[1] = a /\ Matches(a, m) /\ t' = t /\ watch' = [watch EXCEPT ![a] = u]
    BY <2>1 DEF MessageCreate
  <2>3. u.seen = m /\ u.acks = w.acks /\ u.target = w.target
    <3> HIDE DEF w
    <3>1. QED BY <1>2 DEF ItemRecord
  <2>4. u.acked = w.acked
    <3> HIDE DEF w
    <3>1. QED BY <1>2, Zenon DEF ItemRecord
  <2> HIDE DEF u
  <2>5. watch'[a] = u /\ \A b \in Attempt \ {a} : watch'[b] = watch[b] BY <1>1, <2>2
  <2>6. QED BY <2>2, <2>3, <2>4, <2>5
<1>4. CASE \E m : MessageAck(a, m)
  <2>1. PICK m : MessageAck(a, m) BY <1>4
  <2> DEFINE x == w.acked \/ w.target = m
             A == w.acks \cup {m}
             u == [w EXCEPT !.acks = A, !.acked = x]
  <2>2. t' = t /\ watch' = [watch EXCEPT ![a] = u] BY <2>1 DEF MessageAck
  <2>3. w.acked \in BOOLEAN BY <1>2 DEF ItemRecord
  <2>4. w.acked = (w.target \in w.acks) => x = (w.target \in A)
    <3> DEFINE c == w.target
               k == w.acked
    <3>1. A = w.acks \cup {m} /\ x = (k \/ c = m) /\ k \in BOOLEAN BY <2>3
    <3>2. c \in A <=> c \in w.acks \/ c = m BY <3>1
    <3> HIDE DEF A, x, c, k
    <3>3. ASSUME k = (c \in w.acks) PROVE x = (c \in A)
      <4>1. CASE c \in w.acks
        <5>1. k = TRUE BY <3>1, <3>3, <4>1
        <5>2. x = TRUE BY <3>1, <5>1
        <5>3. QED BY <3>2, <4>1, <5>2
      <4>2. CASE c \notin w.acks
        <5>1. k = FALSE BY <3>1, <3>3, <4>2
        <5>2. x = (c = m) BY <3>1, <5>1
        <5>3. QED BY <3>2, <4>2, <5>2
      <4>3. QED BY <4>1, <4>2
    <3>4. QED BY <3>3 DEF c, k
  <2>5. x \in BOOLEAN BY <2>3
  <2> HIDE DEF x, A
  <2>6. u.seen = w.seen /\ u.acks = A /\ u.target = w.target
    <3> HIDE DEF w
    <3>1. QED BY <1>2 DEF ItemRecord
  <2>7. u.acked = x
    <3> HIDE DEF w
    <3>1. QED BY <1>2, Zenon DEF ItemRecord
  <2> HIDE DEF u
  <2>8. watch'[a] = u /\ \A b \in Attempt \ {a} : watch'[b] = watch[b] BY <1>1, <2>2
  <2>9. QED BY <2>2, <2>4, <2>6, <2>7, <2>8
<1>5. QED BY <1>3, <1>4 DEF Hears

LEMMA Getting ==
  ASSUME DispatchAssumption, DispatchInv, NEW a \in Attempt, NEW m, Dispatched(a, m)
  PROVE  /\ \A b \in Attempt \ {a} : t'[b] = t[b] /\ watch'[b] = watch[b]
         /\ t'[a].at = "ack" /\ t'[a].item = t[a].item /\ t'[a].results = t[a].results
         /\ watch'[a].seen = watch[a].seen
         /\ watch'[a].acked = (watch'[a].target \in watch'[a].acks)
<1> DEFINE w == watch[a]
           q == t[a]
           x == m \in w.acks
           u == [w EXCEPT !.target = m, !.acked = x]
           r == [q EXCEPT !.at = "ack"]
<1>1. t' = [t EXCEPT ![a] = r] /\ watch' = [watch EXCEPT ![a] = u] BY DEF Dispatched, Put
<1>2. q \in AttemptRecord /\ t \in [Attempt -> AttemptRecord] /\ watch \in [Attempt -> ItemRecord] BY Known
<1>3. w \in ItemRecord /\ x \in BOOLEAN BY <1>2
<1> HIDE DEF w, q
<1>4. r.at = "ack" /\ r.item = q.item /\ r.results = q.results BY <1>2 DEF AttemptRecord
<1> HIDE DEF x
<1>5. u.seen = w.seen /\ u.acks = w.acks /\ u.target = m BY <1>3 DEF ItemRecord
<1>6. u.acked = x BY <1>3, Zenon DEF ItemRecord
<1>7. t'[a] = r /\ watch'[a] = u /\ \A b \in Attempt \ {a} : t'[b] = t[b] /\ watch'[b] = watch[b]
  <2> HIDE DEF r, u
  <2>1. QED BY <1>1, <1>2
<1> HIDE DEF r, u
<1>8. QED BY <1>4, <1>5, <1>6, <1>7 DEF x, w, q

LEMMA Finishing ==
  ASSUME DispatchAssumption, DispatchInv, NEW a \in Attempt, NEW ok \in BOOLEAN,
         t[a].at \in {"next", "sending", "observe", "ack"}, Finish(a, ok)
  PROVE  /\ \A b \in Attempt \ {a} : t'[b] = t[b] /\ watch'[b] = watch[b]
         /\ t'[a].at # "ack" /\ watch'[a].seen = NoId
         /\ \A i \in DOMAIN t'[a].results : t'[a].results[i] =>
              (i \in DOMAIN t[a].results /\ t[a].results[i]) \/ (i = t[a].item /\ ok)
<1> DEFINE q == t[a]
           r == ItemDone(q, ok)
<1>1. t' = [t EXCEPT ![a] = r] /\ watch' = [watch EXCEPT ![a] = NewItem] BY DEF Finish, Put
<1>2. q \in AttemptRecord /\ Len(q.results) = q.item - 1 BY Known DEF InOrder, Sending
<1>3. /\ r.at # "ack"
      /\ \A i \in DOMAIN r.results :
           r.results[i] => (i \in DOMAIN q.results /\ q.results[i]) \/ (i = q.item /\ ok)
  <2> HIDE DEF q
  <2>1. QED BY <1>2, Over
<1> HIDE DEF r
<1>4. t'[a] = r /\ watch'[a] = NewItem /\ \A b \in Attempt \ {a} : t'[b] = t[b] /\ watch'[b] = watch[b]
  BY <1>1, Known
<1>5. QED BY <1>3, <1>4 DEF NewItem

AckInv == \A a \in Attempt : t[a].at = "ack" => watch[a].acked = (watch[a].target \in watch[a].acks)

LEMMA AckStep ==
  ASSUME DispatchAssumption, InTime, DispatchInv, AckInv, [Next]_vars
  PROVE  AckInv'
<1>1. CASE UNCHANGED vars BY <1>1 DEF vars, AckInv
<1>2. CASE Quiet BY <1>2 DEF Quiet, Keeps, AckInv
<1>3. ASSUME NEW a \in Attempt, Hears(a) PROVE AckInv' BY <1>3, Hearing DEF AckInv
<1>4. ASSUME NEW a \in Attempt, Gets(a) PROVE AckInv' BY <1>4, Getting DEF AckInv, Gets
<1>5. ASSUME NEW a \in Attempt, Finishes(a) PROVE AckInv'
  <2>1. PICK ok \in BOOLEAN : t[a].at \in {"next", "sending", "observe", "ack"} /\ Finish(a, ok)
    BY <1>5 DEF Finishes
  <2>2. QED BY <2>1, Finishing DEF AckInv
<1>6. QED BY <1>1, <1>2, <1>3, <1>4, <1>5, Classified

\* An ACK that came before the id of its message was known counts as one that came after.
THEOREM EarlyAcksCount == DispatchAssumption /\ InTime => (Spec => []EarlyAckCounts)
<1> SUFFICES ASSUME DispatchAssumption, InTime PROVE Spec => []EarlyAckCounts
  OBVIOUS
<1>1. Spec => []DispatchInv BY DispatchIsSound
<1>2. Init => AckInv
  <2>1. ASSUME Init, NEW a \in Attempt PROVE t[a].at = "none" BY <2>1 DEF Init, NewAttempt
  <2>2. QED BY <2>1 DEF AckInv
<1>3. DispatchInv /\ AckInv /\ [Next]_vars => AckInv' BY AckStep
<1>4. DispatchInv /\ AckInv => EarlyAckCounts
  <2>1. ASSUME DispatchInv, AckInv, NEW a \in Attempt, t[a].at = "ack"
        PROVE  watch[a].acked <=> watch[a].target \in watch[a].acks
    BY <2>1 DEF AckInv
  <2>2. QED BY <2>1 DEF EarlyAckCounts
<1>5. QED BY <1>1, <1>2, <1>3, <1>4, PTL DEF Spec

LEMMA TruthStep ==
  ASSUME DispatchAssumption, InTime, TellsApart, DispatchInv, TruthInv, [Next]_vars
  PROVE  TruthInv'
<1>1. CASE UNCHANGED vars BY <1>1 DEF vars, TruthInv, Truthful, True, Left
<1>2. CASE Next
  <2>1. /\ code = Running /\ sent \subseteq sent'
        /\ Quiet \/ \E a \in Attempt : Hears(a) \/ Gets(a) \/ Finishes(a)
        /\ code' # 0 \/ Conclude
    BY <1>2, Classified
  <2>2. \A i : Left(i) => Left(i)' BY <2>1 DEF Left
  <2>3. ASSUME NEW b \in Attempt, Truthful(b), t'[b].results = t[b].results, t'[b].item = t[b].item,
               t'[b].at = "ack" => t[b].at = "ack", watch'[b].seen = watch[b].seen
        PROVE  Truthful(b)'
    BY <2>2, <2>3 DEF Truthful, True
  <2>4. \A b \in Attempt : Truthful(b) BY DEF TruthInv
  <2>5. \A b \in Attempt : Truthful(b)'
    <3>1. CASE Quiet BY <2>3, <2>4, <3>1 DEF Quiet, Keeps
    <3>2. ASSUME NEW a \in Attempt, Hears(a) PROVE \A b \in Attempt : Truthful(b)'
      <4>1. t' = t /\ (\A b \in Attempt \ {a} : watch'[b] = watch[b])
            /\ (watch'[a].seen # watch[a].seen =>
                  watch'[a].seen \in sent /\ Matches(a, watch'[a].seen))
        BY <3>2, Hearing
      <4>2. \A b \in Attempt \ {a} : Truthful(b)' BY <2>3, <2>4, <4>1
      <4>3. watch'[a].seen # watch[a].seen => watch'[a].seen[2] = t[a].item
        <5> DEFINE m == watch'[a].seen
        <5>1. ASSUME m \in sent, Matches(a, m) PROVE m[2] = t[a].item
          <6>1. m \in Message BY <5>1, Known
          <6>2. m[2] \in Item /\ t[a].item \in Item BY <6>1, Known DEF Message, AttemptRecord
          <6>3. ASSUME m[2] # t[a].item PROVE FALSE
            <7>1. Caption[t[a].item] # "" /\ Caption[m[2]] # Caption[t[a].item] BY <6>2, <6>3 DEF TellsApart
            <7>2. QED BY <5>1, <7>1 DEF Matches
          <6>4. QED BY <6>3
        <5>2. QED BY <4>1, <5>1
      <4>4. Truthful(a)'
        <5>1. True(t[a].results) /\ (watch[a].seen # NoId => watch[a].seen[2] = t[a].item)
              /\ (t[a].at = "ack" => Left(t[a].item))
          BY <2>4 DEF Truthful
        <5>2. QED BY <2>2, <4>1, <4>3, <5>1 DEF Truthful, True
      <4>5. QED BY <4>2, <4>4
    <3>3. ASSUME NEW a \in Attempt, Gets(a) PROVE \A b \in Attempt : Truthful(b)'
      <4>1. PICK m \in sent : Dispatched(a, m) /\ (m = <<a, t[a].item>> \/ (watch[a].seen # NoId /\ m = watch[a].seen))
        BY <3>3 DEF Gets
      <4>2. /\ \A b \in Attempt \ {a} : t'[b] = t[b] /\ watch'[b] = watch[b]
            /\ t'[a].item = t[a].item /\ t'[a].results = t[a].results /\ watch'[a].seen = watch[a].seen
        BY <4>1, Getting
      <4>3. \A b \in Attempt \ {a} : Truthful(b)' BY <2>3, <2>4, <4>2
      <4>4. m[2] = t[a].item BY <2>4, <4>1 DEF Truthful
      <4>5. Left(t[a].item) BY <4>1, <4>4 DEF Left
      <4>6. Truthful(a)' BY <2>2, <2>4, <4>2, <4>5 DEF Truthful, True
      <4>7. QED BY <4>3, <4>6
    <3>4. ASSUME NEW a \in Attempt, Finishes(a) PROVE \A b \in Attempt : Truthful(b)'
      <4>1. PICK ok \in BOOLEAN : /\ t[a].at \in {"next", "sending", "observe", "ack"} /\ Finish(a, ok)
                                  /\ ok => t[a].at = "ack"
        BY <3>4 DEF Finishes
      <4>2. /\ \A b \in Attempt \ {a} : t'[b] = t[b] /\ watch'[b] = watch[b]
            /\ t'[a].at # "ack" /\ watch'[a].seen = NoId
            /\ \A i \in DOMAIN t'[a].results : t'[a].results[i] =>
                 (i \in DOMAIN t[a].results /\ t[a].results[i]) \/ (i = t[a].item /\ ok)
        BY <4>1, Finishing
      <4>3. \A b \in Attempt \ {a} : Truthful(b)' BY <2>3, <2>4, <4>2
      <4>4. ok => Left(t[a].item) BY <2>4, <4>1 DEF Truthful
      <4>5. \A i \in DOMAIN t'[a].results : t'[a].results[i] => Left(i) BY <2>4, <4>2, <4>4 DEF Truthful, True
      <4>6. True(t[a].results)' BY <2>2, <4>5 DEF True
      <4>7. Truthful(a)' BY <4>2, <4>6 DEF Truthful
      <4>8. QED BY <4>3, <4>7
    <3>5. QED BY <2>1, <3>1, <3>2, <3>3, <3>4
  <2>6. ASSUME code' = 0, t'[att'].settled # "nolid" PROVE \A i \in Item : Left(i)'
    <3>1. Conclude BY <2>1, <2>6
    <3>2. /\ t' = t /\ t[att].settled # "none"
          /\ \/ t[att].settled = "ok" /\ att' = att
                /\ code' = (IF FALSE \in {t[att].results[i] : i \in DOMAIN t[att].results} THEN 4 ELSE 0)
             \/ t[att].settled = "nolid" /\ att' = att
             \/ code' = code \/ code' = 24
      BY <3>1 DEF Conclude, Exit
    <3>3. code # 0 BY <2>1, Constants
    <3>4. t[att].settled = "ok" /\ FALSE \notin {t[att].results[i] : i \in DOMAIN t[att].results}
      <4> DEFINE F == FALSE \in {t[att].results[i] : i \in DOMAIN t[att].results}
      <4>1. \/ t[att].settled = "ok" /\ code' = (IF F THEN 4 ELSE 0)
            \/ t[att].settled = "nolid" /\ att' = att
            \/ code' = code \/ code' = 24
        BY <3>2
      <4> HIDE DEF F
      <4>2. t[att].settled = "ok" /\ ~F BY <2>6, <3>2, <3>3, <4>1
      <4>3. QED BY <4>2 DEF F
    <3>5. att \in Attempt BY TypesOf DEF DispatchInv
    <3>6. Len(t[att].results) = Len(Caption) /\ t[att].results \in Seq(BOOLEAN)
      BY <3>4, <3>5, Known DEF InOrder, AttemptRecord
    <3>7. DOMAIN t[att].results = Item BY <3>6, LenProperties, Constants
    <3>8. \A i \in Item : t[att].results[i] \in BOOLEAN BY <3>6, <3>7, ElementOfSeq, Constants
    <3>9. \A i \in Item : t[att].results[i] BY <3>4, <3>7, <3>8
    <3>10. \A i \in Item : Left(i) BY <2>4, <3>5, <3>7, <3>9 DEF Truthful, True
    <3>11. QED BY <2>2, <3>10
  <2>7. QED BY <2>5, <2>6 DEF TruthInv
<1>3. QED BY <1>1, <1>2

\* What is reported as delivered left: by the results, the file that run.ps1 reads, and exit code 0.
THEOREM ReportsAreTrue ==
  DispatchAssumption /\ InTime /\ TellsApart => (Spec => []ReportedWasSent)
<1> SUFFICES ASSUME DispatchAssumption, InTime, TellsApart PROVE Spec => []ReportedWasSent
  OBVIOUS
<1>1. Spec => []DispatchInv BY DispatchIsSound
<1>2. Init => TruthInv
  <2>1. ASSUME Init PROVE code # 0 BY <2>1, Constants DEF Init
  <2>2. ASSUME Init, NEW a \in Attempt PROVE Truthful(a)
    <3>1. t[a].results = <<>> /\ t[a].at = "none" /\ watch[a].seen = NoId BY <2>2 DEF Init, NewAttempt, NewItem
    <3>2. QED BY <3>1 DEF Truthful, True
  <2>3. QED BY <2>1, <2>2 DEF TruthInv
<1>3. DispatchInv /\ TruthInv /\ [Next]_vars => TruthInv' BY TruthStep
<1>4. DispatchInv /\ TruthInv => ReportedWasSent
  <2> SUFFICES ASSUME DispatchInv, TruthInv PROVE ReportedWasSent
    OBVIOUS
  <2>1. \A a \in Attempt : True(t[a].results) BY DEF TruthInv, Truthful
  <2>2. att \in Attempt /\ Mode \in {"BATCH", "AUTO"} BY TypesOf, Constants DEF DispatchInv
  <2>3. file = NoFile \/ file.results = t[att].results BY <2>2 DEF DispatchInv, Recorded
  <2>4. True(file.results)
    <3>1. CASE file = NoFile BY <3>1 DEF True, NoFile
    <3>2. CASE file.results = t[att].results BY <2>1, <2>2, <3>2
    <3>3. QED BY <2>3, <3>1, <3>2
  <2>5. QED BY <2>1, <2>4 DEF ReportedWasSent, TruthInv, True, Left
<1>5. QED BY <1>1, <1>2, <1>3, <1>4, PTL DEF Spec
=============================================================================
