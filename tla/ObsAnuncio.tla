----------------------------- MODULE ObsAnuncio -----------------------------
(***************************************************************************)
(* The runs of OBs Restricao Branco (extract_orb.py, run.ps1) and of OBs   *)
(* Fluxo Sem Tingimento (extract_ofst.py, run.ps1): every cycle reads the  *)
(* orders still to be assembled and the stock, announces in a WhatsApp     *)
(* group the orders that can be, and remembers per order what was          *)
(* announced, so that nothing is announced twice.                          *)
(*                                                                         *)
(*   row[o]    what the query returns of order o: nothing (assembled or    *)
(*             not issued), a valid line, a line without classification    *)
(*             (its assembly is under way), or a line that fails coercion  *)
(*   stock, spare   pieces per product, restricted and unrestricted        *)
(*   state     the committed file: order -> age of the mark, pieces held   *)
(*   tmp       the provisional file                                        *)
(*   pc, message    the step of the running script, and what it sends with *)
(*             the stock it saw                                            *)
(*                                                                         *)
(* History: told[o], the last announcement of o: its age, what it          *)
(* promised, and what became of the promise.  It is "over" when a run      *)
(* finds the order gone or the window past; until then it is "kept", or    *)
(* "lost" when the script died between the message and the commit or the   *)
(* sender failed although the group has the message.  kills; changes; ages *)
(* stop growing past the window.                                           *)
(***************************************************************************)
EXTENDS Integers, Sequences, FiniteSets, FiniteSetsExt

CONSTANTS
  Ob,         \* numbers of production orders
  Product,    \* "codigo reduzido" of the raw fabric
  ProductOf,  \* [Ob -> Product]
  Total,      \* [Ob -> pieces needed]
  Lines,      \* [Ob -> lines of the query: one per commercial order joined]
  NoDate,     \* a line without a delivery date
  Reserves,    \* TRUE: ORB-07; FALSE: OFST-06, whose marks hold no pieces and never expire
  Window,      \* JANELA_RESERVA_HORAS, in cycles
  Rejections,  \* the ways a line may be refused: a subset of {"assembling", "broken"}
  Legacy,      \* orders marked in the old format, without quantities
  Absent,      \* no file
  MaxStock,    \* bound: pieces of a product
  MaxKills,    \* bound: scripts ended by force
  MaxChanges   \* bound: changes of the data

AllocationAssumption ==
  /\ Ob \subseteq Nat /\ IsFiniteSet(Ob)
  /\ ProductOf \in [Ob -> Product]
  /\ Total \in [Ob -> Nat \ {0}]
  /\ \A o \in Ob : Lines[o] # {} /\ Lines[o] \subseteq [headquarters : BOOLEAN, date : Nat \cup {NoDate}]

AnuncioAssumption ==
  /\ Reserves \in BOOLEAN /\ Legacy \subseteq Ob
  /\ Rejections \subseteq {"assembling", "broken"}
  /\ Window \in Nat /\ MaxStock \in Nat /\ MaxKills \in Nat /\ MaxChanges \in Nat
-----------------------------------------------------------------------------
(* How ORB-07 and OFST-06 share out the pieces of deposit 95 (their        *)
(* validators.py): the lines of the query are reduced to one per order     *)
(* (OB), the orders put in priority order, and each product's stock handed *)
(* out along it. ORB-07 knows two stocks: the restricted pieces it exists  *)
(* to use up, and the unrestricted ones (spare) that may complete an order.*)

\* chave_prioridade: shops before the headquarters, then by date of delivery,
\* orders without one last, then by number.
Before(l, o, m, p) ==
  \/ ~l.headquarters /\ m.headquarters
  \/ /\ l.headquarters = m.headquarters
     /\ \/ l.date # NoDate /\ m.date = NoDate
        \/ l.date # NoDate /\ m.date # NoDate /\ l.date < m.date
        \/ l.date = m.date /\ o < p

\* The line an order keeps, whatever the order in which the cursor gave them.
Kept(o) == CHOOSE l \in Lines[o] : \A m \in Lines[o] : m = l \/ Before(l, o, m, o)

Queue(os) ==
  CHOOSE q \in [1..Cardinality(os) -> os] :
    \A i, j \in 1..Cardinality(os) : i < j => Before(Kept(q[i]), q[i], Kept(q[j]), q[j])

Held(res, p, field) ==
  MapThenSumSet(LAMBDA o : res[o][field], {o \in DOMAIN res : ProductOf[o] = p})

Floor(n) == IF n < 0 THEN 0 ELSE n

\* One order served whole from what is free.
ServeWhole(s, o) ==
  IF Total[o] <= s.free[ProductOf[o]]
    THEN [s EXCEPT !.free[ProductOf[o]] = @ - Total[o], !.got[o] = Total[o]]
    ELSE s

\* One order given all that is free, if the spare pieces complete it.
ServePart(s, o) ==
  LET p == ProductOf[o]
      missing == Total[o] - s.free[p]
  IN  IF s.got[o] = 0 /\ s.free[p] >= 1 /\ missing <= s.spare[p]
        THEN [s EXCEPT !.free[p] = 0, !.spare[p] = @ - missing,
                       !.got[o] = s.free[p], !.extra[o] = missing]
        ELSE s

\* Mutated form: the reservations of earlier messages do not count.
TwoPassesForgets(os, live, stock, spare) ==
  LET waiting == {o \in os : o \notin DOMAIN live \/ live[o].qty = 0}
      q == Queue(waiting)
      n == Len(q)
      start == [free |-> stock, spare |-> spare,
                got   |-> [o \in Ob |-> IF o \in os \ waiting THEN live[o].qty ELSE 0],
                extra |-> [o \in Ob |-> IF o \in os \ waiting THEN live[o].extra ELSE 0]]
      s[i \in 0..2 * n] ==
        IF i = 0 THEN start
        ELSE IF i <= n THEN ServeWhole(s[i - 1], q[i])
        ELSE ServePart(s[i - 1], q[i - n])
  IN  s[2 * n]

\* alocar_estoque of ORB-07.  Orders with a live reservation keep it; of what
\* the reservations leave, orders served whole take first, then the others
\* take what is left.  A reservation of unknown quantity competes again.
TwoPasses(os, live, stock, spare) ==
  LET waiting == {o \in os : o \notin DOMAIN live \/ live[o].qty = 0}
      q == Queue(waiting)
      n == Len(q)
      start == [free  |-> [p \in Product |-> Floor(stock[p] - Held(live, p, "qty"))],
                spare |-> [p \in Product |-> Floor(spare[p] - Held(live, p, "extra"))],
                got   |-> [o \in Ob |-> IF o \in os \ waiting THEN live[o].qty ELSE 0],
                extra |-> [o \in Ob |-> IF o \in os \ waiting THEN live[o].extra ELSE 0]]
      s[i \in 0..2 * n] ==
        IF i = 0 THEN start
        ELSE IF i <= n THEN ServeWhole(s[i - 1], q[i])
        ELSE ServePart(s[i - 1], q[i - n])
  IN  s[2 * n]

\* alocar_estoque of OFST-06: one pass, no reservations, no completing.
OnePass(os, stock) ==
  LET q == Queue(os)
      s[i \in 0..Len(q)] ==
        IF i = 0
          THEN [free |-> stock, got |-> [o \in Ob |-> 0], extra |-> [o \in Ob |-> 0]]
          ELSE ServeWhole(s[i - 1], q[i])
  IN  s[Len(q)]
-----------------------------------------------------------------------------
VARIABLES row, stock, spare, state, tmp, pc, message, told, kills, changes

data == <<row, stock, spare>>
files == <<state, tmp>>
vars == <<data, files, pc, message, told, kills, changes>>

Age == 0..(Window + 1)
Entry == [age : Age, qty : 0..MaxStock, extra : 0..MaxStock]
IsState(f) == DOMAIN f \subseteq Ob /\ \A o \in DOMAIN f : f[o] \in Entry
Stocks == [Product -> 0..MaxStock]
NoEntries == [o \in {} |-> 0]
Unmarked == [age |-> 0, qty |-> 0, extra |-> 0]
Silence == [new |-> NoEntries, stock |-> [p \in Product |-> 0], spare |-> [p \in Product |-> 0]]
NeverTold == [age |-> Window + 1, qty |-> 0, extra |-> 0, promise |-> "over"]

TypeOK ==
  /\ row \in [Ob -> {"none", "valid"} \cup Rejections]
  /\ stock \in Stocks /\ spare \in Stocks
  /\ IsState(state) /\ (tmp = Absent \/ IsState(tmp))
  /\ pc \in {"idle", "settle", "send", "sent"}
  /\ IsState(message.new) /\ message.stock \in Stocks /\ message.spare \in Stocks
  /\ told \in [Ob -> [age : Age, qty : 0..MaxStock, extra : 0..MaxStock, promise : {"over", "kept", "lost"}]]
  /\ kills \in 0..MaxKills /\ changes \in 0..MaxChanges

Init ==
  /\ row = [o \in Ob |-> IF o \in Legacy THEN "valid" ELSE "none"]
  /\ stock = [p \in Product |-> 0] /\ spare = [p \in Product |-> 0]
  /\ state = [o \in Legacy |-> Unmarked] /\ tmp = Absent
  /\ pc = "idle" /\ message = Silence
  /\ told = [o \in Ob |-> IF o \in Legacy THEN [NeverTold EXCEPT !.age = 0, !.promise = "kept"] ELSE NeverTold]
  /\ kills = 0 /\ changes = 0
-----------------------------------------------------------------------------
\* The deployment's data moves between and during the runs.
Change ==
  /\ changes < MaxChanges /\ changes' = changes + 1
  /\ \/ /\ \E o \in Ob, r \in {"none", "valid"} \cup Rejections : row[o] # r /\ row' = [row EXCEPT ![o] = r]
        /\ UNCHANGED <<stock, spare>>
     \/ /\ \E p \in Product, n \in 0..MaxStock : stock[p] # n /\ stock' = [stock EXCEPT ![p] = n]
        /\ UNCHANGED <<row, spare>>
     \/ /\ Reserves
        /\ \E p \in Product, n \in 0..MaxStock : spare[p] # n /\ spare' = [spare EXCEPT ![p] = n]
        /\ UNCHANGED <<row, stock>>
  /\ UNCHANGED <<files, pc, message, told, kills>>

Older(e) == [e EXCEPT !.age = IF @ > Window THEN @ ELSE @ + 1]
Aged(f) == [o \in DOMAIN f |-> Older(f[o])]

\* Time passes in steps of a cycle, of which a run takes a fraction.
Tick ==
  /\ pc = "idle"
  /\ state' = Aged(state) /\ tmp' = IF tmp = Absent THEN Absent ELSE Aged(tmp)
  /\ told' = [o \in Ob |-> Older(told[o])]
  /\ UNCHANGED <<data, pc, message, kills, changes>>
-----------------------------------------------------------------------------
Valid == {o \in Ob : row[o] = "valid"}
Rejected == {o \in Ob : row[o] \in Rejections}

\* reservas_vivas.
Live(s) ==
  LET os == {o \in DOMAIN s : s[o].age <= Window}
  IN  [o \in os |-> s[o]]

\* What a run knows of a stock: a product whose stock line is refused counts for nothing.
Seen(s, readable) == [p \in Product |-> IF p \in readable THEN s[p] ELSE 0]

\* merge_notified_state of ORB-07: marks of orders without a valid line are dropped.
Merge(live, alloc, new) ==
  [o \in (DOMAIN live \cap Valid) \cup new |->
     IF o \in new THEN [age |-> 0, qty |-> alloc.got[o], extra |-> alloc.extra[o]] ELSE live[o]]

\* merge_notified_state of OFST-06.
MergeMarks(marks, alloc, new) ==
  [o \in (DOMAIN marks \cap Valid) \cup new |-> IF o \in new THEN Unmarked ELSE marks[o]]

\* A run finds the promise of o at its end.
Over(o) == row[o] = "none" \/ (Reserves /\ told[o].age > Window)
Read == told' = [o \in Ob |-> IF Over(o) THEN [told[o] EXCEPT !.promise = "over"] ELSE told[o]]

\* What the extraction leaves to run.ps1: the next state, and the message if there is anything new.
Proposes(next, new, alloc, st, sp) ==
  /\ tmp' = next
  /\ pc' = IF new = {} THEN "settle" ELSE "send"
  /\ message' = IF new = {} THEN Silence
       ELSE [new |-> [o \in new |-> [age |-> 0, qty |-> alloc.got[o], extra |-> alloc.extra[o]]],
             stock |-> st, spare |-> sp]
  /\ Read
  /\ UNCHANGED <<data, state, kills, changes>>

\* extract of ORB-07, with at least one valid line.
ExtractReservations(readable) ==
  /\ pc = "idle" /\ Valid # {} /\ Reserves
  /\ LET st == Seen(stock, readable)
         sp == Seen(spare, readable)
         live == Live(state)
         alloc == TwoPasses(Valid, live, st, sp)
         new == {o \in Valid : alloc.got[o] > 0} \ DOMAIN live
     IN  Proposes(Merge(live, alloc, new), new, alloc, st, sp)

\* extract of OFST-06, with at least one valid line.
ExtractMarks(readable) ==
  /\ pc = "idle" /\ Valid # {} /\ ~Reserves
  /\ LET st == Seen(stock, readable)
         alloc == OnePass(Valid, st)
         new == {o \in Valid : alloc.got[o] > 0} \ DOMAIN state
     IN  Proposes(MergeMarks(state, alloc, new), new, alloc, st, Seen(spare, {}))

\* The query returned nothing: the next state is empty, exit 2.
ExtractNothing ==
  /\ pc = "idle" /\ Valid = {} /\ Rejected = {}
  /\ tmp' = NoEntries /\ pc' = "settle" /\ Read
  /\ UNCHANGED <<data, state, message, kills, changes>>

\* ORB-07 only: every line is an order being assembled.  Exit 2, no file written.
ExtractAssembling ==
  /\ pc = "idle" /\ Valid = {} /\ Rejected # {}
  /\ Reserves /\ \A o \in Rejected : row[o] = "assembling"
  /\ pc' = "settle" /\ Read
  /\ UNCHANGED <<data, files, message, kills, changes>>

\* The extraction fails for good: every line refused, Oracle, the contract of
\* a query, the catalogue of purposes.  The finally block removes what is left.
ExtractFails ==
  /\ pc = "idle"
  /\ tmp' = Absent
  /\ UNCHANGED <<data, state, pc, message, told, kills, changes>>

\* Exit 2 of the extraction: a provisional file is committed without a message.
Settle ==
  /\ pc = "settle"
  /\ state' = IF tmp = Absent THEN state ELSE tmp
  /\ tmp' = Absent /\ pc' = "idle"
  /\ UNCHANGED <<data, message, told, kills, changes>>

\* The group has the message.
Arrives(promise) ==
  told' = [o \in Ob |->
    IF o \in DOMAIN message.new
      THEN [age |-> 0, promise |-> promise, qty |-> IF Reserves THEN message.new[o].qty ELSE 0,
            extra |-> message.new[o].extra]
      ELSE told[o]]

\* The engine hands the message over and confirms it.
SendOk ==
  /\ pc = "send" /\ pc' = "sent"
  /\ Arrives("kept")
  /\ UNCHANGED <<data, files, message, kills, changes>>

\* Mutated form: a failed message leaves the provisional file committed.
SendFailsCommits ==
  /\ pc = "send" /\ pc' = "idle"
  /\ state' = tmp /\ tmp' = Absent /\ message' = Silence
  /\ UNCHANGED told \/ Arrives("lost")
  /\ UNCHANGED <<data, kills, changes>>

\* No message text, an engine that is logged out or broken.  The engine may also
\* have sent the message and end with an error all the same: no confirmation of
\* the dispatch, or the session gone after it (24, 21).
SendFails ==
  /\ pc = "send" /\ pc' = "idle"
  /\ tmp' = Absent /\ message' = Silence
  /\ UNCHANGED told \/ Arrives("lost")
  /\ UNCHANGED <<data, state, kills, changes>>

Commit ==
  /\ pc = "sent" /\ pc' = "idle"
  /\ state' = tmp /\ tmp' = Absent /\ message' = Silence
  /\ UNCHANGED <<data, told, kills, changes>>

\* The process tree ends by force (a stop, a timeout): no finally block runs.
Kill ==
  /\ pc # "idle" /\ kills < MaxKills
  /\ kills' = kills + 1 /\ pc' = "idle" /\ message' = Silence
  /\ told' = IF pc = "sent"
       THEN [o \in Ob |-> IF o \in DOMAIN message.new THEN [told[o] EXCEPT !.promise = "lost"] ELSE told[o]]
       ELSE told
  /\ UNCHANGED <<data, files, changes>>

Extract ==
  \/ \E readable \in SUBSET Product : ExtractReservations(readable) \/ ExtractMarks(readable)
  \/ ExtractNothing \/ ExtractAssembling
Next == \/ Change \/ Tick \/ Extract \/ ExtractFails \/ Settle \/ SendOk \/ SendFails \/ Commit \/ Kill

Spec == Init /\ [][Next]_vars

\* The scheduler starts runs again and again, a started script goes on, and
\* neither Oracle nor the engine fails for ever.
Fairness ==
  /\ WF_vars(Settle) /\ WF_vars(Commit) /\ SF_vars(SendOk)
  /\ SF_vars(ExtractReservations(Product) \/ ExtractMarks(Product))

LiveSpec == Spec /\ Fairness
-----------------------------------------------------------------------------
\* Repeats are what the file exists to prevent: an order is announced again
\* only after a run found it gone or its window passed, or after an announcement
\* of which no mark was kept.
NoRepeat ==
  [][pc = "send" => \A o \in DOMAIN message.new : told[o].promise # "kept"]_vars

\* What the message promises and what earlier messages promised and still hold
\* to other orders never exceeds the stock the run saw, of either kind, product
\* by product; promises of which no mark was kept do not count.
Fits(promised) ==
  pc = "send" =>
    \A p \in {ProductOf[o] : o \in DOMAIN message.new} :
      /\ Held(promised, p, "qty") + Held(message.new, p, "qty") <= message.stock[p]
      /\ Held(message.new, p, "extra") > 0 =>
           Held(promised, p, "extra") + Held(message.new, p, "extra") <= message.spare[p]
Promised(kinds) == [o \in {x \in Ob \ DOMAIN message.new : told[x].promise \in kinds} |-> told[o]]
NotPromisedTwice == Fits(Promised({"kept"}))

\* An order with a mark in the committed file was announced, and not before
\* the moment the mark bears: nothing is kept back that the group never read.
RecordedWasAnnounced ==
  \A o \in DOMAIN state : state[o].age <= Window => told[o].age <= state[o].age

\* An order whose product has stock for all is, again and again, marked as announced.
Plenty(o) ==
  /\ row[o] = "valid"
  /\ stock[ProductOf[o]] >= MapThenSumSet(LAMBDA x : Total[x], {x \in Ob : ProductOf[x] = ProductOf[o]})
AnnouncedEventually == \A o \in Ob : <>[]Plenty(o) => []<>(o \in DOMAIN state)
-----------------------------------------------------------------------------
(* What the repository says and the program does not do.                   *)

\* docs/historico/CHANGELOG.md:418, obs-restricao-branco-runbook.md:66-70: a
\* promise the group has read holds until its order is mounted or its window is
\* past, so that two orders are never announced as ready for the same pieces.
PromiseHolds == Fits(Promised({"kept", "lost"}))
=============================================================================
