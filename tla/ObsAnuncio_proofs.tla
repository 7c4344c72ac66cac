-------------------------- MODULE ObsAnuncio_proofs --------------------------
(***************************************************************************)
(* The announcements for every set of orders, every stock, every window    *)
(* and every bound.  The allocation is not unfolded: whatever it gives,    *)
(* an order that is announced was not on the books of the run, and a       *)
(* promise that is kept is.  Two facts carry the proof.  A mark is never   *)
(* younger than the announcement it stands for, so the window closes on    *)
(* both or on the mark first; and a promise that is kept is on record, in  *)
(* the file or in the message that has just gone.  The first needs that no *)
(* run commits a provisional file of another, the second that no line is   *)
(* refused: without them both properties fail (a kill before a run that    *)
(* finds only orders under assembly; a refused line beside a valid one).   *)
(* A promise is kept by a sender that confirms its message.  One whose     *)
(* sender failed after the delivery, or whose script died before the       *)
(* commit, is lost, and neither property speaks of it.                     *)
(***************************************************************************)
EXTENDS ObsAnuncio, TLAPS

\* An entry of a file, an announcement, and a file of entries.
IsEntry(e) == e = [age |-> e.age, qty |-> e.qty, extra |-> e.extra] /\ e.age \in Age
IsPromise(e) ==
  /\ e = [age |-> e.age, qty |-> e.qty, extra |-> e.extra, promise |-> e.promise]
  /\ e.age \in Age /\ e.promise \in {"over", "kept", "lost"}
IsFile(f) == f = [o \in DOMAIN f |-> f[o]] /\ DOMAIN f \subseteq Ob /\ \A o \in DOMAIN f : IsEntry(f[o])

Types ==
  /\ row \in [Ob -> {"none", "valid"} \cup Rejections] /\ kills \in Nat
  /\ pc \in {"idle", "settle", "send", "sent"}
  /\ told = [o \in Ob |-> told[o]] /\ \A o \in Ob : IsPromise(told[o])
  /\ IsFile(state) /\ IsFile(message.new)
  /\ tmp # Absent => IsFile(tmp)
  /\ pc \in {"send", "sent"} =>
       IsFile(tmp) /\ \A o \in DOMAIN message.new : o \in DOMAIN tmp /\ tmp[o].age = 0

\* What the marks os of a file say was announced, and not before their time.
Announced(f, os) == \A o \in os : f[o].age <= Window => told[o].age <= f[o].age

AnnounceInv ==
  /\ Types /\ Announced(state, DOMAIN state)
  /\ pc = "idle" /\ MaxKills = 0 => tmp = Absent
  /\ pc = "settle" /\ tmp # Absent => Announced(tmp, DOMAIN tmp)
  /\ pc = "send" => Announced(tmp, DOMAIN tmp \ DOMAIN message.new)
  /\ pc = "sent" => Announced(tmp, DOMAIN tmp)

\* An order on the books of a file, with a mark that is not older than its announcement.
OnBooks(f, o) == o \in DOMAIN f /\ f[o].age <= told[o].age

\* The promise of an order is the file's to keep.
Keeps(o) == told[o].promise = "kept"

RepeatInv ==
  /\ \A o \in Ob : Keeps(o) => OnBooks(state, o) \/ (pc = "sent" /\ o \in DOMAIN message.new)
  /\ pc # "idle" => \A o \in Ob : Keeps(o) => OnBooks(tmp, o)
  /\ pc = "send" => \A o \in DOMAIN message.new : ~Keeps(o)

\* No run finds a provisional file that another left and commits it.
NoLeftovers == MaxKills = 0 \/ "assembling" \notin Rejections
-----------------------------------------------------------------------------
(* Ages and files.                                                         *)

\* A cycle keeps marks and announcements in their order, up to the window.
LEMMA OlderAges ==
  ASSUME AnuncioAssumption, NEW e, e.age \in Age, IsEntry(e) \/ IsPromise(e)
  PROVE  /\ Older(e).age = (IF e.age > Window THEN e.age ELSE e.age + 1) /\ Older(e).age \in Age
         /\ IsEntry(e) => IsEntry(Older(e))
         /\ IsPromise(e) => IsPromise(Older(e)) /\ Older(e).promise = e.promise
<1>1. Window \in Nat /\ e.age \in 0..(Window + 1) BY DEF AnuncioAssumption, Age
<1> DEFINE n == IF e.age > Window THEN e.age ELSE e.age + 1
<1>2. n \in Age BY <1>1 DEF Age
<1>3. Older(e) = [e EXCEPT !.age = n] BY DEF Older
<1> HIDE DEF n
<1>4. CASE IsEntry(e)
  <2>1. [e EXCEPT !.age = n] = [age |-> n, qty |-> e.qty, extra |-> e.extra] BY <1>4 DEF IsEntry
  <2>2. IsEntry(Older(e)) /\ Older(e).age = n BY <1>2, <1>3, <2>1 DEF IsEntry
  <2>3. CASE IsPromise(e)
    <3>1. [e EXCEPT !.age = n] = [age |-> n, qty |-> e.qty, extra |-> e.extra, promise |-> e.promise]
      BY <2>3 DEF IsPromise
    <3>2. IsPromise(Older(e)) /\ Older(e).promise = e.promise BY <1>2, <1>3, <2>3, <3>1 DEF IsPromise
    <3>3. QED BY <1>2, <2>2, <3>2 DEF n
  <2>4. QED BY <1>2, <2>2, <2>3 DEF n
<1>5. CASE ~IsEntry(e)
  <2>1. IsPromise(e) BY <1>5
  <2>2. [e EXCEPT !.age = n] = [age |-> n, qty |-> e.qty, extra |-> e.extra, promise |-> e.promise]
    BY <2>1 DEF IsPromise
  <2>3. IsPromise(Older(e)) /\ Older(e).promise = e.promise /\ Older(e).age = n
    BY <1>2, <1>3, <2>1, <2>2 DEF IsPromise
  <2>4. QED BY <1>2, <1>5, <2>3 DEF n
<1>6. QED BY <1>4, <1>5

LEMMA AgedFile ==
  ASSUME AnuncioAssumption, NEW f, IsFile(f)
  PROVE  IsFile(Aged(f)) /\ DOMAIN Aged(f) = DOMAIN f /\ \A o \in DOMAIN f : Aged(f)[o] = Older(f[o])
<1>1. DOMAIN Aged(f) = DOMAIN f /\ \A o \in DOMAIN f : Aged(f)[o] = Older(f[o]) BY DEF Aged
<1>2. Aged(f) = [o \in DOMAIN Aged(f) |-> Aged(f)[o]] BY DEF Aged
<1>3. \A o \in DOMAIN f : IsEntry(Older(f[o])) BY OlderAges DEF IsFile, IsEntry
<1>4. QED BY <1>1, <1>2, <1>3 DEF IsFile

\* A promise that ends, one way or the other.
LEMMA Closed ==
  ASSUME NEW e, IsPromise(e), NEW end \in {"over", "lost"}
  PROVE  LET c == [e EXCEPT !.promise = end] IN IsPromise(c) /\ c.age = e.age /\ c.promise # "kept"
<1> DEFINE c == [e EXCEPT !.promise = end]
<1>1. c = [age |-> e.age, qty |-> e.qty, extra |-> e.extra, promise |-> end] BY DEF IsPromise
<1> HIDE DEF c
<1>2. IsPromise(c) /\ c.age = e.age /\ c.promise # "kept" BY <1>1 DEF IsPromise
<1>3. QED BY <1>2 DEF c

\* What a reading makes of the announcements: those that are over end.
LEMMA Reading ==
  ASSUME Types, Read
  PROVE  /\ told' = [o \in Ob |-> told'[o]]
         /\ \A o \in Ob : /\ IsPromise(told'[o]) /\ told'[o].age = told[o].age
                          /\ Keeps(o)' => Keeps(o) /\ ~Over(o)
<1>1. told' = [o \in Ob |-> IF Over(o) THEN [told[o] EXCEPT !.promise = "over"] ELSE told[o]] BY DEF Read
<1>2. ASSUME NEW o \in Ob
      PROVE  /\ IsPromise(told'[o]) /\ told'[o].age = told[o].age
             /\ Keeps(o)' => Keeps(o) /\ ~Over(o)
  <2> DEFINE c == [told[o] EXCEPT !.promise = "over"]
  <2>1. IsPromise(told[o]) /\ IsPromise(c) /\ c.age = told[o].age /\ c.promise # "kept" BY Closed DEF Types
  <2>2. told'[o] = IF Over(o) THEN c ELSE told[o] BY <1>1
  <2> HIDE DEF c
  <2>3. QED BY <2>1, <2>2 DEF Keeps
<1>3. QED BY <1>1, <1>2

\* What a kill makes of the announcements: those of the message that went are lost.
LEMMA Closing ==
  ASSUME Types, Kill
  PROVE  /\ told' = [o \in Ob |-> told'[o]]
         /\ \A o \in Ob : /\ IsPromise(told'[o]) /\ told'[o].age = told[o].age
                          /\ Keeps(o)' => Keeps(o) /\ ~(pc = "sent" /\ o \in DOMAIN message.new)
<1>1. told = [o \in Ob |-> told[o]] /\ \A o \in Ob : IsPromise(told[o]) BY DEF Types
<1>2. told' = IF pc = "sent"
               THEN [o \in Ob |-> IF o \in DOMAIN message.new THEN [told[o] EXCEPT !.promise = "lost"] ELSE told[o]]
               ELSE told
  BY DEF Kill
<1>3. told' = [o \in Ob |-> told'[o]] BY <1>1, <1>2
<1>4. ASSUME NEW o \in Ob
      PROVE  /\ IsPromise(told'[o]) /\ told'[o].age = told[o].age
             /\ Keeps(o)' => Keeps(o) /\ ~(pc = "sent" /\ o \in DOMAIN message.new)
  <2> DEFINE c == [told[o] EXCEPT !.promise = "lost"]
  <2>1. IsPromise(told[o]) /\ IsPromise(c) /\ c.age = told[o].age /\ c.promise # "kept" BY <1>1, Closed
  <2>2. told'[o] = IF pc = "sent" /\ o \in DOMAIN message.new THEN c ELSE told[o] BY <1>2
  <2> HIDE DEF c
  <2>3. QED BY <2>1, <2>2 DEF Keeps
<1>5. QED BY <1>3, <1>4

\* What an arrival makes of the announcements: those of the message start again.
LEMMA Arriving ==
  ASSUME AnuncioAssumption, Types, NEW kind \in {"kept", "lost"}, Arrives(kind)
  PROVE  /\ told' = [o \in Ob |-> told'[o]]
         /\ \A o \in Ob : /\ IsPromise(told'[o])
                          /\ told'[o].age = IF o \in DOMAIN message.new THEN 0 ELSE told[o].age
                          /\ o \in DOMAIN message.new => told'[o].promise = kind
                          /\ o \notin DOMAIN message.new => told'[o] = told[o]
<1> DEFINE sent(o) == [age |-> 0, promise |-> kind, qty |-> IF Reserves THEN message.new[o].qty ELSE 0,
                       extra |-> message.new[o].extra]
<1>1. told' = [o \in Ob |-> IF o \in DOMAIN message.new THEN sent(o) ELSE told[o]] BY DEF Arrives
<1>2. 0 \in Age BY DEF AnuncioAssumption, Age
<1>3. ASSUME NEW o PROVE IsPromise(sent(o)) /\ sent(o).age = 0 /\ sent(o).promise = kind BY <1>2 DEF IsPromise
<1>4. \A o \in Ob : IsPromise(told[o]) BY DEF Types
<1> HIDE DEF sent
<1>5. QED BY <1>1, <1>3, <1>4

\* What an extraction proposes, whatever was allocated: the valid orders on the books
\* keep their marks, and those that are new come with a mark of age 0.
Proposal(keep, new) ==
  /\ new \subseteq Valid /\ new \cap keep = {}
  /\ keep = {o \in DOMAIN state \cap Valid : Reserves => state[o].age <= Window}
  /\ Reserves \/ new \cap DOMAIN state = {}
  /\ IsFile(tmp') /\ DOMAIN tmp' = keep \cup new
  /\ \A o \in keep : tmp'[o] = state[o]
  /\ \A o \in new : tmp'[o].age = 0
  /\ pc' = IF new = {} THEN "settle" ELSE "send"
  /\ IsFile(message'.new) /\ DOMAIN message'.new = new
  /\ Read /\ UNCHANGED <<row, stock, spare, state, kills, changes>>

LEMMA NewEntries ==
  ASSUME AnuncioAssumption, NEW new, new \subseteq Ob, NEW got, NEW extra,
         NEW f, f = [o \in new |-> [age |-> 0, qty |-> got[o], extra |-> extra[o]]]
  PROVE  IsFile(f) /\ DOMAIN f = new /\ \A o \in new : f[o].age = 0
<1>1. 0 \in Age BY DEF AnuncioAssumption, Age
<1>2. ASSUME NEW o \in new PROVE IsEntry(f[o]) /\ f[o].age = 0 BY <1>1 DEF IsEntry
<1>3. QED BY <1>2 DEF IsFile

LEMMA Proposed ==
  ASSUME AnuncioAssumption, Types, NEW readable, ExtractReservations(readable) \/ ExtractMarks(readable)
  PROVE  \E keep, new : Proposal(keep, new) /\ pc = "idle"
<1> USE DEF Proposal
<1>1. IsFile(state) /\ Valid \subseteq Ob /\ 0 \in Age /\ Window \in Nat
  BY DEF Types, Valid, AnuncioAssumption, Age
<1>2. CASE ExtractReservations(readable)
  <2> DEFINE live == Live(state)
             alloc == TwoPasses(Valid, live, Seen(stock, readable), Seen(spare, readable))
             new == {o \in Valid : alloc.got[o] > 0} \ DOMAIN live
             keep == DOMAIN live \cap Valid
             next == Merge(live, alloc, new)
             got == alloc.got
             extra == alloc.extra
             mark == [o \in new |-> [age |-> 0, qty |-> got[o], extra |-> extra[o]]]
  <2>1. /\ pc = "idle" /\ Reserves /\ Proposes(next, new, alloc, Seen(stock, readable), Seen(spare, readable))
    BY <1>2 DEF ExtractReservations
  <2>2. DOMAIN live = {o \in DOMAIN state : state[o].age <= Window} /\ \A o \in DOMAIN live : live[o] = state[o]
    BY DEF Live
  <2>3. /\ tmp' = next /\ pc' = IF new = {} THEN "settle" ELSE "send"
        /\ message'.new = IF new = {} THEN NoEntries ELSE mark
        /\ Read /\ UNCHANGED <<row, stock, spare, state, kills, changes>>
    BY <2>1 DEF Proposes, Silence, data
  <2>4. next = [o \in keep \cup new |-> IF o \in new THEN [age |-> 0, qty |-> got[o], extra |-> extra[o]] ELSE live[o]]
    BY DEF Merge
  <2>5. new \subseteq Valid /\ new \cap keep = {} OBVIOUS
  <2>6. keep = {o \in DOMAIN state \cap Valid : Reserves => state[o].age <= Window} BY <2>1, <2>2
  <2> HIDE DEF live, alloc, new, keep, got, extra
  <2>7. /\ DOMAIN next = keep \cup new /\ \A o \in keep : next[o] = state[o]
        /\ \A o \in new : next[o] = mark[o]
    <3>1. keep \subseteq DOMAIN live BY DEF keep
    <3>2. QED BY <2>2, <2>4, <2>5, <3>1
  <2>8. new \subseteq Ob /\ keep \subseteq DOMAIN state BY <1>1, <2>5, <2>6
  <2>9. IsFile(mark) /\ DOMAIN mark = new /\ \A o \in new : mark[o].age = 0 BY <2>8, NewEntries
  <2>10. IsFile(NoEntries) /\ DOMAIN NoEntries = {} BY DEF IsFile, NoEntries
  <2>11. next = [o \in DOMAIN next |-> next[o]] BY <2>4
  <2> HIDE DEF next, mark
  <2>12. IsFile(next) BY <1>1, <2>7, <2>8, <2>9, <2>11 DEF IsFile
  <2>13. IsFile(message'.new) /\ DOMAIN message'.new = new BY <2>3, <2>9, <2>10
  <2>14. Proposal(keep, new) BY <2>1, <2>3, <2>5, <2>6, <2>7, <2>9, <2>12, <2>13
  <2>15. QED BY <2>1, <2>14
<1>3. CASE ExtractMarks(readable)
  <2> DEFINE alloc == OnePass(Valid, Seen(stock, readable))
             new == {o \in Valid : alloc.got[o] > 0} \ DOMAIN state
             keep == DOMAIN state \cap Valid
             next == MergeMarks(state, alloc, new)
             got == alloc.got
             extra == alloc.extra
             mark == [o \in new |-> [age |-> 0, qty |-> got[o], extra |-> extra[o]]]
  <2>1. /\ pc = "idle" /\ ~Reserves /\ Proposes(next, new, alloc, Seen(stock, readable), Seen(spare, {}))
    BY <1>3 DEF ExtractMarks
  <2>3. /\ tmp' = next /\ pc' = IF new = {} THEN "settle" ELSE "send"
        /\ message'.new = IF new = {} THEN NoEntries ELSE mark
        /\ Read /\ UNCHANGED <<row, stock, spare, state, kills, changes>>
    BY <2>1 DEF Proposes, Silence, data
  <2>4. next = [o \in keep \cup new |-> IF o \in new THEN Unmarked ELSE state[o]] BY DEF MergeMarks
  <2>5. new \subseteq Valid /\ new \cap keep = {} /\ new \cap DOMAIN state = {} OBVIOUS
  <2>6. keep = {o \in DOMAIN state \cap Valid : Reserves => state[o].age <= Window} BY <2>1
  <2> HIDE DEF alloc, new, keep, got, extra
  <2>7. /\ DOMAIN next = keep \cup new /\ \A o \in keep : next[o] = state[o]
        /\ \A o \in new : next[o] = Unmarked
    BY <2>4, <2>5
  <2>8. new \subseteq Ob /\ keep \subseteq DOMAIN state BY <1>1, <2>5, <2>6
  <2>9. IsFile(mark) /\ DOMAIN mark = new BY <2>8, NewEntries
  <2>10. IsFile(NoEntries) /\ DOMAIN NoEntries = {} BY DEF IsFile, NoEntries
  <2>11. next = [o \in DOMAIN next |-> next[o]] BY <2>4
  <2>12. IsEntry(Unmarked) /\ Unmarked.age = 0 BY <1>1 DEF IsEntry, Unmarked
  <2> HIDE DEF next, mark
  <2>13. IsFile(next) BY <1>1, <2>7, <2>8, <2>11, <2>12 DEF IsFile
  <2>14. IsFile(message'.new) /\ DOMAIN message'.new = new BY <2>3, <2>9, <2>10
  <2>15. QED BY <2>1, <2>3, <2>5, <2>6, <2>7, <2>12, <2>13, <2>14
<1>4. QED BY <1>2, <1>3
-----------------------------------------------------------------------------
(* Steps.                                                                  *)

LEMMA AnnounceStarts ==
  ASSUME AnuncioAssumption, Init
  PROVE  AnnounceInv /\ RepeatInv
<1>1. Window \in Nat /\ Legacy \subseteq Ob /\ 0 \in Age /\ Window + 1 \in Age BY DEF AnuncioAssumption, Age
<1>2. /\ row = [o \in Ob |-> IF o \in Legacy THEN "valid" ELSE "none"] /\ kills = 0 /\ pc = "idle"
      /\ state = [o \in Legacy |-> Unmarked] /\ tmp = Absent /\ message = Silence
      /\ told = [o \in Ob |-> IF o \in Legacy THEN [NeverTold EXCEPT !.age = 0, !.promise = "kept"] ELSE NeverTold]
  BY DEF Init
<1>3. IsEntry(Unmarked) /\ Unmarked.age = 0 BY <1>1 DEF IsEntry, Unmarked
<1>4. DOMAIN state = Legacy /\ (\A o \in Legacy : state[o] = Unmarked) /\ IsFile(state)
  BY <1>1, <1>2, <1>3 DEF IsFile
<1>5. IsFile(message.new)
  <2>1. message.new = NoEntries BY <1>2 DEF Silence
  <2>2. IsFile(NoEntries) BY DEF IsFile, NoEntries
  <2>3. QED BY <2>1, <2>2
<1>6. IsPromise(NeverTold) /\ NeverTold.promise = "over"
  <2> DEFINE far == Window + 1
  <2>1. far \in Age BY <1>1
  <2>2. NeverTold = [age |-> far, qty |-> 0, extra |-> 0, promise |-> "over"] BY DEF NeverTold
  <2> HIDE DEF far
  <2>3. QED BY <2>1, <2>2 DEF IsPromise
<1>7. ASSUME NEW o \in Ob
      PROVE  IsPromise(told[o]) /\ (o \in Legacy => told[o].age = 0) /\ (Keeps(o) => o \in Legacy)
  <2> DEFINE R == [age : Age, qty : {0}, extra : {0}, promise : {"over", "kept", "lost"}]
             e == [NeverTold EXCEPT !.age = 0, !.promise = "kept"]
  <2>1. NeverTold \in R BY <1>1 DEF NeverTold
  <2>2. e \in R /\ e.age = 0 BY <1>1, <2>1
  <2>3. \A x \in R : IsPromise(x) BY DEF IsPromise
  <2>4. told[o] = IF o \in Legacy THEN e ELSE NeverTold BY <1>2
  <2> HIDE DEF e, R
  <2>5. QED BY <1>6, <2>2, <2>3, <2>4 DEF Keeps
<1>8. told = [o \in Ob |-> told[o]] BY <1>2
<1>9. row \in [Ob -> {"none", "valid"} \cup Rejections] BY <1>2
<1>10. Types BY <1>2, <1>4, <1>5, <1>7, <1>8, <1>9 DEF Types
<1>11. ASSUME NEW o \in DOMAIN state PROVE o \in Ob /\ state[o].age = 0 /\ told[o].age = 0
  BY <1>1, <1>3, <1>4, <1>7
<1>12. AnnounceInv
  <2>1. Announced(state, DOMAIN state) BY <1>11 DEF Announced
  <2>2. QED BY <1>2, <1>10, <2>1 DEF AnnounceInv
<1>13. ASSUME NEW o \in Ob, Keeps(o) PROVE OnBooks(state, o)
  <2>1. o \in DOMAIN state BY <1>4, <1>7, <1>13
  <2>2. QED BY <1>11, <2>1 DEF OnBooks
<1>14. RepeatInv BY <1>2, <1>13 DEF RepeatInv
<1>15. QED BY <1>12, <1>14

LEMMA AnnounceStep ==
  ASSUME AnuncioAssumption, NoLeftovers, AnnounceInv, [Next]_vars
  PROVE  AnnounceInv'
<1>1. Types /\ Announced(state, DOMAIN state) BY DEF AnnounceInv
<1>2. /\ row \in [Ob -> {"none", "valid"} \cup Rejections] /\ kills \in Nat
      /\ pc \in {"idle", "settle", "send", "sent"}
      /\ told = [o \in Ob |-> told[o]] /\ (\A o \in Ob : IsPromise(told[o]))
      /\ IsFile(state) /\ IsFile(message.new) /\ (tmp # Absent => IsFile(tmp))
      /\ pc \in {"send", "sent"} =>
           IsFile(tmp) /\ \A o \in DOMAIN message.new : o \in DOMAIN tmp /\ tmp[o].age = 0
  BY <1>1 DEF Types
<1>3. /\ pc = "idle" /\ MaxKills = 0 => tmp = Absent
      /\ pc = "settle" /\ tmp # Absent => Announced(tmp, DOMAIN tmp)
      /\ pc = "send" => Announced(tmp, DOMAIN tmp \ DOMAIN message.new)
      /\ pc = "sent" => Announced(tmp, DOMAIN tmp)
  BY DEF AnnounceInv
<1>4. Window \in Nat /\ MaxKills \in Nat /\ 0 \in Age BY DEF AnuncioAssumption, Age
<1>5. \A o \in Ob : told[o].age \in Int BY <1>2, <1>4 DEF IsPromise, Age
<1>6. \A f : IsFile(f) => \A o \in DOMAIN f : o \in Ob /\ f[o].age \in Nat BY <1>4 DEF IsFile, IsEntry, Age
<1>7. IsFile(Silence.new)
  <2>1. Silence.new = NoEntries BY DEF Silence
  <2>2. IsFile(NoEntries) BY DEF IsFile, NoEntries
  <2>3. QED BY <2>1, <2>2
<1>8. CASE Change
  <2>1. row' \in [Ob -> {"none", "valid"} \cup Rejections] BY <1>2, <1>8 DEF Change
  <2>2. UNCHANGED <<state, tmp, pc, message, told, kills>> BY <1>8 DEF Change, files
  <2>3. Types' BY <1>2, <2>1, <2>2 DEF Types
  <2>4. QED BY <1>1, <1>3, <2>2, <2>3 DEF AnnounceInv, Announced
<1>9. CASE Tick
  <2>1. /\ pc = "idle" /\ state' = Aged(state) /\ tmp' = (IF tmp = Absent THEN Absent ELSE Aged(tmp))
        /\ told' = [o \in Ob |-> Older(told[o])] /\ UNCHANGED <<row, pc, message, kills>>
    BY <1>9 DEF Tick, data
  <2>2. IsFile(state') /\ DOMAIN state' = DOMAIN state /\ \A o \in DOMAIN state : state'[o] = Older(state[o])
    BY <1>2, <2>1, AgedFile
  <2>3. tmp' # Absent => IsFile(tmp') BY <1>2, <2>1, AgedFile
  <2>4. ASSUME NEW o \in Ob
        PROVE  IsPromise(told'[o]) /\ told'[o].age = IF told[o].age > Window THEN told[o].age ELSE told[o].age + 1
    <3>1. IsPromise(told[o]) /\ told[o].age \in Age BY <1>2 DEF IsPromise
    <3>2. QED BY <2>1, <3>1, OlderAges
  <2>5. told' = [o \in Ob |-> told'[o]] BY <2>1
  <2>6. Types' BY <1>2, <2>1, <2>2, <2>3, <2>4, <2>5 DEF Types
  <2>7. ASSUME NEW o \in DOMAIN state', state'[o].age <= Window PROVE told'[o].age <= state'[o].age
    <3>1. o \in DOMAIN state /\ o \in Ob /\ state[o].age \in Nat BY <1>2, <1>6, <2>2
    <3>2. IsEntry(state[o]) /\ state[o].age \in Age BY <1>2, <3>1 DEF IsFile, IsEntry
    <3>3. state'[o].age = IF state[o].age > Window THEN state[o].age ELSE state[o].age + 1
      BY <2>2, <3>1, <3>2, OlderAges
    <3>4. state[o].age <= Window /\ told[o].age <= state[o].age BY <1>1, <1>4, <2>7, <3>1, <3>3 DEF Announced
    <3>5. QED BY <1>4, <1>5, <2>4, <3>1, <3>3, <3>4
  <2>8. QED BY <1>3, <2>1, <2>6, <2>7 DEF AnnounceInv, Announced
<1>10. ASSUME NEW readable \in SUBSET Product, ExtractReservations(readable) \/ ExtractMarks(readable)
       PROVE  AnnounceInv'
  <2>1. PICK keep, new : Proposal(keep, new) /\ pc = "idle" BY <1>1, <1>10, Proposed
  <2>2. /\ keep \subseteq DOMAIN state /\ new \cap keep = {} /\ IsFile(tmp') /\ DOMAIN tmp' = keep \cup new
        /\ (\A o \in keep : tmp'[o] = state[o]) /\ (\A o \in new : tmp'[o].age = 0)
        /\ pc' = (IF new = {} THEN "settle" ELSE "send")
        /\ IsFile(message'.new) /\ DOMAIN message'.new = new
        /\ Read /\ UNCHANGED <<row, state, kills>>
    BY <2>1 DEF Proposal
  <2>3. told' = [o \in Ob |-> told'[o]] /\ \A o \in Ob : IsPromise(told'[o]) /\ told'[o].age = told[o].age
    BY <1>1, <2>2, Reading
  <2>4. Types' BY <1>2, <2>2, <2>3 DEF Types
  <2>5. ASSUME NEW o \in DOMAIN state, state[o].age <= Window PROVE told'[o].age <= state[o].age
    BY <1>1, <1>2, <1>6, <2>3, <2>5 DEF Announced
  <2>6. Announced(state, DOMAIN state)' BY <2>2, <2>5 DEF Announced
  <2>7. Announced(tmp, DOMAIN tmp \ DOMAIN message.new)' BY <2>2, <2>5 DEF Announced
  <2>8. pc' = "settle" => Announced(tmp, DOMAIN tmp)' BY <2>2, <2>7 DEF Announced
  <2>9. pc' \in {"settle", "send"} BY <2>2
  <2>10. QED BY <2>4, <2>6, <2>7, <2>8, <2>9 DEF AnnounceInv
<1>11. CASE ExtractNothing
  <2>1. pc = "idle" /\ tmp' = NoEntries /\ pc' = "settle" /\ Read /\ UNCHANGED <<row, state, message, kills>>
    BY <1>11 DEF ExtractNothing, data
  <2>2. told' = [o \in Ob |-> told'[o]] /\ \A o \in Ob : IsPromise(told'[o]) /\ told'[o].age = told[o].age
    BY <1>1, <2>1, Reading
  <2>3. IsFile(NoEntries) /\ DOMAIN NoEntries = {} BY DEF IsFile, NoEntries
  <2>4. Types' BY <1>2, <2>1, <2>2, <2>3 DEF Types
  <2>5. Announced(state, DOMAIN state)' BY <1>1, <1>2, <1>6, <2>1, <2>2 DEF Announced
  <2>6. Announced(tmp, DOMAIN tmp)' BY <2>1, <2>3 DEF Announced
  <2>7. QED BY <2>1, <2>4, <2>5, <2>6 DEF AnnounceInv
<1>12. CASE ExtractAssembling
  <2>1. pc = "idle" /\ pc' = "settle" /\ Read /\ UNCHANGED <<row, state, tmp, message, kills>>
    BY <1>12 DEF ExtractAssembling, data, files
  <2>2. told' = [o \in Ob |-> told'[o]] /\ \A o \in Ob : IsPromise(told'[o]) /\ told'[o].age = told[o].age
    BY <1>1, <2>1, Reading
  <2>3. "assembling" \in Rejections BY <1>12 DEF ExtractAssembling, Rejected
  <2>4. tmp' = Absent BY <1>3, <2>1, <2>3 DEF NoLeftovers
  <2>5. Types' BY <1>2, <2>1, <2>2 DEF Types
  <2>6. Announced(state, DOMAIN state)' BY <1>1, <1>2, <1>6, <2>1, <2>2 DEF Announced
  <2>7. QED BY <2>1, <2>4, <2>5, <2>6 DEF AnnounceInv
<1>13. CASE ExtractFails
  <2>1. pc = "idle" /\ tmp' = Absent /\ UNCHANGED <<row, state, pc, message, told, kills>>
    BY <1>13 DEF ExtractFails, data
  <2>2. Types' BY <1>2, <2>1 DEF Types
  <2>3. Announced(state, DOMAIN state)' BY <1>1, <2>1 DEF Announced
  <2>4. QED BY <2>1, <2>2, <2>3 DEF AnnounceInv
<1>14. CASE Settle
  <2>1. /\ pc = "settle" /\ state' = (IF tmp = Absent THEN state ELSE tmp) /\ tmp' = Absent /\ pc' = "idle"
        /\ UNCHANGED <<row, message, told, kills>>
    BY <1>14 DEF Settle, data
  <2>2. Types' BY <1>2, <2>1 DEF Types
  <2>3. Announced(state, DOMAIN state)' BY <1>1, <1>3, <2>1 DEF Announced
  <2>4. QED BY <2>1, <2>2, <2>3 DEF AnnounceInv
<1>15. CASE SendOk
  <2>1. pc = "send" /\ pc' = "sent" /\ Arrives("kept") /\ UNCHANGED <<row, state, tmp, message, kills>>
    BY <1>15 DEF SendOk, data, files
  <2>3. told' = [o \in Ob |-> told'[o]]
        /\ \A o \in Ob : IsPromise(told'[o]) /\ told'[o].age = IF o \in DOMAIN message.new THEN 0 ELSE told[o].age
    BY <1>1, <2>1, Arriving
  <2>5. Types' BY <1>2, <2>1, <2>3 DEF Types
  <2>6. Announced(state, DOMAIN state)'
    <3>1. ASSUME NEW o \in DOMAIN state, state[o].age <= Window PROVE told'[o].age <= state[o].age
      <4>1. o \in Ob /\ state[o].age \in Nat BY <1>2, <1>6
      <4>2. CASE o \in DOMAIN message.new BY <2>3, <4>1, <4>2
      <4>3. CASE o \notin DOMAIN message.new BY <1>1, <2>3, <3>1, <4>1, <4>3 DEF Announced
      <4>4. QED BY <4>2, <4>3
    <3>2. QED BY <2>1, <3>1 DEF Announced
  <2>7. Announced(tmp, DOMAIN tmp)'
    <3>1. ASSUME NEW o \in DOMAIN tmp, tmp[o].age <= Window PROVE told'[o].age <= tmp[o].age
      <4>1. o \in Ob /\ tmp[o].age \in Nat BY <1>2, <1>6, <2>1
      <4>2. CASE o \in DOMAIN message.new BY <2>3, <4>1, <4>2
      <4>3. CASE o \notin DOMAIN message.new BY <1>3, <2>1, <2>3, <3>1, <4>1, <4>3 DEF Announced
      <4>4. QED BY <4>2, <4>3
    <3>2. QED BY <2>1, <3>1 DEF Announced
  <2>8. QED BY <2>1, <2>5, <2>6, <2>7 DEF AnnounceInv
<1>16. CASE SendFails
  <2>1. /\ pc' = "idle" /\ tmp' = Absent /\ message' = Silence /\ UNCHANGED <<row, state, kills>>
        /\ told' = told \/ Arrives("lost")
    BY <1>16 DEF SendFails, data
  <2>2. /\ told' = [o \in Ob |-> told'[o]]
        /\ \A o \in Ob : IsPromise(told'[o]) /\ (told'[o].age = told[o].age \/ told'[o].age = 0)
    BY <1>1, <1>2, <2>1, Arriving
  <2>3. Types' BY <1>2, <1>7, <2>1, <2>2 DEF Types
  <2>4. Announced(state, DOMAIN state)'
    <3>1. ASSUME NEW o \in DOMAIN state, state[o].age <= Window PROVE told'[o].age <= state[o].age
      <4>1. o \in Ob /\ state[o].age \in Nat BY <1>2, <1>6
      <4>2. told[o].age <= state[o].age BY <1>1, <3>1 DEF Announced
      <4>3. QED BY <2>2, <4>1, <4>2
    <3>2. QED BY <2>1, <3>1 DEF Announced
  <2>5. QED BY <2>1, <2>3, <2>4 DEF AnnounceInv
<1>17. CASE Commit
  <2>1. /\ pc = "sent" /\ pc' = "idle" /\ state' = tmp /\ tmp' = Absent /\ message' = Silence
        /\ UNCHANGED <<row, told, kills>>
    BY <1>17 DEF Commit, data
  <2>2. Types' BY <1>2, <1>7, <2>1 DEF Types
  <2>3. Announced(state, DOMAIN state)' BY <1>3, <2>1 DEF Announced
  <2>4. QED BY <2>1, <2>2, <2>3 DEF AnnounceInv
<1>18. CASE Kill
  <2>1. /\ pc # "idle" /\ kills < MaxKills /\ kills' = kills + 1 /\ pc' = "idle" /\ message' = Silence
        /\ UNCHANGED <<row, state, tmp>>
    BY <1>18 DEF Kill, data, files
  <2>2. told' = [o \in Ob |-> told'[o]] /\ \A o \in Ob : IsPromise(told'[o]) /\ told'[o].age = told[o].age
    BY <1>1, <1>18, Closing
  <2>3. Types' BY <1>2, <1>7, <2>1, <2>2 DEF Types
  <2>4. Announced(state, DOMAIN state)' BY <1>1, <1>2, <1>6, <2>1, <2>2 DEF Announced
  <2>5. MaxKills # 0 BY <1>2, <1>4, <2>1
  <2>6. QED BY <2>1, <2>3, <2>4, <2>5 DEF AnnounceInv
<1>19. CASE UNCHANGED vars
  <2>1. UNCHANGED <<row, state, tmp, pc, message, told, kills>> BY <1>19 DEF vars, data, files
  <2>2. Types' BY <1>2, <2>1 DEF Types
  <2>3. QED BY <1>1, <1>3, <2>1, <2>2 DEF AnnounceInv, Announced
<1>20. QED
  BY <1>8, <1>9, <1>10, <1>11, <1>12, <1>13, <1>14, <1>15, <1>16, <1>17, <1>18, <1>19 DEF Next, Extract

LEMMA RepeatStep ==
  ASSUME AnuncioAssumption, Rejections = {}, AnnounceInv, RepeatInv, [Next]_vars
  PROVE  RepeatInv'
<1>1. /\ row \in [Ob -> {"none", "valid"}] /\ pc \in {"idle", "settle", "send", "sent"}
      /\ told = [o \in Ob |-> told[o]] /\ (\A o \in Ob : IsPromise(told[o]))
      /\ IsFile(state) /\ IsFile(message.new) /\ (tmp # Absent => IsFile(tmp))
      /\ pc \in {"send", "sent"} =>
           IsFile(tmp) /\ \A o \in DOMAIN message.new : o \in DOMAIN tmp /\ tmp[o].age = 0
  BY DEF AnnounceInv, Types
<1>2. /\ \A o \in Ob : Keeps(o) => OnBooks(state, o) \/ (pc = "sent" /\ o \in DOMAIN message.new)
      /\ pc # "idle" => \A o \in Ob : Keeps(o) => OnBooks(tmp, o)
      /\ pc = "send" => \A o \in DOMAIN message.new : ~Keeps(o)
  BY DEF RepeatInv
<1>3. Window \in Nat /\ 0 \in Age BY DEF AnuncioAssumption, Age
<1>4. \A o \in Ob : told[o].age \in Nat BY <1>1, <1>3 DEF IsPromise, Age
<1>5. \A f : IsFile(f) => \A o \in DOMAIN f : o \in Ob /\ f[o].age \in Nat BY <1>3 DEF IsFile, IsEntry, Age
<1>6. Types BY DEF AnnounceInv
<1>7. ASSUME UNCHANGED <<state, tmp, pc, message, told>> PROVE RepeatInv'
  BY <1>2, <1>7 DEF RepeatInv, OnBooks, Keeps
<1>8. ASSUME NEW f, IsFile(f), NEW o \in Ob, OnBooks(f, o), NEW g, g = Aged(f), told'[o] = Older(told[o])
      PROVE  OnBooks(g, o)'
  <2>1. o \in DOMAIN f /\ f[o].age <= told[o].age /\ f[o].age \in Nat /\ IsEntry(f[o]) /\ f[o].age \in Age
    BY <1>5, <1>8 DEF OnBooks, IsFile, IsEntry
  <2>2. DOMAIN g = DOMAIN f /\ g[o] = Older(f[o]) BY <1>8, <2>1, AgedFile
  <2>3. g[o].age = IF f[o].age > Window THEN f[o].age ELSE f[o].age + 1 BY <2>1, <2>2, OlderAges
  <2>4. IsPromise(told[o]) /\ told[o].age \in Age BY <1>1 DEF IsPromise
  <2>5. told'[o].age = IF told[o].age > Window THEN told[o].age ELSE told[o].age + 1 BY <1>8, <2>4, OlderAges
  <2>6. g[o].age <= told'[o].age
    <3>1. f[o].age \in 0..(Window + 1) /\ told[o].age \in 0..(Window + 1) BY <2>1, <2>4 DEF Age
    <3>2. QED BY <1>3, <2>1, <2>3, <2>5, <3>1
  <2>7. QED BY <2>1, <2>2, <2>6 DEF OnBooks
<1>9. CASE Tick
  <2>1. /\ pc = "idle" /\ pc' = "idle" /\ state' = Aged(state) /\ told' = [o \in Ob |-> Older(told[o])]
    BY <1>9 DEF Tick
  <2>2. ASSUME NEW o \in Ob, Keeps(o)' PROVE OnBooks(state, o)'
    <3>1. IsPromise(told[o]) /\ told[o].age \in Age /\ told'[o] = Older(told[o]) BY <1>1, <2>1 DEF IsPromise
    <3>2. Keeps(o) BY <2>2, <3>1, OlderAges DEF Keeps
    <3>3. OnBooks(state, o) BY <1>2, <2>1, <3>2
    <3>4. QED BY <1>1, <1>8, <2>1, <3>1, <3>3 DEF OnBooks
  <2>3. QED BY <2>1, <2>2 DEF RepeatInv
<1>10. ASSUME NEW readable \in SUBSET Product, ExtractReservations(readable) \/ ExtractMarks(readable)
       PROVE  RepeatInv'
  <2>1. PICK keep, new : Proposal(keep, new) /\ pc = "idle" BY <1>6, <1>10, Proposed
  <2>2. /\ new \subseteq Valid /\ keep = {o \in DOMAIN state \cap Valid : Reserves => state[o].age <= Window}
        /\ Reserves \/ new \cap DOMAIN state = {}
        /\ new \cap keep = {} /\ DOMAIN tmp' = keep \cup new
        /\ (\A o \in keep : tmp'[o] = state[o])
        /\ pc' = (IF new = {} THEN "settle" ELSE "send") /\ DOMAIN message'.new = new
        /\ Read /\ state' = state
    BY <2>1 DEF Proposal
  <2>3. \A o \in Ob : told'[o].age = told[o].age /\ (Keeps(o)' => Keeps(o) /\ ~Over(o))
    BY <1>6, <2>2, Reading
  <2>4. ASSUME NEW o \in Ob, Keeps(o)' PROVE o \in keep /\ state[o].age <= told'[o].age
    <3>1. o \in DOMAIN state /\ state[o].age <= told[o].age BY <1>2, <2>1, <2>3, <2>4 DEF OnBooks
    <3>2. row[o] = "valid" /\ (Reserves => ~(told[o].age > Window)) BY <1>1, <2>3, <2>4 DEF Over
    <3>3. state[o].age \in Nat BY <1>1, <1>5, <3>1
    <3>4. QED BY <1>3, <1>4, <2>2, <2>3, <3>1, <3>2, <3>3 DEF Valid
  <2>5. \A o \in Ob : Keeps(o)' => OnBooks(state, o)' /\ OnBooks(tmp, o)'
    <3>1. ASSUME NEW o \in Ob, Keeps(o)' PROVE OnBooks(state, o)' /\ OnBooks(tmp, o)'
      <4>1. o \in keep /\ state[o].age <= told'[o].age BY <2>4, <3>1
      <4>2. o \in DOMAIN state BY <2>2, <4>1
      <4>3. QED BY <2>2, <4>1, <4>2 DEF OnBooks
    <3>2. QED BY <3>1
  <2>6. \A o \in new : ~Keeps(o)'
    <3>1. new \subseteq Ob BY <2>2 DEF Valid
    <3>2. QED BY <2>2, <2>4, <3>1
  <2>7. pc' \in {"settle", "send"} BY <2>2
  <2>8. QED BY <2>2, <2>5, <2>6, <2>7 DEF RepeatInv
<1>11. CASE ExtractNothing
  <2>1. pc' = "settle" /\ Read /\ Valid = {} BY <1>11 DEF ExtractNothing
  <2>2. ASSUME NEW o \in Ob PROVE ~Keeps(o)'
    <3>1. row[o] = "none" BY <1>1, <2>1 DEF Valid
    <3>2. Over(o) BY <3>1 DEF Over
    <3>3. QED BY <1>6, <2>1, <3>2, Reading
  <2>3. QED BY <2>1, <2>2 DEF RepeatInv
<1>12. ~ExtractAssembling BY DEF ExtractAssembling, Rejected
<1>13. CASE ExtractFails
  <2>1. pc = "idle" /\ pc' = pc /\ state' = state /\ told' = told BY <1>13 DEF ExtractFails
  <2>2. QED BY <1>2, <2>1 DEF RepeatInv, OnBooks, Keeps
<1>14. CASE Settle
  <2>1. pc = "settle" /\ pc' = "idle" /\ state' \in {state, tmp} /\ told' = told BY <1>14 DEF Settle
  <2>2. QED BY <1>2, <2>1 DEF RepeatInv, OnBooks, Keeps
<1>15. CASE SendOk
  <2>1. pc = "send" /\ pc' = "sent" /\ Arrives("kept") /\ UNCHANGED <<state, tmp, message>>
    BY <1>15 DEF SendOk, files
  <2>2. \A o \in Ob : IF o \in DOMAIN message.new THEN told'[o].age = 0 ELSE told'[o] = told[o]
    BY <1>6, <2>1, Arriving
  <2>3. ASSUME NEW o \in Ob, Keeps(o)'
        PROVE  OnBooks(tmp, o)' /\ (OnBooks(state, o)' \/ o \in DOMAIN message'.new)
    <3>1. CASE o \in DOMAIN message.new
      <4>1. o \in DOMAIN tmp /\ tmp[o].age = 0 BY <1>1, <2>1, <3>1
      <4>2. QED BY <2>1, <2>2, <3>1, <4>1 DEF OnBooks
    <3>2. CASE o \notin DOMAIN message.new BY <1>2, <2>1, <2>2, <2>3, <3>2 DEF OnBooks, Keeps
    <3>3. QED BY <3>1, <3>2
  <2>4. QED BY <2>1, <2>3 DEF RepeatInv
<1>16. CASE SendFails
  <2>1. pc = "send" /\ pc' = "idle" /\ state' = state /\ (told' = told \/ Arrives("lost"))
    BY <1>16 DEF SendFails
  <2>2. \A o \in Ob : Keeps(o)' => told'[o] = told[o] BY <1>6, <2>1, Arriving DEF Keeps
  <2>3. QED BY <1>2, <2>1, <2>2 DEF RepeatInv, OnBooks, Keeps
<1>17. CASE Commit
  <2>1. pc = "sent" /\ pc' = "idle" /\ state' = tmp /\ told' = told BY <1>17 DEF Commit
  <2>2. QED BY <1>2, <2>1 DEF RepeatInv, OnBooks, Keeps
<1>18. CASE Kill
  <2>1. pc' = "idle" /\ state' = state BY <1>18 DEF Kill, files
  <2>2. \A o \in Ob : /\ told'[o].age = told[o].age
                      /\ Keeps(o)' => Keeps(o) /\ ~(pc = "sent" /\ o \in DOMAIN message.new)
    BY <1>6, <1>18, Closing
  <2>3. QED BY <1>2, <2>1, <2>2 DEF RepeatInv, OnBooks
<1>19. CASE Change BY <1>7, <1>19 DEF Change, files
<1>20. CASE UNCHANGED vars BY <1>7, <1>20 DEF vars, files
<1>21. QED
  BY <1>9, <1>10, <1>11, <1>12, <1>13, <1>14, <1>15, <1>16, <1>17, <1>18, <1>19, <1>20 DEF Next, Extract
-----------------------------------------------------------------------------
\* run.ps1 and merge_notified_state: whatever fails or is killed, an order with a live mark
\* was announced, and not before the moment the mark bears, unless a run that was killed
\* leaves its provisional file to one that finds only orders under assembly.
THEOREM MarksAreTrue == AnuncioAssumption /\ NoLeftovers => (Spec => []RecordedWasAnnounced)
<1> SUFFICES ASSUME AnuncioAssumption, NoLeftovers PROVE Spec => []RecordedWasAnnounced OBVIOUS
<1>1. AnnounceInv => RecordedWasAnnounced BY DEF AnnounceInv, Announced, RecordedWasAnnounced
<1>2. Init => AnnounceInv BY AnnounceStarts
<1>3. AnnounceInv /\ [Next]_vars => AnnounceInv' BY AnnounceStep
<1>4. QED BY <1>1, <1>2, <1>3, PTL DEF Spec

\* Where no line is refused an order is announced again only after a run found it gone or
\* its window past, or after an announcement that left no mark: its sender ended with an error
\* although the group has the message, or the script died between the message and the commit.
THEOREM AnnouncedOnce == AnuncioAssumption /\ Rejections = {} => (Spec => NoRepeat)
<1> SUFFICES ASSUME AnuncioAssumption, Rejections = {} PROVE Spec => NoRepeat OBVIOUS
<1>1. Init => AnnounceInv /\ RepeatInv BY AnnounceStarts
<1>2. NoLeftovers BY DEF NoLeftovers
<1>3. AnnounceInv /\ RepeatInv /\ [Next]_vars => AnnounceInv' /\ RepeatInv' BY <1>2, AnnounceStep, RepeatStep
<1>4. RepeatInv => (pc = "send" => \A o \in DOMAIN message.new : told[o].promise # "kept")
  BY DEF RepeatInv, Keeps
<1>5. QED BY <1>1, <1>3, <1>4, PTL DEF Spec, NoRepeat
=============================================================================
