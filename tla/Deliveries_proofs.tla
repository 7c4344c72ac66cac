--------------------------- MODULE Deliveries_proofs ---------------------------
(***************************************************************************)
(* The automations that deliver, for every value of the constants: one     *)
(* section per part, each with its inductive invariant, and at the end the *)
(* theorems that carry the parts over to the behaviours of MCDeliveries.   *)
(***************************************************************************)
EXTENDS MCDeliveries, FiniteSetTheorems, TLAPS

-----------------------------------------------------------------------------
(* ReceitasEmitidas: one channel, and every content mailed once.           *)

\* The delivery state says that c was mailed.
Mailed(c) ==
  emittedFile \in Emitted!States /\ emittedFile.hash = c /\ emittedFile.ok["email"]

\* From the provisional state on, a run works on the content it read.
EmittedRun ==
  /\ emittedRun.pc \in {"write", "render", "deliver", "save", "commit"} => emittedRun.content \in Contents
  /\ emittedRun.pc \in {"render", "deliver", "save", "commit"} => emittedTmp = emittedRun.content
  /\ emittedRun.pc \in {"deliver", "save"} => emittedRun.ds.hash = emittedRun.content
  /\ emittedRun.pc = "deliver" => ~Mailed(emittedRun.content)
  /\ emittedRun.pc = "save" => ~emittedCut
  /\ emittedRun.pc \in {"save", "commit"} =>
       emittedRun.content \in mailed /\ (emittedCut \/ emittedGot = emittedRun.content)

\* Unless a kill was between a mail and its record, the last mail is on record.
EmittedFiles ==
  /\ emittedFile \in Emitted!States /\ emittedFile.ok["email"] => emittedFile.hash \in mailed
  /\ ~emittedCut /\ emittedGot # NoHash /\ emittedRun.pc # "save" => Mailed(emittedGot)
  /\ emittedGot = NoHash => mailed = {}
  /\ emittedState # Absent => emittedState \in mailed
  /\ emittedState # Absent /\ ~emittedCut /\ emittedTmp = Absent => emittedGot = emittedState

EmittedInv == Emitted!TypeOK /\ EmittedRun /\ EmittedFiles

\* What a run makes of a delivery state: its own content, delivered if it was before.
LEMMA EmittedLoaded ==
  ASSUME Emitted!EmittedAssumption, NEW f \in Emitted!States \cup {Absent, Torn}, NEW c \in Contents
  PROVE  LET d == Emitted!UpdateHash(Emitted!ReadState(f), c)
         IN  /\ d \in Emitted!States /\ d.hash = c
             /\ d.ok["email"] <=> f \in Emitted!States /\ f.hash = c /\ f.ok["email"]
<1>1. c # NoHash /\ {Absent, Torn} \cap Emitted!States = {} BY DEF Emitted!EmittedAssumption
<1>2. Emitted!NewState \in Emitted!States /\ ~Emitted!NewState.ok["email"] /\ Emitted!NewState.hash = NoHash
  BY DEF Emitted!NewState, Emitted!States
<1>3. CASE f \in {Absent, Torn}
  <2>1. Emitted!ReadState(f) = Emitted!NewState /\ f \notin Emitted!States BY <1>1, <1>3 DEF Emitted!ReadState
  <2>2. Emitted!UpdateHash(Emitted!ReadState(f), c) = [Emitted!NewState EXCEPT !.hash = c]
    BY <1>1, <1>2, <2>1 DEF Emitted!UpdateHash
  <2>3. QED BY <1>2, <2>1, <2>2 DEF Emitted!States
<1>4. CASE f \notin {Absent, Torn}
  <2>1. Emitted!ReadState(f) = f /\ f \in Emitted!States BY <1>4 DEF Emitted!ReadState
  <2>2. CASE f.hash = c BY <1>1, <2>1, <2>2 DEF Emitted!UpdateHash
  <2>3. CASE f.hash # c
    <3>1. Emitted!UpdateHash(f, c) = [Emitted!NewState EXCEPT !.hash = c] BY <1>1, <2>3 DEF Emitted!UpdateHash
    <3>2. QED BY <1>2, <2>1, <2>3, <3>1 DEF Emitted!States
  <2>4. QED BY <2>2, <2>3
<1>5. QED BY <1>3, <1>4

LEMMA EmittedStarts == Emitted!EmittedAssumption /\ Emitted!Init => EmittedInv
<1> SUFFICES ASSUME Emitted!EmittedAssumption, Emitted!Init PROVE EmittedInv OBVIOUS
<1>1. Emitted!Idle.pc = "idle" /\ Emitted!Idle.content = NoHash /\ Emitted!Idle.ds \in Emitted!States
  BY DEF Emitted!Idle, Emitted!NewState, Emitted!States
<1>2. Emitted!TypeOK
  <2>1. Emitted!NewState \in Emitted!States BY DEF Emitted!NewState, Emitted!States
  <2>2. Emitted!Idle \in [pc : {"idle", "extract", "write", "render", "deliver", "save", "commit"},
                          content : Contents \cup {NoHash}, ds : Emitted!States]
    BY <2>1 DEF Emitted!Idle
  <2>3. emittedLeft \in 0..EmittedFaults BY DEF Emitted!Init, Emitted!EmittedAssumption
  <2>4. QED BY <2>2, <2>3 DEF Emitted!Init, Emitted!TypeOK
<1>3. EmittedRun BY <1>1 DEF Emitted!Init, EmittedRun
<1>4. EmittedFiles BY <1>1 DEF Emitted!Init, EmittedFiles, Emitted!EmittedAssumption, Emitted!States
<1>5. QED BY <1>2, <1>3, <1>4 DEF EmittedInv

LEMMA EmittedStep == Emitted!EmittedAssumption /\ EmittedInv /\ [Emitted!Next]_emittedVars => EmittedInv'
<1> SUFFICES ASSUME Emitted!EmittedAssumption, EmittedInv, [Emitted!Next]_emittedVars PROVE EmittedInv'
  OBVIOUS
<1> DEFINE Pc == {"idle", "extract", "write", "render", "deliver", "save", "commit"}
           R == [pc : Pc, content : Contents \cup {NoHash}, ds : Emitted!States]
<1>1. /\ emittedDb \in Contents /\ emittedState \in Contents \cup {Absent}
      /\ emittedTmp \in Contents \cup {Absent, Torn} /\ emittedFile \in Emitted!States \cup {Absent, Torn}
      /\ emittedRun \in R /\ emittedGot \in Contents \cup {NoHash} /\ mailed \subseteq Contents
      /\ emittedCut \in BOOLEAN /\ emittedLeft \in 0..EmittedFaults
  BY DEF EmittedInv, Emitted!TypeOK
<1>2. EmittedRun /\ EmittedFiles BY DEF EmittedInv
<1>3. /\ Absent \notin Contents /\ Torn \notin Contents /\ NoHash \notin Contents /\ Absent # Torn
      /\ {Absent, Torn} \cap Emitted!States = {} /\ EmittedFaults \in Nat
  BY DEF Emitted!EmittedAssumption
<1>4. Emitted!Idle \in R /\ Emitted!Idle.pc = "idle"
  BY DEF Emitted!Idle, Emitted!NewState, Emitted!States
<1>5. ASSUME NEW x \in R, emittedRun' = x, emittedDb' \in Contents, emittedState' \in Contents \cup {Absent},
             emittedTmp' \in Contents \cup {Absent, Torn}, emittedFile' \in Emitted!States \cup {Absent, Torn},
             emittedGot' \in Contents \cup {NoHash}, mailed' \subseteq Contents,
             emittedCut' \in BOOLEAN, emittedLeft' \in 0..EmittedFaults
      PROVE  Emitted!TypeOK'
  BY <1>5 DEF Emitted!TypeOK, Emitted!States
<1>6. ASSUME NEW p \in Pc PROVE [emittedRun EXCEPT !.pc = p] \in R BY <1>1
<1>7. CASE Emitted!Start
  <2>1. emittedRun' = [emittedRun EXCEPT !.pc = "extract"] /\ emittedRun.pc = "idle"
        /\ UNCHANGED <<emittedDb, emittedState, emittedTmp, emittedFile, emittedGot, mailed, emittedCut, emittedLeft>>
    BY <1>7 DEF Emitted!Start, Emitted!Goto, Emitted!files, Emitted!history
  <2>2. emittedRun'.pc = "extract" BY <1>1, <2>1
  <2>3. Emitted!TypeOK' BY <1>1, <1>5, <1>6, <2>1
  <2>4. EmittedRun' /\ EmittedFiles' BY <1>2, <2>1, <2>2 DEF EmittedRun, EmittedFiles, Mailed, Emitted!States
  <2>5. QED BY <2>3, <2>4 DEF EmittedInv
<1>8. CASE Emitted!Extract
  <2>1. /\ emittedRun.pc = "extract"
        /\ emittedRun' = Emitted!Idle \/ emittedRun' = [emittedRun EXCEPT !.pc = "write", !.content = emittedDb]
        /\ UNCHANGED <<emittedDb, emittedState, emittedTmp, emittedFile, emittedGot, mailed, emittedCut, emittedLeft>>
    BY <1>8 DEF Emitted!Extract, Emitted!files, Emitted!history
  <2>2. emittedRun'.pc = "idle" \/ (emittedRun'.pc = "write" /\ emittedRun'.content \in Contents)
    BY <1>1, <1>4, <2>1
  <2>3. emittedRun' \in R BY <1>1, <1>4, <2>1
  <2>4. Emitted!TypeOK' BY <1>1, <1>5, <2>1, <2>3
  <2>5. EmittedRun' /\ EmittedFiles' BY <1>2, <2>1, <2>2 DEF EmittedRun, EmittedFiles, Mailed, Emitted!States
  <2>6. QED BY <2>4, <2>5 DEF EmittedInv
<1>9. CASE Emitted!WriteTmp
  <2>1. /\ emittedRun.pc = "write" /\ emittedTmp' = emittedRun.content
        /\ emittedRun' = [emittedRun EXCEPT !.pc = "render"]
        /\ UNCHANGED <<emittedDb, emittedState, emittedFile, emittedGot, mailed, emittedCut, emittedLeft>>
    BY <1>9 DEF Emitted!WriteTmp, Emitted!Goto, Emitted!history
  <2>2. emittedRun'.pc = "render" /\ emittedRun'.content = emittedRun.content /\ emittedTmp' \in Contents
    BY <1>1, <1>2, <2>1 DEF EmittedRun
  <2>3. Emitted!TypeOK' BY <1>1, <1>5, <1>6, <2>1, <2>2
  <2>4. EmittedRun' BY <1>2, <2>1, <2>2 DEF EmittedRun
  <2>5. EmittedFiles' BY <1>2, <1>3, <2>1, <2>2 DEF EmittedFiles, Mailed, Emitted!States
  <2>6. QED BY <2>3, <2>4, <2>5 DEF EmittedInv
<1>10. CASE Emitted!Render
  <2> DEFINE c == emittedRun.content
             d == Emitted!UpdateHash(Emitted!ReadState(emittedFile), c)
             p == IF d.ok["email"] THEN "commit" ELSE "deliver"
  <2>1. c \in Contents /\ emittedTmp = c /\ emittedRun.pc = "render"
    BY <1>2, <1>10 DEF Emitted!Render, EmittedRun
  <2>2. Emitted!LastHash(emittedTmp, emittedState) = c BY <1>3, <2>1 DEF Emitted!LastHash
  <2>3. d \in Emitted!States /\ d.hash = c /\ (d.ok["email"] <=> Mailed(c))
    BY <1>1, <2>1, EmittedLoaded DEF Mailed
  <2>4. Emitted!Pending(d, "email", c) <=> ~d.ok["email"] BY <2>3 DEF Emitted!Pending
  <2>5. /\ emittedRun' = [emittedRun EXCEPT !.ds = d, !.pc = p]
        /\ UNCHANGED <<emittedDb, emittedState, emittedTmp, emittedFile, emittedGot, mailed, emittedCut, emittedLeft>>
    BY <1>10, <2>2, <2>4 DEF Emitted!Render, Emitted!files, Emitted!history
  <2> HIDE DEF d
  <2>6. emittedRun'.pc = p /\ emittedRun'.content = c /\ emittedRun'.ds = d BY <1>1, <2>5
  <2>7. emittedRun' \in R BY <1>1, <2>3, <2>5
  <2>8. Emitted!TypeOK' BY <1>1, <1>5, <2>5, <2>7
  <2>9. Mailed(c) => c \in mailed /\ (emittedCut \/ emittedGot = c)
    <3>1. Mailed(c) => c \in mailed BY <1>2 DEF EmittedFiles, Mailed
    <3>2. Mailed(c) /\ ~emittedCut => Mailed(emittedGot) BY <1>2, <2>1, <3>1 DEF EmittedFiles
    <3>3. QED BY <3>1, <3>2 DEF Mailed
  <2>10. EmittedRun' BY <2>1, <2>3, <2>5, <2>6, <2>9 DEF EmittedRun, Mailed, Emitted!States
  <2>11. EmittedFiles' BY <1>2, <2>1, <2>5, <2>6 DEF EmittedFiles, Mailed, Emitted!States
  <2>12. QED BY <2>8, <2>10, <2>11 DEF EmittedInv
<1>11. CASE Emitted!Mail
  <2> DEFINE c == emittedRun.content
  <2>1. /\ emittedRun.pc = "deliver" /\ emittedGot' = c /\ mailed' = mailed \cup {c} /\ emittedCut' = FALSE
        /\ emittedRun' = [emittedRun EXCEPT !.pc = "save"]
        /\ UNCHANGED <<emittedDb, emittedState, emittedTmp, emittedFile, emittedLeft>>
    BY <1>11 DEF Emitted!Mail, Emitted!Goto, Emitted!files
  <2>2. c \in Contents /\ emittedTmp = c /\ emittedRun.ds.hash = c BY <1>2, <2>1 DEF EmittedRun
  <2>3. emittedRun'.pc = "save" /\ emittedRun'.content = c /\ emittedRun'.ds = emittedRun.ds BY <1>1, <2>1
  <2>4. Emitted!TypeOK' BY ZenonT(40), <1>1, <1>5, <1>6, <2>1, <2>2
  <2>5. EmittedRun' BY <2>1, <2>2, <2>3 DEF EmittedRun
  <2>6. EmittedFiles' BY <1>2, <1>3, <2>1, <2>2, <2>3 DEF EmittedFiles, Emitted!States
  <2>7. QED BY <2>4, <2>5, <2>6 DEF EmittedInv
<1>12. CASE Emitted!Save
  <2> DEFINE c == emittedRun.content
             f == Emitted!Delivered(emittedRun.ds, "email")
  <2>1. /\ emittedRun.pc = "save" /\ emittedFile' = f /\ emittedRun' = [emittedRun EXCEPT !.pc = "commit"]
        /\ UNCHANGED <<emittedDb, emittedState, emittedTmp, emittedGot, mailed, emittedCut, emittedLeft>>
    BY <1>12 DEF Emitted!Save, Emitted!Goto, Emitted!history
  <2>2. /\ c \in Contents /\ emittedTmp = c /\ emittedRun.ds.hash = c /\ c \in mailed
        /\ ~emittedCut /\ emittedGot = c
    BY <1>2, <2>1 DEF EmittedRun
  <2>3. emittedRun'.pc = "commit" /\ emittedRun'.content = c BY <1>1, <2>1
  <2>4. f \in Emitted!States /\ f.hash = c /\ f.ok["email"]
    BY <1>1, <2>2 DEF Emitted!Delivered, Emitted!States
  <2> HIDE DEF f
  <2>5. Emitted!TypeOK' BY <1>1, <1>5, <1>6, <2>1, <2>4
  <2>6. EmittedRun' BY <2>1, <2>2, <2>3 DEF EmittedRun
  <2>7. EmittedFiles' BY <1>2, <2>1, <2>2, <2>3, <2>4 DEF EmittedFiles, Mailed, Emitted!States
  <2>8. QED BY <2>5, <2>6, <2>7 DEF EmittedInv
<1>13. CASE Emitted!Commit
  <2> DEFINE c == emittedRun.content
  <2>1. /\ emittedRun.pc = "commit" /\ emittedState' = emittedTmp /\ emittedTmp' = Absent /\ emittedRun' = Emitted!Idle
        /\ UNCHANGED <<emittedDb, emittedFile, emittedGot, mailed, emittedCut, emittedLeft>>
    BY <1>13 DEF Emitted!Commit, Emitted!history
  <2>2. c \in Contents /\ emittedTmp = c /\ c \in mailed /\ (emittedCut \/ emittedGot = c)
    BY <1>2, <2>1 DEF EmittedRun
  <2>3. Emitted!TypeOK' BY <1>1, <1>4, <1>5, <2>1, <2>2
  <2>4. EmittedRun' BY <1>4, <2>1 DEF EmittedRun
  <2>5. EmittedFiles' BY <1>2, <1>4, <2>1, <2>2 DEF EmittedFiles, Mailed, Emitted!States
  <2>6. QED BY <2>3, <2>4, <2>5 DEF EmittedInv
<1>14. CASE Emitted!Fails
  <2>1. /\ emittedRun.pc \in {"extract", "render", "deliver"} /\ emittedLeft > 0 /\ emittedLeft' = emittedLeft - 1
        /\ emittedRun' = Emitted!Idle
        /\ UNCHANGED <<emittedDb, emittedState, emittedTmp, emittedFile, emittedGot, mailed, emittedCut>>
    BY <1>14 DEF Emitted!Fails, Emitted!files, Emitted!history
  <2>2. emittedLeft' \in 0..EmittedFaults BY <1>1, <1>3, <2>1
  <2>3. Emitted!TypeOK' BY <1>1, <1>4, <1>5, <2>1, <2>2
  <2>4. EmittedRun' BY <1>4, <2>1 DEF EmittedRun
  <2>5. EmittedFiles' BY <1>2, <1>4, <2>1 DEF EmittedFiles, Mailed, Emitted!States
  <2>6. QED BY <2>3, <2>4, <2>5 DEF EmittedInv
<1>15. CASE Emitted!Killed
  <2>1. /\ emittedLeft > 0 /\ emittedLeft' = emittedLeft - 1 /\ emittedRun' = Emitted!Idle
        /\ emittedCut' = (emittedCut \/ emittedRun.pc = "save")
        /\ emittedTmp' = emittedTmp \/ emittedTmp' = Torn
        /\ emittedFile' = emittedFile \/ (emittedRun.pc = "save" /\ emittedFile' = Torn)
        /\ UNCHANGED <<emittedDb, emittedState, emittedGot, mailed>>
    BY <1>15 DEF Emitted!Killed, Emitted!files
  <2>2. emittedLeft' \in 0..EmittedFaults BY <1>1, <1>3, <2>1
  <2>3. Emitted!TypeOK' BY <1>1, <1>4, <1>5, <2>1, <2>2
  <2>4. EmittedRun' BY <1>4, <2>1 DEF EmittedRun
  <2>5. EmittedFiles' BY <1>1, <1>2, <1>3, <1>4, <2>1 DEF EmittedFiles, Mailed, Emitted!States
  <2>6. QED BY <2>3, <2>4, <2>5 DEF EmittedInv
<1>16. CASE Emitted!DbChanges
  <2>1. /\ emittedLeft > 0 /\ emittedLeft' = emittedLeft - 1 /\ emittedDb' \in Contents
        /\ UNCHANGED <<emittedRun, emittedState, emittedTmp, emittedFile, emittedGot, mailed, emittedCut>>
    BY <1>16 DEF Emitted!DbChanges, Emitted!files, Emitted!history
  <2>2. emittedLeft' \in 0..EmittedFaults BY <1>1, <1>3, <2>1
  <2>3. Emitted!TypeOK' BY <1>1, <1>5, <2>1, <2>2
  <2>4. EmittedRun' /\ EmittedFiles' BY <1>2, <2>1 DEF EmittedRun, EmittedFiles, Mailed, Emitted!States
  <2>5. QED BY <2>3, <2>4 DEF EmittedInv
<1>17. CASE UNCHANGED emittedVars
  <2>1. UNCHANGED <<emittedDb, emittedState, emittedTmp, emittedFile, emittedRun, emittedGot, mailed, emittedCut,
                    emittedLeft>>
    BY <1>17 DEF emittedVars
  <2>2. Emitted!TypeOK' BY <1>1, <1>5, <2>1
  <2>3. EmittedRun' /\ EmittedFiles' BY <1>2, <2>1 DEF EmittedRun, EmittedFiles, Mailed, Emitted!States
  <2>4. QED BY <2>2, <2>3 DEF EmittedInv
<1>18. QED
  BY <1>7, <1>8, <1>9, <1>10, <1>11, <1>12, <1>13, <1>14, <1>15, <1>16, <1>17 DEF Emitted!Next, Emitted!Step

\* A mail is of a content that was not mailed last, unless a kill lost the record.
LEMMA EmittedMails ==
  ASSUME Emitted!EmittedAssumption, EmittedInv, Emitted!Mail
  PROVE  emittedRun.content # emittedGot \/ emittedCut
<1>1. emittedRun.pc = "deliver" BY DEF Emitted!Mail
<1>2. emittedRun.content \in Contents /\ ~Mailed(emittedRun.content) BY <1>1 DEF EmittedInv, EmittedRun
<1>3. emittedRun.content # NoHash BY <1>2 DEF Emitted!EmittedAssumption
<1>4. QED BY <1>1, <1>2, <1>3 DEF EmittedInv, EmittedFiles

-----------------------------------------------------------------------------
(* ReceitasBloqueadas: one process, two channels, the list and its record.   *)

BlockedLater == {"resolve", "email", "save_email", "whatsapp", "save_whatsapp", "commit"}
BlockedWorking == BlockedLater \ {"resolve"}

\* The readers of c saw h last, or they are not there, or the record of what they saw is lost.
Shown(c, h) == blockedGot[c] = h \/ (c = "email" /\ ~recipients) \/ c \in blockedCut

\* A run that goes on works on the provisional list.
BlockedRunning ==
  LET b == blockedRun[1]
  IN  /\ b.pc = "extract" => html = Absent
      /\ b.pc \in BlockedLater => blockedTmp = b.content
      /\ b.pc \in {"resolve", "email", "save_email"} => b.code = 0
      /\ b.pc \in BlockedWorking => b.ds.hash = b.content
      /\ b.pc \in BlockedLater /\ b.content # blockedDb =>
           blockedTold["email"] = 0 /\ blockedTold["whatsapp"] = 0

\* What a repeat on c may be due to.
Reasons(c) == blockedCrashes + (IF c = "whatsapp" THEN unsure ELSE 0)

\* Of each channel: what is recorded, in memory or in the file, was shown; a list that was
\* shown more often than there were reasons to is recorded, or about to be.
BlockedChannel(c) ==
  LET b == blockedRun[1]
  IN  /\ b.pc = Blocked!Saving[c] => blockedGot[c] = b.content /\ ~b.ds.ok[c]
      /\ b.pc \in BlockedWorking /\ b.ds.ok[c] => Shown(c, b.content)
      /\ blockedFile \in Blocked!DeliveryStates /\ blockedFile.ok[c] =>
           Shown(c, blockedFile.hash) \/ b.pc = Blocked!Saving[c]
      /\ blockedTold[c] <= 1 + Reasons(c)
      /\ blockedTold[c] > Reasons(c) =>
           \/ b.pc = Blocked!Saving[c]
           \/ blockedFile \in Blocked!DeliveryStates /\ blockedFile.hash = blockedDb /\ blockedFile.ok[c]
      /\ b.pc \in BlockedWorking /\ blockedTold[c] > Reasons(c) => b.ds.ok[c] \/ b.pc = Blocked!Saving[c]

\* A run without an error has e-mailed its list when it comes to WhatsApp.
BlockedMailed ==
  recipients =>
    /\ blockedRun[1].pc \in {"whatsapp", "save_whatsapp", "commit"} /\ blockedRun[1].code = 0 =>
         blockedGot["email"] = blockedRun[1].content \/ "email" \in blockedCut
    /\ blockedState = blockedGot["email"] \/ blockedTmp # Absent \/ "email" \in blockedCut

BlockedInv ==
  /\ Blocked!TypeOK /\ BlockedRunning /\ BlockedMailed
  /\ BlockedChannel("email") /\ BlockedChannel("whatsapp")

\* What a run makes of a delivery state: its own list, and the channels that had it.
LEMMA BlockedLoaded ==
  ASSUME Blocked!ContentAssumption, NEW f \in Blocked!DeliveryStates \cup {Absent, Torn}, NEW l \in Lists
  PROVE  LET d == Blocked!UpdateHash(Blocked!ReadState(f), l)
         IN  /\ d \in Blocked!DeliveryStates /\ d.hash = l
             /\ d.ok["email"] <=> f \in Blocked!DeliveryStates /\ f.hash = l /\ f.ok["email"]
             /\ d.ok["whatsapp"] <=> f \in Blocked!DeliveryStates /\ f.hash = l /\ f.ok["whatsapp"]
<1>1. l # NoHash /\ {Absent, Torn} \cap Blocked!DeliveryStates = {} BY DEF Blocked!ContentAssumption
<1>2. /\ Blocked!NewState \in Blocked!DeliveryStates /\ Blocked!NewState.hash = NoHash
      /\ \A c \in {"email", "whatsapp"} : ~Blocked!NewState.ok[c]
  BY DEF Blocked!NewState, Blocked!DeliveryStates
<1>3. [Blocked!NewState EXCEPT !.hash = l] \in Blocked!DeliveryStates BY <1>2 DEF Blocked!DeliveryStates
<1>4. CASE f \in {Absent, Torn}
  <2>1. Blocked!ReadState(f) = Blocked!NewState /\ f \notin Blocked!DeliveryStates
    BY <1>1, <1>4 DEF Blocked!ReadState
  <2>2. Blocked!UpdateHash(Blocked!ReadState(f), l) = [Blocked!NewState EXCEPT !.hash = l]
    BY <1>1, <1>2, <2>1 DEF Blocked!UpdateHash
  <2>3. QED BY <1>2, <1>3, <2>1, <2>2 DEF Blocked!DeliveryStates
<1>5. CASE f \notin {Absent, Torn}
  <2>1. Blocked!ReadState(f) = f /\ f \in Blocked!DeliveryStates BY <1>5 DEF Blocked!ReadState
  <2>2. CASE f.hash = l BY <1>1, <2>1, <2>2 DEF Blocked!UpdateHash
  <2>3. CASE f.hash # l
    <3>1. Blocked!UpdateHash(f, l) = [Blocked!NewState EXCEPT !.hash = l] BY <1>1, <2>3 DEF Blocked!UpdateHash
    <3>2. QED BY <1>2, <1>3, <2>1, <2>3, <3>1 DEF Blocked!DeliveryStates
  <2>4. QED BY <2>2, <2>3
<1>6. QED BY <1>4, <1>5

LEMMA BlockedStarts == Blocked!ContentAssumption /\ Blocked!Init => BlockedInv
<1> SUFFICES ASSUME Blocked!ContentAssumption, Blocked!Init PROVE BlockedInv OBVIOUS
<1> DEFINE Pc == {"end", "extract"} \cup BlockedLater
           R == [pc : Pc, content : Lists, ds : Blocked!DeliveryStates, code : {0, 2, 3, 4, 21, 24, 25}]
<1>1. Blocked!NewState \in Blocked!DeliveryStates BY DEF Blocked!NewState, Blocked!DeliveryStates
<1>2. Blocked!Ended(0) \in R /\ Blocked!Ended(0).pc = "end"
  BY <1>1 DEF Blocked!Ended, Blocked!Step, Blocked!ContentAssumption, BlockedLater
<1>3. blockedRun \in [{1} -> R] /\ blockedRun[1].pc = "end" BY <1>2 DEF Blocked!Init
<1>4. /\ blockedGot = [c \in {"email", "whatsapp"} |-> none] /\ blockedTold = [c \in {"email", "whatsapp"} |-> 0]
      /\ blockedCut = {} /\ unsure = 0 /\ blockedCrashes = 0 /\ blockedChanges = 0 /\ blockedDb = none /\ blockedState = none
      /\ blockedTmp = Absent /\ html = Absent /\ blockedFile = Absent /\ recipients \in BOOLEAN
  BY DEF Blocked!Init
<1>5. Blocked!TypeOK BY <1>3, <1>4 DEF Blocked!TypeOK, Blocked!ContentAssumption, BlockedLater
<1>6. BlockedRunning /\ BlockedMailed
  BY <1>3, <1>4 DEF BlockedRunning, BlockedMailed, BlockedLater, BlockedWorking
<1>7. ASSUME NEW c \in {"email", "whatsapp"} PROVE BlockedChannel(c)
  BY <1>3, <1>4 DEF BlockedChannel, Reasons, BlockedLater, BlockedWorking, Blocked!Saving, Blocked!ContentAssumption
<1>8. QED BY <1>5, <1>6, <1>7 DEF BlockedInv

LEMMA BlockedStep == Blocked!ContentAssumption /\ BlockedInv /\ [Blocked!Next]_blockedVars => BlockedInv'
<1> SUFFICES ASSUME Blocked!ContentAssumption, BlockedInv, [Blocked!Next]_blockedVars PROVE BlockedInv'
  OBVIOUS
<1> DEFINE Pc == {"end", "extract", "resolve", "email", "save_email", "whatsapp", "save_whatsapp", "commit"}
           Code == {0, 2, 3, 4, 21, 24, 25}
           R == [pc : Pc, content : Lists, ds : Blocked!DeliveryStates, code : Code]
           Ch == {"email", "whatsapp"}
           b == blockedRun[1]
<1>1. /\ blockedDb \in Lists /\ blockedState \in Lists /\ blockedTmp \in Lists \cup {Absent, Torn}
      /\ html \in Lists \cup {Absent} /\ blockedFile \in Blocked!DeliveryStates \cup {Absent, Torn}
      /\ recipients \in BOOLEAN /\ blockedRun \in [{1} -> R] /\ b \in R
      /\ blockedGot \in [Ch -> Lists] /\ blockedTold \in [Ch -> Nat] /\ blockedCut \subseteq Ch /\ unsure \in 0..BlockedUnsure
      /\ blockedCrashes \in 0..BlockedCrashes /\ blockedChanges \in 0..BlockedChanges
  BY DEF BlockedInv, Blocked!TypeOK
<1>2. BlockedRunning /\ BlockedMailed /\ \A c \in Ch : BlockedChannel(c) BY DEF BlockedInv
<1>3. /\ Absent \notin Lists /\ Torn \notin Lists /\ NoHash \notin Lists /\ Absent # Torn
      /\ {Absent, Torn} \cap Blocked!DeliveryStates = {} /\ BlockedCrashes \in Nat /\ BlockedChanges \in Nat
      /\ BlockedUnsure \in Nat
      /\ none \in Lists
  BY DEF Blocked!ContentAssumption
<1>4. Blocked!NewState \in Blocked!DeliveryStates BY DEF Blocked!NewState, Blocked!DeliveryStates
<1>5. Blocked!Saving["email"] = "save_email" /\ Blocked!Saving["whatsapp"] = "save_whatsapp"
  BY DEF Blocked!Saving
<1>6. ASSUME NEW x \in R, blockedRun' = [blockedRun EXCEPT ![1] = x], blockedDb' \in Lists,
             blockedState' \in Lists, blockedTmp' \in Lists \cup {Absent, Torn}, html' \in Lists \cup {Absent},
             blockedFile' \in Blocked!DeliveryStates \cup {Absent, Torn}, recipients' \in BOOLEAN,
             blockedGot' \in [Ch -> Lists], blockedTold' \in [Ch -> Nat], blockedCut' \subseteq Ch, unsure' \in 0..BlockedUnsure,
             blockedCrashes' \in 0..BlockedCrashes, blockedChanges' \in 0..BlockedChanges
      PROVE  Blocked!TypeOK' /\ blockedRun'[1] = x
  <2>1. blockedRun' \in [{1} -> R] /\ blockedRun'[1] = x BY <1>1, <1>6
  <2>2. QED BY <1>6, <2>1 DEF Blocked!TypeOK
<1>7. ASSUME NEW k \in {0, 2, 3, 4, 21, 24, 25}
      PROVE  Blocked!Ended(k) \in R /\ Blocked!Ended(k).pc = "end"
  BY <1>3, <1>4, <1>7 DEF Blocked!Ended, Blocked!Step
<1>8. ASSUME BlockedRunning', BlockedMailed', Blocked!TypeOK', \A c \in Ch : BlockedChannel(c)'
      PROVE  BlockedInv'
  BY <1>8 DEF BlockedInv

<1>9. CASE Blocked!Start(1)
  <2> DEFINE x == Blocked!Step("extract", none, Blocked!NewState, 0)
  <2>1. /\ b.pc = "end" /\ html' = Absent
        /\ blockedRun' = [blockedRun EXCEPT ![1] = x]
        /\ UNCHANGED <<blockedDb, blockedState, blockedTmp, blockedFile, recipients, blockedGot, blockedTold, blockedCut, unsure, blockedCrashes, blockedChanges>>
    BY <1>9 DEF Blocked!Start, Blocked!files, Blocked!history
  <2>2. x \in R /\ x.pc = "extract"
    BY <1>3, <1>4 DEF Blocked!Step
  <2>3. Blocked!TypeOK' /\ blockedRun'[1] = x
    BY <1>1, <1>3, <1>6, <2>1, <2>2
  <2> HIDE DEF x
  <2>4. BlockedRunning'
    BY <1>1, <1>2, <2>1, <2>2, <2>3 DEF BlockedRunning, BlockedLater, BlockedWorking
  <2>5. BlockedMailed'
    BY <1>1, <1>2, <2>1, <2>2, <2>3 DEF BlockedMailed
  <2>6. ASSUME NEW c \in Ch PROVE BlockedChannel(c)'
    BY <1>3, <1>5, <1>1, <1>2, <2>1, <2>2, <2>3 DEF BlockedChannel, Reasons, Shown, BlockedLater, BlockedWorking
  <2>7. QED BY <1>8, <2>3, <2>4, <2>5, <2>6
<1>10. CASE Blocked!ExtractChanges(1)
  <2> DEFINE x == Blocked!Step("resolve", blockedDb, Blocked!NewState, 0)
  <2>1. /\ b.pc = "extract" /\ blockedTmp' = blockedDb /\ html' = blockedDb
        /\ blockedRun' = [blockedRun EXCEPT ![1] = x]
        /\ UNCHANGED <<blockedDb, blockedState, blockedFile, recipients, blockedGot, blockedTold, blockedCut, unsure, blockedCrashes, blockedChanges>>
    BY <1>10 DEF Blocked!ExtractChanges, Blocked!files, Blocked!history
  <2>2. x \in R /\ x.pc = "resolve" /\ x.content = blockedDb /\ x.code = 0
    BY <1>1, <1>4 DEF Blocked!Step
  <2>3. Blocked!TypeOK' /\ blockedRun'[1] = x
    BY <1>1, <1>3, <1>6, <2>1, <2>2
  <2> HIDE DEF x
  <2>4. blockedTmp' # Absent
    BY <1>1, <1>3, <2>1
  <2>5. BlockedRunning'
    BY <1>1, <1>2, <2>1, <2>2, <2>3, <2>4 DEF BlockedRunning, BlockedLater, BlockedWorking
  <2>6. BlockedMailed'
    BY <1>1, <1>2, <2>1, <2>2, <2>3, <2>4 DEF BlockedMailed
  <2>7. ASSUME NEW c \in Ch PROVE BlockedChannel(c)'
    BY <1>3, <1>5, <1>1, <1>2, <2>1, <2>2, <2>3, <2>4 DEF BlockedChannel, Reasons, Shown, BlockedLater, BlockedWorking
  <2>8. QED BY <1>8, <2>3, <2>5, <2>6, <2>7
<1>11. CASE Blocked!ExtractNothing(1)
  <2> DEFINE x == Blocked!Ended(2)
  <2>1. /\ b.pc = "extract"
        /\ blockedRun' = [blockedRun EXCEPT ![1] = x]
        /\ UNCHANGED <<blockedDb, blockedState, blockedTmp, html, blockedFile, recipients, blockedGot, blockedTold, blockedCut, unsure, blockedCrashes, blockedChanges>>
    BY <1>11 DEF Blocked!ExtractNothing, Blocked!files, Blocked!history
  <2>2. x \in R /\ x.pc = "end"
    BY <1>7
  <2>3. Blocked!TypeOK' /\ blockedRun'[1] = x
    BY <1>1, <1>3, <1>6, <2>1, <2>2
  <2> HIDE DEF x
  <2>4. BlockedRunning'
    BY <1>1, <1>2, <2>1, <2>2, <2>3 DEF BlockedRunning, BlockedLater, BlockedWorking
  <2>5. BlockedMailed'
    BY <1>1, <1>2, <2>1, <2>2, <2>3 DEF BlockedMailed
  <2>6. ASSUME NEW c \in Ch PROVE BlockedChannel(c)'
    BY <1>3, <1>5, <1>1, <1>2, <2>1, <2>2, <2>3 DEF BlockedChannel, Reasons, Shown, BlockedLater, BlockedWorking
  <2>7. QED BY <1>8, <2>3, <2>4, <2>5, <2>6
<1>12. CASE Blocked!NoPython(1)
  <2> DEFINE x == Blocked!Ended(2)
  <2>1. /\ b.pc = "extract"
        /\ blockedRun' = [blockedRun EXCEPT ![1] = x]
        /\ UNCHANGED <<blockedDb, blockedState, blockedTmp, html, blockedFile, recipients, blockedGot, blockedTold, blockedCut, unsure, blockedCrashes, blockedChanges>>
    BY <1>12 DEF Blocked!NoPython, Blocked!files, Blocked!history
  <2>2. x \in R /\ x.pc = "end"
    BY <1>7
  <2>3. Blocked!TypeOK' /\ blockedRun'[1] = x
    BY <1>1, <1>3, <1>6, <2>1, <2>2
  <2> HIDE DEF x
  <2>4. BlockedRunning'
    BY <1>1, <1>2, <2>1, <2>2, <2>3 DEF BlockedRunning, BlockedLater, BlockedWorking
  <2>5. BlockedMailed'
    BY <1>1, <1>2, <2>1, <2>2, <2>3 DEF BlockedMailed
  <2>6. ASSUME NEW c \in Ch PROVE BlockedChannel(c)'
    BY <1>3, <1>5, <1>1, <1>2, <2>1, <2>2, <2>3 DEF BlockedChannel, Reasons, Shown, BlockedLater, BlockedWorking
  <2>7. QED BY <1>8, <2>3, <2>4, <2>5, <2>6
<1>13. CASE Blocked!ExtractPending(1)
  <2> DEFINE x == IF html = Absent THEN Blocked!Ended(0) ELSE Blocked!Step("resolve", html, Blocked!NewState, 0)
  <2>1. /\ b.pc = "extract"
        /\ blockedRun' = [blockedRun EXCEPT ![1] = x]
        /\ UNCHANGED <<blockedDb, blockedState, blockedTmp, html, blockedFile, recipients, blockedGot, blockedTold, blockedCut, unsure, blockedCrashes, blockedChanges>>
    BY <1>13 DEF Blocked!ExtractPending, Blocked!files, Blocked!history
  <2>2. html = Absent
    BY <1>2, <2>1 DEF BlockedRunning
  <2>3. x \in R /\ x.pc = "end"
    BY <1>7, <2>2
  <2>4. Blocked!TypeOK' /\ blockedRun'[1] = x
    BY ZenonT(40), <1>1, <1>3, <1>6, <2>1, <2>3
  <2> HIDE DEF x
  <2>5. BlockedRunning'
    BY <1>1, <1>2, <2>1, <2>3, <2>4, <2>2 DEF BlockedRunning, BlockedLater, BlockedWorking
  <2>6. BlockedMailed'
    BY <1>1, <1>2, <2>1, <2>3, <2>4, <2>2 DEF BlockedMailed
  <2>7. ASSUME NEW c \in Ch PROVE BlockedChannel(c)'
    BY <1>3, <1>5, <1>1, <1>2, <2>1, <2>3, <2>4, <2>2 DEF BlockedChannel, Reasons, Shown, BlockedLater, BlockedWorking
  <2>8. QED BY <1>8, <2>4, <2>5, <2>6, <2>7
<1>14. CASE Blocked!ExtractFails(1)
  <2> DEFINE x == Blocked!Ended(3)
  <2>1. /\ b.pc = "extract" /\ blockedTmp' \in {blockedTmp, blockedDb}
        /\ blockedRun' = [blockedRun EXCEPT ![1] = x]
        /\ UNCHANGED <<blockedDb, blockedState, html, blockedFile, recipients, blockedGot, blockedTold, blockedCut, unsure, blockedCrashes, blockedChanges>>
    BY <1>14 DEF Blocked!ExtractFails, Blocked!files, Blocked!history
  <2>2. x \in R /\ x.pc = "end"
    BY <1>7
  <2>3. Blocked!TypeOK' /\ blockedRun'[1] = x
    BY ZenonT(40), <1>1, <1>3, <1>6, <2>1, <2>2
  <2> HIDE DEF x
  <2>4. blockedTmp' = Absent => blockedTmp = Absent
    BY <1>1, <1>3, <2>1
  <2>5. BlockedRunning'
    BY <1>1, <1>2, <2>1, <2>2, <2>3, <2>4 DEF BlockedRunning, BlockedLater, BlockedWorking
  <2>6. BlockedMailed'
    BY <1>1, <1>2, <2>1, <2>2, <2>3, <2>4 DEF BlockedMailed
  <2>7. ASSUME NEW c \in Ch PROVE BlockedChannel(c)'
    BY <1>3, <1>5, <1>1, <1>2, <2>1, <2>2, <2>3, <2>4 DEF BlockedChannel, Reasons, Shown, BlockedLater, BlockedWorking
  <2>8. QED BY <1>8, <2>3, <2>5, <2>6, <2>7
<1>15. CASE Blocked!Resolve(1)
  <2> DEFINE x == [b EXCEPT !.pc = "email", !.ds = Blocked!UpdateHash(Blocked!ReadState(blockedFile), Blocked!LastHash(blockedTmp, blockedState))]
  <2>1. /\ b.pc = "resolve"
        /\ blockedRun' = [blockedRun EXCEPT ![1] = x]
        /\ UNCHANGED <<blockedDb, blockedState, blockedTmp, html, blockedFile, recipients, blockedGot, blockedTold, blockedCut, unsure, blockedCrashes, blockedChanges>>
    BY <1>15 DEF Blocked!Resolve, Blocked!files, Blocked!history
  <2>2. blockedTmp = b.content /\ b.code = 0 /\ b.content \in Lists
    BY <1>1, <1>2, <2>1 DEF BlockedRunning, BlockedLater
  <2>3. Blocked!LastHash(blockedTmp, blockedState) = b.content
    BY <1>3, <2>2 DEF Blocked!LastHash
  <2>4. LET d == Blocked!UpdateHash(Blocked!ReadState(blockedFile), b.content)
        IN  /\ d \in Blocked!DeliveryStates /\ d.hash = b.content
            /\ d.ok["email"] <=>
                 blockedFile \in Blocked!DeliveryStates /\ blockedFile.hash = b.content /\ blockedFile.ok["email"]
            /\ d.ok["whatsapp"] <=>
                 blockedFile \in Blocked!DeliveryStates /\ blockedFile.hash = b.content /\ blockedFile.ok["whatsapp"]
      <3>1. blockedFile \in Blocked!DeliveryStates \cup {Absent, Torn} BY <1>1
    <3>2. QED BY <2>2, <3>1, BlockedLoaded
  <2>5. b.content # blockedDb => blockedTold["email"] = 0 /\ blockedTold["whatsapp"] = 0
    BY <1>2, <2>1 DEF BlockedRunning, BlockedWorking, BlockedLater
  <2>6. x \in R /\ x.pc = "email" /\ x.content = b.content /\ x.code = 0 /\ x.ds.hash = b.content
        /\ (x.ds.ok["email"] <=>
              blockedFile \in Blocked!DeliveryStates /\ blockedFile.hash = b.content /\ blockedFile.ok["email"])
        /\ (x.ds.ok["whatsapp"] <=>
              blockedFile \in Blocked!DeliveryStates /\ blockedFile.hash = b.content /\ blockedFile.ok["whatsapp"])
    BY <1>1, <2>2, <2>3, <2>4
  <2>7. Blocked!TypeOK' /\ blockedRun'[1] = x
    BY ZenonT(40), <1>1, <1>3, <1>6, <2>1, <2>6
  <2> HIDE DEF x
  <2>8. BlockedRunning'
    BY <1>1, <1>2, <2>1, <2>6, <2>7, <2>2, <2>3, <2>4, <2>5 DEF BlockedRunning, BlockedLater, BlockedWorking
  <2>9. BlockedMailed'
    BY <1>1, <1>2, <2>1, <2>6, <2>7, <2>2, <2>3, <2>4, <2>5 DEF BlockedMailed
  <2>10. ASSUME NEW c \in Ch PROVE BlockedChannel(c)'
    <3>1. BlockedChannel("email")'
      <4>1. BlockedChannel("email") BY <1>2
      <4>2. QED BY <4>1, <1>5, <1>1, <2>1, <2>6, <2>7, <2>2, <2>3, <2>4, <2>5 DEF BlockedChannel, Reasons, Shown, BlockedLater, BlockedWorking
    <3>2. BlockedChannel("whatsapp")'
      <4>1. BlockedChannel("whatsapp") BY <1>2
      <4>2. QED BY <4>1, <1>5, <1>1, <2>1, <2>6, <2>7, <2>2, <2>3, <2>4, <2>5 DEF BlockedChannel, Reasons, Shown, BlockedLater, BlockedWorking
    <3>3. QED BY <3>1, <3>2
  <2>11. QED BY <1>8, <2>7, <2>8, <2>9, <2>10
<1>16. CASE Blocked!SkipEmail(1)
  <2> DEFINE x == [b EXCEPT !.pc = "whatsapp"]
  <2>1. /\ b.pc = "email" /\ b.ds.ok["email"]
        /\ blockedRun' = [blockedRun EXCEPT ![1] = x]
        /\ UNCHANGED <<blockedDb, blockedState, blockedTmp, html, blockedFile, recipients, blockedGot, blockedTold, blockedCut, unsure, blockedCrashes, blockedChanges>>
    BY <1>16 DEF Blocked!SkipEmail, Blocked!Skips, Blocked!Pending, Blocked!files, Blocked!history
  <2>2. x \in R /\ x.pc = "whatsapp" /\ x.content = b.content /\ x.ds = b.ds /\ x.code = b.code
    BY <1>1, <2>1
  <2>3. Blocked!TypeOK' /\ blockedRun'[1] = x
    BY <1>1, <1>3, <1>6, <2>1, <2>2
  <2> HIDE DEF x
  <2>4. recipients => blockedGot["email"] = b.content \/ "email" \in blockedCut
    BY <1>2, <2>1 DEF BlockedChannel, Reasons, Shown, BlockedWorking, BlockedLater
  <2>5. BlockedRunning'
    BY <1>1, <1>2, <2>1, <2>2, <2>3, <2>4 DEF BlockedRunning, BlockedLater, BlockedWorking
  <2>6. BlockedMailed'
    BY <1>1, <1>2, <2>1, <2>2, <2>3, <2>4 DEF BlockedMailed
  <2>7. ASSUME NEW c \in Ch PROVE BlockedChannel(c)'
    BY <1>3, <1>5, <1>1, <1>2, <2>1, <2>2, <2>3, <2>4 DEF BlockedChannel, Reasons, Shown, BlockedLater, BlockedWorking
  <2>8. QED BY <1>8, <2>3, <2>5, <2>6, <2>7
<1>17. CASE Blocked!NoRecipient(1)
  <2> DEFINE x == [b EXCEPT !.pc = "whatsapp", !.ds = [b.ds EXCEPT !.ok["email"] = TRUE]]
  <2>1. /\ b.pc = "email" /\ ~recipients
        /\ blockedRun' = [blockedRun EXCEPT ![1] = x]
        /\ UNCHANGED <<blockedDb, blockedState, blockedTmp, html, blockedFile, recipients, blockedGot, blockedTold, blockedCut, unsure, blockedCrashes, blockedChanges>>
    BY <1>17 DEF Blocked!NoRecipient, Blocked!Delivered, Blocked!files, Blocked!history
  <2>2. b.ds \in Blocked!DeliveryStates /\ [b.ds EXCEPT !.ok["email"] = TRUE] \in Blocked!DeliveryStates
    BY <1>1 DEF Blocked!DeliveryStates
  <2>3. x \in R /\ x.pc = "whatsapp" /\ x.content = b.content /\ x.ds.hash = b.ds.hash /\ x.code = b.code
        /\ x.ds.ok["email"] /\ x.ds.ok["whatsapp"] = b.ds.ok["whatsapp"]
    BY <1>1, <2>1, <2>2 DEF Blocked!DeliveryStates
  <2>4. Blocked!TypeOK' /\ blockedRun'[1] = x
    BY <1>1, <1>3, <1>6, <2>1, <2>3
  <2> HIDE DEF x
  <2>5. BlockedRunning'
    BY <1>1, <1>2, <2>1, <2>3, <2>4, <2>2 DEF BlockedRunning, BlockedLater, BlockedWorking
  <2>6. BlockedMailed'
    BY <1>1, <1>2, <2>1, <2>3, <2>4, <2>2 DEF BlockedMailed
  <2>7. ASSUME NEW c \in Ch PROVE BlockedChannel(c)'
    <3>1. BlockedChannel("email")'
      <4>1. BlockedChannel("email") BY <1>2
      <4>2. QED BY <4>1, <1>5, <1>1, <2>1, <2>3, <2>4, <2>2 DEF BlockedChannel, Reasons, Shown, BlockedLater, BlockedWorking
    <3>2. BlockedChannel("whatsapp")'
      <4>1. BlockedChannel("whatsapp") BY <1>2
      <4>2. QED BY <4>1, <1>5, <1>1, <2>1, <2>3, <2>4, <2>2 DEF BlockedChannel, Reasons, Shown, BlockedLater, BlockedWorking
    <3>3. QED BY <3>1, <3>2
  <2>8. QED BY <1>8, <2>4, <2>5, <2>6, <2>7
<1>18. CASE Blocked!SendEmail(1)
  <2> DEFINE x == [b EXCEPT !.pc = "save_email"]
  <2>1. /\ b.pc = "email" /\ ~b.ds.ok["email"]
        /\ blockedGot' = [blockedGot EXCEPT !["email"] = b.content]
        /\ blockedTold' = [blockedTold EXCEPT !["email"] = IF b.content = blockedDb THEN @ + 1 ELSE @]
        /\ blockedRun' = [blockedRun EXCEPT ![1] = x]
        /\ UNCHANGED <<blockedDb, blockedState, blockedTmp, html, blockedFile, recipients, blockedCut, unsure, blockedCrashes, blockedChanges>>
    BY <1>18 DEF Blocked!SendEmail, Blocked!Sent, Blocked!Skips, Blocked!Pending, Blocked!files, Blocked!history
  <2>2. /\ blockedGot' \in [Ch -> Lists] /\ blockedTold' \in [Ch -> Nat]
        /\ blockedGot'["email"] = b.content /\ blockedGot'["whatsapp"] = blockedGot["whatsapp"]
        /\ blockedTold'["whatsapp"] = blockedTold["whatsapp"]
        /\ blockedTold'["email"] = (IF b.content = blockedDb THEN blockedTold["email"] + 1 ELSE blockedTold["email"])
    BY <1>1, <2>1
  <2>3. b.ds.hash = b.content /\ blockedTmp = b.content /\ blockedTmp # Absent
    BY <1>1, <1>2, <1>3, <2>1 DEF BlockedRunning, BlockedWorking, BlockedLater
  <2>4. blockedTold["email"] <= Reasons("email")
    BY <1>1, <1>2, <1>5, <2>1 DEF BlockedChannel, Reasons, BlockedWorking, BlockedLater
  <2>5. x \in R /\ x.pc = "save_email" /\ x.content = b.content /\ x.ds = b.ds /\ x.code = b.code
    BY <1>1, <2>1
  <2>6. Blocked!TypeOK' /\ blockedRun'[1] = x
    BY <1>1, <1>3, <1>6, <2>1, <2>5, <2>2
  <2> HIDE DEF x
  <2>7. BlockedRunning'
    BY <1>1, <1>2, <2>1, <2>5, <2>6, <2>2, <2>3, <2>4 DEF BlockedRunning, BlockedLater, BlockedWorking
  <2>8. BlockedMailed'
    BY <1>1, <1>2, <2>1, <2>5, <2>6, <2>2, <2>3, <2>4 DEF BlockedMailed
  <2>9. ASSUME NEW c \in Ch PROVE BlockedChannel(c)'
    BY <1>3, <1>5, <1>1, <1>2, <2>1, <2>5, <2>6, <2>2, <2>3, <2>4 DEF BlockedChannel, Reasons, Shown, BlockedLater, BlockedWorking
  <2>10. QED BY <1>8, <2>6, <2>7, <2>8, <2>9
<1>19. CASE Blocked!EmailFails(1)
  <2> DEFINE x == [b EXCEPT !.pc = "whatsapp", !.code = 25]
  <2>1. /\ b.pc = "email"
        /\ blockedRun' = [blockedRun EXCEPT ![1] = x]
        /\ UNCHANGED <<blockedDb, blockedState, blockedTmp, html, blockedFile, recipients, blockedGot, blockedTold, blockedCut, unsure, blockedCrashes, blockedChanges>>
    BY <1>19 DEF Blocked!EmailFails, Blocked!files, Blocked!history
  <2>2. x \in R /\ x.pc = "whatsapp" /\ x.content = b.content /\ x.ds = b.ds /\ x.code = 25
    BY <1>1, <2>1
  <2>3. Blocked!TypeOK' /\ blockedRun'[1] = x
    BY ZenonT(40), <1>1, <1>3, <1>6, <2>1, <2>2
  <2> HIDE DEF x
  <2>4. BlockedRunning'
    BY <1>1, <1>2, <2>1, <2>2, <2>3 DEF BlockedRunning, BlockedLater, BlockedWorking
  <2>5. BlockedMailed'
    BY <1>1, <1>2, <2>1, <2>2, <2>3 DEF BlockedMailed
  <2>6. ASSUME NEW c \in Ch PROVE BlockedChannel(c)'
    BY <1>3, <1>5, <1>1, <1>2, <2>1, <2>2, <2>3 DEF BlockedChannel, Reasons, Shown, BlockedLater, BlockedWorking
  <2>7. QED BY <1>8, <2>3, <2>4, <2>5, <2>6
<1>20. CASE Blocked!Save(1, "save_email", "email", "whatsapp")
  <2> DEFINE d == [b.ds EXCEPT !.ok["email"] = TRUE]
             x == [b EXCEPT !.pc = "whatsapp", !.ds = d]
  <2>1. b.pc = "save_email" /\ blockedCut' = blockedCut \ {"email"}
        /\ UNCHANGED <<blockedDb, blockedState, blockedTmp, html, recipients, blockedGot, blockedTold, unsure, blockedCrashes, blockedChanges>>
    BY <1>20 DEF Blocked!Save
  <2>2. blockedFile' = d /\ blockedRun' = [blockedRun EXCEPT ![1] = x]
    BY <1>20 DEF Blocked!Save, Blocked!Delivered
  <2>3. b.ds.hash = b.content /\ blockedTmp = b.content /\ blockedTmp # Absent /\ blockedGot["email"] = b.content
    BY <1>1, <1>2, <1>3, <1>5, <2>1 DEF BlockedRunning, BlockedChannel, BlockedWorking, BlockedLater
  <2>4. /\ d \in Blocked!DeliveryStates /\ d.hash = b.content
        /\ d.ok["email"] = TRUE /\ d.ok["whatsapp"] = b.ds.ok["whatsapp"]
    BY <1>1, <2>3 DEF Blocked!DeliveryStates
  <2>5. b.content # blockedDb => blockedTold["email"] = 0 /\ blockedTold["whatsapp"] = 0
    BY <1>2, <2>1 DEF BlockedRunning, BlockedWorking, BlockedLater
  <2> HIDE DEF d
  <2>6. x \in R /\ x.pc = "whatsapp" /\ x.content = b.content /\ x.code = b.code /\ x.ds = d BY <1>1, <2>4
  <2>7. Blocked!TypeOK' /\ blockedRun'[1] = x BY <1>1, <1>3, <1>6, <2>1, <2>2, <2>4, <2>6
  <2> HIDE DEF x
  <2>8. /\ blockedRun'[1].pc = "whatsapp" /\ blockedRun'[1].content = b.content /\ blockedRun'[1].code = b.code
        /\ blockedRun'[1].ds.hash = b.content /\ blockedRun'[1].ds.ok["email"]
        /\ blockedRun'[1].ds.ok["whatsapp"] = b.ds.ok["whatsapp"]
        /\ blockedFile' \in Blocked!DeliveryStates /\ blockedFile'.hash = b.content /\ blockedFile'.ok["email"]
        /\ blockedFile'.ok["whatsapp"] = b.ds.ok["whatsapp"]
    BY <2>2, <2>4, <2>6, <2>7
  <2>9. BlockedRunning' BY <1>2, <2>1, <2>3, <2>5, <2>8 DEF BlockedRunning, BlockedLater, BlockedWorking
  <2>10. BlockedMailed' BY <1>2, <2>1, <2>3, <2>8 DEF BlockedMailed
  <2>11. BlockedChannel("email")'
    <3>1. BlockedChannel("email") BY <1>2
    <3>2. QED
      BY <1>1, <1>5, <2>1, <2>3, <2>5, <2>8, <3>1 DEF BlockedChannel, Reasons, Shown, BlockedLater, BlockedWorking
  <2>12. BlockedChannel("whatsapp")'
    <3>1. BlockedChannel("whatsapp") BY <1>2
    <3>2. QED
      BY <1>1, <1>5, <2>1, <2>3, <2>5, <2>8, <3>1 DEF BlockedChannel, Reasons, Shown, BlockedLater, BlockedWorking
  <2>13. QED BY <1>8, <2>7, <2>9, <2>10, <2>11, <2>12
<1>21. CASE Blocked!SkipWhatsApp(1)
  <2> DEFINE x == [b EXCEPT !.pc = "commit"]
  <2>1. /\ b.pc = "whatsapp"
        /\ blockedRun' = [blockedRun EXCEPT ![1] = x]
        /\ UNCHANGED <<blockedDb, blockedState, blockedTmp, html, blockedFile, recipients, blockedGot, blockedTold, blockedCut, unsure, blockedCrashes, blockedChanges>>
    BY <1>21 DEF Blocked!SkipWhatsApp, Blocked!files, Blocked!history
  <2>2. x \in R /\ x.pc = "commit" /\ x.content = b.content /\ x.ds = b.ds /\ x.code = b.code
    BY <1>1, <2>1
  <2>3. Blocked!TypeOK' /\ blockedRun'[1] = x
    BY <1>1, <1>3, <1>6, <2>1, <2>2
  <2> HIDE DEF x
  <2>4. BlockedRunning'
    BY <1>1, <1>2, <2>1, <2>2, <2>3 DEF BlockedRunning, BlockedLater, BlockedWorking
  <2>5. BlockedMailed'
    BY <1>1, <1>2, <2>1, <2>2, <2>3 DEF BlockedMailed
  <2>6. ASSUME NEW c \in Ch PROVE BlockedChannel(c)'
    BY <1>3, <1>5, <1>1, <1>2, <2>1, <2>2, <2>3 DEF BlockedChannel, Reasons, Shown, BlockedLater, BlockedWorking
  <2>7. QED BY <1>8, <2>3, <2>4, <2>5, <2>6
<1>22. CASE Blocked!SendWhatsApp(1)
  <2> DEFINE x == [b EXCEPT !.pc = "save_whatsapp"]
  <2>1. /\ b.pc = "whatsapp" /\ ~b.ds.ok["whatsapp"]
        /\ blockedGot' = [blockedGot EXCEPT !["whatsapp"] = b.content]
        /\ blockedTold' = [blockedTold EXCEPT !["whatsapp"] = IF b.content = blockedDb THEN @ + 1 ELSE @]
        /\ blockedRun' = [blockedRun EXCEPT ![1] = x]
        /\ UNCHANGED <<blockedDb, blockedState, blockedTmp, html, blockedFile, recipients, blockedCut, unsure, blockedCrashes, blockedChanges>>
    BY <1>22 DEF Blocked!SendWhatsApp, Blocked!Sent, Blocked!Skips, Blocked!Pending, Blocked!files, Blocked!history
  <2>2. /\ blockedGot' \in [Ch -> Lists] /\ blockedTold' \in [Ch -> Nat]
        /\ blockedGot'["whatsapp"] = b.content /\ blockedGot'["email"] = blockedGot["email"]
        /\ blockedTold'["email"] = blockedTold["email"]
        /\ blockedTold'["whatsapp"] = (IF b.content = blockedDb THEN blockedTold["whatsapp"] + 1 ELSE blockedTold["whatsapp"])
    BY <1>1, <2>1
  <2>3. b.ds.hash = b.content /\ blockedTmp = b.content /\ blockedTmp # Absent
    BY <1>1, <1>2, <1>3, <2>1 DEF BlockedRunning, BlockedWorking, BlockedLater
  <2>4. blockedTold["whatsapp"] <= Reasons("whatsapp")
    BY <1>1, <1>2, <1>5, <2>1 DEF BlockedChannel, Reasons, BlockedWorking, BlockedLater
  <2>5. x \in R /\ x.pc = "save_whatsapp" /\ x.content = b.content /\ x.ds = b.ds /\ x.code = b.code
    BY <1>1, <2>1
  <2>6. Blocked!TypeOK' /\ blockedRun'[1] = x
    BY <1>1, <1>3, <1>6, <2>1, <2>5, <2>2
  <2> HIDE DEF x
  <2>7. BlockedRunning'
    BY <1>1, <1>2, <2>1, <2>5, <2>6, <2>2, <2>3, <2>4 DEF BlockedRunning, BlockedLater, BlockedWorking
  <2>8. BlockedMailed'
    BY <1>1, <1>2, <2>1, <2>5, <2>6, <2>2, <2>3, <2>4 DEF BlockedMailed
  <2>9. ASSUME NEW c \in Ch PROVE BlockedChannel(c)'
    BY <1>3, <1>5, <1>1, <1>2, <2>1, <2>5, <2>6, <2>2, <2>3, <2>4 DEF BlockedChannel, Reasons, Shown, BlockedLater, BlockedWorking
  <2>10. QED BY <1>8, <2>6, <2>7, <2>8, <2>9
<1>24. CASE Blocked!WhatsAppFails(1)
  <2>1. PICK k \in {21, 24} : blockedRun' = [blockedRun EXCEPT ![1] = [b EXCEPT !.pc = "commit", !.code = k]]
    BY ZenonT(40), <1>24 DEF Blocked!WhatsAppFails
  <2> DEFINE x == [b EXCEPT !.pc = "commit", !.code = k]
  <2>2. /\ b.pc = "whatsapp" /\ ~b.ds.ok["whatsapp"]
        /\ UNCHANGED <<blockedDb, blockedState, blockedTmp, html, blockedFile, recipients, blockedCrashes, blockedChanges>>
        /\ \/ UNCHANGED <<blockedGot, blockedTold, blockedCut, unsure>>
           \/ /\ unsure < BlockedUnsure /\ unsure' = unsure + 1
              /\ blockedGot' = [blockedGot EXCEPT !["whatsapp"] = b.content]
              /\ blockedTold' = [blockedTold EXCEPT !["whatsapp"] = IF b.content = blockedDb THEN @ + 1 ELSE @]
              /\ blockedCut' = blockedCut \cup {"whatsapp"}
    BY <1>24 DEF Blocked!WhatsAppFails, Blocked!Sent, Blocked!Skips, Blocked!Pending, Blocked!files, Blocked!history
  <2>3. x \in R /\ x.pc = "commit" /\ x.content = b.content /\ x.ds = b.ds /\ x.code # 0
    <3>1. k \in Code /\ k # 0 BY <2>1
    <3>2. QED BY <1>1, <3>1
  <2>4. blockedTold["whatsapp"] <= Reasons("whatsapp")
    BY <1>1, <1>2, <1>5, <2>2 DEF BlockedChannel, Reasons, BlockedWorking, BlockedLater
  <2>5. /\ blockedGot' \in [Ch -> Lists] /\ blockedTold' \in [Ch -> Nat] /\ blockedCut' \subseteq Ch
        /\ unsure' \in 0..BlockedUnsure /\ blockedCut \subseteq blockedCut'
        /\ blockedGot'["email"] = blockedGot["email"] /\ blockedTold'["email"] = blockedTold["email"]
        /\ ("email" \in blockedCut' <=> "email" \in blockedCut)
        /\ \/ UNCHANGED <<blockedGot, blockedTold, blockedCut, unsure>>
           \/ /\ unsure' = unsure + 1 /\ "whatsapp" \in blockedCut'
              /\ blockedTold'["whatsapp"] \in {blockedTold["whatsapp"], blockedTold["whatsapp"] + 1}
              /\ b.content # blockedDb => blockedTold'["whatsapp"] = blockedTold["whatsapp"]
    <3>1. CASE UNCHANGED <<blockedGot, blockedTold, blockedCut, unsure>> BY <1>1, <3>1
    <3>2. CASE ~UNCHANGED <<blockedGot, blockedTold, blockedCut, unsure>>
      <4>1. b.content \in Lists /\ unsure + 1 \in 0..BlockedUnsure BY <1>1, <1>3, <2>2, <3>2
      <4>2. /\ unsure' = unsure + 1 /\ blockedGot' = [blockedGot EXCEPT !["whatsapp"] = b.content]
            /\ blockedTold' = [blockedTold EXCEPT !["whatsapp"] = IF b.content = blockedDb THEN @ + 1 ELSE @]
            /\ blockedCut' = blockedCut \cup {"whatsapp"}
        BY <2>2, <3>2
      <4>3. blockedGot' \in [Ch -> Lists] /\ blockedGot'["email"] = blockedGot["email"] BY <1>1, <4>1, <4>2
      <4>4. /\ blockedTold' \in [Ch -> Nat] /\ blockedTold'["email"] = blockedTold["email"]
            /\ blockedTold'["whatsapp"] \in {blockedTold["whatsapp"], blockedTold["whatsapp"] + 1}
            /\ b.content # blockedDb => blockedTold'["whatsapp"] = blockedTold["whatsapp"]
        BY <1>1, <4>2
      <4>5. /\ blockedCut' \subseteq Ch /\ blockedCut \subseteq blockedCut' /\ "whatsapp" \in blockedCut'
            /\ ("email" \in blockedCut' <=> "email" \in blockedCut)
        BY <1>1, <4>2
      <4>6. QED BY <4>1, <4>2, <4>3, <4>4, <4>5
    <3>3. QED BY <3>1, <3>2
  <2>6. Blocked!TypeOK' /\ blockedRun'[1] = x
    <3>1. /\ blockedDb' \in Lists /\ blockedState' \in Lists /\ blockedTmp' \in Lists \cup {Absent, Torn}
          /\ html' \in Lists \cup {Absent} /\ blockedFile' \in Blocked!DeliveryStates \cup {Absent, Torn}
          /\ recipients' \in BOOLEAN /\ blockedCrashes' \in 0..BlockedCrashes
          /\ blockedChanges' \in 0..BlockedChanges
      BY <1>1, <2>2
    <3> HIDE DEF x
    <3>2. QED BY <1>6, <2>1, <2>3, <2>5, <3>1 DEF x
  <2> HIDE DEF x
  <2>7. BlockedRunning' BY <1>1, <1>2, <2>2, <2>3, <2>5, <2>6 DEF BlockedRunning, BlockedLater, BlockedWorking
  <2>8. BlockedMailed' BY <1>2, <2>2, <2>3, <2>5, <2>6 DEF BlockedMailed
  <2>9. BlockedChannel("email")'
    <3>1. BlockedChannel("email") BY <1>2
    <3>2. QED
      BY <1>5, <2>2, <2>3, <2>5, <2>6, <3>1 DEF BlockedChannel, Reasons, Shown, BlockedLater, BlockedWorking
  <2>10. BlockedChannel("whatsapp")'
    <3>1. BlockedChannel("whatsapp") BY <1>2
    <3>2. CASE UNCHANGED <<blockedGot, blockedTold, blockedCut, unsure>>
      BY <1>5, <2>2, <2>3, <2>6, <3>1, <3>2 DEF BlockedChannel, Reasons, Shown, BlockedLater, BlockedWorking
    <3>3. CASE ~UNCHANGED <<blockedGot, blockedTold, blockedCut, unsure>>
      <4>1. /\ blockedTold'["whatsapp"] <= 1 + Reasons("whatsapp")'
            /\ ~(blockedTold'["whatsapp"] > Reasons("whatsapp")')
        <5>1. blockedTold["whatsapp"] \in Nat /\ blockedCrashes \in Nat /\ unsure \in Nat BY <1>1, <1>3
        <5>2. QED BY <2>2, <2>4, <2>5, <3>3, <5>1 DEF Reasons
      <4>3. Shown("whatsapp", b.content)' /\ \A h : Shown("whatsapp", h)' BY <2>5, <3>3 DEF Shown
      <4>4. QED BY <1>5, <2>3, <2>6, <4>1, <4>3 DEF BlockedChannel
    <3>4. QED BY <3>2, <3>3
  <2>11. ASSUME NEW c \in Ch PROVE BlockedChannel(c)' BY <2>9, <2>10
  <2>12. QED BY <1>8, <2>6, <2>7, <2>8, <2>11
<1>25. CASE Blocked!Save(1, "save_whatsapp", "whatsapp", "commit")
  <2> DEFINE d == [b.ds EXCEPT !.ok["whatsapp"] = TRUE]
             x == [b EXCEPT !.pc = "commit", !.ds = d]
  <2>1. b.pc = "save_whatsapp" /\ blockedCut' = blockedCut \ {"whatsapp"}
        /\ UNCHANGED <<blockedDb, blockedState, blockedTmp, html, recipients, blockedGot, blockedTold, unsure, blockedCrashes, blockedChanges>>
    BY <1>25 DEF Blocked!Save
  <2>2. blockedFile' = d /\ blockedRun' = [blockedRun EXCEPT ![1] = x]
    BY <1>25 DEF Blocked!Save, Blocked!Delivered
  <2>3. b.ds.hash = b.content /\ blockedTmp = b.content /\ blockedTmp # Absent /\ blockedGot["whatsapp"] = b.content
    BY <1>1, <1>2, <1>3, <1>5, <2>1 DEF BlockedRunning, BlockedChannel, BlockedWorking, BlockedLater
  <2>4. /\ d \in Blocked!DeliveryStates /\ d.hash = b.content
        /\ d.ok["whatsapp"] = TRUE /\ d.ok["email"] = b.ds.ok["email"]
    BY <1>1, <2>3 DEF Blocked!DeliveryStates
  <2>5. b.content # blockedDb => blockedTold["email"] = 0 /\ blockedTold["whatsapp"] = 0
    BY <1>2, <2>1 DEF BlockedRunning, BlockedWorking, BlockedLater
  <2> HIDE DEF d
  <2>6. x \in R /\ x.pc = "commit" /\ x.content = b.content /\ x.code = b.code /\ x.ds = d BY <1>1, <2>4
  <2>7. Blocked!TypeOK' /\ blockedRun'[1] = x BY <1>1, <1>3, <1>6, <2>1, <2>2, <2>4, <2>6
  <2> HIDE DEF x
  <2>8. /\ blockedRun'[1].pc = "commit" /\ blockedRun'[1].content = b.content /\ blockedRun'[1].code = b.code
        /\ blockedRun'[1].ds.hash = b.content /\ blockedRun'[1].ds.ok["whatsapp"]
        /\ blockedRun'[1].ds.ok["email"] = b.ds.ok["email"]
        /\ blockedFile' \in Blocked!DeliveryStates /\ blockedFile'.hash = b.content /\ blockedFile'.ok["whatsapp"]
        /\ blockedFile'.ok["email"] = b.ds.ok["email"]
    BY <2>2, <2>4, <2>6, <2>7
  <2>9. BlockedRunning' BY <1>2, <2>1, <2>3, <2>5, <2>8 DEF BlockedRunning, BlockedLater, BlockedWorking
  <2>10. BlockedMailed' BY <1>2, <2>1, <2>3, <2>8 DEF BlockedMailed
  <2>11. BlockedChannel("whatsapp")'
    <3>1. BlockedChannel("whatsapp") BY <1>2
    <3>2. QED
      BY <1>1, <1>5, <2>1, <2>3, <2>5, <2>8, <3>1 DEF BlockedChannel, Reasons, Shown, BlockedLater, BlockedWorking
  <2>12. BlockedChannel("email")'
    <3>1. BlockedChannel("email") BY <1>2
    <3>2. QED
      BY <1>1, <1>5, <2>1, <2>3, <2>5, <2>8, <3>1 DEF BlockedChannel, Reasons, Shown, BlockedLater, BlockedWorking
  <2>13. QED BY <1>8, <2>7, <2>9, <2>10, <2>11, <2>12
<1>26. CASE Blocked!Commit(1)
  <2> DEFINE x == Blocked!Ended(b.code)
  <2>1. /\ b.pc = "commit"
        /\ IF b.code = 0 /\ blockedTmp \in Lists THEN blockedState' = blockedTmp /\ blockedTmp' = Absent
           ELSE UNCHANGED <<blockedState, blockedTmp>>
        /\ blockedRun' = [blockedRun EXCEPT ![1] = x]
        /\ UNCHANGED <<blockedDb, html, blockedFile, recipients, blockedGot, blockedTold, blockedCut, unsure, blockedCrashes, blockedChanges>>
    BY <1>26 DEF Blocked!Commit, Blocked!files, Blocked!history
  <2>2. x \in R /\ x.pc = "end"
    BY <1>1, <1>7
  <2>3. Blocked!TypeOK' /\ blockedRun'[1] = x
    BY ZenonT(40), <1>1, <1>3, <1>6, <2>1, <2>2
  <2> HIDE DEF x
  <2>4. blockedTmp = b.content /\ blockedTmp # Absent
    BY <1>1, <1>2, <1>3, <2>1 DEF BlockedRunning, BlockedLater
  <2>5. BlockedRunning'
    BY <1>1, <1>2, <2>1, <2>2, <2>3, <2>4 DEF BlockedRunning, BlockedLater, BlockedWorking
  <2>6. BlockedMailed'
    BY <1>1, <1>2, <2>1, <2>2, <2>3, <2>4 DEF BlockedMailed
  <2>7. ASSUME NEW c \in Ch PROVE BlockedChannel(c)'
    BY <1>3, <1>5, <1>1, <1>2, <2>1, <2>2, <2>3, <2>4 DEF BlockedChannel, Reasons, Shown, BlockedLater, BlockedWorking
  <2>8. QED BY <1>8, <2>3, <2>5, <2>6, <2>7
<1>27. CASE Blocked!Crash(1)
  <2> DEFINE x == Blocked!Ended(4)
  <2>1. /\ b.pc # "end" /\ blockedCrashes < BlockedCrashes /\ blockedCrashes' = blockedCrashes + 1
        /\ blockedTmp' \in {blockedTmp, blockedDb, Torn} /\ blockedFile' \in {blockedFile, Torn}
        /\ blockedCut' = blockedCut \cup {c \in Ch : b.pc = Blocked!Saving[c]}
        /\ blockedRun' = [blockedRun EXCEPT ![1] = x]
        /\ UNCHANGED <<blockedDb, blockedState, html, recipients, blockedGot, blockedTold, unsure, blockedChanges>>
    BY <1>27 DEF Blocked!Crash, Blocked!files, Blocked!history
  <2>2. /\ blockedCrashes' \in 0..BlockedCrashes /\ blockedCut' \subseteq Ch
      <3>1. blockedCrashes' \in 0..BlockedCrashes BY <1>1, <1>3, <2>1
    <3>2. {c \in Ch : b.pc = Blocked!Saving[c]} \subseteq Ch OBVIOUS
    <3>3. QED BY <1>1, <2>1, <3>1, <3>2
  <2>3. /\ blockedCut \subseteq blockedCut' /\ (blockedTmp' = Absent => blockedTmp = Absent)
        /\ \A c \in Ch : b.pc = Blocked!Saving[c] => c \in blockedCut'
    BY <1>1, <1>3, <2>1
  <2>4. x \in R /\ x.pc = "end"
    BY <1>7
  <2>5. Blocked!TypeOK' /\ blockedRun'[1] = x
    BY ZenonT(40), <1>1, <1>3, <1>6, <2>1, <2>4, <2>2
  <2> HIDE DEF x
  <2>6. BlockedRunning'
    BY <1>1, <1>2, <2>1, <2>4, <2>5, <2>2, <2>3 DEF BlockedRunning, BlockedLater, BlockedWorking
  <2>7. BlockedMailed'
    BY <1>1, <1>2, <2>1, <2>4, <2>5, <2>2, <2>3 DEF BlockedMailed
  <2>8. ASSUME NEW c \in Ch PROVE BlockedChannel(c)'
    BY <1>3, <1>5, <1>1, <1>2, <2>1, <2>4, <2>5, <2>2, <2>3 DEF BlockedChannel, Reasons, Shown, BlockedLater, BlockedWorking
  <2>9. QED BY <1>8, <2>5, <2>6, <2>7, <2>8
<1>28. CASE Blocked!Change
  <2>1. /\ blockedChanges < BlockedChanges /\ blockedChanges' = blockedChanges + 1 /\ blockedDb' \in Lists
        /\ blockedTold' = [c \in Ch |-> 0]
        /\ UNCHANGED <<blockedRun, blockedState, blockedTmp, html, blockedFile, recipients, blockedGot, blockedCut, unsure, blockedCrashes>>
    BY <1>28 DEF Blocked!Change, Blocked!files
  <2>2. blockedChanges' \in 0..BlockedChanges BY <1>1, <1>3, <2>1
  <2>3. Blocked!TypeOK' BY <1>1, <2>1, <2>2 DEF Blocked!TypeOK
  <2>4. BlockedRunning' BY <1>2, <2>1 DEF BlockedRunning, BlockedLater, BlockedWorking
  <2>5. BlockedMailed' BY <1>2, <2>1 DEF BlockedMailed
  <2>6. ASSUME NEW c \in Ch PROVE BlockedChannel(c)'
    BY <1>1, <1>2, <2>1 DEF BlockedChannel, Reasons, Shown, BlockedLater, BlockedWorking
  <2>7. QED BY <1>8, <2>3, <2>4, <2>5, <2>6
<1>29. CASE UNCHANGED blockedVars
  <2>1. UNCHANGED <<blockedRun, blockedDb, blockedState, blockedTmp, html, blockedFile, recipients, blockedGot, blockedTold, blockedCut, unsure, blockedCrashes, blockedChanges>> BY <1>29 DEF blockedVars
  <2>2. Blocked!TypeOK' BY <1>1, <2>1 DEF Blocked!TypeOK
  <2>3. BlockedRunning' /\ BlockedMailed' BY <1>2, <2>1 DEF BlockedRunning, BlockedMailed
  <2>4. ASSUME NEW c \in Ch PROVE BlockedChannel(c)' BY <1>2, <2>1 DEF BlockedChannel, Reasons, Shown
  <2>5. QED BY <1>8, <2>2, <2>3, <2>4
<1>30. QED
  BY <1>9, <1>10, <1>11, <1>12, <1>13, <1>14, <1>15, <1>16, <1>17, <1>18, <1>19, <1>20, <1>21, <1>22, <1>24, <1>25, <1>26, <1>27, <1>28, <1>29
  DEF Blocked!Next, Blocked!Extract, Blocked!Email, Blocked!WhatsApp

\* A commit is of the list the run sent.
LEMMA BlockedCommits ==
  ASSUME BlockedInv, [Blocked!Next]_blockedVars, blockedState' # blockedState
  PROVE  blockedRun[1].pc = "commit" /\ blockedState' = blockedRun[1].content
<1>1. Blocked!Commit(1)
  BY DEF Blocked!Next, Blocked!Start, Blocked!Extract, Blocked!ExtractChanges, Blocked!ExtractNothing,
     Blocked!ExtractPending, Blocked!ExtractFails, Blocked!NoPython, Blocked!Resolve, Blocked!Email, Blocked!SkipEmail,
     Blocked!NoRecipient, Blocked!SendEmail, Blocked!EmailFails, Blocked!Save, Blocked!WhatsApp, Blocked!SkipWhatsApp,
     Blocked!SendWhatsApp, Blocked!WhatsAppFails, Blocked!Crash, Blocked!Change,
     Blocked!files, blockedVars
<1>2. blockedRun[1].pc = "commit" /\ blockedState' = blockedTmp BY <1>1 DEF Blocked!Commit
<1>3. QED BY <1>2 DEF BlockedInv, BlockedRunning, BlockedLater

-----------------------------------------------------------------------------
(* MontagemTerceirizados: the cache of known errors and its provisional copy. *)

\* The provisional cache of a notice that is on its way.
Prepared ==
  [items |-> assemblyRun.payload.items, exists |-> TRUE,
   reminder |-> IF assemblyRun.payload.kind = "LEMBRETE" THEN assemblyRun.payload.at ELSE cache.reminder]

\* The notice that is on its way was made in this run, and a reminder was due.
AssemblyRunning ==
  LET r == assemblyRun
  IN  /\ r.pc \in {"email", "save", "commit"} =>
           assemblyTmp = Prepared /\ r.payload.at = clock /\ r.payload.kind # "NENHUMA"
      /\ r.pc \in {"email", "save", "commit"} /\ r.payload.kind = "LEMBRETE" =>
           cache.reminder = Assembly!Never \/ clock - cache.reminder >= Interval

\* What is recorded is older than a payload that is still to be sent: no two are the same.
AssemblyRecorded ==
  assemblyFile \in Assembly!States =>
    /\ assemblyFile.hash \in Assembly!Payloads /\ assemblyFile.hash.at <= clock
    /\ assemblyRun.pc \in {"validate", "retry", "email"} => assemblyFile.hash.at < clock

\* Unless a kill was between a mail and its commit, the cache is what was told.
AssemblyCached ==
  /\ cache.reminder = reminded
  /\ ~cache.exists => cache.items = {}
  /\ ~assemblyCut /\ assemblyRun.pc \notin {"save", "commit"} => assemblyTold = cache.items
  /\ assemblyRun.pc \in {"save", "commit"} => assemblyTold = assemblyRun.payload.items

AssemblyInv == Assembly!TypeOK /\ AssemblyRunning /\ AssemblyRecorded /\ AssemblyCached

\* The errors are rows; no notice means that the cache knows them; a reminder is due.
LEMMA AssemblyKinds ==
  ASSUME NEW now \in SUBSET Batches
  PROVE  /\ Assembly!Kind(now) \in Assembly!Kinds
         /\ Assembly!Kind(now) = "NENHUMA" /\ (~cache.exists => cache.items = {}) => now = cache.items
         /\ Assembly!Kind(now) = "LEMBRETE" => Assembly!ReminderDue
<1>1. CASE ~cache.exists BY <1>1 DEF Assembly!Kind, Assembly!Kinds
<1>2. CASE cache.exists /\ now = {} BY <1>2 DEF Assembly!Kind, Assembly!Kinds
<1>3. CASE cache.exists /\ now # {} /\ cache.items = {} BY <1>3 DEF Assembly!Kind, Assembly!Kinds
<1>4. CASE cache.exists /\ now # {} /\ cache.items # {} /\ now # cache.items
  BY <1>4 DEF Assembly!Kind, Assembly!Kinds
<1>5. CASE cache.exists /\ now # {} /\ cache.items # {} /\ now = cache.items
  BY <1>5 DEF Assembly!Kind, Assembly!Kinds
<1>6. QED BY <1>1, <1>2, <1>3, <1>4, <1>5

\* What is to be sent is pending; once it is saved, the file is of this payload.
LEMMA AssemblyPending ==
  ASSUME Assembly!MontagemAssumption, NEW f \in Assembly!States \cup {Absent, Torn}, NEW p \in Assembly!Payloads,
         f \in Assembly!States => f.hash # p
  PROVE  LET d == Assembly!UpdateHash(Assembly!ReadState(f), p)
         IN  d \in Assembly!States /\ d.hash = p /\ ~d.ok["email"]
<1>1. p # NoHash /\ {Absent, Torn} \cap Assembly!States = {} BY DEF Assembly!MontagemAssumption
<1>2. /\ Assembly!NewState \in Assembly!States /\ ~Assembly!NewState.ok["email"]
      /\ Assembly!NewState.hash = NoHash
  BY DEF Assembly!NewState, Assembly!States
<1>3. Assembly!ReadState(f).hash # p BY <1>1, <1>2 DEF Assembly!ReadState
<1>4. Assembly!UpdateHash(Assembly!ReadState(f), p) = [Assembly!NewState EXCEPT !.hash = p]
  BY <1>1, <1>3 DEF Assembly!UpdateHash
<1>5. QED BY <1>2, <1>4 DEF Assembly!States

LEMMA AssemblySaved ==
  ASSUME Assembly!MontagemAssumption, NEW f \in Assembly!States \cup {Absent, Torn}, NEW p \in Assembly!Payloads
  PROVE  LET d == Assembly!Delivered(Assembly!UpdateHash(Assembly!ReadState(f), p), "email")
         IN  d \in Assembly!States /\ d.hash = p
<1> DEFINE s == Assembly!ReadState(f)
           u == Assembly!UpdateHash(s, p)
<1>1. p # NoHash BY DEF Assembly!MontagemAssumption
<1>2. s \in Assembly!States BY DEF Assembly!ReadState, Assembly!NewState, Assembly!States
<1>3. Assembly!NewState \in Assembly!States BY DEF Assembly!NewState, Assembly!States
<1> HIDE DEF s
<1>4. u \in Assembly!States /\ u.hash = p
  <2>1. CASE p = s.hash BY <1>1, <1>2, <2>1 DEF Assembly!UpdateHash
  <2>2. CASE p # s.hash
    <3>1. u = [Assembly!NewState EXCEPT !.hash = p] BY <1>1, <2>2 DEF Assembly!UpdateHash
    <3>2. QED BY <1>3, <3>1 DEF Assembly!States
  <2>3. QED BY <2>1, <2>2
<1> HIDE DEF u
<1>5. Assembly!Delivered(u, "email") \in Assembly!States /\ Assembly!Delivered(u, "email").hash = p
  BY <1>4 DEF Assembly!Delivered, Assembly!States
<1>6. QED BY <1>5 DEF u, s

LEMMA AssemblyStarts == Assembly!MontagemAssumption /\ Assembly!Init => AssemblyInv
<1> SUFFICES ASSUME Assembly!MontagemAssumption, Assembly!Init PROVE AssemblyInv OBVIOUS
<1>1. /\ rows = {} /\ cache = Assembly!NoCache /\ assemblyTmp = Assembly!NoCache /\ assemblyFile = Absent /\ clock = 0
      /\ assemblyRun = Assembly!Idle /\ assemblyTold = {} /\ reminded = Assembly!Never /\ assemblyCut = FALSE
      /\ assemblyCrashes = 0 /\ assemblyChanges = 0
  BY DEF Assembly!Init
<1>2. Assembly!NoCache \in Assembly!Caches
  BY DEF Assembly!NoCache, Assembly!Caches, Assembly!Never, Assembly!MontagemAssumption
<1>3. Assembly!NoPayload \in Assembly!Payloads
  BY DEF Assembly!NoPayload, Assembly!Payloads, Assembly!Kinds, Assembly!Never, Assembly!MontagemAssumption
<1>4. assemblyRun \in [pc : {"end", "validate", "retry", "email", "save", "commit"}, attempt : 0..Attempts,
                       data : BOOLEAN, rows : SUBSET Batches, payload : Assembly!Payloads]
  BY <1>1, <1>3 DEF Assembly!Idle, Assembly!MontagemAssumption
<1>5. reminded \in Assembly!Never..Days BY <1>1 DEF Assembly!Never, Assembly!MontagemAssumption
<1>6. /\ clock \in 0..Days /\ assemblyCrashes \in 0..AssemblyCrashes /\ assemblyChanges \in 0..AssemblyChanges
      /\ rows \subseteq Batches /\ assemblyTold \subseteq Batches
  BY <1>1 DEF Assembly!MontagemAssumption
<1>7. Assembly!TypeOK BY <1>1, <1>2, <1>4, <1>5, <1>6 DEF Assembly!TypeOK
<1>8. AssemblyRunning /\ AssemblyCached
  BY <1>1 DEF AssemblyRunning, AssemblyCached, Assembly!Idle, Assembly!NoCache
<1>9. AssemblyRecorded BY <1>1 DEF AssemblyRecorded, Assembly!MontagemAssumption
<1>10. QED BY <1>7, <1>8, <1>9 DEF AssemblyInv

\* A payload that is about to be sent was not recorded before: it carries its time.
LEMMA AssemblyUnsent ==
  ASSUME Assembly!MontagemAssumption, AssemblyInv, assemblyRun.pc = "email" PROVE ~Assembly!Suppressed
<1> DEFINE p == assemblyRun.payload
           d == Assembly!UpdateHash(Assembly!ReadState(assemblyFile), p)
<1>1. p \in Assembly!Payloads /\ assemblyFile \in Assembly!States \cup {Absent, Torn} /\ clock \in Nat
  BY DEF AssemblyInv, Assembly!TypeOK
<1>2. assemblyFile \in Assembly!States => assemblyFile.hash # p
  <2>1. p.at = clock BY DEF AssemblyInv, AssemblyRunning
  <2>2. assemblyFile \in Assembly!States => assemblyFile.hash.at < clock BY DEF AssemblyInv, AssemblyRecorded
  <2>3. QED BY <1>1, <2>1, <2>2
<1>3. d.hash = p /\ ~d.ok["email"] BY <1>1, <1>2, AssemblyPending
<1>4. QED BY <1>3 DEF Assembly!Suppressed, Assembly!Pending, Assembly!Hash

LEMMA AssemblyStep == Assembly!MontagemAssumption /\ AssemblyInv /\ [Assembly!Next]_assemblyVars => AssemblyInv'
<1> SUFFICES ASSUME Assembly!MontagemAssumption, AssemblyInv, [Assembly!Next]_assemblyVars PROVE AssemblyInv'
  OBVIOUS
<1> DEFINE Pc == {"end", "validate", "retry", "email", "save", "commit"}
           R == [pc : Pc, attempt : 0..Attempts, data : BOOLEAN, rows : SUBSET Batches, payload : Assembly!Payloads]
           r == assemblyRun
<1>1. /\ rows \in SUBSET Batches /\ cache \in Assembly!Caches /\ assemblyTmp \in Assembly!Caches
      /\ assemblyFile \in {Absent, Torn} \cup Assembly!States /\ clock \in 0..Days /\ r \in R
      /\ assemblyTold \in SUBSET Batches /\ reminded \in Assembly!Never..Days /\ assemblyCut \in BOOLEAN
      /\ assemblyCrashes \in 0..AssemblyCrashes /\ assemblyChanges \in 0..AssemblyChanges
  BY DEF AssemblyInv, Assembly!TypeOK
<1>2. AssemblyRunning /\ AssemblyRecorded /\ AssemblyCached BY DEF AssemblyInv
<1>3. /\ Interval \in Nat \ {0} /\ Attempts \in Nat \ {0} /\ Days \in Nat /\ AssemblyCrashes \in Nat
      /\ AssemblyChanges \in Nat /\ {Absent, Torn} \cap Assembly!States = {}
  BY DEF Assembly!MontagemAssumption
<1>4. /\ Assembly!Idle \in R /\ Assembly!Idle.pc = "end" /\ Assembly!NoCache \in Assembly!Caches
      /\ Assembly!Idle = [pc |-> "end", attempt |-> 0, data |-> FALSE, rows |-> {}, payload |-> Assembly!NoPayload]
  <2>1. Assembly!NoPayload \in Assembly!Payloads
    BY <1>3 DEF Assembly!NoPayload, Assembly!Payloads, Assembly!Kinds, Assembly!Never
  <2>2. Assembly!NoCache \in Assembly!Caches BY <1>3 DEF Assembly!NoCache, Assembly!Caches, Assembly!Never
  <2>3. QED BY <1>3, <2>1, <2>2 DEF Assembly!Idle
<1>5. ASSUME rows' \in SUBSET Batches, cache' \in Assembly!Caches, assemblyTmp' \in Assembly!Caches,
             assemblyFile' \in {Absent, Torn} \cup Assembly!States, clock' \in 0..Days, assemblyRun' \in R,
             assemblyTold' \in SUBSET Batches, reminded' \in Assembly!Never..Days, assemblyCut' \in BOOLEAN,
             assemblyCrashes' \in 0..AssemblyCrashes, assemblyChanges' \in 0..AssemblyChanges
      PROVE  Assembly!TypeOK'
  BY <1>5 DEF Assembly!TypeOK
<1>6. ASSUME Assembly!TypeOK', AssemblyRunning', AssemblyRecorded', AssemblyCached' PROVE AssemblyInv'
  BY <1>6 DEF AssemblyInv

<1>7. CASE Assembly!Start
  <2>1. /\ r.pc = "end" /\ clock < Days /\ clock' = clock + 1
        /\ assemblyRun' = [Assembly!Idle EXCEPT !.pc = "validate", !.attempt = 1, !.data = TRUE, !.rows = rows]
        /\ UNCHANGED <<rows, cache, assemblyTmp, assemblyFile, assemblyTold, reminded, assemblyCut, assemblyCrashes, assemblyChanges>>
    BY <1>7 DEF Assembly!Start, Assembly!files, Assembly!history
  <2>2. clock' \in 0..Days /\ 1 \in 0..Attempts
    BY <1>1, <1>3, <2>1
  <2>3. assemblyRun' \in R
    BY <1>1, <1>4, <2>1, <2>2
  <2>4. assemblyRun'.pc = "validate"
    BY <1>4, <2>1
  <2>5. Assembly!TypeOK' BY <1>1, <1>3, <1>4, <1>5, <2>1, <2>2, <2>3, <2>4
  <2>6. AssemblyRunning' BY <1>1, <1>2, <1>4, <2>1, <2>2, <2>3, <2>4 DEF AssemblyRunning, Prepared
  <2>7. AssemblyRecorded' BY <1>1, <1>2, <1>3, <1>4, <2>1, <2>2, <2>3, <2>4 DEF AssemblyRecorded, Assembly!Payloads
  <2>8. AssemblyCached' BY <1>1, <1>2, <1>4, <2>1, <2>2, <2>3, <2>4 DEF AssemblyCached
  <2>9. QED BY <1>6, <2>5, <2>6, <2>7, <2>8
<1>8. CASE Assembly!Fails
  <2>1. /\ r.pc = "validate" /\ assemblyRun' = Assembly!Idle /\ assemblyTmp' = Assembly!NoCache
        /\ UNCHANGED <<rows, cache, assemblyFile, clock, assemblyTold, reminded, assemblyCut, assemblyCrashes, assemblyChanges>>
    BY <1>8 DEF Assembly!Fails, Assembly!files, Assembly!history
  <2>2. Assembly!TypeOK' BY <1>1, <1>3, <1>4, <1>5, <2>1
  <2>3. AssemblyRunning' BY <1>1, <1>2, <1>4, <2>1 DEF AssemblyRunning, Prepared
  <2>4. AssemblyRecorded' BY <1>1, <1>2, <1>3, <1>4, <2>1 DEF AssemblyRecorded, Assembly!Payloads
  <2>5. AssemblyCached' BY <1>1, <1>2, <1>4, <2>1 DEF AssemblyCached
  <2>6. QED BY <1>6, <2>2, <2>3, <2>4, <2>5
<1>9. CASE Assembly!Validate
  <2> DEFINE now == Assembly!Errors(r.rows)
             kind == Assembly!Kind(now)
             pay == [kind |-> kind, items |-> now, at |-> clock]
  <2>1. /\ r.pc = "validate"
        /\ UNCHANGED <<rows, cache, assemblyFile, clock, assemblyTold, reminded, assemblyCut, assemblyCrashes, assemblyChanges>>
    BY <1>9 DEF Assembly!Validate, Assembly!history
  <2>2. now \in SUBSET Batches BY <1>1 DEF Assembly!Errors
  <2>3. kind \in Assembly!Kinds /\ (kind = "LEMBRETE" => Assembly!ReminderDue) BY <2>2, AssemblyKinds
  <2>4. CASE kind = "NENHUMA"
    <3>1. assemblyRun' = Assembly!Idle /\ assemblyTmp' = Assembly!NoCache BY <1>9, <2>4 DEF Assembly!Validate
    <3>2. Assembly!TypeOK' BY <1>1, <1>3, <1>4, <1>5, <2>1, <3>1
    <3>3. AssemblyRunning' BY <1>4, <3>1 DEF AssemblyRunning
    <3>4. AssemblyRecorded' BY <1>2, <1>4, <2>1, <3>1 DEF AssemblyRecorded
    <3>5. AssemblyCached' BY <1>2, <1>4, <2>1, <3>1 DEF AssemblyCached
    <3>6. QED BY <1>6, <3>2, <3>3, <3>4, <3>5
  <2>5. CASE kind # "NENHUMA"
    <3> DEFINE t == [items |-> now, reminder |-> Assembly!ReminderAfter(kind), exists |-> TRUE]
               x == [r EXCEPT !.pc = "email", !.data = FALSE, !.payload = pay]
    <3>1. assemblyTmp' = t /\ assemblyRun' = x BY <1>9, <2>5 DEF Assembly!Validate
    <3>2. pay \in Assembly!Payloads BY <1>1, <2>2, <2>3 DEF Assembly!Payloads, Assembly!Never
    <3>3. Assembly!ReminderAfter(kind) = (IF kind = "LEMBRETE" THEN clock ELSE cache.reminder)
          /\ Assembly!ReminderAfter(kind) \in Assembly!Never..Days
      BY <1>1, <1>3 DEF Assembly!ReminderAfter, Assembly!Caches, Assembly!Never
    <3>4. t \in Assembly!Caches BY <2>2, <3>3 DEF Assembly!Caches
    <3> HIDE DEF now, kind
    <3>5. x \in R /\ x.pc = "email" /\ x.payload.kind = kind /\ x.payload.items = now /\ x.payload.at = clock
      BY <1>1, <3>2
    <3>6. Assembly!TypeOK' BY <1>1, <1>5, <2>1, <3>1, <3>4, <3>5
    <3> HIDE DEF x
    <3>7. AssemblyRunning' BY <2>1, <2>3, <2>5, <3>1, <3>3, <3>5 DEF AssemblyRunning, Prepared, Assembly!ReminderDue
    <3>8. AssemblyRecorded' BY <1>2, <2>1, <3>1, <3>5 DEF AssemblyRecorded
    <3>9. AssemblyCached' BY <1>2, <2>1, <3>1, <3>5 DEF AssemblyCached
    <3>10. QED BY <1>6, <3>6, <3>7, <3>8, <3>9
  <2>6. QED BY <2>4, <2>5
<1>10. CASE Assembly!ValidateFails
  <2>1. /\ r.pc = "validate" /\ assemblyRun' = [r EXCEPT !.pc = "retry", !.data = FALSE]
        /\ UNCHANGED <<rows, cache, assemblyTmp, assemblyFile, clock, assemblyTold, reminded, assemblyCut, assemblyCrashes, assemblyChanges>>
    BY <1>10 DEF Assembly!ValidateFails, Assembly!files, Assembly!history
  <2>2. assemblyRun' \in R /\ assemblyRun'.pc = "retry"
    BY <1>1, <1>3, <2>1
  <2>3. Assembly!TypeOK' BY <1>1, <1>3, <1>4, <1>5, <2>1, <2>2
  <2>4. AssemblyRunning' BY <1>1, <1>2, <1>4, <2>1, <2>2 DEF AssemblyRunning, Prepared
  <2>5. AssemblyRecorded' BY <1>1, <1>2, <1>3, <1>4, <2>1, <2>2 DEF AssemblyRecorded, Assembly!Payloads
  <2>6. AssemblyCached' BY <1>1, <1>2, <1>4, <2>1, <2>2 DEF AssemblyCached
  <2>7. QED BY <1>6, <2>3, <2>4, <2>5, <2>6
<1>11. CASE Assembly!ValidateLacksData
  <2>1. /\ r.pc = "validate" /\ assemblyRun' = [r EXCEPT !.pc = "retry"]
        /\ UNCHANGED <<rows, cache, assemblyTmp, assemblyFile, clock, assemblyTold, reminded, assemblyCut, assemblyCrashes, assemblyChanges>>
    BY <1>11 DEF Assembly!ValidateLacksData, Assembly!files, Assembly!history
  <2>2. assemblyRun' \in R /\ assemblyRun'.pc = "retry"
    BY <1>1, <1>3, <2>1
  <2>3. Assembly!TypeOK' BY <1>1, <1>3, <1>4, <1>5, <2>1, <2>2
  <2>4. AssemblyRunning' BY <1>1, <1>2, <1>4, <2>1, <2>2 DEF AssemblyRunning, Prepared
  <2>5. AssemblyRecorded' BY <1>1, <1>2, <1>3, <1>4, <2>1, <2>2 DEF AssemblyRecorded, Assembly!Payloads
  <2>6. AssemblyCached' BY <1>1, <1>2, <1>4, <2>1, <2>2 DEF AssemblyCached
  <2>7. QED BY <1>6, <2>3, <2>4, <2>5, <2>6
<1>12. CASE Assembly!Retry
  <2>1. /\ r.pc = "retry"
        /\ \/ r.attempt < Attempts /\ assemblyRun' = [r EXCEPT !.pc = "validate", !.attempt = r.attempt + 1]
              /\ assemblyTmp' = assemblyTmp
           \/ assemblyRun' = Assembly!Idle /\ assemblyTmp' = Assembly!NoCache
        /\ UNCHANGED <<rows, cache, assemblyFile, clock, assemblyTold, reminded, assemblyCut, assemblyCrashes, assemblyChanges>>
    BY <1>12 DEF Assembly!Retry, Assembly!history
  <2>2. assemblyRun' \in R /\ assemblyRun'.pc \in {"validate", "end"}
    <3>1. CASE assemblyRun' = Assembly!Idle BY <1>4, <3>1
    <3>2. CASE assemblyRun' # Assembly!Idle
      <4>1. r.attempt + 1 \in 0..Attempts BY <1>1, <1>3, <2>1, <3>2
      <4>2. QED BY <1>1, <2>1, <3>2, <4>1
    <3>3. QED BY <3>1, <3>2
  <2>3. assemblyTmp' \in Assembly!Caches BY <1>1, <1>4, <2>1
  <2>4. Assembly!TypeOK' BY <1>1, <1>5, <2>1, <2>2, <2>3
  <2>5. AssemblyRunning' BY <2>2 DEF AssemblyRunning
  <2>6. AssemblyRecorded' BY <1>2, <2>1, <2>2 DEF AssemblyRecorded
  <2>7. AssemblyCached' BY <1>2, <2>1, <2>2 DEF AssemblyCached
  <2>8. QED BY <1>6, <2>4, <2>5, <2>6, <2>7
<1>13. CASE Assembly!SendEmail
  <2>1. /\ r.pc = "email" /\ assemblyRun' = [r EXCEPT !.pc = IF Assembly!Suppressed THEN "commit" ELSE "save"]
        /\ assemblyTold' = IF Assembly!Suppressed THEN assemblyTold ELSE r.payload.items
        /\ UNCHANGED <<rows, cache, assemblyTmp, assemblyFile, clock, reminded, assemblyCut, assemblyCrashes, assemblyChanges>>
    BY <1>13 DEF Assembly!SendEmail, Assembly!files, Assembly!history
  <2>2. ~Assembly!Suppressed
    BY <1>1, <2>1, AssemblyUnsent DEF AssemblyInv
  <2>3. assemblyRun' = [r EXCEPT !.pc = "save"] /\ assemblyTold' = r.payload.items
    BY <2>1, <2>2
  <2>4. assemblyRun' \in R /\ assemblyRun'.pc = "save" /\ assemblyRun'.payload = r.payload /\ r.payload.items \in SUBSET Batches
    BY <1>1, <2>3 DEF Assembly!Payloads
  <2>5. Assembly!TypeOK' BY <1>1, <1>3, <1>4, <1>5, <2>1, <2>2, <2>3, <2>4
  <2>6. AssemblyRunning' BY <1>1, <1>2, <1>4, <2>1, <2>2, <2>3, <2>4 DEF AssemblyRunning, Prepared
  <2>7. AssemblyRecorded' BY <1>1, <1>2, <1>3, <1>4, <2>1, <2>2, <2>3, <2>4 DEF AssemblyRecorded, Assembly!Payloads
  <2>8. AssemblyCached' BY <1>1, <1>2, <1>4, <2>1, <2>2, <2>3, <2>4 DEF AssemblyCached
  <2>9. QED BY <1>6, <2>5, <2>6, <2>7, <2>8
<1>14. CASE Assembly!EmailFails
  <2>1. /\ r.pc = "email" /\ assemblyRun' = Assembly!Idle /\ assemblyTmp' = Assembly!NoCache
        /\ UNCHANGED <<rows, cache, assemblyFile, clock, assemblyTold, reminded, assemblyCut, assemblyCrashes, assemblyChanges>>
    BY <1>14 DEF Assembly!EmailFails, Assembly!files, Assembly!history
  <2>2. Assembly!TypeOK' BY <1>1, <1>3, <1>4, <1>5, <2>1
  <2>3. AssemblyRunning' BY <1>1, <1>2, <1>4, <2>1 DEF AssemblyRunning, Prepared
  <2>4. AssemblyRecorded' BY <1>1, <1>2, <1>3, <1>4, <2>1 DEF AssemblyRecorded, Assembly!Payloads
  <2>5. AssemblyCached' BY <1>1, <1>2, <1>4, <2>1 DEF AssemblyCached
  <2>6. QED BY <1>6, <2>2, <2>3, <2>4, <2>5
<1>15. CASE Assembly!Save
  <2>1. /\ r.pc = "save" /\ assemblyRun' = [r EXCEPT !.pc = "commit"]
        /\ assemblyFile' = Assembly!Delivered(Assembly!UpdateHash(Assembly!ReadState(assemblyFile), r.payload), "email")
        /\ UNCHANGED <<rows, cache, assemblyTmp, clock, assemblyTold, reminded, assemblyCut, assemblyCrashes, assemblyChanges>>
    BY <1>15 DEF Assembly!Save, Assembly!Hash, Assembly!files, Assembly!history
  <2>2. r.payload \in Assembly!Payloads /\ r.payload.at = clock
    BY <1>1, <1>2, <2>1 DEF AssemblyRunning
  <2>3. assemblyFile' \in Assembly!States /\ assemblyFile'.hash = r.payload
    BY <1>1, <2>1, <2>2, AssemblySaved
  <2>4. assemblyRun' \in R /\ assemblyRun'.pc = "commit" /\ assemblyRun'.payload = r.payload
    BY <1>1, <2>1
  <2>5. Assembly!TypeOK' BY <1>1, <1>3, <1>4, <1>5, <2>1, <2>2, <2>3, <2>4
  <2>6. AssemblyRunning' BY <1>1, <1>2, <1>4, <2>1, <2>2, <2>3, <2>4 DEF AssemblyRunning, Prepared
  <2>7. AssemblyRecorded' BY <1>1, <1>2, <1>3, <1>4, <2>1, <2>2, <2>3, <2>4 DEF AssemblyRecorded, Assembly!Payloads
  <2>8. AssemblyCached' BY <1>1, <1>2, <1>4, <2>1, <2>2, <2>3, <2>4 DEF AssemblyCached
  <2>9. QED BY <1>6, <2>5, <2>6, <2>7, <2>8
<1>16. CASE Assembly!Commit
  <2>1. /\ r.pc = "commit" /\ assemblyTmp' = Assembly!NoCache /\ assemblyCut' = FALSE /\ assemblyRun' = Assembly!Idle
        /\ cache' = (IF assemblyTmp.exists THEN assemblyTmp ELSE cache)
        /\ reminded' = (IF r.payload.kind = "LEMBRETE" THEN r.payload.at ELSE reminded)
        /\ UNCHANGED <<rows, assemblyFile, clock, assemblyTold, assemblyCrashes, assemblyChanges>>
    BY <1>16 DEF Assembly!Commit
  <2>2. assemblyTmp = Prepared /\ r.payload.at = clock /\ assemblyTold = r.payload.items /\ cache.reminder = reminded
    BY <1>2, <2>1 DEF AssemblyRunning, AssemblyCached
  <2>3. /\ assemblyTmp.exists /\ assemblyTmp.items = r.payload.items
        /\ assemblyTmp.reminder = (IF r.payload.kind = "LEMBRETE" THEN r.payload.at ELSE cache.reminder)
    BY <2>2 DEF Prepared
  <2>4. cache' = assemblyTmp BY <2>1, <2>3
  <2>5. reminded' \in Assembly!Never..Days BY <1>1, <1>3, <2>1, <2>2 DEF Assembly!Never
  <2>6. Assembly!TypeOK' BY <1>1, <1>4, <1>5, <2>1, <2>4, <2>5
  <2>7. AssemblyRunning' BY <1>4, <2>1 DEF AssemblyRunning
  <2>8. AssemblyRecorded' BY <1>2, <1>4, <2>1 DEF AssemblyRecorded
  <2>9. AssemblyCached' BY <1>4, <2>1, <2>2, <2>3, <2>4 DEF AssemblyCached
  <2>10. QED BY <1>6, <2>6, <2>7, <2>8, <2>9
<1>17. CASE Assembly!Crash
  <2>1. /\ assemblyCrashes < AssemblyCrashes /\ assemblyCrashes' = assemblyCrashes + 1 /\ assemblyRun' = Assembly!Idle
        /\ assemblyCut' = (assemblyCut \/ r.pc \in {"save", "commit"})
        /\ assemblyFile' = assemblyFile \/ assemblyFile' = Torn
        /\ UNCHANGED <<rows, cache, assemblyTmp, clock, assemblyTold, reminded, assemblyChanges>>
    BY <1>17 DEF Assembly!Crash, Assembly!files, Assembly!history
  <2>2. assemblyCrashes' \in 0..AssemblyCrashes
    BY <1>1, <1>3, <2>1
  <2>3. Assembly!TypeOK' BY <1>1, <1>3, <1>4, <1>5, <2>1, <2>2
  <2>4. AssemblyRunning' BY <1>1, <1>2, <1>4, <2>1, <2>2 DEF AssemblyRunning, Prepared
  <2>5. AssemblyRecorded' BY <1>1, <1>2, <1>3, <1>4, <2>1, <2>2 DEF AssemblyRecorded, Assembly!Payloads
  <2>6. AssemblyCached' BY <1>1, <1>2, <1>4, <2>1, <2>2 DEF AssemblyCached
  <2>7. QED BY <1>6, <2>3, <2>4, <2>5, <2>6
<1>18. CASE Assembly!Change
  <2>1. /\ assemblyChanges < AssemblyChanges /\ assemblyChanges' = assemblyChanges + 1 /\ rows' \in SUBSET Batches /\ assemblyRun' = r
        /\ UNCHANGED <<cache, assemblyTmp, assemblyFile, clock, assemblyTold, reminded, assemblyCut, assemblyCrashes>>
    BY <1>18 DEF Assembly!Change, Assembly!files, Assembly!history
  <2>2. assemblyChanges' \in 0..AssemblyChanges
    BY <1>1, <1>3, <2>1
  <2>3. Assembly!TypeOK' BY <1>1, <1>3, <1>4, <1>5, <2>1, <2>2
  <2>4. AssemblyRunning' BY <1>1, <1>2, <1>4, <2>1, <2>2 DEF AssemblyRunning, Prepared
  <2>5. AssemblyRecorded' BY <1>1, <1>2, <1>3, <1>4, <2>1, <2>2 DEF AssemblyRecorded, Assembly!Payloads
  <2>6. AssemblyCached' BY <1>1, <1>2, <1>4, <2>1, <2>2 DEF AssemblyCached
  <2>7. QED BY <1>6, <2>3, <2>4, <2>5, <2>6
<1>19. CASE UNCHANGED assemblyVars
  <2>1. UNCHANGED <<assemblyRun, rows, cache, assemblyTmp, assemblyFile, clock, assemblyTold, reminded, assemblyCut, assemblyCrashes, assemblyChanges>> BY <1>19 DEF assemblyVars
  <2>2. Assembly!TypeOK' BY <1>1, <1>5, <2>1
  <2>3. AssemblyRunning' /\ AssemblyRecorded' /\ AssemblyCached'
    BY <1>2, <2>1 DEF AssemblyRunning, AssemblyRecorded, AssemblyCached, Prepared
  <2>4. QED BY <1>6, <2>2, <2>3
<1>20. QED
  BY <1>7, <1>8, <1>9, <1>10, <1>11, <1>12, <1>13, <1>14, <1>15, <1>16, <1>17, <1>18, <1>19
  DEF Assembly!Next, Assembly!Step

\* A commit is of this run's errors, and the reminders keep their distance.
LEMMA AssemblyCommits ==
  ASSUME Assembly!MontagemAssumption, AssemblyInv, [Assembly!Next]_assemblyVars
  PROVE  /\ cache' # cache => cache'.items = assemblyRun.payload.items
         /\ reminded' # reminded => reminded = Assembly!Never \/ reminded' - reminded >= Interval
<1>1. CASE Assembly!Commit
  <2>1. /\ cache' = (IF assemblyTmp.exists THEN assemblyTmp ELSE cache) /\ assemblyRun.pc = "commit"
        /\ reminded' = (IF assemblyRun.payload.kind = "LEMBRETE" THEN assemblyRun.payload.at ELSE reminded)
    BY <1>1 DEF Assembly!Commit
  <2>2. /\ assemblyTmp = Prepared /\ assemblyRun.payload.at = clock /\ cache.reminder = reminded
        /\ assemblyRun.payload.kind = "LEMBRETE" =>
             cache.reminder = Assembly!Never \/ clock - cache.reminder >= Interval
    BY <2>1 DEF AssemblyInv, AssemblyRunning, AssemblyCached
  <2>3. QED BY <2>1, <2>2 DEF Prepared
<1>2. CASE ~Assembly!Commit
  <2>1. UNCHANGED <<cache, reminded>>
    BY <1>2 DEF Assembly!Next, Assembly!Step, Assembly!Start, Assembly!Fails, Assembly!Validate, Assembly!ValidateFails,
       Assembly!ValidateLacksData, Assembly!Retry, Assembly!SendEmail, Assembly!EmailFails, Assembly!Save, Assembly!Crash,
       Assembly!Change, Assembly!files, Assembly!history, assemblyVars
  <2>2. QED BY <2>1
<1>3. QED BY <1>1, <1>2

\* No notice is due only if the readers know the errors.
LEMMA AssemblyPasses ==
  ASSUME AssemblyInv PROVE Assembly!NothingPassedOver /\ Assembly!CacheWasTold
<1>1. assemblyRun.rows \in SUBSET Batches BY DEF AssemblyInv, Assembly!TypeOK
<1>2. Assembly!Errors(assemblyRun.rows) \in SUBSET Batches BY <1>1 DEF Assembly!Errors
<1>3. Assembly!Kind(Assembly!Errors(assemblyRun.rows)) = "NENHUMA" => Assembly!Errors(assemblyRun.rows) = cache.items
  BY <1>2, AssemblyKinds DEF AssemblyInv, AssemblyCached
<1>4. QED BY <1>3 DEF AssemblyInv, AssemblyCached, Assembly!NothingPassedOver, Assembly!CacheWasTold

-----------------------------------------------------------------------------
(* ObsParadasFase: a card per phase, sent in a batch, recorded one by one.    *)

\* The cards of a lot, and the phases they are of.
CardsOf(i) == Phases!Cards(Lots[i], Configs[1])
KeysOf(i) == Phases!Keys(CardsOf(i))

PhasesMemory == [hash : 0..Len(Lots), ok : SUBSET Phases!AllKeys, ko : SUBSET Phases!AllKeys]
PhasesProcess ==
  [pc : {"idle", "extract", "cards", "idempotency", "batch", "drain", "parse", "end"},
   cards : {<<>>} \cup {CardsOf(i) : i \in 1..Len(Lots)}, mem : PhasesMemory, queue : SUBSET Nat,
   ok : SUBSET Phases!AllKeys, ko : SUBSET Phases!AllKeys, row : 0..2, attempt : 1..PhaseTries,
   code : {0, 4, 21, 24}]

PhasesResult == [ok : SUBSET Phases!AllKeys, ko : SUBSET Phases!AllKeys]
PhasesHistory ==
  [lot : 0..Len(Lots), keys : SUBSET Phases!AllKeys, lost : SUBSET Phases!AllKeys, taken : BOOLEAN]

PhasesTypes ==
  /\ lot \in 1..Len(Lots) /\ cfg = 1 /\ phasesState \in 0..Len(Lots) /\ phasesTmp \in 0..Len(Lots)
  /\ phasesFile \in PhasesMemory /\ phasesRun \in PhasesProcess
  /\ phasesTold \in PhasesHistory /\ batch \in PhasesResult \cup {Absent}

\* What is recorded is of cards of its lot, and was sent, but for the results of another batch.
PhasesRecorded ==
  /\ phasesFile.hash = 0 => phasesFile.ok = {} /\ phasesFile.ko = {}
  /\ phasesFile.hash # 0 => phasesFile.ok \subseteq KeysOf(phasesFile.hash)
  /\ ~phasesTold.taken => \A p \in phasesFile.ok : <<phasesFile.hash, p>> \in phasesSent

\* A run that goes on works on the provisional lot and its cards.
PhasesRunning ==
  LET r == phasesRun
  IN  /\ r.pc \in {"cards", "idempotency", "batch", "drain", "parse"} =>
           phasesTmp # 0 /\ phasesTold.lot = phasesTmp
      /\ r.pc \in {"idempotency", "batch", "drain", "parse"} => r.cards = CardsOf(phasesTmp)
      /\ r.pc \in {"idle", "extract", "cards", "idempotency"} => r.ok = {} /\ r.ko = {}
      /\ r.pc \in {"idle", "extract", "cards", "idempotency", "batch"} => r.code = 0
      /\ r.pc = "drain" => r.code \in {0, 4}

\* Of a batch that goes on, or ends with its results, every pending card is queued, sent or
\* failed, and one of the three; of another one, what was sent is given up as lost.
PhasesBatch ==
  LET r == phasesRun
  IN  r.pc \in {"batch", "drain", "parse"} =>
        /\ r.mem = Phases!Loaded
        /\ r.code \in {0, 4} =>
             /\ r.queue \subseteq Phases!Pending(r.mem)
             /\ r.ok \cup r.ko \cup Phases!KeysAt(r.queue) = Phases!KeysAt(Phases!Pending(r.mem))
             /\ r.ok \cap r.ko = {} /\ Phases!KeysAt(r.queue) \cap (r.ok \cup r.ko) = {}
             /\ \A p \in r.ok : <<phasesTmp, p>> \in phasesSent
             /\ r.pc # "batch" => r.queue = {} /\ batch = [ok |-> r.ok, ko |-> r.ko]

\* Whoever was shown a phase is on record, or in the batch that is under way, or lost.
PhasesTold ==
  \A p \in phasesTold.keys :
    \/ p \in phasesTold.lost
    \/ phasesFile.hash = phasesTold.lot /\ p \in phasesFile.ok \cup phasesFile.ko
    \/ /\ phasesRun.pc \in {"batch", "drain", "parse"} /\ phasesRun.code \in {0, 4}
       /\ p \in phasesRun.ok \cup phasesRun.ko

PhasesInv == PhasesTypes /\ PhasesRecorded /\ PhasesRunning /\ PhasesBatch /\ PhasesTold

\* The cards of a lot are as many as their phases.
LEMMA CardsCount ==
  ASSUME Phases!PhaseAssumption, NEW i \in 1..Len(Lots)
  PROVE  /\ Len(CardsOf(i)) \in Nat /\ DOMAIN CardsOf(i) = 1..Len(CardsOf(i))
         /\ \A a, b \in DOMAIN CardsOf(i) : CardsOf(i)[a].key = CardsOf(i)[b].key => a = b
         /\ KeysOf(i) = {CardsOf(i)[a].key : a \in DOMAIN CardsOf(i)}
         /\ IsFiniteSet(KeysOf(i)) /\ Cardinality(KeysOf(i)) = Len(CardsOf(i)) /\ KeysOf(i) \subseteq Phases!AllKeys
<1> DEFINE cards == CardsOf(i)
           n == Len(cards)
           f == [a \in 1..n |-> cards[a].key]
<1>1. 1 \in 1..Len(Configs) BY DEF Phases!PhaseAssumption
<1>2. n \in Nat /\ DOMAIN cards = 1..n /\ \A a, b \in DOMAIN cards : cards[a].key = cards[b].key => a = b
  BY <1>1 DEF Phases!PhaseAssumption, Phases!CardPerPhase, CardsOf
<1>3. KeysOf(i) = {cards[a].key : a \in DOMAIN cards} BY DEF KeysOf, Phases!Keys, Phases!Range
<1>4. KeysOf(i) \subseteq Phases!AllKeys
  BY <1>1 DEF KeysOf, CardsOf, Phases!PhaseAssumption, Phases!CardPerPhase
<1> HIDE DEF cards, n
<1>5. f \in Surjection(1..n, KeysOf(i)) BY <1>2, <1>3 DEF Surjection
<1>6. f \in Injection(1..n, KeysOf(i)) BY <1>2, <1>3 DEF Injection, IsInjective
<1>7. IsFiniteSet(1..n) /\ Cardinality(1..n) = n BY <1>2, FS_Interval
<1>8. IsFiniteSet(KeysOf(i)) /\ Cardinality(KeysOf(i)) = n BY <1>5, <1>6, <1>7, FS_Surjection
<1>9. QED BY <1>2, <1>3, <1>4, <1>8 DEF cards, n


LEMMA PhasesStarts == Phases!PhaseAssumption /\ Phases!Init => PhasesInv
<1> SUFFICES ASSUME Phases!PhaseAssumption, Phases!Init PROVE PhasesInv OBVIOUS
<1>1. /\ lot \in 1..Len(Lots) /\ cfg = 1 /\ phasesState = 0 /\ phasesTmp = 0
      /\ phasesFile = [hash |-> 0, ok |-> {}, ko |-> {}] /\ phasesRun = Phases!Idle
      /\ phasesTold = [lot |-> 0, keys |-> {}, lost |-> {}, taken |-> FALSE] /\ batch = Absent
  BY DEF Phases!Init, Phases!NoDelivery
<1>2. 0 \in 0..Len(Lots) /\ 1 \in 1..PhaseTries BY DEF Phases!PhaseAssumption
<1>3. phasesFile \in PhasesMemory /\ phasesTold \in PhasesHistory
  BY <1>1, <1>2 DEF PhasesMemory, PhasesHistory
<1>4. phasesRun \in PhasesProcess
  BY <1>1, <1>2 DEF Phases!Idle, Phases!NoDelivery, PhasesProcess, PhasesMemory
<1>5. PhasesTypes BY <1>1, <1>2, <1>3, <1>4 DEF PhasesTypes
<1>6. PhasesRecorded /\ PhasesTold BY <1>1 DEF PhasesRecorded, PhasesTold
<1>7. PhasesRunning /\ PhasesBatch BY <1>1 DEF PhasesRunning, PhasesBatch, Phases!Idle
<1>8. QED BY <1>5, <1>6, <1>7 DEF PhasesInv

\* The delivery state of the provisional lot: of its cards, and what it records was sent.
LEMMA PhasesLoaded ==
  ASSUME Phases!PhaseAssumption, PhasesInv, phasesTmp # 0
  PROVE  /\ Phases!Loaded \in PhasesMemory /\ Phases!Loaded.hash = phasesTmp
         /\ Phases!Loaded.ok \subseteq KeysOf(phasesTmp)
         /\ ~(phasesTold.taken /\ phasesFile.hash = phasesTmp) =>
              \A p \in Phases!Loaded.ok : <<phasesTmp, p>> \in phasesSent
         /\ phasesFile.hash = phasesTmp => Phases!Loaded = phasesFile
<1>1. phasesFile \in PhasesMemory /\ phasesTmp \in 0..Len(Lots) /\ PhasesRecorded
  BY DEF PhasesInv, PhasesTypes
<1>2. CASE phasesFile.hash = phasesTmp BY <1>1, <1>2 DEF Phases!Loaded, PhasesRecorded
<1>3. CASE phasesFile.hash # phasesTmp
  <2>1. Phases!Loaded = [hash |-> phasesTmp, ok |-> {}, ko |-> {}] BY <1>3 DEF Phases!Loaded, Phases!NoDelivery
  <2>2. QED BY <1>1, <1>3, <2>1 DEF PhasesMemory
<1>4. QED BY <1>2, <1>3

\* The keys of the pending cards, and of any of them.
LEMMA PhasesKeys ==
  ASSUME Phases!PhaseAssumption, PhasesInv, phasesRun.cards = CardsOf(phasesTmp), phasesTmp # 0,
         NEW m, NEW Q, Q \subseteq Phases!Pending(m)
  PROVE  /\ Phases!KeysAt(Q) \subseteq KeysOf(phasesTmp) /\ Phases!KeysAt(Q) \cap m.ok = {}
         /\ Phases!KeysAt(Q) \subseteq Phases!AllKeys
         /\ Phases!KeysAt(Phases!Pending(m)) = KeysOf(phasesTmp) \ m.ok
         /\ \A i \in Q : /\ i \in DOMAIN phasesRun.cards /\ i \in Nat
                         /\ phasesRun.cards[i].key \notin Phases!KeysAt(Q \ {i})
                         /\ Phases!KeysAt(Q) = Phases!KeysAt(Q \ {i}) \cup {phasesRun.cards[i].key}
<1>1. phasesTmp \in 1..Len(Lots) BY DEF PhasesInv, PhasesTypes, Phases!PhaseAssumption
<1> DEFINE cards == CardsOf(phasesTmp)
<1>2. /\ DOMAIN cards = 1..Len(cards) /\ Len(cards) \in Nat
      /\ \A a, b \in DOMAIN cards : cards[a].key = cards[b].key => a = b
      /\ KeysOf(phasesTmp) = {cards[a].key : a \in DOMAIN cards} /\ KeysOf(phasesTmp) \subseteq Phases!AllKeys
  BY <1>1, CardsCount
<1> HIDE DEF cards
<1>3. phasesRun.cards = cards BY DEF cards
<1>4. /\ Phases!Pending(m) = {i \in DOMAIN cards : cards[i].key \notin m.ok}
      /\ \A S : Phases!KeysAt(S) = {cards[i].key : i \in S}
  BY <1>3 DEF Phases!Pending, Phases!KeysAt
<1>5. Q \subseteq DOMAIN cards BY <1>4
<1>6. Phases!KeysAt(Q) \subseteq KeysOf(phasesTmp) /\ Phases!KeysAt(Q) \cap m.ok = {} BY <1>2, <1>4
<1>7. Phases!KeysAt(Phases!Pending(m)) = KeysOf(phasesTmp) \ m.ok BY <1>2, <1>4
<1>8. ASSUME NEW i \in Q
      PROVE  /\ cards[i].key \notin Phases!KeysAt(Q \ {i}) /\ i \in Nat
             /\ Phases!KeysAt(Q) = Phases!KeysAt(Q \ {i}) \cup {cards[i].key}
  <2>1. i \in DOMAIN cards /\ \A j \in Q \ {i} : cards[j].key # cards[i].key BY <1>2, <1>5
  <2>2. QED BY <1>2, <1>4, <2>1
<1>9. QED BY <1>2, <1>3, <1>5, <1>6, <1>7, <1>8


\* What a run makes of the results, if it goes on to them: its own tell every card of the
\* batch as delivered or failed; those that another process left are taken for its own.
LEMMA PhasesParsed ==
  ASSUME Phases!PhaseAssumption, PhasesInv, Phases!Parse, phasesRun.code # 21
  PROVE  /\ phasesFile' \in PhasesMemory /\ phasesFile'.hash = phasesTmp /\ batch' = Absent
         /\ phasesFile'.ok \subseteq KeysOf(phasesTmp)
         /\ phasesRun.mem.ok \cup phasesRun.mem.ko \subseteq phasesFile'.ok \cup phasesFile'.ko
         /\ phasesRun.code \in {0, 4} =>
              /\ phasesFile'.ok = phasesRun.mem.ok \cup phasesRun.ok
              /\ phasesRun.ok \cup phasesRun.ko \subseteq phasesFile'.ok \cup phasesFile'.ko
         /\ batch = Absent => phasesFile'.ok = phasesRun.mem.ok
         /\ phasesState' # phasesState => phasesState' = phasesTmp /\ KeysOf(phasesTmp) \subseteq phasesFile'.ok
<1> DEFINE r == phasesRun
           mem == r.mem
           none0 == [ok |-> {}, ko |-> {}]
           res == IF batch = Absent THEN none0 ELSE batch
           good == res.ok
           PK == Phases!KeysAt(Phases!Pending(mem))
           new == [mem EXCEPT !.ok = (mem.ok \cup (PK \cap good)) \ (PK \ good),
                              !.ko = (mem.ko \cup (PK \ good)) \ (PK \cap good)]
<1>1. r \in PhasesProcess /\ r.pc = "parse" /\ batch \in PhasesResult \cup {Absent}
  BY DEF PhasesInv, PhasesTypes, Phases!Parse
<1>2. mem = Phases!Loaded /\ phasesTmp # 0 /\ r.cards = CardsOf(phasesTmp)
  BY <1>1 DEF PhasesInv, PhasesBatch, PhasesRunning
<1>3. PK = KeysOf(phasesTmp) \ mem.ok BY <1>2, PhasesKeys
<1>4. mem \in PhasesMemory /\ mem.hash = phasesTmp /\ mem.ok \subseteq KeysOf(phasesTmp) BY <1>2, PhasesLoaded
<1>5. KeysOf(phasesTmp) \subseteq Phases!AllKeys
  <2>1. phasesTmp \in 1..Len(Lots) BY <1>2 DEF PhasesInv, PhasesTypes, Phases!PhaseAssumption
  <2>2. QED BY <2>1, CardsCount
<1>6. good \in SUBSET Phases!AllKeys BY <1>1 DEF PhasesResult
<1>7. /\ phasesFile' = Phases!Recorded(res) /\ batch' = Absent
      /\ IF Phases!Commits(Phases!Recorded(res)) THEN phasesState' = phasesTmp ELSE phasesState' = phasesState
  BY DEF Phases!Parse
<1>8. Phases!Recorded(res) = new BY DEF Phases!Recorded
<1>9. batch = Absent => good = {} OBVIOUS
<1>10. r.code \in {0, 4} => good = r.ok /\ r.ok \cup r.ko = PK /\ r.ok \cap r.ko = {}
  <2> SUFFICES ASSUME r.code \in {0, 4} PROVE good = r.ok /\ r.ok \cup r.ko = PK /\ r.ok \cap r.ko = {} OBVIOUS
  <2>1. /\ r.queue = {} /\ batch = [ok |-> r.ok, ko |-> r.ko] /\ r.ok \cap r.ko = {}
        /\ r.ok \cup r.ko \cup Phases!KeysAt(r.queue) = PK
    BY <1>1 DEF PhasesInv, PhasesBatch
  <2>2. r.ok \cup r.ko = PK BY <2>1 DEF Phases!KeysAt
  <2>3. batch # Absent
    <3>1. [ok |-> r.ok, ko |-> r.ko] \in PhasesResult BY <1>1 DEF PhasesProcess, PhasesResult
    <3>2. QED BY <2>1, <3>1 DEF Phases!PhaseAssumption, PhasesResult
  <2>4. QED BY <2>1, <2>2, <2>3
<1> HIDE DEF PK, res, good
<1>11. PK \in SUBSET Phases!AllKeys /\ mem.ok \in SUBSET Phases!AllKeys /\ mem.ko \in SUBSET Phases!AllKeys
  BY <1>3, <1>4, <1>5 DEF PhasesMemory
<1>12. /\ new \in PhasesMemory /\ new.hash = phasesTmp
       /\ new.ok = (mem.ok \cup (PK \cap good)) \ (PK \ good) /\ new.ko = (mem.ko \cup (PK \ good)) \ (PK \cap good)
  BY <1>4, <1>6, <1>11 DEF PhasesMemory
<1> HIDE DEF new
<1>13. new.ok = mem.ok \cup (PK \cap good) /\ mem.ok \cup mem.ko \subseteq new.ok \cup new.ko BY <1>3, <1>12
<1>14. new.ok \subseteq KeysOf(phasesTmp) BY <1>3, <1>4, <1>13
<1>15. r.code \in {0, 4} => new.ok = mem.ok \cup r.ok /\ r.ok \cup r.ko \subseteq new.ok \cup new.ko
  BY <1>10, <1>12, <1>13
<1>16. batch = Absent => new.ok = mem.ok BY <1>9, <1>13
<1>17. new.ko = {} => KeysOf(phasesTmp) \subseteq new.ok BY <1>3, <1>12, <1>13
<1>18. QED BY <1>7, <1>8, <1>12, <1>13, <1>14, <1>15, <1>16, <1>17 DEF Phases!Commits

\* Where the cards of a batch are given up, whoever was shown one is on record or lost.
LEMMA PhasesLosing ==
  ASSUME Phases!PhaseAssumption, PhasesInv, phasesRun.pc \in {"batch", "drain", "parse"}, Phases!Loses
  PROVE  /\ phasesTold' \in PhasesHistory /\ phasesTold'.lot = phasesTold.lot
         /\ phasesTold'.keys = phasesTold.keys /\ (phasesTold'.taken <=> phasesTold.taken)
         /\ \A p \in phasesTold.keys : \/ p \in phasesTold'.lost
                                       \/ phasesFile.hash = phasesTold.lot /\ p \in phasesFile.ok \cup phasesFile.ko
<1> DEFINE r == phasesRun
           PK == Phases!KeysAt(Phases!Pending(r.mem))
           gone == phasesTold.lost \cup (PK \cap phasesTold.keys)
<1>1. phasesTold \in PhasesHistory /\ phasesTold' = [phasesTold EXCEPT !.lost = gone]
  BY DEF PhasesInv, PhasesTypes, Phases!Loses
<1>2. gone \in SUBSET Phases!AllKeys /\ phasesTold.lost \subseteq gone /\ PK \cap phasesTold.keys \subseteq gone
  BY <1>1 DEF PhasesHistory
<1>3. r.code \in {0, 4} => r.ok \cup r.ko \subseteq PK BY DEF PhasesInv, PhasesBatch
<1> HIDE DEF PK, gone
<1>4. /\ phasesTold' \in PhasesHistory /\ phasesTold'.lot = phasesTold.lot /\ phasesTold'.lost = gone
      /\ phasesTold'.keys = phasesTold.keys
  BY <1>1, <1>2 DEF PhasesHistory
<1>5. phasesTold'.taken <=> phasesTold.taken BY <1>1 DEF PhasesHistory
<1>6. ASSUME NEW p \in phasesTold.keys
      PROVE  p \in gone \/ (phasesFile.hash = phasesTold.lot /\ p \in phasesFile.ok \cup phasesFile.ko)
  BY <1>2, <1>3, <1>6 DEF PhasesInv, PhasesTold
<1>7. QED BY <1>4, <1>5, <1>6

LEMMA PhasesStep == Phases!PhaseAssumption /\ PhasesInv /\ [Phases!Next]_phasesVars => PhasesInv'
<1> SUFFICES ASSUME Phases!PhaseAssumption, PhasesInv, [Phases!Next]_phasesVars PROVE PhasesInv'
  OBVIOUS
<1> DEFINE r == phasesRun
           Keys == SUBSET Phases!AllKeys
           Batching == {"batch", "drain", "parse"}
<1>1. /\ lot \in 1..Len(Lots) /\ cfg = 1 /\ phasesState \in 0..Len(Lots) /\ phasesTmp \in 0..Len(Lots)
      /\ phasesFile \in PhasesMemory /\ r \in PhasesProcess
      /\ phasesTold \in PhasesHistory /\ batch \in PhasesResult \cup {Absent}
  BY DEF PhasesInv, PhasesTypes
<1>2. PhasesRecorded /\ PhasesRunning /\ PhasesBatch /\ PhasesTold BY DEF PhasesInv
<1>3. Len(Lots) \in Nat \ {0} /\ PhaseTries \in Nat \ {0} /\ 1 \in 1..PhaseTries /\ 0 \in 0..Len(Lots)
  BY DEF Phases!PhaseAssumption
<1>4. Phases!Idle \in PhasesProcess /\ Phases!Idle.pc = "idle" /\ Phases!Idle.ok = {} /\ Phases!Idle.ko = {}
      /\ Phases!Idle.code = 0
  BY <1>3 DEF Phases!Idle, Phases!NoDelivery, PhasesProcess, PhasesMemory
<1>5. ASSUME PhasesTypes', PhasesRecorded', PhasesRunning', PhasesBatch', PhasesTold' PROVE PhasesInv'
  BY <1>5 DEF PhasesInv
<1>6. ASSUME UNCHANGED <<phasesFile, phasesSent>>, phasesTold'.taken <=> phasesTold.taken PROVE PhasesRecorded'
  BY <1>2, <1>6 DEF PhasesRecorded
<1>7. ASSUME UNCHANGED <<phasesFile, phasesTold>>, r.pc \notin Batching PROVE PhasesTold'
  BY <1>2, <1>7 DEF PhasesTold
<1>8. ASSUME phasesRun'.pc \notin Batching PROVE PhasesBatch' BY <1>8 DEF PhasesBatch
<1>9. CASE Phases!Start
  <2>1. /\ r.pc = "idle" /\ phasesRun' = [r EXCEPT !.pc = "extract"]
        /\ UNCHANGED <<lot, cfg, phasesState, phasesTmp, phasesFile, batch, phasesSent, phasesTold, phasesLeft>>
    BY <1>9 DEF Phases!Start, Phases!Goto, Phases!files, Phases!history
  <2>2. /\ phasesRun' \in PhasesProcess /\ phasesRun'.pc = "extract" /\ phasesRun'.ok = r.ok /\ phasesRun'.ko = r.ko
        /\ phasesRun'.code = r.code
    BY <1>1, <2>1 DEF PhasesProcess
  <2>3. PhasesTypes' BY <1>1, <2>1, <2>2 DEF PhasesTypes
  <2>4. PhasesRunning' BY <1>2, <2>1, <2>2 DEF PhasesRunning
  <2>5. QED BY <1>5, <1>6, <1>7, <1>8, <2>1, <2>2, <2>3, <2>4
<1>10. CASE Phases!Extract
  <2>1. /\ r.pc = "extract"
        /\ \/ phasesState = lot /\ phasesRun' = [r EXCEPT !.pc = "end"] /\ phasesTmp' = phasesTmp
           \/ phasesTmp' = lot /\ phasesRun' = [r EXCEPT !.pc = "cards"]
        /\ phasesTold' = IF phasesTold.lot = lot THEN phasesTold
                          ELSE [phasesTold EXCEPT !.lot = lot, !.keys = {}, !.lost = {}]
        /\ UNCHANGED <<lot, cfg, phasesState, phasesFile, batch, phasesSent, phasesLeft>>
    BY <1>10 DEF Phases!Extract, Phases!Goto, Phases!ReadsLot
  <2>2. /\ phasesRun' \in PhasesProcess /\ phasesRun'.pc \in {"end", "cards"}
        /\ phasesRun'.ok = r.ok /\ phasesRun'.ko = r.ko /\ phasesRun'.code = r.code
        /\ phasesRun'.pc = "cards" => phasesTmp' = lot
    BY <1>1, <2>1 DEF PhasesProcess
  <2>3. phasesTmp' \in 0..Len(Lots) /\ lot # 0 /\ lot \in 0..Len(Lots) BY <1>1, <1>3, <2>1
  <2>4. /\ phasesTold' \in PhasesHistory /\ phasesTold'.lot = lot /\ (phasesTold'.taken <=> phasesTold.taken)
        /\ phasesTold' = phasesTold \/ phasesTold'.keys = {}
    BY <1>1, <2>1, <2>3 DEF PhasesHistory
  <2>5. PhasesTypes' BY <1>1, <2>1, <2>2, <2>3, <2>4 DEF PhasesTypes
  <2>6. PhasesRunning' BY <1>2, <2>1, <2>2, <2>3, <2>4 DEF PhasesRunning
  <2>7. PhasesTold' BY <1>2, <2>1, <2>4 DEF PhasesTold
  <2>8. QED BY <1>5, <1>6, <1>8, <2>1, <2>2, <2>4, <2>5, <2>6, <2>7
<1>11. CASE Phases!ExtractFails
  <2>1. /\ r.pc = "extract" /\ phasesRun' = [r EXCEPT !.pc = "end"]
        /\ UNCHANGED <<lot, cfg, phasesState, phasesTmp, phasesFile, batch, phasesSent, phasesTold>>
    BY <1>11 DEF Phases!ExtractFails, Phases!Goto, Phases!files, Phases!history
  <2>2. phasesRun' \in PhasesProcess /\ phasesRun'.pc = "end" BY <1>1, <2>1 DEF PhasesProcess
  <2>3. PhasesTypes' BY <1>1, <2>1, <2>2 DEF PhasesTypes
  <2>4. PhasesRunning' BY <2>2 DEF PhasesRunning
  <2>5. QED BY <1>5, <1>6, <1>7, <1>8, <2>1, <2>2, <2>3, <2>4
<1>12. CASE Phases!MakeCards
  <2> DEFINE cards == CardsOf(phasesTmp)
  <2>1. /\ r.pc = "cards"
        /\ \/ phasesRun' = [r EXCEPT !.pc = "end"]
           \/ phasesRun' = [r EXCEPT !.pc = "idempotency", !.cards = cards]
        /\ UNCHANGED <<lot, cfg, phasesState, phasesTmp, phasesFile, batch, phasesSent, phasesTold, phasesLeft>>
    BY <1>1, <1>12 DEF Phases!MakeCards, Phases!Goto, Phases!files, Phases!history, CardsOf
  <2>2. phasesTmp \in 1..Len(Lots) /\ phasesTold.lot = phasesTmp BY <1>1, <1>2, <2>1 DEF PhasesRunning
  <2>3. cards \in {CardsOf(i) : i \in 1..Len(Lots)} BY <2>2
  <2> HIDE DEF cards
  <2>4. /\ phasesRun' \in PhasesProcess /\ phasesRun'.pc \in {"end", "idempotency"}
        /\ phasesRun'.pc = "idempotency" => phasesRun'.cards = cards /\ phasesRun'.ok = r.ok /\ phasesRun'.ko = r.ko
                                             /\ phasesRun'.code = r.code
    <3>1. r \in PhasesProcess BY <1>1
    <3>2. CASE phasesRun' = [r EXCEPT !.pc = "end"]
      <4>1. phasesRun' \in PhasesProcess BY <3>1, <3>2 DEF PhasesProcess
      <4>2. phasesRun'.pc = "end" BY <3>1, <3>2 DEF PhasesProcess
      <4>3. QED BY <4>1, <4>2
    <3>3. CASE phasesRun' = [r EXCEPT !.pc = "idempotency", !.cards = cards]
      <4>1. phasesRun' \in PhasesProcess BY <2>3, <3>1, <3>3 DEF PhasesProcess
      <4>2. phasesRun'.pc = "idempotency" /\ phasesRun'.cards = cards BY <3>1, <3>3 DEF PhasesProcess
      <4>3. phasesRun'.ok = r.ok /\ phasesRun'.ko = r.ko /\ phasesRun'.code = r.code
        BY <3>1, <3>3 DEF PhasesProcess
      <4>4. QED BY <4>1, <4>2, <4>3
    <3>4. QED BY <2>1, <3>2, <3>3
  <2>5. PhasesTypes' BY <1>1, <2>1, <2>4 DEF PhasesTypes
  <2>6. PhasesRunning' BY <1>2, <2>1, <2>2, <2>4 DEF PhasesRunning, cards
  <2>7. QED BY <1>5, <1>6, <1>7, <1>8, <2>1, <2>4, <2>5, <2>6
<1>13. CASE Phases!Idempotency
  <2> DEFINE mem == Phases!Loaded
             queue == Phases!Pending(mem)
  <2>1. /\ r.pc = "idempotency"
        /\ \/ phasesState' = phasesTmp /\ phasesTmp' = 0 /\ phasesRun' = [r EXCEPT !.pc = "end"]
           \/ /\ phasesRun' = [r EXCEPT !.pc = "batch", !.mem = mem, !.queue = queue]
              /\ UNCHANGED <<phasesState, phasesTmp>>
        /\ UNCHANGED <<lot, cfg, phasesFile, batch, phasesSent, phasesTold, phasesLeft>>
    BY <1>13 DEF Phases!Idempotency, Phases!Goto, Phases!history
  <2>2. /\ phasesTmp # 0 /\ r.cards = CardsOf(phasesTmp) /\ r.ok = {} /\ r.ko = {} /\ r.code = 0
        /\ phasesTold.lot = phasesTmp
    BY <1>2, <2>1 DEF PhasesRunning
  <2>3. mem \in PhasesMemory BY <2>2, PhasesLoaded
  <2>4. queue \in SUBSET Nat BY <2>2, PhasesKeys
  <2> HIDE DEF mem, queue
  <2>5. CASE phasesRun' = [r EXCEPT !.pc = "end"]
    <3>1. phasesRun' \in PhasesProcess /\ phasesRun'.pc = "end" BY <1>1, <2>5 DEF PhasesProcess
    <3>2. phasesState' \in 0..Len(Lots) /\ phasesTmp' \in 0..Len(Lots) BY <1>1, <1>3, <2>1
    <3>3. PhasesTypes' BY <1>1, <2>1, <3>1, <3>2 DEF PhasesTypes
    <3>4. PhasesRunning' BY <3>1 DEF PhasesRunning
    <3>5. QED BY <1>5, <1>6, <1>7, <1>8, <2>1, <3>1, <3>3, <3>4
  <2>6. CASE phasesRun' # [r EXCEPT !.pc = "end"]
    <3>1. phasesRun' = [r EXCEPT !.pc = "batch", !.mem = mem, !.queue = queue] /\ UNCHANGED <<phasesState, phasesTmp>>
      BY <2>1, <2>6
    <3>2. /\ phasesRun' \in PhasesProcess /\ phasesRun'.pc = "batch" /\ phasesRun'.cards = r.cards
          /\ phasesRun'.mem = mem /\ phasesRun'.queue = queue /\ phasesRun'.ok = {} /\ phasesRun'.ko = {}
          /\ phasesRun'.code = 0
      <4>1. r \in PhasesProcess BY <1>1
      <4>2. phasesRun' \in PhasesProcess BY <2>3, <2>4, <3>1, <4>1 DEF PhasesProcess
      <4>3. phasesRun'.pc = "batch" /\ phasesRun'.mem = mem /\ phasesRun'.queue = queue
        BY <3>1, <4>1 DEF PhasesProcess
      <4>4. phasesRun'.cards = r.cards /\ phasesRun'.ok = r.ok /\ phasesRun'.ko = r.ko /\ phasesRun'.code = r.code
        BY <3>1, <4>1 DEF PhasesProcess
      <4>5. QED BY <2>2, <4>2, <4>3, <4>4
    <3>3. PhasesTypes' BY <1>1, <2>1, <3>1, <3>2 DEF PhasesTypes
    <3>4. PhasesRunning' BY <2>2, <2>1, <3>1, <3>2 DEF PhasesRunning
    <3>5. Phases!Loaded' = mem BY <2>1, <3>1 DEF mem, Phases!Loaded
    <3>6. Phases!Pending(phasesRun.mem)' = queue BY <3>2 DEF queue, Phases!Pending
    <3>7. PhasesBatch' BY <3>2, <3>5, <3>6 DEF PhasesBatch
    <3>8. QED BY <1>5, <1>6, <1>7, <2>1, <3>3, <3>4, <3>7
  <2>7. QED BY <2>5, <2>6
<1>14. CASE Phases!SendCard
  <2> DEFINE mem == r.mem
             PK == Phases!KeysAt(Phases!Pending(mem))
  <2>1. /\ r.pc = "batch" /\ UNCHANGED <<lot, cfg, phasesState, phasesTmp, phasesFile, batch>>
    BY <1>14 DEF Phases!SendCard, Phases!files
  <2>2. PICK i \in r.queue :
          \/ /\ Phases!Arrives(r.cards[i].key)
             /\ phasesRun' = [r EXCEPT !.queue = r.queue \ {i}, !.ok = r.ok \cup {r.cards[i].key}, !.row = 0]
          \/ /\ Phases!Arrives(r.cards[i].key) \/ UNCHANGED <<phasesSent, phasesTold>>
             /\ \/ phasesRun' = [r EXCEPT !.queue = {}, !.ko = r.ko \cup Phases!KeysAt(r.queue), !.row = 2]
                \/ phasesRun' = [r EXCEPT !.queue = r.queue \ {i}, !.ko = r.ko \cup {r.cards[i].key}, !.row = 1]
    BY <1>14 DEF Phases!SendCard, Phases!history
  <2> DEFINE key == r.cards[i].key
  <2>3. /\ phasesTmp # 0 /\ phasesTold.lot = phasesTmp /\ r.cards = CardsOf(phasesTmp) /\ r.code = 0
        /\ mem = Phases!Loaded /\ r.queue \subseteq Phases!Pending(mem)
        /\ r.ok \cup r.ko \cup Phases!KeysAt(r.queue) = PK /\ r.ok \cap r.ko = {}
        /\ Phases!KeysAt(r.queue) \cap (r.ok \cup r.ko) = {}
        /\ \A p \in r.ok : <<phasesTmp, p>> \in phasesSent
    BY <1>2, <2>1 DEF PhasesRunning, PhasesBatch
  <2>4. /\ Phases!KeysAt(r.queue) \subseteq Phases!AllKeys /\ key \notin Phases!KeysAt(r.queue \ {i})
        /\ Phases!KeysAt(r.queue) = Phases!KeysAt(r.queue \ {i}) \cup {key}
    BY <2>3, PhasesKeys
  <2>5. \/ phasesSent' = phasesSent /\ phasesTold' = phasesTold
        \/ phasesSent' = phasesSent \cup {<<phasesTmp, key>>}
           /\ phasesTold' = [phasesTold EXCEPT !.keys = phasesTold.keys \cup {key}]
    BY <2>2 DEF Phases!Arrives
  <2>6. PICK Q \in {{}, r.queue \ {i}}, ok \in Keys, ko \in Keys :
          /\ phasesRun'.pc = "batch" /\ phasesRun'.cards = r.cards /\ phasesRun'.mem = mem
          /\ phasesRun'.queue = Q /\ phasesRun'.ok = ok /\ phasesRun'.ko = ko /\ phasesRun' \in PhasesProcess
          /\ phasesRun'.code = 0
          /\ \/ Q = r.queue \ {i} /\ ok = r.ok \cup {key} /\ ko = r.ko /\ <<phasesTmp, key>> \in phasesSent'
             \/ Q = {} /\ ok = r.ok /\ ko = r.ko \cup Phases!KeysAt(r.queue)
             \/ Q = r.queue \ {i} /\ ok = r.ok /\ ko = r.ko \cup {key}
    <3>1. r.ok \in Keys /\ r.ko \in Keys /\ key \in Phases!AllKeys /\ Phases!KeysAt(r.queue) \in Keys
          /\ r.queue \ {i} \in SUBSET Nat
      BY <1>1, <2>4 DEF PhasesProcess
    <3> HIDE DEF key
    <3>2. r.ok \cup {key} \in Keys /\ r.ko \cup {key} \in Keys /\ r.ko \cup Phases!KeysAt(r.queue) \in Keys
      BY <3>1
    <3> DEFINE rest == r.queue \ {i}
               good == r.ok \cup {key}
               bad == r.ko \cup {key}
               all == r.ko \cup Phases!KeysAt(r.queue)
    <3>3. /\ rest \in SUBSET Nat /\ {} \in SUBSET Nat /\ good \in Keys /\ bad \in Keys /\ all \in Keys
          /\ 0 \in 0..2 /\ 1 \in 0..2 /\ 2 \in 0..2
      BY <3>1, <3>2
    <3> HIDE DEF rest, good, bad, all
    <3>4. CASE Phases!Arrives(key) /\ phasesRun' = [r EXCEPT !.queue = rest, !.ok = good, !.row = 0]
      <4>1. <<phasesTmp, key>> \in phasesSent' BY <3>4 DEF Phases!Arrives
      <4>2. /\ phasesRun' \in PhasesProcess /\ phasesRun'.pc = "batch" /\ phasesRun'.cards = r.cards
            /\ phasesRun'.mem = mem /\ phasesRun'.queue = rest /\ phasesRun'.ok = good /\ phasesRun'.ko = r.ko
            /\ phasesRun'.code = 0
        <5>1. phasesRun' = [r EXCEPT !.queue = rest, !.ok = good, !.row = 0] BY <3>4
        <5>2. r \in PhasesProcess BY <1>1
        <5>3. phasesRun' \in PhasesProcess BY <5>1, <5>2, <3>3 DEF PhasesProcess
        <5>4. phasesRun'.pc = r.pc BY <5>1, <5>2 DEF PhasesProcess
        <5>5. phasesRun'.queue = rest BY <5>1, <5>2 DEF PhasesProcess
        <5>6. phasesRun'.ok = good BY <5>1, <5>2 DEF PhasesProcess
        <5>7. phasesRun'.ko = r.ko /\ phasesRun'.cards = r.cards /\ phasesRun'.mem = r.mem BY <5>1, <5>2 DEF PhasesProcess
        <5>8. phasesRun'.code = r.code BY <5>1, <5>2 DEF PhasesProcess
        <5>9. QED BY <2>1, <2>3, <5>3, <5>4, <5>5, <5>6, <5>7, <5>8
      <4>3. QED BY <3>1, <3>3, <4>1, <4>2 DEF rest, good
    <3>5. CASE phasesRun' = [r EXCEPT !.queue = {}, !.ko = all, !.row = 2]
      <4>1. /\ phasesRun' \in PhasesProcess /\ phasesRun'.pc = "batch" /\ phasesRun'.cards = r.cards
            /\ phasesRun'.mem = mem /\ phasesRun'.queue = {} /\ phasesRun'.ok = r.ok /\ phasesRun'.ko = all
            /\ phasesRun'.code = 0
        <5>1. phasesRun' = [r EXCEPT !.queue = {}, !.ko = all, !.row = 2] BY <3>5
        <5>2. r \in PhasesProcess BY <1>1
        <5>3. phasesRun' \in PhasesProcess BY <5>1, <5>2, <3>3 DEF PhasesProcess
        <5>4. phasesRun'.pc = r.pc BY <5>1, <5>2 DEF PhasesProcess
        <5>5. phasesRun'.queue = {} BY <5>1, <5>2 DEF PhasesProcess
        <5>6. phasesRun'.ko = all BY <5>1, <5>2 DEF PhasesProcess
        <5>7. phasesRun'.ok = r.ok /\ phasesRun'.cards = r.cards /\ phasesRun'.mem = r.mem BY <5>1, <5>2 DEF PhasesProcess
        <5>8. phasesRun'.code = r.code BY <5>1, <5>2 DEF PhasesProcess
        <5>9. QED BY <2>1, <2>3, <5>3, <5>4, <5>5, <5>6, <5>7, <5>8
      <4>2. QED BY <3>1, <3>3, <4>1 DEF all
    <3>6. CASE phasesRun' = [r EXCEPT !.queue = rest, !.ko = bad, !.row = 1]
      <4>1. /\ phasesRun' \in PhasesProcess /\ phasesRun'.pc = "batch" /\ phasesRun'.cards = r.cards
            /\ phasesRun'.mem = mem /\ phasesRun'.queue = rest /\ phasesRun'.ok = r.ok /\ phasesRun'.ko = bad
            /\ phasesRun'.code = 0
        <5>1. phasesRun' = [r EXCEPT !.queue = rest, !.ko = bad, !.row = 1] BY <3>6
        <5>2. r \in PhasesProcess BY <1>1
        <5>3. phasesRun' \in PhasesProcess BY <5>1, <5>2, <3>3 DEF PhasesProcess
        <5>4. phasesRun'.pc = r.pc BY <5>1, <5>2 DEF PhasesProcess
        <5>5. phasesRun'.queue = rest BY <5>1, <5>2 DEF PhasesProcess
        <5>6. phasesRun'.ko = bad BY <5>1, <5>2 DEF PhasesProcess
        <5>7. phasesRun'.ok = r.ok /\ phasesRun'.cards = r.cards /\ phasesRun'.mem = r.mem BY <5>1, <5>2 DEF PhasesProcess
        <5>8. phasesRun'.code = r.code BY <5>1, <5>2 DEF PhasesProcess
        <5>9. QED BY <2>1, <2>3, <5>3, <5>4, <5>5, <5>6, <5>7, <5>8
      <4>2. QED BY <3>1, <3>3, <4>1 DEF rest, bad
    <3>7. QED BY <2>2, <3>4, <3>5, <3>6 DEF key, rest, good, bad, all
  <2>7. /\ phasesTold' \in PhasesHistory /\ phasesTold'.lot = phasesTmp /\ phasesTold'.lost = phasesTold.lost
        /\ (phasesTold'.taken <=> phasesTold.taken)
        /\ phasesTold'.keys \subseteq phasesTold.keys \cup {key} /\ phasesSent \subseteq phasesSent'
    <3>1. key \in Phases!AllKeys BY <2>4
    <3> HIDE DEF key
    <3>2. QED BY <1>1, <2>3, <2>5, <3>1 DEF PhasesHistory
  <2>8. key \in ok \cup ko /\ r.ok \subseteq ok /\ r.ko \subseteq ko
    <3>1. key \in Phases!KeysAt(r.queue) BY <2>4
    <3> HIDE DEF key
    <3>2. QED BY <2>6, <3>1
  <2>9. PhasesTypes' BY <1>1, <2>1, <2>6, <2>7 DEF PhasesTypes
  <2>10. PhasesRecorded' BY <1>2, <2>1, <2>7 DEF PhasesRecorded
  <2>11. PhasesRunning' BY <2>1, <2>3, <2>6, <2>7 DEF PhasesRunning
  <2>12. PhasesTold' BY <1>2, <2>1, <2>3, <2>6, <2>7, <2>8 DEF PhasesTold
  <2>13. PhasesBatch'
    <3>1. Phases!Loaded' = mem BY <2>1, <2>3 DEF Phases!Loaded
    <3>2. Phases!Pending(phasesRun.mem)' = Phases!Pending(mem) BY <2>6 DEF Phases!Pending
    <3>3. Phases!KeysAt(phasesRun.queue)' = Phases!KeysAt(Q) BY <2>6 DEF Phases!KeysAt
    <3>4. Phases!KeysAt(Phases!Pending(phasesRun.mem))' = PK BY <2>6, <3>2 DEF Phases!KeysAt
    <3>5. Phases!KeysAt({}) = {} BY DEF Phases!KeysAt
    <3> HIDE DEF key, PK
    <3>6. /\ Q \subseteq Phases!Pending(mem) /\ ok \cup ko \cup Phases!KeysAt(Q) = PK /\ ok \cap ko = {}
          /\ Phases!KeysAt(Q) \cap (ok \cup ko) = {}
      BY ZenonT(40), <2>3, <2>4, <2>6, <3>5
    <3>7. \A p \in ok : <<phasesTmp, p>> \in phasesSent' BY <2>3, <2>6, <2>7
    <3>8. QED BY <2>1, <2>6, <3>1, <3>2, <3>3, <3>4, <3>6, <3>7 DEF PhasesBatch
  <2>14. QED BY <1>5, <2>9, <2>10, <2>11, <2>12, <2>13
<1>15. CASE Phases!BatchDone
  <2>1. /\ r.pc = "batch" /\ r.queue = {} /\ batch' = [ok |-> r.ok, ko |-> r.ko]
        /\ phasesRun' = [r EXCEPT !.pc = "drain", !.code = IF r.ko = {} THEN 0 ELSE 4]
        /\ UNCHANGED <<lot, cfg, phasesState, phasesTmp, phasesFile, phasesSent, phasesTold, phasesLeft>>
    BY <1>15 DEF Phases!BatchDone, Phases!history
  <2>2. /\ phasesRun' \in PhasesProcess /\ phasesRun'.pc = "drain" /\ phasesRun'.cards = r.cards
        /\ phasesRun'.mem = r.mem /\ phasesRun'.queue = r.queue /\ phasesRun'.ok = r.ok /\ phasesRun'.ko = r.ko
        /\ phasesRun'.code \in {0, 4}
    BY <1>1, <2>1 DEF PhasesProcess
  <2>3. PhasesTypes'
    <3>1. batch' \in PhasesResult BY <1>1, <2>1 DEF PhasesProcess, PhasesResult
    <3>2. QED BY <1>1, <2>1, <2>2, <3>1 DEF PhasesTypes
  <2>4. PhasesRunning' BY <1>2, <2>1, <2>2 DEF PhasesRunning
  <2>5. PhasesTold' BY <1>2, <2>1, <2>2 DEF PhasesTold
  <2>6. PhasesBatch'
    <3>1. Phases!Loaded' = Phases!Loaded BY <2>1 DEF Phases!Loaded
    <3>2. Phases!Pending(phasesRun.mem)' = Phases!Pending(r.mem) BY <2>2 DEF Phases!Pending
    <3>3. Phases!KeysAt(phasesRun.queue)' = Phases!KeysAt(r.queue) BY <2>2 DEF Phases!KeysAt
    <3>4. Phases!KeysAt(Phases!Pending(phasesRun.mem))' = Phases!KeysAt(Phases!Pending(r.mem))
      BY <2>2, <3>2 DEF Phases!KeysAt
    <3>5. r.code = 0 BY <1>2, <2>1 DEF PhasesRunning
    <3>6. QED BY <1>2, <2>1, <2>2, <3>1, <3>2, <3>3, <3>4, <3>5 DEF PhasesBatch
  <2>7. QED BY <1>5, <1>6, <2>1, <2>3, <2>4, <2>5, <2>6
<1>16. CASE Phases!Drained
  <2>1. r.pc = "drain" /\ UNCHANGED <<lot, cfg, phasesState, phasesTmp, phasesFile, batch, phasesSent>>
    BY <1>16 DEF Phases!Drained, Phases!files
  <2>2. Phases!Loaded' = Phases!Loaded BY <2>1 DEF Phases!Loaded
  <2>3. CASE phasesRun' = [r EXCEPT !.pc = "parse"] /\ phasesTold' = phasesTold
    <3>1. /\ phasesRun' \in PhasesProcess /\ phasesRun'.pc = "parse" /\ phasesRun'.cards = r.cards
          /\ phasesRun'.mem = r.mem /\ phasesRun'.queue = r.queue /\ phasesRun'.ok = r.ok /\ phasesRun'.ko = r.ko
          /\ phasesRun'.code = r.code
      BY <1>1, <2>1, <2>3 DEF PhasesProcess
    <3>2. r.code \in {0, 4} BY <1>2, <2>1 DEF PhasesRunning
    <3>3. PhasesTypes' BY <1>1, <2>1, <2>3, <3>1 DEF PhasesTypes
    <3>4. PhasesRunning' BY <1>2, <2>1, <2>3, <3>1 DEF PhasesRunning
    <3>5. PhasesTold' BY <1>2, <2>1, <2>3, <3>1, <3>2 DEF PhasesTold
    <3>6. PhasesBatch'
      <4>1. Phases!Pending(phasesRun.mem)' = Phases!Pending(r.mem) BY <3>1 DEF Phases!Pending
      <4>2. Phases!KeysAt(phasesRun.queue)' = Phases!KeysAt(r.queue) BY <3>1 DEF Phases!KeysAt
      <4>3. Phases!KeysAt(Phases!Pending(phasesRun.mem))' = Phases!KeysAt(Phases!Pending(r.mem))
        BY <3>1, <4>1 DEF Phases!KeysAt
      <4>4. QED BY <1>2, <2>1, <2>2, <3>1, <3>2, <4>1, <4>2, <4>3 DEF PhasesBatch
    <3>7. QED BY <1>5, <1>6, <2>1, <2>3, <3>3, <3>4, <3>5, <3>6
  <2>4. CASE phasesRun' = [r EXCEPT !.pc = "parse", !.code = 21] /\ Phases!Loses
    <3>1. /\ phasesRun' \in PhasesProcess /\ phasesRun'.pc = "parse" /\ phasesRun'.cards = r.cards
          /\ phasesRun'.mem = r.mem /\ phasesRun'.code = 21
      BY <1>1, <2>1, <2>4 DEF PhasesProcess
    <3>2. /\ phasesTold' \in PhasesHistory /\ phasesTold'.lot = phasesTold.lot
          /\ phasesTold'.keys = phasesTold.keys /\ (phasesTold'.taken <=> phasesTold.taken)
          /\ \A p \in phasesTold.keys : \/ p \in phasesTold'.lost
                                        \/ phasesFile.hash = phasesTold.lot /\ p \in phasesFile.ok \cup phasesFile.ko
      BY <2>1, <2>4, PhasesLosing
    <3>3. PhasesTypes' BY <1>1, <2>1, <3>1, <3>2 DEF PhasesTypes
    <3>4. PhasesRunning' BY <1>2, <2>1, <3>1, <3>2 DEF PhasesRunning
    <3>5. PhasesTold' BY <2>1, <3>2 DEF PhasesTold
    <3>6. PhasesBatch' BY <1>2, <2>1, <2>2, <3>1 DEF PhasesBatch
    <3>7. QED BY <1>5, <1>6, <2>1, <3>2, <3>3, <3>4, <3>5, <3>6
  <2>5. QED BY <1>16, <2>3, <2>4 DEF Phases!Drained, Phases!Goto
<1>17. CASE Phases!Parse
  <2>1. r.pc = "parse" /\ phasesRun' = [r EXCEPT !.pc = "end"] /\ UNCHANGED <<lot, cfg, phasesSent>>
    BY <1>17 DEF Phases!Parse, Phases!Goto
  <2>2. phasesTmp # 0 /\ phasesTold.lot = phasesTmp BY <1>2, <2>1 DEF PhasesRunning
  <2>3. phasesRun' \in PhasesProcess /\ phasesRun'.pc = "end" BY <1>1, <2>1 DEF PhasesProcess
  <2>4. PhasesRunning' BY <2>3 DEF PhasesRunning
  <2>5. CASE r.code = 21
    <3>1. UNCHANGED <<phasesState, phasesTmp, phasesFile, batch, phasesTold>>
      BY <1>17, <2>5 DEF Phases!Parse, Phases!files
    <3>2. PhasesTypes' BY <1>1, <2>1, <2>3, <3>1 DEF PhasesTypes
    <3>3. PhasesTold' BY <1>2, <2>5, <3>1 DEF PhasesTold
    <3>4. QED BY <1>5, <1>6, <1>8, <2>1, <2>3, <2>4, <3>1, <3>2, <3>3
  <2>6. CASE r.code # 21
    <3> DEFINE taken == (phasesTold.taken /\ phasesFile.hash = phasesTmp) \/ (r.code = 24 /\ batch # Absent)
    <3>1. /\ phasesTold' = [phasesTold EXCEPT !.taken = taken]
          /\ \/ phasesTmp' = phasesTmp /\ phasesState' = phasesState
             \/ phasesTmp' = 0 /\ phasesState' = phasesTmp
      BY <1>17, <2>6 DEF Phases!Parse
    <3>2. /\ phasesFile' \in PhasesMemory /\ phasesFile'.hash = phasesTmp /\ batch' = Absent
          /\ phasesFile'.ok \subseteq KeysOf(phasesTmp)
          /\ r.mem.ok \cup r.mem.ko \subseteq phasesFile'.ok \cup phasesFile'.ko
          /\ r.code \in {0, 4} => /\ phasesFile'.ok = r.mem.ok \cup r.ok
                                  /\ r.ok \cup r.ko \subseteq phasesFile'.ok \cup phasesFile'.ko
          /\ batch = Absent => phasesFile'.ok = r.mem.ok
      BY <1>17, <2>6, PhasesParsed
    <3>3. /\ r.mem = Phases!Loaded /\ r.code \in {0, 4, 24}
          /\ r.code \in {0, 4} => \A p \in r.ok : <<phasesTmp, p>> \in phasesSent
      BY <1>1, <1>2, <2>1, <2>6 DEF PhasesBatch, PhasesProcess
    <3>4. /\ phasesFile.hash = phasesTmp => r.mem = phasesFile
          /\ ~taken => \A p \in r.mem.ok : <<phasesTmp, p>> \in phasesSent
      BY <2>2, <3>3, PhasesLoaded
    <3>5. ~taken /\ r.code = 24 => batch = Absent OBVIOUS
    <3>6. taken \in BOOLEAN OBVIOUS
    <3> HIDE DEF taken
    <3>7. /\ phasesTold' \in PhasesHistory /\ (phasesTold'.taken <=> taken)
          /\ phasesTold'.keys = phasesTold.keys /\ phasesTold'.lot = phasesTold.lot
          /\ phasesTold'.lost = phasesTold.lost
      BY <1>1, <3>1, <3>6 DEF PhasesHistory
    <3>8. phasesTmp' \in 0..Len(Lots) /\ phasesState' \in 0..Len(Lots) BY <1>1, <1>3, <3>1
    <3>9. PhasesTypes' BY <1>1, <2>1, <2>3, <3>2, <3>7, <3>8 DEF PhasesTypes
    <3>10. ~taken => \A p \in phasesFile'.ok : <<phasesTmp, p>> \in phasesSent BY <3>2, <3>3, <3>4, <3>5
    <3>11. PhasesRecorded' BY <2>1, <2>2, <3>2, <3>7, <3>10 DEF PhasesRecorded
    <3>12. PhasesTold' BY <1>2, <2>2, <3>2, <3>4, <3>7 DEF PhasesTold
    <3>13. QED BY <1>5, <1>8, <2>3, <2>4, <3>9, <3>11, <3>12
  <2>7. QED BY <2>5, <2>6
<1>18. CASE Phases!End
  <2>1. /\ r.pc = "end" /\ phasesTmp' = 0 /\ phasesRun' = Phases!Idle
        /\ UNCHANGED <<lot, cfg, phasesState, phasesFile, batch, phasesSent, phasesTold, phasesLeft>>
    BY <1>18 DEF Phases!End, Phases!history
  <2>2. PhasesTypes' BY <1>1, <1>3, <1>4, <2>1 DEF PhasesTypes
  <2>3. PhasesRunning' BY <1>4, <2>1 DEF PhasesRunning
  <2>4. QED BY <1>4, <1>5, <1>6, <1>7, <1>8, <2>1, <2>2, <2>3
<1>19. CASE Phases!LotChanges
  <2>1. lot' \in 1..Len(Lots) /\ UNCHANGED <<phasesRun, cfg, phasesState, phasesTmp, phasesFile, batch, phasesSent, phasesTold>>
    BY <1>19 DEF Phases!LotChanges, Phases!files, Phases!history
  <2>2. PhasesTypes' BY <1>1, <2>1 DEF PhasesTypes
  <2>3. PhasesRunning' /\ PhasesTold' BY <1>2, <2>1 DEF PhasesRunning, PhasesTold
  <2>4. PhasesBatch' BY <1>2, <2>1 DEF PhasesBatch, Phases!Loaded, Phases!Pending, Phases!KeysAt
  <2>5. QED BY <1>5, <1>6, <2>1, <2>2, <2>3, <2>4
<1>20. CASE UNCHANGED phasesVars
  <2>1. UNCHANGED <<phasesRun, lot, cfg, phasesState, phasesTmp, phasesFile, batch, phasesSent, phasesTold, phasesLeft>> BY <1>20 DEF phasesVars
  <2>2. PhasesTypes' BY <1>1, <2>1 DEF PhasesTypes
  <2>3. PhasesRunning' /\ PhasesTold' BY <1>2, <2>1 DEF PhasesRunning, PhasesTold
  <2>4. PhasesBatch' BY <1>2, <2>1 DEF PhasesBatch, Phases!Loaded, Phases!Pending, Phases!KeysAt
  <2>5. QED BY <1>5, <1>6, <2>1, <2>2, <2>3, <2>4
<1>21. CASE Phases!BatchLost
  <2>1. r.pc = "batch" /\ Phases!Loses /\ UNCHANGED <<lot, cfg, phasesState, phasesTmp, phasesFile, batch, phasesSent>>
    BY <1>21 DEF Phases!BatchLost, Phases!files
  <2>2. PICK c \in {21, 24} : phasesRun' = [r EXCEPT !.pc = "parse", !.code = c] BY <1>21 DEF Phases!BatchLost
  <2>3. /\ phasesRun' \in PhasesProcess /\ phasesRun'.pc = "parse" /\ phasesRun'.cards = r.cards
        /\ phasesRun'.mem = r.mem /\ phasesRun'.code = c
    BY <1>1, <2>2 DEF PhasesProcess
  <2>4. /\ phasesTold' \in PhasesHistory /\ phasesTold'.lot = phasesTold.lot
        /\ phasesTold'.keys = phasesTold.keys /\ (phasesTold'.taken <=> phasesTold.taken)
        /\ \A p \in phasesTold.keys : \/ p \in phasesTold'.lost
                                      \/ phasesFile.hash = phasesTold.lot /\ p \in phasesFile.ok \cup phasesFile.ko
    BY <2>1, PhasesLosing
  <2>5. PhasesTypes' BY <1>1, <2>1, <2>3, <2>4 DEF PhasesTypes
  <2>6. PhasesRunning' BY <1>2, <2>1, <2>3, <2>4 DEF PhasesRunning
  <2>7. PhasesTold' BY <2>1, <2>4 DEF PhasesTold
  <2>8. Phases!Loaded' = Phases!Loaded BY <2>1 DEF Phases!Loaded
  <2>9. PhasesBatch' BY <1>2, <2>1, <2>3, <2>8 DEF PhasesBatch
  <2>10. QED BY <1>5, <1>6, <2>1, <2>4, <2>5, <2>6, <2>7, <2>9
<1>22. CASE Phases!BatchAgain
  <2> DEFINE queue == Phases!Pending(r.mem)
  <2>1. /\ r.pc = "batch" /\ Phases!Loses /\ r.attempt < PhaseTries
        /\ UNCHANGED <<lot, cfg, phasesState, phasesTmp, phasesFile, batch, phasesSent>>
        /\ phasesRun' = [r EXCEPT !.attempt = r.attempt + 1, !.queue = queue, !.ok = {}, !.ko = {}, !.row = 0]
    BY <1>22 DEF Phases!BatchAgain, Phases!files
  <2>2. phasesTmp # 0 /\ r.cards = CardsOf(phasesTmp) /\ r.code = 0 BY <1>2, <2>1 DEF PhasesRunning
  <2>3. queue \in SUBSET Nat BY <2>2, PhasesKeys
  <2>4. r.attempt + 1 \in 1..PhaseTries
    <3>1. r.attempt \in 1..PhaseTries BY <1>1 DEF PhasesProcess
    <3>2. QED BY <1>3, <2>1, <3>1
  <2> HIDE DEF queue
  <2>5. /\ phasesRun' \in PhasesProcess /\ phasesRun'.pc = "batch" /\ phasesRun'.cards = r.cards
        /\ phasesRun'.mem = r.mem /\ phasesRun'.code = 0 /\ phasesRun'.queue = queue
        /\ phasesRun'.ok = {} /\ phasesRun'.ko = {}
    <3>1. {} \in Keys /\ 0 \in 0..2 OBVIOUS
    <3> DEFINE again == r.attempt + 1
    <3>2. again \in 1..PhaseTries /\ phasesRun' = [r EXCEPT !.attempt = again, !.queue = queue, !.ok = {}, !.ko = {}, !.row = 0]
      BY <2>1, <2>4
    <3> HIDE DEF again
    <3>3. phasesRun' \in PhasesProcess BY <1>1, <2>3, <3>1, <3>2 DEF PhasesProcess
    <3>4. phasesRun'.pc = r.pc /\ phasesRun'.cards = r.cards /\ phasesRun'.mem = r.mem /\ phasesRun'.code = r.code
      BY <1>1, <3>2 DEF PhasesProcess
    <3>5. phasesRun'.queue = queue /\ phasesRun'.ok = {} /\ phasesRun'.ko = {} BY <1>1, <3>2 DEF PhasesProcess
    <3>6. QED BY <2>1, <2>2, <3>3, <3>4, <3>5
  <2>6. /\ phasesTold' \in PhasesHistory /\ phasesTold'.lot = phasesTold.lot
        /\ phasesTold'.keys = phasesTold.keys /\ (phasesTold'.taken <=> phasesTold.taken)
        /\ \A p \in phasesTold.keys : \/ p \in phasesTold'.lost
                                      \/ phasesFile.hash = phasesTold.lot /\ p \in phasesFile.ok \cup phasesFile.ko
    BY <2>1, PhasesLosing
  <2>7. PhasesTypes' BY <1>1, <2>1, <2>5, <2>6 DEF PhasesTypes
  <2>8. PhasesRunning' BY <1>2, <2>1, <2>5, <2>6 DEF PhasesRunning
  <2>9. PhasesTold' BY <2>1, <2>6 DEF PhasesTold
  <2>10. PhasesBatch'
    <3>1. Phases!Loaded' = Phases!Loaded BY <2>1 DEF Phases!Loaded
    <3>2. Phases!Pending(phasesRun.mem)' = queue BY <2>5 DEF queue, Phases!Pending
    <3>3. Phases!KeysAt(phasesRun.queue)' = Phases!KeysAt(Phases!Pending(phasesRun.mem))'
      BY <2>5, <3>2 DEF Phases!KeysAt
    <3>4. QED BY <1>2, <2>1, <2>5, <3>1, <3>2, <3>3 DEF PhasesBatch
  <2>11. QED BY <1>5, <1>6, <2>1, <2>6, <2>7, <2>8, <2>9, <2>10
<1>23. CASE Phases!Killed
  <2>1. /\ phasesRun' = Phases!Idle
        /\ IF r.pc \in Batching THEN Phases!Loses ELSE phasesTold' = phasesTold
        /\ UNCHANGED <<lot, cfg, phasesState, phasesTmp, phasesFile, batch, phasesSent>>
    BY <1>23 DEF Phases!Killed, Phases!files
  <2>2. /\ phasesTold' \in PhasesHistory /\ phasesTold'.lot = phasesTold.lot
        /\ phasesTold'.keys = phasesTold.keys /\ (phasesTold'.taken <=> phasesTold.taken)
        /\ \A p \in phasesTold.keys : \/ p \in phasesTold'.lost
                                      \/ phasesFile.hash = phasesTold.lot /\ p \in phasesFile.ok \cup phasesFile.ko
    <3>1. CASE r.pc \in Batching BY <2>1, <3>1, PhasesLosing
    <3>2. CASE r.pc \notin Batching BY <1>1, <1>2, <2>1, <3>2 DEF PhasesTold
    <3>3. QED BY <3>1, <3>2
  <2>3. PhasesTypes' BY <1>1, <1>4, <2>1, <2>2 DEF PhasesTypes
  <2>4. PhasesRunning' BY <1>4, <2>1 DEF PhasesRunning
  <2>5. PhasesTold' BY <2>1, <2>2 DEF PhasesTold
  <2>6. QED BY <1>4, <1>5, <1>6, <1>8, <2>1, <2>2, <2>3, <2>4, <2>5
<1>24. QED
  BY <1>9, <1>10, <1>11, <1>12, <1>13, <1>14, <1>15, <1>16, <1>17, <1>18, <1>19, <1>20, <1>21, <1>22, <1>23
  DEF Phases!Next, Phases!Step, Phases!ConfigChanges

\* A lot is committed when the cards of all its phases were sent, unless the run took the
\* results of another batch.
LEMMA PhasesCommits ==
  ASSUME Phases!PhaseAssumption, PhasesInv, [Phases!Next]_phasesVars, phasesState' # phasesState,
         ~phasesTold'.taken
  PROVE  \A c \in Phases!Range(phasesRun.cards) : <<phasesState', c.key>> \in phasesSent
<1> DEFINE r == phasesRun
           sent == {p \in KeysOf(phasesTmp) : <<phasesTmp, p>> \in phasesSent}
<1>1. Phases!Idempotency \/ Phases!Parse
  BY DEF Phases!Next, Phases!Step, Phases!Start, Phases!Extract, Phases!ExtractFails, Phases!MakeCards, Phases!SendCard,
     Phases!BatchDone, Phases!BatchLost, Phases!BatchAgain, Phases!Drained, Phases!End, Phases!Killed, Phases!LotChanges,
     Phases!ConfigChanges, Phases!files, phasesVars
<1>2. r.pc \in {"idempotency", "parse"} BY <1>1 DEF Phases!Idempotency, Phases!Parse
<1>3. phasesTmp # 0 /\ r.cards = CardsOf(phasesTmp) BY <1>2 DEF PhasesInv, PhasesRunning
<1>4. phasesTmp \in 1..Len(Lots) BY <1>3 DEF PhasesInv, PhasesTypes, Phases!PhaseAssumption
<1>5. KeysOf(phasesTmp) = {r.cards[a].key : a \in DOMAIN r.cards} BY <1>3, <1>4, CardsCount
<1>6. /\ Phases!Loaded.ok \subseteq KeysOf(phasesTmp)
      /\ ~(phasesTold.taken /\ phasesFile.hash = phasesTmp) =>
           \A p \in Phases!Loaded.ok : <<phasesTmp, p>> \in phasesSent
  BY <1>3, PhasesLoaded
<1>7. phasesState' = phasesTmp /\ KeysOf(phasesTmp) \subseteq sent
  <2>1. CASE Phases!Idempotency
    <3>5. ~phasesTold.taken BY <2>1 DEF Phases!Idempotency, Phases!history
    <3>1. /\ phasesState' = phasesTmp
          /\ Cardinality(Phases!Loaded.ok) = Len(r.cards) \/ Phases!Pending(Phases!Loaded) = {}
      <4>1. \/ /\ Cardinality(Phases!Loaded.ok) = Len(r.cards) \/ Phases!Pending(Phases!Loaded) = {}
               /\ phasesState' = phasesTmp
            \/ UNCHANGED phasesState
        <5>1. Phases!Cardinality(Phases!Loaded.ok) = Cardinality(Phases!Loaded.ok)
          BY DEF Phases!Cardinality, Cardinality
        <5>2. QED BY <2>1, <5>1 DEF Phases!Idempotency
      <4>2. QED BY <4>1
    <3>2. CASE Cardinality(Phases!Loaded.ok) = Len(r.cards)
      <4>1. Cardinality(Phases!Loaded.ok) = Cardinality(KeysOf(phasesTmp)) /\ IsFiniteSet(KeysOf(phasesTmp))
        BY <1>3, <1>4, <3>2, CardsCount
      <4>2. Phases!Loaded.ok = KeysOf(phasesTmp) BY <1>6, <4>1, FS_Subset
      <4>3. QED BY <1>6, <3>1, <3>5, <4>2
    <3>3. CASE Phases!Pending(Phases!Loaded) = {}
      <4>1. KeysOf(phasesTmp) \subseteq Phases!Loaded.ok BY <1>5, <3>3 DEF Phases!Pending
      <4>2. QED BY <1>6, <3>1, <3>5, <4>1
    <3>4. QED BY <3>1, <3>2, <3>3
  <2>2. CASE Phases!Parse
    <3>1. r.code # 21 BY <2>2 DEF Phases!Parse, Phases!files
    <3>2. /\ phasesState' = phasesTmp /\ KeysOf(phasesTmp) \subseteq phasesFile'.ok
          /\ r.code \in {0, 4} => phasesFile'.ok = r.mem.ok \cup r.ok
          /\ batch = Absent => phasesFile'.ok = r.mem.ok
      BY <2>2, <3>1, PhasesParsed
    <3>3. /\ r.mem = Phases!Loaded /\ r \in PhasesProcess
          /\ r.code \in {0, 4} => \A p \in r.ok : <<phasesTmp, p>> \in phasesSent
      BY <2>2 DEF PhasesInv, PhasesTypes, PhasesBatch, Phases!Parse
    <3>4. r.code \in {0, 4, 24} BY <3>1, <3>3 DEF PhasesProcess
    <3>5. ~(phasesTold.taken /\ phasesFile.hash = phasesTmp) /\ (r.code = 24 => batch = Absent)
      <4> DEFINE taken == (phasesTold.taken /\ phasesFile.hash = phasesTmp) \/ (r.code = 24 /\ batch # Absent)
      <4>1. phasesTold' = [phasesTold EXCEPT !.taken = taken] BY <2>2, <3>1 DEF Phases!Parse
      <4>2. phasesTold \in PhasesHistory BY DEF PhasesInv, PhasesTypes
      <4>3. taken \in BOOLEAN OBVIOUS
      <4> HIDE DEF taken
      <4>4. ~taken BY <4>1, <4>2, <4>3 DEF PhasesHistory
      <4>5. QED BY <4>4 DEF taken
    <3>6. \A p \in phasesFile'.ok : <<phasesTmp, p>> \in phasesSent BY <1>6, <3>2, <3>3, <3>4, <3>5
    <3>7. QED BY <3>2, <3>6
  <2>3. QED BY <1>1, <2>1, <2>2
<1>8. ASSUME NEW c \in Phases!Range(r.cards) PROVE c.key \in KeysOf(phasesTmp)
  BY <1>5, <1>8 DEF Phases!Range
<1>9. QED BY <1>7, <1>8

\* No card goes out whose delivery is on record, and a second time only what had failed or
\* whose result was lost.
LEMMA PhasesSends ==
  ASSUME Phases!PhaseAssumption, PhasesInv
  PROVE  /\ phasesRun.pc = "batch" =>
              \A p \in Phases!KeysAt(phasesRun.queue) : ~(phasesFile.hash = phasesTmp /\ p \in phasesFile.ok)
         /\ [Phases!Next]_phasesVars =>
              \A p \in phasesRun'.ok \ phasesRun.ok :
                \/ p \notin phasesTold.keys \/ p \in phasesTold.lost
                \/ phasesFile.hash = phasesTmp /\ p \in phasesFile.ko
<1> DEFINE r == phasesRun
<1>1. ASSUME r.pc = "batch"
      PROVE  /\ r.mem = Phases!Loaded /\ r.queue \subseteq Phases!Pending(r.mem) /\ r.cards = CardsOf(phasesTmp)
             /\ phasesTmp # 0 /\ phasesTold.lot = phasesTmp
             /\ Phases!KeysAt(r.queue) \cap (r.ok \cup r.ko) = {}
             /\ Phases!KeysAt(r.queue) \cap r.mem.ok = {}
             /\ phasesFile.hash = phasesTmp => r.mem = phasesFile
  <2>1. /\ r.mem = Phases!Loaded /\ r.queue \subseteq Phases!Pending(r.mem) /\ r.cards = CardsOf(phasesTmp)
        /\ phasesTmp # 0 /\ phasesTold.lot = phasesTmp /\ Phases!KeysAt(r.queue) \cap (r.ok \cup r.ko) = {}
    BY <1>1 DEF PhasesInv, PhasesBatch, PhasesRunning
  <2>2. Phases!KeysAt(r.queue) \cap r.mem.ok = {} BY <2>1, PhasesKeys
  <2>3. phasesFile.hash = phasesTmp => r.mem = phasesFile BY <2>1, PhasesLoaded
  <2>4. QED BY <2>1, <2>2, <2>3
<1>2. ASSUME [Phases!Next]_phasesVars, NEW p \in phasesRun'.ok \ r.ok
      PROVE  r.pc = "batch" /\ p \in Phases!KeysAt(r.queue)
  <2>1. DOMAIN r = {"pc", "cards", "mem", "queue", "ok", "ko", "attempt", "row", "code"}
    BY DEF PhasesInv, PhasesTypes, PhasesProcess
  <2>2. Phases!SendCard
    <3>1. SUFFICES ASSUME ~Phases!SendCard PROVE phasesRun'.ok = r.ok \/ phasesRun'.ok = {} BY <1>2
    <3>2. CASE Phases!Start BY <2>1, <3>2 DEF Phases!Start, Phases!Goto
    <3>3. CASE Phases!Extract BY <2>1, <3>3 DEF Phases!Extract, Phases!Goto
    <3>4. CASE Phases!ExtractFails BY <2>1, <3>4 DEF Phases!ExtractFails, Phases!Goto
    <3>5. CASE Phases!MakeCards
      <4>1. (\E cards : phasesRun' = [r EXCEPT !.pc = "idempotency", !.cards = cards])
            \/ phasesRun' = [r EXCEPT !.pc = "end"]
        BY <3>5 DEF Phases!MakeCards, Phases!Goto
      <4>2. QED BY <2>1, <4>1
    <3>6. CASE Phases!Idempotency
      <4>1. (\E m, q : phasesRun' = [r EXCEPT !.pc = "batch", !.mem = m, !.queue = q])
            \/ phasesRun' = [r EXCEPT !.pc = "end"]
        BY <3>6 DEF Phases!Idempotency, Phases!Goto
      <4>2. QED BY <2>1, <4>1
    <3>7. CASE Phases!BatchDone BY <2>1, <3>7 DEF Phases!BatchDone
    <3>8. CASE Phases!Drained
      <4>1. phasesRun' \in {[r EXCEPT !.pc = "parse"], [r EXCEPT !.pc = "parse", !.code = 21]}
        BY <3>8 DEF Phases!Drained, Phases!Goto
      <4>2. QED BY <2>1, <4>1
    <3>9. CASE Phases!Parse BY <2>1, <3>9 DEF Phases!Parse, Phases!Goto
    <3>10. CASE Phases!End BY <3>10 DEF Phases!End, Phases!Idle
    <3>11. CASE Phases!LotChanges BY <3>11 DEF Phases!LotChanges
    <3>12. CASE UNCHANGED phasesVars BY <3>12 DEF phasesVars
    <3>13. CASE Phases!BatchLost BY <2>1, <3>13 DEF Phases!BatchLost
    <3>14. CASE Phases!BatchAgain
      <4>1. \E n, q : phasesRun' = [r EXCEPT !.attempt = n, !.queue = q, !.ok = {}, !.ko = {}, !.row = 0]
        BY <3>14 DEF Phases!BatchAgain
      <4>2. QED BY <2>1, <4>1
    <3>15. CASE Phases!Killed BY <3>15 DEF Phases!Killed, Phases!Idle
    <3>16. QED
      BY <1>2, <3>1, <3>2, <3>3, <3>4, <3>5, <3>6, <3>7, <3>8, <3>9, <3>10, <3>11, <3>12, <3>13, <3>14, <3>15
      DEF Phases!Next, Phases!Step, Phases!ConfigChanges
  <2>3. PICK i \in r.queue :
          \/ phasesRun' = [r EXCEPT !.queue = r.queue \ {i}, !.ok = r.ok \cup {r.cards[i].key}, !.row = 0]
          \/ phasesRun' = [r EXCEPT !.queue = {}, !.ko = r.ko \cup Phases!KeysAt(r.queue), !.row = 2]
          \/ phasesRun' = [r EXCEPT !.queue = r.queue \ {i}, !.ko = r.ko \cup {r.cards[i].key}, !.row = 1]
    BY <2>2 DEF Phases!SendCard
  <2>4. phasesRun'.ok \subseteq r.ok \cup {r.cards[i].key} BY <2>1, <2>3
  <2>5. p = r.cards[i].key BY <1>2, <2>4
  <2>6. QED BY <2>2, <2>5 DEF Phases!SendCard, Phases!KeysAt
<1>3. ASSUME r.pc = "batch", NEW p \in Phases!KeysAt(r.queue), p \in phasesTold.keys, p \notin phasesTold.lost
      PROVE  phasesFile.hash = phasesTmp /\ p \in phasesFile.ko
  <2>1. p \notin r.ok \cup r.ko /\ p \notin r.mem.ok BY <1>1, <1>3
  <2>2. phasesFile.hash = phasesTold.lot /\ p \in phasesFile.ok \cup phasesFile.ko
    BY <1>3, <2>1 DEF PhasesInv, PhasesTold
  <2>3. QED BY <1>1, <1>3, <2>1, <2>2
<1>4. QED BY <1>1, <1>2, <1>3
-----------------------------------------------------------------------------
(* The parts together: a behaviour of MCDeliveries is one of each part.      *)

LEMMA EachPart ==
  AllSpec => /\ Emitted!Spec /\ Blocked!Spec /\ Assembly!Spec /\ Orders!Spec /\ Refused!Spec
             /\ Marks!Spec /\ Phases!Spec /\ Bulk!Spec /\ Single!Spec
<1>1. AllInit => /\ Emitted!Init /\ Blocked!Init /\ Assembly!Init /\ Orders!Init /\ Refused!Init
                 /\ Marks!Init /\ Phases!Init /\ Bulk!Init /\ Single!Init
  BY DEF AllInit
<1>2. [AllNext]_everything => [Emitted!Next]_(Emitted!vars)
  BY DEF AllNext, everything, emittedVars, Emitted!vars, Emitted!files, Emitted!history
<1>3. [AllNext]_everything => [Blocked!Next]_(Blocked!vars)
  BY DEF AllNext, everything, blockedVars, Blocked!vars, Blocked!files, Blocked!history
<1>4. [AllNext]_everything => [Assembly!Next]_(Assembly!vars)
  BY DEF AllNext, everything, assemblyVars, Assembly!vars, Assembly!files, Assembly!history
<1>5. [AllNext]_everything => [Orders!Next]_(Orders!vars)
  BY DEF AllNext, everything, ordersVars, Orders!vars, Orders!data, Orders!files
<1>6. [AllNext]_everything => [Refused!Next]_(Refused!vars)
  BY DEF AllNext, everything, refusedVars, Refused!vars, Refused!data, Refused!files
<1>7. [AllNext]_everything => [Marks!Next]_(Marks!vars)
  BY DEF AllNext, everything, marksVars, Marks!vars, Marks!data, Marks!files
<1>8. [AllNext]_everything => [Phases!Next]_(Phases!vars)
  BY DEF AllNext, everything, phasesVars, Phases!vars, Phases!files, Phases!history
<1>9. [AllNext]_everything => [Bulk!Next]_(Bulk!vars)
  BY DEF AllNext, everything, batchVars, Bulk!vars
<1>10. [AllNext]_everything => [Single!Next]_(Single!vars)
  BY DEF AllNext, everything, singleVars, Single!vars
<1>11. AllSpec => Emitted!Spec /\ Blocked!Spec /\ Assembly!Spec
  BY <1>1, <1>2, <1>3, <1>4, PTL DEF AllSpec, Emitted!Spec, Blocked!Spec, Assembly!Spec
<1>12. AllSpec => Orders!Spec /\ Refused!Spec /\ Marks!Spec
  BY <1>1, <1>5, <1>6, <1>7, PTL DEF AllSpec, Orders!Spec, Refused!Spec, Marks!Spec
<1>13. AllSpec => Phases!Spec /\ Bulk!Spec /\ Single!Spec
  BY <1>1, <1>8, <1>9, <1>10, PTL DEF AllSpec, Phases!Spec, Bulk!Spec, Single!Spec
<1>14. QED BY <1>11, <1>12, <1>13

\* The tuples of variables, as the parts and as MCDeliveries name them.
LEMMA SameVariables ==
  /\ [Emitted!Next]_(Emitted!vars) => [Emitted!Next]_emittedVars
  /\ [Blocked!Next]_(Blocked!vars) => [Blocked!Next]_blockedVars
  /\ [Assembly!Next]_(Assembly!vars) => [Assembly!Next]_assemblyVars
  /\ [Phases!Next]_(Phases!vars) => [Phases!Next]_phasesVars
<1>1. [Emitted!Next]_(Emitted!vars) => [Emitted!Next]_emittedVars
  BY DEF emittedVars, Emitted!vars, Emitted!files, Emitted!history
<1>2. [Blocked!Next]_(Blocked!vars) => [Blocked!Next]_blockedVars
  BY DEF blockedVars, Blocked!vars, Blocked!files, Blocked!history
<1>3. [Assembly!Next]_(Assembly!vars) => [Assembly!Next]_assemblyVars
  BY DEF assemblyVars, Assembly!vars, Assembly!files, Assembly!history
<1>4. [Phases!Next]_(Phases!vars) => [Phases!Next]_phasesVars
  BY DEF phasesVars, Phases!vars, Phases!files, Phases!history
<1>5. QED BY <1>1, <1>2, <1>3, <1>4

\* ReceitasEmitidas: what is committed was mailed, the last mail stands, and no content
\* is mailed twice in a row unless a kill lost the record.
LEMMA EmittedKept ==
  Emitted!Spec => [](Emitted!CommittedWasMailed /\ Emitted!LastMailStands) /\ Emitted!NoDoubleMail
<1>1. Emitted!EmittedAssumption BY PartsAssumption
<1>2. Emitted!Init => EmittedInv BY <1>1, EmittedStarts
<1>3. EmittedInv /\ [Emitted!Next]_(Emitted!vars) => EmittedInv' BY <1>1, EmittedStep, SameVariables
<1>4. EmittedInv => Emitted!CommittedWasMailed /\ Emitted!LastMailStands
  <2> SUFFICES ASSUME EmittedInv PROVE Emitted!CommittedWasMailed /\ Emitted!LastMailStands OBVIOUS
  <2>1. Emitted!CommittedWasMailed BY DEF EmittedInv, EmittedFiles, Emitted!CommittedWasMailed
  <2>2. Emitted!LastMailStands BY DEF EmittedInv, EmittedFiles, Emitted!LastMailStands
  <2>3. QED BY <2>1, <2>2
<1>5. EmittedInv => (Emitted!Mail => emittedRun.content # emittedGot \/ emittedCut) BY <1>1, EmittedMails
<1>6. QED BY <1>2, <1>3, <1>4, <1>5, PTL DEF Emitted!Spec, Emitted!NoDoubleMail

\* ReceitasBloqueadas: what is on record or committed was sent, and sent again only after a kill
\* or a sender that failed although its message had arrived.
LEMMA BlockedKept ==
  Blocked!Spec => /\ [](Blocked!RecordedWasSent /\ Blocked!CommittedWasEmailed /\ Blocked!RepeatsAreExplained)
                  /\ Blocked!CommitsWhatItSent
<1>1. Blocked!ContentAssumption BY PartsAssumption
<1>2. Blocked!Init => BlockedInv BY <1>1, BlockedStarts
<1>3. BlockedInv /\ [Blocked!Next]_(Blocked!vars) => BlockedInv' BY <1>1, BlockedStep, SameVariables
<1>4. BlockedInv => Blocked!RecordedWasSent /\ Blocked!CommittedWasEmailed /\ Blocked!RepeatsAreExplained
  <2> SUFFICES ASSUME BlockedInv
               PROVE  Blocked!RecordedWasSent /\ Blocked!CommittedWasEmailed /\ Blocked!RepeatsAreExplained
    OBVIOUS
  <2>1. Blocked!RecordedWasSent
    <3>1. ASSUME blockedFile \in Blocked!DeliveryStates, NEW c \in {"email", "whatsapp"}, blockedFile.ok[c]
          PROVE  \/ blockedGot[c] = blockedFile.hash \/ (c = "email" /\ ~recipients) \/ c \in blockedCut
                 \/ \E r \in {1} : blockedRun[r].pc = Blocked!Saving[c]
      <4>1. BlockedChannel(c) BY <3>1 DEF BlockedInv
      <4>2. Shown(c, blockedFile.hash) \/ blockedRun[1].pc = Blocked!Saving[c] BY <3>1, <4>1 DEF BlockedChannel
      <4>3. QED BY <4>2 DEF Shown
    <3>2. QED BY <3>1 DEF Blocked!RecordedWasSent
  <2>2. Blocked!CommittedWasEmailed BY DEF BlockedInv, BlockedMailed, Blocked!CommittedWasEmailed
  <2>3. Blocked!RepeatsAreExplained
    <3>1. blockedCrashes \in Nat /\ unsure \in Nat BY <1>1 DEF BlockedInv, Blocked!TypeOK, Blocked!ContentAssumption
    <3>2. blockedTold["email"] <= 1 + (blockedCrashes + 0) /\ blockedTold["whatsapp"] <= 1 + (blockedCrashes + unsure)
      BY DEF BlockedInv, BlockedChannel, Reasons
    <3>3. 1 + (blockedCrashes + 0) = 1 + blockedCrashes + 0 /\ 1 + (blockedCrashes + unsure) = 1 + blockedCrashes + unsure
      BY <3>1
    <3>4. QED BY <3>2, <3>3 DEF Blocked!RepeatsAreExplained
  <2>4. QED BY <2>1, <2>2, <2>3
<1>5. BlockedInv /\ [Blocked!Next]_(Blocked!vars) =>
        (blockedState' # blockedState =>
           \E r \in {1} : blockedRun[r].pc = "commit" /\ blockedState' = blockedRun[r].content)
  BY BlockedCommits, SameVariables
<1>6. QED BY <1>2, <1>3, <1>4, <1>5, PTL DEF Blocked!Spec, Blocked!CommitsWhatItSent

\* MontagemTerceirizados: the readers know what the cache knows, and nothing is passed over.
LEMMA AssemblyKept ==
  Assembly!Spec => /\ [](Assembly!CacheWasTold /\ Assembly!NothingPassedOver)
                   /\ Assembly!CommitsOwnErrors /\ Assembly!RemindersKeepDistance
<1>1. Assembly!MontagemAssumption BY PartsAssumption
<1>2. Assembly!Init => AssemblyInv BY <1>1, AssemblyStarts
<1>3. AssemblyInv /\ [Assembly!Next]_(Assembly!vars) => AssemblyInv' BY <1>1, AssemblyStep, SameVariables
<1>4. AssemblyInv => Assembly!CacheWasTold /\ Assembly!NothingPassedOver BY AssemblyPasses
<1>5. AssemblyInv /\ [Assembly!Next]_(Assembly!vars) =>
        /\ cache' # cache => cache'.items = assemblyRun.payload.items
        /\ reminded' # reminded => reminded = Assembly!Never \/ reminded' - reminded >= Interval
  BY <1>1, AssemblyCommits, SameVariables
<1>6. QED BY <1>2, <1>3, <1>4, <1>5, PTL
      DEF Assembly!Spec, Assembly!CommitsOwnErrors, Assembly!RemindersKeepDistance

\* ObsParadasFase: what is on record was sent, but for the results of another batch, and what
\* was sent is sent again only where it had failed or its result was lost.
LEMMA PhasesKept ==
  Phases!Spec => /\ []Phases!RecordedWasSent
                 /\ Phases!CommitsWhatWasSent /\ Phases!NoResend /\ Phases!ResendsOnlyFailures
<1>1. Phases!PhaseAssumption BY PartsAssumption
<1>2. Phases!Init => PhasesInv BY <1>1, PhasesStarts
<1>3. PhasesInv /\ [Phases!Next]_(Phases!vars) => PhasesInv' BY <1>1, PhasesStep, SameVariables
<1>4. PhasesInv => Phases!RecordedWasSent BY DEF PhasesInv, PhasesRecorded, Phases!RecordedWasSent
<1>5. PhasesInv /\ [Phases!Next]_(Phases!vars) =>
        (phasesState' # phasesState =>
           phasesTold'.taken \/ \A c \in Phases!Range(phasesRun.cards) : <<phasesState', c.key>> \in phasesSent)
  BY <1>1, PhasesCommits, SameVariables
<1>6. PhasesInv =>
        (phasesRun.pc = "batch" =>
           \A p \in Phases!KeysAt(phasesRun.queue) : ~(phasesFile.hash = phasesTmp /\ p \in phasesFile.ok))
  BY <1>1, PhasesSends
<1>7. PhasesInv /\ [Phases!Next]_(Phases!vars) =>
        \A p \in phasesRun'.ok \ phasesRun.ok :
          p \notin phasesTold.keys \/ p \in phasesTold.lost \/ (phasesFile.hash = phasesTmp /\ p \in phasesFile.ko)
  BY <1>1, PhasesSends, SameVariables
<1>8. Phases!Spec => []PhasesInv BY <1>2, <1>3, PTL DEF Phases!Spec
<1>9. Phases!Spec => []Phases!RecordedWasSent BY <1>4, <1>8, PTL
<1>10. Phases!Spec => Phases!CommitsWhatWasSent BY <1>5, <1>8, PTL DEF Phases!Spec, Phases!CommitsWhatWasSent
<1>11. Phases!Spec => Phases!NoResend BY <1>6, <1>8, PTL DEF Phases!Spec, Phases!NoResend
<1>12. Phases!Spec => Phases!ResendsOnlyFailures
  BY <1>7, <1>8, PTL DEF Phases!Spec, Phases!ResendsOnlyFailures
<1>13. QED BY <1>9, <1>10, <1>11, <1>12

\* No client of WhatsApp is late in these parts.
LEMMA NothingIsLate == Bulk!DispatchAssumption /\ Bulk!InTime /\ Single!DispatchAssumption /\ Single!InTime
<1>1. Bulk!DispatchAssumption /\ Single!DispatchAssumption BY PartsAssumption
<1>2. Bulk!InTime BY DEF Bulk!InTime
<1>3. Single!InTime BY DEF Single!InTime
<1>4. QED BY <1>1, <1>2, <1>3

\* The shared delivery state, the caches and the batches: whatever fails or is killed in
\* between, and whether or not a failed sender's message arrived, what a file says was
\* delivered reached its readers. Conditions: a batch tells its phases apart by their
\* captions, its client answers in time, and a card's run has not taken the results that
\* another process left unread (run.ps1 reads whatever batch_result.json is there).
THEOREM DeliveriesAreTrue == CaptionsDiffer => (AllSpec => []RecordedWasSent)
<1> SUFFICES ASSUME CaptionsDiffer PROVE AllSpec => []RecordedWasSent OBVIOUS
<1>1. Orders!Spec => []Orders!RecordedWasAnnounced
  <2>1. Orders!AnuncioAssumption BY PartsAssumption
  <2>2. Orders!NoLeftovers BY DEF Orders!NoLeftovers
  <2>3. QED BY <2>1, <2>2, Orders!MarksAreTrue
<1>2. Refused!Spec => []Refused!RecordedWasAnnounced
  <2>1. Refused!AnuncioAssumption BY PartsAssumption
  <2>2. Refused!NoLeftovers BY DEF Refused!NoLeftovers
  <2>3. QED BY <2>1, <2>2, Refused!MarksAreTrue
<1>3. Bulk!TellsApart /\ Single!TellsApart BY DEF CaptionsDiffer
<1>4. Bulk!Spec => []Bulk!ReportedWasSent BY <1>3, NothingIsLate, Bulk!ReportsAreTrue
<1>5. Single!Spec => []Single!ReportedWasSent BY <1>3, NothingIsLate, Single!ReportsAreTrue
<1>6. QED BY <1>1, <1>2, <1>4, <1>5, EmittedKept, BlockedKept, AssemblyKept, PhasesKept, EachPart, PTL
      DEF RecordedWasSent

\* The last step of each run.ps1, and WhatsApp-Core.js: a run commits the content it
\* sent, and only the attempt that the process waits for writes its result.
THEOREM CommitsAreOwn == AllSpec => CommitsWhatItSent
<1>1. Bulk!Spec => Bulk!StaleIsDropped BY NothingIsLate, Bulk!StaleAreDropped
<1>2. QED BY <1>1, BlockedKept, AssemblyKept, PhasesKept, EachPart, PTL DEF CommitsWhatItSent

\* Nobody reads the same twice but where the files do not know what the reader saw: a kill
\* came between the message and its record, or the sender failed although its message had
\* arrived (exit 24 after the delivery, WhatsApp-Core.js:928-930), or the batch's client
\* was late. The modules' conditions name each of these; nothing else repeats.
THEOREM DeliveredOnce == AllSpec => SaysItOnce
<1>1. Orders!Spec => Orders!NoRepeat
  <2>1. Orders!AnuncioAssumption BY PartsAssumption
  <2>2. QED BY <2>1, Orders!AnnouncedOnce
<1>2. Marks!Spec => Marks!NoRepeat
  <2>1. Marks!AnuncioAssumption BY PartsAssumption
  <2>2. QED BY <2>1, Marks!AnnouncedOnce
<1>3. Bulk!Spec => []Bulk!SentOnce BY NothingIsLate, Bulk!NothingIsSentTwice
<1>4. Single!Spec => []Single!SentOnce BY NothingIsLate, Single!NothingIsSentTwice
<1>5. QED BY <1>1, <1>2, <1>3, <1>4, EmittedKept, AssemblyKept, PhasesKept, EachPart, PTL DEF SaysItOnce

\* The readers know the errors there are, the last mail stands, a channel hears a list
\* again only as often as runs were killed, or as senders failed after their message had
\* arrived; a recorded batch is concluded, and an early ACK counts.
THEOREM NoneIsPassedOver == AllSpec => []NothingPassedOver
<1>1. Bulk!Spec => []Bulk!RecordedIsConcluded BY NothingIsLate, Bulk!RecordedStays
<1>2. Bulk!Spec => []Bulk!EarlyAckCounts BY NothingIsLate, Bulk!EarlyAcksCount
<1>3. Single!Spec => []Single!EarlyAckCounts BY NothingIsLate, Single!EarlyAcksCount
<1>4. QED BY <1>1, <1>2, <1>3, EmittedKept, BlockedKept, AssemblyKept, EachPart, PTL DEF NothingPassedOver
=============================================================================
