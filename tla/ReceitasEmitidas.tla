--------------------------- MODULE ReceitasEmitidas ---------------------------
(***************************************************************************)
(* The runs of Receitas Emitidas (run.ps1 and extract_oracle.py): extract, *)
(* stop when nothing changed and nothing is pending, render, mail once per *)
(* content, commit.  Contents and delivery states as in DeliveryState.     *)
(*                                                                         *)
(*   db         what the query returns now                                 *)
(*   state, tmp receitas_state.json and its .tmp: Absent, Torn or content  *)
(*   file       delivery_state.json                                        *)
(*   run        step, the content it read, the delivery state in memory    *)
(*   got        the content mailed last; mailed: all of them; cut: a kill  *)
(*              kept the last mail from being recorded                     *)
(*   left       changes and faults still to come                           *)
(***************************************************************************)
EXTENDS DeliveryState, Integers

CONSTANTS
  Content,
  Kill,        \* BOOLEAN: a run may be killed
  MaxFaults    \* bound: changes of the data and faults

States == [hash : Content \cup {NoHash}, ok : [Channel -> BOOLEAN]]

EmittedAssumption ==
  /\ Channel = {"email"} /\ Kill \in BOOLEAN /\ MaxFaults \in Nat
  /\ Absent # Torn /\ Absent # NoHash /\ Torn # NoHash /\ Content \cap {Absent, Torn, NoHash} = {}
  /\ {Absent, Torn} \cap States = {}

VARIABLES db, state, tmp, file, run, got, mailed, cut, left
files == <<state, tmp, file>>
history == <<got, mailed, cut>>
vars == <<db, files, run, history, left>>

Idle == [pc |-> "idle", content |-> NoHash, ds |-> NewState]
TypeOK ==
  /\ db \in Content /\ state \in Content \cup {Absent} /\ tmp \in Content \cup {Absent, Torn}
  /\ file \in States \cup {Absent, Torn}
  /\ run \in [pc : {"idle", "extract", "write", "render", "deliver", "save", "commit"},
              content : Content \cup {NoHash}, ds : States]
  /\ got \in Content \cup {NoHash} /\ mailed \subseteq Content /\ cut \in BOOLEAN
  /\ left \in 0..MaxFaults

Init ==
  /\ db \in Content /\ state = Absent /\ tmp = Absent /\ file = Absent
  /\ run = Idle /\ got = NoHash /\ mailed = {} /\ cut = FALSE /\ left = MaxFaults

Goto(pc) == run' = [run EXCEPT !.pc = pc]
-----------------------------------------------------------------------------
Start ==
  /\ run.pc = "idle" /\ Goto("extract") /\ UNCHANGED <<db, files, history, left>>

\* The content of the last commit, and no mail is pending.
Unchanged == state = db /\ tmp = Absent

Extract ==
  /\ run.pc = "extract"
  /\ run' = IF Unchanged THEN Idle ELSE [run EXCEPT !.pc = "write", !.content = db]
  /\ UNCHANGED <<db, files, history, left>>

\* write_state_tmp.
WriteTmp ==
  /\ run.pc = "write" /\ tmp' = run.content /\ Goto("render")
  /\ UNCHANGED <<db, state, file, history, left>>

\* generate_html, then the delivery state of this content.
Render ==
  /\ run.pc = "render"
  /\ LET h  == LastHash(tmp, state)
         ds == UpdateHash(ReadState(file), h)
     IN  run' = [run EXCEPT !.ds = ds, !.pc = IF Pending(ds, "email", h) THEN "deliver" ELSE "commit"]
  /\ UNCHANGED <<db, files, history, left>>

Mail ==
  /\ run.pc = "deliver"
  /\ got' = run.content /\ mailed' = mailed \cup {run.content} /\ cut' = FALSE
  /\ Goto("save")
  /\ UNCHANGED <<db, files, left>>

\* Mutated form: what the last content left is recorded.
SaveOfBefore ==
  /\ run.pc = "save"
  /\ file' = Delivered(ReadState(file), "email") /\ Goto("commit")
  /\ UNCHANGED <<db, state, tmp, history, left>>

Save ==
  /\ run.pc = "save"
  /\ file' = Delivered(run.ds, "email") /\ Goto("commit")
  /\ UNCHANGED <<db, state, tmp, history, left>>

Commit ==
  /\ run.pc = "commit"
  /\ state' = tmp /\ tmp' = Absent /\ run' = Idle
  /\ UNCHANGED <<db, file, history, left>>

\* Oracle, the renderer or Outlook fails for good: the run ends, tmp stays.
Fails ==
  /\ run.pc \in {"extract", "render", "deliver"} /\ left > 0 /\ left' = left - 1
  /\ run' = Idle /\ UNCHANGED <<db, files, history>>

\* A kill; while a file is written it leaves it torn.
Killed ==
  /\ Kill /\ run.pc # "idle" /\ left > 0 /\ left' = left - 1
  /\ run' = Idle
  /\ cut' = (cut \/ run.pc = "save")
  /\ \/ UNCHANGED files
     \/ run.pc = "write" /\ tmp' = Torn /\ UNCHANGED <<state, file>>
     \/ run.pc = "save" /\ file' = Torn /\ UNCHANGED <<state, tmp>>
  /\ UNCHANGED <<db, got, mailed>>

DbChanges ==
  /\ left > 0 /\ left' = left - 1 /\ db' \in Content \ {db}
  /\ UNCHANGED <<files, run, history>>

Step == Start \/ Extract \/ WriteTmp \/ Render \/ Mail \/ Save \/ Commit
Next == Step \/ Fails \/ Killed \/ DbChanges
Spec == Init /\ [][Next]_vars

\* The schedule starts runs, and a run goes on.
Fairness == WF_vars(Step)
LiveSpec == Spec /\ Fairness
-----------------------------------------------------------------------------
\* What is committed was mailed.
CommittedWasMailed == state # Absent => state \in mailed

\* No content is mailed twice in a row, unless a kill lost the record of the first mail.
NoDoubleMail == [][Mail => run.content # got \/ cut]_vars

\* "controle rigoroso de estado para evitar ... e-mails duplicados" (README.md:46).
NeverDoubled == [][Mail => run.content # got]_vars

\* What is committed last was mailed last, unless a kill lost the record of a later mail.
LastMailStands == state # Absent /\ run.pc = "idle" /\ ~cut /\ tmp = Absent => got = state

\* The content that stays is mailed and committed, after whatever failed.
Committed == <>[](state = db)
=============================================================================
