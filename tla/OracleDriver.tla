----------------------------- MODULE OracleDriver -----------------------------
(***************************************************************************)
(* lib/python/oracle_client.py: connections of the threads of one process, *)
(* in Thin Mode first and in Thick Mode when the server knows no other     *)
(* password verifier than the legacy one (DPY-3015).                       *)
(*                                                                         *)
(*   mode       what the driver is fixed to; "none" until the first         *)
(*              connection or init_oracle_client succeeds                  *)
(*   deciding   the thread whose call decides the mode, others wait        *)
(*   fixed      _ESTADO["thin_consolidado"]                                *)
(*   pc, how    of a thread: where connect_adaptive is, what it ended with *)
(*   env        ORACLE_DRIVER_MODE, and whether the Oracle Client is there *)
(*   lost       connections that may still fail on the network             *)
(***************************************************************************)
EXTENDS Naturals, FiniteSets

CONSTANTS
  Thread,
  Legacy,       \* the threads whose account has only the legacy verifier
  Wanted,       \* values of ORACLE_DRIVER_MODE: "auto", "thick"
  Nobody,
  MaxLost       \* bound: network failures

ASSUME DriverAssumption ==
  /\ Legacy \subseteq Thread /\ Nobody \notin Thread
  /\ Wanted \subseteq {"auto", "thick"} /\ MaxLost \in Nat

VARIABLES mode, deciding, fixed, pc, how, env, lost
vars == <<mode, deciding, fixed, pc, how, env, lost>>

\* oracledb.is_thin_mode(): true while nothing is decided.
IsThin == mode # "thick"

TypeOK ==
  /\ env \in [wanted : Wanted, client : BOOLEAN]
  /\ mode \in {"none", "thin", "thick"} /\ deciding \in Thread \cup {Nobody} /\ fixed \in BOOLEAN
  /\ pc \in [Thread -> {"start", "preinit", "connect", "net", "open", "refused", "init", "again", "end"}]
  /\ how \in [Thread -> {"none", "thin", "thick", "legacy", "fixed", "library", "init", "network"}]
  /\ \A t \in Thread : pc[t] = "end" => how[t] # "none"
  /\ lost \in 0..MaxLost

Init ==
  /\ env \in [wanted : Wanted, client : BOOLEAN]
  /\ mode = "none" /\ deciding = Nobody /\ fixed = FALSE
  /\ pc = [t \in Thread |-> "start"] /\ how = [t \in Thread |-> "none"] /\ lost = MaxLost

Goto(t, where) == pc' = [pc EXCEPT ![t] = where]
End(t, result) == Goto(t, "end") /\ how' = [how EXCEPT ![t] = result]
-----------------------------------------------------------------------------
\* connect_adaptive: the mode that is asked for comes first.
Begin(t) ==
  /\ pc[t] = "start"
  /\ IF env.wanted = "auto" THEN Goto(t, "connect") /\ UNCHANGED how
     ELSE IF IsThin /\ fixed THEN End(t, "fixed")
     ELSE Goto(t, "preinit") /\ UNCHANGED how
  /\ UNCHANGED <<mode, deciding, fixed, lost>>

\* The driver lets one thread at a time try while the mode is open.
Connect(t) ==
  /\ pc[t] = "connect"
  /\ IF mode = "none" THEN deciding = Nobody /\ deciding' = t ELSE UNCHANGED deciding
  /\ Goto(t, "net")
  /\ UNCHANGED <<mode, fixed, how, lost>>

Released(t) == deciding' = IF deciding = t THEN Nobody ELSE deciding

\* _connect_once. A connection that fails leaves the mode open.
Net(t) ==
  /\ pc[t] = "net"
  /\ \/ /\ IsThin /\ t \in Legacy
        /\ Goto(t, "refused") /\ UNCHANGED <<mode, how, lost>>
     \/ /\ ~(IsThin /\ t \in Legacy)
        /\ mode' = (IF mode = "none" THEN "thin" ELSE mode)
        /\ Goto(t, "open") /\ how' = [how EXCEPT ![t] = mode'] /\ UNCHANGED lost
     \/ /\ lost > 0 /\ lost' = lost - 1 /\ End(t, "network") /\ UNCHANGED mode
  /\ Released(t) /\ UNCHANGED fixed

\* Mutated form: any connection fixes the mode.
OpenedAnyhow(t) ==
  /\ pc[t] = "open"
  /\ fixed' = TRUE /\ Goto(t, "end")
  /\ UNCHANGED <<mode, deciding, how, lost>>

\* The connection stands: the process is in Thin Mode for good.
Opened(t) ==
  /\ pc[t] = "open"
  /\ fixed' = IsThin /\ Goto(t, "end")
  /\ UNCHANGED <<mode, deciding, how, lost>>

\* DPY-3015: the fallback, unless the mode is fixed. In Thick Mode it is another error.
Refused(t) ==
  /\ pc[t] = "refused"
  /\ IF IsThin /\ ~fixed THEN Goto(t, "init") /\ UNCHANGED how ELSE End(t, "legacy")
  /\ UNCHANGED <<mode, deciding, fixed, lost>>

\* init_oracle_thick_mode, on the way to the connection `next`.
Thick(t, next) ==
  /\ \/ mode = "thick" /\ Goto(t, next) /\ UNCHANGED <<mode, how>>
     \/ mode = "thin" /\ End(t, "init") /\ UNCHANGED mode
     \/ /\ mode = "none" /\ deciding = Nobody
        /\ IF env.client THEN mode' = "thick" /\ Goto(t, next) /\ UNCHANGED how
           ELSE End(t, "library") /\ UNCHANGED mode
  /\ UNCHANGED <<deciding, fixed, lost>>

Preinit(t) == pc[t] = "preinit" /\ Thick(t, "connect")
Fallback(t) == pc[t] = "init" /\ Thick(t, "again")

Again(t) ==
  /\ pc[t] = "again"
  /\ \/ End(t, mode) /\ UNCHANGED lost
     \/ lost > 0 /\ lost' = lost - 1 /\ End(t, "network")
  /\ UNCHANGED <<mode, deciding, fixed>>

\* A later call of the same thread.
Anew(t) ==
  /\ pc[t] = "end" /\ how[t] = "network"
  /\ Goto(t, "start") /\ how' = [how EXCEPT ![t] = "none"]
  /\ UNCHANGED <<mode, deciding, fixed, lost>>

Step(t) ==
  \/ Begin(t) \/ Connect(t) \/ Net(t) \/ Opened(t) \/ Refused(t) \/ Preinit(t) \/ Fallback(t) \/ Again(t)
  \/ Anew(t)
Next == \/ UNCHANGED env /\ \E t \in Thread : Step(t)
        \/ (\A t \in Thread : pc[t] = "end" /\ how[t] # "network") /\ UNCHANGED vars

Spec == Init /\ [][Next]_vars

\* A thread that can go on does.
Fairness == \A t \in Thread : WF_vars(UNCHANGED env /\ Step(t))
LiveSpec == Spec /\ Fairness
-----------------------------------------------------------------------------
\* The flag is set only in a process that is in Thin Mode, and by a thread that ended there.
FlagIsTrue == fixed => mode = "thin" /\ \E t \in Thread : how[t] = "thin"

\* A legacy account is turned away only when a thin connection was completed in the process
\* ("o fallback funciona enquanto nenhuma conexão thin tiver sido concluída").
FallbackWorks == \A t \in Thread : how[t] \in {"legacy", "init", "fixed"} => mode = "thin"

\* An account that Thin Mode does not serve is served in Thick Mode or not at all.
NoThinForLegacy == \A t \in Legacy : how[t] # "thin"

\* The mode of the process stays what its accounts need.
ModeIsSound == FlagIsTrue /\ NoThinForLegacy

\* "Propaga a causa original em vez de falhar no init com outra mensagem."
CauseKept == \A t \in Thread : how[t] # "init"

\* Nobody waits for ever for the mode to be decided: all threads end.
AllEnd == <>[](\A t \in Thread : pc[t] = "end")
=============================================================================
