---------------------------- MODULE DeliveryState ----------------------------
(***************************************************************************)
(* Delivery per channel (lib/Lib-Idempotency.psm1): what delivery_state    *)
(* .json says of the content that was sent last and of each channel, and   *)
(* what a run concludes from it.  A file is Absent, Torn (it exists and    *)
(* does not parse) or a value; a state is [hash, ok].                      *)
(***************************************************************************)
CONSTANTS
  Channel,
  Absent,
  Torn,
  NoHash      \* the empty hash

NewState == [hash |-> NoHash, ok |-> [c \in Channel |-> FALSE]]

\* Read-DeliveryState: a missing or unreadable file is a state with nothing sent.
ReadState(file) == IF file \in {Absent, Torn} THEN NewState ELSE file

\* Get-LastContentHash: the provisional state of this run before the committed
\* one; a candidate that exists and cannot be read ends the search.
LastHash(tmp, committed) ==
  CASE tmp \notin {Absent, Torn} -> tmp
    [] tmp = Absent /\ committed \notin {Absent, Torn} -> committed
    [] OTHER -> NoHash

\* Update-DeliveryStateHash: new content resets every channel; no hash resets
\* nothing.
UpdateHash(s, h) ==
  IF h \in {NoHash, s.hash} THEN s ELSE [NewState EXCEPT !.hash = h]

\* Test-DeliveryPending with -CurrentHash.
Pending(s, c, h) == ~s.ok[c] \/ h # s.hash

\* Set-DeliverySuccess.
Delivered(s, c) == [s EXCEPT !.ok[c] = TRUE]
=============================================================================
