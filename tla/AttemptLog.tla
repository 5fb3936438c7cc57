----------------------------- MODULE AttemptLog -----------------------------
(***************************************************************************)
(* What the session history promises about every connection attempt        *)
(* (README.md, "Session history"): each attempt has one ending, and the    *)
(* ending says which of these happened:                                    *)
(*   failed        it never came up;                                       *)
(*   dropped       it was up and nobody asked for the link to be lost;     *)
(*   disconnected  it was up and the operator pressed Disconnect;          *)
(*   interrupted   it was left open, and the next attempt closed it.       *)
(* An attempt that is neither is the live one, on its way or up.           *)
(***************************************************************************)
CONSTANT AttemptIds   \* the attempts the history has room for

VARIABLE ending       \* ending[a]: what the history shows of attempt a

Live    == {"trying", "up"}
Endings == {"failed", "dropped", "disconnected", "interrupted"}

Init == ending = [a \in AttemptIds |-> "none"]

\* A new attempt is opened; one that was never closed is closed for it.
Begin(a) ==
  /\ ending[a] = "none"
  /\ ending' = [b \in AttemptIds |-> IF b = a THEN "trying"
                                     ELSE IF ending[b] \in Live THEN "interrupted"
                                     ELSE ending[b]]

Change(a, from, to) == ending[a] = from /\ ending' = [ending EXCEPT ![a] = to]

ComeUp(a) == Change(a, "trying", "up")
Fail(a)   == Change(a, "trying", "failed")
Drop(a)   == Change(a, "up", "dropped")
Stop(a)   == Change(a, "up", "disconnected")

Next == \E a \in AttemptIds : Begin(a) \/ ComeUp(a) \/ Fail(a) \/ Drop(a) \/ Stop(a)

Spec == Init /\ [][Next]_ending
=============================================================================
