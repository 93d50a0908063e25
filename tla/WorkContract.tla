---------------------------- MODULE WorkContract -----------------------------
(***************************************************************************)
(* What a client of the service may rely on about a work, whatever the     *)
(* store, the scheduler and the runner do underneath: works run one at a   *)
(* time, a terminal outcome is final, and a work that has been asked to    *)
(* stop ends cancelled or interrupted, never completed or failed.          *)
(***************************************************************************)
EXTENDS Integers

CONSTANT Works
VARIABLE status

Busy(w) == status[w] \in {"working", "cancelling"}

Init == status = [w \in Works |-> "absent"]

Become(w, from, to) ==
    /\ status[w] \in from
    /\ status' = [status EXCEPT ![w] = to]

Admit(w) == Become(w, {"absent"}, "queued")

Begin(w) ==
    /\ \A v \in Works : ~Busy(v)
    /\ Become(w, {"queued"}, "working")

Withdraw(w) == Become(w, {"queued"}, "cancelled")

AskToStop(w) == Become(w, {"working"}, "cancelling")

Settle(w) ==
    \/ \E outcome \in {"completed", "failed", "interrupted"} :
           Become(w, {"working"}, outcome)
    \/ \E outcome \in {"cancelled", "interrupted"} :
           Become(w, {"cancelling"}, outcome)

Next == \E w \in Works :
    Admit(w) \/ Begin(w) \/ Withdraw(w) \/ AskToStop(w) \/ Settle(w)

Spec == Init /\ [][Next]_status
=============================================================================
