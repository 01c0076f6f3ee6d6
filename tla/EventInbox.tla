----------------------------- MODULE EventInbox -----------------------------
(***************************************************************************)
(* What the webhook queue promises to the rest of the platform, with no    *)
(* workers, leases or clock: an event that was acknowledged takes effect   *)
(* exactly once, or is set aside for the operator, and stays open only for *)
(* a finite time.                                                          *)
(***************************************************************************)
EXTENDS Naturals

CONSTANT Events

VARIABLES stage,    \* where each event stands
          effects   \* how often its projection was committed

inbox == <<stage, effects>>

Init ==
    /\ stage = [e \in Events |-> "unseen"]
    /\ effects = [e \in Events |-> 0]

Move(e, from, to) == stage[e] = from /\ stage' = [stage EXCEPT ![e] = to]

Accept(e) == Move(e, "unseen", "open") /\ UNCHANGED effects

Apply(e) == Move(e, "open", "applied") /\ effects' = [effects EXCEPT ![e] = @ + 1]

SetAside(e) == Move(e, "open", "failed") /\ UNCHANGED effects

Revive(e) == Move(e, "failed", "open") /\ UNCHANGED effects

Next == \E e \in Events : Accept(e) \/ Apply(e) \/ SetAside(e) \/ Revive(e)

Settle(e) == Apply(e) \/ SetAside(e)

SafeSpec == Init /\ [][Next]_inbox
Spec == SafeSpec /\ \A e \in Events : WF_inbox(Settle(e))
=============================================================================
